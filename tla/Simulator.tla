----------------------------- MODULE Simulator -----------------------------
(***************************************************************************)
(* The hosts of the engine: a live call resolved through either entry      *)
(* point, and the trace simulator (src/src/simulator.rs, src/src/bin/      *)
(* hp-guard-simulate.rs, src/src/hp_guard/simulator.py and simulate.py),   *)
(* which loads one or two policies, validates the whole trace and then has *)
(* the engine resolve every event against each policy.                     *)
(*                                                                         *)
(* Every resolution reads the clock anew: a rule of a simulated policy has *)
(* the instants at which its condition holds, and becomes a rule of Engine *)
(* when its resolution begins.                                             *)
(***************************************************************************)
EXTENDS Engine

CONSTANTS Policies,  \* the policies simulations are run with
          Lines,     \* the lines traces are written with
          MaxLines,  \* bound: lines of a trace
          MaxClock   \* bound: instants of the host clock

Instants == 1..MaxClock
Digests == {policy.sha256 : policy \in Policies}

Policy == [sha256 : STRING, default : Defaults,
           rules : Seq([target : Targets, during : SUBSET Instants, action : Actions])]

\* The rules of a policy as they are at an instant; version 1 has no limits.
RulesAt(policy, t) ==
  [n \in DOMAIN policy.rules |->
     [target |-> policy.rules[n].target, holds |-> t \in policy.rules[n].during,
      action |-> policy.rules[n].action, limited |-> FALSE]]

NotExpected == [sha256 |-> "none", decision |-> "none", matched_rules |-> <<>>]
Expected == [sha256 : STRING, decision : Actions, matched_rules : Seq(Nat)] \cup {NotExpected}

\* What a line can have wrong: event_id may also be null.
Parts == {"fields", "version", "sequence", "event_id", "null event_id", "call", "expected"}

\* A separated line has a U+2028 within one of its strings.
Line == [text : {"blank", "json", "separated", "not json"}, wrong : SUBSET Parts,
         sequence : Nat, call : Calls, expected : Expected]

ASSUME PoliciesAssumption ==
  /\ MaxLines \in Nat /\ MaxClock \in Nat \ {0}
  /\ Policies \subseteq Policy /\ NotExpected.sha256 \notin Digests
  /\ \A policy \in Policies, t \in Instants : RulesAt(policy, t) \in Seq(Rules)
ASSUME LinesAssumption == Lines \subseteq Line

VARIABLES
  host,      \* "live", or where the simulation is
  runtime,
  policies,  \* the baseline and, when there is one, the candidate
  lines,     \* history: the lines of the trace so far
  expected_sequence,
  events,    \* Vec<TraceEvent>
  clock,
  results,   \* of the event being simulated
  reports,
  failure    \* code and line of the error

traceVars == <<lines, expected_sequence, events>>
reportVars == <<results, reports>>
simulation == <<host, runtime, policies, traceVars, clock, reportVars, failure>>
simVars == <<vars, simulation>>

NoFailure == [code |-> "none", line |-> 0]

\* The two engines resolve a call in the same way.
Live == host = "live" /\ runtime = "rust" /\ Init

NoResolution ==
  /\ rules = <<>> /\ call \in Calls /\ default \in Defaults /\ api = "pure"
  /\ pc = "done" /\ i = 1 /\ matching = <<>>
  /\ best = 0 /\ selected = 0 /\ decision = default /\ consumed = 0

SimInit ==
  /\ Live \/ (host = "load" /\ runtime \in {"rust", "python"} /\ NoResolution)
  /\ policies = <<>>
  /\ lines = <<>> /\ expected_sequence = 1 /\ events = <<>>
  /\ clock = 1 /\ results = <<>> /\ reports = <<>> /\ failure = NoFailure

Fail(code, line) == host' = "failed" /\ failure' = [code |-> code, line |-> line]

-----------------------------------------------------------------------------
(* The command line. *)

LoadPolicies ==
  /\ host = "load"
  /\ \E baseline \in Policies :
       policies' \in {<<baseline>>} \cup {<<baseline, candidate>> : candidate \in Policies}
  /\ host' = "trace"
  /\ UNCHANGED <<vars, runtime, traceVars, clock, reportVars, failure>>

\* An argument, a file or a policy is not as it should be.
LoadFails ==
  /\ host = "load"
  /\ \E code \in {"invalid_arguments", "io_error", "policy_error"} : Fail(code, 0)
  /\ UNCHANGED <<vars, runtime, policies, traceVars, clock, reportVars>>

-----------------------------------------------------------------------------
(* parse_trace. *)

\* Mutant of SkipBlank: a blank line counts as an event.
SkipBlankCounted(line) ==
  /\ host = "trace" /\ Len(lines) < MaxLines /\ line.text = "blank"
  /\ lines' = Append(lines, line) /\ expected_sequence' = expected_sequence + 1
  /\ UNCHANGED <<vars, host, runtime, policies, events, clock, reportVars, failure>>

SkipBlank(line) ==
  /\ host = "trace" /\ Len(lines) < MaxLines /\ line.text = "blank"
  /\ lines' = Append(lines, line)
  /\ UNCHANGED <<vars, host, runtime, policies, expected_sequence, events, clock, reportVars, failure>>

\* splitlines of the Python runtime ends a line at a U+2028.
BadJson(line) == line.text = "not json" \/ (runtime = "python" /\ line.text = "separated")

\* Only the Python runtime takes a null event_id for an absent one.
Invalid(line, part) ==
  part \in line.wrong \/ (part = "event_id" /\ runtime = "rust" /\ "null event_id" \in line.wrong)

\* What parse_event looks at, in this order, and the error it gives.
EventChecks ==
  <<[part |-> "fields",   code |-> "invalid_trace_record"],
    [part |-> "version",  code |-> "unsupported_trace_version"],
    [part |-> "sequence", code |-> "invalid_trace_sequence"],
    [part |-> "event_id", code |-> "invalid_trace_record"],
    [part |-> "call",     code |-> "invalid_trace_call"],
    [part |-> "expected", code |-> "invalid_trace_expected"]>>

ValidEvent(line) == \A n \in DOMAIN EventChecks : ~Invalid(line, EventChecks[n].part)

Reading(line) == host = "trace" /\ Len(lines) < MaxLines /\ line.text # "blank"

RefuseJson(line) ==
  /\ Reading(line) /\ BadJson(line)
  /\ lines' = Append(lines, line) /\ Fail("invalid_trace_json", Len(lines'))
  /\ UNCHANGED <<vars, runtime, policies, expected_sequence, events, clock, reportVars>>

RefuseEvent(line) ==
  /\ Reading(line) /\ ~BadJson(line)
  /\ lines' = Append(lines, line)
  /\ \E n \in DOMAIN EventChecks :
       /\ Invalid(line, EventChecks[n].part)
       /\ \A m \in 1..(n - 1) : ~Invalid(line, EventChecks[m].part)
       /\ Fail(EventChecks[n].code, Len(lines'))
  /\ UNCHANGED <<vars, runtime, policies, expected_sequence, events, clock, reportVars>>

RefuseOrder(line) ==
  /\ Reading(line) /\ ~BadJson(line) /\ ValidEvent(line)
  /\ line.sequence # expected_sequence
  /\ lines' = Append(lines, line) /\ Fail("invalid_trace_sequence", Len(lines'))
  /\ UNCHANGED <<vars, runtime, policies, expected_sequence, events, clock, reportVars>>

AcceptEvent(line) ==
  /\ Reading(line) /\ ~BadJson(line) /\ ValidEvent(line)
  /\ line.sequence = expected_sequence
  /\ lines' = Append(lines, line) /\ events' = Append(events, line)
  /\ expected_sequence' = expected_sequence + 1
  /\ UNCHANGED <<vars, host, runtime, policies, clock, reportVars, failure>>

EndTrace ==
  /\ host = "trace"
  /\ host' = "events"
  /\ UNCHANGED <<vars, runtime, policies, traceVars, clock, reportVars, failure>>

-----------------------------------------------------------------------------
(* simulate_trace. *)

Tick ==
  /\ host = "events" /\ clock < MaxClock
  /\ clock' = clock + 1
  /\ UNCHANGED <<vars, host, runtime, policies, traceVars, reportVars, failure>>

Event == events[Len(reports) + 1]

\* simulate_policy calls resolve_call, which reads the clock.
BeginResolution ==
  /\ host = "events" /\ Len(reports) < Len(events) /\ Len(results) < Len(policies)
  /\ LET policy == policies[Len(results) + 1] IN
       rules' = RulesAt(policy, clock) /\ default' = policy.default
  /\ call' = Event.call /\ pc' = "filter" /\ i' = 1 /\ matching' = <<>>
  /\ best' = 0 /\ selected' = 0 /\ decision' = "none" /\ consumed' = 0
  /\ host' = "resolving"
  /\ UNCHANGED <<api, runtime, policies, traceVars, clock, reportVars, failure>>

Resolve == host \in {"live", "resolving"} /\ Next /\ UNCHANGED simulation

\* Mutant of MatchesExpected: the policy the expectation is about is ignored.
MatchesAnyExpected(policy) ==
  IF Event.expected = NotExpected THEN {}
  ELSE {Event.expected.decision = decision /\ Event.expected.matched_rules = matching}

\* matches_expected, when there is one.
MatchesExpected(policy) ==
  IF Event.expected.sha256 # policy.sha256 THEN {}
  ELSE {Event.expected.decision = decision /\ Event.expected.matched_rules = matching}

EndResolution ==
  /\ host = "resolving" /\ pc = "done"
  /\ LET policy == policies[Len(results) + 1] IN
       results' = Append(results, [sha256 |-> policy.sha256, decision |-> decision,
                                   matched_rules |-> matching, at |-> clock,
                                   matches_expected |-> MatchesExpected(policy)])
  /\ host' = "events"
  /\ UNCHANGED <<vars, runtime, policies, traceVars, clock, reports, failure>>

\* Mutant of Comparison: the candidate is compared with the expectation.
ComparisonWithExpected ==
  IF Len(results) < 2 THEN {}
  ELSE {[action_changed |-> Event.expected.decision # results[2].decision,
         matched_rules_changed |-> Event.expected.matched_rules # results[2].matched_rules]}

\* Present when there are two policies.
Comparison ==
  IF Len(results) < 2 THEN {}
  ELSE {[action_changed |-> results[1].decision # results[2].decision,
         matched_rules_changed |-> results[1].matched_rules # results[2].matched_rules]}

Report ==
  /\ host = "events" /\ Len(reports) < Len(events) /\ Len(results) = Len(policies)
  /\ reports' = Append(reports, [sequence |-> Event.sequence, expected |-> Event.expected,
                                 results |-> results, comparison |-> Comparison])
  /\ results' = <<>>
  /\ UNCHANGED <<vars, host, runtime, policies, traceVars, clock, failure>>

\* Everything is written at once, at the end.
WriteReports ==
  /\ host = "events" /\ Len(reports) = Len(events)
  /\ (host' = "printed" /\ UNCHANGED failure) \/ Fail("io_error", 0)
  /\ UNCHANGED <<vars, runtime, policies, traceVars, clock, reportVars>>

SimNext ==
  \/ LoadPolicies \/ LoadFails
  \/ \E line \in Lines : SkipBlank(line) \/ RefuseJson(line) \/ RefuseEvent(line)
                         \/ RefuseOrder(line) \/ AcceptEvent(line)
  \/ EndTrace \/ Tick \/ BeginResolution \/ Resolve \/ EndResolution \/ Report \/ WriteReports

SimSpec == SimInit /\ [][SimNext]_simVars

-----------------------------------------------------------------------------
(* Properties. *)

SimTypeOK ==
  /\ TypeOK
  /\ host \in {"live", "load", "trace", "events", "resolving", "printed", "failed"}
  /\ runtime \in {"rust", "python"} /\ policies \in Seq(Policies) /\ Len(policies) <= 2
  /\ lines \in Seq(Lines) /\ events \in Seq(Lines) /\ Len(lines) <= MaxLines
  /\ expected_sequence = Len(events) + 1 /\ clock \in Instants
  /\ Len(results) <= Len(policies) /\ Len(reports) <= Len(events)
  /\ failure.line \in 0..Len(lines)

\* Line n has the next sequence.
InSequence(n) == lines[n].sequence = Cardinality({k \in 1..n : lines[k].text # "blank"})

\* policy-simulator-and-trace-format.md: line n is a JSON record, the strings of
\* which may have any character, and nothing of it is wrong, a null event_id
\* included.  No runtime has a say in this.
WellFormed(n) ==
  lines[n].text \in {"json", "separated"} /\ lines[n].wrong = {} /\ InSequence(n)

Good(n) == lines[n].text = "blank" \/ WellFormed(n)

\* Where the Python runtime departs from the format: it takes a null event_id
\* for an absent one, and ends a line at a U+2028.
Tolerated(n) ==
  /\ runtime = "python" /\ lines[n].text = "json"
  /\ lines[n].wrong = {"null event_id"} /\ InSequence(n)
Split(n) == runtime = "python" /\ lines[n].text = "separated"

Taken(n) == (Good(n) /\ ~Split(n)) \/ Tolerated(n)

\* A simulation has the lines S only; an error names the first line not in S,
\* and then there is no report.
CheckedAgainst(S) ==
  /\ host = "failed" /\ failure.line # 0 =>
       /\ failure.line = Len(lines) /\ Len(lines) \notin S /\ reports = <<>>
       /\ 1..(Len(lines) - 1) \subseteq S
  /\ host \in {"events", "resolving", "printed"} => DOMAIN lines \subseteq S
  /\ reports # <<>> => host \in {"events", "resolving", "printed"} \/ failure.code = "io_error"

\* policy-simulator-and-trace-format.md: nothing is simulated unless every line
\* of the trace is blank or well-formed, with consecutive sequences from 1;
\* otherwise the error names the first line that is not, and no report is made.
\* So it is in both runtimes but for the two departures of the Python one.
TraceAcceptedExactly == CheckedAgainst({n \in DOMAIN lines : Taken(n)})

\* The same as the document has it, without an exception: a null event_id is
\* refused, and a U+2028 is a character like any other.
TraceFormatKept == CheckedAgainst({n \in DOMAIN lines : Good(n)})

\* seq lists the members of S in ascending order.
Lists(seq, S) ==
  /\ {seq[n] : n \in DOMAIN seq} = S
  /\ \A n, m \in DOMAIN seq : n < m => seq[n] < seq[m]

\* The rules of a policy that apply to a call at an instant.
Applying(policy, c, t) ==
  {n \in DOMAIN policy.rules :
     /\ t \in policy.rules[n].during
     /\ \A f \in DOMAIN policy.rules[n].target : f \in Fields /\ c[f] = policy.rules[n].target[f]}

\* Result r has the rules that apply to the call and the action of one of them,
\* or the default.
Says(policy, c, t, r) ==
  LET applying == Applying(policy, c, t) IN
  /\ Lists(r.matched_rules, applying)
  /\ IF applying = {} THEN r.decision = policy.default
     ELSE \E n \in applying : r.decision = policy.rules[n].action

\* Result r is that of the policy for event e.
Right(r, policy, e) ==
  /\ r.sha256 = policy.sha256
  /\ Says(policy, e.call, r.at, r)
  /\ r.matches_expected =
       IF e.expected = NotExpected \/ e.expected.sha256 # r.sha256 THEN {}
       ELSE {r.decision = e.expected.decision /\ r.matched_rules = e.expected.matched_rules}

\* 2026-08-11-policy-simulator-and-trace-format.md: a report for each event, in
\* sequence order, with a result of each policy: the rules that apply to that
\* call, the action of one of them or the default, and a comparison with the
\* expectation of the same policy only.
ReportsAsSpecified ==
  \A k \in DOMAIN reports :
    /\ reports[k].sequence = k /\ events[k].sequence = k
    /\ Len(reports[k].results) = Len(policies)
    /\ \A p \in DOMAIN policies : Right(reports[k].results[p], policies[p], events[k])

\* The simulator is deterministic but for the clock: a candidate equal to the
\* baseline, digest included, is reported as a change only when a condition has
\* begun or ceased to hold between the two resolutions.
ChangedForAReason ==
  \A k \in DOMAIN reports : \A change \in reports[k].comparison :
    LET r == reports[k].results IN
    policies[1] = policies[2] /\ (change.action_changed \/ change.matched_rules_changed) =>
      \E n \in DOMAIN policies[1].rules :
        (r[1].at \in policies[1].rules[n].during) # (r[2].at \in policies[1].rules[n].during)
=============================================================================
