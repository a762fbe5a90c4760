------------------------------- MODULE Engine -------------------------------
(***************************************************************************)
(* The resolution of one call against the rules of a policy: the engine    *)
(* (src/src/engine.rs, src/src/hp_guard/engine.py), the matching of targets*)
(* (src/src/matching.rs) and what the two entry points make of a rule with *)
(* a rate limit (Engine::resolve_call_at and RateLimitedPolicyStore of     *)
(* src/src/state.rs).  A call maps fields to values.  Whether the condition*)
(* of a rule holds of the call, at the instant of the resolution, is part  *)
(* of the rule.                                                            *)
(***************************************************************************)
EXTENDS Integers, Sequences, FiniteSets

CONSTANTS Fields,    \* agent, tool, user and the context keys
          Values,
          Rules,     \* the rules policies are made of
          Calls,     \* the calls
          Defaults,  \* the values of global.default_action
          MaxRules   \* bound: rules in a policy

Actions == {"deny", "require_approval", "throttle", "redirect", "allow", "log"}
Absent == "no value"
Unknown == "unknown field"

Targets == UNION {[S -> Values] : S \in SUBSET (Fields \cup {Unknown})}
Rule == [target : Targets, holds : BOOLEAN, action : Actions, limited : BOOLEAN]

ASSUME FieldsAssumption == IsFiniteSet(Fields) /\ Unknown \notin Fields
ASSUME RulesAssumption == Rules \subseteq Rule /\ \A r \in Rules : r.limited => r.action = "allow"
ASSUME CallsAssumption == Absent \notin Values /\ Calls \subseteq [Fields -> Values \cup {Absent}]
ASSUME DefaultsAssumption == Defaults \subseteq Actions /\ MaxRules \in Nat

VARIABLES
  rules, call, default,
  api,       \* the entry point: "pure" or "stateful"
  pc, i,     \* where the resolution is, and its loop index
  matching,  \* the indices of the rules that apply so far
  best,      \* the index of the best rule so far
  selected,  \* the index of the selected rule; 0: none
  decision,
  consumed   \* the rule whose quota the call has taken from; 0: none

inputs == <<rules, call, default, api>>
vars == <<rules, call, default, api, pc, i, matching, best, selected, decision, consumed>>

-----------------------------------------------------------------------------
\* rule_matches_rule, and evaluate_at.
Applies(r) ==
  /\ \A f \in DOMAIN r.target : f \in Fields /\ call[f] = r.target[f]
  /\ r.holds

Specificity(r) == Cardinality(DOMAIN r.target)

Priority(a) ==
  [deny |-> 6, require_approval |-> 5, throttle |-> 4, redirect |-> 3, allow |-> 2, log |-> 1][a]

Init ==
  /\ rules \in UNION {[1..n -> Rules] : n \in 0..MaxRules}
  /\ call \in Calls /\ default \in Defaults /\ api \in {"pure", "stateful"}
  /\ pc = "filter" /\ i = 1 /\ matching = <<>>
  /\ best = 0 /\ selected = 0 /\ decision = "none" /\ consumed = 0

Match ==
  /\ pc = "filter" /\ i <= Len(rules) /\ Applies(rules[i])
  /\ matching' = Append(matching, i) /\ i' = i + 1
  /\ UNCHANGED <<inputs, pc, best, selected, decision, consumed>>

Mismatch ==
  /\ pc = "filter" /\ i <= Len(rules) /\ ~Applies(rules[i])
  /\ i' = i + 1
  /\ UNCHANGED <<inputs, pc, matching, best, selected, decision, consumed>>

\* resolve_call_with_selected_rule_at returns.
Return(action, rule) ==
  /\ decision' = action /\ selected' = rule /\ pc' = "limit"
  /\ UNCHANGED <<inputs, i, matching, best, consumed>>

ReturnDefault ==
  /\ pc = "filter" /\ i > Len(rules) /\ matching = <<>>
  /\ Return(default, 0)

DenyMatches == \E n \in DOMAIN matching : rules[matching[n]].action = "deny"

ReturnDeny ==
  /\ pc = "filter" /\ i > Len(rules) /\ DenyMatches
  /\ Return("deny", 0)

\* Mutant of BeginBest: indices are taken to start at 0.
BeginBestAtZero ==
  /\ pc = "filter" /\ i > Len(rules) /\ matching # <<>> /\ ~DenyMatches
  /\ best' = matching[1] /\ i' = 0 /\ pc' = "best"
  /\ UNCHANGED <<inputs, matching, selected, decision, consumed>>

BeginBest ==
  /\ pc = "filter" /\ i > Len(rules) /\ matching # <<>> /\ ~DenyMatches
  /\ best' = matching[1] /\ i' = 2 /\ pc' = "best"
  /\ UNCHANGED <<inputs, matching, selected, decision, consumed>>

\* Mutant of Better: the later of two equal rules is taken.
BetterOrEqual(new, old) ==
  \/ Specificity(new) > Specificity(old)
  \/ /\ Specificity(new) = Specificity(old)
     /\ Priority(new.action) >= Priority(old.action)

Better(new, old) ==
  \/ Specificity(new) > Specificity(old)
  \/ /\ Specificity(new) = Specificity(old)
     /\ Priority(new.action) > Priority(old.action)

TakeBetter ==
  /\ pc = "best" /\ i <= Len(matching) /\ Better(rules[matching[i]], rules[best])
  /\ best' = matching[i] /\ i' = i + 1
  /\ UNCHANGED <<inputs, pc, matching, selected, decision, consumed>>

KeepBest ==
  /\ pc = "best" /\ i <= Len(matching) /\ ~Better(rules[matching[i]], rules[best])
  /\ i' = i + 1
  /\ UNCHANGED <<inputs, pc, matching, best, selected, decision, consumed>>

ReturnBest ==
  /\ pc = "best" /\ i > Len(matching)
  /\ Return(rules[best].action, best)

\* Mutant of LimitApplies: a limit counts before it is known who wins.
AnyLimitApplies == decision = "allow" /\ \E n \in DOMAIN matching : rules[matching[n]].limited

LimitApplies == decision = "allow" /\ selected # 0 /\ rules[selected].limited

Unlimited ==
  /\ pc = "limit" /\ ~LimitApplies
  /\ pc' = "done"
  /\ UNCHANGED <<inputs, i, matching, best, selected, decision, consumed>>

\* The pure entry point has no quota to take from.
ThrottlePure ==
  /\ pc = "limit" /\ LimitApplies /\ api = "pure"
  /\ decision' = "throttle" /\ pc' = "done"
  /\ UNCHANGED <<inputs, i, matching, best, selected, consumed>>

\* check_and_consume: a slot is taken, none is left, or the store fails.
AskQuota ==
  /\ pc = "limit" /\ LimitApplies /\ api = "stateful"
  /\ \/ consumed' = selected /\ UNCHANGED decision
     \/ consumed' = 0 /\ decision' \in {"throttle", "state_unavailable"}
  /\ pc' = "done"
  /\ UNCHANGED <<inputs, i, matching, best, selected>>

Next ==
  \/ Match \/ Mismatch \/ ReturnDefault \/ ReturnDeny \/ BeginBest
  \/ TakeBetter \/ KeepBest \/ ReturnBest \/ Unlimited \/ ThrottlePure \/ AskQuota

Spec == Init /\ [][Next]_vars

-----------------------------------------------------------------------------
(* Properties. *)

TypeOK ==
  /\ rules \in Seq(Rules) /\ call \in Calls /\ default \in Defaults
  /\ api \in {"pure", "stateful"} /\ pc \in {"filter", "best", "limit", "done"}
  /\ i \in Nat \ {0} /\ matching \in Seq(DOMAIN rules)
  /\ best \in DOMAIN rules \cup {0} /\ selected \in DOMAIN rules \cup {0}
  /\ decision \in Actions \cup {"none", "state_unavailable"}
  /\ consumed \in DOMAIN rules \cup {0}

\* policy-language-v1.md, Resolution: of the rules that apply, the one with the
\* most target fields, then of the highest action priority, then the first.
Applicable == {n \in DOMAIN rules : Applies(rules[n])}

Rank(a) == IF a = "require_approval" THEN 5 ELSE IF a = "throttle" THEN 4
           ELSE IF a = "redirect" THEN 3 ELSE IF a = "allow" THEN 2 ELSE 1

Outranks(n, m) ==
  LET size(r) == Cardinality(DOMAIN rules[r].target)
      rank(r) == Rank(rules[r].action)
  IN  \/ size(n) > size(m)
      \/ size(n) = size(m) /\ rank(n) > rank(m)
      \/ size(n) = size(m) /\ rank(n) = rank(m) /\ n < m

Winner(n) == n \in Applicable /\ \A m \in Applicable \ {n} : Outranks(n, m)

\* What an entry point may answer when rule n is selected.
Answers(n) ==
  IF ~rules[n].limited THEN {rules[n].action}
  ELSE IF api = "pure" THEN {"throttle"} ELSE {"allow", "throttle", "state_unavailable"}

\* The loop of the engine computes what the language defines: deny across all
\* scopes, else the winner, else the default.
ResolvesAsSpecified ==
  pc = "done" =>
    CASE Applicable = {} -> decision = default
      [] \E n \in Applicable : rules[n].action = "deny" -> decision = "deny"
      [] OTHER -> \E n \in Applicable : Winner(n) /\ decision \in Answers(n)

\* v2-fixed-window-rate-limits.md: only a winning allow rule with a limit takes
\* from its quota, and a call a limited rule allows has taken from it.
QuotaOfWinnerOnly ==
  /\ consumed # 0 => decision = "allow" /\ Winner(consumed) /\ rules[consumed].limited
  /\ pc = "done" /\ decision = "allow" /\ consumed = 0
       => \A n \in Applicable : Winner(n) => ~rules[n].limited
=============================================================================
