---------------------------- MODULE PolicyParser ----------------------------
(***************************************************************************)
(* Loading a policy (src/src/parser.rs, src/src/hp_guard/parser.py): the   *)
(* top-level fields are processed in the order of the document, rules at   *)
(* the top and under agents and tools share one list, one index and one    *)
(* set of ids, and one flaw anywhere refuses the whole policy.  What the   *)
(* document says next is chosen when the parser comes to it.  A loaded     *)
(* rule can then have its condition evaluated.                             *)
(*                                                                         *)
(* The two runtimes check a rule in different orders, so that they report  *)
(* different flaws of a rule that has several.                             *)
(***************************************************************************)
EXTENDS ConditionTree, FiniteSets, SequencesExt, Functions

CONSTANTS Strings,   \* the strings policies are written with
          Names,     \* those that are names of agents and tools
          Entries,   \* the rules policies are written with
          Defaults,  \* what global.default_action is set to
          MaxLimit,  \* the largest value of a rate limit, 86400
          MaxRules,  \* bound: rules of a policy
          MaxOffered \* bound: nodes of its conditions, a refused one included

Actions == {"allow", "deny", "throttle", "log", "require_approval", "redirect"}
NoId == "no id"
NoLimit == [max_calls |-> 0, window_seconds |-> 0]
UnknownField == "unknown field"
WordField == "context.no"

\* Strings the code of a runtime refuses as ambiguous: the one has a list of words
\* and refuses whatever is made of digits and signs, the other has patterns.
Ambiguous(rt) == IF rt = "rust" THEN {"no", "y"} ELSE {"no", "2026-08-11T12:00:00Z"}

Entry == [id        : Strings \cup {NoId},
          action    : Actions \cup {"absent", "unknown", "not a string"},
          target    : UNION {[S -> Strings] : S \in SUBSET {"agent", "tool", "user", WordField, UnknownField}},
          limit     : [max_calls : Nat, window_seconds : Nat],
          limited   : BOOLEAN,
          condition : BOOLEAN,  \* it has one
          extra     : BOOLEAN]  \* it has a field rules do not have

ASSUME EntriesAssumption == Entries \subseteq Entry /\ Names \subseteq Strings /\ NoId \notin Strings
ASSUME DefaultsAssumption == Defaults \subseteq Actions
ASSUME ParserBoundsAssumption == MaxLimit \in Nat /\ MaxRules \in Nat /\ MaxOffered \in Nat

Top == "top"
Levels == {Top, "agents", "tools"}
NoTarget == [f \in {} |-> ""]

VARIABLES
  runtime,
  limitable,   \* allow_rate_limit: the entry point is parse_rate_limited
  pc,
  keys,        \* the fields already met in the mappings being read
  enclosing,   \* the target the rules being read inherit
  default,
  rules,       \* Vec<Rule>
  rate_limits, \* rule index to limit
  rule_ids,
  check,       \* the next check of the rule being read
  error,       \* the flaw the policy was refused for
  given        \* history: the rules of the document so far, with what encloses them

documentVars == <<keys, enclosing, default>>
ruleVars == <<rules, rate_limits, rule_ids>>
hostVars == <<runtime, limitable>>
vars == <<runtime, limitable, pc, keys, enclosing, default, rules, rate_limits, rule_ids,
          check, error, given, treeVars>>

Init ==
  /\ runtime \in {"rust", "python"} /\ limitable \in BOOLEAN
  /\ pc = "version" /\ keys = [l \in Levels |-> {}] /\ enclosing = NoTarget
  /\ default = "allow" /\ rules = <<>> /\ rate_limits = [n \in {} |-> NoLimit]
  /\ rule_ids = {} /\ check = 1 /\ error = "none" /\ given = <<>>
  /\ TreeInit

Refuse(flaw) == pc' = "refused" /\ error' = flaw

-----------------------------------------------------------------------------
(* The document around the rules. *)

\* Each entry point takes the one version it was written for.
CheckVersion ==
  /\ pc = "version"
  /\ \E declared \in {"absent", "1", "2", "3"} :
       IF declared = (IF limitable THEN "2" ELSE "1")
         THEN pc' = Top /\ UNCHANGED error
         ELSE Refuse("version")
  /\ UNCHANGED <<hostVars, documentVars, ruleVars, check, given, treeVars>>

\* A mapping is written where another type is expected, has a field it should
\* not have, lacks tools or rules, or default_action is none of the actions.
RefuseStructure ==
  /\ pc \in Levels \cup {"rules"}
  /\ Refuse("structure")
  /\ UNCHANGED <<hostVars, documentVars, ruleVars, check, given, treeVars>>

Meet(level, key) ==
  /\ pc = level /\ key \notin keys[level]
  /\ keys' = [keys EXCEPT ![level] = @ \cup {key}]

ReadGlobal ==
  /\ Meet(Top, "global")
  /\ default' \in Defaults
  /\ UNCHANGED <<hostVars, pc, enclosing, ruleVars, check, error, given, treeVars>>

ReadTopRules ==
  /\ Meet(Top, "rules")
  /\ pc' = "rules" /\ enclosing' = NoTarget
  /\ UNCHANGED <<hostVars, default, ruleVars, check, error, given, treeVars>>

ReadAgents ==
  /\ Meet(Top, "agents")
  /\ pc' = "agents"
  /\ UNCHANGED <<hostVars, enclosing, default, ruleVars, check, error, given, treeVars>>

ReadAgent(name) ==
  /\ Meet("agents", name)
  /\ pc' = "tools" /\ enclosing' = [f \in {"agent"} |-> name]
  /\ UNCHANGED <<hostVars, default, ruleVars, check, error, given, treeVars>>

ReadTool(name) ==
  /\ Meet("tools", name)
  /\ pc' = "rules" /\ enclosing' = [f \in {"agent", "tool"} |-> IF f = "agent" THEN enclosing.agent ELSE name]
  /\ UNCHANGED <<hostVars, default, ruleVars, check, error, given, treeVars>>

EndRules ==
  /\ pc = "rules"
  /\ pc' = IF enclosing = NoTarget THEN Top ELSE "tools"
  /\ UNCHANGED <<hostVars, documentVars, ruleVars, check, error, given, treeVars>>

EndTools ==
  /\ pc = "tools"
  /\ pc' = "agents" /\ keys' = [keys EXCEPT !["tools"] = {}] /\ enclosing' = NoTarget
  /\ UNCHANGED <<hostVars, default, ruleVars, check, error, given, treeVars>>

EndAgents ==
  /\ pc = "agents"
  /\ pc' = Top
  /\ UNCHANGED <<hostVars, documentVars, ruleVars, check, error, given, treeVars>>

EndDocument ==
  /\ pc = Top
  /\ pc' = "loaded"
  /\ UNCHANGED <<hostVars, documentVars, ruleVars, check, error, given, treeVars>>

-----------------------------------------------------------------------------
(* add_rule. *)

ReadRule(entry) ==
  /\ pc = "rules" /\ Len(given) < MaxRules
  /\ given' = Append(given, [entry |-> entry, enclosing |-> enclosing])
  /\ pc' = "rule" /\ check' = 1
  /\ UNCHANGED <<hostVars, documentVars, ruleVars, error, treeVars>>

Rule == Last(given).entry

LimitInRange(l) == l.max_calls \in 1..MaxLimit /\ l.window_seconds \in 1..MaxLimit

MalformedTarget(target) ==
  \/ UnknownField \in DOMAIN target
  \/ Range(target) \cap Ambiguous(runtime) # {}
  \/ runtime = "python" /\ WordField \in DOMAIN target

Conflict(target, outer) ==
  \E f \in DOMAIN target \cap DOMAIN outer : target[f] # outer[f]

\* What each check looks for in the rule being read.
Flaw(flaw) ==
  CASE flaw = "fields"      -> Rule.extra \/ (Rule.limited /\ ~limitable)
    [] flaw = "action type" -> Rule.action = "not a string"
    [] flaw = "no action"   -> Rule.action = "absent"
    [] flaw = "id"          -> Rule.id \in Ambiguous(runtime)
    [] flaw = "duplicate"   -> Rule.id \in rule_ids
    [] flaw = "target"      -> MalformedTarget(Rule.target)
    [] flaw = "conflict"    -> Conflict(Rule.target, enclosing)
    [] flaw = "action"      -> Rule.action \notin Actions \cup {"absent"}
    [] flaw = "limit"       -> Rule.limited /\ ~LimitInRange(Rule.limit)
    [] flaw = "limited"     -> Rule.limited /\ Rule.action # "allow"

\* Mutant of Checks: nobody looks at the action of a rule with a limit.
ChecksWithoutLimited ==
  <<{"fields", "action type", "id", "limit"}, {"no action"}, {"duplicate"}, {"action"},
    {"target"}, {"conflict"}, {"condition"}>>

\* Each check, and the flaws that stop it.  What the Rust runtime checks while
\* it reads the fields of a rule it meets in the order of the document.
Checks ==
  IF runtime = "rust"
    THEN <<{"fields", "action type", "id", "limit"}, {"no action"}, {"duplicate"}, {"action"},
           {"limited"}, {"target"}, {"conflict"}, {"condition"}>>
    ELSE <<{"fields"}, {"no action"}, {"id"}, {"duplicate"}, {"target"}, {"conflict"},
           {"condition"}, {"action"}, {"limit"}, {"limited"}>>

Checking(flaws) == pc = "rule" /\ check <= Len(Checks) /\ Checks[check] = flaws

CheckFails ==
  /\ pc = "rule" /\ check <= Len(Checks)
  /\ \E flaw \in Checks[check] \ {"condition"} : Flaw(flaw) /\ Refuse(flaw)
  /\ UNCHANGED <<hostVars, documentVars, ruleVars, check, given, treeVars>>

\* Mutant of NewIds: a rule without an id counts as one with an empty id.
NewIdsAny == {Rule.id}

NewIds == {Rule.id} \ {NoId}

CheckPasses ==
  /\ pc = "rule" /\ check <= Len(Checks) /\ ~Checking({"condition"})
  /\ \A flaw \in Checks[check] : ~Flaw(flaw)
  /\ check' = check + 1
  /\ rule_ids' = IF Checking({"duplicate"}) THEN rule_ids \cup NewIds ELSE rule_ids
  /\ UNCHANGED <<hostVars, pc, documentVars, rules, rate_limits, error, given, treeVars>>

NoCondition ==
  /\ Checking({"condition"}) /\ ~Rule.condition
  /\ tree' = DefaultTree /\ treePc' = "parsed"
  /\ check' = check + 1
  /\ UNCHANGED <<hostVars, pc, documentVars, ruleVars, error, given, frames, depth, nodes, evaluation>>

ReadCondition ==
  /\ Checking({"condition"}) /\ Rule.condition
  /\ pc' = "condition" /\ BeginCondition
  /\ UNCHANGED <<hostVars, documentVars, ruleVars, check, error, given>>

Offered == SumFunction([n \in DOMAIN rules |-> Len(rules[n].condition)]) + Len(tree)

ParseCondition ==
  /\ pc = "condition" /\ ParseStep
  /\ UNCHANGED <<hostVars, pc, documentVars, ruleVars, check, error, given>>
  /\ Offered' <= MaxOffered

ConditionRefused ==
  /\ pc = "condition" /\ treePc = "invalid"
  /\ Refuse("condition")
  /\ UNCHANGED <<hostVars, documentVars, ruleVars, check, given, treeVars>>

ConditionRead ==
  /\ pc = "condition" /\ treePc = "parsed"
  /\ pc' = "rule" /\ check' = check + 1
  /\ UNCHANGED <<hostVars, documentVars, ruleVars, error, given, treeVars>>

Merged(target, outer) ==
  [f \in DOMAIN target \cup DOMAIN outer |-> IF f \in DOMAIN outer THEN outer[f] ELSE target[f]]

WithLimit(index) ==
  [n \in DOMAIN rate_limits \cup {index} |-> IF n = index THEN Rule.limit ELSE rate_limits[n]]

\* Mutant of PushRule: only limited rules are counted.
PushRuleMiscounted ==
  /\ pc = "rule" /\ check > Len(Checks)
  /\ rules' = Append(rules, [action |-> Rule.action, target |-> Merged(Rule.target, enclosing),
                             condition |-> tree, rule_index |-> Cardinality(DOMAIN rate_limits)])
  /\ rate_limits' = (IF Rule.limited THEN WithLimit(Cardinality(DOMAIN rate_limits)) ELSE rate_limits)
  /\ pc' = "rules" /\ tree' = <<>> /\ treePc' = "none"
  /\ UNCHANGED <<hostVars, documentVars, rule_ids, check, error, given, frames, depth, nodes, evaluation>>

PushRule ==
  /\ pc = "rule" /\ check > Len(Checks)
  /\ rules' = Append(rules, [action |-> Rule.action, target |-> Merged(Rule.target, enclosing),
                             condition |-> tree, rule_index |-> Len(rules)])
  /\ rate_limits' = (IF Rule.limited THEN WithLimit(Len(rules)) ELSE rate_limits)
  /\ pc' = "rules" /\ tree' = <<>> /\ treePc' = "none"
  /\ UNCHANGED <<hostVars, documentVars, rule_ids, check, error, given, frames, depth, nodes, evaluation>>

-----------------------------------------------------------------------------
(* A call: the condition of a rule is evaluated. *)

EvaluateRule ==
  /\ pc = "loaded" /\ treePc = "none"
  /\ \E n \in DOMAIN rules : BeginEvaluation(rules[n].condition)
  /\ UNCHANGED <<hostVars, pc, documentVars, ruleVars, check, error, given>>

Evaluate ==
  /\ pc = "loaded" /\ EvaluateStep
  /\ UNCHANGED <<hostVars, pc, documentVars, ruleVars, check, error, given>>

Next ==
  \/ CheckVersion \/ RefuseStructure \/ ReadGlobal \/ ReadTopRules \/ ReadAgents
  \/ \E name \in Names : ReadAgent(name) \/ ReadTool(name)
  \/ EndRules \/ EndTools \/ EndAgents \/ EndDocument
  \/ \E entry \in Entries : ReadRule(entry)
  \/ CheckFails \/ CheckPasses \/ NoCondition \/ ReadCondition \/ ParseCondition
  \/ ConditionRefused \/ ConditionRead \/ PushRule
  \/ EvaluateRule \/ Evaluate

Spec == Init /\ [][Next]_vars

-----------------------------------------------------------------------------
(* Properties. *)

EntryIds == {entry.id : entry \in Entries} \ {NoId}

TypeOK ==
  /\ TreeTypeOK
  /\ runtime \in {"rust", "python"} /\ limitable \in BOOLEAN
  /\ pc \in Levels \cup {"version", "rules", "rule", "condition", "loaded", "refused"}
  /\ keys \in [Levels -> SUBSET (Names \cup {"global", "rules", "agents"})]
  /\ DOMAIN enclosing \in {{}, {"agent"}, {"agent", "tool"}} /\ Range(enclosing) \subseteq Names
  /\ default \in Defaults \cup {"allow"}
  /\ \A n \in DOMAIN rules : rules[n].action \in Actions /\ rules[n].rule_index \in Nat
  /\ DOMAIN rate_limits \subseteq 0..(Len(rules) - 1)
  /\ rule_ids \subseteq EntryIds
  /\ check \in 1..(Len(Checks) + 1)
  /\ Len(given) \in {Len(rules), Len(rules) + 1} /\ Len(given) <= MaxRules

\* policy-language-v1.md: in string fields boolean words, timestamps and numbers
\* are refused, in any runtime; WordField has the word no as a field of its own.
AmbiguousScalars == {"no", "y", "2026-08-11T12:00:00Z"}

\* What a runtime overlooks of these: its list of words or forms is not complete,
\* and the Rust runtime does not look at the names of a context's fields.
Overlooked(rt) == IF rt = "rust" THEN {"2026-08-11T12:00:00Z", WordField} ELSE {"y"}

HasAmbiguous(e, spared) ==
  \/ ({e.id} \cup Range(e.target)) \cap (AmbiguousScalars \ spared) # {}
  \/ WordField \in DOMAIN e.target /\ WordField \notin spared

\* The n-th rule of the document has no flaw by itself and none with the others,
\* but for the ambiguous scalars that are spared.
Flawless(n, spared) ==
  LET e == given[n].entry IN
  /\ ~e.extra /\ e.action \in Actions /\ UnknownField \notin DOMAIN e.target
  /\ e.limited => limitable /\ e.action = "allow" /\ LimitInRange(e.limit)
  /\ ~HasAmbiguous(e, spared) /\ ~Conflict(e.target, given[n].enclosing)
  /\ \A k \in 1..(n - 1) : e.id = NoId \/ given[k].entry.id # e.id

\* versioned-policy-extension-process.md, policy-language-v1.md: a policy with a
\* flaw never becomes active, and no flawless rule is refused.  The checks and
\* their order differ, but the runtimes differ only in the rules all of whose flaws
\* are scalars that one of them overlooks, which AmbiguousRefused is about.
ExactlyValidAccepted ==
  /\ \A n \in DOMAIN rules : Flawless(n, Overlooked(runtime))
  /\ pc = "refused" /\ error \notin {"version", "structure"} =>
       ~Flawless(Len(given), Overlooked(runtime)) \/ treePc = "invalid"
  /\ pc = "loaded" => Len(rules) = Len(given)

\* policy-language-v1.md: no runtime keeps a rule with an ambiguous scalar.
AmbiguousRefused == \A n \in DOMAIN rules : ~HasAmbiguous(given[n].entry, {})

Agrees(target, written, outer) ==
  /\ DOMAIN target = DOMAIN written \cup DOMAIN outer
  /\ \A f \in DOMAIN written : target[f] = written[f]
  /\ \A f \in DOMAIN outer : target[f] = outer[f]

\* Rules are kept in the order of the document across its sections, each with the
\* target it is written with and the one its place in the document gives it, and
\* the limits with the rules they were written for: what the engine's tie-break,
\* the indices of the audit records and the quotas rely on.
LoadedAsWritten ==
  /\ \A n \in DOMAIN rules :
       /\ rules[n].rule_index = n - 1
       /\ rules[n].action = given[n].entry.action
       /\ Agrees(rules[n].target, given[n].entry.target, given[n].enclosing)
  /\ DOMAIN rate_limits = {n - 1 : n \in {k \in DOMAIN rules : given[k].entry.limited}}
  /\ \A n \in DOMAIN rate_limits : rate_limits[n] = given[n + 1].entry.limit
=============================================================================
