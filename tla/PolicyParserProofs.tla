------------------------- MODULE PolicyParserProofs -------------------------
(***************************************************************************)
(* The parser keeps its types, accepts exactly the sound rules and stores  *)
(* them as written, and its conditions are within the limits and evaluate  *)
(* to what the language defines, for any strings, entries, nodes, instants *)
(* and limits.                                                             *)
(***************************************************************************)
EXTENDS PolicyParser, ConditionTreeProofs

Fields == {"agent", "tool", "user", WordField, UnknownField}
Targets == UNION {[S -> Strings] : S \in SUBSET Fields}
Outer == {NoTarget} \cup [{"agent"} -> Names] \cup [{"agent", "tool"} -> Names]

Between == Levels \cup {"version", "rules"}

DuplicateAt == IF runtime = "rust" THEN 3 ELSE 4
ConditionAt == IF runtime = "rust" THEN 8 ELSE 7
LastCheck == IF runtime = "rust" THEN 8 ELSE 10

\* Some check looks for the flaw.
Looked(flaw) == \E k \in 1..LastCheck : flaw \in Checks[k]

AllFlaws == {"fields", "action type", "no action", "id", "duplicate", "target", "conflict",
             "condition", "action", "limit", "limited"}

DocumentTypes ==
  /\ runtime \in {"rust", "python"} /\ limitable \in BOOLEAN
  /\ pc \in Between \cup {"rule", "condition", "loaded", "refused"}
  /\ keys \in [Levels -> SUBSET (Names \cup {"global", "rules", "agents"})]
  /\ enclosing \in Outer /\ (pc = "tools" => enclosing # NoTarget)
  /\ default \in Defaults \cup {"allow"}
  /\ rules \in Seq([action : Actions, target : Targets, condition : Seq(TreeNode), rule_index : Nat])
  /\ check \in 1..(LastCheck + 1)
  /\ given \in Seq([entry : Entries, enclosing : Outer]) /\ Len(given) <= MaxRules

\* Where the parser is in the document and where in the tree.
Place ==
  /\ Len(given) \in {Len(rules), Len(rules) + 1}
  /\ pc \in {"rule", "condition"} =>
       Len(given) = Len(rules) + 1 /\ given[Len(given)].enclosing = enclosing
  /\ pc \in Between \cup {"loaded"} => Len(given) = Len(rules)
  /\ pc = "condition" => check = ConditionAt
  /\ pc # "loaded" => path = <<>>
  /\ pc = "rule" => treePc = (IF check > ConditionAt THEN "parsed" ELSE "none")
  /\ pc \in Between => treePc = "none"
  /\ treePc = "none" => tree = <<>>

\* The ids of the rules whose ids are recorded.
Recorded == IF Len(given) > Len(rules) /\ check <= DuplicateAt THEN Len(rules) ELSE Len(given)
IdsKnown == rule_ids = {given[k].entry.id : k \in 1..Recorded} \ {NoId}

\* The n-th rule passes what the code of the runtime checks.
Fit(n) ==
  LET e == given[n].entry IN
  /\ ~e.extra /\ e.action \in Actions /\ e.id \notin Ambiguous(runtime)
  /\ e.limited => limitable /\ e.action = "allow" /\ LimitInRange(e.limit)
  /\ ~MalformedTarget(e.target) /\ ~Conflict(e.target, given[n].enclosing)
  /\ \A k \in 1..(n - 1) : e.id = NoId \/ given[k].entry.id # e.id

Stored == \A n \in DOMAIN rules : Fit(n) /\ GoodTree(rules[n].condition)

NewIdOf(n) == \A k \in 1..(n - 1) : given[n].entry.id = NoId \/ given[k].entry.id # given[n].entry.id

\* What the checks the rule has passed have shown.
Checked ==
  pc \in {"rule", "condition"} =>
    /\ \A k \in 1..(check - 1) : \A flaw \in Checks[k] \ {"duplicate", "condition"} : ~Flaw(flaw)
    /\ check > DuplicateAt => NewIdOf(Len(given))

Refusal ==
  pc = "refused" /\ error \notin {"version", "structure"} =>
    ~Fit(Len(given)) \/ treePc = "invalid"

Inv ==
  /\ DocumentTypes /\ Place /\ IdsKnown /\ Stored /\ LoadedAsWritten /\ Checked /\ Refusal
  /\ TreeInv

-----------------------------------------------------------------------------
LEMMA LastIn ==
  ASSUME NEW S, NEW s \in Seq(S), Len(s) > 0
  PROVE  s[Len(s)] \in S
OBVIOUS

LEMMA ElementIn ==
  ASSUME NEW S, NEW s \in Seq(S), NEW n \in DOMAIN s
  PROVE  s[n] \in S
OBVIOUS

LEMMA RecordedBound ==
  ASSUME Len(rules) \in Nat, Len(given) \in Nat, Len(given) \in {Len(rules), Len(rules) + 1}
  PROVE  Recorded \in Nat /\ Recorded <= Len(given)
<1>1. Recorded = Len(rules) \/ Recorded = Len(given)
  BY DEF Recorded
<1> QED
  BY <1>1

\* What the list of checks of each runtime contains.
LEMMA CheckList ==
  ASSUME runtime \in {"rust", "python"}
  PROVE  /\ Len(Checks) = LastCheck /\ DOMAIN Checks = 1..LastCheck
         /\ \A k \in 1..LastCheck :
              /\ Checks[k] \subseteq AllFlaws
              /\ Checks[k] = {"duplicate"} <=> k = DuplicateAt
              /\ "duplicate" \in Checks[k] <=> k = DuplicateAt
              /\ Checks[k] = {"condition"} <=> k = ConditionAt
              /\ "condition" \in Checks[k] <=> k = ConditionAt
         /\ Looked("fields") /\ Looked("no action") /\ Looked("id") /\ Looked("target")
         /\ Looked("conflict") /\ Looked("action") /\ Looked("limit") /\ Looked("limited")
<1>1. CASE runtime = "rust"
  <2>1. Len(Checks) = 8 /\ DOMAIN Checks = 1..8
    BY <1>1 DEF Checks
  <2>2. /\ Checks[1] = {"fields", "action type", "id", "limit"} /\ Checks[2] = {"no action"}
        /\ Checks[3] = {"duplicate"} /\ Checks[4] = {"action"}
        /\ Checks[5] = {"limited"} /\ Checks[6] = {"target"}
        /\ Checks[7] = {"conflict"} /\ Checks[8] = {"condition"}
    BY <1>1 DEF Checks
  <2>3. /\ "duplicate" \notin Checks[1] /\ "condition" \notin Checks[1]
        /\ "duplicate" \notin Checks[2] /\ "condition" \notin Checks[2]
        /\ "duplicate" \in Checks[3] /\ "condition" \notin Checks[3]
        /\ "duplicate" \notin Checks[4] /\ "condition" \notin Checks[4]
        /\ "duplicate" \notin Checks[5] /\ "condition" \notin Checks[5]
        /\ "duplicate" \notin Checks[6] /\ "condition" \notin Checks[6]
        /\ "duplicate" \notin Checks[7] /\ "condition" \notin Checks[7]
        /\ "duplicate" \notin Checks[8] /\ "condition" \in Checks[8]
    BY <2>2
  <2>4. ASSUME NEW k \in 1..8
        PROVE  /\ "duplicate" \in Checks[k] <=> k = 3
               /\ "condition" \in Checks[k] <=> k = 8
    <3>1. k = 1 \/ k = 2 \/ k = 3 \/ k = 4 \/ k = 5 \/ k = 6 \/ k = 7 \/ k = 8
      OBVIOUS
    <3> QED
      BY <2>3, <3>1
  <2>5. Checks[3] = {"duplicate"} /\ Checks[8] = {"condition"}
    BY <2>2
  <2>6. ASSUME NEW k \in 1..8
        PROVE  /\ Checks[k] = {"duplicate"} => k = 3
               /\ Checks[k] = {"condition"} => k = 8
    BY <2>4
  <2>7. /\ "fields" \in Checks[1] /\ "action type" \in Checks[1] /\ "no action" \in Checks[2]
        /\ "id" \in Checks[1] /\ "target" \in Checks[6] /\ "conflict" \in Checks[7]
        /\ "action" \in Checks[4] /\ "limit" \in Checks[1] /\ "limited" \in Checks[5]
    BY <2>2
  <2>8. LastCheck = 8 /\ DuplicateAt = 3 /\ ConditionAt = 8
    BY <1>1 DEF LastCheck, DuplicateAt, ConditionAt
  <2>9. /\ Looked("fields") /\ Looked("no action") /\ Looked("id") /\ Looked("target")
        /\ Looked("conflict") /\ Looked("action") /\ Looked("limit") /\ Looked("limited")
    <3>1. \A flaw : \A k \in 1..8 : flaw \in Checks[k] => Looked(flaw)
      BY <2>8 DEF Looked
    <3>2. 1 \in 1..8 /\ 2 \in 1..8 /\ 4 \in 1..8 /\ 5 \in 1..8 /\ 6 \in 1..8 /\ 7 \in 1..8
      OBVIOUS
    <3> QED
      BY <2>7, <3>1, <3>2
  <2>11. ASSUME NEW k \in 1..8
         PROVE  Checks[k] \subseteq AllFlaws
    <3>1. k = 1 \/ k = 2 \/ k = 3 \/ k = 4 \/ k = 5 \/ k = 6 \/ k = 7 \/ k = 8
      OBVIOUS
    <3>2. /\ Checks[1] \subseteq AllFlaws /\ Checks[2] \subseteq AllFlaws
          /\ Checks[3] \subseteq AllFlaws /\ Checks[4] \subseteq AllFlaws
          /\ Checks[5] \subseteq AllFlaws /\ Checks[6] \subseteq AllFlaws
          /\ Checks[7] \subseteq AllFlaws /\ Checks[8] \subseteq AllFlaws
      BY <2>2 DEF AllFlaws
    <3> QED
      BY <3>1, <3>2
  <2>10. /\ \A k \in 1..8 : Checks[k] = {"duplicate"} <=> k = 3
         /\ \A k \in 1..8 : Checks[k] = {"condition"} <=> k = 8
    BY <2>5, <2>6
  <2> QED
    BY <2>1, <2>4, <2>8, <2>9, <2>10, <2>11
<1>2. CASE runtime = "python"
  <2>1. Len(Checks) = 10 /\ DOMAIN Checks = 1..10
    BY <1>2 DEF Checks
  <2>2. /\ Checks[1] = {"fields"} /\ Checks[2] = {"no action"}
        /\ Checks[3] = {"id"} /\ Checks[4] = {"duplicate"}
        /\ Checks[5] = {"target"} /\ Checks[6] = {"conflict"}
        /\ Checks[7] = {"condition"} /\ Checks[8] = {"action"}
        /\ Checks[9] = {"limit"} /\ Checks[10] = {"limited"}
    BY <1>2 DEF Checks
  <2>3. /\ "duplicate" \notin Checks[1] /\ "condition" \notin Checks[1]
        /\ "duplicate" \notin Checks[2] /\ "condition" \notin Checks[2]
        /\ "duplicate" \notin Checks[3] /\ "condition" \notin Checks[3]
        /\ "duplicate" \in Checks[4] /\ "condition" \notin Checks[4]
        /\ "duplicate" \notin Checks[5] /\ "condition" \notin Checks[5]
        /\ "duplicate" \notin Checks[6] /\ "condition" \notin Checks[6]
        /\ "duplicate" \notin Checks[7] /\ "condition" \in Checks[7]
        /\ "duplicate" \notin Checks[8] /\ "condition" \notin Checks[8]
        /\ "duplicate" \notin Checks[9] /\ "condition" \notin Checks[9]
        /\ "duplicate" \notin Checks[10] /\ "condition" \notin Checks[10]
    BY <2>2
  <2>4. ASSUME NEW k \in 1..10
        PROVE  /\ "duplicate" \in Checks[k] <=> k = 4
               /\ "condition" \in Checks[k] <=> k = 7
    <3>1. k = 1 \/ k = 2 \/ k = 3 \/ k = 4 \/ k = 5 \/ k = 6 \/ k = 7 \/ k = 8 \/ k = 9 \/ k = 10
      OBVIOUS
    <3> QED
      BY <2>3, <3>1
  <2>5. Checks[4] = {"duplicate"} /\ Checks[7] = {"condition"}
    BY <2>2
  <2>6. ASSUME NEW k \in 1..10
        PROVE  /\ Checks[k] = {"duplicate"} => k = 4
               /\ Checks[k] = {"condition"} => k = 7
    BY <2>4
  <2>7. /\ "fields" \in Checks[1] /\ "no action" \in Checks[2] /\ "id" \in Checks[3]
        /\ "target" \in Checks[5] /\ "conflict" \in Checks[6] /\ "action" \in Checks[8]
        /\ "limit" \in Checks[9] /\ "limited" \in Checks[10]
    BY <2>2
  <2>8. LastCheck = 10 /\ DuplicateAt = 4 /\ ConditionAt = 7
    BY <1>2 DEF LastCheck, DuplicateAt, ConditionAt
  <2>9. /\ Looked("fields") /\ Looked("no action") /\ Looked("id") /\ Looked("target")
        /\ Looked("conflict") /\ Looked("action") /\ Looked("limit") /\ Looked("limited")
    <3>1. \A flaw : \A k \in 1..10 : flaw \in Checks[k] => Looked(flaw)
      BY <2>8 DEF Looked
    <3>2. 1 \in 1..10 /\ 2 \in 1..10 /\ 3 \in 1..10 /\ 5 \in 1..10 /\ 6 \in 1..10 /\ 8 \in 1..10 /\ 9 \in 1..10 /\ 10 \in 1..10
      OBVIOUS
    <3> QED
      BY <2>7, <3>1, <3>2
  <2>11. ASSUME NEW k \in 1..10
         PROVE  Checks[k] \subseteq AllFlaws
    <3>1. k = 1 \/ k = 2 \/ k = 3 \/ k = 4 \/ k = 5 \/ k = 6 \/ k = 7 \/ k = 8 \/ k = 9 \/ k = 10
      OBVIOUS
    <3>2. /\ Checks[1] \subseteq AllFlaws /\ Checks[2] \subseteq AllFlaws
          /\ Checks[3] \subseteq AllFlaws /\ Checks[4] \subseteq AllFlaws
          /\ Checks[5] \subseteq AllFlaws /\ Checks[6] \subseteq AllFlaws
          /\ Checks[7] \subseteq AllFlaws /\ Checks[8] \subseteq AllFlaws
          /\ Checks[9] \subseteq AllFlaws /\ Checks[10] \subseteq AllFlaws
      BY <2>2 DEF AllFlaws
    <3> QED
      BY <3>1, <3>2
  <2>10. /\ \A k \in 1..10 : Checks[k] = {"duplicate"} <=> k = 4
         /\ \A k \in 1..10 : Checks[k] = {"condition"} <=> k = 7
    BY <2>5, <2>6
  <2> QED
    BY <2>1, <2>4, <2>8, <2>9, <2>10, <2>11
<1> QED
  BY <1>1, <1>2

LEMMA Flaws ==
  ASSUME DocumentTypes, Len(given) > 0
  PROVE  /\ given[Len(given)].entry = Rule /\ Rule \in Entry /\ Rule \in Entries
         /\ Flaw("fields") <=> Rule.extra \/ (Rule.limited /\ ~limitable)
         /\ Flaw("action type") <=> Rule.action = "not a string"
         /\ Flaw("no action") <=> Rule.action = "absent"
         /\ Flaw("id") <=> Rule.id \in Ambiguous(runtime)
         /\ Flaw("duplicate") <=> Rule.id \in rule_ids
         /\ Flaw("target") <=> MalformedTarget(Rule.target)
         /\ Flaw("conflict") <=> Conflict(Rule.target, enclosing)
         /\ Flaw("action") <=> Rule.action \notin Actions \cup {"absent"}
         /\ Flaw("limit") <=> Rule.limited /\ ~LimitInRange(Rule.limit)
         /\ Flaw("limited") <=> Rule.limited /\ Rule.action # "allow"
<1>1. given[Len(given)].entry = Rule /\ Rule \in Entries
  <2>1. given \in Seq([entry : Entries, enclosing : Outer])
    BY DEF DocumentTypes
  <2>2. given[Len(given)] \in [entry : Entries, enclosing : Outer]
    BY <2>1, LastIn
  <2> QED
    BY <2>2 DEF Rule, Last
<1>2. Rule \in Entry
  BY <1>1, EntriesAssumption
<1> QED
  BY <1>1, <1>2 DEF Flaw, Entry

-----------------------------------------------------------------------------
\* What does not depend on the place in the document.
Kept == IdsKnown /\ Stored /\ LoadedAsWritten

LEMMA FitStays ==
  ASSUME UNCHANGED <<runtime, limitable, given>>
  PROVE  \A n : Fit(n)' <=> Fit(n)
BY DEF Fit, MalformedTarget, Conflict, LimitInRange, Ambiguous

LEMMA StoredStays ==
  ASSUME UNCHANGED <<runtime, limitable, rules, given>>, Stored
  PROVE  Stored'
<1>1. \A t : GoodTree(t)' <=> GoodTree(t)
  BY DEF GoodTree, Fine, OneOperand, OperandsIn, Rooted
<1> QED
  BY <1>1, FitStays DEF Stored

LEMMA KeptStays ==
  ASSUME Kept, UNCHANGED <<runtime, limitable, rules, rate_limits, rule_ids, check, given>>
  PROVE  Kept'
<1>1. Stored'
  BY StoredStays DEF Kept
<1>2. IdsKnown' /\ LoadedAsWritten'
  BY DEF Kept, IdsKnown, Recorded, DuplicateAt, LoadedAsWritten
<1> QED
  BY <1>1, <1>2 DEF Kept

\* A step between two rules.
LEMMA DocumentStep ==
  ASSUME Inv, pc \in Between, UNCHANGED <<hostVars, ruleVars, check, given, treeVars>>,
         pc' \in Between \cup {"loaded", "refused"},
         pc' = "refused" => error' \in {"version", "structure"},
         keys' \in [Levels -> SUBSET (Names \cup {"global", "rules", "agents"})],
         enclosing' \in Outer, pc' = "tools" => enclosing' # NoTarget,
         default' \in Defaults \cup {"allow"}
  PROVE  Inv'
<1> USE DEF hostVars, ruleVars
<1>1. DocumentTypes'
  BY DEF Inv, DocumentTypes, LastCheck
<1>2. pc' \notin {"rule", "condition"} /\ pc \notin {"rule", "condition", "loaded", "refused"}
  BY DEF Between, Levels, Top
<1>3. Place'
  BY <1>2 DEF Inv, Place, treeVars, ConditionAt
<1>4. Kept'
  BY KeptStays DEF Inv, Kept
<1>5. Checked' /\ Refusal'
  BY <1>2 DEF Checked, Refusal
<1>6. TreeInv'
  BY TreeStutters DEF Inv
<1> QED
  BY <1>1, <1>3, <1>4, <1>5, <1>6 DEF Inv, Kept

LEMMA DocumentKeepsInv ==
  ASSUME Inv,
         \/ CheckVersion \/ RefuseStructure \/ ReadGlobal \/ ReadTopRules \/ ReadAgents
         \/ \E name \in Names : ReadAgent(name) \/ ReadTool(name)
         \/ EndRules \/ EndTools \/ EndAgents \/ EndDocument
  PROVE  Inv'
<1> DEFINE Keys == [Levels -> SUBSET (Names \cup {"global", "rules", "agents"})]
<1>1. /\ keys \in Keys /\ enclosing \in Outer /\ default \in Defaults \cup {"allow"}
      /\ pc = "tools" => enclosing # NoTarget
  BY DEF Inv, DocumentTypes
<1> USE DEF Between, Levels, Top, documentVars
<1>2. ASSUME CheckVersion PROVE Inv'
  BY <1>1, <1>2, DocumentStep DEF CheckVersion, Refuse
<1>3. ASSUME RefuseStructure PROVE Inv'
  BY <1>1, <1>3, DocumentStep DEF RefuseStructure, Refuse
<1>4. ASSUME ReadGlobal PROVE Inv'
  <2>1. keys' \in Keys /\ default' \in Defaults
    BY <1>1, <1>4 DEF ReadGlobal, Meet
  <2> QED
    BY <1>1, <1>4, <2>1, DocumentStep DEF ReadGlobal, Meet
<1>5. ASSUME ReadTopRules PROVE Inv'
  <2>1. keys' \in Keys /\ NoTarget \in Outer
    BY <1>1, <1>5 DEF ReadTopRules, Meet, Outer
  <2> QED
    BY <1>1, <1>5, <2>1, DocumentStep DEF ReadTopRules, Meet
<1>6. ASSUME ReadAgents PROVE Inv'
  <2>1. keys' \in Keys
    BY <1>1, <1>6 DEF ReadAgents, Meet
  <2> QED
    BY <1>1, <1>6, <2>1, DocumentStep DEF ReadAgents, Meet
<1>7. ASSUME NEW name \in Names, ReadAgent(name) PROVE Inv'
  <2>1. keys' \in Keys
    BY <1>1, <1>7 DEF ReadAgent, Meet
  <2>2. enclosing' \in Outer /\ enclosing' # NoTarget
    BY <1>7 DEF ReadAgent, Outer, NoTarget
  <2> QED
    BY <1>1, <1>7, <2>1, <2>2, DocumentStep DEF ReadAgent, Meet
<1>8. ASSUME NEW name \in Names, ReadTool(name) PROVE Inv'
  <2>1. keys' \in Keys /\ pc = "tools"
    BY <1>1, <1>8 DEF ReadTool, Meet
  <2>2. enclosing \in [{"agent"} -> Names] \cup [{"agent", "tool"} -> Names]
    BY <1>1, <2>1 DEF Outer
  <2>3. enclosing.agent \in Names
    BY <2>2
  <2>4. enclosing' \in Outer
    BY <2>3, <1>8 DEF ReadTool, Outer
  <2> QED
    BY <1>1, <1>8, <2>1, <2>4, DocumentStep DEF ReadTool, Meet
<1>9. ASSUME EndRules PROVE Inv'
  BY <1>1, <1>9, DocumentStep DEF EndRules
<1>10. ASSUME EndTools PROVE Inv'
  <2>1. keys' \in Keys /\ NoTarget \in Outer
    BY <1>1, <1>10 DEF EndTools, Outer
  <2> QED
    BY <1>1, <1>10, <2>1, DocumentStep DEF EndTools
<1>11. ASSUME EndAgents \/ EndDocument PROVE Inv'
  BY <1>1, <1>11, DocumentStep DEF EndAgents, EndDocument
<1> QED
  BY <1>2, <1>3, <1>4, <1>5, <1>6, <1>7, <1>8, <1>9, <1>10, <1>11

-----------------------------------------------------------------------------
(* The steps within a rule. *)

LEMMA Positions ==
  ASSUME Inv
  PROVE  /\ LastCheck \in Nat /\ DuplicateAt \in Nat /\ ConditionAt \in Nat /\ check \in Nat
         /\ 1 <= DuplicateAt /\ DuplicateAt < ConditionAt /\ ConditionAt <= LastCheck
         /\ 1 <= check /\ check <= LastCheck + 1
         /\ Len(rules) \in Nat /\ Len(given) \in Nat
         /\ DOMAIN rules = 1..Len(rules) /\ DOMAIN given = 1..Len(given)
         /\ runtime \in {"rust", "python"}
BY DEF Inv, DocumentTypes, LastCheck, DuplicateAt, ConditionAt

LEMMA ReadRuleKeepsInv ==
  ASSUME Inv, NEW entry \in Entries, ReadRule(entry)
  PROVE  Inv'
<1> USE DEF hostVars, ruleVars, documentVars
<1>0. /\ LastCheck \in Nat /\ DuplicateAt \in Nat /\ ConditionAt \in Nat /\ check \in Nat
      /\ 1 <= DuplicateAt /\ DuplicateAt < ConditionAt /\ ConditionAt <= LastCheck
      /\ 1 <= check /\ check <= LastCheck + 1
      /\ Len(rules) \in Nat /\ Len(given) \in Nat
  BY Positions
<1>r. runtime \in {"rust", "python"} /\ DOMAIN rules = 1..Len(rules) /\ DOMAIN given = 1..Len(given)
  BY Positions
<1>1. /\ given' = Append(given, [entry |-> entry, enclosing |-> enclosing])
      /\ pc = "rules" /\ pc' = "rule" /\ check' = 1 /\ Len(given) = Len(rules) /\ Len(given) < MaxRules
      /\ enclosing \in Outer /\ given \in Seq([entry : Entries, enclosing : Outer])
  BY DEF ReadRule, Inv, Place, DocumentTypes, Between
<1>2. /\ given' \in Seq([entry : Entries, enclosing : Outer]) /\ Len(given') = Len(given) + 1
      /\ \A k \in 1..Len(given) : given'[k] = given[k]
      /\ given'[Len(given')].enclosing = enclosing
  BY <1>1
<1>3. DocumentTypes'
  BY <1>1, <1>2, ParserBoundsAssumption DEF Inv, DocumentTypes, ReadRule, LastCheck
<1>4. Place'
  <2>1. ConditionAt' = ConditionAt /\ UNCHANGED <<rules, enclosing, path, treePc, tree>>
    BY DEF ConditionAt, ReadRule, treeVars
  <2>2. treePc = "none" /\ path = <<>> /\ tree = <<>>
    BY <1>1 DEF Inv, Place, Between, Levels
  <2> QED
    BY <2>1, <2>2, <1>0, <1>1, <1>2 DEF Place, Between, Levels, Top
<1>5. IdsKnown'
  <2>1. Recorded' = Len(rules) /\ Recorded = Len(rules)
    <3>1. DuplicateAt' = DuplicateAt
      BY DEF DuplicateAt, ReadRule
    <3> QED
      BY <1>0, <1>1, <1>2, <3>1 DEF Recorded, ReadRule
  <2>2. rule_ids' = rule_ids /\ {given'[k].entry.id : k \in 1..Len(rules)} = {given[k].entry.id : k \in 1..Len(rules)}
    BY <1>1, <1>2 DEF ReadRule
  <2> QED
    BY <2>1, <2>2 DEF Inv, IdsKnown
<1>6. \A n \in DOMAIN rules : Fit(n)' <=> Fit(n)
  <2>1. \A n \in DOMAIN rules : \A k \in 1..n : given'[k] = given[k]
    BY <1>1, <1>2
  <2>2. \A n \in DOMAIN rules : given'[n] = given[n]
    BY <1>1, <1>2
  <2>3. runtime' = runtime /\ limitable' = limitable
    BY DEF ReadRule
  <2>4. ASSUME NEW n \in DOMAIN rules
        PROVE  (\A k \in 1..(n - 1) : given'[n].entry.id = NoId \/ given'[k].entry.id # given'[n].entry.id) <=>
               (\A k \in 1..(n - 1) : given[n].entry.id = NoId \/ given[k].entry.id # given[n].entry.id)
    <3>1. \A k \in 1..(n - 1) : given'[k] = given[k]
      BY <1>0, <1>r, <2>1
    <3> QED
      BY <2>2, <3>1
  <2> QED
    BY <2>2, <2>3, <2>4 DEF Fit, MalformedTarget, Conflict, LimitInRange, Ambiguous
<1>7. Stored'
  <2>1. \A t : GoodTree(t)' <=> GoodTree(t)
    BY DEF GoodTree, Fine, OneOperand, OperandsIn, Rooted
  <2> QED
    BY <1>6, <2>1 DEF Inv, Stored, ReadRule
<1>8. LoadedAsWritten'
  <2>1. rules' = rules /\ rate_limits' = rate_limits
    BY DEF ReadRule
  <2>2. \A n \in DOMAIN rules : given'[n] = given[n]
    BY <1>1, <1>2
  <2>3. ASSUME NEW n \in DOMAIN rate_limits
        PROVE  n + 1 \in DOMAIN rules
    <3>1. PICK m \in DOMAIN rules : n = m - 1
      BY DEF Inv, LoadedAsWritten
    <3>2. m \in Nat
      BY <1>r, <3>1
    <3> QED
      BY <3>1, <3>2
  <2> QED
    BY <2>1, <2>2, <2>3 DEF Inv, LoadedAsWritten
<1>9. Checked' /\ Refusal'
  BY <1>1 DEF Checked, Refusal, DuplicateAt, ReadRule
<1>10. TreeInv'
  BY TreeStutters DEF Inv, ReadRule
<1> QED
  BY <1>3, <1>4, <1>5, <1>7, <1>8, <1>9, <1>10 DEF Inv

LEMMA CheckFailsKeepsInv ==
  ASSUME Inv, CheckFails
  PROVE  Inv'
<1> USE DEF hostVars, ruleVars, documentVars
<1>0. /\ LastCheck \in Nat /\ DuplicateAt \in Nat /\ ConditionAt \in Nat /\ check \in Nat
      /\ 1 <= DuplicateAt /\ DuplicateAt < ConditionAt /\ ConditionAt <= LastCheck
      /\ 1 <= check /\ check <= LastCheck + 1
      /\ Len(rules) \in Nat /\ Len(given) \in Nat
  BY Positions
<1>r. runtime \in {"rust", "python"} /\ DOMAIN rules = 1..Len(rules) /\ DOMAIN given = 1..Len(given)
  BY Positions
<1>1. PICK flaw \in Checks[check] \ {"condition"} : Flaw(flaw) /\ Refuse(flaw)
  BY DEF CheckFails
<1>2. /\ pc = "rule" /\ check \in 1..LastCheck /\ pc' = "refused" /\ error' = flaw
      /\ UNCHANGED <<hostVars, documentVars, ruleVars, check, given, treeVars>>
  <2>1. check <= Len(Checks) /\ Len(Checks) = LastCheck
    BY <1>r, CheckList DEF CheckFails
  <2>2. check \in 1..LastCheck
    BY <1>0, <2>1
  <2> QED
    BY <1>1, <2>2 DEF CheckFails, Refuse
<1>3. Len(given) > 0 /\ Len(given) = Len(rules) + 1 /\ given[Len(given)].enclosing = enclosing
  BY <1>2 DEF Inv, Place
<1>4. ~Fit(Len(given))
  <2>1. given[Len(given)].entry = Rule /\ Rule \in Entry
    BY <1>3, Flaws DEF Inv
  <2>2. CASE flaw = "duplicate"
    <3>1. check = DuplicateAt
      BY <1>0, <1>r, <1>1, <1>2, <2>2, CheckList
    <3>2. Recorded = Len(rules)
      <4>1. Len(rules) \in Nat /\ Len(given) \in Nat /\ DuplicateAt \in Nat
        BY <1>0
      <4>2. Len(given) > Len(rules) /\ check <= DuplicateAt
        BY <1>3, <3>1, <4>1
      <4> QED
        BY <4>2 DEF Recorded
    <3>3. Rule.id \in rule_ids
      BY <1>1, <1>3, <2>2, Flaws DEF Inv
    <3>4. PICK k \in 1..(Len(given) - 1) : given[k].entry.id = Rule.id /\ Rule.id # NoId
      BY <1>3, <3>2, <3>3 DEF Inv, IdsKnown
    <3> QED
      BY <2>1, <3>4 DEF Fit
  <2>3. CASE flaw \in {"fields", "action type", "no action", "id", "target", "conflict", "action", "limit", "limited"}
    BY <1>1, <1>3, <2>1, <2>3, Flaws DEF Fit, Actions, Inv
  <2>4. flaw = "duplicate" \/ flaw \in {"fields", "action type", "no action", "id", "target", "conflict", "action", "limit", "limited"}
    BY <1>0, <1>r, <1>1, <1>2, CheckList DEF AllFlaws
  <2> QED
    BY <2>2, <2>3, <2>4
<1>5. DocumentTypes' /\ Place'
  BY <1>2 DEF Inv, DocumentTypes, Place, Between, Levels, Top, LastCheck, ConditionAt, treeVars
<1>6. Kept'
  BY <1>2, KeptStays DEF Inv, Kept
<1>7. Checked' /\ Refusal'
  BY <1>2, <1>4, FitStays DEF Checked, Refusal
<1>8. TreeInv'
  BY <1>2, TreeStutters DEF Inv
<1> QED
  BY <1>5, <1>6, <1>7, <1>8 DEF Inv, Kept

LEMMA FlawsStay ==
  ASSUME UNCHANGED <<runtime, limitable, given, enclosing>>,
         NEW flaw \in AllFlaws \ {"duplicate", "condition"}
  PROVE  Flaw(flaw)' <=> Flaw(flaw)
BY DEF AllFlaws, Flaw, Rule, Last, MalformedTarget, Conflict, LimitInRange, Ambiguous

\* A check passed without looking at the condition keeps what the others have shown.
LEMMA PassedKeepsChecked ==
  ASSUME Inv, pc = "rule" \/ pc = "condition", pc' = "rule" \/ pc' = "condition",
         UNCHANGED <<runtime, limitable, given, enclosing>>,
         check' = check \/ (check <= LastCheck /\ check' = check + 1
                            /\ (check = DuplicateAt => NewIdOf(Len(given)))
                            /\ \A flaw \in Checks[check] \ {"duplicate", "condition"} : ~Flaw(flaw))
  PROVE  Checked'
<1> USE DEF hostVars, ruleVars, documentVars
<1>0. /\ LastCheck \in Nat /\ DuplicateAt \in Nat /\ ConditionAt \in Nat /\ check \in Nat
      /\ 1 <= DuplicateAt /\ DuplicateAt < ConditionAt /\ ConditionAt <= LastCheck
      /\ 1 <= check /\ check <= LastCheck + 1
      /\ Len(rules) \in Nat /\ Len(given) \in Nat
  BY Positions
<1>r. runtime \in {"rust", "python"} /\ DOMAIN rules = 1..Len(rules) /\ DOMAIN given = 1..Len(given)
  BY Positions
<1>1. Checks' = Checks /\ DuplicateAt' = DuplicateAt /\ NewIdOf(Len(given))' = NewIdOf(Len(given))
  BY DEF Checks, DuplicateAt, NewIdOf
<1>2. ASSUME NEW k \in 1..(check' - 1), NEW flaw \in Checks[k] \ {"duplicate", "condition"}
      PROVE  ~Flaw(flaw)'
  <2>1. k \in 1..LastCheck
    BY <1>0
  <2>2. flaw \in AllFlaws \ {"duplicate", "condition"}
    BY <1>r, <1>2, <2>1, CheckList
  <2>3. k \in 1..(check - 1) \/ (k = check /\ check' = check + 1)
    BY <1>0
  <2>4. ~Flaw(flaw)
    BY <1>2, <2>3 DEF Inv, Checked
  <2> QED
    BY <2>2, <2>4, FlawsStay
<1>3. check' > DuplicateAt => NewIdOf(Len(given))
  <2>1. check' > DuplicateAt => check > DuplicateAt \/ (check = DuplicateAt /\ check' = check + 1)
    BY <1>0
  <2>2. check > DuplicateAt => NewIdOf(Len(given))
    BY DEF Inv, Checked
  <2>4. ASSUME check = DuplicateAt, check' = check + 1
        PROVE  NewIdOf(Len(given))
    <3>1. check' # check
      BY <1>0, <2>4
    <3> QED
      BY <2>4, <3>1
  <2> QED
    BY <2>1, <2>2, <2>4
<1> QED
  BY <1>1, <1>2, <1>3 DEF Checked

LEMMA CheckPassesKeepsInv ==
  ASSUME Inv, CheckPasses
  PROVE  Inv'
<1> USE DEF hostVars, ruleVars, documentVars
<1>0. /\ LastCheck \in Nat /\ DuplicateAt \in Nat /\ ConditionAt \in Nat /\ check \in Nat
      /\ 1 <= DuplicateAt /\ DuplicateAt < ConditionAt /\ ConditionAt <= LastCheck
      /\ 1 <= check /\ check <= LastCheck + 1
      /\ Len(rules) \in Nat /\ Len(given) \in Nat
  BY Positions
<1>r. runtime \in {"rust", "python"} /\ DOMAIN rules = 1..Len(rules) /\ DOMAIN given = 1..Len(given)
  BY Positions
<1>1. /\ pc = "rule" /\ pc' = "rule" /\ check' = check + 1 /\ check <= LastCheck
      /\ check # ConditionAt /\ \A flaw \in Checks[check] : ~Flaw(flaw)
      /\ rule_ids' = IF check = DuplicateAt THEN rule_ids \cup NewIds ELSE rule_ids
      /\ UNCHANGED <<hostVars, documentVars, rules, rate_limits, error, given, treeVars>>
  <2>1. Len(Checks) = LastCheck
    BY <1>r, CheckList
  <2>2. check \in 1..LastCheck
    BY <1>0, <2>1 DEF CheckPasses
  <2>3. Checking({"condition"}) <=> pc = "rule" /\ check = ConditionAt
    BY <1>r, <2>1, <2>2, CheckList DEF Checking, CheckPasses
  <2>4. Checking({"duplicate"}) <=> pc = "rule" /\ check = DuplicateAt
    BY <1>r, <2>1, <2>2, CheckList DEF Checking, CheckPasses
  <2> QED
    BY <2>1, <2>3, <2>4 DEF CheckPasses
<1>2. Len(given) = Len(rules) + 1 /\ Len(given) > 0
  BY <1>0, <1>1 DEF Inv, Place
<1>3. given[Len(given)].entry = Rule
  BY <1>2, Flaws DEF Inv
<1>4. check = DuplicateAt => NewIdOf(Len(given))
  <2> SUFFICES ASSUME check = DuplicateAt, NEW k \in 1..(Len(given) - 1),
                      given[k].entry.id = Rule.id, Rule.id # NoId
               PROVE  FALSE
    BY <1>3 DEF NewIdOf
  <2>1. Recorded = Len(rules)
    BY <1>0, <1>2 DEF Recorded
  <2>2. Rule.id \in rule_ids
    BY <1>2, <2>1 DEF Inv, IdsKnown
  <2>3. "duplicate" \in Checks[check]
    <3>1. check \in 1..LastCheck
      BY <1>0
    <3> QED
      BY <1>r, <3>1, CheckList
  <2> QED
    BY <1>1, <1>2, <2>2, <2>3, Flaws DEF Inv
<1>5. DocumentTypes'
  <2>1. LastCheck' = LastCheck /\ check' \in 1..(LastCheck + 1)
    BY <1>0, <1>1 DEF LastCheck
  <2> QED
    BY <1>1, <2>1 DEF Inv, DocumentTypes
<1>6. Place'
  <2>1. ConditionAt' = ConditionAt /\ UNCHANGED <<rules, given, enclosing, path, treePc, tree>>
    BY <1>1 DEF ConditionAt, treeVars
  <2>2. check' > ConditionAt <=> check > ConditionAt
    BY <1>0, <1>1
  <2> QED
    BY <1>1, <2>1, <2>2 DEF Inv, Place, Between, Levels, Top
<1>7. IdsKnown'
  <2>1. DuplicateAt' = DuplicateAt
    BY <1>1 DEF DuplicateAt
  <2>2. CASE check = DuplicateAt
    <3>1. Recorded = Len(rules) /\ Recorded' = Len(given)
      BY <1>0, <1>1, <1>2, <2>1, <2>2 DEF Recorded
    <3>2. rule_ids' = rule_ids \cup ({Rule.id} \ {NoId})
      BY <1>1, <2>2 DEF NewIds
    <3>3. \A k : k \in 1..Len(given) <=> k \in 1..Len(rules) \/ k = Len(given)
      BY <1>0, <1>2
    <3> QED
      BY <1>1, <1>3, <3>1, <3>2, <3>3 DEF Inv, IdsKnown
  <2>3. CASE check # DuplicateAt
    <3>1. Recorded' = Recorded
      BY <1>0, <1>1, <1>2, <2>1, <2>3 DEF Recorded
    <3> QED
      BY <1>1, <2>3, <3>1 DEF Inv, IdsKnown
  <2> QED
    BY <2>2, <2>3
<1>8. Stored' /\ LoadedAsWritten'
  BY <1>1, StoredStays DEF Inv, LoadedAsWritten
<1>9. Checked'
  BY <1>1, <1>4, PassedKeepsChecked
<1>10. Refusal' /\ TreeInv'
  BY <1>1, TreeStutters DEF Refusal, Inv
<1> QED
  BY <1>5, <1>6, <1>7, <1>8, <1>9, <1>10 DEF Inv

LEMMA DefaultTreeGood == GoodTree(DefaultTree)
<1> DEFINE node == [node |-> Leaf, parent |-> 0, depth |-> 1]
<1>1. DefaultTree = <<node>> /\ node.node = Leaf /\ node.parent = 0 /\ node.depth = 1
  BY DEF DefaultTree
<1>2. node \in TreeNode
  BY DEF TreeNode
<1> HIDE DEF node
<1>3. /\ DefaultTree \in Seq(TreeNode) /\ DefaultTree # <<>> /\ DOMAIN DefaultTree = {1}
      /\ DefaultTree[1] = node
  BY <1>1, <1>2
<1>4. Leaf.op = "leaf" /\ ~Malformed(Leaf)
  BY DEF Leaf, Malformed, BadWindow
<1>5. Rooted(DefaultTree)
  BY <1>1, <1>3 DEF Rooted
<1>6. Fine(DefaultTree, 1) /\ DefaultTree[1].node.op # "not"
  BY <1>1, <1>3, <1>4, LimitsAssumption DEF Fine
<1> QED
  BY <1>3, <1>5, <1>6 DEF GoodTree

\* Where Checking holds.
LEMMA AtCondition ==
  ASSUME Inv, Checking({"condition"})
  PROVE  /\ pc = "rule" /\ check = ConditionAt /\ treePc = "none" /\ tree = <<>> /\ path = <<>>
         /\ frames = <<>> /\ Len(given) = Len(rules) + 1
         /\ given[Len(given)].enclosing = enclosing
<1> USE DEF hostVars, ruleVars, documentVars
<1>0. /\ LastCheck \in Nat /\ DuplicateAt \in Nat /\ ConditionAt \in Nat /\ check \in Nat
      /\ 1 <= DuplicateAt /\ DuplicateAt < ConditionAt /\ ConditionAt <= LastCheck
      /\ 1 <= check /\ check <= LastCheck + 1
      /\ Len(rules) \in Nat /\ Len(given) \in Nat
  BY Positions
<1>r. runtime \in {"rust", "python"} /\ DOMAIN rules = 1..Len(rules) /\ DOMAIN given = 1..Len(given)
  BY Positions
<1>1. pc = "rule" /\ check = ConditionAt
  <2>1. Len(Checks) = LastCheck
    BY <1>r, CheckList
  <2>2. check \in 1..LastCheck
    BY <1>0, <2>1 DEF Checking
  <2> QED
    BY <1>r, <2>2, CheckList DEF Checking
<1>2. treePc = "none" /\ tree = <<>> /\ path = <<>>
  BY <1>0, <1>1 DEF Inv, Place
<1>3. frames = <<>>
  BY <1>2 DEF Inv, TreeInv, ParseInv
<1> QED
  BY <1>1, <1>2, <1>3 DEF Inv, Place

\* The check of the condition has no other flaws.
LEMMA NoFlawAtCondition ==
  ASSUME Inv, check = ConditionAt
  PROVE  /\ check <= LastCheck /\ Checks[check] \ {"duplicate", "condition"} = {}
         /\ check # DuplicateAt
<1> USE DEF hostVars, ruleVars, documentVars
<1>0. /\ LastCheck \in Nat /\ DuplicateAt \in Nat /\ ConditionAt \in Nat /\ check \in Nat
      /\ 1 <= DuplicateAt /\ DuplicateAt < ConditionAt /\ ConditionAt <= LastCheck
      /\ 1 <= check /\ check <= LastCheck + 1
      /\ Len(rules) \in Nat /\ Len(given) \in Nat
  BY Positions
<1>r. runtime \in {"rust", "python"} /\ DOMAIN rules = 1..Len(rules) /\ DOMAIN given = 1..Len(given)
  BY Positions
<1>1. ConditionAt \in 1..LastCheck
  BY <1>0
<1>2. Checks[ConditionAt] = {"condition"}
  BY <1>r, <1>1, CheckList
<1> QED
  BY <1>0, <1>2

\* Steps of a rule that leave what is stored alone.
LEMMA ConditionStep ==
  ASSUME Inv, pc \in {"rule", "condition"}, pc' \in {"rule", "condition", "refused"}, check = ConditionAt,
         UNCHANGED <<hostVars, documentVars, ruleVars, given>>,
         check' = check \/ check' = check + 1, pc' = "condition" => check' = check,
         pc' = "refused" => treePc' = "invalid",
         pc' = "rule" => treePc' = "parsed" /\ check' = check + 1,
         path' = <<>>, treePc' = "none" => tree' = <<>>, TreeInv'
  PROVE  Inv'
<1> USE DEF hostVars, ruleVars, documentVars
<1>0. /\ LastCheck \in Nat /\ DuplicateAt \in Nat /\ ConditionAt \in Nat /\ check \in Nat
      /\ 1 <= DuplicateAt /\ DuplicateAt < ConditionAt /\ ConditionAt <= LastCheck
      /\ 1 <= check /\ check <= LastCheck + 1
      /\ Len(rules) \in Nat /\ Len(given) \in Nat
  BY Positions
<1>r. runtime \in {"rust", "python"} /\ DOMAIN rules = 1..Len(rules) /\ DOMAIN given = 1..Len(given)
  BY Positions
<1>1. /\ LastCheck' = LastCheck /\ DuplicateAt' = DuplicateAt /\ ConditionAt' = ConditionAt
      /\ check <= LastCheck /\ check > DuplicateAt
  BY <1>0 DEF LastCheck, DuplicateAt, ConditionAt
<1>2. Len(given) = Len(rules) + 1 /\ given[Len(given)].enclosing = enclosing
  BY DEF Inv, Place
<1>3. check' \in 1..(LastCheck + 1) /\ check' > DuplicateAt
  BY <1>0, <1>1
<1>4. DocumentTypes'
  BY <1>1, <1>3 DEF Inv, DocumentTypes
<1>5. Place'
  <2>1. pc' = "rule" => check' > ConditionAt
    BY <1>0
  <2> QED
    BY <1>1, <1>2, <2>1 DEF Place, Between, Levels, Top
<1>6. IdsKnown'
  <2>1. Recorded = Len(given) /\ Recorded' = Len(given)
    BY <1>0, <1>1, <1>3 DEF Recorded
  <2> QED
    BY <2>1 DEF Inv, IdsKnown
<1>7. Stored' /\ LoadedAsWritten'
  BY StoredStays DEF Inv, LoadedAsWritten
<1>8. Checked'
  <2>1. CASE pc' \in {"rule", "condition"}
    BY <2>1, <1>1, NoFlawAtCondition, PassedKeepsChecked
  <2>2. CASE pc' = "refused"
    BY <2>2 DEF Checked
  <2> QED
    BY <2>1, <2>2
<1>9. Refusal'
  BY DEF Refusal
<1> QED
  BY <1>4, <1>5, <1>6, <1>7, <1>8, <1>9 DEF Inv

LEMMA NoConditionKeepsInv ==
  ASSUME Inv, NoCondition
  PROVE  Inv'
<1> USE DEF hostVars, ruleVars, documentVars
<1>1. /\ check = ConditionAt /\ pc = "rule" /\ path = <<>> /\ frames = <<>> /\ pc' = pc /\ check' = check + 1
      /\ tree' = DefaultTree /\ treePc' = "parsed"
      /\ UNCHANGED <<hostVars, documentVars, ruleVars, given, frames, depth, nodes, evaluation>>
  BY AtCondition DEF NoCondition
<1>2. GoodTree(tree')
  BY <1>1, DefaultTreeGood
<1>3. path' = <<>> /\ frames' = <<>>
  BY <1>1 DEF evaluation
<1>4. TreeTypeOK'
  BY <1>1, <1>2, <1>3 DEF Inv, TreeInv, TreeTypeOK, GoodTree, Places, evaluation
<1>5. ParseInv'
  <2>1. GoodTree(tree)'
    BY <1>2 DEF GoodTree, Fine, OneOperand, OperandsIn, Rooted
  <2> QED
    BY <1>1, <1>3, <2>1 DEF ParseInv
<1>6. EvaluationInv'
  BY <1>1 DEF EvaluationInv, ConditionMeaning
<1>7. TreeInv'
  BY <1>4, <1>5, <1>6 DEF TreeInv
<1> QED
  BY <1>1, <1>3, <1>7, ConditionStep

LEMMA ReadConditionKeepsInv ==
  ASSUME Inv, ReadCondition
  PROVE  Inv'
<1> USE DEF hostVars, ruleVars, documentVars
<1>1. /\ check = ConditionAt /\ pc = "rule" /\ path = <<>> /\ pc' = "condition" /\ check' = check
      /\ BeginCondition /\ UNCHANGED <<hostVars, documentVars, ruleVars, given>>
  BY AtCondition DEF ReadCondition
<1>2. TreeInv'
  BY <1>1, BeginKeepsInv DEF Inv, TreeInv
<1>3. path' = <<>> /\ tree' = <<>>
  BY <1>1 DEF BeginCondition, evaluation
<1> QED
  BY <1>1, <1>2, <1>3, ConditionStep

LEMMA ParseConditionKeepsInv ==
  ASSUME Inv, ParseCondition
  PROVE  Inv'
<1> USE DEF hostVars, ruleVars, documentVars
<1>1. /\ check = ConditionAt /\ pc = "condition" /\ path = <<>> /\ pc' = pc /\ check' = check
      /\ ParseStep /\ UNCHANGED <<hostVars, documentVars, ruleVars, given>>
  BY DEF ParseCondition, Inv, Place
<1>2. TreeInv'
  BY <1>1, ParseStepKeepsInv DEF Inv
<1>3. path' = <<>> /\ treePc' # "none"
  BY <1>1 DEF ParseStep, RefuseNode, LeafNode, OperatorNode, NextOperand, EndOperands, evaluation, Returned
<1> QED
  BY <1>1, <1>2, <1>3, ConditionStep

LEMMA ConditionEndKeepsInv ==
  ASSUME Inv, ConditionRefused \/ ConditionRead
  PROVE  Inv'
<1> USE DEF hostVars, ruleVars, documentVars
<1>1. /\ check = ConditionAt /\ pc = "condition" /\ path = <<>>
      /\ UNCHANGED <<hostVars, documentVars, ruleVars, given, treeVars>>
      /\ \/ treePc = "invalid" /\ pc' = "refused" /\ check' = check
         \/ treePc = "parsed" /\ pc' = "rule" /\ check' = check + 1
  BY DEF ConditionRefused, ConditionRead, Refuse, Inv, Place
<1>2. TreeInv'
  BY <1>1, TreeStutters DEF Inv
<1>3. path' = <<>> /\ treePc' # "none" /\ treePc' = treePc
  BY <1>1 DEF treeVars
<1> QED
  BY <1>1, <1>2, <1>3, ConditionStep

\* What passing all the checks has shown.
LEMMA AllPassed ==
  ASSUME Inv, pc = "rule", check > Len(Checks)
  PROVE  /\ Len(given) = Len(rules) + 1 /\ given[Len(given)].entry = Rule
         /\ Fit(Len(given)) /\ Rule.action \in Actions
         /\ treePc = "parsed" /\ path = <<>> /\ frames = <<>>
         /\ given[Len(given)].enclosing = enclosing /\ check > DuplicateAt
<1> USE DEF hostVars, ruleVars, documentVars
<1>0. /\ LastCheck \in Nat /\ DuplicateAt \in Nat /\ ConditionAt \in Nat /\ check \in Nat
      /\ 1 <= DuplicateAt /\ DuplicateAt < ConditionAt /\ ConditionAt <= LastCheck
      /\ 1 <= check /\ check <= LastCheck + 1
      /\ Len(rules) \in Nat /\ Len(given) \in Nat
  BY Positions
<1>r. runtime \in {"rust", "python"} /\ DOMAIN rules = 1..Len(rules) /\ DOMAIN given = 1..Len(given)
  BY Positions
<1>1. check > LastCheck /\ check > ConditionAt /\ check > DuplicateAt
  <2>1. Len(Checks) = LastCheck
    BY <1>r, CheckList
  <2> QED
    BY <1>0, <2>1
<1>2. /\ Len(given) = Len(rules) + 1 /\ given[Len(given)].enclosing = enclosing
      /\ treePc = "parsed" /\ path = <<>>
  BY <1>1 DEF Inv, Place
<1>3. frames = <<>>
  BY <1>2 DEF Inv, TreeInv, ParseInv
<1>4. ASSUME NEW flaw, flaw \notin {"duplicate", "condition"}, Looked(flaw)
      PROVE  ~Flaw(flaw)
  <2>1. PICK k \in 1..LastCheck : flaw \in Checks[k]
    BY <1>4 DEF Looked
  <2>2. k \in 1..(check - 1)
    BY <1>0, <1>1
  <2> QED
    BY <1>4, <2>1, <2>2 DEF Inv, Checked
<1>5. /\ ~Flaw("fields") /\ ~Flaw("no action") /\ ~Flaw("id") /\ ~Flaw("target")
      /\ ~Flaw("conflict") /\ ~Flaw("action") /\ ~Flaw("limit") /\ ~Flaw("limited")
  BY <1>r, <1>4, CheckList
<1>6. NewIdOf(Len(given))
  BY <1>1 DEF Inv, Checked
<1>7. Len(given) > 0
  BY <1>0, <1>2
<1>8. given[Len(given)].entry = Rule /\ Rule \in Entry
  BY <1>7, Flaws DEF Inv
<1>9. /\ ~Rule.extra /\ Rule.action \in Actions /\ Rule.id \notin Ambiguous(runtime)
      /\ Rule.limited => limitable /\ Rule.action = "allow" /\ LimitInRange(Rule.limit)
      /\ ~MalformedTarget(Rule.target) /\ ~Conflict(Rule.target, enclosing)
  BY <1>5, <1>7, Flaws DEF Inv
<1>10. Fit(Len(given))
  BY <1>2, <1>6, <1>8, <1>9 DEF Fit, NewIdOf
<1> QED
  BY <1>1, <1>2, <1>3, <1>8, <1>9, <1>10

LEMMA MergedTyped ==
  ASSUME NEW target \in Targets, NEW outer \in Outer, ~Conflict(target, outer)
  PROVE  /\ Merged(target, outer) \in Targets
         /\ Agrees(Merged(target, outer), target, outer)
<1>1. PICK S \in SUBSET Fields : target \in [S -> Strings]
  BY DEF Targets
<1>2. PICK T \in SUBSET Fields : outer \in [T -> Strings]
  <2>1. NoTarget \in [{} -> Strings]
    BY DEF NoTarget
  <2>2. {} \in SUBSET Fields /\ {"agent"} \in SUBSET Fields /\ {"agent", "tool"} \in SUBSET Fields
    BY DEF Fields
  <2>3. [{"agent"} -> Names] \subseteq [{"agent"} -> Strings]
    BY EntriesAssumption
  <2>4. [{"agent", "tool"} -> Names] \subseteq [{"agent", "tool"} -> Strings]
    BY EntriesAssumption
  <2> QED
    BY <2>1, <2>2, <2>3, <2>4 DEF Outer
<1>3. Merged(target, outer) \in [S \cup T -> Strings]
  BY <1>1, <1>2 DEF Merged
<1>4. S \cup T \in SUBSET Fields
  OBVIOUS
<1>5. Agrees(Merged(target, outer), target, outer)
  BY DEF Merged, Agrees, Conflict
<1> QED
  BY <1>3, <1>4, <1>5 DEF Targets

LEMMA PushRuleKeepsInv ==
  ASSUME Inv, PushRule
  PROVE  Inv'
<1> USE DEF hostVars, ruleVars, documentVars
<1> DEFINE new == [action |-> Rule.action, target |-> Merged(Rule.target, enclosing),
                   condition |-> tree, rule_index |-> Len(rules)]
<1>0. Len(rules) \in Nat /\ Len(given) \in Nat
  BY Positions
<1>r. runtime \in {"rust", "python"} /\ DOMAIN rules = 1..Len(rules) /\ DOMAIN given = 1..Len(given)
  BY Positions
<1>1. /\ pc = "rule" /\ check > Len(Checks) /\ rules' = Append(rules, new)
      /\ rate_limits' = (IF Rule.limited THEN WithLimit(Len(rules)) ELSE rate_limits)
      /\ pc' = "rules" /\ tree' = <<>> /\ treePc' = "none"
      /\ UNCHANGED <<hostVars, documentVars, rule_ids, check, error, given, frames, depth, nodes, evaluation>>
  BY DEF PushRule
<1>2. /\ Len(given) = Len(rules) + 1 /\ given[Len(given)].entry = Rule
      /\ Fit(Len(given)) /\ Rule.action \in Actions /\ treePc = "parsed"
      /\ path = <<>> /\ frames = <<>> /\ given[Len(given)].enclosing = enclosing /\ check > DuplicateAt
  BY <1>1, AllPassed
<1>3. Rule.target \in Targets /\ enclosing \in Outer /\ ~Conflict(Rule.target, enclosing)
  <2>0. Len(given) > 0
    BY <1>0, <1>2
  <2>1. Rule \in Entry
    BY <2>0, Flaws DEF Inv
  <2>2. Rule.target \in Targets
    BY <2>1 DEF Entry, Targets, Fields
  <2> QED
    BY <1>2, <2>2 DEF Fit, Inv, DocumentTypes
<1>4. GoodTree(tree)
  BY <1>2 DEF Inv, TreeInv, ParseInv
<1>5. /\ new.action = Rule.action /\ new.target = Merged(Rule.target, enclosing)
      /\ new.condition = tree /\ new.rule_index = Len(rules)
      /\ new \in [action : Actions, target : Targets, condition : Seq(TreeNode), rule_index : Nat]
  BY <1>0, <1>2, <1>3, <1>4, MergedTyped DEF GoodTree
<1> HIDE DEF new
<1>6. /\ rules' \in Seq([action : Actions, target : Targets, condition : Seq(TreeNode), rule_index : Nat])
      /\ Len(rules') = Len(given) /\ DOMAIN rules' = 1..Len(given)
      /\ rules'[Len(given)] = new /\ \A n \in 1..Len(rules) : rules'[n] = rules[n]
  <2>1. rules \in Seq([action : Actions, target : Targets, condition : Seq(TreeNode), rule_index : Nat])
    BY DEF Inv, DocumentTypes
  <2> QED
    BY <1>0, <1>1, <1>2, <1>5, <2>1
<1>7. \A n \in 1..Len(given) : n \in 1..Len(rules) \/ n = Len(given)
  BY <1>0, <1>2
<1>8. DocumentTypes'
  BY <1>1, <1>6 DEF Inv, DocumentTypes, Between, Levels, LastCheck
<1>9. Place'
  <2>1. path' = <<>>
    BY <1>1, <1>2 DEF evaluation
  <2> QED
    BY <1>0, <1>1, <1>2, <1>6, <2>1 DEF Place, Between, Levels, Top
<1>10. IdsKnown'
  <2>1. DuplicateAt \in Nat /\ check \in Nat /\ DuplicateAt' = DuplicateAt
    BY <1>1, Positions DEF DuplicateAt
  <2>2. Recorded = Len(given) /\ Recorded' = Len(given)
    BY <1>0, <1>1, <1>2, <1>6, <2>1 DEF Recorded
  <2> QED
    BY <1>1, <2>2 DEF Inv, IdsKnown
<1>11. Stored'
  <2>1. \A t : GoodTree(t)' <=> GoodTree(t)
    BY DEF GoodTree, Fine, OneOperand, OperandsIn, Rooted
  <2>2. \A n : Fit(n)' <=> Fit(n)
    BY <1>1, FitStays
  <2>3. \A n \in 1..Len(given) : Fit(n) /\ GoodTree(rules'[n].condition)
    BY <1>2, <1>4, <1>5, <1>6, <1>7, <1>r DEF Inv, Stored
  <2> QED
    BY <1>6, <2>1, <2>2, <2>3 DEF Stored
<1>12. LoadedAsWritten'
  <2>1. ASSUME NEW n \in 1..Len(given)
        PROVE  /\ rules'[n].rule_index = n - 1
               /\ rules'[n].action = given[n].entry.action
               /\ Agrees(rules'[n].target, given[n].entry.target, given[n].enclosing)
    <3>1. CASE n \in 1..Len(rules)
      BY <3>1, <1>6, <1>r DEF Inv, LoadedAsWritten
    <3>2. CASE n = Len(given)
      <4>1. Agrees(new.target, Rule.target, enclosing)
        BY <1>3, <1>5, MergedTyped
      <4> QED
        BY <3>2, <4>1, <1>0, <1>2, <1>5, <1>6
    <3> QED
      BY <3>1, <3>2, <1>7
  <2>2. DOMAIN rate_limits' = {n - 1 : n \in {k \in 1..Len(given) : given[k].entry.limited}}
    <3>1. DOMAIN rate_limits = {n - 1 : n \in {k \in 1..Len(rules) : given[k].entry.limited}}
      BY <1>r DEF Inv, LoadedAsWritten
    <3>2. {k \in 1..Len(given) : given[k].entry.limited} =
            {k \in 1..Len(rules) : given[k].entry.limited} \cup (IF Rule.limited THEN {Len(given)} ELSE {})
      BY <1>0, <1>2, <1>7
    <3>3. DOMAIN rate_limits' = DOMAIN rate_limits \cup (IF Rule.limited THEN {Len(rules)} ELSE {})
      BY <1>1 DEF WithLimit
    <3>4. Len(given) - 1 = Len(rules)
      BY <1>0, <1>2
    <3> QED
      BY <3>1, <3>2, <3>3, <3>4
  <2>3. ASSUME NEW n \in DOMAIN rate_limits'
        PROVE  rate_limits'[n] = given[n + 1].entry.limit
    <3>1. CASE Rule.limited /\ n = Len(rules)
      BY <3>1, <1>1, <1>2 DEF WithLimit
    <3>2. CASE n \in DOMAIN rate_limits /\ ~(Rule.limited /\ n = Len(rules))
      <4>1. rate_limits[n] = given[n + 1].entry.limit
        BY <3>2 DEF Inv, LoadedAsWritten
      <4> QED
        BY <3>2, <4>1, <1>1 DEF WithLimit
    <3> QED
      BY <3>1, <3>2, <1>1 DEF WithLimit
  <2>4. given' = given /\ DOMAIN rules' = 1..Len(given)
    BY <1>1, <1>6
  <2>5. \A n \in DOMAIN rules' :
          /\ rules'[n].rule_index = n - 1
          /\ rules'[n].action = given'[n].entry.action
          /\ Agrees(rules'[n].target, given'[n].entry.target, given'[n].enclosing)
    BY ONLY <2>1, <2>4
  <2>6. DOMAIN rate_limits' = {n - 1 : n \in {k \in DOMAIN rules' : given'[k].entry.limited}}
    BY ONLY <2>2, <2>4
  <2>7. \A n \in DOMAIN rate_limits' : rate_limits'[n] = given'[n + 1].entry.limit
    BY ONLY <2>3, <2>4
  <2> QED
    BY ONLY <2>5, <2>6, <2>7 DEF LoadedAsWritten, Agrees
<1>13. Checked' /\ Refusal'
  BY <1>1 DEF Checked, Refusal
<1>14. TreeInv'
  <2>1. path' = <<>> /\ frames' = <<>>
    BY <1>1, <1>2 DEF evaluation
  <2>2. TreeTypeOK'
    BY <1>1, <2>1 DEF Inv, TreeInv, TreeTypeOK, Places, evaluation
  <2> QED
    BY <1>1, <2>1, <2>2 DEF TreeInv, ParseInv, EvaluationInv, ConditionMeaning
<1> QED
  BY <1>8, <1>9, <1>10, <1>11, <1>12, <1>13, <1>14 DEF Inv

LEMMA EvaluationKeepsInv ==
  ASSUME Inv, EvaluateRule \/ Evaluate
  PROVE  Inv'
<1> USE DEF hostVars, ruleVars, documentVars
<1>1. /\ pc = "loaded" /\ pc' = "loaded"
      /\ UNCHANGED <<hostVars, documentVars, ruleVars, check, error, given>>
  BY DEF EvaluateRule, Evaluate
<1>2. TreeInv' /\ treePc' # "none"
  <2>1. CASE EvaluateRule
    <3>1. PICK n \in DOMAIN rules : BeginEvaluation(rules[n].condition)
      BY <2>1 DEF EvaluateRule
    <3>2. treePc = "none" /\ frames = <<>>
      BY <2>1 DEF EvaluateRule, Inv, TreeInv, ParseInv
    <3>3. GoodTree(rules[n].condition)
      BY DEF Inv, Stored
    <3> QED
      BY <3>1, <3>2, <3>3, BeginEvaluationKeepsInv DEF Inv, BeginEvaluation
  <2>2. CASE Evaluate
    <3>1. EvaluateStep
      BY <2>2 DEF Evaluate
    <3> QED
      BY <3>1, EvaluateStepKeepsInv, EvaluateFrame DEF Inv
  <2> QED
    BY <2>1, <2>2
<1>3. DocumentTypes' /\ Place' /\ Checked' /\ Refusal'
  BY <1>1, <1>2 DEF Inv, DocumentTypes, Place, Checked, Refusal, LastCheck, Between, Levels, Top
<1>4. Kept'
  BY <1>1, KeptStays DEF Inv, Kept
<1> QED
  BY <1>2, <1>3, <1>4 DEF Inv, Kept

-----------------------------------------------------------------------------
LEMMA InitInv == Init => Inv
<1> SUFFICES ASSUME Init PROVE Inv
  OBVIOUS
<1>1. /\ rules = <<>> /\ given = <<>> /\ Len(rules) = 0 /\ Len(given) = 0 /\ DOMAIN rules = {}
      /\ rate_limits = [n \in {} |-> NoLimit] /\ rule_ids = {} /\ check = 1
      /\ runtime \in {"rust", "python"} /\ pc = "version" /\ error = "none"
      /\ tree = <<>> /\ treePc = "none" /\ path = <<>> /\ frames = <<>>
  BY DEF Init, TreeInit
<1>2. DocumentTypes
  BY <1>1, ParserBoundsAssumption DEF Init, DocumentTypes, Between, Outer, LastCheck
<1>3. Place /\ Checked /\ Refusal
  BY <1>1 DEF Place, Checked, Refusal, ConditionAt
<1>4. IdsKnown
  <2>1. Recorded = 0
    BY <1>1 DEF Recorded
  <2> QED
    BY <1>1, <2>1 DEF IdsKnown
<1>5. Stored /\ LoadedAsWritten
  BY <1>1 DEF Stored, LoadedAsWritten
<1>6. TreeInv
  <2>1. TreeTypeOK
    <3>1. depth = 1 /\ nodes = 0 /\ value = FALSE /\ instant = 0
      BY DEF Init, TreeInit
    <3>2. tree \in Seq(TreeNode)
      BY <1>1
    <3>3. frames \in Seq(DOMAIN tree)
      BY <1>1
    <3>4. path \in Seq(DOMAIN tree)
      BY <1>1
    <3>5. depth \in Nat /\ nodes \in Nat
      BY <3>1
    <3>6. treePc \in Places
      BY <1>1 DEF Places
    <3>7. value \in BOOLEAN /\ instant \in Instants \cup {0}
      BY <3>1
    <3> QED
      BY <3>2, <3>3, <3>4, <3>5, <3>6, <3>7 DEF TreeTypeOK
  <2> QED
    BY <1>1, <2>1 DEF TreeInv, ParseInv, EvaluationInv, ConditionMeaning
<1> QED
  BY <1>2, <1>3, <1>4, <1>5, <1>6 DEF Inv

LEMMA NextInv == Inv /\ [Next]_vars => Inv'
<1> SUFFICES ASSUME Inv, [Next]_vars PROVE Inv'
  OBVIOUS
<1>1. CASE UNCHANGED vars
  <2>1. UNCHANGED <<hostVars, documentVars, ruleVars, check, error, given, pc, treeVars>>
    BY <1>1 DEF vars, hostVars, documentVars, ruleVars
  <2>2. TreeInv'
    BY <2>1, TreeStutters DEF Inv
  <2>3. DocumentTypes' /\ Place' /\ Refusal'
    BY <2>1, FitStays DEF Inv, DocumentTypes, Place, Refusal, LastCheck, ConditionAt, hostVars,
                            documentVars, ruleVars, treeVars
  <2>4. Kept'
    BY <2>1, KeptStays DEF Inv, Kept, hostVars, ruleVars
  <2>5. Checked'
    <3>1. CASE pc \in {"rule", "condition"}
      BY <3>1, <2>1, PassedKeepsChecked DEF hostVars, documentVars
    <3>2. CASE pc \notin {"rule", "condition"}
      BY <3>2, <2>1 DEF Checked
    <3> QED
      BY <3>1, <3>2
  <2> QED
    BY <2>2, <2>3, <2>4, <2>5 DEF Inv, Kept
<1>2. ASSUME NEW entry \in Entries, ReadRule(entry) PROVE Inv'
  BY <1>2, ReadRuleKeepsInv
<1> QED
  BY <1>1, <1>2, DocumentKeepsInv, CheckFailsKeepsInv, CheckPassesKeepsInv, NoConditionKeepsInv,
     ReadConditionKeepsInv, ParseConditionKeepsInv, ConditionEndKeepsInv, PushRuleKeepsInv,
     EvaluationKeepsInv DEF Next

LEMMA InvHolds == Spec => []Inv
BY InitInv, NextInv, PTL DEF Spec

\* The parser of either runtime keeps its types: every stored rule has one of the
\* six actions, indices and ids are those of rules of the document.
THEOREM TypeCorrect == Spec => []TypeOK
<1>1. ASSUME Inv PROVE TypeOK
  <2>1. /\ Len(rules) \in Nat /\ DOMAIN rules = 1..Len(rules) /\ runtime \in {"rust", "python"}
        /\ Len(given) \in Nat /\ DOMAIN given = 1..Len(given)
    BY <1>1, Positions
  <2>2. DOMAIN enclosing \in {{}, {"agent"}, {"agent", "tool"}} /\ Range(enclosing) \subseteq Names
    BY <1>1 DEF Inv, DocumentTypes, Outer, NoTarget, Range
  <2>3. \A n \in DOMAIN rules : rules[n].action \in Actions /\ rules[n].rule_index \in Nat
    <3>1. rules \in Seq([action : Actions, target : Targets, condition : Seq(TreeNode), rule_index : Nat])
      BY <1>1 DEF Inv, DocumentTypes
    <3>2. ASSUME NEW n \in DOMAIN rules
          PROVE  rules[n] \in [action : Actions, target : Targets, condition : Seq(TreeNode), rule_index : Nat]
      BY ONLY <3>1, <3>2, ElementIn
    <3> QED
      BY ONLY <3>2
  <2>4. DOMAIN rate_limits \subseteq 0..(Len(rules) - 1)
    BY <1>1, <2>1 DEF Inv, LoadedAsWritten
  <2>5. rule_ids \subseteq EntryIds
    <3>1. ASSUME NEW k \in 1..Recorded
          PROVE  given[k].entry \in Entries
      <4>0. Len(given) \in {Len(rules), Len(rules) + 1}
        BY <1>1 DEF Inv, Place
      <4>1. Recorded <= Len(given) /\ Recorded \in Nat
        BY ONLY <4>0, <2>1, RecordedBound
      <4>2. k \in DOMAIN given
        BY <2>1, <4>1
      <4>3. given \in Seq([entry : Entries, enclosing : Outer])
        BY <1>1 DEF Inv, DocumentTypes
      <4>4. given[k] \in [entry : Entries, enclosing : Outer]
        BY ONLY <4>2, <4>3, ElementIn
      <4> QED
        BY ONLY <4>4
    <3> QED
      BY <1>1, <3>1 DEF Inv, IdsKnown, EntryIds
  <2>6. Len(Checks) = LastCheck
    BY <2>1, CheckList
  <2> QED
    BY <1>1, <2>2, <2>3, <2>4, <2>5, <2>6 DEF TypeOK, Inv, DocumentTypes, Between, Place, TreeInv
<1> QED
  BY <1>1, InvHolds, PTL

\* The lists of the code and the one of the document differ by what is overlooked.
LEMMA FitIsFlawless ==
  ASSUME runtime \in {"rust", "python"}, NEW n
  PROVE  Fit(n) <=> Flawless(n, Overlooked(runtime))
<1> DEFINE e == given[n].entry
<1>1. Ambiguous(runtime) = AmbiguousScalars \ Overlooked(runtime)
  BY DEF Ambiguous, AmbiguousScalars, Overlooked, WordField
<1>2. WordField \in Overlooked(runtime) <=> runtime = "rust"
  BY DEF Overlooked, WordField
<1>3. e.id \notin Ambiguous(runtime) /\ ~MalformedTarget(e.target)
        <=> UnknownField \notin DOMAIN e.target /\ ~HasAmbiguous(e, Overlooked(runtime))
  <2> DEFINE R == Range(e.target)
             A == Ambiguous(runtime)
  <2>1. ~MalformedTarget(e.target) <=> /\ UnknownField \notin DOMAIN e.target /\ R \cap A = {}
                                       /\ ~(runtime = "python" /\ WordField \in DOMAIN e.target)
    BY DEF MalformedTarget
  <2>2. ~HasAmbiguous(e, Overlooked(runtime))
          <=> ({e.id} \cup R) \cap A = {} /\ ~(WordField \in DOMAIN e.target /\ runtime # "rust")
    BY <1>1, <1>2 DEF HasAmbiguous
  <2>3. ({e.id} \cup R) \cap A = {} <=> e.id \notin A /\ R \cap A = {}
    OBVIOUS
  <2> HIDE DEF R, A, e
  <2> QED BY <2>1, <2>2, <2>3 DEF A
<1> QED BY <1>3 DEF Fit, Flawless

\* For any entries, names and limits: a stored rule has no flaw, and a refused one
\* has one, by the list of the policy language but for the scalars a runtime
\* overlooks; so both runtimes keep exactly the same rules of those without them.
THEOREM ValidAccepted == Spec => []ExactlyValidAccepted
<1>1. ASSUME Inv PROVE ExactlyValidAccepted
  <2>1. \A n : Fit(n) <=> Flawless(n, Overlooked(runtime))
    BY <1>1, FitIsFlawless DEF Inv, DocumentTypes
  <2> QED BY <1>1, <2>1 DEF Inv, ExactlyValidAccepted, Stored, Refusal, Place
<1> QED
  BY <1>1, InvHolds, PTL

\* Whatever the order of the sections, rules, targets, indices and limits are those
\* of the document.
THEOREM RulesAsWritten == Spec => []LoadedAsWritten
<1>1. ASSUME Inv PROVE LoadedAsWritten
  BY <1>1 DEF Inv
<1> QED
  BY <1>1, InvHolds, PTL

\* policy-language-v1.md: for any MaxDepth and MaxNodes a condition is refused
\* exactly when one of its nodes is too deep, too many or malformed.
THEOREM LimitsAreExact == Spec => []ConditionLimitsExact
<1>1. ASSUME Inv PROVE ConditionLimitsExact
  BY <1>1, LimitsFromInv DEF Inv, Place
<1> QED
  BY <1>1, InvHolds, PTL

\* policy-language-v1.md: for conditions of any shape and size the evaluation
\* that stops at the deciding operand returns what the language defines.
THEOREM MeaningIsReturned == Spec => []ConditionMeaning
<1>1. ASSUME Inv PROVE ConditionMeaning
  BY <1>1 DEF Inv, TreeInv, EvaluationInv
<1> QED
  BY <1>1, InvHolds, PTL

=============================================================================
