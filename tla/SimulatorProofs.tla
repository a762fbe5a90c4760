-------------------------- MODULE SimulatorProofs --------------------------
(***************************************************************************)
(* The engine and the hosts it runs in, for every set of rules, any        *)
(* policies, lines, calls and clocks: the filter keeps the declaration     *)
(* order and the loop over the matching rules ends at the one the language *)
(* calls the winner; both hosts have the engine resolve as specified; the  *)
(* simulator accepts exactly the well-formed traces and its reports are    *)
(* those of the policies.                                                  *)
(*                                                                         *)
(* The argument for the hosts: a resolution begins where the invariant of  *)
(* the engine holds and every step of it keeps that invariant; between     *)
(* resolutions the results collected so far belong to the event the        *)
(* reports have come to.  A changed report has its reason because a policy,*)
(* a call and an instant determine the result: two results for an event    *)
(* that differ come from counters of which one was advanced for another    *)
(* winner, at the least event where the two policies part.                 *)
(***************************************************************************)
EXTENDS Simulator, FiniteSetTheorems, WellFoundedInduction, TLAPS

-----------------------------------------------------------------------------
(* The engine. *)

Listed(m) == {matching[n] : n \in DOMAIN matching} = m

Ascending == \A n, m \in DOMAIN matching : n < m => matching[n] < matching[m]

\* The rules the filter has passed, and those it has kept.
FilterInv ==
  pc = "filter" => /\ i <= Len(rules) + 1
                   /\ Listed({n \in 1..(i - 1) : Applies(rules[n])})

\* The best rule so far outranks every other one the loop has seen.
BestInv ==
  pc = "best" =>
    /\ matching # <<>> /\ ~DenyMatches /\ i \in 2..(Len(matching) + 1)
    /\ \E b \in 1..(i - 1) :
         /\ best = matching[b]
         /\ \A n \in 1..(i - 1) : n # b => Outranks(best, matching[n])

\* What resolve_call_with_selected_rule_at returns.
LimitInv ==
  pc = "limit" =>
    \/ Applicable = {} /\ decision = default /\ selected = 0
    \/ /\ \E n \in Applicable : rules[n].action = "deny"
       /\ decision = "deny" /\ selected = 0
    \/ /\ \A n \in Applicable : rules[n].action # "deny"
       /\ Winner(selected) /\ decision = rules[selected].action

EngineInv ==
  /\ TypeOK /\ Ascending /\ FilterInv /\ BestInv /\ LimitInv
  /\ pc # "filter" => Listed(Applicable)
  /\ pc # "done" => consumed = 0
  /\ ResolvesAsSpecified /\ QuotaOfWinnerOnly

-----------------------------------------------------------------------------
(* Ranks. *)

LEMMA SizeIsNat ==
  ASSUME NEW r \in Rule
  PROVE  Cardinality(DOMAIN r.target) \in Nat
<1>1. DOMAIN r.target \subseteq Fields \cup {Unknown}
  BY DEF Rule, Targets
<1>2. IsFiniteSet(Fields \cup {Unknown})
  BY FieldsAssumption, FS_AddElement
<1> QED
  BY <1>1, <1>2, FS_Subset, FS_CardinalityType

LEMMA PriorityIsRank ==
  ASSUME NEW a \in Actions, a # "deny"
  PROVE  Priority(a) = Rank(a) /\ Rank(a) \in Nat
  BY DEF Priority, Rank, Actions

LEMMA RulesOfPolicy ==
  ASSUME TypeOK
  PROVE  /\ \A n \in DOMAIN rules : rules[n] \in Rule /\ n \in Int
         /\ \A n \in DOMAIN rules : Cardinality(DOMAIN rules[n].target) \in Nat
         /\ \A n \in DOMAIN rules : Rank(rules[n].action) \in Nat
<1>1. rules \in Seq(Rules) /\ Rules \subseteq Rule
  BY RulesAssumption DEF TypeOK
<1>2. \A n \in DOMAIN rules : rules[n] \in Rule /\ n \in Int
  BY <1>1
<1>3. \A n \in DOMAIN rules : Cardinality(DOMAIN rules[n].target) \in Nat
  BY <1>2, SizeIsNat
<1> QED
  BY <1>2, <1>3 DEF Rank

\* Outranking is transitive, and a comparison of the loop decides it.
LEMMA OutranksTransitive ==
  ASSUME TypeOK, NEW x \in DOMAIN rules, NEW y \in DOMAIN rules, NEW z \in DOMAIN rules,
         Outranks(x, y), Outranks(y, z)
  PROVE  Outranks(x, z)
  BY RulesOfPolicy DEF Outranks

LEMMA BetterDecides ==
  ASSUME TypeOK, NEW x \in DOMAIN rules, NEW y \in DOMAIN rules, y < x,
         rules[x].action # "deny", rules[y].action # "deny"
  PROVE  /\ Better(rules[x], rules[y]) => Outranks(x, y)
         /\ ~Better(rules[x], rules[y]) => Outranks(y, x)
<1>1. \A n \in {x, y} : Priority(rules[n].action) = Rank(rules[n].action)
  BY RulesOfPolicy, PriorityIsRank DEF Rule
<1> QED
  BY <1>1, RulesOfPolicy DEF Better, Outranks, Specificity

-----------------------------------------------------------------------------
(* The invariant. *)

LEMMA EngineInvInit == Init => EngineInv
<1> SUFFICES ASSUME Init PROVE EngineInv
  OBVIOUS
<1>1. rules \in Seq(Rules) /\ Len(rules) \in Nat
  BY DefaultsAssumption DEF Init
<1>2. TypeOK
  BY <1>1 DEF Init, TypeOK
<1>3. Ascending /\ FilterInv
  BY <1>1 DEF Init, Ascending, FilterInv, Listed
<1>4. BestInv /\ LimitInv /\ ResolvesAsSpecified /\ QuotaOfWinnerOnly
  BY DEF Init, BestInv, LimitInv, ResolvesAsSpecified, QuotaOfWinnerOnly
<1> QED
  BY <1>2, <1>3, <1>4 DEF Init, EngineInv

\* No step changes the policy, the call or what the language says of them.
LEMMA SameProblem ==
  ASSUME UNCHANGED inputs
  PROVE  /\ Applicable' = Applicable
         /\ \A n : Applies(rules[n])' = Applies(rules[n])
         /\ \A n, m : Outranks(n, m)' = Outranks(n, m)
         /\ \A n : Winner(n)' = Winner(n)
         /\ \A n : Answers(n)' = Answers(n)
  BY DEF inputs, Applicable, Applies, Outranks, Winner, Answers

\* The filter passes a rule.
LEMMA FilterStep ==
  ASSUME EngineInv, Match \/ Mismatch
  PROVE  EngineInv'
<1>1. /\ pc = "filter" /\ pc' = "filter" /\ i <= Len(rules) /\ i' = i + 1
      /\ UNCHANGED <<inputs, best, selected, decision, consumed>>
  BY DEF Match, Mismatch
<1>2. rules \in Seq(Rules) /\ Len(rules) \in Nat /\ i \in 1..Len(rules) /\ i \in DOMAIN rules
  BY <1>1 DEF EngineInv, TypeOK
<1>3. matching \in Seq(DOMAIN rules)
  BY DEF EngineInv, TypeOK
<1>4. Listed({n \in 1..(i - 1) : Applies(rules[n])})
  BY <1>1 DEF EngineInv, FilterInv
<1>5. ASSUME Match
      PROVE  /\ matching' \in Seq(DOMAIN rules) /\ Ascending'
             /\ {matching'[n] : n \in DOMAIN matching'} = {n \in 1..i : Applies(rules[n])}
  <2>1. matching' = Append(matching, i) /\ Applies(rules[i])
    BY <1>5 DEF Match
  <2>2. /\ DOMAIN matching' = DOMAIN matching \cup {Len(matching) + 1}
        /\ \A n \in DOMAIN matching : matching'[n] = matching[n] /\ matching[n] \in 1..(i - 1)
        /\ matching'[Len(matching) + 1] = i
        /\ matching' \in Seq(DOMAIN rules)
    BY <2>1, <1>2, <1>3, <1>4 DEF Listed
  <2>3. Ascending'
    BY <2>2, <1>2, <1>3 DEF EngineInv, Ascending
  <2>4. {matching'[n] : n \in DOMAIN matching'} = {matching[n] : n \in DOMAIN matching} \cup {i}
    BY <2>2, <1>3
  <2>5. {n \in 1..i : Applies(rules[n])} = {n \in 1..(i - 1) : Applies(rules[n])} \cup {i}
    BY <2>1, <1>2
  <2> QED
    BY <2>2, <2>3, <2>4, <2>5, <1>4 DEF Listed
<1>6. ASSUME Mismatch
      PROVE  /\ matching' \in Seq(DOMAIN rules) /\ Ascending'
             /\ {matching'[n] : n \in DOMAIN matching'} = {n \in 1..i : Applies(rules[n])}
  <2>1. matching' = matching /\ ~Applies(rules[i])
    BY <1>6 DEF Mismatch
  <2>2. {n \in 1..i : Applies(rules[n])} = {n \in 1..(i - 1) : Applies(rules[n])}
    BY <2>1, <1>2
  <2> QED
    BY <2>1, <2>2, <1>3, <1>4 DEF EngineInv, Ascending, Listed
<1>7. /\ matching' \in Seq(DOMAIN rules) /\ Ascending'
      /\ {matching'[n] : n \in DOMAIN matching'} = {n \in 1..i : Applies(rules[n])}
  BY <1>5, <1>6
<1>8. TypeOK'
  BY <1>1, <1>2, <1>7 DEF EngineInv, TypeOK, inputs
<1>9. FilterInv'
  <2>1. i' - 1 = i /\ i' <= Len(rules) + 1
    BY <1>1, <1>2
  <2>2. {n \in 1..(i' - 1) : Applies(rules[n])'} = {n \in 1..i : Applies(rules[n])}
    BY <2>1, <1>1, SameProblem
  <2> QED
    BY <2>1, <2>2, <1>1, <1>7 DEF FilterInv, Listed, inputs
<1>10. BestInv' /\ LimitInv' /\ ResolvesAsSpecified' /\ QuotaOfWinnerOnly'
  BY <1>1 DEF EngineInv, BestInv, LimitInv, ResolvesAsSpecified, QuotaOfWinnerOnly
<1> QED
  BY <1>1, <1>7, <1>8, <1>9, <1>10 DEF EngineInv

\* Past the filter, the list holds the rules that apply.
LEMMA FilterDone ==
  ASSUME EngineInv, pc = "filter", i > Len(rules)
  PROVE  /\ Listed(Applicable)
         /\ DenyMatches <=> \E n \in Applicable : rules[n].action = "deny"
         /\ matching = <<>> <=> Applicable = {}
<1>1. rules \in Seq(Rules) /\ Len(rules) \in Nat /\ i \in Nat /\ i <= Len(rules) + 1
  BY DEF EngineInv, TypeOK, FilterInv
<1>2. 1..(i - 1) = DOMAIN rules
  BY <1>1
<1>3. Listed(Applicable)
  BY <1>2 DEF EngineInv, FilterInv, Listed, Applicable
<1>4. matching = <<>> <=> DOMAIN matching = {}
  BY DEF EngineInv, TypeOK
<1> QED
  BY <1>3, <1>4 DEF Listed, DenyMatches

\* The engine returns without a loop: the default, or deny.
LEMMA EarlyReturn ==
  ASSUME EngineInv, ReturnDefault \/ ReturnDeny
  PROVE  EngineInv'
<1>1. /\ pc = "filter" /\ i > Len(rules) /\ pc' = "limit" /\ selected' = 0
      /\ UNCHANGED <<inputs, i, matching, best, consumed>>
  BY DEF ReturnDefault, ReturnDeny, Return
<1>2. /\ Listed(Applicable)
      /\ DenyMatches <=> \E n \in Applicable : rules[n].action = "deny"
      /\ matching = <<>> <=> Applicable = {}
  BY <1>1, FilterDone
<1>3. Applicable' = Applicable
  BY <1>1, SameProblem
<1>4. \/ Applicable = {} /\ decision' = default
      \/ (\E n \in Applicable : rules[n].action = "deny") /\ decision' = "deny"
  BY <1>2 DEF ReturnDefault, ReturnDeny, Return
<1>5. TypeOK'
  BY <1>1, <1>4, DefaultsAssumption DEF EngineInv, TypeOK, inputs, Actions
<1>6. LimitInv'
  BY <1>1, <1>3, <1>4 DEF LimitInv, inputs
<1>7. Ascending' /\ Listed(Applicable)'
  BY <1>1, <1>2, <1>3 DEF EngineInv, Ascending, Listed
<1>8. FilterInv' /\ BestInv' /\ ResolvesAsSpecified' /\ QuotaOfWinnerOnly'
  BY <1>1 DEF EngineInv, FilterInv, BestInv, ResolvesAsSpecified, QuotaOfWinnerOnly
<1> QED
  BY <1>1, <1>5, <1>6, <1>7, <1>8 DEF EngineInv

\* The loop starts at the first rule of the list.
LEMMA LoopBegins ==
  ASSUME EngineInv, BeginBest
  PROVE  EngineInv'
<1>1. /\ pc = "filter" /\ i > Len(rules) /\ pc' = "best" /\ i' = 2 /\ best' = matching[1]
      /\ matching # <<>> /\ ~DenyMatches
      /\ UNCHANGED <<inputs, matching, selected, decision, consumed>>
  BY DEF BeginBest
<1>2. matching \in Seq(DOMAIN rules) /\ Len(matching) \in Nat \ {0} /\ matching[1] \in DOMAIN rules
  BY <1>1 DEF EngineInv, TypeOK
<1>3. TypeOK'
  BY <1>1, <1>2 DEF EngineInv, TypeOK, inputs
<1>4. Listed(Applicable)'
  BY <1>1, FilterDone, SameProblem DEF Listed
<1>5. BestInv'
  <2>1. ~DenyMatches' /\ i' \in 2..(Len(matching') + 1)
    BY <1>1, <1>2 DEF DenyMatches, inputs
  <2>2. i' - 1 = 1 /\ 1..(i' - 1) = {1}
    BY <1>1
  <2> QED
    BY <1>1, <2>1, <2>2 DEF BestInv
<1>6. Ascending' /\ FilterInv' /\ LimitInv' /\ ResolvesAsSpecified' /\ QuotaOfWinnerOnly'
  BY <1>1 DEF EngineInv, Ascending, FilterInv, LimitInv, ResolvesAsSpecified, QuotaOfWinnerOnly
<1> QED
  BY <1>1, <1>3, <1>4, <1>5, <1>6 DEF EngineInv

\* The loop compares one more rule with the best one.
LEMMA LoopStep ==
  ASSUME EngineInv, TakeBetter \/ KeepBest
  PROVE  EngineInv'
<1>1. /\ pc = "best" /\ pc' = "best" /\ i <= Len(matching) /\ i' = i + 1
      /\ UNCHANGED <<inputs, matching, selected, decision, consumed>>
  BY DEF TakeBetter, KeepBest
<1>2. /\ matching \in Seq(DOMAIN rules) /\ Len(matching) \in Nat
      /\ matching # <<>> /\ ~DenyMatches /\ i \in 2..Len(matching)
  BY <1>1 DEF EngineInv, TypeOK, BestInv
<1>3. PICK b \in 1..(i - 1) :
        best = matching[b] /\ \A n \in 1..(i - 1) : n # b => Outranks(best, matching[n])
  BY <1>1 DEF EngineInv, BestInv
<1>4. /\ b \in DOMAIN matching /\ i \in DOMAIN matching /\ b < i
      /\ \A n \in 1..i : n \in DOMAIN matching /\ matching[n] \in DOMAIN rules
  BY <1>2, <1>3
<1>5. best < matching[i] /\ rules[best].action # "deny" /\ rules[matching[i]].action # "deny"
  BY <1>2, <1>3, <1>4 DEF EngineInv, Ascending, DenyMatches
<1>6. /\ Better(rules[matching[i]], rules[best]) => Outranks(matching[i], best)
      /\ ~Better(rules[matching[i]], rules[best]) => Outranks(best, matching[i])
  <2>1. TypeOK /\ best \in DOMAIN rules /\ matching[i] \in DOMAIN rules
    BY <1>2, <1>3, <1>4 DEF EngineInv
  <2> QED
    BY <2>1, <1>5, BetterDecides
<1>7. \E c \in 1..i : /\ best' = matching[c]
                      /\ \A n \in 1..i : n # c => Outranks(best', matching[n])
  <2>1. CASE TakeBetter
    <3>1. best' = matching[i] /\ Outranks(matching[i], best)
      BY <2>1, <1>6 DEF TakeBetter
    <3>2. ASSUME NEW n \in 1..i, n # i PROVE Outranks(matching[i], matching[n])
      <4>1. CASE n = b
        BY <4>1, <3>1, <1>3
      <4>2. CASE n # b
        <5>1. Outranks(best, matching[n])
          BY <4>2, <3>2, <1>2, <1>3
        <5> QED
          <6>1. /\ TypeOK /\ best \in DOMAIN rules /\ matching[i] \in DOMAIN rules
                /\ matching[n] \in DOMAIN rules
            BY <1>2, <1>3, <1>4, <3>2 DEF EngineInv
          <6> QED
            BY <6>1, <5>1, <3>1, OutranksTransitive
      <4> QED
        BY <4>1, <4>2
    <3> QED
      BY <3>1, <3>2, <1>2
  <2>2. CASE KeepBest
    <3>1. best' = matching[b] /\ Outranks(best, matching[i])
      BY <2>2, <1>3, <1>6 DEF KeepBest
    <3> QED
      BY <3>1, <1>2, <1>3
  <2> QED
    BY <2>1, <2>2
<1>8. TypeOK'
  BY <1>1, <1>2, <1>4, <1>7 DEF EngineInv, TypeOK, inputs
<1>9. BestInv'
  <2>1. ~DenyMatches' /\ i' \in 2..(Len(matching') + 1)
    BY <1>1, <1>2 DEF DenyMatches, inputs
  <2>2. PICK c \in 1..i : /\ best' = matching[c]
                         /\ \A n \in 1..i : n # c => Outranks(best', matching[n])
    BY <1>7
  <2>3. \A n \in 1..i : n # c => Outranks(best, matching[n])'
    BY <1>1, <2>2 DEF Outranks, inputs
  <2>4. i' - 1 = i
    BY <1>1, <1>2
  <2> QED
    BY <1>1, <1>2, <2>1, <2>2, <2>3, <2>4 DEF BestInv
<1>10. Listed(Applicable)'
  BY <1>1, SameProblem DEF EngineInv, Listed
<1>11. Ascending' /\ FilterInv' /\ LimitInv' /\ ResolvesAsSpecified' /\ QuotaOfWinnerOnly'
  BY <1>1 DEF EngineInv, Ascending, FilterInv, LimitInv, ResolvesAsSpecified, QuotaOfWinnerOnly
<1> QED
  BY <1>1, <1>8, <1>9, <1>10, <1>11 DEF EngineInv

\* The loop ends: the best rule is the winner.
LEMMA LoopEnds ==
  ASSUME EngineInv, ReturnBest
  PROVE  EngineInv'
<1>1. /\ pc = "best" /\ i > Len(matching) /\ pc' = "limit"
      /\ decision' = rules[best].action /\ selected' = best
      /\ UNCHANGED <<inputs, i, matching, best, consumed>>
  BY DEF ReturnBest, Return
<1>2. /\ matching \in Seq(DOMAIN rules) /\ Len(matching) \in Nat
      /\ ~DenyMatches /\ i = Len(matching) + 1
  BY <1>1 DEF EngineInv, TypeOK, BestInv
<1>3. PICK b \in 1..(i - 1) :
        best = matching[b] /\ \A n \in 1..(i - 1) : n # b => Outranks(best, matching[n])
  BY <1>1 DEF EngineInv, BestInv
<1>4. DOMAIN matching = 1..(i - 1) /\ b \in DOMAIN matching /\ best \in DOMAIN rules
  BY <1>2, <1>3
<1>5. Listed(Applicable)
  BY <1>1 DEF EngineInv
<1>6. best \in Applicable /\ \A m \in Applicable \ {best} : Outranks(best, m)
  BY <1>3, <1>4, <1>5 DEF Listed
<1>7. \A n \in Applicable : rules[n].action # "deny"
  BY <1>2, <1>5 DEF Listed, DenyMatches
<1>8. LimitInv'
  <2>1. Winner(best)' /\ Applicable' = Applicable
    BY <1>1, <1>6, SameProblem DEF Winner
  <2>2. Winner(selected)'
    BY <1>1, <2>1
  <2> QED
    BY <1>1, <1>7, <2>1, <2>2 DEF LimitInv, inputs
<1>9. TypeOK'
  <2>1. rules[best].action \in Actions
    BY <1>4, RulesOfPolicy DEF EngineInv, Rule
  <2> QED
    BY <1>1, <1>4, <2>1 DEF EngineInv, TypeOK, inputs
<1>10. Listed(Applicable)'
  BY <1>1, <1>5, SameProblem DEF Listed
<1>11. Ascending' /\ FilterInv' /\ BestInv' /\ ResolvesAsSpecified' /\ QuotaOfWinnerOnly'
  BY <1>1 DEF EngineInv, Ascending, FilterInv, BestInv, ResolvesAsSpecified, QuotaOfWinnerOnly
<1> QED
  BY <1>1, <1>8, <1>9, <1>10, <1>11 DEF EngineInv

LEMMA OneWinner ==
  ASSUME TypeOK, NEW n, NEW m, Winner(n), Winner(m)
  PROVE  n = m
<1>1. n \in DOMAIN rules /\ m \in DOMAIN rules
  BY DEF Winner, Applicable
<1>2. SUFFICES ASSUME n # m PROVE FALSE
  OBVIOUS
<1>3. Outranks(n, m) /\ Outranks(m, n)
  BY <1>2 DEF Winner
<1> QED
  BY <1>1, <1>3, RulesOfPolicy DEF Outranks

\* The entry point looks at the limit of the selected rule.
LEMMA LimitStep ==
  ASSUME EngineInv, Unlimited \/ ThrottlePure \/ AskQuota
  PROVE  EngineInv'
<1>1. /\ pc = "limit" /\ pc' = "done" /\ consumed = 0
      /\ UNCHANGED <<inputs, i, matching, best, selected>>
  BY DEF Unlimited, ThrottlePure, AskQuota, EngineInv
<1>2. \/ ~LimitApplies /\ decision' = decision /\ consumed' = 0
      \/ LimitApplies /\ api = "pure" /\ decision' = "throttle" /\ consumed' = 0
      \/ LimitApplies /\ api = "stateful" /\ decision' = decision /\ consumed' = selected
      \/ /\ LimitApplies /\ api = "stateful" /\ consumed' = 0
         /\ decision' \in {"throttle", "state_unavailable"}
  BY <1>1 DEF Unlimited, ThrottlePure, AskQuota
<1>3. LimitInv /\ TypeOK
  BY DEF EngineInv
<1>4. /\ Applicable' = Applicable /\ rules' = rules /\ api' = api /\ default' = default
      /\ \A n : Winner(n)' = Winner(n)
      /\ \A n : Answers(n)' = Answers(n)
  BY <1>1, SameProblem DEF inputs
<1>5. \A n \in Applicable : n \in DOMAIN rules /\ n # 0
                            /\ (rules[n].limited => rules[n].action = "allow")
  <2>1. rules \in Seq(Rules)
    BY <1>3 DEF TypeOK
  <2> QED
    BY <2>1, RulesAssumption DEF Applicable
<1>6. TypeOK'
  BY <1>1, <1>2, <1>3, <1>4 DEF TypeOK, Actions, inputs
<1>7. CASE Applicable = {} \/ \E n \in Applicable : rules[n].action = "deny"
  <2>1. /\ selected = 0 /\ decision' = decision /\ consumed' = 0
        /\ (Applicable = {} => decision = default)
        /\ (Applicable # {} => decision = "deny")
    BY <1>1, <1>2, <1>3, <1>7 DEF LimitInv, LimitApplies, Winner
  <2>2. ResolvesAsSpecified'
    BY <1>4, <1>7, <2>1 DEF ResolvesAsSpecified
  <2>3. QuotaOfWinnerOnly'
    BY <1>4, <2>1 DEF QuotaOfWinnerOnly
  <2> QED
    BY <2>2, <2>3, <1>1, <1>6, <1>4 DEF EngineInv, Ascending, Listed, FilterInv, BestInv, LimitInv
<1>8. CASE Applicable # {} /\ \A n \in Applicable : rules[n].action # "deny"
  <2>1. Winner(selected) /\ selected \in Applicable /\ decision = rules[selected].action
    BY <1>1, <1>3, <1>8 DEF LimitInv, Winner
  <2>2. LimitApplies <=> rules[selected].limited
    BY <1>5, <2>1 DEF LimitApplies
  <2>3. decision' \in Answers(selected)
    BY <1>2, <1>3, <1>5, <2>1, <2>2 DEF Answers, TypeOK
  <2>4. ResolvesAsSpecified'
    BY <1>4, <1>8, <2>1, <2>3 DEF ResolvesAsSpecified
  <2>5. QuotaOfWinnerOnly'
    <3>1. consumed' # 0 => decision' = "allow" /\ Winner(consumed') /\ rules[consumed'].limited
      BY <1>2, <2>1, <2>2 DEF LimitApplies
    <3>2. decision' = "allow" /\ consumed' = 0 => ~rules[selected].limited
      BY <1>2, <1>5, <2>1, <2>2
    <3>3. \A n \in Applicable : Winner(n) => n = selected
      BY <1>3, <2>1, OneWinner
    <3> QED
      BY <1>4, <3>1, <3>2, <3>3 DEF QuotaOfWinnerOnly, Winner, Outranks, Applicable, Applies
  <2> QED
    BY <2>4, <2>5, <1>1, <1>6, <1>4 DEF EngineInv, Ascending, Listed, FilterInv, BestInv, LimitInv
<1> QED
  BY <1>7, <1>8

LEMMA EngineInvNext == EngineInv /\ [Next]_vars => EngineInv'
<1> SUFFICES ASSUME EngineInv, [Next]_vars PROVE EngineInv'
  OBVIOUS
<1>1. CASE Match \/ Mismatch
  BY <1>1, FilterStep
<1>2. CASE ReturnDefault \/ ReturnDeny
  BY <1>2, EarlyReturn
<1>3. CASE BeginBest
  BY <1>3, LoopBegins
<1>4. CASE TakeBetter \/ KeepBest
  BY <1>4, LoopStep
<1>5. CASE ReturnBest
  BY <1>5, LoopEnds
<1>6. CASE Unlimited \/ ThrottlePure \/ AskQuota
  BY <1>6, LimitStep
<1>7. CASE UNCHANGED vars
  <2>1. UNCHANGED vars /\ UNCHANGED inputs
    BY <1>7 DEF vars, inputs
  <2>2. TypeOK'
    BY <2>1 DEF vars, EngineInv, TypeOK
  <2>8. Ascending' /\ FilterInv'
    BY <2>1 DEF vars, EngineInv, Ascending, FilterInv, Listed, Applies
  <2>3. BestInv'
    BY <2>1 DEF vars, EngineInv, BestInv, DenyMatches, Outranks
  <2>4. LimitInv'
    BY <2>1 DEF vars, EngineInv, LimitInv, Winner, Outranks, Applicable, Applies
  <2>5. ResolvesAsSpecified'
    BY <2>1 DEF vars, EngineInv, ResolvesAsSpecified, Winner, Answers, Outranks, Applicable, Applies
  <2>6. QuotaOfWinnerOnly'
    BY <2>1 DEF vars, EngineInv, QuotaOfWinnerOnly, Winner, Outranks, Applicable, Applies
  <2>7. (pc # "filter" => Listed(Applicable))' /\ (pc # "done" => consumed = 0)'
    BY <2>1 DEF vars, EngineInv, Listed, Applicable, Applies
  <2> QED
    BY <2>2, <2>3, <2>4, <2>5, <2>6, <2>7, <2>8 DEF EngineInv
<1> QED
  BY <1>1, <1>2, <1>3, <1>4, <1>5, <1>6, <1>7 DEF Next

-----------------------------------------------------------------------------
(* Theorems. *)

\* For every policy and call the engine decides what the language defines: the
\* default, deny, or the action of the one winner (throttled by its limit).
THEOREM EngineIsCorrect == Spec => []ResolvesAsSpecified
<1>1. EngineInv => ResolvesAsSpecified
  BY DEF EngineInv
<1> QED
  BY <1>1, EngineInvInit, EngineInvNext, PTL DEF Spec

\* For every policy and call a quota is taken from exactly when the winner is an
\* allow rule with a limit and the call is allowed.
THEOREM QuotaIsOfWinner == Spec => []QuotaOfWinnerOnly
<1>1. EngineInv => QuotaOfWinnerOnly
  BY DEF EngineInv
<1> QED
  BY <1>1, EngineInvInit, EngineInvNext, PTL DEF Spec

-----------------------------------------------------------------------------
(* The hosts. *)

Hosts == {"live", "load", "trace", "events", "resolving", "printed", "failed"}
Simulating == {"events", "resolving", "printed"}

TraceTypes ==
  /\ lines \in Seq(Lines) /\ events \in Seq(Lines) /\ Len(lines) <= MaxLines
  /\ expected_sequence = Len(events) + 1

PolicyTypes == policies \in Seq(Policies) /\ Len(policies) <= 2

ReportTypes ==
  /\ \E S : results \in Seq(S)
  /\ \E S : reports \in Seq(S)
  /\ Len(results) <= Len(policies) /\ Len(reports) <= Len(events)

HostTypes ==
  /\ host \in Hosts /\ runtime \in {"rust", "python"} /\ clock \in Instants
  /\ failure.line \in 0..Len(lines)
  /\ PolicyTypes /\ TraceTypes /\ ReportTypes

EventLines(n) == {k \in 1..n : lines[k].text # "blank"}

\* Line n as the runtime at hand sees it.
Readable(n) ==
  /\ ~BadJson(lines[n])
  /\ \A part \in Parts \ {"null event_id"} : ~Invalid(lines[n], part)
  /\ InSequence(n)
Accepted(n) == lines[n].text = "blank" \/ Readable(n)

TraceInv ==
  /\ host # "failed" => \A n \in DOMAIN lines : Accepted(n)
  /\ host # "failed" => Len(events) = Cardinality(EventLines(Len(lines)))
  /\ \A k \in DOMAIN events : events[k].sequence = k
  /\ host = "failed" /\ failure.line # 0 =>
       /\ failure.line = Len(lines) /\ ~Accepted(Len(lines)) /\ reports = <<>>
       /\ \A n \in 1..(Len(lines) - 1) : Accepted(n)
  /\ host = "failed" /\ failure.line = 0 /\ reports # <<>> => failure.code = "io_error"
  /\ host \in {"live", "load", "trace"} => reports = <<>> /\ results = <<>>

ReportInv ==
  \A k \in DOMAIN reports :
    /\ reports[k].sequence = k /\ Len(reports[k].results) = Len(policies)
    /\ \A p \in DOMAIN policies : Right(reports[k].results[p], policies[p], events[k])

ResultInv ==
  results # <<>> =>
    /\ Len(reports) < Len(events)
    /\ \A p \in DOMAIN results : Right(results[p], policies[p], Event)

\* The resolution under way is that of the next policy for the next event.
ResolvingInv ==
  host = "resolving" =>
    /\ Len(results) < Len(policies) /\ Len(reports) < Len(events)
    /\ LET policy == policies[Len(results) + 1] IN
         rules = RulesAt(policy, clock) /\ default = policy.default
    /\ call = Event.call

SimInv ==
  HostTypes /\ EngineInv /\ TraceInv /\ ReportInv /\ ResultInv /\ ResolvingInv

-----------------------------------------------------------------------------
(* Lines, and the number of those that are events. *)

LEMMA EventLinesFinite ==
  ASSUME NEW n \in Nat
  PROVE  IsFiniteSet(EventLines(n)) /\ Cardinality(EventLines(n)) \in Nat
<1>1. IsFiniteSet(1..n)
  BY FS_Interval
<1>2. EventLines(n) \subseteq 1..n
  BY DEF EventLines
<1>3. IsFiniteSet(EventLines(n))
  BY <1>1, <1>2, FS_Subset
<1> QED
  BY <1>3, FS_CardinalityType

\* A further line leaves the lines before it as they are.
LEMMA EarlierLines ==
  ASSUME HostTypes, NEW line \in Lines, lines' = Append(lines, line), runtime' = runtime
  PROVE  /\ Len(lines') = Len(lines) + 1 /\ lines'[Len(lines')] = line
         /\ \A n \in 1..Len(lines) : lines'[n] = lines[n] /\ (Accepted(n)' <=> Accepted(n))
         /\ lines' \in Seq(Lines)
         /\ DOMAIN lines' = 1..(Len(lines) + 1)
<1>1. /\ Len(lines) \in Nat /\ Len(lines') = Len(lines) + 1 /\ lines'[Len(lines')] = line
      /\ \A n \in 1..Len(lines) : lines'[n] = lines[n]
      /\ lines' \in Seq(Lines) /\ DOMAIN lines' = 1..(Len(lines) + 1)
  BY DEF HostTypes, TraceTypes
<1>2. ASSUME NEW n \in 1..Len(lines) PROVE Accepted(n)' <=> Accepted(n)
  <2>1. lines'[n] = lines[n]
    BY <1>1
  <2>2. {k \in 1..n : lines'[k].text # "blank"} = {k \in 1..n : lines[k].text # "blank"}
    BY <1>1
  <2>3. /\ BadJson(lines[n])' <=> BadJson(lines[n])
        /\ \A part : Invalid(lines[n], part)' <=> Invalid(lines[n], part)
    BY <2>1 DEF BadJson, Invalid
  <2>4. Readable(n)' <=> Readable(n)
    BY <2>1, <2>2, <2>3 DEF Readable, InSequence
  <2> QED
    BY <2>1, <2>4 DEF Accepted
<1> QED
  BY <1>1, <1>2

\* The events among the lines when one more is read.
LEMMA CountLines ==
  ASSUME HostTypes, NEW line \in Lines, lines' = Append(lines, line), runtime' = runtime
  PROVE  Cardinality({k \in 1..Len(lines') : lines'[k].text # "blank"})
           = IF line.text = "blank" THEN Cardinality(EventLines(Len(lines)))
             ELSE Cardinality(EventLines(Len(lines))) + 1
<1> DEFINE L == Len(lines)
           E == EventLines(L)
           F == {k \in 1..(L + 1) : lines'[k].text # "blank"}
<1>1. /\ L \in Nat /\ Len(lines') = L + 1 /\ lines'[L + 1] = line
      /\ \A n \in 1..L : lines'[n] = lines[n]
  BY EarlierLines DEF HostTypes, TraceTypes
<1>2. {k \in 1..Len(lines') : lines'[k].text # "blank"} = F
  BY <1>1
<1>3. IsFiniteSet(E) /\ L + 1 \notin E
  BY <1>1, EventLinesFinite DEF EventLines
<1>4. CASE line.text = "blank"
  <2>1. F = E
    BY <1>1, <1>4 DEF EventLines
  <2> QED
    BY <1>2, <1>4, <2>1
<1>5. CASE line.text # "blank"
  <2>1. F = E \cup {L + 1}
    BY <1>1, <1>5 DEF EventLines
  <2> HIDE DEF E, F, L
  <2>2. Cardinality(E \cup {L + 1}) = Cardinality(E) + 1
    BY <1>3, FS_AddElement
  <2> QED
    BY <1>2, <1>5, <2>1, <2>2 DEF E, L
<1> QED
  BY <1>4, <1>5

LEMMA PartsChecked ==
  /\ DOMAIN EventChecks = 1..6
  /\ EventChecks[1].part = "fields" /\ EventChecks[2].part = "version"
  /\ EventChecks[3].part = "sequence" /\ EventChecks[4].part = "event_id"
  /\ EventChecks[5].part = "call" /\ EventChecks[6].part = "expected"
BY DEF EventChecks

\* parse_event looks at every part.
LEMMA ValidPartsAll ==
  ASSUME NEW line
  PROVE  ValidEvent(line) <=> \A part \in Parts \ {"null event_id"} : ~Invalid(line, part)
<1>1. Parts \ {"null event_id"} = {"fields", "version", "sequence", "event_id", "call", "expected"}
  BY DEF Parts
<1>2. ValidEvent(line) => \A part \in Parts \ {"null event_id"} : ~Invalid(line, part)
  <2> SUFFICES ASSUME \A n \in 1..6 : ~Invalid(line, EventChecks[n].part)
               PROVE  \A part \in Parts \ {"null event_id"} : ~Invalid(line, part)
    BY PartsChecked DEF ValidEvent
  <2>1. /\ ~Invalid(line, EventChecks[1].part) /\ ~Invalid(line, EventChecks[2].part)
        /\ ~Invalid(line, EventChecks[3].part) /\ ~Invalid(line, EventChecks[4].part)
        /\ ~Invalid(line, EventChecks[5].part) /\ ~Invalid(line, EventChecks[6].part)
    OBVIOUS
  <2>2. /\ ~Invalid(line, "fields") /\ ~Invalid(line, "version") /\ ~Invalid(line, "sequence")
        /\ ~Invalid(line, "event_id") /\ ~Invalid(line, "call") /\ ~Invalid(line, "expected")
    BY <2>1, PartsChecked
  <2> QED
    BY <2>2, <1>1
<1>3. (\A part \in Parts \ {"null event_id"} : ~Invalid(line, part)) => ValidEvent(line)
  <2> SUFFICES ASSUME \A part \in Parts \ {"null event_id"} : ~Invalid(line, part)
               PROVE  \A n \in 1..6 : ~Invalid(line, EventChecks[n].part)
    BY PartsChecked DEF ValidEvent
  <2> TAKE n \in 1..6
  <2>1. n = 1 \/ n = 2 \/ n = 3 \/ n = 4 \/ n = 5 \/ n = 6
    BY ONLY n \in 1..6
  <2>2. EventChecks[n].part \in Parts \ {"null event_id"}
    BY <2>1, PartsChecked DEF Parts
  <2> QED
    BY <2>2
<1> QED
  BY <1>2, <1>3

-----------------------------------------------------------------------------
(* The invariant. *)

LEMMA EngineStays ==
  ASSUME EngineInv, UNCHANGED vars
  PROVE  EngineInv'
BY EngineInvNext

\* Reports stay right while neither they nor what they are about change.
LEMMA ReportsStay ==
  ASSUME ReportInv, UNCHANGED <<reports, policies, events>>
  PROVE  ReportInv'
<1>1. reports' = reports /\ policies' = policies /\ events' = events
  OBVIOUS
<1>2. \A k \in DOMAIN reports :
        \A p \in DOMAIN policies : Right(reports[k].results[p], policies[p], events[k])
  BY DEF ReportInv
<1>3. \A k \in DOMAIN reports' :
        \A p \in DOMAIN policies' : Right(reports'[k].results[p], policies'[p], events'[k])
  BY <1>1, <1>2
<1>4. \A k \in DOMAIN reports' :
        reports'[k].sequence = k /\ Len(reports'[k].results) = Len(policies')
  BY <1>1 DEF ReportInv
<1> QED
  BY <1>3, <1>4 DEF ReportInv

LEMMA ResultsStay ==
  ASSUME ResultInv, UNCHANGED <<results, reports, policies, events>>
  PROVE  ResultInv'
<1>1. results' = results /\ reports' = reports /\ policies' = policies /\ events' = events
  OBVIOUS
<1>2. Event' = Event
  BY <1>1 DEF Event
<1> QED
  BY <1>1, <1>2 DEF ResultInv

LEMMA TraceStays ==
  ASSUME HostTypes, TraceInv, UNCHANGED <<lines, runtime, events, failure>>,
         host # "failed", host' # "failed",
         host' \in {"live", "load", "trace"} => reports' = <<>> /\ results' = <<>>
  PROVE  TraceInv'
<1>1. \A n : Accepted(n)' <=> Accepted(n)
  BY DEF Accepted, Readable, InSequence, BadJson, Invalid
<1>2. EventLines(Len(lines))' = EventLines(Len(lines))
  BY DEF EventLines
<1> QED
  BY <1>1, <1>2 DEF TraceInv

LEMMA SimInvInit == SimInit => SimInv
<1> SUFFICES ASSUME SimInit PROVE SimInv
  OBVIOUS
<1>1. /\ policies = <<>> /\ lines = <<>> /\ events = <<>> /\ results = <<>> /\ reports = <<>>
      /\ host \in {"live", "load"} /\ runtime \in {"rust", "python"}
      /\ expected_sequence = 1 /\ clock = 1 /\ failure.line = 0
  BY DEF SimInit, Live, NoFailure
<1>2. HostTypes
  BY <1>1, PoliciesAssumption
  DEF HostTypes, Hosts, Instants, TraceTypes, PolicyTypes, ReportTypes
<1>3. EngineInv
  <2>1. CASE Init
    BY <2>1, EngineInvInit
  <2>2. CASE NoResolution
    <3>1. /\ rules = <<>> /\ matching = <<>> /\ pc = "done" /\ decision = default
          /\ DOMAIN rules = {} /\ DOMAIN matching = {}
      BY <2>2 DEF NoResolution
    <3>2. TypeOK
      BY <2>2, <3>1, DefaultsAssumption DEF NoResolution, TypeOK
    <3>3. Applicable = {}
      BY <3>1 DEF Applicable
    <3>4. ResolvesAsSpecified
      BY <3>1, <3>3 DEF ResolvesAsSpecified
    <3>5. QuotaOfWinnerOnly
      BY <2>2, <3>3 DEF NoResolution, QuotaOfWinnerOnly
    <3>6. Listed(Applicable) /\ Ascending
      BY <3>1, <3>3 DEF Listed, Ascending
    <3> QED
      BY <3>1, <3>2, <3>4, <3>5, <3>6 DEF EngineInv, FilterInv, BestInv, LimitInv
  <2> QED
    BY <2>1, <2>2 DEF SimInit, Live
<1>4. TraceInv
  <2>1. EventLines(Len(lines)) = {}
    BY <1>1 DEF EventLines
  <2>2. Cardinality({}) = 0
    BY FS_EmptySet
  <2> QED
    BY <1>1, <2>1, <2>2 DEF TraceInv
<1>5. ReportInv /\ ResultInv /\ ResolvingInv
  BY <1>1 DEF ReportInv, ResultInv, ResolvingInv
<1> QED
  BY <1>2, <1>3, <1>4, <1>5 DEF SimInv

LEMMA LoadKeepsInv ==
  ASSUME SimInv, LoadPolicies \/ LoadFails
  PROVE  SimInv'
<1>1. CASE LoadPolicies
  <2>1. /\ host = "load" /\ host' = "trace"
        /\ UNCHANGED <<vars, runtime, traceVars, clock, reportVars, failure>>
        /\ reports = <<>> /\ results = <<>>
    BY <1>1 DEF LoadPolicies, SimInv, TraceInv
  <2>2. PolicyTypes' /\ Len(policies') \in Nat
    <3>1. PICK baseline \in Policies :
            policies' \in {<<baseline>>} \cup {<<baseline, candidate>> : candidate \in Policies}
      BY <1>1 DEF LoadPolicies
    <3>2. CASE policies' = <<baseline>>
      BY <3>2 DEF PolicyTypes
    <3>3. ASSUME NEW candidate \in Policies, policies' = <<baseline, candidate>>
          PROVE  PolicyTypes' /\ Len(policies') \in Nat
      BY <3>3 DEF PolicyTypes
    <3> QED
      BY <3>1, <3>2, <3>3
  <2>3. HostTypes'
    <3>1. TraceTypes' /\ failure'.line \in 0..Len(lines')
      BY <2>1 DEF SimInv, HostTypes, TraceTypes, traceVars
    <3>2. ReportTypes'
      BY <2>1, <2>2 DEF SimInv, HostTypes, ReportTypes, traceVars, reportVars
    <3> QED
      BY <2>1, <2>2, <3>1, <3>2 DEF SimInv, HostTypes, Hosts
  <2>4. TraceInv'
    BY <2>1, TraceStays DEF SimInv, traceVars, reportVars
  <2>5. ReportInv' /\ ResultInv' /\ ResolvingInv'
    BY <2>1 DEF ReportInv, ResultInv, ResolvingInv, reportVars
  <2> QED
    BY <2>1, <2>3, <2>4, <2>5, EngineStays DEF SimInv
<1>2. CASE LoadFails
  <2>1. /\ host = "load" /\ host' = "failed" /\ failure'.line = 0
        /\ UNCHANGED <<vars, runtime, policies, traceVars, clock, reportVars>>
        /\ reports = <<>> /\ results = <<>>
    BY <1>2 DEF LoadFails, Fail, SimInv, TraceInv
  <2>2. HostTypes'
    <3>1. TraceTypes' /\ PolicyTypes' /\ failure'.line \in 0..Len(lines')
      BY <2>1 DEF SimInv, HostTypes, TraceTypes, PolicyTypes, traceVars
    <3>2. ReportTypes'
      BY <2>1 DEF SimInv, HostTypes, ReportTypes, traceVars, reportVars
    <3> QED
      BY <2>1, <3>1, <3>2 DEF SimInv, HostTypes, Hosts
  <2>3. TraceInv'
    BY <2>1 DEF SimInv, TraceInv, traceVars, reportVars
  <2>4. ReportInv' /\ ResultInv' /\ ResolvingInv'
    BY <2>1 DEF ReportInv, ResultInv, ResolvingInv, reportVars
  <2> QED
    BY <2>1, <2>2, <2>3, <2>4, EngineStays DEF SimInv
<1> QED
  BY <1>1, <1>2

\* A line the trace goes on after.
LEMMA LineKeepsInv ==
  ASSUME SimInv, NEW line \in Lines, SkipBlank(line) \/ AcceptEvent(line)
  PROVE  SimInv'
<1>1. /\ host = "trace" /\ host' = "trace" /\ Len(lines) < MaxLines
      /\ lines' = Append(lines, line) /\ reports = <<>> /\ results = <<>>
      /\ UNCHANGED <<vars, runtime, policies, clock, reports, results, failure>>
  BY DEF SkipBlank, AcceptEvent, Reading, SimInv, TraceInv, reportVars
<1>2. /\ Len(lines') = Len(lines) + 1 /\ lines'[Len(lines')] = line
      /\ \A n \in 1..Len(lines) : lines'[n] = lines[n] /\ (Accepted(n)' <=> Accepted(n))
      /\ lines' \in Seq(Lines) /\ DOMAIN lines' = 1..(Len(lines) + 1)
      /\ Len(lines) \in Nat /\ DOMAIN lines = 1..Len(lines)
  BY <1>1, EarlierLines DEF SimInv, HostTypes, TraceTypes
<1>3. /\ expected_sequence = Len(events) + 1 /\ Len(events) \in Nat /\ events \in Seq(Lines)
      /\ Len(events) = Cardinality(EventLines(Len(lines)))
  BY <1>1 DEF SimInv, HostTypes, TraceTypes, TraceInv
<1>4. Cardinality(EventLines(Len(lines)))'
        = IF line.text = "blank" THEN Len(events) ELSE Len(events) + 1
  <2>1. EventLines(Len(lines))' = {k \in 1..Len(lines') : lines'[k].text # "blank"}
    BY DEF EventLines
  <2> QED
    BY <2>1, <1>1, <1>3, CountLines DEF SimInv
<1>5. /\ Len(events') = Cardinality(EventLines(Len(lines)))'
      /\ events' \in Seq(Lines) /\ expected_sequence' = Len(events') + 1 /\ Len(events') \in Nat
      /\ \A k \in DOMAIN events' : events'[k].sequence = k
  <2>1. CASE SkipBlank(line)
    BY <2>1, <1>3, <1>4 DEF SkipBlank, SimInv, TraceInv
  <2>2. CASE AcceptEvent(line)
    <3>1. /\ events' = Append(events, line) /\ line.text # "blank"
          /\ line.sequence = Len(events) + 1 /\ expected_sequence' = expected_sequence + 1
      BY <2>2, <1>3 DEF AcceptEvent, Reading
    <3>2. Len(events') = Len(events) + 1 /\ events' \in Seq(Lines)
      BY <3>1, <1>3
    <3>3. \A k \in DOMAIN events' : events'[k].sequence = k
      BY <3>1, <1>3 DEF SimInv, TraceInv
    <3> QED
      BY <3>1, <3>2, <3>3, <1>3, <1>4
  <2> QED
    BY <2>1, <2>2
<1>6. Accepted(Len(lines))'
  <2>1. CASE SkipBlank(line)
    BY <2>1, <1>2 DEF SkipBlank, Accepted
  <2>2. CASE AcceptEvent(line)
    <3>1. /\ ~BadJson(line) /\ \A part \in Parts \ {"null event_id"} : ~Invalid(line, part)
          /\ line.sequence = Len(events) + 1 /\ line.text # "blank"
      BY <2>2, <1>3, ValidPartsAll DEF AcceptEvent, Reading
    <3>2. line.sequence = Cardinality(EventLines(Len(lines)))'
      BY <3>1, <1>4
    <3>3. /\ ~BadJson(lines[Len(lines)])'
          /\ \A part \in Parts \ {"null event_id"} : ~Invalid(lines[Len(lines)], part)'
      BY <3>1, <1>1, <1>2 DEF BadJson, Invalid
    <3>4. Readable(Len(lines))'
      BY <3>2, <3>3, <1>2 DEF Readable, InSequence, EventLines
    <3> QED
      BY <3>4 DEF Accepted
  <2> QED
    BY <2>1, <2>2
<1>7. HostTypes'
  <2>1. Len(lines') <= MaxLines
    BY <1>1, <1>2, PoliciesAssumption
  <2>2. TraceTypes'
    BY <2>1, <1>2, <1>5 DEF TraceTypes
  <2>3. PolicyTypes' /\ ReportTypes'
    BY <1>1, <1>5 DEF SimInv, HostTypes, PolicyTypes, ReportTypes
  <2>4. failure'.line \in 0..Len(lines')
    BY <1>1, <1>2 DEF SimInv, HostTypes
  <2> QED
    BY <1>1, <2>2, <2>3, <2>4 DEF SimInv, HostTypes, Hosts
<1>8. TraceInv'
  <2>1. ASSUME NEW n \in DOMAIN lines' PROVE Accepted(n)'
    <3>1. n \in 1..Len(lines) \/ n = Len(lines')
      BY <1>2
    <3> QED
      BY <3>1, <1>1, <1>2, <1>6 DEF SimInv, TraceInv
  <2> QED
    BY <2>1, <1>1, <1>5 DEF TraceInv
<1>9. ReportInv' /\ ResultInv' /\ ResolvingInv'
  BY <1>1 DEF ReportInv, ResultInv, ResolvingInv
<1> QED
  BY <1>1, <1>7, <1>8, <1>9, EngineStays DEF SimInv

\* A line the trace is refused for.
LEMMA RefusalKeepsInv ==
  ASSUME SimInv, NEW line \in Lines, RefuseJson(line) \/ RefuseEvent(line) \/ RefuseOrder(line)
  PROVE  SimInv'
<1>1. /\ host = "trace" /\ Len(lines) < MaxLines /\ line.text # "blank"
      /\ host' = "failed" /\ failure'.line = Len(lines')
      /\ lines' = Append(lines, line) /\ reports = <<>> /\ results = <<>>
      /\ UNCHANGED <<vars, runtime, policies, expected_sequence, events, clock, reports, results>>
  BY DEF RefuseJson, RefuseEvent, RefuseOrder, Reading, Fail, SimInv, TraceInv, reportVars
<1>2. /\ Len(lines') = Len(lines) + 1 /\ lines'[Len(lines')] = line
      /\ \A n \in 1..Len(lines) : lines'[n] = lines[n] /\ (Accepted(n)' <=> Accepted(n))
      /\ lines' \in Seq(Lines) /\ DOMAIN lines' = 1..(Len(lines) + 1)
      /\ Len(lines) \in Nat /\ DOMAIN lines = 1..Len(lines)
  BY <1>1, EarlierLines DEF SimInv, HostTypes, TraceTypes
<1>3. expected_sequence = Cardinality(EventLines(Len(lines)))'
  <2>1. EventLines(Len(lines))' = {k \in 1..Len(lines') : lines'[k].text # "blank"}
    BY DEF EventLines
  <2>2. expected_sequence = Len(events) + 1 /\ Len(events) = Cardinality(EventLines(Len(lines)))
    BY <1>1 DEF SimInv, HostTypes, TraceTypes, TraceInv
  <2> QED
    BY <2>1, <2>2, <1>1, CountLines DEF SimInv
<1>4. ~Accepted(Len(lines))'
  <2>1. \/ BadJson(line) \/ (\E part \in Parts \ {"null event_id"} : Invalid(line, part))
        \/ line.sequence # expected_sequence
    <3>1. CASE RefuseEvent(line)
      <4>1. ~ValidEvent(line)
        BY <3>1 DEF RefuseEvent, ValidEvent
      <4> QED
        BY <4>1, ValidPartsAll
    <3> QED
      BY <3>1 DEF RefuseJson, RefuseOrder
  <2>2. /\ BadJson(lines[Len(lines)])' <=> BadJson(line)
        /\ \A part : Invalid(lines[Len(lines)], part)' <=> Invalid(line, part)
    BY <1>1, <1>2 DEF BadJson, Invalid
  <2>3. ~Readable(Len(lines))'
    BY <2>1, <2>2, <1>2, <1>3 DEF Readable, InSequence, EventLines
  <2> QED
    BY <2>3, <1>1, <1>2 DEF Accepted
<1>5. HostTypes'
  <2>1. Len(lines') <= MaxLines /\ failure'.line \in 0..Len(lines')
    BY <1>1, <1>2, PoliciesAssumption
  <2>2. TraceTypes'
    BY <2>1, <1>1, <1>2 DEF SimInv, HostTypes, TraceTypes
  <2>3. PolicyTypes' /\ ReportTypes'
    BY <1>1 DEF SimInv, HostTypes, PolicyTypes, ReportTypes
  <2> QED
    BY <1>1, <2>1, <2>2, <2>3 DEF SimInv, HostTypes, Hosts
<1>6. TraceInv'
  <2>1. \A n \in 1..(Len(lines') - 1) : Accepted(n)'
    BY <1>1, <1>2 DEF SimInv, TraceInv
  <2>2. failure'.line = Len(lines') /\ failure'.line # 0
    BY <1>1, <1>2
  <2> QED
    BY <2>1, <2>2, <1>1, <1>4 DEF SimInv, TraceInv
<1>7. ReportInv' /\ ResultInv' /\ ResolvingInv'
  BY <1>1 DEF ReportInv, ResultInv, ResolvingInv
<1> QED
  BY <1>1, <1>5, <1>6, <1>7, EngineStays DEF SimInv

-----------------------------------------------------------------------------
(* The simulation. *)

\* The trace is read, the clock ticks, or what was found is printed.
LEMMA QuietKeepsInv ==
  ASSUME SimInv, EndTrace \/ Tick \/ WriteReports
  PROVE  SimInv'
<1>1. /\ UNCHANGED <<vars, runtime, policies, lines, expected_sequence, events, reports, results>>
      /\ host \in {"trace", "events"} /\ host' \in {"events", "printed", "failed"}
  BY DEF EndTrace, Tick, WriteReports, Fail, traceVars, reportVars
<1>2. clock' \in Instants
  <2>1. clock \in Instants /\ MaxClock \in Nat
    BY PoliciesAssumption DEF SimInv, HostTypes
  <2>2. CASE Tick
    BY <2>1, <2>2 DEF Tick, Instants
  <2>3. CASE EndTrace \/ WriteReports
    BY <2>1, <2>3 DEF EndTrace, WriteReports
  <2> QED
    BY <2>2, <2>3
<1>3. TraceInv' /\ failure'.line \in 0..Len(lines')
  <2>1. CASE host' = "failed"
    <3>1. failure'.line = 0 /\ failure'.code = "io_error"
      BY <1>1, <2>1 DEF EndTrace, Tick, WriteReports, Fail
    <3>2. TraceInv'
      BY <1>1, <2>1, <3>1 DEF TraceInv, SimInv
    <3>3. failure'.line \in 0..Len(lines')
      BY <1>1, <3>1 DEF SimInv, HostTypes, TraceTypes
    <3> QED
      BY <3>2, <3>3
  <2>2. CASE host' # "failed"
    <3>1. UNCHANGED failure
      BY <2>2 DEF EndTrace, Tick, WriteReports, Fail
    <3>2. TraceInv'
      BY <1>1, <2>2, <3>1, TraceStays DEF SimInv
    <3>3. failure'.line \in 0..Len(lines')
      BY <1>1, <3>1 DEF SimInv, HostTypes
    <3> QED
      BY <3>2, <3>3
  <2> QED
    BY <2>1, <2>2
<1>4. HostTypes'
  <2>1. TraceTypes' /\ PolicyTypes'
    BY <1>1 DEF SimInv, HostTypes, TraceTypes, PolicyTypes
  <2>2. ReportTypes'
    BY <1>1 DEF SimInv, HostTypes, ReportTypes
  <2> QED
    BY <1>1, <1>2, <1>3, <2>1, <2>2 DEF SimInv, HostTypes, Hosts
<1>5. ReportInv' /\ ResultInv'
  BY <1>1, ReportsStay, ResultsStay DEF SimInv
<1>6. ResolvingInv'
  BY <1>1 DEF ResolvingInv
<1> QED
  BY <1>1, <1>3, <1>4, <1>5, <1>6, EngineStays DEF SimInv

\* The next event is a line of the trace, and the next policy is one of them.
LEMMA NextInputs ==
  ASSUME HostTypes, Len(reports) < Len(events), Len(results) < Len(policies)
  PROVE  /\ policies[Len(results) + 1] \in Policies
         /\ Len(results) + 1 \in DOMAIN policies
         /\ Event \in Lines /\ Event \in Line /\ Len(reports) + 1 \in DOMAIN events
<1>1. /\ Len(results) \in Nat /\ Len(reports) \in Nat
      /\ policies \in Seq(Policies) /\ events \in Seq(Lines)
  BY DEF HostTypes, PolicyTypes, TraceTypes, ReportTypes
<1>2. Len(results) + 1 \in DOMAIN policies /\ Len(reports) + 1 \in DOMAIN events
  BY <1>1
<1>3. policies[Len(results) + 1] \in Policies /\ events[Len(reports) + 1] \in Lines
  BY <1>1, <1>2
<1> QED
  BY <1>2, <1>3, LinesAssumption DEF Event

\* A resolution begins as the engine's specification says it does.
LEMMA BeginKeepsInv ==
  ASSUME SimInv, BeginResolution
  PROVE  SimInv'
<1> DEFINE policy == policies[Len(results) + 1]
<1>1. /\ host = "events" /\ host' = "resolving"
      /\ Len(reports) < Len(events) /\ Len(results) < Len(policies)
      /\ rules' = RulesAt(policy, clock) /\ default' = policy.default /\ call' = Event.call
      /\ pc' = "filter" /\ i' = 1 /\ matching' = <<>>
      /\ best' = 0 /\ selected' = 0 /\ decision' = "none" /\ consumed' = 0
      /\ UNCHANGED <<api, runtime, policies, lines, expected_sequence, events, clock, reports, results, failure>>
  BY DEF BeginResolution, traceVars, reportVars
<1>2. policy \in Policies /\ policy \in Policy /\ Event \in Line /\ clock \in Instants
  BY <1>1, NextInputs, PoliciesAssumption DEF SimInv, HostTypes
<1>3. rules' \in Seq(Rules) /\ default' \in Defaults /\ call' \in Calls
  <2>1. rules' \in Seq(Rules)
    BY <1>1, <1>2, PoliciesAssumption
  <2>2. default' \in Defaults
    BY <1>1, <1>2 DEF Policy
  <2>3. call' \in Calls
    BY <1>1, <1>2 DEF Line
  <2> QED
    BY <2>1, <2>2, <2>3
<1>4. EngineInv'
  <2>1. TypeOK'
    BY <1>1, <1>3 DEF SimInv, EngineInv, TypeOK
  <2>2. Len(rules') \in Nat
    BY <1>3
  <2>3. Ascending' /\ FilterInv'
    BY <1>1, <2>2 DEF Ascending, FilterInv, Listed
  <2>4. BestInv' /\ LimitInv' /\ ResolvesAsSpecified' /\ QuotaOfWinnerOnly'
    BY <1>1 DEF BestInv, LimitInv, ResolvesAsSpecified, QuotaOfWinnerOnly
  <2> QED
    BY <1>1, <2>1, <2>3, <2>4 DEF EngineInv
<1>5. HostTypes'
  <2>1. TraceTypes' /\ PolicyTypes'
    BY <1>1 DEF SimInv, HostTypes, TraceTypes, PolicyTypes
  <2>2. ReportTypes' /\ failure'.line \in 0..Len(lines')
    BY <1>1 DEF SimInv, HostTypes, ReportTypes
  <2> QED
    BY <1>1, <1>2, <2>1, <2>2 DEF SimInv, HostTypes, Hosts
<1>6. TraceInv'
  BY <1>1, TraceStays DEF SimInv
<1>7. ReportInv' /\ ResultInv'
  BY <1>1, ReportsStay, ResultsStay DEF SimInv
<1>8. ResolvingInv'
  BY <1>1 DEF ResolvingInv, Event
<1> QED
  BY <1>4, <1>5, <1>6, <1>7, <1>8 DEF SimInv

\* A step of the engine, in either host.
LEMMA ResolveKeepsInv ==
  ASSUME SimInv, Resolve
  PROVE  SimInv'
<1>1. /\ host \in {"live", "resolving"} /\ Next
      /\ UNCHANGED <<host, runtime, policies, lines, expected_sequence, events, clock, reports, results, failure>>
  BY DEF Resolve, simulation, traceVars, reportVars
<1>2. rules' = rules /\ call' = call /\ default' = default
  BY <1>1 DEF Next, Match, Mismatch, ReturnDefault, ReturnDeny, Return, BeginBest, TakeBetter,
              KeepBest, ReturnBest, Unlimited, ThrottlePure, AskQuota, inputs
<1>3. EngineInv'
  BY <1>1, EngineInvNext DEF SimInv
<1>4. HostTypes'
  <2>1. TraceTypes' /\ PolicyTypes'
    BY <1>1 DEF SimInv, HostTypes, TraceTypes, PolicyTypes
  <2>2. ReportTypes' /\ failure'.line \in 0..Len(lines')
    BY <1>1 DEF SimInv, HostTypes, ReportTypes
  <2> QED
    BY <1>1, <2>1, <2>2 DEF SimInv, HostTypes, Hosts
<1>5. TraceInv'
  <2>1. host # "failed" /\ host' # "failed"
    BY <1>1
  <2>2. host' \in {"live", "load", "trace"} => reports' = <<>> /\ results' = <<>>
    BY <1>1 DEF SimInv, TraceInv
  <2> QED
    BY <1>1, <2>1, <2>2, TraceStays DEF SimInv
<1>6. ReportInv' /\ ResultInv'
  BY <1>1, ReportsStay, ResultsStay DEF SimInv
<1>7. ResolvingInv'
  <2>1. Event' = Event
    BY <1>1 DEF Event
  <2> QED
    BY <1>1, <1>2, <2>1 DEF SimInv, ResolvingInv
<1> QED
  BY <1>3, <1>4, <1>5, <1>6, <1>7 DEF SimInv

\* What the engine decides is what the policy says.
LEMMA DecidedAsPolicySays ==
  ASSUME EngineInv, pc = "done", NEW policy, NEW t, NEW sha, NEW expected,
         rules = RulesAt(policy, t), default = policy.default
  PROVE  Says(policy, call, t,
              [sha256 |-> sha, decision |-> decision, matched_rules |-> matching, at |-> t,
               matches_expected |-> expected])
<1> DEFINE applying == Applying(policy, call, t)
<1>1. /\ DOMAIN rules = DOMAIN policy.rules
      /\ \A n \in DOMAIN policy.rules :
           /\ rules[n].target = policy.rules[n].target
           /\ rules[n].holds <=> t \in policy.rules[n].during
           /\ rules[n].action = policy.rules[n].action /\ ~rules[n].limited
  BY DEF RulesAt
<1>2. Applicable = applying
  <2>1. ASSUME NEW n \in DOMAIN policy.rules
        PROVE  Applies(rules[n]) <=>
                 /\ t \in policy.rules[n].during
                 /\ \A f \in DOMAIN policy.rules[n].target :
                      f \in Fields /\ call[f] = policy.rules[n].target[f]
    BY <1>1 DEF Applies
  <2> QED
    BY <2>1, <1>1 DEF Applicable, Applying
<1>3. Lists(matching, applying)
  BY <1>2 DEF EngineInv, Listed, Ascending, Lists
<1>4. \A n \in applying : n \in DOMAIN policy.rules
  BY DEF Applying
<1>5. IF applying = {} THEN decision = policy.default
      ELSE \E n \in applying : decision = policy.rules[n].action
  <2>1. CASE applying = {}
    BY <2>1, <1>2 DEF EngineInv, ResolvesAsSpecified
  <2>2. CASE \E n \in applying : rules[n].action = "deny"
    <3>1. decision = "deny"
      BY <2>2, <1>2 DEF EngineInv, ResolvesAsSpecified
    <3> QED
      BY <3>1, <2>2, <1>1, <1>4
  <2>3. CASE applying # {} /\ ~\E n \in applying : rules[n].action = "deny"
    <3>1. PICK n \in Applicable : Winner(n) /\ decision \in Answers(n)
      BY <2>3, <1>2 DEF EngineInv, ResolvesAsSpecified
    <3>2. n \in applying /\ ~rules[n].limited
      BY <3>1, <1>1, <1>2, <1>4
    <3>3. decision = rules[n].action
      BY <3>1, <3>2 DEF Answers
    <3> QED
      BY <3>2, <3>3, <1>1, <1>4
  <2> QED
    BY <2>1, <2>2, <2>3
<1> QED
  BY <1>3, <1>5 DEF Says

\* The result of a policy for the next event is right.
LEMMA EndKeepsInv ==
  ASSUME SimInv, EndResolution
  PROVE  SimInv'
<1> DEFINE policy == policies[Len(results) + 1]
           r == [sha256 |-> policy.sha256, decision |-> decision,
                 matched_rules |-> matching, at |-> clock,
                 matches_expected |-> MatchesExpected(policy)]
<1>1. /\ host = "resolving" /\ host' = "events" /\ pc = "done"
      /\ results' = Append(results, r)
      /\ UNCHANGED <<vars, runtime, policies, lines, expected_sequence, events, clock, reports, failure>>
  BY DEF EndResolution, traceVars
<1>2. /\ Len(results) < Len(policies) /\ Len(reports) < Len(events)
      /\ rules = RulesAt(policy, clock) /\ default = policy.default /\ call = Event.call
  BY <1>1 DEF SimInv, ResolvingInv
<1>3. policy.sha256 # NotExpected.sha256
  <2>1. policy.sha256 \in Digests
    BY <1>2, NextInputs DEF SimInv, Digests
  <2> QED
    BY <2>1, PoliciesAssumption
<1>4. Right(r, policy, Event)
  <2>1. Says(policy, Event.call, clock, r)
    BY <1>1, <1>2, DecidedAsPolicySays DEF SimInv
  <2>2. r.matches_expected =
          IF Event.expected = NotExpected \/ Event.expected.sha256 # r.sha256 THEN {}
          ELSE {r.decision = Event.expected.decision
                /\ r.matched_rules = Event.expected.matched_rules}
    <3> DEFINE e == Event.expected
    <3>1. CASE e.sha256 # policy.sha256
      BY <3>1 DEF MatchesExpected
    <3>2. CASE e.sha256 = policy.sha256
      <4>1. e # NotExpected
        BY <3>2, <1>3
      <4>2. r.matches_expected = {e.decision = decision /\ e.matched_rules = matching}
        BY <3>2 DEF MatchesExpected
      <4>3. (e.decision = decision /\ e.matched_rules = matching)
              = (decision = e.decision /\ matching = e.matched_rules)
        OBVIOUS
      <4> QED
        BY <3>2, <4>1, <4>2, <4>3
    <3> QED
      BY <3>1, <3>2
  <2>3. r.sha256 = policy.sha256 /\ r.at = clock
    OBVIOUS
  <2> HIDE DEF r
  <2> QED
    BY <2>1, <2>2, <2>3 DEF Right
<1> HIDE DEF r
<1>5. PICK S : results \in Seq(S)
  BY DEF SimInv, HostTypes, ReportTypes
<1>6. /\ Len(results') = Len(results) + 1 /\ DOMAIN results' = 1..(Len(results) + 1)
      /\ DOMAIN results = 1..Len(results) /\ results' \in Seq(S \cup {r})
      /\ \A p \in 1..Len(results) : results'[p] = results[p]
      /\ results'[Len(results) + 1] = r
      /\ Len(results) \in Nat
  BY <1>1, <1>5
<1>7. HostTypes'
  <2>1. TraceTypes' /\ PolicyTypes' /\ failure'.line \in 0..Len(lines')
    BY <1>1 DEF SimInv, HostTypes, TraceTypes, PolicyTypes
  <2>2. Len(policies) \in Nat
    BY DEF SimInv, HostTypes, PolicyTypes
  <2>3. ReportTypes'
    BY <1>1, <1>2, <1>6, <2>2 DEF SimInv, HostTypes, ReportTypes
  <2> QED
    BY <1>1, <2>1, <2>3 DEF SimInv, HostTypes, Hosts
<1>8. TraceInv'
  BY <1>1, TraceStays DEF SimInv
<1>9. ResultInv'
  <2>1. Event' = Event
    BY <1>1 DEF Event
  <2>2. \A p \in 1..Len(results) : Right(results[p], policies[p], Event)
    BY <1>6 DEF SimInv, ResultInv, HostTypes, ReportTypes
  <2>3. ASSUME NEW p \in 1..(Len(results) + 1)
        PROVE  Right(results'[p], policies[p], Event)
    <3>1. CASE p \in 1..Len(results)
      BY <3>1, <2>2, <1>6
    <3>2. CASE p = Len(results) + 1
      BY <3>2, <1>4, <1>6
    <3> QED
      BY <3>1, <3>2, <1>6
  <2> QED
    BY <1>1, <1>2, <1>6, <2>1, <2>3 DEF ResultInv
<1>10. ReportInv' /\ ResolvingInv'
  BY <1>1, ReportsStay DEF SimInv, ResolvingInv
<1> QED
  BY <1>1, <1>7, <1>8, <1>9, <1>10, EngineStays DEF SimInv

\* The report of an event has the results of every policy.
LEMMA ReportKeepsInv ==
  ASSUME SimInv, Report
  PROVE  SimInv'
<1> DEFINE r == [sequence |-> Event.sequence, expected |-> Event.expected,
                 results |-> results, comparison |-> Comparison]
<1>1. /\ host = "events" /\ host' = "events"
      /\ Len(reports) < Len(events) /\ Len(results) = Len(policies)
      /\ reports' = Append(reports, r) /\ results' = <<>>
      /\ UNCHANGED <<vars, runtime, policies, lines, expected_sequence, events, clock, failure>>
  BY DEF Report, traceVars
<1>2. /\ r.sequence = Event.sequence /\ r.results = results
  OBVIOUS
<1> HIDE DEF r
<1>3. PICK S : reports \in Seq(S)
  BY DEF SimInv, HostTypes, ReportTypes
<1>4. /\ Len(reports') = Len(reports) + 1 /\ DOMAIN reports' = 1..(Len(reports) + 1)
      /\ reports' \in Seq(S \cup {r})
      /\ \A k \in 1..Len(reports) : reports'[k] = reports[k]
      /\ reports'[Len(reports) + 1] = r
      /\ Len(reports) \in Nat /\ Len(events) \in Nat
      /\ DOMAIN reports = 1..Len(reports) /\ DOMAIN events = 1..Len(events)
  <2>1. Len(events) \in Nat /\ DOMAIN events = 1..Len(events)
    BY DEF SimInv, HostTypes, TraceTypes
  <2> QED
    BY <1>1, <1>3, <2>1 DEF SimInv, HostTypes, ReportTypes
<1>5. r.sequence = Len(reports) + 1
  <2>1. Len(reports) + 1 \in DOMAIN events
    BY <1>1, <1>4
  <2> QED
    BY <2>1, <1>2 DEF SimInv, TraceInv, Event
<1>6. \A p \in DOMAIN policies : Right(r.results[p], policies[p], Event)
  <2>1. DOMAIN policies = 1..Len(policies) /\ DOMAIN results = 1..Len(results)
    BY DEF SimInv, HostTypes, PolicyTypes, ReportTypes
  <2> SUFFICES ASSUME NEW p \in DOMAIN policies PROVE Right(results[p], policies[p], Event)
    BY <1>2
  <2>2. p \in DOMAIN results
    BY <2>1, <1>1
  <2>3. results # <<>>
    BY <2>2
  <2> QED
    BY <2>2, <2>3 DEF SimInv, ResultInv
<1>7. HostTypes'
  <2>1. TraceTypes' /\ PolicyTypes' /\ failure'.line \in 0..Len(lines')
    BY <1>1 DEF SimInv, HostTypes, TraceTypes, PolicyTypes
  <2>2. Len(policies) \in Nat
    BY DEF SimInv, HostTypes, PolicyTypes
  <2>3. ReportTypes'
    BY <1>1, <1>4, <2>2 DEF ReportTypes
  <2> QED
    BY <1>1, <2>1, <2>3 DEF SimInv, HostTypes, Hosts
<1>8. TraceInv'
  BY <1>1, TraceStays DEF SimInv
<1>9. ReportInv'
  <2>1. \A k \in 1..(Len(reports) + 1) :
          reports'[k].sequence = k /\ Len(reports'[k].results) = Len(policies)
    BY <1>1, <1>2, <1>4, <1>5 DEF SimInv, ReportInv
  <2>2. ASSUME NEW k \in 1..(Len(reports) + 1), NEW p \in DOMAIN policies
        PROVE  Right(reports'[k].results[p], policies[p], events[k])
    <3>1. CASE k \in 1..Len(reports)
      BY <3>1, <1>4 DEF SimInv, ReportInv
    <3>2. CASE k = Len(reports) + 1
      BY <3>2, <1>4, <1>6 DEF Event
    <3> QED
      BY <3>1, <3>2, <1>4
  <2> QED
    BY <1>1, <1>4, <2>1, <2>2 DEF ReportInv
<1>10. ResultInv' /\ ResolvingInv'
  BY <1>1 DEF ResultInv, ResolvingInv
<1> QED
  BY <1>1, <1>7, <1>8, <1>9, <1>10, EngineStays DEF SimInv

LEMMA SimInvNext == SimInv /\ [SimNext]_simVars => SimInv'
<1> SUFFICES ASSUME SimInv, [SimNext]_simVars PROVE SimInv'
  OBVIOUS
<1>1. CASE LoadPolicies \/ LoadFails
  BY <1>1, LoadKeepsInv
<1>2. ASSUME NEW line \in Lines, SkipBlank(line) \/ AcceptEvent(line) PROVE SimInv'
  BY <1>2, LineKeepsInv
<1>3. ASSUME NEW line \in Lines, RefuseJson(line) \/ RefuseEvent(line) \/ RefuseOrder(line)
      PROVE  SimInv'
  BY <1>3, RefusalKeepsInv
<1>4. CASE EndTrace \/ Tick \/ WriteReports
  BY <1>4, QuietKeepsInv
<1>5. CASE BeginResolution
  BY <1>5, BeginKeepsInv
<1>6. CASE Resolve
  BY <1>6, ResolveKeepsInv
<1>7. CASE EndResolution
  BY <1>7, EndKeepsInv
<1>8. CASE Report
  BY <1>8, ReportKeepsInv
<1>9. CASE UNCHANGED simVars
  <2>1. UNCHANGED <<vars, host, runtime, policies, lines, expected_sequence, events, clock,
                    results, reports, failure>>
    BY <1>9 DEF simVars, simulation, traceVars, reportVars
  <2>2. HostTypes'
    <3>1. TraceTypes' /\ PolicyTypes' /\ failure'.line \in 0..Len(lines')
      BY <2>1 DEF SimInv, HostTypes, TraceTypes, PolicyTypes
    <3>2. ReportTypes'
      BY <2>1 DEF SimInv, HostTypes, ReportTypes
    <3> QED
      BY <2>1, <3>1, <3>2 DEF SimInv, HostTypes, Hosts
  <2>3. TraceInv'
    <3>1. \A n : Accepted(n)' <=> Accepted(n)
      BY <2>1 DEF Accepted, Readable, InSequence, BadJson, Invalid
    <3>2. EventLines(Len(lines))' = EventLines(Len(lines))
      BY <2>1 DEF EventLines
    <3> QED
      BY <2>1, <3>1, <3>2 DEF SimInv, TraceInv
  <2>4. ResolvingInv'
    <3>1. Event' = Event /\ UNCHANGED <<rules, default, call>>
      BY <2>1 DEF Event, vars
    <3> QED
      BY <2>1, <3>1 DEF SimInv, ResolvingInv
  <2> QED
    BY <2>1, <2>2, <2>3, <2>4, EngineStays, ReportsStay, ResultsStay DEF SimInv
<1> QED
  BY <1>1, <1>2, <1>3, <1>4, <1>5, <1>6, <1>7, <1>8, <1>9 DEF SimNext

-----------------------------------------------------------------------------
(* Theorems. *)

LEMMA SimInvHolds == SimSpec => []SimInv
  BY SimInvInit, SimInvNext, PTL DEF SimSpec

\* The variables keep their types: a report for at most every event, a result
\* for at most every policy, an error that names a line of the trace.
THEOREM SimTypeCorrect == SimSpec => []SimTypeOK
<1>1. SimInv => SimTypeOK
  BY DEF SimInv, EngineInv, HostTypes, TraceTypes, PolicyTypes, ReportTypes, Hosts, SimTypeOK
<1> QED
  BY <1>1, SimInvHolds, PTL

\* In a live call and in a simulation alike the engine decides what the language
\* defines: the default, deny, or the action of the one winner.
THEOREM ResolvesInBothHosts == SimSpec => []ResolvesAsSpecified
<1>1. SimInv => ResolvesAsSpecified
  BY DEF SimInv, EngineInv
<1> QED
  BY <1>1, SimInvHolds, PTL

\* In both hosts a quota is taken from exactly when the winner is an allow rule
\* with a limit and the call is allowed.
THEOREM QuotaInBothHosts == SimSpec => []QuotaOfWinnerOnly
<1>1. SimInv => QuotaOfWinnerOnly
  BY DEF SimInv, EngineInv
<1> QED
  BY <1>1, SimInvHolds, PTL

\* What a runtime accepts is what the format has, but for the two departures of
\* the Python runtime.
LEMMA AcceptedIsTaken ==
  ASSUME HostTypes, NEW n \in DOMAIN lines
  PROVE  Accepted(n) <=> Taken(n)
<1> DEFINE line == lines[n]
<1>1. line \in Line /\ runtime \in {"rust", "python"}
  BY LinesAssumption DEF HostTypes, TraceTypes
<1>2. line.wrong \subseteq Parts /\ line.text \in {"blank", "json", "separated", "not json"}
  BY <1>1 DEF Line
<1>3. (\A part \in Parts \ {"null event_id"} : ~Invalid(line, part))
        <=> line.wrong = {} \/ (runtime = "python" /\ line.wrong = {"null event_id"})
  <2>1. ASSUME line.wrong = {} PROVE \A part \in Parts \ {"null event_id"} : ~Invalid(line, part)
    BY <2>1 DEF Invalid
  <2>2. ASSUME runtime = "python", line.wrong = {"null event_id"}
        PROVE  \A part \in Parts \ {"null event_id"} : ~Invalid(line, part)
    BY <2>2 DEF Invalid
  <2>3. ASSUME \A part \in Parts \ {"null event_id"} : ~Invalid(line, part)
        PROVE  line.wrong = {} \/ (runtime = "python" /\ line.wrong = {"null event_id"})
    <3>1. \A part \in Parts \ {"null event_id"} : part \notin line.wrong
      BY <2>3 DEF Invalid
    <3>2. line.wrong \subseteq {"null event_id"}
      BY <1>2, <3>1
    <3>3. runtime = "rust" => "null event_id" \notin line.wrong
      <4>1. "event_id" \in Parts \ {"null event_id"}
        BY DEF Parts
      <4> QED BY <2>3, <4>1 DEF Invalid
    <3> QED BY <1>1, <3>2, <3>3
  <2> QED BY <2>1, <2>2, <2>3
<1> QED
  BY <1>1, <1>2, <1>3 DEF Accepted, Readable, BadJson, Taken, Good, WellFormed, Tolerated, Split

\* Whatever the trace, it is simulated only if every line of it is as the format
\* document has it, and the error names the first line that is not; the two
\* departures of the Python runtime, and they alone, are excepted.
THEOREM TraceIsChecked == SimSpec => []TraceAcceptedExactly
<1>1. SimInv => TraceAcceptedExactly
  <2> SUFFICES ASSUME SimInv PROVE TraceAcceptedExactly
    OBVIOUS
  <2>1. /\ host \in Hosts /\ Len(lines) \in Nat /\ DOMAIN lines = 1..Len(lines)
        /\ failure.line \in 0..Len(lines)
    BY DEF SimInv, HostTypes, TraceTypes
  <2>2. reports # <<>> => host \in Simulating \/ failure.code = "io_error"
    BY <2>1 DEF SimInv, TraceInv, Hosts, Simulating
  <2>3. \A n \in DOMAIN lines : Accepted(n) <=> Taken(n)
    BY AcceptedIsTaken DEF SimInv
  <2> DEFINE S == {n \in DOMAIN lines : Taken(n)}
  <2>4. ASSUME host = "failed", failure.line # 0
        PROVE  /\ failure.line = Len(lines) /\ Len(lines) \notin S /\ reports = <<>>
               /\ 1..(Len(lines) - 1) \subseteq S
    BY <2>1, <2>3, <2>4 DEF SimInv, TraceInv
  <2>5. ASSUME host \in Simulating PROVE DOMAIN lines \subseteq S
    BY <2>1, <2>3, <2>5 DEF SimInv, TraceInv, Simulating
  <2> HIDE DEF S
  <2>6. CheckedAgainst(S)
    BY <2>2, <2>4, <2>5 DEF CheckedAgainst, Simulating
  <2> QED
    BY <2>6 DEF S, TraceAcceptedExactly
<1> QED
  BY <1>1, SimInvHolds, PTL

\* For any policies and trace a report has the sequence of its event and, of each
\* policy, the rules that apply to that call, the action of one of them or the
\* default, and a comparison with the expectation of that policy only.
THEOREM ReportsAreRight == SimSpec => []ReportsAsSpecified
<1>1. SimInv => ReportsAsSpecified
  <2> SUFFICES ASSUME SimInv, NEW k \in DOMAIN reports
               PROVE  /\ reports[k].sequence = k /\ events[k].sequence = k
                      /\ Len(reports[k].results) = Len(policies)
                      /\ \A p \in DOMAIN policies :
                           Right(reports[k].results[p], policies[p], events[k])
    BY DEF ReportsAsSpecified
  <2>1. k \in DOMAIN events
    BY DEF SimInv, HostTypes, TraceTypes, ReportTypes
  <2> QED
    BY <2>1 DEF SimInv, ReportInv, TraceInv
<1> QED
  BY <1>1, SimInvHolds, PTL

-----------------------------------------------------------------------------
(* A policy, a call and what holds at an instant determine a result: the   *)
(* members of a set are listed in one ascending order only, and at most    *)
(* one rule outranks every other one that applies.                         *)

LEMMA LeastNat ==
  ASSUME NEW T, T \subseteq Nat, T # {}
  PROVE  \E x \in T : \A y \in T : x <= y
<1> DEFINE less == {ss \in Nat \X Nat : ss[1] < ss[2]}
<1>1. less = OpToRel(<, Nat)
  BY Zenon DEF OpToRel
<1>2. IsWellFoundedOn(less, Nat)
  BY <1>1, NatLessThanWellFounded, Zenon
<1>3. \A x, y \in Nat : <<y, x>> \notin less => x <= y
  OBVIOUS
<1> HIDE DEF less
<1>4. PICK x \in T : \A y \in T : ~ (<<y, x>> \in less)
  BY <1>2, WFMin
<1>5. \A y \in T : x <= y
  BY <1>3, <1>4
<1> QED
  BY <1>5

\* Two ascending lists of a set that agree up to a position agree there too.
LEMMA NextListed ==
  ASSUME NEW p \in Seq(Nat), NEW q \in Seq(Nat), NEW S, Lists(p, S), Lists(q, S),
         NEW x \in DOMAIN p, \A y \in 1..(x - 1) : y \in DOMAIN q /\ q[y] = p[y]
  PROVE  x \in DOMAIN q /\ q[x] = p[x]
<1>1. /\ x \in Nat \ {0} /\ DOMAIN p = 1..Len(p) /\ DOMAIN q = 1..Len(q)
      /\ Len(p) \in Nat /\ Len(q) \in Nat
      /\ \A n \in DOMAIN p : p[n] \in Nat
      /\ \A n \in DOMAIN q : q[n] \in Nat
  OBVIOUS
<1>2. /\ \A n, m \in DOMAIN p : n < m => p[n] < p[m]
      /\ \A n, m \in DOMAIN q : n < m => q[n] < q[m]
      /\ \A n \in DOMAIN p : \E m \in DOMAIN q : q[m] = p[n]
      /\ \A n \in DOMAIN q : \E m \in DOMAIN p : p[m] = q[n]
  BY DEF Lists
<1>3. PICK j \in DOMAIN q : q[j] = p[x]
  BY <1>2
<1>4. j >= x
  <2> SUFFICES ASSUME j < x PROVE FALSE
    BY <1>1
  <2>1. j \in 1..(x - 1) /\ j \in DOMAIN p
    BY <1>1
  <2>2. q[j] = p[j] /\ p[j] < p[x]
    BY <2>1, <1>2
  <2> QED
    BY <2>1, <2>2, <1>1, <1>3
<1>5. x \in DOMAIN q
  BY <1>1, <1>4
<1>6. j = x
  <2> SUFFICES ASSUME j # x PROVE FALSE
    OBVIOUS
  <2>1. q[x] < p[x]
    BY <1>1, <1>2, <1>3, <1>4, <1>5
  <2>2. PICK l \in DOMAIN p : p[l] = q[x]
    BY <1>2, <1>5
  <2>3. l < x
    <3> SUFFICES ASSUME x <= l PROVE FALSE
      BY <1>1
    <3>1. CASE l = x
      BY <3>1, <2>1, <2>2, <1>1, <1>5
    <3>2. CASE x < l
      <4>1. p[x] < p[l]
        BY <3>2, <1>2
      <4> QED
        BY <4>1, <2>1, <2>2, <1>1, <1>5
    <3> QED
      BY <3>1, <3>2, <1>1
  <2>4. l \in DOMAIN q /\ q[l] = p[l]
    BY <2>3, <1>1
  <2>5. q[l] < q[x]
    BY <2>3, <2>4, <1>2, <1>5
  <2> QED
    BY <2>2, <2>4, <2>5, <1>1, <1>5
<1> QED
  BY <1>3, <1>5, <1>6

LEMMA SameList ==
  ASSUME NEW p \in Seq(Nat), NEW q \in Seq(Nat), NEW S, Lists(p, S), Lists(q, S)
  PROVE  p = q
<1> DEFINE same(n) == n \in DOMAIN p /\ n \in DOMAIN q /\ p[n] = q[n]
           T == {n \in DOMAIN p \cup DOMAIN q : ~same(n)}
<1>1. /\ DOMAIN p = 1..Len(p) /\ DOMAIN q = 1..Len(q) /\ Len(p) \in Nat /\ Len(q) \in Nat
  OBVIOUS
<1>2. T = {}
  <2> SUFFICES ASSUME T # {} PROVE FALSE
    OBVIOUS
  <2>1. T \subseteq Nat
    BY <1>1
  <2>2. PICK x \in T : \A y \in T : x <= y
    BY <2>1, LeastNat
  <2>3. \A y \in 1..(x - 1) : same(y)
    <3> SUFFICES ASSUME NEW y \in 1..(x - 1) PROVE same(y)
      OBVIOUS
    <3>1. y \in DOMAIN p \cup DOMAIN q /\ ~(x <= y)
      BY <1>1
    <3>2. y \notin T
      BY <3>1, <2>2
    <3> QED
      BY <3>1, <3>2
  <2>4. CASE x \in DOMAIN p
    <3>1. \A y \in 1..(x - 1) : y \in DOMAIN q /\ q[y] = p[y]
      BY <2>3
    <3>2. x \in DOMAIN q /\ q[x] = p[x]
      BY <3>1, <2>4, NextListed
    <3> QED
      BY <3>2, <2>2, <2>4
  <2>5. CASE x \in DOMAIN q
    <3>1. \A y \in 1..(x - 1) : y \in DOMAIN p /\ p[y] = q[y]
      BY <2>3
    <3>2. x \in DOMAIN p /\ p[x] = q[x]
      BY <3>1, <2>5, NextListed
    <3> QED
      BY <3>2, <2>2, <2>5
  <2> QED
    BY <2>2, <2>4, <2>5
<1>3. \A n \in DOMAIN p \cup DOMAIN q : same(n)
  BY <1>2
<1>4. DOMAIN p = DOMAIN q
  BY <1>3
<1>5. Len(p) = Len(q)
  <2>1. \A n \in Nat \ {0} : n <= Len(p) <=> n <= Len(q)
    <3>1. \A n \in Nat \ {0} : n \in DOMAIN p <=> n \in DOMAIN q
      BY <1>4
    <3> QED
      BY <3>1, <1>1
  <2>2. Len(p) <= Len(q)
    <3>1. CASE Len(p) = 0
      BY <3>1, <1>1
    <3>2. CASE Len(p) # 0
      BY <3>2, <2>1, <1>1
    <3> QED
      BY <3>1, <3>2
  <2>3. Len(q) <= Len(p)
    <3>1. CASE Len(q) = 0
      BY <3>1, <1>1
    <3>2. CASE Len(q) # 0
      BY <3>2, <2>1, <1>1
    <3> QED
      BY <3>1, <3>2
  <2>4. Len(p) \in Nat /\ Len(q) \in Nat
    BY <1>1
  <2>5. \A a, b \in Nat : a <= b /\ b <= a => a = b
    OBVIOUS
  <2> QED
    BY <2>2, <2>3, <2>4, <2>5
<1>6. \A n \in 1..Len(p) : p[n] = q[n]
  BY <1>1, <1>3
<1> HIDE DEF T
<1> QED
  BY <1>5, <1>6

\* Outranks and Winner, said of a policy rather than of the rules being resolved.
RuleOutranks(policy, n, m) ==
  LET size(x) == Cardinality(DOMAIN policy.rules[x].target)
      rank(x) == Rank(policy.rules[x].action)
  IN  \/ size(n) > size(m)
      \/ size(n) = size(m) /\ rank(n) > rank(m)
      \/ size(n) = size(m) /\ rank(n) = rank(m) /\ n < m

\* What a policy decides when the rules that apply are those of S.
Decides(policy, S, d) ==
  /\ S = {} => d = policy.default
  /\ (\E n \in S : policy.rules[n].action = "deny") => d = "deny"
  /\ S # {} /\ (\A n \in S : policy.rules[n].action # "deny") =>
       \E n \in S : /\ \A m \in S \ {n} : RuleOutranks(policy, n, m)
                    /\ d = policy.rules[n].action

LEMMA SizesOfPolicy ==
  ASSUME NEW policy \in Policies, NEW n \in DOMAIN policy.rules
  PROVE  /\ n \in Nat /\ Cardinality(DOMAIN policy.rules[n].target) \in Nat
         /\ Rank(policy.rules[n].action) \in Nat
<1>1. 1 \in Instants
  BY PoliciesAssumption DEF Instants
<1>2. RulesAt(policy, 1) \in Seq(Rules)
  BY <1>1, PoliciesAssumption
<1>3. DOMAIN RulesAt(policy, 1) = DOMAIN policy.rules
  BY DEF RulesAt
<1>4. n \in Nat /\ RulesAt(policy, 1)[n] \in Rule
  BY <1>2, <1>3, RulesAssumption
<1>5. RulesAt(policy, 1)[n].target = policy.rules[n].target
  BY DEF RulesAt
<1> QED
  BY <1>4, <1>5, SizeIsNat DEF Rank

LEMMA DecidedOnce ==
  ASSUME NEW policy \in Policies, NEW S, S \subseteq DOMAIN policy.rules,
         NEW d, NEW e, Decides(policy, S, d), Decides(policy, S, e)
  PROVE  d = e
<1>1. CASE S = {} \/ \E n \in S : policy.rules[n].action = "deny"
  BY <1>1 DEF Decides
<1>2. CASE S # {} /\ \A n \in S : policy.rules[n].action # "deny"
  <2>1. PICK n \in S : /\ \A m \in S \ {n} : RuleOutranks(policy, n, m)
                       /\ d = policy.rules[n].action
    BY <1>2 DEF Decides
  <2>2. PICK m \in S : /\ \A x \in S \ {m} : RuleOutranks(policy, m, x)
                       /\ e = policy.rules[m].action
    BY <1>2 DEF Decides
  <2>3. n = m
    <3> SUFFICES ASSUME n # m PROVE FALSE
      OBVIOUS
    <3>1. RuleOutranks(policy, n, m) /\ RuleOutranks(policy, m, n)
      BY <2>1, <2>2
    <3> QED
      BY <3>1, SizesOfPolicy DEF RuleOutranks
  <2> QED
    BY <2>1, <2>2, <2>3
<1> QED
  BY <1>1, <1>2

-----------------------------------------------------------------------------
(* The results of an event, and the comparison of two of them.             *)

\* Result r is what its policy decides at the instant of the resolution.
Exact(r, policy, c) ==
  /\ r.matched_rules \in Seq(Nat) /\ Lists(r.matched_rules, Applying(policy, c, r.at))
  /\ Decides(policy, Applying(policy, c, r.at), r.decision)

Compares(report) ==
  \A change \in report.comparison :
    /\ Len(policies) = 2
    /\ change.action_changed => report.results[1].decision # report.results[2].decision
    /\ change.matched_rules_changed =>
         report.results[1].matched_rules # report.results[2].matched_rules

ExactResults ==
  results # <<>> => \A p \in DOMAIN results : Exact(results[p], policies[p], Event.call)

ExactReports ==
  \A k \in DOMAIN reports :
    /\ \A p \in DOMAIN policies : Exact(reports[k].results[p], policies[p], events[k].call)
    /\ Compares(reports[k])

\* What the engine has decided is what the policy decides.
LEMMA DecidedExactly ==
  ASSUME EngineInv, pc = "done", NEW policy, NEW t,
         rules = RulesAt(policy, t), default = policy.default
  PROVE  /\ matching \in Seq(Nat) /\ Lists(matching, Applying(policy, call, t))
         /\ Decides(policy, Applying(policy, call, t), decision)
<1> DEFINE applying == Applying(policy, call, t)
<1>1. /\ DOMAIN rules = DOMAIN policy.rules
      /\ \A n \in DOMAIN policy.rules :
           /\ rules[n].target = policy.rules[n].target
           /\ rules[n].holds <=> t \in policy.rules[n].during
           /\ rules[n].action = policy.rules[n].action /\ ~rules[n].limited
  BY DEF RulesAt
<1>2. Applicable = applying
  <2>1. ASSUME NEW n \in DOMAIN policy.rules
        PROVE  Applies(rules[n]) <=>
                 /\ t \in policy.rules[n].during
                 /\ \A f \in DOMAIN policy.rules[n].target :
                      f \in Fields /\ call[f] = policy.rules[n].target[f]
    BY <1>1 DEF Applies
  <2> QED
    BY <2>1, <1>1 DEF Applicable, Applying
<1>3. Lists(matching, applying)
  BY <1>2 DEF EngineInv, Listed, Ascending, Lists
<1>4. matching \in Seq(Nat)
  <2>1. rules \in Seq(Rules) /\ matching \in Seq(DOMAIN rules)
    BY DEF EngineInv, TypeOK
  <2>2. DOMAIN rules \subseteq Nat
    BY <2>1
  <2> QED
    BY <2>1, <2>2
<1>5. \A n \in applying : n \in DOMAIN policy.rules
  BY DEF Applying
<1>6. Decides(policy, applying, decision)
  <2>1. CASE applying = {}
    <3>1. decision = policy.default
      BY <2>1, <1>2 DEF EngineInv, ResolvesAsSpecified
    <3> HIDE DEF applying
    <3> QED
      BY <2>1, <3>1 DEF Decides
  <2>2. CASE \E n \in applying : policy.rules[n].action = "deny"
    <3>1. \E n \in Applicable : rules[n].action = "deny"
      BY <2>2, <1>1, <1>2, <1>5
    <3>2. Applicable # {}
      BY <3>1
    <3>3. decision = "deny"
      BY <3>1, <3>2 DEF EngineInv, ResolvesAsSpecified
    <3> HIDE DEF applying
    <3> QED
      BY <2>2, <3>3 DEF Decides
  <2>3. CASE applying # {} /\ \A n \in applying : policy.rules[n].action # "deny"
    <3>1. ~\E n \in Applicable : rules[n].action = "deny"
      BY <2>3, <1>1, <1>2, <1>5
    <3>2. PICK n \in Applicable : Winner(n) /\ decision \in Answers(n)
      BY <2>3, <3>1, <1>2 DEF EngineInv, ResolvesAsSpecified
    <3>3. n \in applying /\ n \in DOMAIN policy.rules
      BY <3>2, <1>2, <1>5
    <3>4. decision = policy.rules[n].action
      BY <3>2, <3>3, <1>1 DEF Answers
    <3>5. ASSUME NEW m \in applying \ {n} PROVE RuleOutranks(policy, n, m)
      <4>1. Outranks(n, m) /\ m \in DOMAIN policy.rules
        BY <3>2, <3>5, <1>2, <1>5 DEF Winner
      <4>2. /\ rules[n].target = policy.rules[n].target
            /\ rules[m].target = policy.rules[m].target
            /\ rules[n].action = policy.rules[n].action
            /\ rules[m].action = policy.rules[m].action
        BY <4>1, <3>3, <1>1
      <4> QED
        BY <4>1, <4>2 DEF Outranks, RuleOutranks
    <3> HIDE DEF applying
    <3> QED
      BY <2>3, <3>3, <3>4, <3>5 DEF Decides
  <2> QED
    BY <2>1, <2>2, <2>3
<1> QED
  BY <1>3, <1>4, <1>6

LEMMA ExactStays ==
  ASSUME ExactResults, ExactReports, UNCHANGED <<results, reports, policies, events>>
  PROVE  ExactResults' /\ ExactReports'
<1>1. results' = results /\ reports' = reports /\ policies' = policies /\ events' = events
  OBVIOUS
<1>2. Event' = Event
  BY <1>1 DEF Event
<1>3. ExactResults'
  BY <1>1, <1>2 DEF ExactResults
<1>4. \A k \in DOMAIN reports : Compares(reports[k])'
  BY <1>1 DEF ExactReports, Compares
<1>5. \A k \in DOMAIN reports' : \A p \in DOMAIN policies' :
        Exact(reports'[k].results[p], policies'[p], events'[k].call)
  BY <1>1 DEF ExactReports
<1> QED
  BY <1>1, <1>3, <1>4, <1>5 DEF ExactReports, Compares

LEMMA EndIsExact ==
  ASSUME SimInv, ExactResults, ExactReports, EndResolution
  PROVE  ExactResults' /\ ExactReports'
<1> DEFINE policy == policies[Len(results) + 1]
           r == [sha256 |-> policy.sha256, decision |-> decision,
                 matched_rules |-> matching, at |-> clock,
                 matches_expected |-> MatchesExpected(policy)]
<1>1. /\ host = "resolving" /\ pc = "done" /\ results' = Append(results, r)
      /\ reports' = reports /\ policies' = policies /\ events' = events
  BY DEF EndResolution, traceVars
<1>2. rules = RulesAt(policy, clock) /\ default = policy.default /\ call = Event.call
  BY <1>1 DEF SimInv, ResolvingInv
<1>3. r.matched_rules = matching /\ r.decision = decision /\ r.at = clock
  OBVIOUS
<1> HIDE DEF r
<1>4. Exact(r, policy, Event.call)
  <2>1. /\ matching \in Seq(Nat) /\ Lists(matching, Applying(policy, call, clock))
        /\ Decides(policy, Applying(policy, call, clock), decision)
    BY <1>1, <1>2, DecidedExactly DEF SimInv
  <2> QED
    BY <2>1, <1>2, <1>3 DEF Exact
<1>5. PICK S : results \in Seq(S)
  BY DEF SimInv, HostTypes, ReportTypes
<1>6. /\ DOMAIN results' = 1..(Len(results) + 1) /\ DOMAIN results = 1..Len(results)
      /\ \A p \in 1..Len(results) : results'[p] = results[p]
      /\ results'[Len(results) + 1] = r /\ Len(results) \in Nat
  BY <1>1, <1>5
<1>7. ExactResults'
  <2>1. Event' = Event
    BY <1>1 DEF Event
  <2>2. ASSUME NEW p \in 1..(Len(results) + 1)
        PROVE  Exact(results'[p], policies[p], Event.call)
    <3>1. CASE p \in 1..Len(results)
      <4>1. results # <<>> /\ p \in DOMAIN results
        BY <3>1, <1>6
      <4> QED
        BY <4>1, <3>1, <1>6 DEF ExactResults
    <3>2. CASE p = Len(results) + 1
      BY <3>2, <1>4, <1>6
    <3> QED
      BY <3>1, <3>2, <1>6
  <2> QED
    BY <2>1, <2>2, <1>1, <1>6 DEF ExactResults
<1>8. ExactReports'
  <2>1. \A k \in DOMAIN reports : Compares(reports[k])'
    BY <1>1 DEF ExactReports, Compares
  <2>2. \A k \in DOMAIN reports' : \A p \in DOMAIN policies' :
          Exact(reports'[k].results[p], policies'[p], events'[k].call)
    BY <1>1 DEF ExactReports
  <2> QED
    BY <1>1, <2>1, <2>2 DEF ExactReports, Compares
<1> QED
  BY <1>7, <1>8

LEMMA ReportIsExact ==
  ASSUME SimInv, ExactResults, ExactReports, Report
  PROVE  ExactResults' /\ ExactReports'
<1> DEFINE r == [sequence |-> Event.sequence, expected |-> Event.expected,
                 results |-> results, comparison |-> Comparison]
<1>1. /\ Len(reports) < Len(events) /\ Len(results) = Len(policies)
      /\ reports' = Append(reports, r) /\ results' = <<>>
      /\ policies' = policies /\ events' = events
  BY DEF Report, traceVars
<1>2. r.results = results /\ r.comparison = Comparison
  OBVIOUS
<1> HIDE DEF r
<1>3. PICK S : reports \in Seq(S)
  BY DEF SimInv, HostTypes, ReportTypes
<1>4. /\ DOMAIN reports' = 1..(Len(reports) + 1) /\ DOMAIN reports = 1..Len(reports)
      /\ \A k \in 1..Len(reports) : reports'[k] = reports[k]
      /\ reports'[Len(reports) + 1] = r /\ Len(reports) \in Nat
  BY <1>1, <1>3
<1>5. /\ DOMAIN policies = 1..Len(policies) /\ DOMAIN results = 1..Len(results)
      /\ Len(policies) \in Nat /\ Len(policies) <= 2
  BY DEF SimInv, HostTypes, PolicyTypes, ReportTypes
<1>6. ASSUME NEW p \in DOMAIN policies PROVE Exact(r.results[p], policies[p], Event.call)
  <2>1. p \in DOMAIN results
    BY <1>1, <1>5
  <2>2. results # <<>>
    BY <2>1
  <2> QED
    BY <2>1, <2>2, <1>2 DEF ExactResults
<1>7. ASSUME NEW change \in r.comparison
      PROVE  /\ Len(policies) = 2
             /\ change.action_changed => r.results[1].decision # r.results[2].decision
             /\ change.matched_rules_changed =>
                  r.results[1].matched_rules # r.results[2].matched_rules
  <2>1. ~(Len(results) < 2)
    BY <1>2 DEF Comparison
  <2>2. change = [action_changed |-> results[1].decision # results[2].decision,
                  matched_rules_changed |-> results[1].matched_rules # results[2].matched_rules]
    BY <2>1, <1>2 DEF Comparison
  <2>3. Len(policies) = 2
    BY <2>1, <1>1, <1>5
  <2>4. change.action_changed = (results[1].decision # results[2].decision)
    BY <2>2
  <2>5. change.matched_rules_changed
          = (results[1].matched_rules # results[2].matched_rules)
    BY <2>2
  <2> QED
    BY <2>3, <2>4, <2>5, <1>2
<1>8. ExactReports'
  <2>1. ASSUME NEW k \in 1..(Len(reports) + 1), NEW p \in DOMAIN policies
        PROVE  Exact(reports'[k].results[p], policies[p], events[k].call)
    <3>1. CASE k \in 1..Len(reports)
      BY <3>1, <1>4 DEF ExactReports
    <3>2. CASE k = Len(reports) + 1
      BY <3>2, <1>4, <1>6 DEF Event
    <3> QED
      BY <3>1, <3>2, <1>4
  <2>2. ASSUME NEW k \in 1..(Len(reports) + 1), NEW change \in reports'[k].comparison
        PROVE  /\ Len(policies) = 2
               /\ change.action_changed =>
                    reports'[k].results[1].decision # reports'[k].results[2].decision
               /\ change.matched_rules_changed =>
                    reports'[k].results[1].matched_rules # reports'[k].results[2].matched_rules
    <3>1. CASE k \in 1..Len(reports)
      BY <3>1, <2>2, <1>4 DEF ExactReports, Compares
    <3>2. CASE k = Len(reports) + 1
      BY <3>2, <2>2, <1>4, <1>7
    <3> QED
      BY <3>1, <3>2, <1>4
  <2> QED
    BY <1>1, <1>4, <2>1, <2>2 DEF ExactReports, Compares
<1> QED
  BY <1>1, <1>8 DEF ExactResults

\* The other steps leave the results as they are, or come before there are any.
LEMMA NoOtherResults ==
  ASSUME SimInv, [SimNext]_simVars, ~EndResolution, ~Report
  PROVE  \/ UNCHANGED <<results, reports, policies, events>>
         \/ results' = <<>> /\ reports' = <<>>
<1>1. CASE LoadPolicies \/ LoadFails
  BY <1>1 DEF LoadPolicies, LoadFails, reportVars, SimInv, TraceInv
<1>2. ASSUME NEW line \in Lines,
             \/ SkipBlank(line) \/ AcceptEvent(line)
             \/ RefuseJson(line) \/ RefuseEvent(line) \/ RefuseOrder(line)
      PROVE  results' = <<>> /\ reports' = <<>>
  <2>1. host = "trace" /\ UNCHANGED <<results, reports>>
    BY <1>2 DEF SkipBlank, AcceptEvent, RefuseJson, RefuseEvent, RefuseOrder, Reading, reportVars
  <2> QED
    BY <2>1 DEF SimInv, TraceInv
<1>3. CASE EndTrace \/ Tick \/ WriteReports \/ BeginResolution
  BY <1>3 DEF EndTrace, Tick, WriteReports, BeginResolution, reportVars, traceVars
<1>4. CASE Resolve \/ UNCHANGED simVars
  BY <1>4 DEF Resolve, simVars, simulation, reportVars, traceVars
<1> QED
  BY <1>1, <1>2, <1>3, <1>4 DEF SimNext

LEMMA ExactNext ==
  ASSUME SimInv, ExactResults, ExactReports, [SimNext]_simVars
  PROVE  ExactResults' /\ ExactReports'
<1>1. CASE EndResolution
  BY <1>1, EndIsExact
<1>2. CASE Report
  BY <1>2, ReportIsExact
<1>3. CASE UNCHANGED <<results, reports, policies, events>>
  BY <1>3, ExactStays
<1>4. CASE results' = <<>> /\ reports' = <<>>
  BY <1>4 DEF ExactResults, ExactReports
<1> QED
  BY <1>1, <1>2, <1>3, <1>4, NoOtherResults

\* The simulator is deterministic but for the clock: with the same policy twice,
\* whatever its rules and the trace, a change is reported only when the condition
\* of one of the rules held at one of the two resolutions and not at the other.
THEOREM ChangesHaveAReason == SimSpec => []ChangedForAReason
<1> DEFINE ExactInv == ExactResults /\ ExactReports
<1>1. SimInit => ExactInv
  BY DEF SimInit, ExactResults, ExactReports
<1>2. SimInv /\ ExactInv /\ [SimNext]_simVars => ExactInv'
  BY ExactNext
<1>3. SimInv /\ ExactInv => ChangedForAReason
  <2> SUFFICES ASSUME SimInv, ExactInv, NEW k \in DOMAIN reports,
                      NEW change \in reports[k].comparison,
                      policies[1] = policies[2],
                      change.action_changed \/ change.matched_rules_changed,
                      ~\E n \in DOMAIN policies[1].rules :
                         (reports[k].results[1].at \in policies[1].rules[n].during)
                           # (reports[k].results[2].at \in policies[1].rules[n].during)
               PROVE  FALSE
    BY DEF ChangedForAReason
  <2> DEFINE r == reports[k].results
             policy == policies[1]
             applying(t) == Applying(policy, events[k].call, t)
  <2>1. /\ Len(policies) = 2
        /\ change.action_changed => r[1].decision # r[2].decision
        /\ change.matched_rules_changed => r[1].matched_rules # r[2].matched_rules
    BY DEF ExactReports, Compares
  <2>2. 1 \in DOMAIN policies /\ 2 \in DOMAIN policies /\ policy \in Policies
    <3>1. policies \in Seq(Policies)
      BY DEF SimInv, HostTypes, PolicyTypes
    <3>2. DOMAIN policies = 1..2
      BY <3>1, <2>1
    <3>3. \A n \in DOMAIN policies : policies[n] \in Policies
      BY <3>1
    <3>4. 1 \in DOMAIN policies /\ 2 \in DOMAIN policies
      BY <3>2
    <3> QED
      BY <3>3, <3>4
  <2>3. Exact(r[1], policy, events[k].call) /\ Exact(r[2], policy, events[k].call)
    BY <2>2 DEF ExactReports
  <2>4. applying(r[1].at) = applying(r[2].at)
    <3>1. \A n \in DOMAIN policy.rules :
            r[1].at \in policy.rules[n].during <=> r[2].at \in policy.rules[n].during
      OBVIOUS
    <3> QED
      BY <3>1 DEF Applying
  <2>5. r[1].matched_rules = r[2].matched_rules
    BY <2>3, <2>4, SameList DEF Exact
  <2>6. r[1].decision = r[2].decision
    <3>1. applying(r[1].at) \subseteq DOMAIN policy.rules
      BY DEF Applying
    <3>2. /\ Decides(policy, applying(r[1].at), r[1].decision)
          /\ Decides(policy, applying(r[1].at), r[2].decision)
      BY <2>3, <2>4 DEF Exact
    <3> HIDE DEF applying, policy, r
    <3> QED
      BY <2>2, <3>1, <3>2, DecidedOnce
  <2> QED
    BY <2>1, <2>5, <2>6
<1> QED
  BY <1>1, <1>2, <1>3, SimInvHolds, PTL DEF SimSpec
=============================================================================
