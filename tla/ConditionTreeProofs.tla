------------------------ MODULE ConditionTreeProofs ------------------------
(***************************************************************************)
(* What the actions of ConditionTree preserve, for any limits and nodes:   *)
(* the lemmas PolicyParserProofs builds on.                                *)
(***************************************************************************)
EXTENDS ConditionTree, TLAPS

OperandsIn(t, p) == {n \in DOMAIN t : t[n].parent = p}

\* Nodes come after their parents and one level below them.
Rooted(t) ==
  \A n \in DOMAIN t :
    /\ t[n].parent \in 0..(n - 1)
    /\ t[n].depth = IF t[n].parent = 0 THEN 1 ELSE t[t[n].parent].depth + 1

Fine(t, n) == t[n].depth <= MaxDepth /\ n <= MaxNodes /\ ~Malformed(t[n].node)

OneOperand(t, n) == \E k \in DOMAIN t : OperandsIn(t, n) = {k}

\* A tree parse_condition has returned.
GoodTree(t) ==
  /\ t \in Seq(TreeNode) /\ t # <<>> /\ Rooted(t)
  /\ \A n \in DOMAIN t : Fine(t, n) /\ (t[n].node.op = "not" => OneOperand(t, n))

Open(n) == \E k \in DOMAIN frames : frames[k] = n

\* While a condition is parsed: the operators that are not open are complete.
Parsing ==
  /\ Rooted(tree) /\ nodes = Len(tree)
  /\ \A n \in DOMAIN tree :
       /\ Fine(tree, n)
       /\ tree[n].node.op = "not" =>
            OperandsIn(tree, n) = {} \/ OneOperand(tree, n)
       /\ tree[n].node.op = "not" /\ ~Open(n) => OneOperand(tree, n)

NextNode ==
  /\ depth = IF frames = <<>> THEN 1 ELSE tree[Innermost].depth + 1
  /\ frames = <<>> => tree = <<>>
  /\ frames # <<>> /\ tree[Innermost].node.op = "not" => OperandsIn(tree, Innermost) = {}

ParseInv ==
  /\ treePc \in {"node", "operands"} => Parsing
  /\ treePc = "node" => NextNode
  /\ treePc = "operands" => frames # <<>>
  /\ treePc = "parsed" => GoodTree(tree)
  /\ treePc \notin {"node", "operands", "invalid"} => frames = <<>>
  /\ treePc = "invalid" => Rooted(tree) /\ \E n \in DOMAIN tree : ~Fine(tree, n)

\* The operands before the one on the path did not decide.
Undecided(V) ==
  \A i \in 1..(Len(path) - 1) :
    Op(path[i]) # "not" =>
      \A c \in Operands(path[i]) : c < path[i + 1] => (V[c] <=> Op(path[i]) = "all")

OnPath ==
  /\ path # <<>> /\ path[1] = 1
  /\ \A i \in 1..(Len(path) - 1) :
       path[i + 1] \in Operands(path[i]) /\ Op(path[i]) \in Operators

Valuations == [DOMAIN tree -> BOOLEAN]

EvaluationInv ==
  /\ treePc \in {"enter", "leave", "evaluated"} => GoodTree(tree)
  /\ treePc \in {"enter", "leave"} =>
       OnPath /\ \A V \in Valuations : Meaning(V) => Undecided(V)
  /\ treePc = "leave" => \A V \in Valuations : Meaning(V) => (value <=> V[Focus])
  /\ ConditionMeaning

TreeInv == TreeTypeOK /\ ParseInv /\ EvaluationInv

-----------------------------------------------------------------------------
(* parse_condition. *)

\* A sequence over a set is one over every larger set.
LEMMA SeqGrows ==
  ASSUME NEW S, NEW T, S \subseteq T, NEW s \in Seq(S)
  PROVE  s \in Seq(T)
  OBVIOUS

\* A new node comes last, below the innermost operator.
LEMMA AppendedNode ==
  ASSUME TreeTypeOK, Parsing, NextNode, NEW n \in NodeInputs, Offer(n)
  PROVE  /\ tree' \in Seq(TreeNode) /\ Len(tree') = Len(tree) + 1
         /\ \A k \in DOMAIN tree : tree'[k] = tree[k]
         /\ tree'[Len(tree')] = [node |-> n, depth |-> depth,
                                 parent |-> IF frames = <<>> THEN 0 ELSE Innermost]
         /\ Rooted(tree')
         /\ OperandsIn(tree', Len(tree')) = {}
         /\ \A p \in DOMAIN tree :
              OperandsIn(tree', p) =
                IF frames # <<>> /\ p = Innermost THEN OperandsIn(tree, p) \cup {Len(tree')}
                                                  ELSE OperandsIn(tree, p)
<1> DEFINE parent == IF frames = <<>> THEN 0 ELSE Innermost
           new == [node |-> n, depth |-> depth, parent |-> parent]
<1>1. frames # <<>> => Innermost \in DOMAIN tree
  BY DEF TreeTypeOK, Innermost
<1>2. parent \in 0..Len(tree) /\ new \in TreeNode
  <2>1. /\ Len(tree) \in Nat /\ DOMAIN tree = 1..Len(tree)
        /\ depth \in Nat /\ n \in NodeInputs
    BY DEF TreeTypeOK
  <2>2. parent \in 0..Len(tree)
    BY <1>1, <2>1
  <2> HIDE DEF parent
  <2>3. parent \in Nat
    BY <2>1, <2>2
  <2> QED
    BY <2>1, <2>2, <2>3 DEF TreeNode
<1>3. tree' = Append(tree, new)
  BY DEF Offer
<1> HIDE DEF new
<1>4. /\ tree' \in Seq(TreeNode) /\ Len(tree') = Len(tree) + 1
      /\ tree'[Len(tree')] = new
      /\ \A k \in DOMAIN tree : tree'[k] = tree[k]
  BY <1>2, <1>3 DEF TreeTypeOK
<1>5. new.parent = parent /\ new.depth = depth /\ new.node = n
  BY DEF new
<1> HIDE DEF parent
<1>6. DOMAIN tree' = 1..(Len(tree) + 1) /\ DOMAIN tree = 1..Len(tree) /\ Len(tree) \in Nat
  BY <1>4 DEF TreeTypeOK
<1>7. depth = IF parent = 0 THEN 1 ELSE tree[parent].depth + 1
  BY <1>1, <1>6 DEF NextNode, parent
<1>8. Rooted(tree')
  BY <1>2, <1>4, <1>5, <1>6, <1>7 DEF Rooted, Parsing
<1>9. \A k \in DOMAIN tree : tree[k].parent < k
  BY <1>6 DEF Parsing, Rooted
<1>10. OperandsIn(tree', Len(tree')) = {}
  BY <1>2, <1>4, <1>5, <1>6, <1>9 DEF OperandsIn
<1>11. ASSUME NEW p \in DOMAIN tree
       PROVE  OperandsIn(tree', p) =
                IF frames # <<>> /\ p = Innermost THEN OperandsIn(tree, p) \cup {Len(tree')}
                                                  ELSE OperandsIn(tree, p)
  <2>1. \A k \in DOMAIN tree' : k \in OperandsIn(tree', p) <=>
          k \in OperandsIn(tree, p) \/ (k = Len(tree') /\ parent = p)
    BY <1>4, <1>5, <1>6 DEF OperandsIn
  <2>2. parent = p <=> frames # <<>> /\ p = Innermost
    BY <1>1, <1>6 DEF parent
  <2> QED
    BY <2>1, <2>2, <1>4, <1>6 DEF OperandsIn
<1> QED
  BY <1>4, <1>8, <1>10, <1>11 DEF new, parent

\* The tree between two calls of parse_condition.
LEMMA BeginKeepsInv ==
  ASSUME TreeTypeOK, path = <<>>, BeginCondition
  PROVE  TreeInv'
<1>1. TreeTypeOK'
  BY DEF TreeTypeOK, BeginCondition, evaluation, Places
<1>2. ParseInv'
  BY DEF ParseInv, BeginCondition, Parsing, NextNode, Rooted
<1>3. EvaluationInv'
  BY DEF EvaluationInv, ConditionMeaning, BeginCondition
<1> QED
  BY <1>1, <1>2, <1>3 DEF TreeInv

LEMMA RefuseKeepsInv ==
  ASSUME TreeInv, NEW n \in NodeInputs, RefuseNode(n)
  PROVE  TreeInv'
<1> USE DEF TreeInv
<1>1. Parsing /\ NextNode /\ Offer(n)
  BY DEF ParseInv, RefuseNode
<1>2. /\ tree' \in Seq(TreeNode) /\ Len(tree') = Len(tree) + 1
      /\ tree'[Len(tree')] = [node |-> n, depth |-> depth,
                              parent |-> IF frames = <<>> THEN 0 ELSE Innermost]
      /\ Rooted(tree')
  BY <1>1, AppendedNode
<1>3. Len(tree) \in Nat /\ DOMAIN tree \subseteq DOMAIN tree' /\ Len(tree') \in DOMAIN tree'
  BY <1>2 DEF TreeTypeOK
<1>4. frames' \in Seq(DOMAIN tree') /\ path' \in Seq(DOMAIN tree')
  BY <1>3, SeqGrows DEF TreeTypeOK, RefuseNode, evaluation
<1>5. TreeTypeOK'
  BY <1>2, <1>4 DEF TreeTypeOK, RefuseNode, evaluation, Places
<1>6. ~Fine(tree', Len(tree'))
  <2>1. CASE TooDeep
    BY <2>1, <1>2, LimitsAssumption DEF Fine, TooDeep, TreeTypeOK
  <2>2. CASE TooMany
    BY <2>2, <1>1, <1>2, <1>3, LimitsAssumption DEF Fine, TooMany, Parsing
  <2>3. CASE Malformed(n)
    BY <2>3, <1>2 DEF Fine
  <2> QED
    BY <2>1, <2>2, <2>3 DEF RefuseNode
<1>7. ParseInv'
  BY <1>2, <1>3, <1>6 DEF ParseInv, RefuseNode
<1>8. EvaluationInv'
  BY DEF EvaluationInv, ConditionMeaning, RefuseNode
<1> QED
  BY <1>5, <1>7, <1>8

LEMMA LeafKeepsInv ==
  ASSUME TreeInv, NEW n \in NodeInputs, LeafNode(n)
  PROVE  TreeInv'
<1> USE DEF TreeInv
<1>1. Parsing /\ NextNode /\ Offer(n)
  BY DEF ParseInv, LeafNode
<1>2. /\ tree' \in Seq(TreeNode) /\ Len(tree') = Len(tree) + 1
      /\ \A k \in DOMAIN tree : tree'[k] = tree[k]
      /\ tree'[Len(tree')] = [node |-> n, depth |-> depth,
                              parent |-> IF frames = <<>> THEN 0 ELSE Innermost]
      /\ Rooted(tree')
      /\ \A p \in DOMAIN tree :
           OperandsIn(tree', p) =
             IF frames # <<>> /\ p = Innermost THEN OperandsIn(tree, p) \cup {Len(tree')}
                                               ELSE OperandsIn(tree, p)
  BY <1>1, AppendedNode
<1>3. /\ Len(tree) \in Nat /\ DOMAIN tree = 1..Len(tree) /\ DOMAIN tree' = 1..Len(tree')
      /\ DOMAIN tree' = DOMAIN tree \cup {Len(tree')} /\ Len(tree') \notin DOMAIN tree
  BY <1>2 DEF TreeTypeOK
<1>4. frames' \in Seq(DOMAIN tree') /\ path' \in Seq(DOMAIN tree')
  BY <1>3, SeqGrows DEF TreeTypeOK, LeafNode, evaluation
<1>5. TreeTypeOK' /\ frames' = frames /\ nodes' = nodes + 1
  BY <1>2, <1>4 DEF TreeTypeOK, LeafNode, evaluation, Places, Returned
<1>6. \A k \in DOMAIN tree' : Fine(tree', k)
  <2>1. Fine(tree', Len(tree'))
    BY <1>1, <1>2, <1>3, LimitsAssumption DEF Fine, LeafNode, TooDeep, TooMany, Parsing, TreeTypeOK
  <2> QED
    BY <2>1, <1>1, <1>2, <1>3 DEF Parsing, Fine
<1>7. ASSUME NEW k \in DOMAIN tree', tree'[k].node.op = "not"
      PROVE  /\ OperandsIn(tree', k) = {} \/ OneOperand(tree', k)
             /\ ~Open(k) => OneOperand(tree', k)
  <2>1. k \in DOMAIN tree /\ tree[k].node.op = "not"
    BY <1>2, <1>3, <1>7 DEF LeafNode
  <2>2. CASE frames # <<>> /\ k = Innermost
    BY <2>1, <2>2, <1>1, <1>2, <1>3 DEF NextNode, OneOperand
  <2>3. CASE ~(frames # <<>> /\ k = Innermost)
    BY <2>1, <2>3, <1>1, <1>2, <1>3 DEF Parsing, OneOperand
  <2> QED
    BY <2>2, <2>3
<1>8. (\A k \in DOMAIN tree' : ~Open(k)') \/ frames # <<>>
  BY <1>5 DEF Open
<1>9. Parsing'
  BY <1>1, <1>2, <1>3, <1>5, <1>6, <1>7 DEF Parsing, Open
<1>10. frames = <<>> => GoodTree(tree')
  BY <1>2, <1>3, <1>6, <1>7 DEF GoodTree, Open
<1>11. ParseInv'
  BY <1>5, <1>9, <1>10 DEF ParseInv, LeafNode, Returned
<1>12. EvaluationInv'
  BY DEF EvaluationInv, ConditionMeaning, LeafNode, Returned
<1> QED
  BY <1>5, <1>11, <1>12

LEMMA OperatorKeepsInv ==
  ASSUME TreeInv, NEW n \in NodeInputs, OperatorNode(n)
  PROVE  TreeInv'
<1> USE DEF TreeInv
<1>1. Parsing /\ NextNode /\ Offer(n)
  BY DEF ParseInv, OperatorNode
<1>2. /\ tree' \in Seq(TreeNode) /\ Len(tree') = Len(tree) + 1
      /\ \A k \in DOMAIN tree : tree'[k] = tree[k]
      /\ tree'[Len(tree')] = [node |-> n, depth |-> depth,
                              parent |-> IF frames = <<>> THEN 0 ELSE Innermost]
      /\ Rooted(tree') /\ OperandsIn(tree', Len(tree')) = {}
      /\ \A p \in DOMAIN tree :
           OperandsIn(tree', p) =
             IF frames # <<>> /\ p = Innermost THEN OperandsIn(tree, p) \cup {Len(tree')}
                                               ELSE OperandsIn(tree, p)
  BY <1>1, AppendedNode
<1>3. /\ Len(tree) \in Nat /\ DOMAIN tree = 1..Len(tree) /\ DOMAIN tree' = 1..Len(tree')
      /\ DOMAIN tree' = DOMAIN tree \cup {Len(tree')} /\ Len(tree') \notin DOMAIN tree
  BY <1>2 DEF TreeTypeOK
<1>4. frames \in Seq(DOMAIN tree') /\ path' \in Seq(DOMAIN tree')
  BY <1>3, SeqGrows DEF TreeTypeOK, OperatorNode, evaluation
<1>5. /\ frames' = Append(frames, Len(tree')) /\ frames' \in Seq(DOMAIN tree') /\ frames' # <<>>
      /\ \A k : Open(k)' <=> Open(k) \/ k = Len(tree')
  <2>1. frames' = Append(frames, Len(tree')) /\ Len(tree') \in DOMAIN tree'
    BY <1>2, <1>3 DEF OperatorNode
  <2>2. /\ Len(frames) \in Nat /\ DOMAIN frames = 1..Len(frames)
        /\ frames' \in Seq(DOMAIN tree') /\ Len(frames') = Len(frames) + 1
        /\ \A k \in 1..Len(frames) : frames'[k] = frames[k]
        /\ frames'[Len(frames')] = Len(tree')
    BY <2>1, <1>4
  <2>3. DOMAIN frames' = 1..Len(frames') /\ frames' # <<>>
    BY <2>2
  <2>4. \A k : Open(k)' <=> Open(k) \/ k = Len(tree')
    BY <2>2, <2>3 DEF Open
  <2> QED
    BY <2>1, <2>2, <2>3, <2>4
<1>6. TreeTypeOK' /\ nodes' = nodes + 1
  BY <1>2, <1>4, <1>5 DEF TreeTypeOK, OperatorNode, evaluation, Places
<1>7. \A k \in DOMAIN tree' : Fine(tree', k)
  <2>1. ~Malformed(n)
    BY DEF Malformed, OperatorNode, Operators
  <2>2. Fine(tree', Len(tree'))
    BY <2>1, <1>1, <1>2, <1>3, LimitsAssumption DEF Fine, OperatorNode, TooDeep, TooMany, Parsing, TreeTypeOK
  <2> QED
    BY <2>2, <1>1, <1>2, <1>3 DEF Parsing, Fine
<1>8. ASSUME NEW k \in DOMAIN tree', tree'[k].node.op = "not"
      PROVE  /\ OperandsIn(tree', k) = {} \/ OneOperand(tree', k)
             /\ ~Open(k)' => OneOperand(tree', k)
  <2>1. CASE k = Len(tree')
    BY <2>1, <1>2, <1>5
  <2>2. CASE k \in DOMAIN tree /\ frames # <<>> /\ k = Innermost
    BY <2>2, <1>8, <1>1, <1>2, <1>3 DEF NextNode, OneOperand
  <2>3. CASE k \in DOMAIN tree /\ ~(frames # <<>> /\ k = Innermost)
    BY <2>3, <1>8, <1>1, <1>2, <1>3, <1>5 DEF Parsing, OneOperand
  <2> QED
    BY <2>1, <2>2, <2>3, <1>3
<1>9. Parsing'
  BY <1>1, <1>2, <1>3, <1>6, <1>7, <1>8 DEF Parsing
<1>10. ParseInv'
  BY <1>5, <1>9 DEF ParseInv, OperatorNode
<1>11. EvaluationInv'
  BY DEF EvaluationInv, ConditionMeaning, OperatorNode
<1> QED
  BY <1>6, <1>10, <1>11

LEMMA NextOperandKeepsInv ==
  ASSUME TreeInv, NextOperand
  PROVE  TreeInv'
<1> USE DEF TreeInv
<1>1. Parsing /\ frames # <<>> /\ Innermost \in DOMAIN tree
  BY DEF ParseInv, NextOperand, TreeTypeOK, Innermost
<1>2. TreeTypeOK'
  <2>1. tree[Innermost] \in TreeNode
    BY <1>1 DEF TreeTypeOK
  <2>2. depth' \in Nat
    BY <2>1 DEF TreeNode, NextOperand
  <2> QED
    BY <2>2 DEF TreeTypeOK, NextOperand, evaluation, Places
<1>3. Parsing' /\ NextNode'
  BY <1>1 DEF Parsing, NextNode, NextOperand, Open, MoreOperands, Operands, OperandsIn, Innermost, Rooted
<1>4. ParseInv'
  BY <1>3 DEF ParseInv, NextOperand
<1>5. EvaluationInv'
  BY DEF EvaluationInv, ConditionMeaning, NextOperand
<1> QED
  BY <1>2, <1>4, <1>5

LEMMA EndOperandsKeepsInv ==
  ASSUME TreeInv, EndOperands
  PROVE  TreeInv'
<1> USE DEF TreeInv
<1>1. /\ Parsing /\ frames # <<>> /\ Innermost \in DOMAIN tree
      /\ tree[Innermost].node.op = "not" => OperandsIn(tree, Innermost) # {}
  BY DEF ParseInv, EndOperands, TreeTypeOK, Innermost, LastOperand, Operands, OperandsIn
<1>2. /\ frames' \in Seq(DOMAIN tree)
      /\ \A k : Open(k) => Open(k)' \/ k = Innermost
  <2>1. /\ frames \in Seq(DOMAIN tree) /\ Len(frames) \in Nat \ {0} /\ DOMAIN frames = 1..Len(frames)
        /\ frames' = SubSeq(frames, 1, Len(frames) - 1)
    BY <1>1 DEF EndOperands, TreeTypeOK
  <2>2. /\ frames' \in Seq(DOMAIN tree) /\ DOMAIN frames' = 1..(Len(frames) - 1)
        /\ \A k \in 1..(Len(frames) - 1) : frames'[k] = frames[k]
    BY <2>1
  <2>3. \A j \in DOMAIN frames : j \in DOMAIN frames' \/ j = Len(frames)
    BY <2>1, <2>2
  <2>4. \A j \in DOMAIN frames' : frames'[j] = frames[j]
    BY <2>2
  <2>5. \A k : Open(k) => Open(k)' \/ k = Innermost
    BY <2>3, <2>4 DEF Open, Innermost
  <2> QED
    BY <2>2, <2>5
<1>3. TreeTypeOK'
  BY <1>2 DEF TreeTypeOK, EndOperands, evaluation, Places, Returned
<1>4. \A k \in DOMAIN tree : tree[k].node.op = "not" /\ ~Open(k)' => OneOperand(tree, k)
  BY <1>1, <1>2 DEF Parsing
<1>5. Parsing'
  BY <1>1, <1>4 DEF Parsing, EndOperands
<1>6. frames' = <<>> => GoodTree(tree)
  BY <1>1, <1>4 DEF GoodTree, Open, TreeTypeOK, Parsing
<1>7. ParseInv'
  BY <1>5, <1>6 DEF ParseInv, EndOperands, Returned
<1>8. EvaluationInv'
  BY DEF EvaluationInv, ConditionMeaning, EndOperands, Returned
<1> QED
  BY <1>3, <1>7, <1>8

LEMMA ParseStepKeepsInv ==
  ASSUME TreeInv, ParseStep
  PROVE  TreeInv'
<1>1. ASSUME NEW n \in NodeInputs, RefuseNode(n) \/ LeafNode(n) \/ OperatorNode(n)
      PROVE  TreeInv'
  BY <1>1, RefuseKeepsInv, LeafKeepsInv, OperatorKeepsInv
<1> QED
  BY <1>1, NextOperandKeepsInv, EndOperandsKeepsInv DEF ParseStep

-----------------------------------------------------------------------------
(* evaluate_condition. *)

LEMMA BeginEvaluationKeepsInv ==
  ASSUME TreeInv, NEW t, GoodTree(t), frames = <<>>, BeginEvaluation(t)
  PROVE  TreeInv'
<1>1. tree' = t /\ path' = <<1>> /\ frames' = <<>> /\ treePc' = "enter"
  BY DEF BeginEvaluation
<1>2. 1 \in DOMAIN tree' /\ GoodTree(tree')
  BY <1>1 DEF GoodTree
<1>3. path' \in Seq(DOMAIN tree') /\ Len(path') = 1 /\ path'[1] = 1 /\ path' # <<>>
  BY <1>1, <1>2
<1>4. TreeTypeOK'
  BY <1>1, <1>2, <1>3 DEF TreeInv, TreeTypeOK, GoodTree, BeginEvaluation, Places
<1>5. ParseInv'
  BY <1>1 DEF ParseInv
<1>6. OnPath' /\ \A V : Undecided(V)'
  BY <1>3 DEF OnPath, Undecided
<1>7. EvaluationInv'
  BY <1>1, <1>2, <1>6 DEF EvaluationInv, ConditionMeaning
<1> QED
  BY <1>4, <1>5, <1>7 DEF TreeInv

\* What every step of an evaluation leaves alone.
LEMMA EvaluateFrame ==
  ASSUME TreeInv, EvaluateStep
  PROVE  /\ UNCHANGED <<tree, frames, depth, nodes, instant>> /\ GoodTree(tree) /\ frames = <<>>
         /\ treePc \in {"enter", "leave"} /\ treePc' \in {"enter", "leave", "evaluated"}
         /\ path # <<>> /\ Len(path) \in Nat \ {0} /\ DOMAIN path = 1..Len(path)
         /\ Focus \in DOMAIN tree /\ OnPath
         /\ \A n \in DOMAIN tree : Op(n) \in Operators \cup {"leaf", "malformed"}
         /\ \A V : Meaning(V)' <=> Meaning(V)
<1>1. /\ UNCHANGED <<tree, frames, depth, nodes, instant>>
      /\ treePc \in {"enter", "leave"} /\ treePc' \in {"enter", "leave", "evaluated"}
  BY DEF EvaluateStep, EvaluateLeaf, EvaluateEmpty, EnterOperand, Negate, OperandDecides, EvaluateNext,
         EvaluationDone, parseVars, evaluation
<1>2. GoodTree(tree) /\ frames = <<>> /\ OnPath
  BY <1>1 DEF TreeInv, EvaluationInv, ParseInv
<1>3. /\ path # <<>> /\ Len(path) \in Nat \ {0} /\ DOMAIN path = 1..Len(path)
      /\ Focus \in DOMAIN tree
  BY <1>2 DEF TreeInv, TreeTypeOK, OnPath, Focus
<1>4. \A n \in DOMAIN tree : Op(n) \in Operators \cup {"leaf", "malformed"}
  <2>1. \A n \in DOMAIN tree : tree[n] \in TreeNode
    BY DEF TreeInv, TreeTypeOK
  <2>2. \A n \in DOMAIN tree : tree[n].node \in NodeInputs \cup {Leaf}
    BY <2>1 DEF TreeNode
  <2> QED
    BY <2>2, NodesAssumption DEF Node, Op, Leaf
<1>5. \A V : Meaning(V)' <=> Meaning(V)
  BY <1>1 DEF Meaning, Op, Operands, Holds
<1> QED
  BY <1>1, <1>2, <1>3, <1>4, <1>5

\* What is left to show of a step that does not end the evaluation.
LEMMA EvaluationGoesOn ==
  ASSUME TreeInv, EvaluateStep, treePc' \in {"enter", "leave"},
         path' \in Seq(DOMAIN tree), value' \in BOOLEAN, OnPath',
         \A V \in Valuations : Meaning(V) => Undecided(V)',
         treePc' = "leave" => \A V \in Valuations : Meaning(V) => (value' <=> V[Focus'])
  PROVE  TreeInv'
<1>1. /\ UNCHANGED <<tree, frames, depth, nodes, instant>> /\ GoodTree(tree) /\ frames = <<>>
      /\ \A V : Meaning(V)' <=> Meaning(V)
  BY EvaluateFrame
<1>2. TreeTypeOK'
  BY <1>1 DEF TreeInv, TreeTypeOK, Places
<1>3. ParseInv'
  BY <1>1 DEF ParseInv
<1>4. Valuations' = Valuations /\ GoodTree(tree)'
  <2>1. tree' = tree /\ GoodTree(tree)
    BY <1>1
  <2>2. Valuations' = Valuations
    BY ONLY <2>1 DEF Valuations
  <2> QED
    BY ONLY <2>1, <2>2
<1>5. (\A V \in Valuations : Meaning(V) => Undecided(V))'
  BY <1>1, <1>4
<1>6. treePc' = "leave" => (\A V \in Valuations : Meaning(V) => (value <=> V[Focus]))'
  BY <1>1, <1>4
<1>7. EvaluationInv'
  BY <1>4, <1>5, <1>6 DEF EvaluationInv, ConditionMeaning
<1> QED
  BY <1>2, <1>3, <1>7 DEF TreeInv

\* The value of the node in focus is its meaning.
LEMMA ValueKnown ==
  ASSUME TreeInv, EvaluateLeaf \/ EvaluateEmpty
  PROVE  TreeInv'
<1>1. EvaluateStep
  BY DEF EvaluateStep
<1> USE EvaluateFrame, <1>1
<1>2. treePc' = "leave" /\ path' = path /\ value' \in BOOLEAN
  BY DEF EvaluateLeaf, EvaluateEmpty, Holds
<1>3. ASSUME NEW V \in Valuations, Meaning(V)
      PROVE  value' <=> V[Focus]
  <2> DEFINE Value(n) ==
        CASE Op(n) = "all" -> \A k \in Operands(n) : V[k]
          [] Op(n) = "any" -> \E k \in Operands(n) : V[k]
          [] Op(n) = "not" -> \A k \in Operands(n) : ~V[k]
          [] OTHER         -> Holds(tree[n].node)
  <2>1. V[Focus] <=> Value(Focus)
    BY <1>3 DEF Meaning
  <2>2. CASE EvaluateLeaf
    BY <2>1, <2>2 DEF EvaluateLeaf
  <2>3. CASE EvaluateEmpty
    <3>1. Op(Focus) # "not"
      BY <2>3 DEF EvaluateEmpty, GoodTree, OneOperand, OperandsIn, Operands, Op
    <3>2. Op(Focus) \in {"all", "any"} /\ Operands(Focus) = {} /\ value' = (Op(Focus) = "all")
      BY <2>3, <3>1 DEF EvaluateEmpty, Operators
    <3>3. CASE Op(Focus) = "all"
      BY <2>1, <3>2, <3>3
    <3>4. CASE Op(Focus) = "any"
      BY <2>1, <3>2, <3>4
    <3> QED
      BY <3>2, <3>3, <3>4
  <2> QED
    BY <2>2, <2>3
<1>4. OnPath' /\ \A V \in Valuations : Meaning(V) => Undecided(V)'
  BY <1>2 DEF TreeInv, EvaluationInv, OnPath, Undecided, Op, Operands
<1> QED
  BY <1>2, <1>3, <1>4, EvaluationGoesOn DEF TreeInv, TreeTypeOK, Focus

LEMMA EnterOperandKeepsInv ==
  ASSUME TreeInv, EnterOperand
  PROVE  TreeInv'
<1>1. EvaluateStep
  BY DEF EvaluateStep
<1> USE EvaluateFrame, <1>1
<1>2. PICK n \in Operands(Focus) : First(n, Operands(Focus)) /\ path' = Append(path, n)
  BY DEF EnterOperand
<1>3. treePc' = "enter" /\ value' = value /\ n \in DOMAIN tree /\ Op(Focus) \in Operators
  BY DEF EnterOperand, Operands
<1>4. /\ path' \in Seq(DOMAIN tree) /\ Len(path') = Len(path) + 1 /\ path'[Len(path')] = n
      /\ \A i \in 1..Len(path) : path'[i] = path[i]
  BY <1>2, <1>3 DEF TreeInv, TreeTypeOK
<1>7. OnPath'
  <2>1. path' # <<>> /\ path'[1] = 1
    BY <1>4 DEF OnPath
  <2>2. ASSUME NEW i \in 1..(Len(path') - 1)
        PROVE  path'[i + 1] \in Operands(path'[i]) /\ Op(path'[i]) \in Operators
    <3>1. CASE i = Len(path)
      BY <3>1, <1>3, <1>4 DEF Focus
    <3>2. CASE i \in 1..(Len(path) - 1)
      BY <3>2, <1>4 DEF OnPath
    <3>3. i = Len(path) \/ i \in 1..(Len(path) - 1)
      <4>1. Len(path) \in Nat
        BY DEF TreeInv, TreeTypeOK
      <4> QED
        BY ONLY <4>1, <1>4, i \in 1..(Len(path') - 1)
    <3> QED
      BY ONLY <3>1, <3>2, <3>3
  <2> QED
    BY <2>1, <2>2 DEF OnPath, Op, Operands
<1>8. ASSUME NEW V \in Valuations, Meaning(V)
      PROVE  Undecided(V)'
  <2>1. Undecided(V)
    BY <1>3, <1>8 DEF TreeInv, EvaluationInv, EnterOperand
  <2>2. ASSUME NEW i \in 1..(Len(path') - 1), Op(path'[i]) # "not",
               NEW c \in Operands(path'[i]), c < path'[i + 1]
        PROVE  V[c] <=> Op(path'[i]) = "all"
    <3>1. CASE i = Len(path)
      <4>1. c \in Operands(Focus) /\ c < n
        BY <2>2, <3>1, <1>4 DEF Focus
      <4>2. n <= c /\ n \in Nat /\ c \in Nat
        BY <4>1, <1>2 DEF First, Operands, GoodTree
      <4> QED
        BY <4>1, <4>2
    <3>2. CASE i \in 1..(Len(path) - 1)
      <4>1. path'[i] = path[i] /\ path'[i + 1] = path[i + 1]
        BY <3>2, <1>4
      <4> QED
        BY <2>1, <2>2, <3>2, <4>1 DEF Undecided
    <3>3. i = Len(path) \/ i \in 1..(Len(path) - 1)
      BY <1>4
    <3> QED
      BY <3>1, <3>2, <3>3
  <2> QED
    BY <2>2 DEF Undecided, Op, Operands
<1> QED
  BY <1>3, <1>4, <1>7, <1>8, EvaluationGoesOn DEF TreeInv, TreeTypeOK

\* What a step back to the parent, or to its next operand, is about.
LEMMA ParentFacts ==
  ASSUME TreeInv, Negate \/ OperandDecides \/ EvaluateNext
  PROVE  /\ Len(path) > 1 /\ Parent \in DOMAIN tree /\ Focus \in Operands(Parent)
         /\ Op(Parent) \in Operators
         /\ \A V \in Valuations : Meaning(V) =>
              /\ Undecided(V) /\ (value <=> V[Focus])
              /\ Op(Parent) # "not" =>
                   \A c \in Operands(Parent) : c < Focus => (V[c] <=> Op(Parent) = "all")
<1>1. EvaluateStep /\ treePc = "leave" /\ Len(path) > 1
  BY DEF EvaluateStep, Negate, OperandDecides, EvaluateNext
<1>2. OnPath /\ Len(path) \in Nat \ {0}
  BY <1>1, EvaluateFrame
<1>3. Parent \in DOMAIN tree /\ Focus \in Operands(Parent) /\ Op(Parent) \in Operators
  <2>1. Len(path) - 1 \in 1..(Len(path) - 1) /\ (Len(path) - 1) + 1 = Len(path)
    BY <1>1, <1>2
  <2>2. Focus \in Operands(Parent) /\ Op(Parent) \in Operators
    BY <1>2, <2>1 DEF OnPath, Focus, Parent
  <2>3. Parent \in DOMAIN tree
    BY <1>1, <1>2 DEF TreeInv, TreeTypeOK, Parent
  <2> QED
    BY <2>2, <2>3
<1>4. ASSUME NEW V \in Valuations, Meaning(V)
      PROVE  /\ Undecided(V) /\ (value <=> V[Focus])
             /\ Op(Parent) # "not" =>
                  \A c \in Operands(Parent) : c < Focus => (V[c] <=> Op(Parent) = "all")
  <2>1. Undecided(V) /\ (value <=> V[Focus])
    BY <1>1, <1>4 DEF TreeInv, EvaluationInv
  <2>2. Len(path) - 1 \in 1..(Len(path) - 1) /\ (Len(path) - 1) + 1 = Len(path)
    BY <1>1, <1>2
  <2> QED
    BY <2>1, <2>2 DEF Undecided, Focus, Parent
<1> QED
  BY <1>1, <1>3, <1>4

\* Back at the parent, its value known.
LEMMA BackKeepsInv ==
  ASSUME TreeInv, Negate \/ OperandDecides
  PROVE  TreeInv'
<1>1. EvaluateStep /\ BackToParent /\ treePc' = "leave" /\ UNCHANGED tree /\ value \in BOOLEAN
  BY DEF EvaluateStep, Negate, OperandDecides, parseVars, TreeInv, TreeTypeOK
<1>2. /\ Len(path) > 1 /\ Parent \in DOMAIN tree /\ Focus \in Operands(Parent)
      /\ Op(Parent) \in Operators /\ OnPath /\ GoodTree(tree) /\ Len(path) \in Nat
  BY <1>1, ParentFacts, EvaluateFrame
<1>3. /\ path' \in Seq(DOMAIN tree) /\ Len(path') = Len(path) - 1
      /\ \A i \in 1..(Len(path) - 1) : path'[i] = path[i]
  BY <1>1, <1>2 DEF BackToParent, TreeInv, TreeTypeOK
<1>4. OnPath' /\ Focus' = Parent
  BY <1>1, <1>2, <1>3 DEF OnPath, Focus, Parent, Op, Operands
<1>5. ASSUME NEW V \in Valuations, Meaning(V)
      PROVE  Undecided(V)' /\ (value' <=> V[Parent])
  <2>1. Undecided(V) /\ (value <=> V[Focus])
    BY <1>5, ParentFacts
  <2>2. Undecided(V)'
    BY <2>1, <1>1, <1>2, <1>3 DEF Undecided, Op, Operands
  <2> DEFINE Value(n) ==
        CASE Op(n) = "all" -> \A k \in Operands(n) : V[k]
          [] Op(n) = "any" -> \E k \in Operands(n) : V[k]
          [] Op(n) = "not" -> \A k \in Operands(n) : ~V[k]
          [] OTHER         -> Holds(tree[n].node)
  <2>3. V[Parent] <=> Value(Parent)
    BY <1>2, <1>5 DEF Meaning
  <2>4. CASE Negate
    <3>1. PICK k \in DOMAIN tree : Operands(Parent) = {k}
      BY <1>2, <2>4 DEF Negate, GoodTree, OneOperand, OperandsIn, Operands, Op
    <3>2. Op(Parent) = "not" /\ Operands(Parent) = {Focus} /\ value' = ~value
      BY <3>1, <1>2, <2>4 DEF Negate
    <3>3. V[Parent] <=> ~V[Focus]
      BY <2>3, <3>2
    <3> QED
      BY <2>1, <2>2, <3>2, <3>3
  <2>5. CASE OperandDecides
    <3>1. /\ value' = value /\ Op(Parent) \in {"all", "any"}
          /\ value # (Op(Parent) = "all") \/ LaterOperands = {}
      BY <1>2, <2>5 DEF OperandDecides, Operators
    <3>2. \A c \in Operands(Parent) : c < Focus => (V[c] <=> Op(Parent) = "all")
      BY <1>5, <3>1, ParentFacts
    <3>3. LaterOperands = {} => \A c \in Operands(Parent) : c < Focus \/ c = Focus
      BY <1>2 DEF LaterOperands, Operands, GoodTree
    <3>4. CASE Op(Parent) = "all"
      <4>1. V[Parent] <=> \A k \in Operands(Parent) : V[k]
        BY <2>3, <3>4
      <4> QED
        BY <2>1, <2>2, <3>1, <3>2, <3>3, <3>4, <4>1, <1>1, <1>2
    <3>5. CASE Op(Parent) = "any"
      <4>1. V[Parent] <=> \E k \in Operands(Parent) : V[k]
        BY <2>3, <3>5
      <4> QED
        BY <2>1, <2>2, <3>1, <3>2, <3>3, <3>5, <4>1, <1>1, <1>2
    <3> QED
      BY <3>1, <3>4, <3>5
  <2> QED
    BY <2>4, <2>5
<1>6. value' \in BOOLEAN
  BY <1>1 DEF Negate, OperandDecides
<1> QED
  BY <1>1, <1>3, <1>4, <1>5, <1>6, EvaluationGoesOn

LEMMA EvaluateNextKeepsInv ==
  ASSUME TreeInv, EvaluateNext
  PROVE  TreeInv'
<1>1. EvaluateStep /\ treePc' = "enter" /\ UNCHANGED <<tree, value>> /\ value = (Op(Parent) = "all")
  BY DEF EvaluateStep, EvaluateNext, parseVars
<1>2. /\ Len(path) > 1 /\ Parent \in DOMAIN tree /\ Focus \in Operands(Parent)
      /\ Op(Parent) \in Operators /\ OnPath /\ GoodTree(tree) /\ Len(path) \in Nat
  BY <1>1, ParentFacts, EvaluateFrame
<1>3. PICK n \in LaterOperands : First(n, LaterOperands) /\ path' = [path EXCEPT ![Len(path)] = n]
  BY DEF EvaluateNext
<1>4. n \in DOMAIN tree /\ n \in Operands(Parent)
  BY <1>3 DEF LaterOperands, Operands
<1>5. /\ path' \in Seq(DOMAIN tree) /\ Len(path') = Len(path) /\ path'[Len(path)] = n
      /\ \A i \in 1..(Len(path) - 1) : path'[i] = path[i]
  BY <1>2, <1>3, <1>4 DEF TreeInv, TreeTypeOK
<1>6. OnPath'
  <2>1. path' # <<>> /\ path'[1] = 1
    BY <1>2, <1>5 DEF OnPath
  <2>2. ASSUME NEW i \in 1..(Len(path) - 1)
        PROVE  path'[i + 1] \in Operands(path'[i]) /\ Op(path'[i]) \in Operators
    <3>1. CASE i = Len(path) - 1
      <4>1. path'[i] = Parent /\ path'[i + 1] = n
        BY <3>1, <1>2, <1>5 DEF Parent
      <4> QED
        BY <4>1, <1>2, <1>4
    <3>2. CASE i \in 1..(Len(path) - 2)
      <4>1. path'[i] = path[i] /\ path'[i + 1] = path[i + 1]
        BY <3>2, <1>2, <1>5
      <4> QED
        BY <4>1, <1>2 DEF OnPath
    <3>3. i = Len(path) - 1 \/ i \in 1..(Len(path) - 2)
      BY <1>2
    <3> QED
      BY <3>1, <3>2, <3>3
  <2> QED
    BY <2>1, <2>2, <1>1, <1>5 DEF OnPath, Op, Operands
<1>7. ASSUME NEW V \in Valuations, Meaning(V)
      PROVE  Undecided(V)'
  <2>1. /\ Undecided(V) /\ (value <=> V[Focus])
        /\ Op(Parent) # "not" => \A c \in Operands(Parent) : c < Focus => (V[c] <=> Op(Parent) = "all")
    BY <1>7, ParentFacts
  <2>2. ASSUME NEW i \in 1..(Len(path) - 1), Op(path'[i]) # "not",
               NEW c \in Operands(path'[i]), c < path'[i + 1]
        PROVE  V[c] <=> Op(path'[i]) = "all"
    <3>1. CASE i = Len(path) - 1
      <4>1. path'[i] = Parent /\ path'[i + 1] = n /\ c \in Operands(Parent) /\ c < n
        BY <2>2, <3>1, <1>2, <1>5 DEF Parent
      <4>2. c \notin LaterOperands
        BY <4>1, <1>3 DEF First, LaterOperands, Operands, GoodTree
      <4>3. c < Focus \/ c = Focus
        BY <4>1, <4>2, <1>2 DEF LaterOperands, Operands, GoodTree
      <4> QED
        BY <4>1, <4>3, <2>1, <2>2, <1>1
    <3>2. CASE i \in 1..(Len(path) - 2)
      <4>1. path'[i] = path[i] /\ path'[i + 1] = path[i + 1]
        BY <3>2, <1>2, <1>5
      <4> QED
        BY <2>1, <2>2, <3>2, <4>1 DEF Undecided
    <3>3. i = Len(path) - 1 \/ i \in 1..(Len(path) - 2)
      BY <1>2
    <3> QED
      BY <3>1, <3>2, <3>3
  <2> QED
    BY <2>2, <1>1, <1>5 DEF Undecided, Op, Operands
<1>8. value' \in BOOLEAN
  BY <1>1 DEF TreeInv, TreeTypeOK
<1> QED
  BY <1>1, <1>5, <1>6, <1>7, <1>8, EvaluationGoesOn

LEMMA EvaluationDoneKeepsInv ==
  ASSUME TreeInv, EvaluationDone
  PROVE  TreeInv'
<1>2. /\ UNCHANGED <<tree, frames, depth, nodes, path, value, instant>> /\ treePc = "leave"
      /\ treePc' = "evaluated" /\ Len(path) = 1 /\ EvaluateStep
  BY DEF EvaluationDone, parseVars, evaluation, EvaluateStep
<1>3. GoodTree(tree) /\ frames = <<>> /\ OnPath /\ Focus = 1 /\ \A V : Meaning(V)' <=> Meaning(V)
  BY <1>2, EvaluateFrame DEF OnPath, Focus
<1>4. TreeTypeOK'
  BY <1>2 DEF TreeInv, TreeTypeOK, Places
<1>5. ParseInv'
  BY <1>2, <1>3 DEF ParseInv
<1>6. \A V \in Valuations : Meaning(V) => (value <=> V[1])
  BY <1>2, <1>3 DEF TreeInv, EvaluationInv
<1>7. ConditionMeaning'
  <2>1. Valuations' = Valuations
    BY <1>2 DEF Valuations
  <2>2. (\A V \in Valuations : Meaning(V) => (value <=> V[1]))'
    BY <1>2, <1>3, <1>6, <2>1
  <2> QED
    BY <2>2 DEF ConditionMeaning, Valuations
<1>8. GoodTree(tree)'
  <2>1. tree' = tree /\ GoodTree(tree)
    BY <1>2, <1>3
  <2> QED
    BY ONLY <2>1
<1> QED
  BY <1>2, <1>4, <1>5, <1>7, <1>8 DEF TreeInv, EvaluationInv

LEMMA EvaluateStepKeepsInv ==
  ASSUME TreeInv, EvaluateStep
  PROVE  TreeInv'
BY ValueKnown, EnterOperandKeepsInv, BackKeepsInv, EvaluateNextKeepsInv, EvaluationDoneKeepsInv
   DEF EvaluateStep

-----------------------------------------------------------------------------
\* The invariant says of the limits what the property does.
LEMMA LimitsFromInv ==
  ASSUME TreeInv, treePc = "none" => tree = <<>>
  PROVE  ConditionLimitsExact
<1>1. \A n \in DOMAIN tree : ~Fine(tree, n) <=>
        tree[n].depth > MaxDepth \/ n > MaxNodes \/ Malformed(tree[n].node)
  <2> SUFFICES ASSUME NEW n \in DOMAIN tree
               PROVE  (tree[n].depth <= MaxDepth <=> ~(tree[n].depth > MaxDepth))
                      /\ (n <= MaxNodes <=> ~(n > MaxNodes))
    BY DEF Fine
  <2>1. tree[n] \in TreeNode /\ n \in Nat
    BY DEF TreeInv, TreeTypeOK
  <2> QED
    BY <2>1, LimitsAssumption DEF TreeNode
<1>2. treePc # "none" => Rooted(tree)
  BY DEF TreeInv, ParseInv, EvaluationInv, GoodTree, Parsing, TreeTypeOK, Places
<1>3. treePc \notin {"none", "invalid"} => \A n \in DOMAIN tree : Fine(tree, n)
  BY DEF TreeInv, ParseInv, EvaluationInv, GoodTree, Parsing, TreeTypeOK, Places
<1>4. treePc = "invalid" => \E n \in DOMAIN tree : ~Fine(tree, n)
  BY DEF TreeInv, ParseInv
<1> QED
  BY <1>1, <1>2, <1>3, <1>4 DEF ConditionLimitsExact, Rooted
LEMMA TreeStutters ==
  ASSUME TreeInv, UNCHANGED treeVars
  PROVE  TreeInv'
<1> USE DEF treeVars
<1>1. TreeTypeOK'
  BY DEF TreeInv, TreeTypeOK
<1>2. \A t : GoodTree(t)' <=> GoodTree(t)
  BY DEF GoodTree, Fine, OneOperand, OperandsIn, Rooted
<1>3. ParseInv'
  BY <1>2 DEF TreeInv, ParseInv, Parsing, NextNode, Open, Fine, OneOperand, OperandsIn, Rooted, Innermost
<1>4. \A V : Meaning(V)' <=> Meaning(V)
  BY DEF Meaning, Op, Operands, Holds
<1>5. /\ Valuations' = Valuations /\ Focus' = Focus /\ OnPath' <=> OnPath
      /\ \A V : Undecided(V)' <=> Undecided(V)
  BY DEF Valuations, Focus, OnPath, Undecided, Op, Operands
<1>6. ConditionMeaning'
  <2>1. treePc = "evaluated" => (\A V \in Valuations : Meaning(V) => (value <=> V[1]))'
    BY <1>4, <1>5 DEF TreeInv, EvaluationInv, ConditionMeaning, Valuations
  <2> QED
    BY <2>1 DEF ConditionMeaning, Valuations
<1>7. treePc \in {"enter", "leave"} => (OnPath /\ \A V \in Valuations : Meaning(V) => Undecided(V))'
  BY <1>4, <1>5 DEF TreeInv, EvaluationInv
<1>8. treePc = "leave" => (\A V \in Valuations : Meaning(V) => (value <=> V[Focus]))'
  BY <1>4, <1>5 DEF TreeInv, EvaluationInv
<1>9. treePc \in {"enter", "leave", "evaluated"} => GoodTree(tree)'
  BY <1>2 DEF TreeInv, EvaluationInv
<1> QED
  BY <1>1, <1>3, <1>6, <1>7, <1>8, <1>9 DEF TreeInv, EvaluationInv
=============================================================================
