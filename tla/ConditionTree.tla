---------------------------- MODULE ConditionTree ----------------------------
(***************************************************************************)
(* The condition of a rule, from the policy to a decision: parse_condition *)
(* reads a tree of all, any, not and leaves under two limits (src/src/     *)
(* parser.rs, src/src/hp_guard/parser.py), and evaluate_condition computes *)
(* what it says of a call at an instant (src/src/conditions.rs,            *)
(* src/src/hp_guard/conditions.py).  The nodes are offered one by one, as  *)
(* the parser comes to them, and kept in that order: a node comes after    *)
(* its parent and before the later operands of its parent.                 *)
(***************************************************************************)
EXTENDS Integers, Sequences

CONSTANTS MaxDepth,    \* MAX_CONDITION_DEPTH
          MaxNodes,    \* MAX_CONDITION_NODES
          NodeInputs,  \* the nodes policies are written with
          Instants     \* the times of windows and of resolutions

Operators == {"all", "any", "not"}
NoWindow == [start |-> 0, end |-> 0]

\* A pattern is given by what it says of the call: whether args_match and
\* path_pattern answer that is decided in module Conditions.
PatternInputs == {"none", "hit", "miss", "bad"}

Node == [op : Operators \cup {"leaf", "malformed"},
         args : PatternInputs, path : PatternInputs,
         window : {NoWindow} \cup [start : Instants, end : Instants]]

Leaf == [op |-> "leaf", args |-> "none", path |-> "none", window |-> NoWindow]

\* The condition of a rule that has none.
DefaultTree == <<[node |-> Leaf, parent |-> 0, depth |-> 1]>>

ASSUME LimitsAssumption == MaxDepth \in Nat \ {0} /\ MaxNodes \in Nat \ {0}
ASSUME NodesAssumption == Instants \subseteq Nat \ {0} /\ NodeInputs \subseteq Node

VARIABLES
  tree,     \* the nodes parse_condition was called on; frames point into it
  frames,   \* the operators whose operands are being read, outermost first
  depth,    \* the depth of the innermost call
  nodes,    \* its counter of nodes
  treePc,
  path,     \* the nodes being evaluated, outermost first
  value,    \* what the evaluation of the last finished node returned
  instant   \* the time it is evaluated at

treeVars == <<tree, frames, depth, nodes, treePc, path, value, instant>>
parseVars == <<tree, frames, depth, nodes>>
evaluation == <<path, value, instant>>

TreeInit ==
  /\ tree = <<>> /\ frames = <<>> /\ depth = 1 /\ nodes = 0 /\ treePc = "none"
  /\ path = <<>> /\ value = FALSE /\ instant = 0

Innermost == frames[Len(frames)]
Operands(p) == {n \in DOMAIN tree : tree[n].parent = p}

-----------------------------------------------------------------------------
(* parse_condition. *)

\* Mutant of BeginCondition: the counter is kept from one rule to the next.
BeginConditionCounting ==
  /\ tree' = <<>> /\ frames' = <<>> /\ depth' = 1 /\ treePc' = "node"
  /\ UNCHANGED <<nodes, evaluation>>

BeginCondition ==
  /\ tree' = <<>> /\ frames' = <<>> /\ depth' = 1 /\ nodes' = 0 /\ treePc' = "node"
  /\ UNCHANGED evaluation

Offer(n) ==
  tree' = Append(tree, [node |-> n, depth |-> depth,
                        parent |-> IF frames = <<>> THEN 0 ELSE Innermost])

TooDeep == depth > MaxDepth
TooMany == nodes + 1 > MaxNodes

BadWindow(w) == w # NoWindow /\ w.end <= w.start

Malformed(n) ==
  \/ n.op = "malformed"
  \/ n.op = "leaf" /\ ("bad" \in {n.args, n.path} \/ BadWindow(n.window))

Returned == treePc' = IF frames' = <<>> THEN "parsed" ELSE "operands"

RefuseNode(n) ==
  /\ treePc = "node" /\ (TooDeep \/ TooMany \/ Malformed(n))
  /\ Offer(n)
  /\ nodes' = (IF TooDeep THEN nodes ELSE nodes + 1)
  /\ treePc' = "invalid"
  /\ UNCHANGED <<frames, depth, evaluation>>

LeafNode(n) ==
  /\ treePc = "node" /\ ~TooDeep /\ ~TooMany
  /\ n.op = "leaf" /\ ~Malformed(n)
  /\ Offer(n) /\ nodes' = nodes + 1
  /\ UNCHANGED <<frames, depth, evaluation>> /\ Returned

OperatorNode(n) ==
  /\ treePc = "node" /\ ~TooDeep /\ ~TooMany
  /\ n.op \in Operators
  /\ Offer(n) /\ nodes' = nodes + 1
  /\ frames' = Append(frames, Len(tree) + 1)
  /\ treePc' = "operands"
  /\ UNCHANGED <<depth, evaluation>>

\* not has one operand; all and any a sequence of them, which may be empty.
MoreOperands == tree[Innermost].node.op = "not" => Operands(Innermost) = {}
LastOperand == tree[Innermost].node.op = "not" => Operands(Innermost) # {}

\* Mutant of NextOperand: the depth of the operand before is counted on.
NextOperandDeeper ==
  /\ treePc = "operands" /\ MoreOperands
  /\ depth' = depth + 1
  /\ treePc' = "node"
  /\ UNCHANGED <<tree, frames, nodes, evaluation>>

NextOperand ==
  /\ treePc = "operands" /\ MoreOperands
  /\ depth' = tree[Innermost].depth + 1
  /\ treePc' = "node"
  /\ UNCHANGED <<tree, frames, nodes, evaluation>>

EndOperands ==
  /\ treePc = "operands" /\ LastOperand
  /\ frames' = SubSeq(frames, 1, Len(frames) - 1)
  /\ UNCHANGED <<tree, depth, nodes, evaluation>> /\ Returned

ParseStep ==
  \/ \E n \in NodeInputs : RefuseNode(n) \/ LeafNode(n) \/ OperatorNode(n)
  \/ NextOperand \/ EndOperands

-----------------------------------------------------------------------------
(* evaluate_condition: one call for each node of path. *)

Focus == path[Len(path)]
Op(n) == tree[n].node.op

\* The start of a window belongs to it, its end does not.
Holds(n) ==
  /\ n.args # "miss" /\ n.path # "miss"
  /\ n.window = NoWindow \/ (n.window.start <= instant /\ instant < n.window.end)

BeginEvaluation(t) ==
  /\ tree' = t /\ path' = <<1>> /\ instant' \in Instants
  /\ treePc' = "enter"
  /\ UNCHANGED <<frames, depth, nodes, value>>

EvaluateLeaf ==
  /\ treePc = "enter" /\ Op(Focus) = "leaf"
  /\ value' = Holds(tree[Focus].node) /\ treePc' = "leave"
  /\ UNCHANGED <<parseVars, path, instant>>

\* Mutant of EvaluateEmpty: any of nothing holds.
EvaluateEmptyHolds ==
  /\ treePc = "enter" /\ Op(Focus) \in Operators /\ Operands(Focus) = {}
  /\ value' = TRUE /\ treePc' = "leave"
  /\ UNCHANGED <<parseVars, path, instant>>

EvaluateEmpty ==
  /\ treePc = "enter" /\ Op(Focus) \in Operators /\ Operands(Focus) = {}
  /\ value' = (Op(Focus) = "all") /\ treePc' = "leave"
  /\ UNCHANGED <<parseVars, path, instant>>

First(n, S) == n \in S /\ \A m \in S : n <= m

EnterOperand ==
  /\ treePc = "enter" /\ Op(Focus) \in Operators
  /\ \E n \in Operands(Focus) : First(n, Operands(Focus)) /\ path' = Append(path, n)
  /\ UNCHANGED <<parseVars, treePc, value, instant>>

Parent == path[Len(path) - 1]
LaterOperands == {n \in Operands(Parent) : n > Focus}
BackToParent == path' = SubSeq(path, 1, Len(path) - 1)

Negate ==
  /\ treePc = "leave" /\ Len(path) > 1 /\ Op(Parent) = "not"
  /\ value' = ~value /\ BackToParent
  /\ UNCHANGED <<parseVars, treePc, instant>>

\* An operand decides all when it is false, any when it is true.
OperandDecides ==
  /\ treePc = "leave" /\ Len(path) > 1 /\ Op(Parent) # "not"
  /\ value # (Op(Parent) = "all") \/ LaterOperands = {}
  /\ BackToParent
  /\ UNCHANGED <<parseVars, treePc, value, instant>>

EvaluateNext ==
  /\ treePc = "leave" /\ Len(path) > 1 /\ Op(Parent) # "not"
  /\ value = (Op(Parent) = "all")
  /\ \E n \in LaterOperands : First(n, LaterOperands) /\ path' = [path EXCEPT ![Len(path)] = n]
  /\ treePc' = "enter"
  /\ UNCHANGED <<parseVars, value, instant>>

EvaluationDone ==
  /\ treePc = "leave" /\ Len(path) = 1
  /\ treePc' = "evaluated"
  /\ UNCHANGED <<parseVars, evaluation>>

EvaluateStep ==
  \/ EvaluateLeaf \/ EvaluateEmpty \/ EnterOperand
  \/ Negate \/ OperandDecides \/ EvaluateNext \/ EvaluationDone

-----------------------------------------------------------------------------
(* Properties. *)

Places == {"none", "node", "operands", "parsed", "invalid", "enter", "leave", "evaluated"}

TreeNode == [node : NodeInputs \cup {Leaf}, parent : Nat, depth : Nat]

TreeTypeOK ==
  /\ tree \in Seq(TreeNode)
  /\ frames \in Seq(DOMAIN tree) /\ path \in Seq(DOMAIN tree)
  /\ depth \in Nat /\ nodes \in Nat /\ treePc \in Places
  /\ value \in BOOLEAN /\ instant \in Instants \cup {0}

\* policy-language-v1.md: at most MaxDepth levels and MaxNodes nodes.  A condition
\* is refused exactly when one of its nodes is too deep, too many or malformed;
\* the depth of a node is one more than that of its parent.
ConditionLimitsExact ==
  /\ \A n \in DOMAIN tree :
       tree[n].depth = IF tree[n].parent = 0 THEN 1 ELSE tree[tree[n].parent].depth + 1
  /\ treePc # "none" =>
       (treePc = "invalid" <=>
          \E n \in DOMAIN tree : tree[n].depth > MaxDepth \/ n > MaxNodes \/ Malformed(tree[n].node))

\* V gives each node the value the language defines for it.
Meaning(V) ==
  \A n \in DOMAIN tree :
    V[n] <=> CASE Op(n) = "all" -> \A k \in Operands(n) : V[k]
               [] Op(n) = "any" -> \E k \in Operands(n) : V[k]
               [] Op(n) = "not" -> \A k \in Operands(n) : ~V[k]
               [] OTHER         -> Holds(tree[n].node)

\* policy-language-v1.md, Boolean and temporal conditions: stopping at the operand
\* that decides, the evaluation of a condition returns what the language defines.
ConditionMeaning ==
  treePc = "evaluated" =>
    \A V \in [DOMAIN tree -> BOOLEAN] : Meaning(V) => (value <=> V[1])
=============================================================================
