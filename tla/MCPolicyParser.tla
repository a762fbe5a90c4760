--------------------------- MODULE MCPolicyParser ---------------------------
(* Instances of PolicyParser: rules with every flaw alone and some with two, *)
(* limits at both ends of their range, a leaf whose patterns hit and which   *)
(* holds at one of the two instants, windows that are empty.                 *)
EXTENDS PolicyParser

Allow == [id |-> NoId, action |-> "allow", target |-> NoTarget, limit |-> NoLimit,
          limited |-> FALSE, condition |-> FALSE, extra |-> FALSE]

Limited(calls, seconds) ==
  [Allow EXCEPT !.limited = TRUE, !.limit = [max_calls |-> calls, window_seconds |-> seconds]]

On(field, name) == [Allow EXCEPT !.target = field :> name]

SomeEntries ==
  {[Allow EXCEPT !.id = "a"], [Allow EXCEPT !.id = "y"], [Allow EXCEPT !.extra = TRUE],
   [Limited(1, MaxLimit) EXCEPT !.id = "a"],
   Limited(MaxLimit + 1, 1), Limited(1, 0), [Limited(MaxLimit, 1) EXCEPT !.action = "deny"],
   [Allow EXCEPT !.action = "absent"], [Allow EXCEPT !.action = "unknown"],
   [Allow EXCEPT !.action = "not a string", !.condition = TRUE],
   On("agent", "x"), On("tool", "bot"), On(WordField, "2026-08-11T12:00:00Z"),
   On(UnknownField, "x"), [Allow EXCEPT !.condition = TRUE]}

N(op) == [Leaf EXCEPT !.op = op]
During(begin, finish) == [Leaf EXCEPT !.window = [start |-> begin, end |-> finish]]

SomeNodes ==
  {N("all"), N("any"), N("not"), N("malformed"),
   [During(1, 2) EXCEPT !.args = "hit", !.path = "hit"], During(2, 2)}
=============================================================================
