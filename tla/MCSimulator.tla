---------------------------- MODULE MCSimulator ----------------------------
(* Instances of Simulator: live resolutions of policies of up to three      *)
(* rules of every specificity and action; simulations of small policies,   *)
(* with and without rules that depend on the time, over traces with every  *)
(* flaw.                                                                   *)
EXTENDS Simulator

T(S) == [f \in S |-> "x"]

R(S, a) == [target |-> T(S), holds |-> TRUE, action |-> a, limited |-> FALSE]

SomeRules ==
  {R(S, a) : S \in {{}, {"agent"}, {"agent", "tool"}}, a \in {"deny", "throttle", "redirect", "allow"}}
    \cup {R({"tool"}, a) : a \in {"require_approval", "log"}}
    \cup {[R(S, "allow") EXCEPT !.limited = TRUE] : S \in {{}, {"tool"}}}
    \cup {[R({}, "deny") EXCEPT !.holds = FALSE], R({Unknown}, "deny")}

SomeCalls == {[agent |-> "x", tool |-> "x"], [agent |-> "x", tool |-> "y"],
              [agent |-> Absent, tool |-> "x"]}

During(S, a, instants) == [target |-> T(S), during |-> instants, action |-> a]

SomePolicies ==
  {[sha256 |-> "d1", default |-> "allow", rules |-> <<During({"tool"}, "log", Instants), During({}, "deny", {2})>>],
   [sha256 |-> "d2", default |-> "deny", rules |-> <<During({"agent"}, "allow", Instants)>>],
   [sha256 |-> "d3", default |-> "deny", rules |-> <<>>]}

Plain == [text |-> "json", wrong |-> {}, sequence |-> 1, call |-> [agent |-> "x", tool |-> "x"],
          expected |-> NotExpected]

Second == [Plain EXCEPT !.sequence = 2, !.call = [agent |-> "x", tool |-> "y"]]

Expecting(digest, action, matched) ==
  [sha256 |-> digest, decision |-> action, matched_rules |-> matched]

SomeLines ==
  {Plain, Second, [Plain EXCEPT !.text = "blank", !.sequence = 0],
   [Plain EXCEPT !.expected = Expecting("d1", "log", <<1>>)],
   [Second EXCEPT !.expected = Expecting("d2", "allow", <<2>>)],
   [Plain EXCEPT !.text = "separated"], [Plain EXCEPT !.text = "not json"],
   [Second EXCEPT !.wrong = {"null event_id"}], [Plain EXCEPT !.wrong = {"sequence"}, !.sequence = 0],
   [Plain EXCEPT !.wrong = {"call", "expected"}], [Second EXCEPT !.wrong = {"fields", "version"}],
   [Plain EXCEPT !.wrong = {"event_id"}]}
=============================================================================
