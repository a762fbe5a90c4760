---------------------------- MODULE MCConditions ----------------------------
(* Model values for TLC. *)
EXTENDS Conditions

\* One letter, every special character, and one that is refused.
SomeSymbols == {"a", ".", "*", "^", "$", "\\", "("}
SomeLetters == {"a", "*"}
=============================================================================
