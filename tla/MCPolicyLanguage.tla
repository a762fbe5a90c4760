-------------------------- MODULE MCPolicyLanguage --------------------------
(* What a policy is written in: policies are loaded and their conditions    *)
(* evaluated (PolicyParser), patterns are matched (Conditions).  Neither    *)
(* uses the state of the other: a behavior is one of the one or of the      *)
(* other, which then rests where it begins.                                 *)
EXTENDS MCPolicyParser, MCConditions

VARIABLE machine  \* the one that runs

ParserRests == runtime = "rust" /\ limitable = FALSE /\ Init
MatcherRests ==
  leaf = "args_match" /\ matcher = "rust" /\ pattern = <<>> /\ text = <<>> /\ MatchInit

LanguageInit ==
  \/ machine = "parser" /\ MatcherRests /\ Init
  \/ machine = "matcher" /\ ParserRests /\ MatchInit

LanguageNext ==
  /\ UNCHANGED machine
  /\ \/ machine = "parser" /\ Next /\ UNCHANGED matchVars
     \/ machine = "matcher" /\ MatchNext /\ UNCHANGED vars

LanguageSpec == LanguageInit /\ [][LanguageNext]_<<machine, vars, matchVars>>
=============================================================================
