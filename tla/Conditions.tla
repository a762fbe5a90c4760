----------------------------- MODULE Conditions -----------------------------
(***************************************************************************)
(* The two pattern languages of conditions (src/src/conditions.rs,         *)
(* src/src/hp_guard/conditions.py).  args_match parses its pattern into    *)
(* tokens and searches the joined arguments for them; path_pattern fills a *)
(* table row by row, one row for each character of the pattern.  A text is *)
(* a sequence of characters; position n of it lies after its n-th one.     *)
(***************************************************************************)
EXTENDS Integers, Sequences

CONSTANTS Symbols,     \* the characters patterns are written with
          Letters,     \* the characters of the texts
          MaxPattern,  \* bound: characters of a pattern
          MaxText      \* bound: characters of a text

ASSUME PatternBoundsAssumption == MaxPattern \in Nat /\ MaxText \in Nat

Words(S, n) == UNION {[1..k -> S] : k \in 0..n}

Escapable == {"\\", ".", "*", "^", "$"}
Unsupported == {"[", "]", "(", ")", "{", "}", "|", "+", "?"}

Token == [char : Symbols, any : BOOLEAN, repeated : BOOLEAN]

VARIABLES
  leaf,      \* the condition evaluated: "args_match" or "path_pattern"
  matcher,   \* the runtime that evaluates it
  pattern, text,
  matchPc,
  at,        \* the pattern character read next
  tokens, startAnchored, endAnchored,
  from,      \* the position the search starts from
  previous, current,  \* the last row of the table, and the one being filled
  col,
  verdict

inputs == <<leaf, matcher, pattern, text>>
search == <<tokens, startAnchored, endAnchored, from>>
table == <<previous, current, col>>
matchVars == <<inputs, matchPc, at, search, table, verdict>>

Positions == 0..Len(text)

Fits(token, char) == token.any \/ token.char = char

-----------------------------------------------------------------------------
MatchInit ==
  /\ leaf \in {"args_match", "path_pattern"} /\ matcher \in {"rust", "python"}
  /\ pattern \in Words(Symbols, MaxPattern) /\ text \in Words(Letters, MaxText)
  /\ matchPc = (IF leaf = "args_match" THEN "parse" ELSE "row")
  /\ at = 1 /\ tokens = <<>> /\ startAnchored = FALSE /\ endAnchored = FALSE /\ from = 0
  /\ previous = [n \in Positions |-> n = 0]
  /\ current = [n \in Positions |-> FALSE] /\ col = 0
  /\ verdict = "none"

Answer(v) ==
  /\ verdict' = v /\ matchPc' = "done"
  /\ UNCHANGED <<inputs, at, search, table>>

-----------------------------------------------------------------------------
(* parse_args_pattern. *)

Reading(char) == matchPc = "parse" /\ at <= Len(pattern) /\ pattern[at] = char

AddToken(char, any, width) ==
  /\ tokens' = Append(tokens, [char |-> char, any |-> any, repeated |-> FALSE])
  /\ at' = at + width
  /\ UNCHANGED <<inputs, matchPc, startAnchored, endAnchored, from, table, verdict>>

ParseStart ==
  /\ Reading("^") /\ at = 1
  /\ startAnchored' = TRUE /\ at' = 2
  /\ UNCHANGED <<inputs, matchPc, tokens, endAnchored, from, table, verdict>>

ParseEnd ==
  /\ Reading("$") /\ at = Len(pattern)
  /\ endAnchored' = TRUE /\ at' = at + 1
  /\ UNCHANGED <<inputs, matchPc, tokens, startAnchored, from, table, verdict>>

Escapes == at < Len(pattern) /\ pattern[at + 1] \in Escapable

ParseEscape == Reading("\\") /\ Escapes /\ AddToken(pattern[at + 1], FALSE, 2)

ParseAny == Reading(".") /\ AddToken(".", TRUE, 1)

ParseLiteral ==
  /\ matchPc = "parse" /\ at <= Len(pattern)
  /\ pattern[at] \notin Escapable \cup Unsupported
  /\ AddToken(pattern[at], FALSE, 1)

\* Mutant of Repeatable: a repeated token may be repeated again.
RepeatableAgain == tokens # <<>>

Repeatable == tokens # <<>> /\ ~tokens[Len(tokens)].repeated

ParseRepeat ==
  /\ Reading("*") /\ Repeatable
  /\ tokens' = [tokens EXCEPT ![Len(tokens)].repeated = TRUE]
  /\ at' = at + 1
  /\ UNCHANGED <<inputs, matchPc, startAnchored, endAnchored, from, table, verdict>>

Misplaced ==
  \/ Reading("^") /\ at > 1
  \/ Reading("$") /\ at < Len(pattern)
  \/ Reading("\\") /\ ~Escapes
  \/ Reading("*") /\ ~Repeatable
  \/ \E char \in Unsupported : Reading(char)

\* Such a pattern is refused when the policy is loaded.
ParseRefuse == Misplaced /\ Answer("invalid")

ParseDone ==
  /\ matchPc = "parse" /\ at > Len(pattern)
  /\ matchPc' = "search"
  /\ UNCHANGED <<inputs, at, search, table, verdict>>

-----------------------------------------------------------------------------
(* matches_from, from token t and position n: Rust consumes a repeated token *)
(* one character at a time, Python as far as it goes.                        *)

MatchesFromRust ==
  LET m[p \in (1..(Len(tokens) + 1)) \X Positions] ==
        LET t == p[1]
            n == p[2]
            one == n < Len(text) /\ Fits(tokens[t], text[n + 1])
        IN  IF t > Len(tokens) THEN ~endAnchored \/ n = Len(text)
            ELSE IF tokens[t].repeated THEN m[<<t + 1, n>>] \/ (one /\ m[<<t, n + 1>>])
            ELSE one /\ m[<<t + 1, n + 1>>]
  IN  m

MatchesFromPython ==
  LET m[p \in (1..(Len(tokens) + 1)) \X Positions] ==
        LET t == p[1]
            n == p[2]
        IN  IF t > Len(tokens) THEN ~endAnchored \/ n = Len(text)
            ELSE IF tokens[t].repeated
              THEN \E k \in n..Len(text) :
                     /\ \A j \in (n + 1)..k : Fits(tokens[t], text[j])
                     /\ m[<<t + 1, k>>]
              ELSE n < Len(text) /\ Fits(tokens[t], text[n + 1]) /\ m[<<t + 1, n + 1>>]
  IN  m

MatchesAt(n) == IF matcher = "rust" THEN MatchesFromRust[<<1, n>>] ELSE MatchesFromPython[<<1, n>>]

\* Mutant of LastStart: the position after the last character is not tried.
LastStartShort == IF startAnchored \/ text = <<>> THEN 0 ELSE Len(text) - 1

LastStart == IF startAnchored THEN 0 ELSE Len(text)

SearchFound == matchPc = "search" /\ from <= LastStart /\ MatchesAt(from) /\ Answer("match")

SearchOn ==
  /\ matchPc = "search" /\ from <= LastStart /\ ~MatchesAt(from)
  /\ from' = from + 1
  /\ UNCHANGED <<inputs, matchPc, at, tokens, startAnchored, endAnchored, table, verdict>>

SearchFailed == matchPc = "search" /\ from > LastStart /\ Answer("no match")

-----------------------------------------------------------------------------
(* path_matches. *)

\* Mutant of BeginRow: the first cell is not carried over a star.
BeginRowBlank ==
  /\ matchPc = "row" /\ at <= Len(pattern)
  /\ current' = [n \in Positions |-> FALSE]
  /\ col' = 1 /\ matchPc' = "cell"
  /\ UNCHANGED <<inputs, at, search, previous, verdict>>

BeginRow ==
  /\ matchPc = "row" /\ at <= Len(pattern)
  /\ current' = [n \in Positions |-> n = 0 /\ pattern[at] = "*" /\ previous[0]]
  /\ col' = 1 /\ matchPc' = "cell"
  /\ UNCHANGED <<inputs, at, search, previous, verdict>>

FillCell ==
  /\ matchPc = "cell" /\ col <= Len(text)
  /\ current' = [current EXCEPT ![col] =
                   IF pattern[at] = "*" THEN previous[col] \/ current[col - 1]
                   ELSE previous[col - 1] /\ pattern[at] = text[col]]
  /\ col' = col + 1
  /\ UNCHANGED <<inputs, matchPc, at, search, previous, verdict>>

EndRow ==
  /\ matchPc = "cell" /\ col > Len(text)
  /\ previous' = current /\ at' = at + 1 /\ matchPc' = "row"
  /\ UNCHANGED <<inputs, search, current, col, verdict>>

LastRow ==
  /\ matchPc = "row" /\ at > Len(pattern)
  /\ Answer(IF previous[Len(text)] THEN "match" ELSE "no match")

Parse == ParseStart \/ ParseEnd \/ ParseEscape \/ ParseAny \/ ParseLiteral
         \/ ParseRepeat \/ ParseRefuse \/ ParseDone

MatchNext ==
  \/ Parse \/ SearchFound \/ SearchOn \/ SearchFailed
  \/ BeginRow \/ FillCell \/ EndRow \/ LastRow

MatchSpec == MatchInit /\ [][MatchNext]_matchVars

-----------------------------------------------------------------------------
(* Properties. *)

\* How far the n-th character of pattern p brings a match in text s: * takes any
\* sequence of characters, another character itself.
GlobStep(p, s, n, i, j) ==
  IF p[n] = "*" THEN i <= j ELSE j = i + 1 /\ p[n] = s[j]

\* The first n characters of p match the first j characters of s: those can be
\* cut into one piece for each.
GlobReaches(p, s, n, j) ==
  \E cut \in [0..n -> 0..Len(s)] :
    /\ cut[0] = 0 /\ cut[n] = j
    /\ \A k \in 1..n : GlobStep(p, s, k, cut[k - 1], cut[k])

\* policy-language-v1.md: path_pattern matches the whole argument, and * any
\* sequence of characters; the table of path_matches computes that.
PathPatternIsGlob ==
  matchPc = "done" /\ leaf = "path_pattern" =>
    (verdict = "match" <=> GlobReaches(pattern, text, Len(pattern), Len(text)))

\* The backslashes right before position n escape it when their number is odd.
Escaped(n) ==
  \E k \in 1..(n - 1) :
    /\ k % 2 = 1
    /\ \A j \in (n - k)..(n - 1) : pattern[j] = "\\"
    /\ n - k > 1 => pattern[n - k - 1] # "\\"

Bare(n, char) == pattern[n] = char /\ ~Escaped(n)

\* The pattern characters that stand for a character of the text.
Atom(n) == Escaped(n) \/ pattern[n] \notin {"\\", "^", "$", "*"}

Atoms == {n \in DOMAIN pattern : Atom(n)}

\* policy-language-v1.md: literals, ., * after a literal or ., anchors at the
\* ends, escapes of five characters, and nothing else.
WellFormed ==
  \A n \in DOMAIN pattern :
    /\ Escaped(n) => pattern[n] \in Escapable
    /\ Bare(n, "\\") => n < Len(pattern)
    /\ Bare(n, "^") => n = 1
    /\ Bare(n, "$") => n = Len(pattern)
    /\ Bare(n, "*") => n > 1 /\ Atom(n - 1)
    /\ ~Escaped(n) => pattern[n] \notin Unsupported

\* Both parsers refuse exactly the patterns outside the language: nothing in it
\* is lost and nothing outside it ever decides about a call.
OnlyWellFormedAccepted ==
  matchPc = "done" /\ leaf = "args_match" => (verdict = "invalid" <=> ~WellFormed)

\* An atom takes one character it fits, and with a star any number of them.
AtomStep(n, i, j) ==
  LET fits(k) == Bare(n, ".") \/ pattern[n] = text[k] IN
  IF n < Len(pattern) /\ pattern[n + 1] = "*"
    THEN i <= j /\ \A k \in (i + 1)..j : fits(k)
    ELSE j = i + 1 /\ fits(j)

\* The text has a piece, at its start or end where anchored, that the pattern spells.
Found ==
  \E cut \in [0..Len(pattern) -> Positions] :
    /\ \A n \in DOMAIN pattern :
         IF n \in Atoms THEN AtomStep(n, cut[n - 1], cut[n]) ELSE cut[n] = cut[n - 1]
    /\ pattern # <<>> /\ Bare(1, "^") => cut[0] = 0
    /\ pattern # <<>> /\ Bare(Len(pattern), "$") => cut[Len(pattern)] = Len(text)

\* policy-language-v1.md: args_match finds what its pattern spells, in both
\* runtimes, whatever the anchors, the escapes and the repetitions.
ArgsMatchIsSearch ==
  matchPc = "done" /\ verdict # "invalid" /\ leaf = "args_match" =>
    (verdict = "match" <=> Found)
=============================================================================
