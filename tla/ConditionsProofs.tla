-------------------------- MODULE ConditionsProofs --------------------------
(***************************************************************************)
(* What the two pattern languages of conditions mean, for every pattern and*)
(* every text.  path_pattern: a cut of the argument into one piece for each*)
(* pattern character is the meaning; the lemmas say how a cut for n + 1    *)
(* characters comes from one for n, which is what a row of the table is    *)
(* computed from, and TableInv says what each filled cell holds.           *)
(* args_match: ReadTo says that the tokens read so far lead through the text*)
(* where the pattern characters they were read from do, and that those     *)
(* characters belong to the language.  Each step of the parser extends that by*)
(* a character, an escaped pair or a star; when all is read, what the tokens*)
(* spell is what the pattern is meant to find.  The two matchers compute what*)
(* the tokens spell, by induction on the least token and position where they*)
(* would not.  ArgsInv puts the two together with the positions tried.     *)
(***************************************************************************)
EXTENDS Conditions, WellFoundedInduction, TLAPS

-----------------------------------------------------------------------------
(* How cuts grow. *)

\* The empty pattern matches the empty prefix and no other.
LEMMA ReachesNothing ==
  ASSUME NEW p, NEW s, Len(s) \in Nat, NEW j \in 0..Len(s)
  PROVE  GlobReaches(p, s, 0, j) <=> j = 0
<1>1. ASSUME GlobReaches(p, s, 0, j) PROVE j = 0
  BY <1>1 DEF GlobReaches
<1>2. ASSUME j = 0 PROVE GlobReaches(p, s, 0, j)
  <2> DEFINE cut == [k \in 0..0 |-> 0]
  <2>1. cut \in [0..0 -> 0..Len(s)] /\ cut[0] = 0
    OBVIOUS
  <2>2. \A k \in 1..0 : GlobStep(p, s, k, cut[k - 1], cut[k])
    OBVIOUS
  <2> QED
    BY <1>2, <2>1, <2>2 DEF GlobReaches
<1> QED
  BY <1>1, <1>2

\* A cut for n + 1 characters is a cut for n and one more piece.
LEMMA ReachesNext ==
  ASSUME NEW p, NEW s, Len(s) \in Nat, NEW n \in Nat, NEW j \in 0..Len(s)
  PROVE  GlobReaches(p, s, n + 1, j) <=>
           \E i \in 0..Len(s) : GlobReaches(p, s, n, i) /\ GlobStep(p, s, n + 1, i, j)
<1>1. ASSUME GlobReaches(p, s, n + 1, j)
      PROVE  \E i \in 0..Len(s) : GlobReaches(p, s, n, i) /\ GlobStep(p, s, n + 1, i, j)
  <2>1. PICK cut \in [0..(n + 1) -> 0..Len(s)] :
               /\ cut[0] = 0 /\ cut[n + 1] = j
               /\ \A k \in 1..(n + 1) : GlobStep(p, s, k, cut[k - 1], cut[k])
    BY <1>1 DEF GlobReaches
  <2> DEFINE short == [k \in 0..n |-> cut[k]]
  <2>2. short \in [0..n -> 0..Len(s)] /\ short[0] = 0 /\ short[n] = cut[n]
    BY <2>1
  <2>3. \A k \in 1..n : GlobStep(p, s, k, short[k - 1], short[k])
    <3> TAKE k \in 1..n
    <3>1. k \in 1..(n + 1) /\ short[k - 1] = cut[k - 1] /\ short[k] = cut[k]
      OBVIOUS
    <3> QED
      BY <2>1, <3>1
  <2>4. GlobReaches(p, s, n, cut[n])
    BY <2>2, <2>3 DEF GlobReaches
  <2>5. cut[n] \in 0..Len(s) /\ GlobStep(p, s, n + 1, cut[n], j)
    <3>1. n + 1 \in 1..(n + 1) /\ (n + 1) - 1 = n /\ n \in 0..(n + 1)
      OBVIOUS
    <3> QED
      BY <2>1, <3>1
  <2> QED
    BY <2>4, <2>5
<1>2. ASSUME NEW i \in 0..Len(s), GlobReaches(p, s, n, i), GlobStep(p, s, n + 1, i, j)
      PROVE  GlobReaches(p, s, n + 1, j)
  <2>1. PICK cut \in [0..n -> 0..Len(s)] :
               /\ cut[0] = 0 /\ cut[n] = i
               /\ \A k \in 1..n : GlobStep(p, s, k, cut[k - 1], cut[k])
    BY <1>2 DEF GlobReaches
  <2> DEFINE long == [k \in 0..(n + 1) |-> IF k = n + 1 THEN j ELSE cut[k]]
  <2>2. long \in [0..(n + 1) -> 0..Len(s)] /\ long[0] = 0 /\ long[n + 1] = j
    BY <2>1
  <2>3. \A k \in 1..(n + 1) : GlobStep(p, s, k, long[k - 1], long[k])
    <3> TAKE k \in 1..(n + 1)
    <3>1. CASE k = n + 1
      <4>1. long[k - 1] = i /\ long[k] = j
        BY <2>1, <3>1
      <4> QED
        BY <1>2, <3>1, <4>1
    <3>2. CASE k # n + 1
      <4>1. k \in 1..n /\ long[k - 1] = cut[k - 1] /\ long[k] = cut[k]
        BY <3>2
      <4> QED
        BY <2>1, <4>1
    <3> QED
      BY <3>1, <3>2
  <2> QED
    BY <2>2, <2>3 DEF GlobReaches
<1> QED
  BY <1>1, <1>2

\* A star: the cell above or the cell to the left.
LEMMA ReachesOverStar ==
  ASSUME NEW p, NEW s, Len(s) \in Nat, NEW n \in Nat, p[n + 1] = "*"
  PROVE  /\ GlobReaches(p, s, n + 1, 0) <=> GlobReaches(p, s, n, 0)
         /\ \A j \in 1..Len(s) : GlobReaches(p, s, n + 1, j) <=>
              GlobReaches(p, s, n, j) \/ GlobReaches(p, s, n + 1, j - 1)
<1>1. \A j \in 0..Len(s) : GlobReaches(p, s, n + 1, j) <=>
        \E i \in 0..Len(s) : GlobReaches(p, s, n, i) /\ i <= j
  BY ReachesNext DEF GlobStep
<1> HIDE DEF GlobReaches
<1>2. GlobReaches(p, s, n + 1, 0) <=> GlobReaches(p, s, n, 0)
  <2>1. 0 \in 0..Len(s) /\ \A i \in 0..Len(s) : i <= 0 => i = 0
    OBVIOUS
  <2> QED
    BY <1>1, <2>1
<1>3. ASSUME NEW j \in 1..Len(s)
      PROVE  GlobReaches(p, s, n + 1, j) <=>
               GlobReaches(p, s, n, j) \/ GlobReaches(p, s, n + 1, j - 1)
  <2>1. j \in 0..Len(s) /\ j - 1 \in 0..Len(s)
    OBVIOUS
  <2>2. \A i \in 0..Len(s) : i <= j <=> i = j \/ i <= j - 1
    OBVIOUS
  <2> QED
    BY <1>1, <2>1, <2>2
<1> QED
  BY <1>2, <1>3

\* Any other character: the cell above to the left, when the characters agree.
LEMMA ReachesOverCharacter ==
  ASSUME NEW p, NEW s, Len(s) \in Nat, NEW n \in Nat, p[n + 1] # "*"
  PROVE  /\ ~GlobReaches(p, s, n + 1, 0)
         /\ \A j \in 1..Len(s) : GlobReaches(p, s, n + 1, j) <=>
              GlobReaches(p, s, n, j - 1) /\ p[n + 1] = s[j]
<1>1. \A j \in 0..Len(s) : GlobReaches(p, s, n + 1, j) <=>
        \E i \in 0..Len(s) : GlobReaches(p, s, n, i) /\ j = i + 1 /\ p[n + 1] = s[j]
  <2> TAKE j \in 0..Len(s)
  <2>1. \A i \in 0..Len(s) : GlobStep(p, s, n + 1, i, j) <=> j = i + 1 /\ p[n + 1] = s[j]
    BY Zenon DEF GlobStep
  <2> QED
    BY <2>1, ReachesNext, Zenon
<1>2. ~GlobReaches(p, s, n + 1, 0)
  <2>1. 0 \in 0..Len(s) /\ \A i \in 0..Len(s) : 0 # i + 1
    OBVIOUS
  <2> QED
    BY <1>1, <2>1
<1>3. ASSUME NEW j \in 1..Len(s)
      PROVE  GlobReaches(p, s, n + 1, j) <=> GlobReaches(p, s, n, j - 1) /\ p[n + 1] = s[j]
  <2>1. j \in 0..Len(s) /\ j - 1 \in 0..Len(s)
    OBVIOUS
  <2>2. \A i \in 0..Len(s) : j = i + 1 <=> i = j - 1
    OBVIOUS
  <2> QED
    BY <1>1, <2>1, <2>2
<1> QED
  BY <1>2, <1>3

-----------------------------------------------------------------------------
(* The invariant of the two loops. *)

\* What the rows hold of path_pattern: the row before is complete, the current
\* one as far as it is filled.
RowsHold ==
  /\ matchPc \in {"row", "cell"} => \A j \in Positions :
       previous[j] <=> GlobReaches(pattern, text, at - 1, j)
  /\ matchPc = "cell" => \A j \in Positions :
       j < col => (current[j] <=> GlobReaches(pattern, text, at, j))
  /\ matchPc = "done" => (verdict = "match" <=> GlobReaches(pattern, text, Len(pattern), Len(text)))

Typing ==
  /\ pattern \in Seq(Symbols) /\ text \in Seq(Letters)
  /\ previous \in [Positions -> BOOLEAN] /\ current \in [Positions -> BOOLEAN]
  /\ at \in 1..(Len(pattern) + 1)
  /\ matchPc \in {"row", "cell", "done"}
  /\ matchPc = "cell" => at \in 1..Len(pattern) /\ col \in 1..(Len(text) + 1)

TableInv == leaf = "path_pattern" => Typing /\ RowsHold

\* The empty pattern's row is the first one.
LEMMA TableInvInit == MatchInit => TableInv
<1> SUFFICES ASSUME MatchInit, leaf = "path_pattern" PROVE Typing /\ RowsHold
  BY DEF TableInv
<1>1. pattern \in Seq(Symbols) /\ text \in Seq(Letters)
  <2>1. PICK k \in 0..MaxPattern : pattern \in [1..k -> Symbols]
    BY DEF MatchInit, Words
  <2>2. PICK m \in 0..MaxText : text \in [1..m -> Letters]
    BY DEF MatchInit, Words
  <2>3. \A S, n : n \in Nat => \A q \in [1..n -> S] : q \in Seq(S)
    OBVIOUS
  <2> QED
    BY <2>1, <2>2, <2>3, PatternBoundsAssumption
<1>2. Len(pattern) \in Nat /\ Len(text) \in Nat
  BY <1>1
<1>3. Typing
  BY <1>1, <1>2 DEF MatchInit, Typing, Positions
<1>4. \A j \in Positions : previous[j] <=> GlobReaches(pattern, text, at - 1, j)
  <2> TAKE j \in Positions
  <2>1. previous[j] <=> j = 0
    BY DEF MatchInit
  <2>2. GlobReaches(pattern, text, 0, j) <=> j = 0
    BY <1>2, ReachesNothing DEF Positions
  <2>3. at - 1 = 0
    BY DEF MatchInit
  <2> QED
    BY <2>1, <2>2, <2>3
<1>5. matchPc = "row"
  BY DEF MatchInit
<1> QED
  BY <1>3, <1>4, <1>5 DEF RowsHold

\* A cell is filled with what the lemmas say of it.
LEMMA TableInvNext == TableInv /\ [MatchNext]_matchVars => TableInv'
<1> SUFFICES ASSUME TableInv, [MatchNext]_matchVars, leaf' = "path_pattern"
             PROVE  Typing' /\ RowsHold'
  BY DEF TableInv
<1>1. leaf = "path_pattern" /\ UNCHANGED inputs
  BY DEF MatchNext, matchVars, inputs, Parse, ParseStart, ParseEnd, ParseEscape, ParseAny, ParseLiteral,
         ParseRepeat, ParseRefuse, ParseDone, AddToken, Answer, SearchFound, SearchOn,
         SearchFailed, BeginRow, FillCell, EndRow, LastRow
<1>2. Typing /\ RowsHold
  BY <1>1 DEF TableInv
<1>3. Len(pattern) \in Nat /\ Len(text) \in Nat
  BY <1>2 DEF Typing
<1>4. pattern' = pattern /\ text' = text /\ Positions' = Positions
  BY <1>1 DEF inputs, Positions
<1>5. CASE UNCHANGED matchVars
  BY <1>2, <1>4, <1>5 DEF matchVars, table, Typing, RowsHold
<1>6. CASE Parse \/ SearchFound \/ SearchOn \/ SearchFailed
  BY <1>2, <1>6 DEF Typing, Parse, ParseStart, ParseEnd, ParseEscape, ParseAny, ParseLiteral,
         ParseRepeat, ParseRefuse, ParseDone, Misplaced, Reading, SearchFound, SearchOn, SearchFailed
<1>7. CASE BeginRow
  <2>1. Typing'
    BY <1>2, <1>3, <1>4, <1>7 DEF BeginRow, Typing, Positions
  <2>2. at \in Nat /\ at - 1 \in Nat /\ (at - 1) + 1 = at /\ at' = at /\ previous' = previous
    BY <1>2, <1>3, <1>7 DEF BeginRow, Typing
  <2>3. 0 \in Positions /\ (current'[0] <=> GlobReaches(pattern, text, at, 0))
    <3>1. 0 \in Positions
      BY <1>3 DEF Positions
    <3>2. current'[0] <=> pattern[at] = "*" /\ previous[0]
      BY <1>7, <3>1 DEF BeginRow
    <3>3. previous[0] <=> GlobReaches(pattern, text, at - 1, 0)
      BY <1>2, <1>7, <3>1 DEF RowsHold, BeginRow
    <3>4. CASE pattern[at] = "*"
      <4>1. GlobReaches(pattern, text, at, 0) <=> GlobReaches(pattern, text, at - 1, 0)
        BY <1>3, <2>2, <3>4, ReachesOverStar
      <4> QED
        BY <3>1, <3>2, <3>3, <3>4, <4>1, Zenon
    <3>5. CASE pattern[at] # "*"
      <4>1. ~GlobReaches(pattern, text, at, 0)
        BY <1>3, <2>2, <3>5, ReachesOverCharacter
      <4> QED
        BY <3>1, <3>2, <3>5, <4>1, Zenon
    <3> QED
      BY <3>1, <3>4, <3>5
  <2>4. \A j \in Positions : j < col' => j = 0
    BY <1>3, <1>7 DEF BeginRow, Positions
  <2>5. matchPc = "row" /\ matchPc' = "cell"
    BY <1>7 DEF BeginRow
  <2>6. RowsHold'
    BY <1>2, <1>4, <2>2, <2>3, <2>4, <2>5 DEF RowsHold
  <2> QED
    BY <2>1, <2>6
<1>8. CASE FillCell
  <2>1. /\ col \in 1..Len(text) /\ col \in Positions /\ col - 1 \in Positions
        /\ at \in 1..Len(pattern) /\ at - 1 \in Nat /\ (at - 1) + 1 = at
    BY <1>2, <1>3, <1>8 DEF FillCell, Typing, Positions
  <2>2. /\ matchPc = "cell" /\ matchPc' = "cell" /\ at' = at /\ previous' = previous /\ col' = col + 1
        /\ \A j \in Positions : j # col => current'[j] = current[j]
        /\ current'[col] = IF pattern[at] = "*" THEN previous[col] \/ current[col - 1]
                           ELSE previous[col - 1] /\ pattern[at] = text[col]
    BY <1>2, <1>8, <2>1 DEF FillCell, Typing
  <2>3. current' \in [Positions -> BOOLEAN]
    <3>1. (IF pattern[at] = "*" THEN previous[col] \/ current[col - 1]
           ELSE previous[col - 1] /\ pattern[at] = text[col]) \in BOOLEAN
      OBVIOUS
    <3> QED
      BY <1>2, <1>8, <3>1 DEF FillCell, Typing
  <2>4. Typing'
    BY <1>2, <1>3, <1>4, <2>1, <2>2, <2>3 DEF Typing
  <2>5. /\ previous[col] <=> GlobReaches(pattern, text, at - 1, col)
        /\ previous[col - 1] <=> GlobReaches(pattern, text, at - 1, col - 1)
        /\ current[col - 1] <=> GlobReaches(pattern, text, at, col - 1)
    <3>1. col - 1 < col
      BY <2>1
    <3> QED
      BY <1>2, <2>1, <2>2, <3>1 DEF RowsHold
  <2>6. current'[col] <=> GlobReaches(pattern, text, at, col)
    <3>1. CASE pattern[at] = "*"
      <4>1. GlobReaches(pattern, text, at, col) <=>
              GlobReaches(pattern, text, at - 1, col) \/ GlobReaches(pattern, text, at, col - 1)
        BY <1>3, <2>1, <3>1, ReachesOverStar
      <4> QED
        BY <2>2, <2>5, <3>1, <4>1
    <3>2. CASE pattern[at] # "*"
      <4>1. GlobReaches(pattern, text, at, col) <=>
              GlobReaches(pattern, text, at - 1, col - 1) /\ pattern[at] = text[col]
        BY <1>3, <2>1, <3>2, ReachesOverCharacter
      <4> QED
        BY <2>2, <2>5, <3>2, <4>1
    <3> QED
      BY <3>1, <3>2
  <2>7. \A j \in Positions : j < col' => (current'[j] <=> GlobReaches(pattern, text, at, j))
    <3> TAKE j \in Positions
    <3>1. j < col' => j = col \/ j < col
      BY <1>3, <2>1, <2>2 DEF Positions
    <3>2. j < col => j # col
      BY <1>3, <2>1 DEF Positions
    <3> QED
      BY <1>2, <2>2, <2>6, <3>1, <3>2 DEF RowsHold
  <2>8. RowsHold'
    BY <1>2, <1>4, <2>2, <2>7 DEF RowsHold
  <2> QED
    BY <2>4, <2>8
<1>9. CASE EndRow
  <2>1. /\ matchPc = "cell" /\ matchPc' = "row" /\ previous' = current /\ current' = current
        /\ at' = at + 1 /\ at' - 1 = at /\ at \in 1..Len(pattern) /\ col = Len(text) + 1
    BY <1>2, <1>3, <1>9 DEF EndRow, Typing
  <2>2. Typing'
    BY <1>2, <1>3, <1>4, <2>1 DEF Typing
  <2>3. \A j \in Positions : j < col
    BY <1>3, <2>1 DEF Positions
  <2>4. RowsHold'
    BY <1>2, <1>4, <2>1, <2>3 DEF RowsHold
  <2> QED
    BY <2>2, <2>4
<1>10. CASE LastRow
  <2>1. /\ matchPc = "row" /\ matchPc' = "done" /\ at - 1 = Len(pattern)
        /\ (verdict' = "match" <=> previous[Len(text)])
    <3>1. matchPc = "row" /\ at > Len(pattern) /\ matchPc' = "done"
      BY <1>10 DEF LastRow, Answer
    <3>2. verdict' = IF previous[Len(text)] THEN "match" ELSE "no match"
      BY <1>10 DEF LastRow, Answer
    <3>3. at - 1 = Len(pattern)
      BY <1>2, <1>3, <3>1 DEF Typing
    <3> QED
      BY <3>1, <3>2, <3>3
  <2>2. Typing'
    BY <1>2, <1>4, <1>10 DEF LastRow, Answer, Typing, table
  <2>3. Len(text) \in Positions
    BY <1>3 DEF Positions
  <2>4. RowsHold'
    BY <1>2, <1>4, <2>1, <2>3 DEF RowsHold
  <2> QED
    BY <2>2, <2>4
<1> QED
  BY <1>5, <1>6, <1>7, <1>8, <1>9, <1>10 DEF MatchNext

\* For every pattern and every argument, path_matches answers whether the pattern,
\* with * for any sequence of characters, matches the whole argument.
THEOREM PathTableIsCorrect == MatchSpec => []PathPatternIsGlob
<1>1. TableInv => PathPatternIsGlob
  BY DEF TableInv, RowsHold, PathPatternIsGlob
<1> QED
  BY TableInvInit, TableInvNext, <1>1, PTL DEF MatchSpec

-----------------------------------------------------------------------------
(* Escapes: a position is escaped when the backslash before it is not.     *)

LEMMA LeastNat ==
  ASSUME NEW T, T \subseteq Nat, T # {}
  PROVE  \E x \in T : \A y \in T : x <= y
<1> DEFINE less == {ss \in Nat \X Nat : ss[1] < ss[2]}
<1>1. less = OpToRel(<, Nat)
  BY Zenon DEF OpToRel
<1>2. IsWellFoundedOn(less, Nat)
  BY <1>1, NatLessThanWellFounded, Zenon
<1>3. \A x, y \in Nat : <<y, x>> \notin less => x <= y
  OBVIOUS
<1> HIDE DEF less
<1>4. PICK x \in T : \A y \in T : ~ (<<y, x>> \in less)
  BY <1>2, WFMin
<1>5. \A y \in T : x <= y
  BY <1>3, <1>4
<1> QED
  BY <1>5

\* The backslashes before position n begin at position m.
RunBegins(n, m) ==
  /\ m \in 1..n
  /\ \A j \in m..(n - 1) : pattern[j] = "\\"
  /\ m > 1 => pattern[m - 1] # "\\"

LEMMA RunExists ==
  ASSUME NEW n \in Nat \ {0}
  PROVE  \E m \in 1..n : RunBegins(n, m)
<1> DEFINE T == {m \in 1..n : \A j \in m..(n - 1) : pattern[j] = "\\"}
<1>1. n \in T /\ T \subseteq Nat
  OBVIOUS
<1>2. PICK m \in T : \A y \in T : m <= y
  BY <1>1, LeastNat
<1>3. ASSUME m > 1, pattern[m - 1] = "\\" PROVE FALSE
  <2>1. m - 1 \in 1..n /\ ~(m <= m - 1)
    BY <1>3
  <2>2. \A j \in (m - 1)..(n - 1) : j = m - 1 \/ j \in m..(n - 1)
    OBVIOUS
  <2>3. m - 1 \in T
    BY <2>1, <2>2, <1>3
  <2> QED
    BY <2>1, <2>3, <1>2
<1> QED
  BY <1>3 DEF RunBegins

LEMMA RunIsOne ==
  ASSUME NEW n \in Nat \ {0}, NEW m, NEW l, RunBegins(n, m), RunBegins(n, l)
  PROVE  m = l
<1>1. \A x, y \in 1..n : RunBegins(n, x) /\ RunBegins(n, y) => ~(x < y)
  <2> SUFFICES ASSUME NEW x \in 1..n, NEW y \in 1..n, RunBegins(n, x), RunBegins(n, y), x < y
               PROVE  FALSE
    OBVIOUS
  <2>1. y > 1 /\ y - 1 \in x..(n - 1)
    OBVIOUS
  <2> QED
    BY <2>1 DEF RunBegins
<1>2. m \in 1..n /\ l \in 1..n
  BY DEF RunBegins
<1> QED
  BY <1>1, <1>2

LEMMA EscapedByRun ==
  ASSUME NEW n \in Nat \ {0}, NEW m \in 1..n, RunBegins(n, m)
  PROVE  Escaped(n) <=> (n - m) % 2 = 1
<1>1. ASSUME Escaped(n) PROVE (n - m) % 2 = 1
  <2>1. PICK k \in 1..(n - 1) : /\ k % 2 = 1
                                /\ \A j \in (n - k)..(n - 1) : pattern[j] = "\\"
                                /\ n - k > 1 => pattern[n - k - 1] # "\\"
    BY <1>1 DEF Escaped
  <2>2. RunBegins(n, n - k)
    BY <2>1 DEF RunBegins
  <2>3. m = n - k
    BY <2>2, RunIsOne
  <2>4. n - m = k
    BY <2>3
  <2> QED
    BY <2>1, <2>4
<1>2. ASSUME (n - m) % 2 = 1 PROVE Escaped(n)
  <2> DEFINE k == n - m
  <2>1. k \in Nat /\ k % 2 = 1 /\ n - k = m /\ n - k - 1 = m - 1
    BY <1>2
  <2>2. k # 0
    BY <2>1
  <2>3. k \in 1..(n - 1)
    BY <2>1, <2>2
  <2> HIDE DEF k
  <2> QED
    BY <2>1, <2>3 DEF Escaped, RunBegins
<1> QED
  BY <1>1, <1>2

LEMMA FirstNotEscaped == ~Escaped(1)
  BY DEF Escaped

LEMMA EscapedNext ==
  ASSUME NEW n \in Nat \ {0}
  PROVE  Escaped(n + 1) <=> pattern[n] = "\\" /\ ~Escaped(n)
<1>1. CASE pattern[n] = "\\"
  <2>1. PICK m \in 1..n : RunBegins(n, m)
    BY RunExists
  <2>2. \A j \in m..((n + 1) - 1) : j = n \/ j \in m..(n - 1)
    OBVIOUS
  <2>3. RunBegins(n + 1, m)
    BY <2>1, <2>2, <1>1 DEF RunBegins
  <2>4. /\ Escaped(n) <=> (n - m) % 2 = 1
        /\ Escaped(n + 1) <=> ((n + 1) - m) % 2 = 1
    BY <2>1, <2>3, EscapedByRun
  <2>5. n - m \in Nat /\ (n + 1) - m = (n - m) + 1
    OBVIOUS
  <2>6. \A k \in Nat : (k + 1) % 2 = 1 <=> ~(k % 2 = 1)
    OBVIOUS
  <2> QED
    BY <2>4, <2>5, <2>6, <1>1
<1>2. CASE pattern[n] # "\\"
  <2>1. RunBegins(n + 1, n + 1)
    BY <1>2 DEF RunBegins
  <2>2. Escaped(n + 1) <=> ((n + 1) - (n + 1)) % 2 = 1
    BY <2>1, EscapedByRun
  <2> QED
    BY <2>2, <1>2
<1> QED
  BY <1>1, <1>2

-----------------------------------------------------------------------------
(* Paths through positions: how they begin, go on and end.                 *)

\* Steps from a to b, each of R, that lead from position i to position j.
Path(R, S, a, b, i, j) ==
  \E cut \in [a..b -> S] :
    /\ cut[a] = i /\ cut[b] = j
    /\ \A k \in (a + 1)..b : <<k, cut[k - 1], cut[k]>> \in R

LEMMA PathNone ==
  ASSUME NEW R, NEW S, NEW a \in Int, NEW i \in S, NEW j \in S
  PROVE  Path(R, S, a, a, i, j) <=> i = j
<1>1. ASSUME Path(R, S, a, a, i, j) PROVE i = j
  BY <1>1 DEF Path
<1>2. ASSUME i = j PROVE Path(R, S, a, a, i, j)
  <2> DEFINE cut == [k \in a..a |-> i]
  <2>1. cut \in [a..a -> S] /\ cut[a] = i /\ cut[a] = j
    BY <1>2
  <2>2. \A k \in (a + 1)..a : FALSE
    OBVIOUS
  <2> HIDE DEF cut
  <2> QED
    BY <2>1, <2>2 DEF Path
<1> QED
  BY <1>1, <1>2

LEMMA PathRight ==
  ASSUME NEW R, NEW S, NEW a \in Int, NEW b \in Int, a <= b, NEW i \in S, NEW j \in S
  PROVE  Path(R, S, a, b + 1, i, j) <=>
           \E l \in S : Path(R, S, a, b, i, l) /\ <<b + 1, l, j>> \in R
<1>1. ASSUME Path(R, S, a, b + 1, i, j)
      PROVE  \E l \in S : Path(R, S, a, b, i, l) /\ <<b + 1, l, j>> \in R
  <2>1. PICK cut \in [a..(b + 1) -> S] :
               /\ cut[a] = i /\ cut[b + 1] = j
               /\ \A k \in (a + 1)..(b + 1) : <<k, cut[k - 1], cut[k]>> \in R
    BY <1>1 DEF Path
  <2> DEFINE short == [k \in a..b |-> cut[k]]
  <2>2. short \in [a..b -> S] /\ short[a] = i /\ short[b] = cut[b]
    BY <2>1
  <2>3. ASSUME NEW k \in (a + 1)..b PROVE <<k, short[k - 1], short[k]>> \in R
    <3>1. k \in (a + 1)..(b + 1) /\ short[k - 1] = cut[k - 1] /\ short[k] = cut[k]
      OBVIOUS
    <3> QED
      BY <2>1, <3>1
  <2> HIDE DEF short
  <2>4. Path(R, S, a, b, i, cut[b])
    BY <2>2, <2>3 DEF Path
  <2>5. cut[b] \in S /\ <<b + 1, cut[b], j>> \in R
    <3>1. b + 1 \in (a + 1)..(b + 1) /\ (b + 1) - 1 = b /\ b \in a..(b + 1)
      OBVIOUS
    <3> QED
      BY <2>1, <3>1
  <2> QED
    BY <2>4, <2>5
<1>2. ASSUME NEW l \in S, Path(R, S, a, b, i, l), <<b + 1, l, j>> \in R
      PROVE  Path(R, S, a, b + 1, i, j)
  <2>1. PICK cut \in [a..b -> S] :
               /\ cut[a] = i /\ cut[b] = l
               /\ \A k \in (a + 1)..b : <<k, cut[k - 1], cut[k]>> \in R
    BY <1>2 DEF Path
  <2> DEFINE long == [k \in a..(b + 1) |-> IF k = b + 1 THEN j ELSE cut[k]]
  <2>2. long \in [a..(b + 1) -> S] /\ long[a] = i /\ long[b + 1] = j
    BY <2>1
  <2>3. ASSUME NEW k \in (a + 1)..(b + 1) PROVE <<k, long[k - 1], long[k]>> \in R
    <3>1. CASE k = b + 1
      <4>1. long[k - 1] = l /\ long[k] = j
        BY <2>1, <3>1
      <4> QED
        BY <1>2, <3>1, <4>1
    <3>2. CASE k # b + 1
      <4>1. k \in (a + 1)..b /\ long[k - 1] = cut[k - 1] /\ long[k] = cut[k]
        BY <3>2
      <4> QED
        BY <2>1, <4>1
    <3> QED
      BY <3>1, <3>2
  <2> HIDE DEF long
  <2> QED
    BY <2>2, <2>3 DEF Path
<1> QED
  BY <1>1, <1>2

LEMMA PathLeft ==
  ASSUME NEW R, NEW S, NEW a \in Int, NEW b \in Int, a <= b, NEW i \in S, NEW j \in S
  PROVE  Path(R, S, a - 1, b, i, j) <=>
           \E l \in S : <<a, i, l>> \in R /\ Path(R, S, a, b, l, j)
<1>1. ASSUME Path(R, S, a - 1, b, i, j)
      PROVE  \E l \in S : <<a, i, l>> \in R /\ Path(R, S, a, b, l, j)
  <2>1. PICK cut \in [(a - 1)..b -> S] :
               /\ cut[a - 1] = i /\ cut[b] = j
               /\ \A k \in ((a - 1) + 1)..b : <<k, cut[k - 1], cut[k]>> \in R
    BY <1>1 DEF Path
  <2> DEFINE short == [k \in a..b |-> cut[k]]
  <2>2. short \in [a..b -> S] /\ short[a] = cut[a] /\ short[b] = j
    BY <2>1
  <2>3. ASSUME NEW k \in (a + 1)..b PROVE <<k, short[k - 1], short[k]>> \in R
    <3>1. k \in ((a - 1) + 1)..b /\ short[k - 1] = cut[k - 1] /\ short[k] = cut[k]
      OBVIOUS
    <3> QED
      BY <2>1, <3>1
  <2> HIDE DEF short
  <2>4. Path(R, S, a, b, cut[a], j)
    BY <2>2, <2>3 DEF Path
  <2>5. cut[a] \in S /\ <<a, i, cut[a]>> \in R
    <3>1. a \in ((a - 1) + 1)..b /\ a \in (a - 1)..b
      OBVIOUS
    <3> QED
      BY <2>1, <3>1
  <2> QED
    BY <2>4, <2>5
<1>2. ASSUME NEW l \in S, <<a, i, l>> \in R, Path(R, S, a, b, l, j)
      PROVE  Path(R, S, a - 1, b, i, j)
  <2>1. PICK cut \in [a..b -> S] :
               /\ cut[a] = l /\ cut[b] = j
               /\ \A k \in (a + 1)..b : <<k, cut[k - 1], cut[k]>> \in R
    BY <1>2 DEF Path
  <2> DEFINE long == [k \in (a - 1)..b |-> IF k = a - 1 THEN i ELSE cut[k]]
  <2>2. long \in [(a - 1)..b -> S] /\ long[a - 1] = i /\ long[b] = j
    BY <2>1
  <2>3. ASSUME NEW k \in ((a - 1) + 1)..b PROVE <<k, long[k - 1], long[k]>> \in R
    <3>1. CASE k = a
      <4>1. long[k - 1] = i /\ long[k] = l
        BY <2>1, <3>1
      <4> QED
        BY <1>2, <3>1, <4>1
    <3>2. CASE k # a
      <4>1. k \in (a + 1)..b /\ long[k - 1] = cut[k - 1] /\ long[k] = cut[k]
        BY <3>2
      <4> QED
        BY <2>1, <4>1
    <3> QED
      BY <3>1, <3>2
  <2> HIDE DEF long
  <2> QED
    BY <2>2, <2>3 DEF Path
<1> QED
  BY <1>1, <1>2

LEMMA PathGrows ==
  ASSUME NEW R, NEW S, NEW b \in Nat
  PROVE  \A i, j \in S : Path(R, S, 0, b + 1, i, j) <=>
           \E l \in S : Path(R, S, 0, b, i, l) /\ <<b + 1, l, j>> \in R
  BY PathRight

\* A path is one of its own steps only.
LEMMA PathSame ==
  ASSUME NEW R, NEW Q, NEW S, NEW a \in Int, NEW b \in Int, a <= b,
         \A k \in (a + 1)..b : \A i, j \in S : <<k, i, j>> \in R <=> <<k, i, j>> \in Q
  PROVE  \A i, j \in S : Path(R, S, a, b, i, j) <=> Path(Q, S, a, b, i, j)
<1>1. \A cut \in [a..b -> S] : \A k \in (a + 1)..b :
        <<k, cut[k - 1], cut[k]>> \in R <=> <<k, cut[k - 1], cut[k]>> \in Q
  <2> TAKE cut \in [a..b -> S]
  <2> TAKE k \in (a + 1)..b
  <2>1. cut[k - 1] \in S /\ cut[k] \in S
    OBVIOUS
  <2> QED
    BY <2>1
<1> QED
  BY <1>1, Zenon DEF Path

-----------------------------------------------------------------------------
(* What the characters of a pattern spell, and what its tokens do.         *)

Spells(n, k) == Bare(n, ".") \/ pattern[n] = text[k]

\* The steps of Found when only the first m characters of the pattern are read.
PrefixStep(m, n, i, j) ==
  IF ~Atom(n) THEN j = i
  ELSE IF n < m /\ pattern[n + 1] = "*" THEN i <= j /\ \A k \in (i + 1)..j : Spells(n, k)
  ELSE j = i + 1 /\ Spells(n, j)

PrefixSteps(m) == {x \in Nat \X Positions \X Positions : PrefixStep(m, x[1], x[2], x[3])}

TokenStep(s, toks, k, i, j) ==
  IF toks[k].repeated THEN i <= j /\ \A n \in (i + 1)..j : Fits(toks[k], s[n])
  ELSE j = i + 1 /\ Fits(toks[k], s[j])

TokenSteps(s, toks) ==
  {x \in Nat \X (0..Len(s)) \X (0..Len(s)) : TokenStep(s, toks, x[1], x[2], x[3])}

\* n steps of R lead where k steps of Q do.
Alike(R, Q, S, n, k) ==
  \A i, j \in S : Path(R, S, 0, n, i, j) <=> Path(Q, S, 0, k, i, j)

LEMMA PrefixStepIs ==
  ASSUME NEW m, NEW n \in Nat, NEW i \in Positions, NEW j \in Positions
  PROVE  <<n, i, j>> \in PrefixSteps(m) <=> PrefixStep(m, n, i, j)
  BY DEF PrefixSteps

LEMMA TokenStepIs ==
  ASSUME NEW toks, NEW n \in Nat, NEW i \in Positions, NEW j \in Positions
  PROVE  <<n, i, j>> \in TokenSteps(text, toks) <=> TokenStep(text, toks, n, i, j)
  BY DEF TokenSteps, Positions

\* A further character changes no step but that of the atom it may repeat.
LEMMA PrefixAgain ==
  ASSUME NEW m \in Nat, NEW b \in 0..m,
         b = m /\ m > 0 => ~(Atom(m) /\ pattern[m + 1] = "*")
  PROVE  \A i, j \in Positions :
           Path(PrefixSteps(m), Positions, 0, b, i, j)
             <=> Path(PrefixSteps(m + 1), Positions, 0, b, i, j)
<1>1. ASSUME NEW k \in (0 + 1)..b, NEW i \in Positions, NEW j \in Positions
      PROVE  <<k, i, j>> \in PrefixSteps(m) <=> <<k, i, j>> \in PrefixSteps(m + 1)
  <2>1. k \in Nat /\ (k < m \/ (k = b /\ b = m /\ m > 0)) /\ k < m + 1
    OBVIOUS
  <2>2. PrefixStep(m, k, i, j) <=> PrefixStep(m + 1, k, i, j)
    <3>1. CASE k < m
      BY <2>1, <3>1 DEF PrefixStep
    <3>2. CASE k = m /\ ~(Atom(m) /\ pattern[m + 1] = "*")
      BY <2>1, <3>2 DEF PrefixStep
    <3> QED
      BY <2>1, <3>1, <3>2
  <2> QED
    BY <2>1, <2>2, PrefixStepIs
<1> QED
  BY <1>1, PathSame

\* A character that spells nothing.
LEMMA AlikeSkip ==
  ASSUME NEW m \in Nat, NEW Q, NEW k,
         Alike(PrefixSteps(m), Q, Positions, m, k), ~Atom(m + 1),
         m > 0 => ~(Atom(m) /\ pattern[m + 1] = "*")
  PROVE  Alike(PrefixSteps(m + 1), Q, Positions, m + 1, k)
<1> SUFFICES ASSUME NEW i \in Positions, NEW j \in Positions
             PROVE  Path(PrefixSteps(m + 1), Positions, 0, m + 1, i, j)
                      <=> Path(Q, Positions, 0, k, i, j)
  BY DEF Alike
<1>1. Path(PrefixSteps(m + 1), Positions, 0, m + 1, i, j) <=>
        \E l \in Positions : /\ Path(PrefixSteps(m + 1), Positions, 0, m, i, l)
                             /\ <<m + 1, l, j>> \in PrefixSteps(m + 1)
  BY PathGrows
<1>2. \A l \in Positions : <<m + 1, l, j>> \in PrefixSteps(m + 1) <=> j = l
  <2>1. m + 1 \in Nat
    OBVIOUS
  <2> QED
    BY <2>1, PrefixStepIs DEF PrefixStep
<1>3. Path(PrefixSteps(m + 1), Positions, 0, m, i, j) <=>
        Path(PrefixSteps(m), Positions, 0, m, i, j)
  BY PrefixAgain
<1> QED
  BY <1>1, <1>2, <1>3 DEF Alike

\* Tokens do not depend on later ones, nor on what follows the last one read.
LEMMA TokensAgain ==
  ASSUME NEW toks, NEW others, NEW b \in Nat, \A k \in 1..b : toks[k] = others[k]
  PROVE  \A i, j \in Positions :
           Path(TokenSteps(text, toks), Positions, 0, b, i, j)
             <=> Path(TokenSteps(text, others), Positions, 0, b, i, j)
<1>1. ASSUME NEW k \in (0 + 1)..b, NEW i \in Positions, NEW j \in Positions
      PROVE  <<k, i, j>> \in TokenSteps(text, toks) <=> <<k, i, j>> \in TokenSteps(text, others)
  <2>1. k \in Nat /\ toks[k] = others[k]
    OBVIOUS
  <2>2. TokenStep(text, toks, k, i, j) <=> TokenStep(text, others, k, i, j)
    BY <2>1 DEF TokenStep
  <2> QED
    BY <2>1, <2>2, TokenStepIs
<1> QED
  BY <1>1, PathSame

\* A character that spells one character of the text, and the token for it.
LEMMA AlikeToken ==
  ASSUME NEW m \in Nat, NEW toks \in Seq(Token), NEW token,
         Alike(PrefixSteps(m), TokenSteps(text, toks), Positions, m, Len(toks)),
         Atom(m + 1), m > 0 => ~(Atom(m) /\ pattern[m + 1] = "*"),
         ~token.repeated, \A k : Fits(token, text[k]) <=> Spells(m + 1, k)
  PROVE  LET more == Append(toks, token) IN
         /\ Alike(PrefixSteps(m + 1), TokenSteps(text, more), Positions, m, Len(toks))
         /\ Alike(PrefixSteps(m + 1), TokenSteps(text, more), Positions, m + 1, Len(toks) + 1)
<1> DEFINE more == Append(toks, token)
           K == Len(toks)
<1>1. K \in Nat /\ more[K + 1] = token /\ \A k \in 1..K : toks[k] = more[k]
  OBVIOUS
<1> HIDE DEF more, K
<1>2. \A i, j \in Positions :
        Path(PrefixSteps(m + 1), Positions, 0, m, i, j)
          <=> Path(TokenSteps(text, more), Positions, 0, K, i, j)
  <2>1. \A i, j \in Positions :
          Path(TokenSteps(text, toks), Positions, 0, K, i, j)
            <=> Path(TokenSteps(text, more), Positions, 0, K, i, j)
    BY <1>1, TokensAgain
  <2>2. \A i, j \in Positions :
          Path(PrefixSteps(m), Positions, 0, m, i, j)
            <=> Path(PrefixSteps(m + 1), Positions, 0, m, i, j)
    BY PrefixAgain
  <2> QED
    BY <2>1, <2>2 DEF Alike, K
<1>3. ASSUME NEW i \in Positions, NEW j \in Positions
      PROVE  Path(PrefixSteps(m + 1), Positions, 0, m + 1, i, j)
               <=> Path(TokenSteps(text, more), Positions, 0, K + 1, i, j)
  <2>1. Path(PrefixSteps(m + 1), Positions, 0, m + 1, i, j) <=>
          \E l \in Positions : /\ Path(PrefixSteps(m + 1), Positions, 0, m, i, l)
                               /\ <<m + 1, l, j>> \in PrefixSteps(m + 1)
    BY PathGrows
  <2>2. Path(TokenSteps(text, more), Positions, 0, K + 1, i, j) <=>
          \E l \in Positions : /\ Path(TokenSteps(text, more), Positions, 0, K, i, l)
                               /\ <<K + 1, l, j>> \in TokenSteps(text, more)
    BY <1>1, PathGrows
  <2>3. \A l \in Positions :
          <<m + 1, l, j>> \in PrefixSteps(m + 1) <=> j = l + 1 /\ Spells(m + 1, j)
    <3>1. m + 1 \in Nat /\ ~(m + 1 < m + 1)
      OBVIOUS
    <3> QED
      BY <3>1, PrefixStepIs DEF PrefixStep
  <2>4. \A l \in Positions :
          <<K + 1, l, j>> \in TokenSteps(text, more) <=> j = l + 1 /\ Fits(token, text[j])
    BY <1>1, TokenStepIs DEF TokenStep
  <2> QED
    BY <1>2, <2>1, <2>2, <2>3, <2>4
<1> QED
  BY <1>2, <1>3 DEF Alike, more, K

\* A star, and the last token repeated.
LEMMA AlikeRepeat ==
  ASSUME NEW m \in Nat \ {0}, NEW toks \in Seq(Token), toks # <<>>,
         Alike(PrefixSteps(m), TokenSteps(text, toks), Positions, m - 1, Len(toks) - 1),
         Atom(m), ~Atom(m + 1), pattern[m + 1] = "*",
         \A k : Fits(toks[Len(toks)], text[k]) <=> Spells(m, k)
  PROVE  Alike(PrefixSteps(m + 1),
               TokenSteps(text, [toks EXCEPT ![Len(toks)].repeated = TRUE]),
               Positions, m + 1, Len(toks))
<1> DEFINE K == Len(toks)
           star == [toks EXCEPT ![K].repeated = TRUE]
<1>1. /\ K \in Nat /\ K - 1 \in Nat /\ (K - 1) + 1 = K /\ (m - 1) + 1 = m /\ m - 1 \in Nat
      /\ \A k \in 1..(K - 1) : toks[k] = star[k]
      /\ toks[K] \in Token /\ star[K] = [toks[K] EXCEPT !.repeated = TRUE]
  <2>1. K \in Nat \ {0} /\ DOMAIN toks = 1..K
    OBVIOUS
  <2>2. K \in DOMAIN toks /\ toks[K] \in Token
    BY <2>1
  <2> HIDE DEF K
  <2>3. \A k \in 1..(K - 1) : k \in DOMAIN toks /\ k # K
    BY <2>1
  <2>4. \A k \in 1..(K - 1) : toks[k] = star[k]
    BY <2>3
  <2>5. star[K] = [toks[K] EXCEPT !.repeated = TRUE]
    BY <2>2
  <2>6. K - 1 \in Nat /\ (K - 1) + 1 = K /\ (m - 1) + 1 = m /\ m - 1 \in Nat
    BY <2>1
  <2> QED
    BY <2>1, <2>2, <2>4, <2>5, <2>6
<1>2. star[K].repeated /\ \A char : Fits(star[K], char) <=> Fits(toks[K], char)
  BY <1>1 DEF Token, Fits
<1> HIDE DEF star, K
<1>3. \A i, j \in Positions :
        Path(PrefixSteps(m + 1), Positions, 0, m - 1, i, j)
          <=> Path(TokenSteps(text, star), Positions, 0, K - 1, i, j)
  <2>1. \A i, j \in Positions :
          Path(TokenSteps(text, toks), Positions, 0, K - 1, i, j)
            <=> Path(TokenSteps(text, star), Positions, 0, K - 1, i, j)
    BY <1>1, TokensAgain
  <2>2. \A i, j \in Positions :
          Path(PrefixSteps(m), Positions, 0, m - 1, i, j)
            <=> Path(PrefixSteps(m + 1), Positions, 0, m - 1, i, j)
    BY PrefixAgain
  <2> QED
    BY <2>1, <2>2 DEF Alike, K
<1>4. \A i, j \in Positions :
        Path(PrefixSteps(m + 1), Positions, 0, m, i, j)
          <=> Path(TokenSteps(text, star), Positions, 0, K, i, j)
  <2> SUFFICES ASSUME NEW i \in Positions, NEW j \in Positions
               PROVE  Path(PrefixSteps(m + 1), Positions, 0, m, i, j)
                        <=> Path(TokenSteps(text, star), Positions, 0, K, i, j)
    OBVIOUS
  <2>1. Path(PrefixSteps(m + 1), Positions, 0, m, i, j) <=>
          \E l \in Positions : /\ Path(PrefixSteps(m + 1), Positions, 0, m - 1, i, l)
                               /\ <<m, l, j>> \in PrefixSteps(m + 1)
    <3>1. Path(PrefixSteps(m + 1), Positions, 0, (m - 1) + 1, i, j) <=>
            \E l \in Positions : /\ Path(PrefixSteps(m + 1), Positions, 0, m - 1, i, l)
                                 /\ <<(m - 1) + 1, l, j>> \in PrefixSteps(m + 1)
      BY <1>1, PathGrows
    <3> QED
      BY <1>1, <3>1
  <2>2. Path(TokenSteps(text, star), Positions, 0, K, i, j) <=>
          \E l \in Positions : /\ Path(TokenSteps(text, star), Positions, 0, K - 1, i, l)
                               /\ <<K, l, j>> \in TokenSteps(text, star)
    <3>1. Path(TokenSteps(text, star), Positions, 0, (K - 1) + 1, i, j) <=>
            \E l \in Positions : /\ Path(TokenSteps(text, star), Positions, 0, K - 1, i, l)
                                 /\ <<(K - 1) + 1, l, j>> \in TokenSteps(text, star)
      BY <1>1, PathGrows
    <3> QED
      BY <1>1, <3>1
  <2>3. \A l \in Positions :
          <<m, l, j>> \in PrefixSteps(m + 1) <=> l <= j /\ \A n \in (l + 1)..j : Spells(m, n)
    <3>1. m \in Nat /\ m < m + 1
      OBVIOUS
    <3> QED
      BY <3>1, PrefixStepIs DEF PrefixStep
  <2>4. \A l \in Positions :
          <<K, l, j>> \in TokenSteps(text, star)
            <=> l <= j /\ \A n \in (l + 1)..j : Fits(star[K], text[n])
    BY <1>1, <1>2, TokenStepIs DEF TokenStep
  <2>5. \A n : Fits(star[K], text[n]) <=> Spells(m, n)
    BY <1>2 DEF K
  <2> QED
    BY <1>3, <2>1, <2>2, <2>3, <2>4, <2>5
<1>5. ASSUME NEW i \in Positions, NEW j \in Positions
      PROVE  Path(PrefixSteps(m + 1), Positions, 0, m + 1, i, j)
               <=> Path(PrefixSteps(m + 1), Positions, 0, m, i, j)
  <2>1. Path(PrefixSteps(m + 1), Positions, 0, m + 1, i, j) <=>
          \E l \in Positions : /\ Path(PrefixSteps(m + 1), Positions, 0, m, i, l)
                               /\ <<m + 1, l, j>> \in PrefixSteps(m + 1)
    BY PathGrows
  <2>2. \A l \in Positions : <<m + 1, l, j>> \in PrefixSteps(m + 1) <=> j = l
    <3>1. m + 1 \in Nat
      OBVIOUS
    <3> QED
      BY <3>1, PrefixStepIs DEF PrefixStep
  <2> QED
    BY <2>1, <2>2
<1> QED
  BY <1>4, <1>5 DEF Alike, star, K

-----------------------------------------------------------------------------
(* The parser: what it has read, and what the tokens say of it.            *)

\* The n-th character is one the language allows there.
Good(n) ==
  /\ Escaped(n) => pattern[n] \in Escapable
  /\ Bare(n, "\\") => n < Len(pattern)
  /\ Bare(n, "^") => n = 1
  /\ Bare(n, "$") => n = Len(pattern)
  /\ Bare(n, "*") => n > 1 /\ Atom(n - 1)
  /\ ~Escaped(n) => pattern[n] \notin Unsupported

\* The characters before a are read, and toks spells what they do.
ReadTo(a, toks, start, end) ==
  /\ ~Escaped(a) /\ \A n \in 1..(a - 1) : Good(n)
  /\ start <=> a > 1 /\ Bare(1, "^")
  /\ end <=> a > Len(pattern) /\ pattern # <<>> /\ Bare(Len(pattern), "$")
  /\ Alike(PrefixSteps(a - 1), TokenSteps(text, toks), Positions, a - 1, Len(toks))

MayRepeat(toks) == toks # <<>> /\ ~toks[Len(toks)].repeated

\* A star may follow exactly when the last character is an atom: the last token
\* is then that of this atom.
LastToken(a, toks) ==
  a <= Len(pattern) =>
    /\ MayRepeat(toks) <=> a > 1 /\ Atom(a - 1)
    /\ MayRepeat(toks) =>
         /\ \A k : Fits(toks[Len(toks)], text[k]) <=> Spells(a - 1, k)
         /\ Alike(PrefixSteps(a - 1), TokenSteps(text, toks), Positions, a - 2, Len(toks) - 1)

LEMMA BareOnly ==
  ASSUME NEW n, ~Escaped(n)
  PROVE  /\ \A char : Bare(n, char) <=> pattern[n] = char
         /\ Atom(n) <=> pattern[n] \notin {"\\", "^", "$", "*"}
  BY DEF Bare, Atom

\* An anchor, in its place.
LEMMA ReadAnchor ==
  ASSUME pattern \in Seq(Symbols), NEW a \in 1..Len(pattern), NEW toks \in Seq(Token),
         NEW start \in BOOLEAN, NEW end \in BOOLEAN,
         ReadTo(a, toks, start, end), LastToken(a, toks)
  PROVE  /\ pattern[a] = "^" /\ a = 1
              => ReadTo(a + 1, toks, TRUE, end) /\ LastToken(a + 1, toks)
         /\ pattern[a] = "$" /\ a = Len(pattern)
              => ReadTo(a + 1, toks, start, TRUE) /\ LastToken(a + 1, toks)
<1>1. /\ Len(pattern) \in Nat /\ a \in Nat \ {0} /\ a - 1 \in Nat /\ (a + 1) - 1 = a
      /\ (a - 1) + 1 = a /\ pattern # <<>> /\ (a + 1 > Len(pattern) => Len(pattern) = a)
  OBVIOUS
<1> SUFFICES ASSUME pattern[a] \in {"^", "$"}, pattern[a] = "^" => a = 1,
                    pattern[a] = "$" => a = Len(pattern)
             PROVE  /\ pattern[a] = "^" => ReadTo(a + 1, toks, TRUE, end)
                    /\ pattern[a] = "$" => ReadTo(a + 1, toks, start, TRUE)
                    /\ LastToken(a + 1, toks)
  OBVIOUS
<1>2. ~Escaped(a) /\ ~Escaped(a + 1)
  BY <1>1, EscapedNext DEF ReadTo
<1>3. ~Atom(a) /\ \A char : Bare(a, char) <=> pattern[a] = char
  BY <1>2, BareOnly
<1>4. Good(a)
  BY <1>2, <1>3 DEF Good, Unsupported
<1>5. Alike(PrefixSteps(a), TokenSteps(text, toks), Positions, a, Len(toks))
  <2>1. Alike(PrefixSteps((a - 1) + 1), TokenSteps(text, toks), Positions, (a - 1) + 1, Len(toks))
    BY <1>1, <1>3, AlikeSkip DEF ReadTo
  <2> QED
    BY <2>1, <1>1
<1>6. \A n \in 1..((a + 1) - 1) : Good(n)
  BY <1>1, <1>4 DEF ReadTo
<1>7. pattern[a] = "^" => ReadTo(a + 1, toks, TRUE, end)
  <2> SUFFICES ASSUME pattern[a] = "^" PROVE ReadTo(a + 1, toks, TRUE, end)
    OBVIOUS
  <2>1. a = 1 /\ a + 1 > 1 /\ Bare(1, "^") /\ ~end
    BY <1>1, <1>3 DEF ReadTo
  <2>2. ~(a + 1 > Len(pattern) /\ Bare(Len(pattern), "$"))
    <3>1. a + 1 > Len(pattern) => Len(pattern) = a
      BY <1>1
    <3>2. ~Bare(a, "$")
      BY <1>3
    <3> QED
      BY <3>1, <3>2
  <2> QED
    BY <1>1, <1>2, <1>5, <1>6, <2>1, <2>2 DEF ReadTo
<1>8. pattern[a] = "$" => ReadTo(a + 1, toks, start, TRUE)
  <2> SUFFICES ASSUME pattern[a] = "$" PROVE ReadTo(a + 1, toks, start, TRUE)
    OBVIOUS
  <2>1. a = Len(pattern) /\ a + 1 > Len(pattern) /\ Bare(Len(pattern), "$")
    BY <1>1, <1>3
  <2>2. start <=> a + 1 > 1 /\ Bare(1, "^")
    <3>1. a = 1 => ~Bare(1, "^")
      BY <1>3
    <3>2. start <=> a > 1 /\ Bare(1, "^")
      BY DEF ReadTo
    <3> QED
      BY <1>1, <3>1, <3>2
  <2> QED
    BY <1>1, <1>2, <1>5, <1>6, <2>1, <2>2 DEF ReadTo
<1>9. LastToken(a + 1, toks)
  <2> SUFFICES ASSUME a + 1 <= Len(pattern)
               PROVE  ~MayRepeat(toks) /\ ~Atom((a + 1) - 1)
    BY DEF LastToken
  <2>1. a = 1 /\ a <= Len(pattern)
    BY <1>1
  <2>2. ~MayRepeat(toks)
    BY <2>1 DEF LastToken
  <2> QED
    BY <2>2, <1>1, <1>3
<1> QED
  BY <1>7, <1>8, <1>9

\* The anchors are where they were when another character is read.
LEMMA AnchorsStay ==
  ASSUME pattern \in Seq(Symbols), NEW a \in 1..Len(pattern), NEW b \in (a + 1)..(Len(pattern) + 1),
         NEW toks, NEW start \in BOOLEAN, NEW end \in BOOLEAN, ReadTo(a, toks, start, end),
         ~Bare(a, "^"), ~Bare(b - 1, "$")
  PROVE  /\ start <=> b > 1 /\ Bare(1, "^")
         /\ end <=> b > Len(pattern) /\ pattern # <<>> /\ Bare(Len(pattern), "$")
<1>1. /\ Len(pattern) \in Nat /\ b > 1 /\ ~(a > Len(pattern)) /\ (a > 1 \/ a = 1)
      /\ b > Len(pattern) => b - 1 = Len(pattern)
  OBVIOUS
<1>2. /\ start <=> a > 1 /\ Bare(1, "^")
      /\ ~end
  BY <1>1 DEF ReadTo
<1>3. b > Len(pattern) => ~Bare(Len(pattern), "$")
  BY <1>1
<1> QED
  BY <1>1, <1>2, <1>3

\* A token for an atom: . or a literal, or what is escaped.
LEMMA ReadAtom ==
  ASSUME pattern \in Seq(Symbols), NEW a \in 1..Len(pattern), NEW toks \in Seq(Token),
         NEW token \in Token, ~token.repeated,
         NEW start \in BOOLEAN, NEW end \in BOOLEAN,
         ReadTo(a, toks, start, end),
         pattern[a] \notin {"\\", "^", "$", "*"} \cup Unsupported,
         \A k : Fits(token, text[k]) <=> Spells(a, k)
  PROVE  ReadTo(a + 1, Append(toks, token), start, end) /\ LastToken(a + 1, Append(toks, token))
<1> DEFINE more == Append(toks, token)
<1>1. /\ Len(pattern) \in Nat /\ a \in Nat \ {0} /\ a - 1 \in Nat /\ (a + 1) - 1 = a
      /\ (a - 1) + 1 = a /\ (a + 1) - 2 = a - 1 /\ a + 1 > 1 /\ a + 1 \in (a + 1)..(Len(pattern) + 1)
  OBVIOUS
<1>2. ~Escaped(a) /\ ~Escaped(a + 1)
  BY <1>1, EscapedNext DEF ReadTo
<1>3. Atom(a) /\ \A char : Bare(a, char) <=> pattern[a] = char
  BY <1>2, BareOnly
<1>4. Good(a)
  BY <1>2, <1>3 DEF Good
<1>5. /\ Alike(PrefixSteps(a), TokenSteps(text, more), Positions, a - 1, Len(toks))
      /\ Alike(PrefixSteps(a), TokenSteps(text, more), Positions, a, Len(toks) + 1)
  <2>1. /\ Alike(PrefixSteps((a - 1) + 1), TokenSteps(text, more), Positions, a - 1, Len(toks))
        /\ Alike(PrefixSteps((a - 1) + 1), TokenSteps(text, more), Positions, (a - 1) + 1,
                 Len(toks) + 1)
    <3>1. Alike(PrefixSteps(a - 1), TokenSteps(text, toks), Positions, a - 1, Len(toks))
      BY DEF ReadTo
    <3>2. Atom((a - 1) + 1) /\ pattern[(a - 1) + 1] # "*"
      BY <1>1, <1>3
    <3>3. \A k : Fits(token, text[k]) <=> Spells((a - 1) + 1, k)
      BY <1>1
    <3> QED
      BY <1>1, <3>1, <3>2, <3>3, AlikeToken
  <2> QED
    BY <2>1, <1>1
<1>6. Len(more) = Len(toks) + 1 /\ Len(more) - 1 = Len(toks) /\ more[Len(more)] = token /\ more # <<>>
  OBVIOUS
<1>7. /\ start <=> a + 1 > 1 /\ Bare(1, "^")
      /\ end <=> a + 1 > Len(pattern) /\ pattern # <<>> /\ Bare(Len(pattern), "$")
  BY <1>1, <1>3, AnchorsStay
<1> HIDE DEF more
<1>8. ReadTo(a + 1, more, start, end)
  <2>1. \A n \in 1..((a + 1) - 1) : Good(n)
    BY <1>1, <1>4 DEF ReadTo
  <2> QED
    BY <1>1, <1>2, <1>5, <1>6, <1>7, <2>1 DEF ReadTo
<1>9. LastToken(a + 1, more)
  <2>1. MayRepeat(more)
    BY <1>6 DEF MayRepeat
  <2> QED
    BY <1>1, <1>3, <1>5, <1>6, <2>1 DEF LastToken
<1> QED
  BY <1>8, <1>9 DEF more

LEMMA ReadEscape ==
  ASSUME pattern \in Seq(Symbols), NEW a \in 1..Len(pattern), NEW toks \in Seq(Token),
         NEW token \in Token, ~token.repeated,
         NEW start \in BOOLEAN, NEW end \in BOOLEAN,
         ReadTo(a, toks, start, end),
         pattern[a] = "\\", a < Len(pattern), pattern[a + 1] \in Escapable,
         ~token.any, token.char = pattern[a + 1]
  PROVE  ReadTo(a + 2, Append(toks, token), start, end) /\ LastToken(a + 2, Append(toks, token))
<1> DEFINE more == Append(toks, token)
<1>1. /\ Len(pattern) \in Nat /\ a \in Nat \ {0} /\ a - 1 \in Nat /\ (a + 2) - 1 = a + 1
      /\ (a - 1) + 1 = a /\ (a + 2) - 2 = a /\ a + 2 > 1 /\ (a + 1) + 1 = a + 2
      /\ a + 2 \in (a + 1)..(Len(pattern) + 1)
  OBVIOUS
<1>2. ~Escaped(a) /\ Escaped(a + 1) /\ ~Escaped(a + 2)
  <2>1. Escaped(a + 1)
    BY <1>1, EscapedNext DEF ReadTo
  <2>2. ~Escaped((a + 1) + 1)
    BY <2>1, <1>1, EscapedNext
  <2> QED
    BY <2>1, <2>2, <1>1 DEF ReadTo
<1>3. ~Atom(a) /\ \A char : Bare(a, char) <=> pattern[a] = char
  BY <1>2, BareOnly
<1>4. Atom(a + 1) /\ \A char : ~Bare(a + 1, char)
  BY <1>2 DEF Atom, Bare
<1>5. Good(a) /\ Good(a + 1)
  BY <1>1, <1>2, <1>3, <1>4 DEF Good, Unsupported
<1>6. /\ Alike(PrefixSteps(a + 1), TokenSteps(text, more), Positions, a, Len(toks))
      /\ Alike(PrefixSteps(a + 1), TokenSteps(text, more), Positions, a + 1, Len(toks) + 1)
  <2>1. Alike(PrefixSteps(a), TokenSteps(text, toks), Positions, a, Len(toks))
    <3>1. Alike(PrefixSteps((a - 1) + 1), TokenSteps(text, toks), Positions, (a - 1) + 1, Len(toks))
      BY <1>1, <1>3, AlikeSkip DEF ReadTo
    <3> QED
      BY <3>1, <1>1
  <2>2. \A k : Fits(token, text[k]) <=> Spells(a + 1, k)
    BY <1>4 DEF Fits, Spells
  <2> QED
    BY <1>1, <1>3, <1>4, <2>1, <2>2, AlikeToken
<1>7. Len(more) = Len(toks) + 1 /\ Len(more) - 1 = Len(toks) /\ more[Len(more)] = token /\ more # <<>>
  OBVIOUS
<1>8. /\ start <=> a + 2 > 1 /\ Bare(1, "^")
      /\ end <=> a + 2 > Len(pattern) /\ pattern # <<>> /\ Bare(Len(pattern), "$")
  BY <1>1, <1>3, <1>4, AnchorsStay
<1> HIDE DEF more
<1>9. ReadTo(a + 2, more, start, end)
  <2>1. \A n \in 1..((a + 2) - 1) : n \in 1..(a - 1) \/ n = a \/ n = a + 1
    BY <1>1
  <2>2. \A n \in 1..((a + 2) - 1) : Good(n)
    BY <2>1, <1>5 DEF ReadTo
  <2> QED
    BY <1>1, <1>2, <1>6, <1>7, <1>8, <2>2 DEF ReadTo
<1>10. LastToken(a + 2, more)
  <2>1. MayRepeat(more)
    BY <1>7 DEF MayRepeat
  <2>2. \A k : Fits(more[Len(more)], text[k]) <=> Spells((a + 2) - 1, k)
    BY <1>1, <1>4, <1>7 DEF Fits, Spells
  <2> QED
    BY <1>1, <1>4, <1>6, <1>7, <2>1, <2>2 DEF LastToken
<1> QED
  BY <1>9, <1>10 DEF more

LEMMA ReadStar ==
  ASSUME pattern \in Seq(Symbols), NEW a \in 1..Len(pattern), NEW toks \in Seq(Token),
         NEW start \in BOOLEAN, NEW end \in BOOLEAN,
         ReadTo(a, toks, start, end), LastToken(a, toks),
         pattern[a] = "*", MayRepeat(toks)
  PROVE  LET star == [toks EXCEPT ![Len(toks)].repeated = TRUE] IN
         ReadTo(a + 1, star, start, end) /\ LastToken(a + 1, star)
<1> DEFINE star == [toks EXCEPT ![Len(toks)].repeated = TRUE]
<1>1. /\ Len(pattern) \in Nat /\ a \in Nat \ {0} /\ (a + 1) - 1 = a /\ a <= Len(pattern)
      /\ (a - 1) + 1 = a /\ (a - 1) - 1 = a - 2 /\ a + 1 \in (a + 1)..(Len(pattern) + 1)
  OBVIOUS
<1>2. ~Escaped(a) /\ ~Escaped(a + 1)
  BY <1>1, EscapedNext DEF ReadTo
<1>3. ~Atom(a) /\ \A char : Bare(a, char) <=> pattern[a] = char
  BY <1>2, BareOnly
<1>4. a > 1 /\ Atom(a - 1) /\ a - 1 \in Nat \ {0}
  BY <1>1 DEF LastToken
<1>5. Good(a)
  BY <1>2, <1>3, <1>4 DEF Good, Unsupported
<1>6. Alike(PrefixSteps(a), TokenSteps(text, star), Positions, a, Len(toks))
  <2>1. /\ \A k : Fits(toks[Len(toks)], text[k]) <=> Spells(a - 1, k)
        /\ Alike(PrefixSteps(a - 1), TokenSteps(text, toks), Positions, (a - 1) - 1, Len(toks) - 1)
    BY <1>1 DEF LastToken
  <2>2. toks # <<>>
    BY DEF MayRepeat
  <2>3. ~Atom((a - 1) + 1) /\ pattern[(a - 1) + 1] = "*"
    BY <1>1, <1>3
  <2>4. Alike(PrefixSteps((a - 1) + 1), TokenSteps(text, star), Positions, (a - 1) + 1, Len(toks))
    BY <1>4, <2>1, <2>2, <2>3, AlikeRepeat
  <2> QED
    BY <2>4, <1>1
<1>7. Len(star) = Len(toks) /\ star[Len(toks)].repeated
  <2>1. toks # <<>> /\ Len(toks) \in DOMAIN toks /\ toks[Len(toks)] \in Token
    BY DEF MayRepeat
  <2> QED
    BY <2>1 DEF Token
<1>8. /\ start <=> a + 1 > 1 /\ Bare(1, "^")
      /\ end <=> a + 1 > Len(pattern) /\ pattern # <<>> /\ Bare(Len(pattern), "$")
  BY <1>1, <1>3, AnchorsStay
<1> HIDE DEF star
<1>9. ReadTo(a + 1, star, start, end)
  <2>1. \A n \in 1..((a + 1) - 1) : Good(n)
    BY <1>1, <1>5 DEF ReadTo
  <2> QED
    BY <1>1, <1>2, <1>6, <1>7, <1>8, <2>1 DEF ReadTo
<1>10. LastToken(a + 1, star)
  BY <1>1, <1>3, <1>7 DEF LastToken, MayRepeat
<1> QED
  BY <1>9, <1>10 DEF star

\* A character the parser refuses is not one the language allows, or the next
\* one is not.
LEMMA RefusedIsNotGood ==
  ASSUME pattern \in Seq(Symbols), at \in 1..Len(pattern), ~Escaped(at), Misplaced,
         LastToken(at, tokens)
  PROVE  ~WellFormed
<1> SUFFICES ASSUME WellFormed PROVE FALSE
  OBVIOUS
<1>1. /\ Len(pattern) \in Nat /\ at \in Nat \ {0} /\ at <= Len(pattern)
      /\ DOMAIN pattern = 1..Len(pattern) /\ ~(at > 1 /\ at = 1)
      /\ ~(at < Len(pattern) /\ at = Len(pattern))
  OBVIOUS
<1>2. Good(at) /\ \A char : Bare(at, char) <=> pattern[at] = char
  BY <1>1, BareOnly DEF WellFormed, Good
<1>3. CASE Reading("^") /\ at > 1
  BY <1>1, <1>2, <1>3 DEF Reading, Good
<1>4. CASE Reading("$") /\ at < Len(pattern)
  BY <1>1, <1>2, <1>4 DEF Reading, Good
<1>5. CASE Reading("\\") /\ ~Escapes
  <2>1. at < Len(pattern) /\ Escaped(at + 1) /\ at + 1 \in 1..Len(pattern)
    <3>1. at < Len(pattern) /\ pattern[at] = "\\"
      BY <1>2, <1>5 DEF Reading, Good
    <3>2. Escaped(at + 1)
      BY <1>1, <3>1, EscapedNext
    <3>3. at + 1 \in 1..Len(pattern)
      <4>1. \A n, l \in Nat : n < l => n + 1 \in 1..l
        OBVIOUS
      <4>2. at \in Nat /\ Len(pattern) \in Nat
        BY <1>1
      <4> QED
        BY <3>1, <4>1, <4>2
    <3> QED
      BY <3>1, <3>2, <3>3
  <2>2. pattern[at + 1] \in Escapable
    BY <1>1, <2>1 DEF WellFormed
  <2> QED
    BY <1>5, <2>1, <2>2 DEF Escapes
<1>6. CASE Reading("*") /\ ~Repeatable
  BY <1>1, <1>2, <1>6 DEF Reading, Good, LastToken, MayRepeat, Repeatable
<1>7. CASE \E char \in Unsupported : Reading(char)
  BY <1>2, <1>7 DEF Reading, Good
<1> QED
  BY <1>3, <1>4, <1>5, <1>6, <1>7 DEF Misplaced

\* The text from position n on is spelled by the tokens of toks from the t-th on.
SpelledFrom(toks, end, t, n) ==
  \E j \in Positions : /\ Path(TokenSteps(text, toks), Positions, t - 1, Len(toks), n, j)
                       /\ end => j = Len(text)

\* When all is read, the tokens find what the pattern is meant to.
LEMMA FoundIsSpelled ==
  ASSUME pattern \in Seq(Symbols), text \in Seq(Letters), NEW toks \in Seq(Token),
         NEW start \in BOOLEAN, NEW end \in BOOLEAN,
         ReadTo(Len(pattern) + 1, toks, start, end)
  PROVE  /\ WellFormed
         /\ Found <=> \E n \in Positions : SpelledFrom(toks, end, 1, n) /\ (start => n = 0)
<1> DEFINE L == Len(pattern)
           starts == pattern # <<>> /\ Bare(1, "^")
           ends == pattern # <<>> /\ Bare(L, "$")
<1>1. /\ L \in Nat /\ DOMAIN pattern = 1..L /\ (L + 1) - 1 = L /\ L + 1 > L
      /\ L + 1 > 1 <=> pattern # <<>>
      /\ 1 - 1 = 0 /\ \A n \in 1..L : n \in Nat /\ n - 1 \in 0..L /\ n \in 0..L
      /\ 0 \in 0..L /\ L \in 0..L
  OBVIOUS
<1>2. WellFormed
  <2>1. \A n \in DOMAIN pattern : Good(n)
    BY <1>1 DEF ReadTo
  <2> QED
    BY <2>1 DEF Good, WellFormed
<1>3. ASSUME NEW cut \in [0..L -> Positions]
      PROVE  (\A n \in DOMAIN pattern :
                IF n \in Atoms THEN AtomStep(n, cut[n - 1], cut[n]) ELSE cut[n] = cut[n - 1])
             <=> (\A k \in (0 + 1)..L : <<k, cut[k - 1], cut[k]>> \in PrefixSteps(L))
  <2>1. ASSUME NEW n \in 1..L
        PROVE  (IF n \in Atoms THEN AtomStep(n, cut[n - 1], cut[n]) ELSE cut[n] = cut[n - 1])
               <=> <<n, cut[n - 1], cut[n]>> \in PrefixSteps(L)
    <3>1. cut[n - 1] \in Positions /\ cut[n] \in Positions /\ n \in Nat
      BY <1>1
    <3>2. <<n, cut[n - 1], cut[n]>> \in PrefixSteps(L) <=> PrefixStep(L, n, cut[n - 1], cut[n])
      BY <3>1, PrefixStepIs
    <3>3. n \in Atoms <=> Atom(n)
      BY <1>1 DEF Atoms
    <3>4. AtomStep(n, cut[n - 1], cut[n])
            <=> IF n < L /\ pattern[n + 1] = "*"
                  THEN /\ cut[n - 1] <= cut[n]
                       /\ \A k \in (cut[n - 1] + 1)..cut[n] : Spells(n, k)
                  ELSE cut[n] = cut[n - 1] + 1 /\ Spells(n, cut[n])
      BY DEF AtomStep, Spells
    <3> QED
      BY <3>2, <3>3, <3>4 DEF PrefixStep
  <2>2. \A k : k \in (0 + 1)..L <=> k \in DOMAIN pattern
    BY <1>1
  <2> QED
    BY <2>1, <2>2, <1>1
<1>4. Found <=>
        \E n, j \in Positions :
          /\ Path(PrefixSteps(L), Positions, 0, L, n, j)
          /\ starts => n = 0
          /\ ends => j = Len(text)
  <2>1. ASSUME Found
        PROVE  \E n, j \in Positions : /\ Path(PrefixSteps(L), Positions, 0, L, n, j)
                                       /\ starts => n = 0
                                       /\ ends => j = Len(text)
    <3>1. PICK cut \in [0..L -> Positions] :
            /\ \A n \in DOMAIN pattern :
                 IF n \in Atoms THEN AtomStep(n, cut[n - 1], cut[n]) ELSE cut[n] = cut[n - 1]
            /\ starts => cut[0] = 0
            /\ ends => cut[L] = Len(text)
      BY <2>1 DEF Found
    <3>2. \A k \in (0 + 1)..L : <<k, cut[k - 1], cut[k]>> \in PrefixSteps(L)
      BY <3>1, <1>3
    <3>3. Path(PrefixSteps(L), Positions, 0, L, cut[0], cut[L])
      BY <3>2 DEF Path
    <3>4. cut[0] \in Positions /\ cut[L] \in Positions
      BY <1>1
    <3> HIDE DEF L, starts, ends
    <3> QED
      BY <3>1, <3>3, <3>4
  <2>2. ASSUME NEW n \in Positions, NEW j \in Positions,
               Path(PrefixSteps(L), Positions, 0, L, n, j),
               starts => n = 0, ends => j = Len(text)
        PROVE  Found
    <3>1. PICK cut \in [0..L -> Positions] :
            /\ cut[0] = n /\ cut[L] = j
            /\ \A k \in (0 + 1)..L : <<k, cut[k - 1], cut[k]>> \in PrefixSteps(L)
      BY <2>2 DEF Path
    <3>2. \A k \in DOMAIN pattern :
            IF k \in Atoms THEN AtomStep(k, cut[k - 1], cut[k]) ELSE cut[k] = cut[k - 1]
      BY <3>1, <1>3
    <3> QED
      BY <2>2, <3>1, <3>2 DEF Found
  <2> QED
    BY <2>1, <2>2
<1>5. /\ start <=> starts
      /\ end <=> ends
      /\ \A n, j \in Positions :
           Path(PrefixSteps(L), Positions, 0, L, n, j)
             <=> Path(TokenSteps(text, toks), Positions, 0, Len(toks), n, j)
  BY <1>1 DEF ReadTo, Alike
<1> HIDE DEF L, starts, ends
<1>6. Found <=> \E n \in Positions : SpelledFrom(toks, end, 1, n) /\ (start => n = 0)
  <2>1. \A n : SpelledFrom(toks, end, 1, n) <=>
          \E j \in Positions : /\ Path(TokenSteps(text, toks), Positions, 0, Len(toks), n, j)
                               /\ end => j = Len(text)
    BY <1>1 DEF SpelledFrom
  <2> QED
    BY <1>4, <1>5, <2>1
<1> QED
  BY <1>2, <1>6

-----------------------------------------------------------------------------
(* The steps of the parser.                                                *)

LEMMA PatternStays ==
  ASSUME pattern' = pattern, text' = text
  PROVE  /\ Positions' = Positions /\ (WellFormed' <=> WellFormed) /\ (Found' <=> Found)
         /\ ReadTo(at', tokens', startAnchored', endAnchored')
              => ReadTo(at, tokens, startAnchored, endAnchored)'
         /\ LastToken(at', tokens') => LastToken(at, tokens)'
<1>1. Positions' = Positions
  BY DEF Positions
<1>2. WellFormed' <=> WellFormed
  BY DEF WellFormed, Escaped, Bare, Atom
<1>3. Found' <=> Found
  <2>1. Atoms' = Atoms
    BY DEF Atoms, Atom, Escaped
  <2>2. \A n, i, j : AtomStep(n, i, j)' <=> AtomStep(n, i, j)
    BY DEF AtomStep, Bare, Escaped
  <2>3. Bare(1, "^")' <=> Bare(1, "^")
    BY DEF Bare, Escaped
  <2>4. Bare(Len(pattern), "$")' <=> Bare(Len(pattern), "$")
    BY DEF Bare, Escaped
  <2> QED
    BY <1>1, <2>1, <2>2, <2>3, <2>4 DEF Found
<1>4. PrefixSteps(at - 1)' = PrefixSteps(at' - 1)
  BY <1>1 DEF PrefixSteps, PrefixStep, Atom, Escaped, Bare, Spells
<1>5. ReadTo(at', tokens', startAnchored', endAnchored')
        => ReadTo(at, tokens, startAnchored, endAnchored)'
  BY <1>1, <1>4 DEF ReadTo, Good, Bare, Atom, Escaped
<1>6. LastToken(at', tokens') => LastToken(at, tokens)'
  BY <1>1, <1>4 DEF LastToken, MayRepeat, Atom, Escaped, Spells, Bare
<1> QED
  BY <1>1, <1>2, <1>3, <1>5, <1>6

\* What the steps of args_match keep: the parser reads as above; the search has
\* found nothing at the positions it has tried.
ArgsTyping ==
  /\ pattern \in Seq(Symbols) /\ text \in Seq(Letters) /\ tokens \in Seq(Token)
  /\ at \in 1..(Len(pattern) + 1) /\ from \in 0..(Len(text) + 1)
  /\ startAnchored \in BOOLEAN /\ endAnchored \in BOOLEAN
  /\ matchPc \in {"parse", "search", "done"}

ArgsInv ==
  leaf = "args_match" =>
    /\ ArgsTyping
    /\ matchPc \in {"parse", "search"} =>
         ReadTo(at, tokens, startAnchored, endAnchored) /\ verdict = "none"
    /\ matchPc = "parse" => LastToken(at, tokens) /\ from = 0
    /\ matchPc = "search" =>
         /\ at = Len(pattern) + 1
         /\ startAnchored => from <= 1
         /\ \A n \in 0..(from - 1) : ~SpelledFrom(tokens, endAnchored, 1, n)
    /\ matchPc = "done" =>
         /\ verdict = "invalid" <=> ~WellFormed
         /\ verdict # "invalid" => (verdict = "match" <=> Found)

LEMMA ArgsInvInit == MatchInit => ArgsInv
<1> SUFFICES ASSUME MatchInit, leaf = "args_match" PROVE ArgsInv
  BY DEF ArgsInv
<1>1. pattern \in Seq(Symbols) /\ text \in Seq(Letters)
  <2>1. PICK k \in 0..MaxPattern : pattern \in [1..k -> Symbols]
    BY DEF MatchInit, Words
  <2>2. PICK m \in 0..MaxText : text \in [1..m -> Letters]
    BY DEF MatchInit, Words
  <2>3. \A S, n : n \in Nat => \A q \in [1..n -> S] : q \in Seq(S)
    OBVIOUS
  <2> QED
    BY <2>1, <2>2, <2>3, PatternBoundsAssumption
<1>2. Len(pattern) \in Nat /\ Len(text) \in Nat
  BY <1>1
<1>3. /\ matchPc = "parse" /\ at = 1 /\ tokens = <<>> /\ startAnchored = FALSE /\ endAnchored = FALSE
      /\ from = 0 /\ verdict = "none"
  BY DEF MatchInit
<1>4. ArgsTyping
  <2>1. at \in 1..(Len(pattern) + 1) /\ from \in 0..(Len(text) + 1)
    BY <1>2, <1>3
  <2>2. tokens \in Seq(Token)
    BY <1>3
  <2> QED
    BY <1>1, <1>3, <2>1, <2>2 DEF ArgsTyping
<1>5. ReadTo(1, <<>>, FALSE, FALSE)
  <2>1. Alike(PrefixSteps(0), TokenSteps(text, <<>>), Positions, 0, 0)
    BY PathNone DEF Alike
  <2>2. ~(1 > Len(pattern) /\ pattern # <<>>)
    BY <1>1
  <2>3. 1 - 1 = 0 /\ Len(<<>>) = 0 /\ ~(1 > 1) /\ \A n \in 1..0 : FALSE
    OBVIOUS
  <2> QED
    BY <2>1, <2>2, <2>3, FirstNotEscaped DEF ReadTo
<1>6. LastToken(1, <<>>)
  BY DEF LastToken, MayRepeat
<1> QED
  BY <1>3, <1>4, <1>5, <1>6 DEF ArgsInv

\* A step of the parser that goes on keeps the invariant when what it leaves is
\* read as the lemmas say.
LEMMA ParserGoesOn ==
  ASSUME ArgsInv, leaf = "args_match", matchPc = "parse", UNCHANGED <<inputs, matchPc, from, verdict>>,
         tokens' \in Seq(Token), at' \in 1..(Len(pattern) + 1),
         startAnchored' \in BOOLEAN, endAnchored' \in BOOLEAN,
         ReadTo(at', tokens', startAnchored', endAnchored'), LastToken(at', tokens')
  PROVE  ArgsInv'
<1>1. /\ pattern' = pattern /\ text' = text /\ leaf' = leaf /\ matchPc' = "parse"
      /\ from' = from /\ verdict' = verdict
  BY DEF inputs
<1>2. /\ ReadTo(at, tokens, startAnchored, endAnchored)'
      /\ LastToken(at, tokens)'
  BY <1>1, PatternStays
<1>3. ArgsTyping /\ from = 0 /\ verdict = "none"
  BY DEF ArgsInv
<1>4. ArgsTyping'
  BY <1>1, <1>3 DEF ArgsTyping
<1> QED
  BY <1>1, <1>2, <1>3, <1>4 DEF ArgsInv

LEMMA ParseKeepsInv ==
  ASSUME ArgsInv, leaf = "args_match",
         \/ ParseStart \/ ParseEnd \/ ParseEscape \/ ParseAny \/ ParseLiteral \/ ParseRepeat
  PROVE  ArgsInv'
<1>1. /\ matchPc = "parse" /\ at <= Len(pattern) /\ UNCHANGED <<inputs, matchPc, from, verdict>>
  BY DEF ParseStart, ParseEnd, ParseEscape, ParseAny, ParseLiteral, ParseRepeat, Reading,
         AddToken
<1>2. /\ ArgsTyping /\ ReadTo(at, tokens, startAnchored, endAnchored) /\ LastToken(at, tokens)
  BY <1>1 DEF ArgsInv
<1>3. /\ pattern \in Seq(Symbols) /\ at \in 1..Len(pattern) /\ tokens \in Seq(Token)
      /\ startAnchored \in BOOLEAN /\ endAnchored \in BOOLEAN /\ pattern[at] \in Symbols
      /\ at + 1 \in 1..(Len(pattern) + 1) /\ (at < Len(pattern) => at + 2 \in 1..(Len(pattern) + 1))
  <2>1. pattern \in Seq(Symbols) /\ Len(pattern) \in Nat /\ at \in 1..Len(pattern)
    BY <1>1, <1>2 DEF ArgsTyping
  <2> QED
    BY <1>2, <2>1 DEF ArgsTyping
<1>4. CASE ParseStart
  <2>1. /\ at = 1 /\ pattern[at] = "^" /\ at' = at + 1 /\ tokens' = tokens
        /\ startAnchored' = TRUE /\ endAnchored' = endAnchored
    BY <1>4 DEF ParseStart, Reading
  <2>2. ReadTo(at + 1, tokens, TRUE, endAnchored) /\ LastToken(at + 1, tokens)
    BY <1>2, <1>3, <2>1, ReadAnchor
  <2> QED
    BY <1>1, <1>3, <2>1, <2>2, ParserGoesOn
<1>5. CASE ParseEnd
  <2>1. /\ at = Len(pattern) /\ pattern[at] = "$" /\ at' = at + 1 /\ tokens' = tokens
        /\ startAnchored' = startAnchored /\ endAnchored' = TRUE
    BY <1>5 DEF ParseEnd, Reading
  <2>2. ReadTo(at + 1, tokens, startAnchored, TRUE) /\ LastToken(at + 1, tokens)
    BY <1>2, <1>3, <2>1, ReadAnchor
  <2> QED
    BY <1>1, <1>3, <2>1, <2>2, ParserGoesOn
<1>6. CASE ParseEscape
  <2> DEFINE token == [char |-> pattern[at + 1], any |-> FALSE, repeated |-> FALSE]
  <2>1. /\ pattern[at] = "\\" /\ at < Len(pattern) /\ pattern[at + 1] \in Escapable
        /\ tokens' = Append(tokens, token) /\ at' = at + 2
        /\ startAnchored' = startAnchored /\ endAnchored' = endAnchored
    BY <1>6 DEF ParseEscape, Reading, Escapes, AddToken
  <2>2. token \in Token /\ ~token.repeated /\ ~token.any /\ token.char = pattern[at + 1]
    <3>1. pattern[at + 1] \in Symbols
      BY <1>3, <2>1
    <3> QED
      BY <3>1 DEF Token
  <2> HIDE DEF token
  <2>3. /\ ReadTo(at + 2, Append(tokens, token), startAnchored, endAnchored)
        /\ LastToken(at + 2, Append(tokens, token))
    BY <1>2, <1>3, <2>1, <2>2, ReadEscape
  <2>4. Append(tokens, token) \in Seq(Token)
    BY <1>3, <2>2
  <2> QED
    BY <1>1, <1>3, <2>1, <2>3, <2>4, ParserGoesOn
<1>7. CASE ParseAny \/ ParseLiteral
  <2> DEFINE token == [char |-> pattern[at], any |-> pattern[at] = ".", repeated |-> FALSE]
  <2>1. /\ pattern[at] \notin {"\\", "^", "$", "*"} \cup Unsupported
        /\ tokens' = Append(tokens, token) /\ at' = at + 1
        /\ startAnchored' = startAnchored /\ endAnchored' = endAnchored
    <3>1. CASE ParseAny
      <4>1. pattern[at] = "." /\ (pattern[at] = ".") = TRUE
        BY <3>1 DEF ParseAny, Reading
      <4> QED
        BY <3>1, <4>1 DEF ParseAny, AddToken, Unsupported
    <3>2. CASE ParseLiteral
      <4>1. pattern[at] \notin Escapable \cup Unsupported /\ (pattern[at] = ".") = FALSE
        BY <3>2 DEF ParseLiteral, Escapable
      <4> QED
        BY <3>2, <4>1 DEF ParseLiteral, AddToken, Escapable
    <3> QED
      BY <1>7, <3>1, <3>2
  <2>2. /\ token \in Token /\ ~token.repeated /\ token.char = pattern[at]
        /\ token.any <=> pattern[at] = "."
    BY <1>3 DEF Token
  <2> HIDE DEF token
  <2>3. \A k : Fits(token, text[k]) <=> Spells(at, k)
    <3>1. Bare(at, ".") <=> pattern[at] = "."
      BY <1>2, BareOnly DEF ReadTo
    <3> QED
      BY <2>2, <3>1 DEF Fits, Spells
  <2>4. /\ ReadTo(at + 1, Append(tokens, token), startAnchored, endAnchored)
        /\ LastToken(at + 1, Append(tokens, token))
    BY <1>2, <1>3, <2>1, <2>2, <2>3, ReadAtom
  <2>5. Append(tokens, token) \in Seq(Token)
    BY <1>3, <2>2
  <2> QED
    BY <1>1, <1>3, <2>1, <2>4, <2>5, ParserGoesOn
<1>8. CASE ParseRepeat
  <2> DEFINE star == [tokens EXCEPT ![Len(tokens)].repeated = TRUE]
  <2>1. /\ pattern[at] = "*" /\ MayRepeat(tokens) /\ tokens' = star /\ at' = at + 1
        /\ startAnchored' = startAnchored /\ endAnchored' = endAnchored
    BY <1>8 DEF ParseRepeat, Reading, Repeatable, MayRepeat
  <2>2. ReadTo(at + 1, star, startAnchored, endAnchored) /\ LastToken(at + 1, star)
    BY <1>2, <1>3, <2>1, ReadStar
  <2>3. star \in Seq(Token)
    <3>1. Len(tokens) \in DOMAIN tokens /\ tokens[Len(tokens)] \in Token
      BY <1>3, <2>1 DEF MayRepeat
    <3>2. [tokens[Len(tokens)] EXCEPT !.repeated = TRUE] \in Token
      BY <3>1 DEF Token
    <3>3. star \in [1..Len(tokens) -> Token]
      <4>1. tokens \in [1..Len(tokens) -> Token]
        BY <1>3
      <4> QED
        BY <3>1, <3>2, <4>1
    <3>4. \A n : n \in Nat => \A q \in [1..n -> Token] : q \in Seq(Token)
      OBVIOUS
    <3>5. Len(tokens) \in Nat
      BY <1>3
    <3> HIDE DEF star
    <3> QED
      BY <3>3, <3>4, <3>5
  <2> HIDE DEF star
  <2> QED
    BY <1>1, <1>3, <2>1, <2>2, <2>3, ParserGoesOn
<1> QED
  BY <1>4, <1>5, <1>6, <1>7, <1>8

-----------------------------------------------------------------------------
(* The matchers of the two runtimes.                                       *)

Cells == (1..(Len(tokens) + 1)) \X Positions

RustCell(f, t, n) ==
  LET one == n < Len(text) /\ Fits(tokens[t], text[n + 1]) IN
  IF t > Len(tokens) THEN ~endAnchored \/ n = Len(text)
  ELSE IF tokens[t].repeated THEN f[<<t + 1, n>>] \/ (one /\ f[<<t, n + 1>>])
  ELSE one /\ f[<<t + 1, n + 1>>]

RustTable(f) == [p \in Cells |-> RustCell(f, p[1], p[2])]

PythonCell(f, t, n) ==
  IF t > Len(tokens) THEN ~endAnchored \/ n = Len(text)
  ELSE IF tokens[t].repeated
    THEN \E k \in n..Len(text) :
           /\ \A j \in (n + 1)..k : Fits(tokens[t], text[j])
           /\ f[<<t + 1, k>>]
    ELSE n < Len(text) /\ Fits(tokens[t], text[n + 1]) /\ f[<<t + 1, n + 1>>]

PythonTable(f) == [p \in Cells |-> PythonCell(f, p[1], p[2])]

LEMMA TablesAreRecursive ==
  /\ MatchesFromRust = CHOOSE f : f = RustTable(f)
  /\ MatchesFromPython = CHOOSE f : f = PythonTable(f)
<1>1. MatchesFromRust = CHOOSE f : f = RustTable(f)
  BY DEF MatchesFromRust, RustTable, RustCell, Cells
<1>2. MatchesFromPython = CHOOSE f : f = PythonTable(f)
  BY DEF MatchesFromPython, PythonTable, PythonCell, Cells
<1> QED
  BY <1>1, <1>2

LEMMA CellOfTable ==
  ASSUME NEW f, NEW t \in 1..(Len(tokens) + 1), NEW n \in Positions
  PROVE  /\ f = RustTable(f) => f[<<t, n>>] = RustCell(f, t, n)
         /\ f = PythonTable(f) => f[<<t, n>>] = PythonCell(f, t, n)
<1>1. <<t, n>> \in Cells
  BY DEF Cells
<1>2. RustTable(f)[<<t, n>>] = RustCell(f, t, n)
  BY <1>1 DEF RustTable
<1>3. PythonTable(f)[<<t, n>>] = PythonCell(f, t, n)
  BY <1>1 DEF PythonTable
<1> QED
  BY <1>2, <1>3

\* The tokens from the t-th on spell the text from position n on.
Spelled(t, n) == SpelledFrom(tokens, endAnchored, t, n)

LEMMA SpelledLast ==
  ASSUME ArgsTyping, NEW n \in Positions
  PROVE  Spelled(Len(tokens) + 1, n) <=> ~endAnchored \/ n = Len(text)
<1>1. Len(tokens) \in Int /\ (Len(tokens) + 1) - 1 = Len(tokens)
  BY DEF ArgsTyping
<1>2. \A j \in Positions :
        Path(TokenSteps(text, tokens), Positions, Len(tokens), Len(tokens), n, j) <=> n = j
  BY <1>1, PathNone
<1> QED
  BY <1>1, <1>2 DEF Spelled, SpelledFrom

LEMMA SpelledNext ==
  ASSUME ArgsTyping, NEW t \in 1..Len(tokens), NEW n \in Positions
  PROVE  Spelled(t, n) <=>
           \E l \in Positions : TokenStep(text, tokens, t, n, l) /\ Spelled(t + 1, l)
<1>1. Len(tokens) \in Int /\ t \in Nat /\ t \in Int /\ t <= Len(tokens) /\ (t + 1) - 1 = t
  BY DEF ArgsTyping
<1>2. \A j \in Positions :
        Path(TokenSteps(text, tokens), Positions, t - 1, Len(tokens), n, j) <=>
          \E l \in Positions : /\ <<t, n, l>> \in TokenSteps(text, tokens)
                               /\ Path(TokenSteps(text, tokens), Positions, t, Len(tokens), l, j)
  BY <1>1, PathLeft
<1>3. \A l \in Positions :
        <<t, n, l>> \in TokenSteps(text, tokens) <=> TokenStep(text, tokens, t, n, l)
  BY <1>1, TokenStepIs
<1> QED
  BY <1>1, <1>2, <1>3 DEF Spelled, SpelledFrom

\* One character at a time: a repeated token takes none, or one and then more.
LEMMA SpelledOneByOne ==
  ASSUME ArgsTyping, NEW t \in 1..Len(tokens), NEW n \in Positions
  PROVE  LET one == n < Len(text) /\ Fits(tokens[t], text[n + 1]) IN
         /\ tokens[t].repeated => (Spelled(t, n) <=> Spelled(t + 1, n) \/ (one /\ Spelled(t, n + 1)))
         /\ ~tokens[t].repeated => (Spelled(t, n) <=> one /\ Spelled(t + 1, n + 1))
<1> DEFINE one == n < Len(text) /\ Fits(tokens[t], text[n + 1])
           takes(a, l) == a <= l /\ \A x \in (a + 1)..l : Fits(tokens[t], text[x])
<1>1. /\ Len(text) \in Nat /\ n \in 0..Len(text) /\ Positions = 0..Len(text)
      /\ n < Len(text) => n + 1 \in Positions
  BY DEF ArgsTyping, Positions
<1>2. ASSUME tokens[t].repeated
      PROVE  Spelled(t, n) <=> Spelled(t + 1, n) \/ (one /\ Spelled(t, n + 1))
  <2>1. \A a \in Positions : Spelled(t, a) <=> \E l \in Positions : takes(a, l) /\ Spelled(t + 1, l)
    BY <1>2, SpelledNext DEF TokenStep
  <2>2. takes(n, n)
    BY <1>1
  <2>3. ASSUME n < Len(text), NEW l \in Positions
        PROVE  takes(n, l) <=> l = n \/ (one /\ takes(n + 1, l))
    <3>1. CASE l = n
      BY <3>1, <2>2
    <3>2. CASE l < n
      BY <3>2, <1>1
    <3>3. CASE l > n
      <4>1. \A x : x \in (n + 1)..l <=> x = n + 1 \/ x \in ((n + 1) + 1)..l
        BY <3>3, <1>1
      <4>2. n <= l /\ n + 1 <= l /\ l # n
        BY <3>3, <1>1
      <4> QED
        BY <4>1, <4>2, <2>3
    <3> QED
      BY <3>1, <3>2, <3>3, <1>1
  <2>4. ASSUME ~(n < Len(text)), NEW l \in Positions
        PROVE  takes(n, l) => l = n
    BY <2>4, <1>1
  <2> HIDE DEF takes
  <2>5. CASE n < Len(text)
    <3>1. Spelled(t, n + 1) <=> \E l \in Positions : takes(n + 1, l) /\ Spelled(t + 1, l)
      BY <2>1, <2>5, <1>1
    <3>2. Spelled(t, n) <=> \E l \in Positions : takes(n, l) /\ Spelled(t + 1, l)
      BY <2>1
    <3> HIDE DEF one
    <3> QED
      BY <3>1, <3>2, <2>3, <2>5
  <2>6. CASE ~(n < Len(text))
    <3>1. Spelled(t, n) <=> \E l \in Positions : takes(n, l) /\ Spelled(t + 1, l)
      BY <2>1
    <3> QED
      BY <3>1, <2>2, <2>4, <2>6
  <2> QED
    BY <2>5, <2>6
<1>3. ASSUME ~tokens[t].repeated PROVE Spelled(t, n) <=> one /\ Spelled(t + 1, n + 1)
  <2>1. Spelled(t, n) <=>
          \E l \in Positions : l = n + 1 /\ Fits(tokens[t], text[l]) /\ Spelled(t + 1, l)
    BY <1>3, SpelledNext DEF TokenStep
  <2>2. \A l \in Positions : l = n + 1 => n < Len(text)
    BY <1>1
  <2> QED
    BY <2>1, <2>2, <1>1
<1> QED
  BY <1>2, <1>3

\* What a table with the recurrence of Rust holds, by the least number of tokens
\* and characters that are left where it does not hold it.
LEMMA RustComputes ==
  ASSUME ArgsTyping, NEW f, f = RustTable(f)
  PROVE  \A t \in 1..(Len(tokens) + 1), n \in Positions : f[<<t, n>>] <=> Spelled(t, n)
<1> DEFINE K == Len(tokens)
           N == Len(text)
           bad(d) == \E t \in 1..(K + 1), n \in Positions :
                       d = ((K + 1) - t) + (N - n) /\ ~(f[<<t, n>>] <=> Spelled(t, n))
           T == {d \in Nat : bad(d)}
<1>1. K \in Nat /\ N \in Nat /\ Positions = 0..N
  BY DEF ArgsTyping, Positions
<1>2. \A t \in 1..(K + 1), n \in Positions :
        f[<<t, n>>] <=>
          IF t > K THEN ~endAnchored \/ n = N
          ELSE IF tokens[t].repeated
            THEN f[<<t + 1, n>>] \/ (n < N /\ Fits(tokens[t], text[n + 1]) /\ f[<<t, n + 1>>])
            ELSE n < N /\ Fits(tokens[t], text[n + 1]) /\ f[<<t + 1, n + 1>>]
  <2> SUFFICES ASSUME NEW t \in 1..(K + 1), NEW n \in Positions
               PROVE  f[<<t, n>>] <=>
                        IF t > K THEN ~endAnchored \/ n = N
                        ELSE IF tokens[t].repeated
                          THEN f[<<t + 1, n>>] \/ (n < N /\ Fits(tokens[t], text[n + 1]) /\ f[<<t, n + 1>>])
                          ELSE n < N /\ Fits(tokens[t], text[n + 1]) /\ f[<<t + 1, n + 1>>]
    OBVIOUS
  <2>1. f[<<t, n>>] = RustCell(f, t, n)
    BY CellOfTable
  <2> QED
    BY <2>1 DEF RustCell
<1>3. T = {}
  <2> SUFFICES ASSUME T # {} PROVE FALSE
    OBVIOUS
  <2>1. T \subseteq Nat
    OBVIOUS
  <2>2. PICK d \in T : \A e \in T : d <= e
    BY <2>1, LeastNat
  <2>3. PICK t \in 1..(K + 1), n \in Positions :
               d = ((K + 1) - t) + (N - n) /\ ~(f[<<t, n>>] <=> Spelled(t, n))
    BY <2>2
  <2>4. d \in Nat /\ \A e \in Nat : bad(e) => e \in T
    BY <2>2
  <2> HIDE DEF T, bad
  <2>5. ASSUME NEW u \in 1..(K + 1), NEW m \in Positions, ((K + 1) - u) + (N - m) < d
        PROVE  f[<<u, m>>] <=> Spelled(u, m)
    <3> DEFINE e == ((K + 1) - u) + (N - m)
    <3>1. e \in Nat /\ ~(d <= e)
      BY <1>1, <2>4, <2>5
    <3>2. ~bad(e)
      BY <3>1, <2>2, <2>4
    <3> QED
      BY <3>2 DEF bad
  <2>6. CASE t = K + 1
    <3>1. f[<<t, n>>] <=> ~endAnchored \/ n = N
      <4>1. t > K
        BY <2>6, <1>1
      <4> QED
        BY <4>1, <1>2
    <3>2. Spelled(K + 1, n) <=> ~endAnchored \/ n = N
      BY SpelledLast
    <3> QED
      BY <3>1, <3>2, <2>3, <2>6
  <2>7. CASE t # K + 1
    <3>1. t \in 1..K /\ ~(t > K) /\ t + 1 \in 1..(K + 1)
      BY <2>7, <1>1
    <3>2. f[<<t + 1, n>>] <=> Spelled(t + 1, n)
      <4>1. ((K + 1) - (t + 1)) + (N - n) < d
        BY <2>3, <3>1, <1>1
      <4> QED
        BY <4>1, <3>1, <2>5
    <3>3. n < N => /\ f[<<t, n + 1>>] <=> Spelled(t, n + 1)
                   /\ f[<<t + 1, n + 1>>] <=> Spelled(t + 1, n + 1)
      <4> SUFFICES ASSUME n < N
                   PROVE  /\ f[<<t, n + 1>>] <=> Spelled(t, n + 1)
                          /\ f[<<t + 1, n + 1>>] <=> Spelled(t + 1, n + 1)
        OBVIOUS
      <4>1. n + 1 \in Positions
        BY <1>1
      <4>2. /\ ((K + 1) - t) + (N - (n + 1)) < d
            /\ ((K + 1) - (t + 1)) + (N - (n + 1)) < d
        BY <2>3, <3>1, <1>1
      <4> QED
        BY <4>1, <4>2, <3>1, <2>5
    <3>4. /\ tokens[t].repeated =>
               (Spelled(t, n) <=>
                  Spelled(t + 1, n) \/ (n < N /\ Fits(tokens[t], text[n + 1]) /\ Spelled(t, n + 1)))
          /\ ~tokens[t].repeated =>
               (Spelled(t, n) <=> n < N /\ Fits(tokens[t], text[n + 1]) /\ Spelled(t + 1, n + 1))
      BY <3>1, SpelledOneByOne
    <3>5. /\ tokens[t].repeated =>
               (f[<<t, n>>] <=> f[<<t + 1, n>>] \/ (n < N /\ Fits(tokens[t], text[n + 1]) /\ f[<<t, n + 1>>]))
          /\ ~tokens[t].repeated =>
               (f[<<t, n>>] <=> n < N /\ Fits(tokens[t], text[n + 1]) /\ f[<<t + 1, n + 1>>])
      BY <3>1, <1>2
    <3> HIDE DEF K, N
    <3> QED
      BY <3>2, <3>3, <3>4, <3>5, <2>3
  <2> QED
    BY <2>6, <2>7
<1>4. ASSUME NEW t \in 1..(K + 1), NEW n \in Positions PROVE f[<<t, n>>] <=> Spelled(t, n)
  <2>1. ((K + 1) - t) + (N - n) \in Nat
    BY <1>1
  <2>2. ~bad(((K + 1) - t) + (N - n))
    BY <2>1, <1>3
  <2> QED
    BY <2>2
<1> QED
  BY <1>4

LEMMA RustMatches ==
  ASSUME ArgsTyping, NEW n \in Positions
  PROVE  MatchesFromRust[<<1, n>>] <=> Spelled(1, n)
<1> DEFINE W == [p \in Cells |-> Spelled(p[1], p[2])]
<1>1. Len(tokens) \in Nat /\ Positions = 0..Len(text) /\ Len(text) \in Nat
  BY DEF ArgsTyping, Positions
<1>2. ASSUME NEW t \in 1..(Len(tokens) + 1), NEW m \in Positions
      PROVE  Spelled(t, m) = RustCell(W, t, m)
  <2>1. CASE t > Len(tokens)
    <3>1. t = Len(tokens) + 1
      BY <2>1, <1>1
    <3>2. Spelled(t, m) <=> ~endAnchored \/ m = Len(text)
      BY <3>1, SpelledLast
    <3>3. Spelled(t, m) \in BOOLEAN
      BY DEF Spelled, SpelledFrom
    <3> HIDE DEF W
    <3> QED
      BY <2>1, <3>2, <3>3 DEF RustCell
  <2>2. CASE ~(t > Len(tokens))
    <3>1. t \in 1..Len(tokens) /\ t + 1 \in 1..(Len(tokens) + 1)
      BY <2>2, <1>1
    <3>2. W[<<t + 1, m>>] = Spelled(t + 1, m)
      BY <3>1 DEF Cells
    <3>3. m < Len(text) => W[<<t, m + 1>>] = Spelled(t, m + 1) /\ W[<<t + 1, m + 1>>] = Spelled(t + 1, m + 1)
      <4>1. m < Len(text) => m + 1 \in Positions
        BY <1>1
      <4> QED
        BY <4>1, <3>1 DEF Cells
    <3>4. /\ tokens[t].repeated =>
               (Spelled(t, m) <=>
                  Spelled(t + 1, m)
                    \/ (m < Len(text) /\ Fits(tokens[t], text[m + 1]) /\ Spelled(t, m + 1)))
          /\ ~tokens[t].repeated =>
               (Spelled(t, m) <=>
                  m < Len(text) /\ Fits(tokens[t], text[m + 1]) /\ Spelled(t + 1, m + 1))
      BY <3>1, SpelledOneByOne
    <3>5. \A a, b : Spelled(a, b) \in BOOLEAN
      BY DEF Spelled, SpelledFrom
    <3> HIDE DEF W
    <3> QED
      BY <2>2, <3>2, <3>3, <3>4, <3>5 DEF RustCell
  <2> QED
    BY <2>1, <2>2
<1>3. W = RustTable(W)
  <2>1. \A p \in Cells : Spelled(p[1], p[2]) = RustCell(W, p[1], p[2])
    BY <1>2 DEF Cells
  <2> QED
    BY <2>1 DEF RustTable
<1> HIDE DEF W
<1>4. MatchesFromRust = RustTable(MatchesFromRust)
  BY <1>3, TablesAreRecursive
<1> QED
  BY <1>1, <1>4, RustComputes

\* A table with the recurrence of Python, by the least number of tokens left.
LEMMA PythonComputes ==
  ASSUME ArgsTyping, NEW f, f = PythonTable(f)
  PROVE  \A t \in 1..(Len(tokens) + 1), n \in Positions : f[<<t, n>>] <=> Spelled(t, n)
<1> DEFINE K == Len(tokens)
           N == Len(text)
           bad(d) == \E t \in 1..(K + 1), n \in Positions :
                       d = (K + 1) - t /\ ~(f[<<t, n>>] <=> Spelled(t, n))
           T == {d \in Nat : bad(d)}
<1>1. K \in Nat /\ N \in Nat /\ Positions = 0..N
  BY DEF ArgsTyping, Positions
<1>2. T = {}
  <2> SUFFICES ASSUME T # {} PROVE FALSE
    OBVIOUS
  <2>1. T \subseteq Nat
    OBVIOUS
  <2>2. PICK d \in T : \A e \in T : d <= e
    BY <2>1, LeastNat
  <2>3. PICK t \in 1..(K + 1), n \in Positions :
               d = (K + 1) - t /\ ~(f[<<t, n>>] <=> Spelled(t, n))
    BY <2>2
  <2>4. d \in Nat /\ \A e \in Nat : bad(e) => e \in T
    BY <2>2
  <2> HIDE DEF T, bad
  <2>5. f[<<t, n>>] <=> PythonCell(f, t, n)
    BY CellOfTable
  <2>6. CASE t = K + 1
    <3>1. t > K
      BY <2>6, <1>1
    <3>2. f[<<t, n>>] <=> ~endAnchored \/ n = N
      BY <2>5, <3>1 DEF PythonCell
    <3>3. Spelled(K + 1, n) <=> ~endAnchored \/ n = N
      BY SpelledLast
    <3> QED
      BY <3>2, <3>3, <2>3, <2>6
  <2>7. CASE t # K + 1
    <3>1. t \in 1..K /\ ~(t > K) /\ t + 1 \in 1..(K + 1) /\ (K + 1) - (t + 1) < d
      BY <2>3, <2>7, <1>1
    <3>2. \A m \in Positions : f[<<t + 1, m>>] <=> Spelled(t + 1, m)
      <4> DEFINE e == (K + 1) - (t + 1)
      <4>1. e \in Nat /\ ~(d <= e)
        BY <1>1, <2>4, <3>1
      <4>2. ~bad(e)
        BY <4>1, <2>2, <2>4
      <4> QED
        BY <4>2, <3>1 DEF bad
    <3>3. Spelled(t, n) <=>
            \E l \in Positions : TokenStep(text, tokens, t, n, l) /\ Spelled(t + 1, l)
      BY <3>1, SpelledNext
    <3>4. CASE tokens[t].repeated
      <4>1. f[<<t, n>>] <=> \E k \in n..N : /\ \A j \in (n + 1)..k : Fits(tokens[t], text[j])
                                            /\ f[<<t + 1, k>>]
        BY <2>5, <3>1, <3>4 DEF PythonCell
      <4>2. \A k : k \in n..N <=> k \in Positions /\ n <= k
        BY <1>1
      <4> QED
        BY <4>1, <4>2, <3>2, <3>3, <3>4, <2>3 DEF TokenStep
    <3>5. CASE ~tokens[t].repeated
      <4>1. f[<<t, n>>] <=> n < N /\ Fits(tokens[t], text[n + 1]) /\ f[<<t + 1, n + 1>>]
        BY <2>5, <3>1, <3>5 DEF PythonCell
      <4>2. n < N <=> n + 1 \in Positions
        BY <1>1
      <4> QED
        BY <4>1, <4>2, <3>2, <3>3, <3>5, <2>3 DEF TokenStep
    <3> QED
      BY <3>4, <3>5
  <2> QED
    BY <2>6, <2>7
<1>3. ASSUME NEW t \in 1..(K + 1), NEW n \in Positions PROVE f[<<t, n>>] <=> Spelled(t, n)
  <2>1. (K + 1) - t \in Nat
    BY <1>1
  <2>2. ~bad((K + 1) - t)
    BY <2>1, <1>2
  <2> QED
    BY <2>2
<1> QED
  BY <1>3

LEMMA PythonMatches ==
  ASSUME ArgsTyping, NEW n \in Positions
  PROVE  MatchesFromPython[<<1, n>>] <=> Spelled(1, n)
<1> DEFINE W == [p \in Cells |-> Spelled(p[1], p[2])]
<1>1. Len(tokens) \in Nat /\ Positions = 0..Len(text) /\ Len(text) \in Nat
  BY DEF ArgsTyping, Positions
<1>2. ASSUME NEW t \in 1..(Len(tokens) + 1), NEW m \in Positions
      PROVE  Spelled(t, m) = PythonCell(W, t, m)
  <2>1. CASE t > Len(tokens)
    <3>1. t = Len(tokens) + 1
      BY <2>1, <1>1
    <3>2. Spelled(t, m) <=> ~endAnchored \/ m = Len(text)
      BY <3>1, SpelledLast
    <3>3. Spelled(t, m) \in BOOLEAN
      BY DEF Spelled, SpelledFrom
    <3> HIDE DEF W
    <3> QED
      BY <2>1, <3>2, <3>3 DEF PythonCell
  <2>2. CASE ~(t > Len(tokens))
    <3>1. t \in 1..Len(tokens) /\ t + 1 \in 1..(Len(tokens) + 1)
      BY <2>2, <1>1
    <3>2. \A k \in Positions : W[<<t + 1, k>>] = Spelled(t + 1, k)
      BY <3>1 DEF Cells
    <3>3. Spelled(t, m) <=>
            \E l \in Positions : TokenStep(text, tokens, t, m, l) /\ Spelled(t + 1, l)
      BY <3>1, SpelledNext
    <3>4. \A a, b : Spelled(a, b) \in BOOLEAN
      BY DEF Spelled, SpelledFrom
    <3> HIDE DEF W
    <3>5. CASE tokens[t].repeated
      <4>1. \A k : k \in m..Len(text) <=> k \in Positions /\ m <= k
        BY <1>1
      <4>2. Spelled(t, m) <=>
              \E k \in m..Len(text) : /\ \A j \in (m + 1)..k : Fits(tokens[t], text[j])
                                      /\ W[<<t + 1, k>>]
        BY <4>1, <3>2, <3>3, <3>5 DEF TokenStep
      <4> QED
        BY <4>2, <3>4, <3>5, <2>2 DEF PythonCell
    <3>6. CASE ~tokens[t].repeated
      <4>1. m < Len(text) <=> m + 1 \in Positions
        BY <1>1
      <4>2. Spelled(t, m) <=>
              m < Len(text) /\ Fits(tokens[t], text[m + 1]) /\ W[<<t + 1, m + 1>>]
        BY <4>1, <3>2, <3>3, <3>6 DEF TokenStep
      <4> QED
        BY <4>2, <3>4, <3>6, <2>2 DEF PythonCell
    <3> QED
      BY <3>5, <3>6
  <2> QED
    BY <2>1, <2>2
<1>3. W = PythonTable(W)
  <2>1. \A p \in Cells : Spelled(p[1], p[2]) = PythonCell(W, p[1], p[2])
    BY <1>2 DEF Cells
  <2> QED
    BY <2>1 DEF PythonTable
<1> HIDE DEF W
<1>4. MatchesFromPython = PythonTable(MatchesFromPython)
  BY <1>3, TablesAreRecursive
<1> QED
  BY <1>1, <1>4, PythonComputes

-----------------------------------------------------------------------------
(* The search, and what the steps of args_match keep.                      *)

LEMMA SearchFinds ==
  ASSUME ArgsTyping, NEW n \in Positions
  PROVE  MatchesAt(n) <=> Spelled(1, n)
  BY RustMatches, PythonMatches DEF MatchesAt

LEMMA SearchStays ==
  ASSUME UNCHANGED <<pattern, text, tokens, endAnchored>>
  PROVE  \A n : Spelled(1, n)' <=> Spelled(1, n)
<1>1. Positions' = Positions
  BY DEF Positions
<1> QED
  BY <1>1 DEF Spelled, SpelledFrom

\* The invariant, with the positions tried named as the matchers name them.
LEMMA ArgsInvHas ==
  ASSUME leaf = "args_match"
  PROVE  ArgsInv <=>
           /\ ArgsTyping
           /\ matchPc \in {"parse", "search"} =>
                ReadTo(at, tokens, startAnchored, endAnchored) /\ verdict = "none"
           /\ matchPc = "parse" => LastToken(at, tokens) /\ from = 0
           /\ matchPc = "search" =>
                /\ at = Len(pattern) + 1
                /\ startAnchored => from <= 1
                /\ \A n \in 0..(from - 1) : ~Spelled(1, n)
           /\ matchPc = "done" =>
                /\ verdict = "invalid" <=> ~WellFormed
                /\ verdict # "invalid" => (verdict = "match" <=> Found)
  BY DEF ArgsInv, Spelled

LEMMA RefusalKeepsInv ==
  ASSUME ArgsInv, leaf = "args_match", ParseRefuse
  PROVE  ArgsInv'
<1>1. /\ matchPc = "parse" /\ verdict' = "invalid" /\ matchPc' = "done" /\ leaf' = leaf
      /\ UNCHANGED <<pattern, text, at, tokens, startAnchored, endAnchored, from>>
  BY DEF ParseRefuse, Misplaced, Reading, Answer, inputs, search
<1>2. ArgsTyping /\ ReadTo(at, tokens, startAnchored, endAnchored) /\ LastToken(at, tokens)
  BY <1>1 DEF ArgsInv
<1>3. at \in 1..Len(pattern)
  <2>1. at <= Len(pattern)
    <3>1. Len(pattern) \in Nat /\ at \in Nat
      BY <1>2 DEF ArgsTyping
    <3> QED
      BY <3>1 DEF ParseRefuse, Misplaced, Reading
  <2> QED
    BY <1>2, <2>1 DEF ArgsTyping
<1>4. ~WellFormed
  BY <1>2, <1>3, RefusedIsNotGood DEF ParseRefuse, ArgsTyping, ReadTo
<1>5. ~WellFormed'
  BY <1>1, <1>4, PatternStays
<1>6. ArgsTyping'
  BY <1>1, <1>2 DEF ArgsTyping
<1> QED
  BY <1>1, <1>5, <1>6 DEF ArgsInv

LEMMA DoneKeepsInv ==
  ASSUME ArgsInv, leaf = "args_match", ParseDone
  PROVE  ArgsInv'
<1>1. /\ matchPc = "parse" /\ matchPc' = "search" /\ at > Len(pattern) /\ leaf' = leaf
      /\ UNCHANGED <<pattern, text, at, tokens, startAnchored, endAnchored, from, verdict>>
  BY DEF ParseDone, inputs, search
<1>2. /\ ArgsTyping /\ ReadTo(at, tokens, startAnchored, endAnchored)
      /\ from = 0 /\ verdict = "none"
  BY <1>1 DEF ArgsInv
<1>3. at = Len(pattern) + 1
  <2>1. Len(pattern) \in Nat /\ at \in 1..(Len(pattern) + 1)
    BY <1>2 DEF ArgsTyping
  <2> QED
    BY <1>1, <2>1
<1>4. ReadTo(at, tokens, startAnchored, endAnchored)'
  BY <1>1, <1>2, PatternStays
<1>5. ArgsTyping'
  BY <1>1, <1>2 DEF ArgsTyping
<1>6. from' = 0 /\ 0 <= 1 /\ \A n \in 0..(from' - 1) : FALSE
  BY <1>1, <1>2
<1>7. at' = Len(pattern') + 1 /\ verdict' = "none"
  BY <1>1, <1>2, <1>3
<1> QED
  BY <1>1, <1>4, <1>5, <1>6, <1>7 DEF ArgsInv

\* The search goes on: one more position is tried, and spelled by no tokens.
LEMMA SearchOnKeepsInv ==
  ASSUME ArgsInv, leaf = "args_match", SearchOn
  PROVE  ArgsInv'
<1>1. /\ matchPc = "search" /\ matchPc' = "search" /\ from <= LastStart /\ ~MatchesAt(from)
      /\ from' = from + 1 /\ leaf' = leaf
      /\ UNCHANGED <<pattern, text, at, tokens, startAnchored, endAnchored, verdict>>
  BY DEF SearchOn, inputs
<1>2. /\ ArgsTyping /\ ReadTo(at, tokens, startAnchored, endAnchored) /\ verdict = "none"
      /\ at = Len(pattern) + 1 /\ \A n \in 0..(from - 1) : ~Spelled(1, n)
  BY <1>1, ArgsInvHas
<1>3. /\ from \in Positions /\ from + 1 \in 0..(Len(text) + 1)
      /\ startAnchored => from + 1 <= 1
      /\ \A n \in 0..((from + 1) - 1) : n \in 0..(from - 1) \/ n = from
  <2>1. Len(text) \in Nat /\ from \in 0..(Len(text) + 1)
    BY <1>2 DEF ArgsTyping
  <2> QED
    BY <1>1, <2>1 DEF LastStart, Positions
<1>4. \A n \in 0..((from + 1) - 1) : ~Spelled(1, n)
  BY <1>1, <1>2, <1>3, SearchFinds
<1>5. \A n \in 0..(from' - 1) : ~Spelled(1, n)'
  BY <1>1, <1>4, SearchStays
<1>6. ReadTo(at, tokens, startAnchored, endAnchored)'
  BY <1>1, <1>2, PatternStays
<1>7. ArgsTyping'
  BY <1>1, <1>2, <1>3 DEF ArgsTyping
<1>8. at' = Len(pattern') + 1 /\ verdict' = "none" /\ (startAnchored' => from' <= 1)
  BY <1>1, <1>2, <1>3
<1> QED
  BY <1>1, <1>5, <1>6, <1>7, <1>8 DEF ArgsInv, Spelled

\* The search ends: at a position the tokens spell, or when all are tried.
LEMMA SearchEndKeepsInv ==
  ASSUME ArgsInv, leaf = "args_match", SearchFound \/ SearchFailed
  PROVE  ArgsInv'
<1>1. /\ matchPc = "search" /\ matchPc' = "done" /\ leaf' = leaf
      /\ UNCHANGED <<pattern, text, at, tokens, startAnchored, endAnchored, from>>
  BY DEF SearchFound, SearchFailed, Answer, inputs, search
<1>2. /\ ArgsTyping /\ ReadTo(Len(pattern) + 1, tokens, startAnchored, endAnchored)
      /\ \A n \in 0..(from - 1) : ~Spelled(1, n)
  BY <1>1, ArgsInvHas
<1>3. Len(text) \in Nat /\ from \in 0..(Len(text) + 1) /\ startAnchored \in BOOLEAN
  BY <1>2 DEF ArgsTyping
<1>4. /\ WellFormed
      /\ Found <=> \E n \in Positions : Spelled(1, n) /\ (startAnchored => n = 0)
  BY <1>2, FoundIsSpelled DEF ArgsTyping, Spelled
<1>5. verdict' # "invalid" /\ (verdict' = "match" <=> Found)
  <2>1. CASE SearchFound
    <3>1. /\ verdict' = "match" /\ MatchesAt(from) /\ from \in Positions
          /\ startAnchored => from = 0
      BY <1>3, <2>1 DEF SearchFound, Answer, LastStart, Positions
    <3> QED
      BY <1>2, <1>4, <3>1, SearchFinds
  <2>2. CASE SearchFailed
    <3>1. verdict' = "no match" /\ from > LastStart
      BY <2>2 DEF SearchFailed, Answer
    <3>2. ASSUME NEW n \in Positions, startAnchored => n = 0 PROVE n \in 0..(from - 1)
      <4>1. n \in Nat /\ n <= Len(text) /\ from \in Nat
        BY <1>3 DEF Positions
      <4>2. n < from
        <5>1. CASE startAnchored
          BY <3>1, <3>2, <4>1, <5>1 DEF LastStart
        <5>2. CASE ~startAnchored
          <6>1. LastStart = Len(text)
            BY <5>2 DEF LastStart
          <6>2. from > Len(text) /\ Len(text) \in Nat
            BY <1>3, <3>1, <6>1
          <6> QED
            BY <4>1, <6>2
        <5> QED
          BY <5>1, <5>2
      <4> QED
        BY <4>1, <4>2
    <3>3. ~Found
      BY <1>2, <1>4, <3>2
    <3> QED
      BY <3>1, <3>3
  <2> QED
    BY <2>1, <2>2
<1>6. WellFormed' /\ (Found' <=> Found)
  BY <1>1, <1>4, PatternStays
<1>7. ArgsTyping'
  BY <1>1, <1>2 DEF ArgsTyping
<1> QED
  BY <1>1, <1>5, <1>6, <1>7 DEF ArgsInv

LEMMA ArgsInvNext == ArgsInv /\ [MatchNext]_matchVars => ArgsInv'
<1> SUFFICES ASSUME ArgsInv, [MatchNext]_matchVars PROVE ArgsInv'
  OBVIOUS
<1>1. leaf' = leaf
  BY DEF MatchNext, Parse, ParseStart, ParseEnd, ParseEscape, ParseAny, ParseLiteral, ParseRepeat,
         ParseRefuse, ParseDone, AddToken, SearchFound, SearchOn, SearchFailed, BeginRow,
         FillCell, EndRow, LastRow, Answer, inputs, matchVars
<1>2. CASE leaf # "args_match"
  BY <1>1, <1>2 DEF ArgsInv
<1>3. CASE leaf = "args_match" /\ UNCHANGED matchVars
  <2>1. /\ UNCHANGED <<pattern, text, at, tokens, startAnchored, endAnchored, from, verdict, matchPc>>
    BY <1>3 DEF matchVars, inputs, search
  <2>2. /\ Positions' = Positions /\ (WellFormed' <=> WellFormed) /\ (Found' <=> Found)
        /\ ReadTo(at, tokens, startAnchored, endAnchored)
             => ReadTo(at, tokens, startAnchored, endAnchored)'
        /\ LastToken(at, tokens) => LastToken(at, tokens)'
    BY <2>1, PatternStays
  <2>3. \A n : Spelled(1, n)' <=> Spelled(1, n)
    BY <2>1, SearchStays
  <2>4. ArgsTyping => ArgsTyping'
    BY <2>1 DEF ArgsTyping
  <2>5. \A n : SpelledFrom(tokens, endAnchored, 1, n)' <=> SpelledFrom(tokens, endAnchored, 1, n)
    BY <2>3 DEF Spelled
  <2> QED
    BY <1>1, <1>3, <2>1, <2>2, <2>4, <2>5 DEF ArgsInv
<1>4. CASE leaf = "args_match" /\ MatchNext
  <2>1. matchPc \in {"parse", "search", "done"}
    BY <1>4 DEF ArgsInv, ArgsTyping
  <2>2. ~(BeginRow \/ FillCell \/ EndRow \/ LastRow)
    BY <2>1 DEF BeginRow, FillCell, EndRow, LastRow
  <2> QED
    BY <1>4, <2>2, ParseKeepsInv, RefusalKeepsInv, DoneKeepsInv, SearchOnKeepsInv,
       SearchEndKeepsInv DEF MatchNext, Parse
<1> QED
  BY <1>2, <1>3, <1>4

\* The parser of args_match refuses a pattern exactly when it is outside the language the
\* documentation describes, for every pattern: nothing in the language is lost, and nothing
\* outside it ever decides about a call (parse_args_pattern).
THEOREM ParserAcceptsTheLanguage == MatchSpec => []OnlyWellFormedAccepted
<1>1. ArgsInv => OnlyWellFormedAccepted
  BY DEF ArgsInv, OnlyWellFormedAccepted
<1> QED
  BY <1>1, ArgsInvInit, ArgsInvNext, PTL DEF MatchSpec

\* args_match answers "match" exactly when the text has a piece the pattern spells, at its
\* start or end where the pattern is anchored, for every pattern the parser accepts and every
\* text, in both runtimes: the one that takes a repeated character one at a time and the one
\* that takes as many as it can (args_match_matches, matches_from).
THEOREM ArgsSearchIsCorrect == MatchSpec => []ArgsMatchIsSearch
<1>1. ArgsInv => ArgsMatchIsSearch
  BY DEF ArgsInv, ArgsMatchIsSearch
<1> QED
  BY <1>1, ArgsInvInit, ArgsInvNext, PTL DEF MatchSpec
=============================================================================
