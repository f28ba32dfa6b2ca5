---------------------------- MODULE CursorProofs ----------------------------
(***************************************************************************)
(* Lemmas on the functions that read the source: whatever the text, each   *)
(* of them keeps the two-character buffer in step with it, and records in  *)
(* the SourceManager exactly the characters that it takes.                 *)
(***************************************************************************)
EXTENDS Cursor, TextProofs

(* A cursor between two calls of the functions that read the source.       *)
CursorOK(c) == c \in CursorType /\ LookaheadOK(c) /\ KeptOK(c.lines, text, NL, c.taken)

(* One that holds a character: Lex() calls CurChar() first.                *)
Loaded(c) == CursorOK(c) /\ c.valid # 0

(* The fields that a step of the reader changes keep their types.          *)
LEMMA MovedType ==
  ASSUME NEW c \in CursorType, NEW x \in Char, NEW v \in 0..2, NEW k \in 0..(ColWidth - 1),
         NEW a \in Nat
  PROVE  [c EXCEPT !.cur = x, !.valid = v, !.col = k, !.at = a] \in CursorType
BY CursorAssumption DEF CursorType

LEMMA PeekedType ==
  ASSUME NEW c \in CursorType, NEW x \in Char, NEW v \in 0..2
  PROVE  [c EXCEPT !.nxt = x, !.valid = v] \in CursorType
BY DEF CursorType

LEMMA LoadedType ==
  ASSUME NEW c \in CursorType, NEW v \in 0..2
  PROVE  [c EXCEPT !.valid = v] \in CursorType
BY DEF CursorType

(* A new lexer's cursor is in step with the source.                        *)
LEMMA NewCursorOK == CursorOK(NewCursor)
<1>1. NewCursor \in CursorType /\ LookaheadOK(NewCursor)
  BY CursorAssumption DEF NewCursor, CursorType, LookaheadOK
<1>2. KeptOK(<< >>, text, NL, 0)
  BY DEF KeptOK, RecordedIn, LastLineOK
<1> QED
  BY <1>1, <1>2 DEF CursorOK, NewCursor

(* GetChar() takes the next character out of the source, once, and records *)
(* it.                                                                     *)
LEMMA GetCharOK ==
  ASSUME text \in Seq(Char), NEW c \in CursorType, KeptOK(c.lines, text, NL, c.taken),
         NEW g, g = AfterGetChar(c)
  PROVE  /\ GetChar(c) \in Char /\ g \in CursorType /\ KeptOK(g.lines, text, NL, g.taken)
         /\ g.taken = IF c.taken < Len(text) THEN c.taken + 1 ELSE c.taken
         /\ g.cur = c.cur /\ g.valid = c.valid /\ g.at = c.at /\ g.nxt = c.nxt /\ g.col = c.col
         /\ g.line = c.line
<1>1. c.taken \in Nat /\ c.lines \in Seq(Seq(Char))
  BY DEF CursorType
<1>2. GetChar(c) \in Char
  BY <1>1, CursorAssumption DEF GetChar, SourceHasMore
<1>3. CASE c.taken < Len(text)
  <2> DEFINE n == LineOf(text, NL, c.taken + 1)
             lines == AddCharacter(c.lines, n, GetChar(c))
             taken == c.taken + 1
  <2>1. taken \in Nat /\ n \in Nat
    BY <1>1, LineOfType
  <2> HIDE DEF n
  <2>2. lines \in Seq(Seq(Char))
    BY <1>1, <1>2, <2>1, AddCharacterType
  <2>3. g = [c EXCEPT !.taken = taken, !.lines = lines]
    BY <1>3 DEF AfterGetChar, SourceHasMore, n
  <2>5. KeptOK(lines, text, NL, taken)
    BY <1>1, <1>3, AddCharacterOK DEF n, GetChar, SourceHasMore
  <2> HIDE DEF lines, taken
  <2>4. /\ g \in CursorType /\ g.taken = taken /\ g.lines = lines
        /\ g.cur = c.cur /\ g.valid = c.valid /\ g.at = c.at /\ g.nxt = c.nxt /\ g.col = c.col
        /\ g.line = c.line
    BY <2>1, <2>2, <2>3 DEF CursorType
  <2> QED
    BY <1>2, <1>3, <2>4, <2>5 DEF taken
<1>4. CASE ~(c.taken < Len(text))
  BY <1>2, <1>4 DEF AfterGetChar, SourceHasMore
<1> QED
  BY <1>3, <1>4

(* NextChar() moves the reader by one, past the end at most once.          *)
LEMMA NextCharMeans ==
  ASSUME text \in Seq(Char), NEW c, Loaded(c)
  PROVE  /\ Loaded(NextChar(c)) /\ NextChar(c).valid = 1
         /\ NextChar(c).at = IF c.at <= Len(text) THEN c.at + 1 ELSE c.at
         /\ NextChar(c).line = c.line /\ NextChar(c).col = (c.col + 1) % ColWidth
<1> DEFINE n == NextChar(c)
           g == AfterGetChar(c)
           col == (c.col + 1) % ColWidth
           at == IF c.at <= Len(text) THEN c.at + 1 ELSE c.at
<1>1. c \in CursorType /\ LookaheadOK(c) /\ KeptOK(c.lines, text, NL, c.taken) /\ c.valid \in 1..2
  BY DEF Loaded, CursorOK, CursorType
<1>2. col \in 0..(ColWidth - 1) /\ at \in Nat /\ c.nxt \in Char /\ c.taken \in Nat
  BY <1>1, CursorAssumption DEF CursorType
<1>3. CASE c.valid = 2
  <2>1. c.valid - 1 = 1 /\ c.valid > 1
    BY <1>3
  <2>2. n = [c EXCEPT !.cur = c.nxt, !.valid = 1, !.col = col, !.at = at]
    BY <2>1, Zenon DEF NextChar
  <2> HIDE DEF n, col
  <2>3. /\ n \in CursorType /\ n.valid = 1 /\ n.cur = c.nxt /\ n.at = at /\ n.taken = c.taken
        /\ n.lines = c.lines /\ n.line = c.line /\ n.col = col
    <3> HIDE DEF at, g
    <3>1. n \in CursorType
      <4>1. 1 \in 0..2
        OBVIOUS
      <4> QED
        BY <1>1, <1>2, <2>2, <4>1, MovedType, Zenon
    <3>2. n.valid = 1 /\ n.cur = c.nxt /\ n.at = at /\ n.taken = c.taken /\ n.lines = c.lines
          /\ n.line = c.line /\ n.col = col
      BY <1>1, <2>2 DEF CursorType
    <3> QED
      BY <3>1, <3>2
  <2>4. LookaheadOK(n)
    BY <1>1, <1>2, <1>3, <2>3 DEF LookaheadOK, CharAt
  <2>5. Loaded(n)
    BY <1>1, <2>3, <2>4 DEF Loaded, CursorOK
  <2> QED
    BY <2>3, <2>5 DEF n, col
<1>4. CASE c.valid = 1
  <2>1. n = [g EXCEPT !.cur = GetChar(c), !.col = col, !.at = at]
    BY <1>4 DEF NextChar
  <2> HIDE DEF n, g, col
  <2>2. /\ GetChar(c) \in Char /\ g \in CursorType
        /\ g.taken = IF c.taken < Len(text) THEN c.taken + 1 ELSE c.taken
        /\ g.valid = 1 /\ KeptOK(g.lines, text, NL, g.taken) /\ g.line = c.line
    BY <1>1, <1>4, GetCharOK DEF g
  <2>3. /\ n \in CursorType /\ n.valid = 1 /\ n.cur = GetChar(c) /\ n.at = at /\ n.taken = g.taken
        /\ n.lines = g.lines /\ n.line = c.line /\ n.col = col
    <3> HIDE DEF at
    <3>1. n = [g EXCEPT !.cur = GetChar(c), !.valid = 1, !.col = col, !.at = at]
      BY <1>2, <2>1, <2>2 DEF CursorType
    <3> QED
      BY <1>2, <2>2, <3>1 DEF CursorType
  <2>4. LookaheadOK(n)
    BY <1>1, <1>2, <1>4, <2>2, <2>3 DEF LookaheadOK, CharAt, GetChar, SourceHasMore
  <2>5. Loaded(n)
    BY <2>2, <2>3, <2>4 DEF Loaded, CursorOK
  <2> QED
    BY <2>3, <2>5 DEF n, col
<1> QED
  BY <1>1, <1>3, <1>4

LEMMA NextCharOK ==
  ASSUME text \in Seq(Char), NEW c, Loaded(c)
  PROVE  Loaded(NextChar(c))
BY NextCharMeans

(* PeekChar() fills the second place without moving the reader.            *)
LEMMA PeekCharMeans ==
  ASSUME text \in Seq(Char), NEW c, Loaded(c)
  PROVE  /\ Loaded(PeekChar(c)) /\ PeekChar(c).valid = 2
         /\ PeekChar(c).at = c.at /\ PeekChar(c).cur = c.cur
         /\ PeekChar(c).line = c.line /\ PeekChar(c).col = c.col
<1> DEFINE p == PeekChar(c)
           g == AfterGetChar(c)
<1>1. c \in CursorType /\ LookaheadOK(c) /\ KeptOK(c.lines, text, NL, c.taken) /\ c.valid \in 1..2 /\ c.taken \in Nat /\ c.at \in Nat
  BY DEF Loaded, CursorOK, CursorType
<1>2. CASE c.valid = 2
  BY <1>2 DEF PeekChar, Loaded, CursorOK
<1>3. CASE c.valid = 1
  <2>1. p = [g EXCEPT !.nxt = GetChar(c), !.valid = @ + 1]
    BY <1>3 DEF PeekChar
  <2> HIDE DEF p, g
  <2>2. /\ GetChar(c) \in Char /\ g \in CursorType
        /\ g.taken = IF c.taken < Len(text) THEN c.taken + 1 ELSE c.taken
        /\ g.valid = 1 /\ g.cur = c.cur /\ g.at = c.at /\ KeptOK(g.lines, text, NL, g.taken)
        /\ g.line = c.line /\ g.col = c.col
    BY <1>1, <1>3, GetCharOK DEF g
  <2>3. g.valid + 1 = 2
    BY <2>2
  <2>4. p = [g EXCEPT !.nxt = GetChar(c), !.valid = 2]
    BY <2>1, <2>3, Zenon
  <2>5. /\ p \in CursorType /\ p.valid = 2 /\ p.cur = c.cur /\ p.nxt = GetChar(c)
        /\ p.at = c.at /\ p.taken = g.taken /\ p.lines = g.lines
        /\ p.line = c.line /\ p.col = c.col
    <3>1. p \in CursorType
      <4>1. 2 \in 0..2
        OBVIOUS
      <4> QED
        BY <2>2, <2>4, <4>1, PeekedType, Zenon
    <3>2. /\ p.valid = 2 /\ p.cur = c.cur /\ p.nxt = GetChar(c) /\ p.at = c.at
          /\ p.taken = g.taken /\ p.lines = g.lines /\ p.line = c.line /\ p.col = c.col
      BY <2>2, <2>4 DEF CursorType
    <3> QED
      BY <3>1, <3>2
  <2>6. LookaheadOK(p)
    BY <1>1, <1>3, <2>2, <2>5 DEF LookaheadOK, CharAt, GetChar, SourceHasMore
  <2>7. Loaded(p)
    BY <2>2, <2>5, <2>6 DEF Loaded, CursorOK
  <2> QED
    BY <2>5, <2>7 DEF p
<1> QED
  BY <1>1, <1>2, <1>3

LEMMA PeekCharOK ==
  ASSUME text \in Seq(Char), NEW c, Loaded(c)
  PROVE  Loaded(PeekChar(c))
BY PeekCharMeans

(* CurChar() loads the first character of the text, the first time.        *)
LEMMA CurCharOK ==
  ASSUME text \in Seq(Char), NEW c, CursorOK(c)
  PROVE  /\ Loaded(CurChar(c))
         /\ c.valid = 0 => CurChar(c).at = 1 /\ CurChar(c).valid = 1
                            /\ CurChar(c).line = c.line /\ CurChar(c).col = (c.col + 1) % ColWidth
         /\ c.valid # 0 => CurChar(c) = c
<1> DEFINE n == NextChar(c)
           g == AfterGetChar(c)
           u == CurChar(c)
           col == (c.col + 1) % ColWidth
<1>1. c \in CursorType /\ LookaheadOK(c) /\ KeptOK(c.lines, text, NL, c.taken)
  BY DEF CursorOK
<1>2. CASE c.valid # 0
  BY <1>1, <1>2 DEF CurChar, Loaded, CursorOK
<1>3. CASE c.valid = 0
  <2>1. c.at = 0 /\ c.taken = 0 /\ col \in 0..(ColWidth - 1)
    BY <1>1, <1>3, CursorAssumption DEF LookaheadOK, CursorType
  <2>2. 0 <= Len(text) /\ 0 + 1 = 1
    OBVIOUS
  <2>3. n = [g EXCEPT !.cur = GetChar(c), !.col = col, !.at = 1]
    BY <1>3, <2>1, <2>2 DEF NextChar
  <2>4. u = [n EXCEPT !.valid = @ + 1]
    BY <1>3 DEF CurChar
  <2> HIDE DEF n, g, u, col
  <2>5. /\ GetChar(c) \in Char /\ g \in CursorType
        /\ g.taken = IF 0 < Len(text) THEN 1 ELSE 0
        /\ g.valid = 0 /\ KeptOK(g.lines, text, NL, g.taken) /\ g.line = c.line
    BY <1>1, <1>3, <2>1, GetCharOK DEF g
  <2>6. n = [g EXCEPT !.cur = GetChar(c), !.valid = 0, !.col = col, !.at = 1]
    BY <2>3, <2>5 DEF CursorType
  <2>7. /\ n \in CursorType /\ n.valid = 0 /\ n.cur = GetChar(c) /\ n.at = 1 /\ n.taken = g.taken
        /\ n.lines = g.lines /\ n.line = c.line /\ n.col = col
    BY <2>1, <2>5, <2>6 DEF CursorType
  <2>8. /\ u \in CursorType /\ u.valid = 1 /\ u.cur = GetChar(c) /\ u.at = 1 /\ u.taken = g.taken
        /\ u.lines = g.lines /\ u.line = c.line /\ u.col = col
    <3>1. u = [n EXCEPT !.valid = 1]
      BY <2>4, <2>7 DEF CursorType
    <3>2. u \in CursorType
      <4>1. n \in CursorType /\ 1 \in 0..2
        BY <2>7
      <4> QED
        BY <3>1, <4>1, Zenon, LoadedType
    <3> QED
      BY <2>7, <3>1, <3>2 DEF CursorType
  <2>9. LookaheadOK(u)
    BY <2>1, <2>5, <2>8 DEF LookaheadOK, CharAt, GetChar, SourceHasMore
  <2>10. Loaded(u)
    BY <2>5, <2>8, <2>9 DEF Loaded, CursorOK
  <2> QED
    BY <1>3, <2>8, <2>10 DEF u, col
<1> QED
  BY <1>2, <1>3

(* Starting a new line touches the location only.                          *)
LEMMA RelocateOK ==
  ASSUME NEW c, Loaded(c)
  PROVE  Loaded([c EXCEPT !.line = @ + 1, !.col = 0])
<1> DEFINE r == [c EXCEPT !.line = @ + 1, !.col = 0]
<1>1. c \in CursorType /\ LookaheadOK(c) /\ KeptOK(c.lines, text, NL, c.taken) /\ c.valid # 0
  BY DEF Loaded, CursorOK
<1>2. c.line + 1 \in Nat /\ 0 \in 0..(ColWidth - 1)
  BY <1>1, CursorAssumption DEF CursorType
<1>3. r \in CursorType
  BY <1>1, <1>2 DEF CursorType
<1>4. /\ r.valid = c.valid /\ r.cur = c.cur /\ r.nxt = c.nxt
      /\ r.at = c.at /\ r.taken = c.taken /\ r.lines = c.lines
  BY <1>1 DEF CursorType
<1> HIDE DEF r
<1>5. LookaheadOK(r)
  BY <1>1, <1>4 DEF LookaheadOK
<1>6. Loaded(r)
  BY <1>1, <1>3, <1>4, <1>5 DEF Loaded, CursorOK
<1> QED
  BY <1>6 DEF r

=============================================================================
