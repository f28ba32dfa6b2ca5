---------------------------- MODULE LexerProofs ----------------------------
(***************************************************************************)
(* For any texts whatever: however Lex(), StringToken() and NumberToken()  *)
(* mix their calls of NextChar() and PeekChar(), the two-character buffer  *)
(* stays in step with the source, the SourceManager holds what was read,   *)
(* the tokens deliver the text, begin and end where they stand, a string's *)
(* value is its text, escapes and all, and a number's its digits.          *)
(***************************************************************************)
EXTENDS LexerProperties, CursorProofs, SequenceTheorems

(* Lookahead is not inductive: NextChar() is right only once CurChar() has *)
(* loaded the first character, which the control state implies.            *)
CursorInv ==
  /\ text \in Seq(Char)
  /\ CursorOK(lx)
  /\ pc # "idle" => lx.valid # 0

(* Where the end of a token leaves the cursor.                             *)
LEMMA StringEndCursor ==
  ASSUME NEW c, NEW w, NEW str, StringEnd(c, w, str)
  PROVE  lx' = NextChar(c)
BY DEF StringEnd, Return, ReturnUtf8

LEMMA StringCharCursor ==
  ASSUME NEW c, NEW ch, StringChar(c, ch)
  PROVE  lx' = NextChar(c)
BY StringEndCursor DEF StringChar, ReturnUtf8, Return

LEMMA NumberEndCursor ==
  ASSUME NEW c, NEW str, NEW isFloat, NumberEnd(c, str, isFloat)
  PROVE  lx' = c
BY DEF NumberEnd, Return

LEMMA NumberNextCursor ==
  ASSUME NEW c, NEW state, NEW str, NEW isFloat, NumberNext(c, state, str, isFloat)
  PROVE  lx' = c
<1>1. CASE c.cur = "." /\ state # "frac" /\ tk.base # 16
  BY <1>1 DEF NumberNext
<1>2. CASE c.cur \in {"e", "E"} /\ state # "exp"
  BY <1>2, NumberEndCursor DEF NumberNext
<1>3. CASE ~(c.cur = "." /\ state # "frac" /\ tk.base # 16) /\ ~(c.cur \in {"e", "E"} /\ state # "exp")
  BY <1>3, NumberEndCursor DEF NumberNext
<1> QED
  BY <1>1, <1>2, <1>3

(* Each iteration of the lexer leaves the cursor in step.                  *)
LEMMA LexCursor ==
  ASSUME text \in Seq(Char), Loaded(lx), Lex
  PROVE  Loaded(lx')
<1> USE NextCharOK, PeekCharOK
<1>1. CASE SkipSpace
  BY <1>1 DEF SkipSpace
<1>2. CASE CommentStart
  BY <1>2 DEF CommentStart
<1>3. CASE CommentChar
  BY <1>3 DEF CommentChar
<1>4. CASE CommentEnd
  BY <1>4 DEF CommentEnd, Return
<1>5. CASE Punctuator
  BY <1>5 DEF Punctuator, Return
<1>6. CASE QuoteStart
  <2> DEFINE one == PeekChar(lx)
             two == PeekChar(NextChar(one))
  <2>1. Loaded(one) /\ Loaded(two)
    OBVIOUS
  <2>2. \E c \in {one, two, NextChar(two)}, long \in BOOLEAN : StringToken(c, long)
    BY <1>6 DEF QuoteStart
  <2> HIDE DEF one, two
  <2> QED
    BY <2>1, <2>2 DEF StringToken
<1>7. CASE StringClose
  BY <1>7, StringEndCursor DEF StringClose
<1>8. CASE LongStringClose
  <2>1. Loaded(Peek3)
    BY DEF Peek1, Peek2, Peek3
  <2>2. lx' = NextChar(NextChar(Peek3)) \/ lx' = NextChar(Peek3)
    BY <1>8, StringEndCursor DEF LongStringClose
  <2> QED
    BY <2>1, <2>2
<1>9. CASE LongStringQuote
  <2>1. Loaded(Peek1) /\ Loaded(Peek2)
    BY DEF Peek1, Peek2
  <2>2. lx' = NextChar(Peek1) \/ lx' = NextChar(Peek2)
    BY <1>9, StringCharCursor DEF LongStringQuote
  <2> QED
    BY <2>1, <2>2
<1>10. CASE StringPlain
  BY <1>10, StringCharCursor DEF StringPlain
<1>11. CASE HexEscape
  <2> DEFINE e == NextChar(lx)
             c2 == NextChar(NextChar(e))
             c4 == NextChar(NextChar(c2))
  <2>1. Loaded(c2) /\ Loaded(c4)
    OBVIOUS
  <2>2. \E c \in {c2, c4} : \E ch : StringChar(c, ch)
    BY <1>11 DEF HexEscape
  <2> HIDE DEF c2, c4
  <2> QED
    BY <2>1, <2>2, StringCharCursor
<1>12. CASE CharEscape
  BY <1>12, StringCharCursor DEF CharEscape
<1>13. CASE IdentStart
  BY <1>13 DEF IdentStart
<1>14. CASE IdentChar
  BY <1>14 DEF IdentChar
<1>15. CASE IdentEnd
  BY <1>15 DEF IdentEnd, Return
<1>16. CASE NumberStart
  BY <1>16 DEF NumberStart
<1>17. CASE NumberDigit
  BY <1>17 DEF NumberDigit
<1>18. CASE NumberStop
  BY <1>18, NumberNextCursor DEF NumberStop
<1>19. CASE FractionRange
  BY <1>19, NumberEndCursor DEF FractionRange
<1>20. CASE FractionStart
  BY <1>20 DEF FractionStart
<1>21. CASE ExponentStart
  BY <1>21 DEF ExponentStart
<1>22. CASE ExponentDigit
  BY <1>22 DEF ExponentDigit
<1>23. CASE ExponentStop
  BY <1>23, NumberNextCursor DEF ExponentStop
<1>24. CASE NewLine
  BY <1>24, RelocateOK DEF NewLine, Return
<1>25. CASE EndOfFile
  BY <1>25 DEF EndOfFile, Return
<1>26. CASE Unknown
  BY <1>26 DEF Unknown, Return
<1> QED
  BY <1>1, <1>2, <1>3, <1>4, <1>5, <1>6, <1>7, <1>8, <1>9, <1>10, <1>11, <1>12, <1>13, <1>14,
     <1>15, <1>16, <1>17, <1>18, <1>19, <1>20, <1>21, <1>22, <1>23, <1>24, <1>25, <1>26 DEF Lex

(* The text is fixed, and only a call of Lex() is ever under way.          *)
LEMMA LexFrame ==
  ASSUME Lex
  PROVE  text' = text /\ pc # "idle"
BY DEF Lex, SkipSpace, CommentStart, CommentChar, CommentEnd, Punctuator, QuoteStart, StringClose,
       LongStringClose, LongStringQuote, AtLongQuote, StringPlain, HexEscape, CharEscape,
       IdentStart, IdentChar, IdentEnd, NumberStart, NumberDigit, NumberStop, FractionRange,
       FractionStart, ExponentStart, ExponentDigit, ExponentStop, NewLine, EndOfFile, Unknown

(* CursorCorrect: the invariant that the two theorems below follow from. *)
THEOREM CursorCorrect == Spec => []CursorInv
<1>1. Init => CursorInv
  BY TextsAssumption, NewCursorOK DEF Init, CursorInv
<1>2. CursorInv /\ [Next]_vars => CursorInv'
  <2> SUFFICES ASSUME CursorInv, [Next]_vars
               PROVE  CursorInv'
    OBVIOUS
  <2>1. ASSUME text' = text, Loaded(lx')
        PROVE  CursorInv'
    BY <2>1 DEF CursorInv, Loaded, CursorOK, LookaheadOK, CharAt, KeptOK, RecordedIn, LastLineOK
  <2>2. CASE Begin
    BY <2>1, <2>2, CurCharOK DEF Begin, CursorInv
  <2>3. CASE Lex
    <3>1. Loaded(lx) /\ text \in Seq(Char) /\ text' = text
      BY <2>3, LexFrame DEF CursorInv, Loaded
    <3> QED
      BY <2>1, <2>3, <3>1, LexCursor
  <2>4. CASE UNCHANGED vars
    BY <2>4 DEF vars, CursorInv, CursorOK, LookaheadOK, CharAt, KeptOK, RecordedIn, LastLineOK
  <2> QED
    BY <2>2, <2>3, <2>4 DEF Next
<1> QED
  BY <1>1, <1>2, PTL DEF Spec

(* LookaheadCorrect: no call of Lex(), on any text, skips a character of   *)
(* the source or reads one twice.                                          *)
THEOREM LookaheadCorrect == Spec => []Lookahead
<1>1. CursorInv => Lookahead
  BY DEF CursorInv, CursorOK, Lookahead
<1> QED
  BY <1>1, CursorCorrect, PTL

(* RecordedCorrect: on any text, whatever the tokens and however long the  *)
(* lines, the SourceManager holds exactly the characters that the lexer    *)
(* took from the source, each in the line and column it stands in.         *)
THEOREM RecordedCorrect == Spec => []Recorded
<1>1. CursorInv => Recorded
  BY DEF CursorInv, CursorOK, KeptOK, Recorded, LinesOK
<1> QED
  BY <1>1, CursorCorrect, PTL

-----------------------------------------------------------------------------
(* What an iteration of the lexer does to its locals and its results:      *)
(* either it returns a token that ends where the cursor is, or it goes on  *)
(* with a token that began where it did before.                            *)

InToken == {"comment", "string", "ident", "int", "point", "frac", "e", "exp"}

PcType == {"idle", "start", "threw"} \union InToken

(* A character is waiting in the buffer only before the end of the text.   *)
Buffered(c) == c.valid = 2 => c.at <= Len(text)

(* The cursor has not passed the token's first character, or not yet.      *)
At(c) == Loaded(c) /\ tk.from \in 1..Len(text) /\ tk.from <= c.at

Beyond(c) == Loaded(c) /\ tk.from \in 1..Len(text) /\ tk.from < c.at /\ Buffered(c)

Returned ==
  /\ pc' = "idle" /\ tk' = Fresh(lx') /\ Beyond(lx')
  /\ \E t : t.kind # "eof" /\ t.from = tk.from /\ t.to = lx'.at - 1 /\ toks' = Append(toks, t)

Continued ==
  /\ pc' \in InToken \union {"threw"} /\ toks' = toks
  /\ "from" \in DOMAIN tk' /\ tk'.from = tk.from
  /\ At(lx') /\ (pc' # "int" => Beyond(lx'))
  /\ pc' = "point" => lx'.at <= Len(text)

(* What is known of the locals before an iteration.                        *)
Locals ==
  /\ pc \in PcType /\ "from" \in DOMAIN tk
  /\ pc \in {"idle", "start"} => Buffered(lx)
  /\ pc = "start" => tk.from = lx.at
  /\ pc \in InToken => At(lx) /\ (pc # "int" => Beyond(lx))
  /\ pc = "point" => lx.at <= Len(text)

LEMMA LoadedAt ==
  ASSUME NEW c, Loaded(c)
  PROVE  /\ c.at \in 1..(Len(text) + 1) /\ c.at \in Nat /\ c.valid \in 1..2
         /\ c.cur # NUL => c.at <= Len(text)
BY DEF Loaded, CursorOK, LookaheadOK, CursorType, CharAt

LEMMA BeyondAt ==
  ASSUME NEW c, Beyond(c)
  PROVE  At(c)
<1>1. c.at \in Nat /\ tk.from \in Nat
  BY LoadedAt DEF Beyond
<1> QED
  BY <1>1 DEF At, Beyond

LEMMA NextBeyond ==
  ASSUME text \in Seq(Char), NEW c, At(c)
  PROVE  Beyond(NextChar(c)) /\ At(NextChar(c))
<1> DEFINE n == NextChar(c)
<1>1. Loaded(c) /\ c.at \in Nat /\ tk.from \in 1..Len(text) /\ tk.from <= c.at /\ Len(text) \in Nat
  BY LoadedAt DEF At
<1>2. Loaded(n) /\ n.valid = 1 /\ n.at = IF c.at <= Len(text) THEN c.at + 1 ELSE c.at
  BY <1>1, NextCharMeans
<1> HIDE DEF n
<1>3. Beyond(n)
  BY <1>1, <1>2 DEF Beyond, Buffered
<1> QED
  BY <1>3, BeyondAt DEF n

LEMMA PeekStays ==
  ASSUME text \in Seq(Char), NEW c, Loaded(c)
  PROVE  /\ Loaded(PeekChar(c)) /\ PeekChar(c).at = c.at /\ PeekChar(c).cur = c.cur
         /\ At(c) => At(PeekChar(c))
BY PeekCharMeans DEF At

LEMMA PeekBeyond ==
  ASSUME text \in Seq(Char), NEW c, Beyond(c), c.at <= Len(text)
  PROVE  Beyond(PeekChar(c)) /\ PeekChar(c).at <= Len(text)
BY PeekStays DEF Beyond, Buffered

(* The end of a token.                                                     *)
LEMMA ReturnResult ==
  ASSUME NEW c, NEW kind, NEW w, NEW val, Return(c, kind, w, val), kind # "eof", Beyond(c)
  PROVE  Returned
<1> DEFINE t == [kind |-> kind, w |-> w, val |-> val, long |-> tk.long,
                 from |-> tk.from, to |-> c.at - 1]
<1>1. lx' = c /\ pc' = "idle" /\ tk' = Fresh(c) /\ toks' = Append(toks, t)
  BY DEF Return
<1>2. t.to = c.at - 1 /\ t.from = tk.from /\ t.kind # "eof"
  OBVIOUS
<1> HIDE DEF t
<1> QED
  BY <1>1, <1>2 DEF Returned

LEMMA ReturnUtf8Result ==
  ASSUME NEW c, NEW kind, NEW w, NEW val, "from" \in DOMAIN tk, ReturnUtf8(c, kind, w, val),
         kind # "eof", Beyond(c)
  PROVE  Returned \/ Continued
<1>1. CASE "sur" \in ToSet(val)
  BY <1>1, BeyondAt DEF ReturnUtf8, Continued
<1>2. CASE "sur" \notin ToSet(val)
  BY <1>2, ReturnResult DEF ReturnUtf8
<1> QED
  BY <1>1, <1>2

LEMMA StringEndResult ==
  ASSUME text \in Seq(Char), NEW c, NEW w, NEW str, "from" \in DOMAIN tk, StringEnd(c, w, str), At(c)
  PROVE  Returned \/ Continued
<1>1. \E k \in {"rune_constant", "string_constant"} : \E v :
        Return(NextChar(c), k, v, str) \/ ReturnUtf8(NextChar(c), k, v, str)
  BY DEF StringEnd
<1>2. Beyond(NextChar(c))
  BY NextBeyond
<1> QED
  BY <1>1, <1>2, ReturnResult, ReturnUtf8Result

LEMMA StringCharResult ==
  ASSUME text \in Seq(Char), NEW c, NEW ch, "from" \in DOMAIN tk, pc = "string", StringChar(c, ch),
         At(c)
  PROVE  Returned \/ Continued
<1> DEFINE str == Append(tk.str, ch)
           w == IF ch = NL THEN [tk.w EXCEPT !.el = @ + 1, !.ec = 1] ELSE Extend(tk.w, 1)
<1>1. \/ StringEnd(c, tk.w, tk.str)
      \/ ReturnUtf8(NextChar(c), "identifier", w, <<"'">> \o str)
      \/ /\ tk' = [tk EXCEPT !.str = str, !.w = w, !.trail = @ /\ ch # NL]
         /\ lx' = NextChar(c) /\ UNCHANGED <<pc, toks>>
  BY DEF StringChar
<1> HIDE DEF str, w
<1>2. Beyond(NextChar(c)) /\ At(NextChar(c))
  BY NextBeyond
<1>3. CASE /\ tk' = [tk EXCEPT !.str = str, !.w = w, !.trail = @ /\ ch # NL]
           /\ lx' = NextChar(c) /\ UNCHANGED <<pc, toks>>
  BY <1>2, <1>3 DEF Continued, InToken
<1> QED
  BY <1>1, <1>2, <1>3, StringEndResult, ReturnUtf8Result

LEMMA NumberEndResult ==
  ASSUME NEW c, NEW str, NEW isFloat, NumberEnd(c, str, isFloat), Beyond(c)
  PROVE  Returned
<1>1. (IF isFloat THEN "real_constant" ELSE "integer_constant") # "eof"
  OBVIOUS
<1> QED
  BY <1>1, ReturnResult DEF NumberEnd

LEMMA NumberNextResult ==
  ASSUME NEW c, NEW state, NEW str, NEW isFloat, "from" \in DOMAIN tk,
         NumberNext(c, state, str, isFloat), Beyond(c)
  PROVE  Returned \/ Continued
<1>1. At(c) /\ Loaded(c)
  BY BeyondAt DEF Beyond
<1>2. CASE c.cur = "." /\ state # "frac" /\ tk.base # 16
  <2>1. lx' = c /\ pc' = "point" /\ toks' = toks /\ tk' = [tk EXCEPT !.str = str, !.isFloat = isFloat]
    BY <1>2 DEF NumberNext
  <2>2. c.at <= Len(text)
    BY <1>1, <1>2, LoadedAt, TextsAssumption
  <2> QED
    BY <1>1, <2>1, <2>2 DEF Continued, InToken
<1>3. CASE ~(c.cur = "." /\ state # "frac" /\ tk.base # 16) /\ c.cur \in {"e", "E"} /\ state # "exp"
  <2>1. lx' = c /\ pc' = "e" /\ toks' = toks /\ tk' = [tk EXCEPT !.str = str, !.isFloat = isFloat]
    BY <1>3 DEF NumberNext
  <2> QED
    BY <1>1, <2>1 DEF Continued, InToken
<1>4. CASE ~(c.cur = "." /\ state # "frac" /\ tk.base # 16) /\ ~(c.cur \in {"e", "E"} /\ state # "exp")
  BY <1>4, NumberEndResult DEF NumberNext
<1> QED
  BY <1>2, <1>3, <1>4

(* A token that begins where it does not look like the end of the file.    *)
LEMMA Begins ==
  ASSUME text \in Seq(Char), Loaded(lx), Locals, pc = "start",
         lx.cur # NUL \/ ~AtEof(lx)
  PROVE  At(lx) /\ lx.at <= Len(text)
<1>1. lx.at \in 1..(Len(text) + 1) /\ lx.valid \in 1..2 /\ tk.from = lx.at /\ Len(text) \in Nat
  BY LoadedAt DEF Locals
<1>2. lx.at <= Len(text)
  <2>1. CASE lx.cur # NUL
    BY <2>1, LoadedAt
  <2>2. CASE ~AtEof(lx)
    <3>1. SUFFICES ASSUME lx.at = Len(text) + 1
                   PROVE  FALSE
      BY <1>1
    <3>2. lx.valid = 1
      BY <1>1, <3>1 DEF Locals, Buffered
    <3>3. lx.cur = NUL /\ lx.taken = Len(text)
      BY <1>1, <3>1, <3>2 DEF Loaded, CursorOK, LookaheadOK, CharAt
    <3> QED
      BY <1>1, <2>2, <3>2, <3>3 DEF AtEof, SourceHasMore
  <2> QED
    BY <2>1, <2>2
<1> QED
  BY <1>1, <1>2 DEF At

LEMMA LexResult ==
  ASSUME text \in Seq(Char), Loaded(lx), Locals, Lex, ~SkipSpace, ~EndOfFile
  PROVE  Returned \/ Continued
<1>0. "from" \in DOMAIN tk /\ Loaded(PeekChar(lx)) /\ (At(lx) => At(PeekChar(lx)))
  BY PeekStays DEF Locals
<1>a. pc \in InToken => At(lx) /\ (pc # "int" => Beyond(lx))
  BY DEF Locals
<1>b. pc = "start" /\ lx.cur # "NUL" => At(lx) /\ lx.at <= Len(text)
  BY Begins, TextsAssumption
<1>c. ASSUME NEW c, At(c)
      PROVE  LET n == NextChar(c) IN At(n) /\ Beyond(n) /\ At(NextChar(n)) /\ Beyond(NextChar(n))
  <2>1. At(NextChar(c)) /\ Beyond(NextChar(c))
    BY <1>c, NextBeyond
  <2> QED
    BY <2>1, NextBeyond
<1>2. CASE CommentStart
  <2>1. At(lx) /\ lx' = NextChar(PeekChar(lx)) /\ pc' = "comment" /\ UNCHANGED <<tk, toks>>
    BY <1>2, <1>b DEF CommentStart, AtComment
  <2> QED
    BY <1>0, <1>c, <2>1 DEF Continued, InToken
<1>3. CASE CommentChar
  <2>1. /\ At(lx) /\ lx' = NextChar(lx) /\ pc' = "comment" /\ UNCHANGED toks
        /\ tk' = tk \/ tk' = [tk EXCEPT !.str = Append(@, NextChar(lx).cur)]
    BY <1>3, <1>a DEF CommentChar, InToken
  <2> QED
    BY <1>0, <1>c, <2>1 DEF Continued, InToken
<1>4. CASE CommentEnd
  <2>1. pc \in InToken /\ \E w, val : Return(NextChar(NextChar(lx)), "line_comment", w, val)
    BY <1>4 DEF CommentEnd, InToken
  <2> QED
    BY <1>a, <1>c, <2>1, ReturnResult
<1>5. CASE Punctuator
  <2>1. /\ pc = "start" /\ lx.cur # "NUL"
        /\ \E w, val : \/ Return(NextChar(NextChar(lx)), "punctuator", w, val)
                       \/ Return(NextChar(lx), "punctuator", w, val)
    BY <1>5 DEF Punctuator, Single, Doubled
  <2> QED
    BY <1>b, <1>c, <2>1, ReturnResult
<1>6. CASE QuoteStart
  <2> DEFINE one == PeekChar(lx)
             two == PeekChar(NextChar(one))
  <2>1. pc = "start" /\ lx.cur # "NUL"
    BY <1>6 DEF QuoteStart, Quote
  <2>2. At(one) /\ At(NextChar(one)) /\ Loaded(NextChar(one))
    BY <1>0, <1>b, <1>c, <2>1 DEF At
  <2>3. At(two)
    BY <2>2, PeekStays
  <2>4. \E c \in {one, two, NextChar(two)}, long \in BOOLEAN : StringToken(c, long) /\ toks' = toks
    BY <1>6 DEF QuoteStart
  <2> HIDE DEF one, two
  <2>5. PICK c, long : At(c) /\ StringToken(c, long) /\ toks' = toks
    BY <1>c, <2>2, <2>3, <2>4
  <2>6. lx' = NextChar(c) /\ pc' = "string" /\ "from" \in DOMAIN tk' /\ tk'.from = tk.from
    BY <1>0, <2>5 DEF StringToken
  <2> QED
    BY <1>c, <2>5, <2>6 DEF Continued, InToken
<1>7. CASE StringClose
  <2>1. pc \in InToken /\ StringEnd(lx, tk.w, tk.str)
    BY <1>7 DEF StringClose, InToken
  <2> QED
    BY <1>0, <1>a, <2>1, StringEndResult
<1>d. At(lx) => At(Peek1) /\ At(Peek2) /\ At(Peek3)
  <2> SUFFICES ASSUME At(lx)
               PROVE  At(Peek1) /\ At(Peek2) /\ At(Peek3)
    OBVIOUS
  <2>1. ASSUME NEW c, At(c)
        PROVE  At(PeekChar(c))
    BY <2>1, PeekStays DEF At
  <2>2. At(Peek1)
    BY <2>1 DEF Peek1
  <2>3. At(Peek2)
    BY <1>c, <2>1, <2>2 DEF Peek2
  <2> QED
    BY <1>c, <2>1, <2>2, <2>3 DEF Peek3
<1>8. CASE LongStringClose
  <2>1. /\ pc \in InToken
        /\ \E w, str : StringEnd(NextChar(Peek3), w, str) \/ StringEnd(Peek3, w, str)
    BY <1>8 DEF LongStringClose, AtLongQuote, InToken
  <2> QED
    BY <1>0, <1>a, <1>c, <1>d, <2>1, StringEndResult
<1>9. CASE LongStringQuote
  <2>1. /\ pc = "string" /\ pc \in InToken
        /\ \E ch : StringChar(Peek1, ch) \/ StringChar(Peek2, ch)
    BY <1>9 DEF LongStringQuote, AtLongQuote, InToken
  <2> QED
    BY <1>0, <1>a, <1>d, <2>1, StringCharResult
<1>10. CASE StringPlain
  <2>1. pc = "string" /\ pc \in InToken /\ StringChar(lx, lx.cur)
    BY <1>10 DEF StringPlain, InToken
  <2> QED
    BY <1>0, <1>a, <2>1, StringCharResult
<1>11. CASE HexEscape
  <2> DEFINE e == NextChar(lx)
             c2 == NextChar(NextChar(e))
             c4 == NextChar(NextChar(c2))
  <2>1. pc = "string" /\ pc \in InToken /\ \E c \in {c2, c4} : \E ch : StringChar(c, ch)
    BY <1>11 DEF HexEscape, InToken
  <2>2. At(c2)
    BY <1>a, <1>c, <2>1
  <2> HIDE DEF c2
  <2>3. At(c4)
    BY <1>c, <2>2
  <2> HIDE DEF c4
  <2> QED
    BY <1>0, <2>1, <2>2, <2>3, StringCharResult
<1>12. CASE CharEscape
  <2>1. pc = "string" /\ pc \in InToken /\ \E ch : StringChar(NextChar(lx), ch)
    BY <1>12 DEF CharEscape, InToken
  <2> QED
    BY <1>0, <1>a, <1>c, <2>1, StringCharResult
<1>13. CASE IdentStart
  <2>1. At(lx) /\ lx' = NextChar(lx) /\ pc' = "ident" /\ toks' = toks /\ tk' = [tk EXCEPT !.str = <<lx.cur>>]
    BY <1>13, <1>b DEF IdentStart, IdStart, Letter
  <2> QED
    BY <1>0, <1>c, <2>1 DEF Continued, InToken
<1>14. CASE IdentChar
  <2>1. /\ At(lx) /\ lx' = NextChar(lx) /\ pc' = "ident" /\ toks' = toks
        /\ tk' = [tk EXCEPT !.str = Append(@, lx.cur)]
    BY <1>14, <1>a DEF IdentChar, InToken
  <2> QED
    BY <1>0, <1>c, <2>1 DEF Continued, InToken
<1>15. CASE IdentEnd
  <2>1. /\ pc \in InToken /\ pc # "int"
        /\ \E kind \in {"keyword", "identifier"} : \E w, val : Return(lx, kind, w, val)
    BY <1>15 DEF IdentEnd, InToken
  <2> QED
    BY <1>a, <2>1, ReturnResult
<1>16. CASE NumberStart
  <2>1. /\ pc = "start" /\ lx.cur # "NUL" /\ pc' = "int" /\ toks' = toks
        /\ \E c \in {lx, PeekChar(lx), NextChar(NextChar(PeekChar(lx)))} : lx' = c
        /\ \E w, str, base : tk' = [tk EXCEPT !.w = w, !.str = str, !.base = base]
    BY <1>16 DEF NumberStart, Decimal
  <2>2. At(lx')
    BY <1>0, <1>b, <1>c, <2>1
  <2>3. "from" \in DOMAIN tk' /\ tk'.from = tk.from
    BY <1>0, <2>1
  <2> QED
    BY <2>1, <2>2, <2>3 DEF Continued, InToken
<1>17. CASE NumberDigit
  <2>1. /\ pc \in InToken /\ lx' = NextChar(lx) /\ pc' = pc /\ pc # "point" /\ toks' = toks
        /\ \E str : tk' = [tk EXCEPT !.str = str]
    BY <1>17 DEF NumberDigit, InToken
  <2>2. "from" \in DOMAIN tk' /\ tk'.from = tk.from
    BY <1>0, <2>1
  <2> QED
    BY <1>a, <1>c, <2>1, <2>2 DEF Continued
<1>18. CASE NumberStop
  <2>1. pc \in InToken /\ NumberNext(NextChar(lx), pc, tk.str, tk.isFloat)
    BY <1>18 DEF NumberStop, InToken
  <2> QED
    BY <1>0, <1>a, <1>c, <2>1, NumberNextResult
<1>e. pc = "point" => Beyond(PeekChar(lx)) /\ At(PeekChar(lx))
  <2> SUFFICES ASSUME pc = "point"
               PROVE  Beyond(PeekChar(lx))
    BY BeyondAt
  <2>1. Beyond(lx) /\ lx.at <= Len(text)
    BY DEF Locals, InToken
  <2> QED
    BY <2>1, PeekBeyond
<1>19. CASE FractionRange
  <2>1. pc = "point" /\ NumberEnd(PeekChar(lx), tk.str, tk.isFloat)
    BY <1>19 DEF FractionRange
  <2> QED
    BY <1>e, <2>1, NumberEndResult
<1>20. CASE FractionStart
  <2>1. /\ pc = "point" /\ lx' = PeekChar(lx) /\ pc' = "frac" /\ toks' = toks
        /\ tk' = [tk EXCEPT !.isFloat = TRUE, !.str = Append(@, ".")]
    BY <1>20 DEF FractionStart
  <2> QED
    BY <1>0, <1>e, <2>1 DEF Continued, InToken
<1>21. CASE ExponentStart
  <2>1. /\ pc \in InToken /\ lx' \in {NextChar(NextChar(lx)), NextChar(lx)} /\ pc' = "exp" /\ toks' = toks
        /\ \E str : tk' = [tk EXCEPT !.isFloat = TRUE, !.str = str]
    BY <1>21 DEF ExponentStart, InToken
  <2>2. "from" \in DOMAIN tk' /\ tk'.from = tk.from
    BY <1>0, <2>1
  <2>3. At(lx') /\ Beyond(lx')
    BY <1>a, <1>c, <2>1
  <2> QED
    BY <2>1, <2>2, <2>3 DEF Continued, InToken
<1>22. CASE ExponentDigit
  <2>1. /\ pc \in InToken /\ lx' = NextChar(lx) /\ pc' = "exp" /\ toks' = toks
        /\ tk' = [tk EXCEPT !.str = Append(@, lx.cur)]
    BY <1>22 DEF ExponentDigit, InToken
  <2> QED
    BY <1>0, <1>a, <1>c, <2>1 DEF Continued, InToken
<1>23. CASE ExponentStop
  <2>1. pc \in InToken /\ pc # "int" /\ NumberNext(lx, "exp", tk.str, TRUE)
    BY <1>23 DEF ExponentStop, InToken
  <2> QED
    BY <1>0, <1>a, <2>1, NumberNextResult
<1>24. CASE NewLine
  <2> DEFINE c == [lx EXCEPT !.line = @ + 1, !.col = 0]
  <2>1. pc = "start" /\ lx.cur # "NUL" /\ \E w, val : Return(NextChar(c), "eol", w, val)
    BY <1>24, CursorAssumption, TextsAssumption DEF NewLine
  <2>2. c.at = lx.at /\ Loaded(c)
    BY RelocateOK DEF Loaded, CursorOK, CursorType
  <2> HIDE DEF c
  <2>3. At(c)
    BY <1>b, <2>1, <2>2 DEF At
  <2> QED
    BY <1>c, <2>1, <2>3, ReturnResult
<1>26. CASE Unknown
  <2>1. /\ pc = "start" /\ ~AtEof(lx)
        /\ \E c \in {lx, PeekChar(lx)} : \E w, val : Return(NextChar(c), "unknown", w, val)
    BY <1>26 DEF Unknown
  <2>2. At(lx)
    BY <2>1, Begins
  <2> QED
    BY <1>0, <1>c, <2>1, <2>2, ReturnResult
<1> QED
  BY <1>2, <1>3, <1>4, <1>5, <1>6, <1>7, <1>8, <1>9, <1>10, <1>11, <1>12, <1>13, <1>14,
     <1>15, <1>16, <1>17, <1>18, <1>19, <1>20, <1>21, <1>22, <1>23, <1>24, <1>26 DEF Lex

-----------------------------------------------------------------------------
(* The tokens returned so far.                                             *)

EofIn(s) == \E i \in 1..Len(s) : s[i].kind = "eof"

(* The last token but the ends of file is the k-th.                        *)
IsLast(s, k) ==
  /\ k \in 0..Len(s)
  /\ k # 0 => s[k].kind # "eof"
  /\ \A j \in (k + 1)..Len(s) : s[j].kind = "eof"

LastOf(s) ==
  CHOOSE k \in 0..Len(s) :
    /\ k # 0 => s[k].kind # "eof"
    /\ \A j \in (k + 1)..Len(s) : s[j].kind = "eof"

LEMMA LastUnique ==
  ASSUME NEW S, NEW s \in Seq(S), NEW k, IsLast(s, k)
  PROVE  LastOf(s) = k
<1>1. ASSUME NEW l, IsLast(s, l)
      PROVE  l = k
  <2>1. Len(s) \in Nat /\ k \in 0..Len(s) /\ l \in 0..Len(s)
    BY <1>1 DEF IsLast
  <2>2. CASE l < k
    BY <1>1, <2>1, <2>2 DEF IsLast
  <2>3. CASE k < l
    BY <1>1, <2>1, <2>3 DEF IsLast
  <2> QED
    BY <2>1, <2>2, <2>3
<1>2. \A l : IsLast(s, l) <=> l \in 0..Len(s) /\ (l # 0 => s[l].kind # "eof")
                              /\ (\A j \in (l + 1)..Len(s) : s[j].kind = "eof")
  BY DEF IsLast
<1> HIDE DEF IsLast
<1>3. \A l : IsLast(s, l) => l = k
  BY <1>1
<1> QED
  BY <1>2, <1>3, Zenon DEF LastOf

LEMMA EofCount ==
  ASSUME NEW s, Len(s) \in Nat
  PROVE  /\ Cardinality({i \in 1..Len(s) : s[i].kind = "eof"}) \in Nat
         /\ Cardinality({i \in 1..Len(s) : s[i].kind = "eof"}) > 0 <=> EofIn(s)
<1> DEFINE E == {i \in 1..Len(s) : s[i].kind = "eof"}
<1>1. IsFiniteSet(1..Len(s)) /\ E \subseteq 1..Len(s)
  BY FS_Interval
<1>2. IsFiniteSet(E)
  BY <1>1, FS_Subset
<1>3. Cardinality(E) \in Nat /\ (Cardinality(E) = 0 <=> E = {})
  BY <1>2, FS_CardinalityType, FS_EmptySet
<1>4. E # {} <=> EofIn(s)
  BY DEF EofIn
<1> HIDE DEF E
<1>5. Cardinality(E) > 0 <=> E # {}
  BY <1>3
<1> QED
  BY <1>3, <1>4, <1>5 DEF E

(* What one more token changes.                                            *)
LEMMA OneMore ==
  ASSUME NEW S, NEW s \in Seq(S), NEW t, NEW k, IsLast(s, k)
  PROVE  /\ \E T : Append(s, t) \in Seq(T)
         /\ Len(Append(s, t)) = Len(s) + 1 /\ Append(s, t)[Len(s) + 1] = t
         /\ \A i \in 1..Len(s) : Append(s, t)[i] = s[i]
         /\ EofIn(Append(s, t)) <=> EofIn(s) \/ t.kind = "eof"
         /\ IsLast(Append(s, t), IF t.kind = "eof" THEN k ELSE Len(s) + 1)
<1>1. s \in Seq(S \union {t}) /\ t \in S \union {t}
  OBVIOUS
<1>2. PICK u : u = Append(s, t)
  OBVIOUS
<1>3. /\ u \in Seq(S \union {t}) /\ Len(u) = Len(s) + 1 /\ u[Len(s) + 1] = t
      /\ \A i \in 1..Len(s) : u[i] = s[i]
  BY <1>1, <1>2
<1>4. Len(s) \in Nat /\ k \in 0..Len(s)
  BY DEF IsLast
<1>5. EofIn(u) <=> EofIn(s) \/ t.kind = "eof"
  BY <1>3, <1>4 DEF EofIn
<1>6. CASE t.kind = "eof"
  BY <1>2, <1>3, <1>4, <1>5, <1>6 DEF IsLast
<1>7. CASE t.kind # "eof"
  BY <1>2, <1>3, <1>4, <1>5, <1>7 DEF IsLast
<1> QED
  BY <1>6, <1>7

-----------------------------------------------------------------------------
(* What the tokens cover, between calls and within one.                    *)

(* The index the last token but the ends of file ends at.                  *)
Done == IF LastReal = 0 THEN 0 ELSE toks[LastReal].to

Spaces == {ch \in Char : IsSpace(ch)}

(* Between calls the cursor is at the first character after that token; in *)
(* a call there are spaces only between it and the one under construction. *)
(* After the end of file there is nothing left to read.                    *)
Covering ==
  IF EofIn(toks)
  THEN pc \in {"idle", "start"} /\ lx.valid # 0 /\ AtEof(lx)
  ELSE /\ pc = "idle" => IF lx.valid = 0 THEN Done = 0 ELSE lx.at = Done + 1
       /\ pc \in {"start"} \union InToken =>
            Done < tk.from /\ \A k \in (Done + 1)..(tk.from - 1) : text[k] \in Spaces

TokensInv ==
  /\ Locals /\ Covering
  /\ tk.from \in 0..(Len(text) + 1)
  /\ \E S : toks \in Seq(S)
  /\ IsLast(toks, LastReal)
  /\ \A i \in 1..Len(toks) : toks[i].to \in 0..Len(text)

(* A step between two tokens.                                              *)
LEMMA SameTokens ==
  ASSUME toks' = toks
  PROVE  LastReal' = LastReal /\ Done' = Done /\ EofIn(toks)' = EofIn(toks) /\ Eofs' = Eofs
BY DEF LastReal, Done, EofIn, Eofs

(* A step that returns one.                                                *)
LEMMA MoreTokens ==
  ASSUME NEW t, TokensInv, toks' = Append(toks, t)
  PROVE  /\ \E T : toks' \in Seq(T)
         /\ \A i \in 1..Len(toks) : toks'[i] = toks[i]
         /\ Len(toks) \in Nat /\ Len(toks') = Len(toks) + 1 /\ toks'[Len(toks) + 1] = t
         /\ EofIn(toks') <=> EofIn(toks) \/ t.kind = "eof"
         /\ LastReal' = IF t.kind = "eof" THEN LastReal ELSE Len(toks) + 1
         /\ IsLast(toks', LastReal')
         /\ Done' = IF t.kind = "eof" THEN Done ELSE t.to
<1> DEFINE k == IF t.kind = "eof" THEN LastReal ELSE Len(toks) + 1
<1>1. PICK S : toks \in Seq(S)
  BY DEF TokensInv
<1>2. IsLast(toks, LastReal)
  BY DEF TokensInv
<1>3. /\ \E T : toks' \in Seq(T)
      /\ Len(toks') = Len(toks) + 1 /\ toks'[Len(toks) + 1] = t
      /\ \A i \in 1..Len(toks) : toks'[i] = toks[i]
      /\ EofIn(toks') <=> EofIn(toks) \/ t.kind = "eof"
      /\ IsLast(toks', k)
  <2>1. PICK l, u : l = LastReal /\ u = Append(toks, t)
    OBVIOUS
  <2>2. /\ \E T : Append(toks, t) \in Seq(T)
        /\ Len(Append(toks, t)) = Len(toks) + 1 /\ Append(toks, t)[Len(toks) + 1] = t
        /\ \A i \in 1..Len(toks) : Append(toks, t)[i] = toks[i]
        /\ EofIn(Append(toks, t)) <=> EofIn(toks) \/ t.kind = "eof"
        /\ IsLast(Append(toks, t), IF t.kind = "eof" THEN l ELSE Len(toks) + 1)
    <3>1. IsLast(toks, l)
      BY <1>2, <2>1
    <3> HIDE <2>1
    <3> QED
      BY <1>1, <3>1, OneMore, SMTT(60)
  <2>3. (IF t.kind = "eof" THEN l ELSE Len(toks) + 1) = k /\ toks' = u
    BY <2>1
  <2> HIDE DEF k
  <2> QED
    BY <2>1, <2>2, <2>3
<1>4. Len(toks) \in Nat /\ LastReal \in 0..Len(toks)
  BY <1>1, <1>2 DEF IsLast
<1> HIDE DEF k
<1>5. LastReal' = k
  <2>1. PICK T : toks' \in Seq(T)
    BY <1>3
  <2>2. LastOf(toks') = k
    BY <1>3, <2>1, LastUnique
  <2> QED
    BY <2>2 DEF LastReal, LastOf
<1>6. Done' = IF k = 0 THEN 0 ELSE toks'[k].to
  BY <1>5 DEF Done
<1>7. Done' = IF t.kind = "eof" THEN Done ELSE t.to
  <2>1. CASE t.kind = "eof"
    <3>1. k = LastReal
      BY <2>1 DEF k
    <3>2. LastReal # 0 => toks'[LastReal] = toks[LastReal]
      BY <1>3, <1>4
    <3> QED
      BY <1>6, <2>1, <3>1, <3>2 DEF Done
  <2>2. CASE t.kind # "eof"
    <3>1. k = Len(toks) + 1 /\ k # 0 /\ toks'[k] = t
      BY <1>3, <1>4, <2>2 DEF k
    <3> QED
      BY <1>6, <2>2, <3>1
  <2> QED
    BY <2>1, <2>2
<1> QED
  BY <1>3, <1>4, <1>5, <1>7 DEF k

(* t is one of the tokens returned so far.                                 *)
Given(t) == \E k \in 1..Len(toks) : toks[k] = t

LEMMA GivenMore ==
  ASSUME TokensInv, NEW t, toks' = Append(toks, t)
  PROVE  \A u : Given(u)' => Given(u) \/ u = t
<1>1. /\ \A i \in 1..Len(toks) : toks'[i] = toks[i]
      /\ Len(toks) \in Nat /\ Len(toks') = Len(toks) + 1 /\ toks'[Len(toks) + 1] = t
  BY MoreTokens
<1>2. ASSUME NEW k \in 1..Len(toks')
      PROVE  Given(toks'[k]) \/ toks'[k] = t
  BY <1>1, <1>2 DEF Given
<1> QED
  BY <1>2 DEF Given

(* After the end of file Lex() can only return it again.                   *)
LEMMA OnlyEof ==
  ASSUME pc = "start", AtEof(lx), Lex
  PROVE  EndOfFile
<1>1. lx.cur = "NUL"
  BY TextsAssumption DEF AtEof
<1> QED
  BY <1>1, TextsAssumption
     DEF Lex, SkipSpace, IsSpace, CommentStart, AtComment, CommentChar, CommentEnd, Punctuator, Single,
         Doubled, QuoteStart, Quote, StringClose, LongStringClose, LongStringQuote, AtLongQuote,
         StringPlain, HexEscape, CharEscape, IdentStart, IdStart, Letter, IdentChar, IdentEnd,
         NumberStart, Decimal, NumberDigit, NumberStop, FractionRange, FractionStart,
         ExponentStart, ExponentDigit, ExponentStop, NewLine, Unknown

(* After an exception no step of Lex() follows.                            *)
LEMMA NotThrew ==
  ASSUME Lex
  PROVE  pc # "threw"
BY DEF Lex, SkipSpace, CommentStart, CommentChar, CommentEnd, Punctuator, QuoteStart, StringClose,
       LongStringClose, LongStringQuote, AtLongQuote, StringPlain, HexEscape, CharEscape,
       IdentStart, IdentChar, IdentEnd, NumberStart, NumberDigit, NumberStop, FractionRange,
       FractionStart, ExponentStart, ExponentDigit, ExponentStop, NewLine, EndOfFile, Unknown

(* Where the cursor is at the end of the file.                             *)
LEMMA EofAt ==
  ASSUME Loaded(lx), AtEof(lx), text \in Seq(Char)
  PROVE  \/ lx.at = Len(text) + 1
         \/ lx.at = Len(text) /\ Len(text) # 0 /\ text[Len(text)] = NUL
<1>1. /\ lx.at \in 1..(Len(text) + 1) /\ lx.valid = 1 /\ lx.taken \in Nat
      /\ lx.cur = CharAt(lx.at)
      /\ lx.taken = IF lx.at <= Len(text) THEN lx.at ELSE Len(text)
      /\ lx.taken >= Len(text) /\ lx.cur = NUL
  BY DEF Loaded, CursorOK, LookaheadOK, CursorType, AtEof, SourceHasMore
<1> QED
  BY <1>1 DEF CharAt

(* Leaving out the spaces before a token.                                  *)
LEMMA SkipResult ==
  ASSUME text \in Seq(Char), Loaded(lx), TokensInv, SkipSpace
  PROVE  /\ pc' = "start" /\ toks' = toks /\ text' = text
         /\ lx' = NextChar(lx) /\ Loaded(lx') /\ lx'.valid = 1
         /\ "from" \in DOMAIN tk' /\ tk'.from = lx'.at
         /\ tk.from = lx.at /\ lx.at \in 1..Len(text) /\ lx'.at = lx.at + 1
         /\ text[lx.at] \in Spaces /\ ~AtEof(lx)
<1>1. pc = "start" /\ lx.cur \in {"sp", "wsp"} /\ lx.cur # NUL
  BY TextsAssumption DEF SkipSpace, IsSpace
<1>2. lx.at \in 1..Len(text)
  BY <1>1, LoadedAt
<1>3. /\ Loaded(NextChar(lx)) /\ NextChar(lx).valid = 1 /\ NextChar(lx).at = lx.at + 1
  BY <1>2, NextCharMeans
<1>4. "from" \in DOMAIN tk /\ tk.from = lx.at
  BY <1>1 DEF TokensInv, Locals
<1>5. /\ pc' = "start" /\ toks' = toks /\ text' = text /\ lx' = NextChar(lx)
      /\ tk' = [tk EXCEPT !.w = Here(NextChar(lx)), !.from = NextChar(lx).at]
  BY <1>1 DEF SkipSpace
<1>6. "from" \in DOMAIN tk' /\ tk'.from = lx'.at
  BY <1>4, <1>5
<1>7. text[lx.at] \in {"sp", "wsp"} /\ text[lx.at] \in Char
  BY <1>1, <1>2 DEF Loaded, CursorOK, LookaheadOK, CursorType, CharAt
<1>8. ~AtEof(lx)
  BY <1>1 DEF AtEof
<1> QED
  BY <1>2, <1>3, <1>4, <1>5, <1>6, <1>7, <1>8 DEF Spaces, IsSpace

LEMMA EofResult ==
  ASSUME EndOfFile
  PROVE  /\ pc = "start" /\ AtEof(lx) /\ pc' = "idle" /\ text' = text /\ lx' = lx
         /\ "from" \in DOMAIN tk' /\ tk'.from = lx.at
         /\ \E t : t.kind = "eof" /\ t.to = lx.at - 1 /\ toks' = Append(toks, t)
<1> DEFINE t == [kind |-> "eof", w |-> tk.w, val |-> << >>, long |-> tk.long,
                 from |-> tk.from, to |-> lx.at - 1]
<1>1. /\ pc = "start" /\ AtEof(lx) /\ pc' = "idle" /\ text' = text /\ lx' = lx
      /\ tk' = Fresh(lx) /\ toks' = Append(toks, t)
  BY DEF EndOfFile, Return
<1>2. t.kind = "eof" /\ t.to = lx.at - 1
  OBVIOUS
<1> HIDE DEF t
<1> QED
  BY <1>1, <1>2 DEF Fresh

(* A call of Lex() begins where the last token ended.                      *)
LEMMA BeginToken ==
  ASSUME CursorInv, TokensInv, Begin
  PROVE  /\ pc' = "start" /\ toks' = toks /\ text' = text /\ Loaded(lx')
         /\ "from" \in DOMAIN tk' /\ tk'.from = lx'.at
         /\ lx.valid = 0 => lx'.at = 1 /\ lx'.valid = 1
         /\ lx.valid # 0 => lx' = lx
<1>1. CursorOK(lx) /\ text \in Seq(Char)
  BY DEF CursorInv
<1>2. pc' = "start" /\ toks' = toks /\ text' = text /\ tk' = Fresh(lx') /\ lx' = CurChar(lx)
  BY DEF Begin
<1> QED
  BY <1>1, <1>2, CurCharOK DEF Fresh

(* TokensCovered: the invariant that relates the cursor to the tokens      *)
(* returned, in every state of a call of Lex() and between calls.          *)
LEMMA TokensCovered == Spec => []TokensInv
<1>1. Init => TokensInv
  <2> SUFFICES ASSUME Init
               PROVE  TokensInv
    OBVIOUS
  <2>1. text \in Seq(Char) /\ pc = "idle" /\ toks = << >> /\ tk = Fresh(lx) /\ lx = NewCursor
    BY TextsAssumption DEF Init
  <2>2. lx.valid = 0 /\ lx.at = 0
    BY <2>1 DEF NewCursor
  <2>3. "from" \in DOMAIN tk /\ tk.from = 0
    BY <2>1, <2>2 DEF Fresh
  <2>4. toks \in Seq({}) /\ Len(toks) = 0 /\ ~EofIn(toks)
    BY <2>1 DEF EofIn
  <2>5. IsLast(toks, 0)
    BY <2>4 DEF IsLast
  <2>6. LastReal = 0
    BY <2>4, <2>5, LastUnique DEF LastReal, LastOf
  <2>7. Locals
    BY <2>1, <2>2, <2>3 DEF Locals, PcType, InToken, Buffered
  <2>8. Covering
    BY <2>1, <2>2, <2>4, <2>6 DEF Covering, InToken, Done
  <2> QED
    BY <2>1, <2>3, <2>4, <2>5, <2>6, <2>7, <2>8 DEF TokensInv
<1>2. CursorInv /\ CursorInv' /\ TokensInv /\ [Next]_vars => TokensInv'
  <2> SUFFICES ASSUME CursorInv, CursorInv', TokensInv, [Next]_vars
               PROVE  TokensInv'
    OBVIOUS
  <2>0. text \in Seq(Char) /\ Len(text) \in Nat /\ CursorOK(lx) /\ Locals /\ Covering
    BY DEF CursorInv, TokensInv
  <2>a. ASSUME text' = text, toks' = toks, Locals', Covering', tk'.from \in 0..(Len(text) + 1)
        PROVE  TokensInv'
    BY <2>a, SameTokens DEF TokensInv
  <2>1. CASE Begin
    <3>1. /\ pc' = "start" /\ toks' = toks /\ text' = text /\ Loaded(lx')
          /\ "from" \in DOMAIN tk' /\ tk'.from = lx'.at
          /\ lx.valid = 0 => lx'.at = 1 /\ lx'.valid = 1
          /\ lx.valid # 0 => lx' = lx
      BY <2>1, BeginToken
    <3>2. pc = "idle" /\ lx'.at \in 1..(Len(text) + 1) /\ lx'.valid \in 1..2
      BY <2>1, <3>1, LoadedAt DEF Begin
    <3>3. Locals'
      BY <2>0, <3>1, <3>2 DEF Locals, PcType, InToken, Buffered
    <3>4. Covering'
      <4>1. CASE EofIn(toks)
        BY <2>0, <3>1, <3>2, <4>1 DEF Covering, EofIn, AtEof, SourceHasMore
      <4>2. CASE ~EofIn(toks)
        <5>1. Done' = Done /\ ~EofIn(toks)'
          BY <3>1, <4>2, SameTokens
        <5>2. lx'.at = Done + 1 /\ Done \in Nat /\ lx'.at \in Nat
          <6>1. Done \in 0..Len(text)
            BY <2>0 DEF TokensInv, Done, IsLast
          <6> QED
            BY <2>0, <3>1, <3>2, <4>2, <6>1 DEF Covering
        <5> QED
          BY <3>1, <5>1, <5>2 DEF Covering, InToken
      <4> QED
        BY <4>1, <4>2
    <3> QED
      BY <2>a, <3>1, <3>2, <3>3, <3>4
  <2>2. CASE Lex
    <3>1. Loaded(lx) /\ text' = text /\ Loaded(lx') /\ pc # "idle"
      BY <2>0, <2>2, LexFrame, LexCursor DEF CursorInv, Loaded
    <3>2. lx'.at \in 1..(Len(text) + 1) /\ lx'.valid \in 1..2
      BY <3>1, LoadedAt
    <3>3. CASE SkipSpace
      <4>1. /\ pc' = "start" /\ toks' = toks /\ pc = "start"
            /\ lx' = NextChar(lx) /\ lx'.valid = 1
            /\ "from" \in DOMAIN tk' /\ tk'.from = lx'.at
            /\ tk.from = lx.at /\ lx.at \in 1..Len(text) /\ lx'.at = lx.at + 1
            /\ text[lx.at] \in Spaces /\ ~AtEof(lx)
        BY <2>0, <3>1, <3>3, SkipResult DEF SkipSpace
      <4>2. Locals'
        BY <4>1 DEF Locals, PcType, InToken, Buffered
      <4>3. ~EofIn(toks) /\ Done < tk.from /\ \A k \in (Done + 1)..(tk.from - 1) : text[k] \in Spaces
        BY <2>0, <4>1 DEF Covering
      <4>4. Done' = Done /\ ~EofIn(toks)'
        BY <4>1, <4>3, SameTokens
      <4>5. Done \in Int
        BY DEF TokensInv, Done, IsLast
      <4>6. Covering'
        BY <3>1, <4>1, <4>3, <4>4, <4>5 DEF Covering, InToken
      <4> QED
        BY <2>a, <3>1, <3>2, <4>1, <4>2, <4>6
    <3>4. CASE EndOfFile
      <4>1. /\ pc = "start" /\ AtEof(lx) /\ pc' = "idle" /\ lx' = lx
            /\ "from" \in DOMAIN tk' /\ tk'.from = lx.at
        BY <3>4, EofResult
      <4>2. PICK t : t.kind = "eof" /\ t.to = lx.at - 1 /\ toks' = Append(toks, t)
        BY <3>4, EofResult
      <4>3. /\ \E T : toks' \in Seq(T)
            /\ \A i \in 1..Len(toks) : toks'[i] = toks[i]
            /\ Len(toks) \in Nat /\ Len(toks') = Len(toks) + 1 /\ toks'[Len(toks) + 1] = t
            /\ EofIn(toks') /\ IsLast(toks', LastReal')
        BY <4>2, MoreTokens
      <4>4. \A i \in 1..Len(toks') : toks'[i].to \in 0..Len(text)
        BY <2>0, <3>2, <4>1, <4>2, <4>3 DEF TokensInv
      <4>5. Locals'
        BY <2>0, <3>1, <4>1 DEF Locals, PcType, InToken, Buffered
      <4>6. Covering'
        BY <3>1, <3>2, <4>1, <4>3 DEF Covering, AtEof, SourceHasMore
      <4> QED
        BY <3>1, <3>2, <4>1, <4>3, <4>4, <4>5, <4>6 DEF TokensInv
    <3>5. CASE ~SkipSpace /\ ~EndOfFile
      <4>1. ~EofIn(toks)
        BY <2>0, <2>2, <3>1, <3>5, OnlyEof DEF Covering
      <4>2. CASE Returned
        <5>1. /\ pc' = "idle" /\ tk' = Fresh(lx') /\ Beyond(lx')
          BY <4>2 DEF Returned
        <5>2. PICK t : t.kind # "eof" /\ t.to = lx'.at - 1 /\ toks' = Append(toks, t)
          BY <4>2 DEF Returned
        <5>3. /\ \E T : toks' \in Seq(T)
              /\ \A i \in 1..Len(toks) : toks'[i] = toks[i]
              /\ Len(toks) \in Nat /\ Len(toks') = Len(toks) + 1 /\ toks'[Len(toks) + 1] = t
              /\ ~EofIn(toks') /\ IsLast(toks', LastReal') /\ Done' = t.to
          BY <4>1, <5>2, MoreTokens
        <5>4. \A i \in 1..Len(toks') : toks'[i].to \in 0..Len(text)
          BY <2>0, <3>2, <5>2, <5>3 DEF TokensInv
        <5>5. "from" \in DOMAIN tk' /\ tk'.from = lx'.at
          BY <5>1 DEF Fresh
        <5>6. Locals'
          BY <3>1, <5>1, <5>5 DEF Locals, PcType, InToken, Buffered, Beyond
        <5>7. Covering'
          BY <3>1, <3>2, <5>1, <5>2, <5>3 DEF Covering, InToken
        <5> QED
          BY <3>1, <3>2, <5>3, <5>4, <5>5, <5>6, <5>7 DEF TokensInv
      <4>3. CASE Continued
        <5>1. /\ pc' \in InToken \union {"threw"} /\ toks' = toks
              /\ "from" \in DOMAIN tk' /\ tk'.from = tk.from
              /\ At(lx') /\ (pc' # "int" => Beyond(lx'))
              /\ pc' = "point" => lx'.at <= Len(text)
          BY <4>3 DEF Continued
        <5>2. pc' \in PcType /\ pc' \notin {"idle", "start"}
          BY <5>1 DEF PcType, InToken
        <5>3. Loaded(lx)'
          BY <5>2 DEF CursorInv, Loaded
        <5>4. Locals'
          BY <3>1, <5>1, <5>2, <5>3 DEF Locals, Buffered, At, Beyond
        <5>5. Done < tk.from /\ \A k \in (Done + 1)..(tk.from - 1) : text[k] \in Spaces
          <6>1. pc \in {"start"} \union InToken
            BY <2>0, <2>2, <3>1, NotThrew DEF Locals, PcType
          <6> QED
            BY <2>0, <4>1, <6>1 DEF Covering
        <5>6. Done' = Done /\ ~EofIn(toks)'
          BY <4>1, <5>1, SameTokens
        <5>7. Covering'
          BY <3>1, <5>1, <5>2, <5>5, <5>6 DEF Covering
        <5>8. tk.from \in 0..(Len(text) + 1)
          BY DEF TokensInv
        <5> QED
          BY <2>a, <3>1, <5>1, <5>4, <5>7, <5>8
      <4> QED
        BY <2>0, <2>2, <3>1, <3>5, <4>2, <4>3, LexResult
    <3> QED
      BY <3>3, <3>4, <3>5
  <2>3. CASE UNCHANGED vars
    <3>1. /\ text' = text /\ lx' = lx /\ pc' = pc /\ tk' = tk /\ toks' = toks
      BY <2>3 DEF vars
    <3>2. Loaded(lx)' <=> Loaded(lx)
      BY <2>0, <3>1 DEF CursorInv, Loaded
    <3>3. Locals'
      BY <2>0, <3>1, <3>2 DEF Locals, Buffered, At, Beyond
    <3>4. Covering'
      BY <2>0, <3>1, SameTokens DEF Covering, AtEof, SourceHasMore
    <3> QED
      BY <2>a, <3>1, <3>3, <3>4 DEF TokensInv
  <2> QED
    BY <2>1, <2>2, <2>3 DEF Next
<1> QED
  BY <1>1, <1>2, CursorCorrect, PTL DEF Spec

(* TypeCorrect: on any text, a token ends within it and begins at most one *)
(* past its end, and the cursor keeps its type, in every state of Lex().   *)
THEOREM TypeCorrect == Spec => []TypeOK
<1>1. CursorInv /\ TokensInv => TypeOK
  BY DEF CursorInv, CursorOK, TokensInv, Locals, TypeOK, PcType, InToken
<1> QED
  BY <1>1, TokensCovered, CursorCorrect, PTL

(* TokensCorrect: on any text, the sequence of calls of Lex() delivers the *)
(* text token by token, loses nothing but spaces, always makes progress,   *)
(* and answers the end of file only at the end and then for ever.          *)
THEOREM TokensCorrect == Spec => ImplementsTokens
<1> DEFINE start == IF LastReal = 0 THEN 0 ELSE toks[LastReal].from
<1>1. Init => Tokens!Init
  <2> SUFFICES ASSUME Init
               PROVE  Tokens!Init
    OBVIOUS
  <2>1. toks \in Seq({}) /\ Len(toks) = 0 /\ ~EofIn(toks) /\ toks = << >>
    BY DEF Init, EofIn
  <2>2. IsLast(toks, 0)
    BY <2>1 DEF IsLast
  <2>3. LastReal = 0
    BY <2>1, <2>2, LastUnique DEF LastReal, LastOf
  <2>4. ~(Eofs > 0)
    BY <2>1, EofCount DEF Eofs
  <2> QED
    BY <2>3, <2>4 DEF Tokens!Init
<1>2. CursorInv /\ CursorInv' /\ TokensInv /\ [Next]_vars
        => [Tokens!Token \/ Tokens!EndOfFile]_(Tokens!vars)
  <2> SUFFICES ASSUME CursorInv, CursorInv', TokensInv, [Next]_vars
               PROVE  [Tokens!Token \/ Tokens!EndOfFile]_(Tokens!vars)
    OBVIOUS
  <2>0. text \in Seq(Char) /\ Len(text) \in Nat /\ Covering /\ Len(toks) \in Nat
    BY DEF CursorInv, TokensInv
  <2>a. (Eofs > 0) = TRUE <=> EofIn(toks)
    BY <2>0, EofCount DEF Eofs
  <2>b. ASSUME toks' = toks, text' = text
        PROVE  UNCHANGED Tokens!vars
    BY <2>b, SameTokens DEF Tokens!vars
  <2>1. CASE Begin
    BY <2>1, <2>b DEF Begin
  <2>2. CASE Lex
    <3>1. Loaded(lx) /\ text' = text /\ Loaded(lx') /\ pc # "idle"
      BY <2>0, <2>2, LexFrame, LexCursor DEF CursorInv, Loaded
    <3>2. CASE SkipSpace
      BY <2>b, <3>1, <3>2 DEF SkipSpace
    <3>3. CASE EndOfFile
      <4>1. pc = "start" /\ AtEof(lx) /\ lx' = lx
        BY <3>3, EofResult
      <4>2. PICK t : t.kind = "eof" /\ toks' = Append(toks, t)
        BY <3>3, EofResult
      <4>3. /\ \A i \in 1..Len(toks) : toks'[i] = toks[i]
            /\ Len(toks') = Len(toks) + 1 /\ EofIn(toks')
            /\ LastReal' = LastReal /\ Done' = Done
        BY <4>2, MoreTokens
      <4>4. (Eofs > 0)' = TRUE
        BY <2>0, <4>3, EofCount DEF Eofs
      <4>5. start' = start
        BY <4>3 DEF TokensInv, IsLast
      <4>6. CASE EofIn(toks)
        BY <2>a, <3>1, <4>3, <4>4, <4>5, <4>6 DEF Tokens!vars, Done
      <4>7. CASE ~EofIn(toks)
        <5>1. tk.from = lx.at /\ \A k \in (Done + 1)..(lx.at - 1) : text[k] \in Spaces
          BY <2>0, <4>1, <4>7 DEF Covering, TokensInv, Locals
        <5>2. \/ lx.at = Len(text) + 1
              \/ lx.at = Len(text) /\ Len(text) # 0 /\ text[Len(text)] = NUL
          BY <2>0, <3>1, <4>1, EofAt
        <5>3. \/ \A k \in (Done + 1)..Len(text) : text[k] \in Spaces
              \/ /\ \A k \in (Done + 1)..(Len(text) - 1) : text[k] \in Spaces
                 /\ text # << >> /\ text[Len(text)] = NUL
          BY <2>0, <5>1, <5>2
        <5>4. Tokens!EndOfFile
          BY <3>1, <4>3, <4>4, <4>5, <5>3, Zenon DEF Tokens!EndOfFile, Tokens!Gap, Done, Spaces
        <5> QED
          BY <5>4
      <4> QED
        BY <4>6, <4>7
    <3>4. CASE ~SkipSpace /\ ~EndOfFile
      <4>1. CASE Returned
        <5>1. ~EofIn(toks) /\ pc \in {"start"} \union InToken
          BY <2>0, <2>2, <3>1, <3>4, OnlyEof, NotThrew DEF Covering, TokensInv, Locals, PcType
        <5>2. Beyond(lx')
          BY <4>1 DEF Returned
        <5>3. PICK t : t.kind # "eof" /\ t.from = tk.from /\ t.to = lx'.at - 1 /\ toks' = Append(toks, t)
          BY <4>1 DEF Returned
        <5>4. /\ \A i \in 1..Len(toks) : toks'[i] = toks[i]
              /\ Len(toks') = Len(toks) + 1 /\ toks'[Len(toks) + 1] = t
              /\ ~EofIn(toks') /\ LastReal' = Len(toks) + 1 /\ Done' = t.to
          BY <5>1, <5>3, MoreTokens
        <5>5. (Eofs > 0)' = FALSE /\ (Eofs > 0) = FALSE
          BY <2>0, <2>a, <5>1, <5>4, EofCount DEF Eofs
        <5>6. start' = t.from
          BY <2>0, <5>4
        <5>7. /\ t.from \in (Done + 1)..Len(text) /\ t.to \in t.from..Len(text)
              /\ \A k \in (Done + 1)..(t.from - 1) : text[k] \in Spaces
          <6>1. Done < tk.from /\ \A k \in (Done + 1)..(tk.from - 1) : text[k] \in Spaces
            BY <2>0, <5>1 DEF Covering
          <6>2. Done \in 0..Len(text)
            BY <2>0 DEF TokensInv, Done, IsLast
          <6>3. tk.from \in 1..Len(text) /\ tk.from < lx'.at /\ lx'.at \in 1..(Len(text) + 1)
            <7>1. lx'.at \in 1..(Len(text) + 1)
              BY <3>1, LoadedAt
            <7> QED
              BY <5>2, <7>1 DEF Beyond
          <6> QED
            BY <2>0, <5>3, <6>1, <6>2, <6>3
        <5>8. \E from \in (Done + 1)..Len(text) :
                 /\ \A k \in (Done + 1)..(from - 1) : text[k] \in Spaces
                 /\ start' = from
                 /\ Done' \in from..Len(text)
          BY <5>4, <5>6, <5>7, Zenon
        <5>9. Tokens!Token
          BY <3>1, <5>5, <5>8, Zenon DEF Tokens!Token, Tokens!Gap, Done, Spaces
        <5> QED
          BY <5>9
      <4>2. CASE Continued
        BY <2>b, <3>1, <4>2 DEF Continued
      <4> QED
        BY <2>0, <2>2, <3>1, <3>4, <4>1, <4>2, LexResult DEF TokensInv
    <3> QED
      BY <3>2, <3>3, <3>4
  <2>3. CASE UNCHANGED vars
    BY <2>3, <2>b DEF vars
  <2> QED
    BY <2>1, <2>2, <2>3 DEF Next
<1> QED
  BY <1>1, <1>2, CursorCorrect, TokensCovered, PTL DEF Spec, ImplementsTokens, Tokens!Spec

-----------------------------------------------------------------------------
(* Where tokens begin.  The cursor's location is exact as long as no line  *)
(* end is passed but by an eol token, and NextChar() is not called behind  *)
(* the end of the text: a token that does one or the other is told by the  *)
(* conditions of BeginOK.                                                  *)

Located(c) == c.line = LineOf(text, NL, c.at) /\ c.col = ColOf(text, NL, c.at)

(* A cursor within the token under construction: its location is exact if  *)
(* the token has no line end so far.                                       *)
Exact(c) == (\A i \in tk.from..(c.at - 1) : text[i] # NL) => Located(c)

Fine(c)  == At(c) /\ Exact(c)
Loose(c) == At(c) /\ (c.at <= Len(text) => Exact(c))

InText == text \in Seq(Char) /\ Len(text) \in Nat /\ Len(text) + 1 < ColWidth

LEMMA NextLocated ==
  ASSUME InText, NEW c, Loaded(c), c.at <= Len(text), text[c.at] # NL, Located(c)
  PROVE  Located(NextChar(c))
<1> DEFINE n == NextChar(c)
<1>1. c.at \in 1..Len(text) /\ Len(text) \in Nat
  BY LoadedAt DEF InText
<1>2. n.at = c.at + 1 /\ n.line = c.line /\ n.col = (c.col + 1) % ColWidth
  BY <1>1, NextCharMeans DEF InText
<1> HIDE DEF n
<1>3. /\ LineOf(text, NL, c.at + 1) = c.line
      /\ c.col \in 1..c.at /\ ColOf(text, NL, c.at + 1) = c.col + 1
  <2>1. LineOf(text, NL, c.at) \in Nat
    BY <1>1, LineOfType
  <2>2. LineOf(text, NL, c.at + 1) = LineOf(text, NL, c.at)
    BY <1>1, <2>1, LineOfStep
  <2>3. /\ ColOf(text, NL, c.at) \in 1..c.at
        /\ ColOf(text, NL, c.at + 1) = ColOf(text, NL, c.at) + 1
    BY <1>1, ColOfStep
  <2> QED
    BY <2>2, <2>3 DEF Located
<1>4. (c.col + 1) % ColWidth = c.col + 1
  BY <1>1, <1>3, CursorAssumption DEF InText
<1>5. Located(n)
  BY <1>2, <1>3, <1>4 DEF Located
<1> QED
  BY <1>5 DEF n

LEMMA FineLoose ==
  ASSUME NEW c
  PROVE  /\ Fine(c) => Loose(c) /\ At(c)
         /\ Loose(c) /\ c.at <= Len(text) => Fine(c)
BY DEF Fine, Loose

LEMMA PeekFine ==
  ASSUME InText, NEW c
  PROVE  /\ Fine(c) => Fine(PeekChar(c)) /\ PeekChar(c).at = c.at
         /\ Loose(c) => Loose(PeekChar(c)) /\ PeekChar(c).at = c.at
<1>1. ASSUME At(c)
      PROVE  /\ At(PeekChar(c)) /\ PeekChar(c).at = c.at
             /\ PeekChar(c).line = c.line /\ PeekChar(c).col = c.col
  BY <1>1, PeekCharMeans DEF At, InText
<1> QED
  BY <1>1 DEF Fine, Loose, Exact, Located

LEMMA NextFine ==
  ASSUME InText, NEW c, Loose(c)
  PROVE  /\ c.at <= Len(text) => Fine(NextChar(c)) /\ NextChar(c).at = c.at + 1
         /\ Loose(NextChar(c))
         /\ NextChar(c).cur # NUL => Fine(NextChar(c)) /\ NextChar(c).at <= Len(text)
<1> DEFINE n == NextChar(c)
<1>1. At(c) /\ Loaded(c) /\ c.at \in 1..(Len(text) + 1) /\ tk.from \in 1..Len(text) /\ tk.from <= c.at
      /\ Len(text) \in Nat
  BY LoadedAt DEF Loose, At, InText
<1>2. At(n) /\ n.at = IF c.at <= Len(text) THEN c.at + 1 ELSE c.at
  BY <1>1, NextBeyond, NextCharMeans DEF InText
<1>3. ASSUME c.at <= Len(text)
      PROVE  Fine(n) /\ n.at = c.at + 1
  <2>1. Exact(c) /\ n.at = c.at + 1
    BY <1>2, <1>3 DEF Loose
  <2>2. ASSUME \A i \in tk.from..(n.at - 1) : text[i] # NL
        PROVE  Located(n)
    <3>1. text[c.at] # NL /\ \A i \in tk.from..(c.at - 1) : text[i] # NL
      BY <1>1, <2>1, <2>2
    <3> QED
      BY <1>1, <1>3, <2>1, <3>1, NextLocated DEF Exact
  <2> QED
    BY <1>2, <2>1, <2>2 DEF Fine, Exact
<1>4. n.cur # NUL => n.at <= Len(text)
  BY <1>2, LoadedAt DEF At
<1> HIDE DEF n
<1>5. n.at <= Len(text) => c.at <= Len(text)
  BY <1>1, <1>2
<1>6. Loose(n)
  BY <1>2, <1>3, <1>5, FineLoose DEF Loose
<1> QED
  BY <1>3, <1>4, <1>6, FineLoose DEF n

(* What PeekChar() saw, NextChar() makes the current character.            *)
LEMMA PeekNext ==
  ASSUME InText, NEW c, Loaded(c), c.at <= Len(text)
  PROVE  /\ PeekChar(c).nxt = CharAt(c.at + 1)
         /\ NextChar(PeekChar(c)).cur = PeekChar(c).nxt
         /\ NextChar(PeekChar(c)).at = c.at + 1
<1>1. Loaded(PeekChar(c)) /\ PeekChar(c).valid = 2 /\ PeekChar(c).at = c.at
  BY PeekCharMeans DEF InText
<1>2. Loaded(NextChar(PeekChar(c))) /\ NextChar(PeekChar(c)).at = c.at + 1
  BY <1>1, NextCharMeans DEF InText
<1>3. PeekChar(c).nxt = CharAt(c.at + 1)
  BY <1>1 DEF Loaded, CursorOK, LookaheadOK
<1>4. NextChar(PeekChar(c)).cur = CharAt(c.at + 1)
  BY <1>2 DEF Loaded, CursorOK, LookaheadOK, CursorType
<1> QED
  BY <1>2, <1>3, <1>4

-----------------------------------------------------------------------------
(* The locals of Lex() that matter here; w holds the location that the     *)
(* token's range begins with.                                              *)
TkOK ==
  /\ {"w", "str", "quote", "long", "trail", "base", "isFloat", "from"} \subseteq DOMAIN tk
  /\ tk.base \in {2, 10, 16}

WOK(w) == {"bl", "bc", "el", "ec"} \subseteq DOMAIN w

Began(w) ==
  /\ WOK(w)
  /\ ~EmptyString(tk.from) => w.bl = LineOf(text, NL, tk.from) /\ w.bc = ColOf(text, NL, tk.from)

(* The token is a base prefix that ends the text: c has moved behind it.   *)
Bare(c) == c.at = Len(text) + 1 /\ c.at = tk.from + 2 /\ text[tk.from + 1] \in {"x", "b"}

(* The step reports the token as an unterminated string.                   *)
Cut == \E i \in 1..Len(diags') : diags'[i].id = "unterminated_string" /\ diags'[i].from = tk.from

(* What is known within a call.                                            *)
Placed ==
  /\ TkOK /\ Began(tk.w) /\ Loose(lx) /\ \E S : diags \in Seq(S)
  /\ pc # "comment" => Exact(lx)
  /\ pc \in {"start", "point", "frac", "e"} => lx.at <= Len(text)
  /\ pc = "start" => tk.isFloat = FALSE /\ tk.w = Here(lx) /\ tk.from = lx.at
  /\ pc = "int" => lx.at <= Len(text) \/ (Bare(lx) /\ tk.isFloat = FALSE)
  /\ pc = "string" => tk.quote \in Quote

ReturnedAt ==
  /\ pc' = "idle" /\ tk' = Fresh(lx') /\ Loose(lx')
  /\ \E t : /\ toks' = Append(toks, t) /\ t.kind # "eof" /\ t.from = tk.from /\ t.to = lx'.at - 1
            /\ Began(t.w)
            /\ \/ t.kind = "eol" /\ Located(lx')
               \/ t.kind # "eol" /\ (Exact(lx') \/ Unterminated(t)' \/ BarePrefix(t))

ContinuedAt ==
  /\ pc' \in InToken /\ toks' = toks /\ TkOK' /\ tk'.from = tk.from
  /\ Began(tk'.w) /\ Loose(lx')
  /\ pc' # "comment" => Exact(lx')
  /\ pc' \in {"point", "frac", "e"} => lx'.at <= Len(text)
  /\ pc' = "int" => lx'.at <= Len(text) \/ (Bare(lx') /\ tk'.isFloat = FALSE)
  /\ pc' = "string" => tk'.quote \in Quote

LEMMA ExtendBegan ==
  ASSUME NEW w, NEW n, Began(w)
  PROVE  Began(Extend(w, n)) /\ Began([w EXCEPT !.el = @ + 1, !.ec = 1])
BY DEF Began, WOK, Extend

LEMMA HasMoreAt ==
  ASSUME NEW c, Loaded(c), SourceHasMore(c)
  PROVE  c.at <= Len(text)
BY DEF Loaded, CursorOK, LookaheadOK, CursorType, SourceHasMore

LEMMA CutShort ==
  ASSUME NEW S, NEW d \in Seq(S), NEW c, ~SourceHasMore(c), diags' = IfUnterminated(c, d)
  PROVE  Cut
<1> DEFINE r == [id |-> "unterminated_string", from |-> tk.from]
<1>1. diags' = Append(d, r)
  BY DEF IfUnterminated
<1>2. d \in Seq(S \union {r}) /\ r \in S \union {r} /\ r.id = "unterminated_string" /\ r.from = tk.from
  OBVIOUS
<1> HIDE DEF r
<1>3. Len(diags') = Len(d) + 1 /\ diags'[Len(d) + 1] = r /\ Len(d) \in Nat
  BY <1>1, <1>2
<1> QED
  BY <1>2, <1>3 DEF Cut

LEMMA ReturnPlace ==
  ASSUME NEW c, NEW kind, NEW w, NEW val, Return(c, kind, w, val), kind \notin {"eof", "eol"},
         Loose(c), Began(w),
         \/ Exact(c)
         \/ Cut
         \/ kind = "integer_constant" /\ Bare(c)
  PROVE  ReturnedAt
<1>0. PICK t : t = [kind |-> kind, w |-> w, val |-> val, long |-> tk.long,
                    from |-> tk.from, to |-> c.at - 1]
  OBVIOUS
<1>1. lx' = c /\ pc' = "idle" /\ tk' = Fresh(c) /\ toks' = Append(toks, t)
  BY <1>0 DEF Return
<1>2. t.to = c.at - 1 /\ t.from = tk.from /\ t.kind = kind /\ t.w = w
  BY <1>0
<1>3. CASE Exact(c)
  BY <1>1, <1>2, <1>3 DEF ReturnedAt
<1>4. CASE Cut
  <2>1. Unterminated(t)'
    BY <1>2, <1>4 DEF Cut, Unterminated
  <2> QED
    BY <1>1, <1>2, <2>1 DEF ReturnedAt
<1>5. CASE kind = "integer_constant" /\ Bare(c)
  <2>1. tk.from + 1 = c.at - 1 /\ tk.from + 1 = t.to
    <3>1. tk.from \in Int
      BY DEF Loose, At
    <3> QED
      BY <1>2, <1>5, <3>1 DEF Bare
  <2>2. BarePrefix(t)
    BY <1>2, <1>5, <2>1 DEF BarePrefix, Bare
  <2> QED
    BY <1>1, <1>2, <2>2 DEF ReturnedAt
<1> QED
  BY <1>3, <1>4, <1>5

LEMMA ReturnUtf8Place ==
  ASSUME NEW c, NEW kind, NEW w, NEW val, ReturnUtf8(c, kind, w, val), kind \notin {"eof", "eol"},
         Loose(c), Began(w), Exact(c) \/ Cut
  PROVE  ReturnedAt \/ pc' = "threw"
<1>1. CASE "sur" \in ToSet(val)
  BY <1>1 DEF ReturnUtf8
<1>2. CASE "sur" \notin ToSet(val)
  BY <1>2, ReturnPlace DEF ReturnUtf8
<1> QED
  BY <1>1, <1>2

LEMMA StringEndPlace ==
  ASSUME InText, NEW c, NEW w, NEW str, StringEnd(c, w, str), Loose(c), Began(w),
         c.at <= Len(text) \/ Cut
  PROVE  ReturnedAt \/ pc' = "threw"
<1> DEFINE full == IF tk.trail \/ w.ec = 0 THEN Extend(w, IF tk.long THEN 3 ELSE 1) ELSE w
<1>1. \/ Return(NextChar(c), "rune_constant", full, str)
      \/ ReturnUtf8(NextChar(c), "string_constant", full, str)
  BY DEF StringEnd
<1>2. Began(full)
  BY ExtendBegan
<1>3. Loose(NextChar(c)) /\ (Exact(NextChar(c)) \/ Cut)
  BY NextFine DEF Fine
<1> HIDE DEF full
<1> QED
  BY <1>1, <1>2, <1>3, ReturnPlace, ReturnUtf8Place

LEMMA StringCharPlace ==
  ASSUME InText, TkOK, pc = "string", tk.quote \in Quote, NEW c, NEW ch, StringChar(c, ch),
         Loose(c), Began(tk.w), NEW S, NEW d \in Seq(S), diags' = IfUnterminated(c, d)
  PROVE  ReturnedAt \/ ContinuedAt \/ pc' = "threw"
<1> DEFINE str == Append(tk.str, ch)
           w == IF ch = NL THEN [tk.w EXCEPT !.el = @ + 1, !.ec = 1] ELSE Extend(tk.w, 1)
<1>1. CASE ~SourceHasMore(c)
  <2>1. StringEnd(c, tk.w, tk.str)
    BY <1>1 DEF StringChar
  <2> QED
    BY <1>1, <2>1, CutShort, StringEndPlace
<1>2. CASE SourceHasMore(c)
  <2>1. \/ ReturnUtf8(NextChar(c), "identifier", w, <<"'">> \o str)
        \/ /\ tk' = [tk EXCEPT !.str = str, !.w = w, !.trail = @ /\ ch # NL]
           /\ lx' = NextChar(c) /\ UNCHANGED <<pc, toks>>
    BY <1>2 DEF StringChar
  <2>2. Began(w)
    BY ExtendBegan
  <2> HIDE DEF str, w
  <2>3. Fine(NextChar(c)) /\ Loose(NextChar(c))
    BY <1>2, HasMoreAt, NextFine DEF Loose, At
  <2>4. CASE ReturnUtf8(NextChar(c), "identifier", w, <<"'">> \o str)
    BY <2>2, <2>3, <2>4, ReturnUtf8Place DEF Fine
  <2>5. CASE /\ tk' = [tk EXCEPT !.str = str, !.w = w, !.trail = @ /\ ch # NL]
             /\ lx' = NextChar(c) /\ UNCHANGED <<pc, toks>>
    <3>1. DOMAIN tk' = DOMAIN tk /\ tk'.from = tk.from /\ tk'.base = tk.base /\ tk'.w = w
          /\ tk'.quote = tk.quote
      BY <2>5 DEF TkOK
    <3>2. TkOK'
      BY <3>1 DEF TkOK
    <3> QED
      BY <2>2, <2>3, <2>5, <3>1, <3>2 DEF ContinuedAt, InToken, Fine
  <2> QED
    BY <2>1, <2>4, <2>5
<1> QED
  BY <1>1, <1>2

LEMMA NumberEndPlace ==
  ASSUME NEW c, NEW str, NEW isFloat, NumberEnd(c, str, isFloat), Loose(c), Began(tk.w),
         Exact(c) \/ (isFloat = FALSE /\ Bare(c))
  PROVE  ReturnedAt
<1>1. Return(c, IF isFloat THEN "real_constant" ELSE "integer_constant", Extend(tk.w, Len(str) - 1), str)
  BY DEF NumberEnd
<1>2. Began(Extend(tk.w, Len(str) - 1))
  BY ExtendBegan
<1> QED
  BY <1>1, <1>2, ReturnPlace

LEMMA NumberNextPlace ==
  ASSUME InText, TkOK, NEW c, NEW state, NEW str, NEW isFloat, NumberNext(c, state, str, isFloat),
         Loose(c), Began(tk.w), Exact(c) \/ (isFloat = FALSE /\ Bare(c))
  PROVE  ReturnedAt \/ ContinuedAt
<1>1. c.cur # NUL => c.at <= Len(text) /\ Exact(c)
  BY LoadedAt DEF Loose, At
<1>2. ASSUME tk' = [tk EXCEPT !.str = str, !.isFloat = isFloat]
      PROVE  TkOK' /\ tk'.from = tk.from /\ tk'.w = tk.w
  <2>1. DOMAIN tk' = DOMAIN tk /\ tk'.from = tk.from /\ tk'.base = tk.base /\ tk'.w = tk.w
    BY <1>2 DEF TkOK
  <2> QED
    BY <2>1 DEF TkOK
<1>3. CASE c.cur = "." /\ state # "frac" /\ tk.base # 16
  <2>1. lx' = c /\ pc' = "point" /\ toks' = toks /\ tk' = [tk EXCEPT !.str = str, !.isFloat = isFloat]
    BY <1>3 DEF NumberNext
  <2> QED
    BY <1>1, <1>2, <1>3, <2>1, TextsAssumption DEF ContinuedAt, InToken
<1>4. CASE ~(c.cur = "." /\ state # "frac" /\ tk.base # 16) /\ c.cur \in {"e", "E"} /\ state # "exp"
  <2>1. lx' = c /\ pc' = "e" /\ toks' = toks /\ tk' = [tk EXCEPT !.str = str, !.isFloat = isFloat]
    BY <1>4 DEF NumberNext
  <2> QED
    BY <1>1, <1>2, <1>4, <2>1, TextsAssumption DEF ContinuedAt, InToken
<1>5. CASE ~(c.cur = "." /\ state # "frac" /\ tk.base # 16) /\ ~(c.cur \in {"e", "E"} /\ state # "exp")
  BY <1>5, NumberEndPlace DEF NumberNext
<1> QED
  BY <1>3, <1>4, <1>5

(* What each part of the lexer does with a token's place.                  *)
LEMMA MovedPlace ==
  ASSUME InText, Placed, NEW c, lx' = NextChar(c), Fine(c), c.at <= Len(text), toks' = toks,
         TkOK', tk'.from = tk.from, Began(tk'.w),
         pc' \in InToken \ {"point", "frac", "e"}, pc' # "int" \/ NextChar(c).cur # NUL,
         pc' # "string" \/ tk'.quote \in Quote
  PROVE  ContinuedAt
<1>1. Fine(NextChar(c)) /\ Loose(NextChar(c)) /\ (NextChar(c).cur # NUL => NextChar(c).at <= Len(text))
  BY NextFine, FineLoose
<1>2. Loose(lx') /\ Exact(lx') /\ (pc' = "int" => lx'.at <= Len(text))
  BY <1>1 DEF Fine
<1>3. pc' \in InToken /\ pc' \notin {"point", "frac", "e"} /\ (pc' = "string" => tk'.quote \in Quote)
  OBVIOUS
<1> QED
  BY <1>2, <1>3, Zenon DEF ContinuedAt

LEMMA CommentPlace ==
  ASSUME InText, Placed, CommentStart \/ CommentChar \/ CommentEnd
  PROVE  ReturnedAt \/ ContinuedAt
<1>1. TkOK /\ Began(tk.w) /\ Loose(lx)
  BY DEF Placed
<1>2. CASE CommentStart
  <2>1. /\ pc = "start" /\ lx' = NextChar(PeekChar(lx)) /\ pc' = "comment" /\ tk' = tk /\ toks' = toks
    BY <1>2 DEF CommentStart
  <2>2. Fine(PeekChar(lx)) /\ PeekChar(lx).at = lx.at /\ lx.at <= Len(text)
    BY <1>1, <2>1, PeekFine, FineLoose DEF Placed
  <2>3. TkOK' /\ tk'.from = tk.from /\ Began(tk'.w)
    BY <1>1, <2>1 DEF TkOK
  <2> QED
    BY <2>1, <2>2, <2>3, MovedPlace DEF InToken
<1>3. CASE CommentChar
  <2>1. /\ lx' = NextChar(lx) /\ pc' = "comment" /\ toks' = toks
        /\ tk' = tk \/ tk' = [tk EXCEPT !.str = Append(@, NextChar(lx).cur)]
    BY <1>3 DEF CommentChar
  <2>2. TkOK' /\ tk'.from = tk.from /\ tk'.w = tk.w
    <3>1. DOMAIN tk' = DOMAIN tk /\ tk'.from = tk.from /\ tk'.base = tk.base /\ tk'.w = tk.w
      BY <1>1, <2>1 DEF TkOK
    <3> QED
      BY <1>1, <3>1 DEF TkOK
  <2>3. Loose(lx')
    BY <1>1, <2>1, NextFine
  <2> QED
    BY <1>1, <2>1, <2>2, <2>3 DEF ContinuedAt, InToken
<1>4. CASE CommentEnd
  <2>1. /\ NextChar(lx).cur = NL
        /\ \E val, n : Return(NextChar(NextChar(lx)), "line_comment", Extend(tk.w, n), val)
    BY <1>4 DEF CommentEnd
  <2>2. Fine(NextChar(lx)) /\ NextChar(lx).at <= Len(text) /\ Loose(NextChar(lx))
    BY <1>1, <2>1, NextFine, CursorAssumption
  <2>3. Fine(NextChar(NextChar(lx)))
    BY <2>2, NextFine
  <2>4. PICK val, n : Return(NextChar(NextChar(lx)), "line_comment", Extend(tk.w, n), val)
    BY <2>1
  <2>5. Began(Extend(tk.w, n)) /\ Loose(NextChar(NextChar(lx))) /\ Exact(NextChar(NextChar(lx)))
    BY <1>1, <2>3, FineLoose, ExtendBegan DEF Fine
  <2> QED
    BY <2>4, <2>5, ReturnPlace
<1> QED
  BY <1>2, <1>3, <1>4

LEMMA PunctuatorPlace ==
  ASSUME InText, Placed, Punctuator
  PROVE  ReturnedAt
<1>1. TkOK /\ Began(tk.w) /\ Loose(lx) /\ pc = "start" /\ lx.at <= Len(text)
  BY DEF Placed, Punctuator
<1>2. Fine(NextChar(lx)) /\ Loose(NextChar(lx))
  BY <1>1, NextFine
<1>3. \/ /\ NextChar(lx).cur # NUL
         /\ \E val : Return(NextChar(NextChar(lx)), "punctuator", Extend(tk.w, 1), val)
      \/ \E val : Return(NextChar(lx), "punctuator", tk.w, val)
  BY TextsAssumption DEF Punctuator, Doubled
<1>4. NextChar(lx).cur # NUL => Fine(NextChar(NextChar(lx)))
  BY <1>1, <1>2, NextFine
<1>5. PICK c, w, val : Return(c, "punctuator", w, val) /\ Fine(c) /\ Began(w)
  BY <1>1, <1>2, <1>3, <1>4, ExtendBegan
<1>6. Loose(c) /\ Exact(c)
  BY <1>5, FineLoose DEF Fine
<1> QED
  BY <1>5, <1>6, ReturnPlace

LEMMA QuotePlace ==
  ASSUME InText, Placed, QuoteStart
  PROVE  ContinuedAt
<1> DEFINE one == PeekChar(lx)
           two == PeekChar(NextChar(one))
           shift(w) == [w EXCEPT !.bc = (@ - 2) % ColWidth, !.ec = (@ - 2) % ColWidth]
           Opens(c, long) ==
             /\ lx' = NextChar(c)
             /\ tk' = [tk EXCEPT !.w = IF long THEN shift(Here(c)) ELSE Here(c),
                                 !.quote = c.cur, !.long = long]
<1>1. /\ TkOK /\ Loose(lx) /\ Loaded(lx) /\ pc = "start" /\ lx.at <= Len(text) /\ Exact(lx) /\ Fine(lx)
      /\ tk.from = lx.at /\ lx.at \in 1..Len(text)
  <2>1. TkOK /\ Loose(lx) /\ pc = "start" /\ lx.at <= Len(text) /\ Exact(lx) /\ tk.from = lx.at
    BY DEF Placed, QuoteStart
  <2> QED
    BY <2>1, LoadedAt DEF Loose, Fine, At
<1>2. lx.cur \in Quote /\ lx.cur = text[lx.at] /\ lx.cur # NUL
  <2>1. lx.cur \in Quote
    BY DEF QuoteStart
  <2>2. lx.cur = text[lx.at]
    BY <1>1 DEF Loaded, CursorOK, LookaheadOK, CursorType, CharAt
  <2> QED
    BY <2>1, <2>2, TextsAssumption DEF Quote
<1>3. toks' = toks /\ pc' = "string"
  BY DEF QuoteStart, StringToken
<1>4. /\ Fine(one) /\ one.at = lx.at /\ one.nxt = CharAt(lx.at + 1) /\ Loaded(one)
      /\ NextChar(one).cur = one.nxt /\ NextChar(one).at = lx.at + 1 /\ one.cur = lx.cur
  BY <1>1, PeekFine, PeekNext, PeekStays DEF Fine, At, InText
<1>5. \/ Opens(one, FALSE)
      \/ one.nxt = lx.cur /\ two.nxt # lx.cur /\ Opens(two, FALSE)
      \/ one.nxt = lx.cur /\ two.nxt = lx.cur /\ Opens(NextChar(two), TRUE)
  BY DEF QuoteStart, StringToken
<1>6. ASSUME NEW c, NEW long, Opens(c, long), Fine(c), c.at <= Len(text), c.cur = lx.cur,
             Began(IF long THEN shift(Here(c)) ELSE Here(c))
      PROVE  ContinuedAt
  <2>0. PICK w : /\ w = IF long THEN shift(Here(c)) ELSE Here(c)
                 /\ tk' = [tk EXCEPT !.w = w, !.quote = c.cur, !.long = long]
    BY <1>6
  <2>1. DOMAIN tk' = DOMAIN tk /\ tk'.from = tk.from /\ tk'.base = tk.base
        /\ tk'.w = w /\ tk'.quote = c.cur
    BY <1>1, <2>0 DEF TkOK
  <2>2. TkOK' /\ tk'.from = tk.from /\ Began(tk'.w) /\ tk'.quote \in Quote
    BY <1>1, <1>2, <1>6, <2>0, <2>1 DEF TkOK
  <2> QED
    BY <1>3, <1>6, <2>2, MovedPlace DEF InToken
<1>7. ASSUME NEW c
      PROVE  WOK(Here(c)) /\ WOK(shift(Here(c)))
             /\ Here(c).bl = c.line /\ Here(c).bc = c.col
             /\ shift(Here(c)).bl = c.line /\ shift(Here(c)).bc = (c.col - 2) % ColWidth
  BY DEF WOK, Here
<1> HIDE DEF one
<1>8. CASE Opens(one, FALSE)
  <2>1. Located(one)
    BY <1>1, <1>4 DEF Fine, Exact
  <2>2. Began(Here(one))
    BY <1>1, <1>4, <1>7, <2>1 DEF Began, Located
  <2> HIDE DEF shift
  <2> QED
    BY <1>1, <1>4, <1>6, <1>8, <2>2
<1>9. CASE one.nxt = lx.cur /\ ~Opens(one, FALSE)
  <2>1. lx.at + 1 <= Len(text) /\ text[lx.at + 1] = text[lx.at]
    BY <1>1, <1>2, <1>4, <1>9 DEF CharAt
  <2>2. Fine(NextChar(one)) /\ NextChar(one).at = lx.at + 1 /\ Loaded(NextChar(one))
    BY <1>1, <1>4, NextFine, FineLoose DEF Fine, At
  <2>3. /\ Fine(two) /\ two.at = lx.at + 1 /\ two.nxt = CharAt(lx.at + 1 + 1)
        /\ NextChar(two).at = lx.at + 1 + 1 /\ Loaded(two)
        /\ two.cur = NextChar(one).cur /\ NextChar(two).cur = two.nxt
    BY <2>1, <2>2, PeekFine, PeekNext, PeekStays DEF Fine, At, InText
  <2> HIDE DEF two
  <2>4. CASE two.nxt # lx.cur /\ Opens(two, FALSE)
    <3>1. EmptyString(tk.from)
      BY <1>1, <1>2, <2>1, <2>3, <2>4 DEF EmptyString, OpensLong, IsQuote, CharAt
    <3>2. Began(Here(two))
      BY <1>7, <3>1 DEF Began
    <3> HIDE DEF shift
    <3> QED
      BY <1>4, <1>6, <1>9, <2>1, <2>3, <2>4, <3>2
  <2>5. CASE two.nxt = lx.cur /\ Opens(NextChar(two), TRUE)
    <3>1. lx.at + 2 <= Len(text) /\ text[lx.at + 2] = text[lx.at]
      BY <1>1, <1>2, <2>3, <2>5 DEF CharAt
    <3>2. Fine(NextChar(two)) /\ NextChar(two).at = lx.at + 2
      <4>1. Loose(two) /\ two.at <= Len(text)
        BY <2>1, <2>3, FineLoose
      <4>2. Fine(NextChar(two)) /\ NextChar(two).at = two.at + 1
        BY <4>1, NextFine
      <4> QED
        BY <1>1, <2>3, <4>2
    <3>3. Located(NextChar(two)) /\ Located(lx)
      <4>1. Quote = {"'", "\""} /\ NL = "NL"
        BY TextsAssumption DEF Quote
      <4>2. text[lx.at] # NL /\ text[lx.at + 1] # NL
        BY <1>2, <2>1, <4>1
      <4> QED
        BY <1>1, <3>2, <4>2 DEF Fine, Exact
    <3>4. /\ LineOf(text, NL, lx.at + 2) = LineOf(text, NL, lx.at)
          /\ ColOf(text, NL, lx.at + 2) = ColOf(text, NL, lx.at) + 2
          /\ ColOf(text, NL, lx.at) \in 1..lx.at
      <4>1. Quote = {"'", "\""} /\ NL = "NL"
        BY TextsAssumption DEF Quote
      <4>2. text[lx.at] # NL /\ text[lx.at + 1] # NL /\ lx.at \in Nat \ {0} /\ lx.at + 1 \in Nat \ {0}
            /\ lx.at + 1 + 1 = lx.at + 2
        <5>1. text[lx.at] # NL /\ text[lx.at + 1] # NL
          BY <1>2, <2>1, <4>1
        <5>2. lx.at \in Nat \ {0} /\ lx.at + 1 \in Nat \ {0} /\ lx.at + 1 + 1 = lx.at + 2
          BY <1>1
        <5> QED
          BY <5>1, <5>2
      <4>3. /\ LineOf(text, NL, lx.at) \in Nat
            /\ LineOf(text, NL, lx.at + 1) = LineOf(text, NL, lx.at) + 0
            /\ LineOf(text, NL, lx.at + 2) = LineOf(text, NL, lx.at + 1) + 0
        BY <4>2, LineOfType, LineOfStep
      <4>4. /\ ColOf(text, NL, lx.at) \in 1..lx.at
            /\ ColOf(text, NL, lx.at + 1) = ColOf(text, NL, lx.at) + 1
            /\ ColOf(text, NL, lx.at + 2) = ColOf(text, NL, lx.at + 1) + 1
        BY <4>2, ColOfStep
      <4> QED
        BY <4>3, <4>4
    <3>5. (NextChar(two).col - 2) % ColWidth = ColOf(text, NL, lx.at)
      <4>1. PICK m, k : m = ColOf(text, NL, lx.at) /\ k = NextChar(two).col
        OBVIOUS
      <4>2. k = m + 2
        BY <3>2, <3>3, <3>4, <4>1 DEF Located
      <4>3. m \in Nat /\ m < ColWidth /\ ColWidth \in Nat
        BY <1>1, <3>4, <4>1, CursorAssumption DEF InText
      <4>4. k - 2 = m
        BY <4>2, <4>3
      <4>5. m % ColWidth = m
        BY <4>3
      <4>6. (k - 2) % ColWidth = m
        BY <4>4, <4>5
      <4> QED
        BY <4>1, <4>6
    <3>6. Began(shift(Here(NextChar(two))))
      BY <1>1, <1>7, <3>2, <3>3, <3>4, <3>5 DEF Began, Located
    <3> HIDE DEF shift
    <3> QED
      BY <1>1, <1>6, <2>3, <2>5, <3>1, <3>2, <3>6
  <2> QED
    BY <1>5, <1>9, <2>4, <2>5
<1> QED
  BY <1>5, <1>8, <1>9

(* A character that PeekChar() saw, and that is not the end of the text.   *)
LEMMA PeekSeen ==
  ASSUME InText, NEW c, Fine(c), c.at <= Len(text), PeekChar(c).nxt # NUL
  PROVE  Fine(NextChar(PeekChar(c))) /\ NextChar(PeekChar(c)).at <= Len(text)
<1>1. Loaded(c) /\ Loose(PeekChar(c))
  BY PeekFine, FineLoose DEF Fine, At
<1>2. NextChar(PeekChar(c)).cur # NUL
  BY <1>1, PeekNext
<1> QED
  BY <1>1, <1>2, NextFine

LEMMA StringPlace ==
  ASSUME InText, Placed,
         StringClose \/ LongStringClose \/ LongStringQuote \/ StringPlain
  PROVE  ReturnedAt \/ ContinuedAt \/ pc' = "threw"
<1>1. pc = "string"
  BY DEF StringClose, LongStringClose, LongStringQuote, AtLongQuote, StringPlain
<1>2. TkOK /\ Began(tk.w) /\ Fine(lx) /\ Loose(lx) /\ tk.quote \in Quote /\ tk.quote # NUL
  BY <1>1, TextsAssumption DEF Placed, Loose, Fine, Quote
<1>3. PICK S : diags \in Seq(S)
  BY DEF Placed
<1>4. lx.cur = tk.quote => lx.at <= Len(text)
  BY <1>2, LoadedAt DEF Loose, At
<1>5. lx.cur = tk.quote => Fine(Peek1) /\ Peek1.at <= Len(text)
  BY <1>2, <1>4, PeekFine DEF Peek1
<1>6. ASSUME lx.cur = tk.quote, Peek1.nxt = tk.quote
      PROVE  Fine(Peek2) /\ Peek2.at <= Len(text)
  <2>1. Fine(NextChar(Peek1)) /\ NextChar(Peek1).at <= Len(text)
    BY <1>2, <1>4, <1>6, PeekSeen DEF Peek1
  <2> QED
    BY <2>1, PeekFine DEF Peek2
<1>7. CASE StringClose
  BY <1>2, <1>4, <1>7, StringEndPlace DEF StringClose
<1>8. CASE LongStringClose
  <2>1. lx.cur = tk.quote /\ Peek1.nxt = tk.quote /\ Peek2.nxt = tk.quote
    BY <1>8 DEF LongStringClose, AtLongQuote
  <2>2. Fine(NextChar(Peek1)) /\ NextChar(Peek1).at <= Len(text)
    BY <1>2, <1>4, <2>1, PeekSeen DEF Peek1
  <2>3. Fine(NextChar(Peek2)) /\ NextChar(Peek2).at <= Len(text)
    BY <1>2, <2>1, <2>2, PeekSeen DEF Peek2
  <2>4. Fine(Peek3) /\ Peek3.at <= Len(text)
    BY <2>3, PeekFine DEF Peek3
  <2>5. \/ /\ Peek3.nxt = tk.quote
           /\ StringEnd(NextChar(Peek3), Extend(tk.w, 3), Append(tk.str, tk.quote))
        \/ StringEnd(Peek3, Extend(tk.w, 2), tk.str)
    BY <1>8 DEF LongStringClose
  <2>6. Peek3.nxt = tk.quote => Fine(NextChar(Peek3)) /\ NextChar(Peek3).at <= Len(text)
    BY <1>2, <2>3, PeekSeen DEF Peek3
  <2>7. PICK c, w, str : StringEnd(c, w, str) /\ Fine(c) /\ c.at <= Len(text) /\ Began(w)
    BY <1>2, <2>4, <2>5, <2>6, ExtendBegan
  <2> QED
    BY <2>7, FineLoose, StringEndPlace
<1>9. CASE LongStringQuote
  <2>1. \E c \in {Peek1, Peek2} :
          /\ c = Peek2 => Peek1.nxt = tk.quote \/ Peek1 = Peek2
          /\ StringChar(c, c.cur) /\ diags' = IfUnterminated(c, diags)
    BY <1>9 DEF LongStringQuote
  <2>2. lx.cur = tk.quote
    BY <1>9 DEF LongStringQuote, AtLongQuote
  <2>3. PICK c : Fine(c) /\ StringChar(c, c.cur) /\ diags' = IfUnterminated(c, diags)
    BY <1>5, <1>6, <2>1, <2>2
  <2> QED
    BY <1>1, <1>2, <1>3, <2>3, FineLoose, StringCharPlace
<1>10. CASE StringPlain
  <2>1. StringChar(lx, lx.cur) /\ diags' = IfUnterminated(lx, diags)
    BY <1>10 DEF StringPlain
  <2> QED
    BY <1>1, <1>2, <1>3, <2>1, StringCharPlace
<1> QED
  BY <1>7, <1>8, <1>9, <1>10

LEMMA BadDigitsType ==
  ASSUME NEW ds, Len(ds) \in Nat
  PROVE  \E S : BadDigits(ds) \in Seq(S)
<1> DEFINE r == [id |-> "bad_hex_digit", from |-> tk.from]
           bad == {i \in 1..Len(ds) : ds[i] \notin HexDigit}
<1>1. IsFiniteSet(bad)
  <2>1. IsFiniteSet(1..Len(ds)) /\ bad \in SUBSET (1..Len(ds))
    BY FS_Interval
  <2> QED
    BY <2>1, FS_Subset
<1>2. Cardinality(bad) \in Nat
  BY <1>1, FS_CardinalityType
<1>3. BadDigits(ds) = [i \in 1..Cardinality(bad) |-> r]
  BY DEF BadDigits
<1> HIDE DEF r, bad
<1>4. BadDigits(ds) \in Seq({r})
  BY <1>2, <1>3
<1> QED
  BY <1>4

LEMMA EscapePlace ==
  ASSUME InText, Placed, HexEscape \/ CharEscape
  PROVE  ReturnedAt \/ ContinuedAt \/ pc' = "threw"
<1> DEFINE e == NextChar(lx)
           c1 == NextChar(e)
           c2 == NextChar(c1)
           c3 == NextChar(c2)
           c4 == NextChar(c3)
<1>1. pc = "string"
  BY DEF HexEscape, CharEscape
<1>2. TkOK /\ Began(tk.w) /\ Loose(lx) /\ tk.quote \in Quote
  BY <1>1 DEF Placed
<1>3. PICK S : diags \in Seq(S)
  BY DEF Placed
<1>4. Loose(e)
  BY <1>2, NextFine
<1>5. CASE HexEscape
  <2>1. \E c \in {c2, c4} : \E ch, ds :
          /\ ds \in {<<c1.cur, c2.cur>>, <<c1.cur, c2.cur, c3.cur, c4.cur>>}
          /\ StringChar(c, ch) /\ diags' = IfUnterminated(c, diags \o BadDigits(ds))
    BY <1>5 DEF HexEscape
  <2> HIDE DEF e
  <2>2. Loose(c1)
    BY <1>4, NextFine
  <2> HIDE DEF c1
  <2>3. Loose(c2)
    BY <2>2, NextFine
  <2> HIDE DEF c2
  <2>4. Loose(c3)
    BY <2>3, NextFine
  <2> HIDE DEF c3
  <2>5. Loose(c4)
    BY <2>4, NextFine
  <2> HIDE DEF c4
  <2>6. PICK c, ch, ds : /\ Loose(c) /\ Len(ds) \in Nat
                         /\ StringChar(c, ch) /\ diags' = IfUnterminated(c, diags \o BadDigits(ds))
    BY <2>1, <2>3, <2>5
  <2>7. PICK B : BadDigits(ds) \in Seq(B)
    BY <2>6, BadDigitsType
  <2>8. diags \o BadDigits(ds) \in Seq(S \union B)
    BY <1>3, <2>7
  <2> QED
    BY <1>1, <1>2, <2>6, <2>8, StringCharPlace
<1>6. CASE CharEscape
  <2>1. PICK ch, r : /\ StringChar(e, ch)
                     /\ diags' \in {IfUnterminated(e, diags), IfUnterminated(e, Append(diags, r))}
    BY <1>6 DEF CharEscape
  <2>2. diags \in Seq(S \union {r}) /\ Append(diags, r) \in Seq(S \union {r})
    BY <1>3
  <2> QED
    BY <1>1, <1>2, <1>4, <2>1, <2>2, StringCharPlace
<1> QED
  BY <1>5, <1>6

(* Assignments to the locals that leave the token's place alone.           *)
SamePlace ==
  /\ DOMAIN tk' = DOMAIN tk /\ tk'.from = tk.from /\ tk'.w = tk.w
  /\ tk'.base = tk.base /\ tk'.quote = tk.quote

LEMMA SamePlaceOK ==
  ASSUME Placed, SamePlace
  PROVE  TkOK' /\ tk'.from = tk.from /\ Began(tk'.w)
BY DEF Placed, SamePlace, TkOK

LEMMA IdentPlace ==
  ASSUME InText, Placed, IdentStart \/ IdentChar \/ IdentEnd
  PROVE  ReturnedAt \/ ContinuedAt
<1>1. TkOK /\ Began(tk.w) /\ Loose(lx) /\ Exact(lx) /\ Fine(lx)
  BY DEF Placed, IdentStart, IdentChar, IdentEnd, Fine, Loose
<1>2. CASE IdentStart \/ IdentChar
  <2>1. /\ lx.cur \in IdChar /\ lx' = NextChar(lx) /\ pc' = "ident" /\ toks' = toks
        /\ \E str : tk' = [tk EXCEPT !.str = str]
    BY <1>2 DEF IdentStart, IdentChar, IdChar
  <2>2. lx.cur # NUL
    BY <2>1, TextsAssumption DEF IdChar, IdStart, Letter, Decimal
  <2>3. lx.at <= Len(text)
    BY <1>1, <2>2, LoadedAt DEF Loose, At
  <2>4. SamePlace
    BY <1>1, <2>1 DEF SamePlace, TkOK
  <2> QED
    BY <1>1, <2>1, <2>3, <2>4, SamePlaceOK, MovedPlace DEF InToken
<1>3. CASE IdentEnd
  <2>1. PICK kind, n, val : /\ Return(lx, kind, Extend(tk.w, n), val)
                            /\ kind \in {"keyword", "identifier"}
    BY <1>3 DEF IdentEnd
  <2> QED
    BY <1>1, <2>1, ExtendBegan, ReturnPlace
<1> QED
  BY <1>2, <1>3

LEMMA NumberStartPlace ==
  ASSUME InText, Placed, NumberStart
  PROVE  ContinuedAt
<1> DEFINE one == NextChar(PeekChar(lx))
           two == NextChar(one)
<1>1. /\ TkOK /\ Began(tk.w) /\ Loose(lx) /\ Exact(lx) /\ Fine(lx) /\ lx.at <= Len(text)
      /\ tk.isFloat = FALSE /\ tk.w = Here(lx) /\ tk.from = lx.at /\ Loaded(lx)
      /\ lx.at \in 1..Len(text)
  <2>1. /\ TkOK /\ Began(tk.w) /\ Loose(lx) /\ Exact(lx) /\ lx.at <= Len(text)
        /\ tk.isFloat = FALSE /\ tk.w = Here(lx) /\ tk.from = lx.at
    BY DEF Placed, NumberStart
  <2> QED
    BY <2>1, LoadedAt DEF Fine, Loose, At
<1>2. \/ lx' \in {lx, PeekChar(lx)}
      \/ PeekChar(lx).nxt \in {"x", "b"} /\ lx' = two
  BY DEF NumberStart
<1>3. /\ pc' = "int" /\ toks' = toks
      /\ \E str, base : /\ tk' = [tk EXCEPT !.w = Here(lx), !.str = str, !.base = base]
                        /\ base \in {2, 10, 16}
  BY DEF NumberStart
<1>4. /\ TkOK' /\ tk'.from = tk.from /\ Began(tk'.w) /\ tk'.isFloat = FALSE
  <2>1. PICK w, str, base : /\ tk' = [tk EXCEPT !.w = w, !.str = str, !.base = base]
                            /\ base \in {2, 10, 16} /\ w = Here(lx)
    BY <1>3
  <2>2. /\ DOMAIN tk' = DOMAIN tk /\ tk'.from = tk.from /\ tk'.w = w /\ tk'.base = base
        /\ tk'.isFloat = tk.isFloat
    BY <1>1, <2>1 DEF TkOK
  <2>3. TkOK'
    BY <1>1, <2>1, <2>2 DEF TkOK
  <2> QED
    BY <1>1, <2>1, <2>2, <2>3
<1>5. CASE lx' \in {lx, PeekChar(lx)}
  <2>1. Fine(lx') /\ lx'.at <= Len(text)
    BY <1>1, <1>5, PeekFine
  <2> QED
    BY <1>3, <1>4, <2>1, FineLoose DEF ContinuedAt, InToken, Fine
<1>6. CASE PeekChar(lx).nxt \in {"x", "b"} /\ lx' = two
  <2>1. PeekChar(lx).nxt # NUL
    BY <1>6, TextsAssumption
  <2>2. Fine(one) /\ one.at <= Len(text) /\ one.at = lx.at + 1 /\ text[lx.at + 1] \in {"x", "b"}
    <3>1. Fine(one) /\ one.at <= Len(text)
      BY <1>1, <2>1, PeekSeen
    <3>2. one.at = lx.at + 1 /\ PeekChar(lx).nxt = CharAt(lx.at + 1)
      BY <1>1, PeekNext
    <3> QED
      BY <1>1, <1>6, <3>1, <3>2 DEF CharAt
  <2> HIDE DEF one
  <2>3. Fine(two) /\ two.at = lx.at + 2 /\ Loose(two)
    <3>1. Fine(two) /\ two.at = one.at + 1
      BY <2>2, FineLoose, NextFine
    <3> QED
      BY <1>1, <2>2, <3>1, FineLoose
  <2>4. two.at <= Len(text) \/ Bare(two)
    BY <1>1, <2>2, <2>3 DEF Bare, InText
  <2> QED
    BY <1>3, <1>4, <1>6, <2>3, <2>4 DEF ContinuedAt, InToken, Fine, Bare
<1> QED
  BY <1>2, <1>5, <1>6

LEMMA NumCharNUL ==
  ASSUME NEW base \in {2, 10, 16}
  PROVE  NUL \notin NumChar(base)
BY TextsAssumption DEF NumChar, Decimal, HexDigit

LEMMA NumberPlace ==
  ASSUME InText, Placed, NumberDigit \/ NumberStop
  PROVE  ReturnedAt \/ ContinuedAt
<1> DEFINE n == NextChar(lx)
<1>1. /\ TkOK /\ Began(tk.w) /\ Loose(lx) /\ pc \in {"int", "frac"} /\ Loaded(lx)
      /\ lx.at <= Len(text) \/ (Bare(lx) /\ tk.isFloat = FALSE)
  BY DEF Placed, NumberDigit, NumberStop, Loose, At
<1>2. lx.at <= Len(text) => Fine(n)
  BY <1>1, NextFine
<1>3. Loose(n) /\ (n.cur # NUL => Fine(n) /\ n.at <= Len(text))
  BY <1>1, NextFine
<1>4. CASE NumberDigit
  <2>1. /\ lx' = n /\ pc' = pc /\ toks' = toks /\ \E base \in {10, tk.base} : n.cur \in NumChar(base)
        /\ \E str : tk' = [tk EXCEPT !.str = str]
    BY <1>4 DEF NumberDigit
  <2>2. n.cur # NUL
    BY <1>1, <2>1, NumCharNUL DEF TkOK
  <2>3. SamePlace
    BY <1>1, <2>1 DEF SamePlace, TkOK
  <2> HIDE DEF n
  <2> QED
    BY <1>1, <1>3, <2>1, <2>2, <2>3, SamePlaceOK DEF ContinuedAt, InToken, Fine
<1>5. CASE NumberStop
  <2>1. NumberNext(n, pc, tk.str, tk.isFloat)
    BY <1>5 DEF NumberStop
  <2>2. Bare(lx) => Bare(n)
    <3>1. lx.at > Len(text) => n.at = lx.at
      BY <1>1, NextCharMeans, LoadedAt DEF InText
    <3> QED
      BY <3>1 DEF Bare, InText
  <2> QED
    BY <1>1, <1>2, <1>3, <2>1, <2>2, NumberNextPlace DEF Fine
<1> QED
  BY <1>4, <1>5

LEMMA FractionPlace ==
  ASSUME InText, Placed, FractionRange \/ FractionStart
  PROVE  ReturnedAt \/ ContinuedAt
<1> DEFINE p == PeekChar(lx)
<1>1. TkOK /\ Began(tk.w) /\ Fine(lx) /\ lx.at <= Len(text)
  BY DEF Placed, FractionRange, FractionStart, Fine, Loose
<1>2. Fine(p) /\ Loose(p) /\ p.at <= Len(text)
  BY <1>1, PeekFine, FineLoose
<1> HIDE DEF p
<1>3. CASE FractionRange
  <2>1. NumberEnd(p, tk.str, tk.isFloat)
    BY <1>3 DEF FractionRange, p
  <2> QED
    BY <1>1, <1>2, <2>1, NumberEndPlace DEF Fine
<1>4. CASE FractionStart
  <2>1. /\ lx' = p /\ pc' = "frac" /\ toks' = toks
        /\ \E str : tk' = [tk EXCEPT !.isFloat = TRUE, !.str = str]
    BY <1>4 DEF FractionStart, p
  <2>2. SamePlace
    BY <1>1, <2>1 DEF SamePlace, TkOK
  <2> QED
    BY <1>2, <2>1, <2>2, SamePlaceOK DEF ContinuedAt, InToken, Fine
<1> QED
  BY <1>3, <1>4

LEMMA ExponentPlace ==
  ASSUME InText, Placed, ExponentStart \/ ExponentDigit \/ ExponentStop
  PROVE  ReturnedAt \/ ContinuedAt
<1> DEFINE n == NextChar(lx)
<1>1. TkOK /\ Began(tk.w) /\ Fine(lx) /\ Loose(lx)
  BY DEF Placed, ExponentStart, ExponentDigit, ExponentStop, Fine, Loose
<1>2. CASE ExponentStart
  <2>1. /\ pc' = "exp" /\ toks' = toks /\ \E str : tk' = [tk EXCEPT !.isFloat = TRUE, !.str = str]
        /\ lx' = n \/ (n.cur \in {"+", "-"} /\ lx' = NextChar(n))
    BY <1>2 DEF ExponentStart
  <2>2. lx.at <= Len(text)
    BY <1>2 DEF ExponentStart, Placed
  <2>3. Fine(n) /\ Loose(n) /\ (n.cur # NUL => n.at <= Len(text))
    BY <1>1, <2>2, NextFine
  <2>4. n.cur \in {"+", "-"} => Fine(NextChar(n))
    BY <2>3, NextFine, TextsAssumption
  <2>5. SamePlace
    BY <1>1, <2>1 DEF SamePlace, TkOK
  <2> QED
    BY <2>1, <2>3, <2>4, <2>5, SamePlaceOK, FineLoose DEF ContinuedAt, InToken, Fine
<1>3. CASE ExponentDigit
  <2>1. /\ lx.cur \in Decimal /\ lx' = n /\ pc' = "exp" /\ toks' = toks
        /\ \E str : tk' = [tk EXCEPT !.str = str]
    BY <1>3 DEF ExponentDigit
  <2>2. lx.at <= Len(text)
    BY <1>1, <2>1, LoadedAt, TextsAssumption DEF Decimal, Loose, At
  <2>3. SamePlace
    BY <1>1, <2>1 DEF SamePlace, TkOK
  <2> QED
    BY <1>1, <2>1, <2>2, <2>3, SamePlaceOK, MovedPlace DEF InToken
<1>4. CASE ExponentStop
  <2>1. NumberNext(lx, "exp", tk.str, TRUE)
    BY <1>4 DEF ExponentStop
  <2> QED
    BY <1>1, <2>1, NumberNextPlace DEF Fine
<1> QED
  BY <1>2, <1>3, <1>4

LEMMA UnknownPlace ==
  ASSUME InText, Placed, Unknown
  PROVE  ReturnedAt
<1>1. Began(tk.w) /\ Fine(lx) /\ lx.at <= Len(text)
  BY DEF Placed, Unknown, Fine, Loose
<1>2. PICK c, val : c \in {lx, PeekChar(lx)} /\ Return(NextChar(c), "unknown", tk.w, val)
  BY DEF Unknown
<1>3. Loose(c) /\ c.at <= Len(text)
  BY <1>1, <1>2, PeekFine, FineLoose
<1>4. Fine(NextChar(c)) /\ Loose(NextChar(c))
  BY <1>3, NextFine
<1> QED
  BY <1>1, <1>2, <1>4, ReturnPlace DEF Fine

LEMMA NewLinePlace ==
  ASSUME InText, Placed, NewLine
  PROVE  ReturnedAt
<1> DEFINE c == [lx EXCEPT !.line = @ + 1, !.col = 0]
           n == NextChar(c)
<1>1. /\ Began(tk.w) /\ Loose(lx) /\ Located(lx) /\ Loaded(lx) /\ lx.at \in 1..Len(text)
      /\ text[lx.at] = NL /\ tk.from = lx.at
  <2>1. /\ Began(tk.w) /\ Loose(lx) /\ Exact(lx) /\ lx.at <= Len(text) /\ tk.from = lx.at /\ lx.cur = NL
    BY DEF Placed, NewLine
  <2>2. Loaded(lx) /\ lx.at \in 1..Len(text) /\ lx.cur = text[lx.at]
    BY <2>1, LoadedAt DEF Loose, At, Loaded, CursorOK, LookaheadOK, CursorType, CharAt
  <2> QED
    BY <2>1, <2>2 DEF Exact
<1>2. Return(n, "eol", tk.w, <<NL>>)
  BY DEF NewLine
<1>3. c.at = lx.at /\ c.line = lx.line + 1 /\ c.col = 0 /\ Loaded(c)
  BY <1>1, RelocateOK DEF Loaded, CursorOK, CursorType
<1> HIDE DEF c
<1>4. Loaded(n) /\ n.at = lx.at + 1 /\ n.line = lx.line + 1 /\ n.col = 1
  <2>1. Loaded(n) /\ n.at = lx.at + 1 /\ n.line = lx.line + 1 /\ n.col = (0 + 1) % ColWidth
    BY <1>1, <1>3, NextCharMeans DEF InText
  <2>2. 1 % ColWidth = 1
    BY <1>1, CursorAssumption DEF InText
  <2> QED
    BY <2>1, <2>2
<1> HIDE DEF n
<1>5. LineOf(text, NL, lx.at + 1) = LineOf(text, NL, lx.at) + 1 /\ ColOf(text, NL, lx.at + 1) = 1
  <2>1. lx.at \in Nat \ {0}
    BY <1>1
  <2>2. LineOf(text, NL, lx.at + 1) = LineOf(text, NL, lx.at) + (IF text[lx.at] = NL THEN 1 ELSE 0)
    BY <2>1, LineOfStep
  <2>3. ColOf(text, NL, lx.at + 1) = IF text[lx.at] = NL THEN 1 ELSE ColOf(text, NL, lx.at) + 1
    BY <2>1, ColOfStep
  <2> QED
    BY <1>1, <2>2, <2>3
<1>6. Located(n)
  BY <1>1, <1>4, <1>5 DEF Located
<1>7. Loose(n)
  BY <1>1, <1>4, <1>6 DEF Loose, At, Exact
<1>8. PICK t : t = [kind |-> "eol", w |-> tk.w, val |-> <<NL>>, long |-> tk.long,
                    from |-> tk.from, to |-> n.at - 1]
  OBVIOUS
<1>9. lx' = n /\ pc' = "idle" /\ tk' = Fresh(n) /\ toks' = Append(toks, t)
  BY <1>2, <1>8 DEF Return
<1>10. t.to = n.at - 1 /\ t.from = tk.from /\ t.kind = "eol" /\ t.w = tk.w
  BY <1>8
<1> QED
  BY <1>1, <1>6, <1>7, <1>9, <1>10 DEF ReturnedAt

LEMMA LexPlaces ==
  ASSUME InText, Placed, Lex, ~SkipSpace, ~EndOfFile
  PROVE  ReturnedAt \/ ContinuedAt \/ pc' = "threw"
<1>1. CASE CommentStart \/ CommentChar \/ CommentEnd
  BY <1>1, CommentPlace
<1>2. CASE Punctuator \/ QuoteStart
  BY <1>2, PunctuatorPlace, QuotePlace
<1>3. CASE StringClose \/ LongStringClose \/ LongStringQuote \/ StringPlain
  BY <1>3, StringPlace
<1>4. CASE HexEscape \/ CharEscape
  BY <1>4, EscapePlace
<1>5. CASE IdentStart \/ IdentChar \/ IdentEnd
  BY <1>5, IdentPlace
<1>6. CASE NumberStart \/ NumberDigit \/ NumberStop
  BY <1>6, NumberStartPlace, NumberPlace
<1>7. CASE FractionRange \/ FractionStart
  BY <1>7, FractionPlace
<1>8. CASE ExponentStart \/ ExponentDigit \/ ExponentStop
  BY <1>8, ExponentPlace
<1>9. CASE NewLine \/ Unknown
  BY <1>9, NewLinePlace, UnknownPlace
<1> QED
  BY <1>1, <1>2, <1>3, <1>4, <1>5, <1>6, <1>7, <1>8, <1>9 DEF Lex

-----------------------------------------------------------------------------
(* The diagnostics are only added to.                                      *)

Grown(d) ==
  /\ \E S : d \in Seq(S)
  /\ Len(diags) <= Len(d) /\ \A i \in 1..Len(diags) : d[i] = diags[i]

LEMMA GrownAppend ==
  ASSUME NEW d, Grown(d), Len(diags) \in Nat, NEW r
  PROVE  Grown(Append(d, r))
<1>1. PICK S : d \in Seq(S)
  BY DEF Grown
<1>2. d \in Seq(S \union {r}) /\ r \in S \union {r}
  BY <1>1
<1>3. /\ Append(d, r) \in Seq(S \union {r}) /\ Len(Append(d, r)) = Len(d) + 1 /\ Len(d) \in Nat
      /\ \A i \in 1..Len(d) : Append(d, r)[i] = d[i]
  BY <1>2
<1> QED
  BY <1>3 DEF Grown

LEMMA GrownDigits ==
  ASSUME NEW S, diags \in Seq(S), NEW ds, Len(ds) \in Nat
  PROVE  Grown(diags \o BadDigits(ds))
<1>1. PICK B : BadDigits(ds) \in Seq(B)
  BY BadDigitsType
<1>2. diags \in Seq(S \union B) /\ BadDigits(ds) \in Seq(S \union B)
  BY <1>1
<1>3. /\ diags \o BadDigits(ds) \in Seq(S \union B)
      /\ Len(diags \o BadDigits(ds)) = Len(diags) + Len(BadDigits(ds))
      /\ Len(diags) \in Nat /\ Len(BadDigits(ds)) \in Nat
      /\ \A i \in 1..Len(diags) : (diags \o BadDigits(ds))[i] = diags[i]
  BY <1>2
<1> QED
  BY <1>3 DEF Grown

(* A step's diagnostics are about the token under construction.            *)
Added(d) == Grown(d) /\ \A i \in (Len(diags) + 1)..Len(d) : d[i].from = tk.from

LEMMA AddedAppend ==
  ASSUME NEW d, Added(d), Len(diags) \in Nat, NEW r, r.from = tk.from
  PROVE  Added(Append(d, r))
<1>1. PICK S : d \in Seq(S)
  BY DEF Added, Grown
<1>2. d \in Seq(S \union {r}) /\ r \in S \union {r}
  BY <1>1
<1>3. /\ Len(Append(d, r)) = Len(d) + 1 /\ Len(d) \in Nat /\ Append(d, r)[Len(d) + 1] = r
      /\ \A i \in 1..Len(d) : Append(d, r)[i] = d[i]
  BY <1>2
<1>4. ASSUME NEW i \in (Len(diags) + 1)..Len(Append(d, r))
      PROVE  Append(d, r)[i].from = tk.from
  <2>1. i \in (Len(diags) + 1)..Len(d) \/ i = Len(d) + 1
    BY <1>3
  <2>2. i \in (Len(diags) + 1)..Len(d) => i \in 1..Len(d)
    BY <1>3
  <2> QED
    BY <1>3, <2>1, <2>2 DEF Added
<1> QED
  BY <1>4, GrownAppend DEF Added

LEMMA AddedDigits ==
  ASSUME NEW S, diags \in Seq(S), NEW ds, Len(ds) \in Nat
  PROVE  Added(diags \o BadDigits(ds))
<1> DEFINE r == [id |-> "bad_hex_digit", from |-> tk.from]
           m == Cardinality({i \in 1..Len(ds) : ds[i] \notin HexDigit})
<1>1. m \in Nat
  <2>1. IsFiniteSet(1..Len(ds)) /\ {i \in 1..Len(ds) : ds[i] \notin HexDigit} \subseteq 1..Len(ds)
    BY FS_Interval
  <2> QED
    BY <2>1, FS_Subset, FS_CardinalityType
<1>2. BadDigits(ds) = [i \in 1..m |-> r] /\ r.from = tk.from
  BY DEF BadDigits
<1> HIDE DEF r, m
<1>3. PICK u : u = [i \in 1..m |-> r]
  OBVIOUS
<1>4. diags \in Seq(S \union {r}) /\ u \in Seq(S \union {r}) /\ Len(u) = m /\ \A i \in 1..m : u[i] = r
  BY <1>1, <1>3
<1>5. /\ Len(diags) \in Nat /\ Len(diags \o u) = Len(diags) + m
      /\ \A i \in (Len(diags) + 1)..(Len(diags) + m) :
           (diags \o u)[i] = u[i - Len(diags)] /\ i - Len(diags) \in 1..m
  BY <1>1, <1>4
<1>6. \A i \in (Len(diags) + 1)..Len(diags \o u) : (diags \o u)[i].from = tk.from
  BY <1>2, <1>4, <1>5
<1> QED
  BY <1>2, <1>3, <1>6, GrownDigits DEF Added

LEMMA AddedIf ==
  ASSUME NEW d, Added(d), Len(diags) \in Nat, NEW c
  PROVE  Added(IfUnterminated(c, d))
<1>1. PICK r : r = [id |-> "unterminated_string", from |-> tk.from]
  OBVIOUS
<1>2. r.from = tk.from /\ IfUnterminated(c, d) = IF SourceHasMore(c) THEN d ELSE Append(d, r)
  BY <1>1 DEF IfUnterminated
<1> QED
  BY <1>2, AddedAppend

LEMMA NumberNextAdds ==
  ASSUME NEW S, diags \in Seq(S), NEW c, NEW state, NEW str, NEW isFloat,
         NumberNext(c, state, str, isFloat) \/ NumberEnd(c, str, isFloat)
  PROVE  Added(diags')
<1>1. diags' = diags \/ \E result : diags' = Append(diags, [id |-> "apreal_unknown", from |-> tk.from,
                                                           result |-> result])
  BY DEF NumberNext, NumberEnd, Convert
<1>2. Added(diags) /\ Len(diags) \in Nat
  BY DEF Added, Grown
<1>3. CASE \E result : diags' = Append(diags, [id |-> "apreal_unknown", from |-> tk.from,
                                               result |-> result])
  <2>1. PICK result, r : r = [id |-> "apreal_unknown", from |-> tk.from, result |-> result]
                         /\ diags' = Append(diags, r)
    BY <1>3
  <2>2. r.from = tk.from
    BY <2>1
  <2> QED
    BY <1>2, <2>1, <2>2, AddedAppend
<1> QED
  BY <1>1, <1>2, <1>3

LEMMA LexAdds ==
  ASSUME NEW S, diags \in Seq(S), Lex
  PROVE  Added(diags')
<1>1. Added(diags) /\ Len(diags) \in Nat
  BY DEF Added, Grown
<1>2. CASE diags' = diags
  BY <1>1, <1>2
<1>3. CASE LongStringQuote \/ StringPlain
  <2>1. \E c : diags' = IfUnterminated(c, diags)
    BY <1>3 DEF LongStringQuote, StringPlain
  <2> QED
    BY <1>1, <2>1, AddedIf
<1>4. CASE HexEscape
  <2>1. \E c, c1, c2, c3, c4 : \E ds \in {<<c1, c2>>, <<c1, c2, c3, c4>>} :
          diags' = IfUnterminated(c, diags \o BadDigits(ds))
    BY <1>4 DEF HexEscape
  <2>2. PICK c, ds : diags' = IfUnterminated(c, diags \o BadDigits(ds)) /\ Len(ds) \in Nat
    BY <2>1
  <2> QED
    BY <1>1, <2>2, AddedDigits, AddedIf
<1>5. CASE CharEscape
  <2>1. PICK r : r = [id |-> "bad_escape_sequence", from |-> tk.from]
    OBVIOUS
  <2>2. PICK c, d : diags' = IfUnterminated(c, d) /\ (d = diags \/ d = Append(diags, r))
    BY <1>5, <2>1 DEF CharEscape
  <2>3. r.from = tk.from
    BY <2>1
  <2>4. Added(d)
    BY <1>1, <2>2, <2>3, AddedAppend
  <2> QED
    BY <1>1, <2>2, <2>4, AddedIf
<1>6. CASE NumberStop \/ FractionRange \/ ExponentStop
  <2>1. \E c, state, str, isFloat : NumberNext(c, state, str, isFloat) \/ NumberEnd(c, str, isFloat)
    BY <1>6 DEF NumberStop, FractionRange, ExponentStop
  <2> QED
    BY <2>1, NumberNextAdds
<1> QED
  BY <1>2, <1>3, <1>4, <1>5, <1>6
  DEF Lex, SkipSpace, CommentStart, CommentChar, CommentEnd, Punctuator, QuoteStart, StringClose,
      LongStringClose, IdentStart, IdentChar, IdentEnd, NumberStart, NumberDigit, FractionStart,
      ExponentStart, ExponentDigit, NewLine, EndOfFile, Unknown, vars

LEMMA LexGrows ==
  ASSUME NEW S, diags \in Seq(S), Lex
  PROVE  Grown(diags')
BY LexAdds DEF Added

-----------------------------------------------------------------------------
(* Every line end so far was returned as an eol token.                     *)
Counted == \A j \in 1..Len(toks) : toks[j].kind = "eol" \/ ~Covers(toks[j], NL)

(* No token so far moved past the end of the text.                         *)
Complete == \A j \in 1..Len(toks) : ~Unterminated(toks[j]) /\ ~BarePrefix(toks[j])

(* The location of the cursor between calls, and within one.               *)
CursorPlace ==
  /\ lx.valid = 0 => lx.line = 1 /\ lx.col = 0
  /\ pc \in {"idle", "start"} /\ lx.valid # 0 /\ (lx.at <= Len(text) \/ Complete) => Located(lx)
  /\ pc = "start" => TkOK /\ tk.w = Here(lx) /\ tk.isFloat = FALSE
  /\ pc \in InToken => Placed

PlaceInv ==
  /\ InText /\ \E S : diags \in Seq(S)
  /\ BeginOK
  /\ Counted => CursorPlace

(* The tokens returned before a step, after it.                            *)
LEMMA OldTokens ==
  ASSUME text' = text, Grown(diags'), Len(toks) \in Nat, Len(diags) \in Nat, Len(diags') \in Nat,
         Len(toks') \in Nat, Len(toks) <= Len(toks'), \A i \in 1..Len(toks) : toks'[i] = toks[i]
  PROVE  /\ \A k \in 1..(Len(toks) + 1) : Uncounted(k) => Uncounted(k)'
         /\ \A k \in 1..(Len(toks) + 1) : Overrun(k) => Overrun(k)'
         /\ Counted' => Counted
         /\ Complete' => Complete
<1>1. ASSUME NEW j \in 1..Len(toks)
      PROVE  /\ toks'[j] = toks[j] /\ j \in 1..Len(toks')
             /\ Covers(toks[j], NL)' <=> Covers(toks[j], NL)
             /\ BarePrefix(toks[j])' <=> BarePrefix(toks[j])
             /\ Unterminated(toks[j]) => Unterminated(toks[j])'
  <2>1. toks'[j] = toks[j] /\ j \in 1..Len(toks')
    OBVIOUS
  <2>2. Unterminated(toks[j]) => Unterminated(toks[j])'
    BY <2>1 DEF Unterminated, Grown
  <2>3. /\ Covers(toks[j], NL)' <=> Covers(toks[j], NL)
        /\ BarePrefix(toks[j])' <=> BarePrefix(toks[j])
    BY <2>1 DEF Covers, BarePrefix
  <2> QED
    BY <2>1, <2>2, <2>3
<1>2. \A k \in 1..(Len(toks) + 1) : \A j \in 1..(k - 1) : j \in 1..Len(toks)
  OBVIOUS
<1>3. \A k \in 1..(Len(toks) + 1) : Uncounted(k) => Uncounted(k)'
  BY <1>1, <1>2 DEF Uncounted
<1>4. \A k \in 1..(Len(toks) + 1) : Overrun(k) => Overrun(k)'
  BY <1>1, <1>2 DEF Overrun
<1>5. Counted' => Counted
  BY <1>1 DEF Counted
<1>6. Complete' => Complete
  BY <1>1 DEF Complete
<1> QED
  BY <1>3, <1>4, <1>5, <1>6

(* What BeginOK says of a token before which k tokens were returned.       *)
BegunAt(t, k) ==
  ~Uncounted(k + 1) /\ (t.from <= Len(text) => ~EmptyString(t.from)) /\ (t.kind = "eof" => ~Overrun(k + 1))
    => t.w.bl = LineOf(text, NL, t.from) /\ t.w.bc = ColOf(text, NL, t.from)

LEMMA BegunKept ==
  ASSUME BeginOK, text' = text, Grown(diags'), Len(toks) \in Nat, Len(diags) \in Nat, Len(diags') \in Nat,
         Len(toks') \in Nat, \A i \in 1..Len(toks) : toks'[i] = toks[i],
         \/ Len(toks') = Len(toks)
         \/ Len(toks') = Len(toks) + 1 /\ BegunAt(toks'[Len(toks) + 1], Len(toks))
  PROVE  BeginOK'
<1>1. /\ \A k \in 1..(Len(toks) + 1) : Uncounted(k) => Uncounted(k)'
      /\ \A k \in 1..(Len(toks) + 1) : Overrun(k) => Overrun(k)'
  BY OldTokens
<1>2. SUFFICES ASSUME NEW k \in 1..Len(toks'), ~Uncounted(k)',
                      toks'[k].from <= Len(text) => ~EmptyString(toks'[k].from),
                      toks'[k].kind = "eof" => ~Overrun(k)'
               PROVE  /\ toks'[k].w.bl = LineOf(text, NL, toks'[k].from)
                      /\ toks'[k].w.bc = ColOf(text, NL, toks'[k].from)
  BY DEF BeginOK, EmptyString, OpensLong, IsQuote
<1>3. CASE k <= Len(toks)
  <2>1. k \in 1..Len(toks) /\ toks'[k] = toks[k] /\ k \in 1..(Len(toks) + 1)
    BY <1>3
  <2> QED
    BY <1>1, <1>2, <2>1 DEF BeginOK
<1>4. CASE k = Len(toks) + 1 /\ BegunAt(toks'[Len(toks) + 1], Len(toks))
  BY <1>1, <1>2, <1>4 DEF BegunAt
<1> QED
  BY <1>3, <1>4

(* A step that returns no token.                                           *)
LEMMA PlaceGoesOn ==
  ASSUME CursorInv, TokensInv, PlaceInv, text' = text, toks' = toks, Grown(diags'),
         Counted => CursorPlace'
  PROVE  PlaceInv'
<1>1. PICK S, T : diags' \in Seq(S) /\ diags \in Seq(T)
  BY DEF PlaceInv, Grown
<1>2. Len(diags) \in Nat /\ Len(diags') \in Nat /\ Len(toks) \in Nat
  BY <1>1 DEF TokensInv
<1>3. BeginOK'
  BY <1>2, BegunKept DEF PlaceInv
<1>4. Counted' => Counted
  BY <1>2, OldTokens
<1>5. InText'
  BY DEF PlaceInv, InText
<1> QED
  BY <1>1, <1>3, <1>4, <1>5 DEF PlaceInv

(* Where a call of Lex() begins a token.                                   *)
LEMMA PlaceBegins ==
  ASSUME CursorInv, TokensInv, PlaceInv, Begin
  PROVE  PlaceInv'
<1>1. /\ pc = "idle" /\ lx' = CurChar(lx) /\ tk' = Fresh(CurChar(lx)) /\ pc' = "start"
      /\ text' = text /\ toks' = toks /\ diags' = diags
  BY DEF Begin
<1>2. text \in Seq(Char) /\ CursorOK(lx) /\ InText
  BY DEF CursorInv, PlaceInv
<1>3. Grown(diags')
  BY <1>1 DEF Grown, PlaceInv
<1>4. ASSUME Counted
      PROVE  CursorPlace'
  <2>1. CursorPlace
    BY <1>4 DEF PlaceInv
  <2>2. lx'.valid # 0 /\ (lx'.at <= Len(text) \/ Complete => Located(lx'))
    <3>1. CASE lx.valid = 0
      <4>1. lx'.at = 1 /\ lx'.valid = 1 /\ lx'.line = 1 /\ lx'.col = (0 + 1) % ColWidth
        BY <1>1, <1>2, <2>1, <3>1, CurCharOK DEF CursorPlace
      <4>2. 1 % ColWidth = 1
        BY <1>2, CursorAssumption DEF InText
      <4>3. LineOf(text, NL, 1) = 1 /\ ColOf(text, NL, 1) = 1
        <5>1. LineOf(text, NL, 1) = 1
          BY FirstPosition
        <5>2. ColOf(text, NL, 1) \in 1..1
          BY ColOfStep
        <5> QED
          BY <5>1, <5>2
      <4> QED
        BY <4>1, <4>2, <4>3 DEF Located
    <3>2. CASE lx.valid # 0
      <4>1. lx' = lx
        BY <1>1, <1>2, <3>2, CurCharOK
      <4> QED
        BY <1>1, <2>1, <3>2, <4>1 DEF CursorPlace
    <3> QED
      BY <3>1, <3>2
  <2>3. TkOK' /\ tk'.w = Here(lx') /\ tk'.isFloat = FALSE
    BY <1>1 DEF Fresh, TkOK
  <2>4. Complete' => Complete
    BY <1>1 DEF Complete, Unterminated, BarePrefix
  <2>5. (lx'.at <= Len(text') \/ Complete') => Located(lx)'
    BY <1>1, <2>2, <2>4 DEF Located
  <2> QED
    BY <1>1, <2>2, <2>3, <2>5 DEF CursorPlace, InToken
<1> QED
  BY <1>1, <1>3, <1>4, PlaceGoesOn

LEMMA PlaceSkips ==
  ASSUME CursorInv, TokensInv, PlaceInv, SkipSpace
  PROVE  PlaceInv'
<1>1. /\ pc = "start" /\ pc' = "start" /\ text' = text /\ toks' = toks /\ diags' = diags
      /\ lx' = NextChar(lx) /\ lx.cur \in {"sp", "wsp"}
      /\ tk' = [tk EXCEPT !.w = Here(NextChar(lx)), !.from = NextChar(lx).at]
  BY DEF SkipSpace, IsSpace
<1>2. Loaded(lx) /\ InText /\ lx.valid # 0
  BY <1>1 DEF CursorInv, PlaceInv, Loaded
<1>3. Grown(diags')
  BY <1>1 DEF Grown, PlaceInv
<1>4. ASSUME Counted
      PROVE  CursorPlace'
  <2>1. CursorPlace
    BY <1>4 DEF PlaceInv
  <2>2. lx.at \in 1..Len(text) /\ text[lx.at] # NL
    <3>1. lx.at \in 1..Len(text)
      BY <1>1, <1>2, LoadedAt, TextsAssumption DEF InText
    <3>2. text[lx.at] \in {"sp", "wsp"}
      BY <1>1, <1>2, <3>1 DEF Loaded, CursorOK, LookaheadOK, CursorType, CharAt
    <3> QED
      BY <3>1, <3>2, TextsAssumption
  <2>3. Located(NextChar(lx)) /\ NextChar(lx).valid = 1
    BY <1>1, <1>2, <2>1, <2>2, NextLocated, NextCharMeans DEF CursorPlace, InText
  <2>4. PICK w, from : tk' = [tk EXCEPT !.w = w, !.from = from] /\ w = Here(NextChar(lx))
    BY <1>1
  <2>5. TkOK /\ tk.isFloat = FALSE
    BY <1>1, <2>1 DEF CursorPlace
  <2>6. DOMAIN tk' = DOMAIN tk /\ tk'.w = w /\ tk'.base = tk.base /\ tk'.isFloat = tk.isFloat
    BY <2>4, <2>5 DEF TkOK
  <2>7. TkOK'
    BY <2>5, <2>6 DEF TkOK
  <2>8. Located(lx)'
    BY <1>1, <2>3 DEF Located
  <2> QED
    BY <1>1, <2>3, <2>4, <2>5, <2>6, <2>7, <2>8 DEF CursorPlace, InToken
<1> QED
  BY <1>1, <1>3, <1>4, PlaceGoesOn

LEMMA PlaceEnds ==
  ASSUME CursorInv, TokensInv, PlaceInv, EndOfFile
  PROVE  PlaceInv'
<1> DEFINE t == [kind |-> "eof", w |-> tk.w, val |-> << >>, long |-> tk.long,
                 from |-> tk.from, to |-> lx.at - 1]
<1>1. /\ pc = "start" /\ pc' = "idle" /\ text' = text /\ lx' = lx /\ diags' = diags
      /\ tk' = Fresh(lx) /\ toks' = Append(toks, t)
  BY DEF EndOfFile, Return
<1>2. t.kind = "eof" /\ t.w = tk.w /\ t.from = tk.from /\ t.to = lx.at - 1
  OBVIOUS
<1> HIDE DEF t
<1>3. /\ \A i \in 1..Len(toks) : toks'[i] = toks[i]
      /\ Len(toks) \in Nat /\ Len(toks') = Len(toks) + 1 /\ toks'[Len(toks) + 1] = t
  BY <1>1, MoreTokens
<1>4. PICK S : diags \in Seq(S)
  BY DEF PlaceInv
<1>5. Grown(diags') /\ Len(diags) \in Nat /\ Len(diags') \in Nat
  BY <1>1, <1>4 DEF Grown
<1>6. Loaded(lx) /\ tk.from = lx.at /\ lx.valid # 0 /\ InText
  BY <1>1 DEF CursorInv, Loaded, TokensInv, Locals, PlaceInv
<1>7. /\ Uncounted(Len(toks) + 1) \/ Counted
      /\ Overrun(Len(toks) + 1) \/ Complete
  BY <1>3 DEF Uncounted, Counted, Overrun, Complete
<1>8. (Counted' => Counted) /\ (Complete' => Complete)
  BY <1>1, <1>3, <1>5, OldTokens
<1>9. Counted /\ Complete => Located(lx) /\ tk.w = Here(lx)
  BY <1>1, <1>6 DEF PlaceInv, CursorPlace
<1>10. BegunAt(t, Len(toks))
  BY <1>2, <1>6, <1>7, <1>9 DEF BegunAt, Located, Here
<1>11. BeginOK'
  BY <1>1, <1>3, <1>5, <1>10, BegunKept DEF PlaceInv
<1>12. Counted' => CursorPlace'
  <2> SUFFICES ASSUME Counted'
               PROVE  CursorPlace'
    OBVIOUS
  <2>1. CursorPlace
    BY <1>8 DEF PlaceInv
  <2>2. (lx.at <= Len(text) \/ Complete') => Located(lx)
    BY <1>1, <1>6, <1>8, <2>1 DEF CursorPlace
  <2>3. (lx.at <= Len(text) \/ Complete') => Located(lx)'
    BY <1>1, <2>2 DEF Located
  <2> QED
    BY <1>1, <1>6, <2>3 DEF CursorPlace, InToken
<1> QED
  BY <1>1, <1>4, <1>6, <1>11, <1>12 DEF PlaceInv, InText

(* Within a call, a counted token is placed.                               *)
LEMMA CallPlaced ==
  ASSUME CursorInv, TokensInv, PlaceInv, Counted, Lex, ~EndOfFile
  PROVE  Placed
<1>1. Loaded(lx) /\ InText /\ CursorPlace /\ Locals /\ lx.valid # 0
  BY LexFrame DEF CursorInv, PlaceInv, TokensInv, Loaded
<1>2. CASE pc = "start"
  <2>1. ~AtEof(lx)
    BY <1>2, OnlyEof
  <2>2. At(lx) /\ lx.at <= Len(text) /\ tk.from = lx.at
    BY <1>1, <1>2, <2>1, Begins DEF InText, Locals
  <2>3. Located(lx) /\ TkOK /\ tk.w = Here(lx) /\ tk.isFloat = FALSE
    BY <1>1, <1>2, <2>2 DEF CursorPlace
  <2>4. Began(tk.w)
    BY <2>2, <2>3 DEF Began, WOK, Here, Located
  <2> QED
    BY <1>2, <2>2, <2>3, <2>4 DEF Placed, PlaceInv, Loose, Exact
<1>3. CASE pc \in InToken
  BY <1>1, <1>3 DEF CursorPlace
<1> QED
  BY <1>1, <1>2, <1>3, LexFrame, NotThrew DEF Locals, PcType

(* What a step leaves of a token's place, in the next state.               *)
LEMMA PlacedNext ==
  ASSUME CursorInv', text' = text, InText, ContinuedAt, Grown(diags')
  PROVE  CursorPlace'
<1>1. /\ pc' \in InToken /\ TkOK' /\ tk'.from = tk.from /\ Began(tk'.w) /\ Loose(lx')
      /\ pc' # "comment" => Exact(lx')
      /\ pc' \in {"point", "frac", "e"} => lx'.at <= Len(text)
      /\ pc' = "int" => lx'.at <= Len(text) \/ (Bare(lx') /\ tk'.isFloat = FALSE)
      /\ pc' = "string" => tk'.quote \in Quote
  BY DEF ContinuedAt
<1>2. Loaded(lx)' /\ lx'.valid # 0
  BY <1>1 DEF CursorInv, Loaded, InToken
<1>3. Began(tk.w)'
  BY <1>1 DEF Began, WOK, EmptyString, OpensLong, IsQuote
<1>4. Exact(lx') => Exact(lx)'
  BY <1>1 DEF Exact, Located
<1>5. Loose(lx)'
  BY <1>1, <1>2, <1>4 DEF Loose, At
<1>6. Bare(lx') => Bare(lx)'
  BY <1>1 DEF Bare
<1>7. Placed'
  BY <1>1, <1>3, <1>4, <1>5, <1>6 DEF Placed, Grown, InToken
<1> QED
  BY <1>1, <1>2, <1>7 DEF CursorPlace, InToken

LEMMA PlaceLex ==
  ASSUME CursorInv, CursorInv', TokensInv, PlaceInv, Lex, ~SkipSpace, ~EndOfFile
  PROVE  PlaceInv'
<1>1. Loaded(lx) /\ InText /\ Locals /\ text' = text /\ text \in Seq(Char)
  BY LexFrame DEF CursorInv, PlaceInv, TokensInv, Loaded, InText
<1>2. Grown(diags')
  BY LexGrows DEF PlaceInv
<1>3. Counted => ReturnedAt \/ ContinuedAt \/ pc' = "threw"
  BY <1>1, CallPlaced, LexPlaces
<1>4. CASE Continued
  <2>1. toks' = toks /\ pc' # "idle"
    BY <1>4 DEF Continued, InToken
  <2>2. pc' = "threw" => CursorPlace'
    BY <2>1 DEF CursorPlace, CursorInv, InToken
  <2>3. Counted => CursorPlace'
    BY <1>1, <1>2, <1>3, <2>1, <2>2, PlacedNext DEF ReturnedAt
  <2> QED
    BY <1>1, <1>2, <2>1, <2>3, PlaceGoesOn
<1>5. CASE Returned
  <2>1. pc' = "idle" /\ \E t : toks' = Append(toks, t)
    BY <1>5 DEF Returned
  <2>2. PICK S, T : diags \in Seq(S) /\ diags' \in Seq(T)
    BY <1>2 DEF PlaceInv, Grown
  <2>3. Len(diags) \in Nat /\ Len(diags') \in Nat
    BY <2>2
  <2>4. /\ \A i \in 1..Len(toks) : toks'[i] = toks[i]
        /\ Len(toks) \in Nat /\ Len(toks') = Len(toks) + 1
    BY <2>1, MoreTokens
  <2>5. (Counted' => Counted) /\ InText'
    BY <1>1, <1>2, <2>3, <2>4, OldTokens DEF InText
  <2>6. CASE ~Counted
    <3>1. BegunAt(toks'[Len(toks) + 1], Len(toks))
      BY <2>4, <2>6 DEF BegunAt, Counted, Uncounted
    <3>2. BeginOK'
      BY <1>1, <1>2, <2>3, <2>4, <3>1, BegunKept DEF PlaceInv
    <3> QED
      BY <2>2, <2>5, <2>6, <3>2 DEF PlaceInv
  <2>7. CASE Counted
    <3>1. ReturnedAt
      BY <1>3, <2>1, <2>7 DEF ContinuedAt, InToken
    <3>2. PICK t : /\ toks' = Append(toks, t) /\ t.kind # "eof" /\ t.from = tk.from /\ t.to = lx'.at - 1
                   /\ Began(t.w)
                   /\ \/ t.kind = "eol" /\ Located(lx')
                      \/ t.kind # "eol" /\ (Exact(lx') \/ Unterminated(t)' \/ BarePrefix(t))
      BY <3>1 DEF ReturnedAt
    <3>3. toks'[Len(toks) + 1] = t /\ Len(toks) + 1 \in 1..Len(toks')
      BY <2>4, <3>2, MoreTokens
    <3>4. tk.from \in 1..Len(text) /\ Loose(lx') /\ lx'.valid # 0
      BY <3>1 DEF ReturnedAt, Loose, At, Loaded
    <3>5. BegunAt(t, Len(toks))
      BY <3>2, <3>4 DEF BegunAt, Began
    <3>6. BeginOK'
      BY <1>1, <1>2, <2>3, <2>4, <3>3, <3>5, BegunKept DEF PlaceInv
    <3>7. ASSUME Counted', lx'.at <= Len(text) \/ Complete'
          PROVE  Located(lx')
      <4>1. t.kind = "eol" \/ \A i \in t.from..t.to : text[i] # NL
        BY <1>1, <3>3, <3>7 DEF Counted, Covers
      <4>2. CASE t.kind = "eol"
        BY <3>2, <4>2
      <4>3. CASE t.kind # "eol"
        <5>1. Complete' => ~Unterminated(t)' /\ ~BarePrefix(t)
          BY <1>1, <3>3 DEF Complete, Unterminated, BarePrefix
        <5>2. Exact(lx')
          BY <3>2, <3>4, <3>7, <4>3, <5>1 DEF Loose
        <5> QED
          BY <3>2, <4>1, <4>3, <5>2 DEF Exact
      <4> QED
        BY <4>2, <4>3
    <3>8. Counted' => CursorPlace'
      <4>1. Located(lx') => Located(lx)'
        BY <1>1 DEF Located
      <4> QED
        BY <1>1, <2>1, <3>4, <3>7, <4>1 DEF CursorPlace, InToken
    <3> QED
      BY <2>2, <2>5, <3>6, <3>8 DEF PlaceInv
  <2> QED
    BY <2>6, <2>7
<1> QED
  BY <1>1, <1>4, <1>5, LexResult

(* PlaceCorrect: the invariant that the theorem below follows from.        *)
LEMMA PlaceCorrect == Spec => []PlaceInv
<1>1. Init => PlaceInv
  <2> SUFFICES ASSUME Init
               PROVE  PlaceInv
    OBVIOUS
  <2>1. /\ text \in Texts /\ pc = "idle" /\ toks = << >> /\ diags = << >> /\ lx = NewCursor
        /\ Len(toks) = 0 /\ diags \in Seq({})
    BY DEF Init
  <2>2. InText
    BY <2>1, TextsAssumption DEF InText
  <2>3. BeginOK
    BY <2>1 DEF BeginOK
  <2>4. lx.valid = 0 /\ lx.line = 1 /\ lx.col = 0
    BY <2>1 DEF NewCursor
  <2> QED
    BY <2>1, <2>2, <2>3, <2>4 DEF PlaceInv, CursorPlace, InToken
<1>2. CursorInv /\ CursorInv' /\ TokensInv /\ PlaceInv /\ [Next]_vars => PlaceInv'
  <2> SUFFICES ASSUME CursorInv, CursorInv', TokensInv, PlaceInv, [Next]_vars
               PROVE  PlaceInv'
    OBVIOUS
  <2>1. CASE Begin
    BY <2>1, PlaceBegins
  <2>2. CASE SkipSpace
    BY <2>2, PlaceSkips
  <2>3. CASE EndOfFile
    BY <2>3, PlaceEnds
  <2>4. CASE Lex /\ ~SkipSpace /\ ~EndOfFile
    BY <2>4, PlaceLex
  <2>5. CASE UNCHANGED vars
    BY <2>5
    DEF vars, PlaceInv, InText, BeginOK, Counted, CursorPlace, Located, Complete, Placed, TkOK, Began, WOK,
        Loose, Exact, At, Loaded, CursorOK, LookaheadOK, CharAt, KeptOK, RecordedIn, LastLineOK, Bare,
        EmptyString, OpensLong, IsQuote, Covers, Unterminated, BarePrefix, Uncounted, Overrun, Here
  <2> QED
    BY <2>1, <2>2, <2>3, <2>4, <2>5 DEF Next, Lex
<1> QED
  BY <1>1, <1>2, CursorCorrect, TokensCovered, PTL DEF Spec

(* BeginCorrect: in every state of every run, on any text, each token      *)
(* returned carries the line and the column of its first character, as     *)
(* long as every line end before it was returned as an eol token.          *)
THEOREM BeginCorrect == Spec => []BeginOK
<1>1. PlaceInv => BeginOK
  BY DEF PlaceInv
<1> QED
  BY <1>1, PlaceCorrect, PTL

-----------------------------------------------------------------------------
(* StringsCorrect: the value of a string.                                  *)

StringKinds == {"string_constant", "rune_constant"}

QuoteLen == IF tk.long THEN 3 ELSE 1

Fields == {"str", "quote", "long", "from"} \subseteq DOMAIN tk

(* What StringsOK says of one token.                                       *)
Valued(t) ==
  LET q == IF t.long THEN 3 ELSE 1
      value == SubSeq(text, t.from + q, t.to - q)
  IN  /\ t.kind \in StringKinds
      /\ ~Covers(t, "\\") /\ ~EmptyString(t.from) /\ ~Unterminated(t)
      /\ \A i \in 1..(Len(value) - 1) : value[i] # text[t.from] \/ value[i + 1] # text[t.from]
      => t.long = OpensLong(t.from) /\ t.val = value

(* Between the opening quotes and the index a there is no escape and there *)
(* are no two adjacent quotes.                                             *)
Verbatim(a) ==
  /\ \A i \in tk.from..(a - 1) : text[i] # "\\"
  /\ \A i \in (tk.from + QuoteLen)..(a - 2) : text[i] # text[tk.from] \/ text[i + 1] # text[tk.from]

(* Within StringToken() the value is what was read since the opening       *)
(* quotes.                                                                 *)
InString ==
  /\ Fields /\ tk.quote \in Quote
  /\ tk.long \in BOOLEAN
  /\ ~EmptyString(tk.from) =>
       /\ tk.long = OpensLong(tk.from) /\ tk.quote = text[tk.from]
       /\ tk.from + QuoteLen <= lx.at
       /\ Verbatim(lx.at) => tk.str = SubSeq(text, tk.from + QuoteLen, lx.at - 1)

AllValued == \A t : Given(t) => Valued(t)

ValueInv ==
  /\ pc = "start" => Fields /\ tk.str = << >>
  /\ pc = "string" => InString
  /\ AllValued

LEMMA SubSeqMore ==
  ASSUME NEW S, NEW s \in Seq(S), NEW a \in Nat \ {0}, NEW n \in Nat, a <= n + 1, n + 1 <= Len(s)
  PROVE  SubSeq(s, a, n + 1) = Append(SubSeq(s, a, n), s[n + 1])
<1>1. PICK m : m = n + 1
  OBVIOUS
<1>2. a \in 1..Len(s) /\ m \in a..Len(s) /\ m - 1 = n
  BY <1>1
<1>3. SubSeq(s, a, m) = SubSeq(s, a, m - 1) \o <<s[m]>>
  BY <1>2, SubSeqRecursiveSecond
<1>4. SubSeq(s, a, n) \in Seq(S)
  <2>1. \A i \in a..n : s[i] \in S
    OBVIOUS
  <2> QED
    BY <2>1, SubSeqProperties
<1>5. SubSeq(s, a, m) = Append(SubSeq(s, a, n), s[m])
  BY <1>2, <1>3, <1>4, AppendIsConcat
<1> QED
  BY <1>1, <1>5

LEMMA SubSeqNone ==
  ASSUME NEW S, NEW s \in Seq(S), NEW a \in Nat \ {0}, NEW b, b = a - 1
  PROVE  SubSeq(s, a, b) = << >>
OBVIOUS

(* Of a part of a sequence, its elements.                                  *)
LEMMA SubSeqAt ==
  ASSUME NEW S, NEW s \in Seq(S), NEW a \in Nat \ {0}, NEW n \in Nat, n <= Len(s), a <= n + 1
  PROVE  /\ Len(SubSeq(s, a, n)) = n + 1 - a
         /\ \A i \in 1..(n + 1 - a) : SubSeq(s, a, n)[i] = s[a + i - 1]
<1>1. \A i \in a..n : s[i] \in S
  OBVIOUS
<1>2. /\ Len(SubSeq(s, a, n)) = (IF a <= n THEN n - a + 1 ELSE 0)
      /\ \A i \in 1..(n - a + 1) : SubSeq(s, a, n)[i] = s[a + i - 1]
  BY <1>1, SubSeqProperties, SMTT(60)
<1> QED
  BY <1>2

LEMMA StringEndValue ==
  ASSUME NEW c, NEW w, NEW str, StringEnd(c, w, str), InText, Loaded(c), c.at <= Len(text)
  PROVE  \/ pc' = "threw" /\ toks' = toks
         \/ /\ pc' = "idle"
            /\ \E t : /\ toks' = Append(toks, t) /\ t.kind \in StringKinds
                     /\ t.from = tk.from /\ t.to = c.at /\ t.long = tk.long /\ t.val = str
<1>1. \E full, kind : /\ kind \in StringKinds
                      /\ \/ Return(NextChar(c), kind, full, str)
                         \/ ReturnUtf8(NextChar(c), kind, full, str)
  BY DEF StringEnd, StringKinds
<1>2. PICK full, kind : /\ kind \in StringKinds
                        /\ \/ Return(NextChar(c), kind, full, str)
                           \/ pc' = "threw" /\ toks' = toks
  BY <1>1 DEF ReturnUtf8
<1>3. NextChar(c).at - 1 = c.at
  <2>1. c.at \in Nat /\ NextChar(c).at = c.at + 1
    BY LoadedAt, NextCharMeans DEF InText
  <2> QED
    BY <2>1
<1>4. CASE Return(NextChar(c), kind, full, str)
  <2>1. PICK t : t = [kind |-> kind, w |-> full, val |-> str, long |-> tk.long,
                      from |-> tk.from, to |-> NextChar(c).at - 1]
    OBVIOUS
  <2>2. pc' = "idle" /\ toks' = Append(toks, t)
    BY <1>4, <2>1 DEF Return
  <2>3. t.kind = kind /\ t.from = tk.from /\ t.to = c.at /\ t.long = tk.long /\ t.val = str
    BY <1>3, <2>1
  <2> QED
    BY <1>2, <2>2, <2>3
<1> QED
  BY <1>2, <1>4

(* A string that is cut short by the end of the text.                      *)
LEMMA StringCutValue ==
  ASSUME NEW c, NEW ch, StringChar(c, ch), ~SourceHasMore(c), Cut
  PROVE  \/ pc' = "threw" /\ toks' = toks
         \/ pc' = "idle" /\ \E t : toks' = Append(toks, t) /\ Unterminated(t)'
<1>1. \E full, kind : \/ Return(NextChar(c), kind, full, tk.str)
                      \/ ReturnUtf8(NextChar(c), kind, full, tk.str)
  BY DEF StringChar, StringEnd
<1>2. PICK full, kind : \/ Return(NextChar(c), kind, full, tk.str)
                        \/ pc' = "threw" /\ toks' = toks
  BY <1>1 DEF ReturnUtf8
<1>3. CASE Return(NextChar(c), kind, full, tk.str)
  <2>1. PICK t : t = [kind |-> kind, w |-> full, val |-> tk.str, long |-> tk.long,
                      from |-> tk.from, to |-> NextChar(c).at - 1]
    OBVIOUS
  <2>2. pc' = "idle" /\ toks' = Append(toks, t) /\ t.from = tk.from
    BY <1>3, <2>1 DEF Return
  <2>3. Unterminated(t)'
    BY <2>2 DEF Cut, Unterminated
  <2> QED
    BY <2>2, <2>3
<1> QED
  BY <1>2, <1>3

(* A string that goes on.                                                  *)
LEMMA StringCharValue ==
  ASSUME NEW c, NEW ch, StringChar(c, ch), SourceHasMore(c), InText, Loaded(c), Fields, pc = "string"
  PROVE  \/ pc' = "threw" /\ toks' = toks
         \/ pc' = "idle" /\ \E t : toks' = Append(toks, t) /\ t.kind \notin StringKinds
         \/ /\ pc' = "string" /\ toks' = toks /\ lx' = NextChar(c) /\ lx'.at = c.at + 1
            /\ Fields' /\ tk'.from = tk.from /\ tk'.quote = tk.quote /\ tk'.long = tk.long
            /\ tk'.str = Append(tk.str, ch)
<1> DEFINE str == Append(tk.str, ch)
           w == IF ch = NL THEN [tk.w EXCEPT !.el = @ + 1, !.ec = 1] ELSE Extend(tk.w, 1)
<1>1. \/ ReturnUtf8(NextChar(c), "identifier", w, <<"'">> \o str)
      \/ /\ tk' = [tk EXCEPT !.str = str, !.w = w, !.trail = @ /\ ch # NL]
         /\ lx' = NextChar(c) /\ UNCHANGED <<pc, toks>>
  BY DEF StringChar
<1> HIDE DEF str, w
<1>2. CASE ReturnUtf8(NextChar(c), "identifier", w, <<"'">> \o str)
  <2>1. \/ Return(NextChar(c), "identifier", w, <<"'">> \o str)
        \/ pc' = "threw" /\ toks' = toks
    BY <1>2 DEF ReturnUtf8
  <2>2. CASE Return(NextChar(c), "identifier", w, <<"'">> \o str)
    <3>1. PICK t : t = [kind |-> "identifier", w |-> w, val |-> <<"'">> \o str, long |-> tk.long,
                        from |-> tk.from, to |-> NextChar(c).at - 1]
      OBVIOUS
    <3>2. pc' = "idle" /\ toks' = Append(toks, t) /\ t.kind = "identifier"
      BY <2>2, <3>1 DEF Return
    <3> QED
      BY <3>2 DEF StringKinds
  <2> QED
    BY <2>1, <2>2
<1>3. CASE /\ tk' = [tk EXCEPT !.str = str, !.w = w, !.trail = @ /\ ch # NL]
           /\ lx' = NextChar(c) /\ UNCHANGED <<pc, toks>>
  <2>1. DOMAIN tk' = DOMAIN tk /\ tk'.from = tk.from /\ tk'.quote = tk.quote /\ tk'.long = tk.long
        /\ tk'.str = str
    BY <1>3 DEF Fields
  <2>2. lx'.at = c.at + 1
    BY <1>3, HasMoreAt, NextCharMeans DEF InText
  <2> QED
    BY <1>3, <2>1, <2>2 DEF Fields, str
<1> QED
  BY <1>1, <1>2, <1>3

(* The value is right when the closing quotes are where the cursor is.     *)
LEMMA ClosedValue ==
  ASSUME InText, InString, At(lx), text' = text, NEW t, t.from = tk.from, t.long = tk.long,
         t.to \in Nat, t.to <= Len(text), lx.at + QuoteLen - 1 <= t.to,
         ~EmptyString(tk.from) /\ Verbatim(lx.at)
           => t.val = SubSeq(text, tk.from + QuoteLen, t.to - QuoteLen)
  PROVE  Valued(t)'
<1> DEFINE q == QuoteLen
           f == tk.from
           value == SubSeq(text, f + q, t.to - q)
<1>1. /\ f \in Nat \ {0} /\ lx.at \in Nat /\ q \in {1, 3} /\ Len(text) \in Nat /\ text \in Seq(Char)
      /\ lx.at + q - 1 <= t.to /\ t.to \in Nat /\ t.to <= Len(text)
  BY LoadedAt DEF At, QuoteLen, InText
<1> SUFFICES ASSUME ~Covers(t, "\\"), ~EmptyString(f),
                    \A i \in 1..(Len(value) - 1) : value[i] # text[f] \/ value[i + 1] # text[f]
             PROVE  t.long = OpensLong(f) /\ t.val = value
  BY DEF Valued, Covers, EmptyString, OpensLong, IsQuote, QuoteLen
<1>2. f + q <= lx.at /\ tk.long = OpensLong(f) /\ t.from = f
  BY DEF InString
<1>3. /\ Len(value) = t.to - q + 1 - (f + q)
      /\ \A i \in 1..(t.to - q + 1 - (f + q)) : value[i] = text[f + q + i - 1]
  <2>1. PICK a, n : a = f + q /\ n = t.to - q
    OBVIOUS
  <2>2. a \in Nat \ {0} /\ n \in Nat /\ n <= Len(text) /\ a <= n + 1
    BY <1>1, <1>2, <2>1, SMTT(30)
  <2>3. /\ Len(SubSeq(text, a, n)) = n + 1 - a
        /\ \A i \in 1..(n + 1 - a) : SubSeq(text, a, n)[i] = text[a + i - 1]
    BY <1>1, <2>2, SubSeqAt
  <2> QED
    BY <2>1, <2>3
<1> HIDE DEF value, q, f
<1>4. Verbatim(lx.at)
  <2>1. ASSUME NEW i \in f..(lx.at - 1)
        PROVE  text[i] # "\\"
    <3>1. i \in f..t.to
      BY <1>1
    <3> QED
      BY <1>2, <3>1 DEF Covers
  <2>2. ASSUME NEW j \in (f + q)..(lx.at - 2)
        PROVE  text[j] # text[f] \/ text[j + 1] # text[f]
    <3>1. PICK i : i = j - (f + q) + 1
      OBVIOUS
    <3>2. /\ i \in 1..(Len(value) - 1)
          /\ i \in 1..(t.to - q + 1 - (f + q)) /\ i + 1 \in 1..(t.to - q + 1 - (f + q))
          /\ f + q + i - 1 = j /\ f + q + (i + 1) - 1 = j + 1
      <4>1. /\ f \in Nat /\ q \in Nat /\ lx.at \in Nat /\ t.to \in Nat /\ j \in Int
            /\ f + q <= j /\ j <= lx.at - 2 /\ lx.at + q - 1 <= t.to
        BY <1>1, <1>2
      <4>2. Len(value) = t.to - q + 1 - (f + q)
        BY <1>3
      <4> QED
        BY <3>1, <4>1, <4>2
    <3>3. value[i] = text[j] /\ value[i + 1] = text[j + 1]
      BY <1>3, <3>2
    <3> QED
      BY <3>2, <3>3
  <2> QED
    BY <2>1, <2>2 DEF Verbatim, f, q
<1> QED
  BY <1>2, <1>4 DEF value, f, q

(* The next character is added to the value.                               *)
LEMMA ReadValue ==
  ASSUME InText, InString, At(lx), text' = text, lx.at <= Len(text), lx'.at = lx.at + 1,
         Fields', tk'.from = tk.from, tk'.quote = tk.quote, tk'.long = tk.long,
         tk'.str = Append(tk.str, text[lx.at])
  PROVE  InString'
<1>1. /\ tk.from \in Nat \ {0} /\ lx.at \in Nat \ {0} /\ QuoteLen \in {1, 3} /\ Len(text) \in Nat
      /\ text \in Seq(Char)
  BY LoadedAt DEF At, QuoteLen, InText
<1>2. QuoteLen' = QuoteLen
  BY DEF QuoteLen
<1>3. ASSUME ~EmptyString(tk.from)
      PROVE  /\ tk.from + QuoteLen <= lx'.at
             /\ Verbatim(lx.at)' => tk'.str = SubSeq(text, tk.from + QuoteLen, lx'.at - 1)
  <2>1. tk.from + QuoteLen <= lx.at
    BY <1>3 DEF InString
  <2>2. Verbatim(lx.at)' => Verbatim(lx.at)
    <3>1. /\ tk.from..(lx.at - 1) \subseteq tk.from..(lx'.at - 1)
          /\ (tk.from + QuoteLen)..(lx.at - 2) \subseteq (tk.from + QuoteLen)..(lx'.at - 2)
      BY <1>1
    <3> QED
      BY <1>2, <3>1 DEF Verbatim
  <2>3. PICK n : n = lx.at - 1
    OBVIOUS
  <2>4. n \in Nat /\ n + 1 = lx.at /\ lx'.at - 1 = n + 1
    BY <1>1, <2>3
  <2>5. PICK a : a = tk.from + QuoteLen
    OBVIOUS
  <2>6. a \in Nat \ {0} /\ a <= n + 1
    BY <1>1, <2>1, <2>4, <2>5
  <2>7. SubSeq(text, a, n + 1) = Append(SubSeq(text, a, n), text[n + 1])
    BY <1>1, <2>4, <2>6, SubSeqMore
  <2>8. Verbatim(lx.at) => tk.str = SubSeq(text, a, n)
    BY <1>3, <2>3, <2>5 DEF InString
  <2>9. Verbatim(lx.at)' => tk'.str = SubSeq(text, a, n + 1)
    BY <2>2, <2>4, <2>7, <2>8
  <2>10. tk.from + QuoteLen <= lx'.at
    BY <1>1, <2>1
  <2> QED
    BY <2>4, <2>5, <2>9, <2>10
<1>4. EmptyString(tk.from)' <=> EmptyString(tk.from)
  BY DEF EmptyString, OpensLong, IsQuote
<1>5. OpensLong(tk.from)' = OpensLong(tk.from)
  BY DEF OpensLong, IsQuote
<1> QED
  BY <1>2, <1>3, <1>4, <1>5 DEF InString

(* What is added is not counted as verbatim.                               *)
LEMMA OtherValue ==
  ASSUME InText, InString, At(lx), text' = text, lx.at <= lx'.at, lx'.at \in Nat,
         Fields', tk'.from = tk.from, tk'.quote = tk.quote, tk'.long = tk.long,
         ~EmptyString(tk.from) => ~Verbatim(lx'.at)
  PROVE  InString'
<1>1. tk.from \in Nat \ {0} /\ lx.at \in Nat \ {0} /\ QuoteLen \in {1, 3}
  BY LoadedAt DEF At, QuoteLen, InText
<1>2. QuoteLen' = QuoteLen
  BY DEF QuoteLen
<1>3. Verbatim(lx.at)' <=> Verbatim(lx'.at)
  BY <1>2 DEF Verbatim
<1>4. EmptyString(tk.from)' <=> EmptyString(tk.from)
  BY DEF EmptyString, OpensLong, IsQuote
<1>5. OpensLong(tk.from)' = OpensLong(tk.from)
  BY DEF OpensLong, IsQuote
<1>6. ~EmptyString(tk.from) => tk.from + QuoteLen <= lx'.at
  BY <1>1 DEF InString
<1> QED
  BY <1>2, <1>3, <1>4, <1>5, <1>6 DEF InString

(* What a step within a string does.                                       *)
ValueGoes ==
  \/ pc' = "threw" /\ toks' = toks
  \/ pc' = "idle" /\ \E t : toks' = Append(toks, t) /\ Valued(t)'
  \/ pc' = "string" /\ toks' = toks /\ InString'

LEMMA CharValue ==
  ASSUME InText, InString, At(lx), text' = text, pc = "string",
         NEW c, NEW ch, StringChar(c, ch), Loaded(c), lx.at <= c.at,
         NEW S, NEW d \in Seq(S), diags' = IfUnterminated(c, d),
         \/ c.at = lx.at /\ (c.at <= Len(text) => ch = text[lx.at])
         \/ ~EmptyString(tk.from) => ~Verbatim(c.at + 1)
  PROVE  ValueGoes
<1>1. CASE ~SourceHasMore(c)
  <2>1. \A t : Unterminated(t)' => Valued(t)'
    BY DEF Valued
  <2> QED
    BY <1>1, <2>1, CutShort, StringCutValue DEF ValueGoes
<1>2. CASE SourceHasMore(c)
  <2>0. \A t : t.kind \notin StringKinds => Valued(t)'
    BY DEF Valued
  <2>1. c.at <= Len(text) /\ Fields /\ c.at \in Nat /\ lx.at \in Nat
    BY <1>2, HasMoreAt, LoadedAt DEF InString, At
  <2>2. CASE /\ pc' = "string" /\ toks' = toks /\ lx' = NextChar(c) /\ lx'.at = c.at + 1
             /\ Fields' /\ tk'.from = tk.from /\ tk'.quote = tk.quote /\ tk'.long = tk.long
             /\ tk'.str = Append(tk.str, ch)
    <3>1. CASE c.at = lx.at /\ ch = text[lx.at]
      BY <2>1, <2>2, <3>1, ReadValue DEF ValueGoes
    <3>2. CASE ~EmptyString(tk.from) => ~Verbatim(c.at + 1)
      <4>1. lx.at <= lx'.at /\ lx'.at \in Nat /\ (~EmptyString(tk.from) => ~Verbatim(lx'.at))
        BY <2>1, <2>2, <3>2
      <4> QED
        BY <2>2, <4>1, OtherValue DEF ValueGoes
    <3> QED
      BY <2>1, <3>1, <3>2
  <2> QED
    BY <1>2, <2>0, <2>1, <2>2, StringCharValue DEF ValueGoes
<1> QED
  BY <1>1, <1>2

(* An escape adds one character to the value, wherever it ends.            *)
LEMMA EscapeChar ==
  ASSUME InText, At(lx), HexEscape \/ CharEscape, NEW S, diags \in Seq(S)
  PROVE  /\ pc = "string" /\ text[lx.at] = "\\" /\ lx.at \in tk.from..Len(text)
         /\ \E c, ch, d, T : /\ StringChar(c, ch) /\ Loaded(c) /\ lx.at <= c.at
                            /\ d \in Seq(T) /\ diags' = IfUnterminated(c, d)
<1> DEFINE e == NextChar(lx)
           c1 == NextChar(e)
           c2 == NextChar(c1)
           c3 == NextChar(c2)
           c4 == NextChar(c3)
           Adds == \E c, ch, d, T : /\ StringChar(c, ch) /\ Loaded(c) /\ lx.at <= c.at
                                    /\ d \in Seq(T) /\ diags' = IfUnterminated(c, d)
<1>1. pc = "string" /\ lx.cur = "\\" /\ Loaded(lx) /\ lx.at \in 1..Len(text) /\ tk.from \in Nat /\ tk.from <= lx.at
      /\ Len(text) \in Nat
  BY LoadedAt, TextsAssumption DEF HexEscape, CharEscape, At, InText
<1>2. text[lx.at] = "\\"
  BY <1>1 DEF Loaded, CursorOK, LookaheadOK, CursorType, CharAt
<1>3. ASSUME NEW c, Loaded(c), lx.at <= c.at
      PROVE  Loaded(NextChar(c)) /\ lx.at <= NextChar(c).at
  <2>1. c.at \in Nat
    BY <1>3, LoadedAt
  <2> QED
    BY <1>1, <1>3, <2>1, NextCharMeans DEF InText
<1>4. Loaded(e) /\ lx.at <= e.at
  BY <1>1, <1>3
<1>5. ASSUME HexEscape
      PROVE  Adds
  <2>1. \E c \in {c2, c4} : \E ch, ds :
          /\ ds \in {<<c1.cur, c2.cur>>, <<c1.cur, c2.cur, c3.cur, c4.cur>>}
          /\ StringChar(c, ch) /\ diags' = IfUnterminated(c, diags \o BadDigits(ds))
    BY <1>5 DEF HexEscape
  <2> HIDE DEF e
  <2>2. Loaded(c1) /\ lx.at <= c1.at
    BY <1>3, <1>4
  <2> HIDE DEF c1
  <2>3. Loaded(c2) /\ lx.at <= c2.at
    BY <1>3, <2>2
  <2> HIDE DEF c2
  <2>4. Loaded(c3) /\ lx.at <= c3.at
    BY <1>3, <2>3
  <2> HIDE DEF c3
  <2>5. Loaded(c4) /\ lx.at <= c4.at
    BY <1>3, <2>4
  <2> HIDE DEF c4
  <2>6. PICK c, ch, ds : /\ Loaded(c) /\ lx.at <= c.at /\ Len(ds) \in Nat
                         /\ StringChar(c, ch) /\ diags' = IfUnterminated(c, diags \o BadDigits(ds))
    BY <2>1, <2>3, <2>5
  <2>7. PICK B : BadDigits(ds) \in Seq(B)
    BY <2>6, BadDigitsType
  <2>8. diags \o BadDigits(ds) \in Seq(S \union B)
    BY <2>7
  <2>9. PICK d, T : d = diags \o BadDigits(ds) /\ T = S \union B
    OBVIOUS
  <2>10. StringChar(c, ch) /\ Loaded(c) /\ lx.at <= c.at /\ d \in Seq(T) /\ diags' = IfUnterminated(c, d)
    BY <2>6, <2>8, <2>9
  <2> QED
    BY <2>10
<1>6. ASSUME CharEscape
      PROVE  Adds
  <2>1. PICK ch, r : /\ StringChar(e, ch)
                     /\ diags' \in {IfUnterminated(e, diags), IfUnterminated(e, Append(diags, r))}
    BY <1>6 DEF CharEscape
  <2>2. diags \in Seq(S \union {r}) /\ Append(diags, r) \in Seq(S \union {r})
    OBVIOUS
  <2>3. PICK c : c = e
    OBVIOUS
  <2> HIDE DEF e
  <2>4. PICK d : d \in Seq(S \union {r}) /\ diags' = IfUnterminated(c, d)
    BY <2>1, <2>2, <2>3
  <2>5. PICK T : T = S \union {r}
    OBVIOUS
  <2>6. StringChar(c, ch) /\ Loaded(c) /\ lx.at <= c.at /\ d \in Seq(T) /\ diags' = IfUnterminated(c, d)
    BY <1>4, <2>1, <2>3, <2>4, <2>5
  <2> QED
    BY <2>6
<1>7. lx.at \in tk.from..Len(text)
  BY <1>1
<1> QED
  BY <1>1, <1>2, <1>5, <1>6, <1>7

LEMMA EscapeValue ==
  ASSUME InText, InString, At(lx), text' = text, HexEscape \/ CharEscape, NEW S, diags \in Seq(S)
  PROVE  ValueGoes
<1>1. pc = "string" /\ text[lx.at] = "\\" /\ lx.at \in tk.from..Len(text) /\ tk.from \in Nat
  BY EscapeChar DEF At
<1>2. PICK c, ch, d, T : /\ StringChar(c, ch) /\ Loaded(c) /\ lx.at <= c.at
                         /\ d \in Seq(T) /\ diags' = IfUnterminated(c, d)
  BY EscapeChar
<1>3. ~Verbatim(c.at + 1)
  <2>1. c.at \in Nat
    BY <1>2, LoadedAt
  <2>2. lx.at \in tk.from..((c.at + 1) - 1)
    BY <1>1, <1>2, <2>1
  <2>3. Verbatim(c.at + 1) => \A i \in tk.from..((c.at + 1) - 1) : text[i] # "\\"
    BY DEF Verbatim
  <2> QED
    BY <1>1, <2>2, <2>3
<1> QED
  BY <1>1, <1>2, <1>3, CharValue

(* A token that ends at the closing quotes.                                *)
LEMMA EndValue ==
  ASSUME InText, InString, At(lx), text' = text, NEW c, NEW w, NEW str, StringEnd(c, w, str),
         Loaded(c), c.at <= Len(text), lx.at + QuoteLen - 1 <= c.at,
         ~EmptyString(tk.from) /\ Verbatim(lx.at)
           => str = SubSeq(text, tk.from + QuoteLen, c.at - QuoteLen)
  PROVE  ValueGoes
<1>1. CASE pc' = "threw" /\ toks' = toks
  BY <1>1 DEF ValueGoes
<1>2. CASE /\ pc' = "idle"
           /\ \E t : /\ toks' = Append(toks, t) /\ t.kind \in StringKinds
                    /\ t.from = tk.from /\ t.to = c.at /\ t.long = tk.long /\ t.val = str
  <2>1. PICK t : /\ toks' = Append(toks, t) /\ t.from = tk.from /\ t.to = c.at /\ t.long = tk.long
                 /\ t.val = str
    BY <1>2
  <2>2. c.at \in Nat
    BY LoadedAt
  <2>3. Valued(t)'
    BY <2>1, <2>2, ClosedValue
  <2> QED
    BY <1>2, <2>1, <2>3 DEF ValueGoes
<1> QED
  BY <1>1, <1>2, StringEndValue

LEMMA CloseValue ==
  ASSUME InText, InString, At(lx), text' = text, StringClose
  PROVE  ValueGoes
<1>1. /\ StringEnd(lx, tk.w, tk.str) /\ tk.long = FALSE /\ lx.cur = tk.quote /\ tk.quote # NUL
  BY TextsAssumption DEF StringClose, InString, Quote
<1>2. Loaded(lx) /\ lx.at <= Len(text) /\ lx.at \in Nat /\ QuoteLen = 1
  BY <1>1, LoadedAt DEF At, QuoteLen
<1>3. ~EmptyString(tk.from) /\ Verbatim(lx.at) => tk.str = SubSeq(text, tk.from + QuoteLen, lx.at - QuoteLen)
  BY <1>2 DEF InString
<1>4. lx.at + QuoteLen - 1 <= lx.at
  BY <1>2
<1> QED
  BY <1>1, <1>2, <1>3, <1>4, EndValue

(* The quote that PeekChar() saw.                                          *)
LEMMA PeekQuote ==
  ASSUME InText, NEW c, Loaded(c), c.at <= Len(text), PeekChar(c).nxt # NUL
  PROVE  /\ Loaded(NextChar(PeekChar(c))) /\ NextChar(PeekChar(c)).at = c.at + 1
         /\ c.at + 1 <= Len(text) /\ PeekChar(c).nxt = text[c.at + 1] /\ c.at \in Nat
<1>1. Loaded(PeekChar(c)) /\ c.at \in Nat
  BY PeekStays, LoadedAt DEF InText
<1>2. Loaded(NextChar(PeekChar(c)))
  BY <1>1, NextCharMeans DEF InText
<1>3. PeekChar(c).nxt = CharAt(c.at + 1) /\ NextChar(PeekChar(c)).at = c.at + 1
  BY PeekNext
<1> QED
  BY <1>1, <1>2, <1>3 DEF CharAt

(* What the three peeks of a long string that has met its quote see.       *)
LEMMA LongPeeks ==
  ASSUME InText, At(lx), tk.quote \in Quote, AtLongQuote
  PROVE  /\ lx.cur = tk.quote /\ tk.long /\ QuoteLen = 3
         /\ Loaded(lx) /\ lx.at <= Len(text) /\ lx.at \in Nat \ {0} /\ lx.cur = text[lx.at]
         /\ tk.from \in Nat /\ tk.from <= lx.at
         /\ Loaded(Peek1) /\ Peek1.at = lx.at /\ Peek1.cur = lx.cur
         /\ Peek1.nxt = tk.quote =>
              /\ Loaded(Peek2) /\ Peek2.at = lx.at + 1
              /\ lx.at + 1 <= Len(text) /\ text[lx.at + 1] = tk.quote
         /\ Peek1.nxt = tk.quote /\ Peek2.nxt = tk.quote =>
              /\ Loaded(Peek3) /\ Peek3.at = lx.at + 2
              /\ lx.at + 2 <= Len(text) /\ text[lx.at + 2] = tk.quote
         /\ Peek1.nxt = tk.quote /\ Peek2.nxt = tk.quote /\ Peek3.nxt = tk.quote =>
              Loaded(NextChar(Peek3)) /\ NextChar(Peek3).at = lx.at + 3 /\ lx.at + 3 <= Len(text)
<1>1. lx.cur = tk.quote /\ tk.long /\ tk.quote # NUL
  BY TextsAssumption DEF AtLongQuote, Quote
<1>2. /\ Loaded(lx) /\ lx.at <= Len(text) /\ lx.at \in Nat \ {0} /\ QuoteLen = 3 /\ lx.cur = text[lx.at]
      /\ tk.from \in Nat /\ tk.from <= lx.at
  <2>1. Loaded(lx) /\ lx.at <= Len(text) /\ lx.at \in Nat \ {0} /\ QuoteLen = 3
        /\ tk.from \in Nat /\ tk.from <= lx.at
    BY <1>1, LoadedAt DEF At, QuoteLen
  <2>2. lx.cur = text[lx.at]
    BY <2>1 DEF Loaded, CursorOK, LookaheadOK, CursorType, CharAt
  <2> QED
    BY <2>1, <2>2
<1>3. Loaded(Peek1) /\ Peek1.at = lx.at /\ Peek1.cur = lx.cur
  BY <1>2, PeekStays DEF Peek1, InText
<1>4. ASSUME Peek1.nxt = tk.quote
      PROVE  /\ Loaded(NextChar(Peek1)) /\ NextChar(Peek1).at = lx.at + 1
             /\ Loaded(Peek2) /\ Peek2.at = lx.at + 1
             /\ lx.at + 1 <= Len(text) /\ text[lx.at + 1] = tk.quote
  <2>1. /\ Loaded(NextChar(Peek1)) /\ NextChar(Peek1).at = lx.at + 1
        /\ lx.at + 1 <= Len(text) /\ text[lx.at + 1] = tk.quote
    BY <1>1, <1>2, <1>3, <1>4, PeekQuote DEF Peek1
  <2> QED
    BY <2>1, PeekStays DEF Peek2, InText
<1>5. ASSUME Peek1.nxt = tk.quote, Peek2.nxt = tk.quote
      PROVE  /\ Loaded(NextChar(Peek2)) /\ NextChar(Peek2).at = lx.at + 2
             /\ Loaded(Peek3) /\ Peek3.at = lx.at + 2
             /\ lx.at + 2 <= Len(text) /\ text[lx.at + 2] = tk.quote
  <2>1. /\ Loaded(NextChar(Peek2)) /\ NextChar(Peek2).at = lx.at + 1 + 1
        /\ lx.at + 1 + 1 <= Len(text) /\ text[lx.at + 1 + 1] = tk.quote
    BY <1>1, <1>4, <1>5, PeekQuote DEF Peek2
  <2>2. lx.at + 1 + 1 = lx.at + 2
    BY <1>2
  <2>3. Loaded(Peek3) /\ Peek3.at = lx.at + 2
    BY <2>1, <2>2, PeekStays DEF Peek3, InText
  <2> QED
    BY <2>1, <2>2, <2>3
<1>6. ASSUME Peek1.nxt = tk.quote, Peek2.nxt = tk.quote, Peek3.nxt = tk.quote
      PROVE  Loaded(NextChar(Peek3)) /\ NextChar(Peek3).at = lx.at + 3 /\ lx.at + 3 <= Len(text)
  <2>1. /\ Loaded(NextChar(Peek3)) /\ NextChar(Peek3).at = lx.at + 2 + 1
        /\ lx.at + 2 + 1 <= Len(text)
    BY <1>1, <1>5, <1>6, PeekQuote DEF Peek3
  <2> QED
    BY <1>2, <2>1
<1> QED
  BY <1>1, <1>2, <1>3, <1>4, <1>5, <1>6

LEMMA LongQuoteValue ==
  ASSUME InText, InString, At(lx), text' = text, LongStringClose \/ LongStringQuote,
         NEW S, diags \in Seq(S)
  PROVE  ValueGoes
<1>0. pc = "string" /\ AtLongQuote /\ tk.quote \in Quote
  BY DEF LongStringClose, LongStringQuote, AtLongQuote, InString
<1>1. pc = "string" /\ lx.cur = tk.quote /\ tk.long
  BY <1>0, LongPeeks
<1>2. /\ Loaded(lx) /\ lx.at <= Len(text) /\ lx.at \in Nat \ {0} /\ QuoteLen = 3 /\ lx.cur = text[lx.at]
      /\ tk.from \in Nat /\ tk.from <= lx.at
  BY <1>0, LongPeeks
<1>3. Loaded(Peek1) /\ Peek1.at = lx.at /\ Peek1.cur = lx.cur
  BY <1>0, LongPeeks
<1>4. Peek1.nxt = tk.quote =>
        /\ Loaded(Peek2) /\ Peek2.at = lx.at + 1
        /\ lx.at + 1 <= Len(text) /\ text[lx.at + 1] = tk.quote
  BY <1>0, LongPeeks
<1>5. Peek1.nxt = tk.quote /\ Peek2.nxt = tk.quote =>
        Loaded(Peek3) /\ Peek3.at = lx.at + 2 /\ lx.at + 2 <= Len(text)
  BY <1>0, LongPeeks
<1>6. Peek1.nxt = tk.quote /\ Peek2.nxt = tk.quote /\ Peek3.nxt = tk.quote =>
        Loaded(NextChar(Peek3)) /\ NextChar(Peek3).at = lx.at + 3 /\ lx.at + 3 <= Len(text)
  BY <1>0, LongPeeks
<1>7. ~EmptyString(tk.from) =>
        /\ tk.quote = text[tk.from] /\ tk.from + 3 <= lx.at
        /\ Verbatim(lx.at) => tk.str = SubSeq(text, tk.from + QuoteLen, lx.at - 1)
  BY <1>2 DEF InString
<1>8. CASE LongStringClose
  <2>1. Peek1.nxt = tk.quote /\ Peek2.nxt = tk.quote
    BY <1>8 DEF LongStringClose
  <2>2. \/ /\ Peek3.nxt = tk.quote
           /\ StringEnd(NextChar(Peek3), Extend(tk.w, 3), Append(tk.str, tk.quote))
        \/ StringEnd(Peek3, Extend(tk.w, 2), tk.str)
    BY <1>8 DEF LongStringClose
  <2>3. CASE /\ Peek3.nxt = tk.quote
             /\ StringEnd(NextChar(Peek3), Extend(tk.w, 3), Append(tk.str, tk.quote))
    <3>1. PICK c : c = NextChar(Peek3)
      OBVIOUS
    <3>2. Loaded(c) /\ c.at = lx.at + 3 /\ c.at <= Len(text)
      BY <1>6, <2>1, <2>3, <3>1
    <3>3. lx.at + QuoteLen - 1 <= c.at /\ c.at - QuoteLen = lx.at
      BY <1>2, <3>2
    <3>4. ASSUME ~EmptyString(tk.from), Verbatim(lx.at)
          PROVE  Append(tk.str, tk.quote) = SubSeq(text, tk.from + QuoteLen, c.at - QuoteLen)
      <4>1. PICK a, n : a = tk.from + QuoteLen /\ n = lx.at - 1
        OBVIOUS
      <4>2. a \in Nat \ {0} /\ n \in Nat /\ n + 1 = lx.at /\ a <= n + 1 /\ Len(text) \in Nat
        <5>1. tk.from + 3 <= lx.at
          BY <1>7, <3>4
        <5>2. Len(text) \in Nat
          BY DEF InText
        <5> QED
          BY <1>2, <4>1, <5>1, <5>2
      <4>3. SubSeq(text, a, n + 1) = Append(SubSeq(text, a, n), text[n + 1])
        BY <1>2, <4>2, SubSeqMore DEF InText
      <4> QED
        BY <1>1, <1>2, <1>7, <3>3, <3>4, <4>1, <4>2, <4>3
    <3> QED
      BY <2>3, <3>1, <3>2, <3>3, <3>4, EndValue
  <2>4. CASE StringEnd(Peek3, Extend(tk.w, 2), tk.str)
    <3>1. lx.at + QuoteLen - 1 <= Peek3.at /\ Peek3.at - QuoteLen = lx.at - 1
      BY <1>2, <1>5, <2>1
    <3>2. ~EmptyString(tk.from) /\ Verbatim(lx.at)
            => tk.str = SubSeq(text, tk.from + QuoteLen, Peek3.at - QuoteLen)
      BY <1>7, <3>1
    <3>3. Loaded(Peek3) /\ Peek3.at <= Len(text)
      BY <1>5, <2>1
    <3> QED
      BY <2>4, <3>1, <3>2, <3>3, EndValue
  <2> QED
    BY <2>2, <2>3, <2>4
<1>9. CASE LongStringQuote /\ Peek1.nxt # tk.quote
  <2>1. StringChar(Peek1, Peek1.cur) /\ diags' = IfUnterminated(Peek1, diags)
    BY <1>9 DEF LongStringQuote
  <2>2. lx.at <= Peek1.at /\ Peek1.cur = text[lx.at]
    BY <1>2, <1>3
  <2> QED
    BY <1>1, <1>3, <2>1, <2>2, CharValue
<1>10. CASE LongStringQuote /\ Peek1.nxt = tk.quote
  <2>1. StringChar(Peek2, Peek2.cur) /\ diags' = IfUnterminated(Peek2, diags)
    BY <1>10 DEF LongStringQuote
  <2>2. /\ Loaded(Peek2) /\ Peek2.at = lx.at + 1 /\ lx.at <= Peek2.at
        /\ lx.at + 1 <= Len(text) /\ text[lx.at + 1] = tk.quote
    BY <1>2, <1>4, <1>10
  <2>3. ASSUME ~EmptyString(tk.from)
        PROVE  ~Verbatim(Peek2.at + 1)
    <3>1. lx.at \in (tk.from + QuoteLen)..((Peek2.at + 1) - 2)
      BY <1>2, <1>7, <2>2, <2>3
    <3>2. text[lx.at] = text[tk.from] /\ text[lx.at + 1] = text[tk.from]
      BY <1>1, <1>2, <1>7, <2>2, <2>3
    <3>3. Verbatim(Peek2.at + 1) => \A i \in (tk.from + QuoteLen)..((Peek2.at + 1) - 2) :
                                      text[i] # text[tk.from] \/ text[i + 1] # text[tk.from]
      BY DEF Verbatim
    <3> QED
      BY <3>1, <3>2, <3>3
  <2> QED
    BY <1>1, <2>1, <2>2, <2>3, CharValue
<1> QED
  BY <1>8, <1>9, <1>10

LEMMA PlainValue ==
  ASSUME InText, InString, At(lx), text' = text, StringPlain, NEW S, diags \in Seq(S)
  PROVE  ValueGoes
<1>1. pc = "string" /\ StringChar(lx, lx.cur) /\ diags' = IfUnterminated(lx, diags)
  BY DEF StringPlain
<1>2. Loaded(lx) /\ lx.at <= lx.at /\ (lx.at <= Len(text) => lx.cur = text[lx.at])
  <2>1. Loaded(lx) /\ lx.at \in Nat
    BY LoadedAt DEF At
  <2> QED
    BY <2>1 DEF Loaded, CursorOK, LookaheadOK, CursorType, CharAt
<1> QED
  BY <1>1, <1>2, CharValue

(* The opening quotes: StringToken() is called at the last of them.        *)
LEMMA QuoteOpens ==
  ASSUME InText, At(lx), QuoteStart
  PROVE  \E c, long :
           /\ StringToken(c, long) /\ long \in BOOLEAN
           /\ Loaded(c) /\ c.at <= Len(text) /\ c.cur = text[lx.at] /\ text[lx.at] \in Quote
           /\ ~EmptyString(lx.at) => /\ long = OpensLong(lx.at)
                                     /\ c.at = lx.at + (IF long THEN 2 ELSE 0)
<1> DEFINE one == PeekChar(lx)
           two == PeekChar(NextChar(one))
<1>1. lx.cur \in Quote /\ lx.cur # NUL
  BY TextsAssumption DEF QuoteStart, Quote
<1>2. /\ Loaded(lx) /\ lx.at \in 1..Len(text) /\ lx.cur = text[lx.at] /\ Len(text) \in Nat
      /\ text \in Seq(Char)
  <2>1. Loaded(lx) /\ lx.at \in 1..Len(text) /\ Len(text) \in Nat /\ text \in Seq(Char)
    BY <1>1, LoadedAt DEF At, InText
  <2> QED
    BY <2>1 DEF Loaded, CursorOK, LookaheadOK, CursorType, CharAt
<1>3. /\ Loaded(one) /\ one.at = lx.at /\ one.cur = lx.cur /\ one.nxt = CharAt(lx.at + 1)
      /\ NextChar(one).at = lx.at + 1 /\ NextChar(one).cur = one.nxt
  BY <1>2, PeekStays, PeekNext
<1>4. \/ one.nxt # lx.cur /\ StringToken(one, FALSE)
      \/ one.nxt = lx.cur /\ two.nxt # lx.cur /\ StringToken(two, FALSE)
      \/ one.nxt = lx.cur /\ two.nxt = lx.cur /\ StringToken(NextChar(two), TRUE)
  BY DEF QuoteStart
<1> HIDE DEF one
<1>6. CASE one.nxt # lx.cur /\ StringToken(one, FALSE)
  <2>1. OpensLong(lx.at) = FALSE /\ FALSE \in BOOLEAN
    BY <1>2, <1>3, <1>6 DEF OpensLong, CharAt
  <2>2. one.at = lx.at + 0 /\ one.at <= Len(text)
    BY <1>2, <1>3
  <2>3. StringToken(one, FALSE) /\ Loaded(one) /\ one.cur = text[lx.at] /\ text[lx.at] \in Quote
    BY <1>1, <1>2, <1>3, <1>6
  <2> QED
    BY <2>1, <2>2, <2>3
<1>7. CASE one.nxt = lx.cur
  <2>1. /\ Loaded(NextChar(one)) /\ NextChar(one).at = lx.at + 1
        /\ lx.at + 1 <= Len(text) /\ text[lx.at + 1] = lx.cur /\ lx.at + 1 \in Nat
    BY <1>1, <1>2, <1>3, <1>7, PeekQuote DEF one
  <2>2. /\ Loaded(two) /\ two.cur = lx.cur /\ two.nxt = CharAt((lx.at + 1) + 1) /\ two.at = lx.at + 1
        /\ NextChar(two).at = (lx.at + 1) + 1 /\ NextChar(two).cur = two.nxt
    BY <1>2, <1>3, <1>7, <2>1, PeekStays, PeekNext
  <2>3. (lx.at + 1) + 1 = lx.at + 2
    BY <1>2
  <2> HIDE DEF two
  <2>4. CASE two.nxt # lx.cur /\ StringToken(two, FALSE)
    <3>1. EmptyString(lx.at)
      BY <1>1, <1>2, <2>1, <2>2, <2>3, <2>4 DEF EmptyString, OpensLong, IsQuote, CharAt
    <3>2. two.at <= Len(text)
      BY <2>1, <2>2
    <3> QED
      BY <1>1, <1>2, <2>2, <2>4, <3>1, <3>2
  <2>5. CASE two.nxt = lx.cur /\ StringToken(NextChar(two), TRUE)
    <3>1. /\ Loaded(NextChar(two)) /\ NextChar(two).at = lx.at + 2
          /\ lx.at + 2 <= Len(text) /\ text[lx.at + 2] = lx.cur
      <4>1. NextChar(two).at = lx.at + 2 /\ lx.at + 2 <= Len(text) /\ text[lx.at + 2] = lx.cur
        BY <1>1, <2>2, <2>3, <2>5 DEF CharAt
      <4> QED
        BY <1>2, <2>2, <4>1, NextCharMeans
    <3>2. OpensLong(lx.at)
      BY <1>1, <1>2, <2>1, <3>1 DEF OpensLong, IsQuote
    <3>3. OpensLong(lx.at) = TRUE /\ NextChar(two).at <= Len(text) /\ NextChar(two).cur = text[lx.at]
      BY <1>2, <2>2, <2>5, <3>1, <3>2 DEF OpensLong
    <3> QED
      BY <1>1, <1>2, <2>5, <3>1, <3>3
  <2> QED
    BY <1>4, <1>7, <2>4, <2>5
<1> QED
  BY <1>4, <1>6, <1>7

LEMMA QuoteValue ==
  ASSUME InText, At(lx), tk.from = lx.at, text' = text, Fields, tk.str = << >>, QuoteStart
  PROVE  ValueGoes
<1>1. PICK c, long :
           /\ StringToken(c, long) /\ long \in BOOLEAN
           /\ Loaded(c) /\ c.at <= Len(text) /\ c.cur = text[lx.at] /\ text[lx.at] \in Quote
           /\ ~EmptyString(lx.at) => /\ long = OpensLong(lx.at)
                                     /\ c.at = lx.at + (IF long THEN 2 ELSE 0)
  BY QuoteOpens
<1>2. lx.at \in Nat \ {0} /\ c.at \in Nat /\ Len(text) \in Nat /\ text \in Seq(Char)
  BY <1>1, LoadedAt DEF At, InText
<1>3. PICK w : /\ lx' = NextChar(c) /\ tk' = [tk EXCEPT !.w = w, !.quote = c.cur, !.long = long]
               /\ pc' = "string" /\ toks' = toks
  BY <1>1 DEF StringToken, QuoteStart
<1>4. lx'.at = c.at + 1
  BY <1>1, <1>3, NextCharMeans DEF InText
<1>5. DOMAIN tk' = DOMAIN tk /\ tk'.from = lx.at /\ tk'.long = long /\ tk'.str = << >> /\ tk'.quote = c.cur
  BY <1>3 DEF Fields
<1>6. Fields' /\ tk'.quote \in Quote /\ tk'.long \in BOOLEAN
  BY <1>1, <1>5 DEF Fields
<1>7. ASSUME ~EmptyString(lx.at)
      PROVE  /\ tk'.long = OpensLong(lx.at) /\ tk'.quote = text[lx.at]
             /\ lx.at + QuoteLen' = lx'.at
             /\ tk'.str = SubSeq(text, lx.at + QuoteLen', lx'.at - 1)
  <2>1. lx'.at = lx.at + (IF long THEN 3 ELSE 1) /\ QuoteLen' = IF long THEN 3 ELSE 1
    BY <1>1, <1>2, <1>4, <1>5, <1>7 DEF QuoteLen
  <2>2. PICK a : a = lx'.at
    OBVIOUS
  <2>3. a \in Nat \ {0} /\ lx.at + QuoteLen' = a
    BY <1>2, <2>1, <2>2
  <2>4. SubSeq(text, a, a - 1) = << >>
    BY <1>2, <2>3, SubSeqNone
  <2> QED
    BY <1>1, <1>5, <1>7, <2>2, <2>3, <2>4
<1>8. EmptyString(tk.from)' <=> EmptyString(lx.at)
  BY <1>5 DEF EmptyString, OpensLong, IsQuote
<1>9. OpensLong(tk.from)' = OpensLong(lx.at)
  BY <1>5 DEF OpensLong, IsQuote
<1>10. lx.at + QuoteLen' = lx'.at => lx.at + QuoteLen' <= lx'.at
  BY <1>2, <1>5 DEF QuoteLen
<1>11. InString'
  BY <1>5, <1>6, <1>7, <1>8, <1>9, <1>10 DEF InString
<1> QED
  BY <1>3, <1>11 DEF ValueGoes

(* The steps outside of strings.                                           *)
OtherGoes ==
  \/ pc' \notin {"idle", "start", "string"} /\ toks' = toks
  \/ pc' = "idle" /\ \E t : toks' = Append(toks, t) /\ t.kind \notin StringKinds

LEMMA ReturnOther ==
  ASSUME NEW c, NEW kind, NEW w, NEW val, Return(c, kind, w, val), kind \notin StringKinds
  PROVE  OtherGoes
<1>1. PICK t : t = [kind |-> kind, w |-> w, val |-> val, long |-> tk.long,
                    from |-> tk.from, to |-> c.at - 1]
  OBVIOUS
<1>2. pc' = "idle" /\ toks' = Append(toks, t)
  BY <1>1 DEF Return
<1> QED
  BY <1>1, <1>2 DEF OtherGoes

LEMMA NumberOther ==
  ASSUME NEW c, NEW state, NEW str, NEW isFloat,
         NumberNext(c, state, str, isFloat) \/ NumberEnd(c, str, isFloat)
  PROVE  OtherGoes
<1>1. \/ pc' \in {"point", "e"} /\ toks' = toks
      \/ NumberEnd(c, str, isFloat)
  BY DEF NumberNext
<1>2. CASE NumberEnd(c, str, isFloat)
  <2>1. \E kind, w : Return(c, kind, w, str) /\ kind \in {"real_constant", "integer_constant"}
    BY <1>2 DEF NumberEnd
  <2> QED
    BY <2>1, ReturnOther DEF StringKinds
<1> QED
  BY <1>1, <1>2 DEF OtherGoes

LEMMA LexOther ==
  ASSUME Lex, pc # "string", ~QuoteStart, ~SkipSpace
  PROVE  OtherGoes
<1>1. CASE CommentStart \/ CommentChar \/ IdentStart \/ IdentChar \/ NumberStart \/ NumberDigit
           \/ FractionStart \/ ExponentStart \/ ExponentDigit
  <2>1. /\ toks' = toks
        /\ pc' \in {"comment", "ident", "int", "frac", "exp"}
    BY <1>1 DEF CommentStart, CommentChar, IdentStart, IdentChar, NumberStart, NumberDigit, FractionStart,
                ExponentStart, ExponentDigit
  <2> QED
    BY <2>1 DEF OtherGoes
<1>2. CASE CommentEnd \/ Punctuator \/ IdentEnd \/ NewLine \/ EndOfFile \/ Unknown
  <2>1. \E c, kind, w, val : /\ Return(c, kind, w, val)
                             /\ kind \in {"line_comment", "punctuator", "keyword", "identifier", "eol",
                                          "eof", "unknown"}
    BY <1>2 DEF CommentEnd, Punctuator, IdentEnd, NewLine, EndOfFile, Unknown
  <2> QED
    BY <2>1, ReturnOther DEF StringKinds
<1>3. CASE NumberStop \/ FractionRange \/ ExponentStop
  <2>1. \E c, state, str, isFloat : NumberNext(c, state, str, isFloat) \/ NumberEnd(c, str, isFloat)
    BY <1>3 DEF NumberStop, FractionRange, ExponentStop
  <2> QED
    BY <2>1, NumberOther
<1>4. CASE StringClose \/ LongStringClose \/ LongStringQuote \/ StringPlain \/ HexEscape \/ CharEscape
  BY <1>4 DEF StringClose, LongStringClose, LongStringQuote, AtLongQuote, StringPlain, HexEscape, CharEscape
<1> QED
  BY <1>1, <1>2, <1>3, <1>4 DEF Lex

(* The tokens returned before a step keep their values.                    *)
LEMMA ValuedKept ==
  ASSUME text' = text, Grown(diags'), NEW t, Valued(t)
  PROVE  Valued(t)'
<1>1. Unterminated(t) => Unterminated(t)'
  BY DEF Unterminated, Grown
<1>2. /\ Covers(t, "\\")' <=> Covers(t, "\\")
      /\ EmptyString(t.from)' <=> EmptyString(t.from)
      /\ OpensLong(t.from)' = OpensLong(t.from)
  BY DEF Covers, EmptyString, OpensLong, IsQuote
<1> QED
  BY <1>1, <1>2 DEF Valued

LEMMA AllValuedKept ==
  ASSUME AllValued, TokensInv, text' = text, Grown(diags'),
         \/ toks' = toks
         \/ \E t : toks' = Append(toks, t) /\ Valued(t)'
  PROVE  AllValued'
<1>1. \A u : Given(u) => Valued(u)'
  BY ValuedKept DEF AllValued
<1>2. CASE toks' = toks
  BY <1>1, <1>2 DEF AllValued, Given
<1>3. ASSUME NEW t, toks' = Append(toks, t), Valued(t)'
      PROVE  AllValued'
  <2>1. \A u : Given(u)' => Given(u) \/ u = t
    BY <1>3, GivenMore
  <2> QED
    BY <1>1, <1>3, <2>1 DEF AllValued
<1> QED
  BY <1>2, <1>3

LEMMA ValueStep ==
  ASSUME CursorInv, TokensInv, PlaceInv, ValueInv, [Next]_vars
  PROVE  ValueInv'
<1>1. InText /\ AllValued /\ CursorOK(lx) /\ Locals
  BY DEF PlaceInv, ValueInv, CursorInv, TokensInv
<1>2. PICK S : diags \in Seq(S)
  BY DEF PlaceInv
<1>0. diags' = diags => Grown(diags')
  BY <1>2 DEF Grown
<1>3. CASE Begin
  <2>1. pc' = "start" /\ toks' = toks /\ text' = text /\ diags' = diags /\ tk' = Fresh(CurChar(lx))
    BY <1>3 DEF Begin
  <2>2. Fields' /\ tk'.str = << >>
    BY <2>1 DEF Fresh, Fields
  <2>3. AllValued'
    BY <1>0, <1>1, <2>1, AllValuedKept
  <2> QED
    BY <2>1, <2>2, <2>3 DEF ValueInv
<1>4. CASE SkipSpace
  <2>1. /\ pc = "start" /\ pc' = "start" /\ toks' = toks /\ text' = text /\ diags' = diags
        /\ \E w, from : tk' = [tk EXCEPT !.w = w, !.from = from]
    BY <1>4 DEF SkipSpace
  <2>2. Fields /\ tk.str = << >>
    BY <2>1 DEF ValueInv
  <2>3. DOMAIN tk' = DOMAIN tk /\ tk'.str = tk.str
    BY <2>1, <2>2 DEF Fields
  <2>4. AllValued'
    BY <1>0, <1>1, <2>1, AllValuedKept
  <2> QED
    BY <2>1, <2>2, <2>3, <2>4 DEF ValueInv, Fields
<1>5. CASE Lex /\ ~SkipSpace
  <2>1. text' = text /\ Grown(diags') /\ pc # "idle"
    BY <1>2, <1>5, LexFrame, LexGrows
  <2>2. CASE ValueGoes
    <3>1. AllValued'
      BY <1>1, <2>1, <2>2, AllValuedKept DEF ValueGoes
    <3> QED
      BY <2>2, <3>1 DEF ValueGoes, ValueInv
  <2>3. CASE OtherGoes
    <3>1. \A t : t.kind \notin StringKinds => Valued(t)'
      BY DEF Valued
    <3>2. AllValued'
      BY <1>1, <2>1, <2>3, <3>1, AllValuedKept DEF OtherGoes
    <3> QED
      BY <2>3, <3>2 DEF OtherGoes, ValueInv
  <2>4. CASE QuoteStart
    <3>1. pc = "start" /\ lx.cur # NUL
      BY <2>4, TextsAssumption DEF QuoteStart, Quote
    <3>2. At(lx) /\ tk.from = lx.at
      BY <1>1, <3>1, Begins DEF InText, Locals, Loaded, CursorInv
    <3>3. ValueGoes
      BY <1>1, <2>1, <2>4, <3>1, <3>2, QuoteValue DEF ValueInv
    <3> QED
      BY <2>2, <3>3
  <2>5. CASE pc = "string"
    <3>1. InString /\ At(lx)
      BY <1>1, <2>5 DEF ValueInv, Locals, InToken
    <3>2. \/ StringClose \/ LongStringClose \/ LongStringQuote \/ StringPlain \/ HexEscape \/ CharEscape
      BY <1>5, <2>5
      DEF Lex, SkipSpace, CommentStart, CommentChar, CommentEnd, Punctuator, QuoteStart, IdentStart,
          IdentChar, IdentEnd, NumberStart, NumberDigit, NumberStop, FractionRange, FractionStart,
          ExponentStart, ExponentDigit, ExponentStop, NewLine, EndOfFile, Unknown
    <3>3. ValueGoes
      BY <1>1, <1>2, <2>1, <3>1, <3>2, CloseValue, LongQuoteValue, PlainValue, EscapeValue
    <3> QED
      BY <2>2, <3>3
  <2> QED
    BY <1>5, <2>3, <2>4, <2>5, LexOther
<1>6. CASE UNCHANGED vars
  <2>1. text' = text /\ lx' = lx /\ pc' = pc /\ tk' = tk /\ toks' = toks /\ diags' = diags
    BY <1>6 DEF vars
  <2>2. AllValued'
    BY <1>0, <1>1, <2>1, AllValuedKept
  <2>3. InString => InString'
    BY <2>1 DEF InString, Fields, Verbatim, QuoteLen, EmptyString, OpensLong, IsQuote
  <2> QED
    BY <2>1, <2>2, <2>3 DEF ValueInv, Fields
<1> QED
  BY <1>3, <1>4, <1>5, <1>6 DEF Next, Lex

(* ValueCorrect: the invariant that the theorem below follows from.        *)
LEMMA ValueCorrect == Spec => []ValueInv
<1>1. Init => ValueInv
  <2> SUFFICES ASSUME Init
               PROVE  ValueInv
    OBVIOUS
  <2>1. pc = "idle" /\ Len(toks) = 0
    BY DEF Init
  <2> QED
    BY <2>1 DEF ValueInv, AllValued, Given
<1>2. CursorInv /\ TokensInv /\ PlaceInv /\ ValueInv /\ [Next]_vars => ValueInv'
  BY ValueStep
<1> QED
  BY <1>1, <1>2, CursorCorrect, TokensCovered, PlaceCorrect, PTL DEF Spec

(* StringsCorrect: whatever the text, the value of a string token that     *)
(* Lex() returns is the text between its opening and its closing quotes,   *)
(* provided the string was terminated, has no escapes and, when it is a    *)
(* long one, no two adjacent quotes; and it is a long one exactly when     *)
(* three quotes open it.                                                   *)
THEOREM StringsCorrect == Spec => []StringsOK
<1>1. ValueInv => StringsOK
  BY DEF ValueInv, AllValued, Given, Valued, StringsOK, StringKinds
<1> QED
  BY <1>1, ValueCorrect, PTL

-----------------------------------------------------------------------------
(* NumbersCorrect: the digits of a number.                                 *)

NumberKinds == {"integer_constant", "real_constant"}

NumberPc == {"int", "frac", "point", "e", "exp"}

(* The recursive function of the definition is one.                        *)
LEMMA DigitsUnfold ==
  ASSUME InText, NEW first \in Nat \ {0}, NEW i \in 0..Len(text)
  PROVE  Digits(text, first)[i] = IF i < first THEN << >>
                            ELSE IF text[i] = "_" THEN Digits(text, first)[i - 1]
                            ELSE Append(Digits(text, first)[i - 1], text[i])
<1> DEFINE N == Len(text)
           T == Seq(Char)
           Next1(n, s) == IF n < first THEN << >> ELSE IF text[n] = "_" THEN s ELSE Append(s, text[n])
           step == [q \in (1..N) \X T |-> Next1(q[1], q[2])]
           Is(h) == h = [n \in 0..N |-> IF n < first THEN << >>
                                        ELSE IF text[n] = "_" THEN h[n - 1] ELSE Append(h[n - 1], text[n])]
<1>1. N \in Nat /\ << >> \in T
  BY DEF InText
<1>2. ASSUME NEW n \in 1..N, NEW s \in T
      PROVE  Next1(n, s) \in T
  <2>1. text[n] \in Char /\ << >> \in Seq(Char) /\ Append(s, text[n]) \in Seq(Char)
    BY DEF InText
  <2> QED
    BY <1>2, <2>1
<1>0. \A n \in 1..N, s \in T : Next1(n, s) \in T
  BY <1>2
<1> HIDE DEF Next1
<1>3. step \in [(1..N) \X T -> T] /\ \A n \in 1..N, s \in T : step[<<n, s>>] = Next1(n, s)
  BY <1>0
<1>4. PICK f : Iterates(f, T, << >>, N, step)
  <2> HIDE DEF step, N, T
  <2> QED
    BY <1>1, <1>3, Recursion
<1>5. \A n \in 1..N : f[n - 1] \in T /\ f[n] = Next1(n, f[n - 1])
  <2>1. \A n \in 1..N : n - 1 \in 0..N
    BY <1>1
  <2> HIDE DEF step
  <2> QED
    BY <1>3, <1>4, <2>1 DEF Iterates
<1>6. Is(f)
  <2>1. \A n \in 0..N : f[n] = IF n < first THEN << >>
                               ELSE IF text[n] = "_" THEN f[n - 1] ELSE Append(f[n - 1], text[n])
    <3> SUFFICES ASSUME NEW n \in 0..N
                 PROVE  f[n] = IF n < first THEN << >>
                               ELSE IF text[n] = "_" THEN f[n - 1] ELSE Append(f[n - 1], text[n])
      OBVIOUS
    <3> HIDE DEF step, N, T
    <3>1. CASE n = 0
      <4>1. f[0] = << >> /\ 0 < first
        BY <1>4 DEF Iterates
      <4> QED
        BY <3>1, <4>1
    <3>2. CASE n \in 1..N
      BY <1>5, <3>2 DEF Next1
    <3>3. n = 0 \/ n \in 1..N
      BY <1>1
    <3> QED
      BY <3>1, <3>2, <3>3
  <2> QED
    BY <1>4, <2>1 DEF Iterates
<1>7. Digits(text, first) = CHOOSE h : Is(h)
  BY DEF Digits
<1> HIDE DEF Is
<1>8. Is(Digits(text, first))
  BY <1>6, <1>7
<1> QED
  BY <1>8 DEF Is, N

(* A digit stands where the digits of a number that begins at i do.        *)
DigitAt(i) == text[FirstDigit(i)] \in NumChar(BaseAt(i)) \ {"_"}

(* What NumbersOK says of one token; and that it has no line end.          *)
Numbered(t) ==
  t.kind \in NumberKinds /\ FirstDigit(t.from) <= t.to /\ DigitAt(t.from)
    => /\ t.val = Digits(text, FirstDigit(t.from))[t.to]
       /\ \A i \in FirstDigit(t.from)..t.to : text[i] # NL

AllNumbered == \A t : Given(t) => Numbered(t)

(* The value of the number under construction, read up to the index n.     *)
Spelled(str, n) ==
  LET first == FirstDigit(tk.from)
  IN  first <= Len(text) /\ DigitAt(tk.from)
        => /\ first <= n /\ n <= Len(text) /\ str = Digits(text, first)[n]
           /\ \A i \in first..n : text[i] # NL

(* The loops over digits look at the next character, the others at the     *)
(* current one.                                                            *)
ReadTo == IF pc \in {"int", "frac"} THEN lx.at ELSE lx.at - 1

NumberFields == {"w", "str", "base", "isFloat", "from"} \subseteq DOMAIN tk

InNumber ==
  /\ NumberFields
  /\ tk.base = BaseAt(tk.from)
  /\ Spelled(tk.str, ReadTo)
  /\ pc = "point" => lx.cur = "."
  /\ pc = "e" => lx.cur \in {"e", "E"}

NumberInv ==
  /\ pc = "start" => NumberFields
  /\ pc \in NumberPc => InNumber
  /\ AllNumbered

(* What a step within a number does.                                       *)
NumberGoes ==
  \/ pc' = "idle" /\ \E t : toks' = Append(toks, t) /\ Numbered(t)'
  \/ pc' \in NumberPc /\ toks' = toks /\ InNumber'

(* One more character.                                                     *)
LEMMA SpelledMore ==
  ASSUME InText, tk.from \in Nat \ {0}, NEW str, NEW n \in Nat, n + 1 <= Len(text), Spelled(str, n),
         text[n + 1] # NL
  PROVE  Spelled(IF text[n + 1] = "_" THEN str ELSE Append(str, text[n + 1]), n + 1)
<1> DEFINE first == FirstDigit(tk.from)
<1>1. first \in Nat \ {0}
  BY DEF FirstDigit
<1> HIDE DEF first
<1> SUFFICES ASSUME first <= Len(text), DigitAt(tk.from)
             PROVE  /\ first <= n + 1
                    /\ (IF text[n + 1] = "_" THEN str ELSE Append(str, text[n + 1])) = Digits(text, first)[n + 1]
                    /\ \A i \in first..(n + 1) : text[i] # NL
  BY DEF Spelled, first
<1>2. first <= n /\ str = Digits(text, first)[n] /\ \A i \in first..n : text[i] # NL
  BY DEF Spelled, first
<1>3. PICK m : m = n + 1
  OBVIOUS
<1>4. m \in 0..Len(text) /\ ~(m < first) /\ m - 1 = n
  BY <1>1, <1>2, <1>3 DEF InText
<1>5. Digits(text, first)[m] = IF m < first THEN << >>
                         ELSE IF text[m] = "_" THEN Digits(text, first)[m - 1]
                         ELSE Append(Digits(text, first)[m - 1], text[m])
  BY <1>1, <1>4, DigitsUnfold
<1>6. (IF text[m] = "_" THEN str ELSE Append(str, text[m])) = Digits(text, first)[m]
  BY <1>2, <1>4, <1>5
<1>7. first <= n + 1 /\ \A i \in first..(n + 1) : text[i] # NL
  <2>1. \A i \in first..(n + 1) : i \in first..n \/ i = n + 1
    BY <1>1
  <2> QED
    BY <1>1, <1>2, <2>1
<1> QED
  BY <1>3, <1>6, <1>7

(* A digit is no line end.                                                 *)
LEMMA NumCharNL ==
  ASSUME NEW i
  PROVE  NL \notin NumChar(BaseAt(i)) \union NumChar(10) /\ NL \notin Decimal
BY TextsAssumption DEF BaseAt, NumChar, HexDigit, Decimal

(* The first one.                                                          *)
LEMMA SpelledFirst ==
  ASSUME InText, tk.from \in Nat \ {0}, NEW ch, NEW n, n = FirstDigit(tk.from),
         n <= Len(text) => ch = text[n]
  PROVE  Spelled(<<ch>>, n)
<1>1. n \in Nat \ {0}
  BY DEF FirstDigit
<1>2. ASSUME n <= Len(text)
      PROVE  text[n] # "_" => Digits(text, n)[n] = <<ch>>
  <2>1. PICK m : m = n - 1
    OBVIOUS
  <2>2. n \in 0..Len(text) /\ m \in 0..Len(text) /\ m < n /\ ~(n < n)
    BY <1>1, <1>2, <2>1 DEF InText
  <2>3. Digits(text, n)[m] = << >>
    BY <1>1, <2>2, DigitsUnfold
  <2>4. Digits(text, n)[n] = IF n < n THEN << >> ELSE IF text[n] = "_" THEN Digits(text, n)[n - 1]
                             ELSE Append(Digits(text, n)[n - 1], text[n])
    BY <1>1, <2>2, DigitsUnfold
  <2>5. text[n] # "_" => Digits(text, n)[n] = Append(Digits(text, n)[m], text[n])
    BY <2>1, <2>2, <2>4
  <2>6. Append(<< >>, ch) = <<ch>>
    OBVIOUS
  <2> QED
    BY <1>2, <2>3, <2>5, <2>6
<1>3. n <= n /\ \A i \in n..n : i = n
  BY <1>1
<1>4. DigitAt(tk.from) => text[n] # NL /\ text[n] # "_"
  BY NumCharNL DEF DigitAt
<1> QED
  BY <1>2, <1>3, <1>4 DEF Spelled

LEMMA NumberEndValue ==
  ASSUME InText, InNumber, NEW c, NEW str, NEW isFloat, NumberEnd(c, str, isFloat), text' = text,
         tk.from \in Nat \ {0}, c.at \in Nat, c.at - 1 <= Len(text),
         NEW n \in Nat, Spelled(str, n), n + 1 <= Len(text) + 1 => c.at = n + 1
  PROVE  NumberGoes
<1>1. PICK kind, w : Return(c, kind, w, str)
  BY DEF NumberEnd
<1>2. PICK t : t = [kind |-> kind, w |-> w, val |-> str, long |-> tk.long,
                    from |-> tk.from, to |-> c.at - 1]
  OBVIOUS
<1>3. pc' = "idle" /\ toks' = Append(toks, t)
  BY <1>1, <1>2 DEF Return
<1>4. t.val = str /\ t.from = tk.from /\ t.to = c.at - 1
  BY <1>2
<1>5. Numbered(t)
  <2> DEFINE first == FirstDigit(tk.from)
  <2>1. first \in Nat \ {0}
    BY DEF FirstDigit
  <2> HIDE DEF first
  <2> SUFFICES ASSUME first <= t.to, DigitAt(tk.from)
               PROVE  t.val = Digits(text, first)[t.to] /\ \A i \in first..t.to : text[i] # NL
    BY <1>4 DEF Numbered, first
  <2>2. first <= Len(text)
    BY <1>4, <2>1 DEF InText
  <2>3. n <= Len(text) /\ str = Digits(text, first)[n] /\ \A i \in first..n : text[i] # NL
    BY <2>2 DEF Spelled, first
  <2>4. t.to = n
    BY <1>4, <2>3 DEF InText
  <2> QED
    BY <1>4, <2>3, <2>4
<1>6. Numbered(t)'
  BY <1>5 DEF Numbered, DigitAt, FirstDigit, BaseAt
<1> QED
  BY <1>3, <1>6 DEF NumberGoes

(* The locals that a step within a number may change.                      *)
LEMMA InNumberNext ==
  ASSUME InText, InNumber, text' = text, toks' = toks, pc' \in NumberPc, NEW str, NEW isFloat,
         tk' = [tk EXCEPT !.str = str, !.isFloat = isFloat] \/ tk' = [tk EXCEPT !.str = str],
         NEW n, n = (IF pc' \in {"int", "frac"} THEN lx'.at ELSE lx'.at - 1), Spelled(str, n),
         pc' = "point" => lx'.cur = ".", pc' = "e" => lx'.cur \in {"e", "E"}
  PROVE  NumberGoes
<1>1. DOMAIN tk' = DOMAIN tk /\ tk'.from = tk.from /\ tk'.base = tk.base /\ tk'.str = str
  BY DEF InNumber, NumberFields
<1>2. ReadTo' = n
  BY DEF ReadTo
<1>3. Spelled(tk.str, ReadTo)'
  BY <1>1, <1>2 DEF Spelled, DigitAt, FirstDigit, BaseAt
<1>4. BaseAt(tk.from)' = BaseAt(tk.from)
  BY <1>1 DEF BaseAt
<1> QED
  BY <1>1, <1>3, <1>4 DEF NumberGoes, InNumber, NumberFields

LEMMA NumberNextValue ==
  ASSUME InText, InNumber, NEW c, NEW state, NEW str, NEW isFloat, NumberNext(c, state, str, isFloat),
         text' = text, tk.from \in Nat \ {0}, Loaded(c),
         NEW n \in Nat, Spelled(str, n), n + 1 <= Len(text) + 1 => c.at = n + 1
  PROVE  NumberGoes
<1>1. c.at \in Nat /\ c.at - 1 <= Len(text) /\ (c.cur # NUL => c.at <= Len(text))
  BY LoadedAt DEF InText
<1>2. CASE c.cur = "." /\ state # "frac" /\ tk.base # 16
  <2>1. lx' = c /\ pc' = "point" /\ toks' = toks /\ tk' = [tk EXCEPT !.str = str, !.isFloat = isFloat]
    BY <1>2 DEF NumberNext
  <2>2. Spelled(str, lx'.at - 1)
    BY <1>1, <2>1 DEF Spelled, InText
  <2> QED
    BY <1>2, <2>1, <2>2, InNumberNext DEF NumberPc
<1>3. CASE ~(c.cur = "." /\ state # "frac" /\ tk.base # 16) /\ c.cur \in {"e", "E"} /\ state # "exp"
  <2>1. lx' = c /\ pc' = "e" /\ toks' = toks /\ tk' = [tk EXCEPT !.str = str, !.isFloat = isFloat]
    BY <1>3 DEF NumberNext
  <2>2. Spelled(str, lx'.at - 1)
    BY <1>1, <2>1 DEF Spelled, InText
  <2> QED
    BY <1>3, <2>1, <2>2, InNumberNext DEF NumberPc
<1>4. CASE ~(c.cur = "." /\ state # "frac" /\ tk.base # 16) /\ ~(c.cur \in {"e", "E"} /\ state # "exp")
  <2>1. NumberEnd(c, str, isFloat)
    BY <1>4 DEF NumberNext
  <2> QED
    BY <1>1, <2>1, NumberEndValue
<1> QED
  BY <1>2, <1>3, <1>4

LEMMA NumberStartValue ==
  ASSUME InText, At(lx), tk.from = lx.at, lx.at <= Len(text), text' = text, NumberFields, NumberStart
  PROVE  NumberGoes
<1> DEFINE one == NextChar(PeekChar(lx))
           two == NextChar(one)
           prefixed == lx.cur = "0" /\ PeekChar(lx).nxt \in {"x", "b"}
           base == IF PeekChar(lx).nxt = "x" THEN 16 ELSE 2
           at == lx.at
<1>1. /\ Loaded(lx) /\ at \in Nat \ {0} /\ lx.cur = text[at] /\ Len(text) \in Nat
      /\ PeekChar(lx).nxt = CharAt(at + 1)
  <2>1. Loaded(lx) /\ at \in Nat \ {0} /\ Len(text) \in Nat
    BY LoadedAt DEF At, InText
  <2>2. lx.cur = text[at]
    BY <2>1 DEF Loaded, CursorOK, LookaheadOK, CursorType, CharAt
  <2> QED
    BY <2>1, <2>2, PeekNext
<1>2. prefixed <=> at < Len(text) /\ text[at] = "0" /\ text[at + 1] \in {"x", "b"}
  <2>1. NUL \notin {"x", "b"}
    BY TextsAssumption
  <2>2. at + 1 <= Len(text) <=> at < Len(text)
    BY <1>1
  <2> QED
    BY <1>1, <2>1, <2>2 DEF CharAt
<1>3. prefixed => PeekChar(lx).nxt = text[at + 1]
  BY <1>1, <1>2 DEF CharAt
<1>4. /\ prefixed => BaseAt(at) = base /\ FirstDigit(at) = at + 2
      /\ ~prefixed => BaseAt(at) = 10 /\ FirstDigit(at) = at
  BY <1>2, <1>3 DEF BaseAt, FirstDigit
<1>5. /\ pc' = "int" /\ toks' = toks
      /\ \/ prefixed /\ lx' = two
         \/ ~prefixed /\ lx' \in {lx, PeekChar(lx)}
      /\ tk' = [tk EXCEPT !.w = Here(lx), !.str = <<lx'.cur>>, !.base = IF prefixed THEN base ELSE 10]
  BY DEF NumberStart
<1> HIDE DEF prefixed, base
<1>6. PICK w, b : tk' = [tk EXCEPT !.w = w, !.str = <<lx'.cur>>, !.base = b] /\ b = IF prefixed THEN base ELSE 10
  BY <1>5
<1>7. DOMAIN tk' = DOMAIN tk /\ tk'.from = at /\ tk'.str = <<lx'.cur>> /\ tk'.base = b
  BY <1>6 DEF NumberFields
<1>8. tk'.base = BaseAt(at)
  BY <1>4, <1>6, <1>7
<1>9. Loaded(lx') /\ lx'.at = IF prefixed /\ at + 2 > Len(text) + 1 THEN lx'.at ELSE FirstDigit(at)
  <2>1. CASE ~prefixed
    BY <1>1, <1>4, <1>5, <2>1, PeekStays DEF InText
  <2>2. CASE prefixed
    <3>1. Loaded(one) /\ one.at = at + 1 /\ at + 1 <= Len(text)
      <4>1. Loaded(PeekChar(lx)) /\ PeekChar(lx).at = at
        BY <1>1, PeekStays DEF InText
      <4>2. Loaded(one) /\ one.at = at + 1
        BY <4>1, NextCharMeans DEF InText
      <4> QED
        BY <1>1, <1>2, <2>2, <4>2
    <3> HIDE DEF one
    <3>2. Loaded(two) /\ two.at = (at + 1) + 1
      BY <3>1, NextCharMeans DEF InText
    <3> QED
      BY <1>1, <1>4, <1>5, <2>2, <3>2
  <2> QED
    BY <2>1, <2>2
<1>10. FirstDigit(at) \in Nat /\ (FirstDigit(at) <= Len(text) => lx'.at = FirstDigit(at))
  BY <1>1, <1>4, <1>9
<1>11. PICK n : n = FirstDigit(at)
  OBVIOUS
<1>12. n <= Len(text) => lx'.cur = text[n] /\ lx'.at = n
  BY <1>9, <1>10, <1>11 DEF Loaded, CursorOK, LookaheadOK, CursorType, CharAt
<1>13. Spelled(<<lx'.cur>>, n)
  BY <1>1, <1>11, <1>12, SpelledFirst
<1>14. Spelled(<<lx'.cur>>, lx'.at)
  BY <1>11, <1>12, <1>13 DEF Spelled
<1>15. Spelled(tk.str, ReadTo)'
  BY <1>5, <1>7, <1>14 DEF Spelled, ReadTo, DigitAt, FirstDigit, BaseAt
<1>16. BaseAt(tk.from)' = BaseAt(at)
  BY <1>7 DEF BaseAt
<1>17. NumberFields'
  BY <1>7 DEF NumberFields
<1> QED
  BY <1>5, <1>8, <1>15, <1>16, <1>17 DEF NumberGoes, InNumber, NumberPc

LEMMA NumberDigitValue ==
  ASSUME InText, At(lx), InNumber, text' = text, NumberDigit
  PROVE  NumberGoes
<1> DEFINE n == NextChar(lx)
<1>1. /\ pc \in {"int", "frac"} /\ lx' = n /\ pc' = pc /\ toks' = toks
      /\ tk' = [tk EXCEPT !.str = IF n.cur = "_" THEN @ ELSE Append(@, n.cur)]
      /\ n.cur \in NumChar(tk.base) \union NumChar(10)
  BY DEF NumberDigit
<1>2. PICK str : /\ tk' = [tk EXCEPT !.str = str]
                 /\ str = IF n.cur = "_" THEN tk.str ELSE Append(tk.str, n.cur)
  BY <1>1 DEF InNumber, NumberFields
<1>3. n.cur # NUL
  BY <1>1, NumCharNUL DEF InNumber, BaseAt
<1>4. Loaded(lx) /\ Loaded(n) /\ lx.at \in Nat /\ n.at <= Len(text) /\ tk.from \in Nat \ {0}
  BY <1>3, NextCharMeans, LoadedAt DEF At, InText
<1>5. n.at = lx.at + 1
  BY <1>4, NextCharMeans DEF InText
<1>6. n.cur = text[n.at]
  BY <1>4 DEF Loaded, CursorOK, LookaheadOK, CursorType, CharAt
<1> HIDE DEF n
<1>7. Spelled(tk.str, lx.at)
  BY <1>1 DEF InNumber, ReadTo
<1>8. Spelled(str, lx.at + 1)
  <2>1. text[lx.at + 1] # NL
    BY <1>1, <1>5, <1>6, NumCharNL DEF InNumber
  <2> QED
    BY <1>2, <1>4, <1>5, <1>6, <1>7, <2>1, SpelledMore
<1> QED
  BY <1>1, <1>2, <1>5, <1>8, InNumberNext, Zenon DEF NumberPc

LEMMA NumberStopValue ==
  ASSUME InText, At(lx), InNumber, text' = text, NumberStop
  PROVE  NumberGoes
<1>1. pc \in {"int", "frac"} /\ NumberNext(NextChar(lx), pc, tk.str, tk.isFloat)
  BY DEF NumberStop
<1>2. /\ Loaded(lx) /\ lx.at \in Nat /\ Loaded(NextChar(lx)) /\ tk.from \in Nat \ {0} /\ Len(text) \in Nat
      /\ NextChar(lx).at = IF lx.at <= Len(text) THEN lx.at + 1 ELSE lx.at
  BY NextCharMeans, LoadedAt DEF At, InText
<1>3. Spelled(tk.str, lx.at)
  BY <1>1 DEF InNumber, ReadTo
<1>4. lx.at + 1 <= Len(text) + 1 => NextChar(lx).at = lx.at + 1
  BY <1>2
<1> QED
  BY <1>1, <1>2, <1>3, <1>4, NumberNextValue

LEMMA FractionValue ==
  ASSUME InText, At(lx), InNumber, text' = text, lx.at <= Len(text), FractionRange \/ FractionStart
  PROVE  NumberGoes
<1>1. pc = "point" /\ lx.cur = "."
  BY DEF FractionRange, FractionStart, InNumber
<1>2. PICK n : n = lx.at - 1
  OBVIOUS
<1>3. /\ Loaded(lx) /\ lx.at \in Nat /\ tk.from \in Nat \ {0} /\ Len(text) \in Nat
      /\ n \in Nat /\ lx.at = n + 1 /\ lx.cur = text[n + 1] /\ n + 1 <= Len(text)
  <2>1. Loaded(lx) /\ lx.at \in Nat \ {0} /\ tk.from \in Nat \ {0} /\ Len(text) \in Nat
    BY LoadedAt DEF At, InText
  <2>2. n \in Nat /\ lx.at = n + 1 /\ n + 1 <= Len(text)
    BY <1>2, <2>1
  <2>3. lx.cur = text[lx.at]
    BY <2>1 DEF Loaded, CursorOK, LookaheadOK, CursorType, CharAt
  <2> QED
    BY <2>1, <2>2, <2>3
<1>4. Spelled(tk.str, n)
  BY <1>1, <1>2 DEF InNumber, ReadTo
<1>5. PeekChar(lx).at = lx.at
  BY <1>3, PeekStays DEF InText
<1>6. CASE FractionRange
  <2>1. NumberEnd(PeekChar(lx), tk.str, tk.isFloat)
    BY <1>6 DEF FractionRange
  <2>2. PeekChar(lx).at \in Nat /\ PeekChar(lx).at - 1 <= Len(text)
    BY <1>3, <1>5
  <2> QED
    BY <1>3, <1>4, <1>5, <2>1, <2>2, NumberEndValue
<1>7. CASE FractionStart
  <2>1. /\ lx' = PeekChar(lx) /\ pc' = "frac" /\ toks' = toks
        /\ \E str : tk' = [tk EXCEPT !.isFloat = TRUE, !.str = str] /\ str = Append(tk.str, ".")
    BY <1>7 DEF FractionStart, InNumber, NumberFields
  <2>2. PICK str : /\ tk' = [tk EXCEPT !.str = str, !.isFloat = TRUE]
                   /\ str = Append(tk.str, text[n + 1])
    BY <1>1, <1>3, <2>1
  <2>3. text[n + 1] # "_" /\ text[n + 1] # NL
    BY <1>1, <1>3, TextsAssumption
  <2>4. Spelled(str, n + 1)
    BY <1>3, <1>4, <2>2, <2>3, SpelledMore
  <2> QED
    BY <1>3, <1>5, <2>1, <2>2, <2>4, InNumberNext, Zenon DEF NumberPc
<1> QED
  BY <1>6, <1>7

LEMMA ExponentValue ==
  ASSUME InText, At(lx), InNumber, text' = text, pc = "e" => lx.at <= Len(text),
         ExponentStart \/ ExponentDigit \/ ExponentStop
  PROVE  NumberGoes
<1>1. pc \in {"e", "exp"} /\ (pc = "e" => lx.cur \in {"e", "E"})
  BY DEF ExponentStart, ExponentDigit, ExponentStop, InNumber
<1>2. PICK n : n = lx.at - 1
  OBVIOUS
<1>3. /\ Loaded(lx) /\ lx.at \in Nat /\ tk.from \in Nat \ {0} /\ Len(text) \in Nat
      /\ n \in Nat /\ lx.at = n + 1
      /\ lx.at <= Len(text) => lx.cur = text[n + 1] /\ n + 1 <= Len(text)
      /\ lx.cur # NUL => lx.at <= Len(text)
  <2>1. Loaded(lx) /\ lx.at \in Nat \ {0} /\ tk.from \in Nat \ {0} /\ Len(text) \in Nat
    BY LoadedAt DEF At, InText
  <2>2. n \in Nat /\ lx.at = n + 1
    BY <1>2, <2>1
  <2>3. lx.at <= Len(text) => lx.cur = text[lx.at]
    BY <2>1 DEF Loaded, CursorOK, LookaheadOK, CursorType, CharAt
  <2> QED
    BY <2>1, <2>2, <2>3, LoadedAt
<1>4. Spelled(tk.str, n)
  BY <1>1, <1>2 DEF InNumber, ReadTo
<1>5. CASE ExponentStart
  <2> DEFINE m == NextChar(lx)
             e == Append(tk.str, lx.cur)
  <2>1. pc = "e" /\ lx.cur \in {"e", "E"} /\ lx.at <= Len(text) /\ lx.cur = text[n + 1] /\ n + 1 <= Len(text)
    BY <1>1, <1>3, <1>5 DEF ExponentStart
  <2>2. /\ pc' = "exp" /\ toks' = toks
        /\ \/ m.cur \notin {"+", "-"} /\ lx' = m /\ tk' = [tk EXCEPT !.isFloat = TRUE, !.str = e]
           \/ /\ m.cur \in {"+", "-"} /\ lx' = NextChar(m)
              /\ tk' = [tk EXCEPT !.isFloat = TRUE, !.str = Append(e, m.cur)]
    BY <1>5 DEF ExponentStart
  <2>3. Loaded(m) /\ m.at = (n + 1) + 1
    BY <1>3, <2>1, NextCharMeans DEF InText
  <2>4. m.cur # NUL => m.at <= Len(text) /\ m.cur = text[m.at]
    BY <2>3, LoadedAt DEF Loaded, CursorOK, LookaheadOK, CursorType, CharAt
  <2>5. Spelled(e, n + 1)
    <3>1. text[n + 1] # "_" /\ text[n + 1] # NL
      BY <2>1, TextsAssumption
    <3> QED
      BY <1>3, <1>4, <2>1, <3>1, SpelledMore
  <2> HIDE DEF e, m
  <2>6. CASE m.cur \notin {"+", "-"} /\ lx' = m /\ tk' = [tk EXCEPT !.isFloat = TRUE, !.str = e]
    <3>1. lx'.at - 1 = n + 1
      BY <1>3, <2>3, <2>6
    <3>2. PICK str : str = e /\ tk' = [tk EXCEPT !.str = str, !.isFloat = TRUE]
      BY <2>6
    <3> QED
      BY <2>2, <2>5, <3>1, <3>2, InNumberNext DEF NumberPc
  <2>7. CASE /\ m.cur \in {"+", "-"} /\ lx' = NextChar(m)
             /\ tk' = [tk EXCEPT !.isFloat = TRUE, !.str = Append(e, m.cur)]
    <3>1. m.cur # NUL /\ m.cur # "_" /\ m.cur # NL
      BY <2>7, TextsAssumption
    <3>2. PICK k : k = n + 1
      OBVIOUS
    <3>3. k \in Nat /\ k + 1 <= Len(text) /\ m.cur = text[k + 1] /\ m.at = k + 1
      BY <1>3, <2>3, <2>4, <3>1, <3>2
    <3>4. Spelled(e, k)
      BY <2>5, <3>2
    <3>5. text[k + 1] # "_" /\ text[k + 1] # NL
      BY <3>1, <3>3
    <3>6. Spelled(Append(e, m.cur), k + 1)
      BY <1>3, <3>3, <3>4, <3>5, SpelledMore
    <3>7. NextChar(m).at = (k + 1) + 1
      BY <2>3, <3>3, NextCharMeans DEF InText
    <3>8. lx'.at - 1 = k + 1
      BY <2>7, <3>3, <3>7
    <3>9. PICK str : str = Append(e, m.cur) /\ tk' = [tk EXCEPT !.str = str, !.isFloat = TRUE]
      BY <2>7
    <3> QED
      BY <2>2, <3>6, <3>8, <3>9, InNumberNext DEF NumberPc
  <2> QED
    BY <2>2, <2>6, <2>7
<1>6. CASE ExponentDigit
  <2>1. /\ lx.cur \in Decimal /\ lx' = NextChar(lx) /\ pc' = "exp" /\ toks' = toks
        /\ \E str : tk' = [tk EXCEPT !.str = str] /\ str = Append(tk.str, lx.cur)
    BY <1>6 DEF ExponentDigit, InNumber, NumberFields
  <2>2. lx.cur # NUL /\ lx.cur # "_" /\ lx.cur # NL
    BY <2>1, TextsAssumption DEF Decimal
  <2>3. lx.cur = text[n + 1] /\ n + 1 <= Len(text) /\ lx.at <= Len(text)
    BY <1>3, <2>2
  <2>4. text[n + 1] # "_" /\ text[n + 1] # NL
    BY <2>2, <2>3
  <2>5. Spelled(Append(tk.str, lx.cur), n + 1)
    BY <1>3, <1>4, <2>3, <2>4, SpelledMore
  <2>6. lx'.at - 1 = n + 1
    <3>1. NextChar(lx).at = lx.at + 1
      BY <1>3, <2>3, NextCharMeans DEF InText
    <3> QED
      BY <1>3, <2>1, <3>1
  <2> QED
    BY <2>1, <2>5, <2>6, InNumberNext DEF NumberPc
<1>7. CASE ExponentStop
  <2>1. NumberNext(lx, "exp", tk.str, TRUE)
    BY <1>7 DEF ExponentStop
  <2> QED
    BY <1>3, <1>4, <2>1, NumberNextValue
<1> QED
  BY <1>5, <1>6, <1>7

(* The steps outside of numbers.                                           *)
LEMMA LexNoNumber ==
  ASSUME Lex, pc \notin NumberPc, ~NumberStart, ~SkipSpace
  PROVE  \/ pc' \notin NumberPc \union {"start"} /\ toks' = toks
         \/ pc' = "idle" /\ \E t : toks' = Append(toks, t) /\ Numbered(t)'
<1>1. ASSUME NEW c, NEW kind, NEW w, NEW val, kind \notin NumberKinds,
             Return(c, kind, w, val) \/ ReturnUtf8(c, kind, w, val)
      PROVE  \/ pc' = "threw" /\ toks' = toks
             \/ pc' = "idle" /\ \E t : toks' = Append(toks, t) /\ Numbered(t)'
  <2>1. Return(c, kind, w, val) \/ (pc' = "threw" /\ toks' = toks)
    BY <1>1 DEF ReturnUtf8
  <2>2. PICK t : t = [kind |-> kind, w |-> w, val |-> val, long |-> tk.long,
                      from |-> tk.from, to |-> c.at - 1]
    OBVIOUS
  <2>3. t.kind = kind
    BY <2>2
  <2>4. Numbered(t)'
    BY <1>1, <2>3 DEF Numbered
  <2> QED
    BY <2>1, <2>2, <2>4 DEF Return
<1>2. ASSUME NEW c, NEW w, NEW str, StringEnd(c, w, str)
      PROVE  \/ pc' = "threw" /\ toks' = toks
             \/ pc' = "idle" /\ \E t : toks' = Append(toks, t) /\ Numbered(t)'
  <2>1. \E full, kind : /\ kind \in StringKinds
                        /\ \/ Return(NextChar(c), kind, full, str)
                           \/ ReturnUtf8(NextChar(c), kind, full, str)
    BY <1>2 DEF StringEnd, StringKinds
  <2> QED
    BY <1>1, <2>1 DEF StringKinds, NumberKinds
<1>3. ASSUME pc = "string", NEW c, NEW ch, StringChar(c, ch)
      PROVE  \/ pc' \notin NumberPc \union {"start"} /\ toks' = toks
             \/ pc' = "idle" /\ \E t : toks' = Append(toks, t) /\ Numbered(t)'
  <2>1. \/ \E w, str : StringEnd(c, w, str)
        \/ \E w, val : ReturnUtf8(NextChar(c), "identifier", w, val)
        \/ pc' = pc /\ toks' = toks
    BY <1>3 DEF StringChar
  <2> QED
    BY <1>1, <1>2, <1>3, <2>1 DEF NumberKinds, NumberPc
<1>4. CASE CommentStart \/ CommentChar \/ IdentStart \/ IdentChar \/ QuoteStart
  <2>1. /\ toks' = toks
        /\ pc' \in {"comment", "ident", "string"}
    BY <1>4 DEF CommentStart, CommentChar, IdentStart, IdentChar, QuoteStart, StringToken
  <2> QED
    BY <2>1 DEF NumberPc
<1>5. CASE CommentEnd \/ Punctuator \/ IdentEnd \/ NewLine \/ EndOfFile \/ Unknown
  <2>1. \E c, kind, w, val : /\ Return(c, kind, w, val)
                             /\ kind \in {"line_comment", "punctuator", "keyword", "identifier", "eol",
                                          "eof", "unknown"}
    BY <1>5 DEF CommentEnd, Punctuator, IdentEnd, NewLine, EndOfFile, Unknown
  <2> QED
    BY <1>1, <2>1 DEF NumberKinds, NumberPc
<1>6. CASE StringClose \/ LongStringClose
  <2>1. \E c, w, str : StringEnd(c, w, str)
    BY <1>6 DEF StringClose, LongStringClose
  <2> QED
    BY <1>2, <2>1 DEF NumberPc
<1>7. CASE LongStringQuote \/ StringPlain \/ HexEscape \/ CharEscape
  <2>1. pc = "string" /\ \E c, ch : StringChar(c, ch)
    BY <1>7 DEF LongStringQuote, AtLongQuote, StringPlain, HexEscape, CharEscape
  <2> QED
    BY <1>3, <2>1
<1>8. CASE NumberDigit \/ NumberStop \/ FractionRange \/ FractionStart \/ ExponentStart
           \/ ExponentDigit \/ ExponentStop
  BY <1>8 DEF NumberDigit, NumberStop, FractionRange, FractionStart, ExponentStart, ExponentDigit,
              ExponentStop, NumberPc
<1> QED
  BY <1>4, <1>5, <1>6, <1>7, <1>8 DEF Lex

LEMMA AllNumberedKept ==
  ASSUME AllNumbered, TokensInv, text' = text,
         \/ toks' = toks
         \/ \E t : toks' = Append(toks, t) /\ Numbered(t)'
  PROVE  AllNumbered'
<1>1. \A u : Given(u) => Numbered(u)'
  <2>1. \A u : Numbered(u) => Numbered(u)'
    BY DEF Numbered, DigitAt, FirstDigit, BaseAt
  <2> QED
    BY <2>1 DEF AllNumbered
<1>2. CASE toks' = toks
  BY <1>1, <1>2 DEF AllNumbered, Given
<1>3. ASSUME NEW t, toks' = Append(toks, t), Numbered(t)'
      PROVE  AllNumbered'
  <2>1. \A u : Given(u)' => Given(u) \/ u = t
    BY <1>3, GivenMore
  <2> QED
    BY <1>1, <1>3, <2>1 DEF AllNumbered
<1> QED
  BY <1>2, <1>3

LEMMA NumberInvStep ==
  ASSUME CursorInv, TokensInv, PlaceInv, NumberInv, [Next]_vars
  PROVE  NumberInv'
<1>1. InText /\ AllNumbered /\ CursorOK(lx) /\ Locals
  BY DEF PlaceInv, NumberInv, CursorInv, TokensInv
<1>2. CASE Begin
  <2>1. pc' = "start" /\ toks' = toks /\ text' = text /\ tk' = Fresh(CurChar(lx))
    BY <1>2 DEF Begin
  <2>2. NumberFields'
    BY <2>1 DEF Fresh, NumberFields
  <2>3. AllNumbered'
    BY <1>1, <2>1, AllNumberedKept
  <2> QED
    BY <2>1, <2>2, <2>3 DEF NumberInv, NumberPc
<1>3. CASE SkipSpace
  <2>1. /\ pc = "start" /\ pc' = "start" /\ toks' = toks /\ text' = text
        /\ \E w, from : tk' = [tk EXCEPT !.w = w, !.from = from]
    BY <1>3 DEF SkipSpace
  <2>2. NumberFields'
    <3>1. DOMAIN tk' = DOMAIN tk
      BY <2>1
    <3> QED
      BY <2>1, <3>1 DEF NumberInv, NumberFields
  <2>3. AllNumbered'
    BY <1>1, <2>1, AllNumberedKept
  <2> QED
    BY <2>1, <2>2, <2>3 DEF NumberInv, NumberPc
<1>4. CASE Lex /\ ~SkipSpace
  <2>1. text' = text
    BY <1>4, LexFrame
  <2>2. CASE NumberGoes
    <3>1. AllNumbered'
      BY <1>1, <2>1, <2>2, AllNumberedKept DEF NumberGoes
    <3> QED
      BY <2>2, <3>1 DEF NumberGoes, NumberInv, NumberPc
  <2>3. CASE NumberStart
    <3>1. pc = "start" /\ lx.cur # NUL
      BY <2>3, TextsAssumption DEF NumberStart, Decimal
    <3>2. At(lx) /\ lx.at <= Len(text) /\ tk.from = lx.at
      BY <1>1, <3>1, Begins DEF InText, Locals, Loaded, CursorInv
    <3>3. NumberGoes
      BY <1>1, <2>1, <2>3, <3>1, <3>2, NumberStartValue DEF NumberInv
    <3> QED
      BY <2>2, <3>3
  <2>4. CASE pc \in NumberPc
    <3>1. InNumber /\ At(lx) /\ (pc = "point" => lx.at <= Len(text))
      BY <1>1, <2>4 DEF NumberInv, Locals, InToken, NumberPc
    <3>2. pc = "e" => lx.at <= Len(text)
      <4>1. pc = "e" => lx.cur # NUL
        BY <3>1, TextsAssumption DEF InNumber
      <4> QED
        BY <3>1, <4>1, LoadedAt DEF At
    <3>3. \/ NumberDigit \/ NumberStop \/ FractionRange \/ FractionStart
          \/ ExponentStart \/ ExponentDigit \/ ExponentStop
      BY <1>4, <2>4
      DEF Lex, SkipSpace, CommentStart, CommentChar, CommentEnd, Punctuator, QuoteStart, StringClose,
          LongStringClose, LongStringQuote, AtLongQuote, StringPlain, HexEscape, CharEscape,
          IdentStart, IdentChar, IdentEnd, NumberStart, NewLine, EndOfFile, Unknown, NumberPc
    <3>4. FractionRange \/ FractionStart => pc = "point"
      BY DEF FractionRange, FractionStart
    <3>5. NumberGoes
      BY <1>1, <2>1, <3>1, <3>2, <3>3, <3>4, NumberDigitValue, NumberStopValue, FractionValue, ExponentValue
    <3> QED
      BY <2>2, <3>5
  <2>5. CASE pc \notin NumberPc /\ ~NumberStart
    <3>1. \/ pc' \notin NumberPc \union {"start"} /\ toks' = toks
          \/ pc' = "idle" /\ \E t : toks' = Append(toks, t) /\ Numbered(t)'
      BY <1>4, <2>5, LexNoNumber
    <3>2. AllNumbered'
      BY <1>1, <2>1, <3>1, AllNumberedKept
    <3> QED
      BY <3>1, <3>2 DEF NumberInv, NumberPc
  <2> QED
    BY <2>3, <2>4, <2>5
<1>5. CASE UNCHANGED vars
  <2>1. text' = text /\ lx' = lx /\ pc' = pc /\ tk' = tk /\ toks' = toks
    BY <1>5 DEF vars
  <2>2. AllNumbered'
    BY <1>1, <2>1, AllNumberedKept
  <2>3. InNumber => InNumber'
    BY <2>1 DEF InNumber, NumberFields, Spelled, ReadTo, DigitAt, FirstDigit, BaseAt
  <2> QED
    BY <2>1, <2>2, <2>3 DEF NumberInv, NumberFields
<1> QED
  BY <1>2, <1>3, <1>4, <1>5 DEF Next, Lex

(* NumberCorrect: the invariant that the theorem below follows from.       *)
LEMMA NumberCorrect == Spec => []NumberInv
<1>1. Init => NumberInv
  <2> SUFFICES ASSUME Init
               PROVE  NumberInv
    OBVIOUS
  <2>1. pc = "idle" /\ Len(toks) = 0
    BY DEF Init
  <2> QED
    BY <2>1 DEF NumberInv, AllNumbered, Given, NumberPc
<1>2. CursorInv /\ TokensInv /\ PlaceInv /\ NumberInv /\ [Next]_vars => NumberInv'
  BY NumberInvStep
<1> QED
  BY <1>1, <1>2, CursorCorrect, TokensCovered, PlaceCorrect, PTL DEF Spec

(* NumbersCorrect: whatever the text, what NumberToken() hands to the      *)
(* conversion is the spelling of the number that Lex() returns, without    *)
(* its base prefix and without its separators, provided a digit of that    *)
(* base follows the prefix.                                                *)
THEOREM NumbersCorrect == Spec => []NumbersOK
<1>1. NumberInv => NumbersOK
  BY DEF NumberInv, AllNumbered, Given, Numbered, DigitAt, NumbersOK, NumberKinds
<1> QED
  BY <1>1, NumberCorrect, PTL

-----------------------------------------------------------------------------
(* How many of a set's elements there are from one number to another.      *)
CountIn(B, a, n) == Cardinality({i \in a..n : i \in B})

LEMMA CountType ==
  ASSUME NEW B, NEW a \in Nat, NEW n \in Int
  PROVE  IsFiniteSet({i \in a..n : i \in B}) /\ CountIn(B, a, n) \in Nat
<1>1. IsFiniteSet(a..n)
  BY FS_Interval
<1>2. {i \in a..n : i \in B} \subseteq a..n
  OBVIOUS
<1>3. IsFiniteSet({i \in a..n : i \in B})
  BY <1>1, <1>2, FS_Subset
<1> QED
  BY <1>3, FS_CardinalityType DEF CountIn

LEMMA CountNone ==
  ASSUME NEW B, NEW a \in Nat, NEW n \in Int, \A i \in a..n : i \notin B
  PROVE  CountIn(B, a, n) = 0
<1>1. {i \in a..n : i \in B} = {}
  OBVIOUS
<1> QED
  BY <1>1, FS_EmptySet DEF CountIn

LEMMA CountStep ==
  ASSUME NEW B, NEW a \in Nat, NEW n \in Int, a <= n + 1
  PROVE  CountIn(B, a, n + 1) = CountIn(B, a, n) + (IF n + 1 \in B THEN 1 ELSE 0)
<1> DEFINE before == {i \in a..n : i \in B}
           after  == {i \in a..(n + 1) : i \in B}
<1>1. IsFiniteSet(before) /\ Cardinality(before) \in Nat
  BY CountType DEF CountIn
<1>2. n + 1 \notin before
  OBVIOUS
<1>3. after = IF n + 1 \in B THEN before \union {n + 1} ELSE before
  OBVIOUS
<1> HIDE DEF before, after
<1>4. Cardinality(before \union {n + 1}) = Cardinality(before) + 1
  BY <1>1, <1>2, FS_AddElement
<1>5. Cardinality(after) = Cardinality(before) + (IF n + 1 \in B THEN 1 ELSE 0)
  BY <1>1, <1>3, <1>4
<1> QED
  BY <1>5 DEF CountIn, before, after

(* Two sets that are alike over a stretch.                                 *)
LEMMA CountAlong ==
  ASSUME NEW B, NEW C, NEW a \in Nat, NEW n \in Int, a <= n + 1, NEW m \in Nat,
         \A k \in 1..m : n + k \in C <=> k \in B
  PROVE  CountIn(C, a, n + m) = CountIn(C, a, n) + CountIn(B, 1, m)
<1> DEFINE S == {k \in 0..m : CountIn(C, a, n + k) = CountIn(C, a, n) + CountIn(B, 1, k)}
<1>1. 0 \in S
  <2>1. \A i \in 1..0 : i \notin B
    OBVIOUS
  <2>2. CountIn(B, 1, 0) = 0
    BY <2>1, CountNone
  <2>3. CountIn(C, a, n) \in Nat
    BY CountType
  <2> QED
    BY <2>2, <2>3
<1>2. ASSUME NEW k \in 1..m, k - 1 \in S
      PROVE  k \in S
  <2>1. PICK l : l = k - 1
    OBVIOUS
  <2>2. l \in Nat /\ k = l + 1 /\ 1 <= l + 1 /\ a <= (n + l) + 1 /\ n + l \in Int /\ (n + l) + 1 = n + k /\ l \in Int
    BY <2>1
  <2>3. CountIn(C, a, n + l) = CountIn(C, a, n) + CountIn(B, 1, l)
    BY <1>2, <2>1
  <2>4. CountIn(C, a, (n + l) + 1) = CountIn(C, a, n + l) + (IF (n + l) + 1 \in C THEN 1 ELSE 0)
    BY <2>2, CountStep
  <2>5. CountIn(B, 1, l + 1) = CountIn(B, 1, l) + (IF l + 1 \in B THEN 1 ELSE 0)
    BY <2>2, CountStep
  <2>6. CountIn(C, a, n) \in Nat /\ CountIn(B, 1, l) \in Nat
    BY <2>2, CountType
  <2>7. n + k \in C <=> k \in B
    BY <1>2
  <2>8. CountIn(C, a, n + k) = CountIn(C, a, n + l) + (IF k \in B THEN 1 ELSE 0)
    BY <2>2, <2>4, <2>7
  <2>9. CountIn(B, 1, k) = CountIn(B, 1, l) + (IF k \in B THEN 1 ELSE 0)
    BY <2>2, <2>5
  <2>10. CountIn(C, a, n + k) = CountIn(C, a, n) + CountIn(B, 1, k)
    BY <2>3, <2>6, <2>8, <2>9
  <2> QED
    BY <2>10
<1> HIDE DEF S
<1>3. 0..m \subseteq S
  BY <1>1, <1>2, UpTo
<1>4. m \in S
  BY <1>3
<1> QED
  BY <1>4 DEF S

-----------------------------------------------------------------------------
(* EscapesCorrect: the escapes of a short string.                          *)

(* The recursive function of the definition is one.                        *)
LEMMA LeftUnfold ==
  ASSUME InText, NEW from \in Nat, NEW i \in 0..Len(text)
  PROVE  /\ EscapeLeft(text, from)[i] \in Nat
         /\ EscapeLeft(text, from)[i] =
              IF i <= from + 1 THEN 0
              ELSE IF EscapeLeft(text, from)[i - 1] # 0 THEN EscapeLeft(text, from)[i - 1] - 1
              ELSE IF text[i - 1] = "\\" THEN EscapeLen(text, i - 1) ELSE 0
<1> DEFINE N == Len(text)
           Next1(n, s) == IF n <= from + 1 THEN 0
                          ELSE IF s # 0 THEN s - 1
                          ELSE IF text[n - 1] = "\\" THEN EscapeLen(text, n - 1) ELSE 0
           step == [q \in (1..N) \X Nat |-> Next1(q[1], q[2])]
           Is(h) == h = [n \in 0..N |-> IF n <= from + 1 THEN 0
                                        ELSE IF h[n - 1] # 0 THEN h[n - 1] - 1
                                        ELSE IF text[n - 1] = "\\" THEN EscapeLen(text, n - 1) ELSE 0]
<1>1. N \in Nat
  BY DEF InText
<1>2. ASSUME NEW n \in 1..N, NEW s \in Nat
      PROVE  Next1(n, s) \in Nat
  <2>1. EscapeLen(text, n - 1) \in Nat
    BY DEF EscapeLen
  <2>2. s # 0 => s - 1 \in Nat
    OBVIOUS
  <2> QED
    BY <2>1, <2>2, Zenon
<1>3. \A n \in 1..N, s \in Nat : Next1(n, s) \in Nat
  BY <1>2
<1> HIDE DEF Next1
<1>4. step \in [(1..N) \X Nat -> Nat] /\ \A n \in 1..N, s \in Nat : step[<<n, s>>] = Next1(n, s)
  BY <1>3
<1>5. PICK f : Iterates(f, Nat, 0, N, step)
  <2> HIDE DEF step, N
  <2> QED
    BY <1>1, <1>4, Recursion
<1>6. /\ f \in [0..N -> Nat] /\ f[0] = 0
      /\ \A n \in 1..N : f[n - 1] \in Nat /\ f[n] = Next1(n, f[n - 1])
  <2>1. \A n \in 1..N : n - 1 \in 0..N
    BY <1>1
  <2> HIDE DEF step
  <2> QED
    BY <1>4, <1>5, <2>1 DEF Iterates
<1>7. Is(f)
  <2>1. ASSUME NEW n \in 0..N
        PROVE  f[n] = IF n <= from + 1 THEN 0
                      ELSE IF f[n - 1] # 0 THEN f[n - 1] - 1
                      ELSE IF text[n - 1] = "\\" THEN EscapeLen(text, n - 1) ELSE 0
    <3>1. CASE n = 0
      <4>1. 0 <= from + 1
        OBVIOUS
      <4> QED
        BY <1>6, <3>1, <4>1
    <3>2. CASE n \in 1..N
      BY <1>6, <3>2, Zenon DEF Next1
    <3>3. n = 0 \/ n \in 1..N
      BY <1>1
    <3> QED
      BY <3>1, <3>2, <3>3
  <2> QED
    BY <1>6, <2>1
<1>8. EscapeLeft(text, from) = CHOOSE h : Is(h)
  BY DEF EscapeLeft
<1> HIDE DEF Is
<1>9. Is(EscapeLeft(text, from))
  BY <1>7, <1>8
<1> HIDE DEF step, N
<1>10. ASSUME NEW h, Is(h)
       PROVE  0..N \subseteq {n \in 0..N : h[n] \in Nat}
  <2> DEFINE S == {n \in 0..N : h[n] \in Nat}
  <2>1. 0 \in S
    <3>1. h[0] = 0
      BY <1>1, <1>10 DEF Is
    <3> QED
      BY <1>1, <3>1
  <2>2. ASSUME NEW n \in 1..N, n - 1 \in S
        PROVE  n \in S
    <3>1. n \in 0..N /\ h[n - 1] \in Nat
      BY <1>1, <2>2
    <3>2. h[n] = Next1(n, h[n - 1])
      BY <1>10, <3>1, Zenon DEF Is, Next1
    <3>3. h[n] \in Nat
      BY <1>3, <3>1, <3>2
    <3> QED
      BY <3>1, <3>3
  <2> HIDE DEF S
  <2>3. 0..N \subseteq S
    BY <1>1, <2>1, <2>2, UpTo
  <2> QED
    BY <2>3 DEF S
<1>11. i \in 0..N
  BY DEF N
<1>12. EscapeLeft(text, from)[i] \in Nat
  BY <1>9, <1>10, <1>11
<1> QED
  BY <1>9, <1>11, <1>12, Zenon DEF Is

(* What EscapesOK counts in a string that begins at f.                     *)
FreshAt(f) == {i \in Nat : EscapeLeft(text, f)[i] = 0}

WrongAt(f) == {i \in Nat : /\ EscapeLeft(text, f)[i - 1] = 0 /\ EscapeLeft(text, f)[i] # 0
                           /\ text[i] \notin {"x", "u", "n", "0", "\\"}}

BadAt(f) == {i \in Nat : /\ EscapeLeft(text, f)[i - 1] # 0 /\ EscapeLeft(text, f)[i] # 0
                         /\ text[i] \notin HexDigit}

(* A character that begins no escape.                                      *)
LEMMA PlainLeft ==
  ASSUME InText, NEW f \in Nat, NEW a \in Nat, f + 1 <= a, a + 1 <= Len(text),
         EscapeLeft(text, f)[a] = 0, text[a] # "\\"
  PROVE  EscapeLeft(text, f)[a + 1] = 0
<1>1. PICK b : b = a + 1
  OBVIOUS
<1>2. b \in 0..Len(text) /\ ~(b <= f + 1) /\ b - 1 = a
  BY <1>1 DEF InText
<1>3. EscapeLeft(text, f)[b] =
        IF b <= f + 1 THEN 0
        ELSE IF EscapeLeft(text, f)[b - 1] # 0 THEN EscapeLeft(text, f)[b - 1] - 1
        ELSE IF text[b - 1] = "\\" THEN EscapeLen(text, b - 1) ELSE 0
  BY <1>2, LeftUnfold
<1> QED
  BY <1>1, <1>2, <1>3, Zenon

(* An escape of m characters after the backslash at a.                     *)
Escape(a, m) == text[a] = "\\" /\ m = EscapeLen(text, a)

(* B tells which of its digits are none.                                   *)
Spoilt(B, a, m) == \A k \in 1..(m - 1) : k \in B <=> text[a + 1 + k] \notin HexDigit

Unknowns == {"x", "u", "n", "0", "\\"}

(* How much is left along an escape.                                       *)
LEMMA EscapeRun ==
  ASSUME InText, NEW f \in Nat, NEW a \in Nat, f + 1 <= a, EscapeLeft(text, f)[a] = 0,
         NEW m, Escape(a, m), a + m <= Len(text)
  PROVE  /\ m \in Nat \ {0}
         /\ \A k \in 1..m : EscapeLeft(text, f)[a + k] = m + 1 - k
         /\ a + m + 1 <= Len(text) => EscapeLeft(text, f)[a + m + 1] = 0
<1> DEFINE L == EscapeLeft(text, f)
           S == {k \in 0..m : k # 0 => L[a + k] = m + 1 - k}
<1>1. m \in Nat \ {0} /\ Len(text) \in Nat
  BY DEF Escape, EscapeLen, InText
<1>2. ASSUME NEW b \in Nat, a < b, b <= Len(text)
      PROVE  L[b] = IF L[b - 1] # 0 THEN L[b - 1] - 1
                    ELSE IF text[b - 1] = "\\" THEN EscapeLen(text, b - 1) ELSE 0
  <2>1. b \in 0..Len(text) /\ ~(b <= f + 1)
    BY <1>1, <1>2
  <2>2. L[b] = IF b <= f + 1 THEN 0
               ELSE IF L[b - 1] # 0 THEN L[b - 1] - 1
               ELSE IF text[b - 1] = "\\" THEN EscapeLen(text, b - 1) ELSE 0
    BY <2>1, LeftUnfold
  <2> QED
    BY <2>1, <2>2, Zenon
<1>3. L[a] = 0
  OBVIOUS
<1> HIDE DEF L
<1>4. 0 \in S
  BY <1>1
<1>5. ASSUME NEW k \in 1..m, k - 1 \in S
      PROVE  k \in S
  <2>1. PICK b : b = a + k
    OBVIOUS
  <2>2. b \in Nat /\ a < b /\ b <= Len(text) /\ b - 1 = a + (k - 1) /\ k \in 0..m /\ k # 0
    BY <1>1, <2>1
  <2>3. L[b] = IF L[b - 1] # 0 THEN L[b - 1] - 1
               ELSE IF text[b - 1] = "\\" THEN EscapeLen(text, b - 1) ELSE 0
    BY <1>2, <2>2
  <2>4. CASE k = 1
    <3>1. b - 1 = a
      BY <2>2, <2>4
    <3>2. L[b] = m
      BY <1>3, <2>3, <3>1, Zenon DEF Escape
    <3> QED
      BY <1>1, <2>1, <2>2, <2>4, <3>2
  <2>5. CASE k # 1
    <3>1. L[b - 1] = m + 1 - (k - 1)
      BY <1>5, <2>2, <2>5
    <3>2. L[b] = m + 1 - k
      BY <1>1, <2>3, <3>1
    <3> QED
      BY <2>1, <2>2, <3>2
  <2> QED
    BY <2>4, <2>5
<1> HIDE DEF S
<1>6. 0..m \subseteq S
  BY <1>1, <1>4, <1>5, UpTo
<1>7. ASSUME NEW k \in 1..m
      PROVE  L[a + k] = m + 1 - k
  <2>1. k \in 0..m /\ k # 0
    BY <1>1
  <2>2. k \in S
    BY <1>6, <2>1
  <2> QED
    BY <2>1, <2>2 DEF S
<1>8. ASSUME a + m + 1 <= Len(text)
      PROVE  L[a + m + 1] = 0
  <2>1. PICK b : b = a + m + 1
    OBVIOUS
  <2>2. b \in Nat /\ a < b /\ b <= Len(text) /\ b - 1 = a + m
    BY <1>1, <1>8, <2>1
  <2>3. L[b] = IF L[b - 1] # 0 THEN L[b - 1] - 1
               ELSE IF text[b - 1] = "\\" THEN EscapeLen(text, b - 1) ELSE 0
    BY <1>2, <2>2
  <2>4. L[b - 1] = 1
    BY <1>1, <1>7, <2>2
  <2> QED
    BY <2>1, <2>3, <2>4
<1> QED
  BY <1>1, <1>7, <1>8 DEF L

(* What one character that begins no escape adds to the counts.            *)
LEMMA PlainCounts ==
  ASSUME InText, NEW f \in Nat, NEW a \in Nat, f + 1 <= a, EscapeLeft(text, f)[a] = 0, NEW n \in Nat, a = n + 1
  PROVE  /\ CountIn(FreshAt(f), f + 1, a) = CountIn(FreshAt(f), f + 1, n) + 1
         /\ CountIn(WrongAt(f), f + 1, a) = CountIn(WrongAt(f), f + 1, n)
         /\ CountIn(BadAt(f), f + 1, a) = CountIn(BadAt(f), f + 1, n)
<1>1. n + 1 \in FreshAt(f) /\ n + 1 \notin WrongAt(f) /\ n + 1 \notin BadAt(f)
  BY DEF FreshAt, WrongAt, BadAt
<1>2. f + 1 \in Nat /\ f + 1 <= n + 1 /\ n \in Int
  OBVIOUS
<1>3. \A B : CountIn(B, f + 1, n) \in Nat
  BY <1>2, CountType
<1>4. \A B : CountIn(B, f + 1, n + 1) = CountIn(B, f + 1, n) + (IF n + 1 \in B THEN 1 ELSE 0)
  BY <1>2, CountStep
<1> QED
  BY <1>1, <1>3, <1>4

(* What an escape adds to them.                                            *)
LEMMA EscapeCounts ==
  ASSUME InText, NEW f \in Nat, NEW a \in Nat, f + 1 <= a, EscapeLeft(text, f)[a] = 0,
         NEW m, Escape(a, m), a + m <= Len(text), NEW B, Spoilt(B, a, m)
  PROVE  \A n \in Nat : a = n + 1 =>
           /\ CountIn(FreshAt(f), f + 1, a + m) = CountIn(FreshAt(f), f + 1, n) + 1
           /\ CountIn(WrongAt(f), f + 1, a + m) =
                CountIn(WrongAt(f), f + 1, n) + (IF text[a + 1] \notin Unknowns THEN 1 ELSE 0)
           /\ CountIn(BadAt(f), f + 1, a + m) = CountIn(BadAt(f), f + 1, n) + CountIn(B, 1, m - 1)
<1>1. /\ m \in Nat \ {0}
      /\ \A k \in 1..m : EscapeLeft(text, f)[a + k] = m + 1 - k
  BY EscapeRun
<1> SUFFICES ASSUME NEW n \in Nat, a = n + 1
             PROVE  /\ CountIn(FreshAt(f), f + 1, a + m) = CountIn(FreshAt(f), f + 1, n) + 1
                    /\ CountIn(WrongAt(f), f + 1, a + m) =
                         CountIn(WrongAt(f), f + 1, n) + (IF text[a + 1] \notin Unknowns THEN 1 ELSE 0)
                    /\ CountIn(BadAt(f), f + 1, a + m) =
                         CountIn(BadAt(f), f + 1, n) + CountIn(B, 1, m - 1)
  OBVIOUS
<1>2. PICK l, b, g : l = m - 1 /\ b = a + 1 /\ g = f + 1
  OBVIOUS
<1>3. /\ l \in Nat /\ b \in Nat /\ b = a + 1 /\ a + m = b + l /\ g \in Nat
      /\ g <= a + 1 /\ g <= b + 1 /\ a \in Int /\ b \in Int
  BY <1>1, <1>2
<1>4. /\ \A C : CountIn(C, g, n) \in Nat
      /\ \A C : CountIn(C, g, a) \in Nat
      /\ \A C : CountIn(C, g, b) \in Nat
      /\ \A C : CountIn(C, 1, l) \in Nat
  <2>1. g \in Nat /\ 1 \in Nat /\ n \in Int /\ a \in Int /\ b \in Int /\ l \in Int
    BY <1>3
  <2>2. \A C : CountIn(C, g, n) \in Nat
    BY <2>1, CountType
  <2>3. \A C : CountIn(C, g, a) \in Nat
    BY <2>1, CountType
  <2>4. \A C : CountIn(C, g, b) \in Nat
    BY <2>1, CountType
  <2>5. \A C : CountIn(C, 1, l) \in Nat
    BY <2>1, CountType
  <2> QED
    BY <2>2, <2>3, <2>4, <2>5
<1>5. /\ CountIn(FreshAt(f), g, a) = CountIn(FreshAt(f), g, n) + 1
      /\ CountIn(WrongAt(f), g, a) = CountIn(WrongAt(f), g, n)
      /\ CountIn(BadAt(f), g, a) = CountIn(BadAt(f), g, n)
  BY <1>2, PlainCounts
<1>6. EscapeLeft(text, f)[b] # 0 /\ b - 1 = a
  <2>1. EscapeLeft(text, f)[a + 1] = m + 1 - 1
    BY <1>1
  <2> QED
    BY <1>1, <1>3, <2>1
<1>7. ASSUME NEW k \in 1..l
      PROVE  /\ b + k \in Nat /\ EscapeLeft(text, f)[b + k] # 0 /\ EscapeLeft(text, f)[(b + k) - 1] # 0
             /\ a + 1 + k = b + k
  <2>1. PICK j : j = k + 1
    OBVIOUS
  <2>2. j \in 1..m /\ k \in 1..m /\ a + j = b + k /\ a + k = (b + k) - 1 /\ b + k \in Nat /\ a + 1 + k = b + k
    BY <1>1, <1>2, <1>3, <2>1
  <2>3. EscapeLeft(text, f)[a + j] = m + 1 - j /\ EscapeLeft(text, f)[a + k] = m + 1 - k
    BY <1>1, <2>2
  <2>4. m + 1 - j # 0 /\ m + 1 - k # 0
    BY <1>1, <2>2
  <2> QED
    BY <2>2, <2>3, <2>4
<1>8. \A C : CountIn(C, g, a + 1) = CountIn(C, g, a) + (IF a + 1 \in C THEN 1 ELSE 0)
  BY <1>3, CountStep
<1>9. /\ b \notin FreshAt(f) /\ b \notin BadAt(f)
      /\ b \in WrongAt(f) <=> text[a + 1] \notin Unknowns
  <2>1. EscapeLeft(text, f)[b - 1] = 0
    BY <1>6
  <2> QED
    BY <1>3, <1>6, <2>1 DEF FreshAt, WrongAt, BadAt, Unknowns
<1>10. /\ CountIn(FreshAt(f), g, b) = CountIn(FreshAt(f), g, a)
       /\ CountIn(BadAt(f), g, b) = CountIn(BadAt(f), g, a)
       /\ CountIn(WrongAt(f), g, b) =
            CountIn(WrongAt(f), g, a) + (IF text[a + 1] \notin Unknowns THEN 1 ELSE 0)
  <2>1. \A C : CountIn(C, g, b) = CountIn(C, g, a) + (IF b \in C THEN 1 ELSE 0)
    BY <1>3, <1>8
  <2> QED
    BY <1>4, <1>9, <2>1
<1>11. PICK E : E = {}
  OBVIOUS
<1>16. (\A k : k \notin E) /\ CountIn(E, 1, l) = 0
  <2>1. \A k : k \notin E
    BY <1>11
  <2> QED
    BY <1>3, <2>1, CountNone
<1>12. CountIn(FreshAt(f), g, b + l) = CountIn(FreshAt(f), g, b) + CountIn(E, 1, l)
  <2>1. \A k \in 1..l : b + k \in FreshAt(f) <=> k \in E
    BY <1>7, <1>16 DEF FreshAt
  <2> QED
    BY <1>3, <2>1, CountAlong
<1>13. CountIn(WrongAt(f), g, b + l) = CountIn(WrongAt(f), g, b) + CountIn(E, 1, l)
  <2>1. \A k \in 1..l : b + k \in WrongAt(f) <=> k \in E
    BY <1>7, <1>16 DEF WrongAt
  <2> QED
    BY <1>3, <2>1, CountAlong
<1>14. CountIn(BadAt(f), g, b + l) = CountIn(BadAt(f), g, b) + CountIn(B, 1, l)
  <2>1. ASSUME NEW k \in 1..l
        PROVE  b + k \in BadAt(f) <=> k \in B
    <3>1. k \in B <=> text[b + k] \notin HexDigit
      BY <1>2, <1>7, <2>1 DEF Spoilt
    <3> QED
      BY <1>7, <3>1 DEF BadAt
  <2> QED
    BY <1>3, <2>1, CountAlong
<1>15. /\ CountIn(FreshAt(f), g, b + l) = CountIn(FreshAt(f), g, n) + 1
       /\ CountIn(WrongAt(f), g, b + l) =
            CountIn(WrongAt(f), g, n) + (IF text[a + 1] \notin Unknowns THEN 1 ELSE 0)
       /\ CountIn(BadAt(f), g, b + l) = CountIn(BadAt(f), g, n) + CountIn(B, 1, l)
  <2>1. CountIn(FreshAt(f), g, b + l) = CountIn(FreshAt(f), g, n) + 1
    BY <1>4, <1>5, <1>10, <1>12, <1>16
  <2>2. CountIn(WrongAt(f), g, b + l) = CountIn(WrongAt(f), g, b)
    BY <1>4, <1>13, <1>16
  <2>3. CountIn(WrongAt(f), g, b + l) =
            CountIn(WrongAt(f), g, n) + (IF text[a + 1] \notin Unknowns THEN 1 ELSE 0)
    BY <1>5, <1>10, <2>2
  <2>4. CountIn(BadAt(f), g, b + l) = CountIn(BadAt(f), g, n) + CountIn(B, 1, l)
    BY <1>4, <1>5, <1>10, <1>14
  <2> QED
    BY <2>1, <2>3, <2>4
<1> QED
  BY <1>2, <1>3, <1>15
-----------------------------------------------------------------------------
(* The diagnostics of one kind for the token that begins at f.             *)
Hits(d, id, f) == {i \in 1..Len(d) : d[i].id = id /\ d[i].from = f}

LEMMA HitsFinite ==
  ASSUME NEW S, NEW d \in Seq(S), NEW id, NEW f
  PROVE  IsFiniteSet(Hits(d, id, f)) /\ Cardinality(Hits(d, id, f)) \in Nat
<1>1. IsFiniteSet(1..Len(d))
  BY FS_Interval
<1>2. Hits(d, id, f) \subseteq 1..Len(d)
  BY DEF Hits
<1> QED
  BY <1>1, <1>2, FS_Subset, FS_CardinalityType

LEMMA HitsAppend ==
  ASSUME NEW S, NEW d \in Seq(S), NEW r, NEW id, NEW f
  PROVE  Cardinality(Hits(Append(d, r), id, f)) =
           Cardinality(Hits(d, id, f)) + (IF r.id = id /\ r.from = f THEN 1 ELSE 0)
<1> DEFINE n == Len(d) + 1
           more == Append(d, r)
<1>1. d \in Seq(S \union {r}) /\ r \in S \union {r}
  OBVIOUS
<1>2. /\ Len(d) \in Nat /\ Len(more) = n /\ more[n] = r
      /\ \A i \in 1..Len(d) : more[i] = d[i]
  BY <1>1
<1> HIDE DEF more
<1>3. Hits(more, id, f) = IF r.id = id /\ r.from = f THEN Hits(d, id, f) \union {n} ELSE Hits(d, id, f)
  <2>1. \A i : i \in 1..n <=> i \in 1..Len(d) \/ i = n
    BY <1>2
  <2>2. n \notin 1..Len(d)
    BY <1>2
  <2> HIDE DEF n
  <2>3. \A i : i \in Hits(more, id, f) <=> i \in Hits(d, id, f) \/ (i = n /\ r.id = id /\ r.from = f)
    BY <1>2, <2>1, <2>2 DEF Hits
  <2> QED
    BY <2>3
<1>4. n \notin Hits(d, id, f)
  BY <1>2 DEF Hits
<1>5. IsFiniteSet(Hits(d, id, f)) /\ Cardinality(Hits(d, id, f)) \in Nat
  BY HitsFinite
<1>6. Cardinality(Hits(d, id, f) \union {n}) = Cardinality(Hits(d, id, f)) + 1
  BY <1>4, <1>5, FS_AddElement
<1> QED
  BY <1>3, <1>5, <1>6 DEF more

LEMMA ConcatLast ==
  ASSUME NEW S, NEW d \in Seq(S), NEW u \in Seq(S), NEW r \in S
  PROVE  d \o Append(u, r) = Append(d \o u, r)
<1>1. Append(u, r) = u \o <<r>> /\ Append(d \o u, r) = (d \o u) \o <<r>>
  BY AppendIsConcat, ConcatProperties
<1>2. <<r>> \in Seq(S)
  OBVIOUS
<1> QED
  BY <1>1, <1>2, ConcatAssociative

(* Several diagnostics that are the same.                                  *)
Copies(m, r) == [i \in 1..m |-> r]

LEMMA HitsConcat ==
  ASSUME NEW S, NEW d \in Seq(S), NEW m \in Nat, NEW r, NEW id, NEW f
  PROVE  Cardinality(Hits(d \o Copies(m, r), id, f)) =
           Cardinality(Hits(d, id, f)) + (IF r.id = id /\ r.from = f THEN m ELSE 0)
<1> DEFINE T == {k \in 0..m : /\ d \o [i \in 1..k |-> r] \in Seq(S \union {r})
                              /\ Cardinality(Hits(d \o [i \in 1..k |-> r], id, f)) =
                                   Cardinality(Hits(d, id, f)) + (IF r.id = id /\ r.from = f THEN k ELSE 0)}
<1>0. Cardinality(Hits(d, id, f)) \in Nat /\ d \in Seq(S \union {r}) /\ r \in S \union {r}
  BY HitsFinite
<1>1. 0 \in T
  <2>1. [i \in 1..0 |-> r] = << >>
    OBVIOUS
  <2>2. d \o [i \in 1..0 |-> r] = d
    BY <2>1
  <2> QED
    BY <1>0, <2>2
<1>2. ASSUME NEW k \in 1..m, k - 1 \in T
      PROVE  k \in T
  <2>1. PICK j : j = k - 1
    OBVIOUS
  <2>2. j \in Nat /\ k = j + 1
    BY <2>1
  <2>3. d \o [i \in 1..k |-> r] = Append(d \o [i \in 1..j |-> r], r)
    <3>1. /\ [i \in 1..j |-> r] \in Seq(S \union {r}) /\ Len([i \in 1..j |-> r]) = j
          /\ [i \in 1..k |-> r] = Append([i \in 1..j |-> r], r)
      BY <1>0, <2>2
    <3>2. PICK u : u = [i \in 1..j |-> r]
      OBVIOUS
    <3>3. d \o Append(u, r) = Append(d \o u, r)
      <4>1. PICK R : R = S \union {r}
        OBVIOUS
      <4>2. d \in Seq(R) /\ u \in Seq(R) /\ r \in R
        BY <1>0, <3>1, <3>2, <4>1
      <4> QED
        BY <4>2, ConcatLast
    <3> QED
      BY <3>1, <3>2, <3>3
  <2>4. PICK e : e = d \o [i \in 1..j |-> r]
    OBVIOUS
  <2>5. /\ e \in Seq(S \union {r})
        /\ Cardinality(Hits(e, id, f)) =
             Cardinality(Hits(d, id, f)) + (IF r.id = id /\ r.from = f THEN j ELSE 0)
    BY <1>2, <2>1, <2>4
  <2>6. Cardinality(Hits(Append(e, r), id, f)) =
          Cardinality(Hits(e, id, f)) + (IF r.id = id /\ r.from = f THEN 1 ELSE 0)
    BY <2>5, HitsAppend
  <2>7. Append(e, r) \in Seq(S \union {r})
    BY <1>0, <2>5
  <2>8. Cardinality(Hits(Append(e, r), id, f)) =
          Cardinality(Hits(d, id, f)) + (IF r.id = id /\ r.from = f THEN k ELSE 0)
    BY <1>0, <2>2, <2>5, <2>6
  <2> HIDE DEF T
  <2>9. PICK g : g = d \o [i \in 1..k |-> r]
    OBVIOUS
  <2>10. g = Append(e, r)
    BY <2>3, <2>4, <2>9
  <2>11. g \in Seq(S \union {r}) /\ Cardinality(Hits(g, id, f)) =
          Cardinality(Hits(d, id, f)) + (IF r.id = id /\ r.from = f THEN k ELSE 0)
    BY <2>7, <2>8, <2>10
  <2>12. k \in 0..m
    OBVIOUS
  <2> QED
    BY <2>9, <2>11, <2>12, Zenon DEF T
<1> HIDE DEF T
<1>3. 0..m \subseteq T
  BY <1>1, <1>2, UpTo
<1>4. m \in T
  BY <1>3
<1> QED
  BY <1>4 DEF T, Copies

(* A step's diagnostics do not touch the tokens before.                    *)
LEMMA HitsKept ==
  ASSUME NEW S, diags \in Seq(S), Added(diags'), NEW id, NEW f, f # tk.from
  PROVE  Hits(diags, id, f)' = Hits(diags, id, f)
<1>1. /\ Len(diags) \in Nat /\ Len(diags') \in Nat /\ Len(diags) <= Len(diags')
      /\ \A i \in 1..Len(diags) : diags'[i] = diags[i]
      /\ \A i \in (Len(diags) + 1)..Len(diags') : diags'[i].from = tk.from
  BY DEF Added, Grown
<1>2. \A i \in 1..Len(diags') : i \in 1..Len(diags) \/ i \in (Len(diags) + 1)..Len(diags')
  BY <1>1
<1>3. \A i \in 1..Len(diags) : i \in 1..Len(diags')
  BY <1>1
<1> QED
  BY <1>1, <1>2, <1>3 DEF Hits
-----------------------------------------------------------------------------
(* What EscapesOK says of a string that begins at f, read up to n: its     *)
(* value is str, the diagnostics are d.                                    *)
Escaped(str, d, f, n) ==
  /\ n + 1 <= Len(text) => EscapeLeft(text, f)[n + 1] = 0
  /\ Len(str) = CountIn(FreshAt(f), f + 1, n)
  /\ Cardinality(Hits(d, "bad_escape_sequence", f)) = CountIn(WrongAt(f), f + 1, n)
  /\ Cardinality(Hits(d, "bad_hex_digit", f)) = CountIn(BadAt(f), f + 1, n)

EscapedToken(t) ==
  t.kind \in StringKinds /\ ~t.long /\ ~EmptyString(t.from) /\ ~Unterminated(t)
    => /\ t.from \in Nat /\ t.to \in 1..Len(text)
       /\ Escaped(t.val, diags, t.from, t.to - 1)

Short == ~tk.long /\ ~EmptyString(tk.from)

InEscapes ==
  /\ \E S : tk.str \in Seq(S)
  /\ Short => Escaped(tk.str, diags, tk.from, lx.at - 1)

(* What a step within a string does.                                       *)
EscapesGo ==
  \/ pc' = "threw" /\ toks' = toks
  \/ pc' = "idle" /\ \E t : toks' = Append(toks, t) /\ EscapedToken(t)'
  \/ pc' = "string" /\ toks' = toks /\ InEscapes'

LEMMA EscapedPrime ==
  ASSUME text' = text, NEW str, NEW f, NEW n
  PROVE  Escaped(str, diags, f, n)' <=> Escaped(str, diags', f, n)
BY DEF Escaped, FreshAt, WrongAt, BadAt, Hits

(* One more character, which begins no escape.                             *)
LEMMA EscapedPlain ==
  ASSUME InText, NEW f \in Nat, NEW a \in Nat, f + 1 <= a, a + 1 <= Len(text), text[a] # "\\",
         NEW S, NEW str \in Seq(S), NEW ch, NEW d
  PROVE  Escaped(str, d, f, a - 1) => Escaped(Append(str, ch), d, f, a)
<1> SUFFICES ASSUME Escaped(str, d, f, a - 1)
             PROVE  Escaped(Append(str, ch), d, f, a)
  OBVIOUS
<1>1. PICK n : n = a - 1
  OBVIOUS
<1>2. n \in Nat /\ a = n + 1 /\ a <= Len(text)
  BY <1>1 DEF InText
<1>3. EscapeLeft(text, f)[a] = 0
  BY <1>1, <1>2 DEF Escaped
<1>4. EscapeLeft(text, f)[a + 1] = 0
  BY <1>3, PlainLeft
<1>5. /\ CountIn(FreshAt(f), f + 1, a) = CountIn(FreshAt(f), f + 1, n) + 1
      /\ CountIn(WrongAt(f), f + 1, a) = CountIn(WrongAt(f), f + 1, n)
      /\ CountIn(BadAt(f), f + 1, a) = CountIn(BadAt(f), f + 1, n)
  BY <1>2, <1>3, PlainCounts
<1>6. Len(Append(str, ch)) = Len(str) + 1
  <2>1. str \in Seq(S \union {ch}) /\ ch \in S \union {ch}
    OBVIOUS
  <2> QED
    BY <2>1
<1> QED
  BY <1>1, <1>4, <1>5, <1>6 DEF Escaped

(* One more character, which an escape stands for.                         *)
LEMMA EscapedMore ==
  ASSUME InText, NEW f \in Nat, NEW a \in Nat, f + 1 <= a, NEW m, Escape(a, m), NEW z, z = a + m,
         z + 1 <= Len(text), NEW B, Spoilt(B, a, m), NEW S, NEW str \in Seq(S), NEW ch, NEW d, NEW e,
         Cardinality(Hits(e, "bad_escape_sequence", f)) =
           Cardinality(Hits(d, "bad_escape_sequence", f)) + (IF text[a + 1] \notin Unknowns THEN 1 ELSE 0),
         Cardinality(Hits(e, "bad_hex_digit", f)) =
           Cardinality(Hits(d, "bad_hex_digit", f)) + CountIn(B, 1, m - 1)
  PROVE  Escaped(str, d, f, a - 1) => Escaped(Append(str, ch), e, f, z)
<1> SUFFICES ASSUME Escaped(str, d, f, a - 1)
             PROVE  Escaped(Append(str, ch), e, f, z)
  OBVIOUS
<1>0. m \in Nat \ {0} /\ Len(text) \in Nat
  BY DEF Escape, EscapeLen, InText
<1>1. PICK n : n = a - 1
  OBVIOUS
<1>2. n \in Nat /\ a = n + 1 /\ a <= Len(text) /\ a + m <= Len(text) /\ a + m + 1 = z + 1
  BY <1>0, <1>1
<1>3. EscapeLeft(text, f)[a] = 0
  <2>1. n + 1 <= Len(text)
    BY <1>2
  <2>2. EscapeLeft(text, f)[n + 1] = 0
    BY <1>1, <2>1 DEF Escaped
  <2> QED
    BY <1>2, <2>2
<1>4. EscapeLeft(text, f)[z + 1] = 0
  <2>1. a + m <= Len(text)
    BY <1>2
  <2>2. a + m + 1 <= Len(text) => EscapeLeft(text, f)[a + m + 1] = 0
    BY <1>3, <2>1, EscapeRun
  <2> QED
    BY <1>2, <2>2
<1>5. /\ CountIn(FreshAt(f), f + 1, a + m) = CountIn(FreshAt(f), f + 1, n) + 1
      /\ CountIn(WrongAt(f), f + 1, a + m) =
           CountIn(WrongAt(f), f + 1, n) + (IF text[a + 1] \notin Unknowns THEN 1 ELSE 0)
      /\ CountIn(BadAt(f), f + 1, a + m) = CountIn(BadAt(f), f + 1, n) + CountIn(B, 1, m - 1)
  <2>1. a + m <= Len(text)
    BY <1>2
  <2>2. \A k \in Nat : a = k + 1 =>
           /\ CountIn(FreshAt(f), f + 1, a + m) = CountIn(FreshAt(f), f + 1, k) + 1
           /\ CountIn(WrongAt(f), f + 1, a + m) =
                CountIn(WrongAt(f), f + 1, k) + (IF text[a + 1] \notin Unknowns THEN 1 ELSE 0)
           /\ CountIn(BadAt(f), f + 1, a + m) = CountIn(BadAt(f), f + 1, k) + CountIn(B, 1, m - 1)
    BY <1>3, <2>1, EscapeCounts
  <2> QED
    BY <1>2, <2>2
<1>6. Len(Append(str, ch)) = Len(str) + 1
  <2>1. str \in Seq(S \union {ch}) /\ ch \in S \union {ch}
    OBVIOUS
  <2> QED
    BY <2>1
<1>7. /\ Len(str) = CountIn(FreshAt(f), f + 1, n)
      /\ Cardinality(Hits(d, "bad_escape_sequence", f)) = CountIn(WrongAt(f), f + 1, n)
      /\ Cardinality(Hits(d, "bad_hex_digit", f)) = CountIn(BadAt(f), f + 1, n)
  BY <1>1 DEF Escaped
<1>8. PICK y : y = a + m
  OBVIOUS
<1>9. y = z
  BY <1>8
<1> QED
  BY <1>4, <1>5, <1>6, <1>7, <1>8, <1>9 DEF Escaped
LEMMA ReadChar ==
  ASSUME InText, NEW c, Loaded(c)
  PROVE  c.at <= Len(text) => c.cur = text[c.at] /\ c.at <= c.taken
<1>1. c.at \in 1..(Len(text) + 1) /\ c.valid \in 1..2
  BY LoadedAt
<1> QED
  BY <1>1 DEF Loaded, CursorOK, LookaheadOK, CharAt, InText

(* Characters that are read before the last one of the text.               *)
LEMMA NextWithin ==
  ASSUME InText, NEW c, Loaded(c), NextChar(c).at <= Len(text)
  PROVE  /\ Loaded(NextChar(c)) /\ c.at \in Nat /\ c.at <= Len(text) /\ NextChar(c).at = c.at + 1
         /\ NextChar(c).cur = text[c.at + 1] /\ NextChar(c).valid = 1
<1> DEFINE n == NextChar(c)
<1>1. Loaded(n) /\ n.valid = 1 /\ n.at = IF c.at <= Len(text) THEN c.at + 1 ELSE c.at
  BY NextCharMeans DEF InText
<1>2. c.at \in Nat /\ Len(text) \in Nat /\ n.at <= Len(text)
  BY LoadedAt DEF InText
<1> HIDE DEF n
<1>3. c.at <= Len(text) /\ n.at = c.at + 1
  BY <1>1, <1>2
<1>4. n.cur = text[n.at]
  BY <1>1, <1>2 DEF Loaded, CursorOK, LookaheadOK, CharAt
<1> QED
  BY <1>1, <1>2, <1>3, <1>4 DEF n

(* The source has more than the character at the cursor.                   *)
LEMMA HasMoreBehind ==
  ASSUME InText, NEW c, Loaded(c), SourceHasMore(c)
  PROVE  c.at \in Nat /\ c.at + 1 <= Len(text)
<1>1. c.at \in 1..(Len(text) + 1) /\ Len(text) \in Nat
  BY LoadedAt DEF InText
<1>2. c.taken \in Nat /\ c.taken < Len(text)
  BY DEF Loaded, CursorOK, CursorType, SourceHasMore, LookaheadOK
<1>3. c.at <= Len(text) => c.at <= c.taken
  BY ReadChar
<1>4. c.at <= Len(text)
  BY HasMoreAt
<1> QED
  BY <1>1, <1>2, <1>3, <1>4

LEMMA CharEscapes ==
  ASSUME InText, InString, InEscapes, text' = text, pc = "string", NEW c, NEW ch, StringChar(c, ch),
         Loaded(c), NEW S, NEW d \in Seq(S), diags' = IfUnterminated(c, d),
         SourceHasMore(c) /\ Short => Escaped(Append(tk.str, ch), d, tk.from, c.at)
  PROVE  EscapesGo
<1>1. CASE ~SourceHasMore(c)
  <2>1. \A t : Unterminated(t)' => EscapedToken(t)'
    BY DEF EscapedToken
  <2> QED
    BY <1>1, <2>1, CutShort, StringCutValue DEF EscapesGo
<1>2. CASE SourceHasMore(c)
  <2>1. \A t : t.kind \notin StringKinds => EscapedToken(t)'
    BY DEF EscapedToken
  <2>2. CASE /\ pc' = "string" /\ toks' = toks /\ lx' = NextChar(c) /\ lx'.at = c.at + 1
             /\ Fields' /\ tk'.from = tk.from /\ tk'.quote = tk.quote /\ tk'.long = tk.long
             /\ tk'.str = Append(tk.str, ch)
    <3>1. lx'.at - 1 = c.at /\ diags' = d
      BY <1>2, <2>2, LoadedAt DEF IfUnterminated
    <3>2. PICK T : tk.str \in Seq(T)
      BY DEF InEscapes
    <3>3. Append(tk.str, ch) \in Seq(T \union {ch})
      BY <3>2
    <3>4. Short' <=> Short
      BY <2>2 DEF Short, EmptyString, OpensLong, IsQuote
    <3>5. PICK str, f, n : str = Append(tk.str, ch) /\ f = tk.from /\ n = c.at
      OBVIOUS
    <3>6. Short => Escaped(str, diags, f, n)'
      BY <1>2, <3>1, <3>5, EscapedPrime
    <3>7. str = tk'.str /\ f = tk'.from /\ n = lx'.at - 1
      BY <2>2, <3>1, <3>5
    <3>8. Short => Escaped(tk.str, diags, tk.from, lx.at - 1)'
      BY <3>6, <3>7 DEF Escaped, FreshAt, WrongAt, BadAt
    <3> QED
      BY <2>2, <3>3, <3>4, <3>8 DEF EscapesGo, InEscapes
  <2>3. Fields
    BY DEF InString
  <2> QED
    BY <1>2, <2>1, <2>2, <2>3, StringCharValue DEF EscapesGo
<1> QED
  BY <1>1, <1>2

LEMMA ShortPlace ==
  ASSUME InText, InString, At(lx), Short
  PROVE  /\ tk.from \in Nat /\ lx.at \in Nat /\ tk.from + 1 <= lx.at
         /\ tk.quote = text[tk.from]
<1>1. tk.from \in Nat /\ lx.at \in Nat
  BY LoadedAt DEF At
<1> QED
  BY <1>1 DEF InString, Short, QuoteLen

LEMMA PlainEscapes ==
  ASSUME InText, InString, InEscapes, At(lx), text' = text, StringPlain, NEW S, diags \in Seq(S)
  PROVE  EscapesGo
<1>1. /\ pc = "string" /\ StringChar(lx, lx.cur) /\ diags' = IfUnterminated(lx, diags)
      /\ lx.cur # "\\" /\ Loaded(lx)
  BY DEF StringPlain, At
<1>2. ASSUME SourceHasMore(lx), Short
      PROVE  Escaped(Append(tk.str, lx.cur), diags, tk.from, lx.at)
  <2>1. lx.at \in Nat /\ lx.at + 1 <= Len(text)
    BY <1>1, <1>2, HasMoreBehind
  <2>2. lx.cur = text[lx.at]
    BY <1>1, <2>1, ReadChar
  <2>3. tk.from \in Nat /\ tk.from + 1 <= lx.at
    BY <1>2, ShortPlace
  <2>4. PICK T : tk.str \in Seq(T)
    BY DEF InEscapes
  <2>5. Escaped(tk.str, diags, tk.from, lx.at - 1)
    BY <1>2 DEF InEscapes
  <2> QED
    BY <1>1, <2>1, <2>2, <2>3, <2>4, <2>5, EscapedPlain
<1> QED
  BY <1>1, <1>2, CharEscapes

LEMMA CharEscapeGoes ==
  ASSUME InText, InString, InEscapes, At(lx), text' = text, CharEscape, NEW S, diags \in Seq(S)
  PROVE  EscapesGo
<1> DEFINE e == NextChar(lx)
           good == {"n", "0", "\\"}
<1>1. PICK r : r = [id |-> "bad_escape_sequence", from |-> tk.from]
  OBVIOUS
<1>2. r.id = "bad_escape_sequence" /\ r.from = tk.from
  BY <1>1
<1>3. PICK ch, d : /\ pc = "string" /\ lx.cur = "\\" /\ e.cur \notin {"x", "u"}
                   /\ StringChar(e, ch) /\ diags' = IfUnterminated(e, d)
                   /\ d = IF e.cur \in good THEN diags ELSE Append(diags, r)
  BY <1>1 DEF CharEscape
<1>4. d \in Seq(S \union {r})
  BY <1>3
<1>5. Loaded(lx) /\ Loaded(e)
  BY NextCharMeans DEF At, InText
<1> HIDE DEF e
<1>6. ASSUME SourceHasMore(e), Short
      PROVE  Escaped(Append(tk.str, ch), d, tk.from, e.at)
  <2>1. e.at \in Nat /\ e.at + 1 <= Len(text) /\ Len(text) \in Nat
    BY <1>5, <1>6, HasMoreBehind DEF InText
  <2>2. e.at <= Len(text)
    BY <2>1
  <2>3. lx.at \in Nat /\ lx.at <= Len(text) /\ e.at = lx.at + 1 /\ e.cur = text[lx.at + 1]
    BY <1>5, <2>2, NextWithin DEF e
  <2>4. text[lx.at] = "\\"
    BY <1>3, <1>5, <2>3, ReadChar
  <2>5. Escape(lx.at, 1)
    BY <1>3, <2>3, <2>4 DEF Escape, EscapeLen
  <2>6. Spoilt({}, lx.at, 1)
    BY DEF Spoilt
  <2>7. tk.from \in Nat /\ tk.from + 1 <= lx.at
    BY <1>6, ShortPlace
  <2>8. PICK T : tk.str \in Seq(T)
    BY DEF InEscapes
  <2>9. Escaped(tk.str, diags, tk.from, lx.at - 1)
    BY <1>6 DEF InEscapes
  <2>10. Cardinality(Hits(d, "bad_escape_sequence", tk.from)) =
           Cardinality(Hits(diags, "bad_escape_sequence", tk.from))
             + (IF text[lx.at + 1] \notin Unknowns THEN 1 ELSE 0)
    <3>1. Cardinality(Hits(diags, "bad_escape_sequence", tk.from)) \in Nat
      BY HitsFinite
    <3>2. e.cur \in good <=> text[lx.at + 1] \in Unknowns
      BY <1>3, <2>3 DEF Unknowns
    <3>3. Cardinality(Hits(Append(diags, r), "bad_escape_sequence", tk.from)) =
            Cardinality(Hits(diags, "bad_escape_sequence", tk.from)) + 1
      BY <1>2, HitsAppend
    <3> QED
      BY <1>3, <3>1, <3>2, <3>3
  <2>11. Cardinality(Hits(d, "bad_hex_digit", tk.from)) =
           Cardinality(Hits(diags, "bad_hex_digit", tk.from)) + CountIn({}, 1, 1 - 1)
    <3>1. Cardinality(Hits(diags, "bad_hex_digit", tk.from)) \in Nat
      BY HitsFinite
    <3>2. Cardinality(Hits(Append(diags, r), "bad_hex_digit", tk.from)) =
            Cardinality(Hits(diags, "bad_hex_digit", tk.from)) + 0
      BY <1>2, HitsAppend
    <3>3. CountIn({}, 1, 0) = 0
      BY CountNone
    <3> QED
      BY <1>3, <3>1, <3>2, <3>3
  <2> HIDE DEF good
  <2> QED
    BY <2>1, <2>3, <2>5, <2>6, <2>7, <2>8, <2>9, <2>10, <2>11, EscapedMore
<1> QED
  BY <1>3, <1>4, <1>5, <1>6, CharEscapes
(* The digits that follow in the text, of which BadDigits() reports those  *)
(* that are none.                                                          *)
LEMMA DigitsSpoilt ==
  ASSUME NEW ds, Len(ds) \in Nat, NEW a \in Nat, NEW m, m - 1 = Len(ds),
         \A k \in 1..Len(ds) : ds[k] = text[a + 1 + k]
  PROVE  Spoilt({i \in 1..Len(ds) : ds[i] \notin HexDigit}, a, m)
BY DEF Spoilt

LEMMA DigitsHits ==
  ASSUME NEW S, NEW d \in Seq(S), NEW ds, Len(ds) \in Nat
  PROVE  /\ Cardinality(Hits(d \o BadDigits(ds), "bad_hex_digit", tk.from)) =
              Cardinality(Hits(d, "bad_hex_digit", tk.from))
                + CountIn({i \in 1..Len(ds) : ds[i] \notin HexDigit}, 1, Len(ds))
         /\ Cardinality(Hits(d \o BadDigits(ds), "bad_escape_sequence", tk.from)) =
              Cardinality(Hits(d, "bad_escape_sequence", tk.from)) + 0
<1> DEFINE bad == {i \in 1..Len(ds) : ds[i] \notin HexDigit}
           r == [id |-> "bad_hex_digit", from |-> tk.from]
<1>1. {i \in 1..Len(ds) : i \in bad} = bad
  OBVIOUS
<1>2. CountIn(bad, 1, Len(ds)) = Cardinality(bad)
  BY <1>1 DEF CountIn
<1>3. Cardinality(bad) \in Nat
  <2> HIDE DEF bad
  <2>1. 1 \in Nat /\ Len(ds) \in Int
    OBVIOUS
  <2>2. CountIn(bad, 1, Len(ds)) \in Nat
    BY <2>1, CountType, Zenon
  <2> QED
    BY <1>2, <2>2
<1>4. BadDigits(ds) = Copies(Cardinality(bad), r) /\ r.id = "bad_hex_digit" /\ r.from = tk.from
  BY DEF BadDigits, Copies
<1> HIDE DEF r, bad
<1>5. PICK m : m = Cardinality(bad)
  OBVIOUS
<1>6. PICK q : q = r
  OBVIOUS
<1>7. d \in Seq(S) /\ m \in Nat /\ q.id = "bad_hex_digit" /\ q.from = tk.from
  BY <1>3, <1>4, <1>5, <1>6
<1>8. Cardinality(Hits(d \o Copies(m, q), "bad_hex_digit", tk.from)) =
        Cardinality(Hits(d, "bad_hex_digit", tk.from)) + m
  BY <1>7, HitsConcat
<1>9. Cardinality(Hits(d \o Copies(m, q), "bad_escape_sequence", tk.from)) =
        Cardinality(Hits(d, "bad_escape_sequence", tk.from)) + 0
  BY <1>7, HitsConcat
<1> QED
  BY <1>2, <1>4, <1>5, <1>6, <1>8, <1>9 DEF bad

LEMMA HexEscapeGoes ==
  ASSUME InText, InString, InEscapes, At(lx), text' = text, HexEscape, NEW S, diags \in Seq(S)
  PROVE  EscapesGo
<1> DEFINE e == NextChar(lx)
           c1 == NextChar(e)
           c2 == NextChar(c1)
           c3 == NextChar(c2)
           c4 == NextChar(c3)
<1>1. PICK c, ch, ds :
        /\ pc = "string" /\ lx.cur = "\\" /\ StringChar(c, ch)
        /\ diags' = IfUnterminated(c, diags \o BadDigits(ds))
        /\ \/ e.cur = "x" /\ c = c2 /\ ds = <<c1.cur, c2.cur>>
           \/ e.cur = "u" /\ c = c4 /\ ds = <<c1.cur, c2.cur, c3.cur, c4.cur>>
  BY DEF HexEscape
<1>2. Len(ds) \in Nat
  BY <1>1
<1>3. PICK d : d = diags \o BadDigits(ds)
  OBVIOUS
<1>4. \E T : d \in Seq(T)
  <2>1. PICK B : BadDigits(ds) \in Seq(B)
    BY <1>2, BadDigitsType
  <2>2. diags \o BadDigits(ds) \in Seq(S \union B)
    BY <2>1
  <2> QED
    BY <1>3, <2>2
<1>5. Loaded(lx) /\ Loaded(e)
  BY NextCharMeans DEF At, InText
<1> HIDE DEF e
<1>6. Loaded(c1)
  BY <1>5, NextCharMeans DEF InText
<1> HIDE DEF c1
<1>7. Loaded(c2)
  BY <1>6, NextCharMeans DEF InText
<1> HIDE DEF c2
<1>8. Loaded(c3)
  BY <1>7, NextCharMeans DEF InText
<1> HIDE DEF c3
<1>9. Loaded(c4)
  BY <1>8, NextCharMeans DEF InText
<1> HIDE DEF c4
<1>10. Loaded(c)
  BY <1>1, <1>7, <1>9
<1>11. ASSUME SourceHasMore(c), Short
       PROVE  Escaped(Append(tk.str, ch), d, tk.from, c.at)
  <2>1. c.at \in Nat /\ c.at + 1 <= Len(text) /\ Len(text) \in Nat
    BY <1>10, <1>11, HasMoreBehind DEF InText
  <2>2. /\ c2.at <= Len(text) /\ (e.cur = "u" => c4.at <= Len(text) /\ c3.at <= Len(text))
    <3>1. CASE c = c2 /\ e.cur = "x"
      BY <2>1, <3>1
    <3>2. CASE c = c4
      <4>1. c4.at <= Len(text)
        BY <2>1, <3>2
      <4>2. c3.at <= Len(text)
        BY <1>8, <4>1, NextWithin DEF c4
      <4>3. c2.at <= Len(text)
        BY <1>7, <4>2, NextWithin DEF c3
      <4> QED
        BY <4>1, <4>2, <4>3
    <3> QED
      BY <1>1, <3>1, <3>2
  <2>3. c1.at \in Nat /\ c1.at <= Len(text) /\ c2.at = c1.at + 1 /\ c2.cur = text[c1.at + 1]
    BY <1>6, <2>2, NextWithin DEF c2
  <2>4. e.at \in Nat /\ e.at <= Len(text) /\ c1.at = e.at + 1 /\ c1.cur = text[e.at + 1]
    BY <1>5, <2>3, NextWithin DEF c1
  <2>5. lx.at \in Nat /\ lx.at <= Len(text) /\ e.at = lx.at + 1 /\ e.cur = text[lx.at + 1]
    BY <1>5, <2>4, NextWithin DEF e
  <2>6. e.cur = "u" => /\ c3.at = c2.at + 1 /\ c3.cur = text[c2.at + 1]
                       /\ c4.at = c3.at + 1 /\ c4.cur = text[c3.at + 1]
    BY <1>7, <1>8, <2>2, NextWithin DEF c3, c4
  <2>7. PICK a : a = lx.at
    OBVIOUS
  <2>8. /\ a \in Nat /\ e.at = a + 1 /\ c1.at = a + 2 /\ c2.at = a + 3
        /\ c1.cur = text[a + 2] /\ c2.cur = text[a + 3]
        /\ e.cur = "u" => c4.at = a + 5 /\ c3.cur = text[a + 4] /\ c4.cur = text[a + 5]
    <3>1. a \in Nat /\ e.at = a + 1 /\ c1.at = a + 2 /\ c2.at = a + 3
          /\ e.at + 1 = a + 2 /\ c1.at + 1 = a + 3
      BY <2>3, <2>4, <2>5, <2>7
    <3>2. e.cur = "u" => c2.at + 1 = a + 4 /\ c3.at = a + 4 /\ c3.at + 1 = a + 5 /\ c4.at = a + 5
      BY <2>6, <3>1
    <3> QED
      BY <2>3, <2>4, <2>6, <3>1, <3>2
  <2>9. text[a] = "\\"
    BY <1>1, <1>5, <2>5, <2>7, ReadChar
  <2>10. PICK m : m = IF e.cur = "x" THEN 3 ELSE 5
    OBVIOUS
  <2>11. Escape(a, m) /\ c.at = a + m /\ m - 1 = Len(ds) /\ \A k \in 1..Len(ds) : ds[k] = text[a + 1 + k]
    <3>1. CASE e.cur = "x" /\ c = c2 /\ ds = <<c1.cur, c2.cur>>
      <4>1. Len(ds) = 2 /\ ds[1] = text[a + 2] /\ ds[2] = text[a + 3] /\ m = 3
        BY <2>8, <2>10, <3>1
      <4>2. ASSUME NEW k \in 1..2
            PROVE  ds[k] = text[a + 1 + k]
        <5>1. CASE k = 1
          <6>1. a + 1 + k = a + 2
            BY <2>8, <5>1
          <6> QED
            BY <4>1, <5>1, <6>1
        <5>2. CASE k = 2
          <6>1. a + 1 + k = a + 3
            BY <2>8, <5>2
          <6> QED
            BY <4>1, <5>2, <6>1
        <5> QED
          BY <5>1, <5>2
      <4>3. Escape(a, m)
        BY <2>5, <2>7, <2>9, <3>1, <4>1 DEF Escape, EscapeLen
      <4> QED
        BY <2>8, <3>1, <4>1, <4>2, <4>3
    <3>2. CASE e.cur = "u" /\ c = c4 /\ ds = <<c1.cur, c2.cur, c3.cur, c4.cur>>
      <4>1. /\ Len(ds) = 4 /\ ds[1] = text[a + 2] /\ ds[2] = text[a + 3] /\ ds[3] = text[a + 4]
            /\ ds[4] = text[a + 5] /\ m = 5
        BY <2>8, <2>10, <3>2
      <4>2. ASSUME NEW k \in 1..4
            PROVE  ds[k] = text[a + 1 + k]
        <5>0. k = 1 \/ k = 2 \/ k = 3 \/ k = 4
          OBVIOUS
        <5>1. /\ k = 1 => a + 1 + k = a + 2
              /\ k = 2 => a + 1 + k = a + 3
              /\ k = 3 => a + 1 + k = a + 4
              /\ k = 4 => a + 1 + k = a + 5
          BY <2>8
        <5> QED
          BY <4>1, <5>0, <5>1
      <4>3. Escape(a, m)
        BY <2>5, <2>7, <2>9, <3>2, <4>1 DEF Escape, EscapeLen
      <4> QED
        BY <2>8, <3>2, <4>1, <4>2, <4>3
    <3> QED
      BY <1>1, <3>1, <3>2
  <2>12. PICK B : B = {i \in 1..Len(ds) : ds[i] \notin HexDigit}
    OBVIOUS
  <2>13. Spoilt(B, a, m)
    BY <1>2, <2>8, <2>11, <2>12, DigitsSpoilt
  <2>14. tk.from \in Nat /\ tk.from + 1 <= a
    BY <1>11, <2>7, ShortPlace
  <2>15. PICK T : tk.str \in Seq(T)
    BY DEF InEscapes
  <2>16. Escaped(tk.str, diags, tk.from, a - 1)
    BY <1>11, <2>7 DEF InEscapes
  <2>17. text[a + 1] \in Unknowns
    BY <1>1, <2>5, <2>7 DEF Unknowns
  <2>18. /\ Cardinality(Hits(d, "bad_hex_digit", tk.from)) =
              Cardinality(Hits(diags, "bad_hex_digit", tk.from)) + CountIn(B, 1, m - 1)
         /\ Cardinality(Hits(d, "bad_escape_sequence", tk.from)) =
              Cardinality(Hits(diags, "bad_escape_sequence", tk.from))
                + (IF text[a + 1] \notin Unknowns THEN 1 ELSE 0)
    <3>1. /\ Cardinality(Hits(d, "bad_hex_digit", tk.from)) =
               Cardinality(Hits(diags, "bad_hex_digit", tk.from)) + CountIn(B, 1, Len(ds))
          /\ Cardinality(Hits(d, "bad_escape_sequence", tk.from)) =
               Cardinality(Hits(diags, "bad_escape_sequence", tk.from)) + 0
      BY <1>2, <1>3, <2>12, DigitsHits
    <3> QED
      BY <2>11, <2>17, <3>1
  <2>19. c.at = a + m /\ c.at + 1 <= Len(text) /\ Escape(a, m)
    BY <2>1, <2>11
  <2> QED
    BY <2>8, <2>13, <2>14, <2>15, <2>16, <2>18, <2>19, EscapedMore
<1> QED
  BY <1>1, <1>3, <1>4, <1>10, <1>11, CharEscapes

(* The closing quote, and the quotes of other strings.                     *)
LEMMA EndEscapes ==
  ASSUME InText, text' = text, NEW c, NEW w, NEW str, StringEnd(c, w, str),
         Loaded(c), c.at <= Len(text), At(lx),
         diags' = diags, Short => Escaped(str, diags, tk.from, c.at - 1)
  PROVE  EscapesGo
<1>1. CASE pc' = "threw" /\ toks' = toks
  BY <1>1 DEF EscapesGo
<1>2. CASE /\ pc' = "idle"
           /\ \E t : /\ toks' = Append(toks, t) /\ t.kind \in StringKinds
                    /\ t.from = tk.from /\ t.to = c.at /\ t.long = tk.long /\ t.val = str
  <2>1. PICK t : /\ toks' = Append(toks, t) /\ t.from = tk.from /\ t.to = c.at /\ t.long = tk.long
                 /\ t.val = str
    BY <1>2
  <2>2. tk.from \in Nat /\ c.at \in 1..Len(text)
    BY LoadedAt DEF At, InText
  <2>3. ASSUME ~t.long, ~EmptyString(t.from)'
        PROVE  Escaped(t.val, diags, t.from, t.to - 1)'
    <3>1. Short
      BY <2>1, <2>3 DEF Short, EmptyString, OpensLong, IsQuote
    <3>2. PICK v, f, n : v = t.val /\ f = t.from /\ n = t.to - 1
      OBVIOUS
    <3>3. Escaped(v, diags, f, n)'
      BY <2>1, <3>1, <3>2, EscapedPrime
    <3> QED
      BY <3>2, <3>3
  <2>4. EscapedToken(t)'
    BY <2>1, <2>2, <2>3 DEF EscapedToken
  <2> QED
    BY <1>2, <2>1, <2>4 DEF EscapesGo
<1> QED
  BY <1>1, <1>2, StringEndValue

LEMMA CloseEscapes ==
  ASSUME InText, InString, InEscapes, At(lx), text' = text, StringClose
  PROVE  EscapesGo
<1>1. /\ StringEnd(lx, tk.w, tk.str) /\ lx.cur = tk.quote /\ tk.quote # NUL /\ diags' = diags
  BY TextsAssumption DEF StringClose, InString, Quote
<1>2. Loaded(lx) /\ lx.at <= Len(text)
  BY <1>1, LoadedAt DEF At
<1>3. Short => Escaped(tk.str, diags, tk.from, lx.at - 1)
  BY DEF InEscapes
<1> QED
  BY <1>1, <1>2, <1>3, EndEscapes

LEMMA LongEscapes ==
  ASSUME InText, InString, InEscapes, At(lx), text' = text, LongStringClose \/ LongStringQuote,
         NEW S, diags \in Seq(S)
  PROVE  EscapesGo
<1>1. /\ pc = "string" /\ lx.cur = tk.quote /\ tk.long /\ tk.quote # NUL
  BY TextsAssumption DEF LongStringClose, LongStringQuote, AtLongQuote, InString, Quote
<1>2. Loaded(lx) /\ lx.at <= Len(text) /\ ~Short
  BY <1>1, LoadedAt DEF At, Short
<1>3. Loaded(Peek1) /\ Peek1.at = lx.at
  BY <1>2, PeekStays DEF Peek1, InText
<1>4. ASSUME Peek1.nxt = tk.quote
      PROVE  Loaded(Peek2) /\ Peek2.at <= Len(text)
  <2>1. Loaded(NextChar(Peek1)) /\ NextChar(Peek1).at <= Len(text)
    BY <1>1, <1>2, <1>4, PeekQuote DEF Peek1
  <2> QED
    BY <2>1, PeekStays DEF Peek2, InText
<1>5. ASSUME Peek1.nxt = tk.quote, Peek2.nxt = tk.quote
      PROVE  Loaded(Peek3) /\ Peek3.at <= Len(text)
  <2>1. Loaded(NextChar(Peek1)) /\ NextChar(Peek1).at <= Len(text)
    BY <1>1, <1>2, <1>5, PeekQuote DEF Peek1
  <2>2. Loaded(NextChar(Peek2)) /\ NextChar(Peek2).at <= Len(text)
    BY <1>1, <1>5, <2>1, PeekQuote DEF Peek2
  <2> QED
    BY <2>2, PeekStays DEF Peek3, InText
<1>6. ASSUME Peek1.nxt = tk.quote, Peek2.nxt = tk.quote, Peek3.nxt = tk.quote
      PROVE  Loaded(NextChar(Peek3)) /\ NextChar(Peek3).at <= Len(text)
  <2>1. Loaded(NextChar(Peek1)) /\ NextChar(Peek1).at <= Len(text)
    BY <1>1, <1>2, <1>6, PeekQuote DEF Peek1
  <2>2. Loaded(NextChar(Peek2)) /\ NextChar(Peek2).at <= Len(text)
    BY <1>1, <1>6, <2>1, PeekQuote DEF Peek2
  <2> QED
    BY <1>1, <1>6, <2>2, PeekQuote DEF Peek3
<1>7. CASE LongStringClose
  <2>1. Peek1.nxt = tk.quote /\ Peek2.nxt = tk.quote /\ diags' = diags
    BY <1>7 DEF LongStringClose
  <2>2. \/ /\ Peek3.nxt = tk.quote
           /\ StringEnd(NextChar(Peek3), Extend(tk.w, 3), Append(tk.str, tk.quote))
        \/ StringEnd(Peek3, Extend(tk.w, 2), tk.str)
    BY <1>7 DEF LongStringClose
  <2>3. PICK c, w, str : StringEnd(c, w, str) /\ Loaded(c) /\ c.at <= Len(text)
    BY <1>5, <1>6, <2>1, <2>2
  <2> QED
    BY <1>2, <2>1, <2>3, EndEscapes
<1>8. CASE LongStringQuote
  <2>1. \E c \in {Peek1, Peek2} : /\ c = Peek2 => Peek1.nxt = tk.quote \/ Peek1 = Peek2
                                  /\ StringChar(c, c.cur) /\ diags' = IfUnterminated(c, diags)
    BY <1>8 DEF LongStringQuote
  <2>2. PICK c : Loaded(c) /\ StringChar(c, c.cur) /\ diags' = IfUnterminated(c, diags)
    BY <1>3, <1>4, <2>1
  <2> QED
    BY <1>1, <1>2, <2>2, CharEscapes
<1> QED
  BY <1>7, <1>8
(* A string begins: nothing of it was read.                                *)
LEMMA QuoteEscapes ==
  ASSUME InText, At(lx), tk.from = lx.at, text' = text, Fields, tk.str = << >>, QuoteStart,
         \A id : Hits(diags, id, tk.from) = {}
  PROVE  EscapesGo
<1>1. PICK c, long :
           /\ StringToken(c, long) /\ long \in BOOLEAN /\ Loaded(c) /\ c.at <= Len(text)
           /\ ~EmptyString(lx.at) => c.at = lx.at + (IF long THEN 2 ELSE 0)
  BY QuoteOpens
<1>2. lx.at \in Nat \ {0} /\ c.at \in Nat
  BY <1>1, LoadedAt DEF At, InText
<1>3. PICK w : /\ lx' = NextChar(c) /\ tk' = [tk EXCEPT !.w = w, !.quote = c.cur, !.long = long]
               /\ pc' = "string" /\ toks' = toks /\ diags' = diags
  BY <1>1 DEF StringToken, QuoteStart
<1>4. lx'.at = c.at + 1
  BY <1>1, <1>3, NextCharMeans DEF InText
<1>5. tk'.from = lx.at /\ tk'.long = long /\ tk'.str = << >>
  BY <1>3 DEF Fields
<1>6. ASSUME Short'
      PROVE  Escaped(tk.str, diags, tk.from, lx.at - 1)'
  <2>1. ~EmptyString(lx.at) /\ ~long
    BY <1>5, <1>6 DEF Short, EmptyString, OpensLong, IsQuote
  <2>2. c.at = lx.at + 0
    BY <1>1, <2>1
  <2>3. PICK f : f = lx.at
    OBVIOUS
  <2>4. lx'.at - 1 = f /\ f \in Nat
    BY <1>2, <1>4, <2>2, <2>3
  <2>5. ASSUME f + 1 <= Len(text)
        PROVE  EscapeLeft(text, f)[f + 1] = 0
    <3>1. PICK b : b = f + 1
      OBVIOUS
    <3>2. b \in 0..Len(text) /\ b <= f + 1
      BY <2>4, <2>5, <3>1 DEF InText
    <3>3. EscapeLeft(text, f)[b] = IF b <= f + 1 THEN 0
              ELSE IF EscapeLeft(text, f)[b - 1] # 0 THEN EscapeLeft(text, f)[b - 1] - 1
              ELSE IF text[b - 1] = "\\" THEN EscapeLen(text, b - 1) ELSE 0
      BY <2>4, <3>2, LeftUnfold
    <3> QED
      BY <3>1, <3>2, <3>3
  <2>6. \A B : CountIn(B, f + 1, f) = 0
    <3>1. \A i \in (f + 1)..f : FALSE
      BY <2>4
    <3>2. f + 1 \in Nat /\ f \in Int
      BY <2>4
    <3> QED
      BY <3>1, <3>2, CountNone
  <2>7. \A id : Cardinality(Hits(diags, id, f)) = 0
    <3>1. tk.from = f
      BY <2>3
    <3> QED
      BY <3>1, FS_EmptySet
  <2>8. Escaped(<< >>, diags, f, f)
    BY <2>5, <2>6, <2>7 DEF Escaped
  <2>9. PICK str : str = << >>
    OBVIOUS
  <2>10. Escaped(str, diags, f, f)'
    BY <1>3, <2>8, <2>9, EscapedPrime
  <2>11. str = tk'.str /\ f = tk'.from /\ f = lx'.at - 1
    BY <1>5, <2>3, <2>4, <2>9
  <2> QED
    BY <2>10, <2>11 DEF Escaped, FreshAt, WrongAt, BadAt
<1>7. tk'.str \in Seq({})
  BY <1>5
<1> QED
  BY <1>3, <1>6, <1>7 DEF EscapesGo, InEscapes

-----------------------------------------------------------------------------
(* The diagnostics are about tokens no later than the one under            *)
(* construction, and the strings returned began before it.                 *)
Resting == pc \in {"idle", "start"}

Older ==
  /\ \A i \in 1..Len(diags) : /\ diags[i].from \in Nat
                              /\ IF Resting THEN diags[i].from < lx.at ELSE diags[i].from <= tk.from
  /\ \A k \in 1..Len(toks) : toks[k].kind \in StringKinds =>
                              /\ toks[k].from \in Nat
                              /\ IF Resting THEN toks[k].from < lx.at ELSE toks[k].from < tk.from

LEMMA OlderLex ==
  ASSUME CursorInv, TokensInv, NEW S, diags \in Seq(S), Older, Lex, ~SkipSpace, ~EndOfFile,
         Returned \/ Continued
  PROVE  Older'
<1>1. Added(diags') /\ text' = text /\ pc # "idle"
  BY LexAdds, LexFrame
<1>2. /\ Len(diags) \in Nat /\ Len(diags') \in Nat /\ Len(diags) <= Len(diags')
      /\ \A i \in 1..Len(diags) : diags'[i] = diags[i]
      /\ \A i \in (Len(diags) + 1)..Len(diags') : diags'[i].from = tk.from
      /\ \A i \in 1..Len(diags') : i \in 1..Len(diags) \/ i \in (Len(diags) + 1)..Len(diags')
  <2>1. /\ Len(diags) \in Nat /\ Len(diags') \in Nat /\ Len(diags) <= Len(diags')
        /\ \A i \in 1..Len(diags) : diags'[i] = diags[i]
        /\ \A i \in (Len(diags) + 1)..Len(diags') : diags'[i].from = tk.from
    BY <1>1 DEF Added, Grown
  <2> QED
    BY <2>1
<1>3. Resting => tk.from = lx.at
  BY <1>1 DEF Resting, TokensInv, Locals
<1>4. tk.from \in Nat
  BY LoadedAt DEF Returned, Continued, Beyond, At
<1>5. \A i \in 1..Len(diags) : diags[i].from \in Nat /\ diags[i].from <= tk.from
  BY <1>3, <1>4 DEF Older
<1>6. \A i \in 1..Len(diags') : diags'[i].from \in Nat /\ diags'[i].from <= tk.from
  BY <1>2, <1>4, <1>5
<1>7. \A k \in 1..Len(toks) : toks[k].kind \in StringKinds => toks[k].from \in Nat /\ toks[k].from < tk.from
  BY <1>3 DEF Older
<1>8. CASE Returned
  <2>1. pc' = "idle" /\ tk.from < lx'.at /\ lx'.at \in Nat
    BY <1>8, LoadedAt DEF Returned, Beyond
  <2>2. PICK t : t.from = tk.from /\ toks' = Append(toks, t)
    BY <1>8 DEF Returned
  <2>3. /\ \A i \in 1..Len(toks) : toks'[i] = toks[i]
        /\ Len(toks) \in Nat /\ Len(toks') = Len(toks) + 1 /\ toks'[Len(toks) + 1] = t
    BY <2>2, MoreTokens
  <2>4. ASSUME NEW k \in 1..Len(toks'), toks'[k].kind \in StringKinds
        PROVE  toks'[k].from \in Nat /\ toks'[k].from < lx'.at
    <3>1. k \in 1..Len(toks) \/ k = Len(toks) + 1
      BY <2>3
    <3>2. CASE k \in 1..Len(toks)
      <4>1. toks'[k].from \in Nat /\ toks'[k].from < tk.from
        BY <1>7, <2>3, <2>4, <3>2
      <4> QED
        BY <1>4, <2>1, <4>1
    <3>3. CASE k = Len(toks) + 1
      BY <1>4, <2>1, <2>2, <2>3, <3>3
    <3> QED
      BY <3>1, <3>2, <3>3
  <2>5. ASSUME NEW i \in 1..Len(diags')
        PROVE  diags'[i].from \in Nat /\ diags'[i].from < lx'.at
    <3>1. diags'[i].from \in Nat /\ diags'[i].from <= tk.from
      BY <1>6
    <3> QED
      BY <1>4, <2>1, <3>1
  <2>6. Resting'
    BY <2>1 DEF Resting
  <2> QED
    BY <2>4, <2>5, <2>6 DEF Older
<1>9. CASE Continued
  <2>1. ~Resting' /\ toks' = toks /\ tk'.from = tk.from
    BY <1>9 DEF Continued, Resting, InToken
  <2> QED
    BY <1>6, <1>7, <2>1 DEF Older
<1> QED
  BY <1>8, <1>9

LEMMA OlderStep ==
  ASSUME CursorInv, TokensInv, PlaceInv, Older, [Next]_vars
  PROVE  Older'
<1>1. InText /\ CursorOK(lx) /\ Locals
  BY DEF PlaceInv, CursorInv, TokensInv
<1>2. PICK S : diags \in Seq(S)
  BY DEF PlaceInv
<1>3. ASSUME Resting, Resting', diags' = diags, lx.at <= lx'.at, lx.at \in Nat, lx'.at \in Nat,
             \/ toks' = toks
             \/ \E t : toks' = Append(toks, t) /\ t.kind \notin StringKinds
      PROVE  Older'
  <2>1. \A i \in 1..Len(diags) : diags[i].from \in Nat /\ diags[i].from < lx.at
    BY <1>3 DEF Older
  <2>2. \A i \in 1..Len(diags) : diags[i].from \in Nat /\ diags[i].from < lx'.at
    BY <1>3, <2>1
  <2>3. \A k \in 1..Len(toks) : toks[k].kind \in StringKinds => toks[k].from \in Nat /\ toks[k].from < lx'.at
    BY <1>3 DEF Older
  <2>4. \A k \in 1..Len(toks') : toks'[k].kind \in StringKinds => toks'[k].from \in Nat /\ toks'[k].from < lx'.at
    <3>1. CASE toks' = toks
      BY <2>3, <3>1
    <3>2. ASSUME NEW t, toks' = Append(toks, t), t.kind \notin StringKinds
          PROVE  \A k \in 1..Len(toks') : toks'[k].kind \in StringKinds => k \in 1..Len(toks) /\ toks'[k] = toks[k]
      <4>1. /\ \A i \in 1..Len(toks) : toks'[i] = toks[i]
            /\ Len(toks) \in Nat /\ Len(toks') = Len(toks) + 1 /\ toks'[Len(toks) + 1] = t
        BY <3>2, MoreTokens
      <4>2. \A k \in 1..Len(toks') : k \in 1..Len(toks) \/ k = Len(toks) + 1
        BY <4>1
      <4> QED
        BY <3>2, <4>1, <4>2
    <3> QED
      BY <1>3, <2>3, <3>1, <3>2
  <2> QED
    BY <1>3, <2>2, <2>4 DEF Older
<1>4. CASE Begin
  <2>1. pc = "idle" /\ pc' = "start" /\ toks' = toks /\ diags' = diags
    BY <1>4 DEF Begin
  <2>2. lx.at \in Nat /\ lx'.at \in Nat /\ lx.at <= lx'.at
    <3>1. CASE lx.valid = 0
      <4>1. lx.at = 0 /\ lx'.at = 1
        BY <1>1, <1>4, <3>1, BeginToken DEF CursorOK, LookaheadOK
      <4> QED
        BY <4>1
    <3>2. CASE lx.valid # 0
      <4>1. lx' = lx /\ lx.at \in Nat
        BY <1>1, <1>4, <3>2, BeginToken, LoadedAt DEF Loaded
      <4> QED
        BY <4>1
    <3> QED
      BY <3>1, <3>2
  <2> QED
    BY <1>3, <2>1, <2>2 DEF Resting
<1>5. CASE SkipSpace
  <2>1. Loaded(lx) /\ text \in Seq(Char)
    BY <1>5 DEF SkipSpace, CursorInv, Loaded
  <2>2. pc = "start" /\ pc' = "start" /\ toks' = toks /\ diags' = diags /\ lx.at \in Nat /\ lx'.at = lx.at + 1
    BY <1>5, <2>1, SkipResult DEF SkipSpace
  <2> QED
    BY <1>3, <2>2 DEF Resting
<1>6. CASE EndOfFile
  <2>1. Loaded(lx)
    BY <1>6 DEF EndOfFile, CursorInv, Loaded
  <2>2. pc = "start" /\ pc' = "idle" /\ lx' = lx /\ lx.at \in Nat /\ diags' = diags
    BY <1>6, <2>1, EofResult, LoadedAt DEF EndOfFile
  <2>3. PICK t : t.kind = "eof" /\ toks' = Append(toks, t)
    BY <1>6, EofResult
  <2> QED
    BY <1>3, <2>2, <2>3 DEF Resting, StringKinds
<1>7. CASE Lex /\ ~SkipSpace /\ ~EndOfFile
  <2>1. Loaded(lx) /\ text \in Seq(Char)
    BY <1>7, LexFrame DEF CursorInv, Loaded
  <2> QED
    BY <1>1, <1>2, <1>7, <2>1, LexResult, OlderLex
<1>8. CASE UNCHANGED vars
  BY <1>8 DEF vars, Older, Resting
<1> QED
  BY <1>4, <1>5, <1>6, <1>7, <1>8 DEF Next, Lex
-----------------------------------------------------------------------------
AllEscaped == \A t : Given(t) => EscapedToken(t)

EscapeInv ==
  /\ Older
  /\ pc = "string" => InEscapes
  /\ AllEscaped

LEMMA EscapedKept ==
  ASSUME text' = text, NEW S, diags \in Seq(S), Added(diags'), NEW t, t.kind \in StringKinds => t.from # tk.from,
         EscapedToken(t)
  PROVE  EscapedToken(t)'
<1>1. Unterminated(t) => Unterminated(t)'
  BY DEF Unterminated, Added, Grown
<1>2. EmptyString(t.from)' <=> EmptyString(t.from)
  BY DEF EmptyString, OpensLong, IsQuote
<1>3. ASSUME t.kind \in StringKinds, Escaped(t.val, diags, t.from, t.to - 1)
      PROVE  Escaped(t.val, diags, t.from, t.to - 1)'
  <2>1. PICK v, f, n : v = t.val /\ f = t.from /\ n = t.to - 1
    OBVIOUS
  <2>2. \A id : Hits(diags, id, f)' = Hits(diags, id, f)
    BY <1>3, <2>1, HitsKept
  <2>3. Escaped(v, diags, f, n)
    BY <1>3, <2>1
  <2>4. Escaped(v, diags, f, n)'
    BY <2>2, <2>3 DEF Escaped, FreshAt, WrongAt, BadAt
  <2> QED
    BY <2>1, <2>4
<1> QED
  BY <1>1, <1>2, <1>3 DEF EscapedToken

LEMMA AllEscapedKept ==
  ASSUME AllEscaped, TokensInv, text' = text, NEW S, diags \in Seq(S), Added(diags'),
         diags' = diags \/ \A k \in 1..Len(toks) : toks[k].kind \in StringKinds => toks[k].from # tk.from,
         \/ toks' = toks
         \/ \E t : toks' = Append(toks, t) /\ EscapedToken(t)'
  PROVE  AllEscaped'
<1>1. ASSUME NEW u, Given(u)
      PROVE  EscapedToken(u)'
  <2>1. EscapedToken(u)
    BY <1>1 DEF AllEscaped
  <2>2. CASE diags' = diags
    BY <2>1, <2>2 DEF EscapedToken, EmptyString, OpensLong, IsQuote, Unterminated, Escaped, FreshAt, WrongAt,
                      BadAt, Hits
  <2>3. CASE \A k \in 1..Len(toks) : toks[k].kind \in StringKinds => toks[k].from # tk.from
    <3>1. u.kind \in StringKinds => u.from # tk.from
      BY <1>1, <2>3 DEF Given
    <3> QED
      BY <2>1, <3>1, EscapedKept
  <2> QED
    BY <2>2, <2>3
<1>2. CASE toks' = toks
  BY <1>1, <1>2 DEF AllEscaped, Given
<1>3. ASSUME NEW t, toks' = Append(toks, t), EscapedToken(t)'
      PROVE  AllEscaped'
  <2>1. \A u : Given(u)' => Given(u) \/ u = t
    BY <1>3, GivenMore
  <2> QED
    BY <1>1, <1>3, <2>1 DEF AllEscaped
<1> QED
  BY <1>2, <1>3

LEMMA EscapeStep ==
  ASSUME CursorInv, TokensInv, PlaceInv, ValueInv, EscapeInv, [Next]_vars
  PROVE  EscapeInv'
<1>1. InText /\ AllEscaped /\ Locals /\ Older /\ CursorOK(lx)
  BY DEF PlaceInv, EscapeInv, TokensInv, CursorInv
<1>2. PICK S : diags \in Seq(S)
  BY DEF PlaceInv
<1>3. Older'
  BY <1>1, OlderStep
<1>4. diags' = diags => Added(diags')
  BY <1>2 DEF Added, Grown
<1>5. CASE Begin \/ SkipSpace
  <2>1. toks' = toks /\ text' = text /\ diags' = diags /\ pc' # "string"
    BY <1>5 DEF Begin, SkipSpace
  <2>2. AllEscaped'
    BY <1>1, <1>2, <1>4, <2>1, AllEscapedKept
  <2> QED
    BY <1>3, <2>1, <2>2 DEF EscapeInv
<1>6. CASE Lex /\ ~SkipSpace
  <2>1. text' = text /\ Added(diags') /\ pc # "idle"
    BY <1>2, <1>6, LexFrame, LexAdds
  <2>2. Loaded(lx)
    BY <2>1 DEF CursorInv, Loaded
  <2>3. /\ lx.at \in Nat
        /\ pc = "start" => tk.from = lx.at
    BY <1>1, <2>2, LoadedAt DEF Locals
  <2>4. \A k \in 1..Len(toks) : toks[k].kind \in StringKinds => toks[k].from # tk.from
    <3>1. pc # "threw" /\ (pc \in InToken => tk.from \in Nat)
      BY <1>1, <1>6, NotThrew DEF Locals, At
    <3>2. tk.from \in Nat
      BY <1>1, <2>1, <2>3, <3>1 DEF Locals, PcType
    <3>3. \A k \in 1..Len(toks) : toks[k].kind \in StringKinds => toks[k].from \in Nat /\ toks[k].from < tk.from
      BY <1>1, <2>1, <2>3 DEF Older, Resting
    <3> QED
      BY <3>2, <3>3
  <2>5. CASE EscapesGo
    <3>1. AllEscaped'
      BY <1>1, <1>2, <2>1, <2>4, <2>5, AllEscapedKept DEF EscapesGo
    <3> QED
      BY <1>3, <2>5, <3>1 DEF EscapesGo, EscapeInv
  <2>6. CASE OtherGoes
    <3>1. \A t : t.kind \notin StringKinds => EscapedToken(t)'
      BY DEF EscapedToken
    <3>2. AllEscaped'
      BY <1>1, <1>2, <2>1, <2>4, <2>6, <3>1, AllEscapedKept DEF OtherGoes
    <3> QED
      BY <1>3, <2>6, <3>2 DEF OtherGoes, EscapeInv
  <2>7. CASE QuoteStart
    <3>1. pc = "start" /\ lx.cur # NUL
      BY <2>7, TextsAssumption DEF QuoteStart, Quote
    <3>2. At(lx) /\ tk.from = lx.at
      BY <1>1, <2>2, <3>1, Begins DEF InText, Locals
    <3>3. \A id : Hits(diags, id, tk.from) = {}
      <4>1. \A i \in 1..Len(diags) : diags[i].from \in Nat /\ diags[i].from < lx.at
        BY <1>1, <3>1 DEF Older, Resting
      <4>2. \A i \in 1..Len(diags) : diags[i].from # tk.from
        BY <2>3, <3>2, <4>1
      <4> QED
        BY <4>2 DEF Hits
    <3>4. EscapesGo
      BY <1>1, <2>1, <2>7, <3>1, <3>2, <3>3, QuoteEscapes DEF ValueInv
    <3> QED
      BY <2>5, <3>4
  <2>8. CASE pc = "string"
    <3>1. InString /\ At(lx) /\ InEscapes
      BY <1>1, <2>8 DEF ValueInv, EscapeInv, Locals, InToken
    <3>2. \/ StringClose \/ LongStringClose \/ LongStringQuote \/ StringPlain \/ HexEscape \/ CharEscape
      BY <1>6, <2>8
      DEF Lex, SkipSpace, CommentStart, CommentChar, CommentEnd, Punctuator, QuoteStart, IdentStart,
          IdentChar, IdentEnd, NumberStart, NumberDigit, NumberStop, FractionRange, FractionStart,
          ExponentStart, ExponentDigit, ExponentStop, NewLine, EndOfFile, Unknown
    <3>3. EscapesGo
      BY <1>1, <1>2, <2>1, <3>1, <3>2, CloseEscapes, LongEscapes, PlainEscapes, HexEscapeGoes, CharEscapeGoes
    <3> QED
      BY <2>5, <3>3
  <2> QED
    BY <1>6, <2>6, <2>7, <2>8, LexOther
<1>7. CASE UNCHANGED vars
  <2>1. text' = text /\ lx' = lx /\ pc' = pc /\ tk' = tk /\ toks' = toks /\ diags' = diags
    BY <1>7 DEF vars
  <2>2. AllEscaped'
    BY <1>1, <1>2, <1>4, <2>1, AllEscapedKept
  <2>3. InEscapes => InEscapes'
    BY <2>1 DEF InEscapes, Short, EmptyString, OpensLong, IsQuote, Escaped, FreshAt, WrongAt, BadAt, Hits
  <2> QED
    BY <1>3, <2>1, <2>2, <2>3 DEF EscapeInv
<1> QED
  BY <1>5, <1>6, <1>7 DEF Next, Lex

(* EscapesCorrect: whatever the text, the value of a terminated short      *)
(* string has one character for each escape and each other character       *)
(* between its quotes, its closing quote belongs to no escape, and each    *)
(* unknown escape and each character that is no digit of its escape was    *)
(* reported once, for that string.                                         *)
THEOREM EscapesCorrect == Spec => []EscapesOK
<1>1. Init => EscapeInv
  <2> SUFFICES ASSUME Init
               PROVE  EscapeInv
    OBVIOUS
  <2>1. pc = "idle" /\ Len(toks) = 0 /\ Len(diags) = 0
    BY DEF Init
  <2> QED
    BY <2>1 DEF EscapeInv, AllEscaped, Given, Older
<1>2. CursorInv /\ TokensInv /\ PlaceInv /\ ValueInv /\ EscapeInv /\ [Next]_vars => EscapeInv'
  BY EscapeStep
<1>3. EscapeInv => EscapesOK
  <2> SUFFICES ASSUME EscapeInv, NEW k \in 1..Len(toks), NEW t, t = toks[k],
                      t.kind \in StringKinds, ~t.long, ~EmptyString(t.from), ~Unterminated(t)
               PROVE  LET left == EscapeLeft(text, t.from)
                          inside == (t.from + 1)..(t.to - 1)
                      IN  /\ left[t.to] = 0
                          /\ Len(t.val) = Cardinality({i \in inside : left[i] = 0})
                          /\ Reported(t, "bad_escape_sequence") =
                               Cardinality({i \in inside : /\ left[i - 1] = 0 /\ left[i] # 0
                                                           /\ text[i] \notin {"x", "u", "n", "0", "\\"}})
                          /\ Reported(t, "bad_hex_digit") =
                               Cardinality({i \in inside : /\ left[i - 1] # 0 /\ left[i] # 0
                                                           /\ text[i] \notin HexDigit})
    BY DEF EscapesOK, StringKinds
  <2>1. t.from \in Nat /\ t.to \in 1..Len(text) /\ Escaped(t.val, diags, t.from, t.to - 1)
    BY DEF EscapeInv, AllEscaped, Given, EscapedToken
  <2>2. PICK f, n : f = t.from /\ n = t.to - 1
    OBVIOUS
  <2>3. f \in Nat /\ n + 1 = t.to /\ n + 1 <= Len(text)
    BY <2>1, <2>2
  <2>4. EscapeLeft(text, f)[t.to] = 0
    BY <2>1, <2>2, <2>3 DEF Escaped
  <2>5. \A i \in (f + 1)..n : i \in Nat
    BY <2>3
  <2>6. /\ CountIn(FreshAt(f), f + 1, n) = Cardinality({i \in (f + 1)..n : EscapeLeft(text, f)[i] = 0})
        /\ CountIn(WrongAt(f), f + 1, n) =
             Cardinality({i \in (f + 1)..n : /\ EscapeLeft(text, f)[i - 1] = 0 /\ EscapeLeft(text, f)[i] # 0
                                             /\ text[i] \notin {"x", "u", "n", "0", "\\"}})
        /\ CountIn(BadAt(f), f + 1, n) =
             Cardinality({i \in (f + 1)..n : /\ EscapeLeft(text, f)[i - 1] # 0 /\ EscapeLeft(text, f)[i] # 0
                                             /\ text[i] \notin HexDigit})
    <3>1. {i \in (f + 1)..n : i \in FreshAt(f)} = {i \in (f + 1)..n : EscapeLeft(text, f)[i] = 0}
      BY <2>5 DEF FreshAt
    <3>2. {i \in (f + 1)..n : i \in WrongAt(f)} =
            {i \in (f + 1)..n : /\ EscapeLeft(text, f)[i - 1] = 0 /\ EscapeLeft(text, f)[i] # 0
                                /\ text[i] \notin {"x", "u", "n", "0", "\\"}}
      BY <2>5 DEF WrongAt
    <3>3. {i \in (f + 1)..n : i \in BadAt(f)} =
            {i \in (f + 1)..n : /\ EscapeLeft(text, f)[i - 1] # 0 /\ EscapeLeft(text, f)[i] # 0
                                /\ text[i] \notin HexDigit}
      BY <2>5 DEF BadAt
    <3> QED
      BY <3>1, <3>2, <3>3 DEF CountIn
  <2>7. /\ Reported(t, "bad_escape_sequence") = Cardinality(Hits(diags, "bad_escape_sequence", f))
        /\ Reported(t, "bad_hex_digit") = Cardinality(Hits(diags, "bad_hex_digit", f))
    BY <2>2 DEF Reported, Hits
  <2> QED
    BY <2>1, <2>2, <2>4, <2>6, <2>7 DEF Escaped
<1> QED
  BY <1>1, <1>2, <1>3, CursorCorrect, TokensCovered, PlaceCorrect, ValueCorrect, PTL DEF Spec

-----------------------------------------------------------------------------
(* EndCorrect: where tokens end.                                           *)

(* Along a stretch without a line end the line stays and columns count up. *)
LEMMA Along ==
  ASSUME NEW a \in Nat \ {0}, NEW b \in Nat, a <= b, \A i \in a..(b - 1) : text[i] # NL
  PROVE  /\ LineOf(text, NL, b) = LineOf(text, NL, a)
         /\ ColOf(text, NL, b) = ColOf(text, NL, a) + (b - a)
         /\ ColOf(text, NL, a) \in 1..a /\ ColOf(text, NL, b) \in 1..b
<1> DEFINE N == b - a
           S == {k \in 0..N : /\ LineOf(text, NL, a + k) = LineOf(text, NL, a)
                              /\ ColOf(text, NL, a + k) = ColOf(text, NL, a) + k}
<1>1. N \in Nat /\ a + N = b /\ b \in Nat \ {0}
  OBVIOUS
<1>2. ColOf(text, NL, a) \in 1..a /\ ColOf(text, NL, b) \in 1..b /\ LineOf(text, NL, a) \in Nat
  BY <1>1, ColOfStep, LineOfType
<1>3. 0 \in S
  <2>1. a + 0 = a /\ ColOf(text, NL, a) + 0 = ColOf(text, NL, a) /\ 0 \in 0..N
    BY <1>1, <1>2
  <2> QED
    BY <2>1
<1>4. ASSUME NEW k \in 1..N, k - 1 \in S
      PROVE  k \in S
  <2>1. PICK m : m = a + (k - 1)
    OBVIOUS
  <2>2. m \in Nat \ {0} /\ m + 1 = a + k /\ m \in a..(b - 1) /\ k - 1 \in Int
    BY <1>1, <2>1
  <2>3. LineOf(text, NL, m) = LineOf(text, NL, a) /\ ColOf(text, NL, m) = ColOf(text, NL, a) + (k - 1)
    BY <1>4, <2>1
  <2>4. text[m] # NL
    BY <2>2
  <2>5. LineOf(text, NL, m + 1) = LineOf(text, NL, m) + 0 /\ ColOf(text, NL, m + 1) = ColOf(text, NL, m) + 1
    BY <2>2, <2>4, LineOfStep, ColOfStep
  <2>6. LineOf(text, NL, a + k) = LineOf(text, NL, a) /\ ColOf(text, NL, a + k) = ColOf(text, NL, a) + k
    BY <1>2, <2>2, <2>3, <2>5
  <2> QED
    BY <2>6
<1>5. N \in S
  <2> HIDE DEF S
  <2> QED
    BY <1>1, <1>3, <1>4, UpTo
<1> QED
  BY <1>1, <1>2, <1>5

(* The end of w is the position of the character at n.                     *)
Stands(w, n) == WOK(w) /\ w.el = LineOf(text, NL, n) /\ w.ec = ColOf(text, NL, n)

LEMMA StandsOn ==
  ASSUME InText, NEW w, NEW a \in Nat \ {0}, NEW b \in Nat, Stands(w, a), a <= b, b <= Len(text),
         \A i \in a..(b - 1) : text[i] # NL
  PROVE  Stands(Extend(w, b - a), b)
<1>1. PICK k, c : k = b - a /\ c = ColOf(text, NL, a)
  OBVIOUS
<1>2. /\ LineOf(text, NL, b) = LineOf(text, NL, a) /\ ColOf(text, NL, b) = c + k
      /\ c \in Nat /\ c + k \in Nat /\ c + k < ColWidth
  <2>1. /\ LineOf(text, NL, b) = LineOf(text, NL, a) /\ ColOf(text, NL, b) = ColOf(text, NL, a) + (b - a)
        /\ ColOf(text, NL, a) \in 1..a /\ ColOf(text, NL, b) \in 1..b
    BY Along
  <2> QED
    BY <1>1, <2>1, CursorAssumption DEF InText
<1>3. (c + k) % ColWidth = c + k
  BY <1>2, CursorAssumption
<1>4. WOK(Extend(w, k)) /\ Extend(w, k).el = w.el /\ Extend(w, k).ec = (w.ec + k) % ColWidth
  BY DEF Extend, WOK, Stands
<1> QED
  BY <1>1, <1>2, <1>3, <1>4 DEF Stands

-----------------------------------------------------------------------------
(* What EndOK says of one token, but that the string was terminated.       *)
Clean(t) ==
  /\ \A ch \in {"\\"} \union Wide : ~Covers(t, ch)
  /\ t.kind \in NumberKinds =>
       ~Covers(t, "_") /\ (t.from < Len(text) => text[t.from + 1] \notin {"x", "b"})
  /\ t.kind = "identifier" => ~Covers(t, NL) /\ ~t.long
  /\ ~EmptyString(t.from)
  /\ OpensLong(t.from) => \A i \in (t.from + 3)..(t.to - 4) : text[i] # text[t.from]

LastAt(t) == IF t.kind = "line_comment" THEN t.to - 1 ELSE t.to

Ended(t) == t.kind # "eof" /\ PlainSpelling(t) => Stands(t.w, LastAt(t))

LEMMA PlainClean ==
  ASSUME NEW t
  PROVE  PlainSpelling(t) <=> Clean(t) /\ ~Unterminated(t)
BY DEF PlainSpelling, Clean, NumberKinds

(* The step returns the token t, leaving the cursor at c.                  *)
Gives(t, c, kind, w, val) ==
  /\ pc' = "idle" /\ toks' = Append(toks, t)
  /\ t.kind = kind /\ t.w = w /\ t.val = val /\ t.from = tk.from /\ t.to = c.at - 1
  /\ t.long = tk.long

LEMMA ReturnGives ==
  ASSUME NEW c, NEW kind, NEW w, NEW val, Return(c, kind, w, val)
  PROVE  \E t : Gives(t, c, kind, w, val)
<1>1. PICK t : t = [kind |-> kind, w |-> w, val |-> val, long |-> tk.long,
                    from |-> tk.from, to |-> c.at - 1]
  OBVIOUS
<1>2. pc' = "idle" /\ toks' = Append(toks, t)
  BY <1>1 DEF Return
<1>3. /\ t.kind = kind /\ t.w = w /\ t.val = val /\ t.from = tk.from /\ t.to = c.at - 1
      /\ t.long = tk.long
  BY <1>1
<1> QED
  BY <1>2, <1>3 DEF Gives

(* A token that ends where it should.                                      *)
LEMMA GivenEnds ==
  ASSUME text' = text, NEW t,
         t.kind # "eof" /\ Clean(t) /\ ~Unterminated(t)' => Stands(t.w, LastAt(t))
  PROVE  Ended(t)'
<1>1. PlainSpelling(t)' <=> Clean(t)' /\ ~Unterminated(t)'
  BY DEF PlainSpelling, Clean, NumberKinds
<1>2. Clean(t)' <=> Clean(t)
  BY DEF Clean, Covers, EmptyString, OpensLong, IsQuote, NumberKinds
<1>3. Stands(t.w, LastAt(t)) => Stands(t.w, LastAt(t))'
  BY DEF Stands, LastAt
<1> QED
  BY <1>1, <1>2, <1>3 DEF Ended

(* Without characters outside ASCII a string has as many bytes as          *)
(* characters.                                                             *)
LEMMA BytesAre ==
  ASSUME NEW s, Len(s) \in Nat, \A i \in 1..Len(s) : s[i] \notin Wide
  PROVE  Utf8Size(s) = Len(s)
<1>1. {i \in 1..Len(s) : s[i] \in Wide} = {}
  OBVIOUS
<1>2. Cardinality({i \in 1..Len(s) : s[i] \in Wide}) = 0
  BY <1>1, FS_EmptySet
<1> QED
  BY <1>2 DEF Utf8Size

-----------------------------------------------------------------------------
(* The tokens whose value is copied from the text: comments, identifiers.  *)

(* What was read from a to n is the value so far, and no line end.         *)
Copied(a, n) ==
  /\ a <= n + 1 /\ tk.str = SubSeq(text, a, n)
  /\ \A i \in tk.from..n : text[i] # NL

LEMMA CopiedSize ==
  ASSUME InText, tk.from \in Nat \ {0}, NEW a \in Nat \ {0}, tk.from <= a, NEW n \in Nat, n <= Len(text),
         Copied(a, n), \A i \in tk.from..n : text[i] \notin Wide
  PROVE  Utf8Size(tk.str) = n + 1 - a
<1>1. text \in Seq(Char) /\ a <= n + 1 /\ tk.str = SubSeq(text, a, n)
  BY DEF Copied, InText
<1>2. /\ Len(SubSeq(text, a, n)) = n + 1 - a
      /\ \A i \in 1..(n + 1 - a) : SubSeq(text, a, n)[i] = text[a + i - 1]
  BY <1>1, SubSeqAt
<1>3. n + 1 - a \in Nat
  BY <1>1
<1>4. ASSUME NEW i \in 1..(n + 1 - a)
      PROVE  tk.str[i] \notin Wide
  <2>1. a + i - 1 \in tk.from..n
    OBVIOUS
  <2>2. text[a + i - 1] \notin Wide
    BY <2>1
  <2> QED
    BY <1>1, <1>2, <2>2
<1>5. Len(tk.str) = n + 1 - a
  BY <1>1, <1>2
<1> QED
  BY <1>3, <1>4, <1>5, BytesAre

LEMMA CopiedMore ==
  ASSUME InText, text' = text, tk'.from = tk.from, NEW a \in Nat \ {0}, NEW n \in Nat, n + 1 <= Len(text),
         tk.from \in Nat, Copied(a, n), text[n + 1] # NL, tk'.str = Append(tk.str, text[n + 1])
  PROVE  Copied(a, n + 1)'
<1>1. a <= n + 1 /\ tk.str = SubSeq(text, a, n) /\ \A i \in tk.from..n : text[i] # NL
  BY DEF Copied
<1>2. SubSeq(text, a, n + 1) = Append(SubSeq(text, a, n), text[n + 1])
  BY <1>1, SubSeqMore DEF InText
<1>3. \A i \in tk.from..(n + 1) : text[i] # NL
  <2>1. \A i \in tk.from..(n + 1) : i \in tk.from..n \/ i = n + 1
    OBVIOUS
  <2> QED
    BY <1>1, <2>1
<1>4. a <= n + 1 + 1
  BY <1>1
<1>5. tk'.str = SubSeq(text, a, n + 1)
  BY <1>1, <1>2
<1> QED
  BY <1>3, <1>4, <1>5 DEF Copied

-----------------------------------------------------------------------------
(* What is known within a call.  The end column of a string leaves out the *)
(* closing quotes as long as no line end was met: they are added when the  *)
(* string ends.                                                            *)

(* There is no escape before a, and no pair of quotes in a long string.    *)
Straight(a) ==
  /\ \A i \in tk.from..(a - 1) : text[i] # "\\"
  /\ tk.long => \A i \in (tk.from + 3)..(a - 2) : text[i] # text[tk.from] \/ text[i + 1] # text[tk.from]

Measures(w, n) ==
  /\ WOK(w) /\ w.ec \in Nat /\ w.el = LineOf(text, NL, n)
  /\ w.ec + (IF tk.trail THEN QuoteLen ELSE 0) = ColOf(text, NL, n)

Measured ==
  /\ tk.trail \in BOOLEAN
  /\ ~EmptyString(tk.from) /\ Straight(lx.at) =>
       /\ Measures(tk.w, lx.at)
       /\ tk.trail \/ \E i \in tk.from..(lx.at - 1) : text[i] = NL

EndState ==
  /\ pc # "string" => Stands(tk.w, tk.from)
  /\ pc = "comment" /\ lx.at <= Len(text) => tk.from + 2 <= lx.at + 1 /\ Copied(tk.from + 2, lx.at)
  /\ pc = "ident" => tk.from < lx.at /\ Copied(tk.from, lx.at - 1)
  /\ pc \in NumberPc => text[tk.from] \in Decimal
  /\ pc = "string" => Measured

EndGoes ==
  \/ pc' = "threw" /\ toks' = toks
  \/ pc' = "idle" /\ \E t : toks' = Append(toks, t) /\ Ended(t)'
  \/ pc' \in InToken /\ toks' = toks /\ EndState'

(* A token's first character.                                              *)
LEMMA StartsAt ==
  ASSUME InText, Placed, pc = "start"
  PROVE  /\ EndState /\ Stands(tk.w, lx.at) /\ Loaded(lx)
         /\ lx.at \in Nat \ {0} /\ lx.at <= Len(text) /\ tk.from = lx.at /\ lx.cur = text[lx.at]
         /\ Len(text) \in Nat /\ "str" \in DOMAIN tk
<1>1. /\ Loose(lx) /\ Exact(lx) /\ lx.at <= Len(text) /\ tk.w = Here(lx) /\ tk.from = lx.at
      /\ "str" \in DOMAIN tk
  BY DEF Placed, TkOK
<1>2. Loaded(lx) /\ lx.at \in Nat \ {0} /\ Len(text) \in Nat
  BY <1>1, LoadedAt DEF Loose, At, InText
<1>3. lx.cur = text[lx.at]
  BY <1>1, <1>2, ReadChar
<1>4. Located(lx)
  BY <1>1, <1>2 DEF Exact
<1>5. Stands(tk.w, lx.at)
  BY <1>1, <1>4 DEF Stands, Here, WOK, Located
<1>6. EndState
  BY <1>1, <1>5 DEF EndState, NumberPc
<1> QED
  BY <1>1, <1>2, <1>3, <1>5, <1>6

LEMMA StandsNext ==
  ASSUME text' = text, tk'.w = tk.w, tk'.from = tk.from, Stands(tk.w, tk.from)
  PROVE  Stands(tk.w, tk.from)'
BY DEF Stands, WOK

LEMMA CommentStartEnds ==
  ASSUME InText, Placed, text' = text, tk.str = << >>, CommentStart
  PROVE  EndGoes
<1>1. /\ pc = "start" /\ lx.cur = "/" /\ PeekChar(lx).nxt = "/" /\ lx' = NextChar(PeekChar(lx))
      /\ pc' = "comment" /\ tk' = tk /\ toks' = toks
  BY DEF CommentStart, AtComment
<1>2. PICK f : f = lx.at
  OBVIOUS
<1>3. /\ Stands(tk.w, tk.from) /\ Loaded(lx) /\ f \in Nat \ {0} /\ f <= Len(text) /\ tk.from = f
      /\ text[f] = "/" /\ Len(text) \in Nat
  BY <1>1, <1>2, StartsAt
<1>4. lx'.at = f + 1 /\ PeekChar(lx).nxt = CharAt(f + 1)
  BY <1>1, <1>2, <1>3, PeekNext
<1>5. CharAt(f + 1) = "/" /\ f + 1 <= Len(text) /\ text[f + 1] = "/"
  BY <1>1, <1>3, <1>4, TextsAssumption DEF CharAt
<1>6. \A i \in f..(f + 1) : text[i] # NL
  <2>1. \A i \in f..(f + 1) : i = f \/ i = f + 1
    BY <1>3
  <2> QED
    BY <1>3, <1>5, <2>1, TextsAssumption
<1>7. SubSeq(text, f + 2, f + 1) = << >>
  <2>1. f + 2 \in Nat \ {0} /\ f + 1 = (f + 2) - 1
    BY <1>3
  <2> QED
    BY <2>1, SubSeqNone DEF InText
<1>8. f + 2 <= (f + 1) + 1
  BY <1>3
<1>9. Copied(f + 2, f + 1)'
  BY <1>1, <1>3, <1>6, <1>7, <1>8 DEF Copied
<1>10. Stands(tk.w, tk.from)'
  BY <1>1, <1>3, StandsNext
<1>11. EndState'
  BY <1>1, <1>3, <1>4, <1>8, <1>9, <1>10 DEF EndState, NumberPc
<1> QED
  BY <1>1, <1>11 DEF EndGoes, InToken

LEMMA CommentCharEnds ==
  ASSUME InText, Placed, EndState, text' = text, CommentChar
  PROVE  EndGoes
<1> DEFINE n == NextChar(lx)
<1>1. /\ pc = "comment" /\ n.cur # NL /\ lx' = n /\ pc' = pc /\ toks' = toks
      /\ tk' = IF n.at > Len(text) THEN tk ELSE [tk EXCEPT !.str = Append(@, n.cur)]
  BY DEF CommentChar
<1>2. /\ Loaded(lx) /\ tk.from \in Nat \ {0} /\ Len(text) \in Nat /\ "str" \in DOMAIN tk
      /\ Stands(tk.w, tk.from) /\ lx.at \in Nat
  BY <1>1, LoadedAt DEF Placed, Loose, At, InText, TkOK, EndState
<1>3. tk'.w = tk.w /\ tk'.from = tk.from
  <2>1. CASE tk' = tk
    BY <2>1
  <2>2. CASE tk' = [tk EXCEPT !.str = Append(@, n.cur)]
    BY <1>2, <2>2
  <2> QED
    BY <1>1, <2>1, <2>2
<1>4. Stands(tk.w, tk.from)'
  BY <1>2, <1>3, StandsNext
<1>5. ASSUME n.at <= Len(text)
      PROVE  tk.from + 2 <= n.at + 1 /\ Copied(tk.from + 2, lx.at)'
  <2>1. lx.at <= Len(text) /\ n.at = lx.at + 1 /\ n.cur = text[lx.at + 1]
    BY <1>2, <1>5, NextWithin
  <2>2. tk.from + 2 <= lx.at + 1 /\ Copied(tk.from + 2, lx.at)
    BY <1>1, <2>1 DEF EndState
  <2>3. tk' = [tk EXCEPT !.str = Append(@, n.cur)]
    BY <1>1, <1>2, <1>5, <2>1
  <2>4. tk'.str = Append(tk.str, text[lx.at + 1])
    BY <1>2, <2>1, <2>3
  <2>5. PICK a, m : a = tk.from + 2 /\ m = lx.at
    OBVIOUS
  <2>6. /\ a \in Nat \ {0} /\ m \in Nat /\ m + 1 <= Len(text) /\ text[m + 1] # NL /\ Copied(a, m)
        /\ tk'.str = Append(tk.str, text[m + 1]) /\ n.at = m + 1 /\ tk.from + 2 <= n.at + 1
    BY <1>1, <1>2, <1>5, <2>1, <2>2, <2>4, <2>5
  <2> HIDE DEF n
  <2>7. Copied(a, m + 1)'
    BY <1>2, <1>3, <2>6, CopiedMore
  <2> QED
    BY <1>1, <1>2, <1>3, <2>5, <2>6, <2>7 DEF Copied
<1> HIDE DEF n
<1>6. EndState'
  BY <1>1, <1>3, <1>4, <1>5 DEF EndState, NumberPc, Copied
<1> QED
  BY <1>1, <1>6 DEF EndGoes, InToken

LEMMA CommentEndEnds ==
  ASSUME InText, Placed, EndState, text' = text, CommentEnd
  PROVE  EndGoes
<1> DEFINE n == NextChar(lx)
           f == tk.from
<1>1. /\ pc = "comment" /\ n.cur = NL
      /\ Return(NextChar(n), "line_comment", Extend(tk.w, Utf8Size(tk.str) + 1), tk.str)
  BY DEF CommentEnd
<1>2. /\ Loaded(lx) /\ f \in Nat \ {0} /\ Len(text) \in Nat /\ Stands(tk.w, f) /\ lx.at \in Nat
  BY <1>1, LoadedAt DEF Placed, Loose, At, InText, EndState
<1>3. n.at <= Len(text)
  <2>1. Loaded(n) /\ n.cur # NUL
    BY <1>1, <1>2, NextCharMeans, TextsAssumption DEF InText
  <2> QED
    BY <2>1, LoadedAt
<1>4. Loaded(n) /\ lx.at <= Len(text) /\ n.at = lx.at + 1
  BY <1>2, <1>3, NextWithin
<1>5. NextChar(n).at = n.at + 1
  BY <1>3, <1>4, NextCharMeans DEF InText
<1>6. f + 2 <= lx.at + 1 /\ Copied(f + 2, lx.at)
  BY <1>1, <1>4 DEF EndState
<1>7. ASSUME NEW t, t.kind = "line_comment", t.from = f, t.to = NextChar(n).at - 1, Clean(t)
      PROVE  Stands(Extend(tk.w, Utf8Size(tk.str) + 1), LastAt(t))
  <2>1. t.to = lx.at + 1 /\ LastAt(t) = lx.at
    BY <1>2, <1>4, <1>5, <1>7 DEF LastAt
  <2>2. \A i \in f..lx.at : text[i] \notin Wide
    <3>1. \A i \in f..lx.at : i \in t.from..t.to
      BY <1>2, <1>7, <2>1
    <3> QED
      BY <1>7, <3>1 DEF Clean, Covers
  <2>3. PICK a : a = f + 2
    OBVIOUS
  <2>4. Utf8Size(tk.str) = lx.at + 1 - a
    <3>1. /\ InText /\ tk.from \in Nat \ {0} /\ a \in Nat \ {0} /\ tk.from <= a
          /\ lx.at \in Nat /\ lx.at <= Len(text) /\ Copied(a, lx.at)
      BY <1>2, <1>4, <1>6, <2>3
    <3>2. \A i \in tk.from..lx.at : text[i] \notin Wide
      BY <2>2
    <3> QED
      BY <3>1, <3>2, CopiedSize, Zenon
  <2>5. Utf8Size(tk.str) + 1 = lx.at - f
    BY <1>2, <2>3, <2>4
  <2>6. f <= lx.at /\ \A i \in f..(lx.at - 1) : text[i] # NL
    BY <1>2, <1>6 DEF Copied
  <2>7. Stands(Extend(tk.w, lx.at - f), lx.at)
    BY <1>2, <1>4, <2>6, StandsOn
  <2> QED
    BY <2>1, <2>5, <2>7
<1>8. PICK c, w, v : c = NextChar(n) /\ w = Extend(tk.w, Utf8Size(tk.str) + 1) /\ v = tk.str
  OBVIOUS
<1> HIDE DEF n
<1>9. Return(c, "line_comment", w, v)
  BY <1>1, <1>8
<1>10. PICK t : Gives(t, c, "line_comment", w, v)
  BY <1>9, ReturnGives
<1>11. /\ t.kind = "line_comment" /\ t.from = tk.from /\ t.to = c.at - 1 /\ t.w = w
       /\ pc' = "idle" /\ toks' = Append(toks, t)
  BY <1>10 DEF Gives
<1>12. Clean(t) => Stands(t.w, LastAt(t))
  BY <1>7, <1>8, <1>11
<1>13. Ended(t)'
  BY <1>12, GivenEnds
<1> QED
  BY <1>11, <1>13 DEF EndGoes

LEMMA IdentStartEnds ==
  ASSUME InText, Placed, text' = text, IdentStart
  PROVE  EndGoes
<1>1. /\ pc = "start" /\ lx.cur \in IdStart /\ lx' = NextChar(lx) /\ pc' = "ident" /\ toks' = toks
      /\ tk' = [tk EXCEPT !.str = <<lx.cur>>]
  BY DEF IdentStart
<1>2. PICK f : f = lx.at
  OBVIOUS
<1>3. /\ Stands(tk.w, tk.from) /\ Loaded(lx) /\ f \in Nat \ {0} /\ f <= Len(text) /\ tk.from = f
      /\ lx.cur = text[f] /\ Len(text) \in Nat /\ "str" \in DOMAIN tk
  BY <1>1, <1>2, StartsAt
<1>4. lx'.at = f + 1 /\ lx'.at - 1 = f
  BY <1>1, <1>2, <1>3, NextCharMeans DEF InText
<1>5. tk'.w = tk.w /\ tk'.from = f /\ tk'.str = <<text[f]>>
  BY <1>1, <1>3
<1>6. SubSeq(text, f, f) = <<text[f]>>
  <2>1. PICK e : e = f - 1
    OBVIOUS
  <2>2. e \in Nat /\ e + 1 = f /\ e = f - 1
    BY <1>3, <2>1
  <2>3. SubSeq(text, f, e) = << >>
    BY <1>3, <2>2, SubSeqNone DEF InText
  <2>4. SubSeq(text, f, e + 1) = Append(SubSeq(text, f, e), text[e + 1])
    BY <1>3, <2>2, SubSeqMore DEF InText
  <2>5. Append(<< >>, text[f]) = <<text[f]>>
    OBVIOUS
  <2> QED
    BY <2>2, <2>3, <2>4, <2>5
<1>7. \A i \in f..f : text[i] # NL
  <2>1. text[f] # NL
    BY <1>1, <1>3, TextsAssumption DEF IdStart, Letter
  <2> QED
    BY <1>3, <2>1
<1>8. Copied(f, f)'
  BY <1>3, <1>5, <1>6, <1>7 DEF Copied
<1>9. Stands(tk.w, tk.from)'
  BY <1>3, <1>5, StandsNext
<1>10. f < f + 1
  BY <1>3
<1>11. EndState'
  BY <1>1, <1>4, <1>5, <1>8, <1>9, <1>10 DEF EndState, NumberPc, Copied
<1> QED
  BY <1>1, <1>11 DEF EndGoes, InToken

LEMMA IdentCharEnds ==
  ASSUME InText, Placed, EndState, text' = text, IdentChar
  PROVE  EndGoes
<1>1. /\ pc = "ident" /\ lx.cur \in IdChar /\ lx' = NextChar(lx) /\ pc' = pc /\ toks' = toks
      /\ tk' = [tk EXCEPT !.str = Append(@, lx.cur)]
  BY DEF IdentChar
<1>2. lx.cur # NUL /\ lx.cur # NL
  BY <1>1, TextsAssumption DEF IdChar, IdStart, Letter, Decimal
<1>3. /\ Loaded(lx) /\ tk.from \in Nat \ {0} /\ Len(text) \in Nat /\ "str" \in DOMAIN tk
      /\ Stands(tk.w, tk.from) /\ lx.at \in Nat /\ lx.at <= Len(text) /\ lx.cur = text[lx.at]
  <2>1. /\ Loaded(lx) /\ tk.from \in Nat \ {0} /\ Len(text) \in Nat /\ "str" \in DOMAIN tk
        /\ Stands(tk.w, tk.from) /\ lx.at \in Nat /\ lx.at <= Len(text)
    BY <1>1, <1>2, LoadedAt DEF Placed, Loose, At, InText, TkOK, EndState
  <2> QED
    BY <2>1, ReadChar
<1>4. lx'.at = lx.at + 1
  BY <1>1, <1>3, NextCharMeans DEF InText
<1>5. tk'.w = tk.w /\ tk'.from = tk.from /\ tk'.str = Append(tk.str, text[lx.at])
  BY <1>1, <1>3
<1>6. PICK n : n = lx.at - 1
  OBVIOUS
<1>7. tk.from < lx.at /\ Copied(tk.from, n)
  BY <1>1, <1>6 DEF EndState
<1>8. n \in Nat /\ n + 1 = lx.at /\ lx'.at - 1 = n + 1 /\ n + 1 <= Len(text) /\ tk.from < lx'.at
  BY <1>3, <1>4, <1>6, <1>7
<1>9. Copied(tk.from, n + 1)'
  <2>1. PICK a : a = tk.from
    OBVIOUS
  <2>2. text[n + 1] # NL /\ tk'.str = Append(tk.str, text[n + 1])
    BY <1>2, <1>3, <1>5, <1>8
  <2>3. Copied(a, n + 1)'
    BY <1>3, <1>5, <1>7, <1>8, <2>1, <2>2, CopiedMore
  <2> QED
    BY <1>5, <2>1, <2>3 DEF Copied
<1>10. Stands(tk.w, tk.from)'
  BY <1>3, <1>5, StandsNext
<1>11. EndState'
  BY <1>1, <1>5, <1>8, <1>9, <1>10 DEF EndState, NumberPc, Copied
<1> QED
  BY <1>1, <1>11 DEF EndGoes, InToken

LEMMA IdentEndEnds ==
  ASSUME InText, Placed, EndState, text' = text, IdentEnd
  PROVE  EndGoes
<1> DEFINE f == tk.from
<1>1. /\ pc = "ident"
      /\ \E kind \in {"keyword", "identifier"} : Return(lx, kind, Extend(tk.w, Utf8Size(tk.str) - 1), tk.str)
  BY DEF IdentEnd
<1>2. PICK kind : kind \in {"keyword", "identifier"} /\ Return(lx, kind, Extend(tk.w, Utf8Size(tk.str) - 1), tk.str)
  BY <1>1
<1>3. PICK n : n = lx.at - 1
  OBVIOUS
<1>4. /\ f \in Nat \ {0} /\ Len(text) \in Nat /\ Stands(tk.w, f) /\ lx.at \in Nat
      /\ f < lx.at /\ Copied(f, n) /\ lx.at <= Len(text) + 1
  BY <1>1, <1>3, LoadedAt DEF Placed, Loose, At, InText, EndState
<1>5. n \in Nat /\ n <= Len(text) /\ f <= n
  BY <1>3, <1>4
<1>6. ASSUME NEW t, t.kind = kind, t.from = f, t.to = lx.at - 1, Clean(t)
      PROVE  Stands(Extend(tk.w, Utf8Size(tk.str) - 1), LastAt(t))
  <2>1. t.to = n /\ LastAt(t) = n
    BY <1>2, <1>3, <1>6 DEF LastAt
  <2>2. \A i \in f..n : text[i] \notin Wide
    BY <1>6, <2>1 DEF Clean, Covers
  <2>3. Utf8Size(tk.str) = n + 1 - f
    BY <1>4, <1>5, <2>2, CopiedSize
  <2>4. Utf8Size(tk.str) - 1 = n - f
    BY <1>4, <1>5, <2>3
  <2>5. \A i \in f..(n - 1) : text[i] # NL
    BY <1>4, <1>5 DEF Copied
  <2>6. Stands(Extend(tk.w, n - f), n)
    BY <1>4, <1>5, <2>5, StandsOn
  <2> QED
    BY <2>1, <2>4, <2>6
<1>7. PICK w, v : w = Extend(tk.w, Utf8Size(tk.str) - 1) /\ v = tk.str
  OBVIOUS
<1>8. Return(lx, kind, w, v)
  BY <1>2, <1>7
<1>9. PICK t : Gives(t, lx, kind, w, v)
  BY <1>8, ReturnGives
<1>10. /\ t.kind = kind /\ t.from = tk.from /\ t.to = lx.at - 1 /\ t.w = w
       /\ pc' = "idle" /\ toks' = Append(toks, t)
  BY <1>9 DEF Gives
<1>11. Clean(t) => Stands(t.w, LastAt(t))
  BY <1>6, <1>7, <1>10
<1>12. Ended(t)'
  BY <1>11, GivenEnds
<1> QED
  BY <1>10, <1>12 DEF EndGoes

-----------------------------------------------------------------------------
(* The tokens of one character or two.                                     *)
LEMMA OneEnds ==
  ASSUME InText, Placed, pc = "start", text' = text, NEW c, NEW kind, NEW val,
         Return(c, kind, tk.w, val), kind # "line_comment", c.at = lx.at + 1
  PROVE  EndGoes
<1>1. Stands(tk.w, lx.at) /\ lx.at \in Nat
  BY StartsAt
<1>2. PICK w : w = tk.w
  OBVIOUS
<1>3. PICK t : Gives(t, c, kind, w, val)
  BY <1>2, ReturnGives
<1>4. /\ t.kind = kind /\ t.to = c.at - 1 /\ t.w = w /\ pc' = "idle" /\ toks' = Append(toks, t)
  BY <1>3 DEF Gives
<1>5. LastAt(t) = lx.at
  BY <1>1, <1>4 DEF LastAt
<1>6. Ended(t)'
  BY <1>1, <1>2, <1>4, <1>5, GivenEnds
<1> QED
  BY <1>4, <1>6 DEF EndGoes

LEMMA TwoEnds ==
  ASSUME InText, Placed, pc = "start", text' = text, NEW c, NEW kind, NEW val,
         Return(c, kind, Extend(tk.w, 1), val), kind # "line_comment", c.at = lx.at + 2,
         lx.at + 1 <= Len(text), lx.cur # NL
  PROVE  EndGoes
<1>1. PICK f, g : f = lx.at /\ g = lx.at + 1
  OBVIOUS
<1>2. Stands(tk.w, f) /\ f \in Nat \ {0} /\ g \in Nat /\ g = f + 1 /\ g <= Len(text) /\ text[f] # NL
  BY <1>1, StartsAt
<1>3. Stands(Extend(tk.w, 1), g)
  <2>1. \A i \in f..(g - 1) : i = f
    BY <1>2
  <2>2. f <= g /\ g - f = 1 /\ \A i \in f..(g - 1) : text[i] # NL
    BY <1>2, <2>1
  <2>3. Stands(Extend(tk.w, g - f), g)
    BY <1>2, <2>2, StandsOn
  <2> QED
    BY <2>2, <2>3
<1>4. PICK w : w = Extend(tk.w, 1)
  OBVIOUS
<1>5. PICK t : Gives(t, c, kind, w, val)
  BY <1>4, ReturnGives
<1>6. /\ t.kind = kind /\ t.to = c.at - 1 /\ t.w = w /\ pc' = "idle" /\ toks' = Append(toks, t)
  BY <1>5 DEF Gives
<1>7. LastAt(t) = g
  BY <1>1, <1>2, <1>6 DEF LastAt
<1>8. Ended(t)'
  BY <1>3, <1>4, <1>6, <1>7, GivenEnds
<1> QED
  BY <1>6, <1>8 DEF EndGoes

LEMMA PunctuatorEnds ==
  ASSUME InText, Placed, text' = text, Punctuator
  PROVE  EndGoes
<1> DEFINE n == NextChar(lx)
<1>1. /\ pc = "start" /\ lx.cur \in Single \union Doubled
      /\ IF lx.cur \in Doubled /\ n.cur = lx.cur
         THEN Return(NextChar(n), "punctuator", Extend(tk.w, 1), <<lx.cur, lx.cur>>)
         ELSE Return(n, "punctuator", tk.w, <<lx.cur>>)
  BY DEF Punctuator
<1>2. lx.cur # NUL /\ lx.cur # NL
  BY <1>1, TextsAssumption DEF Single, Doubled
<1>3. Loaded(lx) /\ lx.at \in Nat /\ lx.at <= Len(text)
  BY <1>1, StartsAt
<1>4. n.at = lx.at + 1 /\ Loaded(n)
  BY <1>3, NextCharMeans DEF InText
<1> HIDE DEF n
<1>5. CASE ~(lx.cur \in Doubled /\ n.cur = lx.cur)
  <2>1. PICK val : val = <<lx.cur>>
    OBVIOUS
  <2>2. Return(n, "punctuator", tk.w, val)
    BY <1>1, <1>5, <2>1
  <2> QED
    BY <1>1, <1>4, <2>2, OneEnds
<1>6. CASE lx.cur \in Doubled /\ n.cur = lx.cur
  <2>1. PICK val : val = <<lx.cur, lx.cur>>
    OBVIOUS
  <2>2. Return(NextChar(n), "punctuator", Extend(tk.w, 1), val)
    BY <1>1, <1>6, <2>1
  <2>3. lx.at + 1 <= Len(text)
    BY <1>2, <1>4, <1>6, LoadedAt
  <2>4. NextChar(n).at = (lx.at + 1) + 1
    BY <1>4, <2>3, NextCharMeans DEF InText
  <2>5. NextChar(n).at = lx.at + 2
    BY <1>3, <2>4
  <2> QED
    BY <1>1, <1>2, <2>2, <2>3, <2>5, TwoEnds
<1> QED
  BY <1>5, <1>6

LEMMA UnknownEnds ==
  ASSUME InText, Placed, text' = text, Unknown
  PROVE  EndGoes
<1>1. PICK c, val : pc = "start" /\ c \in {lx, PeekChar(lx)} /\ Return(NextChar(c), "unknown", tk.w, val)
  BY DEF Unknown
<1>2. Loaded(lx) /\ lx.at \in Nat /\ lx.at <= Len(text)
  BY <1>1, StartsAt
<1>3. Loaded(c) /\ c.at = lx.at
  BY <1>1, <1>2, PeekStays DEF InText
<1>4. NextChar(c).at = lx.at + 1
  BY <1>2, <1>3, NextCharMeans DEF InText
<1> QED
  BY <1>1, <1>4, OneEnds

LEMMA NewLineEnds ==
  ASSUME InText, Placed, text' = text, NewLine
  PROVE  EndGoes
<1> DEFINE c == [lx EXCEPT !.line = @ + 1, !.col = 0]
<1>1. pc = "start" /\ Return(NextChar(c), "eol", tk.w, <<NL>>)
  BY DEF NewLine
<1>2. Loaded(lx) /\ lx.at \in Nat /\ lx.at <= Len(text)
  BY <1>1, StartsAt
<1>3. Loaded(c) /\ c.at = lx.at
  BY <1>2, RelocateOK DEF Loaded, CursorOK, CursorType
<1> HIDE DEF c
<1>4. NextChar(c).at = lx.at + 1
  BY <1>2, <1>3, NextCharMeans DEF InText
<1>5. PICK val : val = <<NL>>
  OBVIOUS
<1> QED
  BY <1>1, <1>4, <1>5, OneEnds

-----------------------------------------------------------------------------
(* Numbers: without separators and base prefix the value is as long as     *)
(* the spelling.                                                           *)
(* There is no separator from a to n.                                      *)
NoBar(a, n) == \A i \in a..n : text[i] # "_"

LEMMA DigitsLength ==
  ASSUME InText, NEW f \in Nat \ {0}, NEW n \in Nat, f <= n, n <= Len(text),
         NoBar(f, n)
  PROVE  Len(Digits(text, f)[n]) = n - f + 1
<1> DEFINE N == n - f + 1
           S == {k \in 0..N : /\ Digits(text, f)[f - 1 + k] \in Seq(Char)
                              /\ Len(Digits(text, f)[f - 1 + k]) = k}
<1> HIDE DEF S
<1>1. N \in Nat /\ text \in Seq(Char) /\ Len(text) \in Nat
  BY DEF InText
<1>2. 0 \in S
  <2>1. PICK m : m = f - 1
    OBVIOUS
  <2>2. m \in 0..Len(text) /\ m < f /\ f - 1 + 0 = m
    BY <1>1, <2>1
  <2>3. Digits(text, f)[m] = << >>
    BY <2>2, DigitsUnfold
  <2>4. << >> \in Seq(Char) /\ Len(<< >>) = 0
    OBVIOUS
  <2>5. Digits(text, f)[f - 1 + 0] \in Seq(Char) /\ Len(Digits(text, f)[f - 1 + 0]) = 0
    BY <2>2, <2>3, <2>4, Zenon
  <2>6. 0 \in 0..N
    BY <1>1
  <2> QED
    BY <2>5, <2>6, Zenon DEF S
<1>3. ASSUME NEW k \in 1..N, k - 1 \in S
      PROVE  k \in S
  <2>1. PICK m, e : m = f - 1 + k /\ e = m - 1
    OBVIOUS
  <2>2. m \in 0..Len(text) /\ ~(m < f) /\ m \in f..n /\ f - 1 + (k - 1) = e /\ m \in 1..Len(text)
    BY <1>1, <2>1
  <2>3. Digits(text, f)[e] \in Seq(Char) /\ Len(Digits(text, f)[e]) = k - 1
    BY <1>3, <2>2 DEF S
  <2>4. Digits(text, f)[m] = Append(Digits(text, f)[e], text[m])
    <3>1. Digits(text, f)[m] = IF m < f THEN << >> ELSE IF text[m] = "_" THEN Digits(text, f)[m - 1]
                               ELSE Append(Digits(text, f)[m - 1], text[m])
      BY <2>2, DigitsUnfold
    <3>2. text[m] # "_"
      BY <2>2 DEF NoBar
    <3> QED
      BY <2>1, <2>2, <3>1, <3>2
  <2>5. text[m] \in Char
    BY <1>1, <2>2
  <2>6. Digits(text, f)[m] \in Seq(Char) /\ Len(Digits(text, f)[m]) = k
    BY <2>3, <2>4, <2>5
  <2> QED
    BY <2>1, <2>6 DEF S
<1>4. N \in S
  <2> HIDE DEF N
  <2>1. \A k \in 1..N : k - 1 \in S => k \in S
    BY <1>3
  <2>2. 0..N \subseteq S
    BY <1>1, <1>2, <2>1, UpTo
  <2>3. N \in 0..N
    BY <1>1
  <2> QED
    BY <2>2, <2>3
<1>5. f - 1 + N = n
  OBVIOUS
<1> QED
  BY <1>4, <1>5 DEF S

(* What the steps within a number leave alone.                             *)
NumberKeeps == pc' \in NumberPc /\ toks' = toks /\ tk'.w = tk.w /\ tk'.from = tk.from

NumberReturns ==
  \E c, kind, str : kind \in NumberKinds /\ Return(c, kind, Extend(tk.w, Len(str) - 1), str)

LEMMA NumberNextKeeps ==
  ASSUME TkOK, NEW c, NEW state, NEW str, NEW isFloat,
         NumberNext(c, state, str, isFloat) \/ NumberEnd(c, str, isFloat)
  PROVE  NumberKeeps \/ NumberReturns
<1>1. \/ /\ pc' \in {"point", "e"} /\ toks' = toks
         /\ tk' = [tk EXCEPT !.str = str, !.isFloat = isFloat]
      \/ NumberEnd(c, str, isFloat)
  BY DEF NumberNext
<1>2. CASE pc' \in {"point", "e"} /\ toks' = toks /\ tk' = [tk EXCEPT !.str = str, !.isFloat = isFloat]
  <2>1. tk'.w = tk.w /\ tk'.from = tk.from
    BY <1>2 DEF TkOK
  <2> QED
    BY <1>2, <2>1 DEF NumberKeeps, NumberPc
<1>3. CASE NumberEnd(c, str, isFloat)
  BY <1>3 DEF NumberEnd, NumberReturns, NumberKinds
<1> QED
  BY <1>1, <1>2, <1>3

LEMMA NumberSteps ==
  ASSUME TkOK,
         \/ NumberDigit \/ NumberStop \/ FractionRange \/ FractionStart
         \/ ExponentStart \/ ExponentDigit \/ ExponentStop
  PROVE  NumberKeeps \/ NumberReturns
<1>1. CASE NumberStop \/ FractionRange \/ ExponentStop
  <2>1. \E c, state, str, isFloat : NumberNext(c, state, str, isFloat) \/ NumberEnd(c, str, isFloat)
    BY <1>1 DEF NumberStop, FractionRange, ExponentStop
  <2> QED
    BY <2>1, NumberNextKeeps
<1>2. CASE NumberDigit \/ ExponentDigit
  <2>1. pc' \in NumberPc /\ toks' = toks /\ \E str : tk' = [tk EXCEPT !.str = str]
    BY <1>2 DEF NumberDigit, ExponentDigit, NumberPc
  <2>2. tk'.w = tk.w /\ tk'.from = tk.from
    BY <2>1 DEF TkOK
  <2> QED
    BY <2>1, <2>2 DEF NumberKeeps
<1>3. CASE FractionStart \/ ExponentStart
  <2>1. pc' \in NumberPc /\ toks' = toks /\ \E str : tk' = [tk EXCEPT !.isFloat = TRUE, !.str = str]
    BY <1>3 DEF FractionStart, ExponentStart, NumberPc
  <2>2. tk'.w = tk.w /\ tk'.from = tk.from
    BY <2>1 DEF TkOK
  <2> QED
    BY <2>1, <2>2 DEF NumberKeeps
<1> QED
  BY <1>1, <1>2, <1>3

LEMMA NumberStartEnds ==
  ASSUME InText, Placed, text' = text, NumberStart
  PROVE  EndGoes
<1>1. /\ pc = "start" /\ lx.cur \in Decimal /\ pc' = "int" /\ toks' = toks
      /\ \E str, base : tk' = [tk EXCEPT !.w = Here(lx), !.str = str, !.base = base]
  BY DEF NumberStart
<1>2. /\ Stands(tk.w, lx.at) /\ tk.from = lx.at /\ lx.cur = text[lx.at] /\ tk.w = Here(lx)
      /\ {"w", "str", "base", "from"} \subseteq DOMAIN tk
  BY <1>1, StartsAt DEF Placed, TkOK
<1>3. tk'.w = tk.w /\ tk'.from = tk.from
  BY <1>1, <1>2
<1>4. Stands(tk.w, tk.from)'
  BY <1>2, <1>3, StandsNext
<1>5. EndState'
  BY <1>1, <1>2, <1>3, <1>4 DEF EndState, NumberPc
<1> QED
  BY <1>1, <1>5 DEF EndGoes, InToken

(* A number that the step returns.                                         *)
LEMMA NumberGivenEnds ==
  ASSUME InText, NEW t, t.kind \in NumberKinds, t.from = tk.from, t.to \in Nat, t.to <= Len(text),
         tk.from \in Nat \ {0}, tk.from <= t.to, text[tk.from] \in Decimal, Stands(tk.w, tk.from),
         Numbered(t), Clean(t), t.w = Extend(tk.w, Len(t.val) - 1)
  PROVE  Stands(t.w, LastAt(t))
<1> DEFINE f == tk.from
           n == t.to
<1>1. f \in Nat \ {0} /\ n \in Nat /\ f <= n /\ n <= Len(text) /\ Len(text) \in Nat
  BY DEF InText
<1>2. NoBar(f, n)
  BY DEF Clean, Covers, NoBar
<1>3. f < Len(text) => text[f + 1] \notin {"x", "b"}
  BY DEF Clean
<1>4. BaseAt(f) = 10 /\ FirstDigit(f) = f
  BY <1>3, Zenon DEF BaseAt, FirstDigit
<1>5. DigitAt(f)
  <2>1. f \in f..n
    BY <1>1
  <2>2. text[f] # "_"
    BY <1>2, <2>1, Zenon DEF NoBar
  <2>3. NumChar(10) = {"_"} \union Decimal
    BY DEF NumChar
  <2> QED
    BY <1>4, <2>2, <2>3, Zenon DEF DigitAt
<1>6. t.val = Digits(text, f)[n] /\ \A i \in f..n : text[i] # NL
  BY <1>1, <1>4, <1>5, Zenon DEF Numbered
<1>7. Len(t.val) = n - f + 1
  BY <1>1, <1>2, <1>6, DigitsLength
<1>8. LastAt(t) = n
  BY DEF LastAt, NumberKinds
<1>9. Stands(Extend(tk.w, n - f), n)
  <2>1. \A i \in f..(n - 1) : text[i] # NL
    BY <1>1, <1>6
  <2> QED
    BY <1>1, <2>1, StandsOn
<1>10. PICK k : k = Len(t.val)
  OBVIOUS
<1>11. k - 1 = n - f
  BY <1>1, <1>7, <1>10
<1> QED
  BY <1>8, <1>9, <1>10, <1>11

LEMMA NumberEnds ==
  ASSUME InText, Placed, EndState, TokensInv, pc \in NumberPc, text' = text, NumberGoes,
         Returned \/ Continued,
         \/ NumberDigit \/ NumberStop \/ FractionRange \/ FractionStart
         \/ ExponentStart \/ ExponentDigit \/ ExponentStop
  PROVE  EndGoes
<1>1. /\ TkOK /\ tk.from \in Nat \ {0} /\ Len(text) \in Nat
      /\ Stands(tk.w, tk.from) /\ text[tk.from] \in Decimal
  BY LoadedAt DEF Placed, Loose, At, InText, EndState, NumberPc
<1>2. CASE NumberKeeps
  <2>1. Stands(tk.w, tk.from)'
    BY <1>1, <1>2, StandsNext DEF NumberKeeps
  <2>2. EndState'
    BY <1>1, <1>2, <2>1 DEF EndState, NumberKeeps, NumberPc
  <2> QED
    BY <1>2, <2>2 DEF EndGoes, NumberKeeps, NumberPc, InToken
<1>3. CASE NumberReturns
  <2>1. PICK c, kind, str : kind \in NumberKinds /\ Return(c, kind, Extend(tk.w, Len(str) - 1), str)
    BY <1>3 DEF NumberReturns
  <2>2. PICK w : w = Extend(tk.w, Len(str) - 1)
    OBVIOUS
  <2>3. PICK t : Gives(t, c, kind, w, str)
    BY <2>1, <2>2, ReturnGives
  <2>4. /\ t.kind = kind /\ t.from = tk.from /\ t.to = c.at - 1 /\ t.w = w /\ t.val = str
        /\ pc' = "idle" /\ toks' = Append(toks, t) /\ lx' = c
    BY <2>1, <2>3 DEF Gives, Return
  <2>5. Numbered(t)'
    <3>1. PICK u : toks' = Append(toks, u) /\ Numbered(u)'
      BY <2>4 DEF NumberGoes, NumberPc
    <3>2. toks'[Len(toks) + 1] = t /\ toks'[Len(toks) + 1] = u
      BY <2>4, <3>1, MoreTokens
    <3> QED
      BY <3>1, <3>2
  <2>6. Numbered(t)
    BY <2>5 DEF Numbered, DigitAt, FirstDigit, BaseAt
  <2>7. Beyond(c)
    BY <2>4 DEF Returned, Continued, InToken
  <2>8. t.to \in Nat /\ t.to <= Len(text) /\ tk.from <= t.to
    <3>1. c.at \in 1..(Len(text) + 1) /\ tk.from < c.at
      BY <2>7, LoadedAt DEF Beyond
    <3> QED
      BY <1>1, <2>4, <3>1
  <2>9. Clean(t) => Stands(t.w, LastAt(t))
    BY <1>1, <2>1, <2>2, <2>4, <2>6, <2>8, NumberGivenEnds
  <2>10. Ended(t)'
    BY <2>9, GivenEnds
  <2> QED
    BY <2>4, <2>10 DEF EndGoes
<1> QED
  BY <1>1, <1>2, <1>3, NumberSteps

-----------------------------------------------------------------------------
(* Strings.                                                                *)

LEMMA MeasuresOn ==
  ASSUME InText, tk.trail \in BOOLEAN, NEW w, NEW a \in Nat \ {0}, NEW b \in Nat, Measures(w, a),
         a <= b, b <= Len(text) + 1, \A i \in a..(b - 1) : text[i] # NL
  PROVE  Measures(Extend(w, b - a), b)
<1>1. PICK k, c, q : k = b - a /\ c = ColOf(text, NL, a) /\ q = IF tk.trail THEN QuoteLen ELSE 0
  OBVIOUS
<1>2. q \in Nat
  BY <1>1 DEF QuoteLen
<1>3. /\ WOK(w) /\ w.ec \in Nat /\ w.el = LineOf(text, NL, a) /\ w.ec + q = c
  BY <1>1 DEF Measures
<1>4. /\ LineOf(text, NL, b) = LineOf(text, NL, a) /\ ColOf(text, NL, b) = c + k
      /\ k \in Nat /\ c \in Nat /\ c + k < ColWidth
  <2>1. /\ LineOf(text, NL, b) = LineOf(text, NL, a) /\ ColOf(text, NL, b) = ColOf(text, NL, a) + (b - a)
        /\ ColOf(text, NL, a) \in 1..a /\ ColOf(text, NL, b) \in 1..b
    BY Along
  <2> QED
    BY <1>1, <2>1, CursorAssumption DEF InText
<1>5. (w.ec + k) % ColWidth = w.ec + k /\ w.ec + k \in Nat
  <2>1. PICK e : e = w.ec
    OBVIOUS
  <2>2. e \in Nat /\ e + q = c
    BY <1>3, <2>1
  <2>3. e + k \in Nat /\ e + k < ColWidth /\ ColWidth \in Nat
    BY <1>2, <1>4, <2>2, CursorAssumption
  <2>4. (e + k) % ColWidth = e + k
    BY <2>3
  <2> QED
    BY <2>1, <2>3, <2>4
<1>6. WOK(Extend(w, k)) /\ Extend(w, k).el = w.el /\ Extend(w, k).ec = (w.ec + k) % ColWidth
  BY <1>3 DEF Extend, WOK
<1>7. (w.ec + k) + q = c + k
  BY <1>2, <1>3, <1>4
<1> QED
  BY <1>1, <1>3, <1>4, <1>5, <1>6, <1>7 DEF Measures

(* The end of a string that was measured up to n.                          *)
FullEnd(w) == IF tk.trail \/ w.ec = 0 THEN Extend(w, QuoteLen) ELSE w

LEMMA FullEndStands ==
  ASSUME InText, tk.trail \in BOOLEAN, NEW w, NEW n \in Nat \ {0}, n <= Len(text), Measures(w, n)
  PROVE  Stands(FullEnd(w), n)
<1>1. PICK c, q : c = ColOf(text, NL, n) /\ q = QuoteLen
  OBVIOUS
<1>2. c \in 1..n /\ q \in Nat /\ c < ColWidth /\ c \in Nat
  <2>1. c \in 1..n
    BY <1>1, ColOfStep
  <2>2. q \in Nat
    BY <1>1 DEF QuoteLen
  <2> QED
    BY <2>1, <2>2, CursorAssumption DEF InText
<1>3. /\ WOK(w) /\ w.ec \in Nat /\ w.el = LineOf(text, NL, n)
      /\ tk.trail => w.ec + q = c
      /\ ~tk.trail => w.ec + 0 = c
  BY <1>1 DEF Measures
<1>4. CASE tk.trail
  <2>1. (w.ec + q) % ColWidth = c
    <3>1. c % ColWidth = c
      BY <1>2, CursorAssumption
    <3> QED
      BY <1>3, <1>4, <3>1
  <2>2. WOK(Extend(w, q)) /\ Extend(w, q).el = w.el /\ Extend(w, q).ec = (w.ec + q) % ColWidth
    BY <1>3 DEF Extend, WOK
  <2> QED
    BY <1>1, <1>3, <1>4, <2>1, <2>2 DEF FullEnd, Stands
<1>5. CASE ~tk.trail
  <2>1. w.ec = c /\ w.ec # 0
    BY <1>2, <1>3, <1>5
  <2> QED
    BY <1>1, <1>3, <1>5, <2>1 DEF FullEnd, Stands
<1> QED
  BY <1>4, <1>5

LEMMA StringEndGives ==
  ASSUME NEW c, NEW w, NEW str, StringEnd(c, w, str)
  PROVE  \/ pc' = "threw" /\ toks' = toks
         \/ \E kind \in StringKinds : \E t : Gives(t, NextChar(c), kind, FullEnd(w), str)
<1>1. FullEnd(w) = IF tk.trail \/ w.ec = 0 THEN Extend(w, IF tk.long THEN 3 ELSE 1) ELSE w
  BY DEF FullEnd, QuoteLen
<1>2. \/ Return(NextChar(c), "rune_constant", FullEnd(w), str)
      \/ ReturnUtf8(NextChar(c), "string_constant", FullEnd(w), str)
  BY <1>1 DEF StringEnd
<1> QED
  BY <1>2, ReturnGives DEF ReturnUtf8, StringKinds

(* A token that ends at its closing quotes.                                *)
LEMMA CleanStraight ==
  ASSUME InString, At(lx), NEW t, t.from = tk.from, t.long = tk.long, Clean(t), t.to \in Nat,
         lx.at + QuoteLen - 1 <= t.to
  PROVE  ~EmptyString(tk.from) /\ Straight(lx.at)
<1>1. /\ tk.from \in Nat /\ lx.at \in Nat
  BY LoadedAt DEF At
<1>2. /\ ~EmptyString(tk.from) /\ ~Covers(t, "\\")
      /\ OpensLong(tk.from) => \A i \in (tk.from + 3)..(t.to - 4) : text[i] # text[tk.from]
  BY DEF Clean
<1>3. tk.long = OpensLong(tk.from)
  BY <1>2 DEF InString
<1>4. ASSUME NEW i \in tk.from..(lx.at - 1)
      PROVE  text[i] # "\\"
  <2>1. i \in t.from..t.to
    BY <1>1 DEF QuoteLen
  <2> QED
    BY <1>2, <2>1 DEF Covers
<1>5. ASSUME tk.long, NEW i \in (tk.from + 3)..(lx.at - 2)
      PROVE  text[i] # text[tk.from]
  <2>1. QuoteLen = 3
    BY <1>5 DEF QuoteLen
  <2>2. i \in (tk.from + 3)..(t.to - 4)
    BY <1>1, <2>1
  <2> QED
    BY <1>2, <1>3, <1>5, <2>2
<1> QED
  BY <1>2, <1>4, <1>5 DEF Straight

LEMMA StringEndEnds ==
  ASSUME InText, InString, At(lx), text' = text, tk.trail \in BOOLEAN,
         NEW c, NEW w, NEW str, StringEnd(c, w, str),
         Loaded(c), c.at <= Len(text), lx.at + QuoteLen - 1 <= c.at,
         ~EmptyString(tk.from) /\ Straight(lx.at) => Measures(w, c.at)
  PROVE  EndGoes
<1>1. c.at \in Nat \ {0} /\ NextChar(c).at = c.at + 1
  BY LoadedAt, NextCharMeans DEF InText
<1>2. CASE pc' = "threw" /\ toks' = toks
  BY <1>2 DEF EndGoes
<1>3. ASSUME NEW kind \in StringKinds, NEW t, Gives(t, NextChar(c), kind, FullEnd(w), str)
      PROVE  EndGoes
  <2>1. /\ t.kind = kind /\ t.w = FullEnd(w) /\ t.from = tk.from /\ t.to = NextChar(c).at - 1
        /\ t.long = tk.long /\ pc' = "idle" /\ toks' = Append(toks, t)
    BY <1>3 DEF Gives
  <2>2. t.to = c.at /\ LastAt(t) = c.at
    BY <1>1, <2>1 DEF LastAt, StringKinds
  <2>3. Clean(t) => Stands(t.w, LastAt(t))
    BY <1>1, <2>1, <2>2, CleanStraight, FullEndStands
  <2>4. Ended(t)'
    BY <2>3, GivenEnds
  <2> QED
    BY <2>1, <2>4 DEF EndGoes
<1> QED
  BY <1>2, <1>3, StringEndGives

LEMMA StraightLess ==
  ASSUME tk.from \in Nat, NEW a \in Nat, NEW b \in Nat, a <= b, Straight(b)
  PROVE  Straight(a)
<1>1. /\ tk.from..(a - 1) \subseteq tk.from..(b - 1)
      /\ (tk.from + 3)..(a - 2) \subseteq (tk.from + 3)..(b - 2)
  OBVIOUS
<1> QED
  BY <1>1 DEF Straight

(* The string goes on behind c.                                            *)
LEMMA StringGoesOn ==
  ASSUME InText, InString, At(lx), TkOK, Measured, text' = text, pc = "string",
         NEW c, NEW ch, Loaded(c), lx.at <= c.at, c.at <= Len(text), lx' = NextChar(c),
         pc' = pc, toks' = toks,
         NEW w, w = IF ch = NL THEN [tk.w EXCEPT !.el = @ + 1, !.ec = 1] ELSE Extend(tk.w, 1),
         NEW str, tk' = [tk EXCEPT !.str = str, !.w = w, !.trail = @ /\ ch # NL],
         \/ c.at = lx.at /\ ch = text[lx.at]
         \/ ~EmptyString(tk.from) => ~Straight(c.at + 1)
  PROVE  EndGoes
<1>1. /\ tk'.w = w /\ tk'.from = tk.from /\ tk'.long = tk.long /\ tk'.trail = (tk.trail /\ ch # NL)
      /\ tk.trail \in BOOLEAN
  BY DEF TkOK, Measured
<1>2. /\ lx.at \in Nat \ {0} /\ c.at \in Nat /\ lx'.at = c.at + 1 /\ tk.from \in Nat \ {0}
      /\ Len(text) \in Nat /\ tk.from <= lx.at
  BY LoadedAt, NextCharMeans DEF At, InText
<1>3. EmptyString(tk.from)' <=> EmptyString(tk.from)
  BY <1>1 DEF EmptyString, OpensLong, IsQuote
<1>4. Straight(lx.at)' <=> Straight(lx'.at)
  BY <1>1 DEF Straight
<1>5. QuoteLen' = QuoteLen
  BY <1>1 DEF QuoteLen
<1>6. ASSUME ~EmptyString(tk.from), Straight(c.at + 1)
      PROVE  /\ Measures(tk.w, lx.at)'
             /\ tk'.trail \/ \E i \in tk.from..(lx'.at - 1) : text[i] = NL
  <2>1. c.at = lx.at /\ ch = text[lx.at] /\ lx'.at = lx.at + 1 /\ Straight(lx.at)
    BY <1>2, <1>6, StraightLess
  <2>2. Measures(tk.w, lx.at) /\ (tk.trail \/ \E i \in tk.from..(lx.at - 1) : text[i] = NL)
    BY <1>6, <2>1 DEF Measured
  <2>3. lx.at \in tk.from..(lx'.at - 1) /\ \A i \in tk.from..(lx.at - 1) : i \in tk.from..(lx'.at - 1)
    BY <1>2, <2>1
  <2>4. tk'.trail \/ \E i \in tk.from..(lx'.at - 1) : text[i] = NL
    BY <1>1, <2>1, <2>2, <2>3
  <2>5. CASE ch = NL
    <3>1. /\ LineOf(text, NL, lx.at + 1) = LineOf(text, NL, lx.at) + 1
          /\ ColOf(text, NL, lx.at + 1) = 1
      <4>1. LineOf(text, NL, lx.at + 1) = LineOf(text, NL, lx.at) + (IF text[lx.at] = NL THEN 1 ELSE 0)
        BY <1>2, LineOfStep
      <4>2. ColOf(text, NL, lx.at + 1) = IF text[lx.at] = NL THEN 1 ELSE ColOf(text, NL, lx.at) + 1
        BY <1>2, ColOfStep
      <4> QED
        BY <2>1, <2>5, <4>1, <4>2
    <3>2. WOK(w) /\ w.el = tk.w.el + 1 /\ w.ec = 1
      BY <2>2, <2>5 DEF Measures, WOK
    <3>3. w.el = LineOf(text, NL, lx.at + 1) /\ w.ec + 0 = 1 /\ w.ec \in Nat
      BY <2>2, <3>1, <3>2 DEF Measures
    <3>4. ~tk'.trail
      BY <1>1, <2>5
    <3>5. Measures(tk.w, lx.at)'
      BY <1>1, <2>1, <3>1, <3>2, <3>3, <3>4 DEF Measures, WOK
    <3> QED
      BY <2>4, <3>5
  <2>6. CASE ch # NL
    <3>1. PICK a, b : a = lx.at /\ b = lx.at + 1
      OBVIOUS
    <3>2. /\ a \in Nat \ {0} /\ b \in Nat /\ a <= b /\ b <= Len(text) + 1 /\ b - a = 1
          /\ \A i \in a..(b - 1) : i = a
      <4>1. a \in Nat \ {0} /\ b = a + 1 /\ a <= Len(text) /\ Len(text) \in Nat
        BY <1>2, <2>1, <3>1
      <4> QED
        BY <4>1
    <3>3. Measures(Extend(tk.w, b - a), b)
      BY <1>1, <2>1, <2>2, <2>6, <3>1, <3>2, MeasuresOn
    <3>4. Measures(w, lx'.at)
      BY <2>1, <2>6, <3>1, <3>2, <3>3
    <3>5. tk'.trail = tk.trail
      BY <1>1, <2>6
    <3>6. Measures(tk.w, lx.at)'
      BY <1>1, <1>5, <3>4, <3>5 DEF Measures, WOK
    <3> QED
      BY <2>4, <3>6
  <2> QED
    BY <2>5, <2>6
<1>7. Measured'
  BY <1>1, <1>2, <1>3, <1>4, <1>6 DEF Measured
<1>8. EndState'
  BY <1>7 DEF EndState, NumberPc
<1> QED
  BY <1>8 DEF EndGoes, InToken

(* An ANY type: ' and one character.                                       *)
LEMMA AnyEnds ==
  ASSUME InText, InString, At(lx), Measured, text' = text,
         NEW c, NEW ch, Loaded(c), lx.at <= c.at, c.at <= Len(text),
         NEW w, w = IF ch = NL THEN [tk.w EXCEPT !.el = @ + 1, !.ec = 1] ELSE Extend(tk.w, 1),
         NEW val, Return(NextChar(c), "identifier", w, val),
         \/ c.at = lx.at /\ ch = text[lx.at]
         \/ ~EmptyString(tk.from) => ~Straight(c.at + 1)
  PROVE  EndGoes
<1>1. PICK t : Gives(t, NextChar(c), "identifier", w, val)
  BY ReturnGives
<1>2. /\ t.kind = "identifier" /\ t.w = w /\ t.from = tk.from /\ t.to = NextChar(c).at - 1
      /\ t.long = tk.long /\ pc' = "idle" /\ toks' = Append(toks, t)
  BY <1>1 DEF Gives
<1>3. /\ lx.at \in Nat \ {0} /\ c.at \in Nat /\ NextChar(c).at = c.at + 1 /\ tk.from \in Nat \ {0}
      /\ Len(text) \in Nat /\ tk.from <= lx.at
  BY LoadedAt, NextCharMeans DEF At, InText
<1>4. t.to = c.at /\ LastAt(t) = c.at
  BY <1>2, <1>3 DEF LastAt
<1>5. ASSUME Clean(t)
      PROVE  Stands(w, c.at)
  <2>1. /\ ~EmptyString(tk.from) /\ ~tk.long
        /\ \A i \in tk.from..c.at : text[i] # "\\" /\ text[i] # NL
    BY <1>2, <1>4, <1>5 DEF Clean, Covers
  <2>2. Straight(c.at + 1)
    BY <1>3, <2>1 DEF Straight
  <2>3. c.at = lx.at /\ ch = text[lx.at] /\ Straight(lx.at)
    BY <1>3, <2>1, <2>2, StraightLess
  <2>4. ch # NL
    BY <1>3, <2>1, <2>3
  <2>5. Measures(tk.w, lx.at) /\ tk.trail \in BOOLEAN
    BY <2>1, <2>3 DEF Measured
  <2>6. tk.trail
    <3>1. \A i \in tk.from..(lx.at - 1) : text[i] # NL
      BY <1>3, <2>1, <2>3
    <3> QED
      BY <2>1, <2>3, <3>1 DEF Measured
  <2>7. FullEnd(tk.w) = w
    BY <2>1, <2>4, <2>6 DEF FullEnd, QuoteLen
  <2> QED
    BY <1>3, <2>3, <2>5, <2>7, FullEndStands
<1>6. Ended(t)'
  BY <1>2, <1>4, <1>5, GivenEnds
<1> QED
  BY <1>2, <1>6 DEF EndGoes

LEMMA CharEnds ==
  ASSUME InText, InString, At(lx), TkOK, Measured, text' = text, pc = "string",
         NEW c, NEW ch, StringChar(c, ch), Loaded(c), lx.at <= c.at,
         NEW S, NEW d \in Seq(S), diags' = IfUnterminated(c, d),
         \/ c.at = lx.at /\ (c.at <= Len(text) => ch = text[lx.at])
         \/ ~EmptyString(tk.from) => ~Straight(c.at + 1)
  PROVE  EndGoes
<1>1. CASE ~SourceHasMore(c)
  <2>1. StringEnd(c, tk.w, tk.str)
    BY <1>1 DEF StringChar
  <2>2. ASSUME NEW kind \in StringKinds, NEW t, Gives(t, NextChar(c), kind, FullEnd(tk.w), tk.str)
        PROVE  EndGoes
    <3>1. t.from = tk.from /\ pc' = "idle" /\ toks' = Append(toks, t)
      BY <2>2 DEF Gives
    <3>2. Unterminated(t)'
      BY <1>1, <3>1, CutShort DEF Cut, Unterminated
    <3>3. Ended(t)'
      BY <3>2, GivenEnds
    <3> QED
      BY <3>1, <3>3 DEF EndGoes
  <2> QED
    BY <2>1, <2>2, StringEndGives DEF EndGoes
<1>2. CASE SourceHasMore(c)
  <2>1. PICK str, w : /\ str = Append(tk.str, ch)
                      /\ w = IF ch = NL THEN [tk.w EXCEPT !.el = @ + 1, !.ec = 1] ELSE Extend(tk.w, 1)
    OBVIOUS
  <2>2. \/ ReturnUtf8(NextChar(c), "identifier", w, <<"'">> \o str)
        \/ /\ tk' = [tk EXCEPT !.str = str, !.w = w, !.trail = @ /\ ch # NL]
           /\ lx' = NextChar(c) /\ pc' = pc /\ toks' = toks
    BY <1>2, <2>1 DEF StringChar
  <2>3. c.at <= Len(text)
    BY <1>2, HasMoreAt
  <2>4. PICK val : val = <<"'">> \o str
    OBVIOUS
  <2>5. \/ pc' = "threw" /\ toks' = toks
        \/ Return(NextChar(c), "identifier", w, val)
        \/ /\ tk' = [tk EXCEPT !.str = str, !.w = w, !.trail = @ /\ ch # NL]
           /\ lx' = NextChar(c) /\ pc' = pc /\ toks' = toks
    BY <2>2, <2>4 DEF ReturnUtf8
  <2>6. CASE Return(NextChar(c), "identifier", w, val)
    BY <2>1, <2>3, <2>6, AnyEnds
  <2>7. CASE /\ tk' = [tk EXCEPT !.str = str, !.w = w, !.trail = @ /\ ch # NL]
             /\ lx' = NextChar(c) /\ pc' = pc /\ toks' = toks
    <3>1. \/ c.at = lx.at /\ ch = text[lx.at]
          \/ ~EmptyString(tk.from) => ~Straight(c.at + 1)
      BY <2>3
    <3>2. /\ w = IF ch = NL THEN [tk.w EXCEPT !.el = @ + 1, !.ec = 1] ELSE Extend(tk.w, 1)
          /\ lx' = NextChar(c) /\ pc' = pc /\ toks' = toks
          /\ tk' = [tk EXCEPT !.str = str, !.w = w, !.trail = @ /\ ch # NL]
      BY <2>1, <2>7
    <3> QED
      BY <2>3, <3>1, <3>2, StringGoesOn
  <2> QED
    BY <2>5, <2>6, <2>7 DEF EndGoes
<1> QED
  BY <1>1, <1>2

LEMMA CloseEnds ==
  ASSUME InText, InString, At(lx), Measured, text' = text, StringClose
  PROVE  EndGoes
<1>1. /\ StringEnd(lx, tk.w, tk.str) /\ tk.long = FALSE /\ lx.cur = tk.quote /\ tk.quote # NUL
  BY TextsAssumption DEF StringClose, InString, Quote
<1>2. Loaded(lx) /\ lx.at <= Len(text) /\ lx.at \in Nat /\ QuoteLen = 1
  BY <1>1, LoadedAt DEF At, QuoteLen
<1>3. lx.at + QuoteLen - 1 <= lx.at
  BY <1>2
<1> QED
  BY <1>1, <1>2, <1>3, StringEndEnds DEF Measured

LEMMA PlainEnds ==
  ASSUME InText, InString, At(lx), TkOK, Measured, text' = text, StringPlain, NEW S, diags \in Seq(S)
  PROVE  EndGoes
<1>1. pc = "string" /\ StringChar(lx, lx.cur) /\ diags' = IfUnterminated(lx, diags)
  BY DEF StringPlain
<1>2. Loaded(lx) /\ lx.at <= lx.at /\ (lx.at <= Len(text) => lx.cur = text[lx.at])
  BY LoadedAt, ReadChar DEF At
<1> QED
  BY <1>1, <1>2, CharEnds

LEMMA LongQuoteEnds ==
  ASSUME InText, InString, At(lx), TkOK, Measured, text' = text, LongStringClose \/ LongStringQuote,
         NEW S, diags \in Seq(S)
  PROVE  EndGoes
<1>1. pc = "string" /\ AtLongQuote /\ tk.quote \in Quote /\ tk.quote # NL
  BY TextsAssumption DEF LongStringClose, LongStringQuote, AtLongQuote, InString, Quote
<1>2. PICK a : a = lx.at
  OBVIOUS
<1>3. /\ tk.long /\ QuoteLen = 3 /\ a <= Len(text) /\ a \in Nat \ {0} /\ text[a] = tk.quote
      /\ tk.from \in Nat /\ Loaded(Peek1) /\ Peek1.at = a /\ Peek1.cur = text[a] /\ Len(text) \in Nat
      /\ tk.trail \in BOOLEAN
  BY <1>1, <1>2, LongPeeks DEF InText, Measured
<1>4. CASE LongStringClose
  <2>1. Peek1.nxt = tk.quote /\ Peek2.nxt = tk.quote
    BY <1>4 DEF LongStringClose
  <2>2. /\ a + 1 <= Len(text) /\ text[a + 1] = tk.quote
        /\ a + 2 <= Len(text) /\ text[a + 2] = tk.quote
        /\ Loaded(Peek3) /\ Peek3.at = a + 2
    BY <1>1, <1>2, <2>1, LongPeeks
  <2>3. \A i \in a..((a + 3) - 1) : text[i] # NL
    <3>1. \A i \in a..((a + 3) - 1) : i = a \/ i = a + 1 \/ i = a + 2
      BY <1>3
    <3> QED
      BY <1>1, <1>3, <2>2, <3>1
  <2>4. ASSUME NEW n \in {2, 3}, ~EmptyString(tk.from), Straight(lx.at)
        PROVE  Measures(Extend(tk.w, n), a + n)
    <3>1. PICK b : b = a + n
      OBVIOUS
    <3>2. b \in Nat /\ b - a = n /\ a <= b /\ b <= Len(text) + 1 /\ \A i \in a..(b - 1) : i \in a..((a + 3) - 1)
      BY <1>3, <2>2, <3>1
    <3>3. Measures(tk.w, a)
      BY <1>2, <2>4 DEF Measured
    <3>4. Measures(Extend(tk.w, b - a), b)
      BY <1>3, <2>3, <3>2, <3>3, MeasuresOn
    <3> QED
      BY <3>1, <3>2, <3>4
  <2>5. \/ /\ Peek3.nxt = tk.quote
           /\ StringEnd(NextChar(Peek3), Extend(tk.w, 3), Append(tk.str, tk.quote))
        \/ StringEnd(Peek3, Extend(tk.w, 2), tk.str)
    BY <1>4 DEF LongStringClose
  <2>6. CASE /\ Peek3.nxt = tk.quote
             /\ StringEnd(NextChar(Peek3), Extend(tk.w, 3), Append(tk.str, tk.quote))
    <3>1. PICK c, w, str : c = NextChar(Peek3) /\ w = Extend(tk.w, 3) /\ str = Append(tk.str, tk.quote)
      OBVIOUS
    <3>2. Loaded(c) /\ c.at = a + 3 /\ c.at <= Len(text)
      BY <1>1, <1>2, <2>1, <2>6, <3>1, LongPeeks
    <3>3. lx.at + QuoteLen - 1 <= c.at
      BY <1>2, <1>3, <3>2
    <3>4. ~EmptyString(tk.from) /\ Straight(lx.at) => Measures(w, c.at)
      BY <2>4, <3>1, <3>2
    <3> QED
      BY <1>3, <2>6, <3>1, <3>2, <3>3, <3>4, StringEndEnds
  <2>7. CASE StringEnd(Peek3, Extend(tk.w, 2), tk.str)
    <3>1. lx.at + QuoteLen - 1 <= Peek3.at /\ Peek3.at <= Len(text)
      BY <1>2, <1>3, <2>2
    <3>2. PICK w : w = Extend(tk.w, 2)
      OBVIOUS
    <3>3. ~EmptyString(tk.from) /\ Straight(lx.at) => Measures(w, Peek3.at)
      BY <2>2, <2>4, <3>2
    <3> QED
      BY <1>3, <2>2, <2>7, <3>1, <3>2, <3>3, StringEndEnds
  <2> QED
    BY <2>5, <2>6, <2>7
<1>5. CASE LongStringQuote /\ Peek1.nxt # tk.quote
  <2>1. StringChar(Peek1, Peek1.cur) /\ diags' = IfUnterminated(Peek1, diags)
    BY <1>5 DEF LongStringQuote
  <2>2. lx.at <= Peek1.at /\ Peek1.at = lx.at /\ Peek1.cur = text[lx.at]
    BY <1>2, <1>3
  <2> QED
    BY <1>1, <1>3, <2>1, <2>2, CharEnds
<1>6. CASE LongStringQuote /\ Peek1.nxt = tk.quote
  <2>1. StringChar(Peek2, Peek2.cur) /\ diags' = IfUnterminated(Peek2, diags)
    BY <1>6 DEF LongStringQuote
  <2>2. /\ Loaded(Peek2) /\ Peek2.at = a + 1 /\ lx.at <= Peek2.at
        /\ a + 1 <= Len(text) /\ text[a + 1] = tk.quote
    <3>1. /\ Loaded(Peek2) /\ Peek2.at = a + 1 /\ a + 1 <= Len(text) /\ text[a + 1] = tk.quote
      BY <1>1, <1>2, <1>6, LongPeeks
    <3> QED
      BY <1>2, <1>3, <3>1
  <2>3. ASSUME ~EmptyString(tk.from)
        PROVE  ~Straight(Peek2.at + 1)
    <3>1. tk.from + 3 <= a /\ tk.quote = text[tk.from]
      BY <1>2, <1>3, <2>3 DEF InString
    <3>2. a \in (tk.from + 3)..((Peek2.at + 1) - 2)
      BY <1>3, <2>2, <3>1
    <3>3. Straight(Peek2.at + 1) => \A i \in (tk.from + 3)..((Peek2.at + 1) - 2) :
                                      text[i] # text[tk.from] \/ text[i + 1] # text[tk.from]
      BY <1>3 DEF Straight
    <3> QED
      BY <1>3, <2>2, <3>1, <3>2, <3>3
  <2> QED
    BY <1>1, <2>1, <2>2, <2>3, CharEnds
<1> QED
  BY <1>4, <1>5, <1>6

LEMMA EscapeEnds ==
  ASSUME InText, InString, At(lx), TkOK, Measured, text' = text, HexEscape \/ CharEscape,
         NEW S, diags \in Seq(S)
  PROVE  EndGoes
<1>1. pc = "string" /\ text[lx.at] = "\\" /\ lx.at \in tk.from..Len(text) /\ tk.from \in Nat
  BY EscapeChar DEF At
<1>2. PICK c, ch, d, T : /\ StringChar(c, ch) /\ Loaded(c) /\ lx.at <= c.at
                         /\ d \in Seq(T) /\ diags' = IfUnterminated(c, d)
  BY EscapeChar
<1>3. ~Straight(c.at + 1)
  <2>1. c.at \in Nat
    BY <1>2, LoadedAt
  <2>2. lx.at \in tk.from..((c.at + 1) - 1)
    BY <1>1, <1>2, <2>1
  <2> QED
    BY <1>1, <2>2 DEF Straight
<1> QED
  BY <1>1, <1>2, <1>3, CharEnds

(* The opening quotes.                                                     *)
LEMMA QuoteEnds ==
  ASSUME InText, Placed, text' = text, tk.trail = TRUE, QuoteStart
  PROVE  EndGoes
<1>1. pc = "start" /\ TkOK /\ At(lx)
  BY DEF QuoteStart, Placed, Loose
<1>2. PICK a : a = lx.at
  OBVIOUS
<1>3. /\ a \in Nat \ {0} /\ a <= Len(text) /\ tk.from = a /\ Len(text) \in Nat
  BY <1>1, <1>2, StartsAt
<1>4. PICK c, long :
           /\ StringToken(c, long) /\ long \in BOOLEAN
           /\ Loaded(c) /\ c.at <= Len(text) /\ c.cur = text[a] /\ text[a] \in Quote
           /\ ~EmptyString(a) => long = OpensLong(a) /\ c.at = a + (IF long THEN 2 ELSE 0)
  BY <1>1, <1>2, QuoteOpens
<1>5. PICK w : w = IF long THEN [Here(c) EXCEPT !.bc = (@ - 2) % ColWidth, !.ec = (@ - 2) % ColWidth]
                   ELSE Here(c)
  OBVIOUS
<1>6. /\ lx' = NextChar(c) /\ tk' = [tk EXCEPT !.w = w, !.quote = c.cur, !.long = long]
      /\ pc' = "string" /\ toks' = toks
  BY <1>4, <1>5 DEF StringToken, QuoteStart
<1>7. c.at \in Nat /\ lx'.at = c.at + 1
  BY <1>4, <1>6, LoadedAt, NextCharMeans DEF InText
<1>8. tk'.from = a /\ tk'.long = long /\ tk'.trail = TRUE /\ tk'.w = w
  BY <1>1, <1>3, <1>6 DEF TkOK
<1>9. ASSUME ~EmptyString(a)
      PROVE  Measures(tk.w, lx.at)'
  <2>1. c.at = a + (IF long THEN 2 ELSE 0) /\ QuoteLen' = (IF long THEN 3 ELSE 1)
    BY <1>4, <1>8, <1>9 DEF QuoteLen
  <2>2. text[a] # NL
    BY <1>4, TextsAssumption DEF Quote
  <2>3. \A i \in a..(lx'.at - 1) : text[i] # NL
    <3>1. CASE ~long
      <4>1. \A i \in a..(lx'.at - 1) : i = a
        BY <1>3, <1>7, <2>1, <3>1
      <4> QED
        BY <2>2, <4>1
    <3>2. CASE long
      <4>1. text[a + 1] = text[a] /\ text[a + 2] = text[a]
        BY <1>4, <1>9, <3>2 DEF OpensLong
      <4>2. \A i \in a..(lx'.at - 1) : i = a \/ i = a + 1 \/ i = a + 2
        BY <1>3, <1>7, <2>1, <3>2
      <4> QED
        BY <2>2, <4>1, <4>2
    <3> QED
      BY <3>1, <3>2
  <2>4. PICK n, q : n = lx'.at /\ q = QuoteLen'
    OBVIOUS
  <2>5. n \in Nat /\ q \in Nat /\ n = a + q /\ a <= n
    BY <1>3, <1>4, <1>7, <2>1, <2>4
  <2>6. /\ LineOf(text, NL, n) = LineOf(text, NL, a) /\ ColOf(text, NL, n) = ColOf(text, NL, a) + (n - a)
        /\ ColOf(text, NL, a) \in 1..a
    BY <1>3, <2>3, <2>4, <2>5, Along
  <2>7. WOK(w) /\ w.el = LineOf(text, NL, a) /\ w.ec = ColOf(text, NL, a)
    <3>1. Began(tk'.w)
      BY QuotePlace DEF ContinuedAt
    <3>2. WOK(w) /\ w.bl = LineOf(text, NL, a) /\ w.bc = ColOf(text, NL, a)
      BY <1>3, <1>8, <1>9, <3>1 DEF Began
    <3>3. w.el = w.bl /\ w.ec = w.bc
      BY <1>4, <1>5 DEF Here
    <3> QED
      BY <3>2, <3>3
  <2>8. w.ec + q = ColOf(text, NL, n) /\ w.ec \in Nat
    <3>1. PICK k : k = ColOf(text, NL, a)
      OBVIOUS
    <3>2. k \in Nat /\ ColOf(text, NL, n) = k + (n - a)
      BY <1>3, <2>6, <3>1
    <3>3. k + q = k + (n - a)
      BY <1>3, <2>5, <3>2
    <3> QED
      BY <2>7, <3>1, <3>2, <3>3
  <2> QED
    BY <1>8, <2>4, <2>6, <2>7, <2>8 DEF Measures, WOK
<1>10. EmptyString(tk.from)' <=> EmptyString(a)
  BY <1>8 DEF EmptyString, OpensLong, IsQuote
<1>11. Measured'
  BY <1>8, <1>9, <1>10 DEF Measured
<1>12. EndState'
  BY <1>6, <1>11 DEF EndState, NumberPc
<1> QED
  BY <1>6, <1>12 DEF EndGoes, InToken

-----------------------------------------------------------------------------
(* The invariant.  What is known within a call depends on where the token  *)
(* begins, hence on the line ends before it having been counted.           *)
AllEnded == \A k \in 1..Len(toks) : ~Uncounted(k) => Ended(toks[k])

EndInv ==
  /\ pc = "start" => "trail" \in DOMAIN tk /\ tk.trail = TRUE
  /\ Counted /\ pc \in InToken => EndState
  /\ AllEnded

LEMMA EndedKept ==
  ASSUME text' = text, Grown(diags'), NEW t, Ended(t)
  PROVE  Ended(t)'
<1>1. Unterminated(t) => Unterminated(t)'
  BY DEF Unterminated, Grown
<1>2. t.kind # "eof" /\ Clean(t) /\ ~Unterminated(t)' => Stands(t.w, LastAt(t))
  BY <1>1, PlainClean DEF Ended
<1> QED
  BY <1>2, GivenEnds

LEMMA AllEndedKept ==
  ASSUME AllEnded, TokensInv, text' = text, Grown(diags'), NEW S, diags \in Seq(S)
  PROVE  /\ toks' = toks => AllEnded' /\ (Counted' => Counted)
         /\ \A t : toks' = Append(toks, t) /\ (Counted => Ended(t)') => AllEnded' /\ (Counted' => Counted)
<1>0. PICK T : diags' \in Seq(T)
  BY DEF Grown
<1>1. Len(diags) \in Nat /\ Len(diags') \in Nat
  BY <1>0
<1>2. PICK U : toks \in Seq(U)
  BY DEF TokensInv
<1>3. Len(toks) \in Nat
  BY <1>2
<1>4. \A u : Ended(u) => Ended(u)'
  BY EndedKept
<1>5. CASE toks' = toks
  <2>1. /\ \A k \in 1..(Len(toks) + 1) : Uncounted(k) => Uncounted(k)'
        /\ Counted' => Counted
    BY <1>1, <1>3, <1>5, OldTokens
  <2>2. \A k \in 1..Len(toks) : k \in 1..(Len(toks) + 1)
    BY <1>3
  <2>3. AllEnded'
    BY <1>4, <1>5, <2>1, <2>2 DEF AllEnded
  <2> QED
    BY <2>1, <2>3
<1>6. ASSUME NEW t, toks' = Append(toks, t), Counted => Ended(t)'
      PROVE  AllEnded' /\ (Counted' => Counted)
  <2>1. /\ \A i \in 1..Len(toks) : toks'[i] = toks[i]
        /\ Len(toks') = Len(toks) + 1 /\ toks'[Len(toks) + 1] = t
    BY <1>6, MoreTokens
  <2>2. /\ \A k \in 1..(Len(toks) + 1) : Uncounted(k) => Uncounted(k)'
        /\ Counted' => Counted
    BY <1>1, <1>3, <2>1, OldTokens
  <2>3. ASSUME NEW k \in 1..Len(toks'), ~Uncounted(k)'
        PROVE  Ended(toks[k])'
    <3>1. CASE k \in 1..Len(toks)
      <4>1. ~Uncounted(k)
        BY <2>1, <2>2, <2>3
      <4>2. Ended(toks[k])
        BY <3>1, <4>1 DEF AllEnded
      <4>3. PICK u : u = toks[k]
        OBVIOUS
      <4>4. Ended(u)' /\ toks'[k] = u
        BY <1>4, <2>1, <3>1, <4>2, <4>3
      <4> QED
        BY <4>4 DEF Ended, PlainSpelling, Covers, Unterminated, Stands, LastAt
    <3>2. CASE k = Len(toks) + 1
      <4>1. Counted
        BY <1>3, <2>1, <2>2, <2>3, <3>2 DEF Uncounted, Counted
      <4>2. Ended(t)' /\ toks'[k] = t
        BY <1>6, <2>1, <3>2, <4>1
      <4> QED
        BY <4>2 DEF Ended, PlainSpelling, Covers, Unterminated, Stands, LastAt
    <3> QED
      BY <1>3, <2>1, <3>1, <3>2
  <2>4. AllEnded'
    BY <2>3 DEF AllEnded
  <2> QED
    BY <2>2, <2>4
<1> QED
  BY <1>5, <1>6

(* What a step within a call does.                                         *)
LEMMA LexEnds ==
  ASSUME CursorInv, TokensInv, PlaceInv, ValueInv, NumberInv, EndInv, Counted,
         Lex, ~SkipSpace, ~EndOfFile, Returned \/ Continued
  PROVE  EndGoes
<1>1. InText /\ text' = text /\ Locals
  BY LexFrame DEF PlaceInv, TokensInv
<1>2. Placed
  BY CallPlaced
<1>3. At(lx) /\ TkOK
  BY <1>2 DEF Placed, Loose
<1>4. PICK S : diags \in Seq(S)
  BY DEF PlaceInv
<1>5. pc \in InToken => EndState
  BY DEF EndInv
<1>6. CASE pc = "start"
  <2>1. tk.trail = TRUE /\ tk.str = << >>
    BY <1>6 DEF EndInv, ValueInv
  <2>2. \/ CommentStart \/ Punctuator \/ QuoteStart \/ IdentStart \/ NumberStart \/ NewLine \/ Unknown
    BY <1>6
    DEF Lex, CommentChar, CommentEnd, StringClose, LongStringClose, LongStringQuote, AtLongQuote, StringPlain,
        HexEscape, CharEscape, IdentChar, IdentEnd, NumberDigit, NumberStop, FractionRange, FractionStart,
        ExponentStart, ExponentDigit, ExponentStop
  <2> QED
    BY <1>1, <1>2, <2>1, <2>2, CommentStartEnds, PunctuatorEnds, QuoteEnds, IdentStartEnds, NumberStartEnds,
       NewLineEnds, UnknownEnds
<1>7. CASE pc = "comment"
  <2>1. EndState /\ (CommentChar \/ CommentEnd)
    BY <1>5, <1>7
    DEF Lex, CommentStart, Punctuator, QuoteStart, StringClose, LongStringClose, LongStringQuote, AtLongQuote,
        StringPlain, HexEscape, CharEscape, IdentStart, IdentChar, IdentEnd, NumberStart, NumberDigit,
        NumberStop, FractionRange, FractionStart, ExponentStart, ExponentDigit, ExponentStop, NewLine, Unknown,
        InToken
  <2> QED
    BY <1>1, <1>2, <2>1, CommentCharEnds, CommentEndEnds
<1>8. CASE pc = "ident"
  <2>1. EndState /\ (IdentChar \/ IdentEnd)
    BY <1>5, <1>8
    DEF Lex, CommentStart, CommentChar, CommentEnd, Punctuator, QuoteStart, StringClose, LongStringClose,
        LongStringQuote, AtLongQuote, StringPlain, HexEscape, CharEscape, IdentStart, NumberStart, NumberDigit,
        NumberStop, FractionRange, FractionStart, ExponentStart, ExponentDigit, ExponentStop, NewLine, Unknown,
        InToken
  <2> QED
    BY <1>1, <1>2, <2>1, IdentCharEnds, IdentEndEnds
<1>9. CASE pc = "string"
  <2>1. InString /\ Measured
    BY <1>5, <1>9 DEF ValueInv, EndState, InToken
  <2>2. \/ StringClose \/ LongStringClose \/ LongStringQuote \/ StringPlain \/ HexEscape \/ CharEscape
    BY <1>9
    DEF Lex, CommentStart, CommentChar, CommentEnd, Punctuator, QuoteStart, IdentStart, IdentChar, IdentEnd,
        NumberStart, NumberDigit, NumberStop, FractionRange, FractionStart, ExponentStart, ExponentDigit,
        ExponentStop, NewLine, Unknown
  <2> QED
    BY <1>1, <1>3, <1>4, <2>1, <2>2, CloseEnds, LongQuoteEnds, PlainEnds, EscapeEnds
<1>10. CASE pc \in NumberPc
  <2>1. InNumber /\ EndState /\ (pc = "point" => lx.at <= Len(text))
    BY <1>1, <1>5, <1>10 DEF NumberInv, Locals, InToken, NumberPc
  <2>2. pc = "e" => lx.at <= Len(text)
    BY <1>2 DEF Placed
  <2>3. \/ NumberDigit \/ NumberStop \/ FractionRange \/ FractionStart
        \/ ExponentStart \/ ExponentDigit \/ ExponentStop
    BY <1>10
    DEF Lex, CommentStart, CommentChar, CommentEnd, Punctuator, QuoteStart, StringClose, LongStringClose,
        LongStringQuote, AtLongQuote, StringPlain, HexEscape, CharEscape, IdentStart, IdentChar, IdentEnd,
        NumberStart, NewLine, Unknown, NumberPc
  <2>4. FractionRange \/ FractionStart => pc = "point"
    BY DEF FractionRange, FractionStart
  <2>5. NumberGoes
    BY <1>1, <1>3, <2>1, <2>2, <2>3, <2>4, NumberDigitValue, NumberStopValue, FractionValue, ExponentValue
  <2> QED
    BY <1>1, <1>2, <1>10, <2>1, <2>3, <2>5, NumberEnds
<1> QED
  BY <1>1, <1>6, <1>7, <1>8, <1>9, <1>10, LexFrame, NotThrew DEF Locals, PcType, InToken, NumberPc

LEMMA EndStep ==
  ASSUME CursorInv, TokensInv, PlaceInv, ValueInv, NumberInv, EndInv, [Next]_vars
  PROVE  EndInv'
<1>1. InText /\ AllEnded /\ Locals
  BY DEF PlaceInv, EndInv, TokensInv
<1>2. PICK S : diags \in Seq(S)
  BY DEF PlaceInv
<1>3. diags' = diags => Grown(diags')
  BY <1>2 DEF Grown
<1>4. CASE Begin
  <2>1. /\ pc' = "start" /\ toks' = toks /\ text' = text /\ diags' = diags /\ tk' = Fresh(CurChar(lx))
    BY <1>4 DEF Begin
  <2>2. "trail" \in DOMAIN tk' /\ tk'.trail = TRUE
    BY <2>1 DEF Fresh
  <2>3. AllEnded'
    BY <1>1, <1>2, <1>3, <2>1, AllEndedKept
  <2> QED
    BY <2>1, <2>2, <2>3 DEF EndInv, InToken
<1>5. CASE SkipSpace
  <2>1. /\ pc = "start" /\ pc' = "start" /\ toks' = toks /\ text' = text /\ diags' = diags
        /\ \E w, from : tk' = [tk EXCEPT !.w = w, !.from = from]
    BY <1>5 DEF SkipSpace
  <2>2. "trail" \in DOMAIN tk' /\ tk'.trail = TRUE
    BY <2>1 DEF EndInv
  <2>3. AllEnded'
    BY <1>1, <1>2, <1>3, <2>1, AllEndedKept
  <2> QED
    BY <2>1, <2>2, <2>3 DEF EndInv, InToken
<1>6. CASE EndOfFile
  <2>1. text' = text /\ diags' = diags /\ Return(lx, "eof", tk.w, << >>)
    BY <1>6 DEF EndOfFile
  <2>2. PICK val : val = << >>
    OBVIOUS
  <2>3. PICK t : Gives(t, lx, "eof", tk.w, val)
    BY <2>1, <2>2, ReturnGives
  <2>4. t.kind = "eof" /\ pc' = "idle" /\ toks' = Append(toks, t)
    BY <2>3 DEF Gives
  <2>5. Ended(t)'
    BY <2>1, <2>4, GivenEnds
  <2>6. AllEnded'
    BY <1>1, <1>2, <1>3, <2>1, <2>4, <2>5, AllEndedKept
  <2> QED
    BY <2>4, <2>6 DEF EndInv, InToken
<1>7. CASE Lex /\ ~SkipSpace /\ ~EndOfFile
  <2>1. text' = text /\ Grown(diags')
    BY <1>2, <1>7, LexFrame, LexGrows
  <2>2. Returned \/ Continued
    <3>1. Loaded(lx) /\ text \in Seq(Char)
      BY <1>1, <1>7, LexFrame DEF CursorInv, Loaded, InText
    <3> QED
      BY <1>1, <1>7, <3>1, LexResult
  <2>3. Counted => EndGoes
    BY <1>7, <2>2, LexEnds
  <2>4. CASE Continued
    <3>1. toks' = toks /\ pc' \in InToken \union {"threw"}
      BY <2>4 DEF Continued
    <3>2. AllEnded' /\ (Counted' => Counted)
      BY <1>1, <1>2, <2>1, <3>1, AllEndedKept
    <3>3. Counted' /\ pc' \in InToken => EndState'
      BY <2>3, <3>1, <3>2 DEF EndGoes, InToken
    <3> QED
      BY <3>1, <3>2, <3>3 DEF EndInv, InToken
  <2>5. CASE Returned
    <3>1. pc' = "idle" /\ \E t : toks' = Append(toks, t)
      BY <2>5 DEF Returned
    <3>2. PICK t : toks' = Append(toks, t) /\ (Counted => Ended(t)')
      <4>1. CASE ~Counted
        BY <3>1, <4>1
      <4>2. CASE Counted
        BY <2>3, <3>1, <4>2 DEF EndGoes, InToken
      <4> QED
        BY <4>1, <4>2
    <3>3. AllEnded'
      BY <1>1, <1>2, <2>1, <3>2, AllEndedKept
    <3> QED
      BY <3>1, <3>3 DEF EndInv, InToken
  <2> QED
    BY <2>2, <2>4, <2>5
<1>8. CASE UNCHANGED vars
  <2>1. text' = text /\ lx' = lx /\ pc' = pc /\ tk' = tk /\ toks' = toks /\ diags' = diags
    BY <1>8 DEF vars
  <2>2. AllEnded'
    BY <1>1, <1>2, <1>3, <2>1, AllEndedKept
  <2>3. EndState => EndState'
    BY <2>1 DEF EndState, Stands, WOK, Copied, Measured, Measures, Straight, QuoteLen, EmptyString, OpensLong,
                IsQuote, NumberPc
  <2>4. Counted' => Counted
    BY <2>1 DEF Counted, Covers
  <2> QED
    BY <2>1, <2>2, <2>3, <2>4 DEF EndInv
<1> QED
  BY <1>4, <1>5, <1>6, <1>7, <1>8 DEF Next, Lex

(* EndCorrect: whatever the text, a token that is spelled plainly ends at  *)
(* the line and column of its last character, a comment at the character   *)
(* before its line end, as long as every line end before it was returned   *)
(* as an eol token: the corrections for long strings, for a fourth closing *)
(* quote and for line ends inside strings add up.                          *)
THEOREM EndCorrect == Spec => []EndOK
<1>1. Init => EndInv
  <2> SUFFICES ASSUME Init
               PROVE  EndInv
    OBVIOUS
  <2>1. pc = "idle" /\ Len(toks) = 0
    BY DEF Init
  <2> QED
    BY <2>1 DEF EndInv, AllEnded, InToken
<1>2. CursorInv /\ TokensInv /\ PlaceInv /\ ValueInv /\ NumberInv /\ EndInv /\ [Next]_vars => EndInv'
  BY EndStep
<1>3. EndInv => EndOK
  BY DEF EndInv, AllEnded, Ended, Stands, LastAt, EndOK
<1> QED
  BY <1>1, <1>2, <1>3, CursorCorrect, TokensCovered, PlaceCorrect, ValueCorrect, NumberCorrect, PTL DEF Spec

=============================================================================
