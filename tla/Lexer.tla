-------------------------------- MODULE Lexer --------------------------------
(***************************************************************************)
(* Lexer::Lex() with NumberToken() and StringToken() (lib/Lex/Lexer.cpp),  *)
(* one step per iteration of their loops.  Between calls pc = "idle"; a    *)
(* driver calls Lex() again until it has seen the end of file twice.       *)
(*                                                                         *)
(* A character is a string: "a" stands for itself, "sp" for a space or a   *)
(* tab, "NL" for the line end, "wsp" and "uni" for a space and a letter    *)
(* outside ASCII that UTF-8 encodes in two bytes.  In the value of a       *)
(* string token "hex" and "sur" stand for what an escape denotes: "sur"    *)
(* for a surrogate, which no UTF-8 string can hold, "hex" for anything     *)
(* else but the line end.                                                  *)
(***************************************************************************)
EXTENDS Cursor, SequencesExt

CONSTANT Texts      \* the texts a lexer may be given

ASSUME TextsAssumption ==
  /\ NL = "NL" /\ NUL = "NUL"
  /\ \A t \in Texts : t \in Seq(Char) /\ Len(t) + 1 < ColWidth

VARIABLES
  lx,      \* the cursor
  pc,      \* where Lex() is
  tk,      \* the local variables of Lex(), NumberToken() and StringToken()
  toks,    \* the tokens returned so far
  diags    \* the diagnostics reported so far

vars == <<text, lx, pc, tk, toks, diags>>

-----------------------------------------------------------------------------
(* Character classes.                                                      *)

Quote    == {"'", "\""}
Decimal  == {"0", "1", "8"}
Letter   == {"a", "b", "d", "e", "f", "n", "u", "x", "E", "uni"}
HexDigit == Decimal \union {"a", "b", "d", "e", "f", "E"}
IdStart  == Letter \union {"_"}
IdChar   == IdStart \union Decimal
Single   == {"-", "[", "]"}             \* PUNCTUATOR entries of TokenKinds.def
Doubled  == {"&", "|"}                  \* those that also come as && and ||
AnyEnd   == {")", "]", "sp", ",", NL}   \* what may follow an ANY type

IsSpace(ch) == ch \in {"sp", "wsp"}

Wide == {"uni", "wsp"}

Keyword == {<<"f", "n">>, <<"u", "8">>} \* of those in TokenKinds.def

(* The digits the loop of NumberToken() accepts, separators included.      *)
NumChar(base) ==
  {"_"} \union (CASE base = 10 -> Decimal [] base = 16 -> HexDigit [] base = 2 -> {"0", "1"})

(* The size of a string in bytes of UTF-8.                                 *)
Utf8Size(s) == Len(s) + Cardinality({i \in 1..Len(s) : s[i] \in Wide})

-----------------------------------------------------------------------------
Here(c) == [bl |-> c.line, bc |-> c.col, el |-> c.line, ec |-> c.col]

(* A call of Lex() starts with these; from is the index of the token's     *)
(* first character (not in the code).                                      *)
Fresh(c) ==
  [w |-> Here(c), str |-> << >>, quote |-> NUL, long |-> FALSE, trail |-> TRUE,
   base |-> 10, isFloat |-> FALSE, from |-> c.at]

(* Columns the token's end moves by.                                       *)
Extend(w, n) == [w EXCEPT !.ec = (@ + n) % ColWidth]

(* Lex() returns a token, leaving the cursor at c.                         *)
Return(c, kind, w, val) ==
  /\ lx' = c
  /\ pc' = "idle"
  /\ tk' = Fresh(c)
  /\ toks' = Append(toks, [kind |-> kind, w |-> w, val |-> val, long |-> tk.long,
                           from |-> tk.from, to |-> c.at - 1])

(* utf8::utf32to8 throws on a surrogate and no caller catches it.          *)
ReturnUtf8(c, kind, w, val) ==
  IF "sur" \in ToSet(val)
  THEN lx' = c /\ pc' = "threw" /\ UNCHANGED <<tk, toks>>
  ELSE Return(c, kind, w, val)

Init ==
  /\ text \in Texts
  /\ lx = NewCursor
  /\ pc = "idle"
  /\ tk = Fresh(NewCursor)
  /\ toks = << >>
  /\ diags = << >>

Eofs == Cardinality({i \in 1..Len(toks) : toks[i].kind = "eof"})

(* The driver calls Lex() until it has seen two end-of-file tokens.        *)
Begin ==
  /\ pc = "idle" /\ Eofs < 2
  /\ lx' = CurChar(lx)
  /\ tk' = Fresh(CurChar(lx))
  /\ pc' = "start"
  /\ UNCHANGED <<text, toks, diags>>

(* The definitions whose names end in _bug are mutants: what the           *)
(* definition after each would be with a mistake in it.  They are not part *)
(* of the specification.                                                   *)
SkipSpace_bug ==      \* no NextChar()
  /\ pc = "start" /\ IsSpace(lx.cur)
  /\ UNCHANGED vars

SkipSpace ==
  /\ pc = "start" /\ IsSpace(lx.cur)
  /\ lx' = NextChar(lx)
  /\ tk' = [tk EXCEPT !.w = Here(NextChar(lx)), !.from = NextChar(lx).at]
  /\ UNCHANGED <<text, pc, toks, diags>>

-----------------------------------------------------------------------------
(* Line comments.                                                          *)

AtComment == lx.cur = "/" /\ PeekChar(lx).nxt = "/"

CommentStart ==
  /\ pc = "start" /\ AtComment
  /\ lx' = NextChar(PeekChar(lx))
  /\ pc' = "comment"
  /\ UNCHANGED <<text, tk, toks, diags>>

(* Past the end of the source GetChar() keeps returning 0 and the comment  *)
(* keeps growing; those zeros are not recorded in str.                     *)
CommentChar ==
  LET n == NextChar(lx)
  IN  /\ pc = "comment" /\ n.cur # NL
      /\ lx' = n
      /\ tk' = IF n.at > Len(text) THEN tk ELSE [tk EXCEPT !.str = Append(@, n.cur)]
      /\ UNCHANGED <<text, pc, toks, diags>>

CommentEnd ==
  LET n == NextChar(lx)
  IN  /\ pc = "comment" /\ n.cur = NL
      /\ Return(NextChar(n), "line_comment", Extend(tk.w, Utf8Size(tk.str) + 1), tk.str)
      /\ UNCHANGED <<text, diags>>

-----------------------------------------------------------------------------
(* Punctuators: the longest one in the table.                              *)
Punctuator ==
  LET n == NextChar(lx)
  IN  /\ pc = "start" /\ lx.cur \in Single \union Doubled
      /\ IF lx.cur \in Doubled /\ n.cur = lx.cur
         THEN Return(NextChar(n), "punctuator", Extend(tk.w, 1), <<lx.cur, lx.cur>>)
         ELSE Return(n, "punctuator", tk.w, <<lx.cur>>)
      /\ UNCHANGED <<text, diags>>

-----------------------------------------------------------------------------
(* Strings.                                                                *)

(* StringToken(quote, longString) called with the cursor at c.             *)
StringToken(c, long) ==
  LET shift(w) == [w EXCEPT !.bc = (@ - 2) % ColWidth, !.ec = (@ - 2) % ColWidth]
  IN  /\ lx' = NextChar(c)
      /\ tk' = [tk EXCEPT !.w = IF long THEN shift(Here(c)) ELSE Here(c),
                          !.quote = c.cur, !.long = long]
      /\ pc' = "string"

(* Three quotes open a long string.  Of two, the first has been passed by  *)
(* the time the third character turns out to be something else, and        *)
(* StringToken() starts at the second.                                     *)
QuoteStart ==
  LET one == PeekChar(lx)
      two == PeekChar(NextChar(one))
  IN  /\ pc = "start" /\ lx.cur \in Quote
      /\ CASE one.nxt # lx.cur -> StringToken(one, FALSE)
           [] one.nxt = lx.cur /\ two.nxt # lx.cur -> StringToken(two, FALSE)
           [] one.nxt = lx.cur /\ two.nxt = lx.cur -> StringToken(NextChar(two), TRUE)
      /\ UNCHANGED <<text, toks, diags>>

(* The end of StringToken(): c is at the last closing quote.               *)
StringEnd_bug(c, w, str) ==    \* the quote is counted twice after a line end
  LET full == Extend(w, IF tk.long THEN 3 ELSE 1)
  IN  IF Len(str) = 1
      THEN Return(NextChar(c), "rune_constant", full, str)
      ELSE ReturnUtf8(NextChar(c), "string_constant", full, str)

StringEnd(c, w, str) ==
  LET full == IF tk.trail \/ w.ec = 0 THEN Extend(w, IF tk.long THEN 3 ELSE 1) ELSE w
  IN  IF Len(str) = 1
      THEN Return(NextChar(c), "rune_constant", full, str)
      ELSE ReturnUtf8(NextChar(c), "string_constant", full, str)

(* The loop body after the switch: ch is the character that was read, with *)
(* the cursor at c.                                                        *)
StringChar(c, ch) ==
  LET str  == Append(tk.str, ch)
      next == NextChar(c)
      w    == IF ch = NL THEN [tk.w EXCEPT !.el = @ + 1, !.ec = 1] ELSE Extend(tk.w, 1)
  IN  IF ~SourceHasMore(c)
      THEN StringEnd(c, tk.w, tk.str)
      ELSE IF tk.quote = "'" /\ Len(str) = 1 /\ next.cur \in AnyEnd
           THEN ReturnUtf8(next, "identifier", w, <<"'">> \o str)
           ELSE /\ lx' = next
                /\ tk' = [tk EXCEPT !.str = str, !.w = w, !.trail = @ /\ ch # NL]
                /\ UNCHANGED <<pc, toks>>

(* What a loop iteration that ends there reports.                          *)
IfUnterminated(c, d) ==
  IF SourceHasMore(c) THEN d ELSE Append(d, [id |-> "unterminated_string", from |-> tk.from])

StringClose ==
  /\ pc = "string" /\ lx.cur = tk.quote /\ ~tk.long
  /\ StringEnd(lx, tk.w, tk.str)
  /\ UNCHANGED <<text, diags>>

(* The three peeks of a long string that has met its quote.                *)
Peek1 == PeekChar(lx)
Peek2 == PeekChar(NextChar(Peek1))
Peek3 == PeekChar(NextChar(Peek2))

AtLongQuote == pc = "string" /\ lx.cur = tk.quote /\ tk.long

(* Three quotes close it; of four the first is part of the string.         *)
LongStringClose ==
  /\ AtLongQuote /\ Peek1.nxt = tk.quote /\ Peek2.nxt = tk.quote
  /\ IF Peek3.nxt = tk.quote
     THEN StringEnd(NextChar(Peek3), Extend(tk.w, 3), Append(tk.str, tk.quote))
     ELSE StringEnd(Peek3, Extend(tk.w, 2), tk.str)
  /\ UNCHANGED <<text, diags>>

(* One quote is an ordinary character; of two, one is dropped.             *)
LongStringQuote_bug ==         \* the lone quote is dropped
  /\ AtLongQuote /\ ~(Peek1.nxt = tk.quote /\ Peek2.nxt = tk.quote)
  /\ StringChar(Peek2, Peek2.cur)
  /\ diags' = IfUnterminated(Peek2, diags)
  /\ UNCHANGED text

LongStringQuote ==
  LET c == IF Peek1.nxt = tk.quote THEN Peek2 ELSE Peek1
  IN  /\ AtLongQuote /\ ~(Peek1.nxt = tk.quote /\ Peek2.nxt = tk.quote)
      /\ StringChar(c, c.cur)
      /\ diags' = IfUnterminated(c, diags)
      /\ UNCHANGED text

StringPlain ==
  /\ pc = "string" /\ lx.cur \notin {tk.quote, "\\"}
  /\ StringChar(lx, lx.cur)
  /\ diags' = IfUnterminated(lx, diags)
  /\ UNCHANGED text

(* Escapes with n hexadecimal digits.  A character that is not one counts  *)
(* as zero and is reported.                                                *)
HexDigits(ds) == [i \in 1..Len(ds) |-> IF ds[i] \in HexDigit THEN ds[i] ELSE "0"]

HexValue(ds) ==
  LET d == HexDigits(ds)
      zeros == \A i \in 1..(Len(d) - 1) : d[i] = "0"
  IN  CASE zeros /\ d[Len(d)] = "a" -> NL
        [] Len(d) = 4 /\ d[1] = "d" /\ d[2] \in HexDigit \ {"0", "1"} -> "sur"
        [] OTHER -> "hex"

BadDigits_bug(ds) ==           \* one report for the whole escape
  IF ToSet(ds) \subseteq HexDigit THEN << >>
  ELSE <<[id |-> "bad_hex_digit", from |-> tk.from]>>

BadDigits(ds) ==
  LET bad == {i \in 1..Len(ds) : ds[i] \notin HexDigit}
  IN  [i \in 1..Cardinality(bad) |-> [id |-> "bad_hex_digit", from |-> tk.from]]

HexEscape ==
  LET e  == NextChar(lx)
      c1 == NextChar(e)   c2 == NextChar(c1)
      c3 == NextChar(c2)  c4 == NextChar(c3)
      last == IF e.cur = "x" THEN c2 ELSE c4
      ds == IF e.cur = "x" THEN <<c1.cur, c2.cur>> ELSE <<c1.cur, c2.cur, c3.cur, c4.cur>>
  IN  /\ pc = "string" /\ lx.cur = "\\" /\ e.cur \in {"x", "u"}
      /\ StringChar(last, HexValue(ds))
      /\ diags' = IfUnterminated(last, diags \o BadDigits(ds))
      /\ UNCHANGED text

CharEscape ==
  LET e == NextChar(lx)
      good == {"n", "0", "\\"}       \* r and t behave as 0 does here
  IN  /\ pc = "string" /\ lx.cur = "\\" /\ e.cur \notin {"x", "u"}
      /\ StringChar(e, CASE e.cur = "n" -> NL [] e.cur = "0" -> NUL [] OTHER -> e.cur)
      /\ diags' = IfUnterminated(e, IF e.cur \in good THEN diags
                                    ELSE Append(diags, [id |-> "bad_escape_sequence",
                                                        from |-> tk.from]))
      /\ UNCHANGED text

-----------------------------------------------------------------------------
(* Identifiers and keywords.                                               *)
IdentStart ==
  /\ pc = "start" /\ lx.cur \in IdStart
  /\ lx' = NextChar(lx)
  /\ tk' = [tk EXCEPT !.str = <<lx.cur>>]
  /\ pc' = "ident"
  /\ UNCHANGED <<text, toks, diags>>

IdentChar ==
  /\ pc = "ident" /\ lx.cur \in IdChar
  /\ lx' = NextChar(lx)
  /\ tk' = [tk EXCEPT !.str = Append(@, lx.cur)]
  /\ UNCHANGED <<text, pc, toks, diags>>

IdentEnd ==
  /\ pc = "ident" /\ lx.cur \notin IdChar
  /\ Return(lx, IF tk.str \in Keyword THEN "keyword" ELSE "identifier",
            Extend(tk.w, Utf8Size(tk.str) - 1), tk.str)
  /\ UNCHANGED <<text, diags>>

-----------------------------------------------------------------------------
(* Numbers.  str is the digits handed to the conversion.                   *)

NumberStart ==
  LET p == IF lx.cur = "0" THEN PeekChar(lx) ELSE lx
      prefixed == lx.cur = "0" /\ p.nxt \in {"x", "b"}
      c == IF prefixed THEN NextChar(NextChar(p)) ELSE p
  IN  /\ pc = "start" /\ lx.cur \in Decimal
      /\ lx' = c
      /\ tk' = [tk EXCEPT !.w = Here(lx), !.str = <<c.cur>>,
                          !.base = IF ~prefixed THEN 10 ELSE IF p.nxt = "x" THEN 16 ELSE 2]
      /\ pc' = "int"
      /\ UNCHANGED <<text, toks, diags>>

(* The Intpart and Fraction loops.                                         *)
NumberDigit_bug ==             \* keeps the separators
  LET n == NextChar(lx)
  IN  /\ \/ pc = "int" /\ n.cur \in NumChar(tk.base)
         \/ pc = "frac" /\ n.cur \in NumChar(10)
      /\ lx' = n
      /\ tk' = [tk EXCEPT !.str = Append(@, n.cur)]
      /\ UNCHANGED <<text, pc, toks, diags>>

NumberDigit ==
  LET n == NextChar(lx)
  IN  /\ \/ pc = "int" /\ n.cur \in NumChar(tk.base)
         \/ pc = "frac" /\ n.cur \in NumChar(10)
      /\ lx' = n
      /\ tk' = [tk EXCEPT !.str = IF n.cur = "_" THEN @ ELSE Append(@, n.cur)]
      /\ UNCHANGED <<text, pc, toks, diags>>

(* External: llvm::APFloat::convertFromString.  A literal that has no      *)
(* exact binary value is opInexact; rounding towards zero never overflows. *)
ConvertStatus == {"opOK", "opInexact", "opUnderflow|opInexact"}

(* ConvertFloat: everything but opOK, and opOverflow or opUnderflow alone, *)
(* is reported as unknown.  ConvertInt reports nothing.                    *)
Convert(isFloat) ==
  IF isFloat
  THEN \E result \in ConvertStatus :
         IF result = "opOK" THEN UNCHANGED diags
         ELSE diags' = Append(diags, [id |-> "apreal_unknown", from |-> tk.from,
                                      result |-> result])
  ELSE UNCHANGED diags

NumberEnd(c, str, isFloat) ==
  /\ Return(c, IF isFloat THEN "real_constant" ELSE "integer_constant",
            Extend(tk.w, Len(str) - 1), str)
  /\ Convert(isFloat)

(* The transition after a state's loop has stopped at c.cur.               *)
NumberNext(c, state, str, isFloat) ==
  CASE c.cur = "." /\ state # "frac" /\ tk.base # 16 ->
         /\ lx' = c /\ pc' = "point"
         /\ tk' = [tk EXCEPT !.str = str, !.isFloat = isFloat]
         /\ UNCHANGED <<toks, diags>>
    [] c.cur \in {"e", "E"} /\ state # "exp" ->
         /\ lx' = c /\ pc' = "e"
         /\ tk' = [tk EXCEPT !.str = str, !.isFloat = isFloat]
         /\ UNCHANGED <<toks, diags>>
    [] OTHER -> NumberEnd(c, str, isFloat)

NumberStop ==
  LET n == NextChar(lx)
  IN  /\ \/ pc = "int" /\ n.cur \notin NumChar(tk.base)
         \/ pc = "frac" /\ n.cur \notin NumChar(10)
      /\ NumberNext(n, pc, tk.str, tk.isFloat)
      /\ UNCHANGED text

(* A range 1..2 or a call 1.) ends the number before the point.            *)
FractionRange ==
  LET p == PeekChar(lx)
  IN  /\ pc = "point" /\ p.nxt \in {".", ")"}
      /\ NumberEnd(p, tk.str, tk.isFloat)
      /\ UNCHANGED text

FractionStart ==
  LET p == PeekChar(lx)
  IN  /\ pc = "point" /\ p.nxt \notin {".", ")"}
      /\ lx' = p
      /\ tk' = [tk EXCEPT !.isFloat = TRUE, !.str = Append(@, ".")]
      /\ pc' = "frac"
      /\ UNCHANGED <<text, toks, diags>>

ExponentStart ==
  LET n == NextChar(lx)
      signed == n.cur \in {"+", "-"}
      e == Append(tk.str, lx.cur)
  IN  /\ pc = "e"
      /\ lx' = IF signed THEN NextChar(n) ELSE n
      /\ tk' = [tk EXCEPT !.isFloat = TRUE, !.str = IF signed THEN Append(e, n.cur) ELSE e]
      /\ pc' = "exp"
      /\ UNCHANGED <<text, toks, diags>>

ExponentDigit ==
  /\ pc = "exp" /\ lx.cur \in Decimal
  /\ lx' = NextChar(lx)
  /\ tk' = [tk EXCEPT !.str = Append(@, lx.cur)]
  /\ UNCHANGED <<text, pc, toks, diags>>

ExponentStop ==
  /\ pc = "exp" /\ lx.cur \notin Decimal
  /\ NumberNext(lx, "exp", tk.str, TRUE)
  /\ UNCHANGED text

-----------------------------------------------------------------------------
(* Line ends, the end of the file, and everything else.                    *)

NewLine_bug ==                 \* the column is not reset
  /\ pc = "start" /\ lx.cur = NL
  /\ Return(NextChar([lx EXCEPT !.line = @ + 1]), "eol", tk.w, <<NL>>)
  /\ UNCHANGED <<text, diags>>

NewLine ==
  /\ pc = "start" /\ lx.cur = NL
  /\ Return(NextChar([lx EXCEPT !.line = @ + 1, !.col = 0]), "eol", tk.w, <<NL>>)
  /\ UNCHANGED <<text, diags>>

Other(ch) == ch \notin {"sp", "wsp", NL} \union Single \union Doubled \union Quote \union IdStart \union Decimal

AtEof_bug(c) == ~SourceHasMore(c) /\ c.valid <= 1      \* the last character is lost

AtEof(c) == ~SourceHasMore(c) /\ c.valid <= 1 /\ c.cur = NUL

EndOfFile ==
  /\ pc = "start" /\ AtEof(lx)
  /\ Return(lx, "eof", tk.w, << >>)
  /\ UNCHANGED <<text, diags>>

Unknown ==
  LET c == IF lx.cur = "/" THEN PeekChar(lx) ELSE lx
  IN  /\ pc = "start" /\ Other(lx.cur) /\ ~AtComment /\ ~AtEof(lx)
      /\ Return(NextChar(c), "unknown", tk.w, <<lx.cur>>)
      /\ UNCHANGED <<text, diags>>

Lex ==
  \/ SkipSpace \/ CommentStart \/ CommentChar \/ CommentEnd \/ Punctuator
  \/ QuoteStart \/ StringClose \/ LongStringClose \/ LongStringQuote
  \/ StringPlain \/ HexEscape \/ CharEscape
  \/ IdentStart \/ IdentChar \/ IdentEnd
  \/ NumberStart \/ NumberDigit \/ NumberStop \/ FractionRange \/ FractionStart
  \/ ExponentStart \/ ExponentDigit \/ ExponentStop
  \/ NewLine \/ EndOfFile \/ Unknown

Next == Begin \/ Lex

Spec == Init /\ [][Next]_vars /\ WF_vars(Next)

=============================================================================
