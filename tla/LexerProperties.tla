--------------------------- MODULE LexerProperties ---------------------------
(***************************************************************************)
(* What the lexer must do with every text.                                 *)
(***************************************************************************)
EXTENDS Lexer

IsQuote(i) == text[i] \in Quote

(* The three quotes of a long string.                                      *)
OpensLong(i) == IsQuote(i) /\ i + 2 <= Len(text) /\ text[i + 1] = text[i] /\ text[i + 2] = text[i]

(* Two quotes that do not open a long string: the empty string, which      *)
(* Lex() reads as a string opened by the second quote.                     *)
EmptyString(i) == IsQuote(i) /\ i < Len(text) /\ text[i + 1] = text[i] /\ ~OpensLong(i)

Covers(t, ch) == \E i \in t.from..t.to : text[i] = ch

Spelling(t) == SubSeq(text, t.from, t.to)

(* A line end that was read by any token but eol: Lex() does not count it. *)
Uncounted(k) == \E j \in 1..(k - 1) : toks[j].kind # "eol" /\ Covers(toks[j], NL)

Stringy == {"string_constant", "rune_constant", "identifier"}

Unterminated(t) == \E i \in 1..Len(diags) :
  diags[i].id = "unterminated_string" /\ diags[i].from = t.from

(* A base prefix that the text ends with: NumberToken() looks for a digit   *)
(* after it.                                                               *)
BarePrefix(t) ==
  t.kind = "integer_constant" /\ t.to = t.from + 1 /\ text[t.to] \in {"x", "b"}

(* A token that ran into the end of the file and moved past it.            *)
Overrun(k) == \E j \in 1..(k - 1) : Unterminated(toks[j]) \/ BarePrefix(toks[j])

-----------------------------------------------------------------------------
(* TypeOK: the cursor, the token under construction and the results have   *)
(* the types of the members and locals of Lexer.cpp.                       *)
TypeOK ==
  /\ text \in Seq(Char)
  /\ lx \in CursorType
  /\ pc \in {"idle", "start", "comment", "string", "ident", "int", "point", "frac", "e", "exp",
             "threw"}
  /\ tk.from \in 0..(Len(text) + 1)
  /\ \A i \in 1..Len(toks) : toks[i].to \in 0..Len(text)

(* Lookahead: in every state of every call of Lex() the two-character      *)
(* buffer is in step with the source.  A Peek or Next too many in one of   *)
(* the token functions would lose or repeat a character of the text.       *)
Lookahead == LookaheadOK(lx)

(* Recorded: the SourceManager's copy of the file is the text read so far, *)
(* line by line, whatever tokens it was read for.                          *)
Recorded == LinesOK(lx)

(* BeginOK: a token begins where its first character stands, as long as    *)
(* every line end before it was returned as an eol token.  Left out: the   *)
(* empty string, and the end of file after a token that ran past it.       *)
BeginOK ==
  \A k \in 1..Len(toks) :
    LET t == toks[k]
    IN  /\ ~Uncounted(k)
        /\ t.from <= Len(text) => ~EmptyString(t.from)
        /\ t.kind = "eof" => ~Overrun(k)
        => /\ t.w.bl = LineOf(text, NL, t.from)
           /\ t.w.bc = ColOf(text, NL, t.from)

(* The tokens whose end is computed from a value that is as long as their  *)
(* spelling: no separator, base prefix, escape, or character outside       *)
(* ASCII, no ANY type made of a line end or out of a long string, and no   *)
(* quote inside a long string.                                             *)
PlainSpelling(t) ==
  /\ \A ch \in {"\\"} \union Wide : ~Covers(t, ch)
  /\ t.kind \in {"integer_constant", "real_constant"} =>
       ~Covers(t, "_") /\ (t.from < Len(text) => text[t.from + 1] \notin {"x", "b"})
  /\ t.kind = "identifier" => ~Covers(t, NL) /\ ~t.long
  /\ ~EmptyString(t.from) /\ ~Unterminated(t)
  /\ OpensLong(t.from) => \A i \in (t.from + 3)..(t.to - 4) : text[i] # text[t.from]

(* EndOK: such a token ends where its last character stands; a comment at  *)
(* the character before its line end.  The code adds up an end column as   *)
(* it goes, with corrections for long strings, a fourth closing quote and  *)
(* line ends inside strings.                                               *)
EndOK ==
  \A k \in 1..Len(toks) :
    LET t == toks[k]
        e == IF t.kind = "line_comment" THEN t.to - 1 ELSE t.to
    IN  ~Uncounted(k) /\ t.kind # "eof" /\ PlainSpelling(t) =>
          /\ t.w.el = LineOf(text, NL, e)
          /\ t.w.ec = ColOf(text, NL, e)

(* StringsOK: the value of a terminated string without escapes is the text *)
(* between its quotes, short or long; what is dropped or kept twice is     *)
(* nothing.  Left out: two adjacent quotes inside a long string, of which  *)
(* the code keeps one, and the ANY types.                                  *)
StringsOK ==
  \A k \in 1..Len(toks) :
    LET t == toks[k]
        q == IF t.long THEN 3 ELSE 1
        value == SubSeq(text, t.from + q, t.to - q)
    IN  /\ t.kind \in {"string_constant", "rune_constant"}
        /\ ~Covers(t, "\\") /\ ~EmptyString(t.from) /\ ~Unterminated(t)
        /\ \A i \in 1..(Len(value) - 1) : value[i] # text[t.from] \/ value[i + 1] # text[t.from]
        => /\ t.long = OpensLong(t.from)
           /\ t.val = value

(* The characters of s from first on without separators, up to each index. *)
Digits(s, first) ==
  LET upTo[i \in 0..Len(s)] ==
        IF i < first THEN << >>
        ELSE IF s[i] = "_" THEN upTo[i - 1] ELSE Append(upTo[i - 1], s[i])
  IN  upTo

BaseAt(i) ==
  IF i < Len(text) /\ text[i] = "0" /\ text[i + 1] \in {"x", "b"}
  THEN IF text[i + 1] = "x" THEN 16 ELSE 2
  ELSE 10

FirstDigit(i) == IF BaseAt(i) = 10 THEN i ELSE i + 2

(* NumbersOK: what a number hands to the conversion is its spelling        *)
(* without the base prefix and without separators, provided a digit of     *)
(* that base follows the prefix.                                           *)
NumbersOK ==
  \A k \in 1..Len(toks) :
    LET t == toks[k]
        first == FirstDigit(t.from)
    IN  /\ t.kind \in {"integer_constant", "real_constant"}
        /\ first <= t.to /\ text[first] \in NumChar(BaseAt(t.from)) \ {"_"}
        => t.val = Digits(text, first)[t.to]

(* The length of the escape at i in s, without the backslash.              *)
EscapeLen(s, i) == CASE s[i + 1] = "x" -> 3 [] s[i + 1] = "u" -> 5 [] OTHER -> 1

(* For each index of a string that begins at from, how much is left there  *)
(* of an escape: 0 outside of escapes, and at a backslash that begins one. *)
EscapeLeft(s, from) ==
  LET left[i \in 0..Len(s)] ==
        IF i <= from + 1 THEN 0
        ELSE LET before == left[i - 1]
             IN  IF before # 0 THEN before - 1
                 ELSE IF s[i - 1] = "\\" THEN EscapeLen(s, i - 1) ELSE 0
  IN  left

Reported(t, id) == Cardinality({i \in 1..Len(diags) : diags[i].id = id /\ diags[i].from = t.from})

(* EscapesOK: in a terminated short string an escape never takes in the    *)
(* closing quote, each escape yields one character of the value, and each  *)
(* wrong digit and each unknown escape is reported exactly once.           *)
EscapesOK ==
  \A k \in 1..Len(toks) :
    LET t == toks[k]
        left == EscapeLeft(text, t.from)
        inside == (t.from + 1)..(t.to - 1)
    IN  /\ t.kind \in {"string_constant", "rune_constant"} /\ ~t.long
        /\ ~EmptyString(t.from) /\ ~Unterminated(t)
        => /\ left[t.to] = 0
           /\ Len(t.val) = Cardinality({i \in inside : left[i] = 0})
           /\ Reported(t, "bad_escape_sequence") =
                Cardinality({i \in inside : /\ left[i - 1] = 0 /\ left[i] # 0
                                            /\ text[i] \notin {"x", "u", "n", "0", "\\"}})
           /\ Reported(t, "bad_hex_digit") =
                Cardinality({i \in inside : /\ left[i - 1] # 0 /\ left[i] # 0
                                            /\ text[i] \notin HexDigit})

(* ImplementsTokens: the sequence of calls of Lex() delivers the text      *)
(* token by token, loses nothing but spaces, always makes progress, and    *)
(* answers the end of file only at the end and then for ever.              *)
LastReal ==
  CHOOSE k \in 0..Len(toks) :
    /\ k # 0 => toks[k].kind # "eof"
    /\ \A j \in (k + 1)..Len(toks) : toks[j].kind = "eof"

Tokens == INSTANCE TokenStream WITH
  Space <- {ch \in Char : IsSpace(ch)},
  begin <- IF LastReal = 0 THEN 0 ELSE toks[LastReal].from,
  done  <- IF LastReal = 0 THEN 0 ELSE toks[LastReal].to,
  ended <- Eofs > 0

ImplementsTokens == Tokens!Spec

(* LexReturns: every call of Lex() returns to its caller.                  *)
LexReturns == (pc # "idle") ~> (pc \in {"idle", "threw"})

(* LineNumbersOK: a token after a line end is on the next line, as the     *)
(* test NewLineIncrementsLineNumberAndResetsColumn expects.                *)
LineNumbersOK ==
  \A k \in 1..Len(toks) : toks[k].w.bl = LineOf(text, NL, toks[k].from)

=============================================================================
