------------------------------- MODULE Cursor -------------------------------
(***************************************************************************)
(* How the lexer reads its source (lib/Lex/Lexer.cpp): CurChar(),          *)
(* NextChar() and PeekChar() over a buffer of at most two characters,      *)
(* curChar_ and nextChar_, of which curValid_ are valid.  GetChar() takes  *)
(* one more character out of the source, if it has one, and records it in  *)
(* the SourceManager; at the end it returns 0.                             *)
(*                                                                         *)
(* The members these functions change are the fields of a record, and each *)
(* function is an operator from one such record to the next, because the   *)
(* lexer calls several of them in one step.  The source is the one that    *)
(* CharStream specifies: the n-th call of Get() returns text[n].           *)
(***************************************************************************)
EXTENDS Text, SourceManager

CONSTANTS
  Char,       \* the characters of a text
  NL,         \* the line end
  NUL,        \* U+0000, which GetChar() also returns at the end of the source
  ColWidth    \* columns are counted modulo this number (2^64 in the code)

ASSUME CursorAssumption ==
  /\ NL \in Char
  /\ NUL \in Char
  /\ NL # NUL
  /\ ColWidth \in Nat \ {0}

VARIABLE text  \* what the source will deliver

(* cur, nxt, valid stand for curChar_, nextChar_, curValid_; line and col  *)
(* for sourceRange_, whose begin and end always move together; lines for   *)
(* the FileInfo of this file; taken counts the calls of Get().  at is not  *)
(* in the code: it is the index of the character that cur is meant to be,  *)
(* Len(text) + 1 once the reader has moved past the end.                   *)
CursorType ==
  [cur: Char, nxt: Char, valid: 0..2, taken: Nat, line: Nat, col: 0..(ColWidth - 1),
   lines: Seq(Seq(Char)), at: Nat]

(* A new lexer.  curChar_ and nextChar_ are not initialised: NUL stands    *)
(* for whatever they hold, which no one may look at before it is valid.    *)
NewCursor ==
  [cur |-> NUL, nxt |-> NUL, valid |-> 0, taken |-> 0, line |-> 1, col |-> 0,
   lines |-> << >>, at |-> 0]

SourceHasMore(c) == c.taken < Len(text)

(* GetChar(): the character it returns, and what it leaves behind.         *)
GetChar(c) == IF SourceHasMore(c) THEN text[c.taken + 1] ELSE NUL

AfterGetChar(c) ==
  IF SourceHasMore(c)
  THEN [c EXCEPT !.taken = @ + 1,
                 !.lines = AddCharacter(@, LineOf(text, NL, c.taken + 1), GetChar(c))]
  ELSE c

(* Mutant: the character that had been peeked stays in the buffer.         *)
NextChar_bug(c) ==
  LET step == [col |-> (c.col + 1) % ColWidth,
               at  |-> IF c.at <= Len(text) THEN c.at + 1 ELSE c.at]
  IN  IF c.valid > 1
      THEN [c EXCEPT !.cur = c.nxt, !.col = step.col, !.at = step.at]
      ELSE [AfterGetChar(c) EXCEPT !.cur = GetChar(c), !.col = step.col, !.at = step.at]

(* Mutant: curValid_, an unsigned number, is counted down every time.      *)
NextChar_under_bug(c) ==
  LET step == [col |-> (c.col + 1) % ColWidth,
               at  |-> IF c.at <= Len(text) THEN c.at + 1 ELSE c.at]
  IN  IF c.valid > 1
      THEN [c EXCEPT !.cur = c.nxt, !.valid = @ - 1, !.col = step.col, !.at = step.at]
      ELSE [AfterGetChar(c) EXCEPT !.cur = GetChar(c), !.valid = @ - 1, !.col = step.col,
                                   !.at = step.at]

NextChar(c) ==
  LET step == [col |-> (c.col + 1) % ColWidth,
               at  |-> IF c.at <= Len(text) THEN c.at + 1 ELSE c.at]
  IN  IF c.valid > 1
      THEN [c EXCEPT !.cur = c.nxt, !.valid = @ - 1, !.col = step.col, !.at = step.at]
      ELSE [AfterGetChar(c) EXCEPT !.cur = GetChar(c), !.col = step.col, !.at = step.at]

PeekChar(c) ==
  IF c.valid > 1
  THEN c
  ELSE [AfterGetChar(c) EXCEPT !.nxt = GetChar(c), !.valid = @ + 1]

CurChar(c) == IF c.valid = 0 THEN [NextChar(c) EXCEPT !.valid = @ + 1] ELSE c

-----------------------------------------------------------------------------
(* The character at an index, NUL past the end.                            *)
CharAt(i) == IF i <= Len(text) THEN text[i] ELSE NUL

(* LookaheadOK: whatever sequence of calls led here, the valid part of the *)
(* buffer is what the text has at the reader's index and at the next one,  *)
(* and the source has given out exactly the characters up to there: none   *)
(* was skipped, none was read twice.                                       *)
LookaheadOK(c) ==
  /\ c.valid = 0 => c.at = 0 /\ c.taken = 0
  /\ c.valid > 0 =>
       /\ c.at \in 1..(Len(text) + 1)
       /\ c.cur = CharAt(c.at)
       /\ c.taken = IF c.at + c.valid - 1 <= Len(text) THEN c.at + c.valid - 1 ELSE Len(text)
  /\ c.valid = 2 => c.nxt = CharAt(c.at + 1)

(* LinesOK: the SourceManager holds the characters taken so far.           *)
LinesOK(c) == RecordedIn(c.lines, text, NL, c.taken)

=============================================================================
