----------------------------- MODULE CharStream -----------------------------
(***************************************************************************)
(* What u::Source promises to the lexer: Get() returns the characters of   *)
(* the text one by one, in order, each exactly once; after a call the      *)
(* location of the source is that of the character just returned; and the  *)
(* conversion to bool says whether another Get() will return a character.  *)
(***************************************************************************)
EXTENDS Text

CONSTANTS Char,     \* the characters
          NL        \* the one that ends a line

VARIABLES text,     \* the whole text
          got,      \* the characters returned so far
          line,     \* the location of the last of them
          col,
          more      \* operator bool

vars == <<text, got, line, col, more>>

TypeOK ==
  /\ text \in Seq(Char)
  /\ got \in Seq(Char)
  /\ line \in Nat \ {0}
  /\ col \in Nat
  /\ more \in BOOLEAN

Init ==
  /\ text \in Seq(Char)
  /\ got = << >>
  /\ line = 1
  /\ col = 0
  /\ more = (text # << >>)

Deliver ==
  LET n == Len(got) + 1
  IN  /\ n <= Len(text)
      /\ got' = Append(got, text[n])
      /\ line' = LineOf(text, NL, n)
      /\ col' = ColOf(text, NL, n)
      /\ more' = (n < Len(text))
      /\ UNCHANGED text

Spec == Init /\ [][Deliver]_vars

=============================================================================
