----------------------------- MODULE TokenStream -----------------------------
(***************************************************************************)
(* What Lexer::Lex() promises to its caller: each call returns the next    *)
(* token of the text.  A token covers at least one character, nothing but  *)
(* spaces lies between one token and the next, and once the whole text has *)
(* been covered every call returns the end of file.                        *)
(***************************************************************************)
EXTENDS Integers, Sequences

CONSTANTS Space,      \* the characters between tokens
          NUL         \* U+0000, which as the last character ends the file too

VARIABLES text,
          begin, done,  \* the last token covers text[begin..done]
          ended         \* the end of file has been returned

vars == <<text, begin, done, ended>>

Gap(i, j) == \A k \in i..j : text[k] \in Space

Init == begin = 0 /\ done = 0 /\ ended = FALSE

Token ==
  /\ ~ended
  /\ \E from \in (done + 1)..Len(text) :
       /\ Gap(done + 1, from - 1)
       /\ begin' = from
       /\ done' \in from..Len(text)
  /\ UNCHANGED <<text, ended>>

EndOfFile ==
  /\ \/ Gap(done + 1, Len(text))
     \/ Gap(done + 1, Len(text) - 1) /\ text # << >> /\ text[Len(text)] = NUL
  /\ ended' = TRUE
  /\ UNCHANGED <<text, begin, done>>

Spec == Init /\ [][Token \/ EndOfFile]_vars

=============================================================================
