---------------------------- MODULE SourceManager ----------------------------
(***************************************************************************)
(* The text a SourceManager keeps of a file, from which diagnostics are    *)
(* shown (lib/Basic/SourceManager.cpp).  FileInfo.Lines is a vector of     *)
(* lines, each a vector of characters, that the lexer fills one character  *)
(* at a time with the line number the source reports.                      *)
(***************************************************************************)
EXTENDS Integers, Sequences

(* FileInfo::AddCharacter: lines that do not exist yet are created empty.  *)
AddCharacter_bug(Lines, LineNum, Ch) ==     \* mutant: resize(LineNum + 1)
  LET n == IF Len(Lines) < LineNum THEN LineNum + 1 ELSE Len(Lines)
  IN  [l \in 1..n |->
         (IF l <= Len(Lines) THEN Lines[l] ELSE << >>) \o (IF l = LineNum THEN <<Ch>> ELSE << >>)]

AddCharacter(Lines, LineNum, Ch) ==
  LET n == IF Len(Lines) < LineNum THEN LineNum ELSE Len(Lines)
  IN  [l \in 1..n |->
         (IF l <= Len(Lines) THEN Lines[l] ELSE << >>) \o (IF l = LineNum THEN <<Ch>> ELSE << >>)]

=============================================================================
