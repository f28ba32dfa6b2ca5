-------------------------------- MODULE Text --------------------------------
(***************************************************************************)
(* Where a character stands in a text.  A text is a sequence of            *)
(* characters; nl is the character that ends a line.  The position of the  *)
(* i-th character is what an editor would show: its line is one more than  *)
(* the number of line ends before it, its column counts from the last of   *)
(* those line ends.  A line end belongs to the line that it closes.        *)
(*                                                                         *)
(* These definitions are the reference the byte sources, the source        *)
(* manager and the lexer are compared with.                                *)
(***************************************************************************)
EXTENDS Integers, Sequences, FiniteSets

(* The line ends before the i-th character.                                *)
Breaks(t, nl, i) == {j \in 1..(i - 1) : t[j] = nl}

(* k is the index of the last line end before i, 0 when there is none.     *)
IsLastBreak(t, nl, i, k) ==
  /\ k \in 0..(i - 1)
  /\ k # 0 => t[k] = nl
  /\ \A j \in (k + 1)..(i - 1) : t[j] # nl

LastBreak(t, nl, i) == CHOOSE k \in 0..(i - 1) : IsLastBreak(t, nl, i, k)

LineOf(t, nl, i) == 1 + Cardinality(Breaks(t, nl, i))

ColOf(t, nl, i) == i - LastBreak(t, nl, i)

(* The first n characters of t are in lines, each where it stands, and     *)
(* nothing else is.                                                        *)
RecordedIn(lines, t, nl, n) ==
  /\ Len(lines) = IF n = 0 THEN 0 ELSE LineOf(t, nl, n)
  /\ \A i \in 1..n :
       LET l == LineOf(t, nl, i)
           k == ColOf(t, nl, i)
       IN  l \in 1..Len(lines) /\ k \in 1..Len(lines[l]) /\ lines[l][k] = t[i]
  /\ \A l \in 1..Len(lines) : \A k \in 1..Len(lines[l]) :
       \E i \in 1..n : LineOf(t, nl, i) = l /\ ColOf(t, nl, i) = k

=============================================================================
