----------------------------- MODULE MCOverlay -----------------------------
(* A base on disk, a layer in memory, and a layer on disk on top that is   *)
(* rooted at /m, where of the two names one is cut and one is kept.        *)
EXTENDS Overlay

DiskLayers == {1, 3}

M == <<"/", "m">>

RootedOnTop == <<<< >>, << >>, M>>

TheRoot == <<"/">>

Short == <<"c">>
Long  == <<"a", "b", "c">>

TwoNames == {Short, Long}

(* Both names at a time for the listing; files of several sizes, and those *)
(* that do not open, under one of them for the concatenation.              *)
Listings == [TwoNames -> {Absent, 0, Dangling, Unreadable}]
Files    == {[n \in TwoNames |-> IF n = Short THEN k ELSE Absent] : k \in UNION {Kind(l) : l \in Layer}}

AllHeld == Listings \union Files

=============================================================================
