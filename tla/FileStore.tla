----------------------------- MODULE FileStore -----------------------------
(* What an in-memory file system promises to those who add files to it: a *)
(* store of files under paths in which a file, once added, stays as it is, *)
(* and in which no file lies above or under another one.                   *)
EXTENDS Sequences, Naturals

CONSTANTS Name,       \* what a path is made of
          Contents    \* contents of a file

VARIABLE store        \* a function from paths to contents

(* r is q, or lies on the way to it.                                       *)
Under(q, r) == \E k \in 0..Len(q) : r = SubSeq(q, 1, k)

Init == store = [q \in {} |-> {}]

(* A new file, away from all others.                                       *)
Put(q, c) ==
  /\ q \in Seq(Name) /\ c \in Contents
  /\ \A r \in DOMAIN store : ~Under(q, r) /\ ~Under(r, q)
  /\ store' = [r \in DOMAIN store \union {q} |-> IF r = q THEN c ELSE store[r]]

Next == \E q \in DOMAIN store' : Put(q, store'[q])

Spec == Init /\ [][Next]_store

=============================================================================
