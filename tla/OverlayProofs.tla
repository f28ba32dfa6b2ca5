---------------------------- MODULE OverlayProofs ----------------------------
(***************************************************************************)
(* Theorems about Overlay: its types, that a merged listing has everything *)
(* that its layers have, by what it is called there, and agrees with       *)
(* status() on names that are kept, that a concatenated file is what its   *)
(* layers hold and is written behind its buffer only if something grew:    *)
(* for stacks of any height, any mount points, any names and any number of *)
(* changes.                                                                *)
(*                                                                         *)
(* The listing is described layer by layer: the ones above the current one *)
(* are done with (Finished), the current one was read from a snapshot of   *)
(* its names (Reading), and what was given is right (Right).  An open is   *)
(* described by the room there is for the layers still to come (Enough),   *)
(* and, while nothing changes, by what is in the buffer (Exact).           *)
(***************************************************************************)
EXTENDS Overlay, TextProofs

Errors == {"ok", "not found", "failed"}

Reply == [cur : Name \union {End}, ec : Errors]

(* What entries may be called.                                             *)
Calls == {Called[l][n] : l \in Layer, n \in Name}

ListType ==
  [pc : {"user", "advance", "fs", "end"}, fs : 0..Height, snap : SUBSET Name, passed : SUBSET Name,
   cur : Name \union {End}, ec : Errors, seen : SUBSET Calls, given : Seq(Name \X Layer),
   due : SUBSET (Name \X Layer), lost : BOOLEAN, quiet : BOOLEAN]

Kinds == UNION {Kind(l) : l \in Layer}

Byte == {Nul} \union 0..Height

OpenType ==
  [pc : {"idle", "size", "copy", "done", "failed", "undefined", "overrun"},
   name : Name \union {End}, fs : 0..Height, size : Nat, buf : Seq(Byte),
   step : {"open", "status", "getBuffer"}, hand : Kinds \union {Absent}, linked : BOOLEAN,
   asked : Nat, quiet : BOOLEAN, grown : BOOLEAN]

FilesType ==
  /\ dir \in [Layer -> {"there", "missing", "failing"}]
  /\ entry \in [Layer -> [Name -> Kinds]]
  /\ changes \in Nat

(* What the entries of a listing are called: what it has seen, each once.  *)
NamesOf(i) == {CalledOf(i.given[k]) : k \in DOMAIN i.given}

Once(i) ==
  /\ NamesOf(i) \subseteq i.seen /\ i.seen \subseteq NamesOf(i)
  /\ \A k, m \in DOMAIN i.given : CalledOf(i.given[k]) = CalledOf(i.given[m]) => k = m

(* The iterator passes over nothing but what was seen.                     *)
Past(i) == \A n \in i.passed : Called[i.fs][n] \in i.seen

(* The layers from l up are done with: what is due there has been seen,    *)
(* and, if nothing changed, everything that they have.                     *)
Due(i, l) == \A d \in i.due : d[2] >= l => CalledOf(d) \in i.seen

Hidden(i, l) == \A k \in l..Height : \A n \in Name : ~NotFound(k, n) => Called[k][n] \in i.seen

Finished(i, l) ==
  ~i.lost => Due(i, l) /\ (i.quiet => Hidden(i, l))

(* The layer that is being read.                                           *)
Reading(i) ==
  ~i.lost =>
    /\ \A d \in i.due : d[2] = i.fs => d[1] \in i.snap
    /\ i.quiet => i.snap = Names(i.fs)

DueThere(i) == \A d \in i.due : Found(d[2], d[1])

(* What was given under its own name is what status() finds.               *)
Right(i) ==
  i.quiet /\ ~i.lost =>
    \A k \in DOMAIN i.given :
      Kept(i.given[k][1]) /\ Found(i.given[k][2], i.given[k][1])
        => Answering(i.given[k][1]) = i.given[k][2]

(* A listing within layer i.fs.                                            *)
Within(i) ==
  /\ i \in ListType /\ i.fs \in Layer
  /\ Once(i) /\ Past(i) /\ Right(i) /\ DueThere(i)
  /\ Finished(i, i.fs + 1) /\ Reading(i)

(* A listing between two calls into a layer.                               *)
Listing(i) ==
  /\ i \in ListType /\ Once(i) /\ Right(i)
  /\ i.pc \in {"user", "advance"} => Within(i) /\ dir[i.fs] = "there" /\ i.cur \in Name
  /\ i.pc = "fs" => i.fs \in Layer /\ DueThere(i) /\ Finished(i, i.fs)
  /\ i.pc = "end" /\ i.ec = "ok" /\ ~i.lost => \A d \in i.due : CalledOf(d) \in i.seen

(* What a layer may answer within a listing.                               *)
Answers(i, r) ==
  /\ r \in Reply
  /\ r.ec = "ok" /\ r.cur # End => dir[i.fs] = "there"
  /\ r.ec = "ok" /\ r.cur = End /\ ~i.lost =>
       /\ i.snap \intersect Names(i.fs) \subseteq i.passed
       /\ \A n \in Name : ~NotFound(i.fs, n) => n \in Names(i.fs)

ListInv == FilesType /\ Listing(list)

-----------------------------------------------------------------------------
LEMMA FoundAnswers ==
  ASSUME NEW l, NEW n, Found(l, n)
  PROVE  Has(l, n) /\ ~NotFound(l, n)
  BY OverlayAssumption DEF Found, Has, NotFound

LEMMA CalledType ==
  ASSUME NEW l \in Layer, NEW n \in Name
  PROVE  Called[l][n] \in Calls
  BY DEF Calls

(* The uppermost layer that does not say "not found" answers.              *)
LEMMA Answered ==
  ASSUME NEW l \in Layer, NEW n, Found(l, n), \A k \in (l + 1)..Height : NotFound(k, n)
  PROVE  Answering(n) = l
<1> DEFINE Is(x) == /\ x # 0 => ~NotFound(x, n)
                    /\ \A k \in (x + 1)..Height : NotFound(k, n)
<1>1. Is(l) /\ l \in 0..Height /\ Height \in Nat
  BY FoundAnswers, OverlayAssumption DEF Layer
<1>2. ASSUME NEW x \in 0..Height, Is(x)
      PROVE  x = l
  <2>1. ~(x < l)
    BY <1>1, <1>2 DEF Layer
  <2>2. ~(x > l)
    BY <1>1, <1>2 DEF Layer
  <2> QED
    BY <1>1, <2>1, <2>2 DEF Layer
<1> QED
  BY <1>1, <1>2 DEF Answering

(* A turn that leaves the history of the listing alone.                    *)
LEMMA SameHistory ==
  ASSUME NEW i, NEW t, Within(i), t \in ListType,
         t.fs = i.fs, t.snap = i.snap, t.seen = i.seen, t.given = i.given, t.due = i.due,
         t.lost = i.lost, t.quiet = i.quiet,
         Past(t)
  PROVE  Within(t)
<1>1. Once(t)
  BY DEF Within, Once, NamesOf
<1>2. Right(t)
  BY DEF Within, Right
<1>3. DueThere(t)
  BY DEF Within, DueThere
<1>4. Finished(t, t.fs + 1)
  BY DEF Within, Finished, Due, Hidden
<1>5. Reading(t)
  BY DEF Within, Reading
<1> QED
  BY <1>1, <1>2, <1>3, <1>4, <1>5 DEF Within

(* The layer of a listing is done with when its iterator comes to the end. *)
LEMMA LayerDone ==
  ASSUME NEW i, NEW r, Within(i), Answers(i, r), r.ec = "ok", r.cur = End
  PROVE  Finished(i, i.fs)
<1>1. i \in ListType /\ i.fs \in Layer /\ Past(i)
  BY DEF Within
<1> SUFFICES ASSUME ~i.lost
             PROVE  Due(i, i.fs) /\ (i.quiet => Hidden(i, i.fs))
  BY DEF Finished
<1>2. \A n \in i.snap \intersect Names(i.fs) : Called[i.fs][n] \in i.seen
  BY <1>1 DEF Answers, Past
<1>3. ASSUME NEW d \in i.due, d[2] >= i.fs
      PROVE  CalledOf(d) \in i.seen
  <2>1. d \in Name \X Layer /\ Found(d[2], d[1])
    BY <1>1 DEF ListType, Within, DueThere
  <2>2. CASE d[2] = i.fs
    <3>1. d[1] \in i.snap
      BY <2>2 DEF Within, Reading
    <3>2. d[1] \in Names(i.fs)
      BY <2>1, <2>2, FoundAnswers DEF Names
    <3> QED
      BY <1>2, <2>2, <3>1, <3>2 DEF CalledOf
  <2>3. CASE d[2] # i.fs
    <3>1. d[2] >= i.fs + 1
      BY <1>1, <1>3, <2>1, <2>3, OverlayAssumption DEF Layer
    <3> QED
      BY <3>1 DEF Within, Finished, Due
  <2> QED
    BY <2>2, <2>3
<1>4. ASSUME i.quiet, NEW k \in i.fs..Height, NEW n \in Name, ~NotFound(k, n)
      PROVE  Called[k][n] \in i.seen
  <2>1. CASE k = i.fs
    <3>1. n \in Names(i.fs) /\ i.snap = Names(i.fs)
      BY <1>4, <2>1 DEF Answers, Within, Reading
    <3> QED
      BY <1>2, <2>1, <3>1
  <2>2. CASE k # i.fs
    <3>1. k \in (i.fs + 1)..Height
      BY <1>1, <2>2, OverlayAssumption DEF Layer
    <3> QED
      BY <1>4, <3>1 DEF Within, Finished, Hidden
  <2> QED
    BY <2>1, <2>2
<1> QED
  BY <1>3, <1>4 DEF Due, Hidden

(* What was not seen before is given from the layer in which it is.        *)
LEMMA Given1 ==
  ASSUME NEW i, NEW t, NEW n \in Name, Called[i.fs][n] \notin i.seen, Within(i), t \in ListType,
         t.fs = i.fs, t.snap = i.snap, t.due = i.due, t.lost = i.lost, t.quiet = i.quiet,
         t.seen = i.seen \union {Called[i.fs][n]}, t.passed = i.passed \union {n},
         t.given = Append(i.given, <<n, i.fs>>)
  PROVE  Within(t)
<1>1. i \in ListType /\ i.fs \in Layer /\ i.given \in Seq(Name \X Layer)
  BY DEF Within, ListType
<1>2. /\ DOMAIN t.given = 1..(Len(i.given) + 1) /\ DOMAIN i.given = 1..Len(i.given)
      /\ Len(i.given) \in Nat
      /\ t.given[Len(i.given) + 1] = <<n, i.fs>>
      /\ \A k \in 1..Len(i.given) : t.given[k] = i.given[k]
  BY <1>1
<1>20. CalledOf(<<n, i.fs>>) = Called[i.fs][n]
  BY DEF CalledOf
<1>3. Once(t)
  <2>1. NamesOf(i) = i.seen
    BY DEF Within, Once
  <2>2. \A k \in DOMAIN i.given : CalledOf(i.given[k]) \in i.seen
    BY <2>1 DEF NamesOf
  <2>3. NamesOf(t) = t.seen
    <3>1. \A x \in NamesOf(t) : x \in t.seen
      BY <1>2, <1>20, <2>2 DEF NamesOf
    <3>2. \A x \in t.seen : x \in NamesOf(t)
      <4>1. Called[i.fs][n] \in NamesOf(t)
        <5>1. Len(i.given) + 1 \in DOMAIN t.given
          BY <1>2
        <5>2. CalledOf(t.given[Len(i.given) + 1]) = Called[i.fs][n]
          BY <1>2, <1>20
        <5> QED
          BY <5>1, <5>2 DEF NamesOf
      <4>2. NamesOf(i) \subseteq NamesOf(t)
        BY <1>2 DEF NamesOf
      <4> QED
        BY <2>1, <4>1, <4>2
    <3> QED
      BY <3>1, <3>2
  <2>4. ASSUME NEW k \in DOMAIN t.given, NEW m \in DOMAIN t.given,
               CalledOf(t.given[k]) = CalledOf(t.given[m])
        PROVE  k = m
    <3>1. \A x, y \in DOMAIN i.given : CalledOf(i.given[x]) = CalledOf(i.given[y]) => x = y
      BY DEF Within, Once
    <3> QED
      BY <1>2, <1>20, <2>2, <2>4, <3>1
  <2> QED
    BY <2>1, <2>3, <2>4 DEF Once
<1>4. Right(t)
  <2> SUFFICES ASSUME i.quiet, ~i.lost, NEW k \in DOMAIN t.given,
                      Kept(t.given[k][1]), Found(t.given[k][2], t.given[k][1])
               PROVE  Answering(t.given[k][1]) = t.given[k][2]
    BY DEF Right
  <2>1. CASE k = Len(i.given) + 1
    <3>1. t.given[k] = <<n, i.fs>>
      BY <1>2, <2>1
    <3>2. n \notin i.seen /\ \A j \in Layer : Called[j][n] = n
      BY <1>1, <3>1 DEF Kept
    <3>3. \A j \in (i.fs + 1)..Height : j \in Layer
      BY <1>1, OverlayAssumption DEF Layer
    <3>4. \A j \in (i.fs + 1)..Height : NotFound(j, n)
      BY <3>2, <3>3 DEF Within, Finished, Hidden
    <3> QED
      BY <1>1, <3>1, <3>4, Answered
  <2>2. CASE k # Len(i.given) + 1
    <3>1. k \in DOMAIN i.given /\ t.given[k] = i.given[k]
      BY <1>2, <2>2
    <3> QED
      BY <3>1 DEF Within, Right
  <2> QED
    BY <2>1, <2>2
<1>5. DueThere(t)
  BY DEF Within, DueThere
<1>6. Finished(t, t.fs + 1)
  BY DEF Within, Finished, Due, Hidden
<1>7. Reading(t)
  BY DEF Within, Reading
<1>8. Past(t)
  BY DEF Within, Past
<1> QED
  BY <1>1, <1>3, <1>4, <1>5, <1>6, <1>7, <1>8 DEF Within

LEMMA TurnKeeps ==
  ASSUME NEW i, NEW r, Within(i), Answers(i, r)
  PROVE  Listing(Turn(i, r))
<1> DEFINE t == Turn(i, r)
<1>0. i \in ListType /\ i.fs \in Layer /\ r \in Reply
  BY DEF Within, Answers
<1>1. CASE r.ec # "ok"
  <2>1. t = [i EXCEPT !.pc = "end", !.cur = End, !.ec = r.ec]
    BY <1>1 DEF Turn, Ended
  <2>2. t \in ListType /\ t.pc = "end" /\ t.ec # "ok" /\ t.seen = i.seen /\ t.given = i.given
        /\ t.passed = i.passed /\ t.quiet = i.quiet /\ t.lost = i.lost
    BY <1>0, <1>1, <2>1 DEF ListType, Reply
  <2> HIDE DEF t
  <2>3. Once(t) /\ Right(t)
    BY <2>2 DEF Within, Once, NamesOf, Right
  <2> QED
    BY <2>2, <2>3 DEF Listing, t
<1>2. CASE r.ec = "ok" /\ r.cur = End
  <2>1. t = [i EXCEPT !.pc = "fs", !.cur = End]
    BY <1>2 DEF Turn
  <2>2. t \in ListType /\ t.pc = "fs" /\ t.seen = i.seen /\ t.given = i.given /\ t.snap = i.snap
        /\ t.passed = i.passed /\ t.quiet = i.quiet /\ t.lost = i.lost /\ t.fs = i.fs /\ t.due = i.due
    BY <1>0, <1>2, <2>1 DEF ListType
  <2> HIDE DEF t
  <2>3. Within(t)
    <3>1. Past(t)
      BY <2>2 DEF Within, Past
    <3> QED
      BY <2>2, <3>1, SameHistory
  <2>4. Finished(t, t.fs)
    BY <1>2, <2>2, LayerDone DEF Finished, Due, Hidden
  <2> QED
    BY <2>2, <2>3, <2>4 DEF Listing, Within, t
<1>3. CASE r.ec = "ok" /\ r.cur # End /\ Called[i.fs][r.cur] \in i.seen
  <2> DEFINE j == [i EXCEPT !.cur = r.cur, !.passed = @ \union {r.cur}]
  <2>1. t = [j EXCEPT !.pc = "advance"]
    BY <1>3 DEF Turn
  <2>10. j \in ListType /\ j.cur = r.cur /\ j.seen = i.seen /\ j.given = i.given /\ j.snap = i.snap
        /\ j.passed = i.passed \union {r.cur} /\ j.quiet = i.quiet /\ j.lost = i.lost
        /\ j.fs = i.fs /\ j.due = i.due /\ r.cur \in Name
    <3>1. r.cur \in Name
      BY <1>0, <1>3 DEF Reply
    <3>2. i.passed \union {r.cur} \in SUBSET Name
      BY <1>0, <3>1 DEF ListType
    <3> QED
      BY <1>0, <3>1, <3>2 DEF ListType
  <2>2. t \in ListType /\ t.pc = "advance" /\ t.cur = r.cur /\ t.seen = i.seen /\ t.given = i.given
        /\ t.snap = i.snap /\ t.passed = i.passed \union {r.cur} /\ t.quiet = i.quiet
        /\ t.lost = i.lost /\ t.fs = i.fs /\ t.due = i.due /\ r.cur \in Name
    <3> HIDE DEF j, t
    <3> QED
      BY <2>1, <2>10 DEF ListType
  <2> HIDE DEF t
  <2>3. Within(t)
    <3>1. Past(t)
      BY <1>3, <2>2 DEF Within, Past
    <3> QED
      BY <2>2, <3>1, SameHistory
  <2> QED
    BY <1>3, <2>2, <2>3 DEF Listing, Within, Answers, t
<1>4. CASE r.ec = "ok" /\ r.cur # End /\ Called[i.fs][r.cur] \notin i.seen
  <2> DEFINE j == [i EXCEPT !.cur = r.cur, !.passed = @ \union {r.cur}]
             c == Called[i.fs][r.cur]
  <2>1. t = [j EXCEPT !.pc = "user", !.seen = @ \union {c}, !.given = Append(@, <<r.cur, i.fs>>)]
    BY <1>4 DEF Turn
  <2>10. j \in ListType /\ j.cur = r.cur /\ j.seen = i.seen /\ j.given = i.given /\ j.snap = i.snap
        /\ j.passed = i.passed \union {r.cur} /\ j.quiet = i.quiet /\ j.lost = i.lost
        /\ j.fs = i.fs /\ j.due = i.due /\ r.cur \in Name
    <3>1. r.cur \in Name
      BY <1>0, <1>4 DEF Reply
    <3>2. i.passed \union {r.cur} \in SUBSET Name
      BY <1>0, <3>1 DEF ListType
    <3> QED
      BY <1>0, <3>1, <3>2 DEF ListType
  <2>2. t \in ListType /\ t.pc = "user" /\ t.cur = r.cur /\ t.seen = i.seen \union {c}
        /\ t.given = Append(i.given, <<r.cur, i.fs>>)
        /\ t.snap = i.snap /\ t.passed = i.passed \union {r.cur} /\ t.quiet = i.quiet
        /\ t.lost = i.lost /\ t.fs = i.fs /\ t.due = i.due /\ r.cur \in Name
    <3>1. i.seen \union {c} \in SUBSET Calls /\ Append(i.given, <<r.cur, i.fs>>) \in Seq(Name \X Layer)
      BY <1>0, <2>10, CalledType DEF ListType
    <3> HIDE DEF j, t, c
    <3> QED
      BY <2>1, <2>10, <3>1 DEF ListType
  <2> HIDE DEF t
  <2>3. Within(t)
    BY <1>4, <2>2, Given1
  <2> QED
    BY <1>4, <2>2, <2>3 DEF Listing, Within, Answers, t
<1> QED
  BY <1>1, <1>2, <1>3, <1>4

-----------------------------------------------------------------------------
(* What the layers answer.                                                 *)
LEMMA ReachedAnswers ==
  ASSUME NEW l, NEW n \in Name
  PROVE  /\ Reached(l, n) \in Reply
         /\ Reached(l, n).cur = End => Reached(l, n).ec = "failed"
<1>0. n # End /\ n \in Name \union {End} /\ End \in Name \union {End}
  BY OverlayAssumption
<1>1. CASE ~Has(l, n) \/ entry[l][n] = Dangling
  <2>1. Reached(l, n) = [cur |-> n, ec |-> "not found"]
    <3>1. ~(Has(l, n) /\ entry[l][n] = Unreadable)
      BY <1>1, OverlayAssumption
    <3> QED
      BY <1>1, <3>1 DEF Reached
  <2>2. [cur |-> n, ec |-> "not found"] \in Reply
    BY <1>0 DEF Reply, Errors
  <2>3. [cur |-> n, ec |-> "not found"].cur = n
    OBVIOUS
  <2> QED
    BY <1>0, <2>1, <2>2, <2>3
<1>2. CASE Has(l, n) /\ entry[l][n] # Dangling /\ entry[l][n] = Unreadable
  <2>1. Reached(l, n) = [cur |-> End, ec |-> "failed"]
    BY <1>2 DEF Reached
  <2> QED
    BY <1>0, <2>1 DEF Reply, Errors
<1>3. CASE Has(l, n) /\ entry[l][n] # Dangling /\ entry[l][n] # Unreadable
  <2>1. Reached(l, n) = [cur |-> n, ec |-> "ok"]
    BY <1>3 DEF Reached
  <2> QED
    BY <1>0, <2>1 DEF Reply, Errors
<1> QED
  BY <1>1, <1>2, <1>3

LEMMA EndAnswers ==
  ASSUME NEW e \in Errors
  PROVE  AtEnd(e) \in Reply /\ AtEnd(e).cur = End /\ AtEnd(e).ec = e
  BY DEF AtEnd, Reply

LEMMA BegunAnswers ==
  ASSUME FilesType, NEW l \in Layer, NEW r \in Begun(l)
  PROVE  /\ r \in Reply
         /\ r.cur # End => dir[l] = "there"
         /\ r.cur = End /\ r.ec # "failed" =>
              Names(l) = {} /\ \A n \in Name : NotFound(l, n)
<1>0. dir[l] \in {"there", "missing", "failing"}
  BY DEF FilesType
<1>1. CASE dir[l] = "missing"
  <2>1. r = AtEnd("not found") /\ Names(l) = {} /\ \A n \in Name : NotFound(l, n)
    BY <1>1 DEF Begun, Names, Has, NotFound
  <2> QED
    BY <2>1, EndAnswers DEF Errors
<1>2. CASE dir[l] = "failing"
  <2>1. r = AtEnd("failed")
    BY <1>2 DEF Begun
  <2> QED
    BY <2>1, EndAnswers DEF Errors
<1>3. CASE dir[l] = "there" /\ Names(l) = {}
  <2>1. r = AtEnd("ok")
    BY <1>3 DEF Begun
  <2>2. ASSUME NEW n \in Name
        PROVE  NotFound(l, n)
    BY <1>3 DEF Names, Has, NotFound
  <2> QED
    BY <1>3, <2>1, <2>2, EndAnswers DEF Errors
<1>4. CASE dir[l] = "there" /\ Names(l) # {}
  <2>1. PICK n \in Names(l) : r = Reached(l, n)
    BY <1>4 DEF Begun
  <2>2. n \in Name
    BY DEF Names
  <2> QED
    BY <1>4, <2>1, <2>2, ReachedAnswers
<1> QED
  BY <1>0, <1>1, <1>2, <1>3, <1>4

(* A layer that is entered from the one above it.                          *)
LEMMA EnterKeeps ==
  ASSUME FilesType, NEW i \in ListType, NEW l \in Layer, NEW r \in Reply, NEW b \in Begun(l),
         Once(i), Right(i), DueThere(i), Finished(i, l + 1),
         r.cur = b.cur, r.ec = "ok" /\ ~i.lost => b.ec # "failed"
  PROVE  Listing(Enter(i, l, r))
<1> DEFINE m == [i EXCEPT !.fs = l, !.snap = Names(l), !.passed = {}]
<1>1. /\ m \in ListType /\ m.fs = l /\ m.snap = Names(l) /\ m.passed = {} /\ m.seen = i.seen
      /\ m.given = i.given /\ m.due = i.due /\ m.lost = i.lost /\ m.quiet = i.quiet
  <2>1. Names(l) \in SUBSET Name /\ l \in 0..Height
    BY OverlayAssumption DEF Names, Layer
  <2> QED
    BY <2>1 DEF ListType
<1>2. Enter(i, l, r) = Turn(m, r)
  BY DEF Enter
<1> HIDE DEF m
<1>3. Once(m)
  BY <1>1 DEF Once, NamesOf
<1>4. Right(m)
  BY <1>1 DEF Right
<1>5. DueThere(m)
  BY <1>1 DEF DueThere
<1>6. Finished(m, m.fs + 1)
  BY <1>1 DEF Finished, Due, Hidden
<1>7. Reading(m)
  <2>1. ASSUME NEW d \in m.due, d[2] = m.fs
        PROVE  d[1] \in m.snap
    BY <1>1, <1>5, <2>1, FoundAnswers DEF DueThere, Names, ListType
  <2> QED
    BY <1>1, <2>1 DEF Reading
<1>8. Answers(m, r)
  BY <1>1, BegunAnswers DEF Answers
<1>9. Past(m)
  BY <1>1 DEF Past
<1> QED
  BY <1>1, <1>2, <1>3, <1>4, <1>5, <1>6, <1>7, <1>8, <1>9, TurnKeeps DEF Within

LEMMA DirBeginKeeps ==
  ASSUME FilesType, DirBegin
  PROVE  Listing(list')
<1>1. PICK b \in Begun(Height) :
        list' = Enter([NoList EXCEPT !.due  = {d \in Name \X Layer : Found(d[2], d[1])},
                                     !.lost = (b.ec = "failed")],
                      Height, [b EXCEPT !.ec = "ok"])
  BY DEF DirBegin
<1> DEFINE i == [NoList EXCEPT !.due  = {d \in Name \X Layer : Found(d[2], d[1])},
                               !.lost = (b.ec = "failed")]
           r == [b EXCEPT !.ec = "ok"]
<1>2. Height \in Layer /\ Height + 1 > Height /\ Height \in Nat
  BY OverlayAssumption DEF Layer
<1>3. b \in Reply
  BY <1>2, BegunAnswers
<1>4. r \in Reply /\ r.cur = b.cur /\ r.ec = "ok"
  BY <1>3 DEF Reply, Errors
<1>5. i \in ListType /\ i.seen = {} /\ i.given = << >> /\ i.passed = {}
      /\ i.due = {d \in Name \X Layer : Found(d[2], d[1])}
      /\ (i.lost <=> b.ec = "failed")
  <2>1. {d \in Name \X Layer : Found(d[2], d[1])} \in SUBSET (Name \X Layer)
    OBVIOUS
  <2>2. << >> \in Seq(Name \X Layer) /\ 0 \in 0..Height
    BY <1>2
  <2>3. NoList \in ListType /\ NoList.seen = {} /\ NoList.given = << >> /\ NoList.passed = {}
    BY <2>2 DEF NoList, ListType, Errors
  <2> DEFINE D == {d \in Name \X Layer : Found(d[2], d[1])}
             L == (b.ec = "failed")
  <2>4. i = [NoList EXCEPT !.due = D, !.lost = L] /\ L \in BOOLEAN /\ D \in SUBSET (Name \X Layer)
    BY <2>1
  <2>5. (L <=> b.ec = "failed") /\ D = {d \in Name \X Layer : Found(d[2], d[1])}
    OBVIOUS
  <2> HIDE DEF D, L, i
  <2>6. i \in ListType /\ i.seen = {} /\ i.given = << >> /\ i.passed = {} /\ i.due = D /\ i.lost = L
    BY <2>3, <2>4 DEF ListType
  <2> QED
    BY <2>5, <2>6
<1> HIDE DEF i, r
<1>6. Once(i) /\ Right(i)
  BY <1>5 DEF Once, NamesOf, Right
<1>7. DueThere(i)
  BY <1>5 DEF DueThere
<1>8. Finished(i, Height + 1)
  <2>1. Due(i, Height + 1)
    BY <1>2, <1>5, OverlayAssumption DEF Due, Layer
  <2>2. Hidden(i, Height + 1)
    BY <1>2 DEF Hidden
  <2> QED
    BY <2>1, <2>2 DEF Finished
<1>9. Listing(Enter(i, Height, r))
  BY <1>2, <1>4, <1>5, <1>6, <1>7, <1>8, EnterKeeps
<1> QED
  BY <1>1, <1>9 DEF i, r

LEMMA IncrementFSKeeps ==
  ASSUME FilesType, Listing(list), IncrementFS
  PROVE  Listing(list')
<1>1. list \in ListType /\ list.fs \in Layer /\ Once(list) /\ Right(list) /\ DueThere(list)
      /\ Finished(list, list.fs)
  BY DEF IncrementFS, Listing
<1>2. CASE list.fs = 1
  <2>1. list' = [[list EXCEPT !.fs = 0] EXCEPT !.pc = "end", !.cur = End, !.ec = "ok"]
    BY <1>2 DEF IncrementFS, Ended
  <2>2. list' \in ListType /\ list'.pc = "end" /\ list'.seen = list.seen /\ list'.given = list.given
        /\ list'.passed = list.passed /\ list'.quiet = list.quiet /\ list'.lost = list.lost
        /\ list'.due = list.due
    <3> DEFINE j == [list EXCEPT !.fs = 0]
    <3>1. j \in ListType /\ j.seen = list.seen /\ j.given = list.given /\ j.passed = list.passed
          /\ j.quiet = list.quiet /\ j.lost = list.lost /\ j.due = list.due
      <4>1. 0 \in 0..Height
        BY OverlayAssumption
      <4> QED
        BY <1>1, <4>1 DEF ListType
    <3>2. list' = [j EXCEPT !.pc = "end", !.cur = End, !.ec = "ok"]
      BY <2>1
    <3> HIDE DEF j
    <3> QED
      BY <3>1, <3>2 DEF ListType, Errors
  <2>3. Once(list') /\ Right(list')
    BY <1>1, <2>2 DEF Once, NamesOf, Right
  <2>4. ASSUME ~list.lost, NEW d \in list.due
        PROVE  CalledOf(d) \in list.seen
    <3>1. d[2] \in Layer
      BY <1>1 DEF ListType
    <3> QED
      BY <1>1, <1>2, <2>4, <3>1 DEF Finished, Due, Layer
  <2> QED
    BY <2>2, <2>3, <2>4 DEF Listing
<1>3. CASE list.fs # 1
  <2>1. PICK b \in Begun(list.fs - 1) : list' = Enter(list, list.fs - 1, Tolerated(b))
    BY <1>3 DEF IncrementFS
  <2>2. list.fs - 1 \in Layer /\ (list.fs - 1) + 1 = list.fs
    BY <1>1, <1>3, OverlayAssumption DEF Layer
  <2>3. b \in Reply
    BY <2>2, BegunAnswers
  <2>4. Tolerated(b) \in Reply /\ Tolerated(b).cur = b.cur
        /\ (Tolerated(b).ec = "ok" => b.ec # "failed")
    BY <2>3 DEF Tolerated, Reply, Errors
  <2> QED
    BY <1>1, <2>1, <2>2, <2>4, EnterKeeps
<1> QED
  BY <1>2, <1>3

LEMMA IncrementKeeps ==
  ASSUME Listing(list), Increment
  PROVE  Listing(list')
<1>1. PICK r \in Incremented : list' = Turn(list, r)
  BY DEF Increment
<1>2. Within(list) /\ dir[list.fs] = "there" /\ list \in ListType
  BY DEF Increment, Listing
<1>3. Answers(list, r)
  <2>1. CASE r = AtEnd("ok") /\ list.snap \intersect Names(list.fs) \subseteq list.passed
    <3>1. \A n \in Name : ~NotFound(list.fs, n) => n \in Names(list.fs)
      BY <1>2 DEF NotFound, Names, Has
    <3> QED
      BY <2>1, <3>1, EndAnswers DEF Answers, Errors
  <2>2. CASE \E n \in (list.snap \union Names(list.fs)) \ list.passed : r = Reached(list.fs, n)
    <3>1. PICK n \in Name : r = Reached(list.fs, n)
      BY <1>2, <2>2 DEF ListType, Names
    <3> QED
      BY <1>2, <3>1, ReachedAnswers DEF Answers
  <2> QED
    BY <1>1, <2>1, <2>2 DEF Incremented
<1> QED
  BY <1>1, <1>2, <1>3, TurnKeeps

-----------------------------------------------------------------------------
(* Others change the files: nothing is promised then but what is due.      *)
LEMMA NothingPromised ==
  ASSUME NEW i, ~i.quiet
  PROVE  Right(i)
  BY DEF Right

(* The files after a change.                                               *)
LEMMA ChangeFiles ==
  ASSUME FilesType, NEW l \in Layer, NEW n \in Name, NEW k \in Kind(l), Change(l, n, k)
  PROVE  /\ FilesType'
         /\ \A m \in Layer, x \in Name : m # l \/ x # n => entry'[m][x] = entry[m][x]
         /\ entry'[l][n] = k
<1>1. k \in Kinds
  BY DEF Kinds
<1>2. entry' = [entry EXCEPT ![l][n] = k] /\ dir' = dir /\ changes' = changes + 1
  BY DEF Change
<1>3. entry' \in [Layer -> [Name -> Kinds]]
  BY <1>1, <1>2 DEF FilesType
<1>4. \A m \in Layer, x \in Name : m # l \/ x # n => entry'[m][x] = entry[m][x]
  BY <1>2 DEF FilesType
<1>5. entry'[l][n] = k
  BY <1>2 DEF FilesType
<1> QED
  BY <1>2, <1>3, <1>4, <1>5 DEF FilesType

(* What is due after a change was due before it, and is still there.       *)
LEMMA ChangeDue ==
  ASSUME FilesType, NEW l \in Layer, NEW n \in Name, NEW k \in Kind(l), Change(l, n, k),
         list \in ListType
  PROVE  /\ list' \in ListType /\ list'.due \subseteq list.due /\ ~list'.quiet
         /\ list'.pc = list.pc /\ list'.fs = list.fs /\ list'.snap = list.snap
         /\ list'.passed = list.passed /\ list'.cur = list.cur /\ list'.ec = list.ec
         /\ list'.seen = list.seen /\ list'.given = list.given /\ list'.lost = list.lost
         /\ k \in {Absent, Dangling, Unreadable} => <<n, l>> \notin list'.due
<1> DEFINE D == list.due \ IF k \in {Absent, Dangling, Unreadable} THEN {<<n, l>>} ELSE {}
<1>1. list' = [list EXCEPT !.quiet = FALSE, !.due = D]
  BY DEF Change
<1>2. D \in SUBSET (Name \X Layer) /\ D \subseteq list.due
  BY DEF ListType
<1>3. k \in {Absent, Dangling, Unreadable} => <<n, l>> \notin D
  OBVIOUS
<1> HIDE DEF D
<1> QED
  BY <1>1, <1>2, <1>3 DEF ListType

LEMMA ChangeKeepsDue ==
  ASSUME FilesType, NEW l \in Layer, NEW n \in Name, NEW k \in Kind(l), Change(l, n, k),
         list \in ListType, DueThere(list)
  PROVE  DueThere(list)'
<1> SUFFICES ASSUME NEW d \in list'.due
             PROVE  dir'[d[2]] = "there" /\ entry'[d[2]][d[1]] \notin {Absent, Dangling, Unreadable}
  BY DEF DueThere, Found, Has
<1>1. /\ d \in list.due /\ d \in Name \X Layer
      /\ dir[d[2]] = "there" /\ entry[d[2]][d[1]] \notin {Absent, Dangling, Unreadable}
  BY ChangeDue DEF ListType, DueThere, Found, Has
<1>2. dir' = dir
  BY DEF Change
<1>3. CASE d[2] = l /\ d[1] = n
  <2>1. d = <<n, l>>
    BY <1>1, <1>3
  <2> QED
    BY <1>1, <1>2, <1>3, <2>1, ChangeDue, ChangeFiles
<1>4. CASE d[2] # l \/ d[1] # n
  BY <1>1, <1>2, <1>4, ChangeFiles
<1> QED
  BY <1>3, <1>4

LEMMA ChangeKeeps ==
  ASSUME ListInv, NEW l \in Layer, NEW n \in Name, NEW k \in Kind(l), Change(l, n, k)
  PROVE  ListInv'
<1>1. FilesType /\ Listing(list) /\ list \in ListType
  BY DEF ListInv, Listing
<1>2. FilesType' /\ dir' = dir
  BY <1>1, ChangeFiles DEF Change
<1>3. Once(list)'
  <2>1. list'.seen = list.seen /\ list'.given = list.given /\ list'.passed = list.passed
    BY <1>1, ChangeDue
  <2>2. Once(list)
    BY <1>1 DEF Listing
  <2> QED
    BY <2>1, <2>2 DEF Once, NamesOf
<1>4. Right(list)'
  BY <1>1, ChangeDue DEF Right
<1>5. DueThere(list) => DueThere(list)'
  BY <1>1, ChangeKeepsDue
<1>6. Finished(list, list.fs) => Finished(list, list.fs)'
  BY <1>1, ChangeDue DEF Finished, Due
<1>7. Finished(list, list.fs + 1) => Finished(list, list.fs + 1)'
  BY <1>1, ChangeDue DEF Finished, Due
<1>8. Reading(list) => Reading(list)'
  BY <1>1, ChangeDue DEF Reading
<1>14. Past(list) => Past(list)'
  BY <1>1, ChangeDue DEF Past
<1>9. Within(list) => Within(list)'
  BY <1>1, <1>3, <1>4, <1>5, <1>7, <1>8, <1>14, ChangeDue DEF Within
<1>10. list'.pc \in {"user", "advance"} => Within(list)' /\ dir'[list'.fs] = "there" /\ list'.cur \in Name
  BY <1>1, <1>2, <1>9, ChangeDue DEF Listing
<1>11. list'.pc = "fs" => list'.fs \in Layer /\ DueThere(list)' /\ Finished(list, list.fs)'
  BY <1>1, <1>5, <1>6, ChangeDue DEF Listing
<1>12. list'.pc = "end" /\ list'.ec = "ok" /\ ~list'.lost => \A d \in list'.due : CalledOf(d) \in list'.seen
  BY <1>1, ChangeDue DEF Listing
<1>13. Listing(list)'
  BY <1>1, <1>3, <1>4, <1>10, <1>11, <1>12, ChangeDue DEF Listing
<1> QED
  BY <1>2, <1>13 DEF ListInv

-----------------------------------------------------------------------------
(* The listing is a matter of the files and of itself.                     *)
LEMMA SameFiles ==
  ASSUME ListInv, UNCHANGED <<dir, entry, changes>>, Listing(list')
  PROVE  ListInv'
<1>1. FilesType'
  BY DEF ListInv, FilesType
<1>2. Listing(list)'
  BY DEF Listing, Within, Once, NamesOf, Past, Right, DueThere, Finished, Due, Hidden, Reading,
         Answering, NotFound, Names, Has, Found
<1> QED
  BY <1>1, <1>2 DEF ListInv

LEMMA NothingListed ==
  Listing(NoList)
<1>1. << >> \in Seq(Name \X Layer) /\ 0 \in 0..Height
  BY OverlayAssumption
<1>2. NoList \in ListType
  BY <1>1 DEF NoList, ListType, Errors
<1>3. NoList.pc = "end" /\ NoList.due = {} /\ NoList.seen = {} /\ NoList.given = << >>
      /\ NoList.passed = {}
  BY DEF NoList
<1> HIDE DEF NoList
<1> QED
  BY <1>2, <1>3 DEF Listing, Once, NamesOf, Right

LEMMA ListInit ==
  Init => ListInv
<1> SUFFICES ASSUME Init
             PROVE  ListInv
  OBVIOUS
<1>1. entry \in [Layer -> [Name -> Kinds]]
  BY OverlayAssumption DEF Init, Kinds
<1>2. FilesType
  BY <1>1 DEF Init, FilesType
<1> QED
  BY <1>2, NothingListed DEF Init, ListInv

LEMMA ListStep ==
  ListInv /\ [Next]_vars => ListInv'
<1> SUFFICES ASSUME ListInv, [Next]_vars
             PROVE  ListInv'
  OBVIOUS
<1>1. FilesType /\ Listing(list)
  BY DEF ListInv
<1>2. CASE DirBegin
  BY <1>1, <1>2, DirBeginKeeps, SameFiles DEF DirBegin
<1>3. CASE IncrementFS
  BY <1>1, <1>3, IncrementFSKeeps, SameFiles DEF IncrementFS
<1>4. CASE Increment
  BY <1>1, <1>4, IncrementKeeps, SameFiles DEF Increment
<1>5. ASSUME NEW n \in Name, OpenFileForRead(n)
      PROVE  ListInv'
  BY <1>1, <1>5, NothingListed, SameFiles DEF OpenFileForRead
<1>6. CASE OpenLayer \/ StatusOfLayer \/ CopyLayer
  BY <1>1, <1>6, SameFiles DEF OpenLayer, StatusOfLayer, CopyLayer
<1>7. ASSUME NEW l \in Layer, NEW n \in Name, NEW k \in Kind(l), Replace(l, n, k) \/ Write(l, n, k)
      PROVE  ListInv'
  BY <1>7, ChangeKeeps DEF Replace, Write
<1>8. CASE UNCHANGED vars
  BY <1>1, <1>8, SameFiles DEF vars
<1> QED
  BY <1>2, <1>3, <1>4, <1>5, <1>6, <1>7, <1>8 DEF Next

(* A merged listing that ends well, its first error not being lost, has    *)
(* everything that could be looked up in some layer all the time, under    *)
(* the name that getName() gives it: the set of seen names drops nothing   *)
(* but what is called like something that was given, and no layer is left  *)
(* out (OverlayFSDirIterImpl), whatever the mount points cut off.          *)
THEOREM UnionCorrect ==
  Spec => []Union
<1>1. ListInv => Union
  <2> SUFFICES ASSUME ListInv, list.pc = "end", list.ec = "ok", ~list.lost, NEW d \in list.due
               PROVE  \E g \in Given : CalledOf(g) = CalledOf(d)
    BY DEF Union
  <2>1. CalledOf(d) \in NamesOf(list)
    BY DEF ListInv, Listing, Once
  <2> QED
    BY <2>1 DEF NamesOf, Given
<1> QED
  BY <1>1, ListInit, ListStep, PTL DEF Spec

(* A merged listing calls no two entries the same, and while nothing       *)
(* changes gives each entry whose name the mount points leave alone from   *)
(* the layer that status() takes it from.                                  *)
THEOREM AgreesCorrect ==
  Spec => []Agrees
<1>1. ListInv => Agrees
  <2> SUFFICES ASSUME ListInv
               PROVE  Agrees
    OBVIOUS
  <2>1. Once(list) /\ Right(list)
    BY DEF ListInv, Listing
  <2> QED
    BY <2>1 DEF Agrees, Once, Right, Given
<1> QED
  BY <1>1, ListInit, ListStep, PTL DEF Spec

-----------------------------------------------------------------------------
(* The two passes of a concatenated open.  What the layers still to come   *)
(* need at least is a set of bytes (Bytes), and its cardinality is added   *)
(* up layer by layer: the first pass has asked for as many as the second   *)
(* one still has to copy, unless something grew.                           *)

(* What is copied of a directory, if anything, is nothing.                 *)
Bulk(k) == IF k = Folder THEN 0 ELSE k

(* The bytes, newlines included, that the layers in S hold under a name.   *)
Bytes(S, n) ==
  {b \in S \X (0..MaxSize) : Opens(b[1], n) /\ b[2] <= Bulk(entry[b[1]][n])}

Volume(S, n) == Cardinality(Bytes(S, n))

(* The same after a step.                                                  *)
BytesNext(S, n) ==
  {b \in S \X (0..MaxSize) : Opens(b[1], n)' /\ b[2] <= Bulk(entry'[b[1]][n])}

Above(l) == (l + 1)..Height

Underway(o) == o.pc \in {"size", "copy"}

OpenShape(o) ==
  /\ o \in OpenType
  /\ Underway(o) => o.fs \in Layer /\ o.name \in Name
  /\ o.pc = "size" => o.buf = << >>
  /\ o.step # "open" => o.fs \in Layer /\ o.name \in Name /\ o.hand \in 0..MaxSize \union {Folder}
  /\ Len(o.buf) <= o.size

(* A file that still has its name is the one that the directory holds.     *)
Linked(o) == o.step # "open" /\ o.linked => Opens(o.fs, o.name) /\ o.hand = entry[o.fs][o.name]

(* Unless something grew, there is room for what is still to come: for the *)
(* file in hand, which is no smaller than the one that now has its name,   *)
(* and for the files of the layers above.                                  *)
Covers(o) == Opens(o.fs, o.name) => Bulk(entry[o.fs][o.name]) <= Bulk(o.hand)

Enough(o) ==
  ~o.grown =>
    /\ o.pc # "overrun"
    /\ o.pc = "size" =>
         Volume(Above(o.fs), o.name) <= o.size /\ (o.step # "open" => Covers(o))
    /\ o.pc = "copy" =>
         CASE o.step = "open"   -> Len(o.buf) + Volume(o.fs..Height, o.name) <= o.size
           [] o.step = "status" ->
                Len(o.buf) + Room(Bulk(o.hand)) + Volume(Above(o.fs), o.name) <= o.size
           [] o.step = "getBuffer" ->
                (o.hand = Folder => o.asked = 0)
                  => Len(o.buf) + Room(o.asked) + Volume(Above(o.fs), o.name) <= o.size

(* The files fit their bound.                                              *)
Sized == \A l \in Layer, n \in Name : Opens(l, n) => entry[l][n] \in 0..MaxSize \union {Folder}

OpenInv == FilesType /\ Sized /\ OpenShape(open) /\ Linked(open) /\ Enough(open)

-----------------------------------------------------------------------------
LEMMA VolumeType ==
  ASSUME NEW S \in SUBSET Layer, NEW n
  PROVE  IsFiniteSet(Bytes(S, n)) /\ Volume(S, n) \in Nat
<1>0. Height \in Int /\ MaxSize \in Int
  BY OverlayAssumption
<1>1. IsFiniteSet(Layer) /\ IsFiniteSet(0..MaxSize)
  BY <1>0, FS_Interval DEF Layer
<1>2. IsFiniteSet(Layer \X (0..MaxSize))
  BY <1>1, FS_Product
<1>3. Bytes(S, n) \subseteq Layer \X (0..MaxSize)
  BY DEF Bytes
<1>4. IsFiniteSet(Bytes(S, n))
  BY <1>2, <1>3, FS_Subset
<1> QED
  BY <1>4, FS_CardinalityType DEF Volume

LEMMA AboveType ==
  ASSUME NEW l \in Layer
  PROVE  /\ l..Height \in SUBSET Layer /\ Above(l) \in SUBSET Layer
         /\ l \notin Above(l) /\ l..Height = {l} \union Above(l)
         /\ \A n : Volume(l..Height, n) \in Nat /\ Volume(Above(l), n) \in Nat
<1>1. l \in Int /\ Height \in Int /\ 1 <= l /\ l <= Height
  BY OverlayAssumption DEF Layer
<1>2. l..Height \in SUBSET Layer /\ Above(l) \in SUBSET Layer
  BY <1>1 DEF Above, Layer
<1>3. l \notin Above(l) /\ l..Height = {l} \union Above(l)
  BY <1>1 DEF Above
<1> QED
  BY <1>2, <1>3, VolumeType

(* What a directory, or a file of a size within its bound, is.             *)
LEMMA BulkType ==
  ASSUME NEW k \in 0..MaxSize \union {Folder}
  PROVE  /\ Bulk(k) \in 0..MaxSize /\ (k # Folder => Bulk(k) = k) /\ Room(Bulk(k)) = Bulk(k) + 1
         /\ Bulk(k) \in Nat /\ Room(Bulk(k)) \in Nat
<1>1. MaxSize \in Nat /\ Folder \notin Int
  BY OverlayAssumption
<1> QED
  BY <1>1 DEF Bulk, Room

(* An entry that is opened adds what it takes in the buffer.               *)
LEMMA VolumeAdds ==
  ASSUME Sized, NEW l \in Layer, NEW n \in Name, Opens(l, n)
  PROVE  Volume(l..Height, n) = Room(Bulk(entry[l][n])) + Volume(Above(l), n)
<1> DEFINE e == Bulk(entry[l][n])
           One == {l} \X (0..e)
           Rest == Bytes(Above(l), n)
<1>1. entry[l][n] \in 0..MaxSize \union {Folder}
  BY DEF Sized
<1>2. e \in 0..MaxSize /\ Room(e) = e + 1 /\ MaxSize \in Nat
  BY <1>1, BulkType, OverlayAssumption
<1>3. Bytes(l..Height, n) = One \union Rest
  <2>1. ASSUME NEW b \in Bytes(l..Height, n)
        PROVE  b \in One \union Rest
    <3>1. b \in (l..Height) \X (0..MaxSize) /\ Opens(b[1], n) /\ b[2] <= Bulk(entry[b[1]][n])
      BY DEF Bytes
    <3>2. CASE b[1] = l
      <4>1. b[2] \in 0..e /\ b = <<b[1], b[2]>>
        BY <1>2, <3>1, <3>2
      <4> QED
        BY <3>2, <4>1
    <3>3. CASE b[1] # l
      <4>1. b[1] \in Above(l) /\ b[2] \in 0..MaxSize /\ b = <<b[1], b[2]>>
        BY <3>1, <3>3, AboveType
      <4> QED
        BY <3>1, <4>1 DEF Bytes
    <3> QED
      BY <3>2, <3>3
  <2>2. ASSUME NEW b \in One
        PROVE  b \in Bytes(l..Height, n)
    <3> HIDE DEF e
    <3>1. b = <<b[1], b[2]>> /\ b[1] = l /\ b[2] \in 0..e
      OBVIOUS
    <3>2. l \in l..Height /\ b[2] \in 0..MaxSize /\ b[2] <= e
      BY <1>2, <3>1, AboveType
    <3> QED
      BY <3>1, <3>2 DEF Bytes, e
  <2>3. ASSUME NEW b \in Rest
        PROVE  b \in Bytes(l..Height, n)
    BY AboveType DEF Bytes
  <2> QED
    BY <2>1, <2>2, <2>3
<1> HIDE DEF e
<1>4. One \intersect Rest = {}
  BY AboveType DEF Bytes
<1>5. IsFiniteSet(0..e) /\ Cardinality(0..e) = e + 1
  <2>1. e \in Int /\ 0 \in Int /\ e >= 0
    BY <1>2
  <2>2. IsFiniteSet(0..e) /\ Cardinality(0..e) = IF 0 > e THEN 0 ELSE e - 0 + 1
    BY <2>1, FS_Interval
  <2> QED
    BY <2>1, <2>2
<1>6. IsFiniteSet({l}) /\ Cardinality({l}) = 1
  BY FS_Singleton
<1>7. IsFiniteSet(One) /\ Cardinality(One) = 1 * (e + 1)
  BY <1>5, <1>6, FS_Product
<1>8. IsFiniteSet(Rest) /\ Cardinality(Rest) \in Nat
  BY AboveType, VolumeType DEF Volume
<1>9. Cardinality(One \union Rest) = Cardinality(One) + Cardinality(Rest) - Cardinality({})
  <2> HIDE DEF One, Rest
  <2> QED
    BY <1>4, <1>7, <1>8, FS_Union
<1>10. Cardinality({}) = 0
  BY FS_EmptySet
<1>11. Volume(l..Height, n) = Cardinality(One \union Rest) /\ Volume(Above(l), n) = Cardinality(Rest)
  BY <1>3 DEF Volume
<1>12. Cardinality(One) = Room(e) /\ Room(e) \in Nat
  BY <1>2, <1>7
<1>13. Volume(l..Height, n) = Room(e) + Volume(Above(l), n)
  <2> HIDE DEF One, Rest
  <2> QED
    BY <1>8, <1>9, <1>10, <1>11, <1>12
<1> QED
  BY <1>13 DEF e

(* What is not opened adds nothing.                                        *)
LEMMA VolumeSkips ==
  ASSUME NEW l \in Layer, NEW n, ~Opens(l, n)
  PROVE  Volume(l..Height, n) = Volume(Above(l), n)
<1>1. Bytes(l..Height, n) = Bytes(Above(l), n)
  BY AboveType DEF Bytes
<1> QED
  BY <1>1 DEF Volume

LEMMA OpensAnswers ==
  ASSUME NEW l, NEW n
  PROVE  /\ NotFound(l, n) => ~Opens(l, n)
         /\ Opens(l, n) => Found(l, n)
BY FoundAnswers DEF Opens

(* An entry that is opened, by what it is.                                 *)
LEMMA OpensMeans ==
  ASSUME NEW l, NEW n
  PROVE  /\ dir[l] = "there" /\ entry[l][n] \in Nat => Opens(l, n)
         /\ Opens(l, n) <=>
              /\ dir[l] = "there" /\ entry[l][n] \notin {Absent, Dangling, Unreadable, Locked}
              /\ entry[l][n] = Folder => l \in Disk
<1>1. {Absent, Folder, Locked, Dangling, Unreadable} \intersect Int = {}
  BY OverlayAssumption
<1> QED
  BY <1>1 DEF Opens, Found, Has

-----------------------------------------------------------------------------
(* The entries of the name that is opened, under a change that lets        *)
(* nothing grow: what can be opened afterwards could be opened before, and *)
(* was no smaller.                                                         *)
LEMMA ChangeEntry ==
  ASSUME FilesType, Sized, NEW l \in Layer, NEW n \in Name, NEW k \in Kind(l), Change(l, n, k),
         NEW x \in Name, n = x => ~Grows(l, n, k), NEW m \in Layer, Opens(m, x)'
  PROVE  Opens(m, x) /\ Bulk(entry'[m][x]) <= Bulk(entry[m][x])
<1>1. dir' = dir
  BY DEF Change
<1>2. CASE m = l /\ x = n
  <2>1. entry'[l][n] = k
    BY ChangeFiles
  <2>2. dir[l] = "there" /\ k \notin {Absent, Dangling, Unreadable, Locked}
    BY <1>1, <1>2, <2>1 DEF Opens, Found, Has
  <2>3. k \in Nat \union {Folder}
    BY <2>2, OverlayAssumption DEF Kind
  <2>4. entry[l][n] \in Nat /\ k \in Nat /\ k <= entry[l][n]
    BY <1>2, <2>3 DEF Grows
  <2>5. Opens(l, n)
    BY <2>2, <2>4, OpensMeans
  <2>6. Bulk(k) = k /\ Bulk(entry[l][n]) = entry[l][n]
    <3>1. Folder \notin Nat
      BY OverlayAssumption
    <3> QED
      BY <2>4, <3>1 DEF Bulk
  <2> QED
    BY <1>2, <2>1, <2>4, <2>5, <2>6
<1>3. CASE m # l \/ x # n
  <2>1. entry'[m][x] = entry[m][x]
    BY <1>3, ChangeFiles
  <2>2. Opens(m, x)
    BY <1>1, <2>1 DEF Opens, Found, Has
  <2>3. entry[m][x] \in 0..MaxSize \union {Folder}
    BY <2>2 DEF Sized
  <2>4. Bulk(entry[m][x]) \in Nat
    BY <2>3, BulkType
  <2>5. Bulk(entry[m][x]) <= Bulk(entry[m][x])
    BY <2>4
  <2>6. Bulk(entry'[m][x]) <= Bulk(entry[m][x])
    BY <2>1, <2>5
  <2> QED
    BY <2>2, <2>6
<1> QED
  BY <1>2, <1>3

(* So no layer needs more room.                                            *)
LEMMA ChangeShrinks ==
  ASSUME FilesType, Sized, NEW l \in Layer, NEW n \in Name, NEW k \in Kind(l), Change(l, n, k),
         Sized', NEW x \in Name, n = x => ~Grows(l, n, k), NEW S \in SUBSET Layer
  PROVE  Cardinality(BytesNext(S, x)) <= Volume(S, x) /\ Cardinality(BytesNext(S, x)) \in Nat
<1> DEFINE T == BytesNext(S, x)
<1>1. T \subseteq Bytes(S, x)
  <2>1. ASSUME NEW b \in T
        PROVE  b \in Bytes(S, x)
    <3>1. b \in S \X (0..MaxSize) /\ Opens(b[1], x)' /\ b[2] <= Bulk(entry'[b[1]][x])
      BY <2>1 DEF BytesNext
    <3>2. b[1] \in Layer /\ b[2] \in 0..MaxSize
      BY <3>1
    <3>3. Opens(b[1], x) /\ Bulk(entry'[b[1]][x]) <= Bulk(entry[b[1]][x])
      BY <3>1, <3>2, ChangeEntry
    <3>4. entry'[b[1]][x] \in 0..MaxSize \union {Folder} /\ entry[b[1]][x] \in 0..MaxSize \union {Folder}
      BY <3>1, <3>2, <3>3 DEF Sized
    <3>5. Bulk(entry'[b[1]][x]) \in 0..MaxSize /\ Bulk(entry[b[1]][x]) \in 0..MaxSize
      BY <3>4, BulkType
    <3>6. b[2] <= Bulk(entry[b[1]][x])
      BY <3>1, <3>2, <3>3, <3>5, OverlayAssumption
    <3> QED
      BY <3>1, <3>3, <3>6 DEF Bytes
  <2> QED
    BY <2>1
<1>2. IsFiniteSet(Bytes(S, x))
  BY VolumeType
<1>3. Cardinality(T) <= Cardinality(Bytes(S, x)) /\ Cardinality(T) \in Nat
  <2> HIDE DEF T
  <2> QED
    BY <1>1, <1>2, FS_Subset, FS_CardinalityType
<1> QED
  BY <1>3 DEF Volume

LEMMA ChangeSized ==
  ASSUME FilesType, Sized, NEW l \in Layer, NEW n \in Name, NEW k \in Kind(l), Change(l, n, k)
  PROVE  Sized'
<1> SUFFICES ASSUME NEW m \in Layer, NEW x \in Name, Opens(m, x)'
             PROVE  entry'[m][x] \in 0..MaxSize \union {Folder}
  BY DEF Sized
<1>1. CASE m = l /\ x = n
  <2>1. entry'[m][x] = k /\ k \notin {Absent, Dangling, Unreadable, Locked}
    BY <1>1, ChangeFiles DEF Opens, Found, Has
  <2> QED
    BY <2>1 DEF Kind
<1>2. CASE m # l \/ x # n
  <2>1. dir' = dir /\ entry'[m][x] = entry[m][x]
    <3>1. dir' = dir
      BY DEF Change
    <3> QED
      BY <1>2, <3>1, ChangeFiles
  <2>2. Opens(m, x)
    BY <2>1 DEF Opens, Found, Has
  <2> QED
    BY <2>1, <2>2 DEF Sized
<1> QED
  BY <1>1, <1>2

-----------------------------------------------------------------------------
(* From one layer to the next, in either pass.                             *)
Opening(o) == OpenShape(o) /\ Linked(o) /\ Enough(o)

LEMMA LetGoType ==
  ASSUME NEW o \in OpenType
  PROVE  /\ LetGo(o) \in OpenType /\ LetGo(o).step = "open"
         /\ LetGo(o).pc = o.pc /\ LetGo(o).fs = o.fs /\ LetGo(o).name = o.name
         /\ LetGo(o).buf = o.buf /\ LetGo(o).size = o.size
         /\ LetGo(o).grown = o.grown /\ LetGo(o).quiet = o.quiet
BY DEF LetGo, OpenType

(* Between two files there is nothing to be linked.                        *)
LEMMA NothingInHand ==
  ASSUME NEW o \in OpenType, o.step = "open"
  PROVE  Linked(o)
BY DEF Linked

LEMMA SizeNextMeans ==
  ASSUME NEW o \in OpenType, o.pc = "size", o.fs \in Layer
  PROVE  LET t == NextFS(o)
         IN  /\ t \in OpenType /\ t.step = "open" /\ t.name = o.name /\ t.buf = o.buf
             /\ t.size = o.size /\ t.grown = o.grown /\ t.quiet = o.quiet
             /\ IF o.fs > 1 THEN t.pc = "size" /\ t.fs = o.fs - 1 ELSE t.pc = "copy" /\ t.fs = 1
<1> DEFINE u == LetGo(o)
<1>1. u \in OpenType /\ u.step = "open" /\ u.pc = o.pc /\ u.fs = o.fs /\ u.name = o.name
      /\ u.buf = o.buf /\ u.size = o.size /\ u.grown = o.grown /\ u.quiet = o.quiet
  BY LetGoType
<1>2. o.fs \in 1..Height /\ Height \in Nat
  BY OverlayAssumption DEF Layer
<1>3. CASE o.fs > 1
  <2>1. NextFS(o) = [u EXCEPT !.fs = @ - 1]
    BY <1>3 DEF NextFS
  <2>2. u.fs - 1 \in 0..Height
    BY <1>1, <1>2
  <2> HIDE DEF u
  <2> QED
    BY <1>1, <1>3, <2>1, <2>2 DEF OpenType
<1>4. CASE o.fs = 1
  <2>1. NextFS(o) = [u EXCEPT !.pc = "copy"]
    BY <1>4 DEF NextFS
  <2> HIDE DEF u
  <2> QED
    BY <1>1, <1>4, <2>1 DEF OpenType
<1> QED
  BY <1>2, <1>3, <1>4

LEMMA CopyNextMeans ==
  ASSUME NEW o \in OpenType, o.pc = "copy", o.fs \in Layer
  PROVE  LET t == NextFS(o)
         IN  /\ t \in OpenType /\ t.step = "open" /\ t.name = o.name /\ t.buf = o.buf
             /\ t.size = o.size /\ t.grown = o.grown /\ t.quiet = o.quiet
             /\ IF o.fs < Height THEN t.pc = "copy" /\ t.fs = o.fs + 1 ELSE t.pc = "done"
<1> DEFINE u == LetGo(o)
<1>1. u \in OpenType /\ u.step = "open" /\ u.pc = o.pc /\ u.fs = o.fs /\ u.name = o.name
      /\ u.buf = o.buf /\ u.size = o.size /\ u.grown = o.grown /\ u.quiet = o.quiet
  BY LetGoType
<1>2. o.fs \in 1..Height /\ Height \in Nat /\ 0 \in 0..Height
  BY OverlayAssumption DEF Layer
<1>3. CASE o.fs < Height
  <2>1. NextFS(o) = [u EXCEPT !.fs = @ + 1]
    BY <1>2, <1>3 DEF NextFS
  <2>2. u.fs + 1 \in 0..Height
    BY <1>1, <1>2, <1>3
  <2> HIDE DEF u
  <2> QED
    BY <1>1, <1>3, <2>1, <2>2 DEF OpenType
<1>4. CASE o.fs = Height
  <2>1. NextFS(o) = [u EXCEPT !.pc = "done", !.fs = 0]
    BY <1>4 DEF NextFS
  <2>2. ~(o.fs < Height) /\ 0 \in 0..Height
    BY <1>2, <1>4
  <2> HIDE DEF u
  <2>3. /\ NextFS(o) \in OpenType /\ NextFS(o).pc = "done" /\ NextFS(o).step = u.step
        /\ NextFS(o).name = u.name /\ NextFS(o).buf = u.buf /\ NextFS(o).size = u.size
        /\ NextFS(o).grown = u.grown /\ NextFS(o).quiet = u.quiet
    BY <1>1, <2>1, <2>2 DEF OpenType
  <2> QED
    BY <1>1, <2>2, <2>3
<1> QED
  BY <1>2, <1>3, <1>4

LEMMA SizeNext ==
  ASSUME NEW o \in OpenType, o.pc = "size", o.fs \in Layer, o.name \in Name, o.buf = << >>,
         ~o.grown => Volume(o.fs..Height, o.name) <= o.size
  PROVE  Opening(NextFS(o))
<1> DEFINE t == NextFS(o)
<1>1. o.fs \in 1..Height /\ Height \in Nat /\ o.size \in Nat /\ Len(o.buf) = 0
  BY OverlayAssumption DEF Layer, OpenType
<1>2. /\ t \in OpenType /\ t.step = "open" /\ t.name = o.name /\ t.buf = o.buf
      /\ t.size = o.size /\ t.grown = o.grown
      /\ IF o.fs > 1 THEN t.pc = "size" /\ t.fs = o.fs - 1 ELSE t.pc = "copy" /\ t.fs = 1
  BY SizeNextMeans
<1> HIDE DEF t
<1>3. t.fs \in Layer /\ Linked(t)
  BY <1>1, <1>2, NothingInHand DEF Layer
<1>4. OpenShape(t)
  BY <1>1, <1>2, <1>3 DEF OpenShape, Underway
<1>5. CASE o.fs > 1
  <2>1. Above(t.fs) = o.fs..Height
    BY <1>1, <1>2, <1>5 DEF Above
  <2>2. Enough(t)
    BY <1>2, <1>5, <2>1 DEF Enough
  <2> QED
    BY <1>3, <1>4, <2>2 DEF Opening, t
<1>6. CASE o.fs = 1
  <2>1. Volume(o.fs..Height, o.name) \in Nat
    BY AboveType
  <2>2. t.pc = "copy" /\ (~t.grown => Len(t.buf) + Volume(t.fs..Height, t.name) <= t.size)
    BY <1>1, <1>2, <1>6, <2>1
  <2>3. Enough(t)
    BY <1>2, <2>2 DEF Enough
  <2> QED
    BY <1>3, <1>4, <2>3 DEF Opening, t
<1> QED
  BY <1>1, <1>5, <1>6

LEMMA CopyNext ==
  ASSUME NEW o \in OpenType, o.pc = "copy", o.fs \in Layer, o.name \in Name,
         Len(o.buf) <= o.size,
         ~o.grown => Len(o.buf) + Volume(Above(o.fs), o.name) <= o.size
  PROVE  Opening(NextFS(o))
<1> DEFINE t == NextFS(o)
<1>1. o.fs \in 1..Height /\ Height \in Nat
  BY OverlayAssumption DEF Layer
<1>2. /\ t \in OpenType /\ t.step = "open" /\ t.name = o.name /\ t.buf = o.buf
      /\ t.size = o.size /\ t.grown = o.grown
      /\ IF o.fs < Height THEN t.pc = "copy" /\ t.fs = o.fs + 1 ELSE t.pc = "done"
  BY CopyNextMeans
<1> HIDE DEF t
<1>3. Linked(t)
  BY <1>2, NothingInHand
<1>4. CASE o.fs < Height
  <2>1. t.fs..Height = Above(o.fs) /\ t.fs \in Layer
    BY <1>1, <1>2, <1>4 DEF Above, Layer
  <2>2. OpenShape(t)
    BY <1>2, <1>4, <2>1 DEF OpenShape, Underway
  <2>3. Enough(t)
    BY <1>2, <1>4, <2>1 DEF Enough
  <2> QED
    BY <1>3, <2>2, <2>3 DEF Opening, t
<1>5. CASE o.fs = Height
  <2>1. OpenShape(t)
    BY <1>2, <1>5, <1>1 DEF OpenShape, Underway
  <2>2. Enough(t)
    BY <1>2, <1>5, <1>1 DEF Enough
  <2> QED
    BY <1>3, <2>1, <2>2 DEF Opening, t
<1> QED
  BY <1>1, <1>4, <1>5

LEMMA SameOpen ==
  ASSUME OpenInv, UNCHANGED <<dir, entry, changes>>, Opening(open')
  PROVE  OpenInv'
<1>1. FilesType' /\ Sized'
  BY DEF OpenInv, FilesType, Sized, Opens, Found, Has
<1>2. OpenShape(open)'
  BY DEF Opening, OpenShape, Underway
<1>3. Linked(open)'
  BY DEF Opening, Linked, Opens, Found, Has
<1>4. Enough(open)'
  BY DEF Opening, Enough, Covers, Volume, Bytes, Opens, Found, Has
<1> QED
  BY <1>1, <1>2, <1>3, <1>4 DEF OpenInv

(* A call that ends with an error, or has not begun.                       *)
LEMMA NotOpen ==
  ASSUME NEW o \in OpenType, o.pc \in {"idle", "failed"}, o.step = "open", Len(o.buf) <= o.size
  PROVE  Opening(o)
  BY DEF Opening, OpenShape, Underway, Linked, Enough

LEMMA NothingOpen ==
  Idle \in OpenType /\ Idle.pc = "idle" /\ Idle.buf = << >> /\ Idle.size = 0 /\ Idle.step = "open"
  /\ Opening(Idle)
<1>1. << >> \in Seq(Byte) /\ 0 \in 0..Height /\ Len(<< >>) = 0
  BY OverlayAssumption
<1>2. Idle \in OpenType /\ Idle.pc = "idle" /\ Idle.buf = << >> /\ Idle.size = 0 /\ Idle.step = "open"
  BY <1>1 DEF Idle, OpenType
<1> HIDE DEF Idle
<1> QED
  BY <1>1, <1>2, NotOpen

LEMMA OpenBegins ==
  ASSUME OpenInv, NEW n \in Name, OpenFileForRead(n)
  PROVE  OpenInv'
<1> DEFINE start == [Idle EXCEPT !.name = n, !.pc = "failed"]
           t == [start EXCEPT !.pc = "size", !.fs = Height]
<1>1. open' = t \/ open' = start
  BY DEF OpenFileForRead
<1>2. start \in OpenType /\ start.pc = "failed" /\ start.buf = << >> /\ start.size = 0 /\ start.name = n
      /\ start.step = "open"
  <2>1. n \in Name \union {End}
    OBVIOUS
  <2> QED
    BY <2>1, NothingOpen DEF OpenType
<1>3. Height \in Layer /\ Height \in 0..Height /\ Height \in Nat
  BY OverlayAssumption DEF Layer
<1> HIDE DEF start
<1>4. t \in OpenType /\ t.pc = "size" /\ t.fs = Height /\ t.buf = << >> /\ t.size = 0 /\ t.name = n
      /\ t.step = "open"
  BY <1>2, <1>3 DEF OpenType
<1>5. Volume(Above(Height), n) = 0
  <2>1. Above(Height) = {}
    BY <1>3 DEF Above
  <2>2. Bytes(Above(Height), n) = {}
    BY <2>1 DEF Bytes
  <2> QED
    BY <2>2, FS_EmptySet DEF Volume
<1> HIDE DEF t
<1>6. Opening(t)
  <2>1. OpenShape(t)
    BY <1>3, <1>4 DEF OpenShape, Underway
  <2>2. Enough(t)
    BY <1>4, <1>5 DEF Enough
  <2> QED
    BY <1>4, <2>1, <2>2, NothingInHand DEF Opening
<1>7. Opening(start)
  BY <1>2, NotOpen
<1> QED
  BY <1>1, <1>6, <1>7, SameOpen DEF OpenFileForRead

(* What an open under way has, and what it may count on.                   *)
LEMMA Facts ==
  ASSUME OpenInv, Underway(open)
  PROVE  /\ open \in OpenType /\ open.fs \in Layer /\ open.name \in Name
         /\ open.size \in Nat /\ Len(open.buf) \in Nat /\ Len(open.buf) <= open.size
         /\ open.pc = "size" => open.buf = << >>
         /\ open.step # "open" => /\ open.hand \in 0..MaxSize \union {Folder}
                                  /\ Bulk(open.hand) \in Nat /\ Room(Bulk(open.hand)) \in Nat
         /\ Volume(Above(open.fs), open.name) \in Nat
         /\ Volume(open.fs..Height, open.name) \in Nat
<1>1. /\ open \in OpenType /\ open.fs \in Layer /\ open.name \in Name /\ Len(open.buf) <= open.size
      /\ open.pc = "size" => open.buf = << >>
      /\ open.step # "open" => open.hand \in 0..MaxSize \union {Folder}
  BY DEF OpenInv, OpenShape
<1>2. open.size \in Nat /\ Len(open.buf) \in Nat
  BY <1>1 DEF OpenType
<1>3. ASSUME open.step # "open"
      PROVE  Bulk(open.hand) \in Nat /\ Room(Bulk(open.hand)) \in Nat
  BY <1>1, <1>3, BulkType
<1> QED
  BY <1>1, <1>2, <1>3, AboveType

(* A layer that cannot be opened ends the call, in either pass.            *)
LEMMA OpenFails ==
  ASSUME OpenInv, Underway(open), open.step = "open"
  PROVE  Opening([open EXCEPT !.pc = "failed"])
<1> DEFINE t == [open EXCEPT !.pc = "failed"]
<1>1. t \in OpenType /\ t.pc = "failed" /\ t.buf = open.buf /\ t.size = open.size /\ t.step = "open"
  BY Facts DEF OpenType
<1>2. Len(t.buf) <= t.size
  BY <1>1, Facts
<1> HIDE DEF t
<1>3. Opening(t)
  BY <1>1, <1>2, NotOpen
<1> QED
  BY <1>3 DEF t

(* The file of a layer is opened.                                          *)
LEMMA OpenLayerKeeps ==
  ASSUME OpenInv, OpenLayer
  PROVE  OpenInv'
<1> DEFINE l == open.fs
           n == open.name
<1>1. Underway(open) /\ open.step = "open" /\ UNCHANGED <<dir, entry, changes>>
  BY DEF OpenLayer, Underway
<1>2. /\ open \in OpenType /\ l \in Layer /\ n \in Name /\ Sized /\ Len(open.buf) <= open.size
      /\ open.pc = "size" => open.buf = << >>
  BY <1>1, Facts DEF OpenInv
<1>3. /\ open.pc = "size" /\ ~open.grown => Volume(Above(l), n) <= open.size
      /\ open.pc = "copy" /\ ~open.grown => Len(open.buf) + Volume(l..Height, n) <= open.size
  BY <1>1 DEF OpenInv, Enough
<1> HIDE DEF l, n
<1>4. CASE NotFound(l, n)
  <2>1. open' = NextFS(open)
    BY <1>4, OpensAnswers DEF OpenLayer, l, n
  <2>2. Volume(l..Height, n) = Volume(Above(l), n)
    BY <1>2, <1>4, OpensAnswers, VolumeSkips
  <2>3. CASE open.pc = "size"
    BY <1>1, <1>2, <1>3, <2>1, <2>2, <2>3, SizeNext, SameOpen DEF l, n
  <2>4. CASE open.pc = "copy"
    BY <1>1, <1>2, <1>3, <2>1, <2>2, <2>4, CopyNext, SameOpen DEF l, n
  <2> QED
    BY <1>1, <2>3, <2>4 DEF Underway
<1>5. CASE ~NotFound(l, n) /\ ~Opens(l, n)
  <2>1. open' = [open EXCEPT !.pc = "failed"]
    BY <1>5 DEF OpenLayer, l, n
  <2> QED
    BY <1>1, <2>1, OpenFails, SameOpen
<1>6. CASE Opens(l, n)
  <2> DEFINE t == [open EXCEPT !.step = "status", !.hand = entry[l][n], !.linked = TRUE]
  <2>1. open' = t
    BY <1>6, OpensAnswers DEF OpenLayer, l, n
  <2>2. entry[l][n] \in 0..MaxSize \union {Folder} /\ entry[l][n] \in Kinds
    BY <1>2, <1>6 DEF Sized, OpenInv, FilesType
  <2>3. /\ t \in OpenType /\ t.step = "status" /\ t.hand = entry[l][n] /\ t.pc = open.pc
        /\ t.fs = l /\ t.name = n /\ t.buf = open.buf /\ t.size = open.size
        /\ t.grown = open.grown
    BY <1>2, <2>2 DEF OpenType, l, n
  <2> HIDE DEF t
  <2>4. OpenShape(t)
    BY <1>2, <2>2, <2>3 DEF OpenShape, Underway
  <2>5. Linked(t)
    BY <1>6, <2>3 DEF Linked
  <2>6. Enough(t)
    <3>1. Volume(l..Height, n) = Room(Bulk(entry[l][n])) + Volume(Above(l), n)
      BY <1>2, <1>6, VolumeAdds
    <3>2. /\ Bulk(entry[l][n]) \in Int /\ Room(Bulk(entry[l][n])) \in Int
          /\ Volume(Above(l), n) \in Int /\ Len(open.buf) \in Int
      <4>1. Bulk(entry[l][n]) \in Nat /\ Room(Bulk(entry[l][n])) \in Nat
        BY <2>2, BulkType
      <4>2. Volume(Above(l), n) \in Nat
        BY <1>2, AboveType
      <4>3. Len(open.buf) \in Nat
        BY <1>2 DEF OpenType
      <4> QED
        BY <4>1, <4>2, <4>3
    <3>3. ASSUME ~t.grown, t.pc = "size"
          PROVE  Volume(Above(t.fs), t.name) <= t.size /\ Covers(t)
      BY <1>3, <2>3, <3>2, <3>3 DEF Covers
    <3>4. ASSUME ~t.grown, t.pc = "copy"
          PROVE  Len(t.buf) + Room(Bulk(t.hand)) + Volume(Above(t.fs), t.name) <= t.size
      <4> DEFINE r == Room(Bulk(entry[l][n]))
                 v == Volume(Above(l), n)
                 b == Len(open.buf)
                 z == open.size
      <4>1. b + (r + v) <= z /\ r \in Int /\ v \in Int /\ b \in Int /\ z \in Int
        BY <1>2, <1>3, <2>3, <3>1, <3>2, <3>4 DEF OpenType
      <4> HIDE DEF r, v, b, z
      <4>2. b + r + v <= z
        BY <4>1
      <4> QED
        BY <2>3, <4>2 DEF r, v, b, z
    <3> QED
      BY <1>1, <2>3, <3>3, <3>4 DEF Enough, Underway
  <2> QED
    BY <1>1, <2>1, <2>4, <2>5, <2>6, SameOpen DEF Opening
<1> QED
  BY <1>4, <1>5, <1>6

(* What status() says is no less than what there is to copy at least.      *)
LEMMA SizesType ==
  ASSUME NEW hand \in 0..MaxSize \union {Folder}, NEW s \in Sizes(hand)
  PROVE  /\ s \in Nat /\ Bulk(hand) \in Nat /\ Bulk(hand) <= s /\ Room(s) = s + 1
         /\ (hand = Folder => s = 0) => s = Bulk(hand)
<1>1. MaxSize \in Nat /\ Folder \notin Int
  BY OverlayAssumption
<1>2. CASE hand = Folder
  BY <1>1, <1>2 DEF Sizes, Bulk, Room
<1>3. CASE hand # Folder
  BY <1>1, <1>3 DEF Sizes, Bulk, Room
<1> QED
  BY <1>2, <1>3

LEMMA StatusKeeps ==
  ASSUME OpenInv, StatusOfLayer
  PROVE  OpenInv'
<1> DEFINE l == open.fs
           n == open.name
<1>1. Underway(open) /\ open.step = "status" /\ UNCHANGED <<dir, entry, changes>>
  BY DEF StatusOfLayer, Underway
<1>2. /\ open \in OpenType /\ l \in Layer /\ n \in Name /\ Sized /\ Len(open.buf) <= open.size
      /\ open.pc = "size" => open.buf = << >>
      /\ open.hand \in 0..MaxSize \union {Folder} /\ open.size \in Nat /\ Len(open.buf) \in Nat
      /\ Volume(Above(l), n) \in Nat /\ OpenShape(open) /\ Linked(open) /\ Enough(open)
  BY <1>1, Facts DEF OpenInv
<1>3. PICK s \in Sizes(open.hand) :
        open' = IF open.pc = "size" THEN NextFS([open EXCEPT !.size = @ + Room(s)])
                ELSE [open EXCEPT !.step = "getBuffer", !.asked = s]
  BY DEF StatusOfLayer
<1>4. /\ s \in Nat /\ Bulk(open.hand) \in Nat /\ Bulk(open.hand) <= s /\ Room(s) = s + 1
      /\ (open.hand = Folder => s = 0) => s = Bulk(open.hand)
  BY <1>2, SizesType
<1> HIDE DEF l, n
<1>5. CASE open.pc = "size"
  <2> DEFINE o == [open EXCEPT !.size = @ + Room(s)]
  <2>1. open' = NextFS(o)
    BY <1>3, <1>5
  <2>2. /\ o \in OpenType /\ o.pc = "size" /\ o.fs = l /\ o.name = n /\ o.buf = << >>
        /\ o.size = open.size + Room(s) /\ o.grown = open.grown
    <3>1. open.size + Room(s) \in Nat
      BY <1>2, <1>4
    <3> QED
      BY <1>2, <1>5, <3>1 DEF OpenType, l, n
  <2> HIDE DEF o
  <2>3. ASSUME ~open.grown
        PROVE  Volume(l..Height, n) <= open.size + Room(s)
    <3>1. Volume(Above(l), n) <= open.size /\ Covers(open)
      BY <1>1, <1>2, <1>5, <2>3 DEF Enough, l, n
    <3>2. CASE Opens(l, n)
      <4>1. Bulk(entry[l][n]) <= Bulk(open.hand)
        BY <3>1, <3>2 DEF Covers, l, n
      <4>2. entry[l][n] \in 0..MaxSize \union {Folder}
        BY <1>2, <3>2 DEF Sized
      <4>3. Bulk(entry[l][n]) \in Nat /\ Room(Bulk(entry[l][n])) = Bulk(entry[l][n]) + 1
        BY <4>2, BulkType
      <4>4. Volume(l..Height, n) = Room(Bulk(entry[l][n])) + Volume(Above(l), n)
        BY <1>2, <3>2, VolumeAdds
      <4> DEFINE e == Bulk(entry[l][n])
                 h == Bulk(open.hand)
                 v == Volume(Above(l), n)
                 b == open.size
      <4>5. e <= h /\ h <= s /\ v <= b /\ e \in Nat /\ h \in Nat /\ v \in Nat /\ b \in Nat /\ s \in Nat
            /\ Volume(l..Height, n) = (e + 1) + v
        BY <1>2, <1>4, <3>1, <4>1, <4>3, <4>4
      <4> HIDE DEF e, h, v, b
      <4>6. Volume(l..Height, n) <= b + (s + 1)
        BY <4>5
      <4> QED
        BY <1>4, <4>6 DEF b
    <3>3. CASE ~Opens(l, n)
      <4>1. Volume(l..Height, n) = Volume(Above(l), n)
        BY <1>2, <3>3, VolumeSkips
      <4> QED
        BY <1>2, <1>4, <3>1, <4>1
    <3> QED
      BY <3>2, <3>3
  <2>4. Opening(NextFS(o))
    BY <1>2, <2>2, <2>3, SizeNext
  <2> QED
    BY <1>1, <2>1, <2>4, SameOpen
<1>6. CASE open.pc = "copy"
  <2> DEFINE t == [open EXCEPT !.step = "getBuffer", !.asked = s]
  <2>1. open' = t
    BY <1>3, <1>6
  <2>2. /\ t \in OpenType /\ t.step = "getBuffer" /\ t.asked = s /\ t.hand = open.hand
        /\ t.pc = "copy" /\ t.fs = l /\ t.name = n /\ t.buf = open.buf /\ t.size = open.size
        /\ t.grown = open.grown /\ t.linked = open.linked
    BY <1>2, <1>4, <1>6 DEF OpenType, l, n
  <2> HIDE DEF t
  <2>3. OpenShape(t)
    BY <1>2, <2>2 DEF OpenShape, Underway
  <2>4. Linked(t)
    BY <1>1, <1>2, <2>2 DEF Linked, l, n
  <2>5. Enough(t)
    <3>1. ~open.grown => Len(open.buf) + Room(Bulk(open.hand)) + Volume(Above(l), n) <= open.size
      BY <1>1, <1>2, <1>6 DEF Enough, l, n
    <3> QED
      BY <1>4, <2>2, <3>1 DEF Enough
  <2> QED
    BY <1>1, <2>1, <2>3, <2>4, <2>5, SameOpen DEF Opening
<1> QED
  BY <1>1, <1>5, <1>6 DEF Underway

LEMMA ReadType ==
  ASSUME NEW l \in Layer, NEW hand, NEW asked \in Nat
  PROVE  /\ Append(Read(l, hand, asked), Newline) \in Seq(Byte)
         /\ Len(Append(Read(l, hand, asked), Newline)) = Room(asked) /\ Room(asked) \in Nat
<1> DEFINE f == Read(l, hand, asked)
<1>1. l \in Byte /\ Nul \in Byte /\ 0 \in Byte
  BY OverlayAssumption DEF Layer, Byte
<1>2. f \in [1..asked -> Byte]
  BY <1>1 DEF Read
<1>3. f \in Seq(Byte) /\ Len(f) = asked
  BY <1>2
<1> HIDE DEF f
<1> QED
  BY <1>1, <1>3 DEF Newline, Room, f

LEMMA CopyKeeps ==
  ASSUME OpenInv, CopyLayer
  PROVE  OpenInv'
<1> DEFINE l == open.fs
           n == open.name
           text == Append(Read(open.fs, open.hand, open.asked), Newline)
<1>1. /\ Underway(open) /\ open.pc = "copy" /\ open.step = "getBuffer"
      /\ UNCHANGED <<dir, entry, changes>>
  BY DEF CopyLayer, Underway
<1>2. /\ open \in OpenType /\ l \in Layer /\ n \in Name /\ Sized /\ Len(open.buf) <= open.size
      /\ open.size \in Nat /\ Len(open.buf) \in Nat /\ open.asked \in Nat
      /\ Volume(Above(l), n) \in Nat /\ OpenShape(open) /\ Linked(open) /\ Enough(open)
      /\ open.hand \in 0..MaxSize \union {Folder}
  BY <1>1, Facts DEF OpenInv, OpenType
<1>3. text \in Seq(Byte) /\ Len(text) = Room(open.asked) /\ Room(open.asked) \in Nat
  BY <1>2, ReadType
<1> HIDE DEF l, n
<1>4. CASE open.hand = Folder /\ open.asked > 0
  <2> DEFINE o == [open EXCEPT !.pc = "undefined"]
  <2>1. open' = o
    BY <1>4 DEF CopyLayer
  <2>2. /\ o \in OpenType /\ o.pc = "undefined" /\ o.step = open.step /\ o.hand = open.hand
        /\ o.linked = open.linked /\ o.fs = l /\ o.name = n /\ o.buf = open.buf /\ o.size = open.size
    BY <1>2 DEF OpenType, l, n
  <2> HIDE DEF o
  <2>3. OpenShape(o) /\ Linked(o) /\ Enough(o)
    BY <1>2, <2>2 DEF OpenShape, Underway, Linked, Enough, l, n
  <2> QED
    BY <1>1, <2>1, <2>3, SameOpen DEF Opening
<1>5. CASE ~(open.hand = Folder /\ open.asked > 0)
  <2>1. open' = IF Fits(text) THEN NextFS([open EXCEPT !.buf = @ \o text])
                ELSE [open EXCEPT !.pc = "overrun"]
    BY <1>5 DEF CopyLayer
  <2>2. ~open.grown => Len(open.buf) + Room(open.asked) + Volume(Above(l), n) <= open.size
    <3>1. open.hand = Folder => open.asked = 0
      BY <1>2, <1>5
    <3> QED
      BY <1>1, <1>2, <3>1 DEF Enough, l, n
  <2> HIDE DEF text
  <2>3. CASE Fits(text)
    <3> DEFINE o == [open EXCEPT !.buf = @ \o text]
    <3>1. open.buf \o text \in Seq(Byte) /\ Len(open.buf \o text) = Len(open.buf) + Len(text)
      BY <1>2, <1>3 DEF OpenType
    <3>2. /\ o \in OpenType /\ o.pc = "copy" /\ o.fs = l /\ o.name = n
          /\ o.buf = open.buf \o text /\ o.size = open.size /\ o.grown = open.grown
      BY <1>1, <1>2, <3>1 DEF OpenType, l, n
    <3>3. open' = NextFS(o)
      BY <2>1, <2>3
    <3> HIDE DEF o
    <3>4. Len(o.buf) <= o.size
      BY <2>3, <3>1, <3>2 DEF Fits
    <3>5. ~o.grown => Len(o.buf) + Volume(Above(o.fs), o.name) <= o.size
      BY <1>3, <2>2, <3>1, <3>2
    <3>6. Opening(NextFS(o))
      BY <1>2, <3>2, <3>4, <3>5, CopyNext
    <3> QED
      BY <1>1, <3>3, <3>6, SameOpen
  <2>4. CASE ~Fits(text)
    <3> DEFINE o == [open EXCEPT !.pc = "overrun"]
    <3>1. /\ o \in OpenType /\ o.pc = "overrun" /\ o.step = open.step /\ o.hand = open.hand
          /\ o.linked = open.linked /\ o.fs = l /\ o.name = n /\ o.buf = open.buf
          /\ o.size = open.size /\ o.grown = open.grown
      BY <1>2 DEF OpenType, l, n
    <3>2. open.grown
      BY <1>2, <1>3, <2>2, <2>4 DEF Fits
    <3>3. open' = o
      BY <2>1, <2>4
    <3> HIDE DEF o
    <3>4. OpenShape(o) /\ Linked(o) /\ Enough(o)
      BY <1>2, <3>1, <3>2 DEF OpenShape, Underway, Linked, Enough, l, n
    <3> QED
      BY <1>1, <3>3, <3>4, SameOpen DEF Opening
  <2> QED
    BY <2>3, <2>4
<1> QED
  BY <1>4, <1>5

-----------------------------------------------------------------------------
(* Others change the files during an open.                                 *)

(* What a change does to the open: the file in hand is another one by its  *)
(* name (Replace), or has become another size (Write).                     *)
LEMMA ChangedMeans ==
  ASSUME OpenInv, NEW l \in Layer, NEW n \in Name, NEW k \in Kind(l), Replace(l, n, k) \/ Write(l, n, k)
  PROVE  /\ Change(l, n, k) /\ open' \in OpenType
         /\ open'.pc = open.pc /\ open'.fs = open.fs /\ open'.name = open.name
         /\ open'.buf = open.buf /\ open'.size = open.size /\ open'.step = open.step
         /\ open'.asked = open.asked /\ ~open'.quiet
         /\ ~open'.grown => ~open.grown /\ (n = open.name => ~Grows(l, n, k))
         /\ \/ open'.hand = open.hand /\ (open'.linked => open.linked /\ ~InHand(l, n))
            \/ /\ open'.hand = k /\ k \in Nat /\ entry[l][n] \in Nat /\ InHand(l, n)
               /\ open'.linked = open.linked
            \/ /\ open'.hand = open.hand /\ ~InHand(l, n) /\ open'.linked = open.linked
<1> DEFINE c == Changed(l, n, k)
           G == open.grown \/ (n = open.name /\ Grows(l, n, k))
<1>1. open \in OpenType /\ k \in Kinds
  BY DEF OpenInv, OpenShape, Kinds
<1>2. G \in BOOLEAN /\ (~G => ~open.grown /\ (n = open.name => ~Grows(l, n, k)))
  BY <1>1 DEF OpenType, Grows
<1>3. c = [open EXCEPT !.quiet = FALSE, !.grown = G]
  BY DEF Changed
<1> HIDE DEF G
<1>4. /\ c \in OpenType /\ c.pc = open.pc /\ c.fs = open.fs /\ c.name = open.name /\ c.buf = open.buf
      /\ c.size = open.size /\ c.step = open.step /\ c.asked = open.asked /\ c.quiet = FALSE
      /\ c.grown = G /\ c.hand = open.hand /\ c.linked = open.linked
  BY <1>1, <1>2, <1>3 DEF OpenType
<1>5. CASE Replace(l, n, k)
  <2> DEFINE i == InHand(l, n)
             L == c.linked /\ ~i
  <2>1. open' = [c EXCEPT !.linked = L] /\ Change(l, n, k)
    BY <1>5 DEF Replace
  <2>2. L \in BOOLEAN /\ (L => c.linked /\ ~i)
    BY <1>4 DEF OpenType, InHand
  <2> HIDE DEF c, L
  <2>3. /\ open' \in OpenType /\ open'.pc = c.pc /\ open'.fs = c.fs /\ open'.name = c.name
        /\ open'.buf = c.buf /\ open'.size = c.size /\ open'.step = c.step /\ open'.asked = c.asked
        /\ open'.quiet = c.quiet /\ open'.grown = c.grown /\ open'.hand = c.hand /\ open'.linked = L
    BY <1>4, <2>1, <2>2 DEF OpenType
  <2> QED
    BY <1>2, <1>4, <2>1, <2>2, <2>3
<1>6. CASE Write(l, n, k)
  <2> DEFINE H == IF InHand(l, n) THEN k ELSE c.hand
  <2>1. open' = [c EXCEPT !.hand = H] /\ Change(l, n, k) /\ k \in Nat /\ entry[l][n] \in Nat
    BY <1>6 DEF Write
  <2>2. H \in Kinds \union {Absent} /\ (InHand(l, n) => H = k) /\ (~InHand(l, n) => H = c.hand)
    BY <1>1, <1>4 DEF OpenType
  <2> HIDE DEF c, H
  <2>3. /\ open' \in OpenType /\ open'.pc = c.pc /\ open'.fs = c.fs /\ open'.name = c.name
        /\ open'.buf = c.buf /\ open'.size = c.size /\ open'.step = c.step /\ open'.asked = c.asked
        /\ open'.quiet = c.quiet /\ open'.grown = c.grown /\ open'.hand = H
        /\ open'.linked = c.linked
    BY <1>4, <2>1, <2>2 DEF OpenType
  <2> QED
    BY <1>2, <1>4, <2>1, <2>2, <2>3
<1> QED
  BY <1>5, <1>6

(* A file that still has its name is what the directory holds, afterwards. *)
LEMMA ChangeLinked ==
  ASSUME OpenInv, NEW l \in Layer, NEW n \in Name, NEW k \in Kind(l), Replace(l, n, k) \/ Write(l, n, k)
  PROVE  /\ OpenShape(open)' /\ Linked(open)'
         /\ ~open'.grown /\ open.step # "open" =>
              Bulk(open'.hand) <= Bulk(open.hand) /\ (open'.hand = Folder <=> open.hand = Folder)
<1>1. FilesType /\ Sized /\ OpenShape(open) /\ Linked(open) /\ Change(l, n, k) /\ Sized'
      /\ (open.step # "open" =>
            open.fs \in Layer /\ open.name \in Name /\ open.hand \in 0..MaxSize \union {Folder})
  BY ChangedMeans, ChangeSized DEF OpenInv, OpenShape
<1>2. dir' = dir
  BY <1>1 DEF Change
<1>3. entry'[l][n] = k /\ \A m \in Layer, x \in Name : m # l \/ x # n => entry'[m][x] = entry[m][x]
  BY <1>1, ChangeFiles
<1>4. ASSUME open.step # "open", open'.linked, ~InHand(l, n), open.linked, open'.hand = open.hand
      PROVE  Opens(open.fs, open.name)' /\ open'.hand = entry'[open.fs][open.name]
  <2>1. Opens(open.fs, open.name) /\ open.hand = entry[open.fs][open.name]
    BY <1>1, <1>4 DEF Linked
  <2>2. open.fs # l \/ open.name # n
    BY <1>4 DEF InHand
  <2>3. entry'[open.fs][open.name] = entry[open.fs][open.name]
    BY <1>1, <1>3, <1>4, <2>2
  <2>4. /\ open'.fs = open.fs /\ open'.name = open.name
    BY ChangedMeans
  <2> QED
    BY <1>2, <1>4, <2>1, <2>3, <2>4 DEF Opens, Found, Has
<1>5. ASSUME open'.hand = k, k \in Nat, entry[l][n] \in Nat, InHand(l, n)
      PROVE  /\ Opens(open.fs, open.name)' /\ open'.hand = entry'[open.fs][open.name]
             /\ open'.hand \in 0..MaxSize /\ open.hand = entry[l][n] /\ open.hand \in 0..MaxSize
  <2>1. open.fs = l /\ open.name = n /\ open.linked /\ open.step # "open"
        /\ open'.fs = open.fs /\ open'.name = open.name
    BY <1>5, ChangedMeans DEF InHand
  <2>2. Opens(l, n) /\ open.hand = entry[l][n]
    BY <1>1, <2>1 DEF Linked
  <2>3. Folder \notin Nat /\ Absent \notin Nat /\ Locked \notin Nat /\ Dangling \notin Nat
        /\ Unreadable \notin Nat
    BY OverlayAssumption
  <2>4. Opens(l, n)'
    BY <1>2, <1>3, <1>5, <2>2, <2>3 DEF Opens, Found, Has
  <2>5. k \in 0..MaxSize /\ entry[l][n] \in 0..MaxSize
    BY <1>1, <1>3, <1>5, <2>2, <2>3, <2>4 DEF Sized
  <2> QED
    BY <1>3, <1>5, <2>1, <2>2, <2>4, <2>5
<1>6. OpenShape(open)'
  <2>1. open'.step # "open" => open'.hand \in 0..MaxSize \union {Folder}
    BY <1>1, <1>5, ChangedMeans
  <2> QED
    BY <1>1, <2>1, ChangedMeans DEF OpenShape, Underway
<1>7. Linked(open)'
  BY <1>4, <1>5, ChangedMeans DEF Linked
<1>8. ASSUME ~open'.grown, open.step # "open"
      PROVE  Bulk(open'.hand) <= Bulk(open.hand) /\ (open'.hand = Folder <=> open.hand = Folder)
  <2>1. CASE open'.hand = open.hand
    <3>1. Bulk(open.hand) \in Nat
      BY <1>1, <1>8, BulkType
    <3> QED
      BY <2>1, <3>1
  <2>2. CASE open'.hand = k /\ k \in Nat /\ entry[l][n] \in Nat /\ InHand(l, n)
    <3>1. open.hand = entry[l][n] /\ open'.hand \in 0..MaxSize /\ open.hand \in 0..MaxSize
          /\ Folder \notin Int
      BY <1>5, <2>2, OverlayAssumption
    <3>2. open.name = n
      BY <2>2 DEF InHand
    <3>3. k <= entry[l][n]
      BY <1>8, <2>2, <3>2, ChangedMeans DEF Grows
    <3> QED
      BY <2>2, <3>1, <3>3 DEF Bulk
  <2> QED
    BY <2>1, <2>2, ChangedMeans
<1> QED
  BY <1>6, <1>7, <1>8

LEMMA LessMore ==
  ASSUME NEW v \in Nat, NEW u \in Nat, u <= v, NEW z \in Nat
  PROVE  (v <= z => u <= z) /\ \A b \in Nat : b + v <= z => b + u <= z
OBVIOUS

LEMMA ChangeOpen ==
  ASSUME OpenInv, NEW l \in Layer, NEW n \in Name, NEW k \in Kind(l), Replace(l, n, k) \/ Write(l, n, k)
  PROVE  OpenInv'
<1> DEFINE v == Volume(Above(open.fs), open.name)
           w == Volume(open.fs..Height, open.name)
<1>1. FilesType /\ Sized /\ Change(l, n, k) /\ Enough(open) /\ open \in OpenType
  BY ChangedMeans DEF OpenInv, OpenShape
<1>2. FilesType' /\ Sized'
  BY <1>1, ChangeFiles, ChangeSized
<1>3. OpenShape(open)' /\ Linked(open)'
  BY ChangeLinked
<1>4. Enough(open)'
  <2> SUFFICES ASSUME ~open'.grown
               PROVE  Enough(open)'
    BY DEF Enough
  <2>1. ~open.grown /\ (n = open.name => ~Grows(l, n, k))
    BY ChangedMeans
  <2>2. /\ open'.pc = open.pc /\ open'.fs = open.fs /\ open'.name = open.name
        /\ open'.buf = open.buf /\ open'.size = open.size /\ open'.step = open.step
        /\ open'.asked = open.asked
    BY ChangedMeans
  <2>3. open.pc # "overrun"
    BY <1>1, <2>1 DEF Enough
  <2>4. CASE ~Underway(open)
    BY <2>2, <2>3, <2>4 DEF Enough, Underway
  <2>5. CASE Underway(open)
    <3>1. /\ open.fs \in Layer /\ open.name \in Name /\ open.size \in Nat /\ Len(open.buf) \in Nat
          /\ v \in Nat /\ w \in Nat
          /\ open.step # "open" => open.hand \in 0..MaxSize \union {Folder}
      BY <2>5, Facts
    <3>2. Above(open.fs) \in SUBSET Layer /\ open.fs..Height \in SUBSET Layer
      BY <3>1, AboveType
    <3>3. /\ v' = Cardinality(BytesNext(Above(open.fs), open.name))
          /\ w' = Cardinality(BytesNext(open.fs..Height, open.name))
      BY <2>2 DEF Volume, Bytes, BytesNext, Above, Opens, Found, Has
    <3>4. /\ Cardinality(BytesNext(Above(open.fs), open.name)) <= v
          /\ Cardinality(BytesNext(Above(open.fs), open.name)) \in Nat
      BY <1>1, <1>2, <2>1, <3>1, <3>2, ChangeShrinks
    <3>5. /\ Cardinality(BytesNext(open.fs..Height, open.name)) <= w
          /\ Cardinality(BytesNext(open.fs..Height, open.name)) \in Nat
      BY <1>1, <1>2, <2>1, <3>1, <3>2, ChangeShrinks
    <3>6. v' <= v /\ w' <= w /\ v' \in Nat /\ w' \in Nat
      BY <3>3, <3>4, <3>5
    <3> HIDE DEF v, w
    <3>7. ASSUME open.step # "open"
          PROVE  /\ Bulk(open'.hand) <= Bulk(open.hand) /\ (open'.hand = Folder <=> open.hand = Folder)
                 /\ Bulk(open'.hand) \in Nat /\ Bulk(open.hand) \in Nat
                 /\ Room(Bulk(open'.hand)) = Bulk(open'.hand) + 1
                 /\ Room(Bulk(open.hand)) = Bulk(open.hand) + 1
      <4>1. open'.hand \in 0..MaxSize \union {Folder}
        BY <1>3, <2>2, <3>7 DEF OpenShape
      <4> QED
        BY <3>1, <3>7, <4>1, ChangeLinked, BulkType
    <3>8. CASE open.pc = "size"
      <4>1. v <= open.size /\ (open.step # "open" => Covers(open))
        BY <1>1, <2>1, <3>8 DEF Enough, v
      <4>2. v' <= open.size
        BY <3>1, <3>6, <4>1, LessMore
      <4>3. ASSUME NEW m \in Layer, NEW x \in Name, m = open.fs, x = open.name,
                   open.step # "open", Opens(m, x)'
            PROVE  Bulk(entry'[m][x]) <= Bulk(open'.hand)
        <5>1. Opens(m, x) /\ Bulk(entry'[m][x]) <= Bulk(entry[m][x])
          BY <1>1, <2>1, <4>3, ChangeEntry
        <5>2. Bulk(entry[m][x]) <= Bulk(open.hand)
          BY <4>1, <4>3, <5>1 DEF Covers
        <5>3. entry[m][x] \in 0..MaxSize \union {Folder} /\ entry'[m][x] \in 0..MaxSize \union {Folder}
          BY <1>1, <1>2, <4>3, <5>1 DEF Sized
        <5>4. Bulk(entry[m][x]) \in Nat /\ Bulk(entry'[m][x]) \in Nat
          BY <5>3, BulkType
        <5>5. CASE open'.hand = open.hand
          <6>1. Bulk(open'.hand) = Bulk(open.hand) /\ Bulk(open.hand) \in Nat
            BY <3>7, <4>3, <5>5
          <6> QED
            BY <5>1, <5>2, <5>4, <6>1
        <5>6. CASE open'.hand = k /\ InHand(l, n)
          <6>1. entry'[m][x] = k
            BY <1>1, <4>3, <5>6, ChangeFiles DEF InHand
          <6> QED
            BY <5>4, <5>6, <6>1
        <5> QED
          BY <5>5, <5>6, ChangedMeans
      <4>4. open.step # "open" => Covers(open)'
        <5>1. open'.fs = open.fs /\ open'.name = open.name
          BY <2>2
        <5> QED
          BY <3>1, <4>3, <5>1 DEF Covers, Opens, Found, Has
      <4> QED
        BY <2>2, <3>8, <4>2, <4>4 DEF Enough, v
    <3>9. CASE open.pc = "copy" /\ open.step = "open"
      <4>1. Len(open.buf) + w <= open.size
        BY <1>1, <2>1, <3>9 DEF Enough, w
      <4> DEFINE b == Len(open.buf)
                 z == open.size
      <4>2. b + w <= z /\ b \in Nat /\ z \in Nat /\ w \in Nat /\ w' \in Nat /\ w' <= w
        BY <3>1, <3>6, <4>1
      <4> HIDE DEF b, z
      <4>3. b + w' <= z
        BY <4>2, LessMore
      <4> QED
        BY <2>2, <3>9, <4>3 DEF Enough, w, b, z
    <3>10. CASE open.pc = "copy" /\ open.step = "status"
      <4> DEFINE b == Len(open.buf)
                 z == open.size
                 h == Bulk(open.hand)
                 g == Bulk(open'.hand)
      <4>1. Len(open.buf) + Room(Bulk(open.hand)) + v <= open.size
        BY <1>1, <2>1, <3>10 DEF Enough, v
      <4>2. /\ b + (h + 1) + v <= z /\ b \in Nat /\ z \in Nat /\ v \in Nat /\ v' \in Nat /\ v' <= v
            /\ h \in Nat /\ g \in Nat /\ g <= h /\ Room(g) = g + 1
        BY <3>1, <3>6, <3>7, <3>10, <4>1
      <4> HIDE DEF b, z, h, g
      <4>3. b + (g + 1) + v' <= z
        <5>1. b + (g + 1) + v <= z /\ b + (g + 1) \in Nat
          BY <4>2
        <5>2. \A c \in Nat : c + v <= z => c + v' <= z
          BY <4>2, LessMore
        <5> QED
          BY <5>1, <5>2
      <4> QED
        BY <2>2, <3>10, <4>2, <4>3 DEF Enough, v, b, z, g
    <3>11. CASE open.pc = "copy" /\ open.step = "getBuffer"
      <4> DEFINE b == Len(open.buf)
                 z == open.size
                 r == Room(open.asked)
      <4>1. (open.hand = Folder => open.asked = 0) => b + r + v <= z
        BY <1>1, <2>1, <3>11 DEF Enough, v
      <4>2. b \in Nat /\ z \in Nat /\ v \in Nat /\ v' \in Nat /\ v' <= v /\ r \in Nat
        <5>1. open.asked \in Nat
          BY <1>1 DEF OpenType
        <5> QED
          BY <3>1, <3>6, <5>1 DEF Room
      <4> HIDE DEF b, z, r
      <4>3. (open'.hand = Folder => open'.asked = 0) => b + r + v' <= z
        <5>1. (open'.hand = Folder => open'.asked = 0) <=> (open.hand = Folder => open.asked = 0)
          BY <2>2, <3>7, <3>11
        <5>2. b + r \in Nat
          BY <4>2
        <5>3. b + r + v <= z => b + r + v' <= z
          BY <4>2, <5>2, LessMore
        <5> QED
          BY <4>1, <5>1, <5>3
      <4> QED
        BY <2>2, <3>11, <4>3 DEF Enough, v, b, z, r
    <3>12. open.step \in {"open", "status", "getBuffer"}
      BY <1>1 DEF OpenType
    <3> QED
      BY <2>5, <3>8, <3>9, <3>10, <3>11, <3>12 DEF Underway
  <2> QED
    BY <2>4, <2>5
<1> QED
  BY <1>2, <1>3, <1>4 DEF OpenInv

-----------------------------------------------------------------------------
LEMMA OpenInit ==
  Init => OpenInv
<1> SUFFICES ASSUME Init
             PROVE  OpenInv
  OBVIOUS
<1>1. FilesType
  BY ListInit DEF ListInv
<1>2. ASSUME NEW l \in Layer, NEW n \in Name, Opens(l, n)
      PROVE  entry[l][n] \in 0..MaxSize \union {Folder}
  <2>1. entry[l][n] \in Kind(l) /\ entry[l][n] \notin {Absent, Dangling, Unreadable, Locked}
    BY <1>2 DEF Init, Opens, Found, Has
  <2> QED
    BY <2>1 DEF Kind
<1> QED
  BY <1>1, <1>2, NothingOpen DEF Init, OpenInv, Opening, Sized

LEMMA OpenStep ==
  OpenInv /\ [Next]_vars => OpenInv'
<1> SUFFICES ASSUME OpenInv, [Next]_vars
             PROVE  OpenInv'
  OBVIOUS
<1>1. Opening(open)
  BY DEF OpenInv, Opening
<1>2. CASE DirBegin
  BY <1>2, NothingOpen, SameOpen DEF DirBegin
<1>3. CASE IncrementFS
  BY <1>1, <1>3, SameOpen DEF IncrementFS
<1>4. CASE Increment
  BY <1>1, <1>4, SameOpen DEF Increment
<1>5. ASSUME NEW n \in Name, OpenFileForRead(n)
      PROVE  OpenInv'
  BY <1>5, OpenBegins
<1>6. CASE OpenLayer
  BY <1>6, OpenLayerKeeps
<1>7. CASE StatusOfLayer
  BY <1>7, StatusKeeps
<1>8. CASE CopyLayer
  BY <1>8, CopyKeeps
<1>9. ASSUME NEW l \in Layer, NEW n \in Name, NEW k \in Kind(l), Replace(l, n, k) \/ Write(l, n, k)
      PROVE  OpenInv'
  BY <1>9, ChangeOpen
<1>10. CASE UNCHANGED vars
  BY <1>1, <1>10, SameOpen DEF vars
<1> QED
  BY <1>2, <1>3, <1>4, <1>5, <1>6, <1>7, <1>8, <1>9, <1>10 DEF Next

(* A concatenated file is written behind its buffer only if, between the   *)
(* two passes of ConcatenatedOverlayFileSystem::openFileForRead() or       *)
(* within them, something grew or appeared under its name.                 *)
THEOREM NoOverrunCorrect ==
  Spec => []NoOverrun
<1>1. OpenInv => NoOverrun
  BY DEF OpenInv, Enough, NoOverrun
<1> QED
  BY <1>1, OpenInit, OpenStep, PTL DEF Spec

(* A listing at an entry has one, in a layer of the stack, a file in hand  *)
(* is that of a call under way, and what has been copied fits into the     *)
(* buffer.                                                                 *)
THEOREM TypeCorrect ==
  Spec => []TypeOK
<1>1. ListInv /\ OpenInv => TypeOK
  <2> SUFFICES ASSUME ListInv, OpenInv
               PROVE  TypeOK
    OBVIOUS
  <2>1. list \in ListType /\ (list.pc \in {"user", "advance"} => list.fs \in Layer /\ list.cur \in Name)
    BY DEF ListInv, Listing, Within
  <2>2. open \in OpenType /\ Len(open.buf) <= open.size
    BY DEF OpenInv, OpenShape
  <2>3. 0 \notin Layer /\ 0..MaxSize \subseteq Nat
    BY OverlayAssumption DEF Layer
  <2>4. open.step # "open" => open.fs \in Layer /\ open.hand \in Nat \union {Folder}
    BY <2>3 DEF OpenInv, OpenShape
  <2> QED
    BY <2>1, <2>2, <2>3, <2>4 DEF TypeOK, ListType, OpenType
<1> QED
  BY <1>1, ListInit, ListStep, OpenInit, OpenStep, PTL DEF Spec


-----------------------------------------------------------------------------
(* ConcatCorrect: what the buffer of a concatenated file holds.            *)

(* A name under which no layer has a directory.                            *)
Plain(n) == \A l \in Layer : entry[l][n] # Folder

LEMMA PlainOpens ==
  ASSUME Sized, NEW l \in Layer, NEW n \in Name, entry[l][n] # Folder
  PROVE  /\ Opens(l, n) <=> Readable(l, n)
         /\ Opens(l, n) => entry[l][n] \in Nat /\ Bulk(entry[l][n]) = entry[l][n]
<1>1. Readable(l, n) => Opens(l, n)
  BY OpensMeans DEF Readable
<1>2. ASSUME Opens(l, n)
      PROVE  Readable(l, n) /\ entry[l][n] \in Nat /\ Bulk(entry[l][n]) = entry[l][n]
  <2>1. entry[l][n] \in 0..MaxSize /\ dir[l] = "there" /\ MaxSize \in Nat
    BY <1>2, OverlayAssumption DEF Sized, Opens, Found, Has
  <2> QED
    BY <2>1 DEF Readable, Bulk
<1> QED
  BY <1>1, <1>2

LEMMA JoiningMeans ==
  ASSUME NEW n \in Name
  PROVE  /\ Joining(n)[0] = << >>
         /\ \A l \in Layer :
              /\ Readable(l, n) => Joining(n)[l] = Joining(n)[l - 1] \o Text(l, n)
              /\ ~Readable(l, n) => Joining(n)[l] = Joining(n)[l - 1]
<1> DEFINE T == Seq(Byte)
           Next1(l, b) == b \o (IF Readable(l, n) THEN Text(l, n) ELSE << >>)
           step == [q \in Layer \X T |-> Next1(q[1], q[2])]
           Is(h) == h = [l \in 0..Height |-> IF l = 0 THEN << >> ELSE Next1(l, h[l - 1])]
<1>0. Height \in Nat /\ Layer = 1..Height
  BY OverlayAssumption DEF Layer
<1>1. << >> \in T
  OBVIOUS
<1>2. ASSUME NEW l \in Layer, NEW b \in T
      PROVE  Next1(l, b) \in T /\ (~Readable(l, n) => Next1(l, b) = b)
  <2>1. CASE Readable(l, n)
    <3>1. entry[l][n] \in Nat
      BY <2>1 DEF Readable
    <3>2. Text(l, n) \in T
      BY <3>1, ReadType DEF Text
    <3> QED
      BY <2>1, <3>2
  <2>2. CASE ~Readable(l, n)
    BY <2>2
  <2> QED
    BY <2>1, <2>2
<1>3. step \in [Layer \X T -> T]
  BY <1>2
<1>4. \A l \in Layer, b \in T : step[<<l, b>>] = Next1(l, b)
  OBVIOUS
<1>5. \A l \in Layer : \A b : Readable(l, n) => Next1(l, b) = b \o Text(l, n)
  OBVIOUS
<1>6. Joining(n) = CHOOSE h : Is(h)
  BY DEF Joining
<1> HIDE DEF T, Next1, step
<1>7. PICK f : Iterates(f, T, << >>, Height, step)
  BY <1>0, <1>1, <1>3, Recursion
<1>8. Is(f)
  <2>1. \A l \in Layer : l - 1 \in 0..Height
    BY <1>0
  <2>2. \A l \in Layer : f[l - 1] \in T /\ f[l] = Next1(l, f[l - 1])
    BY <1>0, <1>4, <1>7, <2>1 DEF Iterates
  <2> QED
    BY <1>0, <1>7, <2>2 DEF Iterates
<1>9. ASSUME NEW h, Is(h)
      PROVE  /\ h[0] = << >>
             /\ \A l \in Layer : h[l - 1] \in T /\ h[l] = Next1(l, h[l - 1])
  <2> DEFINE S == {l \in 0..Height : h[l] \in T}
  <2>1. h[0] = << >> /\ \A l \in Layer : h[l] = Next1(l, h[l - 1])
    BY <1>0, <1>9
  <2>2. 0 \in S
    BY <1>0, <1>1, <2>1
  <2>3. ASSUME NEW l \in 1..Height, l - 1 \in S
        PROVE  l \in S
    BY <1>0, <1>2, <2>1, <2>3
  <2> HIDE DEF S
  <2>4. 0..Height \subseteq S
    BY <1>0, <2>2, <2>3, UpTo
  <2>5. \A l \in Layer : h[l - 1] \in T
    BY <1>0, <2>4 DEF S
  <2> QED
    BY <2>1, <2>5
<1> HIDE DEF Is
<1>10. Is(Joining(n))
  BY <1>6, <1>8
<1> QED
  BY <1>2, <1>5, <1>9, <1>10

(* While nothing changes, the room that the layers still to come take is   *)
(* the room that is left, the ones before them are in the buffer, and the  *)
(* file in hand is that of its name.                                       *)
TrueHand(o) == o.step # "open" => Opens(o.fs, o.name) /\ o.hand = entry[o.fs][o.name]

Exact(o) ==
  o.quiet /\ Plain(o.name) =>
    /\ o.pc = "size" => o.size = Volume(Above(o.fs), o.name) /\ TrueHand(o)
    /\ o.pc = "copy" => /\ o.buf = Joining(o.name)[o.fs - 1]
                        /\ Len(o.buf) + Volume(o.fs..Height, o.name) = o.size
                        /\ TrueHand(o) /\ (o.step = "getBuffer" => o.asked = o.hand)
    /\ o.pc = "done" => o.buf = Joining(o.name)[Height] /\ Len(o.buf) = o.size

ConcatInv == OpenInv /\ Exact(open)

LEMMA SizeExact ==
  ASSUME NEW o \in OpenType, o.pc = "size", o.fs \in Layer, o.name \in Name, o.buf = << >>,
         o.quiet /\ Plain(o.name) => o.size = Volume(o.fs..Height, o.name)
  PROVE  Exact(NextFS(o))
<1> DEFINE t == NextFS(o)
<1>1. o.fs \in 1..Height /\ Height \in Nat /\ Len(o.buf) = 0 /\ o.size \in Nat
  BY OverlayAssumption DEF Layer, OpenType
<1>2. /\ t.step = "open" /\ t.name = o.name /\ t.buf = << >> /\ t.size = o.size /\ t.quiet = o.quiet
      /\ IF o.fs > 1 THEN t.pc = "size" /\ t.fs = o.fs - 1 ELSE t.pc = "copy" /\ t.fs = 1
  BY SizeNextMeans
<1> HIDE DEF t
<1>3. CASE o.fs > 1
  <2>1. Above(t.fs) = o.fs..Height
    BY <1>1, <1>2, <1>3 DEF Above
  <2>2. Exact(t)
    BY <1>2, <1>3, <2>1 DEF Exact, TrueHand
  <2> QED
    BY <2>2 DEF t
<1>4. CASE o.fs = 1
  <2>1. Joining(o.name)[0] = << >> /\ 1 - 1 = 0
    BY JoiningMeans
  <2>2. t.pc = "copy" /\ t.fs = 1 /\ t.buf = Joining(t.name)[t.fs - 1] /\ Len(t.buf) = 0
    BY <1>1, <1>2, <1>4, <2>1
  <2>3. Volume(1..Height, t.name) \in Nat
    BY <1>1, <1>2, <1>4, AboveType
  <2>4. t.quiet /\ Plain(t.name) => Len(t.buf) + Volume(t.fs..Height, t.name) = t.size
    BY <1>2, <1>4, <2>2, <2>3
  <2>5. Exact(t)
    BY <1>2, <2>2, <2>4 DEF Exact, TrueHand
  <2> QED
    BY <2>5 DEF t
<1> QED
  BY <1>1, <1>3, <1>4

LEMMA CopyExact ==
  ASSUME NEW o \in OpenType, o.pc = "copy", o.fs \in Layer, o.name \in Name,
         o.quiet /\ Plain(o.name) => /\ o.buf = Joining(o.name)[o.fs]
                                     /\ Len(o.buf) + Volume(Above(o.fs), o.name) = o.size
  PROVE  Exact(NextFS(o))
<1> DEFINE t == NextFS(o)
<1>1. o.fs \in 1..Height /\ Height \in Nat /\ Len(o.buf) \in Nat
  BY OverlayAssumption DEF Layer, OpenType
<1>2. /\ t.step = "open" /\ t.name = o.name /\ t.buf = o.buf /\ t.size = o.size /\ t.quiet = o.quiet
      /\ IF o.fs < Height THEN t.pc = "copy" /\ t.fs = o.fs + 1 ELSE t.pc = "done"
  BY CopyNextMeans
<1> HIDE DEF t
<1>3. CASE o.fs < Height
  <2>1. t.fs..Height = Above(o.fs) /\ t.fs - 1 = o.fs
    BY <1>1, <1>2, <1>3 DEF Above
  <2>2. Exact(t)
    BY <1>2, <1>3, <2>1 DEF Exact, TrueHand
  <2> QED
    BY <2>2 DEF t
<1>4. CASE o.fs = Height
  <2>1. Volume(Above(Height), o.name) = 0
    <3>1. Bytes(Above(Height), o.name) = {}
      BY <1>1 DEF Above, Bytes
    <3> QED
      BY <3>1, FS_EmptySet DEF Volume
  <2>2. Exact(t)
    BY <1>1, <1>2, <1>4, <2>1 DEF Exact
  <2> QED
    BY <2>2 DEF t
<1> QED
  BY <1>1, <1>3, <1>4

LEMMA SameExact ==
  ASSUME UNCHANGED <<dir, entry>>, Exact(open')
  PROVE  Exact(open)'
BY DEF Exact, TrueHand, Plain, Volume, Bytes, Readable, Joining, Text, Opens, Found, Has

LEMMA NotExact ==
  ASSUME NEW o, o.pc \in {"idle", "failed", "undefined", "overrun"}
  PROVE  Exact(o)
BY DEF Exact

LEMMA OpenLayerExact ==
  ASSUME ConcatInv, OpenLayer
  PROVE  Exact(open)'
<1> DEFINE l == open.fs
           n == open.name
<1>1. Underway(open) /\ open.step = "open" /\ UNCHANGED <<dir, entry>> /\ OpenInv /\ Exact(open)
  BY DEF OpenLayer, Underway, ConcatInv
<1>2. /\ open \in OpenType /\ l \in Layer /\ n \in Name /\ Sized
      /\ open.pc = "size" => open.buf = << >>
  BY <1>1, Facts DEF OpenInv
<1> HIDE DEF l, n
<1>3. CASE NotFound(l, n)
  <2>1. open' = NextFS(open)
    BY <1>3, OpensAnswers DEF OpenLayer, l, n
  <2>2. ~Opens(l, n) /\ Volume(l..Height, n) = Volume(Above(l), n)
    BY <1>2, <1>3, OpensAnswers, VolumeSkips
  <2>3. CASE open.pc = "size"
    <3>1. open.quiet /\ Plain(n) => open.size = Volume(l..Height, n)
      BY <1>1, <2>2, <2>3 DEF Exact, l, n
    <3> QED
      BY <1>1, <1>2, <2>1, <2>3, <3>1, SizeExact, SameExact DEF l, n
  <2>4. CASE open.pc = "copy"
    <3>1. Plain(n) => Joining(n)[l] = Joining(n)[l - 1]
      <4>1. Plain(n) => ~Readable(l, n)
        BY <1>2, <2>2, PlainOpens DEF Plain
      <4> QED
        BY <1>2, <4>1, JoiningMeans
    <3>2. open.quiet /\ Plain(n) => /\ open.buf = Joining(n)[l]
                                    /\ Len(open.buf) + Volume(Above(l), n) = open.size
      BY <1>1, <2>2, <2>4, <3>1 DEF Exact, l, n
    <3> QED
      BY <1>1, <1>2, <2>1, <2>4, <3>2, CopyExact, SameExact DEF l, n
  <2> QED
    BY <1>1, <2>3, <2>4 DEF Underway
<1>4. CASE ~NotFound(l, n) /\ ~Opens(l, n)
  <2>1. open' = [open EXCEPT !.pc = "failed"]
    BY <1>4 DEF OpenLayer, l, n
  <2>2. open'.pc = "failed"
    BY <1>2, <2>1 DEF OpenType
  <2> QED
    BY <1>1, <2>2, NotExact, SameExact
<1>5. CASE Opens(l, n)
  <2> DEFINE t == [open EXCEPT !.step = "status", !.hand = entry[l][n], !.linked = TRUE]
  <2>1. open' = t
    BY <1>5, OpensAnswers DEF OpenLayer, l, n
  <2>2. /\ t.step = "status" /\ t.hand = entry[l][n] /\ t.pc = open.pc
        /\ t.fs = l /\ t.name = n /\ t.buf = open.buf /\ t.size = open.size
        /\ t.quiet = open.quiet
    BY <1>2 DEF OpenType, l, n
  <2> HIDE DEF t
  <2>3. TrueHand(t)
    BY <1>5, <2>2 DEF TrueHand
  <2>4. Exact(t)
    BY <1>1, <2>2, <2>3 DEF Exact, Underway, l, n
  <2> QED
    BY <1>1, <2>1, <2>4, SameExact
<1> QED
  BY <1>3, <1>4, <1>5

LEMMA StatusExact ==
  ASSUME ConcatInv, StatusOfLayer
  PROVE  Exact(open)'
<1> DEFINE l == open.fs
           n == open.name
<1>1. Underway(open) /\ open.step = "status" /\ UNCHANGED <<dir, entry>> /\ OpenInv /\ Exact(open)
  BY DEF StatusOfLayer, Underway, ConcatInv
<1>2. /\ open \in OpenType /\ l \in Layer /\ n \in Name /\ Sized
      /\ open.pc = "size" => open.buf = << >>
      /\ open.hand \in 0..MaxSize \union {Folder} /\ open.size \in Nat
      /\ Volume(Above(l), n) \in Nat
  BY <1>1, Facts DEF OpenInv
<1>3. PICK s \in Sizes(open.hand) :
        open' = IF open.pc = "size" THEN NextFS([open EXCEPT !.size = @ + Room(s)])
                ELSE [open EXCEPT !.step = "getBuffer", !.asked = s]
  BY DEF StatusOfLayer
<1>4. s \in Nat /\ Room(s) = s + 1
  BY <1>2, SizesType
<1>5. ASSUME open.quiet, Plain(n)
      PROVE  /\ Opens(l, n) /\ open.hand = entry[l][n] /\ s = open.hand
             /\ Volume(l..Height, n) = Room(s) + Volume(Above(l), n)
  <2>1. Opens(l, n) /\ open.hand = entry[l][n]
    BY <1>1, <1>5 DEF Exact, TrueHand, Underway
  <2>2. open.hand # Folder /\ Bulk(entry[l][n]) = entry[l][n]
    BY <1>2, <1>5, <2>1, PlainOpens DEF Plain
  <2>3. s = open.hand
    BY <2>2 DEF Sizes
  <2>4. Volume(l..Height, n) = Room(Bulk(entry[l][n])) + Volume(Above(l), n)
    BY <1>2, <2>1, VolumeAdds
  <2> QED
    BY <2>1, <2>2, <2>3, <2>4
<1> HIDE DEF l, n
<1>6. CASE open.pc = "size"
  <2> DEFINE o == [open EXCEPT !.size = @ + Room(s)]
  <2>1. open' = NextFS(o)
    BY <1>3, <1>6
  <2>2. /\ o \in OpenType /\ o.pc = "size" /\ o.fs = l /\ o.name = n /\ o.buf = << >>
        /\ o.size = open.size + Room(s) /\ o.quiet = open.quiet
    <3>1. open.size + Room(s) \in Nat
      BY <1>2, <1>4
    <3> QED
      BY <1>2, <1>6, <3>1 DEF OpenType, l, n
  <2> HIDE DEF o
  <2>3. ASSUME open.quiet, Plain(n)
        PROVE  open.size + Room(s) = Volume(l..Height, n)
    <3>1. open.size = Volume(Above(l), n)
      BY <1>1, <1>6, <2>3 DEF Exact, l, n
    <3> QED
      BY <1>2, <1>4, <1>5, <2>3, <3>1
  <2>4. Exact(NextFS(o))
    BY <1>2, <2>2, <2>3, SizeExact
  <2> QED
    BY <1>1, <2>1, <2>4, SameExact
<1>7. CASE open.pc = "copy"
  <2> DEFINE t == [open EXCEPT !.step = "getBuffer", !.asked = s]
  <2>1. open' = t
    BY <1>3, <1>7
  <2>2. /\ t.step = "getBuffer" /\ t.asked = s /\ t.hand = open.hand
        /\ t.pc = "copy" /\ t.fs = l /\ t.name = n /\ t.buf = open.buf /\ t.size = open.size
        /\ t.quiet = open.quiet
    BY <1>2, <1>7 DEF OpenType, l, n
  <2> HIDE DEF t
  <2>3. ASSUME open.quiet, Plain(n)
        PROVE  /\ t.buf = Joining(n)[l - 1] /\ Len(t.buf) + Volume(l..Height, n) = t.size
               /\ TrueHand(t) /\ t.asked = t.hand
    <3>1. open.buf = Joining(n)[l - 1] /\ Len(open.buf) + Volume(l..Height, n) = open.size
      BY <1>1, <1>7, <2>3 DEF Exact, l, n
    <3> QED
      BY <1>5, <2>2, <2>3, <3>1 DEF TrueHand
  <2>4. Exact(t)
    BY <2>2, <2>3 DEF Exact
  <2> QED
    BY <1>1, <2>1, <2>4, SameExact
<1> QED
  BY <1>1, <1>6, <1>7 DEF Underway

LEMMA CopyLayerExact ==
  ASSUME ConcatInv, CopyLayer
  PROVE  Exact(open)'
<1> DEFINE l == open.fs
           n == open.name
           text == Append(Read(open.fs, open.hand, open.asked), Newline)
<1>1. /\ Underway(open) /\ open.pc = "copy" /\ open.step = "getBuffer"
      /\ UNCHANGED <<dir, entry>> /\ OpenInv /\ Exact(open)
  BY DEF CopyLayer, Underway, ConcatInv
<1>2. /\ open \in OpenType /\ l \in Layer /\ n \in Name /\ Sized
      /\ open.size \in Nat /\ Len(open.buf) \in Nat /\ open.asked \in Nat
      /\ Volume(Above(l), n) \in Nat /\ open.buf \in Seq(Byte)
  BY <1>1, Facts DEF OpenInv, OpenType
<1>3. text \in Seq(Byte) /\ Len(text) = Room(open.asked) /\ Room(open.asked) \in Nat
  BY <1>2, ReadType
<1>4. ASSUME open.quiet, Plain(n)
      PROVE  /\ text = Text(l, n) /\ Joining(n)[l] = Joining(n)[l - 1] \o Text(l, n)
             /\ open.buf = Joining(n)[l - 1]
             /\ Len(open.buf) + (Room(open.asked) + Volume(Above(l), n)) = open.size
  <2>1. /\ open.buf = Joining(n)[l - 1] /\ Len(open.buf) + Volume(l..Height, n) = open.size
        /\ Opens(l, n) /\ open.hand = entry[l][n] /\ open.asked = open.hand
    BY <1>1, <1>4 DEF Exact, TrueHand
  <2>2. Readable(l, n) /\ Bulk(entry[l][n]) = entry[l][n]
    BY <1>2, <1>4, <2>1, PlainOpens DEF Plain
  <2>3. Volume(l..Height, n) = Room(Bulk(entry[l][n])) + Volume(Above(l), n)
    BY <1>2, <2>1, VolumeAdds
  <2>4. text = Text(l, n)
    BY <2>1 DEF Text
  <2>5. Joining(n)[l] = Joining(n)[l - 1] \o Text(l, n)
    BY <1>2, <2>2, JoiningMeans
  <2> QED
    BY <2>1, <2>2, <2>3, <2>4, <2>5
<1> HIDE DEF l, n
<1>5. CASE open.hand = Folder /\ open.asked > 0
  <2>1. open' = [open EXCEPT !.pc = "undefined"]
    BY <1>5 DEF CopyLayer
  <2>2. open'.pc = "undefined"
    BY <1>2, <2>1 DEF OpenType
  <2> QED
    BY <1>1, <2>2, NotExact, SameExact
<1>6. CASE ~(open.hand = Folder /\ open.asked > 0)
  <2>1. open' = IF Fits(text) THEN NextFS([open EXCEPT !.buf = @ \o text])
                ELSE [open EXCEPT !.pc = "overrun"]
    BY <1>6 DEF CopyLayer
  <2> HIDE DEF text
  <2>2. CASE Fits(text)
    <3> DEFINE o == [open EXCEPT !.buf = @ \o text]
    <3>1. open.buf \o text \in Seq(Byte) /\ Len(open.buf \o text) = Len(open.buf) + Len(text)
      BY <1>2, <1>3
    <3>2. /\ o \in OpenType /\ o.pc = "copy" /\ o.fs = l /\ o.name = n
          /\ o.buf = open.buf \o text /\ o.size = open.size /\ o.quiet = open.quiet
      BY <1>1, <1>2, <3>1 DEF OpenType, l, n
    <3>3. open' = NextFS(o)
      BY <2>1, <2>2
    <3> HIDE DEF o
    <3>4. ASSUME o.quiet, Plain(o.name)
          PROVE  o.buf = Joining(o.name)[o.fs] /\ Len(o.buf) + Volume(Above(o.fs), o.name) = o.size
      <4>1. /\ open.buf = Joining(n)[l - 1] /\ Joining(n)[l] = Joining(n)[l - 1] \o text
            /\ Len(open.buf) + (Room(open.asked) + Volume(Above(l), n)) = open.size
        BY <1>4, <3>2, <3>4
      <4>2. o.buf = Joining(n)[l] /\ Len(o.buf) = Len(open.buf) + Room(open.asked)
        BY <1>3, <3>1, <3>2, <4>1
      <4>3. Len(o.buf) + Volume(Above(l), n) = open.size
        BY <1>2, <1>3, <4>1, <4>2
      <4> QED
        BY <3>2, <4>2, <4>3
    <3>5. Exact(NextFS(o))
      BY <1>2, <3>2, <3>4, CopyExact
    <3> QED
      BY <1>1, <3>3, <3>5, SameExact
  <2>3. CASE ~Fits(text)
    <3>1. open' = [open EXCEPT !.pc = "overrun"]
      BY <2>1, <2>3
    <3>2. open'.pc = "overrun"
      BY <1>2, <3>1 DEF OpenType
    <3> QED
      BY <1>1, <3>2, NotExact, SameExact
  <2> QED
    BY <2>2, <2>3
<1> QED
  BY <1>5, <1>6

LEMMA OpenBeginsExact ==
  ASSUME OpenInv, NEW n \in Name, OpenFileForRead(n)
  PROVE  Exact(open)'
<1> DEFINE start == [Idle EXCEPT !.name = n, !.pc = "failed"]
           t == [start EXCEPT !.pc = "size", !.fs = Height]
<1>1. (open' = t \/ open' = start) /\ UNCHANGED <<dir, entry>>
  BY DEF OpenFileForRead
<1>2. start \in OpenType /\ start.pc = "failed" /\ start.size = 0 /\ start.name = n
      /\ start.step = "open"
  <2>1. n \in Name \union {End}
    OBVIOUS
  <2> QED
    BY <2>1, NothingOpen DEF OpenType
<1> HIDE DEF start
<1>3. t.pc = "size" /\ t.fs = Height /\ t.size = 0 /\ t.name = n /\ t.step = "open"
  BY <1>2 DEF OpenType
<1>4. Volume(Above(Height), n) = 0
  <2>1. Bytes(Above(Height), n) = {}
    BY OverlayAssumption DEF Above, Bytes
  <2> QED
    BY <2>1, FS_EmptySet DEF Volume
<1> HIDE DEF t
<1>5. Exact(t)
  BY <1>3, <1>4 DEF Exact, TrueHand
<1>6. Exact(start)
  BY <1>2, NotExact
<1> QED
  BY <1>1, <1>5, <1>6, SameExact

LEMMA ConcatStep ==
  ConcatInv /\ [Next]_vars => ConcatInv'
<1> SUFFICES ASSUME ConcatInv, [Next]_vars
             PROVE  Exact(open)'
  BY OpenStep DEF ConcatInv
<1>1. OpenInv /\ Exact(open)
  BY DEF ConcatInv
<1>2. CASE DirBegin
  BY <1>2, NothingOpen, NotExact, SameExact DEF DirBegin
<1>3. CASE IncrementFS
  BY <1>1, <1>3, SameExact DEF IncrementFS
<1>4. CASE Increment
  BY <1>1, <1>4, SameExact DEF Increment
<1>5. ASSUME NEW n \in Name, OpenFileForRead(n)
      PROVE  Exact(open)'
  BY <1>1, <1>5, OpenBeginsExact
<1>6. CASE OpenLayer
  BY <1>6, OpenLayerExact
<1>7. CASE StatusOfLayer
  BY <1>7, StatusExact
<1>8. CASE CopyLayer
  BY <1>8, CopyLayerExact
<1>9. ASSUME NEW l \in Layer, NEW n \in Name, NEW k \in Kind(l), Replace(l, n, k) \/ Write(l, n, k)
      PROVE  Exact(open)'
  <2>1. ~open'.quiet
    BY <1>1, <1>9, ChangedMeans
  <2> QED
    BY <2>1 DEF Exact
<1>10. CASE UNCHANGED vars
  BY <1>1, <1>10, SameExact DEF vars
<1> QED
  BY <1>2, <1>3, <1>4, <1>5, <1>6, <1>7, <1>8, <1>9, <1>10 DEF Next

(* While nothing changes, and no layer has a directory under its name, the *)
(* buffer of a concatenated file holds the files of all layers from the    *)
(* base up, each followed by a newline, and is full to its last byte:      *)
(* ConcatenatedOverlayFileSystem::openFileForRead().                       *)
THEOREM ConcatCorrect ==
  Spec => []ConcatOK
<1>1. Init => ConcatInv
  <2>1. Exact(Idle)
    BY NothingOpen, NotExact
  <2> QED
    BY <2>1, OpenInit DEF Init, ConcatInv
<1>2. ConcatInv => ConcatOK
  BY DEF ConcatInv, Exact, ConcatOK, Joined, Plain
<1> QED
  BY <1>1, <1>2, ConcatStep, PTL DEF Spec

=============================================================================
