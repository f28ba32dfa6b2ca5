------------------------------ MODULE Overlay ------------------------------
(* OverlayFileSystem and ConcatenatedOverlayFileSystem: a stack of file    *)
(* systems seen as one.  One directory, and what is in it.  The two        *)
(* classes share the listing, word for word, and status(); the second one  *)
(* opens a file as the concatenation of the files of all layers.  Each     *)
(* call into a layer, and into a file that it opened, is a step; between   *)
(* two of them others may change the files.                                *)
EXTENDS Integers, Sequences, FiniteSets, FileStatus

CONSTANTS Height,       \* number of layers: 1 is the base, Height on top
          Disk,         \* the layers that are RealFileSystems; others are in memory
          Mount,        \* the mount point of each layer; those in memory have none
          Path,         \* the path of the directory
          Name,         \* names in it
          Absent,       \* no such entry
          Folder,       \* a directory
          Locked,       \* a file that can be looked up, but not opened
          Dangling,     \* a link to nothing
          Unreadable,   \* an entry that cannot be looked up
          MaxSize,      \* bound: size of a file
          Held,         \* bound: what a directory may hold
          MaxChanges    \* bound: changes of files during a call or a listing

Layer == 1..Height

(* What a directory holds under a name: a file is its size.                *)
Kind(l) == {Absent, Folder} \union 0..MaxSize
             \union IF l \in Disk THEN {Locked, Dangling, Unreadable} ELSE {}

End == << >>      \* the end iterator: no name

(* A byte of layer l's files is written l; the base of the stack is 1.     *)
Newline == 0
Nul     == -1

ASSUME OverlayAssumption ==
  /\ Height \in Nat \ {0} /\ Disk \subseteq Layer
  /\ Mount \in [Layer -> Seq(STRING)] /\ \A l \in Layer \ Disk : Mount[l] = << >>
  /\ Path \in Seq(STRING)
  /\ Name \subseteq Seq(STRING) \ {End} /\ IsFiniteSet(Name) /\ \A n \in Name : Bare(n)
  /\ MaxSize \in Nat /\ MaxChanges \in Nat
  /\ Held \subseteq [Name -> UNION {Kind(l) : l \in Layer}]
  /\ Absent \notin {Folder, Locked, Dangling, Unreadable}
  /\ Folder \notin {Locked, Dangling, Unreadable}
  /\ Locked \notin {Dangling, Unreadable} /\ Dangling # Unreadable
  /\ {Absent, Folder, Locked, Dangling, Unreadable} \intersect Int = {}

VARIABLES
  dir,       \* dir[l]: the path is a directory ("there"), is not there
             \*   ("missing"), or cannot be listed ("failing"; a file, in memory)
  entry,     \* entry[l][n]: what the directory holds under n, in Kind(l)
  list,      \* OverlayFSDirIterImpl and the directory_iterator around it
  open,      \* ConcatenatedOverlayFileSystem::openFileForRead()
  changes    \* number of changes so far, see MaxChanges

vars == <<dir, entry, list, open, changes>>

-----------------------------------------------------------------------------
(* What one layer answers.                                                 *)

Has(l, n) == dir[l] = "there" /\ entry[l][n] # Absent

Found(l, n) == Has(l, n) /\ entry[l][n] \notin {Dangling, Unreadable}     \* status()

Opens(l, n) ==                                                           \* openFileForRead()
  Found(l, n) /\ entry[l][n] # Locked /\ (entry[l][n] = Folder => l \in Disk)

(* The error is no_such_file_or_directory, or another one.  In memory, a   *)
(* path through a file is not there.                                       *)
NotFound(l, n) ==
  \/ dir[l] = "missing" \/ (dir[l] = "failing" /\ l \notin Disk)
  \/ dir[l] = "there" /\ entry[l][n] \in {Absent, Dangling}

(* status() of the stack: the uppermost answer that is not "not found"; 0  *)
(* when there is none.                                                     *)
Answering(n) ==
  CHOOSE l \in 0..Height :
    /\ l # 0 => ~NotFound(l, n)
    /\ \A k \in (l + 1)..Height : NotFound(k, n)

(* The name that clients see of an entry, last component of getName(): a   *)
(* file in memory has that of its path, one on disk what its mount point   *)
(* leaves of it.                                                           *)
Called ==
  [l \in Layer |-> [n \in Name |->
     LET directory == PhysicalToVirtualPath(Mount[l], Path)
     IN  Filename(VirtualName(AppendPath(directory, n), Mount[l]))]]

(* A layer's directory_iterator after it reached n: a link to nothing is   *)
(* an entry, and an error; what cannot be looked up is the end, with       *)
(* another error.                                                          *)
Reached(l, n) ==
  CASE ~Has(l, n) \/ entry[l][n] = Dangling -> [cur |-> n,   ec |-> "not found"]
    [] Has(l, n) /\ entry[l][n] = Unreadable -> [cur |-> End, ec |-> "failed"]
    [] OTHER -> [cur |-> n, ec |-> "ok"]

AtEnd(ec) == [cur |-> End, ec |-> ec]

Names(l) == {n \in Name : Has(l, n)}

(* dir_begin() of a layer: its entries come in no particular order.        *)
Begun(l) ==
  CASE dir[l] = "missing" -> {AtEnd("not found")}
    [] dir[l] = "failing" -> {AtEnd("failed")}
    [] OTHER -> IF Names(l) = {} THEN {AtEnd("ok")} ELSE {Reached(l, n) : n \in Names(l)}

(* increment() of the layer's iterator: names that appear or vanish after  *)
(* dir_begin() may be passed over or not.                                  *)
Incremented ==
  LET l    == list.fs
      left == (list.snap \union Names(l)) \ list.passed
  IN  {Reached(l, n) : n \in left} \union
      IF list.snap \intersect Names(l) \subseteq list.passed THEN {AtEnd("ok")} ELSE {}

-----------------------------------------------------------------------------
(* The listing.  pc: "user" at a name, "advance" on the way to the next    *)
(* one, "fs" on the way to the next layer, "end".                          *)

NoList == [pc |-> "end", fs |-> 0, snap |-> {}, passed |-> {}, cur |-> End, ec |-> "ok",
           seen |-> {},        \* SeenNames: what the entries given were called
           given |-> << >>,    \* history: <<name, layer>> of each entry given
           due |-> {},         \* history: <<name, layer>> that were there all the time
           lost |-> FALSE,     \* history: the error of the uppermost layer was lost
           quiet |-> TRUE]     \* history: nothing changed

Ended(i, ec) == [i EXCEPT !.pc = "end", !.cur = End, !.ec = ec]

(* One turn of incrementImpl(): CurrentDirIter is at r.                    *)
Turn_bug(i, r) ==                        \* names not looked for among those seen
  IF r.cur = End THEN [i EXCEPT !.pc = "fs", !.cur = End]
  ELSE [i EXCEPT !.cur = r.cur, !.passed = @ \union {r.cur}, !.pc = "user",
                 !.seen = @ \union {Called[i.fs][r.cur]}, !.given = Append(@, <<r.cur, i.fs>>)]

Turn_past_bug(i, r) ==                   \* the end of a layer is taken for an entry
  IF r.ec # "ok" THEN Ended(i, r.ec)
  ELSE [i EXCEPT !.cur = r.cur, !.pc = "user", !.given = Append(@, <<r.cur, i.fs>>)]

Turn(i, r) ==
  CASE r.ec # "ok" -> Ended(i, r.ec)
    [] r.ec = "ok" /\ r.cur = End -> [i EXCEPT !.pc = "fs", !.cur = End]
    [] OTHER ->
         LET name == Called[i.fs][r.cur]
             j    == [i EXCEPT !.cur = r.cur, !.passed = @ \union {r.cur}]
         IN  IF name \in i.seen THEN [j EXCEPT !.pc = "advance"]
             ELSE [j EXCEPT !.pc = "user", !.seen = @ \union {name},
                            !.given = Append(@, <<r.cur, i.fs>>)]

(* A layer is entered at r.                                                *)
Enter(i, l, r) == Turn([i EXCEPT !.fs = l, !.snap = Names(l), !.passed = {}], r)

Idle == [pc |-> "idle", name |-> End, fs |-> 0, size |-> 0, buf |-> << >>,
         step |-> "open",      \* the next call: "open", "status" or "getBuffer"
         hand |-> Absent,      \* the file that was opened,
         linked |-> FALSE,     \*   is it still that of its name?
         asked |-> 0,          \* what status() said of its size
         quiet |-> TRUE,       \* history: nothing changed
         grown |-> FALSE]      \* history: something grew, or appeared, under the name

(* dir_begin(): the constructor overwrites the error of the uppermost      *)
(* layer with that of incrementImpl(true).                                 *)
DirBegin ==
  /\ list.pc \in {"user", "end"} /\ open.pc \notin {"size", "copy"}
  /\ open' = Idle
  /\ \E r \in Begun(Height) :
       list' = Enter([NoList EXCEPT !.due  = {d \in Name \X Layer : Found(d[2], d[1])},
                                    !.lost = (r.ec = "failed")],
                     Height, [r EXCEPT !.ec = "ok"])
  /\ UNCHANGED <<dir, entry, changes>>

(* incrementFS(): a layer that has no such directory is passed over; so is *)
(* the error of a first entry that is a link to nothing.                   *)
Tolerated_bug(r) == [r EXCEPT !.ec = "ok"]

Tolerated(r) == IF r.ec = "not found" THEN [r EXCEPT !.ec = "ok"] ELSE r

IncrementFS ==
  /\ list.pc = "fs"
  /\ IF list.fs = 1 THEN list' = Ended([list EXCEPT !.fs = 0], "ok")
     ELSE \E r \in Begun(list.fs - 1) : list' = Enter(list, list.fs - 1, Tolerated(r))
  /\ UNCHANGED <<dir, entry, open, changes>>

(* increment() by the client, and the next turn after a name seen before.  *)
Increment ==
  /\ list.pc \in {"user", "advance"}
  /\ \E r \in Incremented : list' = Turn(list, r)
  /\ UNCHANGED <<dir, entry, open, changes>>

-----------------------------------------------------------------------------
(* Opening a concatenated file.  pc: "size" while the layers are asked for *)
(* their sizes, from the top, "copy" while they are copied, from the base. *)

OpenFileForRead(n) ==
  /\ list.pc \in {"user", "end"} /\ open.pc \notin {"size", "copy"}
  /\ open' = LET start == [Idle EXCEPT !.name = n, !.pc = "failed"]
             IN  IF Answering(n) # 0 /\ Found(Answering(n), n)
                 THEN [start EXCEPT !.pc = "size", !.fs = Height] ELSE start
  /\ list' = NoList
  /\ UNCHANGED <<dir, entry, changes>>

(* The file goes, and the next layer of either loop comes.                 *)
LetGo_bug(o) == [o EXCEPT !.hand = Absent]      \* the next layer is not opened

LetGo(o) == [o EXCEPT !.step = "open", !.hand = Absent, !.linked = FALSE, !.asked = 0]

NextFS_bug(o) ==                         \* copied from the top
  CASE o.fs > 1                   -> [LetGo(o) EXCEPT !.fs = @ - 1]
    [] o.pc = "size" /\ o.fs = 1 -> [LetGo(o) EXCEPT !.pc = "copy", !.fs = Height]
    [] o.pc = "copy" /\ o.fs = 1 -> [LetGo(o) EXCEPT !.pc = "done", !.fs = 0]

NextFS(o) ==
  CASE o.pc = "size" /\ o.fs > 1      -> [LetGo(o) EXCEPT !.fs = @ - 1]
    [] o.pc = "size" /\ o.fs = 1      -> [LetGo(o) EXCEPT !.pc = "copy"]
    [] o.pc = "copy" /\ o.fs < Height -> [LetGo(o) EXCEPT !.fs = @ + 1]
    [] o.pc = "copy" /\ o.fs = Height -> [LetGo(o) EXCEPT !.pc = "done", !.fs = 0]

(* openFileForRead() of a layer, which is skipped when there is no such    *)
(* file, and ends the call when there is another error.                    *)
OpenLayer ==
  /\ open.pc \in {"size", "copy"} /\ open.step = "open"
  /\ open' =
       CASE NotFound(open.fs, open.name) -> NextFS(open)
         [] Opens(open.fs, open.name) ->
              [open EXCEPT !.step = "status", !.hand = entry[open.fs][open.name], !.linked = TRUE]
         [] OTHER -> [open EXCEPT !.pc = "failed"]
  /\ UNCHANGED <<dir, entry, list, changes>>

(* status()->getSize() of the file; that of a directory may be any.        *)
Sizes(hand) == IF hand = Folder THEN 0..MaxSize ELSE {hand}

(* What a file takes in the buffer: its bytes and a newline.               *)
Room_bug(size) == size

Room(size) == size + 1

StatusOfLayer ==
  /\ open.pc \in {"size", "copy"} /\ open.step = "status"
  /\ \E s \in Sizes(open.hand) :
       open' = IF open.pc = "size" THEN NextFS([open EXCEPT !.size = @ + Room(s)])
               ELSE [open EXCEPT !.step = "getBuffer", !.asked = s]
  /\ UNCHANGED <<dir, entry, list, changes>>

(* What getBuffer() reads: as many bytes as it was asked for, the last of  *)
(* them zero if the file has become shorter.                               *)
Read(l, hand, asked) == [i \in 1..asked |-> IF hand \in Nat /\ i <= hand THEN l ELSE Nul]

(* A file that does not fit is written behind the buffer; a directory      *)
(* cannot be read, and there is nothing to copy from.  What follows is     *)
(* undefined: this process stops here, and another one begins.             *)
Fits(text) == Len(open.buf) + Len(text) <= open.size

CopyLayer ==
  /\ open.pc = "copy" /\ open.step = "getBuffer"
  /\ open' =
       IF open.hand = Folder /\ open.asked > 0 THEN [open EXCEPT !.pc = "undefined"]
       ELSE LET text == Append(Read(open.fs, open.hand, open.asked), Newline)
            IN  IF Fits(text) THEN NextFS([open EXCEPT !.buf = @ \o text])
                ELSE [open EXCEPT !.pc = "overrun"]
  /\ UNCHANGED <<dir, entry, list, changes>>

-----------------------------------------------------------------------------
(* Others change files on disk, and add files in memory, while a listing   *)
(* or a call is under way.  A file that is open is kept when its name goes *)
(* to another one, and is seen to change when it is written.               *)
InHand(l, n) == open.step # "open" /\ open.linked /\ open.fs = l /\ open.name = n

Grows(l, n, k) ==
  k \in Nat \union {Folder} /\ ~(entry[l][n] \in Nat /\ k \in Nat /\ k <= entry[l][n])

Change(l, n, k) ==
  /\ list.pc # "end" \/ open.pc \in {"size", "copy"}
  /\ changes < MaxChanges
  /\ dir[l] = "there" /\ k # entry[l][n]
  /\ entry' = [entry EXCEPT ![l][n] = k] /\ entry'[l] \in Held
  /\ list' = [list EXCEPT !.quiet = FALSE,
                          !.due = @ \ IF k \in {Absent, Dangling, Unreadable} THEN {<<n, l>>} ELSE {}]
  /\ changes' = changes + 1
  /\ UNCHANGED dir

Changed(l, n, k) ==
  [open EXCEPT !.quiet = FALSE, !.grown = @ \/ (n = open.name /\ Grows(l, n, k))]

Replace(l, n, k) ==
  /\ l \in Disk \/ entry[l][n] = Absent
  /\ Change(l, n, k)
  /\ open' = [Changed(l, n, k) EXCEPT !.linked = @ /\ ~InHand(l, n)]

Write(l, n, k) ==
  /\ l \in Disk /\ entry[l][n] \in Nat /\ k \in Nat
  /\ Change(l, n, k)
  /\ open' = [Changed(l, n, k) EXCEPT !.hand = IF InHand(l, n) THEN k ELSE @]

Init ==
  /\ dir \in [Layer -> {"there", "missing", "failing"}]
  /\ entry \in [Layer -> Held]
  /\ \A l \in Layer, n \in Name : entry[l][n] \in IF dir[l] = "there" THEN Kind(l) ELSE {Absent}
  /\ list = NoList /\ open = Idle /\ changes = 0

Next ==
  \/ DirBegin \/ IncrementFS \/ Increment
  \/ \E n \in Name : OpenFileForRead(n)
  \/ OpenLayer \/ StatusOfLayer \/ CopyLayer
  \/ \E l \in Layer, n \in Name : \E k \in Kind(l) : Replace(l, n, k) \/ Write(l, n, k)

Spec == Init /\ [][Next]_vars

-----------------------------------------------------------------------------
(* What the stack promises.                                                *)

(* TypeOK: a listing that is at an entry has one, in a layer of the stack, *)
(* a file in hand is that of a call under way, and what has been copied    *)
(* fits into the buffer.                                                   *)
TypeOK ==
  /\ list.fs \in 0..Height /\ list.given \in Seq(Name \X Layer)
  /\ list.pc \in {"user", "advance"} => list.fs # 0 /\ list.cur \in Name
  /\ open.fs \in 0..Height /\ Len(open.buf) <= open.size
  /\ open.step # "open" => open.fs # 0 /\ open.hand \in Nat \union {Folder}

Given == {list.given[i] : i \in DOMAIN list.given}

CalledOf(g) == Called[g[2]][g[1]]

(* Union: each entry that could be looked up in some layer the whole time  *)
(* is in a listing that ends without an error, by what it is called: the   *)
(* same entry, or one that hides it; unless the error of the uppermost     *)
(* layer was lost.                                                         *)
Union ==
  list.pc = "end" /\ list.ec = "ok" /\ ~list.lost
    => \A d \in list.due : \E g \in Given : CalledOf(g) = CalledOf(d)

(* UnionOfContents: each entry that could be looked up the whole time is   *)
(* in a listing that ends without an error, under its own name.            *)
UnionOfContents ==
  list.pc = "end" /\ list.ec = "ok" => \A d \in list.due : \E g \in Given : g[1] = d[1]

(* Agrees: nothing is called the same twice in a listing, and while        *)
(* nothing changes an entry whose name every layer keeps is given from the *)
(* layer whose file status() finds under its name.                         *)
Kept(n) == \A l \in Layer : Called[l][n] = n

Agrees ==
  /\ \A i, j \in DOMAIN list.given : CalledOf(list.given[i]) = CalledOf(list.given[j]) => i = j
  /\ list.quiet /\ ~list.lost
       => \A g \in Given : Kept(g[1]) /\ Found(g[2], g[1]) => Answering(g[1]) = g[2]

(* NoOverrun: the buffer of a concatenated file, as large as the sizes of  *)
(* the first pass, is written behind its end in the second one only if     *)
(* something grew or appeared under that name between the two.             *)
NoOverrun == open.pc = "overrun" => open.grown

(* ConcatOK: while nothing changes the buffer of a concatenated file holds *)
(* the files of all layers, from the base up, each followed by a newline,  *)
(* and nothing else, if none of them is a directory.                       *)
Readable(l, n) == dir[l] = "there" /\ entry[l][n] \in Nat

Text(l, n) == Append(Read(l, entry[l][n], entry[l][n]), Newline)

Joining(n) ==
  LET upto[l \in 0..Height] ==
        IF l = 0 THEN << >> ELSE upto[l - 1] \o IF Readable(l, n) THEN Text(l, n) ELSE << >>
  IN  upto

Joined(n) == Joining(n)[Height]

ConcatOK ==
  open.pc = "done" /\ open.quiet /\ (\A l \in Layer : entry[l][open.name] # Folder)
    => open.buf = Joined(open.name) /\ Len(open.buf) = open.size

=============================================================================
