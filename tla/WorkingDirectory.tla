--------------------------- MODULE WorkingDirectory ---------------------------
(***************************************************************************)
(* The working directory of a stack of file systems: pushOverlay() and     *)
(* setCurrentWorkingDirectory() of OverlayFileSystem and of                *)
(* ConcatenatedOverlayFileSystem, whose texts are the same.                *)
(*                                                                         *)
(* A layer in memory has a working directory of its own.  All layers on    *)
(* disk share that of the process, and one with a mount point prepends it  *)
(* to relative paths too, so that no working directory matters to it.      *)
(* "All file systems are synchronized, just take the first working         *)
(* directory", says the code: the properties say when they are.            *)
(***************************************************************************)
EXTENDS Integers, Sequences, FiniteSets, SequencesExt

CONSTANTS Paths,         \* what clients pass: [abs, up, rest], as in InMemoryFS
          Directories,   \* the directories on disk, as sequences of names from "/"
          Mounts,        \* the mount points of layers on disk
          MaxDepth       \* bound: length of a working directory

Root == << <<"/">> >>      \* a name is the sequence of its characters

ASSUME DirectoryAssumption ==
  /\ Paths \subseteq [abs : BOOLEAN, up : Nat, rest : Seq(Seq(STRING))]
  /\ Root \in Directories /\ Directories \subseteq Seq(Seq(STRING))
  /\ \A d \in Directories : d # << >> /\ d[1] = <<"/">>
  /\ MaxDepth \in Nat

VARIABLES layers,   \* FSList, the first one is the base
          cwd       \* the working directory of the process

Memory(wd)  == [kind |-> "memory", wd |-> wd, mount |-> << >>]
Disk(mount) == [kind |-> "disk", wd |-> << >>, mount |-> mount]

Disks(stack)  == {i \in DOMAIN stack : stack[i].kind = "disk"}
Rooted(layer) == layer.mount # << >>

(* A directory as the path that names it, and as that path is from dir.    *)
AsPath(d) ==
  IF IsPrefix(Root, d) THEN [abs |-> TRUE, up |-> 0, rest |-> Tail(d)]
  ELSE [abs |-> FALSE, up |-> 0, rest |-> d]

Climb(dir, up) ==
  SubSeq(dir, 1, IF IsPrefix(Root, dir) /\ up >= Len(dir) THEN 1 ELSE Len(dir) - up)

Resolve(dir, p) == (IF p.abs THEN Root ELSE Climb(dir, p.up)) \o p.rest

(* LLVM's releases disagree on ".." above a relative working directory.    *)
Sound(stack, p) ==
  \A i \in DOMAIN stack \ Disks(stack) :
    ~p.abs /\ p.up > Len(stack[i].wd) => IsPrefix(Root, stack[i].wd)

(* getCurrentWorkingDirectory() of a layer.                                *)
DirectoryOf(layer, dir) == IF layer.kind = "memory" THEN layer.wd ELSE dir

(* chdir() is refused for the empty path and for what is no directory.     *)
Changes_bug(dir, p) == p # [abs |-> FALSE, up |-> 0, rest |-> << >>]

Changes(dir, p) ==
  /\ p # [abs |-> FALSE, up |-> 0, rest |-> << >>]
  /\ Resolve(dir, p) \in Directories

(* setCurrentWorkingDirectory() of one layer: the state after, and whether *)
(* it succeeded.  In memory the empty path changes nothing.                *)
SetLayer(s, i, p) ==
  IF s.layers[i].kind = "memory"
  THEN LET d == Resolve(s.layers[i].wd, p)
       IN  [s EXCEPT !.layers[i].wd = IF d = << >> THEN @ ELSE d]
  ELSE IF Changes(s.cwd, p) THEN [s EXCEPT !.cwd = Resolve(@, p)]
  ELSE [s EXCEPT !.ok = FALSE]

(* That of a stack: one layer after the other, until one fails.            *)
SetAll_bug(stack, dir, p) ==           \* the last layer is left out
  LET after[n \in 0..Len(stack)] ==
        IF n = 0 THEN [layers |-> stack, cwd |-> dir, ok |-> TRUE]
        ELSE LET s == after[n - 1] IN IF s.ok /\ (n = 1 \/ n < Len(stack)) THEN SetLayer(s, n, p) ELSE s
  IN  after[Len(stack)]

SetAll(stack, dir, p) ==
  LET after[n \in 0..Len(stack)] ==
        IF n = 0 THEN [layers |-> stack, cwd |-> dir, ok |-> TRUE]
        ELSE LET s == after[n - 1] IN IF s.ok THEN SetLayer(s, n, p) ELSE s
  IN  after[Len(stack)]

(* pushOverlay(): the new layer goes to the working directory of the base, *)
(* and nobody is told when it cannot.                                      *)
Push(s, layer) ==
  LET stack == Append(s.layers, layer)
      front == DirectoryOf(stack[1], s.cwd)
  IN  SetLayer([s EXCEPT !.layers = stack], Len(stack), AsPath(front))

State == [layers |-> layers, cwd |-> cwd, ok |-> TRUE]

setCurrentWorkingDirectory(p) ==
  LET after == SetAll(layers, cwd, p)
  IN  /\ Sound(layers, p)
      /\ \A i \in DOMAIN layers : Len(after.layers[i].wd) <= MaxDepth
      /\ layers' = after.layers
      /\ cwd' = after.cwd

pushOverlay(layer) ==
  LET after == Push(State, layer)
  IN  /\ layers' = after.layers
      /\ cwd' = after.cwd

-----------------------------------------------------------------------------
(* What a layer without a mount point takes a path for.                    *)
Means(stack, dir, i, p) == Resolve(DirectoryOf(stack[i], dir), p)

InStep(stack, dir) ==
  \A p \in Paths : \A i, j \in DOMAIN stack :
    ~Rooted(stack[i]) /\ ~Rooted(stack[j]) => Means(stack, dir, i, p) = Means(stack, dir, j, p)

(* A relative path moves the process once for each layer on disk, which    *)
(* does no harm if the layers there are all rooted or there is only one.   *)
MovesOnce(stack, p) ==
  p.abs \/ Cardinality(Disks(stack)) <= 1 \/ \A i \in Disks(stack) : Rooted(stack[i])

(* A call that succeeds brings the layers in step (with an absolute path)  *)
(* or keeps them so (with a relative one); pushing a layer keeps them in   *)
(* step if the base is in a directory that exists.                         *)
SetKeepsStep(p) ==
  /\ SetAll(layers, cwd, p).ok
  /\ p.abs \/ (InStep(layers, cwd) /\ MovesOnce(layers, p))
  => InStep(layers', cwd')

PushKeepsStep ==
  InStep(layers, cwd) /\ DirectoryOf(layers[1], cwd) \in Directories => InStep(layers', cwd')

=============================================================================
