----------------------------- MODULE FilesProofs -----------------------------
(***************************************************************************)
(* Theorems about Files, and about the two modules it is built from: for   *)
(* any mount points, files, requests and module paths, stacks of any       *)
(* height and any number of sources.                                       *)
(***************************************************************************)
EXTENDS Files, TextProofs, SequenceTheorems

PathType == [abs : BOOLEAN, up : Nat, rest : Seq(Seq(STRING))]

LayerType == [kind : {"memory", "disk"}, wd : Seq(Seq(STRING)), mount : Mounts \union {<< >>}]

(* A call of setCurrentWorkingDirectory() on a stack of n layers.          *)
StateType(n) == [layers : [1..n -> LayerType], cwd : Directories, ok : BOOLEAN]

(* The stack of a FileManager.                                             *)
ManagerStack(stack) ==
  \A l \in DOMAIN stack :
    IF l = 1 THEN stack[l].kind = "memory" /\ ~Rooted(stack[l])
    ELSE stack[l].kind = "disk" /\ Rooted(stack[l])

(* Two stacks that differ in their working directories at most.            *)
SameLayers(stack, old) ==
  /\ DOMAIN stack = DOMAIN old
  /\ \A l \in DOMAIN old : stack[l].kind = old[l].kind /\ stack[l].mount = old[l].mount

-----------------------------------------------------------------------------
LEMMA FirstSymbol ==
  ASSUME NEW S, NEW s \in Seq(S), NEW c \in S
  PROVE  IsPrefix(<<c>>, s) <=> s # << >> /\ s[1] = c
<1>1. Len(<<c>>) = 1 /\ <<c>>[1] = c /\ <<c>> \in Seq(S)
  OBVIOUS
<1>2. ASSUME NEW t \in Seq(S), Len(t) >= 1
      PROVE  SubSeq(t, 1, 1) = <<t[1]>>
  <2>1. 1 \in Int /\ \A i \in 1..1 : t[i] \in S
    BY <1>2
  <2>2. /\ SubSeq(t, 1, 1) \in Seq(S)
        /\ Len(SubSeq(t, 1, 1)) = IF 1 <= 1 THEN 1 - 1 + 1 ELSE 0
        /\ \A i \in 1..(1 - 1 + 1) : SubSeq(t, 1, 1)[i] = t[1 + i - 1]
    BY <2>1, SubSeqProperties, SMTT(60)
  <2>3. Len(SubSeq(t, 1, 1)) = 1 /\ SubSeq(t, 1, 1)[1] = t[1] /\ SubSeq(t, 1, 1) \in Seq(S)
    BY <2>2
  <2>4. \A u \in Seq(S) : Len(u) = 1 /\ u[1] = t[1] => u = <<t[1]>>
    OBVIOUS
  <2> QED
    BY <2>3, <2>4
<1>3. SubSeq(<<c>>, 1, 1) = <<c>>
  <2>1. PICK t : t = <<c>>
    OBVIOUS
  <2>2. t \in Seq(S) /\ Len(t) >= 1
    BY <1>1, <2>1
  <2>3. SubSeq(t, 1, 1) = <<t[1]>>
    BY <1>2, <2>2
  <2> QED
    BY <1>1, <2>1, <2>3
<1>4. CASE s = << >>
  BY <1>1, <1>4 DEF IsPrefix
<1>5. CASE s # << >>
  <2>1. Len(s) >= 1
    BY <1>5
  <2>2. SubSeq(s, 1, 1) = <<s[1]>>
    BY <1>2, <2>1
  <2>3. <<s[1]>> = <<c>> <=> s[1] = c
    OBVIOUS
  <2>4. IsPrefix(<<c>>, s) <=> SubSeq(<<c>>, 1, 1) = SubSeq(s, 1, 1)
    BY <1>1, <2>1 DEF IsPrefix
  <2> QED
    BY <1>3, <1>5, <2>2, <2>3, <2>4
<1> QED
  BY <1>4, <1>5

LEMMA Appended ==
  ASSUME NEW S, NEW t \in Seq(S), NEW x \in S, NEW u, u = Append(t, x)
  PROVE  /\ u \in Seq(S) /\ u # << >> /\ Len(u) = Len(t) + 1
         /\ u[Len(u)] = x /\ \A l \in 1..Len(t) : u[l] = t[l]
         /\ DOMAIN u = DOMAIN t \union {Len(u)} /\ Len(u) \notin DOMAIN t
OBVIOUS

LEMMA RootType == Root \in Seq(Seq(STRING)) /\ Root # << >> /\ <<"/">> \in Seq(STRING)
<1>1. Root \in Seq(Seq(STRING))
  BY DirectoryAssumption
<1>2. Root # << >> /\ Root[1] = <<"/">> /\ Root[1] \in Seq(STRING)
  BY <1>1 DEF Root
<1> QED
  BY <1>1, <1>2

LEMMA ClimbType ==
  ASSUME NEW dir \in Seq(Seq(STRING)), NEW up \in Nat
  PROVE  /\ Climb(dir, up) \in Seq(Seq(STRING))
         /\ IsPrefix(Root, dir) => Climb(dir, up) # << >>
<1> DEFINE n == IF IsPrefix(Root, dir) /\ up >= Len(dir) THEN 1 ELSE Len(dir) - up
<1>1. IsPrefix(Root, dir) => Len(dir) >= 1
  <2>1. IsPrefix(Root, dir) => dir # << >>
    BY FirstSymbol, RootType DEF Root
  <2> QED
    BY <2>1
<1>2. n \in Int /\ n <= Len(dir) /\ (IsPrefix(Root, dir) => n >= 1)
  BY <1>1
<1> HIDE DEF n
<1>3. \A i \in 1..n : dir[i] \in Seq(STRING)
  BY <1>2
<1>4. /\ SubSeq(dir, 1, n) \in Seq(Seq(STRING))
      /\ Len(SubSeq(dir, 1, n)) = IF 1 <= n THEN n - 1 + 1 ELSE 0
  BY <1>2, <1>3, SubSeqProperties
<1>5. n >= 1 => SubSeq(dir, 1, n) # << >>
  <2>1. PICK u : u = SubSeq(dir, 1, n)
    OBVIOUS
  <2>2. n >= 1 => Len(u) = n /\ n # 0
    BY <1>2, <1>4, <2>1
  <2>3. u = << >> => Len(u) = 0
    OBVIOUS
  <2> QED
    BY <2>1, <2>2, <2>3
<1> QED
  BY <1>2, <1>4, <1>5 DEF Climb, n

LEMMA ResolveType ==
  ASSUME NEW dir \in Seq(Seq(STRING)), NEW p \in PathType
  PROVE  /\ Resolve(dir, p) \in Seq(Seq(STRING))
         /\ IsPrefix(Root, dir) => Resolve(dir, p) # << >>
         /\ p.abs => Resolve(dir, p) = Root \o p.rest /\ Resolve(dir, p) # << >>
<1>1. p.rest \in Seq(Seq(STRING)) /\ Root \in Seq(Seq(STRING)) /\ Root # << >>
  BY RootType DEF PathType
<1>2. Climb(dir, p.up) \in Seq(Seq(STRING)) /\ (IsPrefix(Root, dir) => Climb(dir, p.up) # << >>)
  BY ClimbType DEF PathType
<1>3. \A a, b \in Seq(Seq(STRING)) : a \o b \in Seq(Seq(STRING)) /\ (a # << >> => a \o b # << >>)
  OBVIOUS
<1> QED
  BY <1>1, <1>2, <1>3 DEF Resolve

LEMMA DirectoryType ==
  ASSUME NEW d \in Directories
  PROVE  d \in Seq(Seq(STRING)) /\ d # << >> /\ IsPrefix(Root, d)
BY DirectoryAssumption, FirstSymbol, RootType DEF Root

-----------------------------------------------------------------------------
(* One layer is moved: nothing else of the stack changes.                  *)
LEMMA SetLayerType ==
  ASSUME NEW n \in Nat, NEW s \in StateType(n), NEW i \in 1..n, NEW p \in PathType
  PROVE  /\ SetLayer(s, i, p) \in StateType(n)
         /\ SameLayers(SetLayer(s, i, p).layers, s.layers)
         /\ \A l \in 1..n \ {i} : SetLayer(s, i, p).layers[l] = s.layers[l]
<1> DEFINE d == Resolve(s.layers[i].wd, p)
           wd == IF d = << >> THEN s.layers[i].wd ELSE d
<1>1. s.layers \in [1..n -> LayerType] /\ s.layers[i] \in LayerType /\ s.cwd \in Directories
  BY DEF StateType
<1>2. CASE s.layers[i].kind = "memory"
  <2>1. d \in Seq(Seq(STRING))
    BY <1>1, ResolveType DEF LayerType
  <2>2. wd \in Seq(Seq(STRING))
    BY <1>1, <2>1 DEF LayerType
  <2>3. SetLayer(s, i, p) = [s EXCEPT !.layers[i].wd = wd]
    BY <1>2 DEF SetLayer
  <2> HIDE DEF wd
  <2> DEFINE new == [s.layers[i] EXCEPT !.wd = wd]
  <2>4. new \in LayerType /\ new.kind = s.layers[i].kind /\ new.mount = s.layers[i].mount
    BY <1>1, <2>2 DEF LayerType
  <2>5. SetLayer(s, i, p) = [s EXCEPT !.layers = [s.layers EXCEPT ![i] = new]]
    BY <1>1, <2>3 DEF StateType
  <2> HIDE DEF new
  <2> QED
    BY <1>1, <2>4, <2>5 DEF StateType, SameLayers
<1>3. CASE s.layers[i].kind # "memory"
  <2>1. Changes(s.cwd, p) => Resolve(s.cwd, p) \in Directories
    BY DEF Changes
  <2>2. SetLayer(s, i, p).layers = s.layers /\ SetLayer(s, i, p) \in StateType(n)
    BY <1>3, <2>1 DEF SetLayer, StateType
  <2> QED
    BY <1>1, <2>2 DEF SameLayers
<1> QED
  BY <1>2, <1>3

(* The states in which a call leaves the layers, one after the other.      *)
Run(f, stack, dir, p) ==
  /\ f \in [0..Len(stack) -> StateType(Len(stack))]
  /\ f[0] = [layers |-> stack, cwd |-> dir, ok |-> TRUE]
  /\ \A n \in 1..Len(stack) : f[n] = IF f[n - 1].ok THEN SetLayer(f[n - 1], n, p) ELSE f[n - 1]

LEMMA SetAllRuns ==
  ASSUME NEW stack \in Seq(LayerType), NEW dir \in Directories, NEW p \in PathType
  PROVE  \E f : Run(f, stack, dir, p) /\ SetAll(stack, dir, p) = f[Len(stack)]
<1> DEFINE N == Len(stack)
           T == StateType(N)
           a == [layers |-> stack, cwd |-> dir, ok |-> TRUE]
           Next1(n, s) == IF s.ok THEN SetLayer(s, n, p) ELSE s
           step == [q \in (1..N) \X T |-> Next1(q[1], q[2])]
           Is(h) == h = [n \in 0..N |-> IF n = 0 THEN a ELSE Next1(n, h[n - 1])]
<1>1. N \in Nat /\ a \in T
  BY DEF StateType
<1>2. \A n \in 1..N, s \in T : Next1(n, s) \in T
  BY <1>1, SetLayerType
<1> HIDE DEF T, Next1, a
<1>3. step \in [(1..N) \X T -> T] /\ \A n \in 1..N, s \in T : step[<<n, s>>] = Next1(n, s)
  BY <1>2
<1> HIDE DEF step, N
<1>4. PICK f : Iterates(f, T, a, N, step)
  BY <1>1, <1>3, Recursion
<1>5. \A n \in 1..N : f[n - 1] \in T /\ f[n] = Next1(n, f[n - 1])
  <2>1. \A n \in 1..N : n - 1 \in 0..N
    BY <1>1
  <2> QED
    BY <1>3, <1>4, <2>1 DEF Iterates
<1>6. Is(f)
  BY <1>1, <1>4, <1>5 DEF Iterates
<1>7. ASSUME NEW h, Is(h)
      PROVE  h[N] = f[N]
  <2> DEFINE S == {n \in 0..N : h[n] = f[n]}
  <2>1. 0 \in S
    BY <1>1, <1>4, <1>7 DEF Iterates
  <2>2. ASSUME NEW n \in 1..N, n - 1 \in S
        PROVE  n \in S
    <3>1. h[n - 1] = f[n - 1] /\ n \in 0..N /\ n # 0
      BY <1>1, <2>2
    <3>2. h[n] = Next1(n, h[n - 1])
      BY <1>7, <3>1
    <3> QED
      BY <1>5, <3>1, <3>2
  <2> HIDE DEF S
  <2>3. N \in Nat /\ 0..N \subseteq S
    BY <1>1, <2>1, <2>2, UpTo
  <2> QED
    BY <2>3 DEF S
<1>8. SetAll(stack, dir, p) = (CHOOSE h : Is(h))[N]
  BY DEF SetAll, N, a, Next1
<1> HIDE DEF Is
<1>9. SetAll(stack, dir, p) = f[N]
  <2>1. Is(CHOOSE h : Is(h))
    BY <1>6
  <2> QED
    BY <1>7, <1>8, <2>1
<1>10. Run(f, stack, dir, p)
  BY <1>4, <1>5 DEF Iterates, Run, N, T, a, Next1
<1> QED
  BY <1>9, <1>10 DEF N

(* A call moves layers and the process, and changes nothing else.          *)
LEMMA SetAllType ==
  ASSUME NEW stack \in Seq(LayerType), NEW dir \in Directories, NEW p \in PathType,
         NEW f, Run(f, stack, dir, p), NEW n \in 0..Len(stack)
  PROVE  f[n] \in StateType(Len(stack)) /\ SameLayers(f[n].layers, stack)
<1> DEFINE N == Len(stack)
           S == {m \in 0..N : SameLayers(f[m].layers, stack)}
<1>1. N \in Nat /\ stack \in [1..N -> LayerType]
  OBVIOUS
<1>2. \A m \in 0..N : f[m] \in StateType(N)
  BY DEF Run
<1>3. 0 \in S
  <2>1. f[0].layers = stack
    BY DEF Run
  <2> QED
    BY <1>1, <2>1 DEF SameLayers
<1>4. ASSUME NEW m \in 1..N, m - 1 \in S
      PROVE  m \in S
  <2>1. f[m - 1] \in StateType(N) /\ SameLayers(f[m - 1].layers, stack)
    BY <1>2, <1>4
  <2>2. f[m] = IF f[m - 1].ok THEN SetLayer(f[m - 1], m, p) ELSE f[m - 1]
    BY DEF Run
  <2>3. SameLayers(f[m].layers, f[m - 1].layers)
    <3>1. CASE f[m - 1].ok
      BY <1>1, <2>1, <2>2, <3>1, SetLayerType
    <3>2. CASE ~f[m - 1].ok
      BY <2>2, <3>2 DEF SameLayers
    <3> QED
      BY <3>1, <3>2
  <2> QED
    BY <2>1, <2>3 DEF SameLayers
<1> HIDE DEF S
<1>5. n \in S
  BY <1>1, <1>3, <1>4, UpTo
<1> QED
  BY <1>2, <1>5 DEF S

-----------------------------------------------------------------------------
(* pushOverlay(): the layers below stay as they are.                       *)
LEMMA PathTo ==
  ASSUME NEW d \in Seq(Seq(STRING))
  PROVE  /\ AsPath(d) \in PathType
         /\ d \in Directories => AsPath(d).abs /\ Root \o AsPath(d).rest = d
<1>1. IsPrefix(Root, d) <=> d # << >> /\ d[1] = <<"/">>
  BY FirstSymbol, RootType DEF Root
<1>2. CASE IsPrefix(Root, d)
  <2>1. d # << >> /\ d[1] = <<"/">> /\ AsPath(d) = [abs |-> TRUE, up |-> 0, rest |-> Tail(d)]
    BY <1>1, <1>2 DEF AsPath
  <2>2. Tail(d) \in Seq(Seq(STRING)) /\ <<d[1]>> \o Tail(d) = d
    BY <2>1
  <2> QED
    BY <2>1, <2>2 DEF PathType, Root
<1>3. CASE ~IsPrefix(Root, d)
  BY <1>3, DirectoryType DEF AsPath, PathType
<1> QED
  BY <1>2, <1>3

Pushed(s, layer) == [s EXCEPT !.layers = Append(s.layers, layer)]

LEMMA PushType ==
  ASSUME NEW s, s.layers \in Seq(LayerType), s.layers # << >>, s \in StateType(Len(s.layers)),
         NEW layer \in LayerType, NEW n, n = Len(s.layers) + 1
  PROVE  /\ n \in Nat /\ Pushed(s, layer) \in StateType(n)
         /\ DirectoryOf(s.layers[1], s.cwd) \in Seq(Seq(STRING))
         /\ Push(s, layer) = SetLayer(Pushed(s, layer), n, AsPath(DirectoryOf(s.layers[1], s.cwd)))
         /\ Push(s, layer) \in StateType(n)
         /\ Push(s, layer).layers[n].kind = layer.kind /\ Push(s, layer).layers[n].mount = layer.mount
         /\ \A l \in 1..(n - 1) : Push(s, layer).layers[l] = s.layers[l]
<1> DEFINE stack == Append(s.layers, layer)
           t == Pushed(s, layer)
           front == DirectoryOf(s.layers[1], s.cwd)
<1>1. /\ n \in Nat /\ Len(stack) = n /\ stack \in [1..n -> LayerType] /\ stack[1] = s.layers[1]
      /\ stack[n] = layer /\ \A l \in 1..(n - 1) : stack[l] = s.layers[l]
  <2>1. PICK u : u = stack
    OBVIOUS
  <2>2. /\ u \in Seq(LayerType) /\ Len(u) = n /\ u[n] = layer
        /\ \A l \in 1..Len(s.layers) : u[l] = s.layers[l]
    BY <2>1, Appended
  <2>3. 1 \in 1..Len(s.layers) /\ n - 1 = Len(s.layers) /\ n \in Nat
    OBVIOUS
  <2> HIDE DEF stack
  <2> QED
    BY <2>1, <2>2, <2>3
<1>2. front \in Seq(Seq(STRING))
  <2>1. s.layers[1] \in LayerType /\ s.cwd \in Seq(Seq(STRING))
    BY DirectoryType DEF StateType
  <2> QED
    BY <2>1 DEF DirectoryOf, LayerType
<1>3. t \in StateType(n) /\ t.layers = stack /\ t.cwd = s.cwd
  BY <1>1 DEF StateType, Pushed
<1>4. Push(s, layer) = SetLayer(t, n, AsPath(front))
  BY <1>1 DEF Push, Pushed
<1>5. AsPath(front) \in PathType
  BY <1>2, PathTo
<1> HIDE DEF stack, t, front
<1>6. /\ Push(s, layer) \in StateType(n)
      /\ SameLayers(Push(s, layer).layers, stack)
      /\ \A l \in 1..n \ {n} : Push(s, layer).layers[l] = stack[l]
  <2>1. n \in 1..n /\ n \in Nat
    BY <1>1
  <2>2. /\ SetLayer(t, n, AsPath(front)) \in StateType(n)
        /\ SameLayers(SetLayer(t, n, AsPath(front)).layers, t.layers)
        /\ \A l \in 1..n \ {n} : SetLayer(t, n, AsPath(front)).layers[l] = t.layers[l]
    BY <1>3, <1>5, <2>1, SetLayerType
  <2> QED
    BY <1>3, <1>4, <2>2
<1>7. Push(s, layer).layers[n].kind = layer.kind /\ Push(s, layer).layers[n].mount = layer.mount
  BY <1>1, <1>6 DEF SameLayers
<1> QED
  <2>1. \A l \in 1..(n - 1) : l \in 1..n \ {n}
    BY <1>1
  <2>2. \A l \in 1..(n - 1) : Push(s, layer).layers[l] = s.layers[l]
    BY <1>1, <1>6, <2>1
  <2> QED
    BY <1>1, <1>2, <1>3, <1>4, <1>6, <1>7, <2>2, Zenon DEF t, front

-----------------------------------------------------------------------------
(* FileManager::Initialize(): a base in memory, and mount points above it. *)
ManagerState ==
  {s \in [layers : Seq(LayerType), cwd : Directories, ok : BOOLEAN] :
     s.layers # << >> /\ ManagerStack(s.layers)}

LEMMA MountedLayer ==
  ASSUME NEW m \in Mounts, m # << >>
  PROVE  Disk(m) \in LayerType /\ Disk(m).kind = "disk" /\ Rooted(Disk(m))
BY DEF Disk, LayerType, Rooted

LEMMA PushManager ==
  ASSUME NEW s \in ManagerState, NEW m \in Mounts, m # << >>
  PROVE  Push(s, Disk(m)) \in ManagerState
<1> DEFINE t == Push(s, Disk(m))
           n == Len(s.layers) + 1
<1>1. /\ s.layers \in Seq(LayerType) /\ s.layers # << >> /\ ManagerStack(s.layers)
      /\ s \in StateType(Len(s.layers))
  BY DEF ManagerState, StateType
<1>2. Disk(m) \in LayerType /\ Disk(m).kind = "disk" /\ Rooted(Disk(m))
  BY MountedLayer
<1>3. /\ t \in StateType(n) /\ n \in Nat
      /\ t.layers[n].kind = "disk" /\ t.layers[n].mount = Disk(m).mount
      /\ \A l \in 1..(n - 1) : t.layers[l] = s.layers[l]
  BY <1>1, <1>2, PushType
<1>4. Len(s.layers) \in Nat \ {0}
  BY <1>1
<1> HIDE DEF t
<1>5. /\ t.layers \in Seq(LayerType) /\ DOMAIN t.layers = 1..n /\ t.layers # << >>
      /\ t \in [layers : Seq(LayerType), cwd : Directories, ok : BOOLEAN]
  BY <1>3, <1>4 DEF StateType
<1>6. ManagerStack(t.layers)
  <2> SUFFICES ASSUME NEW l \in 1..n
               PROVE  IF l = 1 THEN t.layers[l].kind = "memory" /\ ~Rooted(t.layers[l])
                      ELSE t.layers[l].kind = "disk" /\ Rooted(t.layers[l])
    BY <1>5 DEF ManagerStack
  <2>1. CASE l = n
    BY <1>2, <1>3, <1>4, <2>1 DEF Rooted
  <2>2. CASE l # n
    <3>1. l \in DOMAIN s.layers /\ l \in 1..(n - 1)
      BY <1>1, <1>4, <2>2
    <3>2. t.layers[l] = s.layers[l]
      BY <1>3, <3>1
    <3> QED
      BY <1>1, <3>1, <3>2 DEF ManagerStack
  <2> QED
    BY <2>1, <2>2
<1> QED
  BY <1>5, <1>6 DEF ManagerState, t

LEMMA InitializeType ==
  ASSUME cwd \in Directories, NEW SystemModulePaths \in Seq(Mounts)
  PROVE  Initialize(SystemModulePaths) \in ManagerState
<1> DEFINE paths == SystemModulePaths \o UserModulePaths
           N == Len(paths)
           a == [layers |-> <<Memory(<< >>)>>, cwd |-> cwd, ok |-> TRUE]
           Next1(n, s) == IF Exists(paths[n]) THEN Push(s, Disk(paths[n])) ELSE s
           step == [q \in (1..N) \X ManagerState |-> Next1(q[1], q[2])]
           Is(h) == h = [n \in 0..N |-> IF n = 0 THEN a ELSE Next1(n, h[n - 1])]
<1>1. N \in Nat /\ \A n \in 1..N : paths[n] \in Mounts
  BY FilesAssumption
<1>2. a \in ManagerState
  <2>1. Memory(<< >>) \in LayerType /\ Memory(<< >>).kind = "memory" /\ ~Rooted(Memory(<< >>))
    BY DEF Memory, LayerType, Rooted
  <2>2. PICK m : m = Memory(<< >>)
    OBVIOUS
  <2>3. <<m>> \in Seq(LayerType) /\ <<m>> # << >> /\ ManagerStack(<<m>>)
    BY <2>1, <2>2 DEF ManagerStack
  <2> QED
    BY <2>2, <2>3 DEF ManagerState
<1>3. \A n \in 1..N, s \in ManagerState : Next1(n, s) \in ManagerState
  BY <1>1, PushManager DEF Exists
<1> HIDE DEF Next1, a
<1>4. step \in [(1..N) \X ManagerState -> ManagerState]
  BY <1>3
<1>5. \A n \in 1..N, s \in ManagerState : step[<<n, s>>] = Next1(n, s)
  OBVIOUS
<1> HIDE DEF step, N
<1>6. PICK f : Iterates(f, ManagerState, a, N, step)
  BY <1>1, <1>2, <1>4, Recursion
<1>7. Is(f)
  <2>1. \A n \in 1..N : f[n - 1] \in ManagerState /\ f[n] = Next1(n, f[n - 1])
    BY <1>1, <1>5, <1>6 DEF Iterates
  <2> QED
    BY <1>1, <1>6, <2>1 DEF Iterates
<1>8. ASSUME NEW h, Is(h)
      PROVE  h[N] \in ManagerState
  <2> DEFINE S == {n \in 0..N : h[n] \in ManagerState}
  <2>1. 0 \in S
    BY <1>1, <1>2, <1>8
  <2>2. ASSUME NEW n \in 1..N, n - 1 \in S
        PROVE  n \in S
    BY <1>1, <1>3, <1>8, <2>2
  <2> HIDE DEF S
  <2>3. N \in Nat /\ 0..N \subseteq S
    BY <1>1, <2>1, <2>2, UpTo
  <2> QED
    BY <2>3 DEF S
<1>9. Initialize(SystemModulePaths) = (CHOOSE h : Is(h))[N]
  BY DEF Initialize, N, a, Next1
<1> HIDE DEF Is
<1> QED
  BY <1>7, <1>8, <1>9

-----------------------------------------------------------------------------
(* The stack, through any sequence of calls.                               *)
LayersInv ==
  /\ owner \in {"FileManager", "client"} /\ cwd \in Directories
  /\ layers \in Seq(LayerType) /\ layers # << >> /\ ~Rooted(layers[1])
  /\ owner = "FileManager" => ManagerStack(layers)

LEMMA LayersInit == Init => LayersInv
<1> SUFFICES ASSUME Init
             PROVE  LayersInv
  OBVIOUS
<1>1. owner \in {"FileManager", "client"} /\ cwd \in Directories
  BY DEF Init
<1>2. CASE owner = "client"
  <2>1. ASSUME NEW l \in {Memory(<< >>), Disk(<< >>)}
        PROVE  <<l>> \in Seq(LayerType) /\ <<l>> # << >> /\ ~Rooted(<<l>>[1])
    <3>1. /\ Memory(<< >>) \in LayerType /\ ~Rooted(Memory(<< >>))
          /\ Disk(<< >>) \in LayerType /\ ~Rooted(Disk(<< >>))
      BY DEF Memory, Disk, LayerType, Rooted
    <3>2. PICK m : m = l /\ m \in LayerType /\ ~Rooted(m)
      BY <3>1
    <3> QED
      BY <3>2
  <2>2. layers = <<Memory(<< >>)>> \/ layers = <<Disk(<< >>)>>
    BY <1>2 DEF Init
  <2>3. PICK l \in {Memory(<< >>), Disk(<< >>)} : layers = <<l>>
    BY <2>2
  <2> QED
    BY <1>1, <1>2, <2>1, <2>3 DEF LayersInv
<1>3. CASE owner = "FileManager"
  <2>1. PICK paths \in ModulePaths : layers = Initialize(paths).layers
    BY <1>3 DEF Init
  <2>2. Initialize(paths) \in ManagerState
    BY <1>1, FilesAssumption, InitializeType
  <2>3. layers \in Seq(LayerType) /\ layers # << >> /\ ManagerStack(layers)
    BY <2>1, <2>2 DEF ManagerState
  <2>4. ~Rooted(layers[1])
    BY <2>3 DEF ManagerStack
  <2> QED
    BY <1>1, <2>3, <2>4 DEF LayersInv
<1> QED
  BY <1>1, <1>2, <1>3

(* A call of setCurrentWorkingDirectory().                                 *)
LEMMA SetKeeps ==
  ASSUME LayersInv, NEW p \in Paths, setCurrentWorkingDirectory(p)
  PROVE  /\ layers' \in Seq(LayerType) /\ cwd' \in Directories
         /\ SameLayers(layers', layers) /\ Len(layers') = Len(layers)
         /\ layers' # << >> /\ ~Rooted(layers'[1])
         /\ ManagerStack(layers) => ManagerStack(layers')
<1> DEFINE after == SetAll(layers, cwd, p)
           N == Len(layers)
<1>1. N \in Nat \ {0} /\ p \in PathType
  BY DirectoryAssumption DEF LayersInv, PathType
<1>2. PICK f : Run(f, layers, cwd, p) /\ after = f[N]
  BY <1>1, SetAllRuns DEF LayersInv
<1>3. after \in StateType(N) /\ SameLayers(after.layers, layers)
  BY <1>1, <1>2, SetAllType DEF LayersInv
<1>4. layers' = after.layers /\ cwd' = after.cwd
  BY DEF setCurrentWorkingDirectory
<1> HIDE DEF after
<1>5. /\ layers' \in Seq(LayerType) /\ cwd' \in Directories
      /\ SameLayers(layers', layers) /\ Len(layers') = N /\ layers' # << >>
  BY <1>1, <1>3, <1>4 DEF StateType
<1>6. \A l \in DOMAIN layers : layers'[l].kind = layers[l].kind /\ layers'[l].mount = layers[l].mount
  BY <1>5 DEF SameLayers
<1>7. DOMAIN layers' = DOMAIN layers /\ 1 \in DOMAIN layers
  BY <1>1, <1>5 DEF SameLayers
<1>8. ~Rooted(layers'[1])
  BY <1>6, <1>7 DEF Rooted, LayersInv
<1>9. ManagerStack(layers) => ManagerStack(layers')
  BY <1>6, <1>7 DEF Rooted, ManagerStack
<1> QED
  BY <1>5, <1>8, <1>9

(* A call of pushOverlay() by a client.                                    *)
LEMMA PushKeeps ==
  ASSUME LayersInv, NEW layer \in LayerType, pushOverlay(layer)
  PROVE  /\ layers' \in Seq(LayerType) /\ cwd' \in Directories
         /\ Len(layers') = Len(layers) + 1 /\ layers' # << >> /\ ~Rooted(layers'[1])
<1> DEFINE n == Len(layers) + 1
           t == Push(State, layer)
<1>1. State.layers = layers /\ State.cwd = cwd /\ State \in StateType(Len(layers))
  BY DEF State, StateType, LayersInv
<1>2. /\ t \in StateType(n) /\ n \in Nat /\ \A l \in 1..(n - 1) : t.layers[l] = layers[l]
  BY <1>1, PushType DEF LayersInv
<1>3. layers' = t.layers /\ cwd' = t.cwd
  BY DEF pushOverlay
<1> HIDE DEF t
<1>4. layers' \in Seq(LayerType) /\ cwd' \in Directories /\ Len(layers') = n
  BY <1>2, <1>3 DEF StateType
<1>5. 1 \in 1..(n - 1)
  BY DEF LayersInv
<1> QED
  BY <1>2, <1>3, <1>4, <1>5 DEF LayersInv

LEMMA NewLayerType ==
  ASSUME NEW m \in Mounts \union {<< >>}
  PROVE  Disk(m) \in LayerType /\ Memory(<< >>) \in LayerType
BY DEF Disk, Memory, LayerType

LEMMA LayersStep == LayersInv /\ [Next]_vars => LayersInv'
<1> SUFFICES ASSUME LayersInv, [Next]_vars
             PROVE  LayersInv'
  OBVIOUS
<1>1. ASSUME NEW layer \in LayerType, PushOverlay(layer)
      PROVE  LayersInv'
  BY <1>1, PushKeeps DEF PushOverlay, LayersInv
<1>2. ASSUME NEW p \in Paths, SetCurrentWorkingDirectory(p)
      PROVE  LayersInv'
  BY <1>2, SetKeeps DEF SetCurrentWorkingDirectory, LayersInv
<1>3. ASSUME NEW paths \in ModulePaths, SetSystemModulePaths(paths)
      PROVE  LayersInv'
  <2>1. Initialize(paths) \in ManagerState
    BY FilesAssumption, InitializeType DEF LayersInv
  <2>2. layers' = Initialize(paths).layers /\ cwd' = cwd /\ owner' = owner
    BY <1>3 DEF SetSystemModulePaths
  <2>3. layers' \in Seq(LayerType) /\ layers' # << >> /\ ManagerStack(layers')
    BY <2>1, <2>2 DEF ManagerState
  <2>4. ~Rooted(layers'[1])
    BY <2>3 DEF ManagerStack
  <2> QED
    BY <2>2, <2>3, <2>4 DEF LayersInv
<1>4. ASSUME UNCHANGED <<layers, cwd, owner>>
      PROVE  LayersInv'
  BY <1>4 DEF LayersInv, ManagerStack, Rooted
<1> QED
  BY <1>1, <1>2, <1>3, <1>4, NewLayerType
     DEF Next, vars, WriteFile, getFile, StringSource, NewSource, GetChar

-----------------------------------------------------------------------------
(* A layer with a mount point leads to absolute paths only.                *)
LEMMA PrefixHead ==
  ASSUME NEW S, NEW s \in Seq(S), NEW t \in Seq(S), IsPrefix(s, t), s # << >>
  PROVE  t # << >> /\ t[1] = s[1]
<1> DEFINE n == Len(s)
<1>1. n \in Nat \ {0} /\ n <= Len(t) /\ SubSeq(s, 1, n) = SubSeq(t, 1, n)
  BY DEF IsPrefix
<1>2. ASSUME NEW u \in Seq(S), n <= Len(u)
      PROVE  SubSeq(u, 1, n)[1] = u[1]
  <2>1. 1 \in Int /\ n \in Int /\ \A i \in 1..n : u[i] \in S
    BY <1>1, <1>2
  <2>2. \A i \in 1..(n - 1 + 1) : SubSeq(u, 1, n)[i] = u[1 + i - 1]
    BY <2>1, SubSeqProperties, SMTT(60)
  <2>3. 1 \in 1..(n - 1 + 1) /\ 1 + 1 - 1 = 1
    BY <1>1
  <2> QED
    BY <2>2, <2>3
<1>3. SubSeq(s, 1, n)[1] = s[1] /\ SubSeq(t, 1, n)[1] = t[1]
  BY <1>1, <1>2
<1> QED
  BY <1>1, <1>3

LEMMA SlashesEnd ==
  ASSUME NEW S, NEW path \in Seq(S)
  PROVE  WithoutSlashes(path) \in Seq(S)
<1> DEFINE N == Len(path)
           Is(k) == /\ \A i \in 1..k : path[i] = Slash
                    /\ k = N \/ path[k + 1] # Slash
           All == {k \in 0..N : \A i \in 1..k : path[i] = Slash}
<1>1. N \in Nat
  OBVIOUS
<1>2. \E k \in 0..N : Is(k)
  <2> SUFFICES ASSUME \A k \in 0..N : ~Is(k)
               PROVE  FALSE
    OBVIOUS
  <2>1. 0 \in All
    BY <1>1
  <2>2. ASSUME NEW k \in 1..N, k - 1 \in All
        PROVE  k \in All
    <3>1. k - 1 \in 0..N /\ k - 1 # N /\ (k - 1) + 1 = k /\ k \in 0..N
      BY <1>1
    <3>2. \A i \in 1..(k - 1) : path[i] = Slash
      BY <2>2
    <3>3. path[k] = Slash
      BY <3>1, <3>2
    <3> QED
      BY <3>1, <3>2, <3>3
  <2>3. N \in All
    <3> HIDE DEF All
    <3>1. 0..N \subseteq All
      BY <1>1, <2>1, <2>2, UpTo
    <3> QED
      BY <1>1, <3>1
  <2>4. Is(N) /\ N \in 0..N
    BY <1>1, <2>3
  <2> QED
    BY <2>4
<1> DEFINE n == CHOOSE k \in 0..N : Is(k)
<1>3. n \in 0..N
  BY <1>2
<1>4. WithoutSlashes(path) = SubSeq(path, n + 1, N)
  BY DEF WithoutSlashes, Substr
<1> HIDE DEF n, Is
<1>5. n + 1 \in Int /\ N \in Int /\ \A i \in (n + 1)..N : path[i] \in S
  BY <1>1, <1>3
<1> QED
  BY <1>4, <1>5, SubSeqProperties

LEMMA JoinedHead ==
  \A s, t \in Seq(STRING) :
    s # << >> => s \o t \in Seq(STRING) /\ s \o t # << >> /\ (s \o t)[1] = s[1]
<1> SUFFICES ASSUME NEW s \in Seq(STRING), NEW t \in Seq(STRING), s # << >>
             PROVE  s \o t \in Seq(STRING) /\ s \o t # << >> /\ (s \o t)[1] = s[1]
  OBVIOUS
<1>1. Len(s) \in Nat \ {0} /\ Len(t) \in Nat /\ 1 \in 1..Len(s)
  OBVIOUS
<1>2. PICK u : u = s \o t
  OBVIOUS
<1>3. u \in Seq(STRING) /\ Len(u) = Len(s) + Len(t)
  BY <1>2
<1>4. u # << >>
  BY <1>1, <1>3
<1>5. u[1] = s[1]
  BY <1>1, <1>2
<1> QED
  BY <1>2, <1>3, <1>4, <1>5

LEMMA MountedPath ==
  ASSUME NEW m \in Mounts, NEW path \in Requests, StartsWithSlash(m)
  PROVE  PhysicalPath[m][path].way.abs
<1> DEFINE v == PhysicalToVirtualPath(m, path)
<1>1. m \in Seq(STRING) /\ path \in Seq(STRING) /\ Slash \in STRING /\ <<Slash>> \in Seq(STRING)
  <2>1. <<"/">> \in Seq(STRING)
    BY RootType
  <2>2. <<"/">>[1] = "/" /\ <<"/">>[1] \in STRING
    BY <2>1
  <2> QED
    BY <2>1, <2>2, FilesAssumption DEF Slash
<1>2. m # << >> /\ m[1] = Slash
  BY <1>1, FirstSymbol DEF StartsWithSlash
<1>3. v \in Seq(STRING) /\ v # << >> /\ v[1] = Slash
  <2>1. CASE IsPrefix(m, path)
    BY <1>1, <1>2, <2>1, PrefixHead DEF PhysicalToVirtualPath
  <2>2. CASE ~IsPrefix(m, path)
    <3>1. \A t \in Seq(STRING) : m \o t \in Seq(STRING) /\ m \o t # << >> /\ (m \o t)[1] = Slash
      <4> SUFFICES ASSUME NEW t \in Seq(STRING)
                   PROVE  m \o t \in Seq(STRING) /\ m \o t # << >> /\ (m \o t)[1] = Slash
        OBVIOUS
      <4>1. m \o t \in Seq(STRING) /\ m \o t # << >> /\ (m \o t)[1] = m[1]
        BY <1>1, <1>2, JoinedHead, Zenon
      <4> QED
        BY <1>2, <4>1, Zenon
    <3>2. WithoutSlashes(path) \in Seq(STRING)
      BY <1>1, SlashesEnd
    <3>3. v = AppendPath(m, path)
      BY <2>2 DEF PhysicalToVirtualPath
    <3>4. CASE EndsWithSlash(m)
      <4>1. v = m \o WithoutSlashes(path)
        BY <3>3, <3>4 DEF AppendPath
      <4> QED
        BY <3>1, <3>2, <4>1, Zenon
    <3>5. CASE ~EndsWithSlash(m) /\ StartsWithSlash(path)
      BY <1>1, <3>1, <3>3, <3>5 DEF AppendPath
    <3>6. CASE ~EndsWithSlash(m) /\ ~StartsWithSlash(path)
      <4>1. v = (m \o <<Slash>>) \o path
        BY <1>2, <3>3, <3>6 DEF AppendPath
      <4>3. m \o <<Slash>> \in Seq(STRING) /\ m \o <<Slash>> # << >> /\ (m \o <<Slash>>)[1] = Slash
        BY <1>1, <3>1
      <4> HIDE DEF v
      <4>4. ASSUME NEW u \in Seq(STRING), u # << >>, u[1] = Slash
            PROVE  u \o path \in Seq(STRING) /\ u \o path # << >> /\ (u \o path)[1] = Slash
        <5>1. u \o path \in Seq(STRING) /\ u \o path # << >> /\ (u \o path)[1] = u[1]
          BY <1>1, <4>4, JoinedHead, Zenon
        <5> QED
          BY <4>4, <5>1, Zenon
      <4> QED
        BY <4>1, <4>3, <4>4
    <3> QED
      BY <3>4, <3>5, <3>6
  <2> QED
    BY <2>1, <2>2
<1> HIDE DEF v
<1>4. StartsWithSlash(v)
  BY <1>1, <1>3, FirstSymbol DEF StartsWithSlash
<1>5. PhysicalPath[m][path].way = AsClientPath(v)
  BY DEF PhysicalPath, v
<1> QED
  BY <1>4, <1>5 DEF AsClientPath

(* FilesStayCorrect: whatever directory a FileManager is sent to, and      *)
(* whether or not the call succeeds, each layer with an absolute mount     *)
(* point goes on finding the same files, and failing for the same paths.   *)
LEMMA MoveFindsSame ==
  ASSUME LayersInv, NEW p \in Paths, SetCurrentWorkingDirectory(p),
         NEW path \in Requests, NEW l \in Disks(layers), StartsWithSlash(layers[l].mount)
  PROVE  /\ TextIn(layers[l], path)' = TextIn(layers[l], path)
         /\ Fails(layers[l], path)' = Fails(layers[l], path)
<1>1. SameLayers(layers', layers) /\ disk' = disk
  BY SetKeeps DEF SetCurrentWorkingDirectory
<1>2. l \in DOMAIN layers /\ layers[l] \in LayerType
  BY DEF LayersInv, Disks
<1>3. layers'[l].kind = layers[l].kind /\ layers'[l].mount = layers[l].mount
  BY <1>1, <1>2 DEF SameLayers
<1>4. layers[l].mount \in Mounts
  <2>1. layers[l].mount # << >>
    <3>1. IsPrefix(<<Slash>>, << >>) => FALSE
      BY DEF IsPrefix
    <3> QED
      BY <3>1 DEF StartsWithSlash
  <2> QED
    BY <1>2, <2>1 DEF LayerType
<1>5. PhysicalPath[layers[l].mount][path].way.abs
  BY <1>4, MountedPath
<1>6. OnDisk(layers[l], path)' = OnDisk(layers[l], path)
  BY <1>3, <1>5 DEF OnDisk, Resolve
<1>7. \A place : FileAt(place)' = FileAt(place)
  BY <1>1 DEF FileAt
<1>8. TextIn(layers[l], path)' = TextIn(layers[l], path)
  BY <1>1, <1>3, <1>6, <1>7 DEF TextIn
<1>9. Fails(layers[l], path)' = Fails(layers[l], path)
  BY <1>3, <1>6, <1>7 DEF Fails, ThroughFile
<1> QED
  BY <1>8, <1>9

(* FileManager::setCurrentWorkingDirectory() changes nothing that the      *)
(* FileManager finds below a module path that is absolute, for any such    *)
(* path and any request, in characters: what it asks the disk for starts   *)
(* with a slash.  Nothing is claimed of relative module paths.             *)
THEOREM FilesStayCorrect == Spec => FilesStay
<1> DEFINE Stays ==
             \A path \in Requests, l \in Disks(layers) :
               StartsWithSlash(layers[l].mount) =>
                 /\ TextIn(layers[l], path)' = TextIn(layers[l], path)
                 /\ Fails(layers[l], path)' = Fails(layers[l], path)
<1>1. LayersInv /\ [Next]_vars => [owner = "FileManager" /\ cwd' # cwd => Stays]_vars
  <2> SUFFICES ASSUME LayersInv, [Next]_vars, owner = "FileManager", cwd' # cwd
               PROVE  Stays
    OBVIOUS
  <2>1. PICK p \in Paths : SetCurrentWorkingDirectory(p)
    BY DEF Next, vars, PushOverlay, SetSystemModulePaths, WriteFile, getFile, StringSource,
           NewSource, GetChar
  <2> QED
    BY <2>1, MoveFindsSame
<1> QED
  BY <1>1, LayersInit, LayersStep, PTL DEF Spec, FilesStay

-----------------------------------------------------------------------------
(* KeepsStepCorrect: a call that succeeds leaves all layers in step: with  *)
(* an absolute path always, with a relative one if they were in step and   *)
(* the process is moved once at most; so does the push of a layer on a     *)
(* base that is in a directory that exists.                                *)
LEMMA SetLayerMeans ==
  ASSUME NEW n \in Nat, NEW s \in StateType(n), NEW i \in 1..n, NEW p \in PathType,
         NEW d, d = Resolve(DirectoryOf(s.layers[i], s.cwd), p),
         NEW t, t = SetLayer(s, i, p)
  PROVE  /\ s.layers[i].kind = "memory" =>
              /\ t.cwd = s.cwd /\ t.ok = s.ok
              /\ d # << >> => t.layers[i].wd = d
              /\ d = << >> => t.layers[i] = s.layers[i]
         /\ s.layers[i].kind = "disk" => t.layers = s.layers /\ (t.ok /\ s.ok => t.cwd = d)
<1>1. s.layers \in [1..n -> LayerType] /\ s.layers[i] \in LayerType
  BY DEF StateType
<1>2. CASE s.layers[i].kind = "memory"
  <2> DEFINE wd == IF d = << >> THEN s.layers[i].wd ELSE d
             new == [s.layers[i] EXCEPT !.wd = wd]
  <2>1. d = Resolve(s.layers[i].wd, p)
    BY <1>2 DEF DirectoryOf
  <2>2. t = [s EXCEPT !.layers[i].wd = wd]
    BY <1>2, <2>1 DEF SetLayer
  <2> HIDE DEF wd
  <2>3. t = [s EXCEPT !.layers = [s.layers EXCEPT ![i] = new]]
    BY <1>1, <2>2 DEF StateType
  <2>4. new.wd = wd /\ (wd = s.layers[i].wd => new = s.layers[i])
    BY <1>1 DEF LayerType
  <2> HIDE DEF new
  <2>5. t.layers[i] = new /\ t.cwd = s.cwd /\ t.ok = s.ok
    BY <1>1, <2>3 DEF StateType
  <2> QED
    BY <1>2, <2>4, <2>5 DEF wd
<1>3. CASE s.layers[i].kind = "disk"
  BY <1>3 DEF SetLayer, StateType, DirectoryOf
<1> QED
  BY <1>1, <1>2, <1>3 DEF LayerType

Unrooted(stack) == {i \in DOMAIN stack : ~Rooted(stack[i])}

(* How far a call has come after n layers, when d is where it leads.       *)
Moving(s, stack, dir, n, d) ==
  s.ok =>
    /\ \A i \in DOMAIN stack : i > n => s.layers[i] = stack[i]
    /\ \A i \in Unrooted(stack) \ Disks(stack) : i <= n => s.layers[i].wd = d
    /\ Unrooted(stack) \intersect Disks(stack) # {}
         => s.cwd = IF \E j \in Disks(stack) : j <= n THEN d ELSE dir

(* p leads the layers without a mount point to d, and those on disk once.  *)
Leads(stack, dir, p, d) ==
  /\ d # << >>
  /\ \A i \in Unrooted(stack) : Resolve(DirectoryOf(stack[i], dir), p) = d
  /\ p.abs => \A x \in Directories \union {d} : Resolve(x, p) = d
  /\ Unrooted(stack) \intersect Disks(stack) # {}
       => p.abs \/ \A i, j \in Disks(stack) : i = j

LEMMA AllMoved ==
  ASSUME NEW stack \in Seq(LayerType), NEW dir \in Directories, NEW p \in PathType,
         NEW f, Run(f, stack, dir, p), f[Len(stack)].ok,
         NEW d, Leads(stack, dir, p, d)
  PROVE  \A i \in Unrooted(stack) :
           DirectoryOf(f[Len(stack)].layers[i], f[Len(stack)].cwd) = d
<1> DEFINE N == Len(stack)
           S == {n \in 0..N : Moving(f[n], stack, dir, n, d)}
           U == Unrooted(stack)
           K == Disks(stack)
<1>0. /\ d # << >>
      /\ \A i \in U : Resolve(DirectoryOf(stack[i], dir), p) = d
      /\ p.abs => \A x \in Directories \union {d} : Resolve(x, p) = d
      /\ U \intersect K # {} => p.abs \/ \A i, j \in K : i = j
  BY DEF Leads
<1>1. N \in Nat /\ DOMAIN stack = 1..N /\ \A i \in 1..N : stack[i] \in LayerType
  OBVIOUS
<1>2. U \subseteq 1..N /\ K \subseteq 1..N /\ \A i \in 1..N \ K : stack[i].kind = "memory"
  BY <1>1 DEF Unrooted, Disks, LayerType
<1>3. \A i \in K : stack[i].kind = "disk"
  BY DEF Disks
<1>4. 0 \in S
  <2>1. f[0] = [layers |-> stack, cwd |-> dir, ok |-> TRUE]
    BY DEF Run
  <2>2. \A i \in 1..N : ~(i <= 0)
    OBVIOUS
  <2> QED
    BY <1>1, <1>2, <2>1, <2>2 DEF Moving
<1>5. ASSUME NEW n \in 1..N, n - 1 \in S
      PROVE  n \in S
  <2> DEFINE s == f[n - 1]
             t == f[n]
  <2> SUFFICES ASSUME t.ok
               PROVE  Moving(t, stack, dir, n, d)
    BY DEF Moving
  <2>1. s \in StateType(N) /\ n - 1 \in 0..N /\ Moving(s, stack, dir, n - 1, d)
    BY <1>1, <1>5, SetAllType
  <2>2. t = IF s.ok THEN SetLayer(s, n, p) ELSE s
    BY DEF Run
  <2>3. s.ok /\ t = SetLayer(s, n, p)
    BY <2>2
  <2> HIDE DEF s, t
  <2>4. /\ \A i \in 1..N : i > n - 1 => s.layers[i] = stack[i]
        /\ \A i \in U \ K : i <= n - 1 => s.layers[i].wd = d
        /\ U \intersect K # {} => s.cwd = IF \E j \in K : j <= n - 1 THEN d ELSE dir
    BY <1>1, <2>1, <2>3 DEF Moving
  <2>5. s.layers[n] = stack[n]
    BY <1>1, <2>4
  <2>6. \A l \in 1..N \ {n} : t.layers[l] = s.layers[l]
    BY <1>1, <2>1, <2>3, SetLayerType
  <2>7. \A i \in 1..N : i > n => t.layers[i] = stack[i]
    BY <2>4, <2>6
  <2>8. CASE n \in K
    <3>1. t.layers = s.layers /\ t.cwd = Resolve(s.cwd, p)
      BY <1>1, <1>3, <2>1, <2>3, <2>5, <2>8, SetLayerMeans DEF DirectoryOf
    <3>2. \A i \in U \ K : i <= n => t.layers[i].wd = d
      BY <1>2, <2>4, <2>8, <3>1
    <3>3. U \intersect K # {} => t.cwd = d
      <4> SUFFICES ASSUME NEW i \in U \intersect K
                   PROVE  t.cwd = d
        OBVIOUS
      <4>1. Resolve(dir, p) = d
        BY <1>0, <1>3 DEF DirectoryOf
      <4>2. CASE \E j \in K : j <= n - 1
        <5>1. p.abs
          BY <1>0, <1>2, <2>8, <4>2
        <5> QED
          BY <1>0, <2>4, <3>1, <4>2, <5>1
      <4>3. CASE ~\E j \in K : j <= n - 1
        BY <2>4, <3>1, <4>1, <4>3
      <4> QED
        BY <4>2, <4>3
    <3>4. \E j \in K : j <= n
      BY <2>8
    <3> QED
      BY <1>1, <2>7, <3>2, <3>3, <3>4 DEF Moving
  <2>9. CASE n \notin K
    <3>1. stack[n].kind = "memory"
      BY <1>2, <2>9
    <3>2. t.cwd = s.cwd /\ (n \in U => t.layers[n].wd = d)
      <4>1. t.cwd = s.cwd
        BY <1>1, <2>1, <2>3, <2>5, <3>1, SetLayerMeans
      <4>2. ASSUME n \in U
            PROVE  t.layers[n].wd = d
        <5>1. Resolve(DirectoryOf(s.layers[n], s.cwd), p) = d
          BY <1>0, <2>5, <3>1, <4>2 DEF DirectoryOf
        <5> QED
          BY <1>0, <1>1, <2>1, <2>3, <2>5, <3>1, <5>1, SetLayerMeans
      <4> QED
        BY <4>1, <4>2
    <3>3. \A i \in U \ K : i <= n => t.layers[i].wd = d
      <4> SUFFICES ASSUME NEW i \in U \ K, i <= n, i # n
                   PROVE  t.layers[i].wd = d
        BY <3>2
      <4>1. i \in 1..N /\ i <= n - 1
        BY <1>2
      <4> QED
        BY <2>4, <2>6, <4>1
    <3>4. (\E j \in K : j <= n) <=> (\E j \in K : j <= n - 1)
      BY <1>2, <2>9
    <3>5. U \intersect K # {} => t.cwd = IF \E j \in K : j <= n THEN d ELSE dir
      BY <2>4, <3>2, <3>4
    <3> QED
      BY <1>1, <2>7, <3>3, <3>5 DEF Moving
  <2> QED
    BY <2>8, <2>9
<1> HIDE DEF S
<1>6. N \in Nat /\ 0..N \subseteq S
  BY <1>1, <1>4, <1>5, UpTo
<1>7. Moving(f[N], stack, dir, N, d) /\ SameLayers(f[N].layers, stack)
  BY <1>6, SetAllType DEF S
<1> SUFFICES ASSUME NEW i \in U
             PROVE  DirectoryOf(f[N].layers[i], f[N].cwd) = d
  OBVIOUS
<1>8. i \in 1..N /\ i <= N /\ f[N].layers[i].kind = stack[i].kind
  BY <1>1, <1>2, <1>7 DEF SameLayers
<1>9. CASE i \in K
  <2>1. f[N].cwd = d
    BY <1>7, <1>8, <1>9 DEF Moving
  <2> QED
    BY <1>3, <1>8, <1>9, <2>1 DEF DirectoryOf
<1>10. CASE i \notin K
  BY <1>2, <1>7, <1>8, <1>10 DEF DirectoryOf, Moving
<1> QED
  BY <1>9, <1>10

(* A relative path that leads nowhere moves no layer that it could matter  *)
(* to.                                                                     *)
LEMMA NoneMoved ==
  ASSUME NEW stack \in Seq(LayerType), NEW dir \in Directories, NEW p \in PathType,
         NEW f, Run(f, stack, dir, p),
         \A i \in Unrooted(stack) : Resolve(DirectoryOf(stack[i], dir), p) = << >>
  PROVE  \A i \in Unrooted(stack) :
           DirectoryOf(f[Len(stack)].layers[i], f[Len(stack)].cwd) = DirectoryOf(stack[i], dir)
<1> DEFINE N == Len(stack)
           U == Unrooted(stack)
           S == {n \in 0..N : \A i \in U : f[n].layers[i] = stack[i]}
<1>1. N \in Nat /\ DOMAIN stack = 1..N /\ U \subseteq 1..N /\ \A i \in 1..N : stack[i] \in LayerType
  BY DEF Unrooted
<1>2. \A i \in U : stack[i].kind = "memory"
  <2> SUFFICES ASSUME NEW i \in U, stack[i].kind = "disk"
               PROVE  FALSE
    BY <1>1 DEF LayerType
  <2>1. Resolve(dir, p) = << >>
    BY DEF DirectoryOf
  <2> QED
    BY <2>1, DirectoryType, ResolveType
<1>3. 0 \in S
  <2>1. f[0] = [layers |-> stack, cwd |-> dir, ok |-> TRUE]
    BY DEF Run
  <2> QED
    BY <1>1, <2>1
<1>4. ASSUME NEW n \in 1..N, n - 1 \in S
      PROVE  n \in S
  <2> DEFINE s == f[n - 1]
             t == f[n]
  <2>1. s \in StateType(N) /\ \A i \in U : s.layers[i] = stack[i]
    BY <1>1, <1>4, SetAllType
  <2>2. t = IF s.ok THEN SetLayer(s, n, p) ELSE s
    BY DEF Run
  <2> HIDE DEF s, t
  <2>3. \A i \in U : t.layers[i] = s.layers[i]
    <3> SUFFICES ASSUME NEW i \in U, t = SetLayer(s, n, p)
                 PROVE  t.layers[i] = s.layers[i]
      BY <2>2
    <3>1. CASE i # n
      BY <1>1, <2>1, <3>1, SetLayerType
    <3>2. CASE i = n
      <4>1. s.layers[n].kind = "memory" /\ Resolve(DirectoryOf(s.layers[n], s.cwd), p) = << >>
        BY <1>2, <2>1, <3>2 DEF DirectoryOf
      <4> QED
        BY <1>1, <2>1, <3>2, <4>1, SetLayerMeans
    <3> QED
      BY <3>1, <3>2
  <2>4. \A i \in U : f[n].layers[i] = stack[i]
    BY <2>1, <2>3 DEF t
  <2> QED
    BY <2>4
<1> HIDE DEF S
<1>5. N \in Nat /\ 0..N \subseteq S
  BY <1>1, <1>3, <1>4, UpTo
<1>6. \A i \in U : f[N].layers[i] = stack[i]
  BY <1>5 DEF S
<1> QED
  BY <1>2, <1>6 DEF DirectoryOf

LEMMA OneDisk ==
  ASSUME NEW stack \in Seq(LayerType), Cardinality(Disks(stack)) <= 1
  PROVE  \A i, j \in Disks(stack) : i = j
<1>0. Len(stack) \in Int /\ 1 \in Int /\ DOMAIN stack = 1..Len(stack)
  OBVIOUS
<1>1. IsFiniteSet(1..Len(stack)) /\ Disks(stack) \in SUBSET (1..Len(stack))
  BY <1>0, FS_Interval DEF Disks
<1>2. IsFiniteSet(Disks(stack)) /\ Cardinality(Disks(stack)) \in {0, 1}
  <2>1. IsFiniteSet(Disks(stack))
    BY <1>1, FS_Subset
  <2>2. Cardinality(Disks(stack)) \in Nat
    BY <2>1, FS_CardinalityType
  <2> QED
    BY <2>1, <2>2
<1>3. Disks(stack) = {} \/ \E x : Disks(stack) = {x}
  BY <1>2, FS_EmptySet, FS_Singleton
<1> QED
  BY <1>3

LEMMA SetInStep ==
  ASSUME LayersInv, NEW p \in Paths, setCurrentWorkingDirectory(p)
  PROVE  SetKeepsStep(p)
<1> DEFINE N == Len(layers)
           U == Unrooted(layers)
           d == Resolve(DirectoryOf(layers[1], cwd), p)
<1> SUFFICES ASSUME SetAll(layers, cwd, p).ok,
                    p.abs \/ (InStep(layers, cwd) /\ MovesOnce(layers, p))
             PROVE  InStep(layers', cwd')
  BY DEF SetKeepsStep
<1>1. /\ layers \in Seq(LayerType) /\ cwd \in Directories /\ p \in PathType
      /\ N \in Nat \ {0} /\ DOMAIN layers = 1..N /\ 1 \in U
  BY DirectoryAssumption DEF LayersInv, PathType, Unrooted
<1>2. PICK f : Run(f, layers, cwd, p) /\ SetAll(layers, cwd, p) = f[N]
  BY <1>1, SetAllRuns
<1>3. layers' = f[N].layers /\ cwd' = f[N].cwd /\ f[N].ok /\ SameLayers(layers', layers)
  BY <1>2, SetKeeps DEF setCurrentWorkingDirectory
<1>4. Unrooted(layers') = U
  BY <1>3 DEF Unrooted, Rooted, SameLayers
<1>5. \A i \in U : DirectoryOf(layers[i], cwd) \in Seq(Seq(STRING))
  <2> SUFFICES ASSUME NEW i \in U
               PROVE  DirectoryOf(layers[i], cwd) \in Seq(Seq(STRING))
    OBVIOUS
  <2>1. i \in 1..N /\ layers[i] \in LayerType
    BY <1>1 DEF Unrooted
  <2>2. layers[i].wd \in Seq(Seq(STRING)) /\ cwd \in Seq(Seq(STRING))
    BY <1>1, <2>1, DirectoryType DEF LayerType
  <2> QED
    BY <2>2 DEF DirectoryOf
<1>6. p.abs => d = Root \o p.rest /\ d # << >> /\ d \in Seq(Seq(STRING))
  BY <1>1, <1>5, ResolveType
<1>7. \A i \in U : Resolve(DirectoryOf(layers[i], cwd), p) = d
  <2>1. CASE p.abs
    BY <1>1, <1>5, <1>6, <2>1, ResolveType
  <2>2. CASE ~p.abs
    BY <1>1, <2>2 DEF InStep, Means, Unrooted
  <2> QED
    BY <2>1, <2>2
<1>8. InStep(layers', cwd') <=>
        \A q \in Paths : \A i, j \in U :
          Resolve(DirectoryOf(layers'[i], cwd'), q) = Resolve(DirectoryOf(layers'[j], cwd'), q)
  BY <1>4 DEF InStep, Means, Unrooted
<1>9. CASE d # << >>
  <2>1. p.abs => \A x \in Directories \union {d} : Resolve(x, p) = d
    BY <1>1, <1>6, DirectoryType, ResolveType
  <2>2. U \intersect Disks(layers) # {} => p.abs \/ \A i, j \in Disks(layers) : i = j
    <3> SUFFICES ASSUME ~p.abs, NEW i \in U \intersect Disks(layers)
                 PROVE  \A k, j \in Disks(layers) : k = j
      OBVIOUS
    <3>1. Cardinality(Disks(layers)) <= 1
      BY DEF MovesOnce, Unrooted
    <3> QED
      BY <1>1, <3>1, OneDisk
  <2> HIDE DEF d
  <2>3. \A i \in U : DirectoryOf(f[N].layers[i], f[N].cwd) = d
    <3>1. Leads(layers, cwd, p, d)
      BY <1>7, <1>9, <2>1, <2>2 DEF Leads
    <3> HIDE DEF U
    <3> QED
      BY <1>1, <1>2, <1>3, <3>1, AllMoved DEF U
  <2>4. \A i \in U : DirectoryOf(layers'[i], cwd') = d
    BY <1>3, <2>3
  <2> QED
    BY <1>8, <2>4
<1>10. CASE d = << >>
  <2>1. ~p.abs
    BY <1>6, <1>10
  <2>2. \A i \in U : DirectoryOf(layers'[i], cwd') = DirectoryOf(layers[i], cwd)
    BY <1>1, <1>2, <1>3, <1>7, <1>10, NoneMoved
  <2>3. \A q \in Paths : \A i, j \in U :
          Resolve(DirectoryOf(layers[i], cwd), q) = Resolve(DirectoryOf(layers[j], cwd), q)
    BY <2>1 DEF InStep, Means, Unrooted
  <2> QED
    BY <1>8, <2>2, <2>3
<1> QED
  BY <1>9, <1>10

LEMMA PushInStep ==
  ASSUME LayersInv, NEW layer \in LayerType, pushOverlay(layer)
  PROVE  PushKeepsStep
<1> DEFINE front == DirectoryOf(layers[1], cwd)
           n == Len(layers) + 1
           t == Pushed(State, layer)
           u == Push(State, layer)
           a == AsPath(front)
<1> SUFFICES ASSUME InStep(layers, cwd), front \in Directories
             PROVE  InStep(layers', cwd')
  BY DEF PushKeepsStep
<1>1. /\ layers \in Seq(LayerType) /\ layers # << >> /\ ~Rooted(layers[1])
      /\ State.layers = layers /\ State.cwd = cwd /\ State.ok /\ State \in StateType(Len(layers))
  BY DEF LayersInv, State, StateType
<1>2. /\ n \in Nat /\ t \in StateType(n) /\ u = SetLayer(t, n, a)
      /\ u \in StateType(n) /\ u.layers[n].kind = layer.kind
      /\ \A l \in 1..(n - 1) : u.layers[l] = layers[l]
  <2> HIDE DEF t, a, front
  <2>1. Len(State.layers) + 1 = n /\ State.layers \in Seq(LayerType) /\ State.layers # << >>
    BY <1>1
  <2>2. /\ n \in Nat /\ Pushed(State, layer) \in StateType(n)
        /\ u = SetLayer(Pushed(State, layer), n, AsPath(DirectoryOf(State.layers[1], State.cwd)))
        /\ u \in StateType(n) /\ u.layers[n].kind = layer.kind
        /\ \A l \in 1..(n - 1) : u.layers[l] = State.layers[l]
    <3> HIDE DEF n, u
    <3> QED
      BY <1>1, <2>1, PushType DEF u
  <2> QED
    BY <1>1, <2>2 DEF t, a, front
<1>3. layers' = u.layers /\ cwd' = u.cwd
  BY DEF pushOverlay
<1>4. /\ front \in Seq(Seq(STRING)) /\ front # << >> /\ a \in PathType
      /\ a.abs /\ Root \o a.rest = front
  BY DirectoryType, PathTo
<1>5. \A x \in Seq(Seq(STRING)) : Resolve(x, a) = front
  BY <1>4, ResolveType
<1>6. t.layers[n] = layer /\ t.cwd = cwd /\ t.ok /\ n \in 1..n
  <2>1. t.layers = Append(layers, layer) /\ t.cwd = cwd /\ t.ok
    BY <1>1 DEF Pushed, StateType
  <2>2. Append(layers, layer)[n] = layer
    BY <1>1
  <2> QED
    BY <1>2, <2>1, <2>2
<1>7. /\ layer.kind \in {"memory", "disk"} /\ layer.wd \in Seq(Seq(STRING))
      /\ cwd \in Seq(Seq(STRING)) /\ cwd \in Directories
  BY DirectoryType DEF LayersInv, LayerType
<1>8. Resolve(DirectoryOf(t.layers[n], t.cwd), a) = front
  BY <1>5, <1>6, <1>7 DEF DirectoryOf
<1> HIDE DEF n, t, a, front
<1>9. layer.kind = "memory" => u.layers[n].wd = front /\ u.cwd = cwd
  <2> DEFINE d == Resolve(DirectoryOf(t.layers[n], t.cwd), a)
  <2>1. d = front /\ front # << >> /\ n \in 1..n /\ a \in PathType
    BY <1>4, <1>6, <1>8
  <2> HIDE DEF d
  <2>2. t.layers[n].kind = "memory" => u.cwd = t.cwd /\ (d # << >> => u.layers[n].wd = d)
    BY <1>2, <2>1, SetLayerMeans DEF d
  <2> QED
    BY <1>6, <2>1, <2>2
<1>10. layer.kind = "disk" => u.cwd = front
  <2> SUFFICES ASSUME layer.kind = "disk"
               PROVE  u.cwd = front
    OBVIOUS
  <2>1. Changes(t.cwd, a)
    BY <1>4, <1>5, <1>6, <1>7 DEF Changes
  <2>2. u = [t EXCEPT !.cwd = Resolve(t.cwd, a)]
    BY <1>2, <1>6, <2>1 DEF SetLayer
  <2> QED
    BY <1>2, <1>5, <1>6, <1>7, <2>2 DEF StateType
<1>11. DOMAIN layers' = 1..n /\ DOMAIN layers = 1..(n - 1) /\ 1 \in 1..(n - 1)
  BY <1>1, <1>2, <1>3 DEF StateType, n
<1>12. ASSUME NEW q \in Paths, NEW i \in 1..n, ~Rooted(layers'[i])
       PROVE  Means(layers', cwd', i, q) = Resolve(front, q)
  <2>1. CASE i = n
    BY <1>2, <1>3, <1>7, <1>9, <1>10, <2>1 DEF Means, DirectoryOf
  <2>2. CASE i # n
    <3>1. i \in 1..(n - 1) /\ layers'[i] = layers[i]
      BY <1>2, <1>3, <2>2
    <3>2. Means(layers, cwd, i, q) = Means(layers, cwd, 1, q)
      BY <1>1, <1>11, <1>12, <3>1 DEF InStep
    <3>3. Means(layers, cwd, 1, q) = Resolve(front, q)
      BY DEF Means, front
    <3> QED
      BY <1>3, <1>7, <1>9, <1>10, <3>1, <3>2, <3>3 DEF Means, DirectoryOf
  <2> QED
    BY <2>1, <2>2
<1> QED
  BY <1>11, <1>12 DEF InStep

(* setCurrentWorkingDirectory() and pushOverlay() of a stack of any height *)
(* leave its layers in step, unless a layer refused.                       *)
THEOREM KeepsStepCorrect == Spec => KeepsStep
<1> DEFINE A == /\ \A p \in Paths : SetCurrentWorkingDirectory(p) => SetKeepsStep(p)
                /\ Len(layers') = Len(layers) + 1 => PushKeepsStep
<1>1. LayersInv /\ [Next]_vars => [A]_<<layers, cwd>>
  <2> SUFFICES ASSUME LayersInv, [Next]_vars, <<layers, cwd>>' # <<layers, cwd>>
               PROVE  A
    OBVIOUS
  <2>1. \A p \in Paths : SetCurrentWorkingDirectory(p) => SetKeepsStep(p)
    BY SetInStep DEF SetCurrentWorkingDirectory
  <2>2. ASSUME Len(layers') = Len(layers) + 1
        PROVE  PushKeepsStep
    <3>0. Len(layers) \in Nat
      BY DEF LayersInv
    <3>1. ASSUME NEW layer \in LayerType, PushOverlay(layer)
          PROVE  PushKeepsStep
      BY <3>1, PushInStep DEF PushOverlay
    <3>2. ASSUME NEW p \in Paths, SetCurrentWorkingDirectory(p)
          PROVE  FALSE
      BY <2>2, <3>0, <3>2, SetKeeps DEF SetCurrentWorkingDirectory
    <3>3. ASSUME NEW paths \in ModulePaths, SetSystemModulePaths(paths)
          PROVE  PushKeepsStep
      <4>1. owner' = "FileManager" /\ LayersInv'
        BY <3>3, LayersStep DEF SetSystemModulePaths
      <4>2. ManagerStack(layers')
        BY <4>1 DEF LayersInv
      <4>3. \A i, j \in DOMAIN layers' : ~Rooted(layers'[i]) /\ ~Rooted(layers'[j]) => i = j
        BY <4>2 DEF ManagerStack
      <4> QED
        BY <4>3 DEF PushKeepsStep, InStep
    <3>4. UNCHANGED layers => FALSE
      BY <2>2, <3>0
    <3> QED
      BY <3>1, <3>2, <3>3, <3>4, NewLayerType
         DEF Next, vars, WriteFile, getFile, StringSource, NewSource, GetChar
  <2> QED
    BY <2>1, <2>2
<1> QED
  BY <1>1, LayersInit, LayersStep, PTL DEF Spec, KeepsStep

-----------------------------------------------------------------------------
(* The text of a file is one of characters, however many layers it is from.*)
LEMMA JoinedType ==
  ASSUME NEW N \in Nat, NEW texts \in [1..N -> Seq(Char) \union {NoFile}]
  PROVE  Joined(texts) \in Seq(Char)
<1> DEFINE T == Seq(Char)
           Next1(l, b) == b \o (IF texts[l] = NoFile THEN << >> ELSE Append(texts[l], Newline))
           step == [q \in (1..N) \X T |-> Next1(q[1], q[2])]
           Is(h) == h = [l \in 0..N |-> IF l = 0 THEN << >> ELSE Next1(l, h[l - 1])]
<1>0. texts \in Seq(Seq(Char) \union {NoFile}) /\ Len(texts) = N
  OBVIOUS
<1>1. << >> \in T /\ Newline \in Char
  BY DEF Char
<1>2. \A l \in 1..N, b \in T : Next1(l, b) \in T
  <2> SUFFICES ASSUME NEW l \in 1..N, NEW b \in T
               PROVE  Next1(l, b) \in T
    OBVIOUS
  <2>1. (IF texts[l] = NoFile THEN << >> ELSE Append(texts[l], Newline)) \in T
    BY <1>1
  <2> QED
    BY <2>1
<1> HIDE DEF T, Next1
<1>3. step \in [(1..N) \X T -> T]
  BY <1>2
<1>4. \A l \in 1..N, b \in T : step[<<l, b>>] = Next1(l, b)
  OBVIOUS
<1> HIDE DEF step
<1>5. PICK f : Iterates(f, T, << >>, N, step)
  BY <1>1, <1>3, Recursion
<1>6. Is(f)
  <2>0. \A l \in 1..N : l - 1 \in 0..N
    OBVIOUS
  <2>1. \A l \in 1..N : f[l - 1] \in T /\ f[l] = Next1(l, f[l - 1])
    BY <1>4, <1>5, <2>0 DEF Iterates
  <2> QED
    BY <1>5, <2>1 DEF Iterates
<1>7. ASSUME NEW h, Is(h)
      PROVE  h[N] \in T
  <2> DEFINE S == {l \in 0..N : h[l] \in T}
  <2>1. 0 \in S
    BY <1>1, <1>7
  <2>2. ASSUME NEW l \in 1..N, l - 1 \in S
        PROVE  l \in S
    BY <1>2, <1>7, <2>2
  <2> HIDE DEF S
  <2>3. 0..N \subseteq S
    BY <2>1, <2>2, UpTo
  <2> QED
    BY <2>3 DEF S
<1>8. Joined(texts) = (CHOOSE h : Is(h))[N]
  BY <1>0 DEF Joined, Next1
<1> HIDE DEF Is
<1> QED
  BY <1>6, <1>7, <1>8 DEF T

LEMMA ConcatenatedType ==
  ASSUME LayersInv, disk \in [Physical -> Texts \union {NoFile}], NEW path
  PROVE  Concatenated(path) \in Seq(Char)
<1> DEFINE N == Len(layers)
<1>1. N \in Nat /\ DOMAIN layers = 1..N
  BY DEF LayersInv
<1>2. \A layer : TextIn(layer, path) \in Seq(Char) \union {NoFile}
  BY FilesAssumption DEF TextIn, FileAt
<1>3. TextsOf(path) \in [1..N -> Seq(Char) \union {NoFile}]
  BY <1>1, <1>2 DEF TextsOf
<1> QED
  BY <1>1, <1>3, JoinedType DEF Concatenated

-----------------------------------------------------------------------------
(* The sources, and what is kept of them.  A file has a key of its own.    *)
SourceType ==
  [kind : {"file", "string"}, key : Nat \X (Requests \union {"top-level.u"}), text : Seq(Char),
   got : Nat, generation : Nat]

SourcesInv ==
  /\ uid \in Nat \ {0} /\ generation \in Nat \ {0}
  /\ disk \in [Physical -> Texts \union {NoFile}] /\ changes \in 0..MaxChanges
  /\ sources \in Seq(SourceType)
  /\ \A i \in DOMAIN sources :
       /\ sources[i].got <= Len(sources[i].text) /\ sources[i].generation \in 1..generation
       /\ sources[i].kind = "string" => sources[i].key = StringKey
       /\ sources[i].kind = "file" => sources[i].key[1] \in 1..uid
  /\ \A i, j \in DOMAIN sources \ Strings : sources[i].key = sources[j].key => i = j

Begun == {i \in DOMAIN sources : sources[i].got > 0}

TableInv == table \in [{sources[i].key : i \in Begun} -> Seq(Seq(Char))]

LEMMA SourcesInit == Init => SourcesInv /\ TableInv
<1> SUFFICES ASSUME Init
             PROVE  SourcesInv /\ TableInv
  OBVIOUS
<1>1. disk \in [Physical -> Texts \union {NoFile}]
  BY DEF Init
<1>2. sources = << >> /\ table = << >> /\ DOMAIN sources = {} /\ DOMAIN table = {}
  BY DEF Init
<1>3. {sources[i].key : i \in Begun} = {}
  BY <1>2 DEF Begun
<1>4. TableInv
  <2>1. << >> \in [1..0 -> Seq(Seq(Char))] /\ 1..0 = {}
    OBVIOUS
  <2> QED
    BY <1>2, <1>3, <2>1 DEF TableInv
<1> QED
  BY <1>1, <1>2, <1>4, FilesAssumption DEF Init, SourcesInv, Strings

(* A new source: nothing of it has been read.                              *)
LEMMA NewSourceKeeps ==
  ASSUME SourcesInv, TableInv, NEW kind, NEW key, NEW text \in Seq(Char), NewSource(kind, key, text),
         \/ kind = "string" /\ key = StringKey /\ uid' = uid
         \/ kind = "file" /\ uid' = uid + 1 /\ \E path \in Requests : key = <<uid + 1, path>>
  PROVE  SourcesInv' /\ TableInv'
<1> DEFINE s == [kind |-> kind, key |-> key, text |-> text, got |-> 0, generation |-> generation]
           n == Len(sources) + 1
<1>1. /\ uid \in Nat \ {0} /\ uid' \in Nat \ {0} /\ uid' >= uid /\ generation \in Nat \ {0}
      /\ sources \in Seq(SourceType)
  BY DEF SourcesInv
<1>2. /\ s \in SourceType /\ s.kind = kind /\ s.key = key /\ s.text = text /\ s.got = 0
      /\ s.generation = generation
  BY <1>1 DEF SourceType, StringKey
<1>3. UNCHANGED <<generation, disk, table, changes>> /\ sources' = Append(sources, s)
  BY DEF NewSource
<1> HIDE DEF s
<1>4. /\ sources' \in Seq(SourceType) /\ Len(sources') = n /\ sources'[n] = s
      /\ DOMAIN sources' = DOMAIN sources \union {n} /\ n \notin DOMAIN sources
      /\ \A i \in DOMAIN sources : sources'[i] = sources[i]
  <2>1. \A i \in DOMAIN sources : i \in 1..Len(sources)
    BY <1>1
  <2> QED
    BY <1>1, <1>2, <1>3, <2>1, Appended
<1> HIDE DEF n
<1>5. \A i \in DOMAIN sources : sources[i].kind = "file" => sources[i].key[1] \in 1..uid
  BY DEF SourcesInv
<1>6. ASSUME NEW i \in DOMAIN sources'
      PROVE  /\ sources'[i].got <= Len(sources'[i].text) /\ sources'[i].generation \in 1..generation
             /\ sources'[i].kind = "string" => sources'[i].key = StringKey
             /\ sources'[i].kind = "file" => sources'[i].key[1] \in 1..uid'
  <2>1. CASE i \in DOMAIN sources
    BY <1>1, <1>4, <2>1 DEF SourcesInv
  <2>2. CASE i = n
    <3>1. 0 <= Len(text) /\ generation \in 1..generation
      BY <1>1
    <3>2. kind = "file" => key[1] \in 1..uid'
      BY <1>1
    <3> QED
      BY <1>2, <1>4, <2>2, <3>1, <3>2
  <2> QED
    BY <1>4, <2>1, <2>2
<1>7. ASSUME NEW i \in DOMAIN sources' \ Strings', NEW j \in DOMAIN sources' \ Strings',
             sources'[i].key = sources'[j].key
      PROVE  i = j
  <2>1. sources'[i].kind = "file" /\ sources'[j].kind = "file"
    <3>1. \A m \in DOMAIN sources' : sources'[m] \in SourceType
      BY <1>4
    <3> QED
      BY <3>1 DEF Strings, SourceType
  <2>2. kind = "file" => \A m \in DOMAIN sources : sources[m].kind = "file" => sources[m].key # key
    <3> SUFFICES ASSUME kind = "file", NEW m \in DOMAIN sources, sources[m].kind = "file",
                        sources[m].key = key
                 PROVE  FALSE
      OBVIOUS
    <3>1. key[1] = uid + 1
      OBVIOUS
    <3> QED
      BY <1>1, <1>5, <3>1
  <2>3. CASE i \in DOMAIN sources /\ j \in DOMAIN sources
    BY <1>4, <1>7, <2>1, <2>3 DEF SourcesInv, Strings
  <2>4. CASE i = n \/ j = n
    BY <1>2, <1>4, <1>7, <2>1, <2>2, <2>4
  <2> QED
    BY <1>4, <2>3, <2>4
<1>8. SourcesInv'
  BY <1>1, <1>3, <1>4, <1>6, <1>7 DEF SourcesInv
<1>9. {sources'[i].key : i \in Begun'} = {sources[i].key : i \in Begun}
  <2>1. Begun' = Begun
    BY <1>2, <1>4 DEF Begun
  <2> QED
    BY <1>4, <2>1 DEF Begun
<1> QED
  BY <1>3, <1>8, <1>9 DEF TableInv

(* What GetChar() makes of the source, and of the entry of its file.       *)
Entry(key) == IF key \in DOMAIN table THEN table[key] ELSE << >>

Read(i, ch, text) ==
  /\ sources' = [sources EXCEPT ![i] = [sources[i] EXCEPT !.got = sources[i].got + 1, !.text = text]]
  /\ table' = [k \in DOMAIN table \union {sources[i].key} |->
                 IF k = sources[i].key
                 THEN AddCharacter(Entry(k), LineOf(text, Newline, sources[i].got + 1), ch)
                 ELSE table[k]]

LEMMA GetCharReads ==
  ASSUME SourcesInv, TableInv, NEW i \in DOMAIN sources, GetChar(i)
  PROVE  /\ sources[i].got < Len(sources[i].text)
         /\ \E ch \in Char, text \in Seq(Char) :
              /\ Read(i, ch, text) /\ Len(text) = Len(sources[i].text)
              /\ ~Freed(sources[i]) => /\ ch = sources[i].text[sources[i].got + 1]
                                       /\ text = sources[i].text
<1> DEFINE s == sources[i]
           t == getOrInsertFileInfo(table, s.key)
<1>1. s \in SourceType /\ sources \in Seq(SourceType)
  BY DEF SourcesInv
<1>2. s.got < Len(s.text) /\ s.got \in Nat /\ s.text \in Seq(Char)
  BY <1>1 DEF GetChar, SourceType
<1>3. PICK ch \in IF Freed(s) THEN Char ELSE {s.text[s.got + 1]} :
        LET text == [s.text EXCEPT ![s.got + 1] = ch]
        IN  /\ sources' = [sources EXCEPT ![i].got = @ + 1, ![i].text = text]
            /\ table' = [t EXCEPT ![s.key] = AddCharacter(@, LineOf(text, Newline, s.got + 1), ch)]
  BY DEF GetChar
<1>4. ch \in Char /\ (~Freed(s) => ch = s.text[s.got + 1])
  BY <1>2, <1>3
<1> DEFINE text == [s.text EXCEPT ![s.got + 1] = ch]
<1>5. /\ text \in Seq(Char) /\ Len(text) = Len(s.text)
      /\ ~Freed(s) => text = s.text
  <2>1. text \in Seq(Char) /\ Len(text) = Len(s.text)
    BY <1>2, <1>4
  <2>2. ~Freed(s) => text = s.text
    BY <1>2, <1>4
  <2> QED
    BY <2>1, <2>2
<1>6. /\ sources' = [sources EXCEPT ![i].got = @ + 1, ![i].text = text]
      /\ table' = [t EXCEPT ![s.key] = AddCharacter(@, LineOf(text, Newline, s.got + 1), ch)]
  BY <1>3
<1> HIDE DEF text
<1>7. sources' = [sources EXCEPT ![i] = [sources[i] EXCEPT !.got = sources[i].got + 1, !.text = text]]
  <2> DEFINE s1 == [s EXCEPT !.got = s.got + 1]
             f1 == [sources EXCEPT ![i] = s1]
  <2>1. sources' = [f1 EXCEPT ![i] = [f1[i] EXCEPT !.text = text]]
    BY <1>6
  <2>2. f1[i] = s1
    BY <1>1
  <2>3. [f1 EXCEPT ![i] = [s1 EXCEPT !.text = text]] = [sources EXCEPT ![i] = [s1 EXCEPT !.text = text]]
    BY <1>1
  <2>4. [s1 EXCEPT !.text = text] = [s EXCEPT !.got = s.got + 1, !.text = text]
    BY <1>1 DEF SourceType
  <2> QED
    BY <2>1, <2>2, <2>3, <2>4
<1>8. table' = [k \in DOMAIN table \union {s.key} |->
                  IF k = s.key
                  THEN AddCharacter(Entry(k), LineOf(text, Newline, s.got + 1), ch) ELSE table[k]]
  BY <1>6 DEF getOrInsertFileInfo, Entry
<1>9. Read(i, ch, text)
  BY <1>7, <1>8 DEF Read
<1> QED
  BY <1>2, <1>4, <1>5, <1>9

(* The source that is read, and the others.                                *)
LEMMA ReadSource ==
  ASSUME SourcesInv, NEW i \in DOMAIN sources, NEW ch \in Char, NEW text \in Seq(Char),
         Read(i, ch, text)
  PROVE  /\ sources' \in Seq(SourceType) /\ DOMAIN sources' = DOMAIN sources
         /\ sources'[i].got = sources[i].got + 1 /\ sources'[i].text = text
         /\ \A j \in DOMAIN sources :
              /\ sources'[j].kind = sources[j].kind /\ sources'[j].key = sources[j].key
              /\ sources'[j].generation = sources[j].generation
              /\ j # i => sources'[j] = sources[j]
         /\ Strings' = Strings
<1> DEFINE new == [sources[i] EXCEPT !.got = sources[i].got + 1, !.text = text]
<1>1. sources \in Seq(SourceType) /\ sources[i] \in SourceType
  BY DEF SourcesInv
<1>2. /\ new \in SourceType /\ new.got = sources[i].got + 1 /\ new.text = text
      /\ new.kind = sources[i].kind /\ new.key = sources[i].key
      /\ new.generation = sources[i].generation
  <2>1. ASSUME NEW s \in SourceType, NEW n, n = [s EXCEPT !.got = s.got + 1, !.text = text]
        PROVE  /\ n \in SourceType /\ n.got = s.got + 1 /\ n.text = text
               /\ n.kind = s.kind /\ n.key = s.key /\ n.generation = s.generation
    <3>1. s.got + 1 \in Nat
      BY DEF SourceType
    <3> QED
      BY <2>1, <3>1 DEF SourceType
  <2> HIDE DEF new
  <2>2. new = [sources[i] EXCEPT !.got = sources[i].got + 1, !.text = text]
    BY DEF new
  <2> QED
    BY <1>1, <2>1, <2>2
<1>3. sources' = [sources EXCEPT ![i] = new]
  BY DEF Read
<1> HIDE DEF new
<1>4. /\ sources' \in Seq(SourceType) /\ DOMAIN sources' = DOMAIN sources /\ sources'[i] = new
      /\ \A j \in DOMAIN sources : j # i => sources'[j] = sources[j]
  BY <1>1, <1>2, <1>3
<1> QED
  BY <1>2, <1>4 DEF Strings

LEMMA ReadKeeps ==
  ASSUME SourcesInv, TableInv, NEW i \in DOMAIN sources, GetChar(i)
  PROVE  SourcesInv' /\ TableInv'
<1>1. PICK ch \in Char, text \in Seq(Char) :
        Read(i, ch, text) /\ Len(text) = Len(sources[i].text)
  BY GetCharReads
<1>2. sources[i].got < Len(text) /\ UNCHANGED <<disk, changes, uid, generation>>
  BY <1>1, GetCharReads DEF GetChar
<1>3. /\ sources' \in Seq(SourceType) /\ DOMAIN sources' = DOMAIN sources
      /\ sources'[i].got = sources[i].got + 1 /\ sources'[i].text = text
      /\ \A j \in DOMAIN sources :
           /\ sources'[j].kind = sources[j].kind /\ sources'[j].key = sources[j].key
           /\ sources'[j].generation = sources[j].generation
           /\ j # i => sources'[j] = sources[j]
      /\ Strings' = Strings
  BY <1>1, ReadSource
<1>4. \A j \in DOMAIN sources : sources[j] \in SourceType
  BY DEF SourcesInv
<1>5. \A j \in DOMAIN sources' : sources'[j].got <= Len(sources'[j].text)
  <2>1. sources'[i].got <= Len(sources'[i].text)
    BY <1>2, <1>3, <1>4 DEF SourceType
  <2> QED
    BY <1>3, <2>1 DEF SourcesInv
<1>6. SourcesInv'
  BY <1>2, <1>3, <1>5 DEF SourcesInv
<1>7. Begun' = Begun \union {i}
  <2>1. sources'[i].got > 0
    BY <1>3, <1>4 DEF SourceType
  <2> QED
    BY <1>3, <2>1 DEF Begun
<1>8. {sources'[j].key : j \in Begun'} = {sources[j].key : j \in Begun} \union {sources[i].key}
  BY <1>3, <1>7 DEF Begun
<1>9. \A k \in DOMAIN table : table[k] \in Seq(Seq(Char))
  BY DEF TableInv
<1>10. \A k : Entry(k) \in Seq(Seq(Char))
  <2>1. << >> \in Seq(Seq(Char))
    OBVIOUS
  <2> QED
    BY <1>9, <2>1 DEF Entry
<1>11. LineOf(text, Newline, sources[i].got + 1) \in Nat
  BY <1>4, LineOfType DEF SourceType
<1>12. \A k : AddCharacter(Entry(k), LineOf(text, Newline, sources[i].got + 1), ch) \in Seq(Seq(Char))
  BY <1>10, <1>11, AddCharacterType
<1>13. table' \in [DOMAIN table \union {sources[i].key} -> Seq(Seq(Char))]
  BY <1>1, <1>9, <1>12 DEF Read
<1>14. DOMAIN table = {sources[j].key : j \in Begun}
  BY DEF TableInv
<1> QED
  BY <1>6, <1>8, <1>13, <1>14 DEF TableInv

LEMMA SourcesStep == LayersInv /\ SourcesInv /\ TableInv /\ [Next]_vars => SourcesInv' /\ TableInv'
<1> SUFFICES ASSUME LayersInv, SourcesInv, TableInv, [Next]_vars
             PROVE  SourcesInv' /\ TableInv'
  OBVIOUS
<1>1. ASSUME NEW path \in Requests, getFile(path)
      PROVE  SourcesInv' /\ TableInv'
  <2>1. Concatenated(path) \in Seq(Char)
    BY ConcatenatedType DEF SourcesInv
  <2>2. NewSource("file", <<uid + 1, path>>, Concatenated(path)) /\ uid' = uid + 1
    BY <1>1 DEF getFile
  <2> QED
    BY <2>1, <2>2, NewSourceKeeps
<1>2. ASSUME NEW text \in Texts, StringSource(text)
      PROVE  SourcesInv' /\ TableInv'
  BY <1>2, FilesAssumption, NewSourceKeeps DEF StringSource
<1>3. ASSUME NEW i \in DOMAIN sources, GetChar(i)
      PROVE  SourcesInv' /\ TableInv'
  BY <1>3, ReadKeeps
<1>4. ASSUME UNCHANGED <<sources, table>>, uid' \in Nat, uid' >= uid, generation' \in Nat,
             generation' >= generation, changes' \in 0..MaxChanges,
             disk' \in [Physical -> Texts \union {NoFile}]
      PROVE  SourcesInv' /\ TableInv'
  <2>1. ASSUME NEW i \in DOMAIN sources
        PROVE  /\ sources[i].generation \in 1..generation'
               /\ sources[i].kind = "file" => sources[i].key[1] \in 1..uid'
    <3>1. uid \in Nat /\ generation \in Nat
      BY DEF SourcesInv
    <3>2. sources[i].generation \in 1..generation
      BY DEF SourcesInv
    <3>3. sources[i].kind = "file" => sources[i].key[1] \in 1..uid
      BY DEF SourcesInv
    <3>4. sources[i].generation \in 1..generation'
      BY <1>4, <3>1, <3>2
    <3> QED
      BY <1>4, <3>1, <3>3, <3>4
  <2>2. uid' \in Nat \ {0} /\ generation' \in Nat \ {0}
    BY <1>4 DEF SourcesInv
  <2>3. SourcesInv'
    BY <1>4, <2>1, <2>2 DEF SourcesInv, Strings
  <2> QED
    BY <1>4, <2>3 DEF TableInv, Begun
<1>5. uid \in Nat /\ generation \in Nat /\ changes \in 0..MaxChanges /\ MaxChanges \in Nat
  BY FilesAssumption DEF SourcesInv
<1>6. ASSUME NEW layer, PushOverlay(layer)
      PROVE  SourcesInv' /\ TableInv'
  BY <1>4, <1>5, <1>6 DEF PushOverlay, SourcesInv
<1>7. ASSUME NEW p \in Paths, SetCurrentWorkingDirectory(p)
      PROVE  SourcesInv' /\ TableInv'
  BY <1>4, <1>5, <1>7 DEF SetCurrentWorkingDirectory, SourcesInv, LayersInv
<1>8. ASSUME NEW paths \in ModulePaths, SetSystemModulePaths(paths)
      PROVE  SourcesInv' /\ TableInv'
  BY <1>4, <1>5, <1>8 DEF SetSystemModulePaths, SourcesInv
<1>9. ASSUME NEW file \in Physical, NEW text \in Texts \union {NoFile}, WriteFile(file, text)
      PROVE  SourcesInv' /\ TableInv'
  BY <1>4, <1>5, <1>9 DEF WriteFile, SourcesInv
<1>10. CASE UNCHANGED vars
  BY <1>4, <1>5, <1>10 DEF vars, SourcesInv
<1> QED
  BY <1>1, <1>2, <1>3, <1>6, <1>7, <1>8, <1>9, <1>10 DEF Next

(* TypeCorrect: the types, for stacks of any height and any number of      *)
(* sources; a lexer never reads past the end of its source, and what is    *)
(* kept is kept of the sources that are read.                              *)
THEOREM TypeCorrect == Spec => []TypeOK
<1>1. LayersInv /\ SourcesInv /\ TableInv => TypeOK
  <2> SUFFICES ASSUME LayersInv, SourcesInv, TableInv
               PROVE  TypeOK
    OBVIOUS
  <2>1. ASSUME NEW l \in DOMAIN layers
        PROVE  /\ DOMAIN layers[l] = {"kind", "wd", "mount"}
               /\ layers[l].kind \in {"memory", "disk"}
               /\ layers[l].mount \in Mounts \union {<< >>}
    <3>1. layers[l] \in LayerType
      BY DEF LayersInv
    <3> QED
      BY <3>1 DEF LayerType
  <2>2. ASSUME NEW i \in DOMAIN sources
        PROVE  /\ sources[i].text \in Seq(Char) /\ sources[i].got \in 0..Len(sources[i].text)
               /\ sources[i].key[1] \in 0..uid /\ sources[i].generation \in 1..generation
    <3>1. sources[i] \in SourceType /\ uid \in Nat
      BY DEF SourcesInv
    <3>2. sources[i].got <= Len(sources[i].text) /\ sources[i].generation \in 1..generation
      BY DEF SourcesInv
    <3>3. sources[i].key[1] \in 0..uid
      <4>1. CASE sources[i].kind = "string"
        <5>1. sources[i].key = StringKey
          BY <4>1 DEF SourcesInv
        <5> QED
          BY <3>1, <5>1 DEF StringKey
      <4>2. CASE sources[i].kind = "file"
        BY <3>1, <4>2 DEF SourcesInv
      <4> QED
        BY <3>1, <4>1, <4>2 DEF SourceType
    <3> QED
      BY <3>1, <3>2, <3>3 DEF SourceType
  <2>3. DOMAIN table = {sources[i].key : i \in {j \in DOMAIN sources : sources[j].got > 0}}
    BY DEF TableInv, Begun
  <2>4. /\ owner \in {"FileManager", "client"} /\ cwd \in Directories
        /\ disk \in [Physical -> Texts \union {NoFile}] /\ changes \in 0..MaxChanges
    BY DEF LayersInv, SourcesInv
  <2> QED
    BY <2>1, <2>2, <2>3, <2>4 DEF TypeOK
<1> QED
  BY <1>1, LayersInit, LayersStep, SourcesInit, SourcesStep, PTL DEF Spec

-----------------------------------------------------------------------------
(* EntriesCorrect: what SourceManager keeps is what the lexers have read.  *)

(* Of a file that is open, each character where it stands.                 *)
FilesKept ==
  \A i \in DOMAIN sources \ Strings :
    ~Freed(sources[i]) /\ sources[i].got > 0 =>
      KeptOK(table[sources[i].key], sources[i].text, Newline, sources[i].got)

LEMMA OwnKey ==
  ASSUME SourcesInv, NEW i \in DOMAIN sources \ Strings, NEW j \in DOMAIN sources,
         sources[i].key = sources[j].key
  PROVE  i = j /\ sources[i].key # StringKey
<1>1. sources[i] \in SourceType /\ sources[j] \in SourceType
  BY DEF SourcesInv
<1>2. sources[i].kind = "file" /\ sources[i].key[1] \in 1..uid
  BY <1>1 DEF SourcesInv, SourceType, Strings
<1>3. sources[i].key # StringKey
  BY <1>2 DEF StringKey
<1>4. j \notin Strings
  BY <1>3 DEF SourcesInv, Strings
<1> QED
  BY <1>3, <1>4 DEF SourcesInv

LEMMA ReadKept ==
  ASSUME SourcesInv, TableInv, FilesKept, NEW i \in DOMAIN sources, GetChar(i)
  PROVE  FilesKept'
<1>1. PICK ch \in Char, text \in Seq(Char) :
        /\ Read(i, ch, text)
        /\ ~Freed(sources[i]) => /\ ch = sources[i].text[sources[i].got + 1]
                                 /\ text = sources[i].text
  BY GetCharReads
<1>2. sources[i].got < Len(sources[i].text) /\ generation' = generation
  BY GetCharReads DEF GetChar
<1>3. /\ DOMAIN sources' = DOMAIN sources /\ Strings' = Strings
      /\ sources'[i].got = sources[i].got + 1 /\ sources'[i].text = text
      /\ \A j \in DOMAIN sources :
           /\ sources'[j].kind = sources[j].kind /\ sources'[j].key = sources[j].key
           /\ sources'[j].generation = sources[j].generation
           /\ j # i => sources'[j] = sources[j]
  BY <1>1, ReadSource
<1> SUFFICES ASSUME NEW j \in DOMAIN sources \ Strings, ~Freed(sources[j]), sources'[j].got > 0
             PROVE  KeptOK(table'[sources[j].key], sources'[j].text, Newline, sources'[j].got)
  BY <1>2, <1>3 DEF FilesKept, Freed
<1>4. CASE j # i
  <2>1. sources[j].key # sources[i].key
    BY <1>4, OwnKey
  <2>2. j \in Begun /\ sources[j].key \in DOMAIN table
    BY <1>3, <1>4 DEF TableInv, Begun
  <2>3. table'[sources[j].key] = table[sources[j].key]
    BY <1>1, <2>1, <2>2 DEF Read
  <2> QED
    BY <1>3, <1>4, <2>3 DEF FilesKept
<1>5. CASE j = i
  <2> DEFINE s == sources[i]
             lines == Entry(s.key)
             new == AddCharacter(lines, LineOf(s.text, Newline, s.got + 1), s.text[s.got + 1])
  <2>1. s \in SourceType /\ s.text \in Seq(Char) /\ s.got \in Nat /\ s.got < Len(s.text)
    <3>1. s \in SourceType
      BY DEF SourcesInv
    <3>2. s.text \in Seq(Char) /\ s.got \in Nat
      BY <3>1 DEF SourceType
    <3> QED
      BY <1>2, <3>1, <3>2
  <2>2. table'[s.key] = new /\ sources'[i].text = s.text
    BY <1>1, <1>3, <1>5 DEF Read
  <2>3. lines \in Seq(Seq(Char)) /\ KeptOK(lines, s.text, Newline, s.got)
    <3>1. CASE s.got = 0
      <4>1. \A m \in Begun : sources[m].key # s.key
        BY <1>5, <3>1, OwnKey DEF Begun
      <4>2. lines = << >>
        BY <4>1 DEF Entry, TableInv
      <4> QED
        BY <3>1, <4>2 DEF KeptOK, RecordedIn, LastLineOK
    <3>2. CASE s.got # 0
      <4>1. i \in Begun /\ s.got > 0
        BY <2>1, <3>2 DEF Begun
      <4>2. lines = table[s.key] /\ table[s.key] \in Seq(Seq(Char))
        BY <4>1 DEF Entry, TableInv
      <4> QED
        BY <1>5, <4>1, <4>2 DEF FilesKept
    <3> QED
      BY <3>1, <3>2
  <2> HIDE DEF lines, s
  <2>4. KeptOK(new, s.text, Newline, s.got + 1)
    BY <2>1, <2>3, AddCharacterOK
  <2> QED
    BY <1>3, <1>5, <2>2, <2>4 DEF s
<1> QED
  BY <1>4, <1>5

(* Of the strings, which share one entry, in each line the characters of   *)
(* that line of all of them.                                               *)
Places(line, ch) == {k \in DOMAIN line : line[k] = ch}

LineAt(lines, l) == IF l \in DOMAIN lines THEN lines[l] ELSE << >>

Counted(lines) ==
  /\ \A r \in ReadOfStrings : LineIn(r) \in DOMAIN lines
  /\ \A l \in Nat \ {0} : \A ch \in Char :
       Cardinality(Places(LineAt(lines, l), ch)) = Cardinality(OnLine(l, ch))

StringsKept == IsFiniteSet(ReadOfStrings) /\ Counted(Entry(StringKey))

(* A line that is filled.                                                  *)
LEMMA LineFilled ==
  ASSUME NEW S, NEW lines \in Seq(Seq(S)), NEW l \in Nat \ {0}, NEW ch \in S,
         NEW new, new = AddCharacter(lines, l, ch)
  PROVE  /\ DOMAIN lines \subseteq DOMAIN new /\ l \in DOMAIN new
         /\ LineAt(lines, l) \in Seq(S)
         /\ LineAt(new, l) = Append(LineAt(lines, l), ch)
         /\ \A m \in (Nat \ {0}) \ {l} : LineAt(new, m) = LineAt(lines, m)
<1> DEFINE n == IF Len(lines) < l THEN l ELSE Len(lines)
           line(m) == (IF m <= Len(lines) THEN lines[m] ELSE << >>)
                        \o (IF m = l THEN <<ch>> ELSE << >>)
<1>1. new = [m \in 1..n |-> line(m)] /\ n \in Nat /\ l \in 1..n /\ DOMAIN lines = 1..Len(lines)
  BY DEF AddCharacter
<1>2. DOMAIN lines \subseteq 1..n
  BY <1>1
<1>3. ASSUME NEW m \in Nat \ {0}
      PROVE  LineAt(lines, m) = (IF m <= Len(lines) THEN lines[m] ELSE << >>) /\ LineAt(lines, m) \in Seq(S)
  <2>1. m \in DOMAIN lines <=> m <= Len(lines)
    BY <1>1
  <2>2. << >> \in Seq(S)
    OBVIOUS
  <2> QED
    BY <2>1, <2>2 DEF LineAt
<1>4. ASSUME NEW before \in Seq(S)
      PROVE  before \o <<ch>> = Append(before, ch) /\ before \o << >> = before
  OBVIOUS
<1>5. line(l) = Append(LineAt(lines, l), ch)
  BY <1>3, <1>4
<1>6. ASSUME NEW m \in (Nat \ {0}) \ {l}
      PROVE  line(m) = LineAt(lines, m)
  BY <1>3, <1>4
<1> HIDE DEF line, n
<1>7. LineAt(new, l) = Append(LineAt(lines, l), ch)
  BY <1>1, <1>5 DEF LineAt
<1>8. ASSUME NEW m \in (Nat \ {0}) \ {l}
      PROVE  LineAt(new, m) = LineAt(lines, m)
  <2>1. CASE m \in 1..n
    BY <1>1, <1>6, <2>1 DEF LineAt
  <2>2. CASE m \notin 1..n
    BY <1>1, <1>2, <2>2 DEF LineAt
  <2> QED
    BY <2>1, <2>2
<1> QED
  BY <1>1, <1>2, <1>3, <1>7, <1>8

Longer(longer, line, n, ch) ==
  /\ IsFiniteSet(DOMAIN line) /\ n \notin DOMAIN line /\ DOMAIN longer = DOMAIN line \union {n}
  /\ longer[n] = ch /\ \A k \in DOMAIN line : longer[k] = line[k]

LEMMA PlacesAppend ==
  ASSUME NEW line, NEW longer, NEW n, NEW ch, NEW c, Longer(longer, line, n, ch)
  PROVE  /\ Cardinality(Places(line, c)) \in Nat
         /\ Cardinality(Places(longer, c)) = Cardinality(Places(line, c)) + (IF c = ch THEN 1 ELSE 0)
<1>1. IsFiniteSet(Places(line, c)) /\ Cardinality(Places(line, c)) \in Nat
  <2>1. Places(line, c) \in SUBSET DOMAIN line
    BY DEF Places
  <2>2. IsFiniteSet(Places(line, c))
    BY <2>1, FS_Subset DEF Longer
  <2> QED
    BY <2>2, FS_CardinalityType
<1>2. CASE c = ch
  <2>1. Places(longer, c) = Places(line, c) \union {n} /\ n \notin Places(line, c)
    BY <1>2 DEF Places, Longer
  <2>2. Cardinality(Places(line, c) \union {n}) = Cardinality(Places(line, c)) + 1
    BY <1>1, <2>1, FS_AddElement
  <2> QED
    BY <1>1, <1>2, <2>1, <2>2
<1>3. CASE c # ch
  <2>1. Places(longer, c) = Places(line, c)
    BY <1>3 DEF Places, Longer
  <2> QED
    BY <1>1, <1>3, <2>1
<1> QED
  BY <1>1, <1>2, <1>3

(* A new source has not been read.                                         *)
LEMMA NewSourceAdds ==
  ASSUME SourcesInv, NEW kind, NEW key, NEW text \in Seq(Char), NewSource(kind, key, text)
  PROVE  /\ DOMAIN sources' = DOMAIN sources \union {Len(sources) + 1}
         /\ sources'[Len(sources) + 1].got = 0
         /\ \A j \in DOMAIN sources : sources'[j] = sources[j]
         /\ UNCHANGED <<table, generation>>
<1> DEFINE s == [kind |-> kind, key |-> key, text |-> text, got |-> 0, generation |-> generation]
           n == Len(sources) + 1
<1>1. sources' = Append(sources, s) /\ UNCHANGED <<table, generation>> /\ s.got = 0
  BY DEF NewSource
<1> HIDE DEF s
<1>2. sources \in Seq(SourceType)
  BY DEF SourcesInv
<1>3. sources'[n] = s /\ DOMAIN sources' = DOMAIN sources \union {n}
      /\ \A j \in 1..Len(sources) : sources'[j] = sources[j]
  BY <1>1, <1>2, Appended
<1>4. DOMAIN sources = 1..Len(sources)
  BY <1>2
<1> QED
  BY <1>1, <1>3, <1>4

LEMMA FilesKeptStep ==
  LayersInv /\ SourcesInv /\ TableInv /\ FilesKept /\ [Next]_vars => FilesKept'
<1> SUFFICES ASSUME LayersInv, SourcesInv, TableInv, FilesKept, [Next]_vars
             PROVE  FilesKept'
  OBVIOUS
<1>1. ASSUME NEW kind, NEW key, NEW text \in Seq(Char), NewSource(kind, key, text)
      PROVE  FilesKept'
  <2>1. /\ DOMAIN sources' = DOMAIN sources \union {Len(sources) + 1}
        /\ sources'[Len(sources) + 1].got = 0
        /\ \A j \in DOMAIN sources : sources'[j] = sources[j]
        /\ UNCHANGED <<table, generation>>
    BY <1>1, NewSourceAdds
  <2> SUFFICES ASSUME NEW i \in DOMAIN sources' \ Strings', ~Freed(sources[i])', sources'[i].got > 0
               PROVE  KeptOK(table'[sources'[i].key], sources'[i].text, Newline, sources'[i].got)
    BY DEF FilesKept
  <2>2. i \in DOMAIN sources
    BY <2>1
  <2>3. sources'[i] = sources[i] /\ i \notin Strings /\ ~Freed(sources[i])
    BY <2>1, <2>2 DEF Strings, Freed
  <2> QED
    BY <2>1, <2>2, <2>3 DEF FilesKept
<1>2. ASSUME NEW path \in Requests, getFile(path)
      PROVE  FilesKept'
  BY <1>1, <1>2, ConcatenatedType DEF getFile, SourcesInv
<1>3. ASSUME NEW text \in Texts, StringSource(text)
      PROVE  FilesKept'
  BY <1>1, <1>3, FilesAssumption DEF StringSource
<1>4. ASSUME NEW i \in DOMAIN sources, GetChar(i)
      PROVE  FilesKept'
  BY <1>4, ReadKept
<1>5. ASSUME NEW paths \in ModulePaths, SetSystemModulePaths(paths)
      PROVE  FilesKept'
  <2>1. UNCHANGED <<sources, table>> /\ generation' = generation + 1
    BY <1>5 DEF SetSystemModulePaths
  <2>2. ASSUME NEW i \in DOMAIN sources' \ Strings'
        PROVE  Freed(sources[i])'
    <3>1. sources[i] \in SourceType /\ sources[i].generation \in 1..generation /\ generation \in Nat
      BY <2>1 DEF SourcesInv
    <3>2. sources[i].kind = "file"
      BY <2>1, <3>1 DEF SourceType, Strings
    <3> QED
      BY <2>1, <3>1, <3>2 DEF Freed
  <2> QED
    BY <2>2 DEF FilesKept
<1>6. ASSUME UNCHANGED <<sources, table, generation>>
      PROVE  FilesKept'
  BY <1>6 DEF FilesKept, Strings, Freed
<1>7. ASSUME NEW layer, PushOverlay(layer)
      PROVE  FilesKept'
  BY <1>6, <1>7 DEF PushOverlay
<1>8. ASSUME NEW p \in Paths, SetCurrentWorkingDirectory(p)
      PROVE  FilesKept'
  BY <1>6, <1>8 DEF SetCurrentWorkingDirectory
<1>9. ASSUME NEW file \in Physical, NEW text \in Texts \union {NoFile}, WriteFile(file, text)
      PROVE  FilesKept'
  BY <1>6, <1>9 DEF WriteFile
<1>10. CASE UNCHANGED vars
  BY <1>6, <1>10 DEF vars
<1> QED
  BY <1>2, <1>3, <1>4, <1>5, <1>7, <1>8, <1>9, <1>10 DEF Next

LEMMA StringsRead ==
  ASSUME SourcesInv, TableInv, StringsKept, NEW i \in DOMAIN sources, GetChar(i)
  PROVE  StringsKept'
<1>1. PICK ch \in Char, text \in Seq(Char) :
        /\ Read(i, ch, text)
        /\ ~Freed(sources[i]) => /\ ch = sources[i].text[sources[i].got + 1]
                                 /\ text = sources[i].text
  BY GetCharReads
<1>2. /\ DOMAIN sources' = DOMAIN sources /\ Strings' = Strings
      /\ sources'[i].got = sources[i].got + 1 /\ sources'[i].text = text
      /\ \A j \in DOMAIN sources : j # i => sources'[j] = sources[j]
  BY <1>1, ReadSource
<1>3. ASSUME NEW j \in DOMAIN sources
      PROVE  sources[j] \in SourceType /\ sources[j].got \in Nat
  <2>1. sources[j] \in SourceType
    BY DEF SourcesInv
  <2> QED
    BY <2>1 DEF SourceType
<1>4. \A k \in DOMAIN table : table[k] \in Seq(Seq(Char))
  BY DEF TableInv
<1>5. CASE i \notin Strings
  <2>1. sources[i].key # StringKey
    <3>1. sources[i].kind = "file" /\ sources[i].key[1] \in 1..uid
      BY <1>3, <1>5 DEF SourcesInv, SourceType, Strings
    <3> QED
      BY <3>1 DEF StringKey
  <2>2. Entry(StringKey)' = Entry(StringKey)
    BY <1>1, <2>1 DEF Read, Entry
  <2>3. \A j \in Strings : sources'[j] = sources[j]
    BY <1>2, <1>5 DEF Strings
  <2>4. ReadOfStrings' = ReadOfStrings /\ \A r \in ReadOfStrings : r[1] \in Strings
    BY <1>2, <2>3 DEF ReadOfStrings
  <2>5. \A r \in ReadOfStrings : LineIn(r)' = LineIn(r) /\ sources'[r[1]].text = sources[r[1]].text
    BY <2>3, <2>4 DEF LineIn
  <2>6. \A l, c : OnLine(l, c)' = OnLine(l, c)
    BY <2>4, <2>5 DEF OnLine
  <2> QED
    BY <2>2, <2>4, <2>5, <2>6 DEF StringsKept, Counted
<1>6. CASE i \in Strings
  <2>0a. PICK n, l, new : n = sources[i].got + 1 /\ l = LineOf(text, Newline, n) /\ new = <<i, n>>
    OBVIOUS
  <2>0b. PICK lines, longer : lines = Entry(StringKey) /\ longer = Entry(StringKey)'
    OBVIOUS
  <2>1. /\ text = sources[i].text /\ ch = text[n] /\ sources[i].key = StringKey
        /\ n \in Nat /\ sources[i].got \in Nat
    BY <1>1, <1>3, <1>6, <2>0a DEF Freed, Strings, SourcesInv
  <2>2. longer = AddCharacter(lines, l, ch) /\ lines \in Seq(Seq(Char))
    <3>1. << >> \in Seq(Seq(Char))
      OBVIOUS
    <3> QED
      BY <1>1, <1>4, <2>1, <2>0a, <2>0b, <3>1 DEF Read, Entry
  <2>3. l \in Nat \ {0}
    BY <2>1, <2>0a, LineOfType
  <2>4. /\ DOMAIN lines \subseteq DOMAIN longer /\ l \in DOMAIN longer
        /\ LineAt(lines, l) \in Seq(Char)
        /\ LineAt(longer, l) = Append(LineAt(lines, l), ch)
        /\ \A m \in (Nat \ {0}) \ {l} : LineAt(longer, m) = LineAt(lines, m)
    BY <1>1, <2>2, <2>3, LineFilled
  <2>5. ReadOfStrings' = ReadOfStrings \union {new} /\ new \notin ReadOfStrings
    <3>1. 1..n = (1..sources[i].got) \union {n} /\ n \notin 1..sources[i].got
      BY <2>1, <2>0a
    <3>2. \A j \in Strings : j # i => sources'[j] = sources[j]
      BY <1>2 DEF Strings
    <3>3. /\ ReadOfStrings = {r \in Strings \X Nat : r[2] \in 1..sources[r[1]].got}
          /\ ReadOfStrings' = {r \in Strings' \X Nat : r[2] \in 1..sources'[r[1]].got}
      BY DEF ReadOfStrings
    <3>4. ASSUME NEW r \in Strings \X Nat
          PROVE  r[2] \in 1..sources'[r[1]].got <=> r[2] \in 1..sources[r[1]].got \/ r = new
      BY <1>2, <2>0a, <3>1, <3>2
    <3>5. new \in Strings \X Nat /\ ~(new[2] \in 1..sources[new[1]].got)
      BY <1>6, <2>1, <2>0a, <3>1
    <3> QED
      BY <1>2, <3>3, <3>4, <3>5
  <2>6. ASSUME NEW r \in ReadOfStrings
        PROVE  LineIn(r)' = LineIn(r) /\ sources'[r[1]].text = sources[r[1]].text
    <3>1. r[1] \in Strings
      BY DEF ReadOfStrings
    <3>2. sources'[r[1]].text = sources[r[1]].text
      BY <1>2, <2>1, <3>1 DEF Strings
    <3> QED
      BY <3>2 DEF LineIn
  <2>7. LineIn(new)' = l /\ sources'[new[1]].text[new[2]] = ch
    BY <1>2, <2>1, <2>0a DEF LineIn
  <2>8. ASSUME NEW m, NEW c
        PROVE  /\ m = l /\ c = ch => OnLine(m, c)' = OnLine(m, c) \union {new}
               /\ ~(m = l /\ c = ch) => OnLine(m, c)' = OnLine(m, c)
               /\ new \notin OnLine(m, c) /\ IsFiniteSet(OnLine(m, c))
    <3>1. OnLine(m, c) \in SUBSET ReadOfStrings
      BY DEF OnLine
    <3>2. IsFiniteSet(OnLine(m, c))
      BY <3>1, FS_Subset DEF StringsKept
    <3>3. OnLine(m, c)' = {r \in ReadOfStrings' : LineIn(r)' = m /\ sources'[r[1]].text[r[2]] = c}
      BY DEF OnLine
    <3> QED
      BY <2>5, <2>6, <2>7, <3>1, <3>2, <3>3 DEF OnLine
  <2>9. IsFiniteSet(ReadOfStrings')
    BY <2>5, FS_AddElement DEF StringsKept
  <2>10. \A r \in ReadOfStrings' : LineIn(r)' \in DOMAIN longer
    BY <2>0b, <2>4, <2>5, <2>6, <2>7 DEF StringsKept, Counted
  <2>11. ASSUME NEW m \in Nat \ {0}, NEW c \in Char
         PROVE  Cardinality(Places(LineAt(longer, m), c)) = Cardinality(OnLine(m, c)')
    <3>1. Cardinality(Places(LineAt(lines, m), c)) = Cardinality(OnLine(m, c))
      BY <2>0b DEF StringsKept, Counted
    <3>2. CASE m # l
      <4>1. LineAt(longer, m) = LineAt(lines, m)
        BY <2>4, <3>2
      <4>2. OnLine(m, c)' = OnLine(m, c)
        BY <2>8, <3>2
      <4> QED
        BY <3>1, <4>1, <4>2
    <3>3. CASE m = l
      <4>1. Cardinality(Places(LineAt(longer, l), c))
              = Cardinality(Places(LineAt(lines, l), c)) + (IF c = ch THEN 1 ELSE 0)
            /\ Cardinality(Places(LineAt(lines, l), c)) \in Nat
        <5>1. PICK before, after : before = LineAt(lines, l) /\ after = LineAt(longer, l)
          OBVIOUS
        <5>2. PICK n1 : n1 = Len(before) + 1
          OBVIOUS
        <5>3. Longer(after, before, n1, ch)
          <6>1. before \in Seq(Char) /\ after = Append(before, ch) /\ ch \in Char
            BY <1>1, <2>4, <5>1
          <6>2. Len(before) \in Nat /\ DOMAIN before = 1..Len(before) /\ 1 \in Int
            BY <6>1
          <6>3. IsFiniteSet(DOMAIN before)
            BY <6>2, FS_Interval
          <6> QED
            BY <5>2, <6>1, <6>2, <6>3, Appended DEF Longer
        <5>4. Cardinality(Places(after, c)) = Cardinality(Places(before, c)) + (IF c = ch THEN 1 ELSE 0)
              /\ Cardinality(Places(before, c)) \in Nat
          BY <5>3, PlacesAppend
        <5> QED
          BY <5>1, <5>4
      <4>2. CASE c = ch
        <5>1. OnLine(l, c)' = OnLine(l, c) \union {new}
          BY <2>8, <4>2
        <5>2. Cardinality(OnLine(l, c)') = Cardinality(OnLine(l, c)) + 1
          BY <2>8, <5>1, FS_AddElement
        <5> QED
          BY <3>1, <3>3, <4>1, <4>2, <5>2
      <4>3. CASE c # ch
        <5>1. OnLine(l, c)' = OnLine(l, c)
          BY <2>8, <4>3
        <5> QED
          BY <3>1, <3>3, <4>1, <4>3, <5>1
      <4> QED
        BY <4>2, <4>3
    <3> QED
      BY <3>2, <3>3
  <2> QED
    BY <2>0b, <2>9, <2>10, <2>11 DEF StringsKept, Counted
<1> QED
  BY <1>5, <1>6

LEMMA StringsKeptStep ==
  LayersInv /\ SourcesInv /\ TableInv /\ StringsKept /\ [Next]_vars => StringsKept'
<1> SUFFICES ASSUME LayersInv, SourcesInv, TableInv, StringsKept, [Next]_vars
             PROVE  StringsKept'
  OBVIOUS
<1>1. ASSUME NEW kind, NEW key, NEW text \in Seq(Char), NewSource(kind, key, text)
      PROVE  StringsKept'
  <2> DEFINE n == Len(sources) + 1
  <2>1. /\ DOMAIN sources' = DOMAIN sources \union {n} /\ sources'[n].got = 0
        /\ \A j \in DOMAIN sources : sources'[j] = sources[j]
        /\ UNCHANGED table
    BY <1>1, NewSourceAdds
  <2> HIDE DEF n
  <2>2. Strings \subseteq Strings' /\ Strings' \subseteq Strings \union {n}
        /\ \A j \in Strings : sources'[j] = sources[j]
    BY <2>1 DEF Strings
  <2>3. {n} \X (1..sources'[n].got) = {}
    BY <2>1
  <2>4. ReadOfStrings' = ReadOfStrings /\ \A r \in ReadOfStrings : r[1] \in Strings
    BY <2>2, <2>3 DEF ReadOfStrings
  <2>5. \A r \in ReadOfStrings : LineIn(r)' = LineIn(r) /\ sources'[r[1]] = sources[r[1]]
    BY <2>2, <2>4 DEF LineIn
  <2>6. \A l, c : OnLine(l, c)' = OnLine(l, c)
    BY <2>4, <2>5 DEF OnLine
  <2> QED
    BY <2>1, <2>4, <2>5, <2>6 DEF StringsKept, Counted, Entry
<1>2. ASSUME NEW path \in Requests, getFile(path)
      PROVE  StringsKept'
  BY <1>1, <1>2, ConcatenatedType DEF getFile, SourcesInv
<1>3. ASSUME NEW text \in Texts, StringSource(text)
      PROVE  StringsKept'
  BY <1>1, <1>3, FilesAssumption DEF StringSource
<1>4. ASSUME NEW i \in DOMAIN sources, GetChar(i)
      PROVE  StringsKept'
  BY <1>4, StringsRead
<1>5. ASSUME UNCHANGED <<sources, table>>
      PROVE  StringsKept'
  BY <1>5 DEF StringsKept, Counted, Entry, ReadOfStrings, Strings, LineIn, OnLine
<1>6. ASSUME NEW layer, PushOverlay(layer)
      PROVE  StringsKept'
  BY <1>5, <1>6 DEF PushOverlay
<1>7. ASSUME NEW p \in Paths, SetCurrentWorkingDirectory(p)
      PROVE  StringsKept'
  BY <1>5, <1>7 DEF SetCurrentWorkingDirectory
<1>8. ASSUME NEW paths \in ModulePaths, SetSystemModulePaths(paths)
      PROVE  StringsKept'
  BY <1>5, <1>8 DEF SetSystemModulePaths
<1>9. ASSUME NEW file \in Physical, NEW text \in Texts \union {NoFile}, WriteFile(file, text)
      PROVE  StringsKept'
  BY <1>5, <1>9 DEF WriteFile
<1>10. CASE UNCHANGED vars
  BY <1>5, <1>10 DEF vars
<1> QED
  BY <1>2, <1>3, <1>4, <1>6, <1>7, <1>8, <1>9, <1>10 DEF Next

LEMMA KeptInit == Init => FilesKept /\ StringsKept
<1> SUFFICES ASSUME Init
             PROVE  FilesKept /\ StringsKept
  OBVIOUS
<1>1. sources = << >> /\ table = << >> /\ DOMAIN sources = {} /\ DOMAIN table = {}
  BY DEF Init
<1>2. FilesKept
  BY <1>1 DEF FilesKept
<1>3. ReadOfStrings = {}
  BY <1>1 DEF ReadOfStrings, Strings
<1>4. \A l, ch : Places(LineAt(Entry(StringKey), l), ch) = {} /\ OnLine(l, ch) = {}
  BY <1>1, <1>3 DEF Places, LineAt, Entry, OnLine
<1> QED
  BY <1>2, <1>3, <1>4, FS_EmptySet DEF StringsKept, Counted

(* The table keeps what was read, of whatever files and strings, however   *)
(* many lexers take turns and however often the stack is replaced.         *)
THEOREM EntriesCorrect == Spec => []EntriesOK
<1>1. SourcesInv /\ TableInv /\ FilesKept /\ StringsKept => EntriesOK
  <2> SUFFICES ASSUME SourcesInv, TableInv, FilesKept, StringsKept
               PROVE  EntriesOK
    OBVIOUS
  <2>1. ASSUME NEW i \in DOMAIN sources \ Strings, ~Freed(sources[i]), sources[i].got > 0
        PROVE  RecordedIn(table[sources[i].key], sources[i].text, Newline, sources[i].got)
    BY <2>1 DEF FilesKept, KeptOK
  <2>2. ASSUME StringKey \in DOMAIN table
        PROVE  /\ \A r \in ReadOfStrings : LineIn(r) \in DOMAIN table[StringKey]
               /\ \A l \in DOMAIN table[StringKey] : \A ch \in Char :
                    Cardinality(Places(table[StringKey][l], ch)) = Cardinality(OnLine(l, ch))
    <3>1. Entry(StringKey) = table[StringKey] /\ table[StringKey] \in Seq(Seq(Char))
      BY <2>2 DEF Entry, TableInv
    <3>2. DOMAIN table[StringKey] \subseteq Nat \ {0}
      BY <3>1
    <3>3. \A l \in DOMAIN table[StringKey] : LineAt(table[StringKey], l) = table[StringKey][l]
      BY DEF LineAt
    <3> QED
      BY <3>1, <3>2, <3>3 DEF StringsKept, Counted
  <2> QED
    BY <2>1, <2>2 DEF EntriesOK, Places
<1> QED
  BY <1>1, LayersInit, LayersStep, SourcesInit, SourcesStep, KeptInit, FilesKeptStep, StringsKeptStep,
     PTL DEF Spec

=============================================================================
