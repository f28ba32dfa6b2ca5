--------------------------- MODULE InMemoryProofs ---------------------------
(***************************************************************************)
(* For any names, paths and contents: the nodes of an in-memory file       *)
(* system form a tree, what was added stays, and listings are complete.    *)
(***************************************************************************)
EXTENDS InMemoryFS, SequenceTheorems, WellFoundedInduction, TLAPS

-----------------------------------------------------------------------------
(* Lemmas on paths.                                                        *)

(* The way to a node above another one is the beginning of its way.        *)
LEMMA AboveType ==
  ASSUME NEW q \in Seq(Name), NEW k \in 0..(Len(q) - 1)
  PROVE  /\ SubSeq(q, 1, k) \in Seq(Name)
         /\ Len(SubSeq(q, 1, k)) = k
         /\ \A i \in 1..k : SubSeq(q, 1, k)[i] = q[i]
<1>1. \A i \in 1..k : q[i] \in Name
  BY SMTT(30)
<1>2. Len(q) \in Nat /\ k \in Nat
  BY SMTT(30)
<1> QED
  BY <1>1, <1>2, SubSeqProperties, SMTT(60)

LEMMA AboveAbove ==
  ASSUME NEW q \in Seq(Name), NEW r \in Above(q)
  PROVE  /\ r \in Seq(Name)
         /\ r # q
         /\ Above(r) \subseteq Above(q)
<1>1. PICK k \in 0..(Len(q) - 1) : r = SubSeq(q, 1, k)
  BY DEF Above
<1>2. r \in Seq(Name) /\ Len(r) = k /\ \A i \in 1..k : r[i] = q[i]
  BY <1>1, AboveType
<1>3. r # q
  BY <1>2
<1>4. ASSUME NEW j \in 0..(Len(r) - 1)
      PROVE  SubSeq(r, 1, j) = SubSeq(q, 1, j) /\ j \in 0..(Len(q) - 1)
  <2>1. j \in 0..(Len(q) - 1) /\ j \in 0..(k - 1)
    BY <1>2
  <2>2. SubSeq(r, 1, j) \in Seq(Name) /\ Len(SubSeq(r, 1, j)) = j
          /\ \A i \in 1..j : SubSeq(r, 1, j)[i] = r[i]
    BY <1>2, AboveType
  <2>3. SubSeq(q, 1, j) \in Seq(Name) /\ Len(SubSeq(q, 1, j)) = j
          /\ \A i \in 1..j : SubSeq(q, 1, j)[i] = q[i]
    BY <2>1, AboveType
  <2>4. \A i \in 1..j : r[i] = q[i]
    BY <1>2, <2>1
  <2>5. \A i \in 1..Len(SubSeq(r, 1, j)) : SubSeq(r, 1, j)[i] = SubSeq(q, 1, j)[i]
    BY <2>2, <2>3, <2>4
  <2> HIDE DEF Name
  <2>6. SubSeq(r, 1, j) = SubSeq(q, 1, j)
    BY <2>2, <2>3, <2>5, SeqEqual
  <2> QED
    BY <2>1, <2>6
<1> QED
  BY <1>2, <1>3, <1>4 DEF Above

LEMMA AppendType ==
  ASSUME NEW q \in Seq(Name), NEW n \in Name
  PROVE  Append(q, n) \in Seq(Name) /\ Append(q, n) # << >>
<1>1. Append(q, n) \in Seq(Name) /\ Len(Append(q, n)) = Len(q) + 1
  OBVIOUS
<1>2. Len(q) + 1 # 0
  BY LenProperties
<1>3. Len(<< >>) = 0
  OBVIOUS
<1> QED
  BY <1>1, <1>2, <1>3

(* The nodes above an entry are its directory and those above that.        *)
LEMMA AboveAppend ==
  ASSUME NEW q \in Seq(Name), NEW n \in Name
  PROVE  Above(Append(q, n)) = Above(q) \union {q}
<1> DEFINE r == Append(q, n)
<1>1. r \in Seq(Name) /\ Len(r) = Len(q) + 1 /\ \A i \in 1..Len(q) : r[i] = q[i]
  OBVIOUS
<1>2. ASSUME NEW k \in 0..Len(q)
      PROVE  SubSeq(r, 1, k) = SubSeq(q, 1, k)
  <2>1. \A i \in 1..k : q[i] \in Name
    OBVIOUS
  <2>2. SubSeq(r, 1, k) \in Seq(Name) /\ Len(SubSeq(r, 1, k)) = k
          /\ \A i \in 1..k : SubSeq(r, 1, k)[i] = r[i]
    BY <1>1, AboveType
  <2>3. SubSeq(q, 1, k) \in Seq(Name) /\ Len(SubSeq(q, 1, k)) = k
          /\ \A i \in 1..k : SubSeq(q, 1, k)[i] = q[i]
    BY <2>1, SubSeqProperties, SMTT(60)
  <2>4. \A i \in 1..Len(SubSeq(r, 1, k)) : SubSeq(r, 1, k)[i] = SubSeq(q, 1, k)[i]
    BY <1>1, <2>2, <2>3
  <2> HIDE DEF r, Name
  <2> QED
    BY <2>2, <2>3, <2>4, SeqEqual
<1>3. SubSeq(q, 1, Len(q)) = q
  BY SubSeqFull
<1>4. Above(r) = {SubSeq(q, 1, k) : k \in 0..Len(q)}
  <2>1. 0..(Len(r) - 1) = 0..Len(q)
    BY <1>1
  <2> HIDE DEF r
  <2> QED
    BY <1>2, <2>1 DEF Above
<1>5. 0..Len(q) = 0..(Len(q) - 1) \union {Len(q)}
  BY LenProperties
<1> QED
  BY <1>3, <1>4, <1>5 DEF Above

(* Every path that a client passes denotes a sequence of names.            *)
LEMMA ResolveType ==
  ASSUME NEW p \in Paths, wd \in Seq(Name)
  PROVE  Resolve(p) \in Seq(Name)
<1> DEFINE Lower == Name \ {"", "/"}
<1>0. p.up \in Nat /\ p.rest \in Seq(Lower) /\ "/" \in Name
  <2> HIDE DEF Lower
  <2>1. Paths \subseteq [abs : BOOLEAN, up : Nat, rest : Seq(Lower)]
    BY InMemoryAssumption DEF Lower
  <2> QED
    BY <2>1, InMemoryAssumption
<1>1. p.up \in Nat /\ p.rest \in Seq(Name) /\ "/" \in Name
  BY <1>0, SeqMonotonic
<1>2. Climb(wd, p.up) \in Seq(Name)
  <2> DEFINE n == IF wd # << >> /\ wd[1] = "/" /\ p.up >= Len(wd) THEN 1 ELSE Len(wd) - p.up
  <2>1. n \in Int /\ \A i \in 1..n : wd[i] \in Name
    BY <1>1
  <2> HIDE DEF n
  <2>2. SubSeq(wd, 1, n) \in Seq(Name)
    BY <2>1, SubSeqProperties
  <2> QED
    BY <2>2 DEF Climb, n
<1> HIDE DEF Name
<1> QED
  BY <1>1, <1>2, ConcatProperties DEF Resolve

-----------------------------------------------------------------------------
(* Lemmas on listings.                                                     *)

LEMMA OrderFacts ==
  DOMAIN Order \subseteq Nat /\ \A i, j \in DOMAIN Order : Order[i] = Order[j] => i = j
<1>1. Order \in Seq(STRING)
  BY InMemoryAssumption
<1>2. DOMAIN Order = 1..Len(Order) /\ Len(Order) \in Nat
  BY <1>1, LenProperties
<1>3. DOMAIN Order \subseteq Nat
  BY <1>2
<1>4. \A i, j \in DOMAIN Order : Order[i] = Order[j] => i = j
  BY InMemoryAssumption, Zenon
<1> QED
  BY <1>3, <1>4

LEMMA BeforeOrder ==
  /\ \A m \in Name : ~Before(m, m)
  /\ \A m, n, l \in Name : Before(m, n) /\ Before(n, l) => Before(m, l)
  /\ \A m, n \in Name : m # n => Before(m, n) \/ Before(n, m)
<1>1. DOMAIN Order \subseteq Nat /\ \A i, j \in DOMAIN Order : Order[i] = Order[j] => i = j
  BY OrderFacts
<1>2. \A m \in Name : ~Before(m, m)
  BY <1>1 DEF Before
<1>3. \A m, n, l \in Name : Before(m, n) /\ Before(n, l) => Before(m, l)
  BY <1>1 DEF Before
<1>4. \A m, n \in Name : m # n => Before(m, n) \/ Before(n, m)
  BY <1>1 DEF Before, Name
<1> QED
  BY <1>2, <1>3, <1>4

(* Among names there is a first one, and FirstOf() finds it.               *)
LEMMA FirstIsFirst ==
  ASSUME NEW names \in SUBSET Name, names # {}
  PROVE  /\ FirstOf(names) \in names
         /\ \A m \in names \ {FirstOf(names)} : Before(FirstOf(names), m)
<1> DEFINE places == {i \in DOMAIN Order : Order[i] \in names}
           Less == OpToRel(<, Nat)
<1>1. DOMAIN Order \subseteq Nat /\ \A i, j \in DOMAIN Order : Order[i] = Order[j] => i = j
  BY OrderFacts
<1>2. places \subseteq Nat /\ places # {}
  BY <1>1 DEF Name
<1>3. PICK i \in places : \A j \in places : <<j, i>> \notin Less
  <2> HIDE DEF places, Less
  <2>1. IsWellFoundedOn(Less, Nat)
    BY NatLessThanWellFounded DEF Less
  <2> QED
    BY <1>2, <2>1, WFMin
<1>4. \A j \in places : i <= j
  <2>1. Less = {ss \in Nat \X Nat : ss[1] < ss[2]}
    BY DEF OpToRel
  <2> HIDE DEF places, Less
  <2> SUFFICES ASSUME NEW j \in places PROVE i <= j
    OBVIOUS
  <2>2. i \in Nat /\ j \in Nat /\ <<j, i>> \notin Less
    BY <1>2, <1>3
  <2>3. j < i => <<j, i>> \in Less
    BY <2>1, <2>2
  <2> QED
    BY <2>2, <2>3
<1>5. \A m \in names \ {Order[i]} : Before(Order[i], m)
  <2> SUFFICES ASSUME NEW m \in names \ {Order[i]} PROVE Before(Order[i], m)
    OBVIOUS
  <2>1. PICK j \in DOMAIN Order : Order[j] = m
    BY DEF Name
  <2>2. i <= j /\ i # j
    BY <1>4, <2>1
  <2> QED
    BY <1>1, <2>1, <2>2 DEF Before
<1>6. \E n \in names : \A m \in names \ {n} : Before(n, m)
  BY <1>5
<1> QED
  BY <1>6 DEF FirstOf

-----------------------------------------------------------------------------
(* Adding a file.                                                          *)

NodesType ==
  /\ DOMAIN nodes \subseteq Seq(Name)
  /\ \A q \in DOMAIN nodes : nodes[q] \in Contents \union {Directory}

(* No node is lost or changed.                                             *)
Kept ==
  /\ DOMAIN nodes \subseteq DOMAIN nodes'
  /\ \A r \in DOMAIN nodes : nodes'[r] = nodes[r]

(* The place of a new file: no file is above it.                           *)
LEMMA PlaceFacts ==
  ASSUME NEW path \in Seq(Name), path # << >>, ~BlockedByFile(path)
  PROVE  /\ Place(path) \in Seq(Name) /\ Place(path) # << >>
         /\ \A r \in Above(Place(path)) : ~IsFile(r)
         /\ \/ Place(path) = path
            \/ IsDir(path) /\ Place(path) = Append(path, "") /\ path \in Above(Place(path))
<1>1. CASE Found(path) /\ IsDir(path)
  <2>1. Place(path) = Append(path, "") /\ "" \in Name
    BY <1>1, InMemoryAssumption DEF Place
  <2>2. Above(Place(path)) = Above(path) \union {path}
    BY <2>1, AboveAppend
  <2>3. ~IsFile(path)
    BY <1>1 DEF IsFile, IsDir
  <2>4. Append(path, "") \in Seq(Name) /\ Append(path, "") # << >>
    BY <2>1, AppendType
  <2> QED
    BY <1>1, <2>1, <2>2, <2>3, <2>4, Zenon DEF BlockedByFile
<1>2. CASE ~(Found(path) /\ IsDir(path))
  <2>1. Place(path) = path
    BY <1>2 DEF Place
  <2> QED
    BY <2>1, Zenon DEF BlockedByFile
<1> QED
  BY <1>1, <1>2

LEMMA InsertKeepsTree ==
  ASSUME NodesType, Tree,
         NEW q \in Seq(Name), q # << >>, q \notin DOMAIN nodes, \A r \in Above(q) : ~IsFile(r),
         NEW c \in Contents, Insert(q, c)
  PROVE  /\ NodesType' /\ Tree' /\ Kept
         /\ q \in DOMAIN nodes' /\ nodes'[q] = c
         /\ \A r \in DOMAIN nodes' : r \notin DOMAIN nodes /\ r # q => nodes'[r] = Directory
<1>1. DOMAIN nodes' = DOMAIN nodes \union Above(q) \union {q}
  BY DEF Insert
<1>2. \A r \in DOMAIN nodes' :
        nodes'[r] = IF r = q THEN c ELSE IF r \in DOMAIN nodes THEN nodes[r] ELSE Directory
  BY DEF Insert
<1>3. Kept
  BY <1>1, <1>2 DEF Kept
<1>4. Above(q) \subseteq Seq(Name)
  BY AboveAbove
<1>5. NodesType'
  BY <1>1, <1>2, <1>4 DEF NodesType
<1>6. ASSUME NEW s, IsDir(s)
      PROVE  IsDir(s)'
  BY <1>1, <1>2, <1>6 DEF IsDir
<1>7. ASSUME NEW s \in Above(q)
      PROVE  IsDir(s)'
  <2>1. s # q
    BY AboveAbove
  <2>2. s \in DOMAIN nodes => nodes[s] = Directory
    BY DEF IsFile
  <2> QED
    BY <1>1, <1>2, <2>1, <2>2 DEF IsDir
<1>8. IsDir(<< >>)'
  BY <1>6 DEF Tree
<1>9. ASSUME NEW r \in DOMAIN nodes', NEW s \in Above(r)
      PROVE  IsDir(s)'
  <2>1. CASE r \in DOMAIN nodes
    BY <1>6, <2>1 DEF Tree
  <2>2. CASE r \in Above(q)
    <3>1. s \in Above(q)
      BY <2>2, AboveAbove
    <3> QED
      BY <1>7, <3>1
  <2>3. CASE r = q
    BY <1>7, <2>3
  <2> QED
    BY <1>1, <2>1, <2>2, <2>3
<1>10. Tree'
  BY <1>8, <1>9 DEF Tree, IsDir
<1> QED
  BY <1>1, <1>2, <1>3, <1>5, <1>10

(* What addFile() does when it returns true, in the terms of the proofs.   *)
LEMMA AddFileFacts ==
  ASSUME NodesType, Tree, wd \in Seq(Name),
         NEW p \in Paths, NEW c \in Contents, AddFile(p, c)
  PROVE  \E path \in Seq(Name) : \E q \in Seq(Name) :
           /\ NodesType' /\ Tree' /\ Kept
           /\ added' = added \union {<<path, c, IsDir(path)>>}
           /\ q = path \/ (IsDir(path) /\ q = Append(path, ""))
           /\ q \in DOMAIN nodes' /\ nodes'[q] = c
           /\ \/ nodes' = nodes
              \/ /\ q \notin DOMAIN nodes
                 /\ \A r \in Above(q) : ~IsFile(r)
                 /\ \A r \in DOMAIN nodes' : r \notin DOMAIN nodes /\ r # q => nodes'[r] = Directory
<1> DEFINE path == Resolve(p)
           q == Place(path)
<1>1. path \in Seq(Name) /\ path # << >> /\ ~BlockedByFile(path)
  BY ResolveType DEF AddFile
<1>2. /\ q \in Seq(Name) /\ q # << >>
      /\ \A r \in Above(q) : ~IsFile(r)
      /\ q = path \/ (IsDir(path) /\ q = Append(path, ""))
  BY <1>1, PlaceFacts
<1>3. \/ q \notin DOMAIN nodes /\ Insert(q, c) /\ added' = added \union {<<path, c, IsDir(path)>>}
      \/ SameFile(q, c) /\ nodes' = nodes /\ added' = added \union {<<path, c, IsDir(path)>>}
  BY DEF AddFile
<1> HIDE DEF path, q
<1>4. CASE q \notin DOMAIN nodes /\ Insert(q, c) /\ added' = added \union {<<path, c, IsDir(path)>>}
  <2>1. /\ NodesType' /\ Tree' /\ Kept
        /\ q \in DOMAIN nodes' /\ nodes'[q] = c
        /\ \A r \in DOMAIN nodes' : r \notin DOMAIN nodes /\ r # q => nodes'[r] = Directory
    BY <1>2, <1>4, InsertKeepsTree
  <2> QED
    BY <1>1, <1>2, <1>4, <2>1
<1>5. CASE SameFile(q, c) /\ nodes' = nodes /\ added' = added \union {<<path, c, IsDir(path)>>}
  <2>1. NodesType' /\ Tree' /\ Kept
    BY <1>5 DEF NodesType, Tree, Kept, IsDir
  <2>2. q \in DOMAIN nodes' /\ nodes'[q] = c
    BY <1>5 DEF SameFile, IsFile
  <2> QED
    BY <1>1, <1>2, <1>5, <2>1, <2>2
<1> QED
  BY <1>3, <1>4, <1>5

-----------------------------------------------------------------------------
(* The invariants of the tree.                                             *)

TreeInv ==
  /\ NodesType /\ Tree /\ AddedKept
  /\ wd \in Seq(Name) /\ added \subseteq Seq(Name) \X Contents \X BOOLEAN

LEMMA TreeInit == Init => TreeInv
<1> SUFFICES ASSUME Init PROVE TreeInv
  OBVIOUS
<1>1. DOMAIN nodes = {<< >>} /\ nodes[<< >>] = Directory /\ wd = << >> /\ added = {}
  BY DEF Init
<1>2. << >> \in Seq(Name)
  OBVIOUS
<1>3. Above(<< >>) = {}
  BY DEF Above
<1> QED
  BY <1>1, <1>2, <1>3 DEF TreeInv, NodesType, Tree, AddedKept, IsDir

(* Nothing that is kept can stop being found.                              *)
LEMMA KeptFound ==
  ASSUME Kept
  PROVE  /\ \A q : IsDir(q) => IsDir(q)'
         /\ \A q, c : Holds(q, c) => Holds(q, c)'
<1>1. \A q : IsDir(q) => IsDir(q)'
  BY DEF Kept, IsDir
<1>2. \A q : Found(q) => Found(q)'
  BY <1>1 DEF Found, Kept
<1>3. \A q, c : Holds(q, c) => Holds(q, c)'
  BY <1>2 DEF Holds, IsFile, Found, Kept
<1> QED
  BY <1>1, <1>3

LEMMA TreeStep == TreeInv /\ [Next]_vars => TreeInv'
<1> SUFFICES ASSUME TreeInv, [Next]_vars PROVE TreeInv'
  OBVIOUS
<1> USE DEF TreeInv
<1>1. ASSUME NEW p \in Paths, NEW c \in Contents, AddFile(p, c)
      PROVE  TreeInv'
  <2>1. PICK path \in Seq(Name), q \in Seq(Name) :
          /\ NodesType' /\ Tree' /\ Kept
          /\ added' = added \union {<<path, c, IsDir(path)>>}
          /\ q = path \/ (IsDir(path) /\ q = Append(path, ""))
          /\ q \in DOMAIN nodes' /\ nodes'[q] = c
    BY <1>1, AddFileFacts
  <2>2. Holds(q, c)'
    <3>1. IsFile(q)'
      BY <2>1, InMemoryAssumption DEF IsFile
    <3> QED
      BY <2>1, <3>1 DEF Holds, Found, Tree
  <2>3. AddedKept'
    <3> SUFFICES ASSUME NEW a \in added'
                 PROVE  ~a[3] => Holds(a[1], a[2])'
      BY DEF AddedKept
    <3>1. CASE a \in added
      BY <2>1, <3>1, KeptFound, Zenon DEF AddedKept
    <3>2. CASE a = <<path, c, IsDir(path)>>
      <4>1. a[1] = path /\ a[2] = c /\ (~a[3] => ~IsDir(path))
        BY <3>2
      <4> QED
        BY <2>1, <2>2, <4>1
    <3> QED
      BY <2>1, <3>1, <3>2
  <2>4. wd' = wd
    BY <1>1 DEF AddFile
  <2>5. added' \subseteq Seq(Name) \X Contents \X BOOLEAN
    <3>1. added' = added \union {<<path, c, IsDir(path)>>}
      BY <2>1
    <3>2. IsDir(path) \in BOOLEAN
      BY DEF IsDir
    <3> QED
      BY <3>1, <3>2
  <2> QED
    BY <2>1, <2>3, <2>4, <2>5
<1>2. ASSUME NEW p \in Paths, setCurrentWorkingDirectory(p)
      PROVE  TreeInv'
  <2>1. wd' \in Seq(Name) /\ nodes' = nodes /\ added' = added
    BY <1>2, ResolveType DEF setCurrentWorkingDirectory
  <2> QED
    BY <2>1 DEF NodesType, Tree, AddedKept, Holds, Found, IsDir, IsFile
<1>3. ASSUME (\E p \in Paths : DirBegin(p)) \/ Increment \/ UNCHANGED vars
      PROVE  TreeInv'
  <2>1. nodes' = nodes /\ added' = added /\ wd' = wd
    BY <1>3 DEF DirBegin, Increment, vars
  <2> QED
    BY <2>1 DEF NodesType, Tree, AddedKept, Holds, Found, IsDir, IsFile
<1> QED
  BY <1>1, <1>2, <1>3 DEF Next

(* TreeCorrect: whatever clients add, each node hangs in a directory.      *)
THEOREM TreeCorrect == Spec => []Tree
<1>1. Spec => []TreeInv
  BY TreeInit, TreeStep, PTL DEF Spec
<1>2. TreeInv => Tree
  BY DEF TreeInv
<1> QED
  BY <1>1, <1>2, PTL

(* AddedStays: a file that addFile() accepted at a path that was no        *)
(* directory can be opened there ever after, with its content.             *)
THEOREM AddedStays == Spec => []AddedKept
<1>1. Spec => []TreeInv
  BY TreeInit, TreeStep, PTL DEF Spec
<1>2. TreeInv => AddedKept
  BY DEF TreeInv
<1> QED
  BY <1>1, <1>2, PTL

-----------------------------------------------------------------------------
(* Refinement of FileStore.                                                *)

LEMMA StoreInit == Init => Store!Init
<1> SUFFICES ASSUME Init PROVE Store!Init
  OBVIOUS
<1>1. {r \in DOMAIN nodes : nodes[r] # Directory} = {}
  BY DEF Init
<1> QED
  BY <1>1 DEF Files, Store!Init

LEMMA StoreStep == TreeInv /\ [Next]_vars => [Store!Next]_Files
<1> SUFFICES ASSUME TreeInv, [Next]_vars PROVE Store!Next \/ Files' = Files
  BY DEF Store!Next
<1>1. ASSUME NEW p \in Paths, NEW c \in Contents, AddFile(p, c)
      PROVE  Store!Next \/ Files' = Files
  <2>1. PICK q \in Seq(Name) :
          /\ Kept /\ q \in DOMAIN nodes' /\ nodes'[q] = c
          /\ \/ nodes' = nodes
             \/ /\ q \notin DOMAIN nodes
                /\ \A r \in Above(q) : ~IsFile(r)
                /\ \A r \in DOMAIN nodes' : r \notin DOMAIN nodes /\ r # q => nodes'[r] = Directory
    BY <1>1, AddFileFacts DEF TreeInv
  <2>2. CASE nodes' = nodes
    BY <2>2 DEF Files
  <2>3. CASE /\ q \notin DOMAIN nodes
             /\ \A r \in Above(q) : ~IsFile(r)
             /\ \A r \in DOMAIN nodes' : r \notin DOMAIN nodes /\ r # q => nodes'[r] = Directory
    <3>1. c # Directory
      BY InMemoryAssumption
    <3>2. DOMAIN Files' = DOMAIN Files \union {q}
      BY <2>1, <2>3, <3>1 DEF Files, Kept
    <3>3. \A r \in DOMAIN Files' : Files'[r] = IF r = q THEN c ELSE Files[r]
      BY <2>1, <2>3, <3>1 DEF Files, Kept
    <3>4. Files' = [r \in DOMAIN Files \union {q} |-> IF r = q THEN c ELSE Files[r]]
      BY <3>2, <3>3 DEF Files
    <3>5. ASSUME NEW r \in DOMAIN Files
          PROVE  ~Store!Under(q, r) /\ ~Store!Under(r, q)
      <4>1. r \in DOMAIN nodes /\ nodes[r] # Directory /\ r \in Seq(Name)
        BY DEF Files, TreeInv, NodesType
      <4>2. r \notin Above(q)
        BY <2>3, <4>1 DEF IsFile
      <4>3. q \notin Above(r)
        BY <2>3, <4>1 DEF TreeInv, Tree, IsDir
      <4>4. SubSeq(q, 1, Len(q)) = q /\ SubSeq(r, 1, Len(r)) = r
        BY <4>1, SubSeqFull
      <4>5. Len(q) \in Nat /\ Len(r) \in Nat
        BY <4>1, LenProperties
      <4>6. ASSUME NEW k \in 0..Len(q) PROVE r # SubSeq(q, 1, k)
        <5>1. k = Len(q) \/ k \in 0..(Len(q) - 1)
          BY <4>5
        <5> QED
          BY <2>3, <4>1, <4>2, <4>4, <5>1, Zenon DEF Above
      <4>7. ASSUME NEW k \in 0..Len(r) PROVE q # SubSeq(r, 1, k)
        <5>1. k = Len(r) \/ k \in 0..(Len(r) - 1)
          BY <4>5
        <5> QED
          BY <2>3, <4>1, <4>3, <4>4, <5>1, Zenon DEF Above
      <4> QED
        BY <4>6, <4>7 DEF Store!Under
    <3>6. q \in DOMAIN Files' /\ Files'[q] = c
      BY <3>2, <3>3
    <3> QED
      BY <3>4, <3>5, <3>6 DEF Store!Next, Store!Put
  <2> QED
    BY <2>1, <2>2, <2>3
<1>2. ASSUME \/ \E p \in Paths : setCurrentWorkingDirectory(p) \/ DirBegin(p)
             \/ Increment \/ UNCHANGED vars
      PROVE  Files' = Files
  <2>1. nodes' = nodes
    BY <1>2 DEF setCurrentWorkingDirectory, DirBegin, Increment, vars
  <2> QED
    BY <2>1 DEF Files
<1> QED
  BY <1>1, <1>2 DEF Next

(* Implements: an in-memory file system is a store in which files are only *)
(* added, each away from all others.                                       *)
THEOREM Implements == Spec => ImplementsStore
<1>1. Spec => []TreeInv
  BY TreeInit, TreeStep, PTL DEF Spec
<1> QED
  BY <1>1, StoreInit, StoreStep, PTL DEF Spec, ImplementsStore, Store!Spec

-----------------------------------------------------------------------------
(* Listings.                                                               *)

Iterators ==
  [dir : Seq(Name), cur : Name \union {End}, listed : Seq(Name), due : SUBSET Name]

Given(i) == {i.listed[k] : k \in DOMAIN i.listed}

Sorted(i) == \A k, l \in DOMAIN i.listed : k < l => Before(i.listed[k], i.listed[l])

(* A listing that runs stands at the last name it gave, and everything     *)
(* that is due was given or comes later.                                   *)
ListingInv(i) ==
  /\ i \in Iterators
  /\ Sorted(i)
  /\ Given(i) \subseteq Entries(i.dir) /\ i.due \subseteq Entries(i.dir)
  /\ i.cur # End => /\ i.listed # << >> /\ i.cur = i.listed[Len(i.listed)]
                    /\ \A n \in i.due : n \in Given(i) \/ Before(i.cur, n)
  /\ i.cur = End => i.due \subseteq Given(i)

LEMMA AppendGiven ==
  ASSUME NEW i \in Iterators, NEW n \in Name, NEW j \in Iterators,
         j.listed = Append(i.listed, n)
  PROVE  /\ Given(j) = Given(i) \union {n}
         /\ j.listed # << >> /\ j.listed[Len(j.listed)] = n
         /\ Sorted(i) /\ (\A g \in Given(i) : Before(g, n)) => Sorted(j)
<1> DEFINE s == i.listed
           t == j.listed
<1>1. s \in Seq(Name) /\ t = Append(s, n)
  BY DEF Iterators
<1>2. Len(t) = Len(s) + 1 /\ Len(s) \in Nat /\ t[Len(s) + 1] = n /\ \A k \in 1..Len(s) : t[k] = s[k]
  BY <1>1
<1>3. DOMAIN t = 1..(Len(s) + 1) /\ DOMAIN s = 1..Len(s)
  BY <1>1, <1>2, LenProperties
<1> HIDE DEF s, t
<1>4. {t[k] : k \in DOMAIN t} = {s[k] : k \in DOMAIN s} \union {n}
  BY <1>2, <1>3
<1>5. t # << >>
  BY <1>2, <1>1, AppendType
<1>6. ASSUME \A k, l \in DOMAIN s : k < l => Before(s[k], s[l]),
             \A k \in DOMAIN s : Before(s[k], n)
      PROVE  \A k, l \in DOMAIN t : k < l => Before(t[k], t[l])
  <2> SUFFICES ASSUME NEW k \in DOMAIN t, NEW l \in DOMAIN t, k < l
               PROVE  Before(t[k], t[l])
    OBVIOUS
  <2>1. k \in DOMAIN s /\ t[k] = s[k]
    BY <1>2, <1>3
  <2>2. CASE l \in DOMAIN s
    BY <1>2, <1>3, <1>6, <2>1, <2>2
  <2>3. CASE l = Len(s) + 1
    BY <1>2, <1>6, <2>1, <2>3
  <2> QED
    BY <1>2, <1>3, <2>2, <2>3
<1> QED
  BY <1>2, <1>4, <1>5, <1>6 DEF Given, Sorted, s, t

LEMMA SetEnd ==
  ASSUME NEW i \in Iterators, NEW n \in Name \union {End}, NEW j, j = [i EXCEPT !.cur = n]
  PROVE  j \in Iterators /\ j.cur = n /\ j.listed = i.listed /\ j.dir = i.dir /\ j.due = i.due
  BY DEF Iterators

LEMMA SetNext ==
  ASSUME NEW i \in Iterators, NEW n \in Name, n # End, NEW j, j = MoveTo(i, n)
  PROVE  /\ j \in Iterators /\ j.listed = Append(i.listed, n) /\ j.dir = i.dir /\ j.due = i.due
         /\ j.cur = n
<1> DEFINE s == Append(i.listed, n)
<1>1. j = [i EXCEPT !.cur = n, !.listed = s]
  BY DEF MoveTo
<1>2. s \in Seq(Name)
  BY AppendType DEF Iterators
<1> HIDE DEF s
<1>3. j \in Iterators /\ j.cur = n /\ j.listed = s /\ j.dir = i.dir /\ j.due = i.due
  BY <1>1, <1>2 DEF Iterators
<1> QED
  BY <1>3 DEF s

(* Moving to the first of the names that come after those given.           *)
LEMMA MoveKeeps ==
  ASSUME NEW i \in Iterators, Sorted(i),
         Given(i) \subseteq Entries(i.dir), i.due \subseteq Entries(i.dir),
         NEW rest \in SUBSET Entries(i.dir),
         \A g \in Given(i), m \in rest : Before(g, m),
         i.due \subseteq Given(i) \union rest
  PROVE  ListingInv(MoveTo(i, FirstOf(rest)))
<1> DEFINE n == FirstOf(rest)
           j == MoveTo(i, n)
<1>1. CASE rest = {}
  <2>1. j = [i EXCEPT !.cur = End]
    BY <1>1 DEF MoveTo, FirstOf
  <2>2. j \in Iterators /\ j.listed = i.listed /\ j.dir = i.dir /\ j.due = i.due /\ j.cur = End
    <3> HIDE DEF j
    <3>1. End \in Name \union {End}
      OBVIOUS
    <3> QED
      BY <2>1, <3>1, SetEnd, Zenon
  <2> HIDE DEF j
  <2>3. ListingInv(j)
    BY <1>1, <2>2 DEF ListingInv, Given, Sorted
  <2> QED
    BY <2>3 DEF j
<1>2. CASE rest # {}
  <2>1. n \in rest /\ n \in Name /\ n # End /\ \A m \in rest \ {n} : Before(n, m)
    <3>1. rest \in SUBSET Name
      BY DEF Entries
    <3> QED
      BY <1>2, <3>1, FirstIsFirst, InMemoryAssumption
  <2> HIDE DEF n
  <2>2. j = MoveTo(i, n)
    OBVIOUS
  <2> HIDE DEF j
  <2>4. /\ j \in Iterators /\ j.listed = Append(i.listed, n) /\ j.dir = i.dir /\ j.due = i.due
        /\ j.cur = n
    BY <2>1, <2>2, SetNext
  <2>5. /\ Given(j) = Given(i) \union {n}
        /\ j.listed # << >> /\ j.listed[Len(j.listed)] = n
        /\ Sorted(j)
    BY <2>1, <2>4, AppendGiven
  <2>6. \A d \in j.due : d \in Given(j) \/ Before(j.cur, d)
    BY <2>1, <2>4, <2>5
  <2>7. Given(j) \subseteq Entries(j.dir) /\ j.due \subseteq Entries(j.dir)
    BY <2>1, <2>4, <2>5
  <2>8. ListingInv(j)
    BY <2>1, <2>4, <2>5, <2>6, <2>7 DEF ListingInv
  <2> QED
    BY <2>8 DEF j, n
<1> QED
  BY <1>1, <1>2

LEMMA ListingInit == Init => ListingInv(iter)
<1> SUFFICES ASSUME Init PROVE ListingInv(iter)
  OBVIOUS
<1>1. iter = [dir |-> << >>, cur |-> End, listed |-> << >>, due |-> {}]
  BY DEF Init, NoListing, Begin
<1>2. iter \in Iterators
  BY <1>1 DEF Iterators
<1>3. Given(iter) = {} /\ Sorted(iter)
  BY <1>1 DEF Given, Sorted
<1> QED
  BY <1>1, <1>2, <1>3 DEF ListingInv

LEMMA ListingStep == TreeInv /\ ListingInv(iter) /\ [Next]_vars => ListingInv(iter)'
<1> SUFFICES ASSUME TreeInv, ListingInv(iter), [Next]_vars PROVE ListingInv(iter)'
  OBVIOUS
<1>1. ASSUME NEW p \in Paths, NEW c \in Contents, AddFile(p, c)
      PROVE  ListingInv(iter)'
  <2>1. iter' = iter
    BY <1>1 DEF AddFile
  <2>2. Kept
    BY <1>1, AddFileFacts DEF TreeInv
  <2>3. Entries(iter.dir) \subseteq Entries(iter.dir)'
    BY <2>1, <2>2 DEF Kept, Entries
  <2> QED
    BY <2>1, <2>3 DEF ListingInv, Given, Sorted
<1>2. ASSUME NEW p \in Paths, DirBegin(p)
      PROVE  ListingInv(iter)'
  <2> DEFINE names == Entries(Resolve(p))
             i == Begin(Resolve(p), names)
  <2>1. Resolve(p) \in Seq(Name) /\ names \subseteq Name /\ nodes' = nodes
    BY <1>2, ResolveType DEF TreeInv, Entries, DirBegin
  <2>2. i = [dir |-> Resolve(p), cur |-> End, listed |-> << >>, due |-> names]
    BY DEF Begin
  <2> HIDE DEF names, i
  <2>3. i \in Iterators /\ Given(i) = {} /\ Sorted(i) /\ i.dir = Resolve(p) /\ i.due = names
    BY <2>1, <2>2 DEF Iterators, Given, Sorted
  <2>4. ListingInv(MoveTo(i, FirstOf(names)))
    BY <2>3, MoveKeeps DEF names
  <2>5. ListingInv(NoListing)
    <3>1. NoListing = [dir |-> << >>, cur |-> End, listed |-> << >>, due |-> {}]
      BY DEF NoListing, Begin
    <3>2. NoListing \in Iterators /\ Given(NoListing) = {} /\ Sorted(NoListing)
      BY <3>1 DEF Iterators, Given, Sorted
    <3> QED
      BY <3>1, <3>2 DEF ListingInv
  <2>6. ListingInv(iter')
    BY <1>2, <2>4, <2>5 DEF DirBegin, names, i
  <2> QED
    BY <2>1, <2>6 DEF ListingInv, Given, Sorted, Entries
<1>3. CASE Increment
  <2>1. iter.cur # End /\ iter' = MoveTo(iter, FirstOf(Later)) /\ nodes' = nodes
    BY <1>3 DEF Increment
  <2>2. /\ iter \in Iterators /\ Sorted(iter)
        /\ Given(iter) \subseteq Entries(iter.dir) /\ iter.due \subseteq Entries(iter.dir)
        /\ iter.listed # << >> /\ iter.cur = iter.listed[Len(iter.listed)]
        /\ \A n \in iter.due : n \in Given(iter) \/ Before(iter.cur, n)
    BY <2>1 DEF ListingInv
  <2>3. Later \subseteq Entries(iter.dir) /\ \A m \in Later : Before(iter.cur, m)
    BY DEF Later
  <2>4. ASSUME NEW g \in Given(iter)
        PROVE  g = iter.cur \/ Before(g, iter.cur)
    <3>1. iter.listed \in Seq(Name)
      BY <2>2 DEF Iterators
    <3>2. DOMAIN iter.listed = 1..Len(iter.listed) /\ Len(iter.listed) \in Nat \ {0}
      BY <2>2, <3>1, LenProperties, EmptySeq
    <3>3. PICK k \in DOMAIN iter.listed : g = iter.listed[k]
      BY DEF Given
    <3>4. k = Len(iter.listed) \/ k < Len(iter.listed)
      BY <3>2
    <3> QED
      BY <2>2, <3>2, <3>3, <3>4 DEF Sorted
  <2>5. \A g \in Given(iter), m \in Later : Before(g, m)
    <3>1. Given(iter) \subseteq Name /\ Later \subseteq Name /\ iter.cur \in Name
      BY <2>1, <2>2 DEF Entries, Later, Iterators
    <3> QED
      BY <2>3, <2>4, <3>1, BeforeOrder
  <2>6. iter.due \subseteq Given(iter) \union Later
    BY <2>2 DEF Later
  <2>7. ListingInv(MoveTo(iter, FirstOf(Later)))
    BY <2>2, <2>3, <2>5, <2>6, MoveKeeps
  <2>8. ListingInv(iter')
    BY <2>1, <2>7
  <2> QED
    BY <2>1, <2>8 DEF ListingInv, Given, Sorted, Entries
<1>4. ASSUME (\E p \in Paths : setCurrentWorkingDirectory(p)) \/ UNCHANGED vars
      PROVE  ListingInv(iter)'
  <2>1. iter' = iter /\ nodes' = nodes
    BY <1>4 DEF setCurrentWorkingDirectory, vars
  <2> QED
    BY <2>1 DEF ListingInv, Given, Sorted, Entries
<1> QED
  BY <1>1, <1>2, <1>3, <1>4 DEF Next

(* ListingCorrect: a listing is in order and complete, whatever is added   *)
(* while it runs.                                                          *)
THEOREM ListingCorrect == Spec => []ListingOK
<1>1. Init => TreeInv /\ ListingInv(iter)
  BY TreeInit, ListingInit
<1>2. TreeInv /\ ListingInv(iter) /\ [Next]_vars => (TreeInv /\ ListingInv(iter))'
  BY TreeStep, ListingStep
<1>3. ListingInv(iter) => ListingOK
  BY DEF ListingInv, ListingOK, Given, Sorted
<1> QED
  BY <1>1, <1>2, <1>3, PTL DEF Spec

(* TypeCorrect: every variable keeps its type.                             *)
THEOREM TypeCorrect == Spec => []TypeOK
<1>1. Init => TreeInv /\ ListingInv(iter)
  BY TreeInit, ListingInit
<1>2. TreeInv /\ ListingInv(iter) /\ [Next]_vars => (TreeInv /\ ListingInv(iter))'
  BY TreeStep, ListingStep
<1>3. TreeInv /\ ListingInv(iter) => TypeOK
  BY DEF TreeInv, NodesType, ListingInv, Iterators, TypeOK
<1> QED
  BY <1>1, <1>2, <1>3, PTL DEF Spec

=============================================================================
