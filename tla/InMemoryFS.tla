----------------------------- MODULE InMemoryFS -----------------------------
(* InMemoryFileSystem: a tree of directories and files.                    *)
(*                                                                         *)
(* A node is reached by the names on the way to it from Root; those of an  *)
(* absolute path begin with "/", as LLVM's path iterators split it, so     *)
(* that "a" and "/a" are different nodes while no working directory is set.*)
EXTENDS Integers, Sequences, FiniteSets

CONSTANTS Order,      \* the names, in the order of std::string
          Paths,      \* what clients pass: [abs, up, rest], see Resolve
          Contents,   \* contents of a file
          Directory,  \* what stands at a directory instead of a content
          MaxDepth,   \* bound: length of a resolved path
          MaxAdds     \* bound: files added

Name == {Order[i] : i \in DOMAIN Order}

(* Where an iterator of Entries stands when there is no entry.             *)
End == "end of the map"

ASSUME InMemoryAssumption ==
  /\ Order \in Seq(STRING) /\ \A i, j \in DOMAIN Order : Order[i] = Order[j] => i = j
  /\ {"", "/"} \subseteq Name /\ End \notin Name
  /\ Paths \subseteq [abs : BOOLEAN, up : Nat, rest : Seq(Name \ {"", "/"})]
  /\ Directory \notin Contents

VARIABLES
  nodes,   \* the tree: from the way to a node to its content, or Directory
  wd,      \* WorkingDirectory
  added,   \* history: of each addFile() that was true the resolved path, the
           \*   content, and whether a directory was there
  iter     \* a client's directory_iterator

vars == <<nodes, wd, added, iter>>

-----------------------------------------------------------------------------
(* Paths.                                                                  *)

(* makeAbsolute() and remove_dots(): what a path denotes.  It is relative  *)
(* or absolute, climbs "up" components with "..", and goes down to "rest". *)
(* Climbing stops at "/".                                                  *)
Climb(dir, up) ==
  SubSeq(dir, 1, IF dir # << >> /\ dir[1] = "/" /\ up >= Len(dir) THEN 1 ELSE Len(dir) - up)

Resolve(p) == IF p.abs THEN <<"/">> \o p.rest ELSE Climb(wd, p.up) \o p.rest

(* The paths that clients use: LLVM's releases disagree on ".." above a    *)
(* relative working directory.                                             *)
Sound(p) ==
  /\ ~p.abs /\ p.up > Len(wd) => wd # << >> /\ wd[1] = "/"
  /\ Len(Resolve(p)) <= MaxDepth

-----------------------------------------------------------------------------
(* The tree.                                                               *)

IsDir(q)  == q \in DOMAIN nodes /\ nodes[q] = Directory
IsFile(q) == q \in DOMAIN nodes /\ nodes[q] # Directory

(* The nodes on the way to q, Root first, q left out.                      *)
Above(q) == {SubSeq(q, 1, k) : k \in 0..(Len(q) - 1)}

(* lookupInMemoryNode(): the walk ends at a missing name or inside a file. *)
Found(q) == q \in DOMAIN nodes /\ \A r \in Above(q) : IsDir(r)

(* openFileForRead(): there is a file with that content.                   *)
Holds(q, c) == Found(q) /\ IsFile(q) /\ nodes[q] = c

(* Entries of a directory, in the order of a std::map.                     *)
Entries(dir) == {n \in Name : Append(dir, n) \in DOMAIN nodes}

Before(m, n) == \E i, j \in DOMAIN Order : i < j /\ Order[i] = m /\ Order[j] = n

FirstOf(names) ==
  IF names = {} THEN End ELSE CHOOSE n \in names : \A m \in names \ {n} : Before(n, m)

-----------------------------------------------------------------------------
(* A listing: the position in the map of entries, what the client was      *)
(* given, and what was there when it began.                                *)
Begin(dir, names) == [dir |-> dir, cur |-> End, listed |-> << >>, due |-> names]

NoListing == Begin(<< >>, {})

(* CurrentEntry becomes the entry at the new position, or an unknown       *)
(* status at the end, which ends the listing.                              *)
MoveTo_bug(i, n) == [i EXCEPT !.cur = n, !.listed = Append(@, n)]

MoveTo(i, n) ==
  IF n = End THEN [i EXCEPT !.cur = End]
  ELSE [i EXCEPT !.cur = n, !.listed = Append(@, n)]

Init ==
  /\ nodes = [q \in {<< >>} |-> Directory]
  /\ wd = << >>
  /\ added = {}
  /\ iter = NoListing

(* addFile(): the loop over the names of the path.  Where neither disjunct *)
(* is enabled it returns false and changes nothing: the path is empty, a   *)
(* file is on the way, or another content is there already.  When the whole path is *)
(* a directory the loop goes on with the path's end iterator, whose name   *)
(* is empty, and puts a nameless file into that directory; a build with    *)
(* LLVM's assertions stops instead.                                        *)
Place(q) == IF Found(q) /\ IsDir(q) THEN Append(q, "") ELSE q

Insert_bug(q, c) ==
  nodes' = [r \in Above(q) \union {q} |-> IF r = q THEN c ELSE Directory]

Insert(q, c) ==
  nodes' = [r \in DOMAIN nodes \union Above(q) \union {q} |->
              IF r = q THEN c ELSE IF r \in DOMAIN nodes THEN nodes[r] ELSE Directory]

BlockedByFile_bug(q) == IsFile(SubSeq(q, 1, 1))

BlockedByFile(q) == \E r \in Above(q) : IsFile(r)

(* The file is there already.                                              *)
SameFile_bug(q, c) == IsFile(q)

SameFile(q, c) == IsFile(q) /\ nodes[q] = c

AddFile(p, c) ==
  LET path == Resolve(p)
      q    == Place(path)
      accepted == <<path, c, IsDir(path)>>
  IN  /\ Sound(p)
      /\ accepted \in added \/ Cardinality(added) < MaxAdds
      /\ path # << >>
      /\ ~BlockedByFile(path)
      /\ UNCHANGED <<wd, iter>>
      /\ \/ /\ q \notin DOMAIN nodes
            /\ Insert(q, c)
            /\ added' = added \union {accepted}
         \/ /\ SameFile(q, c)
            /\ added' = added \union {accepted}
            /\ UNCHANGED nodes

(* setCurrentWorkingDirectory() never looks whether the directory exists.  *)
setCurrentWorkingDirectory(p) ==
  /\ Sound(p)
  /\ Resolve(p) # << >>
  /\ wd' = Resolve(p)
  /\ UNCHANGED <<nodes, added, iter>>

(* dir_begin() and InMemoryDirIterator::increment().                       *)
DirBegin(p) ==
  LET dir   == Resolve(p)
      names == Entries(dir)
  IN  /\ Sound(p)
      /\ iter' = IF Found(dir) /\ IsDir(dir) THEN MoveTo(Begin(dir, names), FirstOf(names))
                 ELSE NoListing
      /\ UNCHANGED <<nodes, wd, added>>

Later_bug == Entries(iter.dir) \ {iter.cur}

Later == {n \in Entries(iter.dir) : Before(iter.cur, n)}

Increment ==
  /\ iter.cur # End
  /\ iter' = MoveTo(iter, FirstOf(Later))
  /\ UNCHANGED <<nodes, wd, added>>

Next ==
  \/ \E p \in Paths, c \in Contents : AddFile(p, c)
  \/ \E p \in Paths : setCurrentWorkingDirectory(p) \/ DirBegin(p)
  \/ Increment

Spec == Init /\ [][Next]_vars

-----------------------------------------------------------------------------
(* What the tree is for.                                                   *)

(* TypeOK: the nodes are reached by names, Root is a directory, and the    *)
(* iterator stands at a name.                                              *)
TypeOK ==
  /\ DOMAIN nodes \subseteq Seq(Name)
  /\ \A q \in DOMAIN nodes : nodes[q] \in Contents \union {Directory}
  /\ wd \in Seq(Name)
  /\ added \subseteq Seq(Name) \X Contents \X BOOLEAN
  /\ iter.cur \in Name \union {End} /\ iter.due \subseteq Name
  /\ iter.dir \in Seq(Name) /\ iter.listed \in Seq(Name)

(* Tree: whatever files were added where, and however the working          *)
(* directory moved in between, each node hangs in a directory: the cast in *)
(* lookupInMemoryNode() never meets a file that has nodes below it.        *)
Tree == IsDir(<< >>) /\ \A q \in DOMAIN nodes : \A r \in Above(q) : IsDir(r)

(* AddedKept: what addFile() accepted can be opened ever after, with its   *)
(* content, under the path it denoted then, if no directory was there.     *)
AddedKept == \A a \in added : ~a[3] => Holds(a[1], a[2])

(* ListingOK: a listing that files are added to while it runs goes through *)
(* the names in order, none twice, gives only names that exist, and leaves *)
(* out none of those that were there when it began.                        *)
ListingOK ==
  LET given == {iter.listed[i] : i \in DOMAIN iter.listed}
  IN  /\ \A i, j \in DOMAIN iter.listed : i < j => Before(iter.listed[i], iter.listed[j])
      /\ given \subseteq Entries(iter.dir)
      /\ iter.cur = End => iter.due \subseteq given

(* ImplementsStore: addFile() never replaces a file nor puts one above or  *)
(* below another one, whichever of its three ways it takes.                *)
Files == [q \in {r \in DOMAIN nodes : nodes[r] # Directory} |-> nodes[q]]

Store == INSTANCE FileStore WITH store <- Files

ImplementsStore == Store!Spec

=============================================================================
