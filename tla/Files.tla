-------------------------------- MODULE Files --------------------------------
(***************************************************************************)
(* From a path to the recorded lines: SourceManager and the FileManager    *)
(* below it, with the stack of file systems of the latter                  *)
(* (lib/Basic/SourceManager.cpp, include/u-lang/Basic/FileManager.hpp).    *)
(* A client may also build a stack of its own: then it alone pushes layers *)
(* and changes directories.                                                *)
(*                                                                         *)
(* getFile() is one step here; module Overlay takes openFileForRead()      *)
(* apart.  Each source has a lexer, which reads and records a character at *)
(* a time: any number of them take turns.                                  *)
(***************************************************************************)
EXTENDS WorkingDirectory, FileStatus, SourceManager, Text

CONSTANTS Requests,         \* the paths asked for: sequences of characters, as in FileStatus
          ModulePaths,      \* what clients set the system's module paths to: sequences
          UserModulePaths,  \*   of mount points, as this one is
          Physical,         \* the files on disk, as sequences of names from "/"
          Texts,            \* what they, and the strings of clients, may hold
          Letter,           \* a character that is no line end
          NoFile,
          MaxLayers,        \* bound: layers of a client's stack
          MaxSources,       \* bound: sources
          MaxChanges        \* bound: changes of the files, the module paths and the FileManager's
                            \*   working directory

Newline == "newline"
Char    == {Letter, Newline}

ASSUME FilesAssumption ==
  /\ Texts \subseteq Seq(Char) /\ NoFile \notin Texts
  /\ Mounts \union Requests \subseteq Seq(STRING)
  /\ Physical \subseteq Seq(Seq(STRING)) /\ Physical \intersect Directories = {}
  /\ ModulePaths \subseteq Seq(Mounts) /\ UserModulePaths \in Seq(Mounts)
  /\ MaxLayers \in Nat /\ MaxSources \in Nat /\ MaxChanges \in Nat

VARIABLES
  owner,       \* whose stack it is: "FileManager" or "client"
  generation,  \* which of the FileManager's stacks this is: each replaces the last one
  disk,        \* the text of each file on disk, or NoFile
  uid,         \* getNextVirtualUniqueID()
  sources,     \* the sources made so far, each with its own lexer
  table,       \* SourceManager::FileTable
  changes      \* see MaxChanges

vars == <<layers, cwd, owner, generation, disk, uid, sources, table, changes>>

-----------------------------------------------------------------------------
(* A path in characters is one of names, as in WorkingDirectory: nobody    *)
(* asks for "." or "..", and no module path has them.                      *)
Ends(path) == {i \in DOMAIN path : path[i] # Slash /\ (i = Len(path) \/ path[i + 1] = Slash)}

NamesIn(path) ==
  LET ends == SetToSortSeq(Ends(path), <)
  IN  [k \in DOMAIN ends |-> Filename(SubSeq(path, 1, ends[k]))]

AsClientPath(path) == [abs |-> StartsWithSlash(path), up |-> 0, rest |-> NamesIn(path)]

(* A path in characters below a mount point, and where it leads.           *)
PhysicalPath ==
  [mount \in Mounts \union {<< >>} |-> [path \in Requests |->
     LET final == PhysicalToVirtualPath(mount, path)
     IN  [way |-> AsClientPath(final), slash |-> EndsWithSlash(final)]]]

OnDisk(layer, path) == Resolve(cwd, PhysicalPath[layer.mount][path].way)

FileAt(place) == place \in Physical /\ disk[place] # NoFile

(* A file is on the way, or has a slash behind its name: not_a_directory.  *)
ThroughFile(place, slash) ==
  \/ \E k \in 1..(Len(place) - 1) : FileAt(SubSeq(place, 1, k))
  \/ slash /\ FileAt(place)

(* llvm::sys::fs::exists(), true of a regular file as well.                *)
Exists(mount) ==
  LET place == Resolve(cwd, AsClientPath(mount))
  IN  /\ mount # << >> /\ ~ThroughFile(place, EndsWithSlash(mount))
      /\ place \in Directories \/ FileAt(place)

(* The FileManager's base is in memory, and empty for ever.                *)
TextIn(layer, path) ==
  IF layer.kind = "disk" /\ FileAt(OnDisk(layer, path)) THEN disk[OnDisk(layer, path)] ELSE NoFile

TextsOf(path) == [l \in DOMAIN layers |-> TextIn(layers[l], path)]

Holding(path) == {l \in DOMAIN layers : TextsOf(path)[l] # NoFile}

(* An error other than "no such file" in any layer ends openFileForRead(). *)
(* A directory is opened like a file, and then cannot be read: undefined.  *)
Fails(layer, path) == ThroughFile(OnDisk(layer, path), PhysicalPath[layer.mount][path].slash)

Openable(path) ==
  \A l \in Disks(layers) : ~Fails(layers[l], path) /\ OnDisk(layers[l], path) \notin Directories

(* What openFileForRead() makes of them.                                   *)
Joined(texts) ==
  LET upto[l \in 0..Len(texts)] ==
        IF l = 0 THEN << >>
        ELSE upto[l - 1] \o (IF texts[l] = NoFile THEN << >> ELSE Append(texts[l], Newline))
  IN  upto[Len(texts)]

Concatenated(path) == Joined(TextsOf(path))

(* FileManager::Initialize(): a stack of the module paths that exist, in   *)
(* which nothing is left of the working directory of the last one.         *)
Initialize(SystemModulePaths) ==
  LET paths == SystemModulePaths \o UserModulePaths
      after[n \in 0..Len(paths)] ==
        IF n = 0 THEN [layers |-> <<Memory(<< >>)>>, cwd |-> cwd, ok |-> TRUE]
        ELSE IF Exists(paths[n]) THEN Push(after[n - 1], Disk(paths[n])) ELSE after[n - 1]
  IN  after[Len(paths)]

Init ==
  /\ owner \in {"FileManager", "client"}
  /\ cwd \in Directories
  /\ disk \in IF owner = "client" THEN [Physical -> {NoFile}] ELSE [Physical -> Texts \union {NoFile}]
  /\ layers \in IF owner = "client" THEN {<<Memory(<< >>)>>, <<Disk(<< >>)>>}
                ELSE {Initialize(paths).layers : paths \in ModulePaths}
  /\ generation = 1 /\ uid = 1
  /\ sources = << >> /\ table = << >> /\ changes = 0

(* pushOverlay(): the stack of the FileManager is its own.                 *)
PushOverlay(layer) ==
  /\ owner = "client" /\ Len(layers) < MaxLayers
  /\ pushOverlay(layer)
  /\ UNCHANGED <<owner, generation, disk, uid, sources, table, changes>>

SetCurrentWorkingDirectory(p) ==
  /\ setCurrentWorkingDirectory(p)
  /\ owner = "FileManager" => changes < MaxChanges
  /\ changes' = IF owner = "FileManager" THEN changes + 1 ELSE changes
  /\ UNCHANGED <<owner, generation, disk, uid, sources, table>>

(* The last stack goes, and with it the buffers of the files opened on it. *)
SetSystemModulePaths(paths) ==
  /\ owner = "FileManager" /\ changes < MaxChanges
  /\ layers' = Initialize(paths).layers
  /\ generation' = generation + 1 /\ uid' = uid + 1 /\ changes' = changes + 1
  /\ UNCHANGED <<cwd, owner, disk, sources, table>>

(* Somebody else writes or removes a file.                                 *)
WriteFile(file, text) ==
  /\ owner = "FileManager" /\ changes < MaxChanges /\ disk[file] # text
  /\ disk' = [disk EXCEPT ![file] = text] /\ changes' = changes + 1
  /\ UNCHANGED <<layers, cwd, owner, generation, uid, sources, table>>

-----------------------------------------------------------------------------
(* Sources, and what is recorded of them.  The key of a file has a fresh   *)
(* number in it; the one of a string is the same for all strings.          *)
StringKey == <<0, "top-level.u">>

NewSource(kind, key, text) ==
  /\ owner = "FileManager" /\ Len(sources) < MaxSources
  /\ sources' = Append(sources, [kind |-> kind, key |-> key, text |-> text, got |-> 0,
                                 generation |-> generation])
  /\ UNCHANGED <<layers, cwd, owner, generation, disk, table, changes>>

getFile_bug(path) ==                 \* the number of the file on disk
  /\ Holding(path) # {} /\ Openable(path)
  /\ uid' = uid
  /\ NewSource("file", <<1, path>>, Concatenated(path))

getFile(path) ==
  /\ Holding(path) # {} /\ Openable(path)
  /\ uid' = uid + 1
  /\ NewSource("file", <<uid + 1, path>>, Concatenated(path))

StringSource(text) == NewSource("string", StringKey, text) /\ UNCHANGED uid

getOrInsertFileInfo(t, key) ==
  [k \in DOMAIN t \union {key} |-> IF k \in DOMAIN t THEN t[k] ELSE << >>]

(* Lexer::GetChar(): the next character, which is any when the buffer was  *)
(* freed, goes to the line on which the source says it is.                 *)
Freed(s) == s.kind = "file" /\ s.generation # generation

GetChar(i) ==
  LET s == sources[i]
  IN  /\ s.got < Len(s.text)
      /\ \E ch \in IF Freed(s) THEN Char ELSE {s.text[s.got + 1]} :
           LET text == [s.text EXCEPT ![s.got + 1] = ch]
               t    == getOrInsertFileInfo(table, s.key)
           IN  /\ sources' = [sources EXCEPT ![i].got = @ + 1, ![i].text = text]
               /\ table' = [t EXCEPT ![s.key] = AddCharacter(@, LineOf(text, Newline, s.got + 1), ch)]
      /\ UNCHANGED <<layers, cwd, owner, generation, disk, uid, changes>>

Next ==
  \/ \E m \in Mounts \union {<< >>} : PushOverlay(Disk(m))
  \/ PushOverlay(Memory(<< >>))
  \/ \E p \in Paths : SetCurrentWorkingDirectory(p)
  \/ \E paths \in ModulePaths : SetSystemModulePaths(paths)
  \/ \E file \in Physical, text \in Texts \union {NoFile} : WriteFile(file, text)
  \/ \E path \in Requests : getFile(path)
  \/ \E text \in Texts : StringSource(text)
  \/ \E i \in DOMAIN sources : GetChar(i)

Spec == Init /\ [][Next]_vars

-----------------------------------------------------------------------------
(* The state has its type; the numbers given out so far are those of the   *)
(* stacks and of the files.                                                *)
TypeOK ==
  /\ owner \in {"FileManager", "client"} /\ cwd \in Directories
  /\ \A l \in DOMAIN layers :
       /\ DOMAIN layers[l] = {"kind", "wd", "mount"}
       /\ layers[l].kind \in {"memory", "disk"}
       /\ layers[l].mount \in Mounts \union {<< >>}
  /\ disk \in [Physical -> Texts \union {NoFile}]
  /\ \A i \in DOMAIN sources :
       /\ sources[i].text \in Seq(Char) /\ sources[i].got \in 0..Len(sources[i].text)
       /\ sources[i].key[1] \in 0..uid /\ sources[i].generation \in 1..generation
  /\ DOMAIN table = {sources[i].key : i \in {j \in DOMAIN sources : sources[j].got > 0}}
  /\ changes \in 0..MaxChanges

(* OverlayFileSystem::getCurrentWorkingDirectory() answers for all layers  *)
(* ("all file systems are synchronized"): a successful call leaves each    *)
(* layer taking a path for the same file, if nothing had failed before.    *)
KeepsStep ==
  [][/\ \A p \in Paths : SetCurrentWorkingDirectory(p) => SetKeepsStep(p)
     /\ Len(layers') = Len(layers) + 1 => PushKeepsStep]_<<layers, cwd>>

(* What the FileManager finds below an absolute module path does not       *)
(* depend on the directory to which it moves the process                   *)
(* (setCurrentWorkingDirectory()); below a relative one it may.            *)
FilesStay ==
  [][owner = "FileManager" /\ cwd' # cwd =>
       \A path \in Requests, l \in Disks(layers) :
         StartsWithSlash(layers[l].mount) =>
           /\ TextIn(layers[l], path)' = TextIn(layers[l], path)
           /\ Fails(layers[l], path)' = Fails(layers[l], path)]_vars

(* FileManager.hpp says of setCurrentWorkingDirectory() that it "will      *)
(* affect all following operations on this file system": after a call that *)
(* succeeds a relative path finds the file of that name, if there is one,  *)
(* in the directory to which it went.                                      *)
DirectoryMatters ==
  [][\A p \in Paths :
       /\ owner = "FileManager" /\ SetCurrentWorkingDirectory(p) /\ SetAll(layers, cwd, p).ok
       => \A path \in Requests :
            ~StartsWithSlash(path) /\ FileAt(Resolve(cwd', AsClientPath(path))) => Holding(path)' # {}]_vars

(* What SourceManager keeps of a file that is open is what its lexer has   *)
(* read, each character where it stands; strings share one entry, in which *)
(* each line has the characters of that line of all of them.               *)
Strings == {i \in DOMAIN sources : sources[i].kind = "string"}

ReadOfStrings == UNION {{i} \X (1..sources[i].got) : i \in Strings}

LineIn(r) == LineOf(sources[r[1]].text, Newline, r[2])

OnLine(l, ch) == {r \in ReadOfStrings : LineIn(r) = l /\ sources[r[1]].text[r[2]] = ch}

EntriesOK ==
  /\ \A i \in DOMAIN sources \ Strings :
       ~Freed(sources[i]) /\ sources[i].got > 0 =>
         RecordedIn(table[sources[i].key], sources[i].text, Newline, sources[i].got)
  /\ StringKey \in DOMAIN table =>
       /\ \A r \in ReadOfStrings : LineIn(r) \in DOMAIN table[StringKey]
       /\ \A l \in DOMAIN table[StringKey] : \A ch \in Char :
            LET line == table[StringKey][l]
            IN  Cardinality({k \in DOMAIN line : line[k] = ch}) = Cardinality(OnLine(l, ch))

=============================================================================
