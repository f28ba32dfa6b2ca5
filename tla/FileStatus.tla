------------------------------ MODULE FileStatus ------------------------------
(***************************************************************************)
(* The names of the files of a RealFileSystem                              *)
(* (lib/Basic/VirtualFileSystem.cpp).  It is rooted at a mount point: the  *)
(* path a client asks for is a path below it, and a Status says under      *)
(* which name, again without the mount point, a file is known to clients.  *)
(* Both are made by comparing, counting and cutting characters, so a path  *)
(* is the sequence of its characters here.                                 *)
(***************************************************************************)
EXTENDS Integers, Sequences, SequencesExt

Slash == "/"

Substr(s, n) == SubSeq(s, n + 1, Len(s))     \* StringRef::substr

StartsWithSlash(s) == IsPrefix(<<Slash>>, s)
EndsWithSlash(s)   == IsSuffix(<<Slash>>, s)

Bare(s) == \A i \in DOMAIN s : s[i] # Slash

(* llvm::sys::path::append: exactly the slashes of path if dir has none at *)
(* its end, and one if neither has.                                        *)
WithoutSlashes(path) ==
  LET n == CHOOSE k \in 0..Len(path) : /\ \A i \in 1..k : path[i] = Slash
                                       /\ k = Len(path) \/ path[k + 1] # Slash
  IN  Substr(path, n)

AppendPath(dir, path) ==
  IF EndsWithSlash(dir) THEN dir \o WithoutSlashes(path)
  ELSE IF dir = << >> \/ StartsWithSlash(path) THEN dir \o path
  ELSE dir \o <<Slash>> \o path

(* llvm::sys::path::filename of a path that does not end in a slash.       *)
Filename(path) ==
  LET n == CHOOSE k \in 0..Len(path) : (k = 0 \/ path[k] = Slash) /\ Bare(Substr(path, k))
  IN  Substr(path, n)

(* The path on disk of what a client calls path.                           *)
PhysicalToVirtualPath_bug(MountPoint, path) ==     \* relative paths are left alone
  IF IsPrefix(MountPoint, path) \/ ~StartsWithSlash(path) THEN path ELSE AppendPath(MountPoint, path)

PhysicalToVirtualPath(MountPoint, path) ==
  IF IsPrefix(MountPoint, path) THEN path ELSE AppendPath(MountPoint, path)

(* The constructor of Status.  A slash is to be taken off the end of the   *)
(* mount point; what is taken off is the first character.  Then the name   *)
(* loses the mount point, and if enough is left as much again.             *)
Trimmed(MountPoint) ==
  IF Len(MountPoint) > 1 /\ EndsWithSlash(MountPoint) THEN Substr(MountPoint, 1) ELSE MountPoint

Stripped(Name, mount) == IF IsPrefix(mount, Name) THEN Substr(Name, Len(mount)) ELSE Name

VirtualName(Name, MountPoint) ==
  LET mount == Trimmed(MountPoint)
      name  == Stripped(Name, mount)
      cut   == IF Len(mount) > 1 /\ Len(mount) + 1 < Len(name) THEN Len(mount) + 1 ELSE 0
  IN  (IF StartsWithSlash(name) THEN << >> ELSE <<Slash>>) \o Substr(name, cut)

=============================================================================
