CONSTANTS
 Height = 3
 Disk <- DiskLayers
 Mount <- RootedOnTop
 Path <- TheRoot
 Name <- TwoNames
 Absent = Absent
 Folder = Folder
 Locked = Locked
 Dangling = Dangling
 Unreadable = Unreadable
 Held <- AllHeld
 MaxSize = 2
 MaxChanges = 0
SPECIFICATION Spec
INVARIANT UnionOfContents
