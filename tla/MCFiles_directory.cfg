SPECIFICATION Spec
CONSTANTS
  Paths <- AllPaths
  Directories <- AllDirectories
  Mounts <- AllMounts
  Requests <- AllRequests
  ModulePaths <- SystemPaths
  UserModulePaths <- UserPaths
  Physical <- AllFiles
  Texts <- AllTexts
  Letter = "a"
  NoFile = NoFile
  MaxDepth = 3
  MaxLayers = 3
  MaxSources = 2
  MaxChanges = 1
PROPERTY DirectoryMatters
CHECK_DEADLOCK FALSE
