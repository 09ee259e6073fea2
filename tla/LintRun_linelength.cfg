\* The line length of one directory reaches the files of another.
SPECIFICATION Spec
CONSTANTS
  Dir <- MCDir
  Root = "root"
  Parent <- MCParent
  File <- MCFile
  DirOf <- MCDirOf
  ExtOf <- MCExtOf
  Sorted <- MCSorted
  Extension <- MCExtension
  DefaultHeaders <- MCDefaultHeaders
  DefaultSources <- MCDefaultSources
  DefaultFilters <- MCDefaultFilters
  Worlds <- LengthWorlds
  NameOf <- MCNameOf
  Folded <- MCFolded
  Findings <- MCFindings
  Category <- MCCategory
  TopLevel <- MCTopLevel
  Prefix <- MCPrefix
  Covers <- MCCovers
  MaxErrors = 1
INVARIANTS OwnLineLength
CHECK_DEADLOCK FALSE
