\* Runs over three files in a tree of four directories.
SPECIFICATION FairSpec
CONSTANTS
  Dir <- MCDir
  Root = "root"
  Parent <- MCParent
  File <- MCFile
  DirOf <- MCDirOf
  ExtOf <- MCExtOf
  Sorted <- MCSorted
  Extension <- MCExtension
  DefaultHeaders <- MCDefaultHeaders
  DefaultSources <- MCDefaultSources
  DefaultFilters <- MCDefaultFilters
  Worlds <- MCWorlds
  NameOf <- MCNameOf
  Folded <- MCFolded
  Findings <- MCFindings
  Category <- MCCategory
  TopLevel <- MCTopLevel
  Prefix <- MCPrefix
  Covers <- MCCovers
  MaxErrors = 2
INVARIANTS
  TypeOK OwnConfiguration CountsAgree AnnouncedIfShown GuardsTell ReportComplete
PROPERTIES Terminates
CHECK_DEADLOCK FALSE
