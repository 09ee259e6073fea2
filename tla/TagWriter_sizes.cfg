\* Every entity, with a buffer of every size.
SPECIFICATION FairSpec
CONSTANTS
  Entities <- AllEntities
  Limits <- AllLimits
  UINT16_MAX <- MaxU16
INVARIANTS
  TypeOK
  WritesWithinBuffer
  OnlyRootTagsFail
  SizesAreRight
  WritesDocument
PROPERTY
  WriteReturnsEventually
