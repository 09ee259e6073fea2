\* Three Loads in a row, any of them failing anywhere.
SPECIFICATION FairSpec
CONSTANTS
  ParseOf <- Parsed
  Buffers <- FewBuffers
  Beyond = 97
  MaxList = 3
  MaxLoads = 3
INVARIANTS LoadFaithful
PROPERTIES LevelLeaksOnFailure LoadReturnsEventually
CHECK_DEADLOCK FALSE
