\* One Load of each of many buffers, most of them malformed.
SPECIFICATION Spec
CONSTANTS
  ParseOf <- Parsed
  Buffers <- WideBuffers
  Beyond = 97
  MaxList = 3
  MaxLoads = 1
INVARIANTS
  TypeOK CursorsAgree OverrunRejected TagsWellFormed
  RecursionBounded OnlyDocumentsAccepted
CHECK_DEADLOCK FALSE
