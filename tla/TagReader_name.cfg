SPECIFICATION Spec
CONSTANTS
  ParseOf <- Parsed
  Buffers <- LongName
  Beyond = 97
  MaxList = 3
  MaxLoads = 1
INVARIANTS ReadsWithinBuffer
CHECK_DEADLOCK FALSE
