\* main.cc with every well-formed file and some malformed ones.
SPECIFICATION ExampleSpec
CONSTANTS
  ParseOf <- Parsed
  Buffers <- Files
  Beyond = 0
  MaxList = 2
  MaxLoads = 2
  UINT16_MAX <- MaxU16
INVARIANTS
  RoundTrip
  DocumentsAccepted
CHECK_DEADLOCK FALSE
