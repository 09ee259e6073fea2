\* main.cc loading its own output.
SPECIFICATION ExampleSpec
CONSTANTS
  ParseOf <- Parsed
  Buffers <- Files
  Beyond = 0
  MaxList = 2
  MaxLoads = 2
  UINT16_MAX <- MaxU16
INVARIANT
  ReloadSucceeds
CHECK_DEADLOCK FALSE
