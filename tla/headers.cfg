\* Requests of up to 25 bytes with up to two headers and folded lines.
SPECIFICATION Spec
CONSTANTS
  Sent <- HeaderBytes
  MaxBytes = 25
  MaxLine = 1
  MaxName = 1
  MaxValue = 1
  MaxHeaders = 2
INVARIANTS
  TypeOK
  BackExists
  ParsedAsWritten
CHECK_DEADLOCK FALSE
