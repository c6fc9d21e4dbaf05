\* Every beginning of up to 19 bytes, into the second line of a header.
SPECIFICATION Spec
CONSTANTS
  Sent <- LineBytes
  MaxBytes = 19
  MaxLine = 2
  MaxName = 1
  MaxValue = 1
  MaxHeaders = 1
INVARIANTS
  RejectedWhenHopeless
CHECK_DEADLOCK FALSE
