SPECIFICATION SendSpec
CONSTANTS
  TotalLen = 4
  MaxBytes = 9
  Role = "send"
INVARIANTS TypeOK Geometry Contents OutWindowStable
PROPERTY ReadsInOrder
CHECK_DEADLOCK FALSE
