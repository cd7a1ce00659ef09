CONSTANTS
  Bytes <- FourBytes
  Words <- OneWord
  Pause = 86
  MaxLate = 0
  NIL <- NilWord
SPECIFICATION Spec
PROPERTY NilOnError
