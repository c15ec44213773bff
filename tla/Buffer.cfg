\* Bytes added, printed, read, moved and taken in any order, realloc failing or not.
SPECIFICATION Spec
CONSTANTS
  Buf = {in, out}
  CR = CR
  LF = LF
  Letter = x
  Byte <- MCByte
  Data <- MCData
  Junk = Junk
  MinAlloc = 2
  MinPrint = 1
  MaxRead = 2
  MaxLen = 3
INVARIANTS
  TypeOK
  InBlock
  NoJunk
PROPERTIES
  IsByteQueue
SYMMETRY Symmetry
