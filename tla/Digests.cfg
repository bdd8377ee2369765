SPECIFICATION Spec
CONSTANTS
  BlockLength = 4
  ByteBits = 2
  UIntMod = 16
  ULongMod = 16
  FileBlock = 4
  TestString = 3
  MaxMessage = 132
  Chunks <- MCChunks
  Strings <- MCStrings
  Files <- MCFiles
INVARIANTS
  TypeOK
  ContextHoldsMessage
  DigestRight
