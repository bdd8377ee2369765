SPECIFICATION Spec
CONSTANTS
  BlockLength = 4
  ByteBits = 2
  UIntMod = 16
  ULongMod = 256
  FileBlock = 4
  TestString = 3
  MaxMessage = 16
  Chunks <- MCChunks
  Strings <- MCStrings
  Files <- MCFiles
INVARIANT
  CountIsLength
