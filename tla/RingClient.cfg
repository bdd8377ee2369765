\* Both styles of a client, twice around the ring and more between two resets.
SPECIFICATION Spec
CONSTANTS
  RingLength = 3
  BufferLength = 2
  IntHalf = 32
  Debug = TRUE
  MaxWritten = 15
  StaleProcessed <- MCStale
INVARIANTS
  TypeOK
  RingIsQueue
  RefusedWhenFullOrDrained
PROPERTIES
  ReadsInOrder
