SPECIFICATION Spec
CONSTANTS
  Sizes = {0, 3, 7}
  ChunkSize = 3
  MaxLen = 9
INVARIANTS Contiguous ReadsAll CursorExact
