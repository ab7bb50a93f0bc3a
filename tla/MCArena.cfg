SPECIFICATION Spec
CONSTANTS
  a1 = a1
  a2 = a2
  Arenas = {a1, a2}
  Sizes <- MCSizes
  MinChunk = 16
  MaxChunks = 3
  MaxLive = 3
  NoSpan = NoSpan
INVARIANTS TypeOK InBounds NoOverlap Exclusive Rooted LastCanGrow
SYMMETRY ArenaSymmetry
CHECK_DEADLOCK FALSE
