\* Fragments of two packets, each delivered once, in any order.
SPECIFICATION Spec
CONSTANTS
  k1 = k1
  k2 = k2
  Keys = {k1, k2}
  Honest = {}
  PktLen <- EvenLen
  Chunk = 2
  InOrder = FALSE
  Duplicates = FALSE
  Forged <- NoForged
  Timeout = 2
  MaxEntries = 3
INVARIANT ReassembledWithoutGap
