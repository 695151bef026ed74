\* Packets one unit past a whole number of chunks, fragments in order.
SPECIFICATION Spec
CONSTANTS
  k1 = k1
  k2 = k2
  Keys = {k1, k2}
  Honest = {k1, k2}
  PktLen <- OddLen
  Chunk = 2
  InOrder = TRUE
  Duplicates = FALSE
  Forged <- NoForged
  Timeout = 2
  MaxEntries = 3
INVARIANT RoundTrip
