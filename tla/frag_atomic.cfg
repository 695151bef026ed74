\* In-order traffic and an attacker sending atomic fragments.
SPECIFICATION Spec
CONSTANTS
  k1 = k1
  k2 = k2
  Keys = {k1, k2}
  Honest = {}
  PktLen <- EvenLen
  Chunk = 2
  InOrder = TRUE
  Duplicates = FALSE
  Forged <- AtomicForged
  Timeout = 2
  MaxEntries = 3
INVARIANT NoStuckCompleteSet
