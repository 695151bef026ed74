\* In-order traffic and an attacker sending a fragment past the end of a packet.
SPECIFICATION Spec
CONSTANTS
  k1 = k1
  k2 = k2
  Keys = {k1, k2}
  Honest = {}
  PktLen <- EvenLen
  Chunk = 2
  InOrder = TRUE
  Duplicates = FALSE
  Forged <- PastEndForged
  Timeout = 2
  MaxEntries = 3
INVARIANT AssemblyInBounds
