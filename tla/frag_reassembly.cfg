\* Two packets: k2 from an honest sender, its fragments delivered once in
\* sending order; k1's fragments reordered and duplicated by the network,
\* with a forged middle fragment from an attacker.
SPECIFICATION Spec
CONSTANTS
  k1 = k1
  k2 = k2
  Keys = {k1, k2}
  Honest = {k2}
  PktLen <- ThreeFragLen
  Chunk = 2
  InOrder = FALSE
  Duplicates = TRUE
  Forged <- MiddleForged
  Timeout = 2
  MaxEntries = 3
INVARIANT TypeOK RoundTrip FragListSorted NoStuckCompleteSet
PROPERTY SetsEventuallyFreed ReassemblySpec
