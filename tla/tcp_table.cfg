\* Three peers, a table of two connections, arbitrary segments.
SPECIFICATION Spec
CONSTANTS
  f1 = f1
  f2 = f2
  f3 = f3
  u1 = u1
  u2 = u2
  a1 = a1
  a2 = a2
  a3 = a3
  Flows = {f1, f2, f3}
  MaxConnects = 2
  MaxSeq = 2
  MaxAck = 2
  MaxSegs = 5
  DropSynRate = FALSE
  UdpFlows = {}
  UdpOpen = {}
  MaxDgrams = 0
  Dst <- TableDst
  Configured = {a1}
  RandomMode = FALSE
  MaxRandomHosts = 0
  DefaultTemplate = TRUE
SYMMETRY FlowSymmetry
CHECK_DEADLOCK FALSE
INVARIANT TypeOK TableConsistent TimersOnLiveConnections NeverAckUnsent SndUnaNotBeyondSent
