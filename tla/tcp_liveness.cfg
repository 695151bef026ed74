\* Two TCP peers and a table of one, two UDP peers to addresses served in
\* random mode: every connection ends once the peers stop.
SPECIFICATION Spec
CONSTANTS
  f1 = f1
  f2 = f2
  f3 = f3
  u1 = u1
  u2 = u2
  a1 = a1
  a2 = a2
  a3 = a3
  Flows = {f1, f2}
  MaxConnects = 1
  MaxSeq = 2
  MaxAck = 2
  MaxSegs = 3
  DropSynRate = TRUE
  UdpFlows = {u1, u2}
  UdpOpen = {u1}
  MaxDgrams = 2
  Dst <- SplitDst
  Configured = {a1}
  RandomMode = TRUE
  MaxRandomHosts = 1
  DefaultTemplate = TRUE
CHECK_DEADLOCK FALSE
INVARIANT UdpTableConsistent RandomHostsBounded RejectedNeverCreated
PROPERTY ConnectionsEventuallyFreed UdpConnectionsEventuallyFreed
