\* Two pool buffers, one template, a routing topology with every host
\* route; neighbors do not advertise an address twice.
SPECIFICATION Spec
CONSTANTS
  b1 = b1
  b2 = b2
  t1 = t1
  x1 = x1
  x2 = x2
  Pcap = Pcap
  NoBuf = NoBuf
  NoTmpl = NoTmpl
  Bufs = {b1, b2}
  Tmpls = {t1}
  Nbrs = {x1, x2}
  OffLink = {x2}
  RouterUsed = TRUE
  InboundRoutes <- DelayedExternalRoutes
  HostRoutes <- AllRoutes
  ExternalTmpls = TRUE
  InboundExternal = FALSE
  Readvertise = FALSE
  MaxDepth = 1
  MaxRef = 2
INVARIANT ResourcesReleased
