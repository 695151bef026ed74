------------------------------ MODULE Ip6Delay ------------------------------
(***************************************************************************)
(* The IPv6 delivery path of honeyd (src/honeyd-ip6/honeyd.c, icmp6.c):    *)
(* honeyd_input6 and honeyd_ip6_send hand a packet to                      *)
(* honeyd_delay_packet46, whose descriptor is processed by honeyd_delay_cb6 *)
(* at once or when its timer fires; the packet is then dispatched to a     *)
(* virtual host or put on the wire by honeyd_deliver_ethernet6, which may  *)
(* park it on a neighbor discovery request until an advertisement comes.  *)
(*                                                                         *)
(* What is tracked is ownership: pool_pkt buffers (Bufs), the capture     *)
(* buffer of the packet being received (Pcap, not a pool buffer), the      *)
(* delay descriptors with a pending timer, the neighbor cache entries and *)
(* their callbacks, and template reference counts.  Addresses, headers    *)
(* and payloads are abstracted: a packet is its buffer, its kind and the   *)
(* neighbor it concerns; a routing decision of honeyd_route_packet46 is    *)
(* one of the outcomes the topology can produce.                          *)
(*                                                                         *)
(* Each C function is an operator from a state record to the SET of states *)
(* it can end in; a handler runs to completion as one step.               *)
(***************************************************************************)
EXTENDS Integers, FiniteSets

CONSTANTS
  Bufs,              \* pool_pkt buffers
  Pcap,              \* the capture buffer honeyd_recv_cb6 is given
  NoBuf,             \* NULL arg of a neighbor request
  Tmpls,             \* templates of virtual hosts and routers
  NoTmpl,            \* a NULL template
  Nbrs,              \* link neighbors (external hosts on the wire)
  RouterUsed,        \* router_used: a virtual routing topology is configured
  InboundRoutes,     \* outcomes of honeyd_route_packet6 for received packets
  HostRoutes,        \* outcomes of honeyd_route_packet6 for host packets
  OffLink,           \* neighbors outside the advertised prefix
  ExternalTmpls,     \* TRUE: hosts send to a template with TEMPLATE_EXTERNAL
  InboundExternal,   \* TRUE: received packets may be for such a template
  Readvertise,       \* TRUE: a neighbor may advertise an address again
  MaxDepth,          \* bound on packets sent from within a callback
  MaxRef             \* bound on a template's reference count

Kinds == {"na", "ns", "echo", "other"}   \* what honeyd_dispatch6 finds
Flag  == {"FREEPKT", "NEEDFREE", "EXTERNAL", "ETHERNET"}
Route == [res : {"drop", "hlim", "internal", "external"}, delayed : BOOLEAN]

ASSUME /\ InboundRoutes \subseteq Route /\ HostRoutes \subseteq Route
       /\ RouterUsed \in BOOLEAN /\ ExternalTmpls \in BOOLEAN
       /\ InboundExternal \in BOOLEAN /\ OffLink \subseteq Nbrs
       /\ Readvertise \in BOOLEAN
       /\ MaxDepth \in Nat /\ MaxRef \in Nat \ {0}

VARIABLES
  pool,      \* pool[b]: "used" or "idle"
  badFree,   \* buffers pool_free was called on while not allocated
  crashed,   \* a NULL pointer was dereferenced
  delays,    \* descriptors of honeyd_delay_packet46 with a pending timer
  ndp,       \* ndp[x]: the ndp_neighbor_req for neighbor x
  ra,        \* router_adv != NULL
  ref,       \* ref[t]: refcnt of template t; 0 once released
  relFree    \* templates template_free was called on after release

vars == <<pool, badFree, crashed, delays, ndp, ra, ref, relFree>>

Delay == [buf : Bufs \cup {Pcap}, tmpl : Tmpls \cup {NoTmpl},
          flags : SUBSET Flag, hlim0 : BOOLEAN, kind : Kinds, peer : Nbrs]

\* in: the entry is in ndp_reqs; mac: target_mac_addr was assigned;
\* cb, arg: the pending callback; waiting: (ghost) cb has not run yet.
NoEntry == [in |-> FALSE, mac |-> FALSE, cb |-> FALSE, arg |-> NoBuf, waiting |-> FALSE]

St == [pool |-> pool, badFree |-> badFree, crashed |-> crashed, delays |-> delays,
       ndp |-> ndp, ra |-> ra, ref |-> ref, relFree |-> relFree, cut |-> FALSE]

\* A behaviour that would exceed the pool or a bound is not explored.
Cut(s) == [s EXCEPT !.cut = TRUE]

-----------------------------------------------------------------------------
(* The pool, templates and the wire.                                       *)

NextBuf(s) == IF \E b \in Bufs : s.pool[b] = "idle"
              THEN CHOOSE b \in Bufs : s.pool[b] = "idle" ELSE NoBuf

Alloc(s, b) == [s EXCEPT !.pool[b] = "used"]

PoolFree(s, b) ==
  IF b \in Bufs /\ s.pool[b] = "used" THEN [s EXCEPT !.pool[b] = "idle"]
  ELSE [s EXCEPT !.badFree = @ \cup {b}]

TemplateRef(s, t) ==
  IF t = NoTmpl THEN s
  ELSE IF s.ref[t] >= MaxRef THEN Cut(s)
  ELSE [s EXCEPT !.ref[t] = @ + 1]

TemplateFree(s, t) ==
  IF t = NoTmpl THEN s
  ELSE IF s.ref[t] = 0 THEN [s EXCEPT !.relFree = @ \cup {t}]
  ELSE [s EXCEPT !.ref[t] = @ - 1]

\* honeyd_ether_cb46: the frame is sent and the buffer goes back to the pool.
EtherCb46(s, b) == PoolFree(s, b)

\* icmp6_send_pkt to a known link address: a pool buffer is taken and
\* freed again by honeyd_ether_cb46.
SendKnown(s) == IF NextBuf(s) = NoBuf THEN Cut(s) ELSE s

-----------------------------------------------------------------------------
(* Neighbor discovery (icmp6.c).                                           *)

\* ndp_neighbor_new: find or calloc the entry of x, assign the addresses
\* given (a target MAC only when one is passed) and insert it.
NdpNeighborNew(s, x, mac) ==
  [s EXCEPT !.ndp[x] = [@ EXCEPT !.in = TRUE, !.mac = @ \/ mac]]

\* icmp6_send_neighbor_sol: store the callback and its packet in the
\* entry, then multicast the solicitation.
NeighborSol(s, x, b) ==
  SendKnown([NdpNeighborNew(s, x, FALSE) EXCEPT
               !.ndp[x] = [@ EXCEPT !.cb = TRUE, !.arg = b, !.waiting = TRUE]])

\* Variant of CallNdpCallback without the req->cb != NULL test.
CallNdpCallbackNoCheck(s, x) ==
  EtherCb46([s EXCEPT !.ndp[x].waiting = FALSE], s.ndp[x].arg)

\* call_ndp_callback: honeyd_ether_cb6 sends and frees req->arg; req->cb
\* is left as it was.
CallNdpCallback(s, x) ==
  IF s.ndp[x].cb
  THEN EtherCb46([s EXCEPT !.ndp[x].waiting = FALSE], s.ndp[x].arg)
  ELSE s

\* handle_neighbor_advertisement: cache the advertised MAC and run the
\* entry's callback.
HandleNA(s, x) == CallNdpCallback(NdpNeighborNew(s, x, TRUE), x)

-----------------------------------------------------------------------------
(* Ethernet delivery (honeyd.c).                                           *)

\* ip6_deliver_packet_to_local_neighbor: a cached entry is used as it is,
\* resolved or not; otherwise a solicitation parks the packet on the
\* entry.  With a routing topology the solicitation needs the gateway's
\* template; without one the packet is dropped unfreed.
LocalNeighbor(s, b, x) ==
  IF s.ndp[x].in THEN {EtherCb46(s, b)}
  ELSE IF RouterUsed THEN {NeighborSol(s, x, b), s}
  ELSE {NeighborSol(s, x, b)}

\* honeyd_deliver_ethernet6 for a packet within the MTU: a known target
\* MAC is used directly; an on-link target (every target while no router
\* advertisement is cached) goes to the neighbor; an off-link one to the
\* cached router.
DeliverEthernet6(s, b, x, known) ==
  IF known THEN {EtherCb46(s, b)}
  ELSE IF ~s.ra \/ x \notin OffLink THEN LocalNeighbor(s, b, x)
  ELSE {EtherCb46(s, b)}

\* honeyd_send_normally6: without a gateway or a source template with an
\* interface the function returns and the packet is not freed.
SendNormally6(s, b, x) == {s} \cup DeliverEthernet6(s, b, x, FALSE)

\* Variant of OwnMemory6 that takes over an owned buffer but leaves
\* DELAY_FREEPKT set, so ip6_delay_ethernet frees it a second time.
OwnMemory6KeepFlag(s, d) ==
  IF "FREEPKT" \notin d.flags
  THEN LET b == NextBuf(s)
       IN IF b = NoBuf THEN [st |-> Cut(s), buf |-> d.buf, flags |-> d.flags]
          ELSE [st |-> Alloc(s, b), buf |-> b, flags |-> d.flags]
  ELSE [st |-> s, buf |-> d.buf, flags |-> d.flags]

\* honeyd_delay_own_memory6: copy a packet the descriptor does not own into
\* a pool buffer, or take over the one it owns by clearing DELAY_FREEPKT.
OwnMemory6(s, d) ==
  IF "FREEPKT" \notin d.flags
  THEN LET b == NextBuf(s)
       IN IF b = NoBuf THEN [st |-> Cut(s), buf |-> d.buf, flags |-> d.flags]
          ELSE [st |-> Alloc(s, b), buf |-> b, flags |-> d.flags]
  ELSE [st |-> s, buf |-> d.buf, flags |-> d.flags \ {"FREEPKT"}]

\* ip6_delay_external: a source template with an ethernet address on the
\* responsible interface delivers on the link, anything else is sent
\* normally.
DelayExternal(s, d) ==
  LET o == OwnMemory6(s, d)
  IN (IF d.tmpl # NoTmpl THEN DeliverEthernet6(o.st, o.buf, d.peer, FALSE) ELSE {})
     \cup SendNormally6(s, d.buf, d.peer)

\* ip6_delay_ethernet: tmpl->inter is read before anything else; the
\* packet goes to the router's MAC, then the template is released.
DelayEthernet(s, d) ==
  IF d.tmpl = NoTmpl THEN {[s EXCEPT !.crashed = TRUE]}
  ELSE LET o == OwnMemory6(s, d)
       IN {TemplateFree(IF "FREEPKT" \in o.flags THEN PoolFree(r, o.buf) ELSE r, d.tmpl) :
             r \in DeliverEthernet6(o.st, o.buf, d.peer, TRUE)}

\* Variant of DelayOwnPacket that stores the caller's packet without the
\* copy.
DelayOwnPacketNoCopy(s, b, flags) == [st |-> s, buf |-> b]

\* honeyd_delay_packet46 with a delay: a packet the caller still owns
\* (no DELAY_FREEPKT) is copied into a pool buffer for the descriptor.
DelayOwnPacket(s, b, flags) ==
  IF "FREEPKT" \in flags THEN [st |-> s, buf |-> b]
  ELSE LET nb == NextBuf(s)
       IN IF nb = NoBuf THEN [st |-> Cut(s), buf |-> b]
          ELSE [st |-> Alloc(s, nb), buf |-> nb]

-----------------------------------------------------------------------------
(* The delay engine and the handlers it reaches.  Packets sent from within *)
(* a callback re-enter honeyd_ip6_send, hence the recursion.               *)

RECURSIVE IP6Send(_, _, _, _, _, _), DelayPacket46(_, _, _, _, _, _, _, _, _),
          DelayCb6(_, _, _), IcmpSendPkt(_, _, _, _, _)

\* icmp6_send_pkt: a pool buffer holds the message; with both link
\* addresses it goes straight to the wire, otherwise to honeyd_ip6_send.
IcmpSendPkt(s, t, known, x, depth) ==
  IF known THEN {SendKnown(s)}
  ELSE LET b == NextBuf(s)
       IN IF b = NoBuf \/ depth >= MaxDepth THEN {Cut(s)}
          ELSE IP6Send(Alloc(s, b), t, b, "other", x, depth + 1)

\* handle_neighbor_solicitation: answer with an advertisement (to the
\* link address in the source option, if there is one) and cache the
\* soliciting neighbor.
HandleNS(s, t, x, depth) ==
  UNION {{NdpNeighborNew(r, x, opt) : r \in IcmpSendPkt(s, t, opt, x, depth)} :
           opt \in BOOLEAN}

\* handle_echo_request: the reply is built and given to icmp6_send_pkt
\* without link addresses, so it goes through honeyd_ip6_send.
HandleEchoRequest(s, t, x, depth) == IcmpSendPkt(s, t, FALSE, x, depth)

\* icmp6_recv_cb for a packet that reached template t.
IcmpRecvCb(s, t, d, depth) ==
  CASE d.kind = "na"   -> {HandleNA(s, d.peer)}
    [] d.kind = "ns"   -> HandleNS(s, t, d.peer, depth)
    [] d.kind = "echo" -> HandleEchoRequest(s, t, d.peer, depth)

\* honeyd_dispatch6: ICMPv6 goes to icmp6_recv_cb; TCP and UDP (TcpCon)
\* keep no pool buffer and leave this state as it is.
Dispatch6(s, t, d, depth) ==
  IF d.kind \in {"na", "ns", "echo"} THEN IcmpRecvCb(s, t, d, depth) ELSE {s}

\* ip6_delay_internal: release the descriptor's template, reference the
\* destination's, and dispatch unless the reassembler keeps the fragment.
DelayInternal(s, d, depth) ==
  UNION {LET s2 == TemplateRef(TemplateFree(s, d.tmpl), t)
         IN IF held THEN {s2} ELSE Dispatch6(s2, t, d, depth) :
           t \in Tmpls, held \in BOOLEAN}

\* icmp6_error_send: template_find(delay->src) finds the router's template,
\* the one honeyd_route_packet46 put in the descriptor; if there is one, it
\* answers the packet's source.
Icmp6ErrorSend(s, d, depth) ==
  IF d.tmpl = NoTmpl THEN {s} ELSE IcmpSendPkt(s, d.tmpl, FALSE, d.peer, depth)

\* honeyd_delay_cb6: one delivery mode, then the descriptor's template is
\* released.  The packet buffer is not freed here.
DelayCb6(s, d, depth) ==
  LET r == CASE d.hlim0                -> Icmp6ErrorSend(s, d, depth)
             [] "EXTERNAL" \in d.flags -> DelayExternal(s, d)
             [] "ETHERNET" \in d.flags -> DelayEthernet(s, d)
             [] OTHER                  -> DelayInternal(s, d, depth)
  IN {TemplateFree(y, d.tmpl) : y \in r}

\* honeyd_delay_packet46: a delayed packet not owned by the caller is
\* copied into a pool buffer the descriptor owns; the descriptor holds a
\* template reference; without delay the callback runs at once.
DelayPacket46(s, t, b, kind, x, hlim0, delayed, flags, depth) ==
  IF delayed
  THEN LET o == DelayOwnPacket(s, b, flags)
           d == [buf |-> o.buf, tmpl |-> t, flags |-> flags \cup {"NEEDFREE", "FREEPKT"},
                 hlim0 |-> hlim0, kind |-> kind, peer |-> x]
       IN {[TemplateRef(o.st, t) EXCEPT !.delays = @ \cup {d}]}
  ELSE DelayCb6(TemplateRef(s, t),
                [buf |-> b, tmpl |-> t, flags |-> flags, hlim0 |-> hlim0,
                 kind |-> kind, peer |-> x], depth)

\* The templates a route's hop-limit error may come from.
RouterTmpls == Tmpls \cup {NoTmpl}

\* The flag a destination with TEMPLATE_EXTERNAL adds.
EthernetFlags(ext) == IF ext THEN {{"ETHERNET"}, {}} ELSE {{}}

\* honeyd_ip6_send: the packet of template t is routed and handed to the
\* delay engine with DELAY_FREEPKT; a dropped packet is freed here.
IP6Send(s, t, b, kind, x, depth) ==
  IF ~RouterUsed
  THEN UNION {DelayPacket46(s, t, b, kind, x, FALSE, FALSE, f \cup {"FREEPKT", "EXTERNAL"}, depth) :
                f \in EthernetFlags(ExternalTmpls)}
  ELSE UNION {CASE r.res = "drop" -> {PoolFree(s, b)}
                [] r.res = "hlim" ->
                     UNION {{PoolFree(y, b) : y \in DelayPacket46(s, rt, b, kind, x, TRUE, r.delayed, {}, depth)} :
                              rt \in RouterTmpls}
                [] OTHER ->
                     UNION {DelayPacket46(s, t, b, kind, x, FALSE, r.delayed,
                                          f \cup {"FREEPKT"} \cup (IF r.res = "external" THEN {"EXTERNAL"} ELSE {}),
                                          depth) :
                              f \in EthernetFlags(ExternalTmpls)} :
                r \in HostRoutes}

-----------------------------------------------------------------------------
(* The reactor's events.                                                   *)

\* Take one of the states a handler can end in, unless a bound cut it.
Apply(S) ==
  \E r \in S :
    /\ ~r.cut
    /\ pool' = r.pool /\ badFree' = r.badFree /\ crashed' = r.crashed
    /\ delays' = r.delays /\ ndp' = r.ndp /\ ra' = r.ra
    /\ ref' = r.ref /\ relFree' = r.relFree

\* The kinds of packet neighbor x may send; without Readvertise it does
\* not advertise while honeyd has its address or an advertisement of it
\* is in flight in the delay engine.
NaInFlight(x) == \E d \in delays : d.peer = x /\ d.kind = "na"
SentKinds(x) ==
  IF Readvertise \/ ~(ndp[x].mac \/ NaInFlight(x)) THEN Kinds ELSE Kinds \ {"na"}

\* honeyd_input6 for a packet of kind k from neighbor x in the capture
\* buffer: the packet reaches honeyd_delay_packet6 with a NULL template
\* and without DELAY_FREEPKT; the router's own hop-limit error is sent
\* from within honeyd_route_packet46.
HoneydInput6(s, k, x) ==
  IF ~RouterUsed
  THEN UNION {DelayPacket46(s, NoTmpl, Pcap, k, x, FALSE, FALSE, f, 0) :
                f \in EthernetFlags(InboundExternal)}
  ELSE UNION {CASE r.res = "drop" -> {s}
                [] r.res = "hlim" ->
                     UNION {DelayPacket46(s, rt, Pcap, k, x, TRUE, r.delayed, {}, 0) :
                              rt \in RouterTmpls}
                [] r.res = "external" ->
                     DelayPacket46(s, NoTmpl, Pcap, k, x, FALSE, r.delayed, {"EXTERNAL"}, 0)
                [] OTHER ->
                     UNION {DelayPacket46(s, NoTmpl, Pcap, k, x, FALSE, r.delayed, f, 0) :
                              f \in EthernetFlags(InboundExternal)} :
                r \in InboundRoutes}

\* honeyd_recv_cb6: a packet of neighbor x is dropped when no template has
\* its destination, and otherwise goes to honeyd_input6.
RecvCb6(x) ==
  \E k \in SentKinds(x) : Apply({St} \cup HoneydInput6(St, k, x))

\* A protocol handler of template t (tcp_send46, an ICMPv6 reply) fills a
\* pool buffer and calls honeyd_ip6_send towards neighbor x.
HostSend(t, x) ==
  LET b == NextBuf(St)
  IN /\ b # NoBuf
     /\ Apply(IP6Send(Alloc(St, b), t, b, "other", x, 0))

\* libevent fires the timer of descriptor d: honeyd_delay_cb6, which ends
\* with pool_free(pool_delay, delay).
DelayTimeout(d) ==
  Apply(DelayCb6([St EXCEPT !.delays = @ \ {d}], d, 0))

\* handle_router_advertisement: the advertisement replaces the cached one.
RouterAdvertisement ==
  /\ ra' = TRUE
  /\ UNCHANGED <<pool, badFree, crashed, delays, ndp, ref, relFree>>

Init ==
  /\ pool = [b \in Bufs |-> "idle"]
  /\ badFree = {}
  /\ crashed = FALSE
  /\ delays = {}
  /\ ndp = [x \in Nbrs |-> NoEntry]
  /\ ra = FALSE
  /\ ref = [t \in Tmpls |-> 1]
  /\ relFree = {}

Next ==
  \/ \E x \in Nbrs : RecvCb6(x)
  \/ \E t \in Tmpls, x \in Nbrs : HostSend(t, x)
  \/ \E d \in delays : DelayTimeout(d)
  \/ RouterAdvertisement

Spec == Init /\ [][Next]_vars

-----------------------------------------------------------------------------
(* Properties.                                                             *)

\* The pool buffers held: by a pending descriptor, or by a neighbor entry
\* whose callback has not run.
Waiting == {x \in Nbrs : ndp[x].waiting}
Held == {d.buf : d \in delays} \cup {ndp[x].arg : x \in Waiting}

TypeOK ==
  /\ pool \in [Bufs -> {"idle", "used"}]
  /\ badFree \subseteq Bufs \cup {Pcap}
  /\ crashed \in BOOLEAN
  /\ delays \subseteq Delay
  /\ ndp \in [Nbrs -> [in : BOOLEAN, mac : BOOLEAN, cb : BOOLEAN,
                       arg : Bufs \cup {NoBuf}, waiting : BOOLEAN]]
  /\ ra \in BOOLEAN
  /\ ref \in [Tmpls -> 0..MaxRef]
  /\ relFree \subseteq Tmpls

\* Spec 7: every exit path resolves buffer ownership with no double free.
\* pool_free (honeyd_ether_cb46, the drop of honeyd_ip6_send) is only
\* called on a pool buffer that is allocated: never twice on one buffer
\* and never on the capture buffer of a received packet.
PoolFreesValid == badFree = {}

\* Spec 3: a buffer has one live owner.  Every pending delay descriptor and
\* every neighbor request still waiting to send holds an allocated pool
\* buffer, and no two of them hold the same one.
ExclusiveOwnership ==
  /\ \A d \in delays : d.buf \in Bufs /\ pool[d.buf] = "used"
  /\ \A x \in Waiting : ndp[x].arg \in Bufs /\ pool[ndp[x].arg] = "used"
  /\ Cardinality(Held) = Cardinality(delays) + Cardinality(Waiting)

\* Spec 4.7: after a delayed packet is delivered its buffer and the
\* template it referenced are released.  Between events every allocated
\* buffer has an owner, and each template's refcnt is its configuration
\* reference plus one per pending descriptor, never released twice.
ResourcesReleased ==
  /\ \A b \in Bufs : pool[b] = "used" => b \in Held
  /\ \A t \in Tmpls : ref[t] = 1 + Cardinality({d \in delays : d.tmpl = t})
  /\ relFree = {}

\* ip6_delay_ethernet never runs on a descriptor without a template.
NoNullTemplate == ~crashed

=============================================================================
