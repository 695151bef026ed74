------------------------------- MODULE TcpCon -------------------------------
(***************************************************************************)
(* honeyd's TCP connections (src/honeyd-ip6/honeyd.c): the connection      *)
(* table (splay tree tcpcons, LRU list tcplru, counter honeyd_nconnects),  *)
(* each connection's state machine as tcp_recv_cb46 drives it, and its two *)
(* libevent timers, the idle timer conhdr.timeout and retrans_timeout.     *)
(*                                                                         *)
(* The port is open and has no service command (generic_connect returns   *)
(* at once): cmd_pfd stays -1, honeyd sends no payload (plen = 0, so poff  *)
(* and dupacks stay 0), and the only segments it originates are SYN|ACK,   *)
(* ACK, FIN|ACK and RST.  The peers are arbitrary: any flags, any sequence *)
(* and acknowledgment numbers from small ranges.  Timers are untimed: an   *)
(* armed timer may fire at any moment, which covers every ordering of the  *)
(* SYN-wait, idle, close-wait and retransmission intervals.                *)
(***************************************************************************)
EXTENDS Integers, Sequences, SequencesExt, FiniteSets

CONSTANTS
  Flows,        \* connection tuples (peer address and ports) in use
  MaxConnects,  \* HONEYD_MAX_CONNECTS
  MaxSeq,       \* peer sequence numbers range over 0..MaxSeq
  MaxAck,       \* peer acknowledgment numbers range over 0..MaxAck
  MaxSegs,      \* bound on the segments the peers send in a behaviour
  DropSynRate,  \* TRUE: the template drops a share of SYNs (drop_synrate)
  UdpFlows,     \* UDP tuples (peer address and ports) in use
  UdpOpen,      \* the UDP tuples whose destination port the template opens
  MaxDgrams,    \* bound on the UDP datagrams the peers send in a behaviour
  Dst,          \* Dst[f]: the honeyd address tuple f is sent to
  Configured,   \* the addresses with a template from the configuration
  RandomMode,   \* config.randomipv6mode
  MaxRandomHosts, DefaultTemplate   \* parameters of RandomIp6

ASSUME /\ MaxConnects \in Nat \ {0}
       /\ {MaxSeq, MaxAck, MaxSegs} \subseteq Nat
       /\ DropSynRate \in BOOLEAN
       /\ UdpOpen \subseteq UdpFlows /\ MaxDgrams \in Nat
       /\ DOMAIN Dst = Flows \cup UdpFlows /\ RandomMode \in BOOLEAN

\* Flags of a TCP header that tcp_recv_cb46 looks at.
SYN == "SYN"
ACK == "ACK"
FIN == "FIN"
RST == "RST"

\* a - b as the u_int arithmetic of tcp_recv_cb46 computes it: a negative
\* difference wraps past 2^31, beyond any segment length (TLC's integers
\* end at 2^31 - 1, which stands for all of those values).
UDiff(a, b) == IF a >= b THEN a - b ELSE 2147483647

\* Upper bound of tcp_retrans_timeout on the doubled retransmission time.
RetransMax == 60

\* retrans_time tcp_recv_cb46 gives a new connection.
RetransInit == 3

VARIABLES
  tbl,       \* [conns: tree, lru: TAILQ head first, n: honeyd_nconnects,
             \*  idle: pending conhdr.timeout, retrans: pending retrans_timeout]
  tcb,       \* tcb[f]: the struct tcp_con fields of flow f's connection
  peerHigh,  \* peerHigh[f]: end of the sequence space the peer of f has sent
  segs,      \* segments sent so far
  udp,       \* [conns: tree udpcons, lru: TAILQ udplru, idle: pending timeout]
  dgrams,    \* UDP datagrams sent so far
  rnd        \* the state of the random template generator (RandomIp6)

tcpVars == <<tbl, tcb, peerHigh, segs>>
udpVars == <<udp, dgrams>>
vars == <<tbl, tcb, peerHigh, segs, udp, dgrams, rnd>>

Rnd == INSTANCE RandomIp6

Segment == [flags : SUBSET {SYN, ACK, FIN, RST}, seq : 0..MaxSeq,
            ack : 0..MaxAck, dlen : 0..1]

\* A zeroed struct tcp_con as calloc returns it; sndMax is the end of the
\* sequence space honeyd has sent on it.
NoTcb == [state |-> "CLOSED", rcvNext |-> 0, sndUna |-> 0, sndMax |-> 0,
          sentfin |-> FALSE, finacked |-> FALSE, retransTime |-> 0, lastAcked |-> 0]

-----------------------------------------------------------------------------
(* The connection table.                                                   *)

LruRemove(q, D) == SelectSeq(q, LAMBDA x : x \notin D)

\* connection_insert: into the tree and at the head of the LRU list.
ConnectionInsert(t, f) ==
  [t EXCEPT !.conns = @ \cup {f}, !.lru = <<f>> \o @]

\* Variant: SPLAY_REMOVE forgotten, the connection stays in the tree.
ConnectionRemoveKeep(t, f) ==
  [t EXCEPT !.lru = LruRemove(@, {f}), !.idle = @ \ {f}]

\* connection_remove: out of the tree and the list, idle timer deleted.
ConnectionRemove(t, f) ==
  [t EXCEPT !.conns = @ \ {f}, !.lru = LruRemove(@, {f}), !.idle = @ \ {f}]

\* connection_update: to the head of the list, idle timer re-armed.
ConnectionUpdate(t, f) ==
  [t EXCEPT !.lru = <<f>> \o LruRemove(@, {f}), !.idle = @ \cup {f}]

\* Variant: evtimer_del(&con->retrans_timeout) forgotten.
TcpFreeKeepRetrans(t, f) ==
  [ConnectionRemove(t, f) EXCEPT !.n = @ - 1]

\* tcp_free: connection_remove, the retransmission timer deleted, the
\* counter decremented.
TcpFree(t, f) ==
  [ConnectionRemove(t, f) EXCEPT !.retrans = @ \ {f}, !.n = @ - 1]

\* Variant: the limit tested with > instead of >=.
TcpNew46Over(t, f) ==
  LET t1 == IF t.n > MaxConnects THEN TcpFree(t, Last(t.lru)) ELSE t
  IN [ConnectionInsert(t1, f) EXCEPT !.n = @ + 1]

\* tcp_new46: at the limit the connection at the tail of the LRU list is
\* freed first; the new one is counted and inserted.
TcpNew46(t, f) ==
  LET t1 == IF t.n >= MaxConnects THEN TcpFree(t, Last(t.lru)) ELSE t
  IN [ConnectionInsert(t1, f) EXCEPT !.n = @ + 1]

ArmIdle(t, f) == [t EXCEPT !.idle = @ \cup {f}]
ArmRetrans(t, f) == [t EXCEPT !.retrans = @ \cup {f}]
DelRetrans(t, f) == [t EXCEPT !.retrans = @ \ {f}]

-----------------------------------------------------------------------------
(* Sending, for a connection without payload.                              *)

\* tcp_senddata46 with plen = 0: one segment at most, a FIN while ours is
\* unacknowledged; the retransmission timer armed (retrans_time 1 if it
\* was 0) when the FIN is outstanding and the timer is not pending.
\* Result: the connection and whether the timer is armed.
TcpSendData(c, pending) ==
  LET fin  == c.sentfin /\ ~c.finacked
      send == ~(c.lastAcked = c.rcvNext /\ ~fin)
      c1   == [c EXCEPT !.lastAcked = IF send THEN c.rcvNext ELSE @,
                        !.sndMax = IF send /\ fin THEN Max({@, c.sndUna + 1}) ELSE @]
      arm  == fin /\ ~pending
  IN [c |-> IF arm /\ c1.retransTime = 0 THEN [c1 EXCEPT !.retransTime = 1] ELSE c1,
      arm |-> arm]

\* tcp_senddata applied to flow f of table t: the connection and the table.
SendData(t, f, c) ==
  LET r == TcpSendData(c, f \in t.retrans)
  IN [c |-> r.c, t |-> IF r.arm THEN ArmRetrans(t, f) ELSE t]

-----------------------------------------------------------------------------
(* Receiving: tcp_recv_cb46.  Each operator maps the table t and the       *)
(* connection c of flow f to their values after the segment s.             *)

Same(t, c) == [t |-> t, c |-> c]

\* The labels close and dropwithreset (a RST|ACK is sent unless s is a
\* RST): tcp_free.
Free(t, f, c) == [t |-> TcpFree(t, f), c |-> c]

\* TCP_CHECK_SEQ_OR_ACK: a RST closes only at rcv_next; a segment without
\* ACK, or beyond rcv_next (answered by an ACK), is dropped.
CheckSeqOrAck(c, s) ==
  CASE RST \in s.flags  -> IF s.seq # c.rcvNext THEN "drop" ELSE "close"
    [] ACK \notin s.flags -> "drop"
    [] s.seq > c.rcvNext  -> "drop"
    [] OTHER              -> "pass"

\* Variant: any ACK one past snd_una taken for an ACK of our FIN.
RecvSendDataAnyAck(t, f, c, s) ==
  LET doff   == UDiff(c.rcvNext, s.seq)
      trim   == doff > s.dlen \/ (doff = s.dlen /\ FIN \notin s.flags)
      ackfin == s.ack = c.sndUna + 1
  IN [dlen  |-> IF trim THEN 0 ELSE s.dlen - doff,
      fin   |-> FIN \in s.flags /\ ~trim,
      acked |-> IF ackfin THEN 1 ELSE 0,
      c     |-> [c EXCEPT !.finacked = @ \/ ackfin,
                          !.retransTime = IF ackfin THEN 0 ELSE @],
      t     |-> IF ackfin THEN DelRetrans(t, f) ELSE t]

\* TCP_RECV_SEND_DATA with plen = 0 and cmd_pfd = -1: the bytes below
\* rcv_next are cut off (and with them a FIN that is not new); the data
\* go to the read buffer; an ACK one past snd_una acknowledges our FIN
\* and clears the retransmission timer.
RecvSendData(t, f, c, s) ==
  LET doff   == UDiff(c.rcvNext, s.seq)
      trim   == doff > s.dlen \/ (doff = s.dlen /\ FIN \notin s.flags)
      ackfin == c.sentfin /\ s.ack = c.sndUna + 1
  IN [dlen  |-> IF trim THEN 0 ELSE s.dlen - doff,
      fin   |-> FIN \in s.flags /\ ~trim,
      acked |-> IF ackfin THEN 1 ELSE 0,
      c     |-> [c EXCEPT !.finacked = @ \/ ackfin,
                          !.retransTime = IF ackfin THEN 0 ELSE @],
      t     |-> IF ackfin THEN DelRetrans(t, f) ELSE t]

\* tcp_sendfin46: mark the FIN, send, and advance the state.
TcpSendFin(t, f, c) ==
  LET r == SendData(t, f, [c EXCEPT !.sentfin = TRUE])
  IN [r EXCEPT !.c.state = CASE @ = "ESTABLISHED" -> "FIN_WAIT_1"
                             [] @ = "CLOSE_WAIT"  -> "CLOSING"
                             [] OTHER             -> @]

\* Variant: the state left at TCP_STATE_LISTEN, the second assignment lost.
NoConnectionListen(t, f, s, admit) ==
  IF SYN \in s.flags /\ (s.flags = {SYN} \/ admit) /\ (~DropSynRate \/ admit)
  THEN [t |-> ArmRetrans(ArmIdle(TcpNew46(t, f), f), f),
        c |-> [NoTcb EXCEPT !.state = "LISTEN", !.rcvNext = s.seq + 1,
                            !.sndUna = 1, !.sndMax = 1, !.retransTime = RetransInit]]
  ELSE Same(t, tcb[f])

\* No connection for the tuple: only a SYN opens one (extra flags are
\* judged by the personality engine, drop_synrate may drop it); the
\* SYN|ACK goes out, the SYN-wait and retransmission timers are armed.
NoConnection(t, f, s, admit) ==
  IF SYN \in s.flags /\ (s.flags = {SYN} \/ admit) /\ (~DropSynRate \/ admit)
  THEN [t |-> ArmRetrans(ArmIdle(TcpNew46(t, f), f), f),
        c |-> [NoTcb EXCEPT !.state = "SYN_RECEIVED", !.rcvNext = s.seq + 1,
                            !.sndUna = 1, !.sndMax = 1, !.retransTime = RetransInit]]
  ELSE Same(t, tcb[f])

SynReceived(t, f, c, s) ==
  CASE ACK \in s.flags /\ (SYN \in s.flags \/ s.ack # c.sndUna) -> Free(t, f, c)
    [] SYN \in s.flags /\ s.seq # c.rcvNext - 1                 -> Free(t, f, c)
    [] SYN \in s.flags                                          -> Same(t, c)
    [] RST \in s.flags                                          -> Free(t, f, c)
    [] ACK \notin s.flags                                       -> Same(t, c)
    [] OTHER ->
         [t |-> ConnectionUpdate(DelRetrans(t, f), f),
          c |-> [c EXCEPT !.retransTime = 0, !.state = "ESTABLISHED"]]

\* Variant: rcv_next advanced by the whole segment, doff not subtracted.
EstablishedUntrimmed(t, f, c, s) ==
  LET r  == RecvSendData(t, f, c, s)
      t1 == ConnectionUpdate(r.t, f)
      c1 == [r.c EXCEPT !.sentfin = @ \/ r.fin,
                        !.state = IF r.fin THEN "CLOSE_WAIT" ELSE @,
                        !.rcvNext = @ + s.dlen + (IF r.fin THEN 1 ELSE 0),
                        !.sndUna = @ + r.acked]
  IN IF c1.sentfin THEN TcpSendFin(t1, f, c1) ELSE SendData(t1, f, c1)

\* A FIN of the peer makes honeyd answer with its own FIN at once.
Established(t, f, c, s) ==
  LET r  == RecvSendData(t, f, c, s)
      t1 == ConnectionUpdate(r.t, f)
      c1 == [r.c EXCEPT !.sentfin = @ \/ r.fin,
                        !.state = IF r.fin THEN "CLOSE_WAIT" ELSE @,
                        !.rcvNext = @ + r.dlen + (IF r.fin THEN 1 ELSE 0),
                        !.sndUna = @ + r.acked]
  IN IF c1.sentfin THEN TcpSendFin(t1, f, c1) ELSE SendData(t1, f, c1)

\* The acknowledgment of our FIN ends the connection (label closed).
Closing(t, f, c, s) ==
  LET r  == RecvSendData(t, f, c, s)
      t1 == ConnectionUpdate(r.t, f)
      c1 == [r.c EXCEPT !.sndUna = @ + r.acked]
  IN IF c1.finacked THEN Free(t1, f, c1) ELSE SendData(t1, f, c1)

Synchronized(t, f, c, s) ==
  CASE CheckSeqOrAck(c, s) = "drop"  -> Same(t, c)
    [] CheckSeqOrAck(c, s) = "close" -> Free(t, f, c)
    [] c.state = "ESTABLISHED"       -> Established(t, f, c, s)
    [] c.state = "CLOSING"           -> Closing(t, f, c, s)

Recv(t, f, s, admit) ==
  IF f \notin t.conns THEN NoConnection(t, f, s, admit)
  ELSE IF tcb[f].state = "SYN_RECEIVED" THEN SynReceived(t, f, tcb[f], s)
  ELSE Synchronized(t, f, tcb[f], s)

SeqSpan(s) ==
  s.seq + s.dlen + (IF SYN \in s.flags THEN 1 ELSE 0) + (IF FIN \in s.flags THEN 1 ELSE 0)

\* The segments a peer may send: toward a tuple without a connection the
\* peer's initial sequence number is taken as 0, the origin of the
\* sequence numbers honeyd later compares.
Segments(f) ==
  IF f \in tbl.conns THEN Segment
  ELSE {s \in Segment : s.seq = 0 /\ s.ack = 0 /\ s.dlen = 0}

\* Whether the personality engine and drop_synrate let a new SYN through
\* is open only where the code consults them.
Admits(f, s) ==
  IF f \notin tbl.conns /\ SYN \in s.flags /\ (s.flags # {SYN} \/ DropSynRate)
  THEN BOOLEAN ELSE {TRUE}

\* A peer's segment reaches tcp_recv_cb46.
TcpRecvCb46(f) ==
  /\ segs < MaxSegs
  /\ \E s \in Segments(f) : \E admit \in Admits(f, s) :
       LET r == Recv(tbl, f, s, admit)
       IN /\ tbl' = r.t
          /\ tcb' = [tcb EXCEPT ![f] = r.c]
          /\ peerHigh' = [peerHigh EXCEPT ![f] = Max({@, SeqSpan(s)})]
  /\ segs' = segs + 1
  /\ UNCHANGED udpVars

-----------------------------------------------------------------------------
(* Timers.                                                                 *)

\* honeyd_tcp_timeout: the idle (or SYN-wait, or close-wait) timer fires.
HoneydTcpTimeout(f) ==
  /\ f \in tbl.idle
  /\ tbl' = TcpFree(tbl, f)
  /\ UNCHANGED <<tcb, peerHigh, segs, rnd>>
  /\ UNCHANGED udpVars

\* tcp_retrans_timeout: the time doubles; at RetransMax the connection is
\* freed, in SYN_RECEIVED the SYN|ACK is resent and the timer re-armed,
\* otherwise tcp_senddata resends what is outstanding.
TcpRetransTimeout(f) ==
  /\ f \in tbl.retrans
  /\ LET t0 == DelRetrans(tbl, f)
         c0 == [tcb[f] EXCEPT !.retransTime = @ * 2]
         r  == IF c0.retransTime >= RetransMax THEN Free(t0, f, c0)
               ELSE IF c0.state = "SYN_RECEIVED" THEN Same(ArmRetrans(t0, f), c0)
               ELSE SendData(t0, f, c0)
     IN /\ tbl' = r.t
        /\ tcb' = [tcb EXCEPT ![f] = r.c]
  /\ UNCHANGED <<peerHigh, segs, rnd>>
  /\ UNCHANGED udpVars


-----------------------------------------------------------------------------
(* UDP connections: udp_recv_cb46, udp_new, udp_free, honeyd_udp_timeout. *)
(* The table shares connection_insert and connection_remove with TCP but  *)
(* has no counter and no limit.  A datagram is abstracted to the checks   *)
(* it passes: a uh_ulen that disagrees with the payload length, a port    *)
(* honeyd_block blocks, a bad checksum, or none of these.                 *)

Datagram == {"badlen", "blocked", "badsum", "valid"}

\* Variant: the table's list forgotten by the insert.
UdpInsertTreeOnly(u, f) == [u EXCEPT !.conns = @ \cup {f}]

\* udp_new: calloc, connection_insert into udpcons and udplru; the
\* timeout event is only initialised (evtimer_set), not added.
UdpNew(u, f) == ConnectionInsert(u, f)

\* udp_free: connection_remove, which deletes the idle timer.
UdpFree(u, f) == ConnectionRemove(u, f)

\* Variant: a new connection returns before its idle timer is armed.
UdpRecvNoArmNew(u, f, d, mem) ==
  CASE d # "valid"                           -> u
    [] f \in u.conns                         -> ArmIdle(u, f)
    [] f \notin UdpOpen \/ ~mem               -> u
    [] OTHER                                 -> UdpNew(u, f)

\* udp_recv_cb46 for the table u: a bad length returns, a blocked port or
\* a bad checksum goes to justlog, all without touching the connection
\* or its timer; without a connection a closed port, or a failed
\* udp_new (mem FALSE), goes to closed (an ICMPv6 port unreachable);
\* otherwise the connection is created, and its timer (re-)armed with
\* HONEYD_UDP_WAIT.
UdpRecv(u, f, d, mem) ==
  CASE d # "valid"                           -> u
    [] f \in u.conns                         -> ArmIdle(u, f)
    [] f \notin UdpOpen \/ ~mem               -> u
    [] OTHER                                 -> ArmIdle(UdpNew(u, f), f)

\* A datagram for tuple f reaches udp_recv_cb46; calloc in udp_new may fail.
UdpRecvCb46(f) ==
  /\ dgrams < MaxDgrams
  /\ \E d \in Datagram, mem \in BOOLEAN :
       /\ (mem = FALSE) => (f \notin udp.conns /\ f \in UdpOpen /\ d = "valid")
       /\ udp' = UdpRecv(udp, f, d, mem)
  /\ dgrams' = dgrams + 1
  /\ UNCHANGED tcpVars

\* honeyd_udp_timeout: the idle timer fires and frees the connection.
HoneydUdpTimeout(f) ==
  /\ f \in udp.idle
  /\ udp' = UdpFree(udp, f)
  /\ UNCHANGED <<dgrams, rnd>>
  /\ UNCHANGED tcpVars

-----------------------------------------------------------------------------
(* honeyd_recv_cb6: the template lookup in front of both handlers.         *)

\* The template found for a packet to address a, with the random template
\* generator's state after it: template_find of the destination; in
\* random mode, when none exists (the source, a peer, has no template),
\* get_template_name_from_packet names the destination of a TCP or UDP
\* packet, random_create_ipv6_template may create one, and template_find
\* looks again.
Lookup(a) ==
  IF a \in Configured \cup rnd.tmpls \/ ~RandomMode
  THEN {[r |-> rnd, found |-> a \in Configured \cup rnd.tmpls]}
  ELSE {[r |-> r2, found |-> a \in r2.tmpls] : r2 \in Rnd!RandomOutcomes(rnd, a)}

\* A TCP segment captured for tuple f: without a template it is dropped,
\* otherwise honeyd_input6 hands it to tcp_recv_cb46.
RecvCb6Tcp(f) ==
  /\ segs < MaxSegs
  /\ \E l \in Lookup(Dst[f]) :
       /\ rnd' = l.r
       /\ IF l.found THEN TcpRecvCb46(f)
          ELSE /\ segs' = segs + 1
               /\ UNCHANGED <<tbl, tcb, peerHigh>>
               /\ UNCHANGED udpVars

\* A UDP datagram captured for tuple f, likewise for udp_recv_cb46.
RecvCb6Udp(f) ==
  /\ dgrams < MaxDgrams
  /\ \E l \in Lookup(Dst[f]) :
       /\ rnd' = l.r
       /\ IF l.found THEN UdpRecvCb46(f)
          ELSE /\ dgrams' = dgrams + 1
               /\ UNCHANGED udp
               /\ UNCHANGED tcpVars

Init ==
  /\ tbl = [conns |-> {}, lru |-> <<>>, n |-> 0, idle |-> {}, retrans |-> {}]
  /\ tcb = [f \in Flows |-> NoTcb]
  /\ peerHigh = [f \in Flows |-> 0]
  /\ segs = 0
  /\ udp = [conns |-> {}, lru |-> <<>>, idle |-> {}]
  /\ dgrams = 0
  /\ rnd = Rnd!NoRandom

Next ==
  \/ \E f \in Flows :
       \/ RecvCb6Tcp(f)
       \/ HoneydTcpTimeout(f)
       \/ TcpRetransTimeout(f)
  \/ \E f \in UdpFlows :
       \/ RecvCb6Udp(f)
       \/ HoneydUdpTimeout(f)

\* libevent fires every pending timer once its interval has passed.
Fairness ==
  /\ \A f \in Flows : WF_vars(HoneydTcpTimeout(f)) /\ WF_vars(TcpRetransTimeout(f))
  /\ \A f \in UdpFlows : WF_vars(HoneydUdpTimeout(f))

Spec == Init /\ [][Next]_vars /\ Fairness

-----------------------------------------------------------------------------
(* Properties.                                                             *)

States == {"CLOSED", "SYN_RECEIVED", "ESTABLISHED", "CLOSE_WAIT", "CLOSING", "FIN_WAIT_1"}

TypeOK ==
  /\ tbl.conns \subseteq Flows
  /\ tbl.lru \in Seq(Flows)
  /\ tbl.n \in Int
  /\ tbl.idle \subseteq Flows /\ tbl.retrans \subseteq Flows
  /\ \A f \in tbl.conns : tcb[f].state \in States \ {"CLOSED"}
  /\ peerHigh \in [Flows -> Nat]
  /\ segs \in 0..MaxSegs
  /\ udp.conns \subseteq UdpFlows /\ udp.lru \in Seq(UdpFlows)
  /\ udp.idle \subseteq UdpFlows /\ dgrams \in 0..MaxDgrams
  /\ rnd.count \in Nat /\ rnd.blocked \cup rnd.tmpls \subseteq Range(Dst)

\* The tree, the LRU list and honeyd_nconnects agree and stay within
\* HONEYD_MAX_CONNECTS, through evictions in tcp_new46 and frees from
\* segments and both timers: TAILQ_LAST is never taken of an empty list.
TableConsistent ==
  /\ tbl.n = Cardinality(tbl.conns)
  /\ Len(tbl.lru) = tbl.n
  /\ ToSet(tbl.lru) = tbl.conns
  /\ tbl.n <= MaxConnects

\* No timer is pending for a freed connection: libevent never calls
\* honeyd_tcp_timeout or tcp_retrans_timeout on freed memory.
TimersOnLiveConnections == tbl.idle \cup tbl.retrans \subseteq tbl.conns

\* honeyd never acknowledges sequence space its peer has not sent:
\* rcv_next stays within what the peer's segments covered.
NeverAckUnsent == \A f \in tbl.conns : tcb[f].rcvNext <= peerHigh[f]

\* snd_una never passes what honeyd has sent: only an acknowledgment of
\* a FIN honeyd sent advances it.
SndUnaNotBeyondSent == \A f \in tbl.conns : tcb[f].sndUna <= tcb[f].sndMax

\* The dynamic templates never outnumber config.max_random_ipv6_hosts:
\* random_create_ipv6_template tests its static counter before it creates
\* one, whichever addresses the packets name and however the draws fall.
RandomHostsBounded ==
  MaxRandomHosts # 0 => Cardinality(rnd.tmpls) <= MaxRandomHosts

\* Consistency of random mode (the comment on random_create_ipv6_template):
\* an address once rejected never gets a dynamic template later, through
\* any sequence of packets to it and to other addresses.
RejectedNeverCreated == rnd.blocked \cap rnd.tmpls = {}

\* Every UDP connection in udpcons is on udplru exactly once and has its
\* idle timer pending: udp_new inserts without arming the timer, so only
\* the generic_timeout that udp_recv_cb46 runs after it keeps a
\* connection, which no counter or limit bounds, from staying forever,
\* and connection_remove on udp_free leaves no timer behind.
UdpTableConsistent ==
  /\ ToSet(udp.lru) = udp.conns
  /\ Len(udp.lru) = Cardinality(udp.conns)
  /\ udp.idle = udp.conns

\* Once the peers fall silent, every UDP connection is eventually freed
\* by its idle timer (honeyd_udp_timeout).
UdpConnectionsEventuallyFreed ==
  \A f \in UdpFlows : (f \in udp.conns) ~> (f \notin udp.conns)

\* Once the peers fall silent, every connection is eventually freed by
\* its FIN exchange, a reset, or one of its timers.
ConnectionsEventuallyFreed == \A f \in Flows : (f \in tbl.conns) ~> (f \notin tbl.conns)

=============================================================================
