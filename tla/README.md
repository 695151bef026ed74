# TLA+ models of honeyd-ipv6

This directory holds TLA+ models of the IPv6 parts of honeyd (`src/honeyd-ip6/`) and the TLC configurations that check them. Every action is translated from the C source. `PROJECT.json` maps each definition to the lines it models.

## The system and its parts

honeyd is a single-threaded libevent reactor. Packets captured on an interface (`interface.c`) enter `honeyd_recv_cb`. IPv6 packets then go to `honeyd_input6` and the virtual router (`honeyd_route_packet46`), which adds latency and loss through the delay engine (`honeyd_delay_packet46`, `honeyd_delay_cb6`). They finally reach `honeyd_dispatch6`:

- fragments go to the reassembler (`ip6frag.c`);
- TCP goes to `tcp_recv_cb46` and the connection table;
- UDP goes to `udp_recv_cb46`;
- ICMPv6 goes to `icmp6.c`, which handles echo, errors, neighbor discovery (NDP) and multicast.

Outgoing packets are fragmented by `ip6_send_fragments` when they exceed the MTU. They go out through the delay engine again. Ethernet delivery may wait on an NDP neighbor solicitation (`icmp6_send_neighbor_sol`, `call_ndp_callback`).

Concurrency in honeyd is callback interleaving, not threads. Between any two packets, any due timer may fire: fragment expiry, TCP idle, TCP retransmission or a delayed packet. The callbacks share the fragment tree, the connection table, the packet pool and template reference counts. The models make these interleavings explicit.

## Modules

### `IP6Frag` / `MC_IP6Frag`: fragment reassembly (`ip6frag.c`) and its sender (`honeyd.c` `ip6_send_fragments`)

State:

| Variable | Models |
|---|---|
| `live` | keys present in the `fragments6` splay tree |
| `fraglist[k]` | the `TAILQ` of entries, as `<<[off, len]>>` in list order |
| `totalLen[k]` | `total_len`, with `NoTotal` = -1 |
| `age[k]` | time since `ip6_fragment_new` armed the timer |
| `sent[k]` | fragments delivered, for the environment |
| `out` | the packet reassembled in the last step |

Offsets and lengths are in 8-octet units, and packets carry no extension headers. A reassembled packet is abstracted to its total length and the set of units written into its buffer.

Actions:

- `Deliver(k)` and `Inject(k)` both run `IP6Fragment`, the whole of `ip6_fragment`:
  - find or create the set;
  - take `total_len` from a fragment without the more-fragments bit;
  - `ip6_insert_fragment`, which does no completeness test on the first insert;
  - `is_fragment_complete`;
  - `assemble_fragments` and `free_fragments`.
- `IP6FragmentTimeout(k)` is `ip6_fragment_timeout`.
- `Tick` advances time.

The completeness tests translate the C functions one to one, including the order in which `is_gap_beetween_fragments` accumulates. `Deliver` draws fragments from `SendFragment`, which models `get_number_of_fragments` and the loop of `ip6_send_fragments`.

### `FragSpec`: what reassembly promises

`FragSpec` is the abstract reassembler. Per key it keeps:

- `open`: whether a partial packet is held;
- `held`: the payload units received;
- `last`: the end announced by the last fragment.

It has four actions. `Receive` keeps a fragment. `Reassemble` hands the packet on with exactly the units received, and only when every unit below the end is present. `Discard` drops a partial packet whole. `Quiet` is a step that hands nothing on. The abstract spec keeps one quirk of the code: the first fragment of a set is never tested for completeness.

`IP6Frag` instantiates it as `Reassembly`, with this refinement mapping:

| `FragSpec` | `IP6Frag` |
|---|---|
| `open` | `live` |
| `held[k]` | the units covered by `fraglist[k]` |
| `last` | `totalLen` |
| `done` | `out` without its bounds flag |

The mapping covers the keys in the constant `Honest`. These are packets from a sender whose fragments arrive once, in order, and are never forged. `Frags` is the set of fragments honeyd's own fragmenter sends. Other keys still run through the same reassembler in the same run, reordered, duplicated and forged, but the mapping hides them. `ReassemblySpec == Reassembly!Spec` is checked as a temporal property. `IP6FragmentTimeout` maps to `Discard`, and `Tick` to stuttering or `Quiet`. For reordered keys the gap bug (frag_gap) breaks the refinement, which is why it is stated for honest keys only.

### `Ip6ExtHdr`: where a received fragment is split (`honeyd.c` `get_ip6_next_hdr`, `ip6frag.c`)

A pure-algorithm module in the style of a checked function. `Init` picks one received fragment from `Packets`, and `Next` leaves it alone. A packet is described by three things:

- the types of its extension headers, the last one the fragment header, in every order RFC 8200 allows in front of a fragment header (`HeaderOrders`);
- the `ext_len` byte of each header (for the fragment header, its reserved byte, which `get_last_unfragmentable_ext_hdr` reads in that place);
- the number of data bytes.

The code's loops are recursive operators that carry the loop variables: `NextHdrWalk` for `get_ip6_next_hdr`, and `LastUnfragmentableWalk` for `get_last_unfragmentable_ext_hdr`. Both keep the loop bound as the code has it: `ip6->ip6_plen` read without `ntohs` (`RawPlen`, for a little-endian host). `DataLen` is `data_len` of `ip6_fragment`, a `uint16_t`. The reference is the layout itself: `FragOffset`, the octets in front of the fragment header. `ip6_delay_internal` calls `ip6_fragment` only when `get_ip6_next_hdr` found the fragment header, so `FragmentSplitCorrect` is stated for those fragments (`GetIp6NextHdr(pkt) # -1 => ...`).

### `TcpCon` / `MC_TcpCon`: TCP connection table and state machine (`honeyd.c`)

State:

- `tbl` holds the table:
  - `conns`: the `tcpcons` tree;
  - `lru`: the `tcplru` TAILQ, head first;
  - `n`: `honeyd_nconnects`;
  - `idle`: connections with a pending `conhdr.timeout`;
  - `retrans`: connections with a pending `retrans_timeout`.
- `tcb[f]` holds the `tcp_con` fields the receive path uses: `state`, `rcv_next`, `snd_una`, `sentfin`, `finacked`, `retrans_time` and `last_acked`. `sndMax` is a ghost variable: the highest sequence number honeyd has sent.
- `peerHigh` is a ghost variable: the highest sequence number the peer has sent.

Actions:

- `TcpRecvCb46(f)` is all of `tcp_recv_cb46` for one segment from the finite set `Segments(f)`:
  - the `con == NULL` path, with SYN admission and eviction in `tcp_new46`;
  - `TCP_CHECK_SEQ_OR_ACK` and `TCP_RECV_SEND_DATA`;
  - the SYN_RECEIVED, ESTABLISHED and CLOSING cases;
  - the `close`, `dropwithreset` and `drop` exits;
  - the `tcp_senddata` or `tcp_sendfin` at the end of each case.
- `HoneydTcpTimeout(f)` is the idle timer.
- `TcpRetransTimeout(f)` is `tcp_retrans_timeout`, including its doubling and the free at 60.

The port is open and has no service command, so the payload is empty and `poff` and `dupacks` stay 0. Personality decisions are a nondeterministic `admit`; `drop_synrate` is the constant `DropSynRate`. Timers are untimed: a pending timer may fire at any step.

UDP shares the table helpers but has its own state, `udp` (`udpcons`, `udplru` and the pending idle timers):

- `UdpRecvCb46(f)` is `udp_recv_cb46` over an abstract `Datagram`. A datagram either has a bad length, which returns, or is blocked or fails its checksum, which goes to `justlog`, or is valid. All three invalid cases leave the connection and its timer alone. Without a connection, a closed port, or a `udp_new` whose `calloc` fails, goes to `closed`. Otherwise `udp_new` inserts the connection. Every valid datagram then re-arms the timer with `HONEYD_UDP_WAIT`.
- `HoneydUdpTimeout(f)` is `honeyd_udp_timeout`, which frees the connection through `udp_free`.

`udp_new` keeps no counter and sets no limit.

In front of both handlers sits the template lookup of `honeyd_recv_cb6` (`Lookup`, `RecvCb6Tcp`, `RecvCb6Udp`). A packet to an address without a template is dropped. In random mode, `random_create_ipv6_template` (module `RandomIp6`, state `rnd`) may first create one.

### `RandomIp6`: on-demand templates (`randomipv6.c`)

`RandomIp6` models the generator as operators on a record:

- `count`: the static `dynamically_created_templates`;
- `blocked`: the addresses `bloom_add` put in the block filter;
- `tmpls`: the addresses that got a cloned template.

`RandomCreateIpv6Template` translates the function. It returns nothing at the limit and nothing for a probably-blocked address. An accepted address goes to `create_template` and is counted, even when the default template is missing or the clone fails. A rejected address is added to the filter. Three things are free choices:

- a `bloom_check` false positive;
- the draw of `is_randomly_accepted`;
- the allocation inside `template_clone`.

### `Ip6Delay` / `MC_Ip6Delay`: the IPv6 delay engine, delivery and neighbor discovery (`honeyd.c`, `icmp6.c`)

This module tracks ownership: of pool buffers, of the pcap capture buffer and of template references. Each C function is an operator from a state record to the *set* of states it can end in. An action picks one of them (`Apply`). Nested sends (an echo reply or error sent from inside a delay callback) re-enter `honeyd_ip6_send`. The operators are therefore mutually `RECURSIVE`, and a state whose nesting exceeds `MaxDepth` is cut.

State:

| Variable | Models |
|---|---|
| `pool[b]` | whether pool buffer `b` is allocated |
| `badFree` | buffers `pool_free` was called on while not allocated (the capture buffer `Pcap` included) |
| `crashed` | a NULL template was dereferenced |
| `delays` | descriptors of `honeyd_delay_packet46` with a pending timer: buffer, template, flags, hop-limit error, kind, neighbor |
| `ndp[x]` | the `ndp_neighbor_req` of neighbor `x`: cached, MAC resolved, `cb`, `arg`, and a ghost `waiting` flag |
| `ra` | a router advertisement is cached |
| `ref[t]` | `refcnt` of template `t`, starting at its configuration reference 1 |
| `relFree` | templates `template_free` was called on after their release |

Actions:

- `RecvCb6(x)` is `honeyd_recv_cb6` and `honeyd_input6` (`HoneydInput6`) for one packet of neighbor `x`. `honeyd_route_packet46` is abstracted to the outcomes in `InboundRoutes`: drop, a hop-limit error sent from a router's template, internal, or external, each with or without latency.
- `HostSend(t, x)`: a protocol handler of template `t` fills a pool buffer and calls `honeyd_ip6_send`, routed by `HostRoutes`.
- `DelayTimeout(d)`: the timer of a descriptor fires, running `honeyd_delay_cb6`.
- `RouterAdvertisement`: `handle_router_advertisement` caches a router.

The descriptor's processing is `DelayCb6` with all of its callees:

- `DelayInternal`, `DelayExternal` and `DelayEthernet`;
- `OwnMemory6`, `SendNormally6`, `DeliverEthernet6` and `LocalNeighbor`;
- the ICMPv6 handlers `HandleNA`, `HandleNS`, `HandleEchoRequest` and `Icmp6ErrorSend`;
- `NeighborSol` and `CallNdpCallback`.

`template.c` and `pool.c` are not in the repository. `TemplateRef`, `TemplateFree`, `NextBuf`, `Alloc` and `PoolFree` are modelled from the spec: a reference count, and a pool that records invalid frees.

## Runs

| run | expect | checks | bounds | shows |
|---|---|---|---|---|
| frag_reassembly | pass | TypeOK, RoundTrip, FragListSorted, NoStuckCompleteSet, SetsEventuallyFreed, ReassemblySpec | 2 packets of 6 units, chunk 2 (3 fragments each); k2 honest; k1 reordered, duplicated, one forged middle fragment; at most 3 entries | the honest packet reassembles to the packet that was split, and `IP6Frag` refines `FragSpec` for it; lists stay sorted; no covered set waits; every set is freed |
| frag_gap | violation | ReassembledWithoutGap | 6-unit packet, fragments 1 and 3 | **bug**: a hole one fragment wide is not detected (ip6frag.c:136) |
| frag_truncate | violation | RoundTrip | 5-unit packet | **bug**: the fragment count drops the last unit (honeyd.c:763) |
| frag_atomic | violation | NoStuckCompleteSet | forged atomic fragment | **bug**: a one-fragment set is never reassembled (ip6frag.c:230) |
| frag_overflow | violation | AssemblyInBounds | forged fragment past total_len | **bug**: heap overflow in assemble_fragments (ip6frag.c:419) |
| tcp_table | pass | TypeOK, TableConsistent, TimersOnLiveConnections, NeverAckUnsent, SndUnaNotBeyondSent | 3 flows, table of 2, seq and ack 0..2, 5 segments, symmetry over flows | eviction, frees and timers keep tree, LRU, counter and timers in agreement; sequence accounting stays within what was sent |
| tcp_liveness | pass | UdpTableConsistent, RandomHostsBounded, RejectedNeverCreated, ConnectionsEventuallyFreed, UdpConnectionsEventuallyFreed | 2 TCP flows to a configured address, table of 1, 3 segments, `drop_synrate` on; 2 UDP flows (open and closed port) to two addresses served only in random mode, at most 1 random host, 2 datagrams | the UDP tree, list and timers agree; dynamic templates stay within the limit and a rejected address never gets one; every TCP and UDP connection is eventually freed once the peers stop |
| delay_ownership | pass | TypeOK, PoolFreesValid, ExclusiveOwnership | 2 pool buffers, 1 template, 2 neighbors (one off-link), routing topology, every host route, inbound routes without an undelayed external or a delayed hop-limit outcome, depth 1, refcnt at most 2 | pool_free only frees allocated buffers; every pending descriptor and parked request owns a distinct allocated buffer |
| delay_release | violation | ResourcesReleased | as delay_ownership | **bug**: ip6_delay_internal takes a reference on the destination template that nothing drops (honeyd.c:1303); it and ip6_delay_ethernet release the descriptor's reference that honeyd_delay_cb6 releases again (1297, 1362, 1403) |
| ndp_readvert | violation | PoolFreesValid | neighbors may advertise again | **bug**: call_ndp_callback never clears cb; a second advertisement frees the parked packet again (icmp6.c:462) |
| ext_split | violation | FragmentSplitCorrect | the 6 RFC 8200 header orders, `ext_len` 0 or 1, reserved byte 0 or 255, 8 or 64 data bytes | **bug**: the unfragmentable size adds the next header's length (ip6frag.c:372); the trace's reserved byte 255 gives 2088 octets where 48 are right, and `data_len` wraps to 63464 (ip6frag.c:486) |
| delay_null | violation | NoNullTemplate | received packets may be for a TEMPLATE_EXTERNAL host | **bug**: honeyd_input6 passes a NULL template with DELAY_ETHERNET; ip6_delay_ethernet dereferences it (honeyd.c:1327) |

The bounds are large enough for the interesting cases to happen:

- Two packets of three fragments each let two sets live at once. One is honest, for the round trip and the refinement. The other is adversarial: its last fragment can overtake a middle one, a fragment can arrive twice, and a forged fragment can sit in the middle. Three entries allow a duplicate next to a forged fragment. frag_truncate covers a length that is not a whole number of chunks.
- ext_split enumerates every allowed header order with headers of 8 and 16 octets. A 16-octet first header is the smallest case where the length read from the next header differs from the right one. A reserved byte of 255 shows the same error from the other side and makes the computed size exceed the payload, so `data_len` wraps.
- The TCP run has three flows for a table of two, so the third SYN evicts the LRU tail while the other connections have pending timers.
- Sequence numbers up to 2 let a peer resend, overlap and acknowledge beyond what honeyd sent.
- In tcp_liveness the UDP peers send to two different random-mode addresses with a limit of one host. Two datagrams are enough to reach the limit with the second address, or to retry an address that was rejected. The TCP part has 3 segments, which is enough for SYN, ACK and FIN, or for two SYNs and an eviction. This keeps the product of TCP and UDP interleavings within time.

- The delay runs have two pool buffers: one packet can be parked on a solicitation while another is delayed. With one template, host packets, hop-limit errors and destinations share its refcount. One neighbor is off-link, so a cached router advertisement changes the delivery path. A nesting depth of 1 lets a handler's reply go through the full send path once.
- delay_ownership has three restrictions. First, received packets for external hosts are delayed: with no latency, the capture buffer itself reaches `honeyd_ether_cb46`, and `PoolFreesValid` fails in one step (the hazard at honeyd.c:1259). Second, a neighbor does not advertise while an advertisement of it is in flight or its address is known (`NaInFlight`, `Readvertise`), because ndp_readvert shows what happens when it does. Third, a received packet's hop-limit error is sent without latency (`PassInboundRoutes`). This keeps the run within its time. The delayed copy it leaves out goes through the same branch of `honeyd_delay_packet46` as delayed internal packets and delayed host hop-limit errors, which the run includes.

## Fairness

libevent fires every pending timer once its time has come, and time advances. So:

- `IP6Frag` assumes weak fairness of `Tick` and of each `IP6FragmentTimeout(k)`.
- `TcpCon` assumes weak fairness of both timers of each TCP flow, and of the idle timer of each UDP flow.
- `Ip6Delay` checks invariants only, so it assumes no fairness.

Packet arrival carries no fairness: peers may go silent at any time.

## Not modelled yet, and the plan

- The next-header bookkeeping of the reassembler (`nxt_hdr`, the hazard at ip6frag.c:475) is not modelled. RFC 8200 makes all fragments carry the same value, so only a forged fragment can disagree. On the send path, `ip6_send_fragments` passes `last_unfragmentable_ext_hdr` to `get_last_unfragmentable_ext_hdr` by value, so it stays NULL (honeyd.c:849). This fails on every packet with a hop-by-hop header, which a unit test reaches directly.
- `Ip6ExtHdr` keeps the raw `ip6_plen` bound of both walks, but no run checks the case it breaks: a payload length that is a multiple of 256 reads as a bound below 256, the fragment header is not found, and the fragment is dispatched unreassembled (honeyd.c:738). `FragmentSplitCorrect` is about recognised fragments, and a run checks one violated property.
- TCP option parsing (`tcp_do_options`) is not modelled. It is a sequential loop over one header. Its edge cases (a zero-length option ends the loop, and the last byte reads its length one past the header) are byte-level and need no interleaving.
- The prefix comparison of `network.c` (`network_compare6`) is not modelled. It is a pure comparison of two prefixes with no state and no interleaving, which unit tests reach directly.
- TCP payload from service commands and the states only subsystems reach (SYN_SENT) are not modelled.
- `udp_send` is not modelled: only a service command calls it. The read buffers of `udp.c` are not in the repository. The ICMPv4 soft-error path that frees UDP connections is IPv4 only.
- In `Ip6Delay`:
  - the route lookup, link loss and busy links of `honeyd_route_packet46` are abstracted to a set of outcomes;
  - packet lengths are not modelled, so neither is the raw `ip6_plen` at honeyd.c:4391 nor the ownership of packets above the MTU;
  - ICMPv6 option parsing is not modelled, including the zero-length option loops at icmp6.c:344 and :574;
  - two NULL dereferences are left out, and recorded as hazards. `DelayInternal` always finds a destination template, but `honeyd_route_packet46` returns FW_INTERNAL for a solicited-node multicast address before any template lookup, so `template_find` at honeyd.c:1302 can return NULL, which `honeyd_dispatch6` dereferences (honeyd.c:3771). `NeighborSol` leaves out a template without an Ethernet address, whose NULL `ethernet_addr` `icmp6_send_neighbor_sol` copies from (icmp6.c:631). A crash ends every behaviour, so modelling these would only add terminal states that no invariant of the pool and reference counts speaks about;
  - `handle_neighbor_solicitation` leaves a parked packet waiting (icmp6.c:406); this is tracked by `ndp[x].waiting` but not yet checked.
- Multicast groups are not modelled.
- For random templates, the names taken from neighbor solicitations and echo requests are not modelled, nor is the configured percentage (the hazard at randomipv6.c:86). The counter counts failed creations; no run asserts that it equals the number of templates, because that is how the code counts.
- `parse.c`, `interface.c` and the IPv4 path are set-up, I/O or legacy code, and are left out.
