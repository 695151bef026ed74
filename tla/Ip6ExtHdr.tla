----------------------------- MODULE Ip6ExtHdr -----------------------------
(***************************************************************************)
(* Where a received IPv6 fragment is split (src/honeyd-ip6/honeyd.c and    *)
(* ip6frag.c).  ip6_delay_internal looks for the fragment header with      *)
(* get_ip6_next_hdr; ip6_fragment takes the unfragmentable part from       *)
(* get_size_of_unfragmentable_part (get_last_unfragmentable_ext_hdr) and   *)
(* the data length from the payload length minus that part and the        *)
(* fragment header; assemble_fragments copies that many bytes of headers   *)
(* in front of the reassembled data.                                       *)
(*                                                                         *)
(* A packet is its chain of extension headers, the last one the fragment   *)
(* header, each with its ext_len byte (for the fragment header, its        *)
(* reserved byte, which sits where other headers keep ext_len), and the    *)
(* number of data bytes after the fragment header.  Header bytes that no   *)
(* walk reads are left out.  The walks are the code's loops, written as    *)
(* recursive operators over the header index and the byte offset.         *)
(***************************************************************************)
EXTENDS Integers, Sequences, SequencesExt

CONSTANTS
  ExtLens,    \* values of the ext_len byte of the headers before the fragment header
  Reserved,   \* values of the fragment header's reserved byte
  DataLens    \* numbers of data bytes after the fragment header

IPPROTO_HOPOPTS  == 0
IPPROTO_TCP      == 6
IPPROTO_ROUTING  == 43
IPPROTO_FRAGMENT == 44
IPPROTO_DSTOPTS  == 60
IP6_HDR_LEN      == 40
FRAG_HDR_LEN     == 8    \* sizeof(struct ip6_ext_hdr) for the fragment header

\* The orders RFC 8200 section 4.1 allows for the headers in front of a
\* fragment header: hop-by-hop options first, destination options only
\* ahead of a routing header.
HeaderOrders ==
  { <<>>, <<IPPROTO_HOPOPTS>>, <<IPPROTO_ROUTING>>,
    <<IPPROTO_HOPOPTS, IPPROTO_ROUTING>>, <<IPPROTO_DSTOPTS, IPPROTO_ROUTING>>,
    <<IPPROTO_HOPOPTS, IPPROTO_DSTOPTS, IPPROTO_ROUTING>> }

\* types[i]: the type of the i-th extension header; lens[i]: its ext_len
\* byte; data: bytes of fragment data.
Packets ==
  UNION { { [types |-> pre \o <<IPPROTO_FRAGMENT>>, lens |-> ls, data |-> d] :
              ls \in { l \in [1..Len(pre) + 1 -> ExtLens \cup Reserved] :
                         /\ \A i \in 1..Len(pre) : l[i] \in ExtLens
                         /\ l[Len(pre) + 1] \in Reserved },
              d \in DataLens } : pre \in HeaderOrders }

VARIABLE pkt   \* the fragment ip6_delay_internal hands to ip6_fragment

\* ip6_nxt, and the ext_nxt byte of header i (the fragment header carries
\* the upper-layer protocol).
IpNxt(p) == p.types[1]
ExtNxt(p, i) == IF i < Len(p.types) THEN p.types[i + 1] ELSE IPPROTO_TCP

\* get_ext_hdr_length: (ext_len + 1) units of 8 bytes.
GetExtHdrLength(p, i) == (p.lens[i] + 1) * 8

\* Where the fragment header begins and how long the payload is.
FragOffset(p) ==
  IP6_HDR_LEN + FoldSeq(LAMBDA x, y : x + y, 0,
                        [i \in 1..Len(p.types) - 1 |-> GetExtHdrLength(p, i)])
PayloadLen(p) == FragOffset(p) - IP6_HDR_LEN + FRAG_HDR_LEN + p.data

\* ip6->ip6_plen as both walks read it: in network byte order, without
\* ntohs, on a little-endian host.
RawPlen(p) == (PayloadLen(p) % 256) * 256 + PayloadLen(p) \div 256

\* is_ext_hdr_id: the header types get_ip6_next_hdr walks through.
IsExtHdrId(t) == t \in {0, 43, 44, 51, 50, 60, 59}

\* The loop of get_ip6_next_hdr: header i starts at byte pos, which is
\* both pkt_ptr and position_in_pkt.
RECURSIVE NextHdrWalk(_, _, _)
NextHdrWalk(p, i, pos) ==
  CASE ~(pos < RawPlen(p))                                       -> -1
    [] ExtNxt(p, i) # IPPROTO_FRAGMENT /\ ~IsExtHdrId(ExtNxt(p, i)) -> -1
    [] ExtNxt(p, i) = IPPROTO_FRAGMENT -> pos + GetExtHdrLength(p, i)
    [] OTHER -> NextHdrWalk(p, i + 1, pos + GetExtHdrLength(p, i))

\* get_ip6_next_hdr(.., IPPROTO_FRAGMENT): the offset of the fragment
\* header, or -1 when the walk does not find it.
GetIp6NextHdr(p) ==
  CASE IpNxt(p) = IPPROTO_FRAGMENT -> IP6_HDR_LEN
    [] ~IsExtHdrId(IpNxt(p))       -> -1
    [] OTHER                       -> NextHdrWalk(p, 1, IP6_HDR_LEN)

\* unfragmentable_header[] and is_ext_header_fragmentable.
UnfragmentableHeader == {IPPROTO_HOPOPTS, IPPROTO_ROUTING}
IsExtHeaderFragmentable(t) == t \notin UnfragmentableHeader

\* is_destination_options_followed_by_routing_hdr(t, header i).
IsDestinationOptionsFollowedByRoutingHdr(t, p, i) ==
  t = IPPROTO_DSTOPTS /\ ExtNxt(p, i) = IPPROTO_ROUTING

\* is_complete_payload_fragmentable.
IsCompletePayloadFragmentable(p) ==
  /\ IsExtHeaderFragmentable(IpNxt(p))
  /\ ~IsDestinationOptionsFollowedByRoutingHdr(IpNxt(p), p, 1)

\* The loop of get_last_unfragmentable_ext_hdr: header i starts at pos;
\* after pkt_ptr moves past it, len grows by the length read at the new
\* pkt_ptr, the ext_len byte of header i + 1.
RECURSIVE LastUnfragmentableWalk(_, _, _, _)
LastUnfragmentableWalk(p, i, pos, len) ==
  LET nxt  == ExtNxt(p, i)
      len2 == len + (1 + p.lens[i + 1]) * 8
  IN CASE ~(pos < RawPlen(p)) -> -1
       [] IsExtHeaderFragmentable(nxt)
            /\ ~IsDestinationOptionsFollowedByRoutingHdr(nxt, p, i + 1) -> len2
       [] OTHER -> LastUnfragmentableWalk(p, i + 1, pos + GetExtHdrLength(p, i), len2)

\* get_last_unfragmentable_ext_hdr, through get_size_of_unfragmentable_part.
GetSizeOfUnfragmentablePart(p) ==
  IF IsCompletePayloadFragmentable(p) THEN IP6_HDR_LEN
  ELSE LastUnfragmentableWalk(p, 1, IP6_HDR_LEN, IP6_HDR_LEN)

\* ip6_fragment's data_len, a uint16_t.
DataLen(p) ==
  (PayloadLen(p) + IP6_HDR_LEN - (GetSizeOfUnfragmentablePart(p) + FRAG_HDR_LEN)) % 65536

Init == pkt \in Packets
Next == UNCHANGED pkt
Spec == Init /\ [][Next]_pkt

TypeOK == pkt \in Packets

\* Every fragment ip6_delay_internal recognises (get_ip6_next_hdr finds its
\* fragment header, so ip6_fragment runs) is split where spec section 8
\* and RFC 8200 put the split: ip6_fragment and assemble_fragments take
\* all headers in front of the fragment header as the unfragmentable part,
\* and the 16-bit data_len is the number of bytes after it.
FragmentSplitCorrect ==
  GetIp6NextHdr(pkt) # -1 =>
    /\ GetSizeOfUnfragmentablePart(pkt) = FragOffset(pkt)
    /\ DataLen(pkt) = pkt.data
=============================================================================
