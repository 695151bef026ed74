---------------------------- MODULE MC_Ip6Delay ----------------------------
(***************************************************************************)
(* Instances of Ip6Delay for TLC: two pool buffers, one template, two      *)
(* neighbors of which one lies outside the advertised prefix, so that a   *)
(* packet can be parked on a solicitation while another is delayed.       *)
(***************************************************************************)
EXTENDS Ip6Delay

CONSTANTS b1, b2, t1, x1, x2

\* Every outcome honeyd_route_packet46 can give for a packet.
AllRoutes == Route

\* Received packets for an external template are delayed: the one outcome
\* left out hands the capture buffer itself to honeyd_send_normally6.
DelayedExternalRoutes == Route \ {[res |-> "external", delayed |-> FALSE]}

\* The pass run's received packets: also without a delayed hop-limit
\* error, whose copy-and-park path honeyd_delay_packet46 takes as well for
\* delayed internal packets and for delayed host hop-limit errors.
PassInboundRoutes == DelayedExternalRoutes \ {[res |-> "hlim", delayed |-> TRUE]}

\* Buffers and neighbors are not interchangeable: OffLink names one
\* neighbor, and NextBuf picks buffers in a fixed order.
=============================================================================
