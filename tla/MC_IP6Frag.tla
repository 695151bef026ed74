---------------------------- MODULE MC_IP6Frag ----------------------------
(***************************************************************************)
(* Instances of IP6Frag for TLC.  Two packets in flight under distinct     *)
(* keys; a chunk of two units (16 octets of payload per fragment) so a     *)
(* packet of four to six units splits into two or three fragments, enough *)
(* for reordering, a middle fragment and a last fragment to interact.      *)
(***************************************************************************)
EXTENDS IP6Frag

CONSTANTS k1, k2

\* Lengths whose fragmentable part is a whole number of chunks plus one
\* unit or more: the sender emits every unit.
EvenLen == k1 :> 4 @@ k2 :> 6

\* Two packets of three fragments each.
ThreeFragLen == k1 :> 6 @@ k2 :> 6

\* Lengths one unit past a whole number of chunks.
OddLen == k1 :> 5 @@ k2 :> 4

NoForged == {}

\* A fragment an attacker can send: a middle piece inside both packets.
MiddleForged == {[off |-> 2, len |-> 2, mf |-> TRUE]}

\* An unfragmented packet sent with a fragment header (an atomic fragment).
AtomicForged == {[off |-> 0, len |-> 2, mf |-> FALSE]}

\* A middle fragment past the end the last fragment sets for a packet of
\* four units.
PastEndForged == {[off |-> 4, len |-> 2, mf |-> TRUE]}

=============================================================================
