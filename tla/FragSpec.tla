------------------------------ MODULE FragSpec ------------------------------
(***************************************************************************)
(* What IPv6 fragment reassembly promises (spec section 8), without lists, *)
(* timers or buffers: per packet key, the payload units received so far   *)
(* and the end the last fragment announced.  A packet is handed on only    *)
(* when every unit below that end has arrived, with exactly the units      *)
(* received; a partial packet is kept until it completes or is discarded   *)
(* whole.  IP6Frag is checked to implement this specification.            *)
(***************************************************************************)
EXTENDS Integers

CONSTANTS
  Keys,     \* packet keys (source, destination, identification)
  Frags,    \* fragments [off, len, mf] that can arrive, offsets in units
  NoTotal   \* the end of a packet whose last fragment has not arrived

VARIABLES
  open,     \* keys with a partial packet held
  held,     \* held[k]: payload units of packet k received so far
  last,     \* last[k]: end of packet k from its last fragment, or NoTotal
  done      \* the packet handed on by the last step: {} or {packet}

vars == <<open, held, last, done>>

Units(f) == f.off .. (f.off + f.len - 1)

\* The end a fragment establishes: a fragment without the more-fragments
\* bit ends the packet.
EndWith(k, f) == IF ~f.mf THEN f.off + f.len ELSE last[k]

Whole(units, end) == end # NoTotal /\ 0..(end - 1) \subseteq units

\* A fragment is kept.  A packet that a fragment makes whole is handed on
\* instead, except when that fragment is the first of its packet (the
\* reassembler tests completeness only on a later fragment).
Receive(k, f) ==
  /\ ~(k \in open /\ Whole(held[k] \cup Units(f), EndWith(k, f)))
  /\ open' = open \cup {k}
  /\ held' = [held EXCEPT ![k] = @ \cup Units(f)]
  /\ last' = [last EXCEPT ![k] = EndWith(k, f)]
  /\ done' = {}

\* The fragment that makes a held packet whole hands it on, and the
\* partial packet is gone.
Reassemble(k, f) ==
  /\ k \in open
  /\ Whole(held[k] \cup Units(f), EndWith(k, f))
  /\ done' = {[key |-> k, total |-> EndWith(k, f), written |-> held[k] \cup Units(f)]}
  /\ open' = open \ {k}
  /\ held' = [held EXCEPT ![k] = {}]
  /\ last' = [last EXCEPT ![k] = NoTotal]

\* A partial packet is dropped whole.
Discard(k) ==
  /\ k \in open
  /\ open' = open \ {k}
  /\ held' = [held EXCEPT ![k] = {}]
  /\ last' = [last EXCEPT ![k] = NoTotal]
  /\ done' = {}

\* A step that hands nothing on.
Quiet ==
  /\ done' = {}
  /\ UNCHANGED <<open, held, last>>

Init ==
  /\ open = {}
  /\ held = [k \in Keys |-> {}]
  /\ last = [k \in Keys |-> NoTotal]
  /\ done = {}

Next ==
  \/ \E k \in Keys, f \in Frags : Receive(k, f) \/ Reassemble(k, f)
  \/ \E k \in Keys : Discard(k)
  \/ Quiet

Spec == Init /\ [][Next]_vars

=============================================================================
