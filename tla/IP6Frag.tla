------------------------------ MODULE IP6Frag ------------------------------
(***************************************************************************)
(* IPv6 fragment reassembly of honeyd (src/honeyd-ip6/ip6frag.c), fed by  *)
(* senders that split their packets with honeyd's own fragmenter          *)
(* (ip6_send_fragments in honeyd.c) and by an attacker who injects         *)
(* fragments of his choosing.                                              *)
(*                                                                         *)
(* Data abstraction: offsets and lengths are counted in units of 8         *)
(* octets (the fragment offset field's granularity); packets carry no      *)
(* extension headers, so the unfragmentable part is the fixed IPv6 header  *)
(* and the fragment header is one unit.  A reassembled packet is           *)
(* abstracted to the set of payload units its fragments wrote.             *)
(*                                                                         *)
(* Time: the 30 s expiry timer of a fragment set is its age in ticks;      *)
(* the reactor fires a due timer before time moves on.                     *)
(***************************************************************************)
EXTENDS Integers, Sequences, SequencesExt, FiniteSets

CONSTANTS
  Keys,        \* (source, destination, identification) of packets in flight
  Honest,      \* keys whose fragments arrive once, in order, and are not forged
  PktLen,      \* PktLen[k]: fragmentable length of packet k, in units
  Chunk,       \* size_of_fragmentable_part of ip6_send_fragments, in units
  InOrder,     \* TRUE: a packet's fragments arrive once, in sending order
  Duplicates,  \* TRUE: the network may deliver a fragment again
  Forged,      \* fragments [off, len, mf] an attacker may inject for any key
  Timeout,     \* IP6FRAG_TIMEOUT, in ticks
  MaxEntries   \* bound on the entries one fragment set may hold

ASSUME /\ Chunk \in Nat \ {0}
       /\ Honest \subseteq Keys
       /\ PktLen \in [Keys -> Nat \ {0}]
       /\ \A k \in Keys : PktLen[k] > Chunk   \* only packets above the MTU are split
       /\ InOrder \in BOOLEAN /\ Duplicates \in BOOLEAN
       /\ Timeout \in Nat \ {0} /\ MaxEntries \in Nat \ {0}

VARIABLES
  live,      \* keys with a struct fragment6 in the fragments6 splay tree
  fraglist,  \* fraglist[k]: the entries <<[off, len], ...>> of set k, in list order
  totalLen,  \* totalLen[k]: total_len of set k, NoTotal until a last fragment came
  age,       \* age[k]: ticks since ip6_fragment_new armed the timeout of set k
  sent,      \* sent[k]: indices of packet k's fragments the network delivered
  out        \* the packet reassembled by the last step: {} or {packet}

vars == <<live, fraglist, totalLen, age, sent, out>>

NoTotal == -1   \* total_len = -1 in ip6_fragment_new

Entry == [off : Nat, len : Nat]

-----------------------------------------------------------------------------
(* The sender: honeyd's fragmenter, ip6_send_fragments.                    *)

\* Variant: the count rounded down, the partial last chunk never sent.
NumberOfFragmentsFloor(len) == (len - 1) \div Chunk

\* get_number_of_fragments: iplen - unfrag_fraghdr_size is one unit (the
\* fragment header) short of the fragmentable length.
NumberOfFragments(len) ==
  IF (len - 1) % Chunk = 0 THEN (len - 1) \div Chunk
                           ELSE (len - 1) \div Chunk + 1

\* The i-th fragment the loop of ip6_send_fragments builds: all but the
\* last chunk are full; the more-fragments bit is set on all but the last.
SendFragment(len, i) ==
  LET left == len - (i - 1) * Chunk
  IN [off |-> (i - 1) * Chunk,
      len |-> IF left > Chunk THEN Chunk ELSE left,
      mf  |-> i # NumberOfFragments(len)]

-----------------------------------------------------------------------------
(* The reassembler.                                                        *)

\* Variant: the walk skipped, every entry appended at the tail.
InsertPosTail(list, e) == Len(list) + 1

\* insert_fragment_entry_into_existing_queue: walk while the new offset is
\* greater, insert before the first entry that stops the walk, else append.
InsertPos(list, e) ==
  LET stop == {j \in 1..Len(list) : ~(e.off > list[j].off)}
  IN IF stop = {} THEN Len(list) + 1 ELSE Min(stop)

\* Variant: every entry put at the head, as for the first one.
InsertFragmentEntryHead(list, e) == <<e>> \o list

\* ip6_insert_fragment: the first entry goes to the head of the empty list.
InsertFragmentEntry(list, e) ==
  IF list = <<>> THEN <<e>> ELSE InsertAt(list, InsertPos(list, e), e)

IsFirstFragmentReceived(list) == list[1].off = 0

\* Variant: the total_len test dropped.
IsLastFragmentReceivedAlways(total) == TRUE

IsLastFragmentReceived(total) == total # NoTotal

\* is_gap_beetween_fragments: the running total includes the current entry
\* before its offset is compared with it.
LenSum(s) == FoldLeft(LAMBDA acc, e : acc + e.len, 0, s)

IsGapBetweenFragments(list) ==
  \E j \in 1..Len(list) : list[j].off > LenSum(SubSeq(list, 1, j))

IsFragmentComplete(list, total) ==
  /\ IsLastFragmentReceived(total)
  /\ IsFirstFragmentReceived(list)
  /\ ~IsGapBetweenFragments(list)

\* The payload units the entries of a list cover.
Written(list) == UNION {list[j].off .. (list[j].off + list[j].len - 1) : j \in 1..Len(list)}

\* assemble_fragments: malloc(unfragmentable part + total_len), then each
\* entry copied at its offset.
AssembleFragments(k, list, total) ==
  [key      |-> k,
   total    |-> total,
   written  |-> Written(list),
   inBounds |-> \A j \in 1..Len(list) : list[j].off + list[j].len <= total]

\* Variant: SPLAY_REMOVE forgotten, the freed set stays in the tree.
FreeFragmentsKeep(k) ==
  /\ live' = live
  /\ fraglist' = [fraglist EXCEPT ![k] = <<>>]
  /\ totalLen' = [totalLen EXCEPT ![k] = NoTotal]
  /\ age' = [age EXCEPT ![k] = 0]

\* free_fragments: the set leaves the tree and its timer is deleted.
FreeFragments(k) ==
  /\ live' = live \ {k}
  /\ fraglist' = [fraglist EXCEPT ![k] = <<>>]
  /\ totalLen' = [totalLen EXCEPT ![k] = NoTotal]
  /\ age' = [age EXCEPT ![k] = 0]

\* ip6_fragment: find or create the set (ip6_fragment_new arms its timer),
\* record total_len from a fragment without the more-fragments bit, insert
\* the entry, and reassemble and free the set once it is complete.
IP6Fragment(k, f) ==
  LET list     == IF k \in live THEN fraglist[k] ELSE <<>>
      total    == IF ~f.mf THEN f.off + f.len
                  ELSE IF k \in live THEN totalLen[k] ELSE NoTotal
      newList  == InsertFragmentEntry(list, [off |-> f.off, len |-> f.len])
      complete == list # <<>> /\ IsFragmentComplete(newList, total)
  IN /\ Len(list) < MaxEntries
     /\ IF complete
          THEN /\ out' = {AssembleFragments(k, newList, total)}
               /\ FreeFragments(k)
          ELSE /\ out' = {}
               /\ live' = live \cup {k}
               /\ fraglist' = [fraglist EXCEPT ![k] = newList]
               /\ totalLen' = [totalLen EXCEPT ![k] = total]
               /\ UNCHANGED age

\* Variant: the timer armed one tick longer than time may run.
IP6FragmentTimeoutLate(k) ==
  /\ k \in live
  /\ age[k] = Timeout + 1
  /\ FreeFragments(k)
  /\ out' = {}
  /\ UNCHANGED sent

\* ip6_fragment_timeout: the expiry timer of a set fires.
IP6FragmentTimeout(k) ==
  /\ k \in live
  /\ age[k] = Timeout
  /\ FreeFragments(k)
  /\ out' = {}
  /\ UNCHANGED sent

-----------------------------------------------------------------------------
(* The environment.                                                        *)

Unsent(k) == {i \in 1..NumberOfFragments(PktLen[k]) : i \notin sent[k]}

Deliverable(k) ==
  IF InOrder \/ k \in Honest THEN IF Unsent(k) = {} THEN {} ELSE {Min(Unsent(k))}
  ELSE IF Duplicates THEN 1..NumberOfFragments(PktLen[k])
  ELSE Unsent(k)

\* The network delivers one of packet k's fragments to honeyd.
Deliver(k) ==
  \E i \in Deliverable(k) :
    /\ sent' = [sent EXCEPT ![k] = @ \cup {i}]
    /\ IP6Fragment(k, SendFragment(PktLen[k], i))

\* An attacker injects a fragment under key k.
Inject(k) ==
  /\ k \notin Honest
  /\ \E f \in Forged :
       /\ IP6Fragment(k, f)
       /\ UNCHANGED sent

\* Time passes; it cannot pass a due expiry timer.
Tick ==
  /\ \A k \in live : age[k] < Timeout
  /\ age' = [k \in Keys |-> IF k \in live THEN age[k] + 1 ELSE 0]
  /\ out' = {}
  /\ UNCHANGED <<live, fraglist, totalLen, sent>>

Init ==
  /\ live = {}
  /\ fraglist = [k \in Keys |-> <<>>]
  /\ totalLen = [k \in Keys |-> NoTotal]
  /\ age = [k \in Keys |-> 0]
  /\ sent = [k \in Keys |-> {}]
  /\ out = {}

Next ==
  \/ \E k \in Keys : Deliver(k)
  \/ \E k \in Keys : Inject(k)
  \/ \E k \in Keys : IP6FragmentTimeout(k)
  \/ Tick

\* Time advances and libevent fires due timers: both are the reactor's.
Fairness ==
  /\ WF_vars(Tick)
  /\ \A k \in Keys : WF_vars(IP6FragmentTimeout(k))

Spec == Init /\ [][Next]_vars /\ Fairness

-----------------------------------------------------------------------------
(* Properties.                                                             *)

TypeOK ==
  /\ live \subseteq Keys
  /\ fraglist \in [Keys -> Seq(Entry)]
  /\ totalLen \in [Keys -> Nat \cup {NoTotal}]
  /\ age \in [Keys -> 0..Timeout]
  /\ sent \in [Keys -> SUBSET Nat]
  /\ out \subseteq [key : Keys, total : Nat, written : SUBSET Nat, inBounds : BOOLEAN]

\* Round trip (spec section 8): a packet honeyd reassembles from an honest
\* sender is the packet that sender split, every payload unit present and
\* the length restored (ip6_fragment reassembling what ip6_send_fragments
\* produced), whatever the fragments of other packets do meanwhile.
RoundTrip ==
  \A p \in {q \in out : q.key \in Honest} :
    /\ p.total = PktLen[p.key]
    /\ p.written = 0..(PktLen[p.key] - 1)

\* Completeness (spec section 8): a set is reported complete only when
\* the merged ranges of its entries leave no gap, so the buffer
\* assemble_fragments fills has every unit below total_len written,
\* whatever order the fragments came in.
ReassembledWithoutGap == \A p \in out : 0..(p.total - 1) \subseteq p.written

\* assemble_fragments copies every entry inside the buffer it malloc'd:
\* no entry of a completed set reaches past total_len.
AssemblyInBounds == \A p \in out : p.inBounds

\* A set whose entries already cover its whole payload is reassembled in
\* the step that completed it, never left waiting for the expiry timer.
NoStuckCompleteSet ==
  \A k \in live :
    ~(totalLen[k] # NoTotal /\ 0..(totalLen[k] - 1) \subseteq Written(fraglist[k]))

\* The walk of insert_fragment_entry_into_existing_queue keeps each
\* fragment list ordered by offset, whatever order fragments arrive in;
\* the gap check and the copy order of assemble_fragments rely on it.
FragListSorted ==
  \A k \in live : IsSorted(fraglist[k], LAMBDA a, b : a.off <= b.off)

\* Every fragment set is eventually released, by reassembly or by its
\* expiry timer: no attacker-created set holds memory forever.
SetsEventuallyFreed == \A k \in Keys : (k \in live) ~> (k \notin live)

-----------------------------------------------------------------------------
(* Refinement: for the packets of honest senders the reassembler          *)
(* implements FragSpec.  A set's held units are the units its entries      *)
(* cover; the sets in the splay tree are the open packets; a reassembled   *)
(* packet is handed on without its buffer bookkeeping.  Steps on other     *)
(* keys are stuttering steps of the abstract reassembler.                  *)

SentFragments ==
  UNION {{SendFragment(PktLen[k], i) : i \in 1..NumberOfFragments(PktLen[k])} : k \in Keys}

Reassembly == INSTANCE FragSpec
  WITH Keys  <- Honest,
       Frags <- SentFragments,
       open  <- live \cap Honest,
       held  <- [k \in Honest |-> Written(fraglist[k])],
       last  <- [k \in Honest |-> totalLen[k]],
       done  <- {[key |-> p.key, total |-> p.total, written |-> p.written] :
                   p \in {q \in out : q.key \in Honest}}

\* ip6_fragment, ip6_fragment_timeout and the fragment list they share
\* behave as the abstract reassembler: units are never lost from a held
\* set, a packet is handed on exactly when its units are all there, with
\* the units received, and a set is only dropped whole.
ReassemblySpec == Reassembly!Spec

=============================================================================
