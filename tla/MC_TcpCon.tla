----------------------------- MODULE MC_TcpCon -----------------------------
(***************************************************************************)
(* Instances of TcpCon for TLC: three peers against a table of two, so    *)
(* the third connection evicts the least recently used one.  Two UDP      *)
(* tuples, one to an open port and one to a closed port.                  *)
(***************************************************************************)
EXTENDS TcpCon

CONSTANTS f1, f2, f3, u1, u2, a1, a2, a3

\* All TCP peers talk to one configured address.
TableDst == [f \in {f1, f2, f3} |-> a1]

\* The TCP peers talk to a configured address, each UDP peer to an
\* address of its own that only random mode can give a template.
SplitDst == (f1 :> a1) @@ (f2 :> a1) @@ (u1 :> a2) @@ (u2 :> a3)

\* Peers are interchangeable: nothing in tcp_recv_cb46 depends on which
\* tuple a connection has.
FlowSymmetry == Permutations({f1, f2, f3})

=============================================================================
