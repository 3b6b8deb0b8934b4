------------------------------ MODULE MCRxPath ------------------------------
(***************************************************************************)
(* RxPath on small instances.  The poller reads of the options only whether *)
(* there is one, so both masks are the same bit here.                      *)
(***************************************************************************)
EXTENDS RxPath

CONSTANTS A,                \* the local address
          B,                \* another address: no socket is bound to it
          D                 \* a datagram in two fragments

MCAddrs == {A}
MCDests == {A, B}
MCOption == {1}

P(id, dst, of, part) == [id |-> id, dst |-> dst, of |-> of, part |-> part]

\* Whole packets for the local address at any time, and one for another address or
\* not UDP first.  The first part of the datagram comes never, once or twice, before
\* the second or without it, and with other packets between and around.
MCTraffic == {P(i, <<A, 0>>, Whole, 1) : i \in 1 .. 3}
             \cup {P(1, <<B, 0>>, Whole, 1), P(1, NotUdp, Whole, 1)}
             \cup {P(i, <<A, 0>>, D, 1) : i \in 1 .. 2} \cup {P(3, <<A, 0>>, D, 2)}
=============================================================================
