----------------------------- MODULE MCSockets ------------------------------
(***************************************************************************)
(* Sockets on a small instance.  The option masks are those of Linux:      *)
(* SO_REUSEADDR is 2 (binary 10) and SO_REUSEPORT is 15 (binary 1111).     *)
(***************************************************************************)
EXTENDS Sockets, TLC

CONSTANTS A, B              \* two local addresses

MCAddrs == {A, B}
ReuseAddrLinux == {1}
ReusePortLinux == {0, 1, 2, 3}

\* The code treats all the addresses but the wildcard alike.
AddrSymmetry == Permutations(MCAddrs)

\* No step reads the outcome of the call before it, so states that differ only
\* in ret have the same successors; TLC still checks every step with its ret.
WithoutRet == <<slots, n_zones_active, sock_bind_table, phase>>
=============================================================================
