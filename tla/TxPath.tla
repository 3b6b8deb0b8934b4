------------------------------- MODULE TxPath -------------------------------
(***************************************************************************)
(* Transmission: from sendto() through the TX ring of the slot and the     *)
(* poller's table of mbufs to the NIC, with the fragmentation of datagrams *)
(* above the MTU.                                                          *)
(*                                                                         *)
(* sendto() is two steps: it allocates the mbuf, then puts it in the ring. *)
(* A step of the poller is the look at one slot, one dequeue with all that *)
(* is done to the packet, or the end of a slot or of the round of slots.   *)
(* The reception half of the loop always ends and is left to RxPath.       *)
(***************************************************************************)
EXTENDS Sockets, Functions

CONSTANTS BurstSize,        \* BURST_SIZE
          TableSize,        \* TX_MBUF_TABLE_SIZE
          RingRoom,         \* EXCH_RING_SIZE - 1, what an rte_ring can hold
          PoolSize,         \* mbufs of the application's TX pool
          Fragments,        \* numbers of fragments of the datagrams sent
          MaxSends          \* bound on the sendto() calls that get an mbuf

ASSUME TxAssumption == /\ BurstSize \in Nat \ {0} /\ TableSize \in Nat
                       /\ 2 * BurstSize <= TableSize
                       /\ RingRoom \in Nat \ {0} /\ PoolSize \in Nat
                       /\ Fragments \subseteq Nat /\ MaxSends \in Nat

VARIABLES sent,             \* sendto() calls that got an mbuf
          sending,          \* the one that has its mbuf but not yet a place
          tx_q,             \* exch_slots[s].tx_q
          tx_mbuf_table,    \* its first tx_count entries
          slot,             \* slot the poller is at; NumSockets after the last
          step,             \* "check" the slot, "drain" it, or "leave" it
          mbufs,            \* mbufs allocated and not freed
          wire              \* what the NIC has accepted

tx_vars == <<sent, sending, tx_q, tx_mbuf_table, slot, step, mbufs, wire>>

\* A datagram: frags is 0 if it is sent as it is, else the number of pieces the
\* fragmentation makes of it (one, when only its Ethernet header is too much).
Datagram == [sock : Sockets, id : 1 .. MaxSends, frags : Fragments \cup {0}]

\* Bug variant of Pieces: the fragments are in the table last one first.
PiecesReversed(d) == [k \in 1 .. d.frags |-> [sock |-> d.sock, id |-> d.id,
                                              frag |-> d.frags + 1 - k]]

\* What the table and the wire are made of: the pieces of a datagram, or the
\* whole of it as piece 0.
Pieces(d) == [k \in 1 .. d.frags |-> [sock |-> d.sock, id |-> d.id, frag |-> k]]
Whole(d)  == [sock |-> d.sock, id |-> d.id, frag |-> 0]
Piece     == UNION {[sock : Sockets, id : 1 .. MaxSends, frag : 0 .. n] :
                       n \in Fragments \cup {0}}

MbufOf(p)  == <<p.id, p.frag>>
MbufsOf(q)    == {MbufOf(p) : p \in Range(q)}

TxInit == /\ Init
          /\ sent = 0 /\ sending = <<>>
          /\ tx_q = [s \in Sockets |-> <<>>]
          /\ tx_mbuf_table = <<>>
          /\ slot = 0 /\ step = "check"
          /\ mbufs = {} /\ wire = <<>>

-----------------------------------------------------------------------------
\* sendto() of an open socket, up to the allocation.  A datagram's data stays in
\* its mbuf until the last piece of it is freed.
InUse == {m[1] : m \in mbufs}

SendAlloc(s, n) ==
    /\ Up /\ slots[s].used
    /\ sending = <<>>
    /\ EnsureBound(s)
    /\ \/ /\ Cardinality(InUse) < PoolSize /\ sent < MaxSends
          /\ sent' = sent + 1
          /\ sending' = <<[sock |-> s, id |-> sent', frags |-> n]>>
          /\ mbufs' = mbufs \cup {<<sent', 0>>}
          /\ ret' = "OK"
       \/ /\ Cardinality(InUse) >= PoolSize
          /\ ret' = "ENOMEM"
          /\ UNCHANGED <<sent, sending, mbufs>>
    /\ UNCHANGED <<tx_q, tx_mbuf_table, slot, step, wire>>

EnqueueOrFree(d) ==
    \/ /\ Len(tx_q[d.sock]) < RingRoom
       /\ tx_q' = [tx_q EXCEPT ![d.sock] = Append(@, d)]
       /\ ret' = "OK"
       /\ UNCHANGED mbufs
    \/ /\ Len(tx_q[d.sock]) >= RingRoom
       /\ mbufs' = mbufs \ {<<d.id, 0>>}
       /\ ret' = "ENOBUFS"
       /\ UNCHANGED tx_q

SendEnqueue == /\ sending # <<>> /\ sending' = <<>>
               /\ EnqueueOrFree(Head(sending))
               /\ UNCHANGED <<slots, n_zones_active, sock_bind_table, phase, sent,
                              tx_mbuf_table, slot, step, wire>>

\* The other calls; close() leaves the ring of the slot as it is.
AppCall == /\ sending = <<>>
           /\ \E s \in Sockets :
                 \/ Socket(s)
                 \/ \E opt \in Options, on \in BOOLEAN : Setsockopt(s, opt, on)
                 \/ \E ip \in IPs, port \in Ports : Bind(s, ip, port)
                 \/ Close(s)
           /\ UNCHANGED tx_vars

-----------------------------------------------------------------------------
\* The poller looks at slot i of its round.
CheckSlot == /\ step = "check" /\ slot < NumSockets
             /\ \/ slots[slot].used  /\ step' = "drain" /\ UNCHANGED slot
                \/ ~slots[slot].used /\ slot' = slot + 1 /\ UNCHANGED step
             /\ UNCHANGED <<vars, sent, sending, tx_q, tx_mbuf_table, mbufs, wire>>

TableFull == Len(tx_mbuf_table) >= BurstSize

Direct(d) == /\ d.frags = 0
             /\ tx_mbuf_table' = Append(tx_mbuf_table, Whole(d))
             /\ UNCHANGED <<step, mbufs>>

\* Bug variant of Fits: the room left in the table is not passed on.
FitsAlways(d) == TRUE

\* rte_ipv4_fragment_packet is told how many entries of the table are left.
Fits(d) == d.frags <= TableSize - Len(tx_mbuf_table)

\* The pieces hold the data, so that the packet's own reference can go at once.
Fragment(d) == /\ d.frags > 0 /\ Fits(d)
               /\ tx_mbuf_table' = tx_mbuf_table \o Pieces(d)
               /\ mbufs' = (mbufs \ {<<d.id, 0>>}) \cup MbufsOf(Pieces(d))
               /\ UNCHANGED step

\* No mbuf for a fragment, or no room in the table: the slot is left.
FragmentFails(d) == /\ d.frags > 0
                    /\ step' = "leave"
                    /\ mbufs' = mbufs \ {<<d.id, 0>>}
                    /\ UNCHANGED tx_mbuf_table

\* Bug variant of PrependFails: the entries of the freed fragments stay.
PrependKeepsEntries(d) ==
    /\ d.frags > 0 /\ Fits(d)
    /\ mbufs' = mbufs \ {<<d.id, 0>>}
    /\ tx_mbuf_table' = tx_mbuf_table \o Pieces(d)
    /\ UNCHANGED step

\* A fragment has no room for its Ethernet header: all of them are freed, and
\* n_fragments is taken from tx_count, then added to it again.
PrependFails(d) == /\ d.frags > 0 /\ Fits(d)
                   /\ mbufs' = mbufs \ {<<d.id, 0>>}
                   /\ UNCHANGED <<tx_mbuf_table, step>>

Dequeue == /\ step = "drain" /\ ~TableFull
           /\ tx_q[slot] # <<>>
           /\ tx_q' = [tx_q EXCEPT ![slot] = Tail(@)]
           /\ LET d == Head(tx_q[slot])
              IN  Direct(d) \/ Fragment(d) \/ FragmentFails(d) \/ PrependFails(d)
           /\ UNCHANGED <<vars, sent, sending, slot, wire>>

\* Bug variant of flush_tx_table: the mbufs the NIC refused are not freed.
FlushForgets == \E k \in 0 .. Len(tx_mbuf_table) :
                   /\ wire' = wire \o SubSeq(tx_mbuf_table, 1, k)
                   /\ mbufs' = mbufs \ MbufsOf(SubSeq(tx_mbuf_table, 1, k))
                   /\ tx_mbuf_table' = <<>>

\* The NIC accepts some of the table; the code frees what it has refused, the
\* NIC what it has sent.
flush_tx_table == \E k \in 0 .. Len(tx_mbuf_table) :
                     /\ wire' = wire \o SubSeq(tx_mbuf_table, 1, k)
                     /\ mbufs' = mbufs \ MbufsOf(tx_mbuf_table)
                     /\ tx_mbuf_table' = <<>>

\* The poller is done with a slot when its ring is empty, the table has a burst
\* or a packet could not be fragmented; a full table is sent.
SlotDone == \/ step = "leave"
            \/ step = "drain" /\ (TableFull \/ tx_q[slot] = <<>>)

LeaveSlot == /\ SlotDone
             /\ \/ TableFull /\ flush_tx_table
                \/ ~TableFull /\ UNCHANGED <<tx_mbuf_table, mbufs, wire>>
             /\ slot' = slot + 1 /\ step' = "check"
             /\ UNCHANGED <<vars, sent, sending, tx_q>>

\* What is left in the table at the end of a round is sent.
EndRound == /\ step = "check" /\ slot = NumSockets
            /\ flush_tx_table
            /\ slot' = 0
            /\ UNCHANGED <<vars, sent, sending, tx_q, step>>

Poller == CheckSlot \/ Dequeue \/ LeaveSlot \/ EndRound

-----------------------------------------------------------------------------
TxNext == \/ AppCall
          \/ \E s \in Sockets, n \in Fragments \cup {0} : SendAlloc(s, n)
          \/ SendEnqueue
          \/ Poller

all_vars == <<vars, tx_vars>>

\* The poller never stops looping.
TxSpec == TxInit /\ [][TxNext]_all_vars /\ WF_all_vars(Poller)

-----------------------------------------------------------------------------
TxTypeOK == /\ TypeOK
            /\ sent \in 0 .. MaxSends
            /\ sending \in Seq(Datagram) /\ Len(sending) <= 1
            /\ tx_q \in [Sockets -> Seq(Datagram)]
            /\ \A s \in Sockets : Len(tx_q[s]) <= RingRoom
            /\ tx_mbuf_table \in Seq(Piece)
            /\ Len(tx_mbuf_table) <= TableSize
            /\ slot \in 0 .. NumSockets
            /\ step \in {"check", "drain", "leave"}
            /\ mbufs \subseteq {MbufOf(p) : p \in Piece}
            /\ wire \in Seq(Piece)

Originals(q) == {<<d.id, 0>> : d \in Range(q)}

\* Every mbuf that is not free is in a sendto(), a ring or the table, and what
\* is there is not free: neither a full ring, a failed fragmentation, a failed
\* prepend nor a burst the NIC takes in part loses an mbuf or frees one twice.
TxMbufsAccounted ==
    mbufs = Originals(sending) \cup MbufsOf(tx_mbuf_table)
               \cup UNION {Originals(tx_q[s]) : s \in Sockets}

\* The pieces sent and about to be sent.
Line == wire \o tx_mbuf_table

Before(p, q) == p.id < q.id \/ (p.id = q.id /\ p.frag < q.frag)

\* The datagrams of a slot leave in the order of the sendto() calls, each once,
\* and the fragments of one in their order, whatever is dropped on the way.
SentInOrder ==
    /\ \A i, j \in DOMAIN Line :
          i < j /\ Line[i].sock = Line[j].sock => Before(Line[i], Line[j])
    /\ \A s \in Sockets : \A i \in DOMAIN tx_q[s] :
          /\ \A j \in DOMAIN Line : Line[j].sock = s => Line[j].id < tx_q[s][i].id
          /\ \A j \in 1 .. i - 1 : tx_q[s][j].id < tx_q[s][i].id

\* "Allocate one mbuf for the packet (will be freed when effectively sent)"
\* (udpdk_syscall.c:306): a datagram in the ring of a socket does not keep its
\* mbuf for ever, unless the socket is closed before the poller gets to it.
DatagramsLeave ==
    \A s \in Sockets, id \in 1 .. MaxSends :
        (\E d \in Range(tx_q[s]) : d.id = id)
        ~> (id \notin InUse \/ ~slots[s].used)
=============================================================================
