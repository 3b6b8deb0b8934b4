------------------------------- MODULE RxPath -------------------------------
(***************************************************************************)
(* Reception: from the NIC, through the poller's burst table, its private  *)
(* buffer of each exchange slot and the slot's RX ring, to recvfrom().     *)
(*                                                                         *)
(* Two processes: the application, whose socket calls are those of module  *)
(* Sockets, and the poller.  A step of the poller is one rx_burst, the     *)
(* switching of one packet, the flush of one slot, or the freeing of the   *)
(* death row; the application's calls come between any two of these.       *)
(***************************************************************************)
EXTENDS Sockets, Functions

CONSTANTS Dests,            \* destination addresses of the packets
          NotUdp,           \* stands for a packet that is not IPv4 or not UDP
          Datagrams,        \* the datagrams that arrive in two fragments
          Whole,            \* stands for a packet that is no fragment
          BurstSize,        \* RX_MBUF_TABLE_SIZE
          BufSize,          \* EXCH_BUF_SIZE
          RingRoom,         \* EXCH_RING_SIZE - 1, what an rte_ring can hold
          BufIndices,       \* values of the poller's buffer index: 2^8
          MaxPackets,       \* bound on the packets that arrive
          Traffic           \* the packets that may arrive

ASSUME RxAssumption == /\ BurstSize \in Nat \ {0} /\ BufSize \in Nat
                       /\ RingRoom \in Nat /\ MaxPackets \in Nat
                       /\ BurstSize <= BufSize /\ BufSize <= RingRoom
                       /\ BufIndices \in Nat \ {0}
                       /\ NotUdp \notin Dests \X Ports /\ INADDR_ANY \notin Dests
                       /\ Whole \notin Datagrams

VARIABLES nic,              \* packets the NIC has put in mbufs, oldest first
          arrived,          \* how many have arrived
          rx_mbuf_table,    \* the packets of the burst still to be switched
          frag_tbl,         \* the fragments that wait for the other one
          death_row,        \* mbufs of fragments to be freed at the end of the loop
          to_flush,         \* the slot the flush loop has reached
          rx_buffer,        \* exch_slots[s].rx_buffer[0 .. rx_count - 1]
          rx_q,             \* exch_slots[s].rx_q
          mbufs,            \* the mbufs allocated and not freed
          lost,             \* of those, the ones the code no longer holds
          receiver,         \* the socket of the recvfrom() in progress
          pkt,              \* the mbuf recvfrom() has dequeued, at most one
          interrupted,      \* the application's flag
          last              \* last packet recvfrom() returned from each slot

fragments   == <<frag_tbl, death_row>>
poller_vars == <<rx_mbuf_table, to_flush, fragments>>
queues      == <<rx_buffer, rx_q>>
app_vars    == <<receiver, pkt, interrupted, last>>
rx_vars     == <<nic, arrived, poller_vars, queues, mbufs, lost, app_vars>>

Nobody == -1                \* no recvfrom() is in progress
Dead   == -2                \* the application read through NULL in recvfrom()
Ids    == 1 .. MaxPackets

\* An mbuf is <<id, n>>: the n-th copy of packet id, the first being the one
\* the NIC filled.  The fragments that make up a datagram become one mbuf, that
\* of the fragment which came last.
Mbufs == Ids \X (1 .. NumSockets + 1)

\* A NULL in the place of a copy of a packet.
Nulls == Ids \X {0}

\* What switching reads of a packet: its destination <<address, port>>, and for a
\* fragment the datagram and which of the two parts it is.
Packet == [id : Ids, dst : (Dests \X Ports) \cup {NotUdp},
           of : Datagrams \cup {Whole}, part : 1 .. 2]

ASSUME TrafficAssumption ==
    /\ Traffic \subseteq Packet
    /\ \A p, q \in Traffic : p.of = q.of /\ p.of # Whole => p.dst = q.dst

FragInit == frag_tbl = {} /\ death_row = {}

RxInit == /\ Init /\ FragInit
          /\ nic = <<>> /\ arrived = 0
          /\ rx_mbuf_table = <<>> /\ to_flush = NumSockets
          /\ rx_buffer = [s \in Sockets |-> <<>>]
          /\ rx_q = [s \in Sockets |-> <<>>]
          /\ mbufs = {} /\ lost = {}
          /\ receiver = Nobody /\ pkt = <<>> /\ interrupted = FALSE
          /\ last = [s \in Sockets |-> 0]

-----------------------------------------------------------------------------
Arrive(p) == /\ arrived < MaxPackets /\ p.id = arrived + 1
             /\ arrived' = arrived + 1
             /\ nic' = Append(nic, p)
             /\ mbufs' = mbufs \cup {<<p.id, 1>>}
             /\ UNCHANGED <<vars, poller_vars, queues, lost, app_vars>>

-----------------------------------------------------------------------------
\* The poller's loop.  An rx_burst that finds nothing changes nothing.
Smaller(i, j) == IF i <= j THEN i ELSE j

RxBurst == /\ rx_mbuf_table = <<>> /\ to_flush = NumSockets /\ death_row = {}
           /\ nic # <<>>
           /\ LET n == Smaller(Len(nic), BurstSize)
              IN  /\ rx_mbuf_table' = SubSeq(nic, 1, n)
                  /\ nic' = SubSeq(nic, n + 1, Len(nic))
           /\ to_flush' = 0
           /\ UNCHANGED <<vars, arrived, fragments, queues, mbufs, lost, app_vars>>

\* Bug variant of Matches: a socket bound to the wildcard gets nothing.
MatchesExactly(b, p) == b.ip_addr = p.dst[1]

Matches(b, p) == b.ip_addr = p.dst[1] \/ b.ip_addr = INADDR_ANY

\* The positions in the list of the port that get the packet: every match up
\* to the first one that has no reuse option.
Recipients(p) ==
    LET list == sock_bind_table[p.dst[2]]
    IN  {i \in DOMAIN list :
            /\ Matches(list[i], p)
            /\ \A j \in 1 .. i - 1 : Matches(list[j], p) => Reusable(list[j])}

\* The recipients that have a reuse option: each makes the loop clone the mbuf
\* for the next one.
Cloning(p) == {i \in Recipients(p) : Reusable(sock_bind_table[p.dst[2]][i])}

\* The pool may have room for some of the clones only: the rest are NULL, as the
\* clone of a NULL is while the pool stays empty.
ClonesMade(p) == 0 .. Cardinality(Cloning(p))

Copy(p, n, made) == <<p.id, IF n <= made + 1 THEN n ELSE 0>>

\* The copy that the recipient at position i gets.
CopyFor(p, i, made) == Copy(p, Cardinality({j \in Recipients(p) : j <= i}), made)

Clones(p, made) == {<<p.id, k>> : k \in 2 .. made + 1}

\* Bug variants of Spare: the last copy is freed also when its recipient keeps
\* it; the copy nobody got is not freed.
SpareAlways(p, made) ==
    {Copy(p, Smaller(Cardinality(Recipients(p)), Cardinality(Cloning(p))) + 1, made)}
SpareNever(p, made) == {}

\* The copy left when no recipient ended the loop (delivered_last is false).
\* To free NULL does nothing.
Spare(p, made) == LET n == Cardinality(Recipients(p))
                  IN  IF Cardinality(Cloning(p)) = n THEN {Copy(p, n + 1, made)} ELSE {}

\* What enqueue_rx_packet puts in the buffer of slot s, whose index it takes as
\* a uint8_t.
EnqueuedTo(s, p, made) ==
    LET list == sock_bind_table[p.dst[2]]
        here == {i \in Recipients(p) : list[i].sockfd % BufIndices = s}
    IN  [k \in 1 .. Cardinality(here) |->
            CopyFor(p, CHOOSE i \in here :
                          Cardinality({j \in here : j <= i}) = k, made)]

Switched(p) == p.dst # NotUdp /\ sock_bind_table[p.dst[2]] # <<>>

\* The delivery of a packet, which has taken in the mbufs of other fragments.  One
\* that is not UDP, or whose port has no binding, is dropped and not freed.
Deliver(p, taken) ==
    \/ /\ Switched(p)
       /\ \E made \in ClonesMade(p) :
             /\ rx_buffer' = [s \in Sockets |-> rx_buffer[s] \o EnqueuedTo(s, p, made)]
             /\ mbufs' = ((mbufs \ taken) \cup Clones(p, made)) \ Spare(p, made)
       /\ UNCHANGED lost
    \/ /\ ~Switched(p)
       /\ lost' = lost \cup {<<p.id, 1>>}
       /\ mbufs' = mbufs \ taken
       /\ UNCHANGED rx_buffer

MbufsOf(S) == {<<q.id, 1>> : q \in S}

\* A fragment waits if the table holds none of its datagram, and goes with the one
\* that is there if that is the same part.
Waits(p, waiting) ==
    LET mates == {q \in waiting : q.of = p.of}
    IN  /\ \/ /\ mates = {}
             /\ frag_tbl' = waiting \cup {p}
             /\ death_row' = death_row \cup MbufsOf(frag_tbl \ waiting)
          \/ /\ \E q \in mates : q.part = p.part
             /\ frag_tbl' = waiting \ mates
             /\ death_row' = death_row \cup MbufsOf((frag_tbl \ waiting) \cup mates \cup {p})
        /\ UNCHANGED <<rx_buffer, mbufs, lost>>

\* It makes the datagram complete if that is the other part.
Completes(p, waiting) ==
    LET mates == {q \in waiting : q.of = p.of}
    IN  /\ mates # {} /\ \A q \in mates : q.part # p.part
        /\ frag_tbl' = waiting \ mates
        /\ death_row' = death_row \cup MbufsOf(frag_tbl \ waiting)
        /\ Deliver(p, MbufsOf(mates))

\* reassemble().  A fragment goes through DPDK's table, which takes the occasion
\* to put fragments that have waited too long on the death row.
Switch == /\ rx_mbuf_table # <<>>
          /\ rx_mbuf_table' = Tail(rx_mbuf_table)
          /\ LET p == Head(rx_mbuf_table)
             IN  \/ /\ p.of = Whole
                    /\ Deliver(p, {})
                    /\ UNCHANGED fragments
                 \/ /\ p.of # Whole
                    /\ \E waiting \in SUBSET frag_tbl :
                          Waits(p, waiting) \/ Completes(p, waiting)
          /\ UNCHANGED <<vars, nic, arrived, to_flush, rx_q, app_vars>>

\* Bug variants of flush_rx_queue: rx_count is not reset; the room in the ring
\* is not looked at.
FlushKeepsCount(s) ==
    /\ Len(rx_q[s]) + Len(rx_buffer[s]) <= RingRoom
    /\ rx_q' = [rx_q EXCEPT ![s] = @ \o rx_buffer[s]]
    /\ UNCHANGED <<rx_buffer, mbufs>>
FlushUnchecked(s) ==
    /\ rx_q' = [rx_q EXCEPT ![s] = @ \o rx_buffer[s]]
    /\ rx_buffer' = [rx_buffer EXCEPT ![s] = <<>>]
    /\ UNCHANGED mbufs

\* All the packets of the buffer go to the ring, or are freed when it has no
\* room for all of them.
flush_rx_queue(s) ==
    /\ rx_buffer' = [rx_buffer EXCEPT ![s] = <<>>]
    /\ \/ /\ Len(rx_q[s]) + Len(rx_buffer[s]) <= RingRoom
          /\ rx_q' = [rx_q EXCEPT ![s] = @ \o rx_buffer[s]]
          /\ UNCHANGED mbufs
       \/ /\ Len(rx_q[s]) + Len(rx_buffer[s]) > RingRoom
          /\ mbufs' = mbufs \ Range(rx_buffer[s])
          /\ UNCHANGED rx_q

FlushSlot == /\ rx_mbuf_table = <<>> /\ to_flush < NumSockets
             /\ to_flush' = to_flush + 1
             /\ \/ slots[to_flush].used /\ flush_rx_queue(to_flush)
                \/ ~slots[to_flush].used /\ UNCHANGED <<queues, mbufs>>
             /\ UNCHANGED <<vars, nic, arrived, rx_mbuf_table, fragments, lost, app_vars>>

\* rte_ip_frag_free_death_row, at the end of the loop.
FreeDeathRow == /\ rx_mbuf_table = <<>> /\ to_flush = NumSockets /\ death_row # {}
                /\ mbufs' = mbufs \ death_row
                /\ death_row' = {}
                /\ UNCHANGED <<vars, nic, arrived, rx_mbuf_table, to_flush, frag_tbl,
                               queues, lost, app_vars>>

Poller == RxBurst \/ Switch \/ FlushSlot \/ FreeDeathRow

-----------------------------------------------------------------------------
\* recvfrom() on an open socket: it spins until its ring gives a packet or the
\* application is interrupted.
Recv(s) == /\ receiver = Nobody
           /\ Up /\ slots[s].used
           /\ receiver' = s
           /\ UNCHANGED <<slots, n_zones_active, sock_bind_table, ret, nic, arrived,
                          poller_vars, queues, mbufs, lost, pkt, interrupted, last>>

RecvDequeue == /\ receiver \in Sockets /\ pkt = <<>> /\ ~interrupted
               /\ rx_q[receiver] # <<>>
               /\ pkt' = <<Head(rx_q[receiver])>>
               /\ rx_q' = [rx_q EXCEPT ![receiver] = Tail(@)]
               /\ UNCHANGED <<vars, nic, arrived, poller_vars, rx_buffer, mbufs, lost,
                              receiver, interrupted, last>>

\* Bug variant of InterruptSeen: the flag is looked at only once a packet has come.
InterruptMissed == interrupted /\ pkt # <<>>

InterruptSeen == interrupted

\* EINTR.  A packet dequeued just before is neither returned nor freed.
RecvInterrupted == /\ receiver \in Sockets /\ InterruptSeen
                   /\ receiver' = Nobody /\ pkt' = <<>>
                   /\ lost' = lost \cup (Range(pkt) \ Nulls)
                   /\ UNCHANGED <<vars, nic, arrived, poller_vars, queues, mbufs,
                                  interrupted, last>>

\* recvfrom() does not look at what it has dequeued.
RecvDies == /\ receiver \in Sockets /\ pkt # <<>> /\ ~interrupted
            /\ Head(pkt) \in Nulls
            /\ receiver' = Dead /\ pkt' = <<>>
            /\ UNCHANGED <<vars, nic, arrived, poller_vars, queues, mbufs, lost,
                           interrupted, last>>

RecvReturn == /\ receiver \in Sockets /\ pkt # <<>> /\ ~interrupted
              /\ Head(pkt) \notin Nulls
              /\ receiver' = Nobody /\ pkt' = <<>>
              /\ mbufs' = mbufs \ Range(pkt)
              /\ last' = [last EXCEPT ![receiver] = Head(pkt)[1]]
              /\ UNCHANGED <<vars, nic, arrived, poller_vars, queues, lost, interrupted>>

RecvSteps == RecvDequeue \/ RecvInterrupted \/ RecvDies \/ RecvReturn

\* udpdk_interrupt, from a signal handler.
Interrupt == /\ ~interrupted /\ interrupted' = TRUE
             /\ UNCHANGED <<vars, nic, arrived, poller_vars, queues, mbufs, lost,
                            receiver, pkt, last>>

-----------------------------------------------------------------------------
\* The calls that change the slots or the table, one at a time: none is made
\* from within a recvfrom().  close() leaves the buffer and the ring as they are.
AppCall == /\ receiver = Nobody
           /\ \E s \in Sockets :
                 \/ Socket(s)
                 \/ \E opt \in Options, on \in BOOLEAN : Setsockopt(s, opt, on)
                 \/ \E ip \in IPs, port \in Ports : Bind(s, ip, port)
                 \/ Close(s)
           /\ UNCHANGED rx_vars

RxNext == \/ AppCall
          \/ \E s \in Sockets : Recv(s)
          \/ RecvSteps \/ Interrupt
          \/ \E p \in Traffic : Arrive(p)
          \/ Poller

all_vars == <<vars, rx_vars>>

\* The poller never stops looping, nor does the loop of recvfrom().
RxSpec == /\ RxInit /\ [][RxNext]_all_vars
          /\ WF_all_vars(Poller) /\ WF_all_vars(RecvSteps)

-----------------------------------------------------------------------------
RxTypeOK == /\ TypeOK
            /\ arrived \in 0 .. MaxPackets
            /\ nic \in Seq(Packet) /\ rx_mbuf_table \in Seq(Packet)
            /\ Len(rx_mbuf_table) <= BurstSize
            /\ to_flush \in 0 .. NumSockets
            /\ frag_tbl \subseteq Packet /\ death_row \subseteq Mbufs
            /\ rx_buffer \in [Sockets -> Seq(Mbufs \cup Nulls)]
            /\ rx_q \in [Sockets -> Seq(Mbufs \cup Nulls)]
            /\ \A s \in Sockets : Len(rx_q[s]) <= RingRoom
            /\ mbufs \in SUBSET Mbufs /\ lost \in SUBSET Mbufs
            /\ receiver \in Sockets \cup {Nobody, Dead}
            /\ pkt \in Seq(Mbufs \cup Nulls) /\ Len(pkt) <= 1
            /\ interrupted \in BOOLEAN
            /\ last \in [Sockets -> 0 .. MaxPackets]

\* What slot s still has to deliver, NULLs included, in the order recvfrom() will see it.
Pending(s) == (IF receiver = s THEN pkt ELSE <<>>) \o rx_q[s] \o rx_buffer[s]

Increasing(q) == \A i, j \in DOMAIN q : i < j => q[i][1] < q[j][1]

\* recvfrom() returns the packets of a slot in the order of their arrival and
\* no packet twice, although they wait in three places and are dropped in bulk.
DeliveryOrdered ==
    \A s \in Sockets : /\ Increasing(Pending(s))
                       /\ \A i \in DOMAIN Pending(s) : last[s] < Pending(s)[i][1]

PendingMbufs(s) == Range(Pending(s)) \ Nulls

\* What the NIC and the poller hold, besides the buffers.
Incoming == MbufsOf(Range(nic) \cup Range(rx_mbuf_table) \cup frag_tbl) \cup death_row

\* An mbuf has one holder at a time, and a holder never has one that was freed:
\* neither the copies of a fan-out, some of which could not be made, nor a flush
\* that finds no room, nor the death row frees a packet somebody will read.
MbufsOwnedOnce ==
    /\ \A s \in Sockets : PendingMbufs(s) \subseteq mbufs
    /\ Incoming \subseteq mbufs
    /\ MbufsOf(frag_tbl) \cap death_row = {}
    /\ \A s \in Sockets : PendingMbufs(s) \cap Incoming = {}
    /\ \A s, t \in Sockets : s # t => PendingMbufs(s) \cap PendingMbufs(t) = {}

\* An mbuf that was not freed is held by somebody, save those dropped on three
\* paths: not UDP, port without binding, and recvfrom() interrupted.  No other
\* path takes mbufs away from the RX pool for good.
MbufsAccounted ==
    mbufs = Incoming \cup lost \cup UNION {PendingMbufs(s) : s \in Sockets}

\* Packet p is for the port and the address of socket s.
Wants(s, p) == /\ p.dst # NotUdp
               /\ slots[s].bound /\ slots[s].udp_port = p.dst[2]
               /\ slots[s].ip_addr \in {p.dst[1], INADDR_ANY}

Switches(p) == rx_mbuf_table # <<>> /\ Head(rx_mbuf_table) = p
                                    /\ rx_mbuf_table' = Tail(rx_mbuf_table)

\* Packet p is whole, or takes in the fragment that was missing.
Complete(p) == p.of = Whole \/ \E q \in frag_tbl : <<q.id, 1>> \notin mbufs'

\* The sockets whose buffer got a copy in this step.
Served == {s \in Sockets : Len(rx_buffer'[s]) > Len(rx_buffer[s])}

\* A packet is put in the buffer of a slot only while that slot is an open
\* socket bound to the packet's port and to its address or the wildcard: a
\* closed socket, or one bound elsewhere since, gets nothing new.
OnlyToBound ==
    \A s \in Served : /\ slots[s].used
                      /\ \E p \in Packet : Switches(p) /\ Wants(s, p)

DeliveredToBound == [][OnlyToBound]_all_vars

\* Socket s holds the wildcard address of port p and has no reuse option.
Captures(s, p) == \E i \in DOMAIN sock_bind_table[p] :
                     LET b == sock_bind_table[p][i]
                     IN  b.sockfd = s /\ b.ip_addr = INADDR_ANY /\ ~Reusable(b)

\* The scan stops at the first socket without a reuse option.  The rules of bind
\* leave one way only for that to cost a socket its packet: a wildcard socket
\* without a reuse option is bound to the port.
StarvedOnlyByWildcard ==
    [][\A p \in Packet, s \in Sockets :
          Switches(p) /\ Complete(p) /\ Wants(s, p)
          => s \in Served \/ \E t \in Sockets \ {s} : Captures(t, p.dst[2])]_all_vars

\* "buffers storing rx packets before flushing to rt_ring", rx_buffer[EXCH_BUF_SIZE]
\* (udpdk_types.h:59): a slot never has more packets than the buffer has places.
BufferFits == \A s \in Sockets : Len(rx_buffer[s]) <= BufSize

\* A packet in the NIC for the socket of a blocked recvfrom() ends that call, if no
\* buffer overflows before.
PacketWakesReceiver ==
    (/\ receiver \in Sockets
     /\ \E p \in Range(nic) : /\ Wants(receiver, p) /\ p.of = Whole
                             /\ \A t \in Sockets \ {receiver} : ~Captures(t, p.dst[2]))
    ~> (receiver \notin Sockets \/ ~BufferFits)

\* So does an interrupt, whatever the traffic.
InterruptWakesReceiver == interrupted ~> (receiver \notin Sockets)

-----------------------------------------------------------------------------
\* "Enqueue the packet for the appropriate exc buffer" (udpdk_poller.c:296):
\* what the scan gives to a socket goes to the buffer of that socket.
AppropriateBuffer ==
    [][\A p \in Packet :
          Switches(p) /\ Complete(p) /\ Switched(p)
          => \A i \in Recipients(p) : sock_bind_table[p.dst[2]][i].sockfd \in Served
      ]_all_vars

=============================================================================
