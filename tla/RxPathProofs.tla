---------------------------- MODULE RxPathProofs ----------------------------
(***************************************************************************)
(* Reception, for every number of slots, of packets and of buffer places.  *)
(* The slots and the table change as in Sockets, whose invariants are      *)
(* therefore invariants here; with them, the scan of a list delivers to    *)
(* sockets that are open and bound to the packet's destination.            *)
(*                                                                         *)
(* Then the mbufs of reception, for any number of fragments and of buffer  *)
(* indices: who holds each, when it is freed, in which order recvfrom()    *)
(* gets them, and who gets a packet.                                       *)
(***************************************************************************)
EXTENDS RxPath, SocketsProofs, SequenceTheorems

-----------------------------------------------------------------------------
(* Composition: a step of RxPath is a step of Sockets, or leaves its state. *)

LEMMA RxStepOfSockets == [RxNext]_all_vars => [Next]_vars
<1> SUFFICES ASSUME [RxNext]_all_vars PROVE [Next]_vars
  OBVIOUS
<1>1. CASE AppCall
  <2>1. PICK s \in Sockets :
           \/ Socket(s)
           \/ \E opt \in Options, on \in BOOLEAN : Setsockopt(s, opt, on)
           \/ \E ip \in IPs, port \in Ports : Bind(s, ip, port)
           \/ Close(s)
    BY <1>1 DEF AppCall
  <2>2. CASE Socket(s)
    BY <2>2 DEF Next, SocketCalls
  <2>3. CASE \E opt \in Options, on \in BOOLEAN : Setsockopt(s, opt, on)
    BY <2>3 DEF Next, OptionCalls
  <2>4. CASE \E ip \in IPs, port \in Ports : Bind(s, ip, port)
    BY <2>4 DEF Next, BindCalls
  <2>5. CASE Close(s)
    BY <2>5 DEF Next, CloseCalls
  <2> QED
    BY <2>1, <2>2, <2>3, <2>4, <2>5
<1>2. CASE \E s \in Sockets : Recv(s)
  BY <1>2 DEF Recv, Up, vars
<1>3. CASE RecvSteps
  BY <1>3 DEF RecvSteps, RecvDequeue, RecvInterrupted, RecvDies, RecvReturn
<1>4. CASE Interrupt
  BY <1>4 DEF Interrupt
<1>5. CASE \E p \in Traffic : Arrive(p)
  BY <1>5 DEF Arrive
<1>6. CASE Poller
  BY <1>6 DEF Poller, RxBurst, Switch, FlushSlot, FreeDeathRow
<1>7. CASE UNCHANGED all_vars
  BY <1>7 DEF all_vars
<1> QED
  BY <1>1, <1>2, <1>3, <1>4, <1>5, <1>6, <1>7 DEF RxNext

\* The poller and recvfrom() change no slot and no binding: seen from the slots
\* and the table, the reception system is Sockets.
THEOREM SocketsInRxPath == RxSpec => Spec
<1>1. RxInit => Init
  BY DEF RxInit
<1> QED
  BY <1>1, RxStepOfSockets, PTL DEF RxSpec, Spec

-----------------------------------------------------------------------------
(* What a switched packet adds to a buffer. *)

\* The n-th copies, whatever n, and with n = 0 the NULLs.
Copies == Ids \X Nat

LEMMA RecipientsFinite ==
    ASSUME TypeOK, NEW p \in Packet, p.dst # NotUdp
    PROVE  /\ p.dst[1] \in Dests /\ p.dst[2] \in Ports
           /\ sock_bind_table[p.dst[2]] \in Seq(BindInfo)
           /\ Recipients(p) \subseteq DOMAIN sock_bind_table[p.dst[2]]
           /\ IsFiniteSet(Recipients(p))
<1>1. p.dst[1] \in Dests /\ p.dst[2] \in Ports
  BY DEF Packet
<1>2. sock_bind_table[p.dst[2]] \in Seq(BindInfo)
  BY <1>1 DEF TypeOK
<1>3. Recipients(p) \subseteq DOMAIN sock_bind_table[p.dst[2]]
  BY DEF Recipients
<1>4. IsFiniteSet(DOMAIN sock_bind_table[p.dst[2]])
  <2>1. /\ Len(sock_bind_table[p.dst[2]]) \in Nat
        /\ DOMAIN sock_bind_table[p.dst[2]] = 1 .. Len(sock_bind_table[p.dst[2]])
    BY <1>2
  <2> QED
    BY <2>1, FS_Interval
<1> QED
  BY <1>1, <1>2, <1>3, <1>4, FS_Subset

LEMMA CopyType ==
    ASSUME TypeOK, NEW p \in Packet, p.dst # NotUdp, NEW i, NEW made
    PROVE  CopyFor(p, i, made) \in Copies
<1>1. IsFiniteSet(Recipients(p))
  BY RecipientsFinite
<1>2. {j \in Recipients(p) : j <= i} \in SUBSET Recipients(p)
  OBVIOUS
<1>3. Cardinality({j \in Recipients(p) : j <= i}) \in Nat
  BY <1>1, <1>2, FS_Subset, FS_CardinalityType
<1>4. p.id \in Ids
  BY DEF Packet
<1> QED
  BY <1>3, <1>4 DEF CopyFor, Copy, Copies

LEMMA EnqueuedType ==
    ASSUME TypeOK, NEW p \in Packet, p.dst # NotUdp, NEW s \in Sockets, NEW made
    PROVE  /\ EnqueuedTo(s, p, made) \in Seq(Copies)
           /\ Len(EnqueuedTo(s, p, made)) # 0 =>
                 \E i \in Recipients(p) :
                    sock_bind_table[p.dst[2]][i].sockfd % BufIndices = s
<1> DEFINE list == sock_bind_table[p.dst[2]]
           here == {i \in Recipients(p) : list[i].sockfd % BufIndices = s}
           pos(k) == CHOOSE i \in here : Cardinality({j \in here : j <= i}) = k
<1>1. IsFiniteSet(here)
  BY RecipientsFinite, FS_Subset
<1>2. Cardinality(here) \in Nat
  BY <1>1, FS_CardinalityType
<1>3. Cardinality(here) # 0 => here # {}
  BY FS_EmptySet
<1>4. EnqueuedTo(s, p, made) = [k \in 1 .. Cardinality(here) |-> CopyFor(p, pos(k), made)]
  BY DEF EnqueuedTo
<1>5. \A k \in 1 .. Cardinality(here) : CopyFor(p, pos(k), made) \in Copies
  BY CopyType
<1>6. here # {} => \E i \in Recipients(p) : list[i].sockfd % BufIndices = s
  OBVIOUS
<1> HIDE DEF here, pos
<1>7. /\ EnqueuedTo(s, p, made) \in Seq(Copies)
      /\ Len(EnqueuedTo(s, p, made)) = Cardinality(here)
  BY <1>2, <1>4, <1>5
<1> QED
  BY <1>3, <1>6, <1>7

-----------------------------------------------------------------------------
(* The queues of the poller hold sequences. *)

RxShape == /\ nic \in Seq(Packet)
           /\ rx_mbuf_table \in Seq(Packet)
           /\ rx_buffer \in [Sockets -> Seq(Copies)]

LEMMA InitRxShape == RxInit => RxShape
BY DEF RxInit, RxShape

\* Switching a packet appends to the buffers; no other step makes one longer.
LEMMA DeliverBuffers ==
    ASSUME TypeOK, RxShape, NEW p \in Packet, NEW taken, Deliver(p, taken)
    PROVE  /\ rx_buffer' \in [Sockets -> Seq(Copies)]
           /\ \A s \in Served : Switched(p) /\ \E made : Len(EnqueuedTo(s, p, made)) # 0
<1>1. CASE Switched(p)
  <2>1. PICK made \in ClonesMade(p) :
           rx_buffer' = [s \in Sockets |-> rx_buffer[s] \o EnqueuedTo(s, p, made)]
    BY <1>1 DEF Deliver
  <2>2. p.dst # NotUdp
    BY <1>1 DEF Switched
  <2>3. \A s \in Sockets : /\ rx_buffer[s] \in Seq(Copies)
                           /\ EnqueuedTo(s, p, made) \in Seq(Copies)
    BY <2>2, EnqueuedType DEF RxShape
  <2>4. \A s \in Sockets :
           /\ rx_buffer'[s] \in Seq(Copies)
           /\ Len(rx_buffer'[s]) = Len(rx_buffer[s]) + Len(EnqueuedTo(s, p, made))
    BY <2>1, <2>3
  <2>5. \A s \in Served : Len(EnqueuedTo(s, p, made)) # 0
    BY <2>3, <2>4 DEF Served
  <2> QED
    BY <1>1, <2>1, <2>4, <2>5
<1>2. CASE ~Switched(p)
  <2>1. rx_buffer' = rx_buffer
    BY <1>2 DEF Deliver
  <2> QED
    BY <2>1 DEF Served, RxShape
<1> QED
  BY <1>1, <1>2

\* A fragment that waits, or goes to the death row, is put in no buffer; one that
\* makes a datagram complete is delivered as a whole packet is.
LEMMA SwitchBuffers ==
    ASSUME TypeOK, RxShape, Switch
    PROVE  /\ rx_buffer' \in [Sockets -> Seq(Copies)]
           /\ rx_mbuf_table' \in Seq(Packet)
           /\ \A s \in Served :
                 \E p \in Packet :
                    /\ Switches(p) /\ Switched(p)
                    /\ \E made : Len(EnqueuedTo(s, p, made)) # 0
<1> DEFINE p == Head(rx_mbuf_table)
<1>1. /\ rx_mbuf_table # <<>> /\ rx_mbuf_table \in Seq(Packet)
      /\ rx_mbuf_table' = Tail(rx_mbuf_table)
  BY DEF Switch, RxShape
<1>2. p \in Packet /\ Switches(p) /\ rx_mbuf_table' \in Seq(Packet)
  BY <1>1 DEF Switches
<1>3. \/ \E taken : Deliver(p, taken)
      \/ rx_buffer' = rx_buffer
  <2>1. CASE p.of = Whole
    BY <2>1 DEF Switch
  <2>2. CASE p.of # Whole
    <3>1. PICK waiting \in SUBSET frag_tbl : Waits(p, waiting) \/ Completes(p, waiting)
      BY <2>2 DEF Switch
    <3>2. CASE Waits(p, waiting)
      BY <3>2 DEF Waits
    <3>3. CASE Completes(p, waiting)
      BY <3>3 DEF Completes
    <3> QED
      BY <3>1, <3>2, <3>3
  <2> QED
    BY <2>1, <2>2
<1> HIDE DEF p
<1>4. CASE \E taken : Deliver(p, taken)
  <2>1. PICK taken : Deliver(p, taken)
    BY <1>4
  <2> QED
    BY <1>2, <2>1, DeliverBuffers
<1>5. CASE rx_buffer' = rx_buffer
  <2>1. Served = {}
    BY <1>5 DEF Served, RxShape
  <2> QED
    BY <1>2, <1>5, <2>1 DEF RxShape
<1> QED
  BY <1>3, <1>4, <1>5

LEMMA FlushBuffers ==
    ASSUME RxShape, FlushSlot
    PROVE  rx_buffer' \in [Sockets -> Seq(Copies)] /\ Served = {}
<1>1. rx_buffer' = rx_buffer \/ rx_buffer' = [rx_buffer EXCEPT ![to_flush] = <<>>]
  BY DEF FlushSlot, flush_rx_queue, queues
<1>2. \A s \in Sockets : /\ rx_buffer[s] \in Seq(Copies) /\ Len(rx_buffer[s]) \in Nat
                         /\ rx_buffer'[s] = rx_buffer[s] \/ rx_buffer'[s] = <<>>
  BY <1>1 DEF RxShape
<1>3. rx_buffer' \in [Sockets -> Seq(Copies)]
  <2>1. <<>> \in Seq(Copies)
    OBVIOUS
  <2>2. [rx_buffer EXCEPT ![to_flush] = <<>>] \in [Sockets -> Seq(Copies)]
    BY <2>1 DEF RxShape
  <2> QED
    BY <1>1, <2>2 DEF RxShape
<1>4. Served = {}
  BY <1>2 DEF Served
<1> QED
  BY <1>3, <1>4

LEMMA OtherBuffers ==
    ASSUME RxShape, UNCHANGED rx_buffer
    PROVE  rx_buffer' \in [Sockets -> Seq(Copies)] /\ Served = {}
BY DEF RxShape, Served

LEMMA StepBuffers ==
    ASSUME TypeOK, RxShape, [RxNext]_all_vars
    PROVE  Switch \/ (rx_buffer' \in [Sockets -> Seq(Copies)] /\ Served = {})
<1>1. CASE AppCall
  BY <1>1, OtherBuffers DEF AppCall, rx_vars, queues
<1>2. CASE \E s \in Sockets : Recv(s)
  BY <1>2, OtherBuffers DEF Recv, queues
<1>3. CASE RecvSteps
  BY <1>3, OtherBuffers DEF RecvSteps, RecvDequeue, RecvInterrupted, RecvDies,
                            RecvReturn, queues
<1>4. CASE Interrupt
  BY <1>4, OtherBuffers DEF Interrupt, queues
<1>5. CASE \E p \in Traffic : Arrive(p)
  BY <1>5, OtherBuffers DEF Arrive, queues
<1>6. CASE RxBurst
  BY <1>6, OtherBuffers DEF RxBurst, queues
<1>7. CASE FlushSlot
  BY <1>7, FlushBuffers
<1>8. CASE FreeDeathRow
  BY <1>8, OtherBuffers DEF FreeDeathRow, queues
<1>9. CASE UNCHANGED all_vars
  BY <1>9, OtherBuffers DEF all_vars, rx_vars, queues
<1> QED
  BY <1>1, <1>2, <1>3, <1>4, <1>5, <1>6, <1>7, <1>8, <1>9 DEF RxNext, Poller

LEMMA StepShape ==
    ASSUME TypeOK, RxShape, [RxNext]_all_vars
    PROVE  RxShape'
<1>1. rx_buffer' \in [Sockets -> Seq(Copies)]
  BY StepBuffers, SwitchBuffers
<1>2. nic' \in Seq(Packet) /\ rx_mbuf_table' \in Seq(Packet)
  <2>1. CASE AppCall
    BY <2>1 DEF AppCall, rx_vars, poller_vars, RxShape
  <2>2. CASE \E s \in Sockets : Recv(s)
    BY <2>2 DEF Recv, poller_vars, RxShape
  <2>3. CASE RecvSteps
    BY <2>3 DEF RecvSteps, RecvDequeue, RecvInterrupted, RecvDies, RecvReturn,
                poller_vars, RxShape
  <2>4. CASE Interrupt
    BY <2>4 DEF Interrupt, poller_vars, RxShape
  <2>5. CASE \E p \in Traffic : Arrive(p)
    BY <2>5, TrafficAssumption DEF Arrive, poller_vars, RxShape
  <2>6. CASE RxBurst
    <3>1. /\ Len(nic) \in Nat /\ BurstSize \in Nat
          /\ Smaller(Len(nic), BurstSize) \in 0 .. Len(nic)
      BY RxAssumption DEF RxShape, Smaller
    <3> QED
      BY <2>6, <3>1 DEF RxBurst, RxShape
  <2>7. CASE Switch
    BY <2>7, SwitchBuffers DEF Switch, RxShape
  <2>8. CASE FlushSlot
    BY <2>8 DEF FlushSlot, RxShape
  <2>9. CASE FreeDeathRow
    BY <2>9 DEF FreeDeathRow, RxShape
  <2>10. CASE UNCHANGED all_vars
    BY <2>10 DEF all_vars, rx_vars, poller_vars, RxShape
  <2> QED
    BY <2>1, <2>2, <2>3, <2>4, <2>5, <2>6, <2>7, <2>8, <2>9, <2>10 DEF RxNext, Poller
<1> QED
  BY <1>1, <1>2 DEF RxShape

LEMMA ShapeInvariant == RxSpec => []RxShape
<1>1. TypeOK /\ RxShape /\ [RxNext]_all_vars => RxShape'
  BY StepShape
<1>2. RxSpec => []TypeOK
  BY SocketsInRxPath, TypeCorrect, PTL
<1> QED
  BY InitRxShape, <1>1, <1>2, PTL DEF RxSpec

-----------------------------------------------------------------------------
\* Every bound socket has a buffer index of its own.  The code has 1024 slots and 256
\* indices: it holds of the runs in which no socket is bound but the 256 lowest.
EnoughIndices == \A s \in Sockets : slots[s].bound => s < BufIndices

\* A recipient of a packet is an open socket bound to its destination.
LEMMA RecipientBound ==
    ASSUME TypeOK, BindingsOwned, EnoughIndices,
           NEW p \in Packet, p.dst # NotUdp, NEW s \in Sockets,
           \E i \in Recipients(p) : sock_bind_table[p.dst[2]][i].sockfd % BufIndices = s
    PROVE  slots[s].used /\ Wants(s, p)
<1> DEFINE list == sock_bind_table[p.dst[2]]
<1>1. PICK i \in Recipients(p) : list[i].sockfd % BufIndices = s
  OBVIOUS
<1>2. /\ p.dst[2] \in Ports /\ i \in DOMAIN list /\ list \in Seq(BindInfo)
  BY RecipientsFinite
<1>3. list[i] \in BindInfo
  BY <1>2
<1>4. list[i].sockfd \in Sockets
  BY <1>3 DEF BindInfo
<1>5. list[i].sockfd = s
  <2> DEFINE x == list[i].sockfd
  <2>1. slots[x].bound
    BY <1>2 DEF BindingsOwned
  <2>2. x \in Sockets /\ x < BufIndices
    BY <1>4, <2>1 DEF EnoughIndices
  <2>3. x \in Nat /\ BufIndices \in Nat \ {0}
    BY <2>2, RxAssumption, NumSocketsAssumption DEF Sockets
  <2> HIDE DEF x
  <2>4. x % BufIndices = x
    BY <2>2, <2>3
  <2> QED
    BY <1>1, <2>4 DEF x
<1>6. /\ slots[s].used /\ slots[s].bound
      /\ slots[s].udp_port = p.dst[2] /\ slots[s].ip_addr = list[i].ip_addr
  BY <1>2, <1>5 DEF BindingsOwned
<1>7. list[i].ip_addr \in {p.dst[1], INADDR_ANY}
  BY <1>1 DEF Recipients, Matches
<1> QED
  BY <1>6, <1>7 DEF Wants

LEMMA StepOnlyToBound ==
    ASSUME TypeOK, BindingsOwned, RxShape, EnoughIndices, [RxNext]_all_vars
    PROVE  OnlyToBound
<1>1. CASE Switch
  <2> SUFFICES ASSUME NEW s \in Served
               PROVE  slots[s].used /\ \E p \in Packet : Switches(p) /\ Wants(s, p)
    BY DEF OnlyToBound
  <2>1. PICK p \in Packet : /\ Switches(p) /\ Switched(p)
                            /\ \E made : Len(EnqueuedTo(s, p, made)) # 0
    BY <1>1, SwitchBuffers
  <2>2. s \in Sockets /\ p.dst # NotUdp
    BY <2>1 DEF Served, Switched
  <2>3. slots[s].used /\ Wants(s, p)
    BY <2>1, <2>2, EnqueuedType, RecipientBound
  <2> QED
    BY <2>1, <2>3
<1>2. CASE Served = {}
  BY <1>2 DEF OnlyToBound
<1> QED
  BY <1>1, <1>2, StepBuffers

\* However the calls of the application and the steps of the poller interleave,
\* reassemble() puts a packet only in the buffer of an open socket bound to the
\* packet's port and to its address or the wildcard, as long as no socket
\* beyond the buffer indices is bound (the code has 256 for 1024 slots: see
\* AppropriateBuffer).
THEOREM OnlyBoundServed == []EnoughIndices /\ RxSpec => DeliveredToBound
<1>1. EnoughIndices /\ TypeOK /\ BindingsOwned /\ RxShape /\ [RxNext]_all_vars
        => [OnlyToBound]_all_vars
  BY StepOnlyToBound
<1>2. RxSpec => []TypeOK /\ []BindingsOwned
  BY SocketsInRxPath, TypeCorrect, TableOwned, PTL
<1> QED
  BY <1>1, <1>2, ShapeInvariant, PTL DEF RxSpec, DeliveredToBound

-----------------------------------------------------------------------------
(* The rank of an element in a finite set of numbers.  The poller gives the *)
(* n-th copy of a packet to the n-th recipient.                             *)

Rank(S, i) == Cardinality({j \in S : j <= i})

LEMMA RankBijective ==
    ASSUME NEW S \in SUBSET Nat, IsFiniteSet(S)
    PROVE  /\ \A i \in S : Rank(S, i) \in 1 .. Cardinality(S)
           /\ \A i, j \in S : Rank(S, i) = Rank(S, j) => i = j
           /\ \A n \in 1 .. Cardinality(S) : \E i \in S : Rank(S, i) = n
<1> DEFINE upTo(i) == {j \in S : j <= i}
           N == Cardinality(S)
<1>1. \A i : /\ upTo(i) \in SUBSET S /\ IsFiniteSet(upTo(i))
             /\ Cardinality(upTo(i)) \in Nat /\ Cardinality(upTo(i)) <= N
  BY FS_Subset, FS_CardinalityType
<1>2. N \in Nat
  BY FS_CardinalityType
<1>3. ASSUME NEW i \in S PROVE Rank(S, i) \in 1 .. N
  <2>1. upTo(i) # {}
    OBVIOUS
  <2>2. Cardinality(upTo(i)) # 0
    BY <1>1, <2>1, FS_EmptySet
  <2> QED
    BY <1>1, <1>2, <2>2 DEF Rank
<1>4. ASSUME NEW i \in S, NEW j \in S, i < j PROVE Rank(S, i) # Rank(S, j)
  <2>0. i \in Nat /\ j \in Nat /\ \A k \in S : k \in Nat
    OBVIOUS
  <2>1. /\ \A k \in S : k <= i => k <= j
        /\ ~(j <= i) /\ j <= j
    BY <1>4, <2>0
  <2>4. upTo(i) \in SUBSET upTo(j) /\ j \notin upTo(i) /\ j \in upTo(j)
    BY <2>1, Zenon
  <2>2. upTo(i) # upTo(j)
    BY <2>4
  <2>3. Cardinality(upTo(i)) # Cardinality(upTo(j))
    BY <1>1, <2>4, <2>2, FS_Subset
  <2> QED
    BY <2>3 DEF Rank
<1>5. ASSUME NEW i \in S, NEW j \in S, Rank(S, i) = Rank(S, j) PROVE i = j
  BY <1>4, <1>5
<1>6. \A n \in 1 .. N : \E i \in S : Rank(S, i) = n
  <2> DEFINE f == [i \in S |-> Rank(S, i)]
  <2>1. f \in Injection(S, 1 .. N)
    BY <1>3, <1>5, Fun_IsInj
  <2>2. IsFiniteSet(1 .. N) /\ Cardinality(1 .. N) = N
    BY <1>2, FS_Interval
  <2>3. f \in Surjection(S, 1 .. N)
    BY <2>1, <2>2, FS_Injection
  <2> QED
    BY <2>3 DEF Surjection
<1> QED
  BY <1>3, <1>5, <1>6

-----------------------------------------------------------------------------
(* The fan-out of a packet. *)

\* A copy of a packet, or the NULL in the place of one.
Cells == Mbufs \cup Nulls

LEMMA CellFacts ==
    /\ \A i \in Ids, n \in 1 .. NumSockets + 1 : <<i, n>> \in Mbufs
    /\ \A i \in Ids, n \in 0 .. NumSockets + 1 : <<i, n>> \in Cells
    /\ \A m \in Mbufs : m \in Cells /\ m \notin Nulls
    /\ \A m \in Cells : /\ m[1] \in Ids /\ m[2] \in 0 .. NumSockets + 1 /\ m = <<m[1], m[2]>>
                        /\ m \in Nulls <=> m[2] = 0
                        /\ m \notin Nulls => m \in Mbufs
BY NumSocketsAssumption DEF Cells, Mbufs, Nulls

\* The sockets that get a packet are as many as their positions, and the scan of
\* the list stops at the only one that has no reuse option.
LEMMA FanOut ==
    ASSUME TypeOK, TableInv, NEW p \in Packet, p.dst # NotUdp
    PROVE  /\ p.id \in Ids
           /\ Recipients(p) \in SUBSET Nat /\ IsFiniteSet(Recipients(p))
           /\ Cardinality(Recipients(p)) \in 0 .. NumSockets
           /\ Cardinality(Cloning(p)) \in Nat
           /\ \/ Cardinality(Cloning(p)) = Cardinality(Recipients(p))
              \/ Cardinality(Cloning(p)) = Cardinality(Recipients(p)) - 1
<1> DEFINE list == sock_bind_table[p.dst[2]]
           R == Recipients(p)
           C == Cloning(p)
<1>1. p.dst[2] \in Ports /\ R \subseteq DOMAIN list /\ IsFiniteSet(R)
  BY RecipientsFinite
<1>2. /\ list \in Seq(BindInfo) /\ DOMAIN list = 1 .. Len(list) /\ Len(list) \in Nat
      /\ \A i \in DOMAIN list : list[i] \in BindInfo
  BY <1>1, ListType
<1>3. R \in SUBSET Nat
  BY <1>1, <1>2
<1>4. Cardinality(R) \in 0 .. NumSockets
  <2> DEFINE owner == [i \in R |-> list[i].sockfd]
  <2>1. \A i \in R : list[i].sockfd \in Sockets
    BY <1>1, <1>2 DEF BindInfo
  <2>2. \A i, j \in R : list[i].sockfd = list[j].sockfd => i = j
    BY <1>1, EntryBySocket
  <2>3. owner \in Injection(R, Sockets)
    BY <2>1, <2>2, Fun_IsInj
  <2>4. Cardinality(R) <= NumSockets
    BY <2>3, SocketsFinite, FS_Injection
  <2> QED
    BY <1>1, <2>4, NumSocketsAssumption, FS_CardinalityType
<1>5. C \subseteq R /\ IsFiniteSet(C) /\ Cardinality(C) \in Nat
  BY <1>1, FS_Subset, FS_CardinalityType DEF Cloning
<1>6. C = R \/ \E x \in R : C = R \ {x}
  <2> SUFFICES ASSUME NEW x \in R \ C, NEW y \in R \ C PROVE x = y
    BY <1>5
  <2>1. /\ Matches(list[x], p) /\ ~Reusable(list[x])
        /\ Matches(list[y], p) /\ ~Reusable(list[y])
        /\ x \in Nat \ {0} /\ y \in Nat \ {0}
    <3>1. Matches(list[x], p) /\ Matches(list[y], p)
      BY DEF Recipients
    <3>2. ~Reusable(list[x]) /\ ~Reusable(list[y])
      BY DEF Cloning
    <3>3. x \in Nat \ {0} /\ y \in Nat \ {0}
      BY <1>1, <1>2
    <3> QED
      BY <3>1, <3>2, <3>3
  <2>2. ~(x < y) /\ ~(y < x)
    BY <2>1 DEF Recipients
  <2> QED
    BY <2>1, <2>2
<1>7. Cardinality(C) = Cardinality(R) \/ Cardinality(C) = Cardinality(R) - 1
  BY <1>1, <1>6, FS_RemoveElement
<1>8. p.id \in Ids
  BY DEF Packet
<1> QED
  BY <1>1, <1>3, <1>4, <1>5, <1>7, <1>8

\* Each recipient gets a copy of its own, or a NULL when there are not enough.
LEMMA CopyOf ==
    ASSUME TypeOK, TableInv, NEW p \in Packet, p.dst # NotUdp, NEW made \in ClonesMade(p)
    PROVE  /\ \A i : CopyFor(p, i, made) \in Cells /\ CopyFor(p, i, made)[1] = p.id
           /\ \A i, j \in Recipients(p) :
                 CopyFor(p, i, made) = CopyFor(p, j, made) /\ CopyFor(p, i, made) \notin Nulls => i = j
           /\ \A i \in Recipients(p) : CopyFor(p, i, made) \notin Nulls =>
                 \E n \in 1 .. Cardinality(Recipients(p)) :
                    n <= made + 1 /\ CopyFor(p, i, made) = <<p.id, n>>
           /\ \A n \in 1 .. Cardinality(Recipients(p)) : n <= made + 1 =>
                 \E i \in Recipients(p) : CopyFor(p, i, made) = <<p.id, n>>
<1> DEFINE R == Recipients(p)
           r(i) == Rank(R, i)
           C(n) == <<p.id, IF n <= made + 1 THEN n ELSE 0>>
<1>1. /\ p.id \in Ids /\ R \in SUBSET Nat /\ IsFiniteSet(R)
      /\ Cardinality(R) \in 0 .. NumSockets /\ Cardinality(Cloning(p)) \in Nat
  BY FanOut
<1>2. made \in Nat /\ NumSockets \in Nat
  BY <1>1, NumSocketsAssumption DEF ClonesMade
<1>3. \A i : CopyFor(p, i, made) = C(r(i))
  BY DEF CopyFor, Copy, Rank
<1>4. \A i : r(i) \in 0 .. NumSockets
  <2> TAKE i
  <2>1. {j \in R : j <= i} \in SUBSET R
    OBVIOUS
  <2>2. r(i) \in Nat /\ r(i) <= Cardinality(R)
    BY <1>1, <2>1, FS_Subset, FS_CardinalityType DEF Rank
  <2> QED
    BY <1>1, <1>2, <2>2
<1>5. /\ \A i \in R : r(i) \in 1 .. Cardinality(R)
      /\ \A i, j \in R : r(i) = r(j) => i = j
      /\ \A n \in 1 .. Cardinality(R) : \E i \in R : r(i) = n
  BY <1>1, RankBijective
<1> HIDE DEF r, R
<1>6. \A n \in 0 .. NumSockets : /\ C(n) \in Cells /\ C(n)[1] = p.id
                                 /\ C(n) \notin Nulls <=> n <= made + 1 /\ n # 0
                                 /\ n <= made + 1 => C(n) = <<p.id, n>>
  <2> TAKE n \in 0 .. NumSockets
  <2>1. CASE n <= made + 1
    <3>1. n \in 0 .. NumSockets + 1 /\ C(n) = <<p.id, n>>
      BY <1>2, <2>1
    <3>2. <<p.id, n>> \in Cells /\ <<p.id, n>>[1] = p.id /\ <<p.id, n>>[2] = n
      BY <1>1, <3>1, CellFacts
    <3> QED
      BY <2>1, <3>1, <3>2, CellFacts
  <2>2. CASE ~(n <= made + 1)
    <3>1. 0 \in 0 .. NumSockets + 1 /\ C(n) = <<p.id, 0>>
      BY <1>2, <2>2
    <3>2. <<p.id, 0>> \in Cells /\ <<p.id, 0>>[1] = p.id /\ <<p.id, 0>>[2] = 0
      BY <1>1, <3>1, CellFacts
    <3> QED
      BY <2>2, <3>1, <3>2, CellFacts
  <2> QED
    BY <2>1, <2>2
<1> HIDE DEF C
<1>7. \A i : CopyFor(p, i, made) \in Cells /\ CopyFor(p, i, made)[1] = p.id
  BY <1>3, <1>4, <1>6
<1>8. ASSUME NEW i \in R, CopyFor(p, i, made) \notin Nulls
      PROVE  r(i) \in 1 .. Cardinality(R) /\ r(i) <= made + 1 /\ CopyFor(p, i, made) = <<p.id, r(i)>>
  BY <1>3, <1>4, <1>5, <1>6, <1>8
<1>9. ASSUME NEW i \in R, NEW j \in R, CopyFor(p, i, made) = CopyFor(p, j, made),
             CopyFor(p, i, made) \notin Nulls
      PROVE  i = j
  <2>1. <<p.id, r(i)>> = <<p.id, r(j)>>
    BY <1>8, <1>9
  <2> QED
    BY <1>5, <2>1
<1>10. ASSUME NEW n \in 1 .. Cardinality(R), n <= made + 1
       PROVE  \E i \in R : CopyFor(p, i, made) = <<p.id, n>>
  <2>1. PICK i \in R : r(i) = n
    BY <1>5
  <2> DEFINE N == Cardinality(R)
  <2>2. N \in 0 .. NumSockets /\ n \in 1 .. N
    BY <1>1
  <2> HIDE DEF N
  <2>3. n \in 0 .. NumSockets
    BY <1>2, <2>2
  <2> QED
    BY <1>3, <1>6, <1>10, <2>1, <2>3
<1> QED
  BY <1>7, <1>8, <1>9, <1>10 DEF R

\* No packet twice, NULLs aside.
Once(q) == \A i, j \in DOMAIN q : q[i] = q[j] => i = j \/ q[i] \in Nulls

\* The recipients whose copy goes to the buffer of slot s.
Here(s, p) == {i \in Recipients(p) : sock_bind_table[p.dst[2]][i].sockfd % BufIndices = s}

\* The buffer of a slot gets the copies of its recipients, each once.
LEMMA EnqueuedCopies ==
    ASSUME TypeOK, TableInv, NEW p \in Packet, p.dst # NotUdp, NEW made \in ClonesMade(p),
           NEW s \in Sockets
    PROVE  /\ EnqueuedTo(s, p, made) \in Seq(Cells)
           /\ Len(EnqueuedTo(s, p, made)) = Cardinality(Here(s, p))
           /\ Range(EnqueuedTo(s, p, made)) = {CopyFor(p, i, made) : i \in Here(s, p)}
           /\ Once(EnqueuedTo(s, p, made))
<1> DEFINE here == Here(s, p)
           N == Cardinality(here)
           pos(k) == CHOOSE i \in here : Rank(here, i) = k
           E == EnqueuedTo(s, p, made)
           c(i) == CopyFor(p, i, made)
<1>1. here \in SUBSET Recipients(p) /\ here \in SUBSET Nat /\ IsFiniteSet(here) /\ N \in Nat
  <2>1. here \in SUBSET Recipients(p)
    BY DEF Here
  <2> QED
    BY <2>1, FanOut, FS_Subset, FS_CardinalityType
<1>2. E = [k \in 1 .. N |-> c(pos(k))]
  BY DEF EnqueuedTo, Here, Rank
<1>3. /\ \A i \in here : Rank(here, i) \in 1 .. N
      /\ \A i, j \in here : Rank(here, i) = Rank(here, j) => i = j
      /\ \A k \in 1 .. N : \E i \in here : Rank(here, i) = k
  BY <1>1, RankBijective
<1>4. /\ \A k \in 1 .. N : pos(k) \in here /\ Rank(here, pos(k)) = k
      /\ \A i \in here : pos(Rank(here, i)) = i
  <2>1. \A k \in 1 .. N : pos(k) \in here /\ Rank(here, pos(k)) = k
    BY <1>3
  <2> HIDE DEF pos
  <2> QED
    BY <1>3, <2>1
<1>5. /\ \A i \in here : c(i) \in Cells
      /\ \A i, j \in here : c(i) = c(j) /\ c(i) \notin Nulls => i = j
  BY <1>1, CopyOf
<1> HIDE DEF here, pos, c, E
<1> HIDE DEF N
<1>6. E \in Seq(Cells) /\ DOMAIN E = 1 .. N /\ Len(E) = N
  <2> DEFINE e(k) == c(pos(k))
  <2>1. \A k \in 1 .. N : e(k) \in Cells
    BY <1>4, <1>5
  <2>2. E = [k \in 1 .. N |-> e(k)]
    BY <1>2
  <2> HIDE DEF e
  <2> QED
    BY <1>1, <2>1, <2>2
<1>7. Range(E) = {c(i) : i \in here}
  <2>1. \A x \in Range(E) : x \in {c(i) : i \in here}
    BY <1>2, <1>4, <1>6 DEF Range
  <2>2. ASSUME NEW i \in here PROVE c(i) \in Range(E)
    <3>1. Rank(here, i) \in DOMAIN E /\ E[Rank(here, i)] = c(i)
      BY <1>2, <1>3, <1>4, <1>6
    <3> QED
      BY <3>1 DEF Range
  <2> QED
    BY <2>1, <2>2
<1>8. Once(E)
  <2> SUFFICES ASSUME NEW k \in DOMAIN E, NEW l \in DOMAIN E, E[k] = E[l], E[k] \notin Nulls
               PROVE  k = l
    BY DEF Once
  <2>1. E[k] = c(pos(k)) /\ E[l] = c(pos(l)) /\ pos(k) \in here /\ pos(l) \in here
    BY <1>2, <1>4, <1>6
  <2>2. pos(k) = pos(l)
    BY <1>5, <2>1
  <2> QED
    BY <1>4, <1>6, <2>2
<1> QED
  BY <1>6, <1>7, <1>8 DEF E, here, N, c

\* The copies the recipients get, NULLs aside.
Given(p, made) == {<<p.id, n>> : n \in {k \in 1 .. Cardinality(Recipients(p)) : k <= made + 1}}

\* Together the buffers get the given copies, and no two of them the same one.
LEMMA EnqueuedGiven ==
    ASSUME TypeOK, TableInv, NEW p \in Packet, p.dst # NotUdp, NEW made \in ClonesMade(p)
    PROVE  /\ \A s, t \in Sockets : s # t =>
                 (Range(EnqueuedTo(s, p, made)) \ Nulls) \cap Range(EnqueuedTo(t, p, made)) = {}
           /\ UNION {Range(EnqueuedTo(s, p, made)) \ Nulls : s \in Sockets} = Given(p, made)
<1> DEFINE c(i) == CopyFor(p, i, made)
           fd(i) == sock_bind_table[p.dst[2]][i].sockfd
           R == Recipients(p)
           E(s) == Range(EnqueuedTo(s, p, made))
           n == Cardinality(R)
<1>1. \A s \in Sockets : E(s) = {c(i) : i \in {j \in R : fd(j) % BufIndices = s}}
  BY EnqueuedCopies DEF Here
<1>2. \A i, j \in R : c(i) = c(j) /\ c(i) \notin Nulls => i = j
  BY CopyOf
<1>3. \A i \in R : c(i) \notin Nulls => \E k \in 1 .. n : k <= made + 1 /\ c(i) = <<p.id, k>>
  BY CopyOf
<1>4. \A k \in 1 .. n : k <= made + 1 => \E i \in R : c(i) = <<p.id, k>> /\ c(i) \notin Nulls
  <2> TAKE k \in 1 .. n
  <2> HAVE k <= made + 1
  <2>1. PICK i \in R : c(i) = <<p.id, k>>
    BY CopyOf
  <2>2. k # 0
    BY FanOut
  <2>3. <<p.id, k>> \notin Nulls
    BY <2>2 DEF Nulls
  <2> QED
    BY <2>1, <2>3
<1>5. \A i \in R : fd(i) % BufIndices \in Sockets
  <2> TAKE i \in R
  <2>1. p.dst[2] \in Ports /\ i \in DOMAIN sock_bind_table[p.dst[2]]
    BY RecipientsFinite
  <2>2. fd(i) \in Sockets
    BY <2>1, ListType DEF BindInfo
  <2> DEFINE x == fd(i)
  <2>3. x \in Nat /\ x < NumSockets /\ BufIndices \in Nat \ {0} /\ NumSockets \in Nat
    BY <2>2, RxAssumption, NumSocketsAssumption DEF Sockets
  <2> HIDE DEF x
  <2>4. x % BufIndices \in 0 .. BufIndices - 1
    BY <2>3
  <2>5. x < BufIndices => x % BufIndices = x
    BY <2>3
  <2>6. x % BufIndices \in 0 .. NumSockets - 1
    BY <2>3, <2>4, <2>5
  <2> QED
    BY <2>6 DEF Sockets, x
<1> HIDE DEF c, fd, R, E, n
<1>6. ASSUME NEW s \in Sockets, NEW t \in Sockets, s # t PROVE (E(s) \ Nulls) \cap E(t) = {}
  BY <1>1, <1>2, <1>6
<1>7. ASSUME NEW s \in Sockets, NEW m \in E(s) \ Nulls PROVE m \in Given(p, made)
  BY <1>1, <1>3, <1>7 DEF Given, n, R
<1>8. ASSUME NEW m \in Given(p, made) PROVE \E s \in Sockets : m \in E(s) \ Nulls
  <2>1. PICK k \in 1 .. n : k <= made + 1 /\ m = <<p.id, k>>
    BY DEF Given, n, R
  <2>2. PICK i \in R : c(i) = <<p.id, k>> /\ c(i) \notin Nulls
    BY <1>4, <2>1
  <2>3. fd(i) % BufIndices \in Sockets
    BY <1>5
  <2> QED
    BY <1>1, <2>1, <2>2, <2>3
<1>9. UNION {E(s) \ Nulls : s \in Sockets} = Given(p, made)
  BY <1>7, <1>8
<1> QED
  BY <1>6, <1>9 DEF E

\* What is not given of the mbufs of the packet, copies and the first, is freed.
LEMMA SpareFreed ==
    ASSUME TypeOK, TableInv, NEW p \in Packet, p.dst # NotUdp, NEW made \in ClonesMade(p)
    PROVE  /\ ({<<p.id, 1>>} \cup Clones(p, made)) \ Spare(p, made) = Given(p, made)
           /\ Given(p, made) \in SUBSET Mbufs /\ Clones(p, made) \in SUBSET Mbufs
           /\ \A m \in Given(p, made) \cup Clones(p, made) \cup Spare(p, made) : m[1] = p.id
<1> DEFINE n == Cardinality(Recipients(p))
           c == Cardinality(Cloning(p))
           id == p.id
<1>1. /\ n \in 0 .. NumSockets /\ c \in Nat /\ id \in Ids
      /\ c = n \/ c = n - 1
      /\ made \in 0 .. c /\ NumSockets \in Nat
  BY FanOut, NumSocketsAssumption DEF ClonesMade
<1>2. /\ Given(p, made) = {<<id, k>> : k \in {l \in 1 .. n : l <= made + 1}}
      /\ Clones(p, made) = {<<id, k>> : k \in 2 .. made + 1}
      /\ Spare(p, made) = IF c = n THEN {<<id, IF n + 1 <= made + 1 THEN n + 1 ELSE 0>>} ELSE {}
  BY DEF Given, Clones, Spare, Copy
<1> HIDE DEF n, c, id
<1>3. n \in Nat /\ made \in Nat /\ n <= NumSockets /\ made <= c /\ made <= NumSockets
  BY <1>1
<1>4. \A k \in Int : /\ <<id, k>> \in Given(p, made) <=> 1 <= k /\ k <= n /\ k <= made + 1
                     /\ <<id, k>> \in Clones(p, made) <=> 2 <= k /\ k <= made + 1
                     /\ <<id, k>> \in {<<id, 1>>} <=> k = 1
  BY <1>2, <1>3
<1>5. \A k \in 1 .. made + 1 : <<id, k>> \in Spare(p, made) <=> c = n /\ k = n + 1
  <2>1. CASE c = n /\ n + 1 <= made + 1
    BY <1>2, <1>3, <2>1
  <2>2. CASE c = n /\ ~(n + 1 <= made + 1)
    <3>1. Spare(p, made) = {<<id, 0>>}
      BY <1>2, <2>2
    <3> QED
      BY <1>3, <2>2, <3>1
  <2>3. CASE c # n
    BY <1>2, <2>3
  <2> QED
    BY <2>1, <2>2, <2>3
<1>6. \A k \in 1 .. made + 1 :
         <<id, k>> \in Given(p, made)
         <=> <<id, k>> \in ({<<id, 1>>} \cup Clones(p, made)) \ Spare(p, made)
  <2> TAKE k \in 1 .. made + 1
  <2>1. k \in Int /\ 1 <= k /\ k <= made + 1 /\ (k = 1 \/ 2 <= k)
    BY <1>3
  <2>2. k <= n <=> ~(c = n /\ k = n + 1)
    BY <1>1, <1>3, <2>1
  <2> QED
    BY <1>4, <1>5, <2>1, <2>2
<1>7. \A m \in Given(p, made) \cup {<<id, 1>>} \cup Clones(p, made) :
         \E k \in 1 .. made + 1 : m = <<id, k>>
  BY <1>2, <1>3
<1>8. ({<<id, 1>>} \cup Clones(p, made)) \ Spare(p, made) = Given(p, made)
  BY <1>6, <1>7
<1>9. \A k \in 1 .. made + 1 : <<id, k>> \in Mbufs
  BY <1>1, <1>3, CellFacts
<1>10. \A m \in Spare(p, made) : m[1] = id
  BY <1>2
<1>11. \A m \in Given(p, made) \cup Clones(p, made) : m[1] = id
  BY <1>2
<1> QED
  BY <1>7, <1>8, <1>9, <1>10, <1>11 DEF id

-----------------------------------------------------------------------------
(* Type correctness. *)

QueueTypes == /\ arrived \in 0 .. MaxPackets
              /\ nic \in Seq(Packet) /\ rx_mbuf_table \in Seq(Packet)
              /\ Len(rx_mbuf_table) <= BurstSize
              /\ to_flush \in 0 .. NumSockets

MbufTypes == /\ frag_tbl \subseteq Packet /\ death_row \subseteq Mbufs
             /\ mbufs \in SUBSET Mbufs /\ lost \in SUBSET Mbufs

BufferTypes == /\ rx_buffer \in [Sockets -> Seq(Cells)]
               /\ rx_q \in [Sockets -> Seq(Cells)]
               /\ \A s \in Sockets : Len(rx_q[s]) <= RingRoom

AppTypes == /\ receiver \in Sockets \cup {Nobody, Dead}
            /\ pkt \in Seq(Cells) /\ Len(pkt) <= 1
            /\ interrupted \in BOOLEAN
            /\ last \in [Sockets -> 0 .. MaxPackets]

RxTypes == QueueTypes /\ MbufTypes /\ BufferTypes /\ AppTypes

LEMMA SameQueueTypes ==
    QueueTypes /\ UNCHANGED <<nic, arrived, rx_mbuf_table, to_flush>> => QueueTypes'
BY DEF QueueTypes

LEMMA SameMbufTypes ==
    MbufTypes /\ UNCHANGED <<frag_tbl, death_row, mbufs, lost>> => MbufTypes'
BY DEF MbufTypes

LEMMA SameBufferTypes == BufferTypes /\ UNCHANGED <<rx_buffer, rx_q>> => BufferTypes'
BY DEF BufferTypes

LEMMA SameAppTypes ==
    AppTypes /\ UNCHANGED <<receiver, pkt, interrupted, last>> => AppTypes'
BY DEF AppTypes

LEMMA SameRxTypes == RxTypes /\ UNCHANGED rx_vars => RxTypes'
BY SameQueueTypes, SameMbufTypes, SameBufferTypes, SameAppTypes
   DEF RxTypes, rx_vars, poller_vars, fragments, queues, app_vars

LEMMA ArriveTypes ==
    ASSUME RxTypes, NEW p \in Traffic, Arrive(p)
    PROVE  RxTypes'
<1> USE DEF RxTypes
<1>1. p \in Packet /\ p.id = arrived + 1 /\ arrived \in 0 .. MaxPackets /\ arrived < MaxPackets
  BY TrafficAssumption DEF Arrive, QueueTypes
<1>2. <<p.id, 1>> \in Mbufs
  <2>1. p.id \in Ids /\ 1 \in 1 .. NumSockets + 1
    BY <1>1, NumSocketsAssumption DEF Packet
  <2> QED
    BY <2>1, CellFacts
<1>3. MbufTypes'
  BY <1>2 DEF Arrive, MbufTypes, poller_vars, fragments
<1>4. QueueTypes'
  BY <1>1, RxAssumption DEF Arrive, QueueTypes, poller_vars
<1> QED
  BY <1>3, <1>4, SameBufferTypes, SameAppTypes DEF Arrive, queues, app_vars

LEMMA RxBurstTypes == ASSUME RxTypes, RxBurst PROVE RxTypes'
<1> USE DEF RxTypes
<1> DEFINE n == Smaller(Len(nic), BurstSize)
<1>1. nic \in Seq(Packet) /\ n \in 0 .. Len(nic) /\ n <= BurstSize /\ Len(nic) \in Nat
  BY RxAssumption DEF QueueTypes, Smaller
<1>2. rx_mbuf_table' = SubSeq(nic, 1, n) /\ nic' = SubSeq(nic, n + 1, Len(nic))
  BY DEF RxBurst
<1> HIDE DEF n
<1>3. /\ rx_mbuf_table' \in Seq(Packet) /\ nic' \in Seq(Packet)
      /\ Len(rx_mbuf_table') <= BurstSize
  BY <1>1, <1>2
<1>4. to_flush' \in 0 .. NumSockets
  BY NumSocketsAssumption DEF RxBurst
<1>5. QueueTypes'
  BY <1>3, <1>4 DEF QueueTypes, RxBurst
<1> QED
  BY <1>5, SameMbufTypes, SameBufferTypes, SameAppTypes DEF RxBurst, fragments, queues, app_vars

LEMMA MbufsOfType == \A S \in SUBSET Packet : MbufsOf(S) \in SUBSET Mbufs
<1>1. \A q \in Packet : <<q.id, 1>> \in Mbufs
  <2>1. \A q \in Packet : q.id \in Ids
    BY DEF Packet
  <2>2. 1 \in 1 .. NumSockets + 1
    BY NumSocketsAssumption
  <2> QED
    BY <2>1, <2>2, CellFacts
<1> QED
  BY <1>1 DEF MbufsOf

LEMMA DeliverTypes ==
    ASSUME TypeOK, TableInv, MbufTypes, BufferTypes, NEW p \in Packet, NEW taken,
           Deliver(p, taken)
    PROVE  /\ rx_buffer' \in [Sockets -> Seq(Cells)]
           /\ mbufs' \in SUBSET Mbufs /\ lost' \in SUBSET Mbufs
<1>1. CASE Switched(p)
  <2>1. PICK made \in ClonesMade(p) :
           /\ rx_buffer' = [s \in Sockets |-> rx_buffer[s] \o EnqueuedTo(s, p, made)]
           /\ mbufs' = ((mbufs \ taken) \cup Clones(p, made)) \ Spare(p, made)
    BY <1>1 DEF Deliver
  <2>2. p.dst # NotUdp
    BY <1>1 DEF Switched
  <2>3. \A s \in Sockets : rx_buffer[s] \in Seq(Cells) /\ EnqueuedTo(s, p, made) \in Seq(Cells)
    BY <2>2, EnqueuedCopies DEF BufferTypes
  <2>4. Clones(p, made) \in SUBSET Mbufs
    BY <2>2, SpareFreed
  <2>5. lost' = lost
    BY <1>1 DEF Deliver
  <2> QED
    BY <2>1, <2>3, <2>4, <2>5 DEF MbufTypes
<1>2. CASE ~Switched(p)
  <2>1. {p} \in SUBSET Packet /\ MbufsOf({p}) = {<<p.id, 1>>}
    BY DEF MbufsOf
  <2> QED
    BY <1>2, <2>1, MbufsOfType DEF Deliver, MbufTypes, BufferTypes
<1> QED
  BY <1>1, <1>2

LEMMA SwitchTypes == ASSUME TypeOK, TableInv, RxTypes, Switch PROVE RxTypes'
<1> USE DEF RxTypes
<1> DEFINE p == Head(rx_mbuf_table)
<1>1. p \in Packet /\ rx_mbuf_table' \in Seq(Packet) /\ Len(rx_mbuf_table') <= BurstSize
  BY RxAssumption DEF Switch, QueueTypes
<1>2. frag_tbl' \subseteq Packet /\ death_row' \subseteq Mbufs
      /\ rx_buffer' \in [Sockets -> Seq(Cells)]
      /\ mbufs' \in SUBSET Mbufs /\ lost' \in SUBSET Mbufs
  <2>1. CASE p.of = Whole
    <3>1. Deliver(p, {}) /\ UNCHANGED fragments
      BY <2>1 DEF Switch
    <3> HIDE DEF p
    <3> QED
      BY <1>1, <3>1, DeliverTypes DEF fragments, MbufTypes
  <2>2. CASE p.of # Whole
    <3>1. PICK waiting \in SUBSET frag_tbl : Waits(p, waiting) \/ Completes(p, waiting)
      BY <2>2 DEF Switch
    <3> HIDE DEF p
    <3>2. CASE Waits(p, waiting)
      <4> DEFINE mates == {q \in waiting : q.of = p.of}
      <4>1. /\ frag_tbl' \in {waiting \cup {p}, waiting \ mates}
            /\ \/ death_row' = death_row \cup MbufsOf(frag_tbl \ waiting)
               \/ death_row' = death_row \cup MbufsOf((frag_tbl \ waiting) \cup mates \cup {p})
            /\ UNCHANGED <<rx_buffer, mbufs, lost>>
        BY <3>2 DEF Waits
      <4>2. /\ frag_tbl \ waiting \in SUBSET Packet
            /\ (frag_tbl \ waiting) \cup mates \cup {p} \in SUBSET Packet
            /\ waiting \cup {p} \in SUBSET Packet /\ waiting \ mates \in SUBSET Packet
        BY <1>1 DEF MbufTypes
      <4> HIDE DEF mates
      <4>3. death_row' \in SUBSET Mbufs
        BY <4>1, <4>2, MbufsOfType DEF MbufTypes
      <4> QED
        BY <4>1, <4>2, <4>3 DEF MbufTypes, BufferTypes
    <3>3. CASE Completes(p, waiting)
      <4>1. /\ frag_tbl' \subseteq waiting
            /\ death_row' = death_row \cup MbufsOf(frag_tbl \ waiting)
            /\ \E taken : Deliver(p, taken)
        BY <3>3 DEF Completes
      <4>2. frag_tbl \ waiting \in SUBSET Packet
        BY DEF MbufTypes
      <4>3. death_row' \in SUBSET Mbufs
        BY <4>1, <4>2, MbufsOfType DEF MbufTypes
      <4> QED
        BY <1>1, <4>1, <4>3, DeliverTypes DEF MbufTypes
    <3> QED
      BY <3>1, <3>2, <3>3
  <2> QED
    BY <2>1, <2>2
<1>3. QueueTypes'
  BY <1>1 DEF Switch, QueueTypes
<1>4. MbufTypes'
  BY <1>2 DEF MbufTypes
<1>5. BufferTypes'
  BY <1>2 DEF Switch, BufferTypes
<1> QED
  BY <1>3, <1>4, <1>5, SameAppTypes DEF Switch, app_vars

LEMMA FlushSlotTypes == ASSUME RxTypes, FlushSlot PROVE RxTypes'
<1> USE DEF RxTypes
<1> DEFINE s == to_flush
<1>1. s \in Sockets /\ to_flush' \in 0 .. NumSockets
  BY NumSocketsAssumption DEF FlushSlot, QueueTypes, Sockets
<1>2. QueueTypes'
  BY <1>1 DEF FlushSlot, QueueTypes
<1>3. mbufs' \in SUBSET mbufs
  BY DEF FlushSlot, flush_rx_queue
<1>4. MbufTypes'
  BY <1>3 DEF FlushSlot, fragments, MbufTypes
<1>5. BufferTypes'
  <2>1. CASE UNCHANGED queues
    BY <2>1, SameBufferTypes DEF queues
  <2>2. CASE flush_rx_queue(s)
    <3> DEFINE b == rx_buffer[s]
               r == rx_q[s]
    <3>1. b \in Seq(Cells) /\ r \in Seq(Cells) /\ <<>> \in Seq(Cells)
      BY <1>1 DEF BufferTypes
    <3>2. rx_buffer' = [rx_buffer EXCEPT ![s] = <<>>]
      BY <2>2 DEF flush_rx_queue
    <3>3. \/ rx_q' = rx_q
          \/ Len(r) + Len(b) <= RingRoom /\ rx_q' = [rx_q EXCEPT ![s] = r \o b]
      BY <2>2 DEF flush_rx_queue
    <3> HIDE DEF b, r, s
    <3>4. r \o b \in Seq(Cells) /\ Len(r \o b) = Len(r) + Len(b)
      BY <3>1
    <3>5. rx_buffer' \in [Sockets -> Seq(Cells)]
      BY <3>1, <3>2 DEF BufferTypes
    <3>6. CASE rx_q' = rx_q
      BY <3>5, <3>6 DEF BufferTypes
    <3>7. CASE Len(r) + Len(b) <= RingRoom /\ rx_q' = [rx_q EXCEPT ![s] = r \o b]
      <4>1. rx_q' \in [Sockets -> Seq(Cells)]
        BY <3>4, <3>7 DEF BufferTypes
      <4>2. \A t \in Sockets : rx_q'[t] = r \o b \/ rx_q'[t] = rx_q[t]
        BY <3>7 DEF BufferTypes
      <4>3. \A t \in Sockets : Len(rx_q'[t]) <= RingRoom
        BY <3>4, <3>7, <4>2 DEF BufferTypes
      <4> QED
        BY <3>5, <4>1, <4>3 DEF BufferTypes
    <3> QED
      BY <3>3, <3>6, <3>7
  <2> QED
    BY <2>1, <2>2 DEF FlushSlot
<1> QED
  BY <1>2, <1>4, <1>5, SameAppTypes DEF FlushSlot, app_vars

LEMMA FreeDeathRowTypes == ASSUME RxTypes, FreeDeathRow PROVE RxTypes'
BY SameQueueTypes, SameBufferTypes, SameAppTypes
   DEF RxTypes, FreeDeathRow, MbufTypes, queues, app_vars

LEMMA RecvStepsTypes == ASSUME RxTypes, RecvSteps PROVE RxTypes'
<1> USE DEF RxTypes
<1>1. QueueTypes'
  BY SameQueueTypes DEF RecvSteps, RecvDequeue, RecvInterrupted, RecvDies, RecvReturn, poller_vars
<1>2. CASE RecvDequeue
  <2> DEFINE s == receiver
             r == rx_q[s]
  <2>1. s \in Sockets /\ r # <<>> /\ r \in Seq(Cells) /\ Len(r) <= RingRoom /\ RingRoom \in Nat
    BY <1>2, RxAssumption DEF RecvDequeue, BufferTypes
  <2>2. pkt' = <<Head(r)>> /\ rx_q' = [rx_q EXCEPT ![s] = Tail(r)]
    BY <1>2 DEF RecvDequeue
  <2> HIDE DEF s, r
  <2>3. Tail(r) \in Seq(Cells) /\ Len(Tail(r)) <= RingRoom /\ Head(r) \in Cells
    BY <2>1
  <2>4. BufferTypes'
    <3>1. rx_q' \in [Sockets -> Seq(Cells)]
      BY <2>2, <2>3 DEF BufferTypes
    <3>2. \A t \in Sockets : rx_q'[t] = Tail(r) \/ rx_q'[t] = rx_q[t]
      BY <2>2 DEF BufferTypes
    <3>3. \A t \in Sockets : Len(rx_q'[t]) <= RingRoom
      BY <2>3, <3>2 DEF BufferTypes
    <3> QED
      BY <1>2, <3>1, <3>3 DEF RecvDequeue, BufferTypes
  <2>5. AppTypes'
    BY <1>2, <2>2, <2>3 DEF RecvDequeue, AppTypes
  <2> QED
    BY <1>1, <1>2, <2>4, <2>5, SameMbufTypes DEF RecvDequeue, poller_vars, fragments
<1>3. CASE RecvInterrupted
  <2>1. Range(pkt) \ Nulls \subseteq Mbufs
    BY DEF AppTypes, Cells, Range
  <2>2. MbufTypes'
    BY <1>3, <2>1 DEF RecvInterrupted, MbufTypes, poller_vars, fragments
  <2>3. AppTypes'
    BY <1>3 DEF RecvInterrupted, AppTypes
  <2> QED
    BY <1>1, <1>3, <2>2, <2>3, SameBufferTypes DEF RecvInterrupted, queues
<1>4. CASE RecvDies
  <2>1. AppTypes'
    BY <1>4 DEF RecvDies, AppTypes
  <2> QED
    BY <1>1, <1>4, <2>1, SameBufferTypes, SameMbufTypes
    DEF RecvDies, queues, poller_vars, fragments
<1>5. CASE RecvReturn
  <2> DEFINE m == Head(pkt)
  <2>1. m \in Cells /\ receiver \in Sockets
    BY <1>5 DEF RecvReturn, AppTypes
  <2>2. last' = [last EXCEPT ![receiver] = m[1]]
    BY <1>5 DEF RecvReturn
  <2> HIDE DEF m
  <2>3. m[1] \in 0 .. MaxPackets
    <3>1. m[1] \in Ids
      BY <2>1, CellFacts
    <3> QED
      BY <3>1, RxAssumption DEF Ids
  <2>4. last' \in [Sockets -> 0 .. MaxPackets]
    BY <2>2, <2>3 DEF AppTypes
  <2>5. AppTypes'
    BY <1>5, <2>4 DEF RecvReturn, AppTypes
  <2>6. MbufTypes'
    BY <1>5 DEF RecvReturn, MbufTypes, poller_vars, fragments
  <2> QED
    BY <1>1, <1>5, <2>5, <2>6, SameBufferTypes DEF RecvReturn, queues
<1> QED
  BY <1>2, <1>3, <1>4, <1>5 DEF RecvSteps

LEMMA StepRxTypes ==
    ASSUME TypeOK, TableInv, RxTypes, [RxNext]_all_vars
    PROVE  RxTypes'
<1>1. CASE AppCall
  BY <1>1, SameRxTypes DEF AppCall
<1>2. CASE \E s \in Sockets : Recv(s)
  <2>1. AppTypes'
    BY <1>2 DEF Recv, RxTypes, AppTypes
  <2> QED
    BY <1>2, <2>1, SameQueueTypes, SameMbufTypes, SameBufferTypes
    DEF Recv, RxTypes, poller_vars, fragments, queues
<1>3. CASE RecvSteps
  BY <1>3, RecvStepsTypes
<1>4. CASE Interrupt
  <2>1. AppTypes'
    BY <1>4 DEF Interrupt, RxTypes, AppTypes
  <2> QED
    BY <1>4, <2>1, SameQueueTypes, SameMbufTypes, SameBufferTypes
    DEF Interrupt, RxTypes, poller_vars, fragments, queues
<1>5. CASE \E p \in Traffic : Arrive(p)
  BY <1>5, ArriveTypes
<1>6. CASE RxBurst
  BY <1>6, RxBurstTypes
<1>7. CASE Switch
  BY <1>7, SwitchTypes
<1>8. CASE FlushSlot
  BY <1>8, FlushSlotTypes
<1>9. CASE FreeDeathRow
  BY <1>9, FreeDeathRowTypes
<1>10. CASE UNCHANGED all_vars
  BY <1>10, SameRxTypes DEF all_vars
<1> QED
  BY <1>1, <1>2, <1>3, <1>4, <1>5, <1>6, <1>7, <1>8, <1>9, <1>10 DEF RxNext, Poller

LEMMA InitRxTypes == RxInit => RxTypes
<1> SUFFICES ASSUME RxInit PROVE RxTypes
  OBVIOUS
<1>1. QueueTypes
  BY RxAssumption, NumSocketsAssumption DEF RxInit, QueueTypes
<1>2. MbufTypes
  BY DEF RxInit, FragInit, MbufTypes
<1>3. BufferTypes
  BY RxAssumption DEF RxInit, BufferTypes
<1>4. AppTypes
  <2>1. 0 \in 0 .. MaxPackets
    BY RxAssumption
  <2>2. last \in [Sockets -> 0 .. MaxPackets]
    BY <2>1 DEF RxInit
  <2>3. pkt \in Seq(Cells) /\ Len(pkt) <= 1
    BY DEF RxInit
  <2> QED
    BY <2>2, <2>3 DEF RxInit, AppTypes
<1> QED
  BY <1>1, <1>2, <1>3, <1>4 DEF RxTypes

LEMMA TypesInvariant == RxSpec => []RxTypes
<1>1. TypeOK /\ TableInv /\ RxTypes /\ [RxNext]_all_vars => RxTypes'
  BY StepRxTypes
<1>2. RxSpec => []TypeOK /\ []TableInv
  <2>1. IInv => TypeOK /\ TableInv
    BY DEF IInv
  <2> QED
    BY <2>1, SocketsInRxPath, Invariant, PTL
<1> QED
  BY InitRxTypes, <1>1, <1>2, PTL DEF RxSpec

\* The queues hold packets, the buffers and the rings copies or NULLs, a ring
\* never more than it has room for; an mbuf is one of those the fan-out of a
\* packet to all the sockets can make.
THEOREM RxTypeCorrect == RxSpec => []RxTypeOK
<1>1. TypeOK /\ RxTypes => RxTypeOK
  BY DEF RxTypes, QueueTypes, MbufTypes, BufferTypes, AppTypes, RxTypeOK, Cells
<1> QED
  BY <1>1, SocketsInRxPath, TypeCorrect, TypesInvariant, PTL

-----------------------------------------------------------------------------
(* What waits to be switched is one queue, in the order of arrival. *)

Queue == rx_mbuf_table \o nic

InIdOrder(q) == \A i, j \in DOMAIN q : i < j => q[i].id < q[j].id

LEMMA QueueType == RxTypes => Queue \in Seq(Packet) /\ Range(Queue) = Range(nic) \cup Range(rx_mbuf_table)
BY ConcatProperties, RangeConcatenation DEF RxTypes, QueueTypes, Queue

LEMMA ArriveQueue ==
    ASSUME RxTypes, NEW p \in Traffic, Arrive(p)
    PROVE  Queue' = Append(Queue, p)
<1>1. /\ nic \in Seq(Packet) /\ rx_mbuf_table \in Seq(Packet) /\ p \in Packet
      /\ nic' = Append(nic, p) /\ rx_mbuf_table' = rx_mbuf_table
      /\ <<p>> \in Seq(Packet)
  BY TrafficAssumption DEF RxTypes, QueueTypes, Arrive, poller_vars
<1>2. nic' = nic \o <<p>>
  BY <1>1, AppendIsConcat
<1>3. rx_mbuf_table \o (nic \o <<p>>) = (rx_mbuf_table \o nic) \o <<p>>
  BY <1>1, ConcatAssociative
<1>4. (rx_mbuf_table \o nic) \o <<p>> = Append(rx_mbuf_table \o nic, p)
  BY <1>1, ConcatProperties, AppendIsConcat
<1> QED
  BY <1>1, <1>2, <1>3, <1>4 DEF Queue

\* A burst moves the oldest packets from the NIC to the table.
LEMMA RxBurstQueue ==
    ASSUME RxTypes, RxBurst
    PROVE  Queue' = Queue
<1> DEFINE n == Smaller(Len(nic), BurstSize)
<1>1. nic \in Seq(Packet) /\ n \in 0 .. Len(nic) /\ Len(nic) \in Nat /\ rx_mbuf_table = <<>>
  BY RxAssumption DEF RxTypes, QueueTypes, RxBurst, Smaller
<1>2. rx_mbuf_table' = SubSeq(nic, 1, n) /\ nic' = SubSeq(nic, n + 1, Len(nic))
  BY DEF RxBurst
<1> HIDE DEF n
<1>3. rx_mbuf_table' \o nic' = SubSeq(nic, 1, Len(nic))
  <2>1. 1 \in 1 .. Len(nic) + 1 /\ n \in 1 - 1 .. Len(nic) /\ Len(nic) \in n .. Len(nic)
    BY <1>1
  <2> QED
    BY <1>1, <1>2, <2>1, ConcatAdjacentSubSeq
<1> QED
  BY <1>1, <1>3, SubSeqFull, ConcatEmptySeq DEF Queue

LEMMA SwitchQueue ==
    ASSUME RxTypes, Switch
    PROVE  /\ Queue # <<>> /\ Head(Queue) = Head(rx_mbuf_table)
           /\ Queue' = Tail(Queue)
<1> DEFINE t == rx_mbuf_table
<1>1. t \in Seq(Packet) /\ nic \in Seq(Packet) /\ t # <<>> /\ t' = Tail(t) /\ nic' = nic
  BY DEF RxTypes, QueueTypes, Switch
<1> HIDE DEF t
<1>2. /\ t \o nic # <<>> /\ Head(t \o nic) = Head(t) /\ Tail(t \o nic) = Tail(t) \o nic
  BY <1>1
<1> QED
  BY <1>1, <1>2 DEF Queue, t

LEMMA OrderTail ==
    ASSUME NEW q \in Seq(Packet), q # <<>>, InIdOrder(q)
    PROVE  /\ Head(q) \in Range(q) /\ InIdOrder(Tail(q))
           /\ Range(q) = {Head(q)} \cup Range(Tail(q))
           /\ \A r \in Range(Tail(q)) : Head(q).id < r.id
<1>1. /\ Head(q) = q[1] /\ 1 \in DOMAIN q /\ DOMAIN q = 1 .. Len(q) /\ Len(q) \in Nat \ {0}
      /\ Tail(q) \in Seq(Packet) /\ DOMAIN Tail(q) = 1 .. Len(q) - 1
      /\ \A i \in 1 .. Len(q) - 1 : Tail(q)[i] = q[i + 1]
  BY HeadTailProperties, LenProperties, EmptySeq
<1>2. InIdOrder(Tail(q))
  BY <1>1 DEF InIdOrder
<1>3. \A i \in 1 .. Len(q) - 1 : i + 1 \in DOMAIN q /\ 1 < i + 1
  BY <1>1
<1>4. \A r \in Range(Tail(q)) : Head(q).id < r.id /\ r \in Range(q)
  <2> TAKE r \in Range(Tail(q))
  <2>1. PICK i \in 1 .. Len(q) - 1 : r = Tail(q)[i]
    BY <1>1 DEF Range
  <2> QED
    BY <1>1, <1>3, <2>1 DEF InIdOrder, Range
<1>5. \A r \in Range(q) : r = Head(q) \/ r \in Range(Tail(q))
  <2> TAKE r \in Range(q)
  <2>1. PICK i \in 1 .. Len(q) : r = q[i]
    BY <1>1 DEF Range
  <2>2. CASE i = 1
    BY <1>1, <2>1, <2>2
  <2>3. CASE i # 1
    <3>1. i - 1 \in 1 .. Len(q) - 1 /\ (i - 1) + 1 = i
      BY <1>1, <2>3
    <3>2. Tail(q)[i - 1] = r
      BY <1>1, <2>1, <3>1
    <3> QED
      BY <1>1, <3>1, <3>2 DEF Range
  <2> QED
    BY <2>2, <2>3
<1>6. Head(q) \in Range(q)
  BY <1>1 DEF Range
<1> QED
  BY <1>2, <1>4, <1>5, <1>6

LEMMA OrderAppend ==
    ASSUME NEW q \in Seq(Packet), InIdOrder(q), NEW p \in Packet,
           \A r \in Range(q) : r.id < p.id
    PROVE  /\ InIdOrder(Append(q, p))
           /\ Range(Append(q, p)) = Range(q) \cup {p}
<1>1. /\ Len(q) \in Nat /\ DOMAIN q = 1 .. Len(q)
      /\ DOMAIN Append(q, p) = 1 .. Len(q) + 1
      /\ \A i \in 1 .. Len(q) : Append(q, p)[i] = q[i]
      /\ Append(q, p)[Len(q) + 1] = p
  BY AppendProperties, LenProperties
<1>2. \A i \in 1 .. Len(q) : q[i] \in Range(q) /\ q[i].id < p.id
  BY <1>1 DEF Range
<1>3. InIdOrder(Append(q, p))
  BY <1>1, <1>2 DEF InIdOrder
<1>4. Range(Append(q, p)) = Range(q) \cup {p}
  <2>1. PICK o : o = Append(q, p)
    OBVIOUS
  <2>2. /\ DOMAIN o = 1 .. Len(q) + 1 /\ o[Len(q) + 1] = p
        /\ \A i \in 1 .. Len(q) : o[i] = q[i]
    BY <1>1, <2>1
  <2>3. /\ \A i \in 1 .. Len(q) + 1 : i \in 1 .. Len(q) \/ i = Len(q) + 1
        /\ \A i \in 1 .. Len(q) : i \in 1 .. Len(q) + 1
        /\ Len(q) + 1 \in 1 .. Len(q) + 1
    BY <1>1
  <2>4. Range(o) = Range(q) \cup {p}
    BY <1>1, <2>2, <2>3 DEF Range
  <2> QED
    BY <2>1, <2>4
<1> QED
  BY <1>3, <1>4

-----------------------------------------------------------------------------
(* What a slot has to deliver: a step other than a switch drops a part of it *)
(* at one end.                                                              *)

LEMMA ConcatOnce ==
    ASSUME NEW q \in Seq(Cells), NEW r \in Seq(Cells)
    PROVE  Once(q \o r) <=> Once(q) /\ Once(r) /\ (Range(q) \ Nulls) \cap Range(r) = {}
<1> DEFINE c == q \o r
           m == Len(q)
           n == Len(r)
<1>1. /\ m \in Nat /\ n \in Nat /\ DOMAIN q = 1 .. m /\ DOMAIN r = 1 .. n
      /\ DOMAIN c = 1 .. m + n
      /\ \A i \in 1 .. m : c[i] = q[i]
      /\ \A i \in 1 .. n : c[m + i] = r[i]
  BY ConcatProperties, LenProperties
<1> HIDE DEF c, m, n
<1>2. /\ \A i \in 1 .. m : i \in 1 .. m + n
      /\ \A i \in 1 .. n : m + i \in 1 .. m + n /\ m + i \notin 1 .. m
      /\ \A i \in 1 .. m + n : i \in 1 .. m \/ \E k \in 1 .. n : i = m + k
      /\ \A i, k \in 1 .. n : m + i = m + k => i = k
  <2>1. \A i \in 1 .. m + n : i \in 1 .. m \/ \E k \in 1 .. n : i = m + k
    <3> TAKE i \in 1 .. m + n
    <3>1. i \notin 1 .. m => i - m \in 1 .. n /\ i = m + (i - m)
      BY <1>1
    <3> QED
      BY <3>1
  <2> QED
    BY <1>1, <2>1
<1>3. ASSUME Once(c) PROVE Once(q) /\ Once(r) /\ (Range(q) \ Nulls) \cap Range(r) = {}
  <2>1. Once(q)
    BY <1>1, <1>2, <1>3 DEF Once
  <2>2. Once(r)
    <3> SUFFICES ASSUME NEW i \in 1 .. n, NEW k \in 1 .. n, r[i] = r[k]
                 PROVE  i = k \/ r[i] \in Nulls
      BY <1>1 DEF Once
    <3>1. /\ c[m + i] = r[i] /\ c[m + k] = r[k]
          /\ m + i \in DOMAIN c /\ m + k \in DOMAIN c
      BY <1>1, <1>2
    <3>2. m + i = m + k \/ c[m + i] \in Nulls
      BY <1>3, <3>1 DEF Once
    <3> QED
      BY <1>2, <3>1, <3>2
  <2>3. ASSUME NEW x \in Range(q) \ Nulls, x \in Range(r) PROVE FALSE
    <3>1. PICK i \in 1 .. m : x = q[i]
      BY <1>1 DEF Range
    <3>2. PICK k \in 1 .. n : x = r[k]
      BY <1>1, <2>3 DEF Range
    <3>3. /\ i \in DOMAIN c /\ m + k \in DOMAIN c /\ i # m + k
          /\ c[i] = x /\ c[m + k] = x /\ x \notin Nulls
      BY <1>1, <1>2, <3>1, <3>2
    <3> QED
      BY <1>3, <3>3 DEF Once
  <2> QED
    BY <2>1, <2>2, <2>3
<1>4. ASSUME Once(q), Once(r), (Range(q) \ Nulls) \cap Range(r) = {} PROVE Once(c)
  <2> SUFFICES ASSUME NEW i \in 1 .. m + n, NEW j \in 1 .. m + n, c[i] = c[j], c[i] \notin Nulls
               PROVE  i = j
    BY <1>1 DEF Once
  <2>1. /\ \A k \in 1 .. m : q[k] \in Range(q)
        /\ \A k \in 1 .. n : r[k] \in Range(r)
    BY <1>1 DEF Range
  <2>2. CASE i \in 1 .. m /\ j \in 1 .. m
    BY <1>1, <1>4, <2>2 DEF Once
  <2>3. CASE i \in 1 .. m /\ j \notin 1 .. m
    BY <1>1, <1>2, <1>4, <2>1, <2>3
  <2>4. CASE i \notin 1 .. m /\ j \in 1 .. m
    BY <1>1, <1>2, <1>4, <2>1, <2>4
  <2>5. CASE i \notin 1 .. m /\ j \notin 1 .. m
    <3>1. PICK k \in 1 .. n : i = m + k
      BY <1>2, <2>5
    <3>2. PICK l \in 1 .. n : j = m + l
      BY <1>2, <2>5
    <3> QED
      BY <1>1, <1>4, <3>1, <3>2 DEF Once
  <2> QED
    BY <2>2, <2>3, <2>4, <2>5
<1> QED
  BY <1>3, <1>4 DEF c

LEMMA ConcatIncreasing ==
    ASSUME NEW q \in Seq(Cells), NEW r \in Seq(Cells), Increasing(q \o r)
    PROVE  Increasing(q) /\ Increasing(r)
<1> DEFINE c == q \o r
           m == Len(q)
           n == Len(r)
<1>1. /\ m \in Nat /\ n \in Nat /\ DOMAIN q = 1 .. m /\ DOMAIN r = 1 .. n
      /\ DOMAIN c = 1 .. m + n
      /\ \A i \in 1 .. m : c[i] = q[i]
      /\ \A i \in 1 .. n : c[m + i] = r[i]
  BY ConcatProperties, LenProperties
<1> HIDE DEF c, m, n
<1>2. Increasing(c)
  BY DEF c
<1>3. /\ \A i \in 1 .. m : i \in 1 .. m + n
      /\ \A i \in 1 .. n : m + i \in 1 .. m + n
      /\ \A i, k \in 1 .. n : i < k => m + i < m + k
  BY <1>1
<1>4. Increasing(q)
  BY <1>1, <1>2, <1>3 DEF Increasing
<1>5. Increasing(r)
  <2> SUFFICES ASSUME NEW i \in 1 .. n, NEW k \in 1 .. n, i < k PROVE r[i][1] < r[k][1]
    BY <1>1 DEF Increasing
  <2>1. /\ c[m + i] = r[i] /\ c[m + k] = r[k]
        /\ m + i \in DOMAIN c /\ m + k \in DOMAIN c /\ m + i < m + k
    BY <1>1, <1>3
  <2>2. c[m + i][1] < c[m + k][1]
    BY <1>2, <2>1 DEF Increasing
  <2> QED
    BY <2>1, <2>2
<1> QED
  BY <1>4, <1>5

LEMMA PendingType ==
    ASSUME RxTypes, NEW s \in Sockets
    PROVE  Pending(s) \in Seq(Cells)
BY DEF RxTypes, BufferTypes, AppTypes, Pending

\* In this step slot s loses d, at one end of what it has to deliver.
Loses(s, d) == /\ d \in Seq(Cells)
               /\ Pending(s) = d \o Pending(s)' \/ Pending(s) = Pending(s)' \o d

LEMMA AfterLoss ==
    ASSUME RxTypes, RxTypes', NEW s \in Sockets, NEW d, Loses(s, d), Once(Pending(s))
    PROVE  /\ Once(Pending(s)')
           /\ PendingMbufs(s)' = PendingMbufs(s) \ (Range(d) \ Nulls)
           /\ Range(d) \ Nulls \in SUBSET PendingMbufs(s)
           /\ Range(Pending(s)') \in SUBSET Range(Pending(s))
           /\ Increasing(Pending(s)) => Increasing(Pending(s)')
<1> DEFINE p == Pending(s)
           q == Pending(s)'
<1>1. p \in Seq(Cells) /\ q \in Seq(Cells) /\ d \in Seq(Cells)
  BY PendingType DEF Loses, RxTypes, BufferTypes, AppTypes, Pending
<1>2. p = d \o q \/ p = q \o d
  BY DEF Loses
<1>3. PendingMbufs(s) = Range(p) \ Nulls /\ PendingMbufs(s)' = Range(q) \ Nulls
  BY DEF PendingMbufs, Nulls
<1> HIDE DEF p, q
<1>4. Range(p) = Range(q) \cup Range(d)
  <2>1. Range(d \o q) = Range(d) \cup Range(q)
    BY <1>1, RangeConcatenation
  <2>2. Range(q \o d) = Range(q) \cup Range(d)
    BY <1>1, RangeConcatenation
  <2> QED
    BY <1>2, <2>1, <2>2
<1>5. Once(q) /\ (Range(q) \ Nulls) \cap (Range(d) \ Nulls) = {}
  <2>1. Once(p)
    BY DEF p
  <2>2. CASE p = d \o q
    BY <1>1, <2>1, <2>2, ConcatOnce
  <2>3. CASE p = q \o d
    BY <1>1, <2>1, <2>3, ConcatOnce
  <2> QED
    BY <1>2, <2>2, <2>3
<1>6. Increasing(p) => Increasing(q)
  BY <1>1, <1>2, ConcatIncreasing
<1> QED
  BY <1>3, <1>4, <1>5, <1>6 DEF p, q

-----------------------------------------------------------------------------
(* The inductive invariant.  MbufsOwnedOnce and MbufsAccounted are not enough *)
(* by themselves: that a copy made of a packet is nobody's mbuf, and that the *)
(* packet itself is in one place of the queue, follow from the order of the   *)
(* ids, which must be kept along.                                             *)

\* What packets that have been switched left behind.
Older == MbufsOf(frag_tbl) \cup death_row \cup lost \cup UNION {Range(Pending(s)) : s \in Sockets}
Past  == {m[1] : m \in Older} \cup {last[s] : s \in Sockets}

Arrival == /\ InIdOrder(Queue)
           /\ \A q \in Range(Queue) : q.id <= arrived /\ \A n \in Past : n < q.id
           /\ \A n \in Past : n <= arrived

Holders == /\ \A q, r \in frag_tbl : q.id = r.id => q = r
           /\ MbufsOf(frag_tbl) \cap death_row = {}
           /\ (MbufsOf(frag_tbl) \cup death_row) \cap lost = {}
           /\ \A s \in Sockets :
                 PendingMbufs(s) \cap (MbufsOf(frag_tbl) \cup death_row \cup lost) = {}
           /\ \A s, t \in Sockets : s # t => PendingMbufs(s) \cap PendingMbufs(t) = {}

PendingOnce == \A s \in Sockets : Once(Pending(s))

Idle == receiver \notin Sockets => pkt = <<>>

AllPending == UNION {PendingMbufs(s) : s \in Sockets}

Accounted == mbufs = MbufsOf(Range(Queue)) \cup MbufsOf(frag_tbl) \cup death_row \cup lost
                     \cup AllPending

OwnInv == Arrival /\ Holders /\ PendingOnce /\ Idle /\ Accounted

LEMMA InitOwnInv == RxInit => OwnInv
<1> SUFFICES ASSUME RxInit PROVE OwnInv
  OBVIOUS
<1>1. /\ frag_tbl = {} /\ death_row = {} /\ lost = {} /\ mbufs = {} /\ arrived = 0
      /\ nic = <<>> /\ rx_mbuf_table = <<>> /\ pkt = <<>>
      /\ \A s \in Sockets : rx_q[s] = <<>> /\ rx_buffer[s] = <<>> /\ last[s] = 0
  BY DEF RxInit, FragInit
<1>2. <<>> \o <<>> = <<>>
  BY ConcatEmptySeq, EmptySeq
<1>3. Queue = <<>> /\ Range(Queue) = {} /\ MbufsOf({}) = {}
  BY <1>1, <1>2 DEF Queue, Range, MbufsOf
<1>4. \A s \in Sockets : Pending(s) = <<>> /\ Range(Pending(s)) = {} /\ PendingMbufs(s) = {}
  <2> TAKE s \in Sockets
  <2>1. Pending(s) = <<>>
    BY <1>1, <1>2 DEF Pending
  <2>2. Range(<<>>) = {}
    BY DEF Range
  <2> QED
    BY <2>1, <2>2 DEF PendingMbufs
<1>5. Older = {} /\ AllPending = {}
  BY <1>1, <1>3, <1>4 DEF Older, AllPending
<1>6. \A n \in Past : n = 0
  BY <1>1, <1>5 DEF Past
<1>7. Arrival
  <2>1. InIdOrder(<<>>)
    BY DEF InIdOrder
  <2> QED
    BY <1>1, <1>3, <1>6, <2>1 DEF Arrival
<1>8. Holders
  BY <1>1, <1>3, <1>4 DEF Holders
<1>9. PendingOnce
  <2>1. Once(<<>>)
    BY DEF Once
  <2> QED
    BY <1>4, <2>1 DEF PendingOnce
<1>10. Accounted
  BY <1>1, <1>3, <1>5 DEF Accounted
<1> QED
  BY <1>1, <1>7, <1>8, <1>9, <1>10 DEF OwnInv, Idle

\* The mbufs of the queue are nobody else's.
LEMMA QueueApart ==
    ASSUME RxTypes, OwnInv, NEW q \in Range(Queue)
    PROVE  <<q.id, 1>> \notin Older \cup AllPending /\ \A m \in Older \cup AllPending : m[1] < q.id
<1>1. \A m \in Older : m[1] < q.id
  BY DEF OwnInv, Arrival, Past
<1>2. AllPending \in SUBSET Older
  BY DEF AllPending, PendingMbufs, Older
<1>3. ~(q.id < q.id)
  <2>1. q \in Packet
    BY QueueType, RangeOfSeq
  <2> QED
    BY <2>1 DEF Packet, Ids
<1> QED
  BY <1>1, <1>2, <1>3

\* Ownership is kept by a step in which slots lose some of what they have to
\* deliver, if all of it is freed, or all of it is lost.
LEMMA LossKeepsOwnership ==
    ASSUME RxTypes, RxTypes', OwnInv, NEW d,
           \A s \in Sockets : Loses(s, d[s]),
           UNCHANGED <<arrived, frag_tbl, death_row>>, Queue' = Queue, Idle',
           \A s \in Sockets : last'[s] \in Past,
           NEW gone, gone = UNION {Range(d[s]) \ Nulls : s \in Sockets},
           \/ mbufs' = mbufs \ gone /\ lost' = lost
           \/ mbufs' = mbufs /\ lost' = lost \cup gone
    PROVE  OwnInv'
<1> DEFINE P(s) == PendingMbufs(s)
           Q(s) == PendingMbufs(s)'
           g(s) == Range(d[s]) \ Nulls
           F == MbufsOf(frag_tbl)
<1>1. /\ PendingOnce'
      /\ \A s \in Sockets : /\ Q(s) = P(s) \ g(s) /\ g(s) \in SUBSET P(s)
                            /\ Range(Pending(s)') \in SUBSET Range(Pending(s))
  BY AfterLoss DEF OwnInv, PendingOnce
<1>2. /\ \A s \in Sockets : P(s) \cap (F \cup death_row \cup lost) = {}
      /\ \A s, t \in Sockets : s # t => P(s) \cap P(t) = {}
      /\ (F \cup death_row) \cap lost = {} /\ F \cap death_row = {}
  BY DEF OwnInv, Holders
<1>3. MbufsOf(frag_tbl)' = F
  BY DEF MbufsOf
<1>4. /\ AllPending = UNION {P(s) : s \in Sockets}
      /\ AllPending' = UNION {Q(s) : s \in Sockets}
      /\ \A s \in Sockets : P(s) \in SUBSET Range(Pending(s))
  BY DEF AllPending, PendingMbufs
<1>5. MbufsOf(Range(Queue)) \cap AllPending = {}
  BY QueueApart DEF MbufsOf
<1>6. gone = UNION {g(s) : s \in Sockets}
  OBVIOUS
<1>7. Older' \in SUBSET Older
  <2>1. gone \in SUBSET UNION {Range(Pending(s)) : s \in Sockets}
    BY <1>1, <1>4, <1>6
  <2>2. \A s \in Sockets : Range(Pending(s)') \in SUBSET UNION {Range(Pending(t)) : t \in Sockets}
    BY <1>1
  <2>3. lost' \in SUBSET Older
    BY <2>1 DEF Older
  <2> QED
    BY <1>3, <2>2, <2>3 DEF Older
<1>8. Arrival'
  <2>1. Past' \in SUBSET Past
    BY <1>7 DEF Past
  <2> QED
    BY <2>1 DEF Arrival, OwnInv
<1> HIDE DEF P, Q, g, F
<1>9. AllPending' = AllPending \ gone /\ gone \in SUBSET AllPending
  <2>1. \A s \in Sockets : Q(s) \cap gone = {}
    BY <1>1, <1>2, <1>6
  <2> QED
    BY <1>1, <1>4, <1>6, <2>1
<1>10. gone \cap (F \cup death_row \cup lost) = {}
  BY <1>1, <1>2, <1>6
<1>11. Holders'
  <2>1. \A s \in Sockets : Q(s) \cap (F \cup death_row \cup lost \cup gone) = {}
    BY <1>1, <1>2, <1>4, <1>9
  <2>2. \A s, t \in Sockets : s # t => Q(s) \cap Q(t) = {}
    BY <1>1, <1>2
  <2>3. lost' \in SUBSET lost \cup gone
    OBVIOUS
  <2>4. \A q, r \in frag_tbl : q.id = r.id => q = r
    BY DEF OwnInv, Holders
  <2>5. (F \cup death_row) \cap lost' = {}
    BY <1>2, <1>10, <2>3
  <2> QED
    BY <1>2, <1>3, <2>1, <2>2, <2>3, <2>4, <2>5 DEF Holders, Q
<1>12. Accounted'
  <2> DEFINE W == MbufsOf(Range(Queue))
  <2>1. mbufs = W \cup F \cup death_row \cup lost \cup AllPending
    BY DEF OwnInv, Accounted, F
  <2>2. MbufsOf(Range(Queue))' = W
    BY DEF MbufsOf
  <2>3. W \cap AllPending = {}
    BY <1>5
  <2> HIDE DEF W
  <2>4. mbufs' = W \cup F \cup death_row \cup lost' \cup AllPending'
    BY <1>9, <1>10, <2>1, <2>3
  <2> QED
    BY <1>3, <2>2, <2>4 DEF Accounted
<1> QED
  BY <1>1, <1>8, <1>11, <1>12 DEF OwnInv

LEMMA NoLossKeepsOwnership ==
    ASSUME RxTypes, RxTypes', OwnInv, \A s \in Sockets : Pending(s)' = Pending(s),
           UNCHANGED <<arrived, frag_tbl, death_row, mbufs, lost>>, Queue' = Queue, Idle',
           \A s \in Sockets : last'[s] \in Past
    PROVE  OwnInv'
<1> DEFINE d == [s \in Sockets |-> <<>>]
           gone == UNION {Range(d[s]) \ Nulls : s \in Sockets}
<1>1. \A s \in Sockets : Loses(s, d[s])
  <2> TAKE s \in Sockets
  <2>1. <<>> \in Seq(Cells) /\ <<>> \o Pending(s) = Pending(s)
    BY PendingType, EmptySeq, ConcatEmptySeq
  <2> QED
    BY <2>1 DEF Loses
<1>2. gone = {}
  BY DEF Range
<1>3. mbufs' = mbufs \ gone /\ lost' = lost
  BY <1>2
<1> HIDE DEF d, gone
<1>4. gone = UNION {Range(d[s]) \ Nulls : s \in Sockets}
  BY DEF gone
<1> QED
  BY <1>1, <1>3, <1>4, LossKeepsOwnership

LEMMA SlotLossKeepsOwnership ==
    ASSUME RxTypes, RxTypes', OwnInv, NEW s \in Sockets, NEW x, Loses(s, x),
           \A t \in Sockets : t # s => Pending(t)' = Pending(t),
           UNCHANGED <<arrived, frag_tbl, death_row>>, Queue' = Queue, Idle',
           \A t \in Sockets : last'[t] \in Past,
           \/ mbufs' = mbufs \ Range(x) /\ lost' = lost
           \/ mbufs' = mbufs /\ lost' = lost \cup (Range(x) \ Nulls)
    PROVE  OwnInv'
<1> DEFINE d == [t \in Sockets |-> IF t = s THEN x ELSE <<>>]
           gone == UNION {Range(d[t]) \ Nulls : t \in Sockets}
<1>1. \A t \in Sockets : Loses(t, d[t])
  <2> TAKE t \in Sockets
  <2>1. <<>> \in Seq(Cells) /\ <<>> \o Pending(t) = Pending(t)
    BY PendingType, EmptySeq, ConcatEmptySeq
  <2>2. t # s => Loses(t, <<>>)
    BY <2>1 DEF Loses
  <2> QED
    BY <2>2
<1>2. gone = Range(x) \ Nulls
  <2>1. Range(<<>>) = {}
    BY DEF Range
  <2>2. \A t \in Sockets : Range(d[t]) \ Nulls = IF t = s THEN Range(x) \ Nulls ELSE {}
    BY <2>1
  <2> HIDE DEF d
  <2> QED
    BY <2>2
<1>3. mbufs \cap Nulls = {}
  BY CellFacts DEF RxTypes, MbufTypes
<1>4. \/ mbufs' = mbufs \ gone /\ lost' = lost
      \/ mbufs' = mbufs /\ lost' = lost \cup gone
  BY <1>2, <1>3
<1> HIDE DEF d, gone
<1>5. gone = UNION {Range(d[t]) \ Nulls : t \in Sockets}
  BY DEF gone
<1> QED
  BY <1>1, <1>4, <1>5, LossKeepsOwnership

LEMMA SameLast == UNCHANGED last => \A s \in Sockets : last'[s] \in Past
BY DEF Past

LEMMA SamePending ==
    ASSUME UNCHANGED <<receiver, pkt, rx_q, rx_buffer>>
    PROVE  /\ \A s \in Sockets : Pending(s)' = Pending(s)
           /\ Idle => Idle'
BY DEF Pending, Idle

LEMMA SameQueue == UNCHANGED <<nic, rx_mbuf_table>> => Queue' = Queue
BY DEF Queue

\* A flush that finds no room frees what is in the buffer, one that finds room moves it.
LEMMA FlushLoses ==
    ASSUME RxTypes, FlushSlot
    PROVE  \E s, x :
              /\ s \in Sockets
              /\ Loses(s, x)
              /\ \A t \in Sockets : t # s => Pending(t)' = Pending(t)
              /\ mbufs' = mbufs \ Range(x)
<1>1. PICK s \in Sockets : s = to_flush
  BY NumSocketsAssumption DEF FlushSlot, RxTypes, QueueTypes, Sockets
<1> DEFINE b == rx_buffer[s]
           r == rx_q[s]
           h == IF receiver = s THEN pkt ELSE <<>>
<1>2. UNCHANGED <<receiver, pkt>>
  BY DEF FlushSlot, app_vars
<1>3. <<>> \in Seq(Cells) /\ Range(<<>>) = {}
  BY DEF Range
<1>4. ASSUME Pending(s)' = Pending(s), mbufs' = mbufs
      PROVE  Loses(s, <<>>) /\ mbufs' = mbufs \ Range(<<>>)
  BY <1>3, <1>4, PendingType, ConcatEmptySeq DEF Loses
<1>5. CASE UNCHANGED <<queues, mbufs>>
  <2>1. \A t \in Sockets : Pending(t)' = Pending(t)
    BY <1>2, <1>5, SamePending DEF queues
  <2> QED
    BY <1>4, <1>5, <2>1
<1>6. CASE flush_rx_queue(s)
  <2>1. h \in Seq(Cells) /\ r \in Seq(Cells) /\ b \in Seq(Cells)
    BY DEF RxTypes, BufferTypes, AppTypes
  <2>2. Pending(s) = (h \o r) \o b
    BY DEF Pending
  <2>3. /\ rx_buffer'[s] = <<>>
        /\ \A t \in Sockets : t # s => rx_buffer'[t] = rx_buffer[t]
        /\ \/ mbufs' = mbufs /\ rx_q'[s] = r \o b /\ \A t \in Sockets : t # s => rx_q'[t] = rx_q[t]
           \/ mbufs' = mbufs \ Range(b) /\ rx_q' = rx_q
    BY <1>6 DEF flush_rx_queue, RxTypes, BufferTypes
  <2>4. \A t \in Sockets : t # s => Pending(t)' = Pending(t)
    BY <1>2, <2>3 DEF Pending
  <2>5. Pending(s)' = (h \o rx_q'[s]) \o <<>>
    BY <1>2, <2>3 DEF Pending
  <2> HIDE DEF b, r, h
  <2>6. CASE mbufs' = mbufs /\ rx_q'[s] = r \o b
    <3>1. h \o (r \o b) \in Seq(Cells)
      BY <2>1, ConcatProperties
    <3>2. Pending(s)' = Pending(s)
      <4>1. Pending(s)' = h \o (r \o b)
        BY <2>5, <2>6, <3>1, ConcatEmptySeq
      <4>2. (h \o r) \o b = h \o (r \o b)
        BY <2>1, ConcatAssociative
      <4> QED
        BY <2>2, <4>1, <4>2
    <3> QED
      BY <1>4, <2>4, <2>6, <3>2
  <2>7. CASE mbufs' = mbufs \ Range(b) /\ rx_q' = rx_q
    <3>1. h \o r \in Seq(Cells) /\ Pending(s)' = (h \o r) \o <<>>
      BY <2>1, <2>5, <2>7, ConcatProperties DEF r
    <3>2. Pending(s)' = h \o r
      BY <3>1, ConcatEmptySeq
    <3>3. Loses(s, b)
      BY <2>1, <2>2, <3>2 DEF Loses
    <3> QED
      BY <2>4, <2>7, <3>3
  <2> QED
    BY <2>3, <2>6, <2>7
<1> QED
  BY <1>1, <1>5, <1>6 DEF FlushSlot

\* recvfrom() takes the oldest packet of its slot; the packet it has taken is returned
\* and freed, or is lost, or was a NULL.
LEMMA RecvLoses ==
    ASSUME RxTypes, RecvSteps
    PROVE  \E s, x :
              /\ s \in Sockets
              /\ Loses(s, x)
              /\ \A t \in Sockets : t # s => Pending(t)' = Pending(t)
              /\ \/ mbufs' = mbufs \ Range(x) /\ lost' = lost
                 \/ mbufs' = mbufs /\ lost' = lost \cup (Range(x) \ Nulls)
              /\ \A t \in Sockets :
                    \/ last'[t] = last[t]
                    \/ /\ t = s /\ Len(x) = 1 /\ last'[t] = Head(x)[1]
                       /\ Pending(s) = x \o Pending(s)'
<1>1. PICK s \in Sockets : s = receiver
  BY DEF RecvSteps, RecvDequeue, RecvInterrupted, RecvDies, RecvReturn
<1> DEFINE b == rx_buffer[s]
           r == rx_q[s]
<1>2. rx_buffer' = rx_buffer
  BY DEF RecvSteps, RecvDequeue, RecvInterrupted, RecvDies, RecvReturn, queues
<1>3. /\ b \in Seq(Cells) /\ r \in Seq(Cells) /\ pkt \in Seq(Cells)
      /\ Len(pkt) <= 1 /\ <<>> \in Seq(Cells)
  BY DEF RxTypes, BufferTypes, AppTypes
<1>4. Pending(s) = (pkt \o r) \o b
  BY <1>1 DEF Pending
<1>5. CASE RecvDequeue
  <2>1. /\ r # <<>> /\ pkt = <<>> /\ pkt' = <<Head(r)>> /\ rx_q'[s] = Tail(r)
        /\ \A t \in Sockets : t # s => rx_q'[t] = rx_q[t]
        /\ UNCHANGED <<mbufs, lost, receiver, last>>
    BY <1>1, <1>5 DEF RecvDequeue, RxTypes, BufferTypes
  <2>2. \A t \in Sockets : t # s => Pending(t)' = Pending(t)
    BY <1>1, <1>2, <2>1 DEF Pending
  <2>3. Pending(s)' = (<<Head(r)>> \o Tail(r)) \o b
    BY <1>1, <1>2, <2>1 DEF Pending
  <2> HIDE DEF r, b
  <2>4. <<Head(r)>> \o Tail(r) = r /\ <<>> \o r = r
    BY <1>3, <2>1
  <2>5. Pending(s)' = Pending(s)
    BY <1>4, <2>1, <2>3, <2>4
  <2>6. Loses(s, <<>>) /\ mbufs' = mbufs \ Range(<<>>)
    <3>1. Range(<<>>) = {} /\ <<>> \o Pending(s) = Pending(s)
      BY PendingType, ConcatEmptySeq DEF Range
    <3> QED
      BY <1>3, <2>1, <2>5, <3>1 DEF Loses
  <2> QED
    BY <2>1, <2>2, <2>6
<1>6. CASE RecvInterrupted \/ RecvDies \/ RecvReturn
  <2>1. /\ pkt' = <<>> /\ receiver' \in {Nobody, Dead} /\ rx_q' = rx_q
        /\ \A t \in Sockets : \/ last'[t] = last[t]
                              \/ pkt # <<>> /\ t = s /\ last'[t] = Head(pkt)[1]
        /\ \/ mbufs' = mbufs \ Range(pkt) /\ lost' = lost
           \/ mbufs' = mbufs /\ lost' = lost \cup (Range(pkt) \ Nulls)
    <3>1. CASE RecvInterrupted
      BY <3>1 DEF RecvInterrupted, queues
    <3>2. CASE RecvDies
      <4>1. Range(pkt) \ Nulls = {}
        BY <1>3, <3>2 DEF RecvDies, Range
      <4> QED
        BY <3>2, <4>1 DEF RecvDies, queues
    <3>3. CASE RecvReturn
      BY <1>1, <3>3 DEF RecvReturn, queues, RxTypes, AppTypes
    <3> QED
      BY <1>6, <3>1, <3>2, <3>3
  <2>2. receiver' \notin Sockets
    BY <2>1, NumSocketsAssumption DEF Nobody, Dead, Sockets
  <2>3. \A t \in Sockets : t # s => Pending(t)' = Pending(t)
    BY <1>1, <1>2, <2>1, <2>2 DEF Pending
  <2>4. Pending(s)' = (<<>> \o r) \o b
    BY <1>1, <1>2, <2>1, <2>2 DEF Pending
  <2> HIDE DEF b, r
  <2>5. Pending(s) = pkt \o Pending(s)'
    <3>1. pkt \o (r \o b) = (pkt \o r) \o b /\ <<>> \o r = r
      BY <1>3, ConcatAssociative, ConcatEmptySeq
    <3> QED
      BY <1>3, <1>4, <2>4, <3>1
  <2>6. Loses(s, pkt)
    BY <1>3, <2>5 DEF Loses
  <2>7. pkt # <<>> => Len(pkt) = 1
    <3> DEFINE n == Len(pkt)
    <3>1. n <= 1 /\ (pkt # <<>> => n \in Nat \ {0})
      BY <1>3, EmptySeq
    <3> HIDE DEF n
    <3>2. pkt # <<>> => n = 1
      BY <3>1
    <3> QED
      BY <3>2 DEF n
  <2> QED
    BY <2>1, <2>3, <2>5, <2>6, <2>7
<1> QED
  BY <1>5, <1>6 DEF RecvSteps

LEMMA FlushKeepsOwnership ==
    ASSUME RxTypes, RxTypes', OwnInv, FlushSlot
    PROVE  OwnInv'
<1>1. PICK s, x :
         /\ s \in Sockets
         /\ Loses(s, x)
         /\ \A t \in Sockets : t # s => Pending(t)' = Pending(t)
         /\ mbufs' = mbufs \ Range(x)
  BY FlushLoses
<1>2. UNCHANGED <<arrived, frag_tbl, death_row, lost, nic, rx_mbuf_table, receiver, pkt, last>>
  BY DEF FlushSlot, fragments, app_vars
<1>3. /\ Queue' = Queue /\ \A t \in Sockets : last'[t] \in Past
      /\ Idle'
  BY <1>2, SameQueue, SameLast DEF Idle, OwnInv
<1> QED
  BY <1>1, <1>2, <1>3, SlotLossKeepsOwnership

LEMMA RecvKeepsOwnership ==
    ASSUME RxTypes, RxTypes', OwnInv, RecvSteps
    PROVE  OwnInv'
<1>1. PICK s, x :
         /\ s \in Sockets
         /\ Loses(s, x)
         /\ \A t \in Sockets : t # s => Pending(t)' = Pending(t)
         /\ \/ mbufs' = mbufs \ Range(x) /\ lost' = lost
            \/ mbufs' = mbufs /\ lost' = lost \cup (Range(x) \ Nulls)
         /\ \A t \in Sockets :
               \/ last'[t] = last[t]
               \/ /\ t = s /\ Len(x) = 1 /\ last'[t] = Head(x)[1]
                  /\ Pending(s) = x \o Pending(s)'
  BY RecvLoses
<1>2. UNCHANGED <<arrived, frag_tbl, death_row, nic, rx_mbuf_table>>
  BY DEF RecvSteps, RecvDequeue, RecvInterrupted, RecvDies, RecvReturn, poller_vars, fragments
<1>3. Idle'
  BY NumSocketsAssumption
     DEF RecvSteps, RecvDequeue, RecvInterrupted, RecvDies, RecvReturn, Idle, Nobody, Dead, Sockets
<1>4. \A t \in Sockets : last'[t] \in Past
  <2> TAKE t \in Sockets
  <2>1. CASE last'[t] = last[t]
    BY <2>1 DEF Past
  <2>2. CASE t = s /\ Len(x) = 1 /\ last'[t] = Head(x)[1]
    <3>1. x \in Seq(Cells)
      BY <1>1 DEF Loses
    <3>2. Head(x) \in Range(x)
      BY <2>2, <3>1 DEF Range
    <3>3. Range(x) \in SUBSET Range(Pending(s))
      <4> DEFINE q == Pending(s)
                 c == Pending(s)'
      <4>1. /\ q \in Seq(Cells) /\ c \in Seq(Cells)
            /\ q = x \o c \/ q = c \o x
        <5>1. q \in Seq(Cells)
          BY <1>1, PendingType
        <5>2. c \in Seq(Cells)
          BY <1>1 DEF RxTypes, BufferTypes, AppTypes, Pending
        <5>3. q = x \o c \/ q = c \o x
          BY <1>1 DEF Loses
        <5> QED
          BY <5>1, <5>2, <5>3
      <4> HIDE DEF q, c
      <4>2. Range(x \o c) = Range(x) \cup Range(c)
        BY <3>1, <4>1, RangeConcatenation
      <4>3. Range(c \o x) = Range(c) \cup Range(x)
        BY <3>1, <4>1, RangeConcatenation
      <4> QED
        BY <4>1, <4>2, <4>3 DEF q
    <3>4. Head(x) \in Older
      BY <1>1, <3>2, <3>3 DEF Older
    <3> QED
      BY <2>2, <3>4 DEF Past
  <2> QED
    BY <1>1, <2>1, <2>2
<1> QED
  BY <1>1, <1>2, <1>3, <1>4, SameQueue, SlotLossKeepsOwnership

LEMMA SamePendingMbufs ==
    ASSUME \A s \in Sockets : Pending(s)' = Pending(s)
    PROVE  /\ \A s \in Sockets : PendingMbufs(s)' = PendingMbufs(s)
           /\ AllPending' = AllPending
           /\ PendingOnce => PendingOnce'
<1>1. \A s \in Sockets : PendingMbufs(s)' = PendingMbufs(s)
  BY DEF PendingMbufs
<1> QED
  BY <1>1 DEF AllPending, PendingOnce

LEMMA ArriveKeepsOwnership ==
    ASSUME RxTypes, OwnInv, NEW p \in Traffic, Arrive(p)
    PROVE  OwnInv'
<1>1. /\ p \in Packet /\ p.id = arrived + 1 /\ arrived \in Nat /\ arrived' = p.id
      /\ mbufs' = mbufs \cup {<<p.id, 1>>}
      /\ UNCHANGED <<frag_tbl, death_row, lost, receiver, pkt, last, rx_q, rx_buffer>>
  BY TrafficAssumption DEF Arrive, RxTypes, QueueTypes, poller_vars, fragments, queues, app_vars
<1>2. /\ \A s \in Sockets : Pending(s)' = Pending(s)
      /\ Idle'
  BY <1>1, SamePending DEF OwnInv
<1>3. /\ \A s \in Sockets : PendingMbufs(s)' = PendingMbufs(s)
      /\ AllPending' = AllPending /\ PendingOnce'
  BY <1>2, SamePendingMbufs DEF OwnInv
<1>4. Queue' = Append(Queue, p)
  BY ArriveQueue
<1>5. /\ Queue \in Seq(Packet) /\ InIdOrder(Queue)
      /\ \A q \in Range(Queue) : q.id <= arrived /\ \A n \in Past : n < q.id
      /\ \A n \in Past : n <= arrived
      /\ Range(Queue) \in SUBSET Packet
  BY QueueType, RangeOfSeq DEF OwnInv, Arrival
<1>6. /\ \A q \in Range(Queue) : q.id < p.id /\ q.id <= p.id
      /\ \A n \in Past : n < p.id /\ n <= p.id
  <2>1. \A q \in Range(Queue) : q.id \in Int
    BY <1>5 DEF Packet, Ids
  <2>2. \A n \in Past : n \in Int
    <3>1. \A m \in Older : m \in Cells
      <4>1. MbufsOf(frag_tbl) \in SUBSET Mbufs /\ death_row \in SUBSET Mbufs /\ lost \in SUBSET Mbufs
        BY MbufsOfType DEF RxTypes, MbufTypes
      <4>2. \A s \in Sockets : Range(Pending(s)) \in SUBSET Cells
        BY PendingType, RangeOfSeq
      <4> QED
        BY <4>1, <4>2 DEF Older, Cells
    <3>2. \A m \in Older : m[1] \in Int
      BY <3>1, CellFacts DEF Ids
    <3>3. \A s \in Sockets : last[s] \in Int
      BY DEF RxTypes, AppTypes
    <3> QED
      BY <3>2, <3>3 DEF Past
  <2> QED
    BY <1>1, <1>5, <2>1, <2>2
<1>7. InIdOrder(Queue') /\ Range(Queue') = Range(Queue) \cup {p}
  BY <1>1, <1>4, <1>5, <1>6, OrderAppend
<1>8. Past' = Past
  BY <1>1, <1>2 DEF Past, Older, MbufsOf
<1>9. Arrival'
  BY <1>1, <1>5, <1>6, <1>7, <1>8 DEF Arrival
<1>10. Holders'
  BY <1>1, <1>3 DEF Holders, OwnInv, MbufsOf
<1>11. Accounted'
  <2>1. MbufsOf(Range(Queue'))= MbufsOf(Range(Queue)) \cup {<<p.id, 1>>}
    BY <1>7 DEF MbufsOf
  <2>2. MbufsOf(Range(Queue))' = MbufsOf(Range(Queue')) /\ MbufsOf(frag_tbl)' = MbufsOf(frag_tbl)
    BY <1>1 DEF MbufsOf
  <2> QED
    BY <1>1, <1>3, <2>1, <2>2 DEF Accounted, OwnInv
<1> QED
  BY <1>2, <1>3, <1>9, <1>10, <1>11 DEF OwnInv

LEMMA DeathRowKeepsOwnership ==
    ASSUME RxTypes, OwnInv, FreeDeathRow
    PROVE  OwnInv'
<1>1. /\ mbufs' = mbufs \ death_row /\ death_row' = {}
      /\ UNCHANGED <<nic, rx_mbuf_table, arrived, frag_tbl, lost, receiver, pkt, last, rx_q, rx_buffer>>
  BY DEF FreeDeathRow, queues, app_vars
<1>2. /\ \A s \in Sockets : Pending(s)' = Pending(s)
      /\ Idle' /\ Queue' = Queue
  BY <1>1, SamePending, SameQueue DEF OwnInv
<1>3. /\ \A s \in Sockets : PendingMbufs(s)' = PendingMbufs(s)
      /\ AllPending' = AllPending /\ PendingOnce'
  BY <1>2, SamePendingMbufs DEF OwnInv
<1>4. /\ MbufsOf(frag_tbl)' = MbufsOf(frag_tbl)
      /\ MbufsOf(Range(Queue))' = MbufsOf(Range(Queue))
  BY <1>1, <1>2 DEF MbufsOf
<1>5. Past' \in SUBSET Past
  <2>1. Older' \in SUBSET Older
    BY <1>1, <1>2, <1>4 DEF Older
  <2> QED
    BY <1>1, <2>1 DEF Past
<1>6. Arrival'
  BY <1>1, <1>2, <1>5 DEF Arrival, OwnInv
<1>7. Holders'
  BY <1>1, <1>3, <1>4 DEF Holders, OwnInv
<1>8. Accounted'
  <2>1. death_row \cap MbufsOf(Range(Queue)) = {}
    BY QueueApart DEF MbufsOf, Older
  <2>2. death_row \cap (MbufsOf(frag_tbl) \cup lost \cup AllPending) = {}
    BY DEF OwnInv, Holders, AllPending
  <2>3. mbufs = MbufsOf(Range(Queue)) \cup MbufsOf(frag_tbl) \cup death_row \cup lost \cup AllPending
    BY DEF OwnInv, Accounted
  <2>4. mbufs' = MbufsOf(Range(Queue)) \cup MbufsOf(frag_tbl) \cup lost \cup AllPending
    BY <1>1, <2>1, <2>2, <2>3
  <2> QED
    BY <1>1, <1>3, <1>4, <2>4 DEF Accounted
<1> QED
  BY <1>2, <1>3, <1>6, <1>7, <1>8 DEF OwnInv

-----------------------------------------------------------------------------
(* The switching of a packet. *)

\* The oldest packet of the queue is younger than all that has been switched, and
\* none of its mbufs exists but the first.
LEMMA SwitchedFresh ==
    ASSUME RxTypes, OwnInv, Switch, NEW p, p = Head(rx_mbuf_table)
    PROVE  /\ p \in Packet
           /\ InIdOrder(Queue') /\ Range(Queue) = {p} \cup Range(Queue')
           /\ \A q \in Range(Queue') : q.id <= arrived /\ \A n \in Past \cup {p.id} : n < q.id
           /\ \A n \in Past \cup {p.id} : n <= arrived
           /\ \A m \in Older \cup AllPending \cup MbufsOf(Range(Queue')) : m[1] # p.id
           /\ arrived' = arrived
<1>1. Queue # <<>> /\ Head(Queue) = p /\ Queue' = Tail(Queue) /\ Queue \in Seq(Packet)
  BY SwitchQueue, QueueType
<1>2. InIdOrder(Queue)
  BY DEF OwnInv, Arrival
<1>3. /\ p \in Range(Queue) /\ InIdOrder(Queue')
      /\ Range(Queue) = {p} \cup Range(Queue')
      /\ \A r \in Range(Queue') : p.id < r.id
  BY <1>1, <1>2, OrderTail
<1>4. Range(Queue) \in SUBSET Packet
  BY <1>1, RangeOfSeq
<1>5. \A q \in Range(Queue) : q.id <= arrived /\ q.id \in Int /\ \A n \in Past : n < q.id /\ n <= arrived
  BY <1>4 DEF OwnInv, Arrival, Packet, Ids
<1>6. \A m \in Older \cup AllPending : m[1] < p.id
  BY <1>3, QueueApart
<1>7. \A m \in Older \cup AllPending : m[1] # p.id
  BY <1>3, <1>5, <1>6
<1>8. \A m \in MbufsOf(Range(Queue')) : m[1] # p.id
  <2> TAKE m \in MbufsOf(Range(Queue'))
  <2>1. PICK q \in Range(Queue') : m = <<q.id, 1>>
    BY DEF MbufsOf
  <2> QED
    BY <1>3, <1>5, <2>1
<1>9. arrived' = arrived
  BY DEF Switch
<1>10. \A q \in Range(Queue') : \A n \in Past \cup {p.id} : n < q.id
  BY <1>3, <1>5
<1>11. \A n \in Past \cup {p.id} : n <= arrived
  BY <1>3, <1>5
<1> QED
  BY <1>3, <1>4, <1>5, <1>7, <1>8, <1>9, <1>10, <1>11

\* Fragments of the table have mbufs of their own.
LEMMA FragmentsApart ==
    ASSUME OwnInv, NEW X \in SUBSET frag_tbl, NEW T \in SUBSET frag_tbl, X \cap T = {}
    PROVE  /\ MbufsOf(frag_tbl \ (X \cup T)) = MbufsOf(frag_tbl) \ (MbufsOf(X) \cup MbufsOf(T))
           /\ MbufsOf(X) \cap MbufsOf(T) = {}
           /\ MbufsOf(X) \in SUBSET MbufsOf(frag_tbl) /\ MbufsOf(T) \in SUBSET MbufsOf(frag_tbl)
<1>1. \A q, r \in frag_tbl : q.id = r.id => q = r
  BY DEF OwnInv, Holders
<1>2. \A S \in SUBSET frag_tbl, q \in frag_tbl : <<q.id, 1>> \in MbufsOf(S) <=> q \in S
  BY <1>1 DEF MbufsOf
<1>3. \A S \in SUBSET frag_tbl : \A m \in MbufsOf(S) : \E q \in S : m = <<q.id, 1>>
  BY DEF MbufsOf
<1>4. frag_tbl \ (X \cup T) \in SUBSET frag_tbl /\ frag_tbl \in SUBSET frag_tbl
  OBVIOUS
<1>5. MbufsOf(X) \in SUBSET MbufsOf(frag_tbl) /\ MbufsOf(T) \in SUBSET MbufsOf(frag_tbl)
  BY DEF MbufsOf
<1>6. MbufsOf(X) \cap MbufsOf(T) = {}
  BY <1>2, <1>3
<1>7. \A m \in MbufsOf(frag_tbl) :
         m \in MbufsOf(frag_tbl \ (X \cup T)) <=> m \notin MbufsOf(X) \cup MbufsOf(T)
  BY <1>2, <1>3, <1>4
<1>8. MbufsOf(frag_tbl \ (X \cup T)) \in SUBSET MbufsOf(frag_tbl)
  BY DEF MbufsOf
<1> QED
  BY <1>5, <1>6, <1>7, <1>8

\* This step adds gets[s] to what slot s has to deliver, copies of packet p none of
\* which is added twice.
CopiesGiven(gets, p) ==
    /\ \A s \in Sockets : /\ gets[s] \in Seq(Cells) /\ Once(gets[s])
                          /\ Pending(s)' = Pending(s) \o gets[s]
                          /\ \A m \in Range(gets[s]) : m[1] = p.id
    /\ \A s, t \in Sockets : s # t => (Range(gets[s]) \ Nulls) \cap Range(gets[t]) = {}

\* In this step, which switches packet p, the fragments X go to the death row, the
\* fragments T are taken in, and the mbufs of p that exist afterwards are a fragment
\* in the table (fp), one on the death row (dp), one that is lost (lp), or copies in
\* buffers (G), and no mbuf is two of these.
MbufsMoved(p, X, T, fp, dp, lp, G) ==
    /\ X \in SUBSET frag_tbl /\ T \in SUBSET frag_tbl /\ X \cap T = {}
    /\ fp \in SUBSET {p} /\ dp \in SUBSET {<<p.id, 1>>} /\ lp \in SUBSET {<<p.id, 1>>}
    /\ MbufsOf(fp) \cap dp = {} /\ (MbufsOf(fp) \cup dp) \cap lp = {}
    /\ G \cap (MbufsOf(fp) \cup dp \cup lp) = {}
    /\ frag_tbl' = (frag_tbl \ (X \cup T)) \cup fp
    /\ death_row' = death_row \cup MbufsOf(X) \cup dp
    /\ lost' = lost \cup lp
    /\ mbufs' = ((mbufs \ MbufsOf(T)) \ {<<p.id, 1>>}) \cup MbufsOf(fp) \cup dp \cup lp \cup G

\* Such a step keeps ownership.
LEMMA SwitchedKeepsOwnership ==
    ASSUME RxTypes, RxTypes', OwnInv, Switch, NEW p, p = Head(rx_mbuf_table),
           NEW gets, NEW G, G = UNION {Range(gets[s]) \ Nulls : s \in Sockets},
           CopiesGiven(gets, p),
           NEW X, NEW T, NEW fp, NEW dp, NEW lp, MbufsMoved(p, X, T, fp, dp, lp, G)
    PROVE  OwnInv'
<1> USE DEF CopiesGiven, MbufsMoved
<1> DEFINE F == MbufsOf(frag_tbl)
           MX == MbufsOf(X)
           MT == MbufsOf(T)
           MP == MbufsOf(fp)
           W == MbufsOf(Range(Queue'))
           P(s) == PendingMbufs(s)
           Q(s) == PendingMbufs(s)'
           g(s) == Range(gets[s]) \ Nulls
<1>1. /\ p \in Packet
      /\ InIdOrder(Queue') /\ Range(Queue) = {p} \cup Range(Queue')
      /\ \A q \in Range(Queue') : q.id <= arrived /\ \A n \in Past \cup {p.id} : n < q.id
      /\ \A n \in Past \cup {p.id} : n <= arrived
      /\ \A m \in Older \cup AllPending \cup W : m[1] # p.id
      /\ arrived' = arrived
  BY SwitchedFresh
<1>2. /\ MbufsOf(frag_tbl \ (X \cup T)) = F \ (MX \cup MT)
      /\ MX \cap MT = {} /\ MX \in SUBSET F /\ MT \in SUBSET F
  BY FragmentsApart
<1>3. MbufsOf(frag_tbl)' = (F \ (MX \cup MT)) \cup MP
  <2>1. MbufsOf(frag_tbl)' = MbufsOf(frag_tbl \ (X \cup T)) \cup MP
    BY DEF MbufsOf
  <2> QED
    BY <1>2, <2>1
<1>4. /\ \A m \in MP : m[1] = p.id
      /\ \A m \in dp \cup lp \cup {<<p.id, 1>>} : m[1] = p.id
      /\ \A s \in Sockets : \A m \in g(s) : m[1] = p.id
  BY DEF MbufsOf
<1>5. \A s \in Sockets : /\ Range(Pending(s)') = Range(Pending(s)) \cup Range(gets[s])
                         /\ Q(s) = P(s) \cup g(s) /\ Once(Pending(s)')
  <2> TAKE s \in Sockets
  <2> DEFINE q == Pending(s)
             r == gets[s]
             c == Pending(s)'
  <2>1. /\ q \in Seq(Cells) /\ r \in Seq(Cells) /\ Once(q) /\ Once(r)
        /\ P(s) = Range(q) \ Nulls /\ Q(s) = Range(c) \ Nulls /\ c = q \o r
        /\ \A m \in Range(r) : m[1] = p.id
    BY PendingType DEF OwnInv, PendingOnce, PendingMbufs, Nulls
  <2>2. Range(q) \in SUBSET Older
    BY DEF Older
  <2> HIDE DEF q, r, c, P, Q
  <2>3. Range(c) = Range(q) \cup Range(r)
    BY <2>1, RangeConcatenation
  <2>4. Once(c)
    BY <1>1, <2>1, <2>2, ConcatOnce
  <2> QED
    BY <2>1, <2>3, <2>4 DEF q, r, c
<1>6. PendingOnce'
  BY <1>5 DEF PendingOnce
<1>7. Idle'
  BY DEF OwnInv, Idle, Switch, app_vars
<1>8. Arrival'
  <2>1. \A m \in Older' : m \in Older \/ m[1] = p.id
    <3>1. \A s \in Sockets : \A m \in Range(Pending(s)') : m \in Older \/ m[1] = p.id
      BY <1>5 DEF Older
    <3>2. F \cup death_row \cup lost \in SUBSET Older
      BY DEF Older
    <3>3. \A m \in MbufsOf(frag_tbl)' \cup death_row' \cup lost' : m \in Older \/ m[1] = p.id
      BY <1>2, <1>3, <1>4, <3>2
    <3> HIDE DEF F, MX, MT, MP, P, Q, g
    <3>4. Older' = MbufsOf(frag_tbl)' \cup death_row' \cup lost' \cup UNION {Range(Pending(s)') : s \in Sockets}
      BY DEF Older
    <3> QED
      BY <3>1, <3>3, <3>4
  <2>2. last' = last
    BY DEF Switch, app_vars
  <2>3. \A n \in Past' : n \in Past \cup {p.id}
    BY <2>1, <2>2 DEF Past
  <2> QED
    BY <1>1, <2>3 DEF Arrival
<1>9. /\ AllPending = UNION {P(s) : s \in Sockets}
      /\ AllPending' = UNION {Q(s) : s \in Sockets}
      /\ G = UNION {g(s) : s \in Sockets}
      /\ F \cup death_row \cup lost \in SUBSET Older
  BY DEF AllPending, Older
<1>10. /\ \A s \in Sockets : P(s) \cap (F \cup death_row \cup lost) = {}
       /\ \A s, t \in Sockets : s # t => P(s) \cap P(t) = {}
       /\ (F \cup death_row) \cap lost = {} /\ F \cap death_row = {}
       /\ \A q, r \in frag_tbl : q.id = r.id => q = r
  BY DEF OwnInv, Holders
<1>11. \A s, t \in Sockets : s # t => g(s) \cap g(t) = {}
  OBVIOUS
<1>12. \A q, r \in frag_tbl' : q.id = r.id => q = r
  <2>1. \A q \in frag_tbl : q.id # p.id
    <3>1. \A q \in frag_tbl : <<q.id, 1>> \in F
      BY DEF MbufsOf
    <3>2. \A q \in frag_tbl : <<q.id, 1>>[1] # p.id
      BY <1>1, <1>9, <3>1
    <3> QED
      BY <3>2
  <2> QED
    BY <1>10, <2>1
<1>13. mbufs = MbufsOf(Range(Queue)) \cup F \cup death_row \cup lost \cup AllPending
  BY DEF OwnInv, Accounted
<1>14. MbufsOf(Range(Queue)) = {<<p.id, 1>>} \cup W /\ MbufsOf(Range(Queue))' = W
  BY <1>1 DEF MbufsOf
<1>15. \A m \in W : m \notin F \cup death_row \cup lost \cup AllPending
  <2> TAKE m \in W
  <2>1. PICK q \in Range(Queue') : m = <<q.id, 1>>
    BY DEF MbufsOf
  <2> QED
    BY <1>1, <1>9, <2>1, QueueApart
<1> DEFINE m1 == <<p.id, 1>>
           Old == F \cup death_row \cup lost \cup AllPending
           New == MP \cup dp \cup lp \cup G
<1>16. New \cap (Old \cup W) = {} /\ m1 \notin Old \cup W
  BY <1>1, <1>4, <1>9
<1> HIDE DEF F, MX, MT, MP, W, P, Q, g, m1
<1>17. \A s \in Sockets : g(s) \in SUBSET G /\ P(s) \in SUBSET AllPending
  BY <1>9
<1>18. Holders'
  <2>1. MbufsOf(frag_tbl)' \cap death_row' = {}
    BY <1>2, <1>3, <1>10, <1>16 DEF MX, MP
  <2>2. (MbufsOf(frag_tbl)' \cup death_row') \cap lost' = {}
    BY <1>2, <1>3, <1>10, <1>16 DEF MX, MP
  <2>3. \A s \in Sockets : Q(s) \cap (MbufsOf(frag_tbl)' \cup death_row' \cup lost') = {}
    <3> TAKE s \in Sockets
    <3>1. P(s) \cap (MP \cup dp \cup lp) = {} /\ g(s) \cap (F \cup death_row \cup lost) = {}
      BY <1>16, <1>17
    <3>2. g(s) \cap (MP \cup dp \cup lp) = {}
      BY <1>17 DEF MP
    <3>3. P(s) \cap (F \cup death_row \cup lost) = {}
      BY <1>10
    <3>4. MbufsOf(frag_tbl)' \cup death_row' \cup lost' \in SUBSET F \cup death_row \cup lost \cup MP \cup dp \cup lp
      BY <1>2, <1>3 DEF MX
    <3>5. Q(s) = P(s) \cup g(s)
      BY <1>5
    <3> DEFINE H == MbufsOf(frag_tbl)' \cup death_row' \cup lost'
    <3>6. H \in SUBSET ((F \cup death_row \cup lost) \cup (MP \cup dp \cup lp))
      BY <3>4
    <3> HIDE DEF H
    <3>7. Q(s) \cap H = {}
      BY <3>1, <3>2, <3>3, <3>5, <3>6
    <3> QED
      BY <3>7 DEF H
  <2>4. \A s, t \in Sockets : s # t => Q(s) \cap Q(t) = {}
    <3> TAKE s, t \in Sockets
    <3> HAVE s # t
    <3>1. P(s) \cap g(t) = {} /\ g(s) \cap P(t) = {}
      BY <1>16, <1>17
    <3> QED
      BY <1>5, <1>10, <1>11, <3>1
  <2> QED
    BY <1>12, <2>1, <2>2, <2>3, <2>4 DEF Holders, Q
<1>19. Accounted'
  <2>1. AllPending' = AllPending \cup G
    <3>1. \A s \in Sockets : Q(s) = P(s) \cup g(s)
      BY <1>5
    <3>2. \A x : x \in AllPending' <=> \E s \in Sockets : x \in Q(s)
      BY <1>9
    <3>3. \A x : x \in AllPending <=> \E s \in Sockets : x \in P(s)
      BY <1>9
    <3>4. \A x : x \in G <=> \E s \in Sockets : x \in g(s)
      BY <1>9
    <3>5. \A x : x \in AllPending' <=> x \in AllPending \/ x \in G
      BY <3>1, <3>2, <3>3, <3>4
    <3> QED
      BY <3>5
  <2>2. mbufs = {m1} \cup W \cup F \cup death_row \cup lost \cup AllPending
    BY <1>13, <1>14 DEF m1
  <2>3. mbufs' = ((mbufs \ MT) \ {m1}) \cup MP \cup dp \cup lp \cup G
    BY DEF MT, MP, m1
  <2>4. MT \cap (W \cup death_row \cup lost \cup AllPending \cup MX) = {}
    BY <1>2, <1>9, <1>10, <1>15
  <2>5. mbufs' = W \cup ((F \ (MX \cup MT)) \cup MP) \cup (death_row \cup MX \cup dp) \cup (lost \cup lp)
                 \cup (AllPending \cup G)
    BY <1>2, <1>16, <2>2, <2>3, <2>4
  <2> QED
    BY <1>3, <1>14, <2>1, <2>5 DEF Accounted, MX
<1> QED
  BY <1>6, <1>7, <1>8, <1>18, <1>19 DEF OwnInv

\* What a switch adds comes last.
LEMMA SwitchPending ==
    ASSUME RxTypes, Switch, NEW s \in Sockets, NEW e \in Seq(Cells),
           rx_buffer'[s] = rx_buffer[s] \o e
    PROVE  Pending(s)' = Pending(s) \o e
<1> DEFINE h == IF receiver = s THEN pkt ELSE <<>>
           r == rx_q[s]
           b == rx_buffer[s]
<1>1. h \in Seq(Cells) /\ r \in Seq(Cells) /\ b \in Seq(Cells)
  BY DEF RxTypes, BufferTypes, AppTypes
<1>2. Pending(s) = (h \o r) \o b
  BY DEF Pending
<1>3. Pending(s)' = (h \o r) \o (b \o e)
  BY DEF Pending, Switch, app_vars
<1> HIDE DEF h, r, b
<1> DEFINE c == h \o r
<1>4. c \in Seq(Cells)
  BY <1>1, ConcatProperties
<1> HIDE DEF c
<1>5. (c \o b) \o e = c \o (b \o e)
  BY <1>1, <1>4, ConcatAssociative
<1>6. Pending(s) = c \o b
  BY <1>2 DEF c
<1>7. Pending(s)' = c \o (b \o e)
  BY <1>3 DEF c
<1> QED
  BY <1>5, <1>6, <1>7

LEMMA QuietSwitch ==
    ASSUME RxTypes, Switch, UNCHANGED rx_buffer, NEW gets, gets = [s \in Sockets |-> <<>>],
           NEW p
    PROVE  /\ CopiesGiven(gets, p)
           /\ UNION {Range(gets[s]) \ Nulls : s \in Sockets} = {}
<1>1. \A s \in Sockets : gets[s] = <<>>
  OBVIOUS
<1>2. <<>> \in Seq(Cells) /\ Once(<<>>) /\ Range(<<>>) = {}
  BY DEF Once, Range
<1>3. \A s \in Sockets : Pending(s)' = Pending(s) \o <<>>
  <2> TAKE s \in Sockets
  <2>1. rx_buffer[s] \in Seq(Cells) /\ rx_buffer'[s] = rx_buffer[s]
    BY DEF RxTypes, BufferTypes
  <2>2. rx_buffer'[s] = rx_buffer[s] \o <<>>
    BY <2>1, ConcatEmptySeq
  <2> QED
    BY <1>2, <2>2, SwitchPending
<1> QED
  BY <1>1, <1>2, <1>3 DEF CopiesGiven

\* The first mbuf of the packet exists while it is switched, and is no fragment's
\* of the table.
LEMMA SwitchedMbuf ==
    ASSUME RxTypes, OwnInv, Switch, NEW p, p = Head(rx_mbuf_table)
    PROVE  /\ <<p.id, 1>> \in mbufs
           /\ \A m \in mbufs : m[1] = p.id => m = <<p.id, 1>>
           /\ \A T \in SUBSET frag_tbl : <<p.id, 1>> \notin MbufsOf(T)
<1>1. /\ Range(Queue) = {p} \cup Range(Queue')
      /\ \A m \in Older \cup AllPending \cup MbufsOf(Range(Queue')) : m[1] # p.id
  BY SwitchedFresh
<1>2. MbufsOf(Range(Queue)) = {<<p.id, 1>>} \cup MbufsOf(Range(Queue'))
  BY <1>1 DEF MbufsOf
<1>3. mbufs = MbufsOf(Range(Queue)) \cup MbufsOf(frag_tbl) \cup death_row \cup lost \cup AllPending
  BY DEF OwnInv, Accounted
<1>4. MbufsOf(frag_tbl) \cup death_row \cup lost \in SUBSET Older
  BY DEF Older
<1>5. \A m \in mbufs : m[1] = p.id => m = <<p.id, 1>>
  BY <1>1, <1>2, <1>3, <1>4
<1>6. \A T \in SUBSET frag_tbl : MbufsOf(T) \in SUBSET MbufsOf(frag_tbl)
  BY DEF MbufsOf
<1>7. <<p.id, 1>> \notin MbufsOf(frag_tbl)
  <2>1. <<p.id, 1>>[1] = p.id
    OBVIOUS
  <2> QED
    BY <1>1, <1>4, <2>1
<1> QED
  BY <1>2, <1>3, <1>5, <1>6, <1>7

LEMMA WaitsKeepsOwnership ==
    ASSUME RxTypes, RxTypes', OwnInv, Switch, NEW p, p = Head(rx_mbuf_table),
           NEW waiting \in SUBSET frag_tbl, Waits(p, waiting)
    PROVE  OwnInv'
<1> DEFINE expired == frag_tbl \ waiting
           mates == {q \in waiting : q.of = p.of}
           m1 == <<p.id, 1>>
           gets == [s \in Sockets |-> <<>>]
           G == UNION {Range(gets[s]) \ Nulls : s \in Sockets}
           none == {}
<1>1. UNCHANGED <<rx_buffer, mbufs, lost>>
  BY DEF Waits
<1>2. CopiesGiven(gets, p) /\ G = {}
  <2>1. gets = [s \in Sockets |-> <<>>] /\ G = UNION {Range(gets[s]) \ Nulls : s \in Sockets}
    OBVIOUS
  <2> HIDE DEF gets, G
  <2> QED
    BY <1>1, <2>1, QuietSwitch
<1>3. mbufs' = (mbufs \ {m1}) \cup {m1}
  BY <1>1, SwitchedMbuf
<1>4. G = UNION {Range(gets[s]) \ Nulls : s \in Sockets}
  OBVIOUS
<1>5. MbufsOf({}) = {} /\ MbufsOf({p}) = {m1}
  BY DEF MbufsOf
<1> HIDE DEF gets, G
<1>6. CASE mates = {}
  <2> DEFINE fp == {p}
  <2>1. /\ frag_tbl' = (frag_tbl \ (expired \cup none)) \cup fp
        /\ death_row' = death_row \cup MbufsOf(expired) \cup none
        /\ lost' = lost \cup none
    <3>1. frag_tbl' = waiting \cup {p} /\ death_row' = death_row \cup MbufsOf(expired)
      BY <1>6 DEF Waits
    <3> QED
      BY <1>1, <3>1
  <2>2. /\ expired \in SUBSET frag_tbl /\ none \in SUBSET frag_tbl /\ expired \cap none = {}
        /\ fp \in SUBSET {p} /\ none \in SUBSET {m1}
        /\ MbufsOf(fp) \cap none = {} /\ (MbufsOf(fp) \cup none) \cap none = {}
        /\ G \cap (MbufsOf(fp) \cup none \cup none) = {}
    BY <1>2
  <2>3. mbufs' = ((mbufs \ MbufsOf(none)) \ {m1}) \cup MbufsOf(fp) \cup none \cup none \cup G
    BY <1>2, <1>3, <1>5
  <2> HIDE DEF fp, none, expired, mates
  <2>4. MbufsMoved(p, expired, none, fp, none, none, G)
    BY <2>1, <2>2, <2>3 DEF MbufsMoved
  <2> QED
    BY <1>2, <1>4, <2>4, SwitchedKeepsOwnership
<1>7. CASE mates # {}
  <2> DEFINE X == expired \cup mates
             dp == {m1}
  <2>1. /\ frag_tbl' = (frag_tbl \ (X \cup none)) \cup none
        /\ death_row' = death_row \cup MbufsOf(X) \cup dp
        /\ lost' = lost \cup none
    <3>1. frag_tbl' = waiting \ mates /\ death_row' = death_row \cup MbufsOf(X \cup {p})
      BY <1>7 DEF Waits
    <3>2. MbufsOf(X \cup {p}) = MbufsOf(X) \cup dp
      BY DEF MbufsOf
    <3>3. waiting \ mates = frag_tbl \ X
      OBVIOUS
    <3> QED
      BY <1>1, <3>1, <3>2, <3>3
  <2>2. /\ X \in SUBSET frag_tbl /\ none \in SUBSET frag_tbl /\ X \cap none = {}
        /\ none \in SUBSET {p} /\ dp \in SUBSET {m1} /\ none \in SUBSET {m1}
        /\ MbufsOf(none) \cap dp = {} /\ (MbufsOf(none) \cup dp) \cap none = {}
        /\ G \cap (MbufsOf(none) \cup dp \cup none) = {}
    BY <1>2, <1>5
  <2>3. mbufs' = ((mbufs \ MbufsOf(none)) \ {m1}) \cup MbufsOf(none) \cup dp \cup none \cup G
    BY <1>2, <1>3, <1>5
  <2> HIDE DEF X, dp, none, expired, mates
  <2>4. MbufsMoved(p, X, none, none, dp, none, G)
    BY <2>1, <2>2, <2>3 DEF MbufsMoved
  <2> QED
    BY <1>2, <1>4, <2>4, SwitchedKeepsOwnership
<1> QED
  BY <1>6, <1>7

\* The delivery of a packet gives copies to buffers, or the packet is lost.
LEMMA DeliverKeepsOwnership ==
    ASSUME TypeOK, TableInv, RxTypes, RxTypes', OwnInv, Switch, NEW p, p = Head(rx_mbuf_table),
           NEW X \in SUBSET frag_tbl, NEW T \in SUBSET frag_tbl, X \cap T = {},
           frag_tbl' = frag_tbl \ (X \cup T),
           death_row' = death_row \cup MbufsOf(X),
           Deliver(p, MbufsOf(T))
    PROVE  OwnInv'
<1> DEFINE m1 == <<p.id, 1>>
           none == {}
<1>1. p \in Packet
  BY SwitchedFresh
<1>2. /\ m1 \in mbufs /\ m1 \notin MbufsOf(T)
      /\ \A m \in mbufs : m[1] = p.id => m = m1
  BY SwitchedMbuf
<1>3. /\ none \in SUBSET {p} /\ none \in SUBSET {m1} /\ MbufsOf(none) = {}
      /\ frag_tbl' = (frag_tbl \ (X \cup T)) \cup none
      /\ death_row' = death_row \cup MbufsOf(X) \cup none
  BY DEF MbufsOf
<1>4. CASE Switched(p)
  <2>1. PICK made \in ClonesMade(p) :
           /\ rx_buffer' = [s \in Sockets |-> rx_buffer[s] \o EnqueuedTo(s, p, made)]
           /\ mbufs' = ((mbufs \ MbufsOf(T)) \cup Clones(p, made)) \ Spare(p, made)
    BY <1>4 DEF Deliver
  <2>2. p.dst # NotUdp /\ lost' = lost
    BY <1>4 DEF Switched, Deliver
  <2> DEFINE gets == [s \in Sockets |-> EnqueuedTo(s, p, made)]
             G == UNION {Range(gets[s]) \ Nulls : s \in Sockets}
  <2>3. \A s \in Sockets : /\ gets[s] \in Seq(Cells) /\ Once(gets[s])
                           /\ \A m \in Range(gets[s]) : m[1] = p.id
    <3> TAKE s \in Sockets
    <3>1. /\ gets[s] \in Seq(Cells) /\ Once(gets[s])
          /\ Range(gets[s]) = {CopyFor(p, i, made) : i \in Here(s, p)}
      BY <1>1, <2>2, EnqueuedCopies
    <3>2. \A i : CopyFor(p, i, made)[1] = p.id
      BY <1>1, <2>2, CopyOf
    <3> QED
      BY <3>1, <3>2
  <2>4. \A s \in Sockets : Pending(s)' = Pending(s) \o gets[s]
    <3> TAKE s \in Sockets
    <3>1. rx_buffer'[s] = rx_buffer[s] \o gets[s] /\ gets[s] \in Seq(Cells)
      BY <2>1, <2>3
    <3> QED
      BY <3>1, SwitchPending
  <2>5. /\ \A s, t \in Sockets : s # t => (Range(gets[s]) \ Nulls) \cap Range(gets[t]) = {}
        /\ G = Given(p, made)
    BY <1>1, <2>2, EnqueuedGiven
  <2>6. G = UNION {Range(gets[s]) \ Nulls : s \in Sockets}
    OBVIOUS
  <2> HIDE DEF gets, G
  <2>7. CopiesGiven(gets, p)
    BY <2>3, <2>4, <2>5 DEF CopiesGiven
  <2>8. mbufs' = ((mbufs \ MbufsOf(T)) \ {m1}) \cup G
    <3>1. /\ ({m1} \cup Clones(p, made)) \ Spare(p, made) = G
          /\ \A m \in Clones(p, made) \cup Spare(p, made) : m[1] = p.id
      BY <1>1, <2>2, <2>5, SpareFreed
    <3> HIDE DEF m1
    <3>2. \A m \in mbufs \ {m1} : m \notin Spare(p, made)
      BY <1>2, <3>1
    <3> QED
      BY <1>2, <2>1, <3>1, <3>2
  <2>9. /\ lost' = lost \cup none
        /\ mbufs' = ((mbufs \ MbufsOf(T)) \ {m1}) \cup MbufsOf(none) \cup none \cup none \cup G
        /\ MbufsOf(none) \cap none = {} /\ (MbufsOf(none) \cup none) \cap none = {}
        /\ G \cap (MbufsOf(none) \cup none \cup none) = {}
    BY <1>3, <2>2, <2>8
  <2> HIDE DEF none
  <2>10. MbufsMoved(p, X, T, none, none, none, G)
    BY <1>3, <2>9 DEF MbufsMoved
  <2> QED
    BY <2>6, <2>7, <2>10, SwitchedKeepsOwnership
<1>5. CASE ~Switched(p)
  <2> DEFINE gets == [s \in Sockets |-> <<>>]
             G == UNION {Range(gets[s]) \ Nulls : s \in Sockets}
             lp == {m1}
  <2>1. UNCHANGED rx_buffer /\ lost' = lost \cup lp /\ mbufs' = mbufs \ MbufsOf(T)
    BY <1>5 DEF Deliver
  <2>2. gets = [s \in Sockets |-> <<>>] /\ G = UNION {Range(gets[s]) \ Nulls : s \in Sockets}
    OBVIOUS
  <2> HIDE DEF gets, G
  <2>3. CopiesGiven(gets, p) /\ G = {}
    BY <2>1, <2>2, QuietSwitch
  <2>4. /\ mbufs' = ((mbufs \ MbufsOf(T)) \ {m1}) \cup MbufsOf(none) \cup none \cup lp \cup G
        /\ MbufsOf(none) \cap none = {} /\ (MbufsOf(none) \cup none) \cap lp = {}
        /\ G \cap (MbufsOf(none) \cup none \cup lp) = {} /\ lp \in SUBSET {m1}
    BY <1>2, <1>3, <2>1, <2>3
  <2> HIDE DEF none, lp
  <2>5. MbufsMoved(p, X, T, none, none, lp, G)
    BY <1>3, <2>1, <2>4 DEF MbufsMoved
  <2> QED
    BY <2>2, <2>3, <2>5, SwitchedKeepsOwnership
<1> QED
  BY <1>4, <1>5

LEMMA SwitchKeepsOwnership ==
    ASSUME TypeOK, TableInv, RxTypes, RxTypes', OwnInv, Switch
    PROVE  OwnInv'
<1>1. PICK p : p = Head(rx_mbuf_table)
  OBVIOUS
<1>2. CASE p.of = Whole
  <2> DEFINE none == {}
  <2>1. Deliver(p, {}) /\ UNCHANGED fragments
    BY <1>1, <1>2 DEF Switch
  <2>2. MbufsOf(none) = {}
    BY DEF MbufsOf
  <2>3. /\ none \in SUBSET frag_tbl /\ none \cap none = {}
        /\ frag_tbl' = frag_tbl \ (none \cup none)
        /\ death_row' = death_row \cup MbufsOf(none)
        /\ Deliver(p, MbufsOf(none))
    BY <2>1, <2>2 DEF fragments
  <2> HIDE DEF none
  <2> QED
    BY <1>1, <2>3, DeliverKeepsOwnership
<1>3. CASE p.of # Whole
  <2>1. PICK waiting \in SUBSET frag_tbl : Waits(p, waiting) \/ Completes(p, waiting)
    BY <1>1, <1>3 DEF Switch
  <2>2. CASE Waits(p, waiting)
    BY <1>1, <2>2, WaitsKeepsOwnership
  <2>3. CASE Completes(p, waiting)
    <3> DEFINE X == frag_tbl \ waiting
               T == {q \in waiting : q.of = p.of}
    <3>1. /\ X \in SUBSET frag_tbl /\ T \in SUBSET frag_tbl /\ X \cap T = {}
          /\ waiting \ T = frag_tbl \ (X \cup T)
      OBVIOUS
    <3>2. /\ frag_tbl' = waiting \ T
          /\ death_row' = death_row \cup MbufsOf(X)
          /\ Deliver(p, MbufsOf(T))
      BY <2>3 DEF Completes
    <3> HIDE DEF X, T
    <3> QED
      BY <1>1, <3>1, <3>2, DeliverKeepsOwnership
  <2> QED
    BY <2>1, <2>2, <2>3
<1> QED
  BY <1>2, <1>3

LEMMA StepOwnInv ==
    ASSUME TypeOK, TableInv, RxTypes, RxTypes', OwnInv, [RxNext]_all_vars
    PROVE  OwnInv'
<1>1. ASSUME UNCHANGED <<receiver, pkt, rx_q, rx_buffer, nic, rx_mbuf_table>>,
             UNCHANGED <<arrived, frag_tbl, death_row, mbufs, lost, last>>
      PROVE  OwnInv'
  <2>1. /\ \A s \in Sockets : Pending(s)' = Pending(s)
        /\ Queue' = Queue /\ Idle' /\ \A s \in Sockets : last'[s] \in Past
    BY <1>1, SamePending, SameQueue, SameLast DEF OwnInv
  <2> QED
    BY <1>1, <2>1, NoLossKeepsOwnership
<1>2. CASE AppCall
  BY <1>1, <1>2 DEF AppCall, rx_vars, poller_vars, fragments, queues, app_vars
<1>3. CASE \E s \in Sockets : Recv(s)
  <2>1. PICK s \in Sockets : Recv(s)
    BY <1>3
  <2>2. /\ UNCHANGED <<pkt, rx_q, rx_buffer, nic, rx_mbuf_table>>
        /\ UNCHANGED <<arrived, frag_tbl, death_row, mbufs, lost, last>>
        /\ receiver = Nobody /\ receiver' = s
    BY <2>1 DEF Recv, poller_vars, fragments, queues
  <2>3. Nobody \notin Sockets
    BY NumSocketsAssumption DEF Nobody, Sockets
  <2>4. pkt = <<>> /\ Idle'
    BY <2>2, <2>3 DEF OwnInv, Idle
  <2>5. \A t \in Sockets : Pending(t)' = Pending(t)
    BY <2>2, <2>3, <2>4 DEF Pending
  <2> QED
    BY <2>2, <2>4, <2>5, SameQueue, SameLast, NoLossKeepsOwnership
<1>4. CASE RecvSteps
  BY <1>4, RecvKeepsOwnership
<1>5. CASE Interrupt
  BY <1>1, <1>5 DEF Interrupt, poller_vars, fragments, queues
<1>6. CASE \E p \in Traffic : Arrive(p)
  BY <1>6, ArriveKeepsOwnership
<1>7. CASE RxBurst
  <2>1. /\ UNCHANGED <<receiver, pkt, rx_q, rx_buffer>>
        /\ UNCHANGED <<arrived, frag_tbl, death_row, mbufs, lost, last>>
    BY <1>7 DEF RxBurst, fragments, queues, app_vars
  <2>2. /\ \A s \in Sockets : Pending(s)' = Pending(s)
        /\ Idle' /\ \A s \in Sockets : last'[s] \in Past
    BY <2>1, SamePending, SameLast DEF OwnInv
  <2> QED
    BY <1>7, <2>1, <2>2, RxBurstQueue, NoLossKeepsOwnership
<1>8. CASE Switch
  BY <1>8, SwitchKeepsOwnership
<1>9. CASE FlushSlot
  BY <1>9, FlushKeepsOwnership
<1>10. CASE FreeDeathRow
  BY <1>10, DeathRowKeepsOwnership
<1>11. CASE UNCHANGED all_vars
  BY <1>1, <1>11 DEF all_vars, rx_vars, poller_vars, fragments, queues, app_vars
<1> QED
  BY <1>2, <1>3, <1>4, <1>5, <1>6, <1>7, <1>8, <1>9, <1>10, <1>11 DEF RxNext, Poller

LEMMA OwnershipInvariant == RxSpec => []OwnInv
<1>1. TypeOK /\ TableInv /\ RxTypes /\ RxTypes' /\ OwnInv /\ [RxNext]_all_vars => OwnInv'
  BY StepOwnInv
<1>2. RxSpec => []TypeOK /\ []TableInv
  <2>1. IInv => TypeOK /\ TableInv
    BY DEF IInv
  <2> QED
    BY <2>1, SocketsInRxPath, Invariant, PTL
<1> QED
  BY InitOwnInv, <1>1, <1>2, TypesInvariant, PTL DEF RxSpec

LEMMA IncomingParts ==
    RxTypes => Incoming = MbufsOf(Range(Queue)) \cup MbufsOf(frag_tbl) \cup death_row
BY QueueType DEF Incoming, MbufsOf

\* An mbuf has one holder at a time, and no holder has one that was freed: the copies
\* of a fan-out some of which could not be made, the fragments of a datagram, the
\* flush that finds no room and the death row free nothing somebody will still read.
THEOREM MbufsOwnedOnceAlways == RxSpec => []MbufsOwnedOnce
<1>1. RxTypes /\ OwnInv => MbufsOwnedOnce
  <2> SUFFICES ASSUME RxTypes, OwnInv PROVE MbufsOwnedOnce
    OBVIOUS
  <2> DEFINE W == MbufsOf(Range(Queue))
             F == MbufsOf(frag_tbl)
  <2>1. mbufs = W \cup F \cup death_row \cup lost \cup AllPending
    BY DEF OwnInv, Accounted
  <2>2. /\ F \cap death_row = {}
        /\ \A s \in Sockets : PendingMbufs(s) \cap (F \cup death_row) = {}
        /\ \A s, t \in Sockets : s # t => PendingMbufs(s) \cap PendingMbufs(t) = {}
    BY DEF OwnInv, Holders
  <2>3. W \cap AllPending = {}
    BY QueueApart DEF MbufsOf
  <2>4. \A s \in Sockets : PendingMbufs(s) \in SUBSET AllPending
    BY DEF AllPending
  <2>5. Incoming = W \cup F \cup death_row
    BY IncomingParts
  <2> HIDE DEF W
  <2> QED
    BY <2>1, <2>2, <2>3, <2>4, <2>5 DEF MbufsOwnedOnce
<1> QED
  BY <1>1, TypesInvariant, OwnershipInvariant, PTL

\* Every mbuf that was not freed is held by the queue, the fragment table, the death
\* row, a buffer, a ring or recvfrom(), but for those dropped as not UDP, for a port
\* without binding, or in an interrupted recvfrom(): the pool loses no others.
THEOREM MbufsAccountedAlways == RxSpec => []MbufsAccounted
<1>1. RxTypes /\ OwnInv => MbufsAccounted
  <2> SUFFICES ASSUME RxTypes, OwnInv PROVE MbufsAccounted
    OBVIOUS
  <2>1. mbufs = MbufsOf(Range(Queue)) \cup MbufsOf(frag_tbl) \cup death_row \cup lost \cup AllPending
    BY DEF OwnInv, Accounted
  <2>2. Incoming = MbufsOf(Range(Queue)) \cup MbufsOf(frag_tbl) \cup death_row
    BY IncomingParts
  <2> QED
    BY <2>1, <2>2 DEF MbufsAccounted, AllPending
<1> QED
  BY <1>1, TypesInvariant, OwnershipInvariant, PTL

-----------------------------------------------------------------------------
(* The order of delivery. *)

\* What slot s has to deliver is in the order of arrival, and younger than what
\* recvfrom() returned last.
SlotOrdered(s) == /\ Increasing(Pending(s))
                  /\ \A i \in DOMAIN Pending(s) : last[s] < Pending(s)[i][1]

LEMMA LossKeepsOrder ==
    ASSUME RxTypes, RxTypes', OwnInv, NEW s \in Sockets, NEW x, Loses(s, x), SlotOrdered(s),
           \/ last'[s] = last[s]
           \/ /\ Len(x) = 1 /\ last'[s] = Head(x)[1]
              /\ Pending(s) = x \o Pending(s)'
    PROVE  SlotOrdered(s)'
<1> DEFINE p == Pending(s)
           q == Pending(s)'
<1>1. p \in Seq(Cells) /\ q \in Seq(Cells) /\ x \in Seq(Cells) /\ Increasing(p)
  <2>1. p \in Seq(Cells)
    BY PendingType
  <2>2. q \in Seq(Cells)
    BY DEF RxTypes, BufferTypes, AppTypes, Pending
  <2> QED
    BY <2>1, <2>2 DEF Loses, SlotOrdered
<1>2. /\ Increasing(q)
      /\ Range(q) \in SUBSET Range(p)
  BY AfterLoss DEF OwnInv, PendingOnce, SlotOrdered, Increasing
<1>3. \A i \in DOMAIN p : last[s] < p[i][1]
  BY DEF SlotOrdered
<1>4. ASSUME Len(x) = 1, last'[s] = Head(x)[1], p = x \o q
      PROVE  \A i \in DOMAIN q : last'[s] < q[i][1]
  <2> HIDE DEF p, q
  <2>1. /\ DOMAIN q = 1 .. Len(q) /\ Len(q) \in Nat /\ DOMAIN p = 1 .. Len(q) + 1
        /\ p[1] = Head(x) /\ \A i \in 1 .. Len(q) : p[i + 1] = q[i]
    <3>1. /\ Len(q) \in Nat /\ DOMAIN q = 1 .. Len(q) /\ DOMAIN p = 1 .. Len(p)
          /\ Len(p) = Len(q) + 1
      <4>1. Len(x \o q) = Len(x) + Len(q)
        BY <1>1, ConcatProperties
      <4>2. Len(q) \in Nat /\ DOMAIN q = 1 .. Len(q) /\ DOMAIN p = 1 .. Len(p)
        BY <1>1, LenProperties
      <4> DEFINE n == Len(q)
      <4>3. n \in Nat /\ Len(p) = 1 + n
        BY <1>4, <4>1, <4>2
      <4> HIDE DEF n
      <4>4. Len(p) = n + 1
        BY <4>3
      <4> QED
        BY <4>2, <4>4 DEF n
    <3>2. p[1] = Head(x) /\ \A i \in 1 .. Len(q) : p[i + 1] = q[i]
      BY <1>1, <1>4, <3>1
    <3> QED
      BY <3>1, <3>2
  <2>2. \A i \in 1 .. Len(q) : 1 \in DOMAIN p /\ i + 1 \in DOMAIN p /\ 1 < i + 1
    BY <2>1
  <2> QED
    BY <1>1, <1>4, <2>1, <2>2 DEF Increasing
<1>5. ASSUME last'[s] = last[s]
      PROVE  \A i \in DOMAIN q : last'[s] < q[i][1]
  <2>1. \A m \in Range(p) : last[s] < m[1]
    BY <1>3 DEF Range
  <2>2. \A i \in DOMAIN q : q[i] \in Range(p)
    BY <1>2 DEF Range
  <2> QED
    BY <1>5, <2>1, <2>2
<1>6. \A i \in DOMAIN q : last'[s] < q[i][1]
  BY <1>4, <1>5
<1>7. Increasing(Pending(s))'
  BY <1>2 DEF Increasing
<1> QED
  BY <1>6, <1>7 DEF SlotOrdered

LEMMA SameOrder ==
    ASSUME NEW s \in Sockets, Pending(s)' = Pending(s), last' = last, SlotOrdered(s)
    PROVE  SlotOrdered(s)'
BY DEF SlotOrdered, Increasing

\* A socket is in the list of a port once, so that with a buffer index of its own it
\* gets one copy of a packet at most.
LEMMA OneCopyEach ==
    ASSUME TypeOK, TableInv, EnoughIndices, NEW p \in Packet, p.dst # NotUdp, NEW s \in Sockets
    PROVE  Cardinality(Here(s, p)) <= 1
<1> DEFINE fd(i) == sock_bind_table[p.dst[2]][i].sockfd
<1>1. \A i \in Recipients(p) : fd(i) % BufIndices = fd(i) /\ fd(i) \in Sockets
  <2> TAKE i \in Recipients(p)
  <2>1. p.dst[2] \in Ports /\ i \in DOMAIN sock_bind_table[p.dst[2]]
    BY RecipientsFinite
  <2>2. fd(i) \in Sockets /\ slots[fd(i)].bound
    BY <2>1, ListType DEF BindInfo, TableInv, BindingsOwned
  <2> DEFINE x == fd(i)
  <2>3. x \in Nat /\ x < BufIndices /\ BufIndices \in Nat \ {0}
    BY <2>2, RxAssumption, NumSocketsAssumption DEF Sockets, EnoughIndices
  <2> HIDE DEF x
  <2>4. x % BufIndices = x
    BY <2>3
  <2> QED
    BY <2>2, <2>4 DEF x
<1>2. \A i, j \in Here(s, p) : i = j
  <2> TAKE i, j \in Here(s, p)
  <2>1. i \in Recipients(p) /\ j \in Recipients(p) /\ fd(i) = fd(j)
    BY <1>1 DEF Here
  <2>2. /\ p.dst[2] \in Ports /\ i \in DOMAIN sock_bind_table[p.dst[2]]
        /\ j \in DOMAIN sock_bind_table[p.dst[2]]
    BY <2>1, RecipientsFinite
  <2> QED
    BY <2>1, <2>2, EntryBySocket
<1>3. Here(s, p) = {} \/ \E i : Here(s, p) = {i}
  BY <1>2
<1>4. Cardinality({}) = 0 /\ \A i : Cardinality({i}) = 1
  BY FS_EmptySet, FS_Singleton
<1> HIDE DEF fd
<1>5. Cardinality(Here(s, p)) \in {0, 1}
  BY <1>3, <1>4
<1> QED
  BY <1>5

\* A switch gives a slot one copy of the packet at most.
LEMMA SwitchAdds ==
    ASSUME TypeOK, TableInv, RxTypes, EnoughIndices, Switch,
           NEW p \in Packet, p = Head(rx_mbuf_table), NEW s \in Sockets
    PROVE  \E e \in Seq(Cells) : /\ Pending(s)' = Pending(s) \o e
                                 /\ Len(e) <= 1 /\ \A m \in Range(e) : m[1] = p.id
<1>1. CASE UNCHANGED rx_buffer
  <2>1. /\ <<>> \in Seq(Cells) /\ Len(<<>>) <= 1 /\ Range(<<>>) = {}
        /\ rx_buffer[s] \in Seq(Cells) /\ rx_buffer'[s] = rx_buffer[s]
    BY <1>1 DEF Range, RxTypes, BufferTypes
  <2>2. rx_buffer'[s] = rx_buffer[s] \o <<>>
    BY <2>1, ConcatEmptySeq
  <2> QED
    BY <2>1, <2>2, SwitchPending
<1>2. CASE \E taken : Deliver(p, taken) /\ Switched(p)
  <2>1. p.dst # NotUdp
    BY <1>2 DEF Switched
  <2>2. PICK made \in ClonesMade(p) :
           rx_buffer' = [t \in Sockets |-> rx_buffer[t] \o EnqueuedTo(t, p, made)]
    BY <1>2 DEF Deliver
  <2> DEFINE e == EnqueuedTo(s, p, made)
  <2>3. /\ e \in Seq(Cells) /\ Len(e) <= 1
        /\ Range(e) = {CopyFor(p, i, made) : i \in Here(s, p)}
    BY <2>1, EnqueuedCopies, OneCopyEach
  <2>4. \A m \in Range(e) : m[1] = p.id
    BY <2>1, <2>3, CopyOf
  <2>5. rx_buffer'[s] = rx_buffer[s] \o e
    BY <2>2
  <2> HIDE DEF e
  <2> QED
    BY <2>3, <2>4, <2>5, SwitchPending
<1>3. \/ UNCHANGED rx_buffer
      \/ \E taken : Deliver(p, taken) /\ Switched(p)
  <2>1. \/ UNCHANGED rx_buffer
        \/ \E taken : Deliver(p, taken)
    <3>1. CASE p.of = Whole
      BY <3>1 DEF Switch
    <3>2. CASE p.of # Whole
      <4>1. PICK waiting \in SUBSET frag_tbl : Waits(p, waiting) \/ Completes(p, waiting)
        BY <3>2 DEF Switch
      <4>2. CASE Waits(p, waiting)
        BY <4>2 DEF Waits
      <4>3. CASE Completes(p, waiting)
        BY <4>3 DEF Completes
      <4> QED
        BY <4>1, <4>2, <4>3
    <3> QED
      BY <3>1, <3>2
  <2>2. \A taken : Deliver(p, taken) => Switched(p) \/ UNCHANGED rx_buffer
    BY DEF Deliver
  <2> QED
    BY <2>1, <2>2
<1> QED
  BY <1>1, <1>2, <1>3

LEMMA SwitchKeepsOrder ==
    ASSUME TypeOK, TableInv, RxTypes, EnoughIndices, OwnInv, Switch,
           NEW s \in Sockets, SlotOrdered(s)
    PROVE  SlotOrdered(s)'
<1>1. PICK p \in Packet : p = Head(rx_mbuf_table)
  BY SwitchedFresh
<1>2. PICK e \in Seq(Cells) : /\ Pending(s)' = Pending(s) \o e
                              /\ Len(e) <= 1 /\ \A m \in Range(e) : m[1] = p.id
  BY <1>1, SwitchAdds
<1> DEFINE q == Pending(s)
           n == Len(q)
           c == q \o e
<1>3. q \in Seq(Cells)
  BY PendingType
<1>4. \A m \in Range(q) : m[1] < p.id
  <2>1. p \in Range(Queue)
    BY <1>1, SwitchedFresh
  <2> QED
    BY <2>1, QueueApart DEF Older
<1>5. last[s] < p.id
  <2>1. p \in Range(Queue) /\ last[s] \in Past
    BY <1>1, SwitchedFresh DEF Past
  <2> QED
    BY <2>1 DEF OwnInv, Arrival
<1>6. /\ Increasing(q) /\ \A i \in DOMAIN q : last[s] < q[i][1]
      /\ last' = last
  BY DEF SlotOrdered, Switch, app_vars
<1> HIDE DEF q
<1>7. /\ n \in Nat /\ DOMAIN q = 1 .. n /\ Len(e) \in Nat
      /\ DOMAIN e = 1 .. Len(e) /\ DOMAIN c = 1 .. n + Len(e)
      /\ \A i \in 1 .. n : c[i] = q[i] /\ q[i] \in Range(q)
      /\ \A i \in 1 .. n + Len(e) : i \notin 1 .. n => c[i] = e[i - n]
  BY <1>3, ConcatProperties, LenProperties DEF Range
<1> HIDE DEF n, c
<1>8. \A i \in 1 .. n + Len(e) : i \notin 1 .. n => i = n + 1 /\ c[i][1] = p.id
  <2> TAKE i \in 1 .. n + Len(e)
  <2> HAVE i \notin 1 .. n
  <2>1. i = n + 1 /\ Len(e) = 1 /\ i - n = 1
    BY <1>2, <1>7
  <2>2. c[i] = e[1] /\ e[1] \in Range(e)
    BY <1>7, <2>1 DEF Range
  <2> QED
    BY <1>2, <2>1, <2>2
<1>9. Increasing(c)
  <2> SUFFICES ASSUME NEW i \in 1 .. n + Len(e), NEW j \in 1 .. n + Len(e), i < j
               PROVE  c[i][1] < c[j][1]
    BY <1>7 DEF Increasing
  <2>1. i \in 1 .. n
    BY <1>2, <1>7
  <2>2. CASE j \in 1 .. n
    BY <1>6, <1>7, <2>1, <2>2 DEF Increasing
  <2>3. CASE j \notin 1 .. n
    BY <1>4, <1>7, <1>8, <2>1, <2>3
  <2> QED
    BY <2>2, <2>3
<1>10. \A i \in DOMAIN c : last[s] < c[i][1]
  BY <1>5, <1>6, <1>7, <1>8
<1>11. Pending(s)' = c
  BY <1>2 DEF c, q
<1>12. Increasing(Pending(s))'
  BY <1>9, <1>11 DEF Increasing
<1> QED
  BY <1>6, <1>10, <1>11, <1>12 DEF SlotOrdered

LEMMA StepOrdered ==
    ASSUME TypeOK, TableInv, RxTypes, RxTypes', EnoughIndices, OwnInv, DeliveryOrdered,
           [RxNext]_all_vars
    PROVE  DeliveryOrdered'
<1>1. \A s \in Sockets : SlotOrdered(s)
  BY DEF DeliveryOrdered, SlotOrdered
<1> SUFFICES ASSUME NEW s \in Sockets PROVE SlotOrdered(s)'
  BY DEF DeliveryOrdered, SlotOrdered, Increasing
<1>2. ASSUME UNCHANGED <<receiver, pkt, rx_q, rx_buffer, last>> PROVE SlotOrdered(s)'
  BY <1>1, <1>2, SamePending, SameOrder
<1>3. CASE AppCall
  BY <1>2, <1>3 DEF AppCall, rx_vars, queues, app_vars
<1>4. CASE \E t \in Sockets : Recv(t)
  <2>1. /\ UNCHANGED <<pkt, rx_q, rx_buffer, last>>
        /\ receiver = Nobody
    BY <1>4 DEF Recv, queues
  <2>2. Nobody \notin Sockets
    BY NumSocketsAssumption DEF Nobody, Sockets
  <2>3. pkt = <<>>
    BY <2>1, <2>2 DEF OwnInv, Idle
  <2>4. Pending(s)' = Pending(s)
    BY <2>1, <2>2, <2>3 DEF Pending
  <2> QED
    BY <1>1, <2>1, <2>4, SameOrder
<1>5. CASE RecvSteps
  <2>1. PICK t, x :
           /\ t \in Sockets
           /\ Loses(t, x)
           /\ \A u \in Sockets : u # t => Pending(u)' = Pending(u)
           /\ \A u \in Sockets :
                 \/ last'[u] = last[u]
                 \/ /\ u = t /\ Len(x) = 1 /\ last'[u] = Head(x)[1]
                    /\ Pending(t) = x \o Pending(t)'
    BY <1>5, RecvLoses
  <2>2. CASE s = t
    BY <1>1, <2>1, <2>2, LossKeepsOrder
  <2>3. CASE s # t
    <3>1. Pending(s)' = Pending(s) /\ last'[s] = last[s]
      BY <2>1, <2>3
    <3> QED
      BY <1>1, <3>1 DEF SlotOrdered, Increasing
  <2> QED
    BY <2>2, <2>3
<1>6. CASE Interrupt
  BY <1>2, <1>6 DEF Interrupt, queues
<1>7. CASE \E p \in Traffic : Arrive(p)
  BY <1>2, <1>7 DEF Arrive, queues, app_vars
<1>8. CASE RxBurst
  BY <1>2, <1>8 DEF RxBurst, queues, app_vars
<1>9. CASE Switch
  BY <1>1, <1>9, SwitchKeepsOrder
<1>10. CASE FlushSlot
  <2>1. last' = last
    BY <1>10 DEF FlushSlot, app_vars
  <2>2. PICK t, x :
           /\ t \in Sockets /\ Loses(t, x)
           /\ \A u \in Sockets : u # t => Pending(u)' = Pending(u)
    BY <1>10, FlushLoses
  <2>3. CASE s = t
    BY <1>1, <2>1, <2>2, <2>3, LossKeepsOrder
  <2>4. CASE s # t
    BY <1>1, <2>1, <2>2, <2>4, SameOrder
  <2> QED
    BY <2>3, <2>4
<1>11. CASE FreeDeathRow
  BY <1>2, <1>11 DEF FreeDeathRow, queues, app_vars
<1>12. CASE UNCHANGED all_vars
  BY <1>2, <1>12 DEF all_vars, rx_vars, queues, app_vars
<1> QED
  BY <1>3, <1>4, <1>5, <1>6, <1>7, <1>8, <1>9, <1>10, <1>11, <1>12 DEF RxNext, Poller

LEMMA InitOrdered == RxInit => DeliveryOrdered
<1> SUFFICES ASSUME RxInit, NEW s \in Sockets
             PROVE  /\ Increasing(Pending(s))
                    /\ \A i \in DOMAIN Pending(s) : last[s] < Pending(s)[i][1]
  BY DEF DeliveryOrdered
<1>1. rx_q[s] = <<>> /\ rx_buffer[s] = <<>> /\ pkt = <<>>
  BY DEF RxInit
<1>2. <<>> \o <<>> = <<>>
  BY ConcatEmptySeq, EmptySeq
<1>3. Pending(s) = <<>>
  BY <1>1, <1>2 DEF Pending
<1> QED
  BY <1>3 DEF Increasing

\* As long as no socket beyond the buffer indices is bound, recvfrom() returns the
\* packets of a slot in the order of their arrival, and none twice, whatever is
\* dropped on the way, however many times the socket is closed and opened again,
\* and whoever shares its port.
THEOREM DeliveryAlwaysOrdered == []EnoughIndices /\ RxSpec => []DeliveryOrdered
<1>1. /\ TypeOK /\ TableInv /\ RxTypes /\ RxTypes' /\ EnoughIndices /\ OwnInv
      /\ DeliveryOrdered /\ [RxNext]_all_vars
      => DeliveryOrdered'
  BY StepOrdered
<1>2. RxSpec => []TypeOK /\ []TableInv
  <2>1. IInv => TypeOK /\ TableInv
    BY DEF IInv
  <2> QED
    BY <2>1, SocketsInRxPath, Invariant, PTL
<1> QED
  BY <1>1, <1>2, InitOrdered, TypesInvariant, OwnershipInvariant, PTL DEF RxSpec

-----------------------------------------------------------------------------
(* Who gets a packet. *)

\* A packet leaves the burst table by being switched; one that is complete is delivered.
LEMMA CompleteDelivered ==
    ASSUME RxTypes, OwnInv, [RxNext]_all_vars, NEW p \in Packet, Switches(p), Complete(p)
    PROVE  Switch /\ \E taken : Deliver(p, taken)
<1>1. /\ rx_mbuf_table \in Seq(Packet) /\ rx_mbuf_table # <<>>
      /\ p = Head(rx_mbuf_table) /\ rx_mbuf_table' = Tail(rx_mbuf_table)
  BY DEF RxTypes, QueueTypes, Switches
<1>2. rx_mbuf_table' # rx_mbuf_table
  <2>1. Len(Tail(rx_mbuf_table)) = Len(rx_mbuf_table) - 1 /\ Len(rx_mbuf_table) \in Nat
    BY <1>1, HeadTailProperties, LenProperties
  <2>2. Len(Tail(rx_mbuf_table)) # Len(rx_mbuf_table)
    BY <2>1
  <2> QED
    BY <1>1, <2>2
<1>3. Switch
  <2>1. AppCall \/ Interrupt \/ UNCHANGED all_vars => UNCHANGED rx_mbuf_table
    BY DEF AppCall, Interrupt, all_vars, rx_vars, poller_vars
  <2>2. (\E s \in Sockets : Recv(s)) => UNCHANGED rx_mbuf_table
    BY DEF Recv, poller_vars
  <2>3. RecvSteps => UNCHANGED rx_mbuf_table
    BY DEF RecvSteps, RecvDequeue, RecvInterrupted, RecvDies, RecvReturn, poller_vars
  <2>4. (\E q \in Traffic : Arrive(q)) => UNCHANGED rx_mbuf_table
    BY DEF Arrive, poller_vars
  <2>5. ~RxBurst /\ ~FlushSlot /\ ~FreeDeathRow
    BY <1>1 DEF RxBurst, FlushSlot, FreeDeathRow
  <2> QED
    BY <1>2, <2>1, <2>2, <2>3, <2>4, <2>5 DEF RxNext, Poller
<1>4. \E taken : Deliver(p, taken)
  <2>1. CASE p.of = Whole
    BY <1>1, <1>3, <2>1 DEF Switch
  <2>2. CASE p.of # Whole
    <3>1. PICK waiting \in SUBSET frag_tbl : Waits(p, waiting) \/ Completes(p, waiting)
      BY <1>1, <1>3, <2>2 DEF Switch
    <3>2. ASSUME Waits(p, waiting) PROVE FALSE
      <4>1. mbufs' = mbufs
        BY <3>2 DEF Waits
      <4>2. PICK q \in frag_tbl : <<q.id, 1>> \notin mbufs
        BY <2>2, <4>1 DEF Complete
      <4>3. <<q.id, 1>> \in MbufsOf(frag_tbl)
        BY DEF MbufsOf
      <4> QED
        BY <4>2, <4>3 DEF OwnInv, Accounted
    <3> QED
      BY <3>1, <3>2 DEF Completes
  <2> QED
    BY <2>1, <2>2
<1> QED
  BY <1>3, <1>4

\* A socket that wants a packet is in the list of the port; it gets the packet unless a
\* wildcard socket without a reuse option is there.
LEMMA WantedReached ==
    ASSUME TypeOK, TableInv, NEW p \in Packet, NEW s \in Sockets, Wants(s, p)
    PROVE  /\ Switched(p)
           /\ \/ \E i \in Recipients(p) : sock_bind_table[p.dst[2]][i].sockfd = s
              \/ \E t \in Sockets \ {s} : Captures(t, p.dst[2])
<1> DEFINE list == sock_bind_table[p.dst[2]]
<1>1. /\ p.dst # NotUdp /\ slots[s].bound /\ slots[s].udp_port = p.dst[2]
      /\ slots[s].ip_addr \in {p.dst[1], INADDR_ANY}
  BY DEF Wants
<1>2. p.dst[2] \in Ports /\ list \in Seq(BindInfo)
  BY <1>1, RecipientsFinite
<1>3. /\ DOMAIN list = 1 .. Len(list) /\ Len(list) \in Nat
      /\ \A i \in DOMAIN list : list[i] \in BindInfo
  BY <1>2, ListType
<1>4. PICK i \in DOMAIN list : \A j \in DOMAIN list : list[j].sockfd = s <=> i = j
  <2>1. s \in Bound
    BY <1>1 DEF Bound
  <2>2. OnceIn(list, s)
    BY <1>1, <2>1 DEF TableInv, BoundOnce
  <2> QED
    BY <2>2 DEF OnceIn
<1>5. list[i].sockfd = s /\ list[i].ip_addr = slots[s].ip_addr
  BY <1>2, <1>4 DEF TableInv, BindingsOwned
<1>6. Matches(list[i], p)
  BY <1>1, <1>5 DEF Matches
<1>7. Switched(p)
  <2>1. list # <<>>
    BY <1>3, <1>4
  <2> QED
    BY <1>1, <2>1 DEF Switched
<1>8. CASE i \in Recipients(p)
  BY <1>5, <1>7, <1>8
<1>9. CASE i \notin Recipients(p)
  <2>1. PICK j \in 1 .. i - 1 : Matches(list[j], p) /\ ~Reusable(list[j])
    BY <1>4, <1>6, <1>9 DEF Recipients
  <2>2. j \in DOMAIN list /\ j < i /\ j # i
    BY <1>3, <1>4, <2>1
  <2>3. LegalPair(list[j], list[i])
    BY <1>2, <1>4, <2>2 DEF TableInv, SharingLegal, LegalList
  <2>4. list[j].ip_addr = INADDR_ANY
    BY <1>6, <2>1, <2>3 DEF LegalPair, Matches, Reusable
  <2>5. list[j].sockfd \in Sockets /\ list[j].sockfd # s
    BY <1>3, <1>4, <2>2 DEF BindInfo
  <2>6. Captures(list[j].sockfd, p.dst[2])
    BY <2>1, <2>2, <2>4 DEF Captures
  <2> QED
    BY <1>7, <2>5, <2>6
<1> QED
  BY <1>8, <1>9

LEMMA RecipientServed ==
    ASSUME TypeOK, TableInv, RxTypes, EnoughIndices, NEW p \in Packet, NEW taken,
           Deliver(p, taken), Switched(p), NEW s \in Sockets,
           \E i \in Recipients(p) : sock_bind_table[p.dst[2]][i].sockfd = s
    PROVE  s \in Served
<1>1. p.dst # NotUdp
  BY DEF Switched
<1>2. PICK made \in ClonesMade(p) :
         rx_buffer' = [t \in Sockets |-> rx_buffer[t] \o EnqueuedTo(t, p, made)]
  BY DEF Deliver
<1>3. s % BufIndices = s
  <2>1. slots[s].bound
    BY <1>1, RecipientsFinite DEF TableInv, BindingsOwned
  <2>2. s \in Nat /\ s < BufIndices /\ BufIndices \in Nat \ {0}
    BY <2>1, RxAssumption, NumSocketsAssumption DEF Sockets, EnoughIndices
  <2> QED
    BY <2>2
<1>4. Here(s, p) # {}
  BY <1>3 DEF Here
<1>5. Cardinality(Here(s, p)) \in Nat \ {0}
  <2>1. IsFiniteSet(Here(s, p))
    BY <1>1, RecipientsFinite, FS_Subset DEF Here
  <2> QED
    BY <1>4, <2>1, FS_EmptySet, FS_CardinalityType
<1> DEFINE e == EnqueuedTo(s, p, made)
           b == rx_buffer[s]
<1>6. /\ e \in Seq(Cells) /\ Len(e) \in Nat \ {0} /\ b \in Seq(Cells)
      /\ rx_buffer'[s] = b \o e
  BY <1>1, <1>2, <1>5, EnqueuedCopies DEF RxTypes, BufferTypes
<1> HIDE DEF e, b
<1>7. Len(b \o e) > Len(b)
  BY <1>6
<1> QED
  BY <1>6, <1>7 DEF Served, b

LEMMA StepStarvedOnly ==
    ASSUME TypeOK, TableInv, RxTypes, EnoughIndices, OwnInv, [RxNext]_all_vars,
           NEW p \in Packet, NEW s \in Sockets, Switches(p), Complete(p), Wants(s, p)
    PROVE  s \in Served \/ \E t \in Sockets \ {s} : Captures(t, p.dst[2])
<1>1. PICK taken : Deliver(p, taken)
  BY CompleteDelivered
<1>2. /\ Switched(p)
      /\ \/ \E i \in Recipients(p) : sock_bind_table[p.dst[2]][i].sockfd = s
         \/ \E t \in Sockets \ {s} : Captures(t, p.dst[2])
  BY WantedReached
<1> QED
  BY <1>1, <1>2, RecipientServed

\* The body of StarvedOnlyByWildcard.
Starvation ==
    \A p \in Packet, s \in Sockets :
       Switches(p) /\ Complete(p) /\ Wants(s, p)
       => s \in Served \/ \E t \in Sockets \ {s} : Captures(t, p.dst[2])

\* As long as no socket beyond the buffer indices is bound, a packet that is whole,
\* or completes a datagram, is put by reassemble() in the buffer of every socket
\* bound to its destination, unless a wildcard socket without a reuse option is
\* bound to the port: no other mix of addresses, reuse options and fragments makes
\* the scan of the list stop too early.
THEOREM OnlyWildcardStarves == []EnoughIndices /\ RxSpec => StarvedOnlyByWildcard
<1>1. /\ TypeOK /\ TableInv /\ RxTypes /\ EnoughIndices /\ OwnInv /\ [RxNext]_all_vars
      => [Starvation]_all_vars
  BY StepStarvedOnly DEF Starvation
<1>2. RxSpec => []TypeOK /\ []TableInv
  <2>1. IInv => TypeOK /\ TableInv
    BY DEF IInv
  <2> QED
    BY <2>1, SocketsInRxPath, Invariant, PTL
<1>3. []EnoughIndices /\ RxSpec => [][Starvation]_all_vars
  BY <1>1, <1>2, TypesInvariant, OwnershipInvariant, PTL DEF RxSpec
<1> QED
  BY <1>3 DEF StarvedOnlyByWildcard, Starvation
=============================================================================
