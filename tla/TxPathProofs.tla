---------------------------- MODULE TxPathProofs ----------------------------
(***************************************************************************)
(* Transmission, for every number of slots and datagrams, every size of    *)
(* the table, the rings and the pool, and every number of fragments: no    *)
(* mbuf is lost or freed twice, and what a socket sends stays in order.    *)
(***************************************************************************)
EXTENDS TxPath, SocketsProofs, SequenceTheorems

-----------------------------------------------------------------------------
(* Composition: a step of TxPath is a step of Sockets, or leaves its state. *)

\* sendto() is the call in progress between its two steps, on a socket that is
\* open and bound, and nothing here begins a cleanup.
SendingOpen == /\ phase = "up"
               /\ sending # <<>> => LET s == Head(sending).sock
                                    IN  s \in Sockets /\ slots[s].used /\ slots[s].bound

LEMMA AppCallOfSockets == AppCall => Next /\ phase' = phase
<1> SUFFICES ASSUME AppCall PROVE Next /\ phase' = phase
  OBVIOUS
<1>1. PICK s \in Sockets :
         \/ Socket(s)
         \/ \E opt \in Options, on \in BOOLEAN : Setsockopt(s, opt, on)
         \/ \E ip \in IPs, port \in Ports : Bind(s, ip, port)
         \/ Close(s)
  BY DEF AppCall
<1>2. CASE Socket(s)
  BY <1>2 DEF Next, SocketCalls, Socket, Up
<1>3. CASE \E opt \in Options, on \in BOOLEAN : Setsockopt(s, opt, on)
  BY <1>3 DEF Next, OptionCalls, Setsockopt, Up
<1>4. CASE \E ip \in IPs, port \in Ports : Bind(s, ip, port)
  BY <1>4 DEF Next, BindCalls, Bind, Up
<1>5. CASE Close(s)
  BY <1>5 DEF Next, CloseCalls, Close, Up
<1> QED
  BY <1>1, <1>2, <1>3, <1>4, <1>5

LEMMA SendAllocOfSockets ==
    ASSUME TypeOK, NEW s \in Sockets, NEW n, SendAlloc(s, n)
    PROVE  /\ SendTo(s) /\ phase' = phase
           /\ slots'[s].used /\ slots'[s].bound
<1>1. SendTo(s) /\ phase' = phase
  BY DEF SendAlloc, SendTo, Up
<1>2. slots[s].used
  BY DEF SendAlloc
<1>3. slots'[s].used /\ slots'[s].bound
  <2>1. CASE slots[s].bound /\ UNCHANGED slots
    BY <1>2, <2>1
  <2>2. CASE \E port \in Ports : RecordBinding(s, INADDR_ANY, port)
    BY <1>2, <2>2 DEF RecordBinding, TypeOK, SlotInfo
  <2> QED
    BY <2>1, <2>2 DEF SendAlloc, EnsureBound
<1> QED
  BY <1>1, <1>3

LEMMA TxStepOfSockets ==
    ASSUME TypeOK, SendingOpen, [TxNext]_all_vars
    PROVE  [Next]_vars /\ SendingOpen'
<1>1. CASE AppCall
  BY <1>1, AppCallOfSockets DEF AppCall, tx_vars, SendingOpen
<1>2. ASSUME NEW s \in Sockets, NEW n, SendAlloc(s, n) PROVE [Next]_vars /\ SendingOpen'
  <2>1. Next /\ phase' = phase /\ slots'[s].used /\ slots'[s].bound
    BY <1>2, SendAllocOfSockets DEF Next, SendCalls
  <2>2. sending' = <<>> \/ \E i : sending' = <<[sock |-> s, id |-> i, frags |-> n]>>
    BY <1>2 DEF SendAlloc
  <2>3. sending' # <<>> => Head(sending').sock = s
    BY <2>2
  <2> QED
    BY <2>1, <2>3 DEF SendingOpen
<1>3. CASE SendEnqueue
  <2> DEFINE s == Head(sending).sock
  <2>1. s \in Sockets /\ slots[s].used /\ slots[s].bound /\ phase = "up"
    BY <1>3 DEF SendEnqueue, SendingOpen
  <2>2. SendTo(s)
    BY <1>3, <2>1 DEF SendEnqueue, EnqueueOrFree, SendTo, Up, EnsureBound
  <2> QED
    BY <1>3, <2>1, <2>2 DEF Next, SendCalls, SendEnqueue, SendingOpen
<1>4. CASE Poller
  BY <1>4 DEF Poller, CheckSlot, Dequeue, LeaveSlot, EndRound, SendingOpen, vars
<1>5. CASE UNCHANGED all_vars
  BY <1>5 DEF all_vars, tx_vars, vars, SendingOpen
<1> QED
  BY <1>1, <1>2, <1>3, <1>4, <1>5 DEF TxNext

LEMMA TxInitOfSockets == TxInit => Init /\ SendingOpen
BY DEF TxInit, Init, SendingOpen

\* Sending, seen from the slots and the table, is the sendto() of Sockets in two
\* steps, of which only the first changes anything there.
THEOREM SocketsInTxPath == TxSpec => Spec
<1>1. TxInit => IInv /\ SendingOpen
  BY TxInitOfSockets, InitIInv
<1>2. IInv /\ SendingOpen /\ [TxNext]_all_vars => IInv' /\ SendingOpen' /\ [Next]_vars
  BY TxStepOfSockets, NextIInv DEF IInv
<1> QED
  BY <1>1, <1>2, TxInitOfSockets, PTL DEF TxSpec, Spec

-----------------------------------------------------------------------------
(* Types. *)

\* The poller drains or leaves a slot there is.
StepInSlot == step # "check" => slot < NumSockets

LEMMA PieceType ==
    /\ \A p \in Piece : /\ p.sock \in Sockets /\ p.id \in 1 .. MaxSends /\ p.frag \in Nat
                        /\ MbufOf(p) = <<p.id, p.frag>>
    /\ \A s \in Sockets, i \in 1 .. MaxSends, n \in Fragments \cup {0} : \A k \in 0 .. n :
          [sock |-> s, id |-> i, frag |-> k] \in Piece
<1>1. Fragments \subseteq Nat
  BY TxAssumption
<1>2. ASSUME NEW p \in Piece
      PROVE  p.sock \in Sockets /\ p.id \in 1 .. MaxSends /\ p.frag \in Nat
  <2>1. PICK n \in Fragments \cup {0} : p \in [sock : Sockets, id : 1 .. MaxSends, frag : 0 .. n]
    BY DEF Piece
  <2>2. n \in Nat
    BY <1>1
  <2> QED
    BY <2>1, <2>2
<1>3. ASSUME NEW s \in Sockets, NEW i \in 1 .. MaxSends, NEW n \in Fragments \cup {0},
             NEW k \in 0 .. n
      PROVE  [sock |-> s, id |-> i, frag |-> k] \in Piece
  <2>1. [sock |-> s, id |-> i, frag |-> k] \in [sock : Sockets, id : 1 .. MaxSends, frag : 0 .. n]
    OBVIOUS
  <2> QED
    BY <2>1 DEF Piece
<1> QED
  BY <1>2, <1>3 DEF MbufOf

\* The whole of a datagram and its pieces are pieces of it, in order.
LEMMA PiecesOf ==
    ASSUME NEW d \in Datagram
    PROVE  /\ d.sock \in Sockets /\ d.id \in 1 .. MaxSends /\ d.frags \in Nat
           /\ Whole(d) \in Piece
           /\ Pieces(d) \in Seq(Piece) /\ Len(Pieces(d)) = d.frags
           /\ \A k \in 1 .. d.frags : Pieces(d)[k] = [sock |-> d.sock, id |-> d.id, frag |-> k]
<1>1. d.sock \in Sockets /\ d.id \in 1 .. MaxSends /\ d.frags \in Fragments \cup {0}
  BY DEF Datagram
<1>2. d.frags \in Nat
  <2>1. \A n \in Fragments \cup {0} : n \in Nat
    BY TxAssumption
  <2> QED
    BY <1>1, <2>1
<1>3. Whole(d) \in Piece
  BY <1>1, <1>2, PieceType DEF Whole
<1>4. \A k \in 1 .. d.frags : [sock |-> d.sock, id |-> d.id, frag |-> k] \in Piece
  <2> TAKE k \in 1 .. d.frags
  <2>1. k \in 0 .. d.frags
    BY <1>2
  <2> QED
    BY <1>1, <2>1, PieceType
<1>5. Pieces(d) \in Seq(Piece) /\ Len(Pieces(d)) = d.frags
  BY <1>2, <1>4 DEF Pieces
<1>6. \A k \in 1 .. d.frags : Pieces(d)[k] = [sock |-> d.sock, id |-> d.id, frag |-> k]
  BY DEF Pieces
<1> QED
  BY <1>1, <1>2, <1>3, <1>5, <1>6

\* What TxTypeOK says of the variables of this module.
TxVarTypes == /\ sent \in 0 .. MaxSends
              /\ sending \in Seq(Datagram) /\ Len(sending) <= 1
              /\ tx_q \in [Sockets -> Seq(Datagram)]
              /\ \A s \in Sockets : Len(tx_q[s]) <= RingRoom
              /\ tx_mbuf_table \in Seq(Piece) /\ Len(tx_mbuf_table) <= TableSize
              /\ slot \in 0 .. NumSockets /\ step \in {"check", "drain", "leave"}
              /\ mbufs \subseteq {MbufOf(p) : p \in Piece}
              /\ wire \in Seq(Piece)
              /\ StepInSlot

LEMMA TxInitTypes == TxInit => TxVarTypes
<1> SUFFICES ASSUME TxInit PROVE TxVarTypes
  OBVIOUS
<1>1. RingRoom \in Nat /\ TableSize \in Nat /\ MaxSends \in Nat /\ NumSockets \in Nat
  BY TxAssumption, NumSocketsAssumption
<1>2. <<>> \in Seq(Datagram) /\ <<>> \in Seq(Piece) /\ Len(<<>>) = 0
  OBVIOUS
<1> QED
  BY <1>1, <1>2 DEF TxInit, TxVarTypes, StepInSlot

LEMMA SendAllocTypes ==
    ASSUME TxVarTypes, NEW s \in Sockets, NEW n \in Fragments \cup {0}, SendAlloc(s, n)
    PROVE  TxVarTypes'
<1>1. UNCHANGED <<tx_q, tx_mbuf_table, slot, step, wire>>
  BY DEF SendAlloc
<1>2. CASE UNCHANGED <<sent, sending, mbufs>>
  BY <1>1, <1>2 DEF TxVarTypes, StepInSlot
<1>3. CASE /\ sent < MaxSends /\ sent' = sent + 1
           /\ sending' = <<[sock |-> s, id |-> sent', frags |-> n]>>
           /\ mbufs' = mbufs \cup {<<sent', 0>>}
  <2>1. sent' \in 1 .. MaxSends
    BY <1>3, TxAssumption DEF TxVarTypes
  <2>2. [sock |-> s, id |-> sent', frags |-> n] \in Datagram
    BY <2>1 DEF Datagram
  <2>3. sending' \in Seq(Datagram) /\ Len(sending') <= 1
    BY <1>3, <2>2
  <2>4. <<sent', 0>> \in {MbufOf(p) : p \in Piece}
    <3>1. Whole([sock |-> s, id |-> sent', frags |-> n]) \in Piece
      BY <2>2, PiecesOf
    <3> QED
      BY <3>1 DEF Whole, MbufOf
  <2>5. mbufs' \subseteq {MbufOf(p) : p \in Piece}
    BY <1>3, <2>4 DEF TxVarTypes
  <2>6. StepInSlot'
    BY <1>1 DEF TxVarTypes, StepInSlot
  <2> QED
    BY <1>1, <2>1, <2>3, <2>5, <2>6 DEF TxVarTypes
<1> QED
  BY <1>2, <1>3 DEF SendAlloc

LEMMA SendEnqueueTypes ==
    ASSUME TxVarTypes, SendEnqueue
    PROVE  TxVarTypes'
<1> DEFINE d == Head(sending)
<1>1. /\ sending # <<>> /\ sending' = <<>> /\ EnqueueOrFree(d)
      /\ UNCHANGED <<sent, tx_mbuf_table, slot, step, wire>>
  BY DEF SendEnqueue
<1>2. d \in Datagram
  BY <1>1 DEF TxVarTypes
<1>3. d.sock \in Sockets
  BY <1>2, PiecesOf
<1>4. /\ tx_q' \in [Sockets -> Seq(Datagram)]
      /\ \A s \in Sockets : Len(tx_q'[s]) <= RingRoom
  <2> HIDE DEF d
  <2>1. CASE tx_q' = tx_q
    BY <2>1 DEF TxVarTypes
  <2>2. CASE /\ Len(tx_q[d.sock]) < RingRoom
             /\ tx_q' = [tx_q EXCEPT ![d.sock] = Append(@, d)]
    <3>1. tx_q[d.sock] \in Seq(Datagram) /\ RingRoom \in Nat
      BY <1>3, TxAssumption DEF TxVarTypes
    <3>2. /\ Append(tx_q[d.sock], d) \in Seq(Datagram)
          /\ Len(Append(tx_q[d.sock], d)) <= RingRoom
      BY <1>2, <2>2, <3>1
    <3> QED
      BY <2>2, <3>2 DEF TxVarTypes
  <2> QED
    BY <1>1, <2>1, <2>2 DEF EnqueueOrFree
<1>5. mbufs' \subseteq mbufs
  BY <1>1 DEF EnqueueOrFree
<1> QED
  BY <1>1, <1>4, <1>5 DEF TxVarTypes, StepInSlot

LEMMA DequeueTypes ==
    ASSUME TxVarTypes, Dequeue
    PROVE  TxVarTypes'
<1> DEFINE d == Head(tx_q[slot])
<1>1. /\ step = "drain" /\ ~TableFull /\ tx_q[slot] # <<>>
      /\ tx_q' = [tx_q EXCEPT ![slot] = Tail(@)]
      /\ Direct(d) \/ Fragment(d) \/ FragmentFails(d) \/ PrependFails(d)
      /\ UNCHANGED <<sent, sending, slot, wire>>
  BY DEF Dequeue
<1>2. slot \in Sockets
  BY <1>1, NumSocketsAssumption DEF TxVarTypes, StepInSlot, Sockets
<1>3. tx_q[slot] \in Seq(Datagram) /\ d \in Datagram
  BY <1>1, <1>2 DEF TxVarTypes
<1>4. /\ tx_q' \in [Sockets -> Seq(Datagram)]
      /\ \A s \in Sockets : Len(tx_q'[s]) <= RingRoom
  <2>1. /\ Tail(tx_q[slot]) \in Seq(Datagram) /\ RingRoom \in Nat
        /\ Len(Tail(tx_q[slot])) <= RingRoom
    BY <1>1, <1>2, <1>3, TxAssumption DEF TxVarTypes
  <2> QED
    BY <1>1, <1>2, <2>1 DEF TxVarTypes
<1> HIDE DEF d
<1>5. /\ Len(tx_mbuf_table) \in Nat /\ TableSize \in Nat /\ d.frags \in Nat
      /\ Len(tx_mbuf_table) + 1 <= TableSize
  <2>1. Len(tx_mbuf_table) \in Nat /\ Len(tx_mbuf_table) < BurstSize
    BY <1>1, TxAssumption DEF TxVarTypes, TableFull
  <2>2. BurstSize \in Nat \ {0} /\ TableSize \in Nat /\ 2 * BurstSize <= TableSize
    BY TxAssumption
  <2> QED
    BY <1>3, <2>1, <2>2, PiecesOf
<1>6. CASE Direct(d)
  <2>1. Append(tx_mbuf_table, Whole(d)) \in Seq(Piece)
    BY <1>3, PiecesOf DEF TxVarTypes
  <2> QED
    BY <1>1, <1>4, <1>5, <1>6, <2>1 DEF Direct, TxVarTypes, StepInSlot
<1>7. CASE Fragment(d)
  <2>1. /\ Pieces(d) \in Seq(Piece) /\ Len(Pieces(d)) = d.frags
        /\ tx_mbuf_table \in Seq(Piece)
    BY <1>3, PiecesOf DEF TxVarTypes
  <2>2. /\ tx_mbuf_table' = tx_mbuf_table \o Pieces(d)
        /\ mbufs' = (mbufs \ {<<d.id, 0>>}) \cup MbufsOf(Pieces(d))
        /\ step' = step
        /\ d.frags <= TableSize - Len(tx_mbuf_table)
    BY <1>7 DEF Fragment, Fits
  <2>3. tx_mbuf_table' \in Seq(Piece) /\ Len(tx_mbuf_table') <= TableSize
    <3> DEFINE ps == Pieces(d)
    <3> HIDE DEF ps
    <3>1. Len(tx_mbuf_table \o ps) = Len(tx_mbuf_table) + Len(ps)
          /\ tx_mbuf_table \o ps \in Seq(Piece)
      BY <2>1 DEF ps
    <3> QED
      BY <1>5, <2>1, <2>2, <3>1 DEF ps
  <2>4. MbufsOf(Pieces(d)) \subseteq {MbufOf(p) : p \in Piece}
    BY <2>1 DEF MbufsOf, Range
  <2> QED
    BY <1>1, <1>4, <2>2, <2>3, <2>4 DEF TxVarTypes, StepInSlot
<1>8. CASE FragmentFails(d) \/ PrependFails(d)
  <2>1. slot < NumSockets
    BY <1>1 DEF TxVarTypes, StepInSlot
  <2> QED
    BY <1>1, <1>4, <1>8, <2>1 DEF FragmentFails, PrependFails, TxVarTypes, StepInSlot
<1> QED
  BY <1>1, <1>6, <1>7, <1>8

LEMMA FlushTypes ==
    ASSUME TxVarTypes, flush_tx_table
    PROVE  /\ tx_mbuf_table' = <<>> /\ wire' \in Seq(Piece) /\ mbufs' \subseteq mbufs
           /\ \E k \in 0 .. Len(tx_mbuf_table) : wire' = wire \o SubSeq(tx_mbuf_table, 1, k)
<1>1. PICK k \in 0 .. Len(tx_mbuf_table) : wire' = wire \o SubSeq(tx_mbuf_table, 1, k)
  BY DEF flush_tx_table
<1>2. tx_mbuf_table' = <<>> /\ mbufs' \subseteq mbufs
  BY DEF flush_tx_table
<1>3. tx_mbuf_table \in Seq(Piece) /\ wire \in Seq(Piece)
  BY DEF TxVarTypes
<1>4. SubSeq(tx_mbuf_table, 1, k) \in Seq(Piece)
  BY <1>3
<1> QED
  BY <1>1, <1>2, <1>3, <1>4

LEMMA TxStepTypes ==
    ASSUME TxVarTypes, [TxNext]_all_vars
    PROVE  TxVarTypes'
<1>0. NumSockets \in Nat /\ TableSize \in Nat /\ <<>> \in Seq(Piece) /\ Len(<<>>) = 0
  BY NumSocketsAssumption, TxAssumption
<1>1. CASE AppCall
  BY <1>1 DEF AppCall, tx_vars, TxVarTypes, StepInSlot
<1>2. CASE \E s \in Sockets, n \in Fragments \cup {0} : SendAlloc(s, n)
  BY <1>2, SendAllocTypes
<1>3. CASE SendEnqueue
  BY <1>3, SendEnqueueTypes
<1>4. CASE CheckSlot
  BY <1>0, <1>4 DEF CheckSlot, TxVarTypes, StepInSlot
<1>5. CASE Dequeue
  BY <1>5, DequeueTypes
<1>6. CASE LeaveSlot
  <2>1. slot < NumSockets /\ slot' = slot + 1 /\ step' = "check"
    BY <1>6 DEF LeaveSlot, SlotDone, TxVarTypes, StepInSlot
  <2>2. /\ tx_mbuf_table' \in Seq(Piece) /\ Len(tx_mbuf_table') <= TableSize
        /\ wire' \in Seq(Piece) /\ mbufs' \subseteq mbufs
    <3>1. CASE flush_tx_table
      BY <1>0, <3>1, FlushTypes
    <3>2. CASE UNCHANGED <<tx_mbuf_table, mbufs, wire>>
      BY <3>2 DEF TxVarTypes
    <3> QED
      BY <1>6, <3>1, <3>2 DEF LeaveSlot
  <2> QED
    BY <1>0, <1>6, <2>1, <2>2 DEF LeaveSlot, TxVarTypes, StepInSlot
<1>7. CASE EndRound
  <2>1. /\ tx_mbuf_table' \in Seq(Piece) /\ Len(tx_mbuf_table') <= TableSize
        /\ wire' \in Seq(Piece) /\ mbufs' \subseteq mbufs
    BY <1>0, <1>7, FlushTypes DEF EndRound
  <2> QED
    BY <1>0, <1>7, <2>1 DEF EndRound, TxVarTypes, StepInSlot
<1>8. CASE UNCHANGED all_vars
  BY <1>8 DEF all_vars, tx_vars, TxVarTypes, StepInSlot
<1> QED
  BY <1>1, <1>2, <1>3, <1>4, <1>5, <1>6, <1>7, <1>8 DEF TxNext, Poller

\* The table of mbufs never has more entries than TX_MBUF_TABLE_SIZE, and a ring
\* never more than it has room for, whatever the numbers of fragments.
THEOREM TxTypeCorrect == TxSpec => []TxTypeOK
<1>1. TxSpec => []TxVarTypes
  BY TxInitTypes, TxStepTypes, PTL DEF TxSpec
<1>2. TypeOK /\ TxVarTypes => TxTypeOK
  BY DEF TxVarTypes, TxTypeOK
<1> QED
  BY <1>1, <1>2, SocketsInTxPath, TypeCorrect, PTL

-----------------------------------------------------------------------------
(* The order of what is sent. *)

\* Datagram i of socket s is in sendto(), in the ring or in the line.
Known(i, s) == \/ sending # <<>> /\ Head(sending).id = i /\ Head(sending).sock = s
               \/ \E k \in DOMAIN tx_q[s] : tx_q[s][k].id = i
               \/ \E k \in DOMAIN Line : Line[k].id = i /\ Line[k].sock = s

OneSender == \A i \in 1 .. MaxSends, s, t \in Sockets : Known(i, s) /\ Known(i, t) => s = t

RingOfSocket == \A s \in Sockets : \A k \in DOMAIN tx_q[s] : tx_q[s][k].sock = s

\* Nothing is newer than the sendto() in progress, and that is not in the ring.
NewestSent ==
    /\ sending # <<>> => Head(sending).id <= sent
    /\ \A s \in Sockets : \A k \in DOMAIN tx_q[s] :
          tx_q[s][k].id <= sent /\ (sending # <<>> => tx_q[s][k].id < Head(sending).id)
    /\ \A k \in DOMAIN Line :
          Line[k].id <= sent /\ (sending # <<>> => Line[k].id < Head(sending).id)

OrderInv == OneSender /\ RingOfSocket /\ NewestSent /\ SentInOrder

LEMMA LineType ==
    ASSUME TxVarTypes
    PROVE  /\ Line \in Seq(Piece) /\ Len(Line) \in Nat /\ DOMAIN Line = 1 .. Len(Line)
           /\ \A k \in DOMAIN Line : /\ Line[k].sock \in Sockets /\ Line[k].id \in 1 .. MaxSends
                                     /\ Line[k].frag \in Nat
<1>1. wire \in Seq(Piece) /\ tx_mbuf_table \in Seq(Piece)
  BY DEF TxVarTypes
<1>2. Line \in Seq(Piece)
  BY <1>1 DEF Line
<1>3. Len(Line) \in Nat /\ DOMAIN Line = 1 .. Len(Line)
  BY <1>2
<1>4. \A k \in DOMAIN Line : Line[k] \in Piece
  BY <1>2
<1> QED
  BY <1>2, <1>3, <1>4, PieceType

LEMMA RingType ==
    ASSUME TxVarTypes, NEW s \in Sockets
    PROVE  /\ tx_q[s] \in Seq(Datagram) /\ Len(tx_q[s]) \in Nat
           /\ DOMAIN tx_q[s] = 1 .. Len(tx_q[s])
           /\ \A k \in DOMAIN tx_q[s] : /\ tx_q[s][k] \in Datagram
                                        /\ tx_q[s][k].sock \in Sockets
                                        /\ tx_q[s][k].id \in 1 .. MaxSends
<1>1. tx_q[s] \in Seq(Datagram)
  BY DEF TxVarTypes
<1>2. Len(tx_q[s]) \in Nat /\ DOMAIN tx_q[s] = 1 .. Len(tx_q[s])
  BY <1>1
<1>3. \A k \in DOMAIN tx_q[s] : tx_q[s][k] \in Datagram
  BY <1>1
<1> QED
  BY <1>1, <1>2, <1>3, PiecesOf

LEMMA SendingType ==
    ASSUME TxVarTypes, sending # <<>>
    PROVE  /\ Head(sending) \in Datagram /\ Range(sending) = {Head(sending)}
           /\ Head(sending).sock \in Sockets /\ Head(sending).id \in 1 .. MaxSends
<1>1. sending \in Seq(Datagram) /\ Len(sending) <= 1
  BY DEF TxVarTypes
<1>2. Len(sending) = 1
  BY <1>1, EmptySeq
<1>4. DOMAIN sending = 1 .. 1 /\ Head(sending) = sending[1]
  BY <1>1, <1>2
<1>5. Head(sending) \in Datagram
  BY <1>1, <1>4
<1>3. Range(sending) = {Head(sending)}
  BY <1>4 DEF Range
<1> QED
  BY <1>3, <1>5, PiecesOf

\* What Line becomes when the pieces X are put in the table.
LEMMA LineExtended ==
    ASSUME TxVarTypes, NEW X \in Seq(Piece), wire' = wire, tx_mbuf_table' = tx_mbuf_table \o X
    PROVE  /\ Len(Line') = Len(Line) + Len(X) /\ DOMAIN Line' = 1 .. Len(Line) + Len(X)
           /\ \A j \in 1 .. Len(Line) : Line'[j] = Line[j]
           /\ \A k \in 1 .. Len(X) : Line'[Len(Line) + k] = X[k]
<1>1. wire \in Seq(Piece) /\ tx_mbuf_table \in Seq(Piece)
  BY DEF TxVarTypes
<1> DEFINE t == tx_mbuf_table
           L == wire \o t
           M == wire \o (t \o X)
<1>2. /\ Len(t \o X) = Len(t) + Len(X) /\ t \o X \in Seq(Piece)
      /\ \A k \in 1 .. Len(t) : (t \o X)[k] = t[k]
      /\ \A k \in 1 .. Len(X) : (t \o X)[Len(t) + k] = X[k]
  BY <1>1
<1>3. /\ Len(L) = Len(wire) + Len(t) /\ L \in Seq(Piece)
      /\ \A k \in 1 .. Len(wire) : L[k] = wire[k]
      /\ \A k \in 1 .. Len(t) : L[Len(wire) + k] = t[k]
  BY <1>1
<1> DEFINE y == t \o X
<1> HIDE DEF y
<1>4. /\ Len(M) = Len(wire) + Len(y) /\ M \in Seq(Piece)
      /\ \A k \in 1 .. Len(wire) : M[k] = wire[k]
      /\ \A k \in 1 .. Len(y) : M[Len(wire) + k] = y[k]
  BY <1>1, <1>2 DEF y
<1>5. Len(wire) \in Nat /\ Len(t) \in Nat /\ Len(X) \in Nat
  BY <1>1
<1> DEFINE w == Len(wire)
           n == Len(t)
           z == Len(X)
<1>6. Line = L /\ Line' = M
  BY DEF Line
<1>7. Len(M) = Len(L) + z /\ DOMAIN M = 1 .. Len(L) + z
  <2>1. Len(M) = Len(L) + z
    BY <1>2, <1>3, <1>4, <1>5 DEF y
  <2> QED
    BY <1>4, <2>1
<1> HIDE DEF L, M
<1>8. \A j \in 1 .. Len(L) : M[j] = L[j]
  <2> SUFFICES ASSUME NEW j \in 1 .. w + n PROVE M[j] = L[j]
    BY <1>3
  <2>1. CASE j <= w
    BY <1>3, <1>4, <1>5, <2>1
  <2>2. CASE j > w
    <3>1. j - w \in 1 .. n /\ j = w + (j - w)
      BY <1>5, <2>2
    <3>2. M[w + (j - w)] = y[j - w]
      <4>1. j - w \in 1 .. Len(y)
        BY <1>2, <1>5, <3>1 DEF y
      <4> QED
        BY <1>4, <4>1
    <3>3. L[w + (j - w)] = t[j - w]
      BY <1>3, <3>1
    <3>4. y[j - w] = t[j - w]
      BY <1>2, <3>1 DEF y
    <3> QED
      BY <3>1, <3>2, <3>3, <3>4
  <2> QED
    BY <1>5, <2>1, <2>2
<1>9. \A k \in 1 .. z : M[Len(L) + k] = X[k]
  <2> TAKE k \in 1 .. z
  <2>1. n + k \in 1 .. Len(y)
    BY <1>2, <1>5 DEF y
  <2>2. M[w + (n + k)] = y[n + k]
    BY <1>4, <2>1
  <2>3. y[n + k] = X[k]
    BY <1>2 DEF y
  <2>4. Len(L) + k = w + (n + k)
    BY <1>3, <1>5
  <2> QED
    BY <2>2, <2>3, <2>4
<1> QED
  BY <1>6, <1>7, <1>8, <1>9

\* The NIC takes a prefix of the table, the rest of it is dropped.
LEMMA LineCut ==
    ASSUME TxVarTypes, NEW k \in 0 .. Len(tx_mbuf_table),
           wire' = wire \o SubSeq(tx_mbuf_table, 1, k), tx_mbuf_table' = <<>>
    PROVE  \A j \in DOMAIN Line' : j \in DOMAIN Line /\ Line'[j] = Line[j]
<1> DEFINE t == tx_mbuf_table
           u == SubSeq(t, 1, k)
<1>1. /\ wire \in Seq(Piece) /\ t \in Seq(Piece)
      /\ Len(wire) \in Nat /\ Len(t) \in Nat /\ k \in Nat /\ k <= Len(t)
  BY DEF TxVarTypes
<1>2. u \in Seq(Piece) /\ Len(u) = k /\ \A j \in 1 .. k : u[j] = t[j]
  BY <1>1
<1> HIDE DEF u
<1>3. wire \o u \in Seq(Piece) /\ (wire \o u) \o <<>> = wire \o u
  BY <1>1, <1>2
<1>4. Line' = wire \o u
  BY <1>3 DEF Line, u
<1>5. /\ DOMAIN (wire \o u) = 1 .. Len(wire) + k
      /\ \A j \in 1 .. Len(wire) + k :
            (wire \o u)[j] = IF j <= Len(wire) THEN wire[j] ELSE u[j - Len(wire)]
  BY <1>1, <1>2
<1>6. /\ DOMAIN (wire \o t) = 1 .. Len(wire) + Len(t)
      /\ \A j \in 1 .. Len(wire) + Len(t) :
            (wire \o t)[j] = IF j <= Len(wire) THEN wire[j] ELSE t[j - Len(wire)]
  BY <1>1
<1> SUFFICES ASSUME NEW j \in 1 .. Len(wire) + k
             PROVE  j \in 1 .. Len(wire) + Len(t) /\ (wire \o u)[j] = (wire \o t)[j]
  BY <1>4, <1>5, <1>6 DEF Line
<1>7. j \in 1 .. Len(wire) + Len(t)
  BY <1>1
<1>8. j > Len(wire) => j - Len(wire) \in 1 .. k
  BY <1>1
<1> QED
  BY <1>2, <1>5, <1>6, <1>7, <1>8

\* What the tail of a ring holds.
LEMMA RingCut ==
    ASSUME TxVarTypes, slot \in Sockets, tx_q[slot] # <<>>,
           tx_q' = [tx_q EXCEPT ![slot] = Tail(@)]
    PROVE  /\ 1 \in DOMAIN tx_q[slot] /\ Head(tx_q[slot]) = tx_q[slot][1]
           /\ \A s \in Sockets : s # slot => tx_q'[s] = tx_q[s]
           /\ \A k \in DOMAIN tx_q'[slot] : /\ k + 1 \in DOMAIN tx_q[slot] /\ k \in Nat \ {0}
                                            /\ tx_q'[slot][k] = tx_q[slot][k + 1]
<1>1. tx_q[slot] \in Seq(Datagram) /\ tx_q \in [Sockets -> Seq(Datagram)]
  BY DEF TxVarTypes
<1>2. tx_q'[slot] = Tail(tx_q[slot]) /\ \A s \in Sockets : s # slot => tx_q'[s] = tx_q[s]
  BY <1>1
<1>3. Len(tx_q[slot]) \in Nat \ {0}
  BY <1>1
<1> QED
  BY <1>1, <1>2, <1>3

LEMMA FlushOrder ==
    ASSUME TxVarTypes, OrderInv, UNCHANGED <<sent, sending, tx_q>>,
           \A j \in DOMAIN Line' : j \in DOMAIN Line /\ Line'[j] = Line[j]
    PROVE  OrderInv'
<1>1. \A i, s : Known(i, s)' => Known(i, s)
  BY DEF Known
<1>2. OneSender'
  BY <1>1 DEF OrderInv, OneSender
<1>3. RingOfSocket'
  BY DEF OrderInv, RingOfSocket
<1>4. NewestSent'
  BY DEF OrderInv, NewestSent
<1>5. SentInOrder'
  BY DEF OrderInv, SentInOrder, Before
<1> QED
  BY <1>2, <1>3, <1>4, <1>5 DEF OrderInv

LEMMA SendAllocOrder ==
    ASSUME TxVarTypes, OrderInv, NEW s \in Sockets, NEW n \in Fragments \cup {0}, SendAlloc(s, n)
    PROVE  OrderInv'
<1>1. UNCHANGED <<tx_q, tx_mbuf_table, wire>> /\ sending = <<>> /\ Line' = Line
  BY DEF SendAlloc, Line
<1>2. CASE UNCHANGED <<sent, sending, mbufs>>
  <2> QED
    BY <1>1, <1>2, FlushOrder
<1>3. CASE /\ sent < MaxSends /\ sent' = sent + 1
           /\ sending' = <<[sock |-> s, id |-> sent', frags |-> n]>>
  <2>1. sending' # <<>> /\ Head(sending').id = sent' /\ Head(sending').sock = s
    BY <1>3
  <2>2. sent \in Nat /\ sent' \in Nat /\ sent < sent'
    BY <1>3 DEF TxVarTypes
  <2>3. \A t \in Sockets : \A k \in DOMAIN tx_q[t] : tx_q[t][k].id < sent' /\ tx_q[t][k].id <= sent'
    BY <2>2, RingType DEF OrderInv, NewestSent
  <2>4. \A k \in DOMAIN Line : Line[k].id < sent' /\ Line[k].id <= sent'
    BY <2>2, LineType DEF OrderInv, NewestSent
  <2>5. NewestSent'
    <3> HIDE <1>3
    <3> QED
      BY <1>1, <2>1, <2>2, <2>3, <2>4 DEF NewestSent
  <2>6. OneSender'
    <3> SUFFICES ASSUME NEW i \in 1 .. MaxSends, NEW t \in Sockets, NEW u \in Sockets,
                        Known(i, t)', Known(i, u)'
                 PROVE  t = u
      BY DEF OneSender
    <3>1. CASE i = sent'
      BY <1>1, <2>1, <2>2, <2>3, <2>4, <3>1 DEF Known
    <3>2. CASE i # sent'
      <4>1. Known(i, t) /\ Known(i, u)
        BY <1>1, <2>1, <3>2 DEF Known
      <4> QED
        BY <4>1 DEF OrderInv, OneSender
    <3> QED
      BY <3>1, <3>2
  <2> QED
    BY <1>1, <2>5, <2>6 DEF OrderInv, RingOfSocket, SentInOrder, Before
<1> QED
  BY <1>2, <1>3 DEF SendAlloc

LEMMA SendEnqueueOrder ==
    ASSUME TxVarTypes, OrderInv, SendEnqueue
    PROVE  OrderInv'
<1> DEFINE d == Head(sending)
           q == tx_q[d.sock]
<1>1. /\ sending # <<>> /\ sending' = <<>> /\ EnqueueOrFree(d)
      /\ UNCHANGED <<sent, tx_mbuf_table, wire>> /\ Line' = Line
  BY DEF SendEnqueue, Line
<1>2. d \in Datagram /\ d.sock \in Sockets /\ d.id \in 1 .. MaxSends
  BY <1>1, SendingType
<1>3. d.id <= sent /\ Known(d.id, d.sock)
  BY <1>1 DEF OrderInv, NewestSent, Known
<1>4. \A s \in Sockets : \A k \in DOMAIN tx_q[s] : tx_q[s][k].id < d.id
  BY <1>1 DEF OrderInv, NewestSent
<1>5. \A k \in DOMAIN Line : Line[k].id < d.id
  BY <1>1 DEF OrderInv, NewestSent
<1>6. CASE UNCHANGED tx_q
  <2>1. \A i, s : Known(i, s)' => Known(i, s)
    BY <1>1, <1>6 DEF Known
  <2> QED
    BY <1>1, <1>6, <2>1 DEF OrderInv, OneSender, RingOfSocket, NewestSent, SentInOrder, Before
<1>7. CASE tx_q' = [tx_q EXCEPT ![d.sock] = Append(@, d)]
  <2>1. q \in Seq(Datagram) /\ Len(q) \in Nat /\ DOMAIN q = 1 .. Len(q)
    BY <1>2, RingType
  <2> HIDE DEF d
  <2>2. \A s \in Sockets : s # d.sock => tx_q'[s] = tx_q[s]
    BY <1>7 DEF TxVarTypes
  <2>3. /\ DOMAIN tx_q'[d.sock] = 1 .. Len(q) + 1
        /\ tx_q'[d.sock][Len(q) + 1] = d
        /\ \A k \in 1 .. Len(q) : tx_q'[d.sock][k] = q[k]
    <3>1. tx_q'[d.sock] = Append(q, d)
      BY <1>2, <1>7 DEF TxVarTypes
    <3> QED
      BY <1>2, <2>1, <3>1
  <2>4. \A s \in Sockets : \A k \in DOMAIN tx_q'[s] :
           \/ k \in DOMAIN tx_q[s] /\ tx_q'[s][k] = tx_q[s][k]
           \/ s = d.sock /\ k = Len(q) + 1 /\ tx_q'[s][k] = d
    BY <2>1, <2>2, <2>3
  <2> HIDE DEF q
  <2>5. \A i, s : s \in Sockets /\ Known(i, s)' => Known(i, s)
    BY <1>1, <1>3, <2>4 DEF Known
  <2>6. OneSender'
    BY <2>5 DEF OrderInv, OneSender
  <2>7. RingOfSocket'
    BY <2>4 DEF OrderInv, RingOfSocket
  <2>8. NewestSent'
    BY <1>1, <1>3, <2>4 DEF OrderInv, NewestSent
  <2>9. SentInOrder'
    <3>1. ASSUME NEW s \in Sockets, NEW k \in DOMAIN tx_q'[s], NEW j \in DOMAIN Line, Line[j].sock = s
          PROVE  Line[j].id < tx_q'[s][k].id
      BY <1>5, <2>4, <3>1 DEF OrderInv, SentInOrder
    <3>2. ASSUME NEW s \in Sockets, NEW k \in DOMAIN tx_q'[s], NEW j \in 1 .. k - 1
          PROVE  tx_q'[s][j].id < tx_q'[s][k].id
      <4>1. CASE k \in DOMAIN tx_q[s] /\ tx_q'[s][k] = tx_q[s][k]
        <5>1. DOMAIN tx_q[s] = 1 .. Len(tx_q[s]) /\ Len(tx_q[s]) \in Nat
          BY RingType
        <5>2. j \in DOMAIN tx_q[s] /\ tx_q'[s][j] = tx_q[s][j]
          BY <2>1, <2>2, <2>3, <4>1, <5>1 DEF q
        <5> QED
          BY <4>1, <5>2 DEF OrderInv, SentInOrder
      <4>2. CASE s = d.sock /\ k = Len(q) + 1 /\ tx_q'[s][k] = d
        <5>1. j \in 1 .. Len(q) /\ tx_q'[s][j] = q[j]
          BY <2>1, <2>3, <4>2
        <5> QED
          BY <1>2, <1>4, <2>1, <4>2, <5>1 DEF q
      <4> QED
        BY <2>4, <4>1, <4>2
    <3>3. \A i, j \in DOMAIN Line' :
             i < j /\ Line'[i].sock = Line'[j].sock => Before(Line'[i], Line'[j])
      BY <1>1 DEF OrderInv, SentInOrder, Before
    <3> QED
      BY <1>1, <3>1, <3>2, <3>3 DEF SentInOrder, Before
  <2> QED
    BY <2>6, <2>7, <2>8, <2>9 DEF OrderInv
<1> QED
  BY <1>1, <1>6, <1>7 DEF EnqueueOrFree

\* What a dequeue puts in the table: pieces of the datagram, in order.
LEMMA DequeuedPieces ==
    ASSUME TxVarTypes, RingOfSocket, Dequeue
    PROVE  /\ slot \in Sockets /\ tx_q[slot] # <<>> /\ Head(tx_q[slot]) \in Datagram
           /\ Head(tx_q[slot]).sock = slot
           /\ \E X \in Seq(Piece) :
                 /\ tx_mbuf_table' = tx_mbuf_table \o X
                 /\ \A k \in 1 .. Len(X) : X[k].sock = slot /\ X[k].id = Head(tx_q[slot]).id
                 /\ \A i, k \in 1 .. Len(X) : i < k => X[i].frag < X[k].frag
<1> DEFINE d == Head(tx_q[slot])
           Good(X) == /\ tx_mbuf_table' = tx_mbuf_table \o X
                      /\ \A k \in 1 .. Len(X) : X[k].sock = slot /\ X[k].id = d.id
                      /\ \A i, k \in 1 .. Len(X) : i < k => X[i].frag < X[k].frag
<1>1. /\ step = "drain" /\ tx_q[slot] # <<>>
      /\ tx_q' = [tx_q EXCEPT ![slot] = Tail(@)]
      /\ Direct(d) \/ Fragment(d) \/ FragmentFails(d) \/ PrependFails(d)
  BY DEF Dequeue
<1>2. slot \in Sockets
  BY <1>1, NumSocketsAssumption DEF TxVarTypes, StepInSlot, Sockets
<1>3. d \in Datagram /\ d.sock = slot
  BY <1>1, <1>2, RingCut, RingType DEF RingOfSocket
<1>4. tx_mbuf_table \in Seq(Piece)
  BY DEF TxVarTypes
<1> HIDE DEF d
<1>5. CASE Direct(d)
  <2> DEFINE X == <<Whole(d)>>
  <2>1. X \in Seq(Piece) /\ Len(X) = 1 /\ X[1] = Whole(d)
    BY <1>3, PiecesOf
  <2>2. tx_mbuf_table' = tx_mbuf_table \o X
    BY <1>3, <1>4, <1>5, PiecesOf, AppendIsConcat DEF Direct
  <2>3. Whole(d).sock = slot /\ Whole(d).id = d.id
    BY <1>3 DEF Whole
  <2> HIDE DEF X
  <2>4. Good(X)
    BY <2>1, <2>2, <2>3
  <2> QED
    BY <1>1, <1>2, <1>3, <2>1, <2>4 DEF d
<1>6. CASE Fragment(d)
  <2> DEFINE X == Pieces(d)
  <2>1. X \in Seq(Piece) /\ Len(X) = d.frags /\ d.frags \in Nat
    BY <1>3, PiecesOf
  <2>2. \A k \in 1 .. d.frags : X[k].sock = slot /\ X[k].id = d.id /\ X[k].frag = k
    <3>1. \A k \in 1 .. d.frags : X[k] = [sock |-> d.sock, id |-> d.id, frag |-> k]
      BY <1>3, PiecesOf
    <3> HIDE DEF X
    <3> TAKE k \in 1 .. d.frags
    <3>2. X[k] = [sock |-> d.sock, id |-> d.id, frag |-> k]
      BY <3>1
    <3> QED
      BY <1>3, <3>2
  <2>3. tx_mbuf_table' = tx_mbuf_table \o X
    BY <1>6 DEF Fragment
  <2> HIDE DEF X
  <2>4. Good(X)
    BY <2>1, <2>2, <2>3
  <2> QED
    BY <1>1, <1>2, <1>3, <2>1, <2>4 DEF d
<1>7. CASE FragmentFails(d) \/ PrependFails(d)
  <2>1. <<>> \in Seq(Piece) /\ Len(<<>>) = 0
    OBVIOUS
  <2>2. tx_mbuf_table' = tx_mbuf_table \o <<>>
    BY <1>4, <1>7, ConcatEmptySeq DEF FragmentFails, PrependFails
  <2>3. Good(<<>>)
    BY <2>1, <2>2
  <2> QED
    BY <1>1, <1>2, <1>3, <2>1, <2>3 DEF d
<1> QED
  BY <1>1, <1>5, <1>6, <1>7

LEMMA DequeueOrder ==
    ASSUME TxVarTypes, OrderInv, Dequeue
    PROVE  OrderInv'
<1> DEFINE d == Head(tx_q[slot])
<1>1. /\ UNCHANGED <<sent, sending, slot, wire>>
      /\ tx_q' = [tx_q EXCEPT ![slot] = Tail(@)]
  BY DEF Dequeue
<1>2. slot \in Sockets /\ tx_q[slot] # <<>> /\ d \in Datagram /\ d.sock = slot
  BY DequeuedPieces DEF OrderInv
<1>3. PICK X \in Seq(Piece) :
         /\ tx_mbuf_table' = tx_mbuf_table \o X
         /\ \A k \in 1 .. Len(X) : X[k].sock = slot /\ X[k].id = d.id
         /\ \A i, k \in 1 .. Len(X) : i < k => X[i].frag < X[k].frag
  BY DequeuedPieces DEF OrderInv
<1>4. /\ 1 \in DOMAIN tx_q[slot] /\ d = tx_q[slot][1]
      /\ \A s \in Sockets : s # slot => tx_q'[s] = tx_q[s]
      /\ \A k \in DOMAIN tx_q'[slot] : /\ k + 1 \in DOMAIN tx_q[slot] /\ k \in Nat \ {0}
                                       /\ tx_q'[slot][k] = tx_q[slot][k + 1]
  BY <1>1, <1>2, RingCut
<1> DEFINE n == Len(Line)
<1>5. /\ n \in Nat /\ Len(X) \in Nat /\ DOMAIN Line = 1 .. n /\ DOMAIN Line' = 1 .. n + Len(X)
      /\ \A j \in 1 .. n : Line'[j] = Line[j]
      /\ \A k \in 1 .. Len(X) : Line'[n + k] = X[k]
  BY <1>1, <1>3, LineExtended, LineType
<1>6. \A j \in DOMAIN Line' : \/ j \in DOMAIN Line /\ Line'[j] = Line[j]
                              \/ /\ j > n /\ j - n \in 1 .. Len(X) /\ Line'[j] = X[j - n]
                                 /\ Line'[j].sock = slot /\ Line'[j].id = d.id
  <2> TAKE j \in DOMAIN Line'
  <2>1. CASE j <= n
    BY <1>5, <2>1
  <2>2. CASE j > n
    <3>1. j - n \in 1 .. Len(X) /\ j = n + (j - n)
      BY <1>5, <2>2
    <3>2. Line'[n + (j - n)] = X[j - n]
      BY <1>5, <3>1
    <3> QED
      BY <1>3, <2>2, <3>1, <3>2
  <2> QED
    BY <1>5, <2>1, <2>2
<1>7. \A s \in Sockets : \A k \in DOMAIN tx_q'[s] :
         \E j \in DOMAIN tx_q[s] : tx_q'[s][k] = tx_q[s][j]
  BY <1>4
<1>8. Known(d.id, slot)
  BY <1>4 DEF Known
<1> HIDE DEF d
<1>9. \A i, s : s \in Sockets /\ Known(i, s)' => Known(i, s)
  <2> SUFFICES ASSUME NEW i, NEW s \in Sockets, Known(i, s)' PROVE Known(i, s)
    OBVIOUS
  <2>1. CASE sending' # <<>> /\ Head(sending').id = i /\ Head(sending').sock = s
    BY <1>1, <2>1 DEF Known
  <2>2. CASE \E k \in DOMAIN tx_q'[s] : tx_q'[s][k].id = i
    BY <1>7, <2>2 DEF Known
  <2>3. CASE \E k \in DOMAIN Line' : Line'[k].id = i /\ Line'[k].sock = s
    BY <1>6, <1>8, <2>3 DEF Known
  <2> QED
    BY <2>1, <2>2, <2>3 DEF Known
<1>10. OneSender'
  BY <1>9 DEF OrderInv, OneSender
<1>11. RingOfSocket'
  BY <1>7 DEF OrderInv, RingOfSocket
<1>12. NewestSent'
  <2>1. d.id <= sent /\ (sending # <<>> => d.id < Head(sending).id)
    BY <1>2, <1>4 DEF OrderInv, NewestSent
  <2>2. \A s \in Sockets : \A k \in DOMAIN tx_q'[s] :
           tx_q'[s][k].id <= sent /\ (sending # <<>> => tx_q'[s][k].id < Head(sending).id)
    BY <1>7 DEF OrderInv, NewestSent
  <2>3. \A k \in DOMAIN Line' :
           Line'[k].id <= sent /\ (sending # <<>> => Line'[k].id < Head(sending).id)
    BY <1>6, <2>1 DEF OrderInv, NewestSent
  <2>4. sending # <<>> => Head(sending).id <= sent
    BY DEF OrderInv, NewestSent
  <2> QED
    BY <1>1, <2>2, <2>3, <2>4 DEF NewestSent
<1>13. SentInOrder'
  <2>1. \A j \in DOMAIN Line : Line[j].sock = slot => Line[j].id < d.id
    BY <1>2, <1>4 DEF OrderInv, SentInOrder
  <2>2. ASSUME NEW i \in DOMAIN Line', NEW j \in DOMAIN Line', i < j, Line'[i].sock = Line'[j].sock
        PROVE  Before(Line'[i], Line'[j])
    <3>1. CASE j \in DOMAIN Line /\ Line'[j] = Line[j]
      <4>1. i \in DOMAIN Line /\ Line'[i] = Line[i]
        BY <1>5, <2>2, <3>1
      <4> QED
        BY <2>2, <3>1, <4>1 DEF OrderInv, SentInOrder
    <3>2. CASE /\ j > n /\ j - n \in 1 .. Len(X) /\ Line'[j] = X[j - n]
               /\ Line'[j].sock = slot /\ Line'[j].id = d.id
      <4>1. CASE i \in DOMAIN Line /\ Line'[i] = Line[i]
        BY <2>1, <2>2, <3>2, <4>1 DEF Before
      <4>2. CASE /\ i > n /\ i - n \in 1 .. Len(X) /\ Line'[i] = X[i - n]
                 /\ Line'[i].sock = slot /\ Line'[i].id = d.id
        <5>1. i - n < j - n
          BY <1>5, <2>2
        <5> QED
          BY <1>3, <3>2, <4>2, <5>1 DEF Before
      <4> QED
        BY <1>6, <4>1, <4>2
    <3> QED
      BY <1>6, <3>1, <3>2
  <2>3. ASSUME NEW s \in Sockets, NEW k \in DOMAIN tx_q'[s], NEW j \in DOMAIN Line',
               Line'[j].sock = s
        PROVE  Line'[j].id < tx_q'[s][k].id
    <3>1. CASE j \in DOMAIN Line /\ Line'[j] = Line[j]
      BY <1>7, <2>3, <3>1 DEF OrderInv, SentInOrder
    <3>2. CASE Line'[j].sock = slot /\ Line'[j].id = d.id
      <4>1. s = slot /\ k + 1 \in DOMAIN tx_q[slot] /\ tx_q'[s][k] = tx_q[slot][k + 1]
            /\ 1 \in 1 .. (k + 1) - 1
        BY <1>4, <2>3, <3>2
      <4>2. tx_q[slot][1].id < tx_q[slot][k + 1].id
        BY <1>2, <4>1 DEF OrderInv, SentInOrder
      <4> QED
        BY <1>4, <3>2, <4>1, <4>2
    <3> QED
      BY <1>6, <3>1, <3>2
  <2>4. ASSUME NEW s \in Sockets, NEW k \in DOMAIN tx_q'[s], NEW j \in 1 .. k - 1
        PROVE  tx_q'[s][j].id < tx_q'[s][k].id
    <3>1. CASE s # slot
      BY <1>4, <3>1 DEF OrderInv, SentInOrder
    <3>2. CASE s = slot
      <4>1. tx_q'[slot] \in Seq(Datagram)
        BY <1>2, DequeueTypes DEF TxVarTypes
      <4>2. DOMAIN tx_q'[slot] = 1 .. Len(tx_q'[slot]) /\ Len(tx_q'[slot]) \in Nat
        BY <4>1
      <4>3. j \in DOMAIN tx_q'[slot] /\ k \in DOMAIN tx_q'[slot] /\ j + 1 \in 1 .. (k + 1) - 1
        BY <3>2, <4>2
      <4>4. tx_q[slot][j + 1].id < tx_q[slot][k + 1].id
        BY <1>2, <1>4, <4>3 DEF OrderInv, SentInOrder
      <4> QED
        BY <1>4, <3>2, <4>3, <4>4
    <3> QED
      BY <3>1, <3>2
  <2> QED
    BY <2>2, <2>3, <2>4 DEF SentInOrder, Before
<1> QED
  BY <1>10, <1>11, <1>12, <1>13 DEF OrderInv

LEMMA TxInitOrder == TxInit => OrderInv
<1> SUFFICES ASSUME TxInit PROVE OrderInv
  OBVIOUS
<1>1. Line = <<>>
  BY DEF TxInit, Line
<1>2. \A k : k \notin DOMAIN Line /\ \A s \in Sockets : k \notin DOMAIN tx_q[s]
  BY <1>1 DEF TxInit
<1>3. sending = <<>>
  BY DEF TxInit
<1> QED
  BY <1>2, <1>3 DEF OrderInv, OneSender, Known, RingOfSocket, NewestSent, SentInOrder

LEMMA TxStepOrder ==
    ASSUME TxVarTypes, OrderInv, [TxNext]_all_vars
    PROVE  OrderInv'
<1>1. CASE UNCHANGED <<sent, sending, tx_q, tx_mbuf_table, wire>>
  <2>1. Line' = Line
    BY <1>1 DEF Line
  <2> QED
    BY <1>1, <2>1, FlushOrder
<1>2. CASE AppCall \/ CheckSlot \/ UNCHANGED all_vars
  BY <1>1, <1>2 DEF AppCall, CheckSlot, all_vars, tx_vars
<1>3. CASE \E s \in Sockets, n \in Fragments \cup {0} : SendAlloc(s, n)
  BY <1>3, SendAllocOrder
<1>4. CASE SendEnqueue
  BY <1>4, SendEnqueueOrder
<1>5. CASE Dequeue
  BY <1>5, DequeueOrder
<1>6. ASSUME flush_tx_table, UNCHANGED <<sent, sending, tx_q>>
      PROVE  OrderInv'
  BY <1>6, FlushTypes, LineCut, FlushOrder
<1>7. CASE LeaveSlot
  BY <1>1, <1>6, <1>7 DEF LeaveSlot
<1>8. CASE EndRound
  BY <1>6, <1>8 DEF EndRound
<1> QED
  BY <1>2, <1>3, <1>4, <1>5, <1>7, <1>8 DEF TxNext, Poller

\* The datagrams of a socket leave in the order of its sendto() calls, each once,
\* and the fragments of each in their order, whatever the rings, the allocator
\* and the NIC drop on the way and however the poller's steps fall between the
\* two steps of sendto().
THEOREM SentInOrderAlways == TxSpec => []SentInOrder
<1>1. TxInit => TxVarTypes /\ OrderInv
  BY TxInitTypes, TxInitOrder
<1>2. TxVarTypes /\ OrderInv /\ [TxNext]_all_vars => TxVarTypes' /\ OrderInv'
  BY TxStepTypes, TxStepOrder
<1>3. OrderInv => SentInOrder
  BY DEF OrderInv
<1> QED
  BY <1>1, <1>2, <1>3, PTL DEF TxSpec

-----------------------------------------------------------------------------
(* The mbufs. *)

\* An id is in one place only: sendto(), one place of one ring, or the table.
LEMMA IdsApart ==
    ASSUME TxVarTypes, OrderInv
    PROVE  /\ sending # <<>> =>
                 /\ \A s \in Sockets : \A k \in DOMAIN tx_q[s] : tx_q[s][k].id # Head(sending).id
                 /\ \A k \in DOMAIN tx_mbuf_table : tx_mbuf_table[k].id # Head(sending).id
           /\ \A s \in Sockets : \A k \in DOMAIN tx_q[s] :
                 \A j \in DOMAIN tx_mbuf_table : tx_q[s][k].id # tx_mbuf_table[j].id
           /\ \A s, t \in Sockets : \A k \in DOMAIN tx_q[s], j \in DOMAIN tx_q[t] :
                 tx_q[s][k].id = tx_q[t][j].id => s = t /\ k = j
<1>1. \A j \in DOMAIN tx_mbuf_table : \E i \in DOMAIN Line : Line[i] = tx_mbuf_table[j]
  <2> DEFINE w == wire
             t == tx_mbuf_table
  <2>1. /\ Len(w) \in Nat /\ Len(t) \in Nat /\ DOMAIN t = 1 .. Len(t)
        /\ DOMAIN Line = 1 .. Len(w) + Len(t)
        /\ \A j \in 1 .. Len(t) : Line[Len(w) + j] = t[j]
    BY DEF TxVarTypes, Line
  <2> HIDE DEF w, t
  <2>2. \A j \in 1 .. Len(t) : Len(w) + j \in DOMAIN Line
    BY <2>1
  <2>3. \A j \in DOMAIN t : \E i \in DOMAIN Line : Line[i] = t[j]
    BY <2>1, <2>2
  <2> QED
    BY <2>3 DEF t
<1>2. ASSUME sending # <<>>
      PROVE  /\ \A s \in Sockets : \A k \in DOMAIN tx_q[s] : tx_q[s][k].id # Head(sending).id
             /\ \A k \in DOMAIN tx_mbuf_table : tx_mbuf_table[k].id # Head(sending).id
  <2>1. \A s \in Sockets : \A k \in DOMAIN tx_q[s] : tx_q[s][k].id < Head(sending).id
    BY <1>2 DEF OrderInv, NewestSent
  <2>2. \A k \in DOMAIN Line : Line[k].id < Head(sending).id
    BY <1>2 DEF OrderInv, NewestSent
  <2>3. Head(sending).id \in Nat
    BY <1>2, SendingType
  <2> QED
    BY <1>1, <2>1, <2>2, <2>3
<1>3. ASSUME NEW s \in Sockets, NEW k \in DOMAIN tx_q[s], NEW j \in DOMAIN tx_mbuf_table,
             tx_q[s][k].id = tx_mbuf_table[j].id
      PROVE  FALSE
  <2>1. PICK i \in DOMAIN Line : Line[i] = tx_mbuf_table[j]
    BY <1>1
  <2>2. Line[i].id \in 1 .. MaxSends /\ Line[i].sock \in Sockets
    BY LineType
  <2>3. Known(Line[i].id, s) /\ Known(Line[i].id, Line[i].sock)
    BY <1>3, <2>1 DEF Known
  <2>4. Line[i].sock = s
    BY <2>2, <2>3 DEF OrderInv, OneSender
  <2>5. Line[i].id < tx_q[s][k].id
    BY <2>4 DEF OrderInv, SentInOrder
  <2> QED
    BY <1>3, <2>1, <2>2, <2>5
<1>4. ASSUME NEW s \in Sockets, NEW t \in Sockets, NEW k \in DOMAIN tx_q[s],
             NEW j \in DOMAIN tx_q[t], tx_q[s][k].id = tx_q[t][j].id
      PROVE  s = t /\ k = j
  <2>1. tx_q[s][k].id \in 1 .. MaxSends
    BY RingType
  <2>2. s = t
    BY <1>4, <2>1 DEF OrderInv, OneSender, Known
  <2>3. k \in Nat /\ j \in Nat /\ k >= 1 /\ j >= 1
    BY RingType
  <2>4. ~(k < j) /\ ~(j < k)
    BY <1>4, <2>1, <2>2, <2>3 DEF OrderInv, SentInOrder
  <2> QED
    BY <2>2, <2>3, <2>4
<1> QED
  BY <1>2, <1>3, <1>4

\* The mbufs that are somewhere; TxMbufsAccounted says that these are allocated.
Held == Originals(sending) \cup MbufsOf(tx_mbuf_table)
           \cup UNION {Originals(tx_q[s]) : s \in Sockets}

LEMMA HeldBy ==
    \A m : m \in Held <=> \/ \E k \in DOMAIN sending : m = <<sending[k].id, 0>>
                          \/ \E k \in DOMAIN tx_mbuf_table :
                                m = <<tx_mbuf_table[k].id, tx_mbuf_table[k].frag>>
                          \/ \E s \in Sockets : \E k \in DOMAIN tx_q[s] : m = <<tx_q[s][k].id, 0>>
<1>1. \A m : m \in Originals(sending) <=> \E k \in DOMAIN sending : m = <<sending[k].id, 0>>
  BY DEF Originals, Range
<1>2. \A m : m \in MbufsOf(tx_mbuf_table) <=>
                \E k \in DOMAIN tx_mbuf_table :
                   m = <<tx_mbuf_table[k].id, tx_mbuf_table[k].frag>>
  BY DEF MbufsOf, MbufOf, Range
<1>3. \A s \in Sockets : \A m :
         m \in Originals(tx_q[s]) <=> \E k \in DOMAIN tx_q[s] : m = <<tx_q[s][k].id, 0>>
  BY DEF Originals, Range
<1>4. \A m : m \in Held <=> \/ m \in Originals(sending) \/ m \in MbufsOf(tx_mbuf_table)
                            \/ \E s \in Sockets : m \in Originals(tx_q[s])
  BY DEF Held
<1> QED
  BY <1>1, <1>2, <1>3, <1>4

LEMMA SendAllocMbufs ==
    ASSUME mbufs = Held, NEW s, NEW n, SendAlloc(s, n)
    PROVE  mbufs' = Held'
<1>1. sending = <<>> /\ UNCHANGED <<tx_mbuf_table, tx_q>>
  BY DEF SendAlloc
<1>2. CASE UNCHANGED <<sent, sending, mbufs>>
  BY <1>1, <1>2 DEF Held
<1>3. CASE /\ sending' = <<[sock |-> s, id |-> sent', frags |-> n]>>
           /\ mbufs' = mbufs \cup {<<sent', 0>>}
  <2>1. Originals(sending) = {}
    BY <1>1 DEF Originals, Range
  <2>2. Originals(sending') = {<<sent', 0>>}
    BY <1>3 DEF Originals, Range
  <2> QED
    BY <1>1, <1>3, <2>1, <2>2 DEF Held
<1> QED
  BY <1>2, <1>3 DEF SendAlloc

LEMMA SendEnqueueMbufs ==
    ASSUME TxVarTypes, OrderInv, mbufs = Held, SendEnqueue
    PROVE  mbufs' = Held'
<1> DEFINE d == Head(sending)
           q == tx_q[d.sock]
<1>1. sending # <<>> /\ sending' = <<>> /\ UNCHANGED tx_mbuf_table /\ EnqueueOrFree(d)
  BY DEF SendEnqueue
<1>2. d.sock \in Sockets /\ Range(sending) = {d} /\ d \in Datagram
  BY <1>1, SendingType
<1>3. Originals(sending) = {<<d.id, 0>>} /\ Originals(sending') = {}
  <2>1. Range(sending') = {}
    BY <1>1 DEF Range
  <2> HIDE DEF d
  <2> QED
    BY <1>2, <2>1 DEF Originals
<1>4. <<d.id, 0>> \notin MbufsOf(tx_mbuf_table)
  BY <1>1, IdsApart DEF MbufsOf, MbufOf, Range
<1>5. \A s \in Sockets : <<d.id, 0>> \notin Originals(tx_q[s])
  BY <1>1, IdsApart DEF Originals, Range
<1>6. CASE mbufs' = mbufs \ {<<d.id, 0>>} /\ UNCHANGED tx_q
  BY <1>1, <1>3, <1>4, <1>5, <1>6 DEF Held
<1>7. CASE tx_q' = [tx_q EXCEPT ![d.sock] = Append(@, d)] /\ UNCHANGED mbufs
  <2>1. tx_q \in [Sockets -> Seq(Datagram)] /\ q \in Seq(Datagram)
    BY <1>2 DEF TxVarTypes
  <2> HIDE DEF d
  <2>2. Range(Append(q, d)) = Range(q) \cup {d}
    <3> HIDE DEF q
    <3>1. /\ DOMAIN q = 1 .. Len(q) /\ DOMAIN Append(q, d) = 1 .. Len(q) + 1 /\ Len(q) \in Nat
          /\ Append(q, d)[Len(q) + 1] = d
          /\ \A k \in 1 .. Len(q) : Append(q, d)[k] = q[k]
      BY <1>2, <2>1
    <3>2. DOMAIN Append(q, d) = DOMAIN q \cup {Len(q) + 1}
      BY <3>1
    <3> QED
      BY <3>1, <3>2 DEF Range
  <2>3. /\ \A s \in Sockets : s # d.sock => tx_q'[s] = tx_q[s]
        /\ tx_q'[d.sock] = Append(q, d)
    BY <1>2, <1>7, <2>1
  <2>4. Originals(tx_q'[d.sock]) = Originals(tx_q[d.sock]) \cup {<<d.id, 0>>}
    BY <2>2, <2>3 DEF Originals
  <2> DEFINE Rings == UNION {Originals(tx_q[s]) : s \in Sockets}
  <2>5. Rings' = Rings \cup {<<d.id, 0>>}
    <3>1. \A s \in Sockets : s # d.sock => Originals(tx_q'[s]) = Originals(tx_q[s])
      BY <2>3
    <3> QED
      BY <1>2, <2>4, <3>1
  <2>6. Held = {<<d.id, 0>>} \cup MbufsOf(tx_mbuf_table) \cup Rings
    BY <1>3 DEF Held
  <2>7. Held' = MbufsOf(tx_mbuf_table) \cup Rings'
    BY <1>1, <1>3 DEF Held
  <2> HIDE DEF Rings
  <2> QED
    BY <1>7, <2>5, <2>6, <2>7
<1> QED
  BY <1>1, <1>6, <1>7 DEF EnqueueOrFree

LEMMA DequeueMbufs ==
    ASSUME TxVarTypes, OrderInv, mbufs = Held, Dequeue
    PROVE  mbufs' = Held'
<1> DEFINE d == Head(tx_q[slot])
           Rings == UNION {Originals(tx_q[s]) : s \in Sockets}
<1>1. /\ UNCHANGED sending /\ tx_q' = [tx_q EXCEPT ![slot] = Tail(@)]
      /\ Direct(d) \/ Fragment(d) \/ FragmentFails(d) \/ PrependFails(d)
  BY DEF Dequeue
<1>2. slot \in Sockets /\ tx_q[slot] # <<>> /\ d \in Datagram
  BY DequeuedPieces DEF OrderInv
<1>3. /\ 1 \in DOMAIN tx_q[slot] /\ d = tx_q[slot][1]
      /\ \A s \in Sockets : s # slot => tx_q'[s] = tx_q[s]
      /\ \A k \in DOMAIN tx_q'[slot] : /\ k + 1 \in DOMAIN tx_q[slot] /\ k \in Nat \ {0}
                                       /\ tx_q'[slot][k] = tx_q[slot][k + 1]
  BY <1>1, <1>2, RingCut
<1>4. \A k \in DOMAIN tx_q[slot] : k = 1 \/ (k - 1 \in DOMAIN tx_q'[slot] /\ (k - 1) + 1 = k)
  <2>1. tx_q'[slot] = Tail(tx_q[slot]) /\ tx_q[slot] \in Seq(Datagram)
    BY <1>1, <1>2 DEF TxVarTypes
  <2> QED
    BY <1>2, <2>1
<1> HIDE DEF d
<1>5. \A k \in DOMAIN tx_q'[slot] : tx_q'[slot][k].id # d.id
  BY <1>2, <1>3, IdsApart
<1>6. Originals(tx_q[slot]) = Originals(tx_q'[slot]) \cup {<<d.id, 0>>}
  <2>1. Range(tx_q[slot]) = Range(tx_q'[slot]) \cup {d}
    BY <1>3, <1>4 DEF Range
  <2> QED
    BY <2>1 DEF Originals
<1>7. Rings = Rings' \cup {<<d.id, 0>>}
  BY <1>2, <1>3, <1>6
<1>8. \A s \in Sockets : <<d.id, 0>> \notin Originals(tx_q'[s])
  <2>1. <<d.id, 0>> \notin Originals(tx_q'[slot])
    BY <1>5 DEF Originals, Range
  <2>2. \A s \in Sockets : s # slot => <<d.id, 0>> \notin Originals(tx_q[s])
    BY <1>2, <1>3, IdsApart DEF Originals, Range
  <2> QED
    BY <1>3, <2>1, <2>2
<1>9. <<d.id, 0>> \notin Rings'
  BY <1>8
<1>10. <<d.id, 0>> \notin MbufsOf(tx_mbuf_table)
  BY <1>2, <1>3, IdsApart DEF MbufsOf, MbufOf, Range
<1>11. <<d.id, 0>> \notin Originals(sending)
  <2>1. CASE sending = <<>>
    BY <2>1 DEF Originals, Range
  <2>2. CASE sending # <<>>
    BY <1>2, <1>3, <2>2, IdsApart, SendingType DEF Originals
  <2> QED
    BY <2>1, <2>2
<1>12. Held = Originals(sending) \cup MbufsOf(tx_mbuf_table) \cup Rings
  BY DEF Held
<1>13. Held' = Originals(sending) \cup MbufsOf(tx_mbuf_table') \cup Rings'
  BY <1>1 DEF Held
<1> HIDE DEF Rings
<1>14. tx_mbuf_table \in Seq(Piece)
  BY DEF TxVarTypes
<1>15. CASE Direct(d)
  <2>1. Whole(d) \in Piece /\ MbufOf(Whole(d)) = <<d.id, 0>>
    BY <1>2, PiecesOf DEF Whole, MbufOf
  <2>2. Range(tx_mbuf_table') = Range(tx_mbuf_table) \cup {Whole(d)}
    BY <1>14, <1>15, <2>1 DEF Direct, Range
  <2>3. MbufsOf(tx_mbuf_table') = MbufsOf(tx_mbuf_table) \cup {<<d.id, 0>>}
    BY <2>1, <2>2 DEF MbufsOf
  <2> QED
    BY <1>7, <1>12, <1>13, <1>15, <2>3 DEF Direct
<1>16. CASE Fragment(d)
  <2> DEFINE X == Pieces(d)
  <2>1. X \in Seq(Piece)
    BY <1>2, PiecesOf
  <2> HIDE DEF X
  <2>2. Range(tx_mbuf_table \o X) = Range(tx_mbuf_table) \cup Range(X)
    BY <1>14, <2>1, RangeConcatenation
  <2>3. MbufsOf(tx_mbuf_table \o X) = MbufsOf(tx_mbuf_table) \cup MbufsOf(X)
    BY <2>2 DEF MbufsOf
  <2>4. /\ tx_mbuf_table' = tx_mbuf_table \o X
        /\ mbufs' = (mbufs \ {<<d.id, 0>>}) \cup MbufsOf(X)
    BY <1>16 DEF Fragment, X
  <2> QED
    BY <1>7, <1>9, <1>10, <1>11, <1>12, <1>13, <2>3, <2>4
<1>17. CASE FragmentFails(d) \/ PrependFails(d)
  BY <1>7, <1>9, <1>10, <1>11, <1>12, <1>13, <1>17 DEF FragmentFails, PrependFails
<1> QED
  BY <1>1, <1>15, <1>16, <1>17

LEMMA FlushMbufs ==
    ASSUME TxVarTypes, OrderInv, mbufs = Held, flush_tx_table, UNCHANGED <<sending, tx_q>>
    PROVE  mbufs' = Held'
<1>1. tx_mbuf_table' = <<>> /\ mbufs' = mbufs \ MbufsOf(tx_mbuf_table)
  BY DEF flush_tx_table
<1>2. MbufsOf(tx_mbuf_table') = {}
  BY <1>1 DEF MbufsOf, Range
<1>3. \A s \in Sockets : \A m \in Originals(tx_q[s]) : m \notin MbufsOf(tx_mbuf_table)
  BY IdsApart DEF Originals, MbufsOf, MbufOf, Range
<1>4. \A m \in Originals(sending) : m \notin MbufsOf(tx_mbuf_table)
  <2>1. CASE sending = <<>>
    BY <2>1 DEF Originals, Range
  <2>2. CASE sending # <<>>
    <3>1. Originals(sending) = {<<Head(sending).id, 0>>}
      BY <2>2, SendingType DEF Originals
    <3> QED
      BY <2>2, <3>1, IdsApart DEF MbufsOf, MbufOf, Range
  <2> QED
    BY <2>1, <2>2
<1> QED
  BY <1>1, <1>2, <1>3, <1>4 DEF Held

LEMMA TxStepMbufs ==
    ASSUME TxVarTypes, OrderInv, mbufs = Held, [TxNext]_all_vars
    PROVE  mbufs' = Held'
<1>1. CASE AppCall \/ CheckSlot \/ UNCHANGED all_vars
  BY <1>1 DEF AppCall, CheckSlot, all_vars, tx_vars, Held
<1>2. CASE \E s \in Sockets, n \in Fragments \cup {0} : SendAlloc(s, n)
  BY <1>2, SendAllocMbufs
<1>3. CASE SendEnqueue
  BY <1>3, SendEnqueueMbufs
<1>4. CASE Dequeue
  BY <1>4, DequeueMbufs
<1>5. CASE LeaveSlot
  BY <1>5, FlushMbufs DEF LeaveSlot, Held
<1>6. CASE EndRound
  BY <1>6, FlushMbufs DEF EndRound
<1> QED
  BY <1>1, <1>2, <1>3, <1>4, <1>5, <1>6 DEF TxNext, Poller

LEMMA TxInitMbufs == TxInit => mbufs = Held
<1> SUFFICES ASSUME TxInit PROVE mbufs = Held
  OBVIOUS
<1>1. \A s \in Sockets : Originals(tx_q[s]) = {}
  BY DEF TxInit, Originals, Range
<1>2. Originals(sending) = {} /\ MbufsOf(tx_mbuf_table) = {}
  BY DEF TxInit, Originals, MbufsOf, Range
<1> QED
  BY <1>1, <1>2 DEF TxInit, Held

\* No mbuf of the TX pool is lost and none is freed while something points to it,
\* whatever fails on the way: the pool full, the ring full, the fragmentation,
\* the prepend of a header, a burst the NIC takes in part.
THEOREM TxMbufsAccountedAlways == TxSpec => []TxMbufsAccounted
<1>1. TxInit => TxVarTypes /\ OrderInv /\ TxMbufsAccounted
  BY TxInitTypes, TxInitOrder, TxInitMbufs DEF Held, TxMbufsAccounted
<1>2. TxVarTypes /\ OrderInv /\ TxMbufsAccounted /\ [TxNext]_all_vars
      => TxVarTypes' /\ OrderInv' /\ TxMbufsAccounted'
  BY TxStepTypes, TxStepOrder, TxStepMbufs DEF Held, TxMbufsAccounted
<1> QED
  BY <1>1, <1>2, PTL DEF TxSpec
=============================================================================
