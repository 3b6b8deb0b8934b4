--------------------------- MODULE SocketsProofs ----------------------------
(***************************************************************************)
(* For every number of sockets, set of addresses, range of ports and pair  *)
(* of option masks: the table and the descriptors never disagree, bindings *)
(* that stay keep their order, and each call does what UdpSockets promises.*)
(***************************************************************************)
EXTENDS Sockets, FiniteSetTheorems, FunctionTheorems, TLAPS

-----------------------------------------------------------------------------
(* The lists of the table. *)

\* Where Insert(list, b) puts b, and where it puts the k-th element of list.
At(list, b) == IF b.ip_addr = INADDR_ANY THEN 1 ELSE Len(list) + 1
Shift(b, k) == IF b.ip_addr = INADDR_ANY THEN k + 1 ELSE k

LEMMA InsertElements ==
    ASSUME NEW list \in Seq(BindInfo), NEW b \in BindInfo
    PROVE  /\ Insert(list, b) \in Seq(BindInfo)
           /\ DOMAIN Insert(list, b) = 1 .. Len(list) + 1
           /\ At(list, b) \in 1 .. Len(list) + 1
           /\ Insert(list, b)[At(list, b)] = b
           /\ \A k \in DOMAIN list :
                  /\ Shift(b, k) \in (1 .. Len(list) + 1) \ {At(list, b)}
                  /\ Insert(list, b)[Shift(b, k)] = list[k]
           /\ \A j \in 1 .. Len(list) + 1 :
                  j = At(list, b) \/ \E k \in DOMAIN list : j = Shift(b, k)
<1> DEFINE new == Insert(list, b)
           at  == At(list, b)
<1>1. /\ Len(list) \in Nat
      /\ DOMAIN list = 1 .. Len(list)
  OBVIOUS
<1>2. new \in Seq(BindInfo) /\ Len(new) = Len(list) + 1
  BY DEF Insert
<1>3. DOMAIN new = 1 .. Len(list) + 1
  BY <1>2
<1>4. /\ at \in 1 .. Len(list) + 1
      /\ new[at] = b
      /\ \A k \in DOMAIN list : /\ Shift(b, k) \in (1 .. Len(list) + 1) \ {at}
                                /\ new[Shift(b, k)] = list[k]
      /\ \A j \in 1 .. Len(list) + 1 : j = at \/ \E k \in DOMAIN list : j = Shift(b, k)
  <2>1. CASE b.ip_addr = INADDR_ANY
    <3>1. new[1] = b /\ \A k \in 1 .. Len(list) : new[k + 1] = list[k]
      BY <2>1 DEF Insert
    <3>2. at = 1 /\ \A k \in 1 .. Len(list) : Shift(b, k) = k + 1
      BY <2>1 DEF At, Shift
    <3>3. \A j \in 1 .. Len(list) + 1 : j = 1 \/ \E k \in 1 .. Len(list) : j = k + 1
      <4> TAKE j \in 1 .. Len(list) + 1
      <4>1. j # 1 => j - 1 \in 1 .. Len(list) /\ j = (j - 1) + 1
        BY <1>1
      <4> QED
        BY <4>1
    <3> HIDE DEF new, at
    <3>4. \A j \in 1 .. Len(list) + 1 : j = at \/ \E k \in DOMAIN list : j = Shift(b, k)
      BY <1>1, <3>2, <3>3
    <3>5. \A k \in DOMAIN list : /\ Shift(b, k) \in (1 .. Len(list) + 1) \ {at}
                                 /\ new[Shift(b, k)] = list[k]
      BY <1>1, <3>1, <3>2
    <3> QED
      BY <1>1, <3>1, <3>2, <3>4, <3>5
  <2>2. CASE b.ip_addr # INADDR_ANY
    <3>1. new[Len(list) + 1] = b /\ \A k \in 1 .. Len(list) : new[k] = list[k]
      BY <2>2 DEF Insert
    <3>2. at = Len(list) + 1 /\ \A k : Shift(b, k) = k
      BY <2>2 DEF At, Shift
    <3> HIDE DEF new, at
    <3>3. \A j \in 1 .. Len(list) + 1 : j = at \/ \E k \in DOMAIN list : j = Shift(b, k)
      BY <1>1, <3>2
    <3>4. \A k \in DOMAIN list : /\ Shift(b, k) \in (1 .. Len(list) + 1) \ {at}
                                 /\ new[Shift(b, k)] = list[k]
      BY <1>1, <3>1, <3>2
    <3> QED
      BY <1>1, <3>1, <3>2, <3>3, <3>4
  <2> QED
    BY <2>1, <2>2
<1> QED
  BY <1>2, <1>3, <1>4

\* Insert keeps the elements of the list apart and in their order.
LEMMA ShiftMonotone ==
    ASSUME NEW b, NEW k \in Nat, NEW l \in Nat
    PROVE  /\ Shift(b, k) < Shift(b, l) <=> k < l
           /\ Shift(b, k) = Shift(b, l) <=> k = l
BY DEF Shift

\* Where the j-th element of Without(list, i) was in the list.
Kept(i, j) == IF j < i THEN j ELSE j + 1

\* What is left of a list without its i-th element.
LEMMA WithoutElements ==
    ASSUME NEW list \in Seq(BindInfo), NEW i \in DOMAIN list
    PROVE  /\ Without(list, i) \in Seq(BindInfo)
           /\ DOMAIN Without(list, i) \subseteq Nat
           /\ \A j \in DOMAIN Without(list, i) :
                  /\ Kept(i, j) \in DOMAIN list \ {i}
                  /\ Without(list, i)[j] = list[Kept(i, j)]
<1> DEFINE new == Without(list, i)
           n   == Len(list) - 1
<1>1. /\ n \in Nat /\ n + 1 = Len(list)
      /\ DOMAIN list = 1 .. n + 1
      /\ i \in 1 .. n + 1
  OBVIOUS
<1>2. /\ new = [j \in 1 .. n |-> IF j < i THEN list[j] ELSE list[j + 1]]
      /\ DOMAIN new = 1 .. n
  BY DEF Without
<1>3. \A k \in DOMAIN list : list[k] \in BindInfo
  OBVIOUS
<1> HIDE DEF new, n
<1>4. \A j \in DOMAIN new : /\ Kept(i, j) \in DOMAIN list \ {i}
                            /\ new[j] = list[Kept(i, j)]
  BY <1>1, <1>2 DEF Kept
<1>5. new \in Seq(BindInfo)
  <2>1. \A j \in 1 .. n : new[j] \in BindInfo
    BY <1>2, <1>3, <1>4
  <2>2. new \in [1 .. n -> BindInfo]
    BY <1>2, <2>1
  <2> QED
    BY <1>1, <2>2
<1>6. DOMAIN new \subseteq Nat
  BY <1>1, <1>2
<1> QED
  BY <1>4, <1>5, <1>6 DEF new

\* Nothing but the i-th element is lost.
LEMMA WithoutKeepsRest ==
    ASSUME NEW list \in Seq(BindInfo), NEW i \in DOMAIN list,
           NEW k \in DOMAIN list, k # i
    PROVE  \E j \in DOMAIN Without(list, i) : k = Kept(i, j)
<1>1. /\ Len(list) \in Nat
      /\ DOMAIN list = 1 .. Len(list)
      /\ DOMAIN Without(list, i) = 1 .. Len(list) - 1
  BY DEF Without
<1>2. CASE k < i
  <2>1. k \in DOMAIN Without(list, i) /\ Kept(i, k) = k
    BY <1>1, <1>2 DEF Kept
  <2> QED
    BY <2>1
<1>3. CASE k > i
  <2>1. k - 1 \in DOMAIN Without(list, i) /\ Kept(i, k - 1) = k
    BY <1>1, <1>3 DEF Kept
  <2> QED
    BY <2>1
<1> QED
  BY <1>1, <1>2, <1>3

\* Without keeps the elements apart and in their order.
LEMMA KeptMonotone ==
    ASSUME NEW i \in Nat, NEW j \in Nat, NEW k \in Nat
    PROVE  /\ Kept(i, j) < Kept(i, k) <=> j < k
           /\ Kept(i, j) = Kept(i, k) <=> j = k
BY DEF Kept

\* Remove(list, s) takes the binding of s out when s has exactly one.
LEMMA RemoveOnly ==
    ASSUME NEW list \in Seq(BindInfo), NEW s, NEW i \in DOMAIN list,
           \A j \in DOMAIN list : list[j].sockfd = s <=> i = j
    PROVE  Remove(list, s) = Without(list, i)
<1>1. \A j \in DOMAIN list : First(list, s, j) <=> i = j
  BY DEF First
<1> QED
  BY <1>1 DEF Remove

-----------------------------------------------------------------------------
(* The inductive invariant.  The first four parts are checked by TLC too;  *)
(* the last one bounds the counter: a socket adds at most two to it, one   *)
(* when it is opened and one when it is closed.                            *)

UsedSlots == {s \in Sockets : slots[s].used}

CounterBounded == n_zones_active + Cardinality(UsedSlots) <= 2 * NumSockets + 1

TableInv == BindingsOwned /\ BoundOnce /\ SharingLegal

IInv == TypeOK /\ TableInv /\ CounterBounded

\* What the table holds for a port, under TypeOK.
LEMMA ListType ==
    ASSUME TypeOK, NEW p \in Ports
    PROVE  /\ sock_bind_table[p] \in Seq(BindInfo)
           /\ DOMAIN sock_bind_table[p] = 1 .. Len(sock_bind_table[p])
           /\ Len(sock_bind_table[p]) \in Nat
           /\ \A i \in DOMAIN sock_bind_table[p] : sock_bind_table[p][i] \in BindInfo
<1>1. sock_bind_table[p] \in Seq(BindInfo)
  BY DEF TypeOK
<1> QED
  BY <1>1

\* An entry of a port is known by its socket.
LEMMA EntryBySocket ==
    ASSUME TypeOK, TableInv, NEW p \in Ports,
           NEW i \in DOMAIN sock_bind_table[p], NEW j \in DOMAIN sock_bind_table[p],
           sock_bind_table[p][i].sockfd = sock_bind_table[p][j].sockfd
    PROVE  i = j
<1> DEFINE s == sock_bind_table[p][i].sockfd
<1>1. s \in Sockets /\ slots[s].bound /\ slots[s].udp_port = p
  BY ListType DEF TableInv, BindingsOwned, BindInfo
<1>2. OnceIn(sock_bind_table[p], s)
  BY <1>1 DEF TableInv, BoundOnce, Bound
<1> QED
  BY <1>2 DEF OnceIn

LEMMA EntriesDiffer ==
    ASSUME TypeOK, TableInv, NEW p \in Ports
    PROVE  \A i, j \in DOMAIN sock_bind_table[p] :
              sock_bind_table[p][i] = sock_bind_table[p][j] => i = j
<1> TAKE i, j \in DOMAIN sock_bind_table[p]
<1> HAVE sock_bind_table[p][i] = sock_bind_table[p][j]
<1> QED
  BY EntryBySocket

\* The new entry of a bind is well formed.
LEMMA NewBindInfoType ==
    ASSUME NEW s \in Sockets, NEW ip \in IPs, NEW o
    PROVE  NewBindInfo(s, ip, o) \in BindInfo
BY DEF NewBindInfo, BindInfo, HasOption

\* A socket that is not bound has no entry in the table.
LEMMA NoEntryWhenUnbound ==
    ASSUME TypeOK, BindingsOwned, NEW s \in Sockets, ~slots[s].bound,
           NEW p \in Ports, NEW i \in DOMAIN sock_bind_table[p]
    PROVE  sock_bind_table[p][i].sockfd # s
BY DEF BindingsOwned

\* What a granted bind keeps of the table, socket s going to (ip, port).
LEMMA BindKeepsTable ==
    ASSUME TypeOK, TableInv, NEW s \in Sockets, NEW ip \in IPs, NEW port \in Ports,
           MayBind(s), Granted(s, ip, port), RecordBinding(s, ip, port)
    PROVE  /\ slots' \in [Sockets -> SlotInfo]
           /\ sock_bind_table' \in [Ports -> Seq(BindInfo)]
           /\ TableInv'
<1> DEFINE b   == NewBindInfo(s, ip, slots[s].so_options)
           old == sock_bind_table[port]
           new == Insert(old, b)
           at  == At(old, b)
<1>1. b \in BindInfo /\ b.sockfd = s /\ b.ip_addr = ip
  BY NewBindInfoType DEF NewBindInfo
<1>2. /\ old \in Seq(BindInfo)
      /\ DOMAIN old = 1 .. Len(old)
      /\ Len(old) \in Nat
      /\ \A i \in DOMAIN old : old[i] \in BindInfo
  BY ListType
<1>3. /\ new \in Seq(BindInfo)
      /\ at \in DOMAIN new /\ new[at] = b
      /\ \A k \in DOMAIN old : /\ Shift(b, k) \in DOMAIN new \ {at}
                               /\ new[Shift(b, k)] = old[k]
      /\ \A j \in DOMAIN new : j = at \/ \E k \in DOMAIN old : j = Shift(b, k)
  <2> HIDE DEF b, old
  <2>1. /\ new \in Seq(BindInfo)
        /\ DOMAIN new = 1 .. Len(old) + 1
        /\ at \in 1 .. Len(old) + 1
        /\ new[at] = b
        /\ \A k \in DOMAIN old : /\ Shift(b, k) \in (1 .. Len(old) + 1) \ {at}
                                 /\ new[Shift(b, k)] = old[k]
        /\ \A j \in 1 .. Len(old) + 1 :
               j = at \/ \E k \in DOMAIN old : j = Shift(b, k)
    BY <1>1, <1>2, InsertElements
  <2> HIDE DEF new, at
  <2> QED
    BY <2>1
<1>4. /\ sock_bind_table' \in [Ports -> Seq(BindInfo)]
      /\ sock_bind_table'[port] = new
      /\ \A p \in Ports \ {port} : sock_bind_table'[p] = sock_bind_table[p]
  BY <1>3 DEF TypeOK, RecordBinding
<1>5. /\ slots' \in [Sockets -> SlotInfo]
      /\ slots'[s].used /\ slots'[s].bound
      /\ slots'[s].udp_port = port /\ slots'[s].ip_addr = ip
      /\ \A t \in Sockets \ {s} : slots'[t] = slots[t]
  BY DEF TypeOK, RecordBinding, SlotInfo, MayBind
<1>6. \A p \in Ports : \A i \in DOMAIN sock_bind_table[p] :
          sock_bind_table[p][i].sockfd \in Sockets \ {s}
  BY NoEntryWhenUnbound, ListType DEF MayBind, TableInv, BindInfo
<1>7. BindingsOwned'
  <2> SUFFICES ASSUME NEW p \in Ports, NEW i \in DOMAIN sock_bind_table'[p]
               PROVE  LET e == sock_bind_table'[p][i]
                          o == slots'[e.sockfd]
                      IN  o.used /\ o.bound /\ o.udp_port = p /\ o.ip_addr = e.ip_addr
    BY DEF BindingsOwned
  <2> HIDE DEF b, old, new, at
  <2>1. CASE p = port /\ i = at
    BY <1>1, <1>3, <1>4, <1>5, <2>1
  <2>2. CASE \E q \in Ports : /\ p = q
                              /\ \E k \in DOMAIN sock_bind_table[q] :
                                     sock_bind_table'[p][i] = sock_bind_table[q][k]
    <3>1. PICK k \in DOMAIN sock_bind_table[p] :
              sock_bind_table'[p][i] = sock_bind_table[p][k]
      BY <2>2
    <3> DEFINE e == sock_bind_table[p][k]
    <3>2. slots'[e.sockfd] = slots[e.sockfd]
      BY <1>5, <1>6
    <3>3. LET o == slots[e.sockfd]
          IN  o.used /\ o.bound /\ o.udp_port = p /\ o.ip_addr = e.ip_addr
      BY DEF TableInv, BindingsOwned
    <3> QED
      BY <3>1, <3>2, <3>3
  <2>3. CASE p = port /\ i # at
    BY <1>3, <1>4, <2>2, <2>3 DEF old
  <2>4. CASE p # port
    BY <1>4, <2>2, <2>4
  <2> QED
    BY <2>1, <2>3, <2>4
<1>8. BoundOnce'
  <2> SUFFICES ASSUME NEW t \in Sockets, slots'[t].bound
               PROVE  OnceIn(sock_bind_table'[slots'[t].udp_port], t)
    BY DEF BoundOnce, Bound
  <2>1. CASE t = s
    <3>1. \A k \in DOMAIN old : old[k].sockfd # s
      BY <1>6
    <3> HIDE DEF b, old, new, at
    <3>2. \A j \in DOMAIN new : new[j].sockfd = s <=> at = j
      BY <1>1, <1>3, <3>1
    <3>3. OnceIn(new, s)
      BY <1>3, <3>2 DEF OnceIn
    <3> QED
      BY <1>4, <1>5, <2>1, <3>3
  <2>2. CASE t # s
    <3>1. slots'[t] = slots[t] /\ slots[t].bound /\ slots[t].udp_port \in Ports
      BY <1>5, <2>2 DEF TypeOK, SlotInfo
    <3>2. OnceIn(sock_bind_table[slots[t].udp_port], t)
      BY <3>1 DEF TableInv, BoundOnce, Bound
    <3>3. CASE slots[t].udp_port # port
      BY <1>4, <3>1, <3>2, <3>3
    <3>4. CASE slots[t].udp_port = port
      <4>1. PICK i \in DOMAIN old : \A j \in DOMAIN old : old[j].sockfd = t <=> i = j
        BY <3>2, <3>4 DEF OnceIn
      <4>2. \A k \in DOMAIN old : Shift(b, k) = Shift(b, i) <=> k = i
        BY <1>2, <4>1, ShiftMonotone
      <4> HIDE DEF b, old, new, at
      <4>3. \A j \in DOMAIN new : new[j].sockfd = t <=> Shift(b, i) = j
        <5> SUFFICES ASSUME NEW j \in DOMAIN new
                     PROVE  new[j].sockfd = t <=> Shift(b, i) = j
          OBVIOUS
        <5>1. CASE j = at
          BY <1>1, <1>3, <2>2, <4>1, <5>1
        <5>2. CASE j # at
          <6>1. PICK k \in DOMAIN old : j = Shift(b, k)
            BY <1>3, <5>2
          <6> QED
            BY <1>3, <4>1, <4>2, <6>1
        <5> QED
          BY <5>1, <5>2
      <4> QED
        BY <1>3, <1>4, <3>1, <3>4, <4>1, <4>3 DEF OnceIn
    <3> QED
      BY <3>3, <3>4
  <2> QED
    BY <2>1, <2>2
<1>9. SharingLegal'
  <2>1. LegalList(new)
    <3>1. CASE ip = INADDR_ANY
      <4>1. \A i \in DOMAIN old : FALSE
        BY <3>1 DEF Granted, CanBind, Compatible
      <4>2. at \in Nat
        BY <1>2 DEF At
      <4> HIDE DEF b, old, new, at
      <4>3. \A i \in DOMAIN new : i = at
        BY <1>3, <4>1
      <4> QED
        BY <4>2, <4>3 DEF LegalList
    <3>2. CASE ip # INADDR_ANY
      <4>1. \A i \in DOMAIN old : LegalPair(old[i], b)
        BY <1>1, <3>2 DEF Granted, CanBind, Compatible, NewBindInfo, Reusable, LegalPair
      <4>2. LegalList(old)
        BY DEF TableInv, SharingLegal
      <4>3. /\ \A k \in DOMAIN old : Shift(b, k) = k /\ k < at
            /\ at \in Nat
        BY <1>1, <1>2, <3>2 DEF Shift, At
      <4> SUFFICES ASSUME NEW i \in DOMAIN new, NEW j \in DOMAIN new, i < j
                   PROVE  LegalPair(new[i], new[j])
        BY DEF LegalList
      <4> HIDE DEF b, old, new, at
      <4>4. /\ i \in DOMAIN old \/ i = at
            /\ j \in DOMAIN old \/ j = at
        BY <1>3, <4>3
      <4>5. i # at
        BY <1>2, <4>3, <4>4
      <4>6. CASE j \in DOMAIN old
        BY <1>3, <4>2, <4>3, <4>4, <4>5, <4>6 DEF LegalList
      <4>7. CASE j = at
        BY <1>3, <4>1, <4>3, <4>4, <4>5, <4>7
      <4> QED
        BY <4>4, <4>6, <4>7
    <3> QED
      BY <3>1, <3>2
  <2> HIDE DEF new
  <2> QED
    BY <1>4, <2>1 DEF TableInv, SharingLegal
<1> QED
  BY <1>4, <1>5, <1>7, <1>8, <1>9 DEF TableInv

\* What the close of an open socket keeps of the table.
LEMMA ReleaseKeepsTable ==
    ASSUME TypeOK, TableInv, NEW s \in Sockets, slots[s].used, Release(s)
    PROVE  /\ slots' \in [Sockets -> SlotInfo]
           /\ sock_bind_table' \in [Ports -> Seq(BindInfo)]
           /\ TableInv'
<1>1. /\ slots' \in [Sockets -> SlotInfo]
      /\ ~slots'[s].bound
      /\ \A t \in Sockets \ {s} : slots'[t] = slots[t]
  BY DEF Release, TypeOK, SlotInfo
<1>2. CASE ~slots[s].bound
  <2>1. sock_bind_table' = sock_bind_table
    BY <1>2 DEF Release, Unbind
  <2>2. \A p \in Ports : \A i \in DOMAIN sock_bind_table[p] :
            sock_bind_table[p][i].sockfd \in Sockets \ {s}
    BY <1>2, NoEntryWhenUnbound, ListType DEF TableInv, BindInfo
  <2>3. BindingsOwned'
    BY <1>1, <2>1, <2>2 DEF TableInv, BindingsOwned
  <2>4. BoundOnce'
    BY <1>1, <2>1 DEF TableInv, BoundOnce, Bound
  <2> QED
    BY <1>1, <2>1, <2>3, <2>4 DEF TableInv, SharingLegal, TypeOK
<1>3. CASE slots[s].bound
  <2> DEFINE port == slots[s].udp_port
             old  == sock_bind_table[port]
  <2>1. port \in Ports
    BY DEF TypeOK, SlotInfo
  <2>2. /\ old \in Seq(BindInfo)
        /\ DOMAIN old = 1 .. Len(old)
        /\ Len(old) \in Nat
    BY <2>1, ListType
  <2>3. PICK x \in DOMAIN old : \A j \in DOMAIN old : old[j].sockfd = s <=> x = j
    BY <1>3 DEF TableInv, BoundOnce, Bound, OnceIn
  <2> DEFINE new == Without(old, x)
  <2>4. Remove(old, s) = new
    <3> HIDE DEF old
    <3> QED
      BY <2>2, <2>3, RemoveOnly
  <2>5. /\ new \in Seq(BindInfo)
        /\ DOMAIN new \subseteq Nat
        /\ \A j \in DOMAIN new : Kept(x, j) \in DOMAIN old \ {x} /\ new[j] = old[Kept(x, j)]
    <3> HIDE DEF old
    <3>1. new \in Seq(BindInfo) /\ DOMAIN new \subseteq Nat
      BY <2>2, <2>3, WithoutElements
    <3>2. \A j \in DOMAIN new : Kept(x, j) \in DOMAIN old \ {x} /\ new[j] = old[Kept(x, j)]
      BY <2>2, <2>3, WithoutElements
    <3> HIDE DEF new
    <3> QED
      BY <3>1, <3>2
  <2>6. /\ sock_bind_table' \in [Ports -> Seq(BindInfo)]
        /\ sock_bind_table'[port] = new
        /\ \A p \in Ports \ {port} : sock_bind_table'[p] = sock_bind_table[p]
    BY <1>3, <2>1, <2>4, <2>5 DEF Release, Unbind, TypeOK
  \* Every entry left was in the table of the same port, and is not of s.
  <2>7. ASSUME NEW p \in Ports, NEW i \in DOMAIN sock_bind_table'[p]
        PROVE  \E k \in DOMAIN sock_bind_table[p] :
                   /\ sock_bind_table'[p][i] = sock_bind_table[p][k]
                   /\ sock_bind_table[p][k].sockfd \in Sockets \ {s}
    <3>1. \A k \in DOMAIN sock_bind_table[p] : sock_bind_table[p][k].sockfd \in Sockets
      BY ListType DEF BindInfo
    <3>2. CASE p = port
      <4> HIDE DEF new
      <4>1. PICK k \in DOMAIN old : k # x /\ new[i] = old[k]
        BY <2>5, <2>6, <3>2
      <4> QED
        BY <2>3, <2>6, <3>1, <3>2, <4>1
    <3>3. CASE p # port
      <4>1. \A k \in DOMAIN sock_bind_table[p] : sock_bind_table[p][k].sockfd # s
        BY <3>3 DEF TableInv, BindingsOwned
      <4> QED
        BY <2>6, <3>1, <3>3, <4>1
    <3> QED
      BY <3>2, <3>3
  <2>8. BindingsOwned'
    <3> SUFFICES ASSUME NEW p \in Ports, NEW i \in DOMAIN sock_bind_table'[p]
                 PROVE  LET e == sock_bind_table'[p][i]
                            o == slots'[e.sockfd]
                        IN  o.used /\ o.bound /\ o.udp_port = p /\ o.ip_addr = e.ip_addr
      BY DEF BindingsOwned
    <3>1. PICK k \in DOMAIN sock_bind_table[p] :
              /\ sock_bind_table'[p][i] = sock_bind_table[p][k]
              /\ sock_bind_table[p][k].sockfd \in Sockets \ {s}
      BY <2>7
    <3> QED
      BY <1>1, <3>1 DEF TableInv, BindingsOwned
  <2>9. BoundOnce'
    <3> SUFFICES ASSUME NEW t \in Sockets, slots'[t].bound
                 PROVE  OnceIn(sock_bind_table'[slots'[t].udp_port], t)
      BY DEF BoundOnce, Bound
    <3>1. t # s /\ slots'[t] = slots[t] /\ slots[t].bound /\ slots[t].udp_port \in Ports
      BY <1>1 DEF TypeOK, SlotInfo
    <3>2. OnceIn(sock_bind_table[slots[t].udp_port], t)
      BY <3>1 DEF TableInv, BoundOnce, Bound
    <3>3. CASE slots[t].udp_port # port
      BY <2>6, <3>1, <3>2, <3>3
    <3>4. CASE slots[t].udp_port = port
      <4>1. PICK i \in DOMAIN old : \A j \in DOMAIN old : old[j].sockfd = t <=> i = j
        BY <3>2, <3>4 DEF OnceIn
      <4>2. i # x
        BY <2>3, <3>1, <4>1
      <4>3. PICK k \in DOMAIN new : i = Kept(x, k)
        <5> HIDE DEF old
        <5> QED
          BY <2>2, <2>3, <4>1, <4>2, WithoutKeepsRest
      <4>4. \A j \in DOMAIN new : Kept(x, j) = Kept(x, k) <=> j = k
        <5>1. x \in Nat
          BY <2>2, <2>3
        <5> HIDE DEF old, new
        <5> QED
          BY <2>5, <4>3, <5>1, KeptMonotone
      <4>5. OnceIn(new, t)
        <5> HIDE DEF old, new
        <5>1. \A j \in DOMAIN new : new[j].sockfd = t <=> k = j
          BY <2>5, <4>1, <4>3, <4>4
        <5> QED
          BY <4>3, <5>1 DEF OnceIn
      <4> QED
        BY <2>6, <3>1, <3>4, <4>5
    <3> QED
      BY <3>3, <3>4
  <2>10. SharingLegal'
    <3>1. LegalList(new)
      <4> SUFFICES ASSUME NEW i \in DOMAIN new, NEW j \in DOMAIN new, i < j
                   PROVE  LegalPair(new[i], new[j])
        BY DEF LegalList
      <4>1. LegalList(old)
        BY <2>1 DEF TableInv, SharingLegal
      <4>2. x \in Nat
        BY <2>2, <2>3
      <4> HIDE DEF old, new
      <4>3. Kept(x, i) < Kept(x, j)
        BY <2>5, <4>2, KeptMonotone
      <4> QED
        BY <2>5, <4>1, <4>3 DEF LegalList
    <3> HIDE DEF new
    <3> QED
      BY <2>6, <3>1 DEF TableInv, SharingLegal
  <2> QED
    BY <1>1, <2>6, <2>8, <2>9, <2>10 DEF TableInv
<1> QED
  BY <1>2, <1>3

-----------------------------------------------------------------------------
(* The counter. *)

LEMMA SocketsFinite == /\ IsFiniteSet(Sockets)
                       /\ Cardinality(Sockets) = NumSockets
BY FS_Interval, NumSocketsAssumption DEF Sockets

\* The sockets in use are finitely many, at most NumSockets.
LEMMA UsedSlotsBounded == /\ IsFiniteSet(UsedSlots)
                      /\ Cardinality(UsedSlots) \in 0 .. NumSockets
<1>1. UsedSlots \subseteq Sockets
  BY DEF UsedSlots
<1> QED
  BY <1>1, SocketsFinite, FS_Subset, FS_CardinalityType, NumSocketsAssumption

\* A call that leaves the counter and the use of the slots alone.
LEMMA SameCounter ==
    ASSUME CounterBounded, n_zones_active' = n_zones_active,
           \A s \in Sockets : slots'[s].used = slots[s].used
    PROVE  CounterBounded'
<1>1. UsedSlots' = UsedSlots
  BY DEF UsedSlots
<1> QED
  BY <1>1 DEF CounterBounded

\* Opening: the counter was at most NumSockets, and one slot more is in use.
LEMMA SocketKeepsCounter ==
    ASSUME TypeOK, NEW s \in Sockets, Socket(s)
    PROVE  /\ CounterBounded'
           /\ n_zones_active' \in 0 .. 2 * NumSockets + 1
<1>1. /\ n_zones_active \in Nat /\ n_zones_active <= NumSockets
      /\ n_zones_active' = n_zones_active + 1
  BY NumSocketsAssumption DEF TypeOK, Socket, CounterFull
<1>2. Cardinality(UsedSlots') \in 0 .. NumSockets
  <2>1. UsedSlots' \subseteq Sockets
    BY DEF UsedSlots
  <2> QED
    BY <2>1, SocketsFinite, FS_Subset, FS_CardinalityType, NumSocketsAssumption
<1>3. CounterBounded'
  BY <1>1, <1>2, NumSocketsAssumption DEF CounterBounded
<1> QED
  BY <1>1, <1>3, NumSocketsAssumption

\* Closing: the counter goes up, but one slot less is in use.
LEMMA ReleaseKeepsCounter ==
    ASSUME TypeOK, CounterBounded, NEW s \in Sockets, slots[s].used, Release(s)
    PROVE  /\ CounterBounded'
           /\ n_zones_active' \in 0 .. 2 * NumSockets + 1
<1>1. UsedSlots' = UsedSlots \ {s}
  BY DEF UsedSlots, Release, TypeOK, SlotInfo
<1>2. Cardinality(UsedSlots') = Cardinality(UsedSlots) - 1
  BY <1>1, UsedSlotsBounded, FS_RemoveElement DEF UsedSlots
<1>3. /\ n_zones_active \in Nat
      /\ n_zones_active' = n_zones_active + 1
  BY NumSocketsAssumption DEF TypeOK, Release
<1>4. Cardinality(UsedSlots) \in 1 .. NumSockets
  <2>1. UsedSlots # {}
    BY DEF UsedSlots
  <2> QED
    BY <2>1, UsedSlotsBounded, FS_EmptySet, NumSocketsAssumption
<1> QED
  BY <1>2, <1>3, <1>4, NumSocketsAssumption DEF CounterBounded

-----------------------------------------------------------------------------
(* Every step keeps the invariant. *)

LEMMA InitIInv == Init => IInv
<1> SUFFICES ASSUME Init PROVE IInv
  OBVIOUS
<1>1. \A p \in Ports : sock_bind_table[p] = <<>> /\ DOMAIN sock_bind_table[p] = {}
  BY DEF Init
<1>2. \A s \in Sockets : ~slots[s].bound /\ ~slots[s].used
  BY DEF Init
<1>3. TypeOK
  BY MaxPortAssumption, NumSocketsAssumption
     DEF Init, TypeOK, SlotInfo, Outcomes, IPs, Ports
<1>4. TableInv
  BY <1>1, <1>2 DEF TableInv, BindingsOwned, BoundOnce, Bound, SharingLegal, LegalList
<1>5. CounterBounded
  <2>1. UsedSlots = {}
    BY <1>2 DEF UsedSlots
  <2> QED
    BY <2>1, FS_EmptySet, NumSocketsAssumption DEF Init, CounterBounded
<1> QED
  BY <1>3, <1>4, <1>5 DEF IInv

\* The table invariant depends on the options of no socket, and stays when one
\* more slot comes into use.
LEMMA SameTable ==
    ASSUME TypeOK, TableInv, sock_bind_table' = sock_bind_table,
           \A s \in Sockets : /\ slots[s].used => slots'[s].used
                              /\ slots'[s].bound = slots[s].bound
                              /\ slots'[s].udp_port = slots[s].udp_port
                              /\ slots'[s].ip_addr = slots[s].ip_addr
    PROVE  TableInv'
<1>1. \A p \in Ports : \A i \in DOMAIN sock_bind_table[p] :
          sock_bind_table[p][i].sockfd \in Sockets
  BY ListType DEF BindInfo
<1>2. BindingsOwned'
  BY <1>1 DEF TableInv, BindingsOwned
<1>3. BoundOnce'
  BY DEF TableInv, BoundOnce, Bound
<1>4. SharingLegal'
  BY DEF TableInv, SharingLegal
<1> QED
  BY <1>2, <1>3, <1>4 DEF TableInv

\* A bound socket is in use: its entry in the table says so.
LEMMA BoundUsed ==
    ASSUME TypeOK, TableInv, NEW s \in Sockets, slots[s].bound
    PROVE  slots[s].used
<1>1. /\ slots[s].udp_port \in Ports
      /\ OnceIn(sock_bind_table[slots[s].udp_port], s)
  BY DEF TypeOK, SlotInfo, TableInv, BoundOnce, Bound
<1>2. PICK i \in DOMAIN sock_bind_table[slots[s].udp_port] :
          sock_bind_table[slots[s].udp_port][i].sockfd = s
  BY <1>1 DEF OnceIn
<1> QED
  BY <1>1, <1>2 DEF TableInv, BindingsOwned

\* A refused call, and a step of cleanup that closes nothing.
LEMMA ReturnIInv ==
    ASSUME IInv, phase' \in {"up", "closing", "down"}, ret' \in Outcomes,
           UNCHANGED <<slots, n_zones_active, sock_bind_table>>
    PROVE  IInv'
BY SameCounter DEF IInv, TypeOK, TableInv, BindingsOwned, BoundOnce, Bound, SharingLegal

LEMMA SocketIInv == ASSUME IInv, NEW s \in Sockets, Socket(s) PROVE IInv'
<1>1. slots' \in [Sockets -> SlotInfo] /\ TableInv'
  <2>1. /\ ~slots[s].used
        /\ slots' = [slots EXCEPT ![s].used = TRUE, ![s].bound = FALSE,
                                  ![s].so_options = {}]
        /\ sock_bind_table' = sock_bind_table
    BY DEF Socket, Unused, TakeSlot
  <2>2. slots' \in [Sockets -> SlotInfo]
    <3>1. slots \in [Sockets -> SlotInfo]
      BY DEF IInv, TypeOK
    <3>2. slots' = [slots EXCEPT ![s] =
                      [@ EXCEPT !.used = TRUE, !.bound = FALSE, !.so_options = {}]]
      BY <2>1, <3>1
    <3>3. [slots[s] EXCEPT !.used = TRUE, !.bound = FALSE, !.so_options = {}] \in SlotInfo
      BY <3>1 DEF SlotInfo
    <3> QED
      BY <3>1, <3>2, <3>3
  <2>3. \A t \in Sockets : t # s => slots'[t] = slots[t]
    BY <2>1 DEF IInv, TypeOK
  <2>4. /\ ~slots'[s].bound
        /\ slots'[s].udp_port = slots[s].udp_port
        /\ slots'[s].ip_addr = slots[s].ip_addr
    <3>1. slots \in [Sockets -> SlotInfo]
      BY DEF IInv, TypeOK
    <3>2. slots'[s] = [slots[s] EXCEPT !.used = TRUE, !.bound = FALSE, !.so_options = {}]
      BY <2>1, <3>1
    <3> QED
      BY <3>1, <3>2 DEF SlotInfo
  <2>5. slots'[s].used /\ slots'[s].bound = slots[s].bound
    BY <2>1, <2>4, BoundUsed DEF IInv, TypeOK, SlotInfo
  <2>6. TableInv'
    BY <2>1, <2>3, <2>4, <2>5, SameTable DEF IInv
  <2> QED
    BY <2>2, <2>6
<1>2. CounterBounded' /\ n_zones_active' \in 0 .. 2 * NumSockets + 1
  BY SocketKeepsCounter DEF IInv
<1> QED
  BY <1>1, <1>2 DEF IInv, TypeOK, Socket, Up, Outcomes

LEMMA SetsockoptIInv ==
    ASSUME IInv, NEW s \in Sockets, NEW opt \in Options, NEW on \in BOOLEAN,
           Setsockopt(s, opt, on)
    PROVE  IInv'
<1>1. SetOption(slots[s].so_options, opt, on) \in SUBSET Bits
  <2>1. slots[s].so_options \in SUBSET Bits
    BY DEF IInv, TypeOK, SlotInfo
  <2>2. opt \in SUBSET Bits
    BY DEF Options, Bits
  <2> QED
    BY <2>1, <2>2 DEF SetOption
<1>2. slots' \in [Sockets -> SlotInfo]
  BY <1>1 DEF IInv, TypeOK, SlotInfo, Setsockopt
<1>3. \A t \in Sockets : /\ slots'[t].used = slots[t].used
                         /\ slots'[t].bound = slots[t].bound
                         /\ slots'[t].udp_port = slots[t].udp_port
                         /\ slots'[t].ip_addr = slots[t].ip_addr
  BY DEF IInv, TypeOK, SlotInfo, Setsockopt
<1>4. sock_bind_table' = sock_bind_table /\ n_zones_active' = n_zones_active
  BY DEF Setsockopt
<1>5. TableInv'
  BY <1>3, <1>4, SameTable DEF IInv
<1>6. CounterBounded'
  BY <1>3, <1>4, SameCounter DEF IInv
<1> QED
  BY <1>2, <1>4, <1>5, <1>6 DEF IInv, TypeOK, Setsockopt, Up, Outcomes

\* An explicit or an implicit bind, with whatever outcome sendto() then has.
LEMMA RecordBindingIInv ==
    ASSUME IInv, NEW s \in Sockets, NEW ip \in IPs, NEW port \in Ports,
           MayBind(s), Granted(s, ip, port), RecordBinding(s, ip, port),
           Up, ret' \in Outcomes
    PROVE  IInv'
<1>1. /\ slots' \in [Sockets -> SlotInfo]
      /\ sock_bind_table' \in [Ports -> Seq(BindInfo)]
      /\ TableInv'
  BY BindKeepsTable DEF IInv
<1>2. /\ n_zones_active' = n_zones_active
      /\ \A t \in Sockets : slots'[t].used = slots[t].used
  BY DEF IInv, TypeOK, SlotInfo, RecordBinding
<1>3. CounterBounded'
  BY <1>2, SameCounter DEF IInv
<1> QED
  BY <1>1, <1>2, <1>3 DEF IInv, TypeOK, Up

LEMMA SendToIInv == ASSUME IInv, NEW s \in Sockets, SendTo(s) PROVE IInv'
<1>1. ret' \in Outcomes /\ Up /\ phase' \in {"up", "closing", "down"}
  BY DEF SendTo, Outcomes, Up
<1>2. CASE UNCHANGED <<slots, n_zones_active, sock_bind_table>>
  BY <1>1, <1>2, ReturnIInv
<1>3. ASSUME ~slots[s].bound, NEW port \in Ports, Granted(s, INADDR_ANY, port),
             RecordBinding(s, INADDR_ANY, port)
      PROVE  IInv'
  <2>1. MayBind(s) /\ INADDR_ANY \in IPs
    BY <1>3 DEF SendTo, MayBind, IPs
  <2> QED
    BY <1>1, <1>3, <2>1, RecordBindingIInv
<1> QED
  BY <1>2, <1>3 DEF SendTo, EnsureBound

LEMMA ReleaseIInv ==
    ASSUME IInv, NEW s \in Sockets, slots[s].used, Release(s), UNCHANGED phase
    PROVE  IInv'
<1>1. /\ slots' \in [Sockets -> SlotInfo]
      /\ sock_bind_table' \in [Ports -> Seq(BindInfo)]
      /\ TableInv'
  BY ReleaseKeepsTable DEF IInv
<1>2. CounterBounded' /\ n_zones_active' \in 0 .. 2 * NumSockets + 1
  BY ReleaseKeepsCounter DEF IInv
<1> QED
  BY <1>1, <1>2 DEF IInv, TypeOK, Release, Outcomes

LEMMA NextIInv == IInv /\ [Next]_vars => IInv'
<1> SUFFICES ASSUME IInv, [Next]_vars PROVE IInv'
  OBVIOUS
<1>0. phase \in {"up", "closing", "down"} /\ ret \in Outcomes
  BY DEF IInv, TypeOK
<1>1. ASSUME NEW e \in Outcomes, Up, Return(e) PROVE IInv'
  BY <1>0, <1>1, ReturnIInv DEF Up, Return
<1>2. CASE SocketCalls
  BY <1>1, <1>2, SocketIInv DEF SocketCalls, SocketRefused, Outcomes
<1>3. CASE OptionCalls
  BY <1>1, <1>3, SetsockoptIInv DEF OptionCalls, OptionRefused, Outcomes
<1>4. CASE BindCalls
  <2>1. ASSUME NEW s \in Sockets, BindRefused(s) PROVE IInv'
    BY <1>1, <2>1 DEF BindRefused, Outcomes
  <2>2. ASSUME NEW s \in Sockets, NEW ip \in IPs, NEW port \in Ports, Bind(s, ip, port)
        PROVE  IInv'
    BY <2>2, RecordBindingIInv DEF Bind, Outcomes
  <2> QED
    BY <1>4, <2>1, <2>2 DEF BindCalls
<1>5. CASE SendCalls
  <2>1. ASSUME NEW s \in Sockets, SendRefused(s) PROVE IInv'
    BY <1>1, <2>1 DEF SendRefused, Outcomes
  <2> QED
    BY <1>5, <2>1, SendToIInv DEF SendCalls
<1>6. CASE CloseCalls
  BY <1>1, <1>6, ReleaseIInv DEF CloseCalls, CloseRefused, Close, Up, Outcomes
<1>7. CASE CleanupSteps
  <2>1. CASE Cleanup
    BY <2>1, ReturnIInv DEF Cleanup, Return, Outcomes
  <2>2. ASSUME NEW s \in Sockets, CleanupClose(s) PROVE IInv'
    BY <2>2, ReleaseIInv DEF CleanupClose
  <2>3. CASE CleanupDone
    BY <1>0, <2>3, ReturnIInv DEF CleanupDone
  <2> QED
    BY <1>7, <2>1, <2>2, <2>3 DEF CleanupSteps
<1>8. CASE UNCHANGED vars
  BY <1>0, <1>8, ReturnIInv DEF vars
<1> QED
  BY <1>2, <1>3, <1>4, <1>5, <1>6, <1>7, <1>8 DEF Next

LEMMA Invariant == Spec => []IInv
BY InitIInv, NextIInv, PTL DEF Spec

-----------------------------------------------------------------------------
\* The descriptors and the table are well formed; the counter of udpdk_socket,
\* which only goes up, stops at 2 * NUM_SOCKETS_MAX + 1.
THEOREM TypeCorrect == Spec => []TypeOK
BY Invariant, PTL DEF IInv

\* The table that the poller reads names only open sockets, each under its
\* own port and address.
THEOREM TableOwned == Spec => []BindingsOwned
BY Invariant, PTL DEF IInv, TableInv

\* A bound socket is in the table exactly once, so that udpdk_close removes
\* all there is of it.
THEOREM TableComplete == Spec => []BoundOnce
BY Invariant, PTL DEF IInv, TableInv

\* btable_can_bind, which looks at one binding at a time and only at the
\* moment of the bind, keeps all the sockets of a port entitled to share it.
THEOREM SharingAlwaysLegal == Spec => []SharingLegal
BY Invariant, PTL DEF IInv, TableInv

-----------------------------------------------------------------------------
(* The allocators of the table. *)

Entries == {at \in Ports \X (1 .. NumSockets + 1) :
                at[2] \in DOMAIN sock_bind_table[at[1]]}

EntryOwner == [at \in Entries |-> sock_bind_table[at[1]][at[2]].sockfd]

\* An entry is known by its socket: the socket tells the port, and is in the
\* list of that port once.
LEMMA OwnersDistinct ==
    ASSUME TypeOK, TableInv
    PROVE  EntryOwner \in Injection(Entries, Sockets)
<1>1. \A at \in Entries : /\ at[1] \in Ports
                          /\ at[2] \in DOMAIN sock_bind_table[at[1]]
                          /\ EntryOwner[at] = sock_bind_table[at[1]][at[2]].sockfd
                          /\ EntryOwner[at] \in Sockets
                          /\ at = <<at[1], at[2]>>
  BY ListType DEF Entries, EntryOwner, BindInfo
<1>2. EntryOwner \in [Entries -> Sockets]
  BY <1>1 DEF EntryOwner
<1>3. ASSUME NEW x \in Entries, NEW y \in Entries, EntryOwner[x] = EntryOwner[y]
      PROVE  x = y
  <2> DEFINE s == EntryOwner[x]
  <2>1. /\ s \in Bound
        /\ slots[s].udp_port = x[1] /\ slots[s].udp_port = y[1]
    BY <1>1, <1>3 DEF TableInv, BindingsOwned, Bound
  <2>2. OnceIn(sock_bind_table[x[1]], s)
    BY <2>1 DEF TableInv, BoundOnce
  <2>3. PICK i \in DOMAIN sock_bind_table[x[1]] :
            \A j \in DOMAIN sock_bind_table[x[1]] :
                sock_bind_table[x[1]][j].sockfd = s <=> i = j
    BY <2>2 DEF OnceIn
  <2>4. x[1] = y[1]
    BY <2>1
  <2> HIDE DEF s
  <2>5. i = x[2]
    BY <1>1, <2>3 DEF s
  <2>6. i = y[2]
    BY <1>1, <1>3, <2>3, <2>4 DEF s
  <2> QED
    BY <1>1, <2>4, <2>5, <2>6
<1> QED
  BY <1>2, <1>3, Fun_IsInj

\* The bind_info and node allocators have NUM_SOCKETS_MAX elements each, and
\* btable_add_binding does not check what it gets from them: there is always
\* one left for the socket that binds.
THEOREM AllocatorsAlwaysSuffice == Spec => []AllocatorsSuffice
<1>1. IInv => AllocatorsSuffice
  <2> SUFFICES ASSUME IInv PROVE Cardinality(Entries) <= NumSockets
    BY DEF AllocatorsSuffice, Entries
  <2>1. Cardinality(Entries) <= Cardinality(Sockets)
    BY OwnersDistinct, SocketsFinite, FS_Injection DEF IInv
  <2> QED
    BY <2>1, SocketsFinite
<1> QED
  BY <1>1, Invariant, PTL

-----------------------------------------------------------------------------
(* Cleanup. *)

\* When no socket is bound, nothing is left in the table.
LEMMA NoneBoundTableEmpty ==
    ASSUME TypeOK, BindingsOwned, Bound = {}, NEW p \in Ports
    PROVE  sock_bind_table[p] = <<>>
<1>1. /\ sock_bind_table[p] \in Seq(BindInfo)
      /\ DOMAIN sock_bind_table[p] = 1 .. Len(sock_bind_table[p])
      /\ Len(sock_bind_table[p]) \in Nat
  BY ListType
<1>2. 1 \notin DOMAIN sock_bind_table[p]
  BY ListType DEF BindingsOwned, Bound, BindInfo
<1>3. Len(sock_bind_table[p]) = 0
  BY <1>1, <1>2
<1> QED
  BY <1>1, <1>3

\* udpdk_cleanup destroys the allocators only once every binding, explicit or
\* implicit, has been given back.
THEOREM CleanupAlwaysUnbinds == Spec => []CleanupUnbindsAll
<1>1. Init => CleanupUnbindsAll
  BY DEF Init, CleanupUnbindsAll
<1>2. IInv /\ CleanupUnbindsAll /\ [Next]_vars => CleanupUnbindsAll'
  <2> SUFFICES ASSUME IInv, CleanupUnbindsAll, [Next]_vars, phase' = "down"
               PROVE  \A p \in Ports : sock_bind_table'[p] = <<>>
    BY DEF CleanupUnbindsAll
  <2>1. CASE CleanupDone
    BY <2>1, NoneBoundTableEmpty DEF IInv, TableInv, CleanupDone
  <2>2. CASE UNCHANGED vars
    BY <2>2 DEF vars, CleanupUnbindsAll
  <2>3. CASE Next /\ ~CleanupDone
    <3>1. Up \/ Cleanup \/ \E s \in Sockets : CleanupClose(s)
      BY <2>3 DEF Next, SocketCalls, SocketRefused, Socket, OptionCalls,
                  OptionRefused, Setsockopt, BindCalls, BindRefused, Bind,
                  SendCalls, SendRefused, SendTo, CloseCalls, CloseRefused,
                  Close, CleanupSteps
    <3> QED
      BY <3>1 DEF Up, Cleanup, CleanupClose
  <2> QED
    BY <2>1, <2>2, <2>3
<1> QED
  BY <1>1, <1>2, Invariant, PTL DEF Spec

-----------------------------------------------------------------------------
(* How a step changes the list of a port. *)

LEMMA BindList ==
    ASSUME TypeOK, NEW s \in Sockets, NEW ip \in IPs, NEW port \in Ports,
           RecordBinding(s, ip, port)
    PROVE  LET b   == NewBindInfo(s, ip, slots[s].so_options)
               old == sock_bind_table[port]
               new == sock_bind_table'[port]
           IN  /\ \A p \in Ports \ {port} : sock_bind_table'[p] = sock_bind_table[p]
               /\ At(old, b) \in DOMAIN new /\ new[At(old, b)] = b
               /\ \A k \in DOMAIN old : /\ Shift(b, k) \in DOMAIN new \ {At(old, b)}
                                        /\ new[Shift(b, k)] = old[k]
               /\ \A j \in DOMAIN new :
                     j = At(old, b) \/ \E k \in DOMAIN old : j = Shift(b, k)
<1> DEFINE b   == NewBindInfo(s, ip, slots[s].so_options)
           old == sock_bind_table[port]
           new == sock_bind_table'[port]
<1>1. /\ new = Insert(old, b)
      /\ \A p \in Ports \ {port} : sock_bind_table'[p] = sock_bind_table[p]
  BY DEF RecordBinding, TypeOK
<1>2. b \in BindInfo /\ old \in Seq(BindInfo)
  BY NewBindInfoType, ListType
<1> HIDE DEF b, old, new
<1> DEFINE ins == Insert(old, b)
<1>3. /\ DOMAIN ins = 1 .. Len(old) + 1
      /\ At(old, b) \in 1 .. Len(old) + 1
      /\ ins[At(old, b)] = b
      /\ \A k \in DOMAIN old : /\ Shift(b, k) \in (1 .. Len(old) + 1) \ {At(old, b)}
                               /\ ins[Shift(b, k)] = old[k]
      /\ \A j \in 1 .. Len(old) + 1 :
            j = At(old, b) \/ \E k \in DOMAIN old : j = Shift(b, k)
  BY <1>2, InsertElements
<1>4. new = ins
  BY <1>1
<1> HIDE DEF ins
<1> QED
  BY <1>1, <1>3, <1>4 DEF b, old, new

LEMMA ReleaseList ==
    ASSUME TypeOK, TableInv, NEW s \in Sockets, slots[s].bound, Release(s)
    PROVE  LET port == slots[s].udp_port
               old  == sock_bind_table[port]
               new  == sock_bind_table'[port]
           IN  /\ port \in Ports
               /\ \A p \in Ports \ {port} : sock_bind_table'[p] = sock_bind_table[p]
               /\ \E x \in DOMAIN old :
                     /\ \A j \in DOMAIN old : old[j].sockfd = s <=> x = j
                     /\ \A j \in DOMAIN new : /\ j \in Nat
                                              /\ Kept(x, j) \in DOMAIN old \ {x}
                                              /\ new[j] = old[Kept(x, j)]
                     /\ \A k \in DOMAIN old \ {x} : \E j \in DOMAIN new : k = Kept(x, j)
<1> DEFINE port == slots[s].udp_port
           old  == sock_bind_table[port]
           new  == sock_bind_table'[port]
<1>1. port \in Ports
  BY DEF TypeOK, SlotInfo
<1>2. /\ new = Remove(old, s)
      /\ \A p \in Ports \ {port} : sock_bind_table'[p] = sock_bind_table[p]
  BY <1>1 DEF Release, Unbind, TypeOK
<1>3. PICK x \in DOMAIN old : \A j \in DOMAIN old : old[j].sockfd = s <=> x = j
  BY DEF TableInv, BoundOnce, Bound, OnceIn
<1>4. old \in Seq(BindInfo)
  BY <1>1, ListType
<1> HIDE DEF port, old, new
<1>5. new = Without(old, x)
  BY <1>2, <1>3, <1>4, RemoveOnly
<1>6. \A j \in DOMAIN new : /\ j \in Nat
                            /\ Kept(x, j) \in DOMAIN old \ {x}
                            /\ new[j] = old[Kept(x, j)]
  BY <1>3, <1>4, <1>5, WithoutElements
<1>7. \A k \in DOMAIN old \ {x} : \E j \in DOMAIN new : k = Kept(x, j)
  BY <1>3, <1>4, <1>5, WithoutKeepsRest
<1> QED
  BY <1>1, <1>2, <1>3, <1>6, <1>7 DEF port, old, new

\* The steps, as far as the slots and the table go.
LEMMA TableSteps ==
    ASSUME IInv, [Next]_vars
    PROVE  \/ UNCHANGED sock_bind_table
           \/ \E s \in Sockets, ip \in IPs, port \in Ports :
                 MayBind(s) /\ Granted(s, ip, port) /\ RecordBinding(s, ip, port)
           \/ \E s \in Sockets : slots[s].used /\ slots[s].bound /\ Release(s)
<1>1. ASSUME NEW s \in Sockets, slots[s].used, Release(s)
      PROVE  UNCHANGED sock_bind_table \/ (slots[s].used /\ slots[s].bound /\ Release(s))
  BY <1>1 DEF Release, Unbind
<1>2. CASE SocketCalls
  BY <1>2 DEF SocketCalls, SocketRefused, Return, Socket
<1>3. CASE OptionCalls
  BY <1>3 DEF OptionCalls, OptionRefused, Return, Setsockopt
<1>4. CASE BindCalls
  BY <1>4 DEF BindCalls, BindRefused, Return, Bind
<1>5. CASE SendCalls
  BY <1>5 DEF SendCalls, SendRefused, Return, SendTo, EnsureBound, MayBind, IPs
<1>6. CASE CloseCalls
  BY <1>1, <1>6 DEF CloseCalls, CloseRefused, Return, Close
<1>7. CASE CleanupSteps
  BY <1>1, <1>7 DEF CleanupSteps, Cleanup, Return, CleanupClose, CleanupDone
<1>8. CASE UNCHANGED vars
  BY <1>8 DEF vars
<1> QED
  BY <1>2, <1>3, <1>4, <1>5, <1>6, <1>7, <1>8 DEF Next

-----------------------------------------------------------------------------
(* The order of delivery. *)

LEMMA StepOrderStable ==
    ASSUME IInv, [Next]_vars
    PROVE  OrderStable
<1> SUFFICES ASSUME NEW p \in Ports,
                    NEW i \in DOMAIN sock_bind_table[p], NEW j \in DOMAIN sock_bind_table[p],
                    NEW k \in DOMAIN sock_bind_table'[p], NEW l \in DOMAIN sock_bind_table'[p],
                    sock_bind_table[p][i] = sock_bind_table'[p][k],
                    sock_bind_table[p][j] = sock_bind_table'[p][l]
             PROVE  i < j <=> k < l
  BY DEF OrderStable
<1>1. TypeOK /\ TableInv
  BY DEF IInv
<1>2. CASE sock_bind_table'[p] = sock_bind_table[p]
  BY <1>1, <1>2, EntryBySocket
<1>3. ASSUME NEW s \in Sockets, NEW ip \in IPs, MayBind(s), RecordBinding(s, ip, p)
      PROVE  i < j <=> k < l
  <2> DEFINE b   == NewBindInfo(s, ip, slots[s].so_options)
             old == sock_bind_table[p]
             new == sock_bind_table'[p]
  <2>1. /\ At(old, b) \in DOMAIN new /\ new[At(old, b)] = b
        /\ \A m \in DOMAIN new : m = At(old, b) \/ \E n \in DOMAIN old : m = Shift(b, n)
        /\ \A n \in DOMAIN old : new[Shift(b, n)] = old[n]
    BY <1>1, <1>3, BindList
  <2>2. b.sockfd = s /\ \A n \in DOMAIN old : old[n].sockfd # s
    BY <1>1, <1>3, NoEntryWhenUnbound DEF MayBind, TableInv, NewBindInfo
  <2>3. DOMAIN old \subseteq Nat
    BY <1>1, ListType
  <2>4. \A n, m \in DOMAIN old : old[n] = old[m] => n = m
    BY <1>1, EntriesDiffer
  <2> HIDE DEF b, old, new
  <2>5. ASSUME NEW n \in DOMAIN old, NEW m \in DOMAIN new, old[n] = new[m]
        PROVE  m = Shift(b, n)
    BY <2>1, <2>2, <2>4, <2>5
  <2>6. k = Shift(b, i) /\ l = Shift(b, j)
    BY <2>5 DEF old, new
  <2> QED
    BY <2>3, <2>6, ShiftMonotone DEF old
<1>4. ASSUME NEW s \in Sockets, slots[s].bound, Release(s), slots[s].udp_port = p
      PROVE  i < j <=> k < l
  <2> DEFINE old == sock_bind_table[p]
             new == sock_bind_table'[p]
  <2>1. PICK x \in DOMAIN old :
           \A m \in DOMAIN new : /\ m \in Nat
                                 /\ Kept(x, m) \in DOMAIN old \ {x}
                                 /\ new[m] = old[Kept(x, m)]
    BY <1>1, <1>4, ReleaseList
  <2>2. \A n, m \in DOMAIN old : old[n] = old[m] => n = m
    BY <1>1, EntriesDiffer
  <2>3. DOMAIN old \subseteq Nat
    BY <1>1, ListType
  <2>4. i = Kept(x, k) /\ j = Kept(x, l)
    BY <2>1, <2>2
  <2> QED
    BY <2>1, <2>3, <2>4, KeptMonotone
<1> QED
  BY <1>1, <1>2, <1>3, <1>4, TableSteps, BindList, ReleaseList

\* Whatever sockets bind and close, two bindings of a port that both stay are
\* served by the poller in the order they were: who gets a packet does not depend
\* on the coming and going of others in between.
THEOREM DeliveryOrderAlwaysStable == Spec => DeliveryOrderStable
<1>1. IInv /\ [Next]_vars => [OrderStable]_vars
  BY StepOrderStable
<1> QED
  BY <1>1, Invariant, PTL DEF Spec, DeliveryOrderStable
-----------------------------------------------------------------------------
(* Sockets implements UdpSockets.  Open, Name and Shares are what stands    *)
(* for the variables of UdpSockets.                                         *)

Open == {s \in Sockets : slots[s].used}

Name == [s \in Sockets |-> IF slots[s].bound THEN <<slots[s].ip_addr, slots[s].udp_port>>
                                             ELSE None]

Sharing(s) == \E i \in DOMAIN sock_bind_table[slots[s].udp_port] :
                 LET b == sock_bind_table[slots[s].udp_port][i]
                 IN  b.sockfd = s /\ Reusable(b)

Shares == {s \in Bound : Sharing(s)}

\* The steps of UdpSockets, in these terms.
Named(p) == {s \in Sockets : Name[s] # None /\ Name[s][2] = p}

Joins(ip, p, optIn) == \A o \in Named(p) : /\ ip # INADDR_ANY
                                           /\ Name[o][1] = INADDR_ANY => optIn
                                           /\ Name[o][1] = ip => optIn /\ o \in Shares

Binds(s, ip, p, optIn) == /\ s \in Open /\ Name[s] = None
                          /\ Joins(ip, p, optIn)
                          /\ Name' = [Name EXCEPT ![s] = <<ip, p>>]
                          /\ Shares' = IF optIn THEN Shares \cup {s} ELSE Shares
                          /\ UNCHANGED Open

LEMMA AbstractStutter ==
    ASSUME UNCHANGED <<Open, Name, Shares, ret>>
    PROVE  UNCHANGED Abstract!vars
BY DEF Abstract!vars, Open, Name, Shares, Sharing

LEMMA AbstractRefuse ==
    ASSUME ret' # "OK", ret' = "EADDRINUSE" => \E p \in Ports : Named(p) # {},
           UNCHANGED <<Open, Name, Shares>>
    PROVE  Abstract!Next
BY DEF Abstract!Next, Abstract!Refuse, Abstract!OnPort, Open, Name, Shares, Sharing, Named

LEMMA AbstractQuery ==
    ASSUME ret' = "OK", UNCHANGED <<Open, Name, Shares>>
    PROVE  Abstract!Next
BY DEF Abstract!Next, Abstract!Query, Open, Name, Shares, Sharing

LEMMA AbstractOpen ==
    ASSUME NEW s \in Sockets \ Open, Open' = Open \cup {s}, ret' = "OK",
           UNCHANGED <<Name, Shares>>
    PROVE  Abstract!Next
BY DEF Abstract!Next, Abstract!Open, Open, Name, Shares, Sharing

LEMMA AbstractBind ==
    ASSUME NEW s \in Sockets, NEW ip \in IPs, NEW p \in Ports, NEW optIn \in BOOLEAN,
           Binds(s, ip, p, optIn)
    PROVE  Abstract!Bind(s, ip, p, optIn)
<1>1. Abstract!MayJoin(ip, p, optIn)
  BY DEF Binds, Joins, Abstract!MayJoin, Abstract!OnPort, Open, Name, Shares, Sharing, Named
<1> QED
  BY <1>1 DEF Abstract!Bind, Binds, Open, Name, Shares, Sharing

LEMMA AbstractExplicitBind ==
    ASSUME NEW s \in Sockets, NEW ip \in IPs, NEW p \in Ports, NEW optIn \in BOOLEAN,
           Binds(s, ip, p, optIn), ret' = "OK"
    PROVE  Abstract!Next
BY AbstractBind DEF Abstract!Next, Abstract!ExplicitBind

LEMMA AbstractImplicitBind ==
    ASSUME NEW s \in Sockets, NEW p \in Ports, NEW optIn \in BOOLEAN,
           Named(p) = {}, Binds(s, INADDR_ANY, p, optIn), ret' \in {"OK", "ENOMEM", "ENOBUFS"}
    PROVE  Abstract!Next
<1>1. Abstract!Bind(s, INADDR_ANY, p, optIn)
  BY AbstractBind DEF IPs
<1>2. Abstract!OnPort(p) = {}
  BY DEF Abstract!OnPort, Named, Name
<1> QED
  BY <1>1, <1>2 DEF Abstract!Next, Abstract!ImplicitBind

LEMMA AbstractClose ==
    ASSUME NEW s \in Open, Open' = Open \ {s}, Name' = [Name EXCEPT ![s] = None],
           Shares' = Shares \ {s}, ret' = "OK"
    PROVE  Abstract!Next
BY DEF Abstract!Next, Abstract!Close, Open, Name, Shares, Sharing

\* Who has a name on a port, by the slots and by the table.
LEMMA NameIs ==
    ASSUME TypeOK, NEW s \in Sockets
    PROVE  /\ Name[s] # None <=> slots[s].bound
           /\ slots[s].bound => Name[s][1] = slots[s].ip_addr /\ Name[s][2] = slots[s].udp_port
BY DEF Name, None

LEMMA NamedListed ==
    ASSUME TypeOK, TableInv, NEW p \in Ports
    PROVE  /\ \A o \in Named(p) : \E i \in DOMAIN sock_bind_table[p] :
                 LET c == sock_bind_table[p][i]
                 IN  c.sockfd = o /\ c.ip_addr = Name[o][1] /\ (Reusable(c) => o \in Shares)
           /\ sock_bind_table[p] # <<>> => Named(p) # {}
           /\ sock_bind_table[p] = <<>> => Named(p) = {}
<1>1. ASSUME NEW o \in Named(p)
      PROVE  \E i \in DOMAIN sock_bind_table[p] :
                LET c == sock_bind_table[p][i]
                IN  c.sockfd = o /\ c.ip_addr = Name[o][1] /\ (Reusable(c) => o \in Shares)
  <2>1. o \in Bound /\ slots[o].udp_port = p
    BY NameIs DEF Named, Bound
  <2>2. PICK i \in DOMAIN sock_bind_table[p] : sock_bind_table[p][i].sockfd = o
    BY <2>1 DEF TableInv, BoundOnce, OnceIn
  <2>3. sock_bind_table[p][i].ip_addr = Name[o][1]
    BY <2>1, <2>2, NameIs DEF TableInv, BindingsOwned, Bound
  <2>4. Reusable(sock_bind_table[p][i]) => o \in Shares
    BY <2>1, <2>2 DEF Shares, Sharing
  <2> QED
    BY <2>2, <2>3, <2>4
<1>2. ASSUME sock_bind_table[p] # <<>> PROVE Named(p) # {}
  <2>1. /\ sock_bind_table[p] \in Seq(BindInfo)
        /\ DOMAIN sock_bind_table[p] = 1 .. Len(sock_bind_table[p])
        /\ Len(sock_bind_table[p]) \in Nat
    BY ListType
  <2>2. 1 \in DOMAIN sock_bind_table[p]
    BY <1>2, <2>1
  <2> DEFINE o == sock_bind_table[p][1].sockfd
  <2>3. o \in Sockets /\ slots[o].bound /\ slots[o].udp_port = p
    BY <2>2, ListType DEF TableInv, BindingsOwned, BindInfo
  <2>4. o \in Named(p)
    BY <2>3, NameIs DEF Named
  <2> QED
    BY <2>4
<1>3. ASSUME sock_bind_table[p] = <<>> PROVE Named(p) = {}
  BY <1>1, <1>3
<1> QED
  BY <1>1, <1>2, <1>3

\* The names, when one slot changes.
LEMMA NameUpdate ==
    ASSUME NEW s \in Sockets, \A t \in Sockets \ {s} : slots'[t] = slots[t]
    PROVE  Name' = [Name EXCEPT ![s] = IF slots'[s].bound
                                       THEN <<slots'[s].ip_addr, slots'[s].udp_port>>
                                       ELSE None]
<1> DEFINE v == IF slots'[s].bound THEN <<slots'[s].ip_addr, slots'[s].udp_port>> ELSE None
<1>1. Name' = [t \in Sockets |-> IF slots'[t].bound
                                 THEN <<slots'[t].ip_addr, slots'[t].udp_port>> ELSE None]
  BY DEF Name, None
<1>2. \A t \in Sockets : t # s => Name'[t] = Name[t]
  BY <1>1 DEF Name
<1>3. Name'[s] = v
  BY <1>1
<1>4. DOMAIN Name = Sockets
  BY DEF Name
<1> HIDE DEF v
<1>5. DOMAIN Name' = Sockets /\ Name' = [t \in Sockets |-> Name'[t]]
  BY <1>1
<1> QED
  BY <1>2, <1>3, <1>4, <1>5 DEF v

\* The names and the shares, when no list changes.
LEMMA SameNames ==
    ASSUME UNCHANGED sock_bind_table,
           \A s \in Sockets : /\ slots'[s].bound = slots[s].bound
                              /\ slots[s].bound => /\ slots'[s].udp_port = slots[s].udp_port
                                                   /\ slots'[s].ip_addr = slots[s].ip_addr
    PROVE  UNCHANGED <<Name, Shares>>
<1>1. Name' = Name
  BY DEF Name
<1>2. Bound' = Bound
  BY DEF Bound
<1>3. \A s \in Bound : Sharing(s)' <=> Sharing(s)
  BY DEF Sharing, Bound
<1> QED
  BY <1>1, <1>2, <1>3 DEF Shares

LEMMA SameSlots ==
    ASSUME UNCHANGED <<slots, sock_bind_table>>
    PROVE  UNCHANGED <<Open, Name, Shares>>
BY SameNames DEF Open

\* btable_can_bind lets a socket join a port only as UdpSockets does, although it
\* compares the options of the new socket with one binding at a time.
LEMMA GrantedJoins ==
    ASSUME TypeOK, TableInv, NEW s \in Sockets, NEW ip, NEW port \in Ports, Granted(s, ip, port)
    PROVE  Joins(ip, port, Reusable(NewBindInfo(s, ip, slots[s].so_options)))
<1> DEFINE so == slots[s].so_options
           optIn == Reusable(NewBindInfo(s, ip, so))
<1>1. optIn <=> HasOption(so, SO_REUSEADDR) \/ HasOption(so, SO_REUSEPORT)
  BY DEF NewBindInfo, Reusable
<1> HIDE DEF optIn
<1> SUFFICES ASSUME NEW o \in Named(port)
             PROVE  /\ ip # INADDR_ANY
                    /\ Name[o][1] = INADDR_ANY => optIn
                    /\ Name[o][1] = ip => optIn /\ o \in Shares
  BY DEF Joins, optIn
<1>2. PICK i \in DOMAIN sock_bind_table[port] :
         LET c == sock_bind_table[port][i]
         IN  c.sockfd = o /\ c.ip_addr = Name[o][1] /\ (Reusable(c) => o \in Shares)
  BY NamedListed
<1>3. Compatible(sock_bind_table[port][i], ip, so)
  BY DEF Granted, CanBind
<1> QED
  BY <1>1, <1>2, <1>3 DEF Compatible, Reusable

LEMMA RecordBinds ==
    ASSUME TypeOK, TableInv, NEW s \in Sockets, NEW ip \in IPs, NEW port \in Ports,
           MayBind(s), Granted(s, ip, port), RecordBinding(s, ip, port)
    PROVE  \E optIn \in BOOLEAN : Binds(s, ip, port, optIn)
<1> DEFINE b   == NewBindInfo(s, ip, slots[s].so_options)
           old == sock_bind_table[port]
           new == sock_bind_table'[port]
<1>1. /\ \A p \in Ports \ {port} : sock_bind_table'[p] = sock_bind_table[p]
      /\ At(old, b) \in DOMAIN new /\ new[At(old, b)] = b
      /\ \A k \in DOMAIN old : Shift(b, k) \in DOMAIN new /\ new[Shift(b, k)] = old[k]
      /\ \A j \in DOMAIN new : j = At(old, b) \/ \E k \in DOMAIN old : j = Shift(b, k)
  BY BindList
<1>2. b.sockfd = s /\ \A k \in DOMAIN old : old[k].sockfd # s
  BY NoEntryWhenUnbound DEF MayBind, TableInv, NewBindInfo
<1>3. /\ slots'[s].used /\ slots'[s].bound /\ slots'[s].udp_port = port /\ slots'[s].ip_addr = ip
      /\ \A t \in Sockets \ {s} : slots'[t] = slots[t]
      /\ slots[s].used /\ ~slots[s].bound
  BY DEF RecordBinding, TypeOK, SlotInfo, MayBind
<1>4. Joins(ip, port, Reusable(b))
  BY GrantedJoins
<1> HIDE DEF b, old, new
<1>5. s \in Open /\ UNCHANGED Open
  BY <1>3 DEF Open
<1>6. Name[s] = None /\ Name' = [Name EXCEPT ![s] = <<ip, port>>]
  <2>1. ~slots[s].bound /\ slots'[s].bound
    BY <1>3
  <2>2. Name[s] = None
    BY <2>1 DEF Name
  <2>3. <<slots'[s].ip_addr, slots'[s].udp_port>> = <<ip, port>>
    BY <1>3
  <2> QED
    BY <1>3, <2>1, <2>2, <2>3, NameUpdate
<1>7. s \notin Shares
  BY <1>3 DEF Shares, Bound
<1>8. s \in Shares' <=> Reusable(b)
  <2>1. Sharing(s)' <=> \E j \in DOMAIN new : new[j].sockfd = s /\ Reusable(new[j])
    BY <1>3 DEF Sharing, new
  <2>2. \A j \in DOMAIN new : new[j].sockfd = s <=> j = At(old, b)
    BY <1>1, <1>2
  <2>3. Sharing(s)' <=> Reusable(b)
    BY <1>1, <2>1, <2>2
  <2> QED
    BY <1>3, <2>3 DEF Shares, Bound
<1>9. ASSUME NEW t \in Sockets, t # s PROVE t \in Shares' <=> t \in Shares
  <2>1. slots'[t] = slots[t] /\ slots[t].udp_port \in Ports
    BY <1>3, <1>9 DEF TypeOK, SlotInfo
  <2>2. CASE slots[t].udp_port # port
    BY <1>1, <2>1, <2>2 DEF Shares, Bound, Sharing
  <2>3. CASE slots[t].udp_port = port
    <3>1. Sharing(t)' <=> \E j \in DOMAIN new : new[j].sockfd = t /\ Reusable(new[j])
      BY <2>1, <2>3 DEF Sharing, new
    <3>2. Sharing(t) <=> \E k \in DOMAIN old : old[k].sockfd = t /\ Reusable(old[k])
      BY <2>1, <2>3 DEF Sharing, old
    <3>3. Sharing(t)' <=> Sharing(t)
      BY <1>1, <1>2, <1>9, <3>1, <3>2
    <3> QED
      BY <2>1, <3>3 DEF Shares, Bound
  <2> QED
    BY <2>2, <2>3
<1>10. Shares \subseteq Sockets /\ Shares' \subseteq Sockets
  BY DEF Shares, Bound
<1>11. Shares' = IF Reusable(b) THEN Shares \cup {s} ELSE Shares
  BY <1>7, <1>8, <1>9, <1>10
<1>12. Reusable(b) \in BOOLEAN
  BY DEF Reusable
<1> QED
  BY <1>4, <1>5, <1>6, <1>11, <1>12 DEF Binds, b

LEMMA ReleaseCloses ==
    ASSUME TypeOK, TableInv, NEW s \in Sockets, slots[s].used, Release(s)
    PROVE  Abstract!Next
<1>1. /\ ~slots'[s].used /\ ~slots'[s].bound /\ ret' = "OK"
      /\ \A t \in Sockets \ {s} : slots'[t] = slots[t]
  BY DEF Release, TypeOK, SlotInfo
<1>2. s \in Open /\ Open' = Open \ {s}
  BY <1>1 DEF Open
<1>3. Name' = [Name EXCEPT ![s] = None]
  BY <1>1, NameUpdate
<1>4. ASSUME NEW t \in Sockets, t # s PROVE t \in Shares' <=> t \in Shares
  <2>1. slots'[t] = slots[t] /\ slots[t].udp_port \in Ports
    BY <1>1, <1>4 DEF TypeOK, SlotInfo
  <2>2. CASE sock_bind_table'[slots[t].udp_port] = sock_bind_table[slots[t].udp_port]
    BY <2>1, <2>2 DEF Shares, Bound, Sharing
  <2>3. CASE slots[s].bound /\ slots[t].udp_port = slots[s].udp_port
    <3> DEFINE old == sock_bind_table[slots[s].udp_port]
               new == sock_bind_table'[slots[s].udp_port]
    <3>1. PICK x \in DOMAIN old :
             /\ \A j \in DOMAIN old : old[j].sockfd = s <=> x = j
             /\ \A j \in DOMAIN new : /\ j \in Nat
                                      /\ Kept(x, j) \in DOMAIN old \ {x}
                                      /\ new[j] = old[Kept(x, j)]
             /\ \A k \in DOMAIN old \ {x} : \E j \in DOMAIN new : k = Kept(x, j)
      BY <2>3, ReleaseList
    <3>2. Sharing(t)' <=> \E j \in DOMAIN new : new[j].sockfd = t /\ Reusable(new[j])
      BY <2>1, <2>3 DEF Sharing
    <3>3. Sharing(t) <=> \E k \in DOMAIN old : old[k].sockfd = t /\ Reusable(old[k])
      BY <2>1, <2>3 DEF Sharing
    <3> HIDE DEF old, new
    <3>4. Sharing(t)' <=> Sharing(t)
      BY <1>4, <3>1, <3>2, <3>3
    <3> QED
      BY <2>1, <3>4 DEF Shares, Bound
  <2>4. CASE ~slots[s].bound
    BY <2>2, <2>4 DEF Release, Unbind
  <2> QED
    BY <2>1, <2>2, <2>3, <2>4, ReleaseList
<1>5. s \notin Shares'
  BY <1>1 DEF Shares, Bound
<1>6. Shares' = Shares \ {s}
  <2>1. Shares \subseteq Sockets /\ Shares' \subseteq Sockets
    BY DEF Shares, Bound
  <2> QED
    BY <1>4, <1>5, <2>1
<1> QED
  BY <1>1, <1>2, <1>3, <1>6, AbstractClose

\* A call that is refused: the error tells the truth about the ports.
LEMMA RefusedRefuses ==
    ASSUME TypeOK, TableInv, NEW e \in Outcomes, Return(e), e # "OK",
           e = "EADDRINUSE" =>
              \E s \in Sockets, ip \in IPs, port \in Ports : ~Granted(s, ip, port)
    PROVE  Abstract!Next
<1>1. UNCHANGED <<Open, Name, Shares>>
  BY SameSlots DEF Return
<1>2. ASSUME NEW s \in Sockets, NEW ip \in IPs, NEW port \in Ports, ~Granted(s, ip, port)
      PROVE  Named(port) # {}
  <2>1. sock_bind_table[port] # <<>>
    BY <1>2 DEF Granted, CanBind
  <2> QED
    BY <2>1, NamedListed
<1> QED
  BY <1>1, <1>2, AbstractRefuse DEF Return

LEMMA SendToSends ==
    ASSUME TypeOK, TableInv, NEW s \in Sockets, SendTo(s)
    PROVE  Abstract!Next
<1>1. ret' \in {"OK", "ENOMEM", "ENOBUFS"} /\ slots[s].used
  BY DEF SendTo
<1>2. CASE UNCHANGED <<slots, sock_bind_table>>
  <2>1. UNCHANGED <<Open, Name, Shares>>
    BY <1>2, SameSlots
  <2> QED
    BY <1>1, <2>1, AbstractQuery, AbstractRefuse
<1>3. ASSUME NEW port \in Ports, ~slots[s].bound, FirstFreePort(sock_bind_table, port),
             Granted(s, INADDR_ANY, port), RecordBinding(s, INADDR_ANY, port)
      PROVE  Abstract!Next
  <2>1. MayBind(s) /\ INADDR_ANY \in IPs
    BY <1>1, <1>3 DEF MayBind, IPs
  <2>2. PICK optIn \in BOOLEAN : Binds(s, INADDR_ANY, port, optIn)
    BY <1>3, <2>1, RecordBinds
  <2>3. Named(port) = {}
    BY <1>3, GrantedJoins DEF Joins
  <2> QED
    BY <1>1, <2>2, <2>3, AbstractImplicitBind
<1> QED
  BY <1>2, <1>3 DEF SendTo, EnsureBound

LEMMA StepImplements ==
    ASSUME IInv, [Next]_vars
    PROVE  [Abstract!Next]_(Abstract!vars)
<1>0. TypeOK /\ TableInv
  BY DEF IInv
<1>1. CASE SocketCalls
  <2>1. CASE SocketRefused
    BY <1>0, <2>1, RefusedRefuses DEF SocketRefused, Outcomes
  <2>2. ASSUME NEW s \in Sockets, Socket(s) PROVE Abstract!Next
    <3>1. /\ ~slots[s].used /\ ret' = "OK" /\ UNCHANGED sock_bind_table
          /\ slots' = [slots EXCEPT ![s].used = TRUE, ![s].bound = FALSE, ![s].so_options = {}]
      BY <2>2 DEF Socket, Unused, TakeSlot
    <3>2. ~slots[s].bound
      BY <1>0, <3>1, BoundUsed
    <3>3. /\ slots'[s].used /\ slots'[s].bound = slots[s].bound
          /\ \A t \in Sockets \ {s} : slots'[t] = slots[t]
      BY <1>0, <3>1, <3>2 DEF TypeOK, SlotInfo
    <3>4. s \notin Open /\ Open' = Open \cup {s}
      BY <3>1, <3>3 DEF Open
    <3>5. \A t \in Sockets : /\ slots'[t].bound = slots[t].bound
                             /\ slots[t].bound => slots'[t] = slots[t]
      <4> TAKE t \in Sockets
      <4>1. CASE t = s
        BY <3>2, <3>3, <4>1
      <4>2. CASE t # s
        BY <3>3, <4>2
      <4> QED
        BY <4>1, <4>2
    <3>6. UNCHANGED <<Name, Shares>>
      BY <3>1, <3>5, SameNames
    <3> QED
      BY <3>1, <3>4, <3>6, AbstractOpen
  <2> QED
    BY <1>1, <2>1, <2>2 DEF SocketCalls
<1>2. CASE OptionCalls
  <2>1. ASSUME NEW s \in Sockets, OptionRefused(s) PROVE Abstract!Next
    BY <1>0, <2>1, RefusedRefuses DEF OptionRefused, Outcomes
  <2>2. ASSUME NEW s \in Sockets, NEW opt \in Options, NEW on \in BOOLEAN, Setsockopt(s, opt, on)
        PROVE  Abstract!Next
    <3>1. ret' = "OK" /\ UNCHANGED sock_bind_table
      BY <2>2 DEF Setsockopt
    <3>2. \A t \in Sockets : /\ slots'[t].used = slots[t].used
                             /\ slots'[t].bound = slots[t].bound
                             /\ slots'[t].udp_port = slots[t].udp_port
                             /\ slots'[t].ip_addr = slots[t].ip_addr
      BY <1>0, <2>2 DEF TypeOK, SlotInfo, Setsockopt
    <3>3. UNCHANGED <<Open, Name, Shares>>
      BY <3>1, <3>2, SameNames DEF Open
    <3> QED
      BY <3>1, <3>3, AbstractQuery
  <2> QED
    BY <1>2, <2>1, <2>2 DEF OptionCalls
<1>3. CASE BindCalls
  <2>1. ASSUME NEW s \in Sockets, BindRefused(s) PROVE Abstract!Next
    BY <1>0, <2>1, RefusedRefuses DEF BindRefused, Outcomes
  <2>2. ASSUME NEW s \in Sockets, NEW ip \in IPs, NEW port \in Ports, Bind(s, ip, port)
        PROVE  Abstract!Next
    <3>1. PICK optIn \in BOOLEAN : Binds(s, ip, port, optIn)
      BY <1>0, <2>2, RecordBinds DEF Bind
    <3> QED
      BY <2>2, <3>1, AbstractExplicitBind DEF Bind
  <2> QED
    BY <1>3, <2>1, <2>2 DEF BindCalls
<1>4. CASE SendCalls
  <2>1. ASSUME NEW s \in Sockets, SendRefused(s) PROVE Abstract!Next
    BY <1>0, <2>1, RefusedRefuses DEF SendRefused, Outcomes, IPs
  <2> QED
    BY <1>0, <1>4, <2>1, SendToSends DEF SendCalls
<1>5. CASE CloseCalls
  <2>1. ASSUME NEW s \in Sockets, CloseRefused(s) PROVE Abstract!Next
    BY <1>0, <2>1, RefusedRefuses DEF CloseRefused, Outcomes
  <2> QED
    BY <1>0, <1>5, <2>1, ReleaseCloses DEF CloseCalls, Close
<1>6. CASE CleanupSteps
  <2>1. CASE Cleanup
    <3>1. ret' = "OK" /\ UNCHANGED <<Open, Name, Shares>>
      BY <2>1, SameSlots DEF Cleanup, Return
    <3> QED
      BY <3>1, AbstractQuery
  <2>2. ASSUME NEW s \in Sockets, CleanupClose(s) PROVE Abstract!Next
    BY <1>0, <2>2, ReleaseCloses DEF CleanupClose
  <2>3. CASE CleanupDone
    <3>1. UNCHANGED <<Open, Name, Shares, ret>>
      BY <2>3, SameSlots DEF CleanupDone
    <3> QED
      BY <3>1, AbstractStutter
  <2> QED
    BY <1>6, <2>1, <2>2, <2>3 DEF CleanupSteps
<1>7. CASE UNCHANGED vars
  <2>1. UNCHANGED <<Open, Name, Shares, ret>>
    BY <1>7, SameSlots DEF vars
  <2> QED
    BY <2>1, AbstractStutter
<1> QED
  BY <1>1, <1>2, <1>3, <1>4, <1>5, <1>6, <1>7 DEF Next

LEMMA InitImplements == Init => Abstract!Init
<1> SUFFICES ASSUME Init PROVE Abstract!Init
  OBVIOUS
<1>1. Open = {} /\ Bound = {} /\ Name = [s \in Sockets |-> None] /\ ret = "OK"
  BY DEF Init, Open, Bound, Name
<1>2. Shares = {}
  BY <1>1 DEF Shares
<1> QED
  BY <1>1, <1>2 DEF Abstract!Init, Open, Name, Shares, Sharing

\* Every socket call, and every close of udpdk_cleanup, does what UdpSockets
\* promises the application: which sockets are open, under which name, who may
\* join a port, and when a call may say that an address is in use.
THEOREM SocketsImplementUdpSockets == Spec => ImplementsUdpSockets
<1>1. IInv /\ [Next]_vars => [Abstract!Next]_(Abstract!vars)
  BY StepImplements
<1> QED
  BY <1>1, InitImplements, Invariant, PTL DEF Spec, ImplementsUdpSockets, Abstract!Spec
=============================================================================
