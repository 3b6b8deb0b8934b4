--------------------------- MODULE ListWalkProofs ---------------------------
(***************************************************************************)
(* The lists on pointers, for every number of sockets, ports, lists and    *)
(* calls.  First lemmas: what following the pointers of a list finds, and  *)
(* what linking or unlinking a node makes of it.  Then the pools: a node   *)
(* or a list freed under the poller is not taken again by the next bind(). *)
(* Then the lists: they stay well formed, the scans of bind() and close()  *)
(* see what they must, and whoever follows the pointers finds the          *)
(* switching table.                                                        *)
(***************************************************************************)
EXTENDS ListWalk, WellFoundedInduction, FiniteSetTheorems, FunctionTheorems, SequenceTheorems,
        TLAPS

-----------------------------------------------------------------------------
(* Sequences, and the lists that nodes are linked into.                     *)

\* A set of numbers that is not empty has a least element: the induction of this
\* module, on the steps of a walk.
LEMMA Least ==
    ASSUME NEW T \in SUBSET Nat, T # {}
    PROVE  \E x \in T : \A y \in T : x <= y
<1>1. PICK x \in T : \A y \in T : ~(<<y, x>> \in OpToRel(<, Nat))
  BY NatLessThanWellFounded, WFMin
<1>2. \A y \in T : ~(y < x)
  BY <1>1 DEF OpToRel
<1> QED
  BY <1>2

\* The elements of a sequence with one more at the end, one more at the front, or
\* one less.
LEMMA AppendElements ==
    ASSUME NEW T, NEW c \in Seq(T), NEW n \in T
    PROVE  /\ Append(c, n) \in Seq(T) /\ Len(Append(c, n)) = Len(c) + 1
           /\ DOMAIN Append(c, n) = 1 .. Len(c) + 1
           /\ Append(c, n)[Len(c) + 1] = n
           /\ \A i \in 1 .. Len(c) : Append(c, n)[i] = c[i]
BY AppendProperties

LEMMA ConsElements ==
    ASSUME NEW T, NEW c \in Seq(T), NEW n \in T
    PROVE  /\ <<n>> \o c \in Seq(T) /\ Len(<<n>> \o c) = Len(c) + 1
           /\ DOMAIN (<<n>> \o c) = 1 .. Len(c) + 1
           /\ (<<n>> \o c)[1] = n
           /\ \A i \in 1 .. Len(c) : (<<n>> \o c)[i + 1] = c[i]
<1>1. <<n>> \in Seq(T) /\ Len(<<n>>) = 1 /\ <<n>>[1] = n
  OBVIOUS
<1>2. /\ <<n>> \o c \in Seq(T) /\ Len(<<n>> \o c) = 1 + Len(c)
      /\ \A i \in 1 .. 1 + Len(c) : (<<n>> \o c)[i] = IF i <= 1 THEN <<n>>[i] ELSE c[i - 1]
  BY <1>1, ConcatProperties
<1>3. Len(c) \in Nat /\ DOMAIN (<<n>> \o c) = 1 .. Len(<<n>> \o c)
  BY <1>2
<1>4. (<<n>> \o c)[1] = n
  BY <1>1, <1>2, <1>3
<1>5. ASSUME NEW i \in 1 .. Len(c) PROVE (<<n>> \o c)[i + 1] = c[i]
  <2>1. i + 1 \in 1 .. 1 + Len(c) /\ ~(i + 1 <= 1) /\ i + 1 - 1 = i
    BY <1>3
  <2> QED
    BY <1>2, <2>1
<1> QED
  BY <1>2, <1>3, <1>4, <1>5

LEMMA WithoutElements ==
    ASSUME NEW T, NEW c \in Seq(T), NEW k \in DOMAIN c
    PROVE  /\ Without(c, k) \in Seq(T) /\ Len(Without(c, k)) = Len(c) - 1
           /\ DOMAIN Without(c, k) = 1 .. Len(c) - 1 /\ Len(c) \in Nat /\ k \in 1 .. Len(c)
           /\ \A i \in 1 .. Len(c) - 1 : Without(c, k)[i] = IF i < k THEN c[i] ELSE c[i + 1]
<1>1. Len(c) \in Nat /\ DOMAIN c = 1 .. Len(c) /\ \A i \in 1 .. Len(c) : c[i] \in T
  OBVIOUS
<1>2. Len(c) - 1 \in Nat
  BY <1>1
<1> DEFINE w == Without(c, k)
<1>3. w = [j \in 1 .. Len(c) - 1 |-> IF j < k THEN c[j] ELSE c[j + 1]]
  BY DEF Without
<1>4. \A j \in 1 .. Len(c) - 1 : (IF j < k THEN c[j] ELSE c[j + 1]) \in T
  BY <1>1
<1>5. w \in [1 .. Len(c) - 1 -> T]
  BY <1>3, <1>4
<1> HIDE DEF w
<1>6. w \in Seq(T) /\ Len(w) = Len(c) - 1
  BY <1>2, <1>5, IsASeq, LenProperties
<1> QED
  BY <1>1, <1>3, <1>6 DEF w

\* The node after c[i] of a chain.
At(c, i) == IF i \in DOMAIN c THEN c[i] ELSE NULL

Chained(hd, nd, c) ==
    /\ c \in Seq(Nodes)
    /\ \A i, j \in DOMAIN c : c[i] = c[j] => i = j
    /\ hd = At(c, 1)
    /\ \A i \in DOMAIN c : nd[c[i]].next = At(c, i + 1)

Linked(L, nd, c) ==
    /\ Chained(L.head, nd, c)
    /\ L.tail = At(c, Len(c)) /\ L.len = Len(c)
    /\ \A i \in DOMAIN c : nd[c[i]].prev = At(c, i - 1)

LEMMA SeqFacts ==
    ASSUME NEW c \in Seq(Nodes)
    PROVE  /\ Len(c) \in Nat /\ DOMAIN c = 1 .. Len(c)
           /\ c = <<>> <=> Len(c) = 0
           /\ \A i \in 1 .. Len(c) : c[i] \in Nodes /\ At(c, i) = c[i]
           /\ \A i \in Int : i \notin 1 .. Len(c) => At(c, i) = NULL
           /\ \A n \in Nodes : n # NULL
<1>1. Len(c) \in Nat /\ DOMAIN c = 1 .. Len(c) /\ \A i \in 1 .. Len(c) : c[i] \in Nodes
  OBVIOUS
<1>2. c = <<>> <=> Len(c) = 0
  BY EmptySeq
<1>3. \A n \in Nodes : n # NULL
  BY NullAssumption, NumSocketsAssumption DEF Nodes
<1> QED
  BY <1>1, <1>2, <1>3 DEF At

\* A chain that visits no node twice is no longer than there are nodes.
LEMMA ChainLength ==
    ASSUME NEW c \in Seq(Nodes), \A i, j \in DOMAIN c : c[i] = c[j] => i = j
    PROVE  Len(c) <= NumSockets
<1>1. IsFiniteSet(Nodes) /\ Cardinality(Nodes) = NumSockets
  BY NumSocketsAssumption, FS_Interval DEF Nodes
<1>5. Len(c) \in Nat /\ DOMAIN c = 1 .. Len(c)
  OBVIOUS
<1>2. IsFiniteSet(1 .. Len(c)) /\ Cardinality(1 .. Len(c)) = Len(c)
  BY <1>5, FS_Interval
<1>3. \A i \in 1 .. Len(c) : c[i] \in Nodes
  OBVIOUS
<1>4. [i \in 1 .. Len(c) |-> c[i]] \in Injection(1 .. Len(c), Nodes)
  BY <1>5, <1>3, Fun_IsInj
<1> QED
  BY <1>1, <1>2, <1>4, FS_Injection

LEMMA LinkedEmpty ==
    ASSUME NEW L, NEW nd, L.head = NULL, L.tail = NULL, L.len = 0
    PROVE  Linked(L, nd, <<>>)
<1>1. <<>> \in Seq(Nodes) /\ Len(<<>>) = 0 /\ DOMAIN <<>> = {}
  OBVIOUS
<1>2. At(<<>>, 1) = NULL /\ At(<<>>, 0) = NULL
  BY <1>1 DEF At
<1> QED
  BY <1>1, <1>2 DEF Linked, Chained

LEMMA LinkedAlone ==
    ASSUME NEW L, NEW nd, NEW n \in Nodes, L.head = n, L.tail = n, L.len = 1,
           nd[n].prev = NULL, nd[n].next = NULL
    PROVE  Linked(L, nd, <<n>>)
<1> DEFINE c == <<n>>
<1>1. c \in Seq(Nodes) /\ Len(c) = 1 /\ DOMAIN c = {1} /\ c[1] = n
  OBVIOUS
<1> HIDE DEF c
<1>2. At(c, 1) = n /\ At(c, 2) = NULL /\ At(c, 0) = NULL
  BY <1>1 DEF At
<1>3. Linked(L, nd, c)
  BY <1>1, <1>2 DEF Linked, Chained
<1> QED
  BY <1>3 DEF c

\* A list depends on its own nodes only.
LEMMA LinkedFrame ==
    ASSUME NEW L, NEW nd, NEW nd2, NEW c, Linked(L, nd, c),
           \A i \in DOMAIN c : nd2[c[i]].next = nd[c[i]].next /\ nd2[c[i]].prev = nd[c[i]].prev
    PROVE  Linked(L, nd2, c)
BY DEF Linked, Chained

\* What list_rpush and list_lpush make of a list.
LEMMA LinkedAppend ==
    ASSUME NEW L, NEW L2, NEW nd, NEW nd2, NEW c, NEW n \in Nodes,
           Linked(L, nd, c), c # <<>>, \A i \in DOMAIN c : c[i] # n,
           nd2[n].prev = L.tail, nd2[n].next = NULL,
           nd2[L.tail].next = n, nd2[L.tail].prev = nd[L.tail].prev,
           \A i \in DOMAIN c : c[i] # L.tail => /\ nd2[c[i]].next = nd[c[i]].next
                                                /\ nd2[c[i]].prev = nd[c[i]].prev,
           L2.head = L.head, L2.tail = n, L2.len = L.len + 1
    PROVE  Linked(L2, nd2, Append(c, n))
<1> DEFINE d == Append(c, n)
<1>1. /\ c \in Seq(Nodes) /\ L.head = At(c, 1) /\ L.tail = At(c, Len(c)) /\ L.len = Len(c)
      /\ \A i, j \in DOMAIN c : c[i] = c[j] => i = j
      /\ \A i \in DOMAIN c : nd[c[i]].next = At(c, i + 1) /\ nd[c[i]].prev = At(c, i - 1)
  BY DEF Linked, Chained
<1>2. /\ Len(c) \in Nat \ {0} /\ DOMAIN c = 1 .. Len(c)
      /\ \A i \in 1 .. Len(c) : c[i] \in Nodes /\ At(c, i) = c[i]
      /\ \A i \in Int : i \notin 1 .. Len(c) => At(c, i) = NULL
  BY <1>1, SeqFacts
<1>3. /\ d \in Seq(Nodes) /\ Len(d) = Len(c) + 1 /\ DOMAIN d = 1 .. Len(c) + 1
      /\ d[Len(c) + 1] = n /\ \A i \in 1 .. Len(c) : d[i] = c[i]
  BY <1>1, AppendElements
<1> HIDE DEF d
<1>4. /\ \A i \in 1 .. Len(c) : At(d, i) = c[i]
      /\ At(d, Len(c) + 1) = n /\ At(d, Len(c) + 2) = NULL /\ At(d, 0) = NULL
  BY <1>2, <1>3 DEF At
<1>5. \A i, j \in DOMAIN d : d[i] = d[j] => i = j
  BY <1>1, <1>2, <1>3
<1>6. ASSUME NEW i \in DOMAIN d
      PROVE  nd2[d[i]].next = At(d, i + 1) /\ nd2[d[i]].prev = At(d, i - 1)
  <2>1. CASE i = Len(c) + 1
    <3>1. i - 1 = Len(c) /\ i + 1 = Len(c) + 2 /\ At(d, i - 1) = L.tail
      BY <1>1, <1>2, <1>4, <2>1
    <3> QED
      BY <1>3, <1>4, <2>1, <3>1
  <2>2. CASE i = Len(c)
    <3>1. d[i] = L.tail /\ i \in DOMAIN c /\ c[i] = L.tail
      BY <1>1, <1>2, <1>3, <2>2
    <3>2. nd2[d[i]].next = n /\ nd2[d[i]].prev = At(c, i - 1)
      BY <1>1, <3>1
    <3>3. At(c, i - 1) = At(d, i - 1)
      BY <1>2, <1>4, <2>2
    <3> QED
      BY <1>4, <2>2, <3>2, <3>3
  <2>3. CASE i < Len(c)
    <3>1. i \in 1 .. Len(c) /\ c[i] # L.tail /\ d[i] = c[i]
      BY <1>1, <1>2, <1>3, <2>3
    <3>2. nd2[d[i]].next = At(c, i + 1) /\ nd2[d[i]].prev = At(c, i - 1)
      BY <1>1, <1>2, <3>1
    <3>3. At(c, i + 1) = At(d, i + 1) /\ At(c, i - 1) = At(d, i - 1)
      BY <1>2, <1>4, <2>3, <3>1
    <3> QED
      BY <3>2, <3>3
  <2> QED
    BY <1>2, <1>3, <2>1, <2>2, <2>3
<1>7. L2.head = At(d, 1) /\ L2.tail = At(d, Len(d)) /\ L2.len = Len(d)
  BY <1>1, <1>2, <1>3, <1>4
<1>8. Linked(L2, nd2, d)
  BY <1>3, <1>5, <1>6, <1>7 DEF Linked, Chained
<1> QED
  BY <1>8 DEF d

LEMMA LinkedCons ==
    ASSUME NEW L, NEW L2, NEW nd, NEW nd2, NEW c, NEW n \in Nodes,
           Linked(L, nd, c), c # <<>>, \A i \in DOMAIN c : c[i] # n,
           nd2[n].prev = NULL, nd2[n].next = L.head,
           nd2[L.head].prev = n, nd2[L.head].next = nd[L.head].next,
           \A i \in DOMAIN c : c[i] # L.head => /\ nd2[c[i]].next = nd[c[i]].next
                                                /\ nd2[c[i]].prev = nd[c[i]].prev,
           L2.head = n, L2.tail = L.tail, L2.len = L.len + 1
    PROVE  Linked(L2, nd2, <<n>> \o c)
<1> DEFINE d == <<n>> \o c
<1>1. /\ c \in Seq(Nodes) /\ L.head = At(c, 1) /\ L.tail = At(c, Len(c)) /\ L.len = Len(c)
      /\ \A i, j \in DOMAIN c : c[i] = c[j] => i = j
      /\ \A i \in DOMAIN c : nd[c[i]].next = At(c, i + 1) /\ nd[c[i]].prev = At(c, i - 1)
  BY DEF Linked, Chained
<1>2. /\ Len(c) \in Nat \ {0} /\ DOMAIN c = 1 .. Len(c)
      /\ \A i \in 1 .. Len(c) : c[i] \in Nodes /\ At(c, i) = c[i]
      /\ \A i \in Int : i \notin 1 .. Len(c) => At(c, i) = NULL
  BY <1>1, SeqFacts
<1>3. /\ d \in Seq(Nodes) /\ Len(d) = Len(c) + 1 /\ DOMAIN d = 1 .. Len(c) + 1
      /\ d[1] = n /\ \A i \in 1 .. Len(c) : d[i + 1] = c[i]
  BY <1>1, ConsElements
<1> HIDE DEF d
<1>4. /\ \A i \in 1 .. Len(c) : At(d, i + 1) = c[i]
      /\ At(d, 1) = n /\ At(d, Len(c) + 2) = NULL /\ At(d, 0) = NULL
  BY <1>2, <1>3 DEF At
<1>0. \A i \in DOMAIN d : i # 1 => \E j \in 1 .. Len(c) : i = j + 1
  <2> SUFFICES ASSUME NEW i \in DOMAIN d, i # 1 PROVE i - 1 \in 1 .. Len(c) /\ i = (i - 1) + 1
    OBVIOUS
  <2> QED
    BY <1>2, <1>3
<1>5. ASSUME NEW i \in DOMAIN d, NEW j \in DOMAIN d, d[i] = d[j] PROVE i = j
  <2>1. \A k \in 1 .. Len(c) : d[k + 1] # d[1]
    BY <1>2, <1>3
  <2>2. CASE i = 1 \/ j = 1
    BY <1>0, <1>5, <2>1, <2>2
  <2>3. CASE i # 1 /\ j # 1
    <3>1. PICK k \in 1 .. Len(c) : i = k + 1
      BY <1>0, <2>3
    <3>2. PICK m \in 1 .. Len(c) : j = m + 1
      BY <1>0, <2>3
    <3>3. c[k] = c[m]
      BY <1>3, <1>5, <3>1, <3>2
    <3> QED
      BY <1>1, <1>2, <3>1, <3>2, <3>3
  <2> QED
    BY <2>2, <2>3
<1>6. ASSUME NEW i \in DOMAIN d
      PROVE  nd2[d[i]].next = At(d, i + 1) /\ nd2[d[i]].prev = At(d, i - 1)
  <2>1. CASE i = 1
    <3>1. At(d, i + 1) = L.head /\ At(d, i - 1) = NULL /\ d[i] = n
      BY <1>1, <1>2, <1>3, <1>4, <2>1
    <3> QED
      BY <3>1
  <2>2. ASSUME NEW j \in 1 .. Len(c), i = j + 1
        PROVE  nd2[d[i]].next = At(d, i + 1) /\ nd2[d[i]].prev = At(d, i - 1)
    <3>1. d[i] = c[j] /\ j \in DOMAIN c
      BY <1>2, <1>3, <2>2
    <3>2. At(d, i + 1) = At(c, j + 1)
      BY <1>2, <1>4, <2>2
    <3>3. nd2[c[j]].next = At(c, j + 1)
      BY <1>1, <3>1
    <3>4. CASE j = 1
      <4>1. c[j] = L.head /\ At(d, i - 1) = n
        BY <1>1, <1>2, <1>4, <2>2, <3>4
      <4> QED
        BY <3>1, <3>2, <3>3, <4>1
    <3>5. CASE j # 1
      <4>1. c[j] # L.head
        BY <1>1, <1>2, <3>1, <3>5
      <4>2. nd2[c[j]].prev = At(c, j - 1)
        BY <1>1, <3>1, <4>1
      <4>3. j - 1 \in 1 .. Len(c) /\ i - 1 = (j - 1) + 1
        BY <1>2, <2>2, <3>5
      <4>4. At(d, i - 1) = At(c, j - 1)
        BY <1>2, <1>4, <4>3
      <4> QED
        BY <3>1, <3>2, <3>3, <4>2, <4>4
    <3> QED
      BY <3>4, <3>5
  <2> QED
    BY <1>0, <2>1, <2>2
<1>7. L2.head = At(d, 1) /\ L2.tail = At(d, Len(d)) /\ L2.len = Len(d)
  BY <1>1, <1>2, <1>3, <1>4
<1>8. Linked(L2, nd2, d)
  BY <1>3, <1>5, <1>6, <1>7 DEF Linked, Chained
<1> QED
  BY <1>8 DEF d

\* What list_remove does to the links around node c[k].
LEMMA LinkedWithout ==
    ASSUME NEW L, NEW L2, NEW nd, NEW nd2, NEW c, NEW k \in DOMAIN c,
           Linked(L, nd, c),
           \A i \in DOMAIN c :
              /\ nd2[c[i]].next = IF c[i] = nd[c[k]].prev THEN nd[c[k]].next ELSE nd[c[i]].next
              /\ nd2[c[i]].prev = IF c[i] = nd[c[k]].next THEN nd[c[k]].prev ELSE nd[c[i]].prev,
           L2.head = IF nd[c[k]].prev = NULL THEN nd[c[k]].next ELSE L.head,
           L2.tail = IF nd[c[k]].next = NULL THEN nd[c[k]].prev ELSE L.tail,
           L2.len = L.len - 1
    PROVE  Linked(L2, nd2, Without(c, k))
<1> DEFINE d == Without(c, k)
<1>1. /\ c \in Seq(Nodes) /\ L.head = At(c, 1) /\ L.tail = At(c, Len(c)) /\ L.len = Len(c)
      /\ \A i, j \in DOMAIN c : c[i] = c[j] => i = j
      /\ \A i \in DOMAIN c : nd[c[i]].next = At(c, i + 1) /\ nd[c[i]].prev = At(c, i - 1)
  BY DEF Linked, Chained
<1>2. /\ Len(c) \in Nat /\ DOMAIN c = 1 .. Len(c)
      /\ \A i \in 1 .. Len(c) : c[i] \in Nodes /\ c[i] # NULL /\ At(c, i) = c[i]
      /\ \A i \in Int : i \notin 1 .. Len(c) => At(c, i) = NULL
  BY <1>1, SeqFacts
<1>3. /\ d \in Seq(Nodes) /\ Len(d) = Len(c) - 1 /\ DOMAIN d = 1 .. Len(c) - 1
      /\ \A i \in 1 .. Len(c) - 1 : d[i] = IF i < k THEN c[i] ELSE c[i + 1]
  BY <1>1, WithoutElements
<1> HIDE DEF d
<1>4. k \in 1 .. Len(c)
  BY <1>2
<1>5. /\ \A i \in Int : i < k => At(d, i) = At(c, i)
      /\ \A i \in Int : i >= k => At(d, i) = At(c, i + 1)
  <2>1. \A i \in Int : i \notin 1 .. Len(c) - 1 => At(d, i) = NULL
    BY <1>3 DEF At
  <2>2. \A i \in 1 .. Len(c) - 1 : At(d, i) = d[i]
    BY <1>3 DEF At
  <2>3. ASSUME NEW i \in Int, i < k PROVE At(d, i) = At(c, i)
    <3>1. CASE i >= 1
      BY <1>2, <1>3, <1>4, <2>2, <2>3, <3>1
    <3>2. CASE i < 1
      BY <1>2, <2>1, <3>2
    <3> QED
      BY <3>1, <3>2
  <2>4. ASSUME NEW i \in Int, i >= k PROVE At(d, i) = At(c, i + 1)
    <3>1. CASE i <= Len(c) - 1
      BY <1>2, <1>3, <1>4, <2>2, <2>4, <3>1
    <3>2. CASE i > Len(c) - 1
      BY <1>2, <1>4, <2>1, <2>4, <3>2
    <3> QED
      BY <1>2, <3>1, <3>2
  <2> QED
    BY <2>3, <2>4
<1> DEFINE pos(i) == IF i < k THEN i ELSE i + 1
<1>6. ASSUME NEW i \in DOMAIN d, NEW j \in DOMAIN d, d[i] = d[j] PROVE i = j
  <2>1. /\ pos(i) \in DOMAIN c /\ pos(j) \in DOMAIN c
        /\ d[i] = c[pos(i)] /\ d[j] = c[pos(j)]
    BY <1>2, <1>3, <1>4
  <2>2. pos(i) = pos(j)
    <3> HIDE DEF pos
    <3>1. c[pos(i)] = c[pos(j)]
      BY <1>6, <2>1
    <3> QED
      BY <1>1, <2>1, <3>1
  <2> QED
    BY <1>2, <1>3, <1>4, <2>2
<1>7. ASSUME NEW i \in DOMAIN d
      PROVE  nd2[d[i]].next = At(d, i + 1) /\ nd2[d[i]].prev = At(d, i - 1)
  <2>1. /\ pos(i) \in DOMAIN c /\ pos(i) # k /\ d[i] = c[pos(i)]
        /\ i \in 1 .. Len(c) - 1
    BY <1>2, <1>3, <1>4
  <2>2. /\ nd[c[k]].prev = At(c, k - 1) /\ nd[c[k]].next = At(c, k + 1)
        /\ nd[c[pos(i)]].next = At(c, pos(i) + 1) /\ nd[c[pos(i)]].prev = At(c, pos(i) - 1)
    BY <1>1, <2>1
  <2>3. c[pos(i)] = At(c, k - 1) <=> pos(i) = k - 1
    <3>1. CASE k - 1 \in DOMAIN c
      BY <1>1, <1>2, <2>1, <3>1
    <3>2. CASE k - 1 \notin DOMAIN c
      BY <1>2, <1>4, <2>1, <3>2
    <3> QED
      BY <3>1, <3>2
  <2>4. c[pos(i)] = At(c, k + 1) <=> pos(i) = k + 1
    <3>1. CASE k + 1 \in DOMAIN c
      BY <1>1, <1>2, <2>1, <3>1
    <3>2. CASE k + 1 \notin DOMAIN c
      BY <1>2, <1>4, <2>1, <3>2
    <3> QED
      BY <3>1, <3>2
  <2>5. /\ nd2[d[i]].next = IF pos(i) = k - 1 THEN At(c, k + 1) ELSE At(c, pos(i) + 1)
        /\ nd2[d[i]].prev = IF pos(i) = k + 1 THEN At(c, k - 1) ELSE At(c, pos(i) - 1)
    BY <2>1, <2>2, <2>3, <2>4
  <2>6. nd2[d[i]].next = At(d, i + 1)
    BY <1>4, <1>5, <2>1, <2>5
  <2>7. nd2[d[i]].prev = At(d, i - 1)
    BY <1>4, <1>5, <2>1, <2>5
  <2> QED
    BY <2>6, <2>7
<1>8. L2.len = Len(d)
  BY <1>1, <1>3
<1>9. L2.head = At(d, 1)
  <2>1. L2.head = IF At(c, k - 1) = NULL THEN At(c, k + 1) ELSE At(c, 1)
    BY <1>1
  <2>2. CASE k = 1
    BY <1>2, <1>5, <2>1, <2>2
  <2>3. CASE k # 1
    BY <1>2, <1>4, <1>5, <2>1, <2>3
  <2> QED
    BY <2>2, <2>3
<1>10. L2.tail = At(d, Len(d))
  <2>1. L2.tail = IF At(c, k + 1) = NULL THEN At(c, k - 1) ELSE At(c, Len(c))
    BY <1>1
  <2>2. CASE k = Len(c)
    BY <1>2, <1>3, <1>4, <1>5, <2>1, <2>2
  <2>3. CASE k # Len(c)
    BY <1>2, <1>3, <1>4, <1>5, <2>1, <2>3
  <2> QED
    BY <2>2, <2>3
<1>11. Linked(L2, nd2, d)
  BY <1>3, <1>6, <1>7, <1>8, <1>9, <1>10 DEF Linked, Chained
<1> QED
  BY <1>11 DEF d

-----------------------------------------------------------------------------
(* A list is what a walk of the pointers finds.                             *)

\* The walks of at most k nodes, given those of k - 1.
Row(nd, f, k) == [n \in NodeOrNull |->
                IF n = NULL \/ k = 0 THEN <<>> ELSE <<n>> \o f[k - 1][nd[n].next]]

Walks(nd, f, m) == f = [k \in 0 .. m |-> Row(nd, f, k)]

LEMMA SameRow ==
    ASSUME NEW nd, NEW f, NEW g, NEW k, k = 0 \/ f[k - 1] = g[k - 1]
    PROVE  Row(nd, f, k) = Row(nd, g, k)
BY DEF Row

\* The walk of Chain is defined for every number of steps.
LEMMA WalksExist == ASSUME NEW nd, NEW N \in Nat PROVE \E f : Walks(nd, f, N)
<1> DEFINE bad == {m \in 0 .. N : ~\E f : Walks(nd, f, m)}
<1> SUFFICES ASSUME bad # {} PROVE FALSE
  OBVIOUS
<1>1. PICK m \in bad : \A j \in bad : m <= j
  <2>1. bad \in SUBSET Nat
    OBVIOUS
  <2> HIDE DEF bad
  <2> QED
    BY <2>1, Least
<1>2. m \in 0 .. N /\ ~\E f : Walks(nd, f, m)
  BY <1>1
<1>3. m # 0
  <2> DEFINE h == [n \in NodeOrNull |-> <<>>]
             f == [k \in 0 .. 0 |-> h]
  <2>1. \A k \in 0 .. 0 : Row(nd, f, k) = h
    BY DEF Row
  <2>2. f = [k \in 0 .. 0 |-> Row(nd, f, k)]
    BY <2>1
  <2> HIDE DEF f
  <2>3. Walks(nd, f, 0)
    BY <2>2 DEF Walks
  <2> QED
    BY <1>2, <2>3
<1>4. PICK g : Walks(nd, g, m - 1)
  <2>1. m - 1 \in 0 .. N /\ ~(m <= m - 1)
    BY <1>2, <1>3
  <2> QED
    BY <1>1, <2>1
<1> DEFINE f == [k \in 0 .. m |-> IF k < m THEN g[k] ELSE Row(nd, g, m)]
<1>5. /\ \A k \in 0 .. m - 1 : f[k] = g[k] /\ g[k] = Row(nd, g, k)
      /\ f[m] = Row(nd, g, m)
  <2>1. \A k \in 0 .. m - 1 : g[k] = Row(nd, g, k)
    BY <1>4 DEF Walks
  <2> QED
    BY <1>2, <2>1
<1>6. f = [k \in 0 .. m |-> f[k]]
  OBVIOUS
<1> HIDE DEF f
<1>7. ASSUME NEW k \in 0 .. m PROVE f[k] = Row(nd, f, k)
  <2>1. k = 0 \/ f[k - 1] = g[k - 1]
    BY <1>2, <1>5
  <2>2. Row(nd, f, k) = Row(nd, g, k)
    BY <2>1, SameRow
  <2>3. k = m \/ k \in 0 .. m - 1
    BY <1>2
  <2> QED
    BY <1>5, <2>2, <2>3
<1>8. Walks(nd, f, m)
  BY <1>6, <1>7 DEF Walks
<1> QED
  BY <1>2, <1>8

\* A walk from the head of a chain finds it.
LEMMA WalkIs ==
    ASSUME NEW nd, NEW h, NEW c, Chained(h, nd, c)
    PROVE  (CHOOSE f : Walks(nd, f, NumSockets + 1))[NumSockets + 1][h] = c
<1> DEFINE N == NumSockets + 1
           from == CHOOSE f : Walks(nd, f, N)
<1>2. N \in Nat
  BY NumSocketsAssumption
<1>3. Walks(nd, from, N)
  BY <1>2, WalksExist
<1> HIDE DEF from
<1>4. \A k \in 0 .. N : from[k] = Row(nd, from, k)
  BY <1>3 DEF Walks
<1>5. /\ c \in Seq(Nodes) /\ h = At(c, 1) /\ \A i \in DOMAIN c : nd[c[i]].next = At(c, i + 1)
      /\ \A i, j \in DOMAIN c : c[i] = c[j] => i = j
  BY DEF Chained
<1>6. /\ Len(c) \in Nat /\ DOMAIN c = 1 .. Len(c) /\ Len(c) <= NumSockets
      /\ \A i \in 1 .. Len(c) : c[i] \in Nodes /\ c[i] # NULL /\ At(c, i) = c[i]
      /\ \A i \in Int : i \notin 1 .. Len(c) => At(c, i) = NULL
  BY <1>5, SeqFacts, ChainLength
<1> DEFINE rest(i) == [j \in 1 .. Len(c) - i + 1 |-> c[i + j - 1]]
           good(k) == \A i \in 1 .. Len(c) + 1 : k >= Len(c) - i + 1 => from[k][At(c, i)] = rest(i)
           bad == {k \in 0 .. N : ~good(k)}
<1>7. ASSUME NEW i \in 1 .. Len(c) + 1
      PROVE  rest(i) \in Seq(Nodes) /\ Len(rest(i)) = Len(c) - i + 1
  <2>1. Len(c) - i + 1 \in Nat /\ \A j \in 1 .. Len(c) - i + 1 : c[i + j - 1] \in Nodes
    BY <1>6
  <2> QED
    BY <2>1
<1>8. \A n \in NodeOrNull, k \in 0 .. N :
         from[k][n] = IF n = NULL \/ k = 0 THEN <<>> ELSE <<n>> \o from[k - 1][nd[n].next]
  BY <1>4 DEF Row
<1>9. rest(Len(c) + 1) = <<>>
  BY <1>6, <1>7, EmptySeq
<1>10. ASSUME NEW i \in 1 .. Len(c) PROVE <<c[i]>> \o rest(i + 1) = rest(i)
  <2>1. i + 1 \in 1 .. Len(c) + 1 /\ c[i] \in Nodes /\ i \in 1 .. Len(c) + 1
    BY <1>6
  <2> DEFINE r == rest(i + 1)
             s == rest(i)
  <2>2. r \in Seq(Nodes) /\ Len(r) = Len(c) - i /\ s \in Seq(Nodes) /\ Len(s) = Len(c) - i + 1
    BY <1>6, <1>7, <2>1
  <2>3. \A j \in 1 .. Len(c) - i : r[j] = c[i + j] /\ s[j + 1] = c[i + j]
    BY <1>6
  <2>4. s[1] = c[i]
    BY <1>6
  <2> HIDE DEF r, s
  <2>8. PICK e \in Nodes : e = c[i]
    BY <2>1
  <2> DEFINE q == <<e>> \o r
  <2>5. /\ q \in Seq(Nodes) /\ Len(q) = Len(r) + 1 /\ q[1] = e
        /\ \A j \in 1 .. Len(r) : q[j + 1] = r[j]
    <3> DEFINE x == <<e>> \o r
    <3>1. x \in Seq(Nodes) /\ Len(x) = Len(r) + 1
      BY <2>2, <2>8, ConsElements
    <3>2. x[1] = e
      BY <2>2, <2>8, ConsElements
    <3>3. \A j \in 1 .. Len(r) : x[j + 1] = r[j]
      BY <2>2, <2>8, ConsElements
    <3> QED
      BY <3>1, <3>2, <3>3
  <2> HIDE DEF q
  <2>6. ASSUME NEW j \in 1 .. Len(c) - i + 1 PROVE q[j] = s[j]
    <3>1. CASE j = 1
      BY <2>4, <2>5, <2>8, <3>1
    <3>2. CASE j # 1
      <4>1. j - 1 \in 1 .. Len(c) - i /\ j = (j - 1) + 1
        BY <1>6, <2>1, <3>2
      <4> QED
        BY <2>2, <2>3, <2>5, <4>1
    <3> QED
      BY <3>1, <3>2
  <2>7. q = s
    <3>1. Len(q) = Len(c) - i + 1
      BY <1>6, <2>2, <2>5
    <3> QED
      BY <2>2, <2>5, <2>6, <3>1, SeqEqual
  <2> QED
    BY <2>7, <2>8 DEF q, r, s
<1> HIDE DEF rest
<1>11. good(0)
  <2> SUFFICES ASSUME NEW i \in 1 .. Len(c) + 1, 0 >= Len(c) - i + 1
               PROVE  from[0][At(c, i)] = rest(i)
    OBVIOUS
  <2>1. i = Len(c) + 1 /\ At(c, i) = NULL
    BY <1>6
  <2>2. 0 \in 0 .. N /\ NULL \in NodeOrNull
    BY <1>2 DEF NodeOrNull
  <2>3. from[0][NULL] = <<>>
    BY <1>8, <2>2
  <2> QED
    BY <1>9, <2>1, <2>3
<1>12. ASSUME NEW k \in 1 .. N, good(k - 1) PROVE good(k)
  <2> SUFFICES ASSUME NEW i \in 1 .. Len(c) + 1, k >= Len(c) - i + 1
               PROVE  from[k][At(c, i)] = rest(i)
    OBVIOUS
  <2>0. k \in 0 .. N /\ k # 0
    BY <1>2
  <2>1. CASE i = Len(c) + 1
    <3>1. At(c, i) = NULL
      BY <1>6, <2>1
    <3> QED
      BY <1>8, <1>9, <2>0, <2>1, <3>1 DEF NodeOrNull
  <2>2. CASE i # Len(c) + 1
    <3>1. i \in 1 .. Len(c) /\ i + 1 \in 1 .. Len(c) + 1 /\ k - 1 >= Len(c) - (i + 1) + 1
      BY <1>2, <1>6, <2>2
    <3>2. from[k - 1][At(c, i + 1)] = rest(i + 1)
      BY <1>12, <3>1
    <3>3. At(c, i) = c[i] /\ c[i] \in NodeOrNull /\ c[i] # NULL /\ nd[c[i]].next = At(c, i + 1)
      BY <1>5, <1>6, <3>1 DEF NodeOrNull
    <3>4. from[k][c[i]] = <<c[i]>> \o from[k - 1][nd[c[i]].next]
      BY <1>8, <2>0, <3>3
    <3> QED
      BY <1>10, <3>1, <3>2, <3>3, <3>4
  <2> QED
    BY <2>1, <2>2
<1> HIDE DEF good
<1>13. good(N)
  <2> SUFFICES ASSUME bad # {} PROVE FALSE
    BY <1>2
  <2>1. PICK k \in bad : \A j \in bad : k <= j
    <3>1. bad \in SUBSET Nat
      BY <1>2
    <3> HIDE DEF bad
    <3> QED
      BY <3>1, Least
  <2>2. k \in 0 .. N /\ ~good(k) /\ k # 0
    BY <1>11, <2>1
  <2>3. k - 1 \in 0 .. N /\ ~(k <= k - 1) /\ k \in 1 .. N
    BY <1>2, <2>2
  <2>4. good(k - 1)
    BY <2>1, <2>3
  <2> QED
    BY <1>12, <2>2, <2>3, <2>4
<1>14. from[N][h] = rest(1)
  <2>1. 1 \in 1 .. Len(c) + 1 /\ N >= Len(c) - 1 + 1
    BY <1>6, NumSocketsAssumption
  <2> QED
    BY <1>5, <1>13, <2>1 DEF good
<1>15. rest(1) = c
  <2>1. 1 \in 1 .. Len(c) + 1 /\ Len(c) - 1 + 1 = Len(c)
    BY <1>6
  <2>2. rest(1) \in Seq(Nodes) /\ Len(rest(1)) = Len(c)
    BY <1>7, <2>1
  <2>3. ASSUME NEW j \in 1 .. Len(c) PROVE rest(1)[j] = c[j]
    <3>1. 1 + j - 1 = j /\ j \in 1 .. Len(c) - 1 + 1
      BY <1>6
    <3> QED
      BY <3>1 DEF rest
  <2> HIDE DEF rest
  <2> QED
    BY <1>5, <2>2, <2>3, SeqEqual
<1> QED
  BY <1>14, <1>15 DEF from

\* The chain of a port is the sequence that next links.
LEMMA ChainIs ==
    ASSUME NEW p \in Ports, NEW c
    PROVE  /\ sock_bind_table[p] = NULL => Chain(p) = <<>>
           /\ sock_bind_table[p] # NULL /\ Chained(list[sock_bind_table[p]].head, node, c)
                => Chain(p) = c
<1>1. sock_bind_table[p] # NULL =>
        Chain(p) = (CHOOSE f : Walks(node, f, NumSockets + 1))[NumSockets + 1]
                        [list[sock_bind_table[p]].head]
  BY DEF Chain, Walks, Row, NodeOrNull
<1> QED
  BY <1>1, WalkIs DEF Chain

\* The same of the next state.
LEMMA NextChainIs ==
    ASSUME NEW p \in Ports, NEW c
    PROVE  /\ sock_bind_table'[p] = NULL => Chain(p)' = <<>>
           /\ sock_bind_table'[p] # NULL /\ Chained(list'[sock_bind_table'[p]].head, node', c)
                => Chain(p)' = c
<1>1. sock_bind_table'[p] # NULL =>
        Chain(p)' = (CHOOSE f : Walks(node', f, NumSockets + 1))[NumSockets + 1]
                        [list'[sock_bind_table'[p]].head]
  BY DEF Chain, Walks, Row, NodeOrNull
<1> QED
  BY <1>1, WalkIs DEF Chain

-----------------------------------------------------------------------------
(* The pools.                                                               *)

\* What one call does to a pool of bits b, counter n and cursor c: the cursor
\* is what an allocation takes, and it moves before that element can be freed.
Allocates(b, n, c, b1, n1, c1) ==
    n # 0 /\ b1 = b \cup {c} /\ n1 = n - 1 /\ (n1 # 0 => c1 \notin b1)

Frees(b, n, c, b1, n1, c1) ==
    \E i \in b : b1 = b \ {i} /\ n1 = n + 1 /\ c1 = IF n1 = 1 THEN i ELSE c

Keeps(b, n, c, b1, n1, c1) == b1 = b /\ n1 = n /\ c1 = c

PoolStep(b, n, c, b1, n1, c1) == \/ Allocates(b, n, c, b1, n1, c1)
                                 \/ Frees(b, n, c, b1, n1, c1)
                                 \/ Keeps(b, n, c, b1, n1, c1)

PoolOK(b, n, c) == n \in Nat /\ (n # 0 => c \notin b)

NodeKeeps == Keeps(node_bits, node_free, node_cursor, node_bits', node_free', node_cursor')
ListKeeps == Keeps(list_bits, list_free, list_cursor, list_bits', list_free', list_cursor')
NodeStep  == PoolStep(node_bits, node_free, node_cursor, node_bits', node_free', node_cursor')
ListStep  == PoolStep(list_bits, list_free, list_cursor, list_bits', list_free', list_cursor')

\* Until the first allocation of a walk the pool has a free element, and the
\* cursor, which is the next to be taken, is none of those freed since.
Untouched(pool, n, c) == pool \notin new => n # 0 /\ <<pool, c>> \notin freed

WalkInv ==
    IF pc["poller"] = "idle"
    THEN freed = {} /\ new = {} /\ ~reused /\ ~twice
    ELSE ~tight => /\ Untouched("node", node_free, node_cursor)
                   /\ Untouched("list", list_free, list_cursor)
                   /\ reused => twice

\* No two ports have the same list, and each has an allocated one but for the time
\* between its release and the clearing of the entry.
TableInv ==
    /\ DOMAIN sock_bind_table = Ports
    /\ list_bits \subseteq Lists /\ list_cursor \in Lists
    /\ pc["app"] # "idle" => req.port \in Ports
    /\ \A p \in Ports : LET l == sock_bind_table[p]
                       IN  l # NULL => \/ l \in list_bits
                                       \/ /\ pc["app"] = "unpublish" /\ p = req.port
                                          /\ l = list_cursor => list_free = 1
    /\ \A p, q \in Ports :
          p # q /\ sock_bind_table[p] # NULL => sock_bind_table[p] # sock_bind_table[q]
    /\ pc["app"] = "publish" => /\ list_ret \in list_bits
                                /\ \A p \in Ports : sock_bind_table[p] # list_ret

IInv == /\ DOMAIN pc = Procs /\ TableInv
        /\ PoolOK(node_bits, node_free, node_cursor)
        /\ PoolOK(list_bits, list_free, list_cursor)
        /\ WalkInv

-----------------------------------------------------------------------------
LEMMA InitIInv == LwInit => IInv
<1> SUFFICES ASSUME LwInit PROVE IInv
  OBVIOUS
<1>1. /\ PoolOK(node_bits, node_free, node_cursor)
      /\ PoolOK(list_bits, list_free, list_cursor)
  BY ListsAssumption, NumSocketsAssumption
     DEF LwInit, NodeHeap!Init, ListHeap!Init, PoolOK
<1>2. DOMAIN pc = Procs /\ pc["poller"] = "idle" /\ pc["app"] = "idle"
  BY DEF LwInit, Procs
<1>3. TableInv
  BY <1>2, ListsAssumption, MaxPortAssumption
     DEF LwInit, ListHeap!Init, TableInv, Lists
<1> QED
  BY <1>1, <1>2, <1>3 DEF LwInit, IInv, WalkInv

\* A step of one process leaves the other where it is.
LEMMA OnlyOwnPc ==
    ASSUME NEW p \in Procs, NEW from, NEW to, DOMAIN pc = Procs, Transition(p, from, to)
    PROVE  DOMAIN pc' = Procs /\ pc[p] = from /\ \A q \in Procs : q # p => pc'[q] = pc[q]
BY DEF Transition

\* An allocation and a free of the allocator are steps of the pool.
LEMMA NodeAllocation ==
    NodeHeap!ShmallocSucceeds =>
      Allocates(node_bits, node_free, node_cursor, node_bits', node_free', node_cursor')
BY DEF NodeHeap!ShmallocSucceeds, NodeHeap!FirstFreeAfter, Allocates

LEMMA ListAllocation ==
    ListHeap!ShmallocSucceeds =>
      Allocates(list_bits, list_free, list_cursor, list_bits', list_free', list_cursor')
BY DEF ListHeap!ShmallocSucceeds, ListHeap!FirstFreeAfter, Allocates

LEMMA NodeRelease == ASSUME NEW i, NodeHeap!Shfree(i) PROVE NodeStep
BY DEF NodeHeap!Shfree, NodeHeap!Release, NodeHeap!vars, NodeStep, PoolStep, Frees, Keeps

LEMMA ListRelease == ASSUME NEW i, ListHeap!Shfree(i) PROVE ListStep
BY DEF ListHeap!Shfree, ListHeap!Release, ListHeap!vars, ListStep, PoolStep, Frees, Keeps

-----------------------------------------------------------------------------
\* What each step does to the program counters and to the pools.
AppEffect == /\ DOMAIN pc' = Procs /\ pc'["poller"] = pc["poller"]
             /\ NodeStep /\ ListStep

Begins == \E p \in Ports : sock_bind_table[p] # NULL /\ packet'.list = sock_bind_table[p]

PollerEffect == /\ DOMAIN pc' = Procs /\ pc'["app"] = pc["app"]
                /\ NodeKeeps /\ ListKeeps /\ UNCHANGED <<sock_bind_table, list_ret, req>>
                /\ pc["poller"] = "idle" => Begins

LEMMA IteratorEffect ==
    ASSUME NEW p \in Procs, DOMAIN pc = Procs, Iterator(p)
    PROVE  /\ DOMAIN pc' = Procs
           /\ \A q \in Procs : q # p => pc'[q] = pc[q]
           /\ NodeKeeps /\ ListKeeps /\ UNCHANGED <<sock_bind_table, list_ret, req>>
           /\ pc[p] # "idle" /\ pc'[p] \notin {"publish", "unpublish"}
<1> USE DEF request, AfterWalk, lists, nodes, node_pool, list_pool, NodeKeeps, ListKeeps, Keeps
<1>1. CASE IterNew(p)
  BY <1>1, OnlyOwnPc DEF IterNew, Transition
<1>2. CASE IterGot(p)
  BY <1>2, OnlyOwnPc DEF IterGot, Transition
<1>3. CASE IterNext(p)
  BY <1>3, OnlyOwnPc DEF IterNext, Transition
<1>4. CASE IterAdvance(p)
  BY <1>4, OnlyOwnPc DEF IterAdvance, Transition
<1>5. CASE IterDestroy(p)
  BY <1>5, OnlyOwnPc DEF IterDestroy, Transition
<1>6. CASE IterFreed(p)
  BY <1>6, OnlyOwnPc DEF IterFreed, Transition
<1> QED
  BY <1>1, <1>2, <1>3, <1>4, <1>5, <1>6 DEF Iterator

LEMMA AppStepEffect == ASSUME DOMAIN pc = Procs, App PROVE AppEffect
<1> USE DEF lists, nodes, node_pool, list_pool, AppEffect, NodeStep, ListStep,
            PoolStep, Keeps
<1>1. /\ "app" \in Procs /\ "poller" \in Procs /\ "app" # "poller"
      /\ \A from, to : Transition("app", from, to) =>
           DOMAIN pc' = Procs /\ pc'["poller"] = pc["poller"]
  BY OnlyOwnPc DEF Procs
<1>2. ASSUME NEW r \in Requests, Bind(r) \/ Close(r) PROVE AppEffect
  BY <1>1, <1>2 DEF Bind, Close, CallStarts
<1>3. CASE Iterator("app")
  BY <1>1, <1>3, IteratorEffect DEF NodeKeeps, ListKeeps
<1>4. CASE Scan \/ Search
  BY <1>1, <1>4 DEF Scan, Search
<1>5. CASE list_new
  BY <1>1, <1>5, ListAllocation DEF list_new
<1>6. CASE PublishList
  BY <1>1, <1>6 DEF PublishList
<1>7. CASE NewBindInfoElem
  BY <1>1, <1>7, NodeAllocation DEF NewBindInfoElem, NodeHeap!ShmallocFails
<1>8. CASE list_node_new \/ LinkFront
  BY <1>1, <1>8 DEF list_node_new, LinkFront
<1>9. CASE PushAlone \/ list_rpush \/ list_lpush
  BY <1>1, <1>9 DEF PushAlone, list_rpush, list_lpush, Pushed
<1>10. CASE list_remove
  <2>1. NodeStep
    BY <1>10, NodeRelease DEF list_remove
  <2> QED
    BY <1>1, <1>10, <2>1 DEF list_remove
<1>11. CASE ClearEntry \/ UnpublishList
  BY <1>1, <1>11 DEF ClearEntry, UnpublishList
<1>12. CASE list_destroy
  <2>1. ListStep
    BY <1>12, ListRelease DEF list_destroy
  <2> QED
    BY <1>1, <1>12, <2>1 DEF list_destroy
<1> QED
  BY <1>2, <1>3, <1>4, <1>5, <1>6, <1>7, <1>8, <1>9, <1>10, <1>11, <1>12 DEF App

\* The table: a list is published before anything else is done with the allocator
\* of lists, and is freed while it is that of one port.
LEMMA AppStepTable ==
    ASSUME DOMAIN pc = Procs, TableInv, PoolOK(list_bits, list_free, list_cursor), App
    PROVE  TableInv'
<1> USE DEF lists, nodes, node_pool, list_pool, request
<1> DEFINE Same(to) == /\ UNCHANGED <<sock_bind_table, list_pool, req>>
                       /\ pc["app"] # "idle"
                       /\ to \notin {"publish", "unpublish"} /\ pc'["app"] = to
<1>1. /\ "app" \in Procs
      /\ \A from, to : Transition("app", from, to) => pc["app"] = from /\ pc'["app"] = to
  BY DEF Procs, Transition
<1>2. ASSUME NEW to, Same(to), pc["app"] # "unpublish" PROVE TableInv'
  BY <1>2 DEF TableInv
<1> HIDE DEF Same
<1>3. ASSUME NEW r \in Requests, Bind(r) \/ Close(r) PROVE TableInv'
  BY <1>1, <1>3, RequestsAssumption DEF Bind, Close, CallStarts, TableInv
<1>4. CASE Iterator("app")
  <2>1. /\ UNCHANGED <<sock_bind_table, list_pool, req>>
        /\ pc["app"] # "idle" /\ pc'["app"] \notin {"publish", "unpublish"}
    BY <1>1, <1>4, IteratorEffect DEF ListKeeps, Keeps
  <2>2. pc["app"] # "unpublish"
    BY <1>1, <1>4 DEF Iterator, IterNew, IterGot, IterNext, IterAdvance, IterDestroy, IterFreed
  <2> QED
    BY <1>2, <2>1, <2>2 DEF Same
<1>5. CASE Scan \/ Search
  BY <1>1, <1>2, <1>5 DEF Scan, Search, Same
<1>6. CASE list_new
  <2>1. /\ list_ret' = list_cursor /\ list_bits' = list_bits \cup {list_cursor}
        /\ list_cursor' \in Lists /\ list_cursor \notin list_bits
        /\ pc["app"] = "list" /\ pc'["app"] = "publish"
        /\ UNCHANGED <<sock_bind_table, req>>
    BY <1>1, <1>6
       DEF list_new, ListHeap!ShmallocSucceeds, ListHeap!Idx, TableInv, PoolOK, Lists
  <2>2. list_cursor # NULL
    BY NullAssumption DEF TableInv, Lists
  <2> QED
    BY <2>1, <2>2 DEF TableInv
<1>7. CASE PublishList
  BY <1>1, <1>7 DEF PublishList, TableInv
<1>8. CASE NewBindInfoElem
  BY <1>1, <1>2, <1>8 DEF NewBindInfoElem, Same
<1>9. CASE list_node_new \/ LinkFront
  BY <1>1, <1>2, <1>9 DEF list_node_new, LinkFront, Same
<1>10. CASE PushAlone \/ list_rpush \/ list_lpush
  <2>1. CASE PushAlone
    BY <1>1, <1>2, <2>1 DEF PushAlone, Pushed, Same
  <2>2. CASE list_rpush
    <3>1. Transition("app", "push", "idle") /\ Pushed
      BY <2>2 DEF list_rpush
    <3> QED
      BY <1>1, <1>2, <3>1 DEF Pushed, Same
  <2>3. CASE list_lpush
    BY <1>1, <1>2, <2>3 DEF list_lpush, Pushed, Same
  <2> QED
    BY <1>10, <2>1, <2>2, <2>3
<1>11. CASE list_remove
  BY <1>1, <1>2, <1>11 DEF list_remove, Same
<1>12. CASE ClearEntry
  BY <1>1, <1>2, <1>12 DEF ClearEntry, Same
<1>13. CASE list_destroy
  <2> DEFINE l == sock_bind_table[req.port]
  <2>1. /\ pc["app"] = "clear" /\ pc'["app"] = "unpublish"
        /\ UNCHANGED <<sock_bind_table, req>> /\ l # NULL
        /\ ListHeap!Shfree(l)
    BY <1>1, <1>13 DEF list_destroy
  <2>2. req.port \in Ports /\ l \in list_bits /\ l \in Lists
    BY <2>1 DEF TableInv
  <2>3. ListHeap!InPool(l) /\ l \div ListHeap!Stride = l
    BY <2>2, ListsAssumption DEF ListHeap!InPool, ListHeap!Stride, Lists
  <2>4. /\ list_bits' = list_bits \ {l} /\ list_free' = list_free + 1
        /\ list_cursor' = IF list_free' = 1 THEN l ELSE list_cursor
    BY <2>1, <2>2, <2>3 DEF ListHeap!Shfree, ListHeap!Release
  <2>5. l = list_cursor' => list_free' = 1
    BY <2>2, <2>4 DEF PoolOK
  <2> QED
    BY <2>1, <2>2, <2>4, <2>5 DEF TableInv
<1>14. CASE UnpublishList
  BY <1>1, <1>14 DEF UnpublishList, TableInv
<1> QED
  BY <1>3, <1>4, <1>5, <1>6, <1>7, <1>8, <1>9, <1>10, <1>11, <1>12, <1>13, <1>14 DEF App

LEMMA PollerStepEffect == ASSUME DOMAIN pc = Procs, Poller PROVE PollerEffect
<1> USE DEF request, lists, nodes, node_pool, list_pool, PollerEffect, NodeKeeps, ListKeeps, Keeps
<1>1. "poller" \in Procs /\ "app" \in Procs /\ "app" # "poller"
  BY DEF Procs
<1>2. CASE Iterator("poller")
  BY <1>1, <1>2, IteratorEffect
<1>3. CASE Deliver
  BY <1>1, <1>3, OnlyOwnPc DEF Deliver
<1>4. ASSUME NEW p \in Ports, NEW d \in Dsts, Receive(p, d) PROVE PollerEffect
  BY <1>1, <1>4, OnlyOwnPc DEF Receive, Begins
<1> QED
  BY <1>2, <1>3, <1>4 DEF Poller, PollerStep

-----------------------------------------------------------------------------
\* The pools stay well-formed: the cursor is free unless the pool is exhausted.
LEMMA PoolStepOK ==
    ASSUME NEW b, NEW n, NEW c, NEW b1, NEW n1, NEW c1,
           PoolOK(b, n, c), PoolStep(b, n, c, b1, n1, c1)
    PROVE  PoolOK(b1, n1, c1)
<1>1. CASE Allocates(b, n, c, b1, n1, c1)
  BY <1>1 DEF Allocates, PoolOK
<1>2. CASE Frees(b, n, c, b1, n1, c1)
  BY <1>2 DEF Frees, PoolOK
<1>3. CASE Keeps(b, n, c, b1, n1, c1)
  BY <1>3 DEF Keeps, PoolOK
<1> QED
  BY <1>1, <1>2, <1>3 DEF PoolStep

\* During a walk: an allocation takes the cursor, and a pool that nothing has
\* been taken from keeps its cursor away from what is freed.
LEMMA PoolStepUntouched ==
    ASSUME NEW b, NEW n, NEW c, NEW b1, NEW n1, NEW c1,
           PoolOK(b, n, c), PoolStep(b, n, c, b1, n1, c1)
    PROVE  /\ b1 \ b \subseteq {c}
           /\ b1 \ b = {} /\ n # 0 => n1 # 0 /\ c1 = c /\ c \notin b \ b1
<1>1. CASE Allocates(b, n, c, b1, n1, c1)
  BY <1>1 DEF Allocates, PoolOK
<1>2. CASE Frees(b, n, c, b1, n1, c1)
  BY <1>2 DEF Frees, PoolOK
<1>3. CASE Keeps(b, n, c, b1, n1, c1)
  BY <1>3 DEF Keeps, PoolOK
<1> QED
  BY <1>1, <1>2, <1>3 DEF PoolStep

LEMMA WalkGoesOn ==
    ASSUME IInv, NodeStep, ListStep, Observe,
           pc["poller"] # "idle", pc'["poller"] # "idle"
    PROVE  WalkInv'
<1> DEFINE nt == node_bits' \ node_bits
           lt == list_bits' \ list_bits
           taken == Elements(nt, lt)
           gone  == Elements(node_bits \ node_bits', list_bits \ list_bits')
           pools == {e[1] : e \in taken}
<1>1. /\ freed' = freed \cup gone
      /\ reused' = (reused \/ taken \cap freed # {})
      /\ new' = new \cup pools
      /\ twice' = (twice \/ pools \cap new # {})
      /\ tight' = tight
  BY DEF Observe
<1>2. /\ nt \subseteq {node_cursor} /\ lt \subseteq {list_cursor}
      /\ nt = {} /\ node_free # 0 =>
           node_free' # 0 /\ node_cursor' = node_cursor /\ node_cursor \notin node_bits \ node_bits'
      /\ lt = {} /\ list_free # 0 =>
           list_free' # 0 /\ list_cursor' = list_cursor /\ list_cursor \notin list_bits \ list_bits'
  BY PoolStepUntouched DEF IInv, NodeStep, ListStep
<1>3. /\ \A e \in taken : \/ e = <<"node", node_cursor>> /\ "node" \in pools /\ nt # {}
                          \/ e = <<"list", list_cursor>> /\ "list" \in pools /\ lt # {}
      /\ nt # {} => "node" \in pools
      /\ lt # {} => "list" \in pools
  <2>1. nt # {} => "node" \in pools
    <3> SUFFICES ASSUME NEW x \in nt PROVE "node" \in pools
      OBVIOUS
    <3>1. <<"node", x>> \in taken
      BY DEF Elements
    <3>2. <<"node", x>>[1] = "node"
      OBVIOUS
    <3> QED
      BY <3>1, <3>2
  <2>2. lt # {} => "list" \in pools
    <3> SUFFICES ASSUME NEW x \in lt PROVE "list" \in pools
      OBVIOUS
    <3>1. <<"list", x>> \in taken
      BY DEF Elements
    <3>2. <<"list", x>>[1] = "list"
      OBVIOUS
    <3> QED
      BY <3>1, <3>2
  <2>3. \A e \in taken : \/ e = <<"node", node_cursor>> /\ nt # {}
                         \/ e = <<"list", list_cursor>> /\ lt # {}
    BY <1>2 DEF Elements
  <2> QED
    BY <2>1, <2>2, <2>3
<1> SUFFICES ASSUME ~tight
             PROVE  /\ Untouched("node", node_free, node_cursor)'
                    /\ Untouched("list", list_free, list_cursor)'
                    /\ reused' => twice'
  BY <1>1 DEF WalkInv
<1>4. /\ Untouched("node", node_free, node_cursor)
      /\ Untouched("list", list_free, list_cursor)
      /\ reused => twice
  BY DEF IInv, WalkInv
<1>5. Untouched("node", node_free, node_cursor)'
  <2> SUFFICES ASSUME "node" \notin new'
               PROVE  node_free' # 0 /\ <<"node", node_cursor'>> \notin freed'
    BY DEF Untouched
  <2>1. nt = {} /\ "node" \notin new
    BY <1>1, <1>3
  <2>2. <<"node", node_cursor>> \notin gone
    BY <1>2, <1>4, <2>1 DEF Elements, Untouched
  <2> QED
    BY <1>1, <1>2, <1>4, <2>1, <2>2 DEF Untouched
<1>6. Untouched("list", list_free, list_cursor)'
  <2> SUFFICES ASSUME "list" \notin new'
               PROVE  list_free' # 0 /\ <<"list", list_cursor'>> \notin freed'
    BY DEF Untouched
  <2>1. lt = {} /\ "list" \notin new
    BY <1>1, <1>3
  <2>2. <<"list", list_cursor>> \notin gone
    BY <1>2, <1>4, <2>1 DEF Elements, Untouched
  <2> QED
    BY <1>1, <1>2, <1>4, <2>1, <2>2 DEF Untouched
<1>7. reused' => twice'
  <2> SUFFICES ASSUME NEW e \in taken, e \in freed PROVE pools \cap new # {}
    BY <1>1, <1>4
  <2> QED
    BY <1>3, <1>4 DEF Untouched
<1> QED
  BY <1>5, <1>6, <1>7

LEMMA NextIInv == IInv /\ [Next]_lw_vars => IInv'
<1> SUFFICES ASSUME IInv, [Next]_lw_vars PROVE IInv'
  OBVIOUS
<1>1. CASE UNCHANGED lw_vars
  BY <1>1 DEF lw_vars, lists, nodes, list_pool, node_pool, request, history,
              IInv, TableInv, WalkInv, PoolOK, Untouched
<1>2. CASE Next
  <2>1. /\ DOMAIN pc' = Procs /\ NodeStep /\ ListStep
        /\ \/ pc'["poller"] = pc["poller"]
           \/ NodeKeeps /\ ListKeeps /\ (pc["poller"] = "idle" => Begins)
    BY <1>2, AppStepEffect, PollerStepEffect
       DEF IInv, Next, AppEffect, PollerEffect, NodeKeeps, ListKeeps, NodeStep, ListStep, PoolStep
  <2>2. TableInv'
    <3>1. CASE App
      BY <3>1, AppStepTable DEF IInv
    <3>2. CASE Poller
      <4>1. /\ pc'["app"] = pc["app"] /\ ListKeeps
            /\ UNCHANGED <<sock_bind_table, list_ret, req>>
        BY <3>2, PollerStepEffect DEF IInv, PollerEffect
      <4> QED
        BY <4>1 DEF IInv, TableInv, ListKeeps, Keeps
    <3> QED
      BY <1>2, <3>1, <3>2 DEF Next
  <2>3. /\ PoolOK(node_bits, node_free, node_cursor)'
        /\ PoolOK(list_bits, list_free, list_cursor)'
    BY <2>1, PoolStepOK DEF IInv, NodeStep, ListStep
  <2>4. Observe
    BY <1>2 DEF Next
  <2>5. WalkInv'
    <3>1. CASE pc'["poller"] = "idle"
      BY <2>4, <3>1 DEF Observe, WalkInv
    <3>2. CASE pc'["poller"] # "idle" /\ pc["poller"] = "idle"
      <4>1. /\ node_free = 0 \/ list_free <= 1 => tight'
            /\ freed' = Elements({}, {packet'.list} \ list_bits)
            /\ UNCHANGED <<reused, new, twice>>
        BY <2>4, <3>2 DEF Observe
      <4>2. /\ node_free' = node_free /\ list_free' = list_free
            /\ node_cursor' = node_cursor /\ list_cursor' = list_cursor
        BY <2>1, <3>2 DEF NodeKeeps, ListKeeps, Keeps
      <4>3. packet'.list = list_cursor => packet'.list \in list_bits \/ list_free = 1
        BY <2>1, <3>2 DEF Begins, IInv, TableInv
      <4>4. \A e \in freed' : e = <<"list", packet'.list>> /\ packet'.list \notin list_bits
        BY <4>1 DEF Elements
      <4>5. <<"node", node_cursor>> \notin freed'
        BY <4>4
      <4>6. CASE tight'
        BY <3>2, <4>6 DEF WalkInv
      <4>7. CASE ~tight'
        <5>1. node_free # 0 /\ ~(list_free <= 1)
          BY <4>1, <4>7
        <5>2. node_free # 0 /\ list_free # 0 /\ list_free # 1 /\ list_cursor \notin list_bits
          BY <5>1 DEF IInv, PoolOK
        <5>3. packet'.list = list_cursor => packet'.list \in list_bits
          BY <4>3, <5>2
        <5>4. <<"list", list_cursor>> \notin freed'
          <6> SUFFICES ASSUME <<"list", list_cursor>> \in freed' PROVE FALSE
            OBVIOUS
          <6>1. <<"list", list_cursor>> = <<"list", packet'.list>> /\ packet'.list \notin list_bits
            BY <4>4
          <6> QED
            BY <5>3, <6>1
        <5>5. ~reused' /\ new' = {}
          BY <3>2, <4>1 DEF IInv, WalkInv
        <5> QED
          BY <3>2, <4>2, <4>5, <5>2, <5>4, <5>5 DEF WalkInv, Untouched
      <4> QED
        BY <4>6, <4>7
    <3>3. CASE pc'["poller"] # "idle" /\ pc["poller"] # "idle"
      BY <2>1, <2>4, <3>3, WalkGoesOn
    <3> QED
      BY <3>1, <3>2, <3>3
  <2> QED
    BY <2>1, <2>3, <2>5, <2>2 DEF IInv
<1> QED
  BY <1>1, <1>2

\* A walk of the poller that one bind() runs beside meets no element that was
\* freed and taken again since it began, if no pool was exhausted then: shmalloc
\* moves the cursor on before the element can be freed (udpdk_shmalloc.c:94), and
\* shfree moves it only in an exhausted pool (udpdk_shmalloc.c:148).
THEOREM FreedNotReused == Spec => []NoReuse
<1>1. IInv => NoReuse
  BY DEF IInv, WalkInv, NoReuse
<1> QED
  BY <1>1, InitIInv, NextIInv, PTL DEF Spec

-----------------------------------------------------------------------------
(* What is proved of the allocator holds of the pools of nodes and of lists,*)
(* as no call of the application overlaps another.                          *)

NodeProofs == INSTANCE ShmallocProofs WITH
    Size <- NumSockets, ElemBytes <- 1, free_bitfield <- node_bits,
    n_free <- node_free, next_free <- node_cursor, ret <- node_ret
ListProofs == INSTANCE ShmallocProofs WITH
    Size <- NumLists, ElemBytes <- 1, free_bitfield <- list_bits,
    n_free <- list_free, next_free <- list_cursor, ret <- list_ret

\* The steps of a call at which the port has a list.
OnList == {"iter_new", "iter_alloc", "next", "advance", "visit", "unlink", "destroy",
           "iter_free", "info", "node", "push", "front", "clear", "unpublish"}
HasNode == {"node", "push", "front"}

\* What a call works with, whatever has happened to the lists.
AppCall ==
    /\ pc["app"] # "idle" => req \in Requests
    /\ pc["app"] \in OnList => sock_bind_table[req.port] # NULL
    /\ pc["app"] \in {"list", "publish"} => sock_bind_table[req.port] = NULL
    /\ pc["app"] \in HasNode => node_ret \in Nodes
    /\ pc["app"] \in {"list", "publish", "info"} \cup HasNode => job = "scan"
    /\ pc["app"] \in {"unlink", "clear", "unpublish"} => job = "del"

PollerCall == pc["poller"] # "idle" => packet.list \in Lists

Observed == /\ visited \in Seq(NodeOrNull) /\ Len(visited) <= MaxVisits
            /\ blind \in BOOLEAN /\ (blind => raced)

\* The lists.
Shaped    == \A p \in Ports : sock_bind_table[p] # NULL =>
                Linked(list[sock_bind_table[p]], node, Chain(p))
Apart     == \A p, q \in Ports : p # q => Range(Chain(p)) \cap Range(Chain(q)) = {}
Allocated == \A p \in Ports : Range(Chain(p)) \subseteq node_bits

\* What a call is about to link or to unlink.
Prepared ==
    /\ pc["app"] \in HasNode =>
         /\ node_ret \in node_bits /\ \A p \in Ports : node_ret \notin Range(Chain(p))
         /\ node[node_ret].val = NewBindInfo(req.sockfd, req.ip, req.opts)
    /\ pc["app"] = "publish" => list[list_ret] = NewList
    /\ pc["app"] = "front" =>
         /\ Chain(req.port) # <<>> /\ req.ip = INADDR_ANY
         /\ node[node_ret].next = list[sock_bind_table[req.port]].head
         /\ node[node_ret].prev = NULL
    /\ pc["app"] = "unpublish" => Chain(req.port) = <<>>

InList(r) == \E i \in DOMAIN Chain(r.port) : node[Chain(r.port)[i]].val.sockfd = r.sockfd

Removing(r) == /\ r = req /\ job = "del"
               /\ pc["app"] \in {"destroy", "iter_free", "clear", "unpublish"}

\* What the application has bound is in the lists, but for what it is removing.
Requested ==
    /\ \A r, q \in bound : r.sockfd = q.sockfd => r = q
    /\ \A r \in bound : InList(r) \/ Removing(r)
    /\ pc["app"] # "idle" /\ job # "del" => \A b \in bound : b.sockfd # req.sockfd

\* After a removal through a raced iterator the lists are followed no further.
ShapeInv == ~blind => Shaped /\ Apart /\ Allocated /\ Prepared /\ Requested

-----------------------------------------------------------------------------
(* The scan of a call.                                                      *)

\* What the scan of a bind() or of a close() looks for.
Test(b) == IF job = "del" THEN b.sockfd # req.sockfd ELSE Compatible(b, req.ip, req.opts)

Passed(k) == \A i \in 1 .. k - 1 : Test(Bindings(req.port)[i])

Reached(n) == \E k \in 1 .. Len(Chain(req.port)) + 1 : n = At(Chain(req.port), k) /\ Passed(k)

AllPassed == Passed(Len(Chain(req.port)) + 1)

\* While calls of the iterator allocator have not overlapped, the application is
\* where its scan has got to, and all before it was passed.
AppWalk ==
    /\ it["app"] = "app" /\ it["poller"] = "poller"
    /\ pc["app"] = "iter_alloc" => curr["app"] = At(Chain(req.port), 1)
    /\ pc["app"] = "next" => Reached(iter["app"])
    /\ pc["app"] \in {"advance", "visit", "unlink"} => Reached(curr["app"])
    /\ pc["app"] = "visit" => iter["app"] = node[curr["app"]].next
    /\ pc["app"] = "unlink" => node[curr["app"]].val.sockfd = req.sockfd
    /\ pc["app"] \in {"destroy", "iter_free"} /\ job # "denied" => AllPassed
    /\ pc["app"] \in {"info", "clear", "unpublish"} \cup HasNode => AllPassed

\* Every binding of the lists is the only one of a bound socket.
Owned ==
    /\ \A p \in Ports : \A i \in DOMAIN Chain(p) :
          \E r \in bound : r.port = p /\ r.sockfd = Bindings(p)[i].sockfd
    /\ \A p \in Ports : \A i, j \in DOMAIN Chain(p) :
          Bindings(p)[i].sockfd = Bindings(p)[j].sockfd => i = j
    /\ pc["app"] # "idle" /\ job = "del" => req \in bound

\* After a race the scan may have seen part of a list only.
ScanInv == ~raced => AppWalk /\ Owned

-----------------------------------------------------------------------------
(* The two allocators.                                                      *)

LEMMA HeapConstants ==
    /\ NumSockets \in Nat \ {0} /\ NumLists \in Nat \ {0}
    /\ 1 \in Nat \ {0} /\ NULL \notin Nat
    /\ 1 + 64 - 1 = 64 /\ 64 \div 64 = 1
BY NumSocketsAssumption, ListsAssumption, MaxPortAssumption, NullAssumption

HeapsOK == NodeProofs!IInv /\ ListProofs!IInv

LEMMA InitHeaps == LwInit => HeapsOK
<1> SUFFICES ASSUME LwInit PROVE HeapsOK
  OBVIOUS
<1>1. NodeProofs!Init /\ ListProofs!Init
  BY DEF LwInit, NodeHeap!Init, ListHeap!Init, NodeProofs!Init, ListProofs!Init
<1> QED
  BY <1>1, HeapConstants, NodeProofs!InitIInv, ListProofs!InitIInv DEF HeapsOK

LEMMA NodeHeapNext ==
    ASSUME NodeProofs!IInv,
           \/ NodeHeap!ShmallocFails \/ NodeHeap!ShmallocSucceeds
           \/ \E i \in Nodes : NodeHeap!Shfree(i)
           \/ UNCHANGED node_pool
    PROVE  NodeProofs!IInv'
<1>1. NodeHeap!ShmallocFails => NodeProofs!ShmallocFails
  BY DEF NodeHeap!ShmallocFails, NodeProofs!ShmallocFails
<1>2. NodeHeap!ShmallocSucceeds => NodeProofs!ShmallocSucceeds
  BY DEF NodeHeap!ShmallocSucceeds, NodeProofs!ShmallocSucceeds,
         NodeHeap!FirstFreeAfter, NodeProofs!FirstFreeAfter, NodeHeap!Idx, NodeProofs!Idx,
         NodeHeap!Distance, NodeProofs!Distance
<1>3. ASSUME NEW i \in Nodes, NodeHeap!Shfree(i)
      PROVE  NodeProofs!Shfree(i) /\ i \in -1 .. NumSockets * NodeProofs!Stride
  <2>1. NodeProofs!Shfree(i)
    BY <1>3 DEF NodeHeap!Shfree, NodeProofs!Shfree, NodeHeap!InPool, NodeProofs!InPool,
                NodeHeap!Stride, NodeProofs!Stride, NodeHeap!Release, NodeProofs!Release,
                NodeHeap!vars, NodeProofs!vars
  <2>2. NodeProofs!Stride = 1
    BY HeapConstants DEF NodeProofs!Stride
  <2> QED
    BY <2>1, <2>2, HeapConstants DEF Nodes
<1>4. UNCHANGED node_pool => UNCHANGED NodeProofs!vars
  BY DEF node_pool, NodeProofs!vars
<1>5. NodeProofs!Next \/ UNCHANGED NodeProofs!vars
  BY <1>1, <1>2, <1>3, <1>4 DEF NodeProofs!Next
<1> QED
  BY <1>5, HeapConstants, NodeProofs!NextIInv

LEMMA ListHeapNext ==
    ASSUME ListProofs!IInv,
           \/ ListHeap!ShmallocSucceeds
           \/ \E i \in Lists : ListHeap!Shfree(i)
           \/ UNCHANGED list_pool
    PROVE  ListProofs!IInv'
<1>2. ListHeap!ShmallocSucceeds => ListProofs!ShmallocSucceeds
  BY DEF ListHeap!ShmallocSucceeds, ListProofs!ShmallocSucceeds,
         ListHeap!FirstFreeAfter, ListProofs!FirstFreeAfter, ListHeap!Idx, ListProofs!Idx,
         ListHeap!Distance, ListProofs!Distance
<1>3. ASSUME NEW i \in Lists, ListHeap!Shfree(i)
      PROVE  ListProofs!Shfree(i) /\ i \in -1 .. NumLists * ListProofs!Stride
  <2>1. ListProofs!Shfree(i)
    BY <1>3 DEF ListHeap!Shfree, ListProofs!Shfree, ListHeap!InPool, ListProofs!InPool,
                ListHeap!Stride, ListProofs!Stride, ListHeap!Release, ListProofs!Release,
                ListHeap!vars, ListProofs!vars
  <2>2. ListProofs!Stride = 1
    BY HeapConstants DEF ListProofs!Stride
  <2> QED
    BY <2>1, <2>2, HeapConstants DEF Lists
<1>4. UNCHANGED list_pool => UNCHANGED ListProofs!vars
  BY DEF list_pool, ListProofs!vars
<1>5. ListProofs!Next \/ UNCHANGED ListProofs!vars
  BY <1>2, <1>3, <1>4 DEF ListProofs!Next
<1> QED
  BY <1>5, HeapConstants, ListProofs!NextIInv

\* What the allocators return and free, for elements of one byte.
LEMMA HeapFacts ==
    ASSUME HeapsOK
    PROVE  /\ node_bits \subseteq Nodes /\ list_bits \subseteq Lists
           /\ node_cursor \in Nodes /\ list_cursor \in Lists
           /\ node_ret \in Nodes \cup {NULL} /\ list_ret \in Lists \cup {NULL}
           /\ node_free # 0 => node_cursor \notin node_bits
           /\ list_free # 0 => list_cursor \notin list_bits
           /\ NodeHeap!TypeOK /\ ListHeap!TypeOK
BY DEF HeapsOK, NodeProofs!IInv, ListProofs!IInv, NodeProofs!TypeOK, ListProofs!TypeOK,
       NodeHeap!TypeOK, ListHeap!TypeOK, NodeProofs!Idx, ListProofs!Idx, NodeHeap!Idx, ListHeap!Idx,
       NodeProofs!CursorFree, ListProofs!CursorFree, Nodes, Lists

LEMMA NodeFreed ==
    ASSUME NEW i \in Nodes, NodeHeap!Shfree(i)
    PROVE  node_bits' = node_bits \ {i} /\ node_ret' = node_ret
<1>1. NodeHeap!Stride = 1 /\ i \div 1 = i /\ NodeHeap!InPool(i)
  BY HeapConstants DEF NodeHeap!Stride, NodeHeap!InPool, Nodes
<1> QED
  BY <1>1 DEF NodeHeap!Shfree, NodeHeap!Release, NodeHeap!vars

-----------------------------------------------------------------------------
(* Types.                                                                   *)

MemTypes ==
    /\ sock_bind_table \in [Ports -> Lists \cup {NULL}]
    /\ list \in [Lists -> [head : NodeOrNull, tail : NodeOrNull, len : Int]]
    /\ node \in [Nodes -> [prev : NodeOrNull, next : NodeOrNull, val : BindInfo \cup {NULL}]]

ProcTypes ==
    /\ iter \in [Procs -> NodeOrNull] /\ it \in [Procs -> Procs]
    /\ curr \in [Procs -> NodeOrNull] /\ pc \in [Procs -> Steps]
    /\ \A p \in Procs : pc[p] \in {"advance", "visit", "unlink"} => curr[p] \in Nodes
    /\ raced \in BOOLEAN

CallTypes ==
    /\ req \in Requests \cup {NULL} /\ job \in {"scan", "denied", "del"}
    /\ bound \subseteq Requests /\ calls \in 0 .. MaxCalls

Types == MemTypes /\ ProcTypes /\ CallTypes /\ HeapsOK /\ AppCall /\ PollerCall /\ Observed

LEMMA ProcFacts ==
    /\ "app" \in Procs /\ "poller" \in Procs /\ "app" # "poller"
    /\ \A p \in Procs : p = "app" \/ p = "poller"
BY DEF Procs

LEMMA RequestFacts ==
    ASSUME NEW r \in Requests
    PROVE  /\ r.port \in Ports /\ r.sockfd \in Sockets /\ r.ip \in IPs
           /\ NewBindInfo(r.sockfd, r.ip, r.opts) \in BindInfo
           /\ NewBindInfo(r.sockfd, r.ip, r.opts).sockfd = r.sockfd
           /\ NewBindInfo(r.sockfd, r.ip, r.opts).ip_addr = r.ip
BY RequestsAssumption DEF NewBindInfo, BindInfo, HasOption

\* A step of one process: the other stays, and the step is one of those of the code.
LEMMA TransitionFacts ==
    ASSUME ProcTypes, NEW p \in Procs, NEW from, NEW to \in Steps, Transition(p, from, to)
    PROVE  /\ pc[p] = from /\ pc'[p] = to /\ pc' \in [Procs -> Steps]
           /\ \A q \in Procs : q # p => pc'[q] = pc[q]
BY DEF Transition, ProcTypes

LEMMA IteratorTypes ==
    ASSUME MemTypes, ProcTypes, AppCall, PollerCall, NEW p \in Procs, Iterator(p)
    PROVE  /\ ProcTypes' /\ UNCHANGED <<lists, nodes, request>>
           /\ packet' = packet \/ (p = "poller" /\ pc'[p] = "idle")
           /\ \A q \in Procs : q # p => pc'[q] = pc[q]
<1> USE ProcFacts DEF iters
<1>1. CASE IterNew(p)
  <2>1. /\ pc[p] = "iter_new" /\ pc'[p] = "iter_alloc" /\ pc' \in [Procs -> Steps]
        /\ \A q \in Procs : q # p => pc'[q] = pc[q]
    BY <1>1, TransitionFacts DEF IterNew, Steps
  <2>2. curr' \in [Procs -> NodeOrNull] /\ \A q \in Procs : q # p => curr'[q] = curr[q]
    <3> DEFINE l == IF p = "app" THEN sock_bind_table[req.port] ELSE packet.list
    <3>1. l \in Lists
      <4>1. CASE p = "app"
        BY <2>1, <4>1, RequestFacts DEF AppCall, OnList, MemTypes
      <4>2. CASE p # "app"
        BY <2>1, <4>2 DEF PollerCall
      <4> QED
        BY <4>1, <4>2
    <3>2. curr' = [curr EXCEPT ![p] = list[l].head]
      BY <1>1 DEF IterNew
    <3> HIDE DEF l
    <3>3. list[l].head \in NodeOrNull
      BY <3>1 DEF MemTypes
    <3> QED
      BY <3>2, <3>3 DEF ProcTypes
  <2>3. UNCHANGED <<iter, it, lists, nodes, request, packet>> /\ raced' \in BOOLEAN
    BY <1>1 DEF IterNew, Enter, ProcTypes
  <2> QED
    BY <2>1, <2>2, <2>3 DEF ProcTypes
<1>2. CASE IterGot(p)
  <2>1. /\ UNCHANGED <<lists, nodes, curr, request, packet, raced>>
        /\ pc[p] = "iter_alloc" /\ pc'[p] \in {"next", "crashed"} /\ pc' \in [Procs -> Steps]
        /\ \A q \in Procs : q # p => pc'[q] = pc[q]
    BY <1>2, TransitionFacts DEF IterGot, Steps
  <2>2. iter' \in [Procs -> NodeOrNull] /\ it' \in [Procs -> Procs]
    <3>1. CASE UNCHANGED <<it, iter>>
      BY <3>1 DEF ProcTypes
    <3>2. CASE \E i \in Procs : it' = [it EXCEPT ![p] = i] /\ iter' = [iter EXCEPT ![i] = curr[p]]
      BY <3>2 DEF ProcTypes
    <3> QED
      BY <1>2, <3>1, <3>2 DEF IterGot
  <2> QED
    BY <2>1, <2>2 DEF ProcTypes
<1>3. CASE IterNext(p)
  <2> DEFINE n == iter[it[p]]
  <2>1. n \in NodeOrNull
    BY DEF ProcTypes
  <2>2. /\ UNCHANGED <<lists, nodes, iter, it, request, packet, raced>>
        /\ curr' = [curr EXCEPT ![p] = n]
        /\ pc[p] = "next" /\ pc'[p] = IF n = NULL THEN "destroy" ELSE "advance"
        /\ pc' \in [Procs -> Steps]
        /\ \A q \in Procs : q # p => pc'[q] = pc[q]
    BY <1>3, TransitionFacts DEF IterNext, Steps
  <2> HIDE DEF n
  <2> QED
    BY <2>1, <2>2 DEF ProcTypes, NodeOrNull
<1>4. CASE IterAdvance(p)
  <2>1. /\ UNCHANGED <<lists, nodes, it, curr, request, packet, raced>>
        /\ pc[p] = "advance" /\ pc'[p] = "visit" /\ pc' \in [Procs -> Steps]
        /\ \A q \in Procs : q # p => pc'[q] = pc[q]
    BY <1>4, TransitionFacts DEF IterAdvance, Steps
  <2>2. iter' = [iter EXCEPT ![it[p]] = node[curr[p]].next] /\ node[curr[p]].next \in NodeOrNull
    BY <1>4, <2>1 DEF IterAdvance, ProcTypes, MemTypes
  <2> QED
    BY <2>1, <2>2 DEF ProcTypes
<1>5. CASE IterDestroy(p)
  <2>1. /\ UNCHANGED <<lists, nodes, iters, request, packet>> /\ raced' \in BOOLEAN
        /\ pc[p] = "destroy" /\ pc'[p] = "iter_free" /\ pc' \in [Procs -> Steps]
        /\ \A q \in Procs : q # p => pc'[q] = pc[q]
    BY <1>5, TransitionFacts DEF IterDestroy, Steps, Enter, ProcTypes
  <2> QED
    BY <2>1 DEF ProcTypes
<1>6. CASE IterFreed(p)
  <2>1. /\ UNCHANGED <<lists, nodes, it, request, raced>>
        /\ pc[p] = "iter_free" /\ pc'[p] = AfterWalk(p) /\ pc' \in [Procs -> Steps]
        /\ \A q \in Procs : q # p => pc'[q] = pc[q]
    BY <1>6, TransitionFacts DEF IterFreed, Steps, AfterWalk
  <2>2. /\ curr' = [curr EXCEPT ![p] = NULL]
        /\ iter' = iter \/ iter' = [iter EXCEPT ![p] = NULL]
        /\ packet' = packet \/ p = "poller"
    BY <1>6 DEF IterFreed
  <2> QED
    BY <2>1, <2>2 DEF ProcTypes, NodeOrNull, AfterWalk
<1> QED
  BY <1>1, <1>2, <1>3, <1>4, <1>5, <1>6 DEF Iterator

\* A close() begins only while its socket is in a list.
BoundOnPort == pc["app"] = "idle" /\ ~blind => \A r \in bound : sock_bind_table[r.port] # NULL

LEMMA StartTypes ==
    ASSUME Types, BoundOnPort, NEW r \in Requests, Bind(r) \/ Close(r)
    PROVE  ProcTypes' /\ CallTypes' /\ AppCall' /\ UNCHANGED <<lists, nodes, packet>>
<1> USE ProcFacts DEF iters, Types
<1>1. PICK what \in {"scan", "del"}, step \in {"list", "iter_new"} :
         /\ CallStarts(r, what, step)
         /\ step = "list" => what = "scan" /\ sock_bind_table[r.port] = NULL
         /\ step = "iter_new" => sock_bind_table[r.port] # NULL
  <2>1. CASE Bind(r)
    BY <2>1 DEF Bind
  <2>2. CASE Close(r)
    <3>1. pc["app"] = "idle" /\ ~blind
      BY <2>2, TransitionFacts DEF Close, CallStarts, Steps
    <3> QED
      BY <2>2, <3>1 DEF Close, BoundOnPort
  <2> QED
    BY <2>1, <2>2
<1>2. /\ pc["app"] = "idle" /\ pc'["app"] = step /\ pc' \in [Procs -> Steps]
      /\ pc'["poller"] = pc["poller"]
  BY <1>1, TransitionFacts DEF CallStarts, Steps
<1>3. /\ req' = r /\ job' = what /\ UNCHANGED <<lists, nodes, iters, bound, packet, raced>>
      /\ calls < (IF raced THEN MaxCallsRaced ELSE MaxCalls) /\ calls' = calls + 1
  BY <1>1 DEF CallStarts
<1>4. ProcTypes'
  BY <1>1, <1>2, <1>3 DEF ProcTypes
<1>5. CallTypes'
  BY <1>3, CallsAssumption DEF CallTypes
<1>6. AppCall'
  BY <1>1, <1>2, <1>3 DEF AppCall, OnList, HasNode, lists
<1> QED
  BY <1>3, <1>4, <1>5, <1>6

\* The steps of a call that leave the iterators alone.
LEMMA QuietTypes ==
    ASSUME ProcTypes, NEW from \in Steps, NEW to \in Steps \ {"advance", "visit"},
           Transition("app", from, to), UNCHANGED <<iters, raced>>, to = "unlink" => from = "visit"
    PROVE  /\ ProcTypes' /\ pc["app"] = from /\ pc'["app"] = to
           /\ pc'["poller"] = pc["poller"]
<1>1. /\ pc["app"] = from /\ pc'["app"] = to /\ pc' \in [Procs -> Steps]
      /\ pc'["poller"] = pc["poller"]
  BY ProcFacts, TransitionFacts
<1> QED
  BY <1>1, ProcFacts DEF ProcTypes, iters

LEMMA ScanTypes ==
    ASSUME Types, Scan \/ Search
    PROVE  ProcTypes' /\ CallTypes' /\ AppCall' /\ UNCHANGED <<lists, nodes, packet>>
<1> USE DEF Types
<1>1. PICK to \in {"next", "destroy", "unlink"} :
         /\ Transition("app", "visit", to) /\ (to = "unlink" => job = "del")
         /\ UNCHANGED <<lists, nodes, iters, req, bound, calls, packet, raced>>
         /\ job' \in {job, "denied"} /\ (to = "unlink" => job' = job)
  BY DEF Scan, Search, request
<1>2. ProcTypes' /\ pc["app"] = "visit" /\ pc'["app"] = to
  BY <1>1, QuietTypes DEF Steps
<1>3. CallTypes'
  BY <1>1 DEF CallTypes
<1>4. AppCall'
  BY <1>1, <1>2 DEF AppCall, OnList, HasNode, lists
<1> QED
  BY <1>1, <1>2, <1>3, <1>4

AppTypes == /\ MemTypes' /\ ProcTypes' /\ CallTypes' /\ HeapsOK' /\ AppCall'
            /\ UNCHANGED packet /\ pc'["poller"] = pc["poller"]

LEMMA SameHeaps ==
    ASSUME HeapsOK
    PROVE  /\ UNCHANGED node_pool => NodeProofs!IInv'
           /\ UNCHANGED list_pool => ListProofs!IInv'
BY NodeHeapNext, ListHeapNext DEF HeapsOK

LEMMA NewListTypes == ASSUME Types, list_new \/ PublishList, TableInv PROVE AppTypes
<1> USE DEF Types, nodes, request
<1>1. CASE list_new
  <2>1. ProcTypes' /\ pc["app"] = "list" /\ pc'["app"] = "publish" /\ pc'["poller"] = pc["poller"]
    BY <1>1, QuietTypes DEF list_new, Steps
  <2>2. list_ret' = list_cursor /\ list_cursor \in Lists
    BY <1>1, HeapFacts DEF list_new, ListHeap!ShmallocSucceeds
  <2>3. MemTypes'
    <3>1. NewList \in [head : NodeOrNull, tail : NodeOrNull, len : Int]
      BY DEF NewList, NodeOrNull
    <3>2. list' = [list EXCEPT ![list_cursor] = NewList] /\ UNCHANGED <<sock_bind_table, node>>
      BY <1>1, <2>2 DEF list_new
    <3> QED
      BY <3>1, <3>2 DEF MemTypes
  <2>4. HeapsOK'
    BY <1>1, SameHeaps, ListHeapNext DEF list_new, HeapsOK
  <2>5. UNCHANGED <<sock_bind_table, req, job, bound, calls, packet>>
    BY <1>1 DEF list_new
  <2> QED
    BY <2>1, <2>3, <2>4, <2>5 DEF AppTypes, AppCall, CallTypes, OnList, HasNode
<1>2. CASE PublishList
  <2>1. ProcTypes' /\ pc["app"] = "publish" /\ pc'["app"] = "info" /\ pc'["poller"] = pc["poller"]
    BY <1>2, QuietTypes DEF PublishList, Steps
  <2>2. list_ret \in Lists /\ list_ret # NULL
    <3>1. list_ret \in list_bits /\ list_bits \subseteq Lists
      BY <2>1 DEF TableInv
    <3>2. \A x \in Lists : x # NULL
      BY NullAssumption, ListsAssumption DEF Lists
    <3> QED
      BY <3>1, <3>2
  <2>3. /\ sock_bind_table' = [sock_bind_table EXCEPT ![req.port] = list_ret]
        /\ UNCHANGED <<list, list_pool, nodes, req, job, bound, calls, packet>>
    BY <1>2 DEF PublishList
  <2>4. MemTypes'
    BY <2>2, <2>3 DEF MemTypes
  <2>5. HeapsOK'
    BY <2>3, SameHeaps DEF HeapsOK
  <2>6. AppCall'
    <3>1. req.port \in Ports
      BY <2>1, RequestFacts DEF AppCall
    <3> QED
      BY <2>1, <2>2, <2>3, <3>1 DEF AppCall, OnList, HasNode, MemTypes
  <2> QED
    BY <2>1, <2>3, <2>4, <2>5, <2>6 DEF AppTypes, CallTypes
<1> QED
  BY <1>1, <1>2

LEMMA NewNodeTypes == ASSUME Types, NewBindInfoElem \/ list_node_new \/ LinkFront PROVE AppTypes
<1> USE DEF Types, lists, request
<1>1. CASE NewBindInfoElem
  <2>1. PICK to \in {"node", "crashed"} :
           to = (IF node_free = 0 THEN "crashed" ELSE "node") /\ Transition("app", "info", to)
    BY <1>1 DEF NewBindInfoElem
  <2>2. ProcTypes' /\ pc["app"] = "info" /\ pc'["app"] = to /\ pc'["poller"] = pc["poller"]
    BY <1>1, <2>1, QuietTypes DEF NewBindInfoElem, Steps
  <2>3. UNCHANGED <<sock_bind_table, list, list_pool, req, job, bound, calls, packet>>
    BY <1>1 DEF NewBindInfoElem
  <2>4. HeapsOK'
    BY <1>1, <2>3, SameHeaps, NodeHeapNext DEF NewBindInfoElem, HeapsOK
  <2>5. to = "node" => node_ret' \in Nodes
    BY <1>1, <2>1, HeapFacts
       DEF NewBindInfoElem, NodeHeap!ShmallocSucceeds, NodeHeap!ShmallocFails
  <2>6. MemTypes'
    <3>1. req \in Requests
      BY <2>2 DEF AppCall
    <3>2. PICK b \in BindInfo : b = NewBindInfo(req.sockfd, req.ip, req.opts)
      BY <3>1, RequestFacts
    <3>3. node' = node \/ node' = [node EXCEPT ![node_ret'].val = b]
      BY <1>1, <3>2 DEF NewBindInfoElem
    <3> QED
      BY <2>3, <3>3 DEF MemTypes
  <2>7. AppCall'
    BY <2>2, <2>3, <2>5 DEF AppCall, OnList, HasNode
  <2> QED
    BY <2>2, <2>3, <2>4, <2>6, <2>7 DEF AppTypes, CallTypes
<1>2. CASE list_node_new \/ LinkFront
  <2>1. PICK from \in {"node", "push"}, to \in {"push", "front"} :
           /\ Transition("app", from, to)
           /\ UNCHANGED <<lists, node_pool, iters, request, packet, raced>>
    BY <1>2 DEF list_node_new, LinkFront
  <2>2. ProcTypes' /\ pc["app"] = from /\ pc'["app"] = to /\ pc'["poller"] = pc["poller"]
    BY <2>1, QuietTypes DEF Steps
  <2>3. MemTypes'
    <3>1. CASE list_node_new
      <4>1. node' = [node EXCEPT ![node_ret].prev = NULL, ![node_ret].next = NULL]
        BY <3>1 DEF list_node_new
      <4> QED
        BY <2>1, <4>1 DEF MemTypes, NodeOrNull
    <3>2. CASE LinkFront
      <4>1. PICK n \in NodeOrNull : n = list[sock_bind_table[req.port]].head
        <5>1. sock_bind_table[req.port] \in Lists
          BY <2>1, <2>2, RequestFacts DEF MemTypes, AppCall, OnList
        <5> QED
          BY <5>1 DEF MemTypes
      <4>2. node' = [node EXCEPT ![node_ret].next = n, ![node_ret].prev = NULL]
        BY <3>2, <4>1 DEF LinkFront
      <4> QED
        BY <2>1, <4>2 DEF MemTypes, NodeOrNull
    <3> QED
      BY <1>2, <3>1, <3>2
  <2>4. HeapsOK'
    BY <2>1, SameHeaps DEF HeapsOK
  <2>5. AppCall'
    BY <2>1, <2>2 DEF AppCall, OnList, HasNode, node_pool
  <2> QED
    BY <2>1, <2>2, <2>3, <2>4, <2>5 DEF AppTypes, CallTypes
<1> QED
  BY <1>1, <1>2

LEMMA PushTypes == ASSUME Types, PushAlone \/ list_rpush \/ list_lpush PROVE AppTypes
<1> USE DEF Types
<1>1. PICK from \in {"push", "front"} : Transition("app", from, "idle")
  BY DEF PushAlone, list_rpush, list_lpush
<1>2. UNCHANGED <<sock_bind_table, list_pool, node_pool, iters, req, job, calls, packet, raced>>
  BY DEF PushAlone, list_rpush, list_lpush, Pushed
<1>3. ProcTypes' /\ pc["app"] = from /\ pc'["app"] = "idle" /\ pc'["poller"] = pc["poller"]
  BY <1>1, <1>2, QuietTypes DEF Steps
<1>4. req \in Requests /\ bound' = bound \cup {req} /\ node_ret \in Nodes
  BY <1>3 DEF AppCall, HasNode, PushAlone, list_rpush, list_lpush, Pushed
<1>5. PICK l \in Lists : l = sock_bind_table[req.port]
  BY <1>3, <1>4, RequestFacts DEF MemTypes, AppCall, OnList
<1>6. /\ list[l].head \in NodeOrNull /\ list[l].tail \in NodeOrNull /\ list[l].len \in Int
      /\ node_ret \in NodeOrNull /\ NULL \in NodeOrNull
  BY <1>4, <1>5 DEF MemTypes, NodeOrNull
<1>7. list' \in [Lists -> [head : NodeOrNull, tail : NodeOrNull, len : Int]]
  <2>1. CASE PushAlone
    <3>1. list' = [list EXCEPT ![l] = [head |-> node_ret, tail |-> node_ret, len |-> 1]]
      BY <1>5, <2>1 DEF PushAlone
    <3> QED
      BY <1>6, <3>1 DEF MemTypes
  <2>2. CASE list_rpush
    <3>1. list' = [list EXCEPT ![l].tail = node_ret, ![l].len = @ + 1]
      BY <1>5, <2>2 DEF list_rpush
    <3> QED
      BY <1>6, <3>1 DEF MemTypes
  <2>3. CASE list_lpush
    <3>1. list' = [list EXCEPT ![l].head = node_ret, ![l].len = @ + 1]
      BY <1>5, <2>3 DEF list_lpush
    <3> QED
      BY <1>6, <3>1 DEF MemTypes
  <2> QED
    BY <2>1, <2>2, <2>3
<1>8. node' \in [Nodes -> [prev : NodeOrNull, next : NodeOrNull, val : BindInfo \cup {NULL}]]
  <2>1. CASE PushAlone
    <3>1. node' = [node EXCEPT ![node_ret].prev = NULL, ![node_ret].next = NULL]
      BY <1>5, <2>1 DEF PushAlone
    <3> QED
      BY <1>6, <3>1 DEF MemTypes
  <2>2. CASE list_rpush
    <3>1. node' = [node EXCEPT ![node_ret].prev = list[l].tail, ![node_ret].next = NULL,
                               ![list[l].tail].next = node_ret]
      BY <1>5, <2>2 DEF list_rpush
    <3>2. PICK t \in NodeOrNull : t = list[l].tail
      BY <1>6
    <3> DEFINE linked == [node EXCEPT ![node_ret].prev = t, ![node_ret].next = NULL]
    <3>3. linked \in [Nodes -> [prev : NodeOrNull, next : NodeOrNull, val : BindInfo \cup {NULL}]]
      BY <1>6, <3>2 DEF MemTypes
    <3>4. node' = [linked EXCEPT ![t].next = node_ret]
      BY <3>1, <3>2
    <3> HIDE DEF linked
    <3> QED
      BY <1>6, <3>3, <3>4
  <2>3. CASE list_lpush
    <3>1. node' = [node EXCEPT ![list[l].head].prev = node_ret]
      BY <1>5, <2>3 DEF list_lpush
    <3> QED
      BY <1>6, <3>1 DEF MemTypes
  <2> QED
    BY <2>1, <2>2, <2>3
<1>9. MemTypes'
  BY <1>2, <1>7, <1>8 DEF MemTypes
<1>10. HeapsOK'
  BY <1>2, SameHeaps DEF HeapsOK
<1>11. AppCall'
  BY <1>2, <1>3 DEF AppCall, OnList, HasNode
<1> QED
  BY <1>2, <1>3, <1>4, <1>9, <1>10, <1>11 DEF AppTypes, CallTypes

LEMMA RemoveTypes == ASSUME Types, list_remove PROVE AppTypes
<1> USE DEF Types
<1>1. ProcTypes' /\ pc["app"] = "unlink" /\ pc'["app"] = "destroy" /\ pc'["poller"] = pc["poller"]
  BY QuietTypes DEF list_remove, Steps
<1>2. UNCHANGED <<sock_bind_table, list_pool, req, job, bound, calls, packet>>
  BY DEF list_remove, request
<1>3. PICK i \in Nodes : i = curr["app"]
  BY <1>1, ProcFacts DEF ProcTypes
<1>4. PICK l \in Lists : l = sock_bind_table[req.port]
  BY <1>1, RequestFacts DEF MemTypes, AppCall, OnList
<1>5. PICK n \in [prev : NodeOrNull, next : NodeOrNull, val : BindInfo \cup {NULL}] : n = node[i]
  BY DEF MemTypes
<1>6. node' \in [Nodes -> [prev : NodeOrNull, next : NodeOrNull, val : BindInfo \cup {NULL}]]
  <2>1. Bypassed(i) \in [Nodes -> [prev : NodeOrNull, next : NodeOrNull, val : BindInfo \cup {NULL}]]
    <3>1. Bypassed(i) = node \/ Bypassed(i) = [node EXCEPT ![n.prev].next = n.next]
      BY <1>5 DEF Bypassed
    <3> QED
      BY <3>1 DEF MemTypes
  <2>2. node' = Bypassed(i) \/ node' = [Bypassed(i) EXCEPT ![n.next].prev = n.prev]
    BY <1>3, <1>5 DEF list_remove, Unlinked
  <2> QED
    BY <2>1, <2>2
<1>7. list' \in [Lists -> [head : NodeOrNull, tail : NodeOrNull, len : Int]]
  <2>1. list' = [list EXCEPT ![l] = EndsWithout(l, i)]
    BY <1>3, <1>4 DEF list_remove
  <2>2. EndsWithout(l, i) \in [head : NodeOrNull, tail : NodeOrNull, len : Int]
    <3>1. PICK L \in [head : NodeOrNull, tail : NodeOrNull, len : Int] : L = list[l]
      BY <1>4 DEF MemTypes
    <3>2. PICK h \in NodeOrNull : h = IF n.prev = NULL THEN n.next ELSE L.head
      BY <1>5, <3>1
    <3>3. PICK t \in NodeOrNull : t = IF n.next = NULL THEN n.prev ELSE L.tail
      BY <1>5, <3>1
    <3>4. PICK k \in Int : k = L.len - 1
      BY <3>1
    <3>5. EndsWithout(l, i) = [L EXCEPT !.head = h, !.tail = t, !.len = k]
      BY <1>5, <3>1, <3>2, <3>3, <3>4 DEF EndsWithout
    <3>6. [L EXCEPT !.head = h] \in [head : NodeOrNull, tail : NodeOrNull, len : Int]
      BY <3>1, <3>2
    <3>7. [L EXCEPT !.head = h, !.tail = t] \in [head : NodeOrNull, tail : NodeOrNull, len : Int]
      BY <3>3, <3>6
    <3>8. [L EXCEPT !.head = h, !.tail = t, !.len = k]
            \in [head : NodeOrNull, tail : NodeOrNull, len : Int]
      BY <3>4, <3>7
    <3> QED
      BY <3>5, <3>8
  <2> QED
    BY <2>1, <2>2 DEF MemTypes
<1>8. MemTypes'
  BY <1>2, <1>6, <1>7 DEF MemTypes
<1>9. HeapsOK'
  <2>1. NodeHeap!Shfree(i)
    BY <1>3 DEF list_remove
  <2> QED
    BY <1>2, <2>1, SameHeaps, NodeHeapNext DEF HeapsOK
<1>10. AppCall'
  BY <1>1, <1>2 DEF AppCall, OnList, HasNode
<1> QED
  BY <1>1, <1>2, <1>8, <1>9, <1>10 DEF AppTypes, CallTypes

LEMMA ClearTypes == ASSUME Types, ClearEntry \/ list_destroy \/ UnpublishList PROVE AppTypes
<1> USE DEF Types
<1>1. CASE ClearEntry
  <2>1. ProcTypes' /\ pc["app"] = "clear" /\ pc'["app"] = "idle" /\ pc'["poller"] = pc["poller"]
    BY <1>1, QuietTypes DEF ClearEntry, Steps
  <2>2. /\ UNCHANGED <<sock_bind_table, list, list_pool, node, node_pool, req, job, calls, packet>>
        /\ bound' \subseteq bound
    BY <1>1 DEF ClearEntry, lists, nodes
  <2>3. HeapsOK'
    BY <2>2, SameHeaps DEF HeapsOK
  <2> QED
    BY <2>1, <2>2, <2>3 DEF AppTypes, CallTypes, AppCall, OnList, HasNode, MemTypes
<1>2. CASE list_destroy
  <2>1. ProcTypes' /\ pc["app"] = "clear" /\ pc'["app"] = "unpublish" /\ pc'["poller"] = pc["poller"]
    BY <1>2, QuietTypes DEF list_destroy, Steps
  <2>2. UNCHANGED <<sock_bind_table, list, node, node_pool, req, job, bound, calls, packet>>
    BY <1>2 DEF list_destroy, nodes, request
  <2>3. HeapsOK'
    <3>1. \E l \in Lists : ListHeap!Shfree(l)
      BY <1>2, <2>1, RequestFacts DEF list_destroy, MemTypes, AppCall, OnList
    <3> QED
      BY <2>2, <3>1, SameHeaps, ListHeapNext DEF HeapsOK
  <2> QED
    BY <2>1, <2>2, <2>3 DEF AppTypes, CallTypes, AppCall, OnList, HasNode, MemTypes
<1>3. CASE UnpublishList
  <2>1. ProcTypes' /\ pc["app"] = "unpublish" /\ pc'["app"] = "idle" /\ pc'["poller"] = pc["poller"]
    BY <1>3, QuietTypes DEF UnpublishList, Steps
  <2>2. /\ UNCHANGED <<list, list_pool, node, node_pool, req, job, calls, packet>>
        /\ bound' \subseteq bound
        /\ sock_bind_table' = [sock_bind_table EXCEPT ![req.port] = NULL]
    BY <1>3 DEF UnpublishList, nodes
  <2>3. HeapsOK'
    BY <2>2, SameHeaps DEF HeapsOK
  <2> QED
    BY <2>1, <2>2, <2>3 DEF AppTypes, CallTypes, AppCall, OnList, HasNode, MemTypes
<1> QED
  BY <1>1, <1>2, <1>3

LEMMA AppKeepsTypes == ASSUME Types, TableInv, BoundOnPort, App PROVE AppTypes
<1>1. ASSUME NEW r \in Requests, Bind(r) \/ Close(r) PROVE AppTypes
  <2>1. ProcTypes' /\ CallTypes' /\ AppCall' /\ UNCHANGED <<lists, nodes, packet>>
    BY <1>1, StartTypes
  <2>2. pc'["poller"] = pc["poller"]
    BY <1>1, ProcFacts DEF Bind, Close, CallStarts, Transition, Types, ProcTypes
  <2>3. HeapsOK'
    BY <2>1, SameHeaps DEF Types, HeapsOK, lists, nodes
  <2> QED
    BY <2>1, <2>2, <2>3 DEF AppTypes, Types, MemTypes, lists, nodes
<1>2. CASE Iterator("app")
  <2>1. /\ ProcTypes' /\ UNCHANGED <<lists, nodes, request>> /\ packet' = packet
        /\ pc'["poller"] = pc["poller"]
    BY <1>2, ProcFacts, IteratorTypes DEF Types
  <2>2. HeapsOK'
    BY <2>1, SameHeaps DEF Types, HeapsOK, lists, nodes
  <2>3. MemTypes' /\ CallTypes'
    BY <2>1 DEF Types, MemTypes, CallTypes, lists, nodes, request
  <2>4. AppCall'
    <3>1. /\ pc["app"] \in OnList \ (HasNode \cup {"unlink", "clear", "unpublish", "info"})
          /\ pc'["app"] \in (OnList \ (HasNode \cup {"unlink", "unpublish"})) \cup {"idle", "crashed"}
          /\ pc'["app"] = "info" => job = "scan"
          /\ pc'["app"] = "clear" => job = "del"
      <4>1. \A from, to : Transition("app", from, to) => pc["app"] = from /\ pc'["app"] = to
        BY ProcFacts DEF Types, ProcTypes, Transition
      <4>2. job \in {"scan", "denied", "del"}
        BY DEF Types, CallTypes
      <4>3. CASE IterNew("app") \/ IterNext("app") \/ IterAdvance("app") \/ IterDestroy("app")
        BY <4>1, <4>3 DEF IterNew, IterNext, IterAdvance, IterDestroy, OnList, HasNode
      <4>4. CASE IterGot("app")
        BY <4>1, <4>4 DEF IterGot, OnList, HasNode
      <4>5. CASE IterFreed("app")
        BY <4>1, <4>2, <4>5 DEF IterFreed, AfterWalk, OnList, HasNode
      <4> QED
        BY <1>2, <4>3, <4>4, <4>5 DEF Iterator
    <3>2. req \in Requests /\ sock_bind_table[req.port] # NULL
      BY <3>1 DEF Types, AppCall, OnList
    <3>3. UNCHANGED <<sock_bind_table, req, job>>
      BY <2>1 DEF lists, request
    <3> QED
      BY <3>1, <3>2, <3>3 DEF AppCall, OnList, HasNode
  <2> QED
    BY <2>1, <2>2, <2>3, <2>4 DEF AppTypes
<1>3. CASE Scan \/ Search
  <2>1. ProcTypes' /\ CallTypes' /\ AppCall' /\ UNCHANGED <<lists, nodes, packet>>
    BY <1>3, ScanTypes
  <2>2. pc'["poller"] = pc["poller"]
    BY <1>3, ProcFacts DEF Scan, Search, Transition, Types, ProcTypes
  <2>3. HeapsOK'
    BY <2>1, SameHeaps DEF Types, HeapsOK, lists, nodes
  <2> QED
    BY <2>1, <2>2, <2>3 DEF AppTypes, Types, MemTypes, lists, nodes
<1> QED
  BY <1>1, <1>2, <1>3, NewListTypes, NewNodeTypes, PushTypes, RemoveTypes, ClearTypes DEF App

LEMMA PollerKeepsTypes ==
    ASSUME Types, Poller
    PROVE  /\ ProcTypes' /\ PollerCall' /\ UNCHANGED <<lists, nodes, request>>
           /\ pc'["app"] = pc["app"]
<1> USE DEF Types
<1>1. CASE Iterator("poller")
  <2>1. /\ ProcTypes' /\ UNCHANGED <<lists, nodes, request>>
        /\ packet' = packet \/ pc'["poller"] = "idle"
        /\ pc'["app"] = pc["app"]
    BY <1>1, ProcFacts, IteratorTypes
  <2>2. pc["poller"] # "idle"
    BY <1>1 DEF Iterator, IterNew, IterGot, IterNext, IterAdvance, IterDestroy, IterFreed, Transition
  <2> QED
    BY <2>1, <2>2 DEF PollerCall
<1>2. CASE Deliver
  <2>1. /\ UNCHANGED <<lists, nodes, iters, request, packet, raced>>
        /\ pc["poller"] = "visit" /\ pc'["poller"] \in {"next", "destroy"}
        /\ pc' \in [Procs -> Steps] /\ pc'["app"] = pc["app"]
    BY <1>2, ProcFacts DEF Deliver, Transition, ProcTypes, Steps
  <2> QED
    BY <2>1, ProcFacts DEF PollerCall, ProcTypes, iters
<1>3. ASSUME NEW p \in Ports, NEW d \in Dsts, Receive(p, d)
      PROVE  /\ ProcTypes' /\ PollerCall' /\ UNCHANGED <<lists, nodes, request>>
             /\ pc'["app"] = pc["app"]
  <2>1. /\ UNCHANGED <<lists, nodes, iters, request, raced>>
        /\ pc["poller"] = "idle" /\ pc'["poller"] = "iter_new"
        /\ pc' \in [Procs -> Steps] /\ pc'["app"] = pc["app"]
        /\ packet'.list = sock_bind_table[p] /\ sock_bind_table[p] # NULL
    BY <1>3, ProcFacts DEF Receive, Transition, ProcTypes, Steps
  <2> QED
    BY <2>1, ProcFacts DEF PollerCall, ProcTypes, MemTypes, iters
<1> QED
  BY <1>1, <1>2, <1>3 DEF Poller, PollerStep

\* A race is not forgotten.
LEMMA RacedStays == ASSUME App \/ Poller, raced PROVE raced'
<1>1. ASSUME NEW p \in Procs, Iterator(p) PROVE raced'
  BY <1>1 DEF Iterator, IterNew, IterGot, IterNext, IterAdvance, IterDestroy, IterFreed, Enter
<1>2. ASSUME NEW r \in Requests, Bind(r) \/ Close(r) PROVE raced'
  BY <1>2 DEF Bind, Close, CallStarts
<1>3. CASE \/ Scan \/ Search \/ list_new \/ PublishList \/ NewBindInfoElem \/ list_node_new
           \/ LinkFront \/ list_remove \/ ClearEntry \/ list_destroy \/ UnpublishList \/ Deliver
  BY <1>3 DEF Scan, Search, list_new, PublishList, NewBindInfoElem, list_node_new,
              LinkFront, list_remove, ClearEntry, list_destroy, UnpublishList, Deliver
<1>4. CASE PushAlone \/ list_rpush \/ list_lpush
  BY <1>4 DEF PushAlone, list_rpush, list_lpush, Pushed
<1>5. ASSUME NEW p \in Ports, NEW d \in Dsts, Receive(p, d) PROVE raced'
  BY <1>5 DEF Receive
<1> QED
  BY <1>1, <1>2, <1>3, <1>4, <1>5, ProcFacts DEF App, Poller, PollerStep

LEMMA ObserveTypes ==
    ASSUME ProcTypes, ProcTypes', Observed, Observe, raced => raced'
    PROVE  Observed'
<1>1. MaxVisits \in Nat
  BY NumSocketsAssumption DEF MaxVisits
<1>2. \/ visited' = <<>> \/ visited' = visited
      \/ Len(visited) < MaxVisits /\ visited' = Append(visited, curr["poller"])
  BY DEF Observe
<1>3. visited' \in Seq(NodeOrNull) /\ Len(visited') <= MaxVisits
  <2>1. CASE visited' = <<>>
    BY <1>1, <2>1
  <2>2. CASE visited' = visited
    BY <2>2 DEF Observed
  <2>3. CASE Len(visited) < MaxVisits /\ visited' = Append(visited, curr["poller"])
    <3>1. curr["poller"] \in NodeOrNull /\ visited \in Seq(NodeOrNull)
      BY ProcFacts DEF ProcTypes, Observed
    <3>2. visited' \in Seq(NodeOrNull) /\ Len(visited') = Len(visited) + 1 /\ Len(visited) \in Nat
      BY <2>3, <3>1, AppendElements
    <3> QED
      BY <1>1, <2>3, <3>2
  <2> QED
    BY <1>2, <2>1, <2>2, <2>3
<1>4. blind' = (blind \/ (raced /\ pc["app"] = "unlink" /\ pc'["app"] # "unlink"))
  BY DEF Observe
<1> QED
  BY <1>3, <1>4 DEF Observed, MaxVisits, ProcTypes

LEMMA NextTypes == ASSUME Types, TableInv, BoundOnPort, Next PROVE Types'
<1>1. CASE App
  <2>1. AppTypes
    BY <1>1, AppKeepsTypes
  <2>2. PollerCall'
    BY <2>1 DEF AppTypes, PollerCall, Types
  <2>3. Observed'
    BY <1>1, <2>1, RacedStays, ObserveTypes DEF Next, AppTypes, Types
  <2> QED
    BY <2>1, <2>2, <2>3 DEF AppTypes, Types
<1>2. CASE Poller
  <2>1. /\ ProcTypes' /\ PollerCall' /\ UNCHANGED <<lists, nodes, request>>
        /\ pc'["app"] = pc["app"]
    BY <1>2, PollerKeepsTypes
  <2>2. Observed'
    BY <1>2, <2>1, RacedStays, ObserveTypes DEF Next, Types
  <2>3. HeapsOK'
    BY <2>1, SameHeaps DEF Types, HeapsOK, lists, nodes
  <2> QED
    BY <2>1, <2>2, <2>3 DEF Types, MemTypes, CallTypes, AppCall, lists, nodes, node_pool, request
<1> QED
  BY <1>1, <1>2 DEF Next

LEMMA SameTypes == ASSUME Types, UNCHANGED lw_vars PROVE Types'
<1>1. HeapsOK'
  BY SameHeaps DEF Types, HeapsOK, lw_vars, lists, nodes
<1> QED
  BY <1>1 DEF Types, MemTypes, ProcTypes, CallTypes, AppCall, PollerCall, Observed,
     lw_vars, lists, nodes, node_pool, iters, request, history

LEMMA InitTypes == ASSUME LwInit PROVE Types
<1>1. HeapsOK
  BY InitHeaps
<1>2. NULL \in NodeOrNull /\ NewList \in [head : NodeOrNull, tail : NodeOrNull, len : Int]
      /\ NewNode \in [prev : NodeOrNull, next : NodeOrNull, val : BindInfo \cup {NULL}]
  BY DEF NodeOrNull, NewList, NewNode
<1>3. MemTypes
  BY <1>2 DEF LwInit, MemTypes
<1>4. /\ pc \in [Procs -> Steps] /\ it \in [Procs -> Procs] /\ iter \in [Procs -> NodeOrNull]
      /\ curr \in [Procs -> NodeOrNull] /\ \A p \in Procs : pc[p] = "idle"
  BY <1>2 DEF LwInit, Steps
<1>5. ProcTypes
  BY <1>4 DEF LwInit, ProcTypes
<1>6. CallTypes
  <2>1. 0 \in 0 .. MaxCalls
    BY CallsAssumption
  <2> QED
    BY <2>1 DEF LwInit, CallTypes
<1>7. pc["app"] = "idle" /\ pc["poller"] = "idle"
  BY <1>4, ProcFacts
<1>8. AppCall /\ PollerCall
  BY <1>7 DEF AppCall, PollerCall, OnList, HasNode
<1>9. Observed
  <2>1. visited = <<>> /\ blind = FALSE /\ 0 <= MaxVisits
    BY NumSocketsAssumption DEF LwInit, MaxVisits
  <2>2. <<>> \in Seq(NodeOrNull) /\ Len(<<>>) = 0
    OBVIOUS
  <2> QED
    BY <2>1, <2>2 DEF Observed
<1> QED
  BY <1>1, <1>3, <1>5, <1>6, <1>8, <1>9 DEF Types

-----------------------------------------------------------------------------
(* Steps that leave the lists of the ports as they are.                     *)

Vals(nd, c) == [i \in DOMAIN c |-> nd[c[i]].val]

LEMMA BindingsAre ==
    ASSUME NEW p \in Ports
    PROVE  Bindings(p) = Vals(node, Chain(p)) /\ Bindings(p)' = Vals(node', Chain(p)')
BY DEF Bindings, Vals

\* A step after which each port has the list D[p].
LEMMA ChainsBecome ==
    ASSUME NEW D,
           \A p \in Ports : IF sock_bind_table'[p] = NULL THEN D[p] = <<>>
                            ELSE Linked(list'[sock_bind_table'[p]], node', D[p])
    PROVE  Shaped' /\ \A p \in Ports : Chain(p)' = D[p]
<1>1. ASSUME NEW p \in Ports PROVE Chain(p)' = D[p]
  BY NextChainIs DEF Linked
<1> QED
  BY <1>1 DEF Shaped

LEMMA ChainType ==
    ASSUME Shaped, NEW p \in Ports
    PROVE  /\ Chain(p) \in Seq(Nodes)
           /\ \A i, j \in DOMAIN Chain(p) : Chain(p)[i] = Chain(p)[j] => i = j
           /\ sock_bind_table[p] = NULL => Chain(p) = <<>>
<1>1. CASE sock_bind_table[p] = NULL
  <2>1. Chain(p) = <<>>
    BY <1>1, ChainIs
  <2> QED
    BY <1>1, <2>1
<1>2. CASE sock_bind_table[p] # NULL
  BY <1>2 DEF Shaped, Linked, Chained
<1> QED
  BY <1>1, <1>2

LEMMA RangeFacts ==
    ASSUME NEW c
    PROVE  /\ \A i \in DOMAIN c : c[i] \in Range(c)
           /\ \A n \in Range(c) : \E i \in DOMAIN c : n = c[i]
BY DEF Range

\* A step that links and unlinks nothing.
LeavesLists ==
    /\ \A p \in Ports : \/ sock_bind_table'[p] = sock_bind_table[p]
                        \/ /\ Chain(p) = <<>>
                           /\ sock_bind_table'[p] = NULL \/ list'[sock_bind_table'[p]] = NewList
    /\ \A p \in Ports :
          sock_bind_table[p] # NULL /\ sock_bind_table'[p] = sock_bind_table[p]
             => list'[sock_bind_table[p]] = list[sock_bind_table[p]]
    /\ \A p \in Ports : \A i \in DOMAIN Chain(p) :
          /\ node'[Chain(p)[i]].next = node[Chain(p)[i]].next
          /\ node'[Chain(p)[i]].prev = node[Chain(p)[i]].prev
          /\ node'[Chain(p)[i]].val = node[Chain(p)[i]].val
    /\ node_bits \subseteq node_bits'

SameLists == \A p \in Ports : /\ Chain(p)' = Chain(p) /\ Bindings(p)' = Bindings(p)
                              /\ \A i \in DOMAIN Chain(p) :
                                    node'[Chain(p)[i]].next = node[Chain(p)[i]].next

\* Writes outside the lists: to the nodes and the list that no port has yet.
LEMMA ListsLeft ==
    ASSUME Shaped, Apart, Allocated, LeavesLists
    PROVE  Shaped' /\ Apart' /\ Allocated' /\ SameLists
<1> DEFINE D == [p \in Ports |-> Chain(p)]
<1>1. ASSUME NEW p \in Ports
      PROVE  IF sock_bind_table'[p] = NULL THEN D[p] = <<>>
             ELSE Linked(list'[sock_bind_table'[p]], node', D[p])
  <2>0. D[p] = Chain(p)
    OBVIOUS
  <2> HIDE DEF D
  <2>1. CASE sock_bind_table'[p] = sock_bind_table[p] /\ sock_bind_table[p] = NULL
    BY <2>0, <2>1, ChainType
  <2>2. CASE sock_bind_table'[p] = sock_bind_table[p] /\ sock_bind_table[p] # NULL
    <3>1. Linked(list[sock_bind_table[p]], node, Chain(p))
      BY <2>2 DEF Shaped
    <3>2. PICK c, L : c = Chain(p) /\ L = list[sock_bind_table[p]]
      OBVIOUS
    <3>3. \A i \in DOMAIN c : node'[c[i]].next = node[c[i]].next /\ node'[c[i]].prev = node[c[i]].prev
      BY <3>2 DEF LeavesLists
    <3>4. Linked(L, node', c)
      BY <3>1, <3>2, <3>3, LinkedFrame
    <3>5. list'[sock_bind_table'[p]] = L
      BY <2>2, <3>2 DEF LeavesLists
    <3> QED
      BY <2>0, <2>2, <3>2, <3>4, <3>5
  <2>3. CASE /\ Chain(p) = <<>>
             /\ sock_bind_table'[p] = NULL \/ list'[sock_bind_table'[p]] = NewList
    <3>1. Linked(NewList, node', <<>>)
      BY LinkedEmpty DEF NewList
    <3> QED
      BY <2>0, <2>3, <3>1
  <2> QED
    BY <2>1, <2>2, <2>3 DEF LeavesLists
<1> HIDE DEF D
<1>2. Shaped' /\ \A p \in Ports : Chain(p)' = D[p]
  BY <1>1, ChainsBecome
<1>3. \A p \in Ports : Chain(p)' = Chain(p)
  BY <1>2 DEF D
<1>4. Apart' /\ Allocated'
  <2>1. \A p \in Ports : Range(Chain(p)') = Range(Chain(p))
    BY <1>3
  <2>2. Apart'
    BY <2>1 DEF Apart
  <2>3. Allocated'
    BY <2>1 DEF Allocated, LeavesLists
  <2> QED
    BY <2>2, <2>3
<1>5. SameLists
  BY <1>3, BindingsAre DEF SameLists, LeavesLists, Vals
<1> QED
  BY <1>2, <1>4, <1>5

LEMMA InListSame ==
    ASSUME SameLists, NEW r \in Requests
    PROVE  InList(r)' <=> InList(r)
<1>1. r.port \in Ports
  BY RequestFacts
<1>2. InList(r) <=> \E i \in DOMAIN Chain(r.port) : Bindings(r.port)[i].sockfd = r.sockfd
  BY DEF InList, Bindings
<1>3. InList(r)' <=> \E i \in DOMAIN Chain(r.port)' : Bindings(r.port)'[i].sockfd = r.sockfd
  BY DEF InList, Bindings
<1> QED
  BY <1>1, <1>2, <1>3 DEF SameLists

LEMMA NothingWritten ==
    ASSUME UNCHANGED <<sock_bind_table, list, node, node_bits>>
    PROVE  LeavesLists
BY DEF LeavesLists

LEMMA NewListLeaves == ASSUME Types, TableInv, list_new PROVE LeavesLists
<1>1. /\ list_ret' = list_cursor /\ list_cursor \notin list_bits
      /\ list' = [list EXCEPT ![list_ret'] = NewList]
      /\ UNCHANGED <<sock_bind_table, node, node_bits>> /\ pc["app"] = "list"
  BY HeapFacts DEF Types, list_new, ListHeap!ShmallocSucceeds, nodes, node_pool, Transition
<1>2. ASSUME NEW p \in Ports, sock_bind_table[p] # NULL
      PROVE  list'[sock_bind_table[p]] = list[sock_bind_table[p]]
  <2>1. sock_bind_table[p] \in list_bits /\ sock_bind_table[p] \in Lists
    BY <1>1, <1>2 DEF TableInv
  <2> QED
    BY <1>1, <2>1 DEF Types, MemTypes
<1> QED
  BY <1>1, <1>2 DEF LeavesLists

LEMMA PublishLeaves == ASSUME Types, Shaped, Prepared, PublishList PROVE LeavesLists
<1>1. /\ sock_bind_table' = [sock_bind_table EXCEPT ![req.port] = list_ret]
      /\ UNCHANGED <<list, node, node_bits>> /\ pc["app"] = "publish"
  BY DEF PublishList, nodes, node_pool, Transition
<1>2. req.port \in Ports /\ sock_bind_table[req.port] = NULL
  BY <1>1, RequestFacts DEF Types, AppCall
<1>3. Chain(req.port) = <<>> /\ list'[list_ret] = NewList
  BY <1>1, <1>2, ChainType DEF Prepared
<1>4. \A p \in Ports : sock_bind_table'[p] = IF p = req.port THEN list_ret ELSE sock_bind_table[p]
  BY <1>1 DEF Types, MemTypes
<1> QED
  BY <1>1, <1>2, <1>3, <1>4 DEF LeavesLists

LEMMA UnpublishLeaves == ASSUME Types, Prepared, UnpublishList PROVE LeavesLists
<1>1. /\ sock_bind_table' = [sock_bind_table EXCEPT ![req.port] = NULL]
      /\ UNCHANGED <<list, node, node_bits>> /\ pc["app"] = "unpublish"
  BY DEF UnpublishList, nodes, node_pool, Transition
<1>2. req.port \in Ports /\ Chain(req.port) = <<>>
  BY <1>1, RequestFacts DEF Types, AppCall, Prepared
<1>3. \A p \in Ports : sock_bind_table'[p] = IF p = req.port THEN NULL ELSE sock_bind_table[p]
  BY <1>1 DEF Types, MemTypes
<1> QED
  BY <1>1, <1>2, <1>3 DEF LeavesLists

\* A step that writes one node, which is in no list.
LEMMA NodeWritten ==
    ASSUME Types, Shaped, NEW n, \A p \in Ports : n \notin Range(Chain(p)),
           \A m \in Nodes : m # n => node'[m] = node[m],
           UNCHANGED <<sock_bind_table, list>>, node_bits \subseteq node_bits'
    PROVE  LeavesLists
<1>1. ASSUME NEW p \in Ports, NEW i \in DOMAIN Chain(p) PROVE node'[Chain(p)[i]] = node[Chain(p)[i]]
  <2>1. Chain(p)[i] \in Range(Chain(p))
    BY RangeFacts
  <2>2. Chain(p)[i] \in Nodes
    BY ChainType
  <2>3. Chain(p)[i] # n
    BY <2>1
  <2> QED
    BY <2>2, <2>3
<1> QED
  BY <1>1 DEF LeavesLists

LEMMA NewElemLeaves == ASSUME Types, Shaped, Allocated, NewBindInfoElem PROVE LeavesLists
<1>1. UNCHANGED <<sock_bind_table, list>>
  BY DEF NewBindInfoElem, lists
<1>2. CASE node_free = 0
  <2>1. node_ret' = NULL /\ node_bits' = node_bits
    BY <1>2 DEF NewBindInfoElem, NodeHeap!ShmallocFails, NodeHeap!ShmallocSucceeds
  <2>2. node' = node
    BY <2>1 DEF NewBindInfoElem
  <2> QED
    BY <1>1, <2>1, <2>2, NothingWritten
<1>3. CASE node_free # 0
  <2>1. /\ node_ret' = node_cursor /\ node_bits \subseteq node_bits'
        /\ node_cursor \notin node_bits /\ node_cursor \in Nodes
    BY <1>3, HeapFacts DEF Types, NewBindInfoElem, NodeHeap!ShmallocFails, NodeHeap!ShmallocSucceeds
  <2>2. PICK b : b = NewBindInfo(req.sockfd, req.ip, req.opts)
    OBVIOUS
  <2>3. node' = [node EXCEPT ![node_cursor].val = b] \/ node' = node
    BY <2>1, <2>2 DEF NewBindInfoElem
  <2>4. \A m \in Nodes : m # node_cursor => node'[m] = node[m]
    BY <2>3 DEF Types, MemTypes
  <2>5. \A p \in Ports : node_cursor \notin Range(Chain(p))
    BY <2>1 DEF Allocated
  <2> QED
    BY <1>1, <2>1, <2>4, <2>5, NodeWritten
<1> QED
  BY <1>2, <1>3

LEMMA NodeLinkLeaves ==
    ASSUME Types, Shaped, Prepared, list_node_new \/ LinkFront PROVE LeavesLists
<1>1. UNCHANGED <<sock_bind_table, list, node_bits>> /\ pc["app"] \in HasNode
  BY DEF list_node_new, LinkFront, lists, node_pool, Transition, HasNode
<1>2. \A p \in Ports : node_ret \notin Range(Chain(p))
  BY <1>1 DEF Prepared
<1>3. \A m \in Nodes : m # node_ret => node'[m] = node[m]
  <2>1. CASE list_node_new
    <3>1. node' = [node EXCEPT ![node_ret].prev = NULL, ![node_ret].next = NULL]
      BY <2>1 DEF list_node_new
    <3> QED
      BY <3>1 DEF Types, MemTypes
  <2>2. CASE LinkFront
    <3>1. PICK h : h = list[sock_bind_table[req.port]].head
      OBVIOUS
    <3>2. node' = [node EXCEPT ![node_ret].next = h, ![node_ret].prev = NULL]
      BY <2>2, <3>1 DEF LinkFront
    <3> QED
      BY <3>2 DEF Types, MemTypes
  <2> QED
    BY <2>1, <2>2
<1> QED
  BY <1>1, <1>2, <1>3, NodeWritten

Links == PushAlone \/ list_rpush \/ list_lpush
Reads == \/ \E r \in Requests : Bind(r) \/ Close(r)
         \/ Iterator("app") \/ Scan \/ Search \/ ClearEntry \/ list_destroy \/ Poller

LEMMA ReadsLeave == ASSUME Types, Reads PROVE UNCHANGED <<sock_bind_table, list, node, node_bits, node_ret>>
<1> USE DEF lists, nodes, node_pool
<1>1. CASE \E r \in Requests : Bind(r) \/ Close(r)
  BY <1>1 DEF Bind, Close, CallStarts
<1>2. CASE Iterator("app")
  BY <1>2, ProcFacts, IteratorTypes DEF Types
<1>3. CASE Scan \/ Search \/ ClearEntry \/ list_destroy
  BY <1>3 DEF Scan, Search, ClearEntry, list_destroy
<1>4. CASE Poller
  BY <1>4, PollerKeepsTypes
<1> QED
  BY <1>1, <1>2, <1>3, <1>4 DEF Reads

\* All steps but those that link or unlink a node.
LEMMA StepsLeave ==
    ASSUME Types, TableInv, Shaped, Apart, Allocated, Prepared, App \/ Poller, ~Links, ~list_remove
    PROVE  LeavesLists /\ Shaped' /\ Apart' /\ Allocated' /\ SameLists
<1>1. LeavesLists
  <2>1. CASE Reads
    BY <2>1, ReadsLeave, NothingWritten
  <2>2. CASE list_new
    BY <2>2, NewListLeaves
  <2>3. CASE PublishList
    BY <2>3, PublishLeaves
  <2>4. CASE NewBindInfoElem
    BY <2>4, NewElemLeaves
  <2>5. CASE list_node_new \/ LinkFront
    BY <2>5, NodeLinkLeaves
  <2>6. CASE UnpublishList
    BY <2>6, UnpublishLeaves
  <2> QED
    BY <2>1, <2>2, <2>3, <2>4, <2>5, <2>6 DEF App, Links, Reads
<1> QED
  BY <1>1, ListsLeft

-----------------------------------------------------------------------------
(* The linking of a node.  The list of the port gets the node, at the front *)
(* for the wildcard, and no other list changes.                             *)

\* The list c with node n, where req puts it.
Into(c, n) == IF req.ip = INADDR_ANY THEN <<n>> \o c ELSE Append(c, n)

\* A step that changes the list of one port only.
LEMMA OneListChanges ==
    ASSUME Types, TableInv, Shaped, Apart, NEW p0 \in Ports, NEW T, NEW d,
           UNCHANGED sock_bind_table, sock_bind_table[p0] # NULL,
           \A p \in Ports \ {p0} : Range(Chain(p)) \cap T = {},
           \A m \in Nodes \ T : node'[m] = node[m],
           \A l \in Lists : l # sock_bind_table[p0] => list'[l] = list[l],
           Linked(list'[sock_bind_table[p0]], node', d)
    PROVE  Shaped' /\ \A p \in Ports : Chain(p)' = IF p = p0 THEN d ELSE Chain(p)
<1> DEFINE D == [p \in Ports |-> IF p = p0 THEN d ELSE Chain(p)]
<1>1. ASSUME NEW p \in Ports
      PROVE  IF sock_bind_table'[p] = NULL THEN D[p] = <<>>
             ELSE Linked(list'[sock_bind_table'[p]], node', D[p])
  <2>0. D[p] = IF p = p0 THEN d ELSE Chain(p)
    OBVIOUS
  <2> HIDE DEF D
  <2>1. CASE p = p0
    BY <2>0, <2>1
  <2>2. CASE p # p0 /\ sock_bind_table[p] = NULL
    BY <2>0, <2>2, ChainType
  <2>3. CASE p # p0 /\ sock_bind_table[p] # NULL
    <3>1. Linked(list[sock_bind_table[p]], node, Chain(p))
      BY <2>3 DEF Shaped
    <3>2. PICK c, L : c = Chain(p) /\ L = list[sock_bind_table[p]]
      OBVIOUS
    <3>3. ASSUME NEW i \in DOMAIN c PROVE node'[c[i]] = node[c[i]]
      <4>1. c[i] \in Nodes /\ c[i] \in Range(c)
        BY <3>2, ChainType, RangeFacts
      <4> QED
        BY <2>3, <3>2, <4>1
    <3>4. Linked(L, node', c)
      BY <3>1, <3>2, <3>3, LinkedFrame
    <3>5. list'[sock_bind_table'[p]] = L
      BY <2>3, <3>2 DEF TableInv, Types, MemTypes
    <3> QED
      BY <2>0, <2>3, <3>2, <3>4, <3>5
  <2> QED
    BY <2>1, <2>2, <2>3
<1> HIDE DEF D
<1>2. Shaped' /\ \A p \in Ports : Chain(p)' = D[p]
  BY <1>1, ChainsBecome
<1> QED
  BY <1>2 DEF D

\* The three ways to link the new node.
LinkResult(d) ==
    /\ Linked(list'[sock_bind_table[req.port]], node', d)
    /\ \A m \in Nodes : m \notin Range(Chain(req.port)) \cup {node_ret} => node'[m] = node[m]
    /\ \A m \in Nodes : node'[m].val = node[m].val
    /\ \A l \in Lists : l # sock_bind_table[req.port] => list'[l] = list[l]

LEMMA IntoEmpty == ASSUME NEW n \in Nodes PROVE Into(<<>>, n) = <<n>>
<1>1. <<n>> \o <<>> = <<n>> /\ Append(<<>>, n) = <<n>>
  OBVIOUS
<1> QED
  BY <1>1 DEF Into

LEMMA LinkContext ==
    ASSUME Types, Shaped, Prepared, pc["app"] \in {"push", "front"}
    PROVE  /\ req \in Requests /\ req.port \in Ports
           /\ node_ret \in Nodes /\ node_ret \in node_bits
           /\ \A p \in Ports : node_ret \notin Range(Chain(p))
           /\ sock_bind_table[req.port] \in Lists /\ sock_bind_table[req.port] # NULL
           /\ Linked(list[sock_bind_table[req.port]], node, Chain(req.port))
           /\ node[node_ret].val = NewBindInfo(req.sockfd, req.ip, req.opts)
<1>1. req \in Requests /\ req.port \in Ports /\ sock_bind_table[req.port] # NULL /\ node_ret \in Nodes
  BY RequestFacts DEF Types, AppCall, OnList, HasNode
<1>2. /\ node_ret \in node_bits /\ \A p \in Ports : node_ret \notin Range(Chain(p))
      /\ node[node_ret].val = NewBindInfo(req.sockfd, req.ip, req.opts)
  BY DEF Prepared, HasNode
<1> QED
  BY <1>1, <1>2 DEF Types, MemTypes, Shaped

LEMMA LinkedEnds ==
    ASSUME NEW L, NEW nd, NEW c, Linked(L, nd, c), c # <<>>
    PROVE  /\ L.head \in Nodes /\ L.head \in Range(c) /\ L.tail \in Nodes /\ L.tail \in Range(c)
           /\ L.len # 0
<1>1. c \in Seq(Nodes) /\ L.head = At(c, 1) /\ L.tail = At(c, Len(c)) /\ L.len = Len(c)
  BY DEF Linked, Chained
<1>2. Len(c) \in Nat \ {0} /\ DOMAIN c = 1 .. Len(c) /\ \A i \in 1 .. Len(c) : c[i] \in Nodes /\ At(c, i) = c[i]
  BY <1>1, SeqFacts
<1>3. 1 \in DOMAIN c /\ Len(c) \in DOMAIN c
  BY <1>2
<1> QED
  BY <1>1, <1>2, <1>3, RangeFacts

LEMMA LenIsEmpty ==
    ASSUME NEW L, NEW nd, NEW c, Linked(L, nd, c)
    PROVE  L.len = 0 <=> c = <<>>
BY SeqFacts DEF Linked, Chained

LEMMA AloneResult ==
    ASSUME Types, Shaped, Prepared, PushAlone
    PROVE  LinkResult(Into(Chain(req.port), node_ret))
<1>1. pc["app"] = "push" /\ list[sock_bind_table[req.port]].len = 0
  BY DEF PushAlone, Transition
<1>2. PICK l \in Lists, n \in Nodes : l = sock_bind_table[req.port] /\ n = node_ret
  BY <1>1, LinkContext
<1>3. Linked(list[l], node, Chain(req.port))
  BY <1>1, <1>2, LinkContext
<1>4. Chain(req.port) = <<>>
  BY <1>1, <1>2, <1>3, LenIsEmpty
<1>5. /\ list' = [list EXCEPT ![l] = [head |-> n, tail |-> n, len |-> 1]]
      /\ node' = [node EXCEPT ![n].prev = NULL, ![n].next = NULL]
  BY <1>2 DEF PushAlone
<1>6. /\ list'[l].head = n /\ list'[l].tail = n /\ list'[l].len = 1
      /\ \A k \in Lists : k # l => list'[k] = list[k]
  BY <1>5 DEF Types, MemTypes
<1>7. /\ node'[n].prev = NULL /\ node'[n].next = NULL
      /\ \A m \in Nodes : node'[m].val = node[m].val /\ (m # n => node'[m] = node[m])
  BY <1>5 DEF Types, MemTypes
<1>8. Linked(list'[l], node', <<n>>)
  BY <1>6, <1>7, LinkedAlone
<1> QED
  BY <1>2, <1>4, <1>6, <1>7, <1>8, IntoEmpty DEF LinkResult

LEMMA BackResult ==
    ASSUME Types, Shaped, Prepared, list_rpush
    PROVE  LinkResult(Into(Chain(req.port), node_ret))
<1>1. /\ pc["app"] = "push" /\ list[sock_bind_table[req.port]].len # 0 /\ req.ip # INADDR_ANY
  BY DEF list_rpush, Transition
<1>2. PICK l \in Lists, n \in Nodes : l = sock_bind_table[req.port] /\ n = node_ret
  BY <1>1, LinkContext
<1>3. PICK c, L : c = Chain(req.port) /\ L = list[l]
  OBVIOUS
<1>4. Linked(L, node, c) /\ n \notin Range(c)
  BY <1>1, <1>2, <1>3, LinkContext
<1>5. c # <<>>
  BY <1>1, <1>2, <1>3, <1>4, LenIsEmpty
<1>6. PICK t \in Nodes : t = L.tail /\ t \in Range(c) /\ t # n
  BY <1>4, <1>5, LinkedEnds
<1>7. /\ list' = [list EXCEPT ![l].tail = n, ![l].len = @ + 1]
      /\ node' = [node EXCEPT ![n].prev = t, ![n].next = NULL, ![t].next = n]
  BY <1>2, <1>3, <1>6 DEF list_rpush
<1>8. /\ list'[l].head = L.head /\ list'[l].tail = n /\ list'[l].len = L.len + 1
      /\ \A k \in Lists : k # l => list'[k] = list[k]
  BY <1>3, <1>7 DEF Types, MemTypes
<1>9. /\ node'[n].prev = t /\ node'[n].next = NULL /\ node'[t].next = n /\ node'[t].prev = node[t].prev
      /\ \A m \in Nodes : m # n /\ m # t => node'[m] = node[m]
  BY <1>6, <1>7 DEF Types, MemTypes
<1>10. \A m \in Nodes : node'[m].val = node[m].val
  BY <1>6, <1>7 DEF Types, MemTypes
<1>11. \A i \in DOMAIN c : c[i] # n /\ c[i] \in Nodes
  BY <1>4, RangeFacts, SeqFacts DEF Linked, Chained
<1>12. Linked(list'[l], node', Append(c, n))
  <2>1. \A i \in DOMAIN c : c[i] # L.tail => /\ node'[c[i]].next = node[c[i]].next
                                             /\ node'[c[i]].prev = node[c[i]].prev
    BY <1>6, <1>9, <1>11
  <2>2. node'[n].prev = L.tail /\ node'[L.tail].next = n /\ node'[L.tail].prev = node[L.tail].prev
    BY <1>6, <1>9
  <2> QED
    BY <1>4, <1>5, <1>8, <1>9, <1>11, <2>1, <2>2, LinkedAppend
<1> QED
  BY <1>1, <1>2, <1>3, <1>6, <1>8, <1>9, <1>10, <1>12 DEF LinkResult, Into

LEMMA FrontResult ==
    ASSUME Types, Shaped, Prepared, list_lpush
    PROVE  LinkResult(Into(Chain(req.port), node_ret))
<1>1. pc["app"] = "front" /\ req.ip = INADDR_ANY
  BY DEF list_lpush, Transition, Prepared
<1>2. PICK l \in Lists, n \in Nodes : l = sock_bind_table[req.port] /\ n = node_ret
  BY <1>1, LinkContext
<1>3. PICK c, L : c = Chain(req.port) /\ L = list[l]
  OBVIOUS
<1>4. Linked(L, node, c) /\ n \notin Range(c)
  BY <1>1, <1>2, <1>3, LinkContext
<1>5. c # <<>> /\ node[n].next = L.head /\ node[n].prev = NULL
  BY <1>1, <1>2, <1>3 DEF Prepared
<1>6. PICK h \in Nodes : h = L.head /\ h \in Range(c) /\ h # n
  BY <1>4, <1>5, LinkedEnds
<1>7. /\ list' = [list EXCEPT ![l].head = n, ![l].len = @ + 1]
      /\ node' = [node EXCEPT ![h].prev = n]
  BY <1>2, <1>3, <1>6 DEF list_lpush
<1>8. /\ list'[l].head = n /\ list'[l].tail = L.tail /\ list'[l].len = L.len + 1
      /\ \A k \in Lists : k # l => list'[k] = list[k]
  BY <1>3, <1>7 DEF Types, MemTypes
<1>9. /\ node'[h].prev = n /\ node'[h].next = node[h].next
      /\ \A m \in Nodes : m # h => node'[m] = node[m]
  BY <1>6, <1>7 DEF Types, MemTypes
<1>10. \A m \in Nodes : node'[m].val = node[m].val
  BY <1>6, <1>7 DEF Types, MemTypes
<1>11. \A i \in DOMAIN c : c[i] # n /\ c[i] \in Nodes
  BY <1>4, RangeFacts, SeqFacts DEF Linked, Chained
<1>12. Linked(list'[l], node', <<n>> \o c)
  <2>1. \A i \in DOMAIN c : c[i] # L.head => /\ node'[c[i]].next = node[c[i]].next
                                             /\ node'[c[i]].prev = node[c[i]].prev
    BY <1>6, <1>9, <1>11
  <2>2. /\ node'[n].prev = NULL /\ node'[n].next = L.head
        /\ node'[L.head].prev = n /\ node'[L.head].next = node[L.head].next
    BY <1>5, <1>6, <1>9
  <2> QED
    BY <1>4, <1>5, <1>8, <1>11, <2>1, <2>2, LinkedCons
<1> QED
  BY <1>1, <1>2, <1>3, <1>6, <1>8, <1>9, <1>10, <1>12 DEF LinkResult, Into

\* The step by which the poller can see the new node changes the list of the
\* port from the old to the new one, at once.
LEMMA LinkStep ==
    ASSUME Types, TableInv, Shaped, Apart, Prepared, Links
    PROVE  /\ pc["app"] \in {"push", "front"}
           /\ Shaped' /\ \A m \in Nodes : node'[m].val = node[m].val
           /\ \A p \in Ports : Chain(p)' = IF p = req.port THEN Into(Chain(p), node_ret)
                                          ELSE Chain(p)
<1>1. pc["app"] \in {"push", "front"} /\ UNCHANGED sock_bind_table
  BY DEF Links, PushAlone, list_rpush, list_lpush, Transition, Pushed
<1>2. PICK d : d = Into(Chain(req.port), node_ret)
  OBVIOUS
<1>3. LinkResult(d)
  BY <1>2, AloneResult, BackResult, FrontResult DEF Links
<1>4. PICK T : T = Range(Chain(req.port)) \cup {node_ret}
  OBVIOUS
<1>5. \A p \in Ports \ {req.port} : Range(Chain(p)) \cap T = {}
  BY <1>1, <1>4, LinkContext DEF Apart
<1>6. /\ req.port \in Ports /\ sock_bind_table[req.port] # NULL
      /\ Linked(list'[sock_bind_table[req.port]], node', d)
      /\ \A m \in Nodes \ T : node'[m] = node[m]
      /\ \A m \in Nodes : node'[m].val = node[m].val
      /\ \A l \in Lists : l # sock_bind_table[req.port] => list'[l] = list[l]
  BY <1>1, <1>3, <1>4, LinkContext DEF LinkResult
<1>7. Shaped' /\ \A p \in Ports : Chain(p)' = IF p = req.port THEN d ELSE Chain(p)
  BY <1>1, <1>5, <1>6, OneListChanges
<1> QED
  BY <1>1, <1>2, <1>6, <1>7

-----------------------------------------------------------------------------
(* The unlinking of a node.                                                 *)

LEMMA UnlinkedIs ==
    ASSUME Types, NEW i \in Nodes, NEW m \in Nodes
    PROVE  /\ Unlinked(i)[m].val = node[m].val
           /\ Unlinked(i)[m].next = IF m = node[i].prev THEN node[i].next ELSE node[m].next
           /\ Unlinked(i)[m].prev = IF m = node[i].next THEN node[i].prev ELSE node[m].prev
           /\ m # node[i].prev /\ m # node[i].next => Unlinked(i)[m] = node[m]
<1>1. PICK a \in NodeOrNull, z \in NodeOrNull : a = node[i].prev /\ z = node[i].next
  BY DEF Types, MemTypes
<1>2. \A n \in Nodes : n # NULL
  BY NullAssumption, NumSocketsAssumption DEF Nodes
<1>3. Bypassed(i) = IF a = NULL THEN node ELSE [node EXCEPT ![a].next = z]
  BY <1>1 DEF Bypassed
<1>4. PICK b : b = Bypassed(i)
  OBVIOUS
<1>5. /\ b \in [Nodes -> [prev : NodeOrNull, next : NodeOrNull, val : BindInfo \cup {NULL}]]
      /\ b[m].val = node[m].val /\ b[m].prev = node[m].prev
      /\ b[m].next = (IF m = a THEN z ELSE node[m].next)
      /\ m # a => b[m] = node[m]
  <2>1. CASE a = NULL
    BY <1>2, <1>3, <1>4, <2>1 DEF Types, MemTypes
  <2>2. CASE a # NULL
    <3>1. b = [node EXCEPT ![a].next = z]
      BY <1>3, <1>4, <2>2
    <3>2. b \in [Nodes -> [prev : NodeOrNull, next : NodeOrNull, val : BindInfo \cup {NULL}]]
      BY <1>1, <3>1 DEF Types, MemTypes
    <3>3. /\ b[m].val = node[m].val /\ b[m].prev = node[m].prev
          /\ b[m].next = (IF m = a THEN z ELSE node[m].next)
          /\ m # a => b[m] = node[m]
      BY <3>1 DEF Types, MemTypes
    <3> QED
      BY <3>2, <3>3
  <2> QED
    BY <2>1, <2>2
<1>6. Unlinked(i) = IF z = NULL THEN b ELSE [b EXCEPT ![z].prev = a]
  BY <1>1, <1>4 DEF Unlinked
<1>7. PICK u : u = Unlinked(i)
  OBVIOUS
<1>8. /\ u[m].val = b[m].val /\ u[m].next = b[m].next
      /\ u[m].prev = (IF m = z THEN a ELSE b[m].prev)
      /\ m # z => u[m] = b[m]
  <2>1. CASE z = NULL
    BY <1>2, <1>6, <1>7, <2>1
  <2>2. CASE z # NULL
    <3>1. u = [b EXCEPT ![z].prev = a]
      BY <1>6, <1>7, <2>2
    <3> QED
      BY <1>5, <3>1
  <2> QED
    BY <2>1, <2>2
<1>9. /\ u[m].val = node[m].val
      /\ u[m].next = IF m = a THEN z ELSE node[m].next
      /\ u[m].prev = IF m = z THEN a ELSE node[m].prev
      /\ m # a /\ m # z => u[m] = node[m]
  BY <1>5, <1>8
<1> QED
  BY <1>1, <1>7, <1>9

\* list_remove takes the node it is given out of the list of its port, and
\* writes to no node of another list.
LEMMA RemoveStep ==
    ASSUME Types, TableInv, Shaped, Apart, list_remove,
           NEW k \in DOMAIN Chain(req.port), curr["app"] = Chain(req.port)[k]
    PROVE  /\ pc["app"] = "unlink" /\ req \in Requests
           /\ Shaped' /\ \A m \in Nodes : node'[m].val = node[m].val
           /\ \A p \in Ports : Chain(p)' = IF p = req.port THEN Without(Chain(p), k) ELSE Chain(p)
           /\ node_bits' = node_bits \ {Chain(req.port)[k]}
<1>1. pc["app"] = "unlink" /\ UNCHANGED <<sock_bind_table, req>>
  BY DEF list_remove, request, Transition
<1>2. /\ req \in Requests /\ req.port \in Ports /\ sock_bind_table[req.port] # NULL
      /\ sock_bind_table[req.port] \in Lists
  BY <1>1, RequestFacts DEF Types, AppCall, OnList, MemTypes
<1>3. PICK l, c, L, i : /\ l \in Lists /\ l = sock_bind_table[req.port] /\ c = Chain(req.port)
                        /\ L = list[l] /\ i = c[k]
  BY <1>2
<1>4. Linked(L, node, c) /\ k \in DOMAIN c
  BY <1>2, <1>3 DEF Shaped
<1>5. c \in Seq(Nodes) /\ \A j \in DOMAIN c : node[c[j]].next = At(c, j + 1) /\ node[c[j]].prev = At(c, j - 1)
  BY <1>4 DEF Linked, Chained
<1>6. \A j \in DOMAIN c : c[j] \in Nodes /\ c[j] \in Range(c)
  BY <1>5, RangeFacts
<1>7. node' = Unlinked(i) /\ list' = [list EXCEPT ![l] = EndsWithout(l, i)] /\ NodeHeap!Shfree(i)
  BY <1>3 DEF list_remove
<1>8. PICK a, z : a = node[i].prev /\ z = node[i].next
  OBVIOUS
<1>9. /\ i \in Nodes
      /\ \A m \in Nodes : /\ node'[m].val = node[m].val
                          /\ node'[m].next = IF m = a THEN z ELSE node[m].next
                          /\ node'[m].prev = IF m = z THEN a ELSE node[m].prev
                          /\ m # a /\ m # z => node'[m] = node[m]
  BY <1>3, <1>4, <1>6, <1>7, <1>8, UnlinkedIs
<1>10. /\ list'[l].head = (IF a = NULL THEN z ELSE L.head)
       /\ list'[l].tail = (IF z = NULL THEN a ELSE L.tail)
       /\ list'[l].len = L.len - 1
       /\ \A x \in Lists : x # l => list'[x] = list[x]
  <2>1. L \in [head : NodeOrNull, tail : NodeOrNull, len : Int]
    BY <1>3 DEF Types, MemTypes
  <2>2. PICK e : e = EndsWithout(l, i)
    OBVIOUS
  <2>3. /\ e.head = (IF a = NULL THEN z ELSE L.head)
        /\ e.tail = (IF z = NULL THEN a ELSE L.tail)
        /\ e.len = L.len - 1
    BY <1>3, <1>8, <2>1, <2>2 DEF EndsWithout
  <2>4. list' = [list EXCEPT ![l] = e]
    BY <1>7, <2>2
  <2> QED
    BY <1>3, <2>3, <2>4 DEF Types, MemTypes
<1>11. Linked(list'[l], node', Without(c, k))
  <2>1. \A j \in DOMAIN c :
           /\ node'[c[j]].next = IF c[j] = node[c[k]].prev THEN node[c[k]].next ELSE node[c[j]].next
           /\ node'[c[j]].prev = IF c[j] = node[c[k]].next THEN node[c[k]].prev ELSE node[c[j]].prev
    BY <1>3, <1>6, <1>8, <1>9
  <2>2. /\ list'[l].head = (IF node[c[k]].prev = NULL THEN node[c[k]].next ELSE L.head)
        /\ list'[l].tail = (IF node[c[k]].next = NULL THEN node[c[k]].prev ELSE L.tail)
    BY <1>3, <1>8, <1>10
  <2> QED
    BY <1>4, <1>10, <2>1, <2>2, LinkedWithout
<1>12. \A m \in Nodes \ Range(c) : m # a /\ m # z
  <2>1. a = At(c, k - 1) /\ z = At(c, k + 1)
    BY <1>3, <1>4, <1>5, <1>8
  <2>2. \A n \in Nodes : n # NULL
    BY <1>5, SeqFacts
  <2> QED
    BY <1>6, <2>1, <2>2 DEF At
<1>13. \A p \in Ports \ {req.port} : Range(Chain(p)) \cap Range(c) = {}
  BY <1>2, <1>3 DEF Apart
<1>14. PICK d, T : d = Without(c, k) /\ T = Range(c)
  OBVIOUS
<1>15. Shaped' /\ \A p \in Ports : Chain(p)' = IF p = req.port THEN d ELSE Chain(p)
  <2>1. \A m \in Nodes \ T : node'[m] = node[m]
    BY <1>9, <1>12, <1>14
  <2>2. Linked(list'[sock_bind_table[req.port]], node', d)
    BY <1>3, <1>11, <1>14
  <2>3. \A x \in Lists : x # sock_bind_table[req.port] => list'[x] = list[x]
    BY <1>3, <1>10
  <2>4. \A p \in Ports \ {req.port} : Range(Chain(p)) \cap T = {}
    BY <1>13, <1>14
  <2> QED
    BY <1>1, <1>2, <2>1, <2>2, <2>3, <2>4, OneListChanges
<1>16. node_bits' = node_bits \ {i}
  BY <1>7, <1>9, NodeFreed
<1> QED
  BY <1>1, <1>2, <1>3, <1>9, <1>14, <1>15, <1>16

-----------------------------------------------------------------------------
(* The shape of the lists is kept.                                          *)

LEMMA IteratorControl ==
    ASSUME Types, Iterator("app")
    PROVE  /\ \/ pc["app"] = "iter_new" /\ pc'["app"] = "iter_alloc"
              \/ pc["app"] = "iter_alloc" /\ pc'["app"] \in {"next", "crashed"}
              \/ pc["app"] = "next" /\ pc'["app"] \in {"destroy", "advance"}
              \/ pc["app"] = "advance" /\ pc'["app"] = "visit"
              \/ pc["app"] = "destroy" /\ pc'["app"] = "iter_free"
              \/ pc["app"] = "iter_free" /\ pc'["app"] = AfterWalk("app")
           /\ UNCHANGED <<lists, nodes, request>>
<1>1. \A from, to : Transition("app", from, to) => pc["app"] = from /\ pc'["app"] = to
  BY ProcFacts DEF Types, ProcTypes, Transition
<1>2. UNCHANGED <<lists, nodes, request>>
  BY ProcFacts, IteratorTypes DEF Types
<1> QED
  BY <1>1, <1>2 DEF Iterator, IterNew, IterGot, IterNext, IterAdvance, IterDestroy, IterFreed

LEMMA AppPc ==
    ASSUME Types, NEW from, NEW to, Transition("app", from, to)
    PROVE  pc["app"] = from /\ pc'["app"] = to
BY ProcFacts DEF Types, ProcTypes, Transition

LEMMA PollerIdle ==
    ASSUME Types, Poller
    PROVE  /\ UNCHANGED <<sock_bind_table, list, list_bits, list_ret, node, node_bits, node_ret>>
           /\ UNCHANGED <<req, job, bound, calls>>
           /\ pc'["app"] = pc["app"]
<1>1. UNCHANGED <<lists, nodes, request>> /\ pc'["app"] = pc["app"]
  BY PollerKeepsTypes
<1> QED
  BY <1>1 DEF lists, nodes, list_pool, node_pool, request

\* Nothing touches what a call has prepared until it links it.
LEMMA PreparedKept ==
    ASSUME Types, TableInv, Shaped, Allocated, Prepared, SameLists, App \/ Poller, ~Links, ~list_remove
    PROVE  Prepared'
<1> USE AppPc
<1>0. \A p \in Ports : Chain(p)' = Chain(p)
  BY DEF SameLists
<1>1. ASSUME NEW r \in Requests, Bind(r) \/ Close(r) PROVE Prepared'
  <2>1. pc'["app"] \in {"list", "iter_new"}
    BY <1>1 DEF Bind, Close, CallStarts
  <2> QED
    BY <2>1 DEF Prepared, HasNode
<1>2. CASE Iterator("app")
  <2>1. pc'["app"] \notin HasNode \cup {"publish", "front", "unpublish"}
    BY <1>2, IteratorControl DEF HasNode, AfterWalk
  <2> QED
    BY <2>1 DEF Prepared, HasNode
<1>3. CASE Scan \/ Search \/ ClearEntry \/ PublishList \/ UnpublishList
  <2>1. pc'["app"] \in {"next", "destroy", "unlink", "idle", "info"}
    BY <1>3 DEF Scan, Search, ClearEntry, PublishList, UnpublishList
  <2> QED
    BY <2>1 DEF Prepared, HasNode
<1>4. CASE list_destroy
  <2>1. /\ pc["app"] = "clear" /\ pc'["app"] = "unpublish" /\ req' = req
        /\ sock_bind_table[req.port] # NULL /\ list[sock_bind_table[req.port]].len = 0
    BY <1>4 DEF list_destroy, request
  <2>2. req.port \in Ports
    BY <2>1, RequestFacts DEF Types, AppCall
  <2>3. Chain(req.port) = <<>>
    BY <2>1, <2>2, LenIsEmpty DEF Shaped
  <2> QED
    BY <1>0, <2>1, <2>2, <2>3 DEF Prepared, HasNode
<1>5. CASE list_new
  <2>1. pc'["app"] = "publish" /\ list_ret' = list_cursor /\ list_cursor \in Lists
    BY <1>5, HeapFacts DEF list_new, ListHeap!ShmallocSucceeds, Types
  <2>2. list'[list_ret'] = NewList
    BY <1>5, <2>1 DEF list_new, Types, MemTypes
  <2> QED
    BY <2>1, <2>2 DEF Prepared, HasNode
<1>6. CASE NewBindInfoElem
  <2>1. CASE node_free = 0
    <3>1. pc'["app"] = "crashed"
      BY <1>6, <2>1 DEF NewBindInfoElem
    <3> QED
      BY <3>1 DEF Prepared, HasNode
  <2>2. CASE node_free # 0
    <3>1. /\ pc'["app"] = "node" /\ req' = req
          /\ node_ret' = node_cursor /\ node_cursor \in node_bits'
          /\ node_cursor \notin node_bits /\ node_cursor \in Nodes /\ node_cursor # NULL
      BY <1>6, <2>2, HeapFacts, NullAssumption, NumSocketsAssumption
         DEF Types, NewBindInfoElem, NodeHeap!ShmallocFails, NodeHeap!ShmallocSucceeds, Nodes, request
    <3>2. PICK b : b = NewBindInfo(req.sockfd, req.ip, req.opts)
      OBVIOUS
    <3>3. node' = [node EXCEPT ![node_cursor].val = b]
      BY <1>6, <3>1, <3>2 DEF NewBindInfoElem
    <3>4. node'[node_ret'].val = b
      BY <3>1, <3>3 DEF Types, MemTypes
    <3>5. \A p \in Ports : node_ret' \notin Range(Chain(p)')
      BY <1>0, <3>1 DEF Allocated
    <3> QED
      BY <3>1, <3>2, <3>4, <3>5 DEF Prepared, HasNode
  <2> QED
    BY <2>1, <2>2
<1>7. CASE list_node_new
  <2>1. /\ pc["app"] = "node" /\ pc'["app"] = "push" /\ UNCHANGED <<req, node_ret, node_bits>>
        /\ node' = [node EXCEPT ![node_ret].prev = NULL, ![node_ret].next = NULL]
    BY <1>7 DEF list_node_new, node_pool, request
  <2>2. node_ret \in Nodes
    BY <2>1 DEF Types, AppCall, HasNode
  <2>3. node'[node_ret].val = node[node_ret].val
    BY <2>1, <2>2 DEF Types, MemTypes
  <2> QED
    BY <1>0, <2>1, <2>3 DEF Prepared, HasNode
<1>8. CASE LinkFront
  <2> DEFINE h == list[sock_bind_table[req.port]].head
  <2>1. /\ pc["app"] = "push" /\ pc'["app"] = "front"
        /\ UNCHANGED <<req, node_ret, node_bits, list, sock_bind_table>>
        /\ node' = [node EXCEPT ![node_ret].next = h, ![node_ret].prev = NULL]
        /\ list[sock_bind_table[req.port]].len # 0 /\ req.ip = INADDR_ANY
    BY <1>8 DEF LinkFront, node_pool, request, lists
  <2>2. /\ node_ret \in Nodes /\ req.port \in Ports
        /\ Linked(list[sock_bind_table[req.port]], node, Chain(req.port))
    BY <2>1, LinkContext
  <2>3. Chain(req.port) # <<>>
    BY <2>1, <2>2, LenIsEmpty
  <2>4. PICK x : x = h
    OBVIOUS
  <2>5. node' = [node EXCEPT ![node_ret].next = x, ![node_ret].prev = NULL]
    BY <2>1, <2>4
  <2>6. node'[node_ret].val = node[node_ret].val /\ node'[node_ret].next = x /\ node'[node_ret].prev = NULL
    BY <2>2, <2>5 DEF Types, MemTypes
  <2> QED
    BY <1>0, <2>1, <2>2, <2>3, <2>4, <2>6 DEF Prepared, HasNode
<1>9. CASE Poller
  <2>1. /\ UNCHANGED <<sock_bind_table, list, list_ret, node, node_bits, node_ret, req>>
        /\ pc'["app"] = pc["app"]
    BY <1>9, PollerIdle
  <2>2. pc["app"] # "idle" => req.port \in Ports
    BY RequestFacts DEF Types, AppCall
  <2>3. pc["app"] # "idle" => Chain(req.port)' = Chain(req.port)
    BY <1>0, <2>1, <2>2
  <2> QED
    BY <1>0, <2>1, <2>3 DEF Prepared, HasNode
<1> QED
  BY <1>1, <1>2, <1>3, <1>4, <1>5, <1>6, <1>7, <1>8, <1>9 DEF App, Links

LEMMA RequestedStays ==
    ASSUME Types, Requested, SameLists, bound' \subseteq bound,
           \A r \in bound' : Removing(r) => Removing(r)',
           pc'["app"] # "idle" /\ job' # "del" => \A b \in bound : b.sockfd # req'.sockfd
    PROVE  Requested'
<1>1. ASSUME NEW r \in bound' PROVE InList(r)' \/ Removing(r)'
  <2>1. r \in Requests /\ r \in bound
    BY DEF Types, CallTypes
  <2>2. InList(r) \/ Removing(r)
    BY <2>1 DEF Requested
  <2> QED
    BY <2>1, <2>2, InListSame
<1> QED
  BY <1>1 DEF Requested

\* A binding that was asked for stays in its list until its close() removes it.
LEMMA RequestedKept ==
    ASSUME Types, Requested, SameLists, App \/ Poller, ~Links, ~list_remove
    PROVE  Requested'
<1> USE AppPc
<1>0. /\ pc["app"] # "idle" /\ job # "del" => \A b \in bound : b.sockfd # req.sockfd
      /\ bound \subseteq Requests
  BY DEF Requested, Types, CallTypes
<1>1. ASSUME NEW r \in Requests, Bind(r) \/ Close(r) PROVE Requested'
  <2>1. pc["app"] = "idle" /\ bound' = bound
    BY <1>1 DEF Bind, Close, CallStarts
  <2>2. job' # "del" => \A b \in bound : b.sockfd # req'.sockfd
    BY <1>1 DEF Bind, Close, CallStarts
  <2>3. \A q \in bound' : ~Removing(q)
    BY <2>1 DEF Removing
  <2> QED
    BY <2>1, <2>2, <2>3, RequestedStays
<1>2. CASE Iterator("app")
  <2>1. UNCHANGED <<req, job, bound>> /\ pc["app"] # "idle"
    BY <1>2, IteratorControl DEF request
  <2>2. \A r \in bound' : Removing(r) => Removing(r)'
    BY <1>2, <2>1, IteratorControl DEF Removing, AfterWalk
  <2> QED
    BY <1>0, <2>1, <2>2, RequestedStays
<1>3. CASE Scan \/ Search
  <2>1. /\ UNCHANGED <<req, bound>> /\ pc["app"] = "visit" /\ (job' # "del" => job # "del")
    BY <1>3 DEF Scan, Search, request
  <2>2. \A r \in bound' : ~Removing(r)
    BY <2>1 DEF Removing
  <2> QED
    BY <1>0, <2>1, <2>2, RequestedStays
<1>4. CASE ClearEntry \/ UnpublishList
  <2>1. bound' = bound \ {req} /\ pc'["app"] = "idle"
    BY <1>4 DEF ClearEntry, UnpublishList
  <2>2. \A r \in bound' : ~Removing(r)
    BY <2>1 DEF Removing
  <2> QED
    BY <2>1, <2>2, RequestedStays
<1>5. CASE list_destroy
  <2>1. UNCHANGED <<req, job, bound>> /\ pc["app"] = "clear" /\ pc'["app"] = "unpublish"
    BY <1>5 DEF list_destroy, request
  <2> QED
    BY <1>0, <2>1, RequestedStays DEF Removing
<1>6. CASE list_new \/ PublishList \/ NewBindInfoElem \/ list_node_new \/ LinkFront
  <2>1. /\ UNCHANGED <<req, job, bound>> /\ pc["app"] \in {"list", "publish", "info", "node", "push"}
    BY <1>6 DEF list_new, PublishList, NewBindInfoElem, list_node_new, LinkFront, request
  <2>2. \A r \in bound' : ~Removing(r)
    BY <2>1 DEF Removing
  <2> QED
    BY <1>0, <2>1, <2>2, RequestedStays
<1>7. CASE Poller
  <2>1. UNCHANGED <<req, job, bound>> /\ pc'["app"] = pc["app"]
    BY <1>7, PollerIdle
  <2> QED
    BY <1>0, <2>1, RequestedStays DEF Removing
<1> QED
  BY <1>1, <1>2, <1>3, <1>4, <1>5, <1>6, <1>7 DEF App, Links

\* The new list of the port of a bind().
LEMMA IntoElements ==
    ASSUME NEW c \in Seq(Nodes), NEW n \in Nodes
    PROVE  /\ Into(c, n) \in Seq(Nodes) /\ Len(Into(c, n)) = Len(c) + 1
           /\ Range(Into(c, n)) = Range(c) \cup {n}
<1>0. Len(c) \in Nat /\ DOMAIN c = 1 .. Len(c)
  OBVIOUS
<1>1. CASE req.ip = INADDR_ANY
  <2> DEFINE d == <<n>> \o c
  <2>1. /\ d \in Seq(Nodes) /\ Len(d) = Len(c) + 1
        /\ DOMAIN d = 1 .. Len(c) + 1
        /\ d[1] = n
        /\ \A i \in 1 .. Len(c) : d[i + 1] = c[i]
    BY ConsElements
  <2>2. Into(c, n) = d
    BY <1>1 DEF Into
  <2> HIDE DEF d
  <2>3. ASSUME NEW x \in Range(d) PROVE x \in Range(c) \cup {n}
    <3>1. PICK i \in 1 .. Len(c) + 1 : x = d[i]
      BY <2>1, RangeFacts
    <3>2. CASE i = 1
      BY <2>1, <3>1, <3>2
    <3>3. CASE i # 1
      <4>1. i - 1 \in 1 .. Len(c) /\ i = (i - 1) + 1
        BY <1>0, <3>1, <3>3
      <4>2. x = c[i - 1]
        BY <2>1, <3>1, <4>1
      <4> QED
        BY <1>0, <4>1, <4>2, RangeFacts
    <3> QED
      BY <3>2, <3>3
  <2>4. ASSUME NEW x \in Range(c) \cup {n} PROVE x \in Range(d)
    <3>1. CASE x = n
      <4>1. 1 \in DOMAIN d
        BY <1>0, <2>1
      <4> QED
        BY <2>1, <3>1, <4>1, RangeFacts
    <3>2. CASE x \in Range(c)
      <4>1. PICK i \in 1 .. Len(c) : x = c[i]
        BY <1>0, <3>2, RangeFacts
      <4>2. i + 1 \in DOMAIN d /\ d[i + 1] = x
        BY <1>0, <2>1, <4>1
      <4> QED
        BY <4>2, RangeFacts
    <3> QED
      BY <2>4, <3>1, <3>2
  <2> QED
    BY <2>1, <2>2, <2>3, <2>4
<1>2. CASE req.ip # INADDR_ANY
  <2> DEFINE d == Append(c, n)
  <2>1. /\ d \in Seq(Nodes) /\ Len(d) = Len(c) + 1
        /\ DOMAIN d = 1 .. Len(c) + 1
        /\ d[Len(c) + 1] = n
        /\ \A i \in 1 .. Len(c) : d[i] = c[i]
    BY AppendElements
  <2>2. Into(c, n) = d
    BY <1>2 DEF Into
  <2> HIDE DEF d
  <2>3. ASSUME NEW x \in Range(d) PROVE x \in Range(c) \cup {n}
    <3>1. PICK i \in 1 .. Len(c) + 1 : x = d[i]
      BY <2>1, RangeFacts
    <3>2. CASE i = Len(c) + 1
      BY <2>1, <3>1, <3>2
    <3>3. CASE i # Len(c) + 1
      <4>1. i \in 1 .. Len(c) /\ x = c[i]
        BY <1>0, <2>1, <3>1, <3>3
      <4> QED
        BY <1>0, <4>1, RangeFacts
    <3> QED
      BY <3>2, <3>3
  <2>4. ASSUME NEW x \in Range(c) \cup {n} PROVE x \in Range(d)
    <3>1. CASE x = n
      <4>1. Len(c) + 1 \in DOMAIN d
        BY <1>0, <2>1
      <4> QED
        BY <2>1, <3>1, <4>1, RangeFacts
    <3>2. CASE x \in Range(c)
      <4>1. PICK i \in 1 .. Len(c) : x = c[i]
        BY <1>0, <3>2, RangeFacts
      <4>2. i \in DOMAIN d /\ d[i] = x
        BY <1>0, <2>1, <4>1
      <4> QED
        BY <4>2, RangeFacts
    <3> QED
      BY <2>4, <3>1, <3>2
  <2> QED
    BY <2>1, <2>2, <2>3, <2>4
<1> QED
  BY <1>1, <1>2

LEMMA InListMeans ==
    ASSUME NEW r
    PROVE  /\ InList(r) <=> \E n \in Range(Chain(r.port)) : node[n].val.sockfd = r.sockfd
           /\ InList(r)' <=> \E n \in Range(Chain(r.port)') : node'[n].val.sockfd = r.sockfd
BY DEF InList, Range

\* The node that is linked was in no list, so that the lists stay apart.
LEMMA LinkShape ==
    ASSUME Types, TableInv, Shaped, Apart, Allocated, Prepared, Requested, Links
    PROVE  Shaped' /\ Apart' /\ Allocated' /\ Prepared' /\ Requested'
<1>1. /\ pc["app"] \in {"push", "front"}
      /\ Shaped' /\ \A m \in Nodes : node'[m].val = node[m].val
      /\ \A p \in Ports : Chain(p)' = IF p = req.port THEN Into(Chain(p), node_ret) ELSE Chain(p)
  BY LinkStep
<1>2. /\ req \in Requests /\ req.port \in Ports
      /\ node_ret \in Nodes /\ node_ret \in node_bits
      /\ \A p \in Ports : node_ret \notin Range(Chain(p))
      /\ node[node_ret].val = NewBindInfo(req.sockfd, req.ip, req.opts)
  BY <1>1, LinkContext
<1>3. /\ pc'["app"] = "idle" /\ node_bits' = node_bits /\ bound' = bound \cup {req}
  BY AppPc DEF Links, PushAlone, list_rpush, list_lpush, Pushed, node_pool
<1>4. \A p \in Ports : Chain(p) \in Seq(Nodes)
  BY ChainType
<1>5. ASSUME NEW p \in Ports
      PROVE  Range(Chain(p)') = IF p = req.port THEN Range(Chain(p)) \cup {node_ret} ELSE Range(Chain(p))
  BY <1>1, <1>2, <1>4, IntoElements
<1>6. Apart'
  <2> SUFFICES ASSUME NEW p \in Ports, NEW q \in Ports, p # q
               PROVE  Range(Chain(p)') \cap Range(Chain(q)') = {}
    BY DEF Apart
  <2>1. Range(Chain(p)) \cap Range(Chain(q)) = {}
    BY DEF Apart
  <2> QED
    BY <1>2, <1>5, <2>1
<1>7. Allocated'
  BY <1>2, <1>3, <1>5 DEF Allocated
<1>8. Prepared'
  BY <1>3 DEF Prepared, HasNode
<1>9. Requested'
  <2>1. job = "scan" /\ \A b \in bound : b.sockfd # req.sockfd
    BY <1>1 DEF Types, AppCall, HasNode, Requested
  <2>3. ASSUME NEW r \in bound PROVE InList(r)'
    <3>1. InList(r) /\ r.port \in Ports
      BY <2>1, RequestFacts DEF Requested, Removing, Types, CallTypes
    <3>2. PICK n \in Range(Chain(r.port)) : node[n].val.sockfd = r.sockfd
      BY <3>1, InListMeans
    <3>3. n \in Range(Chain(r.port)') /\ n \in Nodes
      BY <1>4, <1>5, <3>1, RangeFacts
    <3> QED
      BY <1>1, <3>2, <3>3, InListMeans
  <2>4. ASSUME NEW r, r = req PROVE InList(r)'
    <3>1. node_ret \in Range(Chain(r.port)') /\ node'[node_ret].val.sockfd = r.sockfd
      BY <1>1, <1>2, <1>5, <2>4, RequestFacts
    <3> QED
      BY <3>1, InListMeans
  <2>5. \A r \in bound' : InList(r)'
    BY <1>3, <2>3, <2>4
  <2>6. \A r, q \in bound' : r.sockfd = q.sockfd => r = q
    BY <1>3, <2>1 DEF Requested
  <2> QED
    BY <1>3, <2>5, <2>6 DEF Requested
<1> QED
  BY <1>1, <1>6, <1>7, <1>8, <1>9

LEMMA WithoutRange ==
    ASSUME NEW c \in Seq(Nodes), NEW k \in DOMAIN c,
           \A i, j \in DOMAIN c : c[i] = c[j] => i = j
    PROVE  Range(Without(c, k)) = Range(c) \ {c[k]}
<1> DEFINE d == Without(c, k)
<1>1. /\ Len(c) \in Nat /\ DOMAIN c = 1 .. Len(c) /\ k \in 1 .. Len(c)
      /\ DOMAIN d = 1 .. Len(c) - 1
      /\ \A i \in 1 .. Len(c) - 1 : d[i] = IF i < k THEN c[i] ELSE c[i + 1]
  BY WithoutElements
<1> HIDE DEF d
<1>2. ASSUME NEW x \in Range(d) PROVE x \in Range(c) \ {c[k]}
  <2>1. PICK i \in 1 .. Len(c) - 1 : x = d[i]
    BY <1>1, RangeFacts
  <2>2. PICK j \in DOMAIN c : x = c[j] /\ j # k
    <3>1. CASE i < k
      BY <1>1, <2>1, <3>1
    <3>2. CASE ~(i < k)
      <4>1. i + 1 \in DOMAIN c /\ i + 1 # k
        BY <1>1, <2>1, <3>2
      <4> QED
        BY <1>1, <2>1, <3>2, <4>1
    <3> QED
      BY <3>1, <3>2
  <2> QED
    BY <2>2, RangeFacts
<1>3. ASSUME NEW x \in Range(c), x # c[k] PROVE x \in Range(d)
  <2>1. PICK j \in DOMAIN c : x = c[j]
    BY RangeFacts
  <2>2. j # k /\ j \in 1 .. Len(c)
    BY <1>1, <1>3, <2>1
  <2>3. PICK i \in DOMAIN d : x = d[i]
    <3>1. CASE j < k
      BY <1>1, <2>1, <2>2, <3>1
    <3>2. CASE ~(j < k)
      <4>1. j - 1 \in 1 .. Len(c) - 1 /\ ~(j - 1 < k) /\ (j - 1) + 1 = j
        BY <1>1, <2>2, <3>2
      <4> QED
        BY <1>1, <2>1, <4>1
    <3> QED
      BY <3>1, <3>2
  <2> QED
    BY <2>3, RangeFacts
<1>4. Range(d) = Range(c) \ {c[k]}
  BY <1>2, <1>3
<1> QED
  BY <1>4 DEF d

LEMMA ReachedAt ==
    ASSUME Types, Shaped, req \in Requests, NEW n, Reached(n)
    PROVE  \/ n = NULL /\ AllPassed
           \/ \E k \in DOMAIN Chain(req.port) : n = Chain(req.port)[k] /\ Passed(k)
<1>1. PICK c : c = Chain(req.port)
  OBVIOUS
<1>2. c \in Seq(Nodes)
  BY <1>1, RequestFacts, ChainType
<1>3. PICK k \in 1 .. Len(c) + 1 : n = At(c, k) /\ Passed(k)
  BY <1>1 DEF Reached
<1>4. Len(c) \in Nat /\ DOMAIN c = 1 .. Len(c) /\ At(c, Len(c) + 1) = NULL
  BY <1>2, SeqFacts
<1>5. CASE k = Len(c) + 1
  BY <1>1, <1>3, <1>4, <1>5 DEF AllPassed
<1>6. CASE k # Len(c) + 1
  <2>1. k \in DOMAIN c
    BY <1>3, <1>4, <1>6
  <2> QED
    BY <1>1, <1>3, <2>1 DEF At
<1> QED
  BY <1>5, <1>6

LEMMA WhatIsRemoved ==
    ASSUME Types, Shaped, AppWalk, Owned, pc["app"] = "unlink"
    PROVE  /\ req \in Requests /\ req \in bound /\ job = "del"
           /\ \E k \in DOMAIN Chain(req.port) :
                /\ curr["app"] = Chain(req.port)[k] /\ Passed(k)
                /\ node[Chain(req.port)[k]].val.sockfd = req.sockfd
<1>1. req \in Requests /\ req \in bound /\ job = "del"
  BY DEF Types, AppCall, Owned
<1>2. Reached(curr["app"]) /\ node[curr["app"]].val.sockfd = req.sockfd
  BY DEF AppWalk
<1>3. curr["app"] \in Nodes /\ \A n \in Nodes : n # NULL
  BY ProcFacts, NullAssumption, NumSocketsAssumption DEF Types, ProcTypes, Nodes
<1> QED
  BY <1>1, <1>2, <1>3, ReachedAt

\* The node that is removed is freed once it is out of its list.
LEMMA RemoveShape ==
    ASSUME Types, TableInv, Shaped, Apart, Allocated, Requested, AppWalk, Owned, list_remove
    PROVE  Shaped' /\ Apart' /\ Allocated' /\ Prepared' /\ Requested'
<1>0. pc["app"] = "unlink" /\ pc'["app"] = "destroy" /\ UNCHANGED <<req, job, bound>>
  BY AppPc DEF list_remove, request
<1>1. req \in Requests /\ req.port \in Ports /\ req \in bound /\ job = "del"
  BY <1>0, WhatIsRemoved, RequestFacts
<1>2. PICK k \in DOMAIN Chain(req.port) :
         /\ curr["app"] = Chain(req.port)[k]
         /\ node[Chain(req.port)[k]].val.sockfd = req.sockfd
  BY <1>0, WhatIsRemoved
<1>3. PICK i : i = Chain(req.port)[k]
  OBVIOUS
<1>4. /\ Shaped' /\ \A m \in Nodes : node'[m].val = node[m].val
      /\ \A p \in Ports : Chain(p)' = IF p = req.port THEN Without(Chain(p), k) ELSE Chain(p)
      /\ node_bits' = node_bits \ {i}
  BY <1>2, <1>3, RemoveStep
<1>5. ASSUME NEW p \in Ports
      PROVE  Range(Chain(p)') = IF p = req.port THEN Range(Chain(p)) \ {i} ELSE Range(Chain(p))
  BY <1>1, <1>3, <1>4, ChainType, WithoutRange
<1>6. i \in Range(Chain(req.port)) /\ \A p \in Ports : p # req.port => i \notin Range(Chain(p))
  BY <1>1, <1>2, <1>3, RangeFacts DEF Apart
<1>7. Apart' /\ Allocated'
  BY <1>4, <1>5, <1>6 DEF Apart, Allocated
<1>8. Prepared'
  BY <1>0 DEF Prepared, HasNode
<1>9. ASSUME NEW r \in bound PROVE InList(r)' \/ Removing(r)'
  <2>1. CASE r = req
    BY <1>0, <1>1, <2>1 DEF Removing
  <2>2. CASE r # req
    <3>1. InList(r) /\ r.port \in Ports
      BY <2>2, RequestFacts DEF Requested, Removing, Types, CallTypes
    <3>2. PICK n \in Range(Chain(r.port)) : node[n].val.sockfd = r.sockfd
      BY <3>1, InListMeans
    <3>3. n # i
      BY <1>1, <1>2, <1>3, <2>2, <3>2 DEF Requested
    <3>4. n \in Range(Chain(r.port)') /\ n \in Nodes
      BY <1>5, <3>1, <3>2, <3>3, RangeFacts, ChainType
    <3> QED
      BY <1>4, <3>2, <3>4, InListMeans
  <2> QED
    BY <2>1, <2>2
<1>10. Requested'
  BY <1>0, <1>1, <1>9 DEF Requested
<1> QED
  BY <1>4, <1>7, <1>8, <1>10

\* Every step of both processes keeps the lists well formed; the removal relies
\* on the scan, which stopped at a node of the list of that port.
LEMMA ShapeNext ==
    ASSUME Types, TableInv, ShapeInv, ScanInv, App \/ Poller, Observe
    PROVE  ShapeInv'
<1>1. blind' = (blind \/ (raced /\ pc["app"] = "unlink" /\ pc'["app"] # "unlink"))
  BY DEF Observe
<1> SUFFICES ASSUME ~blind' PROVE Shaped' /\ Apart' /\ Allocated' /\ Prepared' /\ Requested'
  BY DEF ShapeInv
<1>2. Shaped /\ Apart /\ Allocated /\ Prepared /\ Requested
  BY <1>1 DEF ShapeInv
<1>3. CASE Links
  BY <1>2, <1>3, LinkShape
<1>4. CASE list_remove
  <2>1. pc["app"] = "unlink" /\ pc'["app"] = "destroy"
    BY <1>4, AppPc DEF list_remove
  <2>2. AppWalk /\ Owned
    BY <1>1, <2>1 DEF ScanInv
  <2> QED
    BY <1>2, <1>4, <2>2, RemoveShape
<1>5. CASE ~Links /\ ~list_remove
  BY <1>2, <1>5, StepsLeave, PreparedKept, RequestedKept
<1> QED
  BY <1>3, <1>4, <1>5

\* A socket that may be closed is in the list of its port.
LEMMA BoundAreListed == ASSUME Types, ShapeInv PROVE BoundOnPort
<1> SUFFICES ASSUME pc["app"] = "idle", ~blind, NEW r \in bound PROVE sock_bind_table[r.port] # NULL
  BY DEF BoundOnPort
<1>1. InList(r) /\ r.port \in Ports
  BY RequestFacts DEF ShapeInv, Requested, Removing, Types, CallTypes
<1>2. Chain(r.port) # <<>>
  BY <1>1 DEF InList
<1> QED
  BY <1>1, <1>2, ChainIs

-----------------------------------------------------------------------------
(* The scans are kept.                                                      *)

Iters == it["app"] = "app" /\ it["poller"] = "poller"

\* Without a race the processes do not touch the iterators of each other.
LEMMA IterOwn ==
    ASSUME Types, Iters, NEW p \in Procs, Iterator(p), ~raced'
    PROVE  /\ ~raced /\ Iters'
           /\ \A q \in Procs : q # p => iter'[q] = iter[q] /\ curr'[q] = curr[q]
<1>0. ~raced
  <2>1. p = "app" \/ p = "poller"
    BY ProcFacts
  <2>2. App \/ Poller
    BY <2>1 DEF App, Poller, PollerStep
  <2> QED
    BY <2>2, RacedStays
<1>1. it[p] = p /\ it \in [Procs -> Procs] /\ iter \in [Procs -> NodeOrNull] /\ curr \in [Procs -> NodeOrNull]
  BY ProcFacts DEF Iters, Types, ProcTypes
<1>2. CASE IterGot(p)
  <2>1. /\ it' = [it EXCEPT ![p] = p] /\ iter' = [iter EXCEPT ![p] = curr[p]] /\ curr' = curr
    BY <1>0, <1>2 DEF IterGot
  <2> QED
    BY <1>0, <1>1, <2>1, ProcFacts DEF Iters
<1>3. CASE IterNew(p) \/ IterNext(p)
  <2>1. UNCHANGED <<iter, it>> /\ \A q \in Procs : q # p => curr'[q] = curr[q]
    <3>1. CASE IterNew(p)
      <4>1. PICK l : l = IF p = "app" THEN sock_bind_table[req.port] ELSE packet.list
        OBVIOUS
      <4>2. curr' = [curr EXCEPT ![p] = list[l].head] /\ UNCHANGED <<iter, it>>
        BY <3>1, <4>1 DEF IterNew
      <4> QED
        BY <1>1, <4>2
    <3>2. CASE IterNext(p)
      BY <1>1, <3>2 DEF IterNext
    <3> QED
      BY <1>3, <3>1, <3>2
  <2> QED
    BY <1>0, <2>1 DEF Iters
<1>4. CASE IterAdvance(p)
  BY <1>0, <1>1, <1>4 DEF IterAdvance, Iters
<1>5. CASE IterDestroy(p)
  BY <1>0, <1>5 DEF IterDestroy, Iters, iters
<1>6. CASE IterFreed(p)
  BY <1>0, <1>1, <1>6 DEF IterFreed, Iters
<1> QED
  BY <1>2, <1>3, <1>4, <1>5, <1>6 DEF Iterator

\* While the lists do not change, the scan has passed what it had passed.
LEMMA PassedSame ==
    ASSUME SameLists, req \in Requests, req' = req, (job' = "del") <=> (job = "del")
    PROVE  /\ \A k : Passed(k)' <=> Passed(k)
           /\ \A n : Reached(n)' <=> Reached(n)
           /\ AllPassed' <=> AllPassed
<1>1. PICK p \in Ports : p = req.port
  BY RequestFacts
<1>2. Chain(p)' = Chain(p) /\ Bindings(p)' = Bindings(p)
  BY DEF SameLists
<1>3. \A b : Test(b)' <=> Test(b)
  BY DEF Test
<1>4. \A k : Passed(k)' <=> Passed(k)
  BY <1>1, <1>2, <1>3 DEF Passed
<1>5. \A n : Reached(n)' <=> Reached(n)
  BY <1>1, <1>2, <1>4 DEF Reached
<1>6. AllPassed' <=> AllPassed
  BY <1>1, <1>2, <1>4 DEF AllPassed
<1> QED
  BY <1>4, <1>5, <1>6

\* Steps of a walk of the application.
LEMMA AppWalkIterator ==
    ASSUME Types, Types', Shaped, SameLists, AppWalk, Iterator("app"), ~raced'
    PROVE  AppWalk'
<1>0. Iters' /\ ~raced
  BY IterOwn, ProcFacts DEF AppWalk, Iters
<1>1. UNCHANGED <<sock_bind_table, list, node, req, job>> /\ pc["app"] \in OnList
  BY IteratorControl DEF lists, nodes, request, OnList
<1>2. req \in Requests /\ req.port \in Ports /\ sock_bind_table[req.port] # NULL
  BY <1>1, RequestFacts DEF Types, AppCall, OnList
<1>3. /\ \A k : Passed(k)' <=> Passed(k)
      /\ \A n : Reached(n)' <=> Reached(n)
      /\ AllPassed' <=> AllPassed
  BY <1>1, <1>2, PassedSame
<1>4. Chain(req.port)' = Chain(req.port)
  BY <1>1, <1>2 DEF SameLists
<1>5. /\ it \in [Procs -> Procs] /\ iter \in [Procs -> NodeOrNull] /\ curr \in [Procs -> NodeOrNull]
      /\ it["app"] = "app" /\ "app" \in Procs
  BY ProcFacts DEF AppWalk, Types, ProcTypes
<1>6. PICK c : c = Chain(req.port)
  OBVIOUS
<1>7. c \in Seq(Nodes)
  BY <1>2, <1>6, ChainType
<1> USE AppPc
<1>8. CASE IterNew("app")
  <2>1. pc'["app"] = "iter_alloc"
    BY <1>8 DEF IterNew
  <2>2. PICK l : l = sock_bind_table[req.port]
    OBVIOUS
  <2>3. curr' = [curr EXCEPT !["app"] = list[l].head]
    BY <1>8, <2>2 DEF IterNew
  <2>4. list[l].head = At(c, 1)
    BY <1>2, <1>6, <2>2 DEF Shaped, Linked, Chained
  <2>5. curr'["app"] = At(Chain(req.port)', 1)
    BY <1>4, <1>5, <1>6, <2>3, <2>4
  <2> QED
    BY <1>0, <1>1, <2>1, <2>5 DEF AppWalk, Iters, HasNode
<1>9. CASE IterGot("app")
  <2>1. pc["app"] = "iter_alloc" /\ pc'["app"] = "next" /\ iter' = [iter EXCEPT !["app"] = curr["app"]]
    BY <1>0, <1>9 DEF IterGot
  <2>2. iter'["app"] = At(c, 1)
    BY <1>5, <1>6, <2>1 DEF AppWalk
  <2>3. Reached(At(c, 1))
    <3>1. 1 \in 1 .. Len(c) + 1 /\ Passed(1)
      BY <1>7 DEF Passed
    <3> QED
      BY <1>6, <3>1 DEF Reached
  <2>4. Reached(iter["app"])'
    BY <1>3, <2>2, <2>3
  <2> QED
    BY <1>0, <2>1, <2>4 DEF AppWalk, Iters, HasNode
<1>10. CASE IterNext("app")
  <2>1. /\ pc["app"] = "next" /\ Reached(iter["app"])
        /\ pc'["app"] = IF iter["app"] = NULL THEN "destroy" ELSE "advance"
        /\ curr' = [curr EXCEPT !["app"] = iter["app"]]
    BY <1>5, <1>10 DEF IterNext, AppWalk
  <2>2. CASE iter["app"] = NULL
    <3>1. AllPassed
      BY <1>2, <1>6, <1>7, <2>1, <2>2, ReachedAt, SeqFacts
    <3> QED
      BY <1>0, <1>3, <2>1, <2>2, <3>1 DEF AppWalk, Iters, HasNode
  <2>3. CASE iter["app"] # NULL
    <3>1. Reached(curr["app"])' /\ pc'["app"] = "advance"
      BY <1>3, <1>5, <2>1, <2>3
    <3> QED
      BY <1>0, <3>1 DEF AppWalk, Iters, HasNode
  <2> QED
    BY <2>2, <2>3
<1>11. CASE IterAdvance("app")
  <2>1. /\ pc["app"] = "advance" /\ pc'["app"] = "visit" /\ Reached(curr["app"])
        /\ curr' = curr /\ iter' = [iter EXCEPT !["app"] = node[curr["app"]].next]
    BY <1>5, <1>11 DEF IterAdvance, AppWalk
  <2>2. Reached(curr["app"])' /\ iter'["app"] = node'[curr'["app"]].next
    BY <1>1, <1>3, <1>5, <2>1
  <2> QED
    BY <1>0, <2>1, <2>2 DEF AppWalk, Iters, HasNode
<1>12. CASE IterDestroy("app")
  <2>1. pc["app"] = "destroy" /\ pc'["app"] = "iter_free"
    BY <1>12 DEF IterDestroy
  <2> QED
    BY <1>0, <1>1, <1>3, <2>1 DEF AppWalk, Iters, HasNode
<1>13. CASE IterFreed("app")
  <2>1. pc["app"] = "iter_free" /\ pc'["app"] = AfterWalk("app")
    BY <1>13 DEF IterFreed
  <2> QED
    BY <1>0, <1>1, <1>3, <2>1 DEF AppWalk, Iters, HasNode, AfterWalk
<1> QED
  BY <1>8, <1>9, <1>10, <1>11, <1>12, <1>13 DEF Iterator

LEMMA AppWalkScan ==
    ASSUME Types, Shaped, SameLists, AppWalk, Scan \/ Search, ~raced'
    PROVE  AppWalk'
<1> USE AppPc
<1>1. /\ pc["app"] = "visit" /\ UNCHANGED <<sock_bind_table, list, node, req, iter, it, curr>>
      /\ pc'["app"] \in {"next", "unlink", "destroy"}
  BY DEF Scan, Search, lists, nodes, request, iters
<1>2. /\ req \in Requests /\ req.port \in Ports /\ job \in {"scan", "denied", "del"}
  BY <1>1, RequestFacts DEF Types, AppCall, OnList, CallTypes
<1>3. job' = job \/ (pc'["app"] = "destroy" /\ job = "scan" /\ job' = "denied")
  BY <1>1 DEF Scan, Search, request
<1>4. /\ \A k : Passed(k)' <=> Passed(k)
      /\ \A n : Reached(n)' <=> Reached(n)
  BY <1>1, <1>2, <1>3, PassedSame
<1>5. PICK c : c = Chain(req.port)
  OBVIOUS
<1>6. /\ c \in Seq(Nodes) /\ Len(c) \in Nat /\ DOMAIN c = 1 .. Len(c)
      /\ \A n \in Nodes : n # NULL
  BY <1>2, <1>5, ChainType, SeqFacts
<1>7. curr["app"] \in Nodes /\ Reached(curr["app"]) /\ iter["app"] = node[curr["app"]].next
  BY <1>1, ProcFacts DEF Types, ProcTypes, AppWalk
<1>8. PICK k \in DOMAIN c : curr["app"] = c[k] /\ Passed(k)
  BY <1>2, <1>5, <1>6, <1>7, ReachedAt
<1>9. iter["app"] = At(c, k + 1)
  <2>1. sock_bind_table[req.port] # NULL
    BY <1>1 DEF Types, AppCall, OnList
  <2> QED
    BY <1>2, <1>5, <1>7, <1>8, <2>1 DEF Shaped, Linked, Chained
<1>10. CASE pc'["app"] = "next"
  <2>1. Test(node[curr["app"]].val)
    BY <1>1, <1>10 DEF Scan, Search, Test
  <2>2. Bindings(req.port)[k] = node[curr["app"]].val
    BY <1>5, <1>8 DEF Bindings
  <2>3. Passed(k + 1)
    <3>1. ASSUME NEW i \in 1 .. (k + 1) - 1 PROVE Test(Bindings(req.port)[i])
      <4>1. i = k \/ i \in 1 .. k - 1
        BY <1>6
      <4> QED
        BY <1>8, <2>1, <2>2, <4>1 DEF Passed
    <3> QED
      BY <3>1 DEF Passed
  <2>4. Reached(iter["app"])
    <3>1. k + 1 \in 1 .. Len(c) + 1
      BY <1>6
    <3> QED
      BY <1>5, <1>9, <2>3, <3>1 DEF Reached
  <2>5. Reached(iter["app"])'
    BY <1>1, <1>4, <2>4
  <2> QED
    BY <1>1, <1>10, <2>5 DEF AppWalk, HasNode
<1>11. CASE pc'["app"] = "unlink"
  <2>1. node[curr["app"]].val.sockfd = req.sockfd
    BY <1>11 DEF Scan, Search
  <2>2. Reached(curr["app"])' /\ node'[curr'["app"]].val.sockfd = req'.sockfd
    BY <1>1, <1>4, <1>7, <2>1
  <2> QED
    BY <1>1, <1>11, <2>2 DEF AppWalk, HasNode
<1>12. CASE pc'["app"] = "destroy"
  <2>1. job' = "denied"
    BY <1>1, <1>12 DEF Scan, Search
  <2> QED
    BY <1>1, <1>12, <2>1 DEF AppWalk, HasNode
<1> QED
  BY <1>1, <1>10, <1>11, <1>12

\* The other steps that link and unlink nothing.
LEMMA AppWalkRest ==
    ASSUME Types, Shaped, SameLists, AppWalk, ~raced', App \/ Poller, ~Links, ~list_remove,
           ~Iterator("app"), ~Scan, ~Search
    PROVE  AppWalk'
<1> USE AppPc
<1>1. ASSUME NEW r \in Requests, Bind(r) \/ Close(r) PROVE AppWalk'
  <2>1. it' = it /\ pc'["app"] \in {"list", "iter_new"}
    BY <1>1 DEF Bind, Close, CallStarts, iters
  <2> QED
    BY <2>1 DEF AppWalk, HasNode
<1>2. CASE ClearEntry \/ UnpublishList \/ list_new
  <2>1. it' = it /\ pc'["app"] \in {"idle", "publish"}
    BY <1>2 DEF ClearEntry, UnpublishList, list_new, iters
  <2> QED
    BY <2>1 DEF AppWalk, HasNode
<1>3. CASE PublishList
  <2>1. it' = it /\ pc["app"] = "publish" /\ pc'["app"] = "info" /\ req' = req
    BY <1>3 DEF PublishList, iters, request
  <2>2. req.port \in Ports /\ sock_bind_table[req.port] = NULL
    BY <2>1, RequestFacts DEF Types, AppCall
  <2>3. Chain(req.port)' = <<>>
    BY <2>1, <2>2, ChainType DEF SameLists
  <2>4. AllPassed'
    BY <2>3 DEF AllPassed, Passed
  <2> QED
    BY <2>1, <2>4 DEF AppWalk, HasNode
<1>4. CASE NewBindInfoElem \/ list_node_new \/ LinkFront \/ list_destroy
  <2>1. /\ UNCHANGED <<req, job, it>> /\ pc["app"] \in {"info", "node", "push", "clear"}
        /\ pc'["app"] \in {"crashed", "unpublish"} \cup HasNode
    BY <1>4 DEF NewBindInfoElem, list_node_new, LinkFront, list_destroy, iters, request, HasNode
  <2>2. req \in Requests /\ AllPassed
    BY <2>1 DEF Types, AppCall, AppWalk, HasNode
  <2>3. AllPassed'
    BY <2>1, <2>2, PassedSame
  <2> QED
    BY <2>1, <2>3 DEF AppWalk, HasNode
<1>5. CASE Poller
  <2>1. UNCHANGED <<sock_bind_table, list, node, req, job>> /\ pc'["app"] = pc["app"]
    BY <1>5, PollerIdle
  <2>2. Iters' /\ iter'["app"] = iter["app"] /\ curr'["app"] = curr["app"]
    <3>1. CASE Iterator("poller")
      BY <3>1, IterOwn, ProcFacts DEF AppWalk, Iters
    <3>2. CASE Deliver \/ \E p \in Ports, d \in Dsts : Receive(p, d)
      BY <3>2 DEF Deliver, Receive, iters, AppWalk, Iters
    <3> QED
      BY <1>5, <3>1, <3>2 DEF Poller, PollerStep
  <2>3. CASE pc["app"] = "idle"
    BY <2>1, <2>2, <2>3 DEF AppWalk, Iters, HasNode
  <2>4. CASE pc["app"] # "idle"
    <3>1. req \in Requests /\ req.port \in Ports
      BY <2>4, RequestFacts DEF Types, AppCall
    <3>2. /\ \A n : Reached(n)' <=> Reached(n)
          /\ AllPassed' <=> AllPassed
          /\ Chain(req.port)' = Chain(req.port)
      BY <2>1, <3>1, PassedSame DEF SameLists
    <3>3. PICK n, m : n = iter["app"] /\ m = curr["app"]
      OBVIOUS
    <3>4. /\ pc["app"] = "next" => Reached(iter["app"])'
          /\ pc["app"] \in {"advance", "visit", "unlink"} => Reached(curr["app"])'
      BY <2>2, <3>2, <3>3 DEF AppWalk
    <3>5. /\ pc["app"] = "visit" => iter'["app"] = node'[curr'["app"]].next
          /\ pc["app"] = "unlink" => node'[curr'["app"]].val.sockfd = req'.sockfd
          /\ pc["app"] = "iter_alloc" => curr'["app"] = At(Chain(req.port)', 1)
      BY <2>1, <2>2, <3>2 DEF AppWalk
    <3>6. /\ pc["app"] \in {"destroy", "iter_free"} /\ job # "denied" => AllPassed'
          /\ pc["app"] \in {"info", "clear", "unpublish"} \cup HasNode => AllPassed'
      BY <3>2 DEF AppWalk
    <3> QED
      BY <2>1, <2>2, <3>4, <3>5, <3>6 DEF AppWalk, Iters
  <2> QED
    BY <2>3, <2>4
<1> QED
  BY <1>1, <1>2, <1>3, <1>4, <1>5 DEF App, Links

\* What is bound changes at the end of a close(), when the binding is in no list.
LEMMA OwnedKept ==
    ASSUME Types, Shaped, SameLists, AppWalk, Owned, App \/ Poller, ~Links, ~list_remove
    PROVE  Owned'
<1> USE AppPc
<1>1. (\/ bound' = bound
       \/ bound' = bound \ {req} /\ pc'["app"] = "idle" /\ req \in Requests /\ job = "del" /\ AllPassed)
      /\ (pc'["app"] # "idle" /\ job' = "del" => req' \in bound')
  <2>1. ASSUME NEW r \in Requests, Bind(r) \/ Close(r)
        PROVE  bound' = bound /\ (job' = "del" => req' \in bound')
    BY <2>1 DEF Bind, Close, CallStarts
  <2>2. CASE \/ Iterator("app") \/ Scan \/ Search \/ list_new \/ PublishList \/ NewBindInfoElem
             \/ list_node_new \/ LinkFront \/ list_destroy
    <3>1. /\ bound' = bound /\ req' = req /\ (job' = "del" => job = "del") /\ pc["app"] # "idle"
      <4>1. CASE Iterator("app")
        BY <4>1, IteratorControl DEF request
      <4>2. CASE ~Iterator("app")
        BY <2>2, <4>2 DEF Scan, Search, list_new, PublishList, NewBindInfoElem, list_node_new,
                          LinkFront, list_destroy, request
      <4> QED
        BY <4>1, <4>2
    <3> QED
      BY <3>1 DEF Owned
  <2>3. CASE ClearEntry \/ UnpublishList
    <3>1. bound' = bound \ {req} /\ pc["app"] \in {"clear", "unpublish"} /\ pc'["app"] = "idle"
      BY <2>3 DEF ClearEntry, UnpublishList
    <3> QED
      BY <3>1 DEF Types, AppCall, AppWalk
  <2>4. CASE Poller
    BY <2>4, PollerIdle DEF Owned
  <2> QED
    BY <2>1, <2>2, <2>3, <2>4 DEF App, Links
<1>2. ASSUME NEW p \in Ports, NEW i \in DOMAIN Chain(p)
      PROVE  \E r \in bound' : r.port = p /\ r.sockfd = Bindings(p)[i].sockfd
  <2>1. PICK r \in bound : r.port = p /\ r.sockfd = Bindings(p)[i].sockfd
    BY DEF Owned
  <2>2. CASE bound' = bound
    BY <2>1, <2>2
  <2>3. CASE bound' = bound \ {req} /\ job = "del" /\ AllPassed
    <3>1. ASSUME r = req PROVE FALSE
      <4>1. i \in 1 .. (Len(Chain(p)) + 1) - 1 /\ p = req.port
        BY <2>1, <3>1, ChainType, SeqFacts
      <4>2. Test(Bindings(req.port)[i])
        BY <2>3, <4>1 DEF AllPassed, Passed
      <4> QED
        BY <2>1, <2>3, <3>1, <4>1, <4>2 DEF Test
    <3> QED
      BY <2>1, <2>3, <3>1
  <2> QED
    BY <1>1, <2>2, <2>3
<1> QED
  BY <1>1, <1>2 DEF Owned, SameLists

\* Owned, said of the nodes.
OwnedNodes ==
    /\ \A p \in Ports : \A n \in Range(Chain(p)) :
          \E r \in bound : r.port = p /\ r.sockfd = node[n].val.sockfd
    /\ \A p \in Ports : \A n, m \in Range(Chain(p)) :
          node[n].val.sockfd = node[m].val.sockfd => n = m
    /\ pc["app"] # "idle" /\ job = "del" => req \in bound

\* Owned and OwnedNodes say the same of well-formed lists.
LEMMA OwnedIsOfNodes == ASSUME Shaped, Owned PROVE OwnedNodes
<1>1. ASSUME NEW p \in Ports, NEW n \in Range(Chain(p))
      PROVE  \E i \in DOMAIN Chain(p) : n = Chain(p)[i] /\ Bindings(p)[i] = node[n].val
  BY RangeFacts DEF Bindings
<1>2. ASSUME NEW p \in Ports, NEW n \in Range(Chain(p))
      PROVE  \E r \in bound : r.port = p /\ r.sockfd = node[n].val.sockfd
  BY <1>1 DEF Owned
<1>3. ASSUME NEW p \in Ports, NEW n \in Range(Chain(p)), NEW m \in Range(Chain(p)),
             node[n].val.sockfd = node[m].val.sockfd
      PROVE  n = m
  <2>1. PICK i \in DOMAIN Chain(p) : n = Chain(p)[i] /\ Bindings(p)[i] = node[n].val
    BY <1>1
  <2>2. PICK j \in DOMAIN Chain(p) : m = Chain(p)[j] /\ Bindings(p)[j] = node[m].val
    BY <1>1
  <2>3. i = j
    BY <1>3, <2>1, <2>2 DEF Owned
  <2> QED
    BY <2>1, <2>2, <2>3
<1> QED
  BY <1>2, <1>3 DEF OwnedNodes, Owned

LEMMA NextChainType ==
    ASSUME Shaped', NEW p \in Ports
    PROVE  \A i, j \in DOMAIN Chain(p)' : Chain(p)'[i] = Chain(p)'[j] => i = j
<1>1. CASE sock_bind_table'[p] = NULL
  <2>1. Chain(p)' = <<>>
    BY <1>1, NextChainIs
  <2> QED
    BY <2>1
<1>2. CASE sock_bind_table'[p] # NULL
  BY <1>2 DEF Shaped, Linked, Chained
<1> QED
  BY <1>1, <1>2

LEMMA NodesAreOwned == ASSUME Shaped', OwnedNodes' PROVE Owned'
<1>1. ASSUME NEW p \in Ports, NEW i \in DOMAIN Chain(p)'
      PROVE  Chain(p)'[i] \in Range(Chain(p)') /\ Bindings(p)'[i] = node'[Chain(p)'[i]].val
  BY RangeFacts DEF Bindings
<1>2. ASSUME NEW p \in Ports, NEW i \in DOMAIN Chain(p)'
      PROVE  \E r \in bound' : r.port = p /\ r.sockfd = Bindings(p)'[i].sockfd
  BY <1>1 DEF OwnedNodes
<1>3. ASSUME NEW p \in Ports, NEW i \in DOMAIN Chain(p)', NEW j \in DOMAIN Chain(p)',
             Bindings(p)'[i].sockfd = Bindings(p)'[j].sockfd
      PROVE  i = j
  <2>1. Chain(p)'[i] = Chain(p)'[j]
    BY <1>1, <1>3 DEF OwnedNodes
  <2> QED
    BY <2>1, NextChainType
<1> QED
  BY <1>2, <1>3 DEF OwnedNodes, Owned

LEMMA LinkOwned ==
    ASSUME Types, TableInv, Shaped, Apart, Allocated, Prepared, Requested, AppWalk, Owned, Links
    PROVE  AppWalk' /\ Owned'
<1>1. /\ pc["app"] \in {"push", "front"}
      /\ Shaped' /\ \A m \in Nodes : node'[m].val = node[m].val
      /\ \A p \in Ports : Chain(p)' = IF p = req.port THEN Into(Chain(p), node_ret) ELSE Chain(p)
  BY LinkStep
<1>2. /\ req \in Requests /\ req.port \in Ports
      /\ node_ret \in Nodes /\ \A p \in Ports : node_ret \notin Range(Chain(p))
      /\ node[node_ret].val.sockfd = req.sockfd
  BY <1>1, LinkContext, RequestFacts
<1>3. pc'["app"] = "idle" /\ bound' = bound \cup {req} /\ it' = it
  BY AppPc DEF Links, PushAlone, list_rpush, list_lpush, Pushed, iters
<1>4. ASSUME NEW p \in Ports
      PROVE  /\ Range(Chain(p)') = IF p = req.port THEN Range(Chain(p)) \cup {node_ret} ELSE Range(Chain(p))
             /\ Range(Chain(p)) \subseteq Nodes
  <2>1. Chain(p) \in Seq(Nodes)
    BY ChainType
  <2>2. Range(Chain(p)) \subseteq Nodes
    BY <2>1, RangeFacts
  <2>3. Range(Into(Chain(p), node_ret)) = Range(Chain(p)) \cup {node_ret}
    BY <1>2, <2>1, IntoElements
  <2> QED
    BY <1>1, <2>2, <2>3
<1>5. AppWalk'
  BY <1>3 DEF AppWalk, HasNode
<1>6. OwnedNodes
  BY OwnedIsOfNodes
<1>7. job = "scan" /\ \A b \in bound : b.sockfd # req.sockfd
  BY <1>1 DEF Types, AppCall, HasNode, Requested
<1>8. ASSUME NEW p \in Ports, NEW n \in Range(Chain(p)')
      PROVE  \E r \in bound' : r.port = p /\ r.sockfd = node'[n].val.sockfd
  BY <1>1, <1>2, <1>3, <1>4, <1>6 DEF OwnedNodes
<1>9. ASSUME NEW p \in Ports, NEW n \in Range(Chain(p)'), NEW m \in Range(Chain(p)'),
             node'[n].val.sockfd = node'[m].val.sockfd
      PROVE  n = m
  <2>1. node[n].val.sockfd = node[m].val.sockfd
    BY <1>1, <1>2, <1>4, <1>9
  <2>2. \A x \in Range(Chain(p)) : node[x].val.sockfd # req.sockfd
    BY <1>6, <1>7 DEF OwnedNodes
  <2> QED
    BY <1>2, <1>4, <1>6, <1>9, <2>1, <2>2 DEF OwnedNodes
<1>10. OwnedNodes'
  BY <1>3, <1>8, <1>9 DEF OwnedNodes
<1> QED
  BY <1>1, <1>5, <1>10, NodesAreOwned

LEMMA RemoveOwned ==
    ASSUME Types, TableInv, Shaped, Apart, AppWalk, Owned, list_remove
    PROVE  AppWalk' /\ Owned'
<1>0. pc["app"] = "unlink" /\ pc'["app"] = "destroy" /\ UNCHANGED <<req, job, bound, it>>
  BY AppPc DEF list_remove, request, iters
<1>1. req \in Requests /\ req.port \in Ports /\ req \in bound /\ job = "del"
  BY <1>0, WhatIsRemoved, RequestFacts
<1>2. PICK k \in DOMAIN Chain(req.port) :
         /\ curr["app"] = Chain(req.port)[k]
         /\ node[Chain(req.port)[k]].val.sockfd = req.sockfd
  BY <1>0, WhatIsRemoved
<1>3. PICK i : i = Chain(req.port)[k]
  OBVIOUS
<1>4. /\ Shaped' /\ \A m \in Nodes : node'[m].val = node[m].val
      /\ \A p \in Ports : Chain(p)' = IF p = req.port THEN Without(Chain(p), k) ELSE Chain(p)
  BY <1>2, RemoveStep
<1>5. ASSUME NEW p \in Ports
      PROVE  /\ Range(Chain(p)') = IF p = req.port THEN Range(Chain(p)) \ {i} ELSE Range(Chain(p))
             /\ Range(Chain(p)) \subseteq Nodes
  BY <1>1, <1>3, <1>4, ChainType, WithoutRange, RangeFacts
<1>6. OwnedNodes
  BY OwnedIsOfNodes
<1>7. OwnedNodes'
  BY <1>0, <1>1, <1>4, <1>5, <1>6 DEF OwnedNodes
<1>8. AllPassed'
  <2>1. PICK p \in Ports : p = req.port
    BY <1>1
  <2>2. i \in Range(Chain(p))
    BY <1>2, <1>3, <2>1, RangeFacts
  <2>3. \A n \in Range(Chain(p)') : node'[n].val.sockfd # req.sockfd
    BY <1>2, <1>3, <1>4, <1>5, <1>6, <2>1, <2>2 DEF OwnedNodes
  <2>4. ASSUME NEW j \in DOMAIN Chain(p)' PROVE Bindings(p)'[j].sockfd # req.sockfd
    <3>1. Bindings(p)'[j] = node'[Chain(p)'[j]].val
      BY DEF Bindings
    <3> QED
      BY <2>3, <3>1, RangeFacts
  <2>5. DOMAIN Chain(p)' = 1 .. Len(Chain(p)') /\ Len(Chain(p)') \in Nat
    <3>1. Chain(p)' = Without(Chain(p), k)
      BY <1>4, <2>1
    <3>2. k \in DOMAIN Chain(p) /\ Chain(p) \in Seq(Nodes)
      BY <1>2, <1>4, <2>1, ChainType
    <3>3. Without(Chain(p), k) \in Seq(Nodes)
      BY <3>2, WithoutElements
    <3> QED
      BY <3>1, <3>3, SeqFacts
  <2>6. ASSUME NEW j \in 1 .. (Len(Chain(p)') + 1) - 1, NEW b, b = Bindings(p)'[j]
        PROVE  Test(b)'
    <3>1. j \in DOMAIN Chain(p)'
      BY <2>5
    <3> QED
      BY <1>0, <1>1, <2>4, <2>6, <3>1 DEF Test
  <2> QED
    BY <1>0, <2>1, <2>6 DEF AllPassed, Passed
<1>9. AppWalk'
  BY <1>0, <1>8 DEF AppWalk, HasNode
<1> QED
  BY <1>4, <1>7, <1>9, NodesAreOwned

\* Every step keeps what the scan knows: only the application changes lists, and
\* not while it scans.
LEMMA ScanNext ==
    ASSUME Types, Types', TableInv, ShapeInv, ScanInv, App \/ Poller
    PROVE  ScanInv'
<1> SUFFICES ASSUME ~raced' PROVE AppWalk' /\ Owned'
  BY DEF ScanInv
<1>1. ~raced
  BY RacedStays
<1>2. ~blind /\ AppWalk /\ Owned
  BY <1>1 DEF Types, Observed, ScanInv
<1>3. Shaped /\ Apart /\ Allocated /\ Prepared /\ Requested
  BY <1>2 DEF ShapeInv
<1>4. CASE Links
  BY <1>2, <1>3, <1>4, LinkOwned
<1>5. CASE list_remove
  BY <1>2, <1>3, <1>5, RemoveOwned
<1>6. CASE ~Links /\ ~list_remove
  <2>1. SameLists
    BY <1>3, <1>6, StepsLeave
  <2>2. Owned'
    BY <1>2, <1>3, <1>6, <2>1, OwnedKept
  <2>3. AppWalk'
    <3>1. CASE Iterator("app")
      BY <1>2, <1>3, <2>1, <3>1, AppWalkIterator
    <3>2. CASE Scan \/ Search
      BY <1>2, <1>3, <2>1, <3>2, AppWalkScan
    <3>3. CASE ~Iterator("app") /\ ~Scan /\ ~Search
      BY <1>2, <1>3, <1>6, <2>1, <3>3, AppWalkRest
    <3> QED
      BY <3>1, <3>2, <3>3
  <2> QED
    BY <2>2, <2>3
<1> QED
  BY <1>4, <1>5, <1>6

-----------------------------------------------------------------------------
(* The inductive invariant, and what it implies.                            *)

LwInv == IInv /\ Types /\ ShapeInv /\ ScanInv

LEMMA InitLwInv == LwInit => LwInv
<1> SUFFICES ASSUME LwInit PROVE LwInv
  OBVIOUS
<1>1. IInv /\ Types
  BY InitIInv, InitTypes
<1>2. \A p \in Ports : sock_bind_table[p] = NULL /\ Chain(p) = <<>>
  BY ChainIs DEF LwInit
<1>3. pc["app"] = "idle" /\ bound = {} /\ it["app"] = "app" /\ it["poller"] = "poller"
  BY ProcFacts DEF LwInit
<1>4. Range(<<>>) = {} /\ DOMAIN <<>> = {}
  BY DEF Range
<1>5. Shaped /\ Apart /\ Allocated /\ Prepared /\ Requested
  BY <1>2, <1>3, <1>4 DEF Shaped, Apart, Allocated, Prepared, Requested, HasNode
<1>6. AppWalk /\ Owned
  BY <1>2, <1>3, <1>4 DEF AppWalk, Owned, HasNode
<1> QED
  BY <1>1, <1>5, <1>6 DEF LwInv, ShapeInv, ScanInv

LEMMA SameShape == ASSUME LwInv, UNCHANGED lw_vars PROVE ShapeInv' /\ ScanInv'
<1>1. /\ UNCHANGED <<sock_bind_table, list, node, node_bits, node_ret, list_ret, req, job, bound>>
      /\ UNCHANGED <<pc, iter, it, curr, raced, blind>>
  BY DEF lw_vars, lists, nodes, list_pool, node_pool, iters, request, history
<1>2. CASE blind
  BY <1>1, <1>2 DEF LwInv, Types, Observed, ShapeInv, ScanInv
<1>3. CASE ~blind
  <2>1. Shaped /\ Apart /\ Allocated /\ Prepared /\ Requested
    BY <1>3 DEF LwInv, ShapeInv
  <2>2. Shaped' /\ Apart' /\ Allocated' /\ SameLists
    BY <1>1, <2>1, NothingWritten, ListsLeft
  <2>3. \A p \in Ports : Chain(p)' = Chain(p) /\ Bindings(p)' = Bindings(p)
    BY <2>2 DEF SameLists
  <2>4. pc["app"] # "idle" => req \in Requests /\ req.port \in Ports
    BY RequestFacts DEF LwInv, Types, AppCall
  <2>5. pc["app"] # "idle" => Chain(req.port)' = Chain(req.port)
    BY <1>1, <2>3, <2>4
  <2>6. Prepared'
    BY <1>1, <2>1, <2>3, <2>5 DEF Prepared, HasNode
  <2>7. Requested'
    <3>1. pc["app"] # "idle" /\ job # "del" => \A b \in bound : b.sockfd # req.sockfd
      BY <2>1 DEF Requested
    <3> QED
      BY <1>1, <2>1, <2>2, <3>1, RequestedStays DEF LwInv, Removing
  <2>8. ASSUME AppWalk, Owned PROVE AppWalk' /\ Owned'
    <3>1. Owned'
      BY <1>1, <2>3, <2>8 DEF Owned
    <3>2. CASE pc["app"] = "idle"
      BY <1>1, <2>8, <3>1, <3>2 DEF AppWalk, HasNode
    <3>3. CASE pc["app"] # "idle"
      <4>1. /\ \A n : Reached(n)' <=> Reached(n)
            /\ AllPassed' <=> AllPassed
        BY <1>1, <2>2, <2>4, <3>3, PassedSame
      <4>2. /\ pc["app"] = "next" => Reached(iter["app"])'
            /\ pc["app"] \in {"advance", "visit", "unlink"} => Reached(curr["app"])'
        BY <1>1, <2>8, <4>1 DEF AppWalk
      <4> QED
        BY <1>1, <2>5, <2>8, <3>1, <3>3, <4>1, <4>2 DEF AppWalk
    <3> QED
      BY <3>2, <3>3
  <2>9. ScanInv'
    BY <1>1, <2>8 DEF LwInv, ScanInv
  <2> QED
    BY <1>1, <1>3, <2>2, <2>6, <2>7, <2>9 DEF ShapeInv
<1> QED
  BY <1>2, <1>3

LEMMA NextLwInv == LwInv /\ [Next]_lw_vars => LwInv'
<1> SUFFICES ASSUME LwInv, [Next]_lw_vars PROVE LwInv'
  OBVIOUS
<1>1. IInv' /\ TableInv
  BY NextIInv DEF LwInv, IInv
<1>2. CASE Next
  <2>1. Types'
    BY <1>1, <1>2, BoundAreListed, NextTypes DEF LwInv
  <2>2. ShapeInv'
    BY <1>1, <1>2, ShapeNext DEF LwInv, Next
  <2>3. ScanInv'
    BY <1>1, <1>2, <2>1, ScanNext DEF LwInv, Next
  <2> QED
    BY <1>1, <2>1, <2>2, <2>3 DEF LwInv
<1>3. CASE UNCHANGED lw_vars
  BY <1>1, <1>3, SameTypes, SameShape DEF LwInv
<1> QED
  BY <1>2, <1>3

\* Type correctness of the two processes, the pools and the pointers: a call
\* works with a node, a list and a request that are there, whatever the calls of
\* the iterator allocator return.
THEOREM LwTypeCorrect == Spec => []LwTypeOK
<1>1. LwInv => LwTypeOK
  <2> SUFFICES ASSUME LwInv PROVE LwTypeOK
    OBVIOUS
  <2>1. MemTypes /\ ProcTypes /\ CallTypes /\ HeapsOK /\ Observed
    BY DEF LwInv, Types
  <2>2. ListHeap!TypeOK /\ NodeHeap!TypeOK
    BY <2>1, HeapFacts
  <2> QED
    BY <2>1, <2>2 DEF LwTypeOK, MemTypes, ProcTypes, CallTypes, Observed
<1> QED
  BY <1>1, InitLwInv, NextLwInv, PTL DEF Spec

\* While bind() and close() change the lists (udpdk_list.c), no node is in two
\* lists or twice in one, every node of a list is allocated, and next, prev, tail
\* and len describe the same list, of any length, whenever the poller may look.
THEOREM ListsAlwaysWellFormed == Spec => []ListWellFormed
<1>1. LwInv => ListWellFormed
  <2> SUFFICES ASSUME LwInv, ~blind PROVE ListWellFormed
    BY DEF ListWellFormed
  <2>1. Shaped /\ Apart /\ Allocated /\ TableInv
    BY DEF LwInv, ShapeInv, IInv
  <2>2. ASSUME NEW p \in Ports, sock_bind_table[p] # NULL
        PROVE  LET l == sock_bind_table[p]
                   c == Chain(p)
               IN  /\ l \in list_bits \/ (pc["app"] = "unpublish" /\ p = req.port)
                   /\ Range(c) \subseteq node_bits /\ IsInjective(c)
                   /\ list[l].len = Len(c)
                   /\ list[l].tail = IF c = <<>> THEN NULL ELSE c[Len(c)]
                   /\ \A i \in DOMAIN c : node[c[i]].prev = IF i = 1 THEN NULL ELSE c[i - 1]
    <3>1. PICK c, l : c = Chain(p) /\ l = sock_bind_table[p]
      OBVIOUS
    <3>2. Linked(list[l], node, c)
      BY <2>1, <2>2, <3>1 DEF Shaped
    <3>3. /\ c \in Seq(Nodes) /\ list[l].len = Len(c) /\ list[l].tail = At(c, Len(c))
          /\ \A i, j \in DOMAIN c : c[i] = c[j] => i = j
          /\ \A i \in DOMAIN c : node[c[i]].prev = At(c, i - 1)
      BY <3>2 DEF Linked, Chained
    <3>4. /\ Len(c) \in Nat /\ DOMAIN c = 1 .. Len(c) /\ (c = <<>> <=> Len(c) = 0)
          /\ \A i \in 1 .. Len(c) : At(c, i) = c[i]
          /\ At(c, 0) = NULL
      BY <3>3, SeqFacts
    <3>5. list[l].tail = IF c = <<>> THEN NULL ELSE c[Len(c)]
      <4>1. CASE c = <<>>
        BY <3>3, <3>4, <4>1
      <4>2. CASE c # <<>>
        BY <3>3, <3>4, <4>2
      <4> QED
        BY <4>1, <4>2
    <3>6. ASSUME NEW i \in DOMAIN c PROVE node[c[i]].prev = IF i = 1 THEN NULL ELSE c[i - 1]
      <4>1. CASE i = 1
        BY <3>3, <3>4, <4>1
      <4>2. CASE i # 1
        <5>1. i - 1 \in 1 .. Len(c)
          BY <3>4, <4>2
        <5> QED
          BY <3>3, <3>4, <4>2, <5>1
      <4> QED
        BY <4>1, <4>2
    <3>7. l \in list_bits \/ (pc["app"] = "unpublish" /\ p = req.port)
      BY <2>1, <2>2, <3>1 DEF TableInv
    <3>8. Range(c) \subseteq node_bits /\ IsInjective(c)
      BY <2>1, <3>1, <3>3 DEF Allocated, IsInjective
    <3> QED
      BY <3>1, <3>3, <3>5, <3>6, <3>7, <3>8
  <2> QED
    BY <2>1, <2>2 DEF ListWellFormed, Apart
<1> QED
  BY <1>1, InitLwInv, NextLwInv, PTL DEF Spec

\* When btable_can_bind has let a bind() through, the address is compatible with
\* the whole list as it is when the node is linked, and when btable_del_binding
\* empties the entry no binding of the socket is left (udpdk_bind_table.c), unless
\* calls of the iterator allocator overlapped.
THEOREM ScanAlwaysSound == Spec => []ScanSound
<1>1. LwInv => ScanSound
  <2> SUFFICES ASSUME LwInv, ~raced PROVE ScanSound
    BY DEF ScanSound
  <2>1. ~blind /\ AppWalk /\ Owned
    BY DEF LwInv, Types, Observed, ScanInv
  <2>2. Shaped /\ Requested /\ Types
    BY <2>1 DEF LwInv, ShapeInv
  <2>3. ASSUME pc["app"] \in {"push", "front"}
        PROVE  CanBind(Bindings(req.port), req.ip, req.opts)
    <3>1. job = "scan" /\ req.port \in Ports /\ AllPassed
      BY <2>1, <2>2, <2>3, RequestFacts DEF Types, AppCall, AppWalk, HasNode
    <3>2. ASSUME NEW i \in DOMAIN Bindings(req.port)
          PROVE  Compatible(Bindings(req.port)[i], req.ip, req.opts)
      <4>1. i \in 1 .. (Len(Chain(req.port)) + 1) - 1
        BY <2>2, <3>1, ChainType, SeqFacts DEF Bindings
      <4> QED
        BY <3>1, <4>1 DEF AllPassed, Passed, Test
    <3> QED
      BY <3>2 DEF CanBind
  <2>4. ASSUME pc["app"] \in {"clear", "unpublish"}, NEW p \in Ports, NEW b \in Range(Bindings(p)),
               b.sockfd = req.sockfd
        PROVE  FALSE
    <3>1. job = "del" /\ req \in bound /\ AllPassed
      BY <2>1, <2>2, <2>4 DEF Types, AppCall, AppWalk, Owned
    <3>2. PICK i \in DOMAIN Bindings(p) : b = Bindings(p)[i]
      BY RangeFacts
    <3>3. i \in DOMAIN Chain(p)
      BY <3>2 DEF Bindings
    <3>4. PICK r \in bound : r.port = p /\ r.sockfd = b.sockfd
      BY <2>1, <3>2, <3>3 DEF Owned
    <3>5. r = req /\ p = req.port
      BY <2>2, <2>4, <3>1, <3>4 DEF Requested
    <3>6. i \in 1 .. (Len(Chain(req.port)) + 1) - 1
      BY <2>2, <3>3, <3>5, ChainType, SeqFacts
    <3> QED
      BY <2>4, <3>1, <3>2, <3>5, <3>6 DEF AllPassed, Passed, Test
  <2> QED
    BY <2>3, <2>4 DEF ScanSound
<1> QED
  BY <1>1, InitLwInv, NextLwInv, PTL DEF Spec

-----------------------------------------------------------------------------
(* The lists implement the switching table.                                 *)

LEMMA ValsFacts ==
    ASSUME NEW nd, nd \in [Nodes -> [prev : NodeOrNull, next : NodeOrNull, val : BindInfo \cup {NULL}]],
           NEW c \in Seq(Nodes)
    PROVE  /\ Vals(nd, c) \in Seq(BindInfo \cup {NULL}) /\ Len(Vals(nd, c)) = Len(c)
           /\ \A i \in 1 .. Len(c) : Vals(nd, c)[i] = nd[c[i]].val
<1>1. Len(c) \in Nat /\ DOMAIN c = 1 .. Len(c) /\ \A i \in 1 .. Len(c) : c[i] \in Nodes
  OBVIOUS
<1> DEFINE v == [i \in 1 .. Len(c) |-> nd[c[i]].val]
<1>2. \A i \in 1 .. Len(c) : nd[c[i]].val \in BindInfo \cup {NULL}
  BY <1>1
<1>3. v \in [1 .. Len(c) -> BindInfo \cup {NULL}]
  BY <1>2
<1>4. v \in Seq(BindInfo \cup {NULL}) /\ Len(v) = Len(c)
  <2> HIDE DEF v
  <2> QED
    BY <1>1, <1>3, IsASeq, LenProperties
<1> QED
  BY <1>1, <1>4 DEF Vals

\* The bindings of a list with one more node.
LEMMA ValsInto ==
    ASSUME NEW nd, nd \in [Nodes -> [prev : NodeOrNull, next : NodeOrNull, val : BindInfo \cup {NULL}]],
           NEW c \in Seq(Nodes), NEW n \in Nodes, NEW b \in BindInfo, nd[n].val = b,
           b.ip_addr = req.ip
    PROVE  Vals(nd, Into(c, n)) = Insert(Vals(nd, c), b)
<1> DEFINE w == Vals(nd, c)
<1>1. /\ w \in Seq(BindInfo \cup {NULL}) /\ Len(w) = Len(c) /\ Len(c) \in Nat
      /\ \A i \in 1 .. Len(c) : w[i] = nd[c[i]].val
  BY ValsFacts
<1>2. b \in BindInfo \cup {NULL}
  OBVIOUS
<1> HIDE DEF w
<1>3. CASE req.ip = INADDR_ANY
  <2> DEFINE d == <<n>> \o c
             e == <<b>> \o w
             v == Vals(nd, d)
  <2>1. /\ d \in Seq(Nodes) /\ Len(d) = Len(c) + 1 /\ d[1] = n
        /\ \A i \in 1 .. Len(c) : d[i + 1] = c[i]
    BY ConsElements
  <2>2. /\ e \in Seq(BindInfo \cup {NULL}) /\ Len(e) = Len(w) + 1 /\ e[1] = b
        /\ \A i \in 1 .. Len(w) : e[i + 1] = w[i]
    BY <1>1, <1>2, ConsElements
  <2>3. Into(c, n) = d /\ Insert(w, b) = e
    BY <1>3 DEF Into, Insert
  <2> HIDE DEF d, e
  <2>4. /\ v \in Seq(BindInfo \cup {NULL}) /\ Len(v) = Len(d)
        /\ \A i \in 1 .. Len(d) : v[i] = nd[d[i]].val
    BY <2>1, ValsFacts
  <2> HIDE DEF v
  <2>5. ASSUME NEW i \in 1 .. Len(v) PROVE v[i] = e[i]
    <3>1. CASE i = 1
      BY <1>1, <2>1, <2>2, <2>4, <3>1
    <3>2. CASE i # 1
      <4>1. PICK j \in 1 .. Len(c) : i = j + 1
        <5>1. i - 1 \in 1 .. Len(c) /\ i = (i - 1) + 1
          BY <1>1, <2>1, <2>4, <3>2
        <5> QED
          BY <5>1
      <4>2. v[i] = nd[c[j]].val
        BY <2>1, <2>4, <4>1
      <4>3. e[i] = w[j]
        BY <1>1, <2>2, <4>1
      <4> QED
        BY <1>1, <4>1, <4>2, <4>3
    <3> QED
      BY <3>1, <3>2
  <2>6. v = e
    BY <1>1, <2>1, <2>2, <2>4, <2>5, SeqEqual
  <2> QED
    BY <2>3, <2>6 DEF v, w
<1>4. CASE req.ip # INADDR_ANY
  <2> DEFINE d == Append(c, n)
             e == Append(w, b)
             v == Vals(nd, d)
  <2>1. /\ d \in Seq(Nodes) /\ Len(d) = Len(c) + 1 /\ d[Len(c) + 1] = n
        /\ \A i \in 1 .. Len(c) : d[i] = c[i]
    BY AppendElements
  <2>2. /\ e \in Seq(BindInfo \cup {NULL}) /\ Len(e) = Len(w) + 1 /\ e[Len(w) + 1] = b
        /\ \A i \in 1 .. Len(w) : e[i] = w[i]
    BY <1>1, <1>2, AppendElements
  <2>3. Into(c, n) = d /\ Insert(w, b) = e
    BY <1>4 DEF Into, Insert
  <2> HIDE DEF d, e
  <2>4. /\ v \in Seq(BindInfo \cup {NULL}) /\ Len(v) = Len(d)
        /\ \A i \in 1 .. Len(d) : v[i] = nd[d[i]].val
    BY <2>1, ValsFacts
  <2> HIDE DEF v
  <2>5. ASSUME NEW i \in 1 .. Len(v) PROVE v[i] = e[i]
    <3>1. CASE i = Len(c) + 1
      BY <1>1, <2>1, <2>2, <2>4, <3>1
    <3>2. CASE i # Len(c) + 1
      <4>1. i \in 1 .. Len(c)
        BY <1>1, <2>1, <2>4, <3>2
      <4> QED
        BY <1>1, <2>1, <2>2, <2>4, <4>1
    <3> QED
      BY <3>1, <3>2
  <2>6. v = e
    BY <1>1, <2>1, <2>2, <2>4, <2>5, SeqEqual
  <2> QED
    BY <2>3, <2>6 DEF v, w
<1> QED
  BY <1>3, <1>4

\* The bindings of a list without its first node of a socket.
LEMMA ValsWithout ==
    ASSUME NEW nd, nd \in [Nodes -> [prev : NodeOrNull, next : NodeOrNull, val : BindInfo \cup {NULL}]],
           NEW c \in Seq(Nodes), NEW k \in DOMAIN c, NEW s, First(Vals(nd, c), s, k)
    PROVE  Vals(nd, Without(c, k)) = Remove(Vals(nd, c), s)
<1> DEFINE w == Vals(nd, c)
           d == Without(c, k)
           v == Vals(nd, d)
           e == Without(w, k)
<1>1. /\ w \in Seq(BindInfo \cup {NULL}) /\ Len(w) = Len(c)
      /\ \A i \in 1 .. Len(c) : w[i] = nd[c[i]].val
  BY ValsFacts
<1>2. Len(c) \in Nat /\ DOMAIN c = 1 .. Len(c) /\ DOMAIN w = 1 .. Len(c) /\ k \in 1 .. Len(c)
  BY <1>1
<1>3. First(w, s, k)
  OBVIOUS
<1> HIDE DEF w
<1>4. \A i \in DOMAIN w : First(w, s, i) => i = k
  <2> SUFFICES ASSUME NEW i \in DOMAIN w, First(w, s, i) PROVE i = k
    OBVIOUS
  <2>1. i \in Int /\ k \in Int /\ i >= 1 /\ k >= 1
    BY <1>2
  <2>2. ~(i < k)
    <3> SUFFICES ASSUME i < k PROVE FALSE
      OBVIOUS
    <3>1. i \in 1 .. k - 1
      BY <2>1
    <3> QED
      BY <1>3, <3>1 DEF First
  <2>3. ~(k < i)
    <3> SUFFICES ASSUME k < i PROVE FALSE
      OBVIOUS
    <3>1. k \in 1 .. i - 1
      BY <2>1
    <3> QED
      BY <1>3, <3>1 DEF First
  <2> QED
    BY <2>1, <2>2, <2>3
<1>5. (CHOOSE i \in DOMAIN w : First(w, s, i)) = k
  BY <1>2, <1>3, <1>4
<1>6. Remove(w, s) = e
  BY <1>2, <1>3, <1>5 DEF Remove
<1>7. /\ d \in Seq(Nodes) /\ Len(d) = Len(c) - 1
      /\ \A i \in 1 .. Len(c) - 1 : d[i] = IF i < k THEN c[i] ELSE c[i + 1]
  BY WithoutElements
<1>8. /\ e \in Seq(BindInfo \cup {NULL}) /\ Len(e) = Len(w) - 1
      /\ \A i \in 1 .. Len(w) - 1 : e[i] = IF i < k THEN w[i] ELSE w[i + 1]
  <2>1. PICK T : T = BindInfo \cup {NULL}
    OBVIOUS
  <2>2. w \in Seq(T) /\ k \in DOMAIN w
    BY <1>1, <1>2, <2>1
  <2>3. /\ e \in Seq(T) /\ Len(e) = Len(w) - 1
        /\ \A i \in 1 .. Len(w) - 1 : e[i] = IF i < k THEN w[i] ELSE w[i + 1]
    BY <2>2, WithoutElements
  <2> QED
    BY <2>1, <2>3
<1> HIDE DEF d, e
<1>9. /\ v \in Seq(BindInfo \cup {NULL}) /\ Len(v) = Len(d)
      /\ \A i \in 1 .. Len(d) : v[i] = nd[d[i]].val
  BY <1>7, ValsFacts
<1> HIDE DEF v
<1>10. ASSUME NEW i \in 1 .. Len(v) PROVE v[i] = e[i]
  <2>1. i \in 1 .. Len(c) - 1 /\ i \in 1 .. Len(c) /\ i + 1 \in 1 .. Len(c)
    BY <1>2, <1>7, <1>9
  <2>2. CASE i < k
    <3>1. v[i] = nd[c[i]].val /\ e[i] = w[i]
      BY <1>1, <1>7, <1>8, <1>9, <2>1, <2>2
    <3> QED
      BY <1>1, <2>1, <3>1
  <2>3. CASE ~(i < k)
    <3>1. v[i] = nd[c[i + 1]].val /\ e[i] = w[i + 1]
      BY <1>1, <1>7, <1>8, <1>9, <2>1, <2>3
    <3> QED
      BY <1>1, <2>1, <3>1
  <2> QED
    BY <2>2, <2>3
<1>11. v = e
  BY <1>1, <1>7, <1>8, <1>9, <1>10, SeqEqual
<1> QED
  BY <1>6, <1>11 DEF v, w, d

LEMMA ValsSame ==
    ASSUME NEW nd, NEW nd2, NEW c \in Seq(Nodes), \A m \in Nodes : nd2[m].val = nd[m].val
    PROVE  Vals(nd2, c) = Vals(nd, c)
<1>1. \A i \in DOMAIN c : c[i] \in Nodes
  OBVIOUS
<1> QED
  BY <1>1 DEF Vals

\* A step that changes the list of one port only.
LEMMA OneBindingChanges ==
    ASSUME NEW p0 \in Ports, NEW x, \A p \in Ports : Bindings(p)' = IF p = p0 THEN x ELSE Bindings(p)
    PROVE  AllBindings' = [AllBindings EXCEPT ![p0] = x]
BY DEF AllBindings

\* Linking a node is btable_add_binding on the abstract table.
LEMMA LinkAdds ==
    ASSUME Types, Types', TableInv, Shaped, Apart, Prepared, Links
    PROVE  Table!Next
<1>1. /\ pc["app"] \in {"push", "front"}
      /\ Shaped' /\ \A m \in Nodes : node'[m].val = node[m].val
      /\ \A p \in Ports : Chain(p)' = IF p = req.port THEN Into(Chain(p), node_ret) ELSE Chain(p)
  BY LinkStep
<1>2. /\ req \in Requests /\ req.port \in Ports /\ node_ret \in Nodes
      /\ node[node_ret].val = NewBindInfo(req.sockfd, req.ip, req.opts)
  BY <1>1, LinkContext
<1>3. PICK b \in BindInfo : b = node[node_ret].val /\ b.ip_addr = req.ip
  BY <1>2, RequestFacts
<1>4. PICK p0 \in Ports : p0 = req.port
  BY <1>2
<1>5. ASSUME NEW p \in Ports
      PROVE  Bindings(p)' = IF p = p0 THEN Insert(Bindings(p), b) ELSE Bindings(p)
  <2>1. Chain(p) \in Seq(Nodes) /\ Bindings(p) = Vals(node, Chain(p)) /\ Bindings(p)' = Vals(node', Chain(p)')
    BY ChainType, BindingsAre
  <2>2. CASE p = p0
    <3>1. Chain(p)' = Into(Chain(p), node_ret) /\ Into(Chain(p), node_ret) \in Seq(Nodes)
      BY <1>1, <1>2, <1>4, <2>1, <2>2, IntoElements
    <3>2. Vals(node', Into(Chain(p), node_ret)) = Vals(node, Into(Chain(p), node_ret))
      BY <1>1, <3>1, ValsSame
    <3>3. Vals(node, Into(Chain(p), node_ret)) = Insert(Vals(node, Chain(p)), b)
      <4>1. PICK c, n : c = Chain(p) /\ n = node_ret
        OBVIOUS
      <4>2. node \in [Nodes -> [prev : NodeOrNull, next : NodeOrNull, val : BindInfo \cup {NULL}]]
        BY DEF Types, MemTypes
      <4>3. c \in Seq(Nodes) /\ n \in Nodes /\ node[n].val = b /\ b \in BindInfo /\ b.ip_addr = req.ip
        BY <1>2, <1>3, <2>1, <4>1
      <4>4. Vals(node, Into(c, n)) = Insert(Vals(node, c), b)
        BY <4>2, <4>3, ValsInto
      <4> QED
        BY <4>1, <4>4
    <3> QED
      BY <2>1, <2>2, <3>1, <3>2, <3>3
  <2>3. CASE p # p0
    BY <1>1, <1>4, <2>1, <2>3, ValsSame
  <2> QED
    BY <2>2, <2>3
<1>6. PICK x : x = Insert(Bindings(p0), b)
  OBVIOUS
<1>7. AllBindings' = [AllBindings EXCEPT ![p0] = x]
  BY <1>5, <1>6, OneBindingChanges
<1>8. AllBindings[p0] = Bindings(p0)
  BY DEF AllBindings
<1>9. Table!Add(p0, b)
  BY <1>6, <1>7, <1>8 DEF Table!Add, Table!Insert, Insert
<1> QED
  BY <1>3, <1>4, <1>9 DEF Table!Next, Table!Ports, Ports, Table!BindInfo, BindInfo, Table!IPs, IPs, Table!Sockets, Sockets

\* list_remove is btable_del_binding: the scan stopped at the first binding of
\* the socket.
LEMMA RemoveDeletes ==
    ASSUME Types, TableInv, Shaped, Apart, AppWalk, Owned, list_remove
    PROVE  Table!Next
<1>0. pc["app"] = "unlink"
  BY AppPc DEF list_remove
<1>1. req \in Requests /\ req.port \in Ports /\ job = "del" /\ req.sockfd \in Sockets
  BY <1>0, WhatIsRemoved, RequestFacts
<1>2. PICK k \in DOMAIN Chain(req.port) :
         /\ curr["app"] = Chain(req.port)[k] /\ Passed(k)
         /\ node[Chain(req.port)[k]].val.sockfd = req.sockfd
  BY <1>0, WhatIsRemoved
<1>3. /\ \A m \in Nodes : node'[m].val = node[m].val
      /\ \A p \in Ports : Chain(p)' = IF p = req.port THEN Without(Chain(p), k) ELSE Chain(p)
  BY <1>2, RemoveStep
<1>4. PICK p0 \in Ports, s \in Sockets : p0 = req.port /\ s = req.sockfd
  BY <1>1
<1>5. First(Bindings(p0), s, k)
  <2>1. Bindings(p0)[k].sockfd = s
    BY <1>2, <1>4 DEF Bindings
  <2>2. \A j \in 1 .. k - 1 : Bindings(p0)[j].sockfd # s
    BY <1>1, <1>2, <1>4 DEF Passed, Test
  <2> QED
    BY <2>1, <2>2 DEF First
<1>6. ASSUME NEW p \in Ports
      PROVE  Bindings(p)' = IF p = p0 THEN Remove(Bindings(p), s) ELSE Bindings(p)
  <2>1. Chain(p) \in Seq(Nodes) /\ Bindings(p) = Vals(node, Chain(p)) /\ Bindings(p)' = Vals(node', Chain(p)')
    BY ChainType, BindingsAre
  <2>2. CASE p = p0
    <3>1. Chain(p)' = Without(Chain(p), k) /\ k \in DOMAIN Chain(p) /\ Without(Chain(p), k) \in Seq(Nodes)
      BY <1>2, <1>3, <1>4, <2>1, <2>2, WithoutElements
    <3>2. Vals(node', Without(Chain(p), k)) = Vals(node, Without(Chain(p), k))
      BY <1>3, <3>1, ValsSame
    <3>3. Vals(node, Without(Chain(p), k)) = Remove(Vals(node, Chain(p)), s)
      <4>1. PICK c : c = Chain(p)
        OBVIOUS
      <4>2. node \in [Nodes -> [prev : NodeOrNull, next : NodeOrNull, val : BindInfo \cup {NULL}]]
        BY DEF Types, MemTypes
      <4>3. c \in Seq(Nodes) /\ k \in DOMAIN c /\ First(Vals(node, c), s, k)
        BY <1>5, <2>1, <2>2, <3>1, <4>1
      <4>4. Vals(node, Without(c, k)) = Remove(Vals(node, c), s)
        BY <4>2, <4>3, ValsWithout
      <4> QED
        BY <4>1, <4>4
    <3> QED
      BY <2>1, <2>2, <3>1, <3>2, <3>3
  <2>3. CASE p # p0
    BY <1>3, <1>4, <2>1, <2>3, ValsSame
  <2> QED
    BY <2>2, <2>3
<1>7. PICK x : x = Remove(Bindings(p0), s)
  OBVIOUS
<1>8. AllBindings' = [AllBindings EXCEPT ![p0] = x]
  BY <1>6, <1>7, OneBindingChanges
<1>9. AllBindings[p0] = Bindings(p0)
  BY DEF AllBindings
<1>10. Table!Del(p0, s)
  BY <1>7, <1>8, <1>9
     DEF Table!Del, Table!Remove, Remove, Table!First, First, Table!Without, Without
<1> QED
  BY <1>4, <1>10 DEF Table!Next, Table!Ports, Ports, Table!Sockets, Sockets

\* The refinement that lets the other modules treat a bind() or a close() as one
\* step: whoever follows the pointers at any instant finds the list of before the
\* call or that of after it (udpdk_list.c, udpdk_bind_table.c).
THEOREM ListsImplementTable == Spec => ImplementsTable
<1>1. LwInit => Table!Init
  <2> SUFFICES ASSUME LwInit PROVE Table!Init
    OBVIOUS
  <2>1. ASSUME NEW p \in Ports PROVE Bindings(p) = <<>>
    <3>1. Chain(p) = <<>>
      BY ChainIs DEF LwInit
    <3> QED
      BY <3>1 DEF Bindings
  <2> QED
    BY <2>1 DEF Table!Init, AllBindings, Table!Ports, Ports
<1>2. LwInv /\ LwInv' /\ [Next]_lw_vars =>
        [AllBindings' # AllBindings /\ ~blind' => Table!Next]_AllBindings
  <2> SUFFICES ASSUME LwInv, LwInv', [Next]_lw_vars, AllBindings' # AllBindings, ~blind'
               PROVE  Table!Next
    OBVIOUS
  <2>1. CASE UNCHANGED lw_vars
    <3>1. UNCHANGED <<sock_bind_table, list, node, node_bits, blind>>
      BY <2>1 DEF lw_vars, lists, nodes, node_pool, history
    <3>2. SameLists
      BY <3>1, NothingWritten, ListsLeft DEF LwInv, ShapeInv
    <3> QED
      BY <3>2 DEF SameLists, AllBindings
  <2>2. CASE Next
    <3>1. blind' = (blind \/ (raced /\ pc["app"] = "unlink" /\ pc'["app"] # "unlink"))
      BY <2>2 DEF Next, Observe
    <3>2. Types /\ Types' /\ TableInv /\ Shaped /\ Apart /\ Allocated /\ Prepared
      BY <3>1 DEF LwInv, ShapeInv, IInv
    <3>3. CASE Links
      BY <3>2, <3>3, LinkAdds
    <3>4. CASE list_remove
      <4>1. pc["app"] = "unlink" /\ pc'["app"] = "destroy"
        BY <3>2, <3>4, AppPc DEF list_remove
      <4>2. AppWalk /\ Owned
        BY <3>1, <4>1 DEF LwInv, ScanInv
      <4> QED
        BY <3>2, <3>4, <4>2, RemoveDeletes
    <3>5. CASE ~Links /\ ~list_remove
      <4>1. SameLists
        BY <2>2, <3>2, <3>5, StepsLeave DEF Next
      <4> QED
        BY <4>1 DEF SameLists, AllBindings
    <3> QED
      BY <3>3, <3>4, <3>5
  <2> QED
    BY <2>1, <2>2
<1> QED
  BY <1>1, <1>2, InitLwInv, NextLwInv, PTL DEF Spec, ImplementsTable
=============================================================================
