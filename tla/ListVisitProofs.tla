--------------------------- MODULE ListVisitProofs ---------------------------
(***************************************************************************)
(* What the walk of the poller visits while bind() and close() change the  *)
(* list under it, for every number of ports, sockets, lists and calls.     *)
(*                                                                         *)
(* Nodes leave the list in the middle of a walk and the poller may be at   *)
(* one of them, so the order of the list at one moment does not say what   *)
(* lies before the poller.  A rank of all nodes the list has had since the *)
(* walk began does: links add a node above or below all others, a removal  *)
(* makes pointers lead past a node, and none ever leads down or past a     *)
(* node that has stayed in the list.                                       *)
(***************************************************************************)
EXTENDS ListWalkProofs

-----------------------------------------------------------------------------
(* Sequences of nodes in the order of a rank.                               *)

Rising(r, c) == \A i, j \in DOMAIN c : i < j => r[c[i]] < r[c[j]]

\* What Only makes of the first i elements.
Keep(c, S, of, i) == IF i = 0 THEN <<>>
                     ELSE IF c[i] \in S THEN Append(of[i - 1], c[i]) ELSE of[i - 1]

KeepsUpTo(c, S, of, m) == of = [i \in 0 .. m |-> Keep(c, S, of, i)]

\* Keep(c, S, f, i) reads f at i - 1 only.
LEMMA SameKeep ==
    ASSUME NEW c, NEW S, NEW f, NEW g, NEW i, i = 0 \/ f[i - 1] = g[i - 1]
    PROVE  Keep(c, S, f, i) = Keep(c, S, g, i)
BY DEF Keep

\* Only is defined for every sequence.
LEMMA KeepsExist ==
    ASSUME NEW c, NEW S, NEW N \in Nat
    PROVE  \E f : KeepsUpTo(c, S, f, N)
<1> DEFINE bad == {m \in 0 .. N : ~\E f : KeepsUpTo(c, S, f, m)}
<1> SUFFICES ASSUME bad # {} PROVE FALSE
  OBVIOUS
<1>1. PICK m \in bad : \A j \in bad : m <= j
  <2>1. bad \in SUBSET Nat
    OBVIOUS
  <2> HIDE DEF bad
  <2> QED
    BY <2>1, Least
<1>2. m \in 0 .. N /\ ~\E f : KeepsUpTo(c, S, f, m)
  BY <1>1
<1>3. m # 0
  <2> DEFINE f == [i \in 0 .. 0 |-> <<>>]
  <2>1. \A i \in 0 .. 0 : Keep(c, S, f, i) = <<>>
    BY DEF Keep
  <2>2. f = [i \in 0 .. 0 |-> Keep(c, S, f, i)]
    BY <2>1
  <2> HIDE DEF f
  <2>3. KeepsUpTo(c, S, f, 0)
    BY <2>2 DEF KeepsUpTo
  <2> QED
    BY <1>2, <2>3
<1>4. PICK g : KeepsUpTo(c, S, g, m - 1)
  <2>1. m - 1 \in 0 .. N /\ ~(m <= m - 1)
    BY <1>2, <1>3
  <2> QED
    BY <1>1, <2>1
<1> DEFINE f == [i \in 0 .. m |-> IF i < m THEN g[i] ELSE Keep(c, S, g, m)]
<1>5. /\ \A i \in 0 .. m - 1 : f[i] = g[i] /\ g[i] = Keep(c, S, g, i)
      /\ f[m] = Keep(c, S, g, m)
  <2>1. \A i \in 0 .. m - 1 : g[i] = Keep(c, S, g, i)
    BY <1>4 DEF KeepsUpTo
  <2> QED
    BY <1>2, <2>1
<1>6. f = [i \in 0 .. m |-> f[i]]
  OBVIOUS
<1> HIDE DEF f
<1>7. ASSUME NEW i \in 0 .. m PROVE f[i] = Keep(c, S, f, i)
  <2>1. i = 0 \/ f[i - 1] = g[i - 1]
    BY <1>2, <1>5
  <2>2. Keep(c, S, f, i) = Keep(c, S, g, i)
    BY <2>1, SameKeep
  <2>3. i = m \/ i \in 0 .. m - 1
    BY <1>2
  <2> QED
    BY <1>5, <2>2, <2>3
<1>8. KeepsUpTo(c, S, f, m)
  BY <1>6, <1>7 DEF KeepsUpTo
<1> QED
  BY <1>2, <1>8

\* Only, as the sequences it makes of the first elements of c.
LEMMA OnlySteps ==
    ASSUME NEW c, Len(c) \in Nat, NEW S
    PROVE  \E of : /\ Only(c, S) = of[Len(c)] /\ of[0] = <<>>
                   /\ \A i \in 1 .. Len(c) :
                        of[i] = IF c[i] \in S THEN Append(of[i - 1], c[i]) ELSE of[i - 1]
<1> DEFINE of == CHOOSE f : KeepsUpTo(c, S, f, Len(c))
<1>1. KeepsUpTo(c, S, of, Len(c))
  BY KeepsExist
<1>2. Only(c, S) = of[Len(c)]
  BY DEF Only, KeepsUpTo, Keep
<1> HIDE DEF of
<1>3. \A i \in 0 .. Len(c) : of[i] = Keep(c, S, of, i)
  BY <1>1 DEF KeepsUpTo
<1>4. of[0] = <<>>
  BY <1>3 DEF Keep
<1>5. \A i \in 1 .. Len(c) : of[i] = IF c[i] \in S THEN Append(of[i - 1], c[i]) ELSE of[i - 1]
  BY <1>3 DEF Keep
<1> QED
  BY <1>2, <1>4, <1>5

\* Only keeps the elements of S, in their order.
LEMMA OnlyIs ==
    ASSUME NEW c \in Seq(Nodes), NEW S, NEW r \in [Nodes -> Int], Rising(r, c)
    PROVE  /\ Only(c, S) \in Seq(Nodes) /\ Rising(r, Only(c, S))
           /\ Range(Only(c, S)) = Range(c) \cap S
<1>1. Len(c) \in Nat /\ DOMAIN c = 1 .. Len(c) /\ \A i \in 1 .. Len(c) : c[i] \in Nodes
  OBVIOUS
<1>2. PICK of : /\ Only(c, S) = of[Len(c)] /\ of[0] = <<>>
                /\ \A i \in 1 .. Len(c) :
                     of[i] = IF c[i] \in S THEN Append(of[i - 1], c[i]) ELSE of[i - 1]
  BY <1>1, OnlySteps
<1> DEFINE Kept(i) == /\ of[i] \in Seq(Nodes) /\ Rising(r, of[i])
                      /\ Range(of[i]) = {c[j] : j \in 1 .. i} \cap S
           bad == {i \in 0 .. Len(c) : ~Kept(i)}
<1> HIDE DEF Kept
<1>3. bad = {}
  <2> SUFFICES ASSUME bad # {} PROVE FALSE
    OBVIOUS
  <2>1. PICK m \in bad : \A j \in bad : m <= j
    <3>1. bad \in SUBSET Nat
      BY <1>1
    <3> HIDE DEF bad
    <3> QED
      BY <3>1, Least
  <2>2. Kept(0)
    <3>1. of[0] \in Seq(Nodes) /\ DOMAIN of[0] = {}
      BY <1>2
    <3> QED
      BY <3>1 DEF Rising, Range, Kept
  <2>3. m \in 1 .. Len(c) /\ ~Kept(m) /\ m - 1 \in 0 .. Len(c) /\ ~(m <= m - 1)
    <3>1. m \in 0 .. Len(c) /\ ~Kept(m) /\ m # 0
      BY <2>1, <2>2
    <3> QED
      BY <1>1, <3>1
  <2>4. Kept(m - 1)
    BY <2>1, <2>3
  <2>5. PICK d, e, n : d = of[m - 1] /\ e = of[m] /\ n = c[m]
    OBVIOUS
  <2>6. d \in Seq(Nodes) /\ Rising(r, d) /\ Range(d) = {c[j] : j \in 1 .. m - 1} \cap S /\ n \in Nodes
    BY <1>1, <2>3, <2>4, <2>5 DEF Kept
  <2>7. {c[j] : j \in 1 .. m} = {c[j] : j \in 1 .. m - 1} \cup {n}
    BY <2>3, <2>5
  <2>8. CASE n \in S
    <3>1. e = Append(d, n)
      BY <1>2, <2>3, <2>5, <2>8
    <3>2. /\ e \in Seq(Nodes) /\ Len(d) \in Nat /\ DOMAIN d = 1 .. Len(d) /\ DOMAIN e = 1 .. Len(d) + 1
          /\ e[Len(d) + 1] = n /\ \A i \in 1 .. Len(d) : e[i] = d[i] /\ d[i] \in Nodes
      BY <2>6, <3>1, AppendElements
    <3>3. Range(e) = Range(d) \cup {n}
      <4>1. \A k \in 1 .. Len(d) + 1 : k = Len(d) + 1 \/ k \in 1 .. Len(d)
        BY <3>2
      <4>2. \A k \in 1 .. Len(d) : k \in 1 .. Len(d) + 1
        BY <3>2
      <4>3. Len(d) + 1 \in 1 .. Len(d) + 1
        BY <3>2
      <4> QED
        BY <3>2, <4>1, <4>2, <4>3 DEF Range
    <3>4. ASSUME NEW i \in 1 .. Len(d) + 1, NEW j \in 1 .. Len(d) + 1, i < j
          PROVE  r[e[i]] < r[e[j]]
      <4>0. i \in 1 .. Len(d)
        BY <3>2, <3>4
      <4>1. i \in 1 .. Len(d) /\ e[i] = d[i]
        BY <3>2, <4>0
      <4>2. CASE j \in 1 .. Len(d)
        BY <2>6, <3>2, <3>4, <4>1, <4>2 DEF Rising
      <4>3. CASE j = Len(d) + 1
        <5>1. d[i] \in Range(d)
          BY <3>2, <4>1, RangeFacts
        <5>2. PICK k \in 1 .. m - 1 : d[i] = c[k]
          BY <2>6, <5>1
        <5>3. k < m /\ k \in DOMAIN c /\ m \in DOMAIN c
          BY <1>1, <2>3
        <5>4. r[c[k]] < r[c[m]]
          BY <5>2, <5>3 DEF Rising
        <5>5. e[i] = c[k] /\ e[j] = c[m]
          BY <2>5, <3>2, <4>1, <4>3, <5>2
        <5> QED
          BY <5>4, <5>5
      <4> QED
        BY <3>2, <4>2, <4>3
    <3>5. Rising(r, e)
      BY <3>2, <3>4 DEF Rising
    <3> QED
      BY <2>3, <2>5, <2>6, <2>7, <2>8, <3>2, <3>3, <3>5 DEF Kept
  <2>9. CASE n \notin S
    <3>1. e = d
      BY <1>2, <2>3, <2>5, <2>9
    <3> QED
      BY <2>3, <2>5, <2>6, <2>7, <2>9, <3>1 DEF Kept
  <2> QED
    BY <2>8, <2>9
<1>4. Kept(Len(c))
  <2>1. Len(c) \in 0 .. Len(c)
    BY <1>1
  <2> QED
    BY <1>3, <2>1
<1>5. Range(c) = {c[j] : j \in 1 .. Len(c)}
  BY <1>1 DEF Range
<1> QED
  BY <1>2, <1>4, <1>5 DEF Kept

\* Two sequences of the same nodes, each in the order of a rank, are the same.
LEMMA SameOrder ==
    ASSUME NEW c \in Seq(Nodes), NEW d \in Seq(Nodes), NEW r \in [Nodes -> Int],
           Rising(r, c), Rising(r, d), Range(c) = Range(d)
    PROVE  c = d
<1>1. /\ Len(c) \in Nat /\ DOMAIN c = 1 .. Len(c) /\ \A i \in 1 .. Len(c) : c[i] \in Nodes
      /\ Len(d) \in Nat /\ DOMAIN d = 1 .. Len(d) /\ \A i \in 1 .. Len(d) : d[i] \in Nodes
  OBVIOUS
<1> DEFINE Agree(i) == i <= Len(c) /\ i <= Len(d) /\ c[i] = d[i]
           bad == {i \in Nat : i \in (1 .. Len(c)) \cup (1 .. Len(d)) /\ ~Agree(i)}
<1>2. bad = {}
  <2> SUFFICES ASSUME bad # {} PROVE FALSE
    OBVIOUS
  <2>1. PICK m \in bad : \A j \in bad : m <= j
    <3>1. bad \in SUBSET Nat
      OBVIOUS
    <3> HIDE DEF bad
    <3> QED
      BY <3>1, Least
  <2>2. /\ m \in Nat /\ 1 <= m /\ (m <= Len(c) \/ m <= Len(d)) /\ ~Agree(m)
    BY <1>1, <2>1
  <2>3. \A j \in Nat : 1 <= j /\ j < m => Agree(j)
    <3> SUFFICES ASSUME NEW j \in Nat, 1 <= j, j < m PROVE Agree(j)
      OBVIOUS
    <3>1. ~(m <= j) /\ j \notin bad
      BY <2>1, <2>2
    <3>2. j \in (1 .. Len(c)) \cup (1 .. Len(d))
      BY <1>1, <2>2
    <3> QED
      BY <3>1, <3>2
  <2> HIDE DEF bad
  <2>4. /\ \A i, j \in 1 .. Len(c) : i < j => r[c[i]] < r[c[j]]
        /\ \A i, j \in 1 .. Len(d) : i < j => r[d[i]] < r[d[j]]
        /\ \A i \in 1 .. Len(c) : r[c[i]] \in Int
        /\ \A i \in 1 .. Len(d) : r[d[i]] \in Int
    BY <1>1 DEF Rising
  <2>5. /\ \A i \in 1 .. Len(c) : \E j \in 1 .. Len(d) : c[i] = d[j]
        /\ \A i \in 1 .. Len(d) : \E j \in 1 .. Len(c) : d[i] = c[j]
    <3>1. ASSUME NEW i \in 1 .. Len(c) PROVE \E j \in 1 .. Len(d) : c[i] = d[j]
      <4>1. c[i] \in Range(d)
        BY <1>1, RangeFacts
      <4> QED
        BY <1>1, <4>1, RangeFacts
    <3>2. ASSUME NEW i \in 1 .. Len(d) PROVE \E j \in 1 .. Len(c) : d[i] = c[j]
      <4>1. d[i] \in Range(c)
        BY <1>1, RangeFacts
      <4> QED
        BY <1>1, <4>1, RangeFacts
    <3> QED
      BY <3>1, <3>2
  <2>6. CASE m <= Len(c)
    <3>1. m \in 1 .. Len(c)
      BY <1>1, <2>2, <2>6
    <3>2. PICK j \in 1 .. Len(d) : c[m] = d[j]
      BY <2>5, <3>1
    <3>3. ~(j < m)
      <4> SUFFICES ASSUME j < m PROVE FALSE
        OBVIOUS
      <4>1. j \in 1 .. Len(c) /\ c[j] = d[j]
        BY <1>1, <2>2, <2>3, <3>2
      <4> QED
        BY <2>4, <3>1, <3>2, <4>1
    <3>4. m \in 1 .. Len(d) /\ m < j
      BY <1>1, <2>2, <3>1, <3>2, <3>3
    <3>5. PICK k \in 1 .. Len(c) : d[m] = c[k]
      BY <2>5, <3>4
    <3>6. r[d[m]] < r[c[m]]
      BY <2>4, <3>2, <3>4
    <3>7. ~(k < m)
      <4> SUFFICES ASSUME k < m PROVE FALSE
        OBVIOUS
      <4>1. k \in 1 .. Len(d) /\ c[k] = d[k]
        BY <1>1, <2>2, <2>3, <3>5
      <4>2. r[d[k]] < r[d[m]]
        BY <2>4, <3>4, <4>1
      <4> QED
        BY <2>4, <3>4, <3>5, <4>1, <4>2
    <3>8. k = m \/ m < k
      BY <1>1, <3>1, <3>5, <3>7
    <3> QED
      BY <2>4, <3>1, <3>4, <3>5, <3>6, <3>8
  <2>7. CASE ~(m <= Len(c))
    <3>1. m \in 1 .. Len(d)
      BY <1>1, <2>2, <2>7
    <3>2. PICK k \in 1 .. Len(c) : d[m] = c[k]
      BY <2>5, <3>1
    <3>3. k < m /\ k \in 1 .. Len(d) /\ c[k] = d[k]
      BY <1>1, <2>2, <2>3, <2>7, <3>2
    <3> QED
      BY <2>4, <3>1, <3>2, <3>3
  <2> QED
    BY <2>6, <2>7
<1>3. ASSUME NEW i \in (1 .. Len(c)) \cup (1 .. Len(d)) PROVE i <= Len(c) /\ i <= Len(d) /\ c[i] = d[i]
  <2>1. i \in Nat
    BY <1>1
  <2>2. i \notin bad
    BY <1>2
  <2> QED
    BY <2>1, <2>2
<1>4. Len(c) = Len(d)
  <2>1. Len(c) # 0 => Len(c) \in 1 .. Len(c)
    BY <1>1
  <2>2. Len(d) # 0 => Len(d) \in 1 .. Len(d)
    BY <1>1
  <2>3. Len(c) # 0 => Len(c) <= Len(d)
    BY <1>3, <2>1
  <2>4. Len(d) # 0 => Len(d) <= Len(c)
    BY <1>3, <2>2
  <2>5. PICK k, l : k = Len(c) /\ l = Len(d)
    OBVIOUS
  <2>6. k \in Nat /\ l \in Nat /\ (k # 0 => k <= l) /\ (l # 0 => l <= k)
    BY <1>1, <2>3, <2>4, <2>5
  <2>7. k = l
    BY <2>6
  <2> QED
    BY <2>5, <2>7
<1> QED
  BY <1>1, <1>3, <1>4

\* What stays of a walk c, if it has seen all that lies before what it has seen,
\* is a prefix of what stays.
LEMMA OnlyPrefix ==
    ASSUME NEW c \in Seq(Nodes), NEW s \in Seq(Nodes), NEW r \in [Nodes -> Int],
           Rising(r, c), Rising(r, s),
           \A i \in DOMAIN c : \A m \in Range(s) : r[m] <= r[c[i]] => m \in Range(c)
    PROVE  /\ \E k \in 0 .. Len(s) : Only(c, Range(s)) = SubSeq(s, 1, k)
           /\ Range(s) \subseteq Range(c) => Only(c, Range(s)) = s
<1>1. /\ Len(s) \in Nat /\ DOMAIN s = 1 .. Len(s) /\ \A i \in 1 .. Len(s) : s[i] \in Nodes
      /\ \A i, j \in 1 .. Len(s) : i < j => r[s[i]] < r[s[j]]
  <2>1. Len(s) \in Nat /\ DOMAIN s = 1 .. Len(s) /\ \A i \in 1 .. Len(s) : s[i] \in Nodes
    OBVIOUS
  <2> QED
    BY <2>1 DEF Rising
<1>2. PICK o : o = Only(c, Range(s))
  OBVIOUS
<1>3. o \in Seq(Nodes) /\ Rising(r, o) /\ Range(o) = Range(c) \cap Range(s)
  BY <1>2, OnlyIs
<1>4. ASSUME Range(s) \subseteq Range(c) PROVE o = s
  <2>1. Range(o) = Range(s)
    BY <1>3, <1>4
  <2> QED
    BY <1>3, <2>1, SameOrder
<1>5. \E k \in 0 .. Len(s) : o = SubSeq(s, 1, k)
  <2> DEFINE missed == {i \in Nat : i \in 1 .. Len(s) /\ s[i] \notin Range(c)}
  <2>1. CASE missed = {}
    <3>1. ASSUME NEW i \in 1 .. Len(s) PROVE s[i] \in Range(c)
      <4>1. i \in Nat
        BY <1>1
      <4>2. i \notin missed
        BY <2>1
      <4> QED
        BY <4>1, <4>2
    <3>2. Range(s) \subseteq Range(c)
      BY <1>1, <3>1, RangeFacts
    <3>3. SubSeq(s, 1, Len(s)) = s
      BY SubSeqFull
    <3>4. Len(s) \in 0 .. Len(s)
      BY <1>1
    <3> QED
      BY <1>4, <3>2, <3>3, <3>4
  <2>2. CASE missed # {}
    <3>1. PICK f \in missed : \A j \in missed : f <= j
      <4>1. missed \in SUBSET Nat
        OBVIOUS
      <4> HIDE DEF missed
      <4> QED
        BY <2>2, <4>1, Least
    <3>2. f \in 1 .. Len(s) /\ s[f] \notin Range(c) /\ f \in Nat
      BY <3>1
    <3>3. ASSUME NEW i \in 1 .. Len(s) PROVE s[i] \in Range(c) <=> i < f
      <4>1. CASE i < f
        <5>1. i \in Nat /\ ~(f <= i)
          BY <1>1, <3>2, <4>1
        <5>2. i \notin missed
          BY <3>1, <5>1
        <5> QED
          BY <4>1, <5>1, <5>2
      <4>2. CASE ~(i < f)
        <5>1. f = i \/ f < i
          BY <1>1, <3>2, <4>2
        <5>2. r[s[f]] <= r[s[i]]
          <6>1. r[s[i]] \in Int /\ r[s[f]] \in Int
            BY <1>1, <3>2
          <6> QED
            BY <1>1, <3>2, <5>1, <6>1
        <5>3. s[f] \in Range(s)
          BY <1>1, <3>2, RangeFacts
        <5>4. s[i] \notin Range(c)
          BY <3>2, <5>2, <5>3, RangeFacts
        <5> QED
          BY <4>2, <5>4
      <4> QED
        BY <4>1, <4>2
    <3>4. PICK k : k = f - 1
      OBVIOUS
    <3>5. k \in 0 .. Len(s)
      BY <1>1, <3>2, <3>4
    <3>6. PICK p : p = SubSeq(s, 1, k)
      OBVIOUS
    <3>7. /\ p \in Seq(Nodes) /\ DOMAIN p = 1 .. k /\ \A i \in 1 .. k : p[i] = s[i]
      BY <1>1, <3>5, <3>6, SubSeqProperties
    <3>8. \A i \in 1 .. k : i \in 1 .. Len(s) /\ i < f
      BY <1>1, <3>2, <3>4
    <3>9. Rising(r, p)
      BY <1>1, <3>7, <3>8 DEF Rising
    <3>10. Range(p) = Range(o)
      <4>1. ASSUME NEW n \in Range(p) PROVE n \in Range(o)
        <5>0. PICK i \in DOMAIN p : n = p[i]
          BY RangeFacts
        <5>1. i \in 1 .. k /\ n = s[i]
          BY <3>7, <5>0
        <5> QED
          BY <1>1, <1>3, <3>3, <3>8, <5>1, RangeFacts
      <4>2. ASSUME NEW n \in Range(o) PROVE n \in Range(p)
        <5>0. PICK i \in DOMAIN s : n = s[i]
          BY <1>3, RangeFacts
        <5>1. i \in 1 .. Len(s) /\ n = s[i] /\ i < f
          BY <1>1, <1>3, <3>3, <5>0
        <5>2. i \in 1 .. k
          BY <1>1, <3>2, <3>4, <5>1
        <5> QED
          BY <3>7, <5>1, <5>2, RangeFacts
      <4> QED
        BY <4>1, <4>2
    <3>11. o = p
      BY <1>3, <3>7, <3>9, <3>10, SameOrder
    <3> QED
      BY <3>5, <3>6, <3>11
  <2> QED
    BY <2>1, <2>2
<1> QED
  BY <1>2, <1>4, <1>5

\* A rising sequence has no node twice.
LEMMA RisingInjective ==
    ASSUME NEW c \in Seq(Nodes), NEW r \in [Nodes -> Int], Rising(r, c)
    PROVE  \A i, j \in DOMAIN c : c[i] = c[j] => i = j
<1>1. /\ DOMAIN c = 1 .. Len(c) /\ Len(c) \in Nat
      /\ \A i \in 1 .. Len(c) : c[i] \in Nodes /\ r[c[i]] \in Int
  OBVIOUS
<1> SUFFICES ASSUME NEW i \in DOMAIN c, NEW j \in DOMAIN c, c[i] = c[j] PROVE i = j
  OBVIOUS
<1>2. ~(i < j) /\ ~(j < i)
  BY <1>1 DEF Rising
<1> QED
  BY <1>1, <1>2

-----------------------------------------------------------------------------
(* The nodes of a walk.  O is the nodes that have been in the list since it *)
(* began and S those that have been there all the time.  A rank r orders    *)
(* them: every pointer goes up, past none of S.                             *)

\* From c a walk comes to m.
Leads(r, c, m) == c # NULL /\ r[c] <= r[m]

Follows(O, S, r, n, z) ==
    /\ z \in O \cup {NULL} /\ (z # NULL => r[n] < r[z])
    /\ \A m \in S : r[n] < r[m] => Leads(r, z, m)

Ranked(O, nd, h, S, r, lo, hi) ==
    /\ r \in [Nodes -> Int] /\ lo \in Int /\ hi \in Int /\ lo < hi
    /\ O \subseteq Nodes /\ S \subseteq O
    /\ \A n \in O : lo < r[n] /\ r[n] < hi
    /\ \A n, m \in O : r[n] = r[m] => n = m
    /\ h \in O \cup {NULL} /\ \A m \in S : Leads(r, h, m)
    /\ \A n \in O : Follows(O, S, r, n, nd[n].next)

\* Another rank, which orders the nodes of O as r does.
Reranked(O, O2, nd, h, S, r) ==
    \E r2, lo, hi : Ranked(O2, nd, h, S, r2, lo, hi) /\ \A n \in O : r2[n] = r[n]

\* Fewer nodes stay, and no pointer is written.
LEMMA RankedSame ==
    ASSUME NEW O, NEW nd, NEW nd2, NEW h, NEW S, NEW S2, NEW r, NEW lo, NEW hi,
           Ranked(O, nd, h, S, r, lo, hi), S2 \subseteq S,
           \A n \in O : nd2[n].next = nd[n].next
    PROVE  Ranked(O, nd2, h, S2, r, lo, hi)
BY DEF Ranked, Follows

\* A node that comes before all others.
LEMMA RankedFront ==
    ASSUME NEW O, NEW nd, NEW nd2, NEW h, NEW h2, NEW S, NEW r, NEW lo, NEW hi,
           Ranked(O, nd, h, S, r, lo, hi), NEW n0 \in Nodes, n0 \notin O,
           nd2[n0].next \in O \cup {NULL}, \A m \in S : Leads(r, nd2[n0].next, m),
           \A n \in O : nd2[n].next = nd[n].next,
           h2 = h \/ h2 = n0
    PROVE  Reranked(O, O \cup {n0}, nd2, h2, S, r)
<1>0. /\ r \in [Nodes -> Int] /\ lo \in Int /\ hi \in Int /\ lo < hi
      /\ O \subseteq Nodes /\ S \subseteq O
      /\ \A n \in O : lo < r[n] /\ r[n] < hi
      /\ h \in O \cup {NULL} /\ \A n \in Nodes : r[n] \in Int
  BY DEF Ranked
<1>1. PICK r2 : r2 = [r EXCEPT ![n0] = lo]
  OBVIOUS
<1>2. /\ r2 \in [Nodes -> Int] /\ r2[n0] \in Int /\ \A n \in O : r2[n] = r[n]
      /\ r2[n0] = lo
  BY <1>0, <1>1
<1>3. PICK lo2 : lo2 = lo - 1
  OBVIOUS
<1>4. NULL \notin Nodes
  BY NullAssumption, NumSocketsAssumption DEF Nodes
<1>5. \A n \in O : lo2 < r2[n] /\ r2[n] < hi /\ r2[n0] < r2[n]
  BY <1>0, <1>2, <1>3
<1>6. \A n, m \in O \cup {n0} : r2[n] = r2[m] => n = m
  <2>1. \A n, m \in O : r2[n] = r2[m] => n = m
    BY <1>2 DEF Ranked
  <2>2. \A n \in O : r2[n] # r2[n0]
    BY <1>0, <1>2, <1>5
  <2> QED
    BY <2>1, <2>2
<1>7. \A m \in S : \A c \in O \cup {NULL} : Leads(r2, c, m) <=> Leads(r, c, m)
  BY <1>0, <1>2, <1>4 DEF Leads
<1>8. \A m \in S : Leads(r2, h2, m)
  <2>1. CASE h2 = h
    BY <1>0, <1>7, <2>1 DEF Ranked
  <2>2. CASE h2 = n0
    <3>1. \A m \in S : r2[n0] < r2[m] /\ r2[m] \in Int
      BY <1>0, <1>2, <1>5
    <3> QED
      BY <1>2, <1>4, <2>2, <3>1 DEF Leads
  <2> QED
    BY <2>1, <2>2
<1>9. ASSUME NEW n \in O PROVE Follows(O \cup {n0}, S, r2, n, nd2[n].next)
  <2>1. Follows(O, S, r, n, nd2[n].next)
    BY DEF Ranked
  <2>2. PICK z \in O \cup {NULL} : z = nd2[n].next
    BY <2>1 DEF Follows
  <2>3. z # NULL => r2[n] < r2[z]
    BY <1>2, <2>1, <2>2 DEF Follows
  <2>4. \A m \in S : r2[n] < r2[m] => Leads(r2, z, m)
    BY <1>0, <1>2, <1>7, <2>1, <2>2 DEF Follows
  <2> QED
    BY <2>2, <2>3, <2>4 DEF Follows
<1>10. Follows(O \cup {n0}, S, r2, n0, nd2[n0].next)
  <2>1. nd2[n0].next # NULL => r2[n0] < r2[nd2[n0].next]
    BY <1>5
  <2>2. \A m \in S : Leads(r2, nd2[n0].next, m)
    BY <1>7
  <2> QED
    BY <2>1, <2>2 DEF Follows
<1>11. Ranked(O \cup {n0}, nd2, h2, S, r2, lo2, hi)
  <2>1. lo2 \in Int /\ lo2 < r2[n0] /\ r2[n0] < hi /\ lo2 < hi
    BY <1>0, <1>2, <1>3
  <2> QED
    BY <1>0, <1>2, <1>5, <1>6, <1>8, <1>9, <1>10, <2>1 DEF Ranked
<1> QED
  BY <1>2, <1>11 DEF Reranked

\* A node that comes after all others.
LEMMA RankedBack ==
    ASSUME NEW O, NEW nd, NEW nd2, NEW h, NEW S, NEW r, NEW lo, NEW hi,
           Ranked(O, nd, h, S, r, lo, hi), NEW n0 \in Nodes, n0 \notin O,
           NEW t \in O, nd[t].next = NULL, nd2[t].next = n0, nd2[n0].next = NULL,
           \A n \in O : n # t => nd2[n].next = nd[n].next
    PROVE  Reranked(O, O \cup {n0}, nd2, h, S, r)
<1>0. /\ r \in [Nodes -> Int] /\ lo \in Int /\ hi \in Int /\ lo < hi
      /\ O \subseteq Nodes /\ S \subseteq O
      /\ \A n \in O : lo < r[n] /\ r[n] < hi
      /\ h \in O \cup {NULL} /\ \A n \in Nodes : r[n] \in Int
  BY DEF Ranked
<1>1. PICK r2, hi2 : r2 = [r EXCEPT ![n0] = hi] /\ hi2 = hi + 1
  OBVIOUS
<1>2. /\ r2 \in [Nodes -> Int] /\ r2[n0] = hi /\ \A n \in O : r2[n] = r[n]
  BY <1>0, <1>1
<1>4. NULL \notin Nodes
  BY NullAssumption, NumSocketsAssumption DEF Nodes
<1>5. \A n \in O : lo < r2[n] /\ r2[n] < hi2 /\ r2[n] < r2[n0]
  BY <1>0, <1>1, <1>2
<1>6. \A n, m \in O \cup {n0} : r2[n] = r2[m] => n = m
  <2>1. \A n, m \in O : r2[n] = r2[m] => n = m
    BY <1>2 DEF Ranked
  <2>2. \A n \in O : r2[n] # r2[n0]
    BY <1>0, <1>2, <1>5
  <2> QED
    BY <2>1, <2>2
<1>7. \A m \in S : \A c \in O \cup {NULL} : Leads(r2, c, m) <=> Leads(r, c, m)
  BY <1>0, <1>2, <1>4 DEF Leads
<1>8. \A m \in S : Leads(r2, h, m)
  BY <1>0, <1>7 DEF Ranked
<1>9. ASSUME NEW n \in O, n # t PROVE Follows(O \cup {n0}, S, r2, n, nd2[n].next)
  <2>1. Follows(O, S, r, n, nd2[n].next)
    BY <1>9 DEF Ranked
  <2>2. PICK z \in O \cup {NULL} : z = nd2[n].next
    BY <2>1 DEF Follows
  <2>3. z # NULL => r2[n] < r2[z]
    BY <1>2, <2>1, <2>2 DEF Follows
  <2>4. \A m \in S : r2[n] < r2[m] => Leads(r2, z, m)
    BY <1>0, <1>2, <1>7, <2>1, <2>2 DEF Follows
  <2> QED
    BY <2>2, <2>3, <2>4 DEF Follows
<1>10. Follows(O \cup {n0}, S, r2, n0, NULL)
  <2>1. \A m \in S : ~(r2[n0] < r2[m])
    BY <1>0, <1>2, <1>5
  <2> QED
    BY <2>1 DEF Follows
<1>11. Follows(O \cup {n0}, S, r2, t, n0)
  <2>1. Follows(O, S, r, t, NULL)
    BY DEF Ranked
  <2>2. \A m \in S : ~(r2[t] < r2[m])
    BY <1>0, <1>2, <2>1 DEF Follows, Leads
  <2> QED
    BY <1>5, <2>2 DEF Follows
<1>12. \A n \in O \cup {n0} : Follows(O \cup {n0}, S, r2, n, nd2[n].next)
  BY <1>9, <1>10, <1>11
<1>13. Ranked(O \cup {n0}, nd2, h, S, r2, lo, hi2)
  <2>1. hi2 \in Int /\ lo < hi2 /\ lo < r2[n0] /\ r2[n0] < hi2
    BY <1>0, <1>1, <1>2
  <2> QED
    BY <1>0, <1>2, <1>5, <1>6, <1>8, <1>12, <2>1 DEF Ranked
<1> QED
  BY <1>2, <1>13 DEF Reranked

\* A node that is bypassed does not stay.
LEMMA RankedBypass ==
    ASSUME NEW O, NEW nd, NEW nd2, NEW h, NEW h2, NEW S, NEW S2, NEW r, NEW lo, NEW hi,
           Ranked(O, nd, h, S, r, lo, hi), NEW i \in O, S2 \subseteq S \ {i},
           \A n \in O : nd2[n].next = nd[n].next \/ (nd[n].next = i /\ nd2[n].next = nd[i].next),
           h2 = h \/ (h = i /\ h2 = nd[i].next)
    PROVE  Ranked(O, nd2, h2, S2, r, lo, hi)
<1>0. /\ r \in [Nodes -> Int] /\ O \subseteq Nodes /\ S \subseteq O /\ i \in Nodes
      /\ \A n \in Nodes : r[n] \in Int
      /\ \A n, m \in O : r[n] = r[m] => n = m
  BY DEF Ranked
<1>1. NULL \notin Nodes
  BY NullAssumption, NumSocketsAssumption DEF Nodes
<1>2. PICK z : z = nd[i].next
  OBVIOUS
<1>3. Follows(O, S, r, i, z) /\ z \in O \cup {NULL}
  BY <1>2 DEF Ranked, Follows
<1>4. ASSUME NEW m \in S2, Leads(r, i, m) PROVE Leads(r, z, m)
  <2>1. m \in O /\ m # i /\ r[m] # r[i] /\ r[i] <= r[m]
    BY <1>0, <1>4 DEF Leads
  <2>2. r[i] < r[m]
    BY <1>0, <2>1
  <2> QED
    BY <1>3, <2>2 DEF Follows
<1>5. ASSUME NEW n \in O PROVE Follows(O, S2, r, n, nd2[n].next)
  <2>1. Follows(O, S, r, n, nd[n].next)
    BY DEF Ranked
  <2>2. CASE nd2[n].next = nd[n].next
    BY <2>1, <2>2 DEF Follows
  <2>3. CASE nd[n].next = i /\ nd2[n].next = z
    <3>1. r[n] < r[i] /\ \A m \in S : r[n] < r[m] => Leads(r, i, m)
      BY <1>0, <1>1, <2>1, <2>3 DEF Follows
    <3>2. z # NULL => r[n] < r[z]
      BY <1>0, <1>3, <3>1 DEF Follows
    <3> QED
      BY <1>3, <1>4, <2>3, <3>1, <3>2 DEF Follows
  <2> QED
    BY <1>2, <2>2, <2>3
<1>6. h2 \in O \cup {NULL} /\ \A m \in S2 : Leads(r, h2, m)
  BY <1>2, <1>3, <1>4 DEF Ranked
<1> QED
  BY <1>5, <1>6 DEF Ranked

\* What the poller sees of its list: the nodes of own that are not in the list
\* any more are not allocated either, and the list may be gone.
Fresh ==
    /\ packet.port \in Ports /\ own \subseteq Nodes
    /\ stay \in Seq(Nodes) /\ visited \in Seq(Nodes)
    /\ Range(Chain(packet.port)) \subseteq own
    /\ Range(stay) \subseteq Range(Chain(packet.port))
    /\ \A n \in own : n \in Range(Chain(packet.port)) \/ n \notin node_bits
    /\ \A n \in own \ node_bits : <<"node", n>> \in freed
    /\ packet.list \notin list_bits => <<"list", packet.list>> \in freed
    /\ \/ sock_bind_table[packet.port] = packet.list
       \/ packet.list \notin list_bits /\ Range(stay) = {}

\* The poller has yet to come to c: all it visited is before c, and all that
\* stays and was not visited is at c or after it.
Ahead(r, c) ==
    /\ c \in own \cup {NULL}
    /\ \A v \in Range(visited) : c # NULL => r[v] < r[c]
    /\ \A m \in Range(stay) : m \in Range(visited) \/ Leads(r, c, m)

Seen(r) ==
    /\ Range(visited) \subseteq own /\ Rising(r, visited)
    /\ \A v \in Range(visited), m \in Range(stay) : r[m] <= r[v] => m \in Range(visited)
    /\ pc["poller"] \in {"iter_new", "iter_alloc"} => visited = <<>>
    /\ pc["poller"] \in {"iter_alloc", "advance", "visit"} => Ahead(r, curr["poller"])
    /\ pc["poller"] = "next" => Ahead(r, iter["poller"])
    /\ pc["poller"] = "visit" =>
         /\ curr["poller"] \in own
         /\ Follows(own, Range(stay), r, curr["poller"], iter["poller"])
    /\ pc["poller"] = "destroy" /\ curr["poller"] = NULL => Range(stay) \subseteq Range(visited)

RankedWalk(r, lo, hi) ==
    /\ Ranked(own, node, list[packet.list].head, Range(stay), r, lo, hi)
    /\ Rising(r, stay)

\* The list that close() is about to take out of the table is free.
Unlisted == pc["app"] = "unpublish" => sock_bind_table[req.port] \notin list_bits

\* While neither the iterators have raced nor freed memory was used again, a walk
\* has a rank, and what was visited and is ahead agrees with it.
WatchInv ==
    /\ Unlisted /\ (pc["poller"] = "idle" => visited = <<>> /\ stay = <<>>)
    /\ pc["poller"] # "idle" /\ ~raced /\ ~reused =>
         Fresh /\ \E r, lo, hi : RankedWalk(r, lo, hi) /\ Seen(r)

\* What Observe records of a step of the walk of port p.
LEMMA WalkObserved ==
    ASSUME Observe, pc["poller"] # "idle", pc'["poller"] # "idle", packet' = packet,
           NEW p, p = packet.port, ~reused'
    PROVE  /\ own' = own \cup Range(Chain(p)') /\ stay' = Only(stay, Range(Chain(p)'))
           /\ \A n \in node_bits \ node_bits' : <<"node", n>> \in freed'
           /\ \A l \in list_bits \ list_bits' : <<"list", l>> \in freed'
           /\ freed \subseteq freed' /\ ~reused
           /\ \A n \in node_bits' \ node_bits : <<"node", n>> \notin freed
           /\ \A l \in list_bits' \ list_bits : <<"list", l>> \notin freed
           /\ visited' = IF pc["poller"] = "visit" /\ pc'["poller"] # "visit"
                            /\ Len(visited) < MaxVisits
                         THEN Append(visited, curr["poller"]) ELSE visited
<1>0. Chain(packet.port)' = Chain(p)'
  OBVIOUS
<1>1. PICK now, taken :
         /\ now = Chain(p)'
         /\ taken = Elements(node_bits' \ node_bits, list_bits' \ list_bits)
  OBVIOUS
<1>2. /\ own' = own \cup Range(now) /\ stay' = Only(stay, Range(now))
      /\ freed' = freed \cup Elements(node_bits \ node_bits', list_bits \ list_bits')
      /\ reused' = (reused \/ taken \cap freed # {})
      /\ visited' = IF pc["poller"] = "visit" /\ pc'["poller"] # "visit"
                       /\ Len(visited) < MaxVisits
                    THEN Append(visited, curr["poller"]) ELSE visited
  BY <1>0, <1>1 DEF Observe
<1>3. taken \cap freed = {} /\ ~reused
  BY <1>2
<1> QED
  BY <1>1, <1>2, <1>3 DEF Elements

\* The walk is where it was when the application makes a step.
LEMMA SeenKept ==
    ASSUME NEW r, NEW r2, Seen(r), \A n \in own : r2[n] = r[n], NULL \notin own,
           Range(stay) \subseteq own, own \subseteq own', Range(stay') \subseteq Range(stay),
           visited' = visited, visited \in Seq(Nodes),
           pc'["poller"] = pc["poller"], curr'["poller"] = curr["poller"],
           iter'["poller"] = iter["poller"]
    PROVE  Seen(r2)'
<1>1. PICK V, S, S2, O, O2 : /\ V = Range(visited) /\ S = Range(stay) /\ S2 = Range(stay')
                             /\ O = own /\ O2 = own'
  OBVIOUS
<1>2. /\ V = Range(visited') /\ V \subseteq O /\ O \subseteq O2 /\ S \subseteq O /\ S2 \subseteq S
      /\ NULL \notin O /\ \A n \in O : r2[n] = r[n]
  BY <1>1 DEF Seen
<1>3. Rising(r2, visited')
  <2>1. \A i \in DOMAIN visited : visited[i] \in O
    BY <1>1, <1>2, RangeFacts
  <2> QED
    BY <1>2, <2>1 DEF Seen, Rising
<1>4. \A v \in V, m \in S2 : r2[m] <= r2[v] => m \in V
  BY <1>1, <1>2 DEF Seen
<1>5. ASSUME NEW c, Ahead(r, c)
      PROVE  /\ c \in O2 \cup {NULL}
             /\ \A v \in V : c # NULL => r2[v] < r2[c]
             /\ \A m \in S2 : m \in V \/ Leads(r2, c, m)
  <2>1. /\ c \in O \cup {NULL}
        /\ \A v \in V : c # NULL => r[v] < r[c]
        /\ \A m \in S : m \in V \/ Leads(r, c, m)
    BY <1>1, <1>5 DEF Ahead
  <2> QED
    BY <1>2, <2>1 DEF Leads
<1>6. ASSUME NEW n, NEW z, n \in O, Follows(O, S, r, n, z) PROVE Follows(O2, S2, r2, n, z)
  BY <1>2, <1>6 DEF Follows, Leads
<1>7. pc["poller"] \in {"iter_alloc", "advance", "visit"} => Ahead(r2, curr["poller"])'
  BY <1>1, <1>2, <1>5 DEF Seen, Ahead
<1>8. pc["poller"] = "next" => Ahead(r2, iter["poller"])'
  BY <1>1, <1>2, <1>5 DEF Seen, Ahead
<1>9. pc["poller"] = "visit" =>
        /\ curr'["poller"] \in own'
        /\ Follows(own', Range(stay'), r2, curr'["poller"], iter'["poller"])
  <2> SUFFICES ASSUME pc["poller"] = "visit"
               PROVE  curr["poller"] \in O2 /\ Follows(O2, S2, r2, curr["poller"], iter["poller"])
    BY <1>1
  <2>1. curr["poller"] \in O /\ Follows(O, S, r, curr["poller"], iter["poller"])
    BY <1>1 DEF Seen
  <2> QED
    BY <1>2, <1>6, <2>1
<1> QED
  BY <1>1, <1>2, <1>3, <1>4, <1>7, <1>8, <1>9 DEF Seen

-----------------------------------------------------------------------------
(* What the application writes of what the poller reads.                    *)

FreedKept == \A m \in Nodes \ node_bits : node'[m].next = node[m].next

\* Only a list that was just allocated is written outside the table.
ListsKept == \A l \in Lists : list'[l] = list[l] \/ l \in list_bits' \ list_bits

\* Only a list that is released goes, with an empty chain.
TableKept ==
    \A p \in Ports : \/ sock_bind_table[p] = NULL \/ sock_bind_table'[p] = sock_bind_table[p]
                     \/ pc["app"] = "unpublish" /\ p = req.port /\ Chain(p) = <<>>

\* A step that neither links nor removes leaves lists and table as they were.
LEMMA QuietTable ==
    ASSUME Types, Prepared, App, ~Links, ~list_remove
    PROVE  TableKept /\ ListsKept
<1>1. CASE UNCHANGED <<sock_bind_table, list>>
  BY <1>1 DEF TableKept, ListsKept
<1>2. CASE list_new
  <2>1. /\ list_ret' = list_cursor /\ list_cursor \notin list_bits /\ list_cursor \in list_bits'
        /\ list' = [list EXCEPT ![list_ret'] = NewList] /\ UNCHANGED sock_bind_table
    BY <1>2, HeapFacts DEF Types, list_new, ListHeap!ShmallocSucceeds
  <2>2. \A l \in Lists : l # list_cursor => list'[l] = list[l]
    BY <2>1 DEF Types, MemTypes
  <2> QED
    BY <2>1, <2>2 DEF TableKept, ListsKept
<1>3. CASE PublishList
  <2>1. /\ sock_bind_table' = [sock_bind_table EXCEPT ![req.port] = list_ret]
        /\ UNCHANGED list /\ pc["app"] = "publish"
    BY <1>3 DEF PublishList, Transition
  <2>2. sock_bind_table[req.port] = NULL
    BY <2>1 DEF Types, AppCall
  <2>3. \A p \in Ports : p # req.port => sock_bind_table'[p] = sock_bind_table[p]
    BY <2>1 DEF Types, MemTypes
  <2> QED
    BY <2>1, <2>2, <2>3 DEF TableKept, ListsKept
<1>4. CASE UnpublishList
  <2>1. /\ sock_bind_table' = [sock_bind_table EXCEPT ![req.port] = NULL]
        /\ UNCHANGED list /\ pc["app"] = "unpublish"
    BY <1>4 DEF UnpublishList, Transition
  <2>2. Chain(req.port) = <<>>
    BY <2>1 DEF Prepared
  <2>3. \A p \in Ports : p # req.port => sock_bind_table'[p] = sock_bind_table[p]
    BY <2>1 DEF Types, MemTypes
  <2> QED
    BY <2>1, <2>2, <2>3 DEF TableKept, ListsKept
<1>5. CASE Reads
  BY <1>1, <1>5, ReadsLeave
<1>6. CASE NewBindInfoElem \/ list_node_new \/ LinkFront
  BY <1>1, <1>6 DEF NewBindInfoElem, list_node_new, LinkFront, lists
<1> QED
  BY <1>2, <1>3, <1>4, <1>5, <1>6 DEF App, Links, Reads

\* Nor does it write the pointer of a free node.
LEMMA QuietNodes ==
    ASSUME Types, Prepared, App, ~Links, ~list_remove
    PROVE  FreedKept
<1>1. CASE UNCHANGED node
  BY <1>1 DEF FreedKept
<1>2. CASE Reads
  BY <1>1, <1>2, ReadsLeave
<1>3. CASE list_new \/ PublishList \/ UnpublishList
  BY <1>1, <1>3 DEF list_new, PublishList, UnpublishList, nodes
<1>4. CASE NewBindInfoElem
  <2>1. PICK b, n : /\ b = NewBindInfo(req.sockfd, req.ip, req.opts)
                    /\ n = node_ret'
    OBVIOUS
  <2>2. node' = node \/ node' = [node EXCEPT ![n].val = b]
    BY <1>4, <2>1 DEF NewBindInfoElem
  <2> QED
    BY <2>2 DEF FreedKept, Types, MemTypes
<1>5. CASE list_node_new
  <2>1. pc["app"] \in HasNode /\ node' = [node EXCEPT ![node_ret].prev = NULL, ![node_ret].next = NULL]
    BY <1>5 DEF list_node_new, Transition, HasNode
  <2>2. node_ret \in node_bits
    BY <2>1 DEF Prepared
  <2> QED
    BY <2>1, <2>2 DEF FreedKept, Types, MemTypes
<1>6. CASE LinkFront
  <2>1. PICK h : h = list[sock_bind_table[req.port]].head
    OBVIOUS
  <2>2. pc["app"] \in HasNode /\ node' = [node EXCEPT ![node_ret].next = h, ![node_ret].prev = NULL]
    BY <1>6, <2>1 DEF LinkFront, Transition, HasNode
  <2>3. node_ret \in node_bits
    BY <2>2 DEF Prepared
  <2> QED
    BY <2>2, <2>3 DEF FreedKept, Types, MemTypes
<1> QED
  BY <1>2, <1>3, <1>4, <1>5, <1>6 DEF App, Links, Reads

\* A new node in front of all others, ...
LinkedFront(l, n) ==
    /\ list'[l].head = n /\ node'[n].next = list[l].head
    /\ \A m \in Nodes : m # n => node'[m].next = node[m].next

\* ... or after them.
LinkedBack(l, n) ==
    /\ list'[l].head = list[l].head /\ list[l].tail \in Range(Chain(req.port))
    /\ node[list[l].tail].next = NULL /\ node'[list[l].tail].next = n /\ node'[n].next = NULL
    /\ \A m \in Nodes : m # n /\ m # list[l].tail => node'[m].next = node[m].next

\* A link makes one free end of the list point to the new node.
LEMMA LinkWrites ==
    ASSUME Types, Shaped, Prepared, Links
    PROVE  /\ pc["app"] \in {"push", "front"}
           /\ UNCHANGED <<sock_bind_table, list_bits, node_bits>>
           /\ \/ LinkedFront(sock_bind_table[req.port], node_ret)
              \/ LinkedBack(sock_bind_table[req.port], node_ret)
           /\ \A l \in Lists : l # sock_bind_table[req.port] => list'[l] = list[l]
           /\ \A m \in Nodes : m \notin Range(Chain(req.port)) \cup {node_ret}
                                  => node'[m].next = node[m].next
<1>1. pc["app"] \in {"push", "front"} /\ UNCHANGED <<sock_bind_table, list_bits, node_bits>>
  BY DEF Links, PushAlone, list_rpush, list_lpush, Transition, Pushed, list_pool, node_pool
<1>2. LinkResult(Into(Chain(req.port), node_ret))
  BY AloneResult, BackResult, FrontResult DEF Links
<1>3. PICK l \in Lists, n \in Nodes : l = sock_bind_table[req.port] /\ n = node_ret
  BY <1>1, LinkContext
<1>4. PICK c, L : c = Chain(req.port) /\ L = list[l]
  OBVIOUS
<1>5. Linked(L, node, c) /\ n \notin Range(c)
  BY <1>1, <1>3, <1>4, LinkContext
<1>6. CASE PushAlone
  <2>1. /\ list' = [list EXCEPT ![l] = [head |-> n, tail |-> n, len |-> 1]]
        /\ node' = [node EXCEPT ![n].prev = NULL, ![n].next = NULL] /\ L.len = 0
    BY <1>3, <1>4, <1>6 DEF PushAlone
  <2>2. L.head = NULL
    <3>0. c = <<>>
      BY <1>5, <2>1, LenIsEmpty
    <3>1. c = <<>> /\ L.head = At(c, 1)
      BY <1>5, <3>0 DEF Linked, Chained
    <3>2. 1 \notin DOMAIN c
      BY <3>1
    <3> QED
      BY <3>1, <3>2 DEF At
  <2>3. LinkedFront(l, n)
    BY <1>4, <2>1, <2>2 DEF LinkedFront, Types, MemTypes
  <2> QED
    BY <1>1, <1>2, <1>3, <2>3 DEF LinkResult
<1>7. CASE list_rpush
  <2>1. c # <<>>
    BY <1>3, <1>4, <1>5, <1>7, LenIsEmpty DEF list_rpush
  <2>2. PICK t \in Nodes : t = L.tail /\ t \in Range(c) /\ t # n
    BY <1>5, <2>1, LinkedEnds
  <2>3. node[t].next = NULL
    <3>1. c \in Seq(Nodes) /\ L.tail = At(c, Len(c)) /\ \A i \in DOMAIN c : node[c[i]].next = At(c, i + 1)
      BY <1>5 DEF Linked, Chained
    <3>2. Len(c) \in Nat \ {0} /\ DOMAIN c = 1 .. Len(c) /\ Len(c) \in DOMAIN c
      BY <2>1, <3>1, SeqFacts
    <3>3. node[c[Len(c)]].next = At(c, Len(c) + 1) /\ c[Len(c)] = t
      BY <2>2, <3>1, <3>2, SeqFacts
    <3>4. Len(c) + 1 \in Int /\ Len(c) + 1 \notin 1 .. Len(c)
      BY <3>2
    <3>5. At(c, Len(c) + 1) = NULL
      BY <3>1, <3>4, SeqFacts
    <3> QED
      BY <3>3, <3>5
  <2>4. /\ list' = [list EXCEPT ![l].tail = n, ![l].len = @ + 1]
        /\ node' = [node EXCEPT ![n].prev = t, ![n].next = NULL, ![t].next = n]
    BY <1>3, <1>4, <1>7, <2>2 DEF list_rpush
  <2>5. list'[l].head = L.head
    BY <1>4, <2>4 DEF Types, MemTypes
  <2>6. /\ node'[n].next = NULL /\ node'[t].next = n
        /\ \A m \in Nodes : m # n /\ m # t => node'[m].next = node[m].next
    BY <2>2, <2>4 DEF Types, MemTypes
  <2>7. LinkedBack(l, n)
    BY <1>4, <2>2, <2>3, <2>5, <2>6 DEF LinkedBack
  <2> QED
    BY <1>1, <1>2, <1>3, <2>7 DEF LinkResult
<1>8. CASE list_lpush
  <2>1. pc["app"] = "front"
    BY <1>8 DEF list_lpush, Transition
  <2>2. c # <<>> /\ node[n].next = L.head
    BY <1>3, <1>4, <2>1 DEF Prepared
  <2>3. PICK h \in Nodes : h = L.head
    BY <1>5, <2>2, LinkedEnds
  <2>4. /\ list' = [list EXCEPT ![l].head = n, ![l].len = @ + 1]
        /\ node' = [node EXCEPT ![h].prev = n]
    BY <1>3, <1>4, <1>8, <2>3 DEF list_lpush
  <2>5. list'[l].head = n
    BY <2>4 DEF Types, MemTypes
  <2>6. \A m \in Nodes : node'[m].next = node[m].next
    BY <2>4 DEF Types, MemTypes
  <2>7. LinkedFront(l, n)
    BY <1>4, <2>2, <2>5, <2>6 DEF LinkedFront
  <2> QED
    BY <1>1, <1>2, <1>3, <2>7 DEF LinkResult
<1> QED
  BY <1>6, <1>7, <1>8 DEF Links

\* A removal makes the pointers that lead to the node lead past it.
LEMMA RemoveWrites ==
    ASSUME Types, TableInv, Shaped, Apart, list_remove,
           NEW k \in DOMAIN Chain(req.port), NEW i, i = curr["app"], i = Chain(req.port)[k]
    PROVE  /\ pc["app"] = "unlink" /\ UNCHANGED <<sock_bind_table, list_bits>>
           /\ i \in Nodes
           /\ \A m \in Nodes : \/ node'[m].next = node[m].next
                               \/ /\ node[m].next = i /\ node'[m].next = node[i].next
                                  /\ m \in Range(Chain(req.port))
           /\ LET l == sock_bind_table[req.port]
              IN  \/ list'[l].head = list[l].head
                  \/ list[l].head = i /\ list'[l].head = node[i].next
           /\ \A l \in Lists : l # sock_bind_table[req.port] => list'[l] = list[l]
<1>1. pc["app"] = "unlink" /\ UNCHANGED <<sock_bind_table, list_bits>>
  BY DEF list_remove, list_pool, Transition
<1>2. /\ req.port \in Ports /\ sock_bind_table[req.port] # NULL /\ sock_bind_table[req.port] \in Lists
  BY <1>1, RequestFacts DEF Types, AppCall, OnList, MemTypes
<1>3. PICK l, c, L : /\ l \in Lists /\ l = sock_bind_table[req.port] /\ c = Chain(req.port)
                     /\ L = list[l]
  BY <1>2
<1>4. Linked(L, node, c) /\ k \in DOMAIN c /\ i = c[k]
  BY <1>2, <1>3 DEF Shaped
<1>5. /\ c \in Seq(Nodes) /\ L.head = At(c, 1)
      /\ \A j \in DOMAIN c : node[c[j]].next = At(c, j + 1) /\ node[c[j]].prev = At(c, j - 1)
  BY <1>4 DEF Linked, Chained
<1>6. /\ Len(c) \in Nat /\ DOMAIN c = 1 .. Len(c) /\ k \in 1 .. Len(c)
      /\ \A j \in 1 .. Len(c) : c[j] \in Nodes /\ At(c, j) = c[j] /\ c[j] \in Range(c)
      /\ \A n \in Nodes : n # NULL
  BY <1>4, <1>5, SeqFacts, RangeFacts
<1>7. PICK a, z : a = node[i].prev /\ z = node[i].next
  OBVIOUS
<1>8. node' = Unlinked(i) /\ list' = [list EXCEPT ![l] = EndsWithout(l, i)]
  BY <1>3 DEF list_remove
<1>9. /\ i \in Nodes
      /\ \A m \in Nodes : node'[m].next = IF m = a THEN z ELSE node[m].next
  BY <1>4, <1>6, <1>7, <1>8, UnlinkedIs
<1>10. a = At(c, k - 1)
  BY <1>4, <1>5, <1>7
<1>11. CASE k = 1
  <2>1. a = NULL /\ L.head = i
    <3>1. k - 1 \notin 1 .. Len(c) /\ k - 1 \in Int
      BY <1>6, <1>11
    <3> QED
      BY <1>4, <1>5, <1>6, <1>10, <1>11, <3>1, SeqFacts
  <2>2. \A m \in Nodes : node'[m].next = node[m].next
    BY <1>6, <1>9, <2>1
  <2>3. list'[l].head = z
    <3>1. PICK e : e = EndsWithout(l, i)
      OBVIOUS
    <3>2. L \in [head : NodeOrNull, tail : NodeOrNull, len : Int]
      BY <1>3 DEF Types, MemTypes
    <3>3. e.head = z
      BY <1>3, <1>7, <2>1, <3>1, <3>2 DEF EndsWithout
    <3> QED
      BY <1>3, <1>8, <3>1, <3>3 DEF Types, MemTypes
  <2>4. \A x \in Lists : x # l => list'[x] = list[x]
    BY <1>8 DEF Types, MemTypes
  <2> QED
    BY <1>1, <1>3, <1>7, <1>9, <2>1, <2>2, <2>3, <2>4
<1>12. CASE k # 1
  <2>1. PICK j : j = k - 1
    OBVIOUS
  <2>2. j \in 1 .. Len(c) /\ j + 1 = k
    BY <1>6, <1>12, <2>1
  <2>3. a = c[j] /\ a \in Nodes /\ a \in Range(c) /\ node[a].next = i
    BY <1>4, <1>5, <1>6, <1>10, <2>1, <2>2
  <2>4. list'[l].head = L.head
    <3>1. PICK e : e = EndsWithout(l, i)
      OBVIOUS
    <3>2. L \in [head : NodeOrNull, tail : NodeOrNull, len : Int]
      BY <1>3 DEF Types, MemTypes
    <3>3. e.head = L.head
      BY <1>3, <1>6, <1>7, <2>3, <3>1, <3>2 DEF EndsWithout
    <3> QED
      BY <1>3, <1>8, <3>1, <3>3 DEF Types, MemTypes
  <2>5. \A x \in Lists : x # l => list'[x] = list[x]
    BY <1>8 DEF Types, MemTypes
  <2> QED
    BY <1>1, <1>3, <1>7, <1>9, <2>3, <2>4, <2>5
<1> QED
  BY <1>11, <1>12

\* What holds of the lists as long as no calls of the iterator allocator have
\* overlapped.
Sound == /\ Types /\ TableInv /\ Shaped /\ Apart /\ Allocated /\ Prepared /\ Requested
         /\ AppWalk /\ Owned

\* What LwInv says when the iterators have not raced.
LEMMA LwSound == ASSUME LwInv, ~raced PROVE Sound
BY DEF LwInv, IInv, Types, Observed, ShapeInv, ScanInv, Sound

LEMMA NextLwSound == ASSUME LwInv', ~raced' PROVE Sound'
BY DEF LwInv, IInv, Types, Observed, ShapeInv, ScanInv, Sound

LEMMA NextChainSeq == ASSUME Shaped', NEW p \in Ports PROVE Chain(p)' \in Seq(Nodes)
<1>1. CASE sock_bind_table'[p] = NULL
  <2>1. Chain(p)' = <<>>
    BY <1>1, NextChainIs
  <2> QED
    BY <2>1
<1>2. CASE sock_bind_table'[p] # NULL
  BY <1>2 DEF Shaped, Linked, Chained
<1> QED
  BY <1>1, <1>2

\* No node leaves a list but to be freed, and no list leaves the table but when
\* it is empty and free.
LEMMA AppChains ==
    ASSUME Sound, App
    PROVE  /\ TableKept
           /\ \A p \in Ports : \A n \in Range(Chain(p)) :
                 n \in Range(Chain(p)') \/ n \notin node_bits'
<1> USE DEF Sound
<1>1. CASE Links
  <2>1. TableKept /\ pc["app"] \in {"push", "front"}
    BY <1>1, LinkWrites DEF TableKept
  <2>2. \A p \in Ports : Chain(p)' = IF p = req.port THEN Into(Chain(p), node_ret) ELSE Chain(p)
    BY <1>1, LinkStep
  <2>3. ASSUME NEW p \in Ports PROVE Range(Chain(p)) \subseteq Range(Chain(p)')
    <3>1. CASE p = req.port
      <4>1. Chain(p) \in Seq(Nodes) /\ node_ret \in Nodes
        BY <2>1, ChainType, LinkContext
      <4>2. Range(Into(Chain(p), node_ret)) = Range(Chain(p)) \cup {node_ret}
        BY <4>1, IntoElements
      <4> QED
        BY <2>2, <3>1, <4>2
    <3> QED
      BY <2>2, <3>1
  <2> QED
    BY <2>1, <2>3
<1>2. CASE list_remove
  <2>1. pc["app"] = "unlink"
    BY <1>2 DEF list_remove, Transition
  <2>2. PICK k \in DOMAIN Chain(req.port) : curr["app"] = Chain(req.port)[k]
    BY <2>1, WhatIsRemoved
  <2>3. /\ req \in Requests /\ node_bits' = node_bits \ {Chain(req.port)[k]}
        /\ \A p \in Ports : Chain(p)' = IF p = req.port THEN Without(Chain(p), k) ELSE Chain(p)
    BY <1>2, <2>2, RemoveStep
  <2>4. ASSUME NEW p \in Ports, NEW n \in Range(Chain(p))
        PROVE  n \in Range(Chain(p)') \/ n \notin node_bits'
    <3>1. CASE p = req.port
      <4>1. PICK c : c = Chain(p)
        OBVIOUS
      <4>2. c \in Seq(Nodes) /\ \A i, j \in DOMAIN c : c[i] = c[j] => i = j
        BY <4>1, ChainType
      <4>3. Range(Without(c, k)) = Range(c) \ {c[k]}
        BY <2>2, <3>1, <4>1, <4>2, WithoutRange
      <4>4. Chain(p)' = Without(c, k) /\ node_bits' = node_bits \ {c[k]}
        BY <2>3, <3>1, <4>1
      <4> QED
        BY <2>4, <4>1, <4>3, <4>4
    <3> QED
      BY <2>3, <2>4, <3>1
  <2>5. TableKept
    BY <1>2, <2>2, RemoveWrites DEF TableKept
  <2> QED
    BY <2>4, <2>5
<1>3. CASE ~Links /\ ~list_remove
  <2>1. TableKept
    BY <1>3, QuietTable
  <2>2. SameLists
    BY <1>3, StepsLeave
  <2> QED
    BY <2>1, <2>2 DEF SameLists
<1> QED
  BY <1>1, <1>2, <1>3

\* What Observe records of the walk of port p.
WalkGoes(p) ==
    /\ own' = own \cup Range(Chain(p)')
    /\ stay' \in Seq(Nodes) /\ Range(stay') = Range(stay) \cap Range(Chain(p)')
    /\ \A n \in node_bits \ node_bits' : <<"node", n>> \in freed'
    /\ \A l \in list_bits \ list_bits' : <<"list", l>> \in freed'
    /\ freed \subseteq freed'
    /\ \A n \in node_bits' \ node_bits : <<"node", n>> \notin freed
    /\ \A l \in list_bits' \ list_bits : <<"list", l>> \notin freed

LEMMA AppFresh ==
    ASSUME Sound, Sound', Unlisted, App, Fresh, PollerCall, packet' = packet,
           pc["poller"] # "idle", WalkGoes(packet.port), visited' = visited
    PROVE  Fresh'
<1>1. PICK p, l : p = packet.port /\ l = packet.list
  OBVIOUS
<1>2. PICK c, c2 : c = Chain(p) /\ c2 = Chain(p)'
  OBVIOUS
<1>3. /\ p \in Ports /\ own \subseteq Nodes /\ visited \in Seq(Nodes)
      /\ Range(c) \subseteq own /\ Range(stay) \subseteq Range(c)
      /\ \A n \in own : n \in Range(c) \/ n \notin node_bits
      /\ \A n \in own \ node_bits : <<"node", n>> \in freed
      /\ l \notin list_bits => <<"list", l>> \in freed
      /\ sock_bind_table[p] = l \/ (l \notin list_bits /\ Range(stay) = {})
      /\ l \in Lists
  BY <1>1, <1>2 DEF Fresh, PollerCall
<1>4. /\ own' = own \cup Range(c2)
      /\ stay' \in Seq(Nodes) /\ Range(stay') = Range(stay) \cap Range(c2)
      /\ \A n \in node_bits \ node_bits' : <<"node", n>> \in freed'
      /\ \A x \in list_bits \ list_bits' : <<"list", x>> \in freed'
      /\ freed \subseteq freed'
      /\ \A n \in node_bits' \ node_bits : <<"node", n>> \notin freed
      /\ \A x \in list_bits' \ list_bits : <<"list", x>> \notin freed
  BY <1>1, <1>2 DEF WalkGoes
<1>5. c2 \in Seq(Nodes) /\ Range(c2) \subseteq node_bits'
  <2>1. Shaped' /\ Allocated'
    BY DEF Sound
  <2> QED
    BY <1>2, <1>3, <2>1, NextChainSeq DEF Allocated
<1>6. Range(c2) \subseteq Nodes
  BY <1>5, RangeFacts, SeqFacts
<1>7. /\ \A n \in Range(c) : n \in Range(c2) \/ n \notin node_bits'
      /\ \/ sock_bind_table[p] = NULL \/ sock_bind_table'[p] = sock_bind_table[p]
         \/ pc["app"] = "unpublish" /\ p = req.port /\ c = <<>>
  BY <1>2, <1>3, AppChains DEF TableKept
<1>8. \A n \in own' : n \in Range(c2) \/ n \notin node_bits'
  BY <1>3, <1>4, <1>7
<1>9. \A n \in own' \ node_bits' : <<"node", n>> \in freed'
  BY <1>3, <1>4, <1>5
<1>10. l \notin list_bits' => <<"list", l>> \in freed'
  BY <1>3, <1>4
<1>11. l \notin list_bits => l \notin list_bits'
  BY <1>3, <1>4
<1>12. sock_bind_table'[p] = l \/ (l \notin list_bits' /\ Range(stay') = {})
  <2>1. CASE sock_bind_table[p] = l /\ sock_bind_table'[p] # sock_bind_table[p]
    <3>1. l # NULL
      BY <1>3, HeapConstants DEF Lists
    <3>2. pc["app"] = "unpublish" /\ p = req.port /\ c = <<>>
      BY <1>7, <2>1, <3>1
    <3>3. l \notin list_bits
      BY <2>1, <3>2 DEF Unlisted
    <3>4. Range(c) = {}
      BY <3>2 DEF Range
    <3> QED
      BY <1>3, <1>4, <1>11, <3>3, <3>4
  <2> QED
    BY <1>3, <1>4, <1>11, <2>1
<1>13. PICK s, o, b, t, lb, f : /\ s = stay' /\ o = own' /\ b = node_bits' /\ t = sock_bind_table'
                            /\ lb = list_bits' /\ f = freed'
  OBVIOUS
<1> QED
  BY <1>1, <1>2, <1>3, <1>4, <1>6, <1>8, <1>9, <1>10, <1>12 DEF Fresh

\* The nodes of the walk outside the list that the application works on.
LEMMA OwnApart ==
    ASSUME Sound, Fresh, pc["app"] \in {"push", "front", "unlink"}
    PROVE  /\ req.port \in Ports /\ sock_bind_table[req.port] # NULL
           /\ sock_bind_table[req.port] \in Lists
           /\ sock_bind_table[req.port] = packet.list => req.port = packet.port
           /\ pc["app"] # "unlink" => node_ret \in Nodes /\ node_ret \notin own
           /\ req.port # packet.port => \A n \in own : n \notin Range(Chain(req.port))
<1> USE DEF Sound
<1>1. req.port \in Ports /\ sock_bind_table[req.port] # NULL /\ sock_bind_table[req.port] \in Lists
  BY RequestFacts DEF Types, AppCall, OnList, MemTypes
<1>2. sock_bind_table[req.port] \in list_bits
  BY <1>1 DEF TableInv
<1>3. packet.port \in Ports /\ \A n \in own : n \in Range(Chain(packet.port)) \/ n \notin node_bits
  BY DEF Fresh
<1>4. sock_bind_table[req.port] = packet.list => req.port = packet.port
  BY <1>1, <1>2, <1>3 DEF Fresh, TableInv
<1>5. pc["app"] # "unlink" => node_ret \in Nodes /\ node_ret \notin own
  BY <1>3, LinkContext
<1>6. req.port # packet.port => \A n \in own : n \notin Range(Chain(req.port))
  BY <1>1, <1>3 DEF Apart, Allocated
<1> QED
  BY <1>1, <1>4, <1>5, <1>6

RankKept(r, r2) == \A n \in own : r2[n] = r[n]

\* The rank stays when no pointer is written.
LEMMA QuietRanked ==
    ASSUME Sound, App, ~Links, ~list_remove, Fresh, PollerCall, pc["poller"] # "idle",
           NEW p0, p0 = packet.port, WalkGoes(p0), NEW r, NEW lo, NEW hi,
           Ranked(own, node, list[packet.list].head, Range(stay), r, lo, hi)
    PROVE  Ranked(own', node', list'[packet.list].head, Range(stay'), r, lo, hi)
<1> USE DEF Sound
<1>1. FreedKept /\ ListsKept
  BY QuietTable, QuietNodes
<1>2. SameLists
  BY StepsLeave
<1>3. p0 \in Ports /\ packet.list \in Lists /\ p0 = packet.port
  BY DEF Fresh, PollerCall
<1>4. Chain(p0)' = Chain(p0)
  BY <1>2, <1>3 DEF SameLists
<1>5. own' = own /\ Range(stay') \subseteq Range(stay)
  BY <1>4 DEF WalkGoes, Fresh
<1>6. list'[packet.list] = list[packet.list]
  BY <1>1, <1>3 DEF ListsKept, WalkGoes, Fresh
<1>7. ASSUME NEW n \in own PROVE node'[n].next = node[n].next
  <2>1. CASE n \in Range(Chain(p0))
    <3>1. PICK i \in DOMAIN Chain(p0) : n = Chain(p0)[i]
      BY <2>1, RangeFacts
    <3> QED
      BY <1>2, <1>3, <3>1 DEF SameLists
  <2>2. CASE n \notin node_bits
    BY <1>1, <2>2 DEF FreedKept, Fresh
  <2> QED
    BY <2>1, <2>2 DEF Fresh
<1>8. PICK h, S2, nd2, O2 : /\ h = list[packet.list].head /\ S2 = Range(stay')
                            /\ nd2 = node' /\ O2 = own'
  OBVIOUS
<1>9. Ranked(own, nd2, h, S2, r, lo, hi)
  BY <1>5, <1>7, <1>8, RankedSame
<1> QED
  BY <1>5, <1>6, <1>8, <1>9

\* A node that is linked gets a rank below or above all others.
LEMMA LinkRanked ==
    ASSUME Sound, Links, Fresh, PollerCall, pc["poller"] # "idle",
           NEW p0, p0 = packet.port, WalkGoes(p0), NEW r, NEW lo, NEW hi,
           Ranked(own, node, list[packet.list].head, Range(stay), r, lo, hi)
    PROVE  \E r2, lo2, hi2 :
              /\ Ranked(own', node', list'[packet.list].head, Range(stay'), r2, lo2, hi2)
              /\ RankKept(r, r2)
<1> USE DEF Sound
<1>1. /\ pc["app"] \in {"push", "front"}
      /\ \/ LinkedFront(sock_bind_table[req.port], node_ret)
         \/ LinkedBack(sock_bind_table[req.port], node_ret)
      /\ \A x \in Lists : x # sock_bind_table[req.port] => list'[x] = list[x]
      /\ \A m \in Nodes : m \notin Range(Chain(req.port)) \cup {node_ret}
                             => node'[m].next = node[m].next
  BY LinkWrites
<1>2. /\ req.port \in Ports /\ sock_bind_table[req.port] # NULL
      /\ sock_bind_table[req.port] \in Lists
      /\ sock_bind_table[req.port] = packet.list => req.port = p0
      /\ node_ret \in Nodes /\ node_ret \notin own
      /\ req.port # p0 => \A n \in own : n \notin Range(Chain(req.port))
  BY <1>1, OwnApart
<1>3. p0 \in Ports /\ packet.list \in Lists /\ own \subseteq Nodes
  BY DEF Fresh, PollerCall
<1>4. \A p \in Ports : Chain(p)' = IF p = req.port THEN Into(Chain(p), node_ret) ELSE Chain(p)
  BY LinkStep
<1>5. PICK O, O2, S, S2, nd, nd2, h, h2, n0, l :
         /\ O = own /\ O2 = own' /\ S = Range(stay) /\ S2 = Range(stay')
         /\ nd = node /\ nd2 = node' /\ h = list[packet.list].head /\ h2 = list'[packet.list].head
         /\ n0 = node_ret /\ l = sock_bind_table[req.port]
  OBVIOUS
<1>6. Ranked(O, nd, h, S, r, lo, hi) /\ n0 \in Nodes /\ n0 \notin O /\ S2 \subseteq S
  BY <1>2, <1>5 DEF WalkGoes
<1>7. CASE req.port # p0
  <2>1. O2 = O
    BY <1>3, <1>4, <1>5, <1>7 DEF WalkGoes, Fresh
  <2>2. h2 = h
    BY <1>1, <1>2, <1>3, <1>5, <1>7
  <2>3. \A n \in O : nd2[n].next = nd[n].next
    BY <1>1, <1>2, <1>3, <1>5, <1>6, <1>7
  <2>4. Ranked(O2, nd2, h2, S2, r, lo, hi)
    BY <1>6, <2>1, <2>2, <2>3, RankedSame
  <2> QED
    BY <1>5, <2>4 DEF RankKept
<1>8. CASE req.port = p0
  <2>1. PICK c : c = Chain(p0)
    OBVIOUS
  <2>2. c \in Seq(Nodes) /\ Range(c) \subseteq O /\ Linked(list[l], nd, c)
    BY <1>2, <1>3, <1>5, <1>8, <2>1, ChainType DEF Fresh, Shaped
  <2>3. O2 = O \cup {n0}
    <3>1. Range(Into(c, n0)) = Range(c) \cup {n0}
      BY <1>6, <2>2, IntoElements
    <3>2. Chain(p0)' = Into(c, n0)
      BY <1>3, <1>4, <1>5, <1>8, <2>1
    <3> QED
      BY <1>5, <2>2, <3>1, <3>2 DEF WalkGoes
  <2>4. CASE LinkedFront(l, n0)
    <3>1. /\ list'[l].head = n0 /\ nd2[n0].next = list[l].head
          /\ \A m \in Nodes : m # n0 => nd2[m].next = nd[m].next
      BY <1>5, <2>4 DEF LinkedFront
    <3>2. list[l].head \in O \cup {NULL}
      <4>1. CASE c = <<>>
        <5>1. list[l].head = At(c, 1) /\ 1 \notin DOMAIN c
          BY <2>2, <4>1 DEF Linked, Chained
        <5> QED
          BY <5>1 DEF At
      <4>2. CASE c # <<>>
        BY <2>2, <4>2, LinkedEnds
      <4> QED
        BY <4>1, <4>2
    <3>3. \A m \in S : Leads(r, list[l].head, m)
      <4>1. CASE sock_bind_table[p0] = packet.list
        BY <1>5, <1>6, <1>8, <4>1 DEF Ranked
      <4>2. CASE Range(stay) = {}
        BY <1>5, <4>2
      <4> QED
        BY <4>1, <4>2 DEF Fresh
    <3>4. h2 = h \/ h2 = n0
      BY <1>1, <1>3, <1>5, <3>1
    <3>5. \A n \in O : nd2[n].next = nd[n].next
      BY <1>3, <1>5, <1>6, <3>1
    <3>9. nd2[n0].next \in O \cup {NULL} /\ \A m \in S : Leads(r, nd2[n0].next, m)
      BY <3>1, <3>2, <3>3
    <3>6. Reranked(O, O2, nd2, h2, S, r)
      BY <1>6, <2>3, <3>4, <3>5, <3>9, RankedFront
    <3>10. PICK r2, lo2, hi2 : Ranked(O2, nd2, h2, S, r2, lo2, hi2) /\ \A n \in O : r2[n] = r[n]
      BY <3>6 DEF Reranked
    <3>7. Ranked(O2, nd2, h2, S2, r2, lo2, hi2)
      BY <1>6, <3>10, RankedSame
    <3> QED
      BY <1>5, <3>7, <3>10 DEF RankKept
  <2>5. CASE LinkedBack(l, n0)
    <3>1. PICK t : t = list[l].tail
      OBVIOUS
    <3>2. /\ list'[l].head = list[l].head /\ t \in O
          /\ nd[t].next = NULL /\ nd2[t].next = n0 /\ nd2[n0].next = NULL
          /\ \A m \in Nodes : m # n0 /\ m # t => nd2[m].next = nd[m].next
      BY <1>5, <1>8, <2>1, <2>2, <2>5, <3>1 DEF LinkedBack
    <3>3. h2 = h
      BY <1>1, <1>3, <1>5, <3>2
    <3>4. \A n \in O : n # t => nd2[n].next = nd[n].next
      BY <1>3, <1>5, <1>6, <3>2
    <3>5. Reranked(O, O2, nd2, h2, S, r)
      BY <1>6, <2>3, <3>2, <3>3, <3>4, RankedBack
    <3>7. PICK r2, lo2, hi2 : Ranked(O2, nd2, h2, S, r2, lo2, hi2) /\ \A n \in O : r2[n] = r[n]
      BY <3>5 DEF Reranked
    <3>6. Ranked(O2, nd2, h2, S2, r2, lo2, hi2)
      BY <1>6, <3>7, RankedSame
    <3> QED
      BY <1>5, <3>6, <3>7 DEF RankKept
  <2> QED
    BY <1>1, <1>5, <2>4, <2>5
<1> QED
  BY <1>7, <1>8

\* A removal keeps the rank, and its node stays no more.
LEMMA RemoveRanked ==
    ASSUME Sound, list_remove, Fresh, PollerCall, pc["poller"] # "idle",
           NEW p0, p0 = packet.port, WalkGoes(p0), NEW r, NEW lo, NEW hi,
           Ranked(own, node, list[packet.list].head, Range(stay), r, lo, hi)
    PROVE  Ranked(own', node', list'[packet.list].head, Range(stay'), r, lo, hi)
<1> USE DEF Sound
<1>1. pc["app"] = "unlink"
  BY DEF list_remove, Transition
<1>2. PICK k \in DOMAIN Chain(req.port) : curr["app"] = Chain(req.port)[k]
  BY <1>1, WhatIsRemoved
<1>3. PICK i : i = curr["app"]
  OBVIOUS
<1>4. /\ i \in Nodes
      /\ \A m \in Nodes : \/ node'[m].next = node[m].next
                          \/ /\ node[m].next = i /\ node'[m].next = node[i].next
                             /\ m \in Range(Chain(req.port))
      /\ \/ list'[sock_bind_table[req.port]].head = list[sock_bind_table[req.port]].head
         \/ /\ list[sock_bind_table[req.port]].head = i
            /\ list'[sock_bind_table[req.port]].head = node[i].next
      /\ \A x \in Lists : x # sock_bind_table[req.port] => list'[x] = list[x]
  BY <1>2, <1>3, RemoveWrites
<1>5. \A p \in Ports : Chain(p)' = IF p = req.port THEN Without(Chain(p), k) ELSE Chain(p)
  BY <1>2, RemoveStep
<1>6. /\ req.port \in Ports
      /\ sock_bind_table[req.port] = packet.list => req.port = p0
      /\ req.port # p0 => \A n \in own : n \notin Range(Chain(req.port))
  BY <1>1, OwnApart
<1>7. p0 \in Ports /\ packet.list \in Lists /\ own \subseteq Nodes
  BY DEF Fresh, PollerCall
<1>8. PICK O, O2, S, S2, nd, nd2, h, h2 :
         /\ O = own /\ O2 = own' /\ S = Range(stay) /\ S2 = Range(stay')
         /\ nd = node /\ nd2 = node' /\ h = list[packet.list].head /\ h2 = list'[packet.list].head
  OBVIOUS
<1>9. Ranked(O, nd, h, S, r, lo, hi) /\ S2 \subseteq S
  BY <1>8 DEF WalkGoes
<1>10. CASE req.port # p0
  <2>1. O2 = O
    BY <1>5, <1>7, <1>8, <1>10 DEF WalkGoes, Fresh
  <2>2. h2 = h
    BY <1>4, <1>6, <1>7, <1>8, <1>10
  <2>3. \A n \in O : nd2[n].next = nd[n].next
    BY <1>4, <1>6, <1>7, <1>8, <1>10
  <2>4. Ranked(O2, nd2, h2, S2, r, lo, hi)
    BY <1>9, <2>1, <2>2, <2>3, RankedSame
  <2> QED
    BY <1>8, <2>4
<1>11. CASE req.port = p0
  <2>1. PICK c : c = Chain(p0)
    OBVIOUS
  <2>2. /\ c \in Seq(Nodes) /\ Range(c) \subseteq O /\ k \in DOMAIN c /\ i = c[k]
        /\ \A a, b \in DOMAIN c : c[a] = c[b] => a = b
    BY <1>2, <1>3, <1>7, <1>8, <1>11, <2>1, ChainType DEF Fresh
  <2>3. i \in O
    BY <2>2, RangeFacts
  <2>4. Range(Without(c, k)) = Range(c) \ {i}
    BY <2>2, WithoutRange
  <2>5. Chain(p0)' = Without(c, k)
    BY <1>5, <1>7, <1>11, <2>1
  <2>6. O2 = O /\ S2 \subseteq S \ {i}
    BY <1>8, <2>2, <2>4, <2>5 DEF WalkGoes
  <2>7. \A n \in O : nd2[n].next = nd[n].next \/ (nd[n].next = i /\ nd2[n].next = nd[i].next)
    BY <1>4, <1>7, <1>8
  <2>8. h2 = h \/ (h = i /\ h2 = nd[i].next)
    BY <1>4, <1>7, <1>8
  <2>9. Ranked(O, nd2, h2, S2, r, lo, hi)
    BY <1>9, <2>3, <2>6, <2>7, <2>8, RankedBypass
  <2> QED
    BY <1>8, <2>6, <2>9
<1> QED
  BY <1>10, <1>11

\* A rank that orders the nodes of the walk as before is one for the walk.
LEMMA WalkGoesOnBy ==
    ASSUME Observe, pc["poller"] # "idle", pc'["poller"] # "idle", packet' = packet,
           NEW p, p = packet.port, ~reused', p \in Ports, Shaped',
           stay \in Seq(Nodes), NEW r \in [Nodes -> Int], Rising(r, stay)
    PROVE  /\ WalkGoes(p) /\ ~reused /\ Rising(r, stay')
           /\ visited' = IF pc["poller"] = "visit" /\ pc'["poller"] # "visit"
                            /\ Len(visited) < MaxVisits
                         THEN Append(visited, curr["poller"]) ELSE visited
<1>1. /\ own' = own \cup Range(Chain(p)') /\ stay' = Only(stay, Range(Chain(p)'))
      /\ \A n \in node_bits \ node_bits' : <<"node", n>> \in freed'
      /\ \A l \in list_bits \ list_bits' : <<"list", l>> \in freed'
      /\ freed \subseteq freed' /\ ~reused
      /\ \A n \in node_bits' \ node_bits : <<"node", n>> \notin freed
      /\ \A l \in list_bits' \ list_bits : <<"list", l>> \notin freed
      /\ visited' = IF pc["poller"] = "visit" /\ pc'["poller"] # "visit"
                       /\ Len(visited) < MaxVisits
                    THEN Append(visited, curr["poller"]) ELSE visited
  BY WalkObserved
<1>2. PICK S : S = Range(Chain(p)')
  OBVIOUS
<1>3. /\ Only(stay, S) \in Seq(Nodes) /\ Rising(r, Only(stay, S))
      /\ Range(Only(stay, S)) = Range(stay) \cap S
  BY OnlyIs
<1>4. PICK s2 : s2 = Only(stay, S)
  OBVIOUS
<1>5. stay' = s2 /\ s2 \in Seq(Nodes) /\ Rising(r, s2) /\ Range(s2) = Range(stay) \cap S
  BY <1>1, <1>2, <1>3, <1>4
<1>6. WalkGoes(p)
  BY <1>1, <1>2, <1>5 DEF WalkGoes
<1> QED
  BY <1>1, <1>5, <1>6

\* The application does not touch the iterator of the poller.
LEMMA AppLeavesPoller ==
    ASSUME LwInv, App, ~raced'
    PROVE  /\ pc'["poller"] = pc["poller"] /\ packet' = packet
           /\ iter'["poller"] = iter["poller"] /\ curr'["poller"] = curr["poller"]
           /\ ~raced
<1>1. ~raced
  BY RacedStays
<1>2. Types /\ TableInv /\ BoundOnPort /\ Iters /\ DOMAIN pc = Procs
  BY <1>1, BoundAreListed DEF LwInv, IInv, ScanInv, AppWalk, Iters
<1>3. packet' = packet /\ pc'["poller"] = pc["poller"]
  BY <1>2, AppKeepsTypes DEF AppTypes
<1>4. CASE Iterator("app")
  BY <1>1, <1>2, <1>3, <1>4, IterOwn, ProcFacts
<1>5. CASE ~Iterator("app")
  <2>1. UNCHANGED iters
    BY <1>5 DEF App, Bind, Close, CallStarts, Scan, Search, list_new, PublishList, NewBindInfoElem,
        list_node_new, PushAlone, list_rpush, LinkFront, list_lpush, Pushed, list_remove,
        ClearEntry, list_destroy, UnpublishList
  <2> QED
    BY <1>1, <1>3, <2>1 DEF iters
<1> QED
  BY <1>4, <1>5

\* Between the freeing of an empty list and the clearing of its entry
\* nothing allocates it again.
LEMMA UnlistedKept == ASSUME LwInv, Unlisted, App \/ Poller PROVE Unlisted'
<1>1. Types /\ TableInv
  BY DEF LwInv, IInv
<1>2. CASE Poller
  BY <1>1, <1>2, PollerIdle DEF Unlisted
<1>3. CASE list_destroy
  <2>1. PICK l : l = sock_bind_table[req.port]
    OBVIOUS
  <2>2. /\ pc["app"] = "clear" /\ UNCHANGED <<sock_bind_table, req>> /\ l # NULL
        /\ ListHeap!Shfree(l)
    BY <1>3, <2>1 DEF list_destroy, request, Transition
  <2>3. req.port \in Ports
    BY <1>1, <2>2, RequestFacts DEF Types, AppCall
  <2>4. l \in list_bits /\ l \in Lists
    BY <1>1, <2>1, <2>2, <2>3 DEF TableInv
  <2>5. ListHeap!InPool(l) /\ l \div ListHeap!Stride = l
    BY <2>4, ListsAssumption DEF ListHeap!InPool, ListHeap!Stride, Lists
  <2>6. list_bits' = list_bits \ {l}
    BY <2>2, <2>4, <2>5 DEF ListHeap!Shfree, ListHeap!Release
  <2> QED
    BY <2>1, <2>2, <2>6 DEF Unlisted
<1>4. CASE App /\ ~list_destroy
  <2>1. pc'["app"] # "unpublish"
    <3>1. CASE Iterator("app")
      BY <1>1, <3>1, IteratorControl DEF AfterWalk
    <3>2. CASE \E r \in Requests : Bind(r) \/ Close(r)
      BY <1>1, <3>2, AppPc DEF Bind, Close, CallStarts
    <3>3. CASE Scan \/ Search
      BY <1>1, <3>3, AppPc DEF Scan, Search
    <3>4. CASE list_new \/ PublishList \/ NewBindInfoElem \/ list_node_new
      BY <1>1, <3>4, AppPc DEF list_new, PublishList, NewBindInfoElem, list_node_new
    <3>5. CASE PushAlone \/ list_rpush \/ LinkFront \/ list_lpush
      <4>1. \/ Transition("app", "push", "idle") \/ Transition("app", "push", "front")
            \/ Transition("app", "front", "idle")
        BY <3>5 DEF PushAlone, list_rpush, LinkFront, list_lpush
      <4> QED
        BY <1>1, <4>1, AppPc
    <3>6. CASE list_remove \/ ClearEntry \/ UnpublishList
      BY <1>1, <3>6, AppPc DEF list_remove, ClearEntry, UnpublishList
    <3> QED
      BY <1>4, <3>1, <3>2, <3>3, <3>4, <3>5, <3>6 DEF App
  <2> QED
    BY <2>1 DEF Unlisted
<1> QED
  BY <1>2, <1>3, <1>4

\* A step of the application keeps the walk ranked.
LEMMA AppRanked ==
    ASSUME Sound, App, Fresh, PollerCall, pc["poller"] # "idle",
           NEW p, p = packet.port, WalkGoes(p), NEW r, NEW lo, NEW hi,
           Ranked(own, node, list[packet.list].head, Range(stay), r, lo, hi)
    PROVE  \E r2, lo2, hi2 :
              /\ Ranked(own', node', list'[packet.list].head, Range(stay'), r2, lo2, hi2)
              /\ RankKept(r, r2)
<1>1. CASE Links
  BY <1>1, LinkRanked
<1>2. CASE list_remove
  <2>1. Ranked(own', node', list'[packet.list].head, Range(stay'), r, lo, hi)
    BY <1>2, RemoveRanked
  <2> QED
    BY <2>1 DEF RankKept
<1>3. CASE ~Links /\ ~list_remove
  <2>1. Ranked(own', node', list'[packet.list].head, Range(stay'), r, lo, hi)
    BY <1>3, QuietRanked
  <2> QED
    BY <2>1 DEF RankKept
<1> QED
  BY <1>1, <1>2, <1>3

\* A step of the application while the poller walks.
LEMMA AppWatched == ASSUME LwInv, LwInv', WatchInv, App, Observe PROVE WatchInv'
<1>1. Unlisted /\ Unlisted' /\ (pc'["poller"] = "idle" => visited' = <<>> /\ stay' = <<>>)
  BY UnlistedKept DEF WatchInv, Observe
<1> SUFFICES ASSUME pc'["poller"] # "idle", ~raced', ~reused'
             PROVE  Fresh' /\ \E r, lo, hi : RankedWalk(r, lo, hi)' /\ Seen(r)'
  BY <1>1 DEF WatchInv
<1>2. /\ pc'["poller"] = pc["poller"] /\ packet' = packet
      /\ iter'["poller"] = iter["poller"] /\ curr'["poller"] = curr["poller"]
      /\ ~raced
  BY AppLeavesPoller
<1>3. Sound /\ Sound'
  BY <1>2, LwSound, NextLwSound
<1>4. ~reused
  BY <1>2 DEF Observe
<1>5. Fresh /\ \E r, lo, hi : RankedWalk(r, lo, hi) /\ Seen(r)
  BY <1>2, <1>4 DEF WatchInv
<1>6. PICK r, lo, hi : RankedWalk(r, lo, hi) /\ Seen(r)
  BY <1>5
<1>7. PICK p : p = packet.port
  OBVIOUS
<1>8. p \in Ports /\ stay \in Seq(Nodes) /\ visited \in Seq(Nodes) /\ own \subseteq Nodes
  BY <1>5, <1>7 DEF Fresh
<1>9. /\ Ranked(own, node, list[packet.list].head, Range(stay), r, lo, hi)
      /\ Rising(r, stay) /\ r \in [Nodes -> Int]
  BY <1>6 DEF RankedWalk, Ranked
<1>10. WalkGoes(p) /\ Rising(r, stay') /\ visited' = visited
  <2>1. Shaped'
    BY <1>3 DEF Sound
  <2> QED
    BY <1>2, <1>7, <1>8, <1>9, <2>1, WalkGoesOnBy
<1>11. PollerCall
  BY <1>3 DEF Sound, Types
<1>12. Fresh'
  BY <1>1, <1>2, <1>3, <1>5, <1>7, <1>10, <1>11, AppFresh
<1>13. PICK r2, lo2, hi2 :
          /\ Ranked(own', node', list'[packet.list].head, Range(stay'), r2, lo2, hi2)
          /\ RankKept(r, r2)
  BY <1>2, <1>3, <1>5, <1>7, <1>9, <1>10, <1>11, AppRanked
<1>14. \A n \in own : r2[n] = r[n]
  BY <1>13 DEF RankKept
<1>15. own \subseteq own' /\ Range(stay') \subseteq Range(stay) /\ Range(stay) \subseteq own
  BY <1>5, <1>10 DEF WalkGoes, Fresh
<1>16. Rising(r2, stay')
  <2>1. PICK s2 : s2 = stay'
    OBVIOUS
  <2>2. \A i \in DOMAIN s2 : s2[i] \in own
    BY <1>15, <2>1, RangeFacts
  <2>3. Rising(r2, s2)
    BY <1>10, <1>14, <2>1, <2>2 DEF Rising
  <2> QED
    BY <2>1, <2>3
<1>17. RankedWalk(r2, lo2, hi2)'
  BY <1>2, <1>13, <1>16 DEF RankedWalk
<1>18. NULL \notin own
  <2>1. NULL \notin Nodes
    BY NullAssumption, NumSocketsAssumption DEF Nodes
  <2> QED
    BY <1>8, <2>1
<1>19. Seen(r2)'
  BY <1>2, <1>6, <1>8, <1>10, <1>14, <1>15, <1>18, SeenKept
<1> QED
  BY <1>12, <1>17, <1>19

-----------------------------------------------------------------------------
(* The steps of the poller.                                                 *)

\* At the beginning the rank of a node is its place in the list.
LEMMA RankedByIndex ==
    ASSUME NEW L, NEW nd, NEW c, Linked(L, nd, c)
    PROVE  \E r, lo, hi : Ranked(Range(c), nd, L.head, Range(c), r, lo, hi) /\ Rising(r, c)
<1>1. /\ c \in Seq(Nodes) /\ L.head = At(c, 1)
      /\ \A i, j \in DOMAIN c : c[i] = c[j] => i = j
      /\ \A i \in DOMAIN c : nd[c[i]].next = At(c, i + 1)
  BY DEF Linked, Chained
<1>2. /\ Len(c) \in Nat /\ DOMAIN c = 1 .. Len(c)
      /\ \A i \in 1 .. Len(c) : c[i] \in Nodes /\ c[i] \in Range(c) /\ At(c, i) = c[i]
      /\ \A i \in Int : i \notin 1 .. Len(c) => At(c, i) = NULL
      /\ \A n \in Nodes : n # NULL
  BY <1>1, SeqFacts, RangeFacts
<1>3. \A n \in Range(c) : \E i \in 1 .. Len(c) : n = c[i]
  BY <1>2, RangeFacts
<1> DEFINE place(n) == CHOOSE i \in 1 .. Len(c) : n = c[i]
           r == [n \in Nodes |-> IF n \in Range(c) THEN place(n) ELSE 0]
<1>4. \A i \in 1 .. Len(c) : place(c[i]) = i
  BY <1>1, <1>2
<1> HIDE DEF place
<1>5. r \in [Nodes -> Int] /\ \A i \in 1 .. Len(c) : r[c[i]] = i
  <2>1. \A i \in 1 .. Len(c) : r[c[i]] = i
    BY <1>2, <1>4
  <2>3. r = [n \in Nodes |-> r[n]] /\ \A n \in Nodes : n \notin Range(c) => r[n] = 0
    OBVIOUS
  <2> HIDE DEF r
  <2>4. \A i \in 1 .. Len(c) : r[c[i]] \in Int
    BY <2>1
  <2>5. ASSUME NEW n \in Range(c) PROVE r[n] \in Int
    BY <1>3, <2>4
  <2>2. \A n \in Nodes : r[n] \in Int
    BY <2>3, <2>5
  <2> QED
    BY <2>1, <2>2, <2>3
<1> HIDE DEF r
<1>6. Rising(r, c)
  BY <1>2, <1>5 DEF Rising
<1>7. PICK hi : hi = Len(c) + 1
  OBVIOUS
<1>8. \A i \in 1 .. Len(c) : 0 < r[c[i]] /\ r[c[i]] < hi
  BY <1>2, <1>5, <1>7
<1>9. Range(c) \subseteq Nodes
  BY <1>2, <1>3
<1>10. \A n, m \in Range(c) : r[n] = r[m] => n = m
  BY <1>3, <1>5
<1>11. L.head \in Range(c) \cup {NULL} /\ \A m \in Range(c) : Leads(r, L.head, m)
  <2>1. CASE Len(c) = 0
    <3>1. 1 \notin 1 .. Len(c) /\ Range(c) = {}
      BY <1>3, <2>1
    <3> QED
      BY <1>1, <1>2, <3>1
  <2>2. CASE Len(c) # 0
    <3>1. 1 \in 1 .. Len(c) /\ L.head = c[1]
      BY <1>1, <1>2, <2>2
    <3>2. ASSUME NEW m \in Range(c) PROVE Leads(r, c[1], m)
      <4>1. PICK j \in 1 .. Len(c) : m = c[j]
        BY <1>3
      <4>2. r[c[1]] = 1 /\ r[m] = j /\ 1 <= j /\ c[1] # NULL
        BY <1>2, <1>5, <3>1, <4>1
      <4> QED
        BY <4>2 DEF Leads
    <3> QED
      BY <1>2, <3>1, <3>2
  <2> QED
    BY <2>1, <2>2
<1>12. ASSUME NEW n \in Range(c) PROVE Follows(Range(c), Range(c), r, n, nd[n].next)
  <2>1. PICK i \in 1 .. Len(c) : n = c[i]
    BY <1>3
  <2>2. PICK z : z = nd[n].next
    OBVIOUS
  <2>3. z = At(c, i + 1) /\ r[n] = i
    BY <1>1, <1>2, <1>5, <2>1, <2>2
  <2>4. CASE i + 1 \in 1 .. Len(c)
    <3>1. z = c[i + 1] /\ r[z] = i + 1 /\ z \in Range(c) /\ z # NULL /\ r[n] < r[z]
      BY <1>2, <1>5, <2>1, <2>3, <2>4
    <3>2. ASSUME NEW m \in Range(c), r[n] < r[m] PROVE r[z] <= r[m]
      <4>1. PICK j \in 1 .. Len(c) : m = c[j]
        BY <1>3
      <4>2. r[m] = j /\ i < j
        BY <1>5, <2>3, <3>2, <4>1
      <4> QED
        BY <1>2, <3>1, <4>2
    <3> QED
      BY <2>2, <3>1, <3>2 DEF Follows, Leads
  <2>5. CASE i + 1 \notin 1 .. Len(c)
    <3>1. i + 1 \in Int
      OBVIOUS
    <3>2. z = NULL
      BY <1>2, <2>3, <2>5, <3>1
    <3>3. ASSUME NEW m \in Range(c) PROVE ~(r[n] < r[m])
      <4>1. PICK j \in 1 .. Len(c) : m = c[j]
        BY <1>3
      <4>2. r[m] = j /\ j <= Len(c) /\ ~(i + 1 <= Len(c))
        BY <1>2, <1>5, <2>5, <4>1
      <4>3. PICK k : k = Len(c)
        OBVIOUS
      <4> QED
        BY <1>2, <2>3, <4>2, <4>3
    <3> QED
      BY <2>2, <3>2, <3>3 DEF Follows
  <2> QED
    BY <2>4, <2>5
<1>13. \A n \in Range(c) : 0 < r[n] /\ r[n] < hi
  BY <1>3, <1>8
<1>14. 0 < hi /\ hi \in Int
  BY <1>2, <1>7
<1>15. Ranked(Range(c), nd, L.head, Range(c), r, 0, hi)
  BY <1>5, <1>9, <1>10, <1>11, <1>12, <1>13, <1>14 DEF Ranked
<1> QED
  BY <1>6, <1>15

\* A walk begins with the list as it is.
LEMMA ReceiveWatched ==
    ASSUME LwInv, LwInv', WatchInv, NEW q \in Ports, NEW d \in Dsts, Receive(q, d), Observe
    PROVE  WatchInv'
<1>0. Types /\ Poller
  BY DEF LwInv, Poller
<1>1. Unlisted'
  BY <1>0, UnlistedKept DEF WatchInv
<1>2. pc["poller"] = "idle" /\ pc'["poller"] = "iter_new"
  BY <1>0, ProcFacts DEF Receive, Transition, Types, ProcTypes
<1> SUFFICES ASSUME ~raced' PROVE Fresh' /\ \E r, lo, hi : RankedWalk(r, lo, hi)' /\ Seen(r)'
  BY <1>1, <1>2 DEF WatchInv
<1>3. Sound
  BY <1>0, RacedStays, LwSound
<1>4. /\ UNCHANGED <<sock_bind_table, list, list_bits, node, node_bits>>
      /\ packet' = [list |-> sock_bind_table[q], port |-> q, dst |-> d]
      /\ sock_bind_table[q] # NULL
  BY DEF Receive, lists, nodes, list_pool, node_pool
<1>5. PICK c, l : c = Chain(q) /\ l = sock_bind_table[q]
  OBVIOUS
<1>6. Linked(list[l], node, c) /\ Range(c) \subseteq node_bits /\ c \in Seq(Nodes)
  BY <1>3, <1>4, <1>5, ChainType DEF Sound, Shaped, Allocated
<1>7. Chain(q)' = c
  <2>1. LeavesLists
    BY <1>4, NothingWritten
  <2> QED
    BY <1>3, <1>5, <2>1, ListsLeft DEF Sound, SameLists
<1>8. packet'.port = q /\ packet'.list = l
  BY <1>4, <1>5
<1>9. /\ own' = Range(c) /\ stay' = c /\ visited' = <<>>
      /\ freed' = Elements({}, {l} \ list_bits)
  BY <1>2, <1>5, <1>8 DEF Observe, WatchInv
<1>10. PICK r, lo, hi : Ranked(Range(c), node, list[l].head, Range(c), r, lo, hi) /\ Rising(r, c)
  BY <1>6, RankedByIndex
<1>11. RankedWalk(r, lo, hi)'
  BY <1>4, <1>8, <1>9, <1>10 DEF RankedWalk
<1>12. Range(<<>>) = {} /\ Rising(r, <<>>)
  BY DEF Range, Rising
<1>13. Seen(r)'
  BY <1>2, <1>9, <1>12 DEF Seen
<1>14. Range(c) \subseteq Nodes
  BY <1>6, RangeFacts, SeqFacts
<1>15. Chain(packet.port)' = c
  BY <1>7, <1>8
<1>16. <<>> \in Seq(Nodes)
  OBVIOUS
<1>17. l \notin list_bits => <<"list", l>> \in freed'
  BY <1>9 DEF Elements
<1>18. Fresh'
  BY <1>4, <1>5, <1>6, <1>8, <1>9, <1>14, <1>15, <1>16, <1>17 DEF Fresh
<1> QED
  BY <1>11, <1>13, <1>18

\* The poller changes nothing but where it is in its walk.
LEMMA PollerWrites ==
    ASSUME LwInv, LwInv', WatchInv, PollerStep, Observe,
           pc["poller"] # "idle", pc'["poller"] # "idle", ~raced', ~reused'
    PROVE  /\ Fresh /\ packet' = packet /\ own' = own /\ stay' = stay
           /\ list' = list /\ node' = node
           /\ Iters /\ ~raced /\ ~reused
           /\ visited' = IF pc["poller"] = "visit" /\ pc'["poller"] # "visit"
                            /\ Len(visited) < MaxVisits
                         THEN Append(visited, curr["poller"]) ELSE visited
           /\ visited' \in Seq(Nodes) => Fresh'
<1>0. Poller
  BY DEF Poller
<1>1. ~raced /\ ~reused
  BY <1>0, RacedStays DEF Observe
<1>2. Sound /\ Sound'
  BY <1>1, LwSound, NextLwSound
<1>3. /\ UNCHANGED <<sock_bind_table, list, list_bits, node, node_bits>>
  BY <1>0, <1>2, PollerIdle DEF Sound
<1>4. packet' = packet
  <2>1. CASE Deliver
    BY <2>1 DEF Deliver
  <2>2. CASE Iterator("poller")
    <3>1. ~IterFreed("poller")
      BY <1>2, ProcFacts DEF IterFreed, AfterWalk, Transition, Sound, Types, ProcTypes
    <3> QED
      BY <2>2, <3>1 DEF Iterator, IterNew, IterGot, IterNext, IterAdvance, IterDestroy
  <2> QED
    BY <2>1, <2>2 DEF PollerStep
<1>5. Fresh /\ \E r, lo, hi : RankedWalk(r, lo, hi) /\ Seen(r)
  BY <1>1 DEF WatchInv
<1>6. PICK r, lo, hi : RankedWalk(r, lo, hi) /\ Seen(r)
  BY <1>5
<1>7. PICK p : p = packet.port
  OBVIOUS
<1>8. /\ p \in Ports /\ stay \in Seq(Nodes) /\ own \subseteq Nodes
      /\ Range(Chain(p)) \subseteq own /\ Range(stay) \subseteq Range(Chain(p))
  BY <1>5, <1>7 DEF Fresh
<1>9. Rising(r, stay) /\ r \in [Nodes -> Int]
  BY <1>6 DEF RankedWalk, Ranked
<1>10. Chain(p)' = Chain(p)
  <2>1. LeavesLists
    BY <1>3, NothingWritten
  <2> QED
    BY <1>2, <1>8, <2>1, ListsLeft DEF Sound, SameLists
<1>11. /\ WalkGoes(p) /\ Rising(r, stay')
       /\ visited' = IF pc["poller"] = "visit" /\ pc'["poller"] # "visit"
                        /\ Len(visited) < MaxVisits
                     THEN Append(visited, curr["poller"]) ELSE visited
  <2>1. Shaped'
    BY <1>2 DEF Sound
  <2> QED
    BY <1>4, <1>7, <1>8, <1>9, <2>1, WalkGoesOnBy
<1>12. own' = own /\ stay' \in Seq(Nodes) /\ Range(stay') = Range(stay) /\ freed \subseteq freed'
  BY <1>8, <1>10, <1>11 DEF WalkGoes
<1>13. stay' = stay
  <2>1. PICK s2 : s2 = stay'
    OBVIOUS
  <2>2. s2 = stay
    BY <1>8, <1>9, <1>11, <1>12, <2>1, SameOrder
  <2> QED
    BY <2>1, <2>2
<1>14. ASSUME visited' \in Seq(Nodes) PROVE Fresh'
  <2>1. Chain(packet.port)' = Chain(packet.port)
    BY <1>4, <1>7, <1>10
  <2> QED
    BY <1>3, <1>4, <1>5, <1>12, <1>13, <1>14, <2>1 DEF Fresh
<1> QED
  BY <1>1, <1>2, <1>3, <1>4, <1>5, <1>11, <1>12, <1>13, <1>14 DEF Sound, AppWalk, Iters

\* The steps of the iterator on the poller's own iterator.
LEMMA IteratorMoves ==
    ASSUME Types, Iters, ~raced, Iterator("poller"), pc'["poller"] # "idle"
    PROVE  LET n == curr["poller"]
               z == iter["poller"]
               n2 == curr'["poller"]
               z2 == iter'["poller"]
           IN \/ /\ pc["poller"] = "iter_new" /\ pc'["poller"] = "iter_alloc"
                 /\ n2 = list[packet.list].head
              \/ pc["poller"] = "iter_alloc" /\ pc'["poller"] = "crashed"
              \/ pc["poller"] = "iter_alloc" /\ pc'["poller"] = "next" /\ z2 = n
              \/ pc["poller"] = "next" /\ pc'["poller"] = "destroy" /\ n2 = z /\ z = NULL
              \/ pc["poller"] = "next" /\ pc'["poller"] = "advance" /\ n2 = z /\ z # NULL
              \/ /\ pc["poller"] = "advance" /\ pc'["poller"] = "visit"
                 /\ n \in Nodes /\ n2 = n /\ z2 = node[n].next
              \/ pc["poller"] = "destroy" /\ pc'["poller"] = "iter_free"
<1>0. /\ it["poller"] = "poller" /\ it \in [Procs -> Procs] /\ iter \in [Procs -> NodeOrNull]
      /\ curr \in [Procs -> NodeOrNull] /\ pc \in [Procs -> Steps]
      /\ pc["poller"] \in {"advance", "visit"} => curr["poller"] \in Nodes
      /\ "poller" \in Procs /\ "poller" # "app"
  BY ProcFacts DEF Iters, Types, ProcTypes
<1>1. CASE IterNew("poller")
  BY <1>0, <1>1 DEF IterNew, Transition
<1>2. CASE IterGot("poller")
  BY <1>0, <1>2 DEF IterGot, Transition
<1>3. CASE IterNext("poller")
  BY <1>0, <1>3 DEF IterNext, Transition
<1>4. CASE IterAdvance("poller")
  BY <1>0, <1>4 DEF IterAdvance, Transition
<1>5. CASE IterDestroy("poller")
  BY <1>0, <1>5 DEF IterDestroy, Transition
<1>6. CASE IterFreed("poller")
  BY <1>0, <1>6 DEF IterFreed, Transition, AfterWalk
<1> QED
  BY <1>1, <1>2, <1>3, <1>4, <1>5, <1>6 DEF Iterator

\* The iterator goes on past nodes that do not stay, never past one that does.
LEMMA IteratorSeen ==
    ASSUME Types, Iters, ~raced, Iterator("poller"), pc'["poller"] # "idle",
           own' = own, stay' = stay, visited' = visited, NULL \notin own,
           NEW r, NEW lo, NEW hi, RankedWalk(r, lo, hi), Seen(r)
    PROVE  Seen(r)'
<1>1. PICK O, S, V, n, z, n2, z2 :
         /\ O = own /\ S = Range(stay) /\ V = Range(visited)
         /\ n = curr["poller"] /\ z = iter["poller"] /\ n2 = curr'["poller"] /\ z2 = iter'["poller"]
  OBVIOUS
<1>2. Ranked(O, node, list[packet.list].head, S, r, lo, hi)
  BY <1>1 DEF RankedWalk
<1>3. /\ V \subseteq O /\ Rising(r, visited)
      /\ \A v \in V, m \in S : r[m] <= r[v] => m \in V
      /\ pc["poller"] \in {"iter_new", "iter_alloc"} => visited = <<>>
      /\ pc["poller"] \in {"iter_alloc", "advance", "visit"} => Ahead(r, n)
      /\ pc["poller"] = "next" => Ahead(r, z)
  BY <1>1 DEF Seen
<1>4. \A c : Ahead(r, c) => Ahead(r, c)'
  BY DEF Ahead
<1>5. /\ Range(visited') \subseteq own' /\ Rising(r, visited')
      /\ \A v \in Range(visited'), m \in Range(stay') : r[m] <= r[v] => m \in Range(visited')
  BY <1>1, <1>3
<1>6. CASE pc["poller"] = "iter_new" /\ pc'["poller"] = "iter_alloc" /\ n2 = list[packet.list].head
  <2>1. visited = <<>> /\ Range(<<>>) = {}
    BY <1>3, <1>6 DEF Range
  <2>2. Ahead(r, n2)'
    BY <1>1, <1>2, <1>6, <2>1 DEF Ahead, Ranked
  <2> QED
    BY <1>1, <1>5, <1>6, <2>1, <2>2 DEF Seen
<1>7. CASE pc'["poller"] \in {"crashed", "iter_free"}
  BY <1>5, <1>7 DEF Seen
<1>8. CASE pc["poller"] = "iter_alloc" /\ pc'["poller"] = "next" /\ z2 = n
  BY <1>1, <1>3, <1>4, <1>5, <1>8 DEF Seen
<1>9. CASE pc["poller"] = "next" /\ pc'["poller"] = "destroy" /\ n2 = z /\ z = NULL
  <2>1. S \subseteq V
    BY <1>1, <1>3, <1>9 DEF Ahead, Leads
  <2> QED
    BY <1>1, <1>5, <1>9, <2>1 DEF Seen
<1>10. CASE pc["poller"] = "next" /\ pc'["poller"] = "advance" /\ n2 = z
  BY <1>1, <1>3, <1>4, <1>5, <1>10 DEF Seen
<1>11. CASE /\ pc["poller"] = "advance" /\ pc'["poller"] = "visit"
            /\ n \in Nodes /\ n2 = n /\ z2 = node[n].next
  <2>1. n # NULL
    BY <1>11, NullAssumption, NumSocketsAssumption DEF Nodes
  <2>2. Ahead(r, n) /\ n \in O
    BY <1>1, <1>3, <1>11, <2>1 DEF Ahead
  <2>3. Follows(O, S, r, n, z2)
    BY <1>2, <1>11, <2>2 DEF Ranked
  <2> QED
    BY <1>1, <1>4, <1>5, <1>11, <2>2, <2>3 DEF Seen
<1> QED
  BY <1>1, <1>6, <1>7, <1>8, <1>9, <1>10, <1>11, IteratorMoves

\* A visit: the history is long enough to keep it.
LEMMA DeliverSeen ==
    ASSUME Types, Deliver, own' = own, stay' = stay, own \subseteq Nodes, visited \in Seq(Nodes),
           visited' = (IF pc["poller"] = "visit" /\ pc'["poller"] # "visit"
                          /\ Len(visited) < MaxVisits
                       THEN Append(visited, curr["poller"]) ELSE visited),
           NEW r, NEW lo, NEW hi, RankedWalk(r, lo, hi), Seen(r)
    PROVE  visited' \in Seq(Nodes) /\ Seen(r)'
<1>1. PICK O, S, V, n, z : /\ O = own /\ S = Range(stay) /\ V = Range(visited)
                           /\ n = curr["poller"] /\ z = iter["poller"]
  OBVIOUS
<1>2. /\ pc["poller"] = "visit" /\ pc'["poller"] \in {"destroy", "next"}
      /\ iter' = iter /\ curr' = curr
  BY ProcFacts DEF Deliver, Transition, Types, ProcTypes, iters
<1>3. /\ r \in [Nodes -> Int] /\ O \subseteq Nodes /\ S \subseteq O
      /\ \A a, b \in O : r[a] = r[b] => a = b
  BY <1>1 DEF RankedWalk, Ranked
<1>4. /\ V \subseteq O /\ Rising(r, visited)
      /\ \A v \in V, m \in S : r[m] <= r[v] => m \in V
      /\ Ahead(r, n) /\ n \in O /\ Follows(O, S, r, n, z)
  BY <1>1, <1>2 DEF Seen
<1>5. NULL \notin Nodes
  BY NullAssumption, NumSocketsAssumption DEF Nodes
<1>6. n \in Nodes /\ n # NULL /\ \A m \in O : r[m] \in Int
  BY <1>3, <1>4, <1>5
<1>7. /\ \A v \in V : r[v] < r[n]
      /\ \A m \in S : m \in V \/ r[n] <= r[m]
  BY <1>1, <1>4, <1>6 DEF Ahead, Leads
<1>8. PICK d : d = visited
  OBVIOUS
<1>9. d \in Seq(Nodes) /\ Rising(r, d) /\ V = Range(d)
  BY <1>1, <1>4, <1>8
<1>10. Len(d) < MaxVisits
  <2>1. \A i, j \in DOMAIN d : d[i] = d[j] => i = j
    BY <1>3, <1>9, RisingInjective
  <2>2. Len(d) <= NumSockets /\ Len(d) \in Nat
    BY <1>9, <2>1, ChainLength, SeqFacts
  <2> QED
    BY <2>2, NumSocketsAssumption DEF MaxVisits
<1>11. PICK e : e = Append(d, n)
  OBVIOUS
<1>12. visited' = e
  BY <1>1, <1>2, <1>8, <1>10, <1>11
<1>13. /\ e \in Seq(Nodes) /\ Len(d) \in Nat /\ DOMAIN d = 1 .. Len(d) /\ DOMAIN e = 1 .. Len(d) + 1
       /\ e[Len(d) + 1] = n /\ \A i \in 1 .. Len(d) : e[i] = d[i] /\ d[i] \in V
  BY <1>6, <1>9, <1>11, AppendElements, RangeFacts, SeqFacts
<1>14. \A k \in DOMAIN e : (k = Len(d) + 1 /\ e[k] = n) \/ (k \in 1 .. Len(d) /\ e[k] = d[k])
  BY <1>13
<1>15. Range(e) = V \cup {n}
  <2>1. ASSUME NEW x \in Range(e) PROVE x \in V \cup {n}
    <3>1. PICK k \in DOMAIN e : x = e[k]
      BY RangeFacts
    <3> QED
      BY <1>13, <1>14, <3>1
  <2>2. n \in Range(e)
    <3>1. Len(d) + 1 \in DOMAIN e
      BY <1>13
    <3> QED
      BY <1>13, <3>1, RangeFacts
  <2>3. ASSUME NEW x \in V PROVE x \in Range(e)
    <3>1. PICK k \in DOMAIN d : x = d[k]
      BY <1>9, RangeFacts
    <3>2. k \in DOMAIN e /\ e[k] = x
      BY <1>13, <3>1
    <3> QED
      BY <3>2, RangeFacts
  <2> QED
    BY <2>1, <2>2, <2>3
<1>16. Rising(r, e)
  <2>1. ASSUME NEW i \in DOMAIN e, NEW j \in DOMAIN e, i < j PROVE r[e[i]] < r[e[j]]
    <3>1. i \in 1 .. Len(d) /\ e[i] = d[i] /\ d[i] \in V
      BY <1>13, <2>1
    <3>2. CASE j \in 1 .. Len(d)
      BY <1>9, <1>13, <2>1, <3>1, <3>2 DEF Rising
    <3>3. CASE j = Len(d) + 1
      BY <1>7, <1>13, <3>1, <3>3
    <3> QED
      BY <1>14, <3>2, <3>3
  <2> QED
    BY <2>1 DEF Rising
<1>17. PICK W : W = V \cup {n}
  OBVIOUS
<1>18. ASSUME NEW v \in W, NEW m \in S, r[m] <= r[v] PROVE m \in W
  <2>1. CASE v \in V
    BY <1>4, <1>17, <1>18, <2>1
  <2>2. CASE v = n /\ m \notin V
    <3>1. r[m] = r[n]
      BY <1>3, <1>4, <1>6, <1>7, <1>18, <2>2
    <3> QED
      BY <1>3, <1>4, <1>17, <3>1
  <2> QED
    BY <1>17, <2>1, <2>2
<1>19. /\ z \in O \cup {NULL}
       /\ \A v \in W : z # NULL => r[v] < r[z]
       /\ \A m \in S : m \in W \/ Leads(r, z, m)
  <2>1. z \in O \cup {NULL} /\ (z # NULL => r[n] < r[z])
    BY <1>4 DEF Follows
  <2>2. ASSUME NEW v \in W, z # NULL PROVE r[v] < r[z]
    <3>1. r[v] \in Int /\ r[n] \in Int /\ r[z] \in Int
      BY <1>4, <1>6, <1>17, <2>1, <2>2
    <3> QED
      BY <1>7, <1>17, <2>1, <2>2, <3>1
  <2>3. ASSUME NEW m \in S, m \notin W PROVE Leads(r, z, m)
    <3>1. m \in O /\ m # n /\ r[n] <= r[m] /\ r[m] # r[n]
      BY <1>3, <1>4, <1>7, <1>17, <2>3
    <3>2. r[n] < r[m]
      BY <1>4, <1>6, <3>1
    <3> QED
      BY <1>4, <3>2 DEF Follows
  <2> QED
    BY <2>1, <2>2, <2>3
<1>20. Ahead(r, iter["poller"])'
  BY <1>1, <1>2, <1>12, <1>15, <1>17, <1>19 DEF Ahead
<1>21. W \subseteq O
  BY <1>4, <1>17
<1>22. pc'["poller"] = "destroy" => curr'["poller"] # NULL
  BY <1>1, <1>2, <1>6
<1>23. Seen(r)'
  BY <1>1, <1>2, <1>12, <1>15, <1>16, <1>17, <1>18, <1>20, <1>21, <1>22 DEF Seen
<1> QED
  BY <1>12, <1>13, <1>23

\* A step of the poller.
LEMMA PollerWatched ==
    ASSUME LwInv, LwInv', WatchInv, PollerStep, Observe, pc["poller"] # "idle"
    PROVE  WatchInv'
<1>0. Poller
  BY DEF Poller
<1>1. Unlisted' /\ (pc'["poller"] = "idle" => visited' = <<>> /\ stay' = <<>>)
  BY <1>0, UnlistedKept DEF WatchInv, Observe
<1> SUFFICES ASSUME pc'["poller"] # "idle", ~raced', ~reused'
             PROVE  Fresh' /\ \E r, lo, hi : RankedWalk(r, lo, hi)' /\ Seen(r)'
  BY <1>1 DEF WatchInv
<1>2. /\ Fresh /\ packet' = packet /\ own' = own /\ stay' = stay
      /\ list' = list /\ node' = node
      /\ Iters /\ ~raced /\ ~reused
      /\ visited' = IF pc["poller"] = "visit" /\ pc'["poller"] # "visit"
                       /\ Len(visited) < MaxVisits
                    THEN Append(visited, curr["poller"]) ELSE visited
      /\ visited' \in Seq(Nodes) => Fresh'
  BY PollerWrites
<1>3. \E r, lo, hi : RankedWalk(r, lo, hi) /\ Seen(r)
  BY <1>2 DEF WatchInv
<1>4. PICK r, lo, hi : RankedWalk(r, lo, hi) /\ Seen(r)
  BY <1>3
<1>5. Types /\ own \subseteq Nodes /\ visited \in Seq(Nodes)
  BY <1>2 DEF LwInv, Fresh
<1>6. RankedWalk(r, lo, hi)'
  BY <1>2, <1>4 DEF RankedWalk
<1>7. NULL \notin own
  <2>1. NULL \notin Nodes
    BY NullAssumption, NumSocketsAssumption DEF Nodes
  <2> QED
    BY <1>5, <2>1
<1>8. visited' \in Seq(Nodes) /\ Seen(r)'
  <2>1. CASE Deliver
    BY <1>2, <1>4, <1>5, <2>1, DeliverSeen
  <2>2. CASE Iterator("poller")
    <3>1. visited' = visited
      BY <1>2, <1>5, <2>2, IteratorMoves
    <3> QED
      BY <1>2, <1>4, <1>5, <1>7, <2>2, <3>1, IteratorSeen
  <2> QED
    BY <2>1, <2>2 DEF PollerStep
<1> QED
  BY <1>2, <1>6, <1>8

LEMMA SameWatched == ASSUME LwInv, WatchInv, UNCHANGED lw_vars PROVE WatchInv'
<1>1. /\ UNCHANGED <<sock_bind_table, list, node, node_bits, list_bits, req>>
      /\ UNCHANGED <<pc, iter, curr, packet, raced, own, stay, visited, freed, reused>>
  BY DEF lw_vars, lists, nodes, list_pool, node_pool, iters, request, history
<1>2. Unlisted' /\ (pc'["poller"] = "idle" => visited' = <<>> /\ stay' = <<>>)
  BY <1>1 DEF WatchInv, Unlisted
<1> SUFFICES ASSUME pc["poller"] # "idle", ~raced, ~reused
             PROVE  Fresh' /\ \E r, lo, hi : RankedWalk(r, lo, hi)' /\ Seen(r)'
  BY <1>1, <1>2 DEF WatchInv
<1>3. Fresh /\ \E r, lo, hi : RankedWalk(r, lo, hi) /\ Seen(r)
  BY DEF WatchInv
<1>4. PICK r, lo, hi : RankedWalk(r, lo, hi) /\ Seen(r)
  BY <1>3
<1>5. Chain(packet.port)' = Chain(packet.port)
  <2>1. PICK p \in Ports : p = packet.port
    BY <1>3 DEF Fresh
  <2>2. Chain(p)' = Chain(p)
    <3>1. LeavesLists
      BY <1>1, NothingWritten
    <3> QED
      BY <3>1, LwSound, ListsLeft DEF Sound, SameLists
  <2> QED
    BY <1>1, <2>1, <2>2
<1>6. Fresh'
  BY <1>1, <1>3, <1>5 DEF Fresh
<1>7. RankedWalk(r, lo, hi)'
  BY <1>1, <1>4 DEF RankedWalk
<1>8. Seen(r)'
  BY <1>1, <1>4 DEF Seen, Ahead
<1> QED
  BY <1>6, <1>7, <1>8

LEMMA InitWatched == LwInit => WatchInv
BY ProcFacts DEF LwInit, WatchInv, Unlisted

\* The invariant of the walk is inductive, given that of the lists.
LEMMA NextWatched == LwInv /\ LwInv' /\ WatchInv /\ [Next]_lw_vars => WatchInv'
<1> SUFFICES ASSUME LwInv, LwInv', WatchInv, [Next]_lw_vars PROVE WatchInv'
  OBVIOUS
<1>1. CASE UNCHANGED lw_vars
  BY <1>1, SameWatched
<1>2. CASE App /\ Observe
  BY <1>2, AppWatched
<1>3. CASE PollerStep /\ Observe
  <2>1. pc["poller"] # "idle"
    BY <1>3, ProcFacts DEF PollerStep, Deliver, Iterator, IterNew, IterGot, IterNext,
        IterAdvance, IterDestroy, IterFreed, Transition
  <2> QED
    BY <1>3, <2>1, PollerWatched
<1>4. ASSUME NEW p \in Ports, NEW d \in Dsts, Receive(p, d), Observe PROVE WatchInv'
  BY <1>4, ReceiveWatched
<1> QED
  BY <1>1, <1>2, <1>3, <1>4 DEF Next, Poller

-----------------------------------------------------------------------------
(* What a walk visits.                                                      *)

LEMMA WatchedOwn == LwInv /\ WatchInv => WalkOnlyOwn
<1> SUFFICES ASSUME LwInv, WatchInv, ~raced, ~reused PROVE Range(visited) \subseteq own
  BY DEF WalkOnlyOwn
<1>1. CASE pc["poller"] = "idle"
  <2>1. Range(<<>>) = {}
    BY DEF Range
  <2> QED
    BY <1>1, <2>1 DEF WatchInv
<1>2. CASE pc["poller"] # "idle"
  <2>1. PICK r : Seen(r)
    BY <1>2 DEF WatchInv
  <2> QED
    BY <2>1 DEF Seen
<1> QED
  BY <1>1, <1>2

\* Every node the poller visits, without a lock and whatever bind() and close()
\* do meanwhile, is one that was in the list of the packet's port at some time of
\* its walk, as long as nothing freed under it is allocated again.
THEOREM VisitedWereListed == Spec => []WalkOnlyOwn
<1>1. LwInit => LwInv /\ WatchInv
  BY InitLwInv, InitWatched
<1>2. LwInv /\ WatchInv /\ [Next]_lw_vars => (LwInv /\ WatchInv)'
  BY NextLwInv, NextWatched
<1> QED
  BY <1>1, <1>2, WatchedOwn, PTL DEF Spec

LEMMA WatchedStaying == LwInv /\ WatchInv => WalkVisitsStaying
<1> SUFFICES ASSUME LwInv, WatchInv, ~raced, ~reused
             PROVE  /\ IsInjective(visited)
                    /\ \E k \in 0 .. Len(stay) : Only(visited, Range(stay)) = SubSeq(stay, 1, k)
                    /\ pc["poller"] = "destroy" /\ curr["poller"] = NULL
                          => Only(visited, Range(stay)) = stay
  BY DEF WalkVisitsStaying
<1>1. CASE pc["poller"] = "idle"
  <2>1. visited = <<>> /\ stay = <<>>
    BY <1>1 DEF WatchInv
  <2>2. PICK S : S = Range(stay)
    OBVIOUS
  <2>3. Only(<<>>, S) = <<>>
    <3>1. Len(<<>>) = 0
      OBVIOUS
    <3>2. PICK of : Only(<<>>, S) = of[Len(<<>>)] /\ of[0] = <<>>
      BY <3>1, OnlySteps
    <3> QED
      BY <3>1, <3>2
  <2>4. SubSeq(<<>>, 1, 0) = <<>> /\ 0 \in 0 .. Len(<<>>) /\ DOMAIN <<>> = {}
    OBVIOUS
  <2>5. IsInjective(<<>>)
    BY <2>4 DEF IsInjective
  <2> QED
    BY <1>1, <2>1, <2>2, <2>3, <2>4, <2>5
<1>2. CASE pc["poller"] # "idle"
  <2>1. Fresh /\ \E r, lo, hi : RankedWalk(r, lo, hi) /\ Seen(r)
    BY <1>2 DEF WatchInv
  <2>2. PICK r, lo, hi : RankedWalk(r, lo, hi) /\ Seen(r)
    BY <2>1
  <2>3. visited \in Seq(Nodes) /\ stay \in Seq(Nodes)
    BY <2>1 DEF Fresh
  <2>4. r \in [Nodes -> Int] /\ Rising(r, stay) /\ Rising(r, visited)
    BY <2>2 DEF RankedWalk, Ranked, Seen
  <2>5. \A i \in DOMAIN visited : \A m \in Range(stay) :
           r[m] <= r[visited[i]] => m \in Range(visited)
    BY <2>2, RangeFacts DEF Seen
  <2>6. IsInjective(visited)
    BY <2>3, <2>4, RisingInjective DEF IsInjective
  <2>7. /\ \E k \in 0 .. Len(stay) : Only(visited, Range(stay)) = SubSeq(stay, 1, k)
        /\ Range(stay) \subseteq Range(visited) => Only(visited, Range(stay)) = stay
    BY <2>3, <2>4, <2>5, OnlyPrefix
  <2>8. pc["poller"] = "destroy" /\ curr["poller"] = NULL => Range(stay) \subseteq Range(visited)
    BY <2>2 DEF Seen
  <2> QED
    BY <2>6, <2>7, <2>8
<1> QED
  BY <1>1, <1>2

\* The bindings that stay in the list for the whole walk are visited in the order
\* of the list, each once, and all of them by a walk that comes to its end, though
\* bind() and close() link and unlink others around the poller.
THEOREM StayingVisited == Spec => []WalkVisitsStaying
<1>1. LwInit => LwInv /\ WatchInv
  BY InitLwInv, InitWatched
<1>2. LwInv /\ WatchInv /\ [Next]_lw_vars => (LwInv /\ WatchInv)'
  BY NextLwInv, NextWatched
<1> QED
  BY <1>1, <1>2, WatchedStaying, PTL DEF Spec
=============================================================================
