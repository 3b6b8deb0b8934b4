------------------------ MODULE ShmallocSharedProofs ------------------------
(***************************************************************************)
(* For every number of iterators: the types of ShmallocShared whatever the *)
(* race, and that calls which do not overlap are those of Shmalloc,        *)
(* although each is made of many steps and another process holds and uses  *)
(* an iterator meanwhile.                                                  *)
(***************************************************************************)
EXTENDS ShmallocShared, FiniteSetTheorems, TLAPS

\* What is proved of whole calls holds of the history.
WholeProofs == INSTANCE ShmallocProofs WITH
    ElemBytes <- 1, free_bitfield <- was.bits, n_free <- was.n_free,
    next_free <- was.next_free, ret <- was.ret

Allocating == {"take", "dec", "dec_store", "set_index", "set", "set_store",
               "full", "from", "search", "point"}
Freeing == {"clear", "clear_store", "inc", "inc_store", "one", "repoint"}

\* The memory is as the last call has left it.
Unchanged == free_bitfield = was.bits /\ n_free = was.n_free /\ next_free = was.next_free

\* The elements allocated when no call is under way are those the processes have,
\* each another one.
Held == /\ \A p \in Procs : has[p] # NULL <=> pc[p] \in {"holds"} \cup Freeing
        /\ was.bits = {has[p] : p \in Procs} \ {NULL}
        /\ \A p, q \in Procs : p # q => has[p] = NULL \/ has[p] # has[q]

\* The search has passed only allocated elements, and counts those it has left.
Searching(p) ==
    /\ reg[p].left = Size + 1 - Whole!Distance(reg[p].elem, reg[p].look)
    /\ \A k \in Idx \ free_bitfield :
          Whole!Distance(reg[p].elem, reg[p].look) <= Whole!Distance(reg[p].elem, k)

\* How far shmalloc has got, from what the last call has left.
AllocInv(p) ==
    /\ pc[p] \in Allocating => was.n_free # 0 /\ next_free = was.next_free
    /\ pc[p] \in Allocating \ {"take"} => reg[p].elem = was.next_free
    /\ pc[p] \in {"take", "dec", "dec_store"} => n_free = was.n_free /\ reg[p].n = n_free
    /\ pc[p] \in Allocating \ {"take", "dec", "dec_store"} => n_free = was.n_free - 1
    /\ pc[p] \in {"set_index", "set", "set_store", "full"} => reg[p].n = n_free
    /\ pc[p] \in Allocating \ {"full", "from", "search", "point"} =>
         free_bitfield = was.bits
    /\ pc[p] \in {"set", "set_store", "full", "from"} => reg[p].look = reg[p].elem
    /\ pc[p] = "set_store" => reg[p].bits = was.bits
    /\ pc[p] \in {"full", "from", "search", "point"} =>
         /\ free_bitfield = was.bits \cup {was.next_free}
         /\ reg[p].bits = free_bitfield
    /\ pc[p] \in {"from", "search", "point"} => n_free # 0
    /\ pc[p] = "search" => Searching(p)
    /\ pc[p] = "point" => Whole!FirstFreeAfter(reg[p].elem, free_bitfield, reg[p].look)

\* The same of shfree.
FreeInv(p) ==
    /\ pc[p] \in Freeing => reg[p].elem = has[p] /\ next_free = was.next_free
    /\ pc[p] \in {"clear", "clear_store"} =>
         free_bitfield = was.bits /\ reg[p].bits = was.bits
    /\ pc[p] \in Freeing \ {"clear", "clear_store"} => free_bitfield = was.bits \ {has[p]}
    /\ pc[p] \in Freeing \ {"one", "repoint"} => n_free = was.n_free
    /\ pc[p] = "inc_store" => reg[p].n = n_free
    /\ pc[p] \in {"one", "repoint"} => n_free = was.n_free + 1
    /\ pc[p] = "one" => reg[p].n = n_free
    /\ pc[p] = "repoint" => n_free = 1

\* No calls have overlapped.
Calm == /\ WholeProofs!IInv
        /\ Held
        /\ \A p \in Procs : pc[p] # "crashed"
        /\ \A p, q \in Procs : p # q => pc[p] \in Quiet \/ pc[q] \in Quiet
        /\ (\A p \in Procs : pc[p] \in Quiet) => Unchanged
        /\ \A p \in Procs : AllocInv(p) /\ FreeInv(p)

\* The inductive invariant.
ShIInv == ShTypeOK /\ (overlaps = 0 => Calm)

-----------------------------------------------------------------------------
(* Types.                                                                   *)

Regs == [elem : Idx, n : 0 .. Words - 1, bits : SUBSET Idx, look : Idx, left : 0 .. Size]

LEMMA Constants ==
    /\ Size \in Nat /\ Size >= 2 /\ Words \in Nat /\ Words > Size
    /\ MaxOverlaps \in Nat
    /\ 0 \in Idx /\ NULL \notin Idx
BY SharedSizeAssumption, WordsAssumption, OverlapsAssumption, SharedNullAssumption DEF Idx

\* The two processes.
LEMMA Two ==
    ASSUME NEW p \in Procs
    PROVE  Other(p) \in Procs /\ Other(p) # p /\ Procs = {p, Other(p)}
<1>1. \E q \in Procs : q # p
  BY DEF Procs
<1>2. Other(p) \in Procs /\ Other(p) # p
  BY <1>1 DEF Other
<1> QED
  BY <1>2 DEF Procs

\* A step changes the control of one process.
LEMMA Control ==
    ASSUME ShTypeOK, NEW p \in Procs, NEW from, NEW to \in Steps, Goes(p, from, to)
    PROVE  /\ pc[p] = from
           /\ pc' \in [Procs -> Steps]
           /\ pc'[p] = to
           /\ \A q \in Procs : q # p => pc'[q] = pc[q]
BY DEF Goes, ShTypeOK

\* A process has new registers.
LEMMA PutRegs ==
    ASSUME reg \in [Procs -> Regs], NEW p \in Procs, NEW r \in Regs,
           reg' = [reg EXCEPT ![p] = r]
    PROVE  reg' \in [Procs -> Regs] /\ reg'[p] = r
OBVIOUS

\* Registers after a step, one lemma for each choice of them.
LEMMA SetElem ==
    ASSUME ShTypeOK, NEW p \in Procs,
           NEW e \in Idx,
           reg' = [reg EXCEPT ![p].elem = e]
    PROVE  /\ reg' \in [Procs -> Regs]
           /\ reg'[p].elem = e /\ reg'[p].n = reg[p].n
           /\ reg'[p].bits = reg[p].bits /\ reg'[p].look = reg[p].look
           /\ reg'[p].left = reg[p].left
<1> DEFINE r == [reg[p] EXCEPT !.elem = e]
<1>1. reg \in [Procs -> Regs]
  BY DEF ShTypeOK, Regs
<1>2. /\ r \in Regs
      /\ r.elem = e /\ r.n = reg[p].n /\ r.bits = reg[p].bits
      /\ r.look = reg[p].look /\ r.left = reg[p].left
  BY <1>1 DEF Regs
<1>3. reg' = [reg EXCEPT ![p] = r]
  BY <1>1
<1> HIDE DEF r
<1>4. reg' \in [Procs -> Regs] /\ reg'[p] = r
  BY <1>1, <1>2, <1>3, PutRegs
<1> QED
  BY <1>2, <1>4

LEMMA SetN ==
    ASSUME ShTypeOK, NEW p \in Procs,
           NEW n \in 0 .. Words - 1,
           reg' = [reg EXCEPT ![p].n = n]
    PROVE  /\ reg' \in [Procs -> Regs]
           /\ reg'[p].elem = reg[p].elem /\ reg'[p].n = n
           /\ reg'[p].bits = reg[p].bits /\ reg'[p].look = reg[p].look
           /\ reg'[p].left = reg[p].left
<1> DEFINE r == [reg[p] EXCEPT !.n = n]
<1>1. reg \in [Procs -> Regs]
  BY DEF ShTypeOK, Regs
<1>2. /\ r \in Regs
      /\ r.elem = reg[p].elem /\ r.n = n /\ r.bits = reg[p].bits
      /\ r.look = reg[p].look /\ r.left = reg[p].left
  BY <1>1 DEF Regs
<1>3. reg' = [reg EXCEPT ![p] = r]
  BY <1>1
<1> HIDE DEF r
<1>4. reg' \in [Procs -> Regs] /\ reg'[p] = r
  BY <1>1, <1>2, <1>3, PutRegs
<1> QED
  BY <1>2, <1>4

LEMMA SetBits ==
    ASSUME ShTypeOK, NEW p \in Procs,
           NEW b \in SUBSET Idx,
           reg' = [reg EXCEPT ![p].bits = b]
    PROVE  /\ reg' \in [Procs -> Regs]
           /\ reg'[p].elem = reg[p].elem /\ reg'[p].n = reg[p].n
           /\ reg'[p].bits = b /\ reg'[p].look = reg[p].look
           /\ reg'[p].left = reg[p].left
<1> DEFINE r == [reg[p] EXCEPT !.bits = b]
<1>1. reg \in [Procs -> Regs]
  BY DEF ShTypeOK, Regs
<1>2. /\ r \in Regs
      /\ r.elem = reg[p].elem /\ r.n = reg[p].n /\ r.bits = b
      /\ r.look = reg[p].look /\ r.left = reg[p].left
  BY <1>1 DEF Regs
<1>3. reg' = [reg EXCEPT ![p] = r]
  BY <1>1
<1> HIDE DEF r
<1>4. reg' \in [Procs -> Regs] /\ reg'[p] = r
  BY <1>1, <1>2, <1>3, PutRegs
<1> QED
  BY <1>2, <1>4

LEMMA SetLook ==
    ASSUME ShTypeOK, NEW p \in Procs,
           NEW l \in Idx,
           reg' = [reg EXCEPT ![p].look = l]
    PROVE  /\ reg' \in [Procs -> Regs]
           /\ reg'[p].elem = reg[p].elem /\ reg'[p].n = reg[p].n
           /\ reg'[p].bits = reg[p].bits /\ reg'[p].look = l
           /\ reg'[p].left = reg[p].left
<1> DEFINE r == [reg[p] EXCEPT !.look = l]
<1>1. reg \in [Procs -> Regs]
  BY DEF ShTypeOK, Regs
<1>2. /\ r \in Regs
      /\ r.elem = reg[p].elem /\ r.n = reg[p].n /\ r.bits = reg[p].bits
      /\ r.look = l /\ r.left = reg[p].left
  BY <1>1 DEF Regs
<1>3. reg' = [reg EXCEPT ![p] = r]
  BY <1>1
<1> HIDE DEF r
<1>4. reg' \in [Procs -> Regs] /\ reg'[p] = r
  BY <1>1, <1>2, <1>3, PutRegs
<1> QED
  BY <1>2, <1>4

LEMMA SetSearch ==
    ASSUME ShTypeOK, NEW p \in Procs,
           NEW l \in Idx, NEW k \in 0 .. Size,
           reg' = [reg EXCEPT ![p].look = l, ![p].left = k]
    PROVE  /\ reg' \in [Procs -> Regs]
           /\ reg'[p].elem = reg[p].elem /\ reg'[p].n = reg[p].n
           /\ reg'[p].bits = reg[p].bits /\ reg'[p].look = l
           /\ reg'[p].left = k
<1> DEFINE r == [reg[p] EXCEPT !.look = l, !.left = k]
<1>1. reg \in [Procs -> Regs]
  BY DEF ShTypeOK, Regs
<1>2. /\ r \in Regs
      /\ r.elem = reg[p].elem /\ r.n = reg[p].n /\ r.bits = reg[p].bits
      /\ r.look = l /\ r.left = k
  BY <1>1 DEF Regs
<1>3. reg' = [reg EXCEPT ![p] = r]
  BY <1>1
<1> HIDE DEF r
<1>4. reg' \in [Procs -> Regs] /\ reg'[p] = r
  BY <1>1, <1>2, <1>3, PutRegs
<1> QED
  BY <1>2, <1>4

LEMMA ClearRegs ==
    ASSUME ShTypeOK, NEW p \in Procs, reg' = [reg EXCEPT ![p] = NoRegs]
    PROVE  reg' \in [Procs -> Regs]
BY Constants DEF ShTypeOK, Regs, NoRegs

\* The types after a step, from what it changes.
LEMMA TypesAfter ==
    ASSUME ShTypeOK, NEW p \in Procs, Remember(p), pc' \in [Procs -> Steps],
           \A q \in Procs : q # p => pc'[q] = pc[q] /\ has'[q] = has[q],
           free_bitfield' \subseteq Idx, n_free' \in 0 .. Words - 1, next_free' \in Idx,
           reg' \in [Procs -> Regs], has' \in [Procs -> Idx \cup {NULL}],
           pc'[p] \in {"holds", "clear"} => has'[p] \in Idx,
           overlaps' \in 0 .. MaxOverlaps
    PROVE  ShTypeOK'
<1> DEFINE W == [bits : SUBSET Idx, n_free : 0 .. Words - 1, next_free : Idx,
                 ret : Idx \cup {NULL}]
<1>1. was \in W /\ was.ret \in Idx \cup {NULL}
  BY DEF ShTypeOK
<1>2. has'[p] \in Idx \cup {NULL}
  OBVIOUS
<1>3. was' \in W
  BY <1>1, <1>2 DEF Remember
<1>4. \A q \in Procs : pc'[q] \in {"holds", "clear"} => has'[q] \in Idx
  BY DEF ShTypeOK
<1> QED
  BY <1>3, <1>4 DEF ShTypeOK, Regs

-----------------------------------------------------------------------------
(* Calls that do not overlap.                                               *)

LEMMA OtherQuiet ==
    ASSUME Calm, NEW p \in Procs, pc[p] \notin Quiet
    PROVE  pc[Other(p)] \in Quiet
BY Two DEF Calm

\* A process whose call is over, or not begun, has nothing to keep.
LEMMA QuietInv ==
    ASSUME NEW p \in Procs, pc[p] \in Quiet
    PROVE  AllocInv(p) /\ FreeInv(p)
BY DEF Quiet, AllocInv, FreeInv, Allocating, Freeing

\* A step within a call, or the first of one.
LEMMA InCall ==
    ASSUME Calm, NEW p \in Procs, pc[Other(p)] \in Quiet,
           \A q \in Procs : q # p => pc'[q] = pc[q],
           pc'[p] \in Allocating \cup Freeing, was' = was, has' = has,
           pc'[p] \in Freeing <=> pc[p] \in {"holds"} \cup Freeing,
           AllocInv(p)', FreeInv(p)'
    PROVE  Calm'
<1>1. PICK q \in Procs : q = Other(p) /\ q # p /\ Procs = {p, q}
  BY Two
<1>2. pc[q] \in Quiet /\ pc'[q] = pc[q]
  BY <1>1
<1>3. pc'[p] \notin Quiet /\ pc'[p] # "holds"
  BY DEF Quiet, Allocating, Freeing
<1>4. AllocInv(q)' /\ FreeInv(q)'
  BY <1>2 DEF Quiet, AllocInv, FreeInv, Allocating, Freeing
<1>5. WholeProofs!IInv'
  BY DEF Calm, WholeProofs!IInv, WholeProofs!TypeOK, WholeProofs!CountExact,
         WholeProofs!CursorFree
<1>6. Held'
  <2>1. has[p] # NULL <=> pc'[p] \in {"holds"} \cup Freeing
    BY <1>3 DEF Calm, Held
  <2>2. has[q] # NULL <=> pc'[q] \in {"holds"} \cup Freeing
    BY <1>2 DEF Calm, Held
  <2> QED
    BY <1>1, <2>1, <2>2 DEF Calm, Held
<1>7. pc'[p] # "crashed" /\ pc'[q] # "crashed"
  BY <1>2, <1>3 DEF Calm, Quiet
<1> QED
  BY <1>1, <1>2, <1>3, <1>4, <1>5, <1>6, <1>7 DEF Calm

\* The last step of a call.
LEMMA EndsCall ==
    ASSUME Calm, NEW p \in Procs, pc[Other(p)] \in Quiet,
           \A q \in Procs : q # p => pc'[q] = pc[q],
           pc'[p] \in {"idle", "holds"}, Unchanged', WholeProofs!IInv', Held'
    PROVE  Calm'
<1>1. PICK q \in Procs : q = Other(p) /\ q # p /\ Procs = {p, q}
  BY Two
<1>2. pc'[q] = pc[q] /\ pc'[q] \in Quiet /\ pc'[p] \in Quiet
  BY <1>1 DEF Quiet
<1>3. AllocInv(q)' /\ FreeInv(q)' /\ AllocInv(p)' /\ FreeInv(p)'
  BY <1>2 DEF Quiet, AllocInv, FreeInv, Allocating, Freeing
<1>4. pc'[p] # "crashed" /\ pc'[q] # "crashed"
  BY <1>2 DEF Calm
<1> QED
  BY <1>1, <1>2, <1>3, <1>4 DEF Calm
\* What a step within a call does to the control and to the history.
Moved(p, from, to) == /\ pc[p] = from
                      /\ pc' \in [Procs -> Steps]
                      /\ pc'[p] = to
                      /\ \A q \in Procs : q # p => pc'[q] = pc[q]
                      /\ was' = was

LEMMA Within ==
    ASSUME ShIInv, NEW p \in Procs, NEW from, NEW to \in Allocating \cup Freeing,
           Goes(p, from, to), Remember(p)
    PROVE  Moved(p, from, to)
<1>1. to \in Steps /\ to \notin Quiet
  BY DEF Allocating, Freeing, Steps, Quiet
<1>2. /\ pc[p] = from /\ pc' \in [Procs -> Steps] /\ pc'[p] = to
      /\ \A q \in Procs : q # p => pc'[q] = pc[q]
  BY <1>1, Control DEF ShIInv
<1> QED
  BY <1>1, <1>2 DEF Remember, Moved

\* What is left to show of a step within a call.
LEMMA Inside ==
    ASSUME ShIInv, NEW p \in Procs, Remember(p), NEW from, NEW to, Moved(p, from, to),
           \/ from \in Allocating /\ to \in Allocating
           \/ from \in Freeing /\ to \in Freeing \ {"clear"},
           free_bitfield' \subseteq Idx, n_free' \in 0 .. Words - 1, next_free' \in Idx,
           reg' \in [Procs -> Regs], UNCHANGED <<has, overlaps>>,
           Calm => AllocInv(p)' /\ FreeInv(p)'
    PROVE  ShIInv'
<1>1. /\ from \notin Quiet /\ from # "holds" /\ to # "holds" /\ to # "clear"
      /\ to \in Allocating \cup Freeing
      /\ to \in Freeing <=> from \in {"holds"} \cup Freeing
  BY DEF Allocating, Freeing, Quiet
<1>2. ShTypeOK'
  <2>1. has' \in [Procs -> Idx \cup {NULL}] /\ overlaps' \in 0 .. MaxOverlaps
    BY DEF ShIInv, ShTypeOK
  <2> QED
    BY <1>1, <2>1, TypesAfter DEF ShIInv, Moved
<1>3. ASSUME overlaps' = 0 PROVE Calm'
  <2>1. Calm
    BY <1>3 DEF ShIInv
  <2>2. pc[Other(p)] \in Quiet
    BY <1>1, <2>1, OtherQuiet DEF Moved
  <2> QED
    BY <1>1, <2>1, <2>2, InCall DEF Moved
<1> QED
  BY <1>2, <1>3 DEF ShIInv

\* The counter as an unsigned.
LEMMA Unsigned ==
    /\ \A n \in Int : n % Words \in 0 .. Words - 1
    /\ \A n \in 0 .. Words - 1 : n % Words = n
BY Constants

\* How far the search has to go.
LEMMA DistanceFacts ==
    ASSUME NEW i \in Idx, NEW j \in Idx
    PROVE  /\ NextIdx(j) \in Idx
           /\ Whole!Distance(i, j) \in 1 .. Size
           /\ Whole!Distance(i, NextIdx(i)) = 1
           /\ Whole!Distance(i, j) = Size <=> j = i
           /\ \A k \in Idx : Whole!Distance(i, k) = Whole!Distance(i, j) => k = j
           /\ Whole!Distance(i, j) < Size =>
                  Whole!Distance(i, NextIdx(j)) = Whole!Distance(i, j) + 1
BY Constants DEF Idx, NextIdx, Whole!Distance

-----------------------------------------------------------------------------
(* The steps of shmalloc.                                                   *)

LEMMA TakeNextInv ==
    ASSUME ShIInv, NEW p \in Procs, TakeNext(p), Remember(p)
    PROVE  ShIInv'
<1>1. Moved(p, "take", "dec")
  BY Within DEF TakeNext, Allocating, Freeing
<1>2. /\ reg' \in [Procs -> Regs]
      /\ reg'[p].elem = next_free /\ reg'[p].n = reg[p].n
      /\ reg'[p].bits = reg[p].bits /\ reg'[p].look = reg[p].look
      /\ reg'[p].left = reg[p].left
  BY SetElem DEF TakeNext, ShIInv, ShTypeOK
<1>3. /\ free_bitfield' \subseteq Idx /\ n_free' \in 0 .. Words - 1 /\ next_free' \in Idx
      /\ UNCHANGED <<memory, has, overlaps>>
  BY DEF TakeNext, ShIInv, ShTypeOK, memory
<1>4. ASSUME Calm PROVE AllocInv(p)' /\ FreeInv(p)'
  BY <1>1, <1>2, <1>3, <1>4
     DEF Moved, Calm, AllocInv, FreeInv, Allocating, Freeing, memory
<1> QED
  BY <1>1, <1>2, <1>3, <1>4, Inside DEF TakeNext, memory, Allocating, Freeing

LEMMA ReadCountInv ==
    ASSUME ShIInv, NEW p \in Procs, ReadCount(p), Remember(p)
    PROVE  ShIInv'
<1>1. Moved(p, "dec", "dec_store")
  BY Within DEF ReadCount, Allocating, Freeing
<1>2. PICK v \in {reg[p].n, n_free} :
      /\ reg' \in [Procs -> Regs]
      /\ reg'[p].elem = reg[p].elem /\ reg'[p].n = v
      /\ reg'[p].bits = reg[p].bits /\ reg'[p].look = reg[p].look
      /\ reg'[p].left = reg[p].left
  <2>1. \A v \in {reg[p].n, n_free} : v \in 0 .. Words - 1
    BY DEF ShIInv, ShTypeOK
  <2> QED
    BY <2>1, SetN DEF ReadCount, ShIInv
<1>3. /\ free_bitfield' \subseteq Idx /\ n_free' \in 0 .. Words - 1 /\ next_free' \in Idx
      /\ UNCHANGED <<memory, has, overlaps>>
  BY DEF ReadCount, ShIInv, ShTypeOK, memory
<1>4. ASSUME Calm PROVE AllocInv(p)' /\ FreeInv(p)'
  BY <1>1, <1>2, <1>3, <1>4
     DEF Moved, Calm, AllocInv, FreeInv, Allocating, Freeing, memory
<1> QED
  BY <1>1, <1>2, <1>3, <1>4, Inside DEF ReadCount, memory, Allocating, Freeing

LEMMA DecrementInv ==
    ASSUME ShIInv, NEW p \in Procs, Decrement(p), Remember(p)
    PROVE  ShIInv'
<1>1. Moved(p, "dec_store", "set_index")
  BY Within DEF Decrement, Allocating, Freeing
<1>2. /\ n_free' = (reg[p].n - 1) % Words
      /\ n_free' \in 0 .. Words - 1
      /\ reg' \in [Procs -> Regs]
      /\ reg'[p].elem = reg[p].elem /\ reg'[p].n = n_free'
      /\ reg'[p].bits = reg[p].bits /\ reg'[p].look = reg[p].look
      /\ reg'[p].left = reg[p].left
  <2>1. reg[p].n \in 0 .. Words - 1
    BY DEF ShIInv, ShTypeOK
  <2>2. n_free' = (reg[p].n - 1) % Words /\ n_free' \in 0 .. Words - 1
    BY <2>1, Unsigned DEF Decrement
  <2> QED
    BY <2>2, SetN DEF Decrement, ShIInv
<1>3. /\ free_bitfield' \subseteq Idx /\ next_free' \in Idx
      /\ UNCHANGED <<free_bitfield, next_free, has, overlaps>>
  BY DEF Decrement, ShIInv, ShTypeOK
<1>4. ASSUME Calm PROVE AllocInv(p)' /\ FreeInv(p)'
  <2>1. n_free' = was.n_free - 1
    <3>1. reg[p].n = was.n_free /\ was.n_free # 0 /\ reg[p].n \in 0 .. Words - 1
      BY <1>1, <1>4 DEF Moved, Calm, AllocInv, Allocating, ShIInv, ShTypeOK
    <3> QED
      BY <1>2, <3>1, Unsigned, Constants
  <2> QED
    BY <1>1, <1>2, <1>3, <1>4, <2>1
       DEF Moved, Calm, AllocInv, FreeInv, Allocating, Freeing
<1> QED
  BY <1>1, <1>2, <1>3, <1>4, Inside DEF Decrement, memory, Allocating, Freeing

LEMMA ReadIndexInv ==
    ASSUME ShIInv, NEW p \in Procs, ReadIndex(p), Remember(p)
    PROVE  ShIInv'
<1>1. Moved(p, "set_index", "set")
  BY Within DEF ReadIndex, Allocating, Freeing
<1>2. PICK j \in {reg[p].elem, next_free} :
      /\ reg' \in [Procs -> Regs]
      /\ reg'[p].elem = reg[p].elem /\ reg'[p].n = reg[p].n
      /\ reg'[p].bits = reg[p].bits /\ reg'[p].look = j
      /\ reg'[p].left = reg[p].left
  <2>1. \A j \in {reg[p].elem, next_free} : j \in Idx
    BY DEF ShIInv, ShTypeOK
  <2> QED
    BY <2>1, SetLook DEF ReadIndex, ShIInv
<1>3. /\ free_bitfield' \subseteq Idx /\ n_free' \in 0 .. Words - 1 /\ next_free' \in Idx
      /\ UNCHANGED <<memory, has, overlaps>>
  BY DEF ReadIndex, ShIInv, ShTypeOK, memory
<1>4. ASSUME Calm PROVE AllocInv(p)' /\ FreeInv(p)'
  BY <1>1, <1>2, <1>3, <1>4
     DEF Moved, Calm, AllocInv, FreeInv, Allocating, Freeing, memory
<1> QED
  BY <1>1, <1>2, <1>3, <1>4, Inside DEF ReadIndex, memory, Allocating, Freeing

LEMMA ReadBitsInv ==
    ASSUME ShIInv, NEW p \in Procs, ReadBits(p), Remember(p)
    PROVE  ShIInv'
<1>1. Moved(p, "set", "set_store")
  BY Within DEF ReadBits, Allocating, Freeing
<1>2. /\ reg' \in [Procs -> Regs]
      /\ reg'[p].elem = reg[p].elem /\ reg'[p].n = reg[p].n
      /\ reg'[p].bits = free_bitfield /\ reg'[p].look = reg[p].look
      /\ reg'[p].left = reg[p].left
  BY SetBits DEF ReadBits, ShIInv, ShTypeOK
<1>3. /\ free_bitfield' \subseteq Idx /\ n_free' \in 0 .. Words - 1 /\ next_free' \in Idx
      /\ UNCHANGED <<memory, has, overlaps>>
  BY DEF ReadBits, ShIInv, ShTypeOK, memory
<1>4. ASSUME Calm PROVE AllocInv(p)' /\ FreeInv(p)'
  BY <1>1, <1>2, <1>3, <1>4
     DEF Moved, Calm, AllocInv, FreeInv, Allocating, Freeing, memory
<1> QED
  BY <1>1, <1>2, <1>3, <1>4, Inside DEF ReadBits, memory, Allocating, Freeing

LEMMA SetBitInv ==
    ASSUME ShIInv, NEW p \in Procs, SetBit(p), Remember(p)
    PROVE  ShIInv'
<1>1. Moved(p, "set_store", "full")
  BY Within DEF SetBit, Allocating, Freeing
<1>2. /\ free_bitfield' = reg[p].bits \cup {reg[p].look} /\ free_bitfield' \subseteq Idx
      /\ reg' \in [Procs -> Regs]
      /\ reg'[p].elem = reg[p].elem /\ reg'[p].n = reg[p].n
      /\ reg'[p].bits = free_bitfield' /\ reg'[p].look = reg[p].look
      /\ reg'[p].left = reg[p].left
  <2>1. reg[p].bits \subseteq Idx /\ reg[p].look \in Idx
    BY DEF ShIInv, ShTypeOK
  <2>2. free_bitfield' = reg[p].bits \cup {reg[p].look} /\ free_bitfield' \in SUBSET Idx
    BY <2>1 DEF SetBit
  <2> QED
    BY <2>2, SetBits DEF SetBit, ShIInv
<1>3. /\ n_free' \in 0 .. Words - 1 /\ next_free' \in Idx
      /\ UNCHANGED <<n_free, next_free, has, overlaps>>
  BY DEF SetBit, ShIInv, ShTypeOK
<1>4. ASSUME Calm PROVE AllocInv(p)' /\ FreeInv(p)'
  BY <1>1, <1>2, <1>3, <1>4
     DEF Moved, Calm, AllocInv, FreeInv, Allocating, Freeing, memory
<1> QED
  BY <1>1, <1>2, <1>3, <1>4, Inside DEF SetBit, memory, Allocating, Freeing

LEMMA WasNotLastInv ==
    ASSUME ShIInv, NEW p \in Procs, WasNotLast(p), Remember(p)
    PROVE  ShIInv'
<1>1. Moved(p, "full", "from")
  BY Within DEF WasNotLast, Allocating, Freeing
<1>2. reg' = reg /\ reg' \in [Procs -> Regs]
  BY DEF WasNotLast, ShIInv, ShTypeOK, Regs
<1>3. /\ free_bitfield' \subseteq Idx /\ n_free' \in 0 .. Words - 1 /\ next_free' \in Idx
      /\ UNCHANGED <<memory, has, overlaps>>
  BY DEF WasNotLast, ShIInv, ShTypeOK, memory
<1>4. ASSUME Calm PROVE AllocInv(p)' /\ FreeInv(p)'
  <2>1. n_free # 0
    <3>1. reg[p].n = n_free
      BY <1>1, <1>4 DEF Moved, Calm, AllocInv
    <3> QED
      BY <3>1 DEF WasNotLast
  <2> QED
    BY <1>1, <1>2, <1>3, <1>4, <2>1
       DEF Moved, Calm, AllocInv, FreeInv, Allocating, Freeing, memory
<1> QED
  BY <1>1, <1>2, <1>3, <1>4, Inside DEF WasNotLast, memory, Allocating, Freeing

LEMMA SearchFromInv ==
    ASSUME ShIInv, NEW p \in Procs, SearchFrom(p), Remember(p)
    PROVE  ShIInv'
<1>1. Moved(p, "from", "search")
  BY Within DEF SearchFrom, Allocating, Freeing
<1>2. PICK j \in {reg[p].elem, reg[p].look, next_free} :
      /\ reg' \in [Procs -> Regs]
      /\ reg'[p].elem = reg[p].elem /\ reg'[p].n = reg[p].n
      /\ reg'[p].bits = reg[p].bits /\ reg'[p].look = NextIdx(j)
      /\ reg'[p].left = Size
  <2>1. \A j \in {reg[p].elem, reg[p].look, next_free} : NextIdx(j) \in Idx
    <3>1. \A j \in {reg[p].elem, reg[p].look, next_free} : j \in Idx
      BY DEF ShIInv, ShTypeOK
    <3> QED
      BY <3>1, DistanceFacts
  <2>2. Size \in 0 .. Size
    BY Constants
  <2>3. PICK j \in {reg[p].elem, reg[p].look, next_free} :
          reg' = [reg EXCEPT ![p].look = NextIdx(j), ![p].left = Size]
    BY DEF SearchFrom
  <2>4. ShTypeOK /\ NextIdx(j) \in Idx
    BY <2>1 DEF ShIInv
  <2> QED
    BY <2>2, <2>3, <2>4, SetSearch
<1>3. /\ free_bitfield' \subseteq Idx /\ n_free' \in 0 .. Words - 1 /\ next_free' \in Idx
      /\ UNCHANGED <<memory, has, overlaps>>
  BY DEF SearchFrom, ShIInv, ShTypeOK, memory
<1>4. ASSUME Calm PROVE AllocInv(p)' /\ FreeInv(p)'
  <2>1. /\ reg[p].elem = was.next_free /\ reg[p].elem \in Idx
        /\ reg[p].look = reg[p].elem /\ next_free = reg[p].elem
    BY <1>1, <1>4 DEF Moved, Calm, AllocInv, Allocating, ShIInv, ShTypeOK
  <2>2. reg'[p].elem = reg[p].elem /\ reg'[p].look = NextIdx(reg[p].elem)
    BY <1>2, <2>1
  <2>3. Searching(p)'
    <3>1. Whole!Distance(reg'[p].elem, reg'[p].look) = 1
      BY <2>1, <2>2, DistanceFacts
    <3>2. \A k \in Idx : 1 <= Whole!Distance(reg'[p].elem, k)
      BY <2>1, <2>2, DistanceFacts
    <3> QED
      BY <1>2, <3>1, <3>2, Constants DEF Searching, Whole!Distance
  <2> QED
    BY <1>1, <1>2, <1>3, <1>4, <2>3
       DEF Moved, Calm, AllocInv, FreeInv, Allocating, Freeing, memory
<1> QED
  BY <1>1, <1>2, <1>3, <1>4, Inside DEF SearchFrom, memory, Allocating, Freeing

LEMMA FoundInv ==
    ASSUME ShIInv, NEW p \in Procs, Found(p), Remember(p)
    PROVE  ShIInv'
<1>1. Moved(p, "search", "point")
  BY Within DEF Found, Allocating, Freeing
<1>2. reg' = reg /\ reg' \in [Procs -> Regs]
  BY DEF Found, ShIInv, ShTypeOK, Regs
<1>3. /\ free_bitfield' \subseteq Idx /\ n_free' \in 0 .. Words - 1 /\ next_free' \in Idx
      /\ UNCHANGED <<memory, has, overlaps>>
  BY DEF Found, ShIInv, ShTypeOK, memory
<1>4. ASSUME Calm PROVE AllocInv(p)' /\ FreeInv(p)'
  <2>1. reg[p].look \in Idx \ free_bitfield
    <3>1. reg[p].bits = free_bitfield
      BY <1>1, <1>4 DEF Moved, Calm, AllocInv
    <3>2. reg[p].look \in Idx
      BY DEF ShIInv, ShTypeOK
    <3> QED
      BY <3>1, <3>2 DEF Found
  <2>2. Searching(p)
    BY <1>1, <1>4 DEF Moved, Calm, AllocInv
  <2>3. Whole!FirstFreeAfter(reg[p].elem, free_bitfield, reg[p].look)
    BY <2>1, <2>2 DEF Searching, Whole!FirstFreeAfter, Whole!Idx, Idx
  <2>4. Whole!FirstFreeAfter(reg[p].elem, free_bitfield, reg[p].look)'
    BY <1>2, <1>3, <2>3 DEF Whole!FirstFreeAfter, Whole!Idx, memory
  <2> QED
    BY <1>1, <1>2, <1>3, <1>4, <2>4
       DEF Moved, Calm, AllocInv, FreeInv, Allocating, Freeing, memory
<1> QED
  BY <1>1, <1>2, <1>3, <1>4, Inside DEF Found, memory, Allocating, Freeing

LEMMA GoesOnInv ==
    ASSUME ShIInv, NEW p \in Procs, GoesOn(p), Remember(p)
    PROVE  ShIInv'
<1>1. Moved(p, "search", "search")
  BY Within DEF GoesOn, Allocating, Freeing
<1>2. PICK b \in {reg[p].bits, free_bitfield} :
      /\ reg[p].look \in b /\ reg[p].left > 1
      /\ reg' \in [Procs -> Regs]
      /\ reg'[p].elem = reg[p].elem /\ reg'[p].n = reg[p].n /\ reg'[p].bits = b
      /\ reg'[p].look = NextIdx(reg[p].look) /\ reg'[p].left = reg[p].left - 1
  <2>1. PICK b \in {reg[p].bits, free_bitfield} :
          /\ reg[p].look \in b /\ reg[p].left > 1
          /\ reg' = [reg EXCEPT ![p].bits = b, ![p].look = NextIdx(@), ![p].left = @ - 1]
    BY DEF GoesOn
  <2>2. /\ reg \in [Procs -> Regs] /\ ShTypeOK
        /\ b \in SUBSET Idx /\ reg[p].look \in Idx /\ reg[p].left \in 0 .. Size
    BY <2>1 DEF ShIInv, ShTypeOK, Regs
  <2> DEFINE r == [reg[p] EXCEPT !.bits = b, !.look = NextIdx(@), !.left = @ - 1]
  <2>3. NextIdx(reg[p].look) \in Idx /\ reg[p].left - 1 \in 0 .. Size
    BY <2>1, <2>2, DistanceFacts, Constants
  <2>4. /\ r \in Regs
        /\ r.elem = reg[p].elem /\ r.n = reg[p].n /\ r.bits = b
        /\ r.look = NextIdx(reg[p].look) /\ r.left = reg[p].left - 1
    BY <2>2, <2>3 DEF Regs
  <2>5. reg' = [reg EXCEPT ![p] = r]
    BY <2>1, <2>2
  <2> HIDE DEF r
  <2>6. reg' \in [Procs -> Regs] /\ reg'[p] = r
    BY <2>2, <2>4, <2>5, PutRegs
  <2> QED
    BY <2>1, <2>4, <2>6
<1>3. /\ free_bitfield' \subseteq Idx /\ n_free' \in 0 .. Words - 1 /\ next_free' \in Idx
      /\ UNCHANGED <<memory, has, overlaps>>
  BY DEF GoesOn, ShIInv, ShTypeOK, memory
<1>4. ASSUME Calm PROVE AllocInv(p)' /\ FreeInv(p)'
  <2> DEFINE i == reg[p].elem
             j == reg[p].look
  <2>1. /\ i \in Idx /\ j \in Idx /\ b = free_bitfield /\ Searching(p)
        /\ free_bitfield' = free_bitfield
    BY <1>1, <1>3, <1>4 DEF Moved, Calm, AllocInv, ShIInv, ShTypeOK, memory
  <2>2. reg'[p].elem = i /\ reg'[p].look = NextIdx(j) /\ reg'[p].left = reg[p].left - 1
    BY <1>2
  <2>3. reg[p].left = Size + 1 - Whole!Distance(i, j) /\ reg[p].left > 1
    BY <1>2, <2>1 DEF Searching
  <2>4. \A k \in Idx \ free_bitfield :
           Whole!Distance(i, j) <= Whole!Distance(i, k) /\ k # j
    BY <1>2, <2>1 DEF Searching
  <2> HIDE DEF i, j
  <2>5. Whole!Distance(i, NextIdx(j)) = Whole!Distance(i, j) + 1
    BY <2>1, <2>3, DistanceFacts, Constants
  <2>6. \A k \in Idx : Whole!Distance(i, k) \in Nat
    BY <2>1, DistanceFacts
  <2>7. \A k \in Idx \ free_bitfield : Whole!Distance(i, j) + 1 <= Whole!Distance(i, k)
    BY <2>1, <2>4, <2>6, DistanceFacts
  <2>8. \A k \in Idx \ free_bitfield' :
           Whole!Distance(i, NextIdx(j)) <= Whole!Distance(i, k)
    BY <2>1, <2>5, <2>7
  <2>9. reg'[p].left = Size + 1 - Whole!Distance(i, NextIdx(j))
    BY <2>1, <2>2, <2>3, <2>5, <2>6, Constants
  <2>10. Searching(p)'
    BY <2>2, <2>8, <2>9 DEF Searching, Whole!Distance
  <2> QED
    BY <1>1, <1>2, <1>3, <1>4, <2>1, <2>10
       DEF Moved, Calm, AllocInv, FreeInv, Allocating, Freeing, memory
<1> QED
  BY <1>1, <1>2, <1>3, <1>4, Inside DEF GoesOn, memory, Allocating, Freeing

-----------------------------------------------------------------------------
(* The steps of shfree.                                                     *)

LEMMA ReadToClearInv ==
    ASSUME ShIInv, NEW p \in Procs, ReadToClear(p), Remember(p)
    PROVE  ShIInv'
<1>1. Moved(p, "clear", "clear_store")
  BY Within DEF ReadToClear, Allocating, Freeing
<1>2. PICK b \in {reg[p].bits, free_bitfield} :
      /\ reg' \in [Procs -> Regs]
      /\ reg'[p].elem = reg[p].elem /\ reg'[p].n = reg[p].n /\ reg'[p].bits = b
      /\ reg'[p].look = reg[p].look /\ reg'[p].left = reg[p].left
  <2>1. \A b \in {reg[p].bits, free_bitfield} : b \in SUBSET Idx
    BY DEF ShIInv, ShTypeOK
  <2> QED
    BY <2>1, SetBits DEF ReadToClear, ShIInv
<1>3. /\ free_bitfield' \subseteq Idx /\ n_free' \in 0 .. Words - 1 /\ next_free' \in Idx
      /\ UNCHANGED <<memory, has, overlaps>>
  BY DEF ReadToClear, ShIInv, ShTypeOK, memory
<1>4. ASSUME Calm PROVE AllocInv(p)' /\ FreeInv(p)'
  BY <1>1, <1>2, <1>3, <1>4
     DEF Moved, Calm, AllocInv, FreeInv, Allocating, Freeing, memory
<1> QED
  BY <1>1, <1>2, <1>3, <1>4, Inside DEF ReadToClear, memory, Allocating, Freeing

LEMMA ClearBitInv ==
    ASSUME ShIInv, NEW p \in Procs, ClearBit(p), Remember(p)
    PROVE  ShIInv'
<1>1. Moved(p, "clear_store", "inc")
  BY Within DEF ClearBit, Allocating, Freeing
<1>2. reg' = reg /\ reg' \in [Procs -> Regs]
  BY DEF ClearBit, ShIInv, ShTypeOK, Regs
<1>3. /\ free_bitfield' \subseteq Idx /\ n_free' \in 0 .. Words - 1 /\ next_free' \in Idx
      /\ free_bitfield' = reg[p].bits \ {reg[p].elem}
      /\ UNCHANGED <<n_free, next_free, has, overlaps>>
  BY DEF ClearBit, ShIInv, ShTypeOK
<1>4. ASSUME Calm PROVE AllocInv(p)' /\ FreeInv(p)'
  BY <1>1, <1>2, <1>3, <1>4
     DEF Moved, Calm, AllocInv, FreeInv, Allocating, Freeing, memory
<1> QED
  BY <1>1, <1>2, <1>3, <1>4, Inside DEF ClearBit, memory, Allocating, Freeing

LEMMA ReadToIncrementInv ==
    ASSUME ShIInv, NEW p \in Procs, ReadToIncrement(p), Remember(p)
    PROVE  ShIInv'
<1>1. Moved(p, "inc", "inc_store")
  BY Within DEF ReadToIncrement, Allocating, Freeing
<1>2. /\ reg' \in [Procs -> Regs]
      /\ reg'[p].elem = reg[p].elem /\ reg'[p].n = n_free
      /\ reg'[p].bits = reg[p].bits /\ reg'[p].look = reg[p].look
      /\ reg'[p].left = reg[p].left
  BY SetN DEF ReadToIncrement, ShIInv, ShTypeOK
<1>3. /\ free_bitfield' \subseteq Idx /\ n_free' \in 0 .. Words - 1 /\ next_free' \in Idx
      /\ UNCHANGED <<memory, has, overlaps>>
  BY DEF ReadToIncrement, ShIInv, ShTypeOK, memory
<1>4. ASSUME Calm PROVE AllocInv(p)' /\ FreeInv(p)'
  BY <1>1, <1>2, <1>3, <1>4
     DEF Moved, Calm, AllocInv, FreeInv, Allocating, Freeing, memory
<1> QED
  BY <1>1, <1>2, <1>3, <1>4, Inside DEF ReadToIncrement, memory, Allocating, Freeing

LEMMA WholeConstants == Size \in Nat \ {0} /\ 1 \in Nat \ {0} /\ NULL \notin Nat
BY Constants, SharedNullAssumption

\* An element that is allocated was counted.
LEMMA OneIsTaken ==
    ASSUME WholeProofs!IInv, was.bits # {}
    PROVE  was.n_free \in 0 .. Size - 1
BY WholeConstants, WholeProofs!SomeTaken DEF WholeProofs!IInv, WholeProofs!TypeOK

LEMMA IncrementInv ==
    ASSUME ShIInv, NEW p \in Procs, Increment(p), Remember(p)
    PROVE  ShIInv'
<1>1. Moved(p, "inc_store", "one")
  BY Within DEF Increment, Allocating, Freeing
<1>2. /\ n_free' = (reg[p].n + 1) % Words
      /\ n_free' \in 0 .. Words - 1
      /\ reg' \in [Procs -> Regs]
      /\ reg'[p].elem = reg[p].elem /\ reg'[p].n = n_free'
      /\ reg'[p].bits = reg[p].bits /\ reg'[p].look = reg[p].look
      /\ reg'[p].left = reg[p].left
  <2>1. reg[p].n \in 0 .. Words - 1
    BY DEF ShIInv, ShTypeOK
  <2>2. n_free' = (reg[p].n + 1) % Words /\ n_free' \in 0 .. Words - 1
    BY <2>1, Unsigned DEF Increment
  <2> QED
    BY <2>2, SetN DEF Increment, ShIInv
<1>3. /\ free_bitfield' \subseteq Idx /\ next_free' \in Idx
      /\ UNCHANGED <<free_bitfield, next_free, has, overlaps>>
  BY DEF Increment, ShIInv, ShTypeOK
<1>4. ASSUME Calm PROVE AllocInv(p)' /\ FreeInv(p)'
  <2>1. n_free' = was.n_free + 1
    <3>1. has[p] \in was.bits
      BY <1>1, <1>4 DEF Moved, Calm, Held, Freeing
    <3>2. reg[p].n = was.n_free
      BY <1>1, <1>4 DEF Moved, Calm, FreeInv, Freeing
    <3>3. was.n_free + 1 \in 0 .. Words - 1
      BY <1>4, <3>1, OneIsTaken, Constants DEF Calm
    <3> QED
      BY <1>2, <3>2, <3>3, Unsigned
  <2> QED
    BY <1>1, <1>2, <1>3, <1>4, <2>1
       DEF Moved, Calm, AllocInv, FreeInv, Allocating, Freeing
<1> QED
  BY <1>1, <1>2, <1>3, <1>4, Inside DEF Increment, memory, Allocating, Freeing

LEMMA WasEmptyInv ==
    ASSUME ShIInv, NEW p \in Procs, WasEmpty(p), Remember(p)
    PROVE  ShIInv'
<1>1. Moved(p, "one", "repoint")
  BY Within DEF WasEmpty, Allocating, Freeing
<1>2. reg' = reg /\ reg' \in [Procs -> Regs]
  BY DEF WasEmpty, ShIInv, ShTypeOK, Regs
<1>3. /\ free_bitfield' \subseteq Idx /\ n_free' \in 0 .. Words - 1 /\ next_free' \in Idx
      /\ UNCHANGED <<memory, has, overlaps>>
  BY DEF WasEmpty, ShIInv, ShTypeOK, memory
<1>4. ASSUME Calm PROVE AllocInv(p)' /\ FreeInv(p)'
  <2>1. n_free = 1
    <3>1. reg[p].n = n_free
      BY <1>1, <1>4 DEF Moved, Calm, FreeInv
    <3> QED
      BY <3>1 DEF WasEmpty
  <2> QED
    BY <1>1, <1>2, <1>3, <1>4, <2>1
       DEF Moved, Calm, AllocInv, FreeInv, Allocating, Freeing, memory
<1> QED
  BY <1>1, <1>2, <1>3, <1>4, Inside DEF WasEmpty, memory, Allocating, Freeing

-----------------------------------------------------------------------------
(* The last step of a call is a call of Shmalloc.                           *)

LEMMA Stride == Whole!Stride = 1
<1>1. 1 + 64 - 1 = 64 /\ 64 \div 64 = 1
  OBVIOUS
<1> QED
  BY <1>1 DEF Whole!Stride

\* Elements of 1 byte are named by their address.
LEMMA ReleaseIsFree == ASSUME NEW i \in Idx, Whole!Release(i) PROVE Whole!Next
<1>1. i * 1 = i /\ i \div 1 = i /\ Size * 1 = Size /\ i \in -1 .. Size
  BY Constants DEF Idx
<1>2. Size * Whole!Stride = Size /\ i \div Whole!Stride = i
  BY <1>1, Stride
<1>3. Whole!InPool(i)
  BY <1>2, Constants DEF Whole!InPool, Idx
<1>4. Whole!Shfree(i)
  BY <1>2, <1>3 DEF Whole!Shfree, Whole!Release
<1> QED
  BY <1>1, <1>2, <1>4 DEF Whole!Next

LEMMA Recorded ==
    ASSUME ShIInv, NEW p \in Procs, NEW from, NEW to \in {"holds", "idle"},
           Goes(p, from, to), Remember(p), overlaps' = 0
    PROVE  /\ Unchanged'
           /\ was'.ret = IF to = "idle" THEN was.ret ELSE has'[p]
<1>1. to \in Steps /\ to \in Quiet
  BY DEF Steps, Quiet
<1>2. pc'[p] = to
  BY <1>1, Control DEF ShIInv
<1> QED
  BY <1>1, <1>2 DEF Remember, Unchanged

\* What shmalloc has done when it returns.
Allocated(p) ==
    /\ was.n_free # 0 /\ reg[p].elem = was.next_free
    /\ free_bitfield = was.bits \cup {was.next_free}
    /\ n_free = was.n_free - 1
    /\ IF n_free = 0 THEN next_free' = was.next_free
       ELSE Whole!FirstFreeAfter(was.next_free, free_bitfield, next_free')

LEMMA Returned ==
    ASSUME ShIInv, NEW p \in Procs, NEW from \in Allocating, Goes(p, from, "holds"),
           Returns(p), Remember(p), next_free' \in Idx, Calm => Allocated(p)
    PROVE  ShIInv' /\ (overlaps' = 0 => Whole!Next)
<1> DEFINE q == Other(p)
<1>1. q \in Procs /\ q # p /\ Procs = {p, q}
  BY Two
<1> HIDE DEF q
<1>2. /\ pc[p] = from /\ pc' \in [Procs -> Steps] /\ pc'[p] = "holds"
      /\ \A r \in Procs : r # p => pc'[r] = pc[r]
  BY Control DEF ShIInv, Steps, Quiet
<1>3. /\ has' \in [Procs -> Idx \cup {NULL}] /\ has'[p] = reg[p].elem /\ has'[p] \in Idx
      /\ \A r \in Procs : r # p => has'[r] = has[r]
  BY DEF Returns, ShIInv, ShTypeOK
<1>4. /\ free_bitfield' = free_bitfield /\ n_free' = n_free /\ overlaps' = overlaps
      /\ free_bitfield' \subseteq Idx /\ n_free' \in 0 .. Words - 1
      /\ overlaps' \in 0 .. MaxOverlaps /\ reg' \in [Procs -> Regs]
  BY ClearRegs DEF Returns, ShIInv, ShTypeOK
<1>5. ShTypeOK'
  BY <1>2, <1>3, <1>4, TypesAfter DEF ShIInv
<1>6. ASSUME overlaps' = 0
      PROVE  Calm' /\ Whole!Next
  <2>1. Calm /\ Allocated(p)
    BY <1>4, <1>6 DEF ShIInv
  <2>2. Unchanged' /\ was'.ret = has'[p]
    BY <1>6, Recorded
  <2>3. Whole!ShmallocSucceeds /\ WholeProofs!ShmallocSucceeds
    <3>1. /\ was.n_free # 0 /\ was'.ret = was.next_free
          /\ was'.n_free = was.n_free - 1
          /\ was'.bits = was.bits \cup {was.next_free}
      BY <1>3, <1>4, <2>1, <2>2 DEF Unchanged, Allocated
    <3>2. CASE was'.n_free = 0
      <4>1. was'.next_free = was.next_free
        BY <1>4, <2>1, <2>2, <3>2 DEF Unchanged, Allocated
      <4> QED
        BY <3>1, <3>2, <4>1 DEF Whole!ShmallocSucceeds, WholeProofs!ShmallocSucceeds
    <3>3. CASE was'.n_free # 0
      <4>1. /\ was'.next_free \in Idx
            /\ Whole!FirstFreeAfter(was.next_free, was'.bits, was'.next_free)
        BY <1>4, <2>1, <2>2, <3>3 DEF Unchanged, Allocated
      <4>2. WholeProofs!FirstFreeAfter(was.next_free, was'.bits, was'.next_free)
        BY <4>1 DEF Whole!FirstFreeAfter, WholeProofs!FirstFreeAfter, Whole!Idx,
                    WholeProofs!Idx, Whole!Distance, WholeProofs!Distance
      <4> QED
        BY <3>1, <3>3, <4>1, <4>2
           DEF Whole!ShmallocSucceeds, WholeProofs!ShmallocSucceeds, Whole!Idx,
               WholeProofs!Idx, Idx
    <3> QED
      BY <3>2, <3>3
  <2>4. WholeProofs!IInv'
    BY <2>1, <2>3, WholeConstants, WholeProofs!SucceedsIInv DEF Calm
  <2>5. Held'
    <3>1. has[p] = NULL
      BY <1>2, <2>1 DEF Calm, Held, Allocating, Freeing
    <3>2. was.bits = {has[q]} \ {NULL}
      BY <1>1, <2>1, <3>1 DEF Calm, Held
    <3>3. was'.bits = was.bits \cup {has'[p]}
      BY <1>3, <1>4, <2>1, <2>2 DEF Allocated, Unchanged
    <3>4. has'[p] \notin was.bits /\ has'[p] # NULL
      BY <1>3, <2>1, Constants
         DEF Calm, Allocated, WholeProofs!IInv, WholeProofs!CursorFree
    <3>5. has'[q] = has[q] /\ pc'[q] = pc[q]
      BY <1>1, <1>2, <1>3
    <3>6. was'.bits = {has'[p], has'[q]} \ {NULL}
      BY <3>2, <3>3, <3>4, <3>5
    <3>7. has'[q] = NULL \/ has'[q] # has'[p]
      BY <3>2, <3>4, <3>5
    <3>8. /\ has'[p] # NULL <=> pc'[p] \in {"holds"} \cup Freeing
          /\ has'[q] # NULL <=> pc'[q] \in {"holds"} \cup Freeing
      BY <1>1, <1>2, <2>1, <3>4, <3>5 DEF Calm, Held
    <3> QED
      BY <1>1, <3>6, <3>7, <3>8 DEF Held
  <2>6. pc[Other(p)] \in Quiet
    BY <1>2, <2>1, OtherQuiet DEF Allocating, Quiet
  <2>7. Calm'
    BY <1>2, <2>1, <2>2, <2>4, <2>5, <2>6, EndsCall
  <2> QED
    BY <2>3, <2>7 DEF Whole!Next
<1> QED
  BY <1>5, <1>6 DEF ShIInv

\* What shfree has done when it returns.
Freed(p) ==
    /\ has[p] \in was.bits
    /\ free_bitfield = was.bits \ {has[p]}
    /\ n_free = was.n_free + 1
    /\ next_free' = IF n_free = 1 THEN has[p] ELSE was.next_free

LEMMA GivenBack ==
    ASSUME ShIInv, NEW p \in Procs, NEW from \in Freeing, Goes(p, from, "idle"),
           Gone(p), overlaps' = overlaps, Remember(p), next_free' \in Idx, Calm => Freed(p)
    PROVE  ShIInv' /\ (overlaps' = 0 => Whole!Next)
<1> DEFINE q == Other(p)
<1>1. q \in Procs /\ q # p /\ Procs = {p, q}
  BY Two
<1> HIDE DEF q
<1>2. /\ pc[p] = from /\ pc' \in [Procs -> Steps] /\ pc'[p] = "idle"
      /\ \A r \in Procs : r # p => pc'[r] = pc[r]
  BY Control DEF ShIInv, Steps, Quiet
<1>3. /\ has' \in [Procs -> Idx \cup {NULL}] /\ has'[p] = NULL
      /\ \A r \in Procs : r # p => has'[r] = has[r]
  BY DEF Gone, ShIInv, ShTypeOK
<1>4. /\ free_bitfield' = free_bitfield /\ n_free' = n_free
      /\ free_bitfield' \subseteq Idx /\ n_free' \in 0 .. Words - 1
      /\ overlaps' \in 0 .. MaxOverlaps /\ reg' \in [Procs -> Regs]
  BY ClearRegs DEF Gone, ShIInv, ShTypeOK
<1>5. ShTypeOK'
  BY <1>2, <1>3, <1>4, TypesAfter DEF ShIInv
<1>6. ASSUME overlaps' = 0
      PROVE  Calm' /\ Whole!Next
  <2>1. Calm /\ Freed(p)
    BY <1>6 DEF ShIInv
  <2>2. Unchanged' /\ was'.ret = was.ret
    BY <1>6, Recorded
  <2>3. has[p] \in Idx
    BY <2>1 DEF Freed, Calm, WholeProofs!IInv, WholeProofs!TypeOK, WholeProofs!Idx, Idx
  <2>4. /\ has[p] \in was.bits /\ was'.bits = was.bits \ {has[p]}
        /\ was'.n_free = was.n_free + 1
        /\ was'.next_free = IF was'.n_free = 1 THEN has[p] ELSE was.next_free
    BY <1>4, <2>1, <2>2 DEF Unchanged, Freed
  <2>5. Whole!Release(has[p]) /\ WholeProofs!Release(has[p])
    BY <2>2, <2>4 DEF Whole!Release, WholeProofs!Release
  <2>6. WholeProofs!IInv'
    BY <2>1, <2>5, WholeConstants, WholeProofs!ReleaseIInv DEF Calm
  <2>7. Held'
    <3>1. has'[q] = has[q] /\ pc'[q] = pc[q]
      BY <1>1, <1>2, <1>3
    <3>2. was.bits = {has[p], has[q]} \ {NULL} /\ (has[q] = NULL \/ has[q] # has[p])
      BY <1>1, <2>1 DEF Calm, Held
    <3>3. was'.bits = {has'[p], has'[q]} \ {NULL}
      BY <1>3, <2>4, <3>1, <3>2
    <3>4. /\ has'[p] # NULL <=> pc'[p] \in {"holds"} \cup Freeing
          /\ has'[q] # NULL <=> pc'[q] \in {"holds"} \cup Freeing
      BY <1>1, <1>2, <1>3, <2>1, <3>1 DEF Calm, Held, Freeing
    <3> QED
      BY <1>1, <1>3, <3>3, <3>4 DEF Held
  <2>8. pc[Other(p)] \in Quiet
    BY <1>2, <2>1, OtherQuiet DEF Freeing, Quiet
  <2>9. Calm'
    BY <1>2, <2>1, <2>2, <2>6, <2>7, <2>8, EndsCall
  <2> QED
    BY <2>3, <2>5, <2>9, ReleaseIsFree
<1> QED
  BY <1>5, <1>6 DEF ShIInv

LEMMA WasLastInv ==
    ASSUME ShIInv, NEW p \in Procs, WasLast(p), Remember(p)
    PROVE  ShIInv' /\ (overlaps' = 0 => Whole!Next)
<1>1. Goes(p, "full", "holds") /\ Returns(p) /\ next_free' = next_free
  BY DEF WasLast
<1>2. pc[p] = "full" /\ "full" \in Allocating /\ next_free \in Idx
  BY <1>1 DEF Goes, Allocating, ShIInv, ShTypeOK
<1>3. ASSUME Calm PROVE Allocated(p)
  <2>1. /\ was.n_free # 0 /\ reg[p].elem = was.next_free /\ next_free = was.next_free
        /\ free_bitfield = was.bits \cup {was.next_free}
        /\ n_free = was.n_free - 1 /\ reg[p].n = n_free
    BY <1>2, <1>3 DEF Calm, AllocInv, Allocating
  <2>2. n_free = 0
    BY <2>1 DEF WasLast
  <2> QED
    BY <1>1, <2>1, <2>2 DEF Allocated
<1> QED
  BY <1>1, <1>2, <1>3, Returned

LEMMA PointToFreeInv ==
    ASSUME ShIInv, NEW p \in Procs, PointToFree(p), Remember(p)
    PROVE  ShIInv' /\ (overlaps' = 0 => Whole!Next)
<1>1. Goes(p, "point", "holds") /\ Returns(p) /\ next_free' = reg[p].look
  BY DEF PointToFree
<1>2. pc[p] = "point" /\ "point" \in Allocating /\ reg[p].look \in Idx
  BY <1>1 DEF Goes, Allocating, ShIInv, ShTypeOK
<1>3. ASSUME Calm PROVE Allocated(p)
  BY <1>1, <1>2, <1>3 DEF Calm, AllocInv, Allocating, Allocated
<1> QED
  BY <1>1, <1>2, <1>3, Returned

\* The search finds a free element: there is one when n_free is not 0, and the
\* last index looked at is that of the element itself.
LEMMA NotFoundInv ==
    ASSUME ShIInv, NEW p \in Procs, NotFound(p), Remember(p)
    PROVE  ShIInv' /\ (overlaps' = 0 => Whole!Next)
<1>1. Goes(p, "search", "holds") /\ Returns(p) /\ next_free' = next_free /\ reg[p].left = 1
  BY DEF NotFound
<1>2. /\ pc[p] = "search" /\ "search" \in Allocating /\ next_free \in Idx
      /\ reg[p].elem \in Idx /\ reg[p].look \in Idx
  BY <1>1 DEF Goes, Allocating, ShIInv, ShTypeOK
<1>3. ASSUME Calm PROVE FALSE
  <2>1. /\ was.n_free # 0 /\ was.n_free - 1 # 0 /\ was.n_free \in Nat
        /\ free_bitfield = was.bits \cup {was.next_free}
        /\ reg[p].elem = was.next_free /\ Searching(p)
    BY <1>2, <1>3, Constants
       DEF Calm, AllocInv, Allocating, WholeProofs!IInv, WholeProofs!TypeOK
  <2>2. WholeProofs!IInv /\ was.n_free # 1
    BY <1>3, <2>1 DEF Calm
  <2>3. PICK k \in Idx : k \notin free_bitfield
    BY <2>1, <2>2, WholeConstants, WholeProofs!RoomLeft DEF WholeProofs!Idx, Idx
  <2>4. Whole!Distance(reg[p].elem, reg[p].look) = Size
    BY <1>1, <1>2, <2>1, DistanceFacts, Constants DEF Searching
  <2>5. Size <= Whole!Distance(reg[p].elem, k)
    BY <2>1, <2>3, <2>4 DEF Searching
  <2>6. Whole!Distance(reg[p].elem, k) = Size
    <3>1. Whole!Distance(reg[p].elem, k) \in 1 .. Size
      BY <1>2, <2>3, DistanceFacts
    <3> QED
      BY <2>5, <3>1, Constants
  <2>7. k = reg[p].elem
    BY <1>2, <2>3, <2>6, DistanceFacts
  <2> QED
    BY <2>1, <2>3, <2>7
<1> QED
  BY <1>1, <1>2, <1>3, Returned

LEMMA WasNotEmptyInv ==
    ASSUME ShIInv, NEW p \in Procs, WasNotEmpty(p), Remember(p)
    PROVE  ShIInv' /\ (overlaps' = 0 => Whole!Next)
<1>1. Goes(p, "one", "idle") /\ Gone(p) /\ next_free' = next_free /\ overlaps' = overlaps
  BY DEF WasNotEmpty
<1>2. pc[p] = "one" /\ "one" \in Freeing /\ next_free \in Idx
  BY <1>1 DEF Goes, Freeing, ShIInv, ShTypeOK
<1>3. ASSUME Calm PROVE Freed(p)
  <2>1. /\ has[p] \in was.bits /\ next_free = was.next_free
        /\ free_bitfield = was.bits \ {has[p]}
        /\ n_free = was.n_free + 1 /\ reg[p].n = n_free
    BY <1>2, <1>3 DEF Calm, FreeInv, Held, Freeing
  <2>2. n_free # 1
    BY <2>1 DEF WasNotEmpty
  <2> QED
    BY <1>1, <2>1, <2>2 DEF Freed
<1> QED
  BY <1>1, <1>2, <1>3, GivenBack

LEMMA RepointInv ==
    ASSUME ShIInv, NEW p \in Procs, Repoint(p), Remember(p)
    PROVE  ShIInv' /\ (overlaps' = 0 => Whole!Next)
<1>1. Goes(p, "repoint", "idle") /\ Gone(p) /\ next_free' = reg[p].elem
      /\ overlaps' = overlaps
  BY DEF Repoint
<1>2. pc[p] = "repoint" /\ "repoint" \in Freeing /\ reg[p].elem \in Idx
  BY <1>1 DEF Goes, Freeing, ShIInv, ShTypeOK
<1>3. ASSUME Calm PROVE Freed(p)
  BY <1>1, <1>2, <1>3 DEF Calm, FreeInv, Held, Freeing, Freed
<1> QED
  BY <1>1, <1>2, <1>3, GivenBack

-----------------------------------------------------------------------------
(* The first step of a call.                                                *)

LEMMA Entered ==
    ASSUME ShIInv, NEW p \in Procs, Enters(p)
    PROVE  /\ overlaps' \in 0 .. MaxOverlaps
           /\ overlaps' = 0 => Calm /\ pc[Other(p)] \in Quiet
<1>1. overlaps \in 0 .. MaxOverlaps
  BY DEF ShIInv, ShTypeOK
<1> QED
  BY <1>1, Constants DEF Enters, ShIInv

\* Between calls the memory is as the last has left it.
LEMMA Between ==
    ASSUME Calm, NEW p \in Procs, pc[p] \in Quiet, pc[Other(p)] \in Quiet
    PROVE  Unchanged
BY Two DEF Calm

LEMMA NotExhaustedInv ==
    ASSUME ShIInv, NEW p \in Procs, NotExhausted(p), Remember(p)
    PROVE  ShIInv'
<1>1. Moved(p, "idle", "take")
  BY Within DEF NotExhausted, Allocating
<1>2. reg' \in [Procs -> Regs] /\ reg'[p].n = n_free
  BY SetN DEF NotExhausted, ShIInv, ShTypeOK
<1>3. /\ free_bitfield' \subseteq Idx /\ n_free' \in 0 .. Words - 1 /\ next_free' \in Idx
      /\ has' = has /\ has' \in [Procs -> Idx \cup {NULL}]
      /\ UNCHANGED memory /\ n_free # 0
  BY DEF NotExhausted, ShIInv, ShTypeOK, memory
<1>4. /\ overlaps' \in 0 .. MaxOverlaps
      /\ overlaps' = 0 => Calm /\ pc[Other(p)] \in Quiet
  BY Entered DEF NotExhausted
<1>5. ShTypeOK'
  BY <1>1, <1>2, <1>3, <1>4, TypesAfter DEF ShIInv, Moved
<1>6. ASSUME overlaps' = 0 PROVE Calm'
  <2>1. Calm /\ pc[Other(p)] \in Quiet /\ pc[p] = "idle" /\ pc[p] \in Quiet
    BY <1>1, <1>4, <1>6 DEF Moved, Quiet
  <2>2. Unchanged
    BY <2>1, Between
  <2>3. AllocInv(p)' /\ FreeInv(p)'
    BY <1>1, <1>2, <1>3, <2>2
       DEF Moved, Unchanged, AllocInv, FreeInv, Allocating, Freeing, memory
  <2>4. pc'[p] \in Allocating /\ (pc'[p] \in Freeing <=> pc[p] \in {"holds"} \cup Freeing)
    BY <1>1, <2>1 DEF Moved, Allocating, Freeing
  <2> QED
    BY <1>1, <1>3, <2>1, <2>3, <2>4, InCall DEF Moved
<1> QED
  BY <1>5, <1>6 DEF ShIInv

LEMMA TestAllocatedInv ==
    ASSUME ShIInv, NEW p \in Procs, TestAllocated(p), Remember(p)
    PROVE  ShIInv'
<1>1. Moved(p, "holds", "clear")
  BY Within DEF TestAllocated, Freeing
<1>2. has[p] \in Idx
  BY <1>1 DEF Moved, ShIInv, ShTypeOK
<1>3. /\ reg' \in [Procs -> Regs]
      /\ reg'[p].elem = has[p] /\ reg'[p].bits = free_bitfield
  <2> DEFINE r == [reg[p] EXCEPT !.elem = has[p], !.bits = free_bitfield]
  <2>1. reg \in [Procs -> Regs] /\ free_bitfield \in SUBSET Idx
    BY DEF ShIInv, ShTypeOK, Regs
  <2>2. r \in Regs /\ r.elem = has[p] /\ r.bits = free_bitfield
    BY <1>2, <2>1 DEF Regs
  <2>3. reg' = [reg EXCEPT ![p] = r]
    BY <2>1 DEF TestAllocated
  <2> HIDE DEF r
  <2>4. reg' \in [Procs -> Regs] /\ reg'[p] = r
    BY <2>1, <2>2, <2>3, PutRegs
  <2> QED
    BY <2>2, <2>4
<1>4. /\ free_bitfield' \subseteq Idx /\ n_free' \in 0 .. Words - 1 /\ next_free' \in Idx
      /\ has' = has /\ has' \in [Procs -> Idx \cup {NULL}]
      /\ UNCHANGED memory
  BY DEF TestAllocated, ShIInv, ShTypeOK, memory
<1>5. /\ overlaps' \in 0 .. MaxOverlaps
      /\ overlaps' = 0 => Calm /\ pc[Other(p)] \in Quiet
  BY Entered DEF TestAllocated
<1>6. ShTypeOK'
  BY <1>1, <1>2, <1>3, <1>4, <1>5, TypesAfter DEF ShIInv, Moved
<1>7. ASSUME overlaps' = 0 PROVE Calm'
  <2>1. Calm /\ pc[Other(p)] \in Quiet /\ pc[p] = "holds" /\ pc[p] \in Quiet
    BY <1>1, <1>5, <1>7 DEF Moved, Quiet
  <2>2. Unchanged
    BY <2>1, Between
  <2>3. AllocInv(p)' /\ FreeInv(p)'
    BY <1>1, <1>3, <1>4, <2>2
       DEF Moved, Unchanged, AllocInv, FreeInv, Allocating, Freeing, memory
  <2>4. pc'[p] \in Freeing /\ pc[p] \in {"holds"} \cup Freeing
    BY <1>1, <2>1 DEF Moved, Freeing
  <2> QED
    BY <1>1, <1>4, <2>1, <2>3, <2>4, InCall DEF Moved
<1> QED
  BY <1>6, <1>7 DEF ShIInv

\* An iterator that a process holds is allocated, unless calls have overlapped.
LEMMA NotAllocatedInv ==
    ASSUME ShIInv, NEW p \in Procs, NotAllocated(p), Remember(p)
    PROVE  ShIInv' /\ overlaps' # 0
<1>1. /\ pc[p] = "holds" /\ pc' \in [Procs -> Steps] /\ pc'[p] = "idle"
      /\ \A r \in Procs : r # p => pc'[r] = pc[r]
  BY Control DEF NotAllocated, ShIInv, Steps, Quiet
<1>2. /\ has' \in [Procs -> Idx \cup {NULL}]
      /\ \A r \in Procs : r # p => has'[r] = has[r]
  BY DEF NotAllocated, Gone, ShIInv, ShTypeOK
<1>3. /\ free_bitfield' \subseteq Idx /\ n_free' \in 0 .. Words - 1 /\ next_free' \in Idx
      /\ reg' \in [Procs -> Regs]
  BY ClearRegs DEF NotAllocated, Gone, ShIInv, ShTypeOK
<1>4. /\ overlaps' \in 0 .. MaxOverlaps
      /\ overlaps' = 0 => Calm /\ pc[Other(p)] \in Quiet
  BY Entered DEF NotAllocated
<1>5. ShTypeOK'
  BY <1>1, <1>2, <1>3, <1>4, TypesAfter DEF ShIInv
<1>6. ASSUME overlaps' = 0 PROVE FALSE
  <2>1. Calm /\ Unchanged
    BY <1>1, <1>4, <1>6, Between DEF Quiet
  <2>2. has[p] \in was.bits
    BY <1>1, <2>1 DEF Calm, Held
  <2> QED
    BY <2>1, <2>2 DEF Unchanged, NotAllocated
<1> QED
  BY <1>5, <1>6 DEF ShIInv

\* An iterator is left for each process, unless calls have overlapped: the other
\* has at most one.
LEMMA ExhaustedInv ==
    ASSUME ShIInv, NEW p \in Procs, Exhausted(p), Remember(p)
    PROVE  ShIInv' /\ overlaps' # 0
<1>1. /\ pc[p] = "idle" /\ pc' \in [Procs -> Steps] /\ pc'[p] = "crashed"
      /\ \A r \in Procs : r # p => pc'[r] = pc[r]
  BY Control DEF Exhausted, ShIInv, Steps, Quiet
<1>2. /\ has' \in [Procs -> Idx \cup {NULL}] /\ has' = has
      /\ free_bitfield' \subseteq Idx /\ n_free' \in 0 .. Words - 1 /\ next_free' \in Idx
      /\ reg' \in [Procs -> Regs]
  BY DEF Exhausted, memory, ShIInv, ShTypeOK, Regs
<1>3. /\ overlaps' \in 0 .. MaxOverlaps
      /\ overlaps' = 0 => Calm /\ pc[Other(p)] \in Quiet
  BY Entered DEF Exhausted
<1>4. ShTypeOK'
  BY <1>1, <1>2, <1>3, TypesAfter DEF ShIInv
<1>5. ASSUME overlaps' = 0 PROVE FALSE
  <2>1. Calm /\ Unchanged
    BY <1>1, <1>3, <1>5, Between DEF Quiet
  <2>2. has[p] = NULL
    BY <1>1, <2>1 DEF Calm, Held, Freeing
  <2>3. was.bits \subseteq {has[Other(p)]}
    BY <2>1, <2>2, Two DEF Calm, Held
  <2>4. was.n_free # 0
    BY <2>1, <2>3, WholeConstants, Constants, WholeProofs!OneLeavesRoom DEF Calm
  <2> QED
    BY <2>1, <2>4 DEF Unchanged, Exhausted
<1> QED
  BY <1>4, <1>5 DEF ShIInv

-----------------------------------------------------------------------------
(* The invariant, and the refinement.                                       *)

LEMMA ShInitIInv == ShInit => ShIInv
<1> SUFFICES ASSUME ShInit PROVE ShIInv
  OBVIOUS
<1>1. ShTypeOK
  BY Constants DEF ShInit, ShTypeOK, Steps, Quiet, NoRegs
<1>2. Calm
  <2>1. \A p \in Procs : pc[p] = "idle" /\ has[p] = NULL
    BY DEF ShInit
  <2>2. WholeProofs!Init
    BY DEF ShInit, WholeProofs!Init
  <2>3. WholeProofs!IInv
    BY <2>2, WholeConstants, WholeProofs!InitIInv
  <2>4. Held
    BY <2>1, Constants DEF Held, Freeing, ShInit
  <2>5. \A p \in Procs : pc[p] \in Quiet /\ pc[p] # "crashed"
    BY <2>1 DEF Quiet
  <2>6. \A p \in Procs : AllocInv(p) /\ FreeInv(p)
    BY <2>5, QuietInv
  <2>7. Unchanged
    BY DEF ShInit, Unchanged
  <2> QED
    BY <2>3, <2>4, <2>5, <2>6, <2>7 DEF Calm
<1> QED
  BY <1>1, <1>2 DEF ShIInv

\* A step within a call leaves the history alone; its last step is a call of
\* Shmalloc, and its first neither fails nor finds a free iterator to give back.
LEMMA ProcessStep ==
    ASSUME ShIInv, NEW p \in Procs, Continues(p) \/ (Starts(p) /\ Remember(p))
    PROVE  ShIInv' /\ (overlaps' = 0 => Whole!Next \/ was' = was)
<1>1. Remember(p)
  BY DEF Continues
<1>2. CASE Shmalloc(p)
  <2>1. ASSUME TakeNext(p) \/ ReadCount(p) \/ Decrement(p) \/ ReadIndex(p) \/ ReadBits(p)
               \/ SetBit(p) \/ WasNotLast(p) \/ SearchFrom(p) \/ Found(p) \/ GoesOn(p)
        PROVE  ShIInv' /\ was' = was
    <3>1. ShIInv'
      BY <1>1, <2>1, TakeNextInv, ReadCountInv, DecrementInv, ReadIndexInv, ReadBitsInv,
         SetBitInv, WasNotLastInv, SearchFromInv, FoundInv, GoesOnInv
    <3>2. \E from, to \in Allocating : Goes(p, from, to)
      BY <2>1 DEF Allocating, TakeNext, ReadCount, Decrement, ReadIndex, ReadBits, SetBit,
                  WasNotLast, SearchFrom, Found, GoesOn
    <3>3. was' = was
      BY <1>1, <3>2, Within DEF Moved
    <3> QED
      BY <3>1, <3>3
  <2>2. ASSUME WasLast(p) \/ NotFound(p) \/ PointToFree(p)
        PROVE  ShIInv' /\ (overlaps' = 0 => Whole!Next)
    BY <1>1, <2>2, WasLastInv, NotFoundInv, PointToFreeInv
  <2> QED
    BY <1>2, <2>1, <2>2 DEF Shmalloc
<1>3. CASE Shfree(p)
  <2>1. ASSUME ReadToClear(p) \/ ClearBit(p) \/ ReadToIncrement(p) \/ Increment(p)
               \/ WasEmpty(p)
        PROVE  ShIInv' /\ was' = was
    <3>1. ShIInv'
      BY <1>1, <2>1, ReadToClearInv, ClearBitInv, ReadToIncrementInv, IncrementInv,
         WasEmptyInv
    <3>2. \E from, to \in Freeing : Goes(p, from, to)
      BY <2>1 DEF Freeing, ReadToClear, ClearBit, ReadToIncrement, Increment, WasEmpty
    <3>3. was' = was
      BY <1>1, <3>2, Within DEF Moved
    <3> QED
      BY <3>1, <3>3
  <2>2. ASSUME WasNotEmpty(p) \/ Repoint(p)
        PROVE  ShIInv' /\ (overlaps' = 0 => Whole!Next)
    BY <1>1, <2>2, WasNotEmptyInv, RepointInv
  <2> QED
    BY <1>3, <2>1, <2>2 DEF Shfree
<1>4. CASE Starts(p)
  <2>1. ASSUME NotExhausted(p) \/ TestAllocated(p)
        PROVE  ShIInv' /\ was' = was
    <3>1. ShIInv'
      BY <1>1, <2>1, NotExhaustedInv, TestAllocatedInv
    <3>2. \E from, to : to \in Allocating \cup Freeing /\ Goes(p, from, to)
      BY <2>1 DEF Allocating, Freeing, NotExhausted, TestAllocated
    <3>3. was' = was
      BY <1>1, <3>2, Within DEF Moved
    <3> QED
      BY <3>1, <3>3
  <2>2. ASSUME Exhausted(p) \/ NotAllocated(p)
        PROVE  ShIInv' /\ overlaps' # 0
    BY <1>1, <2>2, ExhaustedInv, NotAllocatedInv
  <2> QED
    BY <1>4, <2>1, <2>2 DEF Starts
<1> QED
  BY <1>2, <1>3, <1>4 DEF Continues

LEMMA ShStep ==
    ShIInv /\ [ShNext]_sh_vars => ShIInv' /\ [overlaps' = 0 => Whole!Next]_was
<1> SUFFICES ASSUME ShIInv, [ShNext]_sh_vars
             PROVE  ShIInv' /\ [overlaps' = 0 => Whole!Next]_was
  OBVIOUS
<1>1. CASE ShNext
  <2>1. PICK p \in Procs : Continues(p) \/ (Starts(p) /\ Remember(p))
    BY <1>1 DEF ShNext
  <2> QED
    BY <2>1, ProcessStep
<1>2. CASE UNCHANGED sh_vars
  <2> USE <1>2 DEF sh_vars, memory
  <2>1. ShTypeOK'
    BY DEF ShIInv, ShTypeOK
  <2>2. ASSUME Calm PROVE Calm'
    <3>1. WholeProofs!IInv'
      BY <2>2 DEF Calm, WholeProofs!IInv, WholeProofs!TypeOK, WholeProofs!CountExact,
                  WholeProofs!CursorFree
    <3>2. Held'
      BY <2>2 DEF Calm, Held
    <3>3. \A p \in Procs : AllocInv(p)' /\ FreeInv(p)'
      BY <2>2 DEF Calm, AllocInv, FreeInv, Searching, Whole!FirstFreeAfter
    <3> QED
      BY <2>2, <3>1, <3>2, <3>3 DEF Calm, Unchanged
  <2> QED
    BY <2>1, <2>2 DEF ShIInv
<1> QED
  BY <1>1, <1>2

LEMMA ShInvariant == ShSpec => []ShIInv
BY ShInitIInv, ShStep, PTL DEF ShSpec

\* Whatever the race between udpdk_shmalloc and udpdk_shfree of two processes, the
\* indexes that the allocator of iterators keeps stay within its pool.
THEOREM ShTypeCorrect == ShSpec => []ShTypeOK
BY ShInvariant, PTL DEF ShIInv

\* As long as no two calls overlap, each process has an iterator of its own and
\* none finds the pool exhausted (udpdk_shmalloc.c:83).
THEOREM IteratorsAlwaysApart == ShSpec => []IteratorsApart
<1>1. ShIInv => IteratorsApart
  <2> SUFFICES ASSUME ShIInv, overlaps = 0 PROVE IteratorsApart
    BY DEF IteratorsApart
  <2>1. Calm
    BY DEF ShIInv
  <2>2. \A p \in Procs : pc[p] # "crashed"
    BY <2>1 DEF Calm
  <2>3. ASSUME NEW p \in Procs, pc[p] = "holds" PROVE has[p] \in free_bitfield
    <3>1. has[p] # NULL /\ has[p] \in was.bits
      BY <2>1, <2>3 DEF Calm, Held
    <3>2. PICK q \in Procs : q = Other(p) /\ q # p /\ Procs = {p, q}
      BY Two
    <3>3. CASE pc[q] \in Quiet
      BY <2>1, <2>3, <3>1, <3>2, <3>3 DEF Calm, Unchanged, Quiet
    <3>4. CASE pc[q] \in Allocating
      BY <2>1, <3>1, <3>2, <3>4 DEF Calm, AllocInv
    <3>5. CASE pc[q] \in Freeing
      <4>1. has[q] # has[p]
        BY <2>1, <3>1, <3>2 DEF Calm, Held
      <4> QED
        BY <2>1, <3>1, <3>2, <3>5, <4>1 DEF Calm, FreeInv
    <3>6. pc[q] \in Quiet \cup Allocating \cup Freeing
      BY <3>2 DEF ShIInv, ShTypeOK, Steps, Allocating, Freeing
    <3> QED
      BY <3>3, <3>4, <3>5, <3>6
  <2>4. pc["app"] = "holds" /\ pc["poller"] = "holds" => has["app"] # has["poller"]
    BY <2>1, <2>3 DEF Calm, Held, Procs
  <2> QED
    BY <2>2, <2>3, <2>4 DEF IteratorsApart
<1> QED
  BY <1>1, ShInvariant, PTL

\* Until two calls overlap, the steps of each are together one of Shmalloc.
THEOREM SharedImplementsShmalloc == ShSpec => ImplementsShmalloc
<1>1. ShInit => Whole!Init
  BY DEF ShInit, Whole!Init
<1> QED
  BY <1>1, ShInvariant, ShStep, PTL DEF ShSpec, ImplementsShmalloc
=============================================================================
