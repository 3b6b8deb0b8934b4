--------------------------- MODULE ShmallocProofs ---------------------------
(***************************************************************************)
(* For every pool size: the allocator keeps its counter and its cursor     *)
(* consistent with the bitfield, and implements the abstract Pool.         *)
(***************************************************************************)
EXTENDS Shmalloc, FiniteSetTheorems, TLAPS

\* The indexes are a finite set of Size elements, and so is bounded every set
\* of allocated ones.
LEMMA IdxFinite ==
    /\ IsFiniteSet(Idx)
    /\ Cardinality(Idx) = Size
BY FS_Interval, SizeAssumption DEF Idx

\* What the rest of the argument needs of a set of indexes.
LEMMA Allocated ==
    ASSUME NEW S \in SUBSET Idx
    PROVE  /\ IsFiniteSet(S)
           /\ Cardinality(S) \in Nat
           /\ Cardinality(S) <= Size
           /\ Cardinality(S) = Size => S = Idx
BY IdxFinite, FS_Subset, FS_CardinalityType

-----------------------------------------------------------------------------
\* The inductive invariant: the bitfield determines the counter, and the
\* cursor is free unless the pool is exhausted.
IInv == TypeOK /\ CountExact /\ CursorFree

LEMMA InitIInv == Init => IInv
BY SizeAssumption, FS_EmptySet
   DEF Init, IInv, TypeOK, CountExact, CursorFree, Idx

\* An allocation takes the free element under the cursor: the counter follows,
\* and the search leaves the cursor on a free element.
LEMMA SucceedsIInv == IInv /\ ShmallocSucceeds => IInv'
<1> SUFFICES ASSUME IInv, ShmallocSucceeds PROVE IInv'
  OBVIOUS
<1> USE DEF IInv, TypeOK, CountExact, CursorFree
<1>1. /\ next_free \in Idx \ free_bitfield
      /\ free_bitfield' \in SUBSET Idx
  BY DEF ShmallocSucceeds
<1>2. Cardinality(free_bitfield') = Cardinality(free_bitfield) + 1
  BY <1>1, Allocated, FS_AddElement DEF ShmallocSucceeds
<1>3. /\ n_free' \in 0 .. Size
      /\ CountExact'
  BY <1>2, Allocated, SizeAssumption DEF ShmallocSucceeds
<1>4. /\ next_free' \in Idx
      /\ CursorFree'
  <2>1. CASE n_free' = 0
    BY <2>1 DEF ShmallocSucceeds
  <2>2. CASE n_free' # 0
    BY <2>2 DEF ShmallocSucceeds, FirstFreeAfter
  <2> QED
    BY <2>1, <2>2
<1> QED
  BY <1>1, <1>3, <1>4 DEF ShmallocSucceeds

\* A free of an allocated element: the counter follows, and when the pool was
\* exhausted the cursor moves to the only free element.
LEMMA ReleaseIInv == ASSUME NEW i, IInv, Release(i) PROVE IInv'
<1> USE DEF IInv, TypeOK, CountExact, CursorFree
<1>1. /\ i \in free_bitfield
      /\ free_bitfield' \in SUBSET Idx
  BY DEF Release
<1>2. Cardinality(free_bitfield') = Cardinality(free_bitfield) - 1
  BY <1>1, Allocated, FS_RemoveElement DEF Release
<1>3. /\ n_free' \in 0 .. Size
      /\ CountExact'
  BY <1>2, Allocated, SizeAssumption DEF Release
<1>4. /\ next_free' \in Idx
      /\ CursorFree'
  <2>1. CASE n_free' = 1
    BY <1>1, <2>1 DEF Release
  <2>2. CASE n_free' # 1
    BY <1>3, <2>2, SizeAssumption DEF Release
  <2> QED
    BY <2>1, <2>2
<1> QED
  BY <1>1, <1>3, <1>4 DEF Release

LEMMA NextIInv == IInv /\ [Next]_vars => IInv'
<1> SUFFICES ASSUME IInv, [Next]_vars PROVE IInv'
  OBVIOUS
<1>1. CASE ShmallocFails
  BY <1>1 DEF ShmallocFails, IInv, TypeOK, CountExact, CursorFree
<1>2. CASE ShmallocSucceeds
  BY <1>2, SucceedsIInv
<1>3. ASSUME NEW addr \in -1 .. Size * Stride, Shfree(addr) PROVE IInv'
  <2>1. CASE Release(addr \div Stride)
    BY <2>1, ReleaseIInv
  <2>2. CASE UNCHANGED vars
    BY <2>2 DEF IInv, TypeOK, CountExact, CursorFree, vars
  <2> QED
    BY <1>3, <2>1, <2>2 DEF Shfree
<1>4. CASE UNCHANGED vars
  BY <1>4 DEF IInv, TypeOK, CountExact, CursorFree, vars
<1> QED
  BY <1>1, <1>2, <1>3, <1>4 DEF Next

LEMMA Invariant == Spec => []IInv
BY InitIInv, NextIInv, PTL DEF Spec

\* udpdk_shmalloc and udpdk_shfree keep the allocator's words in range: the
\* cursor and every returned index are inside the pool.
THEOREM TypeCorrect == Spec => []TypeOK
BY Invariant, PTL DEF IInv

\* shmalloc never hands out an element that is allocated: the cursor it uses
\* unchecked (udpdk_shmalloc.c:92) is free whenever n_free is not 0.
THEOREM CursorAlwaysFree == Spec => []CursorFree
BY Invariant, PTL DEF IInv

\* n_free, by which shmalloc decides that the pool is exhausted
\* (udpdk_shmalloc.c:83), is the number of clear bits.
THEOREM CounterExact == Spec => []CountExact
BY Invariant, PTL DEF IInv

-----------------------------------------------------------------------------
\* What the exact counter says of the bits: an element that is allocated was
\* counted, two that are not are one beside the next, and one alone does not
\* exhaust the pool.
LEMMA SomeTaken ==
    ASSUME IInv, free_bitfield # {}
    PROVE  n_free < Size
<1>1. IsFiniteSet(free_bitfield) /\ Cardinality(free_bitfield) \in Nat
  BY Allocated DEF IInv, TypeOK
<1>2. Cardinality(free_bitfield) # 0
  BY <1>1, FS_EmptySet
<1> QED
  BY <1>1, <1>2, SizeAssumption DEF IInv, CountExact

LEMMA RoomLeft ==
    ASSUME IInv, n_free # 0, n_free # 1
    PROVE  \E k \in Idx : k \notin free_bitfield \cup {next_free}
<1> DEFINE S == free_bitfield \cup {next_free}
<1>1. S \in SUBSET Idx /\ next_free \notin free_bitfield
  BY DEF IInv, TypeOK, CursorFree
<1>2. Cardinality(S) = Cardinality(free_bitfield) + 1
  BY <1>1, Allocated, FS_AddElement DEF IInv, TypeOK
<1>3. Cardinality(S) # Size
  BY <1>2, Allocated, SizeAssumption DEF IInv, TypeOK, CountExact
<1> QED
  BY <1>1, <1>3, IdxFinite

LEMMA OneLeavesRoom ==
    ASSUME IInv, Size >= 2, NEW e, free_bitfield \subseteq {e}
    PROVE  n_free # 0
<1>1. Cardinality(free_bitfield) <= 1
  <2>1. CASE free_bitfield = {}
    BY <2>1, FS_EmptySet
  <2>2. CASE free_bitfield = {e}
    BY <2>2, FS_Singleton
  <2> QED
    BY <2>1, <2>2
<1> QED
  BY <1>1, Allocated, SizeAssumption DEF IInv, TypeOK, CountExact

-----------------------------------------------------------------------------
\* The counter being exact, it reaches 0 only when every element is allocated.
LEMMA ExhaustedIsFull ==
    ASSUME IInv, n_free = 0
    PROVE  free_bitfield = Idx
BY Allocated, SizeAssumption DEF IInv, TypeOK, CountExact

\* Every allocator step is a step of the pool or leaves it alone.
LEMMA StepRefines == IInv /\ [Next]_vars => [PoolSpec!Next]_<<free_bitfield, ret>>
<1> SUFFICES ASSUME IInv, [Next]_vars
             PROVE  [PoolSpec!Next]_<<free_bitfield, ret>>
  OBVIOUS
<1> USE DEF PoolSpec!Next, PoolSpec!Alloc, PoolSpec!Free
<1>1. CASE ShmallocFails
  BY <1>1, ExhaustedIsFull DEF ShmallocFails
<1>2. CASE ShmallocSucceeds
  <2>1. next_free \in Idx \ free_bitfield
    BY <1>2 DEF IInv, TypeOK, CursorFree, ShmallocSucceeds
  <2> QED
    BY <1>2, <2>1 DEF ShmallocSucceeds
<1>3. ASSUME NEW addr \in -1 .. Size * Stride, Shfree(addr)
      PROVE  [PoolSpec!Next]_<<free_bitfield, ret>>
  <2>1. CASE Release(addr \div Stride)
    BY <2>1 DEF Release
  <2>2. CASE UNCHANGED vars
    BY <2>2 DEF vars
  <2> QED
    BY <1>3, <2>1, <2>2 DEF Shfree
<1>4. CASE UNCHANGED vars
  BY <1>4 DEF vars
<1> QED
  BY <1>1, <1>2, <1>3, <1>4 DEF Next

\* The allocator implements the pool that its callers assume.
THEOREM Refinement == Spec => ImplementsPool
<1>1. Init => PoolSpec!Init
  BY DEF Init, PoolSpec!Init
<1> QED
  BY <1>1, Invariant, StepRefines, PTL DEF Spec, ImplementsPool, PoolSpec!Spec
=============================================================================
