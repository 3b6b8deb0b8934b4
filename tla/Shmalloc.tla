------------------------------ MODULE Shmalloc ------------------------------
(***************************************************************************)
(* The fixed-size allocator in shared memory (udpdk_shmalloc.c), as the    *)
(* two processes see it when calls do not overlap.  UDPDK keeps four of    *)
(* these: bind_info, list, list node and list iterator (only 10 elements). *)
(*                                                                         *)
(* Elements are named by their index; element i lives at byte i * Stride   *)
(* of the pool.  free_bitfield is the set of the indexes whose bit is 1,   *)
(* which, despite its name, are the ALLOCATED ones.                        *)
(***************************************************************************)
EXTENDS Integers, FiniteSets

CONSTANTS Size,         \* number of elements
          ElemBytes,    \* sizeof the element, as the caller asks for it
          NULL

ASSUME SizeAssumption == Size \in Nat \ {0}
ASSUME ElemBytesAssumption == ElemBytes \in Nat \ {0}
ASSUME NullAssumption == NULL \notin Nat

VARIABLES free_bitfield, n_free, next_free,
          ret           \* index of the element last returned, or NULL

vars == <<free_bitfield, n_free, next_free, ret>>

Idx == 0 .. Size - 1

\* elem_size as stored in the allocator: the rounding divides and never
\* multiplies back, so it counts cache lines where bytes are meant.
Stride == (ElemBytes + 64 - 1) \div 64

Init == /\ free_bitfield = {}
        /\ n_free = Size
        /\ next_free = 0
        /\ ret = NULL

-----------------------------------------------------------------------------
\* Steps of the search from index i to index j: it starts just after i, wraps
\* around and looks at i last.
Distance(i, j) == IF j > i THEN j - i ELSE j - i + Size

\* Bug variant: the search tests the bit the wrong way round.
FirstUsedAfter(i, allocated, j) ==
    /\ j \in allocated
    /\ \A k \in allocated : Distance(i, j) <= Distance(i, k)

\* j is the first free element after i, given the allocated ones.
FirstFreeAfter(i, allocated, j) ==
    /\ j \in Idx \ allocated
    /\ \A k \in Idx \ allocated : Distance(i, j) <= Distance(i, k)

ShmallocFails == /\ n_free = 0
                 /\ ret' = NULL
                 /\ UNCHANGED <<free_bitfield, n_free, next_free>>

ShmallocSucceeds ==
    /\ n_free # 0
    /\ ret' = next_free
    /\ n_free' = n_free - 1
    /\ free_bitfield' = free_bitfield \cup {next_free}
    /\ IF n_free' = 0
       THEN UNCHANGED next_free
       ELSE \E j \in Idx : /\ FirstFreeAfter(next_free, free_bitfield', j)
                           /\ next_free' = j

\* Bug variant of Release: next_free is not moved to the only free element.
ReleaseKeepsCursor(i) == /\ i \in free_bitfield
                         /\ free_bitfield' = free_bitfield \ {i}
                         /\ n_free' = n_free + 1
                         /\ UNCHANGED <<next_free, ret>>

\* Bug variant of Release: the element given back is always the next.
ReleaseToCursor(i) == /\ i \in free_bitfield
                      /\ free_bitfield' = free_bitfield \ {i}
                      /\ n_free' = n_free + 1
                      /\ next_free' = i
                      /\ UNCHANGED ret

\* Give element i back.
Release(i) == /\ i \in free_bitfield
              /\ free_bitfield' = free_bitfield \ {i}
              /\ n_free' = n_free + 1
              /\ next_free' = IF n_free' = 1 THEN i ELSE next_free
              /\ UNCHANGED ret

InPool(addr) == 0 <= addr /\ addr < Size * Stride

\* Bug variant of Shfree: a double free is not noticed.
ShfreeUnchecked(addr) ==
    IF InPool(addr)
    THEN /\ free_bitfield' = free_bitfield \ {addr \div Stride}
         /\ n_free' = n_free + 1
         /\ next_free' = IF n_free' = 1 THEN addr \div Stride ELSE next_free
         /\ UNCHANGED ret
    ELSE UNCHANGED vars

\* shfree of the address addr, in bytes from the start of the pool: out of the
\* pool or not allocated, it only logs.
Shfree(addr) == IF InPool(addr) /\ addr \div Stride \in free_bitfield
                THEN Release(addr \div Stride)
                ELSE UNCHANGED vars

Next == \/ ShmallocFails
        \/ ShmallocSucceeds
        \/ \E addr \in -1 .. Size * Stride : Shfree(addr)

Spec == Init /\ [][Next]_vars

-----------------------------------------------------------------------------
TypeOK == /\ free_bitfield \subseteq Idx
          /\ n_free \in 0 .. Size
          /\ next_free \in Idx
          /\ ret \in Idx \cup {NULL}

\* n_free counts the clear bits: shmalloc decides by n_free alone whether the
\* pool is exhausted, and udpdk_destroy_allocator warns by it.
CountExact == n_free = Size - Cardinality(free_bitfield)

\* The cursor that the next shmalloc hands out unchecked is a free element
\* whenever there is one, through wrap-arounds, exhaustion and recovery.
CursorFree == n_free # 0 => next_free \notin free_bitfield

\* The allocator implements the abstract pool: an element is never handed out
\* while it is held, and NULL is returned only when all of them are.
PoolSpec == INSTANCE Pool WITH Elements <- Idx, held <- free_bitfield

ImplementsPool == PoolSpec!Spec

\* "Round-up elem_size to cache line multiple (64 byte)" (udpdk_shmalloc.c:36):
\* two allocated elements, each of ElemBytes bytes, do not share a byte.
ElementsDisjoint ==
    \A i, j \in free_bitfield : i < j => i * Stride + ElemBytes <= j * Stride
=============================================================================
