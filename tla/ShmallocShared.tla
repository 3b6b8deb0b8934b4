--------------------------- MODULE ShmallocShared ---------------------------
(***************************************************************************)
(* The allocator of list iterators, which the application and the poller   *)
(* both use and no lock protects: udpdk_shmalloc and udpdk_shfree, one     *)
(* step per access to shared memory.  bind() and close() take an iterator  *)
(* for their scan and the poller takes one for each packet; a process has  *)
(* one at a time and gives it back.                                        *)
(*                                                                         *)
(* The bits of its 10 elements are in one word, which is read and written  *)
(* as a whole.  What was read before may still be used where the text      *)
(* reads it again, since the compiler may have kept it.                    *)
(***************************************************************************)
EXTENDS Integers

CONSTANTS Size,         \* number of elements
          Words,        \* number of values of an unsigned
          MaxOverlaps,  \* bound on the calls that begin during another
          NULL

ASSUME SharedSizeAssumption == Size \in Nat /\ Size >= 2
ASSUME WordsAssumption == Words \in Nat /\ Words > Size
ASSUME OverlapsAssumption == MaxOverlaps \in Nat
ASSUME SharedNullAssumption == NULL \notin Nat

VARIABLES free_bitfield, n_free, next_free,     \* the allocator
          pc,           \* the step each process is at
          has,          \* the iterator each process has, or NULL
          reg,          \* what each process has in registers during a call
          overlaps,     \* calls that began during another
          was           \* history: the allocator when no call was under way

memory == <<free_bitfield, n_free, next_free>>
sh_vars == <<memory, pc, has, reg, overlaps, was>>

Procs == {"app", "poller"}
Other(p) == CHOOSE q \in Procs : q # p
Idx == 0 .. Size - 1

Quiet == {"idle", "holds", "crashed"}       \* not in the allocator
Steps == Quiet \cup {"take", "dec", "dec_store", "set_index", "set", "set_store",
                     "full", "from", "search", "point",
                     "clear", "clear_store", "inc", "inc_store", "one", "repoint"}

\* elem: the element of the call; n and bits: what was read of n_free and of the
\* bit field; look and left: where the search is and how many it may still test.
NoRegs == [elem |-> 0, n |-> 0, bits |-> {}, look |-> 0, left |-> 0]

ShInit == /\ free_bitfield = {} /\ n_free = Size /\ next_free = 0
          /\ pc = [p \in Procs |-> "idle"]
          /\ has = [p \in Procs |-> NULL]
          /\ reg = [p \in Procs |-> NoRegs]
          /\ overlaps = 0
          /\ was = [bits |-> {}, n_free |-> Size, next_free |-> 0, ret |-> NULL]

-----------------------------------------------------------------------------
Goes(p, from, to) == pc[p] = from /\ pc' = [pc EXCEPT ![p] = to]

\* The first access of a call.
Enters(p) == IF pc[Other(p)] \in Quiet THEN UNCHANGED overlaps
             ELSE overlaps < MaxOverlaps /\ overlaps' = overlaps + 1

\* Bug variant of NextIdx: the index wraps around one too late.
NextIdxLate(j) == IF j >= Size THEN 0 ELSE j + 1

NextIdx(j) == IF j + 1 >= Size THEN 0 ELSE j + 1

\* udpdk_shmalloc.  Its callers do not look for NULL and read through it.
Exhausted(p) == /\ Goes(p, "idle", "crashed") /\ n_free = 0
                /\ Enters(p)
                /\ UNCHANGED <<memory, has, reg>>

NotExhausted(p) == /\ Goes(p, "idle", "take") /\ n_free # 0
                   /\ reg' = [reg EXCEPT ![p].n = n_free]
                   /\ Enters(p)
                   /\ UNCHANGED <<memory, has>>

\* The pointer to return.
TakeNext(p) == /\ Goes(p, "take", "dec")
               /\ reg' = [reg EXCEPT ![p].elem = next_free]
               /\ UNCHANGED <<memory, has, overlaps>>

ReadCount(p) == /\ Goes(p, "dec", "dec_store")
                /\ \E v \in {reg[p].n, n_free} : reg' = [reg EXCEPT ![p].n = v]
                /\ UNCHANGED <<memory, has, overlaps>>

Decrement(p) == /\ Goes(p, "dec_store", "set_index")
                /\ n_free' = (reg[p].n - 1) % Words
                /\ reg' = [reg EXCEPT ![p].n = n_free']
                /\ UNCHANGED <<free_bitfield, next_free, has, overlaps>>

\* SetBit at next_free, which may have moved since.
ReadIndex(p) == /\ Goes(p, "set_index", "set")
                /\ \E j \in {reg[p].elem, next_free} : reg' = [reg EXCEPT ![p].look = j]
                /\ UNCHANGED <<memory, has, overlaps>>

ReadBits(p) == /\ Goes(p, "set", "set_store")
               /\ reg' = [reg EXCEPT ![p].bits = free_bitfield]
               /\ UNCHANGED <<memory, has, overlaps>>

SetBit(p) == /\ Goes(p, "set_store", "full")
             /\ free_bitfield' = reg[p].bits \cup {reg[p].look}
             /\ reg' = [reg EXCEPT ![p].bits = free_bitfield']
             /\ UNCHANGED <<n_free, next_free, has, overlaps>>

\* The call returns its element to list_iterator_new_from_node.
Returns(p) == /\ has' = [has EXCEPT ![p] = reg[p].elem]
              /\ reg' = [reg EXCEPT ![p] = NoRegs]
              /\ UNCHANGED <<free_bitfield, n_free, overlaps>>

\* With no element left there is nothing to search.
WasLast(p) == /\ Goes(p, "full", "holds")
              /\ 0 \in {reg[p].n, n_free}
              /\ Returns(p) /\ UNCHANGED next_free

WasNotLast(p) == /\ Goes(p, "full", "from")
                 /\ {reg[p].n, n_free} # {0}
                 /\ UNCHANGED <<memory, has, reg, overlaps>>

\* Bug variant of SearchFrom: the search begins at the first element.
SearchFromFirst(p) ==
    /\ Goes(p, "from", "search")
    /\ reg' = [reg EXCEPT ![p].look = 0, ![p].left = Size]
    /\ UNCHANGED <<memory, has, overlaps>>

SearchFrom(p) == /\ Goes(p, "from", "search")
                 /\ \E j \in {reg[p].elem, reg[p].look, next_free} :
                       reg' = [reg EXCEPT ![p].look = NextIdx(j), ![p].left = Size]
                 /\ UNCHANGED <<memory, has, overlaps>>

\* TestBit of one index.
Found(p) == /\ Goes(p, "search", "point")
            /\ reg[p].look \notin reg[p].bits \cap free_bitfield
            /\ UNCHANGED <<memory, has, reg, overlaps>>

\* Bug variant of GoesOn: the search goes on until it finds a clear bit.
GoesOnForEver(p) ==
    /\ Goes(p, "search", "search")
    /\ \E b \in {reg[p].bits, free_bitfield} :
          /\ reg[p].look \in b
          /\ reg' = [reg EXCEPT ![p].bits = b, ![p].look = NextIdx(@)]
    /\ UNCHANGED <<memory, has, overlaps>>

GoesOn(p) ==
    /\ Goes(p, "search", "search") /\ reg[p].left > 1
    /\ \E b \in {reg[p].bits, free_bitfield} :
          /\ reg[p].look \in b
          /\ reg' = [reg EXCEPT ![p].bits = b, ![p].look = NextIdx(@), ![p].left = @ - 1]
    /\ UNCHANGED <<memory, has, overlaps>>

\* The last index was looked at: next_free stays where it is.
NotFound(p) == /\ Goes(p, "search", "holds") /\ reg[p].left = 1
               /\ reg[p].look \in reg[p].bits \cup free_bitfield
               /\ Returns(p) /\ UNCHANGED next_free

\* Bug variant of PointToFree: next_free stays at the element returned.
PointsNowhere(p) == /\ Goes(p, "point", "holds")
                    /\ Returns(p) /\ UNCHANGED next_free

PointToFree(p) == /\ Goes(p, "point", "holds")
                  /\ next_free' = reg[p].look
                  /\ Returns(p)

\* udpdk_shfree of the iterator, at the end of the walk.  It may be free already,
\* if a race gave it to both processes.
Gone(p) == /\ has' = [has EXCEPT ![p] = NULL]
           /\ reg' = [reg EXCEPT ![p] = NoRegs]
           /\ UNCHANGED <<free_bitfield, n_free>>

NotAllocated(p) == /\ Goes(p, "holds", "idle")
                   /\ has[p] \notin free_bitfield
                   /\ Enters(p) /\ Gone(p) /\ UNCHANGED next_free

TestAllocated(p) == /\ Goes(p, "holds", "clear")
                    /\ has[p] \in free_bitfield
                    /\ reg' = [reg EXCEPT ![p].elem = has[p], ![p].bits = free_bitfield]
                    /\ Enters(p)
                    /\ UNCHANGED <<memory, has>>

ReadToClear(p) == /\ Goes(p, "clear", "clear_store")
                  /\ \E b \in {reg[p].bits, free_bitfield} :
                        reg' = [reg EXCEPT ![p].bits = b]
                  /\ UNCHANGED <<memory, has, overlaps>>

ClearBit(p) == /\ Goes(p, "clear_store", "inc")
               /\ free_bitfield' = reg[p].bits \ {reg[p].elem}
               /\ UNCHANGED <<n_free, next_free, has, reg, overlaps>>

ReadToIncrement(p) == /\ Goes(p, "inc", "inc_store")
                      /\ reg' = [reg EXCEPT ![p].n = n_free]
                      /\ UNCHANGED <<memory, has, overlaps>>

Increment(p) == /\ Goes(p, "inc_store", "one")
                /\ n_free' = (reg[p].n + 1) % Words
                /\ reg' = [reg EXCEPT ![p].n = n_free']
                /\ UNCHANGED <<free_bitfield, next_free, has, overlaps>>

WasNotEmpty(p) == /\ Goes(p, "one", "idle")
                  /\ {reg[p].n, n_free} # {1}
                  /\ Gone(p) /\ UNCHANGED <<next_free, overlaps>>

WasEmpty(p) == /\ Goes(p, "one", "repoint")
               /\ 1 \in {reg[p].n, n_free}
               /\ UNCHANGED <<memory, has, reg, overlaps>>

Repoint(p) == /\ Goes(p, "repoint", "idle")
              /\ next_free' = reg[p].elem
              /\ Gone(p) /\ UNCHANGED overlaps

Shmalloc(p) == \/ TakeNext(p) \/ ReadCount(p) \/ Decrement(p) \/ ReadIndex(p)
               \/ ReadBits(p) \/ SetBit(p) \/ WasLast(p) \/ WasNotLast(p)
               \/ SearchFrom(p) \/ Found(p) \/ GoesOn(p) \/ NotFound(p) \/ PointToFree(p)

Shfree(p) == \/ ReadToClear(p) \/ ClearBit(p) \/ ReadToIncrement(p) \/ Increment(p)
             \/ WasNotEmpty(p) \/ WasEmpty(p) \/ Repoint(p)

Starts(p) == Exhausted(p) \/ NotExhausted(p) \/ NotAllocated(p) \/ TestAllocated(p)

\* History: until a race, what each call leaves and returns.
Remember(p) ==
    was' = IF overlaps' > 0 \/ pc'[p] \notin Quiet THEN was
           ELSE [bits |-> free_bitfield', n_free |-> n_free', next_free |-> next_free',
                 ret |-> IF pc'[p] = "idle" THEN was.ret ELSE has'[p]]

Continues(p) == (Shmalloc(p) \/ Shfree(p)) /\ Remember(p)

ShNext == \E p \in Procs : Continues(p) \/ (Starts(p) /\ Remember(p))

\* A process does not stop in the middle of a call.
ShSpec == ShInit /\ [][ShNext]_sh_vars /\ \A p \in Procs : WF_sh_vars(Continues(p))

-----------------------------------------------------------------------------
\* Types: whatever the race, the pool has only indexes of its own in its fields,
\* so that shmalloc returns an element of the pool and shfree gets one.
ShTypeOK ==
    /\ free_bitfield \subseteq Idx /\ n_free \in 0 .. Words - 1 /\ next_free \in Idx
    /\ pc \in [Procs -> Steps]
    /\ has \in [Procs -> Idx \cup {NULL}]
    /\ \A p \in Procs : pc[p] \in {"holds", "clear"} => has[p] \in Idx
    /\ reg \in [Procs -> [elem : Idx, n : 0 .. Words - 1, bits : SUBSET Idx,
                          look : Idx, left : 0 .. Size]]
    /\ overlaps \in 0 .. MaxOverlaps
    /\ was \in [bits : SUBSET Idx, n_free : 0 .. Words - 1, next_free : Idx,
                ret : Idx \cup {NULL}]

\* Until two calls overlap each process has an iterator of its own, which is not
\* free, and none is told that there is none left.
IteratorsApart ==
    overlaps = 0 =>
    /\ \A p \in Procs : pc[p] # "crashed"
    /\ \A p \in Procs : pc[p] = "holds" => has[p] \in free_bitfield
    /\ pc["app"] = "holds" /\ pc["poller"] = "holds" => has["app"] # has["poller"]

\* As long as calls do not overlap, each does in its many steps what Shmalloc
\* does in one, whatever the other process does with its own iterator meanwhile.
Whole == INSTANCE Shmalloc WITH
    ElemBytes <- 1, free_bitfield <- was.bits, n_free <- was.n_free,
    next_free <- was.next_free, ret <- was.ret

ImplementsShmalloc == Whole!Init /\ [][overlaps' = 0 => Whole!Next]_was

\* Every call ends, even after a race that has left no clear bit while n_free is
\* not 0: the search looks at each index once.
CallsEnd == \A p \in Procs : pc[p] \notin Quiet ~> pc[p] \in Quiet
=============================================================================
