-------------------------------- MODULE Pool --------------------------------
(***************************************************************************)
(* What a caller expects of a fixed-size shared allocator: an allocation   *)
(* hands out an element nobody holds, and fails only when every element is *)
(* held; a free gives back an element that is held and changes nothing     *)
(* otherwise.  Shmalloc implements it.                                     *)
(***************************************************************************)
CONSTANTS Elements,     \* the elements of the pool
          NULL          \* result of a failed allocation

VARIABLES held,         \* the elements handed out and not given back
          ret           \* result of the last allocation

Init == held = {} /\ ret = NULL

Alloc == \/ \E e \in Elements \ held : /\ held' = held \cup {e}
                                       /\ ret' = e
         \/ held = Elements /\ ret' = NULL /\ UNCHANGED held

Free == \E e \in held : held' = held \ {e} /\ UNCHANGED ret

Next == Alloc \/ Free

Spec == Init /\ [][Next]_<<held, ret>>
=============================================================================
