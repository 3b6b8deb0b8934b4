---------------------------- MODULE SwitchTable -----------------------------
(***************************************************************************)
(* What the code that walks the switching table may rely on: the list of a *)
(* port changes by the insertion of one binding at its place, or by the    *)
(* removal of one binding, and in no other way.                            *)
(***************************************************************************)
EXTENDS BindTable

VARIABLE table

Init == table = [p \in Ports |-> <<>>]

Add(p, b) == table' = [table EXCEPT ![p] = Insert(@, b)]

Del(p, s) == table' = [table EXCEPT ![p] = Remove(@, s)]

Next == \E p \in Ports : \/ \E b \in BindInfo : Add(p, b)
                         \/ \E s \in Sockets : Del(p, s)

Spec == Init /\ [][Next]_table
=============================================================================
