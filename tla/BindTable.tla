------------------------------ MODULE BindTable ------------------------------
(***************************************************************************)
(* One entry of the L4 switching table (udpdk_bind_table.c): the ordered   *)
(* list of the bindings of one UDP port.  The empty list stands for NULL,  *)
(* because an entry is set back to NULL when its list becomes empty.       *)
(*                                                                         *)
(* Socket options are sets of bits, as in so_options: the code uses the    *)
(* system's SO_REUSEADDR and SO_REUSEPORT numbers as bit masks.            *)
(***************************************************************************)
EXTENDS Integers, Sequences

CONSTANTS INADDR_ANY,
          Addrs,            \* the other IPv4 addresses
          MaxPort,          \* ports are 0 .. MaxPort (65535 in the code)
          NumSockets,       \* NUM_SOCKETS_MAX
          SO_REUSEADDR,     \* the bits set in the constant of this name
          SO_REUSEPORT

ASSUME AnyAssumption == INADDR_ANY \notin Addrs
ASSUME MaxPortAssumption == MaxPort \in Nat
ASSUME NumSocketsAssumption == NumSockets \in Nat \ {0}
ASSUME MaskAssumption == SO_REUSEADDR # {} /\ SO_REUSEPORT # {}

Ports   == 0 .. MaxPort
IPs     == Addrs \cup {INADDR_ANY}
Sockets == 0 .. NumSockets - 1
Options == {SO_REUSEADDR, SO_REUSEPORT}
Bits    == SO_REUSEADDR \cup SO_REUSEPORT

\* "so_options & opt" as a truth value.
HasOption(so_options, opt) == so_options \cap opt # {}

BindInfo == [sockfd : Sockets, ip_addr : IPs,
             reuse_addr : BOOLEAN, reuse_port : BOOLEAN]

NewBindInfo(s, ip, so_options) ==
    [sockfd |-> s, ip_addr |-> ip,
     reuse_addr |-> HasOption(so_options, SO_REUSEADDR),
     reuse_port |-> HasOption(so_options, SO_REUSEPORT)]

Reusable(b) == b.reuse_addr \/ b.reuse_port

-----------------------------------------------------------------------------
\* Binding b of another socket does not stop a bind to address ip of the same
\* port with these options: the three "continue" of the scan.
Compatible(b, ip, so_options) ==
    \/ /\ b.ip_addr # ip
       /\ b.ip_addr # INADDR_ANY /\ ip # INADDR_ANY
    \/ /\ b.ip_addr # ip
       /\ b.ip_addr = INADDR_ANY \/ ip # INADDR_ANY
       /\ \/ HasOption(so_options, SO_REUSEADDR)
          \/ HasOption(so_options, SO_REUSEPORT)
    \/ /\ b.ip_addr = ip /\ ip # INADDR_ANY
       /\ HasOption(so_options, SO_REUSEPORT) /\ b.reuse_port

\* Bug variants of CanBind: only the first binding of the list is looked at;
\* the port is always granted.
CanBindFirstOnly(list, ip, so_options) ==
    \A i \in DOMAIN list : i = 1 => Compatible(list[i], ip, so_options)
CanBindAlways(list, ip, so_options) == TRUE

\* btable_can_bind
CanBind(list, ip, so_options) ==
    \A i \in DOMAIN list : Compatible(list[i], ip, so_options)

\* Wildcard bindings go to the front of the list, the others to its back.
Insert(list, b) == IF b.ip_addr = INADDR_ANY THEN <<b>> \o list
                                             ELSE Append(list, b)

\* First(list, s, i): i is the position of the first binding of socket s.
First(list, s, i) == /\ list[i].sockfd = s
                     /\ \A j \in 1 .. i - 1 : list[j].sockfd # s

\* The list without its i-th element.
Without(list, i) ==
    [j \in 1 .. Len(list) - 1 |-> IF j < i THEN list[j] ELSE list[j + 1]]

\* Bug variants of Remove: nothing goes; the last one is moved to the place of
\* the removed one.
RemoveNothing(list, s) == list
RemoveBySwap(list, s) ==
    LET i == CHOOSE k \in DOMAIN list : First(list, s, k)
    IN  [j \in 1 .. Len(list) - 1 |-> IF j = i THEN list[Len(list)] ELSE list[j]]

\* btable_del_binding, on the list of the port: the first binding of s goes.
Remove(list, s) ==
    IF \E i \in DOMAIN list : First(list, s, i)
    THEN Without(list, CHOOSE i \in DOMAIN list : First(list, s, i))
    ELSE list

\* The port of an implicit bind: the first one with no binding.  When there is
\* none, btable_get_free_port's -1 becomes port 65535 in the 16-bit sin_port.
FirstFreePort(table, p) ==
    \/ table[p] = <<>> /\ \A q \in 0 .. p - 1 : table[q] # <<>>
    \/ p = MaxPort /\ \A q \in Ports : table[q] # <<>>
=============================================================================
