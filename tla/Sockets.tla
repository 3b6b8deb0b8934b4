------------------------------- MODULE Sockets -------------------------------
(***************************************************************************)
(* The socket calls of the application (udpdk_syscall.c), the descriptors  *)
(* of the exchange zone they keep (exch_zone_info) and the L4 switching    *)
(* table, with the closing of the sockets by udpdk_cleanup.                *)
(*                                                                         *)
(* One thread makes the calls, so a call is one step.  What happens to a   *)
(* packet is left to the modules that extend this one: here sendto may     *)
(* find no mbuf or a full ring.                                            *)
(***************************************************************************)
EXTENDS BindTable, FiniteSets

VARIABLES slots,            \* exch_zone_desc->slots
          n_zones_active,   \* exch_zone_desc->n_zones_active
          sock_bind_table,  \* for each port, its bindings; <<>> for NULL
          ret,              \* outcome of the last call, one of Outcomes
          phase             \* "up", in udpdk_cleanup ("closing"), or "down"

vars == <<slots, n_zones_active, sock_bind_table, ret, phase>>

SlotInfo == [used : BOOLEAN, bound : BOOLEAN, udp_port : Ports,
             ip_addr : IPs, so_options : SUBSET Bits]

\* "rejected" stands for the errors of the checks of the arguments (EBADF,
\* EINVAL, EAFNOSUPPORT, EPROTONOSUPPORT, ENOPROTOOPT, EFAULT, ENOTSOCK), which
\* no property tells apart.
Outcomes == {"OK", "rejected", "EADDRINUSE", "ENOBUFS", "ENOMEM"}

\* The zone is zeroed and all the ports are free.
Init == /\ slots = [s \in Sockets |->
                      [used |-> FALSE, bound |-> FALSE, udp_port |-> 0,
                       ip_addr |-> INADDR_ANY, so_options |-> {}]]
        /\ n_zones_active = 0
        /\ sock_bind_table = [p \in Ports |-> <<>>]
        /\ ret = "OK"
        /\ phase = "up"

-----------------------------------------------------------------------------
Up == phase = "up" /\ UNCHANGED phase

\* The call returns outcome e and changes nothing else.
Return(e) == ret' = e /\ UNCHANGED <<slots, n_zones_active, sock_bind_table>>

Unused == {s \in Sockets : ~slots[s].used}

\* Bug variant of CounterFull: the counter does not limit socket().
CounterNeverFull == FALSE

CounterFull == n_zones_active > NumSockets

\* socket(): refused by the counter or for want of an unused slot; else the
\* lowest unused slot is taken, its udp_port and ip_addr left as they were.
SocketRefused == /\ Up
                 /\ \/ Return("rejected")
                    \/ /\ CounterFull \/ Unused = {}
                       /\ Return("ENOBUFS")

TakeSlot(s) == slots' = [slots EXCEPT ![s].used = TRUE, ![s].bound = FALSE,
                                      ![s].so_options = {}]

Socket(s) == /\ Up
             /\ ~CounterFull
             /\ s \in Unused /\ \A t \in Unused : s <= t
             /\ TakeSlot(s)
             /\ n_zones_active' = n_zones_active + 1
             /\ ret' = "OK"
             /\ UNCHANGED sock_bind_table

-----------------------------------------------------------------------------
\* getsockopt() and setsockopt()
OptionRefused(s) == Up /\ Return("rejected")

\* The value getsockopt() gives for an option.
Getsockopt(s, opt) == HasOption(slots[s].so_options, opt)

\* The options after option opt is switched on or off.
SetOption(so_options, opt, on) ==
    LET prev_set == HasOption(so_options, opt)
    IN  CASE on /\ ~prev_set -> so_options \cup opt
          [] ~on /\ prev_set -> so_options \ opt
          [] OTHER           -> so_options

Setsockopt(s, opt, on) ==
    /\ Up /\ slots[s].used
    /\ slots' = [slots EXCEPT ![s].so_options = SetOption(@, opt, on)]
    /\ ret' = "OK"
    /\ UNCHANGED <<n_zones_active, sock_bind_table>>

-----------------------------------------------------------------------------
\* udpdk_bind past its checks of the arguments: the table decides.
Granted(s, ip, port) == CanBind(sock_bind_table[port], ip, slots[s].so_options)

RecordBinding(s, ip, port) ==
    /\ sock_bind_table' = [sock_bind_table EXCEPT ![port] =
                             Insert(@, NewBindInfo(s, ip, slots[s].so_options))]
    /\ slots' = [slots EXCEPT ![s].bound = TRUE, ![s].udp_port = port,
                              ![s].ip_addr = ip]
    /\ UNCHANGED n_zones_active

BindRefused(s) == /\ Up
                  /\ \/ Return("rejected")
                     \/ /\ slots[s].used /\ ~slots[s].bound
                        /\ \E ip \in IPs, port \in Ports : ~Granted(s, ip, port)
                        /\ Return("EADDRINUSE")

\* Bug variant of MayBind: a socket that is already bound is not refused.
MayRebind(s) == slots[s].used

MayBind(s) == slots[s].used /\ ~slots[s].bound

Bind(s, ip, port) == /\ Up
                     /\ MayBind(s) /\ Granted(s, ip, port)
                     /\ RecordBinding(s, ip, port)
                     /\ ret' = "OK"

-----------------------------------------------------------------------------
\* sendto() up to the allocation of the mbuf: a socket that is not bound is
\* bound to the wildcard address and the first free port.
SendRefused(s) ==
    /\ Up
    /\ \/ Return("rejected")
       \/ /\ MayBind(s)
          /\ \E port \in Ports : /\ FirstFreePort(sock_bind_table, port)
                                 /\ ~Granted(s, INADDR_ANY, port)
          /\ Return("EADDRINUSE")

EnsureBound(s) ==
    \/ slots[s].bound /\ UNCHANGED <<slots, n_zones_active, sock_bind_table>>
    \/ /\ ~slots[s].bound
       /\ \E port \in Ports : /\ FirstFreePort(sock_bind_table, port)
                              /\ Granted(s, INADDR_ANY, port)
                              /\ RecordBinding(s, INADDR_ANY, port)

\* The binding stays when the packet then finds no mbuf or no room.
SendTo(s) == /\ Up
             /\ slots[s].used
             /\ EnsureBound(s)
             /\ ret' \in {"OK", "ENOMEM", "ENOBUFS"}

-----------------------------------------------------------------------------
CloseRefused(s) == Up /\ ~slots[s].used /\ Return("rejected")

\* Bug variant: the binding of a socket is looked for at port 0.
UnbindPortZero(s) ==
    sock_bind_table' = IF slots[s].bound
                       THEN [sock_bind_table EXCEPT ![0] = Remove(@, s)]
                       ELSE sock_bind_table

Unbind(s) ==
    sock_bind_table' = IF slots[s].bound
                       THEN [sock_bind_table EXCEPT ![slots[s].udp_port] = Remove(@, s)]
                       ELSE sock_bind_table

\* close() of an open socket; the counter goes up here too.
Release(s) == /\ Unbind(s)
              /\ slots' = [slots EXCEPT ![s].bound = FALSE, ![s].used = FALSE,
                                        ![s].so_options = {}]
              /\ n_zones_active' = n_zones_active + 1
              /\ ret' = "OK"

Close(s) == Up /\ slots[s].used /\ Release(s)

-----------------------------------------------------------------------------
\* udpdk_cleanup, once the poller is gone: it closes the sockets that are
\* bound, in the order of their slots, then frees the table and the zone.
Bound == {s \in Sockets : slots[s].bound}

Cleanup == phase = "up" /\ phase' = "closing" /\ Return("OK")

CleanupClose(s) == /\ phase = "closing" /\ UNCHANGED phase
                   /\ s \in Bound /\ \A t \in Bound : s <= t
                   /\ slots[s].used
                   /\ Release(s)

CleanupDone == /\ phase = "closing" /\ Bound = {}
               /\ phase' = "down"
               /\ UNCHANGED <<slots, n_zones_active, sock_bind_table, ret>>

-----------------------------------------------------------------------------
SocketCalls == SocketRefused \/ \E s \in Sockets : Socket(s)

OptionCalls == \E s \in Sockets : \/ OptionRefused(s)
                                  \/ \E opt \in Options, on \in BOOLEAN :
                                        Setsockopt(s, opt, on)

BindCalls == \E s \in Sockets : \/ BindRefused(s)
                                \/ \E ip \in IPs, port \in Ports : Bind(s, ip, port)

SendCalls == \E s \in Sockets : SendRefused(s) \/ SendTo(s)

CloseCalls == \E s \in Sockets : CloseRefused(s) \/ Close(s)

CleanupSteps == Cleanup \/ (\E s \in Sockets : CleanupClose(s)) \/ CleanupDone

Next == SocketCalls \/ OptionCalls \/ BindCalls \/ SendCalls \/ CloseCalls
            \/ CleanupSteps

Spec == Init /\ [][Next]_vars

-----------------------------------------------------------------------------
TypeOK == /\ slots \in [Sockets -> SlotInfo]
          /\ n_zones_active \in 0 .. 2 * NumSockets + 1
          /\ sock_bind_table \in [Ports -> Seq(BindInfo)]
          /\ ret \in Outcomes
          /\ phase \in {"up", "closing", "down"}

\* Every binding in the table is that of an open socket that knows it by the
\* same port and address: close() finds what it must remove, and the poller
\* never delivers to a slot that is not open.
BindingsOwned ==
    \A p \in Ports : \A i \in DOMAIN sock_bind_table[p] :
        LET b == sock_bind_table[p][i]
            o == slots[b.sockfd]
        IN  o.used /\ o.bound /\ o.udp_port = p /\ o.ip_addr = b.ip_addr

\* Exactly one binding of the list is of socket s.
OnceIn(list, s) ==
    \E i \in DOMAIN list : \A j \in DOMAIN list : list[j].sockfd = s <=> i = j

\* Every bound socket is in the table, once: its packets can reach it, and a
\* close() leaves nothing behind.
BoundOnce == \A s \in Bound : OnceIn(sock_bind_table[slots[s].udp_port], s)

\* Bindings b and c, in this order, may share a port.
LegalPair(b, c) == /\ c.ip_addr # INADDR_ANY
                   /\ b.ip_addr = INADDR_ANY => Reusable(c)
                   /\ b.ip_addr = c.ip_addr => b.reuse_port /\ c.reuse_port

LegalList(list) ==
    \A i, j \in DOMAIN list : i < j => LegalPair(list[i], list[j])

\* Whatever the history of binds, option changes and closes, the sockets of a
\* port are pairwise entitled to share it: at most one has the wildcard
\* address, and it is the first the poller looks at; beside it are only
\* sockets with a reuse option; an address is shared only by sockets that
\* all have reuse_port.
SharingLegal == \A p \in Ports : LegalList(sock_bind_table[p])

\* There are never more bindings than sockets, so that neither the bind_info
\* allocator nor the node allocator, of NUM_SOCKETS_MAX elements each, runs out:
\* btable_add_binding uses what they return unchecked (udpdk_bind_table.c:111).
AllocatorsSuffice ==
    Cardinality({at \in Ports \X (1 .. NumSockets + 1) :
                    at[2] \in DOMAIN sock_bind_table[at[1]]}) <= NumSockets

\* udpdk_cleanup returns every binding to its allocator before destroying it.
CleanupUnbindsAll == phase = "down" => \A p \in Ports : sock_bind_table[p] = <<>>

\* The poller serves the bindings of a port in the order of the list and may
\* stop at any of them, so who gets a packet must not depend on other sockets
\* coming and going: two bindings that stay keep their order.
OrderStable ==
    \A p \in Ports :
        \A i, j \in DOMAIN sock_bind_table[p], k, l \in DOMAIN sock_bind_table'[p] :
            /\ sock_bind_table[p][i] = sock_bind_table'[p][k]
            /\ sock_bind_table[p][j] = sock_bind_table'[p][l]
            => (i < j <=> k < l)

DeliveryOrderStable == [][OrderStable]_vars

-----------------------------------------------------------------------------
\* The sockets as the application sees them.
None == <<>>

Abstract == INSTANCE UdpSockets WITH
    open   <- {s \in Sockets : slots[s].used},
    name   <- [s \in Sockets |-> IF slots[s].bound
                                 THEN <<slots[s].ip_addr, slots[s].udp_port>>
                                 ELSE None],
    shares <- {s \in Bound : \E i \in DOMAIN sock_bind_table[slots[s].udp_port] :
                  LET b == sock_bind_table[slots[s].udp_port][i]
                  IN  b.sockfd = s /\ Reusable(b)}

\* Every call does what UdpSockets promises.
ImplementsUdpSockets == Abstract!Spec

-----------------------------------------------------------------------------
\* "Increment counter in exch_zone_desc" on socket() and "Decrement counter of
\* active slots" on close() (udpdk_syscall.c:77 and :518): the counter is the
\* number of slots in use.
CounterMatchesSlots ==
    n_zones_active = Cardinality({s \in Sockets : slots[s].used})
=============================================================================
