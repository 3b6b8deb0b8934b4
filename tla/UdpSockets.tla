----------------------------- MODULE UdpSockets -----------------------------
(***************************************************************************)
(* What the application is promised of its sockets, with no table and no   *)
(* list: which are open, and the address each one is bound to.  Sockets    *)
(* implements it.                                                          *)
(***************************************************************************)
EXTENDS FiniteSets

CONSTANTS Sockets, Ports, IPs, INADDR_ANY, None

VARIABLES open,     \* the open sockets
          name,     \* for each socket <<ip, port>>, or None when it is not bound
          shares,   \* the bound sockets that had a reuse option set when bound
          ret       \* outcome of the last call: "OK" or an error

vars == <<open, name, shares, ret>>

OnPort(p) == {s \in Sockets : name[s] # None /\ name[s][2] = p}

Init == /\ open = {}
        /\ name = [s \in Sockets |-> None]
        /\ shares = {}
        /\ ret = "OK"

\* A call may always be refused, and then has no effect, but EADDRINUSE means
\* that another socket has the port, or (implicit bind) that every port is taken.
Refuse == /\ ret' # "OK"
          /\ ret' = "EADDRINUSE" => \E p \in Ports : OnPort(p) # {}
          /\ UNCHANGED <<open, name, shares>>

Query == ret' = "OK" /\ UNCHANGED <<open, name, shares>>

Open == \E s \in Sockets \ open : /\ open' = open \cup {s}
                                  /\ ret' = "OK"
                                  /\ UNCHANGED <<name, shares>>

\* Who may join a port: at its own address, anyone; beside a socket at the
\* wildcard, who opted in to reuse; at the address of another, who opted in as
\* that other did.  The wildcard itself is only given on an empty port.
MayJoin(ip, p, optIn) ==
    \A o \in OnPort(p) : /\ ip # INADDR_ANY
                         /\ name[o][1] = INADDR_ANY => optIn
                         /\ name[o][1] = ip => optIn /\ o \in shares

Bind(s, ip, p, optIn) ==
    /\ s \in open /\ name[s] = None
    /\ MayJoin(ip, p, optIn)
    /\ name' = [name EXCEPT ![s] = <<ip, p>>]
    /\ shares' = IF optIn THEN shares \cup {s} ELSE shares
    /\ UNCHANGED open

ExplicitBind == /\ \E s \in Sockets, ip \in IPs, p \in Ports, optIn \in BOOLEAN :
                      Bind(s, ip, p, optIn)
                /\ ret' = "OK"

\* A socket that sends before it is bound gets a port no other socket has,
\* and keeps it whether the packet leaves or not.
ImplicitBind == /\ \E s \in Sockets, p \in Ports, optIn \in BOOLEAN :
                      OnPort(p) = {} /\ Bind(s, INADDR_ANY, p, optIn)
                /\ ret' \in {"OK", "ENOMEM", "ENOBUFS"}

Close == \E s \in open : /\ open' = open \ {s}
                         /\ name' = [name EXCEPT ![s] = None]
                         /\ shares' = shares \ {s}
                         /\ ret' = "OK"

Next == Refuse \/ Query \/ Open \/ ExplicitBind \/ ImplicitBind \/ Close

Spec == Init /\ [][Next]_vars
=============================================================================
