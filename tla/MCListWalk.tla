----------------------------- MODULE MCListWalk -----------------------------
EXTENDS ListWalk

CONSTANTS a1, a2
Bit == {1}

\* Socket 0 shares port 0 with whoever may; socket 2 takes the wildcard of
\* port 0 or the address of socket 0 on port 1.
R(s, p, ip, opts) == [sockfd |-> s, port |-> p, ip |-> ip, opts |-> opts]

MCRequests == {R(0, 0, a1, Bit), R(1, 0, a2, {}),
               R(2, 0, INADDR_ANY, {}), R(2, 1, a1, {})}
=============================================================================
