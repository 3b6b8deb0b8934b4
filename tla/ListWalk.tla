------------------------------ MODULE ListWalk ------------------------------
(***************************************************************************)
(* The lists of the switching table as pointers in shared memory (list/),  *)
(* which bind() and close() of the application change while the poller     *)
(* walks them.  One step per access to memory that both processes use.     *)
(*                                                                         *)
(* Of what the application writes, the poller reads the entries of the     *)
(* table, the head of a list, and next and val of a node; prev, tail and   *)
(* len are the application's own, and change together with the access next *)
(* to them.  A node and the bind_info it points to are one object: they    *)
(* are allocated and freed in pairs, from pools of the same size, so that  *)
(* the two pools have the same elements free and the same cursor.          *)
(* Stores reach the other process in program order.                        *)
(***************************************************************************)
EXTENDS BindTable, Functions

CONSTANTS NULL,
          NumLists,         \* size of the allocator of lists (UDP_MAX_PORT)
          Requests,         \* the binds the application may ask for
          Dsts,             \* destination addresses of the packets
          MaxCalls,         \* bound on the calls of bind() and close(),
          MaxCallsRaced     \* and on those in which allocations may overlap

ASSUME NullAssumption == NULL \notin Nat
ASSUME ListsAssumption == NumLists \in Nat /\ NumLists > MaxPort
ASSUME RequestsAssumption ==
    Requests \subseteq [sockfd : Sockets, port : Ports, ip : IPs, opts : SUBSET Bits]
ASSUME DstsAssumption == INADDR_ANY \notin Dsts
ASSUME CallsAssumption == MaxCalls \in Nat /\ MaxCallsRaced \in 0 .. MaxCalls

VARIABLES sock_bind_table,  \* a list or NULL for each port
          list, node,       \* contents of the elements of the two pools
          list_bits, list_free, list_cursor, list_ret,  \* allocator of lists
          node_bits, node_free, node_cursor, node_ret,  \* allocator of nodes
          iter,             \* the iterators: the node each is to return next
          it, curr,         \* iterator and node each process works with
          pc,               \* the step each process is at
          req, job,         \* what the application is doing
          bound, calls,     \* requests granted and not closed; calls made
          packet,           \* what the poller is delivering, and the list it found
          raced             \* calls of the iterator allocator have overlapped

list_pool == <<list_bits, list_free, list_cursor, list_ret>>
node_pool == <<node_bits, node_free, node_cursor, node_ret>>
lists     == <<sock_bind_table, list, list_pool>>
nodes     == <<node, node_pool>>
iters     == <<iter, it, curr>>
request   == <<req, job, bound, calls>>

VARIABLES own, stay, visited,   \* history of a walk, see Observe
          freed, reused, new, twice, tight, blind

history == <<own, stay, visited, freed, reused, new, twice, tight, blind>>
lw_vars == <<lists, nodes, iters, pc, request, packet, raced, history>>

Procs == {"app", "poller"}
Other(p) == CHOOSE q \in Procs : q # p

Nodes == 0 .. NumSockets - 1        \* the allocator has NUM_SOCKETS_MAX
Lists == 0 .. NumLists - 1

ListHeap == INSTANCE Shmalloc WITH
    Size <- NumLists, ElemBytes <- 1, free_bitfield <- list_bits,
    n_free <- list_free, next_free <- list_cursor, ret <- list_ret
NodeHeap == INSTANCE Shmalloc WITH
    Size <- NumSockets, ElemBytes <- 1, free_bitfield <- node_bits,
    n_free <- node_free, next_free <- node_cursor, ret <- node_ret

NewList == [head |-> NULL, tail |-> NULL, len |-> 0]
NewNode == [prev |-> NULL, next |-> NULL, val |-> NULL]

LwInit == /\ sock_bind_table = [p \in Ports |-> NULL]
          /\ list = [l \in Lists |-> NewList] /\ node = [n \in Nodes |-> NewNode]
          /\ ListHeap!Init /\ NodeHeap!Init
          /\ iter = [p \in Procs |-> NULL]
          /\ it = [p \in Procs |-> p] /\ curr = [p \in Procs |-> NULL]
          /\ pc = [p \in Procs |-> "idle"]
          /\ req = NULL /\ job = "scan" /\ bound = {} /\ calls = 0
          /\ packet = NULL
          /\ raced = FALSE /\ blind = FALSE
          /\ own = {} /\ stay = <<>> /\ visited = <<>>
          /\ freed = {} /\ reused = FALSE
          /\ new = {} /\ twice = FALSE /\ tight = FALSE

Transition(p, from, to) == pc[p] = from /\ pc' = [pc EXCEPT ![p] = to]

-----------------------------------------------------------------------------
\* The allocator of iterators.  With calls that do not overlap each process
\* gets an iterator of its own.  Calls that do may leave any of its fields
\* wrong: from then on a process may get the iterator of the other, or NULL,
\* which it reads through.
InAllocator(p) == pc[p] \in {"iter_alloc", "iter_free"}

Enter(p) == /\ InAllocator(Other(p)) => calls <= MaxCallsRaced
            /\ raced' = (raced \/ InAllocator(Other(p)))

\* list_iterator_new: the head is read before the allocation.
IterNew(p) == /\ Transition(p, "iter_new", "iter_alloc")
              /\ LET l == IF p = "app" THEN sock_bind_table[req.port] ELSE packet.list
                 IN  curr' = [curr EXCEPT ![p] = list[l].head]
              /\ Enter(p)
              /\ UNCHANGED <<lists, nodes, iter, it, request, packet>>

\* Bug variant of IterGot: one iterator for all.
IterGotStatic(p) == /\ Transition(p, "iter_alloc", "next")
                    /\ it' = [it EXCEPT ![p] = "app"]
                    /\ iter' = [iter EXCEPT !["app"] = curr[p]]
                    /\ UNCHANGED <<lists, nodes, curr, request, packet, raced>>

IterGot(p) == /\ \/ \E i \in IF raced THEN Procs ELSE {p} :
                       /\ Transition(p, "iter_alloc", "next")
                       /\ it' = [it EXCEPT ![p] = i]
                       /\ iter' = [iter EXCEPT ![i] = curr[p]]
                 \/ /\ raced /\ Transition(p, "iter_alloc", "crashed")
                    /\ UNCHANGED <<it, iter>>
              /\ UNCHANGED <<lists, nodes, curr, request, packet, raced>>

\* Bug variant of IterNext: the end of the list is not noticed.
IterNextUnchecked(p) == /\ Transition(p, "next", "advance")
                        /\ curr' = [curr EXCEPT ![p] = iter[it[p]]]
                        /\ UNCHANGED <<lists, nodes, iter, it, request, packet, raced>>

\* list_iterator_next, in two steps.
IterNext(p) == /\ Transition(p, "next", IF iter[it[p]] = NULL THEN "destroy" ELSE "advance")
               /\ curr' = [curr EXCEPT ![p] = iter[it[p]]]
               /\ UNCHANGED <<lists, nodes, iter, it, request, packet, raced>>

\* Bug variant of IterAdvance: the iterator is not moved.
IterAdvanceStays(p) == /\ Transition(p, "advance", "visit")
                       /\ UNCHANGED <<lists, nodes, iters, request, packet, raced>>

IterAdvance(p) == /\ Transition(p, "advance", "visit")
                  /\ iter' = [iter EXCEPT ![it[p]] = node[curr[p]].next]
                  /\ UNCHANGED <<lists, nodes, it, curr, request, packet, raced>>

IterDestroy(p) == /\ Transition(p, "destroy", "iter_free")
                  /\ Enter(p)
                  /\ UNCHANGED <<lists, nodes, iters, request, packet>>

AfterWalk(p) == IF p = "poller" \/ job = "denied" THEN "idle"
                ELSE IF job = "del" THEN "clear" ELSE "info"

IterFreed(p) == /\ Transition(p, "iter_free", AfterWalk(p))
                /\ curr' = [curr EXCEPT ![p] = NULL]
                /\ iter' = IF raced THEN iter ELSE [iter EXCEPT ![p] = NULL]
                /\ packet' = IF p = "poller" THEN NULL ELSE packet
                /\ UNCHANGED <<lists, nodes, it, request, raced>>

Iterator(p) == \/ IterNew(p) \/ IterGot(p) \/ IterNext(p) \/ IterAdvance(p)
               \/ IterDestroy(p) \/ IterFreed(p)

-----------------------------------------------------------------------------
\* btable_add_binding and btable_del_binding, in the application.
CallStarts(r, what, step) ==
    /\ calls < (IF raced THEN MaxCallsRaced ELSE MaxCalls) /\ ~blind
    /\ calls' = calls + 1
    /\ Transition("app", "idle", step)
    /\ req' = r /\ job' = what
    /\ UNCHANGED <<lists, nodes, iters, bound, packet, raced>>

Bind(r) == /\ \A b \in bound : b.sockfd # r.sockfd
           /\ CallStarts(r, "scan", IF sock_bind_table[r.port] = NULL
                                    THEN "list" ELSE "iter_new")

Close(r) == r \in bound /\ CallStarts(r, "del", "iter_new")

\* btable_can_bind on one node.
Scan == /\ job = "scan"
        /\ LET ok == Compatible(node[curr["app"]].val, req.ip, req.opts)
           IN  /\ Transition("app", "visit", IF ok THEN "next" ELSE "destroy")
               /\ job' = IF ok THEN "scan" ELSE "denied"
        /\ UNCHANGED <<lists, nodes, iters, req, bound, calls, packet, raced>>

\* The search of btable_del_binding on one node.
Search == /\ job = "del"
          /\ Transition("app", "visit", IF node[curr["app"]].val.sockfd = req.sockfd
                                        THEN "unlink" ELSE "next")
          /\ UNCHANGED <<lists, nodes, iters, request, packet, raced>>

list_new == /\ Transition("app", "list", "publish")
            /\ ListHeap!ShmallocSucceeds
            /\ list' = [list EXCEPT ![list_ret'] = NewList]
            /\ UNCHANGED <<sock_bind_table, nodes, iters, request, packet, raced>>

PublishList == /\ Transition("app", "publish", "info")
               /\ sock_bind_table' = [sock_bind_table EXCEPT ![req.port] = list_ret]
               /\ UNCHANGED <<list, list_pool, nodes, iters, request, packet, raced>>

\* The result of shmalloc is not looked at.
NewBindInfoElem ==
    /\ Transition("app", "info", IF node_free = 0 THEN "crashed" ELSE "node")
    /\ NodeHeap!ShmallocFails \/ NodeHeap!ShmallocSucceeds
    /\ node' = IF node_ret' = NULL THEN node
               ELSE [node EXCEPT ![node_ret'].val =
                                     NewBindInfo(req.sockfd, req.ip, req.opts)]
    /\ UNCHANGED <<lists, iters, request, packet, raced>>

list_node_new == /\ Transition("app", "node", "push")
                 /\ node' = [node EXCEPT ![node_ret].prev = NULL, ![node_ret].next = NULL]
                 /\ UNCHANGED <<lists, node_pool, iters, request, packet, raced>>

\* list_rpush and list_lpush.  The first node of a list is published by its head;
\* one at the back by next of the last node.
Pushed == /\ bound' = bound \cup {req}
          /\ UNCHANGED <<sock_bind_table, list_pool, node_pool, iters,
                         req, job, calls, packet, raced>>

PushAlone == LET l == sock_bind_table[req.port]
             IN  /\ Transition("app", "push", "idle") /\ list[l].len = 0
                 /\ list' = [list EXCEPT ![l] =
                                 [head |-> node_ret, tail |-> node_ret, len |-> 1]]
                 /\ node' = [node EXCEPT ![node_ret].prev = NULL, ![node_ret].next = NULL]
                 /\ Pushed

list_rpush == LET l == sock_bind_table[req.port]
              IN  /\ Transition("app", "push", "idle")
                  /\ list[l].len # 0 /\ req.ip # INADDR_ANY
                  /\ list' = [list EXCEPT ![l].tail = node_ret, ![l].len = @ + 1]
                  /\ node' = [node EXCEPT ![node_ret].prev = list[l].tail,
                                          ![node_ret].next = NULL,
                                          ![list[l].tail].next = node_ret]
                  /\ Pushed

\* Bug variant of LinkFront: the node is published before it is linked.
LinkFrontLate == LET l == sock_bind_table[req.port]
                 IN  /\ Transition("app", "push", "front")
                     /\ list[l].len # 0 /\ req.ip = INADDR_ANY
                     /\ UNCHANGED <<lists, nodes, iters, request, packet, raced>>

\* One at the front is linked first, and then published by the head.
LinkFront == LET l == sock_bind_table[req.port]
             IN  /\ Transition("app", "push", "front")
                 /\ list[l].len # 0 /\ req.ip = INADDR_ANY
                 /\ node' = [node EXCEPT ![node_ret].next = list[l].head,
                                         ![node_ret].prev = NULL]
                 /\ UNCHANGED <<lists, node_pool, iters, request, packet, raced>>

list_lpush == LET l == sock_bind_table[req.port]
              IN  /\ Transition("app", "front", "idle")
                  /\ node' = [node EXCEPT ![list[l].head].prev = node_ret]
                  /\ list' = [list EXCEPT ![l].head = node_ret, ![l].len = @ + 1]
                  /\ Pushed

\* The first half of list_remove on node i: the link to what follows it.
Bypassed(i) == IF node[i].prev = NULL THEN node
               ELSE [node EXCEPT ![node[i].prev].next = node[i].next]

\* Bug variant of Unlinked: the node is detached too, as the pops do.
UnlinkedDetached(i) ==
    LET n == node[i]
        alone == [Bypassed(i) EXCEPT ![i].next = NULL, ![i].prev = NULL]
    IN  IF n.next = NULL THEN alone ELSE [alone EXCEPT ![n.next].prev = n.prev]

\* The nodes after list_remove of node i.
Unlinked(i) ==
    LET n == node[i]
    IN  IF n.next = NULL THEN Bypassed(i)
        ELSE [Bypassed(i) EXCEPT ![n.next].prev = n.prev]

\* Bug variant of EndsWithout: the tail is not moved.
EndsWithoutHead(l, i) ==
    [list[l] EXCEPT !.head = IF node[i].prev = NULL THEN node[i].next ELSE @,
                    !.len  = @ - 1]

\* Head, tail and length of list l without node i.
EndsWithout(l, i) ==
    [list[l] EXCEPT !.head = IF node[i].prev = NULL THEN node[i].next ELSE @,
                    !.tail = IF node[i].next = NULL THEN node[i].prev ELSE @,
                    !.len  = @ - 1]

\* list_remove, with the shfree of the bind_info before it.  What the freed
\* elements contain stays.
list_remove ==
    LET l == sock_bind_table[req.port]
        i == curr["app"]
    IN  /\ Transition("app", "unlink", "destroy")
        /\ node' = Unlinked(i)
        /\ list' = [list EXCEPT ![l] = EndsWithout(l, i)]
        /\ NodeHeap!Shfree(i)
        /\ UNCHANGED <<sock_bind_table, list_pool, iters, request, packet, raced>>

\* The end of btable_del_binding: an empty list goes, and then its entry.  The
\* code reads through the entry: it never is NULL here.
ClearEntry == /\ Transition("app", "clear", "idle")
              /\ list[sock_bind_table[req.port]].len # 0
              /\ bound' = bound \ {req}
              /\ UNCHANGED <<lists, nodes, iters, req, job, calls, packet, raced>>

list_destroy == LET l == sock_bind_table[req.port]
                IN  /\ Transition("app", "clear", "unpublish")
                    /\ l # NULL /\ list[l].len = 0 /\ ListHeap!Shfree(l)
                    /\ UNCHANGED <<sock_bind_table, list, nodes, iters, request,
                                   packet, raced>>

UnpublishList == /\ Transition("app", "unpublish", "idle")
                 /\ sock_bind_table' = [sock_bind_table EXCEPT ![req.port] = NULL]
                 /\ bound' = bound \ {req}
                 /\ UNCHANGED <<list, list_pool, nodes, iters, req, job, calls, packet, raced>>

App == \/ \E r \in Requests : Bind(r) \/ Close(r)
       \/ Iterator("app") \/ Scan \/ Search
       \/ list_new \/ PublishList \/ NewBindInfoElem \/ list_node_new
       \/ PushAlone \/ list_rpush \/ LinkFront \/ list_lpush
       \/ list_remove \/ ClearEntry \/ list_destroy \/ UnpublishList

-----------------------------------------------------------------------------
\* The poller, delivering a packet to the sockets of port p.
Receive(p, d) ==
    /\ sock_bind_table[p] # NULL
    /\ Transition("poller", "idle", "iter_new")
    /\ packet' = [list |-> sock_bind_table[p], port |-> p, dst |-> d]
    /\ UNCHANGED <<lists, nodes, iters, request, raced>>

Deliver ==
    LET b == node[curr["poller"]].val
        stops == b.ip_addr \in {packet.dst, INADDR_ANY} /\ ~Reusable(b)
    IN  /\ Transition("poller", "visit", IF stops THEN "destroy" ELSE "next")
        /\ UNCHANGED <<lists, nodes, iters, request, packet, raced>>

PollerStep == Iterator("poller") \/ Deliver

Poller == PollerStep \/ \E p \in Ports, d \in Dsts : Receive(p, d)

-----------------------------------------------------------------------------
\* What a walk of the pointers finds from node n on, at most k nodes of it.
Chain(p) ==
    LET from[k \in 0 .. NumSockets + 1] ==
            [n \in Nodes \cup {NULL} |->
                IF n = NULL \/ k = 0 THEN <<>> ELSE <<n>> \o from[k - 1][node[n].next]]
    IN  IF sock_bind_table[p] = NULL THEN <<>>
        ELSE from[NumSockets + 1][list[sock_bind_table[p]].head]

Bindings(p) == [i \in DOMAIN Chain(p) |-> node[Chain(p)[i]].val]

\* The elements of seq that are in S, in their order.
Only(seq, S) ==
    LET of[i \in 0 .. Len(seq)] ==
            IF i = 0 THEN <<>>
            ELSE IF seq[i] \in S THEN Append(of[i - 1], seq[i]) ELSE of[i - 1]
    IN  of[Len(seq)]

Elements(ns, ls) == ({"node"} \X ns) \cup ({"list"} \X ls)

MaxVisits == NumSockets + 1      \* length of the history kept: more than there are nodes

\* History of the poller's walk.  own: the nodes that have been in the list of
\* its port since it began; stay: those that have been there all the time, in
\* order; visited: those it has visited.  freed: the elements of the two pools
\* freed since it began, and its list if that was free already; reused: one of
\* these was allocated again.  new: the pools with an allocation since it began,
\* twice: with a second one; tight: there was no room for a node, or for one list
\* at most, when it began.
\* blind is not about walks: close() has removed a node that an iterator of a
\* race has found.  What it does to the lists is not followed further.
Observe ==
    /\ IF pc'["poller"] = "idle"
       THEN /\ own' = {} /\ stay' = <<>> /\ visited' = <<>>
            /\ freed' = {} /\ reused' = FALSE
            /\ new' = {} /\ twice' = FALSE /\ tight' = FALSE
       ELSE IF pc["poller"] = "idle"
       THEN /\ own' = Range(Chain(packet'.port)) /\ stay' = Chain(packet'.port)
            /\ tight' = (node_free = 0 \/ list_free <= 1)
            /\ freed' = Elements({}, {packet'.list} \ list_bits)
            /\ UNCHANGED <<visited, reused, new, twice>>
       ELSE LET now   == Chain(packet.port)'
                taken == Elements(node_bits' \ node_bits, list_bits' \ list_bits)
                pools == {e[1] : e \in taken}
            IN  /\ own' = own \cup Range(now) /\ stay' = Only(stay, Range(now))
                /\ freed' = freed \cup Elements(node_bits \ node_bits', list_bits \ list_bits')
                /\ reused' = (reused \/ taken \cap freed # {})
                /\ new' = new \cup pools
                /\ twice' = (twice \/ pools \cap new # {})
                /\ visited' = IF pc["poller"] = "visit" /\ pc'["poller"] # "visit"
                                 /\ Len(visited) < MaxVisits
                              THEN Append(visited, curr["poller"]) ELSE visited
                /\ UNCHANGED tight
    /\ blind' = (blind \/ (raced /\ pc["app"] = "unlink" /\ pc'["app"] # "unlink"))

Next == (App \/ Poller) /\ Observe

\* A call of the application, once made, goes on.
AppStep == App /\ pc["app"] # "idle"

Spec == /\ LwInit /\ [][Next]_lw_vars
        /\ WF_lw_vars(PollerStep /\ Observe) /\ WF_lw_vars(AppStep /\ Observe)

-----------------------------------------------------------------------------
NodeOrNull == Nodes \cup {NULL}

Steps == {"idle", "iter_new", "iter_alloc", "next", "advance", "visit", "destroy",
          "iter_free", "list", "publish", "info", "node", "push", "front",
          "unlink", "clear", "unpublish", "crashed"}

\* Types, and that no process works with a node it has not got.
LwTypeOK ==
    /\ sock_bind_table \in [Ports -> Lists \cup {NULL}]
    /\ list \in [Lists -> [head : NodeOrNull, tail : NodeOrNull, len : Int]]
    /\ node \in [Nodes -> [prev : NodeOrNull, next : NodeOrNull, val : BindInfo \cup {NULL}]]
    /\ ListHeap!TypeOK /\ NodeHeap!TypeOK
    /\ iter \in [Procs -> NodeOrNull] /\ it \in [Procs -> Procs]
    /\ curr \in [Procs -> NodeOrNull] /\ pc \in [Procs -> Steps]
    /\ \A p \in Procs : pc[p] \in {"advance", "visit", "unlink"} => curr[p] \in Nodes
    /\ req \in Requests \cup {NULL} /\ job \in {"scan", "denied", "del"}
    /\ bound \subseteq Requests /\ calls \in 0 .. MaxCalls
    /\ raced \in BOOLEAN /\ Len(visited) <= MaxVisits

\* At every step of the application, and whatever a race on the iterators has
\* given bind() to scan with: each list ends, its nodes are allocated, it shares
\* none of them with another list, and prev, tail and len (by which the next
\* push, removal or clearing goes) agree with what next says.
ListWellFormed ==
    ~blind =>
    /\ \A p \in Ports :
         LET l == sock_bind_table[p]
             c == Chain(p)
         IN  l # NULL =>
             /\ l \in list_bits \/ (pc["app"] = "unpublish" /\ p = req.port)
             /\ Range(c) \subseteq node_bits /\ IsInjective(c)
             /\ list[l].len = Len(c)
             /\ list[l].tail = IF c = <<>> THEN NULL ELSE c[Len(c)]
             /\ \A i \in DOMAIN c : node[c[i]].prev = IF i = 1 THEN NULL ELSE c[i - 1]
    /\ \A p, q \in Ports : p # q => Range(Chain(p)) \cap Range(Chain(q)) = {}

AllBindings == [p \in Ports |-> Bindings(p)]

Table == INSTANCE SwitchTable WITH table <- AllBindings

\* The pointers implement the switching table: whoever follows them in the middle
\* of a call finds the list before it or after it, and a call inserts one binding
\* at its place or removes one.
ImplementsTable ==
    /\ Table!Init
    /\ [][AllBindings' # AllBindings /\ ~blind' => Table!Next]_AllBindings

\* The application's own walks see the whole list while the poller walks too: a
\* bind() that goes on is one the rules allow, and no binding of a socket is left
\* when its close() ends.
ScanSound ==
    ~raced =>
    /\ pc["app"] \in {"push", "front"} => CanBind(Bindings(req.port), req.ip, req.opts)
    /\ pc["app"] \in {"clear", "unpublish"} =>
         \A p \in Ports : \A b \in Range(Bindings(p)) : b.sockfd # req.sockfd

\* What lets the poller walk without a lock: the cursor of an allocator is moved
\* before it is used, so that the next bind() does not take a node or a list that
\* was freed under the poller.  Only a second one may, or a pool without room.
NoReuse == ~twice /\ ~tight => ~reused

\* As long as that is so, the poller visits no node that was not in the list of
\* the packet's port at some time of the walk, ...
WalkOnlyOwn == ~raced /\ ~reused => Range(visited) \subseteq own

\* ... and it visits the bindings that stay all the time in the order of the list,
\* each once, and all of them if it is not stopped by an exclusive one, whatever
\* comes and goes around them.
WalkVisitsStaying ==
    ~raced /\ ~reused =>
    /\ IsInjective(visited)
    /\ \E k \in 0 .. Len(stay) : Only(visited, Range(stay)) = SubSeq(stay, 1, k)
    /\ pc["poller"] = "destroy" /\ curr["poller"] = NULL => Only(visited, Range(stay)) = stay

\* A walk ends, although nodes may be freed and reused under it and the iterator
\* shared, or the poller reads through a NULL that a race gave it.
WalkEnds == (pc["poller"] # "idle") ~> (pc["poller"] \in {"idle", "crashed"} \/ blind)
=============================================================================
