------------------------------ MODULE Startup -------------------------------
(***************************************************************************)
(* Life cycle of the two processes: udpdk_init in the application, which   *)
(* creates what they share, poller_init in the child, which looks it up,   *)
(* the notifications they exchange over the IPC rings, and udpdk_cleanup.  *)
(*                                                                         *)
(* When udpdk_init fails the application calls udpdk_cleanup, as those of  *)
(* src/apps do; poller_init returns into that same code when it fails, so  *)
(* that the child then runs udpdk_cleanup too.                             *)
(***************************************************************************)
EXTENDS Integers, FiniteSets

CONSTANTS WaitMax,      \* WAIT_MAX_CYCLES
          IpcRoom,      \* what an IPC ring can hold: its count less one
          MsgPool       \* size of ipc_msg_pool

ASSUME StartupAssumption == WaitMax \in Nat /\ IpcRoom \in Nat /\ MsgPool \in Nat

VARIABLES app,          \* step the application is at
          poller,       \* step the poller is at
          shared,       \* what exists in shared memory, named by the step that creates it
          app_to_pol, pol_to_app,   \* messages in the two rings
          msgs,         \* messages in ipc_msg_pool
          app_c, poller_c,          \* failed attempts to dequeue of each wait
          handler,      \* the poller has installed its signal handler
          poller_alive

rings   == <<app_to_pol, pol_to_app, msgs>>
signals == <<handler, poller_alive>>
st_vars == <<app, poller, shared, rings, app_c, poller_c, signals>>

\* The steps of udpdk_init that create something, each with the one after it.
Then == [eal |-> "lists", lists |-> "pools", pools |-> "port", port |-> "ipc",
         ipc |-> "msgpool", msgpool |-> "zone", zone |-> "table",
         table |-> "bindings", bindings |-> "slots", slots |-> "notify"]

Objects == DOMAIN Then

\* The list allocators, the pool of messages and the allocator of bindings: whether
\* they could be created is not looked at.
Unchecked == {"lists", "msgpool", "bindings"}

AppSteps == Objects \cup {"notify", "wait", "up", "failed", "kill", "waitpid",
                          "release", "down", "crashed"}

PollerSteps == {"eal", "signals", "retrieve", "wait", "allocators", "queues",
                "exchange", "table", "notify", "body", "failed", "failed_mapped",
                "gone"}

\* A fork() that fails gives -1, and the application goes on as a parent would;
\* kill(-1) and waitpid(-1) then find no poller, like one that is gone.
StInit == /\ app = "eal" /\ poller \in {"eal", "gone"} /\ shared = {}
          /\ app_to_pol = 0 /\ pol_to_app = 0 /\ msgs = MsgPool
          /\ app_c = 0 /\ poller_c = 0
          /\ handler = FALSE /\ poller_alive = TRUE

-----------------------------------------------------------------------------
\* udpdk_init in the parent: a step that fails ends it, if that is looked at.
AppCreate == /\ app \in Objects
             /\ \/ shared' = shared \cup {app} /\ app' = Then[app]
                \/ app \in Unchecked /\ app' = Then[app] /\ UNCHANGED shared
                \/ app \notin Unchecked /\ app' = "failed" /\ UNCHANGED shared
             /\ UNCHANGED <<poller, rings, app_c, poller_c, signals>>

\* Bug variant of Notify: the message that found no room is not given back.
NotifyLosesMessage(ring) == /\ msgs > 0 /\ msgs' = msgs - 1
                            /\ ring' = IF ring < IpcRoom THEN ring + 1 ELSE ring

\* A message is taken from the pool, and given back if the ring has no room.
\* (With no message left the process would panic.)
Notify(ring) == /\ msgs > 0
                /\ ring' = IF ring < IpcRoom THEN ring + 1 ELSE ring
                /\ msgs' = msgs - (ring' - ring)

\* Bug variant of Failures: the failed attempts are not counted.
FailuresNotCounted(ring, c) == c

Failures(ring, c) == IF ring > 0 THEN c ELSE c + 1

Expired(c) == c > WaitMax

\* One attempt to dequeue.  The wait is over with a message, or after more than
\* WaitMax failures; the callers do not tell the two apart.
Attempt(ring, c, over) == /\ ring' = IF ring > 0 THEN ring - 1 ELSE ring
                          /\ msgs' = msgs + (ring - ring')
                          /\ c' = Failures(ring, c)
                          /\ over <=> ring > 0 \/ Expired(c')

\* Without its pool of messages the application dies here.
AppNotify == /\ app = "notify"
             /\ \/ "msgpool" \in shared /\ app' = "wait" /\ Notify(app_to_pol)
                \/ /\ "msgpool" \notin shared /\ app' = "crashed"
                   /\ UNCHANGED <<app_to_pol, msgs>>
             /\ UNCHANGED <<poller, shared, pol_to_app, app_c, poller_c, signals>>

AppWait == /\ app = "wait"
           /\ \E over \in BOOLEAN : /\ Attempt(pol_to_app, app_c, over)
                                     /\ app' = IF over THEN "up" ELSE "wait"
           /\ UNCHANGED <<poller, shared, app_to_pol, poller_c, signals>>

-----------------------------------------------------------------------------
\* poller_init in the child.  EAL cannot attach to a primary that is not ready.
PollerGoesTo(step) == poller' = step /\ UNCHANGED <<app, shared, app_c>>

PollerEal == /\ poller = "eal"
             /\ \/ "eal" \in shared /\ PollerGoesTo("signals")
                \/ PollerGoesTo("failed")
             /\ UNCHANGED <<rings, poller_c, signals>>

PollerSignals == /\ poller = "signals" /\ PollerGoesTo("retrieve")
                 /\ handler' = TRUE
                 /\ UNCHANGED <<rings, poller_c, poller_alive>>

Channel == {"ipc", "msgpool"}

\* Bug variant of PollerRetrieve: a request to stop is not looked at.
RetrieveDeaf == /\ poller = "retrieve"
                /\ Channel \subseteq shared /\ PollerGoesTo("wait")
                /\ UNCHANGED <<rings, poller_c, signals>>

PollerRetrieve == /\ poller = "retrieve"
                  /\ \/ Channel \subseteq shared /\ PollerGoesTo("wait")
                     \/ /\ ~(Channel \subseteq shared) /\ ~poller_alive
                        /\ PollerGoesTo("failed")
                  /\ UNCHANGED <<rings, poller_c, signals>>

PollerWait ==
    /\ poller = "wait"
    /\ \E over \in BOOLEAN : /\ Attempt(app_to_pol, poller_c, over)
                              /\ PollerGoesTo(IF over THEN "allocators" ELSE "wait")
    /\ UNCHANGED <<pol_to_app, signals>>

\* The lookups: any of them may fail, and must when its object is not there.
LookUp(step, needs, next) ==
    /\ poller = step
    /\ \/ needs \subseteq shared /\ PollerGoesTo(next)
       \/ PollerGoesTo("failed")

\* setup_exch_zone and setup_udp_table come after exch_zone_desc has its value.
LookUpMapped(step, needs, next) ==
    /\ poller = step /\ "zone" \in shared
    /\ \/ needs \subseteq shared /\ PollerGoesTo(next)
       \/ PollerGoesTo("failed_mapped")

PollerSetup == /\ \/ LookUp("allocators", {"lists", "bindings"}, "queues")
                  \/ LookUp("queues", {"pools"}, "exchange")
                  \/ LookUpMapped("exchange", {"slots"}, "table")
                  \/ poller = "exchange" /\ "zone" \notin shared /\ PollerGoesTo("failed")
                  \/ LookUpMapped("table", {"table"}, "notify")
               /\ UNCHANGED <<rings, poller_c, signals>>

PollerNotify == /\ poller = "notify" /\ PollerGoesTo("body")
                /\ Notify(pol_to_app)
                /\ UNCHANGED <<app_to_pol, poller_c, signals>>

\* Bug variant of PollerExit: poller_body returns to the application's code, and
\* so to udpdk_cleanup.
PollerExitReturns == /\ poller = "body" /\ ~poller_alive /\ poller' = "gone"
                     /\ shared' = shared \ {"zone", "table", "bindings", "lists"}
                     /\ UNCHANGED <<app, rings, app_c, poller_c, signals>>

\* poller_body leaves its loop and exits.
PollerExit == /\ poller = "body" /\ ~poller_alive /\ PollerGoesTo("gone")
              /\ UNCHANGED <<rings, poller_c, signals>>

-----------------------------------------------------------------------------
\* udpdk_cleanup in the application, in three steps.  A SIGTERM the poller gets
\* before it has its handler is that of the application's handler, which does
\* not stop the poller, or is deadly if the application has none.
CleanupCalled == /\ app \in {"up", "failed"} /\ app' = "kill"
                 /\ UNCHANGED <<poller, shared, rings, app_c, poller_c, signals>>

Kill == /\ app = "kill" /\ app' = "waitpid"
        /\ \/ poller # "gone" /\ handler /\ poller_alive' = FALSE /\ UNCHANGED poller
           \/ poller # "gone" /\ ~handler /\ poller' = "gone" /\ UNCHANGED poller_alive
           \/ (poller = "gone" \/ ~handler) /\ UNCHANGED <<poller, poller_alive>>
        /\ UNCHANGED <<shared, rings, app_c, poller_c, handler>>

\* Bug variant of Reaped: the child is not waited for.
ReapedAlways == TRUE

Reaped == poller = "gone"

WaitPid == /\ app = "waitpid" /\ Reaped /\ app' = "release"
           /\ UNCHANGED <<poller, shared, rings, app_c, poller_c, signals>>

\* What udpdk_cleanup frees, and reads before that: a process that finds one of
\* them missing dies there.
Freed == {"zone", "table", "bindings", "lists"}

AppRelease == /\ app = "release"
              /\ \/ Freed \subseteq shared /\ app' = "down" /\ shared' = shared \ Freed
                 \/ ~(Freed \subseteq shared) /\ app' = "crashed" /\ UNCHANGED shared
              /\ UNCHANGED <<poller, rings, app_c, poller_c, signals>>

\* udpdk_cleanup in the child, where poller_pid is 0: SIGTERM goes to the whole
\* group, for the application a request to stop, and there is nobody to wait for.
\* Without exch_zone_desc the child dies; with it, it frees what it shares with
\* the parent.
ChildCleanup == /\ \/ poller = "failed" /\ UNCHANGED shared
                   \/ poller = "failed_mapped" /\ shared' = shared \ Freed
                /\ poller' = "gone"
                /\ UNCHANGED <<app, rings, app_c, poller_c, signals>>

-----------------------------------------------------------------------------
AppInit == AppCreate \/ AppNotify \/ AppWait

AppCleanup == Kill \/ WaitPid \/ AppRelease

PollerNext == \/ PollerEal \/ PollerSignals \/ PollerRetrieve \/ PollerWait
              \/ PollerSetup \/ PollerNotify \/ PollerExit \/ ChildCleanup

StNext == AppInit \/ CleanupCalled \/ AppCleanup \/ PollerNext

\* Both processes go on by themselves; when the application calls
\* udpdk_cleanup is its own affair.
StSpec == /\ StInit /\ [][StNext]_st_vars
          /\ WF_st_vars(AppInit) /\ WF_st_vars(AppCleanup) /\ WF_st_vars(PollerNext)

-----------------------------------------------------------------------------
StTypeOK == /\ app \in AppSteps /\ poller \in PollerSteps
            /\ shared \subseteq Objects
            /\ app_to_pol \in 0 .. IpcRoom /\ pol_to_app \in 0 .. IpcRoom
            /\ msgs \in 0 .. MsgPool
            /\ app_c \in 0 .. WaitMax + 1 /\ poller_c \in 0 .. WaitMax + 1
            /\ handler \in BOOLEAN /\ poller_alive \in BOOLEAN

\* What the poller's loop works on.
PollerUses == {"lists", "pools", "zone", "table", "bindings", "slots"}

\* A poller in its loop has everything it works on: it got there by the lookups
\* although a wait may have ended without a notification, and neither process
\* frees anything before the poller is gone.
PollerHasMemory == poller \in {"notify", "body"} => PollerUses \subseteq shared

\* Every message is in the pool or in a ring, so that the pool never runs out
\* and no process panics.
MsgsAccounted == msgs + app_to_pol + pol_to_app = MsgPool

\* udpdk_init returns in the application, whatever becomes of the poller and even
\* if there is none.  It dies on the way only for want of the pool of messages.
InitReturns == <>(\/ app \in {"up", "failed"}
                  \/ app = "crashed" /\ "msgpool" \notin shared)

\* A poller that got the request to stop ends, wherever it is, and with it the
\* application's udpdk_cleanup, which ends too when there is no poller.
CleanupEnds == (app = "waitpid" /\ (~poller_alive \/ poller = "gone"))
               ~> (app \in {"down", "crashed"})

\* The application dies in udpdk_cleanup only after a start-up that failed: once the
\* poller has reached its loop nobody but the application frees what they share.
CleanExit == [](poller = "body" => [](app # "crashed"))

-----------------------------------------------------------------------------
\* "Wait for the poller to be fully initialized" (udpdk_init.c:359): when
\* udpdk_init has returned without error the poller is in its loop, or gone.
PollerReady == app = "up" => poller \in {"body", "gone"}
=============================================================================
