--------------------------- MODULE StartupProofs ---------------------------
(***************************************************************************)
(* The life cycle, for every length of the waits, room of the rings and    *)
(* size of the pool of messages.                                           *)
(***************************************************************************)
EXTENDS Startup, TLAPS

\* What the poller has found in shared memory by the time it is at a step.
Found == [wait       |-> {"msgpool"},
          allocators |-> {"msgpool"},
          queues     |-> {"msgpool", "lists", "bindings"},
          exchange   |-> {"msgpool", "lists", "bindings", "pools"},
          table      |-> {"msgpool", "lists", "bindings", "pools", "zone", "slots"},
          notify     |-> PollerUses \cup {"msgpool"},
          body       |-> PollerUses \cup {"msgpool"}]

FoundStays == poller \in DOMAIN Found => Found[poller] \subseteq shared

\* The application frees nothing before the poller is gone, and does not die before
\* unless it has no pool of messages.
PollerFirst == /\ app \in {"release", "down"} => poller = "gone"
               /\ app = "crashed" => poller = "gone" \/ "msgpool" \notin shared

\* Until a wait is over its attempts are not used up.
CyclesLeft == /\ app \in Objects \cup {"notify", "wait"} => app_c <= WaitMax
              /\ poller \in {"eal", "signals", "retrieve", "wait"} => poller_c <= WaitMax

IInv == StTypeOK /\ MsgsAccounted /\ CyclesLeft /\ FoundStays /\ PollerFirst

LEMMA ObjectsAre ==
    Objects = {"eal", "lists", "pools", "port", "ipc", "msgpool", "zone", "table",
               "bindings", "slots"}
BY DEF Objects, Then

LEMMA FoundDomain ==
    /\ DOMAIN Found = {"wait", "allocators", "queues", "exchange", "table", "notify", "body"}
    /\ Found["wait"] = {"msgpool"} /\ Found["allocators"] = {"msgpool"}
    /\ Found["queues"] = {"msgpool", "lists", "bindings"}
    /\ Found["exchange"] = {"msgpool", "lists", "bindings", "pools"}
    /\ Found["table"] = {"msgpool", "lists", "bindings", "pools", "zone", "slots"}
    /\ Found["notify"] = PollerUses \cup {"msgpool"}
    /\ Found["body"] = PollerUses \cup {"msgpool"}
BY DEF Found, PollerUses

LEMMA InitIInv == StInit => IInv
<1> SUFFICES ASSUME StInit PROVE IInv
  OBVIOUS
<1> USE DEF StInit
<1>1. app \in AppSteps /\ poller \in PollerSteps /\ shared \subseteq Objects
  BY ObjectsAre DEF AppSteps, PollerSteps
<1>2. /\ app_to_pol \in 0 .. IpcRoom /\ pol_to_app \in 0 .. IpcRoom
      /\ msgs \in 0 .. MsgPool /\ MsgsAccounted
      /\ app_c \in 0 .. WaitMax + 1 /\ poller_c \in 0 .. WaitMax + 1 /\ CyclesLeft
  BY StartupAssumption DEF MsgsAccounted, CyclesLeft
<1>3. handler \in BOOLEAN /\ poller_alive \in BOOLEAN
  BY Zenon
<1>4. FoundStays /\ PollerFirst
  BY FoundDomain DEF FoundStays, PollerFirst
<1> QED
  BY <1>1, <1>2, <1>3, <1>4 DEF IInv, StTypeOK

-----------------------------------------------------------------------------
(* The notifications keep the messages and the rings in their bounds. *)

LEMMA NotifyMsgs ==
    ASSUME NEW ring \in 0 .. IpcRoom, NEW rest \in Nat, NEW m \in 0 .. MsgPool,
           m + ring + rest = MsgPool, m > 0,
           NEW ring1, NEW m1,
           ring1 = IF ring < IpcRoom THEN ring + 1 ELSE ring,
           m1 = m - (ring1 - ring)
    PROVE  /\ ring1 \in 0 .. IpcRoom /\ m1 \in 0 .. MsgPool
           /\ m1 + ring1 + rest = MsgPool
BY StartupAssumption

LEMMA AttemptMsgs ==
    ASSUME NEW ring \in 0 .. IpcRoom, NEW rest \in Nat, NEW m \in 0 .. MsgPool,
           m + ring + rest = MsgPool,
           NEW ring1, NEW m1,
           ring1 = IF ring > 0 THEN ring - 1 ELSE ring,
           m1 = m + (ring - ring1)
    PROVE  /\ ring1 \in 0 .. IpcRoom /\ m1 \in 0 .. MsgPool
           /\ m1 + ring1 + rest = MsgPool
BY StartupAssumption

LEMMA AttemptCycles ==
    ASSUME NEW c \in 0 .. WaitMax, NEW ring \in Nat, NEW c1, NEW over \in BOOLEAN,
           c1 = Failures(ring, c), over <=> ring > 0 \/ Expired(c1)
    PROVE  c1 \in 0 .. WaitMax + 1 /\ (~over => c1 <= WaitMax)
BY StartupAssumption DEF Failures, Expired

-----------------------------------------------------------------------------
(* One lemma for each conjunct that several actions can disturb. *)

LEMMA StepMsgs ==
    ASSUME IInv, [StNext]_st_vars
    PROVE  /\ MsgsAccounted' /\ msgs' \in 0 .. MsgPool
           /\ app_to_pol' \in 0 .. IpcRoom /\ pol_to_app' \in 0 .. IpcRoom
<1> USE StartupAssumption DEF IInv, StTypeOK, MsgsAccounted
<1>1. CASE AppNotify
  <2>1. CASE Notify(app_to_pol)
    BY <1>1, <2>1, NotifyMsgs DEF AppNotify, Notify
  <2>2. CASE UNCHANGED <<app_to_pol, msgs>>
    BY <1>1, <2>2 DEF AppNotify
  <2> QED
    BY <1>1, <2>1, <2>2 DEF AppNotify
<1>2. CASE AppWait
  <2>1. app_to_pol' = app_to_pol
    BY <1>2 DEF AppWait
  <2>2. /\ pol_to_app' = IF pol_to_app > 0 THEN pol_to_app - 1 ELSE pol_to_app
        /\ msgs' = msgs + (pol_to_app - pol_to_app')
    BY <1>2 DEF AppWait, Attempt
  <2> QED
    BY <2>1, <2>2, AttemptMsgs
<1>3. CASE PollerNotify
  BY <1>3, NotifyMsgs DEF PollerNotify, Notify
<1>4. CASE PollerWait
  <2>1. pol_to_app' = pol_to_app
    BY <1>4 DEF PollerWait
  <2>2. /\ app_to_pol' = IF app_to_pol > 0 THEN app_to_pol - 1 ELSE app_to_pol
        /\ msgs' = msgs + (app_to_pol - app_to_pol')
    BY <1>4 DEF PollerWait, Attempt
  <2> QED
    BY <2>1, <2>2, AttemptMsgs
<1>5. CASE UNCHANGED rings
  BY <1>5 DEF rings
<1>6. [StNext]_st_vars => \/ AppNotify \/ AppWait \/ PollerNotify \/ PollerWait
                          \/ UNCHANGED rings
  BY DEF StNext, AppInit, AppCleanup, PollerNext, AppCreate, CleanupCalled, Kill, WaitPid,
         AppRelease, PollerEal, PollerSignals, PollerRetrieve, PollerSetup, PollerExit,
         ChildCleanup, st_vars
<1> QED
  BY <1>1, <1>2, <1>3, <1>4, <1>5, <1>6

LEMMA StepCycles ==
    ASSUME IInv, [StNext]_st_vars
    PROVE  /\ CyclesLeft'
           /\ app_c' \in 0 .. WaitMax + 1 /\ poller_c' \in 0 .. WaitMax + 1
<1> USE StartupAssumption, ObjectsAre DEF IInv, StTypeOK, CyclesLeft
<1>1. CASE AppWait
  <2>1. PICK over \in BOOLEAN : /\ app_c' = Failures(pol_to_app, app_c)
                                /\ over <=> pol_to_app > 0 \/ Expired(app_c')
                                /\ app' = IF over THEN "up" ELSE "wait"
    BY <1>1 DEF AppWait, Attempt
  <2>2. app_c \in 0 .. WaitMax /\ pol_to_app \in Nat
    BY <1>1 DEF AppWait
  <2>3. app_c' \in 0 .. WaitMax + 1 /\ (~over => app_c' <= WaitMax)
    BY <2>1, <2>2, AttemptCycles
  <2> QED
    BY <1>1, <2>1, <2>3 DEF AppWait
<1>2. CASE PollerWait
  <2>1. PICK over \in BOOLEAN : /\ poller_c' = Failures(app_to_pol, poller_c)
                                /\ over <=> app_to_pol > 0 \/ Expired(poller_c')
                                /\ poller' = IF over THEN "allocators" ELSE "wait"
    BY <1>2 DEF PollerWait, Attempt, PollerGoesTo
  <2>2. poller_c \in 0 .. WaitMax /\ app_to_pol \in Nat
    BY <1>2 DEF PollerWait
  <2>3. poller_c' \in 0 .. WaitMax + 1 /\ (~over => poller_c' <= WaitMax)
    BY <2>1, <2>2, AttemptCycles
  <2> QED
    BY <1>2, <2>1, <2>3 DEF PollerWait, PollerGoesTo
<1>3. CASE AppCreate
  BY <1>3 DEF AppCreate, Then
<1>4. CASE AppNotify
  BY <1>4 DEF AppNotify
<1>5. CASE CleanupCalled \/ AppCleanup
  BY <1>5 DEF CleanupCalled, AppCleanup, Kill, WaitPid, AppRelease
<1>6. CASE PollerEal \/ PollerSignals \/ PollerRetrieve
  BY <1>6 DEF PollerEal, PollerSignals, PollerRetrieve, PollerGoesTo
<1>7. CASE PollerSetup
  BY <1>7 DEF PollerSetup, LookUp, LookUpMapped, PollerGoesTo
<1>8. CASE PollerNotify \/ PollerExit \/ ChildCleanup
  BY <1>8 DEF PollerNotify, PollerExit, ChildCleanup, PollerGoesTo
<1>9. CASE UNCHANGED st_vars
  BY <1>9 DEF st_vars
<1> QED
  BY <1>1, <1>2, <1>3, <1>4, <1>5, <1>6, <1>7, <1>8, <1>9 DEF StNext, AppInit, PollerNext

LEMMA StepTypes ==
    ASSUME IInv, [StNext]_st_vars
    PROVE  /\ app' \in AppSteps /\ poller' \in PollerSteps /\ shared' \subseteq Objects
           /\ handler' \in BOOLEAN /\ poller_alive' \in BOOLEAN
<1> USE ObjectsAre DEF IInv, StTypeOK, AppSteps, PollerSteps, signals
<1>1. CASE AppCreate
  <2>1. \A step \in Objects : Then[step] \in AppSteps
    BY DEF Then
  <2>2. app' \in AppSteps /\ shared' \subseteq Objects
    BY <1>1, <2>1 DEF AppCreate
  <2> QED
    BY <1>1, <2>2 DEF AppCreate
<1>2. CASE AppNotify \/ AppWait
  BY <1>2 DEF AppNotify, AppWait
<1>3. CASE CleanupCalled \/ AppCleanup
  BY <1>3 DEF CleanupCalled, AppCleanup, Kill, WaitPid, AppRelease
<1>4. CASE PollerEal \/ PollerSignals \/ PollerRetrieve \/ PollerWait
  BY <1>4 DEF PollerEal, PollerSignals, PollerRetrieve, PollerWait, PollerGoesTo, Channel
<1>5. CASE PollerSetup
  BY <1>5 DEF PollerSetup, LookUp, LookUpMapped, PollerGoesTo
<1>6. CASE PollerNotify \/ PollerExit \/ ChildCleanup
  BY <1>6 DEF PollerNotify, PollerExit, ChildCleanup, PollerGoesTo
<1>7. CASE UNCHANGED st_vars
  BY <1>7 DEF st_vars
<1> QED
  BY <1>1, <1>2, <1>3, <1>4, <1>5, <1>6, <1>7 DEF StNext, AppInit, PollerNext

\* A poller that is gone stays gone, and waitpid returns only then.
LEMMA StepPollerFirst ==
    ASSUME IInv, [StNext]_st_vars
    PROVE  PollerFirst'
<1> USE ObjectsAre DEF IInv, PollerFirst
<1>1. CASE AppCreate
  BY <1>1 DEF AppCreate, Then
<1>2. CASE AppNotify \/ AppWait
  BY <1>2 DEF AppNotify, AppWait
<1>3. CASE CleanupCalled \/ AppCleanup
  BY <1>3 DEF CleanupCalled, AppCleanup, Kill, WaitPid, Reaped, AppRelease
<1>4. CASE PollerNext
  BY <1>4 DEF PollerNext, PollerEal, PollerSignals, PollerRetrieve, PollerWait, PollerSetup,
              LookUp, LookUpMapped, PollerNotify, PollerExit, ChildCleanup, PollerGoesTo
<1>5. CASE UNCHANGED st_vars
  BY <1>5 DEF st_vars
<1> QED
  BY <1>1, <1>2, <1>3, <1>4, <1>5 DEF StNext, AppInit

\* What the poller has found stays: only a poller that is gone or has failed lets
\* something be freed.
LEMMA StepFound ==
    ASSUME IInv, [StNext]_st_vars
    PROVE  FoundStays'
<1> USE FoundDomain DEF IInv, FoundStays
<1>1. CASE AppInit \/ CleanupCalled
  BY <1>1 DEF AppInit, AppCreate, AppNotify, AppWait, CleanupCalled
<1>2. CASE Kill \/ WaitPid
  BY <1>2 DEF Kill, WaitPid
<1>3. CASE AppRelease
  BY <1>3 DEF AppRelease, PollerFirst
<1>4. CASE PollerEal \/ PollerSignals \/ PollerRetrieve \/ PollerWait
  BY <1>4 DEF PollerEal, PollerSignals, PollerRetrieve, PollerWait, PollerGoesTo, Channel
<1>5. CASE PollerSetup
  BY <1>5 DEF PollerSetup, LookUp, LookUpMapped, PollerGoesTo, PollerUses
<1>6. CASE PollerNotify \/ PollerExit \/ ChildCleanup
  BY <1>6 DEF PollerNotify, PollerExit, ChildCleanup, PollerGoesTo
<1>7. CASE UNCHANGED st_vars
  BY <1>7 DEF st_vars
<1> QED
  BY <1>1, <1>2, <1>3, <1>4, <1>5, <1>6, <1>7 DEF StNext, AppCleanup, PollerNext

LEMMA StartupInvariant == StSpec => []IInv
<1>1. IInv /\ [StNext]_st_vars => IInv'
  BY StepMsgs, StepCycles, StepTypes, StepPollerFirst, StepFound DEF IInv, StTypeOK
<1> QED
  BY InitIInv, <1>1, PTL DEF StSpec

-----------------------------------------------------------------------------
\* Type correctness of the life cycle: no wait has more than WaitMax + 1 attempts.
THEOREM StTypeCorrect == StSpec => []StTypeOK
BY StartupInvariant, PTL DEF IInv

\* A poller in its loop has all the memory it works on, although its wait for the
\* application may have timed out and both processes run udpdk_cleanup.
THEOREM PollerAlwaysHasMemory == StSpec => []PollerHasMemory
<1>1. IInv => PollerHasMemory
  BY FoundDomain DEF IInv, FoundStays, PollerHasMemory
<1> QED
  BY StartupInvariant, <1>1, PTL

\* No notification loses a message, whether its ring has room or not.
THEOREM MsgsAlwaysAccounted == StSpec => []MsgsAccounted
BY StartupInvariant, PTL DEF IInv

-----------------------------------------------------------------------------
\* Once the poller has reached its loop, what udpdk_cleanup reads is there until
\* the application itself has freed it.
Sound == /\ app # "crashed" /\ poller \in {"body", "gone"}
         /\ "msgpool" \in shared
         /\ app # "down" => Freed \subseteq shared

LEMMA SoundInBody == IInv /\ poller = "body" => Sound
BY FoundDomain DEF IInv, FoundStays, PollerFirst, PollerUses, Freed, Sound

LEMMA SoundStays == Sound /\ [StNext]_st_vars => Sound'
<1> SUFFICES ASSUME Sound, [StNext]_st_vars PROVE Sound'
  OBVIOUS
<1> USE ObjectsAre DEF Sound, Freed
<1>1. CASE AppCreate
  BY <1>1 DEF AppCreate, Then, Unchecked
<1>2. CASE AppNotify \/ AppWait \/ CleanupCalled
  BY <1>2 DEF AppNotify, AppWait, CleanupCalled
<1>3. CASE AppCleanup
  BY <1>3 DEF AppCleanup, Kill, WaitPid, AppRelease
<1>4. CASE PollerNext
  BY <1>4 DEF PollerNext, PollerEal, PollerSignals, PollerRetrieve, PollerWait, PollerSetup,
              LookUp, LookUpMapped, PollerNotify, PollerExit, ChildCleanup, PollerGoesTo
<1>5. CASE UNCHANGED st_vars
  BY <1>5 DEF st_vars
<1> QED
  BY <1>1, <1>2, <1>3, <1>4, <1>5 DEF StNext, AppInit

\* Whatever comes after a start-up that succeeded, udpdk_cleanup does not die: a
\* poller that leaves its loop exits, and only a child whose poller_init failed
\* frees anything (udpdk_init.c:363).
THEOREM CleanExitAlways == StSpec => CleanExit
<1>1. Sound => app # "crashed"
  BY DEF Sound
<1> QED
  BY StartupInvariant, SoundInBody, SoundStays, <1>1, PTL DEF StSpec, CleanExit
=============================================================================
