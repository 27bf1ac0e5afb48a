-------------------------- MODULE TaskDriverProofs --------------------------
(***************************************************************************)
(* Theorems about TaskDriver for any number of threads and drivers, with   *)
(* pauses, yields, blocking, suspension, partitioned output and early      *)
(* cancellation each allowed or not.                                       *)
(*                                                                         *)
(* IInv is inductive: TaskDriverThreads shows it of what each thread does, *)
(* this module of who has a driver, of the slots and of the counting.      *)
(* ExclusiveAccess, ThreadCount, PauseQuiesces and ClosedOnce follow.      *)
(* With it LostInv is inductive, which gives NoLostDriver.                 *)
(***************************************************************************)
EXTENDS TaskDriverThreads, FiniteSetTheorems

-----------------------------------------------------------------------------
(* Ownership *)

\* The flags that say who has a driver are as before.
FlagsKept ==
  UNCHANGED <<onThread, isTerminated, offThreadDrivers, closed,
              terminateRequested, state>>

\* Every other action leaves them alone.
ChangesFlags(p) ==
  \/ Terminate(p) \/ CloseByTask(p)
  \/ /\ p \in Threads
     /\ \/ \E d \in Drivers : EnterRefused(p, d)
        \/ EnterSuspendedThrows(p) \/ Unwind(p) \/ Close(p)
        \/ GoesInOrOut(p)

\* Only the steps that ChangesFlags names touch the flags of a driver.
LEMMA FlagsStep ==
  ASSUME Next, \A p \in Procs : ~ChangesFlags(p)
  PROVE  FlagsKept
<1> USE DEF taskVars, slotVars, flagVars, closeVars, FlagsKept
<1>1. ASSUME ClientStep PROVE FlagsKept
  BY Zenon, <1>1
  DEF ClientStep, Start, RequestPause, Resume, RequestYield, RequestCancel,
      SetAllOutputConsumed, Fulfil
<1>2. ASSUME NEW p \in Procs, TerminateStep(p) PROVE FlagsKept
  BY Zenon, <1>2
  DEF TerminateStep, SetError, TerminateAgain, TerminateDone, ChangesFlags
<1>3. ASSUME NEW t \in Threads,
             \/ EnterStep(t) \/ OperatorStep(t)
             \/ ThreadStep(t) \/ FulfilEarly(t)
      PROVE  FlagsKept
  <2>1. ~ChangesFlags(t)
    BY Zenon, ProcsSplit
  <2> QED
    BY Zenon, <1>3, <2>1
    DEF EnterStep, EnterClosed, EnterUnqueued, OperatorStep, Block, AtEnd,
        Throw, ThreadStep, Stop, RemoveDriver, RanBlocked, RanYielded,
        Requeue, RanOther, SetResume, FulfilEarly, ChangesFlags, GoesInOrOut
<1> QED
  BY Zenon, <1>1, <1>2, <1>3 DEF Next

\* Threads that have a driver, while running it or while closing it.
LEMMA OwnersKept ==
  ASSUME Ownership, ThreadsKept
  PROVE  \A t, u \in Threads :
           t # u /\ (Holds(t)' \/ Closing(t)') /\ (Holds(u)' \/ Closing(u)')
             => drv'[t] # drv'[u]
  BY Zenon DEF Ownership, ThreadsKept

\* No step gives a driver to two threads.
LEMMA OwnershipStep ==
  ASSUME IInv, Next
  PROVE  Ownership'
<1> USE DEF taskVars, slotVars, flagVars, closeVars, execVars, procVars
<1>a. /\ pc \in [Procs -> PCs] /\ ret \in [Procs -> PCs]
      /\ drv \in [Threads -> Drivers \cup {NoDriver}]
  BY Zenon DEF IInv, TypeOK
<1>b. Ownership /\ ClosedSlots /\ ReturnPoints
  BY Zenon DEF IInv
<1>c. \A t \in Threads : pc[t] = "suspended" => Holds(t)
  BY Zenon DEF Holds
<1>1. ASSUME \A p \in Procs : ~ChangesFlags(p) PROVE Ownership'
  <2>1. ThreadsKept
    BY Zenon, <1>1, KeptStep, ProcsSplit DEF ChangesFlags
  <2>2. FlagsKept
    BY Zenon, <1>1, FlagsStep
  <2> QED
    BY Zenon, <1>b, <1>c, <2>1, <2>2, OwnersKept
    DEF Ownership, ThreadsKept, FlagsKept, isRunning
<1>2. ASSUME NEW p \in Procs, Terminate(p), ThreadsKept PROVE Ownership'
  <2>1. \A t \in Threads :
          Holds(t) \/ Closing(t) => drv[t] \notin EnteredForTerminate
    BY Zenon, <1>b DEF Ownership, EnteredForTerminate
  <2>2. EnteredForTerminate \subseteq (isTerminated' \cap onThread') \ closed'
    BY Zenon, <1>2, <1>b DEF Terminate, EnteredForTerminate, ClosedSlots
  <2>3. \A t \in Threads :
          /\ Holds(t)' => drv'[t] \in onThread' \ offThreadDrivers'
          /\ Closing(t)' => drv'[t] \in isTerminated' \ onThread'
    BY Zenon, <1>2, <1>b, <2>1 DEF Terminate, Ownership, ThreadsKept
  <2>4. /\ terminateRequested' /\ ~isRunning'
        /\ offThreadDrivers' = EnteredForTerminate
    BY Zenon, <1>2 DEF Terminate, isRunning, IInv, TypeOK
  <2> QED
    BY Zenon, <1>2, <1>b, <2>2, <2>3, <2>4, OwnersKept DEF Ownership
<1>3. ASSUME NEW p \in Procs, CloseByTask(p), ThreadsKept PROVE Ownership'
  BY Zenon, <1>3, <1>b, OwnersKept
  DEF CloseByTask, Ownership, ThreadsKept, isRunning
<1>4. ASSUME NEW t \in Threads, NEW d \in Drivers, EnterRefused(t, d),
ThreadsKept
      PROVE Ownership'
  <2>1. isTerminated \subseteq isTerminated'
    BY Zenon, <1>4 DEF EnterRefused
  <2>2. ~terminateRequested => isTerminated' = isTerminated
    BY Zenon, <1>4, ShouldStopCases DEF EnterRefused, IInv
  <2> QED
    BY Zenon, <1>4, <1>b, <2>1, <2>2, OwnersKept
    DEF EnterRefused, Ownership, ThreadsKept, isRunning
<1>5. ASSUME NEW t \in Threads, EnterSuspendedThrows(t), ThreadsKept
      PROVE Ownership'
  <2>1. isTerminated \subseteq isTerminated'
    BY Zenon, <1>5 DEF EnterSuspendedThrows
  <2>2. ~terminateRequested => isTerminated' = isTerminated
    BY Zenon, <1>5, ShouldStopCases DEF EnterSuspendedThrows, IInv
  <2> QED
    BY Zenon, <1>5, <1>b, <2>1, <2>2, OwnersKept
    DEF EnterSuspendedThrows, Ownership, ThreadsKept, isRunning
<1>6. ASSUME NEW t \in Threads, Unwind(t), ThreadsKept PROVE Ownership'
  <2>1. \A u \in Threads : u # t /\ Holds(u) => drv[u] # drv[t]
    BY Zenon, <1>6, <1>b DEF Unwind, Ownership, Holds
  <2>2. \A u \in Threads : pc'[u] = "suspended" => Holds(u) /\ u # t
    BY Zenon, <1>6, <1>a DEF Unwind, ThreadsKept, Holds
  <2> QED
    BY Zenon, <1>6, <1>b, <2>1, <2>2, OwnersKept
    DEF Unwind, Ownership, ThreadsKept, isRunning
<1>7. ASSUME NEW t \in Threads, Close(t), ThreadsKept PROVE Ownership'
  <2>1. Holds(t) \/ Closing(t)
    BY Zenon, <1>7, <1>b DEF Close, Holds, Closing, ReturnPoints
  <2>2. drv[t] \notin offThreadDrivers
    BY Zenon, <1>b, <2>1 DEF Ownership
  <2> QED
    BY ZenonT(30), <1>7, <1>b, <2>2, OwnersKept
    DEF Close, Ownership, ThreadsKept, isRunning
<1>8. ASSUME NEW t \in Threads, GoesInOrOut(t) PROVE Ownership'
  <2>0. OthersKept(t)
    BY Zenon, <1>8, InOrOutStep
  <2>a. \A u \in Threads \ {t} :
          /\ Holds(u)' <=> Holds(u)
          /\ Closing(u)' <=> Closing(u)
          /\ drv'[u] = drv[u] /\ pc'[u] = pc[u]
    BY Zenon, <2>0 DEF OthersKept, Holds, Closing
  <2>1. ASSUME NEW d \in Drivers, Enter(t, d), ShouldStop = "kNone"
        PROVE Ownership'
    <3>1. Holds(t)' /\ ~Closing(t)' /\ drv'[t] = d /\ pc'[t] = "running"
      BY Zenon, <1>a, <2>1, ProcsSplit DEF Enter, Holds, Closing
    <3>2. \A u \in Threads \ {t} : Holds(u) \/ Closing(u) => drv[u] # d
      BY Zenon, <1>b, <2>1 DEF Enter, Ownership
    <3> QED
      BY <1>b, <2>a, <2>1, <3>1, <3>2
      DEF Enter, Ownership, isRunning
  <2>2. ASSUME NEW d \in Drivers, Enter(t, d), ShouldStop = "kYield"
        PROVE Ownership'
    <3>1. ~Holds(t)' /\ ~Closing(t)' /\ pc'[t] = "ran"
      BY Zenon, <1>a, <2>2, ProcsSplit DEF Enter, Holds, Closing
    <3> QED
      BY <1>b, <2>a, <2>2, <3>1 DEF Enter, Ownership, isRunning
  <2>3. ASSUME EnterSuspended(t) PROVE Ownership'
    <3>1. /\ Holds(t) /\ Holds(t)' /\ ~Closing(t)' /\ drv'[t] = drv[t]
          /\ drv[t] \notin isTerminated
      BY Zenon, <1>a, <2>3, ProcsSplit DEF EnterSuspended, Holds, Closing
    <3> QED
      BY ZenonT(30), <1>b, <2>a, <2>3, <3>1
      DEF EnterSuspended, Ownership, isRunning
  <2>4. ASSUME LeaveSuspended(t) PROVE Ownership'
    <3>1. /\ Holds(t) /\ Holds(t)' /\ ~Closing(t)' /\ drv'[t] = drv[t]
          /\ pc'[t] # "suspended"
      BY Zenon, <1>a, <2>4, ProcsSplit
      DEF LeaveSuspended, ToHandler, Holds, Closing
    <3>2. \A u \in Threads \ {t} : Holds(u) \/ Closing(u) => drv[u] # drv[t]
      BY Zenon, <1>b, <3>1 DEF Ownership
    <3> QED
      BY Zenon, <1>b, <2>a, <2>4, <3>1, <3>2, <1>c
      DEF LeaveSuspended, Ownership, isRunning
  <2>5. ASSUME Leave(t) PROVE Ownership'
    <3>1. /\ Holds(t) /\ ~Holds(t)' /\ drv'[t] = drv[t] /\ pc'[t] # "suspended"
          /\ Closing(t)' => drv[t] \in isTerminated'
      BY Zenon, <1>a, <2>5, ProcsSplit DEF Leave, Holds, Closing
    <3>2. /\ \A u \in Threads \ {t} : Holds(u) \/ Closing(u) => drv[u] # drv[t]
          /\ drv[t] \notin offThreadDrivers
      BY Zenon, <1>b, <3>1 DEF Ownership
    <3>3. /\ onThread' = onThread \ {drv[t]}
          /\ isTerminated \subseteq isTerminated'
          /\ isTerminated' \subseteq isTerminated \cup {drv[t]}
          /\ UNCHANGED <<offThreadDrivers, closed, terminateRequested, state>>
      BY Zenon, <2>5 DEF Leave
    <3> QED
      BY ZenonT(30), <1>b, <2>a, <3>1, <3>2, <3>3, <1>c DEF Ownership, isRunning
  <2>6. ASSUME NEW d \in Drivers, Enter(t, d)
        PROVE  ShouldStop \in {"kNone", "kYield"}
    BY Zenon, <2>6 DEF Enter
  <2> QED
    BY Zenon, <1>8, <2>1, <2>2, <2>3, <2>4, <2>5, <2>6 DEF GoesInOrOut
<1>9. ASSUME NEW p \in Procs, ChangesFlags(p),
             \A t \in Threads : ~GoesInOrOut(t)
      PROVE  Ownership'
  <2>1. ThreadsKept
    BY Zenon, <1>9, KeptStep
  <2> QED
    BY Zenon, <1>9, <2>1, <1>2, <1>3, <1>4, <1>5, <1>6, <1>7
    DEF ChangesFlags
<1> QED
  BY Zenon, <1>1, <1>8, <1>9

-----------------------------------------------------------------------------
(* Closed drivers *)

\* No driver is closed, loses its slot or its thread, and no thread passes
\* Task::removeDriver.
SlotsQuiet ==
  /\ UNCHANGED <<drivers, closed, closes, onThread>>
  /\ isTerminated \subseteq isTerminated'
  /\ \A u \in Threads : pc[u] = "remove" => pc'[u] = "remove"

\* Every other action is quiet.
ChangesSlots(p) ==
  \/ Start \/ Terminate(p) \/ CloseByTask(p)
  \/ p \in Threads /\ (Close(p) \/ RemoveDriver(p) \/ GoesInOrOut(p))

\* Only the steps that ChangesSlots names touch the slots of drivers.
LEMMA SlotsQuietStep ==
  ASSUME IInv, Next, \A p \in Procs : ~ChangesSlots(p), Procs # {}
  PROVE  SlotsQuiet
<1> USE DEF taskVars, slotVars, flagVars, closeVars, SlotsQuiet
<1>a. pc \in [Procs -> PCs] /\ ReturnPoints
  BY Zenon DEF IInv, TypeOK
<1>1. ASSUME ClientStep PROVE SlotsQuiet
  <2>1. ~Start
    BY Zenon DEF ChangesSlots
  <2>2. \A u \in Threads : pc'[u] = pc[u]
    BY Zenon, <1>1, <1>a, <2>1, ProcsSplit
    DEF ClientStep, RequestPause, Resume, RequestYield, RequestCancel,
        SetAllOutputConsumed, Fulfil, Clients
  <2> QED
    BY Zenon, <1>1, <2>1, <2>2
    DEF ClientStep, RequestPause, Resume, RequestYield, RequestCancel,
        SetAllOutputConsumed, Fulfil
<1>2. ASSUME NEW p \in Procs, TerminateStep(p) PROVE SlotsQuiet
  <2>1. \A u \in Threads : pc[u] = "remove" => pc'[u] = "remove"
    BY Zenon, <1>2, <1>a, ProcsSplit
    DEF TerminateStep, SetError, TerminateAgain, TerminateDone, ChangesSlots
  <2> QED
    BY Zenon, <1>2, <2>1
    DEF TerminateStep, SetError, TerminateAgain, TerminateDone, ChangesSlots
<1>3. ASSUME NEW t \in Threads,
             \/ EnterStep(t) \/ OperatorStep(t)
             \/ ThreadStep(t) \/ FulfilEarly(t)
      PROVE  SlotsQuiet
  <2>1. ~ChangesSlots(t)
    BY Zenon, ProcsSplit
  <2>2. \A u \in Threads : pc[u] = "remove" => pc'[u] = "remove"
    BY Zenon, <1>3, <1>a, <2>1, ProcsSplit
    DEF EnterStep, EnterClosed, EnterUnqueued, EnterRefused, Dequeue,
        OperatorStep, Block, AtEnd, Throw, EnterSuspendedThrows, ThreadStep,
        Stop, Unwind, RanBlocked, RanYielded, Requeue, RanOther, SetResume,
        FulfilEarly, ChangesSlots, GoesInOrOut, EndClosure, ToHandler
  <2> QED
    BY Zenon, <1>3, <2>1, <2>2
    DEF EnterStep, EnterClosed, EnterUnqueued, EnterRefused,
        OperatorStep, Block, AtEnd, Throw, EnterSuspendedThrows, ThreadStep,
        Stop, Unwind, RanBlocked, RanYielded, Requeue, RanOther, SetResume,
        FulfilEarly, ChangesSlots, GoesInOrOut
<1> QED
  BY Zenon, <1>1, <1>2, <1>3 DEF Next

\* No step closes a closed driver again.
LEMMA ClosedStep ==
  ASSUME IInv, Next
  PROVE  ClosedSlots'
<1> USE DEF taskVars, slotVars, flagVars, closeVars, execVars, procVars
<1>a. /\ pc \in [Procs -> PCs] /\ ret \in [Procs -> PCs]
      /\ drv \in [Threads -> Drivers \cup {NoDriver}]
      /\ closes \in [Drivers -> Nat] /\ closed \subseteq Drivers
      /\ offThreadDrivers \subseteq Drivers
  BY Zenon DEF IInv, TypeOK
<1>b. Ownership /\ ClosedSlots /\ ReturnPoints /\ RunHasDriver
  BY Zenon DEF IInv
<1>1. ASSUME Start PROVE ClosedSlots'
  BY Zenon, <1>1, <1>b DEF Start, ClosedSlots, RunHasDriver
<1>2. ASSUME NEW p \in Procs, Terminate(p), ThreadsKept PROVE ClosedSlots'
  <2>1. \A u \in Threads : pc[u] = "remove" => pc'[u] = "remove"
    BY Zenon, <1>2, <1>a, ProcsSplit DEF Terminate
  <2> QED
    BY Zenon, <1>2, <1>b, <2>1 DEF Terminate, ClosedSlots, ThreadsKept
<1>3. ASSUME NEW p \in Procs, CloseByTask(p), ThreadsKept PROVE ClosedSlots'
  <2>1. PICK d \in offThreadDrivers :
          /\ closed' = closed \cup {d}
          /\ closes' = [closes EXCEPT ![d] = @ + 1]
    BY Zenon, <1>3 DEF CloseByTask
  <2>2. \A u \in Threads : Holds(u)' => Holds(u) /\ drv'[u] # d
    BY Zenon, <1>3, <1>b DEF ThreadsKept, Ownership
  <2>3. d \in Drivers /\ d \notin closed /\ d \in isTerminated
    BY Zenon, <1>a, <1>b DEF Ownership
  <2>4. \A e \in Drivers : closes'[e] = IF e \in closed' THEN 1 ELSE 0
    BY <1>a, <1>b, <2>1, <2>3 DEF ClosedSlots
  <2> QED
    BY Zenon, <1>3, <1>b, <2>1, <2>2, <2>3, <2>4
    DEF CloseByTask, ClosedSlots, ThreadsKept
<1>4. ASSUME NEW t \in Threads, Close(t), ThreadsKept PROVE ClosedSlots'
  <2>1. /\ Holds(t) \/ Closing(t)
        /\ drv[t] \in Drivers
    BY Zenon, <1>4, <1>b
    DEF Close, Holds, Closing, ReturnPoints, RunHasDriver, InRun
  <2>2. drv[t] \in onThread \cup isTerminated
    BY Zenon, <1>b, <2>1 DEF Ownership
  <2>3. \A u \in Threads : pc[u] = "remove" => pc'[u] = "remove"
    BY Zenon, <1>4, <1>a, ProcsSplit DEF Close
  <2>4. CASE drv[t] \in closed
    BY Zenon, <1>4, <1>b, <2>3, <2>4 DEF Close, ClosedSlots, ThreadsKept
  <2>5. CASE drv[t] \notin closed
    <3>1. /\ closed' = closed \cup {drv[t]}
          /\ closes' = [closes EXCEPT ![drv[t]] = @ + 1]
          /\ pc'[t] = "remove"
      BY Zenon, <1>4, <1>a, <2>5, ProcsSplit DEF Close
    <3>2. \A e \in Drivers : closes'[e] = IF e \in closed' THEN 1 ELSE 0
      BY <1>a, <1>b, <2>1, <2>5, <3>1 DEF ClosedSlots
    <3>3. \A u \in Threads \ {t} : Holds(u)' => Holds(u) /\ drv'[u] # drv[t]
      BY Zenon, <1>4, <1>b, <2>1 DEF ThreadsKept, Ownership
    <3> QED
      BY Zenon, <1>4, <1>b, <2>2, <2>3, <3>1, <3>2, <3>3
      DEF Close, ClosedSlots, ThreadsKept
  <2> QED
    BY Zenon, <2>4, <2>5
<1>5. ASSUME NEW t \in Threads, RemoveDriver(t), ThreadsKept
      PROVE ClosedSlots'
  <2>1. \A u \in Threads \ {t} : pc'[u] = pc[u]
    BY Zenon, <1>5, <1>a, ProcsSplit DEF RemoveDriver
  <2>2. drv' = drv /\ drivers' = drivers \ {drv[t]}
    BY Zenon, <1>5 DEF RemoveDriver
  <2> QED
    BY Zenon, <1>5, <1>b, <2>1, <2>2
    DEF RemoveDriver, ClosedSlots, ThreadsKept
<1>6. ASSUME NEW t \in Threads, GoesInOrOut(t) PROVE ClosedSlots'
  <2>1. OthersKept(t)
    BY Zenon, <1>6, InOrOutStep
  <2>2. \A u \in Threads \ {t} :
          (Holds(u)' <=> Holds(u)) /\ drv'[u] = drv[u] /\ pc'[u] = pc[u]
    BY Zenon, <2>1 DEF OthersKept, Holds
  <2>3. UNCHANGED <<drivers, closed, closes>>
    BY Zenon, <1>6 DEF GoesInOrOut, Enter, EnterSuspended, LeaveSuspended, Leave
  <2>4. closed \cap drivers \subseteq onThread' \cup isTerminated'
    <3>1. CASE Leave(t)
      <4>1. Holds(t) /\ pc[t] # "remove"
        BY Zenon, <3>1 DEF Leave, Holds
      <4> QED
        BY Zenon, <1>b, <3>1, <4>1 DEF Leave, ClosedSlots
    <3>2. CASE ~Leave(t)
      BY ZenonT(30), <1>6, <1>b, <3>2
      DEF GoesInOrOut, Enter, EnterSuspended, LeaveSuspended, ClosedSlots
    <3> QED
      BY Zenon, <3>1, <3>2
  <2>5. Holds(t)' => drv'[t] \notin closed \cap drivers
    <3>1. ASSUME NEW d \in Drivers, Enter(t, d)
          PROVE  drv'[t] = d /\ d \notin closed \cap drivers
      BY Zenon, <1>a, <1>b, <3>1 DEF Enter, ClosedSlots
    <3>2. ASSUME EnterSuspended(t) \/ LeaveSuspended(t)
          PROVE  Holds(t) /\ pc[t] # "remove" /\ drv'[t] = drv[t]
      BY Zenon, <3>2 DEF EnterSuspended, LeaveSuspended, Holds
    <3>3. ASSUME Leave(t) PROVE ~Holds(t)'
      BY Zenon, <1>a, <3>3, ProcsSplit DEF Leave, Holds
    <3> QED
      BY Zenon, <1>6, <1>b, <3>1, <3>2, <3>3 DEF GoesInOrOut, ClosedSlots
  <2> QED
    BY Zenon, <1>b, <2>2, <2>3, <2>4, <2>5 DEF ClosedSlots
<1>7. ASSUME SlotsQuiet, ThreadsKept PROVE ClosedSlots'
  BY Zenon, <1>7, <1>b DEF SlotsQuiet, ThreadsKept, ClosedSlots
<1>8. CASE \A t \in Threads : ~GoesInOrOut(t)
  <2>1. ThreadsKept
    BY Zenon, <1>8, KeptStep
  <2>2. Procs # {}
    BY Zenon, ProcsSplit DEF Clients
  <2> QED
    BY Zenon, <2>1, <2>2, <1>1, <1>2, <1>3, <1>4, <1>5, <1>6, <1>7,
        SlotsQuietStep
    DEF ChangesSlots
<1> QED
  BY Zenon, <1>6, <1>8

-----------------------------------------------------------------------------
(* The pause *)

\* While the pause lasts no thread comes in.
LEMMA PauseStep ==
  ASSUME SizesKnown, IInv, Next
  PROVE  PauseState'
<1> USE DEF taskVars, slotVars, flagVars, closeVars, execVars, procVars
<1>a. TypeOK /\ PauseState /\ Ownership /\ ThreadCount
  BY Zenon DEF IInv
<1>1. ASSUME NEW f \in {"kCanceled", "kAborted"}, RequestCancel(f)
      PROVE PauseState'
  BY Zenon, <1>1, <1>a DEF RequestCancel, PauseState, PauseAcked
<1>2. ASSUME Start PROVE PauseState'
  BY Zenon, <1>2, <1>a DEF Start, PauseState, PauseAcked
<1>3. ASSUME RequestPause PROVE PauseState'
  BY Zenon, <1>3, <1>a DEF RequestPause, PauseState, PauseAcked, TypeOK
<1>4. ASSUME Resume PROVE PauseState'
  BY Zenon, <1>4, <1>a DEF Resume, PauseState, PauseAcked
<1>5. ASSUME RequestYield PROVE PauseState'
  BY Zenon, <1>5, <1>a DEF RequestYield, PauseState, PauseAcked
<1>6. ASSUME SetAllOutputConsumed PROVE PauseState'
  BY Zenon, <1>6, <1>a DEF SetAllOutputConsumed, PauseState, PauseAcked
<1>7. ASSUME NEW d \in Drivers, Fulfil(d) PROVE PauseState'
  BY Zenon, <1>7, <1>a DEF Fulfil, PauseState, PauseAcked
<1>8. ASSUME NEW p \in Procs, SetError(p) PROVE PauseState'
  BY Zenon, <1>8, <1>a DEF SetError, PauseState, PauseAcked
<1>9. ASSUME NEW p \in Procs, TerminateAgain(p) PROVE PauseState'
  BY Zenon, <1>9, <1>a
  DEF TerminateAgain, PauseState, PauseAcked, FinishFuture
<1>10. ASSUME NEW p \in Procs, Terminate(p) PROVE PauseState'
  BY Zenon, <1>10, <1>a DEF Terminate, PauseState, PauseAcked
<1>11. ASSUME NEW p \in Procs, CloseByTask(p) PROVE PauseState'
  BY Zenon, <1>11, <1>a DEF CloseByTask, PauseState, PauseAcked
<1>12. ASSUME NEW p \in Procs, TerminateDone(p) PROVE PauseState'
  BY Zenon, <1>12, <1>a
  DEF TerminateDone, PauseState, PauseAcked, FinishFuture
<1>13. ASSUME NEW t \in Threads, NEW d \in Drivers, EnterClosed(t, d)
      PROVE PauseState'
  BY Zenon, <1>13, <1>a DEF EnterClosed, PauseState, PauseAcked
<1>14. ASSUME NEW t \in Threads, NEW d \in Drivers, EnterRefused(t, d)
      PROVE PauseState'
  BY Zenon, <1>14, <1>a DEF EnterRefused, PauseState, PauseAcked
<1>15. ASSUME NEW t \in Threads, NEW d \in Drivers, Enter(t, d)
      PROVE PauseState'
  BY Zenon, <1>15, <1>a, ShouldStopCases DEF Enter, PauseState, PauseAcked
<1>16. ASSUME NEW t \in Threads, Block(t) PROVE PauseState'
  BY Zenon, <1>16, <1>a DEF Block, PauseState, PauseAcked
<1>17. ASSUME NEW t \in Threads, AtEnd(t) PROVE PauseState'
  BY Zenon, <1>17, <1>a DEF AtEnd, PauseState, PauseAcked
<1>18. ASSUME NEW t \in Threads, Throw(t) PROVE PauseState'
  BY Zenon, <1>18, <1>a DEF Throw, PauseState, PauseAcked
<1>19. ASSUME NEW t \in Threads, EnterSuspended(t) PROVE PauseState'
  <2>1. numThreads # 0
    BY Zenon, <1>19, <1>a, CountedPositive
    DEF EnterSuspended, Counted, Holds
  <2> QED
    BY <1>19, <1>a, <2>1
    DEF EnterSuspended, PauseState, PauseAcked, PromisesAfterLeave, TypeOK
<1>20. ASSUME NEW t \in Threads, EnterSuspendedThrows(t) PROVE PauseState'
  BY Zenon, <1>20, <1>a DEF EnterSuspendedThrows, PauseState, PauseAcked
<1>21. ASSUME NEW t \in Threads, Stop(t) PROVE PauseState'
  BY Zenon, <1>21, <1>a DEF Stop, PauseState, PauseAcked
<1>22. ASSUME NEW t \in Threads, LeaveSuspended(t) PROVE PauseState'
  BY Zenon, <1>22, <1>a
  DEF LeaveSuspended, PauseState, PauseAcked, Ownership
<1>23. ASSUME NEW t \in Threads, Unwind(t) PROVE PauseState'
  BY Zenon, <1>23, <1>a DEF Unwind, PauseState, PauseAcked
<1>24. ASSUME NEW t \in Threads, Close(t) PROVE PauseState'
  BY Zenon, <1>24, <1>a DEF Close, PauseState, PauseAcked
<1>25. ASSUME NEW t \in Threads, RemoveDriver(t) PROVE PauseState'
  BY Zenon, <1>25, <1>a DEF RemoveDriver, PauseState, PauseAcked
<1>26. ASSUME NEW t \in Threads, Leave(t) PROVE PauseState'
  <2>1. numThreads # 0
    BY Zenon, <1>26, <1>a, CountedPositive DEF Leave, Counted, Holds
  <2> QED
    BY <1>26, <1>a, <2>1
    DEF Leave, PauseState, PauseAcked, PromisesAfterLeave, TypeOK
<1>27. ASSUME NEW t \in Threads, RanBlocked(t) PROVE PauseState'
  BY Zenon, <1>27, <1>a DEF RanBlocked, PauseState, PauseAcked
<1>28. ASSUME NEW t \in Threads, RanYielded(t) PROVE PauseState'
  BY Zenon, <1>28, <1>a DEF RanYielded, PauseState, PauseAcked
<1>29. ASSUME NEW t \in Threads, RanOther(t) PROVE PauseState'
  BY Zenon, <1>29, <1>a DEF RanOther, PauseState, PauseAcked
<1>30. ASSUME NEW t \in Threads, SetResume(t) PROVE PauseState'
  BY Zenon, <1>30, <1>a DEF SetResume, PauseState, PauseAcked
<1>31. ASSUME NEW t \in Threads, FulfilEarly(t) PROVE PauseState'
  BY Zenon, <1>31, <1>a DEF FulfilEarly, PauseState, PauseAcked
<1>32. ASSUME NEW t \in Threads, NEW d \in Drivers, EnterUnqueued(t, d)
       PROVE PauseState'
  BY Zenon, <1>32, <1>a DEF EnterUnqueued, PauseState, PauseAcked
<1>33. ASSUME NEW t \in Threads, Requeue(t) PROVE PauseState'
  BY Zenon, <1>33, <1>a DEF Requeue, PauseState, PauseAcked
<1> QED
  BY ZenonT(30), <1>1, <1>2, <1>3, <1>4, <1>5, <1>6, <1>7, <1>8,
     <1>9, <1>10,
      <1>11,
      <1>12, <1>13, <1>14, <1>15, <1>16, <1>17, <1>18, <1>19, <1>20, <1>21,
      <1>22, <1>23, <1>24, <1>25, <1>26, <1>27, <1>28, <1>29, <1>30, <1>31,
      <1>32, <1>33
  DEF Next, ClientStep, TerminateStep, EnterStep, OperatorStep, ThreadStep

-----------------------------------------------------------------------------
(* Counting the threads *)

\* The threads that numThreads_ counts.
CountedThreads == {t \in Threads : Counted(t)}

\* A thread going in or out changes the number of counted threads by one.
LEMMA CountStep ==
  ASSUME NEW S, S \subseteq Threads, NEW t \in Threads
  PROVE  /\ Cardinality(S) \in Nat
         /\ t \notin S => Cardinality(S \cup {t}) = Cardinality(S) + 1
         /\ t \in S => Cardinality(S \ {t}) = Cardinality(S) - 1
         /\ t \in S => Cardinality(S) # 0
<1>1. IsFiniteSet(S)
  BY Zenon, FS_Subset, ThreadsAssumption
<1>2. Cardinality(S) \in Nat
  BY Zenon, <1>1, FS_CardinalityType
<1>3. t \notin S => Cardinality(S \cup {t}) = Cardinality(S) + 1
  BY Zenon, <1>1, FS_AddElement
<1>4. t \in S => Cardinality(S \ {t}) = Cardinality(S) - 1
  BY Zenon, <1>1, FS_RemoveElement
<1>5. t \in S => Cardinality(S) # 0
  BY Zenon, <1>1, FS_EmptySet
<1> QED
  BY Zenon, <1>2, <1>3, <1>4, <1>5

\* Sets of drivers are finite.
LEMMA DriverSets ==
  ASSUME NEW S, S \subseteq Drivers
  PROVE  IsFiniteSet(S) /\ Cardinality(S) \in Nat
  BY Zenon, FS_Subset, FS_CardinalityType, DriversAssumption

\* The sizes the step lemmas rely on.
LEMMA Sizes == SizesKnown
<1>1. \A S \in SUBSET Threads : S # {} => Cardinality(S) \in Nat \ {0}
  BY Zenon, CountStep
<1> QED
  BY Zenon, <1>1, DriverSets, FS_EmptySet DEF SizesKnown

\* What a step must do to numThreads_ when thread t goes in or out, and when
\* none does.
LEMMA CountIn ==
  ASSUME TypeOK, ThreadCount, NEW t \in Threads,
         ~Counted(t), Counted(t)', numThreads' = numThreads + 1,
         \A u \in Threads \ {t} : Counted(u)' <=> Counted(u)
  PROVE  ThreadCount'
<1>1. CountedThreads' = CountedThreads \cup {t}
  BY Zenon DEF CountedThreads
<1>2. CountedThreads \subseteq Threads /\ t \notin CountedThreads
  BY Zenon DEF CountedThreads
<1> QED
  BY Zenon, <1>1, <1>2, CountStep DEF ThreadCount, CountedThreads

\* A thread that leaves is taken off the count.
LEMMA CountOut ==
  ASSUME TypeOK, ThreadCount, NEW t \in Threads,
         Counted(t), ~Counted(t)', numThreads' = numThreads - 1,
         \A u \in Threads \ {t} : Counted(u)' <=> Counted(u)
  PROVE  ThreadCount'
<1>1. CountedThreads' = CountedThreads \ {t}
  BY Zenon DEF CountedThreads
<1>2. CountedThreads \subseteq Threads /\ t \in CountedThreads
  BY Zenon DEF CountedThreads
<1> QED
  BY Zenon, <1>1, <1>2, CountStep DEF ThreadCount, CountedThreads

\* A step in which no thread comes or goes keeps the count.
LEMMA CountKept ==
  ASSUME ThreadCount, numThreads' = numThreads,
         \A u \in Threads : Counted(u)' <=> Counted(u)
  PROVE  ThreadCount'
<1>1. CountedThreads' = CountedThreads
  BY Zenon DEF CountedThreads
<1> QED
  BY Zenon, <1>1 DEF ThreadCount, CountedThreads

\* Every path into the task and out of it keeps the count.
LEMMA CountingStep ==
  ASSUME IInv, Next
  PROVE  ThreadCount'
<1>a. /\ pc \in [Procs -> PCs] /\ ret \in [Procs -> PCs]
      /\ TypeOK /\ ThreadCount
  BY Zenon DEF IInv, TypeOK
<1>1. CASE \A t \in Threads : ~GoesInOrOut(t)
  <2>1. ThreadsKept
    BY Zenon, <1>1, KeptStep
  <2> QED
    BY Zenon, <1>a, <2>1, CountKept DEF ThreadsKept, Counted
<1>2. ASSUME NEW t \in Threads, GoesInOrOut(t) PROVE ThreadCount'
  <2>1. \A u \in Threads \ {t} : Counted(u)' <=> Counted(u)
    BY Zenon, <1>2, InOrOutStep DEF OthersKept, Counted, Holds
  <2>2. ASSUME NEW d \in Drivers, Enter(t, d), ShouldStop = "kYield"
        PROVE  ThreadCount'
    <3>1. ~Counted(t) /\ ~Counted(t)' /\ numThreads' = numThreads
      BY Zenon, <1>a, <2>2, ProcsSplit DEF Enter, Dequeue, Counted, Holds
    <3> QED
      BY Zenon, <1>a, <2>1, <3>1, CountKept
  <2>3. ASSUME NEW d \in Drivers, Enter(t, d), ShouldStop # "kYield"
        PROVE  ThreadCount'
    <3>1. ~Counted(t) /\ Counted(t)' /\ numThreads' = numThreads + 1
      BY Zenon, <1>a, <2>3, ProcsSplit DEF Enter, Dequeue, Counted, Holds
    <3> QED
      BY Zenon, <1>a, <2>1, <3>1, CountIn
  <2>4. ASSUME EnterSuspended(t) \/ Leave(t) PROVE ThreadCount'
    <3>1. Counted(t) /\ ~Counted(t)' /\ numThreads' = numThreads - 1
      BY Zenon, <1>a, <2>4, ProcsSplit
      DEF EnterSuspended, Leave, Counted, Holds
    <3> QED
      BY Zenon, <1>a, <2>1, <3>1, CountOut
  <2>5. ASSUME LeaveSuspended(t) PROVE ThreadCount'
    <3>1. ~Counted(t) /\ Counted(t)' /\ numThreads' = numThreads + 1
      BY Zenon, <1>a, <2>5, ProcsSplit
      DEF LeaveSuspended, ToHandler, Counted, Holds
    <3> QED
      BY Zenon, <1>a, <2>1, <3>1, CountIn
  <2> QED
    BY Zenon, <1>2, <2>2, <2>3, <2>4, <2>5 DEF GoesInOrOut
<1> QED
  BY Zenon, <1>1, <1>2

-----------------------------------------------------------------------------
(* The theorems *)

\* A step that changes nothing changes none of the parts.
LEMMA Stutter ==
  ASSUME IInv, UNCHANGED vars
  PROVE  IInv'
<1> USE DEF vars, taskVars, slotVars, flagVars, closeVars, execVars, procVars
<1>1. TypeOK' /\ ReturnPoints'
  BY Zenon DEF IInv, TypeOK, ReturnPoints
<1>2. RunHasDriver' /\ ClosedSlots' /\ PauseState'
  BY Zenon DEF IInv, RunHasDriver, InRun, ClosedSlots, Holds, PauseState, PauseAcked
<1>3. Ownership'
  BY ZenonT(30) DEF IInv, Ownership, Holds, Closing, isRunning
<1>4. ThreadCount'
  BY Zenon, CountKept DEF IInv, Counted, Holds
<1> QED
  BY Zenon, <1>1, <1>2, <1>3, <1>4 DEF IInv

\* The inductive invariant holds of every execution: the flags of the
\* drivers, the thread counter and the threads agree (Task.cpp:1893-1993).
THEOREM Invariance == Spec => []IInv
<1>1. Init => IInv
  <2> SUFFICES ASSUME Init PROVE IInv
    BY Zenon
  <2>1. TypeOK
    <3>1. /\ pc \in [Procs -> PCs] /\ ret \in [Procs -> PCs]
          /\ goal \in [Procs -> TaskStates \ {"kRunning"}]
      BY Zenon DEF Init, PCs, TaskStates
    <3>2. /\ drv \in [Threads -> Drivers \cup {NoDriver}]
          /\ reason \in [Threads -> StopReasons]
          /\ state \in TaskStates
      BY Zenon DEF Init, StopReasons, TaskStates
    <3>3. /\ closes \in [Drivers -> Nat] /\ queue \in [Drivers -> Nat]
          /\ armed \in [Drivers -> Nat]
      BY Zenon DEF Init
    <3>4. /\ started \in BOOLEAN /\ exception \in BOOLEAN
          /\ partitionedOutputConsumed \in BOOLEAN
          /\ pauseRequested \in BOOLEAN /\ terminateRequested \in BOOLEAN
      BY Zenon DEF Init
    <3>5. /\ toYield \in Nat /\ numThreads \in Nat
          /\ numRunningDrivers \in Int /\ numFinishedDrivers \in Nat
          /\ numFinishedOutputDrivers \in Nat
      BY DEF Init
    <3>6. /\ threadFinishPromises = {} /\ drivers = {} /\ isEnqueued = {}
          /\ onThread = {} /\ isTerminated = {} /\ hasBlockingFuture = {}
          /\ isSuspended = {} /\ closed = {} /\ offThreadDrivers = {}
          /\ realized = {} /\ failed = {} /\ pauser = "idle"
      BY Zenon DEF Init
    <3> QED
      BY Zenon, <3>1, <3>2, <3>3, <3>4, <3>5, <3>6 DEF TypeOK
  <2>2. ReturnPoints /\ RunHasDriver /\ PauseState
    BY Zenon, ProcsSplit
    DEF Init, ReturnPoints, RunHasDriver, InRun, PauseState, PauseAcked
  <2>3. \A t \in Threads : ~Holds(t) /\ ~Closing(t)
    BY Zenon, ProcsSplit DEF Init, Holds, Closing
  <2>4. Ownership /\ ClosedSlots
    BY Zenon, <2>3, ProcsSplit DEF Init, Ownership, ClosedSlots
  <2>5. ThreadCount
    <3>1. {t \in Threads : Counted(t)} = {}
      BY Zenon, <2>3 DEF Counted
    <3> QED
      BY Zenon, <3>1, FS_EmptySet DEF Init, ThreadCount
  <2> QED
    BY Zenon, <2>1, <2>2, <2>4, <2>5 DEF IInv
<1>2. IInv /\ [Next]_vars => IInv'
  BY Zenon, Sizes, TypeStep, ReturnStep, RunStep, OwnershipStep, ClosedStep,
      CountingStep,
     PauseStep, Stutter DEF IInv
<1> QED
  BY <1>1, <1>2, PTL DEF Spec

\* The task's variables keep their types; no counter goes below zero.
THEOREM TypeCorrect == Spec => []TypeOK
<1>1. IInv => TypeOK
  BY Zenon DEF IInv
<1> QED
  BY <1>1, Invariance, PTL

\* At most one thread has access to a driver's operators, for any number of
\* threads and drivers (Task::enter, Task::enterForTerminateLocked).
THEOREM Exclusion == Spec => []ExclusiveAccess
<1>1. IInv => ExclusiveAccess
  BY Zenon DEF IInv, Ownership, ExclusiveAccess
<1> QED
  BY <1>1, Invariance, PTL

\* numThreads_ is the number of unsuspended threads in the task.
THEOREM Counting == Spec => []ThreadCount
<1>1. IInv => ThreadCount
  BY Zenon DEF IInv
<1> QED
  BY <1>1, Invariance, PTL

\* Once the future of Task::requestPause is realized no thread runs an operator
\* of a task that is not being terminated.
THEOREM Quiescence == Spec => []PauseQuiesces
<1>1. IInv => PauseQuiesces
  <2> SUFFICES ASSUME IInv, PauseAcked, ~terminateRequested,
                      NEW t \in Threads, Counted(t)
               PROVE  FALSE
    BY Zenon DEF PauseQuiesces
  <2>1. numThreads = 0
    BY Zenon DEF IInv, PauseState
  <2> QED
    BY Zenon, <2>1, Sizes, CountedPositive DEF IInv
<1> QED
  BY <1>1, Invariance, PTL

\* The operators of a driver are closed at most once (Driver::close,
\* Driver::closeByTask).
THEOREM CloseOnce == Spec => []ClosedOnce
<1>1. IInv => ClosedOnce
  BY DEF IInv, ClosedSlots, ClosedOnce
<1> QED
  BY <1>1, Invariance, PTL

\* A terminated driver does not go on a thread again and a final state of the
\* task stays (Task::enter, Task::enterForTerminateLocked, Task::terminate).
THEOREM Finality == Spec => TerminatedIsFinal
<1> USE DEF vars, taskVars, slotVars, flagVars, closeVars, execVars, procVars
<1> DEFINE Final == /\ isTerminated \subseteq isTerminated'
                    /\ (onThread' \ onThread) \cap isTerminated = {}
                    /\ state # "kRunning" => state' = state
<1>1. ASSUME ClientStep PROVE Final
  BY Zenon, <1>1
  DEF ClientStep, Start, RequestPause, Resume, RequestYield, RequestCancel,
      SetAllOutputConsumed, Fulfil
<1>2. ASSUME NEW p \in Procs, TerminateStep(p) PROVE Final
  BY Zenon, <1>2
  DEF TerminateStep, SetError, TerminateAgain, Terminate, CloseByTask,
      TerminateDone, EnteredForTerminate, isRunning
<1>3. ASSUME NEW t \in Threads, EnterStep(t) PROVE Final
  BY ZenonT(30), <1>3
  DEF EnterStep, EnterClosed, EnterUnqueued, EnterRefused, Enter
<1>4. ASSUME NEW t \in Threads, OperatorStep(t) PROVE Final
  BY Zenon, <1>4
  DEF OperatorStep, Block, AtEnd, Throw, EnterSuspended, EnterSuspendedThrows
<1>5. ASSUME NEW t \in Threads, ThreadStep(t) \/ FulfilEarly(t) PROVE Final
  BY Zenon, <1>5
  DEF ThreadStep, Stop, LeaveSuspended, Unwind, Close, RemoveDriver, Leave,
      RanBlocked, RanYielded, Requeue, RanOther, SetResume, FulfilEarly
<1>6. [Next]_vars => [Final]_vars
  BY Zenon, <1>1, <1>2, <1>3, <1>4, <1>5 DEF Next
<1> QED
  BY <1>6, PTL DEF Spec, TerminatedIsFinal

-----------------------------------------------------------------------------
(* The counters of finished and running drivers *)

\* DriverCounts, and the quiet before Task::start that it needs.
SlotCounts ==
  /\ DriverCounts
  /\ ~started => isRunning /\ \A p \in Procs : pc[p] = "idle"

\* Only three actions touch the slots, their counters or the task's state.
LEMMA SlotFrame ==
  ASSUME SlotCounts, started,
         UNCHANGED <<started, state, drivers, numFinishedDrivers,
                     numRunningDrivers>>
  PROVE  SlotCounts'
  BY Zenon DEF SlotCounts, DriverCounts, isRunning

\* The slots that Task::terminate and Task::removeDriver empty.
LEMMA SlotsEmptied ==
  ASSUME TypeOK, NEW S, S \subseteq drivers
  PROVE  Cardinality(Drivers \ (drivers \ S))
           = Cardinality(Drivers \ drivers) + Cardinality(S)
<1>1. Drivers \ (drivers \ S) = (Drivers \ drivers) \cup S
  BY Zenon DEF TypeOK
<1>2. (Drivers \ drivers) \cap S = {}
  BY Zenon
<1>3. /\ IsFiniteSet(Drivers \ drivers)
      /\ IsFiniteSet(S)
      /\ Cardinality(Drivers \ drivers) \in Nat
      /\ Cardinality(S) \in Nat
  <2>1. Drivers \ drivers \subseteq Drivers /\ S \subseteq Drivers
    BY Zenon DEF TypeOK
  <2> QED
    BY Zenon, <2>1, DriverSets
<1>4. Cardinality((Drivers \ drivers) \cup S)
        = Cardinality(Drivers \ drivers) + Cardinality(S) - Cardinality({})
  BY ZenonT(30), <1>2, <1>3, FS_Union
<1>5. Cardinality({}) = 0
  BY Zenon, FS_EmptySet
<1>6. Cardinality(Drivers \ (drivers \ S))
        = Cardinality((Drivers \ drivers) \cup S)
  BY Zenon, <1>1
<1> QED
  BY <1>3, <1>4, <1>5, <1>6

\* Every step keeps the counters.
LEMMA SlotStep ==
  ASSUME ~MayCancelEarly, IInv, SlotCounts, [Next]_vars
  PROVE  SlotCounts'
<1> USE DEF vars, taskVars, slotVars, flagVars, closeVars, execVars, procVars
<1>a. TypeOK /\ RunHasDriver
  BY Zenon DEF IInv
<1>1. CASE Start
  <2>1. Cardinality(Drivers \ Drivers) = 0
    <3>1. Drivers \ Drivers = {}
      BY Zenon
    <3> QED
      BY Zenon, <3>1, FS_EmptySet
  <2>2. /\ ~started /\ started' /\ state' = state /\ drivers' = Drivers
        /\ numFinishedDrivers' = numFinishedDrivers
        /\ numRunningDrivers' = numRunningDrivers + Cardinality(Drivers)
    BY Zenon, <1>1 DEF Start
  <2>3. numFinishedDrivers = 0 /\ numRunningDrivers = 0
    BY Zenon, <1>a, <2>2 DEF RunHasDriver
  <2>4. isRunning' /\ Cardinality(Drivers) \in Nat
    BY Zenon, <2>2, DriverSets DEF SlotCounts, isRunning
  <2> QED
    BY <2>1, <2>2, <2>3, <2>4 DEF SlotCounts, DriverCounts
<1>2. CASE ~started /\ (RequestPause \/ Resume \/ RequestYield)
  <2>1. UNCHANGED <<started, state, pc>>
    BY Zenon, <1>2 DEF RequestPause, Resume, RequestYield
  <2> QED
    BY Zenon, <1>2, <2>1
    DEF SlotCounts, DriverCounts, isRunning
<1>3. CASE UNCHANGED vars
  BY Zenon, <1>3 DEF SlotCounts, DriverCounts, isRunning
<1>4. ASSUME ClientStep, ~Start PROVE SlotCounts'
  <2>1. ASSUME started PROVE SlotCounts'
    BY Zenon, <1>4, <2>1, SlotFrame
    DEF ClientStep, RequestPause, Resume, RequestYield, RequestCancel,
        SetAllOutputConsumed, Fulfil
  <2>2. ASSUME ~started PROVE RequestPause \/ Resume \/ RequestYield
    <3>1. ~RequestCancel("kCanceled") /\ ~RequestCancel("kAborted")
      BY Zenon, <2>2 DEF RequestCancel
    <3>2. ~SetAllOutputConsumed
      BY Zenon, <2>2 DEF SetAllOutputConsumed
    <3>3. \A d \in Drivers : ~Fulfil(d)
      <4>1. \A d \in Drivers : armed[d] = 0
        BY Zenon, <1>a, <2>2 DEF RunHasDriver
      <4>2. ~(0 > 0)
        OBVIOUS
      <4> QED
        BY Zenon, <4>1, <4>2 DEF Fulfil
    <3> QED
      BY Zenon, <1>4, <3>1, <3>2, <3>3 DEF ClientStep
  <2> QED
    BY Zenon, <1>2, <2>1, <2>2
<1>5. ASSUME NEW p \in Procs, Terminate(p) PROVE SlotCounts'
  <2>1. started
    BY Zenon, <1>5 DEF Terminate, SlotCounts
  <2>2. ~isRunning'
    BY Zenon, <1>5, <1>a DEF Terminate, isRunning, TypeOK
  <2>3. EnteredForTerminate \subseteq drivers
    BY Zenon DEF EnteredForTerminate
  <2>4. numFinishedDrivers' = Cardinality(Drivers \ drivers')
    BY Zenon, <1>5, <1>a, <2>1, <2>3, SlotsEmptied
    DEF Terminate, SlotCounts, DriverCounts
  <2>5. numRunningDrivers' = 0 /\ started' = started
    BY Zenon, <1>5 DEF Terminate
  <2> QED
    BY Zenon, <2>1, <2>2, <2>4, <2>5
    DEF SlotCounts, DriverCounts
<1>6. ASSUME NEW p \in Procs, TerminateStep(p), ~Terminate(p)
      PROVE  SlotCounts'
  <2>1. started
    BY Zenon, <1>6
    DEF TerminateStep, SetError, TerminateAgain, CloseByTask, TerminateDone,
        SlotCounts
  <2> QED
    BY Zenon, <1>6, <2>1, SlotFrame
    DEF TerminateStep, SetError, TerminateAgain, CloseByTask, TerminateDone
<1>7. ASSUME NEW t \in Threads, RemoveDriver(t) PROVE SlotCounts'
  <2>1. started
    BY Zenon, <1>7, <1>a DEF RemoveDriver, RunHasDriver
  <2>2. CASE drv[t] \notin drivers
    BY Zenon, <1>7, <2>1, <2>2, SlotFrame DEF RemoveDriver
  <2>3. CASE drv[t] \in drivers
    <3>1. drivers' = drivers \ {drv[t]} /\ started' /\ state' = state
      BY Zenon, <1>7, <2>1, <2>3 DEF RemoveDriver
    <3>2. Cardinality(Drivers \ drivers') = Cardinality(Drivers \ drivers) + 1
      <4>1. {drv[t]} \subseteq drivers
        BY Zenon, <2>3
      <4>2. Cardinality({drv[t]}) = 1
        BY Zenon, FS_Singleton
      <4> QED
        BY Zenon, <1>a, <3>1, <4>1, <4>2, SlotsEmptied
    <3>3. Cardinality(drivers') = Cardinality(drivers) - 1
      BY ZenonT(30), <1>a, <2>3, <3>1, DriverSets, FS_RemoveElement DEF TypeOK
    <3>4. /\ numFinishedDrivers' = numFinishedDrivers + 1
          /\ numRunningDrivers' = RunningAfterClosed
      BY Zenon, <1>7, <2>3 DEF RemoveDriver
    <3> QED
      BY Zenon, <2>1, <3>1, <3>2, <3>3, <3>4
      DEF SlotCounts, DriverCounts, RunningAfterClosed, isRunning
  <2> QED
    BY Zenon, <2>2, <2>3
<1>8. ASSUME NEW t \in Threads,
             \/ EnterStep(t) \/ OperatorStep(t)
             \/ ThreadStep(t) \/ FulfilEarly(t),
             ~RemoveDriver(t)
      PROVE  SlotCounts'
  <2>1. started
    <3> SUFFICES ASSUME ~started PROVE FALSE
      BY Zenon
    <3>1. pc[t] = "idle" /\ \A d \in Drivers : queue[d] = 0
      BY Zenon, <1>a DEF RunHasDriver
    <3>2. ~EnterStep(t)
      <4>1. \A d \in Drivers : ~(queue[d] > 0)
        BY SMTT(60), <3>1
      <4> QED
        BY Zenon, <4>1
        DEF EnterStep, EnterClosed, EnterUnqueued, EnterRefused, Enter,
            Dequeue
    <3>3. ~OperatorStep(t)
      BY Zenon, <3>1
      DEF OperatorStep, Block, AtEnd, Throw, EnterSuspended,
          EnterSuspendedThrows
    <3>4. ~ThreadStep(t) /\ ~FulfilEarly(t)
      BY Zenon, <3>1
      DEF ThreadStep, Stop, LeaveSuspended, Unwind, Close, RemoveDriver,
          Leave, RanBlocked, RanYielded, Requeue, RanOther, SetResume,
          FulfilEarly
    <3> QED
      BY Zenon, <1>8, <3>2, <3>3, <3>4
  <2> QED
    BY Zenon, <1>8, <2>1, SlotFrame
    DEF EnterStep, EnterClosed, EnterUnqueued, EnterRefused, Enter,
        OperatorStep, Block, AtEnd, Throw, EnterSuspended,
        EnterSuspendedThrows, ThreadStep, Stop, LeaveSuspended, Unwind,
        Close, Leave, RanBlocked, RanYielded,
        Requeue, RanOther, SetResume, FulfilEarly
<1> QED
  BY Zenon, <1>1, <1>3, <1>4, <1>5, <1>6, <1>7, <1>8 DEF Next

\* The counters that decide when a task is finished agree with the slots of
\* drivers_ (Task::removeDriver, Task::driverClosedLocked, Task::terminate),
\* when the task is not cancelled before it is started.
THEOREM SlotCounting ==
  ASSUME ~MayCancelEarly
  PROVE  Spec => []DriverCounts
<1>1. Init => SlotCounts
  BY Zenon DEF Init, SlotCounts, DriverCounts, isRunning
<1>2. IInv /\ SlotCounts /\ [Next]_vars => SlotCounts'
  BY Zenon, SlotStep
<1>3. SlotCounts => DriverCounts
  BY Zenon DEF SlotCounts
<1> QED
  BY <1>1, <1>2, <1>3, Invariance, PTL DEF Spec

-----------------------------------------------------------------------------
(* No driver is lost *)

\* HeldOK is preserved: the flags go on and off with the thread.
LEMMA HeldStep ==
  ASSUME IInv, HeldOK, Next, ~terminateRequested',
         ~started => isSuspended = {}
  PROVE  HeldOK'
<1> USE DEF taskVars, slotVars, flagVars, closeVars, execVars, procVars
<1>a. /\ pc \in [Procs -> PCs] /\ ret \in [Procs -> PCs]
      /\ drv \in [Threads -> Drivers \cup {NoDriver}]
  BY Zenon DEF IInv, TypeOK
<1>b. ReturnPoints /\ Ownership
  BY Zenon DEF IInv
<1>0. CASE Start
  <2>1. onThread' = {} /\ isSuspended' = {}
    BY Zenon, <1>0 DEF Start, IInv, RunHasDriver
  <2> QED
    BY Zenon, <2>1 DEF HeldOK
<1>1. CASE ~Start /\ \A t \in Threads : ~GoesInOrOut(t)
  <2>1. ThreadsKept
    BY Zenon, <1>1, KeptStep
  <2>2. UNCHANGED <<onThread, isSuspended>> /\ drivers' \subseteq drivers
    BY Zenon, <1>1, RunFrame
  <2>3. \A t \in Threads : pc[t] = "suspended" => Holds(t)
    BY Zenon DEF Holds
  <2> QED
    BY <2>1, <2>2, <2>3 DEF HeldOK, ThreadsKept
<1>2. ASSUME NEW t \in Threads, GoesInOrOut(t) PROVE HeldOK'
  <2>1. OthersKept(t)
    BY Zenon, <1>2, InOrOutStep
  <2>2. ASSUME NEW u \in Threads \ {t}
        PROVE  /\ drv'[u] = drv[u] /\ Holds(u)' = Holds(u)
               /\ (pc'[u] = "suspended") = (pc[u] = "suspended")
    BY Zenon, <2>1, <2>2 DEF OthersKept, Holds
  <2>3. ASSUME NEW d \in Drivers, Enter(t, d) PROVE HeldOK'
    <3>1. ~Holds(t) /\ pc[t] = "idle" /\ drivers' = drivers /\ isSuspended' = isSuspended
      BY Zenon, <2>3 DEF Enter, Dequeue, Holds
    <3>2. CASE UNCHANGED onThread
      BY <2>2, <3>1, <3>2 DEF HeldOK
    <3>3. CASE /\ pc' = [pc EXCEPT ![t] = "running"] /\ drv' = [drv EXCEPT ![t] = d]
               /\ onThread' = onThread \cup {d}
      <4>1. drv'[t] = d /\ Holds(t)'
        BY Zenon, <1>a, <3>3, ProcsSplit DEF Holds
      <4> QED
        BY <2>2, <3>1, <3>3, <4>1 DEF HeldOK
    <3> QED
      BY Zenon, <2>3, <3>2, <3>3 DEF Enter
  <2>4. ASSUME EnterSuspended(t) PROVE HeldOK'
    <3>1. /\ Holds(t) /\ drv'[t] = drv[t] /\ Holds(t)' /\ pc'[t] = "suspended"
          /\ UNCHANGED <<drivers, onThread>>
          /\ isSuspended' = isSuspended \cup {drv[t]}
          /\ pc[t] = "running"
      BY Zenon, <1>a, <2>4, ProcsSplit DEF EnterSuspended, Holds
    <3> QED
      BY <2>2, <3>1 DEF HeldOK
  <2>5. ASSUME LeaveSuspended(t) PROVE HeldOK'
    <3>1. /\ Holds(t) /\ drv'[t] = drv[t] /\ Holds(t)'
          /\ UNCHANGED <<drivers, onThread>>
          /\ isSuspended' = isSuspended \ {drv[t]}
      BY Zenon, <1>a, <2>5, ProcsSplit DEF LeaveSuspended, ToHandler, Holds
    <3> QED
      BY <2>2, <3>1 DEF HeldOK
  <2>6. ASSUME Leave(t) PROVE HeldOK'
    <3>1. /\ pc[t] = "leave" /\ Holds(t)
          /\ UNCHANGED <<drivers, isSuspended>>
          /\ onThread' = onThread \ {drv[t]}
      BY Zenon, <1>a, <2>6, ProcsSplit DEF Leave, Holds
    <3> QED
      BY <2>2, <3>1 DEF HeldOK
  <2> QED
    BY Zenon, <1>2, <2>3, <2>4, <2>5, <2>6 DEF GoesInOrOut
<1> QED
  BY Zenon, <1>0, <1>1, <1>2

\* Before Task::start there is nothing a thread or a future could do.
LEMMA UnflaggedStep ==
  ASSUME IInv, NothingFlagged, Next
  PROVE  NothingFlagged'
<1> USE DEF taskVars, slotVars, flagVars, closeVars, execVars, procVars
<1> SUFFICES ASSUME ~started' PROVE NothingFlagged'
  BY Zenon DEF NothingFlagged
<1>1. ~started => /\ \A t \in Threads : pc[t] = "idle"
                  /\ \A d \in Drivers : queue[d] = 0 /\ armed[d] = 0
                  /\ drivers = {}
  BY Zenon DEF IInv, RunHasDriver
<1>2. ASSUME ClientStep PROVE NothingFlagged'
  <2>1. CASE \E d \in Drivers : Fulfil(d)
    BY <1>1, <2>1 DEF Fulfil
  <2>2. CASE ~\E d \in Drivers : Fulfil(d)
    BY Zenon, <1>2, <2>2
    DEF NothingFlagged, ClientStep, Start, RequestPause, Resume, RequestYield,
        RequestCancel, SetAllOutputConsumed
  <2> QED
    BY Zenon, <2>1, <2>2
<1>3. ASSUME NEW p \in Procs, TerminateStep(p) PROVE NothingFlagged'
  BY Zenon, <1>1, <1>3
  DEF NothingFlagged, TerminateStep, SetError, TerminateAgain, Terminate,
      CloseByTask, TerminateDone
<1>4. ASSUME NEW t \in Threads, EnterStep(t) PROVE NothingFlagged'
  BY SMTT(30), <1>1, <1>4
  DEF EnterStep, EnterClosed, EnterUnqueued, EnterRefused, Enter, Dequeue
<1>5. ASSUME NEW t \in Threads,
             OperatorStep(t) \/ ThreadStep(t) \/ FulfilEarly(t)
      PROVE  NothingFlagged'
  <2>1. started' = started
    BY Zenon, <1>5
    DEF OperatorStep, Block, AtEnd, Throw, EnterSuspended,
        EnterSuspendedThrows, ThreadStep, Stop, LeaveSuspended, Unwind, Close,
        RemoveDriver, Leave, RanBlocked, RanYielded, Requeue, RanOther,
        SetResume, FulfilEarly
  <2>2. pc[t] # "idle"
    <3>1. OperatorStep(t) => pc[t] = "running"
      BY Zenon
      DEF OperatorStep, Block, AtEnd, Throw, EnterSuspended,
          EnterSuspendedThrows
    <3>2. ThreadStep(t) =>
            pc[t] \in {"running", "suspended", "unwind", "close", "remove",
                      "leave", "ran", "enqueue", "setResume"}
      BY Zenon
      DEF ThreadStep, Stop, LeaveSuspended, Unwind, Close, RemoveDriver,
          Leave, RanBlocked, RanYielded, Requeue, RanOther, SetResume
    <3> QED
      BY Zenon, <1>5, <3>1, <3>2 DEF FulfilEarly
  <2> QED
    BY Zenon, <1>1, <2>1, <2>2
<1> QED
  BY Zenon, <1>2, <1>3, <1>4, <1>5 DEF Next

\* An error on its way arrives: nothing but Task::terminate ends it.
LEMMA EndingStays ==
  ASSUME IInv, ErrorsOK, Next, ~terminateRequested', ~terminateRequested,
         Ending
  PROVE  Ending'
<1> USE DEF taskVars, slotVars, flagVars, closeVars, execVars, procVars
<1>1. pc \in [Procs -> PCs] /\ isRunning
  BY Zenon DEF IInv, TypeOK, ErrorsOK
<1>2. PICK q \in Procs : /\ pc[q] \in {"setError", "terminate"}
                         /\ exception => pc[q] = "terminate"
  BY Zenon, <1>1 DEF Ending, ErrorsOK
<1>3. ASSUME pc'[q] = pc[q] PROVE Ending'
  BY Zenon, <1>2, <1>3 DEF Ending
<1>4. ASSUME ClientStep PROVE pc'[q] = pc[q]
  <2>1. ASSUME NEW p \in Procs, NEW to,
               \/ pc[p] = "idle" /\ pc' = [pc EXCEPT ![p] = to]
               \/ pc' = pc
        PROVE  pc'[q] = pc[q]
    BY Zenon, <1>1, <1>2, <2>1
  <2>2. CASE Start \/ RequestPause \/ Resume \/ RequestYield
    BY Zenon, <2>2 DEF Start, RequestPause, Resume, RequestYield
  <2>3. ASSUME NEW f, RequestCancel(f) PROVE pc'[q] = pc[q]
    BY Zenon, <2>1, <2>3, ProcsSplit DEF RequestCancel, Clients
  <2>4. CASE SetAllOutputConsumed
    BY Zenon, <2>1, <2>4, ProcsSplit DEF SetAllOutputConsumed, Clients
  <2>5. ASSUME NEW d \in Drivers, Fulfil(d) PROVE pc'[q] = pc[q]
    BY Zenon, <2>1, <2>5, ProcsSplit DEF Fulfil, Clients
  <2> QED
    BY Zenon, <1>4, <2>2, <2>3, <2>4, <2>5 DEF ClientStep
<1>5. ASSUME NEW p \in Procs, TerminateStep(p) PROVE Ending'
  <2>1. CASE SetError(p)
    <3>1. pc' = [pc EXCEPT ![p] = "terminate"] \/ p # q
      BY Zenon, <1>1, <1>2, <2>1 DEF SetError
    <3>2. \A r \in Procs \ {p} : pc'[r] = pc[r]
      BY Zenon, <1>1, <2>1 DEF SetError
    <3> QED
      BY Zenon, <1>1, <1>2, <1>3, <3>1, <3>2 DEF Ending
  <2>2. CASE ~SetError(p)
    BY Zenon, <1>1, <1>2, <1>3, <1>5, <2>2
    DEF TerminateStep, TerminateAgain, Terminate, CloseByTask, TerminateDone
  <2> QED
    BY Zenon, <2>1, <2>2
<1>6. ASSUME NEW t \in Threads, EnterStep(t) PROVE pc'[q] = pc[q]
  BY ZenonT(30), <1>1, <1>2, <1>6, ProcsSplit
  DEF EnterStep, EnterClosed, EnterUnqueued, EnterRefused, Enter, Dequeue,
      EndClosure
<1>7. ASSUME NEW t \in Threads, OperatorStep(t) \/ FulfilEarly(t)
      PROVE  pc'[q] = pc[q]
  BY Zenon, <1>1, <1>2, <1>7, ProcsSplit
  DEF OperatorStep, Block, AtEnd, Throw, EnterSuspended, EnterSuspendedThrows,
      ToHandler, FulfilEarly
<1>8. ASSUME NEW t \in Threads, ThreadStep(t) PROVE pc'[q] = pc[q]
  <2>1. CASE Stop(t) \/ LeaveSuspended(t) \/ Unwind(t) \/ Close(t)
    BY Zenon, <1>1, <1>2, <2>1, ProcsSplit
    DEF Stop, LeaveSuspended, ToHandler, Unwind, Close
  <2>2. CASE RemoveDriver(t) \/ Leave(t)
    BY Zenon, <1>1, <1>2, <2>2, ProcsSplit DEF RemoveDriver, Leave
  <2>3. CASE RanBlocked(t) \/ RanYielded(t) \/ Requeue(t) \/ RanOther(t)
    BY Zenon, <1>1, <1>2, <2>3, ProcsSplit
    DEF RanBlocked, RanYielded, Requeue, RanOther, EndClosure
  <2>4. CASE SetResume(t)
    BY Zenon, <1>1, <1>2, <2>4, ProcsSplit DEF SetResume, EndClosure
  <2> QED
    BY Zenon, <1>8, <2>1, <2>2, <2>3, <2>4 DEF ThreadStep
<1> QED
  BY Zenon, <1>3, <1>4, <1>5, <1>6, <1>7, <1>8 DEF Next

\* Threads get into and out of suspended sections together with the mark of
\* their driver.
LEMMA SuspendedStep ==
  ASSUME IInv, SuspendedOK, Next, ~terminateRequested'
  PROVE  SuspendedOK'
<1> USE DEF taskVars, slotVars, flagVars, closeVars, execVars, procVars
<1>1. /\ pc \in [Procs -> PCs]
      /\ drv \in [Threads -> Drivers \cup {NoDriver}]
  BY Zenon DEF IInv, TypeOK
<1>2. CASE Start
  BY Zenon, <1>2 DEF Start, SuspendedOK
<1>3. CASE ~Start /\ \A t \in Threads : ~GoesInOrOut(t)
  <2>1. ThreadsKept /\ isSuspended' = isSuspended
    BY Zenon, <1>3, KeptStep, RunFrame
  <2> QED
    BY Zenon, <2>1 DEF ThreadsKept, SuspendedOK, Holds
<1>4. ASSUME NEW t \in Threads, EnterSuspended(t) PROVE SuspendedOK'
  BY Zenon, <1>1, <1>4, ProcsSplit DEF EnterSuspended, SuspendedOK
<1>5. ASSUME NEW t \in Threads, LeaveSuspended(t) PROVE SuspendedOK'
  <2>1. /\ isSuspended' = isSuspended \ {drv[t]} /\ drv' = drv
        /\ pc[t] = "suspended" /\ pc'[t] # "suspended"
        /\ \A u \in Threads \ {t} : pc'[u] = pc[u]
    BY Zenon, <1>1, <1>5, ProcsSplit DEF LeaveSuspended, ToHandler
  <2>2. \A u \in Threads \ {t} : pc[u] = "suspended" => drv[u] # drv[t]
    BY Zenon, <2>1 DEF IInv, Ownership, Holds
  <2> QED
    BY Zenon, <2>1, <2>2 DEF SuspendedOK
<1>6. ASSUME NEW t \in Threads, Leave(t) PROVE SuspendedOK'
  BY Zenon, <1>1, <1>6, ProcsSplit DEF Leave, SuspendedOK
<1>7. ASSUME NEW t \in Threads, NEW d \in Drivers, Enter(t, d)
      PROVE  SuspendedOK'
  BY Zenon, <1>1, <1>7, ProcsSplit DEF Enter, Dequeue, SuspendedOK
<1> QED
  BY Zenon, <1>2, <1>3, <1>4, <1>5, <1>6, <1>7 DEF GoesInOrOut

\* FuturesOK is preserved: BlockingState's constructor marks the driver on the
\* thread that will attach the callback, and a callback that goes off clears
\* the mark.
LEMMA FuturesStep ==
  ASSUME IInv, ReasonsOK, HeldOK, FuturesOK, Next, ~terminateRequested',
         ~terminateRequested, ~started => hasBlockingFuture = {}
  PROVE  FuturesOK'
<1> USE DEF taskVars, slotVars, flagVars, closeVars, execVars, procVars
<1>a. /\ pc \in [Procs -> PCs] /\ ret \in [Procs -> PCs]
      /\ drv \in [Threads -> Drivers \cup {NoDriver}]
      /\ reason \in [Threads -> StopReasons]
      /\ armed \in [Drivers -> Nat] /\ drivers \subseteq Drivers
  BY Zenon DEF IInv, TypeOK
<1>b. TypeOK
  BY Zenon DEF IInv
<1>c. ASSUME drivers' \subseteq drivers, armed' = armed,
             hasBlockingFuture' \subseteq hasBlockingFuture,
             \A u \in Threads : reason[u] = "kBlock" =>
                               reason'[u] = "kBlock" /\ drv'[u] = drv[u]
      PROVE  FuturesOK'
  BY <1>c DEF FuturesOK
<1>d. \A u \in Threads :
        /\ pc[u] \in {"idle", "running", "suspended"} => reason[u] # "kBlock"
        /\ pc[u] = "enqueue" => reason[u] # "kBlock"
  BY Zenon DEF ReasonsOK
<1>1. ASSUME NEW f \in {"kCanceled", "kAborted"}, RequestCancel(f)
      PROVE  FuturesOK'
  <2>1. /\ drivers' \subseteq drivers /\ armed' = armed
        /\ hasBlockingFuture' \subseteq hasBlockingFuture
    BY Zenon, <1>1 DEF RequestCancel, Clients
  <2>2. \A u \in Threads : reason[u] = "kBlock" =>
                          reason'[u] = "kBlock" /\ drv'[u] = drv[u]
    BY Zenon, <1>1, <1>a, <1>d, ProcsSplit DEF RequestCancel, Clients
  <2> QED
    BY Zenon, <2>1, <2>2, <1>c
<1>2. ASSUME Start PROVE FuturesOK'
  BY Zenon, <1>2 DEF Start, FuturesOK
<1>3. ASSUME RequestPause PROVE FuturesOK'
  <2>1. /\ drivers' \subseteq drivers /\ armed' = armed
        /\ hasBlockingFuture' \subseteq hasBlockingFuture
    BY Zenon, <1>3 DEF RequestPause
  <2>2. \A u \in Threads : reason[u] = "kBlock" =>
                          reason'[u] = "kBlock" /\ drv'[u] = drv[u]
    BY Zenon, <1>3, <1>a, <1>d, ProcsSplit DEF RequestPause
  <2> QED
    BY Zenon, <2>1, <2>2, <1>c
<1>4. ASSUME Resume PROVE FuturesOK'
  <2>1. /\ drivers' \subseteq drivers /\ armed' = armed
        /\ hasBlockingFuture' \subseteq hasBlockingFuture
    BY Zenon, <1>4 DEF Resume
  <2>2. \A u \in Threads : reason[u] = "kBlock" =>
                          reason'[u] = "kBlock" /\ drv'[u] = drv[u]
    BY Zenon, <1>4, <1>a, <1>d, ProcsSplit DEF Resume
  <2> QED
    BY Zenon, <2>1, <2>2, <1>c
<1>5. ASSUME RequestYield PROVE FuturesOK'
  <2>1. /\ drivers' \subseteq drivers /\ armed' = armed
        /\ hasBlockingFuture' \subseteq hasBlockingFuture
    BY Zenon, <1>5 DEF RequestYield
  <2>2. \A u \in Threads : reason[u] = "kBlock" =>
                          reason'[u] = "kBlock" /\ drv'[u] = drv[u]
    BY Zenon, <1>5, <1>a, <1>d, ProcsSplit DEF RequestYield
  <2> QED
    BY Zenon, <2>1, <2>2, <1>c
<1>6. ASSUME SetAllOutputConsumed PROVE FuturesOK'
  <2>1. /\ drivers' \subseteq drivers /\ armed' = armed
        /\ hasBlockingFuture' \subseteq hasBlockingFuture
    BY Zenon, <1>6 DEF SetAllOutputConsumed, Clients
  <2>2. \A u \in Threads : reason[u] = "kBlock" =>
                          reason'[u] = "kBlock" /\ drv'[u] = drv[u]
    BY Zenon, <1>6, <1>a, <1>d, ProcsSplit DEF SetAllOutputConsumed, Clients
  <2> QED
    BY Zenon, <2>1, <2>2, <1>c
<1>7. ASSUME NEW d \in Drivers, Fulfil(d) PROVE FuturesOK'
  <2>1. /\ armed' = [armed EXCEPT ![d] = @ - 1] /\ drivers' = drivers
        /\ UNCHANGED <<drv, reason>>
        /\ hasBlockingFuture' = IF CallbackChecks(d) THEN hasBlockingFuture \ {d}
                                ELSE hasBlockingFuture
    BY Zenon, <1>7 DEF Fulfil, Callback
  <2>2. d \in drivers \cap hasBlockingFuture => CallbackChecks(d)
    BY <1>a DEF HeldOK, ReasonsOK, Holds, CallbackChecks
  <2> QED
    BY Zenon, <1>a, <2>1, <2>2 DEF FuturesOK
<1>8. ASSUME NEW p \in Procs, SetError(p) PROVE FuturesOK'
  <2>1. /\ drivers' \subseteq drivers /\ armed' = armed
        /\ hasBlockingFuture' \subseteq hasBlockingFuture
    BY Zenon, <1>8 DEF SetError
  <2>2. \A u \in Threads : reason[u] = "kBlock" =>
                          reason'[u] = "kBlock" /\ drv'[u] = drv[u]
    BY Zenon, <1>8, <1>a, <1>d, ProcsSplit DEF SetError
  <2> QED
    BY Zenon, <2>1, <2>2, <1>c
<1>9. ASSUME NEW p \in Procs, TerminateAgain(p) PROVE FuturesOK'
  <2>1. /\ drivers' \subseteq drivers /\ armed' = armed
        /\ hasBlockingFuture' \subseteq hasBlockingFuture
    BY Zenon, <1>9 DEF TerminateAgain
  <2>2. \A u \in Threads : reason[u] = "kBlock" =>
                          reason'[u] = "kBlock" /\ drv'[u] = drv[u]
    BY Zenon, <1>9, <1>a, <1>d, ProcsSplit DEF TerminateAgain
  <2> QED
    BY Zenon, <2>1, <2>2, <1>c
<1>10. ASSUME NEW p \in Procs, Terminate(p) PROVE FuturesOK'
  BY Zenon, <1>10 DEF Terminate
<1>11. ASSUME NEW p \in Procs, CloseByTask(p) PROVE FuturesOK'
  <2>1. /\ drivers' \subseteq drivers /\ armed' = armed
        /\ hasBlockingFuture' \subseteq hasBlockingFuture
    BY Zenon, <1>11 DEF CloseByTask
  <2>2. \A u \in Threads : reason[u] = "kBlock" =>
                          reason'[u] = "kBlock" /\ drv'[u] = drv[u]
    BY Zenon, <1>11, <1>a, <1>d, ProcsSplit DEF CloseByTask
  <2> QED
    BY Zenon, <2>1, <2>2, <1>c
<1>12. ASSUME NEW p \in Procs, TerminateDone(p) PROVE FuturesOK'
  <2>1. /\ drivers' \subseteq drivers /\ armed' = armed
        /\ hasBlockingFuture' \subseteq hasBlockingFuture
    BY Zenon, <1>12 DEF TerminateDone
  <2>2. \A u \in Threads : reason[u] = "kBlock" =>
                          reason'[u] = "kBlock" /\ drv'[u] = drv[u]
    BY Zenon, <1>12, <1>a, <1>d, ProcsSplit DEF TerminateDone
  <2> QED
    BY Zenon, <2>1, <2>2, <1>c
<1>13. ASSUME NEW t \in Threads, NEW d \in Drivers, EnterClosed(t, d)
       PROVE  FuturesOK'
  <2>1. /\ drivers' \subseteq drivers /\ armed' = armed
        /\ hasBlockingFuture' \subseteq hasBlockingFuture
    BY Zenon, <1>13 DEF EnterClosed, Dequeue, EndClosure
  <2>2. \A u \in Threads : reason[u] = "kBlock" =>
                          reason'[u] = "kBlock" /\ drv'[u] = drv[u]
    BY Zenon, <1>13, <1>a, <1>d, ProcsSplit DEF EnterClosed, Dequeue, EndClosure
  <2> QED
    BY Zenon, <2>1, <2>2, <1>c
<1>14. ASSUME NEW t \in Threads, NEW d \in Drivers, EnterUnqueued(t, d)
       PROVE  FuturesOK'
  <2>1. /\ drivers' \subseteq drivers /\ armed' = armed
        /\ hasBlockingFuture' \subseteq hasBlockingFuture
    BY Zenon, <1>14 DEF EnterUnqueued, Dequeue
  <2>2. \A u \in Threads : reason[u] = "kBlock" =>
                          reason'[u] = "kBlock" /\ drv'[u] = drv[u]
    BY Zenon, <1>14, <1>a, <1>d, ProcsSplit DEF EnterUnqueued, Dequeue
  <2> QED
    BY Zenon, <2>1, <2>2, <1>c
<1>15. ASSUME NEW t \in Threads, NEW d \in Drivers, EnterRefused(t, d)
       PROVE  FuturesOK'
  <2>1. /\ drivers' \subseteq drivers /\ armed' = armed
        /\ hasBlockingFuture' \subseteq hasBlockingFuture
    BY Zenon, <1>15 DEF EnterRefused, Dequeue
  <2>2. \A u \in Threads : reason[u] = "kBlock" =>
                          reason'[u] = "kBlock" /\ drv'[u] = drv[u]
    BY Zenon, <1>15, <1>a, <1>d, ProcsSplit DEF EnterRefused, Dequeue
  <2> QED
    BY Zenon, <2>1, <2>2, <1>c
<1>16. ASSUME NEW t \in Threads, NEW d \in Drivers, Enter(t, d)
       PROVE  FuturesOK'
  <2>1. /\ drivers' = drivers /\ hasBlockingFuture' \subseteq hasBlockingFuture
        /\ armed' = armed
    BY Zenon, <1>16 DEF Enter
  <2>2. \A u \in Threads : reason[u] = "kBlock" =>
                          reason'[u] = "kBlock" /\ drv'[u] = drv[u]
    BY Zenon, <1>16, <1>a, <1>d, ProcsSplit DEF Enter, Dequeue
  <2> QED
    BY Zenon, <2>1, <2>2, <1>c
<1>17. ASSUME NEW t \in Threads, Block(t) PROVE FuturesOK'
  <2>1. /\ drivers' = drivers /\ hasBlockingFuture' = hasBlockingFuture \cup {drv[t]}
        /\ armed' = armed /\ drv' = drv /\ reason'[t] = "kBlock"
        /\ \A u \in Threads : reason[u] = "kBlock" => reason'[u] = "kBlock"
    BY Zenon, <1>17, <1>a DEF Block
  <2> QED
    BY Zenon, <2>1 DEF FuturesOK
<1>18. ASSUME NEW t \in Threads, AtEnd(t) PROVE FuturesOK'
  <2>1. /\ drivers' \subseteq drivers /\ armed' = armed
        /\ hasBlockingFuture' \subseteq hasBlockingFuture
    BY Zenon, <1>18 DEF AtEnd
  <2>2. \A u \in Threads : reason[u] = "kBlock" =>
                          reason'[u] = "kBlock" /\ drv'[u] = drv[u]
    BY Zenon, <1>18, <1>a, <1>d, ProcsSplit DEF AtEnd
  <2> QED
    BY Zenon, <2>1, <2>2, <1>c
<1>19. ASSUME NEW t \in Threads, Throw(t) PROVE FuturesOK'
  <2>1. /\ drivers' \subseteq drivers /\ armed' = armed
        /\ hasBlockingFuture' \subseteq hasBlockingFuture
    BY Zenon, <1>19 DEF Throw, ToHandler
  <2>2. \A u \in Threads : reason[u] = "kBlock" =>
                          reason'[u] = "kBlock" /\ drv'[u] = drv[u]
    BY Zenon, <1>19, <1>a, <1>d, ProcsSplit DEF Throw, ToHandler
  <2> QED
    BY Zenon, <2>1, <2>2, <1>c
<1>20. ASSUME NEW t \in Threads, EnterSuspended(t) PROVE FuturesOK'
  <2>1. /\ drivers' \subseteq drivers /\ armed' = armed
        /\ hasBlockingFuture' \subseteq hasBlockingFuture
    BY Zenon, <1>20 DEF EnterSuspended
  <2>2. \A u \in Threads : reason[u] = "kBlock" =>
                          reason'[u] = "kBlock" /\ drv'[u] = drv[u]
    BY Zenon, <1>20, <1>a, <1>d, ProcsSplit DEF EnterSuspended
  <2> QED
    BY Zenon, <2>1, <2>2, <1>c
<1>21. ASSUME NEW t \in Threads, EnterSuspendedThrows(t) PROVE FuturesOK'
  <2>1. /\ drivers' \subseteq drivers /\ armed' = armed
        /\ hasBlockingFuture' \subseteq hasBlockingFuture
    BY Zenon, <1>21 DEF EnterSuspendedThrows, ToHandler
  <2>2. \A u \in Threads : reason[u] = "kBlock" =>
                          reason'[u] = "kBlock" /\ drv'[u] = drv[u]
    BY Zenon, <1>21, <1>a, <1>d, ProcsSplit DEF EnterSuspendedThrows, ToHandler
  <2> QED
    BY Zenon, <2>1, <2>2, <1>c
<1>22. ASSUME NEW t \in Threads, Stop(t) PROVE FuturesOK'
  <2>1. /\ drivers' \subseteq drivers /\ armed' = armed
        /\ hasBlockingFuture' \subseteq hasBlockingFuture
    BY Zenon, <1>22 DEF Stop
  <2>2. \A u \in Threads : reason[u] = "kBlock" =>
                          reason'[u] = "kBlock" /\ drv'[u] = drv[u]
    BY Zenon, <1>22, <1>a, <1>d, ProcsSplit DEF Stop
  <2> QED
    BY Zenon, <2>1, <2>2, <1>c
<1>23. ASSUME NEW t \in Threads, LeaveSuspended(t) PROVE FuturesOK'
  <2>1. /\ drivers' \subseteq drivers /\ armed' = armed
        /\ hasBlockingFuture' \subseteq hasBlockingFuture
    BY Zenon, <1>23 DEF LeaveSuspended, ToHandler
  <2>2. \A u \in Threads : reason[u] = "kBlock" =>
                          reason'[u] = "kBlock" /\ drv'[u] = drv[u]
    BY Zenon, <1>23, <1>a, <1>d, ProcsSplit DEF LeaveSuspended, ToHandler
  <2> QED
    BY Zenon, <2>1, <2>2, <1>c
<1>24. ASSUME NEW t \in Threads, Unwind(t) PROVE FuturesOK'
  <2>1. /\ drivers' \subseteq drivers /\ armed' = armed
        /\ hasBlockingFuture' \subseteq hasBlockingFuture
    BY Zenon, <1>24 DEF Unwind
  <2>2. \A u \in Threads : reason[u] = "kBlock" =>
                          reason'[u] = "kBlock" /\ drv'[u] = drv[u]
    BY Zenon, <1>24, <1>a, <1>d, ProcsSplit DEF Unwind
  <2> QED
    BY Zenon, <2>1, <2>2, <1>c
<1>25. ASSUME NEW t \in Threads, Close(t) PROVE FuturesOK'
  <2>1. /\ drivers' \subseteq drivers /\ armed' = armed
        /\ hasBlockingFuture' \subseteq hasBlockingFuture
    BY Zenon, <1>25 DEF Close
  <2>2. \A u \in Threads : reason[u] = "kBlock" =>
                          reason'[u] = "kBlock" /\ drv'[u] = drv[u]
    BY Zenon, <1>25, <1>a, <1>d, ProcsSplit DEF Close
  <2> QED
    BY Zenon, <2>1, <2>2, <1>c
<1>26. ASSUME NEW t \in Threads, RemoveDriver(t) PROVE FuturesOK'
  <2>1. /\ drivers' \subseteq drivers /\ armed' = armed
        /\ hasBlockingFuture' \subseteq hasBlockingFuture
    BY Zenon, <1>26 DEF RemoveDriver
  <2>2. \A u \in Threads : reason[u] = "kBlock" =>
                          reason'[u] = "kBlock" /\ drv'[u] = drv[u]
    BY Zenon, <1>26, <1>a, <1>d, ProcsSplit DEF RemoveDriver
  <2> QED
    BY Zenon, <2>1, <2>2, <1>c
<1>27. ASSUME NEW t \in Threads, Leave(t) PROVE FuturesOK'
  <2>1. /\ drivers' \subseteq drivers /\ armed' = armed
        /\ hasBlockingFuture' \subseteq hasBlockingFuture
    BY Zenon, <1>27 DEF Leave
  <2>2. \A u \in Threads : reason[u] = "kBlock" =>
                          reason'[u] = "kBlock" /\ drv'[u] = drv[u]
    BY Zenon, <1>27, <1>a, <1>d, ProcsSplit DEF Leave
  <2> QED
    BY Zenon, <2>1, <2>2, <1>c
<1>28. ASSUME NEW t \in Threads, RanBlocked(t) PROVE FuturesOK'
  <2>1. ~AbandonsBlocked
    BY Zenon, <1>b, ShouldStopCases DEF AbandonsBlocked
  <2> QED
    BY Zenon, <1>28, <2>1, <1>c DEF RanBlocked
<1>29. ASSUME NEW t \in Threads, RanYielded(t) PROVE FuturesOK'
  <2>1. /\ drivers' \subseteq drivers /\ armed' = armed
        /\ hasBlockingFuture' \subseteq hasBlockingFuture
    BY Zenon, <1>29 DEF RanYielded, EndClosure
  <2>2. \A u \in Threads : reason[u] = "kBlock" =>
                          reason'[u] = "kBlock" /\ drv'[u] = drv[u]
    BY Zenon, <1>29, <1>a, <1>d, ProcsSplit DEF RanYielded, EndClosure
  <2> QED
    BY Zenon, <2>1, <2>2, <1>c
<1>30. ASSUME NEW t \in Threads, Requeue(t) PROVE FuturesOK'
  <2>1. /\ drivers' \subseteq drivers /\ armed' = armed
        /\ hasBlockingFuture' \subseteq hasBlockingFuture
    BY Zenon, <1>30 DEF Requeue, EndClosure
  <2>2. \A u \in Threads : reason[u] = "kBlock" =>
                          reason'[u] = "kBlock" /\ drv'[u] = drv[u]
    BY Zenon, <1>30, <1>a, <1>d, ProcsSplit DEF Requeue, EndClosure
  <2> QED
    BY Zenon, <2>1, <2>2, <1>c
<1>31. ASSUME NEW t \in Threads, RanOther(t) PROVE FuturesOK'
  <2>1. /\ drivers' \subseteq drivers /\ armed' = armed
        /\ hasBlockingFuture' \subseteq hasBlockingFuture
    BY Zenon, <1>31 DEF RanOther, EndClosure
  <2>2. \A u \in Threads : reason[u] = "kBlock" =>
                          reason'[u] = "kBlock" /\ drv'[u] = drv[u]
    BY Zenon, <1>31, <1>a, <1>d, ProcsSplit DEF RanOther, EndClosure
  <2> QED
    BY Zenon, <2>1, <2>2, <1>c
<1>32. ASSUME NEW t \in Threads, SetResume(t) PROVE FuturesOK'
  <2>1. /\ drivers' = drivers
        /\ pc[t] = "setResume" /\ reason[t] = "kBlock" /\ drv[t] \in Drivers
        /\ \A u \in Threads \ {t} : reason'[u] = reason[u] /\ drv'[u] = drv[u]
    BY Zenon, <1>32, <1>a
    DEF SetResume, EndClosure, ReasonsOK, IInv, RunHasDriver, InRun
  <2>2. CASE drv[t] \in onThread
    <3>1. armed' = armed /\ hasBlockingFuture' = hasBlockingFuture
      BY Zenon, <1>32, <2>2 DEF SetResume
    <3>2. ASSUME drv[t] \in drivers \cap hasBlockingFuture
          PROVE  \E u \in Threads \ {t} : drv[u] = drv[t] /\ reason[u] = "kBlock"
      <4>1. PICK u \in Threads : drv[u] = drv[t] /\ Holds(u)
        BY Zenon, <2>2, <3>2 DEF HeldOK
      <4>2. u # t
        BY Zenon, <2>1, <4>1 DEF Holds
      <4> QED
        BY Zenon, <3>2, <4>1, <4>2 DEF ReasonsOK
    <3> QED
      BY <2>1, <3>1, <3>2 DEF FuturesOK
  <2>3. CASE drv[t] \notin onThread /\ t \notin realized
    <3>1. armed' = [armed EXCEPT ![drv[t]] = @ + 1] /\ hasBlockingFuture' = hasBlockingFuture
      BY Zenon, <1>32, <2>3 DEF SetResume
    <3> QED
      BY <1>a, <2>1, <3>1 DEF FuturesOK
  <2>4. CASE drv[t] \notin onThread /\ t \in realized
    <3>1. armed' = armed /\ Callback(drv[t])
      BY Zenon, <1>32, <2>4 DEF SetResume
    <3>2. drv[t] \in drivers => drv[t] \notin isSuspended
      <4>1. ASSUME NEW u \in Threads, drv[u] = drv[t], pc[u] = "suspended" PROVE FALSE
        BY Zenon, <2>4, <4>1 DEF Holds, IInv, Ownership
      <4> QED
        BY Zenon, <4>1 DEF HeldOK
    <3>3. /\ hasBlockingFuture' \subseteq hasBlockingFuture
          /\ drv[t] \in drivers => drv[t] \notin hasBlockingFuture'
      BY Zenon, <3>1, <3>2 DEF Callback, CallbackChecks
    <3> QED
      BY <2>1, <3>1, <3>3 DEF FuturesOK
  <2> QED
    BY Zenon, <2>2, <2>3, <2>4
<1>33. ASSUME NEW t \in Threads, FulfilEarly(t) PROVE FuturesOK'
  <2>1. /\ drivers' \subseteq drivers /\ armed' = armed
        /\ hasBlockingFuture' \subseteq hasBlockingFuture
    BY Zenon, <1>33 DEF FulfilEarly
  <2>2. \A u \in Threads : reason[u] = "kBlock" =>
                          reason'[u] = "kBlock" /\ drv'[u] = drv[u]
    BY Zenon, <1>33, <1>a, <1>d, ProcsSplit DEF FulfilEarly
  <2> QED
    BY Zenon, <2>1, <2>2, <1>c
<1> QED
  BY ZenonT(30), <1>1, <1>2, <1>3, <1>4, <1>5, <1>6, <1>7, <1>8,
      <1>9, <1>10, <1>11, <1>12, <1>13, <1>14, <1>15, <1>16, <1>17, <1>18,
      <1>19, <1>20, <1>21, <1>22, <1>23, <1>24, <1>25, <1>26, <1>27, <1>28,
      <1>29, <1>30, <1>31, <1>32, <1>33
  DEF Next, ClientStep, TerminateStep, EnterStep, OperatorStep, ThreadStep

\* MindedOK is preserved: whoever stops minding a driver has enqueued it, has
\* attached a callback, has taken it out of its slot, or has run into an error,
\* and Task::resume enqueues the drivers that stopped for the pause.
LEMMA MindedStep ==
  ASSUME SizesKnown, IInv, ReasonsOK, SuspendedOK, HeldOK, TerminatedOK,
         RemovedOK, ~pauseRequested => MindedOK, Next, ~terminateRequested',
         ~terminateRequested, ~Ending, ~Ending', ~pauseRequested'
  PROVE  MindedOK'
<1> USE DEF taskVars, slotVars, flagVars, closeVars, execVars, procVars
<1>a. /\ pc \in [Procs -> PCs] /\ ret \in [Procs -> PCs]
      /\ drv \in [Threads -> Drivers \cup {NoDriver}]
      /\ reason \in [Threads -> StopReasons]
      /\ armed \in [Drivers -> Nat] /\ drivers \subseteq Drivers
  BY Zenon DEF IInv, TypeOK
<1>b. TypeOK /\ ReturnPoints
  BY Zenon DEF IInv
<1>c. ASSUME drivers' \subseteq drivers, armed' = armed,
             isEnqueued \cup hasBlockingFuture
               \subseteq isEnqueued' \cup hasBlockingFuture',
             \A u \in Threads : Minds(u) => Minds(u)' /\ drv'[u] = drv[u],
             ~pauseRequested
      PROVE  MindedOK'
  BY Zenon, <1>c DEF MindedOK
<1>e. \A q \in Procs : /\ pc[q] \notin {"setError", "terminate"}
                      /\ pc'[q] \notin {"setError", "terminate"}
  BY Zenon DEF Ending
<1>1. ASSUME NEW f \in {"kCanceled", "kAborted"}, RequestCancel(f)
      PROVE  MindedOK'
  <2>1. /\ drivers' \subseteq drivers /\ armed' = armed
        /\ isEnqueued \cup hasBlockingFuture
             \subseteq isEnqueued' \cup hasBlockingFuture'
        /\ ~pauseRequested
    BY Zenon, <1>1 DEF RequestCancel, Clients
  <2>2. \A u \in Threads : Minds(u) => Minds(u)' /\ drv'[u] = drv[u]
    BY Zenon, <1>1, <1>a, <1>b, ProcsSplit
    DEF RequestCancel, Clients, Minds, Holds, ReturnPoints
  <2> QED
    BY Zenon, <2>1, <2>2, <1>c
<1>2. ASSUME Start PROVE MindedOK'
  BY Zenon, <1>2, <1>a DEF Start, MindedOK
<1>3. ASSUME RequestPause PROVE MindedOK'
  BY Zenon, <1>3 DEF RequestPause
<1>4. ASSUME Resume PROVE MindedOK'
  <2>1. pauseRequested /\ ~exception
    BY Zenon, <1>4 DEF Resume, PauseAcked, IInv, PauseState
  <2>2. \A t \in Threads : ~Counted(t)
    BY Zenon, <1>4, CountedPositive DEF Resume, IInv, PauseState
  <2>3. ResumeCheckFails = {}
    <3>1. ASSUME NEW d \in drivers, d \in onThread \cup isTerminated
          PROVE  d \in isSuspended
      <4>1. PICK t \in Threads : drv[t] = d /\ Holds(t)
        BY <3>1 DEF HeldOK, TerminatedOK, Removing, Holds
      <4> QED
        BY Zenon, <2>2, <4>1 DEF Counted, SuspendedOK
    <3> QED
      BY Zenon, <3>1 DEF ResumeCheckFails, ResumeCandidates
  <2>4. /\ isEnqueued' = isEnqueued \cup (ResumeCandidates \ hasBlockingFuture)
        /\ UNCHANGED <<drivers, hasBlockingFuture, armed, pc, drv, ret, reason>>
    BY Zenon, <1>4, <2>1, <2>3 DEF Resume
  <2>5. \A d \in drivers \cap isSuspended :
          \E t \in Threads : drv[t] = d /\ pc[t] = "suspended"
    BY Zenon DEF HeldOK
  <2> QED
    BY <2>4, <2>5 DEF MindedOK, Minds, Holds, ResumeCandidates
<1>5. ASSUME RequestYield PROVE MindedOK'
  <2>1. /\ drivers' \subseteq drivers /\ armed' = armed
        /\ isEnqueued \cup hasBlockingFuture
             \subseteq isEnqueued' \cup hasBlockingFuture'
        /\ ~pauseRequested
    BY Zenon, <1>5 DEF RequestYield
  <2>2. \A u \in Threads : Minds(u) => Minds(u)' /\ drv'[u] = drv[u]
    BY Zenon, <1>5, <1>a, <1>b, ProcsSplit
    DEF RequestYield, Minds, Holds, ReturnPoints
  <2> QED
    BY Zenon, <2>1, <2>2, <1>c
<1>6. ASSUME SetAllOutputConsumed PROVE MindedOK'
  <2>1. /\ drivers' \subseteq drivers /\ armed' = armed
        /\ isEnqueued \cup hasBlockingFuture
             \subseteq isEnqueued' \cup hasBlockingFuture'
        /\ ~pauseRequested
    BY Zenon, <1>6 DEF SetAllOutputConsumed, Clients
  <2>2. \A u \in Threads : Minds(u) => Minds(u)' /\ drv'[u] = drv[u]
    BY Zenon, <1>6, <1>a, <1>b, ProcsSplit
    DEF SetAllOutputConsumed, Clients, Minds, Holds, ReturnPoints
  <2> QED
    BY Zenon, <2>1, <2>2, <1>c
<1>7. ASSUME NEW d \in Drivers, Fulfil(d) PROVE MindedOK'
  <2>1. /\ armed' = [armed EXCEPT ![d] = @ - 1] /\ drivers' = drivers
        /\ UNCHANGED <<drv, reason, pauseRequested, ret>> /\ Callback(d)
    BY Zenon, <1>7 DEF Fulfil
  <2>2. ~CallbackFails(d) /\ pc' = pc
    BY Zenon, <1>7, <1>a, <1>e, ProcsSplit DEF Fulfil, Clients
  <2>3. /\ d \in isEnqueued'
        /\ isEnqueued \subseteq isEnqueued'
        /\ hasBlockingFuture \subseteq hasBlockingFuture' \cup {d}
    BY Zenon, <2>1, <2>2 DEF Callback, CallbackFails, CallbackEnqueues
  <2> QED
    BY <1>a, <2>1, <2>2, <2>3 DEF MindedOK, Minds, Holds
<1>8. ASSUME NEW p \in Procs, SetError(p) PROVE MindedOK'
  BY Zenon, <1>8, <1>e DEF SetError
<1>9. ASSUME NEW p \in Procs, TerminateAgain(p) PROVE MindedOK'
  BY Zenon, <1>9, <1>e DEF TerminateAgain
<1>10. ASSUME NEW p \in Procs, Terminate(p) PROVE MindedOK'
  BY Zenon, <1>10, <1>e DEF Terminate
<1>11. ASSUME NEW p \in Procs, CloseByTask(p) PROVE MindedOK'
  <2>1. /\ drivers' \subseteq drivers /\ armed' = armed
        /\ isEnqueued \cup hasBlockingFuture
             \subseteq isEnqueued' \cup hasBlockingFuture'
        /\ ~pauseRequested
    BY Zenon, <1>11 DEF CloseByTask
  <2>2. \A u \in Threads : Minds(u) => Minds(u)' /\ drv'[u] = drv[u]
    BY Zenon, <1>11, <1>a, <1>b, ProcsSplit
    DEF CloseByTask, Minds, Holds, ReturnPoints
  <2> QED
    BY Zenon, <2>1, <2>2, <1>c
<1>12. ASSUME NEW p \in Procs, TerminateDone(p) PROVE MindedOK'
  <2>1. /\ drivers' \subseteq drivers /\ armed' = armed
        /\ isEnqueued \cup hasBlockingFuture
             \subseteq isEnqueued' \cup hasBlockingFuture'
        /\ ~pauseRequested
    BY Zenon, <1>12 DEF TerminateDone
  <2>2. \A u \in Threads : Minds(u) => Minds(u)' /\ drv'[u] = drv[u]
    BY Zenon, <1>12, <1>a, <1>b, ProcsSplit
    DEF TerminateDone, Minds, Holds, ReturnPoints
  <2> QED
    BY Zenon, <2>1, <2>2, <1>c
<1>13. ASSUME NEW t \in Threads, NEW d \in Drivers, EnterClosed(t, d)
       PROVE  MindedOK'
  BY Zenon, <1>13, <1>a, <1>e, ProcsSplit DEF EnterClosed, EndClosure
<1>14. ASSUME NEW t \in Threads, NEW d \in Drivers, EnterUnqueued(t, d)
       PROVE  MindedOK'
  <2>1. /\ drivers' \subseteq drivers /\ armed' = armed
        /\ isEnqueued \cup hasBlockingFuture
             \subseteq isEnqueued' \cup hasBlockingFuture'
        /\ ~pauseRequested
    BY Zenon, <1>14 DEF EnterUnqueued, Dequeue
  <2>2. \A u \in Threads : Minds(u) => Minds(u)' /\ drv'[u] = drv[u]
    BY Zenon, <1>14, <1>a, <1>b, ProcsSplit
    DEF EnterUnqueued, Dequeue, Minds, Holds, ReturnPoints
  <2> QED
    BY Zenon, <2>1, <2>2, <1>c
<1>15. ASSUME NEW t \in Threads, NEW d \in Drivers, EnterRefused(t, d)
       PROVE  MindedOK'
  <2>1. /\ isEnqueued' = isEnqueued \ {d} /\ d \in isTerminated \cup onThread
        /\ UNCHANGED <<drivers, hasBlockingFuture, armed, pc, drv, reason, ret,
                      pauseRequested>>
    BY Zenon, <1>15, <1>b, ShouldStopCases DEF EnterRefused
  <2>2. d \in drivers => \E u \in Threads : drv[u] = d /\ Holds(u)
    BY <2>1 DEF HeldOK, TerminatedOK, Removing, Holds
  <2> QED
    BY <2>1, <2>2 DEF MindedOK, Minds, Holds
<1>16. ASSUME NEW t \in Threads, NEW d \in Drivers, Enter(t, d)
       PROVE  MindedOK'
  <2>1. /\ isEnqueued' = isEnqueued \ {d} /\ pc[t] = "idle"
        /\ hasBlockingFuture \subseteq hasBlockingFuture' \cup {d}
        /\ UNCHANGED <<drivers, armed, ret, pauseRequested>>
    BY Zenon, <1>16 DEF Enter, Dequeue
  <2>2. Minds(t)' /\ drv'[t] = d
    BY Zenon, <1>16, <1>a, <1>b, ProcsSplit, ShouldStopCases DEF Enter, Minds, Holds
  <2>3. \A u \in Threads : Minds(u) => Minds(u)' /\ drv'[u] = drv[u]
    BY Zenon, <1>16, <1>a, <2>1, ProcsSplit DEF Enter, Minds, Holds
  <2> QED
    BY Zenon, <2>1, <2>2, <2>3 DEF MindedOK
<1>17. ASSUME NEW t \in Threads, Block(t) PROVE MindedOK'
  <2>1. /\ drivers' \subseteq drivers /\ armed' = armed
        /\ isEnqueued \cup hasBlockingFuture
             \subseteq isEnqueued' \cup hasBlockingFuture'
        /\ ~pauseRequested
    BY Zenon, <1>17 DEF Block
  <2>2. \A u \in Threads : Minds(u) => Minds(u)' /\ drv'[u] = drv[u]
    BY Zenon, <1>17, <1>a, <1>b, ProcsSplit DEF Block, Minds, Holds, ReturnPoints
  <2> QED
    BY Zenon, <2>1, <2>2, <1>c
<1>18. ASSUME NEW t \in Threads, AtEnd(t) PROVE MindedOK'
  <2>1. /\ drivers' \subseteq drivers /\ armed' = armed
        /\ isEnqueued \cup hasBlockingFuture
             \subseteq isEnqueued' \cup hasBlockingFuture'
        /\ ~pauseRequested
    BY Zenon, <1>18 DEF AtEnd
  <2>2. \A u \in Threads : Minds(u) => Minds(u)' /\ drv'[u] = drv[u]
    BY Zenon, <1>18, <1>a, <1>b, ProcsSplit DEF AtEnd, Minds, Holds, ReturnPoints
  <2> QED
    BY Zenon, <2>1, <2>2, <1>c
<1>19. ASSUME NEW t \in Threads, Throw(t) PROVE MindedOK'
  BY Zenon, <1>19, <1>a, <1>e, ProcsSplit DEF Throw, ToHandler
<1>20. ASSUME NEW t \in Threads, EnterSuspended(t) PROVE MindedOK'
  <2>1. /\ drivers' \subseteq drivers /\ armed' = armed
        /\ isEnqueued \cup hasBlockingFuture
             \subseteq isEnqueued' \cup hasBlockingFuture'
        /\ ~pauseRequested
    BY Zenon, <1>20 DEF EnterSuspended
  <2>2. \A u \in Threads : Minds(u) => Minds(u)' /\ drv'[u] = drv[u]
    BY Zenon, <1>20, <1>a, <1>b, ProcsSplit
    DEF EnterSuspended, Minds, Holds, ReturnPoints
  <2> QED
    BY Zenon, <2>1, <2>2, <1>c
<1>21. ASSUME NEW t \in Threads, EnterSuspendedThrows(t) PROVE MindedOK'
  BY Zenon, <1>21, <1>a, <1>e, ProcsSplit DEF EnterSuspendedThrows, ToHandler
<1>22. ASSUME NEW t \in Threads, Stop(t) PROVE MindedOK'
  <2>1. /\ drivers' \subseteq drivers /\ armed' = armed
        /\ isEnqueued \cup hasBlockingFuture
             \subseteq isEnqueued' \cup hasBlockingFuture'
        /\ ~pauseRequested
    BY Zenon, <1>22 DEF Stop
  <2>2. \A u \in Threads : Minds(u) => Minds(u)' /\ drv'[u] = drv[u]
    BY Zenon, <1>22, <1>a, <1>b, ProcsSplit DEF Stop, Minds, Holds, ReturnPoints
  <2> QED
    BY Zenon, <2>1, <2>2, <1>c
<1>23. ASSUME NEW t \in Threads, LeaveSuspended(t) PROVE MindedOK'
  <2>1. /\ drivers' = drivers /\ armed' = armed
        /\ UNCHANGED <<isEnqueued, hasBlockingFuture>> /\ ~pauseRequested
    BY Zenon, <1>23 DEF LeaveSuspended
  <2>2. pc' = [pc EXCEPT ![t] = "running"] /\ UNCHANGED <<drv, reason, ret>>
    BY Zenon, <1>23, <1>a, <1>e, ProcsSplit DEF LeaveSuspended, ToHandler
  <2>3. \A u \in Threads : Minds(u) => Minds(u)' /\ drv'[u] = drv[u]
    BY Zenon, <1>a, <2>2, ProcsSplit DEF Minds, Holds
  <2> QED
    BY Zenon, <2>1, <2>3, <1>c
<1>24. ASSUME NEW t \in Threads, Unwind(t) PROVE MindedOK'
  <2>1. /\ drivers' \subseteq drivers /\ armed' = armed
        /\ isEnqueued \cup hasBlockingFuture
             \subseteq isEnqueued' \cup hasBlockingFuture'
        /\ ~pauseRequested
    BY Zenon, <1>24 DEF Unwind
  <2>2. \A u \in Threads : Minds(u) => Minds(u)' /\ drv'[u] = drv[u]
    BY Zenon, <1>24, <1>a, <1>b, ProcsSplit DEF Unwind, Minds, Holds, ReturnPoints
  <2> QED
    BY Zenon, <2>1, <2>2, <1>c
<1>25. ASSUME NEW t \in Threads, Close(t) PROVE MindedOK'
  <2>1. /\ drivers' \subseteq drivers /\ armed' = armed
        /\ isEnqueued \cup hasBlockingFuture
             \subseteq isEnqueued' \cup hasBlockingFuture'
        /\ ~pauseRequested
    BY Zenon, <1>25 DEF Close
  <2>2. \A u \in Threads : Minds(u) => Minds(u)' /\ drv'[u] = drv[u]
    BY ZenonT(30), <1>25, <1>a, <1>b, ProcsSplit DEF Close, Minds, Holds, ReturnPoints
  <2> QED
    BY Zenon, <2>1, <2>2, <1>c
<1>26. ASSUME NEW t \in Threads, RemoveDriver(t) PROVE MindedOK'
  <2>1. /\ drivers' \subseteq drivers /\ armed' = armed
        /\ isEnqueued \cup hasBlockingFuture
             \subseteq isEnqueued' \cup hasBlockingFuture'
        /\ ~pauseRequested
    BY Zenon, <1>26 DEF RemoveDriver
  <2>2. \A u \in Threads : Minds(u) => Minds(u)' /\ drv'[u] = drv[u]
    BY ZenonT(30), <1>26, <1>a, <1>b, ProcsSplit
    DEF RemoveDriver, Minds, Holds, ReturnPoints
  <2> QED
    BY Zenon, <2>1, <2>2, <1>c
<1>27. ASSUME NEW t \in Threads, Leave(t) PROVE MindedOK'
  <2>1. /\ UNCHANGED <<drivers, armed, isEnqueued, hasBlockingFuture,
                      pauseRequested, drv, reason>>
        /\ pc[t] = "leave"
        /\ drv[t] \notin isTerminated => pc'[t] = "ran"
        /\ \A u \in Threads \ {t} : pc'[u] = pc[u] /\ ret'[u] = ret[u]
    BY Zenon, <1>27, <1>a, ProcsSplit DEF Leave
  <2>2. \A u \in Threads \ {t} : Minds(u) => Minds(u)'
    BY Zenon, <2>1 DEF Minds, Holds
  <2>3. ASSUME drv[t] \in drivers PROVE Minds(t)'
    <3>1. drv[t] \notin isTerminated
      <4>1. ASSUME NEW u \in Threads, drv[u] = drv[t], Removing(u) PROVE FALSE
        BY Zenon, <2>1, <4>1 DEF Removing, Holds, IInv, Ownership
      <4> QED
        BY Zenon, <2>3, <4>1 DEF TerminatedOK
    <3>2. reason[t] \in {"kBlock", "kYield"}
      <4>1. reason[t] \notin {"kAtEnd", "kAlreadyTerminated"}
        BY Zenon, <2>1, <2>3 DEF RemovedOK, Removed
      <4>2. reason[t] \notin {"kNone", "kAlreadyOnThread", "kPause", "kTerminate"}
        BY Zenon, <2>1 DEF ReasonsOK
      <4> QED
        BY Zenon, <1>a, <4>1, <4>2 DEF StopReasons
    <3> QED
      BY Zenon, <2>1, <3>1, <3>2 DEF Minds
  <2> QED
    BY <2>1, <2>2, <2>3 DEF MindedOK
<1>28. ASSUME NEW t \in Threads, RanBlocked(t) PROVE MindedOK'
  <2>1. ~AbandonsBlocked
    BY Zenon, <1>b, ShouldStopCases DEF AbandonsBlocked
  <2>2. /\ UNCHANGED <<drivers, armed, isEnqueued, hasBlockingFuture,
                      pauseRequested, drv, reason, ret>>
        /\ pc[t] = "ran" /\ reason[t] = "kBlock"
        /\ pc' = [pc EXCEPT ![t] = "setResume"]
    BY Zenon, <1>28, <2>1 DEF RanBlocked
  <2>3. \A u \in Threads : Minds(u) => Minds(u)' /\ drv'[u] = drv[u]
    BY Zenon, <1>a, <2>2, ProcsSplit DEF Minds, Holds
  <2> QED
    BY Zenon, <2>2, <2>3, <1>c
<1>29. ASSUME NEW t \in Threads, RanYielded(t) PROVE MindedOK'
  <2>1. /\ UNCHANGED <<drivers, armed, isEnqueued, hasBlockingFuture,
                      pauseRequested>>
        /\ pc[t] = "ran" /\ reason[t] = "kYield"
    BY Zenon, <1>29 DEF RanYielded
  <2>2. \A u \in Threads \ {t} : Minds(u) => Minds(u)' /\ drv'[u] = drv[u]
    BY ZenonT(30), <1>29, <1>a, ProcsSplit DEF RanYielded, EndClosure, Minds, Holds
  <2>3. \/ drv[t] \in isEnqueued
        \/ Minds(t)' /\ drv'[t] = drv[t]
    BY Zenon, <1>29, <1>a, ProcsSplit DEF RanYielded, Minds
  <2> QED
    BY Zenon, <2>1, <2>2, <2>3 DEF MindedOK
<1>30. ASSUME NEW t \in Threads, Requeue(t) PROVE MindedOK'
  <2>1. /\ UNCHANGED <<drivers, armed, hasBlockingFuture, pauseRequested>>
        /\ isEnqueued' = isEnqueued \cup {drv[t]}
    BY Zenon, <1>30 DEF Requeue
  <2>2. \A u \in Threads \ {t} : Minds(u) => Minds(u)' /\ drv'[u] = drv[u]
    BY Zenon, <1>30, <1>a, ProcsSplit DEF Requeue, EndClosure, Minds, Holds
  <2> QED
    BY Zenon, <2>1, <2>2 DEF MindedOK
<1>31. ASSUME NEW t \in Threads, RanOther(t) PROVE MindedOK'
  <2>1. /\ drivers' \subseteq drivers /\ armed' = armed
        /\ isEnqueued \cup hasBlockingFuture
             \subseteq isEnqueued' \cup hasBlockingFuture'
        /\ ~pauseRequested
    BY Zenon, <1>31 DEF RanOther, EndClosure
  <2>2. \A u \in Threads : Minds(u) => Minds(u)' /\ drv'[u] = drv[u]
    BY Zenon, <1>31, <1>a, <1>b, ProcsSplit
    DEF RanOther, EndClosure, Minds, Holds, ReturnPoints
  <2> QED
    BY Zenon, <2>1, <2>2, <1>c
<1>32. ASSUME NEW t \in Threads, SetResume(t) PROVE MindedOK'
  <2>1. /\ UNCHANGED <<drivers, pauseRequested, onThread>> /\ pc[t] = "setResume"
        /\ drv[t] \in Drivers
    BY Zenon, <1>32 DEF SetResume, IInv, RunHasDriver, InRun
  <2>2. PICK to \in {"idle", "setError"} : EndClosure(t, to)
    BY Zenon, <1>32 DEF SetResume
  <2>3. \A u \in Threads \ {t} : Minds(u) => Minds(u)' /\ drv'[u] = drv[u]
    BY Zenon, <1>a, <2>2, ProcsSplit DEF EndClosure, Minds, Holds
  <2>4. CASE drv[t] \in onThread
    <3>1. UNCHANGED <<armed, hasBlockingFuture, isEnqueued>>
      BY Zenon, <1>32, <2>4 DEF SetResume
    <3>2. drv[t] \in drivers =>
            \E u \in Threads \ {t} : drv[u] = drv[t] /\ Minds(u)
      BY Zenon, <2>1, <2>4 DEF HeldOK, Minds, Holds
    <3> QED
      BY ZenonT(30), <2>1, <2>3, <3>1, <3>2 DEF MindedOK
  <2>5. CASE drv[t] \notin onThread /\ t \notin realized
    <3>1. /\ armed' = [armed EXCEPT ![drv[t]] = @ + 1]
          /\ UNCHANGED <<hasBlockingFuture, isEnqueued>>
      BY Zenon, <1>32, <2>5 DEF SetResume
    <3> QED
      BY <1>a, <2>1, <2>3, <3>1 DEF MindedOK
  <2>6. CASE drv[t] \notin onThread /\ t \in realized
    <3>1. armed' = armed /\ Callback(drv[t])
      BY Zenon, <1>32, <2>6 DEF SetResume
    <3>2. ~CallbackFails(drv[t])
      BY Zenon, <1>32, <1>a, <1>e, <2>6, ProcsSplit DEF SetResume, EndClosure
    <3>3. /\ drv[t] \in isEnqueued' /\ isEnqueued \subseteq isEnqueued'
          /\ hasBlockingFuture \subseteq hasBlockingFuture' \cup {drv[t]}
      BY Zenon, <2>1, <3>1, <3>2 DEF Callback, CallbackFails, CallbackEnqueues
    <3> QED
      BY Zenon, <2>1, <2>3, <3>1, <3>3 DEF MindedOK
  <2> QED
    BY Zenon, <2>4, <2>5, <2>6
<1>33. ASSUME NEW t \in Threads, FulfilEarly(t) PROVE MindedOK'
  <2>1. /\ drivers' \subseteq drivers /\ armed' = armed
        /\ isEnqueued \cup hasBlockingFuture
             \subseteq isEnqueued' \cup hasBlockingFuture'
        /\ ~pauseRequested
    BY Zenon, <1>33 DEF FulfilEarly
  <2>2. \A u \in Threads : Minds(u) => Minds(u)' /\ drv'[u] = drv[u]
    BY Zenon, <1>33, <1>a, <1>b, ProcsSplit
    DEF FulfilEarly, Minds, Holds, ReturnPoints
  <2> QED
    BY Zenon, <2>1, <2>2, <1>c
<1> QED
  BY Zenon, <1>1, <1>2, <1>3, <1>4, <1>5, <1>6, <1>7, <1>8,
      <1>9, <1>10, <1>11, <1>12, <1>13, <1>14, <1>15, <1>16, <1>17, <1>18,
      <1>19, <1>20, <1>21, <1>22, <1>23, <1>24, <1>25, <1>26, <1>27, <1>28,
      <1>29, <1>30, <1>31, <1>32, <1>33
  DEF Next, ClientStep, TerminateStep, EnterStep, OperatorStep, ThreadStep

\* LostInv is about the variables only.
LEMMA LostStutter ==
  ASSUME LostInv, UNCHANGED vars
  PROVE  LostInv'
<1> USE DEF vars, taskVars, slotVars, flagVars, closeVars, execVars, procVars
<1>1. (ReasonsOK /\ QueuedOK /\ ErrorsOK /\ NothingFlagged)'
  BY Zenon DEF LostInv, ReasonsOK, ReturnsTo, Holds, QueuedOK, ErrorsOK, isRunning,
      NothingFlagged
<1>2. SuspendedOK /\ HeldOK /\ TerminatedOK /\ RemovedOK /\ FuturesOK =>
        (SuspendedOK /\ HeldOK /\ TerminatedOK /\ RemovedOK /\ FuturesOK)'
  BY DEF SuspendedOK, HeldOK, TerminatedOK, RemovedOK, FuturesOK, Holds,
      Removing, Removed, Closing
<1>3. (MindedOK => MindedOK') /\ (Ending => Ending')
  BY DEF MindedOK, Minds, Holds, Ending
<1> QED
  BY Zenon, <1>1, <1>2, <1>3 DEF LostInv

\* LostInv is inductive, given IInv.
THEOREM LostInvariance == Spec => []LostInv
<1>1. Init => LostInv
  BY Zenon DEF Init, LostInv, ReasonsOK, ReturnsTo, Holds, QueuedOK, ErrorsOK,
      isRunning, NothingFlagged, SuspendedOK, HeldOK, TerminatedOK, RemovedOK,
      Removed, FuturesOK, MindedOK, Closing, Procs
<1>2. ASSUME IInv, LostInv, Next PROVE LostInv'
  <2>1. (ReasonsOK /\ QueuedOK /\ ErrorsOK)'
    BY Zenon, <1>2, Sizes, ReasonsStep, QueuedStep, ErrorsStep DEF LostInv
  <2>2. NothingFlagged /\ NothingFlagged'
    BY Zenon, <1>2, UnflaggedStep DEF LostInv
  <2>3. ASSUME ~terminateRequested'
        PROVE  /\ ~terminateRequested
               /\ (SuspendedOK /\ HeldOK)'
               /\ (TerminatedOK /\ RemovedOK /\ FuturesOK)'
    <3>1. ~terminateRequested
      BY Zenon, <1>2, <2>3, TerminationStays
    <3>2. /\ ReasonsOK /\ SuspendedOK /\ HeldOK /\ TerminatedOK
          /\ RemovedOK /\ FuturesOK
      BY Zenon, <1>2, <3>1 DEF LostInv
    <3>3. /\ ~started => isSuspended = {}
          /\ ~started => isTerminated = {}
          /\ ~started => hasBlockingFuture = {}
      BY Zenon, <2>2 DEF NothingFlagged
    <3> QED
      BY Zenon, <1>2, <2>3, <3>1, <3>2, <3>3, SuspendedStep, HeldStep,
         TerminatedStep, RemovedStep, FuturesStep
  <2>4. ASSUME ~terminateRequested', ~Ending', ~pauseRequested' PROVE MindedOK'
    <3>1. ~terminateRequested
      BY Zenon, <2>3, <2>4
    <3>2. ReasonsOK /\ ErrorsOK
      BY Zenon, <1>2 DEF LostInv
    <3>3. SuspendedOK /\ HeldOK /\ TerminatedOK /\ RemovedOK
      BY Zenon, <1>2, <3>1 DEF LostInv
    <3>4. ~Ending
      BY Zenon, <1>2, <2>4, <3>1, <3>2, EndingStays
    <3>5. ~pauseRequested => MindedOK
      BY Zenon, <1>2, <3>1, <3>4 DEF LostInv
    <3> QED
      BY Zenon, <1>2, <2>4, <3>1, <3>2, <3>3, <3>4, <3>5, Sizes, MindedStep
  <2> QED
    BY Zenon, <2>1, <2>2, <2>3, <2>4 DEF LostInv
<1> QED
  BY <1>1, <1>2, LostStutter, Invariance, PTL DEF Spec

\* NoLostDriver holds always: a driver of a task that runs on is never left
\* without a closure, a thread, a callback or a resume to come (Task.cpp:627
\* resume, Driver.cpp:71 setResume, :262 enqueue).
THEOREM NoDriverLost == Spec => []NoLostDriver
<1>1. ASSUME IInv, LostInv PROVE NoLostDriver
  <2> SUFFICES ASSUME ~terminateRequested, ~Ending, NEW d \in drivers
      PROVE  \/ queue[d] > 0
             \/ armed[d] > 0
             \/ \E t \in Threads : drv[t] = d /\ pc[t] # "idle"
             \/ pauseRequested /\ d \in ResumeCandidates \ hasBlockingFuture
    BY Zenon DEF NoLostDriver
  <2>1. /\ HeldOK /\ TerminatedOK /\ FuturesOK /\ ReasonsOK /\ QueuedOK
        /\ ~pauseRequested => MindedOK
    BY Zenon, <1>1 DEF LostInv
  <2>2. CASE d \in isEnqueued
    <3>1. d \in closed => d \in onThread \cup isTerminated
      BY Zenon, <1>1 DEF IInv, ClosedSlots
    <3>2. d \in onThread \cup isTerminated =>
            \E t \in Threads : drv[t] = d /\ pc[t] # "idle"
      BY ZenonT(30), <2>1 DEF HeldOK, TerminatedOK, Holds, Removing
    <3> QED
      BY Zenon, <2>1, <2>2, <3>1, <3>2 DEF QueuedOK
  <2>3. CASE d \in hasBlockingFuture
    BY Zenon, <2>1, <2>3 DEF FuturesOK, ReasonsOK
  <2>4. CASE d \in isSuspended
    BY Zenon, <2>1, <2>4 DEF HeldOK
  <2>5. CASE /\ pauseRequested
             /\ d \notin isEnqueued \cup hasBlockingFuture \cup isSuspended
    BY Zenon, <2>5 DEF ResumeCandidates
  <2>6. CASE ~pauseRequested /\ d \notin isEnqueued \cup hasBlockingFuture
    BY Zenon, <2>1, <2>6 DEF MindedOK, Minds, Holds
  <2> QED
    BY Zenon, <2>2, <2>3, <2>4, <2>5, <2>6
<1> QED
  BY <1>1, Invariance, LostInvariance, PTL
=============================================================================
