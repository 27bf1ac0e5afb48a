------------------------- MODULE TaskDriverThreads --------------------------
(***************************************************************************)
(* The parts of TaskDriver's inductive invariant that say where a thread   *)
(* can be and what its variables can hold, and the facts about the model's *)
(* operators that the proofs share.  One lemma per part, with one step per *)
(* action.                                                                 *)
(***************************************************************************)
EXTENDS TaskDriver, TLAPS

-----------------------------------------------------------------------------
(* The operators of the model *)

\* What each answer of Task::shouldStop says of the task's flags.
LEMMA ShouldStopCases ==
  ASSUME TypeOK
  PROVE  /\ ShouldStop \in {"kTerminate", "kPause", "kYield", "kNone"}
         /\ ShouldStop = "kTerminate" <=> terminateRequested
         /\ ShouldStop = "kPause" => pauseRequested
         /\ ShouldStop = "kYield" => ~pauseRequested /\ toYield > 0
         /\ ShouldStop = "kNone" => ~pauseRequested
         /\ ToYieldAfterStop \in Nat
  BY DEF ShouldStop, ToYieldAfterStop, TypeOK

\* Threads and clients are apart, so a client's step moves no thread.
LEMMA ProcsSplit ==
  /\ Threads \subseteq Procs
  /\ Clients \subseteq Procs
  /\ \A t \in Threads : t \notin Clients
  BY Zenon, ThreadsAssumption DEF Procs

\* What the proofs of single steps use about the sizes of sets: the sizes are
\* numbers, zero only for the empty set.  Sizes, in TaskDriverProofs, proves
\* it.
SizesKnown ==
  /\ Cardinality({}) = 0
  /\ \A S \in SUBSET Drivers : Cardinality(S) \in Nat
  /\ \A S \in SUBSET Threads : S # {} => Cardinality(S) \in Nat \ {0}

\* A counted thread keeps numThreads_ above zero.
LEMMA CountedPositive ==
  ASSUME SizesKnown, ThreadCount, NEW t \in Threads, Counted(t)
  PROVE  numThreads \in Nat \ {0}
<1>1. t \in {u \in Threads : Counted(u)}
  BY Zenon
<1>2. /\ {u \in Threads : Counted(u)} \in SUBSET Threads
      /\ {u \in Threads : Counted(u)} # {}
  BY Zenon, <1>1
<1> QED
  BY Zenon, <1>2 DEF ThreadCount, SizesKnown

\* Every step keeps the variables in their types.
LEMMA TypeStep ==
  ASSUME SizesKnown, IInv, Next
  PROVE  TypeOK'
<1> USE DEF taskVars, slotVars, flagVars, closeVars, execVars, procVars
<1>a. TypeOK /\ ReturnPoints /\ RunHasDriver /\ ThreadCount
  BY Zenon DEF IInv
<1> USE <1>a
<1>1. ASSUME NEW f \in {"kCanceled", "kAborted"}, RequestCancel(f)
      PROVE TypeOK'
  <2>1. "canceller" \in Procs
    BY Zenon, ProcsSplit DEF Clients
  <2>2. goal' \in [Procs -> TaskStates \ {"kRunning"}]
    BY Zenon, <1>1, <2>1 DEF RequestCancel, TypeOK, TaskStates
  <2>3. pc' \in [Procs -> PCs] /\ ret' \in [Procs -> PCs]
    BY Zenon, <1>1, <2>1 DEF RequestCancel, TypeOK, PCs
  <2> QED
    BY Zenon, <1>1, <2>2, <2>3 DEF RequestCancel, TypeOK
<1>2. ASSUME Start PROVE TypeOK'
  BY <1>2, ProcsSplit DEF Start, TypeOK
<1>3. ASSUME RequestPause PROVE TypeOK'
  BY Zenon, <1>3, ProcsSplit DEF RequestPause, TypeOK
<1>4. ASSUME Resume PROVE TypeOK'
  <2>1. failed' \subseteq Checks
    BY Zenon, <1>4 DEF Resume, TypeOK, Checks
  <2>2. isEnqueued' \subseteq Drivers
    BY Zenon, <1>4 DEF Resume, TypeOK, ResumeCandidates
  <2>3. queue' \in [Drivers -> Nat]
    BY <1>4 DEF Resume, TypeOK
  <2>4. pauseRequested' \in BOOLEAN
    BY Zenon, <1>4 DEF Resume, TypeOK
  <2> QED
    BY Zenon, <1>4, <2>1, <2>2, <2>3, <2>4 DEF Resume, TypeOK
<1>5. ASSUME RequestYield PROVE TypeOK'
  BY Zenon, <1>5, ProcsSplit DEF RequestYield, TypeOK
<1>6. ASSUME SetAllOutputConsumed PROVE TypeOK'
  BY ZenonT(30), <1>6, ProcsSplit
  DEF SetAllOutputConsumed, TypeOK, Clients, PCs, TaskStates
<1>7. ASSUME NEW d \in Drivers, Fulfil(d) PROVE TypeOK'
  BY <1>7, ProcsSplit
  DEF Fulfil, TypeOK, Callback, CallbackChecks, CallbackEnqueues,
      QueueAfterEnqueue, FailedAfterEnqueue, PCs, Checks, Clients
<1>8. ASSUME NEW p \in Procs, SetError(p) PROVE TypeOK'
  BY ZenonT(60), <1>8, ProcsSplit DEF SetError, TypeOK, PCs, TaskStates
<1>9. ASSUME NEW p \in Procs, TerminateAgain(p) PROVE TypeOK'
  BY ZenonT(30), <1>9, ProcsSplit
  DEF TerminateAgain, TypeOK, FinishFuture, PCs, TaskStates
<1>10. ASSUME NEW p \in Procs, Terminate(p) PROVE TypeOK'
  BY <1>10, ProcsSplit
  DEF Terminate, TypeOK, EnteredForTerminate, PCs, TaskStates, SizesKnown
<1>11. ASSUME NEW p \in Procs, CloseByTask(p) PROVE TypeOK'
  BY <1>11, ProcsSplit DEF CloseByTask, TypeOK
<1>12. ASSUME NEW p \in Procs, TerminateDone(p) PROVE TypeOK'
  BY ZenonT(30), <1>12, ProcsSplit
  DEF TerminateDone, TypeOK, FinishFuture, PCs, TaskStates
<1>13. ASSUME NEW t \in Threads, NEW d \in Drivers, EnterClosed(t, d)
      PROVE TypeOK'
  BY <1>13, ProcsSplit
  DEF EnterClosed, TypeOK, Dequeue, EndClosure, PCs, StopReasons, NoDriver
<1>14. ASSUME NEW t \in Threads, NEW d \in Drivers, EnterRefused(t, d)
      PROVE TypeOK'
  BY <1>14, ProcsSplit DEF EnterRefused, TypeOK, Dequeue, Checks
<1>15. ASSUME NEW t \in Threads, NEW d \in Drivers, Enter(t, d) PROVE TypeOK'
  BY <1>15, ProcsSplit, ShouldStopCases
  DEF Enter, TypeOK, Dequeue, PCs, StopReasons
<1>16. ASSUME NEW t \in Threads, Block(t) PROVE TypeOK'
  BY Zenon, <1>16, ProcsSplit, <1>a
  DEF Block, TypeOK, PCs, StopReasons, InRun, RunHasDriver
<1>17. ASSUME NEW t \in Threads, AtEnd(t) PROVE TypeOK'
  BY Zenon, <1>17, ProcsSplit DEF AtEnd, TypeOK, PCs, StopReasons
<1>18. ASSUME NEW t \in Threads, Throw(t) PROVE TypeOK'
  BY Zenon, <1>18, ProcsSplit
  DEF Throw, TypeOK, ToHandler, PCs, StopReasons
<1>19. ASSUME NEW t \in Threads, EnterSuspended(t) PROVE TypeOK'
  <2>1. Counted(t) /\ drv[t] \in Drivers
    BY Zenon, <1>19 DEF EnterSuspended, Counted, Holds, RunHasDriver, InRun
  <2>2. numThreads - 1 \in Nat
    BY <2>1, CountedPositive
  <2> QED
    BY Zenon, <1>19, <2>1, <2>2, ProcsSplit
    DEF EnterSuspended, TypeOK, PromisesAfterLeave, PCs
<1>20. ASSUME NEW t \in Threads, EnterSuspendedThrows(t) PROVE TypeOK'
  <2>1. drv[t] \in Drivers
    BY Zenon, <1>20 DEF EnterSuspendedThrows, RunHasDriver, InRun
  <2>2. toYield' \in Nat /\ isTerminated' \subseteq Drivers
    BY Zenon, <1>20, <2>1, ShouldStopCases DEF EnterSuspendedThrows, TypeOK
  <2>3. failed' \subseteq Checks
    BY Zenon, <1>20 DEF EnterSuspendedThrows, TypeOK, Checks
  <2>4. /\ pc' \in [Procs -> PCs] /\ ret' \in [Procs -> PCs]
        /\ reason' \in [Threads -> StopReasons]
    BY Zenon, <1>20, ProcsSplit
    DEF EnterSuspendedThrows, TypeOK, ToHandler, PCs, StopReasons
  <2> QED
    BY Zenon, <1>20, <2>2, <2>3, <2>4 DEF EnterSuspendedThrows, TypeOK
<1>21. ASSUME NEW t \in Threads, Stop(t) PROVE TypeOK'
  BY ZenonT(30), <1>21, ProcsSplit, ShouldStopCases DEF Stop, TypeOK, PCs, StopReasons
<1>22. ASSUME NEW t \in Threads, LeaveSuspended(t) PROVE TypeOK'
  BY SMTT(60), <1>22, ProcsSplit, <1>a
  DEF LeaveSuspended, TypeOK, ToHandler, PCs, StopReasons, InRun, RunHasDriver
<1>23. ASSUME NEW t \in Threads, Unwind(t) PROVE TypeOK'
  BY Zenon, <1>23, ProcsSplit, <1>a
  DEF Unwind, TypeOK, PCs, InRun, RunHasDriver
<1>24. ASSUME NEW t \in Threads, Close(t) PROVE TypeOK'
  BY SMTT(60), <1>24, ProcsSplit, <1>a
  DEF Close, TypeOK, PCs, TaskStates, InRun, RunHasDriver
<1>25. ASSUME NEW t \in Threads, RemoveDriver(t) PROVE TypeOK'
  BY <1>25, ProcsSplit, <1>a
  DEF RemoveDriver, TypeOK, PCs, TaskStates, RunningAfterClosed, InRun,
      RunHasDriver
<1>26. ASSUME NEW t \in Threads, Leave(t) PROVE TypeOK'
  <2>1. Counted(t) /\ drv[t] \in Drivers
    BY Zenon, <1>26 DEF Leave, Counted, Holds, RunHasDriver, InRun
  <2>2. numThreads - 1 \in Nat
    BY <2>1, CountedPositive
  <2>3. toYield' \in Nat
    BY Zenon, <1>26, ShouldStopCases DEF Leave, TypeOK
  <2>4. pc' \in [Procs -> PCs] /\ ret' \in [Procs -> PCs]
    BY Zenon, <1>26, ProcsSplit DEF Leave, TypeOK, PCs
  <2> QED
    BY Zenon, <1>26, <2>1, <2>2, <2>3, <2>4
    DEF Leave, TypeOK, PromisesAfterLeave
<1>27. ASSUME NEW t \in Threads, RanBlocked(t) PROVE TypeOK'
  BY SMTT(60), <1>27, ProcsSplit, ShouldStopCases, <1>a
  DEF RanBlocked, TypeOK, EndClosure, PCs, StopReasons, NoDriver, InRun,
      RunHasDriver
<1>28. ASSUME NEW t \in Threads, RanYielded(t) PROVE TypeOK'
  BY <1>28, ProcsSplit, <1>a
  DEF RanYielded, TypeOK, EndClosure, PCs, StopReasons, NoDriver,
      QueueAfterEnqueue, FailedAfterEnqueue, Checks, InRun, RunHasDriver
<1>29. ASSUME NEW t \in Threads, RanOther(t) PROVE TypeOK'
  BY Zenon, <1>29, ProcsSplit
  DEF RanOther, TypeOK, EndClosure, PCs, StopReasons, NoDriver
<1>30. ASSUME NEW t \in Threads, SetResume(t) PROVE TypeOK'
  <2>1. drv[t] \in Drivers
    BY Zenon, <1>30 DEF SetResume, RunHasDriver, InRun
  <2>2. armed' \in [Drivers -> Nat]
    BY <1>30, <2>1 DEF SetResume, TypeOK
  <2>3. queue' \in [Drivers -> Nat]
    BY <1>30, <2>1
    DEF SetResume, TypeOK, Callback, QueueAfterEnqueue
  <2>4. /\ hasBlockingFuture' \subseteq Drivers
        /\ isEnqueued' \subseteq Drivers
    BY Zenon, <1>30, <2>1 DEF SetResume, TypeOK, Callback
  <2>5. failed' \subseteq Checks
    BY Zenon, <1>30
    DEF SetResume, TypeOK, Callback, FailedAfterEnqueue, Checks
  <2>6. /\ pc' \in [Procs -> PCs] /\ ret' \in [Procs -> PCs]
        /\ drv' \in [Threads -> Drivers \cup {NoDriver}]
        /\ reason' \in [Threads -> StopReasons]
        /\ realized' \subseteq Threads
    BY Zenon, <1>30, ProcsSplit
    DEF SetResume, EndClosure, TypeOK, PCs, StopReasons
  <2> QED
    BY Zenon, <1>30, <2>2, <2>3, <2>4, <2>5, <2>6 DEF SetResume, TypeOK
<1>31. ASSUME NEW t \in Threads, FulfilEarly(t) PROVE TypeOK'
  BY Zenon, <1>31, ProcsSplit DEF FulfilEarly, TypeOK
<1>32. ASSUME NEW t \in Threads, NEW d \in Drivers, EnterUnqueued(t, d)
       PROVE TypeOK'
  BY SMTT(60), <1>32, ProcsSplit
  DEF EnterUnqueued, TypeOK, Dequeue, Checks
<1>33. ASSUME NEW t \in Threads, Requeue(t) PROVE TypeOK'
  BY SMTT(60), <1>33, ProcsSplit, <1>a
  DEF Requeue, TypeOK, EndClosure, PCs, StopReasons, NoDriver,
      QueueAfterEnqueue, FailedAfterEnqueue, Checks, InRun, RunHasDriver
<1> QED
  BY Zenon, <1>1, <1>2, <1>3, <1>4, <1>5, <1>6, <1>7, <1>8, <1>9, <1>10, <1>11,
      <1>12, <1>13, <1>14, <1>15, <1>16, <1>17, <1>18, <1>19, <1>20, <1>21,
      <1>22, <1>23, <1>24, <1>25, <1>26, <1>27, <1>28, <1>29, <1>30, <1>31,
      <1>32, <1>33
  DEF Next, ClientStep, TerminateStep, EnterStep, OperatorStep, ThreadStep

\* Every step leaves the return points in order.
LEMMA ReturnStep ==
  ASSUME IInv, Next
  PROVE  ReturnPoints'
<1> USE DEF taskVars, slotVars, flagVars, closeVars, execVars, procVars
<1>a. /\ pc \in [Procs -> PCs] /\ ret \in [Procs -> PCs]
      /\ ReturnPoints
  BY Zenon DEF IInv, TypeOK
<1>1. ASSUME NEW f \in {"kCanceled", "kAborted"}, RequestCancel(f)
      PROVE ReturnPoints'
  BY Zenon, <1>1, <1>a, ProcsSplit DEF RequestCancel, ReturnPoints, Clients
<1>2. ASSUME Start PROVE ReturnPoints'
  BY Zenon, <1>2, <1>a, ProcsSplit DEF Start, ReturnPoints
<1>3. ASSUME RequestPause PROVE ReturnPoints'
  BY Zenon, <1>3, <1>a, ProcsSplit DEF RequestPause, ReturnPoints
<1>4. ASSUME Resume PROVE ReturnPoints'
  BY Zenon, <1>4, <1>a, ProcsSplit DEF Resume, ReturnPoints
<1>5. ASSUME RequestYield PROVE ReturnPoints'
  BY Zenon, <1>5, <1>a, ProcsSplit DEF RequestYield, ReturnPoints
<1>6. ASSUME SetAllOutputConsumed PROVE ReturnPoints'
  <2>1. \/ /\ pc' = [pc EXCEPT !["consumer"] = "terminate"]
           /\ ret' = [ret EXCEPT !["consumer"] = "idle"]
        \/ UNCHANGED <<pc, ret>>
    BY Zenon, <1>6 DEF SetAllOutputConsumed
  <2> QED
    BY Zenon, <1>a, <2>1, ProcsSplit DEF ReturnPoints, Clients
<1>7. ASSUME NEW d \in Drivers, Fulfil(d) PROVE ReturnPoints'
  BY ZenonT(30), <1>7, <1>a, ProcsSplit DEF Fulfil, ReturnPoints, Clients
<1>8. ASSUME NEW p \in Procs, SetError(p) PROVE ReturnPoints'
  BY Zenon, <1>8, <1>a, ProcsSplit DEF SetError, ReturnPoints
<1>9. ASSUME NEW p \in Procs, TerminateAgain(p) PROVE ReturnPoints'
  BY Zenon, <1>9, <1>a, ProcsSplit DEF TerminateAgain, ReturnPoints
<1>10. ASSUME NEW p \in Procs, Terminate(p) PROVE ReturnPoints'
  BY Zenon, <1>10, <1>a, ProcsSplit DEF Terminate, ReturnPoints
<1>11. ASSUME NEW p \in Procs, CloseByTask(p) PROVE ReturnPoints'
  BY Zenon, <1>11, <1>a, ProcsSplit DEF CloseByTask, ReturnPoints
<1>12. ASSUME NEW p \in Procs, TerminateDone(p) PROVE ReturnPoints'
  BY Zenon, <1>12, <1>a, ProcsSplit DEF TerminateDone, ReturnPoints
<1>13. ASSUME NEW t \in Threads, NEW d \in Drivers, EnterClosed(t, d)
      PROVE ReturnPoints'
  BY Zenon, <1>13, <1>a, ProcsSplit
  DEF EnterClosed, ReturnPoints, EndClosure, Dequeue
<1>14. ASSUME NEW t \in Threads, NEW d \in Drivers, EnterRefused(t, d)
      PROVE ReturnPoints'
  BY Zenon, <1>14, <1>a, ProcsSplit
  DEF EnterRefused, ReturnPoints, Dequeue
<1>15. ASSUME NEW t \in Threads, NEW d \in Drivers, Enter(t, d)
      PROVE ReturnPoints'
  BY ZenonT(30), <1>15, <1>a, ProcsSplit DEF Enter, ReturnPoints, Dequeue
<1>16. ASSUME NEW t \in Threads, Block(t) PROVE ReturnPoints'
  BY Zenon, <1>16, <1>a, ProcsSplit DEF Block, ReturnPoints
<1>17. ASSUME NEW t \in Threads, AtEnd(t) PROVE ReturnPoints'
  BY Zenon, <1>17, <1>a, ProcsSplit DEF AtEnd, ReturnPoints
<1>18. ASSUME NEW t \in Threads, Throw(t) PROVE ReturnPoints'
  BY Zenon, <1>18, <1>a, ProcsSplit DEF Throw, ReturnPoints, ToHandler
<1>19. ASSUME NEW t \in Threads, EnterSuspended(t) PROVE ReturnPoints'
  BY Zenon, <1>19, <1>a, ProcsSplit DEF EnterSuspended, ReturnPoints
<1>20. ASSUME NEW t \in Threads, EnterSuspendedThrows(t) PROVE ReturnPoints'
  BY Zenon, <1>20, <1>a, ProcsSplit
  DEF EnterSuspendedThrows, ReturnPoints, ToHandler
<1>21. ASSUME NEW t \in Threads, Stop(t) PROVE ReturnPoints'
  BY Zenon, <1>21, <1>a, ProcsSplit DEF Stop, ReturnPoints
<1>22. ASSUME NEW t \in Threads, LeaveSuspended(t) PROVE ReturnPoints'
  BY ZenonT(30), <1>22, <1>a, ProcsSplit
  DEF LeaveSuspended, ReturnPoints, ToHandler
<1>23. ASSUME NEW t \in Threads, Unwind(t) PROVE ReturnPoints'
  BY Zenon, <1>23, <1>a, ProcsSplit DEF Unwind, ReturnPoints
<1>24. ASSUME NEW t \in Threads, Close(t) PROVE ReturnPoints'
  BY Zenon, <1>24, <1>a, ProcsSplit DEF Close, ReturnPoints
<1>25. ASSUME NEW t \in Threads, RemoveDriver(t) PROVE ReturnPoints'
  BY Zenon, <1>25, <1>a, ProcsSplit
  DEF RemoveDriver, ReturnPoints
<1>26. ASSUME NEW t \in Threads, Leave(t) PROVE ReturnPoints'
  BY ZenonT(30), <1>26, <1>a, ProcsSplit DEF Leave, ReturnPoints
<1>27. ASSUME NEW t \in Threads, RanBlocked(t) PROVE ReturnPoints'
  BY ZenonT(30), <1>27, <1>a, ProcsSplit
  DEF RanBlocked, ReturnPoints, EndClosure
<1>28. ASSUME NEW t \in Threads, RanYielded(t) PROVE ReturnPoints'
  BY ZenonT(30), <1>28, <1>a, ProcsSplit
  DEF RanYielded, ReturnPoints, EndClosure
<1>29. ASSUME NEW t \in Threads, RanOther(t) PROVE ReturnPoints'
  BY Zenon, <1>29, <1>a, ProcsSplit
  DEF RanOther, ReturnPoints, EndClosure
<1>30. ASSUME NEW t \in Threads, SetResume(t) PROVE ReturnPoints'
  BY Zenon, <1>30, <1>a, ProcsSplit DEF SetResume, ReturnPoints, EndClosure
<1>31. ASSUME NEW t \in Threads, FulfilEarly(t) PROVE ReturnPoints'
  BY Zenon, <1>31, <1>a, ProcsSplit DEF FulfilEarly, ReturnPoints
<1>32. ASSUME NEW t \in Threads, NEW d \in Drivers, EnterUnqueued(t, d)
       PROVE ReturnPoints'
  BY Zenon, <1>32, <1>a, ProcsSplit
  DEF EnterUnqueued, ReturnPoints, Dequeue
<1>33. ASSUME NEW t \in Threads, Requeue(t) PROVE ReturnPoints'
  BY Zenon, <1>33, <1>a, ProcsSplit DEF Requeue, ReturnPoints, EndClosure
<1> QED
  BY Zenon, <1>1, <1>2, <1>3, <1>4, <1>5, <1>6, <1>7, <1>8,
     <1>9, <1>10,
      <1>11,
      <1>12, <1>13, <1>14, <1>15, <1>16, <1>17, <1>18, <1>19, <1>20, <1>21,
      <1>22, <1>23, <1>24, <1>25, <1>26, <1>27, <1>28, <1>29, <1>30, <1>31,
      <1>32, <1>33
  DEF Next, ClientStep, TerminateStep, EnterStep, OperatorStep, ThreadStep


-----------------------------------------------------------------------------
(* A thread and its driver *)

\* A thread gets its driver when it dequeues a closure.
LEMMA RunStep ==
  ASSUME SizesKnown, IInv, Next
  PROVE  RunHasDriver'
<1> USE DEF taskVars, slotVars, flagVars, closeVars, execVars, procVars
<1>a. /\ pc \in [Procs -> PCs] /\ ret \in [Procs -> PCs]
      /\ drv \in [Threads -> Drivers \cup {NoDriver}]
      /\ ReturnPoints /\ RunHasDriver /\ Ownership
  BY Zenon DEF IInv, TypeOK
<1>1. ASSUME NEW f \in {"kCanceled", "kAborted"}, RequestCancel(f)
      PROVE RunHasDriver'
  BY Zenon, <1>1, <1>a, ProcsSplit
  DEF RequestCancel, RunHasDriver, InRun, ReturnPoints, Clients
<1>2. ASSUME Start PROVE RunHasDriver'
  BY Zenon, <1>2, <1>a, ProcsSplit
  DEF Start, RunHasDriver, InRun, ReturnPoints
<1>3. ASSUME RequestPause PROVE RunHasDriver'
  BY Zenon, <1>3, <1>a, ProcsSplit
  DEF RequestPause, RunHasDriver, InRun, ReturnPoints
<1>4. ASSUME Resume PROVE RunHasDriver'
  BY ZenonT(30), <1>4, <1>a, ProcsSplit
  DEF Resume, RunHasDriver, InRun, ReturnPoints, ResumeCandidates
<1>5. ASSUME RequestYield PROVE RunHasDriver'
  BY Zenon, <1>5, <1>a, ProcsSplit
  DEF RequestYield, RunHasDriver, InRun, ReturnPoints
<1>6. ASSUME SetAllOutputConsumed PROVE RunHasDriver'
  <2>1. /\ started
        /\ \A t \in Threads : pc'[t] = pc[t] /\ ret'[t] = ret[t]
    BY Zenon, <1>6, <1>a, ProcsSplit DEF SetAllOutputConsumed, Clients
  <2> QED
    BY Zenon, <1>6, <1>a, <2>1
    DEF SetAllOutputConsumed, RunHasDriver, InRun
<1>7. ASSUME NEW d \in Drivers, Fulfil(d) PROVE RunHasDriver'
  <2>1. started
    <3>1. armed[d] > 0
      BY Zenon, <1>7 DEF Fulfil
    <3>2. started \/ armed[d] = 0
      BY Zenon, <1>a DEF RunHasDriver
    <3> QED
      BY <3>1, <3>2
  <2>2. /\ started' = started /\ ret' = ret /\ drv' = drv
        /\ \A t \in Threads : pc'[t] = pc[t]
    BY Zenon, <1>7, <1>a, ProcsSplit DEF Fulfil, Clients
  <2> QED
    BY Zenon, <1>a, <2>1, <2>2 DEF RunHasDriver, InRun
<1>8. ASSUME NEW p \in Procs, SetError(p) PROVE RunHasDriver'
  BY ZenonT(30), <1>8, <1>a, ProcsSplit
  DEF SetError, RunHasDriver, InRun, ReturnPoints
<1>9. ASSUME NEW p \in Procs, TerminateAgain(p) PROVE RunHasDriver'
  BY Zenon, <1>9, <1>a, ProcsSplit
  DEF TerminateAgain, RunHasDriver, InRun, ReturnPoints
<1>10. ASSUME NEW p \in Procs, Terminate(p) PROVE RunHasDriver'
  <2>1. \A t \in Threads : InRun(t)' => drv'[t] \in Drivers
    BY Zenon, <1>10, <1>a, ProcsSplit
    DEF Terminate, RunHasDriver, InRun, ReturnPoints
  <2>2. ASSUME ~started
        PROVE  /\ \A t \in Threads : pc'[t] = "idle"
               /\ EnteredForTerminate = {}
    BY Zenon, <1>10, <1>a, <2>2, ProcsSplit
    DEF Terminate, RunHasDriver, EnteredForTerminate
  <2>3. ASSUME ~started
        PROVE  /\ drivers' = {} /\ closed' = {} /\ onThread' = {}
               /\ numFinishedDrivers' = 0 /\ numRunningDrivers' = 0
               /\ \A d \in Drivers : queue'[d] = 0 /\ armed'[d] = 0
    <3>1. EnteredForTerminate = {}
      BY Zenon, <2>2, <2>3
    <3>2. Cardinality(EnteredForTerminate) = 0
      BY Zenon, <3>1 DEF SizesKnown
    <3> QED
      BY SMTT(30), <1>10, <1>a, <2>3, <3>1, <3>2 DEF Terminate, RunHasDriver
  <2>4. started' = started
    BY Zenon, <1>10 DEF Terminate
  <2> QED
    BY Zenon, <2>1, <2>2, <2>3, <2>4 DEF RunHasDriver
<1>11. ASSUME NEW p \in Procs, CloseByTask(p) PROVE RunHasDriver'
  <2>1. offThreadDrivers # {} => started
    BY Zenon, <1>a DEF RunHasDriver, Ownership
  <2> QED
    BY Zenon, <1>11, <1>a, <2>1 DEF CloseByTask, RunHasDriver, InRun
<1>12. ASSUME NEW p \in Procs, TerminateDone(p) PROVE RunHasDriver'
  BY Zenon, <1>12, <1>a, ProcsSplit
  DEF TerminateDone, RunHasDriver, InRun, ReturnPoints
<1>13. ASSUME NEW t \in Threads, NEW d \in Drivers, EnterClosed(t, d)
      PROVE RunHasDriver'
  BY Zenon, <1>13, <1>a, ProcsSplit
  DEF EnterClosed, RunHasDriver, InRun, ReturnPoints, EndClosure,
      Dequeue
<1>14. ASSUME NEW t \in Threads, NEW d \in Drivers, EnterRefused(t, d)
      PROVE RunHasDriver'
  BY <1>14, <1>a, ProcsSplit
  DEF EnterRefused, RunHasDriver, InRun, ReturnPoints, Dequeue
<1>15. ASSUME NEW t \in Threads, NEW d \in Drivers, Enter(t, d)
      PROVE RunHasDriver'
  BY <1>15, <1>a, ProcsSplit
  DEF Enter, RunHasDriver, InRun, ReturnPoints, Dequeue
<1>16. ASSUME NEW t \in Threads, Block(t) PROVE RunHasDriver'
  BY Zenon, <1>16, <1>a, ProcsSplit
  DEF Block, RunHasDriver, InRun, ReturnPoints
<1>17. ASSUME NEW t \in Threads, AtEnd(t) PROVE RunHasDriver'
  BY Zenon, <1>17, <1>a, ProcsSplit
  DEF AtEnd, RunHasDriver, InRun, ReturnPoints
<1>18. ASSUME NEW t \in Threads, Throw(t) PROVE RunHasDriver'
  BY Zenon, <1>18, <1>a, ProcsSplit
  DEF Throw, RunHasDriver, InRun, ReturnPoints, ToHandler
<1>19. ASSUME NEW t \in Threads, EnterSuspended(t) PROVE RunHasDriver'
  BY Zenon, <1>19, <1>a, ProcsSplit
  DEF EnterSuspended, RunHasDriver, InRun, ReturnPoints
<1>20. ASSUME NEW t \in Threads, EnterSuspendedThrows(t) PROVE RunHasDriver'
  BY Zenon, <1>20, <1>a, ProcsSplit
  DEF EnterSuspendedThrows, RunHasDriver, InRun, ReturnPoints,
      ToHandler
<1>21. ASSUME NEW t \in Threads, Stop(t) PROVE RunHasDriver'
  BY Zenon, <1>21, <1>a, ProcsSplit
  DEF Stop, RunHasDriver, InRun, ReturnPoints
<1>22. ASSUME NEW t \in Threads, LeaveSuspended(t) PROVE RunHasDriver'
  BY Zenon, <1>22, <1>a, ProcsSplit
  DEF LeaveSuspended, RunHasDriver, InRun, ReturnPoints, ToHandler
<1>23. ASSUME NEW t \in Threads, Unwind(t) PROVE RunHasDriver'
  BY Zenon, <1>23, <1>a, ProcsSplit
  DEF Unwind, RunHasDriver, InRun, ReturnPoints
<1>24. ASSUME NEW t \in Threads, Close(t) PROVE RunHasDriver'
  BY Zenon, <1>24, <1>a, ProcsSplit
  DEF Close, RunHasDriver, InRun, ReturnPoints
<1>25. ASSUME NEW t \in Threads, RemoveDriver(t) PROVE RunHasDriver'
  BY Zenon, <1>25, <1>a, ProcsSplit
  DEF RemoveDriver, RunHasDriver, InRun, ReturnPoints
<1>26. ASSUME NEW t \in Threads, Leave(t) PROVE RunHasDriver'
  BY Zenon, <1>26, <1>a, ProcsSplit
  DEF Leave, RunHasDriver, InRun, ReturnPoints
<1>27. ASSUME NEW t \in Threads, RanBlocked(t) PROVE RunHasDriver'
  BY ZenonT(30), <1>27, <1>a, ProcsSplit
  DEF RanBlocked, RunHasDriver, InRun, ReturnPoints, EndClosure
<1>28. ASSUME NEW t \in Threads, RanYielded(t) PROVE RunHasDriver'
  BY ZenonT(30), <1>28, <1>a, ProcsSplit
  DEF RanYielded, RunHasDriver, InRun, ReturnPoints, EndClosure
<1>29. ASSUME NEW t \in Threads, RanOther(t) PROVE RunHasDriver'
  BY Zenon, <1>29, <1>a, ProcsSplit
  DEF RanOther, RunHasDriver, InRun, ReturnPoints, EndClosure
<1>30. ASSUME NEW t \in Threads, SetResume(t) PROVE RunHasDriver'
  BY Zenon, <1>30, <1>a, ProcsSplit
  DEF SetResume, RunHasDriver, InRun, ReturnPoints, EndClosure
<1>31. ASSUME NEW t \in Threads, FulfilEarly(t) PROVE RunHasDriver'
  BY Zenon, <1>31, <1>a, ProcsSplit
  DEF FulfilEarly, RunHasDriver, InRun, ReturnPoints
<1>32. ASSUME NEW t \in Threads, NEW d \in Drivers, EnterUnqueued(t, d)
       PROVE RunHasDriver'
  <2>1. started
    <3>1. queue[d] > 0
      BY Zenon, <1>32 DEF EnterUnqueued, Dequeue
    <3>2. started \/ queue[d] = 0
      BY Zenon, <1>a DEF RunHasDriver
    <3> QED
      BY <3>1, <3>2
  <2>2. started' = started /\ pc' = pc /\ ret' = ret /\ drv' = drv
    BY Zenon, <1>32 DEF EnterUnqueued
  <2> QED
    BY Zenon, <1>a, <2>1, <2>2 DEF RunHasDriver, InRun
<1>33. ASSUME NEW t \in Threads, Requeue(t) PROVE RunHasDriver'
  BY Zenon, <1>33, <1>a, ProcsSplit
  DEF Requeue, RunHasDriver, InRun, ReturnPoints, EndClosure
<1> QED
  BY Zenon, <1>1, <1>2, <1>3, <1>4, <1>5, <1>6, <1>7, <1>8, <1>9, <1>10,
      <1>11,
      <1>12, <1>13, <1>14, <1>15, <1>16, <1>17, <1>18, <1>19, <1>20, <1>21,
      <1>22, <1>23, <1>24, <1>25, <1>26, <1>27, <1>28, <1>29, <1>30, <1>31,
      <1>32, <1>33
  DEF Next, ClientStep, TerminateStep, EnterStep, OperatorStep, ThreadStep

-----------------------------------------------------------------------------
(* What a step does to the threads that have a driver *)

\* The same threads have the same drivers and are counted as before.
ThreadsKept ==
  /\ numThreads' = numThreads
  /\ \A u \in Threads :
       /\ Holds(u)' <=> Holds(u)
       /\ Closing(u)' => Closing(u)
       /\ (pc'[u] = "suspended") <=> (pc[u] = "suspended")
       /\ Holds(u) \/ Closing(u)' => drv'[u] = drv[u]

\* A step of thread t leaves the others where they are.
OthersKept(t) ==
  \A u \in Threads \ {t} :
    pc'[u] = pc[u] /\ ret'[u] = ret[u] /\ drv'[u] = drv[u]

\* The actions by which a thread goes into the task or out of it.
GoesInOrOut(t) ==
  \/ \E d \in Drivers : Enter(t, d)
  \/ EnterSuspended(t) \/ LeaveSuspended(t) \/ Leave(t)

\* Every other action keeps the threads.
LEMMA KeptStep ==
  ASSUME IInv, Next, \A t \in Threads : ~GoesInOrOut(t)
  PROVE  ThreadsKept
<1> USE DEF taskVars, slotVars, flagVars, closeVars, execVars, procVars
<1>a. /\ pc \in [Procs -> PCs] /\ ret \in [Procs -> PCs]
      /\ drv \in [Threads -> Drivers \cup {NoDriver}]
  BY Zenon DEF IInv, TypeOK
<1>b. ReturnPoints
  BY Zenon DEF IInv
<1>1. ASSUME NEW f \in {"kCanceled", "kAborted"}, RequestCancel(f)
      PROVE ThreadsKept
  BY Zenon, <1>1, <1>a, ProcsSplit
  DEF RequestCancel, ThreadsKept, Holds, Closing, Clients
<1>2. ASSUME SetAllOutputConsumed PROVE ThreadsKept
  <2>1. \A t \in Threads : pc'[t] = pc[t] /\ ret'[t] = ret[t]
    BY Zenon, <1>2, <1>a, ProcsSplit DEF SetAllOutputConsumed, Clients
  <2> QED
    BY Zenon, <1>2, <2>1 DEF SetAllOutputConsumed, ThreadsKept, Holds, Closing
<1>3. ASSUME Start PROVE ThreadsKept
  BY Zenon, <1>3, <1>a, ProcsSplit DEF Start, ThreadsKept, Holds, Closing
<1>4. ASSUME RequestPause PROVE ThreadsKept
  BY Zenon, <1>4, <1>a, ProcsSplit DEF RequestPause, ThreadsKept, Holds, Closing
<1>5. ASSUME Resume PROVE ThreadsKept
  BY Zenon, <1>5, <1>a, ProcsSplit DEF Resume, ThreadsKept, Holds, Closing
<1>6. ASSUME RequestYield PROVE ThreadsKept
  BY Zenon, <1>6, <1>a, ProcsSplit DEF RequestYield, ThreadsKept, Holds, Closing
<1>7. ASSUME NEW d \in Drivers, Fulfil(d) PROVE ThreadsKept
  BY Zenon, <1>7, <1>a, ProcsSplit DEF Fulfil, ThreadsKept, Holds, Closing, Clients
<1>8. ASSUME NEW p \in Procs, SetError(p) PROVE ThreadsKept
  BY ZenonT(30), <1>8, <1>a, ProcsSplit, <1>b
  DEF SetError, ThreadsKept, Holds, Closing, ReturnPoints
<1>9. ASSUME NEW p \in Procs, TerminateAgain(p) PROVE ThreadsKept
  BY Zenon, <1>9, <1>a, ProcsSplit, <1>b
  DEF TerminateAgain, ThreadsKept, Holds, Closing, ReturnPoints
<1>10. ASSUME NEW p \in Procs, Terminate(p) PROVE ThreadsKept
  BY Zenon, <1>10, <1>a, ProcsSplit, <1>b
  DEF Terminate, ThreadsKept, Holds, Closing, ReturnPoints
<1>11. ASSUME NEW p \in Procs, CloseByTask(p) PROVE ThreadsKept
  BY Zenon, <1>11, <1>a, ProcsSplit, <1>b
  DEF CloseByTask, ThreadsKept, Holds, Closing, ReturnPoints
<1>12. ASSUME NEW p \in Procs, TerminateDone(p) PROVE ThreadsKept
  BY Zenon, <1>12, <1>a, ProcsSplit, <1>b
  DEF TerminateDone, ThreadsKept, Holds, Closing, ReturnPoints
<1>13. ASSUME NEW t \in Threads, NEW d \in Drivers, EnterClosed(t, d)
      PROVE ThreadsKept
  BY Zenon, <1>13, <1>a, ProcsSplit
  DEF EnterClosed, ThreadsKept, Holds, Closing, EndClosure, Dequeue
<1>14. ASSUME NEW t \in Threads, NEW d \in Drivers, EnterUnqueued(t, d)
      PROVE ThreadsKept
  BY Zenon, <1>14, <1>a, ProcsSplit
  DEF EnterUnqueued, ThreadsKept, Holds, Closing, Dequeue
<1>15. ASSUME NEW t \in Threads, NEW d \in Drivers, EnterRefused(t, d)
      PROVE ThreadsKept
  BY Zenon, <1>15, <1>a, ProcsSplit
  DEF EnterRefused, ThreadsKept, Holds, Closing, Dequeue
<1>16. ASSUME NEW t \in Threads, Stop(t) PROVE ThreadsKept
  BY Zenon, <1>16, <1>a, ProcsSplit DEF Stop, ThreadsKept, Holds, Closing
<1>17. ASSUME NEW t \in Threads, Block(t) PROVE ThreadsKept
  BY Zenon, <1>17, <1>a, ProcsSplit DEF Block, ThreadsKept, Holds, Closing
<1>18. ASSUME NEW t \in Threads, FulfilEarly(t) PROVE ThreadsKept
  BY Zenon, <1>18, <1>a, ProcsSplit
  DEF FulfilEarly, ThreadsKept, Holds, Closing
<1>19. ASSUME NEW t \in Threads, AtEnd(t) PROVE ThreadsKept
  BY Zenon, <1>19, <1>a, ProcsSplit DEF AtEnd, ThreadsKept, Holds, Closing
<1>20. ASSUME NEW t \in Threads, Throw(t) PROVE ThreadsKept
  BY Zenon, <1>20, <1>a, ProcsSplit
  DEF Throw, ThreadsKept, Holds, Closing, ToHandler
<1>21. ASSUME NEW t \in Threads, EnterSuspendedThrows(t) PROVE ThreadsKept
  BY Zenon, <1>21, <1>a, ProcsSplit
  DEF EnterSuspendedThrows, ThreadsKept, Holds, Closing, ToHandler
<1>22. ASSUME NEW t \in Threads, Unwind(t) PROVE ThreadsKept
  BY Zenon, <1>22, <1>a, ProcsSplit DEF Unwind, ThreadsKept, Holds, Closing
<1>23. ASSUME NEW t \in Threads, Close(t) PROVE ThreadsKept
  BY ZenonT(30), <1>23, <1>a, ProcsSplit, <1>b
  DEF Close, ThreadsKept, Holds, Closing, ReturnPoints
<1>24. ASSUME NEW t \in Threads, RemoveDriver(t) PROVE ThreadsKept
  BY ZenonT(30), <1>24, <1>a, ProcsSplit, <1>b
  DEF RemoveDriver, ThreadsKept, Holds, Closing, ReturnPoints
<1>25. ASSUME NEW t \in Threads, RanBlocked(t) PROVE ThreadsKept
  BY ZenonT(30), <1>25, <1>a, ProcsSplit
  DEF RanBlocked, ThreadsKept, Holds, Closing, EndClosure
<1>26. ASSUME NEW t \in Threads, RanYielded(t) PROVE ThreadsKept
  BY ZenonT(30), <1>26, <1>a, ProcsSplit
  DEF RanYielded, ThreadsKept, Holds, Closing, EndClosure
<1>27. ASSUME NEW t \in Threads, Requeue(t) PROVE ThreadsKept
  BY Zenon, <1>27, <1>a, ProcsSplit
  DEF Requeue, ThreadsKept, Holds, Closing, EndClosure
<1>28. ASSUME NEW t \in Threads, RanOther(t) PROVE ThreadsKept
  BY Zenon, <1>28, <1>a, ProcsSplit
  DEF RanOther, ThreadsKept, Holds, Closing, EndClosure
<1>29. ASSUME NEW t \in Threads, SetResume(t) PROVE ThreadsKept
  BY Zenon, <1>29, <1>a, ProcsSplit, <1>b
  DEF SetResume, ThreadsKept, Holds, Closing, EndClosure, ReturnPoints
<1> QED
  BY Zenon, <1>1, <1>2, <1>3, <1>4, <1>5, <1>6, <1>7, <1>8,
     <1>9, <1>10,
      <1>11,
      <1>12, <1>13, <1>14, <1>15, <1>16, <1>17, <1>18, <1>19, <1>20, <1>21,
      <1>22, <1>23, <1>24, <1>25, <1>26, <1>27, <1>28, <1>29
  DEF Next, ClientStep, TerminateStep, EnterStep, OperatorStep, ThreadStep,
      GoesInOrOut

\* The four actions that are left concern one thread.
LEMMA InOrOutStep ==
  ASSUME IInv, NEW t \in Threads, GoesInOrOut(t)
  PROVE  OthersKept(t)
<1>a. /\ pc \in [Procs -> PCs] /\ ret \in [Procs -> PCs]
      /\ drv \in [Threads -> Drivers \cup {NoDriver}]
  BY Zenon DEF IInv, TypeOK
<1> QED
  BY Zenon, <1>a, ProcsSplit
  DEF GoesInOrOut, OthersKept, Enter, EnterSuspended, LeaveSuspended, Leave,
      ToHandler, procVars

-----------------------------------------------------------------------------
(* What the threads keep for NoLostDriver *)

\* While the task runs only Enter and Leave put a driver on or off a thread, and
\* drivers get slots at the start only.
LEMMA RunFrame ==
  ASSUME Next, ~terminateRequested', ~Start,
         \A t \in Threads : ~GoesInOrOut(t)
  PROVE  /\ drivers' \subseteq drivers
         /\ UNCHANGED <<started, onThread, isSuspended>>
<1> USE DEF taskVars, slotVars, flagVars, closeVars
<1> DEFINE Goal == /\ drivers' \subseteq drivers
                   /\ UNCHANGED <<started, onThread, isSuspended>>
<1>1. ASSUME ClientStep PROVE Goal
  BY Zenon, <1>1
  DEF ClientStep, RequestPause, Resume, RequestYield, RequestCancel,
      SetAllOutputConsumed, Fulfil
<1>2. ASSUME NEW p \in Procs, TerminateStep(p) PROVE Goal
  BY Zenon, <1>2
  DEF TerminateStep, SetError, TerminateAgain, Terminate, CloseByTask,
      TerminateDone
<1>3. ASSUME NEW t \in Threads, EnterStep(t) \/ OperatorStep(t) PROVE Goal
  BY Zenon, <1>3
  DEF EnterStep, EnterClosed, EnterUnqueued, EnterRefused, OperatorStep,
      Block, AtEnd, Throw, EnterSuspendedThrows, GoesInOrOut
<1>4. ASSUME NEW t \in Threads, ThreadStep(t) \/ FulfilEarly(t) PROVE Goal
  BY Zenon, <1>4
  DEF ThreadStep, Stop, Unwind, Close, RemoveDriver, RanBlocked, RanYielded,
      Requeue, RanOther, SetResume, FulfilEarly, GoesInOrOut
<1> QED
  BY Zenon, <1>1, <1>2, <1>3, <1>4 DEF Next

\* A task that is to terminate remains so.
LEMMA TerminationStays ==
  ASSUME Next, ~terminateRequested'
  PROVE  ~terminateRequested
<1> USE DEF taskVars
<1>1. ASSUME ClientStep PROVE ~terminateRequested
  BY Zenon, <1>1
  DEF ClientStep, Start, RequestPause, Resume, RequestYield, RequestCancel,
      SetAllOutputConsumed, Fulfil
<1>2. ASSUME NEW p \in Procs, TerminateStep(p) PROVE ~terminateRequested
  BY Zenon, <1>2
  DEF TerminateStep, SetError, TerminateAgain, Terminate, CloseByTask,
      TerminateDone
<1>3. ASSUME NEW t \in Threads, EnterStep(t) \/ OperatorStep(t)
      PROVE  ~terminateRequested
  BY Zenon, <1>3
  DEF EnterStep, EnterClosed, EnterUnqueued, EnterRefused, Enter,
      OperatorStep, Block, AtEnd, Throw, EnterSuspended, EnterSuspendedThrows
<1>4. ASSUME NEW t \in Threads, ThreadStep(t) \/ FulfilEarly(t)
      PROVE  ~terminateRequested
  BY Zenon, <1>4
  DEF ThreadStep, Stop, LeaveSuspended, Unwind, Close, RemoveDriver, Leave,
      RanBlocked, RanYielded, Requeue, RanOther, SetResume, FulfilEarly
<1> QED
  BY Zenon, <1>1, <1>2, <1>3, <1>4 DEF Next

\* ReasonsOK is preserved: a thread gets a reason to leave only while it runs,
\* and Task::terminate and Driver::close return it to where it came from with
\* the reason it had.
LEMMA ReasonsStep ==
  ASSUME SizesKnown, IInv, ReasonsOK, Next
  PROVE  ReasonsOK'
<1> USE DEF taskVars, slotVars, flagVars, closeVars, execVars, procVars
<1>a. /\ pc \in [Procs -> PCs] /\ ret \in [Procs -> PCs]
      /\ drv \in [Threads -> Drivers \cup {NoDriver}]
      /\ reason \in [Threads -> StopReasons]
  BY Zenon DEF IInv, TypeOK
<1>b. ReturnPoints
  BY Zenon DEF IInv
<1>c. ASSUME UNCHANGED <<reason, drv, terminateRequested>>,
             \A t \in Threads : pc'[t] = pc[t] /\ ret'[t] = ret[t],
             hasBlockingFuture' \subseteq hasBlockingFuture,
             pauseRequested => pauseRequested'
      PROVE  ReasonsOK'
  BY ZenonT(30), <1>c DEF ReasonsOK, ReturnsTo, Holds
<1>1. ASSUME NEW f \in {"kCanceled", "kAborted"}, RequestCancel(f)
      PROVE  ReasonsOK'
  BY <1>1, <1>a, <1>b, ProcsSplit
  DEF RequestCancel, Clients, ReasonsOK, ReturnsTo, Holds, ReturnPoints
<1>2. ASSUME Start PROVE ReasonsOK'
  BY Zenon, <1>2, <1>a, <1>b, ProcsSplit
  DEF Start, ReasonsOK, ReturnsTo, Holds, ReturnPoints
<1>3. ASSUME RequestPause PROVE ReasonsOK'
  BY Zenon, <1>3, <1>a, <1>b, ProcsSplit
  DEF RequestPause, ReasonsOK, ReturnsTo, Holds, ReturnPoints
<1>4. ASSUME Resume PROVE ReasonsOK'
  <2>1. ASSUME ~terminateRequested, NEW t \in Threads, pc[t] = "leave"
        PROVE  FALSE
    <3>1. Counted(t)
      BY Zenon, <2>1 DEF Counted, Holds
    <3>2. numThreads \in Nat \ {0}
      BY Zenon, <3>1, CountedPositive DEF IInv
    <3> QED
      BY Zenon, <1>4, <2>1, <3>2 DEF Resume, IInv, PauseState
  <2> QED
    BY Zenon, <1>4, <1>a, <2>1 DEF Resume, ReasonsOK, ReturnsTo, Holds
<1>5. ASSUME RequestYield PROVE ReasonsOK'
  BY ZenonT(30), <1>5, <1>a, <1>b, ProcsSplit
  DEF RequestYield, ReasonsOK, ReturnsTo, Holds, ReturnPoints
<1>6. ASSUME SetAllOutputConsumed PROVE ReasonsOK'
  <2>1. \A t \in Threads : pc'[t] = pc[t] /\ ret'[t] = ret[t]
    BY Zenon, <1>6, <1>a, ProcsSplit DEF SetAllOutputConsumed, Clients
  <2> QED
    BY Zenon, <1>6, <2>1, <1>c DEF SetAllOutputConsumed
<1>7. ASSUME NEW d \in Drivers, Fulfil(d) PROVE ReasonsOK'
  <2>1. \A t \in Threads : pc'[t] = pc[t] /\ ret'[t] = ret[t]
    BY Zenon, <1>7, <1>a, ProcsSplit DEF Fulfil, Clients
  <2> QED
    BY Zenon, <1>7, <2>1, <1>c DEF Fulfil, Callback
<1>8. ASSUME NEW p \in Procs, SetError(p) PROVE ReasonsOK'
  BY <1>8, <1>a, <1>b, ProcsSplit
  DEF SetError, ReasonsOK, ReturnsTo, Holds, ReturnPoints
<1>9. ASSUME NEW p \in Procs, TerminateAgain(p) PROVE ReasonsOK'
  BY <1>9, <1>a, <1>b, ProcsSplit
  DEF TerminateAgain, ReasonsOK, ReturnsTo, Holds, ReturnPoints
<1>10. ASSUME NEW p \in Procs, Terminate(p) PROVE ReasonsOK'
  BY ZenonT(30), <1>10, <1>a, <1>b, ProcsSplit
  DEF Terminate, ReasonsOK, ReturnsTo, Holds, ReturnPoints
<1>11. ASSUME NEW p \in Procs, CloseByTask(p) PROVE ReasonsOK'
  BY Zenon, <1>11, <1>a, <1>b, ProcsSplit
  DEF CloseByTask, ReasonsOK, ReturnsTo, Holds, ReturnPoints
<1>12. ASSUME NEW p \in Procs, TerminateDone(p) PROVE ReasonsOK'
  BY <1>12, <1>a, <1>b, ProcsSplit
  DEF TerminateDone, ReasonsOK, ReturnsTo, Holds, ReturnPoints
<1>13. ASSUME NEW t \in Threads, NEW d \in Drivers, EnterClosed(t, d)
       PROVE  ReasonsOK'
  BY <1>13, <1>a, <1>b, ProcsSplit
  DEF EnterClosed, Dequeue, EndClosure, ReasonsOK, ReturnsTo, Holds,
      ReturnPoints
<1>14. ASSUME NEW t \in Threads, NEW d \in Drivers, EnterUnqueued(t, d)
       PROVE  ReasonsOK'
  BY Zenon, <1>14, <1>a, <1>b, ProcsSplit
  DEF EnterUnqueued, Dequeue, ReasonsOK, ReturnsTo, Holds, ReturnPoints
<1>15. ASSUME NEW t \in Threads, NEW d \in Drivers, EnterRefused(t, d)
       PROVE  ReasonsOK'
  BY Zenon, <1>15, <1>a, <1>b, ProcsSplit
  DEF EnterRefused, Dequeue, ReasonsOK, ReturnsTo, Holds, ReturnPoints
<1>16. ASSUME NEW t \in Threads, NEW d \in Drivers, Enter(t, d)
       PROVE  ReasonsOK'
  BY <1>16, <1>a, <1>b, ProcsSplit
  DEF Enter, Dequeue, ReasonsOK, ReturnsTo, Holds, ReturnPoints
<1>17. ASSUME NEW t \in Threads, Block(t) PROVE ReasonsOK'
  <2>1. \A u \in Threads : u # t /\ Holds(u) => drv[u] # drv[t]
    BY Zenon, <1>17 DEF Block, Holds, IInv, Ownership
  <2>2. /\ pc' = [pc EXCEPT ![t] = "leave"]
        /\ reason' = [reason EXCEPT ![t] = "kBlock"]
        /\ hasBlockingFuture' = hasBlockingFuture \cup {drv[t]}
        /\ UNCHANGED <<drv, ret, pauseRequested, terminateRequested>>
    BY Zenon, <1>17 DEF Block
  <2>3. pc'[t] = "leave" /\ reason'[t] = "kBlock"
    BY Zenon, <1>a, <2>2, ProcsSplit
  <2>4. ASSUME NEW u \in Threads, u # t
        PROVE  /\ pc'[u] = pc[u] /\ reason'[u] = reason[u]
               /\ Holds(u)' = Holds(u)
    BY Zenon, <1>a, <2>2, <2>4, ProcsSplit DEF Holds
  <2> QED
    BY <2>1, <2>2, <2>3, <2>4 DEF ReasonsOK, ReturnsTo
<1>18. ASSUME NEW t \in Threads, AtEnd(t) PROVE ReasonsOK'
  BY <1>18, <1>a, <1>b, ProcsSplit
  DEF AtEnd, ReasonsOK, ReturnsTo, Holds, ReturnPoints
<1>19. ASSUME NEW t \in Threads, Throw(t) PROVE ReasonsOK'
  BY <1>19, <1>a, <1>b, ProcsSplit
  DEF Throw, ToHandler, ReasonsOK, ReturnsTo, Holds, ReturnPoints
<1>20. ASSUME NEW t \in Threads, EnterSuspended(t) PROVE ReasonsOK'
  BY ZenonT(30), <1>20, <1>a, <1>b, ProcsSplit
  DEF EnterSuspended, ReasonsOK, ReturnsTo, Holds, ReturnPoints
<1>21. ASSUME NEW t \in Threads, EnterSuspendedThrows(t) PROVE ReasonsOK'
  BY <1>21, <1>a, <1>b, ProcsSplit
  DEF EnterSuspendedThrows, ToHandler, ReasonsOK, ReturnsTo, Holds,
      ReturnPoints
<1>22. ASSUME NEW t \in Threads, Stop(t) PROVE ReasonsOK'
  BY ZenonT(30), <1>22, <1>a, <1>b, ProcsSplit, ShouldStopCases
  DEF Stop, ReasonsOK, ReturnsTo, Holds, IInv
<1>23. ASSUME NEW t \in Threads, LeaveSuspended(t) PROVE ReasonsOK'
  BY <1>23, <1>a, <1>b, ProcsSplit
  DEF LeaveSuspended, ToHandler, ReasonsOK, ReturnsTo, Holds, ReturnPoints
<1>24. ASSUME NEW t \in Threads, Unwind(t) PROVE ReasonsOK'
  BY <1>24, <1>a, <1>b, ProcsSplit
  DEF Unwind, ReasonsOK, ReturnsTo, Holds, ReturnPoints
<1>25. ASSUME NEW t \in Threads, Close(t) PROVE ReasonsOK'
  BY <1>25, <1>a, <1>b, ProcsSplit
  DEF Close, ReasonsOK, ReturnsTo, Holds, ReturnPoints
<1>26. ASSUME NEW t \in Threads, RemoveDriver(t) PROVE ReasonsOK'
  <2>1. /\ pc[t] = "remove"
        /\ pc' = [pc EXCEPT ![t] = "terminate"] \/ pc' = [pc EXCEPT ![t] = ret[t]]
        /\ UNCHANGED <<drv, ret, reason, pauseRequested, terminateRequested,
                       hasBlockingFuture>>
    BY Zenon, <1>26 DEF RemoveDriver
  <2> QED
    BY <1>a, <1>b, <2>1, ProcsSplit
    DEF ReasonsOK, ReturnsTo, Holds, ReturnPoints
<1>27. ASSUME NEW t \in Threads, Leave(t) PROVE ReasonsOK'
  BY <1>27, <1>a, <1>b, ProcsSplit
  DEF Leave, ReasonsOK, ReturnsTo, Holds, ReturnPoints
<1>28. ASSUME NEW t \in Threads, RanBlocked(t) PROVE ReasonsOK'
  BY <1>28, <1>a, <1>b, ProcsSplit
  DEF RanBlocked, EndClosure, ReasonsOK, ReturnsTo, Holds, ReturnPoints
<1>29. ASSUME NEW t \in Threads, RanYielded(t) PROVE ReasonsOK'
  BY <1>29, <1>a, <1>b, ProcsSplit
  DEF RanYielded, EndClosure, ReasonsOK, ReturnsTo, Holds, ReturnPoints
<1>30. ASSUME NEW t \in Threads, Requeue(t) PROVE ReasonsOK'
  BY <1>30, <1>a, <1>b, ProcsSplit
  DEF Requeue, EndClosure, ReasonsOK, ReturnsTo, Holds, ReturnPoints
<1>31. ASSUME NEW t \in Threads, RanOther(t) PROVE ReasonsOK'
  BY <1>31, <1>a, <1>b, ProcsSplit
  DEF RanOther, EndClosure, ReasonsOK, ReturnsTo, Holds, ReturnPoints
<1>32. ASSUME NEW t \in Threads, SetResume(t) PROVE ReasonsOK'
  <2>1. /\ pc[t] = "setResume" /\ EndClosure(t, pc'[t])
        /\ pc'[t] \in {"setError", "idle"}
        /\ hasBlockingFuture' \subseteq hasBlockingFuture
        /\ UNCHANGED <<pauseRequested, terminateRequested>>
    <3>1. pc[t] = "setResume" /\ \E to \in {"setError", "idle"} : EndClosure(t, to)
      BY Zenon, <1>32 DEF SetResume
    <3>2. hasBlockingFuture' \subseteq hasBlockingFuture
      BY Zenon, <1>32 DEF SetResume, Callback
    <3> QED
      BY Zenon, <1>32, <1>a, <3>1, <3>2, ProcsSplit DEF SetResume, EndClosure
  <2> QED
    BY ZenonT(30), <1>a, <2>1, ProcsSplit DEF EndClosure, ReasonsOK, ReturnsTo, Holds
<1>33. ASSUME NEW t \in Threads, FulfilEarly(t) PROVE ReasonsOK'
  BY ZenonT(30), <1>33, <1>a, <1>b, ProcsSplit
  DEF FulfilEarly, ReasonsOK, ReturnsTo, Holds, ReturnPoints
<1> QED
  BY ZenonT(30), <1>1, <1>2, <1>3, <1>4, <1>5, <1>6, <1>7, <1>8,
      <1>9, <1>10, <1>11, <1>12, <1>13, <1>14, <1>15, <1>16, <1>17, <1>18,
      <1>19, <1>20, <1>21, <1>22, <1>23, <1>24, <1>25, <1>26, <1>27, <1>28,
      <1>29, <1>30, <1>31, <1>32, <1>33
  DEF Next, ClientStep, TerminateStep, EnterStep, OperatorStep, ThreadStep

\* ErrorsOK is preserved: Task::setError calls Task::terminate, which is the
\* only way out of kRunning.
LEMMA ErrorsStep ==
  ASSUME IInv, ErrorsOK, Next
  PROVE  ErrorsOK'
<1> USE DEF taskVars, slotVars, flagVars, closeVars, execVars, procVars
<1>a. /\ pc \in [Procs -> PCs] /\ ret \in [Procs -> PCs]
      /\ state \in TaskStates /\ goal \in [Procs -> TaskStates \ {"kRunning"}]
      /\ terminateRequested \in BOOLEAN /\ exception \in BOOLEAN
  BY Zenon DEF IInv, TypeOK
<1>c. ASSUME UNCHANGED <<state, exception, terminateRequested>>,
             \A q \in Procs : pc[q] = "terminate" => pc'[q] = "terminate"
      PROVE  ErrorsOK'
  BY Zenon, <1>c DEF ErrorsOK, isRunning
<1>1. ASSUME NEW f \in {"kCanceled", "kAborted"}, RequestCancel(f)
      PROVE  ErrorsOK'
  <2>1. \A q \in Procs : pc[q] = "terminate" => pc'[q] = "terminate"
    BY Zenon, <1>1, <1>a, ProcsSplit DEF RequestCancel, Clients
  <2> QED
    BY Zenon, <1>1, <2>1, <1>c DEF RequestCancel, Clients
<1>2. ASSUME Start PROVE ErrorsOK'
  BY Zenon, <1>2, <1>c DEF Start
<1>3. ASSUME RequestPause PROVE ErrorsOK'
  BY Zenon, <1>3, <1>c DEF RequestPause
<1>4. ASSUME Resume PROVE ErrorsOK'
  BY Zenon, <1>4, <1>c DEF Resume
<1>5. ASSUME RequestYield PROVE ErrorsOK'
  BY Zenon, <1>5, <1>c DEF RequestYield
<1>6. ASSUME SetAllOutputConsumed PROVE ErrorsOK'
  <2>1. \A q \in Procs : pc[q] = "terminate" => pc'[q] = "terminate"
    BY Zenon, <1>6, <1>a, ProcsSplit
    DEF SetAllOutputConsumed, Clients
  <2> QED
    BY Zenon, <1>6, <2>1, <1>c DEF SetAllOutputConsumed, Clients
<1>7. ASSUME NEW d \in Drivers, Fulfil(d) PROVE ErrorsOK'
  <2>1. \A q \in Procs : pc[q] = "terminate" => pc'[q] = "terminate"
    BY Zenon, <1>7, <1>a, ProcsSplit DEF Fulfil, Clients
  <2> QED
    BY Zenon, <1>7, <2>1, <1>c DEF Fulfil, Clients
<1>8. ASSUME NEW p \in Procs, SetError(p) PROVE ErrorsOK'
  <2>1. CASE isRunning /\ ~exception
    <3>1. pc'[p] = "terminate" /\ UNCHANGED <<state, terminateRequested>>
      BY Zenon, <1>8, <1>a, <2>1 DEF SetError
    <3> QED
      BY Zenon, <3>1 DEF ErrorsOK, isRunning
  <2>2. CASE ~(isRunning /\ ~exception)
    <3>1. UNCHANGED <<state, exception, terminateRequested>>
      BY Zenon, <1>8, <2>2 DEF SetError
    <3>2. \A q \in Procs : pc[q] = "terminate" => pc'[q] = "terminate"
      BY Zenon, <1>8, <1>a, <2>2 DEF SetError
    <3> QED
      BY Zenon, <3>1, <3>2, <1>c
  <2> QED
    BY Zenon, <2>1, <2>2
<1>9. ASSUME NEW p \in Procs, TerminateAgain(p) PROVE ErrorsOK'
  <2>1. ~isRunning /\ UNCHANGED <<state, exception, terminateRequested>>
    BY Zenon, <1>9 DEF TerminateAgain
  <2> QED
    BY Zenon, <2>1 DEF ErrorsOK, isRunning
<1>10. ASSUME NEW p \in Procs, Terminate(p) PROVE ErrorsOK'
  <2>1. state' = goal[p] /\ terminateRequested'
    BY Zenon, <1>10 DEF Terminate
  <2>2. state' # "kRunning"
    BY Zenon, <1>a, <2>1
  <2> QED
    BY Zenon, <2>1, <2>2 DEF ErrorsOK, isRunning
<1>11. ASSUME NEW p \in Procs, CloseByTask(p) PROVE ErrorsOK'
  BY Zenon, <1>11, <1>c DEF CloseByTask
<1>12. ASSUME NEW p \in Procs, TerminateDone(p) PROVE ErrorsOK'
  <2>1. \A q \in Procs : pc[q] = "terminate" => pc'[q] = "terminate"
    BY Zenon, <1>12, <1>a, ProcsSplit DEF TerminateDone
  <2> QED
    BY Zenon, <1>12, <2>1, <1>c DEF TerminateDone
<1>13. ASSUME NEW t \in Threads, NEW d \in Drivers, EnterClosed(t, d)
       PROVE  ErrorsOK'
  <2>1. \A q \in Procs : pc[q] = "terminate" => pc'[q] = "terminate"
    BY Zenon, <1>13, <1>a, ProcsSplit
    DEF EnterClosed, Dequeue, EndClosure
  <2> QED
    BY Zenon, <1>13, <2>1, <1>c DEF EnterClosed, Dequeue, EndClosure
<1>14. ASSUME NEW t \in Threads, NEW d \in Drivers, EnterUnqueued(t, d)
       PROVE  ErrorsOK'
  BY Zenon, <1>14, <1>c DEF EnterUnqueued
<1>15. ASSUME NEW t \in Threads, NEW d \in Drivers, EnterRefused(t, d)
       PROVE  ErrorsOK'
  BY Zenon, <1>15, <1>c DEF EnterRefused
<1>16. ASSUME NEW t \in Threads, NEW d \in Drivers, Enter(t, d)
       PROVE  ErrorsOK'
  <2>1. \A q \in Procs : pc[q] = "terminate" => pc'[q] = "terminate"
    BY Zenon, <1>16, <1>a, ProcsSplit DEF Enter, Dequeue
  <2> QED
    BY Zenon, <1>16, <2>1, <1>c DEF Enter, Dequeue
<1>17. ASSUME NEW t \in Threads, Block(t) PROVE ErrorsOK'
  <2>1. \A q \in Procs : pc[q] = "terminate" => pc'[q] = "terminate"
    BY Zenon, <1>17, <1>a, ProcsSplit DEF Block
  <2> QED
    BY Zenon, <1>17, <2>1, <1>c DEF Block
<1>18. ASSUME NEW t \in Threads, AtEnd(t) PROVE ErrorsOK'
  <2>1. \A q \in Procs : pc[q] = "terminate" => pc'[q] = "terminate"
    BY Zenon, <1>18, <1>a, ProcsSplit DEF AtEnd
  <2> QED
    BY Zenon, <1>18, <2>1, <1>c DEF AtEnd
<1>19. ASSUME NEW t \in Threads, Throw(t) PROVE ErrorsOK'
  <2>1. \A q \in Procs : pc[q] = "terminate" => pc'[q] = "terminate"
    BY Zenon, <1>19, <1>a, ProcsSplit DEF Throw, ToHandler
  <2> QED
    BY Zenon, <1>19, <2>1, <1>c DEF Throw, ToHandler
<1>20. ASSUME NEW t \in Threads, EnterSuspended(t) PROVE ErrorsOK'
  <2>1. \A q \in Procs : pc[q] = "terminate" => pc'[q] = "terminate"
    BY Zenon, <1>20, <1>a, ProcsSplit DEF EnterSuspended
  <2> QED
    BY Zenon, <1>20, <2>1, <1>c DEF EnterSuspended
<1>21. ASSUME NEW t \in Threads, EnterSuspendedThrows(t) PROVE ErrorsOK'
  <2>1. \A q \in Procs : pc[q] = "terminate" => pc'[q] = "terminate"
    BY Zenon, <1>21, <1>a, ProcsSplit
    DEF EnterSuspendedThrows, ToHandler
  <2> QED
    BY Zenon, <1>21, <2>1, <1>c DEF EnterSuspendedThrows, ToHandler
<1>22. ASSUME NEW t \in Threads, Stop(t) PROVE ErrorsOK'
  <2>1. \A q \in Procs : pc[q] = "terminate" => pc'[q] = "terminate"
    BY Zenon, <1>22, <1>a, ProcsSplit DEF Stop
  <2> QED
    BY Zenon, <1>22, <2>1, <1>c DEF Stop
<1>23. ASSUME NEW t \in Threads, LeaveSuspended(t) PROVE ErrorsOK'
  <2>1. \A q \in Procs : pc[q] = "terminate" => pc'[q] = "terminate"
    BY Zenon, <1>23, <1>a, ProcsSplit
    DEF LeaveSuspended, ToHandler
  <2> QED
    BY Zenon, <1>23, <2>1, <1>c DEF LeaveSuspended, ToHandler
<1>24. ASSUME NEW t \in Threads, Unwind(t) PROVE ErrorsOK'
  <2>1. \A q \in Procs : pc[q] = "terminate" => pc'[q] = "terminate"
    BY Zenon, <1>24, <1>a, ProcsSplit DEF Unwind
  <2> QED
    BY Zenon, <1>24, <2>1, <1>c DEF Unwind
<1>25. ASSUME NEW t \in Threads, Close(t) PROVE ErrorsOK'
  <2>1. \A q \in Procs : pc[q] = "terminate" => pc'[q] = "terminate"
    BY Zenon, <1>25, <1>a, ProcsSplit DEF Close
  <2> QED
    BY Zenon, <1>25, <2>1, <1>c DEF Close
<1>26. ASSUME NEW t \in Threads, RemoveDriver(t) PROVE ErrorsOK'
  <2>1. \A q \in Procs : pc[q] = "terminate" => pc'[q] = "terminate"
    BY Zenon, <1>26, <1>a, ProcsSplit DEF RemoveDriver
  <2> QED
    BY Zenon, <1>26, <2>1, <1>c DEF RemoveDriver
<1>27. ASSUME NEW t \in Threads, Leave(t) PROVE ErrorsOK'
  <2>1. \A q \in Procs : pc[q] = "terminate" => pc'[q] = "terminate"
    BY Zenon, <1>27, <1>a, ProcsSplit DEF Leave
  <2> QED
    BY Zenon, <1>27, <2>1, <1>c DEF Leave
<1>28. ASSUME NEW t \in Threads, RanBlocked(t) PROVE ErrorsOK'
  <2>1. \A q \in Procs : pc[q] = "terminate" => pc'[q] = "terminate"
    BY Zenon, <1>28, <1>a, ProcsSplit
    DEF RanBlocked, EndClosure
  <2> QED
    BY Zenon, <1>28, <2>1, <1>c DEF RanBlocked, EndClosure
<1>29. ASSUME NEW t \in Threads, RanYielded(t) PROVE ErrorsOK'
  <2>1. \A q \in Procs : pc[q] = "terminate" => pc'[q] = "terminate"
    BY Zenon, <1>29, <1>a, ProcsSplit
    DEF RanYielded, EndClosure
  <2> QED
    BY Zenon, <1>29, <2>1, <1>c DEF RanYielded, EndClosure
<1>30. ASSUME NEW t \in Threads, Requeue(t) PROVE ErrorsOK'
  <2>1. \A q \in Procs : pc[q] = "terminate" => pc'[q] = "terminate"
    BY Zenon, <1>30, <1>a, ProcsSplit DEF Requeue, EndClosure
  <2> QED
    BY Zenon, <1>30, <2>1, <1>c DEF Requeue, EndClosure
<1>31. ASSUME NEW t \in Threads, RanOther(t) PROVE ErrorsOK'
  <2>1. \A q \in Procs : pc[q] = "terminate" => pc'[q] = "terminate"
    BY Zenon, <1>31, <1>a, ProcsSplit DEF RanOther, EndClosure
  <2> QED
    BY Zenon, <1>31, <2>1, <1>c DEF RanOther, EndClosure
<1>32. ASSUME NEW t \in Threads, SetResume(t) PROVE ErrorsOK'
  <2>1. \A q \in Procs : pc[q] = "terminate" => pc'[q] = "terminate"
    BY Zenon, <1>32, <1>a, ProcsSplit DEF SetResume, EndClosure
  <2> QED
    BY Zenon, <1>32, <2>1, <1>c DEF SetResume, EndClosure
<1>33. ASSUME NEW t \in Threads, FulfilEarly(t) PROVE ErrorsOK'
  BY Zenon, <1>33, <1>c DEF FulfilEarly
<1> QED
  BY Zenon, <1>1, <1>2, <1>3, <1>4, <1>5, <1>6, <1>7, <1>8,
      <1>9, <1>10, <1>11, <1>12, <1>13, <1>14, <1>15, <1>16, <1>17, <1>18,
      <1>19, <1>20, <1>21, <1>22, <1>23, <1>24, <1>25, <1>26, <1>27, <1>28,
      <1>29, <1>30, <1>31, <1>32, <1>33
  DEF Next, ClientStep, TerminateStep, EnterStep, OperatorStep, ThreadStep

\* QueuedOK is preserved: isEnqueued goes on with a closure, and the closures
\* of a driver that is entered find it.
LEMMA QueuedStep ==
  ASSUME IInv, QueuedOK, Next
  PROVE  QueuedOK'
<1> USE DEF taskVars, slotVars, flagVars, closeVars, execVars, procVars
<1>a. /\ queue \in [Drivers -> Nat] /\ isEnqueued \subseteq Drivers
      /\ drv \in [Threads -> Drivers \cup {NoDriver}]
  BY Zenon DEF IInv, TypeOK
<1>c. ASSUME UNCHANGED <<isEnqueued, queue>>, closed \subseteq closed'
      PROVE  QueuedOK'
  BY Zenon, <1>c DEF QueuedOK
<1>1. ASSUME NEW f \in {"kCanceled", "kAborted"}, RequestCancel(f)
      PROVE  QueuedOK'
  BY Zenon, <1>1, <1>c DEF RequestCancel, Clients
<1>2. ASSUME Start PROVE QueuedOK'
  BY <1>2, <1>a DEF Start, QueuedOK
<1>3. ASSUME RequestPause PROVE QueuedOK'
  BY Zenon, <1>3, <1>c DEF RequestPause
<1>4. ASSUME Resume PROVE QueuedOK'
  <2>1. CASE exception
    BY Zenon, <1>4, <2>1, <1>c DEF Resume
  <2>2. CASE ~exception
    <3>1. PICK S \in SUBSET Drivers :
            /\ isEnqueued' = isEnqueued \cup S
            /\ queue' = [d \in Drivers |->
                           IF d \in S \ closed THEN queue[d] + 1 ELSE queue[d]]
            /\ closed' = closed
      BY Zenon, <1>4, <2>2 DEF Resume, ResumeCandidates, IInv, TypeOK
    <3> QED
      BY <1>a, <3>1 DEF QueuedOK
  <2> QED
    BY Zenon, <2>1, <2>2
<1>5. ASSUME RequestYield PROVE QueuedOK'
  BY Zenon, <1>5, <1>c DEF RequestYield
<1>6. ASSUME SetAllOutputConsumed PROVE QueuedOK'
  BY Zenon, <1>6, <1>c DEF SetAllOutputConsumed, Clients
<1>7. ASSUME NEW d \in Drivers, Fulfil(d) PROVE QueuedOK'
  BY <1>7, <1>a DEF Fulfil, Callback, QueueAfterEnqueue, QueuedOK
<1>8. ASSUME NEW p \in Procs, SetError(p) PROVE QueuedOK'
  BY Zenon, <1>8, <1>c DEF SetError
<1>9. ASSUME NEW p \in Procs, TerminateAgain(p) PROVE QueuedOK'
  BY Zenon, <1>9, <1>c DEF TerminateAgain
<1>10. ASSUME NEW p \in Procs, Terminate(p) PROVE QueuedOK'
  BY Zenon, <1>10, <1>c DEF Terminate
<1>11. ASSUME NEW p \in Procs, CloseByTask(p) PROVE QueuedOK'
  <2>1. closed \subseteq closed' /\ UNCHANGED <<isEnqueued, queue>>
    BY Zenon, <1>11 DEF CloseByTask
  <2> QED
    BY Zenon, <2>1, <1>c
<1>12. ASSUME NEW p \in Procs, TerminateDone(p) PROVE QueuedOK'
  BY Zenon, <1>12, <1>c DEF TerminateDone
<1>13. ASSUME NEW t \in Threads, NEW d \in Drivers, EnterClosed(t, d)
       PROVE  QueuedOK'
  BY Zenon, <1>13, <1>a DEF EnterClosed, Dequeue, QueuedOK
<1>14. ASSUME NEW t \in Threads, NEW d \in Drivers, EnterUnqueued(t, d)
       PROVE  QueuedOK'
  BY Zenon, <1>14, <1>a DEF EnterUnqueued, Dequeue, QueuedOK
<1>15. ASSUME NEW t \in Threads, NEW d \in Drivers, EnterRefused(t, d)
       PROVE  QueuedOK'
  BY Zenon, <1>15, <1>a DEF EnterRefused, Dequeue, QueuedOK
<1>16. ASSUME NEW t \in Threads, NEW d \in Drivers, Enter(t, d)
       PROVE  QueuedOK'
  BY Zenon, <1>16, <1>a DEF Enter, Dequeue, QueuedOK
<1>17. ASSUME NEW t \in Threads, Block(t) PROVE QueuedOK'
  BY Zenon, <1>17, <1>c DEF Block
<1>18. ASSUME NEW t \in Threads, AtEnd(t) PROVE QueuedOK'
  BY Zenon, <1>18, <1>c DEF AtEnd
<1>19. ASSUME NEW t \in Threads, Throw(t) PROVE QueuedOK'
  BY Zenon, <1>19, <1>c DEF Throw, ToHandler
<1>20. ASSUME NEW t \in Threads, EnterSuspended(t) PROVE QueuedOK'
  BY Zenon, <1>20, <1>c DEF EnterSuspended
<1>21. ASSUME NEW t \in Threads, EnterSuspendedThrows(t) PROVE QueuedOK'
  BY Zenon, <1>21, <1>c DEF EnterSuspendedThrows, ToHandler
<1>22. ASSUME NEW t \in Threads, Stop(t) PROVE QueuedOK'
  BY Zenon, <1>22, <1>c DEF Stop
<1>23. ASSUME NEW t \in Threads, LeaveSuspended(t) PROVE QueuedOK'
  BY Zenon, <1>23, <1>c DEF LeaveSuspended, ToHandler
<1>24. ASSUME NEW t \in Threads, Unwind(t) PROVE QueuedOK'
  BY Zenon, <1>24, <1>c DEF Unwind
<1>25. ASSUME NEW t \in Threads, Close(t) PROVE QueuedOK'
  <2>1. closed \subseteq closed' /\ UNCHANGED <<isEnqueued, queue>>
    BY Zenon, <1>25 DEF Close
  <2> QED
    BY Zenon, <2>1, <1>c
<1>26. ASSUME NEW t \in Threads, RemoveDriver(t) PROVE QueuedOK'
  BY Zenon, <1>26, <1>c DEF RemoveDriver
<1>27. ASSUME NEW t \in Threads, Leave(t) PROVE QueuedOK'
  BY Zenon, <1>27, <1>c DEF Leave
<1>28. ASSUME NEW t \in Threads, RanBlocked(t) PROVE QueuedOK'
  BY Zenon, <1>28, <1>c DEF RanBlocked, EndClosure
<1>29. ASSUME NEW t \in Threads, RanYielded(t) PROVE QueuedOK'
  BY Zenon, <1>29, <1>c DEF RanYielded, EndClosure
<1>30. ASSUME NEW t \in Threads, Requeue(t) PROVE QueuedOK'
  <2>1. drv[t] \in Drivers
    BY Zenon, <1>30 DEF Requeue, IInv, RunHasDriver, InRun
  <2> QED
    BY <1>30, <1>a, <2>1 DEF Requeue, QueuedOK
<1>31. ASSUME NEW t \in Threads, RanOther(t) PROVE QueuedOK'
  BY Zenon, <1>31, <1>c DEF RanOther, EndClosure
<1>32. ASSUME NEW t \in Threads, SetResume(t) PROVE QueuedOK'
  <2>1. CASE UNCHANGED <<isEnqueued, queue>>
    BY Zenon, <1>32, <2>1, <1>c DEF SetResume
  <2>2. CASE Callback(drv[t]) /\ drv[t] \in Drivers
    BY <1>32, <2>2, <1>a DEF SetResume, Callback, QueueAfterEnqueue, QueuedOK
  <2>3. drv[t] \in Drivers
    BY Zenon, <1>32 DEF SetResume, IInv, RunHasDriver, InRun
  <2> QED
    BY Zenon, <1>32, <2>1, <2>2, <2>3 DEF SetResume
<1>33. ASSUME NEW t \in Threads, FulfilEarly(t) PROVE QueuedOK'
  BY Zenon, <1>33, <1>c DEF FulfilEarly
<1> QED
  BY Zenon, <1>1, <1>2, <1>3, <1>4, <1>5, <1>6, <1>7, <1>8,
      <1>9, <1>10, <1>11, <1>12, <1>13, <1>14, <1>15, <1>16, <1>17, <1>18,
      <1>19, <1>20, <1>21, <1>22, <1>23, <1>24, <1>25, <1>26, <1>27, <1>28,
      <1>29, <1>30, <1>31, <1>32, <1>33
  DEF Next, ClientStep, TerminateStep, EnterStep, OperatorStep, ThreadStep

\* TerminatedOK is preserved: while the task runs only ~CancelGuard marks a
\* driver, and closes it at once.
LEMMA TerminatedStep ==
  ASSUME IInv, TerminatedOK, Next, ~terminateRequested', ~terminateRequested,
         ~started => isTerminated = {}
  PROVE  TerminatedOK'
<1> USE DEF taskVars, slotVars, flagVars, closeVars, execVars, procVars
<1>a. /\ pc \in [Procs -> PCs] /\ ret \in [Procs -> PCs]
      /\ drv \in [Threads -> Drivers \cup {NoDriver}]
  BY Zenon DEF IInv, TypeOK
<1>b. ReturnPoints /\ TypeOK
  BY Zenon DEF IInv
<1>c. ASSUME drivers' \subseteq drivers,
             isTerminated' \cap drivers \subseteq isTerminated,
             \A u \in Threads : Removing(u) => Removing(u)' /\ drv'[u] = drv[u]
      PROVE  TerminatedOK'
  BY Zenon, <1>c DEF TerminatedOK
<1>1. ASSUME NEW f \in {"kCanceled", "kAborted"}, RequestCancel(f)
      PROVE  TerminatedOK'
  <2>1. isTerminated' = isTerminated /\ drivers' = drivers
    BY Zenon, <1>1 DEF RequestCancel, Clients
  <2>2. \A u \in Threads : Removing(u) => Removing(u)' /\ drv'[u] = drv[u]
    BY Zenon, <1>1, <1>a, <1>b, ProcsSplit
    DEF RequestCancel, Clients, Removing, ReturnPoints
  <2> QED
    BY Zenon, <2>1, <2>2, <1>c
<1>2. ASSUME Start PROVE TerminatedOK'
  BY Zenon, <1>2 DEF Start, TerminatedOK, IInv, RunHasDriver
<1>3. ASSUME RequestPause PROVE TerminatedOK'
  <2>1. isTerminated' = isTerminated /\ drivers' = drivers
    BY Zenon, <1>3 DEF RequestPause
  <2>2. \A u \in Threads : Removing(u) => Removing(u)' /\ drv'[u] = drv[u]
    BY Zenon, <1>3, <1>a, <1>b, ProcsSplit DEF RequestPause, Removing, ReturnPoints
  <2> QED
    BY Zenon, <2>1, <2>2, <1>c
<1>4. ASSUME Resume PROVE TerminatedOK'
  <2>1. isTerminated' = isTerminated /\ drivers' = drivers
    BY Zenon, <1>4 DEF Resume
  <2>2. \A u \in Threads : Removing(u) => Removing(u)' /\ drv'[u] = drv[u]
    BY Zenon, <1>4, <1>a, <1>b, ProcsSplit DEF Resume, Removing, ReturnPoints
  <2> QED
    BY Zenon, <2>1, <2>2, <1>c
<1>5. ASSUME RequestYield PROVE TerminatedOK'
  <2>1. isTerminated' = isTerminated /\ drivers' = drivers
    BY Zenon, <1>5 DEF RequestYield
  <2>2. \A u \in Threads : Removing(u) => Removing(u)' /\ drv'[u] = drv[u]
    BY Zenon, <1>5, <1>a, <1>b, ProcsSplit DEF RequestYield, Removing, ReturnPoints
  <2> QED
    BY Zenon, <2>1, <2>2, <1>c
<1>6. ASSUME SetAllOutputConsumed PROVE TerminatedOK'
  <2>1. /\ isTerminated' = isTerminated /\ drivers' = drivers /\ drv' = drv
        /\ \A u \in Threads : pc'[u] = pc[u] /\ ret'[u] = ret[u]
    BY Zenon, <1>6, <1>a, ProcsSplit DEF SetAllOutputConsumed, Clients
  <2> QED
    BY Zenon, <2>1, <1>c DEF Removing
<1>7. ASSUME NEW d \in Drivers, Fulfil(d) PROVE TerminatedOK'
  <2>1. isTerminated' = isTerminated /\ drivers' = drivers
    BY Zenon, <1>7 DEF Fulfil, Clients
  <2>2. \A u \in Threads : Removing(u) => Removing(u)' /\ drv'[u] = drv[u]
    BY Zenon, <1>7, <1>a, <1>b, ProcsSplit
    DEF Fulfil, Clients, Removing, ReturnPoints
  <2> QED
    BY Zenon, <2>1, <2>2, <1>c
<1>8. ASSUME NEW p \in Procs, SetError(p) PROVE TerminatedOK'
  <2>1. isTerminated' = isTerminated /\ drivers' = drivers
    BY Zenon, <1>8 DEF SetError
  <2>2. \A u \in Threads : Removing(u) => Removing(u)' /\ drv'[u] = drv[u]
    BY Zenon, <1>8, <1>a, <1>b, ProcsSplit DEF SetError, Removing, ReturnPoints
  <2> QED
    BY Zenon, <2>1, <2>2, <1>c
<1>9. ASSUME NEW p \in Procs, TerminateAgain(p) PROVE TerminatedOK'
  <2>1. isTerminated' = isTerminated /\ drivers' = drivers
    BY Zenon, <1>9 DEF TerminateAgain
  <2>2. \A u \in Threads : Removing(u) => Removing(u)' /\ drv'[u] = drv[u]
    BY Zenon, <1>9, <1>a, <1>b, ProcsSplit DEF TerminateAgain, Removing, ReturnPoints
  <2> QED
    BY Zenon, <2>1, <2>2, <1>c
<1>10. ASSUME NEW p \in Procs, Terminate(p) PROVE TerminatedOK'
  BY Zenon, <1>10 DEF Terminate
<1>11. ASSUME NEW p \in Procs, CloseByTask(p) PROVE TerminatedOK'
  <2>1. isTerminated' = isTerminated /\ drivers' = drivers
    BY Zenon, <1>11 DEF CloseByTask
  <2>2. \A u \in Threads : Removing(u) => Removing(u)' /\ drv'[u] = drv[u]
    BY Zenon, <1>11, <1>a, <1>b, ProcsSplit DEF CloseByTask, Removing, ReturnPoints
  <2> QED
    BY Zenon, <2>1, <2>2, <1>c
<1>12. ASSUME NEW p \in Procs, TerminateDone(p) PROVE TerminatedOK'
  <2>1. isTerminated' = isTerminated /\ drivers' = drivers
    BY Zenon, <1>12 DEF TerminateDone
  <2>2. \A u \in Threads : Removing(u) => Removing(u)' /\ drv'[u] = drv[u]
    BY Zenon, <1>12, <1>a, <1>b, ProcsSplit DEF TerminateDone, Removing, ReturnPoints
  <2> QED
    BY Zenon, <2>1, <2>2, <1>c
<1>13. ASSUME NEW t \in Threads, NEW d \in Drivers, EnterClosed(t, d)
       PROVE  TerminatedOK'
  <2>1. isTerminated' = isTerminated /\ drivers' = drivers
    BY Zenon, <1>13 DEF EnterClosed, Dequeue, EndClosure
  <2>2. \A u \in Threads : Removing(u) => Removing(u)' /\ drv'[u] = drv[u]
    BY Zenon, <1>13, <1>a, <1>b, ProcsSplit
    DEF EnterClosed, Dequeue, EndClosure, Removing, ReturnPoints
  <2> QED
    BY Zenon, <2>1, <2>2, <1>c
<1>14. ASSUME NEW t \in Threads, NEW d \in Drivers, EnterUnqueued(t, d)
       PROVE  TerminatedOK'
  <2>1. isTerminated' = isTerminated /\ drivers' = drivers
    BY Zenon, <1>14 DEF EnterUnqueued, Dequeue
  <2>2. \A u \in Threads : Removing(u) => Removing(u)' /\ drv'[u] = drv[u]
    BY Zenon, <1>14, <1>a, <1>b, ProcsSplit
    DEF EnterUnqueued, Dequeue, Removing, ReturnPoints
  <2> QED
    BY Zenon, <2>1, <2>2, <1>c
<1>15. ASSUME NEW t \in Threads, NEW d \in Drivers, EnterRefused(t, d)
       PROVE  TerminatedOK'
  <2>1. isTerminated' \cap drivers \subseteq isTerminated /\ drivers' = drivers
    BY Zenon, <1>15, ShouldStopCases, <1>b DEF EnterRefused, IInv, Ownership
  <2>2. \A u \in Threads : Removing(u) => Removing(u)' /\ drv'[u] = drv[u]
    BY Zenon, <1>15, <1>a, <1>b, ProcsSplit
    DEF EnterRefused, Dequeue, Removing, ReturnPoints
  <2> QED
    BY Zenon, <2>1, <2>2, <1>c
<1>16. ASSUME NEW t \in Threads, NEW d \in Drivers, Enter(t, d)
       PROVE  TerminatedOK'
  <2>1. isTerminated' = isTerminated /\ drivers' = drivers
    BY Zenon, <1>16 DEF Enter, Dequeue
  <2>2. \A u \in Threads : Removing(u) => Removing(u)' /\ drv'[u] = drv[u]
    BY Zenon, <1>16, <1>a, <1>b, ProcsSplit
    DEF Enter, Dequeue, Removing, ReturnPoints
  <2> QED
    BY Zenon, <2>1, <2>2, <1>c
<1>17. ASSUME NEW t \in Threads, Block(t) PROVE TerminatedOK'
  <2>1. isTerminated' = isTerminated /\ drivers' = drivers
    BY Zenon, <1>17 DEF Block
  <2>2. \A u \in Threads : Removing(u) => Removing(u)' /\ drv'[u] = drv[u]
    BY Zenon, <1>17, <1>a, <1>b, ProcsSplit DEF Block, Removing, ReturnPoints
  <2> QED
    BY Zenon, <2>1, <2>2, <1>c
<1>18. ASSUME NEW t \in Threads, AtEnd(t) PROVE TerminatedOK'
  <2>1. isTerminated' = isTerminated /\ drivers' = drivers
    BY Zenon, <1>18 DEF AtEnd
  <2>2. \A u \in Threads : Removing(u) => Removing(u)' /\ drv'[u] = drv[u]
    BY Zenon, <1>18, <1>a, <1>b, ProcsSplit DEF AtEnd, Removing, ReturnPoints
  <2> QED
    BY Zenon, <2>1, <2>2, <1>c
<1>19. ASSUME NEW t \in Threads, Throw(t) PROVE TerminatedOK'
  <2>1. isTerminated' = isTerminated /\ drivers' = drivers
    BY Zenon, <1>19 DEF Throw, ToHandler
  <2>2. \A u \in Threads : Removing(u) => Removing(u)' /\ drv'[u] = drv[u]
    BY Zenon, <1>19, <1>a, <1>b, ProcsSplit
    DEF Throw, ToHandler, Removing, ReturnPoints
  <2> QED
    BY Zenon, <2>1, <2>2, <1>c
<1>20. ASSUME NEW t \in Threads, EnterSuspended(t) PROVE TerminatedOK'
  <2>1. isTerminated' = isTerminated /\ drivers' = drivers
    BY Zenon, <1>20 DEF EnterSuspended
  <2>2. \A u \in Threads : Removing(u) => Removing(u)' /\ drv'[u] = drv[u]
    BY Zenon, <1>20, <1>a, <1>b, ProcsSplit
    DEF EnterSuspended, Removing, ReturnPoints
  <2> QED
    BY Zenon, <2>1, <2>2, <1>c
<1>21. ASSUME NEW t \in Threads, EnterSuspendedThrows(t) PROVE TerminatedOK'
  <2>1. isTerminated' \cap drivers \subseteq isTerminated /\ drivers' = drivers
    BY Zenon, <1>21, ShouldStopCases, <1>b DEF EnterSuspendedThrows, IInv, Ownership
  <2>2. \A u \in Threads : Removing(u) => Removing(u)' /\ drv'[u] = drv[u]
    BY Zenon, <1>21, <1>a, <1>b, ProcsSplit
    DEF EnterSuspendedThrows, ToHandler, Removing, ReturnPoints
  <2> QED
    BY Zenon, <2>1, <2>2, <1>c
<1>22. ASSUME NEW t \in Threads, Stop(t) PROVE TerminatedOK'
  <2>1. isTerminated' = isTerminated /\ drivers' = drivers
    BY Zenon, <1>22 DEF Stop
  <2>2. \A u \in Threads : Removing(u) => Removing(u)' /\ drv'[u] = drv[u]
    BY Zenon, <1>22, <1>a, <1>b, ProcsSplit DEF Stop, Removing, ReturnPoints
  <2> QED
    BY Zenon, <2>1, <2>2, <1>c
<1>23. ASSUME NEW t \in Threads, LeaveSuspended(t) PROVE TerminatedOK'
  <2>1. isTerminated' \cap drivers \subseteq isTerminated /\ drivers' = drivers
    BY Zenon, <1>23, ShouldStopCases, <1>b DEF LeaveSuspended, IInv, Ownership
  <2>2. \A u \in Threads : Removing(u) => Removing(u)' /\ drv'[u] = drv[u]
    BY Zenon, <1>23, <1>a, <1>b, ProcsSplit
    DEF LeaveSuspended, ToHandler, Removing, ReturnPoints
  <2> QED
    BY Zenon, <2>1, <2>2, <1>c
<1>24. ASSUME NEW t \in Threads, Unwind(t) PROVE TerminatedOK'
  <2>1. /\ Removing(t)' /\ drv'[t] = drv[t] /\ drivers' = drivers
        /\ isTerminated' = isTerminated \cup {drv[t]} /\ ~Removing(t)
    BY Zenon, <1>24, <1>a, ProcsSplit DEF Unwind, Removing
  <2>2. \A u \in Threads : Removing(u) => Removing(u)' /\ drv'[u] = drv[u]
    BY Zenon, <1>24, <1>a, <1>b, ProcsSplit DEF Unwind, Removing
  <2> QED
    BY Zenon, <2>1, <2>2 DEF TerminatedOK
<1>25. ASSUME NEW t \in Threads, Close(t) PROVE TerminatedOK'
  <2>1. isTerminated' = isTerminated /\ drivers' = drivers /\ drv' = drv
    BY Zenon, <1>25 DEF Close
  <2>2. \A u \in Threads \ {t} : Removing(u) => Removing(u)'
    BY Zenon, <1>25, <1>a, ProcsSplit DEF Close, Removing
  <2>3. drv[t] \in drivers /\ Removing(t) => Removing(t)'
    <3>1. drv[t] \in drivers /\ Removing(t) => drv[t] \notin closed
      BY Zenon, <1>25 DEF Close, Removing, Holds, IInv, ClosedSlots
    <3> QED
      BY Zenon, <1>25, <1>a, <3>1, ProcsSplit DEF Close, Removing
  <2> QED
    BY Zenon, <2>1, <2>2, <2>3 DEF TerminatedOK
<1>26. ASSUME NEW t \in Threads, RemoveDriver(t) PROVE TerminatedOK'
  <2>1. /\ isTerminated' = isTerminated /\ drivers' = drivers \ {drv[t]} /\ drv' = drv
        /\ ret' = ret /\ \A u \in Threads \ {t} : pc'[u] = pc[u]
    BY Zenon, <1>26, <1>a, ProcsSplit DEF RemoveDriver
  <2> QED
    BY Zenon, <2>1 DEF TerminatedOK, Removing
<1>27. ASSUME NEW t \in Threads, Leave(t) PROVE TerminatedOK'
  <2>1. isTerminated' \cap drivers \subseteq isTerminated /\ drivers' = drivers
    BY Zenon, <1>27, ShouldStopCases, <1>b DEF Leave, IInv, Ownership
  <2>2. \A u \in Threads : Removing(u) => Removing(u)' /\ drv'[u] = drv[u]
    BY Zenon, <1>27, <1>a, <1>b, ProcsSplit DEF Leave, Removing, ReturnPoints
  <2> QED
    BY Zenon, <2>1, <2>2, <1>c
<1>28. ASSUME NEW t \in Threads, RanBlocked(t) PROVE TerminatedOK'
  <2>1. isTerminated' = isTerminated /\ drivers' = drivers
    BY Zenon, <1>28 DEF RanBlocked, EndClosure
  <2>2. \A u \in Threads : Removing(u) => Removing(u)' /\ drv'[u] = drv[u]
    BY Zenon, <1>28, <1>a, <1>b, ProcsSplit
    DEF RanBlocked, EndClosure, Removing, ReturnPoints
  <2> QED
    BY Zenon, <2>1, <2>2, <1>c
<1>29. ASSUME NEW t \in Threads, RanYielded(t) PROVE TerminatedOK'
  <2>1. isTerminated' = isTerminated /\ drivers' = drivers
    BY Zenon, <1>29 DEF RanYielded, EndClosure
  <2>2. \A u \in Threads : Removing(u) => Removing(u)' /\ drv'[u] = drv[u]
    BY Zenon, <1>29, <1>a, <1>b, ProcsSplit
    DEF RanYielded, EndClosure, Removing, ReturnPoints
  <2> QED
    BY Zenon, <2>1, <2>2, <1>c
<1>30. ASSUME NEW t \in Threads, Requeue(t) PROVE TerminatedOK'
  <2>1. isTerminated' = isTerminated /\ drivers' = drivers
    BY Zenon, <1>30 DEF Requeue, EndClosure
  <2>2. \A u \in Threads : Removing(u) => Removing(u)' /\ drv'[u] = drv[u]
    BY Zenon, <1>30, <1>a, <1>b, ProcsSplit
    DEF Requeue, EndClosure, Removing, ReturnPoints
  <2> QED
    BY Zenon, <2>1, <2>2, <1>c
<1>31. ASSUME NEW t \in Threads, RanOther(t) PROVE TerminatedOK'
  <2>1. isTerminated' = isTerminated /\ drivers' = drivers
    BY Zenon, <1>31 DEF RanOther, EndClosure
  <2>2. \A u \in Threads : Removing(u) => Removing(u)' /\ drv'[u] = drv[u]
    BY Zenon, <1>31, <1>a, <1>b, ProcsSplit
    DEF RanOther, EndClosure, Removing, ReturnPoints
  <2> QED
    BY Zenon, <2>1, <2>2, <1>c
<1>32. ASSUME NEW t \in Threads, SetResume(t) PROVE TerminatedOK'
  <2>1. isTerminated' = isTerminated /\ drivers' = drivers
    BY Zenon, <1>32 DEF SetResume, EndClosure
  <2>2. \A u \in Threads : Removing(u) => Removing(u)' /\ drv'[u] = drv[u]
    BY Zenon, <1>32, <1>a, <1>b, ProcsSplit
    DEF SetResume, EndClosure, Removing, ReturnPoints
  <2> QED
    BY Zenon, <2>1, <2>2, <1>c
<1>33. ASSUME NEW t \in Threads, FulfilEarly(t) PROVE TerminatedOK'
  <2>1. isTerminated' = isTerminated /\ drivers' = drivers
    BY Zenon, <1>33 DEF FulfilEarly
  <2>2. \A u \in Threads : Removing(u) => Removing(u)' /\ drv'[u] = drv[u]
    BY Zenon, <1>33, <1>a, <1>b, ProcsSplit DEF FulfilEarly, Removing, ReturnPoints
  <2> QED
    BY Zenon, <2>1, <2>2, <1>c
<1> QED
  BY Zenon, <1>1, <1>2, <1>3, <1>4, <1>5, <1>6, <1>7, <1>8,
      <1>9, <1>10, <1>11, <1>12, <1>13, <1>14, <1>15, <1>16, <1>17, <1>18,
      <1>19, <1>20, <1>21, <1>22, <1>23, <1>24, <1>25, <1>26, <1>27, <1>28,
      <1>29, <1>30, <1>31, <1>32, <1>33
  DEF Next, ClientStep, TerminateStep, EnterStep, OperatorStep, ThreadStep

\* RemovedOK is preserved: the thread comes from Task::removeDriver, or found
\* the driver closed, and no driver gets a slot again.
LEMMA RemovedStep ==
  ASSUME IInv, TerminatedOK, RemovedOK, Next, ~terminateRequested',
         ~terminateRequested
  PROVE  RemovedOK'
<1> USE DEF taskVars, slotVars, flagVars, closeVars, execVars, procVars
<1>a. /\ pc \in [Procs -> PCs] /\ ret \in [Procs -> PCs]
      /\ drv \in [Threads -> Drivers \cup {NoDriver}]
      /\ reason \in [Threads -> StopReasons]
  BY Zenon DEF IInv, TypeOK
<1>b. ReturnPoints /\ TypeOK
  BY Zenon DEF IInv
<1>c. ASSUME drivers' \subseteq drivers,
             \A u \in Threads : Removed(u)' => Removed(u) /\ drv'[u] = drv[u]
      PROVE  RemovedOK'
  BY Zenon, <1>c DEF RemovedOK
<1>1. ASSUME NEW f \in {"kCanceled", "kAborted"}, RequestCancel(f)
      PROVE  RemovedOK'
  <2>1. drivers' \subseteq drivers
    BY Zenon, <1>1 DEF RequestCancel, Clients
  <2>2. \A u \in Threads : Removed(u)' => Removed(u) /\ drv'[u] = drv[u]
    BY Zenon, <1>1, <1>a, <1>b, ProcsSplit
    DEF RequestCancel, Clients, Removed, Closing, ReturnPoints
  <2> QED
    BY Zenon, <2>1, <2>2, <1>c
<1>2. ASSUME Start PROVE RemovedOK'
  <2>1. \A u \in Threads : pc[u] = "idle"
    BY Zenon, <1>2 DEF Start, IInv, RunHasDriver
  <2> QED
    BY Zenon, <1>2, <2>1 DEF Start, RemovedOK, Removed, Closing
<1>3. ASSUME RequestPause PROVE RemovedOK'
  <2>1. drivers' \subseteq drivers
    BY Zenon, <1>3 DEF RequestPause
  <2>2. \A u \in Threads : Removed(u)' => Removed(u) /\ drv'[u] = drv[u]
    BY Zenon, <1>3, <1>a, <1>b, ProcsSplit
    DEF RequestPause, Removed, Closing, ReturnPoints
  <2> QED
    BY Zenon, <2>1, <2>2, <1>c
<1>4. ASSUME Resume PROVE RemovedOK'
  <2>1. drivers' \subseteq drivers
    BY Zenon, <1>4 DEF Resume
  <2>2. \A u \in Threads : Removed(u)' => Removed(u) /\ drv'[u] = drv[u]
    BY Zenon, <1>4, <1>a, <1>b, ProcsSplit DEF Resume, Removed, Closing, ReturnPoints
  <2> QED
    BY Zenon, <2>1, <2>2, <1>c
<1>5. ASSUME RequestYield PROVE RemovedOK'
  <2>1. drivers' \subseteq drivers
    BY Zenon, <1>5 DEF RequestYield
  <2>2. \A u \in Threads : Removed(u)' => Removed(u) /\ drv'[u] = drv[u]
    BY Zenon, <1>5, <1>a, <1>b, ProcsSplit
    DEF RequestYield, Removed, Closing, ReturnPoints
  <2> QED
    BY Zenon, <2>1, <2>2, <1>c
<1>6. ASSUME SetAllOutputConsumed PROVE RemovedOK'
  <2>1. /\ drivers' = drivers /\ drv' = drv /\ reason' = reason
        /\ \A u \in Threads : pc'[u] = pc[u] /\ ret'[u] = ret[u]
    BY Zenon, <1>6, <1>a, ProcsSplit DEF SetAllOutputConsumed, Clients
  <2> QED
    BY Zenon, <2>1, <1>c DEF Removed, Closing
<1>7. ASSUME NEW d \in Drivers, Fulfil(d) PROVE RemovedOK'
  <2>1. drivers' \subseteq drivers
    BY Zenon, <1>7 DEF Fulfil, Clients
  <2>2. \A u \in Threads : Removed(u)' => Removed(u) /\ drv'[u] = drv[u]
    BY Zenon, <1>7, <1>a, <1>b, ProcsSplit
    DEF Fulfil, Clients, Removed, Closing, ReturnPoints
  <2> QED
    BY Zenon, <2>1, <2>2, <1>c
<1>8. ASSUME NEW p \in Procs, SetError(p) PROVE RemovedOK'
  <2>1. drivers' \subseteq drivers
    BY Zenon, <1>8 DEF SetError
  <2>2. \A u \in Threads : Removed(u)' => Removed(u) /\ drv'[u] = drv[u]
    BY ZenonT(30), <1>8, <1>a, <1>b, ProcsSplit
    DEF SetError, Removed, Closing, ReturnPoints
  <2> QED
    BY Zenon, <2>1, <2>2, <1>c
<1>9. ASSUME NEW p \in Procs, TerminateAgain(p) PROVE RemovedOK'
  <2>1. drivers' \subseteq drivers
    BY Zenon, <1>9 DEF TerminateAgain
  <2>2. \A u \in Threads : Removed(u)' => Removed(u) /\ drv'[u] = drv[u]
    BY Zenon, <1>9, <1>a, <1>b, ProcsSplit
    DEF TerminateAgain, Removed, Closing, ReturnPoints
  <2> QED
    BY Zenon, <2>1, <2>2, <1>c
<1>10. ASSUME NEW p \in Procs, Terminate(p) PROVE RemovedOK'
  <2>1. drivers' \subseteq drivers
    BY Zenon, <1>10 DEF Terminate
  <2>2. \A u \in Threads : Removed(u)' => Removed(u) /\ drv'[u] = drv[u]
    BY Zenon, <1>10, <1>a, <1>b, ProcsSplit
    DEF Terminate, Removed, Closing, ReturnPoints
  <2> QED
    BY Zenon, <2>1, <2>2, <1>c
<1>11. ASSUME NEW p \in Procs, CloseByTask(p) PROVE RemovedOK'
  <2>1. drivers' \subseteq drivers
    BY Zenon, <1>11 DEF CloseByTask
  <2>2. \A u \in Threads : Removed(u)' => Removed(u) /\ drv'[u] = drv[u]
    BY Zenon, <1>11, <1>a, <1>b, ProcsSplit
    DEF CloseByTask, Removed, Closing, ReturnPoints
  <2> QED
    BY Zenon, <2>1, <2>2, <1>c
<1>12. ASSUME NEW p \in Procs, TerminateDone(p) PROVE RemovedOK'
  <2>1. drivers' \subseteq drivers
    BY Zenon, <1>12 DEF TerminateDone
  <2>2. \A u \in Threads : Removed(u)' => Removed(u) /\ drv'[u] = drv[u]
    BY Zenon, <1>12, <1>a, <1>b, ProcsSplit
    DEF TerminateDone, Removed, Closing, ReturnPoints
  <2> QED
    BY Zenon, <2>1, <2>2, <1>c
<1>13. ASSUME NEW t \in Threads, NEW d \in Drivers, EnterClosed(t, d)
       PROVE  RemovedOK'
  <2>1. drivers' \subseteq drivers
    BY Zenon, <1>13 DEF EnterClosed, Dequeue, EndClosure
  <2>2. \A u \in Threads : Removed(u)' => Removed(u) /\ drv'[u] = drv[u]
    BY Zenon, <1>13, <1>a, <1>b, ProcsSplit
    DEF EnterClosed, Dequeue, EndClosure, Removed, Closing, ReturnPoints
  <2> QED
    BY Zenon, <2>1, <2>2, <1>c
<1>14. ASSUME NEW t \in Threads, NEW d \in Drivers, EnterUnqueued(t, d)
       PROVE  RemovedOK'
  <2>1. drivers' \subseteq drivers
    BY Zenon, <1>14 DEF EnterUnqueued, Dequeue
  <2>2. \A u \in Threads : Removed(u)' => Removed(u) /\ drv'[u] = drv[u]
    BY Zenon, <1>14, <1>a, <1>b, ProcsSplit
    DEF EnterUnqueued, Dequeue, Removed, Closing, ReturnPoints
  <2> QED
    BY Zenon, <2>1, <2>2, <1>c
<1>15. ASSUME NEW t \in Threads, NEW d \in Drivers, EnterRefused(t, d)
       PROVE  RemovedOK'
  <2>1. drivers' \subseteq drivers
    BY Zenon, <1>15 DEF EnterRefused, Dequeue
  <2>2. \A u \in Threads : Removed(u)' => Removed(u) /\ drv'[u] = drv[u]
    BY Zenon, <1>15, <1>a, <1>b, ProcsSplit
    DEF EnterRefused, Dequeue, Removed, Closing, ReturnPoints
  <2> QED
    BY Zenon, <2>1, <2>2, <1>c
<1>16. ASSUME NEW t \in Threads, NEW d \in Drivers, Enter(t, d)
       PROVE  RemovedOK'
  <2>1. drivers' \subseteq drivers
    BY Zenon, <1>16 DEF Enter, Dequeue
  <2>2. \A u \in Threads : Removed(u)' => Removed(u) /\ drv'[u] = drv[u]
    BY <1>16, <1>a, <1>b, ProcsSplit
    DEF Enter, Dequeue, Removed, Closing, ReturnPoints
  <2> QED
    BY Zenon, <2>1, <2>2, <1>c
<1>17. ASSUME NEW t \in Threads, Block(t) PROVE RemovedOK'
  <2>1. drivers' \subseteq drivers
    BY Zenon, <1>17 DEF Block
  <2>2. \A u \in Threads : Removed(u)' => Removed(u) /\ drv'[u] = drv[u]
    BY Zenon, <1>17, <1>a, <1>b, ProcsSplit DEF Block, Removed, Closing, ReturnPoints
  <2> QED
    BY Zenon, <2>1, <2>2, <1>c
<1>18. ASSUME NEW t \in Threads, AtEnd(t) PROVE RemovedOK'
  <2>1. drivers' \subseteq drivers
    BY Zenon, <1>18 DEF AtEnd
  <2>2. \A u \in Threads : Removed(u)' => Removed(u) /\ drv'[u] = drv[u]
    BY Zenon, <1>18, <1>a, <1>b, ProcsSplit DEF AtEnd, Removed, Closing, ReturnPoints
  <2> QED
    BY Zenon, <2>1, <2>2, <1>c
<1>19. ASSUME NEW t \in Threads, Throw(t) PROVE RemovedOK'
  <2>1. drivers' \subseteq drivers
    BY Zenon, <1>19 DEF Throw, ToHandler
  <2>2. \A u \in Threads : Removed(u)' => Removed(u) /\ drv'[u] = drv[u]
    BY Zenon, <1>19, <1>a, <1>b, ProcsSplit
    DEF Throw, ToHandler, Removed, Closing, ReturnPoints
  <2> QED
    BY Zenon, <2>1, <2>2, <1>c
<1>20. ASSUME NEW t \in Threads, EnterSuspended(t) PROVE RemovedOK'
  <2>1. drivers' \subseteq drivers
    BY Zenon, <1>20 DEF EnterSuspended
  <2>2. \A u \in Threads : Removed(u)' => Removed(u) /\ drv'[u] = drv[u]
    BY Zenon, <1>20, <1>a, <1>b, ProcsSplit
    DEF EnterSuspended, Removed, Closing, ReturnPoints
  <2> QED
    BY Zenon, <2>1, <2>2, <1>c
<1>21. ASSUME NEW t \in Threads, EnterSuspendedThrows(t) PROVE RemovedOK'
  <2>1. drivers' \subseteq drivers
    BY Zenon, <1>21 DEF EnterSuspendedThrows, ToHandler
  <2>2. \A u \in Threads : Removed(u)' => Removed(u) /\ drv'[u] = drv[u]
    BY Zenon, <1>21, <1>a, <1>b, ProcsSplit
    DEF EnterSuspendedThrows, ToHandler, Removed, Closing, ReturnPoints
  <2> QED
    BY Zenon, <2>1, <2>2, <1>c
<1>22. ASSUME NEW t \in Threads, Stop(t) PROVE RemovedOK'
  <2>1. \A u \in Threads : Removed(u)' => Removed(u)
    BY Zenon, <1>22, <1>a, <1>b, ProcsSplit, ShouldStopCases
    DEF Stop, Removed, Closing
  <2> QED
    BY Zenon, <1>22, <2>1, <1>c DEF Stop
<1>23. ASSUME NEW t \in Threads, LeaveSuspended(t) PROVE RemovedOK'
  <2>1. drivers' \subseteq drivers
    BY Zenon, <1>23 DEF LeaveSuspended, ToHandler
  <2>2. \A u \in Threads : Removed(u)' => Removed(u) /\ drv'[u] = drv[u]
    BY <1>23, <1>a, <1>b, ProcsSplit
    DEF LeaveSuspended, ToHandler, Removed, Closing, ReturnPoints
  <2> QED
    BY Zenon, <2>1, <2>2, <1>c
<1>24. ASSUME NEW t \in Threads, Unwind(t) PROVE RemovedOK'
  <2>1. drivers' \subseteq drivers
    BY Zenon, <1>24 DEF Unwind
  <2>2. \A u \in Threads : Removed(u)' => Removed(u) /\ drv'[u] = drv[u]
    BY Zenon, <1>24, <1>a, <1>b, ProcsSplit
    DEF Unwind, Removed, Closing, ReturnPoints
  <2> QED
    BY Zenon, <2>1, <2>2, <1>c
<1>25. ASSUME NEW t \in Threads, Close(t) PROVE RemovedOK'
  <2>1. drivers' = drivers /\ drv' = drv
    BY Zenon, <1>25 DEF Close
  <2>2. \A u \in Threads \ {t} : Removed(u)' => Removed(u)
    BY Zenon, <1>25, <1>a, ProcsSplit DEF Close, Removed, Closing
  <2>3. Removed(t)' => drv[t] \notin drivers
    <3>1. CASE ret[t] = "leave"
      <4>1. drv[t] \notin closed \cap drivers
        BY Zenon, <1>25, <3>1 DEF Close, Holds, IInv, ClosedSlots
      <4> QED
        BY Zenon, <1>25, <1>a, <3>1, <4>1, ProcsSplit DEF Close, Removed, Closing
    <3>2. CASE ret[t] = "ran"
      BY Zenon, <1>25, <1>a, <3>2, ProcsSplit DEF Close, Removed, Closing, RemovedOK
    <3> QED
      BY Zenon, <1>25, <1>b, <3>1, <3>2 DEF Close, ReturnPoints
  <2> QED
    BY Zenon, <2>1, <2>2, <2>3 DEF RemovedOK
<1>26. ASSUME NEW t \in Threads, RemoveDriver(t) PROVE RemovedOK'
  <2>1. /\ drivers' = drivers \ {drv[t]} /\ drv' = drv /\ reason' = reason
        /\ ret' = ret /\ \A u \in Threads \ {t} : pc'[u] = pc[u]
    BY Zenon, <1>26, <1>a, ProcsSplit DEF RemoveDriver
  <2> QED
    BY Zenon, <2>1 DEF RemovedOK, Removed, Closing
<1>27. ASSUME NEW t \in Threads, Leave(t) PROVE RemovedOK'
  <2>1. \A u \in Threads \ {t} : Removed(u)' => Removed(u)
    BY Zenon, <1>27, <1>a, ProcsSplit DEF Leave, Removed, Closing
  <2>2. pc[t] = "leave" /\ drivers' = drivers /\ drv' = drv
    BY Zenon, <1>27 DEF Leave
  <2>3. Removed(t)' => drv[t] \in isTerminated
    BY Zenon, <1>27, <1>a, <1>b, ProcsSplit DEF Leave, Removed, Closing
  <2>4. drv[t] \in drivers => drv[t] \notin isTerminated
    BY <2>2 DEF TerminatedOK, Removing, Holds, IInv, Ownership
  <2> QED
    BY Zenon, <2>1, <2>2, <2>3, <2>4 DEF RemovedOK
<1>28. ASSUME NEW t \in Threads, RanBlocked(t) PROVE RemovedOK'
  <2>1. drivers' \subseteq drivers
    BY Zenon, <1>28 DEF RanBlocked, EndClosure
  <2>2. \A u \in Threads : Removed(u)' => Removed(u) /\ drv'[u] = drv[u]
    BY <1>28, <1>a, <1>b, ProcsSplit
    DEF RanBlocked, EndClosure, Removed, Closing, ReturnPoints
  <2> QED
    BY Zenon, <2>1, <2>2, <1>c
<1>29. ASSUME NEW t \in Threads, RanYielded(t) PROVE RemovedOK'
  <2>1. drivers' \subseteq drivers
    BY Zenon, <1>29 DEF RanYielded, EndClosure
  <2>2. \A u \in Threads : Removed(u)' => Removed(u) /\ drv'[u] = drv[u]
    BY <1>29, <1>a, <1>b, ProcsSplit
    DEF RanYielded, EndClosure, Removed, Closing, ReturnPoints
  <2> QED
    BY Zenon, <2>1, <2>2, <1>c
<1>30. ASSUME NEW t \in Threads, Requeue(t) PROVE RemovedOK'
  <2>1. drivers' \subseteq drivers
    BY Zenon, <1>30 DEF Requeue, EndClosure
  <2>2. \A u \in Threads : Removed(u)' => Removed(u) /\ drv'[u] = drv[u]
    BY Zenon, <1>30, <1>a, <1>b, ProcsSplit
    DEF Requeue, EndClosure, Removed, Closing, ReturnPoints
  <2> QED
    BY Zenon, <2>1, <2>2, <1>c
<1>31. ASSUME NEW t \in Threads, RanOther(t) PROVE RemovedOK'
  <2>1. drivers' \subseteq drivers
    BY Zenon, <1>31 DEF RanOther, EndClosure
  <2>2. \A u \in Threads : Removed(u)' => Removed(u) /\ drv'[u] = drv[u]
    BY Zenon, <1>31, <1>a, <1>b, ProcsSplit
    DEF RanOther, EndClosure, Removed, Closing, ReturnPoints
  <2> QED
    BY Zenon, <2>1, <2>2, <1>c
<1>32. ASSUME NEW t \in Threads, SetResume(t) PROVE RemovedOK'
  <2>1. drivers' \subseteq drivers
    BY Zenon, <1>32 DEF SetResume, EndClosure
  <2>2. \A u \in Threads : Removed(u)' => Removed(u) /\ drv'[u] = drv[u]
    BY Zenon, <1>32, <1>a, <1>b, ProcsSplit
    DEF SetResume, EndClosure, Removed, Closing, ReturnPoints
  <2> QED
    BY Zenon, <2>1, <2>2, <1>c
<1>33. ASSUME NEW t \in Threads, FulfilEarly(t) PROVE RemovedOK'
  <2>1. drivers' \subseteq drivers
    BY Zenon, <1>33 DEF FulfilEarly
  <2>2. \A u \in Threads : Removed(u)' => Removed(u) /\ drv'[u] = drv[u]
    BY Zenon, <1>33, <1>a, <1>b, ProcsSplit
    DEF FulfilEarly, Removed, Closing, ReturnPoints
  <2> QED
    BY Zenon, <2>1, <2>2, <1>c
<1> QED
  BY ZenonT(30), <1>1, <1>2, <1>3, <1>4, <1>5, <1>6, <1>7, <1>8,
      <1>9, <1>10, <1>11, <1>12, <1>13, <1>14, <1>15, <1>16, <1>17, <1>18,
      <1>19, <1>20, <1>21, <1>22, <1>23, <1>24, <1>25, <1>26, <1>27, <1>28,
      <1>29, <1>30, <1>31, <1>32, <1>33
  DEF Next, ClientStep, TerminateStep, EnterStep, OperatorStep, ThreadStep
=============================================================================
