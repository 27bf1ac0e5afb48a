----------------------------- MODULE TaskDriver -----------------------------
(***************************************************************************)
(* The life of the Drivers of one Velox Task (velox/exec/Task.cpp,         *)
(* velox/exec/Driver.cpp), in ungrouped multi-threaded execution.          *)
(*                                                                         *)
(* Executor threads pick drivers from the executor's queue, enter the task,*)
(* run operators, block on futures, yield, suspend themselves, finish or   *)
(* throw.  Clients pause and resume the task, ask it to yield, cancel it,  *)
(* and report that its output was consumed.  Every step below is one       *)
(* critical section of Task::mutex_, or one stretch of code between two of *)
(* them.                                                                   *)
(*                                                                         *)
(* A boolean of ThreadState, or Driver::closed_, is the set of the drivers *)
(* for which it is true.                                                   *)
(***************************************************************************)
EXTENDS Integers, FiniteSets

CONSTANTS
  Threads,             \* the threads of the executor
  Drivers,             \* the drivers Task::start creates
  OutputDrivers,       \* those of the output pipeline
  HasPartitionedOutput,\* Task::hasPartitionedOutput()
  MayPause,            \* does a client pause and resume the task?
  MayYield,            \* does a client call requestYield()?
  MayBlock,            \* do operators block?
  MaySuspend,          \* do operators enter suspended sections?
  MayAbort,            \* does a client call requestAbort()?
  MayCancelEarly,      \* may requestCancel() come before Task::start()?
  MaxArmed,            \* bound: callbacks of one driver awaiting a promise
  MaxClosures          \* bound: closures of one driver when another is added

\* The clients of the task, each a thread outside the executor.
Clients == {"canceller", "consumer", "fulfiller"}
Procs == Threads \cup Clients

\* The driver of a thread that runs none.
NoDriver == "none"

ASSUME DriversAssumption ==
  /\ IsFiniteSet(Drivers)
  /\ OutputDrivers \subseteq Drivers
  /\ OutputDrivers # {}

ASSUME ThreadsAssumption ==
  /\ IsFiniteSet(Threads)
  /\ Threads \cap Clients = {}

ASSUME FlagsAssumption ==
  /\ HasPartitionedOutput \in BOOLEAN
  /\ MayPause \in BOOLEAN
  /\ MayYield \in BOOLEAN
  /\ MayBlock \in BOOLEAN
  /\ MaySuspend \in BOOLEAN
  /\ MayAbort \in BOOLEAN
  /\ MayCancelEarly \in BOOLEAN
  /\ MaxArmed \in Nat
  /\ MaxClosures \in Nat

VARIABLES
  \* Task
  started,                   \* Task::start has filled drivers_
  state,                     \* state_
  exception,                 \* exception_ is set
  partitionedOutputConsumed, \* partitionedOutputConsumed_
  pauseRequested,            \* pauseRequested_
  terminateRequested,        \* terminateRequested_
  toYield,                   \* toYield_
  numThreads,                \* numThreads_
  threadFinishPromises,      \* clients holding an unrealized finish future
  drivers,                   \* the drivers in the slots of drivers_
  numRunningDrivers,         \* numRunningDrivers_
  numFinishedDrivers,        \* numFinishedDrivers_
  numFinishedOutputDrivers,  \* of the ungrouped split group state
  \* ThreadState of each driver, and Driver::closed_
  isEnqueued, onThread, isTerminated, hasBlockingFuture, isSuspended, closed,
  \* The executor and the futures drivers wait for
  queue,                     \* Driver::run closures waiting in the executor
  armed,                     \* BlockingStates whose callback awaits a promise
  \* Threads and clients
  pc,                        \* where a thread is in the code
  drv,                       \* the driver an executor thread runs
  reason,                    \* StopReason runInternal is about to return
  realized,                  \* threads whose blocking future is realized
  goal,                      \* the argument of Task::terminate, else kFailed
  ret,                       \* where Task::terminate returns to
  offThreadDrivers,          \* terminate's drivers still to closeByTask
  pauser,                    \* the client that pauses: "idle", "requested"
  \* History
  closes,                    \* how often each driver's operators were closed
  failed                     \* the VELOX_CHECKs that have failed

taskVars == <<started, state, exception, partitionedOutputConsumed,
              pauseRequested, terminateRequested, toYield, numThreads,
              threadFinishPromises>>
slotVars == <<drivers, numRunningDrivers, numFinishedDrivers,
              numFinishedOutputDrivers>>
flagVars == <<isEnqueued, onThread, isTerminated, hasBlockingFuture,
              isSuspended>>
closeVars == <<closed, closes, offThreadDrivers>>
execVars == <<queue, armed>>
procVars == <<drv, reason, realized, goal, ret>>

vars == <<taskVars, slotVars, flagVars, closeVars, execVars, pc, procVars,
          pauser, failed>>

-----------------------------------------------------------------------------
TaskStates == {"kRunning", "kFinished", "kCanceled", "kAborted", "kFailed"}

StopReasons == {"kNone", "kPause", "kTerminate", "kAlreadyTerminated",
                "kYield", "kBlock", "kAtEnd", "kAlreadyOnThread"}

\* Program points of an executor thread:
\*   idle       waiting for a closure            running    operator loop
\*   suspended  inside a suspended section       unwind     ~CancelGuard
\*   close      Driver::close                    remove     Task::removeDriver
\*   leave      Task::leave in ~CancelGuard      ran        end of Driver::run
\*   setResume  BlockingState::setResume         enqueue    Driver::enqueue
\* and of any thread: setError (Task::setError), terminate and closeByTask
\* (the two halves of Task::terminate); of the canceller: waiting for the
\* finish future.
PCs == {"idle", "running", "suspended", "unwind", "close", "remove", "leave",
        "ran", "setResume", "enqueue", "setError", "terminate",
        "closeByTask", "waiting"}

Checks == {"enqueueInternal", "enter", "unhandledStopReason", "setResume",
           "resumeCallback", "enterSuspended", "resumeFailedTask",
           "resumeOffThread"}

\* Mutant of isRunning: only one of the final states is looked for.
isRunningUnlessFinished == state # "kFinished"

\* Task::isRunningLocked.
isRunning == state = "kRunning"

\* Task::shouldStopLocked, and Task::shouldStop, which reads the same flags.
ShouldStop ==
  IF terminateRequested THEN "kTerminate"
  ELSE IF pauseRequested THEN "kPause"
  ELSE IF toYield > 0 THEN "kYield" ELSE "kNone"

\* The yield counter after a call of shouldStop.
ToYieldAfterStop == IF ShouldStop = "kYield" THEN toYield - 1 ELSE toYield

\* Mutants of PromisesAfterLeave: the count is looked at before it goes down,
\* or not at all.
PromisesBeforeLeave == IF numThreads = 0 THEN {} ELSE threadFinishPromises
PromisesAnyLeave == {}

\* Task::finishedLocked runs when the last thread has left.
PromisesAfterLeave == IF numThreads = 1 THEN {} ELSE threadFinishPromises

\* Task::checkIfFinishedLocked, on the counters it is about to see.
CheckIfFinished(finished, finishedOutput, consumed) ==
  /\ isRunning
  /\ \/ finished = Cardinality(Drivers)
     \/ finishedOutput = Cardinality(OutputDrivers)
  /\ ~HasPartitionedOutput \/ consumed

Init ==
  /\ started = FALSE
  /\ state = "kRunning"
  /\ exception = FALSE
  /\ partitionedOutputConsumed = FALSE
  /\ pauseRequested = FALSE
  /\ terminateRequested = FALSE
  /\ toYield = 0
  /\ numThreads = 0
  /\ threadFinishPromises = {}
  /\ drivers = {}
  /\ numRunningDrivers = 0
  /\ numFinishedDrivers = 0
  /\ numFinishedOutputDrivers = 0
  /\ isEnqueued = {} /\ onThread = {} /\ isTerminated = {}
  /\ hasBlockingFuture = {} /\ isSuspended = {}
  /\ closed = {}
  /\ closes = [d \in Drivers |-> 0]
  /\ offThreadDrivers = {}
  /\ queue = [d \in Drivers |-> 0]
  /\ armed = [d \in Drivers |-> 0]
  /\ pc = [p \in Procs |-> "idle"]
  /\ drv = [t \in Threads |-> NoDriver]
  /\ reason = [t \in Threads |-> "kNone"]
  /\ realized = {}
  /\ goal = [p \in Procs |-> "kFailed"]
  /\ ret = [p \in Procs |-> "idle"]
  /\ pauser = "idle"
  /\ failed = {}

-----------------------------------------------------------------------------
(* Task::start and the clients *)

\* Task::start: the drivers are created, counted and enqueued in one critical
\* section, whatever the state of the task.
Start ==
  /\ ~started
  /\ started' = TRUE
  /\ drivers' = Drivers
  /\ numRunningDrivers' = numRunningDrivers + Cardinality(Drivers)
  /\ isEnqueued' = Drivers
  /\ queue' = [d \in Drivers |-> 1]
  /\ UNCHANGED <<state, exception, partitionedOutputConsumed, pauseRequested,
                 terminateRequested, toYield, numThreads,
                 threadFinishPromises, numFinishedDrivers,
                 numFinishedOutputDrivers, onThread, isTerminated,
                 hasBlockingFuture, isSuspended, closeVars, armed, pc,
                 procVars, pauser, failed>>

\* Task::requestPause: the future is realized at once when no thread runs.
RequestPause ==
  /\ MayPause
  /\ pauser = "idle"
  /\ pauser' = "requested"
  /\ pauseRequested' = TRUE
  /\ threadFinishPromises' = IF numThreads = 0 THEN threadFinishPromises
                             ELSE threadFinishPromises \cup {"pauser"}
  /\ UNCHANGED <<started, state, exception, partitionedOutputConsumed,
                 terminateRequested, toYield, numThreads, slotVars, flagVars,
                 closeVars, execVars, pc, procVars, failed>>

\* The pause future is realized and the task has not been resumed.
PauseAcked == pauser = "requested" /\ "pauser" \notin threadFinishPromises

\* The drivers Task::resume looks at, and those on which its check fails.
ResumeCandidates == drivers \ (isSuspended \cup isEnqueued)
ResumeCheckFails == ResumeCandidates \cap (onThread \cup isTerminated)

\* Task::resume enqueues every driver that is neither suspended, enqueued nor
\* blocked.  It is called once the pause future is realized.  When its check
\* fails on a driver the loop stops there: any of the others may have been
\* reached before.
Resume ==
  /\ PauseAcked
  /\ pauser' = "idle"
  /\ IF exception
     THEN /\ failed' = failed \cup {"resumeFailedTask"}
          /\ UNCHANGED <<pauseRequested, isEnqueued, queue>>
     ELSE /\ pauseRequested' = FALSE
          /\ \E S \in SUBSET ((ResumeCandidates \ ResumeCheckFails)
                                \ hasBlockingFuture) :
               /\ ResumeCheckFails = {} =>
                    S = ResumeCandidates \ hasBlockingFuture
               /\ isEnqueued' = isEnqueued \cup S
               /\ queue' = [d \in Drivers |->
                              IF d \in S \ closed THEN queue[d] + 1
                                                  ELSE queue[d]]
          /\ failed' = IF ResumeCheckFails = {} THEN failed
                       ELSE failed \cup {"resumeOffThread"}
  /\ UNCHANGED <<started, state, exception, partitionedOutputConsumed,
                 terminateRequested, toYield, numThreads,
                 threadFinishPromises, slotVars, onThread, isTerminated,
                 hasBlockingFuture, isSuspended, closeVars, armed, pc,
                 procVars>>

\* Task::requestYield.
RequestYield ==
  /\ MayYield
  /\ toYield' = numThreads
  /\ UNCHANGED <<started, state, exception, partitionedOutputConsumed,
                 pauseRequested, terminateRequested, numThreads,
                 threadFinishPromises, slotVars, flagVars, closeVars,
                 execVars, pc, procVars, pauser, failed>>

\* Task::requestCancel and Task::requestAbort call Task::terminate.
RequestCancel(terminalState) ==
  /\ started \/ MayCancelEarly
  /\ pc["canceller"] = "idle"
  /\ pc' = [pc EXCEPT !["canceller"] = "terminate"]
  /\ goal' = [goal EXCEPT !["canceller"] = terminalState]
  /\ ret' = [ret EXCEPT !["canceller"] = "waiting"]
  /\ UNCHANGED <<taskVars, slotVars, flagVars, closeVars, execVars, drv,
                 reason, realized, pauser, failed>>

\* Task::setAllOutputConsumed, called by the output buffer on the thread of
\* the consumer that fetched the last page.
SetAllOutputConsumed ==
  /\ HasPartitionedOutput
  /\ started
  /\ pc["consumer"] = "idle"
  /\ ~partitionedOutputConsumed
  /\ partitionedOutputConsumed' = TRUE
  /\ IF CheckIfFinished(numFinishedDrivers, numFinishedOutputDrivers, TRUE)
     THEN /\ pc' = [pc EXCEPT !["consumer"] = "terminate"]
          /\ goal' = [goal EXCEPT !["consumer"] = "kFinished"]
          /\ ret' = [ret EXCEPT !["consumer"] = "idle"]
     ELSE UNCHANGED <<pc, goal, ret>>
  /\ UNCHANGED <<started, state, exception, pauseRequested,
                 terminateRequested, toYield, numThreads,
                 threadFinishPromises, slotVars, flagVars, closeVars,
                 execVars, drv, reason, realized, pauser, failed>>

-----------------------------------------------------------------------------
(* Task::setError and Task::terminate, on any thread *)

\* Task::setError keeps the first error only, then terminates the task.
SetError(p) ==
  /\ pc[p] = "setError"
  /\ IF isRunning /\ ~exception
     THEN /\ exception' = TRUE
          /\ pc' = [pc EXCEPT ![p] = "terminate"]
     ELSE /\ pc' = [pc EXCEPT ![p] = ret[p]]
          /\ UNCHANGED exception
  /\ UNCHANGED <<started, state, partitionedOutputConsumed, pauseRequested,
                 terminateRequested, toYield, numThreads,
                 threadFinishPromises, slotVars, flagVars, closeVars,
                 execVars, procVars, pauser, failed>>

\* Task::makeFinishFutureLocked and the return from Task::terminate.  Only
\* the canceller keeps the future.
FinishFuture(p) ==
  threadFinishPromises' =
    IF p = "canceller" /\ numThreads # 0
    THEN threadFinishPromises \cup {p} ELSE threadFinishPromises

\* Task::terminate on a task that no longer runs.
TerminateAgain(p) ==
  /\ pc[p] = "terminate"
  /\ ~isRunning
  /\ pc' = [pc EXCEPT ![p] = ret[p]]
  /\ goal' = [goal EXCEPT ![p] = "kFailed"]
  /\ FinishFuture(p)
  /\ UNCHANGED <<started, state, exception, partitionedOutputConsumed,
                 pauseRequested, terminateRequested, toYield, numThreads,
                 slotVars, flagVars, closeVars, execVars, drv, reason,
                 realized, ret, pauser, failed>>

\* Mutant of EnteredForTerminate: drivers on thread are taken as well.
EnteredWhileOnThread == drivers \ isTerminated

\* Task::enterForTerminateLocked on every driver: those off thread go on the
\* terminating thread and leave their slots, those on thread are marked.
EnteredForTerminate == drivers \ (onThread \cup isTerminated)

\* The first critical section of Task::terminate.
Terminate(p) ==
  /\ pc[p] = "terminate"
  /\ isRunning
  /\ state' = goal[p]
  /\ exception' = (exception \/ goal[p] \in {"kCanceled", "kAborted"})
  /\ terminateRequested' = TRUE
  /\ numRunningDrivers' = 0
  /\ isTerminated' = isTerminated \cup drivers
  /\ onThread' = onThread \cup EnteredForTerminate
  /\ offThreadDrivers' = EnteredForTerminate
  /\ drivers' = drivers \ EnteredForTerminate
  /\ numFinishedDrivers' = numFinishedDrivers
                             + Cardinality(EnteredForTerminate)
  /\ pc' = [pc EXCEPT ![p] = "closeByTask"]
  /\ goal' = [goal EXCEPT ![p] = "kFailed"]
  /\ UNCHANGED <<started, partitionedOutputConsumed, pauseRequested, toYield,
                 numThreads, threadFinishPromises, numFinishedOutputDrivers,
                 isEnqueued, hasBlockingFuture, isSuspended, closed, closes,
                 execVars, drv, reason, realized, ret, pauser, failed>>

\* Driver::closeByTask, for one of the drivers terminate took off the task.
CloseByTask(p) ==
  /\ pc[p] = "closeByTask"
  /\ \E d \in offThreadDrivers :
       /\ offThreadDrivers' = offThreadDrivers \ {d}
       /\ closed' = closed \cup {d}
       /\ closes' = [closes EXCEPT ![d] = @ + 1]
  /\ UNCHANGED <<taskVars, slotVars, flagVars, execVars, pc, procVars, pauser,
                 failed>>

\* The rest of Task::terminate: the promises known to the task are realized
\* (a step of the environment here) and the finish future is made.
TerminateDone(p) ==
  /\ pc[p] = "closeByTask"
  /\ offThreadDrivers = {}
  /\ pc' = [pc EXCEPT ![p] = ret[p]]
  /\ FinishFuture(p)
  /\ UNCHANGED <<started, state, exception, partitionedOutputConsumed,
                 pauseRequested, terminateRequested, toYield, numThreads,
                 slotVars, flagVars, closeVars, execVars, procVars, pauser,
                 failed>>

-----------------------------------------------------------------------------
(* Driver::run and Driver::runInternal: going on thread *)

\* The closure ends at program point "to" with nothing left of its locals.
EndClosure(t, to) ==
  /\ pc' = [pc EXCEPT ![t] = to]
  /\ drv' = [drv EXCEPT ![t] = NoDriver]
  /\ reason' = [reason EXCEPT ![t] = "kNone"]
  /\ realized' = realized \ {t}
  /\ ret' = [ret EXCEPT ![t] = "idle"]

Dequeue(t, d) ==
  /\ pc[t] = "idle"
  /\ queue[d] > 0
  /\ queue' = [queue EXCEPT ![d] = @ - 1]

\* The closure of a closed driver reports "Cancelled" to the task.
EnterClosed(t, d) ==
  /\ Dequeue(t, d)
  /\ d \in closed
  /\ EndClosure(t, "setError")
  /\ UNCHANGED <<taskVars, slotVars, flagVars, closeVars, armed, goal, pauser,
                 failed>>

\* Task::enter's check that the driver is enqueued fails.
EnterUnqueued(t, d) ==
  /\ Dequeue(t, d)
  /\ d \notin isEnqueued
  /\ failed' = failed \cup {"enter"}
  /\ UNCHANGED <<taskVars, slotVars, flagVars, closeVars, armed, pc, procVars,
                 pauser>>

\* Task::enter returns kAlreadyTerminated, kAlreadyOnThread, kTerminate or
\* kPause, and the driver stays off thread.  kAlreadyOnThread has no case in
\* Driver::run.  On kTerminate setError returns at once: the task no longer
\* runs.  runInternal reads closed_ before enter takes the mutex, so a driver
\* closed meanwhile may still come here.
EnterRefused(t, d) ==
  /\ Dequeue(t, d)
  /\ d \in isEnqueued
  /\ isEnqueued' = isEnqueued \ {d}
  /\ \/ d \in isTerminated \cup onThread
     \/ ShouldStop \in {"kTerminate", "kPause"}
  /\ isTerminated' = IF d \notin onThread /\ ShouldStop = "kTerminate"
                     THEN isTerminated \cup {d} ELSE isTerminated
  /\ failed' = IF d \in onThread \ isTerminated
               THEN failed \cup {"unhandledStopReason"} ELSE failed
  /\ UNCHANGED <<taskVars, slotVars, onThread, hasBlockingFuture, isSuspended,
                 closeVars, armed, pc, procVars, pauser>>

\* Task::enter lets the thread in, or asks it to go to the end of the queue.
Enter(t, d) ==
  /\ Dequeue(t, d)
  /\ d \in isEnqueued \ (isTerminated \cup onThread)
  /\ ShouldStop \in {"kNone", "kYield"}
  /\ isEnqueued' = isEnqueued \ {d}
  /\ toYield' = ToYieldAfterStop
  /\ drv' = [drv EXCEPT ![t] = d]
  /\ IF ShouldStop = "kYield"
     THEN /\ pc' = [pc EXCEPT ![t] = "ran"]
          /\ reason' = [reason EXCEPT ![t] = "kYield"]
          /\ UNCHANGED <<numThreads, onThread, hasBlockingFuture>>
     ELSE /\ pc' = [pc EXCEPT ![t] = "running"]
          /\ numThreads' = numThreads + 1
          /\ onThread' = onThread \cup {d}
          /\ hasBlockingFuture' = hasBlockingFuture \ {d}
          /\ UNCHANGED reason
  /\ UNCHANGED <<started, state, exception, partitionedOutputConsumed,
                 pauseRequested, terminateRequested, threadFinishPromises,
                 slotVars, isTerminated, isSuspended, closeVars, armed,
                 realized, goal, ret, pauser, failed>>

-----------------------------------------------------------------------------
(* Driver::runInternal: the operator loop *)

\* Task::shouldStop asks the thread to go off thread.
Stop(t) ==
  /\ pc[t] = "running"
  /\ ShouldStop # "kNone"
  /\ toYield' = ToYieldAfterStop
  /\ reason' = [reason EXCEPT ![t] = ShouldStop]
  /\ pc' = [pc EXCEPT ![t] = "leave"]
  /\ UNCHANGED <<started, state, exception, partitionedOutputConsumed,
                 pauseRequested, terminateRequested, numThreads,
                 threadFinishPromises, slotVars, flagVars, closeVars,
                 execVars, drv, realized, goal, ret, pauser, failed>>

\* Mutant of Block: the state of the driver does not show the future.
BlockUnmarked(t) ==
  /\ MayBlock
  /\ pc[t] = "running"
  /\ armed[drv[t]] < MaxArmed
  /\ realized' = realized \ {t}
  /\ reason' = [reason EXCEPT ![t] = "kBlock"]
  /\ pc' = [pc EXCEPT ![t] = "leave"]
  /\ UNCHANGED <<taskVars, slotVars, flagVars, closeVars, execVars, drv, goal,
                 ret, pauser, failed>>

\* An operator is blocked: the constructor of BlockingState sets
\* hasBlockingFuture while the driver is still on thread.
Block(t) ==
  /\ MayBlock
  /\ pc[t] = "running"
  /\ armed[drv[t]] < MaxArmed
  /\ hasBlockingFuture' = hasBlockingFuture \cup {drv[t]}
  /\ realized' = realized \ {t}
  /\ reason' = [reason EXCEPT ![t] = "kBlock"]
  /\ pc' = [pc EXCEPT ![t] = "leave"]
  /\ UNCHANGED <<taskVars, slotVars, isEnqueued, onThread, isTerminated,
                 isSuspended, closeVars, execVars, drv, goal, ret, pauser,
                 failed>>

\* The promise is fulfilled before setResume attached the callback.
FulfilEarly(t) ==
  /\ reason[t] = "kBlock"
  /\ pc[t] # "idle"
  /\ t \notin realized
  /\ realized' = realized \cup {t}
  /\ UNCHANGED <<taskVars, slotVars, flagVars, closeVars, execVars, pc, drv,
                 reason, goal, ret, pauser, failed>>

\* The sink is finished: the driver closes itself on thread.
AtEnd(t) ==
  /\ pc[t] = "running"
  /\ reason' = [reason EXCEPT ![t] = "kAtEnd"]
  /\ ret' = [ret EXCEPT ![t] = "leave"]
  /\ pc' = [pc EXCEPT ![t] = "close"]
  /\ UNCHANGED <<taskVars, slotVars, flagVars, closeVars, execVars, drv,
                 realized, goal, pauser, failed>>

\* Mutants of ToHandler: the handler returns past the CancelGuard, or the
\* guard is not told that an exception was thrown.
ToHandlerNoGuard(t) ==
  /\ reason' = [reason EXCEPT ![t] = "kAlreadyTerminated"]
  /\ ret' = [ret EXCEPT ![t] = "idle"]
  /\ pc' = [pc EXCEPT ![t] = "setError"]


\* An exception reaches the handlers of runInternal, which call setError and
\* return kAlreadyTerminated.
ToHandler(t) ==
  /\ reason' = [reason EXCEPT ![t] = "kAlreadyTerminated"]
  /\ ret' = [ret EXCEPT ![t] = "unwind"]
  /\ pc' = [pc EXCEPT ![t] = "setError"]

Throw(t) ==
  /\ pc[t] = "running"
  /\ ToHandler(t)
  /\ UNCHANGED <<taskVars, slotVars, flagVars, closeVars, execVars, drv,
                 realized, goal, pauser, failed>>

\* Task::enterSuspended: the thread stays on the driver and is not counted.
EnterSuspended(t) ==
  /\ MaySuspend
  /\ pc[t] = "running"
  /\ drv[t] \notin isTerminated
  /\ ShouldStop \in {"kNone", "kPause"}
  /\ isSuspended' = isSuspended \cup {drv[t]}
  /\ numThreads' = numThreads - 1
  /\ threadFinishPromises' = PromisesAfterLeave
  /\ pc' = [pc EXCEPT ![t] = "suspended"]
  /\ UNCHANGED <<started, state, exception, partitionedOutputConsumed,
                 pauseRequested, terminateRequested, toYield, slotVars,
                 isEnqueued, onThread, isTerminated, hasBlockingFuture,
                 closeVars, execVars, procVars, pauser, failed>>

\* Task::enterSuspended on a terminated task, or with a yield pending, which
\* its check does not allow: the operator throws.
EnterSuspendedThrows(t) ==
  /\ MaySuspend
  /\ pc[t] = "running"
  /\ drv[t] \in isTerminated \/ ShouldStop \in {"kTerminate", "kYield"}
  /\ IF drv[t] \in isTerminated
     THEN UNCHANGED <<isTerminated, toYield, failed>>
     ELSE /\ isTerminated' = IF ShouldStop = "kTerminate"
                             THEN isTerminated \cup {drv[t]}
                             ELSE isTerminated
          /\ toYield' = ToYieldAfterStop
          /\ failed' = IF ShouldStop = "kYield"
                       THEN failed \cup {"enterSuspended"} ELSE failed
  /\ ToHandler(t)
  /\ UNCHANGED <<started, state, exception, partitionedOutputConsumed,
                 pauseRequested, terminateRequested, numThreads,
                 threadFinishPromises, slotVars, isEnqueued, onThread,
                 hasBlockingFuture, isSuspended, closeVars, execVars, drv,
                 realized, goal, pauser>>

\* Task::leaveSuspended waits while the task is paused.  Once terminated it
\* makes the operator throw.
LeaveSuspended(t) ==
  /\ pc[t] = "suspended"
  /\ drv[t] \in isTerminated \/ terminateRequested \/ ~pauseRequested
  /\ numThreads' = numThreads + 1
  /\ isSuspended' = isSuspended \ {drv[t]}
  /\ IF drv[t] \in isTerminated \/ terminateRequested
     THEN isTerminated' = isTerminated \cup {drv[t]} /\ ToHandler(t)
     ELSE /\ pc' = [pc EXCEPT ![t] = "running"]
          /\ UNCHANGED <<isTerminated, reason, ret>>
  /\ UNCHANGED <<started, state, exception, partitionedOutputConsumed,
                 pauseRequested, terminateRequested, toYield,
                 threadFinishPromises, slotVars, isEnqueued, onThread,
                 hasBlockingFuture, closeVars, execVars, drv, realized, goal,
                 pauser, failed>>

-----------------------------------------------------------------------------
(* ~CancelGuard: going off thread *)

\* After an exception the guard marks the driver terminated, without the
\* mutex, and closes it.
Unwind(t) ==
  /\ pc[t] = "unwind"
  /\ isTerminated' = isTerminated \cup {drv[t]}
  /\ ret' = [ret EXCEPT ![t] = "leave"]
  /\ pc' = [pc EXCEPT ![t] = "close"]
  /\ UNCHANGED <<taskVars, slotVars, isEnqueued, onThread, hasBlockingFuture,
                 isSuspended, closeVars, execVars, drv, reason, realized,
                 goal, pauser, failed>>

\* Driver::close up to the call of Task::removeDriver.
Close(t) ==
  /\ pc[t] = "close"
  /\ IF drv[t] \in closed
     THEN /\ pc' = [pc EXCEPT ![t] = ret[t]]
          /\ UNCHANGED <<closed, closes>>
     ELSE /\ pc' = [pc EXCEPT ![t] = "remove"]
          /\ closed' = closed \cup {drv[t]}
          /\ closes' = [closes EXCEPT ![drv[t]] = @ + 1]
  /\ UNCHANGED <<taskVars, slotVars, flagVars, offThreadDrivers, execVars,
                 procVars, pauser, failed>>

\* Mutant of RunningAfterClosed: counts down whatever the state of the task.
RunningAfterAnyClosed == numRunningDrivers - 1

\* Task::driverClosedLocked: terminate has already cleared the count.
RunningAfterClosed ==
  IF isRunning THEN numRunningDrivers - 1 ELSE numRunningDrivers

\* Task::removeDriver.  A driver that is not found leaves allFinished true.
RemoveDriver(t) ==
  LET d == drv[t]
      found == d \in drivers
      finished == numFinishedDrivers + 1
      finishedOutput == numFinishedOutputDrivers
                          + (IF d \in OutputDrivers THEN 1 ELSE 0)
      allFinished == found => CheckIfFinished(finished, finishedOutput,
                                              partitionedOutputConsumed)
  IN /\ pc[t] = "remove"
     /\ drivers' = drivers \ {d}
     /\ IF found
        THEN /\ numFinishedDrivers' = finished
             /\ numFinishedOutputDrivers' = finishedOutput
             /\ numRunningDrivers' = RunningAfterClosed
        ELSE UNCHANGED <<numFinishedDrivers, numFinishedOutputDrivers,
                         numRunningDrivers>>
     /\ IF allFinished
        THEN /\ pc' = [pc EXCEPT ![t] = "terminate"]
             /\ goal' = [goal EXCEPT ![t] = "kFinished"]
        ELSE /\ pc' = [pc EXCEPT ![t] = ret[t]]
             /\ UNCHANGED goal
     /\ UNCHANGED <<taskVars, flagVars, closeVars, execVars, drv, reason,
                    realized, ret, pauser, failed>>

\* Task::leave, and the guard's reaction to kTerminate: a thread that did not
\* throw reports "Cancelled" (setError returns at once: the task no longer
\* runs) and closes the driver.
Leave(t) ==
  LET d == drv[t]
      terminated == d \in isTerminated \/ terminateRequested
  IN /\ pc[t] = "leave"
     /\ numThreads' = numThreads - 1
     /\ threadFinishPromises' = PromisesAfterLeave
     /\ onThread' = onThread \ {d}
     /\ isTerminated' = IF terminated THEN isTerminated \cup {d}
                        ELSE isTerminated
     /\ toYield' = IF terminated THEN toYield ELSE ToYieldAfterStop
     /\ IF terminated /\ reason[t] # "kAlreadyTerminated"
        THEN /\ pc' = [pc EXCEPT ![t] = "close"]
             /\ ret' = [ret EXCEPT ![t] = "ran"]
        ELSE /\ pc' = [pc EXCEPT ![t] = "ran"]
             /\ UNCHANGED ret
     /\ UNCHANGED <<started, state, exception, partitionedOutputConsumed,
                    pauseRequested, terminateRequested, slotVars, isEnqueued,
                    hasBlockingFuture, isSuspended, closeVars, execVars, drv,
                    reason, realized, goal, pauser, failed>>

-----------------------------------------------------------------------------
(* Driver::run after runInternal, and the callback of a blocking future *)

\* Mutant of AbandonsBlocked: any reason to stop ends the wait.
AbandonsBlockedOnStop == ShouldStop # "kNone"

\* Driver::run drops a blocked driver when the task is being terminated.
AbandonsBlocked == ShouldStop = "kTerminate"

\* The driver blocked.  Driver::run looks once more whether to go on waiting
\* before it calls setResume.
RanBlocked(t) ==
  /\ pc[t] = "ran"
  /\ reason[t] = "kBlock"
  /\ toYield' = ToYieldAfterStop
  /\ IF AbandonsBlocked
     THEN EndClosure(t, "idle")
     ELSE /\ pc' = [pc EXCEPT ![t] = "setResume"]
          /\ UNCHANGED <<drv, reason, realized, ret>>
  /\ UNCHANGED <<started, state, exception, partitionedOutputConsumed,
                 pauseRequested, terminateRequested, numThreads,
                 threadFinishPromises, slotVars, flagVars, closeVars,
                 execVars, goal, pauser, failed>>

\* Driver::enqueue: the check of enqueueInternal, then a closure for the
\* executor unless the driver is closed.
QueueAfterEnqueue(d) ==
  IF d \in isEnqueued \cup closed THEN queue
  ELSE [queue EXCEPT ![d] = @ + 1]

FailedAfterEnqueue(d) ==
  IF d \in isEnqueued THEN failed \cup {"enqueueInternal"} ELSE failed

\* The driver yields: Driver::run enqueues it without the task's mutex, so
\* that others may come between the check of enqueueInternal and what follows.
RanYielded(t) ==
  /\ pc[t] = "ran"
  /\ reason[t] = "kYield"
  /\ failed' = FailedAfterEnqueue(drv[t])
  /\ IF drv[t] \in isEnqueued
     THEN EndClosure(t, "idle")
     ELSE /\ pc' = [pc EXCEPT ![t] = "enqueue"]
          /\ UNCHANGED <<drv, reason, realized, ret>>
  /\ UNCHANGED <<taskVars, slotVars, flagVars, closeVars, execVars, goal,
                 pauser>>

Requeue(t) ==
  /\ pc[t] = "enqueue"
  /\ queue[drv[t]] < MaxClosures
  /\ isEnqueued' = isEnqueued \cup {drv[t]}
  /\ queue' = IF drv[t] \in closed THEN queue
              ELSE [queue EXCEPT ![drv[t]] = @ + 1]
  /\ EndClosure(t, "idle")
  /\ UNCHANGED <<taskVars, slotVars, onThread, isTerminated,
                 hasBlockingFuture, isSuspended, closeVars, armed, goal,
                 pauser, failed>>

\* For every other reason the thread returns to the executor.
RanOther(t) ==
  /\ pc[t] = "ran"
  /\ reason[t] \notin {"kBlock", "kYield"}
  /\ EndClosure(t, "idle")
  /\ UNCHANGED <<taskVars, slotVars, flagVars, closeVars, execVars, goal,
                 pauser, failed>>

\* The callback of setResume, on the thread p that realizes the future.  Its
\* checks turn into an error of the task.
CallbackChecks(d) == d \notin isSuspended /\ d \in hasBlockingFuture
CallbackEnqueues(d) == CallbackChecks(d) /\ ~pauseRequested
CallbackFails(d) ==
  ~CallbackChecks(d) \/ (CallbackEnqueues(d) /\ d \in isEnqueued)

Callback(d) ==
  /\ hasBlockingFuture' = IF CallbackChecks(d) THEN hasBlockingFuture \ {d}
                          ELSE hasBlockingFuture
  /\ isEnqueued' = IF CallbackEnqueues(d) THEN isEnqueued \cup {d}
                   ELSE isEnqueued
  /\ queue' = IF CallbackEnqueues(d) THEN QueueAfterEnqueue(d) ELSE queue
  /\ failed' = IF ~CallbackChecks(d) THEN failed \cup {"resumeCallback"}
               ELSE IF CallbackEnqueues(d) THEN FailedAfterEnqueue(d)
               ELSE failed

\* BlockingState::setResume: the check that the driver is off thread, then
\* the callback, at once when the future is already realized.
SetResume(t) ==
  LET d == drv[t]
      inline == d \notin onThread /\ t \in realized
  IN /\ pc[t] = "setResume"
     /\ IF inline THEN Callback(d)
        ELSE /\ failed' = IF d \in onThread THEN failed \cup {"setResume"}
                          ELSE failed
             /\ UNCHANGED <<hasBlockingFuture, isEnqueued, queue>>
     /\ armed' = IF d \notin onThread /\ t \notin realized
                 THEN [armed EXCEPT ![d] = @ + 1] ELSE armed
     /\ EndClosure(t, IF inline /\ CallbackFails(d) THEN "setError"
                      ELSE "idle")
     /\ UNCHANGED <<taskVars, slotVars, onThread, isTerminated, isSuspended,
                    closeVars, goal, pauser>>

\* The promise of an armed BlockingState is fulfilled.
Fulfil(d) ==
  /\ pc["fulfiller"] = "idle"
  /\ armed[d] > 0
  /\ armed' = [armed EXCEPT ![d] = @ - 1]
  /\ Callback(d)
  /\ IF CallbackFails(d)
     THEN pc' = [pc EXCEPT !["fulfiller"] = "setError"]
     ELSE UNCHANGED pc
  /\ UNCHANGED <<taskVars, slotVars, onThread, isTerminated, isSuspended,
                 closeVars, procVars, pauser>>

-----------------------------------------------------------------------------
ClientStep ==
  \/ Start
  \/ RequestPause
  \/ Resume
  \/ RequestYield
  \/ RequestCancel("kCanceled")
  \/ MayAbort /\ RequestCancel("kAborted")
  \/ SetAllOutputConsumed
  \/ \E d \in Drivers : Fulfil(d)

TerminateStep(p) ==
  SetError(p) \/ TerminateAgain(p) \/ Terminate(p) \/ CloseByTask(p)
    \/ TerminateDone(p)

EnterStep(t) ==
  \E d \in Drivers :
    EnterClosed(t, d) \/ EnterUnqueued(t, d) \/ EnterRefused(t, d)
      \/ Enter(t, d)

\* What an operator may do; nothing obliges it to.
OperatorStep(t) ==
  \/ Block(t) \/ AtEnd(t) \/ Throw(t)
  \/ EnterSuspended(t) \/ EnterSuspendedThrows(t)

\* What a thread does in its own time.
ThreadStep(t) ==
  \/ Stop(t) \/ LeaveSuspended(t)
  \/ Unwind(t) \/ Close(t) \/ RemoveDriver(t) \/ Leave(t)
  \/ RanBlocked(t) \/ RanYielded(t) \/ Requeue(t) \/ RanOther(t)
  \/ SetResume(t)

Next ==
  \/ ClientStep
  \/ \E p \in Procs : TerminateStep(p)
  \/ \E t \in Threads :
       EnterStep(t) \/ OperatorStep(t) \/ ThreadStep(t) \/ FulfilEarly(t)

\* Threads that are in the task's code are not held up for ever: operators
\* return to the loop, which asks shouldStop, and sections end.
Fairness ==
  /\ \A t \in Threads : WF_vars(ThreadStep(t) \/ TerminateStep(t))
  /\ \A p \in Clients : WF_vars(TerminateStep(p))

Spec == Init /\ [][Next]_vars
FairSpec == Spec /\ Fairness

-----------------------------------------------------------------------------
(* Properties *)

TypeOK ==
  /\ started \in BOOLEAN
  /\ state \in TaskStates
  /\ exception \in BOOLEAN
  /\ partitionedOutputConsumed \in BOOLEAN
  /\ pauseRequested \in BOOLEAN
  /\ terminateRequested \in BOOLEAN
  /\ toYield \in Nat
  /\ numThreads \in Nat
  /\ threadFinishPromises \subseteq {"pauser", "canceller"}
  /\ drivers \subseteq Drivers
  /\ numRunningDrivers \in Int
  /\ numFinishedDrivers \in Nat
  /\ numFinishedOutputDrivers \in Nat
  /\ isEnqueued \subseteq Drivers
  /\ onThread \subseteq Drivers
  /\ isTerminated \subseteq Drivers
  /\ hasBlockingFuture \subseteq Drivers
  /\ isSuspended \subseteq Drivers
  /\ closed \subseteq Drivers
  /\ closes \in [Drivers -> Nat]
  /\ offThreadDrivers \subseteq Drivers
  /\ queue \in [Drivers -> Nat]
  /\ armed \in [Drivers -> Nat]
  /\ pc \in [Procs -> PCs]
  /\ drv \in [Threads -> Drivers \cup {NoDriver}]
  /\ reason \in [Threads -> StopReasons]
  /\ realized \subseteq Threads
  /\ goal \in [Procs -> TaskStates \ {"kRunning"}]
  /\ ret \in [Procs -> PCs]
  /\ pauser \in {"idle", "requested"}
  /\ failed \subseteq Checks

\* Thread t is between Task::enter and Task::leave.
Holds(t) ==
  \/ pc[t] \in {"running", "suspended", "unwind", "leave"}
  \/ /\ pc[t] \in {"setError", "close", "remove", "terminate", "closeByTask"}
     /\ ret[t] \in {"unwind", "leave"}

\* Thread t closes its driver after Task::leave returned kTerminate.
Closing(t) == pc[t] \in {"close", "remove"} /\ ret[t] = "ran"

\* Thread t is counted in numThreads_.
Counted(t) == Holds(t) /\ pc[t] # "suspended"

\* At most one thread has access to a driver's operators: the executor thread
\* between enter and leave, the one that closes the driver after leave, or the
\* one in Task::terminate that closes the drivers it found off thread
\* (Task.cpp:1893 enter, :1915 enterForTerminateLocked, Driver.cpp:553 close).
ExclusiveAccess ==
  /\ \A t, u \in Threads :
       /\ t # u
       /\ Holds(t) \/ Closing(t)
       /\ Holds(u) \/ Closing(u)
       => drv[t] # drv[u]
  /\ \A t \in Threads :
       Holds(t) \/ Closing(t) => drv[t] \notin offThreadDrivers

\* numThreads_ counts the threads that are inside the task and not suspended,
\* through every path in and out of it (Task.cpp:1908, :1927, :1958, :1971).
ThreadCount == numThreads = Cardinality({t \in Threads : Counted(t)})

\* Once the future of requestPause is realized no thread runs an operator
\* until resume, except to take down a terminated task (Task.cpp:2030
\* requestPause, :1980 leaveSuspended).
PauseQuiesces ==
  PauseAcked /\ ~terminateRequested =>
    \A t \in Threads : ~Counted(t)

\* The operators of a driver are closed at most once, whichever of the driver's
\* thread and Task::terminate gets to it (Driver.cpp:553 close, :569
\* closeByTask).
ClosedOnce == \A d \in Drivers : closes[d] <= 1

\* The counters that decide when a task is finished agree with the slots of
\* drivers_: no driver is counted twice as finished, the unsigned count of
\* running drivers neither lags nor wraps (Task.cpp:1264, :1503).
DriverCounts ==
  started =>
    /\ numFinishedDrivers = Cardinality(Drivers \ drivers)
    /\ numRunningDrivers = IF isRunning THEN Cardinality(drivers) ELSE 0

\* An error, a cancellation or the end of the task is on its way to
\* Task::terminate.
Ending == \E p \in Procs : pc[p] \in {"setError", "terminate"}

\* A live driver of a task that runs, with no error on its way to end it,
\* always has something that will take it further: a closure in the executor, a
\* thread, an armed blocking future, or the resume that follows the pause
\* (Task.cpp:627 resume, Driver.cpp:71 setResume).
NoLostDriver ==
  ~terminateRequested /\ ~Ending =>
    \A d \in drivers :
      \/ queue[d] > 0
      \/ armed[d] > 0
      \/ \E t \in Threads : drv[t] = d /\ pc[t] # "idle"
      \/ pauseRequested /\ d \in ResumeCandidates \ hasBlockingFuture

\* No driver is enqueued while it is enqueued, entered while it is on a thread
\* or woken up by a future it no longer waits for (Driver.cpp:274, :85-86 and
\* the comment of Task.cpp:641).
NoDoubleEnqueue ==
  failed \cap {"enqueueInternal", "enter", "unhandledStopReason",
               "resumeCallback"} = {}

\* When the future of a blocked driver gets its callback the driver is off
\* thread (the check of Driver.cpp:72).
ResumeArmedOffThread == "setResume" \notin failed

\* A terminated driver stays terminated and does not go on a thread again, and
\* a task that stopped running keeps its final state (Driver.h:82,
\* Task.cpp:1474).
TerminatedIsFinal ==
  [][/\ isTerminated \subseteq isTerminated'
     /\ (onThread' \ onThread) \cap isTerminated = {}
     /\ state # "kRunning" => state' = state]_vars

\* requestPause is answered (Task.cpp:2009 finishedLocked).
PauseAnswered == (pauser = "requested") ~> (PauseAcked \/ pauser = "idle")


-----------------------------------------------------------------------------
(* The inductive invariant behind ExclusiveAccess, ThreadCount,            *)
(* PauseQuiesces and ClosedOnce, as a conjunction of named parts           *)

\* Where Task::setError, terminate and Driver::close return to.
ReturnPoints ==
  /\ \A t \in Threads :
       /\ pc[t] # "waiting"
       /\ pc[t] = "setError" => ret[t] \in {"idle", "unwind"}
       /\ pc[t] \in {"terminate", "closeByTask"} =>
            ret[t] \in {"idle", "unwind", "leave", "ran"}
       /\ pc[t] \in {"close", "remove"} => ret[t] \in {"leave", "ran"}
  /\ \A p \in Clients :
       /\ pc[p] \in {"idle", "setError", "terminate", "closeByTask",
                     "waiting"}
       /\ ret[p] \in {"idle", "waiting"}

\* Thread t is between dequeuing a closure and the end of Driver::run.
InRun(t) ==
  /\ pc[t] # "idle"
  /\ pc[t] \in {"setError", "terminate", "closeByTask"} => ret[t] # "idle"

\* A thread in Driver::run has a driver; before Task::start there is none.
RunHasDriver ==
  /\ \A t \in Threads : InRun(t) => drv[t] \in Drivers
  /\ ~started =>
       /\ \A t \in Threads : pc[t] = "idle"
       /\ \A d \in Drivers : queue[d] = 0 /\ armed[d] = 0
       /\ drivers = {} /\ closed = {} /\ onThread = {}
       /\ numFinishedDrivers = 0 /\ numRunningDrivers = 0

\* isOnThread, isTerminated and the threads agree on who has the driver.
Ownership ==
  /\ \A t \in Threads :
       /\ Holds(t) => drv[t] \in onThread \ offThreadDrivers
       /\ Closing(t) => drv[t] \in isTerminated \ onThread
       /\ pc[t] = "suspended" /\ ~terminateRequested
            => drv[t] \notin isTerminated
  /\ \A t, u \in Threads :
       t # u /\ (Holds(t) \/ Closing(t)) /\ (Holds(u) \/ Closing(u))
         => drv[t] # drv[u]
  /\ offThreadDrivers \subseteq (isTerminated \cap onThread) \ closed
  /\ isRunning => offThreadDrivers = {}

\* Which drivers are closed while they still have their slot.
ClosedSlots ==
  /\ \A d \in Drivers : closes[d] = IF d \in closed THEN 1 ELSE 0
  /\ closed \cap drivers \subseteq onThread \cup isTerminated
  /\ \A t \in Threads :
       Holds(t) /\ pc[t] # "remove" => drv[t] \notin closed \cap drivers

\* The state of the pausing client.
PauseState ==
  /\ pauser = "requested" => pauseRequested
  /\ PauseAcked /\ ~terminateRequested => numThreads = 0

\* Together they are preserved by every step: the flags of the drivers, the
\* thread counter and the program points of the threads never disagree about
\* who has a driver (Task.cpp:1893-1993, :1465-1522; Driver.cpp:106-143,
\* :553-576).
IInv ==
  /\ TypeOK
  /\ ReturnPoints
  /\ RunHasDriver
  /\ Ownership
  /\ ClosedSlots
  /\ ThreadCount
  /\ PauseState

-----------------------------------------------------------------------------
(* The inductive invariant behind NoLostDriver.  It also rests on IInv.     *)

\* Thread t will take its driver further.
Minds(t) ==
  \/ Holds(t)
  \/ pc[t] \in {"ran", "enqueue"} /\ reason[t] = "kYield"
  \/ pc[t] \in {"ran", "setResume"} /\ reason[t] = "kBlock"

\* Thread t is in a routine that returns to this program point.
ReturnsTo(t, to) ==
  /\ pc[t] \in {"setError", "terminate", "closeByTask", "close", "remove"}
  /\ ret[t] = to

\* Thread t closes its driver while it is in the task.
Removing(t) == pc[t] \in {"close", "remove"} /\ ret[t] = "leave"

\* Thread t has closed its driver, or does so after Task::leave.
Removed(t) ==
  \/ pc[t] = "leave" /\ reason[t] \in {"kAtEnd", "kAlreadyTerminated"}
  \/ pc[t] \in {"terminate", "closeByTask"} /\ ret[t] = "leave"
  \/ Closing(t)

\* Why a thread leaves, and that only a blocked driver has a future.
ReasonsOK ==
  \A t \in Threads :
    /\ pc[t] \in {"idle", "running", "suspended"} \/ ReturnsTo(t, "idle") =>
         reason[t] = "kNone"
    /\ pc[t] = "unwind" \/ ReturnsTo(t, "unwind") =>
         reason[t] = "kAlreadyTerminated"
    /\ ReturnsTo(t, "leave") => reason[t] \in {"kAtEnd", "kAlreadyTerminated"}
    /\ pc[t] = "leave" =>
         /\ reason[t] \notin {"kNone", "kAlreadyOnThread"}
         /\ reason[t] = "kPause" => pauseRequested \/ terminateRequested
         /\ reason[t] = "kTerminate" => terminateRequested
    /\ pc[t] = "setResume" => reason[t] = "kBlock"
    /\ pc[t] = "enqueue" => reason[t] = "kYield"
    /\ Holds(t) /\ drv[t] \in hasBlockingFuture => reason[t] = "kBlock"

\* A driver that is enqueued has a closure, unless it was closed since.
QueuedOK == \A d \in isEnqueued \ closed : queue[d] > 0

\* An error that was recorded ends the task.
ErrorsOK == /\ ~isRunning <=> terminateRequested
            /\ exception /\ isRunning => \E p \in Procs : pc[p] = "terminate"

\* Before Task::start no flag is set.
NothingFlagged ==
  ~started => isTerminated \cup isSuspended \cup hasBlockingFuture = {}

\* The driver of a suspended thread is marked.
SuspendedOK == \A t \in Threads : pc[t] = "suspended" => drv[t] \in isSuspended

\* A driver that is on a thread has one, and so has one that is suspended.
HeldOK ==
  \A d \in drivers :
    /\ d \in onThread => \E t \in Threads : drv[t] = d /\ Holds(t)
    /\ d \in isSuspended =>
         \E t \in Threads : drv[t] = d /\ pc[t] = "suspended"

\* A driver that is marked terminated is being closed by its thread.
TerminatedOK ==
  \A d \in drivers \cap isTerminated :
    \E t \in Threads : drv[t] = d /\ Removing(t)

\* A thread that has closed its driver has taken it out of its slot.
RemovedOK == \A t \in Threads : Removed(t) => drv[t] \notin drivers

\* A driver with a blocking future has a callback, or a thread that attaches
\* it.
FuturesOK ==
  \A d \in drivers \cap hasBlockingFuture :
    armed[d] > 0 \/ \E t \in Threads : drv[t] = d /\ reason[t] = "kBlock"

\* Something takes every driver further, as in NoLostDriver.
MindedOK ==
  \A d \in drivers :
    \/ d \in isEnqueued \cup hasBlockingFuture
    \/ armed[d] > 0
    \/ \E t \in Threads : drv[t] = d /\ Minds(t)

\* Together they are preserved by every step: while the task runs and is
\* neither paused nor ending, whatever clears one reason to go on with a
\* driver leaves another (Task.cpp:627-668, :1893-1950; Driver.cpp:71-104,
\* :245-330).
LostInv ==
  /\ ReasonsOK /\ QueuedOK /\ ErrorsOK /\ NothingFlagged
  /\ ~terminateRequested =>
       SuspendedOK /\ HeldOK /\ TerminatedOK /\ RemovedOK /\ FuturesOK
  /\ ~terminateRequested /\ ~Ending /\ ~pauseRequested => MindedOK
=============================================================================
