----------------------------- MODULE TaskSplits ------------------------------
(***************************************************************************)
(* The splits of a task in grouped execution (velox/exec/Task.cpp): a      *)
(* caller adds splits to leaf nodes of the plan and says when there are no *)
(* more; the first split of a split group makes the task create drivers    *)
(* for the group, a limited number of groups at a time; drivers ask for    *)
(* splits and wait for them.  Leaf nodes of the other pipelines belong to  *)
(* kUngroupedGroupId and have drivers from the start.                      *)
(*                                                                         *)
(* A step is one critical section of Task::mutex_ with the promises it     *)
(* realizes.  An exchange node passes its splits on to an exchange client, *)
(* as does the task itself for splits that no driver will take.            *)
(***************************************************************************)
EXTENDS Integers, Sequences, FiniteSets, Functions

CONSTANTS
  GroupedNodes,     \* the leaf nodes that run grouped execution
  UngroupedNodes,   \* the other leaf nodes
  ExchangeNodes,    \* those that have an exchange client
  Groups,           \* the split groups the caller has splits of
  Ungrouped,        \* kUngroupedGroupId
  NumDrivers,       \* how many drivers the pipeline of each node has
  SplitsOf,         \* the splits of each node, in the order of sequence ids
  GroupOf,          \* the group of each split
  NumSplitGroups,   \* planFragment_.numSplitGroups, of all workers
  ConcurrentSplitGroups,  \* concurrentSplitGroups_
  MaxPreload,       \* maxPreloadSplits
  None              \* no split

Nodes == GroupedNodes \cup UngroupedNodes
Splits == UNION {Range(SplitsOf[n]) : n \in Nodes}
GroupsOf(n) == IF n \in GroupedNodes THEN Groups ELSE {Ungrouped}
AllGroups == Groups \cup {Ungrouped}
Drivers == UNION {GroupsOf(n) \X {n} \X (1..NumDrivers[n]) : n \in Nodes}
DriversOf(g) == {d \in Drivers : d[1] = g}

ASSUME SplitsAssumption ==
  /\ GroupedNodes \cap UngroupedNodes = {}
  /\ ExchangeNodes \subseteq UngroupedNodes
  /\ Ungrouped \notin Groups
  /\ NumDrivers \in [Nodes -> Nat \ {0}]
  /\ \A n \in Nodes : SplitsOf[n] \in Seq(Range(SplitsOf[n]))
  /\ \A n \in Nodes : IsInjective(SplitsOf[n])
  /\ \A n \in Nodes : \A s \in Range(SplitsOf[n]) : GroupOf[s] \in GroupsOf(n)
  /\ \A m, n \in Nodes : m # n => Range(SplitsOf[m]) \cap Range(SplitsOf[n]) = {}
  /\ Nodes # {} /\ IsFiniteSet(Nodes)
  /\ IsFiniteSet(Groups)
  /\ Groups # {} => GroupedNodes # {}
  /\ NumSplitGroups \in Nat
  /\ Cardinality(Groups) <= NumSplitGroups
  /\ ConcurrentSplitGroups \in Nat \ {0}
  /\ None \notin Splits

VARIABLES
  \* Task
  started,            \* Task::start has run
  state,              \* state_
  stores,             \* groupSplitsStores of each node
  known,              \* the groups that are keys of groupSplitsStores
  noMoreSplits,       \* the nodes with SplitsState::noMoreSplits
  maxSequenceId,      \* maxSequenceId of each node, 0 below all ids
  seenSplitGroups,    \* seenSplitGroups_
  queuedSplitGroups,  \* queuedSplitGroups_
  numRunningSplitGroups,  \* numRunningSplitGroups_
  groupDrivers,       \* numRunningDrivers of each split group
  completedSplitGroups,   \* completedSplitGroups of the statistics
  numFinishedDrivers, \* numFinishedDrivers_
  numTotalDrivers,    \* numTotalDrivers_
  mustFinish,         \* somebody is about to call terminate(kFinished)
  drained,            \* terminate has collected what was left
  stuck,              \* noMoreSplits waits for the mutex that it holds
  \* Drivers
  dState,             \* what each driver does
  holds,              \* the split it works on
  \* The caller
  next,               \* the sequence id of the next split of each node
  unacked,            \* nodes whose maxSequenceId the caller has to raise
  endedGroups,        \* the groups it has ended, for each node
  \* History
  handedOut,          \* how often each split was given to a driver
  taskIds             \* the splits that exchange clients know

splitVars == <<stores, known, noMoreSplits, maxSequenceId>>
groupVars == <<seenSplitGroups, queuedSplitGroups, numRunningSplitGroups,
               groupDrivers, completedSplitGroups>>
countVars == <<numFinishedDrivers, numTotalDrivers>>
endVars == <<state, mustFinish, drained, stuck>>
driverVars == <<dState, holds>>
callerVars == <<next, unacked, endedGroups>>
vars == <<started, splitVars, groupVars, countVars, endVars, driverVars,
          callerVars, handedOut, taskIds>>

-----------------------------------------------------------------------------
\* numDriversPerSplitGroup_ and numDriversUngrouped_, once Task::start has
\* counted the drivers of the pipelines.
NumDriversPerSplitGroup ==
  Cardinality(UNION {{n} \X (1..NumDrivers[n]) : n \in GroupedNodes})
NumDriversUngrouped == Cardinality(DriversOf(Ungrouped))
EmptyStore == [splits |-> <<>>, noMoreSplits |-> FALSE, splitPromises |-> <<>>]

\* Drivers that exist and are not closed.
Live == {d \in Drivers : dState[d] \notin {"none", "closed"}}

Init ==
  /\ started = FALSE
  /\ state = "kRunning"
  /\ stores = [n \in Nodes |-> [g \in GroupsOf(n) |-> EmptyStore]]
  /\ known = [n \in Nodes |-> {}]
  /\ noMoreSplits = {}
  /\ maxSequenceId = [n \in Nodes |-> 0]
  /\ seenSplitGroups = {}
  /\ queuedSplitGroups = <<>>
  /\ numRunningSplitGroups = 0
  /\ groupDrivers = [g \in AllGroups |-> 0]
  /\ completedSplitGroups = {}
  /\ numFinishedDrivers = 0
  /\ numTotalDrivers = 0
  /\ mustFinish = FALSE
  /\ drained = FALSE
  /\ stuck = FALSE
  /\ dState = [d \in Drivers |-> "none"]
  /\ holds = [d \in Drivers |-> None]
  /\ next = [n \in Nodes |-> 1]
  /\ unacked = {}
  /\ endedGroups = [n \in GroupedNodes |-> {}]
  /\ handedOut = [s \in Splits |-> 0]
  /\ taskIds = {}

\* Task::isRunningLocked.
isRunning == state = "kRunning"

-----------------------------------------------------------------------------
(* Split groups and their drivers *)

\* Defect in FreeGroupSlots: a group too many.
FreeGroupSlotsPlusOne(running) == ConcurrentSplitGroups + 1 - running

\* Defect in FreeGroupSlots: a group too few.
FreeGroupSlotsMinusOne(running) == ConcurrentSplitGroups - 1 - running

\* How many more split groups may run.
FreeGroupSlots(running) == ConcurrentSplitGroups - running

\* Task::ensureSplitGroupsAreBeingProcessedLocked, with the values that its
\* caller has given to the members; 'hasDrivers' says that start has counted
\* the drivers of a group.
EnsureSplitGroupsAreBeingProcessed(hasDrivers, queued, running, counts, dStates) ==
  LET free == FreeGroupSlots(running)
      n == IF ~(hasDrivers /\ isRunning) THEN 0
           ELSE IF free < Len(queued) THEN free ELSE Len(queued)
      begun == {queued[i] : i \in 1..n}
  IN
  /\ queuedSplitGroups' = SubSeq(queued, n + 1, Len(queued))
  /\ numRunningSplitGroups' = running + n
  /\ groupDrivers' = [g \in AllGroups |->
                        IF g \in begun THEN NumDriversPerSplitGroup ELSE counts[g]]
  /\ dState' = [d \in Drivers |-> IF d[1] \in begun THEN "run" ELSE dStates[d]]

\* Task::start.  The caller that starts the task is also the one that adds
\* splits, so it does not add any while start is between its two critical
\* sections.
Start ==
  /\ ~started
  /\ started' = TRUE
  /\ numTotalDrivers' = numTotalDrivers
       + NumDriversPerSplitGroup * NumSplitGroups + NumDriversUngrouped
  /\ EnsureSplitGroupsAreBeingProcessed(
       TRUE, queuedSplitGroups, numRunningSplitGroups,
       [groupDrivers EXCEPT ![Ungrouped] = NumDriversUngrouped],
       [d \in Drivers |-> IF d[1] = Ungrouped THEN "run" ELSE dState[d]])
  /\ UNCHANGED <<splitVars, seenSplitGroups, completedSplitGroups,
                 numFinishedDrivers, endVars, holds, callerVars, handedOut,
                 taskIds>>

\* Task::checkIfFinishedLocked, with new values of the two counters.  Nothing
\* ends early in grouped execution.
CheckIfFinished(finished, total) == isRunning /\ finished = total

\* The last driver of a split group has been removed.
IsGroupDone(counts, g) == counts[g] = 0 /\ g # Ungrouped

\* Task::removeDriver of a driver that has come to its end, or that has left
\* its thread after the task was terminated.  A driver of an exchange does not
\* stop between taking a split and handing it on.
RemoveDriver(d) ==
  LET g == d[1]
      counts == [groupDrivers EXCEPT ![g] = @ - 1]
      dStates == [dState EXCEPT ![d] = "closed"]
  IN
  /\ \/ dState[d] = "finish"
     \/ ~isRunning /\ dState[d] \in {"run", "wait"}
     \/ ~isRunning /\ dState[d] = "scan" /\ d[2] \notin ExchangeNodes
  /\ numFinishedDrivers' = numFinishedDrivers + 1
  /\ mustFinish' = (mustFinish
                      \/ CheckIfFinished(numFinishedDrivers', numTotalDrivers))
  /\ IF IsGroupDone(counts, g)
     THEN /\ completedSplitGroups' = completedSplitGroups \cup {g}
          /\ EnsureSplitGroupsAreBeingProcessed(
               started, queuedSplitGroups, numRunningSplitGroups - 1, counts,
               dStates)
     ELSE /\ groupDrivers' = counts
          /\ dState' = dStates
          /\ UNCHANGED <<completedSplitGroups, queuedSplitGroups,
                         numRunningSplitGroups>>
  /\ holds' = [holds EXCEPT ![d] = None]
  /\ UNCHANGED <<started, splitVars, seenSplitGroups, numTotalDrivers, state,
                 drained, stuck, callerVars, handedOut, taskIds>>

-----------------------------------------------------------------------------
(* Adding splits *)

\* What the drivers do after the promises were realized.
Resumed(dStates, promises) ==
  [d \in Drivers |-> IF d \in Range(promises) /\ dStates[d] = "wait" THEN "run"
                     ELSE dStates[d]]

\* Defect in PromiseToRealize: nobody is told of a split.
PromiseToRealizeNone(store) == <<>>

\* Task::addSplitToStoreLocked: the driver that waits for the shortest time.
PromiseToRealize(store) ==
  IF store.splitPromises = <<>> THEN <<>>
  ELSE <<store.splitPromises[Len(store.splitPromises)]>>

\* Task::addSplitLocked and addSplitToStoreLocked.
AddSplitLocked(n, s) ==
  LET g == GroupOf[s]
      store == stores[n][g]
      promise == PromiseToRealize(store)
      dStates == Resumed(dState, promise)
      left == SubSeq(store.splitPromises, 1, Len(store.splitPromises) - Len(promise))
      isNew == g # Ungrouped /\ g \notin seenSplitGroups
  IN
  /\ stores' = [stores EXCEPT ![n][g] =
                  [splits |-> Append(store.splits, s),
                   noMoreSplits |-> store.noMoreSplits, splitPromises |-> left]]
  /\ known' = [known EXCEPT ![n] = @ \cup {g}]
  /\ IF isNew
     THEN /\ seenSplitGroups' = seenSplitGroups \cup {g}
          /\ EnsureSplitGroupsAreBeingProcessed(
               started, Append(queuedSplitGroups, g), numRunningSplitGroups,
               groupDrivers, dStates)
     ELSE /\ dState' = dStates
          /\ UNCHANGED <<seenSplitGroups, queuedSplitGroups,
                         numRunningSplitGroups, groupDrivers>>

\* Task::addRemoteSplit.
AddRemoteSplit(n, ss) == taskIds' = IF n \in ExchangeNodes THEN taskIds \cup ss
                                    ELSE taskIds

\* Defect in IsNewSplit: the last split is taken again.
IsNewSplitOrLast(n, id) == id >= maxSequenceId[n]

\* A split with sequence id 'id' is no duplicate.
IsNewSplit(n, id) == id > maxSequenceId[n]

\* Task::addSplitWithSequence, or Task::addSplit when 'checked' is false.
AddSplit(n, id, checked) ==
  /\ IF isRunning
     THEN /\ IF checked => IsNewSplit(n, id)
             THEN AddSplitLocked(n, SplitsOf[n][id])
             ELSE UNCHANGED <<stores, known, seenSplitGroups, queuedSplitGroups,
                              numRunningSplitGroups, groupDrivers, dState>>
          /\ UNCHANGED taskIds
     ELSE /\ AddRemoteSplit(n, {SplitsOf[n][id]})
          /\ UNCHANGED <<stores, known, seenSplitGroups, queuedSplitGroups,
                         numRunningSplitGroups, groupDrivers, dState>>
  /\ UNCHANGED <<started, noMoreSplits, maxSequenceId, completedSplitGroups,
                 countVars, endVars, holds, endedGroups, handedOut>>

\* The caller adds the next split of a grouped node by its sequence id, and of
\* another node without.
SendSplit(n) ==
  /\ n \notin unacked
  /\ next[n] <= Len(SplitsOf[n])
  /\ AddSplit(n, next[n], n \in GroupedNodes)
  /\ next' = [next EXCEPT ![n] = @ + 1]
  /\ unacked' = IF n \in GroupedNodes THEN unacked \cup {n} ELSE unacked

\* Task::setMaxSplitSequenceId, by which the caller ends a request.
SetMaxSplitSequenceId(n) ==
  /\ n \in unacked
  /\ maxSequenceId' =
       IF isRunning /\ maxSequenceId[n] < next[n] - 1
       THEN [maxSequenceId EXCEPT ![n] = next[n] - 1] ELSE maxSequenceId
  /\ unacked' = unacked \ {n}
  /\ UNCHANGED <<started, stores, known, noMoreSplits, groupVars, countVars,
                 endVars, driverVars, next, endedGroups, handedOut, taskIds>>

\* The caller has got no answer and sends the splits of an earlier request again.
ResendSplit(n) ==
  /\ n \in GroupedNodes \ unacked
  /\ \E id \in 1..(next[n] - 1) : AddSplit(n, id, TRUE)
  /\ UNCHANGED <<next, unacked>>

-----------------------------------------------------------------------------
(* The end of the splits *)

\* Defect in ReleasedByGroupEnd: the drivers that wait are forgotten.
ReleasedByNoGroupEnd(n, g) == <<>>

\* The promises that the end of group g of n realizes.
ReleasedByGroupEnd(n, g) == stores[n][g].splitPromises

\* Task::noMoreSplitsForGroup, when the caller has added all splits of g.
NoMoreSplitsForGroup(n, g) ==
  /\ g \notin endedGroups[n]
  /\ \A id \in next[n]..Len(SplitsOf[n]) : GroupOf[SplitsOf[n][id]] # g
  /\ n \notin unacked
  /\ endedGroups' = [endedGroups EXCEPT ![n] = @ \cup {g}]
  /\ stores' = [stores EXCEPT ![n][g] =
                  [@ EXCEPT !.noMoreSplits = TRUE, !.splitPromises = <<>>]]
  /\ known' = [known EXCEPT ![n] = @ \cup {g}]
  /\ dState' = Resumed(dState, ReleasedByGroupEnd(n, g))
  /\ completedSplitGroups' = IF g \in seenSplitGroups THEN completedSplitGroups
                             ELSE completedSplitGroups \cup {g}
  /\ UNCHANGED <<started, noMoreSplits, maxSequenceId, seenSplitGroups,
                 queuedSplitGroups, numRunningSplitGroups, groupDrivers,
                 countVars, endVars, holds, next, unacked, handedOut, taskIds>>

\* Defect in ReviewedTotal: the first node that has no more splits decides.
ReviewedTotalAny(ended) ==
  Cardinality(seenSplitGroups) * NumDriversPerSplitGroup + NumDriversUngrouped

\* Task::checkNoMoreSplitGroupsLocked: the number of drivers when no more
\* groups come.
ReviewedTotal(ended) ==
  IF ended = Nodes
  THEN Cardinality(seenSplitGroups) * NumDriversPerSplitGroup + NumDriversUngrouped
  ELSE numTotalDrivers

\* Task::noMoreSplits, when the caller has added all splits of n and has ended
\* its groups.  It has started the task before: with all counters at zero the
\* task would end here.  The loop over the stores assigns the promises of each to the
\* same vector, so only those of the last store are realized; the others are
\* destroyed, which resumes their drivers with an error and makes Task::setError
\* lock the mutex that this thread holds.
NoMoreSplits(n) ==
  /\ started
  /\ n \notin noMoreSplits \cup unacked
  /\ next[n] > Len(SplitsOf[n])
  /\ n \in GroupedNodes => endedGroups[n] = Groups
  /\ noMoreSplits' = noMoreSplits \cup {n}
  /\ \E last \in IF known[n] = {} THEN GroupsOf(n) ELSE known[n] :
       /\ stuck' = (\E g \in known[n] \ {last} : stores[n][g].splitPromises # <<>>)
       /\ dState' = Resumed(dState, stores[n][last].splitPromises)
  /\ LET ended == IF known[n] = {} /\ n \in UngroupedNodes THEN {Ungrouped}
                  ELSE known[n]
     IN /\ stores' = [stores EXCEPT ![n] = [g \in GroupsOf(n) |->
                        IF g \in ended
                        THEN [@[g] EXCEPT !.noMoreSplits = TRUE, !.splitPromises = <<>>]
                        ELSE @[g]]]
        /\ known' = [known EXCEPT ![n] = ended]
  /\ numTotalDrivers' = ReviewedTotal(noMoreSplits')
  /\ mustFinish' = (\/ mustFinish
                    \/ /\ noMoreSplits' = Nodes
                       /\ CheckIfFinished(numFinishedDrivers, numTotalDrivers'))
  /\ UNCHANGED <<started, maxSequenceId, groupVars, numFinishedDrivers, state,
                 drained, holds, callerVars, handedOut, taskIds>>

-----------------------------------------------------------------------------
(* Drivers *)

\* Task::getSplitLocked: split i leaves the queue.
Without(splits, i) == SubSeq(splits, 1, i - 1) \o SubSeq(splits, i + 1, Len(splits))

\* Task::getSplitOrFuture and getSplitLocked, by the source operator of d.  A
\* table scan may get a later split that is preloaded already.
GetSplitOrFuture(d) ==
  LET g == d[1]
      n == d[2]
      store == stores[n][g]
  IN
  /\ dState[d] = "run"
  /\ known' = [known EXCEPT ![n] = @ \cup {g}]
  /\ \/ /\ store.splits = <<>>
        /\ store.noMoreSplits
        /\ dState' = [dState EXCEPT ![d] = "finish"]
        /\ UNCHANGED <<stores, holds, handedOut>>
     \/ /\ store.splits = <<>>
        /\ ~store.noMoreSplits
        /\ stores' = [stores EXCEPT ![n][g] =
                        [store EXCEPT !.splitPromises = Append(@, d)]]
        /\ dState' = [dState EXCEPT ![d] = "wait"]
        /\ UNCHANGED <<holds, handedOut>>
     \/ /\ \E i \in DOMAIN store.splits :
             /\ i = 1 \/ (i <= MaxPreload /\ n \notin ExchangeNodes)
             /\ stores' = [stores EXCEPT ![n][g] =
                             [store EXCEPT !.splits = Without(@, i)]]
             /\ holds' = [holds EXCEPT ![d] = store.splits[i]]
             /\ handedOut' = [handedOut EXCEPT ![store.splits[i]] = @ + 1]
        /\ dState' = [dState EXCEPT ![d] = "scan"]
  /\ UNCHANGED <<started, noMoreSplits, maxSequenceId, groupVars, countVars,
                 endVars, callerVars, taskIds>>

\* Task::splitFinished, by TableScan; in Exchange::getSplits the split is passed
\* to the exchange client.
SplitFinished(d) ==
  /\ dState[d] = "scan"
  /\ AddRemoteSplit(d[2], {holds[d]})
  /\ dState' = [dState EXCEPT ![d] = "run"]
  /\ holds' = [holds EXCEPT ![d] = None]
  /\ UNCHANGED <<started, splitVars, groupVars, countVars, endVars, callerVars,
                 handedOut>>

-----------------------------------------------------------------------------
(* The end of the task *)

\* The first critical section of Task::terminate, in which the drivers that are
\* off thread are closed: any drivers but those of an exchange that is handing a
\* split on.
Terminate(goal) ==
  /\ isRunning
  /\ state' = goal
  /\ mustFinish' = FALSE
  /\ numTotalDrivers' =
       Cardinality(seenSplitGroups) * NumDriversPerSplitGroup + NumDriversUngrouped
  /\ \E off \in SUBSET {d \in Live :
                           ~(dState[d] = "scan" /\ d[2] \in ExchangeNodes)} :
       /\ numFinishedDrivers' = numFinishedDrivers + Cardinality(off)
       /\ dState' = [d \in Drivers |-> IF d \in off THEN "closed" ELSE dState[d]]
       /\ holds' = [d \in Drivers |-> IF d \in off THEN None ELSE holds[d]]
  /\ UNCHANGED <<started, splitVars, groupVars, drained, stuck, callerVars,
                 handedOut, taskIds>>

\* Task::terminate(kFinished) by whoever has found that all is finished.
Finish == mustFinish /\ Terminate("kFinished")

\* Task::requestCancel.
Cancel == started /\ Terminate("kCanceled")

\* Defect in LeftInStores: remote splits are forgotten.
LeftInNoStore(n) == {}

\* The splits of n that no driver has taken.
LeftInStores(n) == UNION {Range(stores[n][g].splits) : g \in GroupsOf(n)}

\* The second half of Task::terminate: the promises that are left are realized,
\* and remote splits are given to the exchange clients.
Drain ==
  /\ ~isRunning
  /\ ~drained
  /\ drained' = TRUE
  /\ stores' = [n \in Nodes |-> [g \in GroupsOf(n) |->
       [stores[n][g] EXCEPT
          !.splitPromises = <<>>,
          !.splits = IF n \in ExchangeNodes THEN <<>> ELSE @]]]
  /\ taskIds' = taskIds \cup UNION {LeftInStores(n) : n \in ExchangeNodes}
  /\ UNCHANGED <<started, known, noMoreSplits, maxSequenceId, groupVars,
                 countVars, state, mustFinish, stuck, driverVars, callerVars,
                 handedOut>>

-----------------------------------------------------------------------------
DriverStep(d) == GetSplitOrFuture(d) \/ SplitFinished(d) \/ RemoveDriver(d)

CallerStep(n) == SendSplit(n) \/ SetMaxSplitSequenceId(n) \/ NoMoreSplits(n)

\* Nothing is done while the mutex is held for good.
Next ==
  /\ ~stuck
  /\ \/ Start
     \/ \E n \in Nodes : CallerStep(n) \/ ResendSplit(n)
     \/ \E n \in GroupedNodes, g \in Groups : NoMoreSplitsForGroup(n, g)
     \/ \E d \in Drivers : DriverStep(d)
     \/ Finish
     \/ Cancel
     \/ Drain

\* What the caller owes the task.
CallerDue ==
  \/ \E n \in Nodes : CallerStep(n)
  \/ \E n \in GroupedNodes, g \in Groups : NoMoreSplitsForGroup(n, g)

Spec ==
  /\ Init
  /\ [][Next]_vars
  /\ WF_vars(Start /\ ~stuck)
  /\ WF_vars((Finish \/ Drain) /\ ~stuck)
  /\ WF_vars(CallerDue /\ ~stuck)
  /\ WF_vars((\E d \in Drivers : DriverStep(d)) /\ ~stuck)

-----------------------------------------------------------------------------
(* Properties *)

\* A task that has finished has given each split to a driver, no driver is
\* left, and all split groups are complete: the review of the number of drivers
\* neither ends a task early nor forgets a group that is queued
\* (Task.cpp:1087, 1276).
FinishedIsComplete ==
  state = "kFinished" =>
    /\ \A s \in Splits : handedOut[s] > 0
    /\ Live = {}
    /\ completedSplitGroups = Groups

\* No split is given to two drivers, although the caller sends splits of earlier
\* requests again (Task.cpp:910).
SplitsOnce == \A s \in Splits : handedOut[s] <= 1

\* While the drivers of a group exist and a split waits in a store, not all of
\* them sleep: each split wakes one driver, and a driver asks again before it
\* ends (Task.cpp:1000).
NoForgottenSplit ==
  isRunning =>
    \A n \in Nodes : \A g \in GroupsOf(n) :
      LET ds == {d \in Live : d[1] = g /\ d[2] = n} IN
      stores[n][g].splits # <<>> /\ ds # {} =>
        \E d \in ds : dState[d] \in {"run", "scan"}

\* A driver waits only on a store that may get splits, and its promise is there
\* to be realized; with that nobody finds the mutex held (Task.cpp:1018, 1048).
PromisesKept ==
  /\ ~stuck
  /\ isRunning =>
       \A d \in Drivers : dState[d] = "wait" =>
         /\ d \in Range(stores[d[2]][d[1]].splitPromises)
         /\ ~stores[d[2]][d[1]].noMoreSplits

\* The drivers of the running groups fit into the slots that Task::start has
\* made, and numRunningSplitGroups_ counts the groups with drivers
\* (Task.cpp:563, 870).
SlotsSuffice ==
  isRunning =>
    /\ Cardinality({d \in Live : d[1] # Ungrouped})
         <= NumDriversPerSplitGroup * ConcurrentSplitGroups
    /\ numRunningSplitGroups = Cardinality({d[1] : d \in Live} \ {Ungrouped})

\* Once terminate is through, the exchange clients know of every remote split
\* that the caller has added, or a driver is handing it on: the sources of a
\* task that has ended are told (Task.cpp:1562, 921).
RemoteSplitsClosed ==
  drained =>
    \A n \in ExchangeNodes : \A id \in 1..(next[n] - 1) :
      \/ SplitsOf[n][id] \in taskIds
      \/ \E d \in Live : holds[d] = SplitsOf[n][id]

-----------------------------------------------------------------------------
(* The inductive invariant behind PromisesKept and SplitsOnce *)

Stores == [splits : Seq(Splits), noMoreSplits : BOOLEAN, splitPromises : Seq(Drivers)]

StoresOK ==
  /\ DOMAIN stores = Nodes
  /\ \A n \in Nodes : stores[n] \in [GroupsOf(n) -> Stores]
  /\ DOMAIN known = Nodes
  /\ \A n \in Nodes : known[n] \subseteq GroupsOf(n)
  /\ dState \in [Drivers -> {"none", "run", "wait", "scan", "finish", "closed"}]
  /\ endedGroups \in [GroupedNodes -> SUBSET Groups]
  /\ next \in [Nodes -> Nat \ {0}]
  /\ maxSequenceId \in [Nodes -> Nat]
  /\ handedOut \in [Splits -> Nat]

\* A store that has ended holds no promise, groups that the caller has ended
\* have ended, and who waits has a promise.
PromisesOK ==
  /\ ~stuck
  /\ \A n \in Nodes : \A g \in GroupsOf(n) :
       stores[n][g].noMoreSplits => stores[n][g].splitPromises = <<>>
  /\ \A n \in GroupedNodes : \A g \in endedGroups[n] : stores[n][g].noMoreSplits
  /\ isRunning => \A d \in Drivers :
       dState[d] = "wait" => d \in Range(stores[d[2]][d[1]].splitPromises)

\* maxSequenceId is never ahead of the caller, and not behind between requests.
SequenceOK ==
  /\ \A n \in Nodes : next[n] <= Len(SplitsOf[n]) + 1 /\ maxSequenceId[n] < next[n]
  /\ isRunning => \A n \in GroupedNodes \ unacked : maxSequenceId[n] = next[n] - 1

\* A store holds splits that were sent to it and not handed out, each once.
HandedOutOK ==
  /\ \A s \in Splits : handedOut[s] <= 1
  /\ \A n \in Nodes : \A id \in next[n]..Len(SplitsOf[n]) :
       handedOut[SplitsOf[n][id]] = 0
  /\ \A n \in Nodes : \A g \in GroupsOf(n) :
       /\ IsInjective(stores[n][g].splits)
       /\ \A s \in Range(stores[n][g].splits) :
            /\ handedOut[s] = 0
            /\ GroupOf[s] = g
            /\ \E id \in 1..(next[n] - 1) : SplitsOf[n][id] = s

SplitsInv == StoresOK /\ PromisesOK /\ SequenceOK /\ HandedOutOK

-----------------------------------------------------------------------------
(* The inductive invariant behind the other invariants *)

\* The drivers of group g that are at work, those that are through, and the
\* groups with drivers.
LiveOf(g) == {d \in Live : d[1] = g}
Closed == {d \in Drivers : dState[d] = "closed"}
RunningGroups == {g \in Groups : LiveOf(g) # {}}

\* The drivers of group g have been created.
Begun(g) == IF g = Ungrouped THEN started
            ELSE g \in seenSplitGroups /\ g \notin Range(queuedSplitGroups)

\* A group that is seen waits in the queue until its drivers are created, once.
GroupsOK ==
  /\ started \in BOOLEAN
  /\ seenSplitGroups \subseteq Groups
  /\ queuedSplitGroups \in Seq(Groups)
  /\ IsInjective(queuedSplitGroups)
  /\ Range(queuedSplitGroups) \subseteq seenSplitGroups
  /\ \A d \in Drivers : dState[d] = "none" <=> ~Begun(d[1])
  /\ DOMAIN groupDrivers = AllGroups
  /\ ~started => isRunning /\ noMoreSplits = {} /\ ~mustFinish

\* While the task runs its counters count drivers and groups.
CountsOK ==
  isRunning =>
    /\ \A g \in AllGroups : groupDrivers[g] = Cardinality(LiveOf(g))
    /\ numRunningSplitGroups = Cardinality(RunningGroups)
    /\ numRunningSplitGroups <= ConcurrentSplitGroups
    /\ numFinishedDrivers = Cardinality(Closed)

\* The number of drivers that the task expects, before and after the review.
TotalOK ==
  isRunning =>
    numTotalDrivers =
      IF ~started THEN 0
      ELSE IF noMoreSplits = Nodes
      THEN Cardinality(seenSplitGroups) * NumDriversPerSplitGroup + NumDriversUngrouped
      ELSE NumDriversPerSplitGroup * NumSplitGroups + NumDriversUngrouped

\* A store has ended only when the caller has sent all its splits.
EndsOK ==
  \A n \in Nodes : \A g \in GroupsOf(n) :
    stores[n][g].noMoreSplits =>
      \A id \in next[n]..Len(SplitsOf[n]) : GroupOf[SplitsOf[n][id]] # g

\* The promises of a store are those of its own drivers that wait.
PromisedOK ==
  isRunning =>
    \A n \in Nodes : \A g \in GroupsOf(n) :
      /\ IsInjective(stores[n][g].splitPromises)
      /\ \A d \in Range(stores[n][g].splitPromises) :
           dState[d] = "wait" /\ d[1] = g /\ d[2] = n

\* A driver ends when its store has ended and is empty.
ThroughOK ==
  isRunning =>
    \A d \in Drivers : dState[d] \in {"finish", "closed"} =>
      /\ stores[d[2]][d[1]].noMoreSplits
      /\ stores[d[2]][d[1]].splits = <<>>

\* A split that was sent is in its store or handed out, and its group is seen.
SentOK ==
  isRunning =>
    \A n \in Nodes : \A id \in 1..(next[n] - 1) :
      LET s == SplitsOf[n][id] IN
      /\ handedOut[s] > 0 \/ s \in Range(stores[n][GroupOf[s]].splits)
      /\ n \in GroupedNodes => GroupOf[s] \in seenSplitGroups

WakesOK == EndsOK /\ PromisedOK /\ ThroughOK /\ SentOK /\ NoForgottenSplit

\* Groups whose drivers are through are complete, and so are those that the
\* caller has ended without a split.
CompletedOK ==
  /\ completedSplitGroups \subseteq Groups
  /\ \A n \in GroupedNodes : endedGroups[n] \subseteq completedSplitGroups \cup seenSplitGroups
  /\ \A n \in noMoreSplits : /\ next[n] > Len(SplitsOf[n])
                             /\ n \in GroupedNodes => endedGroups[n] = Groups
  /\ isRunning => \A g \in Groups : Begun(g) /\ LiveOf(g) = {} => g \in completedSplitGroups

\* All that FinishedIsComplete promises.
Complete ==
  /\ \A s \in Splits : handedOut[s] > 0
  /\ Live = {}
  /\ completedSplitGroups = Groups

\* Whoever is about to finish the task finds it complete.
FinishOK == (isRunning /\ mustFinish) \/ state = "kFinished" => Complete

\* A remote split that was sent is with the exchange client, or with a driver that
\* is handing it on, or in a store that has not been drained.
RemoteOK ==
  /\ DOMAIN holds = Drivers
  /\ drained => ~isRunning
  /\ \A n \in ExchangeNodes : \A id \in 1..(next[n] - 1) :
       LET s == SplitsOf[n][id] IN
       \/ s \in taskIds
       \/ \E d \in DriversOf(Ungrouped) : d[2] = n /\ dState[d] = "scan" /\ holds[d] = s
       \/ ~drained /\ s \in Range(stores[n][Ungrouped].splits)

TaskInv ==
  /\ SplitsInv
  /\ GroupsOK
  /\ CountsOK
  /\ TotalOK
  /\ WakesOK
  /\ CompletedOK
  /\ FinishOK
  /\ RemoteOK

-----------------------------------------------------------------------------
\* When the caller has said everything the task ends, and all drivers with it.
TaskEnds == <>(~isRunning /\ drained /\ Live = {})

=============================================================================
