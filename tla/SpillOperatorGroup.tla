------------------------- MODULE SpillOperatorGroup -------------------------
(***************************************************************************)
(* SpillOperatorGroup (exec/SpillOperatorGroup.cpp): when one operator of  *)
(* a plan node runs out of memory, all its peers stop at a barrier, the    *)
(* last to arrive spills for the whole group outside the mutex, and then   *)
(* resumes the others.  An operator that has stopped no longer takes part, *)
(* and is the one to spill when it was the last the others waited for.     *)
(*                                                                         *)
(* GroupNext lets any operator that is not waiting, not spilling and not   *)
(* stopped call the group in any way.  HashJoin makes the calls of         *)
(* HashBuild, and is shown to keep to that.                                *)
(***************************************************************************)
EXTENDS Naturals, FiniteSets

CONSTANT Operators   \* the operators of the plan node

ASSUME OperatorsAssumption == IsFiniteSet(Operators) /\ Operators # {}

VARIABLES
  groupState,            \* state_
  operators,             \* operators_
  stoppedOperators,      \* stoppedOperators_
  needSpill,             \* needSpill_
  numWaitingOperators,   \* numWaitingOperators_
  groupPromises,         \* promises_, as the operators they will resume
  spilling,              \* the operators inside runSpill
  taken,                 \* the promises each of them has moved out
  waiting,               \* the operators whose future is not realized
  groupFailed            \* the VELOX_CHECKs that have failed

groupVars == <<groupState, operators, stoppedOperators, needSpill,
               numWaitingOperators, groupPromises, spilling, taken, waiting,
               groupFailed>>

GroupTypeOK ==
  /\ groupState \in {"kInit", "kRunning", "kStopped"}
  /\ operators \subseteq Operators
  /\ stoppedOperators \subseteq Operators
  /\ needSpill \in BOOLEAN
  /\ numWaitingOperators \in Nat
  /\ groupPromises \subseteq Operators
  /\ spilling \subseteq Operators
  /\ taken \in [Operators -> SUBSET Operators]
  /\ waiting \subseteq Operators
  /\ groupFailed \subseteq {"add", "start", "stop", "stopped", "restart",
                            "request", "wait", "spill"}

GroupInit ==
  /\ groupState = "kInit"
  /\ operators = {}
  /\ stoppedOperators = {}
  /\ needSpill = FALSE
  /\ numWaitingOperators = 0
  /\ groupPromises = {}
  /\ spilling = {}
  /\ taken = [op \in Operators |-> {}]
  /\ waiting = {}
  /\ groupFailed = {}

\* A VELOX_CHECK that fails leaves the group as it is.
GroupCheckFails(check) ==
  /\ groupFailed' = groupFailed \cup {check}
  /\ UNCHANGED <<groupState, operators, stoppedOperators, needSpill,
                 numWaitingOperators, groupPromises, spilling, taken, waiting>>

\* numActiveOperatorsLocked, when 'stopped' have stopped.
NumActive(stopped) == Cardinality(operators) - Cardinality(stopped)

\* addOperator, from the constructor of the operator.
AddOperator(op) ==
  IF groupState # "kInit"
  THEN GroupCheckFails("add")
  ELSE /\ operators' = operators \cup {op}
       /\ UNCHANGED <<groupState, stoppedOperators, needSpill,
                      numWaitingOperators, groupPromises, spilling, taken,
                      waiting, groupFailed>>

GroupStart ==
  IF groupState # "kInit"
  THEN GroupCheckFails("start")
  ELSE /\ groupState' = "kRunning"
       /\ UNCHANGED <<operators, stoppedOperators, needSpill,
                      numWaitingOperators, groupPromises, spilling, taken,
                      waiting, groupFailed>>

\* checkStoppedStateLocked, when 'stopped' have stopped.
StoppedStateOK(stopped) ==
  /\ Cardinality(stopped) = Cardinality(operators)
  /\ ~needSpill
  /\ numWaitingOperators = 0
  /\ groupPromises = {}

\* restart, for the next level of recursive spilling.
Restart ==
  IF groupState # "kStopped" \/ ~StoppedStateOK(stoppedOperators)
  THEN GroupCheckFails("restart")
  ELSE /\ groupState' = "kRunning"
       /\ stoppedOperators' = {}
       /\ UNCHANGED <<operators, needSpill, numWaitingOperators, groupPromises,
                      spilling, taken, waiting, groupFailed>>

\* The promises are moved out of promises_ for runSpill, by op.
TakePromises(op) ==
  /\ spilling' = spilling \cup {op}
  /\ taken' = [taken EXCEPT ![op] = groupPromises]
  /\ groupPromises' = {}

\* Defect in StopCompletesBarrier: a stopping operator never looks for a spill
\* that only waits for it.
StopIgnoresBarrier(stopped) == FALSE

\* All the operators that remain already wait for the spill.
StopCompletesBarrier(stopped) ==
  needSpill /\ numWaitingOperators >= NumActive(stopped)

\* operatorStopped.
OperatorStopped(op) ==
  LET stopped == stoppedOperators \cup {op} IN
  IF groupState # "kRunning" \/ op \in stoppedOperators
  THEN GroupCheckFails("stop")
  ELSE /\ stoppedOperators' = stopped
       /\ IF Cardinality(stopped) = Cardinality(operators)
          THEN /\ groupState' = "kStopped"
               /\ groupFailed' = IF StoppedStateOK(stopped) THEN groupFailed
                                 ELSE groupFailed \cup {"stopped"}
               /\ UNCHANGED <<spilling, taken, groupPromises>>
          ELSE /\ IF StopCompletesBarrier(stopped)
                  THEN TakePromises(op)
                  ELSE UNCHANGED <<spilling, taken, groupPromises>>
               /\ UNCHANGED <<groupState, groupFailed>>
       /\ UNCHANGED <<operators, needSpill, numWaitingOperators, waiting>>

\* Defect in IsLastToWait: the barrier opens one operator early.
IsLastButOneToWait == numWaitingOperators + 2 >= NumActive(stoppedOperators)

IsLastToWait == numWaitingOperators + 1 = NumActive(stoppedOperators)

\* waitSpillLocked: the last operator to arrive takes the promises and spills,
\* the others get a future.
WaitSpillLocked(op) ==
  /\ numWaitingOperators' = numWaitingOperators + 1
  /\ IF IsLastToWait
     THEN TakePromises(op) /\ UNCHANGED waiting
     ELSE /\ groupPromises' = groupPromises \cup {op}
          /\ waiting' = waiting \cup {op}
          /\ UNCHANGED <<spilling, taken>>
  /\ UNCHANGED <<groupState, operators, stoppedOperators, groupFailed>>

\* The checks of requestSpill and waitSpill.
MayWait ==
  /\ groupState = "kRunning"
  /\ Cardinality(stoppedOperators) < Cardinality(operators)
  /\ numWaitingOperators < NumActive(stoppedOperators)

\* requestSpill.
RequestSpill(op) ==
  IF ~MayWait
  THEN GroupCheckFails("request")
  ELSE needSpill' = TRUE /\ WaitSpillLocked(op)

\* waitSpill.  The caller has seen needSpill outside the mutex.
WaitSpill(op) ==
  IF needSpill
  THEN IF MayWait THEN WaitSpillLocked(op) /\ UNCHANGED needSpill
                  ELSE GroupCheckFails("wait")
  ELSE IF /\ groupState = "kRunning"
          /\ Cardinality(stoppedOperators) < Cardinality(operators)
          /\ numWaitingOperators = 0
       THEN UNCHANGED groupVars ELSE GroupCheckFails("wait")

\* The end of runSpill: the critical section after the spill runner, and the
\* promises.
SpillDone(op) ==
  /\ op \in spilling
  /\ IF groupState # "kRunning"
     THEN GroupCheckFails("spill")
     ELSE /\ needSpill' = FALSE
          /\ numWaitingOperators' = 0
          /\ waiting' = waiting \ taken[op]
          /\ taken' = [taken EXCEPT ![op] = {}]
          /\ spilling' = spilling \ {op}
          /\ UNCHANGED <<groupState, operators, stoppedOperators,
                         groupPromises, groupFailed>>

-----------------------------------------------------------------------------
(* The group with operators that call it in any order *)

\* An operator that may call the group.
Active(op) == op \in operators \ (stoppedOperators \cup waiting \cup spilling)

GroupNext ==
  \/ groupState = "kInit" /\ \E op \in Operators : AddOperator(op)
  \/ groupState = "kInit" /\ operators # {} /\ GroupStart
  \/ groupState = "kStopped" /\ Restart
  \/ \E op \in Operators :
       /\ groupState = "kRunning"
       /\ Active(op)
       /\ OperatorStopped(op) \/ RequestSpill(op) \/ WaitSpill(op)
  \/ \E op \in Operators : SpillDone(op)

GroupSpec == GroupInit /\ [][GroupNext]_groupVars

\* While an operator spills for the group (SpillOperatorGroup.cpp:172, outside
\* the mutex) no other operator runs: those that have not stopped wait for it.
SpillBarrier ==
  \A op \in spilling :
    /\ spilling = {op}
    /\ operators \ stoppedOperators \subseteq waiting \cup {op}

\* Nobody waits for a spill that no one will run: while operators wait, either
\* a spill is running that will resume all of them, or some operator is still
\* to reach the barrier or to stop (SpillOperatorGroup.cpp:78, 156).
NoStalledWaiter ==
  waiting # {} =>
    \/ \E op \in spilling : taken[op] = waiting
    \/ /\ needSpill
       /\ groupPromises = waiting
       /\ \E op \in operators : Active(op)

\* No VELOX_CHECK of the group fails, whatever the operators do: in particular
\* the group is never stopped or restarted with a spill pending
\* (SpillOperatorGroup.cpp:188 checkStoppedStateLocked).
GroupChecksHold == groupFailed = {}

\* The inductive invariant.
GroupInv ==
  /\ GroupTypeOK
  /\ GroupChecksHold
  /\ stoppedOperators \subseteq operators
  /\ waiting \subseteq operators \ stoppedOperators
  /\ spilling \cap waiting = {}
  /\ spilling \subseteq operators
  /\ groupState = "kInit" => stoppedOperators = {} /\ ~needSpill
  /\ groupState # "kInit" => operators # {}
  /\ groupState = "kStopped" => stoppedOperators = operators /\ ~needSpill
  /\ groupState = "kRunning" => stoppedOperators # operators
  /\ ~needSpill => waiting = {} /\ spilling = {} /\ numWaitingOperators = 0
  /\ spilling = {} =>
       /\ groupPromises = waiting
       /\ numWaitingOperators = Cardinality(waiting)
       /\ needSpill => waiting # {} /\ waiting # operators \ stoppedOperators
  /\ spilling # {} => groupPromises = {}
  /\ \A op \in spilling : taken[op] = waiting
  /\ SpillBarrier
=============================================================================
