---------------------- MODULE SpillOperatorGroupProofs ----------------------
(***************************************************************************)
(* Proofs about SpillOperatorGroup, for any finite set of operators.  The  *)
(* group counts its operators and compares the counts; the proof turns the *)
(* comparisons into statements about the sets, and GroupInv says which set *)
(* each counter stands for.                                                *)
(***************************************************************************)
EXTENDS SpillOperatorGroup, FiniteSetTheorems, TLAPS

\* The sizes of two sets of operators, one inside the other.
LEMMA SubsetSizes ==
  ASSUME NEW S \in SUBSET Operators, NEW T \in SUBSET S
  PROVE  /\ Cardinality(S) \in Nat
         /\ Cardinality(T) \in Nat
         /\ Cardinality(T) <= Cardinality(S)
         /\ Cardinality(T) = Cardinality(S) <=> T = S
         /\ Cardinality(S \ T) = Cardinality(S) - Cardinality(T)
<1>1. IsFiniteSet(S) /\ IsFiniteSet(T)
  BY Zenon, FS_Subset, OperatorsAssumption
<1>2. /\ Cardinality(S) \in Nat
      /\ Cardinality(T) \in Nat
      /\ Cardinality(T) <= Cardinality(S)
      /\ Cardinality(T) = Cardinality(S) => T = S
  BY Zenon, <1>1, FS_Subset, FS_CardinalityType
<1>3. Cardinality(S \ T) = Cardinality(S) - Cardinality(S \cap T)
  BY Zenon, <1>1, FS_Difference
<1>4. S \cap T = T
  BY Zenon
<1> QED
  BY Zenon, <1>2, <1>3, <1>4

\* One more operator.
LEMMA AddedSize ==
  ASSUME NEW S \in SUBSET Operators, NEW op \in Operators \ S
  PROVE  Cardinality(S \cup {op}) = Cardinality(S) + 1
<1>1. IsFiniteSet(S)
  BY Zenon, FS_Subset, OperatorsAssumption
<1> QED
  BY Zenon, <1>1, FS_AddElement

\* The comparison of operatorStopped (SpillOperatorGroup.cpp:69), whether all
\* operators have stopped, is that of the two sets, and its other comparison
\* (line 77) asks whether all that remain wait.
LEMMA StopCounts ==
  ASSUME GroupInv, NEW op \in operators \ (stoppedOperators \cup waiting)
  PROVE  LET stopped == stoppedOperators \cup {op} IN
         /\ Cardinality(stopped) = Cardinality(operators) <=> stopped = operators
         /\ spilling = {} =>
              (numWaitingOperators >= NumActive(stopped)
                 <=> waiting = operators \ stopped)
<1> DEFINE stopped == stoppedOperators \cup {op}
<1>1. operators \in SUBSET Operators /\ stopped \in SUBSET operators
  BY Zenon DEF GroupInv, GroupTypeOK
<1>2. /\ Cardinality(operators) \in Nat /\ Cardinality(stopped) \in Nat
      /\ Cardinality(stopped) = Cardinality(operators) <=> stopped = operators
      /\ Cardinality(operators \ stopped)
           = Cardinality(operators) - Cardinality(stopped)
  BY Zenon, <1>1, SubsetSizes
<1>3. waiting \in SUBSET (operators \ stopped)
  BY Zenon DEF GroupInv
<1>4. operators \ stopped \in SUBSET Operators
  BY Zenon, <1>1
<1>5. /\ Cardinality(waiting) \in Nat
      /\ Cardinality(operators \ stopped) \in Nat
      /\ Cardinality(waiting) <= Cardinality(operators \ stopped)
      /\ Cardinality(waiting) = Cardinality(operators \ stopped)
           <=> waiting = operators \ stopped
  <2> HIDE DEF stopped
  <2> QED
    BY Zenon, <1>3, <1>4, SubsetSizes
<1>6. spilling = {} => numWaitingOperators = Cardinality(waiting)
  BY Zenon DEF GroupInv
<1>7. NumActive(stopped) = Cardinality(operators \ stopped)
  BY Zenon, <1>2 DEF NumActive
<1>8. spilling = {} => (numWaitingOperators >= NumActive(stopped)
                          <=> waiting = operators \ stopped)
  <2> HIDE DEF stopped
  <2> QED
    BY <1>5, <1>6, <1>7
<1> QED
  BY Zenon, <1>2, <1>8

\* What the counts of waitSpillLocked (line 155) and of the checks before it
\* mean, for an operator that is neither stopped nor waiting.
LEMMA WaitCounts ==
  ASSUME GroupInv, spilling = {},
         NEW op \in operators \ (stoppedOperators \cup waiting)
  PROVE  /\ groupState = "kRunning" => MayWait
         /\ Cardinality(stoppedOperators) < Cardinality(operators)
         /\ IsLastToWait <=> waiting \cup {op} = operators \ stoppedOperators
         /\ numWaitingOperators + 1 = Cardinality(waiting \cup {op})
<1> DEFINE active == operators \ stoppedOperators
<1>1. /\ operators \in SUBSET Operators
      /\ stoppedOperators \in SUBSET operators
      /\ active \in SUBSET Operators
      /\ waiting \in SUBSET Operators
      /\ waiting \cup {op} \in SUBSET active
      /\ op \in Operators \ waiting
      /\ stoppedOperators # operators
  BY Zenon DEF GroupInv, GroupTypeOK
<1>2. /\ Cardinality(operators) \in Nat
      /\ Cardinality(stoppedOperators) \in Nat
      /\ Cardinality(stoppedOperators) <= Cardinality(operators)
      /\ Cardinality(stoppedOperators) # Cardinality(operators)
      /\ Cardinality(active) = Cardinality(operators) - Cardinality(stoppedOperators)
  BY Zenon, <1>1, SubsetSizes
<1>3. /\ Cardinality(waiting \cup {op}) \in Nat
      /\ Cardinality(active) \in Nat
      /\ Cardinality(waiting \cup {op}) <= Cardinality(active)
      /\ Cardinality(waiting \cup {op}) = Cardinality(active)
           <=> waiting \cup {op} = active
  <2> HIDE DEF active
  <2> QED
    BY Zenon, <1>1, SubsetSizes
<1>4. Cardinality(waiting \cup {op}) = Cardinality(waiting) + 1
  BY Zenon, <1>1, AddedSize
<1>5. Cardinality(waiting) \in Nat
  BY Zenon, <1>1, SubsetSizes
<1>6. numWaitingOperators = Cardinality(waiting)
  BY Zenon DEF GroupInv
<1>7. NumActive(stoppedOperators) = Cardinality(active)
  BY Zenon, <1>2 DEF NumActive
<1> HIDE DEF active
<1>8. /\ IsLastToWait <=> waiting \cup {op} = active
      /\ numWaitingOperators < NumActive(stoppedOperators)
  BY <1>3, <1>4, <1>5, <1>6, <1>7 DEF IsLastToWait
<1> QED
  BY <1>2, <1>4, <1>6, <1>8 DEF MayWait, active

\* The steps that create, start and restart the group.
LEMMA SetupStep ==
  ASSUME GroupInv,
         \/ groupState = "kInit" /\ \E op \in Operators : AddOperator(op)
         \/ groupState = "kInit" /\ operators # {} /\ GroupStart
         \/ groupState = "kStopped" /\ Restart
  PROVE  GroupInv'
<1> USE DEF GroupInv, GroupTypeOK, GroupChecksHold, SpillBarrier
<1>1. CASE groupState = "kInit" /\ \E op \in Operators : AddOperator(op)
  BY <1>1 DEF AddOperator
<1>2. CASE groupState = "kInit" /\ operators # {} /\ GroupStart
  BY ZenonT(30), <1>2 DEF GroupStart
<1>3. CASE groupState = "kStopped" /\ Restart
  <2>1. StoppedStateOK(stoppedOperators)
    BY Zenon, <1>3 DEF StoppedStateOK
  <2> QED
    BY <1>3, <2>1 DEF Restart
<1> QED
  BY Zenon, <1>1, <1>2, <1>3

\* An operator stops: it is the last of all, or the last the others waited for,
\* or neither.
LEMMA StopStep ==
  ASSUME GroupInv, groupState = "kRunning",
         NEW op \in Operators, Active(op), OperatorStopped(op)
  PROVE  GroupInv'
<1> DEFINE stopped == stoppedOperators \cup {op}
<1>1. op \in operators \ (stoppedOperators \cup waiting)
  BY Zenon DEF Active
<1>2. spilling = {}
  BY <1>1 DEF GroupInv, SpillBarrier, Active
<1>3. /\ Cardinality(stopped) = Cardinality(operators) <=> stopped = operators
      /\ numWaitingOperators >= NumActive(stopped)
           <=> waiting = operators \ stopped
  BY Zenon, <1>1, <1>2, StopCounts
<1>4. op \notin stoppedOperators
  BY Zenon, <1>1
<1> HIDE DEF stopped
<1>5. CASE stopped = operators
  <2>1. waiting = {}
    BY Zenon, <1>5, <1>1 DEF GroupInv, stopped
  <2>2. ~needSpill
    BY Zenon, <1>2, <2>1 DEF GroupInv
  <2>3. StoppedStateOK(stopped)
    BY Zenon, <1>2, <1>3, <1>5, <2>1, <2>2 DEF StoppedStateOK, GroupInv
  <2>4. /\ stoppedOperators' = stopped
        /\ groupState' = "kStopped"
        /\ groupFailed' = groupFailed
        /\ UNCHANGED <<spilling, taken, groupPromises, operators, needSpill,
                       numWaitingOperators, waiting>>
    BY Zenon, <1>3, <1>4, <1>5, <2>3 DEF OperatorStopped, stopped
  <2> QED
    BY Zenon, <1>2, <1>5, <2>1, <2>2, <2>4
    DEF GroupInv, GroupTypeOK, GroupChecksHold, SpillBarrier
<1>6. CASE stopped # operators /\ needSpill /\ waiting = operators \ stopped
  <2>1. StopCompletesBarrier(stopped)
    BY Zenon, <1>3, <1>6 DEF StopCompletesBarrier
  <2>2. /\ stoppedOperators' = stopped
        /\ TakePromises(op)
        /\ UNCHANGED <<groupState, groupFailed, operators, needSpill,
                       numWaitingOperators, waiting>>
    BY Zenon, <1>3, <1>4, <1>6, <2>1 DEF OperatorStopped, stopped
  <2>3. spilling' = {op} /\ taken' = [taken EXCEPT ![op] = waiting]
          /\ groupPromises' = {}
    BY Zenon, <1>2, <2>2 DEF TakePromises, GroupInv
  <2> QED
    BY <1>1, <1>2, <1>6, <2>2, <2>3
    DEF GroupInv, GroupTypeOK, GroupChecksHold, SpillBarrier, stopped
<1>7. CASE stopped # operators /\ ~(needSpill /\ waiting = operators \ stopped)
  <2>1. ~StopCompletesBarrier(stopped)
    BY Zenon, <1>3, <1>7 DEF StopCompletesBarrier
  <2>2. /\ stoppedOperators' = stopped
        /\ UNCHANGED <<groupState, groupFailed, operators, needSpill,
                       numWaitingOperators, waiting, spilling, taken,
                       groupPromises>>
    BY Zenon, <1>3, <1>4, <1>7, <2>1 DEF OperatorStopped, stopped
  <2> QED
    BY Zenon, <1>1, <1>2, <1>7, <2>2
    DEF GroupInv, GroupTypeOK, GroupChecksHold, SpillBarrier, stopped
<1> QED
  BY Zenon, <1>5, <1>6, <1>7

\* An operator comes to the barrier, with the spill requested before or by it.
LEMMA WaitLockedStep ==
  ASSUME GroupInv, groupState = "kRunning", spilling = {},
         NEW op \in operators \ (stoppedOperators \cup waiting),
         needSpill', WaitSpillLocked(op)
  PROVE  GroupInv'
<1>1. /\ IsLastToWait <=> waiting \cup {op} = operators \ stoppedOperators
      /\ numWaitingOperators + 1 = Cardinality(waiting \cup {op})
  BY Zenon, WaitCounts
<1>2. op \in Operators
  BY Zenon DEF GroupInv, GroupTypeOK
<1>3. needSpill' = TRUE
  BY Zenon
<1>4. numWaitingOperators \in Nat /\ numWaitingOperators' = numWaitingOperators + 1
  BY Zenon DEF GroupInv, GroupTypeOK, WaitSpillLocked
<1>5. CASE waiting \cup {op} = operators \ stoppedOperators
  <2>1. /\ spilling' = {op} /\ taken' = [taken EXCEPT ![op] = waiting]
        /\ groupPromises' = {}
        /\ UNCHANGED <<groupState, operators, stoppedOperators, groupFailed,
                       waiting>>
    BY Zenon, <1>1, <1>5 DEF WaitSpillLocked, TakePromises, GroupInv
  <2> QED
    BY <1>2, <1>3, <1>4, <1>5, <2>1
    DEF GroupInv, GroupTypeOK, GroupChecksHold, SpillBarrier
<1>6. CASE waiting \cup {op} # operators \ stoppedOperators
  <2>1. /\ waiting' = waiting \cup {op}
        /\ groupPromises' = waiting \cup {op}
        /\ UNCHANGED <<groupState, operators, stoppedOperators, groupFailed,
                       spilling, taken>>
    BY Zenon, <1>1, <1>6 DEF WaitSpillLocked, GroupInv
  <2>2. numWaitingOperators' = Cardinality(waiting')
    BY Zenon, <1>1, <1>4, <2>1
  <2> QED
    BY <1>2, <1>3, <1>4, <1>6, <2>1, <2>2
    DEF GroupInv, GroupTypeOK, GroupChecksHold, SpillBarrier
<1> QED
  BY Zenon, <1>5, <1>6

\* requestSpill and waitSpill.
LEMMA WaitStep ==
  ASSUME GroupInv, groupState = "kRunning", NEW op \in Operators, Active(op),
         RequestSpill(op) \/ WaitSpill(op)
  PROVE  GroupInv'
<1>1. op \in operators \ (stoppedOperators \cup waiting)
  BY Zenon DEF Active
<1>2. spilling = {}
  BY <1>1 DEF GroupInv, SpillBarrier, Active
<1>3. MayWait /\ Cardinality(stoppedOperators) < Cardinality(operators)
  BY Zenon, <1>1, <1>2, WaitCounts
<1>4. CASE RequestSpill(op)
  BY Zenon, <1>1, <1>2, <1>3, <1>4, WaitLockedStep DEF RequestSpill
<1>5. CASE WaitSpill(op) /\ needSpill
  BY Zenon, <1>1, <1>2, <1>3, <1>5, WaitLockedStep DEF WaitSpill
<1>6. CASE WaitSpill(op) /\ ~needSpill
  <2>1. numWaitingOperators = 0
    BY Zenon, <1>6 DEF GroupInv
  <2>2. UNCHANGED groupVars
    BY Zenon, <1>3, <1>6, <2>1 DEF WaitSpill
  <2> QED
    BY Zenon, <2>2 DEF groupVars, GroupInv, GroupTypeOK, GroupChecksHold, SpillBarrier
<1> QED
  BY Zenon, <1>4, <1>5, <1>6

\* The end of a spill resumes all that wait.
LEMMA DoneStep ==
  ASSUME GroupInv, NEW op \in Operators, SpillDone(op)
  PROVE  GroupInv'
<1>1. op \in spilling /\ spilling = {op} /\ taken[op] = waiting
  BY Zenon DEF SpillDone, GroupInv, SpillBarrier
<1>2. groupState = "kRunning"
  BY Zenon, <1>1 DEF GroupInv, GroupTypeOK
<1>3. /\ needSpill' = FALSE /\ numWaitingOperators' = 0
      /\ waiting' = {} /\ spilling' = {}
      /\ taken' = [taken EXCEPT ![op] = {}]
      /\ UNCHANGED <<groupState, operators, stoppedOperators, groupPromises,
                     groupFailed>>
  BY Zenon, <1>1, <1>2 DEF SpillDone
<1>4. Cardinality({}) = 0
  BY Zenon, FS_EmptySet
<1> QED
  BY Zenon, <1>1, <1>2, <1>3, <1>4
  DEF GroupInv, GroupTypeOK, GroupChecksHold, SpillBarrier

\* GroupInv holds throughout, for any finite set of operators that call the
\* group in any order.
THEOREM GroupInvariant == GroupSpec => []GroupInv
<1>1. GroupInit => GroupInv
  <2>1. Cardinality({}) = 0
    BY Zenon, FS_EmptySet
  <2>2. GroupInit => GroupTypeOK /\ ~needSpill
    <3>1. GroupInit => needSpill \in BOOLEAN /\ ~needSpill
      BY Zenon DEF GroupInit
    <3>2. GroupInit => numWaitingOperators \in Nat
      BY DEF GroupInit
    <3>3. GroupInit => taken \in [Operators -> SUBSET Operators]
      BY Zenon DEF GroupInit
    <3> QED
      BY Zenon, <3>1, <3>2, <3>3 DEF GroupInit, GroupTypeOK
  <2>3. GroupInit => GroupChecksHold /\ SpillBarrier
    BY Zenon DEF GroupInit, GroupChecksHold, SpillBarrier
  <2> SUFFICES ASSUME GroupInit PROVE GroupInv
    BY Zenon
  <2>4. /\ groupState = "kInit" /\ operators = {} /\ stoppedOperators = {}
        /\ numWaitingOperators = 0 /\ groupPromises = {} /\ spilling = {}
        /\ waiting = {}
    BY Zenon DEF GroupInit
  <2> QED
    BY Zenon, <2>1, <2>2, <2>3, <2>4 DEF GroupInv
<1>2. GroupInv /\ [GroupNext]_groupVars => GroupInv'
  <2> SUFFICES ASSUME GroupInv, [GroupNext]_groupVars PROVE GroupInv'
    BY Zenon
  <2>1. CASE UNCHANGED groupVars
    BY Zenon, <2>1 DEF groupVars, GroupInv, GroupTypeOK, GroupChecksHold, SpillBarrier
  <2>2. CASE GroupNext
    BY Zenon, <2>2, SetupStep, StopStep, WaitStep, DoneStep DEF GroupNext
  <2> QED
    BY Zenon, <2>1, <2>2
<1> QED
  BY <1>1, <1>2, PTL DEF GroupSpec

\* While an operator spills the tables of all (SpillOperatorGroup.cpp:172), the
\* others wait or have stopped.
THEOREM SpillsAlone == GroupSpec => []SpillBarrier
<1>1. GroupInv => SpillBarrier
  BY Zenon DEF GroupInv
<1> QED
  BY <1>1, GroupInvariant, PTL

\* Operators at the barrier are always resumed by a spill that runs, or wait
\* for an operator that is still running (SpillOperatorGroup.cpp:77, 155).
THEOREM WaitersHaveHope == GroupSpec => []NoStalledWaiter
<1>1. GroupInv => NoStalledWaiter
  <2> SUFFICES ASSUME GroupInv, waiting # {} PROVE NoStalledWaiter
    BY Zenon DEF NoStalledWaiter
  <2>1. needSpill
    BY Zenon DEF GroupInv
  <2>2. CASE spilling # {}
    BY Zenon, <2>2 DEF GroupInv, NoStalledWaiter
  <2>3. CASE spilling = {}
    <3>1. PICK op \in operators \ stoppedOperators : op \notin waiting
      BY Zenon, <2>1, <2>3 DEF GroupInv
    <3>2. Active(op)
      BY Zenon, <2>3, <3>1 DEF Active
    <3> QED
      BY Zenon, <2>1, <2>3, <3>1, <3>2 DEF GroupInv, NoStalledWaiter
  <2> QED
    BY Zenon, <2>2, <2>3
<1> QED
  BY <1>1, GroupInvariant, PTL

\* No check of the group fails, those on the stopped state included
\* (SpillOperatorGroup.cpp:188).
THEOREM GroupChecksNeverFail == GroupSpec => []GroupChecksHold
<1>1. GroupInv => GroupChecksHold
  BY Zenon DEF GroupInv
<1> QED
  BY <1>1, GroupInvariant, PTL
=============================================================================
