--------------------------- MODULE TaskSplitsProofs --------------------------
(***************************************************************************)
(* What holds of the splits of a task for every plan, number of drivers    *)
(* and list of splits.  The inductive invariant TaskInv has four parts,    *)
(* and each has a section:                                                 *)
(*   SplitsInv   stores, promises and sequence ids (TaskSplitsSteps);      *)
(*   GroupsInv   the queue of groups, the counters, and who is awake: it   *)
(*               takes counting drivers and groups as finite sets;         *)
(*   EndInv      when the counters meet, the task is complete;             *)
(*   RemoteOK    somebody has each remote split.                           *)
(***************************************************************************)
EXTENDS TaskSplitsSteps, FiniteSetTheorems

-----------------------------------------------------------------------------
(* Finite sets *)

\* The facts that the lemmas of TaskSplitsSteps take for granted.
LEMMA FiniteSetLibrary == FiniteSetFacts
<1>1. SubsetSizes
  BY Zenon, FS_Subset, FS_CardinalityType DEF SubsetSizes
<1>2. SmallSets
  BY Zenon, FS_EmptySet, FS_Singleton DEF SmallSets
<1>3. OneMore
  BY Zenon, FS_AddElement, FS_RemoveElement DEF OneMore
<1>4. UnionSizes
  BY Zenon, FS_Union, FS_Intersection DEF UnionSizes
<1>5. IntervalSizes
  BY FS_Interval DEF IntervalSizes
<1>6. ProductSizes
  BY Zenon, FS_Product DEF ProductSizes
<1>7. FunctionSizes
  BY Zenon, FS_Injection, FS_Surjection DEF FunctionSizes
<1>8. UnionsFinite
  BY Zenon, FS_UNION DEF UnionsFinite
<1> QED
  BY Zenon, <1>1, <1>2, <1>3, <1>4, <1>5, <1>6, <1>7, <1>8 DEF FiniteSetFacts

-----------------------------------------------------------------------------
(* The end of the task *)

\* Products of naturals grow with their factors.
LEMMA TimesMonotone ==
  ASSUME NEW a \in Nat, NEW b \in Nat, NEW c \in Nat, a <= b
  PROVE  a * c \in Nat /\ c * b \in Nat /\ a * c <= c * b
<1>1. PICK k \in Nat : b = a + k
  <2>1. b - a \in Nat /\ b = a + (b - a)
    OBVIOUS
  <2> QED
    BY Zenon, <2>1
<1>2. k * c \in Nat /\ a * c \in Nat
  OBVIOUS
<1>3. c * b = a * c + k * c
  BY <1>1
<1> QED
  BY <1>2, <1>3

\* How many drivers some groups have, together with the ungrouped ones.
LEMMA DriversCount ==
  ASSUME NEW S \in SUBSET Groups
  PROVE  LET D == {d \in Drivers : d[1] \in S \/ d[1] = Ungrouped} IN
         /\ IsFiniteSet(D)
         /\ Cardinality(D) = Cardinality(S) * NumDriversPerSplitGroup + NumDriversUngrouped
         /\ Cardinality(S) \in Nat
         /\ NumDriversPerSplitGroup \in Nat
         /\ NumDriversUngrouped \in Nat
<1> DEFINE D == {d \in Drivers : d[1] \in S \/ d[1] = Ungrouped}
           G == {d \in Drivers : d[1] \in S}
           U == DriversOf(Ungrouped)
<1>1. D = G \cup U /\ G \cap U = {}
  BY Zenon, SplitsAssumption DEF DriversOf, SplitsAssumption
<1>2. IsFiniteSet(D) /\ IsFiniteSet(G) /\ IsFiniteSet(U) /\ Cardinality(U) \in Nat
  BY Zenon, DriversFinite, FiniteSetLibrary DEF DriversOf
<1>3. NumDriversPerSplitGroup \in Nat
  BY Zenon, SlotsFinite, FiniteSetLibrary DEF Nodes, NumDriversPerSplitGroup, Slots
<1>4. /\ Cardinality(G) = Cardinality(S) * NumDriversPerSplitGroup
      /\ Cardinality(S) \in Nat
  BY Zenon, DriversOfGroups, FiniteSetLibrary
<1>5. Cardinality(S) * NumDriversPerSplitGroup \in Nat
  BY <1>3, <1>4
<1> HIDE DEF D, G, U
<1>6. Cardinality(D) = Cardinality(G) + Cardinality(U)
  <2>1. Cardinality(G \cup U) = Cardinality(G) + Cardinality(U) - Cardinality(G \cap U)
    BY Zenon, <1>2, FS_Union
  <2>2. Cardinality(G \cap U) = 0
    BY Zenon, <1>1, FS_EmptySet
  <2> QED
    BY <1>1, <1>2, <1>4, <1>5, <2>1, <2>2
<1>7. Cardinality(U) = NumDriversUngrouped
  BY Zenon DEF U, NumDriversUngrouped
<1> QED
  BY ZenonT(30), <1>2, <1>3, <1>4, <1>6, <1>7 DEF D

\* A task that has counted all its drivers has none left.
LEMMA CountedDrivers ==
  ASSUME GroupsOK, CountsOK, TotalOK, isRunning, started,
         numFinishedDrivers = numTotalDrivers
  PROVE  /\ \A d \in Drivers : d[1] \in seenSplitGroups \/ d[1] = Ungrouped =>
              dState[d] = "closed"
         /\ noMoreSplits = Nodes \/ \A d \in Drivers : dState[d] = "closed"
<1>1. /\ seenSplitGroups \in SUBSET Groups
      /\ \A d \in Drivers : dState[d] = "none" <=> ~Begun(d[1])
  BY Zenon DEF GroupsOK
<1>2. Cardinality(Closed) = numTotalDrivers
  BY Zenon DEF CountsOK
<1>3. CASE noMoreSplits = Nodes
  <2> DEFINE D == {d \in Drivers : d[1] \in seenSplitGroups \/ d[1] = Ungrouped}
  <2>1. /\ IsFiniteSet(D)
        /\ Cardinality(D) =
             Cardinality(seenSplitGroups) * NumDriversPerSplitGroup + NumDriversUngrouped
    BY Zenon, <1>1, DriversCount
  <2>2. Cardinality(D) = Cardinality(Closed)
    BY Zenon, <1>2, <1>3, <2>1 DEF TotalOK
  <2>3. Closed \subseteq D
    BY Zenon, <1>1 DEF Closed, Begun
  <2> HIDE DEF D
  <2>4. Closed = D
    BY Zenon, <2>1, <2>2, <2>3, FS_Subset
  <2> QED
    BY Zenon, <1>3, <2>4 DEF D, Closed
<1>4. CASE noMoreSplits # Nodes
  <2>1. /\ IsFiniteSet(Drivers)
        /\ Cardinality(Drivers) =
             Cardinality(Groups) * NumDriversPerSplitGroup + NumDriversUngrouped
        /\ Cardinality(Groups) \in Nat
        /\ NumDriversPerSplitGroup \in Nat
        /\ NumDriversUngrouped \in Nat
    <3>1. Drivers = {d \in Drivers : d[1] \in Groups \/ d[1] = Ungrouped}
      BY Zenon, DriverParts
    <3> QED
      BY Zenon, <3>1, DriversCount
  <2>2. numTotalDrivers = NumDriversPerSplitGroup * NumSplitGroups + NumDriversUngrouped
    BY Zenon, <1>4 DEF TotalOK
  <2>3. /\ Cardinality(Groups) * NumDriversPerSplitGroup \in Nat
        /\ NumDriversPerSplitGroup * NumSplitGroups \in Nat
        /\ Cardinality(Groups) * NumDriversPerSplitGroup
             <= NumDriversPerSplitGroup * NumSplitGroups
    BY Zenon, <2>1, TimesMonotone, SplitsAssumption DEF SplitsAssumption
  <2>4. Closed \subseteq Drivers
    BY Zenon DEF Closed
  <2>5. Cardinality(Closed) <= Cardinality(Drivers) /\ Cardinality(Closed) \in Nat
    BY Zenon, <2>1, <2>4, FS_Subset, LiveFinite, FiniteSetLibrary
  <2>6. Cardinality(Closed) = Cardinality(Drivers)
    BY <1>2, <2>1, <2>2, <2>3, <2>5
  <2>7. Closed = Drivers
    BY Zenon, <2>1, <2>4, <2>6, FS_Subset
  <2> QED
    BY Zenon, <2>7 DEF Closed
<1> QED
  BY Zenon, <1>3, <1>4

\* A task that has counted all its drivers is complete.
LEMMA CountedComplete ==
  SplitsInv /\ GroupsInv /\ CompletedOK /\ isRunning /\ started
    /\ numFinishedDrivers = numTotalDrivers => Complete
<1> SUFFICES ASSUME SplitsInv, GroupsInv, CompletedOK, isRunning, started,
                    numFinishedDrivers = numTotalDrivers
             PROVE  Complete
  BY Zenon
<1>1. /\ \A d \in Drivers : d[1] \in seenSplitGroups \/ d[1] = Ungrouped =>
           dState[d] = "closed"
      /\ noMoreSplits = Nodes \/ \A d \in Drivers : dState[d] = "closed"
  BY Zenon, CountedDrivers DEF GroupsInv
<1>2. \A d \in Drivers : dState[d] = "none" <=> ~Begun(d[1])
  BY Zenon DEF GroupsInv, GroupsOK
<1>3. Live = {}
  BY Zenon, <1>1, <1>2 DEF Live, Begun
<1>4. completedSplitGroups = Groups
  <2>1. ASSUME NEW g \in Groups, g \in seenSplitGroups
        PROVE  g \in completedSplitGroups
    <3>1. PICK d \in Drivers : d[1] = g
      BY Zenon, DriversOfGroup, FiniteSetLibrary DEF DriversOf
    <3>2. Begun(g)
      BY Zenon, <1>1, <1>2, <2>1, <3>1
    <3>3. LiveOf(g) = {}
      BY Zenon, <1>3 DEF LiveOf
    <3> QED
      BY Zenon, <3>2, <3>3 DEF CompletedOK
  <2>2. ASSUME NEW g \in Groups, g \notin seenSplitGroups
        PROVE  g \in completedSplitGroups
    <3>1. PICK d \in Drivers : d[1] = g
      BY Zenon, DriversOfGroup, FiniteSetLibrary DEF DriversOf
    <3>2. dState[d] = "none"
      BY Zenon, <1>2, <2>2, <3>1, SplitsAssumption DEF Begun, SplitsAssumption
    <3>3. noMoreSplits = Nodes
      BY Zenon, <1>1, <3>2
    <3>4. PICK n \in GroupedNodes : TRUE
      BY Zenon, SplitsAssumption DEF SplitsAssumption
    <3>5. n \in noMoreSplits
      BY Zenon, <3>3 DEF Nodes
    <3>6. endedGroups[n] = Groups
      BY Zenon, <3>5 DEF CompletedOK
    <3> QED
      BY Zenon, <2>2, <3>6 DEF CompletedOK
  <2> QED
    BY Zenon, <2>1, <2>2 DEF CompletedOK
<1>5. ASSUME NEW s \in Splits
      PROVE  handedOut[s] > 0
  <2>1. PICK n \in Nodes : s \in Range(SplitsOf[n])
    BY Zenon DEF Splits
  <2>2. PICK id \in DOMAIN SplitsOf[n] : s = SplitsOf[n][id]
    BY Zenon, <2>1 DEF Range
  <2>3. /\ SplitsOf[n] \in Seq(Range(SplitsOf[n]))
        /\ Len(SplitsOf[n]) \in Nat
        /\ NumDrivers[n] \in Nat \ {0}
        /\ next[n] \in Nat \ {0}
    BY SMTT(30), SplitsAssumption, SplitsParts
    DEF SplitsAssumption, StoresOK
  <2>4. id \in 1..Len(SplitsOf[n])
    BY <2>3
  <2>5. PICK g \in GroupsOf(n) : g = GroupOf[s]
    BY Zenon, <2>2, <2>4, SplitPlace
  <2>6. PICK d \in Drivers : d[1] = g /\ d[2] = n
    <3>1. 1 \in 1..NumDrivers[n]
      BY SMTT(30), <2>3
    <3>2. <<g, n, 1>> \in Drivers
      BY <3>1 DEF Drivers
    <3> QED
      BY Zenon, <3>2
  <2>7. dState[d] = "closed" =>
          /\ stores[n][g].noMoreSplits
          /\ stores[n][g].splits = <<>>
    BY Zenon, <2>6 DEF GroupsInv, WakesOK, ThroughOK
  <2>8. id \in 1..(next[n] - 1)
    <3>1. CASE noMoreSplits = Nodes
      <4>1. next[n] > Len(SplitsOf[n])
        BY Zenon, <3>1 DEF CompletedOK
      <4> QED
        BY <2>3, <2>4, <4>1
    <3>2. CASE \A e \in Drivers : dState[e] = "closed"
      <4>1. id \notin next[n]..Len(SplitsOf[n])
        BY ZenonT(30), <2>2, <2>5, <2>7, <3>2 DEF GroupsInv, WakesOK, EndsOK
      <4> QED
        BY SMTT(30), <2>3, <2>4, <4>1
    <3> QED
      BY Zenon, <1>1, <3>1, <3>2
  <2>9. g \in seenSplitGroups \/ g = Ungrouped
    BY Zenon, <2>2, <2>5, <2>8 DEF GroupsInv, WakesOK, SentOK, GroupsOf
  <2>10. stores[n][g].splits = <<>>
    BY Zenon, <1>1, <2>6, <2>7, <2>9
  <2>11. s \notin Range(stores[n][g].splits)
    BY <2>10 DEF Range
  <2> QED
    BY ZenonT(30), <2>2, <2>5, <2>8, <2>11 DEF GroupsInv, WakesOK, SentOK
<1> QED
  BY Zenon, <1>3, <1>4, <1>5 DEF Complete

\* The groups that were begun and have no live driver have all drivers closed.
ClosedGroups ==
  \A g \in Groups :
    Begun(g) /\ LiveOf(g) = {} <=> \A d \in DriversOf(g) : dState[d] = "closed"

\* The drivers of a group are through when all of them are closed.
LEMMA GroupThrough == GroupsOK => ClosedGroups
<1> SUFFICES ASSUME GroupsOK, NEW g \in Groups
             PROVE  Begun(g) /\ LiveOf(g) = {} <=>
                      \A d \in DriversOf(g) : dState[d] = "closed"
  BY Zenon DEF ClosedGroups
<1>1. PICK e \in DriversOf(g) : TRUE
  BY Zenon, DriversOfGroup, FiniteSetLibrary
<1>2. \A d \in DriversOf(g) : d \in Drivers /\ d[1] = g /\ (dState[d] = "none" <=> ~Begun(g))
  BY Zenon DEF DriversOf, GroupsOK
<1> QED
  BY Zenon, <1>1, <1>2 DEF LiveOf, Live, DriversOf

\* No driver is closed in a step.
NoneCloses == \A d \in Drivers : dState'[d] = "closed" => dState[d] = "closed"

\* A step that closes no driver leaves nothing to complete.
LEMMA DoneStays ==
  ASSUME GroupsOK, GroupsOK', CompletedOK, completedSplitGroups \subseteq completedSplitGroups',
         state' = "kRunning" => isRunning /\ NoneCloses
  PROVE  (isRunning => \A g \in Groups : Begun(g) /\ LiveOf(g) = {} =>
                                           g \in completedSplitGroups)'
<1>1. (GroupsOK => ClosedGroups)'
  BY GroupThrough, PTL
<1> SUFFICES ASSUME isRunning', NEW g \in Groups, (Begun(g) /\ LiveOf(g) = {})'
             PROVE  g \in completedSplitGroups'
  BY Zenon
<1>2. \A d \in DriversOf(g) : dState'[d] = "closed"
  BY Zenon, <1>1 DEF ClosedGroups
<1>3. \A d \in DriversOf(g) : dState[d] = "closed"
  BY Zenon, <1>2 DEF isRunning, NoneCloses, DriversOf
<1>4. Begun(g) /\ LiveOf(g) = {}
  BY Zenon, <1>3, GroupThrough DEF ClosedGroups
<1> QED
  BY Zenon, <1>4 DEF CompletedOK, isRunning

\* A step in which the caller ends no group and no node.
LEMMA CompletedStays ==
  ASSUME GroupsOK, GroupsOK', CompletedOK,
         completedSplitGroups \subseteq completedSplitGroups', completedSplitGroups' \subseteq Groups,
         seenSplitGroups \subseteq seenSplitGroups',
         UNCHANGED <<endedGroups, noMoreSplits>>, \A n \in noMoreSplits : next'[n] = next[n],
         state' = "kRunning" => isRunning /\ NoneCloses
  PROVE  CompletedOK'
<1>1. (isRunning => \A g \in Groups : Begun(g) /\ LiveOf(g) = {} =>
                                           g \in completedSplitGroups)'
  BY Zenon, DoneStays
<1>2. /\ \A n \in GroupedNodes : endedGroups'[n] \subseteq completedSplitGroups' \cup seenSplitGroups'
      /\ \A n \in noMoreSplits' : /\ next'[n] > Len(SplitsOf[n])
                                  /\ n \in GroupedNodes => endedGroups'[n] = Groups
  BY Zenon DEF CompletedOK
<1> QED
  BY Zenon, <1>1, <1>2 DEF CompletedOK

\* A step after which no more drivers are at work keeps a task complete.
LEMMA CompleteStays ==
  ASSUME CompletedOK', completedSplitGroups \subseteq completedSplitGroups', handedOut' = handedOut,
         Live' \subseteq Live, Complete
  PROVE  Complete'
BY Zenon DEF Complete, CompletedOK

\* The parts of the invariant about the end of the task.
EndInv == CompletedOK /\ FinishOK

\* A step that does not decide about the end, of a task that is not complete or stays so.
LEMMA EndStays ==
  ASSUME EndInv, CompletedOK', UNCHANGED <<state, mustFinish>>, Complete => Complete'
  PROVE  EndInv'
BY Zenon DEF EndInv, FinishOK, isRunning

\* Task::start.
LEMMA StartEnd ==
  ASSUME SplitsInv, GroupsInv, EndInv, Start
  PROVE  EndInv'
<1>1. GroupsInv' /\ OnlyBegins({})
  BY Zenon, StartInv, FiniteSetLibrary
<1>2. /\ UNCHANGED <<state, mustFinish, endedGroups, noMoreSplits, next, seenSplitGroups,
                     completedSplitGroups>>
      /\ ~started
  BY Zenon DEF Start, splitVars, endVars, callerVars
<1>3. NoneCloses
  BY Zenon, <1>1 DEF NoneCloses, OnlyBegins
<1>4. CompletedOK'
  BY ZenonT(30), <1>1, <1>2, <1>3, CompletedStays
  DEF GroupsInv, EndInv, CompletedOK, isRunning
<1>5. isRunning /\ ~mustFinish
  BY Zenon, <1>2 DEF GroupsInv, GroupsOK
<1>6. FinishOK'
  BY Zenon, <1>2, <1>5 DEF FinishOK, isRunning
<1> QED
  BY Zenon, <1>4, <1>6 DEF EndInv

\* A driver that asks for a split or has finished one.
LEMMA DriverEnd ==
  ASSUME GroupsInv, GroupsInv', EndInv, NEW d \in Live, NoneCloses,
         UNCHANGED <<state, mustFinish, endedGroups, noMoreSplits, next, seenSplitGroups,
                     completedSplitGroups>>
  PROVE  EndInv'
<1>1. CompletedOK'
  BY Zenon, CompletedStays DEF GroupsInv, EndInv, CompletedOK, isRunning
<1>2. ~Complete
  BY Zenon DEF Complete
<1> QED
  BY Zenon, <1>1, <1>2, EndStays

\* Task::getSplitOrFuture.
LEMMA GetSplitEnd ==
  ASSUME SplitsInv, GroupsInv, EndInv, NEW d \in Drivers, GetSplitOrFuture(d)
  PROVE  EndInv'
<1>1. GroupsInv' /\ Answer(d)
  BY Zenon, GetSplitInv, FiniteSetLibrary, GetSplitAnswer
<1>2. /\ dState[d] = "run"
      /\ \E x \in {"finish", "wait", "scan"} : dState' = [dState EXCEPT ![d] = x]
  BY Zenon, <1>1 DEF Answer, Waits, Takes
<1>3. d \in Live /\ NoneCloses
  BY Zenon, <1>2, SplitsParts DEF Live, NoneCloses, StoresOK
<1>4. UNCHANGED <<state, mustFinish, endedGroups, noMoreSplits, next, seenSplitGroups,
                  completedSplitGroups>>
  BY Zenon DEF GetSplitOrFuture, groupVars, endVars, callerVars
<1> QED
  BY Zenon, <1>1, <1>3, <1>4, DriverEnd

\* Task::splitFinished.
LEMMA SplitFinishedEnd ==
  ASSUME SplitsInv, GroupsInv, EndInv, NEW d \in Drivers, SplitFinished(d)
  PROVE  EndInv'
<1>1. d \in Live /\ NoneCloses
  BY Zenon, SplitsParts DEF SplitFinished, Live, NoneCloses, StoresOK
<1>2. UNCHANGED <<state, mustFinish, endedGroups, noMoreSplits, next, seenSplitGroups,
                  completedSplitGroups>>
  BY Zenon DEF SplitFinished, splitVars, groupVars, endVars, callerVars
<1> QED
  BY Zenon, <1>1, <1>2, SplitFinishedInv, FiniteSetLibrary, DriverEnd

\* A step of the caller or of the task that begins no driver and closes none.
LEMMA QuietEnd ==
  ASSUME GroupsInv, GroupsInv', EndInv, NoneCloses, Live' \subseteq Live,
         UNCHANGED <<state, mustFinish, endedGroups, noMoreSplits, next, seenSplitGroups,
                     completedSplitGroups, handedOut>>
  PROVE  EndInv'
<1>1. CompletedOK'
  BY Zenon, CompletedStays DEF GroupsInv, EndInv, CompletedOK, isRunning
<1>2. Complete => Complete'
  BY Zenon, <1>1, CompleteStays
<1> QED
  BY Zenon, <1>1, <1>2, EndStays

\* Task::setMaxSplitSequenceId.
LEMMA SetMaxEnd ==
  ASSUME SplitsInv, GroupsInv, EndInv, NEW n \in Nodes, SetMaxSplitSequenceId(n)
  PROVE  EndInv'
<1>1. /\ UNCHANGED <<state, mustFinish, endedGroups, noMoreSplits, next, seenSplitGroups,
                     completedSplitGroups, handedOut>>
      /\ dState' = dState
  BY Zenon DEF SetMaxSplitSequenceId, groupVars, endVars, driverVars
<1>2. NoneCloses /\ Live' \subseteq Live
  BY Zenon, <1>1 DEF NoneCloses, Live
<1> QED
  BY Zenon, <1>1, <1>2, SetMaxInv, FiniteSetLibrary, QuietEnd

\* A step that changes nothing.
LEMMA StutterEnd ==
  ASSUME SplitsInv, GroupsInv, EndInv, UNCHANGED vars
  PROVE  EndInv'
<1>1. /\ UNCHANGED <<state, mustFinish, endedGroups, noMoreSplits, next, seenSplitGroups,
                     completedSplitGroups, handedOut>>
      /\ dState' = dState
  BY Zenon DEF vars, splitVars, groupVars, endVars, driverVars, callerVars
<1>2. NoneCloses /\ Live' \subseteq Live
  BY Zenon, <1>1 DEF NoneCloses, Live
<1> QED
  BY Zenon, <1>1, <1>2, StutterInv, FiniteSetLibrary, QuietEnd

\* The second half of Task::terminate.
LEMMA DrainEnd ==
  ASSUME SplitsInv, GroupsInv, EndInv, Drain
  PROVE  EndInv'
<1>1. /\ UNCHANGED <<state, mustFinish, endedGroups, noMoreSplits, next, seenSplitGroups,
                     completedSplitGroups, handedOut>>
      /\ dState' = dState
  BY Zenon DEF Drain, groupVars, driverVars, callerVars
<1>2. NoneCloses /\ Live' \subseteq Live
  BY Zenon, <1>1 DEF NoneCloses, Live
<1> QED
  BY Zenon, <1>1, <1>2, DrainInv, FiniteSetLibrary, QuietEnd

\* Task::addSplit and addSplitWithSequence: a task with a split to come is not
\* complete.
LEMMA SendEnd ==
  ASSUME SplitsInv, GroupsInv, EndInv, NEW n \in Nodes, SendSplit(n)
  PROVE  EndInv'
<1>1. GroupsInv' /\ (isRunning => Joins(n))
  BY Zenon, SendInv, FiniteSetLibrary DEF EndInv
<1>2. /\ UNCHANGED <<state, mustFinish, endedGroups, noMoreSplits, completedSplitGroups>>
      /\ next[n] <= Len(SplitsOf[n])
      /\ next' = [next EXCEPT ![n] = @ + 1]
      /\ ~isRunning => seenSplitGroups' = seenSplitGroups
  BY Zenon DEF SendSplit, AddSplit, endVars
<1>3. next[n] \in Nat \ {0} /\ Len(SplitsOf[n]) \in Nat /\ next \in [Nodes -> Nat \ {0}]
  BY SMTT(30), SplitsAssumption, SplitsParts
  DEF StoresOK, SplitsAssumption
<1>4. n \notin noMoreSplits
  BY SMTT(30), <1>2, <1>3 DEF EndInv, CompletedOK
<1>5. \A m \in noMoreSplits : next'[m] = next[m]
  BY <1>2, <1>3, <1>4
<1>6. seenSplitGroups \subseteq seenSplitGroups'
  BY Zenon, <1>1, <1>2 DEF Joins
<1>7. isRunning => NoneCloses
  BY Zenon, <1>1 DEF Joins, Resumed, NoneCloses
<1>8. CompletedOK'
  BY ZenonT(30), <1>1, <1>2, <1>5, <1>6, <1>7, CompletedStays
  DEF GroupsInv, EndInv, CompletedOK, isRunning
<1>9. ~Complete
  <2>1. next[n] \in next[n]..Len(SplitsOf[n]) /\ next[n] \in 1..Len(SplitsOf[n])
    BY <1>2, <1>3
  <2>2. handedOut[SplitsOf[n][next[n]]] = 0
    BY ZenonT(30), <2>1, SplitsParts DEF HandedOutOK
  <2>3. SplitsOf[n][next[n]] \in Splits
    BY Zenon, <2>1, SplitPlace
  <2> QED
    BY SMTT(30), <2>2, <2>3 DEF Complete
<1> QED
  BY Zenon, <1>2, <1>8, <1>9, EndStays

\* Task::terminate.
LEMMA TerminateEnd ==
  ASSUME SplitsInv, GroupsInv, EndInv, started, NEW goal, goal # "kRunning", Terminate(goal),
         goal = "kFinished" => mustFinish
  PROVE  EndInv'
<1>1. GroupsInv'
  BY Zenon, TerminateInv
<1>2. PICK off : Terminates(off)
  BY Zenon, TerminateInv
<1>3. /\ UNCHANGED <<endedGroups, noMoreSplits, next, seenSplitGroups, completedSplitGroups,
                     handedOut>>
      /\ state' = goal
      /\ isRunning
  BY Zenon DEF Terminate, splitVars, groupVars, callerVars
<1>4. CompletedOK'
  BY Zenon, <1>1, <1>3, CompletedStays DEF GroupsInv, EndInv, CompletedOK, isRunning
<1>5. Live' \subseteq Live
  BY Zenon, <1>2 DEF Terminates, Live
<1>6. FinishOK'
  <2>1. CASE goal = "kFinished"
    <3>1. Complete
      BY Zenon, <1>3, <2>1 DEF EndInv, FinishOK
    <3> QED
      BY ZenonT(30), <1>3, <1>4, <1>5, <3>1, CompleteStays DEF FinishOK
  <2>2. CASE goal # "kFinished"
    BY Zenon, <1>3, <2>2 DEF FinishOK, isRunning
  <2> QED
    BY Zenon, <2>1, <2>2
<1> QED
  BY Zenon, <1>4, <1>6 DEF EndInv

\* Task::noMoreSplitsForGroup: a group that ends without a split is complete.
LEMMA GroupEndEnd ==
  ASSUME SplitsInv, GroupsInv, EndInv, NEW n \in GroupedNodes, NEW g \in Groups,
         NoMoreSplitsForGroup(n, g)
  PROVE  EndInv'
<1>1. GroupsInv' /\ Ends(n, g)
  BY Zenon, GroupEndInv, FiniteSetLibrary
<1>2. /\ UNCHANGED <<state, mustFinish, noMoreSplits, next, seenSplitGroups, handedOut>>
      /\ endedGroups' = [endedGroups EXCEPT ![n] = @ \cup {g}]
      /\ completedSplitGroups' = IF g \in seenSplitGroups THEN completedSplitGroups
                                 ELSE completedSplitGroups \cup {g}
  BY Zenon DEF NoMoreSplitsForGroup, endVars
<1>3. NoneCloses /\ Live' \subseteq Live
  BY Zenon, <1>1 DEF Ends, Resumed, NoneCloses, Live
<1>4. completedSplitGroups \subseteq completedSplitGroups'
  BY Zenon, <1>2
<1>5. CompletedOK'
  <2>1. (isRunning => \A h \in Groups : Begun(h) /\ LiveOf(h) = {} =>
                                           h \in completedSplitGroups)'
    BY ZenonT(30), <1>1, <1>2, <1>3, <1>4, DoneStays DEF GroupsInv, EndInv, isRunning
  <2>2. endedGroups \in [GroupedNodes -> SUBSET Groups]
    BY Zenon, SplitsParts DEF StoresOK
  <2>3. \A m \in GroupedNodes : endedGroups'[m] \subseteq completedSplitGroups' \cup seenSplitGroups'
    BY Zenon, <1>2, <1>4, <2>2 DEF EndInv, CompletedOK
  <2>4. \A m \in noMoreSplits' : /\ next'[m] > Len(SplitsOf[m])
                                 /\ m \in GroupedNodes => endedGroups'[m] = Groups
    BY Zenon, <1>2, <2>2 DEF EndInv, CompletedOK
  <2>5. completedSplitGroups' \subseteq Groups
    BY Zenon, <1>2 DEF EndInv, CompletedOK
  <2> QED
    BY ZenonT(30), <2>1, <2>3, <2>4, <2>5 DEF CompletedOK
<1>6. Complete => Complete'
  BY ZenonT(30), <1>2, <1>3, <1>4, <1>5, CompleteStays
<1> QED
  BY ZenonT(30), <1>2, <1>5, <1>6, EndStays

\* Task::noMoreSplits: the review ends no task that is not complete.
LEMMA NoMoreEnd ==
  ASSUME SplitsInv, GroupsInv, EndInv, NEW n \in Nodes, NoMoreSplits(n)
  PROVE  EndInv'
<1>1. GroupsInv' /\ SplitsInv'
  BY Zenon, NoMoreInv, FiniteSetLibrary, NoMoreSplitsStep
<1>2. PICK g \in GroupsOf(n) : Ends(n, g)
  BY Zenon, NoMoreInv, FiniteSetLibrary
<1>3. /\ UNCHANGED <<started, state, next, endedGroups, seenSplitGroups, completedSplitGroups,
                     handedOut, numFinishedDrivers>>
      /\ started
      /\ next[n] > Len(SplitsOf[n])
      /\ n \in GroupedNodes => endedGroups[n] = Groups
      /\ noMoreSplits' = noMoreSplits \cup {n}
  BY Zenon DEF NoMoreSplits, groupVars, callerVars
<1>4. NoneCloses /\ Live' \subseteq Live
  BY Zenon, <1>2 DEF Ends, Resumed, NoneCloses, Live
<1>5. CompletedOK'
  <2>1. (isRunning => \A h \in Groups : Begun(h) /\ LiveOf(h) = {} =>
                                           h \in completedSplitGroups)'
    BY ZenonT(30), <1>1, <1>3, <1>4, DoneStays DEF GroupsInv, EndInv, isRunning
  <2>2. /\ \A m \in GroupedNodes :
             endedGroups'[m] \subseteq completedSplitGroups' \cup seenSplitGroups'
        /\ \A m \in noMoreSplits' : /\ next'[m] > Len(SplitsOf[m])
                                    /\ m \in GroupedNodes => endedGroups'[m] = Groups
        /\ completedSplitGroups' \subseteq Groups
    BY Zenon, <1>3 DEF EndInv, CompletedOK
  <2> QED
    BY Zenon, <2>1, <2>2 DEF CompletedOK
<1>6. Complete => Complete'
  BY Zenon, <1>3, <1>4, <1>5, CompleteStays
<1>7. mustFinish' => mustFinish \/ (isRunning /\ numFinishedDrivers = numTotalDrivers')
  BY Zenon DEF NoMoreSplits, CheckIfFinished
<1>8. (SplitsInv /\ GroupsInv /\ CompletedOK /\ isRunning /\ started
         /\ numFinishedDrivers = numTotalDrivers => Complete)'
  BY CountedComplete, PTL
<1>9. FinishOK'
  BY ZenonT(30), <1>1, <1>3, <1>5, <1>6, <1>7, <1>8 DEF EndInv, FinishOK, isRunning
<1> QED
  BY Zenon, <1>5, <1>9 DEF EndInv

\* Task::removeDriver: the group of the last driver is complete, and the task is
\* when this was the last driver of all.
LEMMA RemoveEnd ==
  ASSUME SplitsInv, GroupsInv, EndInv, NEW d \in Drivers, RemoveDriver(d)
  PROVE  EndInv'
<1>1. GroupsInv' /\ SplitsInv' /\ OnlyBegins({d})
  BY Zenon, RemoveInv, FiniteSetLibrary, RemoveStep
<1>2. /\ UNCHANGED <<started, state, next, endedGroups, noMoreSplits, seenSplitGroups, handedOut,
                     numTotalDrivers>>
      /\ dState[d] \in {"finish", "run", "wait", "scan"}
      /\ numFinishedDrivers' = numFinishedDrivers + 1
  BY Zenon DEF RemoveDriver, splitVars, callerVars
<1>3. d \in Live /\ ~Complete
  BY Zenon, <1>2 DEF Live, Complete
<1>4. /\ completedSplitGroups \subseteq completedSplitGroups'
      /\ completedSplitGroups' \subseteq completedSplitGroups \cup {d[1]}
      /\ d[1] = Ungrouped => completedSplitGroups' = completedSplitGroups
  BY Zenon DEF RemoveDriver, IsGroupDone
<1>5. groupDrivers[d[1]] = 1 /\ d[1] # Ungrouped => d[1] \in completedSplitGroups'
  <2>1. d[1] \in AllGroups /\ DOMAIN groupDrivers = AllGroups
    BY Zenon, DriverParts DEF GroupsInv, GroupsOK
  <2>2. groupDrivers[d[1]] = 1 => [groupDrivers EXCEPT ![d[1]] = @ - 1][d[1]] = 0
    BY <2>1
  <2> QED
    BY Zenon, <2>2 DEF RemoveDriver, IsGroupDone
<1>6. ASSUME isRunning', NEW g \in Groups, (Begun(g) /\ LiveOf(g) = {})'
      PROVE  g \in completedSplitGroups'
  <2>1. (GroupsOK => ClosedGroups)'
    BY GroupThrough, PTL
  <2>2. \A e \in DriversOf(g) : dState'[e] = "closed"
    BY Zenon, <1>1, <1>6, <2>1 DEF GroupsInv, ClosedGroups
  <2>3. \A e \in DriversOf(g) : e # d => dState[e] = "closed"
    BY Zenon, <1>1, <2>2 DEF OnlyBegins, DriversOf
  <2>4. CASE d[1] = g
    <3>1. LiveOf(g) = {d}
      BY Zenon, <1>3, <2>3, <2>4 DEF LiveOf, Live, DriversOf
    <3>2. g \in AllGroups /\ g # Ungrouped
      BY Zenon, SplitsAssumption DEF AllGroups, SplitsAssumption
    <3>3. groupDrivers[g] = 1
      BY ZenonT(30), <1>2, <1>6, <3>1, <3>2, FS_Singleton DEF GroupsInv, CountsOK, isRunning
    <3> QED
      BY Zenon, <1>5, <2>4, <3>2, <3>3
  <2>5. CASE d[1] # g
    <3>1. \A e \in DriversOf(g) : dState[e] = "closed"
      BY Zenon, <2>3, <2>5 DEF DriversOf
    <3>2. Begun(g) /\ LiveOf(g) = {}
      BY Zenon, <3>1, GroupThrough DEF GroupsInv, ClosedGroups
    <3> QED
      BY ZenonT(30), <1>2, <1>4, <1>6, <3>2 DEF EndInv, CompletedOK, isRunning
  <2> QED
    BY Zenon, <2>4, <2>5
<1>7. CompletedOK'
  <2>1. completedSplitGroups' \subseteq Groups
    BY Zenon, <1>4, DriverParts DEF EndInv, CompletedOK, AllGroups
  <2>2. /\ \A m \in GroupedNodes :
             endedGroups'[m] \subseteq completedSplitGroups' \cup seenSplitGroups'
        /\ \A m \in noMoreSplits' : /\ next'[m] > Len(SplitsOf[m])
                                    /\ m \in GroupedNodes => endedGroups'[m] = Groups
    BY Zenon, <1>2, <1>4 DEF EndInv, CompletedOK
  <2> QED
    BY Zenon, <1>6, <2>1, <2>2 DEF CompletedOK
<1>8. mustFinish' => mustFinish \/ (isRunning /\ numFinishedDrivers' = numTotalDrivers)
  BY Zenon DEF RemoveDriver, CheckIfFinished
<1>9. isRunning /\ numFinishedDrivers' = numTotalDrivers => started
  <2>1. isRunning => numFinishedDrivers \in Nat
    BY Zenon, LiveFinite, FiniteSetLibrary DEF GroupsInv, CountsOK
  <2>2. isRunning /\ ~started => numTotalDrivers = 0
    BY Zenon DEF GroupsInv, TotalOK
  <2> QED
    BY <1>2, <2>1, <2>2
<1>10. (SplitsInv /\ GroupsInv /\ CompletedOK /\ isRunning /\ started
          /\ numFinishedDrivers = numTotalDrivers => Complete)'
  BY CountedComplete, PTL
<1>11. FinishOK'
  BY ZenonT(30), <1>1, <1>2, <1>3, <1>7, <1>8, <1>9, <1>10 DEF EndInv, FinishOK, isRunning
<1> QED
  BY Zenon, <1>7, <1>11 DEF EndInv

-----------------------------------------------------------------------------
(* Remote splits *)

\* Somebody has split s of exchange n.
Kept(n, s) ==
  \/ s \in taskIds
  \/ \E d \in DriversOf(Ungrouped) : d[2] = n /\ dState[d] = "scan" /\ holds[d] = s
  \/ ~drained /\ s \in Range(stores[n][Ungrouped].splits)

\* Drivers that are handing a split on go on doing so.
KeepsHolders ==
  \A d \in Drivers : d[2] \in ExchangeNodes /\ dState[d] = "scan" =>
    dState'[d] = "scan" /\ holds'[d] = holds[d]

\* What a step must not do to remote splits.
KeepsRemote ==
  /\ DOMAIN holds' = Drivers
  /\ taskIds \subseteq taskIds'
  /\ KeepsHolders
  /\ \A n \in ExchangeNodes :
       Range(stores[n][Ungrouped].splits) \subseteq Range(stores'[n][Ungrouped].splits)
  /\ drained' = drained

\* Such a step takes no split from everybody.
LEMMA KeptStays ==
  ASSUME KeepsRemote, NEW n \in ExchangeNodes, NEW s, Kept(n, s)
  PROVE  Kept(n, s)'
<1>1. CASE s \in taskIds
  BY Zenon, <1>1 DEF Kept, KeepsRemote
<1>2. CASE \E d \in DriversOf(Ungrouped) : d[2] = n /\ dState[d] = "scan" /\ holds[d] = s
  <2>1. PICK d \in DriversOf(Ungrouped) : d[2] = n /\ dState[d] = "scan" /\ holds[d] = s
    BY Zenon, <1>2
  <2>2. dState'[d] = "scan" /\ holds'[d] = s
    BY Zenon, <2>1 DEF RemoteOK, KeepsRemote, KeepsHolders, DriversOf
  <2> QED
    BY Zenon, <2>1, <2>2 DEF Kept
<1>3. CASE ~drained /\ s \in Range(stores[n][Ungrouped].splits)
  BY Zenon, <1>3 DEF Kept, KeepsRemote
<1> QED
  BY Zenon, <1>1, <1>2, <1>3 DEF Kept

\* A step in which the caller adds no split keeps the splits with somebody.
LEMMA RemoteStays ==
  ASSUME RemoteOK, KeepsRemote, next' = next, state' = "kRunning" => isRunning
  PROVE  RemoteOK'
<1>1. DOMAIN holds' = Drivers /\ (drained' => ~isRunning')
  BY Zenon DEF RemoteOK, KeepsRemote, isRunning
<1>2. ASSUME NEW n \in ExchangeNodes, NEW id \in 1..(next[n] - 1)
      PROVE  Kept(n, SplitsOf[n][id])'
  <2>1. Kept(n, SplitsOf[n][id])
    BY Zenon DEF RemoteOK, Kept
  <2> QED
    BY Zenon, <2>1, KeptStays
<1> QED
  BY Zenon, <1>1, <1>2 DEF RemoteOK, Kept

\* Task::start.
LEMMA StartRemote ==
  ASSUME SplitsInv, GroupsInv, RemoteOK, Start
  PROVE  RemoteOK'
<1>1. UNCHANGED <<taskIds, holds, stores, drained, next, state>>
  BY Zenon DEF Start, splitVars, endVars, callerVars
<1>2. OnlyBegins({})
  BY Zenon, StartInv, FiniteSetLibrary
<1>3. KeepsRemote
  BY Zenon, <1>1, <1>2 DEF RemoteOK, KeepsRemote, KeepsHolders, OnlyBegins
<1> QED
  BY Zenon, <1>1, <1>3, RemoteStays DEF isRunning

\* Task::removeDriver.
LEMMA RemoveRemote ==
  ASSUME SplitsInv, GroupsInv, RemoteOK, NEW d \in Drivers, RemoveDriver(d)
  PROVE  RemoteOK'
<1>1. /\ UNCHANGED <<taskIds, stores, drained, next, state>>
      /\ holds' = [holds EXCEPT ![d] = None]
      /\ dState[d] = "scan" => d[2] \notin ExchangeNodes
  BY Zenon DEF RemoveDriver, splitVars, callerVars
<1>2. OnlyBegins({d})
  BY Zenon, RemoveInv, FiniteSetLibrary
<1>3. KeepsRemote
  BY Zenon, <1>1, <1>2 DEF RemoteOK, KeepsRemote, KeepsHolders, OnlyBegins
<1> QED
  BY Zenon, <1>1, <1>3, RemoteStays DEF isRunning

\* Task::setMaxSplitSequenceId, and steps that change nothing.
LEMMA IdleRemote ==
  ASSUME RemoteOK,
         UNCHANGED vars \/ \E n \in Nodes : SetMaxSplitSequenceId(n)
  PROVE  RemoteOK'
<1>1. UNCHANGED <<taskIds, stores, drained, next, state, dState, holds>>
  BY Zenon DEF vars, SetMaxSplitSequenceId, splitVars, endVars, driverVars, callerVars
<1>2. KeepsRemote
  BY Zenon, <1>1 DEF RemoteOK, KeepsRemote, KeepsHolders
<1> QED
  BY Zenon, <1>1, <1>2, RemoteStays DEF isRunning

\* Task::noMoreSplitsForGroup and Task::noMoreSplits.
LEMMA EndsRemote ==
  ASSUME RemoteOK, NEW n, NEW g, Ends(n, g), UNCHANGED <<taskIds, drained, holds>>
  PROVE  RemoteOK'
<1>1. /\ UNCHANGED <<next, state>>
      /\ dState' = Resumed(dState, stores[n][g].splitPromises)
      /\ \A m \in Nodes : \A h \in GroupsOf(m) : stores'[m][h].splits = stores[m][h].splits
  BY Zenon DEF Ends
<1>2. \A m \in ExchangeNodes : m \in Nodes /\ Ungrouped \in GroupsOf(m)
  BY Zenon, SplitsAssumption DEF SplitsAssumption, Nodes, GroupsOf
<1>3. KeepsRemote
  BY Zenon, <1>1, <1>2 DEF RemoteOK, KeepsRemote, KeepsHolders, Resumed
<1> QED
  BY Zenon, <1>1, <1>3, RemoteStays DEF isRunning

\* The first half of Task::terminate closes no driver that hands a split on.
LEMMA TerminateRemote ==
  ASSUME SplitsInv, GroupsInv, RemoteOK, started, NEW goal, goal # "kRunning", Terminate(goal)
  PROVE  RemoteOK'
<1>1. UNCHANGED <<taskIds, stores, drained, next>> /\ isRunning
  BY Zenon DEF Terminate, splitVars, callerVars
<1>2. PICK off : Terminates(off)
  BY Zenon, TerminateInv
<1>3. KeepsRemote
  <2>1. DOMAIN holds' = Drivers
    BY Zenon DEF Terminate
  <2> QED
    BY Zenon, <1>1, <1>2, <2>1 DEF KeepsRemote, KeepsHolders, Terminates
<1> QED
  BY Zenon, <1>1, <1>3, RemoteStays

\* The driver and the store of an exchange belong to no split group.
LEMMA ExchangePlace ==
  ASSUME NEW n \in ExchangeNodes
  PROVE  /\ n \in Nodes
         /\ GroupsOf(n) = {Ungrouped}
         /\ \A d \in Drivers : d[2] = n => d \in DriversOf(Ungrouped)
<1>1. n \in Nodes /\ GroupsOf(n) = {Ungrouped}
  BY Zenon, SplitsAssumption DEF SplitsAssumption, Nodes, GroupsOf
<1>2. \A d \in Drivers : d[2] = n => d[1] = Ungrouped
  BY Zenon, <1>1, DriverPlace
<1> QED
  BY Zenon, <1>1, <1>2 DEF DriversOf

\* Task::getSplitOrFuture: a driver that takes a split has it.
LEMMA GetSplitRemote ==
  ASSUME SplitsInv, RemoteOK, NEW d \in Drivers, GetSplitOrFuture(d)
  PROVE  RemoteOK'
<1>1. Answer(d)
  BY Zenon, GetSplitAnswer
<1>2. UNCHANGED <<taskIds, drained, next, state>> /\ dState[d] = "run"
  BY Zenon DEF GetSplitOrFuture, endVars, callerVars
<1>3. d[2] \in Nodes /\ d[1] \in GroupsOf(d[2]) /\ dState \in [Drivers -> DriverStates]
  BY Zenon, DriverPlace, SplitsParts DEF StoresOK, DriverStates
<1>4. \A n \in ExchangeNodes : n \in Nodes /\ GroupsOf(n) = {Ungrouped}
  BY Zenon, ExchangePlace
<1>5. CASE dState' = [dState EXCEPT ![d] = "finish"] /\ UNCHANGED <<stores, holds>>
  <2>1. KeepsRemote
    BY ZenonT(30), <1>2, <1>3, <1>5 DEF RemoteOK, KeepsRemote, KeepsHolders
  <2> QED
    BY Zenon, <1>2, <2>1, RemoteStays DEF isRunning
<1>6. ASSUME NEW st, Waits(d, st), holds' = holds
      PROVE  RemoteOK'
  <2>1. dState' = [dState EXCEPT ![d] = "wait"]
    BY Zenon, <1>6 DEF Waits
  <2>2. \A n \in Nodes : \A g \in GroupsOf(n) : stores'[n][g].splits = stores[n][g].splits
    BY Zenon, <1>6 DEF Waits, HasWaiter, OnlyStore
  <2>3. KeepsRemote
    BY ZenonT(30), <1>2, <1>3, <1>4, <1>6, <2>1, <2>2
    DEF RemoteOK, KeepsRemote, KeepsHolders
  <2> QED
    BY Zenon, <1>2, <2>3, RemoteStays DEF isRunning
<1>7. ASSUME NEW st, NEW s, Takes(d, st, s), holds' = [holds EXCEPT ![d] = s]
      PROVE  RemoteOK'
  <2>1. /\ OnlyStore(d[2], d[1], st)
        /\ Range(st.splits) = Range(stores[d[2]][d[1]].splits) \ {s}
        /\ dState' = [dState EXCEPT ![d] = "scan"]
    BY Zenon, <1>7 DEF Takes, HasTaken
  <2>2. DOMAIN holds' = Drivers /\ dState'[d] = "scan" /\ holds'[d] = s
    BY Zenon, <1>3, <1>7, <2>1 DEF RemoteOK
  <2>3. KeepsHolders
    BY Zenon, <1>2, <1>3, <1>7, <2>1 DEF RemoteOK, KeepsHolders
  <2>4. ASSUME NEW n \in ExchangeNodes, NEW t, Kept(n, t)
        PROVE  Kept(n, t)'
    <3>1. CASE t \in taskIds
      BY Zenon, <1>2, <3>1 DEF Kept
    <3>2. CASE \E e \in DriversOf(Ungrouped) : e[2] = n /\ dState[e] = "scan" /\ holds[e] = t
      <4>1. PICK e \in DriversOf(Ungrouped) : e[2] = n /\ dState[e] = "scan" /\ holds[e] = t
        BY Zenon, <3>2
      <4>2. dState'[e] = "scan" /\ holds'[e] = t
        BY Zenon, <2>3, <4>1 DEF KeepsHolders, DriversOf
      <4> QED
        BY Zenon, <4>1, <4>2 DEF Kept
    <3>3. CASE ~drained /\ t \in Range(stores[n][Ungrouped].splits)
      <4>1. CASE n = d[2] /\ t = s
        <5>1. d \in DriversOf(Ungrouped)
          BY Zenon, <4>1, ExchangePlace
        <5> QED
          BY Zenon, <2>2, <4>1, <5>1 DEF Kept
      <4>2. CASE ~(n = d[2] /\ t = s)
        <5>1. t \in Range(stores'[n][Ungrouped].splits)
          BY ZenonT(30), <1>3, <1>4, <2>1, <3>3, <4>2 DEF OnlyStore
        <5> QED
          BY Zenon, <1>2, <3>3, <5>1 DEF Kept
      <4> QED
        BY Zenon, <4>1, <4>2
    <3> QED
      BY Zenon, <2>4, <3>1, <3>2, <3>3 DEF Kept
  <2>5. \A n \in ExchangeNodes : \A id \in 1..(next[n] - 1) : Kept(n, SplitsOf[n][id])
    BY Zenon DEF RemoteOK, Kept
  <2>6. \A n \in ExchangeNodes : \A id \in 1..(next'[n] - 1) : Kept(n, SplitsOf[n][id])'
    BY Zenon, <1>2, <2>4, <2>5
  <2> QED
    BY Zenon, <1>2, <2>2, <2>6 DEF RemoteOK, Kept, isRunning
<1> QED
  BY Zenon, <1>1, <1>5, <1>6, <1>7 DEF Answer

\* Task::splitFinished: the split that a driver of an exchange hands on is known
\* to the exchange client.
LEMMA SplitFinishedRemote ==
  ASSUME SplitsInv, RemoteOK, NEW d \in Drivers, SplitFinished(d)
  PROVE  RemoteOK'
<1>1. /\ UNCHANGED <<stores, drained, next, state>>
      /\ dState' = [dState EXCEPT ![d] = "run"]
      /\ holds' = [holds EXCEPT ![d] = None]
      /\ taskIds' = IF d[2] \in ExchangeNodes THEN taskIds \cup {holds[d]} ELSE taskIds
  BY Zenon DEF SplitFinished, AddRemoteSplit, splitVars, endVars, callerVars
<1>2. dState \in [Drivers -> DriverStates] /\ DOMAIN holds = Drivers /\ DOMAIN holds' = Drivers
  BY Zenon, <1>1, SplitsParts DEF StoresOK, DriverStates, RemoteOK
<1>3. \A e \in Drivers : e # d => dState'[e] = dState[e] /\ holds'[e] = holds[e]
  BY Zenon, <1>1, <1>2
<1>4. ASSUME NEW n \in ExchangeNodes, NEW t, Kept(n, t)
      PROVE  Kept(n, t)'
  <2>1. CASE t \in taskIds
    BY Zenon, <1>1, <2>1 DEF Kept
  <2>2. CASE \E e \in DriversOf(Ungrouped) : e[2] = n /\ dState[e] = "scan" /\ holds[e] = t
    <3>1. PICK e \in DriversOf(Ungrouped) : e[2] = n /\ dState[e] = "scan" /\ holds[e] = t
      BY Zenon, <2>2
    <3>2. CASE e = d
      BY Zenon, <1>1, <3>1, <3>2 DEF Kept
    <3>3. CASE e # d
      BY Zenon, <1>3, <3>1, <3>3 DEF Kept, DriversOf
    <3> QED
      BY Zenon, <3>2, <3>3
  <2>3. CASE ~drained /\ t \in Range(stores[n][Ungrouped].splits)
    BY Zenon, <1>1, <2>3 DEF Kept
  <2> QED
    BY Zenon, <1>4, <2>1, <2>2, <2>3 DEF Kept
<1>5. \A n \in ExchangeNodes : \A id \in 1..(next[n] - 1) : Kept(n, SplitsOf[n][id])
  BY Zenon DEF RemoteOK, Kept
<1>6. \A n \in ExchangeNodes : \A id \in 1..(next'[n] - 1) : Kept(n, SplitsOf[n][id])'
  BY Zenon, <1>1, <1>4, <1>5
<1> QED
  BY Zenon, <1>1, <1>2, <1>6 DEF RemoteOK, Kept, isRunning

\* Task::addSplit: a running task puts the split into its store, another one gives
\* it to the exchange client.
LEMMA SendRemote ==
  ASSUME SplitsInv, GroupsInv, CompletedOK, RemoteOK, NEW n \in Nodes, SendSplit(n)
  PROVE  RemoteOK'
<1>1. /\ UNCHANGED <<drained, state, holds>>
      /\ next[n] <= Len(SplitsOf[n])
      /\ next' = [next EXCEPT ![n] = @ + 1]
  BY Zenon DEF SendSplit, AddSplit, endVars
<1>2. /\ next \in [Nodes -> Nat \ {0}]
      /\ next[n] \in 1..Len(SplitsOf[n])
      /\ next'[n] = next[n] + 1
      /\ \A m \in Nodes : m # n => next'[m] = next[m]
  BY SMTT(30), <1>1, SplitsAssumption, SplitsParts
  DEF StoresOK, SplitsAssumption
<1>3. PICK s : s = NextSplit(n)
  BY Zenon
<1>4. KeepsRemote /\ (n \in ExchangeNodes => Kept(n, s)')
  <2>1. CASE isRunning
    <3>1. TakesSplit(n) /\ UNCHANGED taskIds /\ Joins(n)
      BY Zenon, <2>1, SendTakes, SendInv, FiniteSetLibrary
    <3>2. PICK st : Fills(n, st)
      BY Zenon, <3>1, FillStore
    <3>3. PICK g \in GroupsOf(n) : g = GroupOf[s]
      BY Zenon, <1>2, <1>3, SplitPlace DEF NextSplit
    <3>4. /\ OnlyStore(n, g, st)
          /\ Range(st.splits) = Range(stores[n][g].splits) \cup {s}
      BY Zenon, <1>3, <3>2, <3>3 DEF Fills, HasFilled, NextStore
    <3>5. \A m \in Nodes : \A h \in GroupsOf(m) :
            Range(stores[m][h].splits) \subseteq Range(stores'[m][h].splits)
      BY Zenon, <3>4 DEF OnlyStore
    <3>6. KeepsHolders
      BY Zenon, <1>1, <3>1 DEF KeepsHolders, Joins, Resumed
    <3>7. KeepsRemote
      BY Zenon, <1>1, <3>1, <3>5, <3>6, ExchangePlace DEF RemoteOK, KeepsRemote
    <3>8. ~drained'
      BY Zenon, <1>1, <2>1 DEF RemoteOK
    <3>9. ASSUME n \in ExchangeNodes PROVE Kept(n, s)'
      <4>1. g = Ungrouped
        BY <3>9, ExchangePlace
      <4>2. s \in Range(stores'[n][Ungrouped].splits)
        BY Zenon, <3>4, <4>1 DEF OnlyStore
      <4> QED
        BY Zenon, <3>8, <4>2 DEF Kept
    <3> QED
      BY Zenon, <3>7, <3>9
  <2>2. CASE ~isRunning
    <3>1. /\ UNCHANGED <<stores, dState>>
          /\ taskIds' = IF n \in ExchangeNodes THEN taskIds \cup {s} ELSE taskIds
      BY Zenon, <1>3, <2>2 DEF SendSplit, AddSplit, AddRemoteSplit, NextSplit
    <3>2. KeepsRemote
      BY Zenon, <1>1, <3>1 DEF RemoteOK, KeepsRemote, KeepsHolders
    <3> QED
      BY Zenon, <3>1, <3>2 DEF Kept
  <2> QED
    BY Zenon, <2>1, <2>2
<1>5. ASSUME NEW m \in ExchangeNodes, NEW id \in 1..(next'[m] - 1)
      PROVE  Kept(m, SplitsOf[m][id])'
  <2>1. m \in Nodes
    BY Zenon, ExchangePlace
  <2>2. CASE id \in 1..(next[m] - 1)
    <3>1. Kept(m, SplitsOf[m][id])
      BY Zenon, <2>2 DEF RemoteOK, Kept
    <3> QED
      BY Zenon, <1>4, <3>1, KeptStays
  <2>3. CASE id \notin 1..(next[m] - 1)
    <3>1. m = n /\ id = next[n]
      BY SMTT(30), <1>2, <2>1, <2>3
    <3>2. SplitsOf[m][id] = s
      BY Zenon, <1>3, <3>1 DEF NextSplit
    <3>3. Kept(n, s)'
      BY Zenon, <1>4, <3>1
    <3> QED
      BY Zenon, <3>1, <3>2, <3>3
  <2> QED
    BY Zenon, <2>2, <2>3
<1>6. DOMAIN holds' = Drivers /\ (drained' => ~isRunning')
  BY Zenon, <1>1 DEF RemoteOK, isRunning
<1> QED
  BY Zenon, <1>5, <1>6 DEF RemoteOK, Kept

\* The second half of Task::terminate gives what is left in the stores of exchanges
\* to their clients.
LEMMA DrainRemote ==
  ASSUME SplitsInv, RemoteOK, Drain
  PROVE  RemoteOK'
<1>1. /\ ~isRunning
      /\ drained' = TRUE
      /\ taskIds' = taskIds \cup UNION {LeftInStores(n) : n \in ExchangeNodes}
      /\ UNCHANGED <<state, dState, holds, next>>
  BY Zenon DEF Drain, driverVars, callerVars
<1>2. ASSUME NEW n \in ExchangeNodes, NEW s, Kept(n, s)
      PROVE  Kept(n, s)'
  <2>1. CASE s \in Range(stores[n][Ungrouped].splits)
    <3>1. s \in LeftInStores(n)
      BY Zenon, <2>1, ExchangePlace DEF LeftInStores
    <3> QED
      BY Zenon, <1>1, <3>1 DEF Kept
  <2>2. CASE s \notin Range(stores[n][Ungrouped].splits)
    BY Zenon, <1>1, <1>2, <2>2 DEF Kept
  <2> QED
    BY Zenon, <2>1, <2>2
<1>3. \A n \in ExchangeNodes : \A id \in 1..(next[n] - 1) : Kept(n, SplitsOf[n][id])
  BY Zenon DEF RemoteOK, Kept
<1>4. \A n \in ExchangeNodes : \A id \in 1..(next'[n] - 1) : Kept(n, SplitsOf[n][id])'
  BY Zenon, <1>1, <1>2, <1>3
<1>5. DOMAIN holds' = Drivers /\ (drained' => ~isRunning')
  BY Zenon, <1>1 DEF RemoteOK, isRunning
<1> QED
  BY Zenon, <1>4, <1>5 DEF RemoteOK, Kept

-----------------------------------------------------------------------------
(* Theorems *)

\* A task that was created and not started.
LEMMA InitTask == Init => TaskInv
<1> SUFFICES ASSUME Init PROVE TaskInv
  BY Zenon
<1>1. SplitsInv
  BY Zenon, InitInv
<1>2. \A n \in Nodes : \A g \in GroupsOf(n) :
        /\ stores[n][g].splits = <<>>
        /\ stores[n][g].splitPromises = <<>>
        /\ ~stores[n][g].noMoreSplits
  BY Zenon DEF Init, EmptyStore
<1>3. \A d \in Drivers : dState[d] = "none"
  BY Zenon DEF Init
<1>4. Range(queuedSplitGroups) = {} /\ IsInjective(queuedSplitGroups)
  BY SMTT(30) DEF Init, Range, IsInjective
<1>5. GroupsOK
  <2>1. \A g \in AllGroups : ~Begun(g)
    BY Zenon DEF Init, Begun
  <2>2. \A d \in Drivers : dState[d] = "none" <=> ~Begun(d[1])
    BY Zenon, <1>3, <2>1, DriverParts
  <2>3. /\ seenSplitGroups \subseteq Groups
        /\ queuedSplitGroups \in Seq(Groups)
        /\ Range(queuedSplitGroups) \subseteq seenSplitGroups
    BY <1>4 DEF Init
  <2>4. /\ started \in BOOLEAN
        /\ DOMAIN groupDrivers = AllGroups
        /\ ~started => isRunning /\ noMoreSplits = {} /\ ~mustFinish
    BY Zenon DEF Init, isRunning
  <2> QED
    BY Zenon, <1>4, <2>2, <2>3, <2>4 DEF GroupsOK
<1>6. Live = {} /\ Closed = {} /\ RunningGroups = {} /\ \A g : LiveOf(g) = {}
  BY Zenon, <1>3 DEF Live, Closed, RunningGroups, LiveOf
<1>7. CountsOK
  <2>1. 0 <= ConcurrentSplitGroups
    BY SplitsAssumption DEF SplitsAssumption
  <2>2. Cardinality({}) = 0
    BY Zenon, FS_EmptySet
  <2> QED
    BY Zenon, <1>6, <2>1, <2>2 DEF Init, CountsOK
<1>8. TotalOK
  BY Zenon DEF Init, TotalOK
<1>9. WakesOK
  <2>1. EndsOK
    BY Zenon, <1>2 DEF EndsOK
  <2>2. PromisedOK
    <3>1. IsInjective(<<>>) /\ Range(<<>>) = {}
      BY DEF IsInjective, Range
    <3> QED
      BY Zenon, <1>2, <3>1 DEF PromisedOK
  <2>3. ThroughOK
    BY Zenon, <1>3 DEF ThroughOK
  <2>4. SentOK
    BY SMTT(30) DEF SentOK, Init
  <2>5. NoForgottenSplit
    BY Zenon, <1>6 DEF NoForgottenSplit
  <2> QED
    BY Zenon, <2>1, <2>2, <2>3, <2>4, <2>5 DEF WakesOK
<1>10. CompletedOK
  BY Zenon, <1>4 DEF CompletedOK, Init, Begun
<1>11. FinishOK
  BY Zenon DEF FinishOK, Init
<1>12. RemoteOK
  BY SMTT(30), ExchangePlace DEF RemoteOK, Init
<1> QED
  BY ZenonT(30), <1>1, <1>5, <1>7, <1>8, <1>9, <1>10, <1>11, <1>12 DEF TaskInv

\* The parts of TaskInv that the lemmas above are about.
LEMMA TaskInvParts == TaskInv <=> SplitsInv /\ GroupsInv /\ EndInv /\ RemoteOK
BY Zenon DEF TaskInv, GroupsInv, EndInv

\* Every step of the caller, of a driver or of the task keeps the invariant.
LEMMA NextTask == TaskInv /\ [Next]_vars => TaskInv'
<1> SUFFICES ASSUME TaskInv, [Next]_vars PROVE TaskInv'
  BY Zenon
<1>1. SplitsInv /\ GroupsInv /\ EndInv /\ CompletedOK /\ RemoteOK
  BY Zenon, TaskInvParts DEF EndInv
<1>2. SplitsInv'
  BY Zenon, <1>1, NextInv
<1>3. (TaskInv <=> SplitsInv /\ GroupsInv /\ EndInv /\ RemoteOK)'
  BY TaskInvParts, PTL
<1> SUFFICES GroupsInv' /\ EndInv' /\ RemoteOK'
  BY Zenon, <1>2, <1>3
<1>4. CASE Start
  BY ZenonT(30), <1>1, <1>4, StartInv, FiniteSetLibrary, StartEnd, StartRemote
<1>5. CASE UNCHANGED vars
  BY ZenonT(30), <1>1, <1>5, StutterInv, FiniteSetLibrary, StutterEnd, IdleRemote
<1>6. ASSUME NEW n \in Nodes, SendSplit(n)
      PROVE  GroupsInv' /\ EndInv' /\ RemoteOK'
  BY Zenon, <1>1, <1>6, SendInv, FiniteSetLibrary, SendEnd, SendRemote
<1>7. ASSUME NEW n \in Nodes, SetMaxSplitSequenceId(n)
      PROVE  GroupsInv' /\ EndInv' /\ RemoteOK'
  BY ZenonT(30), <1>1, <1>7, SetMaxInv, FiniteSetLibrary, SetMaxEnd, IdleRemote
<1>8. ASSUME NEW n \in Nodes, NoMoreSplits(n)
      PROVE  GroupsInv' /\ EndInv' /\ RemoteOK'
  <2>1. PICK g \in GroupsOf(n) : Ends(n, g)
    BY Zenon, <1>1, <1>8, NoMoreInv, FiniteSetLibrary
  <2>2. UNCHANGED <<taskIds, drained, holds>>
    BY Zenon, <1>8 DEF NoMoreSplits
  <2>3. RemoteOK'
    BY Zenon, <1>1, <2>1, <2>2, EndsRemote
  <2> QED
    BY ZenonT(30), <1>1, <1>8, <2>3, NoMoreInv, FiniteSetLibrary, NoMoreEnd
<1>9. ASSUME NEW n \in Nodes, ResendSplit(n)
      PROVE  GroupsInv' /\ EndInv' /\ RemoteOK'
  BY Zenon, <1>1, <1>5, <1>9, ResendIdle
<1>10. ASSUME NEW n \in GroupedNodes, NEW g \in Groups, NoMoreSplitsForGroup(n, g)
       PROVE  GroupsInv' /\ EndInv' /\ RemoteOK'
  <2>1. GroupsInv' /\ Ends(n, g)
    BY Zenon, <1>1, <1>10, GroupEndInv, FiniteSetLibrary
  <2>2. UNCHANGED <<taskIds, drained, holds>>
    BY Zenon, <1>10 DEF NoMoreSplitsForGroup, endVars
  <2>3. RemoteOK'
    BY Zenon, <1>1, <2>1, <2>2, EndsRemote
  <2> QED
    BY ZenonT(30), <1>1, <1>10, <2>1, <2>3, GroupEndEnd
<1>11. ASSUME NEW d \in Drivers, GetSplitOrFuture(d)
       PROVE  GroupsInv' /\ EndInv' /\ RemoteOK'
  BY Zenon, <1>1, <1>11, GetSplitInv, FiniteSetLibrary, GetSplitEnd, GetSplitRemote
<1>12. ASSUME NEW d \in Drivers, SplitFinished(d)
       PROVE  GroupsInv' /\ EndInv' /\ RemoteOK'
  BY ZenonT(30), <1>1, <1>12, SplitFinishedInv, FiniteSetLibrary, SplitFinishedEnd, SplitFinishedRemote
<1>13. ASSUME NEW d \in Drivers, RemoveDriver(d)
       PROVE  GroupsInv' /\ EndInv' /\ RemoteOK'
  BY Zenon, <1>1, <1>13, RemoveInv, FiniteSetLibrary, RemoveEnd, RemoveRemote
<1>14. CASE Finish
  <2>1. mustFinish /\ Terminate("kFinished")
    BY Zenon, <1>14 DEF Finish
  <2>2. started
    BY Zenon, <1>1, <2>1 DEF GroupsInv, GroupsOK
  <2> QED
    BY ZenonT(30), <1>1, <2>1, <2>2, TerminateInv, TerminateEnd, TerminateRemote
<1>15. CASE Cancel
  <2>1. started /\ Terminate("kCanceled")
    BY Zenon, <1>15 DEF Cancel
  <2> QED
    BY ZenonT(30), <1>1, <2>1, TerminateInv, TerminateEnd, TerminateRemote
<1>16. CASE Drain
  BY ZenonT(30), <1>1, <1>16, DrainInv, FiniteSetLibrary, DrainEnd, DrainRemote
<1> QED
  BY ZenonT(30), <1>4, <1>5, <1>6, <1>7, <1>8, <1>9, <1>10, <1>11, <1>12, <1>13, <1>14, <1>15, <1>16
  DEF Next, CallerStep, DriverStep

\* The stores, the promises in them and the sequence ids of the caller agree in
\* every state that Task.cpp:900-1130 reaches.
THEOREM SplitsInvariant == Spec => []SplitsInv
<1>1. QED
  BY InitInv, NextInv, PTL DEF Spec

\* For every plan and list of splits, Task::addSplitWithSequence and
\* getSplitOrFuture give no split to two drivers (Task.cpp:910, 1134).
THEOREM NoSplitTwice == Spec => []SplitsOnce
<1>1. SplitsInv => SplitsOnce
  BY ZenonT(30), SplitsParts DEF HandedOutOK, SplitsOnce
<1>2. QED
  BY <1>1, SplitsInvariant, PTL

\* For every plan and list of splits, a driver that waits for a split has its
\* promise in a store that may still get one, and Task::noMoreSplits destroys no
\* promise (Task.cpp:1018, 1048).
THEOREM NoBrokenPromise == Spec => []PromisesKept
<1>1. SplitsInv => PromisesKept
  <2>1. SUFFICES ASSUME SplitsInv PROVE PromisesKept
    BY Zenon
  <2>2. ASSUME isRunning, NEW d \in Drivers, dState[d] = "wait"
        PROVE  /\ d \in Range(stores[d[2]][d[1]].splitPromises)
               /\ ~stores[d[2]][d[1]].noMoreSplits
    <3>1. d \in Range(stores[d[2]][d[1]].splitPromises)
      BY Zenon, <2>1, <2>2, SplitsParts DEF PromisesOK
    <3>2. stores[d[2]][d[1]].splitPromises # <<>>
      BY SMTT(30), <3>1 DEF Range
    <3>3. QED
      BY ZenonT(30), <2>1, <3>1, <3>2, DriverPlace, SplitsParts DEF PromisesOK
  <2>3. ~stuck
    BY ZenonT(30), <2>1, SplitsParts DEF PromisesOK
  <2>4. QED
    BY Zenon, <2>2, <2>3 DEF PromisesKept
<1>2. QED
  BY <1>1, SplitsInvariant, PTL

\* Queued groups, counters, stores, promises and remote splits agree in every
\* state that Task.cpp:563-1599 reaches, for every plan and list of splits.
THEOREM TaskInvariant == Spec => []TaskInv
<1> QED
  BY InitTask, NextTask, PTL DEF Spec

\* For every plan and list of splits, a task that finishes has given each split to
\* a driver, has no driver left and has completed all split groups: neither
\* Task::removeDriver nor the review of the number of drivers in
\* Task::checkNoMoreSplitGroupsLocked ends it early (Task.cpp:1087, 1276).
THEOREM FinishesComplete == Spec => []FinishedIsComplete
<1>1. TaskInv => FinishedIsComplete
  BY Zenon DEF TaskInv, FinishOK, Complete, FinishedIsComplete
<1> QED
  BY <1>1, TaskInvariant, PTL

\* For every plan and list of splits, no split waits in a store whose drivers all
\* sleep (Task::addSplitToStoreLocked, Task.cpp:1000).
THEOREM SplitsWakeDrivers == Spec => []NoForgottenSplit
<1>1. TaskInv => NoForgottenSplit
  BY Zenon DEF TaskInv, WakesOK
<1> QED
  BY <1>1, TaskInvariant, PTL

\* For every plan and list of splits, the drivers of the groups that
\* Task::ensureSplitGroupsAreBeingProcessedLocked lets run fit into the slots that
\* Task::start has made, and the task knows how many groups run (Task.cpp:563, 870).
THEOREM GroupsFitSlots == Spec => []SlotsSuffice
<1>1. TaskInv => SlotsSuffice
  <2> SUFFICES ASSUME TaskInv, isRunning
               PROVE  /\ Cardinality({d \in Live : d[1] # Ungrouped})
                           <= NumDriversPerSplitGroup * ConcurrentSplitGroups
                      /\ numRunningSplitGroups = Cardinality({d[1] : d \in Live} \ {Ungrouped})
    BY Zenon DEF SlotsSuffice
  <2> DEFINE L == {d \in Live : d[1] # Ungrouped}
             R == {d \in Drivers : d[1] \in RunningGroups}
  <2>1. /\ numRunningSplitGroups = Cardinality(RunningGroups)
        /\ numRunningSplitGroups <= ConcurrentSplitGroups
    BY Zenon DEF TaskInv, CountsOK
  <2>2. RunningGroups \subseteq Groups
    BY Zenon DEF RunningGroups
  <2>3. Live \subseteq Drivers
    BY Zenon DEF Live
  <2>4. {d[1] : d \in Live} \ {Ungrouped} = RunningGroups
    <3>1. \A d \in Live : d[1] # Ungrouped => d[1] \in RunningGroups
      BY Zenon, <2>3, DriverParts DEF RunningGroups, LiveOf
    <3>2. \A g \in RunningGroups : g # Ungrouped /\ \E d \in Live : g = d[1]
      BY Zenon, SplitsAssumption DEF RunningGroups, LiveOf, SplitsAssumption
    <3> QED
      BY Zenon, <3>1, <3>2
  <2>5. L \subseteq R
    BY Zenon, <2>3, <2>4
  <2>6. /\ Cardinality(R) = Cardinality(RunningGroups) * NumDriversPerSplitGroup
        /\ Cardinality(RunningGroups) \in Nat
    BY Zenon, <2>2, DriversOfGroups, FiniteSetLibrary
  <2>7. NumDriversPerSplitGroup \in Nat /\ ConcurrentSplitGroups \in Nat
    BY Zenon, SlotsFinite, FiniteSetLibrary, SplitsAssumption
    DEF Nodes, NumDriversPerSplitGroup, Slots, SplitsAssumption
  <2>8. IsFiniteSet(R)
    BY Zenon, DriversFinite, FiniteSetLibrary
  <2> HIDE DEF L, R
  <2>9. Cardinality(L) <= Cardinality(R) /\ Cardinality(L) \in Nat
    BY Zenon, <2>5, <2>8, FS_Subset, FS_CardinalityType
  <2>10. Cardinality(R) \in Nat /\ Cardinality(R) <= NumDriversPerSplitGroup * ConcurrentSplitGroups
    BY Zenon, <2>1, <2>6, <2>7, TimesMonotone
  <2>11. NumDriversPerSplitGroup * ConcurrentSplitGroups \in Nat
    BY <2>7
  <2>12. Cardinality(L) <= NumDriversPerSplitGroup * ConcurrentSplitGroups
    BY <2>9, <2>10, <2>11
  <2> QED
    BY Zenon, <2>1, <2>4, <2>12 DEF L
<1> QED
  BY <1>1, TaskInvariant, PTL

\* For every plan and list of splits, once Task::terminate is through the exchange
\* clients know of every remote split that was added, or a driver is handing it on
\* (Task.cpp:1562, 921).
THEOREM RemoteSplitsKnown == Spec => []RemoteSplitsClosed
<1>1. TaskInv => RemoteSplitsClosed
  BY SMTT(30)
  DEF TaskInv, RemoteOK, RemoteSplitsClosed, DriversOf, Live
<1> QED
  BY <1>1, TaskInvariant, PTL

=============================================================================
