---------------------------- MODULE TaskSplitsSteps ---------------------------
(***************************************************************************)
(* Every step of TaskSplits preserves SplitsInv, the part of the inductive *)
(* invariant that speaks of stores, promises and the caller's sequence     *)
(* ids.  TaskSplitsProofs builds on it.                                    *)
(***************************************************************************)
EXTENDS TaskSplits, TLAPS

DriverStates == {"none", "run", "wait", "scan", "finish", "closed"}

-----------------------------------------------------------------------------
(* Constants and sequences *)

\* A driver belongs to a leaf node and to a group of that node.
LEMMA DriverPlace ==
  ASSUME NEW d \in Drivers
  PROVE  d[2] \in Nodes /\ d[1] \in GroupsOf(d[2])
BY DEF Drivers

\* Each split the caller has is a split of the group it names.
LEMMA SplitPlace ==
  ASSUME NEW n \in Nodes, NEW id \in 1..Len(SplitsOf[n])
  PROVE  SplitsOf[n][id] \in Splits /\ GroupOf[SplitsOf[n][id]] \in GroupsOf(n)
<1>1. SplitsOf[n] \in Seq(Range(SplitsOf[n]))
  BY Zenon, SplitsAssumption DEF SplitsAssumption
<1>2. SplitsOf[n][id] \in Range(SplitsOf[n])
  BY <1>1
<1>3. QED
  BY Zenon, <1>2, SplitsAssumption DEF SplitsAssumption, Splits

\* A split has one node and one sequence id.
LEMMA SplitUnique ==
  ASSUME NEW m \in Nodes, NEW n \in Nodes,
         NEW i \in 1..Len(SplitsOf[m]), NEW j \in 1..Len(SplitsOf[n]),
         SplitsOf[m][i] = SplitsOf[n][j]
  PROVE  m = n /\ i = j
<1>1. /\ SplitsOf[m] \in Seq(Range(SplitsOf[m]))
      /\ SplitsOf[n] \in Seq(Range(SplitsOf[n]))
  BY Zenon, SplitsAssumption DEF SplitsAssumption
<1>2. SplitsOf[m][i] \in Range(SplitsOf[m]) /\ SplitsOf[n][j] \in Range(SplitsOf[n])
  BY <1>1
<1>3. m = n
  BY Zenon, <1>2, SplitsAssumption DEF SplitsAssumption
<1>4. i \in DOMAIN SplitsOf[n] /\ j \in DOMAIN SplitsOf[n]
  BY <1>1, <1>3
<1>5. IsInjective(SplitsOf[n])
  BY Zenon, SplitsAssumption DEF SplitsAssumption
<1>6. QED
  BY Zenon, <1>3, <1>4, <1>5 DEF IsInjective

\* Sequence r has the elements of q but for e, which q may have twice.
HasBut(S, r, q, e) ==
  /\ r \in Seq(S)
  /\ \A d \in Range(q) : d \in Range(r) \/ d = e
  /\ IsInjective(q) => IsInjective(r) /\ Range(r) = Range(q) \ {e}

\* All but the last element of a sequence.
LEMMA WithoutLast ==
  ASSUME NEW S, NEW q \in Seq(S), Len(q) \in Nat \ {0}, NEW r,
         r = SubSeq(q, 1, Len(q) - 1)
  PROVE  HasBut(S, r, q, q[Len(q)])
<1>1. /\ r \in Seq(S)
      /\ DOMAIN r = 1..(Len(q) - 1)
      /\ \A j \in 1..(Len(q) - 1) : r[j] = q[j]
  OBVIOUS
<1>2. ASSUME NEW e \in Range(q), e # q[Len(q)]
      PROVE  e \in Range(r)
  <2>1. PICK j \in DOMAIN q : e = q[j]
    BY Zenon DEF Range
  <2>2. j \in 1..(Len(q) - 1)
    BY <1>2, <2>1
  <2>3. QED
    BY Zenon, <1>1, <2>1, <2>2 DEF Range
<1>3. \A j \in DOMAIN r : j \in DOMAIN q /\ j # Len(q) /\ r[j] = q[j]
  BY <1>1
<1>4. Len(q) \in DOMAIN q
  OBVIOUS
<1>5. IsInjective(q) => IsInjective(r) /\ Range(r) = Range(q) \ {q[Len(q)]}
  <2>1. SUFFICES ASSUME IsInjective(q)
                 PROVE  IsInjective(r) /\ Range(r) = Range(q) \ {q[Len(q)]}
    BY Zenon
  <2>2. IsInjective(r)
    BY Zenon, <1>3, <2>1 DEF IsInjective
  <2>3. \A e \in Range(r) : e \in Range(q) /\ e # q[Len(q)]
    BY ZenonT(30), <1>3, <1>4, <2>1 DEF IsInjective, Range
  <2>4. QED
    BY Zenon, <1>2, <2>2, <2>3
<1>6. QED
  BY Zenon, <1>1, <1>2, <1>5 DEF HasBut

\* Taking out one element of a sequence without repetitions leaves the others.
LEMMA WithoutInjective ==
  ASSUME NEW S, NEW q \in Seq(S), IsInjective(q), NEW i \in DOMAIN q
  PROVE  /\ Without(q, i) \in Seq(S)
         /\ IsInjective(Without(q, i))
         /\ Range(Without(q, i)) = Range(q) \ {q[i]}
<1> DEFINE r == Without(q, i)
<1>1. i \in 1..Len(q)
  OBVIOUS
<1>2. /\ r \in Seq(S)
      /\ Len(r) = Len(q) - 1
      /\ \A j \in 1..Len(r) : r[j] = IF j < i THEN q[j] ELSE q[j + 1]
  <2> DEFINE a == SubSeq(q, 1, i - 1)
             b == SubSeq(q, i + 1, Len(q))
  <2>1. a \in Seq(S) /\ Len(a) = i - 1 /\ \A j \in 1..(i - 1) : a[j] = q[j]
    BY <1>1
  <2>2. /\ b \in Seq(S)
        /\ Len(b) = Len(q) - i
        /\ \A j \in 1..(Len(q) - i) : b[j] = q[j + i]
    BY <1>1
  <2>3. r = a \o b
    BY Zenon DEF Without
  <2> HIDE DEF a, b, r
  <2>4. r \in Seq(S) /\ Len(r) = Len(q) - 1
    BY <1>1, <2>1, <2>2, <2>3
  <2>5. ASSUME NEW j \in 1..Len(r)
        PROVE  r[j] = IF j < i THEN q[j] ELSE q[j + 1]
    <3>1. CASE j < i
      <4>1. j \in 1..(i - 1) /\ r[j] = a[j]
        BY SMTT(30), <1>1, <2>1, <2>2, <2>3, <2>4, <3>1
      <4> QED
        BY Zenon, <2>1, <3>1, <4>1
    <3>2. CASE ~(j < i)
      <4>1. j - (i - 1) \in 1..(Len(q) - i) /\ r[j] = b[j - (i - 1)]
        BY SMTT(30), <1>1, <2>1, <2>2, <2>3, <2>4, <3>2
      <4>2. b[j - (i - 1)] = q[(j - (i - 1)) + i]
        BY Zenon, <2>2, <4>1
      <4>3. (j - (i - 1)) + i = j + 1
        BY <1>1, <2>4
      <4>4. QED
        BY Zenon, <3>2, <4>1, <4>2, <4>3
    <3>3. QED
      BY Zenon, <3>1, <3>2
  <2>6. QED
    BY Zenon, <2>4, <2>5
<1>3. \A j \in DOMAIN r : \E k \in DOMAIN q : k # i /\ k = (IF j < i THEN j ELSE j + 1) /\ r[j] = q[k]
  BY <1>1, <1>2
<1>4. IsInjective(r)
  BY <1>2, <1>3 DEF IsInjective
<1>5. Range(r) \subseteq Range(q) \ {q[i]}
  BY <1>3 DEF IsInjective, Range
<1>6. ASSUME NEW k \in DOMAIN q, k # i
      PROVE  q[k] \in Range(r)
  <2>1. k \in 1..Len(q)
    OBVIOUS
  <2>2. CASE k < i
    <3>1. k \in 1..Len(r) /\ r[k] = q[k]
      BY <1>1, <1>2, <2>1, <2>2
    <3>2. QED
      BY <1>2, <3>1 DEF Range
  <2>3. CASE ~(k < i)
    <3>1. k - 1 \in 1..Len(r) /\ ~(k - 1 < i) /\ (k - 1) + 1 = k
      BY <1>1, <1>2, <1>6, <2>1, <2>3
    <3>2. r[k - 1] = q[(k - 1) + 1]
      BY Zenon, <1>2, <3>1
    <3>3. QED
      BY <1>2, <3>1, <3>2 DEF Range
  <2>4. QED
    BY Zenon, <2>2, <2>3
<1>7. Range(q) \ {q[i]} \subseteq Range(r)
  BY Zenon, <1>6 DEF Range
<1>8. QED
  BY Zenon, <1>2, <1>4, <1>5, <1>7

\* Sequence r has the elements of q and e, each once.
HasAlso(S, r, q, e) ==
  /\ r \in Seq(S)
  /\ IsInjective(r)
  /\ Range(r) = Range(q) \cup {e}

\* Appending an element that is not there keeps a sequence without repetitions.
LEMMA InjectiveAfterAppend ==
  ASSUME NEW S, NEW q \in Seq(S), IsInjective(q), NEW e \in S, e \notin Range(q),
         NEW r, r = Append(q, e)
  PROVE  HasAlso(S, r, q, e)
<1>1. /\ r \in Seq(S)
      /\ DOMAIN r = 1..(Len(q) + 1)
      /\ \A j \in 1..Len(q) : r[j] = q[j]
      /\ r[Len(q) + 1] = e
  OBVIOUS
<1>2. DOMAIN q = 1..Len(q) /\ Len(q) \in Nat
  OBVIOUS
<1>3. \A j \in 1..Len(q) : q[j] # e
  BY Zenon, <1>2 DEF Range
<1>4. IsInjective(r)
  BY <1>1, <1>2, <1>3 DEF IsInjective
<1>5. Range(r) = Range(q) \cup {e}
  BY <1>1, <1>2 DEF Range
<1>6. r \in Seq(S)
  BY Zenon, <1>1
<1>7. QED
  BY Zenon, <1>6, <1>4, <1>5 DEF HasAlso

-----------------------------------------------------------------------------
(* Steps *)

\* The parts of SplitsInv, now and in the next state.  The proofs cite these
\* facts where they need a part, and leave SplitsInv itself folded.
LEMMA SplitsParts ==
  SplitsInv <=> StoresOK /\ PromisesOK /\ SequenceOK /\ HandedOutOK
BY Zenon DEF SplitsInv

LEMMA SplitsPartsNext ==
  SplitsInv' <=> StoresOK' /\ PromisesOK' /\ SequenceOK' /\ HandedOutOK'
BY Zenon DEF SplitsInv

\* In the initial state nothing is sent and nobody waits.
LEMMA InitInv ==
  Init => SplitsInv
<1> SUFFICES ASSUME Init PROVE SplitsInv
  BY Zenon
<1>1. \A n \in Nodes : \A g \in GroupsOf(n) :
        /\ stores[n][g] = EmptyStore
        /\ stores[n][g].splits = <<>>
        /\ stores[n][g].splitPromises = <<>>
  BY Zenon DEF Init, EmptyStore
<1>2. StoresOK
  <2>1. EmptyStore \in Stores
    BY DEF EmptyStore, Stores
  <2>2. DOMAIN stores = Nodes /\ \A n \in Nodes : stores[n] \in [GroupsOf(n) -> Stores]
    BY Zenon, <2>1 DEF Init
  <2>3. QED
    BY <2>2 DEF Init, StoresOK
<1>3. PromisesOK
  BY Zenon, <1>1 DEF Init, PromisesOK
<1>4. SequenceOK
  <2>1. \A n \in Nodes : Len(SplitsOf[n]) \in Nat
    BY SplitsAssumption DEF SplitsAssumption
  <2>2. QED
    BY <2>1 DEF Init, SequenceOK, Nodes
<1>5. HandedOutOK
  <2>1. \A n \in Nodes : \A id \in 1..Len(SplitsOf[n]) : SplitsOf[n][id] \in Splits
    BY Zenon, SplitPlace
  <2>2. \A n \in Nodes : \A g \in GroupsOf(n) :
          IsInjective(stores[n][g].splits) /\ Range(stores[n][g].splits) = {}
    BY <1>1 DEF IsInjective, Range
  <2>3. QED
    BY <2>1, <2>2 DEF Init, HandedOutOK
<1>6. QED
  BY Zenon, <1>2, <1>3, <1>4, <1>5, SplitsParts

\* A step that leaves the stores and the caller alone and makes nobody wait.
LEMMA Quiet ==
  ASSUME SplitsInv,
         UNCHANGED <<stores, known, endedGroups, next, maxSequenceId, handedOut,
                     stuck, unacked>>,
         state' = state \/ state' # "kRunning",
         dState' \in [Drivers -> DriverStates],
         \A d \in Drivers : dState'[d] = "wait" => dState[d] = "wait"
  PROVE  SplitsInv'
<1>1. StoresOK'
  BY Zenon, SplitsParts DEF StoresOK, DriverStates
<1>2. PromisesOK'
  BY Zenon, SplitsParts DEF PromisesOK, isRunning
<1>3. SequenceOK'
  BY Zenon, SplitsParts DEF SequenceOK, isRunning
<1>4. HandedOutOK'
  BY SplitsParts DEF HandedOutOK
<1>5. QED
  BY Zenon, <1>1, <1>2, <1>3, <1>4, SplitsPartsNext

\* Creating the drivers of split groups makes nobody wait.
LEMMA EnsureWakes ==
  ASSUME NEW h, NEW queued, NEW running, NEW counts,
         NEW ds \in [Drivers -> DriverStates],
         EnsureSplitGroupsAreBeingProcessed(h, queued, running, counts, ds)
  PROVE  /\ dState' \in [Drivers -> DriverStates]
         /\ \A d \in Drivers : dState'[d] = "wait" => ds[d] = "wait"
<1>1. PICK begun : dState' = [d \in Drivers |-> IF d[1] \in begun THEN "run" ELSE ds[d]]
  BY Zenon DEF EnsureSplitGroupsAreBeingProcessed
<1>2. QED
  BY Zenon, <1>1 DEF DriverStates

\* Task::start creates drivers that run.
LEMMA StartStep ==
  ASSUME SplitsInv, Start
  PROVE  SplitsInv'
<1> DEFINE ds == [d \in Drivers |-> IF d[1] = Ungrouped THEN "run" ELSE dState[d]]
<1>1. /\ ds \in [Drivers -> DriverStates]
      /\ \A d \in Drivers : ds[d] = "wait" => dState[d] = "wait"
  BY Zenon, SplitsParts DEF StoresOK, DriverStates
<1>2. /\ dState' \in [Drivers -> DriverStates]
      /\ \A d \in Drivers : dState'[d] = "wait" => ds[d] = "wait"
  <2>1. PICK counts : EnsureSplitGroupsAreBeingProcessed(
          TRUE, queuedSplitGroups, numRunningSplitGroups, counts, ds)
    BY Zenon DEF Start
  <2> HIDE DEF ds
  <2>2. QED
    BY Zenon, <1>1, <2>1, EnsureWakes
<1>3. /\ UNCHANGED <<stores, known, endedGroups, next, maxSequenceId, handedOut,
                     stuck, unacked>>
      /\ state' = state
  BY Zenon DEF Start, splitVars, callerVars, endVars
<1>4. QED
  BY Zenon, <1>1, <1>2, <1>3, Quiet

\* Task::removeDriver makes nobody wait.
LEMMA RemoveStep ==
  ASSUME SplitsInv, NEW d \in Drivers, RemoveDriver(d)
  PROVE  SplitsInv'
<1> DEFINE ds == [dState EXCEPT ![d] = "closed"]
<1>1. /\ ds \in [Drivers -> DriverStates]
      /\ \A e \in Drivers : ds[e] = "wait" => dState[e] = "wait"
  BY Zenon, SplitsParts DEF StoresOK, DriverStates
<1>2. /\ dState' \in [Drivers -> DriverStates]
      /\ \A e \in Drivers : dState'[e] = "wait" => ds[e] = "wait"
  <2>1. \/ dState' = ds
        \/ \E counts : EnsureSplitGroupsAreBeingProcessed(
             started, queuedSplitGroups, numRunningSplitGroups - 1, counts, ds)
    BY Zenon DEF RemoveDriver
  <2> HIDE DEF ds
  <2>2. QED
    BY Zenon, <1>1, <2>1, EnsureWakes
<1>3. /\ UNCHANGED <<stores, known, endedGroups, next, maxSequenceId, handedOut,
                     stuck, unacked>>
      /\ state' = state
  BY Zenon DEF RemoveDriver, splitVars, callerVars
<1>4. QED
  BY Zenon, <1>1, <1>2, <1>3, Quiet

\* The end of a split makes nobody wait.
LEMMA SplitFinishedStep ==
  ASSUME SplitsInv, NEW d \in Drivers, SplitFinished(d)
  PROVE  SplitsInv'
<1>1. /\ dState' \in [Drivers -> DriverStates]
      /\ \A e \in Drivers : dState'[e] = "wait" => dState[e] = "wait"
  BY Zenon, SplitsParts DEF StoresOK, DriverStates, SplitFinished
<1>2. /\ UNCHANGED <<stores, known, endedGroups, next, maxSequenceId, handedOut,
                     stuck, unacked>>
      /\ state' = state
  BY Zenon DEF SplitFinished, splitVars, callerVars, endVars
<1>3. QED
  BY Zenon, <1>1, <1>2, Quiet

\* Task::terminate closes drivers; after it a driver may wait in vain, as it
\* sees the end of the task when it leaves its thread.
LEMMA TerminateStep ==
  ASSUME SplitsInv, NEW goal, goal # "kRunning", Terminate(goal)
  PROVE  SplitsInv'
<1>1. /\ dState' \in [Drivers -> DriverStates]
      /\ \A e \in Drivers : dState'[e] = "wait" => dState[e] = "wait"
  BY Zenon, SplitsParts DEF StoresOK, DriverStates, Terminate
<1>2. /\ UNCHANGED <<stores, known, endedGroups, next, maxSequenceId, handedOut,
                     stuck, unacked>>
      /\ state' = goal
  BY Zenon DEF Terminate, splitVars, callerVars
<1>3. QED
  BY Zenon, <1>1, <1>2, Quiet

\* A store that has ended: the splits stay, the promises go.
LEMMA EndedStore ==
  ASSUME NEW q \in Stores, NEW st,
         st = [q EXCEPT !.noMoreSplits = TRUE, !.splitPromises = <<>>]
  PROVE  /\ st \in Stores
         /\ st.splits = q.splits
         /\ st.noMoreSplits = TRUE
         /\ st.splitPromises = <<>>
<1>1. q.splits \in Seq(Splits)
  BY Zenon DEF Stores
<1>2. <<>> \in Seq(Drivers)
  OBVIOUS
<1>3. st = [splits |-> q.splits, noMoreSplits |-> TRUE, splitPromises |-> <<>>]
  BY Zenon DEF Stores
<1>4. st \in Stores
  BY Zenon, <1>1, <1>2, <1>3 DEF Stores
<1>5. QED
  BY Zenon, <1>3, <1>4

\* Store q with one more split and the promises that are left.
Filled(q, s, left) ==
  [splits |-> Append(q.splits, s), noMoreSplits |-> q.noMoreSplits,
   splitPromises |-> left]

\* Store st is store q with split s and the promises left.
HasFilled(st, q, s, left) ==
  /\ st \in Stores
  /\ IsInjective(st.splits)
  /\ Range(st.splits) = Range(q.splits) \cup {s}
  /\ st.noMoreSplits = q.noMoreSplits
  /\ st.splitPromises = left

\* A store that gets a new split and loses a promise.
LEMMA FilledStore ==
  ASSUME NEW q \in Stores, IsInjective(q.splits), NEW s \in Splits,
         s \notin Range(q.splits), NEW left \in Seq(Drivers), NEW st,
         st = Filled(q, s, left)
  PROVE  HasFilled(st, q, s, left)
<1>1. q.noMoreSplits \in BOOLEAN /\ q.splits \in Seq(Splits)
  BY Zenon DEF Stores
<1>2. PICK sp : sp = Append(q.splits, s)
  BY Zenon
<1>3. sp \in Seq(Splits) /\ IsInjective(sp) /\ Range(sp) = Range(q.splits) \cup {s}
  <2>1. HasAlso(Splits, sp, q.splits, s)
    BY Zenon, <1>1, <1>2, InjectiveAfterAppend
  <2>2. QED
    BY Zenon, <2>1 DEF HasAlso
<1>4. st = [splits |-> sp, noMoreSplits |-> q.noMoreSplits, splitPromises |-> left]
  BY Zenon, <1>2 DEF Filled
<1>5. st \in Stores
  BY <1>1, <1>3, <1>4 DEF Stores
<1>6. st.splits = sp
  BY <1>4
<1>7. st.splitPromises = left
  BY <1>4
<1>8. st.noMoreSplits = q.noMoreSplits
  BY <1>1, <1>4
<1>9. QED
  BY Zenon, <1>3, <1>5, <1>6, <1>7, <1>8 DEF HasFilled

\* The store of group g of n becomes st, and no other store changes.
OnlyStore(n, g, st) ==
  /\ DOMAIN stores' = Nodes
  /\ \A m \in Nodes : stores'[m] \in [GroupsOf(m) -> Stores]
  /\ stores'[n][g] = st
  /\ \A m \in Nodes : \A h \in GroupsOf(m) :
       ~(m = n /\ h = g) => stores'[m][h] = stores[m][h]

\* A step that changes one store.
LEMMA StoreUpdate ==
  ASSUME StoresOK, NEW n \in Nodes, NEW g \in GroupsOf(n), NEW st \in Stores,
         stores' = [stores EXCEPT ![n][g] = st]
  PROVE  OnlyStore(n, g, st)
<1>1. DOMAIN stores = Nodes /\ \A m \in Nodes : stores[m] \in [GroupsOf(m) -> Stores]
  BY Zenon DEF StoresOK
<1>2. DOMAIN stores' = Nodes
  BY Zenon, <1>1
<1>3. \A m \in Nodes : m # n => stores'[m] = stores[m]
  BY Zenon, <1>1
<1>4. stores'[n] = [stores[n] EXCEPT ![g] = st]
  BY Zenon, <1>1
<1>5. stores'[n] \in [GroupsOf(n) -> Stores]
  BY Zenon, <1>1, <1>4
<1>6. stores'[n][g] = st /\ \A h \in GroupsOf(n) : h # g => stores'[n][h] = stores[n][h]
  BY Zenon, <1>1, <1>4
<1>7. QED
  BY Zenon, <1>1, <1>2, <1>3, <1>5, <1>6 DEF OnlyStore

\* What was handed out stays right when no split moves.
LEMMA HandedOutFrame ==
  ASSUME HandedOutOK, UNCHANGED <<next, handedOut>>,
         \A n \in Nodes : \A g \in GroupsOf(n) :
           stores'[n][g].splits = stores[n][g].splits
  PROVE  HandedOutOK'
<1>1. ASSUME NEW n \in Nodes, NEW g \in GroupsOf(n)
      PROVE  /\ IsInjective(stores'[n][g].splits)
             /\ \A s \in Range(stores'[n][g].splits) :
                  /\ handedOut'[s] = 0
                  /\ GroupOf[s] = g
                  /\ \E id \in 1..(next'[n] - 1) : SplitsOf[n][id] = s
  BY SMTT(30), <1>1 DEF HandedOutOK
<1>2. /\ \A s \in Splits : handedOut'[s] <= 1
      /\ \A n \in Nodes : \A id \in next'[n]..Len(SplitsOf[n]) :
           handedOut'[SplitsOf[n][id]] = 0
  BY DEF HandedOutOK
<1>3. QED
  BY Zenon, <1>1, <1>2 DEF HandedOutOK

\* The new maximum is the last id that the caller has used.
LEMMA SetMaxStep ==
  ASSUME SplitsInv, NEW n \in Nodes, SetMaxSplitSequenceId(n)
  PROVE  SplitsInv'
<1>1. /\ UNCHANGED <<stores, known, endedGroups, next, handedOut, stuck, dState, state>>
      /\ unacked' = unacked \ {n}
      /\ maxSequenceId' =
           IF isRunning /\ maxSequenceId[n] < next[n] - 1
           THEN [maxSequenceId EXCEPT ![n] = next[n] - 1] ELSE maxSequenceId
  BY Zenon DEF SetMaxSplitSequenceId, endVars, driverVars
<1>2. /\ next \in [Nodes -> Nat \ {0}]
      /\ maxSequenceId \in [Nodes -> Nat]
      /\ GroupedNodes \subseteq Nodes
  BY Zenon, SplitsParts DEF StoresOK, Nodes
<1>3. maxSequenceId' \in [Nodes -> Nat]
  BY <1>1, <1>2
<1>4. StoresOK'
  BY Zenon, <1>1, <1>3, SplitsParts DEF StoresOK
<1>5. PromisesOK'
  BY Zenon, <1>1, SplitsParts DEF PromisesOK, isRunning
<1>6. SequenceOK'
  BY <1>1, <1>2, SplitsParts DEF SequenceOK, isRunning
<1>7. HandedOutOK'
  BY Zenon, <1>1, HandedOutFrame, SplitsParts
<1>8. QED
  BY Zenon, <1>4, <1>5, <1>6, <1>7, SplitsPartsNext

\* Drivers are only resumed when their promise is realized.
LEMMA ResumedStates ==
  ASSUME dState \in [Drivers -> DriverStates], NEW p
  PROVE  /\ Resumed(dState, p) \in [Drivers -> DriverStates]
         /\ \A d \in Drivers : Resumed(dState, p)[d] = "wait" =>
              dState[d] = "wait" /\ d \notin Range(p)
BY Zenon DEF Resumed, DriverStates

\* The store of group g of n has ended as st.
EndsStore(n, g, st) ==
  /\ OnlyStore(n, g, st)
  /\ st \in Stores
  /\ st.splits = stores[n][g].splits
  /\ st.noMoreSplits = TRUE
  /\ st.splitPromises = <<>>

\* The end of a group ends its store.
LEMMA GroupEndStore ==
  ASSUME SplitsInv, NEW n \in GroupedNodes, NEW g \in Groups,
         NoMoreSplitsForGroup(n, g)
  PROVE  \E st : EndsStore(n, g, st)
<1>1. n \in Nodes /\ g \in GroupsOf(n)
  BY Zenon DEF Nodes, GroupsOf
<1>2. stores[n][g] \in Stores /\ StoresOK
  BY Zenon, <1>1, SplitsParts DEF StoresOK
<1>3. PICK st : st = [stores[n][g] EXCEPT !.noMoreSplits = TRUE, !.splitPromises = <<>>]
  BY Zenon
<1>4. stores' = [stores EXCEPT ![n][g] = st]
  BY Zenon, <1>3 DEF NoMoreSplitsForGroup
<1>5. /\ st \in Stores
      /\ st.splits = stores[n][g].splits
      /\ st.noMoreSplits = TRUE
      /\ st.splitPromises = <<>>
  BY Zenon, <1>2, <1>3, EndedStore
<1>6. OnlyStore(n, g, st)
  BY Zenon, <1>1, <1>2, <1>4, <1>5, StoreUpdate
<1>7. QED
  BY Zenon, <1>5, <1>6 DEF EndsStore

\* The end of a group resumes all that wait for its splits.
LEMMA GroupEndStep ==
  ASSUME SplitsInv, NEW n \in GroupedNodes, NEW g \in Groups,
         NoMoreSplitsForGroup(n, g)
  PROVE  SplitsInv'
<1>1. /\ UNCHANGED <<next, handedOut, stuck, state, maxSequenceId, unacked>>
      /\ endedGroups' = [endedGroups EXCEPT ![n] = @ \cup {g}]
      /\ known' = [known EXCEPT ![n] = @ \cup {g}]
      /\ dState' = Resumed(dState, stores[n][g].splitPromises)
  BY Zenon DEF NoMoreSplitsForGroup, endVars, ReleasedByGroupEnd
<1>2. n \in Nodes /\ g \in GroupsOf(n) /\ \A m \in GroupedNodes : m \in Nodes /\ GroupsOf(m) = Groups
  BY Zenon DEF Nodes, GroupsOf
<1>3. dState \in [Drivers -> DriverStates]
  BY Zenon, SplitsParts DEF StoresOK, DriverStates
<1>4. PICK st : /\ OnlyStore(n, g, st)
                /\ st.splits = stores[n][g].splits
                /\ st.noMoreSplits = TRUE
                /\ st.splitPromises = <<>>
  BY Zenon, GroupEndStore DEF EndsStore
<1>5. OnlyStore(n, g, st)
  BY Zenon, <1>4
<1>6. /\ dState' \in [Drivers -> DriverStates]
      /\ \A d \in Drivers : dState'[d] = "wait" =>
           dState[d] = "wait" /\ d \notin Range(stores[n][g].splitPromises)
  BY Zenon, <1>1, <1>3, ResumedStates
<1>7. StoresOK'
  <2>1. endedGroups' \in [GroupedNodes -> SUBSET Groups]
    BY Zenon, <1>1, SplitsParts DEF StoresOK
  <2>2. DOMAIN known' = Nodes /\ \A m \in Nodes : known'[m] \subseteq GroupsOf(m)
    BY Zenon, <1>1, <1>2, SplitsParts DEF StoresOK
  <2>3. QED
    BY Zenon, <1>1, <1>5, <1>6, <2>1, <2>2, SplitsParts
    DEF StoresOK, DriverStates, OnlyStore
<1>8. PromisesOK'
  <2>1. ~stuck'
    BY Zenon, <1>1, SplitsParts DEF PromisesOK
  <2>2. \A m \in Nodes : \A h \in GroupsOf(m) :
          stores'[m][h].noMoreSplits => stores'[m][h].splitPromises = <<>>
    BY ZenonT(30), <1>4, <1>5, SplitsParts DEF PromisesOK, OnlyStore
  <2>3. \A m \in GroupedNodes : \A h \in endedGroups'[m] : stores'[m][h].noMoreSplits
    <3>1. \A m \in GroupedNodes : \A h \in endedGroups'[m] :
            h \in Groups /\ (h \in endedGroups[m] \/ (m = n /\ h = g))
      BY Zenon, <1>1, SplitsParts DEF StoresOK
    <3>2. QED
      BY ZenonT(30), <1>2, <1>4, <1>5, <3>1, SplitsParts DEF PromisesOK, OnlyStore
  <2>4. ASSUME state' = "kRunning", NEW d \in Drivers, dState'[d] = "wait"
        PROVE  d \in Range(stores'[d[2]][d[1]].splitPromises)
    <3>1. d \in Range(stores[d[2]][d[1]].splitPromises)
      BY Zenon, <1>1, <1>6, <2>4, SplitsParts DEF PromisesOK, isRunning
    <3>2. ~(d[2] = n /\ d[1] = g)
      BY Zenon, <1>6, <2>4, <3>1
    <3>3. QED
      BY Zenon, <1>5, <3>1, <3>2, DriverPlace DEF OnlyStore
  <2>5. QED
    BY Zenon, <2>1, <2>2, <2>3, <2>4 DEF PromisesOK, isRunning
<1>9. SequenceOK'
  BY Zenon, <1>1, SplitsParts DEF SequenceOK, isRunning
<1>10. HandedOutOK'
  <2>1. \A m \in Nodes : \A h \in GroupsOf(m) :
          stores'[m][h].splits = stores[m][h].splits
    BY Zenon, <1>4, <1>5 DEF OnlyStore
  <2>2. QED
    BY Zenon, <1>1, <2>1, HandedOutFrame, SplitsParts
<1>11. QED
  BY Zenon, <1>7, <1>8, <1>9, <1>10, SplitsPartsNext

\* The promises of a store but the one that is realized.
PromisesLeft(store) ==
  SubSeq(store.splitPromises, 1,
         Len(store.splitPromises) - Len(PromiseToRealize(store)))

\* The driver whose promise is taken out of a store is the one that is resumed.
LEMMA PromiseTaken ==
  ASSUME NEW store \in Stores, NEW pr, pr = PromiseToRealize(store), NEW left,
         left = PromisesLeft(store)
  PROVE  /\ left \in Seq(Drivers)
         /\ store.splitPromises = <<>> => left = <<>>
         /\ store.splitPromises # <<>> => \E d \in Range(pr) : d \in Range(store.splitPromises)
         /\ \A d \in Range(store.splitPromises) : d \in Range(left) \/ d \in Range(pr)
         /\ \A d \in Range(pr) : d \in Range(store.splitPromises)
         /\ IsInjective(store.splitPromises) =>
              /\ IsInjective(left)
              /\ \A d \in Range(left) : d \in Range(store.splitPromises) /\ d \notin Range(pr)
<1>0. left = SubSeq(store.splitPromises, 1, Len(store.splitPromises) - Len(pr))
  BY Zenon DEF PromisesLeft
<1>1. PICK q \in Seq(Drivers) : q = store.splitPromises
  BY Zenon DEF Stores
<1>2. CASE q = <<>>
  <2>1. pr = <<>> /\ left = <<>>
    BY <1>0, <1>1, <1>2 DEF PromiseToRealize
  <2>2. <<>> \in Seq(Drivers) /\ Range(<<>>) = {} /\ IsInjective(<<>>)
    BY DEF Range, IsInjective
  <2>3. QED
    BY Zenon, <1>1, <1>2, <2>1, <2>2
<1>3. CASE q # <<>>
  <2>1. Len(q) \in Nat \ {0} /\ DOMAIN q = 1..Len(q) /\ q[Len(q)] \in Range(q)
    BY <1>3 DEF Range
  <2>2. pr = <<q[Len(q)]>>
    BY Zenon, <1>1, <1>3 DEF PromiseToRealize
  <2>3. left = SubSeq(q, 1, Len(q) - 1)
    BY Zenon, <1>0, <1>1, <2>2
  <2>4. HasBut(Drivers, left, q, q[Len(q)])
    BY Zenon, <2>1, <2>3, WithoutLast
  <2>5. Range(pr) = {q[Len(q)]}
    BY <2>2 DEF Range
  <2>6. QED
    BY Zenon, <1>1, <1>3, <2>1, <2>4, <2>5 DEF HasBut
<1>4. QED
  BY Zenon, <1>2, <1>3

\* What HandedOutOK says of one store.
LEMMA StoreContents ==
  ASSUME SplitsInv, NEW n \in Nodes, NEW g \in GroupsOf(n)
  PROVE  /\ IsInjective(stores[n][g].splits)
         /\ \A s \in Range(stores[n][g].splits) :
              /\ handedOut[s] = 0
              /\ GroupOf[s] = g
              /\ \E id \in 1..(next[n] - 1) : SplitsOf[n][id] = s
BY SplitsParts DEF HandedOutOK

\* The caller sends the next split of n, and the task takes it.
TakesSplit(n) ==
  /\ next[n] <= Len(SplitsOf[n])
  /\ AddSplitLocked(n, SplitsOf[n][next[n]])
  /\ next' = [next EXCEPT ![n] = @ + 1]
  /\ UNCHANGED <<endedGroups, maxSequenceId, handedOut, stuck, state>>
  /\ unacked \subseteq unacked'
  /\ n \in GroupedNodes => n \in unacked'

\* The split that comes next, and the store it is for.
NextSplit(n) == SplitsOf[n][next[n]]
NextStore(n) == stores[n][GroupOf[NextSplit(n)]]

\* The store of the next split becomes st.
Fills(n, st) ==
  /\ OnlyStore(n, GroupOf[NextSplit(n)], st)
  /\ HasFilled(st, NextStore(n), NextSplit(n), PromisesLeft(NextStore(n)))

\* The next split of a node goes into a store that does not have it.
LEMMA FillStore ==
  ASSUME SplitsInv, NEW n \in Nodes, TakesSplit(n)
  PROVE  \E st : Fills(n, st)
<1>1. next[n] \in Nat \ {0} /\ Len(SplitsOf[n]) \in Nat /\ next[n] \in 1..Len(SplitsOf[n])
  BY SMTT(60), SplitsAssumption, SplitsParts
  DEF StoresOK, SplitsAssumption, TakesSplit
<1>2. PICK s \in Splits : s = NextSplit(n)
  BY Zenon, <1>1, SplitPlace DEF NextSplit
<1>3. PICK g \in GroupsOf(n) : g = GroupOf[s]
  BY Zenon, <1>1, <1>2, SplitPlace DEF NextSplit
<1>4. PICK store \in Stores : store = stores[n][g] /\ store = NextStore(n)
  BY Zenon, <1>2, <1>3, SplitsParts DEF StoresOK, NextStore
<1>5. PICK left : left = PromisesLeft(store)
  BY Zenon
<1>6. left \in Seq(Drivers)
  BY Zenon, <1>5, PromiseTaken
<1>7. stores' = [stores EXCEPT ![n][g] = Filled(store, s, left)]
  BY Zenon, <1>2, <1>3, <1>4, <1>5
  DEF TakesSplit, AddSplitLocked, Filled, PromisesLeft, NextSplit, NextStore
<1>8. s \notin Range(store.splits)
  <2>1. \A t \in Range(store.splits) : \E id \in 1..(next[n] - 1) : SplitsOf[n][id] = t
    <3>1. \A t \in Range(stores[n][g].splits) : \E id \in 1..(next[n] - 1) : SplitsOf[n][id] = t
      BY StoreContents
    <3>2. QED
      BY Zenon, <1>4, <3>1
  <2>2. \A id \in 1..(next[n] - 1) : SplitsOf[n][id] # s
    <3>1. ASSUME NEW id \in 1..(next[n] - 1), SplitsOf[n][id] = SplitsOf[n][next[n]]
          PROVE  FALSE
      <4>1. id \in 1..Len(SplitsOf[n]) /\ id # next[n]
        BY <1>1
      <4>2. QED
        BY Zenon, <1>1, <3>1, <4>1, SplitUnique
    <3>2. QED
      BY Zenon, <1>2, <3>1 DEF NextSplit
  <2>3. QED
    BY Zenon, <2>1, <2>2
<1>9. PICK st : st = Filled(store, s, left)
  BY Zenon
<1>10. HasFilled(st, store, s, left)
  <2>1. IsInjective(store.splits)
    BY Zenon, <1>3, <1>4, StoreContents
  <2>2. QED
    BY Zenon, <1>6, <1>8, <1>9, <2>1, FilledStore
<1>11. OnlyStore(n, g, st)
  <2>1. st \in Stores
    BY Zenon, <1>10 DEF HasFilled
  <2>2. stores' = [stores EXCEPT ![n][g] = st]
    BY Zenon, <1>7, <1>9
  <2>3. QED
    BY Zenon, <1>3, <2>1, <2>2, StoreUpdate, SplitsParts
<1>12. Fills(n, st)
  BY Zenon, <1>2, <1>3, <1>4, <1>5, <1>10, <1>11 DEF Fills
<1>13. QED
  BY Zenon, <1>12

\* The next split of a node joins its store, and one driver that waits there is
\* resumed.
LEMMA AddNew ==
  ASSUME SplitsInv, NEW n \in Nodes, TakesSplit(n)
  PROVE  SplitsInv'
<1>1. /\ next \in [Nodes -> Nat \ {0}]
      /\ maxSequenceId \in [Nodes -> Nat]
      /\ handedOut \in [Splits -> Nat]
      /\ \A m \in Nodes : Len(SplitsOf[m]) \in Nat
  BY SMTT(60), SplitsAssumption, SplitsParts DEF StoresOK, SplitsAssumption
<1>2. next[n] \in 1..Len(SplitsOf[n])
  BY SMTT(30), <1>1 DEF TakesSplit
<1>20. /\ endedGroups' = endedGroups
       /\ maxSequenceId' = maxSequenceId
       /\ handedOut' = handedOut
       /\ stuck' = stuck
       /\ state' = state
       /\ next' = [next EXCEPT ![n] = next[n] + 1]
  BY Zenon DEF TakesSplit
<1>21. /\ next' \in [Nodes -> Nat \ {0}]
       /\ next'[n] = next[n] + 1
       /\ \A m \in Nodes : m # n => next'[m] = next[m]
       /\ \A m \in Nodes : next[m] \in Nat /\ next'[m] \in Nat /\ next[m] <= next'[m]
  BY <1>1, <1>20
<1>3. PICK s \in Splits : s = SplitsOf[n][next[n]]
  BY Zenon, <1>2, SplitPlace
<1>4. PICK g \in GroupsOf(n) : g = GroupOf[s]
  BY Zenon, <1>2, <1>3, SplitPlace
<1>5. PICK store \in Stores : store = stores[n][g]
  BY Zenon, <1>4, SplitsParts DEF StoresOK
<1>6. PICK pr : pr = PromiseToRealize(store)
  BY Zenon
<1>7. PICK left : left = PromisesLeft(store)
  BY Zenon
<1>8. /\ left \in Seq(Drivers)
      /\ store.splitPromises = <<>> => left = <<>>
      /\ \A d \in Range(store.splitPromises) : d \in Range(left) \/ d \in Range(pr)
  BY Zenon, <1>6, <1>7, PromiseTaken
<1>9. /\ known' = [known EXCEPT ![n] = @ \cup {g}]
      /\ \/ dState' = Resumed(dState, pr)
         \/ EnsureSplitGroupsAreBeingProcessed(
              started, Append(queuedSplitGroups, g), numRunningSplitGroups,
              groupDrivers, Resumed(dState, pr))
  BY Zenon, <1>3, <1>4, <1>5, <1>6 DEF TakesSplit, AddSplitLocked
<1>10. /\ dState' \in [Drivers -> DriverStates]
       /\ \A d \in Drivers : dState'[d] = "wait" =>
            dState[d] = "wait" /\ d \notin Range(pr)
  <2>1. dState \in [Drivers -> DriverStates]
    BY Zenon, SplitsParts DEF StoresOK, DriverStates
  <2>2. PICK ds \in [Drivers -> DriverStates] :
          /\ ds = Resumed(dState, pr)
          /\ \A d \in Drivers : ds[d] = "wait" => dState[d] = "wait" /\ d \notin Range(pr)
    BY Zenon, <2>1, ResumedStates
  <2>3. CASE dState' = ds
    BY Zenon, <2>2, <2>3
  <2>4. CASE EnsureSplitGroupsAreBeingProcessed(
               started, Append(queuedSplitGroups, g), numRunningSplitGroups,
               groupDrivers, ds)
    BY Zenon, <2>2, <2>4, EnsureWakes
  <2>5. QED
    BY Zenon, <1>9, <2>2, <2>3, <2>4
<1>12. PICK st : Fills(n, st)
  BY Zenon, FillStore
<1>13. /\ st \in Stores
       /\ IsInjective(st.splits)
       /\ Range(st.splits) = Range(store.splits) \cup {s}
       /\ st.noMoreSplits = store.noMoreSplits
       /\ st.splitPromises = left
  BY Zenon, <1>3, <1>4, <1>5, <1>7, <1>12 DEF Fills, HasFilled, NextSplit, NextStore
<1>14. OnlyStore(n, g, st)
  BY Zenon, <1>3, <1>4, <1>12 DEF Fills, NextSplit
<1>15. StoresOK'
  <2>1. DOMAIN known' = Nodes /\ \A m \in Nodes : known'[m] \subseteq GroupsOf(m)
    BY Zenon, <1>9, SplitsParts DEF StoresOK
  <2>2. DOMAIN stores' = Nodes /\ \A m \in Nodes : stores'[m] \in [GroupsOf(m) -> Stores]
    BY Zenon, <1>14 DEF OnlyStore
  <2>3. endedGroups' \in [GroupedNodes -> SUBSET Groups]
    BY Zenon, <1>20, SplitsParts DEF StoresOK
  <2>4. QED
    BY Zenon, <1>1, <1>10, <1>20, <1>21, <2>1, <2>2, <2>3
    DEF StoresOK, DriverStates
<1>16. PromisesOK'
  <2>1. ~stuck'
    BY Zenon, <1>20, SplitsParts DEF PromisesOK
  <2>2. \A m \in Nodes : \A h \in GroupsOf(m) :
          stores'[m][h].noMoreSplits = stores[m][h].noMoreSplits
    BY Zenon, <1>5, <1>13, <1>14 DEF OnlyStore
  <2>3. \A m \in Nodes : \A h \in GroupsOf(m) :
          stores[m][h].splitPromises = <<>> => stores'[m][h].splitPromises = <<>>
    BY Zenon, <1>5, <1>8, <1>13, <1>14 DEF OnlyStore
  <2>4. \A m \in Nodes : \A h \in GroupsOf(m) :
          stores'[m][h].noMoreSplits => stores'[m][h].splitPromises = <<>>
    BY Zenon, <2>2, <2>3, SplitsParts DEF PromisesOK
  <2>5. \A m \in GroupedNodes : \A h \in endedGroups'[m] : stores'[m][h].noMoreSplits
    <3>1. \A m \in GroupedNodes : m \in Nodes /\ endedGroups[m] \subseteq GroupsOf(m)
      BY Zenon, SplitsParts DEF StoresOK, Nodes, GroupsOf
    <3>2. QED
      BY SMTT(30), <1>20, <2>2, <3>1, SplitsParts DEF PromisesOK
  <2>6. ASSUME state' = "kRunning", NEW d \in Drivers, dState'[d] = "wait"
        PROVE  d \in Range(stores'[d[2]][d[1]].splitPromises)
    <3>1. d \in Range(stores[d[2]][d[1]].splitPromises)
      BY Zenon, <1>20, <1>10, <2>6, SplitsParts DEF PromisesOK, isRunning
    <3>2. CASE d[2] = n /\ d[1] = g
      <4>1. d \in Range(left)
        BY Zenon, <1>5, <1>8, <1>10, <2>6, <3>1, <3>2
      <4>2. stores'[d[2]][d[1]].splitPromises = left
        BY Zenon, <1>13, <1>14, <3>2 DEF OnlyStore
      <4>3. QED
        BY Zenon, <4>1, <4>2
    <3>3. CASE ~(d[2] = n /\ d[1] = g)
      BY Zenon, <1>14, <3>1, <3>3, DriverPlace DEF OnlyStore
    <3>4. QED
      BY Zenon, <3>2, <3>3
  <2>7. QED
    BY Zenon, <2>1, <2>4, <2>5, <2>6 DEF PromisesOK, isRunning
<1>17. SequenceOK'
  <2>1. GroupedNodes \subseteq Nodes
    BY Zenon DEF Nodes
  <2>2. \A m \in Nodes : next'[m] <= Len(SplitsOf[m]) + 1 /\ maxSequenceId'[m] < next'[m]
    <3>1. \A m \in Nodes : next[m] <= Len(SplitsOf[m]) + 1 /\ maxSequenceId[m] < next[m]
      BY Zenon, SplitsParts DEF SequenceOK
    <3>2. next'[n] <= Len(SplitsOf[n]) + 1
      BY <1>1, <1>2, <1>21
    <3>3. \A m \in Nodes : next'[m] <= Len(SplitsOf[m]) + 1
      BY Zenon, <1>21, <3>1, <3>2
    <3>4. \A m \in Nodes : maxSequenceId'[m] < next'[m]
      BY <1>1, <1>20, <1>21, <3>1
    <3>5. QED
      BY Zenon, <3>3, <3>4
  <2>3. GroupedNodes \ unacked' \subseteq GroupedNodes \ unacked /\ n \notin GroupedNodes \ unacked'
    BY Zenon DEF TakesSplit
  <2>4. state' = "kRunning" =>
          \A m \in GroupedNodes \ unacked' : maxSequenceId'[m] = next'[m] - 1
    <3>1. state = "kRunning" =>
            \A m \in GroupedNodes \ unacked : maxSequenceId[m] = next[m] - 1
      BY Zenon, SplitsParts DEF SequenceOK, isRunning
    <3>2. \A m \in GroupedNodes \ unacked' :
            m \in GroupedNodes \ unacked /\ next'[m] = next[m] /\ maxSequenceId'[m] = maxSequenceId[m]
      BY Zenon, <1>20, <1>21, <2>1, <2>3
    <3>3. QED
      BY Zenon, <1>20, <3>1, <3>2
  <2>5. QED
    BY Zenon, <2>2, <2>4 DEF SequenceOK, isRunning
<1>18. HandedOutOK'
  <2>2. handedOut[s] = 0
    BY SMTT(60), <1>2, <1>3, SplitsParts DEF HandedOutOK
  <2>3. \A m \in Nodes : \A id \in next'[m]..Len(SplitsOf[m]) :
          handedOut'[SplitsOf[m][id]] = 0
    <3>1. \A m \in Nodes : \A id \in next[m]..Len(SplitsOf[m]) :
            handedOut[SplitsOf[m][id]] = 0
      BY Zenon, SplitsParts DEF HandedOutOK
    <3>2. \A m \in Nodes : next'[m]..Len(SplitsOf[m]) \subseteq next[m]..Len(SplitsOf[m])
      BY <1>1, <1>21
    <3>3. QED
      BY Zenon, <1>20, <3>1, <3>2
  <2>4. ASSUME NEW m \in Nodes, NEW h \in GroupsOf(m)
        PROVE  /\ IsInjective(stores'[m][h].splits)
               /\ \A t \in Range(stores'[m][h].splits) :
                    /\ handedOut'[t] = 0
                    /\ GroupOf[t] = h
                    /\ \E id \in 1..(next'[m] - 1) : SplitsOf[m][id] = t
    <3>1. /\ IsInjective(stores[m][h].splits)
          /\ \A t \in Range(stores[m][h].splits) :
               /\ handedOut'[t] = 0
               /\ GroupOf[t] = h
               /\ \E id \in 1..(next[m] - 1) : SplitsOf[m][id] = t
      BY SMTT(60), <1>20, StoreContents
    <3>2. 1..(next[m] - 1) \subseteq 1..(next'[m] - 1)
      BY <1>21
    <3>3. CASE m = n /\ h = g
      <4>1. stores'[m][h] = st
        BY Zenon, <1>14, <3>3 DEF OnlyStore
      <4>2. next[n] \in 1..(next'[n] - 1)
        BY <1>1, <1>21
      <4>3. /\ handedOut'[s] = 0
            /\ GroupOf[s] = h
            /\ \E id \in 1..(next'[m] - 1) : SplitsOf[m][id] = s
        BY Zenon, <1>20, <1>3, <1>4, <2>2, <3>3, <4>2
      <4>4. \A t \in Range(st.splits) : t = s \/ t \in Range(stores[m][h].splits)
        BY Zenon, <1>5, <1>13, <3>3
      <4>5. QED
        BY Zenon, <1>13, <3>1, <3>2, <4>1, <4>3, <4>4
    <3>4. CASE ~(m = n /\ h = g)
      <4>1. stores'[m][h] = stores[m][h]
        BY Zenon, <1>14, <3>4 DEF OnlyStore
      <4>2. QED
        BY Zenon, <3>1, <3>2, <4>1
    <3>5. QED
      BY Zenon, <3>3, <3>4
  <2>5. \A t \in Splits : handedOut'[t] <= 1
    BY Zenon, <1>20, SplitsParts DEF HandedOutOK
  <2>6. QED
    BY Zenon, <2>3, <2>4, <2>5 DEF HandedOutOK
<1>19. QED
  BY Zenon, <1>15, <1>16, <1>17, <1>18, SplitsPartsNext

\* A split that comes after the end of the task reaches no store.
LEMMA SendLate ==
  ASSUME SplitsInv, NEW n \in Nodes, next[n] <= Len(SplitsOf[n]), state # "kRunning",
         next' = [next EXCEPT ![n] = @ + 1],
         UNCHANGED <<stores, known, dState, endedGroups, maxSequenceId, handedOut,
                     stuck, state>>
  PROVE  SplitsInv'
<1>1. /\ next \in [Nodes -> Nat \ {0}]
      /\ maxSequenceId \in [Nodes -> Nat]
      /\ \A m \in Nodes : Len(SplitsOf[m]) \in Nat
  BY SMTT(30), SplitsAssumption, SplitsParts
  DEF StoresOK, SplitsAssumption
<1>2. /\ next' \in [Nodes -> Nat \ {0}]
      /\ next'[n] = next[n] + 1
      /\ \A m \in Nodes : m # n => next'[m] = next[m]
      /\ \A m \in Nodes : next[m] \in Nat /\ next'[m] \in Nat /\ next[m] <= next'[m]
  BY <1>1
<1>3. StoresOK'
  BY Zenon, <1>2, SplitsParts DEF StoresOK
<1>4. PromisesOK'
  BY Zenon, SplitsParts DEF PromisesOK, isRunning
<1>5. SequenceOK'
  <2>1. \A m \in Nodes : next[m] <= Len(SplitsOf[m]) + 1 /\ maxSequenceId[m] < next[m]
    BY Zenon, SplitsParts DEF SequenceOK
  <2>2. \A m \in Nodes : next'[m] <= Len(SplitsOf[m]) + 1 /\ maxSequenceId'[m] < next'[m]
    BY <1>1, <1>2, <2>1
  <2>3. QED
    BY Zenon, <2>2 DEF SequenceOK, isRunning
<1>6. HandedOutOK'
  <2>1. \A m \in Nodes : next'[m]..Len(SplitsOf[m]) \subseteq next[m]..Len(SplitsOf[m])
    BY <1>1, <1>2
  <2>2. \A m \in Nodes : 1..(next[m] - 1) \subseteq 1..(next'[m] - 1)
    BY <1>2
  <2>3. ASSUME NEW m \in Nodes, NEW h \in GroupsOf(m)
        PROVE  /\ IsInjective(stores'[m][h].splits)
               /\ \A t \in Range(stores'[m][h].splits) :
                    /\ handedOut'[t] = 0
                    /\ GroupOf[t] = h
                    /\ \E id \in 1..(next'[m] - 1) : SplitsOf[m][id] = t
    BY SMTT(30), <2>2, StoreContents
  <2>4. /\ \A t \in Splits : handedOut'[t] <= 1
        /\ \A m \in Nodes : \A id \in next'[m]..Len(SplitsOf[m]) :
             handedOut'[SplitsOf[m][id]] = 0
    BY <2>1, SplitsParts DEF HandedOutOK
  <2>5. QED
    BY Zenon, <2>3, <2>4 DEF HandedOutOK
<1>7. QED
  BY Zenon, <1>3, <1>4, <1>5, <1>6, SplitsPartsNext

\* The next split has an id above the maximum, so a running task takes it.
LEMMA SendStep ==
  ASSUME SplitsInv, NEW n \in Nodes, SendSplit(n)
  PROVE  SplitsInv'
<1>1. IsNewSplit(n, next[n])
  BY Zenon, SplitsParts DEF StoresOK, SequenceOK, IsNewSplit
<1>2. /\ next[n] <= Len(SplitsOf[n])
      /\ next' = [next EXCEPT ![n] = @ + 1]
      /\ UNCHANGED <<endedGroups, maxSequenceId, handedOut, stuck, state>>
      /\ unacked \subseteq unacked'
      /\ n \in GroupedNodes => n \in unacked'
  BY Zenon DEF SendSplit, AddSplit, endVars
<1>3. CASE isRunning
  <2>1. AddSplitLocked(n, SplitsOf[n][next[n]])
    BY Zenon, <1>1, <1>3 DEF SendSplit, AddSplit
  <2>2. TakesSplit(n)
    BY Zenon, <1>2, <2>1 DEF TakesSplit
  <2>3. QED
    BY Zenon, <2>2, AddNew
<1>4. CASE ~isRunning
  <2>1. UNCHANGED <<stores, known, dState>>
    BY Zenon, <1>4 DEF SendSplit, AddSplit
  <2>2. QED
    BY Zenon, <1>2, <1>4, <2>1, SendLate DEF isRunning
<1>5. QED
  BY Zenon, <1>3, <1>4

\* A split that is sent again is not above the maximum, and changes nothing.
LEMMA ResendIdle ==
  ASSUME SplitsInv, NEW n \in Nodes, ResendSplit(n)
  PROVE  UNCHANGED vars
<1>1. PICK id \in 1..(next[n] - 1) : AddSplit(n, id, TRUE)
  BY Zenon DEF ResendSplit
<1>2. n \in GroupedNodes \ unacked /\ UNCHANGED <<next, unacked>>
  BY Zenon DEF ResendSplit
<1>3. UNCHANGED <<started, noMoreSplits, maxSequenceId, completedSplitGroups,
                  countVars, endVars, holds, endedGroups, handedOut>>
  BY Zenon, <1>1 DEF AddSplit
<1>4. isRunning => ~IsNewSplit(n, id)
  <2>1. next[n] \in Nat \ {0}
    BY Zenon, SplitsParts DEF StoresOK
  <2>2. isRunning => maxSequenceId[n] = next[n] - 1
    BY Zenon, <1>2, SplitsParts DEF SequenceOK
  <2>3. QED
    BY <2>1, <2>2 DEF IsNewSplit
<1>5. UNCHANGED <<stores, known, seenSplitGroups, queuedSplitGroups,
                  numRunningSplitGroups, groupDrivers, dState>>
  BY Zenon, <1>1, <1>4 DEF AddSplit
<1>6. n \notin ExchangeNodes
  BY Zenon, <1>2, SplitsAssumption DEF SplitsAssumption
<1>7. UNCHANGED taskIds
  BY Zenon, <1>1, <1>6 DEF AddSplit, AddRemoteSplit
<1>8. QED
  BY Zenon, <1>2, <1>3, <1>5, <1>7
  DEF vars, splitVars, groupVars, countVars, endVars, driverVars, callerVars

\* A step that changes nothing.
LEMMA StutterStep ==
  ASSUME SplitsInv, UNCHANGED vars
  PROVE  SplitsInv'
<1>1. dState \in [Drivers -> DriverStates]
  BY Zenon, SplitsParts DEF StoresOK, DriverStates
<1>2. UNCHANGED <<stores, known, endedGroups, next, maxSequenceId, handedOut,
                  stuck, unacked, state, dState>>
  BY Zenon DEF vars, splitVars, endVars, driverVars, callerVars
<1>3. QED
  BY Zenon, <1>1, <1>2, Quiet

-----------------------------------------------------------------------------
(* Drivers that ask for a split *)

\* Appending adds an element and loses none.
LEMMA RangeOfAppend ==
  ASSUME NEW q \in Seq(Drivers), NEW d \in Drivers, NEW r, r = Append(q, d)
  PROVE  d \in Range(r) /\ \A e \in Range(q) : e \in Range(r)
<1>1. /\ DOMAIN r = 1..(Len(q) + 1)
      /\ \A j \in 1..Len(q) : r[j] = q[j]
      /\ r[Len(q) + 1] = d
  OBVIOUS
<1>2. DOMAIN q = 1..Len(q) /\ Len(q) \in Nat
  OBVIOUS
<1>3. Len(q) + 1 \in DOMAIN r /\ \A j \in DOMAIN q : j \in DOMAIN r /\ r[j] = q[j]
  BY <1>1, <1>2
<1>4. QED
  BY Zenon, <1>1, <1>3 DEF Range

\* Store st is store q where d waits too.
HasWaiter(st, q, d) ==
  /\ st \in Stores
  /\ st.splits = q.splits
  /\ st.noMoreSplits = q.noMoreSplits
  /\ st.splitPromises = Append(q.splitPromises, d)
  /\ d \in Range(st.splitPromises)
  /\ \A e \in Range(q.splitPromises) : e \in Range(st.splitPromises)

\* A driver joins those that wait on a store.
LEMMA WaitingStore ==
  ASSUME NEW q \in Stores, NEW d \in Drivers, NEW st,
         st = [q EXCEPT !.splitPromises = Append(q.splitPromises, d)]
  PROVE  HasWaiter(st, q, d)
<1>1. /\ q.splits \in Seq(Splits)
      /\ q.noMoreSplits \in BOOLEAN
      /\ q.splitPromises \in Seq(Drivers)
  BY Zenon DEF Stores
<1>2. PICK ps : ps = Append(q.splitPromises, d)
  BY Zenon
<1>3. ps \in Seq(Drivers)
  BY <1>1, <1>2
<1>4. d \in Range(ps) /\ \A e \in Range(q.splitPromises) : e \in Range(ps)
  BY ZenonT(30), <1>1, <1>2, RangeOfAppend
<1>5. st \in Stores
  BY Zenon, <1>1, <1>2, <1>3 DEF Stores
<1>6. st.splits = q.splits /\ st.splitPromises = ps
  BY Zenon, <1>2 DEF Stores
<1>7. st.noMoreSplits = q.noMoreSplits
  BY Zenon DEF Stores
<1>8. QED
  BY Zenon, <1>2, <1>4, <1>5, <1>6, <1>7 DEF HasWaiter

\* Store st is store q without split s.
HasTaken(st, q, s) ==
  /\ st \in Stores
  /\ IsInjective(st.splits)
  /\ Range(st.splits) = Range(q.splits) \ {s}
  /\ st.noMoreSplits = q.noMoreSplits
  /\ st.splitPromises = q.splitPromises

\* A split leaves a store.
LEMMA TakenStore ==
  ASSUME NEW q \in Stores, IsInjective(q.splits), NEW i \in DOMAIN q.splits, NEW st,
         st = [q EXCEPT !.splits = Without(q.splits, i)]
  PROVE  HasTaken(st, q, q.splits[i])
<1>1. /\ q.splits \in Seq(Splits)
      /\ q.noMoreSplits \in BOOLEAN
      /\ q.splitPromises \in Seq(Drivers)
  BY Zenon DEF Stores
<1>2. PICK sp : sp = Without(q.splits, i)
  BY Zenon
<1>3. /\ sp \in Seq(Splits)
      /\ IsInjective(sp)
      /\ Range(sp) = Range(q.splits) \ {q.splits[i]}
  BY ZenonT(30), <1>1, <1>2, WithoutInjective
<1>4. st = [q EXCEPT !.splits = sp]
  BY Zenon, <1>2
<1>5. st \in Stores
  BY Zenon, <1>1, <1>3, <1>4 DEF Stores
<1>6. st.splits = sp /\ st.splitPromises = q.splitPromises
  BY Zenon, <1>4 DEF Stores
<1>7. st.noMoreSplits = q.noMoreSplits
  BY Zenon, <1>4 DEF Stores
<1>8. QED
  BY Zenon, <1>3, <1>5, <1>6, <1>7 DEF HasTaken

\* What a driver that asks for a split leaves alone.
Asks(d) ==
  /\ known' = [known EXCEPT ![d[2]] = @ \cup {d[1]}]
  /\ UNCHANGED <<maxSequenceId, endedGroups, next, unacked, stuck, state>>

\* The parts of the invariant that do not depend on what the driver is told.
LEMMA AskFrame ==
  ASSUME SplitsInv, NEW d \in Drivers, Asks(d),
         DOMAIN stores' = Nodes,
         \A m \in Nodes : stores'[m] \in [GroupsOf(m) -> Stores],
         dState' \in [Drivers -> DriverStates], handedOut' \in [Splits -> Nat]
  PROVE  StoresOK' /\ SequenceOK' /\ ~stuck'
<1>1. d[2] \in Nodes /\ d[1] \in GroupsOf(d[2])
  BY Zenon, DriverPlace
<1>2. DOMAIN known' = Nodes /\ \A m \in Nodes : known'[m] \subseteq GroupsOf(m)
  BY Zenon, <1>1, SplitsParts DEF StoresOK, Asks
<1>3. StoresOK'
  BY Zenon, <1>2, SplitsParts DEF StoresOK, Asks, DriverStates
<1>4. SequenceOK'
  BY Zenon, SplitsParts DEF SequenceOK, Asks, isRunning
<1>5. ~stuck'
  BY Zenon, SplitsParts DEF PromisesOK, Asks
<1>6. QED
  BY Zenon, <1>3, <1>4, <1>5

\* A driver is told that there are no more splits.
LEMMA AskFinish ==
  ASSUME SplitsInv, NEW d \in Drivers, Asks(d),
         dState' = [dState EXCEPT ![d] = "finish"], UNCHANGED <<stores, handedOut>>
  PROVE  SplitsInv'
<1>1. /\ dState' \in [Drivers -> DriverStates]
      /\ \A e \in Drivers : dState'[e] = "wait" => dState[e] = "wait"
  BY Zenon, SplitsParts DEF StoresOK, DriverStates
<1>2. /\ DOMAIN stores' = Nodes
      /\ \A m \in Nodes : stores'[m] \in [GroupsOf(m) -> Stores]
      /\ handedOut' \in [Splits -> Nat]
  BY Zenon, SplitsParts DEF StoresOK
<1>3. StoresOK' /\ SequenceOK' /\ ~stuck'
  BY Zenon, <1>1, <1>2, AskFrame
<1>4. PromisesOK'
  BY Zenon, <1>1, <1>3, SplitsParts DEF PromisesOK, Asks, isRunning
<1>5. HandedOutOK'
  BY Zenon, HandedOutFrame, SplitsParts DEF Asks
<1>6. QED
  BY Zenon, <1>3, <1>4, <1>5, SplitsPartsNext

\* Driver d has found the store open and empty, and waits.
Waits(d, st) ==
  /\ stores[d[2]][d[1]].noMoreSplits = FALSE
  /\ HasWaiter(st, stores[d[2]][d[1]], d)
  /\ OnlyStore(d[2], d[1], st)
  /\ dState' = [dState EXCEPT ![d] = "wait"]
  /\ handedOut' = handedOut

\* A driver waits, and its promise is in the store.
LEMMA AskWait ==
  ASSUME SplitsInv, NEW d \in Drivers, Asks(d), NEW st, Waits(d, st)
  PROVE  SplitsInv'
<1>1. PICK n \in Nodes : n = d[2] /\ d[1] \in GroupsOf(n)
  BY Zenon, DriverPlace
<1>20. PICK g \in GroupsOf(n) : g = d[1]
  BY Zenon, <1>1
<1>21. /\ OnlyStore(n, g, st)
       /\ st.splits = stores[n][g].splits
       /\ stores[n][g].noMoreSplits = FALSE
       /\ st.noMoreSplits = FALSE
       /\ d \in Range(st.splitPromises)
       /\ \A e \in Range(stores[n][g].splitPromises) : e \in Range(st.splitPromises)
       /\ dState' = [dState EXCEPT ![d] = "wait"]
       /\ handedOut' = handedOut
  BY Zenon, <1>1, <1>20 DEF Waits, HasWaiter
<1>2. /\ dState' \in [Drivers -> DriverStates]
      /\ \A e \in Drivers : dState'[e] = "wait" => e = d \/ dState[e] = "wait"
  BY Zenon, <1>21, SplitsParts DEF StoresOK, DriverStates
<1>3. StoresOK' /\ SequenceOK' /\ ~stuck'
  <2>1. /\ DOMAIN stores' = Nodes
        /\ \A m \in Nodes : stores'[m] \in [GroupsOf(m) -> Stores]
        /\ handedOut' \in [Splits -> Nat]
    BY Zenon, <1>21, SplitsParts DEF StoresOK, OnlyStore
  <2>2. QED
    BY Zenon, <1>2, <2>1, AskFrame
<1>4. PromisesOK'
  <2>1. \A m \in Nodes : \A h \in GroupsOf(m) :
          stores'[m][h].noMoreSplits = stores[m][h].noMoreSplits
    BY Zenon, <1>21 DEF OnlyStore
  <2>2. \A m \in Nodes : \A h \in GroupsOf(m) :
          stores'[m][h].noMoreSplits => stores'[m][h].splitPromises = <<>>
    <3>1. SUFFICES ASSUME NEW m \in Nodes, NEW h \in GroupsOf(m), stores'[m][h].noMoreSplits
                   PROVE  stores'[m][h].splitPromises = <<>>
      BY Zenon
    <3>2. stores[m][h].noMoreSplits
      BY Zenon, <2>1, <3>1
    <3>3. ~(m = n /\ h = g)
      BY Zenon, <1>21, <3>2
    <3>4. stores'[m][h] = stores[m][h]
      BY Zenon, <1>21, <3>3 DEF OnlyStore
    <3>5. QED
      BY Zenon, <3>2, <3>4, SplitsParts DEF PromisesOK
  <2>3. \A m \in GroupedNodes : \A h \in endedGroups'[m] : stores'[m][h].noMoreSplits
    <3>1. \A m \in GroupedNodes : m \in Nodes /\ endedGroups[m] \subseteq GroupsOf(m)
      BY Zenon, SplitsParts DEF StoresOK, Nodes, GroupsOf
    <3>2. QED
      BY SMTT(30), <2>1, <3>1, SplitsParts DEF PromisesOK, Asks
  <2>4. ASSUME state' = "kRunning", NEW e \in Drivers, dState'[e] = "wait"
        PROVE  e \in Range(stores'[e[2]][e[1]].splitPromises)
    <3>1. e[2] \in Nodes /\ e[1] \in GroupsOf(e[2])
      BY Zenon, DriverPlace
    <3>2. e = d \/ e \in Range(stores[e[2]][e[1]].splitPromises)
      BY Zenon, <1>2, <2>4, SplitsParts DEF PromisesOK, isRunning, Asks
    <3>3. CASE e[2] = n /\ e[1] = g
      <4>1. stores'[e[2]][e[1]] = st
        BY Zenon, <1>21, <3>3 DEF OnlyStore
      <4>2. QED
        BY Zenon, <1>21, <3>2, <3>3, <4>1
    <3>4. CASE ~(e[2] = n /\ e[1] = g)
      <4>1. stores'[e[2]][e[1]] = stores[e[2]][e[1]]
        BY Zenon, <1>21, <3>1, <3>4 DEF OnlyStore
      <4>2. QED
        BY Zenon, <1>1, <1>20, <3>2, <3>4, <4>1
    <3>5. QED
      BY Zenon, <3>3, <3>4
  <2>5. QED
    BY Zenon, <1>3, <2>2, <2>3, <2>4 DEF PromisesOK, isRunning
<1>5. HandedOutOK'
  <2>1. \A m \in Nodes : \A h \in GroupsOf(m) :
          stores'[m][h].splits = stores[m][h].splits
    BY Zenon, <1>21 DEF OnlyStore
  <2>2. QED
    BY Zenon, <1>21, <2>1, HandedOutFrame, SplitsParts DEF Asks
<1>6. QED
  BY Zenon, <1>3, <1>4, <1>5, SplitsPartsNext

\* Driver d takes split s out of its store.
Takes(d, st, s) ==
  /\ s \in Range(stores[d[2]][d[1]].splits)
  /\ HasTaken(st, stores[d[2]][d[1]], s)
  /\ OnlyStore(d[2], d[1], st)
  /\ dState' = [dState EXCEPT ![d] = "scan"]
  /\ handedOut' = [handedOut EXCEPT ![s] = @ + 1]

\* A driver takes a split out of its store; the split was not handed out before
\* and is in no other store, as it names its group and its node.
LEMMA AskTake ==
  ASSUME SplitsInv, NEW d \in Drivers, Asks(d), NEW st, NEW s, Takes(d, st, s)
  PROVE  SplitsInv'
<1>1. PICK n \in Nodes : n = d[2] /\ d[1] \in GroupsOf(n)
  BY Zenon, DriverPlace
<1>20. PICK g \in GroupsOf(n) : g = d[1]
  BY Zenon, <1>1
<1>21. /\ OnlyStore(n, g, st)
       /\ s \in Range(stores[n][g].splits)
       /\ IsInjective(st.splits)
       /\ Range(st.splits) \subseteq Range(stores[n][g].splits) \ {s}
       /\ st.noMoreSplits = stores[n][g].noMoreSplits
       /\ st.splitPromises = stores[n][g].splitPromises
       /\ dState' = [dState EXCEPT ![d] = "scan"]
       /\ handedOut' = [handedOut EXCEPT ![s] = @ + 1]
  BY Zenon, <1>1, <1>20 DEF Takes, HasTaken
<1>2. /\ dState' \in [Drivers -> DriverStates]
      /\ \A e \in Drivers : dState'[e] = "wait" => dState[e] = "wait"
  BY Zenon, <1>21, SplitsParts DEF StoresOK, DriverStates
<1>3. /\ \A m \in Nodes : next[m] \in Nat \ {0} /\ Len(SplitsOf[m]) \in Nat
      /\ \A m \in Nodes : next[m] <= Len(SplitsOf[m]) + 1
      /\ handedOut \in [Splits -> Nat]
  BY SMTT(30), SplitsAssumption, SplitsParts
  DEF StoresOK, SequenceOK, SplitsAssumption
<1>4. /\ handedOut[s] = 0
      /\ GroupOf[s] = g
      /\ \E id \in 1..(next[n] - 1) : SplitsOf[n][id] = s
  BY SMTT(30), <1>21, StoreContents
<1>5. PICK id \in 1..(next[n] - 1) : SplitsOf[n][id] = s
  BY Zenon, <1>4
<1>6. id \in 1..Len(SplitsOf[n]) /\ s \in Splits
  BY <1>3, <1>5, SplitPlace
<1>7. /\ handedOut' \in [Splits -> Nat]
      /\ handedOut'[s] = 1
      /\ \A t \in Splits : t # s => handedOut'[t] = handedOut[t]
  BY SMTT(30), <1>3, <1>4, <1>6, <1>21
<1>8. StoresOK' /\ SequenceOK' /\ ~stuck'
  <2>1. /\ DOMAIN stores' = Nodes
        /\ \A m \in Nodes : stores'[m] \in [GroupsOf(m) -> Stores]
    BY Zenon, <1>21 DEF OnlyStore
  <2>2. QED
    BY Zenon, <1>2, <1>7, <2>1, AskFrame
<1>9. PromisesOK'
  <2>1. \A m \in Nodes : \A h \in GroupsOf(m) :
          /\ stores'[m][h].noMoreSplits = stores[m][h].noMoreSplits
          /\ stores'[m][h].splitPromises = stores[m][h].splitPromises
    BY ZenonT(30), <1>21 DEF OnlyStore
  <2>2. \A m \in Nodes : \A h \in GroupsOf(m) :
          stores'[m][h].noMoreSplits => stores'[m][h].splitPromises = <<>>
    BY ZenonT(30), <2>1, SplitsParts DEF PromisesOK
  <2>3. \A m \in GroupedNodes : \A h \in endedGroups'[m] : stores'[m][h].noMoreSplits
    <3>1. \A m \in GroupedNodes : m \in Nodes /\ endedGroups[m] \subseteq GroupsOf(m)
      BY Zenon, SplitsParts DEF StoresOK, Nodes, GroupsOf
    <3>2. QED
      BY SMTT(30), <2>1, <3>1, SplitsParts DEF PromisesOK, Asks
  <2>4. ASSUME state' = "kRunning", NEW e \in Drivers, dState'[e] = "wait"
        PROVE  e \in Range(stores'[e[2]][e[1]].splitPromises)
    <3>1. e \in Range(stores[e[2]][e[1]].splitPromises)
      BY Zenon, <1>2, <2>4, SplitsParts DEF PromisesOK, isRunning, Asks
    <3>2. QED
      BY Zenon, <2>1, <3>1, DriverPlace
  <2>5. QED
    BY Zenon, <1>8, <2>2, <2>3, <2>4 DEF PromisesOK, isRunning
<1>10. HandedOutOK'
  <2>1. next' = next
    BY Zenon DEF Asks
  <2>2. \A t \in Splits : handedOut'[t] <= 1
    <3>1. \A t \in Splits : handedOut[t] <= 1
      BY Zenon, SplitsParts DEF HandedOutOK
    <3>2. QED
      BY <1>7, <3>1
  <2>3. ASSUME NEW m \in Nodes, NEW k \in next'[m]..Len(SplitsOf[m])
        PROVE  handedOut'[SplitsOf[m][k]] = 0
    <3>1. k \in 1..Len(SplitsOf[m]) /\ k \in next[m]..Len(SplitsOf[m])
      BY <1>3, <2>1
    <3>2. handedOut[SplitsOf[m][k]] = 0
      BY ZenonT(30), <3>1, SplitsParts DEF HandedOutOK
    <3>3. ASSUME SplitsOf[m][k] = s
          PROVE  FALSE
      <4>1. m = n /\ k = id
        BY Zenon, <1>5, <1>6, <3>1, <3>3, SplitUnique
      <4>2. QED
        BY SMTT(30), <1>3, <1>5, <3>1, <4>1
    <3>4. SplitsOf[m][k] \in Splits
      BY Zenon, <3>1, SplitPlace
    <3>5. QED
      BY Zenon, <1>7, <3>2, <3>3, <3>4
  <2>4. ASSUME NEW m \in Nodes, NEW h \in GroupsOf(m)
        PROVE  /\ IsInjective(stores'[m][h].splits)
               /\ \A t \in Range(stores'[m][h].splits) :
                    /\ handedOut'[t] = 0
                    /\ GroupOf[t] = h
                    /\ \E k \in 1..(next'[m] - 1) : SplitsOf[m][k] = t
    <3>1. /\ IsInjective(stores[m][h].splits)
          /\ \A t \in Range(stores[m][h].splits) :
               /\ handedOut[t] = 0
               /\ GroupOf[t] = h
               /\ \E k \in 1..(next[m] - 1) : SplitsOf[m][k] = t
      BY SMTT(30), StoreContents
    <3>2. /\ IsInjective(stores'[m][h].splits)
          /\ \A t \in Range(stores'[m][h].splits) : t \in Range(stores[m][h].splits) /\ t # s
      <4>1. CASE m = n /\ h = g
        <5>1. stores'[m][h] = st
          BY Zenon, <1>21, <4>1 DEF OnlyStore
        <5>2. QED
          BY Zenon, <1>21, <4>1, <5>1
      <4>2. CASE ~(m = n /\ h = g)
        <5>1. stores'[m][h] = stores[m][h]
          BY Zenon, <1>21, <4>2 DEF OnlyStore
        <5>2. ASSUME s \in Range(stores[m][h].splits)
              PROVE  FALSE
          <6>1. PICK k \in 1..(next[m] - 1) : SplitsOf[m][k] = s
            BY Zenon, <3>1, <5>2
          <6>2. k \in 1..Len(SplitsOf[m])
            BY <1>3
          <6>3. m = n
            BY ZenonT(30), <1>5, <1>6, <6>1, <6>2, SplitUnique
          <6>4. h = g
            BY Zenon, <1>4, <3>1, <5>2
          <6>5. QED
            BY Zenon, <4>2, <6>3, <6>4
        <5>3. QED
          BY Zenon, <3>1, <5>1, <5>2
      <4>3. QED
        BY Zenon, <4>1, <4>2
    <3>3. \A t \in Range(stores[m][h].splits) : t \in Splits
      <4>1. ASSUME NEW t \in Range(stores[m][h].splits)
            PROVE  t \in Splits
        <5>1. PICK k \in 1..(next[m] - 1) : SplitsOf[m][k] = t
          BY Zenon, <3>1
        <5>2. k \in 1..Len(SplitsOf[m])
          BY <1>3
        <5>3. QED
          BY Zenon, <5>1, <5>2, SplitPlace
      <4>2. QED
        BY Zenon, <4>1
    <3>4. QED
      BY Zenon, <1>7, <2>1, <3>1, <3>2, <3>3
  <2>5. QED
    BY Zenon, <2>2, <2>3, <2>4 DEF HandedOutOK
<1>11. QED
  BY Zenon, <1>8, <1>9, <1>10, SplitsPartsNext

\* What a driver is told, and what it then does.
Answer(d) ==
  /\ Asks(d)
  /\ dState[d] = "run"
  /\ \/ /\ stores[d[2]][d[1]].splits = <<>>
        /\ stores[d[2]][d[1]].noMoreSplits
        /\ dState' = [dState EXCEPT ![d] = "finish"]
        /\ UNCHANGED <<stores, holds, handedOut>>
     \/ /\ stores[d[2]][d[1]].splits = <<>>
        /\ \E st : Waits(d, st)
        /\ holds' = holds
     \/ \E st, s : Takes(d, st, s) /\ holds' = [holds EXCEPT ![d] = s]

\* Task::getSplitOrFuture gives one of three answers.
LEMMA GetSplitAnswer ==
  ASSUME SplitsInv, NEW d \in Drivers, GetSplitOrFuture(d)
  PROVE  Answer(d)
<1>1. Asks(d) /\ dState[d] = "run"
  BY Zenon DEF GetSplitOrFuture, Asks, endVars, callerVars
<1>2. d[2] \in Nodes /\ d[1] \in GroupsOf(d[2]) /\ StoresOK
  BY Zenon, DriverPlace, SplitsParts
<1>3. PICK store \in Stores : store = stores[d[2]][d[1]]
  BY Zenon, <1>2 DEF StoresOK
<1>4. \/ /\ store.splits = <<>>
         /\ store.noMoreSplits
         /\ dState' = [dState EXCEPT ![d] = "finish"]
         /\ UNCHANGED <<stores, holds, handedOut>>
      \/ /\ store.splits = <<>>
         /\ ~store.noMoreSplits
         /\ stores' = [stores EXCEPT ![d[2]][d[1]] =
                         [store EXCEPT !.splitPromises = Append(store.splitPromises, d)]]
         /\ dState' = [dState EXCEPT ![d] = "wait"]
         /\ UNCHANGED <<holds, handedOut>>
      \/ /\ \E i \in DOMAIN store.splits :
              /\ stores' = [stores EXCEPT ![d[2]][d[1]] =
                              [store EXCEPT !.splits = Without(store.splits, i)]]
              /\ holds' = [holds EXCEPT ![d] = store.splits[i]]
              /\ handedOut' = [handedOut EXCEPT ![store.splits[i]] = @ + 1]
         /\ dState' = [dState EXCEPT ![d] = "scan"]
  BY Zenon, <1>3 DEF GetSplitOrFuture
<1>5. CASE /\ store.splits = <<>>
           /\ store.noMoreSplits
           /\ dState' = [dState EXCEPT ![d] = "finish"]
           /\ UNCHANGED <<stores, holds, handedOut>>
  BY Zenon, <1>1, <1>3, <1>5 DEF Answer
<1>6. CASE /\ store.splits = <<>>
           /\ ~store.noMoreSplits
           /\ stores' = [stores EXCEPT ![d[2]][d[1]] =
                           [store EXCEPT !.splitPromises = Append(store.splitPromises, d)]]
           /\ dState' = [dState EXCEPT ![d] = "wait"]
           /\ UNCHANGED <<holds, handedOut>>
  <2>1. PICK st : st = [store EXCEPT !.splitPromises = Append(store.splitPromises, d)]
    BY Zenon
  <2>2. HasWaiter(st, store, d)
    BY Zenon, <2>1, WaitingStore
  <2>3. stores' = [stores EXCEPT ![d[2]][d[1]] = st]
    BY Zenon, <1>6, <2>1
  <2>4. OnlyStore(d[2], d[1], st)
    BY Zenon, <1>2, <2>2, <2>3, StoreUpdate DEF HasWaiter
  <2>5. store.noMoreSplits = FALSE
    BY Zenon, <1>6 DEF Stores
  <2>6. handedOut' = handedOut /\ holds' = holds
    BY Zenon, <1>6
  <2>7. Waits(d, st)
    BY Zenon, <1>3, <1>6, <2>2, <2>4, <2>5, <2>6 DEF Waits
  <2>8. QED
    BY Zenon, <1>1, <1>3, <1>6, <2>6, <2>7 DEF Answer
<1>7. CASE /\ \E i \in DOMAIN store.splits :
                /\ stores' = [stores EXCEPT ![d[2]][d[1]] =
                                [store EXCEPT !.splits = Without(store.splits, i)]]
                /\ holds' = [holds EXCEPT ![d] = store.splits[i]]
                /\ handedOut' = [handedOut EXCEPT ![store.splits[i]] = @ + 1]
           /\ dState' = [dState EXCEPT ![d] = "scan"]
  <2>1. PICK i \in DOMAIN store.splits :
          /\ stores' = [stores EXCEPT ![d[2]][d[1]] =
                          [store EXCEPT !.splits = Without(store.splits, i)]]
          /\ holds' = [holds EXCEPT ![d] = store.splits[i]]
          /\ handedOut' = [handedOut EXCEPT ![store.splits[i]] = @ + 1]
    BY Zenon, <1>7
  <2>2. PICK st : st = [store EXCEPT !.splits = Without(store.splits, i)]
    BY Zenon
  <2>3. IsInjective(store.splits)
    BY Zenon, <1>2, <1>3, StoreContents
  <2>4. HasTaken(st, store, store.splits[i])
    BY Zenon, <2>2, <2>3, TakenStore
  <2>5. stores' = [stores EXCEPT ![d[2]][d[1]] = st]
    BY Zenon, <2>1, <2>2
  <2>6. OnlyStore(d[2], d[1], st)
    BY Zenon, <1>2, <2>4, <2>5, StoreUpdate DEF HasTaken
  <2>7. store.splits[i] \in Range(store.splits)
    BY Zenon DEF Range
  <2>8. Takes(d, st, store.splits[i])
    BY Zenon, <1>3, <1>7, <2>1, <2>4, <2>6, <2>7 DEF Takes
  <2>9. QED
    BY Zenon, <1>1, <2>1, <2>8 DEF Answer
<1>8. QED
  BY Zenon, <1>4, <1>5, <1>6, <1>7

\* Task::getSplitOrFuture.
LEMMA GetSplitStep ==
  ASSUME SplitsInv, NEW d \in Drivers, GetSplitOrFuture(d)
  PROVE  SplitsInv'
<1>1. Answer(d)
  BY Zenon, GetSplitAnswer
<1>2. QED
  BY Zenon, <1>1, AskFinish, AskWait, AskTake DEF Answer

-----------------------------------------------------------------------------
(* The ends of the splits and of the task *)

\* Before Task::noMoreSplits at most one store of the node holds promises: the
\* caller has ended the groups of a grouped node, another node has one store.
LEMMA OneStoreWaits ==
  ASSUME SplitsInv, NEW n \in Nodes, n \in GroupedNodes => endedGroups[n] = Groups,
         NEW last \in GroupsOf(n), NEW g \in GroupsOf(n), g # last
  PROVE  stores[n][g].splitPromises = <<>>
<1>1. n \in GroupedNodes
  BY Zenon DEF GroupsOf
<1>2. g \in endedGroups[n]
  BY Zenon, <1>1 DEF GroupsOf
<1>3. QED
  BY Zenon, <1>1, <1>2, SplitsParts DEF PromisesOK

\* Each store is as before or has ended, and only stores of n have.
LEMMA StoresEnd ==
  ASSUME SplitsInv, NEW n \in Nodes, NEW ended,
         stores' = [stores EXCEPT ![n] = [g \in GroupsOf(n) |->
                      IF g \in ended
                      THEN [stores[n][g] EXCEPT !.noMoreSplits = TRUE, !.splitPromises = <<>>]
                      ELSE stores[n][g]]]
  PROVE  /\ DOMAIN stores' = Nodes
         /\ \A m \in Nodes : stores'[m] \in [GroupsOf(m) -> Stores]
         /\ \A m \in Nodes : m # n => stores'[m] = stores[m]
         /\ \A m \in Nodes : \A g \in GroupsOf(m) :
              /\ stores'[m][g].splits = stores[m][g].splits
              /\ \/ stores'[m][g] = stores[m][g]
                 \/ /\ stores'[m][g].noMoreSplits = TRUE
                    /\ stores'[m][g].splitPromises = <<>>
<1>1. DOMAIN stores = Nodes /\ \A m \in Nodes : stores[m] \in [GroupsOf(m) -> Stores]
  BY Zenon, SplitsParts DEF StoresOK
<1>2. PICK ns : ns = [g \in GroupsOf(n) |->
                      IF g \in ended
                      THEN [stores[n][g] EXCEPT !.noMoreSplits = TRUE, !.splitPromises = <<>>]
                      ELSE stores[n][g]]
  BY Zenon
<1>3. stores' = [stores EXCEPT ![n] = ns]
  BY Zenon, <1>2
<1>4. ASSUME NEW g \in GroupsOf(n)
      PROVE  /\ ns[g] \in Stores
             /\ ns[g].splits = stores[n][g].splits
             /\ \/ ns[g] = stores[n][g]
                \/ /\ ns[g].noMoreSplits = TRUE
                   /\ ns[g].splitPromises = <<>>
  <2>1. stores[n][g] \in Stores
    BY Zenon, <1>1
  <2>2. CASE g \in ended
    <3>1. ns[g] = [stores[n][g] EXCEPT !.noMoreSplits = TRUE, !.splitPromises = <<>>]
      BY Zenon, <1>2, <2>2
    <3>2. QED
      BY Zenon, <2>1, <3>1, EndedStore
  <2>3. CASE g \notin ended
    <3>1. ns[g] = stores[n][g]
      BY Zenon, <1>2, <2>3
    <3>2. QED
      BY Zenon, <2>1, <3>1
  <2>4. QED
    BY Zenon, <2>2, <2>3
<1>5. DOMAIN ns = GroupsOf(n) /\ ns \in [GroupsOf(n) -> Stores]
  <2>1. ns = [g \in GroupsOf(n) |-> ns[g]]
    BY Zenon, <1>2
  <2>2. QED
    BY Zenon, <1>4, <2>1
<1>6. stores'[n] = ns /\ DOMAIN stores' = Nodes /\ \A m \in Nodes : m # n => stores'[m] = stores[m]
  BY Zenon, <1>1, <1>3
<1>7. \A m \in Nodes : stores'[m] \in [GroupsOf(m) -> Stores]
  BY Zenon, <1>1, <1>5, <1>6
<1>8. ASSUME NEW m \in Nodes, NEW g \in GroupsOf(m)
      PROVE  /\ stores'[m][g].splits = stores[m][g].splits
             /\ \/ stores'[m][g] = stores[m][g]
                \/ /\ stores'[m][g].noMoreSplits = TRUE
                   /\ stores'[m][g].splitPromises = <<>>
  <2>1. CASE m = n
    BY Zenon, <1>4, <1>6, <2>1
  <2>2. CASE m # n
    BY Zenon, <1>6, <2>2
  <2>3. QED
    BY Zenon, <2>1, <2>2
<1>9. QED
  BY Zenon, <1>6, <1>7, <1>8

\* Task::noMoreSplits breaks no promise.
LEMMA NoMoreSplitsStep ==
  ASSUME SplitsInv, NEW n \in Nodes, NoMoreSplits(n)
  PROVE  SplitsInv'
<1>1. /\ UNCHANGED <<maxSequenceId, state, next, unacked, endedGroups, handedOut>>
      /\ n \in GroupedNodes => endedGroups[n] = Groups
  BY Zenon DEF NoMoreSplits, callerVars
<1>2. known[n] \subseteq GroupsOf(n) /\ dState \in [Drivers -> DriverStates]
  BY Zenon, SplitsParts DEF StoresOK, DriverStates
<1>3. PICK last \in GroupsOf(n) :
        /\ stuck' = (\E g \in known[n] \ {last} : stores[n][g].splitPromises # <<>>)
        /\ dState' = Resumed(dState, stores[n][last].splitPromises)
  BY Zenon, <1>2 DEF NoMoreSplits
<1>4. \A g \in GroupsOf(n) : g # last => stores[n][g].splitPromises = <<>>
  BY Zenon, <1>1, OneStoreWaits
<1>5. ~stuck'
  BY Zenon, <1>2, <1>3, <1>4
<1>6. /\ dState' \in [Drivers -> DriverStates]
      /\ \A d \in Drivers : dState'[d] = "wait" =>
           dState[d] = "wait" /\ d \notin Range(stores[n][last].splitPromises)
  BY Zenon, <1>2, <1>3, ResumedStates
<1>7. PICK ended :
        /\ stores' = [stores EXCEPT ![n] = [g \in GroupsOf(n) |->
                        IF g \in ended
                        THEN [stores[n][g] EXCEPT !.noMoreSplits = TRUE,
                                                  !.splitPromises = <<>>]
                        ELSE stores[n][g]]]
        /\ known' = [known EXCEPT ![n] = ended]
        /\ ended \subseteq GroupsOf(n)
  <2> DEFINE e == IF known[n] = {} /\ n \in UngroupedNodes THEN {Ungrouped} ELSE known[n]
  <2>1. e \subseteq GroupsOf(n)
    BY Zenon, <1>2, SplitsAssumption DEF GroupsOf, SplitsAssumption
  <2>2. /\ stores' = [stores EXCEPT ![n] = [g \in GroupsOf(n) |->
                        IF g \in e
                        THEN [stores[n][g] EXCEPT !.noMoreSplits = TRUE,
                                                  !.splitPromises = <<>>]
                        ELSE stores[n][g]]]
        /\ known' = [known EXCEPT ![n] = e]
    BY Zenon DEF NoMoreSplits
  <2> HIDE DEF e
  <2>3. QED
    BY Zenon, <2>1, <2>2
<1>8. /\ DOMAIN stores' = Nodes
      /\ \A m \in Nodes : stores'[m] \in [GroupsOf(m) -> Stores]
      /\ \A m \in Nodes : m # n => stores'[m] = stores[m]
      /\ \A m \in Nodes : \A g \in GroupsOf(m) :
           /\ stores'[m][g].splits = stores[m][g].splits
           /\ \/ stores'[m][g] = stores[m][g]
              \/ /\ stores'[m][g].noMoreSplits = TRUE
                 /\ stores'[m][g].splitPromises = <<>>
  BY Zenon, <1>7, StoresEnd
<1>9. StoresOK'
  <2>1. DOMAIN known' = Nodes /\ \A m \in Nodes : known'[m] \subseteq GroupsOf(m)
    <3>1. DOMAIN known = Nodes /\ \A m \in Nodes : known[m] \subseteq GroupsOf(m)
      BY Zenon, SplitsParts DEF StoresOK
    <3>2. known' = [known EXCEPT ![n] = ended] /\ ended \subseteq GroupsOf(n)
      BY Zenon, <1>7
    <3>3. QED
      BY Zenon, <3>1, <3>2
  <2>2. endedGroups' \in [GroupedNodes -> SUBSET Groups]
    BY Zenon, <1>1, SplitsParts DEF StoresOK
  <2>3. /\ next' \in [Nodes -> Nat \ {0}]
        /\ maxSequenceId' \in [Nodes -> Nat]
        /\ handedOut' \in [Splits -> Nat]
    BY Zenon, <1>1, SplitsParts DEF StoresOK
  <2>4. QED
    BY Zenon, <1>6, <1>8, <2>1, <2>2, <2>3 DEF StoresOK, DriverStates
<1>10. PromisesOK'
  <2>1. \A m \in Nodes : \A h \in GroupsOf(m) :
          stores[m][h].noMoreSplits => stores[m][h].splitPromises = <<>>
    BY Zenon, SplitsParts DEF PromisesOK
  <2>2. \A m \in Nodes : \A h \in GroupsOf(m) :
          stores'[m][h].noMoreSplits => stores'[m][h].splitPromises = <<>>
    <3>1. ASSUME NEW m \in Nodes, NEW h \in GroupsOf(m), stores'[m][h].noMoreSplits
          PROVE  stores'[m][h].splitPromises = <<>>
      <4>1. stores'[m][h] = stores[m][h] \/ stores'[m][h].splitPromises = <<>>
        BY Zenon, <1>8
      <4>2. CASE stores'[m][h] = stores[m][h]
        BY Zenon, <2>1, <3>1, <4>2
      <4>3. QED
        BY Zenon, <4>1, <4>2
    <3>2. QED
      BY Zenon, <3>1
  <2>3. \A m \in GroupedNodes : \A h \in endedGroups'[m] : stores'[m][h].noMoreSplits
    <3>1. \A m \in GroupedNodes : m \in Nodes /\ endedGroups[m] \subseteq GroupsOf(m)
      BY Zenon, SplitsParts DEF StoresOK, Nodes, GroupsOf
    <3>2. \A m \in GroupedNodes : \A h \in endedGroups[m] : stores[m][h].noMoreSplits
      BY Zenon, SplitsParts DEF PromisesOK
    <3>3. endedGroups' = endedGroups
      BY Zenon, <1>1
    <3>4. ASSUME NEW m \in GroupedNodes, NEW h \in endedGroups'[m]
          PROVE  stores'[m][h].noMoreSplits
      <4>1. m \in Nodes /\ h \in GroupsOf(m) /\ stores[m][h].noMoreSplits
        BY Zenon, <3>1, <3>2, <3>3
      <4>2. QED
        BY Zenon, <1>8, <4>1
    <3>5. QED
      BY Zenon, <3>4
  <2>4. ASSUME state' = "kRunning", NEW d \in Drivers, dState'[d] = "wait"
        PROVE  d \in Range(stores'[d[2]][d[1]].splitPromises)
    <3>1. d \in Range(stores[d[2]][d[1]].splitPromises)
      BY Zenon, <1>1, <1>6, <2>4, SplitsParts DEF PromisesOK, isRunning
    <3>2. d[2] \in Nodes /\ d[1] \in GroupsOf(d[2])
      BY Zenon, DriverPlace
    <3>3. d[2] # n
      <4>1. SUFFICES ASSUME d[2] = n PROVE FALSE
        BY Zenon
      <4>2. d[1] # last
        BY Zenon, <1>6, <2>4, <3>1, <4>1
      <4>3. stores[n][d[1]].splitPromises = <<>>
        BY Zenon, <1>4, <3>2, <4>1, <4>2
      <4>4. Range(<<>>) = {}
        BY DEF Range
      <4>5. QED
        BY Zenon, <3>1, <4>1, <4>3, <4>4
    <3>4. stores'[d[2]] = stores[d[2]]
      BY Zenon, <1>8, <3>2, <3>3
    <3>5. QED
      BY Zenon, <3>1, <3>4
  <2>5. QED
    BY Zenon, <1>5, <2>2, <2>3, <2>4 DEF PromisesOK, isRunning
<1>11. SequenceOK'
  BY Zenon, <1>1, SplitsParts DEF SequenceOK, isRunning
<1>12. HandedOutOK'
  <2>1. \A m \in Nodes : \A h \in GroupsOf(m) :
          stores'[m][h].splits = stores[m][h].splits
    BY Zenon, <1>8
  <2>2. HandedOutOK /\ UNCHANGED <<next, handedOut>>
    BY Zenon, <1>1, SplitsParts
  <2>3. QED
    BY Zenon, <2>1, <2>2, HandedOutFrame
<1>13. QED
  BY Zenon, <1>9, <1>10, <1>11, <1>12, SplitsPartsNext

\* Store q without promises and with splits sp.
Drained(q, sp) == [q EXCEPT !.splitPromises = <<>>, !.splits = sp]

\* A store that is emptied after the end of the task.
LEMMA DrainedStore ==
  ASSUME NEW q \in Stores, IsInjective(q.splits), NEW sp, sp = <<>> \/ sp = q.splits,
         NEW st, st = Drained(q, sp)
  PROVE  /\ st \in Stores
         /\ IsInjective(st.splits)
         /\ \A s \in Range(st.splits) : s \in Range(q.splits)
         /\ st.noMoreSplits = q.noMoreSplits
         /\ st.splitPromises = <<>>
<1>1. q.splits \in Seq(Splits) /\ q.noMoreSplits \in BOOLEAN
  BY Zenon DEF Stores
<1>2. sp \in Seq(Splits) /\ IsInjective(sp) /\ \A s \in Range(sp) : s \in Range(q.splits)
  <2>1. CASE sp = q.splits
    BY Zenon, <1>1, <2>1
  <2>2. CASE sp = <<>>
    <3>1. <<>> \in Seq(Splits) /\ DOMAIN <<>> = {}
      OBVIOUS
    <3>2. IsInjective(<<>>) /\ Range(<<>>) = {}
      BY Zenon, <3>1 DEF IsInjective, Range
    <3>3. QED
      BY Zenon, <2>2, <3>1, <3>2
  <2>3. QED
    BY Zenon, <2>1, <2>2
<1>3. st = [splits |-> sp, noMoreSplits |-> q.noMoreSplits, splitPromises |-> <<>>]
  BY Zenon DEF Stores, Drained
<1>4. <<>> \in Seq(Drivers)
  OBVIOUS
<1>5. st \in Stores
  BY <1>1, <1>2, <1>3, <1>4 DEF Stores
<1>6. st.splits = sp /\ st.splitPromises = <<>>
  BY SMTT(30), <1>3
<1>7. st.noMoreSplits = q.noMoreSplits
  BY <1>3
<1>8. QED
  BY Zenon, <1>2, <1>5, <1>6, <1>7

\* The second half of Task::terminate takes splits and promises away.
LEMMA DrainStep ==
  ASSUME SplitsInv, Drain
  PROVE  SplitsInv'
<1>1. /\ state # "kRunning"
      /\ UNCHANGED <<known, maxSequenceId, state, stuck, dState, next, unacked,
                     endedGroups, handedOut>>
  BY Zenon DEF Drain, isRunning, driverVars, callerVars
<1>2. stores' = [n \in Nodes |-> [g \in GroupsOf(n) |->
        [stores[n][g] EXCEPT !.splitPromises = <<>>,
           !.splits = IF n \in ExchangeNodes THEN <<>> ELSE stores[n][g].splits]]]
  BY Zenon DEF Drain
<1>3. ASSUME NEW n \in Nodes, NEW g \in GroupsOf(n)
      PROVE  /\ stores'[n][g] \in Stores
             /\ IsInjective(stores'[n][g].splits)
             /\ \A s \in Range(stores'[n][g].splits) : s \in Range(stores[n][g].splits)
             /\ stores'[n][g].noMoreSplits = stores[n][g].noMoreSplits
             /\ stores'[n][g].splitPromises = <<>>
  <2>1. PICK q \in Stores : q = stores[n][g] /\ IsInjective(q.splits)
    BY SMTT(60), StoreContents, SplitsParts DEF StoresOK
  <2>2. PICK sp : sp = IF n \in ExchangeNodes THEN <<>> ELSE stores[n][g].splits
    BY Zenon
  <2>3. stores'[n][g] = [stores[n][g] EXCEPT !.splitPromises = <<>>,
           !.splits = IF n \in ExchangeNodes THEN <<>> ELSE stores[n][g].splits]
    BY Zenon, <1>2
  <2>4. stores'[n][g] = Drained(q, sp)
    BY Zenon, <2>1, <2>2, <2>3 DEF Drained
  <2>5. sp = <<>> \/ sp = q.splits
    BY Zenon, <2>1, <2>2
  <2>6. QED
    BY ZenonT(30), <2>1, <2>4, <2>5, DrainedStore
<1>4. DOMAIN stores' = Nodes /\ \A n \in Nodes : stores'[n] \in [GroupsOf(n) -> Stores]
  <2>1. DOMAIN stores' = Nodes /\ \A n \in Nodes : stores'[n] = [g \in GroupsOf(n) |-> stores'[n][g]]
    BY Zenon, <1>2
  <2>2. QED
    BY Zenon, <1>3, <2>1
<1>5. StoresOK'
  BY Zenon, <1>1, <1>4, SplitsParts DEF StoresOK
<1>6. PromisesOK'
  <2>1. ~stuck'
    BY Zenon, <1>1, SplitsParts DEF PromisesOK
  <2>2. \A m \in GroupedNodes : \A h \in endedGroups'[m] : stores'[m][h].noMoreSplits
    <3>1. \A m \in GroupedNodes : m \in Nodes /\ endedGroups[m] \subseteq GroupsOf(m)
      BY Zenon, SplitsParts DEF StoresOK, Nodes, GroupsOf
    <3>2. \A m \in GroupedNodes : \A h \in endedGroups[m] : stores[m][h].noMoreSplits
      BY Zenon, SplitsParts DEF PromisesOK
    <3>3. \A m \in Nodes : \A h \in GroupsOf(m) :
            stores'[m][h].noMoreSplits = stores[m][h].noMoreSplits
      BY Zenon, <1>3
    <3>4. endedGroups' = endedGroups
      BY Zenon, <1>1
    <3>5. QED
      BY Zenon, <3>1, <3>2, <3>3, <3>4
  <2>3. \A m \in Nodes : \A h \in GroupsOf(m) : stores'[m][h].splitPromises = <<>>
    BY Zenon, <1>3
  <2>4. QED
    BY Zenon, <1>1, <2>1, <2>2, <2>3 DEF PromisesOK, isRunning
<1>7. SequenceOK'
  BY Zenon, <1>1, SplitsParts DEF SequenceOK, isRunning
<1>8. HandedOutOK'
  <2>1. ASSUME NEW n \in Nodes, NEW g \in GroupsOf(n)
        PROVE  /\ IsInjective(stores'[n][g].splits)
               /\ \A s \in Range(stores'[n][g].splits) :
                    /\ handedOut'[s] = 0
                    /\ GroupOf[s] = g
                    /\ \E id \in 1..(next'[n] - 1) : SplitsOf[n][id] = s
    BY SMTT(60), <1>1, <1>3, StoreContents
  <2>2. /\ \A s \in Splits : handedOut'[s] <= 1
        /\ \A n \in Nodes : \A id \in next'[n]..Len(SplitsOf[n]) :
             handedOut'[SplitsOf[n][id]] = 0
    BY ZenonT(30), <1>1, SplitsParts DEF HandedOutOK
  <2>3. QED
    BY Zenon, <2>1, <2>2 DEF HandedOutOK
<1>9. QED
  BY Zenon, <1>5, <1>6, <1>7, <1>8, SplitsPartsNext

-----------------------------------------------------------------------------
(* All steps *)

\* Every step of the caller, of a driver or of the task keeps the invariant.
LEMMA NextInv ==
  SplitsInv /\ [Next]_vars => SplitsInv'
<1> SUFFICES ASSUME SplitsInv, [Next]_vars PROVE SplitsInv'
  BY Zenon
<1>1. CASE Start
  BY Zenon, <1>1, StartStep
<1>2. ASSUME NEW n \in Nodes, CallerStep(n) \/ ResendSplit(n)
      PROVE  SplitsInv'
  BY Zenon, <1>2, SendStep, SetMaxStep, NoMoreSplitsStep, ResendIdle, StutterStep
  DEF CallerStep
<1>3. ASSUME NEW n \in GroupedNodes, NEW g \in Groups, NoMoreSplitsForGroup(n, g)
      PROVE  SplitsInv'
  BY Zenon, <1>3, GroupEndStep
<1>4. ASSUME NEW d \in Drivers, DriverStep(d)
      PROVE  SplitsInv'
  BY Zenon, <1>4, GetSplitStep, SplitFinishedStep, RemoveStep DEF DriverStep
<1>5. CASE Finish \/ Cancel
  BY Zenon, <1>5, TerminateStep DEF Finish, Cancel
<1>6. CASE Drain
  BY Zenon, <1>6, DrainStep
<1>7. CASE UNCHANGED vars
  BY Zenon, <1>7, StutterStep
<1>8. QED
  BY Zenon, <1>1, <1>2, <1>3, <1>4, <1>5, <1>6, <1>7 DEF Next

-----------------------------------------------------------------------------
(* Finite sets *)

\* What the proofs use of finite sets and their sizes.  TaskSplitsProofs proves
\* it from the library: its theorems are not among the facts known here, which
\* keeps the obligations small.
SubsetSizes ==
  \A S : IsFiniteSet(S) =>
    /\ Cardinality(S) \in Nat
    /\ \A T \in SUBSET S :
         /\ IsFiniteSet(T)
         /\ Cardinality(T) <= Cardinality(S)
         /\ Cardinality(S) = Cardinality(T) => S = T
SmallSets ==
  /\ IsFiniteSet({}) /\ Cardinality({}) = 0
  /\ \A S : IsFiniteSet(S) => (Cardinality(S) = 0 <=> S = {})
  /\ \A x : IsFiniteSet({x}) /\ Cardinality({x}) = 1
  /\ \A S : IsFiniteSet(S) => (Cardinality(S) = 1 <=> \E x : S = {x})
OneMore ==
  \A S, x : IsFiniteSet(S) =>
    /\ IsFiniteSet(S \cup {x})
    /\ Cardinality(S \cup {x}) = IF x \in S THEN Cardinality(S) ELSE Cardinality(S) + 1
    /\ IsFiniteSet(S \ {x})
    /\ Cardinality(S \ {x}) = IF x \in S THEN Cardinality(S) - 1 ELSE Cardinality(S)
UnionSizes ==
  \A S, T : IsFiniteSet(S) /\ IsFiniteSet(T) =>
    /\ IsFiniteSet(S \cup T)
    /\ Cardinality(S \cup T) = Cardinality(S) + Cardinality(T) - Cardinality(S \cap T)
IntervalSizes ==
  \A a, b \in Int :
    /\ IsFiniteSet(a..b)
    /\ Cardinality(a..b) = IF a > b THEN 0 ELSE b - a + 1
ProductSizes ==
  \A S, T : IsFiniteSet(S) /\ IsFiniteSet(T) =>
    /\ IsFiniteSet(S \X T)
    /\ Cardinality(S \X T) = Cardinality(S) * Cardinality(T)
FunctionSizes ==
  \A S, T : \A f :
    /\ f \in Injection(S, T) /\ IsFiniteSet(T) =>
         /\ IsFiniteSet(S)
         /\ Cardinality(S) <= Cardinality(T)
         /\ Cardinality(S) = Cardinality(T) <=> f \in Surjection(S, T)
    /\ f \in Surjection(S, T) /\ IsFiniteSet(S) =>
         /\ IsFiniteSet(T)
         /\ Cardinality(T) <= Cardinality(S)
UnionsFinite ==
  \A S : IsFiniteSet(S) /\ (\A T \in S : IsFiniteSet(T)) => IsFiniteSet(UNION S)
FiniteSetFacts ==
  /\ SubsetSizes /\ SmallSets /\ OneMore /\ UnionSizes
  /\ IntervalSizes /\ ProductSizes /\ FunctionSizes /\ UnionsFinite

-----------------------------------------------------------------------------
(* How many drivers there are *)

\* The places of drivers in the pipelines of nodes N.
Slots(N) == UNION {{n} \X (1..NumDrivers[n]) : n \in N}

\* A driver is one of a group at a place of its pipeline.
LEMMA DriverParts ==
  ASSUME NEW d \in Drivers
  PROVE  /\ d = <<d[1], d[2], d[3]>>
         /\ d[1] \in AllGroups
         /\ d[2] \in Nodes
         /\ <<d[2], d[3]>> \in Slots(Nodes)
         /\ d[1] \in Groups <=> d[2] \in GroupedNodes
         /\ d[1] \in Groups <=> d[1] # Ungrouped
         /\ d[1] \in Groups => <<d[2], d[3]>> \in Slots(GroupedNodes)
<1>1. PICK n \in Nodes : d \in GroupsOf(n) \X {n} \X (1..NumDrivers[n])
  BY Zenon DEF Drivers
<1>2. d = <<d[1], d[2], d[3]>> /\ d[1] \in GroupsOf(n) /\ d[2] = n /\ d[3] \in 1..NumDrivers[n]
  BY <1>1
<1>3. <<d[2], d[3]>> \in {n} \X (1..NumDrivers[n])
  BY Zenon, <1>2
<1>4. d[1] \in Groups <=> n \in GroupedNodes
  BY Zenon, <1>2, SplitsAssumption DEF SplitsAssumption, GroupsOf
<1>5. d[1] \in Groups <=> d[1] # Ungrouped
  BY Zenon, <1>2, SplitsAssumption DEF SplitsAssumption, GroupsOf
<1>6. d[1] \in AllGroups
  BY Zenon, <1>2 DEF AllGroups, GroupsOf
<1> QED
  BY Zenon, <1>2, <1>3, <1>4, <1>5, <1>6 DEF Slots

\* A group has a driver at each place of a pipeline that runs grouped.
LEMMA SlotDriver ==
  ASSUME NEW g \in Groups, NEW x \in Slots(GroupedNodes)
  PROVE  /\ <<g, x[1], x[2]>> \in Drivers
         /\ x = <<x[1], x[2]>>
<1>1. PICK n \in GroupedNodes : x \in {n} \X (1..NumDrivers[n])
  BY Zenon DEF Slots
<1>2. x = <<x[1], x[2]>> /\ x[1] = n /\ x[2] \in 1..NumDrivers[n]
  BY <1>1
<1>3. n \in Nodes /\ g \in GroupsOf(n)
  BY Zenon DEF Nodes, GroupsOf
<1>4. <<g, x[1], x[2]>> \in GroupsOf(n) \X {n} \X (1..NumDrivers[n])
  BY Zenon, <1>2, <1>3
<1> QED
  BY Zenon, <1>2, <1>3, <1>4 DEF Drivers

\* The pipelines have finitely many places.
LEMMA SlotsFinite ==
  ASSUME FiniteSetFacts, NEW N \in SUBSET Nodes
  PROVE  IsFiniteSet(Slots(N)) /\ Cardinality(Slots(N)) \in Nat
<1> DEFINE T == {{n} \X (1..NumDrivers[n]) : n \in N}
           f == [n \in N |-> {n} \X (1..NumDrivers[n])]
<1>1. IsFiniteSet(N)
  BY Zenon, SplitsAssumption DEF FiniteSetFacts, SubsetSizes, SplitsAssumption
<1>2. f \in Surjection(N, T)
  <2>1. f \in [N -> T]
    BY Zenon
  <2>2. \A t \in T : \E n \in N : f[n] = t
    BY Zenon
  <2> QED
    BY Zenon, <2>1, <2>2 DEF Surjection
<1>3. IsFiniteSet(T)
  BY Zenon, <1>1, <1>2 DEF FiniteSetFacts, FunctionSizes
<1>4. ASSUME NEW t \in T PROVE IsFiniteSet(t)
  <2>1. PICK n \in N : t = {n} \X (1..NumDrivers[n])
    BY Zenon
  <2>2. IsFiniteSet(1..NumDrivers[n]) /\ IsFiniteSet({n})
    <3>1. 1 \in Int /\ NumDrivers[n] \in Int
      BY SplitsAssumption DEF SplitsAssumption
    <3> QED
      BY Zenon, <3>1 DEF FiniteSetFacts, IntervalSizes, SmallSets
  <2>3. IsFiniteSet({n} \X (1..NumDrivers[n]))
    BY Zenon, <2>2 DEF FiniteSetFacts, ProductSizes
  <2> QED
    BY Zenon, <2>1, <2>3
<1>5. IsFiniteSet(UNION T)
  BY Zenon, <1>3, <1>4 DEF FiniteSetFacts, UnionsFinite
<1> QED
  BY Zenon, <1>5 DEF FiniteSetFacts, SubsetSizes, Slots

\* There are finitely many drivers.
LEMMA DriversFinite ==
  ASSUME FiniteSetFacts
  PROVE  IsFiniteSet(Drivers) /\ \A S \in SUBSET Drivers : IsFiniteSet(S) /\ Cardinality(S) \in Nat
<1> DEFINE f == [d \in Drivers |-> <<d[1], <<d[2], d[3]>> >>]
<1>1. f \in Injection(Drivers, AllGroups \X Slots(Nodes))
  <2>1. f \in [Drivers -> AllGroups \X Slots(Nodes)]
    BY Zenon, DriverParts
  <2>2. ASSUME NEW d \in Drivers, NEW e \in Drivers, f[d] = f[e]
        PROVE  d = e
    <3>1. d[1] = e[1] /\ d[2] = e[2] /\ d[3] = e[3]
      BY Zenon, <2>2
    <3>2. d = <<d[1], d[2], d[3]>> /\ e = <<e[1], e[2], e[3]>>
      BY Zenon, DriverParts
    <3> QED
      BY Zenon, <3>1, <3>2
  <2> QED
    BY Zenon, <2>1, <2>2 DEF Injection, IsInjective
<1>2. IsFiniteSet(AllGroups)
  BY Zenon, SplitsAssumption
  DEF FiniteSetFacts, OneMore, SplitsAssumption, AllGroups
<1>3. IsFiniteSet(AllGroups \X Slots(Nodes))
  <2>1. IsFiniteSet(Slots(Nodes))
    BY Zenon, SlotsFinite
  <2> QED
    BY Zenon, <1>2, <2>1 DEF FiniteSetFacts, ProductSizes
<1>4. IsFiniteSet(Drivers)
  BY Zenon, <1>1, <1>3 DEF FiniteSetFacts, FunctionSizes
<1> QED
  BY Zenon, <1>4 DEF FiniteSetFacts, SubsetSizes

\* Groups S have as many drivers as places in the pipelines that run grouped,
\* for each of them.
LEMMA DriversOfGroups ==
  ASSUME FiniteSetFacts, NEW S \in SUBSET Groups
  PROVE  /\ Cardinality({d \in Drivers : d[1] \in S}) = Cardinality(S) * NumDriversPerSplitGroup
         /\ IsFiniteSet(S) /\ Cardinality(S) \in Nat
<1> DEFINE D == {d \in Drivers : d[1] \in S}
           T == S \X Slots(GroupedNodes)
           f == [d \in D |-> <<d[1], <<d[2], d[3]>> >>]
<1>1. IsFiniteSet(S) /\ Cardinality(S) \in Nat
  BY Zenon, SplitsAssumption DEF FiniteSetFacts, SubsetSizes, SplitsAssumption
<1>2. IsFiniteSet(Slots(GroupedNodes)) /\ Cardinality(Slots(GroupedNodes)) = NumDriversPerSplitGroup
  BY Zenon, SlotsFinite DEF Nodes, NumDriversPerSplitGroup, Slots
<1>3. Cardinality(T) = Cardinality(S) * NumDriversPerSplitGroup /\ IsFiniteSet(T)
  BY Zenon, <1>1, <1>2 DEF FiniteSetFacts, ProductSizes
<1>4. f \in [D -> T]
  <2>1. ASSUME NEW d \in D PROVE <<d[1], <<d[2], d[3]>> >> \in T
    BY Zenon, DriverParts
  <2> QED
    BY Zenon, <2>1
<1>5. ASSUME NEW d \in D, NEW e \in D, f[d] = f[e]
      PROVE  d = e
  <2>1. d[1] = e[1] /\ d[2] = e[2] /\ d[3] = e[3]
    BY Zenon, <1>5
  <2>2. d = <<d[1], d[2], d[3]>> /\ e = <<e[1], e[2], e[3]>>
    BY Zenon, DriverParts
  <2> QED
    BY Zenon, <2>1, <2>2
<1>6. ASSUME NEW t \in T
      PROVE  \E d \in D : f[d] = t
  <2>1. t[1] \in S /\ t[2] \in Slots(GroupedNodes) /\ t = <<t[1], t[2]>>
    OBVIOUS
  <2>2. PICK g \in S, x \in Slots(GroupedNodes) : t = <<g, x>>
    BY Zenon, <2>1
  <2>3. <<g, x[1], x[2]>> \in Drivers /\ x = <<x[1], x[2]>>
    BY Zenon, SlotDriver
  <2>4. PICK d \in Drivers : d = <<g, x[1], x[2]>>
    BY Zenon, <2>3
  <2>5. d \in D
    BY Zenon, <2>4
  <2>6. f[d] = <<g, <<x[1], x[2]>> >>
    BY Zenon, <2>4, <2>5
  <2> QED
    BY Zenon, <2>2, <2>3, <2>5, <2>6
<1>7. f \in Injection(D, T) /\ f \in Surjection(D, T)
  BY Zenon, <1>4, <1>5, <1>6 DEF Injection, Surjection, IsInjective
<1>8. Cardinality(D) = Cardinality(T)
  BY Zenon, <1>3, <1>7 DEF FiniteSetFacts, FunctionSizes
<1> QED
  BY Zenon, <1>1, <1>3, <1>8

\* Each group has NumDriversPerSplitGroup drivers, at least one.
LEMMA DriversOfGroup ==
  ASSUME FiniteSetFacts, NEW g \in Groups
  PROVE  Cardinality(DriversOf(g)) = NumDriversPerSplitGroup /\ DriversOf(g) # {}
<1>1. {d \in Drivers : d[1] \in {g}} = DriversOf(g)
  BY Zenon DEF DriversOf
<1>2. Cardinality({g}) = 1
  BY Zenon DEF FiniteSetFacts, SmallSets
<1>3. NumDriversPerSplitGroup \in Nat
  BY Zenon, SlotsFinite DEF Nodes, NumDriversPerSplitGroup, Slots
<1>4. Cardinality(DriversOf(g)) = Cardinality({g}) * NumDriversPerSplitGroup
  BY Zenon, <1>1, DriversOfGroups
<1>5. PICK n \in GroupedNodes : TRUE
  BY Zenon, SplitsAssumption DEF SplitsAssumption
<1>6. <<n, 1>> \in Slots(GroupedNodes)
  <2>1. NumDrivers[n] \in Nat \ {0}
    BY Zenon, SplitsAssumption DEF SplitsAssumption, Nodes
  <2>2. 1 \in 1..NumDrivers[n]
    BY <2>1
  <2>3. <<n, 1>> \in {n} \X (1..NumDrivers[n])
    BY Zenon, <2>2
  <2> QED
    BY Zenon, <2>3 DEF Slots
<1>7. PICK x \in Slots(GroupedNodes) : x = <<n, 1>>
  BY Zenon, <1>6
<1>8. <<g, x[1], x[2]>> \in Drivers
  BY Zenon, SlotDriver
<1>9. <<g, x[1], x[2]>> \in DriversOf(g)
  BY Zenon, <1>8 DEF DriversOf
<1> QED
  BY <1>2, <1>3, <1>4, <1>9

-----------------------------------------------------------------------------
(* Creating the drivers of groups *)

\* The first n elements of a sequence.
FirstOf(q, n) == {q[i] : i \in 1..n}

\* B has the first n elements of q, and r is the rest of it.
Divides(S, q, n, r, B) ==
  /\ r \in Seq(S)
  /\ IsInjective(r)
  /\ B \subseteq Range(q)
  /\ Range(r) = Range(q) \ B
  /\ IsFiniteSet(B)
  /\ Cardinality(B) = n

\* The rest of a sequence without repetitions, and the part before it.
LEMMA QueueSplit ==
  ASSUME FiniteSetFacts,
         NEW S, NEW q \in Seq(S), IsInjective(q), NEW n \in Nat, n <= Len(q), NEW r,
         r = SubSeq(q, n + 1, Len(q)), NEW B, B = FirstOf(q, n)
  PROVE  Divides(S, q, n, r, B)
<1>1. /\ r \in Seq(S)
      /\ DOMAIN r = 1..(Len(q) - n)
      /\ \A i \in 1..(Len(q) - n) : r[i] = q[i + n]
      /\ DOMAIN q = 1..Len(q)
      /\ Len(q) \in Nat
  OBVIOUS
<1>2. \A i, j \in 1..Len(q) : q[i] = q[j] => i = j
  BY Zenon, <1>1 DEF IsInjective
<1>3. IsInjective(r)
  <2>1. ASSUME NEW i \in DOMAIN r, NEW j \in DOMAIN r, r[i] = r[j]
        PROVE  i = j
    <3>1. i \in 1..(Len(q) - n) /\ j \in 1..(Len(q) - n)
      BY Zenon, <1>1
    <3>2. i + n \in 1..Len(q) /\ j + n \in 1..Len(q) /\ q[i + n] = q[j + n]
      BY SMTT(30), <1>1, <2>1, <3>1
    <3>3. i + n = j + n
      BY Zenon, <1>2, <3>2
    <3> QED
      BY <3>1, <3>3
  <2> QED
    BY Zenon, <2>1 DEF IsInjective
<1>4. B \subseteq Range(q)
  BY <1>1 DEF Range, FirstOf
<1>5. ASSUME NEW e \in Range(r) PROVE e \in Range(q) /\ e \notin B
  <2>1. PICK i \in 1..(Len(q) - n) : e = r[i]
    BY Zenon, <1>1 DEF Range
  <2>2. i + n \in 1..Len(q) /\ e = q[i + n]
    BY <1>1, <2>1
  <2>3. \A j \in 1..n : q[j] # e
    <3>1. ASSUME NEW j \in 1..n, q[j] = e PROVE FALSE
      <4>1. j \in 1..Len(q)
        BY <1>1
      <4>2. j = i + n
        BY Zenon, <1>2, <2>2, <3>1, <4>1
      <4> QED
        BY <2>1, <4>2
    <3> QED
      BY Zenon, <3>1
  <2> QED
    BY Zenon, <1>1, <2>2, <2>3 DEF Range, FirstOf
<1>6. ASSUME NEW e \in Range(q), e \notin B PROVE e \in Range(r)
  <2>1. PICK i \in 1..Len(q) : e = q[i]
    BY Zenon, <1>1 DEF Range
  <2>2. i \notin 1..n
    BY Zenon, <1>6, <2>1 DEF FirstOf
  <2>3. i - n \in 1..(Len(q) - n) /\ (i - n) + n = i
    BY <1>1, <2>1, <2>2
  <2>4. r[i - n] = q[(i - n) + n]
    BY Zenon, <1>1, <2>3
  <2> QED
    BY Zenon, <1>1, <2>1, <2>3, <2>4 DEF Range
<1>7. IsFiniteSet(B) /\ Cardinality(B) = n
  <2> DEFINE f == [i \in 1..n |-> q[i]]
  <2>1. f \in Surjection(1..n, B)
    BY Zenon DEF Surjection, FirstOf
  <2>2. f \in Injection(1..n, B)
    <3>1. \A i \in 1..n : i \in 1..Len(q)
      BY <1>1
    <3> QED
      BY Zenon, <1>2, <3>1 DEF Injection, IsInjective, FirstOf
  <2>3. IsFiniteSet(1..n) /\ Cardinality(1..n) = n
    <3>1. IsFiniteSet(1..n) /\ Cardinality(1..n) = IF 1 > n THEN 0 ELSE n - 1 + 1
      BY DEF FiniteSetFacts, IntervalSizes
    <3> QED
      BY <3>1
  <2> HIDE DEF f
  <2> QED
    BY Zenon, <2>1, <2>2, <2>3 DEF FiniteSetFacts, FunctionSizes
<1> QED
  BY Zenon, <1>1, <1>3, <1>4, <1>5, <1>6, <1>7 DEF Divides

\* Groups B leave the queue and get their drivers, of which counts and ds are
\* what was known before.
Begins(B, queued, running, counts, ds) ==
  /\ B \subseteq Range(queued)
  /\ IsFiniteSet(B)
  /\ queuedSplitGroups' \in Seq(Groups)
  /\ IsInjective(queuedSplitGroups')
  /\ Range(queuedSplitGroups') = Range(queued) \ B
  /\ numRunningSplitGroups' = running + Cardinality(B)
  /\ numRunningSplitGroups' <= ConcurrentSplitGroups
  /\ groupDrivers' = [g \in AllGroups |->
                        IF g \in B THEN NumDriversPerSplitGroup ELSE counts[g]]
  /\ dState' = [d \in Drivers |-> IF d[1] \in B THEN "run" ELSE ds[d]]

\* Task::ensureSplitGroupsAreBeingProcessedLocked begins queued groups, up to
\* the limit.
LEMMA EnsureBegins ==
  ASSUME FiniteSetFacts,
         NEW h, NEW queued \in Seq(Groups), IsInjective(queued), NEW running \in Int,
         isRunning, running <= ConcurrentSplitGroups, NEW counts, NEW ds,
         EnsureSplitGroupsAreBeingProcessed(h, queued, running, counts, ds)
  PROVE  \E B : Begins(B, queued, running, counts, ds)
<1> DEFINE free == ConcurrentSplitGroups - running
           n == IF ~(h /\ isRunning) THEN 0
                ELSE IF free < Len(queued) THEN free ELSE Len(queued)
           B == {queued[i] : i \in 1..n}
<1>1. /\ queuedSplitGroups' = SubSeq(queued, n + 1, Len(queued))
      /\ numRunningSplitGroups' = running + n
      /\ groupDrivers' = [g \in AllGroups |->
                            IF g \in B THEN NumDriversPerSplitGroup ELSE counts[g]]
      /\ dState' = [d \in Drivers |-> IF d[1] \in B THEN "run" ELSE ds[d]]
  BY Zenon DEF EnsureSplitGroupsAreBeingProcessed, FreeGroupSlots
<1>2. /\ n \in Nat
      /\ n <= Len(queued)
      /\ running + n <= ConcurrentSplitGroups
  BY SplitsAssumption DEF SplitsAssumption
<1> HIDE DEF n
<1>3. PICK b : b = B
  BY Zenon
<1> HIDE DEF B
<1>4. /\ queuedSplitGroups' \in Seq(Groups)
      /\ IsInjective(queuedSplitGroups')
      /\ b \subseteq Range(queued)
      /\ Range(queuedSplitGroups') = Range(queued) \ b
      /\ IsFiniteSet(b)
      /\ Cardinality(b) = n
  <2>1. b = FirstOf(queued, n)
    BY Zenon, <1>3 DEF B, FirstOf
  <2>2. queuedSplitGroups' = SubSeq(queued, n + 1, Len(queued)) /\ n \in Nat /\ n <= Len(queued)
    BY Zenon, <1>1, <1>2
  <2>3. PICK r : r = queuedSplitGroups'
    BY Zenon
  <2>4. n \in Nat /\ n <= Len(queued) /\ r = SubSeq(queued, n + 1, Len(queued))
    BY Zenon, <2>2, <2>3
  <2>5. Divides(Groups, queued, n, r, b)
    BY Zenon, <2>1, <2>4, QueueSplit
  <2> QED
    BY Zenon, <2>3, <2>5 DEF Divides
<1>6. Begins(b, queued, running, counts, ds)
  <2>1. numRunningSplitGroups' = running + Cardinality(b) /\ numRunningSplitGroups' <= ConcurrentSplitGroups
    BY Zenon, <1>1, <1>2, <1>4
  <2>2. /\ groupDrivers' = [g \in AllGroups |->
                            IF g \in b THEN NumDriversPerSplitGroup ELSE counts[g]]
        /\ dState' = [d \in Drivers |-> IF d[1] \in b THEN "run" ELSE ds[d]]
    BY Zenon, <1>1, <1>3
  <2> QED
    BY Zenon, <1>4, <2>1, <2>2 DEF Begins
<1> QED
  BY Zenon, <1>6

\* After the end of the task no group begins.
LEMMA EnsureIdle ==
  ASSUME NEW h, NEW queued \in Seq(Groups), NEW running, NEW counts, NEW ds, ~isRunning,
         EnsureSplitGroupsAreBeingProcessed(h, queued, running, counts, ds)
  PROVE  queuedSplitGroups' = queued /\ \A d \in Drivers : dState'[d] = ds[d]
<1>1. PICK n : /\ n = 0
               /\ queuedSplitGroups' = SubSeq(queued, n + 1, Len(queued))
               /\ dState' = [d \in Drivers |->
                               IF d[1] \in {queued[i] : i \in 1..n} THEN "run" ELSE ds[d]]
  BY Zenon DEF EnsureSplitGroupsAreBeingProcessed
<1>2. {queued[i] : i \in 1..n} = {}
  BY <1>1
<1>3. dState' = [d \in Drivers |-> ds[d]]
  BY Zenon, <1>1, <1>2
<1>4. queuedSplitGroups' = SubSeq(queued, 1, Len(queued))
  BY <1>1
<1> QED
  BY <1>3, <1>4

-----------------------------------------------------------------------------
(* What begins and what ends *)

\* Drivers C are closed, the drivers of groups B are created, and nobody else
\* begins or ends.
Turns(C, B) ==
  /\ C \subseteq Live
  /\ B \subseteq AllGroups
  /\ \A d \in Drivers : d[1] \in B => dState[d] = "none" /\ dState'[d] = "run"
  /\ \A d \in C : dState'[d] = "closed"
  /\ \A d \in Drivers : d[1] \notin B /\ d \notin C =>
       /\ dState'[d] = "none" <=> dState[d] = "none"
       /\ dState'[d] = "closed" <=> dState[d] = "closed"

\* The drivers at work and those that are through, after such a step.
LEMMA TurnSets ==
  ASSUME NEW C, NEW B, Turns(C, B)
  PROVE  /\ Live' = (Live \ C) \cup {d \in Drivers : d[1] \in B}
         /\ Closed' = Closed \cup C
         /\ Closed \cap C = {}
         /\ \A g \in B : LiveOf(g) = {} /\ LiveOf(g)' = DriversOf(g)
         /\ \A g : g \notin B => LiveOf(g)' = LiveOf(g) \ C
<1>1. Live' = (Live \ C) \cup {d \in Drivers : d[1] \in B}
  BY Zenon DEF Turns, Live
<1>2. Closed' = Closed \cup C
  BY Zenon DEF Turns, Live, Closed
<1>3. Closed \cap C = {}
  BY Zenon DEF Turns, Live, Closed
<1>4. \A g \in B : LiveOf(g) = {}
  BY Zenon DEF Turns, Live, LiveOf
<1>5. \A g \in B : LiveOf(g)' = DriversOf(g)
  BY Zenon, <1>1, <1>4 DEF LiveOf, DriversOf, Live
<1>6. \A g : g \notin B => LiveOf(g)' = LiveOf(g) \ C
  BY Zenon, <1>1 DEF LiveOf
<1> QED
  BY Zenon, <1>1, <1>2, <1>3, <1>4, <1>5, <1>6

\* Sets of drivers at work are finite.
LEMMA LiveFinite ==
  ASSUME FiniteSetFacts
  PROVE  /\ IsFiniteSet(Closed) /\ Cardinality(Closed) \in Nat
         /\ IsFiniteSet(RunningGroups) /\ Cardinality(RunningGroups) \in Nat
         /\ \A g : IsFiniteSet(LiveOf(g)) /\ Cardinality(LiveOf(g)) \in Nat
<1>1. Closed \subseteq Drivers /\ \A g : LiveOf(g) \subseteq Drivers
  BY Zenon DEF Closed, LiveOf, Live
<1>2. IsFiniteSet(RunningGroups) /\ Cardinality(RunningGroups) \in Nat
  <2>1. RunningGroups \in SUBSET Groups
    BY Zenon DEF RunningGroups
  <2> QED
    BY Zenon, <2>1, SplitsAssumption
    DEF FiniteSetFacts, SubsetSizes, SplitsAssumption
<1> QED
  BY Zenon, <1>1, <1>2, DriversFinite

\* Which groups have drivers, after such a step.
LEMMA TurnGroups ==
  ASSUME FiniteSetFacts, NEW C, NEW B, Turns(C, B)
  PROVE  /\ RunningGroups' = {g \in RunningGroups : ~(LiveOf(g) \subseteq C)} \cup (B \cap Groups)
         /\ RunningGroups \cap B = {}
<1>1. ASSUME NEW g \in Groups
      PROVE  LiveOf(g)' # {} <=> (LiveOf(g) # {} /\ ~(LiveOf(g) \subseteq C)) \/ g \in B
  <2>1. CASE g \in B
    BY <2>1, TurnSets, DriversOfGroup
  <2>2. CASE g \notin B
    <3>1. LiveOf(g)' = LiveOf(g) \ C
      BY Zenon, <2>2, TurnSets
    <3> QED
      BY Zenon, <2>2, <3>1
  <2> QED
    BY Zenon, <2>1, <2>2
<1>2. RunningGroups' = {g \in Groups : LiveOf(g)' # {}}
  BY Zenon DEF RunningGroups
<1>3. RunningGroups \cap B = {}
  BY TurnSets DEF RunningGroups
<1> QED
  BY Zenon, <1>1, <1>2, <1>3 DEF RunningGroups

\* The counters after groups have begun.
LEMMA CountBegun ==
  ASSUME FiniteSetFacts, CountsOK, isRunning, NEW B, Turns({}, B), IsFiniteSet(B),
         \A g \in AllGroups : groupDrivers'[g] =
           IF g \in B THEN Cardinality(DriversOf(g)) ELSE groupDrivers[g],
         numRunningSplitGroups' = numRunningSplitGroups + Cardinality(B \cap Groups),
         numRunningSplitGroups' <= ConcurrentSplitGroups,
         numFinishedDrivers' = numFinishedDrivers
  PROVE  CountsOK'
<1>1. ASSUME NEW g \in AllGroups PROVE groupDrivers'[g] = Cardinality(LiveOf(g)')
  <2>1. CASE g \in B
    BY Zenon, <2>1, TurnSets
  <2>2. CASE g \notin B
    <3>0. LiveOf(g)' = LiveOf(g) \ {}
      BY Zenon, <2>2, TurnSets
    <3>1. LiveOf(g)' = LiveOf(g)
      BY Zenon, <3>0
    <3> QED
      BY Zenon, <2>2, <3>1 DEF CountsOK
  <2> QED
    BY Zenon, <2>1, <2>2
<1>2. RunningGroups' = RunningGroups \cup (B \cap Groups) /\ RunningGroups \cap (B \cap Groups) = {}
  <2>1. /\ RunningGroups' = {g \in RunningGroups : ~(LiveOf(g) \subseteq {})} \cup (B \cap Groups)
        /\ RunningGroups \cap B = {}
    BY Zenon, TurnGroups
  <2>2. \A g \in RunningGroups : ~(LiveOf(g) \subseteq {})
    BY Zenon DEF RunningGroups
  <2> QED
    BY Zenon, <2>1, <2>2
<1>3. Cardinality(RunningGroups') = Cardinality(RunningGroups) + Cardinality(B \cap Groups)
  <2>1. IsFiniteSet(B \cap Groups) /\ IsFiniteSet(RunningGroups)
    <3>1. B \cap Groups \in SUBSET B
      BY Zenon
    <3> QED
      BY Zenon, <3>1, LiveFinite DEF FiniteSetFacts, SubsetSizes
  <2>2. Cardinality(B \cap Groups) \in Nat /\ Cardinality(RunningGroups) \in Nat
    BY Zenon, <2>1 DEF FiniteSetFacts, SubsetSizes
  <2>3. Cardinality(RunningGroups') = Cardinality(RunningGroups) + Cardinality(B \cap Groups) - Cardinality({})
    BY <1>2, <2>1 DEF FiniteSetFacts, UnionSizes
  <2> QED
    BY <2>2, <2>3 DEF FiniteSetFacts, SmallSets
<1>4. Closed' = Closed
  <2>1. Closed' = Closed \cup {}
    BY Zenon, TurnSets
  <2> QED
    BY Zenon, <2>1
<1>5. /\ numRunningSplitGroups = Cardinality(RunningGroups)
      /\ numFinishedDrivers = Cardinality(Closed)
  BY Zenon DEF CountsOK
<1> QED
  BY Zenon, <1>1, <1>3, <1>4, <1>5 DEF CountsOK

\* The counters after driver d is closed and groups have begun; the group of d
\* is over when it was the last.
LEMMA CountClosed ==
  ASSUME FiniteSetFacts,
         CountsOK, isRunning, NEW d \in Live, d[1] \in AllGroups, NEW B, Turns({d}, B),
         B \subseteq Groups, IsFiniteSet(B),
         \A g \in AllGroups : groupDrivers'[g] =
           IF g \in B THEN NumDriversPerSplitGroup
           ELSE IF g = d[1] THEN groupDrivers[g] - 1 ELSE groupDrivers[g],
         NEW gone \in {0, 1}, gone = 1 <=> groupDrivers[d[1]] = 1 /\ d[1] # Ungrouped,
         numRunningSplitGroups' = numRunningSplitGroups - gone + Cardinality(B),
         numRunningSplitGroups' <= ConcurrentSplitGroups,
         numFinishedDrivers' = numFinishedDrivers + 1
  PROVE  CountsOK'
<1>1. d \in LiveOf(d[1]) /\ d[1] \notin B
  <2>1. d \in LiveOf(d[1])
    BY Zenon DEF LiveOf
  <2> QED
    BY <2>1, TurnSets
<1>2. groupDrivers[d[1]] = Cardinality(LiveOf(d[1])) /\ IsFiniteSet(LiveOf(d[1])) /\ Cardinality(LiveOf(d[1])) \in Nat
  BY Zenon, LiveFinite DEF CountsOK
<1>3. ASSUME NEW g \in AllGroups PROVE groupDrivers'[g] = Cardinality(LiveOf(g)')
  <2>1. CASE g \in B
    BY <2>1, TurnSets, DriversOfGroup
  <2>2. CASE g = d[1]
    <3>1. LiveOf(g)' = LiveOf(g) \ {d}
      BY Zenon, <1>1, <2>2, TurnSets
    <3>2. Cardinality(LiveOf(g) \ {d}) = Cardinality(LiveOf(g)) - 1
      BY Zenon, <1>1, <1>2, <2>2 DEF FiniteSetFacts, OneMore
    <3> QED
      BY Zenon, <1>1, <1>2, <2>2, <3>1, <3>2
  <2>3. CASE g \notin B /\ g # d[1]
    <3>1. LiveOf(g)' = LiveOf(g) \ {d}
      BY Zenon, <2>3, TurnSets
    <3>2. d \notin LiveOf(g)
      BY Zenon, <2>3 DEF LiveOf
    <3>3. LiveOf(g)' = LiveOf(g)
      BY Zenon, <3>1, <3>2
    <3> QED
      BY Zenon, <2>3, <3>3 DEF CountsOK
  <2> QED
    BY Zenon, <2>1, <2>2, <2>3
<1>4. gone = 1 <=> LiveOf(d[1]) = {d} /\ d[1] # Ungrouped
  <2>1. Cardinality(LiveOf(d[1])) = 1 <=> \E x : LiveOf(d[1]) = {x}
    BY Zenon, <1>2 DEF FiniteSetFacts, SmallSets
  <2>2. (\E x : LiveOf(d[1]) = {x}) <=> LiveOf(d[1]) = {d}
    BY Zenon, <1>1
  <2> QED
    BY Zenon, <1>2, <2>1, <2>2
<1>5. \A g \in RunningGroups : LiveOf(g) \subseteq {d} <=> (g = d[1] /\ gone = 1)
  <2>1. ASSUME NEW g \in RunningGroups, g # d[1] PROVE ~(LiveOf(g) \subseteq {d})
    BY Zenon, <2>1 DEF RunningGroups, LiveOf
  <2>2. ASSUME d[1] \in RunningGroups PROVE LiveOf(d[1]) \subseteq {d} <=> gone = 1
    <3>1. d[1] # Ungrouped
      BY Zenon, <2>2, SplitsAssumption DEF RunningGroups, SplitsAssumption
    <3> QED
      BY Zenon, <1>1, <1>4, <3>1
  <2> QED
    BY Zenon, <2>1, <2>2
<1>6. PICK R : R = {g \in RunningGroups : ~(LiveOf(g) \subseteq {d})}
  BY Zenon
<1>7. IsFiniteSet(R) /\ Cardinality(R) = Cardinality(RunningGroups) - gone /\ Cardinality(R) \in Nat
  <2>1. CASE gone = 1
    <3>1. d[1] \in RunningGroups
      BY Zenon, <1>1, <1>4, <2>1 DEF RunningGroups, AllGroups
    <3>2. R = RunningGroups \ {d[1]}
      BY Zenon, <1>5, <1>6, <2>1
    <3> QED
      BY Zenon, <2>1, <3>1, <3>2, LiveFinite
      DEF FiniteSetFacts, OneMore, SubsetSizes
  <2>2. CASE gone = 0
    <3>1. R = RunningGroups
      BY <1>5, <1>6, <2>2
    <3> QED
      BY <2>2, <3>1, LiveFinite
  <2> QED
    BY Zenon, <2>1, <2>2
<1>8. RunningGroups' = R \cup B /\ R \cap B = {}
  <2>1. /\ RunningGroups' = R \cup (B \cap Groups)
        /\ RunningGroups \cap B = {}
    BY Zenon, <1>6, TurnGroups
  <2> QED
    BY Zenon, <1>6, <2>1
<1>9. Cardinality(RunningGroups') = Cardinality(R) + Cardinality(B)
  <2>1. Cardinality(R \cup B) = Cardinality(R) + Cardinality(B) - Cardinality(R \cap B)
    BY Zenon, <1>7 DEF FiniteSetFacts, UnionSizes
  <2>2. Cardinality(B) \in Nat /\ Cardinality(R \cap B) = 0
    BY Zenon, <1>8 DEF FiniteSetFacts, SmallSets, SubsetSizes
  <2> QED
    BY <1>7, <1>8, <2>1, <2>2
<1>10. Cardinality(Closed') = Cardinality(Closed) + 1
  <2>1. Closed' = Closed \cup {d} /\ d \notin Closed
    BY TurnSets
  <2> QED
    BY Zenon, <2>1, LiveFinite DEF FiniteSetFacts, OneMore
<1>11. /\ numRunningSplitGroups = Cardinality(RunningGroups)
       /\ numFinishedDrivers = Cardinality(Closed)
       /\ Cardinality(RunningGroups) \in Nat
  BY Zenon, LiveFinite DEF CountsOK
<1>12. numRunningSplitGroups' = Cardinality(RunningGroups')
  BY Zenon, <1>7, <1>9, <1>11
<1> QED
  BY Zenon, <1>3, <1>10, <1>11, <1>12 DEF CountsOK

-----------------------------------------------------------------------------
(* Groups and counters, step by step *)

\* Drivers exist as soon as their group has begun.
LEMMA GroupsTurn ==
  ASSUME GroupsOK, NEW C, NEW B, Turns(C, B), started' \in BOOLEAN,
         seenSplitGroups' \subseteq Groups, queuedSplitGroups' \in Seq(Groups),
         IsInjective(queuedSplitGroups'), Range(queuedSplitGroups') \subseteq seenSplitGroups',
         \A g \in AllGroups : Begun(g)' <=> Begun(g) \/ g \in B,
         DOMAIN groupDrivers' = AllGroups,
         ~started' => state' = "kRunning" /\ noMoreSplits' = {} /\ ~mustFinish'
  PROVE  GroupsOK'
<1>1. ASSUME NEW d \in Drivers PROVE dState'[d] = "none" <=> ~Begun(d[1])'
  <2>1. d[1] \in AllGroups
    BY Zenon, DriverParts
  <2>2. dState[d] = "none" <=> ~Begun(d[1])
    BY Zenon DEF GroupsOK
  <2>3. CASE d[1] \in B
    BY Zenon, <2>1, <2>3 DEF Turns
  <2>4. CASE d[1] \notin B /\ d \in C
    <3>1. dState'[d] = "closed" /\ dState[d] # "none"
      BY Zenon, <2>4 DEF Turns, Live
    <3> QED
      BY Zenon, <2>1, <2>2, <3>1
  <2>5. CASE d[1] \notin B /\ d \notin C
    <3>1. dState'[d] = "none" <=> dState[d] = "none"
      BY Zenon, <2>5 DEF Turns
    <3> QED
      BY Zenon, <2>1, <2>2, <2>5, <3>1
  <2> QED
    BY Zenon, <2>3, <2>4, <2>5
<1> QED
  BY Zenon, <1>1 DEF GroupsOK, isRunning

\* A step in which no driver begins or ends.
LEMMA StillGroups ==
  ASSUME FiniteSetFacts, GroupsOK, CountsOK, Turns({}, {}),
         UNCHANGED <<started, state, seenSplitGroups, queuedSplitGroups,
                     numRunningSplitGroups, groupDrivers, numFinishedDrivers>>,
         started \/ UNCHANGED <<noMoreSplits, mustFinish>>
  PROVE  GroupsOK' /\ CountsOK'
<1>1. GroupsOK'
  <2>1. \A g \in AllGroups : Begun(g)' <=> Begun(g) \/ g \in {}
    BY Zenon DEF Begun
  <2>2. /\ started' \in BOOLEAN
        /\ seenSplitGroups' \subseteq Groups
        /\ queuedSplitGroups' \in Seq(Groups)
        /\ IsInjective(queuedSplitGroups')
        /\ Range(queuedSplitGroups') \subseteq seenSplitGroups'
        /\ DOMAIN groupDrivers' = AllGroups
    BY Zenon DEF GroupsOK
  <2>3. ~started' => state' = "kRunning" /\ noMoreSplits' = {} /\ ~mustFinish'
    BY Zenon DEF GroupsOK, isRunning
  <2> QED
    BY ZenonT(30), <2>1, <2>2, <2>3, GroupsTurn
<1>2. CountsOK'
  <2>1. CASE isRunning
    <3>1. IsFiniteSet({}) /\ Cardinality({} \cap Groups) = 0
      <4>1. {} \cap Groups = {}
        BY Zenon
      <4> QED
        BY Zenon, <4>1 DEF FiniteSetFacts, SmallSets
    <3>2. numRunningSplitGroups \in Nat /\ numRunningSplitGroups <= ConcurrentSplitGroups
      BY Zenon, <2>1, LiveFinite DEF CountsOK
    <3>3. numRunningSplitGroups' = numRunningSplitGroups + Cardinality({} \cap Groups)
      BY <3>1, <3>2
    <3>4. \A g \in AllGroups : groupDrivers'[g] =
            IF g \in {} THEN Cardinality(DriversOf(g)) ELSE groupDrivers[g]
      BY Zenon
    <3>5. numRunningSplitGroups' <= ConcurrentSplitGroups /\ numFinishedDrivers' = numFinishedDrivers
      BY Zenon, <3>2
    <3> QED
      BY Zenon, <2>1, <3>1, <3>3, <3>4, <3>5, CountBegun
  <2>2. CASE ~isRunning
    BY Zenon, <2>2 DEF CountsOK, isRunning
  <2> QED
    BY Zenon, <2>1, <2>2
<1> QED
  BY Zenon, <1>1, <1>2

\* The drivers of C are closed, others are created, and the rest goes on.
OnlyBegins(C) ==
  \A d \in Drivers :
    IF d \in C THEN dState'[d] = "closed"
    ELSE dState'[d] = dState[d] \/ (dState[d] = "none" /\ dState'[d] = "run")

\* Task::start.
LEMMA StartGroups ==
  ASSUME FiniteSetFacts, SplitsInv, GroupsOK, CountsOK, TotalOK, Start
  PROVE  GroupsOK' /\ CountsOK' /\ TotalOK' /\ OnlyBegins({})
<1> DEFINE counts == [groupDrivers EXCEPT ![Ungrouped] = NumDriversUngrouped]
           ds == [d \in Drivers |-> IF d[1] = Ungrouped THEN "run" ELSE dState[d]]
<1>1. /\ ~started
      /\ started' = TRUE
      /\ numTotalDrivers' = numTotalDrivers
           + NumDriversPerSplitGroup * NumSplitGroups + NumDriversUngrouped
      /\ EnsureSplitGroupsAreBeingProcessed(
           TRUE, queuedSplitGroups, numRunningSplitGroups, counts, ds)
      /\ UNCHANGED <<seenSplitGroups, noMoreSplits, numFinishedDrivers, state, mustFinish>>
  BY Zenon DEF Start, splitVars, endVars
<1>2. /\ isRunning
      /\ noMoreSplits = {}
      /\ queuedSplitGroups \in Seq(Groups)
      /\ IsInjective(queuedSplitGroups)
      /\ Range(queuedSplitGroups) \subseteq seenSplitGroups
      /\ seenSplitGroups \subseteq Groups
      /\ DOMAIN groupDrivers = AllGroups
      /\ \A d \in Drivers : dState[d] = "none" <=> ~Begun(d[1])
  BY Zenon, <1>1 DEF GroupsOK
<1>3. numRunningSplitGroups \in Int /\ numRunningSplitGroups <= ConcurrentSplitGroups
  BY <1>2, LiveFinite DEF CountsOK
<1> HIDE DEF counts, ds
<1>4. PICK B : Begins(B, queuedSplitGroups, numRunningSplitGroups, counts, ds)
  BY Zenon, <1>1, <1>2, <1>3, EnsureBegins
<1>5. /\ B \subseteq Range(queuedSplitGroups)
      /\ IsFiniteSet(B)
      /\ queuedSplitGroups' \in Seq(Groups)
      /\ IsInjective(queuedSplitGroups')
      /\ Range(queuedSplitGroups') = Range(queuedSplitGroups) \ B
      /\ numRunningSplitGroups' = numRunningSplitGroups + Cardinality(B)
      /\ numRunningSplitGroups' <= ConcurrentSplitGroups
      /\ groupDrivers' = [g \in AllGroups |->
                            IF g \in B THEN NumDriversPerSplitGroup ELSE counts[g]]
      /\ dState' = [d \in Drivers |-> IF d[1] \in B THEN "run" ELSE ds[d]]
  BY Zenon, <1>4 DEF Begins
<1>6. Ungrouped \in AllGroups /\ Ungrouped \notin Groups /\ B \subseteq Groups
  BY Zenon, <1>2, <1>5, SplitsAssumption DEF AllGroups, SplitsAssumption
<1>7. PICK U : U = B \cup {Ungrouped}
  BY Zenon
<1>8. Turns({}, U)
  <2>1. \A d \in Drivers : d[1] \in U => dState[d] = "none" /\ dState'[d] = "run"
    <3>1. ASSUME NEW d \in Drivers, d[1] \in U PROVE dState[d] = "none" /\ dState'[d] = "run"
      <4>1. ~Begun(d[1])
        BY Zenon, <1>1, <1>5, <1>7, <3>1 DEF Begun
      <4>2. dState'[d] = "run"
        BY Zenon, <1>5, <1>7, <3>1 DEF ds
      <4> QED
        BY Zenon, <1>2, <4>1, <4>2
    <3> QED
      BY Zenon, <3>1
  <2>2. \A d \in Drivers : d[1] \notin U => dState'[d] = dState[d]
    BY Zenon, <1>5, <1>7 DEF ds
  <2> QED
    BY Zenon, <1>6, <1>7, <2>1, <2>2 DEF Turns, AllGroups
<1>9. GroupsOK'
  <2>1. \A g \in AllGroups : Begun(g)' <=> Begun(g) \/ g \in U
    BY Zenon, <1>1, <1>2, <1>5, <1>6, <1>7 DEF Begun, AllGroups
  <2>2. DOMAIN groupDrivers' = AllGroups
    BY Zenon, <1>5
  <2>3. /\ started' \in BOOLEAN
        /\ seenSplitGroups' \subseteq Groups
        /\ Range(queuedSplitGroups') \subseteq seenSplitGroups'
        /\ ~started' => state' = "kRunning" /\ noMoreSplits' = {} /\ ~mustFinish'
    BY Zenon, <1>1, <1>2, <1>5
  <2> QED
    BY ZenonT(30), <1>5, <1>8, <2>1, <2>2, <2>3, GroupsTurn
<1>10. CountsOK'
  <2>1. U \cap Groups = B /\ IsFiniteSet(U)
    BY Zenon, <1>5, <1>6, <1>7 DEF FiniteSetFacts, OneMore
  <2>2. ASSUME NEW g \in AllGroups
        PROVE  groupDrivers'[g] =
                 IF g \in U THEN Cardinality(DriversOf(g)) ELSE groupDrivers[g]
    <3>1. CASE g \in B
      BY Zenon, <1>5, <1>6, <1>7, <3>1, DriversOfGroup
    <3>2. CASE g = Ungrouped
      BY Zenon, <1>2, <1>5, <1>6, <1>7, <3>2 DEF counts, NumDriversUngrouped
    <3>3. CASE g \notin U
      BY Zenon, <1>2, <1>5, <1>7, <3>3 DEF counts
    <3> QED
      BY Zenon, <1>7, <3>1, <3>2, <3>3
  <2>3. numRunningSplitGroups' = numRunningSplitGroups + Cardinality(U \cap Groups)
    BY Zenon, <1>5, <2>1
  <2> QED
    BY ZenonT(30), <1>1, <1>2, <1>5, <1>8, <2>1, <2>2, <2>3, CountBegun
<1>11. TotalOK'
  <2>1. noMoreSplits' # Nodes
    BY Zenon, <1>1, <1>2, SplitsAssumption DEF SplitsAssumption
  <2>2. numTotalDrivers = 0
    BY Zenon, <1>1, <1>2 DEF TotalOK
  <2>3. NumDriversPerSplitGroup * NumSplitGroups \in Int /\ NumDriversUngrouped \in Int
    <3>1. NumDriversPerSplitGroup \in Nat
      BY Zenon, SlotsFinite DEF Nodes, NumDriversPerSplitGroup, Slots
    <3>2. NumDriversUngrouped \in Nat
      BY Zenon, DriversFinite DEF NumDriversUngrouped, DriversOf
    <3> QED
      BY <3>1, <3>2, SplitsAssumption DEF SplitsAssumption
  <2>4. numTotalDrivers' = NumDriversPerSplitGroup * NumSplitGroups + NumDriversUngrouped
    BY <1>1, <2>2, <2>3
  <2> QED
    BY Zenon, <1>1, <2>1, <2>4 DEF TotalOK
<1>12. OnlyBegins({})
  <2>1. \A d \in Drivers : d[1] \in U => dState[d] = "none" /\ dState'[d] = "run"
    BY Zenon, <1>8 DEF Turns
  <2>2. \A d \in Drivers : d[1] \notin U => dState'[d] = dState[d]
    BY Zenon, <1>5, <1>7 DEF ds
  <2> QED
    BY Zenon, <2>1, <2>2 DEF OnlyBegins
<1> QED
  BY Zenon, <1>9, <1>10, <1>11, <1>12

\* Driver d is closed and groups B begin; 'gone' is one when its group is over.
Closes(d, B, gone) ==
  /\ B \subseteq Range(queuedSplitGroups)
  /\ IsFiniteSet(B)
  /\ gone = 1 <=> groupDrivers[d[1]] = 1 /\ d[1] # Ungrouped
  /\ queuedSplitGroups' \in Seq(Groups)
  /\ IsInjective(queuedSplitGroups')
  /\ Range(queuedSplitGroups') = Range(queuedSplitGroups) \ B
  /\ numRunningSplitGroups' = numRunningSplitGroups - gone + Cardinality(B)
  /\ numRunningSplitGroups' <= ConcurrentSplitGroups
  /\ DOMAIN groupDrivers' = AllGroups
  /\ \A g \in AllGroups : groupDrivers'[g] =
       IF g \in B THEN NumDriversPerSplitGroup
       ELSE IF g = d[1] THEN groupDrivers[g] - 1 ELSE groupDrivers[g]
  /\ \A e \in Drivers : e[1] \in B => dState'[e] = "run"
  /\ \A e \in Drivers : e[1] \notin B => dState'[e] = IF e = d THEN "closed" ELSE dState[e]
  /\ numFinishedDrivers' = numFinishedDrivers + 1
  /\ UNCHANGED <<started, seenSplitGroups>>
  /\ ~started' => state' = "kRunning" /\ noMoreSplits' = {} /\ ~mustFinish'

\* Closing a driver of a running task keeps the groups and their counters right.
LEMMA ClosesGroups ==
  ASSUME FiniteSetFacts,
         GroupsOK, CountsOK, isRunning, NEW d \in Live, NEW B, NEW gone, gone \in {0, 1},
         Closes(d, B, gone)
  PROVE  GroupsOK' /\ CountsOK' /\ OnlyBegins({d})
<1>0. /\ B \subseteq Range(queuedSplitGroups)
      /\ IsFiniteSet(B)
      /\ gone = 1 <=> groupDrivers[d[1]] = 1 /\ d[1] # Ungrouped
      /\ queuedSplitGroups' \in Seq(Groups)
      /\ IsInjective(queuedSplitGroups')
      /\ Range(queuedSplitGroups') = Range(queuedSplitGroups) \ B
      /\ numRunningSplitGroups' = numRunningSplitGroups - gone + Cardinality(B)
      /\ numRunningSplitGroups' <= ConcurrentSplitGroups
      /\ DOMAIN groupDrivers' = AllGroups
      /\ \A g \in AllGroups : groupDrivers'[g] =
           IF g \in B THEN NumDriversPerSplitGroup
           ELSE IF g = d[1] THEN groupDrivers[g] - 1 ELSE groupDrivers[g]
      /\ \A e \in Drivers : e[1] \in B => dState'[e] = "run"
      /\ \A e \in Drivers : e[1] \notin B => dState'[e] = IF e = d THEN "closed" ELSE dState[e]
      /\ numFinishedDrivers' = numFinishedDrivers + 1
      /\ UNCHANGED <<started, seenSplitGroups>>
      /\ ~started' => state' = "kRunning" /\ noMoreSplits' = {} /\ ~mustFinish'
  BY Zenon DEF Closes
<1>4. /\ queuedSplitGroups \in Seq(Groups)
      /\ IsInjective(queuedSplitGroups)
      /\ Range(queuedSplitGroups) \subseteq seenSplitGroups
      /\ seenSplitGroups \subseteq Groups
      /\ started \in BOOLEAN
      /\ \A e \in Drivers : dState[e] = "none" <=> ~Begun(e[1])
  BY Zenon DEF GroupsOK
<1>a. d \in Drivers /\ dState[d] # "none" /\ d[1] \in AllGroups
  BY Zenon, DriverParts DEF Live
<1>1. B \subseteq Groups /\ B \subseteq AllGroups /\ Ungrouped \notin B
  BY Zenon, <1>0, <1>4, SplitsAssumption DEF AllGroups, SplitsAssumption
<1>2. ASSUME NEW e \in Drivers, e[1] \in B PROVE dState[e] = "none"
  <2>1. ~Begun(e[1])
    BY Zenon, <1>0, <1>1, <1>2 DEF Begun
  <2> QED
    BY Zenon, <1>4, <2>1
<1>3. d[1] \notin B
  BY Zenon, <1>2, <1>a
<1>5. Turns({d}, B)
  <2>1. \A e \in Drivers : e[1] \in B => dState[e] = "none" /\ dState'[e] = "run"
    BY Zenon, <1>0, <1>2
  <2>2. dState'[d] = "closed"
    BY Zenon, <1>0, <1>3, <1>a
  <2>3. \A e \in Drivers : e[1] \notin B /\ e # d => dState'[e] = dState[e]
    BY Zenon, <1>0
  <2> QED
    BY Zenon, <1>1, <2>1, <2>2, <2>3 DEF Turns
<1>6. GroupsOK'
  <2>1. \A g \in AllGroups : Begun(g)' <=> Begun(g) \/ g \in B
    BY Zenon, <1>0, <1>4, <1>1 DEF Begun, AllGroups
  <2>2. /\ started' \in BOOLEAN
        /\ seenSplitGroups' \subseteq Groups
        /\ Range(queuedSplitGroups') \subseteq seenSplitGroups'
    BY Zenon, <1>0, <1>4
  <2> QED
    BY Zenon, <1>0, <1>5, <2>1, <2>2, GroupsTurn
<1>7. CountsOK'
  BY Zenon, <1>0, <1>1, <1>5, <1>a, CountClosed
<1>8. OnlyBegins({d})
  BY Zenon, <1>0, <1>2, <1>3 DEF OnlyBegins
<1> QED
  BY Zenon, <1>6, <1>7, <1>8

\* Task::removeDriver.
LEMMA RemoveGroups ==
  ASSUME FiniteSetFacts,
         SplitsInv, GroupsOK, CountsOK, TotalOK, NEW d \in Drivers, RemoveDriver(d)
  PROVE  GroupsOK' /\ CountsOK' /\ TotalOK' /\ OnlyBegins({d})
<1> DEFINE counts == [groupDrivers EXCEPT ![d[1]] = @ - 1]
           ds == [dState EXCEPT ![d] = "closed"]
<1>1. /\ dState[d] \notin {"none", "closed"}
      /\ numFinishedDrivers' = numFinishedDrivers + 1
      /\ mustFinish' = (mustFinish
                          \/ CheckIfFinished(numFinishedDrivers + 1, numTotalDrivers))
      /\ UNCHANGED <<started, noMoreSplits, seenSplitGroups, numTotalDrivers, state>>
  <2>1. dState[d] \in {"finish", "run", "wait", "scan"}
    BY Zenon DEF RemoveDriver
  <2>2. numFinishedDrivers' = numFinishedDrivers + 1
    BY Zenon DEF RemoveDriver
  <2>3. mustFinish' = (mustFinish
                          \/ CheckIfFinished(numFinishedDrivers + 1, numTotalDrivers))
    BY Zenon DEF RemoveDriver
  <2>4. UNCHANGED <<started, noMoreSplits, seenSplitGroups, numTotalDrivers, state>>
    BY Zenon DEF RemoveDriver, splitVars
  <2> QED
    BY Zenon, <2>1, <2>2, <2>3, <2>4
<1>2. \/ /\ counts[d[1]] = 0 /\ d[1] # Ungrouped
         /\ EnsureSplitGroupsAreBeingProcessed(
              started, queuedSplitGroups, numRunningSplitGroups - 1, counts, ds)
      \/ /\ ~(counts[d[1]] = 0 /\ d[1] # Ungrouped)
         /\ groupDrivers' = counts
         /\ dState' = ds
         /\ UNCHANGED <<queuedSplitGroups, numRunningSplitGroups>>
  BY Zenon DEF RemoveDriver, IsGroupDone
<1>3. d \in Live /\ d[1] \in AllGroups
  BY Zenon, <1>1, DriverParts DEF Live
<1>4. /\ queuedSplitGroups \in Seq(Groups)
      /\ IsInjective(queuedSplitGroups)
      /\ Range(queuedSplitGroups) \subseteq seenSplitGroups
      /\ seenSplitGroups \subseteq Groups
      /\ started \in BOOLEAN
      /\ DOMAIN groupDrivers = AllGroups
      /\ \A e \in Drivers : dState[e] = "none" <=> ~Begun(e[1])
      /\ ~started => isRunning /\ noMoreSplits = {} /\ ~mustFinish
  BY Zenon DEF GroupsOK
<1>5. /\ DOMAIN counts = AllGroups
      /\ counts[d[1]] = groupDrivers[d[1]] - 1
      /\ \A g \in AllGroups : g # d[1] => counts[g] = groupDrivers[g]
  BY Zenon, <1>3, <1>4
<1>6. /\ ds[d] = "closed"
      /\ \A e \in Drivers : e # d => ds[e] = dState[e]
      /\ ds = [e \in Drivers |-> ds[e]]
  BY Zenon, SplitsParts DEF StoresOK
<1> HIDE DEF counts, ds
<1>7. ~started' => state' = "kRunning" /\ noMoreSplits' = {} /\ ~mustFinish'
  <2>1. SUFFICES ASSUME ~started PROVE state' = "kRunning" /\ noMoreSplits' = {} /\ ~mustFinish'
    BY Zenon, <1>1
  <2>2. isRunning /\ noMoreSplits = {} /\ ~mustFinish
    BY Zenon, <1>4, <2>1
  <2>3. numTotalDrivers = 0 /\ numFinishedDrivers \in Nat
    BY Zenon, <2>1, <2>2, LiveFinite DEF TotalOK, CountsOK
  <2>4. ~CheckIfFinished(numFinishedDrivers + 1, numTotalDrivers)
    BY <2>3 DEF CheckIfFinished
  <2> QED
    BY Zenon, <1>1, <2>2, <2>4 DEF isRunning
<1>8. TotalOK'
  BY Zenon, <1>1 DEF TotalOK, isRunning
<1>9. CASE isRunning
  <2>1. /\ numRunningSplitGroups = Cardinality(RunningGroups)
        /\ numRunningSplitGroups \in Nat
        /\ numRunningSplitGroups <= ConcurrentSplitGroups
        /\ ConcurrentSplitGroups \in Nat
        /\ groupDrivers[d[1]] \in Nat
    BY ZenonT(30), <1>3, <1>9, LiveFinite, SplitsAssumption
    DEF CountsOK, SplitsAssumption
  <2>3. CASE /\ counts[d[1]] = 0 /\ d[1] # Ungrouped
             /\ EnsureSplitGroupsAreBeingProcessed(
                  started, queuedSplitGroups, numRunningSplitGroups - 1, counts, ds)
    <3>1. numRunningSplitGroups - 1 \in Int /\ numRunningSplitGroups - 1 <= ConcurrentSplitGroups
      BY <2>1
    <3>2. PICK B : Begins(B, queuedSplitGroups, numRunningSplitGroups - 1, counts, ds)
      BY Zenon, <1>4, <1>9, <2>3, <3>1, EnsureBegins
    <3>3. /\ B \subseteq Range(queuedSplitGroups)
          /\ IsFiniteSet(B)
          /\ queuedSplitGroups' \in Seq(Groups)
          /\ IsInjective(queuedSplitGroups')
          /\ Range(queuedSplitGroups') = Range(queuedSplitGroups) \ B
          /\ numRunningSplitGroups' = numRunningSplitGroups - 1 + Cardinality(B)
          /\ numRunningSplitGroups' <= ConcurrentSplitGroups
          /\ groupDrivers' = [g \in AllGroups |->
                                IF g \in B THEN NumDriversPerSplitGroup ELSE counts[g]]
          /\ dState' = [e \in Drivers |-> IF e[1] \in B THEN "run" ELSE ds[e]]
      BY Zenon, <3>2 DEF Begins
    <3>4. Closes(d, B, 1)
      <4>1. groupDrivers[d[1]] = 1
        BY SMTT(30), <1>5, <2>1, <2>3
      <4>2. \A g \in AllGroups : groupDrivers'[g] =
              IF g \in B THEN NumDriversPerSplitGroup
              ELSE IF g = d[1] THEN groupDrivers[g] - 1 ELSE groupDrivers[g]
        BY Zenon, <1>5, <3>3
      <4>3. /\ \A e \in Drivers : e[1] \in B => dState'[e] = "run"
            /\ \A e \in Drivers : e[1] \notin B => dState'[e] = IF e = d THEN "closed" ELSE dState[e]
        BY Zenon, <1>6, <3>3
      <4>4. DOMAIN groupDrivers' = AllGroups
        BY Zenon, <3>3
      <4> QED
        BY ZenonT(30), <1>1, <1>7, <2>3, <3>3, <4>1, <4>2, <4>3, <4>4 DEF Closes
    <3> QED
      BY Zenon, <1>3, <1>8, <1>9, <3>4, ClosesGroups
  <2>4. CASE /\ ~(counts[d[1]] = 0 /\ d[1] # Ungrouped)
             /\ groupDrivers' = counts
             /\ dState' = ds
             /\ UNCHANGED <<queuedSplitGroups, numRunningSplitGroups>>
    <3>1. IsFiniteSet({}) /\ Cardinality({}) = 0 /\ {} \subseteq Range(queuedSplitGroups)
      BY Zenon DEF FiniteSetFacts, SmallSets
    <3>2. numRunningSplitGroups' = numRunningSplitGroups - 0 + Cardinality({})
      BY SMTT(30), <2>1, <2>4, <3>1
    <3>3. groupDrivers' = [g \in AllGroups |->
                             IF g \in {} THEN NumDriversPerSplitGroup ELSE counts[g]]
      BY Zenon, <1>5, <2>4 DEF counts
    <3>4. dState' = [e \in Drivers |-> IF e[1] \in {} THEN "run" ELSE ds[e]]
      BY Zenon, <1>6, <2>4
    <3>5. Range(queuedSplitGroups') = Range(queuedSplitGroups) \ {}
      BY Zenon, <2>4
    <3>6. /\ queuedSplitGroups' \in Seq(Groups)
          /\ IsInjective(queuedSplitGroups')
          /\ numRunningSplitGroups' <= ConcurrentSplitGroups
      BY ZenonT(30), <1>4, <2>1, <2>4
    <3>7. Closes(d, {}, 0)
      <4>1. ~(groupDrivers[d[1]] = 1 /\ d[1] # Ungrouped)
        BY SMTT(30), <1>5, <2>1, <2>4
      <4>2. \A g \in AllGroups : groupDrivers'[g] =
              IF g \in {} THEN NumDriversPerSplitGroup
              ELSE IF g = d[1] THEN groupDrivers[g] - 1 ELSE groupDrivers[g]
        BY Zenon, <1>5, <3>3
      <4>3. /\ \A e \in Drivers : e[1] \in {} => dState'[e] = "run"
            /\ \A e \in Drivers : e[1] \notin {} => dState'[e] = IF e = d THEN "closed" ELSE dState[e]
        BY Zenon, <1>6, <3>4
      <4>4. DOMAIN groupDrivers' = AllGroups
        BY Zenon, <3>3
      <4> QED
        BY SMTT(30), <1>1, <1>7, <3>1, <3>2, <3>5, <3>6, <4>1, <4>2, <4>3, <4>4
        DEF Closes
    <3> QED
      BY Zenon, <1>3, <1>8, <1>9, <3>7, ClosesGroups
  <2> QED
    BY Zenon, <1>2, <1>8, <2>3, <2>4
<1>10. CASE ~isRunning
  <2>1. /\ queuedSplitGroups' = queuedSplitGroups
        /\ \A e \in Drivers : dState'[e] = ds[e]
        /\ DOMAIN groupDrivers' = AllGroups
    <3>1. CASE EnsureSplitGroupsAreBeingProcessed(
                 started, queuedSplitGroups, numRunningSplitGroups - 1, counts, ds)
      <4>1. queuedSplitGroups' = queuedSplitGroups /\ \A e \in Drivers : dState'[e] = ds[e]
        BY SMTT(30), <1>4, <1>10, <3>1, EnsureIdle
      <4>2. DOMAIN groupDrivers' = AllGroups
        BY Zenon, <3>1 DEF EnsureSplitGroupsAreBeingProcessed
      <4> QED
        BY Zenon, <4>1, <4>2
    <3> QED
      BY Zenon, <1>2, <1>5, <3>1
  <2>2. Turns({d}, {})
    BY Zenon, <1>3, <1>6, <2>1 DEF Turns
  <2>3. \A g \in AllGroups : Begun(g)' <=> Begun(g) \/ g \in {}
    BY Zenon, <1>1, <2>1 DEF Begun
  <2>4. GroupsOK'
    BY Zenon, <1>1, <1>4, <1>7, <2>1, <2>2, <2>3, GroupsTurn
  <2>5. CountsOK'
    BY Zenon, <1>1, <1>10 DEF CountsOK, isRunning
  <2>6. OnlyBegins({d})
    BY Zenon, <1>6, <2>1 DEF OnlyBegins
  <2> QED
    BY Zenon, <1>8, <2>4, <2>5, <2>6
<1> QED
  BY Zenon, <1>9, <1>10

\* A promise that is realized neither begins nor ends a driver.
LEMMA ResumedTurns ==
  ASSUME NEW p, dState' = Resumed(dState, p)
  PROVE  Turns({}, {})
BY Zenon DEF Resumed, Turns, AllGroups

\* The group of the next split is seen, the driver whose promise is realized is
\* resumed, and drivers are created.
Joins(n) ==
  /\ seenSplitGroups \subseteq seenSplitGroups'
  /\ GroupOf[NextSplit(n)] \in Groups => GroupOf[NextSplit(n)] \in seenSplitGroups'
  /\ \A d \in Drivers :
       \/ dState'[d] = Resumed(dState, PromiseToRealize(NextStore(n)))[d]
       \/ dState[d] = "none" /\ dState'[d] = "run"

\* A split of a new group puts the group into the queue, and may begin groups.
LEMMA AddGroups ==
  ASSUME FiniteSetFacts, SplitsInv, GroupsOK, CountsOK, TotalOK, CompletedOK, isRunning,
         NEW n \in Nodes, TakesSplit(n),
         UNCHANGED <<started, noMoreSplits, mustFinish, numFinishedDrivers, numTotalDrivers>>
  PROVE  GroupsOK' /\ CountsOK' /\ TotalOK' /\ Joins(n)
<1>1. PICK s : s = SplitsOf[n][next[n]] /\ s = NextSplit(n)
  BY Zenon DEF NextSplit
<1>2. next[n] \in 1..Len(SplitsOf[n]) /\ state' = state
  <2>1. next[n] <= Len(SplitsOf[n]) /\ state' = state
    BY Zenon DEF TakesSplit
  <2>2. next[n] \in Nat \ {0}
    BY Zenon, SplitsParts DEF StoresOK
  <2>3. SplitsOf[n] \in Seq(Range(SplitsOf[n]))
    BY Zenon, SplitsAssumption DEF SplitsAssumption
  <2> QED
    BY <2>1, <2>2, <2>3
<1>3. PICK g \in GroupsOf(n) : g = GroupOf[s]
  BY Zenon, <1>1, <1>2, SplitPlace
<1>4. PICK p : p = PromiseToRealize(stores[n][g]) /\ p = PromiseToRealize(NextStore(n))
  BY Zenon, <1>1, <1>3 DEF NextStore
<1>5. \/ /\ g # Ungrouped /\ g \notin seenSplitGroups
         /\ seenSplitGroups' = seenSplitGroups \cup {g}
         /\ EnsureSplitGroupsAreBeingProcessed(
              started, Append(queuedSplitGroups, g), numRunningSplitGroups,
              groupDrivers, Resumed(dState, p))
      \/ /\ ~(g # Ungrouped /\ g \notin seenSplitGroups)
         /\ dState' = Resumed(dState, p)
         /\ UNCHANGED <<seenSplitGroups, queuedSplitGroups, numRunningSplitGroups, groupDrivers>>
  BY Zenon, <1>1, <1>3, <1>4 DEF TakesSplit, AddSplitLocked
<1>6. noMoreSplits' # Nodes
  <2>1. n \notin noMoreSplits
    BY SMTT(30), <1>2, SplitsAssumption
    DEF CompletedOK, SplitsAssumption
  <2> QED
    BY Zenon, <2>1
<1>7. TotalOK'
  BY Zenon, <1>2, <1>6 DEF TotalOK, isRunning
<1>8. CASE /\ ~(g # Ungrouped /\ g \notin seenSplitGroups)
           /\ dState' = Resumed(dState, p)
           /\ UNCHANGED <<seenSplitGroups, queuedSplitGroups, numRunningSplitGroups, groupDrivers>>
  <2>1. Turns({}, {})
    BY Zenon, <1>8, ResumedTurns
  <2>2. Joins(n)
    BY Zenon, <1>1, <1>3, <1>4, <1>8, SplitsAssumption DEF Joins, SplitsAssumption
  <2> QED
    BY Zenon, <1>2, <1>7, <1>8, <2>1, <2>2, StillGroups
<1>9. CASE /\ g # Ungrouped /\ g \notin seenSplitGroups
           /\ seenSplitGroups' = seenSplitGroups \cup {g}
           /\ EnsureSplitGroupsAreBeingProcessed(
                started, Append(queuedSplitGroups, g), numRunningSplitGroups,
                groupDrivers, Resumed(dState, p))
  <2>1. /\ queuedSplitGroups \in Seq(Groups)
        /\ IsInjective(queuedSplitGroups)
        /\ Range(queuedSplitGroups) \subseteq seenSplitGroups
        /\ seenSplitGroups \subseteq Groups
        /\ started \in BOOLEAN
        /\ \A e \in Drivers : dState[e] = "none" <=> ~Begun(e[1])
    BY Zenon DEF GroupsOK
  <2>2. g \in Groups
    BY Zenon, <1>3, <1>9 DEF GroupsOf
  <2>3. PICK queued : queued = Append(queuedSplitGroups, g)
    BY Zenon
  <2>4. /\ queued \in Seq(Groups)
        /\ IsInjective(queued)
        /\ Range(queued) = Range(queuedSplitGroups) \cup {g}
    <3>1. g \notin Range(queuedSplitGroups)
      BY Zenon, <1>9, <2>1
    <3>2. HasAlso(Groups, queued, queuedSplitGroups, g)
      BY Zenon, <2>1, <2>2, <2>3, <3>1, InjectiveAfterAppend
    <3> QED
      BY Zenon, <3>2 DEF HasAlso
  <2>5. numRunningSplitGroups \in Int /\ numRunningSplitGroups <= ConcurrentSplitGroups
    BY LiveFinite DEF CountsOK
  <2>6. PICK ds : ds = Resumed(dState, p)
    BY Zenon
  <2>7. PICK B : Begins(B, queued, numRunningSplitGroups, groupDrivers, ds)
    BY ZenonT(30), <1>9, <2>3, <2>4, <2>5, <2>6, EnsureBegins
  <2>8. /\ B \subseteq Range(queued)
        /\ IsFiniteSet(B)
        /\ queuedSplitGroups' \in Seq(Groups)
        /\ IsInjective(queuedSplitGroups')
        /\ Range(queuedSplitGroups') = Range(queued) \ B
        /\ numRunningSplitGroups' = numRunningSplitGroups + Cardinality(B)
        /\ numRunningSplitGroups' <= ConcurrentSplitGroups
        /\ groupDrivers' = [h \in AllGroups |->
                              IF h \in B THEN NumDriversPerSplitGroup ELSE groupDrivers[h]]
        /\ dState' = [d \in Drivers |-> IF d[1] \in B THEN "run" ELSE ds[d]]
    BY Zenon, <2>7 DEF Begins
  <2>9. B \subseteq Groups /\ Ungrouped \notin B
    BY ZenonT(30), <2>1, <2>2, <2>4, <2>8, SplitsAssumption DEF SplitsAssumption
  <2>10. Turns({}, B)
    <3>1. ASSUME NEW d \in Drivers, d[1] \in B PROVE dState[d] = "none" /\ dState'[d] = "run"
      <4>1. ~Begun(d[1])
        BY Zenon, <1>9, <2>4, <2>8, <2>9, <3>1 DEF Begun
      <4> QED
        BY Zenon, <2>1, <2>8, <3>1, <4>1
    <3>2. \A d \in Drivers : d[1] \notin B =>
            /\ dState'[d] = "none" <=> dState[d] = "none"
            /\ dState'[d] = "closed" <=> dState[d] = "closed"
      BY Zenon, <2>6, <2>8 DEF Resumed
    <3> QED
      BY Zenon, <2>9, <3>1, <3>2 DEF Turns, AllGroups
  <2>11. GroupsOK'
    <3>1. \A h \in AllGroups : Begun(h)' <=> Begun(h) \/ h \in B
      <4>1. ASSUME NEW h \in Groups PROVE Begun(h)' <=> Begun(h) \/ h \in B
        <5>1. h # Ungrouped
          BY Zenon, SplitsAssumption DEF SplitsAssumption
        <5> QED
          BY Zenon, <1>9, <2>1, <2>4, <2>8, <5>1 DEF Begun
      <4>2. Begun(Ungrouped)' <=> Begun(Ungrouped)
        BY Zenon DEF Begun
      <4> QED
        BY Zenon, <2>9, <4>1, <4>2 DEF AllGroups
    <3>2. /\ started' \in BOOLEAN
          /\ seenSplitGroups' \subseteq Groups
          /\ Range(queuedSplitGroups') \subseteq seenSplitGroups'
          /\ DOMAIN groupDrivers' = AllGroups
      BY Zenon, <1>9, <2>1, <2>2, <2>4, <2>8
    <3>3. ~started' => state' = "kRunning" /\ noMoreSplits' = {} /\ ~mustFinish'
      BY Zenon, <1>2 DEF GroupsOK, isRunning
    <3> QED
      BY ZenonT(30), <2>8, <2>10, <3>1, <3>2, <3>3, GroupsTurn
  <2>12. CountsOK'
    <3>1. B \cap Groups = B
      BY Zenon, <2>9
    <3>2. numRunningSplitGroups' = numRunningSplitGroups + Cardinality(B \cap Groups)
      BY Zenon, <2>8, <3>1
    <3>3. \A h \in AllGroups : groupDrivers'[h] =
            IF h \in B THEN Cardinality(DriversOf(h)) ELSE groupDrivers[h]
      BY Zenon, <2>8, <2>9, DriversOfGroup
    <3> QED
      BY ZenonT(30), <2>8, <2>10, <3>2, <3>3, CountBegun
  <2>13. Joins(n)
    BY ZenonT(30), <1>1, <1>3, <1>4, <1>9, <2>6, <2>8, <2>10 DEF Joins, Turns
  <2> QED
    BY Zenon, <1>7, <2>11, <2>12, <2>13
<1> QED
  BY Zenon, <1>5, <1>8, <1>9

-----------------------------------------------------------------------------
(* Splits, promises and the drivers of a store *)

\* The store of group g of n has drivers, and one of them is awake.
Staffed(n, g) ==
  \E d \in Drivers : d[1] = g /\ d[2] = n /\ dState[d] \notin {"none", "closed"}
Served(n, g) ==
  \E d \in Drivers : d[1] = g /\ d[2] = n /\ dState[d] \in {"run", "scan"}
Awake(n, g) == stores[n][g].splits # <<>> /\ Staffed(n, g) => Served(n, g)

\* NoForgottenSplit, store by store.
LEMMA AwakeIs ==
  NoForgottenSplit <=> (isRunning => \A n \in Nodes : \A g \in GroupsOf(n) : Awake(n, g))
<1>1. ASSUME NEW n \in Nodes, NEW g \in GroupsOf(n)
      PROVE  /\ {d \in Live : d[1] = g /\ d[2] = n} # {} <=> Staffed(n, g)
             /\ (\E d \in {e \in Live : e[1] = g /\ e[2] = n} : dState[d] \in {"run", "scan"})
                  <=> Served(n, g)
  BY Zenon DEF Live, Staffed, Served
<1> QED
  BY SMTT(30), <1>1 DEF NoForgottenSplit, Awake

\* NoForgottenSplit after a step, store by store.
LEMMA AwakeNext ==
  NoForgottenSplit' <=>
    (state' = "kRunning" => \A n \in Nodes : \A g \in GroupsOf(n) : Awake(n, g)')
<1>1. (NoForgottenSplit <=> (isRunning => \A n \in Nodes : \A g \in GroupsOf(n) : Awake(n, g)))'
  BY AwakeIs, PTL
<1> QED
  BY Zenon, <1>1 DEF isRunning

\* A driver of the store goes on, or leaves an empty store.
Onward(d) ==
  \/ dState'[d] = dState[d]
  \/ dState[d] \in {"none", "wait", "scan"} /\ dState'[d] = "run"
  \/ dState[d] = "finish" /\ dState'[d] = "closed"

\* Drivers that go on do not leave splits alone.
LEMMA AwakeStays ==
  ASSUME NEW n, NEW g, Awake(n, g), stores'[n][g].splits = stores[n][g].splits,
         \A d \in Drivers : d[1] = g /\ d[2] = n => Onward(d)
  PROVE  Awake(n, g)'
<1> SUFFICES ASSUME stores'[n][g].splits # <<>>, NEW d \in Drivers, d[1] = g, d[2] = n,
                    dState'[d] \notin {"none", "closed"}
             PROVE  \E e \in Drivers : e[1] = g /\ e[2] = n /\ dState'[e] \in {"run", "scan"}
  BY Zenon DEF Awake, Staffed, Served
<1>1. Onward(d)
  BY Zenon
<1>2. CASE dState[d] = "none"
  BY Zenon, <1>1, <1>2 DEF Onward
<1>3. CASE dState[d] # "none"
  <2>1. dState[d] # "closed"
    BY Zenon, <1>1 DEF Onward
  <2>2. PICK e \in Drivers : e[1] = g /\ e[2] = n /\ dState[e] \in {"run", "scan"}
    BY Zenon, <1>3, <2>1 DEF Awake, Staffed, Served
  <2>3. Onward(e)
    BY Zenon, <2>2
  <2>4. dState'[e] \in {"run", "scan"}
    BY Zenon, <2>2, <2>3 DEF Onward
  <2> QED
    BY Zenon, <2>2, <2>4
<1> QED
  BY Zenon, <1>2, <1>3

\* Who has a promise in a store is a driver of that store and waits.
LEMMA PromiseHolders ==
  ASSUME SplitsInv, WakesOK, isRunning, NEW n \in Nodes, NEW g \in GroupsOf(n)
  PROVE  /\ stores[n][g].splitPromises \in Seq(Drivers)
         /\ IsInjective(stores[n][g].splitPromises)
         /\ \A d \in Range(stores[n][g].splitPromises) :
              d \in Drivers /\ dState[d] = "wait" /\ d[1] = g /\ d[2] = n
<1>1. stores[n][g].splitPromises \in Seq(Drivers)
  BY Zenon, SplitsParts DEF StoresOK, Stores
<1>2. \A d \in Range(stores[n][g].splitPromises) : d \in Drivers
  BY <1>1 DEF Range
<1> QED
  BY SMTT(30), <1>1, <1>2 DEF WakesOK, PromisedOK

\* A split that was sent is one of its node, and names a group of the node.
LEMMA SentPlace ==
  ASSUME SplitsInv, NEW n \in Nodes, NEW id \in 1..(next[n] - 1)
  PROVE  /\ id \in 1..Len(SplitsOf[n])
         /\ SplitsOf[n][id] \in Splits
         /\ GroupOf[SplitsOf[n][id]] \in GroupsOf(n)
<1>1. id \in 1..Len(SplitsOf[n])
  BY SMTT(30), SplitsAssumption, SplitsParts
  DEF StoresOK, SequenceOK, SplitsAssumption
<1> QED
  BY Zenon, <1>1, SplitPlace

\* A step that leaves the stores alone; no driver falls asleep or is woken.
Rests ==
  /\ UNCHANGED <<stores, next, handedOut, state>>
  /\ seenSplitGroups \subseteq seenSplitGroups'
  /\ isRunning => \A d \in Drivers :
       Onward(d) /\ (dState'[d] = "wait" <=> dState[d] = "wait")

\* A step that leaves the stores alone forgets no split.
LEMMA RestsWakes ==
  ASSUME SplitsInv, WakesOK, Rests
  PROVE  WakesOK'
<1>1. EndsOK'
  BY Zenon DEF WakesOK, EndsOK, Rests
<1>2. PromisedOK'
  BY SMTT(30), PromiseHolders DEF PromisedOK, Rests, isRunning
<1>3. ThroughOK'
  BY Zenon DEF WakesOK, ThroughOK, Rests, Onward, isRunning
<1>4. SentOK'
  BY Zenon DEF WakesOK, SentOK, Rests, isRunning
<1>5. NoForgottenSplit'
  <2>1. SUFFICES ASSUME state' = "kRunning", NEW n \in Nodes, NEW g \in GroupsOf(n)
                 PROVE  Awake(n, g)'
    BY Zenon, AwakeNext
  <2>2. isRunning /\ stores' = stores
    BY Zenon, <2>1 DEF Rests, isRunning
  <2>3. Awake(n, g)
    BY Zenon, <2>2, AwakeIs DEF WakesOK
  <2>4. \A d \in Drivers : Onward(d)
    BY Zenon, <2>2 DEF Rests
  <2> QED
    BY Zenon, <2>2, <2>3, <2>4, AwakeStays
<1> QED
  BY Zenon, <1>1, <1>2, <1>3, <1>4, <1>5 DEF WakesOK

\* A step after which the task no longer runs.
Over ==
  /\ state' # "kRunning"
  /\ \A n \in Nodes : \A g \in GroupsOf(n) :
       stores'[n][g].noMoreSplits = stores[n][g].noMoreSplits
  /\ \A n \in Nodes : next'[n] \in Nat /\ next[n] <= next'[n]

\* Once the task has ended only the end of the stores matters.
LEMMA OverWakes ==
  ASSUME SplitsInv, WakesOK, Over
  PROVE  WakesOK'
<1>1. EndsOK'
  <2>1. \A n \in Nodes : next'[n]..Len(SplitsOf[n]) \subseteq next[n]..Len(SplitsOf[n])
    BY SMTT(30), SplitsAssumption, SplitsParts
    DEF StoresOK, Over, SplitsAssumption
  <2> QED
    BY Zenon, <2>1 DEF WakesOK, EndsOK, Over
<1>2. PromisedOK' /\ ThroughOK' /\ SentOK' /\ NoForgottenSplit'
  BY Zenon, AwakeNext DEF PromisedOK, ThroughOK, SentOK, Over, isRunning
<1> QED
  BY Zenon, <1>1, <1>2 DEF WakesOK

\* Stores end that get no more splits, and the drivers that wait for one of
\* them are resumed.
Ends(n, g) ==
  /\ UNCHANGED <<next, handedOut, state, seenSplitGroups>>
  /\ dState' = Resumed(dState, stores[n][g].splitPromises)
  /\ stores'[n][g].splitPromises = <<>>
  /\ \A m \in Nodes : \A h \in GroupsOf(m) :
       /\ stores'[m][h].splits = stores[m][h].splits
       /\ \/ stores'[m][h] = stores[m][h]
          \/ /\ stores'[m][h].noMoreSplits = TRUE
             /\ stores'[m][h].splitPromises = <<>>
             /\ \A id \in next[m]..Len(SplitsOf[m]) : GroupOf[SplitsOf[m][id]] # h

\* Ending stores and resuming those that wait forgets no split.
LEMMA EndsWakes ==
  ASSUME SplitsInv, WakesOK, NEW n \in Nodes, NEW g \in GroupsOf(n), Ends(n, g)
  PROVE  WakesOK'
<1>0. /\ UNCHANGED <<next, handedOut, state, seenSplitGroups>>
      /\ dState' = Resumed(dState, stores[n][g].splitPromises)
      /\ stores'[n][g].splitPromises = <<>>
      /\ \A m \in Nodes : \A h \in GroupsOf(m) :
           /\ stores'[m][h].splits = stores[m][h].splits
           /\ stores[m][h].noMoreSplits => stores'[m][h].noMoreSplits
  BY Zenon DEF Ends
<1>1. EndsOK'
  BY SMTT(30) DEF WakesOK, EndsOK, Ends
<1>2. ASSUME NEW d \in Drivers
      PROVE  /\ Onward(d)
             /\ dState'[d] \in {"finish", "closed"} => dState'[d] = dState[d]
             /\ d \notin Range(stores[n][g].splitPromises) => dState'[d] = dState[d]
  BY Zenon, <1>0 DEF Resumed, Onward
<1>3. PromisedOK'
  <2>1. SUFFICES ASSUME state' = "kRunning", NEW m \in Nodes, NEW h \in GroupsOf(m)
                 PROVE  /\ IsInjective(stores'[m][h].splitPromises)
                        /\ \A d \in Range(stores'[m][h].splitPromises) :
                             dState'[d] = "wait" /\ d[1] = h /\ d[2] = m
    BY Zenon DEF PromisedOK, isRunning
  <2>2. isRunning
    BY Zenon, <1>0, <2>1 DEF isRunning
  <2>3. CASE stores'[m][h].splitPromises = <<>>
    BY <2>3 DEF IsInjective, Range
  <2>4. CASE stores'[m][h].splitPromises # <<>>
    <3>1. stores'[m][h] = stores[m][h] /\ ~(m = n /\ h = g)
      BY Zenon, <1>0, <2>4 DEF Ends
    <3>2. \A d \in Range(stores[m][h].splitPromises) :
            d \in Drivers /\ d \notin Range(stores[n][g].splitPromises)
      BY SMTT(30), <2>2, <3>1, PromiseHolders
    <3> QED
      BY SMTT(30), <1>2, <2>2, <3>1, <3>2, PromiseHolders
  <2> QED
    BY Zenon, <2>3, <2>4
<1>4. ThroughOK'
  BY Zenon, <1>0, <1>2, DriverPlace DEF WakesOK, ThroughOK, isRunning
<1>5. SentOK'
  <2>1. SUFFICES ASSUME state' = "kRunning", NEW m \in Nodes, NEW id \in 1..(next'[m] - 1)
                 PROVE  LET s == SplitsOf[m][id] IN
                        /\ handedOut'[s] > 0 \/ s \in Range(stores'[m][GroupOf[s]].splits)
                        /\ m \in GroupedNodes => GroupOf[s] \in seenSplitGroups'
    BY Zenon DEF SentOK, isRunning
  <2>2. isRunning /\ id \in 1..(next[m] - 1)
    BY Zenon, <1>0, <2>1 DEF isRunning
  <2>3. GroupOf[SplitsOf[m][id]] \in GroupsOf(m)
    BY Zenon, <2>2, SentPlace
  <2> QED
    BY Zenon, <1>0, <2>2, <2>3 DEF WakesOK, SentOK
<1>6. NoForgottenSplit'
  <2>1. SUFFICES ASSUME state' = "kRunning", NEW m \in Nodes, NEW h \in GroupsOf(m)
                 PROVE  Awake(m, h)'
    BY Zenon, AwakeNext
  <2>2. isRunning /\ stores'[m][h].splits = stores[m][h].splits
    BY Zenon, <1>0, <2>1 DEF isRunning
  <2>3. Awake(m, h)
    BY Zenon, <2>2, AwakeIs DEF WakesOK
  <2> QED
    BY Zenon, <1>2, <2>2, <2>3, AwakeStays
<1> QED
  BY Zenon, <1>1, <1>3, <1>4, <1>5, <1>6 DEF WakesOK

\* A driver that is told that there are no more splits.
LEMMA FinishWakes ==
  ASSUME SplitsInv, WakesOK, NEW d \in Drivers, dState[d] = "run",
         stores[d[2]][d[1]].splits = <<>>, stores[d[2]][d[1]].noMoreSplits,
         dState' = [dState EXCEPT ![d] = "finish"],
         UNCHANGED <<stores, handedOut, next, state, seenSplitGroups>>
  PROVE  WakesOK'
<1>1. dState'[d] = "finish" /\ \A e \in Drivers : e # d => dState'[e] = dState[e]
  BY Zenon, SplitsParts DEF StoresOK
<1>2. EndsOK'
  BY Zenon DEF WakesOK, EndsOK
<1>3. PromisedOK'
  <2>1. ASSUME isRunning, NEW n \in Nodes, NEW g \in GroupsOf(n)
        PROVE  \A e \in Range(stores[n][g].splitPromises) : dState'[e] = "wait"
    BY SMTT(30), <1>1, <2>1, PromiseHolders
  <2> QED
    BY SMTT(30), <2>1 DEF WakesOK, PromisedOK, isRunning
<1>4. ThroughOK'
  BY Zenon, <1>1 DEF WakesOK, ThroughOK, isRunning
<1>5. SentOK'
  BY Zenon DEF WakesOK, SentOK, isRunning
<1>6. NoForgottenSplit'
  <2>1. SUFFICES ASSUME state' = "kRunning", NEW n \in Nodes, NEW g \in GroupsOf(n),
                        stores[n][g].splits # <<>>
                 PROVE  Awake(n, g)'
    BY Zenon, AwakeNext DEF Awake
  <2>2. Awake(n, g)
    BY Zenon, <2>1, AwakeIs DEF WakesOK, isRunning
  <2>3. \A e \in Drivers : e[1] = g /\ e[2] = n => Onward(e)
    BY Zenon, <1>1, <2>1 DEF Onward
  <2> QED
    BY Zenon, <2>2, <2>3, AwakeStays
<1> QED
  BY Zenon, <1>2, <1>3, <1>4, <1>5, <1>6 DEF WakesOK

\* A driver that waits has found its store empty.
LEMMA WaitWakes ==
  ASSUME SplitsInv, WakesOK, NEW d \in Drivers, dState[d] = "run",
         stores[d[2]][d[1]].splits = <<>>, NEW st, Waits(d, st),
         UNCHANGED <<next, state, seenSplitGroups>>
  PROVE  WakesOK'
<1>0. PICK n \in Nodes : n = d[2] /\ d[1] \in GroupsOf(n)
  BY Zenon, DriverPlace
<1>1. PICK g \in GroupsOf(n) : n = d[2] /\ g = d[1]
  BY Zenon, <1>0
<1>2. /\ OnlyStore(n, g, st)
      /\ stores[n][g].splits = <<>>
      /\ st.splits = stores[n][g].splits
      /\ st.noMoreSplits = stores[n][g].noMoreSplits
      /\ st.splitPromises = Append(stores[n][g].splitPromises, d)
      /\ dState' = [dState EXCEPT ![d] = "wait"]
      /\ handedOut' = handedOut
  BY Zenon, <1>1 DEF Waits, HasWaiter
<1>3. dState'[d] = "wait" /\ \A e \in Drivers : e # d => dState'[e] = dState[e]
  BY Zenon, <1>2, SplitsParts DEF StoresOK
<1>4. \A m \in Nodes : \A h \in GroupsOf(m) :
        /\ stores'[m][h].splits = stores[m][h].splits
        /\ stores'[m][h].noMoreSplits = stores[m][h].noMoreSplits
  BY Zenon, <1>2 DEF OnlyStore
<1>5. EndsOK'
  BY ZenonT(30), <1>4 DEF WakesOK, EndsOK
<1>6. PromisedOK'
  <2>1. SUFFICES ASSUME state' = "kRunning", NEW m \in Nodes, NEW h \in GroupsOf(m)
                 PROVE  /\ IsInjective(stores'[m][h].splitPromises)
                        /\ \A e \in Range(stores'[m][h].splitPromises) :
                             dState'[e] = "wait" /\ e[1] = h /\ e[2] = m
    BY Zenon DEF PromisedOK, isRunning
  <2>2. isRunning
    BY Zenon, <2>1 DEF isRunning
  <2>3. \A e \in Range(stores[m][h].splitPromises) :
          e # d /\ dState'[e] = "wait" /\ e[1] = h /\ e[2] = m
    BY SMTT(30), <1>3, <2>2, PromiseHolders
  <2>4. CASE m = n /\ h = g
    <3>1. PICK q \in Seq(Drivers) : q = stores[n][g].splitPromises /\ IsInjective(q)
      BY SMTT(30), <2>2, PromiseHolders
    <3>2. PICK r : r = Append(q, d) /\ r = stores'[m][h].splitPromises
      BY Zenon, <1>2, <2>4, <3>1 DEF OnlyStore
    <3>3. d \notin Range(q)
      BY Zenon, <2>3, <2>4, <3>1
    <3>4. HasAlso(Drivers, r, q, d)
      BY Zenon, <3>1, <3>2, <3>3, InjectiveAfterAppend
    <3>5. IsInjective(r) /\ Range(r) = Range(q) \cup {d}
      BY Zenon, <3>4 DEF HasAlso
    <3>6. \A e \in Range(q) : dState'[e] = "wait" /\ e[1] = h /\ e[2] = m
      BY Zenon, <2>3, <2>4, <3>1
    <3>7. dState'[d] = "wait" /\ d[1] = h /\ d[2] = m
      BY Zenon, <1>1, <1>3, <2>4
    <3> QED
      BY Zenon, <3>2, <3>5, <3>6, <3>7
  <2>5. CASE ~(m = n /\ h = g)
    <3>1. stores'[m][h] = stores[m][h]
      BY Zenon, <1>2, <2>5 DEF OnlyStore
    <3> QED
      BY SMTT(30), <2>2, <2>3, <3>1, PromiseHolders
  <2> QED
    BY Zenon, <2>4, <2>5
<1>7. ThroughOK'
  BY ZenonT(30), <1>3, <1>4, DriverPlace DEF WakesOK, ThroughOK, isRunning
<1>8. SentOK'
  <2>1. SUFFICES ASSUME state' = "kRunning", NEW m \in Nodes, NEW id \in 1..(next'[m] - 1)
                 PROVE  LET s == SplitsOf[m][id] IN
                        /\ handedOut'[s] > 0 \/ s \in Range(stores'[m][GroupOf[s]].splits)
                        /\ m \in GroupedNodes => GroupOf[s] \in seenSplitGroups'
    BY Zenon DEF SentOK, isRunning
  <2>2. isRunning /\ id \in 1..(next[m] - 1)
    BY Zenon, <2>1 DEF isRunning
  <2>3. GroupOf[SplitsOf[m][id]] \in GroupsOf(m)
    BY Zenon, <2>2, SentPlace
  <2> QED
    BY ZenonT(30), <1>2, <1>4, <2>2, <2>3 DEF WakesOK, SentOK
<1>9. NoForgottenSplit'
  <2>1. SUFFICES ASSUME state' = "kRunning", NEW m \in Nodes, NEW h \in GroupsOf(m),
                        stores'[m][h].splits # <<>>
                 PROVE  Awake(m, h)'
    BY Zenon, AwakeNext DEF Awake
  <2>2. Awake(m, h) /\ stores'[m][h].splits = stores[m][h].splits
    BY Zenon, <1>4, <2>1, AwakeIs DEF WakesOK, isRunning
  <2>3. \A e \in Drivers : e[1] = h /\ e[2] = m => Onward(e)
    BY ZenonT(30), <1>1, <1>2, <1>3, <2>1, <2>2 DEF Onward
  <2> QED
    BY Zenon, <2>2, <2>3, AwakeStays
<1> QED
  BY Zenon, <1>5, <1>6, <1>7, <1>8, <1>9 DEF WakesOK

\* A driver that takes a split is awake.
LEMMA TakeWakes ==
  ASSUME SplitsInv, WakesOK, NEW d \in Drivers, dState[d] = "run", NEW st, NEW s,
         Takes(d, st, s), UNCHANGED <<next, state, seenSplitGroups>>
  PROVE  WakesOK'
<1>0. PICK n \in Nodes : n = d[2] /\ d[1] \in GroupsOf(n)
  BY Zenon, DriverPlace
<1>1. PICK g \in GroupsOf(n) : n = d[2] /\ g = d[1]
  BY Zenon, <1>0
<1>2. /\ OnlyStore(n, g, st)
      /\ s \in Range(stores[n][g].splits)
      /\ Range(st.splits) = Range(stores[n][g].splits) \ {s}
      /\ st.noMoreSplits = stores[n][g].noMoreSplits
      /\ st.splitPromises = stores[n][g].splitPromises
      /\ dState' = [dState EXCEPT ![d] = "scan"]
      /\ handedOut' = [handedOut EXCEPT ![s] = @ + 1]
  BY Zenon, <1>1 DEF Takes, HasTaken
<1>3. dState'[d] = "scan" /\ \A e \in Drivers : e # d => dState'[e] = dState[e]
  BY Zenon, <1>2, SplitsParts DEF StoresOK
<1>4. \A m \in Nodes : \A h \in GroupsOf(m) :
        /\ stores'[m][h].splitPromises = stores[m][h].splitPromises
        /\ stores'[m][h].noMoreSplits = stores[m][h].noMoreSplits
        /\ ~(m = n /\ h = g) => stores'[m][h] = stores[m][h]
  BY ZenonT(30), <1>2 DEF OnlyStore
<1>5. EndsOK'
  BY ZenonT(30), <1>4 DEF WakesOK, EndsOK
<1>6. PromisedOK'
  <2>1. SUFFICES ASSUME state' = "kRunning", NEW m \in Nodes, NEW h \in GroupsOf(m)
                 PROVE  /\ IsInjective(stores'[m][h].splitPromises)
                        /\ \A e \in Range(stores'[m][h].splitPromises) :
                             dState'[e] = "wait" /\ e[1] = h /\ e[2] = m
    BY Zenon DEF PromisedOK, isRunning
  <2>2. isRunning
    BY Zenon, <2>1 DEF isRunning
  <2>3. \A e \in Range(stores[m][h].splitPromises) : e # d /\ dState'[e] = "wait"
    BY SMTT(30), <1>3, <2>2, PromiseHolders
  <2> QED
    BY SMTT(30), <1>4, <2>2, <2>3, PromiseHolders
<1>7. ThroughOK'
  <2>1. SUFFICES ASSUME state' = "kRunning", NEW e \in Drivers,
                        dState'[e] \in {"finish", "closed"}
                 PROVE  /\ stores'[e[2]][e[1]].noMoreSplits
                        /\ stores'[e[2]][e[1]].splits = <<>>
    BY Zenon DEF ThroughOK, isRunning
  <2>2. e # d /\ dState[e] \in {"finish", "closed"}
    BY Zenon, <1>3, <2>1
  <2>3. stores[e[2]][e[1]].noMoreSplits /\ stores[e[2]][e[1]].splits = <<>>
    BY Zenon, <2>1, <2>2 DEF WakesOK, ThroughOK, isRunning
  <2>4. stores[n][g].splits # <<>>
    BY SMTT(30), <1>2 DEF Range
  <2> QED
    BY ZenonT(30), <1>4, <2>3, <2>4, DriverPlace
<1>8. SentOK'
  <2>1. SUFFICES ASSUME state' = "kRunning", NEW m \in Nodes, NEW id \in 1..(next'[m] - 1)
                 PROVE  LET t == SplitsOf[m][id] IN
                        /\ handedOut'[t] > 0 \/ t \in Range(stores'[m][GroupOf[t]].splits)
                        /\ m \in GroupedNodes => GroupOf[t] \in seenSplitGroups'
    BY Zenon DEF SentOK, isRunning
  <2>2. isRunning /\ id \in 1..(next[m] - 1)
    BY Zenon, <2>1 DEF isRunning
  <2>3. PICK t \in Splits : t = SplitsOf[m][id] /\ GroupOf[t] \in GroupsOf(m)
    BY Zenon, <2>2, SentPlace
  <2>4. /\ handedOut[t] > 0 \/ t \in Range(stores[m][GroupOf[t]].splits)
        /\ m \in GroupedNodes => GroupOf[t] \in seenSplitGroups'
    BY Zenon, <2>2, <2>3 DEF WakesOK, SentOK
  <2>5. handedOut \in [Splits -> Nat]
    BY Zenon, SplitsParts DEF StoresOK
  <2>6. CASE t = s
    BY SMTT(30), <1>2, <2>3, <2>4, <2>5, <2>6
  <2>7. CASE t # s
    <3>1. handedOut'[t] = handedOut[t]
      BY Zenon, <1>2, <2>5, <2>7
    <3>2. t \in Range(stores[m][GroupOf[t]].splits) => t \in Range(stores'[m][GroupOf[t]].splits)
      <4>1. CASE m = n /\ GroupOf[t] = g
        <5>1. stores'[m][GroupOf[t]] = st
          BY Zenon, <1>2, <4>1 DEF OnlyStore
        <5> QED
          BY Zenon, <1>2, <2>7, <4>1, <5>1
      <4>2. CASE ~(m = n /\ GroupOf[t] = g)
        BY Zenon, <1>4, <2>3, <4>2
      <4> QED
        BY Zenon, <4>1, <4>2
    <3> QED
      BY Zenon, <2>3, <2>4, <3>1, <3>2
  <2> QED
    BY Zenon, <2>6, <2>7
<1>9. NoForgottenSplit'
  <2>1. SUFFICES ASSUME state' = "kRunning", NEW m \in Nodes, NEW h \in GroupsOf(m)
                 PROVE  Awake(m, h)'
    BY Zenon, AwakeNext
  <2>2. CASE m = n /\ h = g
    BY Zenon, <1>1, <1>3, <2>2 DEF Awake, Served
  <2>3. CASE ~(m = n /\ h = g)
    <3>1. Awake(m, h) /\ stores'[m][h].splits = stores[m][h].splits
      BY Zenon, <1>4, <2>1, <2>3, AwakeIs DEF WakesOK, isRunning
    <3>2. \A e \in Drivers : e[1] = h /\ e[2] = m => Onward(e)
      BY Zenon, <1>1, <1>3, <2>3 DEF Onward
    <3> QED
      BY Zenon, <3>1, <3>2, AwakeStays
  <2> QED
    BY Zenon, <2>2, <2>3
<1> QED
  BY Zenon, <1>5, <1>6, <1>7, <1>8, <1>9 DEF WakesOK

\* Task::getSplitOrFuture forgets no split.
LEMMA AnswerWakes ==
  ASSUME SplitsInv, WakesOK, NEW d \in Drivers, Answer(d), UNCHANGED seenSplitGroups
  PROVE  WakesOK'
<1>1. dState[d] = "run" /\ UNCHANGED <<next, state>>
  BY Zenon DEF Answer, Asks
<1>2. CASE /\ stores[d[2]][d[1]].splits = <<>>
           /\ stores[d[2]][d[1]].noMoreSplits
           /\ dState' = [dState EXCEPT ![d] = "finish"]
           /\ UNCHANGED <<stores, holds, handedOut>>
  BY Zenon, <1>1, <1>2, FinishWakes
<1>3. CASE stores[d[2]][d[1]].splits = <<>> /\ \E st : Waits(d, st)
  BY Zenon, <1>1, <1>3, WaitWakes
<1>4. CASE \E st, s : Takes(d, st, s)
  BY Zenon, <1>1, <1>4, TakeWakes
<1> QED
  BY Zenon, <1>2, <1>3, <1>4 DEF Answer

\* A split wakes a driver of its store, or finds one awake.
LEMMA AddWakes ==
  ASSUME SplitsInv, WakesOK, isRunning, NEW n \in Nodes, TakesSplit(n), Joins(n)
  PROVE  WakesOK'
<1>1. /\ next \in [Nodes -> Nat \ {0}]
      /\ next[n] \in 1..Len(SplitsOf[n])
      /\ next' = [next EXCEPT ![n] = next[n] + 1]
      /\ UNCHANGED <<handedOut, state>>
      /\ \A m \in Nodes : Len(SplitsOf[m]) \in Nat
  BY SMTT(30), SplitsAssumption, SplitsParts
  DEF StoresOK, SplitsAssumption, TakesSplit
<1>2. PICK s \in Splits : s = NextSplit(n)
  BY Zenon, <1>1, SplitPlace DEF NextSplit
<1>3. PICK g \in GroupsOf(n) : g = GroupOf[s]
  BY Zenon, <1>1, <1>2, SplitPlace DEF NextSplit
<1>4. PICK store \in Stores : store = stores[n][g] /\ store = NextStore(n)
  BY Zenon, <1>2, <1>3, SplitsParts DEF StoresOK, NextStore
<1>5. PICK p : p = PromiseToRealize(store)
  BY Zenon
<1>6. PICK left : left = PromisesLeft(store)
  BY Zenon
<1>7. PICK st : Fills(n, st)
  BY Zenon, FillStore
<1>8. /\ OnlyStore(n, g, st)
      /\ Range(st.splits) = Range(store.splits) \cup {s}
      /\ st.noMoreSplits = store.noMoreSplits
      /\ st.splitPromises = left
  BY ZenonT(30), <1>2, <1>3, <1>4, <1>6, <1>7 DEF Fills, HasFilled
<1>9. /\ IsInjective(store.splitPromises)
      /\ \A d \in Range(store.splitPromises) :
           d \in Drivers /\ dState[d] = "wait" /\ d[1] = g /\ d[2] = n
  <2>1. /\ IsInjective(stores[n][g].splitPromises)
        /\ \A d \in Range(stores[n][g].splitPromises) :
             d \in Drivers /\ dState[d] = "wait" /\ d[1] = g /\ d[2] = n
    BY Zenon, PromiseHolders
  <2> QED
    BY Zenon, <1>4, <2>1
<1>10. /\ store.splitPromises # <<>> => \E d \in Range(p) : d \in Range(store.splitPromises)
       /\ \A d \in Range(p) : d \in Range(store.splitPromises)
       /\ IsInjective(left)
       /\ \A d \in Range(left) : d \in Range(store.splitPromises) /\ d \notin Range(p)
  BY Zenon, <1>5, <1>6, <1>9, PromiseTaken
<1>11. ASSUME NEW d \in Drivers
       PROVE  /\ Onward(d)
              /\ d \notin Range(p) /\ dState[d] = "wait" => dState'[d] = "wait"
              /\ d \in Range(p) => dState'[d] = "run"
              /\ dState'[d] \in {"finish", "closed"} => dState[d] = dState'[d]
  <2>1. \/ dState'[d] = IF d \in Range(p) /\ dState[d] = "wait" THEN "run" ELSE dState[d]
        \/ dState[d] = "none" /\ dState'[d] = "run"
    BY Zenon, <1>4, <1>5 DEF Joins, Resumed
  <2>2. d \in Range(p) => dState[d] = "wait"
    BY Zenon, <1>9, <1>10
  <2> QED
    BY Zenon, <2>1, <2>2 DEF Onward
<1>12. ~store.noMoreSplits
  <2>1. next[n] \in next[n]..Len(SplitsOf[n])
    BY <1>1
  <2> QED
    BY Zenon, <1>2, <1>3, <1>4, <2>1 DEF WakesOK, EndsOK, NextSplit
<1>13. /\ \A m \in Nodes : \A h \in GroupsOf(m) :
            /\ stores'[m][h].noMoreSplits = stores[m][h].noMoreSplits
            /\ ~(m = n /\ h = g) => stores'[m][h] = stores[m][h]
       /\ stores'[n][g] = st
  BY Zenon, <1>4, <1>8 DEF OnlyStore
<1>14. EndsOK'
  <2>1. \A m \in Nodes : next'[m]..Len(SplitsOf[m]) \subseteq next[m]..Len(SplitsOf[m])
    BY <1>1
  <2>2. SUFFICES ASSUME NEW m \in Nodes, NEW h \in GroupsOf(m),
                        stores'[m][h].noMoreSplits,
                        NEW id \in next'[m]..Len(SplitsOf[m])
                 PROVE  GroupOf[SplitsOf[m][id]] # h
    BY Zenon DEF EndsOK
  <2>3. stores[m][h].noMoreSplits /\ id \in next[m]..Len(SplitsOf[m])
    BY Zenon, <1>13, <2>1, <2>2
  <2> QED
    BY Zenon, <2>3 DEF WakesOK, EndsOK
<1>15. PromisedOK'
  <2>1. SUFFICES ASSUME NEW m \in Nodes, NEW h \in GroupsOf(m)
                 PROVE  /\ IsInjective(stores'[m][h].splitPromises)
                        /\ \A d \in Range(stores'[m][h].splitPromises) :
                             dState'[d] = "wait" /\ d[1] = h /\ d[2] = m
    BY Zenon DEF PromisedOK
  <2>2. CASE m = n /\ h = g
    <3>1. stores'[m][h].splitPromises = left
      BY Zenon, <1>8, <1>13, <2>2
    <3>2. \A d \in Range(left) : dState'[d] = "wait" /\ d[1] = h /\ d[2] = m
      BY Zenon, <1>9, <1>10, <1>11, <2>2
    <3> QED
      BY Zenon, <1>10, <3>1, <3>2
  <2>3. CASE ~(m = n /\ h = g)
    <3>1. stores'[m][h] = stores[m][h]
      BY Zenon, <1>13, <2>3
    <3>2. \A d \in Range(stores[m][h].splitPromises) :
            d \in Drivers /\ dState[d] = "wait" /\ d[1] = h /\ d[2] = m /\ d \notin Range(p)
      BY SMTT(30), <1>9, <1>10, <2>3, PromiseHolders
    <3> QED
      BY Zenon, <1>11, <3>1, <3>2, PromiseHolders
  <2> QED
    BY Zenon, <2>2, <2>3
<1>16. ThroughOK'
  <2>1. SUFFICES ASSUME NEW d \in Drivers, dState'[d] \in {"finish", "closed"}
                 PROVE  /\ stores'[d[2]][d[1]].noMoreSplits
                        /\ stores'[d[2]][d[1]].splits = <<>>
    BY Zenon DEF ThroughOK
  <2>2. stores[d[2]][d[1]].noMoreSplits /\ stores[d[2]][d[1]].splits = <<>>
    BY Zenon, <1>11, <2>1 DEF WakesOK, ThroughOK
  <2> QED
    BY ZenonT(30), <1>4, <1>12, <1>13, <2>2, DriverPlace
<1>17. SentOK'
  <2>1. SUFFICES ASSUME NEW m \in Nodes, NEW id \in 1..(next'[m] - 1)
                 PROVE  LET t == SplitsOf[m][id] IN
                        /\ handedOut'[t] > 0 \/ t \in Range(stores'[m][GroupOf[t]].splits)
                        /\ m \in GroupedNodes => GroupOf[t] \in seenSplitGroups'
    BY Zenon DEF SentOK
  <2>2. CASE id \in 1..(next[m] - 1)
    <3>1. PICK t \in Splits : t = SplitsOf[m][id] /\ GroupOf[t] \in GroupsOf(m)
      BY Zenon, <2>2, SentPlace
    <3>2. /\ handedOut[t] > 0 \/ t \in Range(stores[m][GroupOf[t]].splits)
          /\ m \in GroupedNodes => GroupOf[t] \in seenSplitGroups
      BY Zenon, <2>2, <3>1 DEF WakesOK, SentOK
    <3>3. Range(stores[m][GroupOf[t]].splits) \subseteq Range(stores'[m][GroupOf[t]].splits)
      BY ZenonT(30), <1>4, <1>8, <1>13, <3>1
    <3> QED
      BY Zenon, <1>1, <3>1, <3>2, <3>3 DEF Joins
  <2>3. CASE id \notin 1..(next[m] - 1)
    <3>1. m = n /\ id = next[n]
      BY <1>1, <2>1, <2>3
    <3>2. SplitsOf[m][id] = s /\ GroupOf[s] = g
      BY Zenon, <1>2, <1>3, <3>1 DEF NextSplit
    <3>3. s \in Range(stores'[n][g].splits)
      BY Zenon, <1>8, <1>13
    <3>4. n \in GroupedNodes => g \in seenSplitGroups'
      BY Zenon, <1>2, <1>3 DEF Joins, GroupsOf
    <3> QED
      BY Zenon, <3>1, <3>2, <3>3, <3>4
  <2> QED
    BY Zenon, <2>2, <2>3
<1>18. NoForgottenSplit'
  <2>1. SUFFICES ASSUME NEW m \in Nodes, NEW h \in GroupsOf(m)
                 PROVE  Awake(m, h)'
    BY Zenon, AwakeNext
  <2>2. CASE m = n /\ h = g
    <3>1. SUFFICES ASSUME NEW d \in Drivers, d[1] = g, d[2] = n,
                          dState'[d] \notin {"none", "closed"}
                   PROVE  \E e \in Drivers : e[1] = g /\ e[2] = n /\ dState'[e] \in {"run", "scan"}
      BY Zenon, <2>2 DEF Awake, Staffed, Served
    <3>2. CASE store.splitPromises # <<>>
      BY Zenon, <1>9, <1>10, <1>11, <3>2
    <3>3. CASE store.splitPromises = <<>>
      <4>1. dState[d] # "wait"
        <5>1. d \notin Range(store.splitPromises)
          BY SMTT(30), <3>3 DEF Range
        <5> QED
          BY Zenon, <1>4, <3>1, <5>1, SplitsParts DEF PromisesOK
      <4>2. dState[d] \notin {"finish", "closed"}
        BY Zenon, <1>4, <1>12, <3>1 DEF WakesOK, ThroughOK
      <4>3. dState[d] \in DriverStates /\ Onward(d)
        BY Zenon, <1>11, SplitsParts DEF StoresOK, DriverStates
      <4>4. dState'[d] \in {"run", "scan"}
        BY Zenon, <3>1, <4>1, <4>2, <4>3 DEF DriverStates, Onward
      <4> QED
        BY Zenon, <3>1, <4>4
    <3> QED
      BY Zenon, <3>2, <3>3
  <2>3. CASE ~(m = n /\ h = g)
    <3>1. Awake(m, h) /\ stores'[m][h].splits = stores[m][h].splits
      BY Zenon, <1>13, <2>3, AwakeIs DEF WakesOK
    <3> QED
      BY Zenon, <1>11, <3>1, AwakeStays
  <2> QED
    BY Zenon, <2>2, <2>3
<1> QED
  BY ZenonT(30), <1>14, <1>15, <1>16, <1>17, <1>18 DEF WakesOK

-----------------------------------------------------------------------------
(* The steps, for groups, counters, promises and splits *)

GroupsInv == GroupsOK /\ CountsOK /\ TotalOK /\ WakesOK

\* What a step leaves alone that neither begins nor ends a driver.
groupCounters == <<started, state, seenSplitGroups, queuedSplitGroups,
                   numRunningSplitGroups, groupDrivers, numFinishedDrivers>>

\* A step that lets at most a driver go on that has finished its split.
LEMMA StillInv ==
  ASSUME FiniteSetFacts, SplitsInv, GroupsInv,
         UNCHANGED <<groupCounters, noMoreSplits, mustFinish, numTotalDrivers, stores, next,
                     handedOut>>,
         \A d \in Drivers : dState'[d] = dState[d] \/ (dState[d] = "scan" /\ dState'[d] = "run")
  PROVE  GroupsInv'
<1>1. Turns({}, {})
  BY Zenon DEF Turns, AllGroups
<1>2. GroupsOK' /\ CountsOK'
  BY Zenon, <1>1, StillGroups DEF GroupsInv, groupCounters
<1>3. TotalOK'
  BY Zenon DEF GroupsInv, TotalOK, groupCounters, isRunning
<1>4. Rests
  BY Zenon DEF Rests, Onward, groupCounters
<1>5. WakesOK'
  BY Zenon, <1>4, RestsWakes DEF GroupsInv
<1> QED
  BY Zenon, <1>2, <1>3, <1>5 DEF GroupsInv

\* Task::start.
LEMMA StartInv ==
  ASSUME FiniteSetFacts, SplitsInv, GroupsInv, Start
  PROVE  GroupsInv' /\ OnlyBegins({})
<1>1. GroupsOK' /\ CountsOK' /\ TotalOK' /\ OnlyBegins({})
  BY Zenon, StartGroups DEF GroupsInv
<1>2. UNCHANGED <<stores, next, handedOut, state, seenSplitGroups>>
  BY Zenon DEF Start, splitVars, endVars, callerVars
<1>3. Rests
  BY Zenon, <1>1, <1>2 DEF Rests, OnlyBegins, Onward
<1>4. WakesOK'
  BY Zenon, <1>3, RestsWakes DEF GroupsInv
<1> QED
  BY Zenon, <1>1, <1>4 DEF GroupsInv

\* Task::removeDriver.
LEMMA RemoveInv ==
  ASSUME FiniteSetFacts, SplitsInv, GroupsInv, NEW d \in Drivers, RemoveDriver(d)
  PROVE  GroupsInv' /\ OnlyBegins({d})
<1>1. GroupsOK' /\ CountsOK' /\ TotalOK' /\ OnlyBegins({d})
  BY Zenon, RemoveGroups DEF GroupsInv
<1>2. /\ UNCHANGED <<stores, next, handedOut, state, seenSplitGroups>>
      /\ isRunning => dState[d] = "finish"
  BY Zenon DEF RemoveDriver, splitVars, callerVars
<1>3. Rests
  BY Zenon, <1>1, <1>2 DEF Rests, OnlyBegins, Onward
<1>4. WakesOK'
  BY Zenon, <1>3, RestsWakes DEF GroupsInv
<1> QED
  BY Zenon, <1>1, <1>4 DEF GroupsInv

\* Task::splitFinished.
LEMMA SplitFinishedInv ==
  ASSUME FiniteSetFacts, SplitsInv, GroupsInv, NEW d \in Drivers, SplitFinished(d)
  PROVE  GroupsInv'
<1>1. \A e \in Drivers : dState'[e] = dState[e] \/ (dState[e] = "scan" /\ dState'[e] = "run")
  BY Zenon, SplitsParts DEF SplitFinished, StoresOK
<1>2. UNCHANGED <<groupCounters, noMoreSplits, mustFinish, numTotalDrivers, stores, next,
                  handedOut>>
  BY Zenon
  DEF SplitFinished, splitVars, groupVars, countVars, endVars, callerVars, groupCounters
<1> QED
  BY Zenon, <1>1, <1>2, StillInv

\* Task::setMaxSplitSequenceId.
LEMMA SetMaxInv ==
  ASSUME FiniteSetFacts, SplitsInv, GroupsInv, NEW n \in Nodes, SetMaxSplitSequenceId(n)
  PROVE  GroupsInv'
<1>1. \A e \in Drivers : dState'[e] = dState[e]
  BY Zenon DEF SetMaxSplitSequenceId, driverVars
<1>2. UNCHANGED <<groupCounters, noMoreSplits, mustFinish, numTotalDrivers, stores, next,
                  handedOut>>
  BY Zenon DEF SetMaxSplitSequenceId, groupVars, countVars, endVars, groupCounters
<1> QED
  BY Zenon, <1>1, <1>2, StillInv

\* A step that changes nothing, like a split that is sent again.
LEMMA StutterInv ==
  ASSUME FiniteSetFacts, SplitsInv, GroupsInv, UNCHANGED vars
  PROVE  GroupsInv'
<1>1. \A e \in Drivers : dState'[e] = dState[e]
  BY Zenon DEF vars, driverVars
<1>2. UNCHANGED <<groupCounters, noMoreSplits, mustFinish, numTotalDrivers, stores, next,
                  handedOut>>
  BY Zenon
  DEF vars, splitVars, groupVars, countVars, endVars, callerVars, groupCounters
<1> QED
  BY Zenon, <1>1, <1>2, StillInv

\* Task::getSplitOrFuture.
LEMMA GetSplitInv ==
  ASSUME FiniteSetFacts, SplitsInv, GroupsInv, NEW d \in Drivers, GetSplitOrFuture(d)
  PROVE  GroupsInv'
<1>1. Answer(d)
  BY Zenon, GetSplitAnswer
<1>2. /\ dState[d] = "run"
      /\ \E x \in {"finish", "wait", "scan"} : dState' = [dState EXCEPT ![d] = x]
  BY Zenon, <1>1 DEF Answer, Waits, Takes
<1>3. Turns({}, {})
  BY Zenon, <1>2, SplitsParts DEF Turns, AllGroups, StoresOK
<1>4. UNCHANGED <<groupCounters, noMoreSplits, mustFinish, numTotalDrivers>>
  BY Zenon DEF GetSplitOrFuture, groupVars, countVars, endVars, groupCounters
<1>5. GroupsOK' /\ CountsOK'
  BY Zenon, <1>3, <1>4, StillGroups DEF GroupsInv, groupCounters
<1>6. TotalOK'
  BY Zenon, <1>4 DEF GroupsInv, TotalOK, groupCounters, isRunning
<1>7. WakesOK'
  BY Zenon, <1>1, <1>4, AnswerWakes DEF GroupsInv, groupCounters
<1> QED
  BY Zenon, <1>5, <1>6, <1>7 DEF GroupsInv

\* Promises that are realized and a new number of drivers.
LEMMA ResumedInv ==
  ASSUME FiniteSetFacts,
         SplitsInv, GroupsInv, NEW n \in Nodes, NEW g \in GroupsOf(n), Ends(n, g),
         UNCHANGED groupCounters, started \/ UNCHANGED <<noMoreSplits, mustFinish>>, TotalOK'
  PROVE  GroupsInv'
<1>1. Turns({}, {})
  BY Zenon, ResumedTurns DEF Ends
<1>2. GroupsOK' /\ CountsOK'
  BY Zenon, <1>1, StillGroups DEF GroupsInv, groupCounters
<1>3. WakesOK'
  BY Zenon, EndsWakes DEF GroupsInv
<1> QED
  BY Zenon, <1>2, <1>3 DEF GroupsInv

\* Task::noMoreSplitsForGroup.
LEMMA GroupEndInv ==
  ASSUME FiniteSetFacts, SplitsInv, GroupsInv, NEW n \in GroupedNodes, NEW g \in Groups,
         NoMoreSplitsForGroup(n, g)
  PROVE  GroupsInv' /\ Ends(n, g)
<1>1. n \in Nodes /\ g \in GroupsOf(n)
  BY Zenon DEF Nodes, GroupsOf
<1>2. PICK st : EndsStore(n, g, st)
  BY Zenon, GroupEndStore
<1>3. /\ UNCHANGED <<groupCounters, noMoreSplits, mustFinish, numTotalDrivers, next, handedOut>>
      /\ dState' = Resumed(dState, stores[n][g].splitPromises)
      /\ \A id \in next[n]..Len(SplitsOf[n]) : GroupOf[SplitsOf[n][id]] # g
  BY Zenon
  DEF NoMoreSplitsForGroup, ReleasedByGroupEnd, countVars, endVars, groupCounters
<1>4. Ends(n, g)
  BY ZenonT(30), <1>2, <1>3
  DEF Ends, EndsStore, OnlyStore, groupCounters
<1>5. TotalOK'
  BY Zenon, <1>3 DEF GroupsInv, TotalOK, groupCounters, isRunning
<1> QED
  BY ZenonT(30), <1>1, <1>3, <1>4, <1>5, ResumedInv

\* Task::noMoreSplits ends stores.
LEMMA NoMoreEnds ==
  ASSUME SplitsInv, NEW n \in Nodes, NoMoreSplits(n), UNCHANGED seenSplitGroups
  PROVE  \E g \in GroupsOf(n) : Ends(n, g)
<1> DEFINE e == IF known[n] = {} /\ n \in UngroupedNodes THEN {Ungrouped} ELSE known[n]
<1>1. /\ UNCHANGED <<state, next, endedGroups, handedOut>>
      /\ n \in GroupedNodes => endedGroups[n] = Groups
      /\ next[n] > Len(SplitsOf[n])
      /\ stores' = [stores EXCEPT ![n] = [g \in GroupsOf(n) |->
                      IF g \in e
                      THEN [stores[n][g] EXCEPT !.noMoreSplits = TRUE, !.splitPromises = <<>>]
                      ELSE stores[n][g]]]
  BY Zenon DEF NoMoreSplits, callerVars
<1>2. known[n] \subseteq GroupsOf(n)
  BY Zenon, SplitsParts DEF StoresOK
<1>3. PICK last \in GroupsOf(n) :
        /\ last \in IF known[n] = {} THEN GroupsOf(n) ELSE known[n]
        /\ dState' = Resumed(dState, stores[n][last].splitPromises)
  BY Zenon, <1>2 DEF NoMoreSplits
<1>4. last \notin e => n \in GroupedNodes
  BY Zenon, <1>3 DEF Nodes, GroupsOf
<1> HIDE DEF e
<1>5. /\ \A m \in Nodes : m # n => stores'[m] = stores[m]
      /\ \A m \in Nodes : \A g \in GroupsOf(m) :
           /\ stores'[m][g].splits = stores[m][g].splits
           /\ \/ stores'[m][g] = stores[m][g]
              \/ /\ stores'[m][g].noMoreSplits = TRUE
                 /\ stores'[m][g].splitPromises = <<>>
  BY Zenon, <1>1, StoresEnd
<1>6. stores'[n][last].splitPromises = <<>>
  <2>1. CASE last \in e
    <3>1. DOMAIN stores = Nodes /\ stores[n][last] \in Stores
      BY Zenon, SplitsParts DEF StoresOK
    <3>2. PICK st : st = [stores[n][last] EXCEPT !.noMoreSplits = TRUE, !.splitPromises = <<>>]
      BY Zenon
    <3>3. stores'[n][last] = st
      BY Zenon, <1>1, <2>1, <3>1, <3>2
    <3>4. st.splitPromises = <<>>
      BY Zenon, <3>1, <3>2, EndedStore
    <3> QED
      BY Zenon, <3>3, <3>4
  <2>2. CASE last \notin e
    <3>1. last \in endedGroups[n] /\ n \in GroupedNodes
      BY Zenon, <1>1, <1>4, <2>2 DEF GroupsOf
    <3>2. stores[n][last].splitPromises = <<>>
      BY Zenon, <3>1, SplitsParts DEF PromisesOK
    <3> QED
      BY Zenon, <1>5, <3>2
  <2> QED
    BY Zenon, <2>1, <2>2
<1>7. \A m \in Nodes : \A h \in GroupsOf(m) : stores'[m][h] # stores[m][h] =>
        \A id \in next[m]..Len(SplitsOf[m]) : GroupOf[SplitsOf[m][id]] # h
  <2>1. Len(SplitsOf[n]) \in Nat /\ next[n] \in Nat
    BY SMTT(30), SplitsAssumption, SplitsParts
    DEF StoresOK, SplitsAssumption
  <2>2. next[n] > Len(SplitsOf[n])
    BY Zenon, <1>1
  <2>3. next[n]..Len(SplitsOf[n]) = {}
    BY <2>1, <2>2
  <2> QED
    BY Zenon, <1>5, <2>3
<1>8. Ends(n, last)
  BY ZenonT(30), <1>1, <1>3, <1>5, <1>6, <1>7 DEF Ends
<1> QED
  BY Zenon, <1>8

\* Task::noMoreSplits.
LEMMA NoMoreInv ==
  ASSUME FiniteSetFacts, SplitsInv, GroupsInv, NEW n \in Nodes, NoMoreSplits(n)
  PROVE  GroupsInv' /\ \E g \in GroupsOf(n) : Ends(n, g)
<1>1. /\ UNCHANGED groupCounters
      /\ started
      /\ n \notin noMoreSplits
      /\ noMoreSplits' = noMoreSplits \cup {n}
      /\ numTotalDrivers' = ReviewedTotal(noMoreSplits')
  BY Zenon DEF NoMoreSplits, groupVars, groupCounters
<1>2. PICK g \in GroupsOf(n) : Ends(n, g)
  BY Zenon, <1>1, NoMoreEnds DEF groupCounters
<1>3. TotalOK'
  BY Zenon, <1>1 DEF GroupsInv, TotalOK, ReviewedTotal, groupCounters, isRunning
<1>4. GroupsInv'
  BY Zenon, <1>1, <1>2, <1>3, ResumedInv
<1> QED
  BY Zenon, <1>2, <1>4

\* Task::addSplit and addSplitWithSequence, of a split that is new.
LEMMA SendTakes ==
  ASSUME SplitsInv, NEW n \in Nodes, SendSplit(n), isRunning
  PROVE  TakesSplit(n) /\ UNCHANGED taskIds
<1>1. IsNewSplit(n, next[n])
  BY Zenon, SplitsParts DEF StoresOK, SequenceOK, IsNewSplit
<1>2. /\ next[n] <= Len(SplitsOf[n])
      /\ next' = [next EXCEPT ![n] = @ + 1]
      /\ UNCHANGED <<endedGroups, maxSequenceId, handedOut, stuck, state>>
      /\ unacked \subseteq unacked'
      /\ n \in GroupedNodes => n \in unacked'
  BY Zenon DEF SendSplit, AddSplit, endVars
<1>3. AddSplitLocked(n, SplitsOf[n][next[n]]) /\ UNCHANGED taskIds
  BY Zenon, <1>1 DEF SendSplit, AddSplit
<1> QED
  BY Zenon, <1>2, <1>3 DEF TakesSplit

\* Task::addSplit and addSplitWithSequence.
LEMMA SendInv ==
  ASSUME FiniteSetFacts, SplitsInv, GroupsInv, CompletedOK, NEW n \in Nodes, SendSplit(n)
  PROVE  GroupsInv' /\ (isRunning => Joins(n))
<1>1. UNCHANGED <<started, noMoreSplits, mustFinish, numFinishedDrivers, numTotalDrivers, state>>
  BY Zenon DEF SendSplit, AddSplit, countVars, endVars
<1>2. CASE isRunning
  <2>1. TakesSplit(n)
    BY Zenon, <1>2, SendTakes
  <2>2. GroupsOK' /\ CountsOK' /\ TotalOK' /\ Joins(n)
    BY Zenon, <1>1, <1>2, <2>1, AddGroups DEF GroupsInv
  <2>3. WakesOK'
    BY ZenonT(30), <1>2, <2>1, <2>2, AddWakes DEF GroupsInv
  <2> QED
    BY Zenon, <2>2, <2>3 DEF GroupsInv
<1>3. CASE ~isRunning
  <2>1. /\ UNCHANGED <<stores, seenSplitGroups, queuedSplitGroups, numRunningSplitGroups,
                       groupDrivers, dState>>
        /\ next' = [next EXCEPT ![n] = @ + 1]
    BY Zenon, <1>3 DEF SendSplit, AddSplit
  <2>2. Turns({}, {})
    BY Zenon, <2>1 DEF Turns, AllGroups
  <2>3. GroupsOK' /\ CountsOK'
    BY Zenon, <1>1, <2>1, <2>2, StillGroups DEF GroupsInv
  <2>4. TotalOK'
    BY Zenon, <1>1, <1>3 DEF TotalOK, isRunning
  <2>5. \A m \in Nodes : next'[m] \in Nat /\ next[m] <= next'[m]
    BY SMTT(30), <2>1, SplitsParts DEF StoresOK
  <2>6. Over
    BY Zenon, <1>1, <1>3, <2>1, <2>5 DEF Over, isRunning
  <2>7. WakesOK'
    BY Zenon, <2>6, OverWakes DEF GroupsInv
  <2> QED
    BY Zenon, <1>3, <2>3, <2>4, <2>7 DEF GroupsInv
<1> QED
  BY Zenon, <1>2, <1>3

\* The drivers that Task::terminate closes.
Terminates(off) ==
  /\ off \subseteq {d \in Live : ~(dState[d] = "scan" /\ d[2] \in ExchangeNodes)}
  /\ \A d \in Drivers :
       /\ dState'[d] = IF d \in off THEN "closed" ELSE dState[d]
       /\ holds'[d] = IF d \in off THEN None ELSE holds[d]

\* Task::terminate, of a task that was started.
LEMMA TerminateInv ==
  ASSUME SplitsInv, GroupsInv, started, NEW goal, goal # "kRunning", Terminate(goal)
  PROVE  GroupsInv' /\ \E off : Terminates(off)
<1>1. /\ state' = goal
      /\ UNCHANGED <<started, seenSplitGroups, queuedSplitGroups, groupDrivers, stores, next>>
  BY Zenon DEF Terminate, splitVars, groupVars, callerVars
<1>2. PICK off \in SUBSET {d \in Live : ~(dState[d] = "scan" /\ d[2] \in ExchangeNodes)} :
        /\ dState' = [d \in Drivers |-> IF d \in off THEN "closed" ELSE dState[d]]
        /\ holds' = [d \in Drivers |-> IF d \in off THEN None ELSE holds[d]]
  BY Zenon DEF Terminate
<1>3. Terminates(off)
  BY Zenon, <1>2 DEF Terminates
<1>4. Turns(off, {})
  BY Zenon, <1>2 DEF Turns, Live
<1>5. GroupsOK'
  <2>1. \A g \in AllGroups : Begun(g)' <=> Begun(g) \/ g \in {}
    BY Zenon, <1>1 DEF Begun
  <2>2. /\ started' \in BOOLEAN
        /\ started'
        /\ seenSplitGroups' \subseteq Groups
        /\ queuedSplitGroups' \in Seq(Groups)
        /\ IsInjective(queuedSplitGroups')
        /\ Range(queuedSplitGroups') \subseteq seenSplitGroups'
        /\ DOMAIN groupDrivers' = AllGroups
    BY Zenon, <1>1 DEF GroupsInv, GroupsOK
  <2> QED
    BY SMTT(30), <1>4, <2>1, <2>2, GroupsTurn DEF GroupsInv
<1>6. CountsOK' /\ TotalOK'
  BY Zenon, <1>1 DEF CountsOK, TotalOK, isRunning
<1>7. Over
  BY SMTT(30), <1>1, SplitsParts DEF Over, StoresOK
<1>8. WakesOK'
  BY Zenon, <1>7, OverWakes DEF GroupsInv
<1> QED
  BY Zenon, <1>3, <1>5, <1>6, <1>8 DEF GroupsInv

\* The second half of Task::terminate.
LEMMA DrainInv ==
  ASSUME FiniteSetFacts, SplitsInv, GroupsInv, Drain
  PROVE  GroupsInv'
<1>1. /\ ~isRunning
      /\ UNCHANGED <<groupCounters, noMoreSplits, mustFinish, dState, next>>
  BY Zenon DEF Drain, groupVars, countVars, driverVars, callerVars, groupCounters
<1>2. Turns({}, {})
  BY Zenon, <1>1 DEF Turns, AllGroups
<1>3. GroupsOK' /\ CountsOK'
  BY Zenon, <1>1, <1>2, StillGroups DEF GroupsInv, groupCounters
<1>4. TotalOK'
  BY Zenon, <1>1 DEF TotalOK, groupCounters, isRunning
<1>5. Over
  <2>1. ASSUME NEW n \in Nodes, NEW g \in GroupsOf(n)
        PROVE  stores'[n][g].noMoreSplits = stores[n][g].noMoreSplits
    <3>1. stores[n][g] \in Stores
      BY Zenon, SplitsParts DEF StoresOK
    <3>2. PICK sp : stores'[n][g] = [stores[n][g] EXCEPT !.splitPromises = <<>>, !.splits = sp]
      BY Zenon DEF Drain
    <3>3. stores[n][g].noMoreSplits \in BOOLEAN
      BY Zenon, <3>1 DEF Stores
    <3> QED
      BY Zenon, <3>1, <3>2 DEF Stores
  <2> QED
    BY SMTT(30), <1>1, <2>1, SplitsParts
    DEF Over, groupCounters, isRunning, StoresOK
<1>6. WakesOK'
  BY Zenon, <1>5, OverWakes DEF GroupsInv
<1> QED
  BY Zenon, <1>3, <1>4, <1>6 DEF GroupsInv
=============================================================================
