------------------------------- MODULE HashJoin -------------------------------
(***************************************************************************)
(* The hash join of one task: HashBuild and HashProbe operators on several *)
(* drivers, the HashJoinBridge between them, Task::allPeersFinished, and   *)
(* the SpillOperatorGroup of the builders.                                 *)
(*                                                                         *)
(* A round builds a table and probes it.  Rows of the partitions that were *)
(* spilled while building are kept on disk on both sides, and each spilled *)
(* partition gets a round of its own, which may spill again one level      *)
(* deeper.  A row is <<operator, key>>; a key is a sequence that begins    *)
(* with the partition numbers its hash gives at each level of spilling.    *)
(*                                                                         *)
(* A step is one critical section, or what an operator does between two.   *)
(***************************************************************************)
EXTENDS SpillOperatorGroup, Sequences, Bags

CONSTANTS
  Probers,         \* the HashProbe operators; Operators are the HashBuilds
  BuildInput,      \* for each type of join the rows that come to each HashBuild
  ProbeInput,      \* and to each HashProbe
  Partitions,      \* the partition numbers of a level
  MaxSpillLevel,   \* SpillConfig::maxSpillLevel
  JoinTypes,       \* the joins to consider: "inner", "left", "right", "anti"
  CancelledJoins,  \* the joins whose task may be terminated
  None             \* no row, no table, no partition

VARIABLES
  joinType,        \* joinType_; "anti" is null-aware and has no filter
  \* HashJoinBridge
  started, numBuilders, buildResult, restoringSpillPartitionId,
  restoringSpillShards, spillPartitionSets, promises, cancelled,
  \* Task::allPeersFinished: the drivers of the barrier of the join's plan node
  barrier,
  \* The operators whose bridge or barrier future is not realized.
  blocked,
  \* HashBuild
  bState, bPc, input, row, table, spilled, spillRows, spillLevel, nullKeys,
  \* HashProbe
  pState, pPc, source, result, reader, probeSpill, probeSets, lastProber,
  terminated,      \* Task::terminate has taken the drivers that were off thread
  held,            \* the promises of peers that an operator has to realize
  output,          \* the rows the join has produced
  failed           \* the VELOX_CHECKs that have failed

bridgeVars == <<started, numBuilders, buildResult, restoringSpillPartitionId,
                restoringSpillShards, spillPartitionSets, promises, cancelled>>
buildVars == <<bState, bPc, input, row, table, spilled, spillRows, spillLevel,
               nullKeys>>
probeVars == <<pState, pPc, source, result, reader, probeSpill, probeSets,
               lastProber, terminated>>
vars == <<joinType, groupVars, bridgeVars, barrier, blocked, buildVars,
          probeVars, held, output, failed>>

Builders == Operators
AllOperators == Builders \cup Probers

\* Finite functions that lose or gain arguments.
Without(f, x) == [y \in DOMAIN f \ {x} |-> f[y]]
Merged(f, g) ==
  [x \in DOMAIN f \cup DOMAIN g |->
     (IF x \in DOMAIN f THEN f[x] ELSE {})
       \cup (IF x \in DOMAIN g THEN g[x] ELSE {})]

\* A VELOX_CHECK.
Check(name, holds) == failed' = IF holds THEN failed ELSE failed \cup {name}

\* HashBitRange::partition: the partition of a row at a level of spilling.
PartitionOf(r, level) == r[2][level + 1]

\* The rows that come to the builders of a type of join, and what finishing a
\* build can leave with the bridge.
InputRows(type) == UNION {BuildInput[type][b] : b \in Builders}
SpillIds == (0..MaxSpillLevel) \X Partitions
BuildResults(type) ==
  [table : {None} \cup SUBSET InputRows(type),
   restored : {None} \cup SpillIds,
   spillIds : SUBSET SpillIds]

\* A driver runs either a HashBuild or a HashProbe, every row has a partition at
\* each level, and None is not one of the values that it stands for the lack of.
ASSUME JoinAssumption ==
  /\ IsFiniteSet(Probers) /\ Probers # {} /\ Operators \cap Probers = {}
  /\ Partitions \subseteq Nat /\ MaxSpillLevel \in Nat
  /\ None \notin SpillIds
  /\ \A type \in JoinTypes :
       /\ BuildInput[type] \in [Builders -> SUBSET InputRows(type)]
       /\ \A r \in InputRows(type) : \A level \in 0..MaxSpillLevel :
            PartitionOf(r, level) \in Partitions
       /\ None \notin InputRows(type)
       /\ \A rows \in SUBSET InputRows(type) : rows # None
       /\ None \notin BuildResults(type)


\* SpillPartitionId operator<: a deeper level comes first.
RestoreBefore(id, other) ==
  \/ id[1] > other[1]
  \/ id[1] = other[1] /\ id[2] < other[2]

\* HashProbe::needLastProbe and HashProbe::skipProbeOnEmptyBuild.
needLastProbe == joinType = "right"
skipProbeOnEmptyBuild == joinType \in {"inner", "right"}

Init ==
  /\ GroupInit
  /\ joinType \in JoinTypes
  /\ started = FALSE
  /\ numBuilders = 0
  /\ buildResult = None
  /\ restoringSpillPartitionId = None
  /\ restoringSpillShards = <<>>
  /\ spillPartitionSets = << >>
  /\ promises = {}
  /\ cancelled = FALSE
  /\ barrier = {}
  /\ blocked = {}
  /\ bState = [b \in Builders |-> "kRunning"]
  /\ bPc = [b \in Builders |-> "run"]
  /\ input = BuildInput[joinType]
  /\ row = [b \in Builders |-> None]
  /\ table = [b \in Builders |-> {}]
  /\ spilled = [b \in Builders |-> {}]
  /\ spillRows = [b \in Builders |-> {}]
  /\ spillLevel = [b \in Builders |-> 0]
  /\ nullKeys = {}
  /\ pState = [p \in Probers |-> "kWaitForBuild"]
  /\ pPc = [p \in Probers |-> "run"]
  /\ source = ProbeInput[joinType]
  /\ result = [p \in Probers |-> None]
  /\ reader = [p \in Probers |-> None]
  /\ probeSpill = [p \in Probers |-> << >>]
  /\ probeSets = [p \in Probers |-> << >>]
  /\ lastProber = {}
  /\ terminated = FALSE
  /\ held = [o \in AllOperators |-> {}]
  /\ output = EmptyBag
  /\ failed = {}

-----------------------------------------------------------------------------
(* Creating the drivers *)

\* The constructor of HashBuild: addBuilder and addOperator.
CreateBuilder(b) ==
  /\ ~started
  /\ b \notin operators
  /\ numBuilders' = numBuilders + 1
  /\ AddOperator(b)
  /\ UNCHANGED <<joinType, started, buildResult, restoringSpillPartitionId,
                 restoringSpillShards, spillPartitionSets, promises, cancelled,
                 barrier, blocked, buildVars, probeVars, held, output, failed>>

\* Task::createDriversLocked starts the bridges and the spill groups.
StartDrivers ==
  /\ ~started
  /\ operators = Builders
  /\ started' = TRUE
  /\ GroupStart
  /\ UNCHANGED <<joinType, numBuilders, buildResult, restoringSpillPartitionId,
                 restoringSpillShards, spillPartitionSets, promises, cancelled,
                 barrier, blocked, buildVars, probeVars, held, output, failed>>

-----------------------------------------------------------------------------
(* HashBuild *)

\* HashBuild::setupSpiller: beyond the limit there is no spiller.
HasSpiller(b) == spillLevel[b] <= MaxSpillLevel
IsAllSpilled(b) == spilled[b] = Partitions

\* The rows a builder may take next: the input it kept while it waited for a
\* spill, or one that comes from its source or its spill reader.
NextRows(b) ==
  IF bState[b] = "kWaitForSpill" THEN {row[b]}
  ELSE IF bState[b] = "kRunning" THEN input[b] ELSE {}

\* Defect in FutureReady: a builder goes on before the group resumes it.
FutureIgnored(b) == TRUE

\* HashBuild::isBlocked: the future of the spill group has been realized.
FutureReady(b) == b \notin waiting

\* HashBuild::addInput up to what ensureInputFits finds out: whether the
\* reservation grows (memory is the environment's choice, but an empty table
\* needs none), and whether a peer has requested a spill.
AddInput(b) ==
  /\ started
  /\ bPc[b] = "run"
  /\ FutureReady(b)
  /\ \E r \in NextRows(b) :
       /\ row' = [row EXCEPT ![b] = r]
       /\ input' = [input EXCEPT ![b] = @ \ {r}]
  /\ bState' = [bState EXCEPT ![b] = "kRunning"]
  /\ \E next \in IF ~HasSpiller(b) \/ IsAllSpilled(b) THEN {"store"}
                 ELSE {IF needSpill THEN "waitSpill" ELSE "store"}
                        \cup (IF table[b] = {} THEN {} ELSE {"requestSpill"}) :
       bPc' = [bPc EXCEPT ![b] = next]
  /\ UNCHANGED <<joinType, groupVars, bridgeVars, barrier, blocked, table,
                 spilled, spillRows, spillLevel, nullKeys, probeVars, held,
                 output, failed>>

\* HashBuild::requestSpill and HashBuild::waitSpill.
AwaitSpill(b) ==
  /\ \/ bPc[b] = "requestSpill" /\ RequestSpill(b)
     \/ bPc[b] = "waitSpill" /\ WaitSpill(b)
  /\ bPc' = [bPc EXCEPT ![b] = IF b \in waiting' THEN "run"
                               ELSE IF b \in spilling' THEN "runSpill"
                               ELSE "store"]
  /\ bState' = [bState EXCEPT ![b] = IF b \in waiting' THEN "kWaitForSpill"
                                     ELSE @]
  /\ UNCHANGED <<joinType, bridgeVars, barrier, blocked, input, row, table,
                 spilled, spillRows, spillLevel, nullKeys, probeVars, held,
                 output, failed>>

\* The partitions with rows in memory that some builder could spill.
Spillable ==
  {n \in Partitions : \E b \in Builders : \E r \in table[b] :
                        HasSpiller(b) /\ PartitionOf(r, spillLevel[b]) = n}

\* What HashBuild::runSpill moves out of the table of b.
SpilledBy(b, parts) == {r \in table[b] : PartitionOf(r, spillLevel[b]) \in parts}

\* HashBuild::runSpill on the tables of all builders, and the end of
\* SpillOperatorGroup::runSpill.  The partitions are those with most data, as
\* many as the targets ask for.
RunSpill(b) ==
  /\ bPc[b] = "runSpill"
  /\ Check("runSpill", Spillable # {} /\ ~IsAllSpilled(b))
  /\ \E parts \in IF Spillable = {} THEN {{}} ELSE (SUBSET Spillable) \ {{}} :
       /\ spilled' = [c \in Builders |-> spilled[c] \cup parts]
       /\ spillRows' = [c \in Builders |->
                          spillRows[c] \cup SpilledBy(c, parts)]
       /\ table' = [c \in Builders |-> table[c] \ SpilledBy(c, parts)]
  /\ SpillDone(b)
  /\ bPc' = [bPc EXCEPT ![b] = IF row[b] = None THEN "finish" ELSE "store"]
  /\ UNCHANGED <<joinType, bridgeVars, barrier, blocked, bState, input, row,
                 spillLevel, nullKeys, probeVars, held, output>>

\* HashBuild::spillInput.
GoesToDisk(b) ==
  HasSpiller(b) /\ PartitionOf(row[b], spillLevel[b]) \in spilled[b]

\* The rest of HashBuild::addInput.
StoreInput(b) ==
  /\ bPc[b] = "store"
  /\ IF GoesToDisk(b)
     THEN /\ spillRows' = [spillRows EXCEPT ![b] = @ \cup {row[b]}]
          /\ UNCHANGED table
     ELSE /\ table' = [table EXCEPT ![b] = @ \cup {row[b]}]
          /\ UNCHANGED spillRows
  /\ row' = [row EXCEPT ![b] = None]
  /\ bPc' = [bPc EXCEPT ![b] = "run"]
  /\ UNCHANGED <<joinType, groupVars, bridgeVars, barrier, blocked, bState,
                 input, spilled, spillLevel, nullKeys, probeVars, held, output,
                 failed>>

\* HashBuild::noMoreInput and the end of HashBuild::processSpillInput, up to
\* operatorStopped.
StopInput(b) ==
  /\ OperatorStopped(b)
  /\ bPc' = [bPc EXCEPT ![b] = IF b \in spilling' THEN "runSpill" ELSE "finish"]
  /\ row' = [row EXCEPT ![b] = None]

NoMoreInput(b) ==
  /\ started
  /\ bPc[b] = "run"
  /\ bState[b] = "kRunning"
  /\ input[b] = {}
  /\ StopInput(b)
  /\ UNCHANGED <<joinType, bridgeVars, barrier, blocked, bState, input, table,
                 spilled, spillRows, spillLevel, nullKeys, probeVars, held,
                 output, failed>>

\* HashBuild::addInput on a null key in a null-aware anti join: the builder
\* stops reading.  Spilled data has no null keys.
NullKey(b) ==
  /\ bPc[b] = "store"
  /\ joinType = "anti"
  /\ spillLevel[b] = 0
  /\ nullKeys' = nullKeys \cup {b}
  /\ input' = [input EXCEPT ![b] = {}]
  /\ StopInput(b)
  /\ UNCHANGED <<joinType, bridgeVars, barrier, blocked, bState, table,
                 spilled, spillRows, spillLevel, probeVars, held, output,
                 failed>>

\* Task::allPeersFinished for one of 'peers'; all drivers of the task that use
\* the plan node, of either pipeline, share one barrier.
IsLastPeer(peers) == Cardinality(barrier) + 1 = Cardinality(peers)

\* HashBuild::finishHashBuild up to the barrier, which a terminating task does
\* not let anyone enter.  The last to come has the others' promises.
FinishHashBuild(b) ==
  /\ bPc[b] = "finish"
  /\ IF terminated
     THEN /\ bState' = [bState EXCEPT ![b] = "kClosed"]
          /\ bPc' = [bPc EXCEPT ![b] = "run"]
          /\ UNCHANGED <<barrier, blocked, held>>
     ELSE IF IsLastPeer(Builders)
     THEN /\ barrier' = {}
          /\ held' = [held EXCEPT ![b] = barrier]
          /\ bPc' = [bPc EXCEPT ![b] = "merge"]
          /\ UNCHANGED <<blocked, bState>>
     ELSE /\ barrier' = barrier \cup {b}
          /\ blocked' = blocked \cup {b}
          /\ bState' = [bState EXCEPT ![b] = "kWaitForBuild"]
          /\ bPc' = [bPc EXCEPT ![b] = "run"]
          /\ UNCHANGED held
  /\ UNCHANGED <<joinType, groupVars, bridgeVars, input, row, table, spilled,
                 spillRows, spillLevel, nullKeys, probeVars, output, failed>>

\* Spiller::finishSpill for all builders: the partitions by their ids.
SpilledPartitions ==
  LET spillers == {b \in Builders : HasSpiller(b)}
      ids == {<<spillLevel[b], n>> : b \in spillers, n \in Partitions}
  IN  [id \in {i \in ids : \E b \in spillers : i[2] \in spilled[b]} |->
         {r \in UNION {spillRows[b] : b \in spillers} :
            PartitionOf(r, id[1]) = id[2]}]

\* Defect in Notify: the promises are dropped.
NotifyDropped == promises' = {} /\ UNCHANGED blocked

\* JoinBridge::notify.
Notify == promises' = {} /\ blocked' = blocked \ promises

\* HashJoinBridge::setAntiJoinHasNullKeys.
SetAntiJoinHasNullKeys ==
  /\ Check("setAntiJoinHasNullKeys",
           started /\ buildResult = None /\ restoringSpillShards = <<>>)
  /\ buildResult' = [table |-> None, restored |-> None, spillIds |-> {}]
  /\ restoringSpillPartitionId' = None
  /\ spillPartitionSets' = << >>
  /\ Notify
  /\ UNCHANGED <<started, numBuilders, restoringSpillShards, cancelled>>

\* Defect in TablesOfAll: the tables of the peers are forgotten.
TableOfLast(b) == table[b]

\* What finishHashBuild gathers from the peers.
TablesOfAll(b) == UNION {table[c] : c \in Builders}

\* HashJoinBridge::setHashTable.
SetHashTable(b) ==
  LET parts == SpilledPartitions IN
  /\ Check("setHashTable",
           /\ started /\ buildResult = None /\ restoringSpillShards = <<>>
           /\ DOMAIN parts \cap DOMAIN spillPartitionSets = {}
           /\ restoringSpillPartitionId # None =>
                \A id \in DOMAIN parts : restoringSpillPartitionId[1] < id[1]
           /\ \A id \in DOMAIN parts : parts[id] # {})
  /\ spillPartitionSets' = Merged(spillPartitionSets, parts)
  /\ buildResult' = [table |-> TablesOfAll(b),
                     restored |-> restoringSpillPartitionId,
                     spillIds |-> DOMAIN parts]
  /\ restoringSpillPartitionId' = None
  /\ Notify
  /\ UNCHANGED <<started, numBuilders, restoringSpillShards, cancelled>>

\* What setHashTable returns.
hasSpillData(sets) == DOMAIN sets # {}

\* The last builder takes the tables of its peers and hands the result to the
\* bridge.
MergeTables(b) ==
  /\ bPc[b] = "merge"
  /\ IF nullKeys # {} THEN SetAntiJoinHasNullKeys ELSE SetHashTable(b)
  /\ bPc' = [bPc EXCEPT ![b] = IF hasSpillData(spillPartitionSets') THEN "restart"
                               ELSE "wake"]
  /\ UNCHANGED <<joinType, groupVars, barrier, bState, input, row, table,
                 spilled, spillRows, spillLevel, nullKeys, probeVars, held,
                 output>>

RestartGroup(b) ==
  /\ bPc[b] = "restart"
  /\ Restart
  /\ bPc' = [bPc EXCEPT ![b] = "wake"]
  /\ UNCHANGED <<joinType, bridgeVars, barrier, blocked, bState, input, row,
                 table, spilled, spillRows, spillLevel, nullKeys, probeVars,
                 held, output, failed>>

\* Defect in Released: the promises of the peers are dropped.
ReleasesNobody(o) == blocked' = blocked

\* The promises of the peers of o are realized.
Released(o) == blocked' = blocked \ held[o]

\* The end of finishHashBuild.
WakeBuilders(b) ==
  /\ bPc[b] = "wake"
  /\ Released(b)
  /\ held' = [held EXCEPT ![b] = {}]
  /\ bPc' = [bPc EXCEPT ![b] = "post"]
  /\ UNCHANGED <<joinType, groupVars, bridgeVars, barrier, bState, input, row,
                 table, spilled, spillRows, spillLevel, nullKeys, probeVars,
                 output, failed>>

\* The VELOX_CHECK(!cancelled_) of tableOrFuture and spillInputOrFuture.
AbortedCheckFails == cancelled

\* HashBuild::setupSpillInput.
SetupSpillInput(b, shard) ==
  /\ table' = [table EXCEPT ![b] = {}]
  /\ spilled' = [spilled EXCEPT ![b] = {}]
  /\ spillRows' = [spillRows EXCEPT ![b] = {}]
  /\ spillLevel' = [spillLevel EXCEPT ![b] = restoringSpillPartitionId[1] + 1]
  /\ input' = [input EXCEPT ![b] = shard]

\* HashBuild::postHashBuildProcess with HashJoinBridge::spillInputOrFuture: the
\* join is done, or the builder waits for the probe side, or it gets a shard of
\* the partition to restore.
PostHashBuild(b) ==
  /\ \/ bPc[b] = "post"
     \/ /\ bPc[b] = "run"
        /\ bState[b] \in {"kWaitForBuild", "kWaitForProbe"}
        /\ b \notin blocked
  /\ bPc' = [bPc EXCEPT ![b] = "run"]
  /\ IF AbortedCheckFails
     THEN /\ bState' = [bState EXCEPT ![b] = "kClosed"]
          /\ UNCHANGED <<bridgeVars, blocked, input, table, spilled, spillRows,
                         spillLevel, failed>>
     ELSE IF restoringSpillPartitionId = None
     THEN /\ IF DOMAIN spillPartitionSets = {}
             THEN /\ bState' = [bState EXCEPT ![b] = "kFinish"]
                  /\ UNCHANGED <<promises, blocked>>
             ELSE /\ bState' = [bState EXCEPT ![b] = "kWaitForProbe"]
                  /\ promises' = promises \cup {b}
                  /\ blocked' = blocked \cup {b}
          /\ UNCHANGED <<started, numBuilders, buildResult,
                         restoringSpillPartitionId, restoringSpillShards,
                         spillPartitionSets, cancelled, input, table, spilled,
                         spillRows, spillLevel, failed>>
     ELSE /\ Check("spillInputOrFuture",
                   buildResult = None /\ restoringSpillShards # <<>>)
          /\ restoringSpillShards # <<>>
          /\ SetupSpillInput(b, restoringSpillShards[Len(restoringSpillShards)])
          /\ restoringSpillShards' =
               SubSeq(restoringSpillShards, 1, Len(restoringSpillShards) - 1)
          /\ bState' = [bState EXCEPT ![b] = "kRunning"]
          /\ UNCHANGED <<started, numBuilders, buildResult,
                         restoringSpillPartitionId, spillPartitionSets,
                         promises, cancelled, blocked>>
  /\ UNCHANGED <<joinType, groupVars, barrier, row, nullKeys, probeVars, held,
                 output>>

-----------------------------------------------------------------------------
(* HashProbe *)

hasMoreSpillData(p) == DOMAIN probeSets[p] # {}

\* The rows to probe with: from the restored partition or from upstream.
ProbeRows(p) == IF reader[p] # None THEN reader[p] ELSE source[p]

\* HashProbe::asyncWaitForHashTable with HashJoinBridge::tableOrFuture and
\* HashProbe::maybeSetupSpillInput.
AsyncWaitForHashTable(p) ==
  /\ started
  /\ \/ pPc[p] = "await"
     \/ pPc[p] = "run" /\ pState[p] = "kWaitForBuild" /\ p \notin blocked
  /\ IF AbortedCheckFails
     THEN /\ pState' = [pState EXCEPT ![p] = "kClosed"]
          /\ pPc' = [pPc EXCEPT ![p] = "run"]
          /\ UNCHANGED <<promises, blocked, result, reader, probeSpill,
                         probeSets, failed>>
     ELSE IF buildResult = None
     THEN /\ pState' = [pState EXCEPT ![p] = "kWaitForBuild"]
          /\ pPc' = [pPc EXCEPT ![p] = "run"]
          /\ promises' = promises \cup {p}
          /\ blocked' = blocked \cup {p}
          /\ UNCHANGED <<result, reader, probeSpill, probeSets, failed>>
     ELSE LET restored == buildResult.restored
              isNull == buildResult.table = None IN
          /\ Check("tableOrFuture",
                   /\ restoringSpillPartitionId = None
                   /\ restoringSpillShards = <<>>
                   /\ isNull => ~hasMoreSpillData(p)
                   /\ restored # None => restored \in DOMAIN probeSets[p])
          /\ restored # None => restored \in DOMAIN probeSets[p]
          /\ pState' = [pState EXCEPT ![p] = "kRunning"]
          /\ pPc' = [pPc EXCEPT ![p] =
                       IF isNull
                         \/ /\ buildResult.table = {}
                            /\ skipProbeOnEmptyBuild
                            /\ buildResult.spillIds = {}
                       THEN "noMore" ELSE "run"]
          /\ result' = [result EXCEPT ![p] = buildResult]
          /\ reader' = [reader EXCEPT ![p] = IF restored = None THEN None
                                             ELSE probeSets[p][restored]]
          /\ probeSets' = [probeSets EXCEPT ![p] = Without(@, restored)]
          /\ probeSpill' = [probeSpill EXCEPT ![p] =
                              [id \in buildResult.spillIds |-> {}]]
          /\ UNCHANGED <<promises, blocked>>
  /\ UNCHANGED <<joinType, groupVars, started, numBuilders, buildResult,
                 restoringSpillPartitionId, restoringSpillShards,
                 spillPartitionSets, cancelled, barrier, buildVars, source,
                 lastProber, terminated, held, output>>

\* What HashProbe::getOutput produces for a probe row, with the build rows
\* that HashTable::joinProbe finds.
JoinRows(r, rows) ==
  LET hits == {b \in rows : b[2] = r[2]}
      unmatched == IF hits = {} THEN {<<None, r>>} ELSE {}
  IN  CASE joinType = "left" -> (hits \X {r}) \cup unmatched
        [] joinType = "anti" -> unmatched
        [] OTHER -> hits \X {r}

\* HashProbe::addInput with HashProbe::spillInput, and the getOutput calls
\* until the row has been used up.
ProbeRow(p) ==
  /\ pPc[p] = "run"
  /\ pState[p] = "kRunning"
  /\ \E r \in ProbeRows(p) :
       LET ids == {id \in DOMAIN probeSpill[p] : PartitionOf(r, id[1]) = id[2]}
       IN  /\ IF reader[p] # None
              THEN /\ reader' = [reader EXCEPT ![p] = @ \ {r}]
                   /\ UNCHANGED source
              ELSE /\ source' = [source EXCEPT ![p] = @ \ {r}]
                   /\ UNCHANGED reader
           /\ probeSpill' = [probeSpill EXCEPT ![p] =
                [id \in DOMAIN @ |-> IF id \in ids THEN @[id] \cup {r} ELSE @[id]]]
           /\ output' = IF ids # {} THEN output
                        ELSE output (+) SetToBag(JoinRows(r, result[p].table))
  /\ UNCHANGED <<joinType, groupVars, bridgeVars, barrier, blocked, buildVars,
                 pState, pPc, result, probeSets, lastProber, terminated, held,
                 failed>>

\* Defect in WaitsForPeers: a prober goes on without its peers.
NeverWaits(spills, isLast) == FALSE

\* Whether a prober that has come to the barrier waits there.
WaitsForPeers(spills, isLast) == spills /\ ~isLast

\* HashProbe::noMoreInputInternal: spilled input is finished, and whoever comes
\* last to the barrier of the probers ends the round.
NoMoreInputInternal(p) ==
  LET sets == Merged(probeSets[p], probeSpill[p])
      spills == DOMAIN sets # {}
      needsBarrier == needLastProbe \/ spills
      throws == needsBarrier /\ terminated
      comes == needsBarrier /\ ~terminated
      isLast == comes /\ IsLastPeer(Probers)
      waits == comes /\ WaitsForPeers(spills, isLast)
  IN
  /\ \/ pPc[p] = "noMore"
     \/ pPc[p] = "run" /\ pState[p] = "kRunning" /\ ProbeRows(p) = {}
  /\ probeSets' = [probeSets EXCEPT ![p] = sets]
  /\ probeSpill' = [probeSpill EXCEPT ![p] = << >>]
  /\ barrier' = IF ~comes THEN barrier
                ELSE IF isLast THEN {} ELSE barrier \cup {p}
  /\ lastProber' = IF isLast THEN lastProber \cup {p} ELSE lastProber
  /\ held' = [held EXCEPT ![p] = IF isLast /\ spills THEN barrier ELSE {}]
  /\ blocked' = IF waits THEN blocked \cup {p} ELSE blocked
  /\ pState' = [pState EXCEPT ![p] = IF throws THEN "kClosed"
                                     ELSE IF waits THEN "kWaitForPeers" ELSE @]
  /\ pPc' = [pPc EXCEPT ![p] = IF throws THEN "run" ELSE "end"]
  /\ UNCHANGED <<joinType, groupVars, bridgeVars, buildVars, source, result,
                 reader, terminated, output, failed>>

\* SpillPartition::split: bits::roundUp makes the size of a shard at least the
\* number of files, so that the first shard gets them all.
Split(rows, numShards) == [i \in 1..numShards |-> IF i = 1 THEN rows ELSE {}]

\* HashJoinBridge::probeFinished.
ProbeFinished ==
  /\ Check("probeFinished",
           /\ started /\ buildResult # None /\ numBuilders > 0
           /\ restoringSpillPartitionId = None /\ restoringSpillShards = <<>>
           /\ DOMAIN spillPartitionSets = {} => promises = {})
  /\ buildResult' = None
  /\ IF DOMAIN spillPartitionSets = {}
     THEN UNCHANGED <<restoringSpillPartitionId, restoringSpillShards,
                      spillPartitionSets, promises, blocked>>
     ELSE LET ids == DOMAIN spillPartitionSets
              first == CHOOSE id \in ids :
                         \A other \in ids \ {id} : RestoreBefore(id, other)
          IN  /\ restoringSpillPartitionId' = first
              /\ restoringSpillShards' =
                   Split(spillPartitionSets[first], numBuilders)
              /\ spillPartitionSets' = Without(spillPartitionSets, first)
              /\ Notify
  /\ UNCHANGED <<started, numBuilders, cancelled>>

\* HashProbe::getBuildSideOutput, for all batches: the last prober of a right
\* join returns the rows of the table that no prober has matched.
BuildSideOutput(p) ==
  IF needLastProbe /\ p \in lastProber
  THEN {<<b, None>> : b \in {c \in result[p].table :
                               \A x \in BagToSet(output) : x[1] # c}}
  ELSE {}

\* HashProbe::getOutput when there is no more input, with
\* HashProbe::prepareForSpillRestore up to the promises of the peers.
FinishProbe(p) ==
  /\ pPc[p] = "end"
  /\ p \notin blocked
  /\ output' = output (+) SetToBag(BuildSideOutput(p))
  /\ result' = [result EXCEPT ![p] = None]
  /\ reader' = [reader EXCEPT ![p] = None]
  /\ lastProber' = lastProber \ {p}
  /\ IF hasMoreSpillData(p)
     THEN /\ pState' = [pState EXCEPT ![p] = "kRunning"]
          /\ IF p \in lastProber
             THEN ProbeFinished /\ pPc' = [pPc EXCEPT ![p] = "notify"]
             ELSE /\ pPc' = [pPc EXCEPT ![p] = "await"]
                  /\ UNCHANGED <<bridgeVars, blocked, failed>>
     ELSE /\ pState' = [pState EXCEPT ![p] = "kFinish"]
          /\ pPc' = [pPc EXCEPT ![p] = "run"]
          /\ UNCHANGED <<bridgeVars, blocked, failed>>
  /\ UNCHANGED <<joinType, groupVars, barrier, buildVars, source, probeSpill,
                 probeSets, terminated, held>>

\* The end of prepareForSpillRestore.
WakeProbers(p) ==
  /\ pPc[p] = "notify"
  /\ Released(p)
  /\ held' = [held EXCEPT ![p] = {}]
  /\ pPc' = [pPc EXCEPT ![p] = "await"]
  /\ UNCHANGED <<joinType, groupVars, bridgeVars, barrier, buildVars, pState,
                 source, result, reader, probeSpill, probeSets, lastProber,
                 terminated, output, failed>>

-----------------------------------------------------------------------------
(* Terminating the task *)

\* Task::terminate, called for an error, a cancellation or an abort, up to the
\* closing of the drivers that are off thread.
Terminate ==
  /\ joinType \in CancelledJoins
  /\ started
  /\ ~terminated
  /\ terminated' = TRUE
  /\ UNCHANGED <<joinType, groupVars, bridgeVars, barrier, blocked, buildVars,
                 pState, pPc, source, result, reader, probeSpill, probeSets,
                 lastProber, held, output, failed>>

\* The end of Task::terminate: the barriers go, and JoinBridge::cancel.
CancelBridge ==
  /\ terminated
  /\ ~cancelled
  /\ cancelled' = TRUE
  /\ barrier' = {}
  /\ promises' = {}
  /\ blocked' = blocked \ (promises \cup barrier)
  /\ UNCHANGED <<joinType, groupVars, started, numBuilders, buildResult,
                 restoringSpillPartitionId, restoringSpillShards,
                 spillPartitionSets, buildVars, probeVars, held, output,
                 failed>>

\* A driver of a terminated task is closed where it is off thread, or when it
\* next looks, between two calls of its operators.
CloseBuilder(b) ==
  /\ terminated
  /\ bPc[b] = "run"
  /\ bState[b] \notin {"kFinish", "kClosed"}
  /\ bState' = [bState EXCEPT ![b] = "kClosed"]
  /\ UNCHANGED <<joinType, groupVars, bridgeVars, barrier, blocked, bPc, input,
                 row, table, spilled, spillRows, spillLevel, nullKeys,
                 probeVars, held, output, failed>>

CloseProber(p) ==
  /\ terminated
  /\ pPc[p] \in {"run", "end"}
  /\ pState[p] \notin {"kFinish", "kClosed"}
  /\ pState' = [pState EXCEPT ![p] = "kClosed"]
  /\ pPc' = [pPc EXCEPT ![p] = "run"]
  /\ UNCHANGED <<joinType, groupVars, bridgeVars, barrier, blocked, buildVars,
                 source, result, reader, probeSpill, probeSets, lastProber,
                 terminated, held, output, failed>>

-----------------------------------------------------------------------------
BuilderStep(b) ==
  \/ CreateBuilder(b)
  \/ AddInput(b)
  \/ AwaitSpill(b)
  \/ RunSpill(b)
  \/ StoreInput(b)
  \/ NoMoreInput(b)
  \/ NullKey(b)
  \/ FinishHashBuild(b)
  \/ MergeTables(b)
  \/ RestartGroup(b)
  \/ WakeBuilders(b)
  \/ PostHashBuild(b)
  \/ CloseBuilder(b)

ProberStep(p) ==
  \/ AsyncWaitForHashTable(p)
  \/ ProbeRow(p)
  \/ NoMoreInputInternal(p)
  \/ FinishProbe(p)
  \/ WakeProbers(p)
  \/ CloseProber(p)

Next ==
  \/ StartDrivers
  \/ \E b \in Builders : BuilderStep(b)
  \/ \E p \in Probers : ProberStep(p)
  \/ Terminate
  \/ CancelBridge

\* Drivers that are not blocked are run, and Task::terminate is not left halfway.
Fairness ==
  /\ WF_vars(StartDrivers)
  /\ WF_vars(CancelBridge)
  /\ \A b \in Builders : WF_vars(BuilderStep(b))
  /\ \A p \in Probers : WF_vars(ProberStep(p))

Spec == Init /\ [][Next]_vars /\ Fairness

-----------------------------------------------------------------------------
(* Properties *)

\* The join of the whole inputs.
BuildRows == InputRows(joinType)
ProbeAllRows == UNION {ProbeInput[joinType][p] : p \in Probers}
Matches == {x \in BuildRows \X ProbeAllRows : x[1][2] = x[2][2]}
LeftOuter == {<<None, r>> : r \in {q \in ProbeAllRows :
                                     \A x \in Matches : x[2] # q}}
RightOuter == {<<b, None>> : b \in {c \in BuildRows :
                                      \A x \in Matches : x[1] # c}}
ExpectedRows ==
  CASE joinType = "left" -> Matches \cup LeftOuter
    [] joinType = "right" -> Matches \cup RightOuter
    [] joinType = "anti" -> IF nullKeys = {} THEN LeftOuter ELSE {}
    [] OTHER -> Matches

\* However the rows are spread over builders, probers, memory and levels of
\* spilled partitions, and whenever each spill happens, every row that HashProbe
\* returns belongs to the join and is returned once, and when all probers have
\* finished and the task goes on no row is missing.
JoinResult ==
  /\ \A x \in BagToSet(output) : x \in ExpectedRows /\ output[x] = 1
  /\ ~terminated /\ (\A p \in Probers : pState[p] = "kFinish") =>
       BagToSet(output) = ExpectedRows

\* While one builder spills the tables of all (HashBuild::runSpill), or takes
\* them (finishHashBuild), no other builder touches a table.
TablesExclusive ==
  \A b, c \in Builders :
    b # c /\ bPc[b] \in {"runSpill", "merge"} =>
      bPc[c] \notin {"store", "runSpill", "merge"}

\* Builders and probers of the join share the barrier that
\* Task::allPeersFinished keeps for the plan node, with different numbers of
\* peers; at no time are drivers of both pipelines in it, and the last to come
\* only takes promises of its own pipeline.
BarrierUnshared ==
  /\ barrier \subseteq Builders \/ barrier \subseteq Probers
  /\ \A b \in Builders : held[b] \subseteq Builders
  /\ \A p \in Probers : held[p] \subseteq Probers

\* An operator that waits for the bridge or for its peers has its promise with
\* the bridge, at the barrier, or with the peer that is about to realize it.
NoLostWaiter ==
  \A o \in blocked :
    \/ o \in promises \cup barrier
    \/ \E q \in AllOperators : o \in held[q]


\* Every operator gets to its end, or is closed with its task.
JoinEnds ==
  <>(/\ \A b \in Builders : bState[b] \in {"kFinish", "kClosed"}
     /\ \A p \in Probers : pState[p] \in {"kFinish", "kClosed"})

=============================================================================
