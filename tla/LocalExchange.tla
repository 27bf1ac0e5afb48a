---------------------------- MODULE LocalExchange ----------------------------
(***************************************************************************)
(* The exchange between two pipelines of one task                          *)
(* (exec/LocalPartition.cpp): LocalPartition operators split their input   *)
(* over LocalExchangeQueues, each read by a LocalExchange operator, and a  *)
(* LocalExchangeMemoryManager limits what all queues hold together.        *)
(*                                                                         *)
(* Every vector counts as one byte, and a queue is the number of vectors   *)
(* in it.  A step is one critical section with the promises it realizes;   *)
(* enqueue has two, on the mutex of the queue and on that of the memory    *)
(* manager.                                                                *)
(***************************************************************************)
EXTENDS Integers, Sequences, FiniteSets, FiniteSetsExt

CONSTANTS
  Producers,       \* the LocalPartition operators
  NumPartitions,   \* the number of queues, one for each LocalExchange
  MaxBufferSize,   \* maxBufferSize_
  MaxInputs,       \* bound: how many inputs each producer gets
  InputParts,      \* the sets of partitions its inputs may have rows of
  EarlyClosers     \* the queues whose reader may stop before the end

Queues == 1..NumPartitions

ASSUME ExchangeAssumption ==
  /\ IsFiniteSet(Producers)
  /\ NumPartitions \in Nat \ {0}
  /\ MaxBufferSize \in Nat \ {0}
  /\ MaxInputs \in [Producers -> Nat]
  /\ InputParts \in [Producers -> SUBSET ((SUBSET Queues) \ {{}})]
  /\ EarlyClosers \subseteq Queues

VARIABLES
  \* LocalExchangeMemoryManager
  bufferedBytes,      \* bufferedBytes_
  promises,           \* promises_, as <<producer, queue>>
  \* LocalExchangeQueue
  queue,              \* the size of queue_
  consumerPromises,   \* the queues with a promise in consumerPromises_
  pendingProducers,   \* pendingProducers_
  noMoreProducers,    \* noMoreProducers_ of all queues
  closed,             \* the queues with closed_
  \* LocalPartition
  created,            \* the producers that have been constructed
  pPc,                \* where each is
  inputs,             \* how many inputs it has had
  sending,            \* the queues it still has to call
  blockingReasons,    \* blockingReasons_
  futures,            \* futures_, by their queues
  waitingOn,          \* what its driver waits for
  \* LocalExchange
  cPc,                \* where each is
  owed                \* how many vectors it still has to return

memoryVars == <<bufferedBytes, promises>>
queueVars == <<queue, consumerPromises, pendingProducers, noMoreProducers,
               closed>>
producerVars == <<created, pPc, inputs, sending, blockingReasons, futures,
                  waitingOn>>
consumerVars == <<cPc, owed>>
vars == <<memoryVars, queueVars, producerVars, consumerVars>>

\* BlockingReason.  The brace initializer blockingReasons_{numPartitions_} makes
\* that many reasons of value zero, kNotBlocked.
Init ==
  /\ bufferedBytes = 0
  /\ promises = {}
  /\ queue = [q \in Queues |-> 0]
  /\ consumerPromises = {}
  /\ pendingProducers = [q \in Queues |-> 0]
  /\ noMoreProducers = FALSE
  /\ closed = {}
  /\ created = {}
  /\ pPc = [p \in Producers |-> "run"]
  /\ inputs = [p \in Producers |-> 0]
  /\ sending = [p \in Producers |-> {}]
  /\ blockingReasons =
       [p \in Producers |-> [i \in Queues |-> "kNotBlocked"]]
  /\ futures = [p \in Producers |-> {}]
  /\ waitingOn = [p \in Producers |-> {}]
  /\ cPc = [q \in Queues |-> "run"]
  /\ owed = [q \in Queues |-> 0]

-----------------------------------------------------------------------------
(* LocalExchangeMemoryManager *)

\* increaseMemoryUsage, by p for its vector in q; 'waits' when it makes a
\* promise.
IncreaseMemoryUsage(p, q, waits) ==
  /\ bufferedBytes' = bufferedBytes + 1
  /\ waits <=> bufferedBytes' >= MaxBufferSize
  /\ promises' = IF waits THEN promises \cup {<<p, q>>} ELSE promises

\* Defect in IsBelowLimit: the limit is taken one too low.
IsWellBelowLimit(bytes) == bytes + 1 < MaxBufferSize

IsBelowLimit(bytes) == bytes < MaxBufferSize

\* decreaseMemoryUsage, and the promises it returns.
DecreaseMemoryUsage(removed) ==
  /\ bufferedBytes' = bufferedBytes - removed
  /\ promises' = IF IsBelowLimit(bufferedBytes') THEN {} ELSE promises

-----------------------------------------------------------------------------
(* Creating the drivers, in Task::createDriversLocked *)

\* addProducer on all queues.
AddedProducers == [q \in Queues |-> pendingProducers[q] + 1]

\* The constructor of LocalPartition.
CreateProducer(p) ==
  /\ ~noMoreProducers
  /\ p \notin created
  /\ created' = created \cup {p}
  /\ pendingProducers' = AddedProducers
  /\ UNCHANGED <<memoryVars, queue, consumerPromises, noMoreProducers, closed,
                 pPc, inputs, sending, blockingReasons, futures, waitingOn,
                 consumerVars>>

\* Task::noMoreLocalExchangeProducers, before any driver runs.
NoMoreProducers ==
  /\ ~noMoreProducers
  /\ created = Producers
  /\ noMoreProducers' = TRUE
  /\ consumerPromises' = {q \in consumerPromises : pendingProducers[q] # 0}
  /\ UNCHANGED <<memoryVars, queue, pendingProducers, closed, producerVars,
                 consumerVars>>

-----------------------------------------------------------------------------
(* LocalPartition *)

\* The driver of p is on thread, between two calls of its operators.
MayRun(p) ==
  /\ noMoreProducers
  /\ pPc[p] = "run"
  /\ \A q \in waitingOn[p] : <<p, q>> \notin promises

\* Defect in WaitsFor: the driver never waits.
WaitsForNone(p) == {}

\* LocalPartition::isBlocked with futures_ not empty: the driver waits for all
\* of them, unless the first reason says it is not blocked.
WaitsFor(p) ==
  IF Head(blockingReasons[p]) = "kNotBlocked" THEN {} ELSE futures[p]

IsBlocked(p) ==
  /\ MayRun(p)
  /\ futures[p] # {}
  /\ waitingOn' = [waitingOn EXCEPT ![p] = WaitsFor(p)]
  /\ futures' = [futures EXCEPT ![p] = {}]
  /\ blockingReasons' = [blockingReasons EXCEPT ![p] = <<>>]
  /\ UNCHANGED <<memoryVars, queueVars, created, pPc, inputs, sending,
                 consumerVars>>

\* LocalPartition::addInput, up to the first enqueue: the partitions that get
\* rows of the input.
AddInput(p) ==
  /\ MayRun(p)
  /\ futures[p] = {}
  /\ inputs[p] < MaxInputs[p]
  /\ inputs' = [inputs EXCEPT ![p] = @ + 1]
  /\ \E parts \in InputParts[p] :
       /\ sending' = [sending EXCEPT ![p] = parts]
       /\ owed' = [q \in Queues |->
                     IF q \in parts \ closed THEN owed[q] + 1 ELSE owed[q]]
  /\ pPc' = [pPc EXCEPT ![p] = "enqueue"]
  /\ waitingOn' = [waitingOn EXCEPT ![p] = {}]
  /\ UNCHANGED <<memoryVars, queueVars, created, blockingReasons, futures,
                 cPc>>

\* p goes on to the next queue, or returns to its driver.
NextQueue(p, pc) ==
  LET rest == sending[p] \ {Min(sending[p])} IN
  /\ sending' = [sending EXCEPT ![p] = rest]
  /\ pPc' = [pPc EXCEPT ![p] = IF rest # {} THEN pc
                               ELSE IF pc = "noMoreData" THEN "done" ELSE "run"]

\* Defect in Woken: the promise of the reader is left behind.
WokenLater(q) == consumerPromises

\* The promises of the reader of q are moved out and realized.
Woken(q) == consumerPromises \ {q}

\* LocalExchangeQueue::enqueue, the first critical section.
Enqueue(p) ==
  LET q == Min(sending[p]) IN
  /\ pPc[p] = "enqueue"
  /\ IF q \in closed
     THEN /\ NextQueue(p, "enqueue")
          /\ UNCHANGED <<queue, consumerPromises>>
     ELSE /\ queue' = [queue EXCEPT ![q] = @ + 1]
          /\ consumerPromises' = Woken(q)
          /\ pPc' = [pPc EXCEPT ![p] = "increase"]
          /\ UNCHANGED sending
  /\ UNCHANGED <<memoryVars, pendingProducers, noMoreProducers, closed, created,
                 inputs, blockingReasons, futures, waitingOn,
                 consumerVars>>

\* The rest of enqueue, and what addInput does with its result.
FinishEnqueue(p) ==
  LET q == Min(sending[p]) IN
  /\ pPc[p] = "increase"
  /\ \E waits \in BOOLEAN :
       /\ IncreaseMemoryUsage(p, q, waits)
       /\ IF waits
          THEN /\ futures' = [futures EXCEPT ![p] = @ \cup {q}]
               /\ blockingReasons' = [blockingReasons EXCEPT
                                        ![p] = Append(@, "kWaitForConsumer")]
          ELSE UNCHANGED <<futures, blockingReasons>>
  /\ NextQueue(p, "enqueue")
  /\ UNCHANGED <<queueVars, created, inputs, waitingOn, consumerVars>>

\* LocalPartition::noMoreInput, up to the first queue.
NoMoreInput(p) ==
  /\ MayRun(p)
  /\ futures[p] = {}
  /\ sending' = [sending EXCEPT ![p] = Queues]
  /\ pPc' = [pPc EXCEPT ![p] = "noMoreData"]
  /\ waitingOn' = [waitingOn EXCEPT ![p] = {}]
  /\ UNCHANGED <<memoryVars, queueVars, created, inputs, blockingReasons,
                 futures, consumerVars>>

\* Defect in EndsConsumers: the end is announced by nobody.
EndsNobody(q) == FALSE

\* The last producer of q has finished.
EndsConsumers(q) == noMoreProducers /\ pendingProducers[q] = 1

\* LocalExchangeQueue::noMoreData.
NoMoreData(p) ==
  LET q == Min(sending[p]) IN
  /\ pPc[p] = "noMoreData"
  /\ pendingProducers' = [pendingProducers EXCEPT ![q] = @ - 1]
  /\ consumerPromises' = IF EndsConsumers(q) THEN consumerPromises \ {q}
                         ELSE consumerPromises
  /\ NextQueue(p, "noMoreData")
  /\ UNCHANGED <<memoryVars, queue, noMoreProducers, closed, created, inputs,
                 blockingReasons, futures, waitingOn, consumerVars>>

-----------------------------------------------------------------------------
(* LocalExchange *)

\* Defect in IsFinished: one producer is enough.
IsFinishedByOne(q) ==
  q \in closed \/ (pendingProducers[q] < Cardinality(Producers) /\ queue[q] = 0)

\* LocalExchangeQueue::isFinishedLocked.
IsFinished(q) ==
  \/ q \in closed
  \/ noMoreProducers /\ pendingProducers[q] = 0 /\ queue[q] = 0

\* LocalExchange::getOutput with LocalExchangeQueue::next, and
\* LocalExchange::isFinished after it.
GetOutput(q) ==
  /\ noMoreProducers
  /\ cPc[q] = "run"
  /\ q \notin consumerPromises
  /\ IF queue[q] > 0
     THEN /\ owed' = [owed EXCEPT ![q] = @ - 1]
          /\ queue' = [queue EXCEPT ![q] = @ - 1]
          /\ DecreaseMemoryUsage(1)
          /\ UNCHANGED <<consumerPromises, cPc>>
     ELSE /\ IF IsFinished(q)
             THEN /\ cPc' = [cPc EXCEPT ![q] = "finished"]
                  /\ UNCHANGED consumerPromises
             ELSE /\ consumerPromises' = consumerPromises \cup {q}
                  /\ UNCHANGED cPc
          /\ UNCHANGED <<memoryVars, queue, owed>>
  /\ UNCHANGED <<pendingProducers, noMoreProducers, closed, producerVars>>

\* Defect in FreedBytes: what is dropped is not taken off.
FreedNothing(q) == 0

\* What close drops.
FreedBytes(q) == queue[q]

\* LocalExchange::close with LocalExchangeQueue::close, at the end or when an
\* operator downstream needs no more data.
Close(q) ==
  /\ noMoreProducers
  /\ \/ cPc[q] = "finished"
     \/ cPc[q] = "run" /\ q \in EarlyClosers /\ q \notin consumerPromises
  /\ cPc' = [cPc EXCEPT ![q] = "closed"]
  /\ queue' = [queue EXCEPT ![q] = 0]
  /\ IF FreedBytes(q) > 0 THEN DecreaseMemoryUsage(FreedBytes(q))
     ELSE UNCHANGED memoryVars
  /\ consumerPromises' = consumerPromises \ {q}
  /\ closed' = closed \cup {q}
  /\ owed' = [owed EXCEPT ![q] = 0]
  /\ UNCHANGED <<pendingProducers, noMoreProducers, producerVars>>

-----------------------------------------------------------------------------
ProducerStep(p) ==
  \/ CreateProducer(p)
  \/ IsBlocked(p)
  \/ AddInput(p)
  \/ Enqueue(p)
  \/ FinishEnqueue(p)
  \/ NoMoreInput(p)
  \/ NoMoreData(p)

ConsumerStep(q) == GetOutput(q) \/ Close(q)

Next ==
  \/ NoMoreProducers
  \/ \E p \in Producers : ProducerStep(p)
  \/ \E q \in Queues : ConsumerStep(q)

\* Drivers that are not blocked are run.
Spec ==
  /\ Init
  /\ [][Next]_vars
  /\ WF_vars(NoMoreProducers)
  /\ \A p \in Producers : WF_vars(ProducerStep(p))
  /\ \A q \in Queues : WF_vars(ConsumerStep(q))

-----------------------------------------------------------------------------
(* Properties *)

TypeOK ==
  /\ bufferedBytes \in Int
  /\ promises \subseteq Producers \X Queues
  /\ queue \in [Queues -> Nat]
  /\ consumerPromises \subseteq Queues
  /\ pendingProducers \in [Queues -> Nat]
  /\ noMoreProducers \in BOOLEAN
  /\ closed \subseteq Queues
  /\ created \subseteq Producers
  /\ pPc \in [Producers -> {"run", "enqueue", "increase", "noMoreData", "done"}]
  /\ inputs \in [Producers -> Nat]
  /\ sending \in [Producers -> SUBSET Queues]
  /\ futures \in [Producers -> SUBSET Queues]
  /\ waitingOn \in [Producers -> SUBSET Queues]
  /\ cPc \in [Queues -> {"run", "finished", "closed"}]
  /\ owed \in [Queues -> Nat]

\* n[x] pairs for each x in S.
Stacked(S, n) == UNION {{x} \X (1 .. n[x]) : x \in S}

\* The bytes that all queues hold.
QueuedBytes == Cardinality(Stacked(Queues, queue))

\* The producers between the two critical sections of enqueue.
Increasing == {p \in Producers : pPc[p] = "increase"}

\* bufferedBytes_ is what the queues hold, less the vectors whose producer is
\* between the two critical sections of enqueue; it may be negative meanwhile.
MemoryAccounting == bufferedBytes = QueuedBytes - Cardinality(Increasing)

\* A producer is only kept waiting while the queues hold as much as the limit:
\* there is a reader that has data to take and will resume it
\* (LocalPartition.cpp:49).
BlockedHasData == promises # {} => QueuedBytes >= MaxBufferSize

\* A reader only waits while its queue is empty and a producer is still to
\* come to it: no data and no end is announced to nobody (LocalPartition.cpp:97,
\* 121).
NoMissedData ==
  \A q \in consumerPromises :
    /\ queue[q] = 0
    /\ q \notin closed
    /\ ~(noMoreProducers /\ pendingProducers[q] = 0)

\* A reader that has come to the end (LocalExchange::isFinished) has had every
\* vector that any producer made for it, and none makes more.
ReaderGetsAll ==
  \A q \in Queues :
    cPc[q] = "finished" =>
      owed[q] = 0 /\ \A p \in Producers : pPc[p] \in {"noMoreData", "done"}

\* The limit is soft.  A producer fills all queues before it looks whether it is
\* blocked, and the first time it is told that it is not (the reasons that
\* blockingReasons_ starts with); beyond that the queues do not grow.
BoundedBuffer ==
  QueuedBytes < MaxBufferSize + 2 * Cardinality(Producers) * NumPartitions

\* All producers finish and all readers come to their end.
ExchangeEnds ==
  <>(/\ \A p \in Producers : pPc[p] = "done"
     /\ \A q \in Queues : cPc[q] = "closed")

\* A producer that is blocked gets no input (LocalPartition.h:174): while a
\* future that it was given is not realized, addInput is not called.
BlockedGetsNoInput ==
  [][\A p \in Producers :
       inputs'[p] # inputs[p] => \A q \in Queues : <<p, q>> \notin promises]_vars

-----------------------------------------------------------------------------
(* The inductive invariant of the proofs *)

\* The producers that pendingProducers_ of q counts.
Awaited(q) ==
  {p \in created : pPc[p] # "done" /\ (pPc[p] = "noMoreData" => q \in sending[p])}

\* The producers that have a vector for q which is not in the queue yet.
Owing(q) ==
  {p \in Producers : /\ q \in sending[p]
                     /\ \/ pPc[p] = "enqueue"
                        \/ pPc[p] = "increase" /\ q # Min(sending[p])}

\* The phases of the producers follow each other.
PhasesOK ==
  /\ noMoreProducers => created = Producers
  /\ \A p \in Producers :
       /\ pPc[p] # "run" => noMoreProducers
       /\ pPc[p] \in {"run", "done"} <=> sending[p] = {}

\* Promises are only kept while the limit is reached.
LimitReached == promises # {} => bufferedBytes >= MaxBufferSize

\* What pendingProducers_ counts, what is still to come for a reader, and what
\* a reader that has finished has seen.
CountsOK ==
  \A q \in Queues :
    /\ pendingProducers[q] = Cardinality(Awaited(q))
    /\ q \in closed <=> cPc[q] = "closed"
    /\ q \notin closed => owed[q] = queue[q] + Cardinality(Owing(q))
    /\ cPc[q] = "finished" => /\ noMoreProducers
                              /\ pendingProducers[q] = 0
                              /\ queue[q] = 0

ExchangeInv == TypeOK /\ PhasesOK /\ LimitReached /\ NoMissedData /\ CountsOK

\* Every future has its reason, and a driver that waits calls no queue.
FuturesOK ==
  /\ blockingReasons \in [Producers -> Seq({"kNotBlocked", "kWaitForConsumer"})]
  /\ \A p \in Producers : /\ futures[p] # {} => blockingReasons[p] # <<>>
                          /\ pPc[p] # "run" => waitingOn[p] = {}

\* One of these futures of p is not realized.
HasPromise(p, qs) == \E q \in qs : <<p, q>> \in promises

\* What is left of its input if it is going to wait after it, or else an input.
Left(p) == IF HasPromise(p, futures[p]) THEN Cardinality(sending[p])
           ELSE NumPartitions

\* One more input, if isBlocked is going to find that it is not blocked.
Again(p) ==
  IF blockingReasons[p] # <<>> /\ Head(blockingReasons[p]) = "kNotBlocked"
  THEN NumPartitions ELSE 0

\* How many vectors p can still enqueue while the limit is reached and nobody is
\* resumed.
Room(p) == IF HasPromise(p, waitingOn[p]) THEN 0 ELSE Left(p) + Again(p)

Rooms == Stacked(Producers, [p \in Producers |-> Room(p)])

\* Beyond the limit the queues grow into this room only.
RoomOK ==
  bufferedBytes >= MaxBufferSize =>
    bufferedBytes + Cardinality(Rooms) <
      MaxBufferSize + 2 * Cardinality(Producers) * NumPartitions

BufferInv == FuturesOK /\ MemoryAccounting /\ RoomOK

=============================================================================
