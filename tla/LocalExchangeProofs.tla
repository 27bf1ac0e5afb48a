------------------------- MODULE LocalExchangeProofs -------------------------
(***************************************************************************)
(* Proofs about LocalExchange, for any finite set of producers, any number *)
(* of queues and any limit.  ExchangeInv says which producers the counter  *)
(* of a queue stands for and where the vectors made for its reader are;    *)
(* every step moves one producer into or out of these sets.                *)
(*                                                                         *)
(* BufferInv is about the memory manager.  The vectors of all queues, and  *)
(* those that the producers may still add while the limit is reached, are  *)
(* counted as elements of a set, which changes in one queue or producer at *)
(* a time.                                                                 *)
(***************************************************************************)
EXTENDS LocalExchange, FiniteSetTheorems, WellFoundedInduction, TLAPS

\* The queue that is next in a loop over queues is one of them.
LEMMA MinMember ==
  ASSUME NEW S \in SUBSET Queues, S # {}
  PROVE  Min(S) \in S /\ Min(S) \in Queues
<1>1. S \subseteq Nat
  BY ExchangeAssumption DEF Queues
<1>2. PICK x \in S : \A y \in S : ~(<<y, x>> \in OpToRel(<, Nat))
  BY Zenon, <1>1, WFMin, NatLessThanWellFounded
<1>3. \A y \in S : x =< y
  <2>1. ASSUME NEW y \in S, y < x PROVE <<y, x>> \in OpToRel(<, Nat)
    BY Zenon, <1>1, <2>1 DEF OpToRel
  <2>2. \A y \in S : ~(y < x)
    BY Zenon, <1>2, <2>1
  <2> QED
    BY <1>1, <2>2
<1> QED
  BY Zenon, <1>3 DEF Min

\* Sets of producers have sizes, which change with their members one by one.
LEMMA ProducerSets ==
  ASSUME NEW S \in SUBSET Producers
  PROVE  /\ Cardinality(S) \in Nat
         /\ Cardinality(S) = 0 <=> S = {}
         /\ \A p \in S : Cardinality(S \ {p}) = Cardinality(S) - 1
         /\ \A p \in Producers \ S : Cardinality(S \cup {p}) = Cardinality(S) + 1
<1>1. IsFiniteSet(S)
  BY Zenon, FS_Subset, ExchangeAssumption
<1> QED
  BY Zenon, <1>1, FS_CardinalityType, FS_EmptySet, FS_RemoveElement, FS_AddElement

\* The sets of the counts are sets of producers.
LEMMA CountedSets ==
  ASSUME TypeOK, NEW q
  PROVE  Awaited(q) \in SUBSET Producers /\ Owing(q) \in SUBSET Producers
BY Zenon DEF TypeOK, Awaited, Owing

\* The first state.
LEMMA InitStep == Init => ExchangeInv
<1> SUFFICES ASSUME Init PROVE ExchangeInv
  BY Zenon
<1>1. noMoreProducers \in BOOLEAN
  BY Zenon DEF Init
<1>2. TypeOK
  BY <1>1 DEF Init, TypeOK
<1>3. PhasesOK
  <2>1. ~noMoreProducers
    BY Zenon DEF Init
  <2>2. \A p \in Producers : pPc[p] = "run" /\ sending[p] = {}
    BY Zenon DEF Init
  <2> QED
    BY Zenon, <2>1, <2>2 DEF PhasesOK
<1>4. LimitReached /\ NoMissedData
  BY Zenon DEF Init, LimitReached, NoMissedData
<1>5. ASSUME NEW q \in Queues PROVE Awaited(q) = {} /\ Owing(q) = {}
  BY Zenon DEF Init, Awaited, Owing
<1>6. \A q \in Queues : /\ pendingProducers[q] = 0 /\ owed[q] = 0 /\ queue[q] = 0
                         /\ q \notin closed /\ cPc[q] = "run"
  BY Zenon DEF Init
<1>7. \A q \in Queues : Cardinality(Awaited(q)) = 0 /\ Cardinality(Owing(q)) = 0
  BY Zenon, <1>5, FS_EmptySet
<1>8. 0 = 0 + 0 /\ "run" # "closed" /\ "run" # "finished"
  OBVIOUS
<1>9. CountsOK
  BY Zenon, <1>6, <1>7, <1>8 DEF CountsOK
<1> QED
  BY Zenon, <1>2, <1>3, <1>4, <1>9 DEF ExchangeInv

\* A new producer is counted by every queue.
LEMMA CreateProducerStep ==
  ASSUME ExchangeInv, NEW p \in Producers, CreateProducer(p)
  PROVE  ExchangeInv'
<1> USE DEF ExchangeInv
<1>0. p \notin created /\ pPc[p] = "run" /\ sending[p] = {}
  BY Zenon DEF CreateProducer, PhasesOK
<1>1. TypeOK'
  BY DEF CreateProducer, AddedProducers, TypeOK, memoryVars, consumerVars
<1>2. PhasesOK' /\ LimitReached'
  BY Zenon DEF CreateProducer, PhasesOK, LimitReached, memoryVars
<1>3. NoMissedData'
  BY Zenon DEF CreateProducer, NoMissedData
<1>4. ASSUME NEW q \in Queues
      PROVE  Awaited(q)' = Awaited(q) \cup {p} /\ Owing(q)' = Owing(q)
  BY Zenon, <1>0 DEF CreateProducer, Awaited, Owing, PhasesOK
<1>5. ASSUME NEW q \in Queues
      PROVE  Cardinality(Awaited(q)') = Cardinality(Awaited(q)) + 1
  <2>1. p \notin Awaited(q)
    BY Zenon, <1>0 DEF Awaited
  <2> QED
    BY ZenonT(30), <1>4, <2>1, CountedSets, ProducerSets
<1>6. \A q \in Queues : cPc[q] # "finished"
  BY Zenon DEF CreateProducer, CountsOK
<1>7. CountsOK'
  BY Zenon, <1>4, <1>5, <1>6 DEF CreateProducer, AddedProducers, CountsOK, consumerVars
<1> QED
  BY Zenon, <1>1, <1>2, <1>3, <1>7

\* noMoreProducers wakes the readers of queues without producers.
LEMMA NoMoreProducersStep ==
  ASSUME ExchangeInv, NoMoreProducers
  PROVE  ExchangeInv'
<1> USE DEF ExchangeInv
<1>0. noMoreProducers' \in BOOLEAN
  BY Zenon DEF NoMoreProducers
<1>1. TypeOK'
  BY Zenon, <1>0 DEF NoMoreProducers, TypeOK, memoryVars, producerVars, consumerVars
<1>2. PhasesOK'
  BY Zenon DEF NoMoreProducers, PhasesOK, producerVars
<1>3. LimitReached'
  BY Zenon DEF NoMoreProducers, LimitReached, memoryVars
<1>4. NoMissedData'
  BY Zenon DEF NoMoreProducers, NoMissedData
<1>5. ASSUME NEW q \in Queues
      PROVE  Awaited(q)' = Awaited(q) /\ Owing(q)' = Owing(q)
  BY Zenon DEF NoMoreProducers, Awaited, Owing, producerVars
<1>6. CountsOK'
  BY Zenon, <1>5 DEF NoMoreProducers, CountsOK, consumerVars
<1> QED
  BY Zenon, <1>1, <1>2, <1>3, <1>4, <1>6

\* isBlocked changes nothing that the invariant is about.
LEMMA IsBlockedStep ==
  ASSUME ExchangeInv, NEW p \in Producers, IsBlocked(p)
  PROVE  ExchangeInv'
<1> USE DEF ExchangeInv
<1>1. TypeOK'
  BY Zenon DEF IsBlocked, WaitsFor, TypeOK, memoryVars, queueVars, consumerVars
<1>2. PhasesOK' /\ LimitReached' /\ NoMissedData'
  BY Zenon DEF IsBlocked, PhasesOK, LimitReached, NoMissedData, memoryVars, queueVars
<1>3. ASSUME NEW q \in Queues
      PROVE  Awaited(q)' = Awaited(q) /\ Owing(q)' = Owing(q)
  BY Zenon DEF IsBlocked, Awaited, Owing
<1>4. CountsOK'
  BY Zenon, <1>3 DEF IsBlocked, CountsOK, queueVars, consumerVars
<1> QED
  BY Zenon, <1>1, <1>2, <1>4

\* An input makes its producer owe a vector to each queue it has rows for.
LEMMA AddInputStep ==
  ASSUME ExchangeInv, NEW p \in Producers, AddInput(p)
  PROVE  ExchangeInv'
<1> USE DEF ExchangeInv
<1>0. PICK parts \in InputParts[p] :
        /\ sending' = [sending EXCEPT ![p] = parts]
        /\ owed' = [q \in Queues |->
                      IF q \in parts \ closed THEN owed[q] + 1 ELSE owed[q]]
  BY Zenon DEF AddInput
<1>a. parts \in SUBSET Queues /\ parts # {}
  BY Zenon, <1>0, ExchangeAssumption
<1>b. noMoreProducers /\ pPc[p] = "run" /\ sending[p] = {}
  BY Zenon DEF AddInput, MayRun, PhasesOK
<1>1. TypeOK'
  BY <1>0, <1>a DEF AddInput, TypeOK, memoryVars, queueVars
<1>2. PhasesOK'
  BY Zenon, <1>0, <1>a, <1>b DEF AddInput, PhasesOK, queueVars, TypeOK
<1>3. LimitReached' /\ NoMissedData'
  BY Zenon DEF AddInput, LimitReached, NoMissedData, memoryVars, queueVars
<1>4. ASSUME NEW q \in Queues
      PROVE  /\ Awaited(q)' = Awaited(q)
             /\ p \in Awaited(q)
             /\ p \notin Owing(q)
             /\ Owing(q)' = IF q \in parts THEN Owing(q) \cup {p} ELSE Owing(q)
  <2>1. Awaited(q)' = Awaited(q) /\ p \in Awaited(q) /\ p \notin Owing(q)
    BY Zenon, <1>0, <1>b DEF AddInput, Awaited, Owing, TypeOK, PhasesOK
  <2>2. pPc' = [pPc EXCEPT ![p] = "enqueue"]
    BY Zenon DEF AddInput
  <2>3. Owing(q)' = IF q \in parts THEN Owing(q) \cup {p} ELSE Owing(q)
    BY Zenon, <1>0, <1>b, <2>2 DEF Owing, TypeOK
  <2> QED
    BY Zenon, <2>1, <2>3
<1>5. ASSUME NEW q \in Queues
      PROVE  Cardinality(Owing(q)') =
               IF q \in parts THEN Cardinality(Owing(q)) + 1
               ELSE Cardinality(Owing(q))
  BY <1>4, CountedSets, ProducerSets
<1>6. ASSUME NEW q \in Queues
      PROVE  Cardinality(Owing(q)) \in Nat /\ owed[q] \in Nat /\ queue[q] \in Nat
  BY Zenon, CountedSets, ProducerSets DEF TypeOK
<1>7. CountsOK'
  BY <1>0, <1>4, <1>5, <1>6 DEF AddInput, CountsOK, queueVars
<1> QED
  BY Zenon, <1>1, <1>2, <1>3, <1>7

\* Pushing a vector takes its producer out of those that owe the queue one; a
\* closed queue is owed nothing.
LEMMA EnqueueStep ==
  ASSUME ExchangeInv, NEW p \in Producers, Enqueue(p)
  PROVE  ExchangeInv'
<1> USE DEF ExchangeInv
<1>0. pPc[p] = "enqueue" /\ sending[p] # {} /\ noMoreProducers
  BY Zenon DEF Enqueue, PhasesOK
<1>a. PICK m \in Queues : m = Min(sending[p]) /\ m \in sending[p]
  BY Zenon, <1>0, MinMember DEF TypeOK
<1>b. CASE m \in closed
  <2>0. /\ queue' = queue /\ consumerPromises' = consumerPromises
        /\ sending' = [sending EXCEPT ![p] = @ \ {m}]
        /\ pPc' = [pPc EXCEPT ![p] = IF sending[p] \ {m} # {} THEN "enqueue"
                                     ELSE "run"]
    BY Zenon, <1>a, <1>b DEF Enqueue, NextQueue
  <2>1. TypeOK'
    BY Zenon, <2>0 DEF Enqueue, TypeOK, memoryVars, consumerVars
  <2>2. PhasesOK'
    BY Zenon, <1>0, <2>0 DEF Enqueue, PhasesOK, TypeOK
  <2>3. LimitReached' /\ NoMissedData'
    BY Zenon, <2>0 DEF Enqueue, LimitReached, NoMissedData, memoryVars
  <2>4. ASSUME NEW q \in Queues, q # m
        PROVE  Awaited(q)' = Awaited(q) /\ Owing(q)' = Owing(q)
    BY <1>0, <2>0, <2>4 DEF Enqueue, Awaited, Owing, TypeOK
  <2>5. Awaited(m)' = Awaited(m)
    BY Zenon, <1>0, <2>0 DEF Enqueue, Awaited, TypeOK
  <2>6. CountsOK'
    BY ZenonT(30), <1>b, <2>0, <2>4, <2>5 DEF Enqueue, CountsOK, consumerVars
  <2> QED
    BY Zenon, <2>1, <2>2, <2>3, <2>6
<1>c. CASE m \notin closed
  <2>0. /\ queue' = [queue EXCEPT ![m] = @ + 1]
        /\ consumerPromises' = consumerPromises \ {m}
        /\ sending' = sending
        /\ pPc' = [pPc EXCEPT ![p] = "increase"]
    BY Zenon, <1>a, <1>c DEF Enqueue, Woken
  <2>1. TypeOK'
    BY <2>0 DEF Enqueue, TypeOK, memoryVars, consumerVars
  <2>2. PhasesOK'
    BY Zenon, <1>0, <2>0 DEF Enqueue, PhasesOK, TypeOK
  <2>3. LimitReached' /\ NoMissedData'
    BY Zenon, <2>0 DEF Enqueue, LimitReached, NoMissedData, memoryVars, TypeOK
  <2>4. ASSUME NEW q \in Queues PROVE Awaited(q)' = Awaited(q)
    BY Zenon, <1>0, <2>0 DEF Enqueue, Awaited, TypeOK
  <2>5. ASSUME NEW q \in Queues, q # m PROVE Owing(q)' = Owing(q)
    BY Zenon, <1>0, <1>a, <2>0, <2>5 DEF Owing, TypeOK
  <2>6. Owing(m)' = Owing(m) \ {p} /\ p \in Owing(m) /\ p \in Awaited(m)
    BY Zenon, <1>0, <1>a, <2>0 DEF Owing, Awaited, TypeOK, PhasesOK
  <2>7. Cardinality(Owing(m)') = Cardinality(Owing(m)) - 1
    BY ZenonT(30), <2>6, CountedSets, ProducerSets
  <2>8. Cardinality(Awaited(m)) # 0
    BY Zenon, <2>6, CountedSets, ProducerSets
  <2>9. /\ Cardinality(Owing(m)) \in Nat /\ owed[m] \in Nat /\ queue[m] \in Nat
        /\ queue'[m] = queue[m] + 1
        /\ \A q \in Queues : q # m => queue'[q] = queue[q]
    BY Zenon, <1>a, <2>0, CountedSets, ProducerSets DEF TypeOK
  <2>10. cPc[m] # "finished"
    BY Zenon, <1>a, <2>8 DEF CountsOK
  <2>11. CountsOK'
    BY SMTT(30), <2>4, <2>5, <2>7, <2>9, <2>10 DEF Enqueue, CountsOK, consumerVars
  <2> QED
    BY Zenon, <2>1, <2>2, <2>3, <2>11
<1> QED
  BY Zenon, <1>b, <1>c

\* Adding the size makes a promise only when the limit is reached.
LEMMA FinishEnqueueStep ==
  ASSUME ExchangeInv, NEW p \in Producers, FinishEnqueue(p)
  PROVE  ExchangeInv'
<1> USE DEF ExchangeInv
<1>0. pPc[p] = "increase" /\ sending[p] # {} /\ noMoreProducers
  BY Zenon DEF FinishEnqueue, PhasesOK
<1>a. PICK m \in Queues : m = Min(sending[p]) /\ m \in sending[p]
  BY Zenon, <1>0, MinMember DEF TypeOK
<1>b. PICK waits \in BOOLEAN :
        /\ IncreaseMemoryUsage(p, m, waits)
        /\ IF waits THEN futures' = [futures EXCEPT ![p] = @ \cup {m}]
           ELSE futures' = futures
  BY Zenon, <1>a DEF FinishEnqueue
<1>c. /\ sending' = [sending EXCEPT ![p] = @ \ {m}]
      /\ pPc' = [pPc EXCEPT ![p] = IF sending[p] \ {m} # {} THEN "enqueue"
                                   ELSE "run"]
  BY Zenon, <1>a DEF FinishEnqueue, NextQueue
<1>d. /\ bufferedBytes' = bufferedBytes + 1
      /\ \/ promises' = promises
         \/ promises' = promises \cup {<<p, m>>} /\ bufferedBytes' >= MaxBufferSize
  BY Zenon, <1>b DEF IncreaseMemoryUsage
<1>e. futures' \in [Producers -> SUBSET Queues]
  BY <1>a, <1>b DEF TypeOK
<1>f. UNCHANGED <<queueVars, created, inputs, waitingOn, consumerVars>>
  BY Zenon DEF FinishEnqueue
<1>g. bufferedBytes' \in Int /\ promises' \subseteq Producers \X Queues
  BY <1>a, <1>d DEF TypeOK
<1>h. /\ sending' \in [Producers -> SUBSET Queues]
      /\ pPc' \in [Producers -> {"run", "enqueue", "increase", "noMoreData", "done"}]
  BY Zenon, <1>c DEF TypeOK
<1>1. TypeOK'
  BY Zenon, <1>e, <1>f, <1>g, <1>h DEF TypeOK, queueVars, consumerVars
<1>2. PhasesOK'
  BY Zenon, <1>0, <1>c DEF FinishEnqueue, PhasesOK, TypeOK, queueVars
<1>3. LimitReached'
  BY <1>d, ExchangeAssumption DEF LimitReached, TypeOK
<1>4. NoMissedData'
  BY Zenon DEF FinishEnqueue, NoMissedData, queueVars
<1>5. ASSUME NEW q \in Queues
      PROVE  Awaited(q)' = Awaited(q)
  BY Zenon, <1>0, <1>c DEF FinishEnqueue, Awaited, TypeOK
<1>6. ASSUME NEW q \in Queues
      PROVE  Owing(q)' = Owing(q)
  BY Zenon, <1>0, <1>a, <1>c DEF Owing, TypeOK
<1>7. CountsOK'
  BY Zenon, <1>5, <1>6 DEF FinishEnqueue, CountsOK, queueVars, consumerVars
<1> QED
  BY Zenon, <1>1, <1>2, <1>3, <1>4, <1>7

\* The end of the input changes no count: its producer now has all queues left.
LEMMA NoMoreInputStep ==
  ASSUME ExchangeInv, NEW p \in Producers, NoMoreInput(p)
  PROVE  ExchangeInv'
<1> USE DEF ExchangeInv
<1>0. noMoreProducers /\ pPc[p] = "run" /\ sending[p] = {}
  BY Zenon DEF NoMoreInput, MayRun, PhasesOK
<1>a. Queues # {}
  BY ExchangeAssumption DEF Queues
<1>1. TypeOK'
  BY Zenon DEF NoMoreInput, TypeOK, memoryVars, queueVars, consumerVars
<1>2. PhasesOK'
  BY Zenon, <1>0, <1>a DEF NoMoreInput, PhasesOK, queueVars, TypeOK
<1>3. LimitReached' /\ NoMissedData'
  BY Zenon DEF NoMoreInput, LimitReached, NoMissedData, memoryVars, queueVars
<1>4. ASSUME NEW q \in Queues
      PROVE  Awaited(q)' = Awaited(q) /\ Owing(q)' = Owing(q)
  BY Zenon, <1>0 DEF NoMoreInput, Awaited, Owing, TypeOK
<1>5. CountsOK'
  BY Zenon, <1>4 DEF NoMoreInput, CountsOK, queueVars, consumerVars
<1> QED
  BY Zenon, <1>1, <1>2, <1>3, <1>5

\* noMoreData takes its producer off the count of the queue, and wakes the
\* reader when it was the last.
LEMMA NoMoreDataStep ==
  ASSUME ExchangeInv, NEW p \in Producers, NoMoreData(p)
  PROVE  ExchangeInv'
<1> USE DEF ExchangeInv
<1>0. pPc[p] = "noMoreData" /\ sending[p] # {} /\ noMoreProducers /\ p \in created
  BY Zenon DEF NoMoreData, PhasesOK
<1>a. PICK m \in Queues : m = Min(sending[p]) /\ m \in sending[p]
  BY Zenon, <1>0, MinMember DEF TypeOK
<1>b. /\ pendingProducers' = [pendingProducers EXCEPT ![m] = @ - 1]
      /\ consumerPromises' = IF pendingProducers[m] = 1 THEN consumerPromises \ {m}
                             ELSE consumerPromises
  BY Zenon, <1>0, <1>a DEF NoMoreData, EndsConsumers
<1>c. /\ sending' = [sending EXCEPT ![p] = @ \ {m}]
      /\ pPc' = [pPc EXCEPT ![p] = IF sending[p] \ {m} # {} THEN "noMoreData"
                                   ELSE "done"]
  BY Zenon, <1>a DEF NoMoreData, NextQueue
<1>d. ASSUME NEW q \in Queues
      PROVE  Owing(q)' = Owing(q)
  BY Zenon, <1>0, <1>c DEF Owing, TypeOK
<1>e. ASSUME NEW q \in Queues, q # m
      PROVE  Awaited(q)' = Awaited(q)
  <2>1. created' = created
    BY Zenon DEF NoMoreData
  <2> QED
    BY Zenon, <1>0, <1>c, <1>e, <2>1 DEF Awaited, TypeOK
<1>f. Awaited(m)' = Awaited(m) \ {p} /\ p \in Awaited(m)
  <2>1. created' = created
    BY Zenon DEF NoMoreData
  <2> QED
    BY Zenon, <1>0, <1>a, <1>c, <2>1 DEF Awaited, TypeOK
<1>g. /\ Cardinality(Awaited(m)') = Cardinality(Awaited(m)) - 1
      /\ Cardinality(Awaited(m)) \in Nat \ {0}
  BY Zenon, <1>f, CountedSets, ProducerSets
<1>h. /\ pendingProducers[m] \in Nat \ {0}
      /\ pendingProducers'[m] = pendingProducers[m] - 1
      /\ \A q \in Queues : q # m => pendingProducers'[q] = pendingProducers[q]
  BY Zenon, <1>b, <1>g DEF CountsOK, TypeOK
<1>1. TypeOK'
  BY <1>b, <1>c, <1>h DEF NoMoreData, TypeOK, memoryVars, consumerVars
<1>2. PhasesOK'
  BY Zenon, <1>0, <1>c DEF NoMoreData, PhasesOK, TypeOK
<1>3. LimitReached'
  BY Zenon DEF NoMoreData, LimitReached, memoryVars
<1>4. NoMissedData'
  BY <1>b, <1>h DEF NoMoreData, NoMissedData, TypeOK
<1>5. cPc[m] # "finished"
  BY Zenon, <1>h DEF CountsOK
<1>6. CountsOK'
  BY ZenonT(30), <1>d, <1>e, <1>g, <1>h, <1>5 DEF NoMoreData, CountsOK, consumerVars
<1> QED
  BY Zenon, <1>1, <1>2, <1>3, <1>4, <1>6

\* Taking bytes off releases all promises as soon as the limit is not reached.
LEMMA DecreaseStep ==
  ASSUME TypeOK, NEW removed \in Nat, DecreaseMemoryUsage(removed)
  PROVE  /\ LimitReached'
         /\ bufferedBytes' \in Int
         /\ promises' \subseteq Producers \X Queues
<1>1. bufferedBytes' \in Int
  BY DEF DecreaseMemoryUsage, TypeOK
<1>2. promises' = promises \/ promises' = {}
  BY Zenon DEF DecreaseMemoryUsage
<1>3. LimitReached'
  BY <1>1, ExchangeAssumption DEF DecreaseMemoryUsage, IsBelowLimit, LimitReached
<1> QED
  BY Zenon, <1>1, <1>2, <1>3 DEF TypeOK

\* A reader takes a vector, comes to the end, or waits.
LEMMA GetOutputStep ==
  ASSUME ExchangeInv, NEW m \in Queues, GetOutput(m)
  PROVE  ExchangeInv'
<1> USE DEF ExchangeInv
<1>0. noMoreProducers /\ cPc[m] = "run" /\ m \notin closed
  BY Zenon DEF GetOutput, CountsOK
<1>1. PhasesOK'
  BY Zenon DEF GetOutput, PhasesOK, producerVars
<1>2. ASSUME NEW q \in Queues
      PROVE  Awaited(q)' = Awaited(q) /\ Owing(q)' = Owing(q)
  BY Zenon DEF GetOutput, Awaited, Owing, producerVars
<1>3. CASE queue[m] > 0
  <2>0. /\ owed' = [owed EXCEPT ![m] = @ - 1]
        /\ queue' = [queue EXCEPT ![m] = @ - 1]
        /\ DecreaseMemoryUsage(1)
        /\ consumerPromises' = consumerPromises
        /\ cPc' = cPc
    BY Zenon, <1>3 DEF GetOutput
  <2>1. /\ LimitReached' /\ bufferedBytes' \in Int
        /\ promises' \subseteq Producers \X Queues
    BY Zenon, <2>0, DecreaseStep
  <2>2. /\ Cardinality(Owing(m)) \in Nat /\ owed[m] \in Nat /\ queue[m] \in Nat
        /\ queue[m] > 0
        /\ owed[m] = queue[m] + Cardinality(Owing(m))
    BY Zenon, <1>0, <1>3, CountedSets, ProducerSets DEF TypeOK, CountsOK
  <2>3. /\ queue'[m] = queue[m] - 1 /\ owed'[m] = owed[m] - 1
        /\ \A q \in Queues : q # m => queue'[q] = queue[q] /\ owed'[q] = owed[q]
    BY Zenon, <2>0 DEF TypeOK
  <2>4. owed' \in [Queues -> Nat] /\ queue' \in [Queues -> Nat]
    BY <2>0, <2>2 DEF TypeOK
  <2>5. TypeOK'
    BY Zenon, <2>0, <2>1, <2>4 DEF GetOutput, TypeOK, producerVars
  <2>6. NoMissedData'
    BY Zenon, <2>0, <2>3 DEF GetOutput, NoMissedData, TypeOK
  <2>7. CountsOK'
    BY <1>0, <1>2, <2>0, <2>2, <2>3 DEF GetOutput, CountsOK
  <2> QED
    BY Zenon, <1>1, <2>1, <2>5, <2>6, <2>7
<1>4. CASE ~(queue[m] > 0)
  <2>0. /\ memoryVars' = memoryVars /\ queue' = queue /\ owed' = owed
        /\ queue[m] = 0
    BY <1>4 DEF GetOutput, TypeOK
  <2>1. \/ /\ IsFinished(m)
           /\ cPc' = [cPc EXCEPT ![m] = "finished"]
           /\ consumerPromises' = consumerPromises
        \/ /\ ~IsFinished(m)
           /\ consumerPromises' = consumerPromises \cup {m}
           /\ cPc' = cPc
    BY Zenon, <1>4 DEF GetOutput
  <2>2. TypeOK'
    BY Zenon, <2>0, <2>1 DEF GetOutput, TypeOK, memoryVars, producerVars
  <2>3. LimitReached'
    BY Zenon, <2>0 DEF LimitReached, memoryVars
  <2>4. NoMissedData'
    BY Zenon, <1>0, <2>0, <2>1 DEF GetOutput, NoMissedData, IsFinished
  <2>5. CountsOK'
    BY ZenonT(30), <1>0, <1>2, <2>0, <2>1 DEF GetOutput, CountsOK, IsFinished, TypeOK
  <2> QED
    BY Zenon, <1>1, <2>2, <2>3, <2>4, <2>5
<1> QED
  BY Zenon, <1>3, <1>4

\* A reader closes its queue.
LEMMA CloseStep ==
  ASSUME ExchangeInv, NEW m \in Queues, Close(m)
  PROVE  ExchangeInv'
<1> USE DEF ExchangeInv
<1>0. \/ DecreaseMemoryUsage(queue[m])
      \/ memoryVars' = memoryVars
  BY Zenon DEF Close, FreedBytes
<1>1. queue[m] \in Nat
  BY Zenon DEF TypeOK
<1>2. /\ LimitReached' /\ bufferedBytes' \in Int
      /\ promises' \subseteq Producers \X Queues
  <2>1. CASE DecreaseMemoryUsage(queue[m])
    BY Zenon, <1>1, <2>1, DecreaseStep
  <2>2. CASE memoryVars' = memoryVars
    BY Zenon, <2>2 DEF LimitReached, TypeOK, memoryVars
  <2> QED
    BY Zenon, <1>0, <2>1, <2>2
<1>3. TypeOK'
  BY Zenon, <1>2 DEF Close, TypeOK, producerVars
<1>4. PhasesOK'
  BY Zenon DEF Close, PhasesOK, producerVars
<1>5. NoMissedData'
  BY Zenon DEF Close, NoMissedData, TypeOK
<1>6. ASSUME NEW q \in Queues
      PROVE  Awaited(q)' = Awaited(q) /\ Owing(q)' = Owing(q)
  BY Zenon DEF Close, Awaited, Owing, producerVars
<1>7. CountsOK'
  BY ZenonT(30), <1>6 DEF Close, CountsOK, TypeOK
<1> QED
  BY Zenon, <1>2, <1>3, <1>4, <1>5, <1>7

\* The counters and sets of the exchange stand for what ExchangeInv says, with
\* any number of producers, queues and inputs, and whatever reader stops early.
THEOREM ExchangeInvariant == Spec => []ExchangeInv
<1>1. ExchangeInv /\ [Next]_vars => ExchangeInv'
  <2> SUFFICES ASSUME ExchangeInv, [Next]_vars
               PROVE  ExchangeInv'
    BY Zenon
  <2>1. CASE NoMoreProducers
    BY Zenon, <2>1, NoMoreProducersStep
  <2>2. ASSUME NEW p \in Producers, ProducerStep(p)
        PROVE  ExchangeInv'
    BY Zenon, <2>2, CreateProducerStep, IsBlockedStep, AddInputStep, EnqueueStep,
       FinishEnqueueStep, NoMoreInputStep, NoMoreDataStep DEF ProducerStep
  <2>3. ASSUME NEW q \in Queues, ConsumerStep(q)
        PROVE  ExchangeInv'
    BY Zenon, <2>3, GetOutputStep, CloseStep DEF ConsumerStep
  <2>4. CASE UNCHANGED vars
    <3>1. ASSUME NEW q \in Queues
          PROVE  Awaited(q)' = Awaited(q) /\ Owing(q)' = Owing(q)
      BY Zenon, <2>4 DEF vars, producerVars, Awaited, Owing
    <3>2. CountsOK'
      BY Zenon, <2>4, <3>1 DEF ExchangeInv, CountsOK, vars, queueVars, consumerVars
    <3> QED
      BY Zenon, <2>4, <3>2 DEF ExchangeInv, TypeOK, PhasesOK, LimitReached,
         NoMissedData, vars, memoryVars, queueVars, producerVars, consumerVars
  <2> QED
    BY Zenon, <2>1, <2>2, <2>3, <2>4 DEF Next
<1> QED
  BY <1>1, InitStep, PTL DEF Spec

\* No reader sleeps on a queue that has data or has ended: enqueue, noMoreData
\* and noMoreProducers wake it in the critical section that makes it so.
THEOREM NoReaderMissesData == Spec => []NoMissedData
<1>1. ExchangeInv => NoMissedData
  BY Zenon DEF ExchangeInv
<1> QED
  BY <1>1, ExchangeInvariant, PTL

\* A reader that takes the exchange for finished has returned every vector made
\* for it: pendingProducers_ is zero only when all have passed noMoreData.
THEOREM ReadersGetAll == Spec => []ReaderGetsAll
<1>1. ExchangeInv => ReaderGetsAll
  <2> SUFFICES ASSUME ExchangeInv, NEW q \in Queues, cPc[q] = "finished"
               PROVE  /\ owed[q] = 0
                      /\ \A p \in Producers : pPc[p] \in {"noMoreData", "done"}
    BY Zenon DEF ReaderGetsAll
  <2>1. Cardinality(Awaited(q)) = 0 /\ noMoreProducers /\ queue[q] = 0
    BY Zenon DEF ExchangeInv, CountsOK
  <2>2. Awaited(q) = {}
    BY Zenon, <2>1, CountedSets, ProducerSets DEF ExchangeInv
  <2>3. \A p \in Producers : pPc[p] \in {"noMoreData", "done"}
    BY Zenon, <2>1, <2>2 DEF ExchangeInv, PhasesOK, Awaited
  <2>4. Owing(q) = {}
    BY Zenon, <2>3 DEF Owing
  <2>5. owed[q] = 0
    BY <2>1, <2>4, FS_EmptySet DEF ExchangeInv, CountsOK
  <2> QED
    BY Zenon, <2>3, <2>5
<1> QED
  BY <1>1, ExchangeInvariant, PTL

-----------------------------------------------------------------------------
(* The sizes of the queues *)

\* What a stack of pairs holds.
LEMMA StackedMember ==
  ASSUME NEW S, NEW n, NEW v
  PROVE  v \in Stacked(S, n) <=> \E x \in S : v \in {x} \X (1 .. n[x])
BY Zenon DEF Stacked

\* Membership of a pair in a stack.
LEMMA StackedPair ==
  ASSUME NEW S, NEW n, NEW x, NEW i
  PROVE  <<x, i>> \in Stacked(S, n) <=> x \in S /\ i \in 1 .. n[x]
BY StackedMember

\* A stack over finitely many members is finite.
LEMMA StackedFinite ==
  ASSUME NEW S, IsFiniteSet(S), NEW n \in [S -> Nat]
  PROVE  IsFiniteSet(Stacked(S, n)) /\ Cardinality(Stacked(S, n)) \in Nat
<1> DEFINE T == {{x} \X (1 .. n[x]) : x \in S}
           f == [x \in S |-> {x} \X (1 .. n[x])]
<1>1. f \in Surjection(S, T)
  <2>1. f \in [S -> T]
    BY Zenon
  <2>2. \A t \in T : \E x \in S : f[x] = t
    BY Zenon
  <2> QED
    BY Zenon, <2>1, <2>2 DEF Surjection
<1>2. IsFiniteSet(T)
  BY Zenon, <1>1, FS_Surjection
<1>3. ASSUME NEW t \in T PROVE IsFiniteSet(t)
  <2>1. PICK x \in S : t = {x} \X (1 .. n[x])
    BY Zenon
  <2>2. IsFiniteSet(1 .. n[x]) /\ IsFiniteSet({x})
    <3>1. 1 \in Int /\ n[x] \in Int
      OBVIOUS
    <3> QED
      BY Zenon, <3>1, FS_Interval, FS_Singleton
  <2>3. IsFiniteSet({x} \X (1 .. n[x]))
    BY Zenon, <2>2, FS_Product
  <2> QED
    BY Zenon, <2>1, <2>3
<1>4. IsFiniteSet(UNION T)
  BY Zenon, <1>2, <1>3, FS_UNION
<1> QED
  BY Zenon, <1>4, FS_CardinalityType DEF Stacked

\* One more at the top of one stack.
LEMMA StackedPush ==
  ASSUME NEW S, IsFiniteSet(S), NEW n \in [S -> Nat], NEW x \in S
  PROVE  Cardinality(Stacked(S, [n EXCEPT ![x] = @ + 1])) =
           Cardinality(Stacked(S, n)) + 1
<1> DEFINE m == [n EXCEPT ![x] = @ + 1]
           v == <<x, n[x] + 1>>
<1>1. \A y \in S : \A i : i \in 1 .. m[y] <=> i \in 1 .. n[y] \/ (y = x /\ i = n[y] + 1)
  OBVIOUS
<1>2. v \notin Stacked(S, n)
  BY StackedPair
<1>3. ASSUME NEW w PROVE w \in Stacked(S, m) <=> w \in Stacked(S, n) \cup {v}
  <2>1. w \in Stacked(S, m) <=> \E y \in S : w \in {y} \X (1 .. m[y])
    BY Zenon, StackedMember
  <2>2. w \in Stacked(S, n) <=> \E y \in S : w \in {y} \X (1 .. n[y])
    BY Zenon, StackedMember
  <2> HIDE DEF m
  <2> QED
    BY <1>1, <2>1, <2>2
<1>4. Stacked(S, m) = Stacked(S, n) \cup {v}
  <2> HIDE DEF m, v
  <2> QED
    BY Zenon, <1>3
<1> QED
  BY Zenon, <1>2, <1>4, StackedFinite, FS_AddElement

\* One stack is cut down.
LEMMA StackedDrop ==
  ASSUME NEW S, IsFiniteSet(S), NEW n \in [S -> Nat], NEW m \in [S -> Nat],
         NEW x \in S, m[x] =< n[x], \A y \in S : y # x => m[y] = n[y]
  PROVE  Cardinality(Stacked(S, m)) = Cardinality(Stacked(S, n)) - (n[x] - m[x])
<1> DEFINE T == {x} \X (m[x] + 1 .. n[x])
<1>1. \A y \in S : \A i : i \in 1 .. m[y] <=>
        i \in 1 .. n[y] /\ (y = x => i \notin m[x] + 1 .. n[x])
  OBVIOUS
<1>2. T \subseteq Stacked(S, n)
  BY StackedPair
<1>3. ASSUME NEW w PROVE w \in Stacked(S, m) <=> w \in Stacked(S, n) \ T
  <2>1. w \in Stacked(S, m) <=> \E y \in S : w \in {y} \X (1 .. m[y])
    BY Zenon, StackedMember
  <2>2. w \in Stacked(S, n) <=> \E y \in S : w \in {y} \X (1 .. n[y])
    BY Zenon, StackedMember
  <2> QED
    BY Zenon, <1>1, <2>1, <2>2
<1>4. Stacked(S, m) = Stacked(S, n) \ T /\ Stacked(S, n) \cap T = T
  <2> HIDE DEF T
  <2> QED
    BY Zenon, <1>2, <1>3
<1>5. Cardinality(T) = n[x] - m[x]
  <2> DEFINE a == m[x] + 1
  <2>0. a \in Int /\ n[x] \in Int /\ n[x] - a + 1 = n[x] - m[x]
        /\ (a > n[x] => n[x] - m[x] = 0)
    OBVIOUS
  <2>1. IsFiniteSet(a .. n[x]) /\ Cardinality(a .. n[x]) = n[x] - m[x]
    <3> HIDE DEF a
    <3> QED
      BY Zenon, <2>0, FS_Interval
  <2>2. IsFiniteSet({x}) /\ Cardinality({x}) = 1
    BY Zenon, FS_Singleton
  <2>3. Cardinality(T) = Cardinality({x}) * Cardinality(a .. n[x])
    BY Zenon, <2>1, <2>2, FS_Product
  <2> QED
    BY <2>1, <2>2, <2>3
<1>6. IsFiniteSet(Stacked(S, n)) /\ Cardinality(Stacked(S, n)) \in Nat
  BY Zenon, StackedFinite
<1> HIDE DEF T
<1>7. Cardinality(Stacked(S, n) \ T) =
        Cardinality(Stacked(S, n)) - Cardinality(Stacked(S, n) \cap T)
  BY Zenon, <1>6, FS_Difference
<1> QED
  BY Zenon, <1>4, <1>5, <1>6, <1>7

\* The queues are finitely many.
LEMMA QueuesFinite == IsFiniteSet(Queues)
<1>1. 1 \in Int /\ NumPartitions \in Int
  BY ExchangeAssumption
<1> QED
  BY Zenon, <1>1, FS_Interval DEF Queues

\* The first critical section of enqueue adds a vector that its producer has not
\* counted yet.
LEMMA EnqueueBytes ==
  ASSUME ExchangeInv, MemoryAccounting, NEW p \in Producers, Enqueue(p)
  PROVE  MemoryAccounting'
<1> USE DEF ExchangeInv
<1>0. pPc[p] = "enqueue" /\ sending[p] # {} /\ p \notin Increasing
  BY Zenon DEF Enqueue, PhasesOK, Increasing
<1>1. bufferedBytes' = bufferedBytes
  BY Zenon DEF Enqueue, memoryVars
<1>2. Increasing \in SUBSET Producers
  BY Zenon DEF Increasing
<1>3. CASE Min(sending[p]) \in closed
  <2>1. queue' = queue
    BY Zenon, <1>3 DEF Enqueue
  <2>2. pPc' = [pPc EXCEPT ![p] = "enqueue"] \/ pPc' = [pPc EXCEPT ![p] = "run"]
    BY Zenon, <1>3 DEF Enqueue, NextQueue
  <2>3. Increasing' = Increasing
    BY Zenon, <1>0, <2>2 DEF Increasing, TypeOK
  <2> QED
    BY Zenon, <1>1, <2>1, <2>3 DEF MemoryAccounting, QueuedBytes
<1>4. CASE Min(sending[p]) \notin closed
  <2>1. PICK m \in Queues : m = Min(sending[p])
    BY Zenon, <1>0, MinMember DEF TypeOK
  <2>2. /\ queue' = [queue EXCEPT ![m] = @ + 1]
        /\ pPc' = [pPc EXCEPT ![p] = "increase"]
    BY Zenon, <1>4, <2>1 DEF Enqueue
  <2>3. Increasing' = Increasing \cup {p}
    BY Zenon, <2>2 DEF Increasing, TypeOK
  <2>4. Cardinality(Increasing') = Cardinality(Increasing) + 1
    BY Zenon, <1>0, <1>2, <2>3, ProducerSets
  <2>5. QueuedBytes' = QueuedBytes + 1
    BY Zenon, <2>2, QueuesFinite, StackedPush DEF QueuedBytes, TypeOK
  <2>6. QueuedBytes \in Nat /\ Cardinality(Increasing) \in Nat
    BY Zenon, <1>2, QueuesFinite, StackedFinite, ProducerSets DEF QueuedBytes, TypeOK
  <2> QED
    BY <1>1, <2>4, <2>5, <2>6 DEF MemoryAccounting
<1> QED
  BY Zenon, <1>3, <1>4

\* The second one counts it.
LEMMA FinishEnqueueBytes ==
  ASSUME ExchangeInv, MemoryAccounting, NEW p \in Producers, FinishEnqueue(p)
  PROVE  MemoryAccounting'
<1> USE DEF ExchangeInv
<1>0. p \in Increasing /\ Increasing \in SUBSET Producers
  BY Zenon DEF FinishEnqueue, Increasing
<1>1. bufferedBytes' = bufferedBytes + 1 /\ queue' = queue
  BY Zenon DEF FinishEnqueue, IncreaseMemoryUsage, queueVars
<1>2. pPc' = [pPc EXCEPT ![p] = "enqueue"] \/ pPc' = [pPc EXCEPT ![p] = "run"]
  BY Zenon DEF FinishEnqueue, NextQueue
<1>3. Increasing' = Increasing \ {p}
  BY Zenon, <1>2 DEF Increasing, TypeOK
<1>4. /\ Cardinality(Increasing') = Cardinality(Increasing) - 1
      /\ Cardinality(Increasing) \in Nat
  BY Zenon, <1>0, <1>3, ProducerSets
<1>5. QueuedBytes' = QueuedBytes /\ QueuedBytes \in Nat
  BY Zenon, <1>1, QueuesFinite, StackedFinite DEF QueuedBytes, TypeOK
<1> QED
  BY <1>1, <1>4, <1>5 DEF MemoryAccounting

\* next takes one vector, which is off the total in the same step.
LEMMA GetOutputBytes ==
  ASSUME ExchangeInv, MemoryAccounting, NEW m \in Queues, GetOutput(m)
  PROVE  MemoryAccounting'
<1> USE DEF ExchangeInv
<1>1. Increasing' = Increasing /\ Increasing \in SUBSET Producers
  BY Zenon DEF GetOutput, Increasing, producerVars
<1>2. QueuedBytes \in Nat /\ Cardinality(Increasing) \in Nat
  BY Zenon, <1>1, QueuesFinite, StackedFinite, ProducerSets DEF QueuedBytes, TypeOK
<1>3. CASE queue[m] > 0
  <2>1. /\ queue' = [queue EXCEPT ![m] = @ - 1]
        /\ bufferedBytes' = bufferedBytes - 1
    BY Zenon, <1>3 DEF GetOutput, DecreaseMemoryUsage
  <2>2. /\ queue \in [Queues -> Nat] /\ queue' \in [Queues -> Nat]
        /\ queue'[m] =< queue[m] /\ queue[m] - queue'[m] = 1
        /\ \A q \in Queues : q # m => queue'[q] = queue[q]
    BY <1>3, <2>1 DEF TypeOK
  <2>3. QueuedBytes' = QueuedBytes - (queue[m] - queue'[m])
    BY ZenonT(30), <2>2, QueuesFinite, StackedDrop DEF QueuedBytes
  <2> QED
    BY <1>1, <1>2, <2>1, <2>2, <2>3 DEF MemoryAccounting
<1>4. CASE ~(queue[m] > 0)
  BY Zenon, <1>1, <1>4 DEF GetOutput, MemoryAccounting, QueuedBytes, memoryVars
<1> QED
  BY Zenon, <1>3, <1>4

\* close takes off everything that it drops.
LEMMA CloseBytes ==
  ASSUME ExchangeInv, MemoryAccounting, NEW m \in Queues, Close(m)
  PROVE  MemoryAccounting'
<1> USE DEF ExchangeInv
<1>1. Increasing' = Increasing /\ Increasing \in SUBSET Producers
  BY Zenon DEF Close, Increasing, producerVars
<1>2. /\ QueuedBytes \in Nat /\ Cardinality(Increasing) \in Nat
      /\ queue[m] \in Nat /\ bufferedBytes \in Int
  BY Zenon, <1>1, QueuesFinite, StackedFinite, ProducerSets DEF QueuedBytes, TypeOK
<1>3. bufferedBytes' = bufferedBytes - queue[m]
  <2>1. IF queue[m] > 0 THEN bufferedBytes' = bufferedBytes - queue[m]
        ELSE bufferedBytes' = bufferedBytes
    BY Zenon DEF Close, FreedBytes, DecreaseMemoryUsage, memoryVars
  <2> QED
    BY <1>2, <2>1
<1>4. /\ queue \in [Queues -> Nat] /\ queue' \in [Queues -> Nat]
      /\ queue'[m] =< queue[m]
      /\ \A q \in Queues : q # m => queue'[q] = queue[q]
  BY DEF Close, TypeOK
<1>5. queue'[m] = 0
  BY Zenon DEF Close, TypeOK
<1>6. QueuedBytes' = QueuedBytes - (queue[m] - queue'[m])
  BY ZenonT(30), <1>4, QueuesFinite, StackedDrop DEF QueuedBytes
<1> QED
  BY <1>1, <1>2, <1>3, <1>5, <1>6 DEF MemoryAccounting

\* No other step touches the total, a queue, or the producers in enqueue.
LEMMA OtherBytes ==
  ASSUME ExchangeInv, MemoryAccounting, bufferedBytes' = bufferedBytes,
         queue' = queue, Increasing' = Increasing
  PROVE  MemoryAccounting'
BY Zenon DEF MemoryAccounting, QueuedBytes


-----------------------------------------------------------------------------
(* The bound on the queues *)

\* There are no more queues in a set of them than there are queues.
LEMMA QueueSets ==
  ASSUME NEW S \in SUBSET Queues
  PROVE  /\ Cardinality(S) \in 0 .. NumPartitions
         /\ \A q \in S : Cardinality(S \ {q}) = Cardinality(S) - 1
<1>1. 1 \in Int /\ NumPartitions \in Int /\ ~(1 > NumPartitions)
      /\ NumPartitions - 1 + 1 = NumPartitions
  BY ExchangeAssumption
<1>2. Cardinality(Queues) = NumPartitions
  BY Zenon, <1>1, FS_Interval DEF Queues
<1>3. IsFiniteSet(S) /\ Cardinality(S) =< Cardinality(Queues)
  BY Zenon, QueuesFinite, FS_Subset
<1>4. Cardinality(S) \in Nat
  BY Zenon, <1>3, FS_CardinalityType
<1>5. \A q \in S : Cardinality(S \ {q}) = Cardinality(S) - 1
  BY Zenon, <1>3, FS_RemoveElement
<1> QED
  BY <1>1, <1>2, <1>3, <1>4, <1>5

\* A producer has room for two inputs at most.
LEMMA RoomRange ==
  ASSUME TypeOK, TypeOK', NEW p \in Producers
  PROVE  Room(p) \in 0 .. 2 * NumPartitions /\ Room(p)' \in 0 .. 2 * NumPartitions
<1>1. NumPartitions \in Nat
  BY Zenon, ExchangeAssumption
<1>2. /\ Cardinality(sending[p]) \in 0 .. NumPartitions
      /\ Cardinality(sending'[p]) \in 0 .. NumPartitions
  BY Zenon, QueueSets DEF TypeOK
<1>3. Left(p) \in 0 .. NumPartitions /\ Left(p)' \in 0 .. NumPartitions
  BY <1>1, <1>2 DEF Left
<1>4. Again(p) \in 0 .. NumPartitions /\ Again(p)' \in 0 .. NumPartitions
  BY <1>1 DEF Again
<1> QED
  BY <1>1, <1>3, <1>4 DEF Room

\* What the room of one producer depends on.
LEMMA RoomSame ==
  ASSUME NEW q, waitingOn'[q] = waitingOn[q], futures'[q] = futures[q],
         sending'[q] = sending[q], blockingReasons'[q] = blockingReasons[q],
         \A x : <<q, x>> \in promises' <=> <<q, x>> \in promises
  PROVE  Room(q)' = Room(q)
<1>1. HasPromise(q, waitingOn[q])' <=> HasPromise(q, waitingOn[q])
  BY Zenon DEF HasPromise
<1>2. HasPromise(q, futures[q])' <=> HasPromise(q, futures[q])
  BY Zenon DEF HasPromise
<1>3. Left(q)' = Left(q)
  BY Zenon, <1>2 DEF Left
<1>4. Again(q)' = Again(q)
  BY Zenon DEF Again
<1> QED
  BY Zenon, <1>1, <1>3, <1>4 DEF Room

\* Less room for every producer is less room together.
LEMMA StackedShrinks ==
  ASSUME NEW S, IsFiniteSet(S), NEW n \in [S -> Nat], NEW m \in [S -> Nat],
         \A x \in S : m[x] =< n[x]
  PROVE  Cardinality(Stacked(S, m)) =< Cardinality(Stacked(S, n))
<1>1. \A x \in S : \A i \in 1 .. m[x] : i \in 1 .. n[x]
  OBVIOUS
<1>2. ASSUME NEW w \in Stacked(S, m) PROVE w \in Stacked(S, n)
  <2>1. PICK x \in S : w \in {x} \X (1 .. m[x])
    BY Zenon, StackedMember
  <2>2. w \in {x} \X (1 .. n[x])
    BY Zenon, <1>1, <2>1
  <2> QED
    BY Zenon, <2>2, StackedMember
<1>3. Stacked(S, m) \in SUBSET Stacked(S, n)
  BY Zenon, <1>2
<1> QED
  BY Zenon, <1>3, StackedFinite, FS_Subset

\* No step but the second half of enqueue adds to the total, and none gives a
\* producer room while the limit is reached.
LEMMA RoomShrinks ==
  ASSUME TypeOK, TypeOK', RoomOK, bufferedBytes' =< bufferedBytes,
         bufferedBytes' >= MaxBufferSize =>
           \A p \in Producers : Room(p)' =< Room(p)
  PROVE  RoomOK'
<1> SUFFICES ASSUME bufferedBytes' >= MaxBufferSize
             PROVE  bufferedBytes' + Cardinality(Rooms') <
                      MaxBufferSize + 2 * Cardinality(Producers) * NumPartitions
  BY Zenon DEF RoomOK
<1> DEFINE n == [p \in Producers |-> Room(p)]
           m == [p \in Producers |-> Room(p)']
<1>1. n \in [Producers -> Nat] /\ m \in [Producers -> Nat]
  BY RoomRange, ExchangeAssumption
<1>2. \A p \in Producers : m[p] =< n[p]
  BY Zenon
<1>3. Rooms = Stacked(Producers, n) /\ Rooms' = Stacked(Producers, m)
  BY Zenon DEF Rooms
<1> HIDE DEF n, m
<1>4. IsFiniteSet(Producers) /\ MaxBufferSize \in Nat /\ NumPartitions \in Nat
  BY Zenon, ExchangeAssumption
<1>5. Cardinality(Rooms') =< Cardinality(Rooms)
  BY Zenon, <1>1, <1>2, <1>3, <1>4, StackedShrinks
<1>6. Cardinality(Rooms') \in Nat /\ Cardinality(Rooms) \in Nat
  BY Zenon, <1>1, <1>3, <1>4, StackedFinite
<1>7. Cardinality(Producers) \in Nat
  BY Zenon, <1>4, FS_CardinalityType
<1> DEFINE bound == MaxBufferSize + 2 * Cardinality(Producers) * NumPartitions
<1>8. bound \in Int
  BY <1>4, <1>7
<1>9. bufferedBytes >= MaxBufferSize => bufferedBytes + Cardinality(Rooms) < bound
  BY Zenon DEF RoomOK
<1> HIDE DEF bound
<1>10. bufferedBytes' + Cardinality(Rooms') < bound
  BY <1>4, <1>5, <1>6, <1>8, <1>9 DEF TypeOK
<1> QED
  BY Zenon, <1>10 DEF bound


\* isBlocked: a producer with a promise among its futures waits for it, unless
\* the reasons it starts with let it go once.
LEMMA IsBlockedRoom ==
  ASSUME ExchangeInv, ExchangeInv', FuturesOK, NEW p \in Producers, IsBlocked(p)
  PROVE  FuturesOK' /\ \A q \in Producers : Room(q)' =< Room(q)
<1> USE DEF ExchangeInv
<1>0. /\ MayRun(p) /\ futures[p] # {} /\ pPc[p] = "run" /\ promises' = promises
      /\ sending' = sending /\ pPc' = pPc
      /\ waitingOn' = [waitingOn EXCEPT ![p] = WaitsFor(p)]
      /\ futures' = [futures EXCEPT ![p] = {}]
      /\ blockingReasons' = [blockingReasons EXCEPT ![p] = <<>>]
  BY Zenon DEF IsBlocked, MayRun, memoryVars
<1>1. /\ waitingOn'[p] = WaitsFor(p) /\ futures'[p] = {}
      /\ blockingReasons'[p] = <<>>
      /\ \A q \in Producers : q # p => /\ waitingOn'[q] = waitingOn[q]
                                       /\ futures'[q] = futures[q]
                                       /\ blockingReasons'[q] = blockingReasons[q]
  BY Zenon, <1>0 DEF TypeOK, FuturesOK
<1>2. blockingReasons' \in [Producers -> Seq({"kNotBlocked", "kWaitForConsumer"})]
  <2>1. /\ blockingReasons \in [Producers -> Seq({"kNotBlocked", "kWaitForConsumer"})]
        /\ blockingReasons' = [blockingReasons EXCEPT ![p] = <<>>]
    BY Zenon, <1>0 DEF FuturesOK
  <2> QED
    BY <2>1, SMTT(30)
<1>3. FuturesOK'
  BY Zenon, <1>0, <1>1, <1>2 DEF FuturesOK
<1>4. ASSUME NEW q \in Producers, q # p PROVE Room(q)' = Room(q)
  BY Zenon, <1>0, <1>1, <1>4, RoomSame
<1>5. sending[p] = {} /\ Cardinality(sending[p]) = 0
  BY Zenon, <1>0, FS_EmptySet DEF PhasesOK
<1>6. ~HasPromise(p, waitingOn[p])
  BY Zenon, <1>0 DEF MayRun, HasPromise
<1>7. Room(p) = Left(p) + Again(p)
  BY Zenon, <1>6 DEF Room
<1>8. Left(p)' = NumPartitions /\ Again(p)' = 0
  BY Zenon, <1>1 DEF Left, Again, HasPromise
<1>9. Room(p)' = IF HasPromise(p, WaitsFor(p)) THEN 0 ELSE NumPartitions
  <2>1. HasPromise(p, waitingOn[p])' <=> HasPromise(p, WaitsFor(p))
    BY Zenon, <1>0, <1>1 DEF HasPromise
  <2> QED
    BY <1>8, <2>1, ExchangeAssumption DEF Room
<1>10. blockingReasons[p] # <<>>
  BY Zenon, <1>0 DEF FuturesOK
<1>11. Room(p)' =< Room(p)
  <2>1. Left(p) = IF HasPromise(p, futures[p]) THEN 0 ELSE NumPartitions
    BY Zenon, <1>5 DEF Left
  <2>2. CASE Head(blockingReasons[p]) = "kNotBlocked"
    <3>1. Again(p) = NumPartitions
      BY Zenon, <1>10, <2>2 DEF Again
    <3> QED
      BY <1>7, <1>9, <2>1, <3>1, ExchangeAssumption
  <2>3. CASE Head(blockingReasons[p]) # "kNotBlocked"
    <3>1. Again(p) = 0 /\ WaitsFor(p) = futures[p]
      BY Zenon, <2>3 DEF Again, WaitsFor
    <3> QED
      BY <1>7, <1>9, <2>1, <3>1, ExchangeAssumption
  <2> QED
    BY Zenon, <2>2, <2>3
<1>12. \A q \in Producers : Room(q) \in Int
  BY RoomRange, ExchangeAssumption
<1>13. ASSUME NEW q \in Producers PROVE Room(q)' =< Room(q)
  BY <1>4, <1>11, <1>12
<1> QED
  BY Zenon, <1>3, <1>13

\* The steps that leave the reasons and futures alone.
LEMMA OtherRoom ==
  ASSUME ExchangeInv, ExchangeInv', FuturesOK, NEW p \in Producers,
         promises' = promises, futures' = futures,
         blockingReasons' = blockingReasons,
         \A q \in Producers : q # p => /\ waitingOn'[q] = waitingOn[q]
                                       /\ sending'[q] = sending[q]
                                       /\ pPc'[q] = pPc[q],
         waitingOn'[p] = {},
         ~HasPromise(p, waitingOn[p]),
         \/ futures[p] = {}
         \/ sending'[p] \in SUBSET sending[p]
  PROVE  FuturesOK' /\ \A q \in Producers : Room(q)' =< Room(q)
<1> USE DEF ExchangeInv
<1>1. \A q \in Producers : pPc'[q] # "run" => waitingOn'[q] = {}
  BY Zenon DEF FuturesOK
<1>2. FuturesOK'
  BY Zenon, <1>1 DEF FuturesOK
<1>3. ASSUME NEW q \in Producers, q # p PROVE Room(q)' = Room(q)
  BY Zenon, <1>3, RoomSame
<1>4. ~HasPromise(p, waitingOn[p])'
  BY Zenon DEF HasPromise
<1>5. Again(p)' = Again(p) /\ Again(p) \in Nat
  BY Zenon, ExchangeAssumption DEF Again
<1>6. /\ Cardinality(sending[p]) \in Nat /\ Cardinality(sending'[p]) \in Nat
      /\ Left(p) \in Nat
  BY SMTT(30), QueueSets, ExchangeAssumption DEF TypeOK, Left
<1>7. Left(p)' =< Left(p)
  <2>1. CASE futures[p] = {}
    <3>1. ~HasPromise(p, futures[p]) /\ ~HasPromise(p, futures[p])'
      BY Zenon, <2>1 DEF HasPromise
    <3>2. Left(p) = NumPartitions /\ Left(p)' = NumPartitions
      BY Zenon, <3>1 DEF Left
    <3> QED
      BY SMTT(30), <3>2, ExchangeAssumption
  <2>2. CASE sending'[p] \in SUBSET sending[p]
    <3>1. sending[p] \in SUBSET Queues
      BY Zenon DEF TypeOK
    <3>2. IsFiniteSet(sending[p])
      BY Zenon, <3>1, QueuesFinite, FS_Subset
    <3>3. Cardinality(sending'[p]) =< Cardinality(sending[p])
      BY Zenon, <2>2, <3>2, FS_Subset
    <3>4. HasPromise(p, futures[p])' <=> HasPromise(p, futures[p])
      BY Zenon DEF HasPromise
    <3>5. \/ /\ Left(p)' = Cardinality(sending'[p])
             /\ Left(p) = Cardinality(sending[p])
          \/ Left(p)' = Left(p)
      BY Zenon, <3>4 DEF Left
    <3> QED
      BY <1>6, <3>3, <3>5, SMTT(60)
  <2> QED
    BY Zenon, <2>1, <2>2
<1>8. Left(p)' \in Nat
  BY Zenon, <1>6, ExchangeAssumption DEF Left
<1>9. Room(p) = Left(p) + Again(p) /\ Room(p)' = Left(p)' + Again(p)'
  BY Zenon, <1>4 DEF Room
<1>10. Room(p)' =< Room(p)
  BY SMTT(30), <1>5, <1>6, <1>7, <1>8, <1>9
<1>11. \A q \in Producers : Room(q) \in Int
  BY SMTT(30), RoomRange, ExchangeAssumption
<1>12. ASSUME NEW q \in Producers PROVE Room(q)' =< Room(q)
  BY SMTT(30), <1>3, <1>10, <1>11
<1> QED
  BY Zenon, <1>2, <1>12


\* Less room for one producer, and more for none, is less room together.
LEMMA StackedLess ==
  ASSUME NEW S, IsFiniteSet(S), NEW n \in [S -> Nat], NEW m \in [S -> Nat],
         \A x \in S : m[x] =< n[x], NEW y \in S, m[y] < n[y]
  PROVE  Cardinality(Stacked(S, m)) < Cardinality(Stacked(S, n))
<1> DEFINE v == <<y, n[y]>>
<1>1. \A x \in S : \A i \in 1 .. m[x] : i \in 1 .. n[x] /\ (x = y => i # n[y])
  OBVIOUS
<1>2. ASSUME NEW w \in Stacked(S, m) PROVE w \in Stacked(S, n) \ {v}
  <2>1. PICK x \in S : w \in {x} \X (1 .. m[x])
    BY Zenon, StackedMember
  <2>2. w \in {x} \X (1 .. n[x]) /\ w # v
    BY <1>1, <2>1
  <2> QED
    BY Zenon, <2>2, StackedMember
<1>3. v \in Stacked(S, n)
  BY StackedPair
<1> HIDE DEF v
<1>4. Stacked(S, m) \in SUBSET (Stacked(S, n) \ {v})
  BY Zenon, <1>2
<1>5. IsFiniteSet(Stacked(S, n)) /\ Cardinality(Stacked(S, n)) \in Nat
  BY Zenon, StackedFinite
<1>6. /\ IsFiniteSet(Stacked(S, n) \ {v})
      /\ Cardinality(Stacked(S, n) \ {v}) = Cardinality(Stacked(S, n)) - 1
  BY Zenon, <1>3, <1>5, FS_RemoveElement
<1>7. Cardinality(Stacked(S, m)) =< Cardinality(Stacked(S, n) \ {v})
  BY Zenon, <1>4, <1>6, FS_Subset
<1>8. Cardinality(Stacked(S, m)) \in Nat
  BY Zenon, StackedFinite
<1> QED
  BY <1>5, <1>6, <1>7, <1>8

\* The room of all producers before the limit is reached.
LEMMA AllRoom ==
  ASSUME NEW n, n = [p \in Producers |-> 2 * NumPartitions]
  PROVE  /\ Cardinality(Stacked(Producers, n)) = 2 * Cardinality(Producers) * NumPartitions
         /\ Cardinality(Producers) \in Nat
<1> DEFINE k == 2 * NumPartitions
<1>1. IsFiniteSet(Producers) /\ Cardinality(Producers) \in Nat
  BY Zenon, ExchangeAssumption, FS_CardinalityType
<1>2. 1 \in Int /\ k \in Nat /\ k \in Int /\ ~(1 > k) /\ k - 1 + 1 = k
  BY ExchangeAssumption
<1>3. ASSUME NEW w
      PROVE  w \in Stacked(Producers, n) <=> w \in Producers \X (1 .. k)
  <2>1. w \in Stacked(Producers, n) <=> \E p \in Producers : w \in {p} \X (1 .. n[p])
    BY Zenon, StackedMember
  <2> HIDE DEF k
  <2>2. \A p \in Producers : n[p] = k
    BY Zenon DEF k
  <2> QED
    BY Zenon, <2>1, <2>2
<1>4. Stacked(Producers, n) = Producers \X (1 .. k)
  <2> HIDE DEF k
  <2> QED
    BY Zenon, <1>3
<1>5. IsFiniteSet(1 .. k) /\ Cardinality(1 .. k) = k
  <2> HIDE DEF k
  <2> QED
    BY Zenon, <1>2, FS_Interval
<1>6. Cardinality(Producers \X (1 .. k)) = Cardinality(Producers) * k
  BY Zenon, <1>1, <1>5, FS_Product
<1>7. Cardinality(Producers) * k = 2 * Cardinality(Producers) * NumPartitions
  BY <1>1, ExchangeAssumption
<1> QED
  BY Zenon, <1>1, <1>4, <1>6, <1>7

\* A producer that is given a promise has one vector less to enqueue.
LEMMA PromiseRoom ==
  ASSUME ExchangeInv, ExchangeInv', FuturesOK, NEW p \in Producers,
         NEW m \in sending[p], waitingOn'[p] = {}, waitingOn[p] = {},
         sending'[p] = sending[p] \ {m}, m \in futures'[p], <<p, m>> \in promises',
         blockingReasons'[p] = Append(blockingReasons[p], "kWaitForConsumer")
  PROVE  Room(p)' < Room(p)
<1> USE DEF ExchangeInv
<1>1. sending[p] \in SUBSET Queues
  BY Zenon DEF TypeOK
<1>2. /\ Cardinality(sending[p]) \in 0 .. NumPartitions
      /\ Cardinality(sending'[p]) = Cardinality(sending[p]) - 1
  BY Zenon, <1>1, QueueSets
<1>3. NumPartitions \in Nat
  BY Zenon, ExchangeAssumption
<1>4. HasPromise(p, futures[p])'
  BY Zenon DEF HasPromise
<1>5. Left(p)' = Cardinality(sending[p]) - 1
  BY Zenon, <1>2, <1>4 DEF Left
<1>6. Left(p) >= Cardinality(sending[p]) /\ Left(p) \in Nat
  BY SMTT(30), <1>2, <1>3 DEF Left
<1>7. blockingReasons[p] \in Seq({"kNotBlocked", "kWaitForConsumer"})
  BY Zenon DEF FuturesOK
<1>8. Again(p)' = Again(p)
  <2>1. blockingReasons'[p] # <<>>
    BY <1>7
  <2>2. CASE blockingReasons[p] = <<>>
    <3>1. Head(blockingReasons'[p]) = "kWaitForConsumer"
      BY <2>2
    <3> QED
      BY Zenon, <2>2, <3>1 DEF Again
  <2>3. CASE blockingReasons[p] # <<>>
    <3>1. Head(blockingReasons'[p]) = Head(blockingReasons[p])
      BY <1>7, <2>3
    <3> QED
      BY Zenon, <2>1, <2>3, <3>1 DEF Again
  <2> QED
    BY Zenon, <2>2, <2>3
<1>9. Again(p) \in Nat
  BY Zenon, <1>3 DEF Again
<1>10. ~HasPromise(p, waitingOn[p]) /\ ~HasPromise(p, waitingOn[p])'
  BY Zenon DEF HasPromise
<1>11. Room(p) = Left(p) + Again(p) /\ Room(p)' = Left(p)' + Again(p)'
  BY Zenon, <1>10 DEF Room
<1> QED
  BY SMTT(30), <1>2, <1>5, <1>6, <1>8, <1>9, <1>11


\* The second half of enqueue uses a place of the room, or starts with all of
\* it when it is the one that reaches the limit.
LEMMA FinishEnqueueRoom ==
  ASSUME ExchangeInv, ExchangeInv', FuturesOK, RoomOK, NEW p \in Producers,
         FinishEnqueue(p)
  PROVE  FuturesOK' /\ RoomOK'
<1> USE DEF ExchangeInv
<1>0. pPc[p] = "increase" /\ sending[p] # {}
  BY Zenon DEF FinishEnqueue, PhasesOK
<1>1. PICK m \in Queues : m = Min(sending[p]) /\ m \in sending[p]
  BY Zenon, <1>0, MinMember DEF TypeOK
<1>2. waitingOn' = waitingOn /\ waitingOn[p] = {}
  BY Zenon, <1>0 DEF FinishEnqueue, FuturesOK
<1>3. /\ sending' = [sending EXCEPT ![p] = @ \ {m}]
      /\ pPc' = [pPc EXCEPT ![p] = IF sending[p] \ {m} # {} THEN "enqueue"
                                   ELSE "run"]
  BY Zenon, <1>1 DEF FinishEnqueue, NextQueue
<1>4. /\ sending'[p] = sending[p] \ {m}
      /\ \A q \in Producers : q # p => /\ sending'[q] = sending[q]
                                       /\ pPc'[q] = pPc[q]
  BY Zenon, <1>3 DEF TypeOK
<1>5. \A q \in Producers : pPc'[q] # "run" => waitingOn'[q] = {}
  BY Zenon, <1>2, <1>4 DEF FuturesOK
<1>6. bufferedBytes' = bufferedBytes + 1 /\ bufferedBytes \in Int
      /\ MaxBufferSize \in Nat
  BY Zenon, ExchangeAssumption DEF FinishEnqueue, IncreaseMemoryUsage, TypeOK
<1>7. CASE ~(bufferedBytes' >= MaxBufferSize)
  <2>1. futures' = futures /\ blockingReasons' = blockingReasons
    BY Zenon, <1>7 DEF FinishEnqueue, IncreaseMemoryUsage
  <2>2. FuturesOK'
    BY Zenon, <1>5, <2>1 DEF FuturesOK
  <2> QED
    BY Zenon, <1>7, <2>2 DEF RoomOK
<1>8. CASE bufferedBytes' >= MaxBufferSize
  <2>1. /\ futures' = [futures EXCEPT ![p] = @ \cup {m}]
        /\ blockingReasons' = [blockingReasons EXCEPT
                                 ![p] = Append(@, "kWaitForConsumer")]
        /\ promises' = promises \cup {<<p, m>>}
    BY Zenon, <1>1, <1>8 DEF FinishEnqueue, IncreaseMemoryUsage
  <2>2. /\ futures'[p] = futures[p] \cup {m}
        /\ blockingReasons'[p] = Append(blockingReasons[p], "kWaitForConsumer")
        /\ blockingReasons[p] \in Seq({"kNotBlocked", "kWaitForConsumer"})
        /\ \A q \in Producers : q # p => /\ futures'[q] = futures[q]
                                         /\ blockingReasons'[q] = blockingReasons[q]
    BY Zenon, <2>1 DEF TypeOK, FuturesOK
  <2>3. blockingReasons'[p] # <<>>
    BY <2>2
  <2>4. blockingReasons' \in [Producers -> Seq({"kNotBlocked", "kWaitForConsumer"})]
    BY <2>1, <2>2 DEF FuturesOK
  <2>5. FuturesOK'
    BY Zenon, <1>5, <2>2, <2>3, <2>4 DEF FuturesOK
  <2>6. <<p, m>> \in promises' /\ m \in futures'[p]
    BY Zenon, <2>1, <2>2
  <2>7. Room(p)' < Room(p)
    BY Zenon, <1>1, <1>2, <1>4, <2>2, <2>6, PromiseRoom
  <2>8. ASSUME NEW q \in Producers, q # p PROVE Room(q)' = Room(q)
    <3>1. \A x : <<q, x>> \in promises' <=> <<q, x>> \in promises
      BY Zenon, <2>1, <2>8
    <3> QED
      BY Zenon, <1>2, <1>4, <2>2, <2>8, <3>1, RoomSame
  <2> DEFINE n == [q \in Producers |-> Room(q)]
             r == [q \in Producers |-> Room(q)']
             all == [q \in Producers |-> 2 * NumPartitions]
             bound == 2 * Cardinality(Producers) * NumPartitions
  <2>9. ASSUME NEW q \in Producers
        PROVE  /\ Room(q)' \in Nat /\ Room(q) \in Nat /\ 2 * NumPartitions \in Nat
               /\ Room(q)' =< Room(q) /\ Room(q) =< 2 * NumPartitions
    BY <2>7, <2>8, RoomRange, ExchangeAssumption
  <2>10. /\ n \in [Producers -> Nat] /\ r \in [Producers -> Nat]
         /\ all \in [Producers -> Nat]
         /\ \A q \in Producers : r[q] =< n[q]
         /\ \A q \in Producers : r[q] =< all[q]
         /\ r[p] < n[p] /\ r[p] < all[p]
    BY <2>7, <2>9
  <2>11. Cardinality(Stacked(Producers, all)) = bound /\ Cardinality(Producers) \in Nat
    BY Zenon, AllRoom
  <2>12. bound \in Int
    BY <2>11, ExchangeAssumption
  <2>13. Rooms = Stacked(Producers, n) /\ Rooms' = Stacked(Producers, r)
    BY Zenon DEF Rooms
  <2>14. IsFiniteSet(Producers)
    BY Zenon, ExchangeAssumption
  <2>15. bufferedBytes >= MaxBufferSize =>
           bufferedBytes + Cardinality(Rooms) < MaxBufferSize + bound
    BY Zenon DEF RoomOK
  <2> HIDE DEF n, r, all, bound
  <2>16. Cardinality(Rooms') < Cardinality(Rooms) /\ Cardinality(Rooms') < bound
    BY Zenon, <2>10, <2>11, <2>13, <2>14, StackedLess
  <2>17. Cardinality(Rooms) \in Nat /\ Cardinality(Rooms') \in Nat
    BY Zenon, <2>10, <2>13, <2>14, StackedFinite
  <2>18. bufferedBytes' + Cardinality(Rooms') < MaxBufferSize + bound
    BY <1>6, <1>8, <2>12, <2>15, <2>16, <2>17
  <2> QED
    BY Zenon, <2>5, <2>18 DEF RoomOK, bound
<1> QED
  BY Zenon, <1>7, <1>8


\* The readers only take bytes off; promises go when the limit is left.
LEMMA ReaderRoom ==
  ASSUME ExchangeInv, FuturesOK, bufferedBytes' \in Int,
         UNCHANGED <<pPc, sending, blockingReasons, futures, waitingOn>>,
         NEW k \in Nat, DecreaseMemoryUsage(k) \/ UNCHANGED memoryVars
  PROVE  /\ FuturesOK' /\ bufferedBytes' =< bufferedBytes
         /\ bufferedBytes' >= MaxBufferSize =>
              \A p \in Producers : Room(p)' = Room(p)
<1>1. FuturesOK'
  BY Zenon DEF FuturesOK
<1>2. bufferedBytes' = bufferedBytes - k \/ bufferedBytes' = bufferedBytes
  BY Zenon DEF DecreaseMemoryUsage, memoryVars
<1>3. bufferedBytes' =< bufferedBytes
  BY <1>2 DEF ExchangeInv, TypeOK
<1>4. ASSUME bufferedBytes' >= MaxBufferSize, NEW p \in Producers
      PROVE  Room(p)' = Room(p)
  <2>1. ~IsBelowLimit(bufferedBytes')
    BY <1>4, ExchangeAssumption DEF IsBelowLimit
  <2>2. promises' = promises
    BY Zenon, <2>1 DEF DecreaseMemoryUsage, memoryVars
  <2> QED
    BY Zenon, <2>2, RoomSame
<1> QED
  BY Zenon, <1>1, <1>3, <1>4

\* Every step keeps the reasons with the futures, and the room.
LEMMA RoomStep ==
  ASSUME ExchangeInv, ExchangeInv', FuturesOK, RoomOK, [Next]_vars
  PROVE  FuturesOK' /\ RoomOK'
<1> USE DEF ExchangeInv
<1>1. ASSUME FuturesOK', bufferedBytes' =< bufferedBytes,
             bufferedBytes' >= MaxBufferSize =>
               \A p \in Producers : Room(p)' =< Room(p)
      PROVE  FuturesOK' /\ RoomOK'
  BY Zenon, <1>1, RoomShrinks
<1>2. bufferedBytes' \in Int /\ bufferedBytes \in Int /\ 0 \in Nat
  BY Zenon DEF TypeOK
<1>3. \A p \in Producers : Room(p) \in Int /\ Room(p)' \in Int
  BY RoomRange, ExchangeAssumption
<1>4. ASSUME UNCHANGED <<pPc, sending, blockingReasons, futures, waitingOn>>,
             \E k \in Nat : DecreaseMemoryUsage(k) \/ UNCHANGED memoryVars
      PROVE  FuturesOK' /\ RoomOK'
  <2>1. PICK k \in Nat : DecreaseMemoryUsage(k) \/ UNCHANGED memoryVars
    BY Zenon, <1>4
  <2>2. /\ FuturesOK' /\ bufferedBytes' =< bufferedBytes
        /\ bufferedBytes' >= MaxBufferSize =>
             \A p \in Producers : Room(p)' = Room(p)
    BY Zenon, <1>2, <1>4, <2>1, ReaderRoom
  <2>3. bufferedBytes' >= MaxBufferSize => \A p \in Producers : Room(p)' =< Room(p)
    BY <1>3, <2>2
  <2> QED
    BY Zenon, <1>1, <2>2, <2>3
<1>5. CASE NoMoreProducers
  BY Zenon, <1>2, <1>4, <1>5 DEF NoMoreProducers, producerVars
<1>6. CASE UNCHANGED vars
  BY Zenon, <1>2, <1>4, <1>6 DEF vars, producerVars
<1>7. ASSUME NEW p \in Producers, ProducerStep(p) PROVE FuturesOK' /\ RoomOK'
  <2>1. CASE CreateProducer(p)
    BY Zenon, <1>2, <1>4, <2>1 DEF CreateProducer
  <2>2. CASE FinishEnqueue(p)
    BY Zenon, <2>2, FinishEnqueueRoom
  <2>3. CASE IsBlocked(p)
    <3>1. bufferedBytes' =< bufferedBytes
      BY <1>2, <2>3 DEF IsBlocked, memoryVars
    <3> QED
      BY Zenon, <1>1, <2>3, <3>1, IsBlockedRoom
  <2>4. CASE AddInput(p) \/ Enqueue(p) \/ NoMoreInput(p) \/ NoMoreData(p)
    <3>1. /\ bufferedBytes' = bufferedBytes /\ promises' = promises
          /\ futures' = futures /\ blockingReasons' = blockingReasons
      BY Zenon, <2>4 DEF AddInput, Enqueue, NoMoreInput, NoMoreData, memoryVars
    <3>2. waitingOn' = [waitingOn EXCEPT ![p] = {}]
          \/ (waitingOn' = waitingOn /\ pPc[p] # "run")
      BY Zenon, <2>4 DEF AddInput, Enqueue, NoMoreInput, NoMoreData
    <3>3. \A q \in Producers : q # p => waitingOn'[q] = waitingOn[q]
      BY Zenon, <3>2 DEF TypeOK
    <3>4. waitingOn'[p] = {}
      BY Zenon, <3>2 DEF TypeOK, FuturesOK
    <3>5. ~HasPromise(p, waitingOn[p])
      <4>1. MayRun(p) \/ pPc[p] # "run"
        BY Zenon, <2>4 DEF AddInput, Enqueue, NoMoreInput, NoMoreData
      <4> QED
        BY Zenon, <4>1 DEF MayRun, HasPromise, FuturesOK
    <3>6. \A q \in Producers : q # p => sending'[q] = sending[q] /\ pPc'[q] = pPc[q]
      <4>1. CASE AddInput(p)
        BY ZenonT(30), <4>1 DEF AddInput, TypeOK
      <4>2. CASE Enqueue(p)
        BY ZenonT(30), <4>2 DEF Enqueue, NextQueue, TypeOK
      <4>3. CASE NoMoreInput(p)
        BY Zenon, <4>3 DEF NoMoreInput, TypeOK
      <4>4. CASE NoMoreData(p)
        BY Zenon, <4>4 DEF NoMoreData, NextQueue, TypeOK
      <4> QED
        BY Zenon, <2>4, <4>1, <4>2, <4>3, <4>4
    <3>7. futures[p] = {} \/ sending'[p] \in SUBSET sending[p]
      <4>1. CASE AddInput(p) \/ NoMoreInput(p)
        BY Zenon, <4>1 DEF AddInput, NoMoreInput
      <4>2. CASE Enqueue(p)
        BY SMTT(30), <4>2 DEF Enqueue, NextQueue, TypeOK
      <4>3. CASE NoMoreData(p)
        BY Zenon, <4>3 DEF NoMoreData, NextQueue, TypeOK
      <4> QED
        BY Zenon, <2>4, <4>1, <4>2, <4>3
    <3>8. FuturesOK' /\ \A q \in Producers : Room(q)' =< Room(q)
      BY Zenon, <3>1, <3>3, <3>4, <3>5, <3>6, <3>7, OtherRoom
    <3>9. bufferedBytes' =< bufferedBytes
      BY <1>2, <3>1
    <3> QED
      BY Zenon, <1>1, <3>8, <3>9
  <2> QED
    BY Zenon, <1>7, <2>1, <2>2, <2>3, <2>4 DEF ProducerStep
<1>8. ASSUME NEW q \in Queues, ConsumerStep(q) PROVE FuturesOK' /\ RoomOK'
  <2>1. UNCHANGED <<pPc, sending, blockingReasons, futures, waitingOn>>
    BY Zenon, <1>8 DEF ConsumerStep, GetOutput, Close, producerVars
  <2>2. \/ DecreaseMemoryUsage(1)
        \/ DecreaseMemoryUsage(queue[q])
        \/ UNCHANGED memoryVars
    BY Zenon, <1>8 DEF ConsumerStep, GetOutput, Close, FreedBytes
  <2>3. 1 \in Nat /\ queue[q] \in Nat
    BY Zenon DEF TypeOK
  <2> QED
    BY Zenon, <1>4, <2>1, <2>2, <2>3
<1> QED
  BY Zenon, <1>5, <1>6, <1>7, <1>8 DEF Next

\* Every step accounts for the bytes it moves.
LEMMA BytesStep ==
  ASSUME ExchangeInv, MemoryAccounting, [Next]_vars
  PROVE  MemoryAccounting'
<1>1. CASE NoMoreProducers \/ UNCHANGED vars
  <2>1. bufferedBytes' = bufferedBytes /\ queue' = queue /\ pPc' = pPc
    BY Zenon, <1>1 DEF NoMoreProducers, vars, memoryVars, queueVars, producerVars
  <2> QED
    BY Zenon, <2>1, OtherBytes DEF Increasing
<1>2. ASSUME NEW p \in Producers, ProducerStep(p) PROVE MemoryAccounting'
  <2>1. CASE CreateProducer(p) \/ IsBlocked(p)
    <3>1. bufferedBytes' = bufferedBytes /\ queue' = queue /\ pPc' = pPc
      BY Zenon, <2>1 DEF CreateProducer, IsBlocked, memoryVars, queueVars
    <3> QED
      BY Zenon, <3>1, OtherBytes DEF Increasing
  <2>2. CASE AddInput(p) \/ NoMoreInput(p) \/ NoMoreData(p)
    <3>1. bufferedBytes' = bufferedBytes /\ queue' = queue
      BY Zenon, <2>2 DEF AddInput, NoMoreInput, NoMoreData, memoryVars, queueVars
    <3>2. /\ pPc[p] # "increase"
          /\ \E pc \in {"enqueue", "noMoreData", "done"} :
               pPc' = [pPc EXCEPT ![p] = pc]
      BY Zenon, <2>2 DEF AddInput, NoMoreInput, NoMoreData, NextQueue, MayRun
    <3>3. Increasing' = Increasing
      BY Zenon, <3>2 DEF Increasing, ExchangeInv, TypeOK
    <3> QED
      BY Zenon, <3>1, <3>3, OtherBytes
  <2> QED
    BY Zenon, <1>2, <2>1, <2>2, EnqueueBytes, FinishEnqueueBytes DEF ProducerStep
<1>3. ASSUME NEW q \in Queues, ConsumerStep(q) PROVE MemoryAccounting'
  BY Zenon, <1>3, GetOutputBytes, CloseBytes DEF ConsumerStep
<1> QED
  BY Zenon, <1>1, <1>2, <1>3 DEF Next


\* The first state has empty queues, and blockingReasons_ full of kNotBlocked.
LEMMA InitBuffer == Init => BufferInv
<1> SUFFICES ASSUME Init PROVE BufferInv
  BY Zenon
<1>1. FuturesOK
  <2> DEFINE R == {"kNotBlocked", "kWaitForConsumer"}
             f == [i \in Queues |-> "kNotBlocked"]
  <2>1. f \in Seq(R)
    BY ExchangeAssumption DEF Queues
  <2>2. blockingReasons = [p \in Producers |-> f]
    BY Zenon DEF Init
  <2> HIDE DEF f
  <2>3. blockingReasons \in [Producers -> Seq(R)]
    BY Zenon, <2>1, <2>2
  <2>4. \A p \in Producers : futures[p] = {} /\ waitingOn[p] = {}
    BY Zenon DEF Init
  <2> QED
    BY Zenon, <2>3, <2>4 DEF FuturesOK
<1>2. MemoryAccounting
  <2>1. ASSUME NEW w PROVE w \notin Stacked(Queues, queue)
    <3>1. \A q \in Queues : 1 .. queue[q] = {}
      BY DEF Init
    <3> QED
      BY <3>1, StackedMember
  <2>2. Stacked(Queues, queue) = {} /\ Increasing = {} /\ bufferedBytes = 0
    BY Zenon, <2>1 DEF Init, Increasing
  <2> QED
    BY <2>2, FS_EmptySet DEF MemoryAccounting, QueuedBytes
<1>3. RoomOK
  BY ExchangeAssumption DEF Init, RoomOK
<1> QED
  BY Zenon, <1>1, <1>2, <1>3 DEF BufferInv

\* The total and the room of the producers are what BufferInv says.
THEOREM BufferInvariant == Spec => []BufferInv
<1>1. ExchangeInv /\ ExchangeInv' /\ BufferInv /\ [Next]_vars => BufferInv'
  BY Zenon, BytesStep, RoomStep DEF BufferInv
<1> QED
  BY <1>1, InitBuffer, ExchangeInvariant, PTL DEF Spec

\* The memory manager never loses count: bufferedBytes_ is what the queues hold
\* less what is between the two critical sections of enqueue, however enqueue,
\* next and close of different queues interleave.
THEOREM BytesAccounted == Spec => []MemoryAccounting
<1>1. BufferInv => MemoryAccounting
  BY Zenon DEF BufferInv
<1> QED
  BY <1>1, BufferInvariant, PTL

\* A producer never waits on queues that are below the limit: next and close
\* realize the promises when they take the total below it.
THEOREM BlockedBehindData == Spec => []BlockedHasData
<1>1. ExchangeInv /\ BufferInv => BlockedHasData
  <2> SUFFICES ASSUME ExchangeInv, BufferInv, promises # {}
               PROVE  QueuedBytes >= MaxBufferSize
    BY Zenon DEF BlockedHasData
  <2>1. bufferedBytes >= MaxBufferSize
    BY Zenon DEF ExchangeInv, LimitReached
  <2>2. bufferedBytes = QueuedBytes - Cardinality(Increasing)
    BY Zenon DEF BufferInv, MemoryAccounting
  <2>3. Increasing \in SUBSET Producers
    BY Zenon DEF Increasing
  <2>4. QueuedBytes \in Nat /\ Cardinality(Increasing) \in Nat
    BY Zenon, <2>3, QueuesFinite, StackedFinite, ProducerSets
       DEF QueuedBytes, ExchangeInv, TypeOK
  <2> QED
    BY <2>1, <2>2, <2>4, ExchangeAssumption
<1> QED
  BY <1>1, ExchangeInvariant, BufferInvariant, PTL

\* The soft limit is a limit: past maxBufferSize_ each producer has at most two
\* inputs to hand over, one that it has begun and one that the reasons it starts
\* with let through, before isBlocked stops it.
THEOREM BufferBounded == Spec => []BoundedBuffer
<1>1. ExchangeInv /\ BufferInv => BoundedBuffer
  <2> SUFFICES ASSUME ExchangeInv, BufferInv PROVE BoundedBuffer
    BY Zenon
  <2> USE DEF ExchangeInv, BufferInv
  <2> DEFINE bound == 2 * Cardinality(Producers) * NumPartitions
             n == [p \in Producers |-> Room(p)]
  <2>1. /\ IsFiniteSet(Producers) /\ Cardinality(Producers) \in Nat
        /\ MaxBufferSize \in Nat /\ NumPartitions \in Nat \ {0}
    BY Zenon, ExchangeAssumption, FS_CardinalityType
  <2>2. bound \in Nat /\ Cardinality(Producers) =< bound
    BY <2>1
  <2>3. Increasing \in SUBSET Producers
    BY Zenon DEF Increasing
  <2>4. /\ QueuedBytes \in Nat /\ Cardinality(Increasing) \in Nat
        /\ IsFiniteSet(Increasing)
        /\ Cardinality(Increasing) =< Cardinality(Producers)
    BY Zenon, <2>1, <2>3, QueuesFinite, StackedFinite, ProducerSets, FS_Subset
       DEF QueuedBytes, TypeOK
  <2>5. ASSUME NEW p \in Producers
        PROVE  Room(p) \in Nat /\ (p \in Increasing => Room(p) >= 1)
    <3>1. /\ Cardinality(sending[p]) \in Nat
          /\ sending[p] # {} => Cardinality(sending[p]) >= 1
      <4>1. sending[p] \in SUBSET Queues
        BY Zenon DEF TypeOK
      <4>2. IsFiniteSet(sending[p])
        BY Zenon, <4>1, QueuesFinite, FS_Subset
      <4> QED
        BY SMTT(30), <4>2, FS_CardinalityType, FS_EmptySet
    <3>2. Again(p) \in Nat
      BY Zenon, <2>1 DEF Again
    <3>3. Left(p) \in Nat /\ (sending[p] # {} => Left(p) >= 1)
      BY SMTT(30), <2>1, <3>1 DEF Left
    <3>4. p \in Increasing => sending[p] # {} /\ ~HasPromise(p, waitingOn[p])
      BY Zenon DEF Increasing, PhasesOK, FuturesOK, HasPromise
    <3> QED
      BY SMTT(30), <3>2, <3>3, <3>4 DEF Room
  <2>6. n \in [Producers -> Nat] /\ \A p \in Increasing : n[p] >= 1
    BY Zenon, <2>3, <2>5
  <2>7. Rooms = Stacked(Producers, n)
    BY Zenon DEF Rooms
  <2> HIDE DEF n, bound
  <2>8. IsFiniteSet(Rooms) /\ Cardinality(Rooms) \in Nat
    BY Zenon, <2>1, <2>6, <2>7, StackedFinite
  <2>9. Cardinality(Increasing) =< Cardinality(Rooms)
    <3>1. Increasing \X {1} \in SUBSET Rooms
      <4>1. \A p \in Increasing : <<p, 1>> \in Rooms
        BY <2>3, <2>6, <2>7, StackedPair
      <4> QED
        BY <4>1
    <3>2. IsFiniteSet({1}) /\ Cardinality({1}) = 1
      BY Zenon, FS_Singleton
    <3>3. Cardinality(Increasing \X {1}) = Cardinality(Increasing) * Cardinality({1})
      BY Zenon, <2>4, <3>2, FS_Product
    <3>4. Cardinality(Increasing \X {1}) =< Cardinality(Rooms)
      BY Zenon, <2>8, <3>1, FS_Subset
    <3> QED
      BY <2>4, <3>2, <3>3, <3>4
  <2>10. bufferedBytes = QueuedBytes - Cardinality(Increasing) /\ bufferedBytes \in Int
    BY Zenon DEF MemoryAccounting, TypeOK
  <2>11. bufferedBytes >= MaxBufferSize =>
           bufferedBytes + Cardinality(Rooms) < MaxBufferSize + bound
    BY Zenon DEF RoomOK, bound
  <2>12. QueuedBytes < MaxBufferSize + bound
    BY <2>1, <2>2, <2>4, <2>8, <2>9, <2>10, <2>11
  <2> QED
    BY Zenon, <2>12 DEF BoundedBuffer, bound
<1> QED
  BY <1>1, ExchangeInvariant, BufferInvariant, PTL


=============================================================================
