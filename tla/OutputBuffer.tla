---------------------------- MODULE OutputBuffer ----------------------------
(***************************************************************************)
(* The PartitionedOutputBuffer of one task, its DestinationBuffers, and    *)
(* the exchange sources that read from it (velox/exec/                     *)
(* PartitionedOutputBufferManager.cpp, and LocalExchangeSource of          *)
(* velox/exec/Exchange.cpp).                                               *)
(*                                                                         *)
(* Every step is one critical section of PartitionedOutputBuffer::mutex_,  *)
(* or what the thread does after it.  The calls of a consumer (getData,    *)
(* acknowledge, deleteResults) and the callbacks of the buffer are         *)
(* messages: they take effect some time after they are sent, in any order. *)
(*                                                                         *)
(* Pages are numbered in the order they are produced and have all the same *)
(* size.  A page is a std::shared_ptr: it is held by the buffers, by       *)
(* dataToBroadcast_, and by the "freed" vectors of the threads that have   *)
(* left the mutex and not yet cleared them.                                *)
(***************************************************************************)
EXTENDS Integers, Sequences, FiniteSets, Functions

CONSTANTS
  Drivers,            \* the drivers that produce
  NumDestinations,    \* the number of consumers
  NumInitial,         \* the number of buffers at first, when broadcasting
  Broadcast,          \* broadcast_
  NumDeclared,        \* numDrivers_ at first, before updateNumDrivers
  MaxSize,            \* maxSize_
  PageSize,           \* the size of a page
  PagesPerGet,        \* pages that fit into the maxBytes of getData
  MayClose,           \* consumers that may close before they got everything
  MayFail,            \* may the task be terminated?
  MaxPages            \* bound: pages produced

ASSUME OutputAssumption ==
  /\ IsFiniteSet(Drivers)
  /\ NumDestinations \in Nat \ {0}
  /\ NumInitial \in 1 .. NumDestinations
  /\ Broadcast \in BOOLEAN
  /\ MayClose \subseteq 1 .. NumDestinations
  /\ MayFail \in BOOLEAN
  /\ NumDeclared \in Nat
  /\ NumDeclared >= Cardinality(Drivers)
  /\ MaxSize \in Nat \ {0, 1}
  /\ PageSize \in Nat \ {0}
  /\ PagesPerGet \in Nat \ {0}
  /\ MaxPages \in Nat

Destinations == 1 .. NumDestinations
Pages == 1 .. MaxPages

\* The null page that marks the end.
End == 0

\* continueSize_, with kContinuePct = 90.
ContinueSize == (MaxSize * 90) \div 100

VARIABLES
  \* PartitionedOutputBuffer
  numBuffers,             \* buffers_.size()
  deleted,                \* destinations whose buffer is null again
  noMoreBroadcastBuffers, \* noMoreBroadcastBuffers_
  dataToBroadcast,        \* dataToBroadcast_
  totalSize,              \* totalSize_
  promises,               \* drivers waiting for promises_
  numDrivers,             \* numDrivers_
  numFinished,            \* numFinished_
  atEnd,                  \* atEnd_
  \* DestinationBuffer of each destination
  data,                   \* data_
  sequence,               \* sequence_
  notify,                 \* destinations with a callback in notify_
  notifySequence,         \* notifySequence_
  \* Threads that have left the mutex
  releasing,              \* what each still has to free and to realize
  noMoreDriversCall,      \* updateNumDrivers is about to call noMoreDrivers
  holding,                \* callbacks this call is in, under Task::mutex_
  \* The drivers and the task
  produced,               \* pages produced so far
  driverState,            \* "produce", "blocked" or "done"
  removed,                \* the task was terminated and its buffer removed
  consumed,               \* calls of Task::setAllOutputConsumed
  \* The exchange source of each destination, and messages under way
  requestPending,         \* sources with requestPending_
  sourceSequence,         \* sequence_ of the source
  sourceAtEnd,            \* sources with atEnd_
  closed,                 \* sources closed by their client
  requests, acks, deletes,\* calls of the sources under way
  delivery,               \* callbacks under way
  \* History
  sent,                   \* the pages addressed to each destination
  received,               \* the pages its source has got
  failed                  \* the VELOX_CHECKs that have failed

bufferVars == <<numBuffers, deleted, noMoreBroadcastBuffers, dataToBroadcast>>
sizeVars == <<totalSize, promises>>
endVars == <<numDrivers, numFinished, atEnd, noMoreDriversCall, holding>>
destVars == <<data, sequence, notify, notifySequence>>
driverVars == <<produced, driverState, sent>>
taskVars == <<removed, consumed>>
sourceVars == <<requestPending, sourceSequence, sourceAtEnd, closed, received>>
messageVars == <<requests, acks, deletes, delivery>>

vars == <<bufferVars, sizeVars, endVars, destVars, driverVars, taskVars,
          sourceVars, messageVars, releasing, failed>>

-----------------------------------------------------------------------------
Init ==
  /\ numBuffers = IF Broadcast THEN NumInitial ELSE NumDestinations
  /\ deleted = {}
  /\ noMoreBroadcastBuffers = FALSE
  /\ dataToBroadcast = <<>>
  /\ totalSize = 0
  /\ promises = {}
  /\ numDrivers = NumDeclared
  /\ numFinished = 0
  /\ atEnd = FALSE
  /\ data = [d \in Destinations |-> <<>>]
  /\ sequence = [d \in Destinations |-> 0]
  /\ notify = {}
  /\ notifySequence = [d \in Destinations |-> 0]
  /\ releasing = {}
  /\ noMoreDriversCall = FALSE
  /\ holding = {}
  /\ produced = 0
  /\ driverState = [w \in Drivers |-> "produce"]
  /\ removed = FALSE
  /\ consumed = 0
  /\ requestPending = {}
  /\ sourceSequence = [d \in Destinations |-> 0]
  /\ sourceAtEnd = {}
  /\ closed = {}
  /\ requests = {} /\ acks = {} /\ deletes = {}
  /\ delivery = [d \in {} |-> <<>>]
  /\ sent = [d \in Destinations |-> <<>>]
  /\ received = [d \in Destinations |-> <<>>]
  /\ failed = {}

-----------------------------------------------------------------------------
(* Parts of the critical sections *)

\* A VELOX_CHECK that fails: the call throws.
Fails(check, condition) == IF condition THEN {check} ELSE {}

\* The destinations whose buffer exists.
Live == 1 .. numBuffers \ deleted

\* Is Task::mutex_ free?  Task::noMoreSplits calls updateNumDrivers with it, and
\* has it until the last callback of noMoreDrivers has returned.
TaskMutexFree == ~noMoreDriversCall /\ holding = {}

\* Defect: a page is counted whenever it leaves a buffer.
UniqueAlways(p, dat, bc) == TRUE

\* Page p is held by nobody but the thread that has just removed it: what
\* shared_ptr::unique() says, with contents dat of the buffers and bc of
\* dataToBroadcast_.
Unique(p, dat, bc) ==
  /\ \A d \in Destinations : \A i \in DOMAIN dat[d] : dat[d][i] # p
  /\ \A i \in DOMAIN bc : bc[i] # p
  /\ \A r \in releasing : p \notin r.freed

\* The bytes PartitionedOutputBuffer::updateAfterAcknowledgeLocked takes off.
TotalFreed(freed, dat, bc) ==
  PageSize * Cardinality({p \in freed : Unique(p, dat, bc)})

\* Defect: the comparison is turned round.
ResumesAbove(size) == size > ContinueSize

\* Are the blocked producers resumed once totalSize_ is down to size?
Resumes(size) == size < ContinueSize

\* PartitionedOutputBuffer::updateAfterAcknowledgeLocked, and what is left to
\* releaseAfterAcknowledge outside the mutex: freeing the pages, realizing the
\* promises and, if the buffer is finished, setAllOutputConsumed.
UpdateAfterAcknowledge(by, freed, dat, bc, isFinished) ==
  LET bytes == TotalFreed(freed, dat, bc)
      resumed == IF bytes > 0 /\ Resumes(totalSize - bytes) THEN promises
                 ELSE {}
  IN /\ totalSize' = totalSize - bytes
     /\ promises' = promises \ resumed
     /\ releasing' =
          IF freed = {} /\ resumed = {} /\ ~isFinished THEN releasing
          ELSE releasing \cup {[by |-> by, freed |-> freed,
                                resumed |-> resumed,
                                isFinished |-> isFinished]}

\* Defect: the newest page comes first.
EnqueuedFirst(pages, p) == <<p>> \o pages

\* Defect: every end marker is dropped.
EnqueuedNoEnd(pages, p) == IF p = End THEN pages ELSE Append(pages, p)

\* DestinationBuffer::enqueue drops a second end marker.
Enqueued(pages, p) ==
  IF p = End /\ pages # <<>> /\ pages[Len(pages)] = End THEN pages
  ELSE Append(pages, p)

\* Defect: the size of a dropped page is kept.
EnqueuedSizeKept(targets) == totalSize + PageSize

\* totalSize_ after a page was added to the targets, or dropped.
EnqueuedSize(targets) ==
  IF ~Broadcast /\ targets = {} THEN totalSize ELSE totalSize + PageSize

\* Where an answer with what comes after the first skip pages ends.
FetchEnd(pages, skip) ==
  IF Len(pages) < skip + PagesPerGet THEN Len(pages) ELSE skip + PagesPerGet

\* Defect: the first page is skipped.
FetchedNext(pages, skip) == SubSeq(pages, skip + 2, FetchEnd(pages, skip))

\* DestinationBuffer::getData: at most PagesPerGet pages, past the first skip.
Fetched(pages, skip) == SubSeq(pages, skip + 1, FetchEnd(pages, skip))

\* Defect: the callback is cleared and not called.
NotifyLost(D, dat) ==
  /\ notify' = notify \ D
  /\ UNCHANGED <<delivery, notifySequence>>

\* DestinationBuffer::getAndClearNotify on the buffers in D, with contents
\* dat.  The callback was registered on an empty buffer, for its next page.
Notify(D, dat) ==
  /\ delivery' = [d \in DOMAIN delivery \cup (D \cap notify) |->
                    IF d \in D \cap notify
                    THEN [sequence |-> notifySequence[d],
                          pages |-> Fetched(dat[d],
                                            notifySequence[d] - sequence[d])]
                    ELSE delivery[d]]
  /\ notify' = notify \ D
  /\ notifySequence' = [d \in Destinations |->
                          IF d \in D THEN 0 ELSE notifySequence[d]]

\* Defect: a new buffer does not get the pages broadcast before.
AddedBuffersEmpty(n) == data

\* PartitionedOutputBuffer::addBroadcastOutputBuffersLocked: the contents of
\* the buffers when there are n of them.
AddedBuffers(n) ==
  [d \in Destinations |->
     IF d \in numBuffers + 1 .. n
     THEN dataToBroadcast \o (IF atEnd THEN <<End>> ELSE <<>>)
     ELSE data[d]]

\* The pages without the end markers.
WithoutEnd(pages) ==
  LET kept == {i \in DOMAIN pages : pages[i] # End}
  IN [k \in 1 .. Cardinality(kept) |->
        pages[CHOOSE i \in kept : Cardinality({j \in kept : j <= i}) = k]]

\* The pages among the first n of a buffer.
Dropped(pages, n) == {pages[i] : i \in 1 .. n} \ {End}

\* Defect: buffers that may still be added are forgotten.
IsFinishedEarly(n, gone, noMore) == 1 .. n \subseteq gone

\* PartitionedOutputBuffer::isFinishedLocked.
IsFinished(n, gone, noMore) ==
  /\ ~Broadcast \/ noMore
  /\ 1 .. n \subseteq gone

-----------------------------------------------------------------------------
(* The producers *)

\* PartitionedOutputBuffer::enqueue.  A page goes to one buffer, or to all of
\* them, or is dropped because its destination is deleted.  The caller may
\* pass a future to wait for (wait) or none: when a PartitionedOutput operator
\* is blocked, or finishes, it flushes its other destinations without waiting.
Enqueue(w, d, wait) ==
  LET p == produced + 1
      targets == IF Broadcast THEN Live ELSE {d} \cap Live
      dat == [e \in Destinations |->
                IF e \in targets THEN Enqueued(data[e], p) ELSE data[e]]
      size == EnqueuedSize(targets)
      blocked == wait /\ size > MaxSize
  IN /\ ~removed
     /\ driverState[w] = "produce" \/ (driverState[w] = "blocked" /\ ~wait)
     /\ produced < MaxPages
     /\ produced' = p
     /\ data' = dat
     /\ Notify(targets, dat)
     /\ dataToBroadcast' = IF Broadcast /\ ~noMoreBroadcastBuffers
                           THEN Append(dataToBroadcast, p)
                           ELSE dataToBroadcast
     /\ totalSize' = size
     /\ promises' = IF blocked THEN promises \cup {w} ELSE promises
     /\ driverState' = IF blocked THEN [driverState EXCEPT ![w] = "blocked"]
                       ELSE driverState
     /\ sent' = [e \in Destinations |->
                   IF Broadcast \/ e = d THEN Append(sent[e], p) ELSE sent[e]]
     /\ UNCHANGED <<numBuffers, deleted, noMoreBroadcastBuffers, endVars,
                    sequence, taskVars, sourceVars, requests, acks, deletes,
                    releasing, failed>>

\* PartitionedOutputBuffer::checkIfDone, with n drivers finished.
CheckIfDone(n) ==
  LET done == n = numDrivers
      dat == [d \in Destinations |->
                IF done /\ d \in Live THEN Enqueued(data[d], End)
                ELSE data[d]]
  IN /\ numFinished' = n
     /\ IF n > numDrivers
        THEN /\ failed' = failed \cup {"noMoreData"}
             /\ UNCHANGED <<atEnd, data, notify, notifySequence, delivery>>
        ELSE /\ atEnd' = done
             /\ data' = dat
             /\ Notify(IF done THEN Live ELSE {}, dat)
             /\ UNCHANGED failed

\* PartitionedOutputBuffer::noMoreData.
NoMoreData(w) ==
  /\ ~removed
  /\ driverState[w] = "produce"
  /\ driverState' = [driverState EXCEPT ![w] = "done"]
  /\ CheckIfDone(numFinished + 1)
  /\ UNCHANGED <<bufferVars, sizeVars, numDrivers, noMoreDriversCall,
                 holding, sequence, produced, sent, taskVars, sourceVars, requests,
                 acks, deletes, releasing>>

\* PartitionedOutputBuffer::updateNumDrivers: in grouped execution the number
\* of drivers turns out smaller than declared.  The caller,
\* Task::checkNoMoreSplitGroupsLocked, holds Task::mutex_.
UpdateNumDrivers ==
  /\ ~removed
  /\ numDrivers # Cardinality(Drivers)
  /\ numDrivers' = Cardinality(Drivers)
  /\ noMoreDriversCall' = (numFinished = Cardinality(Drivers))
  /\ UNCHANGED <<bufferVars, sizeVars, numFinished, atEnd, holding, destVars,
                 driverVars, taskVars, sourceVars, messageVars, releasing,
                 failed>>

\* PartitionedOutputBuffer::noMoreDrivers, called after the buffer's mutex is
\* released, but under the task's.
NoMoreDrivers ==
  /\ noMoreDriversCall
  /\ noMoreDriversCall' = FALSE
  /\ holding' = Live \cap notify
  /\ CheckIfDone(numFinished)
  /\ UNCHANGED <<bufferVars, sizeVars, numDrivers, sequence, driverVars,
                 taskVars, sourceVars, requests, acks, deletes, releasing>>

-----------------------------------------------------------------------------
(* The task *)

\* PartitionedOutputBuffer::updateBroadcastOutputBuffers: more destinations
\* are known, and perhaps that there will be no others.  Calls after the last
\* one are ignored by Task::updateBroadcastOutputBuffers.
UpdateBroadcastOutputBuffers(n, noMore) ==
  /\ Broadcast /\ ~removed /\ ~noMoreBroadcastBuffers
  /\ IF noMore THEN n = NumDestinations ELSE n > numBuffers
  /\ numBuffers' = n
  /\ data' = AddedBuffers(n)
  /\ noMoreBroadcastBuffers' = noMore
  /\ IF noMore
     THEN /\ dataToBroadcast' = <<>>
          /\ UpdateAfterAcknowledge(<<"update", 0>>, Range(dataToBroadcast),
                                    AddedBuffers(n), <<>>,
                                    IsFinished(n, deleted, TRUE))
     ELSE UNCHANGED <<dataToBroadcast, sizeVars, releasing>>
  /\ UNCHANGED <<deleted, endVars, sequence, notify, notifySequence,
                 driverVars, taskVars, sourceVars, messageVars, failed>>

\* PartitionedOutputBufferManager::removeTask and
\* PartitionedOutputBuffer::terminate, from Task::terminate.
RemoveTask ==
  /\ ~removed /\ TaskMutexFree
  /\ MayFail \/ (consumed > 0 /\ \A w \in Drivers : driverState[w] = "done")
  /\ removed' = TRUE
  /\ promises' = {}
  /\ driverState' = [w \in Drivers |-> IF w \in promises THEN "produce"
                                       ELSE driverState[w]]
  /\ UNCHANGED <<bufferVars, totalSize, endVars, destVars, produced, sent,
                 consumed, sourceVars, messageVars, releasing, failed>>

\* releaseAfterAcknowledge, and Task::setAllOutputConsumed after it.
Release(r) ==
  /\ r.isFinished => TaskMutexFree
  /\ releasing' = releasing \ {r}
  /\ driverState' = [w \in Drivers |-> IF w \in r.resumed THEN "produce"
                                       ELSE driverState[w]]
  /\ consumed' = IF r.isFinished THEN consumed + 1 ELSE consumed
  /\ UNCHANGED <<bufferVars, sizeVars, endVars, destVars, produced, sent,
                 removed, sourceVars, messageVars, failed>>

-----------------------------------------------------------------------------
(* The calls of the exchange sources, as the task's buffer serves them *)

\* PartitionedOutputBuffer::getData for the request of source d.  It
\* acknowledges what the source has got, and either answers or, if there is
\* nothing to send, keeps the callback for the next page.  A task whose buffer
\* is gone does not answer.
GetData(d) ==
  LET seq == sourceSequence[d]
      added == Broadcast /\ d > numBuffers
      before == IF added THEN AddedBuffers(d)[d] ELSE data[d]
      numDeleted == seq - sequence[d]
      after == SubSeq(before, numDeleted + 1, Len(before))
      dat == [(IF added THEN AddedBuffers(d) ELSE data) EXCEPT ![d] = after]
      fails == UNION {
        Fails("addedTooLate", added /\ noMoreBroadcastBuffers),
        Fails("getDataDeleted", d \in deleted),
        Fails("ackNotProduced", d \in Live /\ numDeleted > Len(before)),
        Fails("getAcknowledged", d \in Live /\ numDeleted < 0)}
  IN /\ d \in requests
     /\ requests' = requests \ {d}
     /\ UNCHANGED <<deleted, noMoreBroadcastBuffers, dataToBroadcast, endVars,
                    driverVars, taskVars, sourceVars, acks, deletes>>
     /\ failed' = IF removed THEN failed ELSE failed \cup fails
     /\ IF removed \/ fails # {}
        THEN UNCHANGED <<numBuffers, sizeVars, destVars, delivery, releasing>>
        ELSE /\ numBuffers' = IF added THEN d ELSE numBuffers
             /\ data' = dat
             /\ sequence' = [sequence EXCEPT ![d] = seq]
             /\ UpdateAfterAcknowledge(
                  <<IF after = <<>> THEN "wait" ELSE "get", d>>,
                  Dropped(before, numDeleted), dat, dataToBroadcast, FALSE)
             /\ IF after = <<>>
                THEN /\ notify' = notify \cup {d}
                     /\ notifySequence' = [notifySequence EXCEPT ![d] = seq]
                     /\ UNCHANGED delivery
                ELSE /\ delivery' = [e \in DOMAIN delivery \cup {d} |->
                                       IF e = d
                                       THEN [sequence |-> seq,
                                             pages |-> Fetched(after, 0)]
                                       ELSE delivery[e]]
                     /\ UNCHANGED <<notify, notifySequence>>

\* PartitionedOutputBuffer::acknowledge.  An acknowledgement may arrive after
\* a later one, or after the buffer was deleted: then it does nothing.
Acknowledge(d, s) ==
  LET numDeleted == s - sequence[d]
      dat == [data EXCEPT ![d] = SubSeq(@, numDeleted + 1, Len(@))]
      ignored == removed \/ d \in deleted \/ numDeleted <= 0
      fails == Fails("ackNotProduced", ~ignored /\ numDeleted > Len(data[d]))
  IN /\ <<d, s>> \in acks
     /\ acks' = acks \ {<<d, s>>}
     /\ failed' = failed \cup fails
     /\ IF ignored \/ fails # {}
        THEN UNCHANGED <<data, sequence, sizeVars, releasing>>
        ELSE /\ data' = dat
             /\ sequence' = [sequence EXCEPT ![d] = s]
             /\ UpdateAfterAcknowledge(<<"ack", d>>,
                                       Dropped(data[d], numDeleted), dat,
                                       dataToBroadcast, FALSE)
     /\ UNCHANGED <<bufferVars, endVars, notify, notifySequence, driverVars,
                    taskVars, sourceVars, requests, deletes, delivery>>

\* PartitionedOutputBuffer::deleteResults.  A callback still registered gets
\* no data.
DeleteResults(d, why) ==
  LET dat == [data EXCEPT ![d] = <<>>]
      isFinished == IsFinished(numBuffers, deleted \cup {d},
                               noMoreBroadcastBuffers)
  IN /\ <<d, why>> \in deletes
     /\ deletes' = deletes \ {<<d, why>>}
     /\ holding' = IF why = "end" /\ (removed \/ d \in deleted \/ ~isFinished)
                   THEN holding \ {d} ELSE holding
     /\ IF removed \/ d \in deleted \/ d > numBuffers
        THEN /\ failed' = failed \cup
                            Fails("deleteUnknown", ~removed /\ d > numBuffers)
             /\ UNCHANGED <<deleted, sizeVars, destVars, delivery, releasing>>
        ELSE /\ deleted' = deleted \cup {d}
             /\ data' = dat
             /\ Notify({d}, dat)
             /\ UpdateAfterAcknowledge(<<why, d>>,
                  Dropped(data[d], Len(data[d])), dat, dataToBroadcast,
                  isFinished)
             /\ UNCHANGED <<sequence, failed>>
     /\ UNCHANGED <<numBuffers, noMoreBroadcastBuffers, dataToBroadcast,
                    numDrivers, numFinished, atEnd, noMoreDriversCall,
                    driverVars, taskVars, sourceVars, requests, acks>>

-----------------------------------------------------------------------------
(* The exchange sources *)

\* LocalExchangeSource::shouldRequestLocked, from ExchangeClient::next or
\* addRemoteTaskId, and the call of getData that follows outside the lock.
Request(d) ==
  /\ d \notin closed \cup sourceAtEnd \cup requestPending
  /\ requestPending' = requestPending \cup {d}
  /\ requests' = requests \cup {d}
  /\ UNCHANGED <<bufferVars, sizeVars, endVars, destVars, driverVars,
                 taskVars, sourceSequence, sourceAtEnd, closed, received,
                 acks, deletes, delivery, releasing, failed>>

\* Defect: the acknowledgement is one page ahead.
AckSequenceAhead(d, pages) == sourceSequence[d] + Len(pages) + 1

\* The next page the source asks for, after it has got these.
AckSequence(d, pages) == sourceSequence[d] + Len(pages)

\* The callback of LocalExchangeSource::request.  A thread in getData frees
\* the acknowledged pages before it calls back.  Pages the source has got
\* already are dropped.
Deliver(d) ==
  LET extra == sourceSequence[d] - delivery[d].sequence
      fresh == SubSeq(delivery[d].pages, extra + 1, Len(delivery[d].pages))
      pages == WithoutEnd(fresh)
      atEndNow == \E i \in DOMAIN fresh : fresh[i] = End
      seq == AckSequence(d, pages)
  IN /\ d \in DOMAIN delivery
     /\ \A r \in releasing : r.by # <<"get", d>>
     /\ delivery' = [e \in DOMAIN delivery \ {d} |-> delivery[e]]
     /\ requestPending' = requestPending \ {d}
     /\ received' = [received EXCEPT ![d] = @ \o pages]
     /\ sourceSequence' = [sourceSequence EXCEPT ![d] = seq]
     /\ sourceAtEnd' = IF atEndNow THEN sourceAtEnd \cup {d} ELSE sourceAtEnd
     /\ deletes' = IF atEndNow THEN deletes \cup {<<d, "end">>}
                   ELSE deletes
     /\ acks' = IF atEndNow THEN acks ELSE acks \cup {<<d, seq>>}
     /\ UNCHANGED <<bufferVars, sizeVars, endVars, destVars, driverVars,
                    taskVars, closed, requests, releasing, failed>>

\* ExchangeClient::close and LocalExchangeSource::close, early or at the end.
Close(d) ==
  /\ d \in MayClose \cup sourceAtEnd
  /\ d \notin closed
  /\ closed' = closed \cup {d}
  /\ deletes' = deletes \cup {<<d, "close">>}
  /\ UNCHANGED <<bufferVars, sizeVars, endVars, destVars, driverVars,
                 taskVars, requestPending, sourceSequence, sourceAtEnd,
                 received, requests, acks, delivery, releasing, failed>>

-----------------------------------------------------------------------------
Next ==
  \/ \E w \in Drivers, d \in Destinations, wait \in BOOLEAN :
       Enqueue(w, d, wait)
  \/ \E w \in Drivers : NoMoreData(w)
  \/ UpdateNumDrivers
  \/ NoMoreDrivers
  \/ \E n \in Destinations, noMore \in BOOLEAN :
       UpdateBroadcastOutputBuffers(n, noMore)
  \/ RemoveTask
  \/ \E r \in releasing : Release(r)
  \/ \E d \in Destinations : GetData(d)
  \/ \E d \in Destinations, s \in 0 .. MaxPages : Acknowledge(d, s)
  \/ \E d \in Destinations, why \in {"end", "close"} : DeleteResults(d, why)
  \/ \E d \in Destinations : Request(d)
  \/ \E d \in Destinations : Deliver(d)
  \/ \E d \in Destinations : Close(d)

Spec == Init /\ [][Next]_vars

\* What the code's threads guarantee: a producer that is not blocked goes on
\* until it is done, a thread inside a call finishes it, an open exchange asks
\* for more data and is closed once it has it all, and the coordinator settles
\* the number of drivers and of broadcast destinations.
Fairness ==
  /\ \A w \in Drivers : WF_vars(NoMoreData(w))
  /\ WF_vars(UpdateNumDrivers)
  /\ WF_vars(NoMoreDrivers)
  /\ WF_vars(UpdateBroadcastOutputBuffers(NumDestinations, TRUE))
  /\ WF_vars(\E r \in releasing : Release(r))
  /\ \A d \in Destinations :
       /\ WF_vars(Request(d))
       /\ WF_vars(GetData(d))
       /\ WF_vars(\E s \in 0 .. MaxPages : Acknowledge(d, s))
       /\ WF_vars(\E why \in {"end", "close"} : DeleteResults(d, why))
       /\ WF_vars(Deliver(d))

LiveSpec == Spec /\ Fairness

-----------------------------------------------------------------------------
(* Properties *)

\* The pages that the buffers hold.
Stored == {p \in Pages : \/ \E d \in Destinations : p \in Range(data[d])
                         \/ p \in Range(dataToBroadcast)}

\* totalSize_ is the size of the pages that the buffers hold, after every
\* critical section: it is what the producers are blocked and resumed by.
SizeAccounting == totalSize = PageSize * Cardinality(Stored)

\* totalSize_ never understates what the buffers hold, so that producers do
\* block when the limit is reached: a page that several destinations share is
\* taken off when the last of them lets it go, not before.
NeverUnderstated == totalSize >= PageSize * Cardinality(Stored)

\* A request of a source that is not closed is in one place: on its way, kept
\* in its buffer, which is then empty, or being answered.  No callback is lost
\* and none is called twice.
PendingRequests ==
  /\ \A d \in notify : data[d] = <<>> /\ notifySequence[d] = sequence[d]
  /\ requests \cap (notify \cup DOMAIN delivery) = {}
  /\ notify \cap DOMAIN delivery = {}
  /\ ~removed => requestPending \ closed =
                   (requests \cup notify \cup DOMAIN delivery) \ closed

\* Nothing is lost: what was sent to a destination is what its source has
\* acknowledged, followed by what its buffer holds, and each acknowledged page
\* was received.  The end marker comes last, once all the drivers are done.
NothingLost ==
  \A d \in Live :
    LET pages == WithoutEnd(data[d])
    IN /\ sequence[d] <= Len(received[d])
       /\ sent[d] = SubSeq(received[d], 1, sequence[d]) \o pages
       /\ data[d] = pages \o (IF atEnd THEN <<End>> ELSE <<>>)

\* Task::setAllOutputConsumed is called once, after every destination is
\* deleted and, when broadcasting, no more of them can be added.
ConsumedOnce ==
  LET finishing == {r \in releasing : r.isFinished}
  IN /\ consumed + Cardinality(finishing) <= 1
     /\ consumed > 0 => IsFinished(numBuffers, deleted, noMoreBroadcastBuffers)

\* The VELOX_CHECKs of the buffer and its destinations hold, however late the
\* messages.  Only a source that closes early trips one: while its request is
\* under way, or before its broadcast buffer exists.
ChecksHold ==
  failed \subseteq (IF MayClose = {} THEN {} ELSE {"getDataDeleted"})
    \cup (IF MayClose = {} \/ ~Broadcast THEN {} ELSE {"deleteUnknown"})

\* The buffer implements a channel to each destination that delivers the pages
\* in order, once each, and then the end.
Channel == INSTANCE PageChannel WITH done <- atEnd, ended <- sourceAtEnd
ImplementsChannel == Channel!ChannelSpec

\* A producer that waits for its consumers is resumed.
ProducersResume ==
  \A w \in Drivers : driverState[w] = "blocked" ~> driverState[w] # "blocked"

\* Once every driver is done, each open source comes to the end of its data,
\* and the task learns that all of its output is consumed.
OutputConsumed ==
  (\A w \in Drivers : driverState[w] = "done") ~> consumed > 0

-----------------------------------------------------------------------------
(* The inductive invariant of the proofs *)

\* Who is done, who waits, and that the end is not announced before.
DriversOK ==
  /\ driverState \in [Drivers -> {"produce", "blocked", "done"}]
  /\ numDrivers \in Nat /\ numDrivers >= Cardinality(Drivers)
  /\ numFinished = Cardinality({w \in Drivers : driverState[w] = "done"})
  /\ atEnd \in BOOLEAN
  /\ noMoreDriversCall => numFinished = numDrivers /\ ~atEnd
  /\ atEnd => numFinished = numDrivers
  /\ \A w \in promises : w \in Drivers /\ driverState[w] = "blocked"
  /\ \A r \in releasing : \A w \in r.resumed :
       /\ w \in Drivers /\ driverState[w] = "blocked"
       /\ w \notin promises
       /\ \A q \in releasing : w \in q.resumed => q = r

\* Which buffers there are.
BuffersOK ==
  /\ numBuffers \in Destinations
  /\ deleted \subseteq 1 .. numBuffers
  /\ ~Broadcast => numBuffers = NumDestinations /\ ~noMoreBroadcastBuffers
  /\ noMoreBroadcastBuffers => numBuffers = NumDestinations

\* The output is consumed, or is about to be, once, and only when it is.
FinishOK ==
  /\ consumed \in Nat
  /\ \A r \in releasing : r.isFinished =>
       /\ consumed = 0
       /\ IsFinished(numBuffers, deleted, noMoreBroadcastBuffers)
       /\ \A q \in releasing : q.isFinished => q = r
  /\ consumed > 0 => /\ consumed = 1
                     /\ IsFinished(numBuffers, deleted, noMoreBroadcastBuffers)

\* Each request of a source is in one place, and what the source knows is true
\* of the buffers.
RequestsOK ==
  /\ requestPending \subseteq Destinations
  /\ requests \cup notify \cup DOMAIN delivery \subseteq requestPending
  /\ requests \cap notify = {}
  /\ requests \cap DOMAIN delivery = {}
  /\ notify \cap DOMAIN delivery = {}
  /\ ~removed => requestPending \subseteq
                   requests \cup notify \cup DOMAIN delivery \cup closed
  /\ requestPending \cap sourceAtEnd = {}
  /\ notify \subseteq Live
  /\ DOMAIN delivery \cup sourceAtEnd \subseteq 1 .. numBuffers
  /\ closed \subseteq MayClose \cup sourceAtEnd
  /\ deleted \subseteq closed \cup sourceAtEnd
  /\ \A m \in deletes : m[1] \in closed \cup sourceAtEnd
  /\ \A m \in deletes : m[2] = "end" => m[1] \in sourceAtEnd

\* The pages sent to a destination, and the end marker once there is one.
Stream(pages, ended) == pages \o (IF ended THEN <<End>> ELSE <<>>)

\* The pages follow the first k of the stream.
Piece(pages, k, stream) ==
  /\ pages \in Seq(Pages \cup {End})
  /\ k + Len(pages) <= Len(stream)
  /\ \A i \in 1 .. Len(pages) : pages[i] = stream[k + i]

\* The pages are all of the stream after the first k.
Rest(pages, k, stream) ==
  /\ Piece(pages, k, stream)
  /\ k + Len(pages) = Len(stream)

\* A buffer holds the stream from its sequence_ on; its source has got a prefix
\* of it, and an answer under way is what comes next.
StreamOK(d) ==
  /\ sent[d] \in Seq(Pages)
  /\ Piece(received[d], 0, sent[d])
  /\ sequence[d] \in 0 .. Len(received[d])
  /\ sourceSequence[d] = Len(received[d])
  /\ d \in Live => Rest(data[d], sequence[d], Stream(sent[d], atEnd))
  /\ d \notin Live => data[d] = <<>>
  /\ d > numBuffers => received[d] = <<>>
  /\ d \in notify => /\ data[d] = <<>>
                     /\ notifySequence[d] = sequence[d]
                     /\ sequence[d] = sourceSequence[d]
  /\ d \in DOMAIN delivery =>
       /\ delivery[d].sequence = sourceSequence[d]
       /\ Piece(delivery[d].pages, Len(received[d]), Stream(sent[d], atEnd))
  /\ dataToBroadcast =
       IF Broadcast /\ ~noMoreBroadcastBuffers THEN sent[d] ELSE <<>>

StreamsOK ==
  /\ DOMAIN sent = Destinations /\ DOMAIN received = Destinations
  /\ DOMAIN sequence = Destinations /\ DOMAIN sourceSequence = Destinations
  /\ DOMAIN notifySequence = Destinations /\ DOMAIN data = Destinations
  /\ produced \in 0 .. MaxPages
  /\ \A d \in Destinations : StreamOK(d)
  /\ \A m \in acks : m[1] \in Destinations /\ m[2] \in 0 .. Len(received[m[1]])

\* Without broadcast a page is in one place: in one buffer, once, or freed.
DistinctOK ==
  ~Broadcast =>
    /\ \A d, e \in Destinations : \A i \in DOMAIN data[d], j \in DOMAIN data[e] :
         data[d][i] = data[e][j] /\ data[d][i] # End => d = e /\ i = j
    /\ \A d \in Destinations : \A i \in DOMAIN data[d] : data[d][i] <= produced
    /\ \A r \in releasing : \A p \in r.freed :
         /\ p \in 1 .. produced
         /\ \A d \in Destinations : \A i \in DOMAIN data[d] : data[d][i] # p

\* totalSize_ is at least what it should be, and exact without broadcast.
SizeOK == /\ totalSize \in Nat
          /\ NeverUnderstated
          /\ ~Broadcast => SizeAccounting

IInv == /\ DriversOK /\ BuffersOK /\ FinishOK /\ RequestsOK /\ StreamsOK
        /\ DistinctOK /\ SizeOK /\ ChecksHold

=============================================================================
