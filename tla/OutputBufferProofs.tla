------------------------- MODULE OutputBufferProofs -------------------------
(***************************************************************************)
(* Theorems about OutputBuffer, for any number of drivers, destinations    *)
(* and pages, with and without broadcast.                                  *)
(*                                                                         *)
(* IInv is inductive: OutputBufferStreams shows it of the drivers, the     *)
(* buffers and the streams, this module of the requests, the VELOX_CHECKs, *)
(* the pages in the buffers and the size.  The safety properties and the   *)
(* refinement of PageChannel follow.                                       *)
(***************************************************************************)
EXTENDS OutputBufferStreams

-----------------------------------------------------------------------------
(* The requests and the checks *)

\* A callback that is called moves its request from notify_ to an answer.
LEMMA RequestsNotify ==
  ASSUME RequestsOK, NEW D, D \subseteq Live, NEW dat, Notify(D, dat),
         NEW gone, gone \subseteq D \cap (closed \cup sourceAtEnd),
         deleted' = deleted \cup gone, deletes' \subseteq deletes,
         UNCHANGED <<numBuffers, requests, requestPending, removed, closed,
                     sourceAtEnd>>
  PROVE  RequestsOK'
<1> DEFINE answered == DOMAIN delivery
           buffers == 1 .. numBuffers
<1>1. notify' = notify \ D /\ DOMAIN delivery' = answered \cup (D \cap notify)
  BY Zenon DEF Notify
<1>2. Live = buffers \ deleted /\ Live' = buffers \ (deleted \cup gone)
  BY Zenon DEF Live
<1>3. /\ requestPending \subseteq Destinations
      /\ requests \cup notify \cup answered \subseteq requestPending
      /\ requests \cap notify = {}
      /\ requests \cap answered = {}
      /\ notify \cap answered = {}
      /\ ~removed => requestPending \subseteq
                       requests \cup notify \cup answered \cup closed
      /\ requestPending \cap sourceAtEnd = {}
      /\ notify \subseteq Live
      /\ answered \cup sourceAtEnd \subseteq buffers
      /\ closed \subseteq MayClose \cup sourceAtEnd
      /\ deleted \subseteq closed \cup sourceAtEnd
  BY Zenon DEF RequestsOK
<1> HIDE DEF answered, buffers
<1> DEFINE next == answered \cup (D \cap notify)
<1>4. /\ requests \cup notify' \cup next \subseteq requestPending
      /\ requests \cap notify' = {}
      /\ requests \cap next = {}
      /\ notify' \cap next = {}
      /\ ~removed => requestPending \subseteq
                       requests \cup notify' \cup next \cup closed
      /\ notify' \subseteq Live'
      /\ next \cup sourceAtEnd \subseteq buffers
      /\ deleted' \subseteq closed \cup sourceAtEnd
  BY Zenon, <1>1, <1>2, <1>3
<1>5. DOMAIN delivery' = next /\ (1 .. numBuffers)' = buffers
  BY Zenon, <1>1 DEF buffers
<1> HIDE DEF next
<1>6. /\ \A m \in deletes' : m[1] \in closed \cup sourceAtEnd
      /\ \A m \in deletes' : m[2] = "end" => m[1] \in sourceAtEnd
  BY Zenon DEF RequestsOK
<1> QED
  BY Zenon, <1>3, <1>4, <1>5, <1>6 DEF RequestsOK, buffers

\* Every call and message keeps each request pending with an answer to come.
LEMMA RequestsStep ==
  ASSUME DriversOK, BuffersOK, RequestsOK, StreamsOK, [Next]_vars
  PROVE  RequestsOK'
<1>1. ASSUME NEW w \in Drivers, NEW d \in Destinations, NEW wait \in BOOLEAN,
             Enqueue(w, d, wait)
      PROVE  RequestsOK'
  <2> DEFINE D == IF Broadcast THEN Live ELSE {d} \cap Live
             gone == {}
  <2>1. /\ Notify(D, data')
        /\ UNCHANGED <<numBuffers, deleted, requests, requestPending, removed,
                       closed, sourceAtEnd, deletes>>
    BY Zenon, <1>1 DEF Enqueue, sourceVars, taskVars
  <2>2. /\ D \subseteq Live /\ deleted' = deleted \cup gone
        /\ gone \subseteq D \cap (closed \cup sourceAtEnd)
        /\ deletes' \subseteq deletes
    BY Zenon, <2>1
  <2>3. UNCHANGED <<numBuffers, requests, requestPending, removed, closed,
                    sourceAtEnd>>
    BY Zenon, <2>1
  <2> HIDE DEF D, gone
  <2> QED
    BY Zenon, <2>1, <2>2, <2>3, RequestsNotify
<1>2. ASSUME NEW n \in Nat, n <= numDrivers, CheckIfDone(n),
             UNCHANGED <<numBuffers, deleted, requests, requestPending, removed,
                         closed, sourceAtEnd, deletes>>
      PROVE  RequestsOK'
  <2> DEFINE D == IF n = numDrivers THEN Live ELSE {}
  <2>1. Notify(D, data')
    BY Zenon, <1>2, CheckIfDoneSets DEF DriversOK
  <2> DEFINE gone == {}
  <2>2. /\ D \subseteq Live /\ deleted' = deleted \cup gone
        /\ gone \subseteq D \cap (closed \cup sourceAtEnd)
        /\ deletes' \subseteq deletes
    BY Zenon, <1>2
  <2>3. UNCHANGED <<numBuffers, requests, requestPending, removed, closed,
                    sourceAtEnd>>
    BY Zenon, <1>2
  <2> HIDE DEF D, gone
  <2> QED
    BY Zenon, <2>1, <2>2, <2>3, RequestsNotify
<1>3. ASSUME NEW w \in Drivers, NoMoreData(w) PROVE RequestsOK'
  <2>1. /\ driverState[w] # "done" /\ CheckIfDone(numFinished + 1)
        /\ UNCHANGED <<numBuffers, deleted, requests, requestPending, removed,
                       closed, sourceAtEnd, deletes>>
    BY Zenon, <1>3 DEF NoMoreData, bufferVars, sourceVars, taskVars
  <2>2. numFinished + 1 \in Nat /\ numFinished + 1 <= numDrivers
    BY Zenon, <2>1, NextFinished
  <2> QED
    BY Zenon, <1>2, <2>1, <2>2
<1>4. ASSUME NoMoreDrivers PROVE RequestsOK'
  <2>1. /\ CheckIfDone(numFinished)
        /\ UNCHANGED <<numBuffers, deleted, requests, requestPending, removed,
                       closed, sourceAtEnd, deletes>>
    BY Zenon, <1>4 DEF NoMoreDrivers, bufferVars, sourceVars, taskVars
  <2>2. numFinished \in Nat /\ numFinished <= numDrivers
    BY Zenon, NextFinished
  <2> QED
    BY Zenon, <1>2, <2>1, <2>2
<1>5. ASSUME NEW n \in Destinations, NEW noMore \in BOOLEAN,
             UpdateBroadcastOutputBuffers(n, noMore)
      PROVE  RequestsOK'
  <2>1. /\ UNCHANGED <<deleted, notify, requests, requestPending, removed,
                       closed, sourceAtEnd, deletes, delivery>>
        /\ numBuffers' = n
    BY Zenon, <1>5
    DEF UpdateBroadcastOutputBuffers, sourceVars, taskVars, messageVars
  <2>2. 1 .. numBuffers \subseteq 1 .. n
    BY <1>5, OutputAssumption
    DEF UpdateBroadcastOutputBuffers, BuffersOK, Destinations
  <2>3. Live \subseteq Live'
    BY Zenon, <2>1, <2>2 DEF Live
  <2> QED
    BY Zenon, <2>1, <2>2, <2>3 DEF RequestsOK
<1>6. ASSUME NEW d \in Destinations, GetData(d) PROVE RequestsOK'
  <2>1. /\ requests' = requests \ {d} /\ d \in requests
        /\ UNCHANGED <<deleted, removed, requestPending, sourceAtEnd, closed,
                       deletes>>
    BY Zenon, <1>6, GetDataKeeps
  <2>2. CASE Refused(d)
    <3>1. /\ UNCHANGED <<numBuffers, notify, delivery>>
          /\ removed \/ d \in deleted
      BY Zenon, <2>2 DEF Refused, destVars
    <3>2. Live' = Live
      BY Zenon, <2>1, <3>1 DEF Live
    <3>3. removed \/ d \in closed
      BY Zenon, <2>1, <3>1 DEF RequestsOK
    <3> QED
      BY Zenon, <2>1, <3>1, <3>2, <3>3 DEF RequestsOK
  <2>3. CASE Served(d)
    <3>1. /\ numBuffers' = IF Broadcast /\ d > numBuffers THEN d ELSE numBuffers
          /\ d \notin deleted
          /\ \/ notify' = notify \cup {d} /\ DOMAIN delivery' = DOMAIN delivery
             \/ notify' = notify /\ DOMAIN delivery' = DOMAIN delivery \cup {d}
      BY Zenon, <2>3 DEF Served
    <3>2. 1 .. numBuffers \subseteq 1 .. numBuffers' /\ d \in 1 .. numBuffers'
      BY <3>1, LiveOrLater, OutputAssumption DEF BuffersOK, Destinations
    <3>3. Live \subseteq Live' /\ d \in Live'
      BY Zenon, <2>1, <3>1, <3>2 DEF Live
    <3>4. d \in requestPending /\ d \notin notify /\ d \notin DOMAIN delivery
      BY Zenon, <2>1 DEF RequestsOK
    <3>5. CASE notify' = notify \cup {d} /\ DOMAIN delivery' = DOMAIN delivery
      BY Zenon, <2>1, <3>2, <3>3, <3>4, <3>5 DEF RequestsOK
    <3>6. CASE notify' = notify /\ DOMAIN delivery' = DOMAIN delivery \cup {d}
      BY Zenon, <2>1, <3>2, <3>3, <3>4, <3>6 DEF RequestsOK
    <3> QED
      BY Zenon, <3>1, <3>5, <3>6
  <2> QED
    BY Zenon, <1>6, <2>2, <2>3, GetDataCases
<1>7. ASSUME NEW d \in Destinations, NEW why \in {"end", "close"},
             DeleteResults(d, why)
      PROVE  RequestsOK'
  <2>1. /\ UNCHANGED <<numBuffers, removed, requestPending, sourceAtEnd, closed,
                       requests>>
        /\ <<d, why>> \in deletes /\ deletes' \subseteq deletes
    BY Zenon, <1>7, DeleteCases
  <2>2. CASE UNCHANGED <<deleted, notify, delivery>>
    <3>1. Live' = Live
      BY Zenon, <2>1, <2>2 DEF Live
    <3> QED
      BY Zenon, <2>1, <2>2, <3>1 DEF RequestsOK
  <2>3. CASE Deletes(d, why)
    <3> DEFINE D == {d}
    <3>1. Notify(D, data') /\ deleted' = deleted \cup D /\ d \in Live
      BY Zenon, <2>3 DEF Deletes
    <3>2. d \in closed \cup sourceAtEnd
      <4>1. <<d, why>>[1] \in closed \cup sourceAtEnd
        BY Zenon, <2>1 DEF RequestsOK
      <4> QED
        BY Zenon, <4>1
    <3>3. D \subseteq Live /\ D \subseteq D \cap (closed \cup sourceAtEnd)
      BY Zenon, <3>1, <3>2
    <3> HIDE DEF D
    <3> QED
      BY Zenon, <2>1, <3>1, <3>3, RequestsNotify
  <2> QED
    BY Zenon, <1>7, <2>2, <2>3, DeleteCases DEF destVars
<1>8. ASSUME NEW d \in Destinations, Request(d) PROVE RequestsOK'
  <2>1. /\ d \notin closed \cup sourceAtEnd \cup requestPending
        /\ requestPending' = requestPending \cup {d}
        /\ requests' = requests \cup {d}
        /\ UNCHANGED <<numBuffers, deleted, notify, removed, closed, sourceAtEnd,
                       deletes, delivery>>
    BY Zenon, <1>8 DEF Request, bufferVars, destVars, taskVars
  <2>2. Live' = Live
    BY Zenon, <2>1 DEF Live
  <2>3. d \notin notify /\ d \notin DOMAIN delivery
    BY Zenon, <2>1 DEF RequestsOK
  <2> QED
    BY ZenonT(30), <2>1, <2>2, <2>3 DEF RequestsOK
<1>9. ASSUME NEW d \in Destinations, Deliver(d) PROVE RequestsOK'
  <2>1. /\ requestPending' = requestPending \ {d}
        /\ UNCHANGED <<numBuffers, deleted, notify, removed, closed, requests>>
    BY Zenon, <1>9, DeliverKeeps
  <2>2. /\ d \in DOMAIN delivery
        /\ DOMAIN delivery' = DOMAIN delivery \ {d}
        /\ \/ sourceAtEnd' = sourceAtEnd /\ deletes' = deletes
           \/ /\ sourceAtEnd' = sourceAtEnd \cup {d}
              /\ deletes' = deletes \cup {<<d, "end">>}
    BY Zenon, <1>9, DeliverSets
  <2>3. Live' = Live
    BY Zenon, <2>1 DEF Live
  <2>4. d \notin notify /\ d \notin requests
    BY Zenon, <2>2 DEF RequestsOK
  <2>5. /\ \A m \in deletes' : m[1] \in closed \cup sourceAtEnd'
        /\ \A m \in deletes' : m[2] = "end" => m[1] \in sourceAtEnd'
    BY <2>2 DEF RequestsOK
  <2>6. /\ requestPending' \cap sourceAtEnd' = {}
        /\ DOMAIN delivery' \cup sourceAtEnd' \subseteq 1 .. numBuffers
        /\ closed \subseteq MayClose \cup sourceAtEnd'
        /\ deleted \subseteq closed \cup sourceAtEnd'
    BY Zenon, <2>1, <2>2 DEF RequestsOK
  <2>7. /\ requestPending' \subseteq Destinations
        /\ requests \cup notify \cup DOMAIN delivery' \subseteq requestPending'
        /\ requests \cap DOMAIN delivery' = {}
        /\ notify \cap DOMAIN delivery' = {}
        /\ ~removed => requestPending' \subseteq
                   requests \cup notify \cup DOMAIN delivery' \cup closed
    BY Zenon, <2>1, <2>2, <2>4 DEF RequestsOK
  <2> QED
    BY Zenon, <2>1, <2>3, <2>5, <2>6, <2>7 DEF RequestsOK
<1>10. ASSUME NEW d \in Destinations, Close(d) PROVE RequestsOK'
  <2>1. /\ d \in MayClose \cup sourceAtEnd
        /\ closed' = closed \cup {d}
        /\ deletes' = deletes \cup {<<d, "close">>}
        /\ UNCHANGED <<numBuffers, deleted, notify, removed, requestPending,
                       requests, sourceAtEnd, delivery>>
    BY Zenon, <1>10 DEF Close, bufferVars, destVars, taskVars
  <2>2. Live' = Live
    BY Zenon, <2>1 DEF Live
  <2>3. /\ \A m \in deletes' : m[1] \in closed' \cup sourceAtEnd
        /\ \A m \in deletes' : m[2] = "end" => m[1] \in sourceAtEnd
    BY <2>1 DEF RequestsOK
  <2> QED
    BY Zenon, <2>1, <2>2, <2>3 DEF RequestsOK
<1>11. ASSUME \/ UpdateNumDrivers \/ RemoveTask
              \/ \E r \in releasing : Release(r)
              \/ \E d \in Destinations, s \in 0 .. MaxPages : Acknowledge(d, s)
              \/ UNCHANGED vars
       PROVE  RequestsOK'
  <2>1. /\ UNCHANGED <<numBuffers, deleted, notify, requestPending, closed,
                       requests, sourceAtEnd, deletes, delivery>>
        /\ removed' = removed \/ removed'
    BY Zenon, <1>11
    DEF UpdateNumDrivers, RemoveTask, Release, Acknowledge, vars, bufferVars,
        destVars, sourceVars, messageVars, taskVars
  <2>2. Live' = Live
    BY Zenon, <2>1 DEF Live
  <2> QED
    BY Zenon, <2>1, <2>2 DEF RequestsOK
<1> QED
  BY ZenonT(30), <1>1, <1>3, <1>4, <1>5, <1>6, <1>7, <1>8, <1>9, <1>10, <1>11
  DEF Next

\* A check fails only for a source that closed before it had got everything.
LEMMA ChecksStep ==
  ASSUME DriversOK, BuffersOK, RequestsOK, StreamsOK, ChecksHold, [Next]_vars
  PROVE  ChecksHold'
<1>1. ASSUME failed' = failed PROVE ChecksHold'
  BY Zenon, <1>1 DEF ChecksHold
<1>2. ASSUME NEW d \in Destinations, GetData(d) PROVE ChecksHold'
  <2>1. CASE Refused(d)
    <3>1. CASE failed' = failed
      BY Zenon, <3>1, <1>1
    <3>2. CASE failed' # failed
      <4>1. failed' = failed \cup {"getDataDeleted"} /\ d \in deleted
        BY Zenon, <2>1, <3>2 DEF Refused
      <4>2. d \in requests
        BY Zenon, <1>2, GetDataKeeps
      <4>3. d \in MayClose
        BY Zenon, <4>1, <4>2 DEF RequestsOK
      <4> QED
        BY Zenon, <4>1, <4>3 DEF ChecksHold
    <3> QED
      BY Zenon, <3>1, <3>2
  <2>2. CASE Served(d)
    BY Zenon, <2>2, <1>1 DEF Served
  <2> QED
    BY Zenon, <1>2, <2>1, <2>2, GetDataCases
<1>3. ASSUME NEW d \in Destinations, NEW why \in {"end", "close"},
             DeleteResults(d, why)
      PROVE  ChecksHold'
  <2>1. /\ <<d, why>> \in deletes
        /\ \/ failed' = failed
           \/ failed' = failed \cup {"deleteUnknown"} /\ d > numBuffers
    BY Zenon, <1>3, DeleteCases DEF Deletes
  <2>2. CASE failed' = failed \cup {"deleteUnknown"} /\ d > numBuffers
    <3>1. Broadcast
      BY Zenon, <2>2, LiveOrLater
    <3>2. <<d, why>>[1] \in closed \cup sourceAtEnd
      BY Zenon, <2>1 DEF RequestsOK
    <3>3. d \in closed \cup sourceAtEnd
      BY Zenon, <3>2
    <3>4. d \notin sourceAtEnd
      BY <2>2, OutputAssumption DEF RequestsOK, BuffersOK, Destinations
    <3>5. d \in MayClose
      BY Zenon, <3>3, <3>4 DEF RequestsOK
    <3> QED
      BY Zenon, <2>2, <3>1, <3>5 DEF ChecksHold
  <2> QED
    BY Zenon, <2>1, <2>2, <1>1
<1>4. ASSUME NEW n \in Nat, n <= numDrivers, CheckIfDone(n) PROVE ChecksHold'
  BY Zenon, <1>1, <1>4, CheckIfDoneSets DEF DriversOK
<1>5. ASSUME NEW w \in Drivers, NoMoreData(w) PROVE ChecksHold'
  <2>1. driverState[w] # "done" /\ CheckIfDone(numFinished + 1)
    BY Zenon, <1>5 DEF NoMoreData
  <2>2. numFinished + 1 \in Nat /\ numFinished + 1 <= numDrivers
    BY Zenon, <2>1, NextFinished
  <2> QED
    BY Zenon, <1>4, <2>1, <2>2
<1>6. ASSUME NoMoreDrivers PROVE ChecksHold'
  <2>1. CheckIfDone(numFinished)
    BY Zenon, <1>6 DEF NoMoreDrivers
  <2>2. numFinished \in Nat /\ numFinished <= numDrivers
    BY Zenon, NextFinished
  <2> QED
    BY Zenon, <1>4, <2>1, <2>2
<1>7. ASSUME NEW d \in Destinations, NEW s \in 0 .. MaxPages, Acknowledge(d, s)
      PROVE  ChecksHold'
  BY Zenon, <1>7, <1>1, AcknowledgeCases
<1>8. ASSUME \/ \E w \in Drivers, d \in Destinations, wait \in BOOLEAN :
                  Enqueue(w, d, wait)
             \/ UpdateNumDrivers \/ RemoveTask
             \/ \E n \in Destinations, noMore \in BOOLEAN :
                  UpdateBroadcastOutputBuffers(n, noMore)
             \/ \E r \in releasing : Release(r)
             \/ \E d \in Destinations : Request(d) \/ Deliver(d) \/ Close(d)
             \/ UNCHANGED vars
      PROVE  ChecksHold'
  <2>1. failed' = failed
    BY Zenon, <1>8
    DEF Enqueue, UpdateNumDrivers, RemoveTask, UpdateBroadcastOutputBuffers,
        Release, Request, Deliver, Close, vars
  <2> QED
    BY Zenon, <2>1, <1>1
<1> QED
  BY Zenon, <1>2, <1>3, <1>5, <1>6, <1>7, <1>8 DEF Next

-----------------------------------------------------------------------------
(* The size *)

\* Page p is in a buffer or in dataToBroadcast_.
Holds(p, dat, bc) ==
  \/ \E d \in Destinations : \E i \in DOMAIN dat[d] : dat[d][i] = p
  \/ \E i \in DOMAIN bc : bc[i] = p

Held(dat, bc) == {p \in Pages : Holds(p, dat, bc)}

\* Buffers hold pages and end markers only.
Contents(dat, bc) ==
  /\ \A d \in Destinations : dat[d] \in Seq(Items)
  /\ bc \in Seq(Items)

\* The pages that the buffers hold are finitely many.
LEMMA HeldFinite ==
  ASSUME NEW dat, NEW bc
  PROVE  IsFiniteSet(Held(dat, bc)) /\ Cardinality(Held(dat, bc)) \in Nat
<1>1. IsFiniteSet(Pages)
  BY FS_Interval, OutputAssumption DEF Pages
<1>2. Held(dat, bc) \subseteq Pages
  BY Zenon DEF Held
<1>3. IsFiniteSet(Held(dat, bc))
  BY Zenon, <1>1, <1>2, FS_Subset
<1> QED
  BY Zenon, <1>3, FS_CardinalityType

\* The buffers hold pages and the end marker, in sequences.
LEMMA StreamContents ==
  ASSUME StreamsOK, atEnd \in BOOLEAN
  PROVE  Contents(data, dataToBroadcast)
<1>1. ASSUME NEW d \in Destinations
      PROVE  data[d] \in Seq(Items) /\ dataToBroadcast \in Seq(Items)
  <2>1. StreamOK(d)
    BY Zenon DEF StreamsOK
  <2>2. data[d] \in Seq(Items)
    <3>1. <<>> \in Seq(Items)
      OBVIOUS
    <3>2. CASE d \in Live
      <4>1. Rest(data[d], sequence[d], Stream(sent[d], atEnd))
        BY Zenon, <2>1, <3>2 DEF StreamOK
      <4> QED
        BY Zenon, <4>1 DEF Rest, Piece, Items
    <3>3. CASE d \notin Live
      BY Zenon, <2>1, <3>1, <3>3 DEF StreamOK
    <3> QED
      BY Zenon, <3>2, <3>3
  <2>3. sent[d] \in Seq(Items) /\ <<>> \in Seq(Items)
    BY <2>1 DEF StreamOK, Items
  <2> QED
    BY Zenon, <2>1, <2>2, <2>3 DEF StreamOK
<1>2. 1 \in Destinations
  BY OutputAssumption DEF Destinations
<1> QED
  BY Zenon, <1>1, <1>2 DEF Contents

\* SizeOK in terms of Held.
SizeIs(size, dat, bc) ==
  /\ size \in Nat
  /\ size >= PageSize * Cardinality(Held(dat, bc))
  /\ ~Broadcast => size = PageSize * Cardinality(Held(dat, bc))

\* SizeOK speaks of totalSize and of the pages held, before and after a step.
LEMMA SizeHeld ==
  /\ SizeOK <=> SizeIs(totalSize, data, dataToBroadcast)
  /\ SizeOK' <=> SizeIs(totalSize', data', dataToBroadcast')
<1>1. Stored = Held(data, dataToBroadcast)
  <2>1. \A p : (\/ \E d \in Destinations : p \in Range(data[d])
                \/ p \in Range(dataToBroadcast))
               <=> Holds(p, data, dataToBroadcast)
    BY Zenon DEF Holds, Range
  <2>2. ASSUME NEW p
        PROVE  p \in Stored <=> p \in Held(data, dataToBroadcast)
    BY Zenon, <2>1 DEF Stored, Held
  <2> QED
    BY Zenon, <2>2
<1>2. Stored' = Held(data', dataToBroadcast')
  <2>1. \A p : (\/ \E d \in Destinations : p \in Range(data'[d])
                \/ p \in Range(dataToBroadcast'))
               <=> Holds(p, data', dataToBroadcast')
    BY Zenon DEF Holds, Range
  <2>2. ASSUME NEW p
        PROVE  p \in Stored' <=> p \in Held(data', dataToBroadcast')
    BY Zenon, <2>1 DEF Stored, Held
  <2> QED
    BY Zenon, <2>2
<1> QED
  BY Zenon, <1>1, <1>2 DEF SizeOK, SizeIs, NeverUnderstated, SizeAccounting

\* Multiples of the page size are naturals, and grow with their factor.
LEMMA TimesSize ==
  ASSUME NEW a \in Nat, NEW b \in Nat
  PROVE  /\ PageSize * a \in Nat
         /\ PageSize * (a + b) = PageSize * a + PageSize * b
         /\ a <= b => PageSize * a <= PageSize * b
         /\ PageSize * (a + 1) = PageSize * a + PageSize
<1>1. PageSize \in Nat
  BY Zenon, OutputAssumption
<1> QED
  BY <1>1

\* Freeing the pages that nobody else holds takes off at most what the buffers
\* no longer hold, and just that if all of them were held once.
LEMMA SizeFreed ==
  ASSUME NEW size, NEW dat, NEW bc, NEW dat2, NEW bc2, NEW freed,
         SizeIs(size, dat, bc),
         freed \subseteq Held(dat, bc),
         Held(dat2, bc2) \subseteq Held(dat, bc),
         ~Broadcast => Held(dat, bc) \subseteq
                         Held(dat2, bc2) \cup {p \in freed : Unique(p, dat2, bc2)}
  PROVE  SizeIs(size - TotalFreed(freed, dat2, bc2), dat2, bc2)
<1> DEFINE H == Held(dat, bc)
           H2 == Held(dat2, bc2)
           U == {p \in freed : Unique(p, dat2, bc2)}
<1>1. U \subseteq H /\ H2 \subseteq H
  BY Zenon
<1>2. U \cap H2 = {}
  BY DEF Unique, Held, Holds
<1>3. /\ IsFiniteSet(H) /\ Cardinality(H) \in Nat
      /\ IsFiniteSet(H2) /\ Cardinality(H2) \in Nat
  BY Zenon, HeldFinite
<1>4. TotalFreed(freed, dat2, bc2) = PageSize * Cardinality(U)
  BY Zenon DEF TotalFreed
<1>5. /\ size \in Nat /\ size >= PageSize * Cardinality(H)
      /\ ~Broadcast => size = PageSize * Cardinality(H)
      /\ ~Broadcast => H \subseteq H2 \cup U
  BY Zenon DEF SizeIs
<1>6. SizeIs(size - PageSize * Cardinality(U), dat2, bc2) <=>
        /\ size - PageSize * Cardinality(U) \in Nat
        /\ size - PageSize * Cardinality(U) >= PageSize * Cardinality(H2)
        /\ ~Broadcast =>
             size - PageSize * Cardinality(U) = PageSize * Cardinality(H2)
  BY Zenon DEF SizeIs
<1> HIDE DEF H, H2, U
<1>7. IsFiniteSet(U) /\ Cardinality(U) \in Nat
  <2>1. IsFiniteSet(U)
    BY Zenon, <1>1, <1>3, FS_Subset
  <2> QED
    BY Zenon, <2>1, FS_CardinalityType
<1>8. /\ Cardinality(H2 \cup U) = Cardinality(H2) + Cardinality(U)
      /\ IsFiniteSet(H2 \cup U)
  <2>1. H2 \cap U = {}
    BY Zenon, <1>2
  <2>2. /\ IsFiniteSet(H2 \cup U)
        /\ Cardinality(H2 \cup U) =
             Cardinality(H2) + Cardinality(U) - Cardinality(H2 \cap U)
    BY Zenon, <1>3, <1>7, FS_Union
  <2>3. Cardinality(H2 \cap U) = 0
    BY Zenon, <2>1, FS_EmptySet
  <2> QED
    BY <1>3, <1>7, <2>2, <2>3
<1>9. /\ Cardinality(H2) + Cardinality(U) <= Cardinality(H)
      /\ ~Broadcast => Cardinality(H2) + Cardinality(U) = Cardinality(H)
  <2>1. H2 \cup U \subseteq H
    BY Zenon, <1>1
  <2>2. Cardinality(H2 \cup U) <= Cardinality(H)
    BY Zenon, <1>3, <2>1, FS_Subset
  <2>3. ~Broadcast => H2 \cup U = H
    BY Zenon, <1>5, <2>1
  <2> QED
    BY Zenon, <1>8, <2>2, <2>3
<1>10. /\ PageSize * Cardinality(H2) \in Nat /\ PageSize * Cardinality(U) \in Nat
       /\ PageSize * Cardinality(H) \in Nat
       /\ PageSize * (Cardinality(H2) + Cardinality(U)) =
            PageSize * Cardinality(H2) + PageSize * Cardinality(U)
       /\ PageSize * (Cardinality(H2) + Cardinality(U)) <=
            PageSize * Cardinality(H)
  <2>1. Cardinality(H2) + Cardinality(U) \in Nat
    BY <1>3, <1>7
  <2> QED
    BY Zenon, <1>3, <1>7, <1>9, <2>1, TimesSize
<1>11. ~Broadcast => PageSize * (Cardinality(H2) + Cardinality(U)) =
                       PageSize * Cardinality(H)
  BY Zenon, <1>9
<1> QED
  BY <1>4, <1>5, <1>6, <1>10, <1>11

-----------------------------------------------------------------------------
(* Dropping the first pages of a buffer *)

\* Where the elements of a sequence are once its first n are dropped.
LEMMA TailPlaces ==
  ASSUME NEW s \in Seq(Items), NEW n \in 0 .. Len(s)
  PROVE  /\ SubSeq(s, n + 1, Len(s)) \in Seq(Items)
         /\ Len(SubSeq(s, n + 1, Len(s))) = Len(s) - n
         /\ \A j \in 1 .. Len(s) - n : SubSeq(s, n + 1, Len(s))[j] = s[j + n]
  OBVIOUS

\* Where the pages of buffer d are after its first n have been dropped.
Drops(dat, dat2, d, n) ==
  /\ n \in Nat
  /\ DOMAIN dat2 = Destinations
  /\ \A e \in Destinations : e # d => dat2[e] = dat[e]
  /\ \A j \in DOMAIN dat2[d] : /\ j \in Nat /\ j > 0
                               /\ j + n \in DOMAIN dat[d]
                               /\ dat2[d][j] = dat[d][j + n]
  /\ \A i \in DOMAIN dat[d] :
       i > n => i - n \in DOMAIN dat2[d] /\ dat2[d][i - n] = dat[d][i]
  /\ \A p \in Dropped(dat[d], n) :
       \E i \in DOMAIN dat[d] : i <= n /\ dat[d][i] = p /\ p # End
  /\ \A i \in DOMAIN dat[d] :
       /\ i \in Nat
       /\ dat[d][i] \in Pages \/ dat[d][i] = End
       /\ i <= n /\ dat[d][i] # End => dat[d][i] \in Dropped(dat[d], n)

\* PartitionedOutputBuffer::acknowledge and deleteResults drop the first pages.
LEMMA DropPlaces ==
  ASSUME NEW dat, DOMAIN dat = Destinations, NEW d \in Destinations,
         dat[d] \in Seq(Items), NEW n \in 0 .. Len(dat[d]), NEW dat2,
         dat2 = [dat EXCEPT ![d] = SubSeq(dat[d], n + 1, Len(dat[d]))]
  PROVE  Drops(dat, dat2, d, n)
<1> DEFINE q == SubSeq(dat[d], n + 1, Len(dat[d]))
<1>1. /\ DOMAIN dat2 = Destinations
      /\ \A e \in Destinations : e # d => dat2[e] = dat[e]
      /\ dat2[d] = q
  BY Zenon
<1>2. /\ Len(dat[d]) \in Nat /\ DOMAIN dat[d] = 1 .. Len(dat[d])
      /\ n \in Nat /\ n <= Len(dat[d])
  OBVIOUS
<1>3. /\ q \in Seq(Items)
      /\ Len(q) = Len(dat[d]) - n
      /\ \A j \in 1 .. Len(dat[d]) - n : q[j] = dat[d][j + n]
  BY Zenon, TailPlaces
<1> HIDE DEF q
<1>4. DOMAIN q = 1 .. Len(dat[d]) - n
  BY <1>3
<1>5. \A j \in DOMAIN dat2[d] : /\ j \in Nat /\ j > 0
                                /\ j + n \in DOMAIN dat[d]
                                /\ dat2[d][j] = dat[d][j + n]
  BY <1>1, <1>2, <1>3, <1>4
<1>6. \A i \in DOMAIN dat[d] :
        i > n => i - n \in DOMAIN dat2[d] /\ dat2[d][i - n] = dat[d][i]
  <2> SUFFICES ASSUME NEW i \in DOMAIN dat[d], i > n
               PROVE  i - n \in DOMAIN dat2[d] /\ dat2[d][i - n] = dat[d][i]
    BY Zenon
  <2>1. i - n \in 1 .. Len(dat[d]) - n /\ (i - n) + n = i
    BY <1>2
  <2> QED
    BY Zenon, <1>1, <1>3, <1>4, <2>1
<1>7. \A p \in Dropped(dat[d], n) :
        \E i \in DOMAIN dat[d] : i <= n /\ dat[d][i] = p /\ p # End
  BY <1>2 DEF Dropped
<1>8. \A i \in DOMAIN dat[d] :
        /\ i \in Nat
        /\ dat[d][i] \in Pages \/ dat[d][i] = End
        /\ i <= n /\ dat[d][i] # End => dat[d][i] \in Dropped(dat[d], n)
  BY <1>2 DEF Dropped, Items
<1> QED
  BY Zenon, <1>1, <1>2, <1>5, <1>6, <1>7, <1>8 DEF Drops

\* Then the buffers hold what they held before, but perhaps the dropped pages.
LEMMA HeldDrop ==
  ASSUME NEW dat, NEW bc, NEW d \in Destinations, NEW n, NEW dat2,
         Drops(dat, dat2, d, n)
  PROVE  /\ Dropped(dat[d], n) \subseteq Held(dat, bc)
         /\ Held(dat2, bc) \subseteq Held(dat, bc)
         /\ Held(dat, bc) \subseteq Held(dat2, bc) \cup Dropped(dat[d], n)
<1> DEFINE dropped == Dropped(dat[d], n)
<1>1. /\ \A e \in Destinations : e # d => dat2[e] = dat[e]
      /\ \A j \in DOMAIN dat2[d] : /\ j + n \in DOMAIN dat[d]
                                   /\ dat2[d][j] = dat[d][j + n]
      /\ \A i \in DOMAIN dat[d] :
           i > n => i - n \in DOMAIN dat2[d] /\ dat2[d][i - n] = dat[d][i]
      /\ \A p \in dropped :
           \E i \in DOMAIN dat[d] : i <= n /\ dat[d][i] = p /\ p # End
      /\ \A i \in DOMAIN dat[d] :
           /\ i \in Nat
           /\ i <= n /\ dat[d][i] # End => dat[d][i] \in dropped
  BY Zenon DEF Drops
<1>2. End \notin Pages /\ n \in Nat
  BY OutputAssumption DEF Pages, End, Drops
<1>3. \A i \in DOMAIN dat[d] : dat[d][i] \in Pages \/ dat[d][i] = End
  BY Zenon DEF Drops
<1> HIDE DEF dropped
<1>4. dropped \subseteq Held(dat, bc)
  <2> SUFFICES ASSUME NEW p \in dropped PROVE p \in Held(dat, bc)
    BY Zenon
  <2>1. PICK i \in DOMAIN dat[d] : dat[d][i] = p /\ p # End
    BY Zenon, <1>1
  <2>2. p \in Pages
    BY Zenon, <1>3, <2>1
  <2> QED
    BY Zenon, <2>1, <2>2 DEF Held, Holds
<1>5. ASSUME NEW p, Holds(p, dat2, bc) PROVE Holds(p, dat, bc)
  <2>1. CASE \E i \in DOMAIN bc : bc[i] = p
    BY Zenon, <2>1 DEF Holds
  <2>2. CASE \E e \in Destinations : \E i \in DOMAIN dat2[e] : dat2[e][i] = p
    <3>0. PICK e \in Destinations : \E j \in DOMAIN dat2[e] : dat2[e][j] = p
      BY Zenon, <2>2
    <3>1. PICK j \in DOMAIN dat2[e] : dat2[e][j] = p
      BY Zenon, <3>0
    <3>2. CASE e # d
      BY Zenon, <1>1, <3>1, <3>2 DEF Holds
    <3>3. CASE e = d
      <4>1. j + n \in DOMAIN dat[d] /\ dat[d][j + n] = p
        BY Zenon, <1>1, <3>1, <3>3
      <4> QED
        BY Zenon, <4>1 DEF Holds
    <3> QED
      BY Zenon, <3>2, <3>3
  <2> QED
    BY Zenon, <1>5, <2>1, <2>2 DEF Holds
<1>6. ASSUME NEW p \in Pages, Holds(p, dat, bc)
      PROVE  Holds(p, dat2, bc) \/ p \in dropped
  <2>1. CASE \E i \in DOMAIN bc : bc[i] = p
    BY Zenon, <2>1 DEF Holds
  <2>2. CASE \E e \in Destinations : \E i \in DOMAIN dat[e] : dat[e][i] = p
    <3>0. PICK e \in Destinations : \E i \in DOMAIN dat[e] : dat[e][i] = p
      BY Zenon, <2>2
    <3>1. PICK i \in DOMAIN dat[e] : dat[e][i] = p
      BY Zenon, <3>0
    <3>2. CASE e # d
      <4>1. i \in DOMAIN dat2[e] /\ dat2[e][i] = p
        BY Zenon, <1>1, <3>1, <3>2
      <4> QED
        BY Zenon, <4>1 DEF Holds
    <3>3. CASE e = d
      <4>1. i \in Nat /\ (i <= n \/ i > n)
        BY <1>1, <1>2, <3>3
      <4>2. p # End
        BY Zenon, <1>2
      <4>3. CASE i > n
        <5>1. i - n \in DOMAIN dat2[d] /\ dat2[d][i - n] = p
          BY Zenon, <1>1, <3>1, <3>3, <4>3
        <5> QED
          BY Zenon, <5>1 DEF Holds
      <4>4. CASE i <= n
        BY Zenon, <1>1, <3>1, <3>3, <4>2, <4>4
      <4> QED
        BY Zenon, <4>1, <4>3, <4>4
    <3> QED
      BY Zenon, <3>2, <3>3
  <2> QED
    BY Zenon, <1>6, <2>1, <2>2 DEF Holds
<1>7. Held(dat2, bc) \subseteq Held(dat, bc)
  BY Zenon, <1>5 DEF Held
<1>8. Held(dat, bc) \subseteq Held(dat2, bc) \cup dropped
  BY Zenon, <1>6 DEF Held
<1> QED
  BY Zenon, <1>4, <1>7, <1>8 DEF dropped

\* DistinctOK for given contents of the buffers.
Distinct(dat, made, rel) ==
  /\ \A d, e \in Destinations : \A i \in DOMAIN dat[d], j \in DOMAIN dat[e] :
       dat[d][i] = dat[e][j] /\ dat[d][i] # End => d = e /\ i = j
  /\ \A d \in Destinations : \A i \in DOMAIN dat[d] : dat[d][i] <= made
  /\ \A r \in rel : \A p \in r.freed :
       /\ p \in 1 .. made
       /\ \A d \in Destinations : \A i \in DOMAIN dat[d] : dat[d][i] # p

\* DistinctOK speaks of the pages in the buffers and of those being freed.
LEMMA DistinctIs ==
  /\ DistinctOK <=> (~Broadcast => Distinct(data, produced, releasing))
  /\ DistinctOK' <=> (~Broadcast => Distinct(data', produced', releasing'))
  BY Zenon DEF DistinctOK, Distinct

\* Pages that are in one place are nowhere once they are dropped.
LEMMA DistinctDrop ==
  ASSUME NEW dat, NEW made \in Nat, NEW rel, Distinct(dat, made, rel),
         NEW d \in Destinations, NEW n, NEW dat2, NEW rel2,
         Drops(dat, dat2, d, n),
         \A r \in rel2 : r \in rel \/ r.freed = Dropped(dat[d], n)
  PROVE  /\ Distinct(dat2, made, rel2)
         /\ \A p \in Dropped(dat[d], n) :
              /\ \A e \in Destinations : \A i \in DOMAIN dat2[e] : dat2[e][i] # p
              /\ \A r \in rel : p \notin r.freed
<1> DEFINE dropped == Dropped(dat[d], n)
           at(e, j) == IF e = d THEN j + n ELSE j
<1>1. /\ \A e \in Destinations : e # d => dat2[e] = dat[e]
      /\ \A j \in DOMAIN dat2[d] : /\ j \in Nat /\ j > 0
                                   /\ j + n \in DOMAIN dat[d]
                                   /\ dat2[d][j] = dat[d][j + n]
      /\ \A p \in dropped :
           \E i \in DOMAIN dat[d] : i <= n /\ dat[d][i] = p /\ p # End
      /\ \A i \in DOMAIN dat[d] :
           i \in Nat /\ (dat[d][i] \in Pages \/ dat[d][i] = End)
  BY Zenon DEF Drops
<1> HIDE DEF dropped
<1>2. \A e \in Destinations : \A j \in DOMAIN dat2[e] :
        at(e, j) \in DOMAIN dat[e] /\ dat2[e][j] = dat[e][at(e, j)]
  BY Zenon, <1>1
<1>3. n \in Nat /\ \A j \in DOMAIN dat2[d] : j \in Nat /\ ~(at(d, j) <= n)
  BY <1>1 DEF Drops
<1>4. \A j, i \in DOMAIN dat2[d] : at(d, i) = at(d, j) => i = j
  BY <1>3
<1>5. /\ \A e : \A j : e # d => at(e, j) = j
  BY Zenon
<1> HIDE DEF at
<1>6. \A b, e \in Destinations : \A i \in DOMAIN dat2[b], j \in DOMAIN dat2[e] :
        dat2[b][i] = dat2[e][j] /\ dat2[b][i] # End => b = e /\ i = j
  <2> SUFFICES ASSUME NEW b \in Destinations, NEW e \in Destinations,
                      NEW i \in DOMAIN dat2[b], NEW j \in DOMAIN dat2[e],
                      dat2[b][i] = dat2[e][j], dat2[b][i] # End
               PROVE  b = e /\ i = j
    OBVIOUS
  <2>1. b = e /\ at(b, i) = at(e, j)
    BY <1>2 DEF Distinct
  <2>2. CASE b = d
    BY Zenon, <1>4, <2>1, <2>2
  <2>3. CASE b # d
    BY <1>5, <2>1, <2>3
  <2> QED
    BY Zenon, <2>1, <2>2, <2>3
<1>7. \A e \in Destinations : \A i \in DOMAIN dat2[e] : dat2[e][i] <= made
  BY <1>2 DEF Distinct
<1>8. ASSUME NEW p \in dropped
      PROVE  /\ p \in 1 .. made
             /\ \A e \in Destinations : \A i \in DOMAIN dat2[e] : dat2[e][i] # p
             /\ \A r \in rel : p \notin r.freed
  <2>1. PICK i \in DOMAIN dat[d] : i <= n /\ dat[d][i] = p /\ p # End
    BY Zenon, <1>1
  <2>2. p \in 1 .. made
    <3>1. p <= made /\ p \in Pages
      BY Zenon, <1>1, <2>1 DEF Distinct
    <3> QED
      BY <3>1, OutputAssumption DEF Pages
  <2>3. ASSUME NEW e \in Destinations, NEW j \in DOMAIN dat2[e],
               dat2[e][j] = p
        PROVE  FALSE
    <3>1. e = d /\ at(e, j) = i
      BY <1>2, <2>1, <2>3 DEF Distinct
    <3> QED
      BY Zenon, <1>3, <2>1, <3>1
  <2>4. ASSUME NEW r \in rel, p \in r.freed PROVE FALSE
    BY ZenonT(30), <2>1, <2>4 DEF Distinct
  <2> QED
    BY Zenon, <2>2, <2>3, <2>4
<1>9. ASSUME NEW r \in rel2, NEW p \in r.freed
      PROVE  /\ p \in 1 .. made
             /\ \A e \in Destinations : \A i \in DOMAIN dat2[e] : dat2[e][i] # p
  <2>1. CASE r \in rel
    BY <1>2, <2>1 DEF Distinct
  <2>2. CASE r.freed = dropped
    BY Zenon, <1>8, <2>2
  <2> QED
    BY Zenon, <2>1, <2>2 DEF dropped
<1> QED
  BY Zenon, <1>6, <1>7, <1>8, <1>9 DEF Distinct, dropped

\* What updateAfterAcknowledgeLocked takes off when those pages are freed.
LEMMA SizeDrop ==
  ASSUME NEW size, NEW dat, NEW bc, NEW dat2, NEW d \in Destinations, NEW n,
         SizeIs(size, dat, bc), Drops(dat, dat2, d, n),
         ~Broadcast => \A p \in Dropped(dat[d], n) : Unique(p, dat2, bc)
  PROVE  SizeIs(size - TotalFreed(Dropped(dat[d], n), dat2, bc), dat2, bc)
<1> DEFINE dropped == Dropped(dat[d], n)
<1>1. /\ dropped \subseteq Held(dat, bc)
      /\ Held(dat2, bc) \subseteq Held(dat, bc)
      /\ Held(dat, bc) \subseteq Held(dat2, bc) \cup dropped
  BY Zenon, HeldDrop
<1> HIDE DEF dropped
<1>2. ~Broadcast => Held(dat, bc) \subseteq
                      Held(dat2, bc) \cup {p \in dropped : Unique(p, dat2, bc)}
  BY Zenon, <1>1 DEF dropped
<1>3. SizeIs(size - TotalFreed(dropped, dat2, bc), dat2, bc)
  BY Zenon, <1>1, <1>2, SizeFreed
<1> QED
  BY Zenon, <1>3 DEF dropped

\* Only a broadcast buffer keeps pages for destinations that come later.
LEMMA NoneToBroadcast ==
  ASSUME StreamsOK, ~Broadcast
  PROVE  dataToBroadcast = <<>>
<1>1. 1 \in Destinations
  BY OutputAssumption DEF Destinations
<1> QED
  BY Zenon, <1>1 DEF StreamsOK, StreamOK

\* A call that drops the first pages of a buffer, and nothing else.
LEMMA DropStep ==
  ASSUME StreamsOK, DistinctOK, SizeOK, NEW d \in Destinations, NEW n, NEW by,
         NEW isFinished, Drops(data, data', d, n),
         UpdateAfterAcknowledge(by, Dropped(data[d], n), data', dataToBroadcast,
                                isFinished),
         dataToBroadcast' = dataToBroadcast, produced' = produced
  PROVE  DistinctOK' /\ SizeOK'
<1>1. \A r \in releasing' : r \in releasing \/ r.freed = Dropped(data[d], n)
  BY Zenon, AckReleases
<1>2. produced \in Nat
  BY OutputAssumption DEF StreamsOK
<1>3. ~Broadcast =>
        /\ Distinct(data', produced', releasing')
        /\ \A p \in Dropped(data[d], n) :
             /\ \A e \in Destinations : \A i \in DOMAIN data'[e] : data'[e][i] # p
             /\ \A r \in releasing : p \notin r.freed
  <2> HAVE ~Broadcast
  <2>1. Distinct(data, produced, releasing)
    BY Zenon, DistinctIs
  <2> QED
    BY Zenon, <1>1, <1>2, <2>1, DistinctDrop
<1>4. ~Broadcast => \A p \in Dropped(data[d], n) :
                      Unique(p, data', dataToBroadcast)
  <2> HAVE ~Broadcast
  <2>1. \A i \in DOMAIN dataToBroadcast : FALSE
    <3>1. dataToBroadcast = <<>>
      BY Zenon, NoneToBroadcast
    <3> QED
      BY <3>1
  <2> QED
    BY Zenon, <1>3, <2>1 DEF Unique
<1>5. SizeIs(totalSize, data, dataToBroadcast)
  BY Zenon, SizeHeld
<1>6. totalSize' = totalSize -
                     TotalFreed(Dropped(data[d], n), data', dataToBroadcast)
  BY Zenon DEF UpdateAfterAcknowledge
<1>7. SizeIs(totalSize', data', dataToBroadcast)
  BY Zenon, <1>4, <1>5, <1>6, SizeDrop
<1> QED
  BY Zenon, <1>3, <1>7, DistinctIs, SizeHeld

\* A broadcast buffer that is added holds no page that was not held before.
LEMMA HeldAdded ==
  ASSUME BuffersOK, StreamsOK, NEW n \in Destinations
  PROVE  Held(AddedBuffers(n), dataToBroadcast) = Held(data, dataToBroadcast)
<1>1. End \notin Pages
  BY OutputAssumption DEF Pages, End
<1>2. 1 \in Destinations
  BY OutputAssumption DEF Destinations
<1>3. StreamOK(1)
  BY Zenon, <1>2 DEF StreamsOK
<1>4. dataToBroadcast \in Seq(Pages)
  <2>1. sent[1] \in Seq(Pages) /\ <<>> \in Seq(Pages)
    BY <1>3 DEF StreamOK
  <2> QED
    BY Zenon, <1>3, <2>1 DEF StreamOK
<1>5. ASSUME NEW d \in Destinations, d \in numBuffers + 1 .. n
      PROVE  data[d] = <<>>
  <2>1. d \notin Live
    BY <1>5, OutputAssumption DEF Live, BuffersOK, Destinations
  <2> QED
    BY Zenon, <2>1 DEF StreamsOK, StreamOK
<1>6. ASSUME NEW d \in Destinations, d \notin numBuffers + 1 .. n
      PROVE  AddedBuffers(n)[d] = data[d]
  BY Zenon, <1>6 DEF AddedBuffers
<1>7. ASSUME NEW d \in Destinations, d \in numBuffers + 1 .. n,
             NEW i \in DOMAIN AddedBuffers(n)[d]
      PROVE  \/ AddedBuffers(n)[d][i] = End
             \/ \E k \in DOMAIN dataToBroadcast :
                  dataToBroadcast[k] = AddedBuffers(n)[d][i]
  <2>1. AddedBuffers(n)[d] = dataToBroadcast \o (IF atEnd THEN <<End>> ELSE <<>>)
    BY Zenon, <1>7 DEF AddedBuffers
  <2>2. \/ AddedBuffers(n)[d] = dataToBroadcast \o <<End>>
        \/ AddedBuffers(n)[d] = dataToBroadcast \o <<>>
    BY Zenon, <2>1
  <2>3. CASE AddedBuffers(n)[d] = dataToBroadcast \o <<End>>
    BY <1>4, <1>7, <2>3 DEF End
  <2>4. CASE AddedBuffers(n)[d] = dataToBroadcast \o <<>>
    BY <1>4, <1>7, <2>4
  <2> QED
    BY Zenon, <2>2, <2>3, <2>4
<1> DEFINE dat == AddedBuffers(n)
<1> HIDE DEF dat
<1>8. ASSUME NEW p \in Pages, Holds(p, dat, dataToBroadcast)
      PROVE  Holds(p, data, dataToBroadcast)
  <2>1. CASE \E i \in DOMAIN dataToBroadcast : dataToBroadcast[i] = p
    BY Zenon, <2>1 DEF Holds
  <2>2. CASE \E d \in Destinations : \E i \in DOMAIN dat[d] : dat[d][i] = p
    <3>1. PICK d \in Destinations : \E i \in DOMAIN dat[d] : dat[d][i] = p
      BY Zenon, <2>2
    <3>2. CASE d \in numBuffers + 1 .. n
      <4>1. PICK i \in DOMAIN dat[d] : dat[d][i] = p
        BY Zenon, <3>1
      <4>2. p # End
        BY Zenon, <1>1
      <4>3. \E k \in DOMAIN dataToBroadcast : dataToBroadcast[k] = p
        BY Zenon, <1>7, <3>2, <4>1, <4>2 DEF dat
      <4> QED
        BY Zenon, <4>3 DEF Holds
    <3>3. CASE d \notin numBuffers + 1 .. n
      <4>1. dat[d] = data[d]
        BY Zenon, <1>6, <3>3 DEF dat
      <4> QED
        BY Zenon, <3>1, <4>1 DEF Holds
    <3> QED
      BY Zenon, <3>2, <3>3
  <2> QED
    BY Zenon, <1>8, <2>1, <2>2 DEF Holds
<1>9. ASSUME NEW p \in Pages, Holds(p, data, dataToBroadcast)
      PROVE  Holds(p, dat, dataToBroadcast)
  <2>1. CASE \E i \in DOMAIN dataToBroadcast : dataToBroadcast[i] = p
    BY Zenon, <2>1 DEF Holds
  <2>2. CASE \E d \in Destinations : \E i \in DOMAIN data[d] : data[d][i] = p
    <3>1. PICK d \in Destinations : \E i \in DOMAIN data[d] : data[d][i] = p
      BY Zenon, <2>2
    <3>2. data[d] # <<>>
      BY <3>1
    <3>3. dat[d] = data[d]
      BY Zenon, <1>5, <1>6, <3>2 DEF dat
    <3> QED
      BY Zenon, <3>1, <3>3 DEF Holds
  <2> QED
    BY Zenon, <1>9, <2>1, <2>2 DEF Holds
<1>10. Held(dat, dataToBroadcast) = Held(data, dataToBroadcast)
  BY Zenon, <1>8, <1>9 DEF Held
<1> QED
  BY Zenon, <1>10 DEF dat

-----------------------------------------------------------------------------
(* Adding a page, or the end, to some buffers *)

\* A buffer is left alone, or gets p at its end.
Adds(dat, dat2, p) ==
  \A e \in Destinations :
    /\ \A i \in DOMAIN dat[e] : i \in DOMAIN dat2[e] /\ dat2[e][i] = dat[e][i]
    /\ \A i \in DOMAIN dat2[e] :
         i \notin DOMAIN dat[e] => dat2[e][i] = p /\ i = Len(dat[e]) + 1

\* Enqueueing a page adds it at the end of the buffers that take it.
LEMMA EnqueuedAdds ==
  ASSUME NEW dat, \A e \in Destinations : dat[e] \in Seq(Items),
         NEW p \in Items, NEW T, NEW dat2,
         \A e \in Destinations :
           dat2[e] = IF e \in T THEN Enqueued(dat[e], p) ELSE dat[e]
  PROVE  Adds(dat, dat2, p)
<1>1. ASSUME NEW s \in Seq(Items)
      PROVE  /\ \A i \in DOMAIN s : /\ i \in DOMAIN Append(s, p)
                                    /\ Append(s, p)[i] = s[i]
             /\ \A i \in DOMAIN Append(s, p) :
                  i \notin DOMAIN s => Append(s, p)[i] = p /\ i = Len(s) + 1
  OBVIOUS
<1> SUFFICES ASSUME NEW e \in Destinations
             PROVE  /\ \A i \in DOMAIN dat[e] : /\ i \in DOMAIN dat2[e]
                                                /\ dat2[e][i] = dat[e][i]
                    /\ \A i \in DOMAIN dat2[e] :
                         i \notin DOMAIN dat[e] =>
                           dat2[e][i] = p /\ i = Len(dat[e]) + 1
  BY Zenon DEF Adds
<1>2. dat2[e] = dat[e] \/ dat2[e] = Append(dat[e], p)
  BY Zenon DEF Enqueued
<1>3. CASE dat2[e] = dat[e]
  BY Zenon, <1>3
<1>4. CASE dat2[e] = Append(dat[e], p)
  <2>1. dat[e] \in Seq(Items)
    BY Zenon
  <2>2. /\ \A i \in DOMAIN dat[e] : /\ i \in DOMAIN Append(dat[e], p)
                                     /\ Append(dat[e], p)[i] = dat[e][i]
        /\ \A i \in DOMAIN Append(dat[e], p) :
             i \notin DOMAIN dat[e] => /\ Append(dat[e], p)[i] = p
                                       /\ i = Len(dat[e]) + 1
    BY Zenon, <1>1, <2>1
  <2> QED
    BY Zenon, <1>4, <2>2
<1> QED
  BY Zenon, <1>2, <1>3, <1>4

\* A page that is added is all that the buffers hold more.
LEMMA HeldAdds ==
  ASSUME NEW dat, NEW dat2, NEW bc, NEW p, Adds(dat, dat2, p)
  PROVE  /\ Held(dat, bc) \subseteq Held(dat2, bc)
         /\ Held(dat2, bc) \subseteq Held(dat, bc) \cup {p}
<1>1. ASSUME NEW q, Holds(q, dat, bc) PROVE Holds(q, dat2, bc)
  <2>1. CASE \E i \in DOMAIN bc : bc[i] = q
    BY Zenon, <2>1 DEF Holds
  <2>2. CASE \E e \in Destinations : \E i \in DOMAIN dat[e] : dat[e][i] = q
    BY Zenon, <2>2 DEF Holds, Adds
  <2> QED
    BY Zenon, <1>1, <2>1, <2>2 DEF Holds
<1>2. ASSUME NEW q, Holds(q, dat2, bc), q # p PROVE Holds(q, dat, bc)
  <2>1. CASE \E i \in DOMAIN bc : bc[i] = q
    BY Zenon, <2>1 DEF Holds
  <2>2. CASE \E e \in Destinations : \E i \in DOMAIN dat2[e] : dat2[e][i] = q
    <3>1. PICK e \in Destinations : \E i \in DOMAIN dat2[e] : dat2[e][i] = q
      BY Zenon, <2>2
    <3>2. PICK i \in DOMAIN dat2[e] : dat2[e][i] = q
      BY Zenon, <3>1
    <3>3. i \in DOMAIN dat[e] /\ dat[e][i] = q
      BY Zenon, <1>2, <3>2 DEF Adds
    <3> QED
      BY Zenon, <3>3 DEF Holds
  <2> QED
    BY Zenon, <1>2, <2>1, <2>2 DEF Holds
<1>3. Held(dat, bc) \subseteq Held(dat2, bc)
  BY Zenon, <1>1 DEF Held
<1>4. Held(dat2, bc) \subseteq Held(dat, bc) \cup {p}
  <2> SUFFICES ASSUME NEW q \in Held(dat2, bc), q # p PROVE q \in Held(dat, bc)
    BY Zenon
  <2> QED
    BY Zenon, <1>2 DEF Held
<1> QED
  BY Zenon, <1>3, <1>4

\* A page that is new, in at most one buffer, is in one place.
LEMMA DistinctAdds ==
  ASSUME NEW dat, NEW dat2, NEW p, NEW made \in Nat, NEW made2 \in Nat, NEW rel,
         Distinct(dat, made, rel), Adds(dat, dat2, p), made <= made2,
         \A e \in Destinations : dat[e] \in Seq(Items),
         \/ p = End
         \/ /\ p = made + 1 /\ made2 = p
            /\ \E d : \A e \in Destinations : e # d => dat2[e] = dat[e]
  PROVE  Distinct(dat2, made2, rel)
<1>1. \A e \in Destinations : \A i \in DOMAIN dat2[e] :
        \/ i \in DOMAIN dat[e] /\ dat2[e][i] = dat[e][i]
        \/ dat2[e][i] = p /\ i = Len(dat[e]) + 1 /\ dat2[e] # dat[e]
  BY Zenon DEF Adds
<1>2. \A e \in Destinations : \A i \in DOMAIN dat[e] :
        dat[e][i] <= made /\ dat[e][i] \in Int
  <2>1. Items \subseteq Int
    BY OutputAssumption DEF Items, Pages, End
  <2>2. \A e \in Destinations : \A i \in DOMAIN dat[e] : dat[e][i] \in Items
    OBVIOUS
  <2>3. \A e \in Destinations : \A i \in DOMAIN dat[e] : dat[e][i] <= made
    BY Zenon DEF Distinct
  <2> QED
    BY Zenon, <2>1, <2>2, <2>3
<1>3. p \in Int /\ p <= made2
  BY DEF End
<1>4. \A e \in Destinations : \A i \in DOMAIN dat2[e] : dat2[e][i] <= made2
  BY SMTT(30), <1>1, <1>2, <1>3
<1>5. ASSUME NEW r \in rel, NEW q \in r.freed
      PROVE  /\ q \in 1 .. made2
             /\ \A e \in Destinations : \A i \in DOMAIN dat2[e] : dat2[e][i] # q
  <2>1. q \in 1 .. made
    BY Zenon DEF Distinct
  <2>2. \A e \in Destinations : \A i \in DOMAIN dat[e] : dat[e][i] # q
    BY Zenon DEF Distinct
  <2>3. q # p /\ q \in 1 .. made2
    BY <2>1 DEF End
  <2> QED
    BY SMTT(30), <1>1, <2>2, <2>3
<1>6. ASSUME NEW b \in Destinations, NEW e \in Destinations,
             NEW i \in DOMAIN dat2[b], NEW j \in DOMAIN dat2[e],
             dat2[b][i] = dat2[e][j], dat2[b][i] # End
      PROVE  b = e /\ i = j
  <2>1. CASE dat2[b][i] = p
    <3>1. PICK d : /\ p = made + 1
                   /\ \A c \in Destinations : c # d => dat2[c] = dat[c]
      BY Zenon, <1>6, <2>1
    <3>2. ~(p <= made)
      BY <3>1
    <3>3. i = Len(dat[b]) + 1 /\ dat2[b] # dat[b]
      BY Zenon, <1>1, <1>2, <2>1, <3>2
    <3>4. j = Len(dat[e]) + 1 /\ dat2[e] # dat[e]
      BY ZenonT(30), <1>1, <1>2, <1>6, <2>1, <3>2
    <3> QED
      BY Zenon, <3>1, <3>3, <3>4
  <2>2. CASE dat2[b][i] # p
    <3>1. /\ i \in DOMAIN dat[b] /\ dat2[b][i] = dat[b][i]
          /\ j \in DOMAIN dat[e] /\ dat2[e][j] = dat[e][j]
      BY Zenon, <1>1, <1>6, <2>2
    <3>2. dat[b][i] = dat[e][j] /\ dat[b][i] # End
      BY Zenon, <1>6, <3>1
    <3>3. \A c, f \in Destinations : \A k \in DOMAIN dat[c], l \in DOMAIN dat[f] :
            dat[c][k] = dat[f][l] /\ dat[c][k] # End => c = f /\ k = l
      BY Zenon DEF Distinct
    <3> HIDE <1>6
    <3> QED
      BY Zenon, <3>1, <3>2, <3>3
  <2> QED
    BY Zenon, <2>1, <2>2
<1> QED
  BY SMTT(30), <1>4, <1>5, <1>6 DEF Distinct

\* PartitionedOutputBuffer::enqueue counts a page once, however many buffers
\* hold it, and not at all if it is dropped.
LEMMA EnqueuePages ==
  ASSUME BuffersOK, StreamsOK, DistinctOK, SizeOK, atEnd \in BOOLEAN,
         NEW w \in Drivers, NEW d \in Destinations, NEW wait \in BOOLEAN,
         Enqueue(w, d, wait)
  PROVE  DistinctOK' /\ SizeOK'
<1> DEFINE p == produced + 1
           T == IF Broadcast THEN Live ELSE {d} \cap Live
           bc == dataToBroadcast
<1>1. /\ produced < MaxPages /\ produced' = p
      /\ data' = [e \in Destinations |->
                    IF e \in T THEN Enqueued(data[e], p) ELSE data[e]]
      /\ dataToBroadcast' = IF Broadcast /\ ~noMoreBroadcastBuffers
                            THEN Append(bc, p) ELSE bc
      /\ totalSize' = EnqueuedSize(T)
      /\ releasing' = releasing
  BY Zenon DEF Enqueue
<1>2. /\ produced \in Nat /\ p \in Nat /\ produced <= p
      /\ p \in Pages /\ p \in Items /\ p # End /\ ~(p <= produced)
  BY <1>1, OutputAssumption DEF StreamsOK, Pages, Items, End
<1>3. ~Broadcast => T = {} \/ (T = {d} /\ d \in Live)
  <2>1. ~Broadcast => T = {d} \cap Live
    BY Zenon
  <2>2. {d} \cap Live = {} \/ ({d} \cap Live = {d} /\ d \in Live)
    BY Zenon
  <2> QED
    BY Zenon, <2>1, <2>2
<1>4. Contents(data, bc)
  BY Zenon, StreamContents
<1>5. \A e \in Destinations :
        data'[e] = IF e \in T THEN Enqueued(data[e], p) ELSE data[e]
  BY Zenon, <1>1
<1>6. p = produced + 1
  BY Zenon
<1> HIDE DEF p, T
<1>7. Adds(data, data', p)
  BY Zenon, <1>2, <1>4, <1>5, EnqueuedAdds DEF Contents
<1>8. DistinctOK'
  <2> SUFFICES ASSUME ~Broadcast PROVE Distinct(data', produced', releasing')
    BY Zenon, DistinctIs
  <2>1. Distinct(data, produced, releasing)
    BY Zenon, DistinctIs
  <2>2. \E b : \A e \in Destinations : e # b => data'[e] = data[e]
    <3>1. \A e \in Destinations : e # d => e \notin T
      BY Zenon, <1>3
    <3>2. \A e \in Destinations : e # d => data'[e] = data[e]
      BY Zenon, <1>5, <3>1
    <3> QED
      BY Zenon, <3>2
  <2>3. Distinct(data', p, releasing)
    BY ZenonT(30), <1>2, <1>4, <1>6, <1>7, <2>1, <2>2, DistinctAdds DEF Contents
  <2> QED
    BY Zenon, <1>1, <2>3
<1> DEFINE H == Held(data, bc)
           H2 == Held(data', dataToBroadcast')
<1>9. H2 \subseteq H \cup {p}
  <2>1. Held(data', bc) \subseteq H \cup {p}
    BY Zenon, <1>7, HeldAdds
  <2>2. \A i \in DOMAIN dataToBroadcast' :
          \/ dataToBroadcast'[i] = p
          \/ i \in DOMAIN bc /\ dataToBroadcast'[i] = bc[i]
    <3>1. bc \in Seq(Items)
      BY Zenon, <1>4 DEF Contents
    <3>2. dataToBroadcast' = bc \/ dataToBroadcast' = Append(bc, p)
      BY Zenon, <1>1
    <3> QED
      BY <1>2, <3>1, <3>2
  <2>3. ASSUME NEW q \in H2, q # p PROVE q \in Held(data', bc)
    BY Zenon, <2>2, <2>3 DEF Held, Holds
  <2> HIDE DEF H, H2
  <2> QED
    BY Zenon, <2>1, <2>3
<1>10. /\ IsFiniteSet(H) /\ Cardinality(H) \in Nat
       /\ IsFiniteSet(H2) /\ Cardinality(H2) \in Nat
  BY Zenon, HeldFinite
<1>11. /\ totalSize \in Nat /\ totalSize >= PageSize * Cardinality(H)
       /\ ~Broadcast => totalSize = PageSize * Cardinality(H)
  BY Zenon, SizeHeld DEF SizeIs
<1>12. ASSUME ~Broadcast PROVE H2 = IF T = {} THEN H ELSE H \cup {p}
  <2>1. dataToBroadcast' = bc
    BY Zenon, <1>1, <1>12
  <2>2. H \subseteq H2
    BY Zenon, <1>7, <2>1, HeldAdds
  <2>3. CASE T = {}
    <3>1. \A e \in Destinations : data'[e] = data[e]
      BY Zenon, <1>5, <2>3
    <3>2. \A q : Holds(q, data', bc) => Holds(q, data, bc)
      BY Zenon, <3>1 DEF Holds
    <3>3. H2 \subseteq H
      BY Zenon, <2>1, <3>2 DEF Held
    <3> HIDE DEF H, H2
    <3> QED
      BY ZenonT(30), <2>2, <2>3, <3>3
  <2>4. CASE T # {}
    <3>1. d \in T
      BY Zenon, <1>3, <1>12, <2>4
    <3>2. data'[d] = Append(data[d], p) /\ data[d] \in Seq(Items)
      BY Zenon, <1>2, <1>4, <1>5, <3>1 DEF Enqueued, Contents
    <3>3. \E i \in DOMAIN data'[d] : data'[d][i] = p
      <4>1. Len(data[d]) + 1 \in DOMAIN Append(data[d], p)
            /\ Append(data[d], p)[Len(data[d]) + 1] = p
        BY <1>2, <3>2
      <4> QED
        BY Zenon, <3>2, <4>1
    <3>4. p \in H2
      BY Zenon, <1>2, <3>3 DEF Held, Holds
    <3> HIDE DEF H, H2
    <3> QED
      BY Zenon, <1>9, <2>2, <2>4, <3>4
  <2> QED
    BY Zenon, <2>3, <2>4
<1>13. ASSUME ~Broadcast PROVE p \notin H
  <2>1. Distinct(data, produced, releasing)
    BY Zenon, <1>13, DistinctIs
  <2>2. \A i \in DOMAIN bc : FALSE
    <3>1. bc = <<>>
      BY Zenon, <1>13, NoneToBroadcast
    <3> QED
      BY <3>1
  <2>3. ASSUME NEW e \in Destinations, NEW i \in DOMAIN data[e], data[e][i] = p
        PROVE  FALSE
    <3>1. data[e][i] <= produced
      BY Zenon, <2>1 DEF Distinct
    <3> QED
      BY Zenon, <1>2, <2>3, <3>1
  <2> QED
    BY Zenon, <2>2, <2>3 DEF Held, Holds
<1>14. SizeIs(totalSize', data', dataToBroadcast') <=>
         /\ totalSize' \in Nat
         /\ totalSize' >= PageSize * Cardinality(H2)
         /\ ~Broadcast => totalSize' = PageSize * Cardinality(H2)
  BY Zenon DEF SizeIs
<1> HIDE DEF H, H2
<1>15. /\ IsFiniteSet(H \cup {p}) /\ Cardinality(H \cup {p}) \in Nat
       /\ Cardinality(H \cup {p}) <= Cardinality(H) + 1
       /\ p \notin H => Cardinality(H \cup {p}) = Cardinality(H) + 1
  <2>1. /\ IsFiniteSet(H \cup {p})
        /\ Cardinality(H \cup {p}) = IF p \in H THEN Cardinality(H)
                                     ELSE Cardinality(H) + 1
    BY Zenon, <1>10, FS_AddElement
  <2> QED
    BY <1>10, <2>1
<1>16. Cardinality(H2) <= Cardinality(H) + 1
  <2>1. Cardinality(H2) <= Cardinality(H \cup {p})
    BY Zenon, <1>9, <1>15, FS_Subset
  <2> QED
    BY <1>10, <1>15, <2>1
<1>17. /\ PageSize \in Nat
       /\ PageSize * Cardinality(H) \in Nat /\ PageSize * Cardinality(H2) \in Nat
       /\ PageSize * (Cardinality(H) + 1) = PageSize * Cardinality(H) + PageSize
       /\ PageSize * Cardinality(H2) <= PageSize * (Cardinality(H) + 1)
  <2>1. Cardinality(H) + 1 \in Nat
    BY <1>10
  <2>2. PageSize \in Nat
    BY Zenon, OutputAssumption
  <2> QED
    BY Zenon, <1>10, <1>16, <2>1, <2>2, TimesSize
<1>18. totalSize' = IF ~Broadcast /\ T = {} THEN totalSize
                    ELSE totalSize + PageSize
  BY Zenon, <1>1 DEF EnqueuedSize
<1>19. SizeIs(totalSize', data', dataToBroadcast')
  <2>1. CASE ~Broadcast /\ T = {}
    BY ZenonT(30), <1>11, <1>12, <1>14, <1>18, <2>1
  <2>2. CASE Broadcast
    BY <1>11, <1>14, <1>17, <1>18, <2>2
  <2>3. CASE ~Broadcast /\ T # {}
    <3>1. Cardinality(H2) = Cardinality(H) + 1
      BY Zenon, <1>12, <1>13, <1>15, <2>3
    <3>2. totalSize' = totalSize + PageSize
      BY Zenon, <1>18, <2>3
    <3>3. totalSize' = PageSize * Cardinality(H2) /\ totalSize' \in Nat
      BY Zenon, <1>11, <1>17, <2>3, <3>1, <3>2
    <3> QED
      BY <1>14, <1>17, <3>3
  <2> QED
    BY Zenon, <2>1, <2>2, <2>3
<1> QED
  BY Zenon, <1>8, <1>19, SizeHeld

\* The end marker is not a page.
LEMMA DonePages ==
  ASSUME DriversOK, StreamsOK, DistinctOK, SizeOK, NEW n \in Nat,
         n <= numDrivers, CheckIfDone(n),
         UNCHANGED <<bufferVars, sizeVars, produced, releasing>>
  PROVE  DistinctOK' /\ SizeOK'
<1>1. /\ Contents(data, dataToBroadcast)
      /\ numDrivers \in Nat
  BY Zenon, StreamContents DEF DriversOK
<1>2. /\ totalSize' = totalSize /\ dataToBroadcast' = dataToBroadcast
      /\ produced' = produced /\ releasing' = releasing
  BY Zenon DEF bufferVars, sizeVars
<1> DEFINE T == IF n = numDrivers THEN Live ELSE {}
<1>3. \A e \in Destinations :
        data'[e] = IF e \in T THEN Enqueued(data[e], End) ELSE data[e]
  <2>1. data' = [d \in Destinations |->
                   IF n = numDrivers /\ d \in Live
                   THEN Enqueued(data[d], End) ELSE data[d]]
    BY Zenon, <1>1, CheckIfDoneSets
  <2> QED
    BY Zenon, <2>1
<1>4. End \in Items /\ End \notin Pages
  BY OutputAssumption DEF Items, Pages, End
<1> HIDE DEF T
<1>5. Adds(data, data', End)
  BY Zenon, <1>1, <1>3, <1>4, EnqueuedAdds DEF Contents
<1>6. produced \in Nat /\ produced <= produced
  BY OutputAssumption DEF StreamsOK
<1>7. DistinctOK'
  <2> SUFFICES ASSUME ~Broadcast PROVE Distinct(data', produced', releasing')
    BY Zenon, DistinctIs
  <2>1. Distinct(data, produced, releasing)
    BY Zenon, DistinctIs
  <2>2. Distinct(data', produced, releasing)
    BY Zenon, <1>1, <1>5, <1>6, <2>1, DistinctAdds DEF Contents
  <2> QED
    BY Zenon, <1>2, <2>2
<1>8. Held(data', dataToBroadcast) = Held(data, dataToBroadcast)
  <2>1. /\ Held(data, dataToBroadcast) \subseteq Held(data', dataToBroadcast)
        /\ Held(data', dataToBroadcast) \subseteq
             Held(data, dataToBroadcast) \cup {End}
    BY Zenon, <1>5, HeldAdds
  <2>2. End \notin Held(data', dataToBroadcast)
    BY Zenon, <1>4 DEF Held
  <2> QED
    BY Zenon, <2>1, <2>2
<1>9. SizeIs(totalSize', data', dataToBroadcast')
  <2>1. SizeIs(totalSize, data, dataToBroadcast)
    BY Zenon, SizeHeld
  <2> QED
    BY Zenon, <1>2, <1>8, <2>1 DEF SizeIs
<1> QED
  BY Zenon, <1>7, <1>9, SizeHeld

\* getData, with a broadcast buffer that it adds or without.
LEMMA GetDataPages ==
  ASSUME BuffersOK, StreamsOK, DistinctOK, SizeOK, DriversOK,
         NEW d \in Destinations, GetData(d), Served(d)
  PROVE  DistinctOK' /\ SizeOK'
<1> DEFINE n == sourceSequence[d] - sequence[d]
           added == Broadcast /\ d > numBuffers
           dat == IF added THEN AddedBuffers(d) ELSE data
<1>1. /\ dataToBroadcast' = dataToBroadcast /\ produced' = produced
      /\ d \notin deleted
      /\ data' = [dat EXCEPT ![d] = SubSeq(Before(d), n + 1, Len(Before(d)))]
      /\ dat[d] = Before(d)
  <2>1. dataToBroadcast' = dataToBroadcast /\ produced' = produced
    BY Zenon, GetDataKeeps
  <2>2. d \notin deleted /\ data' = AfterGet(d)
    BY Zenon DEF Served
  <2> QED
    BY Zenon, <2>1, <2>2 DEF AfterGet, After, Before
<1>2. PICK by : UpdateAfterAcknowledge(by, Dropped(Before(d), n), data',
                  dataToBroadcast, FALSE)
  <2>1. data' = AfterGet(d)
    BY Zenon DEF Served
  <2> QED
    BY Zenon, <2>1 DEF Served
<1>3. /\ atEnd \in BOOLEAN /\ StreamOK(d)
      /\ DOMAIN data = Destinations
  BY Zenon DEF DriversOK, StreamsOK
<1>4. /\ n \in 0 .. Len(dat[d])
      /\ dat[d] \in Seq(Items)
  <2>1. /\ n \in 0 .. Len(Before(d))
        /\ Rest(Before(d), sequence[d], Stream(sent[d], atEnd))
    BY Zenon, <1>1, <1>3, BeforeRest
  <2>2. Before(d) \in Seq(Items)
    BY Zenon, <2>1 DEF Rest, Piece, Items
  <2> QED
    BY Zenon, <1>1, <2>1, <2>2
<1>5. DOMAIN dat = Destinations
  <2>1. DOMAIN AddedBuffers(d) = Destinations
    BY Zenon DEF AddedBuffers
  <2> QED
    BY Zenon, <1>3, <2>1
<1> HIDE DEF n, dat, added
<1>6. Drops(dat, data', d, n)
  <2>1. data' = [dat EXCEPT ![d] = SubSeq(dat[d], n + 1, Len(dat[d]))]
    BY Zenon, <1>1
  <2> QED
    BY Zenon, <1>4, <1>5, <2>1, DropPlaces
<1>7. CASE added
  <2>1. Broadcast
    BY Zenon, <1>7 DEF added
  <2>2. SizeIs(totalSize, dat, dataToBroadcast)
    <3>1. SizeIs(totalSize, data, dataToBroadcast)
      BY Zenon, SizeHeld
    <3>2. Held(dat, dataToBroadcast) = Held(data, dataToBroadcast)
      BY Zenon, <1>7, HeldAdded DEF dat
    <3> QED
      BY Zenon, <3>1, <3>2 DEF SizeIs
  <2>3. totalSize' = totalSize -
                       TotalFreed(Dropped(dat[d], n), data', dataToBroadcast)
    BY Zenon, <1>1, <1>2 DEF UpdateAfterAcknowledge
  <2>4. SizeIs(totalSize', data', dataToBroadcast')
    BY ZenonT(30), <1>1, <1>6, <2>1, <2>2, <2>3, SizeDrop
  <2> QED
    BY Zenon, <2>1, <2>4, SizeHeld, DistinctIs
<1>8. CASE ~added
  <2>1. dat = data
    BY Zenon, <1>8 DEF dat
  <2> DEFINE isFinished == FALSE
  <2>2. UpdateAfterAcknowledge(by, Dropped(data[d], n), data', dataToBroadcast,
                               isFinished)
    BY Zenon, <1>1, <1>2, <2>1
  <2> HIDE DEF isFinished
  <2> QED
    BY Zenon, <1>1, <1>6, <2>1, <2>2, DropStep
<1> QED
  BY Zenon, <1>7, <1>8

\* PartitionedOutputBuffer::acknowledge keeps the size and the places of pages.
LEMMA AcknowledgePages ==
  ASSUME BuffersOK, StreamsOK, DistinctOK, SizeOK, DriversOK,
         NEW d \in Destinations, NEW s \in 0 .. MaxPages, Acknowledge(d, s),
         Acknowledged(d, s)
  PROVE  DistinctOK' /\ SizeOK'
<1> DEFINE n == s - sequence[d]
           isFinished == FALSE
<1>1. /\ dataToBroadcast' = dataToBroadcast /\ produced' = produced
      /\ s <= Len(received[d])
  BY Zenon, AcknowledgeCases
<1>2. /\ d \in Live /\ s > sequence[d]
      /\ data' = [data EXCEPT ![d] = SubSeq(data[d], n + 1, Len(data[d]))]
      /\ UpdateAfterAcknowledge(<<"ack", d>>, Dropped(data[d], n), data',
                                dataToBroadcast, isFinished)
  BY Zenon DEF Acknowledged
<1>3. /\ atEnd \in BOOLEAN /\ StreamOK(d)
      /\ DOMAIN data = Destinations
  BY Zenon DEF DriversOK, StreamsOK
<1>4. Rest(data[d], sequence[d], Stream(sent[d], atEnd))
  BY Zenon, <1>2, <1>3 DEF StreamOK
<1>5. /\ Len(Stream(sent[d], atEnd)) \in Nat
      /\ Stream(sent[d], atEnd) \in Seq(Items)
      /\ Len(sent[d]) \in Nat /\ Len(sent[d]) <= Len(Stream(sent[d], atEnd))
      /\ Len(received[d]) \in 0 .. Len(sent[d])
      /\ sequence[d] \in 0 .. Len(received[d])
  BY Zenon, <1>3, StreamNumbers
<1>6. data[d] \in Seq(Items) /\ n \in 0 .. Len(data[d])
  <2>1. data[d] \in Seq(Items)
        /\ sequence[d] + Len(data[d]) = Len(Stream(sent[d], atEnd))
    BY Zenon, <1>4 DEF Rest, Piece, Items
  <2>2. Len(data[d]) \in Nat
    BY <2>1
  <2>3. s \in Nat /\ sequence[d] \in Nat
    BY <1>5, OutputAssumption
  <2>4. s <= sequence[d] + Len(data[d])
    BY <1>1, <1>5, <2>1, <2>2, <2>3
  <2>5. s > sequence[d]
    BY Zenon, <1>2
  <2>6. s - sequence[d] \in 0 .. Len(data[d])
    BY <2>2, <2>3, <2>4, <2>5
  <2> QED
    BY Zenon, <2>1, <2>6
<1> HIDE DEF n, isFinished
<1>7. Drops(data, data', d, n)
  BY Zenon, <1>2, <1>3, <1>6, DropPlaces
<1> QED
  BY Zenon, <1>1, <1>2, <1>7, DropStep

\* PartitionedOutputBuffer::deleteResults keeps the size and the places of pages.
LEMMA DeletePages ==
  ASSUME BuffersOK, StreamsOK, DistinctOK, SizeOK, DriversOK,
         NEW d \in Destinations, NEW why, DeleteResults(d, why), Deletes(d, why)
  PROVE  DistinctOK' /\ SizeOK'
<1> DEFINE n == Len(data[d])
           isFinished == IsFinished(numBuffers, deleted \cup {d},
                                    noMoreBroadcastBuffers)
<1>1. dataToBroadcast' = dataToBroadcast /\ produced' = produced
  BY Zenon, DeleteCases
<1>2. /\ data' = [data EXCEPT ![d] = <<>>]
      /\ UpdateAfterAcknowledge(<<why, d>>, Dropped(data[d], n), data',
                                dataToBroadcast, isFinished)
  BY Zenon DEF Deletes
<1>3. DOMAIN data = Destinations /\ data[d] \in Seq(Items)
  BY Zenon, StreamContents DEF DriversOK, StreamsOK, Contents
<1>4. /\ n \in 0 .. Len(data[d])
      /\ SubSeq(data[d], n + 1, Len(data[d])) = <<>>
  BY <1>3
<1> HIDE DEF n, isFinished
<1>5. data' = [data EXCEPT ![d] = SubSeq(data[d], n + 1, Len(data[d]))]
  BY Zenon, <1>2, <1>4
<1>6. Drops(data, data', d, n)
  BY Zenon, <1>3, <1>4, <1>5, DropPlaces
<1> QED
  BY Zenon, <1>1, <1>2, <1>6, DropStep

\* Once no more broadcast buffers can come, the pages that only
\* dataToBroadcast_ held are freed.
LEMMA UpdatePages ==
  ASSUME BuffersOK, StreamsOK, SizeOK, DriversOK, NEW n \in Destinations,
         NEW noMore \in BOOLEAN, UpdateBroadcastOutputBuffers(n, noMore)
  PROVE  DistinctOK' /\ SizeOK'
<1>1. Broadcast /\ data' = AddedBuffers(n)
  BY Zenon DEF UpdateBroadcastOutputBuffers
<1>2. SizeIs(totalSize, AddedBuffers(n), dataToBroadcast)
  <2>1. SizeIs(totalSize, data, dataToBroadcast)
    BY Zenon, SizeHeld
  <2>2. Held(AddedBuffers(n), dataToBroadcast) = Held(data, dataToBroadcast)
    BY Zenon, HeldAdded
  <2> QED
    BY Zenon, <2>1, <2>2 DEF SizeIs
<1>3. CASE ~noMore
  <2>1. totalSize' = totalSize /\ dataToBroadcast' = dataToBroadcast
    BY Zenon, <1>3 DEF UpdateBroadcastOutputBuffers, sizeVars
  <2> QED
    BY Zenon, <1>1, <1>2, <2>1, SizeHeld, DistinctIs
<1>4. CASE noMore
  <2> DEFINE none == <<>>
             freed == Range(dataToBroadcast)
  <2>1. /\ dataToBroadcast' = none
        /\ totalSize' = totalSize - TotalFreed(freed, AddedBuffers(n), none)
    BY Zenon, <1>4 DEF UpdateBroadcastOutputBuffers, UpdateAfterAcknowledge
  <2>2. \A i \in DOMAIN none : FALSE
    OBVIOUS
  <2>3. dataToBroadcast \in Seq(Pages)
    <3>1. 1 \in Destinations
      BY OutputAssumption DEF Destinations
    <3>2. StreamOK(1)
      BY Zenon, <3>1 DEF StreamsOK
    <3>3. sent[1] \in Seq(Pages) /\ <<>> \in Seq(Pages)
      BY SMTT(30), <3>2 DEF StreamOK
    <3> QED
      BY Zenon, <3>2, <3>3 DEF StreamOK
  <2>4. \A p \in freed : /\ p \in Pages
                         /\ \E i \in DOMAIN dataToBroadcast :
                              dataToBroadcast[i] = p
    <3>1. \A i \in DOMAIN dataToBroadcast : dataToBroadcast[i] \in Pages
      BY <2>3
    <3> QED
      BY Zenon, <3>1 DEF Range
  <2> HIDE DEF none, freed
  <2>5. freed \subseteq Held(AddedBuffers(n), dataToBroadcast)
    BY Zenon, <2>4 DEF Held, Holds
  <2>6. Held(AddedBuffers(n), none) \subseteq
          Held(AddedBuffers(n), dataToBroadcast)
    BY Zenon, <2>2 DEF Held, Holds
  <2>7. SizeIs(totalSize', data', dataToBroadcast')
    BY Zenon, <1>1, <1>2, <2>1, <2>5, <2>6, SizeFreed
  <2> QED
    BY Zenon, <1>1, <2>7, SizeHeld, DistinctIs
<1> QED
  BY Zenon, <1>3, <1>4

\* No step loses count of the pages, or puts a page in two places.
LEMMA PagesStep ==
  ASSUME DriversOK, BuffersOK, StreamsOK, DistinctOK, SizeOK, [Next]_vars
  PROVE  DistinctOK' /\ SizeOK'
<1>1. ASSUME UNCHANGED <<totalSize, data, dataToBroadcast, produced>>,
             releasing' \subseteq releasing
      PROVE  DistinctOK' /\ SizeOK'
  <2>1. SizeOK'
    BY Zenon, <1>1, SizeHeld
  <2>2. DistinctOK'
    <3> SUFFICES ASSUME ~Broadcast PROVE Distinct(data', produced', releasing')
      BY Zenon, DistinctIs
    <3>1. Distinct(data, produced, releasing)
      BY Zenon, DistinctIs
    <3>2. Distinct(data, produced, releasing')
      BY Zenon, <1>1, <3>1 DEF Distinct
    <3> QED
      BY Zenon, <1>1, <3>2
  <2> QED
    BY Zenon, <2>1, <2>2
<1>2. ASSUME NEW w \in Drivers, NEW d \in Destinations, NEW wait \in BOOLEAN,
             Enqueue(w, d, wait)
      PROVE  DistinctOK' /\ SizeOK'
  BY Zenon, <1>2, EnqueuePages DEF DriversOK
<1>3. ASSUME NEW w \in Drivers, NoMoreData(w) PROVE DistinctOK' /\ SizeOK'
  <2>1. /\ driverState[w] # "done" /\ CheckIfDone(numFinished + 1)
        /\ UNCHANGED <<bufferVars, sizeVars, produced, releasing>>
    BY Zenon, <1>3 DEF NoMoreData
  <2>2. numFinished + 1 \in Nat /\ numFinished + 1 <= numDrivers
    BY Zenon, <2>1, NextFinished
  <2> QED
    BY Zenon, <2>1, <2>2, DonePages
<1>4. ASSUME NoMoreDrivers PROVE DistinctOK' /\ SizeOK'
  <2>1. /\ CheckIfDone(numFinished)
        /\ UNCHANGED <<bufferVars, sizeVars, produced, releasing>>
    BY Zenon, <1>4 DEF NoMoreDrivers, driverVars
  <2>2. numFinished \in Nat /\ numFinished <= numDrivers
    BY Zenon, NextFinished
  <2> QED
    BY Zenon, <2>1, <2>2, DonePages
<1>5. ASSUME NEW n \in Destinations, NEW noMore \in BOOLEAN,
             UpdateBroadcastOutputBuffers(n, noMore)
      PROVE  DistinctOK' /\ SizeOK'
  BY Zenon, <1>5, UpdatePages
<1>6. ASSUME NEW d \in Destinations, GetData(d) PROVE DistinctOK' /\ SizeOK'
  <2>1. CASE Refused(d)
    <3>1. UNCHANGED <<totalSize, data, dataToBroadcast, produced, releasing>>
      BY Zenon, <1>6, <2>1, GetDataKeeps DEF Refused, sizeVars, destVars
    <3> QED
      BY Zenon, <3>1, <1>1
  <2>2. CASE Served(d)
    BY Zenon, <1>6, <2>2, GetDataPages
  <2> QED
    BY Zenon, <1>6, <2>1, <2>2, GetDataCases
<1>7. ASSUME NEW d \in Destinations, NEW s \in 0 .. MaxPages, Acknowledge(d, s)
      PROVE  DistinctOK' /\ SizeOK'
  <2>1. CASE UNCHANGED <<data, sequence, sizeVars, releasing>>
    <3>1. UNCHANGED <<totalSize, data, dataToBroadcast, produced, releasing>>
      BY Zenon, <1>7, <2>1, AcknowledgeCases DEF sizeVars
    <3> QED
      BY Zenon, <3>1, <1>1
  <2>2. CASE Acknowledged(d, s)
    BY Zenon, <1>7, <2>2, AcknowledgePages
  <2> QED
    BY Zenon, <1>7, <2>1, <2>2, AcknowledgeCases
<1>8. ASSUME NEW d \in Destinations, NEW why \in {"end", "close"},
             DeleteResults(d, why)
      PROVE  DistinctOK' /\ SizeOK'
  <2>1. CASE Deletes(d, why)
    BY Zenon, <1>8, <2>1, DeletePages
  <2>2. CASE ~Deletes(d, why)
    <3>1. UNCHANGED <<totalSize, data, dataToBroadcast, produced, releasing>>
      BY Zenon, <1>8, <2>2, DeleteCases DEF sizeVars, destVars
    <3> QED
      BY Zenon, <3>1, <1>1
  <2> QED
    BY Zenon, <2>1, <2>2
<1>9. ASSUME NEW r \in releasing, Release(r) PROVE DistinctOK' /\ SizeOK'
  <2>1. /\ UNCHANGED <<totalSize, data, dataToBroadcast, produced>>
        /\ releasing' = releasing \ {r}
    BY Zenon, <1>9 DEF Release, bufferVars, sizeVars, destVars
  <2> QED
    BY Zenon, <2>1, <1>1
<1>10. ASSUME \/ UpdateNumDrivers \/ RemoveTask
              \/ \E d \in Destinations : Request(d) \/ Deliver(d) \/ Close(d)
              \/ UNCHANGED vars
       PROVE  DistinctOK' /\ SizeOK'
  <2>1. UNCHANGED <<totalSize, data, dataToBroadcast, produced, releasing>>
    BY ZenonT(30), <1>10
    DEF UpdateNumDrivers, RemoveTask, Request, Deliver, Close, bufferVars,
        sizeVars, destVars, driverVars, vars
  <2> QED
    BY Zenon, <2>1, <1>1
<1> QED
  BY Zenon, <1>2, <1>3, <1>4, <1>5, <1>6, <1>7, <1>8, <1>9, <1>10 DEF Next

-----------------------------------------------------------------------------
(* The invariant *)

\* A buffer that was just created satisfies the invariant.
LEMMA InitHolds ==
  ASSUME Init
  PROVE  IInv
<1>1. /\ 1 \in Destinations /\ NumDestinations \in Destinations
      /\ NumInitial \in Destinations
  BY OutputAssumption DEF Destinations
<1>2. DriversOK
  <2>1. /\ driverState = [w \in Drivers |-> "produce"]
        /\ numDrivers = NumDeclared /\ numFinished = 0 /\ atEnd = FALSE
        /\ noMoreDriversCall = FALSE /\ promises = {} /\ releasing = {}
    BY Zenon DEF Init
  <2>2. {w \in Drivers : driverState[w] = "done"} = {}
    BY Zenon, <2>1
  <2>3. numFinished = Cardinality({w \in Drivers : driverState[w] = "done"})
    BY Zenon, <2>1, <2>2, FS_EmptySet
  <2> QED
    BY Zenon, <2>1, <2>3, OutputAssumption DEF DriversOK
<1>3. BuffersOK
  BY Zenon, <1>1, OutputAssumption DEF Init, BuffersOK
<1>4. FinishOK
  BY DEF Init, FinishOK
<1>5. RequestsOK
  BY Zenon DEF Init, RequestsOK
<1>6. StreamsOK
  <2>1. /\ sent = [d \in Destinations |-> <<>>]
        /\ received = [d \in Destinations |-> <<>>]
        /\ sequence = [d \in Destinations |-> 0]
        /\ sourceSequence = [d \in Destinations |-> 0]
        /\ notifySequence = [d \in Destinations |-> 0]
        /\ data = [d \in Destinations |-> <<>>]
        /\ produced = 0 /\ acks = {} /\ atEnd = FALSE
        /\ notify = {} /\ delivery = [d \in {} |-> <<>>]
        /\ dataToBroadcast = <<>>
    BY Zenon DEF Init
  <2>2. ASSUME NEW d \in Destinations PROVE StreamOK(d)
    <3>1. /\ sent[d] = <<>> /\ received[d] = <<>> /\ data[d] = <<>>
          /\ sequence[d] = 0 /\ sourceSequence[d] = 0
          /\ d \notin notify /\ d \notin DOMAIN delivery
      BY Zenon, <2>1
    <3>2. /\ Stream(<<>>, FALSE) = <<>>
          /\ Rest(<<>>, 0, <<>>) /\ Piece(<<>>, 0, <<>>)
          /\ <<>> \in Seq(Pages) /\ 0 \in 0 .. Len(<<>>) /\ Len(<<>>) = 0
      BY DEF Stream, Rest, Piece
    <3> QED
      BY Zenon, <2>1, <3>1, <3>2 DEF StreamOK
  <2>3. produced \in 0 .. MaxPages
    BY <2>1, OutputAssumption
  <2> QED
    BY Zenon, <2>1, <2>2, <2>3 DEF StreamsOK
<1>7. /\ \A d \in Destinations : DOMAIN data[d] = {}
      /\ DOMAIN dataToBroadcast = {} /\ releasing = {} /\ totalSize = 0
  BY DEF Init
<1>8. DistinctOK
  BY Zenon, <1>7 DEF DistinctOK
<1>9. SizeOK
  <2>1. Held(data, dataToBroadcast) = {}
    BY Zenon, <1>7 DEF Held, Holds
  <2>2. Cardinality(Held(data, dataToBroadcast)) = 0
    BY Zenon, <2>1, FS_EmptySet
  <2>3. SizeIs(totalSize, data, dataToBroadcast)
    BY <1>7, <2>2, OutputAssumption DEF SizeIs
  <2> QED
    BY Zenon, <2>3, SizeHeld
<1>10. ChecksHold
  BY Zenon DEF Init, ChecksHold
<1> QED
  BY Zenon, <1>2, <1>3, <1>4, <1>5, <1>6, <1>8, <1>9, <1>10 DEF IInv

\* IInv holds in every state, with any number of drivers, destinations and
\* pages, with broadcast or without, and whichever consumers close early.
THEOREM OutputInvariant == Spec => []IInv
<1>1. IInv /\ [Next]_vars => IInv'
  <2> SUFFICES ASSUME IInv, [Next]_vars PROVE IInv'
    BY Zenon
  <2>1. /\ DriversOK /\ BuffersOK /\ FinishOK /\ RequestsOK /\ StreamsOK
        /\ DistinctOK /\ SizeOK /\ ChecksHold
    BY Zenon DEF IInv
  <2>2. DriversOK'
    BY Zenon, <2>1, DriversStep
  <2>3. BuffersOK'
    BY Zenon, <2>1, BuffersStep
  <2>4. FinishOK'
    BY Zenon, <2>1, FinishStep
  <2>5. RequestsOK'
    BY Zenon, <2>1, RequestsStep
  <2>6. StreamsOK'
    BY Zenon, <2>1, StreamsStep
  <2>7. DistinctOK' /\ SizeOK'
    BY Zenon, <2>1, PagesStep
  <2>8. ChecksHold'
    BY Zenon, <2>1, ChecksStep
  <2> QED
    BY Zenon, <2>2, <2>3, <2>4, <2>5, <2>6, <2>7, <2>8 DEF IInv
<1>2. Init => IInv
  BY Zenon, InitHolds
<1> QED
  BY <1>1, <1>2, PTL DEF Spec

\* totalSize_ never understates what the buffers hold, even when destinations
\* share pages and each lets them go outside the mutex at its own time.
THEOREM SizeNeverUnderstated == Spec => []NeverUnderstated
<1>1. IInv => NeverUnderstated
  BY Zenon DEF IInv, SizeOK
<1> QED
  BY <1>1, OutputInvariant, PTL

\* Without broadcast totalSize_ is exact after every critical section.
THEOREM SizeExact == ASSUME ~Broadcast PROVE Spec => []SizeAccounting
<1>1. IInv => SizeAccounting
  BY Zenon DEF IInv, SizeOK
<1> QED
  BY <1>1, OutputInvariant, PTL

\* No VELOX_CHECK of the buffer fails but the two that an early close may trip.
THEOREM ChecksAlwaysHold == Spec => []ChecksHold
<1>1. IInv => ChecksHold
  BY Zenon DEF IInv
<1> QED
  BY <1>1, OutputInvariant, PTL

\* No callback of a source is lost, and none is called twice.
THEOREM NoCallbackLost == Spec => []PendingRequests
<1>1. IInv => PendingRequests
  <2> SUFFICES ASSUME IInv PROVE PendingRequests
    BY Zenon
  <2>1. RequestsOK /\ StreamsOK
    BY Zenon DEF IInv
  <2>2. \A d \in notify : data[d] = <<>> /\ notifySequence[d] = sequence[d]
    <3>1. notify \subseteq Destinations
      BY Zenon, <2>1 DEF RequestsOK
    <3> QED
      BY Zenon, <2>1, <3>1 DEF StreamsOK, StreamOK
  <2> QED
    BY Zenon, <2>1, <2>2 DEF RequestsOK, PendingRequests
<1> QED
  BY <1>1, OutputInvariant, PTL

\* Task::setAllOutputConsumed is called once, when there is no buffer left and
\* none to come.
THEOREM OutputConsumedOnce == Spec => []ConsumedOnce
<1>1. IInv => ConsumedOnce
  <2> SUFFICES ASSUME FinishOK PROVE ConsumedOnce
    BY Zenon DEF IInv
  <2> DEFINE finishing == {r \in releasing : r.isFinished}
  <2>1. consumed \in Nat /\ (consumed > 0 => consumed = 1)
    BY Zenon DEF FinishOK
  <2>2. consumed + Cardinality(finishing) <= 1
    <3>1. CASE finishing = {}
      <4>1. Cardinality(finishing) = 0
        BY Zenon, <3>1, FS_EmptySet
      <4> QED
        BY <2>1, <4>1
    <3>2. CASE finishing # {}
      <4>1. PICK r \in releasing : r.isFinished
        BY Zenon, <3>2
      <4>2. consumed = 0 /\ \A q \in releasing : q.isFinished => q = r
        BY Zenon, <4>1 DEF FinishOK
      <4>3. finishing = {r}
        BY Zenon, <4>1, <4>2
      <4> HIDE DEF finishing
      <4>4. Cardinality(finishing) = 1
        BY Zenon, <4>3, FS_Singleton
      <4> QED
        BY <4>2, <4>4
    <3> QED
      BY Zenon, <3>1, <3>2
  <2>3. consumed > 0 => IsFinished(numBuffers, deleted, noMoreBroadcastBuffers)
    BY Zenon DEF FinishOK
  <2> QED
    BY Zenon, <2>2, <2>3 DEF ConsumedOnce
<1> QED
  BY <1>1, OutputInvariant, PTL

\* The first k of r and the pages without the end marker make up stream s.
Whole(s, ended, r, k, pages) ==
  /\ s = SubSeq(r, 1, k) \o WithoutEnd(pages)
  /\ pages = WithoutEnd(pages) \o (IF ended THEN <<End>> ELSE <<>>)

\* A buffer that holds the rest of a stream, and what its source has
\* acknowledged, make up the stream.
LEMMA StreamWhole ==
  ASSUME NEW s \in Seq(Pages), NEW ended \in BOOLEAN, NEW r, NEW k, NEW pages,
         Piece(r, 0, s), k \in 0 .. Len(r), Rest(pages, k, Stream(s, ended))
  PROVE  Whole(s, ended, r, k, pages)
<1> DEFINE w == WithoutEnd(pages)
           stream == Stream(s, ended)
           q == SubSeq(r, 1, k)
<1>1. /\ r \in Seq(Items) /\ Len(r) \in Nat /\ Len(s) \in Nat /\ Len(r) <= Len(s)
      /\ k \in Nat /\ k <= Len(r) /\ k \in 0 .. Len(s)
      /\ \A i \in 1 .. Len(r) : r[i] = s[i]
  <2>1. r \in Seq(Items) /\ 0 + Len(r) <= Len(s)
        /\ \A i \in 1 .. Len(r) : r[i] = s[0 + i]
    BY Zenon DEF Piece, Items
  <2>2. Len(r) \in Nat /\ Len(s) \in Nat
    BY <2>1
  <2>3. \A i \in 1 .. Len(r) : r[i] = s[i]
    BY <2>1, <2>2
  <2> QED
    BY <2>1, <2>2, <2>3
<1>2. /\ Piece(pages, k, stream) /\ k + Len(pages) = Len(stream)
      /\ pages \in Seq(Items)
      /\ \A i \in 1 .. Len(pages) : pages[i] = stream[k + i]
  BY Zenon DEF Rest, Piece, Items
<1>3. /\ stream \in Seq(Items)
      /\ Len(stream) = IF ended THEN Len(s) + 1 ELSE Len(s)
      /\ ended => stream[Len(s) + 1] = End
  BY Zenon, StreamFacts
<1>4. /\ w \in Seq(Pages)
      /\ k + Len(w) <= Len(s)
      /\ \A i \in 1 .. Len(w) : w[i] = s[k + i] /\ w[i] = pages[i]
      /\ IF \E i \in DOMAIN pages : pages[i] = End
         THEN /\ ended
              /\ Len(pages) = Len(w) + 1
              /\ pages[Len(pages)] = End
              /\ k + Len(w) = Len(s)
         ELSE Len(pages) = Len(w)
  BY SMTT(30), <1>1, <1>2, PieceWithoutEnd
<1>5. /\ q \in Seq(Items) /\ Len(q) = k
      /\ \A i \in 1 .. k : q[i] = r[i]
  BY <1>1
<1> HIDE DEF w, stream, q
<1>6. Len(w) \in Nat /\ Len(pages) \in Nat /\ DOMAIN pages = 1 .. Len(pages)
  BY <1>2, <1>4
<1>7. ASSUME ended PROVE k + Len(w) = Len(s) /\ pages = w \o <<End>>
  <2>1. Len(pages) \in DOMAIN pages /\ pages[Len(pages)] = End
    <3>1. k + Len(pages) = Len(s) + 1
      BY Zenon, <1>2, <1>3, <1>7
    <3>2. Len(pages) \in 1 .. Len(pages)
      BY <1>1, <1>6, <3>1
    <3>3. pages[Len(pages)] = stream[Len(s) + 1]
      BY Zenon, <1>2, <3>1, <3>2
    <3> QED
      BY Zenon, <1>3, <1>6, <1>7, <3>2, <3>3
  <2>2. Len(pages) = Len(w) + 1 /\ k + Len(w) = Len(s)
    BY Zenon, <1>4, <2>1
  <2>3. pages = w \o <<End>>
    <3>1. /\ w \o <<End>> \in Seq(Items) /\ Len(w \o <<End>>) = Len(w) + 1
          /\ \A i \in 1 .. Len(w) : (w \o <<End>>)[i] = w[i]
          /\ (w \o <<End>>)[Len(w) + 1] = End
      BY <1>4 DEF Items
    <3>2. \A i \in 1 .. Len(w) + 1 : pages[i] = (w \o <<End>>)[i]
      BY SMTT(30), <1>4, <1>6, <2>1, <2>2, <3>1
    <3> HIDE <1>7
    <3>3. pages = [i \in 1 .. Len(w) + 1 |-> pages[i]]
      BY <1>2, <2>2
    <3>4. w \o <<End>> = [i \in 1 .. Len(w) + 1 |-> (w \o <<End>>)[i]]
      BY <3>1
    <3> QED
      BY Zenon, <3>2, <3>3, <3>4
  <2> QED
    BY Zenon, <2>2, <2>3
<1>8. ASSUME ~ended PROVE k + Len(w) = Len(s) /\ pages = w \o <<>>
  <2>1. Len(pages) = Len(w) /\ k + Len(pages) = Len(s)
    BY Zenon, <1>2, <1>3, <1>4, <1>8
  <2>2. pages = w
    <3>1. pages = [i \in 1 .. Len(w) |-> pages[i]]
      BY <1>2, <2>1
    <3>2. w = [i \in 1 .. Len(w) |-> w[i]]
      BY <1>4
    <3> QED
      BY Zenon, <1>4, <3>1, <3>2
  <2>3. w \o <<>> = w
    BY <1>4
  <2> QED
    BY Zenon, <2>1, <2>2, <2>3
<1>9. k + Len(w) = Len(s)
  BY Zenon, <1>7, <1>8
<1>10. s = q \o w
  <2>1. Piece(q, 0, s)
    <3>1. \A i \in 1 .. Len(q) : q[i] = s[0 + i]
      BY <1>1, <1>5
    <3> QED
      BY <1>1, <1>5, <3>1 DEF Piece, Items
  <2>2. q \o w = SubSeq(s, 1, Len(q) + Len(w))
    BY ZenonT(30), <1>4, <1>5, <2>1, PieceConcat
  <2>3. q \o w = SubSeq(s, 1, Len(s))
    BY Zenon, <1>5, <1>9, <2>2
  <2> QED
    BY <2>3
<1> QED
  BY Zenon, <1>7, <1>8, <1>10 DEF w, q, Whole

\* Nothing is lost, repeated or reordered between a producer and a consumer,
\* whatever calls overtake each other.
THEOREM NoPageLost == Spec => []NothingLost
<1>1. IInv => NothingLost
  <2> SUFFICES ASSUME IInv, NEW d \in Live
               PROVE  LET pages == WithoutEnd(data[d])
                      IN /\ sequence[d] <= Len(received[d])
                         /\ sent[d] = SubSeq(received[d], 1, sequence[d]) \o pages
                         /\ data[d] = pages \o (IF atEnd THEN <<End>> ELSE <<>>)
    BY Zenon DEF NothingLost
  <2>1. d \in Destinations /\ atEnd \in BOOLEAN
    <3>1. numBuffers \in Destinations
      BY Zenon DEF IInv, BuffersOK
    <3>2. d \in Destinations
      BY <3>1, OutputAssumption DEF Live, Destinations
    <3> QED
      BY Zenon, <3>2 DEF IInv, DriversOK
  <2>2. /\ sent[d] \in Seq(Pages)
        /\ Piece(received[d], 0, sent[d])
        /\ sequence[d] \in 0 .. Len(received[d])
        /\ Rest(data[d], sequence[d], Stream(sent[d], atEnd))
    BY Zenon, <2>1 DEF IInv, StreamsOK, StreamOK
  <2>3. sequence[d] <= Len(received[d])
    BY SMTT(30), <2>2 DEF Piece
  <2>4. Whole(sent[d], atEnd, received[d], sequence[d], data[d])
    BY Zenon, <2>1, <2>2, StreamWhole
  <2> QED
    BY Zenon, <2>3, <2>4 DEF Whole
<1> QED
  BY <1>1, OutputInvariant, PTL

-----------------------------------------------------------------------------
(* The refinement of PageChannel *)

\* A page that a driver enqueues is sent to the destinations it is meant for.
LEMMA EnqueueSends ==
  ASSUME IInv, NEW w \in Drivers, NEW d \in Destinations, NEW wait \in BOOLEAN,
         Enqueue(w, d, wait)
  PROVE  \E p \in Pages, D \in SUBSET Destinations : Channel!Send(D, p)
<1> DEFINE p == produced + 1
           D == IF Broadcast THEN Destinations ELSE {d}
<1>1. /\ produced < MaxPages /\ driverState[w] # "done"
      /\ sent' = [e \in Destinations |->
                    IF Broadcast \/ e = d THEN Append(sent[e], p) ELSE sent[e]]
      /\ UNCHANGED <<received, atEnd, sourceAtEnd>>
  BY Zenon DEF Enqueue, endVars, sourceVars
<1>2. p \in Pages
  <2>1. produced \in 0 .. MaxPages
    BY Zenon DEF IInv, StreamsOK
  <2> QED
    BY <1>1, <2>1, OutputAssumption DEF Pages
<1>3. ~atEnd
  BY Zenon, <1>1, NextFinished DEF IInv
<1>4. D \in SUBSET Destinations
  BY Zenon
<1>5. \A e \in Destinations : (Broadcast \/ e = d) <=> e \in D
  BY Zenon
<1> HIDE DEF p, D
<1>6. sent' = [e \in Destinations |->
                 IF e \in D THEN Append(sent[e], p) ELSE sent[e]]
  BY Zenon, <1>1, <1>5
<1>7. Channel!Send(D, p)
  BY Zenon, <1>1, <1>3, <1>6 DEF Channel!Send
<1> QED
  BY Zenon, <1>2, <1>4, <1>7

\* The channel is finished by the last of the drivers.
LEMMA DoneFinishes ==
  ASSUME IInv, NEW n \in Nat, n <= numDrivers, CheckIfDone(n), ~atEnd,
         UNCHANGED <<sent, received, sourceAtEnd>>
  PROVE  Channel!Finish \/ UNCHANGED Channel!channelVars
<1>1. numDrivers \in Nat
  BY Zenon DEF IInv, DriversOK
<1>2. atEnd' = (n = numDrivers)
  BY Zenon, <1>1, CheckIfDoneSets
<1>3. CASE n = numDrivers
  <2>1. atEnd' = TRUE
    BY Zenon, <1>2, <1>3
  <2> QED
    BY Zenon, <2>1 DEF Channel!Finish
<1>4. CASE n # numDrivers
  <2>1. atEnd \in BOOLEAN
    BY Zenon DEF IInv, DriversOK
  <2>2. atEnd' = FALSE /\ atEnd = FALSE
    BY Zenon, <1>2, <1>4, <2>1
  <2> QED
    BY Zenon, <2>2 DEF Channel!channelVars
<1> QED
  BY Zenon, <1>3, <1>4

\* A callback of a source is the receipt of the next pages.
LEMMA DeliverReceives ==
  ASSUME IInv, NEW d \in Destinations, Deliver(d)
  PROVE  Channel!Receive(d)
<1>1. DriversOK /\ StreamsOK /\ RequestsOK
  BY Zenon DEF IInv
<1>2. PICK w \in Seq(Pages), end \in BOOLEAN :
        /\ d \in DOMAIN delivery
        /\ delivery' = [e \in DOMAIN delivery \ {d} |-> delivery[e]]
        /\ received' = [received EXCEPT ![d] = @ \o w]
        /\ sourceSequence' = [sourceSequence EXCEPT
                                ![d] = sourceSequence[d] + Len(w)]
        /\ Len(received[d]) + Len(w) <= Len(sent[d])
        /\ \A i \in 1 .. Len(w) : w[i] = sent[d][Len(received[d]) + i]
        /\ end => /\ atEnd
                  /\ Len(received[d]) + Len(w) = Len(sent[d])
                  /\ sourceAtEnd' = sourceAtEnd \cup {d}
                  /\ deletes' = deletes \cup {<<d, "end">>}
                  /\ acks' = acks
        /\ ~end => /\ sourceAtEnd' = sourceAtEnd
                   /\ deletes' = deletes
                   /\ acks' = acks \cup {<<d, sourceSequence[d] + Len(w)>>}
  BY Zenon, <1>1, DeliverSets
<1>3. d \notin sourceAtEnd
  BY Zenon, <1>1, <1>2 DEF RequestsOK
<1>4. UNCHANGED <<sent, atEnd>>
  BY Zenon, DeliverKeeps
<1>5. sent[d] \in Seq(Pages) /\ Piece(received[d], 0, sent[d])
  BY Zenon, <1>1 DEF StreamsOK, StreamOK
<1> DEFINE n == Len(received[d]) + Len(w)
<1>6. n \in Len(received[d]) .. Len(sent[d])
  <2>1. Len(received[d]) \in Nat /\ Len(sent[d]) \in Nat /\ Len(w) \in Nat
    BY <1>5 DEF Piece
  <2> QED
    BY SMTT(30), <1>2, <2>1
<1>7. received[d] \o w = SubSeq(sent[d], 1, n)
  BY Zenon, <1>2, <1>5, PieceConcat
<1> HIDE DEF n
<1>8. received' = [received EXCEPT ![d] = SubSeq(sent[d], 1, n)]
  BY Zenon, <1>2, <1>7
<1>9. \/ sourceAtEnd' = sourceAtEnd
      \/ atEnd /\ n = Len(sent[d]) /\ sourceAtEnd' = sourceAtEnd \cup {d}
  BY Zenon, <1>2 DEF n
<1> QED
  BY Zenon, <1>3, <1>4, <1>6, <1>8, <1>9 DEF Channel!Receive

\* Each destination gets the pages sent to it in order, once each, and then the
\* end: PartitionedOutputBuffer and its sources implement PageChannel.
THEOREM BufferIsChannel == Spec => ImplementsChannel
<1>1. Init => Channel!Init
  BY Zenon DEF Init, Channel!Init
<1>2. IInv /\ [Next]_vars => [Channel!Next]_(Channel!channelVars)
  <2> SUFFICES ASSUME IInv, [Next]_vars
               PROVE  Channel!Next \/ UNCHANGED Channel!channelVars
    BY Zenon
  <2>1. DriversOK /\ BuffersOK /\ StreamsOK
    BY Zenon DEF IInv
  <2>2. ASSUME NEW w \in Drivers, NEW d \in Destinations, NEW wait \in BOOLEAN,
               Enqueue(w, d, wait)
        PROVE  Channel!Next
    BY Zenon, <2>2, EnqueueSends DEF Channel!Next
  <2>3. ASSUME NEW w \in Drivers, NoMoreData(w)
        PROVE  Channel!Next \/ UNCHANGED Channel!channelVars
    <3>1. /\ driverState[w] # "done" /\ CheckIfDone(numFinished + 1)
          /\ UNCHANGED <<sent, received, sourceAtEnd>>
      BY Zenon, <2>3 DEF NoMoreData, sourceVars
    <3>2. ~atEnd /\ numFinished + 1 \in Nat /\ numFinished + 1 <= numDrivers
      BY Zenon, <2>1, <3>1, NextFinished
    <3> QED
      BY Zenon, <3>1, <3>2, DoneFinishes DEF Channel!Next
  <2>4. ASSUME NoMoreDrivers
        PROVE  Channel!Next \/ UNCHANGED Channel!channelVars
    <3>1. /\ noMoreDriversCall /\ CheckIfDone(numFinished)
          /\ UNCHANGED <<sent, received, sourceAtEnd>>
      BY Zenon, <2>4 DEF NoMoreDrivers, sourceVars, driverVars
    <3>2. ~atEnd /\ numFinished \in Nat /\ numFinished <= numDrivers
      BY Zenon, <2>1, <3>1, NextFinished
    <3> QED
      BY Zenon, <3>1, <3>2, DoneFinishes DEF Channel!Next
  <2>5. ASSUME NEW d \in Destinations, Deliver(d) PROVE Channel!Next
    BY Zenon, <2>5, DeliverReceives DEF Channel!Next
  <2>6. ASSUME UNCHANGED <<sent, received, atEnd, sourceAtEnd>>
        PROVE  UNCHANGED Channel!channelVars
    BY Zenon, <2>6 DEF Channel!channelVars
  <2>7. ASSUME NEW d \in Destinations, GetData(d)
        PROVE  UNCHANGED Channel!channelVars
    BY Zenon, <2>6, <2>7, GetDataKeeps
  <2>8. ASSUME NEW d \in Destinations, NEW s \in 0 .. MaxPages, Acknowledge(d, s)
        PROVE  UNCHANGED Channel!channelVars
    BY Zenon, <2>1, <2>6, <2>8, AcknowledgeCases
  <2>9. ASSUME NEW d \in Destinations, NEW why \in {"end", "close"},
               DeleteResults(d, why)
        PROVE  UNCHANGED Channel!channelVars
    BY Zenon, <2>1, <2>6, <2>9, DeleteCases
  <2>10. ASSUME \/ UpdateNumDrivers \/ RemoveTask
                \/ \E n \in Destinations, noMore \in BOOLEAN :
                     UpdateBroadcastOutputBuffers(n, noMore)
                \/ \E r \in releasing : Release(r)
                \/ \E d \in Destinations : Request(d) \/ Close(d)
                \/ UNCHANGED vars
         PROVE  UNCHANGED Channel!channelVars
    <3>1. UNCHANGED <<sent, received, atEnd, sourceAtEnd>>
      BY Zenon, <2>10
      DEF UpdateNumDrivers, RemoveTask, UpdateBroadcastOutputBuffers, Release,
          Request, Close, endVars, driverVars, sourceVars, vars
    <3> QED
      BY Zenon, <2>6, <3>1
  <2> QED
    BY Zenon, <2>2, <2>3, <2>4, <2>5, <2>7, <2>8, <2>9, <2>10 DEF Next
<1> QED
  BY <1>1, <1>2, OutputInvariant, PTL
  DEF Spec, ImplementsChannel, Channel!ChannelSpec

=============================================================================
