------------------------ MODULE OutputBufferStreams ------------------------
(***************************************************************************)
(* Lemmas about OutputBuffer: what its operations do to the stream of      *)
(* pages of each destination, and that every step preserves the parts of   *)
(* IInv about drivers, buffers, the end of the output and the streams.     *)
(***************************************************************************)
EXTENDS OutputBuffer, FiniteSetTheorems, TLAPS

-----------------------------------------------------------------------------
(* Pieces of a stream *)

Items == Pages \cup {End}

\* A page that enters a buffer follows what the buffer holds.
LEMMA RestAppend ==
  ASSUME NEW pages, NEW k \in Nat, NEW stream \in Seq(Items), NEW p \in Items,
         Rest(pages, k, stream)
  PROVE  Rest(Append(pages, p), k, Append(stream, p))
  BY SMTT(30) DEF Rest, Piece, Items

\* An answer under way stays right while the stream grows.
LEMMA PieceAppend ==
  ASSUME NEW pages, NEW k \in Nat, NEW stream \in Seq(Items), NEW p \in Items,
         Piece(pages, k, stream)
  PROVE  Piece(pages, k, Append(stream, p))
  BY DEF Piece, Items

\* Acknowledging n pages drops them and no other.
LEMMA RestDrop ==
  ASSUME NEW pages, NEW k \in Nat, NEW stream \in Seq(Items), NEW n \in Nat,
         Rest(pages, k, stream), k + n <= Len(stream)
  PROVE  /\ n <= Len(pages)
         /\ Rest(SubSeq(pages, n + 1, Len(pages)), k + n, stream)
<1> DEFINE rest == SubSeq(pages, n + 1, Len(pages))
<1>1. pages \in Seq(Items) /\ Len(pages) = Len(stream) - k
  BY DEF Rest, Piece, Items
<1>2. n <= Len(pages)
  BY <1>1
<1>3. rest \in Seq(Items) /\ Len(rest) = Len(pages) - n
  BY <1>1, <1>2
<1>4. \A i \in 1 .. Len(rest) : rest[i] = pages[n + i]
  BY <1>1, <1>2, <1>3
<1>5. \A j \in 1 .. Len(pages) : pages[j] = stream[k + j]
  BY Zenon DEF Rest, Piece
<1> HIDE DEF rest
<1>6. ASSUME NEW i \in 1 .. Len(rest)
      PROVE  rest[i] = stream[(k + n) + i]
  <2>1. n + i \in 1 .. Len(pages) /\ k + (n + i) = (k + n) + i
    BY <1>1, <1>2, <1>3
  <2> QED
    BY Zenon, <2>1, <1>4, <1>5
<1>7. Piece(rest, k + n, stream)
  BY <1>1, <1>2, <1>3, <1>6 DEF Piece, Items
<1>8. Rest(rest, k + n, stream)
  BY <1>1, <1>2, <1>3, <1>7 DEF Rest
<1> QED
  BY Zenon, <1>2, <1>8 DEF rest

\* DestinationBuffer::getData answers with the first pages of the buffer.
LEMMA PieceFetched ==
  ASSUME NEW pages, NEW k \in Nat, NEW stream \in Seq(Items),
         Rest(pages, k, stream)
  PROVE  Piece(Fetched(pages, 0), k, stream)
<1> DEFINE end == FetchEnd(pages, 0)
<1>1. pages \in Seq(Items) /\ Len(pages) = Len(stream) - k
  BY DEF Rest, Piece, Items
<1>2. end \in 0 .. Len(pages)
  BY <1>1, OutputAssumption DEF FetchEnd
<1> HIDE DEF end
<1>3. /\ SubSeq(pages, 1, end) \in Seq(Items)
      /\ Len(SubSeq(pages, 1, end)) = end
      /\ \A i \in 1 .. end : SubSeq(pages, 1, end)[i] = pages[i]
  BY <1>1, <1>2
<1>4. Fetched(pages, 0) = SubSeq(pages, 1, end)
  BY DEF Fetched, end
<1> QED
  BY <1>1, <1>2, <1>3, <1>4 DEF Rest, Piece, Items

\* An empty answer is right at any place.
LEMMA PieceEmpty ==
  ASSUME NEW k \in Nat, NEW stream \in Seq(Items), k <= Len(stream)
  PROVE  Piece(Fetched(<<>>, 0), k, stream)
<1>1. FetchEnd(<<>>, 0) = 0
  BY OutputAssumption DEF FetchEnd
<1>2. Fetched(<<>>, 0) = <<>>
  BY <1>1 DEF Fetched
<1>3. <<>> \in Seq(Items) /\ Len(<<>>) = 0
  OBVIOUS
<1>4. Piece(<<>>, k, stream)
  BY <1>3 DEF Piece, Items
<1> QED
  BY Zenon, <1>2, <1>4

\* A new buffer gets the stream from its start.
LEMMA RestStart ==
  ASSUME NEW stream \in Seq(Items)
  PROVE  Rest(stream, 0, stream)
  BY DEF Rest, Piece, Items

\* What is left of a sequence whose end markers come last.
LEMMA WithoutEndPrefix ==
  ASSUME NEW pages \in Seq(Items), NEW n \in 0 .. Len(pages),
         \A i \in 1 .. n : pages[i] # End,
         \A i \in n + 1 .. Len(pages) : pages[i] = End
  PROVE  /\ WithoutEnd(pages) \in Seq(Pages)
         /\ Len(WithoutEnd(pages)) = n
         /\ \A i \in 1 .. n : WithoutEnd(pages)[i] = pages[i]
<1> DEFINE kept == {i \in DOMAIN pages : pages[i] # End}
           upTo(i) == {j \in kept : j <= i}
           at(k) == CHOOSE i \in kept : Cardinality(upTo(i)) = k
<1>1. kept = 1 .. n
  OBVIOUS
<1>2. WithoutEnd(pages) = [k \in 1 .. Cardinality(kept) |-> pages[at(k)]]
  BY Zenon DEF WithoutEnd
<1>3. Cardinality(kept) = n
  <2>1. Cardinality(1 .. n) = n
    BY FS_Interval
  <2> QED
    BY Zenon, <2>1, <1>1
<1> HIDE DEF kept
<1>4. ASSUME NEW i \in kept PROVE Cardinality(upTo(i)) = i
  <2>1. upTo(i) = 1 .. i /\ i \in Nat
    BY <1>1
  <2>2. Cardinality(1 .. i) = i
    BY <2>1, FS_Interval
  <2> QED
    BY Zenon, <2>1, <2>2
<1> HIDE DEF upTo
<1>5. ASSUME NEW k \in 1 .. n PROVE at(k) = k
  <2>1. k \in kept /\ Cardinality(upTo(k)) = k
    BY Zenon, <1>1, <1>4
  <2>2. at(k) \in kept /\ Cardinality(upTo(at(k))) = k
    BY Zenon, <2>1
  <2> QED
    BY Zenon, <2>2, <1>4
<1> HIDE DEF at
<1>7. WithoutEnd(pages) = [k \in 1 .. n |-> pages[k]]
  BY Zenon, <1>2, <1>3, <1>5
<1>6. \A k \in 1 .. n : pages[k] \in Pages
  BY DEF Items
<1> QED
  BY <1>6, <1>7

\* A stream is the pages sent and, at the end, a marker after them.
LEMMA StreamFacts ==
  ASSUME NEW s \in Seq(Pages), NEW ended \in BOOLEAN
  PROVE  /\ Stream(s, ended) \in Seq(Items)
         /\ Len(Stream(s, ended)) = IF ended THEN Len(s) + 1 ELSE Len(s)
         /\ \A i \in 1 .. Len(s) : Stream(s, ended)[i] = s[i] /\ s[i] # End
         /\ ~ended => Stream(s, ended) = s
         /\ ended => /\ Stream(s, ended)[Len(s) + 1] = End
                     /\ Stream(s, ended) = Append(s, End)
<1>1. s \in Seq(Items) /\ \A i \in 1 .. Len(s) : s[i] # End
  BY SMTT(30), OutputAssumption DEF Items, Pages, End
<1>2. CASE ended
  <2>1. Stream(s, ended) = s \o <<End>>
    BY Zenon, <1>2 DEF Stream
  <2>2. s \o <<End>> = Append(s, End)
    OBVIOUS
  <2>3. End \in Items
    BY Zenon DEF Items
  <2>4. /\ Append(s, End) \in Seq(Items)
        /\ Len(Append(s, End)) = Len(s) + 1
        /\ \A i \in 1 .. Len(s) : Append(s, End)[i] = s[i]
        /\ Append(s, End)[Len(s) + 1] = End
    BY <1>1, <2>3
  <2> QED
    BY Zenon, <1>1, <1>2, <2>1, <2>2, <2>4
<1>3. CASE ~ended
  <2>1. Stream(s, ended) = s \o <<>>
    BY Zenon, <1>3 DEF Stream
  <2>2. s \o <<>> = s
    OBVIOUS
  <2> QED
    BY Zenon, <1>1, <1>3, <2>1, <2>2
<1> QED
  BY Zenon, <1>2, <1>3

\* A piece of a stream, without the end marker, is a piece of what was sent;
\* with it, the piece goes to the end.
LEMMA PieceWithoutEnd ==
  ASSUME NEW s \in Seq(Pages), NEW ended \in BOOLEAN, NEW k \in 0 .. Len(s),
         NEW pages, Piece(pages, k, Stream(s, ended))
  PROVE  /\ WithoutEnd(pages) \in Seq(Pages)
         /\ k + Len(WithoutEnd(pages)) <= Len(s)
         /\ \A i \in 1 .. Len(WithoutEnd(pages)) :
              /\ WithoutEnd(pages)[i] = s[k + i]
              /\ WithoutEnd(pages)[i] = pages[i]
         /\ IF \E i \in DOMAIN pages : pages[i] = End
            THEN /\ ended
                 /\ Len(pages) = Len(WithoutEnd(pages)) + 1
                 /\ pages[Len(pages)] = End
                 /\ k + Len(WithoutEnd(pages)) = Len(s)
            ELSE Len(pages) = Len(WithoutEnd(pages))
<1> DEFINE n == IF k + Len(pages) <= Len(s) THEN Len(pages) ELSE Len(s) - k
<1>1. pages \in Seq(Items)
  BY Zenon DEF Piece, Items
<1>2. /\ k + Len(pages) <= IF ended THEN Len(s) + 1 ELSE Len(s)
      /\ \A i \in 1 .. Len(pages) : pages[i] = Stream(s, ended)[k + i]
  BY Zenon, StreamFacts DEF Piece
<1>3. n \in 0 .. Len(pages)
  BY <1>1
<1>4. ASSUME NEW i \in 1 .. n PROVE pages[i] = s[k + i] /\ pages[i] # End
  <2>1. i \in 1 .. Len(pages) /\ k + i \in 1 .. Len(s)
    BY <1>1, <1>3
  <2> QED
    BY ZenonT(30), <1>2, <2>1, StreamFacts
<1>5. ASSUME NEW i \in n + 1 .. Len(pages)
      PROVE  /\ pages[i] = End /\ ended
             /\ i = Len(pages) /\ Len(pages) = n + 1 /\ n = Len(s) - k
  <2>1. /\ k + Len(pages) > Len(s) /\ n = Len(s) - k
        /\ ended /\ i = Len(pages) /\ k + i = Len(s) + 1
        /\ i \in 1 .. Len(pages) /\ Len(pages) = n + 1
    BY <1>1, <1>2, <1>3
  <2> HIDE DEF n
  <2>2. pages[i] = Stream(s, ended)[k + i]
    BY Zenon, <1>2, <2>1
  <2>3. Stream(s, ended)[Len(s) + 1] = End
    BY Zenon, <2>1, StreamFacts
  <2>4. pages[i] = End
    BY Zenon, <2>1, <2>2, <2>3
  <2> QED
    BY Zenon, <2>1, <2>4
<1> HIDE DEF n
<1>6. /\ WithoutEnd(pages) \in Seq(Pages)
      /\ Len(WithoutEnd(pages)) = n
      /\ \A i \in 1 .. n : WithoutEnd(pages)[i] = pages[i]
  BY Zenon, <1>1, <1>3, <1>4, <1>5, WithoutEndPrefix
<1>7. k + n <= Len(s)
  BY <1>1 DEF n
<1>8. CASE \E i \in DOMAIN pages : pages[i] = End
  <2>1. PICK i \in 1 .. Len(pages) : pages[i] = End
    BY <1>1, <1>8
  <2>2. i \in n + 1 .. Len(pages)
    BY <1>1, <1>3, <1>4, <2>1
  <2> QED
    BY <1>4, <1>5, <1>6, <1>7, <1>8, <2>2
<1>9. CASE ~ \E i \in DOMAIN pages : pages[i] = End
  <2>1. \A i \in 1 .. Len(pages) : pages[i] # End
    BY <1>1, <1>9
  <2>2. n = Len(pages)
    BY <1>1, <1>3, <1>5, <2>1
  <2> QED
    BY Zenon, <1>4, <1>6, <1>7, <1>9, <2>2
<1> QED
  BY Zenon, <1>8, <1>9

\* A source that had the first pages sent has the next ones too after it got
\* an answer.
LEMMA PieceConcat ==
  ASSUME NEW s \in Seq(Pages), NEW r, NEW w \in Seq(Pages),
         Piece(r, 0, s), Len(r) + Len(w) <= Len(s),
         \A i \in 1 .. Len(w) : w[i] = s[Len(r) + i]
  PROVE  /\ Piece(r \o w, 0, s)
         /\ Len(r \o w) = Len(r) + Len(w)
         /\ r \o w = SubSeq(s, 1, Len(r) + Len(w))
<1>1. r \in Seq(Items) /\ w \in Seq(Items) /\ Len(r) \in Nat /\ Len(w) \in Nat
  BY DEF Piece, Items
<1>2. /\ r \o w \in Seq(Items)
      /\ Len(r \o w) = Len(r) + Len(w)
      /\ \A i \in 1 .. Len(r) + Len(w) :
           (r \o w)[i] = IF i <= Len(r) THEN r[i] ELSE w[i - Len(r)]
  BY <1>1
<1>3. ASSUME NEW i \in 1 .. Len(r) + Len(w) PROVE (r \o w)[i] = s[i]
  <2>1. CASE i <= Len(r)
    BY <1>1, <1>2, <2>1 DEF Piece
  <2>2. CASE i > Len(r)
    <3>1. i - Len(r) \in 1 .. Len(w) /\ Len(r) + (i - Len(r)) = i
      BY <1>1, <2>2
    <3> QED
      BY <1>1, <1>2, <2>2, <3>1
  <2> QED
    BY <1>1, <2>1, <2>2
<1>4. Piece(r \o w, 0, s)
  BY <1>1, <1>2, <1>3 DEF Piece, Items
<1>5. r \o w = SubSeq(s, 1, Len(r) + Len(w))
  <2> DEFINE t == SubSeq(s, 1, Len(r) + Len(w))
             u == r \o w
  <2>1. /\ t \in Seq(Pages) /\ Len(t) = Len(r) + Len(w)
        /\ \A i \in 1 .. Len(r) + Len(w) : t[i] = s[i]
    BY <1>1
  <2>2. /\ u \in Seq(Items) /\ Len(u) = Len(r) + Len(w)
        /\ \A i \in 1 .. Len(r) + Len(w) : u[i] = s[i]
    BY Zenon, <1>2, <1>3
  <2> HIDE DEF t, u
  <2>3. t \in Seq(Items)
    BY <2>1 DEF Items
  <2>4. /\ u = [i \in 1 .. Len(u) |-> u[i]]
        /\ t = [i \in 1 .. Len(t) |-> t[i]]
    BY <2>2, <2>3
  <2>5. u = t
    BY Zenon, <2>1, <2>2, <2>4
  <2> QED
    BY Zenon, <2>5 DEF t, u
<1> QED
  BY Zenon, <1>2, <1>4, <1>5

-----------------------------------------------------------------------------
(* The drivers *)

\* A driver that is not done keeps the count below the number of drivers, so
\* the end is not announced; only a full count means that all are done.
LEMMA DoneCount ==
  ASSUME DriversOK
  PROVE  /\ numFinished \in Nat
         /\ numFinished <= Cardinality(Drivers)
         /\ Cardinality(Drivers) \in Nat
         /\ \A w \in Drivers : driverState[w] # "done" =>
              /\ numFinished < Cardinality(Drivers)
              /\ ~atEnd /\ ~noMoreDriversCall
<1> DEFINE done == {w \in Drivers : driverState[w] = "done"}
<1>1. IsFiniteSet(Drivers)
  BY Zenon, OutputAssumption
<1>2. done \subseteq Drivers
  BY Zenon
<1>3. numFinished = Cardinality(done)
  BY Zenon DEF DriversOK
<1>4. \A w \in Drivers : driverState[w] # "done" => done # Drivers
  BY Zenon
<1> HIDE DEF done
<1>5. /\ IsFiniteSet(done)
      /\ Cardinality(done) <= Cardinality(Drivers)
      /\ Cardinality(done) = Cardinality(Drivers) => Drivers = done
  BY Zenon, <1>1, <1>2, FS_Subset
<1>6. Cardinality(done) \in Nat /\ Cardinality(Drivers) \in Nat
  BY Zenon, <1>1, <1>5, FS_CardinalityType
<1>7. ASSUME NEW w \in Drivers, driverState[w] # "done"
      PROVE  numFinished < Cardinality(Drivers) /\ ~atEnd /\ ~noMoreDriversCall
  <2>1. numFinished < Cardinality(Drivers)
    BY <1>3, <1>4, <1>5, <1>6, <1>7
  <2> QED
    BY <2>1, <1>3, <1>6 DEF DriversOK
<1> QED
  BY Zenon, <1>3, <1>5, <1>6, <1>7

\* numFinished_ after the next driver is done.
LEMMA NextFinished ==
  ASSUME DriversOK
  PROVE  /\ numFinished \in Nat /\ numFinished <= numDrivers
         /\ atEnd \in BOOLEAN
         /\ noMoreDriversCall => ~atEnd
         /\ \A w \in Drivers : driverState[w] # "done" =>
              ~atEnd /\ numFinished + 1 \in Nat /\ numFinished + 1 <= numDrivers
<1>1. /\ numFinished \in Nat
      /\ numFinished <= Cardinality(Drivers)
      /\ Cardinality(Drivers) \in Nat
      /\ \A w \in Drivers : driverState[w] # "done" =>
           numFinished < Cardinality(Drivers) /\ ~atEnd
  BY Zenon, DoneCount
<1>2. /\ numDrivers \in Nat /\ numDrivers >= Cardinality(Drivers)
      /\ atEnd \in BOOLEAN
      /\ noMoreDriversCall => ~atEnd
  BY Zenon DEF DriversOK
<1>3. numFinished <= numDrivers
  BY <1>1, <1>2
<1>4. ASSUME NEW w \in Drivers, driverState[w] # "done"
      PROVE  ~atEnd /\ numFinished + 1 \in Nat /\ numFinished + 1 <= numDrivers
  <2>1. numFinished < Cardinality(Drivers) /\ ~atEnd
    BY Zenon, <1>1, <1>4
  <2> QED
    BY <1>1, <1>2, <2>1
<1> QED
  BY Zenon, <1>1, <1>2, <1>3, <1>4

\* What a thread leaves behind when it has left the mutex: at most one new
\* entry of releasing, with the drivers that it took from promises_.
LEMMA AckReleases ==
  ASSUME NEW by, NEW freed, NEW dat, NEW bc, NEW isFinished,
         UpdateAfterAcknowledge(by, freed, dat, bc, isFinished)
  PROVE  /\ promises' \in {promises, {}}
         /\ releasing \subseteq releasing'
         /\ \E new : \A q \in releasing' \ releasing :
              /\ q = new
              /\ q.freed = freed
              /\ q.resumed = promises \ promises'
              /\ q.isFinished = isFinished
<1> DEFINE bytes == TotalFreed(freed, dat, bc)
           resumed == IF bytes > 0 /\ Resumes(totalSize - bytes) THEN promises
                      ELSE {}
           new == [by |-> by, freed |-> freed, resumed |-> resumed,
                   isFinished |-> isFinished]
<1>1. /\ promises' = promises \ resumed
      /\ releasing' = IF freed = {} /\ resumed = {} /\ ~isFinished
                      THEN releasing ELSE releasing \cup {new}
  BY Zenon DEF UpdateAfterAcknowledge
<1>2. resumed \in {promises, {}}
  BY Zenon
<1>3. /\ new.freed = freed /\ new.resumed = resumed
      /\ new.isFinished = isFinished
  BY Zenon
<1> HIDE DEF resumed, new
<1>4. promises \ promises' = resumed
  BY Zenon, <1>1, <1>2
<1>5. \A q \in releasing' \ releasing : q = new
  BY Zenon, <1>1
<1> QED
  BY Zenon, <1>1, <1>2, <1>3, <1>4, <1>5

\* What the drivers do is not changed by an acknowledgement: those that it
\* resumes are blocked until the thread realizes their promises.
LEMMA DriversAck ==
  ASSUME DriversOK,
         UNCHANGED <<driverState, numDrivers, numFinished, atEnd,
                     noMoreDriversCall>>,
         \/ UNCHANGED <<promises, releasing>>
         \/ \E by, freed, dat, bc, isFinished :
              UpdateAfterAcknowledge(by, freed, dat, bc, isFinished)
  PROVE  DriversOK'
<1>1. CASE UNCHANGED <<promises, releasing>>
  BY Zenon, <1>1 DEF DriversOK
<1>2. CASE \E by, freed, dat, bc, isFinished :
             UpdateAfterAcknowledge(by, freed, dat, bc, isFinished)
  <2>1. /\ promises' \in {promises, {}}
        /\ releasing \subseteq releasing'
    BY Zenon, <1>2, AckReleases
  <2>2. PICK new : \A q \in releasing' \ releasing :
                     q = new /\ q.resumed = promises \ promises'
    BY <1>2, AckReleases
  <2>3. \A w \in promises' : w \in Drivers /\ driverState'[w] = "blocked"
    BY Zenon, <2>1 DEF DriversOK
  <2>4. ASSUME NEW r \in releasing', NEW w \in r.resumed
        PROVE  /\ w \in Drivers /\ driverState'[w] = "blocked"
               /\ w \notin promises'
               /\ \A q \in releasing' : w \in q.resumed => q = r
    <3>1. CASE r \in releasing
      BY ZenonT(30), <2>1, <2>2, <2>4, <3>1 DEF DriversOK
    <3>2. CASE r \notin releasing
      <4>1. r = new /\ w \in promises /\ w \notin promises'
        BY Zenon, <2>2, <2>4, <3>2
      <4>2. w \in Drivers /\ driverState'[w] = "blocked"
        BY Zenon, <4>1 DEF DriversOK
      <4>3. \A q \in releasing : w \notin q.resumed
        BY Zenon, <4>1 DEF DriversOK
      <4> QED
        BY Zenon, <4>1, <4>2, <4>3, <2>2
    <3> QED
      BY Zenon, <3>1, <3>2
  <2> QED
    BY Zenon, <2>3, <2>4 DEF DriversOK
<1> QED
  BY Zenon, <1>1, <1>2

\* checkIfDone announces the end exactly when every driver is done.
LEMMA CheckIfDoneSets ==
  ASSUME NEW n \in Nat, n <= numDrivers, numDrivers \in Nat, CheckIfDone(n)
  PROVE  /\ numFinished' = n
         /\ atEnd' = (n = numDrivers)
         /\ failed' = failed
         /\ data' = [d \in Destinations |->
                       IF n = numDrivers /\ d \in Live
                       THEN Enqueued(data[d], End) ELSE data[d]]
         /\ Notify(IF n = numDrivers THEN Live ELSE {}, data')
<1>1. ~(n > numDrivers)
  OBVIOUS
<1> QED
  BY Zenon, <1>1 DEF CheckIfDone

\* Every call and message keeps the count of drivers that have finished.
LEMMA DriversStep ==
  ASSUME DriversOK, [Next]_vars
  PROVE  DriversOK'
<1> DEFINE done == {w \in Drivers : driverState[w] = "done"}
<1>0. /\ numFinished \in Nat /\ numFinished <= Cardinality(Drivers)
      /\ Cardinality(Drivers) \in Nat
      /\ numDrivers \in Nat /\ numDrivers >= Cardinality(Drivers)
  BY Zenon, DoneCount DEF DriversOK
<1>1. ASSUME NEW w \in Drivers, NEW d \in Destinations, NEW wait \in BOOLEAN,
             Enqueue(w, d, wait)
      PROVE  DriversOK'
  <2>1. UNCHANGED <<numDrivers, numFinished, atEnd, noMoreDriversCall, releasing>>
    BY Zenon, <1>1 DEF Enqueue, endVars
  <2>2. \/ UNCHANGED <<driverState, promises>>
        \/ /\ driverState[w] = "produce"
           /\ driverState' = [driverState EXCEPT ![w] = "blocked"]
           /\ promises' = promises \cup {w}
    BY Zenon, <1>1 DEF Enqueue
  <2>3. CASE UNCHANGED <<driverState, promises>>
    BY Zenon, <2>1, <2>3 DEF DriversOK
  <2>4. CASE /\ driverState[w] = "produce"
             /\ driverState' = [driverState EXCEPT ![w] = "blocked"]
             /\ promises' = promises \cup {w}
    <3>1. {v \in Drivers : driverState'[v] = "done"} = done
      BY Zenon, <2>4 DEF DriversOK
    <3>2. driverState' \in [Drivers -> {"produce", "blocked", "done"}]
      BY Zenon, <2>4 DEF DriversOK
    <3>3. \A v \in promises' : v \in Drivers /\ driverState'[v] = "blocked"
      BY <2>4 DEF DriversOK
    <3>4. \A r \in releasing : \A v \in r.resumed : v # w
      BY Zenon, <2>4 DEF DriversOK
    <3>5. \A r \in releasing' : \A v \in r.resumed :
            /\ v \in Drivers /\ driverState'[v] = "blocked"
            /\ v \notin promises'
            /\ \A q \in releasing' : v \in q.resumed => q = r
      BY Zenon, <2>1, <2>4, <3>4 DEF DriversOK
    <3> QED
      BY Zenon, <2>1, <3>1, <3>2, <3>3, <3>5 DEF DriversOK
  <2> QED
    BY Zenon, <2>2, <2>3, <2>4
<1>2. ASSUME NEW w \in Drivers, NoMoreData(w) PROVE DriversOK'
  <2>1. /\ driverState[w] = "produce"
        /\ driverState' = [driverState EXCEPT ![w] = "done"]
        /\ UNCHANGED <<numDrivers, noMoreDriversCall, promises, releasing>>
        /\ CheckIfDone(numFinished + 1)
    BY Zenon, <1>2 DEF NoMoreData, sizeVars
  <2>2. numFinished < Cardinality(Drivers) /\ ~noMoreDriversCall
    BY Zenon, <2>1, DoneCount
  <2>3. numFinished' = numFinished + 1 /\ atEnd' = (numFinished + 1 = numDrivers)
    <3>1. numFinished + 1 \in Nat /\ numFinished + 1 <= numDrivers
      BY <1>0, <2>2
    <3> QED
      BY Zenon, <1>0, <2>1, <3>1, CheckIfDoneSets
  <2>4. {v \in Drivers : driverState'[v] = "done"} = done \cup {w} /\ w \notin done
    BY ZenonT(30), <2>1 DEF DriversOK
  <2>5. IsFiniteSet(done)
    <3>1. done \subseteq Drivers /\ IsFiniteSet(Drivers)
      BY Zenon, OutputAssumption
    <3> HIDE DEF done
    <3> QED
      BY Zenon, <3>1, FS_Subset
  <2>6. numFinished = Cardinality(done)
    BY Zenon DEF DriversOK
  <2> HIDE DEF done
  <2>7. Cardinality(done \cup {w}) = Cardinality(done) + 1
    BY Zenon, <2>4, <2>5, FS_AddElement
  <2>8. numFinished' = Cardinality({v \in Drivers : driverState'[v] = "done"})
    BY Zenon, <2>3, <2>4, <2>6, <2>7
  <2>9. driverState' \in [Drivers -> {"produce", "blocked", "done"}]
    BY Zenon, <2>1 DEF DriversOK
  <2>10. \A v \in promises' : v \in Drivers /\ driverState'[v] = "blocked"
    BY Zenon, <2>1 DEF DriversOK
  <2>11. \A r \in releasing' : \A v \in r.resumed :
            /\ v \in Drivers /\ driverState'[v] = "blocked"
            /\ v \notin promises'
            /\ \A q \in releasing' : v \in q.resumed => q = r
    BY Zenon, <2>1 DEF DriversOK
  <2> QED
    BY Zenon, <2>1, <2>2, <2>3, <2>8, <2>9, <2>10, <2>11 DEF DriversOK
<1>3. CASE UpdateNumDrivers
  <2>1. /\ UNCHANGED <<driverState, numFinished, atEnd, promises, releasing>>
        /\ numDrivers # Cardinality(Drivers)
        /\ numDrivers' = Cardinality(Drivers)
        /\ noMoreDriversCall' = (numFinished = Cardinality(Drivers))
    BY Zenon, <1>3 DEF UpdateNumDrivers, sizeVars, driverVars
  <2>2. ~atEnd
    BY <2>1, <1>0 DEF DriversOK
  <2> QED
    BY <2>1, <2>2, <1>0 DEF DriversOK
<1>4. CASE NoMoreDrivers
  <2>1. /\ UNCHANGED <<driverState, numDrivers, promises, releasing>>
        /\ noMoreDriversCall /\ noMoreDriversCall' = FALSE
        /\ CheckIfDone(numFinished)
    BY Zenon, <1>4 DEF NoMoreDrivers, sizeVars, driverVars
  <2>2. numFinished' = numFinished /\ atEnd' = (numFinished = numDrivers)
    BY SMTT(30), <1>0, <2>1, CheckIfDoneSets
  <2> QED
    BY Zenon, <2>1, <2>2 DEF DriversOK
<1>5. CASE RemoveTask
  <2>1. /\ UNCHANGED <<numDrivers, numFinished, atEnd, noMoreDriversCall, releasing>>
        /\ promises' = {}
        /\ driverState' = [w \in Drivers |-> IF w \in promises THEN "produce"
                                             ELSE driverState[w]]
    BY Zenon, <1>5 DEF RemoveTask, endVars
  <2>2. {v \in Drivers : driverState'[v] = "done"} = done
    BY Zenon, <2>1 DEF DriversOK
  <2>3. driverState' \in [Drivers -> {"produce", "blocked", "done"}]
    BY Zenon, <2>1 DEF DriversOK
  <2>4. \A r \in releasing' : \A v \in r.resumed :
            /\ v \in Drivers /\ driverState'[v] = "blocked"
            /\ \A q \in releasing' : v \in q.resumed => q = r
    BY Zenon, <2>1 DEF DriversOK
  <2> QED
    BY Zenon, <2>1, <2>2, <2>3, <2>4 DEF DriversOK
<1>6. ASSUME NEW r \in releasing, Release(r) PROVE DriversOK'
  <2>1. /\ UNCHANGED <<numDrivers, numFinished, atEnd, noMoreDriversCall, promises>>
        /\ releasing' = releasing \ {r}
        /\ driverState' = [w \in Drivers |-> IF w \in r.resumed THEN "produce"
                                             ELSE driverState[w]]
    BY Zenon, <1>6 DEF Release, endVars, sizeVars
  <2>2. {v \in Drivers : driverState'[v] = "done"} = done
    BY Zenon, <2>1 DEF DriversOK
  <2>3. driverState' \in [Drivers -> {"produce", "blocked", "done"}]
    BY Zenon, <2>1 DEF DriversOK
  <2>4. \A v \in promises' : v \in Drivers /\ driverState'[v] = "blocked"
    BY Zenon, <2>1 DEF DriversOK
  <2>5. \A s \in releasing' : \A v \in s.resumed :
            /\ v \in Drivers /\ driverState'[v] = "blocked"
            /\ v \notin promises'
            /\ \A q \in releasing' : v \in q.resumed => q = s
    BY Zenon, <2>1 DEF DriversOK
  <2> QED
    BY Zenon, <2>1, <2>2, <2>3, <2>4, <2>5 DEF DriversOK
<1>7. ASSUME NEW n \in Destinations, NEW noMore \in BOOLEAN,
             UpdateBroadcastOutputBuffers(n, noMore)
      PROVE  DriversOK'
  BY Zenon, <1>7, DriversAck
  DEF UpdateBroadcastOutputBuffers, endVars, driverVars, sizeVars
<1>8. ASSUME NEW d \in Destinations, GetData(d) PROVE DriversOK'
  BY Zenon, <1>8, DriversAck DEF GetData, endVars, driverVars, sizeVars
<1>9. ASSUME NEW d \in Destinations, NEW s \in 0 .. MaxPages, Acknowledge(d, s)
      PROVE  DriversOK'
  BY Zenon, <1>9, DriversAck DEF Acknowledge, endVars, driverVars, sizeVars
<1>10. ASSUME NEW d \in Destinations, NEW why \in {"end", "close"},
              DeleteResults(d, why)
       PROVE  DriversOK'
  BY Zenon, <1>10, DriversAck DEF DeleteResults, endVars, driverVars, sizeVars
<1>11. ASSUME NEW d \in Destinations, Request(d) \/ Deliver(d) \/ Close(d)
       PROVE  DriversOK'
  BY Zenon, <1>11, DriversAck
  DEF Request, Deliver, Close, endVars, driverVars, sizeVars
<1>12. CASE UNCHANGED vars
  BY Zenon, <1>12, DriversAck DEF vars, endVars, driverVars, sizeVars
<1> QED
  BY Zenon, <1>1, <1>2, <1>3, <1>4, <1>5, <1>6, <1>7, <1>8, <1>9, <1>10, <1>11,
     <1>12
  DEF Next

-----------------------------------------------------------------------------
(* The buffers and the end of the output *)

\* The number of buffers and the destinations deleted, after each step.
LEMMA BuffersStep ==
  ASSUME BuffersOK, [Next]_vars
  PROVE  BuffersOK'
<1> USE DEF bufferVars
<1>1. ASSUME NEW w \in Drivers, NEW d \in Destinations, NEW wait \in BOOLEAN,
             Enqueue(w, d, wait)
      PROVE  BuffersOK'
  BY Zenon, <1>1 DEF Enqueue, BuffersOK
<1>2. ASSUME NEW n \in Destinations, NEW noMore \in BOOLEAN,
             UpdateBroadcastOutputBuffers(n, noMore)
      PROVE  BuffersOK'
  <2>1. /\ Broadcast /\ numBuffers' = n /\ noMoreBroadcastBuffers' = noMore
        /\ deleted' = deleted /\ n >= numBuffers
        /\ noMore => n = NumDestinations
    BY <1>2, OutputAssumption
    DEF UpdateBroadcastOutputBuffers, BuffersOK, Destinations
  <2>2. 1 .. numBuffers \subseteq 1 .. n
    BY <2>1, OutputAssumption DEF BuffersOK, Destinations
  <2> QED
    BY Zenon, <2>1, <2>2 DEF BuffersOK
<1>3. ASSUME NEW d \in Destinations, GetData(d) PROVE BuffersOK'
  <2>1. /\ deleted' = deleted /\ noMoreBroadcastBuffers' = noMoreBroadcastBuffers
        /\ \/ numBuffers' = numBuffers
           \/ Broadcast /\ numBuffers' = d /\ d > numBuffers
    BY Zenon, <1>3 DEF GetData
  <2>2. CASE numBuffers' = numBuffers
    BY Zenon, <2>1, <2>2 DEF BuffersOK
  <2>3. CASE Broadcast /\ numBuffers' = d /\ d > numBuffers
    <3>1. ~noMoreBroadcastBuffers /\ 1 .. numBuffers \subseteq 1 .. d
      BY <2>3, OutputAssumption DEF BuffersOK, Destinations
    <3> QED
      BY Zenon, <2>1, <2>3, <3>1 DEF BuffersOK
  <2> QED
    BY Zenon, <2>1, <2>2, <2>3
<1>4. ASSUME NEW d \in Destinations, NEW why \in {"end", "close"},
             DeleteResults(d, why)
      PROVE  BuffersOK'
  <2>1. /\ UNCHANGED <<numBuffers, noMoreBroadcastBuffers>>
        /\ \/ deleted' = deleted
           \/ deleted' = deleted \cup {d} /\ ~(d > numBuffers)
    BY Zenon, <1>4 DEF DeleteResults
  <2>2. d > numBuffers \/ d \in 1 .. numBuffers
    BY OutputAssumption DEF BuffersOK, Destinations
  <2> QED
    BY Zenon, <2>1, <2>2 DEF BuffersOK
<1>5. ASSUME \/ \E w \in Drivers : NoMoreData(w)
             \/ UpdateNumDrivers \/ NoMoreDrivers \/ RemoveTask
             \/ \E r \in releasing : Release(r)
             \/ \E d \in Destinations, s \in 0 .. MaxPages : Acknowledge(d, s)
             \/ \E d \in Destinations : Request(d) \/ Deliver(d) \/ Close(d)
             \/ UNCHANGED vars
      PROVE  BuffersOK'
  <2>1. UNCHANGED bufferVars
    BY Zenon, <1>5
    DEF NoMoreData, UpdateNumDrivers, NoMoreDrivers, RemoveTask, Release,
        Acknowledge, Request, Deliver, Close, vars
  <2> QED
    BY Zenon, <2>1 DEF BuffersOK
<1> QED
  BY Zenon, <1>1, <1>2, <1>3, <1>4, <1>5 DEF Next

\* The output is finished once, by the deletion or the update that makes it so.
LEMMA FinishStep ==
  ASSUME BuffersOK, FinishOK, [Next]_vars
  PROVE  FinishOK'
<1> USE DEF bufferVars, taskVars
<1> DEFINE finished == IsFinished(numBuffers, deleted, noMoreBroadcastBuffers)
<1>1. ASSUME UNCHANGED <<numBuffers, deleted, noMoreBroadcastBuffers, consumed>>,
             \A q \in releasing' : q.isFinished => q \in releasing
      PROVE  FinishOK'
  <2>1. finished' <=> finished
    BY Zenon, <1>1 DEF IsFinished
  <2> HIDE DEF finished
  <2>2. FinishOK <=>
          /\ consumed \in Nat
          /\ \A r \in releasing : r.isFinished =>
               /\ consumed = 0 /\ finished
               /\ \A q \in releasing : q.isFinished => q = r
          /\ consumed > 0 => consumed = 1 /\ finished
    BY Zenon DEF FinishOK, finished
  <2>3. FinishOK' <=>
          /\ consumed' \in Nat
          /\ \A r \in releasing' : r.isFinished =>
               /\ consumed' = 0 /\ finished'
               /\ \A q \in releasing' : q.isFinished => q = r
          /\ consumed' > 0 => consumed' = 1 /\ finished'
    BY Zenon DEF FinishOK, finished
  <2> QED
    BY Zenon, <1>1, <2>1, <2>2, <2>3
\* The step that finishes the output, if it does: nothing was finished before.
<1>2. ASSUME ~finished, consumed' = consumed, releasing \subseteq releasing',
             NEW isFinished, 
             isFinished => finished',
             \E new : \A q \in releasing' \ releasing :
                        q = new /\ q.isFinished = isFinished
      PROVE  FinishOK'
  <2>1. PICK new : \A q \in releasing' \ releasing :
                     q = new /\ q.isFinished = isFinished
    BY Zenon, <1>2
  <2>2. consumed = 0 /\ \A q \in releasing : ~q.isFinished
    BY <1>2 DEF FinishOK
  <2>3. \A r \in releasing' : r.isFinished => r = new /\ finished'
    BY Zenon, <1>2, <2>1, <2>2
  <2> HIDE DEF finished
  <2>4. FinishOK' <=>
          /\ consumed' \in Nat
          /\ \A r \in releasing' : r.isFinished =>
               /\ consumed' = 0 /\ finished'
               /\ \A q \in releasing' : q.isFinished => q = r
          /\ consumed' > 0 => consumed' = 1 /\ finished'
    BY Zenon DEF FinishOK, finished
  <2>5. consumed' \in Nat /\ ~(consumed' > 0) /\ consumed' = 0
    BY <1>2, <2>2
  <2> QED
    BY Zenon, <2>3, <2>4, <2>5
<1>3. ASSUME NEW n \in Destinations, NEW noMore \in BOOLEAN,
             UpdateBroadcastOutputBuffers(n, noMore)
      PROVE  FinishOK'
  <2>1. /\ ~finished /\ consumed' = consumed
        /\ numBuffers' = n /\ deleted' = deleted
        /\ noMoreBroadcastBuffers' = noMore
    BY Zenon, <1>3 DEF UpdateBroadcastOutputBuffers, IsFinished
  <2>2. CASE noMore
    <3> DEFINE fin == IsFinished(n, deleted, TRUE)
    <3>1. \E by, freed, dat, bc :
            UpdateAfterAcknowledge(by, freed, dat, bc, fin)
      BY Zenon, <1>3, <2>2 DEF UpdateBroadcastOutputBuffers
    <3>3. fin => finished'
      BY Zenon, <2>1, <2>2 DEF IsFinished
    <3> HIDE DEF fin, finished
    <3>2. /\ releasing \subseteq releasing'
          /\ \E new : \A q \in releasing' \ releasing :
               q = new /\ q.isFinished = fin
      BY <3>1, AckReleases
    <3> QED
      BY Zenon, <2>1, <3>2, <3>3, <1>2
  <2>3. CASE ~noMore
    <3>1. releasing' = releasing
      BY Zenon, <1>3, <2>3 DEF UpdateBroadcastOutputBuffers
    <3>2. \A q \in releasing' \ releasing : q = {} /\ q.isFinished = FALSE
      BY Zenon, <3>1
    <3> HIDE DEF finished
    <3> QED
      BY Zenon, <2>1, <3>1, <3>2, <1>2
  <2> QED
    BY Zenon, <2>2, <2>3
<1>4. ASSUME NEW d \in Destinations, GetData(d) PROVE FinishOK'
  <2>1. /\ consumed' = consumed /\ deleted' = deleted
        /\ noMoreBroadcastBuffers' = noMoreBroadcastBuffers
        /\ \/ numBuffers' = numBuffers
           \/ Broadcast /\ d > numBuffers
        /\ \/ releasing' = releasing
           \/ \E by, freed, dat, bc :
                UpdateAfterAcknowledge(by, freed, dat, bc, FALSE)
    BY Zenon, <1>4 DEF GetData
  <2> DEFINE fin == FALSE
  <2>a. \/ releasing' = releasing
        \/ \E by, freed, dat, bc :
             UpdateAfterAcknowledge(by, freed, dat, bc, fin)
    BY Zenon, <2>1
  <2> HIDE DEF fin
  <2>b. /\ releasing \subseteq releasing'
        /\ \E new : \A q \in releasing' \ releasing :
             q = new /\ q.isFinished = fin
    BY <2>a, AckReleases
  <2>2. /\ releasing \subseteq releasing'
        /\ \E new : \A q \in releasing' \ releasing :
             q = new /\ q.isFinished = FALSE
    BY Zenon, <2>b DEF fin
  <2>3. CASE numBuffers' = numBuffers
    BY Zenon, <2>1, <2>2, <2>3, <1>1
  <2>4. CASE Broadcast /\ d > numBuffers
    <3>1. ~finished
      BY <2>4, OutputAssumption DEF BuffersOK, IsFinished, Destinations
    <3> HIDE DEF finished
    <3> QED
      BY Zenon, <2>1, <2>2, <3>1, <1>2
  <2> QED
    BY Zenon, <2>1, <2>3, <2>4
<1>5. ASSUME NEW d \in Destinations, NEW s \in 0 .. MaxPages, Acknowledge(d, s)
      PROVE  FinishOK'
  <2>1. /\ UNCHANGED <<numBuffers, deleted, noMoreBroadcastBuffers, consumed>>
        /\ \/ releasing' = releasing
           \/ \E by, freed, dat, bc :
                UpdateAfterAcknowledge(by, freed, dat, bc, FALSE)
    BY Zenon, <1>5 DEF Acknowledge
  <2>2. \A q \in releasing' \ releasing : q.isFinished = FALSE
    BY Zenon, <2>1, AckReleases
  <2> QED
    BY Zenon, <2>1, <2>2, <1>1
<1>6. ASSUME NEW d \in Destinations, NEW why \in {"end", "close"},
             DeleteResults(d, why)
      PROVE  FinishOK'
  <2>1. UNCHANGED <<numBuffers, noMoreBroadcastBuffers, consumed>>
    BY Zenon, <1>6 DEF DeleteResults
  <2>2. CASE removed \/ d \in deleted \/ d > numBuffers
    <3>1. deleted' = deleted /\ releasing' = releasing
      BY Zenon, <1>6, <2>2 DEF DeleteResults
    <3> QED
      BY Zenon, <2>1, <3>1, <1>1
  <2>3. CASE ~(removed \/ d \in deleted \/ d > numBuffers)
    <3> DEFINE fin == IsFinished(numBuffers, deleted \cup {d},
                                 noMoreBroadcastBuffers)
    <3>1. /\ deleted' = deleted \cup {d}
          /\ \E by, freed, dat, bc :
               UpdateAfterAcknowledge(by, freed, dat, bc, fin)
      BY Zenon, <1>6, <2>3 DEF DeleteResults
    <3>2. fin => finished'
      BY Zenon, <2>1, <3>1 DEF IsFinished
    <3>3. ~finished
      BY Zenon, <2>3, OutputAssumption DEF IsFinished, BuffersOK, Destinations
    <3> HIDE DEF fin, finished
    <3>4. /\ releasing \subseteq releasing'
          /\ \E new : \A q \in releasing' \ releasing :
               q = new /\ q.isFinished = fin
      BY SMTT(30), <3>1, AckReleases
    <3> QED
      BY Zenon, <2>1, <3>2, <3>3, <3>4, <1>2
  <2> QED
    BY Zenon, <2>2, <2>3
<1>7. ASSUME NEW r \in releasing, Release(r) PROVE FinishOK'
  <2>1. /\ UNCHANGED <<numBuffers, deleted, noMoreBroadcastBuffers>>
        /\ releasing' = releasing \ {r}
        /\ consumed' = IF r.isFinished THEN consumed + 1 ELSE consumed
    BY Zenon, <1>7 DEF Release
  <2> HIDE DEF finished
  <2>2. CASE ~r.isFinished
    BY Zenon, <2>1, <2>2, <1>1
  <2>3. CASE r.isFinished
    <3>1. consumed = 0 /\ finished /\ \A q \in releasing : q.isFinished => q = r
      BY Zenon, <2>3 DEF FinishOK, finished
    <3>2. \A q \in releasing' : ~q.isFinished
      BY Zenon, <2>1, <3>1
    <3>3. finished'
      BY Zenon, <2>1, <3>1 DEF finished, IsFinished
    <3>4. consumed' = 1 /\ consumed' \in Nat
      BY <2>1, <2>3, <3>1
    <3> QED
      BY Zenon, <3>2, <3>3, <3>4 DEF FinishOK, finished
  <2> QED
    BY Zenon, <2>2, <2>3
<1>8. ASSUME \/ \E w \in Drivers : NoMoreData(w)
             \/ \E w \in Drivers, d \in Destinations, wait \in BOOLEAN :
                  Enqueue(w, d, wait)
             \/ UpdateNumDrivers \/ NoMoreDrivers \/ RemoveTask
             \/ \E d \in Destinations : Request(d) \/ Deliver(d) \/ Close(d)
             \/ UNCHANGED vars
      PROVE  FinishOK'
  <2>1. /\ UNCHANGED <<numBuffers, deleted, noMoreBroadcastBuffers, consumed>>
        /\ releasing' = releasing
    BY Zenon, <1>8
    DEF NoMoreData, Enqueue, UpdateNumDrivers, NoMoreDrivers, RemoveTask,
        Request, Deliver, Close, vars
  <2> QED
    BY Zenon, <2>1, <1>1
<1> QED
  BY Zenon, <1>3, <1>4, <1>5, <1>6, <1>7, <1>8 DEF Next

-----------------------------------------------------------------------------
(* The streams *)

\* DestinationBuffer::getAndClearNotify, for one destination.
LEMMA NotifySets ==
  ASSUME NEW D, NEW dat, Notify(D, dat), NEW e \in Destinations
  PROVE  /\ notify' = notify \ D
         /\ notifySequence' = [d \in Destinations |->
                                 IF d \in D THEN 0 ELSE notifySequence[d]]
         /\ DOMAIN delivery' = DOMAIN delivery \cup (D \cap notify)
         /\ e \in DOMAIN delivery /\ e \notin D \cap notify =>
              delivery'[e] = delivery[e]
  BY Zenon DEF Notify

\* The answer to a source that waits is what its buffer has got.
LEMMA NotifyAnswers ==
  ASSUME NEW D, NEW dat, Notify(D, dat), NEW e \in Destinations,
         e \in D, e \in notify
  PROVE  /\ delivery'[e].sequence = notifySequence[e]
         /\ delivery'[e].pages =
              Fetched(dat[e], notifySequence[e] - sequence[e])
  BY Zenon DEF Notify

\* A step that leaves what belongs to a destination alone.
LEMMA StreamKept ==
  ASSUME NEW e \in Destinations, StreamOK(e),
         sent'[e] = sent[e], received'[e] = received[e],
         sequence'[e] = sequence[e], sourceSequence'[e] = sourceSequence[e],
         data'[e] = data[e], UNCHANGED <<atEnd, dataToBroadcast,
                                         noMoreBroadcastBuffers>>,
         e \in Live' <=> e \in Live,
         e > numBuffers' => e > numBuffers,
         e \in notify' =>
           e \in notify /\ notifySequence'[e] = notifySequence[e],
         e \in DOMAIN delivery' =>
           e \in DOMAIN delivery /\ delivery'[e] = delivery[e]
  PROVE  StreamOK(e)'
  BY Zenon DEF StreamOK

\* The buffers that addBroadcastOutputBuffersLocked creates.
LEMMA AddedRest ==
  ASSUME NEW e \in Destinations, StreamOK(e), atEnd \in BOOLEAN,
         BuffersOK, Broadcast, ~noMoreBroadcastBuffers,
         NEW n \in Destinations, n >= e, e > numBuffers
  PROVE  /\ Rest(AddedBuffers(n)[e], sequence[e], Stream(sent[e], atEnd))
         /\ sequence[e] = 0 /\ Len(received[e]) = 0
<1>1. dataToBroadcast = sent[e] /\ received[e] = <<>> /\ sent[e] \in Seq(Pages)
  BY Zenon DEF StreamOK
<1>2. sequence[e] = 0 /\ Len(received[e]) = 0
  BY SMTT(30), <1>1 DEF StreamOK
<1>3. e \in numBuffers + 1 .. n
  BY OutputAssumption DEF BuffersOK, Destinations
<1>4. AddedBuffers(n)[e] = Stream(sent[e], atEnd)
  BY Zenon, <1>1, <1>3 DEF AddedBuffers, Stream
<1>5. Stream(sent[e], atEnd) \in Seq(Items)
  BY Zenon, <1>1, StreamFacts
<1>6. Rest(Stream(sent[e], atEnd), 0, Stream(sent[e], atEnd))
  BY Zenon, <1>5, RestStart
<1> QED
  BY Zenon, <1>2, <1>4, <1>6

\* Live destinations, and buffers not yet there.
LEMMA LiveOrLater ==
  ASSUME BuffersOK, NEW d \in Destinations
  PROVE  /\ d \in Live <=> ~(d > numBuffers) /\ d \notin deleted
         /\ d > numBuffers => /\ Broadcast /\ ~noMoreBroadcastBuffers
                              /\ d \notin deleted
  BY OutputAssumption DEF BuffersOK, Live, Destinations

\* The numbers of a destination.
LEMMA StreamNumbers ==
  ASSUME NEW d \in Destinations, StreamOK(d), atEnd \in BOOLEAN
  PROVE  /\ sent[d] \in Seq(Pages)
         /\ Stream(sent[d], atEnd) \in Seq(Items)
         /\ Len(sent[d]) \in Nat
         /\ Len(sent[d]) <= Len(Stream(sent[d], atEnd))
         /\ Len(Stream(sent[d], atEnd)) \in Nat
         /\ received[d] \in Seq(Items)
         /\ Len(received[d]) \in 0 .. Len(sent[d])
         /\ sequence[d] \in 0 .. Len(received[d])
         /\ sourceSequence[d] = Len(received[d])
         /\ Len(received[d]) \in Nat /\ sequence[d] \in Nat
         /\ sourceSequence[d] \in Nat
<1>1. sent[d] \in Seq(Pages)
  BY Zenon DEF StreamOK
<1>2. /\ Stream(sent[d], atEnd) \in Seq(Items)
      /\ Len(Stream(sent[d], atEnd)) = IF atEnd THEN Len(sent[d]) + 1
                                       ELSE Len(sent[d])
  BY Zenon, <1>1, StreamFacts
<1>3. received[d] \in Seq(Items) /\ Len(received[d]) <= Len(sent[d])
  BY SMTT(30), <1>1 DEF StreamOK, Piece, Items
<1>4. /\ sequence[d] \in 0 .. Len(received[d])
      /\ sourceSequence[d] = Len(received[d])
  BY Zenon DEF StreamOK
<1>5. Len(sent[d]) \in Nat /\ Len(received[d]) \in Nat
  BY <1>1, <1>3
<1>6. /\ Len(received[d]) \in 0 .. Len(sent[d])
      /\ sequence[d] \in Nat
      /\ Len(Stream(sent[d], atEnd)) \in Nat
      /\ Len(sent[d]) <= Len(Stream(sent[d], atEnd))
  BY <1>2, <1>3, <1>4, <1>5
<1> QED
  BY Zenon, <1>1, <1>2, <1>3, <1>4, <1>5, <1>6

\* The contents of the buffer that getData finds or creates.
Before(d) ==
  IF Broadcast /\ d > numBuffers THEN AddedBuffers(d)[d] ELSE data[d]

\* What getData serves is the stream from the buffer's sequence_ on, and what
\* the source has got was in it.
LEMMA BeforeRest ==
  ASSUME NEW d \in Destinations, StreamOK(d), atEnd \in BOOLEAN, BuffersOK,
         d \notin deleted
  PROVE  /\ Rest(Before(d), sequence[d], Stream(sent[d], atEnd))
         /\ sourceSequence[d] - sequence[d] \in 0 .. Len(Before(d))
         /\ sequence[d] + (sourceSequence[d] - sequence[d]) = sourceSequence[d]
         /\ Rest(SubSeq(Before(d), sourceSequence[d] - sequence[d] + 1,
                        Len(Before(d))),
                 sourceSequence[d], Stream(sent[d], atEnd))
<1> DEFINE n == sourceSequence[d] - sequence[d]
           stream == Stream(sent[d], atEnd)
<1>1. Rest(Before(d), sequence[d], stream)
  <2>1. CASE d > numBuffers
    <3>1. Broadcast /\ ~noMoreBroadcastBuffers
      BY Zenon, <2>1, LiveOrLater
    <3>2. Before(d) = AddedBuffers(d)[d]
      BY Zenon, <2>1, <3>1 DEF Before
    <3>3. d >= d
      BY DEF Destinations
    <3> QED
      BY Zenon, <2>1, <3>1, <3>2, <3>3, AddedRest
  <2>2. CASE ~(d > numBuffers)
    <3>1. d \in Live /\ Before(d) = data[d]
      BY Zenon, <2>2, LiveOrLater DEF Before
    <3> QED
      BY Zenon, <3>1 DEF StreamOK
  <2> QED
    BY Zenon, <2>1, <2>2
<1>2. /\ sequence[d] \in Nat /\ n \in Nat
      /\ sequence[d] + n = sourceSequence[d]
      /\ sequence[d] + n <= Len(stream)
      /\ stream \in Seq(Items)
  BY StreamNumbers
<1> HIDE DEF n, stream
<1>3. /\ n <= Len(Before(d))
      /\ Rest(SubSeq(Before(d), n + 1, Len(Before(d))), sequence[d] + n, stream)
  BY Zenon, <1>1, <1>2, RestDrop
<1>4. Len(Before(d)) \in Nat
  BY <1>1 DEF Rest, Piece
<1>5. n \in 0 .. Len(Before(d))
  BY <1>2, <1>3, <1>4
<1>6. Rest(SubSeq(Before(d), n + 1, Len(Before(d))), sourceSequence[d], stream)
  BY Zenon, <1>2, <1>3
<1> QED
  BY Zenon, <1>1, <1>2, <1>5, <1>6 DEF n, stream

\* A page enters the stream of each destination it is for, its buffer, and the
\* answer of a source that waits for it.
LEMMA StreamEnqueue ==
  ASSUME DriversOK, BuffersOK, RequestsOK, StreamsOK,
         NEW w \in Drivers, NEW d \in Destinations, NEW wait \in BOOLEAN,
         Enqueue(w, d, wait), NEW e \in Destinations
  PROVE  StreamOK(e)'
<1> DEFINE p == produced + 1
           targets == IF Broadcast THEN Live ELSE {d} \cap Live
           addressed == Broadcast \/ e = d
<1>1. /\ UNCHANGED <<received, sequence, sourceSequence, atEnd, numBuffers,
                     deleted, noMoreBroadcastBuffers>>
      /\ produced < MaxPages
      /\ driverState[w] # "done"
      /\ data' = [f \in Destinations |->
                    IF f \in targets THEN Enqueued(data[f], p) ELSE data[f]]
      /\ Notify(targets, data')
      /\ dataToBroadcast' = IF Broadcast /\ ~noMoreBroadcastBuffers
                            THEN Append(dataToBroadcast, p)
                            ELSE dataToBroadcast
      /\ sent' = [f \in Destinations |->
                    IF Broadcast \/ f = d THEN Append(sent[f], p) ELSE sent[f]]
  BY Zenon DEF Enqueue, endVars, sourceVars
<1>2. ~atEnd /\ atEnd \in BOOLEAN
  BY Zenon, <1>1, NextFinished
<1>3. p \in Pages /\ p \in Items /\ p # End
  BY <1>1, OutputAssumption DEF StreamsOK, Pages, Items, End
<1>4. e \in targets <=> e \in Live /\ addressed
  BY Zenon
<1>5. StreamOK(e) /\ Live' = Live
  BY Zenon, <1>1 DEF StreamsOK, Live
<1> HIDE DEF p, targets
<1>6. Stream(sent[e], atEnd) = sent[e] /\ sent[e] \in Seq(Pages)
      /\ sent[e] \in Seq(Items)
  <2>1. sent[e] \in Seq(Pages)
    BY Zenon, <1>5 DEF StreamOK
  <2>2. Stream(sent[e], atEnd) = sent[e]
    BY Zenon, <1>2, <2>1, StreamFacts
  <2> QED
    BY <2>1, <2>2 DEF Items
<1>7. sent'[e] = (IF addressed THEN Append(sent[e], p) ELSE sent[e])
      /\ sent'[e] \in Seq(Pages)
  BY SMTT(30), <1>1, <1>3, <1>6
<1>8. Stream(sent'[e], atEnd') = sent'[e]
  <2>1. ~atEnd' /\ atEnd' \in BOOLEAN
    BY Zenon, <1>1, <1>2
  <2> QED
    BY Zenon, <1>7, <2>1, StreamFacts
<1>9. /\ sequence[e] \in Nat /\ Len(received[e]) \in Nat
      /\ Piece(received[e], 0, sent[e])
  BY Zenon, <1>2, <1>5, StreamNumbers DEF StreamOK
<1>10. Piece(received'[e], 0, sent'[e])
  BY ZenonT(30), <1>1, <1>3, <1>6, <1>7, <1>9, PieceAppend
<1>11. ASSUME e \in Live
       PROVE  Rest(data'[e], sequence[e], sent'[e])
  <2>1. Rest(data[e], sequence[e], sent[e])
    BY Zenon, <1>11, <1>5, <1>6 DEF StreamOK
  <2>2. CASE addressed
    <3>1. data'[e] = Append(data[e], p)
      BY Zenon, <1>1, <1>3, <1>4, <1>11, <2>2 DEF Enqueued
    <3>2. Rest(Append(data[e], p), sequence[e], Append(sent[e], p))
      BY Zenon, <1>3, <1>6, <1>9, <2>1, RestAppend
    <3> QED
      BY Zenon, <1>7, <2>2, <3>1, <3>2
  <2>3. CASE ~addressed
    BY Zenon, <1>1, <1>4, <1>7, <2>1, <2>3
  <2> QED
    BY Zenon, <2>2, <2>3
<1>12. ASSUME e \notin Live
       PROVE  data'[e] = <<>>
  BY Zenon, <1>1, <1>4, <1>5, <1>12 DEF StreamOK
<1>13. notify' = notify \ targets
  BY Zenon, <1>1, NotifySets
<1>14. ASSUME e \in notify'
       PROVE  /\ data'[e] = <<>>
              /\ notifySequence'[e] = sequence[e]
              /\ sequence[e] = sourceSequence[e]
  <2>1. e \in notify /\ e \notin targets
    BY Zenon, <1>13, <1>14
  <2>2. notifySequence'[e] = notifySequence[e]
    BY Zenon, <1>1, <2>1, NotifySets
  <2> QED
    BY Zenon, <1>1, <1>5, <2>1, <2>2 DEF StreamOK
<1>15. ASSUME e \in DOMAIN delivery'
       PROVE  /\ delivery'[e].sequence = sourceSequence[e]
              /\ Piece(delivery'[e].pages, Len(received[e]), sent'[e])
  <2>1. CASE e \in targets \cap notify
    <3>1. /\ delivery'[e].sequence = notifySequence[e]
          /\ delivery'[e].pages =
               Fetched(data'[e], notifySequence[e] - sequence[e])
      <4>1. Notify(targets, data') /\ e \in targets /\ e \in notify
        BY Zenon, <1>1, <2>1
      <4> QED
        BY Zenon, <4>1, NotifyAnswers
    <3>2. /\ notifySequence[e] = sequence[e]
          /\ sequence[e] = sourceSequence[e]
          /\ sourceSequence[e] = Len(received[e])
      BY Zenon, <1>5, <2>1 DEF StreamOK
    <3>3. notifySequence[e] - sequence[e] = 0
      BY <3>2, <1>9
    <3>4. Rest(data'[e], Len(received[e]), sent'[e])
      BY Zenon, <1>4, <1>11, <2>1, <3>2
    <3>5. Piece(Fetched(data'[e], 0), Len(received[e]), sent'[e])
      <4>1. sent'[e] \in Seq(Items)
        BY <1>7 DEF Items
      <4> QED
        BY Zenon, <1>9, <3>4, <4>1, PieceFetched
    <3> QED
      BY Zenon, <3>1, <3>2, <3>3, <3>5
  <2>2. CASE e \notin targets \cap notify
    <3>1. e \in DOMAIN delivery /\ delivery'[e] = delivery[e]
      BY Zenon, <1>1, <1>15, <2>2, NotifySets
    <3>2. /\ delivery[e].sequence = sourceSequence[e]
          /\ Piece(delivery[e].pages, Len(received[e]), sent[e])
      BY Zenon, <1>5, <1>6, <3>1 DEF StreamOK
    <3>3. Piece(delivery[e].pages, Len(received[e]), sent'[e])
      BY Zenon, <1>3, <1>6, <1>7, <1>9, <3>2, PieceAppend
    <3> QED
      BY Zenon, <3>1, <3>2, <3>3
  <2> QED
    BY Zenon, <2>1, <2>2
<1>16. dataToBroadcast' =
         IF Broadcast /\ ~noMoreBroadcastBuffers' THEN sent'[e] ELSE <<>>
  BY Zenon, <1>1, <1>5, <1>7 DEF StreamOK
<1> QED
  BY ZenonT(30), <1>1, <1>5, <1>7, <1>8, <1>10, <1>11, <1>12, <1>14, <1>15, <1>16
  DEF StreamOK

\* The end marker enters every stream, and every buffer, at once.
LEMMA StreamDone ==
  ASSUME DriversOK, BuffersOK, RequestsOK, StreamsOK, ~atEnd,
         NEW n \in Nat, n <= numDrivers, CheckIfDone(n),
         UNCHANGED <<sent, received, sequence, sourceSequence, bufferVars>>,
         NEW e \in Destinations
  PROVE  StreamOK(e)'
<1> DEFINE done == n = numDrivers
           D == IF done THEN Live ELSE {}
<1>1. /\ atEnd' = done
      /\ data' = [f \in Destinations |->
                    IF done /\ f \in Live THEN Enqueued(data[f], End)
                    ELSE data[f]]
      /\ Notify(D, data')
  BY Zenon, CheckIfDoneSets DEF DriversOK
<1>2. UNCHANGED <<numBuffers, deleted, noMoreBroadcastBuffers, dataToBroadcast>>
  BY Zenon DEF bufferVars
<1>3. StreamOK(e) /\ Live' = Live
  BY Zenon, <1>2 DEF StreamsOK, Live
<1>4. done \in BOOLEAN /\ (e \in D <=> done /\ e \in Live)
  BY Zenon
<1> HIDE DEF done, D
<1>5. /\ Stream(sent[e], atEnd) = sent[e] /\ sent[e] \in Seq(Pages)
      /\ sent[e] \in Seq(Items)
      /\ ~done => Stream(sent[e], atEnd') = sent[e]
      /\ done => Stream(sent[e], atEnd') = Append(sent[e], End)
  <2>1. sent[e] \in Seq(Pages)
    BY Zenon, <1>3 DEF StreamOK
  <2>2. atEnd \in BOOLEAN /\ atEnd' \in BOOLEAN /\ (atEnd' <=> done)
    BY Zenon, <1>1, <1>4 DEF DriversOK
  <2> QED
    BY Zenon, <2>1, <2>2, StreamFacts DEF Items
<1>6. sequence[e] \in Nat /\ Len(received[e]) \in Nat /\ End \in Items
  <2>1. atEnd \in BOOLEAN
    BY Zenon DEF DriversOK
  <2> QED
    BY Zenon, <1>3, <2>1, StreamNumbers DEF Items
<1>7. ASSUME e \in Live
      PROVE  Rest(data'[e], sequence[e], Stream(sent[e], atEnd'))
  <2>1. Rest(data[e], sequence[e], sent[e])
    BY Zenon, <1>7, <1>3, <1>5 DEF StreamOK
  <2>2. CASE done
    <3>1. data[e] = <<>> \/ data[e][Len(data[e])] # End
      <4>1. \A i \in 1 .. Len(sent[e]) : sent[e][i] # End
        BY Zenon, <1>5, StreamFacts
      <4>2. /\ data[e] \in Seq(Items)
            /\ sequence[e] + Len(data[e]) = Len(sent[e])
            /\ \A i \in 1 .. Len(data[e]) : data[e][i] = sent[e][sequence[e] + i]
        BY Zenon, <2>1 DEF Rest, Piece, Items
      <4>3. CASE Len(data[e]) = 0
        BY <4>2, <4>3
      <4>4. CASE Len(data[e]) > 0
        <5>1. /\ Len(data[e]) \in 1 .. Len(data[e])
              /\ sequence[e] + Len(data[e]) \in 1 .. Len(sent[e])
          BY SMTT(30), <1>5, <1>6, <4>2, <4>4
        <5> QED
          BY Zenon, <4>1, <4>2, <5>1
      <4> QED
        BY <4>2, <4>3, <4>4
    <3>2. data'[e] = Append(data[e], End)
      BY Zenon, <1>1, <1>7, <2>2, <3>1 DEF Enqueued
    <3>3. Rest(Append(data[e], End), sequence[e], Append(sent[e], End))
      BY Zenon, <1>5, <1>6, <2>1, RestAppend
    <3> QED
      BY Zenon, <1>5, <2>2, <3>2, <3>3
  <2>3. CASE ~done
    BY Zenon, <1>1, <1>5, <2>1, <2>3
  <2> QED
    BY Zenon, <2>2, <2>3
<1>8. ASSUME e \notin Live
      PROVE  data'[e] = <<>>
  BY Zenon, <1>1, <1>3, <1>8 DEF StreamOK
<1>9. notify' = notify \ D
  BY Zenon, <1>1, NotifySets
<1>10. ASSUME e \in notify'
       PROVE  /\ data'[e] = <<>>
              /\ notifySequence'[e] = sequence[e]
              /\ sequence[e] = sourceSequence[e]
  <2>1. e \in notify /\ e \notin D /\ e \in Live
    BY Zenon, <1>9, <1>10 DEF RequestsOK
  <2>2. notifySequence'[e] = notifySequence[e]
    BY Zenon, <1>1, <2>1, NotifySets
  <2>3. data'[e] = data[e]
    BY Zenon, <1>1, <1>4, <2>1
  <2> QED
    BY Zenon, <1>3, <2>1, <2>2, <2>3 DEF StreamOK
<1>11. ASSUME e \in DOMAIN delivery'
       PROVE  /\ delivery'[e].sequence = sourceSequence[e]
              /\ Piece(delivery'[e].pages, Len(received[e]),
                       Stream(sent[e], atEnd'))
  <2>1. CASE e \in D \cap notify
    <3>1. /\ delivery'[e].sequence = notifySequence[e]
          /\ delivery'[e].pages =
               Fetched(data'[e], notifySequence[e] - sequence[e])
      <4>1. Notify(D, data') /\ e \in D /\ e \in notify
        BY Zenon, <1>1, <2>1
      <4> QED
        BY Zenon, <4>1, NotifyAnswers
    <3>2. /\ notifySequence[e] = sequence[e]
          /\ sequence[e] = sourceSequence[e]
          /\ sourceSequence[e] = Len(received[e])
      BY Zenon, <1>3, <2>1 DEF StreamOK
    <3>3. notifySequence[e] - sequence[e] = 0
      BY <3>2, <1>6
    <3>4. Rest(data'[e], Len(received[e]), Stream(sent[e], atEnd'))
      BY Zenon, <1>4, <1>7, <2>1, <3>2
    <3>5. Piece(Fetched(data'[e], 0), Len(received[e]), Stream(sent[e], atEnd'))
      <4>1. Stream(sent[e], atEnd') \in Seq(Items)
        BY Zenon, <1>1, <1>4, <1>5, StreamFacts
      <4> QED
        BY Zenon, <1>6, <3>4, <4>1, PieceFetched
    <3> QED
      BY Zenon, <3>1, <3>2, <3>3, <3>5
  <2>2. CASE e \notin D \cap notify
    <3>1. e \in DOMAIN delivery /\ delivery'[e] = delivery[e]
      BY Zenon, <1>1, <1>11, <2>2, NotifySets
    <3>2. /\ delivery[e].sequence = sourceSequence[e]
          /\ Piece(delivery[e].pages, Len(received[e]), sent[e])
      BY Zenon, <1>3, <1>5, <3>1 DEF StreamOK
    <3>3. Piece(delivery[e].pages, Len(received[e]), Stream(sent[e], atEnd'))
      BY Zenon, <1>4, <1>5, <1>6, <3>2, PieceAppend
    <3> QED
      BY Zenon, <3>1, <3>2, <3>3
  <2> QED
    BY Zenon, <2>1, <2>2
<1> QED
  BY Zenon, <1>2, <1>3, <1>7, <1>8, <1>10, <1>11 DEF StreamOK

\* What is left in the buffer of d once getData has acknowledged.
After(d) ==
  SubSeq(Before(d), sourceSequence[d] - sequence[d] + 1, Len(Before(d)))

\* The buffers once getData has added those it needs.
AfterGet(d) ==
  [(IF Broadcast /\ d > numBuffers THEN AddedBuffers(d) ELSE data)
     EXCEPT ![d] = After(d)]

\* getData when no check fails.
Served(d) ==
  /\ ~removed /\ d \notin deleted
  /\ failed' = failed
  /\ numBuffers' = IF Broadcast /\ d > numBuffers THEN d ELSE numBuffers
  /\ data' = AfterGet(d)
  /\ sequence' = [sequence EXCEPT ![d] = sourceSequence[d]]
  /\ \E by : UpdateAfterAcknowledge(by,
               Dropped(Before(d), sourceSequence[d] - sequence[d]),
               AfterGet(d), dataToBroadcast, FALSE)
  /\ IF After(d) = <<>>
     THEN /\ notify' = notify \cup {d}
          /\ notifySequence' = [notifySequence EXCEPT ![d] = sourceSequence[d]]
          /\ delivery' = delivery
     ELSE /\ delivery' = [e \in DOMAIN delivery \cup {d} |->
                            IF e = d
                            THEN [sequence |-> sourceSequence[d],
                                  pages |-> Fetched(After(d), 0)]
                            ELSE delivery[e]]
          /\ notify' = notify /\ notifySequence' = notifySequence

\* getData when the task is gone or a check fails.
Refused(d) ==
  /\ removed \/ d \in deleted
  /\ failed' = IF removed THEN failed ELSE failed \cup {"getDataDeleted"}
  /\ UNCHANGED <<numBuffers, sizeVars, destVars, delivery, releasing>>

\* The only check of getData that can fail is that the buffer is not deleted.
LEMMA GetDataCases ==
  ASSUME DriversOK, BuffersOK, StreamsOK, NEW d \in Destinations, GetData(d)
  PROVE  Refused(d) \/ Served(d)
<1> DEFINE added == Broadcast /\ d > numBuffers
           n == sourceSequence[d] - sequence[d]
           fails == UNION {
             Fails("addedTooLate", added /\ noMoreBroadcastBuffers),
             Fails("getDataDeleted", d \in deleted),
             Fails("ackNotProduced", d \in Live /\ n > Len(Before(d))),
             Fails("getAcknowledged", d \in Live /\ n < 0)}
<1>1. StreamOK(d) /\ atEnd \in BOOLEAN
  BY Zenon DEF StreamsOK, DriversOK
<1>2. ~(added /\ noMoreBroadcastBuffers)
  BY Zenon, LiveOrLater
<1>3. ~(d \in Live /\ n > Len(Before(d))) /\ ~(d \in Live /\ n < 0)
  <2>1. SUFFICES ASSUME d \in Live PROVE ~(n > Len(Before(d))) /\ ~(n < 0)
    BY Zenon
  <2>2. Rest(Before(d), sequence[d], Stream(sent[d], atEnd))
    BY Zenon, <1>1, <2>1, BeforeRest DEF Live
  <2>3. Len(Before(d)) \in Nat
    BY <2>2 DEF Rest, Piece
  <2>4. n \in 0 .. Len(Before(d))
    BY Zenon, <1>1, <2>1, BeforeRest DEF Live
  <2> HIDE DEF n
  <2> QED
    BY <2>3, <2>4
<1>4. fails = IF d \in deleted THEN {"getDataDeleted"} ELSE {}
  <2> HIDE DEF added, n
  <2>1. /\ Fails("addedTooLate", added /\ noMoreBroadcastBuffers) = {}
        /\ Fails("ackNotProduced", d \in Live /\ n > Len(Before(d))) = {}
        /\ Fails("getAcknowledged", d \in Live /\ n < 0) = {}
    BY Zenon, <1>2, <1>3 DEF Fails
  <2>2. Fails("getDataDeleted", d \in deleted) =
          IF d \in deleted THEN {"getDataDeleted"} ELSE {}
    BY Zenon DEF Fails
  <2> QED
    BY <2>1, <2>2
<1>5. failed' = IF removed THEN failed ELSE failed \cup fails
  BY Zenon DEF GetData, Before
<1>6. CASE removed \/ fails # {}
  <2>1. UNCHANGED <<numBuffers, sizeVars, destVars, delivery, releasing>>
    BY Zenon, <1>6 DEF GetData, Before
  <2> HIDE DEF fails
  <2>2. removed \/ d \in deleted
    BY Zenon, <1>4, <1>6
  <2> QED
    BY Zenon, <1>4, <1>5, <1>6, <2>1, <2>2 DEF Refused
<1>7. CASE ~(removed \/ fails # {})
  <2>1. /\ numBuffers' = IF Broadcast /\ d > numBuffers THEN d ELSE numBuffers
        /\ data' = AfterGet(d)
        /\ sequence' = [sequence EXCEPT ![d] = sourceSequence[d]]
        /\ \E by : UpdateAfterAcknowledge(by,
                     Dropped(Before(d), sourceSequence[d] - sequence[d]),
                     AfterGet(d), dataToBroadcast, FALSE)
    BY Zenon, <1>7 DEF GetData, Before, After, AfterGet
  <2>2. IF After(d) = <<>>
        THEN /\ notify' = notify \cup {d}
             /\ notifySequence' = [notifySequence EXCEPT ![d] = sourceSequence[d]]
             /\ delivery' = delivery
        ELSE /\ delivery' = [e \in DOMAIN delivery \cup {d} |->
                               IF e = d
                               THEN [sequence |-> sourceSequence[d],
                                     pages |-> Fetched(After(d), 0)]
                               ELSE delivery[e]]
             /\ notify' = notify /\ notifySequence' = notifySequence
    BY Zenon, <1>7 DEF GetData, Before, After
  <2> HIDE DEF fails
  <2>3. ~removed /\ fails = {} /\ d \notin deleted
    <3>1. fails = {} /\ ~removed
      BY Zenon, <1>7
    <3> QED
      BY Zenon, <1>4, <3>1
  <2>4. failed' = failed
    BY Zenon, <1>5, <2>3
  <2> QED
    BY Zenon, <2>1, <2>2, <2>3, <2>4 DEF Served
<1> QED
  BY Zenon, <1>6, <1>7

\* What getData leaves alone.
LEMMA GetDataKeeps ==
  ASSUME NEW d, GetData(d)
  PROVE  /\ requests' = requests \ {d} /\ d \in requests
         /\ UNCHANGED <<deleted, noMoreBroadcastBuffers, dataToBroadcast, atEnd,
                        produced, sent, removed, requestPending, sourceSequence,
                        sourceAtEnd, closed, received, acks, deletes>>
  BY Zenon DEF GetData, endVars, driverVars, taskVars, sourceVars

\* getData moves the buffer of d on to where its source is, adds the buffers up
\* to d, and answers with what comes next or waits for it.
LEMMA StreamGetData ==
  ASSUME DriversOK, BuffersOK, RequestsOK, StreamsOK,
         NEW d \in Destinations, GetData(d), NEW e \in Destinations
  PROVE  StreamOK(e)'
<1> DEFINE stream == Stream(sent[e], atEnd)
<1>1. StreamOK(e) /\ atEnd \in BOOLEAN
  BY Zenon DEF StreamsOK, DriversOK
<1>2. /\ d \in requests
      /\ UNCHANGED <<deleted, noMoreBroadcastBuffers, dataToBroadcast, atEnd,
                     sent, received, sourceSequence>>
  BY Zenon, GetDataKeeps
<1>3. d \notin notify /\ d \notin DOMAIN delivery
  BY Zenon, <1>2 DEF RequestsOK
<1>4. ASSUME Refused(d) PROVE StreamOK(e)'
  <2>1. UNCHANGED <<numBuffers, data, sequence, notify, notifySequence, delivery>>
    BY Zenon, <1>4 DEF Refused, destVars
  <2>2. Live' = Live
    BY Zenon, <1>2, <2>1 DEF Live
  <2> QED
    BY Zenon, <1>1, <1>2, <2>1, <2>2, StreamKept
<1>5. ASSUME Served(d), e # d PROVE StreamOK(e)'
  <2>1. /\ sequence'[e] = sequence[e]
        /\ notifySequence'[e] = notifySequence[e]
        /\ data'[e] = IF Broadcast /\ d > numBuffers THEN AddedBuffers(d)[e]
                      ELSE data[e]
        /\ numBuffers' = IF Broadcast /\ d > numBuffers THEN d ELSE numBuffers
        /\ AddedBuffers(d)[e] = IF e \in numBuffers + 1 .. d
                                THEN AddedBuffers(d)[e] ELSE data[e]
    <3>1. /\ data' = AfterGet(d)
          /\ sequence' = [sequence EXCEPT ![d] = sourceSequence[d]]
          /\ numBuffers' = IF Broadcast /\ d > numBuffers THEN d ELSE numBuffers
          /\ \/ notifySequence' = [notifySequence EXCEPT ![d] = sourceSequence[d]]
             \/ notifySequence' = notifySequence
      BY Zenon, <1>5 DEF Served
    <3>2. e \in DOMAIN data /\ e \in DOMAIN sequence /\ e \in DOMAIN notifySequence
          /\ e \in DOMAIN AddedBuffers(d)
      BY Zenon DEF StreamsOK, AddedBuffers
    <3>3. AfterGet(d)[e] = IF Broadcast /\ d > numBuffers THEN AddedBuffers(d)[e]
                           ELSE data[e]
      BY Zenon, <1>5, <3>2 DEF AfterGet
    <3>4. e \notin numBuffers + 1 .. d => AddedBuffers(d)[e] = data[e]
      BY Zenon DEF AddedBuffers
    <3> QED
      BY Zenon, <1>5, <3>1, <3>2, <3>3, <3>4
  <2>2. /\ e \in notify' <=> e \in notify
        /\ e \in DOMAIN delivery' <=> e \in DOMAIN delivery
        /\ e \in DOMAIN delivery => delivery'[e] = delivery[e]
    BY SMTT(30), <1>5 DEF Served
  <2>3. CASE Broadcast /\ e > numBuffers /\ ~(e > numBuffers')
    <3>1. d > numBuffers /\ numBuffers' = d /\ d >= e
      BY SMTT(30), <2>1, <2>3, OutputAssumption DEF BuffersOK, Destinations
    <3>2. Broadcast /\ ~noMoreBroadcastBuffers
      BY Zenon, <2>3, LiveOrLater
    <3>3. Rest(AddedBuffers(d)[e], sequence[e], stream)
      BY Zenon, <1>1, <2>3, <3>1, <3>2, AddedRest
    <3>4. e \in Live' /\ e \notin Live
      <4>1. e \notin deleted /\ e \notin Live
        BY Zenon, <2>3, LiveOrLater
      <4>2. e \in 1 .. d
        BY <3>1 DEF Destinations
      <4> QED
        BY Zenon, <1>2, <3>1, <4>1, <4>2 DEF Live
    <3>5. e \notin notify /\ e \notin DOMAIN delivery
      BY SMTT(30), <2>3, <3>4, OutputAssumption DEF RequestsOK, BuffersOK, Destinations
    <3>6. Rest(data'[e], sequence'[e], Stream(sent'[e], atEnd'))
      BY Zenon, <1>2, <2>1, <3>1, <3>2, <3>3
    <3>7. e \notin notify' /\ e \notin DOMAIN delivery'
      BY Zenon, <2>2, <3>5
    <3> QED
      BY Zenon, <1>1, <1>2, <2>1, <2>3, <3>4, <3>6, <3>7 DEF StreamOK
  <2>4. CASE ~(Broadcast /\ e > numBuffers /\ ~(e > numBuffers'))
    <3>1. e > numBuffers' <=> e > numBuffers
      <4>1. e > numBuffers => Broadcast
        BY Zenon, LiveOrLater
      <4> QED
        BY <2>1, <2>4, <4>1, OutputAssumption DEF BuffersOK, Destinations
    <3>2. data'[e] = data[e]
      <4>1. CASE Broadcast /\ d > numBuffers
        <5>1. e \notin numBuffers + 1 .. d
          BY <2>1, <2>4, <4>1, OutputAssumption DEF BuffersOK, Destinations
        <5> QED
          BY Zenon, <2>1, <4>1, <5>1 DEF AddedBuffers
      <4>2. CASE ~(Broadcast /\ d > numBuffers)
        BY Zenon, <2>1, <4>2
      <4> QED
        BY Zenon, <4>1, <4>2
    <3>3. numBuffers' \in Destinations
      BY Zenon, <2>1, OutputAssumption DEF BuffersOK
    <3>4. e \in Live' <=> e \in Live
      BY <1>2, <3>1, <3>3, OutputAssumption DEF Live, BuffersOK, Destinations
    <3> QED
      BY Zenon, <1>1, <1>2, <2>1, <2>2, <3>1, <3>2, <3>4, StreamKept
  <2> QED
    BY Zenon, <2>3, <2>4
<1>6. ASSUME Served(d), e = d PROVE StreamOK(e)'
  <2>1. /\ sequence'[e] = sourceSequence[e]
        /\ data'[e] = After(e)
        /\ numBuffers' = IF Broadcast /\ e > numBuffers THEN e ELSE numBuffers
        /\ d \notin deleted
    <3>1. /\ data' = AfterGet(d)
          /\ sequence' = [sequence EXCEPT ![d] = sourceSequence[d]]
          /\ numBuffers' = IF Broadcast /\ d > numBuffers THEN d ELSE numBuffers
          /\ d \notin deleted
      BY Zenon, <1>6 DEF Served
    <3>2. d \in DOMAIN data /\ d \in DOMAIN sequence
          /\ d \in DOMAIN AddedBuffers(d)
      BY Zenon DEF StreamsOK, AddedBuffers
    <3>3. AfterGet(d)[d] = After(d)
      BY Zenon, <3>2 DEF AfterGet
    <3> QED
      BY Zenon, <1>6, <3>1, <3>2, <3>3
  <2>2. Rest(After(e), sourceSequence[e], stream)
    BY Zenon, <1>1, <1>6, <2>1, BeforeRest DEF After
  <2>3. e \in Live' /\ ~(e > numBuffers')
    <3>1. numBuffers' \in Destinations /\ ~(e > numBuffers')
      BY SMTT(30), <2>1, LiveOrLater, OutputAssumption DEF BuffersOK, Destinations
    <3> QED
      BY SMTT(30), <1>2, <1>6, <2>1, <3>1 DEF Live, Destinations
  <2>4. ASSUME e \in notify'
        PROVE  After(e) = <<>> /\ notifySequence'[e] = sourceSequence[e]
    <3>1. After(e) = <<>>
      BY Zenon, <1>3, <1>6, <2>4 DEF Served
    <3>2. notifySequence' = [notifySequence EXCEPT ![d] = sourceSequence[d]]
      BY Zenon, <1>6, <3>1 DEF Served
    <3> QED
      BY Zenon, <1>6, <3>1, <3>2 DEF StreamsOK
  <2>5. ASSUME e \in DOMAIN delivery'
        PROVE  /\ delivery'[e].sequence = sourceSequence[e]
               /\ Piece(delivery'[e].pages, Len(received[e]), stream)
    <3>1. /\ delivery'[e].sequence = sourceSequence[e]
          /\ delivery'[e].pages = Fetched(After(e), 0)
      BY SMTT(30), <1>3, <1>6, <2>5 DEF Served
    <3>2. /\ sourceSequence[e] = Len(received[e])
          /\ sourceSequence[e] \in Nat
          /\ stream \in Seq(Items)
      BY Zenon, <1>1, StreamNumbers
    <3>3. Piece(Fetched(After(e), 0), sourceSequence[e], stream)
      BY Zenon, <2>2, <3>2, PieceFetched
    <3> QED
      BY Zenon, <3>1, <3>2, <3>3
  <2>6. sequence'[e] \in 0 .. Len(received[e])
    BY <1>1, <2>1, StreamNumbers
  <2> QED
    BY Zenon, <1>1, <1>2, <2>1, <2>2, <2>3, <2>4, <2>5, <2>6 DEF StreamOK
<1> QED
  BY Zenon, <1>4, <1>5, <1>6, GetDataCases

\* A new broadcast buffer gets all that was sent; with the last of them
\* dataToBroadcast_ is no longer needed.
LEMMA StreamUpdate ==
  ASSUME DriversOK, BuffersOK, RequestsOK, StreamsOK,
         NEW n \in Destinations, NEW noMore \in BOOLEAN,
         UpdateBroadcastOutputBuffers(n, noMore), NEW e \in Destinations
  PROVE  StreamOK(e)'
<1>1. StreamOK(e) /\ atEnd \in BOOLEAN
  BY Zenon DEF StreamsOK, DriversOK
<1>2. /\ UNCHANGED <<deleted, atEnd, sequence, notify, notifySequence, sent,
                     received, sourceSequence, delivery>>
      /\ Broadcast /\ ~noMoreBroadcastBuffers
      /\ numBuffers' = n /\ data' = AddedBuffers(n)
      /\ noMoreBroadcastBuffers' = noMore
      /\ dataToBroadcast' = IF noMore THEN <<>> ELSE dataToBroadcast
  BY Zenon
  DEF UpdateBroadcastOutputBuffers, endVars, driverVars, sourceVars, messageVars
<1>3. n >= numBuffers
  BY SMTT(30), OutputAssumption DEF UpdateBroadcastOutputBuffers, BuffersOK, Destinations
<1>4. dataToBroadcast' =
        IF Broadcast /\ ~noMoreBroadcastBuffers' THEN sent'[e] ELSE <<>>
  BY Zenon, <1>1, <1>2 DEF StreamOK
<1>5. CASE e > numBuffers /\ n >= e
  <2>1. Rest(AddedBuffers(n)[e], sequence[e], Stream(sent[e], atEnd))
    BY Zenon, <1>1, <1>2, <1>5, AddedRest
  <2>2. e \in Live' /\ e \notin Live
    <3>1. e \notin deleted /\ e \notin Live
      BY Zenon, <1>5, LiveOrLater
    <3>2. e \in 1 .. n
      BY <1>5 DEF Destinations
    <3> QED
      BY Zenon, <1>2, <3>1, <3>2 DEF Live
  <2>3. e \notin notify /\ e \notin DOMAIN delivery
    BY SMTT(30), <1>5, <2>2, OutputAssumption DEF RequestsOK, BuffersOK, Destinations
  <2>4. ~(e > numBuffers')
    BY <1>2, <1>5 DEF Destinations
  <2> QED
    BY Zenon, <1>1, <1>2, <1>4, <2>1, <2>2, <2>3, <2>4 DEF StreamOK
<1>6. CASE ~(e > numBuffers /\ n >= e)
  <2>1. data'[e] = data[e]
    <3>1. e \notin numBuffers + 1 .. n
      BY <1>6, OutputAssumption DEF BuffersOK, Destinations
    <3> QED
      BY Zenon, <1>2, <3>1 DEF AddedBuffers
  <2>2. /\ e > numBuffers' <=> e > numBuffers
        /\ e \in Live' <=> e \in Live
    BY <1>2, <1>3, <1>6, OutputAssumption DEF BuffersOK, Live, Destinations
  <2> QED
    BY Zenon, <1>1, <1>2, <1>4, <2>1, <2>2 DEF StreamOK
<1> QED
  BY Zenon, <1>5, <1>6

\* An acknowledgement that finds its buffer and is not late.
Acknowledged(d, s) ==
  /\ d \in Live /\ s > sequence[d]
  /\ data' = [data EXCEPT ![d] = SubSeq(@, s - sequence[d] + 1, Len(@))]
  /\ sequence' = [sequence EXCEPT ![d] = s]
  /\ UpdateAfterAcknowledge(<<"ack", d>>, Dropped(data[d], s - sequence[d]),
                            data', dataToBroadcast, FALSE)

\* No acknowledgement is of a page that was not produced.
LEMMA AcknowledgeCases ==
  ASSUME DriversOK, BuffersOK, StreamsOK,
         NEW d \in Destinations, NEW s \in 0 .. MaxPages, Acknowledge(d, s)
  PROVE  /\ UNCHANGED <<numBuffers, deleted, noMoreBroadcastBuffers,
                        dataToBroadcast, atEnd, notify, notifySequence,
                        produced, sent, removed, requestPending, sourceSequence,
                        sourceAtEnd, closed, received, requests, deletes,
                        delivery, failed>>
         /\ acks' \subseteq acks
         /\ s <= Len(received[d])
         /\ \/ UNCHANGED <<data, sequence, sizeVars, releasing>>
            \/ Acknowledged(d, s)
<1> DEFINE n == s - sequence[d]
           ignored == removed \/ d \in deleted \/ n <= 0
           fails == Fails("ackNotProduced", ~ignored /\ n > Len(data[d]))
<1>1. StreamOK(d) /\ atEnd \in BOOLEAN
  BY Zenon DEF StreamsOK, DriversOK
<1>2. s <= Len(received[d])
  <2>1. <<d, s>> \in acks
    BY Zenon DEF Acknowledge
  <2> QED
    BY <2>1 DEF StreamsOK
<1>3. /\ sequence[d] \in Nat /\ Len(received[d]) \in Nat
      /\ s \in Nat /\ s - sequence[d] \in Int
      /\ Len(received[d]) <= Len(Stream(sent[d], atEnd))
      /\ Len(Stream(sent[d], atEnd)) \in Nat
      /\ Stream(sent[d], atEnd) \in Seq(Items)
  BY SMTT(30), <1>1, StreamNumbers
<1>4. ASSUME ~ignored
      PROVE  d \in Live /\ s > sequence[d] /\ ~(n > Len(data[d]))
  <2>1. s > sequence[d]
    BY SMTT(30), <1>3, <1>4
  <2>2. d \in Live
    <3>1. ASSUME d > numBuffers PROVE FALSE
      <4>1. received[d] = <<>>
        BY Zenon, <1>1, <3>1 DEF StreamOK
      <4> QED
        BY <1>2, <1>3, <2>1, <4>1
    <3> QED
      BY Zenon, <1>4, <3>1, LiveOrLater
  <2>3. Rest(data[d], sequence[d], Stream(sent[d], atEnd))
    BY Zenon, <1>1, <2>2 DEF StreamOK
  <2>4. n \in Nat /\ sequence[d] + n <= Len(Stream(sent[d], atEnd))
    BY <1>2, <1>3, <2>1
  <2>5. n <= Len(data[d])
    BY Zenon, <1>3, <2>3, <2>4, RestDrop
  <2>6. Len(data[d]) \in Nat
    BY <2>3 DEF Rest, Piece
  <2> QED
    BY <2>1, <2>2, <2>4, <2>5, <2>6
<1>5. fails = {}
  BY Zenon, <1>4 DEF Fails
<1>6. /\ UNCHANGED <<numBuffers, deleted, noMoreBroadcastBuffers,
                     dataToBroadcast, atEnd, notify, notifySequence,
                     produced, sent, removed, requestPending, sourceSequence,
                     sourceAtEnd, closed, received, requests, deletes,
                     delivery>>
      /\ acks' = acks \ {<<d, s>>}
      /\ failed' = failed \cup fails
  BY Zenon
  DEF Acknowledge, bufferVars, endVars, driverVars, taskVars, sourceVars
<1>7. CASE ignored
  <2>1. UNCHANGED <<data, sequence, sizeVars, releasing>>
    BY Zenon, <1>7 DEF Acknowledge
  <2> HIDE DEF fails
  <2> QED
    BY Zenon, <1>2, <1>5, <1>6, <2>1
<1>8. CASE ~ignored
  <2>1. /\ data' = [data EXCEPT ![d] = SubSeq(@, n + 1, Len(@))]
        /\ sequence' = [sequence EXCEPT ![d] = s]
        /\ UpdateAfterAcknowledge(<<"ack", d>>, Dropped(data[d], n),
                                  data', dataToBroadcast, FALSE)
    BY Zenon, <1>5, <1>8 DEF Acknowledge
  <2>2. Acknowledged(d, s)
    BY Zenon, <1>4, <1>8, <2>1 DEF Acknowledged
  <2> HIDE DEF fails
  <2> QED
    BY Zenon, <1>2, <1>5, <1>6, <2>2
<1> QED
  BY Zenon, <1>7, <1>8

\* An acknowledgement drops the pages that the source has got.
LEMMA StreamAcknowledge ==
  ASSUME DriversOK, BuffersOK, StreamsOK, NEW d \in Destinations,
         NEW s \in 0 .. MaxPages, Acknowledge(d, s), NEW e \in Destinations
  PROVE  StreamOK(e)'
<1>1. StreamOK(e) /\ atEnd \in BOOLEAN
  BY Zenon DEF StreamsOK, DriversOK
<1>2. /\ UNCHANGED <<numBuffers, deleted, noMoreBroadcastBuffers,
                     dataToBroadcast, atEnd, notify, notifySequence, sent,
                     sourceSequence, received, delivery>>
      /\ s <= Len(received[d])
      /\ \/ UNCHANGED <<data, sequence, sizeVars, releasing>>
         \/ Acknowledged(d, s)
  BY Zenon, AcknowledgeCases
<1>3. Live' = Live
  BY Zenon, <1>2 DEF Live
<1>4. CASE Acknowledged(d, s) /\ e = d
  <2>1. /\ e \in Live /\ s > sequence[e]
        /\ data'[e] = SubSeq(data[e], s - sequence[e] + 1, Len(data[e]))
        /\ sequence'[e] = s
    <3>1. e \in DOMAIN data /\ e \in DOMAIN sequence
      BY Zenon DEF StreamsOK
    <3> QED
      BY Zenon, <1>4, <3>1 DEF Acknowledged
  <2>2. Rest(data[e], sequence[e], Stream(sent[e], atEnd))
    BY Zenon, <1>1, <2>1 DEF StreamOK
  <2>3. /\ sequence[e] \in Nat /\ s - sequence[e] \in Nat
        /\ sequence[e] + (s - sequence[e]) = s
        /\ s <= Len(Stream(sent[e], atEnd))
        /\ Stream(sent[e], atEnd) \in Seq(Items)
        /\ s \in 0 .. Len(received[e])
    <3>1. /\ Len(Stream(sent[e], atEnd)) \in Nat
          /\ Stream(sent[e], atEnd) \in Seq(Items)
          /\ Len(sent[e]) \in Nat /\ Len(sent[e]) <= Len(Stream(sent[e], atEnd))
          /\ Len(received[e]) \in 0 .. Len(sent[e])
          /\ sequence[e] \in 0 .. Len(received[e])
      BY Zenon, <1>1, StreamNumbers
    <3>2. s <= Len(received[e])
      BY Zenon, <1>2, <1>4
    <3> QED
      BY SMTT(60), <2>1, <3>1, <3>2, OutputAssumption
  <2>4. Rest(SubSeq(data[e], (s - sequence[e]) + 1, Len(data[e])),
             sequence[e] + (s - sequence[e]), Stream(sent[e], atEnd))
    BY Zenon, <2>2, <2>3, RestDrop
  <2>5. Rest(data'[e], s, Stream(sent[e], atEnd))
    BY Zenon, <2>1, <2>3, <2>4
  <2>6. e \notin notify
    <3>1. ASSUME e \in notify PROVE FALSE
      <4>1. sequence[e] = sourceSequence[e] /\ sourceSequence[e] = Len(received[e])
        BY Zenon, <1>1, <3>1 DEF StreamOK
      <4>2. sequence[e] \in Nat /\ s \in Nat
        BY <2>3
      <4> QED
        BY SMTT(60), <2>1, <2>3, <4>1, <4>2
    <3> QED
      BY Zenon, <3>1
  <2> QED
    BY Zenon, <1>1, <1>2, <1>3, <2>1, <2>3, <2>5, <2>6 DEF StreamOK
<1>5. CASE ~(Acknowledged(d, s) /\ e = d)
  <2>1. data'[e] = data[e] /\ sequence'[e] = sequence[e]
    <3>1. e \in DOMAIN data /\ e \in DOMAIN sequence
      BY Zenon DEF StreamsOK
    <3> QED
      BY Zenon, <1>2, <1>5, <3>1 DEF Acknowledged
  <2> QED
    BY Zenon, <1>1, <1>2, <1>3, <2>1, StreamKept
<1> QED
  BY Zenon, <1>4, <1>5

\* deleteResults of a buffer that is there.
Deletes(d, why) ==
  /\ d \in Live /\ ~removed
  /\ deleted' = deleted \cup {d}
  /\ data' = [data EXCEPT ![d] = <<>>]
  /\ Notify({d}, data')
  /\ UpdateAfterAcknowledge(<<why, d>>, Dropped(data[d], Len(data[d])), data',
       dataToBroadcast,
       IsFinished(numBuffers, deleted \cup {d}, noMoreBroadcastBuffers))
  /\ sequence' = sequence /\ failed' = failed

\* What PartitionedOutputBuffer::deleteResults does, whether the buffer is known or not.
LEMMA DeleteCases ==
  ASSUME BuffersOK, NEW d \in Destinations, NEW why, DeleteResults(d, why)
  PROVE  /\ UNCHANGED <<numBuffers, noMoreBroadcastBuffers, dataToBroadcast,
                        atEnd, produced, sent, removed, requestPending,
                        sourceSequence, sourceAtEnd, closed, received, requests,
                        acks>>
         /\ <<d, why>> \in deletes
         /\ deletes' = deletes \ {<<d, why>>}
         /\ \/ /\ UNCHANGED <<deleted, sizeVars, destVars, delivery, releasing>>
               /\ \/ failed' = failed
                  \/ /\ failed' = failed \cup {"deleteUnknown"}
                     /\ d > numBuffers
            \/ Deletes(d, why)
<1>1. /\ UNCHANGED <<numBuffers, noMoreBroadcastBuffers, dataToBroadcast,
                     atEnd, produced, sent, removed, requestPending,
                     sourceSequence, sourceAtEnd, closed, received, requests,
                     acks>>
      /\ <<d, why>> \in deletes
      /\ deletes' = deletes \ {<<d, why>>}
  BY Zenon DEF DeleteResults, driverVars, taskVars, sourceVars
<1>2. CASE removed \/ d \in deleted \/ d > numBuffers
  <2>1. /\ UNCHANGED <<deleted, sizeVars, destVars, delivery, releasing>>
        /\ failed' = failed \cup
                       Fails("deleteUnknown", ~removed /\ d > numBuffers)
    BY Zenon, <1>2 DEF DeleteResults
  <2>2. CASE d > numBuffers /\ ~removed
    <3>1. Fails("deleteUnknown", ~removed /\ d > numBuffers) = {"deleteUnknown"}
      BY Zenon, <2>2 DEF Fails
    <3> QED
      BY Zenon, <1>1, <2>1, <2>2, <3>1
  <2>3. CASE ~(d > numBuffers /\ ~removed)
    <3>1. Fails("deleteUnknown", ~removed /\ d > numBuffers) = {}
      BY Zenon, <2>3 DEF Fails
    <3>2. failed' = failed
      BY Zenon, <2>1, <3>1
    <3> QED
      BY Zenon, <1>1, <2>1, <3>2
  <2> QED
    BY Zenon, <2>2, <2>3
<1>3. CASE ~(removed \/ d \in deleted \/ d > numBuffers)
  <2>1. d \in Live
    BY Zenon, <1>3, LiveOrLater
  <2>2. Deletes(d, why)
    BY Zenon, <1>3, <2>1 DEF DeleteResults, Deletes
  <2> QED
    BY Zenon, <1>1, <2>2
<1> QED
  BY Zenon, <1>2, <1>3

\* A deleted buffer is empty, and a source that waited gets an empty answer.
LEMMA StreamDelete ==
  ASSUME DriversOK, BuffersOK, RequestsOK, StreamsOK, NEW d \in Destinations,
         NEW why, DeleteResults(d, why), NEW e \in Destinations
  PROVE  StreamOK(e)'
<1>1. StreamOK(e) /\ atEnd \in BOOLEAN
  BY Zenon DEF StreamsOK, DriversOK
<1>2. UNCHANGED <<numBuffers, noMoreBroadcastBuffers, dataToBroadcast, atEnd,
                  sent, sourceSequence, received>>
  BY Zenon, DeleteCases
<1>3. CASE UNCHANGED <<deleted, sizeVars, destVars, delivery, releasing>>
  <2>1. UNCHANGED <<deleted, data, sequence, notify, notifySequence, delivery>>
    BY Zenon, <1>3 DEF destVars
  <2>2. Live' = Live
    BY Zenon, <1>2, <2>1 DEF Live
  <2> QED
    BY Zenon, <1>1, <1>2, <2>1, <2>2, StreamKept
<1>4. CASE Deletes(d, why)
  <2>1. /\ data' = [data EXCEPT ![d] = <<>>] /\ sequence' = sequence
        /\ deleted' = deleted \cup {d}
        /\ Notify({d}, data')
    BY Zenon, <1>4 DEF Deletes
  <2>2. /\ notify' = notify \ {d}
        /\ e \in DOMAIN delivery' <=>
             e \in DOMAIN delivery \/ (e = d /\ e \in notify)
        /\ e \in DOMAIN delivery /\ ~(e = d /\ e \in notify) =>
             delivery'[e] = delivery[e]
        /\ e # d => notifySequence'[e] = notifySequence[e]
    <3> DEFINE D == {d}
    <3>1. Notify(D, data')
      BY Zenon, <2>1
    <3>2. \A f : f \in D <=> f = d
      BY Zenon
    <3> HIDE DEF D
    <3>3. /\ notify' = notify \ D
          /\ DOMAIN delivery' = DOMAIN delivery \cup (D \cap notify)
          /\ e \in DOMAIN delivery /\ e \notin D \cap notify =>
               delivery'[e] = delivery[e]
          /\ e \notin D => notifySequence'[e] = notifySequence[e]
      BY ZenonT(30), <3>1, NotifySets
    <3> QED
      BY Zenon, <3>2, <3>3
  <2>3. CASE e # d
    <3>1. data'[e] = data[e] /\ (e \in Live' <=> e \in Live)
      BY Zenon, <1>2, <2>1, <2>3 DEF StreamsOK, Live
    <3> QED
      BY Zenon, <1>1, <1>2, <2>1, <2>2, <2>3, <3>1, StreamKept
  <2>4. CASE e = d
    <3>1. data'[e] = <<>> /\ e \notin Live' /\ e \notin notify'
      BY Zenon, <2>1, <2>2, <2>4 DEF StreamsOK, Live
    <3>2. CASE e \in notify
      <4>1. /\ delivery'[e].sequence = notifySequence[e]
            /\ delivery'[e].pages =
                 Fetched(data'[e], notifySequence[e] - sequence[e])
        <5>1. Notify({d}, data') /\ e \in {d} /\ e \in notify
          BY Zenon, <2>1, <2>4, <3>2
        <5> QED
          BY Zenon, <5>1, NotifyAnswers
      <4>2. /\ notifySequence[e] = sequence[e]
            /\ sequence[e] = sourceSequence[e]
        BY Zenon, <1>1, <3>2 DEF StreamOK
      <4>3. /\ sequence[e] \in Nat
            /\ Len(received[e]) \in Nat
            /\ Len(received[e]) <= Len(Stream(sent[e], atEnd))
            /\ Stream(sent[e], atEnd) \in Seq(Items)
        BY <1>1, StreamNumbers
      <4>4. notifySequence[e] - sequence[e] = 0
        BY <4>2, <4>3
      <4>5. Piece(Fetched(<<>>, 0), Len(received[e]), Stream(sent[e], atEnd))
        BY Zenon, <4>3, PieceEmpty
      <4>6. /\ delivery'[e].sequence = sourceSequence[e]
            /\ Piece(delivery'[e].pages, Len(received[e]),
                     Stream(sent[e], atEnd))
        BY Zenon, <3>1, <4>1, <4>2, <4>4, <4>5
      <4> QED
        BY Zenon, <1>1, <1>2, <2>1, <3>1, <4>6 DEF StreamOK
    <3>3. CASE e \notin notify
      <4>1. e \in DOMAIN delivery' =>
              e \in DOMAIN delivery /\ delivery'[e] = delivery[e]
        BY Zenon, <2>2, <3>3
      <4> QED
        BY Zenon, <1>1, <1>2, <2>1, <3>1, <4>1 DEF StreamOK
    <3> QED
      BY Zenon, <3>2, <3>3
  <2> QED
    BY Zenon, <2>3, <2>4
<1> QED
  BY Zenon, <1>3, <1>4, DeleteCases

\* An answer comes in order: nothing of it is dropped as known already, its
\* pages follow those received, and only the last answer has the end marker.
LEMMA DeliverSets ==
  ASSUME DriversOK, StreamsOK, NEW d \in Destinations, Deliver(d)
  PROVE  \E w \in Seq(Pages), ended \in BOOLEAN :
           /\ d \in DOMAIN delivery
           /\ delivery' = [e \in DOMAIN delivery \ {d} |-> delivery[e]]
           /\ received' = [received EXCEPT ![d] = @ \o w]
           /\ sourceSequence' = [sourceSequence EXCEPT
                                   ![d] = sourceSequence[d] + Len(w)]
           /\ Len(received[d]) + Len(w) <= Len(sent[d])
           /\ \A i \in 1 .. Len(w) : w[i] = sent[d][Len(received[d]) + i]
           /\ ended => /\ atEnd
                       /\ Len(received[d]) + Len(w) = Len(sent[d])
                       /\ sourceAtEnd' = sourceAtEnd \cup {d}
                       /\ deletes' = deletes \cup {<<d, "end">>}
                       /\ acks' = acks
           /\ ~ended => /\ sourceAtEnd' = sourceAtEnd
                        /\ deletes' = deletes
                        /\ acks' = acks \cup {<<d, sourceSequence[d] + Len(w)>>}
<1> DEFINE pages == delivery[d].pages
           fresh == SubSeq(pages, (sourceSequence[d] - delivery[d].sequence) + 1,
                           Len(pages))
           ended == \E i \in DOMAIN pages : pages[i] = End
           w == WithoutEnd(pages)
<1>1. StreamOK(d) /\ atEnd \in BOOLEAN /\ d \in DOMAIN delivery
  BY Zenon DEF StreamsOK, DriversOK, Deliver
<1>2. /\ delivery[d].sequence = sourceSequence[d]
      /\ Piece(pages, Len(received[d]), Stream(sent[d], atEnd))
  BY Zenon, <1>1 DEF StreamOK
<1>3. /\ sourceSequence[d] \in Nat
      /\ sent[d] \in Seq(Pages)
      /\ Len(received[d]) \in 0 .. Len(sent[d])
  BY Zenon, <1>1, StreamNumbers
<1>4. pages \in Seq(Items)
  BY Zenon, <1>2 DEF Piece, Items
<1>5. fresh = pages
  <2>1. (sourceSequence[d] - delivery[d].sequence) + 1 = 1
    BY <1>2, <1>3
  <2> HIDE DEF pages
  <2>2. SubSeq(pages, 1, Len(pages)) = pages
    BY <1>4
  <2> QED
    BY Zenon, <2>1, <2>2
<1>6. /\ delivery' = [e \in DOMAIN delivery \ {d} |-> delivery[e]]
      /\ received' = [received EXCEPT ![d] = @ \o WithoutEnd(fresh)]
      /\ sourceSequence' = [sourceSequence EXCEPT
                              ![d] = sourceSequence[d] + Len(WithoutEnd(fresh))]
      /\ IF \E i \in DOMAIN fresh : fresh[i] = End
         THEN /\ sourceAtEnd' = sourceAtEnd \cup {d}
              /\ deletes' = deletes \cup {<<d, "end">>}
              /\ acks' = acks
         ELSE /\ sourceAtEnd' = sourceAtEnd
              /\ deletes' = deletes
              /\ acks' = acks \cup
                   {<<d, sourceSequence[d] + Len(WithoutEnd(fresh))>>}
  BY Zenon DEF Deliver, AckSequence
<1> HIDE DEF fresh, pages
<1>7. /\ w \in Seq(Pages)
      /\ Len(received[d]) + Len(w) <= Len(sent[d])
      /\ \A i \in 1 .. Len(w) : w[i] = sent[d][Len(received[d]) + i]
  <2>1. /\ WithoutEnd(pages) \in Seq(Pages)
        /\ Len(received[d]) + Len(WithoutEnd(pages)) <= Len(sent[d])
        /\ \A i \in 1 .. Len(WithoutEnd(pages)) :
             /\ WithoutEnd(pages)[i] = sent[d][Len(received[d]) + i]
             /\ WithoutEnd(pages)[i] = pages[i]
    BY SMTT(30), <1>1, <1>2, <1>3, PieceWithoutEnd
  <2> QED
    BY Zenon, <2>1
<1>8. ended => atEnd /\ Len(received[d]) + Len(w) = Len(sent[d])
  <2>1. (\E i \in DOMAIN pages : pages[i] = End) =>
          atEnd /\ Len(received[d]) + Len(WithoutEnd(pages)) = Len(sent[d])
    BY SMTT(30), <1>1, <1>2, <1>3, PieceWithoutEnd
  <2> QED
    BY Zenon, <2>1
<1>9. ended => /\ sourceAtEnd' = sourceAtEnd \cup {d}
               /\ deletes' = deletes \cup {<<d, "end">>}
               /\ acks' = acks
  BY Zenon, <1>5, <1>6
<1>10. ~ended => /\ sourceAtEnd' = sourceAtEnd
                 /\ deletes' = deletes
                 /\ acks' = acks \cup {<<d, sourceSequence[d] + Len(w)>>}
  BY Zenon, <1>5, <1>6
<1>11. /\ received' = [received EXCEPT ![d] = @ \o w]
       /\ sourceSequence' = [sourceSequence EXCEPT
                               ![d] = sourceSequence[d] + Len(w)]
  BY Zenon, <1>5, <1>6
<1>12. ended \in BOOLEAN
  BY Zenon
<1> HIDE DEF w, ended
<1> QED
  BY Zenon, <1>1, <1>6, <1>7, <1>8, <1>9, <1>10, <1>11, <1>12

\* A source that gets an answer changes nothing in the buffers.
LEMMA DeliverKeeps ==
  ASSUME NEW d, Deliver(d)
  PROVE  /\ requestPending' = requestPending \ {d}
         /\ UNCHANGED <<numBuffers, deleted, noMoreBroadcastBuffers,
                        dataToBroadcast, totalSize, promises, atEnd, data,
                        sequence, notify, notifySequence, releasing, produced,
                        sent, removed, closed, requests, failed>>
  BY Zenon
  DEF Deliver, bufferVars, sizeVars, endVars, destVars, driverVars, taskVars

\* A source gets what comes after what it has got.
LEMMA StreamDeliver ==
  ASSUME DriversOK, BuffersOK, RequestsOK, StreamsOK, NEW d \in Destinations,
         Deliver(d), NEW e \in Destinations
  PROVE  /\ StreamOK(e)'
         /\ Len(received[e]) <= Len(received'[e])
<1>1. StreamOK(e) /\ atEnd \in BOOLEAN
  BY Zenon DEF StreamsOK, DriversOK
<1>2. UNCHANGED <<numBuffers, deleted, noMoreBroadcastBuffers, dataToBroadcast,
                  atEnd, data, sequence, notify, notifySequence, sent>>
  BY Zenon, DeliverKeeps
<1>3. PICK w \in Seq(Pages) :
        /\ d \in DOMAIN delivery
        /\ delivery' = [f \in DOMAIN delivery \ {d} |-> delivery[f]]
        /\ received' = [received EXCEPT ![d] = @ \o w]
        /\ sourceSequence' = [sourceSequence EXCEPT
                                ![d] = sourceSequence[d] + Len(w)]
        /\ Len(received[d]) + Len(w) <= Len(sent[d])
        /\ \A i \in 1 .. Len(w) : w[i] = sent[d][Len(received[d]) + i]
  BY Zenon, DeliverSets
<1>4. Live' = Live
  BY Zenon, <1>2 DEF Live
<1>5. e \in DOMAIN received /\ e \in DOMAIN sourceSequence
  BY Zenon DEF StreamsOK
<1>6. /\ Len(received[e]) \in Nat /\ sent[e] \in Seq(Pages)
      /\ sequence[e] \in 0 .. Len(received[e])
      /\ sourceSequence[e] = Len(received[e])
  BY Zenon, <1>1, StreamNumbers
<1>7. CASE e # d
  <2>1. /\ received'[e] = received[e] /\ sourceSequence'[e] = sourceSequence[e]
        /\ e \in DOMAIN delivery' =>
             e \in DOMAIN delivery /\ delivery'[e] = delivery[e]
    BY Zenon, <1>3, <1>5, <1>7
  <2>2. Len(received[e]) <= Len(received'[e])
    BY SMTT(30), <1>6, <2>1
  <2> QED
    BY Zenon, <1>1, <1>2, <1>4, <2>1, <2>2, StreamKept
<1>8. CASE e = d
  <2>1. /\ received'[e] = received[e] \o w
        /\ sourceSequence'[e] = sourceSequence[e] + Len(w)
        /\ e \notin DOMAIN delivery' /\ e \in DOMAIN delivery
    BY Zenon, <1>3, <1>5, <1>8
  <2>2. Piece(received[e], 0, sent[e])
    BY Zenon, <1>1 DEF StreamOK
  <2>3. /\ Piece(received[e] \o w, 0, sent[e])
        /\ Len(received[e] \o w) = Len(received[e]) + Len(w)
    BY ZenonT(30), <1>3, <1>6, <1>8, <2>2, PieceConcat
  <2>4. e \notin notify /\ e \in 1 .. numBuffers
    BY Zenon, <2>1 DEF RequestsOK
  <2>5. ~(e > numBuffers)
    BY <2>4, OutputAssumption DEF BuffersOK, Destinations
  <2>6. Len(w) \in Nat
    BY <1>3
  <2>7. /\ sequence[e] \in 0 .. Len(received'[e])
        /\ Len(received[e]) <= Len(received'[e])
        /\ sourceSequence'[e] = Len(received'[e])
    BY <1>6, <2>1, <2>3, <2>6
  <2>8. Piece(received'[e], 0, sent[e])
    BY Zenon, <2>1, <2>3
  <2> QED
    BY Zenon, <1>1, <1>2, <1>4, <2>1, <2>4, <2>5, <2>7, <2>8 DEF StreamOK
<1> QED
  BY Zenon, <1>7, <1>8

\* The functions on destinations stay such.
DomainsOK ==
  /\ DOMAIN sent = Destinations /\ DOMAIN received = Destinations
  /\ DOMAIN sequence = Destinations /\ DOMAIN sourceSequence = Destinations
  /\ DOMAIN notifySequence = Destinations /\ DOMAIN data = Destinations

\* Every call and message keeps each stream whole: received, on its way, and buffered.
LEMMA StreamsStep ==
  ASSUME DriversOK, BuffersOK, RequestsOK, StreamsOK, [Next]_vars
  PROVE  StreamsOK'
<1> DEFINE acksOK == \A m \in acks : /\ m[1] \in Destinations
                                     /\ m[2] \in 0 .. Len(received[m[1]])
<1>0. /\ DomainsOK /\ acksOK /\ produced \in 0 .. MaxPages
      /\ \A e \in Destinations : StreamOK(e)
  BY Zenon DEF StreamsOK, DomainsOK
<1>a. SUFFICES /\ DomainsOK' /\ acksOK' /\ produced' \in 0 .. MaxPages
               /\ \A e \in Destinations : StreamOK(e)'
  BY Zenon DEF StreamsOK, DomainsOK
<1>1. ASSUME NEW w \in Drivers, NEW d \in Destinations, NEW wait \in BOOLEAN,
             Enqueue(w, d, wait)
      PROVE  /\ DomainsOK' /\ acksOK' /\ produced' \in 0 .. MaxPages
             /\ \A e \in Destinations : StreamOK(e)'
  <2>1. \A e \in Destinations : StreamOK(e)'
    BY Zenon, <1>1, StreamEnqueue
  <2>2. UNCHANGED <<acks, received, sequence, sourceSequence>>
    BY Zenon, <1>1 DEF Enqueue, sourceVars
  <2>3. DomainsOK'
    BY Zenon, <1>0, <1>1, <2>2 DEF Enqueue, Notify, DomainsOK
  <2>4. produced' = produced + 1 /\ produced < MaxPages
    BY Zenon, <1>1 DEF Enqueue
  <2>5. produced' \in 0 .. MaxPages
    BY <1>0, <2>4, OutputAssumption
  <2> QED
    BY Zenon, <1>0, <2>1, <2>2, <2>3, <2>5
<1>2. ASSUME NEW n \in Nat, n <= numDrivers, CheckIfDone(n), ~atEnd,
             UNCHANGED <<sent, received, sequence, sourceSequence, bufferVars,
                         acks, produced>>
      PROVE  /\ DomainsOK' /\ acksOK' /\ produced' \in 0 .. MaxPages
             /\ \A e \in Destinations : StreamOK(e)'
  <2>1. \A e \in Destinations : StreamOK(e)'
    BY Zenon, <1>2, StreamDone
  <2>2. DomainsOK'
    BY Zenon, <1>0, <1>2 DEF CheckIfDone, Notify, DomainsOK
  <2> QED
    BY Zenon, <1>0, <1>2, <2>1, <2>2
<1>3. ASSUME NEW w \in Drivers, NoMoreData(w)
      PROVE  /\ DomainsOK' /\ acksOK' /\ produced' \in 0 .. MaxPages
             /\ \A e \in Destinations : StreamOK(e)'
  <2>1. /\ driverState[w] # "done" /\ CheckIfDone(numFinished + 1)
        /\ UNCHANGED <<sent, received, sequence, sourceSequence, bufferVars,
                       acks, produced>>
    BY Zenon, <1>3 DEF NoMoreData, sourceVars
  <2>2. ~atEnd /\ numFinished + 1 \in Nat /\ numFinished + 1 <= numDrivers
    BY Zenon, <2>1, NextFinished
  <2> HIDE DEF acksOK
  <2> QED
    BY Zenon, <1>2, <2>1, <2>2
<1>4. ASSUME NoMoreDrivers
      PROVE  /\ DomainsOK' /\ acksOK' /\ produced' \in 0 .. MaxPages
             /\ \A e \in Destinations : StreamOK(e)'
  <2>1. /\ noMoreDriversCall /\ CheckIfDone(numFinished)
        /\ UNCHANGED <<sent, received, sequence, sourceSequence, bufferVars,
                       acks, produced>>
    BY Zenon, <1>4 DEF NoMoreDrivers, sourceVars, driverVars
  <2>2. ~atEnd /\ numFinished \in Nat /\ numFinished <= numDrivers
    BY Zenon, <2>1, NextFinished
  <2> HIDE DEF acksOK
  <2> QED
    BY Zenon, <1>2, <2>1, <2>2
<1>5. ASSUME NEW n \in Destinations, NEW noMore \in BOOLEAN,
             UpdateBroadcastOutputBuffers(n, noMore)
      PROVE  /\ DomainsOK' /\ acksOK' /\ produced' \in 0 .. MaxPages
             /\ \A e \in Destinations : StreamOK(e)'
  <2>1. \A e \in Destinations : StreamOK(e)'
    BY Zenon, <1>5, StreamUpdate
  <2>2. /\ UNCHANGED <<acks, received, sequence, sourceSequence, sent, produced,
                       notifySequence>>
        /\ data' = AddedBuffers(n)
    BY Zenon, <1>5
    DEF UpdateBroadcastOutputBuffers, sourceVars, driverVars, messageVars
  <2>3. DomainsOK'
    BY Zenon, <1>0, <2>2 DEF DomainsOK, AddedBuffers
  <2> QED
    BY Zenon, <1>0, <2>1, <2>2, <2>3
<1>6. ASSUME NEW d \in Destinations, GetData(d)
      PROVE  /\ DomainsOK' /\ acksOK' /\ produced' \in 0 .. MaxPages
             /\ \A e \in Destinations : StreamOK(e)'
  <2>1. \A e \in Destinations : StreamOK(e)'
    BY Zenon, <1>6, StreamGetData
  <2>2. UNCHANGED <<acks, received, sourceSequence, sent, produced>>
    BY Zenon, <1>6, GetDataKeeps
  <2>3. /\ DOMAIN data' = Destinations /\ DOMAIN sequence' = Destinations
        /\ DOMAIN notifySequence' = Destinations
    <3>1. CASE Refused(d)
      BY Zenon, <1>0, <3>1 DEF Refused, DomainsOK, destVars
    <3>2. CASE Served(d)
      <4>1. DOMAIN AfterGet(d) = Destinations
        BY Zenon, <1>0 DEF AfterGet, AddedBuffers, DomainsOK
      <4> QED
        BY Zenon, <1>0, <3>2, <4>1 DEF Served, DomainsOK
    <3> QED
      BY Zenon, <1>6, <3>1, <3>2, GetDataCases
  <2>4. DomainsOK'
    BY Zenon, <1>0, <2>2, <2>3 DEF DomainsOK
  <2> QED
    BY Zenon, <1>0, <2>1, <2>2, <2>4
<1>7. ASSUME NEW d \in Destinations, NEW s \in 0 .. MaxPages, Acknowledge(d, s)
      PROVE  /\ DomainsOK' /\ acksOK' /\ produced' \in 0 .. MaxPages
             /\ \A e \in Destinations : StreamOK(e)'
  <2>1. \A e \in Destinations : StreamOK(e)'
    BY Zenon, <1>7, StreamAcknowledge
  <2>2. /\ UNCHANGED <<received, sourceSequence, sent, produced, notifySequence>>
        /\ acks' \subseteq acks
        /\ \/ UNCHANGED <<data, sequence>>
           \/ Acknowledged(d, s)
    BY Zenon, <1>7, AcknowledgeCases
  <2>3. DomainsOK'
    BY Zenon, <1>0, <2>2 DEF DomainsOK, Acknowledged
  <2> QED
    BY Zenon, <1>0, <2>1, <2>2, <2>3
<1>8. ASSUME NEW d \in Destinations, NEW why \in {"end", "close"},
             DeleteResults(d, why)
      PROVE  /\ DomainsOK' /\ acksOK' /\ produced' \in 0 .. MaxPages
             /\ \A e \in Destinations : StreamOK(e)'
  <2>1. \A e \in Destinations : StreamOK(e)'
    BY Zenon, <1>8, StreamDelete
  <2>2. /\ UNCHANGED <<acks, received, sourceSequence, sent, produced>>
        /\ \/ UNCHANGED <<data, sequence, notifySequence>>
           \/ Deletes(d, why)
    BY Zenon, <1>8, DeleteCases DEF destVars
  <2>3. DomainsOK'
    BY Zenon, <1>0, <2>2 DEF DomainsOK, Deletes, Notify
  <2> QED
    BY Zenon, <1>0, <2>1, <2>2, <2>3
<1>9. ASSUME NEW d \in Destinations, Deliver(d)
      PROVE  /\ DomainsOK' /\ acksOK' /\ produced' \in 0 .. MaxPages
             /\ \A e \in Destinations : StreamOK(e)'
  <2>1. \A e \in Destinations :
          StreamOK(e)' /\ Len(received[e]) <= Len(received'[e])
    BY Zenon, <1>9, StreamDeliver
  <2>2. UNCHANGED <<data, sequence, notifySequence, sent, produced>>
    BY Zenon, <1>9, DeliverKeeps
  <2>3. PICK w \in Seq(Pages) :
          /\ received' = [received EXCEPT ![d] = @ \o w]
          /\ sourceSequence' = [sourceSequence EXCEPT
                                  ![d] = sourceSequence[d] + Len(w)]
          /\ acks' \subseteq acks \cup {<<d, sourceSequence[d] + Len(w)>>}
    BY Zenon, <1>9, DeliverSets
  <2>4. DomainsOK'
    BY Zenon, <1>0, <2>2, <2>3 DEF DomainsOK
  <2>5. sourceSequence[d] + Len(w) \in 0 .. Len(received'[d])
    <3>1. /\ sourceSequence'[d] = sourceSequence[d] + Len(w)
          /\ sourceSequence'[d] = Len(received'[d])
      BY Zenon, <1>0, <2>1, <2>3 DEF DomainsOK, StreamOK
    <3>2. StreamOK(d) /\ atEnd \in BOOLEAN
      BY Zenon, <1>0 DEF DriversOK
    <3>3. sourceSequence[d] \in Nat /\ Len(w) \in Nat
      BY SMTT(30), <2>3, <3>2, StreamNumbers
    <3> QED
      BY <3>1, <3>3
  <2>6. ASSUME NEW m \in acks'
        PROVE  m[1] \in Destinations /\ m[2] \in 0 .. Len(received'[m[1]])
    <3>1. CASE m \in acks
      <4>1. m[1] \in Destinations /\ m[2] \in 0 .. Len(received[m[1]])
        BY Zenon, <1>0, <3>1
      <4>2. PICK e \in Destinations : e = m[1]
        BY Zenon, <4>1
      <4>3. Len(received'[e]) \in Nat /\ Len(received[e]) \in Nat
        <5>1. received'[e] \in Seq(Items) /\ received[e] \in Seq(Items)
          BY Zenon, <1>0, <2>1 DEF StreamOK, Piece, Items
        <5> QED
          BY <5>1
      <4>4. Len(received[e]) <= Len(received'[e])
        BY Zenon, <2>1
      <4> QED
        BY <4>1, <4>2, <4>3, <4>4
    <3>2. CASE m = <<d, sourceSequence[d] + Len(w)>>
      BY Zenon, <2>5, <3>2
    <3> QED
      BY Zenon, <2>3, <2>6, <3>1, <3>2
  <2> QED
    BY Zenon, <1>0, <2>1, <2>2, <2>4, <2>6
<1>10. ASSUME \/ UpdateNumDrivers \/ RemoveTask
              \/ \E r \in releasing : Release(r)
              \/ \E d \in Destinations : Request(d) \/ Close(d)
              \/ UNCHANGED vars
       PROVE  /\ DomainsOK' /\ acksOK' /\ produced' \in 0 .. MaxPages
              /\ \A e \in Destinations : StreamOK(e)'
  <2>1. UNCHANGED <<numBuffers, deleted, noMoreBroadcastBuffers,
                    dataToBroadcast, atEnd, data, sequence, notify,
                    notifySequence, sent, produced, received, sourceSequence,
                    acks, delivery>>
    BY Zenon, <1>10
    DEF UpdateNumDrivers, RemoveTask, Release, Request, Close, vars, bufferVars,
        endVars, destVars, driverVars, sourceVars, messageVars
  <2>2. Live' = Live
    BY Zenon, <2>1 DEF Live
  <2>3. \A e \in Destinations : StreamOK(e)'
    BY Zenon, <1>0, <2>1, <2>2, StreamKept
  <2>4. DomainsOK'
    BY Zenon, <1>0, <2>1 DEF DomainsOK
  <2> QED
    BY Zenon, <1>0, <2>1, <2>3, <2>4
<1> HIDE DEF acksOK
<1> QED
  BY Zenon, <1>1, <1>3, <1>4, <1>5, <1>6, <1>7, <1>8, <1>9, <1>10 DEF Next

=============================================================================
