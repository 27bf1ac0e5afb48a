----------------------------- MODULE PageChannel ----------------------------
(***************************************************************************)
(* What a task's output promises to each of its consumers, whatever the    *)
(* buffering: the pages sent to a destination arrive in the order they     *)
(* were sent, none twice and none skipped, and the end of the data is      *)
(* announced once, after the last page.                                    *)
(***************************************************************************)
EXTENDS Integers, Sequences

CONSTANTS Destinations, Pages

VARIABLES
  sent,       \* the pages sent to each destination so far
  received,   \* the pages its consumer has got
  done,       \* no more pages will be sent
  ended       \* the destinations that were told so

channelVars == <<sent, received, done, ended>>

Init ==
  /\ sent = [d \in Destinations |-> <<>>]
  /\ received = [d \in Destinations |-> <<>>]
  /\ done = FALSE
  /\ ended = {}

\* A page goes to one destination, or to all of them.
Send(D, p) ==
  /\ ~done
  /\ sent' = [d \in Destinations |->
                IF d \in D THEN Append(sent[d], p) ELSE sent[d]]
  /\ UNCHANGED <<received, done, ended>>

Finish ==
  /\ ~done
  /\ done' = TRUE
  /\ UNCHANGED <<sent, received, ended>>

\* The consumer gets a few more pages and perhaps the news of the end.
Receive(d) ==
  /\ d \notin ended
  /\ \E n \in Len(received[d]) .. Len(sent[d]) :
       /\ received' = [received EXCEPT ![d] = SubSeq(sent[d], 1, n)]
       /\ \/ ended' = ended
          \/ done /\ n = Len(sent[d]) /\ ended' = ended \cup {d}
  /\ UNCHANGED <<sent, done>>

Next ==
  \/ \E p \in Pages, D \in SUBSET Destinations : Send(D, p)
  \/ Finish
  \/ \E d \in Destinations : Receive(d)

ChannelSpec == Init /\ [][Next]_channelVars
=============================================================================
