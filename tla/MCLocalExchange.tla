--------------------------- MODULE MCLocalExchange ---------------------------
(***************************************************************************)
(* The instance of LocalExchange that TLC checks: two producers and two    *)
(* queues, the second of which may be closed before its end.  Between them *)
(* the producers can make one vector more than BoundedBuffer allows to be  *)
(* queued.                                                                 *)
(***************************************************************************)
EXTENDS LocalExchange, TLC

CONSTANTS p1, p2

MCProducers == {p1, p2}
MCMaxInputs == p1 :> 3 @@ p2 :> 2
MCInputParts == p1 :> {{1, 2}} @@ p2 :> {{1}, {1, 2}}
MCEarlyClosers == {2}

=============================================================================
