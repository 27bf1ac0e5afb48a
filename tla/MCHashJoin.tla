----------------------------- MODULE MCHashJoin -----------------------------
(***************************************************************************)
(* The instance of HashJoin that TLC checks: two builders and two probers. *)
(* Four build rows let two partitions be spilled and each be spilled again *)
(* at the next level; the inner join, whose task may be terminated at any  *)
(* time, has two, of one builder, which the other has to help spill.       *)
(***************************************************************************)
EXTENDS HashJoin, TLC

CONSTANTS b1, b2, p1, p2

MCBuildInput ==
  [type \in JoinTypes |->
     IF type \in CancelledJoins
     THEN (b1 :> {<<b1, <<0, 0, 0>>>>, <<b1, <<1, 0, 0>>>>})
          @@ (b2 :> {})
     ELSE (b1 :> {<<b1, <<0, 0, 0>>>>, <<b1, <<0, 0, 1>>>>})
          @@ (b2 :> {<<b2, <<1, 0, 0>>>>, <<b2, <<1, 1, 0>>>>})]

MCProbeInput ==
  [type \in JoinTypes |->
     IF type \in CancelledJoins
     THEN (p1 :> {<<p1, <<0, 0, 0>>>>}) @@ (p2 :> {<<p2, <<1, 1, 0>>>>})
     ELSE (p1 :> {<<p1, <<0, 0, 0>>>>, <<p1, <<1, 1, 1>>>>})
          @@ (p2 :> {<<p2, <<1, 0, 0>>>>})]
=============================================================================
