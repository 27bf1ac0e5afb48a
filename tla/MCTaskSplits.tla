---------------------------- MODULE MCTaskSplits -----------------------------
(***************************************************************************)
(* The instance of TaskSplits that TLC checks: a table scan in grouped     *)
(* execution with two groups, one at a time, and an ungrouped exchange.    *)
(***************************************************************************)
EXTENDS TaskSplits, TLC

MCNumDrivers == "scan" :> 2 @@ "exchange" :> 1
MCSplitsOf == "scan" :> <<"s1", "s2", "s3">> @@ "exchange" :> <<"r1">>
MCGroupOf == "s1" :> 1 @@ "s2" :> 2 @@ "s3" :> 1 @@ "r1" :> Ungrouped

=============================================================================
