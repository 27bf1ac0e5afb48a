--------------------------- MODULE MCOutputBuffer ---------------------------
(***************************************************************************)
(* Small instances of OutputBuffer.                                        *)
(***************************************************************************)
EXTENDS OutputBuffer

CONSTANTS w1, w2    \* the drivers

OneDriver == {w1}
TwoDrivers == {w1, w2}
DriverSymmetry == {[w \in TwoDrivers |-> IF w = w1 THEN w2 ELSE w1],
                   [w \in TwoDrivers |-> w]}
=============================================================================
