-------------------------- MODULE MCCalibrationChain --------------------------
(* The hardware connections of the calibration chain for the model checker.  *)
EXTENDS CalibrationChain

CONSTANTS c1, c2

\* Every chip has its cell; or two chips are listed with the same one and a
\* third is not listed.
MCConnections ==
  {[k \in {1, 2, 3} |-> IF k = 1 THEN c1 ELSE c2], [k \in {1, 2} |-> c1]}
==============================================================================
