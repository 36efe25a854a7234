------------------------------ MODULE MCSlowControl ------------------------------
(* Mappings and readings of the slow control for the model checker. *)
EXTENDS SlowControl, TLC

\* The right mapping, two modules exchanged, a module left out and
\* a label that may lie outside, and a label lost.
MCMappings ==
  { [m \in {1, 2} |-> [cmb |-> m, hv |-> m]],
    [m \in {1, 2} |-> [cmb |-> 3 - m, hv |-> m]],
    [m \in {1} |-> [cmb |-> 2, hv |-> m]],
    [m \in {1, 2} |-> [cmb |-> IF m = 1 THEN 1 ELSE Lost, hv |-> m]] }

\* All sensors read and good; one bad, and all bad
\* with a third temperature of no sensor; a list too short and one that is
\* empty; modules that are missing, one of them with a list too short and bad.
MCReadings ==
  { [m \in {1, 2} |-> <<"good", "good">>],
    (1 :> <<"good", "bad">> @@ 2 :> <<"bad", "bad", "good">>),
    (1 :> <<"good">> @@ 2 :> <<>>),
    [m \in {1} |-> <<"good", "good">>], [m \in {2} |-> <<"bad">>] }

MCCalibrated == {{1}, {1, 2}}
=============================================================================
