---------------------------- MODULE CycleSplitter ----------------------------
(***************************************************************************)
(* What an event builder promises about one readout cycle: the blocks it   *)
(* takes in leave it in events of one bunch crossing each, lowest crossing *)
(* first, every block exactly once, and the events are numbered in the     *)
(* order they leave.                                                       *)
(***************************************************************************)
EXTENDS Naturals

CONSTANT Block      \* the data blocks; records with a field bx

VARIABLES
  pool,             \* accepted blocks of the present cycle not yet in an event
  out,              \* the events of the present cycle: [nr, blocks]
  nr                \* number of the last event

vars == <<pool, out, nr>>

Crossing(S, b) == {p \in S : p.bx = b}

Init ==
  /\ pool = {}
  /\ out = {}
  /\ nr = 0

\* The next cycle comes in; the events of the previous one are all out.
Load ==
  /\ pool = {}
  /\ pool' \in SUBSET Block
  /\ out' = {}
  /\ nr' = nr

\* The lowest crossing left leaves as one event.
Emit ==
  /\ \E p \in pool :
       /\ \A q \in pool : p.bx <= q.bx
       /\ pool' = pool \ Crossing(pool, p.bx)
       /\ out' = out \cup {[nr |-> nr + 1, blocks |-> Crossing(pool, p.bx)]}
  /\ nr' = nr + 1

Next == Load \/ Emit

Spec == Init /\ [][Next]_vars
\* A cycle taken in is written out completely.
FairSpec == Spec /\ WF_vars(Emit)

=============================================================================
