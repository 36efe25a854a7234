-------------------------------- MODULE TreeLog --------------------------------
(***************************************************************************)
(* What the root tree writers promise: each tree is a log of the events in  *)
(* their order, none twice, that only grows; what was saved stays saved;    *)
(* and in the end all of it is on disk.                                     *)
(***************************************************************************)
EXTENDS Integers, Sequences

CONSTANTS Trees, MaxEvents

VARIABLES
  log,          \* the numbers of the events in each tree
  onDisk        \* how many of its entries are in a file

logVars == <<log, onDisk>>

Init ==
  /\ log = [t \in Trees |-> <<>>]
  /\ onDisk = [t \in Trees |-> 0]

Later(t, n) == \A i \in DOMAIN log[t] : log[t][i] < n

\* An event is added to one tree; the trees of a file that is replaced are saved.
Fill(t, n) ==
  /\ Later(t, n)
  /\ log' = [log EXCEPT ![t] = Append(@, n)]
  /\ \A u \in Trees : onDisk'[u] \in {onDisk[u], Len(log'[u])}

\* Trees are saved as they are.
Save ==
  /\ UNCHANGED log
  /\ \A u \in Trees : onDisk'[u] \in {onDisk[u], Len(log[u])}

Next == Save \/ \E t \in Trees, n \in 1 .. MaxEvents : Fill(t, n)

SafeSpec == Init /\ [][Next]_logVars

AllOnDisk == \A t \in Trees : onDisk[t] = Len(log[t])

Spec == SafeSpec /\ <>[]AllOnDisk
=============================================================================
