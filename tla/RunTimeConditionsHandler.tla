------------------------ MODULE RunTimeConditionsHandler ------------------------
(***************************************************************************)
(* Conditions made during the job                                          *)
(* (calice_userlib/src/RunTimeConditionsHandler.cc): a processor hands     *)
(* over a collection, the handler owns it, gives it to the event and       *)
(* notifies the listeners, which keep the pointer until the next one.      *)
(* Collections are numbered in the order they are allocated; 0 is NULL.    *)
(***************************************************************************)
EXTENDS Integers

CONSTANT MaxObjects     \* bound: collections allocated in a run of the model

ASSUME ObjectsAssumption == MaxObjects \in Nat

VARIABLES
  col,                  \* _col
  lastValid,            \* _lastValidCollection
  default,              \* _defaultCol
  evt,                  \* does the handler know an event (_evt)?
  listener,             \* the pointer a listener was notified with
  allocated,            \* collections made so far
  frees                 \* how often each of them was deleted

handlerVars == <<col, lastValid, default, evt, listener, allocated, frees>>

NULL == 0
Objects == 1 .. MaxObjects

HandlerInit ==
  /\ col = NULL /\ lastValid = NULL /\ default = NULL
  /\ evt = FALSE /\ listener = NULL
  /\ allocated = 0
  /\ frees = [o \in Objects |-> 0]

Delete(f, o) == IF o = NULL THEN f ELSE [f EXCEPT ![o] = @ + 1]

\* Mutant: the listeners are notified before the collection is replaced.
ChosenBefore(new) == IF col # NULL THEN col ELSE new

\* The collection the listeners get; the default, once there is one.
Chosen(new) == IF default # NULL THEN default ELSE new

\* Mutant: the collection being replaced, which listeners still hold.
RetiredNow == col

\* The collection deleted when _col is replaced: the one before it.
Retired == lastValid

\* The default is not put aside: it belongs to the handler for good.
Retires == col # default

\* update(LCCollection*): a valid collection that is replaced is kept until the
\* next one; the event, if there is one, gets a pointer but not the ownership.
Update(new) ==
  /\ allocated' = new
  /\ IF Retires
     THEN frees' = Delete(frees, Retired) /\ lastValid' = col
     ELSE UNCHANGED <<frees, lastValid>>
  /\ col' = Chosen(new)
  /\ listener' = Chosen(new)
  /\ evt' = FALSE
  /\ UNCHANGED default

\* LCCD tells the handler of every event.
UpdateEvent ==
  /\ evt' = TRUE
  /\ UNCHANGED <<col, lastValid, default, listener, allocated, frees>>

\* A second default is refused with an exception, before anything changes.
RegisterDefaultCollection(new) ==
  /\ default = NULL
  /\ default' = new /\ allocated' = new
  /\ UNCHANGED <<col, lastValid, evt, listener, frees>>
-----------------------------------------------------------------------------
(* The handler used on its own *)

New == allocated + 1

Next ==
  \/ New \in Objects /\ (Update(New) \/ RegisterDefaultCollection(New))
  \/ ~evt /\ UpdateEvent

Spec == HandlerInit /\ [][Next]_handlerVars

\* What a listener or the handler itself may still read is not deleted, and no
\* collection is deleted twice, whenever a default is registered between the
\* updates (update).
NothingDangles ==
  /\ \A o \in {col, lastValid, default, listener} \ {NULL} : frees[o] = 0
  /\ \A o \in Objects : frees[o] <= 1

\* The collection that was valid before the present one can still be asked for:
\* lastValid is older than col and never the default (lastValidCollection).
LastValidIsOlder ==
  /\ lastValid # NULL => lastValid # col /\ lastValid # default
  /\ col # default /\ lastValid # NULL => lastValid < col

\* What the code says of itself and does not keep: listeners get the default
\* "if no data can be found" (RunTimeConditionsHandler.hh); they are notified
\* only when data was handed over, so they would never hold it.
DefaultOnlyWithoutData == listener = NULL \/ listener # default
=============================================================================
