--------------------- MODULE RunTimeConditionsHandler_proofs ---------------------
(***************************************************************************)
(* Nothing a listener or the handler still reads is deleted, for any       *)
(* number of updates and a default registered at any time between them.    *)
(***************************************************************************)
EXTENDS RunTimeConditionsHandler, TLAPS

Held(o) == o = col \/ o = lastValid \/ o = default

Pointers ==
  /\ allocated \in 0 .. MaxObjects
  /\ col \in 0 .. allocated /\ lastValid \in 0 .. allocated
  /\ default \in 0 .. allocated /\ listener \in 0 .. allocated

TypeOK ==
  /\ Pointers
  /\ evt \in BOOLEAN
  /\ frees \in [Objects -> {0, 1}]

\* Only what was allocated and is held no more has been deleted.
FreedOnceUnheld ==
  \A o \in Objects : frees[o] = 1 => o <= allocated /\ ~Held(o)

\* The listener holds what the handler holds, and there is an older collection
\* only if there is a present one.
ListenerFollows ==
  /\ listener = col
  /\ col = NULL => lastValid = NULL

IInv == TypeOK /\ FreedOnceUnheld /\ ListenerFollows /\ LastValidIsOlder

\* A new handler holds nothing.
LEMMA InitEstablishes == HandlerInit => IInv
<1> SUFFICES ASSUME HandlerInit PROVE IInv OBVIOUS
<1> USE ObjectsAssumption DEF ObjectsAssumption, HandlerInit, Objects, NULL
<1>1. Pointers
  BY DEF Pointers
<1>2. evt \in BOOLEAN
  OBVIOUS
<1>3. frees \in [Objects -> {0, 1}] /\ FreedOnceUnheld
  BY DEF FreedOnceUnheld
<1>4. ListenerFollows /\ LastValidIsOlder
  BY DEF ListenerFollows, LastValidIsOlder
<1>5. QED BY <1>1, <1>2, <1>3, <1>4 DEF IInv, TypeOK

\* Replacing a collection deletes the one before it, which nothing holds then.
LEMMA UpdatePreserves ==
  ASSUME IInv, New \in Objects, Update(New)
  PROVE  IInv'
<1> USE ObjectsAssumption DEF ObjectsAssumption, Objects, NULL, New
<1>1. /\ allocated' = allocated + 1 /\ default' = default /\ evt' = FALSE
      /\ col' = Chosen(New) /\ listener' = Chosen(New)
  BY DEF Update
<1>2. Chosen(New) \in {default, allocated + 1} /\ Chosen(New) # 0
  BY DEF Chosen, IInv, TypeOK, Pointers
<1>3. ListenerFollows'
  BY <1>1, <1>2 DEF ListenerFollows
<1>4. lastValid' \in {lastValid, col}
  BY DEF Update
<1>5. Pointers'
  BY <1>1, <1>2, <1>4 DEF IInv, TypeOK, Pointers
<1>6. evt' \in BOOLEAN
  BY <1>1
<1>7. ASSUME lastValid' = lastValid, frees' = frees, LastValidIsOlder'
      PROVE  IInv'
  <2>1. frees' \in [Objects -> {0, 1}]
    BY <1>7 DEF IInv, TypeOK
  <2>2. FreedOnceUnheld'
    BY <1>1, <1>2, <1>7 DEF IInv, TypeOK, Pointers, FreedOnceUnheld, Held
  <2>3. QED BY <1>3, <1>5, <1>6, <1>7, <2>1, <2>2 DEF IInv, TypeOK
<1>8. CASE col # default
  <2>1. lastValid' = col /\ frees' = Delete(frees, lastValid)
    BY <1>8 DEF Update, Retires, Retired
  <2>2. LastValidIsOlder'
    BY <1>1, <1>2, <1>8, <2>1 DEF LastValidIsOlder, IInv, TypeOK, Pointers
  <2>3. CASE lastValid = 0
    <3>1. frees' = frees
      BY <2>1, <2>3 DEF Delete
    <3>2. FreedOnceUnheld'
      BY <1>1, <1>2, <2>1, <3>1
      DEF IInv, TypeOK, Pointers, FreedOnceUnheld, Held
    <3>3. frees' \in [Objects -> {0, 1}]
      BY <3>1 DEF IInv, TypeOK
    <3>4. QED BY <1>3, <1>5, <1>6, <2>2, <3>2, <3>3 DEF IInv, TypeOK
  <2>4. CASE lastValid # 0
    <3>1. lastValid \in Objects /\ Held(lastValid)
      BY <2>4 DEF IInv, TypeOK, Pointers, Held
    <3>2. frees[lastValid] = 0
      BY <3>1 DEF IInv, TypeOK, FreedOnceUnheld
    <3>3. frees' = [frees EXCEPT ![lastValid] = 1]
      BY <2>1, <2>4, <3>1, <3>2 DEF Delete, IInv, TypeOK
    <3>4. frees' \in [Objects -> {0, 1}]
      BY <3>1, <3>3 DEF IInv, TypeOK
    <3>5. lastValid # col' /\ lastValid # lastValid' /\ lastValid # default'
      BY <1>1, <1>2, <2>1, <2>4 DEF IInv, TypeOK, Pointers, LastValidIsOlder
    <3>6. FreedOnceUnheld'
      BY <1>1, <1>2, <2>1, <3>1, <3>3, <3>5
      DEF IInv, TypeOK, Pointers, FreedOnceUnheld, Held
    <3>7. QED BY <1>3, <1>5, <1>6, <2>2, <3>4, <3>6 DEF IInv, TypeOK
  <2>5. QED BY <2>3, <2>4
<1>9. CASE col = default
  <2>1. frees' = frees /\ lastValid' = lastValid
    BY <1>9 DEF Update, Retires
  <2>2. LastValidIsOlder'
    BY <1>1, <1>2, <1>9, <2>1
    DEF LastValidIsOlder, IInv, TypeOK, Pointers, ListenerFollows, Chosen
  <2>3. QED BY <1>7, <2>1, <2>2
<1>10. QED BY <1>8, <1>9

\* A default is a new object; it becomes the one that is never retired.
LEMMA RegisterPreserves ==
  ASSUME IInv, New \in Objects, RegisterDefaultCollection(New)
  PROVE  IInv'
<1> USE ObjectsAssumption DEF ObjectsAssumption, Objects, NULL, New
<1>1. /\ allocated' = allocated + 1 /\ default = 0 /\ default' = allocated + 1
      /\ UNCHANGED <<col, lastValid, evt, listener, frees>>
  BY DEF RegisterDefaultCollection
<1>2. TypeOK' /\ ListenerFollows'
  BY <1>1 DEF IInv, TypeOK, Pointers, ListenerFollows
<1>3. FreedOnceUnheld'
  BY <1>1 DEF IInv, TypeOK, Pointers, FreedOnceUnheld, Held
<1>4. LastValidIsOlder'
  BY <1>1 DEF IInv, TypeOK, Pointers, LastValidIsOlder, ListenerFollows
<1>5. QED BY <1>2, <1>3, <1>4 DEF IInv

LEMMA NextPreserves == IInv /\ [Next]_handlerVars => IInv'
<1> SUFFICES ASSUME IInv, [Next]_handlerVars PROVE IInv' OBVIOUS
<1>1. CASE New \in Objects /\ Update(New)
  BY <1>1, UpdatePreserves
<1>2. CASE New \in Objects /\ RegisterDefaultCollection(New)
  BY <1>2, RegisterPreserves
<1>3. CASE UpdateEvent
  BY <1>3 DEF UpdateEvent, IInv, TypeOK, Pointers, FreedOnceUnheld, ListenerFollows,
              LastValidIsOlder, Held
<1>4. CASE UNCHANGED handlerVars
  BY <1>4 DEF handlerVars, IInv, TypeOK, Pointers, FreedOnceUnheld, ListenerFollows,
              LastValidIsOlder, Held
<1>5. QED BY <1>1, <1>2, <1>3, <1>4 DEF Next

THEOREM Invariance == Spec => []IInv
  BY InitEstablishes, NextPreserves, PTL DEF Spec

\* No pointer that is still read dangles and nothing is deleted twice, for any
\* number of collections (RunTimeConditionsHandler::update).
THEOREM NoDanglingCollection == Spec => []NothingDangles
<1>1. IInv => NothingDangles
  <2> SUFFICES ASSUME IInv PROVE NothingDangles OBVIOUS
  <2> USE ObjectsAssumption DEF ObjectsAssumption, Objects, NULL, IInv, TypeOK
  <2>1. \A o \in Objects : frees[o] \in {0, 1}
    OBVIOUS
  <2>2. \A o \in {col, lastValid, default, listener} \ {0} : o \in Objects /\ Held(o)
    BY DEF Pointers, Held, ListenerFollows
  <2>3. QED BY <2>1, <2>2 DEF NothingDangles, FreedOnceUnheld
<1>2. QED BY <1>1, Invariance, PTL

\* The collection kept back is always an earlier one than the present
\* (RunTimeConditionsHandler::lastValidCollection).
THEOREM OlderKept == Spec => []LastValidIsOlder
<1>1. IInv => LastValidIsOlder BY DEF IInv
<1>2. QED BY <1>1, Invariance, PTL
=============================================================================
