------------------------- MODULE PedestalProcessor_proofs -------------------------
(***************************************************************************)
(* The processor uses the conditions handler as it is meant to be used, so *)
(* what is proved of the handler holds of the collections of pedestals;    *)
(* averages, sums and counter agree through every reset, for any cells,    *)
(* target and number of events.                                            *)
(***************************************************************************)
EXTENDS PedestalProcessor, RunTimeConditionsHandler_proofs, FiniteSetTheorems

\* The next event of a run, with a name for each of its inputs.
LEMMA EventTaken ==
  ASSUME PedNext
  PROVE  \E conf \in Confs, trigger \in Triggers, data \in BOOLEAN,
            blocks \in SUBSET Cells, remap \in BOOLEAN :
           ProcessEvent(conf, trigger, data, blocks, remap)
  BY DEF PedNext

-----------------------------------------------------------------------------
(* The handler behind the processor.                                         *)

\* An event publishes, or lets the framework tell the handler of the event.
LEMMA EventIsHandlerStep == [PedNext]_allVars => [Next]_handlerVars
<1>1. CASE UNCHANGED allVars
  BY <1>1 DEF allVars
<1>2. CASE PedNext
  <2>1. PICK conf \in Confs, trigger \in Triggers, data \in BOOLEAN,
             blocks \in SUBSET Cells, remap \in BOOLEAN :
          ProcessEvent(conf, trigger, data, blocks, remap)
    BY <1>2, EventTaken
  <2>2. PublishOrNot(conf, trigger, Remapped(ped, remap))
    BY <2>1 DEF ProcessEvent
  <2>3. CASE New \in Objects /\ Update(New)
    BY <2>3 DEF Next
  <2>4. CASE /\ UNCHANGED <<col, lastValid, default, listener, allocated, frees>>
             /\ evt' = TRUE
    BY <2>4 DEF Next, UpdateEvent, handlerVars
  <2>5. QED BY <2>2, <2>3, <2>4 DEF PublishOrNot, Publish
<1>3. QED BY <1>1, <1>2

\* The collections of pedestals are kept and deleted as the handler's specification
\* allows (PedestalProcessor::processEvent, RunTimeConditionsHandler::update).
THEOREM PedestalsUseTheHandler == PedSpec => Spec
<1>1. Init => HandlerInit
  BY DEF Init
<1>2. QED BY <1>1, EventIsHandlerStep, PTL DEF PedSpec, Spec

-----------------------------------------------------------------------------
(* The listeners.                                                            *)

\* Only the processor makes collections, one for each it publishes, and there is no
\* default to stand in for them.
Numbered ==
  /\ published \in Seq([ped: [Cells -> SUBSET Nat], counter: Nat, by: {"calib", "counter"}])
  /\ default = NULL
  /\ allocated = Len(published)
  /\ col = Len(published)
  /\ listener = Len(published)

Counted ==
  /\ event \in Nat /\ pedCounter \in Nat
  /\ pedSum \in [Cells -> SUBSET Nat] /\ ped \in [Cells -> SUBSET Nat]

PedInv == Counted /\ Numbered

LEMMA PedInitEstablishes == Init => PedInv
<1> SUFFICES ASSUME Init PROVE PedInv OBVIOUS
<1>1. Counted
  BY DEF Init, NoCells, Counted
<1>2. Numbered
  BY DEF Init, HandlerInit, NULL, Numbered
<1>3. QED BY <1>1, <1>2 DEF PedInv

\* The sums and averages an event starts from.
LEMMA Resets ==
  ASSUME PedInv, NEW conf, NEW trigger, NEW remap \in BOOLEAN
  PROVE  /\ Remapped(ped, remap) \in [Cells -> SUBSET Nat]
         /\ Remapped(pedSum, remap) \in [Cells -> SUBSET Nat]
         /\ Cleaned(Remapped(pedSum, remap), conf, trigger) \in [Cells -> SUBSET Nat]
  BY DEF PedInv, Counted, Remapped, Cleaned, NoCells

LEMMA PublishKeepsNumbers ==
  ASSUME PedInv, NEW avg \in [Cells -> SUBSET Nat],
         NEW by \in {"calib", "counter"}, Publish(avg, by)
  PROVE  Numbered'
<1> DEFINE entry == [ped |-> avg, counter |-> pedCounter, by |-> by]
<1>1. /\ allocated' = New /\ default' = NULL
      /\ col' = New /\ listener' = New
  BY DEF Publish, Update, Chosen, PedInv, Numbered
<1>2. entry \in [ped: [Cells -> SUBSET Nat], counter: Nat, by: {"calib", "counter"}]
  BY DEF PedInv, Counted
<1>3. published' = Append(published, entry)
  BY DEF Publish
<1>4. /\ published' \in Seq([ped: [Cells -> SUBSET Nat], counter: Nat, by: {"calib", "counter"}])
      /\ Len(published') = Len(published) + 1
  BY <1>2, <1>3 DEF PedInv, Numbered
<1>5. New = Len(published')
  BY <1>4 DEF New, PedInv, Numbered
<1>6. QED BY <1>1, <1>4, <1>5 DEF Numbered

LEMMA PedNextPreserves == PedInv /\ [PedNext]_allVars => PedInv'
<1> SUFFICES ASSUME PedInv, [PedNext]_allVars PROVE PedInv' OBVIOUS
<1>1. CASE UNCHANGED allVars
  BY <1>1 DEF allVars, handlerVars, pedVars, PedInv, Counted, Numbered
<1>2. CASE PedNext
  <2>1. PICK conf \in Confs, trigger \in Triggers, data \in BOOLEAN,
             blocks \in SUBSET Cells, remap \in BOOLEAN :
          ProcessEvent(conf, trigger, data, blocks, remap)
    BY <1>2, EventTaken
  <2> DEFINE avg == Remapped(ped, remap)
             clean == Cleaned(Remapped(pedSum, remap), conf, trigger)
             count == IF Cleans(conf, trigger) THEN 0 ELSE pedCounter
             full == [c \in Cells |-> IF c \in blocks THEN clean[c] \union {event + 1}
                                                      ELSE clean[c]]
  <2>2. /\ avg \in [Cells -> SUBSET Nat] /\ clean \in [Cells -> SUBSET Nat]
        /\ event + 1 \in Nat /\ count \in Nat
    <3>1. avg \in [Cells -> SUBSET Nat] /\ clean \in [Cells -> SUBSET Nat]
      BY Resets
    <3>2. event + 1 \in Nat /\ count \in Nat
      BY DEF PedInv, Counted
    <3>3. QED BY <3>1, <3>2
  <2>3. full \in [Cells -> SUBSET Nat]
    BY <2>2
  <2>4. Averaged(avg, full, blocks) \in [Cells -> SUBSET Nat]
    BY <2>2, <2>3 DEF Averaged
  <2>5. /\ event' = event + 1
        /\ pedSum' \in {clean, full}
        /\ ped' \in {avg, Averaged(avg, full, blocks)}
        /\ pedCounter' \in {count, count + 1}
    BY <2>1 DEF ProcessEvent
  <2>6. Counted'
    BY <2>2, <2>3, <2>4, <2>5 DEF Counted
  <2>7. PublishOrNot(conf, trigger, avg)
    BY <2>1 DEF ProcessEvent
  <2>8. Numbered'
    <3>1. CASE \E by \in {"calib", "counter"} : Publish(avg, by)
      BY <2>2, <3>1, PublishKeepsNumbers
    <3>2. CASE UNCHANGED <<col, lastValid, default, listener, allocated, frees, published>>
      BY <3>2 DEF PedInv, Numbered
    <3>3. QED BY <2>7, <3>1, <3>2 DEF PublishOrNot
  <2>9. QED BY <2>6, <2>8 DEF PedInv
<1>3. QED BY <1>1, <1>2

\* Listeners hold the last pedestals published, which are not deleted while they do,
\* for any number of publications (PedestalProcessor::processEvent).
THEOREM ListenersServed == PedSpec => []ListenersHoldTheLast
<1>1. PedInv /\ NothingDangles => ListenersHoldTheLast
  <2> SUFFICES ASSUME PedInv, NothingDangles PROVE ListenersHoldTheLast OBVIOUS
  <2>1. listener # NULL => frees[listener] = 0
    BY DEF NothingDangles
  <2>2. QED BY <2>1 DEF PedInv, Numbered, ListenersHoldTheLast
<1>2. PedSpec => []PedInv
  BY PedInitEstablishes, PedNextPreserves, PTL DEF PedSpec
<1>3. QED BY <1>1, <1>2, PedestalsUseTheHandler, NoDanglingCollection, PTL

-----------------------------------------------------------------------------
(* Sums, averages and the counter.                                           *)

\* After an event the sums are those cleaned, with the averages as they were, or the
\* event has been added to both.
LEMMA SumsAfter ==
  ASSUME PedInv, NEW conf, NEW trigger, NEW data \in BOOLEAN,
         NEW blocks \in SUBSET Cells, NEW remap \in BOOLEAN,
         ProcessEvent(conf, trigger, data, blocks, remap), NEW c \in Cells
  PROVE  \/ /\ pedSum'[c] = {} \/ (pedSum'[c] = pedSum[c] /\ ped'[c] = ped[c])
            /\ pedSum'[c] = {} \/ pedCounter' = pedCounter
         \/ /\ c \in blocks
            /\ ped'[c] = pedSum'[c]
            /\ \/ pedSum'[c] = {event + 1} /\ pedCounter' >= 1
               \/ pedSum'[c] = pedSum[c] \union {event + 1} /\ pedCounter' = pedCounter + 1
         \/ /\ c \notin blocks
            /\ pedSum'[c] = {} \/ (pedSum'[c] = pedSum[c] /\ ped'[c] = ped[c])
            /\ pedSum'[c] = {} \/ pedCounter' = pedCounter + 1
<1> DEFINE avg == Remapped(ped, remap)
           sum == Remapped(pedSum, remap)
           clean == Cleaned(sum, conf, trigger)
           count == IF Cleans(conf, trigger) THEN 0 ELSE pedCounter
           full == [k \in Cells |-> IF k \in blocks THEN clean[k] \union {event + 1}
                                                    ELSE clean[k]]
<1>1. clean[c] = {} \/ (clean[c] = pedSum[c] /\ avg[c] = ped[c] /\ count = pedCounter)
  BY DEF Cleaned, Remapped, NoCells
<1>2. count \in Nat
  BY DEF PedInv, Counted
<1>3. CASE pedSum' = clean /\ ped' = avg /\ pedCounter' = count
  BY <1>1, <1>3
<1>4. CASE pedSum' = full /\ ped' = Averaged(avg, full, blocks) /\ pedCounter' = count + 1
  <2>1. CASE c \in blocks
    <3>1. pedSum'[c] = clean[c] \union {event + 1} /\ ped'[c] = pedSum'[c]
      BY <1>4, <2>1 DEF Averaged
    <3>2. QED BY <1>1, <1>2, <1>4, <2>1, <3>1
  <2>2. CASE c \notin blocks
    <3>1. pedSum'[c] = clean[c] /\ ped'[c] = avg[c]
      BY <1>4, <2>2 DEF Averaged
    <3>2. QED BY <1>1, <1>4, <2>2, <3>1
  <2>3. QED BY <2>1, <2>2
<1>5. QED BY <1>3, <1>4 DEF ProcessEvent

\* The averages in use are those of the sums, through clean-ups at a change of the
\* configuration and new mappings, for any cells (PedestalProcessor::processEvent).
THEOREM AveragesFollow == PedSpec => []PedestalIsMean
<1>1. Init => PedestalIsMean
  BY DEF Init, NoCells, PedestalIsMean
<1>2. PedInv /\ PedestalIsMean /\ [PedNext]_allVars => PedestalIsMean'
  <2> SUFFICES ASSUME PedInv, PedestalIsMean, [PedNext]_allVars,
                      NEW c \in Cells, pedSum'[c] # {}
               PROVE  ped'[c] = pedSum'[c]
    BY DEF PedestalIsMean
  <2>1. CASE UNCHANGED allVars
    BY <2>1 DEF allVars, pedVars, PedestalIsMean
  <2>2. CASE PedNext
    <3>1. PICK conf \in Confs, trigger \in Triggers, data \in BOOLEAN,
               blocks \in SUBSET Cells, remap \in BOOLEAN :
            ProcessEvent(conf, trigger, data, blocks, remap)
      BY <2>2, EventTaken
    <3>2. ped'[c] = pedSum'[c] \/ (pedSum'[c] = pedSum[c] /\ ped'[c] = ped[c])
      BY <3>1, SumsAfter
    <3>3. QED BY <3>2 DEF PedestalIsMean
  <2>3. QED BY <2>1, <2>2
<1>3. QED BY <1>1, <1>2, PedInitEstablishes, PedNextPreserves, PTL DEF PedSpec

\* A cell never has more events in its sum than the counter says, for any number of
\* events and resets (PedestalProcessor::processEvent, updateMapper).
THEOREM CounterAhead == PedSpec => []CounterCovers
<1> DEFINE Finite == \A c \in Cells : IsFiniteSet(pedSum[c])
<1>1. Init => Finite /\ CounterCovers
  BY FS_EmptySet DEF Init, NoCells, CounterCovers
<1>2. PedInv /\ Finite /\ CounterCovers /\ [PedNext]_allVars => (Finite /\ CounterCovers)'
  <2> SUFFICES ASSUME PedInv, Finite, CounterCovers, [PedNext]_allVars,
                      NEW c \in Cells
               PROVE  IsFiniteSet(pedSum'[c]) /\ Cardinality(pedSum'[c]) <= pedCounter'
    BY DEF CounterCovers
  <2>1. CASE UNCHANGED allVars
    BY <2>1 DEF allVars, pedVars, CounterCovers
  <2>2. CASE PedNext
    <3>1. PICK conf \in Confs, trigger \in Triggers, data \in BOOLEAN,
               blocks \in SUBSET Cells, remap \in BOOLEAN :
            ProcessEvent(conf, trigger, data, blocks, remap)
      BY <2>2, EventTaken
    <3>2. PedInv'
      BY PedNextPreserves
    <3>3. /\ pedCounter \in Nat /\ pedCounter' \in Nat
          /\ IsFiniteSet(pedSum[c]) /\ Cardinality(pedSum[c]) \in Nat
          /\ Cardinality(pedSum[c]) <= pedCounter
      BY <3>2, FS_CardinalityType DEF PedInv, Counted, CounterCovers
    <3>4. CASE pedSum'[c] = {}
      <4>1. IsFiniteSet({}) /\ Cardinality({}) = 0
        BY FS_EmptySet
      <4>2. QED BY <3>3, <3>4, <4>1
    <3>5. CASE pedSum'[c] = pedSum[c] /\ pedCounter' >= pedCounter
      BY <3>3, <3>5
    <3>6. CASE pedSum'[c] = {event + 1} /\ pedCounter' >= 1
      BY <3>6, FS_Singleton
    <3>7. CASE pedSum'[c] = pedSum[c] \union {event + 1} /\ pedCounter' = pedCounter + 1
      <4>1. /\ IsFiniteSet(pedSum'[c])
            /\ Cardinality(pedSum'[c]) \in {Cardinality(pedSum[c]), Cardinality(pedSum[c]) + 1}
        <5> DEFINE sum == pedSum[c]
                   grown == sum \union {event + 1}
        <5>1. /\ IsFiniteSet(grown)
              /\ Cardinality(grown) = IF event + 1 \in sum THEN Cardinality(sum)
                                                           ELSE Cardinality(sum) + 1
          <6>1. IsFiniteSet(sum)
            BY <3>3
          <6> HIDE DEF sum
          <6>2. QED BY <6>1, FS_AddElement
        <5>2. QED BY <3>7, <5>1
      <4>2. QED BY <3>3, <3>7, <4>1
    <3>8. \/ pedSum'[c] = {}
          \/ pedSum'[c] = pedSum[c] /\ pedCounter' \in {pedCounter, pedCounter + 1}
          \/ pedSum'[c] = {event + 1} /\ pedCounter' >= 1
          \/ pedSum'[c] = pedSum[c] \union {event + 1} /\ pedCounter' = pedCounter + 1
      BY <3>1, SumsAfter
    <3>9. QED BY <3>3, <3>4, <3>5, <3>6, <3>7, <3>8
  <2>3. QED BY <2>1, <2>2
<1>3. QED BY <1>1, <1>2, PedInitEstablishes, PedNextPreserves, PTL DEF PedSpec
=============================================================================
