---------------------------- MODULE PedestalProcessor ----------------------------
(***************************************************************************)
(* Pedestals averaged during the run and published as conditions           *)
(* (calice_reco/recoSiPM/src/PedestalProcessor.cc).  Events of trigger     *)
(* configuration 4 with a pure pedestal trigger are accumulated; the first *)
(* calibration event of configuration 20 publishes the averages, and so    *)
(* does, in a pure noise run, the event that finds Target events counted.  *)
(*                                                                         *)
(* A sum, and an average, is the set of the events it is made of.          *)
(***************************************************************************)
EXTENDS RunTimeConditionsHandler, Sequences, FiniteSets

CONSTANTS
  Cells,                \* the cells of the modules read out
  Target,               \* 501 in the code
  SkipMinimumEvent,     \* steering parameters
  MinPedNumber

CONSTANT MaxEvents      \* bound of the model

ASSUME PedestalAssumption ==
  /\ Target \in Nat \ {0} /\ MaxEvents \in Nat
  /\ SkipMinimumEvent \in BOOLEAN /\ MinPedNumber \in Nat

VARIABLES
  triggerConf,          \* _triggerConf
  pedCounter,           \* _pedCounter
  pedSum,               \* cell -> the events in _pedSum, _pedNum
  ped,                  \* cell -> the events averaged in _ped, {} for the value 0
  published,            \* what was handed to the handler, in order
  skipped,              \* was the event skipped for the processors behind?
  event

pedVars == <<triggerConf, pedCounter, pedSum, ped, published, skipped, event>>
allVars == <<handlerVars, pedVars>>

Confs == {0, 4, 20}                   \* the pedestal, the calibration, another
Triggers == {"pedestal", "calib", "beam"}
NoCells == [c \in Cells |-> {}]

Init ==
  /\ HandlerInit
  /\ triggerConf = 0 /\ pedCounter = 0
  /\ pedSum = NoCells /\ ped = NoCells
  /\ published = << >> /\ skipped = FALSE /\ event = 0

IsPedestal(conf, trigger) == trigger = "pedestal" /\ conf = 4

\* The first calibration event of configuration 20.
EndsPedestals(conf, trigger) ==
  conf # triggerConf /\ trigger = "calib" /\ conf = 20

\* Enough events of a noise run, in which the configuration does not change.
NoiseRunFull(conf) == conf = triggerConf /\ pedCounter = Target

\* The clean-up when the pedestal configuration begins: the sums and the
\* counter, not the averages; only if its first event is a pedestal.
Cleans(conf, trigger) == conf # triggerConf /\ IsPedestal(conf, trigger)

\* A new configuration that begins otherwise is left at once.
Returns(conf, trigger) ==
  conf # triggerConf /\ ~Cleans(conf, trigger) /\ ~EndsPedestals(conf, trigger)

\* updateMapper: new arrays of zeros, whatever was accumulated; not the counter.
Remapped(a, remap) == IF remap THEN NoCells ELSE a

\* Mutant: the counter is reset, the sums are not.
CleanedCounter(sum, conf, trigger) == sum

Cleaned(sum, conf, trigger) == IF Cleans(conf, trigger) THEN NoCells ELSE sum

\* Mutant: the average is computed before the event is added.
AveragedBefore(avg, sum, blocks) ==
  [c \in Cells |-> IF c \in blocks THEN sum[c] \ {event + 1} ELSE avg[c]]

\* The average of every cell the event has a value of follows its sum.
Averaged(avg, sum, blocks) ==
  [c \in Cells |-> IF c \in blocks THEN sum[c] ELSE avg[c]]

\* The averages as they are before this event, handed to the conditions handler.
Publish(avg, by) ==
  /\ New \in Objects
  /\ Update(New)
  /\ published' = Append(published, [ped |-> avg, counter |-> pedCounter, by |-> by])

PublishOrNot(conf, trigger, avg) ==
  \/ EndsPedestals(conf, trigger) /\ Publish(avg, "calib")
  \/ NoiseRunFull(conf) /\ Publish(avg, "counter")
  \/ /\ ~EndsPedestals(conf, trigger) /\ ~NoiseRunFull(conf)
     /\ UNCHANGED <<col, lastValid, default, listener, allocated, frees, published>>
     /\ evt' = TRUE                    \* from updateEvent

\* One event: configuration, trigger, whether its ADC collection is there and not
\* empty, the mapped cells of its blocks, and whether the mapper has a new version.
ProcessEvent(conf, trigger, data, blocks, remap) ==
  LET sum == Remapped(pedSum, remap)
      avg == Remapped(ped, remap)
      clean == Cleaned(sum, conf, trigger)
      count == IF Cleans(conf, trigger) THEN 0 ELSE pedCounter
      full == [c \in Cells |-> IF c \in blocks THEN clean[c] \union {event + 1}
                                               ELSE clean[c]]
  IN /\ event < MaxEvents
     /\ event' = event + 1
     /\ triggerConf' = conf
     /\ PublishOrNot(conf, trigger, avg)
     /\ IF Returns(conf, trigger) \/ ~IsPedestal(conf, trigger) \/ ~data
        THEN /\ pedSum' = clean /\ ped' = avg /\ pedCounter' = count
             /\ skipped' = FALSE
        ELSE /\ pedSum' = full
             /\ ped' = Averaged(avg, full, blocks)
             /\ pedCounter' = count + 1
             /\ skipped' = (SkipMinimumEvent /\ count + 1 < MinPedNumber)

\* The mapper gets its first mapping with the first event.
PedNext ==
  \E conf \in Confs, trigger \in Triggers, data \in BOOLEAN,
     blocks \in SUBSET Cells, remap \in BOOLEAN :
    /\ event = 0 => remap
    /\ ~data => blocks = {}
    /\ ProcessEvent(conf, trigger, data, blocks, remap)

PedSpec == Init /\ [][PedNext]_allVars
-----------------------------------------------------------------------------
(* Properties *)

\* The averages in use are those of the sums as they stand: a cell counted since
\* the clean-up has no event of an earlier configuration in its pedestal.
PedestalIsMean == \A c \in Cells : pedSum[c] # {} => ped[c] = pedSum[c]

\* The counter the decisions are made on (publish, skip) never falls behind what
\* any cell has accumulated, through clean-ups, remappings and empty events.
CounterCovers == \A c \in Cells : Cardinality(pedSum[c]) <= pedCounter

\* What the listeners of the conditions hold is the last collection published,
\* and it is not deleted while they do, although the handler owns it and
\* publishing again retires the one before.
ListenersHoldTheLast ==
  /\ listener = Len(published)
  /\ listener # NULL => frees[listener] = 0
  /\ published # << >> => col = Len(published)

\* What the code says of itself and does not keep: the events counted "in last
\* configuration will be used for the following beam event".
PublishedAsCounted ==
  \A i \in DOMAIN published : \A c \in Cells :
    Cardinality(published[i].ped[c]) <= published[i].counter

\* "Update Pedestal once after first 500 events."
PublishedOnce ==
  \A i, j \in DOMAIN published :
    published[i].by = "counter" /\ published[j].by = "counter"
      /\ published[i].ped = published[j].ped => i = j
=============================================================================
