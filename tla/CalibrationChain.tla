---------------------------- MODULE CalibrationChain ----------------------------
(***************************************************************************)
(* The chain of processors an event of hits passes, in the order of the    *)
(* steering file (test/steering_hodoscope.xml): the conditions, the        *)
(* mapping, the cell descriptions, the calibrations, the calibration of    *)
(* the hits (Ahc2CalibrateProcessor.cc).  At every event the conditions    *)
(* framework may hand over new collections, in any order and to every      *)
(* processor that registered for them.                                     *)
(***************************************************************************)
EXTENDS CellDescriptionProcessor, Ahc2CalibrationsProcessor, FiniteSets

CONSTANTS
  FilterDeadCells,      \* steering parameters of Ahc2CalibrateProcessor
  FilterDefaultCells,
  PedestalSubtraction,
  DoTimeConversion

CONSTANTS
  Chips,                \* the chips a hit may come from
  Connections           \* what a collection of hardware connections may list:
                        \* functions from chips to cells

CONSTANTS               \* what the model is bounded by
  Lists,                \* the sets of cells a collection may list
  MaxEvents,
  MaxTold,              \* collections told at an event after the first
  LateMapping           \* may the geometry change after the first event?

ASSUME ChainAssumption ==
  /\ \A b \in {FilterDeadCells, FilterDefaultCells, PedestalSubtraction,
               DoTimeConversion, LateMapping} : b \in BOOLEAN
  /\ Lists \subseteq SUBSET Cells \ {{}} /\ MaxEvents \in Nat \ {0}
  /\ \A f \in Connections : DOMAIN f \subseteq Chips /\ \A k \in DOMAIN f : f[k] \in Cells

VARIABLES
  event,                \* number of the event in the chain
  stage,                \* the processor it is at
  fresh,                \* collections told at this event
  hits,                 \* the chips hit in it
  output,               \* the cells of the calibrated hits
  isFirstEvent,         \* no event with hits has been calibrated yet
  connected,            \* _HardwareConnnectionContainer
  status                \* of the job

hardware == <<isFirstEvent, connected>>
chainVars == <<event, stage, fresh, hits, output, hardware, status>>
vars == <<mapVars, geoVars, calVars, chainVars>>

Stages == <<"conditions", "mapping", "description", "calibrations", "hits">>

Names == GeoNames \union CalNames

Collections(n) ==
  {[nr |-> event, cells |-> l, itep |-> i] : l \in Lists,
     i \in IF n = "saturation" THEN {{}} \union Lists ELSE {{}}}

Init ==
  /\ MapInit /\ GeoInit /\ CalInit
  /\ event = 1 /\ stage = "conditions" /\ fresh = {}
  /\ hits = {} /\ output = {} /\ status = "running"
  /\ isFirstEvent = TRUE /\ connected = << >>

At(s) == status = "running" /\ stage = s

\* LCCD: a collection valid from this event on is given to all listeners.
Tell(n) ==
  /\ At("conditions") /\ n \notin fresh
  /\ event > 1 => /\ Cardinality(fresh) < MaxTold
                  /\ n \in GeoNames => LateMapping
  /\ \E col \in Collections(n) :
       /\ col.itep \subseteq col.cells
       /\ MapConditionsChanged(n, col)
       /\ GeoConditionsChanged(n, col)
       /\ CalConditionsChanged(n, col)
  /\ fresh' = fresh \union {n}
  /\ UNCHANGED <<event, stage, hits, output, hardware, status>>

ConditionsRead ==
  /\ At("conditions")
  /\ stage' = "mapping"
  /\ UNCHANGED <<mapVars, geoVars, calVars, event, fresh, hits, output, hardware, status>>

\* The job ends: by an exception the framework handles, one it does not, or a
\* null pointer.
End(how) ==
  /\ status' = how
  /\ UNCHANGED <<mapVars, geoVars, calVars, event, stage, fresh, hits, output, hardware>>

Map ==
  /\ At("mapping") /\ CanMap
  /\ MapProcessEvent
  /\ stage' = "description"
  /\ UNCHANGED <<geoVars, calVars, event, fresh, hits, output, hardware, status>>

MapFails == At("mapping") /\ ~CanMap /\ End("crashed")

Describe ==
  /\ At("description") /\ CanDescribe
  /\ GeoProcessEvent
  /\ stage' = "calibrations"
  /\ UNCHANGED <<mapVars, calVars, event, fresh, hits, output, hardware, status>>

DescribeFails == At("description") /\ ~CanDescribe /\ End("crashed")

UpdateCalibrations ==
  /\ At("calibrations") /\ ~Missing /\ ~Uncaught
  /\ CalProcessEvent
  /\ stage' = "hits"
  /\ UNCHANGED <<mapVars, geoVars, event, fresh, hits, output, hardware, status>>

\* The MIP and gain constants are rebuilt first, so nothing can fail before.
UpdateStops == At("calibrations") /\ Missing /\ End("stopped")

UpdateAborts == At("calibrations") /\ ~Missing /\ Uncaught /\ End("aborted")

\* A hit is dropped if its cell has no calibrations, or by the status bits.
Skipped(c) ==
  \/ c \notin DOMAIN calibrations
  \/ LET bits == calibrations[c].bits
     IN \/ FilterDeadCells /\ "dead" \in bits
        \/ FilterDefaultCells /\ bits \intersect DefaultBits # {}
        \/ PedestalSubtraction /\ "noPedestal" \in bits

\* The constants read for a hit without a look at the pointer.
Needed ==
  ValueKinds \ {k \in ValueKinds : \/ k = "pedestal" /\ ~PedestalSubtraction
                                   \/ k \in {"timeSlopes", "timePedestal"}
                                      /\ ~DoTimeConversion}

Readable(c) ==
  /\ \A k \in Needed : calibrations[c].value[k] # NoValue
  /\ c \in DOMAIN positions

\* FillContainer: the chips are looked up in the collection that is valid at
\* the first event with hits, then and ever after.
Lookups == IF isFirstEvent THEN Connections ELSE {connected}

CellsOf(h, f) == {f[k] : k \in h \intersect DOMAIN f}

Fatal(h, f) == {c \in CellsOf(h, f) : ~Skipped(c) /\ ~Readable(c)}

Write(h, cells, f) ==
  /\ hits' = h /\ output' = cells
  /\ connected' = f /\ isFirstEvent' = FALSE
  /\ stage' = "done"
  /\ UNCHANGED <<mapVars, geoVars, calVars, event, fresh, status>>

\* One hit per cell: checkHit drops a second one.
CalibrateHits(h, f) ==
  /\ At("hits")
  /\ h \subseteq DOMAIN f /\ Fatal(h, f) = {}
  /\ Write(h, {c \in CellsOf(h, f) : ~Skipped(c)}, f)

\* A hit of a chip that is not connected: the event is left without the
\* calibrated hits of any chip.
LoseHits(h, f) ==
  /\ At("hits")
  /\ ~(h \subseteq DOMAIN f)
  /\ Write(h, {}, f)

\* A hit before the one that is not connected can end the job first.
CalibrateFails(h, f) ==
  /\ At("hits")
  /\ Fatal(h, f) # {}
  /\ End("crashed")

\* An event without a collection of hits is left as it is.
NoHits ==
  /\ At("hits")
  /\ stage' = "done"
  /\ UNCHANGED <<mapVars, geoVars, calVars, event, fresh, hits, output, hardware, status>>

\* DataNotAvailableException: no hardware connections at the first hits.
NoConnections == At("hits") /\ isFirstEvent /\ End("unavailable")

NextEvent ==
  /\ At("done") /\ event < MaxEvents
  /\ event' = event + 1 /\ stage' = "conditions" /\ fresh' = {}
  /\ hits' = {} /\ output' = {}
  /\ UNCHANGED <<mapVars, geoVars, calVars, hardware, status>>

Next ==
  \/ \E n \in Names : Tell(n)
  \/ ConditionsRead
  \/ Map \/ MapFails
  \/ Describe \/ DescribeFails
  \/ UpdateCalibrations \/ UpdateStops \/ UpdateAborts
  \/ \E h \in SUBSET Chips, f \in Lookups :
       CalibrateHits(h, f) \/ LoseHits(h, f) \/ CalibrateFails(h, f)
  \/ NoHits \/ NoConnections
  \/ NextEvent

Spec == Init /\ [][Next]_vars

-----------------------------------------------------------------------------
(* Properties *)

\* The state of the processors is what their containers can hold: one entry
\* per cell, constants made of all their collections or none, known bits.
TypeOK ==
  /\ event \in 1 .. MaxEvents
  /\ stage \in {"conditions", "mapping", "description", "calibrations", "hits", "done"}
  /\ status \in {"running", "stopped", "aborted", "crashed", "unavailable"}
  /\ fresh \subseteq Names /\ hits \subseteq Chips /\ output \subseteq Cells
  /\ isFirstEvent \in BOOLEAN
  /\ connected \in Connections \union {<< >>}
  /\ mapChanged \subseteq MapNames /\ geoChanged \subseteq GeoNames
  /\ calChanged \subseteq CalNames
  /\ DOMAIN positions \subseteq Cells
  /\ DOMAIN calibrations \subseteq Cells
  /\ \A c \in DOMAIN calibrations :
       /\ calibrations[c].bits \subseteq Bits
       /\ \A k \in ValueKinds :
            \/ calibrations[c].value[k] = NoValue
            \/ DOMAIN calibrations[c].value[k] = Parts(k)

\* The event at which the mapping changed last.
LastMapping ==
  LET d == mapTold["description"].nr
      c == mapTold["connection"].nr
  IN IF d > c THEN d ELSE c

\* Was the kind told again since, so that the constants were made for the
\* cells of the present mapping?
Current(k) == \E p \in Parts(k) : Told(calTold[p]) /\ calTold[p].nr >= LastMapping

InUse == stage \in {"hits", "done"} /\ status = "running"

\* When hits are calibrated, every mapped cell and no other has an entry, and
\* its constants are those of the collections told last, the default where the
\* collection has no entry of the cell: never an old value, in whatever order
\* the collections were told.  A kind not told again since the mapping changed
\* has no constants at all (updateMapping, conditionsChanged, update...).
CalibrationsExact ==
  InUse =>
    /\ DOMAIN calibrations = mapTold["description"].cells
                               \intersect mapTold["connection"].cells
    /\ \A c \in DOMAIN calibrations, k \in ValueKinds :
         calibrations[c].value[k] = IF Current(k) THEN Value(k, c) ELSE NoValue

\* A default bit is set exactly when the constant in use is the default; a hit
\* filter that relies on the bits sees the constants (filterDefaultCells).
DefaultsFlagged ==
  InUse =>
    \A c \in DOMAIN calibrations, k \in ValueKinds \ {"pedestal"} :
      \A p \in Parts(k) :
        p \in calibrations[c].bits <=>
          /\ calibrations[c].value[k] # NoValue
          /\ ~calibrations[c].value[k][p].own

\* A cell is dead exactly when the quality collection told last lists it,
\* unless the mapping changed since then: a dead cell comes back (updateCellQuality).
DeadFlagged ==
  InUse /\ "cellQuality" \in Kinds =>
    \A c \in DOMAIN calibrations :
      "dead" \in calibrations[c].bits <=>
        Current("cellQuality") /\ c \in calTold["cellQuality"].cells

\* The value 0 that stands for a missing pedestal is never subtracted unseen:
\* the cell is flagged (updatePedestal).
MissingPedestalFlagged ==
  InUse /\ "pedestal" \in Kinds =>
    \A c \in DOMAIN calibrations :
      LET v == calibrations[c].value["pedestal"]
      IN v # NoValue /\ ~v["pedestal"].own => "noPedestal" \in calibrations[c].bits

\* Every mapped cell has a position made of the four collections told last: the
\* positions and the mapping agree although each is built from pointers of its
\* own (CellDescriptionProcessor::processEvent).
PositionsExact ==
  InUse =>
    /\ DOMAIN positions = Mapped
    /\ \A c \in DOMAIN positions, n \in GeoNames : positions[c][n] = geoTold[n].nr

\* With the constants complete and the mapping as it was when they were told no
\* hit meets a null pointer, and the job stops only for half a pair of
\* collections.
EndsForAGap ==
  /\ status = "crashed" =>
       \/ \E n \in GeoNames : ~Told(geoTold[n])
       \/ ~(geoTold["connection"].cells \subseteq geoTold["location"].cells)
       \/ \E k \in Needed : ~Current(k)
  /\ status = "stopped" =>
       \E k \in {"MIP", "gain"} \intersect Kinds :
         \E p, q \in Parts(k) : Told(calTold[p]) /\ ~Told(calTold[q])

\* What the collections told last say of a hit, without flags and containers.
Wanted(c) ==
  /\ c \in mapTold["description"].cells \intersect mapTold["connection"].cells
  /\ FilterDeadCells /\ "cellQuality" \in Kinds => c \notin calTold["cellQuality"].cells
  /\ FilterDefaultCells =>
       \A p \in DefaultBits : Told(calTold[p]) => c \in calTold[p].cells
  /\ PedestalSubtraction /\ "pedestal" \in Kinds => c \in calTold["pedestal"].cells

\* The calibrated hits are those the collections told last admit, in the cells the
\* chips were connected to at the first hits of the job, where every kind was told
\* since the last mapping; or none if a chip was not connected then.
OutputAsTold ==
  stage = "done" /\ (\A k \in Kinds : Current(k)) =>
    output = IF hits \subseteq DOMAIN connected
             THEN {c \in CellsOf(hits, connected) : Wanted(c)} ELSE {}

\* What the code says of itself and does not keep:
\* kNoPedestal means "no pedestal value available" (Ahc2CalibrationStatusBits.hh).
NoPedestalTrue ==
  InUse /\ "pedestal" \in Kinds =>
    \A c \in DOMAIN calibrations :
      "noPedestal" \in calibrations[c].bits => c \notin calTold["pedestal"].cells

\* kisNewITEP means "is a new ITEP Tile", more than 11000 pixels (updateSaturationParameters).
NewITEPTrue ==
  InUse /\ "saturation" \in Kinds =>
    \A c \in DOMAIN calibrations : "isNewITEP" \in calibrations[c].bits => NewITEP(c)

\* An entry of a channel that is not installed is reported and left out, "maybe
\* incomplete installation" (updateGainCalibration): it does not end the job.
IncompleteInstallation == status # "aborted"
=============================================================================
