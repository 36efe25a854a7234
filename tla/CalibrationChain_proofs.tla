------------------------ MODULE CalibrationChain_proofs ------------------------
(***************************************************************************)
(* The properties of the chain, for every set of cells and chips, choice   *)
(* of kinds and order in which the collections are told.                   *)
(*                                                                         *)
(* Between the callback and the processor that rebuilds the constants they *)
(* may be old; the invariant says which: those with the changed flag, and  *)
(* all of them when the mapping changes.  The flags are exactly the        *)
(* collections told at this event, so nothing else is.  Status bits change *)
(* with the constants; positions have flags and a version of their own.    *)
(***************************************************************************)
EXTENDS CalibrationChain, TLAPS

Collection == [nr : Nat, cells : SUBSET Cells, itep : SUBSET Cells]

Filled == [described : SUBSET Cells, connected : SUBSET Cells, version : Nat]

Types ==
  /\ event \in Nat \ {0}
  /\ stage \in {"conditions", "mapping", "description", "calibrations", "hits", "done"}
  /\ mapTold \in [MapNames -> Collection]
  /\ calTold \in [CalNames -> Collection]
  /\ mapChanged \subseteq MapNames /\ calChanged \subseteq CalNames
  /\ mapper \in Filled

\* Nothing is told of events to come.
NrBounded ==
  /\ \A n \in MapNames : mapTold[n].nr <= event
  /\ \A p \in CalNames : calTold[p].nr <= event

Unmapped == stage \in {"conditions", "mapping"}
Uncalibrated == stage \in {"conditions", "mapping", "description", "calibrations"}

\* A flag is up from the callback to the processor, and only then.
Flags ==
  /\ \A n \in MapNames : n \in mapChanged <=> Unmapped /\ mapTold[n].nr = event
  /\ \A p \in CalNames : p \in calChanged <=> Uncalibrated /\ calTold[p].nr = event

\* The mapper holds what it was told, unless the flag is up.
MapperFilled ==
  /\ "description" \notin mapChanged => mapper.described = mapTold["description"].cells
  /\ "connection" \notin mapChanged => mapper.connected = mapTold["connection"].cells

Remapping == LastMapping = event

\* The version numbers differ exactly between the processor that maps and the
\* one that calibrates, at an event that changes the mapping.
Versions ==
  calVersion = mapper.version <=> ~(Remapping /\ Uncalibrated /\ ~Unmapped)

Covered ==
  DOMAIN calibrations = mapTold["description"].cells \intersect mapTold["connection"].cells

Settled(k) ==
  \A c \in DOMAIN calibrations :
    calibrations[c].value[k] = IF Current(k) THEN Value(k, c) ELSE NoValue

\* What is up to date, and what the calibration processor has still to rebuild.
Contents ==
  ~(Uncalibrated /\ Remapping) =>
    Covered /\ \A k \in ValueKinds : ~Changed(k) => Settled(k)

Running == Flags /\ MapperFilled /\ Versions /\ Contents

IInv == Types /\ NrBounded /\ (status = "running" => Running)

USE DEF Told, Unmapped, Uncalibrated

\* LastMapping is the later of the two geometry collections.
LEMMA LastMappingIs ==
  ASSUME Types, NrBounded
  PROVE  /\ LastMapping \in 0 .. event
         /\ Remapping <=> \E n \in MapNames : mapTold[n].nr = event
  BY DEF Types, NrBounded, LastMapping, Remapping, MapNames, Collection

\* A kind is current at the event it is told in, and at no other when the
\* mapping changes there.
LEMMA CurrentWhenChanged ==
  ASSUME Types, NrBounded, Flags, Uncalibrated, NEW k \in Kinds
  PROVE  /\ Changed(k) => Current(k)
         /\ Remapping => (Current(k) <=> Changed(k))
<1>1. Parts(k) \subseteq CalNames
  BY DEF CalNames
<1>2. \A p \in Parts(k) : /\ calTold[p].nr \in Nat /\ calTold[p].nr <= event
                          /\ p \in calChanged <=> calTold[p].nr = event
  BY <1>1 DEF Types, NrBounded, Flags, Collection
<1>3. LastMapping \in 0 .. event /\ event \in Nat \ {0}
  BY LastMappingIs DEF Types
<1>4. QED BY <1>2, <1>3 DEF Changed, Current, Remapping

LEMMA InitEstablishes == Init => IInv
<1> SUFFICES ASSUME Init PROVE IInv OBVIOUS
<1> USE DEF Init, MapInit, CalInit, NoCollection
<1>1. Types
  BY DEF Types, Collection, Filled
<1>2. NrBounded
  BY DEF NrBounded
<1>3. Flags /\ MapperFilled
  BY DEF Flags, MapperFilled, MapNames
<1>4. LastMapping = 0
  BY DEF LastMapping, MapNames
<1>5. Versions
  BY <1>4 DEF Versions, Remapping
<1>6. Contents
  BY DEF Contents, Covered, Settled, MapNames
<1>7. QED BY <1>1, <1>2, <1>3, <1>5, <1>6 DEF IInv, Running

\* Telling a collection: its flag goes up, the rest stays as it is.
LEMMA TellPreserves ==
  ASSUME IInv, NEW n \in Names, Tell(n)
  PROVE  IInv'
<1>1. /\ status = "running" /\ stage = "conditions" /\ Running
      /\ UNCHANGED <<event, stage, mapper, calVersion, calibrations, status>>
  BY DEF Tell, At, IInv, MapConditionsChanged, CalConditionsChanged, mapVars, calVars
<1>2. PICK col \in Collections(n) :
        /\ col.itep \subseteq col.cells
        /\ MapConditionsChanged(n, col)
        /\ CalConditionsChanged(n, col)
  BY DEF Tell
<1>3. col \in Collection /\ col.nr = event
  BY <1>2, ChainAssumption DEF ChainAssumption, Collections, Collection, IInv, Types
<1>4. /\ n \in MapNames => /\ mapTold' = [mapTold EXCEPT ![n] = col]
                           /\ mapChanged' = mapChanged \union {n}
      /\ n \notin MapNames => mapTold' = mapTold /\ mapChanged' = mapChanged
  BY <1>2 DEF MapConditionsChanged, mapVars
<1>5. /\ n \in CalNames => /\ calTold' = [calTold EXCEPT ![n] = col]
                           /\ calChanged' = calChanged \union {n}
      /\ n \notin CalNames => calTold' = calTold /\ calChanged' = calChanged
  BY <1>2 DEF CalConditionsChanged, calVars
<1>6. Types'
  BY <1>1, <1>3, <1>4, <1>5 DEF IInv, Types
<1>7. NrBounded'
  BY <1>1, <1>3, <1>4, <1>5 DEF IInv, Types, NrBounded, Collection
<1>8. Flags'
  BY <1>1, <1>3, <1>4, <1>5 DEF IInv, Types, Running, Flags
<1>9. MapperFilled'
  BY <1>1, <1>4 DEF IInv, Types, Running, MapperFilled, MapNames
<1>10. Versions'
  BY <1>1 DEF Running, Versions
<1>11. Contents'
  <2> SUFFICES ASSUME ~Remapping' PROVE Covered' /\ \A k \in ValueKinds : ~Changed(k)' => Settled(k)'
    BY <1>1 DEF Contents
  <2>1. n \notin MapNames
    <3> SUFFICES ASSUME n \in MapNames PROVE FALSE OBVIOUS
    <3>1. mapTold'[n].nr = event'
      BY <1>1, <1>3, <1>4 DEF IInv, Types
    <3>2. QED BY <1>6, <1>7, <3>1, LastMappingIs DEF Types, NrBounded, LastMapping, Remapping, MapNames, Collection
  <2>2. mapTold' = mapTold /\ LastMapping' = LastMapping /\ ~Remapping
    BY <1>1, <1>4, <2>1 DEF LastMapping, Remapping
  <2>3. Covered /\ Covered'
    BY <1>1, <2>2 DEF Running, Contents, Covered
  <2>4. ASSUME NEW k \in ValueKinds, ~Changed(k)'
        PROVE  Settled(k)'
    <3>1. Parts(k) \subseteq CalNames
      BY DEF CalNames, ValueKinds
    <3>2. ~Changed(k) /\ n \notin Parts(k)
      BY <1>5, <2>4, <3>1 DEF Changed
    <3>3. \A p \in Parts(k) : calTold'[p] = calTold[p]
      BY <1>5, <3>1, <3>2 DEF IInv, Types
    <3>4. Current(k)' <=> Current(k)
      BY <2>2, <3>3 DEF Current
    <3>5. \A c : Value(k, c)' = Value(k, c)
      BY <3>3 DEF Value
    <3>6. Settled(k)
      BY <1>1, <2>2, <3>2 DEF Running, Contents
    <3>7. QED BY <1>1, <3>4, <3>5, <3>6 DEF Settled
  <2>5. QED BY <2>3, <2>4
<1>12. QED BY <1>6, <1>7, <1>8, <1>9, <1>10, <1>11 DEF IInv, Running

\* Steps of the other processors, and the end of the job, leave the flags, the
\* mapper and the constants alone.
LEMMA FramePreserves ==
  ASSUME IInv,
         UNCHANGED <<mapVars, calVars, event>>,
         stage' \in {"conditions", "mapping", "description", "calibrations", "hits", "done"},
         Unmapped' <=> Unmapped, Uncalibrated' <=> Uncalibrated,
         status' = "running" => status = "running"
  PROVE  IInv'
<1> USE DEF mapVars, calVars
<1>1. Types' /\ NrBounded'
  BY DEF IInv, Types, NrBounded
<1>2. LastMapping' = LastMapping /\ (Remapping' <=> Remapping)
  BY DEF LastMapping, Remapping
<1>3. ASSUME Running PROVE Running'
  <2>1. Flags' /\ MapperFilled'
    BY <1>3 DEF Running, Flags, MapperFilled
  <2>2. Versions'
    BY <1>2, <1>3 DEF Running, Versions
  <2>4. Contents'
    <3> SUFFICES ASSUME ~(Uncalibrated' /\ Remapping')
                 PROVE  Covered' /\ \A k \in ValueKinds : ~Changed(k)' => Settled(k)'
      BY DEF Contents
    <3>1. Covered /\ \A k \in ValueKinds : ~Changed(k) => Settled(k)
      BY <1>2, <1>3 DEF Running, Contents
    <3>2. Covered' <=> Covered
      BY DEF Covered
    <3>3. ASSUME NEW k \in ValueKinds, ~Changed(k)' PROVE Settled(k)'
      <4>1. ~Changed(k)
        BY <3>3 DEF Changed
      <4>2. Settled(k)
        BY <3>1, <4>1
      <4>3. Current(k)' <=> Current(k)
        BY <1>2 DEF Current
      <4>4. \A c : Value(k, c)' = Value(k, c)
        BY DEF Value
      <4>5. QED BY <4>2, <4>3, <4>4 DEF Settled
    <3>4. QED BY <3>1, <3>2, <3>3
  <2>5. QED BY <2>1, <2>2, <2>4 DEF Running
<1>4. QED BY <1>1, <1>3 DEF IInv

\* The mapping processor: the mapper holds what it was told, and its version is
\* another one exactly if something was told.
LEMMA MapPreserves ==
  ASSUME IInv, Map
  PROVE  IInv'
<1>1. /\ status = "running" /\ stage = "mapping" /\ Running
      /\ stage' = "description" /\ MapProcessEvent
      /\ UNCHANGED <<calVars, event, status, mapTold>>
  BY DEF Map, At, IInv, MapProcessEvent
<1> USE DEF calVars
<1>2. /\ mapChanged' = {}
      /\ mapper'.described = mapTold["description"].cells
      /\ mapper'.connected = mapTold["connection"].cells
      /\ mapper' \in Filled
      /\ mapChanged = {} => mapper' = mapper
      /\ mapChanged # {} => mapper'.version > mapper.version
  <2>1. /\ mapper \in Filled
        /\ mapChanged \subseteq {"description", "connection"}
        /\ mapTold["description"] \in Collection /\ mapTold["connection"] \in Collection
        /\ mapChanged' = {}
    BY <1>1 DEF IInv, Types, MapNames, MapProcessEvent
  <2>2. /\ "description" \notin mapChanged => mapper.described = mapTold["description"].cells
        /\ "connection" \notin mapChanged => mapper.connected = mapTold["connection"].cells
    BY <1>1 DEF Running, MapperFilled
  <2>3. CASE "description" \in mapChanged
    <3>1. mapper' = Fill(mapper)
      BY <1>1, <2>3 DEF MapProcessEvent
    <3>2. Fill(mapper) = [described |-> mapTold["description"].cells,
                          connected |-> mapTold["connection"].cells,
                          version   |-> mapper.version + 1 + 1]
      BY DEF Fill, FillModuleDescription, FillModuleConnection
    <3>3. QED BY <2>1, <2>3, <3>1, <3>2 DEF Filled, Collection
  <2>4. CASE mapChanged = {"connection"}
    <3>1. mapper' = FillModuleConnection(mapper, mapTold["connection"])
      BY <1>1, <2>4 DEF MapProcessEvent
    <3>2. QED BY <2>1, <2>2, <2>4, <3>1 DEF FillModuleConnection, Filled, Collection
  <2>5. CASE mapChanged = {}
    <3>1. mapper' = mapper
      BY <1>1, <2>5 DEF MapProcessEvent
    <3>2. QED BY <2>1, <2>2, <2>5, <3>1
  <2>6. QED BY <2>1, <2>3, <2>4, <2>5
<1>3. Types' /\ NrBounded'
  BY <1>1, <1>2 DEF IInv, Types, NrBounded
<1>4. LastMapping' = LastMapping /\ (Remapping' <=> Remapping)
  BY <1>1 DEF LastMapping, Remapping
<1>5. Flags' /\ MapperFilled'
  BY <1>1, <1>2 DEF Running, Flags, MapperFilled
<1>6. Remapping <=> mapChanged # {}
  BY <1>1, LastMappingIs DEF IInv, Types, Running, Flags
<1>7. Versions'
  BY <1>1, <1>2, <1>4, <1>6 DEF Running, Versions, IInv, Types, Filled
<1>8. \A k \in ValueKinds : (Changed(k)' <=> Changed(k)) /\ (Settled(k)' <=> Settled(k))
  BY <1>1, <1>4 DEF Changed, Settled, Current, Value
<1>9. Contents'
  BY <1>1, <1>4, <1>8 DEF Running, Contents, Covered
<1>10. QED BY <1>1, <1>3, <1>5, <1>7, <1>9 DEF IInv, Running

\* The calibration processor: what is not up to date is rebuilt.
LEMMA UpdatePreserves ==
  ASSUME IInv, UpdateCalibrations
  PROVE  IInv'
<1>1. /\ status = "running" /\ stage = "calibrations" /\ Running
      /\ stage' = "hits" /\ CalProcessEvent
      /\ UNCHANGED <<mapVars, event, status, calTold>>
  BY DEF UpdateCalibrations, At, IInv, CalProcessEvent
<1> USE DEF mapVars
<1>2. Types' /\ NrBounded'
  BY <1>1 DEF IInv, Types, NrBounded, CalProcessEvent
<1>3. LastMapping' = LastMapping /\ (Remapping' <=> Remapping)
  BY <1>1 DEF LastMapping, Remapping
<1>4. Flags' /\ MapperFilled'
  BY <1>1 DEF Running, Flags, MapperFilled, CalProcessEvent
<1>5. Versions'
  BY <1>1 DEF Versions, CalProcessEvent
<1>6. Mapped = mapTold["description"].cells \intersect mapTold["connection"].cells
  BY <1>1 DEF Running, Flags, MapperFilled, MapNames, Mapped
<1>7. calVersion # mapper.version <=> Remapping
  BY <1>1 DEF Running, Versions
<1>8. /\ calibrations' = [c \in DOMAIN Remapped |-> Updated(c, Remapped[c])]
      /\ DOMAIN calibrations' = DOMAIN Remapped
  BY <1>1 DEF CalProcessEvent
<1>9. Covered'
  <2>1. CASE Remapping
    BY <1>1, <1>6, <1>7, <1>8, <2>1 DEF Covered, Remapped
  <2>2. CASE ~Remapping
    BY <1>1, <1>7, <1>8, <2>2 DEF Covered, Remapped, Running, Contents
  <2>3. QED BY <2>1, <2>2
<1>10. ASSUME NEW k \in ValueKinds PROVE Settled(k)'
  <2>1. (Current(k)' <=> Current(k)) /\ \A c : Value(k, c)' = Value(k, c)
    BY <1>1, <1>3 DEF Current, Value
  <2>2. SUFFICES ASSUME NEW c \in DOMAIN Remapped
                 PROVE  calibrations'[c].value[k] =
                          IF Current(k) THEN Value(k, c) ELSE NoValue
    BY <1>8, <2>1 DEF Settled
  <2>3. calibrations'[c].value[k] =
          IF Changed(k) THEN Value(k, c) ELSE Remapped[c].value[k]
    BY <1>8 DEF Updated
  <2>4. /\ Changed(k) => Current(k)
        /\ Remapping => (Current(k) <=> Changed(k))
    BY <1>1, CurrentWhenChanged DEF IInv, Running, ValueKinds
  <2>5. CASE Changed(k)
    BY <2>3, <2>4, <2>5
  <2>6. CASE ~Changed(k) /\ Remapping
    <3>1. Remapped[c].value[k] = NoValue
      BY <1>7, <2>6 DEF Remapped, Empty
    <3>2. QED BY <2>3, <2>4, <2>6, <3>1
  <2>7. CASE ~Changed(k) /\ ~Remapping
    <3>1. Remapped = calibrations /\ Settled(k)
      BY <1>1, <1>7, <2>7 DEF Remapped, Running, Contents
    <3>2. QED BY <2>3, <2>7, <3>1 DEF Settled
  <2>8. QED BY <2>5, <2>6, <2>7
<1>11. Contents'
  BY <1>9, <1>10 DEF Contents
<1>12. QED BY <1>1, <1>2, <1>4, <1>5, <1>11 DEF IInv, Running

\* At the next event nothing is told yet, so everything is up to date.
LEMMA NextEventPreserves ==
  ASSUME IInv, NextEvent
  PROVE  IInv'
<1>1. /\ status = "running" /\ stage = "done" /\ Running
      /\ stage' = "conditions" /\ event' = event + 1
      /\ UNCHANGED <<mapVars, calVars, status>>
  BY DEF NextEvent, At, IInv
<1> USE DEF mapVars, calVars
<1>2. Types' /\ NrBounded'
  BY <1>1 DEF IInv, Types, NrBounded, Collection
<1>3. LastMapping' = LastMapping /\ ~Remapping'
  BY <1>1, LastMappingIs DEF LastMapping, Remapping, IInv, Types
<1>4. Flags'
  BY <1>1 DEF IInv, Types, NrBounded, Running, Flags, Collection
<1>5. MapperFilled' /\ Versions'
  BY <1>1, <1>3 DEF Running, MapperFilled, Versions
<1>6. \A k \in ValueKinds : Settled(k)' <=> Settled(k)
  BY <1>1, <1>3 DEF Settled, Current, Value
<1>7. Contents'
  BY <1>1, <1>3, <1>6 DEF Running, Contents, Covered, Changed
<1>8. QED BY <1>1, <1>2, <1>4, <1>5, <1>7 DEF IInv, Running

LEMMA NextPreserves == IInv /\ [Next]_vars => IInv'
<1> SUFFICES ASSUME IInv, [Next]_vars PROVE IInv' OBVIOUS
<1>1. ASSUME NEW n \in Names, Tell(n) PROVE IInv'
  BY <1>1, TellPreserves
<1>2. CASE ConditionsRead
  BY <1>2, FramePreserves DEF ConditionsRead, At
<1>3. CASE Map
  BY <1>3, MapPreserves
<1>4. ASSUME NEW how \in {"stopped", "aborted", "crashed", "unavailable"}, End(how) PROVE IInv'
  BY <1>4, FramePreserves DEF End, IInv, Types
<1>5. CASE Describe
  BY <1>5, FramePreserves DEF Describe, At
<1>6. CASE UpdateCalibrations
  BY <1>6, UpdatePreserves
<1>7. ASSUME NEW h, NEW f, CalibrateHits(h, f) \/ LoseHits(h, f) \/ NoHits PROVE IInv'
  BY <1>7, FramePreserves DEF CalibrateHits, LoseHits, NoHits, Write, At
<1>8. CASE NextEvent
  BY <1>8, NextEventPreserves
<1>9. CASE UNCHANGED vars
  BY <1>9, FramePreserves DEF vars, chainVars, IInv, Types
<1>10. QED
  BY <1>1, <1>2, <1>3, <1>4, <1>5, <1>6, <1>7, <1>8, <1>9
  DEF Next, MapFails, DescribeFails, UpdateStops, UpdateAborts, CalibrateFails, NoConnections

THEOREM Invariance == Spec => []IInv
  BY InitEstablishes, NextPreserves, PTL DEF Spec

\* When hits are calibrated every mapped cell has the constants of the
\* collections told last, or none of a kind not told since the mapping changed:
\* for all cells, kinds, lists and orders (Ahc2CalibrationsProcessor.cc:343-428,
\* 1420-1465).
THEOREM NeverStale == Spec => []CalibrationsExact
<1>1. IInv => CalibrationsExact
  <2> SUFFICES ASSUME IInv, InUse PROVE CalibrationsExact
    BY DEF CalibrationsExact
  <2>1. ~Uncalibrated /\ Running
    BY DEF InUse, IInv
  <2>2. \A k \in ValueKinds : ~Changed(k)
    <3>1. calChanged = {}
      BY <2>1 DEF Running, Flags, IInv, Types
    <3>2. QED BY <3>1 DEF Changed
  <2>3. Covered /\ \A k \in ValueKinds : Settled(k)
    BY <2>1, <2>2 DEF Running, Contents
  <2>4. QED BY <2>3 DEF CalibrationsExact, Covered, Settled
<1>2. QED BY <1>1, Invariance, PTL

-----------------------------------------------------------------------------
(* The status bits.                                                        *)

\* No two kinds of constants touch the same bit.
LEMMA TouchedApart ==
  ASSUME NEW k \in AllKinds, NEW j \in AllKinds, k # j
  PROVE  Touched(k) \intersect Touched(j) = {}
  BY DEF AllKinds, Touched, Parts

\* So the bits of a kind are what its own update leaves.
LEMMA BitsOfAKind ==
  ASSUME NEW k \in Kinds, NEW b \in Touched(k), NEW c, NEW bits
  PROVE  b \in UpdatedBits(c, bits) <=>
           IF Changed(k) THEN b \in BitsAfter(k, c, bits) ELSE b \in bits
<1>1. \A j \in Kinds : b \in Touched(j) => j = k
  BY TouchedApart, KindsAssumption DEF KindsAssumption
<1>2. b \in UpdatedBits(c, bits) <=>
        \/ b \in bits /\ ~\E j \in Kinds : Changed(j) /\ b \in Touched(j)
        \/ \E j \in Kinds : Changed(j) /\ b \in BitsAfter(j, c, bits) /\ b \in Touched(j)
  BY DEF UpdatedBits
<1>3. QED BY <1>1, <1>2

\* A constant made of collections is not a null pointer.
LEMMA ValueThere ==
  ASSUME NEW k \in Kinds, NEW c
  PROVE  Value(k, c) # NoValue
<1>1. Parts(k) # {}
  BY DEF Parts
<1>2. DOMAIN Value(k, c) = Parts(k) /\ DOMAIN NoValue = {}
  BY DEF Value, NoValue
<1>3. QED BY <1>1, <1>2

\* The default bits of a kind, and the missing pedestal, follow the constant.
BitsOf(c, entry) ==
  /\ \A k \in ValueKinds \ {"pedestal"} : \A p \in Parts(k) :
       p \in entry.bits <=> entry.value[k] # NoValue /\ ~entry.value[k][p].own
  /\ "pedestal" \in Kinds /\ entry.value["pedestal"] # NoValue
       /\ ~entry.value["pedestal"]["pedestal"].own => "noPedestal" \in entry.bits
  /\ "dead" \in entry.bits => "cellQuality" \in Kinds

BitsFollow == \A c \in DOMAIN calibrations : BitsOf(c, calibrations[c])

LEMMA EmptyFollows == ASSUME NEW c PROVE BitsOf(c, Empty)
  BY DEF BitsOf, Empty, ValueKinds

LEMMA UpdateFollows ==
  ASSUME NEW c, NEW entry, BitsOf(c, entry)
  PROVE  BitsOf(c, Updated(c, entry))
<1> DEFINE new == Updated(c, entry)
<1>1. new.bits = UpdatedBits(c, entry.bits)
  BY DEF Updated
<1>2. \A k \in ValueKinds : new.value[k] = IF Changed(k) THEN Value(k, c) ELSE entry.value[k]
  BY DEF Updated
<1>3. ASSUME NEW k \in ValueKinds \ {"pedestal"}, NEW p \in Parts(k)
      PROVE  p \in new.bits <=> new.value[k] # NoValue /\ ~new.value[k][p].own
  <2>1. k \in Kinds /\ p \in Touched(k) /\ k # "cellQuality"
    BY <1>3 DEF ValueKinds, Touched, Parts
  <2>2. CASE Changed(k)
    <3>1. p \in new.bits <=> p \in BitsAfter(k, c, entry.bits)
      BY <1>1, <2>1, <2>2, BitsOfAKind
    <3>2. p \in BitsAfter(k, c, entry.bits) <=> c \notin calTold[p].cells
      <4>1. p \in Defaulted(k, c) <=> c \notin calTold[p].cells
        BY DEF Defaulted
      <4>2. CASE k = "saturation"
        <5>1. p = "saturation" /\ Parts(k) = {"saturation"}
          BY <1>3, <4>2 DEF Parts
        <5>2. Defaulted(k, c) # {} <=> p \in Defaulted(k, c)
          BY <5>1 DEF Defaulted
        <5>3. QED BY <4>1, <4>2, <5>1, <5>2 DEF BitsAfter
      <4>3. CASE k # "saturation"
        BY <1>3, <2>1, <4>1, <4>3 DEF BitsAfter
      <4>4. QED BY <4>2, <4>3
    <3>3. new.value[k] = Value(k, c) /\ Value(k, c) # NoValue
      BY <1>2, <2>1, <2>2, ValueThere
    <3>4. Value(k, c)[p].own <=> c \in calTold[p].cells
      BY <1>3 DEF Value
    <3>5. QED BY <3>1, <3>2, <3>3, <3>4
  <2>3. CASE ~Changed(k)
    <3>1. p \in new.bits <=> p \in entry.bits
      BY <1>1, <2>1, <2>3, BitsOfAKind
    <3>2. new.value[k] = entry.value[k]
      BY <1>2, <2>3
    <3>3. QED BY <1>3, <3>1, <3>2 DEF BitsOf
  <2>4. QED BY <2>2, <2>3
<1>4. ASSUME "pedestal" \in Kinds, new.value["pedestal"] # NoValue,
             ~new.value["pedestal"]["pedestal"].own
      PROVE  "noPedestal" \in new.bits
  <2>1. "pedestal" \in ValueKinds /\ "noPedestal" \in Touched("pedestal")
        /\ Parts("pedestal") = {"pedestal"}
    BY <1>4 DEF ValueKinds, Touched, Parts
  <2>2. CASE Changed("pedestal")
    <3>1. Defaulted("pedestal", c) # {}
      <4>1. new.value["pedestal"] = Value("pedestal", c)
        BY <1>2, <2>1, <2>2
      <4>2. Value("pedestal", c)["pedestal"].own <=> c \in calTold["pedestal"].cells
        BY <2>1 DEF Value
      <4>3. "pedestal" \in Defaulted("pedestal", c)
        BY <1>4, <2>1, <4>1, <4>2 DEF Defaulted
      <4>4. QED BY <4>3
    <3>2. "noPedestal" \in BitsAfter("pedestal", c, entry.bits)
      BY <3>1 DEF BitsAfter
    <3>3. QED BY <1>1, <1>4, <2>1, <2>2, <3>2, BitsOfAKind
  <2>3. CASE ~Changed("pedestal")
    <3>1. "noPedestal" \in entry.bits
      BY <1>2, <1>4, <2>1, <2>3 DEF BitsOf
    <3>2. QED BY <1>1, <1>4, <2>1, <2>3, <3>1, BitsOfAKind
  <2>4. QED BY <2>2, <2>3
<1>5. ASSUME "dead" \in new.bits PROVE "cellQuality" \in Kinds
  <2>1. \A k \in Kinds : "dead" \in Touched(k) => k = "cellQuality"
    BY KindsAssumption DEF KindsAssumption, AllKinds, Touched, Parts
  <2>2. "dead" \in entry.bits \/ \E k \in Kinds : "dead" \in Touched(k)
    BY <1>1, <1>5 DEF UpdatedBits
  <2>3. QED BY <2>1, <2>2 DEF BitsOf
<1>6. QED BY <1>3, <1>4, <1>5 DEF BitsOf

\* Each part of the state has the one step that changes it; the rest is the
\* callbacks and the next event.
LEMMA StepsKeep ==
  ASSUME [Next]_vars
  PROVE  /\ UpdateCalibrations \/ UNCHANGED <<calibrations, calVersion>>
         /\ UpdateCalibrations \/ (\E n \in Names : Tell(n)) \/ UNCHANGED <<calTold, calChanged>>
         /\ Map \/ (\E n \in Names : Tell(n)) \/ UNCHANGED mapVars
         /\ Describe \/ (\E n \in Names : Tell(n)) \/ UNCHANGED geoVars
         /\ NextEvent \/ UNCHANGED event
<1> USE DEF mapVars, geoVars, calVars
<1>1. ASSUME NEW n \in Names, Tell(n)
      PROVE  UNCHANGED <<calibrations, calVersion, event>>
  BY <1>1 DEF Tell, CalConditionsChanged
<1>2. CASE Map \/ Describe \/ UpdateCalibrations
  BY <1>2 DEF Map, Describe, UpdateCalibrations
<1>3. ASSUME NEW how, End(how) PROVE UNCHANGED <<mapVars, geoVars, calVars, event>>
  BY <1>3 DEF End
<1>4. ASSUME NEW h, NEW f, CalibrateHits(h, f) \/ LoseHits(h, f) \/ NoHits \/ NextEvent \/ ConditionsRead
      PROVE  UNCHANGED <<mapVars, geoVars, calVars>> /\ (NextEvent \/ UNCHANGED event)
  BY <1>4 DEF CalibrateHits, LoseHits, Write, NoHits, NextEvent, ConditionsRead
<1>5. CASE UNCHANGED vars
  BY <1>5 DEF vars, chainVars
<1>6. QED
  BY <1>1, <1>2, <1>3, <1>4, <1>5
  DEF Next, MapFails, DescribeFails, UpdateStops, UpdateAborts, CalibrateFails, NoConnections

\* The bits change with the constants only.
LEMMA BitsPreserved ==
  ASSUME BitsFollow, [Next]_vars
  PROVE  BitsFollow'
<1>1. CASE calibrations' = calibrations
  BY <1>1 DEF BitsFollow, BitsOf
<1>2. CASE UpdateCalibrations
  <2>1. calibrations' = [c \in DOMAIN Remapped |-> Updated(c, Remapped[c])]
    BY <1>2 DEF UpdateCalibrations, CalProcessEvent
  <2>2. \A c \in DOMAIN Remapped : BitsOf(c, Remapped[c])
    <3>1. CASE calVersion # mapper.version
      BY <3>1, EmptyFollows DEF Remapped
    <3>2. CASE calVersion = mapper.version
      BY <3>2 DEF Remapped, BitsFollow
    <3>3. QED BY <3>1, <3>2
  <2>3. \A c \in DOMAIN Remapped : BitsOf(c, Updated(c, Remapped[c]))
    BY <2>2, UpdateFollows
  <2>4. \A c \in DOMAIN calibrations' : BitsOf(c, calibrations'[c])
    BY <2>1, <2>3
  <2>5. QED BY <2>4 DEF BitsFollow, BitsOf
<1>3. QED BY <1>1, <1>2, StepsKeep

-----------------------------------------------------------------------------
(* Dead cells, and constants made of two collections.                      *)

DeadSettled ==
  \A c \in DOMAIN calibrations :
    "dead" \in calibrations[c].bits <=>
      Current("cellQuality") /\ c \in calTold["cellQuality"].cells

\* The dead cells are those listed, but between the callback and the update.
DeadInv ==
  "cellQuality" \in Kinds /\ ~(Uncalibrated /\ Remapping) /\ ~Changed("cellQuality")
    => DeadSettled

\* Both collections of a pair were told, or neither.
PairsTold ==
  \A k \in Kinds :
    ~Changed(k) /\ (\E p \in Parts(k) : Told(calTold[p])) => \A p \in Parts(k) : Told(calTold[p])

QualityInv == status = "running" => DeadInv /\ PairsTold

LEMMA TellKeepsKind ==
  ASSUME IInv, NEW n \in Names, Tell(n), NEW k \in Kinds, ~Changed(k)'
  PROVE  ~Changed(k) /\ \A p \in Parts(k) : calTold'[p] = calTold[p]
<1>1. Parts(k) \subseteq CalNames
  BY DEF CalNames
<1>2. PICK col : CalConditionsChanged(n, col)
  BY DEF Tell
<1>3. n \notin Parts(k)
  BY <1>1, <1>2 DEF CalConditionsChanged, Changed
<1>4. CASE n \in CalNames
  BY <1>1, <1>2, <1>3, <1>4 DEF CalConditionsChanged, Changed, IInv, Types
<1>5. CASE n \notin CalNames
  BY <1>2, <1>5 DEF CalConditionsChanged, Changed, calVars
<1>6. QED BY <1>4, <1>5

LEMMA PairsPreserved ==
  ASSUME IInv, status = "running", PairsTold, [Next]_vars
  PROVE  PairsTold'
<1> SUFFICES ASSUME NEW k \in Kinds, ~Changed(k)', \E p \in Parts(k) : Told(calTold'[p])
             PROVE  \A p \in Parts(k) : Told(calTold'[p])
  BY DEF PairsTold
<1>1. CASE UNCHANGED <<calTold, calChanged>>
  BY <1>1 DEF PairsTold, Changed
<1>2. ASSUME NEW n \in Names, Tell(n) PROVE \A p \in Parts(k) : Told(calTold'[p])
  BY <1>2, TellKeepsKind DEF PairsTold
<1>3. CASE UpdateCalibrations
  BY <1>3 DEF UpdateCalibrations, CalProcessEvent, Missing, PairsTold
<1>4. QED BY <1>1, <1>2, <1>3, StepsKeep

\* Without a remapping, what is told does not touch the mapping.
LEMMA TellNoMapping ==
  ASSUME IInv, NEW n \in Names, Tell(n), ~Remapping'
  PROVE  UNCHANGED <<mapTold, mapper, event>> /\ LastMapping' = LastMapping /\ ~Remapping
<1>1. PICK col \in Collections(n) : MapConditionsChanged(n, col)
  BY DEF Tell
<1>2. col.nr = event /\ event' = event /\ mapper' = mapper
  BY <1>1 DEF Collections, Tell, MapConditionsChanged, mapVars
<1>3. IInv'
  BY TellPreserves
<1>4. n \notin MapNames
  <2> SUFFICES ASSUME n \in MapNames PROVE FALSE OBVIOUS
  <2>1. mapTold'[n].nr = event'
    BY <1>1, <1>2 DEF MapConditionsChanged, IInv, Types
  <2>2. Types' /\ NrBounded'
    BY <1>3 DEF IInv
  <2>3. QED BY <2>1, <2>2 DEF Types, NrBounded, LastMapping, Remapping, MapNames, Collection
<1>5. mapTold' = mapTold
  BY <1>1, <1>4 DEF MapConditionsChanged, mapVars
<1>6. QED BY <1>2, <1>5 DEF LastMapping, Remapping

\* Only the calibration processor ends the time in which constants may be old.
LEMMA StageSteps ==
  ASSUME [Next]_vars, Uncalibrated
  PROVE  Uncalibrated' \/ UpdateCalibrations
<1>1. ASSUME NEW n \in Names, Tell(n) PROVE stage' = stage
  BY <1>1 DEF Tell
<1>2. ASSUME NEW how, End(how) PROVE stage' = stage
  BY <1>2 DEF End
<1>3. ASSUME NEW h, NEW f, CalibrateHits(h, f) \/ LoseHits(h, f) \/ NoHits PROVE FALSE
  BY <1>3 DEF CalibrateHits, LoseHits, NoHits, At
<1>4. CASE ConditionsRead \/ Map \/ Describe \/ NextEvent
  BY <1>4 DEF ConditionsRead, Map, Describe, NextEvent
<1>5. CASE UNCHANGED vars
  BY <1>5 DEF vars, chainVars
<1>6. QED
  BY <1>1, <1>2, <1>3, <1>4, <1>5
  DEF Next, MapFails, DescribeFails, UpdateStops, UpdateAborts, CalibrateFails, NoConnections

LEMMA DeadUpdated ==
  ASSUME IInv, DeadInv, UpdateCalibrations, "cellQuality" \in Kinds
  PROVE  DeadSettled'
<1> DEFINE k == "cellQuality"
<1>1. /\ Running /\ stage = "calibrations" /\ UNCHANGED <<mapVars, event, calTold>>
      /\ calibrations' = [c \in DOMAIN Remapped |-> Updated(c, Remapped[c])]
  BY DEF UpdateCalibrations, CalProcessEvent, At, IInv
<1> USE DEF mapVars
<1>2. /\ Changed(k) => Current(k)
      /\ Remapping => (Current(k) <=> Changed(k))
  BY <1>1, CurrentWhenChanged DEF IInv, Running
<1>3. Current(k)' <=> Current(k)
  BY <1>1 DEF Current, LastMapping
<1>4. calVersion # mapper.version <=> Remapping
  BY <1>1 DEF Running, Versions
<1>5. SUFFICES ASSUME NEW c \in DOMAIN Remapped
               PROVE  "dead" \in Updated(c, Remapped[c]).bits <=>
                        Current(k) /\ c \in calTold[k].cells
  BY <1>1, <1>3 DEF DeadSettled
<1>6. /\ "dead" \in Touched(k) /\ Parts(k) = {k}
      /\ Updated(c, Remapped[c]).bits = UpdatedBits(c, Remapped[c].bits)
  BY DEF Touched, Parts, Updated
<1>7. "dead" \in UpdatedBits(c, Remapped[c].bits) <=>
        IF Changed(k) THEN "dead" \in BitsAfter(k, c, Remapped[c].bits)
                      ELSE "dead" \in Remapped[c].bits
  BY <1>6, BitsOfAKind
<1>8. CASE Changed(k)
  <2>1. "dead" \in BitsAfter(k, c, Remapped[c].bits) <=> Defaulted(k, c) = {}
    BY DEF BitsAfter
  <2>2. Defaulted(k, c) = {} <=> c \in calTold[k].cells
    BY <1>6 DEF Defaulted
  <2>3. QED BY <1>2, <1>6, <1>7, <1>8, <2>1, <2>2
<1>9. CASE ~Changed(k) /\ Remapping
  <2>1. Remapped[c].bits = {}
    BY <1>4, <1>9 DEF Remapped, Empty
  <2>2. QED BY <1>2, <1>6, <1>7, <1>9, <2>1
<1>10. CASE ~Changed(k) /\ ~Remapping
  <2>1. Remapped = calibrations /\ DeadSettled
    BY <1>4, <1>10 DEF Remapped, DeadInv
  <2>2. QED BY <1>6, <1>7, <1>10, <2>1 DEF DeadSettled
<1>11. QED BY <1>8, <1>9, <1>10

LEMMA DeadPreserved ==
  ASSUME IInv, DeadInv, [Next]_vars
  PROVE  DeadInv'
<1> DEFINE k == "cellQuality"
<1> SUFFICES ASSUME k \in Kinds, ~(Uncalibrated' /\ Remapping'), ~Changed(k)'
             PROVE  DeadSettled'
  BY DEF DeadInv
<1>1. ASSUME NEW n \in Names, Tell(n) PROVE DeadSettled'
  <2>1. Uncalibrated /\ Uncalibrated' /\ calibrations' = calibrations
    BY <1>1 DEF Tell, At, CalConditionsChanged, calVars
  <2>2. LastMapping' = LastMapping /\ ~Remapping
    BY <1>1, <2>1, TellNoMapping
  <2>3. ~Changed(k) /\ \A p \in Parts(k) : calTold'[p] = calTold[p]
    BY <1>1, TellKeepsKind
  <2>4. DeadSettled /\ Parts(k) = {k}
    BY <2>2, <2>3 DEF DeadInv, Parts
  <2>5. Current(k)' <=> Current(k)
    BY <2>2, <2>3 DEF Current
  <2>6. QED BY <2>1, <2>3, <2>4, <2>5 DEF DeadSettled
<1>2. CASE UpdateCalibrations
  BY <1>2, DeadUpdated
<1>3. CASE NextEvent
  <2>1. ~Uncalibrated /\ ~Changed(k) /\ UNCHANGED <<mapTold, calTold, calibrations>>
    BY <1>3 DEF NextEvent, At, mapVars, calVars, Changed
  <2>2. QED BY <2>1 DEF DeadInv, DeadSettled, Current, LastMapping
<1>4. CASE /\ UNCHANGED <<calTold, calChanged, calibrations, mapTold, event>>
           /\ Uncalibrated => Uncalibrated'
  <2>1. LastMapping' = LastMapping /\ (Remapping' <=> Remapping)
    BY <1>4 DEF LastMapping, Remapping
  <2>2. DeadSettled
    BY <1>4, <2>1 DEF DeadInv, Changed
  <2>3. QED BY <1>4, <2>1, <2>2 DEF DeadSettled, Current
<1>5. Map => mapTold' = mapTold
  BY DEF Map, MapProcessEvent
<1>6. QED BY <1>1, <1>2, <1>3, <1>4, <1>5, StepsKeep, StageSteps DEF mapVars

-----------------------------------------------------------------------------
(* The positions of the cells.                                             *)

GeoTypes ==
  /\ geoTold \in [GeoNames -> Collection]
  /\ geoChanged \subseteq GeoNames
  /\ geoVersion \in Nat /\ geoVersion <= mapper.version

\* Both processors are told the same collections of the mapping.
SameTold == \A n \in MapNames : geoTold[n] = mapTold[n]

PositionsCurrent == geoChanged = {} /\ geoVersion = mapper.version

Placed ==
  /\ DOMAIN positions = geoTold["connection"].cells \intersect geoTold["description"].cells
  /\ \A c \in DOMAIN positions, n \in GeoNames : positions[c][n] = geoTold[n].nr

\* The positions are those of the collections told last, unless a flag or a
\* version says that they are to be made again; at the latest in this event.
GeoInv ==
  /\ GeoTypes /\ SameTold
  /\ PositionsCurrent => Placed
  /\ stage \in {"calibrations", "hits", "done"} => PositionsCurrent

LEMMA GeoEstablished == ASSUME Init PROVE GeoInv
<1> USE DEF Init, MapInit, GeoInit, NoCollection
<1>1. GeoTypes /\ SameTold
  BY DEF GeoTypes, SameTold, GeoNames, MapNames, Collection
<1>2. Placed
  BY DEF Placed, GeoNames, MapNames
<1>3. QED BY <1>1, <1>2 DEF GeoInv

LEMMA GeoTell ==
  ASSUME IInv, GeoInv, NEW n \in Names, Tell(n)
  PROVE  GeoInv'
<1>1. PICK col \in Collections(n) :
        /\ col.itep \subseteq col.cells
        /\ MapConditionsChanged(n, col)
        /\ GeoConditionsChanged(n, col)
  BY DEF Tell
<1>2. col \in Collection
  BY <1>1, ChainAssumption DEF ChainAssumption, Collections, Collection, IInv, Types
<1>3. /\ stage = "conditions" /\ stage' = stage
      /\ UNCHANGED <<mapper, geoVersion, positions>>
  BY <1>1 DEF Tell, At, MapConditionsChanged, GeoConditionsChanged, mapVars, geoVars
<1>4. CASE n \in GeoNames
  <2>1. /\ geoTold' = [geoTold EXCEPT ![n] = col]
        /\ geoChanged' = geoChanged \union {n}
    BY <1>1, <1>4 DEF GeoConditionsChanged
  <2>2. GeoTypes'
    BY <1>2, <1>3, <1>4, <2>1 DEF GeoInv, GeoTypes
  <2>3. SameTold'
    BY <1>1, <1>4, <2>1 DEF GeoInv, GeoTypes, SameTold, MapConditionsChanged, GeoNames, IInv, Types, mapVars
  <2>4. ~PositionsCurrent'
    BY <2>1 DEF PositionsCurrent
  <2>5. QED BY <1>3, <2>2, <2>3, <2>4 DEF GeoInv
<1>5. CASE n \notin GeoNames
  <2>1. UNCHANGED <<geoVars, mapVars>>
    BY <1>1, <1>5 DEF GeoConditionsChanged, MapConditionsChanged, GeoNames
  <2>2. QED BY <1>3, <2>1
    DEF GeoInv, GeoTypes, SameTold, PositionsCurrent, Placed, geoVars, mapVars
<1>6. QED BY <1>4, <1>5

LEMMA GeoMap ==
  ASSUME IInv, GeoInv, Map
  PROVE  GeoInv'
<1>1. /\ UNCHANGED <<geoVars, mapTold>> /\ stage' = "description"
      /\ mapper.version \in Nat /\ mapper'.version \in Nat
      /\ mapper'.version >= mapper.version
  <2>1. UNCHANGED <<geoVars, mapTold>> /\ stage' = "description" /\ mapper.version \in Nat
    BY DEF Map, MapProcessEvent, IInv, Types, Filled
  <2>2. /\ Fill(mapper).version = mapper.version + 2
        /\ FillModuleConnection(mapper, mapTold["connection"]).version = mapper.version + 1
    BY <2>1 DEF Fill, FillModuleConnection, FillModuleDescription
  <2>3. \/ mapper' = mapper \/ mapper' = Fill(mapper)
        \/ mapper' = FillModuleConnection(mapper, mapTold["connection"])
    BY DEF Map, MapProcessEvent
  <2>4. QED BY <2>1, <2>2, <2>3
<1>2. GeoTypes' /\ SameTold'
  BY <1>1 DEF GeoInv, GeoTypes, SameTold, geoVars
<1>3. PositionsCurrent' => PositionsCurrent
  BY <1>1 DEF GeoInv, GeoTypes, PositionsCurrent, geoVars
<1>4. Placed' <=> Placed
  BY <1>1 DEF Placed, geoVars
<1>5. QED BY <1>1, <1>2, <1>3, <1>4 DEF GeoInv

LEMMA GeoDescribe ==
  ASSUME IInv, GeoInv, Describe
  PROVE  GeoInv'
<1>1. UNCHANGED <<mapVars, geoTold>> /\ stage' = "calibrations" /\ GeoProcessEvent
  BY DEF Describe, GeoProcessEvent, geoVars
<1>2. CASE NeedsDescriptions
  <2>1. /\ positions' = Generated /\ geoVersion' = mapper.version /\ geoChanged' = {}
    BY <1>1, <1>2 DEF GeoProcessEvent
  <2>2. Placed'
    BY <1>1, <2>1 DEF Placed, Generated
  <2>3. GeoTypes' /\ SameTold'
    BY <1>1, <2>1 DEF GeoInv, GeoTypes, SameTold, mapVars, IInv, Types, Filled
  <2>4. PositionsCurrent'
    BY <1>1, <2>1 DEF PositionsCurrent, mapVars
  <2>5. QED BY <2>2, <2>3, <2>4 DEF GeoInv
<1>3. CASE ~NeedsDescriptions
  <2>1. UNCHANGED geoVars /\ PositionsCurrent
    BY <1>1, <1>3 DEF GeoProcessEvent, NeedsDescriptions, PositionsCurrent
  <2>2. QED BY <1>1, <2>1 DEF GeoInv, GeoTypes, SameTold, PositionsCurrent, Placed, geoVars, mapVars
<1>4. QED BY <1>2, <1>3

LEMMA GeoPreserved ==
  ASSUME IInv, GeoInv, [Next]_vars
  PROVE  GeoInv'
<1>1. ASSUME UNCHANGED <<mapVars, geoVars>>,
             stage' \in {"calibrations", "hits", "done"} =>
               stage \in {"calibrations", "hits", "done"}
      PROVE  GeoInv'
  BY <1>1 DEF GeoInv, GeoTypes, SameTold, PositionsCurrent, Placed, mapVars, geoVars
<1>2. ASSUME NEW n \in Names, Tell(n) PROVE GeoInv'
  BY <1>2, GeoTell
<1>3. CASE Map
  BY <1>3, GeoMap
<1>4. CASE Describe
  BY <1>4, GeoDescribe
<1>5. ASSUME NEW how, End(how) PROVE GeoInv'
  BY <1>1, <1>5 DEF End
<1>6. CASE ConditionsRead \/ UpdateCalibrations \/ NextEvent
  BY <1>1, <1>6 DEF ConditionsRead, UpdateCalibrations, NextEvent, At
<1>7. ASSUME NEW h, NEW f, CalibrateHits(h, f) \/ LoseHits(h, f) \/ NoHits PROVE GeoInv'
  BY <1>1, <1>7 DEF CalibrateHits, LoseHits, Write, NoHits, At
<1>8. CASE UNCHANGED vars
  BY <1>1, <1>8 DEF vars, chainVars
<1>9. QED
  BY <1>2, <1>3, <1>4, <1>5, <1>6, <1>7, <1>8
  DEF Next, MapFails, DescribeFails, UpdateStops, UpdateAborts, CalibrateFails, NoConnections

-----------------------------------------------------------------------------
(* How the job ends, and what is written.                                  *)

\* When hits are calibrated nothing is left to be rebuilt.
LEMMA AllSettled ==
  ASSUME IInv, GeoInv, status = "running", stage = "hits"
  PROVE  /\ calChanged = {} /\ Covered
         /\ \A k \in ValueKinds : Settled(k)
         /\ DOMAIN positions = DOMAIN calibrations
<1>1. Running
  BY DEF IInv
<1>2. calChanged = {} /\ mapChanged = {}
  BY <1>1 DEF Running, Flags, IInv, Types
<1>3. Covered /\ \A k \in ValueKinds : Settled(k)
  BY <1>1, <1>2 DEF Running, Contents, Changed
<1>4. Placed /\ SameTold
  BY DEF GeoInv
<1>5. QED BY <1>2, <1>3, <1>4 DEF Placed, SameTold, Covered, MapNames

\* A hit that ends the job is in a cell without a constant it needs.
LEMMA FatalForAGap ==
  ASSUME IInv, GeoInv, status = "running", stage = "hits", NEW h, NEW f, Fatal(h, f) # {}
  PROVE  \E k \in Needed : ~Current(k)
<1>1. PICK c \in CellsOf(h, f) : ~Skipped(c) /\ ~Readable(c)
  BY DEF Fatal
<1>2. c \in DOMAIN calibrations /\ c \in DOMAIN positions
  BY <1>1, AllSettled DEF Skipped
<1>3. PICK k \in Needed : calibrations[c].value[k] = NoValue
  BY <1>1, <1>2 DEF Readable
<1>4. k \in ValueKinds /\ k \in Kinds
  BY DEF Needed, ValueKinds
<1>5. calibrations[c].value[k] = IF Current(k) THEN Value(k, c) ELSE NoValue
  BY <1>2, <1>4, AllSettled DEF Settled
<1>6. QED BY <1>3, <1>4, <1>5, ValueThere

\* Half a pair of collections is told.
LEMMA StopsForAGap ==
  ASSUME IInv, status = "running", stage = "calibrations", Missing
  PROVE  \E k \in {"MIP", "gain"} \intersect Kinds :
           \E p, q \in Parts(k) : Told(calTold[p]) /\ ~Told(calTold[q])
<1>1. PICK k \in Kinds : Changed(k) /\ \E q \in Parts(k) : ~Told(calTold[q])
  BY DEF Missing
<1>2. PICK q \in Parts(k) : ~Told(calTold[q])
  BY <1>1
<1>3. PICK p \in Parts(k) : p \in calChanged
  BY <1>1 DEF Changed
<1>4. Told(calTold[p])
  BY <1>3 DEF IInv, Running, Flags, Types
<1>5. k \in {"MIP", "gain"}
  BY <1>2, <1>3, <1>4 DEF Parts
<1>6. QED BY <1>2, <1>3, <1>4, <1>5

LEMMA EndsPreserved ==
  ASSUME IInv, GeoInv, EndsForAGap, [Next]_vars
  PROVE  EndsForAGap'
<1> USE DEF mapVars, geoVars, calVars
<1>1. ASSUME NEW how, End(how), status = "running",
             how = "crashed" => \/ \E n \in GeoNames : ~Told(geoTold[n])
                                \/ ~(geoTold["connection"].cells \subseteq geoTold["location"].cells)
                                \/ \E k \in Needed : ~Current(k),
             how = "stopped" => \E k \in {"MIP", "gain"} \intersect Kinds :
                                  \E p, q \in Parts(k) : Told(calTold[p]) /\ ~Told(calTold[q])
      PROVE  EndsForAGap'
  BY <1>1 DEF End, EndsForAGap, Current, LastMapping
<1>2. CASE MapFails
  <2>1. \E n \in GeoNames : ~Told(geoTold[n])
    BY <1>2 DEF MapFails, CanMap, GeoInv, SameTold, GeoNames
  <2>2. QED BY <1>1, <1>2, <2>1 DEF MapFails, At
<1>3. CASE DescribeFails
  BY <1>1, <1>3 DEF DescribeFails, CanDescribe, At
<1>4. CASE UpdateStops
  BY <1>1, <1>4, StopsForAGap DEF UpdateStops, At
<1>5. CASE UpdateAborts \/ NoConnections
  BY <1>1, <1>5 DEF UpdateAborts, NoConnections, At
<1>6. ASSUME NEW h, NEW f, CalibrateFails(h, f) PROVE EndsForAGap'
  BY <1>1, <1>6, FatalForAGap DEF CalibrateFails, At
<1>7. ASSUME UNCHANGED status, status = "running" PROVE EndsForAGap'
  BY <1>7 DEF EndsForAGap
<1>8. ASSUME NEW n, Tell(n) PROVE EndsForAGap'
  BY <1>7, <1>8 DEF Tell, At
<1>9. CASE ConditionsRead \/ Map \/ Describe \/ UpdateCalibrations \/ NextEvent
  BY <1>7, <1>9 DEF ConditionsRead, Map, Describe, UpdateCalibrations, NextEvent, At
<1>10. ASSUME NEW h, NEW f, CalibrateHits(h, f) \/ LoseHits(h, f) \/ NoHits PROVE EndsForAGap'
  BY <1>7, <1>10 DEF CalibrateHits, LoseHits, Write, NoHits, At
<1>11. CASE UNCHANGED vars
  BY <1>11 DEF vars, chainVars, EndsForAGap, Current, LastMapping
<1>12. QED BY <1>2, <1>3, <1>4, <1>5, <1>6, <1>8, <1>9, <1>10, <1>11 DEF Next

\* The filters on the status bits admit what the collections admit.
LEMMA FiltersExact ==
  ASSUME IInv, GeoInv, BitsFollow, QualityInv, status = "running", stage = "hits",
         ~PedestalSubtraction, \A k \in Kinds : Current(k), NEW c
  PROVE  ~Skipped(c) <=> Wanted(c)
<1>1. /\ calChanged = {} /\ Covered /\ \A k \in ValueKinds : Settled(k)
      /\ \A k \in Kinds : ~Changed(k)
  BY AllSettled DEF Changed
<1>2. c \in DOMAIN calibrations <=>
        c \in mapTold["description"].cells \intersect mapTold["connection"].cells
  BY <1>1 DEF Covered
<1>3. ASSUME c \in DOMAIN calibrations
      PROVE  "dead" \in calibrations[c].bits <=>
               "cellQuality" \in Kinds /\ c \in calTold["cellQuality"].cells
  <2>1. CASE "cellQuality" \in Kinds
    BY <1>1, <1>3, <2>1 DEF QualityInv, DeadInv, DeadSettled
  <2>2. CASE "cellQuality" \notin Kinds
    BY <1>3, <2>2 DEF BitsFollow, BitsOf
  <2>3. QED BY <2>1, <2>2
<1>4. ASSUME c \in DOMAIN calibrations, NEW p \in DefaultBits
      PROVE  /\ Told(calTold[p])
             /\ p \in calibrations[c].bits <=> c \notin calTold[p].cells
  <2>1. PICK k \in ValueKinds \ {"pedestal"} : p \in Parts(k)
    BY DEF DefaultBits
  <2>2. k \in Kinds /\ Current(k) /\ ~Changed(k)
    BY <1>1 DEF ValueKinds
  <2>3. Told(calTold[p])
    BY <2>1, <2>2 DEF QualityInv, PairsTold, Current
  <2>4. calibrations[c].value[k] = Value(k, c) /\ Value(k, c) # NoValue
    BY <1>1, <1>4, <2>2, ValueThere DEF Settled
  <2>5. Value(k, c)[p].own <=> c \in calTold[p].cells
    BY <2>1 DEF Value
  <2>6. p \in calibrations[c].bits <=> c \notin calTold[p].cells
    BY <1>4, <2>1, <2>4, <2>5 DEF BitsFollow, BitsOf
  <2>7. QED BY <2>3, <2>6
<1>5. CASE c \notin DOMAIN calibrations
  BY <1>2, <1>5 DEF Skipped, Wanted
<1>6. CASE c \in DOMAIN calibrations
  <2>1. calibrations[c].bits \intersect DefaultBits # {} <=>
          ~\A p \in DefaultBits : Told(calTold[p]) => c \in calTold[p].cells
    BY <1>4, <1>6
  <2>2. QED BY <1>2, <1>3, <1>6, <2>1 DEF Skipped, Wanted
<1>7. QED BY <1>5, <1>6

\* Nothing is written before the hits are calibrated.
OutInv ==
  /\ stage # "done" => hits = {} /\ output = {}
  /\ ~PedestalSubtraction => OutputAsTold

LEMMA OutputPreserved ==
  ASSUME IInv, GeoInv, BitsFollow, QualityInv, OutInv, [Next]_vars
  PROVE  OutInv'
<1> USE DEF mapVars, geoVars, calVars
<1>1. ASSUME UNCHANGED <<stage, hits, output, connected, mapTold, calTold>> PROVE OutInv'
  <2>1. UNCHANGED LastMapping
    BY <1>1 DEF LastMapping
  <2>2. \A k : Current(k)' <=> Current(k)
    BY <1>1, <2>1 DEF Current
  <2>3. CellsOf(hits, connected)' = CellsOf(hits, connected)
    BY <1>1 DEF CellsOf
  <2>4. \A c : Wanted(c)' <=> Wanted(c)
    BY <1>1 DEF Wanted
  <2>5. OutputAsTold' <=> OutputAsTold
    BY <1>1, <2>2, <2>3, <2>4 DEF OutputAsTold
  <2>6. QED BY <1>1, <2>5 DEF OutInv
<1>2. ASSUME UNCHANGED <<hits, output>>, stage # "done", stage' # "done" PROVE OutInv'
  BY <1>2 DEF OutInv, OutputAsTold
<1>3. ASSUME NEW n, Tell(n) PROVE OutInv'
  BY <1>2, <1>3 DEF Tell, At
<1>4. CASE ConditionsRead \/ Map \/ Describe \/ UpdateCalibrations
  BY <1>2, <1>4 DEF ConditionsRead, Map, Describe, UpdateCalibrations, At
<1>5. CASE NextEvent
  BY <1>5 DEF NextEvent, OutInv, OutputAsTold
<1>6. ASSUME NEW how, End(how) PROVE OutInv'
  BY <1>1, <1>6 DEF End, hardware
<1>7. ASSUME At("hits"), stage' = "done",
             UNCHANGED <<mapTold, calTold>>,
             output' = IF hits' \subseteq DOMAIN connected'
                       THEN {c \in CellsOf(hits', connected') : ~Skipped(c)} ELSE {}
      PROVE  OutInv'
  <2>1. SUFFICES ASSUME ~PedestalSubtraction, \A k \in Kinds : Current(k)'
                 PROVE  output' = IF hits' \subseteq DOMAIN connected'
                                  THEN {c \in CellsOf(hits', connected') : Wanted(c)'} ELSE {}
    BY <1>7 DEF OutInv, OutputAsTold, CellsOf
  <2>2. \A k \in Kinds : Current(k)
    BY <1>7, <2>1 DEF Current, LastMapping
  <2>3. \A c : ~Skipped(c) <=> Wanted(c)
    BY <1>7, <2>1, <2>2, FiltersExact DEF At
  <2>4. \A c : Wanted(c)' <=> Wanted(c)
    BY <1>7 DEF Wanted
  <2>5. QED BY <1>7, <2>3, <2>4
<1>8. ASSUME NEW h, NEW f, CalibrateHits(h, f) \/ LoseHits(h, f) PROVE OutInv'
  BY <1>7, <1>8 DEF CalibrateHits, LoseHits, Write
<1>9. CASE NoHits
  <2>1. At("hits") /\ hits' = {} /\ output' = {}
    BY <1>9 DEF NoHits, At, OutInv
  <2>2. CellsOf({}, connected') = {}
    BY DEF CellsOf
  <2>3. QED BY <1>7, <1>9, <2>1, <2>2 DEF NoHits
<1>10. CASE UNCHANGED vars
  BY <1>1, <1>10 DEF vars, chainVars, hardware
<1>11. QED
  BY <1>3, <1>4, <1>5, <1>6, <1>8, <1>9, <1>10
  DEF Next, MapFails, DescribeFails, UpdateStops, UpdateAborts, CalibrateFails, NoConnections

-----------------------------------------------------------------------------
(* Type correctness.                                                       *)

LEMMA TouchedBits == ASSUME NEW k \in Kinds PROVE Touched(k) \subseteq Bits
<1>1. Touched(k) \subseteq Parts(k) \union {"noPedestal", "isNewITEP", "dead"}
  BY DEF Touched, Parts
<1>2. k \in {"pedestal", "cellQuality"} => Touched(k) \subseteq {"noPedestal", "dead"}
  BY DEF Touched
<1>3. k \notin {"pedestal", "cellQuality"} => Parts(k) \subseteq DefaultBits
  BY DEF DefaultBits, ValueKinds
<1>4. QED BY <1>1, <1>2, <1>3 DEF Bits

EntryOK(entry) ==
  /\ entry.bits \subseteq Bits
  /\ \A k \in ValueKinds : entry.value[k] = NoValue \/ DOMAIN entry.value[k] = Parts(k)

LEMMA UpdatedOK ==
  ASSUME NEW c, NEW entry, EntryOK(entry)
  PROVE  EntryOK(Updated(c, entry))
<1>1. UpdatedBits(c, entry.bits) \subseteq Bits
  BY TouchedBits DEF UpdatedBits, EntryOK
<1>2. Updated(c, entry).bits = UpdatedBits(c, entry.bits)
  BY DEF Updated
<1>3. ASSUME NEW k \in ValueKinds
      PROVE  \/ Updated(c, entry).value[k] = NoValue
             \/ DOMAIN Updated(c, entry).value[k] = Parts(k)
  <2>1. Updated(c, entry).value[k] = IF Changed(k) THEN Value(k, c) ELSE entry.value[k]
    BY DEF Updated
  <2>2. DOMAIN Value(k, c) = Parts(k)
    BY DEF Value
  <2>3. QED BY <2>1, <2>2 DEF EntryOK
<1>4. QED BY <1>1, <1>2, <1>3 DEF EntryOK

LEMMA UpdateTyped ==
  ASSUME IInv, TypeOK, UpdateCalibrations
  PROVE  /\ DOMAIN calibrations' \subseteq Cells
         /\ \A c \in DOMAIN calibrations' : EntryOK(calibrations'[c])
<1>1. calibrations' = [c \in DOMAIN Remapped |-> Updated(c, Remapped[c])]
  BY DEF UpdateCalibrations, CalProcessEvent
<1>2. Mapped \subseteq Cells
  BY DEF Mapped, IInv, Types, Filled
<1>3. EntryOK(Empty)
  BY DEF EntryOK, Empty
<1>4. DOMAIN Remapped \subseteq Cells /\ \A c \in DOMAIN Remapped : EntryOK(Remapped[c])
  BY <1>2, <1>3 DEF Remapped, TypeOK, EntryOK
<1>5. QED BY <1>1, <1>4, UpdatedOK

LEMMA WriteTyped ==
  ASSUME TypeOK, NEW h \in SUBSET Chips, NEW f \in Lookups, At("hits"),
         NEW cells \in SUBSET CellsOf(h, f), Write(h, cells, f)
  PROVE  TypeOK'
<1>1. f \in Connections \union {<< >>}
  BY DEF Lookups, TypeOK
<1>2. CellsOf(h, f) \subseteq Cells
  <2>1. CASE f \in Connections
    BY <2>1, ChainAssumption DEF ChainAssumption, CellsOf
  <2>2. CASE f = << >>
    <3>1. DOMAIN f = {}
      BY <2>2
    <3>2. QED BY <3>1 DEF CellsOf
  <2>3. QED BY <1>1, <2>1, <2>2
<1>3. QED BY <1>1, <1>2 DEF Write, TypeOK, mapVars, geoVars, calVars

LEMMA TypePreserved ==
  ASSUME IInv, GeoInv, TypeOK, [Next]_vars
  PROVE  TypeOK'
<1> USE DEF mapVars, geoVars, calVars, hardware
<1>1. ASSUME NEW n \in Names, Tell(n) PROVE TypeOK'
  <2>1. IInv' /\ GeoInv'
    BY <1>1, TellPreserves, GeoTell
  <2>2. mapChanged' \subseteq MapNames /\ calChanged' \subseteq CalNames /\ geoChanged' \subseteq GeoNames
    BY <2>1 DEF IInv, Types, GeoInv, GeoTypes
  <2>3. UNCHANGED <<event, stage, hits, output, hardware, status, positions, calibrations>>
        /\ fresh' = fresh \union {n}
    BY <1>1 DEF Tell, GeoConditionsChanged, CalConditionsChanged
  <2>4. QED BY <2>2, <2>3 DEF TypeOK
<1>2. CASE ConditionsRead
  BY <1>2 DEF ConditionsRead, TypeOK
<1>3. CASE Map
  BY <1>3 DEF Map, MapProcessEvent, TypeOK
<1>4. CASE Describe
  <2>1. DOMAIN Generated \subseteq Cells
    BY DEF Generated, GeoInv, GeoTypes, GeoNames, MapNames, Collection
  <2>2. DOMAIN positions' \subseteq Cells /\ geoChanged' \subseteq GeoNames
    BY <1>4, <2>1 DEF Describe, GeoProcessEvent, TypeOK
  <2>3. QED BY <1>4, <2>2 DEF Describe, TypeOK
<1>5. CASE UpdateCalibrations
  BY <1>5, UpdateTyped DEF UpdateCalibrations, CalProcessEvent, TypeOK, EntryOK
<1>6. ASSUME NEW how \in {"stopped", "aborted", "crashed", "unavailable"}, End(how) PROVE TypeOK'
  BY <1>6 DEF End, TypeOK
<1>7. ASSUME NEW h \in SUBSET Chips, NEW f \in Lookups, CalibrateHits(h, f) PROVE TypeOK'
  BY <1>7, WriteTyped DEF CalibrateHits
<1>8. ASSUME NEW h \in SUBSET Chips, NEW f \in Lookups, LoseHits(h, f) PROVE TypeOK'
  BY <1>8, WriteTyped DEF LoseHits
<1>9. CASE NoHits
  BY <1>9 DEF NoHits, TypeOK
<1>10. CASE NextEvent
  BY <1>10, ChainAssumption DEF NextEvent, TypeOK, ChainAssumption
<1>11. CASE UNCHANGED vars
  BY <1>11 DEF vars, chainVars, TypeOK
<1>12. QED
  BY <1>1, <1>2, <1>3, <1>4, <1>5, <1>6, <1>7, <1>8, <1>9, <1>10, <1>11
  DEF Next, MapFails, DescribeFails, UpdateStops, UpdateAborts, CalibrateFails, NoConnections

-----------------------------------------------------------------------------
(* The theorems.                                                           *)

ChainInv ==
  /\ IInv /\ GeoInv /\ BitsFollow /\ QualityInv
  /\ EndsForAGap /\ OutInv

LEMMA ChainInvHolds == Spec => []ChainInv
<1>1. Init => ChainInv
  <2> SUFFICES ASSUME Init PROVE ChainInv OBVIOUS
  <2>1. IInv /\ GeoInv
    BY InitEstablishes, GeoEstablished
  <2>2. calibrations = << >> /\ stage = "conditions" /\ status = "running"
        /\ hits = {} /\ output = {}
    BY DEF Init, CalInit
  <2>3. BitsFollow /\ DeadSettled
    BY <2>2 DEF BitsFollow, DeadSettled
  <2>4. PairsTold
    <3>1. \A k \in Kinds : \A p \in Parts(k) : calTold[p].nr = 0
      BY DEF Init, CalInit, CalNames, NoCollection
    <3>2. QED BY <3>1 DEF PairsTold
  <2>5. EndsForAGap /\ OutInv
    BY <2>2 DEF EndsForAGap, OutInv, OutputAsTold
  <2>6. QED BY <2>1, <2>3, <2>4, <2>5 DEF ChainInv, QualityInv, DeadInv
<1>2. ChainInv /\ [Next]_vars => ChainInv'
  <2> SUFFICES ASSUME ChainInv, [Next]_vars PROVE ChainInv' OBVIOUS
  <2>1. IInv /\ GeoInv /\ BitsFollow /\ QualityInv /\ EndsForAGap /\ OutInv
    BY DEF ChainInv
  <2>2. IInv' /\ GeoInv' /\ BitsFollow' /\ EndsForAGap' /\ OutInv'
    BY <2>1, NextPreserves, GeoPreserved, BitsPreserved, EndsPreserved, OutputPreserved
  <2>3. status' = "running" => status = "running"
    BY DEF Next, vars, chainVars, ConditionsRead, Map, Describe, End, Tell, UpdateCalibrations,
           MapFails, DescribeFails, UpdateStops, UpdateAborts, CalibrateHits, LoseHits, Write,
           CalibrateFails, NoHits, NoConnections, NextEvent, At
  <2>4. QualityInv'
    BY <2>1, <2>3, DeadPreserved, PairsPreserved DEF QualityInv
  <2>5. QED BY <2>2, <2>4 DEF ChainInv
<1>3. QED BY <1>1, <1>2, PTL DEF Spec

\* A default bit is set exactly for a default in use: what a filter on the bits
\* drops is what has no constant of its own (Ahc2CalibrationsProcessor.cc:602-724).
THEOREM DefaultsAlwaysFlagged == Spec => []DefaultsFlagged
<1>1. ChainInv => DefaultsFlagged
  BY DEF ChainInv, BitsFollow, BitsOf, DefaultsFlagged
<1>2. QED BY <1>1, ChainInvHolds, PTL

\* The value that stands for a missing pedestal is flagged
\* (Ahc2CalibrationsProcessor.cc:762-840).
THEOREM PedestalsAlwaysFlagged == Spec => []MissingPedestalFlagged
<1>1. ChainInv => MissingPedestalFlagged
  BY DEF ChainInv, BitsFollow, BitsOf, MissingPedestalFlagged
<1>2. QED BY <1>1, ChainInvHolds, PTL

\* The dead cells are those the quality collection lists that was told last, if
\* that was after the mapping (Ahc2CalibrationsProcessor.cc:1369-1412).
THEOREM DeadAlwaysFlagged == Spec => []DeadFlagged
<1>1. ChainInv => DeadFlagged
  <2> SUFFICES ASSUME ChainInv, InUse, "cellQuality" \in Kinds PROVE DeadSettled
    BY DEF DeadFlagged, DeadSettled
  <2>1. ~Uncalibrated /\ Running /\ DeadInv
    BY DEF ChainInv, QualityInv, IInv, InUse
  <2>2. calChanged = {}
    BY <2>1 DEF Running, Flags, ChainInv, IInv, Types
  <2>3. QED BY <2>1, <2>2 DEF DeadInv, Changed
<1>2. QED BY <1>1, ChainInvHolds, PTL

\* The positions are those of the mapping in use, cell by cell, although the
\* two are made from pointers of their own (CellDescriptionProcessor.cc:171-195).
THEOREM PositionsFollow == Spec => []PositionsExact
<1>1. ChainInv => PositionsExact
  <2> SUFFICES ASSUME ChainInv, InUse PROVE PositionsExact
    BY DEF PositionsExact
  <2>1. Placed /\ SameTold /\ Running /\ ~Unmapped
    BY DEF ChainInv, GeoInv, IInv, InUse
  <2>2. mapChanged = {}
    BY <2>1 DEF Running, Flags, ChainInv, IInv, Types
  <2>3. Mapped = geoTold["description"].cells \intersect geoTold["connection"].cells
    BY <2>1, <2>2 DEF Running, MapperFilled, SameTold, Mapped, MapNames
  <2>4. QED BY <2>1, <2>3 DEF Placed, PositionsExact
<1>2. QED BY <1>1, ChainInvHolds, PTL

\* The job crashes or stops only where a condition is missing: no order of
\* collections, remapping or hits makes a processor read what another one has
\* thrown away (Ahc2CalibrateProcessor.cc:634-680).
THEOREM EndsOnlyForAGap == Spec => []EndsForAGap
<1>1. ChainInv => EndsForAGap
  BY DEF ChainInv
<1>2. QED BY <1>1, ChainInvHolds, PTL

\* The hits written are those the collections told last admit, in the cells of the
\* first connections, if pedestals are not subtracted: the bit for a missing one
\* can be out of date (Ahc2CalibrateProcessor.cc:395-466, 548-600).
THEOREM HitsAsTold ==
  ASSUME ~PedestalSubtraction
  PROVE  Spec => []OutputAsTold
<1>1. ChainInv => OutputAsTold
  BY DEF ChainInv, OutInv
<1>2. QED BY <1>1, ChainInvHolds, PTL

\* The containers hold one entry per cell at most, constants of all their
\* collections or none, and known bits (Ahc2CalibrationsProcessor.cc:1420-1465).
THEOREM ChainTyped == Spec => []TypeOK
<1>1. Init => TypeOK
  <2> SUFFICES ASSUME Init PROVE TypeOK OBVIOUS
  <2>1. DOMAIN calibrations = {} /\ DOMAIN positions = {}
    BY DEF Init, CalInit, GeoInit
  <2>2. QED BY <2>1, ChainAssumption DEF Init, MapInit, GeoInit, CalInit, TypeOK, ChainAssumption
<1>2. ChainInv /\ TypeOK /\ [Next]_vars => TypeOK'
  BY TypePreserved DEF ChainInv
<1>3. QED BY <1>1, <1>2, ChainInvHolds, PTL DEF Spec
==============================================================================
