---------------------------- MODULE SlowControl_proofs ----------------------------
(***************************************************************************)
(* The two processors of the slow control use their handlers as these are  *)
(* meant to be used, wherever the chain is cut, and each handler keeps its *)
(* promise: nothing that is still read is deleted.                         *)
(***************************************************************************)
EXTENDS SlowControl, RunTimeConditionsHandler_proofs

\* What is proved of a handler, for that of the temperatures.
TP == INSTANCE RunTimeConditionsHandler_proofs
  WITH col <- tCol, lastValid <- tLastValid, default <- tDefault, evt <- tEvt,
       listener <- tListener, allocated <- tAllocated, frees <- tFrees

\* The handler of the readings: the framework tells it of an event, the mapping
\* processor hands it the sorted readings, and nothing else touches it.
LEMMA ReadingsStep == [SlowNext]_slowVars => [Next]_handlerVars
<1> SUFFICES ASSUME [SlowNext]_slowVars PROVE [Next]_handlerVars OBVIOUS
<1>1. CASE UNCHANGED slowVars
  BY <1>1 DEF slowVars
<1>2. CASE ReadEvent
  <2>1. UpdateEvent
    BY <1>2 DEF ReadEvent
  <2>2. CASE ~evt
    BY <2>1, <2>2 DEF Next
  <2>3. CASE evt
    <3> evt' = evt  BY <2>1, <2>3 DEF UpdateEvent
    <3> QED BY <2>1 DEF UpdateEvent, handlerVars
  <2>4. QED BY <2>2, <2>3
<1>3. CASE MapReadings
  <2>1. CASE PublishReadings
    BY <2>1 DEF PublishReadings, Next
  <2>2. QED BY <1>3, <2>1 DEF MapReadings, DropReadings
<1>4. CASE \/ SkipEvent \/ MapFails
           \/ MakeTemperatures \/ TemperaturesFail \/ KeepTemperatures
  BY <1>4 DEF SkipEvent, MapFails, MakeTemperatures, TemperaturesFail, KeepTemperatures
<1>5. QED BY <1>1, <1>2, <1>3, <1>4 DEF SlowNext

\* The sorted readings are kept and deleted as the handler's specification allows
\* (AhcSROmappingProcessor::processEvent, RunTimeConditionsHandler::update).
THEOREM ReadingsUseTheHandler == SlowSpec => Spec
<1>1. SlowInit => HandlerInit
  BY DEF SlowInit
<1>2. QED BY <1>1, ReadingsStep, PTL DEF SlowSpec, Spec

\* No collection of sorted readings that is still held is deleted, and none twice, for
\* any mappings, readings and calibrations, and chains cut anywhere.
THEOREM ReadingsNeverDangle == SlowSpec => []NothingDangles
  BY ReadingsUseTheHandler, NoDanglingCollection, PTL

-----------------------------------------------------------------------------
(* The handler of the temperatures.                                          *)

LEMMA TemperaturesStep == [SlowNext]_slowVars => [T!Next]_(T!handlerVars)
<1> SUFFICES ASSUME [SlowNext]_slowVars PROVE [T!Next]_(T!handlerVars) OBVIOUS
<1>1. CASE UNCHANGED slowVars
  BY <1>1 DEF slowVars, tVars, T!handlerVars
<1>2. CASE ReadEvent
  <2>1. T!UpdateEvent
    BY <1>2 DEF ReadEvent
  <2>2. CASE ~tEvt
    BY <2>1, <2>2 DEF T!Next
  <2>3. CASE tEvt
    <3>1. tEvt' = tEvt
      BY <2>1, <2>3 DEF T!UpdateEvent
    <3>2. QED BY <2>1, <3>1 DEF T!UpdateEvent, T!handlerVars
  <2>4. QED BY <2>2, <2>3
<1>3. CASE MakeTemperatures
  BY <1>3 DEF MakeTemperatures, T!Next, Objects, T!Objects
<1>4. CASE \/ SkipEvent \/ MapReadings \/ MapFails
           \/ TemperaturesFail \/ KeepTemperatures
  BY <1>4 DEF SkipEvent, MapReadings, MapFails, TemperaturesFail, KeepTemperatures,
              tVars, T!handlerVars
<1>5. QED BY <1>1, <1>2, <1>3, <1>4 DEF SlowNext

THEOREM TemperaturesUseTheHandler == SlowSpec => T!Spec
<1>1. SlowInit => T!HandlerInit
  BY DEF SlowInit
<1>2. QED BY <1>1, TemperaturesStep, PTL DEF SlowSpec, T!Spec

LEMMA TemperaturesNeverDangle == SlowSpec => []T!NothingDangles
<1>1. T!HandlerInit => TP!HandlerInit
  BY DEF T!HandlerInit, TP!HandlerInit, T!NULL, TP!NULL, T!Objects, TP!Objects
<1>2. [T!Next]_(T!handlerVars) => [TP!Next]_(TP!handlerVars)
  BY DEF T!Next, TP!Next, T!New, TP!New, T!Objects, TP!Objects, T!Update, TP!Update,
         T!UpdateEvent, TP!UpdateEvent, T!RegisterDefaultCollection,
         TP!RegisterDefaultCollection, T!Chosen, TP!Chosen, T!Retires, TP!Retires,
         T!Retired, TP!Retired, T!Delete, TP!Delete, T!NULL, TP!NULL,
         T!handlerVars, TP!handlerVars
<1>3. TP!NothingDangles => T!NothingDangles
  BY DEF T!NothingDangles, TP!NothingDangles, T!NULL, TP!NULL, T!Objects, TP!Objects
<1>4. TP!Spec => []TP!NothingDangles
  BY ObjectsAssumption, TP!NoDanglingCollection
<1>5. QED BY <1>1, <1>2, <1>3, <1>4, TemperaturesUseTheHandler, PTL
          DEF T!Spec, TP!Spec

-----------------------------------------------------------------------------
(* The invariant of the two processors.                                      *)

Lists == Seq({"good", "bad"})
Rows == UNION {[S -> Lists] : S \in SUBSET Modules}
Sortings == [of: Nat, by: Nat, at: Nat, rows: Rows]
Origins == SUBSET (Nat \X Nat)
Temperature == [ok: BOOLEAN, of: Origins]
Temperatures == [Modules -> [Sensors -> Temperature]]
ErrorsOf == [Modules -> [Sensors -> Origins]]

Typed ==
  /\ event \in Nat
  /\ mappingChanged \in BOOLEAN /\ inputChanged \in BOOLEAN
  /\ sroChanged \in BOOLEAN /\ calibChanged \in BOOLEAN
  /\ mappingCol \in [nr: 0 .. event, content: Mappings \cup {<<>>}]
  /\ mapper \in [nr: 0 .. event, content: Mappings \cup {<<>>}]
  /\ inCol \in [nr: 0 .. event, content: Readings \cup {<<>>}]
  /\ calibCol \in [nr: 0 .. event, content: Calibrated \cup {{}}]
  /\ made \in Seq(Sortings)
  /\ provider \in [sro: Nat, calib: Nat, offset: [Modules -> Nat],
                   value: Temperatures, error: ErrorsOf]
  /\ published \in Seq([data: Nat, calib: Nat])

\* What a handler holds is what its processor made last; no default was registered.
HandlersInStep ==
  /\ default = NULL /\ tDefault = NULL
  /\ allocated = Len(made) /\ col = Len(made) /\ listener = Len(made)
  /\ tAllocated = Len(published) /\ tListener = Len(published)

\* What the provider has, unless the flags say that there is more.
ProviderInStep ==
  /\ provider.sro \in 0 .. Len(made)
  /\ ~sroChanged => provider.sro = Len(made)
  /\ ~calibChanged => provider.calib = calibCol.nr
  /\ IF Len(published) = 0
       THEN provider.sro = NULL /\ provider.calib = 0
       ELSE published[Len(published)] = [data |-> provider.sro, calib |-> provider.calib]

\* What the mapper has, and what the last readings were sorted by.
MapperInStep ==
  /\ ~mappingChanged => mapper.nr = mappingCol.nr
  /\ \A i \in 1 .. Len(made) : made[i].at <= event
  /\ ~inputChanged /\ Told(inCol) =>
       \/ dropped = inCol.nr
       \/ /\ Len(made) # 0
          /\ made[Len(made)].of = inCol.nr
          /\ mappingCol.nr <= made[Len(made)].at => made[Len(made)].by = mappingCol.nr

\* A flag that was never set to a value does no harm once readings are published.
NoPointerMissing ==
  /\ mappingChanged /\ ~Told(mappingCol) => Len(made) = 0
  /\ inputChanged /\ ~Told(inCol) => Len(made) = 0

SlowInv ==
  /\ Typed /\ HandlersInStep /\ ProviderInStep /\ MapperInStep
  /\ NoPointerMissing /\ FreshTemperature /\ EndsForAGap

LEMMA SlowInitEstablishes == SlowInit => SlowInv
<1> SUFFICES ASSUME SlowInit PROVE SlowInv OBVIOUS
<1>1. Typed
  <2>1. /\ mappingCol \in [nr: 0 .. event, content: Mappings \cup {<<>>}]
        /\ mapper \in [nr: 0 .. event, content: Mappings \cup {<<>>}]
        /\ inCol \in [nr: 0 .. event, content: Readings \cup {<<>>}]
        /\ calibCol \in [nr: 0 .. event, content: Calibrated \cup {{}}]
    BY DEF SlowInit, NoCol
  <2>2. provider \in [sro: Nat, calib: Nat, offset: [Modules -> Nat],
                     value: Temperatures, error: ErrorsOf]
    BY DEF SlowInit, NULL, Temperatures, ErrorsOf, Temperature, Origins, Unread
  <2>3. /\ event \in Nat /\ made \in Seq(Sortings)
        /\ published \in Seq([data: Nat, calib: Nat])
    BY DEF SlowInit
  <2>4. /\ mappingChanged \in BOOLEAN /\ inputChanged \in BOOLEAN
        /\ sroChanged \in BOOLEAN /\ calibChanged \in BOOLEAN
    BY DEF SlowInit
  <2>5. QED BY <2>1, <2>2, <2>3, <2>4 DEF Typed
<1>2. HandlersInStep
  BY DEF SlowInit, HandlerInit, T!HandlerInit, NULL, T!NULL, HandlersInStep
<1>3. ProviderInStep
  BY DEF SlowInit, NoCol, NULL, ProviderInStep
<1>4. MapperInStep /\ NoPointerMissing
  BY DEF SlowInit, NoCol, Told, MapperInStep, NoPointerMissing
<1>5. FreshTemperature /\ EndsForAGap
  BY DEF SlowInit, FreshTemperature, EndsForAGap
<1>6. QED BY <1>1, <1>2, <1>3, <1>4, <1>5 DEF SlowInv

-----------------------------------------------------------------------------
(* The framework tells of collections.                                       *)

LEMMA ReadEventPreserves ==
  ASSUME SlowInv, ReadEvent
  PROVE  SlowInv'
<1>1. /\ event \in Nat /\ event' = event + 1 /\ phase' = "map"
      /\ UNCHANGED <<mapper, dropped, made, provider, published, sroChanged,
                     default, col, listener, allocated, tDefault, tListener, tAllocated>>
  BY DEF ReadEvent, UpdateEvent, T!UpdateEvent, temperatureVars, SlowInv, Typed
<1>2. /\ mappingCol' = mappingCol \/ mappingCol' \in [nr: {event + 1}, content: Mappings]
      /\ inCol' = inCol \/ inCol' \in [nr: {event + 1}, content: Readings]
      /\ calibCol' = calibCol \/ calibCol' \in [nr: {event + 1}, content: Calibrated]
  BY DEF ReadEvent, Valid
<1>. /\ mappingChanged' <=> mappingChanged \/ mappingCol'.nr # mappingCol.nr
     /\ inputChanged' <=> inputChanged \/ inCol'.nr # inCol.nr
     /\ calibChanged' <=> calibChanged \/ calibCol'.nr # calibCol.nr
  BY Zenon DEF ReadEvent
<1>3. Typed'
  <2>1. /\ mappingCol' \in [nr: 0 .. event', content: Mappings \cup {<<>>}]
        /\ mapper' \in [nr: 0 .. event', content: Mappings \cup {<<>>}]
    BY <1>1, <1>2 DEF SlowInv, Typed
  <2>2. inCol' \in [nr: 0 .. event', content: Readings \cup {<<>>}]
    BY <1>1, <1>2 DEF SlowInv, Typed
  <2>3. calibCol' \in [nr: 0 .. event', content: Calibrated \cup {{}}]
    BY <1>1, <1>2 DEF SlowInv, Typed
  <2>4. /\ mappingChanged' \in BOOLEAN /\ inputChanged' \in BOOLEAN
        /\ calibChanged' \in BOOLEAN
    BY DEF ReadEvent
  <2>5. QED BY <1>1, <2>1, <2>2, <2>3, <2>4 DEF SlowInv, Typed
<1>4. HandlersInStep'
  BY <1>1 DEF SlowInv, HandlersInStep
<1>5. ProviderInStep'
  BY <1>1 DEF SlowInv, ProviderInStep
<1>6. NoPointerMissing'
  BY <1>1, <1>2 DEF SlowInv, NoPointerMissing, Told
<1>7. MapperInStep'
  <2>1. ~mappingChanged' => mapper'.nr = mappingCol'.nr
    BY <1>1 DEF SlowInv, MapperInStep
  <2>2. \A i \in 1 .. Len(made) : made[i].at \in Nat /\ made[i].at <= event
    <3>1. \A i \in 1 .. Len(made) : made[i] \in Sortings
      BY DEF SlowInv, Typed
    <3>2. QED BY <3>1 DEF SlowInv, MapperInStep, Sortings
  <2>3. ASSUME ~inputChanged', Told(inCol'), dropped' # inCol'.nr
        PROVE  /\ Len(made) # 0
               /\ made[Len(made)].of = inCol'.nr
               /\ mappingCol'.nr <= made[Len(made)].at => made[Len(made)].by = mappingCol'.nr
    <3>1. ~inputChanged /\ Told(inCol) /\ dropped # inCol.nr /\ inCol'.nr = inCol.nr
      BY <1>1, <2>3 DEF Told
    <3>2. /\ Len(made) # 0 /\ made[Len(made)].of = inCol.nr
          /\ mappingCol.nr <= made[Len(made)].at => made[Len(made)].by = mappingCol.nr
      BY <3>1 DEF SlowInv, MapperInStep
    <3>3. Len(made) \in 1 .. Len(made)
      BY <3>2 DEF SlowInv, Typed
    <3>4. made[Len(made)].at < event + 1
      BY <1>1, <2>2, <3>3
    <3>5. QED BY <1>1, <1>2, <2>2, <3>1, <3>2, <3>3, <3>4
  <2>4. \A i \in 1 .. Len(made') : made'[i].at <= event'
    BY <1>1, <2>2
  <2>5. QED BY <1>1, <2>1, <2>3, <2>4 DEF MapperInStep, Told
<1>8. FreshTemperature' /\ EndsForAGap'
  BY <1>1 DEF SlowInv, FreshTemperature, EndsForAGap
<1>9. QED BY <1>3, <1>4, <1>5, <1>6, <1>7, <1>8 DEF SlowInv
-----------------------------------------------------------------------------
(* The readings are sorted.                                                  *)

\* Sorted readings are of modules the mapping lists, wherever its labels point.
LEMMA SortedRows ==
  ASSUME NEW map \in Mappings \cup {<<>>}, NEW r \in Readings \cup {<<>>},
         NEW garbage \in SUBSET LostModules(map, r)
  PROVE  Sorted(map, r, garbage) \in Rows
<1> DEFINE found == {m \in DOMAIN map : {map[m].cmb, map[m].hv} \cap DOMAIN r # {}} \cup garbage
           row(m) == IF map[m].cmb \in DOMAIN r THEN r[map[m].cmb] ELSE <<>>
<1>1. DOMAIN map \in SUBSET Modules
  <2>1. CASE map \in Mappings
    <3>1. PICK S \in SUBSET Modules : map \in [S -> [cmb: Labels, hv: Labels]]
      BY <2>1, SlowControlAssumption DEF SlowControlAssumption
    <3>2. QED BY <3>1
  <2>2. CASE map = <<>>
    <3>1. DOMAIN map = {}
      BY <2>2
    <3>2. QED BY <3>1
  <2>3. QED BY <2>1, <2>2
<1>2. found \in SUBSET Modules
  BY <1>1 DEF LostModules
<1>3. \A k \in DOMAIN r : r[k] \in Lists
  <2>1. CASE r \in Readings
    <3>1. PICK S \in SUBSET Modules : r \in [S -> Lists]
      BY <2>1, SlowControlAssumption DEF SlowControlAssumption, Lists
    <3>2. QED BY <3>1
  <2>2. CASE r = <<>>
    <3>1. DOMAIN r = {}
      BY <2>2
    <3>2. QED BY <3>1
  <2>3. QED BY <2>1, <2>2
<1>4. \A m \in found : row(m) \in Lists
  BY <1>3 DEF Lists
<1>5. [m \in found |-> row(m)] \in [found -> Lists]
  BY <1>4
<1>6. Sorted(map, r, garbage) = [m \in found |-> row(m)]
  BY DEF Sorted
<1>7. QED BY <1>2, <1>5, <1>6 DEF Rows

\* The readings published are those told last, sorted by the mapping told last.
LEMMA Publishing ==
  ASSUME SlowInv, PublishReadings
  PROVE  \E x \in Sortings :
           /\ made' = Append(made, x)
           /\ x.of = inCol.nr /\ x.by = mappingCol.nr /\ x.at = event
<1>1. Used \in [nr: 0 .. event, content: Mappings \cup {<<>>}] /\ Used.nr = mappingCol.nr
  BY DEF Used, UpdatedMapper, SlowInv, Typed, MapperInStep
<1>2. inCol.content \in Readings \cup {<<>>} /\ inCol.nr \in Nat /\ event \in Nat
  BY DEF SlowInv, Typed
<1>3. PICK garbage \in SUBSET LostModules(Used.content, inCol.content) :
        made' = Append(made, [of |-> inCol.nr, by |-> Used.nr, at |-> event,
                              rows |-> Sorted(Used.content, inCol.content, garbage)])
  BY DEF PublishReadings
<1>4. Sorted(Used.content, inCol.content, garbage) \in Rows
  BY <1>1, <1>2, SortedRows
<1> DEFINE x == [of |-> inCol.nr, by |-> Used.nr, at |-> event,
                 rows |-> Sorted(Used.content, inCol.content, garbage)]
<1>5. x \in Sortings
  BY <1>1, <1>2, <1>4 DEF Sortings
<1>6. QED BY <1>1, <1>3, <1>5

LEMMA MapReadingsPreserves ==
  ASSUME SlowInv, MapReadings
  PROVE  SlowInv'
<1>1. /\ phase' = "temperature"
      /\ mappingChanged' = FALSE /\ inputChanged' = FALSE
      /\ mapper' = UpdatedMapper
      /\ UNCHANGED <<event, mappingCol, inCol, calibCol, calibChanged, provider, published,
                     tDefault, tListener, tAllocated>>
  BY DEF MapReadings, told, temperatureVars, tVars
<1>2. mapper' \in [nr: 0 .. event, content: Mappings \cup {<<>>}] /\ mapper'.nr = mappingCol.nr
  BY <1>1 DEF UpdatedMapper, SlowInv, Typed, MapperInStep
<1>3. NoPointerMissing' /\ EndsForAGap'
  BY <1>1 DEF NoPointerMissing, EndsForAGap
<1>4. CASE PublishReadings
  <2>1. PICK x \in Sortings :
          /\ made' = Append(made, x)
          /\ x.of = inCol.nr /\ x.by = mappingCol.nr /\ x.at = event
    BY <1>4, Publishing
  <2>2. made \in Seq(Sortings)
    BY DEF SlowInv, Typed
  <2>3. /\ made' \in Seq(Sortings) /\ Len(made) \in Nat /\ Len(made') = Len(made) + 1
        /\ made'[Len(made')] = x
        /\ \A i \in 1 .. Len(made) : made'[i] = made[i]
    BY <2>1, <2>2
  <2>4. sroChanged' = TRUE
    BY <1>4 DEF PublishReadings
  <2>5. Typed'
    BY <1>1, <1>2, <2>3, <2>4 DEF SlowInv, Typed
  <2>6. HandlersInStep'
    BY <1>1, <1>4, <2>3 DEF PublishReadings, Update, Chosen, New, SlowInv, HandlersInStep
  <2>7. ProviderInStep'
    BY <1>1, <2>3, <2>4 DEF SlowInv, ProviderInStep
  <2>8. MapperInStep'
    <3>1. \A i \in 1 .. Len(made') : made'[i].at <= event
      <4>1. ASSUME NEW i \in 1 .. Len(made') PROVE made'[i].at <= event
        <5>1. CASE i \in 1 .. Len(made)
          BY <2>3, <5>1 DEF SlowInv, MapperInStep
        <5>2. CASE i = Len(made')
          BY <2>1, <2>3, <5>2 DEF SlowInv, Typed
        <5>3. QED BY <2>3, <5>1, <5>2
      <4>2. QED BY <4>1
    <3>2. Len(made') # 0 /\ made'[Len(made')].of = inCol.nr /\ made'[Len(made')].by = mappingCol.nr
      BY <2>1, <2>3
    <3>3. QED BY <1>1, <1>2, <3>1, <3>2 DEF MapperInStep, Told
  <2>9. FreshTemperature'
    <3>1. provider.sro # NULL => provider.sro \in 1 .. Len(made)
      BY <2>3 DEF SlowInv, ProviderInStep, NULL
    <3>2. provider.sro # NULL => made'[provider'.sro] = made[provider.sro]
      BY <1>1, <2>3, <3>1
    <3>3. FreshTemperature
      BY DEF SlowInv
    <3>4. QED BY <1>1, <3>2, <3>3 DEF FreshTemperature, GoodSensors
  <2>10. QED BY <1>3, <2>5, <2>6, <2>7, <2>8, <2>9 DEF SlowInv
<1>5. CASE /\ UNCHANGED <<handlerVars, made, sroChanged>>
           /\ (dropped' = inCol.nr \/ (~inputChanged /\ UNCHANGED dropped))
  <2>1. UNCHANGED <<made, sroChanged, default, col, listener, allocated>>
    BY <1>5 DEF handlerVars
  <2>2. Typed'
    BY <1>1, <1>2, <2>1 DEF SlowInv, Typed
  <2>3. HandlersInStep' /\ ProviderInStep' /\ FreshTemperature'
    BY <1>1, <2>1 DEF SlowInv, HandlersInStep, ProviderInStep, FreshTemperature
  <2>4. MapperInStep'
    BY <1>1, <1>2, <1>5, <2>1 DEF SlowInv, MapperInStep, Told
  <2>5. QED BY <1>3, <2>2, <2>3, <2>4 DEF SlowInv
<1>6. \/ PublishReadings \/ DropReadings
      \/ ~inputChanged /\ UNCHANGED <<handlerVars, made, sroChanged, dropped>>
  BY Zenon DEF MapReadings
<1>7. CASE DropReadings
  <2>1. dropped' = inCol.nr /\ UNCHANGED <<handlerVars, made, sroChanged>>
    BY <1>7 DEF DropReadings
  <2>2. QED BY <1>5, <2>1
<1>8. CASE ~inputChanged /\ UNCHANGED <<handlerVars, made, sroChanged, dropped>>
  <2>1. ~inputChanged /\ UNCHANGED dropped /\ UNCHANGED <<handlerVars, made, sroChanged>>
    BY <1>8
  <2>2. QED BY <1>5, <2>1
<1>9. QED BY <1>4, <1>6, <1>7, <1>8
-----------------------------------------------------------------------------
(* Temperatures are made of the readings.                                    *)

\* What the cache has of a sensor, and the means of those that are good.
LEMMA CachedTyped ==
  ASSUME SlowInv, NEW c \in Sortings, NEW offset \in [Modules -> Nat],
         NEW m \in Modules, NEW s \in Sensors
  PROVE  /\ Cached(c, offset, m, s) \in Temperature
         /\ m \in DOMAIN c.rows /\ s <= Len(c.rows[m]) =>
              /\ Cached(c, offset, m, s).of = {<<c.of, offset[m]>>}
              /\ Cached(c, offset, m, s).ok <=> s \in GoodSensors(c, m)
<1>1. <<c.of, offset[m]>> \in Nat \X Nat
  BY DEF Sortings
<1>2. CASE m \in DOMAIN c.rows /\ s <= Len(c.rows[m])
  <2> DEFINE good == c.rows[m][s] = "good"
             origin == {<<c.of, offset[m]>>}
  <2>1. Cached(c, offset, m, s) = [ok |-> good, of |-> origin]
    BY <1>2 DEF Cached
  <2>2. s \in GoodSensors(c, m) <=> good
    BY <1>2 DEF GoodSensors
  <2>3. good \in BOOLEAN /\ origin \in Origins
    BY <1>1 DEF Origins
  <2> HIDE DEF good, origin
  <2>4. Cached(c, offset, m, s) \in Temperature
    BY <2>1, <2>3 DEF Temperature
  <2>5. Cached(c, offset, m, s).of = origin /\ Cached(c, offset, m, s).ok = good
    BY <2>1
  <2>6. Cached(c, offset, m, s).ok <=> s \in GoodSensors(c, m)
    BY <2>2, <2>5, Zenon
  <2>7. QED BY <2>4, <2>5, <2>6 DEF origin
<1>3. CASE ~(m \in DOMAIN c.rows /\ s <= Len(c.rows[m]))
  <2>1. Cached(c, offset, m, s) = provider.value[m][s]
    BY <1>3 DEF Cached
  <2>2. provider.value[m][s] \in Temperature
    BY DEF SlowInv, Typed, Temperatures
  <2>3. QED BY <1>3, <2>1, <2>2
<1>4. QED BY <1>2, <1>3

LEMMA MeansFresh ==
  ASSUME SlowInv, NEW c \in Sortings, NEW offset \in [Modules -> Nat]
  PROVE  /\ \A m \in DOMAIN c.rows :
              GoodSensors(c, m) # {} => Mean(c, offset, m) = {<<c.of, offset[m]>>}
         /\ CaloMean(c, offset) \subseteq {<<c.of, offset[k]>> : k \in Modules}
         /\ {<<c.of, offset[k]>> : k \in Modules} \in Origins
<1>1. DOMAIN c.rows \subseteq Modules /\ c.of \in Nat
  BY DEF Sortings, Rows
<1>2. ASSUME NEW m \in DOMAIN c.rows, NEW s \in GoodSensors(c, m)
      PROVE  Cached(c, offset, m, s).of = {<<c.of, offset[m]>>}
  BY <1>1, <1>2, CachedTyped DEF GoodSensors
<1>3. ASSUME NEW m \in DOMAIN c.rows
      PROVE  /\ GoodSensors(c, m) # {} => Mean(c, offset, m) = {<<c.of, offset[m]>>}
             /\ Mean(c, offset, m) \subseteq {<<c.of, offset[m]>>}
  BY <1>2, <1>3 DEF Mean
<1>4. CaloMean(c, offset) \subseteq {<<c.of, offset[k]>> : k \in Modules}
  BY <1>1, <1>3 DEF CaloMean
<1>5. QED BY <1>1, <1>3, <1>4 DEF Origins

\* What the provider computes of a module the readings list is of these readings alone, but
\* for the sensors behind the end of its list.
LEMMA ValuesFresh ==
  ASSUME SlowInv, NEW c \in Sortings, NEW offset \in [Modules -> Nat]
  PROVE  /\ Values(c, offset) \in Temperatures
         /\ Errors(c, offset) \in ErrorsOf
         /\ \A m \in DOMAIN c.rows : \A s \in Sensors :
              /\ GoodSensors(c, m) # {} /\ s <= Len(c.rows[m]) =>
                   Values(c, offset)[m][s].of = {<<c.of, offset[m]>>}
              /\ GoodSensors(c, m) = {} =>
                   Values(c, offset)[m][s].of \subseteq {<<c.of, offset[k]>> : k \in Modules}
<1>1. DOMAIN c.rows \subseteq Modules
  BY DEF Sortings, Rows
<1>2. ASSUME NEW m \in Modules, NEW s \in Sensors
      PROVE  /\ Replaced(c, offset, m, s) =>
                  /\ m \in DOMAIN c.rows
                  /\ StandIn(c, offset, m) \in Origins
                  /\ Values(c, offset)[m][s] = [ok |-> TRUE, of |-> StandIn(c, offset, m)]
                  /\ Errors(c, offset)[m][s] = StandIn(c, offset, m)
             /\ ~ Replaced(c, offset, m, s) =>
                  /\ Values(c, offset)[m][s] = Cached(c, offset, m, s)
                  /\ Errors(c, offset)[m][s] = provider.error[m][s]
  <2>1. CASE Replaced(c, offset, m, s)
    <3>1. m \in DOMAIN c.rows
      BY <2>1 DEF Replaced
    <3>2. StandIn(c, offset, m) \subseteq {<<c.of, offset[k]>> : k \in Modules}
      <4>1. CASE GoodSensors(c, m) = {}
        BY <4>1, MeansFresh DEF StandIn
      <4>2. CASE GoodSensors(c, m) # {}
        <5>1. StandIn(c, offset, m) = {<<c.of, offset[m]>>}
          BY <3>1, <4>2, MeansFresh DEF StandIn
        <5>2. QED BY <5>1
      <4>3. QED BY <4>1, <4>2
    <3>3. StandIn(c, offset, m) \in Origins
      BY <3>2, MeansFresh DEF Origins
    <3>4. /\ Values(c, offset)[m][s] = [ok |-> TRUE, of |-> StandIn(c, offset, m)]
          /\ Errors(c, offset)[m][s] = StandIn(c, offset, m)
      BY <2>1 DEF Values, Errors
    <3>5. QED BY <2>1, <3>1, <3>3, <3>4
  <2>2. CASE ~ Replaced(c, offset, m, s)
    BY <2>2 DEF Values, Errors
  <2>3. QED BY <2>1, <2>2
<1>3. ASSUME NEW m \in Modules, NEW s \in Sensors
      PROVE  Values(c, offset)[m][s] \in Temperature /\ Errors(c, offset)[m][s] \in Origins
  <2>1. Cached(c, offset, m, s) \in Temperature
    BY CachedTyped
  <2>2. provider.error[m][s] \in Origins
    BY DEF SlowInv, Typed, ErrorsOf
  <2>3. CASE Replaced(c, offset, m, s)
    <3>1. /\ StandIn(c, offset, m) \in Origins
          /\ Values(c, offset)[m][s] = [ok |-> TRUE, of |-> StandIn(c, offset, m)]
          /\ Errors(c, offset)[m][s] = StandIn(c, offset, m)
      BY <1>2, <2>3
    <3>2. [ok |-> TRUE, of |-> StandIn(c, offset, m)] \in Temperature
      BY <3>1, Zenon DEF Temperature
    <3>3. QED BY <3>1, <3>2
  <2>4. CASE ~ Replaced(c, offset, m, s)
    BY <1>2, <2>1, <2>2, <2>4
  <2>5. QED BY <2>3, <2>4
<1>4. Values(c, offset) \in Temperatures
  <2>1. Values(c, offset) = [m \in Modules |-> [s \in Sensors |-> Values(c, offset)[m][s]]]
    BY DEF Values
  <2>2. QED BY <1>3, <2>1 DEF Temperatures
<1>5. Errors(c, offset) \in ErrorsOf
  <2>1. Errors(c, offset) = [m \in Modules |-> [s \in Sensors |-> Errors(c, offset)[m][s]]]
    BY DEF Errors
  <2>2. QED BY <1>3, <2>1 DEF ErrorsOf
<1>6. ASSUME NEW m \in DOMAIN c.rows, NEW s \in Sensors
      PROVE  /\ GoodSensors(c, m) # {} /\ s <= Len(c.rows[m]) =>
                  Values(c, offset)[m][s].of = {<<c.of, offset[m]>>}
             /\ GoodSensors(c, m) = {} =>
                  Values(c, offset)[m][s].of \subseteq {<<c.of, offset[k]>> : k \in Modules}
  <2>1. m \in Modules
    BY <1>1
  <2>2. ASSUME GoodSensors(c, m) # {}, s <= Len(c.rows[m])
        PROVE  Values(c, offset)[m][s].of = {<<c.of, offset[m]>>}
    <3>1. Cached(c, offset, m, s).of = {<<c.of, offset[m]>>}
      BY <2>1, <2>2, CachedTyped
    <3>2. StandIn(c, offset, m) = {<<c.of, offset[m]>>}
      BY <2>2, MeansFresh DEF StandIn
    <3>3. CASE Replaced(c, offset, m, s)
      <4>1. Values(c, offset)[m][s] = [ok |-> TRUE, of |-> StandIn(c, offset, m)]
        BY <1>2, <2>1, <3>3
      <4>2. QED BY <3>2, <4>1
    <3>4. CASE ~ Replaced(c, offset, m, s)
      <4>1. Values(c, offset)[m][s] = Cached(c, offset, m, s)
        BY <1>2, <2>1, <3>4
      <4>2. QED BY <3>1, <4>1
    <3>5. QED BY <3>3, <3>4
  <2>3. ASSUME GoodSensors(c, m) = {}
        PROVE  Values(c, offset)[m][s].of \subseteq {<<c.of, offset[k]>> : k \in Modules}
    <3>1. Replaced(c, offset, m, s) /\ StandIn(c, offset, m) = CaloMean(c, offset)
      BY <2>3 DEF Replaced, StandIn
    <3>2. Values(c, offset)[m][s].of = CaloMean(c, offset)
      <4>1. Values(c, offset)[m][s] = [ok |-> TRUE, of |-> StandIn(c, offset, m)]
        BY <1>2, <2>1, <3>1
      <4>2. QED BY <3>1, <4>1
    <3>3. QED BY <3>2, MeansFresh
  <2>4. QED BY <2>2, <2>3
<1>7. QED BY <1>4, <1>5, <1>6

LEMMA MakeTemperaturesPreserves ==
  ASSUME SlowInv, MakeTemperatures
  PROVE  SlowInv'
<1>1. /\ phase' = "read" /\ sroChanged' = FALSE /\ calibChanged' = FALSE
      /\ provider' = Corrected(SetBlocks, Offsets)
      /\ published' = Append(published, [data |-> provider'.sro, calib |-> provider'.calib])
      /\ UNCHANGED <<event, mappingCol, inCol, calibCol, mappingChanged, inputChanged,
                     mapper, dropped, made, default, col, listener, allocated>>
  BY DEF MakeTemperatures, told, sroVars, handlerVars
<1>2. SetBlocks = Len(made) /\ SetBlocks \in 1 .. Len(made)
  <2>1. SetBlocks = Len(made)
    BY DEF SetBlocks, SlowInv, ProviderInStep, HandlersInStep
  <2>2. SetBlocks # 0 /\ Len(made) \in Nat
    BY DEF MakeTemperatures, NULL, SlowInv, Typed
  <2>3. QED BY <2>1, <2>2
<1>3. Offsets \in [Modules -> Nat]
  <2>1. provider.offset \in [Modules -> Nat] /\ calibCol.nr \in Nat
    BY DEF SlowInv, Typed
  <2>2. QED BY <2>1 DEF Offsets
<1> DEFINE c == made[SetBlocks]
           calib == IF calibChanged THEN calibCol.nr ELSE provider.calib
<1>4. c \in Sortings
  BY <1>2 DEF SlowInv, Typed
<1>5. calib = calibCol.nr /\ calib \in Nat
  BY DEF SlowInv, Typed, ProviderInStep
<1>6. /\ provider'.sro = SetBlocks /\ provider'.calib = calib /\ provider'.offset = Offsets
      /\ provider'.value = Values(c, Offsets)
      /\ provider' \in [sro: Nat, calib: Nat, offset: [Modules -> Nat],
                       value: Temperatures, error: ErrorsOf]
  <2>1. /\ Values(c, Offsets) \in Temperatures /\ Errors(c, Offsets) \in ErrorsOf
    BY <1>3, <1>4, ValuesFresh
  <2>2. provider' = [sro |-> SetBlocks, calib |-> calib, offset |-> Offsets,
                     value |-> Values(c, Offsets), error |-> Errors(c, Offsets)]
    BY <1>1 DEF Corrected
  <2> HIDE DEF c, calib
  <2>3. QED BY <1>2, <1>3, <1>5, <2>1, <2>2
<1>7. /\ published' \in Seq([data: Nat, calib: Nat])
      /\ Len(published) \in Nat /\ Len(published') = Len(published) + 1
      /\ published'[Len(published')] = [data |-> provider'.sro, calib |-> provider'.calib]
  <2>1. [data |-> provider'.sro, calib |-> provider'.calib] \in [data: Nat, calib: Nat]
    BY <1>2, <1>5, <1>6
  <2>2. published \in Seq([data: Nat, calib: Nat])
    BY DEF SlowInv, Typed
  <2>3. QED BY <1>1, <2>1, <2>2
<1>8. Typed'
  BY <1>1, <1>6, <1>7 DEF SlowInv, Typed
<1>9. HandlersInStep'
  <2>1. tDefault' = tDefault /\ tListener' = tAllocated + 1 /\ tAllocated' = tAllocated + 1
    BY DEF MakeTemperatures, T!Update, T!Chosen, T!New, T!NULL, NULL, SlowInv, HandlersInStep
  <2>2. QED BY <1>1, <1>7, <2>1 DEF SlowInv, HandlersInStep
<1>10. ProviderInStep'
  BY <1>1, <1>2, <1>5, <1>6, <1>7 DEF ProviderInStep
<1>11. MapperInStep' /\ NoPointerMissing' /\ EndsForAGap'
  BY <1>1 DEF SlowInv, MapperInStep, NoPointerMissing, EndsForAGap, Told
<1>12. FreshTemperature'
  <2>1. \A m \in DOMAIN c.rows : \A s \in Sensors :
          /\ GoodSensors(c, m) # {} /\ s <= Len(c.rows[m]) =>
               Values(c, Offsets)[m][s].of = {<<c.of, Offsets[m]>>}
          /\ GoodSensors(c, m) = {} =>
               Values(c, Offsets)[m][s].of \subseteq {<<c.of, Offsets[k]>> : k \in Modules}
    BY <1>3, <1>4, ValuesFresh
  <2>2. made'[provider'.sro] = c
    BY <1>1, <1>6
  <2> HIDE DEF c
  <2>3. QED BY <1>6, <2>1, <2>2 DEF FreshTemperature, GoodSensors
<1>13. QED BY <1>8, <1>9, <1>10, <1>11, <1>12 DEF SlowInv

-----------------------------------------------------------------------------
(* The steps that only end something.                                        *)

LEMMA EndingPreserves ==
  ASSUME SlowInv, SkipEvent \/ MapFails \/ TemperaturesFail \/ KeepTemperatures
  PROVE  SlowInv'
<1>1. UNCHANGED <<event, mappingCol, inCol, calibCol, mappingChanged, inputChanged, mapper,
                  dropped, made, sroChanged, calibChanged, provider, published, default, col,
                  listener, allocated, tDefault, tListener, tAllocated>>
  BY DEF SkipEvent, MapFails, TemperaturesFail, KeepTemperatures, told, sroVars,
         temperatureVars, handlerVars, tVars
<1>2. Typed' /\ HandlersInStep' /\ ProviderInStep' /\ MapperInStep'
  BY <1>1 DEF SlowInv, Typed, HandlersInStep, ProviderInStep, MapperInStep, Told
<1>3. NoPointerMissing' /\ FreshTemperature'
  BY <1>1 DEF SlowInv, NoPointerMissing, FreshTemperature, Told
<1>4. EndsForAGap'
  <2>1. CASE SkipEvent \/ KeepTemperatures
    BY <2>1 DEF SkipEvent, KeepTemperatures, EndsForAGap
  <2>2. CASE TemperaturesFail
    <3>1. col = NULL
      BY <2>2 DEF TemperaturesFail, SetBlocks, SlowInv, ProviderInStep, HandlersInStep
    <3>2. QED BY <1>1, <3>1 DEF EndsForAGap
  <2>3. CASE MapFails
    <3>1. CASE LostModules(Used.content, inCol.content) # {}
      <4>1. \E m \in DOMAIN Used.content : \E l \in {Used.content[m].cmb, Used.content[m].hv} :
              Outside(l, Used.content, inCol.content)
        BY <3>1 DEF LostModules, ReadsLost
      <4>2. Used' = Used /\ inCol' = inCol
        BY <1>1 DEF Used, UpdatedMapper
      <4>3. QED BY <4>1, <4>2 DEF EndsForAGap, Outside
    <3>2. CASE (mappingChanged /\ ~Told(mappingCol)) \/ (inputChanged /\ ~Told(inCol))
      <4>1. col = NULL
        BY <3>2 DEF SlowInv, NoPointerMissing, HandlersInStep, NULL
      <4>2. QED BY <1>1, <4>1 DEF EndsForAGap
    <3>3. QED BY Zenon, <2>3, <3>1, <3>2 DEF MapFails
  <2>4. QED BY <2>1, <2>2, <2>3
<1>5. QED BY <1>2, <1>3, <1>4 DEF SlowInv

LEMMA SlowNextPreserves == SlowInv /\ [SlowNext]_slowVars => SlowInv'
<1> SUFFICES ASSUME SlowInv, [SlowNext]_slowVars PROVE SlowInv' OBVIOUS
<1>1. CASE UNCHANGED slowVars
  <2>1. UNCHANGED <<phase, event, mappingCol, inCol, calibCol, mappingChanged, inputChanged,
                    mapper, dropped, made, sroChanged, calibChanged, provider, published,
                    default, col, listener, allocated, tDefault, tListener, tAllocated>>
    BY <1>1 DEF slowVars, told, sroVars, temperatureVars, handlerVars, tVars
  <2>2. Typed' /\ HandlersInStep' /\ ProviderInStep' /\ MapperInStep'
    BY <2>1 DEF SlowInv, Typed, HandlersInStep, ProviderInStep, MapperInStep, Told
  <2>3. NoPointerMissing' /\ FreshTemperature'
    BY <2>1 DEF SlowInv, NoPointerMissing, FreshTemperature, Told
  <2>4. EndsForAGap'
    BY <2>1 DEF SlowInv, EndsForAGap, Used, UpdatedMapper, Outside
  <2>5. QED BY <2>2, <2>3, <2>4 DEF SlowInv
<1>2. CASE ReadEvent
  BY <1>2, ReadEventPreserves
<1>3. CASE MapReadings
  BY <1>3, MapReadingsPreserves
<1>4. CASE MakeTemperatures
  BY <1>4, MakeTemperaturesPreserves
<1>5. CASE SkipEvent \/ MapFails \/ TemperaturesFail \/ KeepTemperatures
  BY <1>5, EndingPreserves
<1>6. QED BY <1>1, <1>2, <1>3, <1>4, <1>5 DEF SlowNext

LEMMA SlowInvariance == SlowSpec => []SlowInv
  BY SlowInitEstablishes, SlowNextPreserves, PTL DEF SlowSpec

-----------------------------------------------------------------------------
(* The properties.                                                           *)

\* What the provider reads is there, for any number of collections and chains cut
\* anywhere between the two processors (SiPMTemperatureProcessor::processEvent).
THEOREM ReadingsStayAlive == SlowSpec => []ReadingsAlive
<1>1. SlowInv /\ NothingDangles /\ T!NothingDangles => ReadingsAlive
  <2> SUFFICES ASSUME SlowInv, NothingDangles, T!NothingDangles,
                      provider.sro # NULL, ~sroChanged
               PROVE  frees[provider.sro] = 0
    BY DEF ReadingsAlive
  <2>1. provider.sro = col
    BY DEF SlowInv, ProviderInStep, HandlersInStep
  <2>2. QED BY <2>1 DEF NothingDangles
<1>2. QED BY <1>1, SlowInvariance, ReadingsNeverDangle, TemperaturesNeverDangle, PTL

\* The readings published are those told last, sorted by the mapping valid with them
\* (AhcSROmappingProcessor::processEvent).
THEOREM SortedByTheLast == SlowSpec => []LastReadingsSorted
<1>1. SlowInv => LastReadingsSorted
  BY DEF SlowInv, HandlersInStep, MapperInStep, LastReadingsSorted, NULL
<1>2. QED BY <1>1, SlowInvariance, PTL

\* The temperatures published are of the readings and calibrations told last, for any
\* order of their changes (SiPMTemperatureProcessor::processEvent).
THEOREM TemperaturesFollow == SlowSpec => []TemperaturesUpToDate
<1>1. SlowInv => TemperaturesUpToDate
  <2> SUFFICES ASSUME SlowInv, ~sroChanged, ~calibChanged
               PROVE  /\ tListener = NULL => col = NULL /\ ~Told(calibCol)
                      /\ tListener # NULL =>
                           published[tListener] = [data |-> col, calib |-> calibCol.nr]
    BY DEF TemperaturesUpToDate
  <2>1. provider.sro = col /\ provider.calib = calibCol.nr /\ tListener = Len(published)
    BY DEF SlowInv, ProviderInStep, HandlersInStep
  <2>2. QED BY <2>1 DEF SlowInv, ProviderInStep, NULL, Told
<1>2. QED BY <1>1, SlowInvariance, PTL

\* The temperature of a sensor listed, or of a module without a good sensor, is of the
\* readings and the calibrations in use, for any numbers of modules and sensors and lists of
\* any length (AhcTempProvider::updateCache, AhcSimpleTempProvider::applyCorrection).
THEOREM TemperaturesFresh == SlowSpec => []FreshTemperature
<1>1. SlowInv => FreshTemperature  BY DEF SlowInv
<1>2. QED BY <1>1, SlowInvariance, PTL

\* The ways the job can end are the gaps named, for any mappings and readings
\* (AhcSlowReadoutModMapper::mapCollection, AhcSimpleTempProvider::applyCorrection).
THEOREM EndsOnlyForAGap == SlowSpec => []EndsForAGap
<1>1. SlowInv => EndsForAGap  BY DEF SlowInv
<1>2. QED BY <1>1, SlowInvariance, PTL
=============================================================================
