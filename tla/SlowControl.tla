------------------------------- MODULE SlowControl -------------------------------
(***************************************************************************)
(* The temperatures of the cells from the slow control                     *)
(* (calice_reco/raw2calohit/src/AhcSROmappingProcessor.cc,                  *)
(* calice_userlib/src/AhcSlowReadoutModMapper.cc,                           *)
(* calice_reco/recoSiPM/src/SiPMTemperatureProcessor.cc,                    *)
(* calice_userlib/src/AhcTempProvider.cc and AhcSimpleTempProvider.cc).     *)
(* One processor sorts the readings to their modules and publishes them    *)
(* as a condition; the other, told of it in the middle of the event, makes *)
(* temperatures of them and publishes these. Each has a handler of its own.*)
(***************************************************************************)
EXTENDS RunTimeConditionsHandler, Sequences

CONSTANTS
  Modules,      \* the modules read out
  Mappings,     \* the contents a mapping collection may have
  Readings,     \* the contents a collection of readings may have
  NSensors,     \* N_SENSORS, the sensors of a module (5 in the code)
  Calibrated,   \* the modules a collection of sensor calibrations may list
  MaxEvents     \* bound: events of the job

Lost == -1                          \* the label of data lost by a mapping error
Labels == Modules \cup {Lost}

\* A mapping says of each module it lists where its readings ended up, those of its
\* temperatures and those of its voltages (both supplies as one); readings are, of some
\* modules, the temperatures in or out of the sanity range, as many as were read out.
ASSUME SlowControlAssumption ==
  /\ Modules \subseteq Nat
  /\ Mappings \subseteq UNION {[S -> [cmb: Labels, hv: Labels]] : S \in SUBSET Modules}
  /\ \A r \in Readings : \E S \in SUBSET Modules : r \in [S -> Seq({"good", "bad"})]
  /\ NSensors \in Nat
  /\ Calibrated \subseteq SUBSET Modules
  /\ MaxEvents \in Nat

VARIABLES
  phase,                \* where the event is: "read", "map", "temperature"; "ended"
  event,
  mappingCol, inCol, calibCol,      \* the collections told last: [nr, content]
  mappingChanged, inputChanged,     \* the flags of AhcSROmappingProcessor
  mappingAvailable,
  mapper,               \* _mapper: the mapping it holds, and its number
  dropped,              \* the readings that came before a mapping (history)
  made,                 \* the collections of sorted readings, in the order of allocation
  sroChanged, calibChanged,         \* the flags of SiPMTemperatureProcessor
  provider,             \* _tempProvider
  published,            \* the collections of temperatures: what each was made of
  tCol, tLastValid, tDefault, tEvt, tListener, tAllocated, tFrees   \* their handler

told == <<mappingCol, inCol, calibCol>>
sroVars == <<mappingChanged, inputChanged, mappingAvailable, mapper, dropped>>
temperatureVars == <<provider, published>>
tVars == <<tCol, tLastValid, tDefault, tEvt, tListener, tAllocated, tFrees>>
slowVars == <<handlerVars, phase, event, told, sroVars, made, sroChanged, calibChanged,
              temperatureVars, tVars>>

\* The handler of the temperatures.
T == INSTANCE RunTimeConditionsHandler
  WITH col <- tCol, lastValid <- tLastValid, default <- tDefault, evt <- tEvt,
       listener <- tListener, allocated <- tAllocated, frees <- tFrees

NoCol(content) == [nr |-> 0, content |-> content]
Told(c) == c.nr # 0

Sensors == 1 .. NSensors

\* The temperature of a sensor: whether it is in the sanity range, and the set of what it
\* was computed from, the readings and the calibrations by the numbers of their collections.
\* The first value is -1.
Unread == [ok |-> FALSE, of |-> {}]

\* The flags of the mapping processor are never given a first value.
SlowInit ==
  /\ HandlerInit /\ T!HandlerInit
  /\ phase = "read" /\ event = 0
  /\ mappingCol = NoCol(<<>>) /\ inCol = NoCol(<<>>) /\ calibCol = NoCol({})
  /\ mappingChanged \in BOOLEAN /\ inputChanged \in BOOLEAN
  /\ mappingAvailable = FALSE /\ mapper = NoCol(<<>>) /\ dropped = 0
  /\ made = <<>>
  /\ sroChanged = FALSE /\ calibChanged = FALSE
  /\ provider = [sro |-> NULL, calib |-> 0, offset |-> [m \in Modules |-> 0],
                 value |-> [m \in Modules |-> [s \in Sensors |-> Unread]],
                 error |-> [m \in Modules |-> [s \in Sensors |-> {}]]]
  /\ published = <<>>

-----------------------------------------------------------------------------
(* The conditions framework: what is valid from this event on is told.       *)

\* A collection with one of these contents becomes valid, or the one before stays so.
Valid(c, contents) == {c} \cup {[nr |-> event + 1, content |-> x] : x \in contents}

ReadEvent ==
  /\ phase = "read" /\ event < MaxEvents
  /\ event' = event + 1 /\ phase' = "map"
  /\ UpdateEvent /\ T!UpdateEvent
  /\ mappingCol' \in Valid(mappingCol, Mappings)
  /\ inCol' \in Valid(inCol, Readings)
  /\ calibCol' \in Valid(calibCol, Calibrated)
  /\ mappingChanged' = (mappingChanged \/ mappingCol'.nr # mappingCol.nr)
  /\ inputChanged' = (inputChanged \/ inCol'.nr # inCol.nr)
  /\ calibChanged' = (calibChanged \/ calibCol'.nr # calibCol.nr)
  /\ UNCHANGED <<mappingAvailable, mapper, dropped, made, sroChanged, temperatureVars>>

\* A processor before one of the two throws SkipEventException.
SkipEvent ==
  /\ phase \in {"map", "temperature"}
  /\ phase' = "read"
  /\ UNCHANGED <<handlerVars, event, told, sroVars, made, sroChanged, calibChanged,
                 temperatureVars, tVars>>

-----------------------------------------------------------------------------
(* AhcSROmappingProcessor.                                                   *)

\* The mapper once a new mapping is taken over.
UpdatedMapper == IF mappingChanged THEN mappingCol ELSE mapper

\* The array of readings reaches up to the last module mapped or read.
Outside(label, map, r) == label = Lost \/ \A m \in DOMAIN map \cup DOMAIN r : m < label

\* The test that a module's readings are there uses the labels without a check: what is
\* read outside the array is anything.
ReadsLost(l, map, r) ==
  Outside(l.cmb, map, r) \/ (l.cmb \notin DOMAIN r /\ Outside(l.hv, map, r))
LostModules(map, r) == {m \in DOMAIN map : ReadsLost(map[m], map, r)}

\* mapCollection: "garbage" are the modules for which such a read was not null.
Sorted(map, r, garbage) ==
  LET found == {m \in DOMAIN map : {map[m].cmb, map[m].hv} \cap DOMAIN r # {}} \cup garbage
  IN  [m \in found |-> IF map[m].cmb \in DOMAIN r THEN r[map[m].cmb] ELSE <<>>]

\* Mutant: the readings are sorted before the new mapping is taken over.
UsedBefore == mapper

\* The mapping the readings are sorted by.
Used == UpdatedMapper

\* The readings are handed to the handler, which tells SiPMTemperatureProcessor.
PublishReadings ==
  /\ New \in Objects
  /\ \E garbage \in SUBSET LostModules(Used.content, inCol.content) :
       made' = Append(made, [of |-> inCol.nr, by |-> Used.nr, at |-> event,
                             rows |-> Sorted(Used.content, inCol.content, garbage)])
  /\ Update(New)
  /\ sroChanged' = TRUE
  /\ UNCHANGED dropped

\* Readings without a mapping are forgotten.
DropReadings ==
  /\ dropped' = inCol.nr
  /\ UNCHANGED <<handlerVars, made, sroChanged>>

MapReadings ==
  /\ phase = "map"
  /\ mappingChanged => Told(mappingCol)
  /\ inputChanged /\ (mappingAvailable \/ mappingChanged) => Told(inCol)
  /\ mapper' = UpdatedMapper
  /\ mappingAvailable' = (mappingAvailable \/ mappingChanged)
  /\ \/ inputChanged /\ mappingAvailable' /\ PublishReadings
     \/ inputChanged /\ ~mappingAvailable' /\ DropReadings
     \/ ~inputChanged /\ UNCHANGED <<handlerVars, made, sroChanged, dropped>>
  /\ mappingChanged' = FALSE /\ inputChanged' = FALSE
  /\ phase' = "temperature"
  /\ UNCHANGED <<event, told, calibChanged, temperatureVars, tVars>>

\* A null pointer, or a label outside the array, ends the process.
MapFails ==
  /\ phase = "map"
  /\ \/ mappingChanged /\ ~Told(mappingCol)
     \/ /\ inputChanged /\ (mappingAvailable \/ mappingChanged)
        /\ ~Told(inCol) \/ LostModules(Used.content, inCol.content) # {}
  /\ phase' = "ended"
  /\ UNCHANGED <<handlerVars, event, told, sroVars, made, sroChanged, calibChanged,
                 temperatureVars, tVars>>

-----------------------------------------------------------------------------
(* SiPMTemperatureProcessor and its provider.                                 *)

\* setCalibrations: modules that are not listed keep their offsets.
Offsets == IF calibChanged
             THEN [m \in Modules |-> IF m \in calibCol.content THEN calibCol.nr ELSE provider.offset[m]]
             ELSE provider.offset

\* Mutant: the provider is told of the first collection of readings only.
SetOnce == IF sroChanged /\ provider.sro = NULL THEN listener ELSE provider.sro

\* Mutant: only one of two collections that changed is passed on.
SetOneOfTwo == IF sroChanged /\ ~calibChanged THEN listener ELSE provider.sro

\* setAhcSroModBlocks
SetBlocks == IF sroChanged THEN listener ELSE provider.sro

\* updateCache: the temperatures a module lists, as far as it has sensors for them. A
\* sensor behind the end of the list keeps the one it has.
Cached(c, offset, m, s) ==
  IF m \in DOMAIN c.rows /\ s <= Len(c.rows[m])
    THEN [ok |-> c.rows[m][s] = "good", of |-> {<<c.of, offset[m]>>}]
    ELSE provider.value[m][s]

\* The sensors of the list that are in the sanity range, and the means of what they show,
\* of a module and of the calorimeter.
GoodSensors(c, m) == {s \in Sensors : s <= Len(c.rows[m]) /\ c.rows[m][s] = "good"}
Mean(c, offset, m) == UNION {Cached(c, offset, m, s).of : s \in GoodSensors(c, m)}
CaloMean(c, offset) == UNION {Mean(c, offset, m) : m \in DOMAIN c.rows}

\* Mutant: a module without a good sensor is left as it was.
ReplacedSome(c, offset, m, s) ==
  m \in DOMAIN c.rows /\ GoodSensors(c, m) # {} /\ ~ Cached(c, offset, m, s).ok

\* applyCorrection: a mean stands in for a sensor out of range, listed or not, and for all
\* sensors of a module that lists no good one.
Replaced(c, offset, m, s) ==
  m \in DOMAIN c.rows /\ (GoodSensors(c, m) = {} \/ ~ Cached(c, offset, m, s).ok)
StandIn(c, offset, m) ==
  IF GoodSensors(c, m) = {} THEN CaloMean(c, offset) ELSE Mean(c, offset, m)

Values(c, offset) ==
  [m \in Modules |-> [s \in Sensors |->
     IF Replaced(c, offset, m, s) THEN [ok |-> TRUE, of |-> StandIn(c, offset, m)]
                                  ELSE Cached(c, offset, m, s)]]

\* The error is written only where a mean stands in.
Errors(c, offset) ==
  [m \in Modules |-> [s \in Sensors |->
     IF Replaced(c, offset, m, s) THEN StandIn(c, offset, m) ELSE provider.error[m][s]]]

Corrected(sro, offset) ==
  [sro |-> sro, calib |-> IF calibChanged THEN calibCol.nr ELSE provider.calib,
   offset |-> offset, value |-> Values(made[sro], offset), error |-> Errors(made[sro], offset)]

\* The temperatures of all cells are asked for and handed to the handler.
MakeTemperatures ==
  /\ phase = "temperature"
  /\ sroChanged \/ calibChanged
  /\ SetBlocks # NULL
  /\ T!New \in Objects
  /\ provider' = Corrected(SetBlocks, Offsets)
  /\ published' = Append(published, [data |-> provider'.sro, calib |-> provider'.calib])
  /\ T!Update(T!New)
  /\ sroChanged' = FALSE /\ calibChanged' = FALSE
  /\ phase' = "read"
  /\ UNCHANGED <<handlerVars, event, told, sroVars, made>>

\* The provider throws invalid_argument without readings, and nothing catches it.
TemperaturesFail ==
  /\ phase = "temperature"
  /\ sroChanged \/ calibChanged
  /\ SetBlocks = NULL
  /\ phase' = "ended"
  /\ UNCHANGED <<handlerVars, event, told, sroVars, made, sroChanged, calibChanged,
                 temperatureVars, tVars>>

KeepTemperatures ==
  /\ phase = "temperature"
  /\ ~sroChanged /\ ~calibChanged
  /\ phase' = "read"
  /\ UNCHANGED <<handlerVars, event, told, sroVars, made, sroChanged, calibChanged,
                 temperatureVars, tVars>>

SlowNext == \/ ReadEvent \/ SkipEvent
            \/ MapReadings \/ MapFails
            \/ MakeTemperatures \/ TemperaturesFail \/ KeepTemperatures

SlowSpec == SlowInit /\ [][SlowNext]_slowVars

-----------------------------------------------------------------------------
(* Properties.                                                               *)

\* The temperatures' own collections are not deleted while they are held, and the
\* readings the provider points to are deleted only when newer ones are already told:
\* what it reads is there, although chains that are cut between the two processors let
\* the handler of the readings go two collections ahead of it (update, processEvent).
ReadingsAlive ==
  /\ T!NothingDangles
  /\ provider.sro # NULL /\ frees[provider.sro] # 0 => sroChanged

\* The readings told last are those published, unless they came before any mapping, and
\* sorted by the mapping told with them or before, not an older one: the flag of the
\* mapping is looked at first (AhcSROmappingProcessor::processEvent).
LastReadingsSorted ==
  ~inputChanged /\ Told(inCol) /\ phase # "ended" =>
    \/ dropped = inCol.nr
    \/ /\ col # NULL
       /\ made[col].of = inCol.nr
       /\ mappingCol.nr <= made[col].at => made[col].by = mappingCol.nr

\* Unless it still has to look at them, the temperatures the processor published last
\* are made of the readings and the calibrations told last, whichever changed, and in
\* however many events it was left out (SiPMTemperatureProcessor::processEvent).
TemperaturesUpToDate ==
  ~sroChanged /\ ~calibChanged /\ phase # "ended" =>
    /\ tListener = NULL => col = NULL /\ ~Told(calibCol)
    /\ tListener # NULL => published[tListener] = [data |-> col, calib |-> calibCol.nr]

\* In a module with a good sensor every sensor listed has a temperature of these readings
\* and of the module's offsets now in use, a bad one that of the good ones; a module without
\* one has in all sensors that of the other modules in the same readings
\* (applyCorrection). A sensor behind the end of its module's list may keep an older one.
FreshTemperature ==
  provider.sro # NULL =>
    LET c == made[provider.sro] IN
    \A m \in DOMAIN c.rows : \A s \in Sensors :
      /\ GoodSensors(c, m) # {} /\ s <= Len(c.rows[m]) =>
           provider.value[m][s].of = {<<c.of, provider.offset[m]>>}
      /\ GoodSensors(c, m) = {} =>
           provider.value[m][s].of \subseteq {<<c.of, provider.offset[k]>> : k \in Modules}

\* The job ends only before there are sorted readings, by flags that were never set or
\* calibrations told too early, or at a label that points outside the readings, however
\* the collections come together (applyCorrection, mapCollection).
EndsForAGap ==
  phase = "ended" =>
    \/ col = NULL
    \/ \E m \in DOMAIN Used.content : \E l \in {Used.content[m].cmb, Used.content[m].hv} :
         Outside(l, Used.content, inCol.content)

\* What the comments say and the code does not keep: "If the mapping for one part is
\* missing the values for this source will not be filled" (AhcSlowReadoutModMapper.hh);
\* a label of -1 is "returned when the data was lost due to mapping errors"
\* (AhcSlowReadoutModMapping.hh), and the job would not end for one.
LostHarmless == phase = "ended" => col = NULL

\* "This function updates the internal 'cache' for the temperature values from the five
\* sensors" (AhcTempProvider.hh): those of a module whose list is short would be of these
\* readings, too.
AllSensorsFresh ==
  provider.sro # NULL =>
    \A m \in DOMAIN made[provider.sro].rows : \A s \in Sensors :
      \A x \in provider.value[m][s].of : x[1] = made[provider.sro].of

\* "the error on the temperature for the cell" (AhcTempProvider.hh): it would be of the
\* readings the temperature is of.
ErrorOfTheReadings ==
  provider.sro # NULL =>
    \A m \in DOMAIN made[provider.sro].rows : \A s \in Sensors :
      \A x \in provider.error[m][s] : x[1] = made[provider.sro].of
=============================================================================
