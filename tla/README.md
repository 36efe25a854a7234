# Verification of the CosmiTestLCIO reconstruction chain

The repository holds the CALICE software that turns the raw data of cosmic and
beam tests of HBUs into calibrated hits: Marlin processors chained by a steering
file (`test/steering_hodoscope.xml`), the libraries they share, the calibration
programs, the digitisation of simulated events and the tools that fill the
conditions database. This directory holds TLA+ models of its control logic, the
TLC configurations that check them and proofs for TLAPS. All paths below are
relative to `src/`.

    tlc -workers 2 -config Calib_remap.cfg MCCalibrationChain
    tlapm EUDAQEventBuilder_proofs.tla

## 1. Inventory

### How an event travels

Marlin is single-threaded. It calls `processEvent` of every processor of the
steering file in order; a processor can end the event with
`SkipEventException` and the job with `StopProcessingException`; any other
exception, and a null pointer, ends the process. What makes the chain hard is not
threads but re-entrance, callbacks and state that outlives an event:

- an event builder calls `ProcessorMgr::processEvent(evt_new)` from the middle of
  its own `processEvent`: the whole chain, the builder included, runs on the new
  event before the loop over the raw one goes on;
- the conditions framework (LCCD) calls `conditionsChanged` of every listener, in
  no defined order, before the first processor; the callbacks keep a pointer and
  a flag and the work is done when the processor sees the event;
- several processors build containers from overlapping sets of these collections,
  and notice each other's changes only by a version number of the mapper;
- who deletes an event, a collection or a block is a convention.

The chain of `test/steering_hodoscope.xml`: event builder -> conditions ->
mapping -> cell descriptions -> calibration constants -> calibration of hits ->
ROOT tree writer.

### Components

| component (code) | state it keeps | operations | hard behaviour | correct means | modelled in |
| --- | --- | --- | --- | --- | --- |
| EUDAQ event builders, `labview_converter/raw2lcio/src/EUDAQEventBuilder{,2016,2016_woBIF}.cc` | event number, block counters, a flag for temperatures still to be attached; in each call a map from crossings to blocks and the triggers of the BIF | `processEvent`: splits a readout cycle into one event per bunch crossing | re-entrance; missing collections; shared ownership of the hodoscope collections | every accepted block leaves in exactly one event, in order; triggers with their crossing; temperatures once; raw or built, never both | `EUDAQEventBuilder`, `CycleSplitter` |
| Labview converter, `LabviewConverter2.cc` (same directory) | the map of the present cycle, a discard flag, three temperature flags, an array of sensors | one line of a text file after another | a cycle is known to be over only by the next line; flags set by comment lines anywhere | every line written once, but for cycles discarded or without a time; a cycle is discarded or written as a whole | `LabviewConverter2`, `CycleSplitter` |
| Labview converter of the old format, `LabviewConverter.cc` | the lines of a cycle | the same | at most size/36 events of a cycle | as above | planned |
| Mapper and mapping processor, `calice_reco/cellGeometry/src/MappingProcessor.cc`, `calice_userlib/src/Ahc2Mapper.cc` | two collections and flags; type and connection tables; a version | callback, fill | two collections, one filled again with the other | see next two | `MappingProcessor` |
| Cell descriptions, `calice_reco/cellGeometry/src/CellDescriptionProcessor.cc` | four collections and flags, the mapper's version, a container of positions | callback, rebuild | built from its own copies of the mapper's collections | positions belong to the mapping in use | `CellDescriptionProcessor` |
| Calibration constants, `calice_reco/recoSiPM/src/Ahc2CalibrationsProcessor.cc` | eleven collections and flags, the mapper's version, a container of constants and status bits | callback, update of each kind, remapping | constants made of two collections told at different times; bits that outlive their reason | constants and bits are those of the collections valid now | `Ahc2CalibrationsProcessor` |
| Calibration of hits, `Ahc2CalibrateProcessor.cc` (same directory) | hardware connections of the first event | `processEvent`: one output hit per admitted input hit | reads what four other processors filled, without a check | hits written are those the conditions admit; no null pointer | `CalibrationChain` |
| Conditions made at run time, `calice_userlib/src/RunTimeConditionsHandler.cc` | present, previous and default collection, the event | `update`, `updateEvent`, default, destructor | owns what listeners keep pointing to | nothing held is deleted, nothing twice | `RunTimeConditionsHandler` |
| Pedestals of the run, `calice_reco/recoSiPM/src/PedestalProcessor.cc` | sums, averages, counter, trigger configuration | `processEvent`, `updateMapper`, publish | sums, averages and counter are reset at different times | averages are those of the present pedestal run | `PedestalProcessor` |
| Containers, `calice_userlib/include/Mapping/MappedContainer.hh`, and the index of `Ahc2Mapper.cc` | array over the compact index, the mapper's version | fill, get, remove, delete by cell or by channel, clear, refill | refilling in the middle of any call after the mapping changed; dimensions of the index that change with every description; who owns an element | it is a map from cells to elements | `MappedContainer`, `Ahc2Mapper`, `CellMap` |
| Slow control and temperatures, `calice_reco/raw2calohit/src/AhcSROmappingProcessor.cc`, `calice_userlib/src/AhcSlowReadoutModMapper.cc`, `SiPMTemperatureProcessor.cc`, `calice_userlib/src/AhcSimpleTempProvider.cc` | two collections and flags, a mapper; two flags, a provider with temperatures and offsets; a handler each | callbacks, one of them in the middle of an event, `processEvent` | one processor's output is the other's condition; pointers kept across events; chains cut between the two | readings and temperatures are those told last; nothing read after its deletion | `SlowControl` |
| ROOT tree writer, `RootTreeWriter/src/RootTreeWriter.cc` | static maps: who closes a file, who deletes a tree, who fills it | `init`, `processEvent`, `end` of several writers that share files and trees | ROOT replaces a file that grew too large, whose address comes again; chains cut between two writers | a tree is a log of its events; nothing is used after it was deleted | `RootTreeWriter`, `TreeLog` |
| Engines of the tree writer, `RootTreeWriter/engines/` | the variables the branches point to | `fillVariables` | variables that keep the event before when something is missing | an entry shows its event | `WriteEngines` |
| Physics-prototype calibration, `SiPMCalibrationsProcessor.cc`, `SiPMCalibrateProcessor.cc` | as the modelled ones | as the modelled ones | as the modelled ones | as the modelled ones | no |
| Trigger handler, `TriggerHandlerCalice.cc`, `CaliceTriggerProcessor.cc` | none between events | decode bits | - | - | no |
| Hit search, monitoring, wire-chamber tracks, clustering, `calice_reco/` | histograms | per event | numerics | - | no |
| Calibration programs, `calice_calib/` | histograms over a run | fill, fit in `end` | numerics | - | no |
| Simulation and digitisation, `calice_sim/` | per event | sums, smearing, thresholds | random numbers | - | no |
| Database tools, `calice_cddata/` | none | copy text to the database | - | - | no |
| `calice_userlib/src/md5.cc`, `test/`, `calice_cmake/` | - | - | - | - | no |

`PROJECT.json` lists every component with its status and the reason, and the
hazards of the code, each at its line, with the properties that would catch it.

## 2. Modules

| module | about | composes |
| --- | --- | --- |
| `CycleSplitter` | abstract: a cycle's blocks leave in events of one crossing each, lowest first, numbered in order | |
| `EUDAQEventBuilder` | the three builders (constant `Variant`) on an explicit call stack | instantiates `CycleSplitter` |
| `LabviewConverter2` | the converter, line by line | instantiates `CycleSplitter` |
| `MappingProcessor` | mapper, two conditions | |
| `CellDescriptionProcessor` | positions, four conditions | extends `MappingProcessor` |
| `Ahc2CalibrationsProcessor` | constants and bits | extends `MappingProcessor` |
| `CalibrationChain` | one event through all of them and through `Ahc2CalibrateProcessor` | extends the two above |
| `RunTimeConditionsHandler` | ownership and listeners | |
| `PedestalProcessor` | pedestals published through the handler | extends `RunTimeConditionsHandler` |
| `SlowControl` | two processors, two handlers, the mapper of readings and the temperature provider | extends `RunTimeConditionsHandler`, and instantiates it for the second handler |
| `WriteEngines` | the fourteen engines as operators: from which events each group of variables is | |
| `RootTreeWriter` | several writers that share files and trees | extends `WriteEngines`, instantiates `TreeLog` |
| `TreeLog` | abstract: logs of events that only grow and end on disk | |
| `Ahc2Mapper` | the compact index of channels and cells | |
| `MappedContainer` | a container through calls and changes of the mapping | extends `Ahc2Mapper`, instantiates `CellMap` |
| `CellMap` | abstract: a map from cells to elements | |
| `MC...` | steering files, collections, connections and identifiers for TLC | extends the module of the same name |
| `..._proofs` | theorems | extends the module of the same name |

A definition named *Mutant* in a comment is a plausible slip of the code, used to
see that a property can fail; no specification uses it.

### The event builders

`frame[d]` is the d-th active call of `ProcessorMgr::processEvent` with the
builder's locals: the event, the place it is at, the blocks left in `rData`
(`todo`) and whether `rTemp` still holds temperatures. Members are variables of
their own, because nested calls share them. `ReadEvent` is Marlin reading a raw
event, with or without each collection the builder asks for; `ReturnEarly`,
`SkipEarly`, `FillMaps` are the three ways through the first half of
`processEvent`; `BuildNext` makes one event and enters the nested call;
`DeleteBuilt` is what follows it; `EndLoop` is the `SkipEventException` at the
end; `Downstream` stands for the processors behind. The history variables `raw`
and `seen` are read by properties only. Abstracted: an ADC or TDC word is the
outcome of the quality check. A BIF element is its time stamps and whether its start
and stop words carry their markers (without them `EUDAQEventBuilder2016.cc:316-343`
skips the event); `BXID_BIF` computes the crossing of a trigger as the code does,
in unsigned arithmetic modulo `Wide` (2^64 there) cut to a signed `Narrow` (2^32),
and each element overwrites what the one before left. In the variant without BIF the collections of the
hodoscope are shared by the events built from one raw event, so deleting one
event leaves the next with freed collections: undefined behaviour, modelled by
`Crash`, which may or may not happen from then on.

### The Labview converter

`input` is the sequence of data lines read; `rData`, `todo` and the blocks of
events are sets of places in it, so a line lost or repeated is visible. The empty
line that a final newline leaves is read by the code as a data line of zeros, and
is one here (`EmptyLine`). Each kind of comment line is an action; texts of dates
and temperatures are reduced to what the code does next. Of the time only matters
whether it is 0: there is none when the file begins, and a Unix time can set it back to 0
(the number is 0 or cannot be read), after which events are numbered and left, with their
lines, by a `continue` (`sent`). A data line keeps whether a time was known when it came
(`timed`, history), so that what is lost for want of a time can be told from the file alone.

### The calibration chain

`Tell(n)` is one callback round of LCCD: the new collection reaches every
processor that registered for it, in any order of collections. `ConditionsRead`
ends the callbacks; `Map`, `Describe`, `UpdateCalibrations` and `CalibrateHits`
are the `processEvent`s in the order of the steering file; the actions that end
in `Fails`, `Stops` and `Aborts` are the null pointers read without a check, the
`StopProcessingException` for half a pair of collections, and the exception of a
channel that is not mapped. A collection carries the number of the event it was
told at, so a stale constant is recognised by its number. The hardware connections are no
collection of LCCD's listeners: `Lookups` takes the one valid at the first event with hits,
and `connected` keeps it (`FillContainer`); `LoseHits` is the hit of a chip that is not in
it, after which the event gets no calibrated hits at all, `NoHits` an event without
hits, and `NoConnections` the exception if no connections are valid at the first hits. Chips
outside 100..255 are not in `Chips`. Abstracted: a module has one cell and its type is always described; constants are positive; of several
hits in a cell one stays, as in `checkHit`; `Kinds` chooses the constants followed
in a run (MIP has the shape of gain, `interCalibration`, `PhysicsCalibIC`,
`timeSlopes` and `timePedestal` that of a kind with one collection). The order of
the updates inside one `processEvent` is free because each kind has its own bits
(`Touched`), except that MIP and gain come first, which is what makes `UpdateStops`
and `UpdateAborts` come before anything else changes.

### Run-time conditions and pedestals

Collections are numbered by allocation, and `frees` counts deletions, so a
dangling pointer is a number with `frees > 0`. A pedestal sum is the set of events
added to it, which tells more than its value does: an average made of the wrong
events is seen even if the number happens to be right. The error of the mean, the
two-dimensional arrays and `end()` are left out.

### Slow control

`ReadEvent` is the callback round: mapping, readings and calibrations may become
valid in any combination. `MapReadings` is `AhcSROmappingProcessor`, which sorts
the readings to their modules and publishes them; its handler calls the
temperature processor at once, so `sroChanged` is set in the middle of an event.
The second processor (`MakeTemperatures`), with its own instance `T` of the handler, makes temperatures.
`SkipEvent` cuts the chain before either. The temperature of a sensor is the set of
the collections it was made of, as pedestals are, so that an old offset under new
readings is seen, and whether it is in the sanity range. A module lists as many
temperatures as were read out: the code takes those of a short list and leaves the other
sensors of the module as they are unless they are out of range (`Cached`, `Replaced`).
Abstracted: whether a temperature is in the range is a property of the reading, whatever
its offset, and a collection of calibrations has all sensors of a module or none.
The collections published are numbers, and a label that no reading
has is what the code reads: memory outside an array, so anything.

### Root trees

The three static maps are variables, and so is what ROOT keeps: which file is open
at an address, which trees it lists. `ChangeFile` is what `TTree::Fill` may do at any
event; the new file is allocated before the old one is deleted, so an address comes
again at the change after. `data` holds the variables of every engine by origin
(`WriteEngines`: `{}` a value the code wrote, `{0}` memory as it was allocated, else
event numbers), and an entry shows what the branches of its tree point to when the
last writer fills it. `HitWriteEngine` runs at information level 3 with all its
switches on. All engines of an event meet the same missing things, which suffices
because no engine reads another's variables.

### Containers

`Ahc2Mapper` is the arithmetic of the index; its dimensions are those of the
collections filled last, and filling the descriptions alone is a change of version.
Every call of `MappedContainer` begins with `Checked`, the refill under a new
mapping; `Throw` is the refill that fails in the middle of that call. `answer` is
what the caller gets and takes before the next call (a history variable with a
handshake, so that the refinement sees answers). Left out: identifiers by DAQ
channel, which only the older prototype's mapper has, filling without `unique`, which
nobody calls, and the container's own version, which nobody reads.

## 3. Runs

| run | question | bounds |
| --- | --- | --- |
| `EventBuilder_bif2016` | delivery under bad blocks, missing and broken BIF; triggers, counters, termination; a `CycleSplitter` | 2 cycles, 2 crossings x 2 chips, blocks good or bad, three BIF collections (one of two elements); 32 time stamps, 16 values of an int, crossings of 3 ticks |
| `EventBuilder_hodo2016` | delivery, numbering and temperatures up to the crash, configured as in the steering file | 3 cycles, 3 crossings |
| `EventBuilder_delete` | **violated**: the builder deletes only what it made and nobody holds | 2 cycles, 3 crossings |
| `Labview_lines` | which lines Marlin gets, with and without times; cycles whole; comments anywhere: temperature blocks, the array; a `CycleSplitter` | 7 lines, 4 of them data, 2 cycles, 3 crossings one of them out of range, 3 slots instead of 15 |
| `Labview_strange` | **violated**: a cycle with a strange BXID is discarded | 4 lines |
| `Calib_remap` | constants, bits, positions and output when the geometry changes during the job, before, with or after the constants; chips connected to another cell or to none | 2 events, 2 new collections at the second, 2 cells, 3 chips, kinds gain (of two collections), pedestal, saturation, quality |
| `Calib_nopedestal` | **violated**: `kNoPedestal` means that there is no pedestal | 2 events |
| `Pedestal_run` | sums, averages and counter through runs, remappings, empty events; the handler under them | 5 events, 2 cells, target 2 instead of 501 |
| `SlowControl_run` | readings and temperatures through cut chains; two handlers | 3 events, 2 modules of 2 sensors, 4 mappings, 5 sets of readings with lists of 0 to 3 temperatures |
| `RootTree_writers` | entries, files and trees of several writers | 3 writers, two of them on one tree, all engines, 2 events, 3 addresses, 2 replaced files |
| `RootTree_radius` | **violated**: the shower radius is the event's own | 2 events |
| `Container_cells` | the index, ownership, and the container as a map | 2 elements, 7 cells, 2 descriptions, 3 connections, versions up to 5 |

What the passing runs show:

- *Builders*: `ExactlyOnce`, `NumberedInOrder`, `NeverBoth` and `TemperatureOnce`
  say what becomes of a readout cycle, whatever the nested calls do to the shared
  members; `TriggersInTheirCrossing` that a trigger meets its crossing and no other
  event, on both sides of every edge and across a turn of the clock; `CountedOnce`
  that the quality counters are not moved by re-entrance or by a cycle given up
  later; `EveryEventEnds` that Marlin gets every call back, so re-entrance stops.
  `ImplementsSplitter` is refinement with fairness.
- *Converter*: `Accounted`, `WholeCrossing` and `DiscardedWhole` relate the lines
  read to the events. `Accounted` says of each line, from the file alone, whether Marlin
  got it: exactly if its cycle was over with a time known and was not discarded. Lines of a
  cycle without a time are lost, and the last cycle waits for a line that may not
  come; `TemperatureOnce`, `TemperatureComplete` and `SensorInArray`
  the slots to the array. `DiscardedWhole` says what the discarding really does,
  which is not what the comment says (section 5).
- *Chain*: `CalibrationsExact` is the main property: never a constant of an
  earlier collection, or of half a pair, in any order of the callbacks, and
  after a remapping exactly the kinds that were not told again are missing.
  `DefaultsFlagged`, `DeadFlagged` and `MissingPedestalFlagged` relate bits to
  constants, `PositionsExact` two processors' views of the geometry,
  `EndsForAGap` every way the job can end to missing conditions, and
  `OutputAsTold` the hits written to the collections, without flags or containers,
  and to the cells the chips had when the first hits came.
- *Pedestals*: `ListenersHoldTheLast` is about pointers kept across updates,
  `PedestalIsMean` and `CounterCovers` about three pieces of state that are reset at
  three different places.
- *Slow control*: `NothingDangles` and `ReadingsAlive` say that no chain, wherever it
  is cut, makes a processor read a deleted collection; `LastReadingsSorted`,
  `TemperaturesUpToDate` and `FreshTemperature` follow a reading through both
  processors, the last to every sensor (but for those behind the end of a short list,
  section 6); `EndsForAGap` says that the job ends only for missing conditions or
  a label outside the readings.
- *Root trees*: `ImplementsTreeLog` is the promise; `NumbersOfTheEntry` and
  `CompleteIsFresh` say that an entry shows its own event although its branches belong
  to several writers, `MissingIsReset` that nothing of the event before shows through
  where the code resets, `NoUseAfterDelete` and `ClosesOwnFile` that the owner maps
  follow the files.
- *Containers*: `IndicesAgree` relates five translations that divide by the same
  dimensions; `OwnedOnce` and `ImplementsCellMap` hold through a refill that fails
  halfway.

### Why the bounds are enough

Every interesting case needs few actors. Two cycles show what a member carries
from one to the next; the third in `EventBuilder_hodo2016` shows a flag that
survives a cycle without data. Three crossings distinguish first, middle and last.
Two chips put two blocks in one crossing, one good and one bad. The time stamps of
the triggers are the ticks next to every edge of two crossings of three ticks, one
tick before the offset and one too late for an int. `MaxDepth` is 3, so that a
nesting deeper than 2 could be seen.
A conditions collection is old or new, and whatever is older than both behaves as
the old one: two events, with two collections told at the second, show any pair
of flags set together and one of a pair alone; the theorems have no bound on either.
Three chips are two on one cell and one that is not connected.
Two cells distinguish one with an entry from one without. The pedestal target only
has to be reached and passed. Seven lines leave room to fill
every slot and wrap (`Layers` = 3), and for the time and the data lines that write an event
out; four lines of data are two whole cycles, a discarded or a written one before another.
Three events of slow control are one to publish, one to replace, and one to read
what may have been deleted; each handler deletes at its third collection. Two sensors
are one good and one bad, or one listed and one behind the end of the list.
Two events suffice for the trees because one complete event overwrites every
variable that is overwritten at all; of three writers two share a tree and one has a
file of its own; two replaced files are what it takes for an address to come again,
and three addresses are two open files and a free place.
Two descriptions and three connections make every dimension of the index grow and
shrink, exchange two layers, and take cells away; two elements are one to move and
one to be in its way. Five versions are two fillings and an update.

### Fairness

`EUDAQEventBuilder!FairSpec` assumes weak fairness of `Run`, the steps of calls
already entered: Marlin is one thread and a call that can go on does. Nothing is
assumed of `ReadEvent` (the file may end) nor of `Crash`. `LabviewConverter2!FairSpec`
assumes it of `WriteEvent \/ StartCycle`, the loop over a map, and nothing of the
file. `RootTreeWriter!FairSpec` assumes it of `Next`: Marlin goes on with the chain
and, as the number of events is bounded, comes to `end`, where `TreeLog` wants all
entries on disk. The other specifications have no fairness and no liveness property. All
configurations switch the deadlock check off because files, events and the
bounds of the model end, and a crashed job stands still.

### Type invariants

`TypeOK` of the builder, of the converter, of the chain and of the tree writer are
theorems (section 4); the other modules have their types in the invariants of the
proofs. No run is spent on any of them.

## 4. Proofs

| module | theorem | states |
| --- | --- | --- |
| `EUDAQEventBuilder_proofs` | `TypeCorrect` | `Spec => []TypeOK` |
| | `DeliveredExactlyOnce` | `Spec => []ExactlyOnce` |
| | `RawOrBuilt`, `NestingBounded` | `Spec => []NeverBoth`, `Spec => []NestingBound` |
| | `NumbersFollowCrossings`, `TemperaturesOnce`, `BlocksCountedOnce`, `TriggersSorted` | `NumberedInOrder`, `TemperatureOnce`, `CountedOnce`, `TriggersInTheirCrossing` |
| | `BuilderImplementsSplitter` | `Spec => Splitter!Spec`: every step is a step of `CycleSplitter` or leaves it alone |
| | `CallsGoOn`, `CallsComeToAnEnd` | a call that has not ended has a next step; every step makes `StepsLeft` smaller |
| | `DanglesFromTheSecondOn` | `NoDangling`, but for the second event of a cycle with hodoscopes and those after it (section 5) |
| `LabviewConverter2_proofs` | `ConverterTyped` | `Spec => []TypeOK` |
| | `LinesAccountedFor`, `EventsWholeCrossings`, `CyclesDiscardedWhole` | `Accounted`, `WholeCrossing`, `DiscardedWhole` |
| | `TemperaturesAttachedOnce` | `TemperatureOnce` |
| | `SensorsInArray` | `SensorInArray`, if a file does not mix the two formats |
| | `TemperaturesComplete` | `TemperatureComplete`, in files without the new format |
| | `ConverterImplementsSplitter` | `Spec => Splitter!Spec` |
| | `LoopHasAFirst`, `LoopComesToAnEnd` | the loop over a map has a next crossing; every turn leaves fewer lines |
| | `StrangeLinesOpenCycles`, `LastCycleWaits` | what holds where two comments promise more (sections 5 and 6) |
| `CalibrationChain_proofs` | `NeverStale` | `Spec => []CalibrationsExact` |
| | `DefaultsAlwaysFlagged`, `PedestalsAlwaysFlagged`, `DeadAlwaysFlagged` | `DefaultsFlagged`, `MissingPedestalFlagged`, `DeadFlagged` |
| | `PositionsFollow`, `EndsOnlyForAGap` | `PositionsExact`, `EndsForAGap` |
| | `HitsAsTold` | `OutputAsTold`, if pedestals are not subtracted |
| | `ChainTyped` | `Spec => []TypeOK` |
| `RunTimeConditionsHandler_proofs` | `NoDanglingCollection`, `OlderKept` | `Spec => []NothingDangles`, `Spec => []LastValidIsOlder` |
| `PedestalProcessor_proofs` | `PedestalsUseTheHandler` | `PedSpec => Spec` of the handler |
| | `ListenersServed`, `AveragesFollow`, `CounterAhead` | `ListenersHoldTheLast`, `PedestalIsMean`, `CounterCovers` |
| `SlowControl_proofs` | `ReadingsUseTheHandler`, `TemperaturesUseTheHandler` | `SlowSpec =>` the handler's specification, for either handler |
| | `ReadingsNeverDangle`, `ReadingsStayAlive` | `NothingDangles`, `ReadingsAlive` |
| | `SortedByTheLast`, `TemperaturesFollow`, `TemperaturesFresh` | `LastReadingsSorted`, `TemperaturesUpToDate`, `FreshTemperature` |
| | `EndsOnlyForAGap` | `EndsForAGap` |
| `RootTreeWriter_proofs` | `WritersTyped` | `Spec => []TypeOK` |
| | `EntriesNumbered`, `EntriesFresh`, `EntriesReset` | `NumbersOfTheEntry`, `CompleteIsFresh`, `MissingIsReset` |
| | `FilesClosedByTheirOwner` | `ClosesOwnFile` |
| | `TreesUsedWhileThere` | `NoUseAfterDelete`, with one tree for each file (`OneTreePerFile`) |
| | `TreesAreLogs` | `Spec => L!SafeSpec` |
| | `AllSavedInTheEnd` | after the last `end()` everything is on disk |
| `MappedContainer_proofs` | `IndicesAlwaysAgree` | `IndicesAgree` |
| | `ElementsOwnedOnce` | `OwnedOnce`, for descriptions of one width and identifiers in range |
| | `ContainerIsAMap` | `ImplementsCellMap`, under the same two assumptions |

*Builders.* `ExactlyOnce` is not inductive: it speaks of the events that exist and
not of what the nested call will do to them. The invariant adds `Nesting` (the
outer frame is the raw event, the inner one a built event which misses the raw
collection, so it can only return early and go down to the chain) and
`Delivery` (the events handed out are exactly the crossings taken from `rData`,
each whole, and nothing is handed out of an event that is not split). One lemma per action; `SliceDelivery`
is the step that builds an event. `Numbering`
adds that the numbers given do not exceed the counter and that whatever is still to be
built is in a later crossing; `Warmth`, that the flag and the rest of `rTemp` are those of
the raw event until the first event is built and that the flag is down from then on, whatever
the nested calls do to it; `Stamped`, that an event built has just the triggers
of its crossing, from the raw event in hand. For these `BXID_BIF`
is taken apart: a difference of stamps below the offset turns round the clock, one above
it is divided, and the cut to an int loses nothing that `TriggersInTheirCrossing` speaks of.
`Deleted` says whose collections went with a deleted event: `DanglesFromTheSecondOn` is the
bound of the first finding of section 5. `StepsLeft` counts, for either frame, the building,
calling, returning and deleting that the crossings left can still ask for. It falls at every
step of a call, and `CallsGoOn` says that there is such a step: with the fairness of
`FairSpec` this is `EveryEventEnds`, whose temporal half TLC checks.
The assumptions used are `VariantAssumption`, `BlockAssumption` (finitely many blocks, for
the counters and the steps), `BoundAssumption`, `BifAssumption` (the types of the triggers,
a crossing of at least a tick, and an int no wider than an unsigned long long) and
`NameAssumption`: the data collections a builder writes are not named like what it
reads, nor like the temperatures, which is how the steering files name them (the hodoscopes
keep their names).

*Converter.* The properties speak of whole cycles and crossings, the loop of lines.
`Lines` says what the map is at every line: a run of consecutive lines of one cycle
from its first one on (`MapWhole`), with the discard flag set exactly if one of them,
or the line that opened the next cycle, was strange (`Good`, `EventsWhole`,
`DroppedWhole`), and, while it is written out, crossings are taken whole (`LoopWhole`).
`Partition` says that a line is in the map, in an event or discarded, and `EventsWhole` that
an event was sent exactly if the line that ended its cycle came with a time known, which
together make `Accounted`: the lines around one of a run are the run (`SegmentIsRun`).
The temperatures need the flags (`Attaching`) and the slots (`Slots`, `SlotsUsed`).
From `Lines` follow also the bounds of two disagreements: a strange line in an event is
the first of its cycle, and what Marlin did not get when the file is over was discarded, is
of the last cycle, or of a cycle without a time.
The number of lines in the loop is what falls at every turn of it.

*Chain.* `CalibrationsExact` speaks of the moment hits are calibrated. `IInv`
says how the processors get there: `Flags` (a flag is set exactly for a collection
told at this event and not yet processed), `MapperFilled` (past the mapping, the
mapper is filled from the collections told last), `Versions` (the versions the
processor and the mapper have differ exactly between a remapping and the
calibration processor) and `Contents` (what the container holds, by kind).
`NrBounded` makes "told at this event" and "told last" comparable. `BitsFollow` ties the
bits to the constants at all times, because one step changes both and no two kinds touch
the same bit (`TouchedApart`); `DeadInv` is to the dead cells what `Contents` is to the
constants. `PairsTold` is what `UpdateStops` leaves; `GeoInv` says that the positions are
those of the collections told last whenever neither a flag nor a version calls for new
ones. `FiltersExact` joins them: the filters on the bits admit what the collections admit.
Pedestal subtraction must be off for it, because of `kNoPedestal` (section 5).
Only `ChainAssumption` and `KindsAssumption` are needed; no bound on events or cells is.

*Handler.* `FreedOnceUnheld` says that only a collection that was allocated and is no longer
held is deleted, and once (`ListenerFollows`: what a listener has is held); `LastValidIsOlder` is part of the
invariant because it is why the collection deleted is not the one in use.

*Users of the handler.* Pedestals and slow control are shown to be behaviours of the
handler's specification, so what is proved of it holds of them; for the second
handler of the slow control its theorems are instantiated (`TP`). `PedInv` adds that
collections are numbered as they are published. `SlowInv` relates the two processors:
what the listener, the handler and the provider hold is the same but for a collection
announced by `sroChanged`, wherever a chain was cut, which is why two retired
collections are not one too few. `FreshTemperature` is a conjunct of it and needs only that
the cache takes what is listed (`CachedTyped`) and that the means are of what is good
(`MeansFresh`); lists may have any length.

*Root trees.* The branches belong to the first writer of a tree and `Fill` to the last
(`FirstAndLast`); while the writers are at work, those before `at` have this event and
no tree whose last writer is to come has it (`Reading`). With `NotAhead` an entry is
later than all before it. Freshness (`Showing`) needs
that while the writers are at work the variables of those before `at` are of this event, by
the standard of a complete event or of one with something missing (`Members`), and that the
writer that fills a tree is the last of those that have it (`LastFills`); for the former
`fillVariables` is followed through all engines, once for either kind of event. The files need
where everything is (`Placement`): the trees listed at an address are in the file there
and bear the name its owner was steered to, and an address without a file lists none
(`Files`); while the writers are initialised no two files have one name (`Named`); a writer that
was initialised has its file, and its tree until the end (`HasFiles`). With one tree for each
file the owner of a file owns the tree in it (`Together`). The hypothesis `OneTreePerFile`,
which the steering file of the run meets, is necessary: if two writers put a tree each
in one file, the first closes it in `end()`, which deletes both trees, and the second
uses its own (TLC shows it in six states). At the end, `Saving` says that a tree not
yet on disk is there and its owner still to be called (`Kept`).
The assumptions are `SteeringAssumption`, `FileNameAssumption` (a writer without a file name
stops in `init`), `AddressAssumption` (no file at the null pointer) and
`LayersAssumption` (there is a first layer, whose hits the hit engine sums).

*Containers.* `MapperOK` says that channels and cells correspond and that every number
is below its dimension, so the index can be taken apart again (`DividedWhole`);
`ContainerOK` that the address of every entry had the entry's place when the version
was noted. That the promise fails without `SameWidth` is shown in section 6.
`DescriptionAssumption` and `ConnectionAssumption` ask for a largest chip, channel,
column and module (`HasLargest`), true of every collection, because that a finite set
has one needs induction; `CellAssumption` says that all mapped cells can be asked for.

The proofs use no bound of the models: they hold for every number of cycles,
cells, kinds, lists and collections.

*Only model-checked*: what needs fairness, which is out of the prover's reach, that is
`EveryEventEnds` and the fairness part of the refinements of `CycleSplitter` and `TreeLog`.
The safety half of each argument is proved: that there is a next step, that a measure falls,
and that the end reached is the one promised. Every other property of a passing run is a
theorem, under the hypothesis the table names where it names one.

## 5. Disagreements found

Each is a run that TLC must find violated.

1. `EventBuilder_delete` (`NoDangling`): `EUDAQEventBuilder2016_woBIF.cc:137-138`
   allocates the hodoscope collections once per raw event, line 378 adds them to
   every built event, and deleting the first built event (398-400, "we created the
   event so we need to delete it ...") frees them under the second. The first built event of
   a cycle and the other two builders are safe (`DanglesFromTheSecondOn`).
2. `Labview_strange` (`StrangeDiscarded`): the range of the BXID is looked at
   before the change of cycle (`LabviewConverter2.cc:357`), so a strange BXID in
   the first line of a cycle discards the previous, good one; the strange line is
   then written. No other strange line is ever written (`StrangeLinesOpenCycles`).
3. `Calib_nopedestal` (`NoPedestalTrue`): an update of the pedestals sets
   `kNoPedestal` and none clears it (`Ahc2CalibrationsProcessor.cc:820`; the older
   `SiPMCalibrationsProcessor.cc:765` does), so a cell that gets a pedestal later
   stays flagged and its hits are dropped.
4. `RootTree_radius` (`RadiusOfTheEvent`): `energyDensity` is added to for every event
   (`HitWriteEngine.cc:635`) and set to zero only when a collection is missing, and the
   shower radius is divided by it (650), so that it depends on all events before.

## 6. Statements of comments that the code does not keep

These are defined in the modules as well, and shown violated by a configuration
with that one invariant; no run is spent on them.

| property | comment | to see it |
| --- | --- | --- |
| `TemperatureOnLast` | `EUDAQEventBuilder.cc:223`: temperatures are added "to the last event of the readoutcycle"; they go to the first | constants of `EventBuilder_hodo2016` |
| `BadCrossingNotSaved` | `EUDAQEventBuilder2016.cc:170-173`: a crossing with a bad block is not saved; only the block is left out | those of `EventBuilder_bif2016`, `MaxCycles = 1` |
| `NoneBeforeFirstCrossing` | `EUDAQEventBuilder2016.cc:82-85`: the offset is "between start acquisition and first BXID"; a trigger less than a crossing before it is cut to crossing 0, with a time that is none | those of `EventBuilder_bif2016` |
| `AllAssigned` | `LabviewConverter2.cc:159-162`: until all data are assigned to an event; without a final newline the last cycle is not, and cycles without a time never are (nothing else is left, `LastCycleWaits`) | those of `Labview_strange`, `Bx = {1}` |
| `TemperatureComplete` | (no comment, but a property of `Labview_lines` for the old format) the new format wraps one slot early and loses a full set of layers | those of `Labview_lines`, `Formats = {"new"}`, `MaxLines = 8` |
| `NewITEPTrue` | `kisNewITEP` is not cleared by the next collection | those of `Calib_nopedestal`, `Kinds = {"saturation"}` |
| `IncompleteInstallation` | `Ahc2CalibrationsProcessor.cc:641-642`: a gain entry that is not installed is reported, "maybe incomplete installation"; it ends the job | `Kinds = {"gain"}` |
| `DefaultOnlyWithoutData` | `RunTimeConditionsHandler.hh:44-46`: the default is for when there is no data; once registered it replaces all data | `RunTimeConditionsHandler` alone, `MaxObjects = 4` |
| `PublishedAsCounted` | averages are those of the counted events; they survive the clean-up | those of `Pedestal_run`, `Target = 3` |
| `PublishedOnce` | `PedestalProcessor.cc:247`: "once after first 500 events"; again at every event while the counter stands still | those of `Pedestal_run` |
| `LostHarmless` | `AhcSlowReadoutModMapper.hh:24-25`: values of a part without mapping "will not be filled"; a lost label is used as an index | those of `SlowControl_run` |
| `AllSensorsFresh` | `AhcTempProvider.hh:94-96`: the temperature values "from the five sensors" are updated; a sensor behind the end of a short list keeps that of older readings if it is in range (`AhcTempProvider.cc:75`, `AhcSimpleTempProvider.cc:136-141`) | those of `SlowControl_run` |
| `ErrorOfTheReadings` | `AhcTempProvider.hh`: "the error on the temperature for the cell"; that of a sensor that is good again is an old one | those of `SlowControl_run` |
| `ImplementsCellMap` | `MappedContainer.hh:117-140`: 0 for a channel that does not exist; a number beyond its dimension gives the index of another channel | those of `Container_cells`, `OutOfRange = TRUE` |
| `ImplementsCellMap` | (no comment) under a description with fewer columns an entry gets the index of a cell of another row | those of `Container_cells`, the second description `{Cell(1,0,0,1), Cell(1,1,0,0), Cell(2,1,0,0)}` |

## 7. Not modelled, and why

Per-event numerics (track fits, clustering, digitisation, energies, the analysis
programs of `calice_reco/raw2calohit`) keep no state that a later event or another
actor could disturb, and reals are out of TLC's reach. They are most of the
repository's lines. The calibration programs fill histograms and fit them. The
database tools and the Geant4 driver are one-shot translations of files. The
physics-prototype processors repeat the modelled ones for another electronics, and
`PedestalOnTheFlyProcessor` the pedestals without listeners. `md5.cc` is vendored.

Of the modelled components the following is left out: the connector a BIF trigger came
from; the old data format of the converter; the crates and slots of the mapper and the
mapper of the older prototype; scale factors and the temperature of the constants (its
listener is never registered); energies and times, and hits dropped for a
constant that is not positive or for the threshold; an offset that moves a temperature
into or out of the sanity range, and calibrations of some sensors of a module; the destructor of the handler; `end()` of the pedestals;
the two other temperature providers; the array bounds and the arithmetic of the write
engines, and trees already in a file opened for update.

`calice_calib/calib/src/SingleCellAnalysis.cc:123-168` is not modelled but met while
reading `MappedContainer`: it clears one of two containers when the mapping changes, so
that filling the other one a second time throws.

## 8. Plan

Done: event builders with their abstract specification, and the triggers of the BIF;
the converter against the same abstract specification; the calibration chain; the
run-time conditions, and the pedestals and the slow control that use them; the tree
writers, their engines and the log they implement; the container, the index and the
map it implements; proofs for every one of these modules.

All safety properties of the passing runs are theorems.

Next, as theorems: the type invariants of the handler, the pedestals, the slow control and
the container as theorems of their own; that a chain of the calibration comes to its end, by
a measure as for the builders; the invariants of the models below as they come.

Next, as models: the old data format of the converter; the two other temperature providers;
the index by DAQ channel of the older prototype; `SingleCellAnalysis`. Runs of new
modules take the place of runs whose question a theorem has settled, as the runs of the
2015 builder, of the handler alone and of the comment lines have made room before: the
2015 builder is covered by the builder's theorems, which hold for every `Variant`, and
the handler by its theorems and by the runs of its two users.
