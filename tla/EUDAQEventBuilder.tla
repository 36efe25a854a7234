--------------------------- MODULE EUDAQEventBuilder ---------------------------
(***************************************************************************)
(* The EUDAQ event builders of labview_converter: they split one readout   *)
(* cycle, as EUDAQ wrote it, into one LCIO event per bunch crossing (BXID) *)
(* and hand every such event to Marlin from INSIDE their own processEvent: *)
(* ProcessorMgr::processEvent(evt_new) runs the whole processor chain,     *)
(* this builder included, on the new event before the loop goes on.        *)
(*                                                                         *)
(* The three builders share the loop and differ in what they demand of the *)
(* raw event and in what they attach to the built ones:                    *)
(*   "eudaq2015"  EUDAQEventBuilder.cc: no quality check                   *)
(*   "bif2016"    EUDAQEventBuilder2016.cc: quality check, BIF triggers    *)
(*   "hodo2016"   EUDAQEventBuilder2016_woBIF.cc: quality check, two       *)
(*                hodoscope collections attached to every built event      *)
(*                                                                         *)
(* The call stack is explicit: frame[1] is the raw event Marlin read from  *)
(* the file, frame[2] a built event inside the nested call, and so on.     *)
(***************************************************************************)
EXTENDS Integers, FiniteSets, Sequences

CONSTANTS
  Variant,    \* which of the three builders runs
  Bx,         \* the bunch-crossing numbers a block can carry
  Chips,      \* the chips a block can come from
  InName,     \* _inputColName, the raw data collection
  OutNames,   \* _outputColNameECAL and _outputColNameHCAL
  HodoIn,     \* _inputColNameHodo1 and 2
  HodoOut,    \* _outputColNameHodo1 and 2
  BifCollections, \* what the BIF collection of a raw event may hold
  BIF_BINNING, BIF_offset,  \* ticks of a bunch crossing; _bifoffset
  Wide, Narrow,   \* how many values an unsigned long long and an int have
  MaxCycles,  \* bound: raw events read from the file
  MaxDepth    \* bound: nested calls of ProcessorMgr::processEvent

\* A data block is one chip's memory cell; ok is the outcome of the comparison of
\* the hit and gain bits of its ADC and TDC words.
Block == [bx : Bx, chip : Chips, ok : BOOLEAN]

\* An element of the BIF collection: whether its start and stop words have their
\* markers, the time stamp of the start, and those of the triggers.
Stamp == 0 .. (Wide - 1)
BifElement == [marked : BOOLEAN, start : Stamp, triggers : SUBSET Stamp]

\* A trigger in a built event: its time stamp, and its time in the crossing.
BIFBlock == [stamp : Stamp, time : 0 .. (BIF_BINNING - 1)]

\* Collections of a raw event: the data, the temperatures ("TempIn"), and what
\* else the variant reads.
RawNames == {InName, "TempIn"}
              \cup (IF Variant = "bif2016" THEN {"BIFIn"} ELSE {})
              \cup (IF Variant = "hodo2016" THEN HodoIn ELSE {})

\* Collections of a built event.
BuiltNames == OutNames
                \cup (IF Variant = "bif2016" THEN {"BIFData"} ELSE {})
                \cup (IF Variant = "hodo2016" THEN HodoOut ELSE {})

ASSUME VariantAssumption == Variant \in {"eudaq2015", "bif2016", "hodo2016"}
ASSUME BlockAssumption == Bx \subseteq Nat /\ IsFiniteSet(Block)
ASSUME BoundAssumption == MaxCycles \in Nat /\ MaxDepth \in Nat /\ MaxDepth >= 2
ASSUME BifAssumption ==
  /\ BifCollections \subseteq Seq(BifElement)
  /\ BIF_BINNING \in Nat \ {0} /\ BIF_offset \in Int
  /\ Narrow \in Nat \ {0} /\ Wide \in Nat \ {0} /\ Narrow <= Wide
\* As the steering files of the repository set them: the data collection is not
\* one the builder writes, and what it does write tells a built event from a
\* raw one. The hodoscopes keep their names. The temperatures have a name to
\* themselves: an event refuses a second collection of one name.
ASSUME NameAssumption ==
  /\ OutNames # {}
  /\ OutNames \cap RawNames = {}
  /\ InName \notin BuiltNames \cup {"TemperatureSensor"}
  /\ "TemperatureSensor" \notin BuiltNames

VARIABLES
  cycles,           \* raw events read so far
  raw,              \* the raw event of the present readout cycle (history)
  depth,            \* active calls of ProcessorMgr::processEvent
  frame,            \* frame[d]: the d-th active call and the builder's locals in it
  LcioEventNr,      \* member: number of the last built event
  all_events,       \* member: data blocks looked at
  discarded_events, \* member: data blocks refused by the quality check
  temperaturecollection_write, \* member: temperatures still to be attached
  freed,            \* frames whose hodoscope collections are deleted
  running,          \* the job has not died on a deleted collection
  seen              \* events the rest of the chain got in this readout cycle

counters == <<all_events, discarded_events>>
vars == <<cycles, raw, depth, frame, LcioEventNr, counters,
          temperaturecollection_write, freed, running, seen>>

--------------------------------------------------------------------------------
(* Events and the calls they are processed in.                              *)

\* noTime: evt->getTimeStamp() is -1.  bif: the elements of a raw event's BIF
\* collection.  triggers: those of a built event.  temps: temperature blocks
\* are in it.
Event == [nr : Nat, names : SUBSET (RawNames \cup BuiltNames \cup {"TemperatureSensor"}),
          noTime : BOOLEAN, bif : BifCollections \cup {<<>>},
          triggers : SUBSET BIFBlock, blocks : SUBSET Block, temps : BOOLEAN]

NoEvent == [nr |-> 0, names |-> {}, noTime |-> FALSE, bif |-> <<>>, triggers |-> {},
            blocks |-> {}, temps |-> FALSE]

\* A memory cell is read out once.
OneBlockPerCell(S) ==
  \A p, q \in S : p.bx = q.bx /\ p.chip = q.chip => p = q

RawEvents ==
  { e \in [nr : {0}, names : SUBSET RawNames, noTime : BOOLEAN,
           bif : BifCollections \cup {<<>>}, triggers : {{}},
           blocks : {S \in SUBSET Block : OneBlockPerCell(S)}, temps : BOOLEAN] :
      /\ e.temps = ("TempIn" \in e.names)
      /\ (InName \notin e.names) => e.blocks = {}
      /\ ("BIFIn" \notin e.names) => e.bif = <<>>
      /\ (Variant # "bif2016") => ~ e.noTime }

\* A call: its event, where the builder is in it ("builder": entered, "loop":
\* over rData, "call": evt_new handed to Marlin, "down": returned, the rest of
\* the chain has the event), rData and whether rTemp is filled.
Frame == [ev : Event, at : {"none", "builder", "loop", "call", "down"},
          todo : SUBSET Block, temps : BOOLEAN]

NoFrame == [ev |-> NoEvent, at |-> "none", todo |-> {}, temps |-> FALSE]
Enter(e) == [ev |-> e, at |-> "builder", todo |-> {}, temps |-> FALSE]

Top == frame[depth]
At(place) == running /\ depth > 0 /\ Top.at = place

\* Mutant: rData is walked from its other end.
LowestReversed(S, p) == p \in S /\ \A q \in S : q.bx <= p.bx

Lowest(S, p) == p \in S /\ \A q \in S : p.bx <= q.bx
Slice(S, b) == {p \in S : p.bx = b}

--------------------------------------------------------------------------------
(* What a builder demands of the event it is handed.                       *)

\* The collections it fetches before it looks at the data, and all of them.
DataNames == {InName} \cup (IF Variant = "hodo2016" THEN HodoIn ELSE {})
Needed == DataNames \cup (IF Variant = "bif2016" THEN {"BIFIn"} ELSE {})

Parsed(e) == DataNames \subseteq e.names
Missing(e) == ~ (Needed \subseteq e.names)

\* SkipEventException before any event is built; only the BIF builder throws.
Skips(e) ==
  /\ Variant = "bif2016"
  /\ IF Missing(e) THEN e.noTime ELSE \E i \in DOMAIN e.bif : ~ e.bif[i].marked

\* The blocks that enter rData.
Accepted(e) ==
  IF Variant = "eudaq2015" THEN e.blocks ELSE {p \in e.blocks : p.ok}

\* Mutant: the blocks are counted before it is known that the data collection
\* is there.
CountAnyEvent(e) ==
  /\ all_events' = all_events + Cardinality(e.blocks)
  /\ discarded_events' = discarded_events + Cardinality(e.blocks \ Accepted(e))

\* The counters of the quality check move as soon as the data is read, before
\* the BIF collection is asked for.
Count(e) ==
  IF Parsed(e) /\ Variant # "eudaq2015"
  THEN /\ all_events' = all_events + Cardinality(e.blocks)
       /\ discarded_events' =
            discarded_events + Cardinality(e.blocks \ Accepted(e))
  ELSE UNCHANGED counters

\* Mutant: the member is set and never cleared by the next readout cycle.
NoteTemperatureKept(e) ==
  temperaturecollection_write' =
    (temperaturecollection_write \/ (Parsed(e) /\ "TempIn" \in e.names))

\* The BIF builder clears the member on entry, the others only once the data
\* collection is there.
NoteTemperature(e) ==
  temperaturecollection_write' =
    IF Parsed(e) THEN "TempIn" \in e.names
    ELSE temperaturecollection_write /\ Variant # "bif2016"

Pop == /\ depth' = depth - 1
       /\ frame' = [frame EXCEPT ![depth] = NoFrame]

--------------------------------------------------------------------------------
(* Actions.                                                                 *)

Init ==
  /\ cycles = 0
  /\ raw = NoEvent
  /\ depth = 0
  /\ frame = [d \in 1 .. MaxDepth |-> NoFrame]
  /\ LcioEventNr = 0
  /\ all_events = 0
  /\ discarded_events = 0
  /\ temperaturecollection_write = FALSE
  /\ freed = {}
  /\ running = TRUE
  /\ seen = {}

\* Marlin reads the next raw event and starts the chain on it.
ReadEvent ==
  /\ running
  /\ depth = 0
  /\ cycles < MaxCycles
  /\ \E e \in RawEvents :
       /\ raw' = e
       /\ frame' = [frame EXCEPT ![1] = Enter(e)]
  /\ cycles' = cycles + 1
  /\ depth' = 1
  /\ seen' = {}
  /\ UNCHANGED <<LcioEventNr, counters, temperaturecollection_write, freed, running>>

\* A needed collection is not there: processEvent returns, the chain goes on
\* with the event as it is.
ReturnEarly ==
  /\ At("builder")
  /\ Missing(Top.ev)
  /\ ~ Skips(Top.ev)
  /\ Count(Top.ev)
  /\ NoteTemperature(Top.ev)
  /\ frame' = [frame EXCEPT ![depth].at = "down"]
  /\ UNCHANGED <<cycles, raw, depth, LcioEventNr, freed, running, seen>>

\* The builder throws SkipEventException: the chain ends for this event.
SkipEarly ==
  /\ At("builder")
  /\ Skips(Top.ev)
  /\ Count(Top.ev)
  /\ NoteTemperature(Top.ev)
  /\ Pop
  /\ UNCHANGED <<cycles, raw, LcioEventNr, freed, running, seen>>

Filled(f) == [f EXCEPT !.at = "loop", !.todo = Accepted(f.ev),
                       !.temps = "TempIn" \in f.ev.names]

\* Everything is there: rData, rTemp and the hodoscope collections are filled.
FillMaps ==
  /\ At("builder")
  /\ ~ Missing(Top.ev)
  /\ ~ Skips(Top.ev)
  /\ Count(Top.ev)
  /\ NoteTemperature(Top.ev)
  /\ frame' = [frame EXCEPT ![depth] = Filled(Top)]
  /\ freed' = freed \ {depth}      \* new LCCollectionVec
  /\ UNCHANGED <<cycles, raw, depth, LcioEventNr, running, seen>>

\* Mutant: the built event carries the raw collection's name, so the builder
\* takes it for a raw event.
BuiltUnderInName(S) ==
  [nr |-> LcioEventNr + 1, names |-> BuiltNames \cup {InName} \cup HodoIn \cup {"BIFIn"},
   noTime |-> FALSE, bif |-> <<>>, triggers |-> {}, blocks |-> S,
   temps |-> temperaturecollection_write /\ Top.temps]

\* The ticks from the first crossing to a trigger, in unsigned arithmetic: one
\* before it comes out close to the largest number.
Since(start, stamp) == (stamp - start - BIF_offset) % Wide

\* Mutant: the offset is forgotten.
BXID_BIF_raw(start, stamp) == (((stamp - start) % Wide) % Narrow) \div BIF_BINNING

\* Cast to int, and divided towards zero.
BXID_BIF(start, stamp) ==
  LET low == Since(start, stamp) % Narrow
      int == IF 2 * low < Narrow THEN low ELSE low - Narrow
  IN  IF int >= 0 THEN int \div BIF_BINNING ELSE - ((- int) \div BIF_BINNING)

\* Each element of the collection overwrites what the one before left.
Last(bif) == IF bif = <<>> THEN [marked |-> TRUE, start |-> 0, triggers |-> {}]
             ELSE bif[Len(bif)]

\* The triggers of the crossing the blocks of S are of.
Triggers(bif, S) ==
  LET last == Last(bif)
  IN  {[stamp |-> t, time |-> Since(last.start, t) % BIF_BINNING] :
         t \in {u \in last.triggers : \E p \in S : p.bx = BXID_BIF(last.start, u)}}

\* The event built from the blocks of one BXID.
Built(S) ==
  [nr |-> LcioEventNr + 1,
   names |-> BuiltNames \cup (IF temperaturecollection_write
                              THEN {"TemperatureSensor"} ELSE {}),
   noTime |-> FALSE, bif |-> <<>>, triggers |-> Triggers(Top.ev.bif, S), blocks |-> S,
   temps |-> temperaturecollection_write /\ Top.temps]

\* Mutant: the loop steps one bunch crossing too far.
TakenTwice(f, b) ==
  LET rest == f.todo \ Slice(f.todo, b) IN
    [f EXCEPT !.at = "call", !.todo = {p \in rest : \E q \in rest : q.bx < p.bx},
              !.temps = f.temps /\ ~ temperaturecollection_write]

\* What its making leaves of rData and rTemp.
Taken(f, b) == [f EXCEPT !.at = "call", !.todo = f.todo \ Slice(f.todo, b),
                         !.temps = f.temps /\ ~ temperaturecollection_write]

\* The lowest BXID left: its event is built and handed to Marlin, whose nested
\* call enters the builder again.
BuildNext ==
  /\ At("loop")
  /\ depth < MaxDepth
  /\ \E p \in Top.todo :
       /\ Lowest(Top.todo, p)
       /\ frame' = [frame EXCEPT ![depth] = Taken(Top, p.bx),
                                 ![depth + 1] = Enter(Built(Slice(Top.todo, p.bx)))]
  /\ LcioEventNr' = LcioEventNr + 1
  /\ temperaturecollection_write' = FALSE
  /\ depth' = depth + 1
  /\ UNCHANGED <<cycles, raw, counters, freed, running, seen>>

\* The nested call is over: delete evt_new, and with it the collections it
\* holds; the loop goes on.
DeleteBuilt ==
  /\ At("call")
  /\ frame' = [frame EXCEPT ![depth].at = "loop"]
  /\ freed' = IF Variant = "hodo2016" THEN freed \cup {depth} ELSE freed
  /\ UNCHANGED <<cycles, raw, depth, LcioEventNr, counters,
                 temperaturecollection_write, running, seen>>

\* Mutants: processEvent returns at its end instead of throwing; the loop is
\* left before rData is used up.
EndLoopReturns ==
  /\ At("loop")
  /\ Top.todo = {}
  /\ frame' = [frame EXCEPT ![depth].at = "down"]
  /\ UNCHANGED <<cycles, raw, depth, LcioEventNr, counters,
                 temperaturecollection_write, freed, running, seen>>
EndLoopBreaks ==
  /\ At("loop")
  /\ Pop
  /\ UNCHANGED <<cycles, raw, LcioEventNr, counters,
                 temperaturecollection_write, freed, running, seen>>

\* rData is used up: the raw event ends here, by SkipEventException.
EndLoop ==
  /\ At("loop")
  /\ Top.todo = {}
  /\ Pop
  /\ UNCHANGED <<cycles, raw, LcioEventNr, counters,
                 temperaturecollection_write, freed, running, seen>>

\* The processors behind the builder get the event and the call returns.
Downstream ==
  /\ At("down")
  /\ seen' = seen \cup {Top.ev}
  /\ Pop
  /\ UNCHANGED <<cycles, raw, LcioEventNr, counters,
                 temperaturecollection_write, freed, running>>

\* An active evt_new holds a hodoscope collection that was deleted with an
\* earlier one.
Dangling == \E d \in 1 .. depth : frame[d].at = "call" /\ d \in freed

\* To read or to delete it again is undefined: the job may go on or die.
Crash ==
  /\ running
  /\ Dangling
  /\ running' = FALSE
  /\ UNCHANGED <<cycles, raw, depth, frame, LcioEventNr, counters,
                 temperaturecollection_write, freed, seen>>

Run == \/ ReturnEarly \/ SkipEarly \/ FillMaps \/ BuildNext
       \/ DeleteBuilt \/ EndLoop \/ Downstream

Next == Run \/ ReadEvent \/ Crash

Spec == Init /\ [][Next]_vars
\* Marlin runs the chain in one thread: a call that can go on does. Nothing
\* obliges Marlin to read another event.
FairSpec == Spec /\ WF_vars(Run)

--------------------------------------------------------------------------------
(* Properties.                                                              *)

\* The variables and the call stack have their types, and every frame below
\* the top is inside a nested call (processEvent is entered from the builder
\* only).
TypeOK ==
  /\ cycles \in 0 .. MaxCycles
  /\ raw \in RawEvents \cup {NoEvent}
  /\ depth \in 0 .. MaxDepth
  /\ frame \in [1 .. MaxDepth -> Frame]
  /\ \A d \in 1 .. MaxDepth :
       /\ d < depth => frame[d].at = "call"
       /\ d = depth => frame[d].at # "none"
       /\ d > depth => frame[d] = NoFrame
  /\ LcioEventNr \in Nat
  /\ all_events \in Nat
  /\ discarded_events \in 0 .. all_events
  /\ temperaturecollection_write \in BOOLEAN
  /\ freed \subseteq 1 .. MaxDepth
  /\ running \in BOOLEAN
  /\ seen \subseteq Event

IsBuilt(e) == OutNames \subseteq e.names
\* The events built from the present raw event: those the chain is through
\* with and the one it has in hand.
HandedOut == {e \in seen \cup {frame[d].ev : d \in 1 .. depth} : IsBuilt(e)}
\* The builder is past the checks of the raw event / has finished with it.
Splitting == depth > 0 /\ frame[1].at \in {"loop", "call"}
SplitUp == depth = 0 /\ ~ Missing(raw) /\ ~ Skips(raw)
Left == IF Splitting THEN frame[1].todo ELSE {}

\* Every block the quality check accepts is in exactly one event, an event has
\* the blocks of one bunch crossing and all of them, and none is left when the
\* raw event is done (the loop over rData, EUDAQEventBuilder2016.cc:391-550):
\* re-entering the builder on its own events neither loses nor repeats a block.
ExactlyOnce ==
  /\ Splitting \/ SplitUp =>
       Accepted(raw) = Left \cup UNION {e.blocks : e \in HandedOut}
  /\ \A e \in HandedOut :
       \A p \in e.blocks : e.blocks = Slice(Accepted(raw), p.bx) /\ p \notin Left
  /\ \A e, f \in HandedOut : e.blocks \cap f.blocks # {} => e = f

\* The processors behind the builder get a readout cycle either as it is in the
\* file or as its built events, never both: SkipEventException ends the raw
\* event exactly when events were built from it.
NeverBoth ==
  \A e, f \in seen \cup {frame[d].ev : d \in {c \in 1 .. depth : frame[c].at = "down"}} :
    IsBuilt(e) <=> IsBuilt(f)

\* The builder entered again on its own event always lets it pass: the nesting
\* is never deeper than the raw event and one built event.
NestingBound ==
  /\ depth <= 2
  /\ depth = 2 => Missing(frame[2].ev) /\ ~ Skips(frame[2].ev)

\* Event numbers follow the bunch crossings within a readout cycle, and no
\* number is ahead of the counter.
NumberedInOrder ==
  \A e, f \in HandedOut :
    /\ e.nr <= LcioEventNr
    /\ \A p \in e.blocks, q \in f.blocks : p.bx < q.bx <=> e.nr < f.nr

\* The temperatures of a readout cycle are attached to its first built event
\* and to no other; the collection is announced only where there are
\* temperatures in it, whatever the flag was left at by an earlier cycle.
TemperatureOnce ==
  \A e \in HandedOut :
    /\ e.temps <=> raw.temps /\ \A p \in e.blocks, q \in Accepted(raw) : p.bx <= q.bx
    /\ e.temps <=> "TemperatureSensor" \in e.names

\* The quality check counts a block once: re-entering the builder on a built
\* event, or losing the cycle later for its BIF, never counts it again.
CountedOnce ==
  [][ all_events' # all_events =>
        /\ depth = 1
        /\ frame[1].ev = raw
        /\ all_events' = all_events + Cardinality(raw.blocks)
        /\ discarded_events' - discarded_events <= all_events' - all_events ]_vars

\* A trigger goes to the event of the crossing it fell in, with the time since
\* the crossing began, and to no other (processEvent computes the crossing for
\* every event again: unsigned difference, cast, division).  It holds from the
\* first crossing on, as long as an int holds the ticks since.
TriggersInTheirCrossing ==
  LET last == Last(raw.bif)
      since(t) == ((t - last.start) % Wide) - BIF_offset
  IN  /\ \A e \in HandedOut, p \in Accepted(raw), t \in last.triggers :
           p \in e.blocks /\ since(t) \in 0 .. ((Narrow - 1) \div 2) =>
             ( [stamp |-> t, time |-> since(t) % BIF_BINNING] \in e.triggers
                 <=> p.bx = since(t) \div BIF_BINNING )
      /\ \A e, f \in HandedOut : \A x \in e.triggers, y \in f.triggers :
           x.stamp = y.stamp => e = f

\* As the description of the offset has it (EUDAQEventBuilder2016.cc:82-85):
\* it lies "between start acquisition and first BXID", so no trigger before it
\* is in a crossing.
NoneBeforeFirstCrossing ==
  \A e \in HandedOut, x \in BIFBlock :
    x \in e.triggers => (x.stamp - Last(raw.bif).start) % Wide >= BIF_offset

\* No active event holds a deleted collection: "we created the event so we need
\* to delete it" (EUDAQEventBuilder2016_woBIF.cc:398-400).
NoDangling == ~ Dangling

\* Marlin gets its event back: every processEvent ends, nested ones included.
EveryEventEnds == depth > 0 ~> depth = 0

\* As the comments of the three builders have it (EUDAQEventBuilder.cc:223,
\* EUDAQEventBuilder2016.cc:388, EUDAQEventBuilder2016_woBIF.cc:326): "add it to
\* the last event of the readoutcycle".
TemperatureOnLast ==
  \A e \in HandedOut :
    e.temps => \A p \in e.blocks, q \in Accepted(raw) : q.bx <= p.bx

\* As the comment on the quality check has it (EUDAQEventBuilder2016.cc:170-173):
\* "we do not save the event (all information of all chips in the same BXID)".
BadCrossingNotSaved ==
  \A e \in HandedOut : \A p \in e.blocks : \A q \in raw.blocks : q.bx = p.bx => q.ok

\* The builder keeps the promise of CycleSplitter: filling rData takes a cycle
\* in, handing an event to Marlin puts it out.
Splitter == INSTANCE CycleSplitter
  WITH pool <- Left,
       out <- {[nr |-> e.nr, blocks |-> e.blocks] : e \in HandedOut},
       nr <- LcioEventNr

ImplementsSplitter == Splitter!FairSpec

================================================================================
