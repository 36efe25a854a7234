----------------------- MODULE EUDAQEventBuilder_proofs -----------------------
(***************************************************************************)
(* What holds of the event builders for every set of bunch crossings and   *)
(* chips, every naming of the collections that meets NameAssumption and    *)
(* every number of readout cycles: what is delivered, numbered, counted    *)
(* and attached to an event, how the calls nest and that they end, and for *)
(* which events the collections attached can be gone.                      *)
(***************************************************************************)
EXTENDS EUDAQEventBuilder, FiniteSetTheorems, WellFoundedInduction, TLAPS

\* The blocks of an event are finitely many, and so are those refused.
LEMMA CountingBlocks ==
  ASSUME NEW S \in SUBSET Block, NEW T \in SUBSET S
  PROVE  /\ Cardinality(S) \in Nat
         /\ Cardinality(T) \in Nat
         /\ Cardinality(T) <= Cardinality(S)
<1>1. IsFiniteSet(S) BY BlockAssumption, FS_Subset
<1>2. IsFiniteSet(T) /\ Cardinality(T) <= Cardinality(S) BY <1>1, FS_Subset
<1> QED BY <1>1, <1>2, FS_CardinalityType

\* Raw events are events.
LEMMA RawIsEvent == RawEvents \cup {NoEvent} \subseteq Event
<1>1. NoEvent \in Event BY DEF NoEvent, Event
<1>2. ASSUME NEW e \in RawEvents PROVE e \in Event
  <2>1. e \in [nr : {0}, names : SUBSET RawNames, noTime : BOOLEAN,
               bif : BifCollections \cup {<<>>}, triggers : {{}},
               blocks : {S \in SUBSET Block : OneBlockPerCell(S)}, temps : BOOLEAN]
    BY DEF RawEvents
  <2>2. {} \in SUBSET BIFBlock OBVIOUS
  <2> QED BY <2>1, <2>2 DEF Event
<1> QED BY <1>1, <1>2

\* The blocks of an event that pass the quality check are blocks of it.
LEMMA AcceptedBlocks ==
  ASSUME NEW e \in Event
  PROVE  Accepted(e) \subseteq e.blocks /\ Accepted(e) \in SUBSET Block
BY DEF Accepted, Event

\* The counters stay counters, and what is refused was looked at.
LEMMA CountTypes ==
  ASSUME NEW e \in Event, Count(e),
         all_events \in Nat, discarded_events \in 0 .. all_events
  PROVE  all_events' \in Nat /\ discarded_events' \in 0 .. all_events'
<1> DEFINE looked == Cardinality(e.blocks)
           refused == Cardinality(e.blocks \ Accepted(e))
<1>1. looked \in Nat /\ refused \in Nat /\ refused <= looked
  BY CountingBlocks DEF Event
<1>2. \/ all_events' = all_events + looked
         /\ discarded_events' = discarded_events + refused
      \/ all_events' = all_events /\ discarded_events' = discarded_events
  BY DEF Count, counters
<1> HIDE DEF looked, refused
<1> QED BY <1>1, <1>2

\* The frames of the call stack are well formed: below the top every frame is in
\* a nested call, above it there is none.
Stacked ==
  /\ frame \in [1 .. MaxDepth -> Frame]
  /\ \A d \in 1 .. MaxDepth :
       /\ d < depth => frame[d].at = "call"
       /\ d = depth => frame[d].at # "none"
       /\ d > depth => frame[d] = NoFrame

LEMMA NoFrameIsFrame == NoFrame \in Frame
BY RawIsEvent DEF NoFrame, Frame

LEMMA FrameTypes ==
  ASSUME TypeOK
  PROVE  /\ NoFrame \in Frame
         /\ \A e \in Event : Enter(e) \in Frame
         /\ depth > 0 => depth \in 1 .. MaxDepth /\ Top \in Frame /\ Top.ev \in Event
<1>1. NoFrame \in Frame BY NoFrameIsFrame
<1>2. \A e \in Event : Enter(e) \in Frame BY DEF Enter, Frame
<1>3. depth > 0 => depth \in 1 .. MaxDepth /\ Top \in Frame /\ Top.ev \in Event
  BY BoundAssumption DEF TypeOK, Top, Frame
<1> QED BY <1>1, <1>2, <1>3

\* Leaving a call keeps the stack well formed.
LEMMA PopStacked ==
  ASSUME TypeOK, depth > 0, Pop
  PROVE  Stacked' /\ depth' \in 0 .. MaxDepth
<1>1. depth' = depth - 1 /\ depth' \in 0 .. MaxDepth
  BY BoundAssumption DEF TypeOK, Pop
<1>2. frame' \in [1 .. MaxDepth -> Frame]
  BY FrameTypes DEF TypeOK, Pop
<1>3. ASSUME NEW d \in 1 .. MaxDepth
      PROVE  /\ d < depth' => frame'[d].at = "call"
             /\ d = depth' => frame'[d].at # "none"
             /\ d > depth' => frame'[d] = NoFrame
  <2>1. depth \in 1 .. MaxDepth /\ depth \in Nat BY FrameTypes, BoundAssumption DEF TypeOK
  <2>2. CASE d = depth
    BY <1>1, <2>1, <2>2 DEF TypeOK, Pop
  <2>3. CASE d # depth
    <3>1. frame'[d] = frame[d] BY <2>3 DEF TypeOK, Pop
    <3>2. d = depth' => d < depth BY <1>1, <2>1
    <3>3. d < depth' => d < depth BY <1>1, <2>1
    <3>4. d > depth' => d > depth BY <1>1, <2>1, <2>3
    <3> QED BY <3>1, <3>2, <3>3, <3>4 DEF TypeOK
  <2> QED BY <2>2, <2>3
<1> QED BY <1>1, <1>2, <1>3 DEF Stacked

\* Changing the frame on top, without ending it, keeps the stack well formed.
LEMMA ReplaceStacked ==
  ASSUME TypeOK, depth > 0, depth' = depth,
         NEW f \in Frame, f.at # "none", frame' = [frame EXCEPT ![depth] = f]
  PROVE  Stacked'
<1>1. depth \in 1 .. MaxDepth BY FrameTypes
<1>2. frame' \in [1 .. MaxDepth -> Frame] BY <1>1 DEF TypeOK
<1>3. \A d \in 1 .. MaxDepth : frame'[d] = IF d = depth THEN f ELSE frame[d]
  BY <1>1 DEF TypeOK
<1> QED BY <1>1, <1>2, <1>3 DEF Stacked, TypeOK

--------------------------------------------------------------------------------
(* Type correctness.                                                        *)

\* The part of TypeOK about the variables other than the stack.
Scalars ==
  /\ cycles \in 0 .. MaxCycles
  /\ raw \in RawEvents \cup {NoEvent}
  /\ depth \in 0 .. MaxDepth
  /\ LcioEventNr \in Nat
  /\ all_events \in Nat
  /\ discarded_events \in 0 .. all_events
  /\ temperaturecollection_write \in BOOLEAN
  /\ freed \subseteq 1 .. MaxDepth
  /\ running \in BOOLEAN
  /\ seen \subseteq Event

LEMMA TypeInit == Init => TypeOK
<1> SUFFICES ASSUME Init PROVE TypeOK
  OBVIOUS
<1>1. frame = [d \in 1 .. MaxDepth |-> NoFrame] /\ depth = 0 BY DEF Init
<1>2. Stacked BY <1>1, NoFrameIsFrame, BoundAssumption DEF Stacked
<1>3. temperaturecollection_write \in BOOLEAN /\ running \in BOOLEAN BY DEF Init
<1>4. /\ cycles \in 0 .. MaxCycles /\ depth \in 0 .. MaxDepth /\ LcioEventNr \in Nat
      /\ all_events \in Nat /\ discarded_events \in 0 .. all_events
  BY BoundAssumption DEF Init
<1>5. Scalars BY <1>3, <1>4 DEF Init, Scalars
<1> QED BY <1>2, <1>5 DEF TypeOK, Scalars, Stacked

LEMMA NoteTypes ==
  ASSUME TypeOK, NEW e \in Event, NoteTemperature(e)
  PROVE  temperaturecollection_write' \in BOOLEAN
<1>1. CASE Parsed(e)
  <2>1. temperaturecollection_write' = ("TempIn" \in e.names)
    BY <1>1 DEF NoteTemperature
  <2> QED BY <2>1
<1>2. CASE ~ Parsed(e)
  <2>1. temperaturecollection_write' =
          (temperaturecollection_write /\ Variant # "bif2016")
    BY <1>2 DEF NoteTemperature
  <2> QED BY <2>1
<1> QED BY <1>1, <1>2

LEMMA TypeReadEvent == TypeOK /\ ReadEvent => TypeOK'
<1> SUFFICES ASSUME TypeOK, ReadEvent PROVE TypeOK'
  OBVIOUS
<1>1. PICK e \in RawEvents : raw' = e /\ frame' = [frame EXCEPT ![1] = Enter(e)]
  BY DEF ReadEvent
<1>2. e \in Event /\ Enter(e) \in Frame /\ Enter(e).at = "builder"
  BY RawIsEvent, FrameTypes DEF Enter
<1>3. 1 \in 1 .. MaxDepth /\ depth' = 1 /\ depth = 0
  BY BoundAssumption DEF ReadEvent
<1>4. \A d \in 1 .. MaxDepth : frame'[d] = IF d = 1 THEN Enter(e) ELSE NoFrame
  BY <1>1, <1>3 DEF TypeOK
<1>5. Stacked'
  <2>1. frame' \in [1 .. MaxDepth -> Frame] BY <1>1, <1>2 DEF TypeOK
  <2> QED BY <1>2, <1>3, <1>4, <2>1 DEF Stacked
<1>6. Scalars'
  BY <1>1, <1>3, BoundAssumption DEF ReadEvent, TypeOK, Scalars, counters
<1> QED BY <1>5, <1>6 DEF TypeOK, Scalars, Stacked

LEMMA TypeReturnEarly == TypeOK /\ ReturnEarly => TypeOK'
<1> SUFFICES ASSUME TypeOK, ReturnEarly PROVE TypeOK'
  OBVIOUS
<1>1. depth > 0 /\ depth' = depth /\ depth \in 1 .. MaxDepth /\ Top \in Frame /\ Top.ev \in Event
  BY FrameTypes DEF ReturnEarly, At
<1>2. Stacked'
  <2> DEFINE f == [Top EXCEPT !.at = "down"]
  <2>1. f \in Frame /\ f.at # "none" BY <1>1 DEF Frame
  <2>2. frame' = [frame EXCEPT ![depth] = f] BY DEF ReturnEarly, Top
  <2> HIDE DEF f
  <2> QED BY <1>1, <2>1, <2>2, ReplaceStacked
<1>3. Scalars'
  <2>1. Count(Top.ev) /\ NoteTemperature(Top.ev) BY DEF ReturnEarly
  <2>2. all_events' \in Nat /\ discarded_events' \in 0 .. all_events'
    BY <1>1, <2>1, CountTypes DEF TypeOK
  <2>3. temperaturecollection_write' \in BOOLEAN BY <1>1, <2>1, NoteTypes
  <2> QED BY <2>2, <2>3 DEF ReturnEarly, TypeOK, Scalars
<1> QED BY <1>2, <1>3 DEF TypeOK, Scalars, Stacked

LEMMA TypeSkipEarly == TypeOK /\ SkipEarly => TypeOK'
<1> SUFFICES ASSUME TypeOK, SkipEarly PROVE TypeOK'
  OBVIOUS
<1>1. depth > 0 /\ Top.ev \in Event BY FrameTypes DEF SkipEarly, At
<1>2. Stacked' /\ depth' \in 0 .. MaxDepth BY <1>1, PopStacked DEF SkipEarly
<1>3. Scalars'
  <2>1. Count(Top.ev) /\ NoteTemperature(Top.ev) BY DEF SkipEarly
  <2>2. all_events' \in Nat /\ discarded_events' \in 0 .. all_events'
    BY <1>1, <2>1, CountTypes DEF TypeOK
  <2>3. temperaturecollection_write' \in BOOLEAN BY <1>1, <2>1, NoteTypes
  <2> QED BY <1>2, <2>2, <2>3 DEF SkipEarly, TypeOK, Scalars
<1> QED BY <1>2, <1>3 DEF TypeOK, Scalars, Stacked

\* A frame the builder has filled, or taken a slice from, is a frame.
LEMMA FilledTypes ==
  ASSUME NEW f \in Frame
  PROVE  Filled(f) \in Frame /\ Filled(f).at = "loop"
<1>1. Accepted(f.ev) \in SUBSET Block BY AcceptedBlocks DEF Frame
<1> DEFINE t == "TempIn" \in f.ev.names
<1>2. t \in BOOLEAN OBVIOUS
<1> HIDE DEF t
<1>3. [f EXCEPT !.at = "loop", !.todo = Accepted(f.ev), !.temps = t] \in Frame
  BY <1>1, <1>2 DEF Frame
<1>4. Filled(f) = [f EXCEPT !.at = "loop", !.todo = Accepted(f.ev), !.temps = t]
  BY DEF Filled, t
<1> QED BY <1>3, <1>4 DEF Frame

LEMMA TakenTypes ==
  ASSUME NEW f \in Frame, NEW b
  PROVE  Taken(f, b) \in Frame /\ Taken(f, b).at = "call"
<1> DEFINE t == f.temps /\ ~ temperaturecollection_write
<1>1. t \in BOOLEAN OBVIOUS
<1> HIDE DEF t
<1>2. [f EXCEPT !.at = "call", !.todo = f.todo \ Slice(f.todo, b), !.temps = t] \in Frame
  BY <1>1 DEF Frame
<1>3. Taken(f, b) = [f EXCEPT !.at = "call", !.todo = f.todo \ Slice(f.todo, b), !.temps = t]
  BY DEF Taken, t
<1> QED BY <1>2, <1>3 DEF Frame

LEMMA TypeFillMaps == TypeOK /\ FillMaps => TypeOK'
<1> SUFFICES ASSUME TypeOK, FillMaps PROVE TypeOK'
  OBVIOUS
<1>1. depth > 0 /\ depth' = depth /\ depth \in 1 .. MaxDepth /\ Top \in Frame /\ Top.ev \in Event
  BY FrameTypes DEF FillMaps, At
<1>2. Stacked'
  <2>1. Filled(Top) \in Frame /\ Filled(Top).at # "none" BY <1>1, FilledTypes
  <2>2. frame' = [frame EXCEPT ![depth] = Filled(Top)] BY DEF FillMaps
  <2> QED BY <1>1, <2>1, <2>2, ReplaceStacked
<1>3. Scalars'
  <2>1. Count(Top.ev) /\ NoteTemperature(Top.ev) BY DEF FillMaps
  <2>2. all_events' \in Nat /\ discarded_events' \in 0 .. all_events'
    BY <1>1, <2>1, CountTypes DEF TypeOK
  <2>3. temperaturecollection_write' \in BOOLEAN BY <1>1, <2>1, NoteTypes
  <2> QED BY <2>2, <2>3 DEF FillMaps, TypeOK, Scalars
<1> QED BY <1>2, <1>3 DEF TypeOK, Scalars, Stacked

\* Whatever the time stamps are, the time in a crossing is one.
LEMMA TriggersTypes ==
  ASSUME NEW bif \in BifCollections \cup {<<>>}, NEW S
  PROVE  Triggers(bif, S) \subseteq BIFBlock
<1>1. Last(bif).start \in Nat /\ Last(bif).triggers \subseteq Stamp
  <2>1. CASE bif = <<>> BY <2>1 DEF Last
  <2>2. CASE bif # <<>>
    <3>1. bif \in Seq(BifElement) BY <2>2, BifAssumption
    <3>2. bif[Len(bif)] \in BifElement BY <2>2, <3>1
    <3> QED BY <2>2, <3>2, BifAssumption DEF Last, BifElement, Stamp
  <2> QED BY <2>1, <2>2
<1>2. ASSUME NEW t \in Stamp
      PROVE  Since(Last(bif).start, t) % BIF_BINNING \in 0 .. (BIF_BINNING - 1)
  <2>1. Since(Last(bif).start, t) \in Int
    BY <1>1, BifAssumption DEF Since, Stamp
  <2> QED BY <2>1, BifAssumption
<1> QED BY <1>1, <1>2 DEF Triggers, BIFBlock

\* The event built from a slice of rData is an event.
LEMMA BuiltIsEvent ==
  ASSUME TypeOK, Top \in Frame, NEW S \in SUBSET Block
  PROVE  Built(S) \in Event
<1>1. Top.ev.bif \in BifCollections \cup {<<>>} BY DEF Frame, Event
<1>2. Triggers(Top.ev.bif, S) \subseteq BIFBlock BY <1>1, TriggersTypes
<1> QED BY <1>2 DEF Built, Event, TypeOK, Frame

LEMMA TypeBuildNext == TypeOK /\ BuildNext => TypeOK'
<1> SUFFICES ASSUME TypeOK, BuildNext PROVE TypeOK'
  OBVIOUS
<1>1. /\ depth \in 1 .. MaxDepth /\ Top \in Frame
      /\ depth + 1 \in 1 .. MaxDepth /\ depth' = depth + 1
  BY FrameTypes, BoundAssumption DEF BuildNext, At, TypeOK
<1>2. PICK p \in Top.todo :
        frame' = [frame EXCEPT ![depth] = Taken(Top, p.bx),
                               ![depth + 1] = Enter(Built(Slice(Top.todo, p.bx)))]
  BY DEF BuildNext
<1> DEFINE f == Taken(Top, p.bx)
           g == Enter(Built(Slice(Top.todo, p.bx)))
<1>3. f \in Frame /\ f.at = "call" BY <1>1, TakenTypes
<1>4. g \in Frame /\ g.at = "builder"
  <2>1. Slice(Top.todo, p.bx) \in SUBSET Block BY <1>1 DEF Slice, Frame
  <2> QED BY <1>1, <2>1, BuiltIsEvent, FrameTypes DEF Enter
<1>5. frame' = [frame EXCEPT ![depth] = f, ![depth + 1] = g] BY <1>2
<1> HIDE DEF f, g
<1>6. Stacked'
  <2>1. frame' \in [1 .. MaxDepth -> Frame] BY <1>3, <1>4, <1>5 DEF TypeOK
  <2>2. \A d \in 1 .. MaxDepth :
          frame'[d] = IF d = depth + 1 THEN g ELSE IF d = depth THEN f ELSE frame[d]
    BY <1>1, <1>5 DEF TypeOK
  <2> QED BY <1>1, <1>3, <1>4, <2>1, <2>2 DEF Stacked, TypeOK
<1>7. temperaturecollection_write' \in BOOLEAN BY DEF BuildNext
<1>8. Scalars' BY <1>1, <1>7, BoundAssumption DEF BuildNext, TypeOK, Scalars, counters
<1> QED BY <1>6, <1>8 DEF TypeOK, Scalars, Stacked

LEMMA TypeDeleteBuilt == TypeOK /\ DeleteBuilt => TypeOK'
<1> SUFFICES ASSUME TypeOK, DeleteBuilt PROVE TypeOK'
  OBVIOUS
<1>1. depth > 0 /\ depth' = depth /\ depth \in 1 .. MaxDepth /\ Top \in Frame
  BY FrameTypes DEF DeleteBuilt, At
<1>2. Stacked'
  <2> DEFINE f == [Top EXCEPT !.at = "loop"]
  <2>1. f \in Frame /\ f.at # "none" BY <1>1 DEF Frame
  <2>2. frame' = [frame EXCEPT ![depth] = f] BY DEF DeleteBuilt, Top
  <2> HIDE DEF f
  <2> QED BY <1>1, <2>1, <2>2, ReplaceStacked
<1>3. Scalars' BY <1>1 DEF DeleteBuilt, TypeOK, Scalars, counters
<1> QED BY <1>2, <1>3 DEF TypeOK, Scalars, Stacked

LEMMA TypeEndLoop == TypeOK /\ EndLoop => TypeOK'
<1> SUFFICES ASSUME TypeOK, EndLoop PROVE TypeOK'
  OBVIOUS
<1>1. Stacked' /\ depth' \in 0 .. MaxDepth BY PopStacked DEF EndLoop, At
<1>2. Scalars' BY <1>1 DEF EndLoop, TypeOK, Scalars, counters
<1> QED BY <1>1, <1>2 DEF TypeOK, Scalars, Stacked

LEMMA TypeDownstream == TypeOK /\ Downstream => TypeOK'
<1> SUFFICES ASSUME TypeOK, Downstream PROVE TypeOK'
  OBVIOUS
<1>1. Stacked' /\ depth' \in 0 .. MaxDepth BY PopStacked DEF Downstream, At
<1>2. Top.ev \in Event BY FrameTypes DEF Downstream, At
<1>3. Scalars' BY <1>1, <1>2 DEF Downstream, TypeOK, Scalars, counters
<1> QED BY <1>1, <1>3 DEF TypeOK, Scalars, Stacked

LEMMA TypeCrash == TypeOK /\ Crash => TypeOK'
BY DEF Crash, TypeOK, counters

LEMMA TypeNext == TypeOK /\ [Next]_vars => TypeOK'
<1> SUFFICES ASSUME TypeOK, [Next]_vars PROVE TypeOK'
  OBVIOUS
<1>1. CASE ReadEvent BY <1>1, TypeReadEvent
<1>2. CASE ReturnEarly BY <1>2, TypeReturnEarly
<1>3. CASE SkipEarly BY <1>3, TypeSkipEarly
<1>4. CASE FillMaps BY <1>4, TypeFillMaps
<1>5. CASE BuildNext BY <1>5, TypeBuildNext
<1>6. CASE DeleteBuilt BY <1>6, TypeDeleteBuilt
<1>7. CASE EndLoop BY <1>7, TypeEndLoop
<1>8. CASE Downstream BY <1>8, TypeDownstream
<1>9. CASE Crash BY <1>9, TypeCrash
<1>10. CASE UNCHANGED vars BY <1>10 DEF vars, counters, TypeOK
<1> QED BY <1>1, <1>2, <1>3, <1>4, <1>5, <1>6, <1>7, <1>8, <1>9, <1>10 DEF Next, Run

\* The variables keep their types and the call stack its shape, for every naming
\* of the collections and any number of cycles (the members and locals of the
\* builders' processEvent).
THEOREM TypeCorrect == Spec => []TypeOK
BY TypeInit, TypeNext, PTL DEF Spec

--------------------------------------------------------------------------------
(* The inductive invariant: what the call stack looks like while a readout   *)
(* cycle is split up.                                                       *)

Nesting ==
  /\ depth <= 2
  /\ depth > 0 => raw \in RawEvents /\ frame[1].ev = raw
  /\ depth = 2 => /\ frame[2].at \in {"builder", "down"}
                  /\ IsBuilt(frame[2].ev)
                  /\ InName \notin frame[2].ev.names
                  /\ ~ frame[2].ev.noTime
  /\ Splitting => ~ Missing(raw) /\ ~ Skips(raw)
  /\ depth > 0 /\ ~ Splitting => depth = 1 /\ seen = {}
  /\ depth = 1 /\ frame[1].at = "down" => Missing(raw)
  /\ Splitting \/ SplitUp => \A e \in seen : IsBuilt(e)
  /\ depth = 0 /\ ~ SplitUp => \A e \in seen : ~ IsBuilt(e)

\* What the builder has handed out and has left, place by place.
Views ==
  /\ depth = 0 => HandedOut = {e \in seen : IsBuilt(e)} /\ Left = {} /\ ~ Splitting
  /\ depth = 1 /\ ~ Splitting => HandedOut = {} /\ Left = {}
  /\ depth = 1 /\ Splitting => HandedOut = seen /\ Left = frame[1].todo
  /\ depth = 2 => /\ Splitting
                  /\ HandedOut = seen \cup {frame[2].ev}
                  /\ Left = frame[1].todo
  /\ depth \in {0, 1, 2}

\* A raw event is not taken for a built one.
LEMMA RawNotBuilt == \A e \in RawEvents \cup {NoEvent} : ~ IsBuilt(e)
<1> SUFFICES ASSUME NEW e \in RawEvents \cup {NoEvent} PROVE ~ IsBuilt(e)
  OBVIOUS
<1>1. e.names \subseteq RawNames
  BY DEF RawEvents, NoEvent
<1> QED BY <1>1, NameAssumption DEF IsBuilt

\* The builder lets an event without the raw data collection pass.
LEMMA BuiltPasses ==
  ASSUME NEW e, InName \notin e.names, ~ e.noTime
  PROVE  Missing(e) /\ ~ Skips(e) /\ ~ Parsed(e)
<1>1. Missing(e) /\ ~ Parsed(e) BY DEF Missing, Parsed, Needed, DataNames
<1> QED BY <1>1 DEF Skips

LEMMA NestingViews == TypeOK /\ Nesting => Views
<1> SUFFICES ASSUME TypeOK, Nesting PROVE Views
  OBVIOUS
<1>1. depth \in {0, 1, 2} BY BoundAssumption DEF TypeOK, Nesting
<1>2. depth > 0 => ~ IsBuilt(frame[1].ev) BY RawNotBuilt DEF Nesting
<1>3. CASE depth = 0
  <2>1. {frame[d].ev : d \in 1 .. depth} = {} BY <1>3
  <2> QED BY <1>3, <2>1 DEF Views, HandedOut, Left, Splitting
<1>4. CASE depth = 1
  <2>1. {frame[d].ev : d \in 1 .. depth} = {frame[1].ev} BY <1>4
  <2>2. CASE Splitting BY <1>2, <1>4, <2>1, <2>2 DEF Views, HandedOut, Left, Nesting
  <2>3. CASE ~ Splitting BY <1>2, <1>4, <2>1, <2>3 DEF Views, HandedOut, Left, Nesting
  <2> QED BY <2>2, <2>3
<1>5. CASE depth = 2
  <2>1. {frame[d].ev : d \in 1 .. depth} = {frame[1].ev, frame[2].ev}
    <3>1. 1 .. depth = {1, 2} BY <1>5
    <3> QED BY <3>1
  <2>2. Splitting BY <1>5, BoundAssumption DEF Splitting, TypeOK
  <2> QED BY <1>2, <1>5, <2>1, <2>2 DEF Views, HandedOut, Left, Nesting
<1> QED BY <1>1, <1>3, <1>4, <1>5

LEMMA NestingViewsNext == TypeOK' /\ Nesting' => Views'
BY NestingViews, PTL

LEMMA NestingInit == Init => Nesting
<1> SUFFICES ASSUME Init PROVE Nesting
  OBVIOUS
<1>1. depth = 0 /\ seen = {} /\ raw = NoEvent BY DEF Init
<1> QED BY <1>1 DEF Nesting, Splitting

(* What one step does to the stack, and to what is handed out and left.     *)

LEMMA StepReadEvent ==
  ASSUME TypeOK, TypeOK', Nesting, ReadEvent
  PROVE  /\ Nesting' /\ ~ (Splitting \/ SplitUp)'
         /\ Left = {} /\ Left' = {} /\ HandedOut' = {} /\ LcioEventNr' = LcioEventNr
<1>1. PICK e \in RawEvents : raw' = e /\ frame' = [frame EXCEPT ![1] = Enter(e)]
  BY DEF ReadEvent
<1>2. depth = 0 /\ depth' = 1 /\ seen' = {} BY DEF ReadEvent
<1>3. frame'[1] = Enter(e) BY <1>1, BoundAssumption DEF TypeOK
<1>4. frame'[1].ev = raw' /\ frame'[1].at = "builder" BY <1>1, <1>3 DEF Enter
<1>5. ~ Splitting' /\ ~ SplitUp' BY <1>2, <1>4 DEF Splitting, SplitUp
<1>6. Nesting' BY <1>1, <1>2, <1>4, <1>5 DEF Nesting
<1>7. Views /\ Views' BY <1>6, NestingViews, NestingViewsNext
<1> QED BY <1>2, <1>5, <1>6, <1>7 DEF Views, ReadEvent

LEMMA StepReturnEarly ==
  ASSUME TypeOK, TypeOK', Nesting, ReturnEarly
  PROVE  /\ Nesting' /\ (Splitting \/ SplitUp)' = (Splitting \/ SplitUp) /\ raw' = raw
         /\ Left' = Left /\ HandedOut' = HandedOut /\ LcioEventNr' = LcioEventNr
<1>1. /\ depth' = depth /\ seen' = seen /\ raw' = raw /\ depth > 0
      /\ frame' = [frame EXCEPT ![depth].at = "down"]
      /\ frame[depth].at = "builder" /\ Missing(frame[depth].ev)
  BY DEF ReturnEarly, At, Top
<1>2. Views BY NestingViews
<1>3. CASE depth = 1
  <2>1. frame'[1] = [frame[1] EXCEPT !.at = "down"]
    BY <1>1, <1>3, BoundAssumption DEF TypeOK
  <2>2. frame'[1].ev = frame[1].ev /\ frame'[1].at = "down"
    BY <2>1, FrameTypes, <1>3 DEF Frame, Top
  <2>3. ~ Splitting /\ ~ Splitting' /\ ~ SplitUp /\ ~ SplitUp'
    BY <1>1, <1>3, <2>2 DEF Splitting, SplitUp
  <2>4. Nesting' BY <1>1, <1>3, <2>2, <2>3 DEF Nesting
  <2>5. Views' BY <2>4, NestingViewsNext
  <2> QED BY <1>1, <1>2, <1>3, <2>3, <2>4, <2>5 DEF Views, ReturnEarly
<1>4. CASE depth = 2
  <2>1. 2 \in 1 .. MaxDepth BY BoundAssumption
  <2>2. frame'[1] = frame[1] /\ frame'[2] = [frame[2] EXCEPT !.at = "down"]
    BY <1>1, <1>4, <2>1 DEF TypeOK
  <2>3. frame'[2].ev = frame[2].ev /\ frame'[2].at = "down"
    BY <2>2, FrameTypes, <1>4 DEF Frame, Top
  <2>4. Splitting /\ Splitting'
    BY <1>1, <1>2, <1>4, <2>2 DEF Splitting, Views
  <2>5. Nesting' BY <1>1, <1>4, <2>2, <2>3, <2>4 DEF Nesting, Missing, Skips
  <2>6. Views' BY <2>5, NestingViewsNext
  <2> QED BY <1>1, <1>2, <1>4, <2>2, <2>3, <2>4, <2>5, <2>6 DEF Views, ReturnEarly
<1> QED BY <1>1, <1>2, <1>3, <1>4 DEF Views

LEMMA StepSkipEarly ==
  ASSUME TypeOK, TypeOK', Nesting, SkipEarly
  PROVE  /\ Nesting' /\ ~ (Splitting \/ SplitUp)'
         /\ Left = {} /\ Left' = {} /\ HandedOut = {} /\ HandedOut' = {}
         /\ LcioEventNr' = LcioEventNr
<1>1. /\ seen' = seen /\ raw' = raw /\ depth > 0 /\ depth' = depth - 1
      /\ frame[depth].at = "builder" /\ Skips(frame[depth].ev)
  BY DEF SkipEarly, At, Top, Pop
<1>2. Views BY NestingViews
<1>3. depth # 2 BY <1>1, BuiltPasses DEF Nesting
<1>4. depth = 1 /\ depth' = 0 BY <1>1, <1>2, <1>3 DEF Views
<1>5. ~ Splitting /\ ~ Splitting' BY <1>1, <1>4 DEF Splitting
<1>6. Skips(raw) /\ seen = {} /\ seen' = {} BY <1>1, <1>4, <1>5 DEF Nesting
<1>7. ~ SplitUp' BY <1>1, <1>6 DEF SplitUp, Skips, Missing
<1>8. Nesting' BY <1>4, <1>5, <1>6, <1>7 DEF Nesting
<1>9. Views' BY <1>8, NestingViewsNext
<1> QED BY <1>2, <1>4, <1>5, <1>6, <1>7, <1>8, <1>9 DEF Views, SkipEarly

LEMMA StepFillMaps ==
  ASSUME TypeOK, TypeOK', Nesting, FillMaps
  PROVE  /\ Nesting' /\ Splitting' /\ raw' = raw /\ raw \in RawEvents
         /\ Left = {} /\ Left' = Accepted(raw) /\ HandedOut = {} /\ HandedOut' = {}
         /\ LcioEventNr' = LcioEventNr
<1>1. /\ seen' = seen /\ raw' = raw /\ depth > 0 /\ depth' = depth
      /\ frame[depth].at = "builder" /\ frame' = [frame EXCEPT ![depth] = Filled(Top)]
      /\ ~ Missing(frame[depth].ev) /\ ~ Skips(frame[depth].ev)
  BY DEF FillMaps, At, Top
<1>2. Views BY NestingViews
<1>3. depth # 2 BY <1>1, BuiltPasses DEF Nesting
<1>4. depth = 1 BY <1>1, <1>2, <1>3 DEF Views
<1>5. frame'[1] = Filled(Top) BY <1>1, <1>4, BoundAssumption DEF TypeOK
<1>6. /\ frame'[1].ev = frame[1].ev /\ frame'[1].at = "loop"
      /\ frame'[1].todo = Accepted(frame[1].ev)
  <2>1. Top \in Frame /\ Top = frame[1] BY <1>4, FrameTypes DEF Top
  <2> QED BY <1>5, <2>1 DEF Filled, Frame
<1>7. ~ Splitting /\ Splitting' BY <1>1, <1>4, <1>6 DEF Splitting
<1>8. frame[1].ev = raw /\ raw \in RawEvents /\ seen = {} BY <1>4, <1>7 DEF Nesting
<1>9. Nesting' BY <1>1, <1>4, <1>6, <1>7, <1>8 DEF Nesting, Missing, Skips, SplitUp
<1>10. Views' BY <1>9, NestingViewsNext
<1> QED BY <1>1, <1>2, <1>4, <1>6, <1>7, <1>8, <1>9, <1>10 DEF Views, FillMaps

LEMMA StepBuildNext ==
  ASSUME TypeOK, TypeOK', Nesting, BuildNext
  PROVE  /\ Nesting' /\ Splitting /\ Splitting' /\ raw' = raw
         /\ LcioEventNr' = LcioEventNr + 1
         /\ \E p \in Left :
              /\ Lowest(Left, p)
              /\ Left' = Left \ Slice(Left, p.bx)
              /\ HandedOut' = HandedOut \cup {Built(Slice(Left, p.bx))}
<1>1. /\ seen' = seen /\ raw' = raw /\ depth > 0 /\ depth' = depth + 1
      /\ frame[depth].at = "loop" /\ LcioEventNr' = LcioEventNr + 1
  BY DEF BuildNext, At, Top
<1>2. Views BY NestingViews
<1>3. depth = 1 BY <1>1, <1>2 DEF Views, Nesting
<1>4. PICK p \in Top.todo :
        /\ Lowest(Top.todo, p)
        /\ frame' = [frame EXCEPT ![depth] = Taken(Top, p.bx),
                                  ![depth + 1] = Enter(Built(Slice(Top.todo, p.bx)))]
  BY DEF BuildNext
<1>5. Top = frame[1] /\ Top \in Frame BY <1>3, FrameTypes DEF Top
<1>6. /\ frame'[1] = Taken(frame[1], p.bx)
      /\ frame'[2] = Enter(Built(Slice(frame[1].todo, p.bx)))
  <2>1. 1 \in 1 .. MaxDepth /\ 2 \in 1 .. MaxDepth BY BoundAssumption
  <2> HIDE DEF Top
  <2>2. frame' = [frame EXCEPT ![1] = Taken(frame[1], p.bx),
                               ![2] = Enter(Built(Slice(frame[1].todo, p.bx)))]
    BY <1>3, <1>4, <1>5
  <2> QED BY <2>1, <2>2 DEF TypeOK
<1>7. /\ frame'[1].ev = raw /\ frame'[1].at = "call" /\ raw \in RawEvents
      /\ frame'[1].todo = frame[1].todo \ Slice(frame[1].todo, p.bx)
  BY <1>3, <1>5, <1>6 DEF Taken, Frame, Nesting
<1>8. /\ frame'[2].at = "builder"
      /\ frame'[2].ev = Built(Slice(frame[1].todo, p.bx))
      /\ IsBuilt(frame'[2].ev) /\ InName \notin frame'[2].ev.names
      /\ ~ frame'[2].ev.noTime
  <2>1. /\ frame'[2].ev = Built(Slice(frame[1].todo, p.bx)) /\ frame'[2].at = "builder"
    BY <1>6 DEF Enter
  <2>2. Built(Slice(frame[1].todo, p.bx)).names
          \in {BuiltNames, BuiltNames \cup {"TemperatureSensor"}}
    BY DEF Built
  <2>3. Built(Slice(frame[1].todo, p.bx)).noTime = FALSE BY DEF Built
  <2> QED BY <2>1, <2>2, <2>3, NameAssumption DEF IsBuilt, BuiltNames
<1>9. Splitting /\ Splitting' BY <1>1, <1>3, <1>7 DEF Splitting
<1>10. Nesting'
  BY <1>1, <1>3, <1>7, <1>8, <1>9 DEF Nesting, Missing, Skips
<1>11. Views' BY <1>10, NestingViewsNext
<1>12. /\ Left = frame[1].todo /\ HandedOut = seen
       /\ Left' = frame'[1].todo /\ HandedOut' = seen' \cup {frame'[2].ev}
  BY <1>1, <1>2, <1>3, <1>9, <1>11 DEF Views
<1> QED BY <1>1, <1>4, <1>5, <1>7, <1>8, <1>9, <1>10, <1>12

LEMMA StepDeleteBuilt ==
  ASSUME TypeOK, TypeOK', Nesting, DeleteBuilt
  PROVE  /\ Nesting' /\ Splitting /\ Splitting' /\ raw' = raw
         /\ Left' = Left /\ HandedOut' = HandedOut /\ LcioEventNr' = LcioEventNr
<1>1. /\ seen' = seen /\ raw' = raw /\ depth > 0 /\ depth' = depth
      /\ frame[depth].at = "call" /\ frame' = [frame EXCEPT ![depth].at = "loop"]
  BY DEF DeleteBuilt, At, Top
<1>2. Views BY NestingViews
<1>3. depth = 1 BY <1>1, <1>2 DEF Views, Nesting
<1>4. frame'[1] = [frame[1] EXCEPT !.at = "loop"]
  BY <1>1, <1>3, BoundAssumption DEF TypeOK
<1>5. frame'[1].ev = frame[1].ev /\ frame'[1].at = "loop" /\ frame'[1].todo = frame[1].todo
  BY <1>3, <1>4, FrameTypes DEF Frame, Top
<1>6. Splitting /\ Splitting' BY <1>1, <1>3, <1>5 DEF Splitting
<1>7. Nesting' BY <1>1, <1>3, <1>5, <1>6 DEF Nesting, Missing, Skips
<1>8. Views' BY <1>7, NestingViewsNext
<1> QED BY <1>1, <1>2, <1>3, <1>5, <1>6, <1>7, <1>8 DEF Views, DeleteBuilt

LEMMA StepEndLoop ==
  ASSUME TypeOK, TypeOK', Nesting, EndLoop
  PROVE  /\ Nesting' /\ Splitting /\ SplitUp' /\ raw' = raw
         /\ Left = {} /\ Left' = {} /\ HandedOut' = HandedOut /\ LcioEventNr' = LcioEventNr
<1>1. /\ seen' = seen /\ raw' = raw /\ depth > 0 /\ depth' = depth - 1
      /\ frame[depth].at = "loop" /\ frame[depth].todo = {}
  BY DEF EndLoop, At, Top, Pop
<1>2. Views BY NestingViews
<1>3. depth = 1 /\ depth' = 0 BY <1>1, <1>2 DEF Views, Nesting
<1>4. Splitting /\ ~ Splitting' BY <1>1, <1>3 DEF Splitting
<1>5. SplitUp' BY <1>1, <1>3, <1>4 DEF Nesting, SplitUp, Missing, Skips
<1>6. \A e \in seen : IsBuilt(e) BY <1>4 DEF Nesting
<1>7. Nesting' BY <1>1, <1>3, <1>4, <1>5, <1>6 DEF Nesting
<1>8. Views' BY <1>7, NestingViewsNext
<1> QED BY <1>1, <1>2, <1>3, <1>4, <1>5, <1>6, <1>7, <1>8 DEF Views, EndLoop

LEMMA StepDownstream ==
  ASSUME TypeOK, TypeOK', Nesting, Downstream
  PROVE  /\ Nesting' /\ (Splitting \/ SplitUp)' = (Splitting \/ SplitUp) /\ raw' = raw
         /\ Left' = Left /\ HandedOut' = HandedOut /\ LcioEventNr' = LcioEventNr
<1>1. /\ seen' = seen \cup {frame[depth].ev} /\ raw' = raw /\ depth > 0
      /\ depth' = depth - 1 /\ frame' = [frame EXCEPT ![depth] = NoFrame]
      /\ frame[depth].at = "down"
  BY DEF Downstream, At, Top, Pop
<1>2. Views BY NestingViews
<1>3. CASE depth = 1
  <2>1. ~ Splitting /\ ~ Splitting' /\ ~ SplitUp
    BY <1>1, <1>3 DEF Splitting, SplitUp
  <2>2. seen = {} /\ seen' = {raw} /\ Missing(raw) /\ raw \in RawEvents
    BY <1>1, <1>3, <2>1 DEF Nesting
  <2>3. ~ SplitUp' BY <1>1, <2>2 DEF SplitUp, Missing
  <2>4. ~ IsBuilt(raw) BY <2>2, RawNotBuilt
  <2>5. Nesting' BY <1>1, <1>3, <2>1, <2>2, <2>3, <2>4 DEF Nesting
  <2>6. Views' BY <2>5, NestingViewsNext
  <2> QED BY <1>1, <1>2, <1>3, <2>1, <2>2, <2>3, <2>4, <2>5, <2>6 DEF Views, Downstream
<1>4. CASE depth = 2
  <2>1. 2 \in 1 .. MaxDepth /\ depth' = 1 BY <1>1, <1>4, BoundAssumption
  <2>2. frame'[1] = frame[1] BY <1>1, <1>4, <2>1 DEF TypeOK
  <2>3. Splitting /\ Splitting' BY <1>2, <1>4, <2>1, <2>2 DEF Splitting, Views
  <2>4. frame[1].at # "down" BY <2>3 DEF Splitting
  <2>5. \A e \in seen' : IsBuilt(e) BY <1>1, <1>4, <2>3 DEF Nesting
  <2>6. Nesting' BY <1>1, <1>4, <2>1, <2>2, <2>3, <2>4, <2>5 DEF Nesting, Missing, Skips
  <2>7. Views' BY <2>6, NestingViewsNext
  <2> QED BY <1>1, <1>2, <1>4, <2>1, <2>2, <2>3, <2>6, <2>7 DEF Views, Downstream
<1> QED BY <1>1, <1>2, <1>3, <1>4 DEF Views

LEMMA StepCrash ==
  ASSUME Nesting, Crash \/ UNCHANGED vars
  PROVE  /\ Nesting' /\ (Splitting \/ SplitUp)' = (Splitting \/ SplitUp) /\ raw' = raw
         /\ Left' = Left /\ HandedOut' = HandedOut /\ LcioEventNr' = LcioEventNr
<1>1. /\ depth' = depth /\ frame' = frame /\ seen' = seen /\ raw' = raw
      /\ LcioEventNr' = LcioEventNr
  BY DEF Crash, vars
<1> QED BY <1>1 DEF Nesting, Splitting, SplitUp, Left, HandedOut, Missing, Skips

--------------------------------------------------------------------------------
(* Delivery: every accepted block in exactly one event.                     *)

\* ExactlyOnce with what makes it inductive: no event is empty.
Delivery ==
  /\ Splitting \/ SplitUp =>
       Accepted(raw) = Left \cup UNION {e.blocks : e \in HandedOut}
  /\ \A e \in HandedOut : \A p \in e.blocks :
       e.blocks = Slice(Accepted(raw), p.bx) /\ p \notin Left
  /\ \A e, f \in HandedOut : e.blocks \cap f.blocks # {} => e = f
  /\ ~ (Splitting \/ SplitUp) => HandedOut = {}

Inv == TypeOK /\ Nesting /\ Delivery

\* Handing out the lowest slice of what is left keeps the delivery exact: the
\* slice is all that was accepted of its crossing, since an event that had a
\* block of it would have had them all.
LEMMA SliceDelivery ==
  ASSUME TypeOK, TypeOK', Nesting, Delivery, BuildNext
  PROVE  Delivery'
<1>1. PICK p \in Left :
        /\ Left' = Left \ Slice(Left, p.bx)
        /\ HandedOut' = HandedOut \cup {Built(Slice(Left, p.bx))}
        /\ Splitting /\ Splitting' /\ raw' = raw
  BY StepBuildNext
<1> DEFINE S == Slice(Left, p.bx)
           n == Built(S)
<1>2. n.blocks = S BY DEF Built
<1>3. Accepted(raw)' = Accepted(raw) BY <1>1 DEF Accepted
<1>4. Accepted(raw) = Left \cup UNION {e.blocks : e \in HandedOut}
  BY <1>1 DEF Delivery
<1>5. S \subseteq Left /\ S \subseteq Accepted(raw) BY <1>4 DEF Slice
<1>6. S = Slice(Accepted(raw), p.bx)
  <2>1. ASSUME NEW q \in Accepted(raw), q.bx = p.bx, q \notin Left PROVE FALSE
    <3>1. PICK e \in HandedOut : q \in e.blocks BY <1>4, <2>1
    <3>2. e.blocks = Slice(Accepted(raw), q.bx) BY <3>1 DEF Delivery
    <3>3. p \in e.blocks BY <1>4, <2>1, <3>2 DEF Slice
    <3> QED BY <3>1, <3>3 DEF Delivery
  <2> QED BY <1>5, <2>1 DEF Slice
<1>7. Accepted(raw) = Left' \cup UNION {e.blocks : e \in HandedOut'}
  <2> HIDE DEF n, S
  <2>1. UNION {e.blocks : e \in HandedOut'} = S \cup UNION {e.blocks : e \in HandedOut}
    BY <1>1, <1>2 DEF n, S
  <2> QED BY <1>1, <1>4, <1>5, <2>1 DEF S
<1>8. ASSUME NEW e \in HandedOut', NEW q \in e.blocks
      PROVE  e.blocks = Slice(Accepted(raw), q.bx) /\ q \notin Left'
  <2>1. CASE e \in HandedOut BY <1>1, <2>1 DEF Delivery
  <2>2. CASE e = n
    <3>1. q \in S /\ q.bx = p.bx BY <1>2, <1>8, <2>2 DEF Slice
    <3> QED BY <1>1, <1>2, <1>6, <2>2, <3>1
  <2> QED BY <1>1, <2>1, <2>2
<1>9. ASSUME NEW e \in HandedOut, e.blocks \cap n.blocks # {} PROVE FALSE
  <2>1. PICK q \in e.blocks : q \in S BY <1>2, <1>9
  <2> QED BY <1>5, <2>1 DEF Delivery
<1>10. ASSUME NEW e \in HandedOut', NEW f \in HandedOut', e.blocks \cap f.blocks # {}
       PROVE  e = f
  <2>1. CASE e \in HandedOut /\ f \in HandedOut BY <1>10, <2>1 DEF Delivery
  <2>2. CASE e = n \/ f = n
    <3> HIDE DEF n
    <3> QED BY <1>1, <1>9, <1>10, <2>2 DEF n
  <2> QED BY <1>1, <2>1, <2>2
<1> HIDE DEF n, S
<1>11. Splitting' BY <1>1
<1> QED BY <1>3, <1>7, <1>8, <1>10, <1>11 DEF Delivery

\* A step that neither hands out nor takes in anything.
LEMMA SameDelivery ==
  ASSUME Delivery, raw' = raw, Left' = Left, HandedOut' = HandedOut,
         (Splitting \/ SplitUp)' = (Splitting \/ SplitUp)
  PROVE  Delivery'
BY DEF Delivery, Accepted

LEMMA InvInit == Init => Inv
<1> SUFFICES ASSUME Init PROVE Inv
  OBVIOUS
<1>1. TypeOK /\ Nesting BY TypeInit, NestingInit
<1>2. depth = 0 /\ seen = {} /\ raw = NoEvent BY DEF Init
<1>3. HandedOut = {} /\ Left = {} /\ ~ Splitting BY <1>1, <1>2, NestingViews DEF Views
<1>4. Missing(raw) BY <1>2 DEF NoEvent, Missing, Needed, DataNames
<1>5. ~ SplitUp BY <1>4 DEF SplitUp
<1> QED BY <1>1, <1>3, <1>5 DEF Inv, Delivery

LEMMA InvNext == Inv /\ [Next]_vars => Inv'
<1> SUFFICES ASSUME Inv, [Next]_vars PROVE Inv'
  OBVIOUS
<1> USE DEF Inv
<1>1. TypeOK' BY TypeNext
<1>2. CASE ReadEvent
  <2>1. /\ Nesting' /\ ~ (Splitting \/ SplitUp)' /\ Left' = {} /\ HandedOut' = {}
    BY <1>1, <1>2, StepReadEvent
  <2> QED BY <1>1, <2>1 DEF Delivery
<1>3. CASE ReturnEarly BY <1>1, <1>3, StepReturnEarly, SameDelivery
<1>4. CASE SkipEarly
  <2>1. /\ Nesting' /\ ~ (Splitting \/ SplitUp)' /\ Left' = {} /\ HandedOut' = {}
    BY <1>1, <1>4, StepSkipEarly
  <2> QED BY <1>1, <2>1 DEF Delivery
<1>5. CASE FillMaps
  <2>1. /\ Nesting' /\ Splitting' /\ raw' = raw
        /\ Left' = Accepted(raw) /\ HandedOut' = {}
    BY <1>1, <1>5, StepFillMaps
  <2>2. Accepted(raw)' = Accepted(raw) BY <2>1 DEF Accepted
  <2> QED BY <1>1, <2>1, <2>2 DEF Delivery
<1>6. CASE BuildNext BY <1>1, <1>6, StepBuildNext, SliceDelivery
<1>7. CASE DeleteBuilt
  <2>1. (Splitting \/ SplitUp)' = (Splitting \/ SplitUp)
    BY <1>1, <1>7, StepDeleteBuilt
  <2> QED BY <1>1, <1>7, <2>1, StepDeleteBuilt, SameDelivery
<1>8. CASE EndLoop
  <2>1. (Splitting \/ SplitUp)' = (Splitting \/ SplitUp)
    BY <1>1, <1>8, StepEndLoop
  <2> QED BY <1>1, <1>8, <2>1, StepEndLoop, SameDelivery
<1>9. CASE Downstream BY <1>1, <1>9, StepDownstream, SameDelivery
<1>10. CASE Crash \/ UNCHANGED vars BY <1>1, <1>10, StepCrash, SameDelivery
<1> QED BY <1>2, <1>3, <1>4, <1>5, <1>6, <1>7, <1>8, <1>9, <1>10 DEF Next, Run

LEMMA Invariant == Spec => []Inv
BY InvInit, InvNext, PTL DEF Spec

\* Every accepted block leaves in exactly one event of its own bunch crossing,
\* although the builder is re-entered on each of its events.
THEOREM DeliveredExactlyOnce == Spec => []ExactlyOnce
<1>1. Inv => ExactlyOnce BY DEF Inv, Delivery, ExactlyOnce
<1> QED BY <1>1, Invariant, PTL

\* The chain behind the builder gets a readout cycle raw or built, never both.
THEOREM RawOrBuilt == Spec => []NeverBoth
<1>1. Inv => NeverBoth
  <2> SUFFICES ASSUME Inv PROVE NeverBoth
    OBVIOUS
  <2> USE DEF Inv
  <2> DEFINE D == {frame[d].ev : d \in {c \in 1 .. depth : frame[c].at = "down"}}
  <2>1. Views BY NestingViews
  <2>2. CASE depth = 0
    <3>1. D = {} BY <2>2
    <3> QED BY <2>2, <3>1 DEF NeverBoth, Nesting
  <2>3. CASE depth = 1 /\ ~ Splitting
    <3>1. D \subseteq {frame[1].ev} BY <2>3
    <3>2. seen = {} BY <2>3 DEF Nesting
    <3> QED BY <3>1, <3>2 DEF NeverBoth
  <2>4. CASE depth = 1 /\ Splitting
    <3>1. D = {} BY <2>4 DEF Splitting
    <3> QED BY <2>4, <3>1 DEF NeverBoth, Nesting
  <2>5. CASE depth = 2
    <3>1. Splitting BY <2>1, <2>5 DEF Views
    <3>2. D \subseteq {frame[2].ev} BY <2>5, <3>1 DEF Splitting
    <3> QED BY <2>5, <3>1, <3>2 DEF NeverBoth, Nesting
  <2> QED BY <2>1, <2>2, <2>3, <2>4, <2>5 DEF Views
<1> QED BY <1>1, Invariant, PTL

\* The nesting of ProcessorMgr::processEvent is never deeper than two.
THEOREM NestingBounded == Spec => []NestingBound
<1>1. Inv => NestingBound
  BY BuiltPasses DEF Inv, Nesting, NestingBound
<1> QED BY <1>1, Invariant, PTL

--------------------------------------------------------------------------------
(* The builder implements CycleSplitter.                                    *)

Out == {[nr |-> e.nr, blocks |-> e.blocks] : e \in HandedOut}

LEMMA SplitterStep == Inv /\ Inv' /\ [Next]_vars => [Splitter!Next]_(Splitter!vars)
<1> SUFFICES ASSUME Inv, Inv', [Next]_vars PROVE [Splitter!Next]_(Splitter!vars)
  OBVIOUS
<1> USE DEF Inv
<1>1. ASSUME Left' = Left, HandedOut' = HandedOut, LcioEventNr' = LcioEventNr
      PROVE  UNCHANGED Splitter!vars
  BY <1>1 DEF Splitter!vars
<1>2. ASSUME Left = {}, Left' \in SUBSET Block, HandedOut' = {},
             LcioEventNr' = LcioEventNr
      PROVE  Splitter!Load
  BY <1>2 DEF Splitter!Load
<1>3. CASE ReadEvent
  <2>1. Left = {} /\ Left' = {} /\ HandedOut' = {} /\ LcioEventNr' = LcioEventNr
    BY <1>3, StepReadEvent
  <2> QED BY <1>2, <2>1 DEF Splitter!Next
<1>4. CASE FillMaps
  <2>1. /\ Left = {} /\ Left' = Accepted(raw) /\ HandedOut' = {}
        /\ LcioEventNr' = LcioEventNr /\ raw \in RawEvents
    BY <1>4, StepFillMaps
  <2>2. Accepted(raw) \in SUBSET Block BY <2>1, RawIsEvent, AcceptedBlocks
  <2> QED BY <1>2, <2>1, <2>2 DEF Splitter!Next
<1>5. CASE BuildNext
  <2>1. PICK p \in Left :
          /\ Lowest(Left, p)
          /\ Left' = Left \ Slice(Left, p.bx)
          /\ HandedOut' = HandedOut \cup {Built(Slice(Left, p.bx))}
          /\ LcioEventNr' = LcioEventNr + 1
    BY <1>5, StepBuildNext
  <2>2. /\ Built(Slice(Left, p.bx)).nr = LcioEventNr + 1
        /\ Built(Slice(Left, p.bx)).blocks = Slice(Left, p.bx)
    BY DEF Built
  <2>3. Out' = Out \cup {[nr |-> LcioEventNr + 1, blocks |-> Slice(Left, p.bx)]}
    BY <2>1, <2>2 DEF Out
  <2>4. Splitter!Crossing(Left, p.bx) = Slice(Left, p.bx)
    BY DEF Splitter!Crossing, Slice
  <2>5. Splitter!Emit BY <2>1, <2>3, <2>4 DEF Splitter!Emit, Out, Lowest
  <2> QED BY <2>5 DEF Splitter!Next
<1>6. CASE SkipEarly BY <1>1, <1>6, StepSkipEarly
<1>7. CASE EndLoop BY <1>1, <1>7, StepEndLoop
<1>8. CASE ReturnEarly BY <1>1, <1>8, StepReturnEarly
<1>9. CASE DeleteBuilt BY <1>1, <1>9, StepDeleteBuilt
<1>10. CASE Downstream BY <1>1, <1>10, StepDownstream
<1>11. CASE Crash \/ UNCHANGED vars BY <1>1, <1>11, StepCrash
<1> QED BY <1>3, <1>4, <1>5, <1>6, <1>7, <1>8, <1>9, <1>10, <1>11 DEF Next, Run

\* The builder, nested calls, early returns and a crash included, takes only
\* steps the splitter of a readout cycle may take.
THEOREM BuilderImplementsSplitter == Spec => Splitter!Spec
<1>1. Init => Splitter!Init
  <2> SUFFICES ASSUME Init PROVE Splitter!Init
    OBVIOUS
  <2>1. Views /\ depth = 0 /\ seen = {}
    BY TypeInit, NestingInit, NestingViews DEF Init
  <2> QED BY <2>1 DEF Views, Init, Splitter!Init
<1>2. Inv /\ Inv' /\ [Next]_vars => [Splitter!Next]_(Splitter!vars)
  BY SplitterStep
<1> QED BY <1>1, <1>2, Invariant, PTL DEF Spec, Splitter!Spec

--------------------------------------------------------------------------------
(* Numbers: the built events are numbered in the order of their crossings.  *)

\* NumberedInOrder with what makes it inductive: no event is empty, and what is
\* handed out lies below what is left.
Numbering ==
  /\ \A e \in HandedOut : e.nr \in Nat /\ e.nr <= LcioEventNr /\ e.blocks # {}
  /\ \A e \in HandedOut : \A p \in e.blocks : \A q \in Left : p.bx < q.bx
  /\ \A e, f \in HandedOut : \A p \in e.blocks : \A q \in f.blocks :
       p.bx < q.bx <=> e.nr < f.nr

\* Blocks have numbers for their crossings.
LEMMA BlocksOrdered ==
  ASSUME TypeOK, Nesting, Delivery
  PROVE  /\ Left \subseteq Block
         /\ \A e \in HandedOut : e.blocks \subseteq Block /\ e.nr \in Nat
         /\ \A p \in Block : p.bx \in Nat
<1>1. Left \subseteq Block
  BY BoundAssumption DEF TypeOK, Left, Splitting, Frame
<1>2. HandedOut \subseteq Event
  <2>1. Views BY NestingViews
  <2>2. \A d \in 1 .. depth : frame[d].ev \in Event
    BY BoundAssumption DEF TypeOK, Frame
  <2> QED BY <2>2 DEF HandedOut, TypeOK
<1>3. \A p \in Block : p.bx \in Nat BY BlockAssumption DEF Block
<1> QED BY <1>1, <1>2, <1>3 DEF Event

\* The next event has the next number, and its crossing is above all before it.
LEMMA NextNumber ==
  ASSUME Inv, Inv', Numbering, BuildNext
  PROVE  Numbering'
<1> USE DEF Inv
<1>1. PICK p \in Left :
        /\ Lowest(Left, p)
        /\ Left' = Left \ Slice(Left, p.bx)
        /\ HandedOut' = HandedOut \cup {Built(Slice(Left, p.bx))}
        /\ LcioEventNr' = LcioEventNr + 1
  BY StepBuildNext
<1> DEFINE n == Built(Slice(Left, p.bx))
<1>2. n.nr = LcioEventNr + 1 /\ n.blocks = Slice(Left, p.bx) BY DEF Built
<1>3. HandedOut' = HandedOut \cup {n} BY <1>1
<1> HIDE DEF n
<1>4. LcioEventNr \in Nat BY DEF TypeOK
<1>5. /\ Left \subseteq Block
      /\ \A e \in HandedOut : e.blocks \subseteq Block /\ e.nr \in Nat
      /\ \A q \in Block : q.bx \in Nat
  BY BlocksOrdered
<1>6. p \in n.blocks /\ \A q \in n.blocks : q.bx = p.bx
  BY <1>1, <1>2 DEF Slice
<1>7. \A q \in Left' : q \in Left /\ p.bx < q.bx
  BY <1>1, <1>5 DEF Lowest, Slice
<1>8. \A e \in HandedOut : \A q \in e.blocks : q.bx < p.bx
  BY <1>1 DEF Numbering
<1>9. ASSUME NEW e \in HandedOut'
      PROVE  e.nr \in Nat /\ e.nr <= LcioEventNr' /\ e.blocks # {}
  BY <1>1, <1>2, <1>3, <1>4, <1>6 DEF Numbering
<1>10. ASSUME NEW e \in HandedOut', NEW q \in e.blocks, NEW r \in Left'
       PROVE  q.bx < r.bx
  <2>1. CASE e \in HandedOut BY <1>7, <2>1 DEF Numbering
  <2>2. CASE e = n BY <1>6, <1>7, <2>2
  <2> QED BY <1>3, <2>1, <2>2
<1>11. ASSUME NEW e \in HandedOut', NEW f \in HandedOut',
              NEW q \in e.blocks, NEW r \in f.blocks
       PROVE  q.bx < r.bx <=> e.nr < f.nr
  <2>1. CASE e \in HandedOut /\ f \in HandedOut BY <2>1 DEF Numbering
  <2>2. CASE e \in HandedOut /\ f = n
    <3>1. q.bx < r.bx BY <1>6, <1>8, <2>2
    <3>2. e.nr < f.nr BY <1>2, <1>4, <2>2 DEF Numbering
    <3> QED BY <3>1, <3>2
  <2>3. CASE e = n /\ f \in HandedOut
    <3>1. r.bx < q.bx BY <1>6, <1>8, <2>3
    <3>2. f.nr < e.nr BY <1>2, <1>4, <2>3 DEF Numbering
    <3>3. q.bx \in Nat /\ r.bx \in Nat /\ e.nr \in Nat /\ f.nr \in Nat
      BY <1>1, <1>2, <1>4, <1>5, <1>6, <2>3
    <3> QED BY <3>1, <3>2, <3>3
  <2>4. CASE e = n /\ f = n
    <3>1. q.bx = p.bx /\ r.bx = p.bx /\ p.bx \in Nat BY <1>1, <1>5, <1>6, <2>4
    <3>2. e.nr = f.nr /\ e.nr \in Nat BY <1>2, <1>4, <2>4
    <3> QED BY <3>1, <3>2
  <2> QED BY <1>3, <2>1, <2>2, <2>3, <2>4
<1> QED BY <1>9, <1>10, <1>11 DEF Numbering

LEMMA NumberingNext == Inv /\ Inv' /\ Numbering /\ [Next]_vars => Numbering'
<1> SUFFICES ASSUME Inv, Inv', Numbering, [Next]_vars PROVE Numbering'
  OBVIOUS
<1> USE DEF Inv
<1>1. ASSUME Left' = Left, HandedOut' = HandedOut, LcioEventNr' = LcioEventNr
      PROVE  Numbering'
  BY <1>1 DEF Numbering
<1>2. ASSUME HandedOut' = {} PROVE Numbering'
  BY <1>2 DEF Numbering
<1>3. CASE ReadEvent BY <1>2, <1>3, StepReadEvent
<1>4. CASE SkipEarly BY <1>2, <1>4, StepSkipEarly
<1>5. CASE FillMaps BY <1>2, <1>5, StepFillMaps
<1>6. CASE BuildNext BY <1>6, NextNumber
<1>7. CASE EndLoop BY <1>1, <1>7, StepEndLoop
<1>8. CASE ReturnEarly BY <1>1, <1>8, StepReturnEarly
<1>9. CASE DeleteBuilt BY <1>1, <1>9, StepDeleteBuilt
<1>10. CASE Downstream BY <1>1, <1>10, StepDownstream
<1>11. CASE Crash \/ UNCHANGED vars BY <1>1, <1>11, StepCrash
<1> QED BY <1>3, <1>4, <1>5, <1>6, <1>7, <1>8, <1>9, <1>10, <1>11 DEF Next, Run

LEMMA NothingYet == Init => HandedOut = {} /\ ~ Splitting
<1> SUFFICES ASSUME Init PROVE HandedOut = {} /\ ~ Splitting
  OBVIOUS
<1>1. Views BY TypeInit, NestingInit, NestingViews
<1> QED BY <1>1 DEF Views, Init

LEMMA NumberingAlways == Spec => []Numbering
<1>1. Init => Numbering BY NothingYet DEF Numbering
<1> QED BY <1>1, NumberingNext, Invariant, PTL DEF Spec

\* The numbers of the built events follow their bunch crossings (LcioEventNr,
\* counted up as each event of the loop over rData is made).
THEOREM NumbersFollowCrossings == Spec => []NumberedInOrder
<1>1. Numbering => NumberedInOrder BY DEF Numbering, NumberedInOrder
<1> QED BY <1>1, NumberingAlways, PTL

--------------------------------------------------------------------------------
(* Temperatures: attached to the first built event.                         *)

\* TemperatureOnce with what the flag and the rest of rTemp are meanwhile: theirs
\* of the raw event until the first event is built, the flag down from then on,
\* whatever the nested calls do to it.
Warmth ==
  /\ TemperatureOnce
  /\ Splitting => IF HandedOut = {}
                  THEN temperaturecollection_write = raw.temps /\ frame[1].temps = raw.temps
                  ELSE ~ temperaturecollection_write

\* A nested call of the builder finds the flag down and leaves it so.
LEMMA NestedKeepsFlag ==
  ASSUME Nesting, depth = 2, NoteTemperature(frame[2].ev), ~ temperaturecollection_write
  PROVE  ~ temperaturecollection_write'
<1>1. ~ Parsed(frame[2].ev) BY BuiltPasses DEF Nesting
<1> QED BY <1>1 DEF NoteTemperature

\* What the steps do to the flag and to the rest of rTemp.
LEMMA FlagSet ==
  ASSUME Inv, FillMaps
  PROVE  temperaturecollection_write' = raw.temps /\ frame'[1].temps = raw.temps
<1> USE DEF Inv
<1>1. /\ depth > 0 /\ frame[depth].at = "builder"
      /\ frame' = [frame EXCEPT ![depth] = Filled(Top)]
      /\ ~ Missing(frame[depth].ev) /\ NoteTemperature(frame[depth].ev)
  BY DEF FillMaps, At, Top
<1>2. Views BY NestingViews
<1>3. depth # 2 BY <1>1, BuiltPasses DEF Nesting
<1>4. depth = 1 BY <1>1, <1>2, <1>3 DEF Views
<1>5. frame[1].ev = raw /\ raw \in RawEvents BY <1>4 DEF Nesting
<1>6. raw.temps = ("TempIn" \in raw.names) BY <1>5 DEF RawEvents
<1>7. Parsed(raw) BY <1>1, <1>4, <1>5 DEF Missing, Parsed, Needed
<1>8. temperaturecollection_write' = ("TempIn" \in raw.names)
  BY <1>1, <1>4, <1>5, <1>7 DEF NoteTemperature
<1>9. frame'[1] = Filled(Top) BY <1>1, <1>4, BoundAssumption DEF TypeOK
<1>10. Top \in Frame /\ Top = frame[1] BY <1>4, FrameTypes DEF Top
<1>11. frame'[1].temps = ("TempIn" \in raw.names)
  BY <1>5, <1>9, <1>10 DEF Filled, Frame
<1> QED BY <1>6, <1>8, <1>11

LEMMA FlagKept ==
  ASSUME Inv, ReturnEarly \/ DeleteBuilt \/ Downstream \/ Crash \/ UNCHANGED vars,
         Splitting, Splitting'
  PROVE  /\ frame'[1].temps = frame[1].temps
         /\ \/ temperaturecollection_write' = temperaturecollection_write
            \/ depth = 2 /\ NoteTemperature(frame[2].ev)
<1> USE DEF Inv
<1>1. Views BY NestingViews
<1>2. frame[1] \in Frame /\ 1 \in 1 .. MaxDepth /\ 2 \in 1 .. MaxDepth
  BY BoundAssumption DEF TypeOK
<1>3. CASE ReturnEarly
  <2>1. depth = 2 BY <1>1, <1>3 DEF Views, Splitting, ReturnEarly, At, Top
  <2>2. frame' = [frame EXCEPT ![2].at = "down"] BY <1>3, <2>1 DEF ReturnEarly
  <2>3. frame'[1] = frame[1] BY <1>2, <2>2 DEF TypeOK
  <2> QED BY <1>3, <2>1, <2>3 DEF ReturnEarly, Top
<1>4. CASE DeleteBuilt
  <2>1. depth = 1 /\ frame' = [frame EXCEPT ![depth].at = "loop"]
    BY <1>1, <1>4 DEF Views, Nesting, DeleteBuilt, At, Top
  <2>2. frame'[1] = [frame[1] EXCEPT !.at = "loop"] BY <1>2, <2>1 DEF TypeOK
  <2> QED BY <1>2, <1>4, <2>2 DEF DeleteBuilt, Frame
<1>5. CASE Downstream
  <2>1. depth = 2 BY <1>1, <1>5 DEF Views, Splitting, Downstream, At, Top
  <2>2. frame' = [frame EXCEPT ![2] = NoFrame] BY <1>5, <2>1 DEF Downstream, Pop
  <2>3. frame'[1] = frame[1] BY <1>2, <2>2 DEF TypeOK
  <2> QED BY <1>5, <2>3 DEF Downstream
<1>6. CASE Crash \/ UNCHANGED vars BY <1>6 DEF Crash, vars
<1> QED BY <1>3, <1>4, <1>5, <1>6

\* The event made of the lowest crossing that is left.
LEMMA FlagTaken ==
  ASSUME Inv, BuildNext, NEW S
  PROVE  /\ ~ temperaturecollection_write'
         /\ Built(S).temps = (temperaturecollection_write /\ frame[1].temps)
         /\ "TemperatureSensor" \in Built(S).names <=> temperaturecollection_write
<1> USE DEF Inv
<1>1. Views BY NestingViews
<1>2. depth = 1 BY <1>1 DEF Views, Nesting, BuildNext, At, Top
<1>3. ~ temperaturecollection_write' BY DEF BuildNext
<1>4. Built(S).temps = (temperaturecollection_write /\ frame[1].temps)
  BY <1>2 DEF Built, Top
<1>5. Built(S).names = BuiltNames \cup (IF temperaturecollection_write
                                        THEN {"TemperatureSensor"} ELSE {})
  BY DEF Built
<1>6. "TemperatureSensor" \in Built(S).names <=> temperaturecollection_write
  BY <1>5, NameAssumption
<1> QED BY <1>3, <1>4, <1>6

LEMMA FirstIsWarm ==
  ASSUME Inv, Inv', Numbering, Warmth, BuildNext
  PROVE  Warmth'
<1> USE DEF Inv
<1>1. PICK p \in Left :
        /\ Lowest(Left, p)
        /\ HandedOut' = HandedOut \cup {Built(Slice(Left, p.bx))}
        /\ raw' = raw /\ Splitting
  BY StepBuildNext
<1> DEFINE n == Built(Slice(Left, p.bx))
<1>2. n.blocks = Slice(Left, p.bx) BY DEF Built
<1>3. /\ ~ temperaturecollection_write'
      /\ n.temps = (temperaturecollection_write /\ frame[1].temps)
      /\ "TemperatureSensor" \in n.names <=> temperaturecollection_write
  BY FlagTaken
<1>4. HandedOut' = HandedOut \cup {n} BY <1>1
<1> HIDE DEF n
<1>5. Accepted(raw) = Left \cup UNION {e.blocks : e \in HandedOut}
  BY <1>1 DEF Delivery
<1>6. /\ n.temps <=> raw.temps /\ \A r \in n.blocks : \A q \in Accepted(raw) : r.bx <= q.bx
      /\ n.temps <=> "TemperatureSensor" \in n.names
  <2>1. CASE HandedOut = {}
    <3>1. temperaturecollection_write = raw.temps /\ frame[1].temps = raw.temps
      BY <1>1, <2>1 DEF Warmth
    <3>2. Accepted(raw) = Left BY <1>5, <2>1
    <3>3. \A r \in n.blocks : \A q \in Accepted(raw) : r.bx <= q.bx
      BY <1>1, <1>2, <3>2 DEF Slice, Lowest
    <3> QED BY <1>3, <3>1, <3>3
  <2>2. CASE HandedOut # {}
    <3>1. ~ temperaturecollection_write BY <1>1, <2>2 DEF Warmth
    <3>2. PICK e \in HandedOut : TRUE BY <2>2
    <3>3. PICK q \in e.blocks : q.bx < p.bx BY <1>1, <3>2 DEF Numbering
    <3>4. p \in n.blocks /\ q \in Accepted(raw) BY <1>1, <1>2, <1>5, <3>2 DEF Slice
    <3>5. p.bx \in Nat /\ q.bx \in Nat BY <1>1, <3>2, BlocksOrdered
    <3>6. ~ (p.bx <= q.bx) BY <3>3, <3>5
    <3> QED BY <1>3, <3>1, <3>4, <3>6
  <2> QED BY <2>1, <2>2
<1>7. Accepted(raw)' = Accepted(raw) BY <1>1 DEF Accepted
<1>8. TemperatureOnce'
  <2>1. ASSUME NEW e \in HandedOut'
        PROVE  /\ e.temps <=> raw.temps /\ \A r \in e.blocks : \A q \in Accepted(raw) :
                                             r.bx <= q.bx
               /\ e.temps <=> "TemperatureSensor" \in e.names
    <3>1. CASE e = n BY <1>6, <3>1
    <3>2. CASE e \in HandedOut BY <3>2 DEF Warmth, TemperatureOnce
    <3> QED BY <1>4, <3>1, <3>2
  <2> QED BY <1>1, <1>7, <2>1 DEF TemperatureOnce
<1>9. HandedOut' # {} BY <1>4
<1> QED BY <1>3, <1>8, <1>9 DEF Warmth

LEMMA WarmthNext ==
  Inv /\ Inv' /\ Numbering /\ Warmth /\ [Next]_vars => Warmth'
<1> SUFFICES ASSUME Inv, Inv', Numbering, Warmth, [Next]_vars PROVE Warmth'
  OBVIOUS
<1> USE DEF Inv
<1>1. ASSUME raw' = raw, HandedOut' = HandedOut PROVE TemperatureOnce'
  <2>1. Accepted(raw)' = Accepted(raw) BY <1>1 DEF Accepted
  <2> QED BY <1>1, <2>1 DEF Warmth, TemperatureOnce
<1>2. ASSUME HandedOut' = {} PROVE TemperatureOnce'
  BY <1>2 DEF TemperatureOnce
<1>3. CASE ReadEvent
  <2>1. ~ Splitting' /\ HandedOut' = {} BY <1>3, StepReadEvent
  <2> QED BY <1>2, <2>1 DEF Warmth
<1>4. CASE SkipEarly
  <2>1. ~ Splitting' /\ HandedOut' = {} BY <1>4, StepSkipEarly
  <2> QED BY <1>2, <2>1 DEF Warmth
<1>5. CASE FillMaps
  <2>1. HandedOut' = {} /\ raw' = raw BY <1>5, StepFillMaps
  <2>2. temperaturecollection_write' = raw.temps /\ frame'[1].temps = raw.temps
    BY <1>5, FlagSet
  <2> QED BY <1>2, <2>1, <2>2 DEF Warmth
<1>6. CASE BuildNext BY <1>6, FirstIsWarm
<1>7. CASE EndLoop
  <2>1. raw' = raw /\ HandedOut' = HandedOut /\ SplitUp' BY <1>7, StepEndLoop
  <2>2. ~ Splitting' BY <2>1 DEF SplitUp, Splitting
  <2> QED BY <1>1, <2>1, <2>2 DEF Warmth
<1>8. CASE ReturnEarly \/ DeleteBuilt \/ Downstream \/ Crash \/ UNCHANGED vars
  <2>1. /\ raw' = raw /\ HandedOut' = HandedOut
        /\ (Splitting \/ SplitUp)' = (Splitting \/ SplitUp)
    BY <1>8, StepReturnEarly, StepDeleteBuilt, StepDownstream, StepCrash
  <2>2. Views BY NestingViews
  <2>3. ASSUME Splitting' PROVE Splitting
    <3>1. Splitting \/ SplitUp BY <2>1, <2>3
    <3>2. ASSUME SplitUp PROVE FALSE
      <4>1. depth = 0 BY <3>2 DEF SplitUp
      <4>2. depth' = 0
        BY <1>8, <4>1 DEF ReturnEarly, DeleteBuilt, Downstream, At, Crash, vars
      <4> QED BY <2>3, <4>2 DEF Splitting
    <3> QED BY <3>1, <3>2
  <2>4. ASSUME Splitting'
        PROVE  IF HandedOut' = {}
               THEN temperaturecollection_write' = raw'.temps /\ frame'[1].temps = raw'.temps
               ELSE ~ temperaturecollection_write'
    <3>1. Splitting BY <2>3, <2>4
    <3>2. /\ frame'[1].temps = frame[1].temps
          /\ \/ temperaturecollection_write' = temperaturecollection_write
             \/ depth = 2 /\ NoteTemperature(frame[2].ev)
      BY <1>8, <2>4, <3>1, FlagKept
    <3>3. depth = 2 => HandedOut # {} BY <2>2 DEF Views
    <3>4. CASE HandedOut = {} BY <2>1, <3>1, <3>2, <3>3, <3>4 DEF Warmth
    <3>5. CASE HandedOut # {}
      <4>1. ~ temperaturecollection_write BY <3>1, <3>5 DEF Warmth
      <4>2. ~ temperaturecollection_write' BY <3>2, <4>1, NestedKeepsFlag
      <4> QED BY <2>1, <3>5, <4>2
    <3> QED BY <3>4, <3>5
  <2> QED BY <1>1, <2>1, <2>4 DEF Warmth
<1> QED BY <1>3, <1>4, <1>5, <1>6, <1>7, <1>8 DEF Next, Run

\* The temperatures of a cycle are attached to its first event only, although the
\* flag is a member that nested calls and earlier cycles leave in any state.
THEOREM TemperaturesOnce == Spec => []TemperatureOnce
<1>1. Init => Warmth BY NothingYet DEF Warmth, TemperatureOnce
<1>2. Warmth => TemperatureOnce BY DEF Warmth
<1> QED BY <1>1, <1>2, WarmthNext, NumberingAlways, Invariant, PTL DEF Spec

--------------------------------------------------------------------------------
(* Counting: a step that counts blocks is at the raw event.                 *)

\* An event is counted only with its data collection, which built events lack.
LEMMA CountedAtRaw ==
  ASSUME Inv, depth > 0, Count(Top.ev), all_events' # all_events
  PROVE  /\ depth = 1 /\ frame[1].ev = raw
         /\ all_events' = all_events + Cardinality(raw.blocks)
         /\ discarded_events' - discarded_events <= all_events' - all_events
<1> USE DEF Inv
<1>1. Parsed(Top.ev) BY DEF Count, counters
<1>2. Views BY NestingViews
<1>3. depth # 2 BY <1>1, BuiltPasses DEF Nesting, Top
<1>4. depth = 1 /\ frame[1].ev = raw /\ Top.ev = raw /\ raw \in Event
  BY <1>2, <1>3, RawIsEvent DEF Views, Nesting, Top
<1> DEFINE looked == Cardinality(raw.blocks)
           refused == Cardinality(raw.blocks \ Accepted(raw))
<1>5. looked \in Nat /\ refused \in Nat /\ refused <= looked
  BY <1>4, CountingBlocks DEF Event
<1>6. all_events' = all_events + looked /\ discarded_events' = discarded_events + refused
  BY <1>4 DEF Count, counters
<1>7. all_events \in Nat /\ discarded_events \in Nat BY DEF TypeOK
<1> HIDE DEF looked, refused
<1>8. discarded_events' - discarded_events <= all_events' - all_events
  BY <1>5, <1>6, <1>7
<1> QED BY <1>4, <1>6, <1>8 DEF looked

\* A block is counted once, with the raw event it came in: no nested call and no
\* later failure of the cycle counts it again (all_events and discarded_events of
\* the quality check).
THEOREM BlocksCountedOnce == Spec => CountedOnce
<1> DEFINE Counting ==
      all_events' # all_events =>
        /\ depth = 1
        /\ frame[1].ev = raw
        /\ all_events' = all_events + Cardinality(raw.blocks)
        /\ discarded_events' - discarded_events <= all_events' - all_events
<1>1. Inv /\ [Next]_vars => [Counting]_vars
  <2> SUFFICES ASSUME Inv, [Next]_vars, all_events' # all_events PROVE Counting
    OBVIOUS
  <2>1. CASE ReturnEarly \/ SkipEarly \/ FillMaps
    <3>1. depth > 0 /\ Count(Top.ev)
      BY <2>1 DEF ReturnEarly, SkipEarly, FillMaps, At
    <3> QED BY <3>1, CountedAtRaw
  <2>2. CASE ReadEvent \/ BuildNext \/ DeleteBuilt \/ EndLoop \/ Downstream \/ Crash
    BY <2>2 DEF ReadEvent, BuildNext, DeleteBuilt, EndLoop, Downstream, Crash, counters
  <2>3. CASE UNCHANGED vars BY <2>3 DEF vars, counters
  <2> QED BY <2>1, <2>2, <2>3 DEF Next, Run
<1> QED BY <1>1, Invariant, PTL DEF Spec, CountedOnce

--------------------------------------------------------------------------------
(* Triggers: each in the event of the crossing it fell in.                  *)

\* The triggers of an event are those of its crossing, none of its blocks lost.
Stamped == \A e \in HandedOut : e.triggers = Triggers(raw.bif, e.blocks) /\ e.blocks # {}

\* The next event gets the triggers of its crossing.
LEMMA NextStamped ==
  ASSUME Inv, Stamped, BuildNext
  PROVE  Stamped'
<1> USE DEF Inv
<1>1. TypeOK' BY TypeNext DEF Next, Run
<1>2. PICK p \in Left :
        /\ HandedOut' = HandedOut \cup {Built(Slice(Left, p.bx))}
        /\ raw' = raw /\ Splitting
  BY <1>1, StepBuildNext
<1> DEFINE n == Built(Slice(Left, p.bx))
<1>3. Views BY NestingViews
<1>4. depth = 1 BY <1>3 DEF Views, Nesting, BuildNext, At, Top
<1>5. Top.ev = raw BY <1>4 DEF Nesting, Top
<1>6. n.blocks = Slice(Left, p.bx) /\ n.triggers = Triggers(raw.bif, Slice(Left, p.bx))
  BY <1>5 DEF Built
<1>7. p \in n.blocks BY <1>6 DEF Slice
<1>8. HandedOut' = HandedOut \cup {n} BY <1>2
<1> HIDE DEF n
<1> QED BY <1>2, <1>6, <1>7, <1>8 DEF Stamped

LEMMA StampedNext == Inv /\ Inv' /\ Stamped /\ [Next]_vars => Stamped'
<1> SUFFICES ASSUME Inv, Inv', Stamped, [Next]_vars PROVE Stamped'
  OBVIOUS
<1> USE DEF Inv
<1>1. ASSUME raw' = raw, HandedOut' = HandedOut PROVE Stamped'
  BY <1>1 DEF Stamped
<1>2. ASSUME HandedOut' = {} PROVE Stamped'
  BY <1>2 DEF Stamped
<1>3. CASE ReadEvent BY <1>2, <1>3, StepReadEvent
<1>4. CASE SkipEarly BY <1>2, <1>4, StepSkipEarly
<1>5. CASE FillMaps BY <1>2, <1>5, StepFillMaps
<1>6. CASE BuildNext BY <1>6, NextStamped
<1>7. CASE EndLoop BY <1>1, <1>7, StepEndLoop
<1>8. CASE ReturnEarly BY <1>1, <1>8, StepReturnEarly
<1>9. CASE DeleteBuilt BY <1>1, <1>9, StepDeleteBuilt
<1>10. CASE Downstream BY <1>1, <1>10, StepDownstream
<1>11. CASE Crash \/ UNCHANGED vars BY <1>1, <1>11, StepCrash
<1> QED BY <1>3, <1>4, <1>5, <1>6, <1>7, <1>8, <1>9, <1>10, <1>11 DEF Next, Run

\* A number below the modulus is its own remainder, and so is what differs from it
\* by whole turns.
LEMMA OwnRemainder ==
  ASSUME NEW n \in Nat \ {0}, NEW q \in Int, NEW r \in 0 .. (n - 1)
  PROVE  (q * n + r) % n = r
OBVIOUS

LEMMA Turns ==
  ASSUME NEW n \in Nat \ {0}, NEW a \in Int
  PROVE  \E q \in Int : a = q * n + (a % n)
<1>1. a = (a \div n) * n + (a % n) /\ a \div n \in Int OBVIOUS
<1> QED BY <1>1

\* As long as an int holds the ticks since the first crossing began, the unsigned
\* difference, the cast and the division give the crossing and nothing else: the
\* clock may turn over between the start and the trigger.
LEMMA CrossingOf ==
  ASSUME NEW start \in Int, NEW t \in Int,
         NEW since \in Int, since = ((t - start) % Wide) - BIF_offset,
         since \in 0 .. ((Narrow - 1) \div 2)
  PROVE  /\ Since(start, t) = since
         /\ BXID_BIF(start, t) = since \div BIF_BINNING
<1> USE BifAssumption
<1>1. 2 * since < Narrow /\ since < Wide
  <2>1. 2 * ((Narrow - 1) \div 2) <= Narrow - 1 OBVIOUS
  <2> QED BY <2>1
<1> DEFINE a == t - start
<1>2. a \in Int /\ Wide \in Nat \ {0} /\ Narrow \in Nat \ {0} OBVIOUS
<1>3. t - start - BIF_offset = a - BIF_offset /\ since = (a % Wide) - BIF_offset
  OBVIOUS
<1> HIDE DEF a
<1>4. PICK q \in Int : a = q * Wide + (a % Wide)
  BY <1>2, Turns
<1>5. a - BIF_offset = q * Wide + since
  <2> DEFINE r == a % Wide
             w == q * Wide
  <2>1. r \in Int /\ w \in Int BY <1>2
  <2>2. a = w + r /\ since = r - BIF_offset BY <1>3, <1>4
  <2> HIDE DEF r, w
  <2>3. a - BIF_offset = w + since BY <2>1, <2>2
  <2> QED BY <2>3 DEF w
<1>6. Since(start, t) = since
  <2>1. since \in 0 .. (Wide - 1) BY <1>1
  <2>2. (q * Wide + since) % Wide = since BY <1>2, <2>1, OwnRemainder
  <2> QED BY <1>3, <1>5, <2>2 DEF Since
<1>7. since % Narrow = since BY <1>1
<1>8. BXID_BIF(start, t) = IF since >= 0 THEN since \div BIF_BINNING
                           ELSE - ((- since) \div BIF_BINNING)
  BY <1>1, <1>6, <1>7 DEF BXID_BIF
<1> QED BY <1>6, <1>8

\* Two events with a trigger of one time stamp are of one crossing.
LEMMA OneCrossing ==
  ASSUME Inv, Stamped,
         NEW e \in HandedOut, NEW f \in HandedOut,
         NEW x \in e.triggers, NEW y \in f.triggers, x.stamp = y.stamp
  PROVE  e = f
<1> DEFINE bx == BXID_BIF(Last(raw.bif).start, x.stamp)
<1>1. PICK p \in e.blocks : p.bx = bx
  <2>1. x \in Triggers(raw.bif, e.blocks) BY DEF Stamped
  <2> QED BY <2>1 DEF Triggers
<1>2. PICK q \in f.blocks : q.bx = bx
  <2>1. y \in Triggers(raw.bif, f.blocks) BY DEF Stamped
  <2> QED BY <2>1 DEF Triggers
<1> HIDE DEF bx
<1>3. e.blocks = Slice(Accepted(raw), bx) /\ f.blocks = Slice(Accepted(raw), bx)
  BY <1>1, <1>2 DEF Inv, Delivery
<1> QED BY <1>1, <1>3 DEF Inv, Delivery

\* The stamps of a BIF collection are numbers.
LEMMA StampsAreNumbers ==
  ASSUME TypeOK
  PROVE  /\ Last(raw.bif).start \in Int
         /\ Last(raw.bif).triggers \subseteq Int
<1>1. raw.bif \in BifCollections \cup {<<>>}
  BY RawIsEvent DEF TypeOK, Event
<1>2. CASE raw.bif = <<>> BY <1>2 DEF Last
<1>3. CASE raw.bif # <<>>
  <2>1. raw.bif \in Seq(BifElement) BY <1>1, <1>3, BifAssumption
  <2>2. raw.bif[Len(raw.bif)] \in BifElement BY <1>3, <2>1
  <2> QED BY <1>3, <2>2, BifAssumption DEF Last, BifElement, Stamp
<1> QED BY <1>2, <1>3

\* A trigger is in an event exactly when the event's crossing is its own.
LEMMA TriggerInItsCrossing ==
  ASSUME Inv, Stamped, NEW e \in HandedOut, NEW p \in e.blocks,
         NEW t \in Last(raw.bif).triggers,
         NEW since, since = ((t - Last(raw.bif).start) % Wide) - BIF_offset,
         since \in 0 .. ((Narrow - 1) \div 2)
  PROVE  [stamp |-> t, time |-> since % BIF_BINNING] \in e.triggers
           <=> p.bx = since \div BIF_BINNING
<1> DEFINE start == Last(raw.bif).start
<1>1. start \in Int /\ t \in Int /\ since \in Int
  BY StampsAreNumbers DEF Inv
<1>2. /\ Since(start, t) = since
      /\ BXID_BIF(start, t) = since \div BIF_BINNING
  BY <1>1, CrossingOf
<1>3. \A q \in e.blocks : q.bx = p.bx
  BY DEF Inv, Delivery, Slice
<1>4. e.triggers =
        {[stamp |-> u, time |-> Since(start, u) % BIF_BINNING] :
           u \in {v \in Last(raw.bif).triggers : \E q \in e.blocks : q.bx = BXID_BIF(start, v)}}
  BY DEF Stamped, Triggers
<1> HIDE DEF start
<1>5. ASSUME [stamp |-> t, time |-> since % BIF_BINNING] \in e.triggers
      PROVE  p.bx = since \div BIF_BINNING
  <2>1. PICK u \in {v \in Last(raw.bif).triggers :
                      \E q \in e.blocks : q.bx = BXID_BIF(start, v)} :
          [stamp |-> t, time |-> since % BIF_BINNING]
            = [stamp |-> u, time |-> Since(start, u) % BIF_BINNING]
    BY <1>4, <1>5
  <2>2. t = u BY <2>1
  <2> QED BY <1>2, <1>3, <2>1, <2>2
<1>6. ASSUME p.bx = since \div BIF_BINNING
      PROVE  [stamp |-> t, time |-> since % BIF_BINNING] \in e.triggers
  <2>1. p.bx = BXID_BIF(start, t) BY <1>2, <1>6
  <2>2. t \in {v \in Last(raw.bif).triggers : \E q \in e.blocks : q.bx = BXID_BIF(start, v)}
    BY <2>1
  <2> QED BY <1>2, <1>4, <2>2
<1> QED BY <1>5, <1>6

\* Every trigger is in the event of the crossing it fell in, with the time since
\* the crossing began, and in no other, for every width of the two integer types
\* (processEvent computes the crossing of every trigger for every event again).
THEOREM TriggersSorted == Spec => []TriggersInTheirCrossing
<1>1. Init => Stamped BY NothingYet DEF Stamped
<1>2. Inv /\ Stamped => TriggersInTheirCrossing
  <2> SUFFICES ASSUME Inv, Stamped PROVE TriggersInTheirCrossing
    OBVIOUS
  <2> DEFINE since(t) == ((t - Last(raw.bif).start) % Wide) - BIF_offset
  <2>1. ASSUME NEW e \in HandedOut, NEW p \in Accepted(raw),
               NEW t \in Last(raw.bif).triggers,
               p \in e.blocks, since(t) \in 0 .. ((Narrow - 1) \div 2)
        PROVE  [stamp |-> t, time |-> since(t) % BIF_BINNING] \in e.triggers
                 <=> p.bx = since(t) \div BIF_BINNING
    BY <2>1, TriggerInItsCrossing
  <2>2. ASSUME NEW e \in HandedOut, NEW f \in HandedOut,
               NEW x \in e.triggers, NEW y \in f.triggers, x.stamp = y.stamp
        PROVE  e = f
    BY <2>2, OneCrossing
  <2> QED BY <2>1, <2>2 DEF TriggersInTheirCrossing
<1> QED BY <1>1, <1>2, StampedNext, Invariant, PTL DEF Spec

--------------------------------------------------------------------------------
(* Nothing of the first event of a cycle is deleted under it.               *)

\* The collections that were deleted went with an event of this cycle, and the event in
\* hand is then another one.
Deleted ==
  /\ freed \subseteq {1}
  /\ Variant # "hodo2016" => freed = {}
  /\ Splitting /\ (frame[1].at = "call" \/ 1 \in freed) => HandedOut # {}
  /\ Splitting /\ frame[1].at = "call" /\ 1 \in freed => \E e, f \in HandedOut : e # f

\* The steps inside a nested call, and a crash, change none of it.
LEMMA SameDeleted ==
  ASSUME Deleted, UNCHANGED <<freed, HandedOut, Splitting>>,
         Splitting => frame'[1].at = frame[1].at
  PROVE  Deleted'
BY DEF Deleted

\* The event built of what is left is none of those before.
LEMMA BuiltIsNew ==
  ASSUME Inv, Inv', BuildNext
  PROVE  \E g : /\ g \notin HandedOut /\ HandedOut' = HandedOut \cup {g}
                /\ Splitting /\ Splitting' /\ freed' = freed
                /\ frame[1].at = "loop"
<1> USE DEF Inv
<1>1. PICK p \in Left : HandedOut' = HandedOut \cup {Built(Slice(Left, p.bx))}
  BY StepBuildNext
<1>2. p \in Built(Slice(Left, p.bx)).blocks
  BY <1>1 DEF Built, Slice
<1>3. Built(Slice(Left, p.bx)) \notin HandedOut
  BY <1>1, <1>2 DEF Delivery
<1>4. depth = 1
  <2>1. Views /\ depth > 0 /\ frame[depth].at = "loop"
    BY NestingViews DEF BuildNext, At, Top
  <2> QED BY <2>1 DEF Views, Nesting
<1> QED BY <1>1, <1>3, <1>4, StepBuildNext DEF BuildNext, At, Top

\* What each step does to the place of the outer call.
LEMMA OuterPlace ==
  ASSUME Inv, ReturnEarly \/ Downstream, Splitting
  PROVE  frame'[1].at = frame[1].at /\ freed' = freed
<1>1. /\ depth > 0 /\ frame[depth].at \in {"builder", "down"} /\ freed' = freed
      /\ \/ frame' = [frame EXCEPT ![depth].at = "down"]
         \/ frame' = [frame EXCEPT ![depth] = NoFrame]
  BY DEF ReturnEarly, Downstream, At, Top, Pop
<1>2. depth # 1 BY <1>1 DEF Splitting
<1> QED BY <1>1, <1>2, BoundAssumption DEF Inv, TypeOK

LEMMA DeletedNext == Inv /\ Inv' /\ Deleted /\ [Next]_vars => Deleted'
<1> SUFFICES ASSUME Inv, Inv', Deleted, [Next]_vars PROVE Deleted'
  OBVIOUS
<1> USE DEF Inv
<1>1. CASE ReadEvent
  BY <1>1, StepReadEvent DEF Deleted, ReadEvent, Splitting
<1>2. CASE ReturnEarly \/ Downstream
  <2>1. (Splitting \/ SplitUp)' = (Splitting \/ SplitUp) /\ HandedOut' = HandedOut
    BY <1>2, StepReturnEarly, StepDownstream
  <2>2. Views /\ Views'
    BY NestingViews, NestingViewsNext
  <2>3. /\ depth > 0 /\ freed' = freed
        /\ \/ depth' = depth /\ frame' = [frame EXCEPT ![depth].at = "down"]
           \/ depth' = depth - 1 /\ frame' = [frame EXCEPT ![depth] = NoFrame]
        /\ frame[depth].at \in {"builder", "down"}
    BY <1>2 DEF ReturnEarly, Downstream, At, Top, Pop
  <2>4. Splitting' = Splitting
    <3>1. CASE depth = 1
      <4>1. ~ Splitting
        BY <2>3, <3>1 DEF Splitting
      <4>2. ASSUME depth' = 1 PROVE frame'[1].at = "down"
        <5>1. frame' = [frame EXCEPT ![1].at = "down"]
          BY <2>3, <3>1, <4>2
        <5>2. frame[1] \in Frame
          BY BoundAssumption DEF TypeOK
        <5> QED BY <5>1, <5>2, BoundAssumption DEF TypeOK, Frame
      <4> QED BY <2>3, <3>1, <4>1, <4>2 DEF Splitting
    <3>2. CASE depth = 2
      <4>1. frame'[1] = frame[1] /\ depth' > 0
        BY <2>3, <3>2, BoundAssumption DEF TypeOK
      <4> QED BY <3>2, <4>1 DEF Splitting
    <3> QED BY <2>2, <2>3, <3>1, <3>2 DEF Views
  <2> QED BY <1>2, <2>1, <2>3, <2>4, OuterPlace, SameDeleted
<1>3. CASE SkipEarly \/ EndLoop
  <2>1. freed' = freed /\ ~ Splitting'
    <3>1. depth > 0 /\ freed' = freed /\ depth' = depth - 1 /\ frame[depth].at # "call"
      BY <1>3 DEF SkipEarly, EndLoop, At, Top, Pop
    <3>2. Views BY NestingViews
    <3>3. CASE depth = 1 BY <3>1, <3>3 DEF Splitting
    <3>4. CASE depth = 2
      <4>1. SkipEarly BY <1>3, <3>4 DEF EndLoop, At, Top, Nesting
      <4>2. ~ SplitUp' /\ ~ Splitting' BY <4>1, StepSkipEarly
      <4> QED BY <3>1, <4>2
    <3> QED BY <3>1, <3>2, <3>3, <3>4 DEF Views
  <2> QED BY <2>1 DEF Deleted
<1>4. CASE FillMaps
  <2>1. depth = 1
    <3>1. Views BY NestingViews
    <3>2. depth > 0 /\ frame[depth].at = "builder" /\ ~ Missing(frame[depth].ev)
      BY <1>4 DEF FillMaps, At, Top
    <3>3. depth # 2 BY <3>2, BuiltPasses DEF Nesting
    <3> QED BY <3>1, <3>2, <3>3 DEF Views
  <2>2. frame'[1].at = "loop" /\ freed' = freed \ {1}
    <3>1. frame'[1] = Filled(frame[1]) /\ frame[1] \in Frame
      BY <1>4, <2>1, BoundAssumption DEF FillMaps, Top, TypeOK
    <3> QED BY <1>4, <2>1, <3>1, FilledTypes DEF FillMaps
  <2> QED BY <2>2 DEF Deleted
<1>5. CASE BuildNext
  <2>1. PICK g : /\ g \notin HandedOut /\ HandedOut' = HandedOut \cup {g}
                 /\ Splitting /\ Splitting' /\ freed' = freed /\ frame[1].at = "loop"
    BY <1>5, BuiltIsNew
  <2> QED BY <2>1 DEF Deleted
<1>6. CASE DeleteBuilt
  <2>1. Splitting /\ Splitting' /\ HandedOut' = HandedOut
    BY <1>6, StepDeleteBuilt
  <2>2. depth = 1
    <3>1. Views BY NestingViews
    <3>2. depth > 0 /\ frame[depth].at = "call"
      BY <1>6 DEF DeleteBuilt, At, Top
    <3> QED BY <3>1, <3>2 DEF Views, Nesting
  <2>3. frame[1].at = "call" /\ frame'[1].at = "loop"
    BY <1>6, <2>2, BoundAssumption DEF DeleteBuilt, At, Top, TypeOK, Frame
  <2>4. freed' = IF Variant = "hodo2016" THEN freed \cup {1} ELSE freed
    BY <1>6, <2>2 DEF DeleteBuilt
  <2> QED BY <2>1, <2>3, <2>4 DEF Deleted
<1>7. CASE Crash \/ UNCHANGED vars
  <2>1. UNCHANGED <<depth, frame, freed>> BY <1>7 DEF Crash, vars
  <2>2. HandedOut' = HandedOut BY <1>7, StepCrash
  <2> QED BY <2>1, <2>2, SameDeleted DEF Splitting
<1> QED BY <1>1, <1>2, <1>3, <1>4, <1>5, <1>6, <1>7 DEF Next, Run

\* No collection is deleted while an event holds it before the second event of a readout
\* cycle is built, and in the builders that do not attach hodoscopes none ever is: where
\* the claim "we created the event so we need to delete it" does hold.
SafeBeforeTheSecond == NoDangling \/ (Variant = "hodo2016" /\ \E e, f \in HandedOut : e # f)

\* The first event built of a readout cycle never dangles, nor does any of a builder without
\* hodoscopes (delete evt_new, EUDAQEventBuilder2016_woBIF.cc:398-400).
THEOREM DanglesFromTheSecondOn == Spec => []SafeBeforeTheSecond
<1>1. Init => Deleted
  BY BoundAssumption DEF Init, Deleted, Splitting
<1>2. Inv /\ Deleted => SafeBeforeTheSecond
  <2> SUFFICES ASSUME Inv, Deleted, NEW d \in 1 .. depth, frame[d].at = "call", d \in freed
               PROVE  Variant = "hodo2016" /\ \E e, f \in HandedOut : e # f
    BY DEF SafeBeforeTheSecond, NoDangling, Dangling
  <2>1. d = 1 /\ Variant = "hodo2016"
    BY DEF Deleted
  <2>2. Splitting
    BY <2>1, BoundAssumption DEF Splitting, Inv, TypeOK
  <2> QED BY <2>1, <2>2 DEF Deleted
<1>3. Spec => []Deleted
  BY <1>1, DeletedNext, Invariant, PTL DEF Spec
<1> QED BY <1>2, <1>3, Invariant, PTL

--------------------------------------------------------------------------------
(* Every call ends: the argument behind EveryEventEnds without its fairness. *)

\* The steps a call can still take: building, calling, returning and deleting for every
\* crossing left, of which there are no more than blocks.
OuterSteps(f) ==
  CASE f.at = "builder" -> 4 * Cardinality(Accepted(f.ev)) + 3
    [] f.at = "loop"    -> 4 * Cardinality(f.todo) + 1
    [] f.at = "call"    -> 4 * Cardinality(f.todo) + 2
    [] OTHER            -> 1
InnerSteps(f) == IF f.at = "builder" THEN 2 ELSE 1
StepsLeft ==
  (IF depth > 0 THEN OuterSteps(frame[1]) ELSE 0) + (IF depth = 2 THEN InnerSteps(frame[2]) ELSE 0)

\* The next step is there for a call that has not ended: for a builder entered one of the
\* three ways out of its checks, and in the loop a lowest crossing and a call to nest.
CanGoOn ==
  running /\ depth > 0 =>
    \/ Top.at \in {"builder", "call", "down"}
    \/ Top.at = "loop" /\ Top.todo = {}
    \/ Top.at = "loop" /\ depth < MaxDepth /\ \E p \in Top.todo : Lowest(Top.todo, p)

LEMMA BlockCounts ==
  ASSUME NEW S \in SUBSET Block
  PROVE  /\ Cardinality(S) \in Nat
         /\ \A T \in SUBSET S : T # S => Cardinality(T) + 1 <= Cardinality(S)
<1>1. IsFiniteSet(S) BY BlockAssumption, FS_Subset
<1>2. Cardinality(S) \in Nat BY <1>1, FS_CardinalityType
<1>3. ASSUME NEW T \in SUBSET S, T # S PROVE Cardinality(T) + 1 <= Cardinality(S)
  <2>1. Cardinality(T) \in Nat /\ Cardinality(T) < Cardinality(S)
    BY <1>1, <1>3, FS_Subset, FS_CardinalityType
  <2> QED BY <1>2, <2>1
<1> QED BY <1>2, <1>3

LEMMA OuterStepsCount ==
  ASSUME NEW f \in Frame
  PROVE  OuterSteps(f) \in Nat /\ OuterSteps(f) > 0
<1>1. Cardinality(Accepted(f.ev)) \in Nat /\ Cardinality(f.todo) \in Nat
  BY AcceptedBlocks, BlockCounts DEF Frame
<1> QED BY <1>1 DEF OuterSteps

LEMMA StepsLeftIsNat == TypeOK => StepsLeft \in Nat
<1> SUFFICES ASSUME TypeOK PROVE StepsLeft \in Nat
  OBVIOUS
<1>1. OuterSteps(frame[1]) \in Nat
  BY OuterStepsCount, BoundAssumption DEF TypeOK
<1> QED BY <1>1 DEF StepsLeft, InnerSteps

LEMMA StepsLeftIsNatNext == TypeOK' => (StepsLeft \in Nat)'
BY StepsLeftIsNat, PTL

\* There is a lowest crossing in every set of blocks.
LEMMA LowestIsThere ==
  ASSUME NEW S \in SUBSET Block, S # {}
  PROVE  \E p \in S : Lowest(S, p)
<1> DEFINE T == {p.bx : p \in S}
<1>1. T \subseteq Nat /\ T # {}
  BY BlockAssumption DEF Block
<1> HIDE DEF T
<1> DEFINE R == {pair \in Nat \X Nat : pair[1] < pair[2]}
<1>2. PICK b \in T : \A c \in T : <<c, b>> \notin R
  <2>1. R = OpToRel(<, Nat)
    BY DEF OpToRel
  <2>2. IsWellFoundedOn(R, Nat)
    BY <2>1, NatLessThanWellFounded
  <2> HIDE DEF R
  <2> QED BY <1>1, <2>2, WFMin
<1>3. ASSUME NEW c \in T PROVE b <= c
  <2>1. c \in Nat /\ b \in Nat
    BY <1>1
  <2>2. c < b => <<c, b>> \in R
    BY <2>1
  <2>3. ~ (c < b)
    BY <1>2, <2>2
  <2> QED BY <2>1, <2>3
<1>4. PICK p \in S : p.bx = b
  BY <1>2 DEF T
<1>5. \A q \in S : q.bx \in T
  BY DEF T
<1> QED BY <1>3, <1>4, <1>5 DEF Lowest

\* A call that has not ended can always take its next step, and every step leaves it fewer
\* to take: the loop over rData and the calls nested in it come to their end, whatever is
\* in the event (processEvent of the three builders).
THEOREM CallsGoOn == Spec => []CanGoOn
<1>1. Inv => CanGoOn
  <2> SUFFICES ASSUME Inv, depth > 0, Top.at \notin {"builder", "call", "down"}
               PROVE  /\ Top.at = "loop"
                      /\ Top.todo # {} => depth < MaxDepth /\ \E p \in Top.todo : Lowest(Top.todo, p)
    BY DEF CanGoOn
  <2>1. depth \in 1 .. MaxDepth /\ Top \in Frame
    BY FrameTypes DEF Inv
  <2>2. Top.at = "loop"
    BY <2>1 DEF Inv, TypeOK, Top, Frame
  <2>3. depth = 1
    BY <2>2, NestingViews DEF Inv, Views, Nesting, Top
  <2>4. Top.todo # {} => \E p \in Top.todo : Lowest(Top.todo, p)
    BY <2>1, LowestIsThere DEF Frame
  <2> QED BY <2>2, <2>3, <2>4, BoundAssumption
<1> QED BY <1>1, Invariant, PTL

\* Every step of a call leaves fewer steps to take (the loop over rData and the nested
\* processEvent). With CallsGoOn: under the fairness of FairSpec, which gives the call its next step
\* until none is left, this is why EveryEventEnds holds.
THEOREM CallsComeToAnEnd == Spec => [][Run => StepsLeft' \in Nat /\ StepsLeft' < StepsLeft]_vars
<1>1. Inv /\ Inv' /\ Run => StepsLeft' \in Nat /\ StepsLeft' < StepsLeft
  <2> SUFFICES ASSUME Inv, Inv', Run PROVE StepsLeft' \in Nat /\ StepsLeft' < StepsLeft
    OBVIOUS
  <2> USE DEF Inv
  <2>1. StepsLeft \in Nat /\ StepsLeft' \in Nat
    <3>1. StepsLeft \in Nat BY StepsLeftIsNat
    <3> QED BY <3>1, StepsLeftIsNatNext
  <2>2. Views /\ depth > 0
    BY NestingViews DEF Run, ReturnEarly, SkipEarly, FillMaps, BuildNext, DeleteBuilt,
                        EndLoop, Downstream, At
  <2>3. /\ 1 \in 1 .. MaxDepth /\ 2 \in 1 .. MaxDepth
        /\ frame[1] \in Frame /\ frame'[1] \in Frame
        /\ frame[2] \in Frame /\ DOMAIN frame = 1 .. MaxDepth
    BY BoundAssumption DEF TypeOK
  <2>4. OuterSteps(frame[1]) \in Nat /\ OuterSteps(frame[1]) > 0
    BY <2>3, OuterStepsCount
  <2>5. CASE depth = 2
    <3>1. frame[2].at \in {"builder", "down"} /\ ~ SkipEarly /\ ~ FillMaps
      <4>1. frame[2].at \in {"builder", "down"} BY <2>5 DEF Nesting
      <4>2. Missing(frame[2].ev) /\ ~ Skips(frame[2].ev) BY <2>5, BuiltPasses DEF Nesting
      <4> QED BY <2>5, <4>1, <4>2 DEF SkipEarly, FillMaps, Top
    <3>2. ReturnEarly \/ Downstream
      BY <2>5, <3>1 DEF Run, BuildNext, DeleteBuilt, EndLoop, At, Top
    <3>3. CASE ReturnEarly
      <4>1. depth' = 2 /\ frame[2].at = "builder" /\ frame' = [frame EXCEPT ![2].at = "down"]
        BY <2>5, <3>3 DEF ReturnEarly, At, Top
      <4>2. frame'[1] = frame[1] /\ frame'[2].at = "down"
        BY <2>3, <4>1 DEF Frame
      <4> QED BY <2>1, <2>4, <2>5, <4>1, <4>2 DEF StepsLeft, InnerSteps
    <3>4. CASE Downstream
      <4>1. depth' = 1 /\ frame' = [frame EXCEPT ![2] = NoFrame]
        BY <2>5, <3>4 DEF Downstream, Pop
      <4>2. frame'[1] = frame[1]
        BY <2>3, <4>1
      <4> QED BY <2>1, <2>4, <2>5, <4>1, <4>2 DEF StepsLeft, InnerSteps
    <3> QED BY <3>2, <3>3, <3>4
  <2>6. CASE depth = 1
    <3>1. StepsLeft = OuterSteps(frame[1]) /\ Top = frame[1]
      BY <2>4, <2>6 DEF StepsLeft, Top
    <3>2. CASE SkipEarly \/ EndLoop \/ Downstream
      <4>1. depth' = 0
        BY <2>6, <3>2 DEF SkipEarly, EndLoop, Downstream, Pop
      <4> QED BY <2>1, <2>4, <3>1, <4>1 DEF StepsLeft
    <3>3. CASE ReturnEarly
      <4>1. depth' = 1 /\ frame[1].at = "builder" /\ frame' = [frame EXCEPT ![1].at = "down"]
        BY <2>6, <3>3 DEF ReturnEarly, At, Top
      <4>2. frame'[1].at = "down"
        BY <2>3, <4>1 DEF Frame
      <4>3. Cardinality(Accepted(frame[1].ev)) \in Nat
        BY <2>3, AcceptedBlocks, BlockCounts DEF Frame
      <4>4. OuterSteps(frame[1]) = 4 * Cardinality(Accepted(frame[1].ev)) + 3
        BY <4>1 DEF OuterSteps
      <4>5. OuterSteps(frame'[1]) = 1
        BY <4>2 DEF OuterSteps
      <4>6. StepsLeft' = OuterSteps(frame'[1])
        BY <4>1, <4>5 DEF StepsLeft, OuterSteps
      <4> QED BY <2>1, <3>1, <4>3, <4>4, <4>5, <4>6
    <3>4. CASE FillMaps
      <4>1. depth' = 1 /\ frame[1].at = "builder" /\ frame'[1] = Filled(frame[1])
        BY <2>3, <2>6, <3>4 DEF FillMaps, At, Top
      <4>2. frame'[1].at = "loop" /\ frame'[1].todo = Accepted(frame[1].ev)
        BY <2>3, <4>1 DEF Filled, Frame
      <4>3. Cardinality(Accepted(frame[1].ev)) \in Nat
        BY <2>3, AcceptedBlocks, BlockCounts DEF Frame
      <4>4. OuterSteps(frame[1]) = 4 * Cardinality(Accepted(frame[1].ev)) + 3
        BY <4>1 DEF OuterSteps
      <4>5. OuterSteps(frame'[1]) = 4 * Cardinality(Accepted(frame[1].ev)) + 1
        BY <4>2 DEF OuterSteps
      <4>6. StepsLeft' = OuterSteps(frame'[1])
        BY <4>1, <4>3, <4>5 DEF StepsLeft, OuterSteps
      <4> QED BY <2>1, <3>1, <4>3, <4>4, <4>5, <4>6
    <3>5. CASE DeleteBuilt
      <4>1. depth' = 1 /\ frame[1].at = "call" /\ frame' = [frame EXCEPT ![1].at = "loop"]
        BY <2>6, <3>5 DEF DeleteBuilt, At, Top
      <4>2. frame'[1].at = "loop" /\ frame'[1].todo = frame[1].todo
        BY <2>3, <4>1 DEF Frame
      <4>3. Cardinality(frame[1].todo) \in Nat
        BY <2>3, BlockCounts DEF Frame
      <4>4. OuterSteps(frame[1]) = 4 * Cardinality(frame[1].todo) + 2
        BY <4>1 DEF OuterSteps
      <4>5. OuterSteps(frame'[1]) = 4 * Cardinality(frame[1].todo) + 1
        BY <4>2 DEF OuterSteps
      <4>6. StepsLeft' = OuterSteps(frame'[1])
        BY <4>1, <4>3, <4>5 DEF StepsLeft, OuterSteps
      <4> QED BY <2>1, <3>1, <4>3, <4>4, <4>5, <4>6
    <3>6. CASE BuildNext
      <4>1. PICK p \in frame[1].todo :
              /\ depth' = 2 /\ frame[1].at = "loop"
              /\ frame' = [frame EXCEPT ![1] = Taken(frame[1], p.bx),
                                        ![2] = Enter(Built(Slice(frame[1].todo, p.bx)))]
        <5>1. PICK p \in Top.todo :
                frame' = [frame EXCEPT ![depth] = Taken(Top, p.bx),
                                       ![depth + 1] = Enter(Built(Slice(Top.todo, p.bx)))]
          BY <3>6 DEF BuildNext
        <5>2. depth' = 2 /\ Top.at = "loop" /\ depth + 1 = 2
          BY <2>6, <3>6 DEF BuildNext, At
        <5> HIDE DEF Top
        <5> QED BY <2>6, <3>1, <5>1, <5>2
      <4> DEFINE S == frame[1].todo
                 rest == S \ Slice(S, p.bx)
      <4>2. frame'[1] = Taken(frame[1], p.bx) /\ frame'[2] = Enter(Built(Slice(S, p.bx)))
        BY <2>3, <4>1
      <4>3. frame'[1].at = "call" /\ frame'[1].todo = rest /\ frame'[2].at = "builder"
        BY <2>3, <4>2 DEF Taken, Enter, Frame
      <4>4. S \in SUBSET Block /\ rest \in SUBSET S /\ rest # S
        BY <2>3, <4>1 DEF Frame, Slice
      <4> HIDE DEF S, rest
      <4>5. Cardinality(S) \in Nat /\ Cardinality(rest) \in Nat /\ Cardinality(rest) + 1 <= Cardinality(S)
        BY <4>4, BlockCounts
      <4>6. OuterSteps(frame[1]) = 4 * Cardinality(S) + 1
        BY <4>1 DEF OuterSteps, S
      <4>7. OuterSteps(frame'[1]) = 4 * Cardinality(rest) + 2 /\ InnerSteps(frame'[2]) = 2
        BY <4>3 DEF OuterSteps, InnerSteps
      <4>8. StepsLeft' = 4 * Cardinality(rest) + 4
        <5>1. StepsLeft' = OuterSteps(frame'[1]) + InnerSteps(frame'[2])
          BY <4>1 DEF StepsLeft, OuterSteps, InnerSteps
        <5> QED BY <4>5, <4>7, <5>1
      <4> QED BY <2>1, <3>1, <4>5, <4>6, <4>8
    <3> QED BY <3>2, <3>3, <3>4, <3>5, <3>6 DEF Run
  <2> QED BY <2>2, <2>5, <2>6 DEF Views
<1> QED BY <1>1, Invariant, PTL DEF Spec

===============================================================================
