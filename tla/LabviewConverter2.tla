--------------------------- MODULE LabviewConverter2 ---------------------------
(***************************************************************************)
(* The Labview converter: it reads the text file of a run line by line,    *)
(* gathers the data lines of one readout cycle and, at the first line of   *)
(* the next, writes one LCIO event per bunch crossing (BXID).              *)
(* LabviewConverter2.cc, readDataSource.                                   *)
(*                                                                         *)
(* The file is the environment: every line it can hold is a choice. A data *)
(* line is named by its place in input, the data lines read so far. The    *)
(* empty line after a final newline is read as a data line of zeros. With  *)
(* each line stands whether a time was known when it came (history).       *)
(***************************************************************************)
EXTENDS Integers, Sequences, FiniteSets

CONSTANTS
  DetectorType,  \* _detectorTypeName
  Cycles,        \* readout cycle numbers of the data lines
  Bx,            \* bunch-crossing numbers of the data lines
  LastBx,        \* the last bunch crossing there is (4095 in the code)
  Layers,        \* length of the array TSensor (15 in the code)
  Formats,       \* temperature formats the file uses: "new", "old"
  MaxLines,      \* bound: lines in the file
  MaxData        \* bound: data lines in the file

ASSUME DetectorAssumption == DetectorType \in {"AHC2M", "AEC", "AHC2"}
ASSUME CyclesAssumption == Cycles \subseteq Nat /\ Bx \subseteq Nat /\ LastBx \in Nat
ASSUME LayersAssumption == Layers \in Nat /\ Layers >= 2 /\ Formats \subseteq {"new", "old"}
ASSUME BoundAssumption == MaxLines \in Nat /\ MaxData \in Nat

VARIABLES
  lines,        \* lines read
  input,        \* the data lines read (history)
  pc,           \* "read": next line; "write": in the loop over rData; "done"
  lastCycleNr,
  DiscardCycle,
  rData,        \* the data lines of the present cycle
  todo,         \* those of them the loop over rData has still to write
  LcioEventNr,
  iEvtTime,     \* whether a time is known (not 0)
  index,        \* the next slot of TSensor
  newTemp, oldTemp, writeoutTemperature,
  nCorruptedCycle,
  dropped,      \* data lines of discarded cycles (history)
  sensed,       \* temperature lines since the last temperature collection (history)
  events        \* the events numbered so far (history)

file == <<lines, input, pc>>
cycle == <<lastCycleNr, DiscardCycle, rData, todo, nCorruptedCycle, dropped>>
temperature == <<index, newTemp, oldTemp, writeoutTemperature, sensed>>
output == <<LcioEventNr, events>>
vars == <<file, cycle, temperature, output, iEvtTime>>

DataLine == [cyc : Cycles \cup {0}, bx : Bx \cup {0}, timed : BOOLEAN]
EmptyLine == [cyc |-> 0, bx |-> 0, timed |-> iEvtTime]

\* An event: its data lines, whether Marlin got it, and the temperature blocks
\* attached to it (-1: no temperature collection) out of the lines sensed.
Event == [nr : Nat, blocks : SUBSET (1 .. MaxData), sent : BOOLEAN,
          temps : Int, sensed : Nat]

Strange(i) == input[i].bx > LastBx
Slice(S, b) == {i \in S : input[i].bx = b}
\* The first entry of the map rData.
First(S, i) == i \in S /\ \A j \in S : input[i].bx <= input[j].bx

Init ==
  /\ lines = 0
  /\ input = <<>>
  /\ pc = "read"
  /\ lastCycleNr = -1
  /\ DiscardCycle = FALSE
  /\ rData = {}
  /\ todo = {}
  /\ LcioEventNr = 0
  /\ iEvtTime = FALSE
  /\ index = 0
  /\ newTemp = TRUE
  /\ oldTemp = FALSE
  /\ writeoutTemperature = TRUE
  /\ nCorruptedCycle = 0
  /\ dropped = {}
  /\ sensed = 0
  /\ events = {}

NextLine ==
  /\ pc = "read"
  /\ lines < MaxLines
  /\ lines' = lines + 1

--------------------------------------------------------------------------------
(* Comment lines.                                                           *)

\* A line with a date. The converter gives up on a detector it does not know;
\* a date it cannot parse leaves the time alone.
ReadDate ==
  /\ NextLine
  /\ IF DetectorType \in {"AHC2M", "AEC"}
     THEN iEvtTime' \in {iEvtTime, TRUE} /\ pc' = pc
     ELSE iEvtTime' = iEvtTime /\ pc' = "done"
  /\ UNCHANGED <<input, cycle, temperature, output>>

\* A line with a Unix time: it may be 0, and what cannot be read as a number sets
\* 0 or leaves the time alone.
ReadUnixtime ==
  /\ NextLine
  /\ iEvtTime' \in BOOLEAN
  /\ UNCHANGED <<input, pc, cycle, temperature, output>>

\* Mutant: both formats wrap on the length of the array, one too late.
SlotTooLate(format) == IF index > Layers THEN 0 ELSE index

\* The slot of TSensor a temperature line goes to, by its format.
Slot(format) ==
  IF format = "new" THEN (IF index = Layers - 1 THEN 0 ELSE index)
  ELSE (IF index > Layers - 1 THEN 0 ELSE index)

\* A temperature line. The flags are set before the detector is looked at.
ReadTemperature ==
  /\ NextLine
  /\ \E format \in Formats :
       /\ newTemp' = (format = "new")
       /\ oldTemp' = (format = "old")
       /\ writeoutTemperature' = TRUE
       /\ IF DetectorType = "AHC2M"
          THEN index' = Slot(format) + 1 /\ sensed' = sensed + 1 /\ pc' = pc
          ELSE index' = Slot(format) /\ sensed' = sensed /\ pc' = "done"
  /\ UNCHANGED <<input, cycle, output, iEvtTime>>

--------------------------------------------------------------------------------
(* Data lines.                                                              *)

\* The last data line read, whose cycle number the converter looks at.
Current == input[Len(input)]

\* The line belongs to the present cycle.
SameCycle(line, discard) ==
  /\ lastCycleNr = line.cyc
  /\ DiscardCycle' = discard
  /\ rData' = rData \cup {Len(input) + 1}
  /\ UNCHANGED <<pc, lastCycleNr, todo, nCorruptedCycle, dropped>>

\* Mutant: the cycle is not marked as good again.
DiscardForGood(line, discard) ==
  /\ lastCycleNr # line.cyc
  /\ discard
  /\ nCorruptedCycle' = nCorruptedCycle + 1
  /\ dropped' = dropped \cup rData
  /\ lastCycleNr' = line.cyc
  /\ DiscardCycle' = TRUE
  /\ rData' = {Len(input) + 1}
  /\ UNCHANGED <<pc, todo>>

\* The line opens a new cycle and the previous one is discarded.
Discard(line, discard) ==
  /\ lastCycleNr # line.cyc
  /\ discard
  /\ nCorruptedCycle' = nCorruptedCycle + 1
  /\ dropped' = dropped \cup rData
  /\ lastCycleNr' = line.cyc
  /\ DiscardCycle' = FALSE
  /\ rData' = {Len(input) + 1}
  /\ UNCHANGED <<pc, todo>>

\* The line opens a new cycle and the previous one is written out.
StartWriting(line, discard) ==
  /\ lastCycleNr # line.cyc
  /\ ~ discard
  /\ pc' = "write"
  /\ todo' = rData
  /\ UNCHANGED <<lastCycleNr, DiscardCycle, rData, nCorruptedCycle, dropped>>

\* A data line, or the empty line at the end of the file. The range of its BXID
\* is looked at before its cycle number.
ReadData ==
  /\ NextLine
  /\ Len(input) < MaxData
  /\ \E line \in [cyc : Cycles, bx : Bx, timed : {iEvtTime}] \cup {EmptyLine} :
       /\ input' = Append(input, line)
       /\ LET discard == DiscardCycle \/ line.bx > LastBx IN
            SameCycle(line, discard) \/ Discard(line, discard)
              \/ StartWriting(line, discard)
  /\ UNCHANGED <<temperature, output, iEvtTime>>

\* What an event takes along of the temperatures.
Attached == IF writeoutTemperature /\ (newTemp \/ oldTemp) THEN index ELSE -1

\* Mutant: the flags stay up once the temperatures are attached.
TakeTemperatureKept ==
  /\ index' = 0
  /\ sensed' = 0
  /\ UNCHANGED <<newTemp, oldTemp, writeoutTemperature>>

\* Mutant: the next block of temperatures goes behind the one attached.
TakeTemperatureBehind ==
  IF writeoutTemperature /\ (newTemp \/ oldTemp)
  THEN /\ index' = index
       /\ sensed' = 0
       /\ writeoutTemperature' = FALSE
       /\ newTemp' = FALSE
       /\ oldTemp' = (oldTemp /\ newTemp)
  ELSE UNCHANGED temperature

TakeTemperature ==
  IF writeoutTemperature /\ (newTemp \/ oldTemp)
  THEN /\ index' = 0
       /\ sensed' = 0
       /\ writeoutTemperature' = FALSE
       /\ newTemp' = FALSE
       /\ oldTemp' = (oldTemp /\ newTemp)
  ELSE UNCHANGED temperature

\* Mutant: events are numbered when they are sent.
NumberSent == LcioEventNr' = LcioEventNr + (IF iEvtTime THEN 1 ELSE 0)
Number == LcioEventNr' = LcioEventNr + 1

\* Mutant: an event without a time is sent like any other.
WriteEventUntimed ==
  /\ pc = "write"
  /\ \E i \in todo :
       /\ First(todo, i)
       /\ todo' = todo \ Slice(todo, input[i].bx)
       /\ events' = events \cup
            {[nr |-> LcioEventNr + 1, blocks |-> Slice(todo, input[i].bx),
              sent |-> TRUE, temps |-> Attached, sensed |-> sensed]}
  /\ Number
  /\ TakeTemperature
  /\ UNCHANGED <<file, iEvtTime, lastCycleNr, DiscardCycle, rData,
                 nCorruptedCycle, dropped>>

\* One event of the loop over rData: it has its number before the converter
\* sees that there is no time and leaves it.
WriteEvent ==
  /\ pc = "write"
  /\ \E i \in todo :
       /\ First(todo, i)
       /\ todo' = todo \ Slice(todo, input[i].bx)
       /\ events' = events \cup
            {[nr |-> LcioEventNr + 1, blocks |-> Slice(todo, input[i].bx),
              sent |-> iEvtTime, temps |-> IF iEvtTime THEN Attached ELSE -1,
              sensed |-> sensed]}
  /\ Number
  /\ IF iEvtTime THEN TakeTemperature ELSE UNCHANGED temperature
  /\ UNCHANGED <<file, iEvtTime, lastCycleNr, DiscardCycle, rData,
                 nCorruptedCycle, dropped>>

\* Mutant: the map of the previous cycle is not cleared.
StartCycleUncleared ==
  /\ pc = "write"
  /\ todo = {}
  /\ pc' = "read"
  /\ lastCycleNr' = Current.cyc
  /\ DiscardCycle' = FALSE
  /\ rData' = rData \cup {Len(input)}
  /\ UNCHANGED <<lines, input, todo, nCorruptedCycle, dropped, temperature,
                 output, iEvtTime>>

\* The cycle is written: the line that opened the next one starts its map.
StartCycle ==
  /\ pc = "write"
  /\ todo = {}
  /\ pc' = "read"
  /\ lastCycleNr' = Current.cyc
  /\ DiscardCycle' = FALSE
  /\ rData' = {Len(input)}
  /\ UNCHANGED <<lines, input, todo, nCorruptedCycle, dropped, temperature,
                 output, iEvtTime>>

\* The line read last was the last of the file.
EndOfFile ==
  /\ pc = "read"
  /\ pc' = "done"
  /\ UNCHANGED <<lines, input, cycle, temperature, output, iEvtTime>>

Next == \/ ReadDate \/ ReadUnixtime \/ ReadTemperature \/ ReadData
        \/ WriteEvent \/ StartCycle \/ EndOfFile

Spec == Init /\ [][Next]_vars
\* The loop over rData runs to its end; nothing is assumed of the file.
FairSpec == Spec /\ WF_vars(WriteEvent \/ StartCycle)

--------------------------------------------------------------------------------
(* Properties.                                                              *)

TypeOK ==
  /\ lines \in 0 .. MaxLines
  /\ input \in Seq(DataLine) /\ Len(input) <= MaxData
  /\ pc \in {"read", "write", "done"}
  /\ lastCycleNr \in Cycles \cup {-1, 0}
  /\ DiscardCycle \in BOOLEAN
  /\ rData \subseteq 1 .. Len(input)
  /\ todo \subseteq rData
  /\ LcioEventNr \in Nat
  /\ iEvtTime \in BOOLEAN
  /\ index \in Nat /\ sensed \in Nat
  /\ {newTemp, oldTemp, writeoutTemperature} \subseteq BOOLEAN
  /\ nCorruptedCycle \in Nat
  /\ dropped \subseteq 1 .. Len(input)
  /\ events \subseteq Event

\* The lines Marlin got, and those that may still be written.
Written == UNION {e.blocks : e \in {f \in events : f.sent}}
Pending == IF pc = "write" THEN todo \cup {Len(input)} ELSE rData

\* The lines around line i with its cycle number.
Segment(i) ==
  {j \in 1 .. Len(input) : \A k \in 1 .. Len(input) :
      (i <= k /\ k <= j) \/ (j <= k /\ k <= i) => input[k].cyc = input[i].cyc}

\* A time was known when the line came that put an end to the cycle of line i.
TimeKnown(i) ==
  \E j \in 1 .. Len(input) :
    j - 1 \in Segment(i) /\ j \notin Segment(i) /\ input[j].timed

\* Every data line read is accounted for. Marlin gets it, once, if and only if its
\* cycle was over with a time known and was not discarded: an event without a
\* time is left with its lines (the map rData, its loop, the continue and the
\* clear at LabviewConverter2.cc:377-548). Between two lines it is pending exactly
\* as long as no line of another cycle has come.
Accounted ==
  /\ \A i \in 1 .. Len(input) :
       /\ i \in Written <=> i \notin Pending \cup dropped /\ TimeKnown(i)
       /\ pc # "write" => (i \in Pending <=> i \in Segment(Len(input)))
  /\ Pending \cap dropped = {}
  /\ \A e, f \in events : e.blocks \cap f.blocks # {} => e = f

\* An event has one bunch crossing of one readout cycle, all its lines and no
\* others, although the cycle is known to be over only by a line of the next.
WholeCrossing ==
  \A e \in events : \A i \in e.blocks : e.blocks = Slice(Segment(i), input[i].bx)

\* A cycle is discarded as a whole, and only for a BXID out of range: one of its
\* own, or that of the line that ended it (LabviewConverter2.cc:358-373: the
\* range is looked at before the cycle number).
DiscardedWhole ==
  /\ \A i \in dropped :
       /\ Segment(i) \subseteq dropped
       /\ \E j \in 1 .. Len(input) :
            Strange(j) /\ (j \in Segment(i) \/ j - 1 \in Segment(i))
  /\ \A e \in events : \A i \in e.blocks : \A j \in Segment(i) :
       Strange(j) => j - 1 \notin Segment(i)

\* A set of temperatures is attached once: after the first collection no event
\* has one unless temperature lines were read in between.
TemperatureOnce ==
  \A e, f \in events : e.temps # -1 /\ f.temps # -1 /\ e.nr < f.nr => f.sensed > 0

\* The temperature lines since the last collection are all attached, as long as
\* they are no more than there are layers.
TemperatureComplete ==
  \A e \in events : e.temps # -1 /\ e.sensed <= Layers => e.temps = e.sensed

\* The slot a temperature line is stored in is one of TSensor.
SensorInArray == index <= Layers

\* As the comments have it: "Check for BXID out of range (over 4095)" and
\* "Discard the cycle if strange BXID" (LabviewConverter2.cc:357, 373).
StrangeDiscarded ==
  \A i \in Written : ~ Strange(i)

\* As the comment has it: "build events [...] until all collected data have been
\* asigned to an event" (LabviewConverter2.cc:159-162).
AllAssigned ==
  pc = "done" => \A i \in 1 .. Len(input) : input[i].cyc # 0 => i \in Written \cup dropped

\* Writing out a cycle is splitting it up; an event without a time has left the
\* map like any other.
Line(S) == {[line |-> i, bx |-> input[i].bx] : i \in S}
Splitter == INSTANCE CycleSplitter
  WITH Block <- [line : Nat, bx : Nat],
       pool <- Line(todo),
       out <- IF pc = "write"
              THEN {[nr |-> e.nr, blocks |-> Line(e.blocks)] :
                      e \in {f \in events : f.blocks \subseteq rData}}
              ELSE {},
       nr <- LcioEventNr

ImplementsSplitter == Splitter!FairSpec

================================================================================
