------------------------ MODULE LabviewConverter2_proofs ------------------------
(***************************************************************************)
(* Every line is accounted for, cycles are written or discarded whole,     *)
(* temperatures are attached once, and writing a cycle is splitting it up, *)
(* in a loop that ends, for any file of any length.                        *)
(***************************************************************************)
EXTENDS LabviewConverter2, FiniteSetTheorems, WellFoundedInduction, TLAPS

\* Lines a to b are a run of lines with one cycle number, from its first line on.
Bounds(a, b) ==
  /\ a \in 1 .. Len(input) /\ b \in a .. Len(input)
  /\ \A k \in a .. b : input[k].cyc = input[a].cyc
  /\ a > 1 => input[a - 1].cyc # input[a].cyc

\* A line of another cycle has come.
Ended(a, b) ==
  /\ Bounds(a, b)
  /\ b < Len(input) /\ input[b + 1].cyc # input[a].cyc

\* Only the line that opened it may have a strange crossing: it was held against the
\* cycle before.
Good(a, b) == \A k \in (a + 1) .. b : ~Strange(k)

\* The line that put an end to the cycle came with a time known.
Timed(j) == input[j].timed

Phases ==
  /\ pc # "write" => todo = {}
  /\ pc = "write" => /\ Len(input) >= 1 /\ Len(input) \notin rData /\ ~DiscardCycle
                     /\ Timed(Len(input)) <=> iEvtTime

\* What has left the map in an event, whether Marlin got it or not.
Gone == UNION {e.blocks : e \in events}

\* A data line is pending, discarded or in an event, and only one of these.
Partition ==
  /\ 1 .. Len(input) = Gone \cup Pending \cup dropped
  /\ Gone \cap Pending = {} /\ Gone \cap dropped = {} /\ Pending \cap dropped = {}
  /\ \A e, f \in events : e.blocks \cap f.blocks # {} => e = f

\* An event is a crossing of a whole cycle, sent if a time was known at its end.
EventsWhole ==
  \A e \in events :
    \E a, b \in 1 .. Len(input), x \in Nat :
      /\ Ended(a, b) /\ Good(a, b) /\ (e.sent <=> Timed(b + 1))
      /\ e.blocks # {} /\ e.blocks = Slice(a .. b, x)

DroppedWhole ==
  \A i \in dropped :
    \E a, b \in 1 .. Len(input) :
      /\ Ended(a, b) /\ i \in a .. b /\ a .. b \subseteq dropped
      /\ \E k \in a .. (b + 1) : Strange(k)

\* What the map rData holds, and what the flag says of it.
Present(a, b) ==
  /\ Bounds(a, b) /\ rData = a .. b /\ input[a].cyc = lastCycleNr
  /\ b = IF pc = "write" THEN Len(input) - 1 ELSE Len(input)
  /\ pc = "write" => Ended(a, b)
  /\ DiscardCycle => \E k \in a .. b : Strange(k)
  /\ ~DiscardCycle => Good(a, b)

MapWhole ==
  \/ \E a, b \in 1 .. Len(input) : Present(a, b)
  \/ /\ rData = {} /\ lastCycleNr = -1 /\ ~DiscardCycle
     /\ Len(input) = IF pc = "write" THEN 1 ELSE 0

\* The loop takes crossings out of the map one at a time.
LoopWhole == \A i \in todo : Slice(todo, input[i].bx) = Slice(rData, input[i].bx)

Lines == /\ Phases /\ Partition /\ EventsWhole /\ DroppedWhole
         /\ MapWhole /\ LoopWhole

-----------------------------------------------------------------------------
(* Types.                                                                    *)

LEMMA InitLines == Init => TypeOK /\ Lines
<1> SUFFICES ASSUME Init PROVE TypeOK /\ Lines OBVIOUS
<1> USE DEF Init
<1>1. TypeOK
  <2>1. /\ lines \in 0 .. MaxLines /\ Len(input) <= MaxData /\ input \in Seq(DataLine)
        /\ pc \in {"read", "write", "done"} /\ lastCycleNr \in Cycles \cup {-1, 0}
    BY BoundAssumption DEF BoundAssumption
  <2>2. /\ DiscardCycle \in BOOLEAN /\ iEvtTime \in BOOLEAN
        /\ {newTemp, oldTemp, writeoutTemperature} \subseteq BOOLEAN
    OBVIOUS
  <2>3. /\ rData \subseteq 1 .. Len(input) /\ todo \subseteq rData
        /\ dropped \subseteq 1 .. Len(input) /\ events \subseteq Event
        /\ LcioEventNr \in Nat /\ index \in Nat /\ sensed \in Nat /\ nCorruptedCycle \in Nat
    OBVIOUS
  <2>4. QED BY <2>1, <2>2, <2>3 DEF TypeOK
<1>2. Phases /\ EventsWhole /\ DroppedWhole /\ MapWhole /\ LoopWhole
  BY DEF Phases, EventsWhole, DroppedWhole, MapWhole, LoopWhole
<1>3. Partition
  BY DEF Partition, Gone, Pending
<1>4. QED BY <1>1, <1>2, <1>3 DEF Lines

\* A new line leaves the lines before it as they are.
LEMMA LineAdded ==
  ASSUME TypeOK, NEW line \in DataLine, input' = Append(input, line)
  PROVE  /\ Len(input) \in Nat /\ Len(input') = Len(input) + 1
         /\ input' \in Seq(DataLine)
         /\ input'[Len(input) + 1] = line
         /\ \A k \in 1 .. Len(input) : input'[k] = input[k]
  BY DEF TypeOK

LEMMA LineTyped ==
  ASSUME TypeOK, NEW line \in [cyc : Cycles, bx : Bx, timed : {iEvtTime}] \cup {EmptyLine}
  PROVE  /\ line \in DataLine /\ line.cyc \in Nat /\ line.bx \in Nat
         /\ line.timed = iEvtTime
<1>1. iEvtTime \in BOOLEAN
  BY DEF TypeOK
<1>2. CASE line \in [cyc : Cycles, bx : Bx, timed : {iEvtTime}]
  BY <1>1, <1>2, CyclesAssumption DEF CyclesAssumption, DataLine
<1>3. CASE line = [cyc |-> 0, bx |-> 0, timed |-> iEvtTime]
  BY <1>1, <1>3 DEF DataLine
<1>4. QED BY <1>2, <1>3 DEF EmptyLine

LEMMA LinesAreNumbers ==
  ASSUME TypeOK
  PROVE  \A k \in 1 .. Len(input) : /\ input[k] \in DataLine
                                    /\ input[k].cyc \in Nat /\ input[k].bx \in Nat
<1>1. \A k \in 1 .. Len(input) : input[k] \in DataLine
  BY DEF TypeOK
<1>2. \A l \in DataLine : l.cyc \in Nat /\ l.bx \in Nat
  <2>1. \A l \in DataLine : l.cyc \in Cycles \cup {0} /\ l.bx \in Bx \cup {0}
    BY DEF DataLine
  <2>2. Cycles \cup {0} \subseteq Nat /\ Bx \cup {0} \subseteq Nat
    BY CyclesAssumption DEF CyclesAssumption
  <2>3. QED BY <2>1, <2>2
<1>3. QED BY <1>1, <1>2

-----------------------------------------------------------------------------
(* A line of data.                                                           *)

LEMMA EndedStays ==
  ASSUME TypeOK, NEW line \in DataLine, input' = Append(input, line),
         NEW a \in 1 .. Len(input), NEW b \in 1 .. Len(input)
  PROVE  /\ Bounds(a, b) => Bounds(a, b)'
         /\ Ended(a, b) => Ended(a, b)'
         /\ Bounds(a, b) /\ Good(a, b) => Good(a, b)'
         /\ \A x \in Nat : Bounds(a, b) => Slice(a .. b, x)' = Slice(a .. b, x)
         /\ \A k \in 1 .. Len(input) : Strange(k)' <=> Strange(k)
         /\ Ended(a, b) => (Timed(b + 1)' <=> Timed(b + 1))
<1>1. /\ Len(input) \in Nat /\ Len(input') = Len(input) + 1
      /\ \A k \in 1 .. Len(input) : input'[k] = input[k]
  BY LineAdded
<1>2. Bounds(a, b) => Bounds(a, b)'
  BY <1>1 DEF Bounds
<1>3. Ended(a, b) => Ended(a, b)'
  BY <1>1, <1>2 DEF Ended, Bounds
<1>4. Bounds(a, b) /\ Good(a, b) => Good(a, b)'
  BY <1>1 DEF Bounds, Good, Strange
<1>5. \A x \in Nat : Bounds(a, b) => Slice(a .. b, x)' = Slice(a .. b, x)
  BY <1>1 DEF Bounds, Slice
<1>6. \A k \in 1 .. Len(input) : Strange(k)' <=> Strange(k)
  BY <1>1 DEF Strange
<1>7. Ended(a, b) => (Timed(b + 1)' <=> Timed(b + 1))
  <2>1. SUFFICES ASSUME Ended(a, b) PROVE input'[b + 1] = input[b + 1]
    BY DEF Timed
  <2>2. b + 1 \in 1 .. Len(input)
    BY <1>1, <2>1 DEF Ended, Bounds
  <2>3. QED BY <1>1, <2>2
<1>8. QED BY <1>2, <1>3, <1>4, <1>5, <1>6, <1>7

\* What is written stays as it is, whatever line comes.
LEMMA EventsStay ==
  ASSUME TypeOK, Lines, NEW line \in DataLine, input' = Append(input, line),
         events' = events
  PROVE  EventsWhole'
<1>1. Len(input) \in Nat /\ Len(input') = Len(input) + 1
  BY LineAdded
<1>2. SUFFICES ASSUME NEW e \in events
               PROVE  \E a, b \in 1 .. Len(input'), x \in Nat :
                        /\ Ended(a, b)' /\ Good(a, b)' /\ (e.sent <=> Timed(b + 1)')
                        /\ e.blocks # {} /\ e.blocks = Slice(a .. b, x)'
  BY DEF EventsWhole
<1>3. PICK a \in 1 .. Len(input), b \in 1 .. Len(input), x \in Nat :
        /\ Ended(a, b) /\ Good(a, b) /\ (e.sent <=> Timed(b + 1))
        /\ e.blocks # {} /\ e.blocks = Slice(a .. b, x)
  BY DEF Lines, EventsWhole
<1>4. /\ Ended(a, b)' /\ Good(a, b)' /\ e.blocks = Slice(a .. b, x)'
      /\ (e.sent <=> Timed(b + 1)')
  BY <1>3, EndedStays DEF Ended
<1>5. a \in 1 .. Len(input') /\ b \in 1 .. Len(input')
  BY <1>1
<1>6. QED BY <1>3, <1>4, <1>5

LEMMA DroppedStays ==
  ASSUME TypeOK, Lines, NEW line \in DataLine, input' = Append(input, line),
         dropped' \in SUBSET Nat, dropped \subseteq dropped', NEW i \in dropped
  PROVE  \E a, b \in 1 .. Len(input') :
           /\ Ended(a, b)' /\ i \in a .. b /\ a .. b \subseteq dropped'
           /\ \E k \in a .. (b + 1) : Strange(k)'
<1>1. Len(input) \in Nat /\ Len(input') = Len(input) + 1
  BY LineAdded
<1>2. PICK a \in 1 .. Len(input), b \in 1 .. Len(input) :
        /\ Ended(a, b) /\ i \in a .. b /\ a .. b \subseteq dropped
        /\ \E k \in a .. (b + 1) : Strange(k)
  BY DEF Lines, DroppedWhole
<1>3. Ended(a, b)'
  BY <1>2, EndedStays
<1>4. \E k \in a .. (b + 1) : Strange(k)'
  <2>1. PICK k \in a .. (b + 1) : Strange(k)
    BY <1>2
  <2>2. k \in 1 .. Len(input)
    BY <1>1, <1>2 DEF Ended, Bounds
  <2>3. Strange(k)'
    BY <2>1, <2>2, EndedStays
  <2>4. QED BY <2>3
<1>5. a \in 1 .. Len(input') /\ b \in 1 .. Len(input')
  BY <1>1
<1>6. QED BY <1>2, <1>3, <1>4, <1>5
\* The line belongs to the cycle at hand.
LEMMA SameCyclePreserves ==
  ASSUME TypeOK, Lines, pc = "read", NEW line \in DataLine, line.cyc \in Nat, line.bx \in Nat,
         input' = Append(input, line), events' = events,
         NEW discard, discard <=> DiscardCycle \/ line.bx > LastBx,
         SameCycle(line, discard)
  PROVE  Lines'
<1> PICK n \in Nat : n = Len(input)
  BY DEF TypeOK
<1>1. /\ n \in Nat /\ Len(input') = n + 1 /\ input'[n + 1] = line
      /\ \A k \in 1 .. n : input'[k] = input[k]
  BY LineAdded
<1>2. /\ pc' = "read" /\ lastCycleNr' = lastCycleNr /\ line.cyc = lastCycleNr
      /\ todo' = todo /\ dropped' = dropped /\ rData' = rData \cup {n + 1}
      /\ todo = {}
  BY DEF SameCycle, Lines, Phases
<1>3. DiscardCycle' <=> DiscardCycle \/ line.bx > LastBx
  BY Zenon DEF SameCycle
<1>4. PICK a \in 1 .. n, b \in 1 .. n : Present(a, b)
  BY <1>2 DEF Lines, MapWhole
<1>5. /\ Bounds(a, n) /\ rData = a .. n /\ input[a].cyc = lastCycleNr /\ b = n
      /\ DiscardCycle => \E k \in a .. n : Strange(k)
      /\ ~DiscardCycle => Good(a, n)
  BY <1>4 DEF Present
<1>6. Present(a, n + 1)'
  <2>1. Bounds(a, n + 1)'
    BY <1>1, <1>2, <1>5 DEF Bounds
  <2>2. rData' = a .. (n + 1) /\ input'[a].cyc = lastCycleNr'
    BY <1>1, <1>2, <1>4, <1>5
  <2>3. Strange(n + 1)' <=> line.bx > LastBx
    BY <1>1 DEF Strange
  <2>4. \A k \in a .. n : Strange(k)' <=> Strange(k)
    BY <1>4, EndedStays
  <2>5. DiscardCycle' => \E k \in a .. (n + 1) : Strange(k)'
    <3>1. CASE line.bx > LastBx
      BY <1>1, <2>3, <3>1
    <3>2. CASE DiscardCycle
      <4>1. PICK k \in a .. n : Strange(k)
        BY <1>5, <3>2
      <4>2. k \in a .. (n + 1) /\ Strange(k)'
        BY <1>1, <2>4, <4>1
      <4>3. QED BY <4>2
    <3>3. QED BY <1>3, <3>1, <3>2
  <2>6. ~DiscardCycle' => Good(a, n + 1)'
    <3>1. SUFFICES ASSUME ~DiscardCycle', NEW k \in (a + 1) .. (n + 1) PROVE ~Strange(k)'
      BY DEF Good
    <3>2. ~DiscardCycle /\ ~(line.bx > LastBx)
      BY <1>3, <3>1
    <3>3. CASE k = n + 1
      BY <2>3, <3>2, <3>3
    <3>4. CASE k \in (a + 1) .. n
      BY <1>5, <2>4, <3>2, <3>4 DEF Good
    <3>5. QED BY <1>1, <3>3, <3>4
  <2>7. QED BY <1>1, <1>2, <2>1, <2>2, <2>5, <2>6 DEF Present
<1>7. MapWhole'
  BY <1>1, <1>6 DEF MapWhole
<1>8. Phases' /\ LoopWhole'
  BY <1>2 DEF Phases, LoopWhole
<1>9. Partition'
  BY <1>1, <1>2 DEF Lines, Partition, Gone, Pending
<1>10. EventsWhole'
  BY EventsStay
<1>11. DroppedWhole'
  <2>1. dropped' \in SUBSET Nat /\ dropped \subseteq dropped'
    BY <1>2 DEF TypeOK
  <2>2. ASSUME NEW i \in dropped
        PROVE  \E c, d \in 1 .. Len(input') :
                 /\ Ended(c, d)' /\ i \in c .. d /\ c .. d \subseteq dropped'
                 /\ \E k \in c .. (d + 1) : Strange(k)'
    BY <2>1, <2>2, DroppedStays
  <2>3. QED BY <1>2, <2>2 DEF DroppedWhole
<1>12. QED BY <1>7, <1>8, <1>9, <1>10, <1>11 DEF Lines

\* The cycle at hand has ended with a line of another, if there was one.
LEMMA CycleEnds ==
  ASSUME TypeOK, Lines, pc = "read", NEW line \in DataLine, line.cyc \in Nat,
         input' = Append(input, line), lastCycleNr # line.cyc,
         NEW a \in 1 .. Len(input), NEW b \in 1 .. Len(input), Present(a, b)
  PROVE  Ended(a, b)' /\ b = Len(input)
<1>1. /\ Len(input) \in Nat /\ Len(input') = Len(input) + 1
      /\ input'[Len(input) + 1] = line
      /\ \A k \in 1 .. Len(input) : input'[k] = input[k]
  BY LineAdded
<1>2. Bounds(a, b) /\ b = Len(input) /\ input[a].cyc = lastCycleNr
  BY DEF Present
<1>3. Bounds(a, b)'
  BY <1>2, EndedStays
<1>4. QED BY <1>1, <1>2, <1>3 DEF Ended

LEMMA DiscardPreserves ==
  ASSUME TypeOK, Lines, pc = "read", NEW line \in DataLine, line.cyc \in Nat, line.bx \in Nat,
         input' = Append(input, line), events' = events,
         NEW discard, discard <=> DiscardCycle \/ line.bx > LastBx,
         Discard(line, discard)
  PROVE  Lines'
<1> PICK n \in Nat : n = Len(input)
  BY DEF TypeOK
<1>1. /\ n \in Nat /\ Len(input') = n + 1 /\ input'[n + 1] = line
      /\ \A k \in 1 .. n : input'[k] = input[k]
  BY LineAdded
<1>2. /\ pc' = "read" /\ lastCycleNr' = line.cyc /\ lastCycleNr # line.cyc
      /\ todo' = todo /\ todo = {} /\ dropped' = dropped \cup rData
      /\ rData' = {n + 1} /\ DiscardCycle' = FALSE
  BY DEF Discard, Lines, Phases
<1>3. DiscardCycle \/ line.bx > LastBx
  BY DEF Discard
<1>4. \/ \E a, b \in 1 .. n : Present(a, b)
      \/ rData = {} /\ n = 0
  BY DEF Lines, MapWhole
<1>5. MapWhole'
  <2>1. Bounds(n + 1, n + 1)'
    <3>1. n > 0 => input[n].cyc = lastCycleNr
      BY <1>1, <1>4 DEF Present, Bounds
    <3>2. QED BY <1>1, <1>2, <3>1 DEF Bounds
  <2>2. Present(n + 1, n + 1)'
    BY <1>1, <1>2, <2>1 DEF Present, Good
  <2>3. QED BY <1>1, <2>2 DEF MapWhole
<1>6. Phases' /\ LoopWhole'
  BY <1>2 DEF Phases, LoopWhole
<1>7. Partition'
  BY <1>1, <1>2 DEF Lines, Partition, Gone, Pending
<1>8. EventsWhole'
  BY EventsStay
<1>9. DroppedWhole'
  <2>1. dropped' \in SUBSET Nat
    BY <1>2 DEF TypeOK
  <2>2. ASSUME NEW i \in dropped'
        PROVE  \E a, b \in 1 .. Len(input') :
                 /\ Ended(a, b)' /\ i \in a .. b /\ a .. b \subseteq dropped'
                 /\ \E k \in a .. (b + 1) : Strange(k)'
    <3>1. CASE i \in dropped
      BY <1>2, <2>1, <3>1, DroppedStays
    <3>2. CASE i \in rData
      <4>1. PICK a \in 1 .. n, b \in 1 .. n : Present(a, b)
        BY <1>4, <3>2
      <4>2. Ended(a, b)' /\ b = n
        BY <1>2, <4>1, CycleEnds
      <4>3. rData = a .. b
        BY <4>1 DEF Present
      <4>4. \E k \in a .. (b + 1) : Strange(k)'
        <5>1. CASE line.bx > LastBx
          BY <1>1, <4>2, <5>1 DEF Strange
        <5>2. CASE DiscardCycle
          <6>1. PICK k \in a .. b : Strange(k)
            BY <4>1, <5>2 DEF Present
          <6>2. k \in a .. (b + 1) /\ Strange(k)'
            BY <1>1, <4>1, <4>2, <6>1, EndedStays
          <6>3. QED BY <6>2
        <5>3. QED BY <1>3, <5>1, <5>2
      <4>5. a \in 1 .. Len(input') /\ b \in 1 .. Len(input')
        BY <1>1
      <4>6. QED BY <1>2, <3>2, <4>2, <4>3, <4>4, <4>5
    <3>3. QED BY <1>2, <2>2, <3>1, <3>2
  <2>3. QED BY <2>2 DEF DroppedWhole
<1>10. QED BY <1>5, <1>6, <1>7, <1>8, <1>9 DEF Lines

LEMMA StartWritingPreserves ==
  ASSUME TypeOK, Lines, pc = "read", NEW line \in DataLine, line.cyc \in Nat, line.bx \in Nat,
         input' = Append(input, line), events' = events,
         NEW discard, discard <=> DiscardCycle \/ line.bx > LastBx,
         line.timed = iEvtTime, iEvtTime' = iEvtTime,
         StartWriting(line, discard)
  PROVE  Lines'
<1> PICK n \in Nat : n = Len(input)
  BY DEF TypeOK
<1>1. /\ n \in Nat /\ Len(input') = n + 1 /\ input'[n + 1] = line
      /\ \A k \in 1 .. n : input'[k] = input[k]
  BY LineAdded
<1>2. /\ pc' = "write" /\ lastCycleNr' = lastCycleNr /\ lastCycleNr # line.cyc
      /\ todo' = rData /\ dropped' = dropped /\ rData' = rData
      /\ DiscardCycle' = DiscardCycle /\ ~DiscardCycle
  BY DEF StartWriting
<1>3. rData \subseteq 1 .. n
  BY DEF TypeOK
<1>4. MapWhole'
  <2>1. CASE rData = {} /\ n = 0 /\ lastCycleNr = -1
    BY <1>1, <1>2, <2>1 DEF MapWhole
  <2>2. CASE \E a, b \in 1 .. n : Present(a, b)
    <3>1. PICK a \in 1 .. n, b \in 1 .. n : Present(a, b)
      BY <2>2
    <3>2. Ended(a, b)' /\ b = n
      BY <1>2, <3>1, CycleEnds
    <3>3. /\ Bounds(a, b) /\ Good(a, b) /\ rData = a .. b /\ input[a].cyc = lastCycleNr
      BY <1>2, <3>1 DEF Present
    <3>4. Good(a, b)'
      BY <3>3, EndedStays
    <3>5. Present(a, b)'
      BY <1>1, <1>2, <3>2, <3>3, <3>4 DEF Present, Ended
    <3>6. a \in 1 .. Len(input') /\ b \in 1 .. Len(input')
      BY <1>1
    <3>7. QED BY <3>5, <3>6 DEF MapWhole
  <2>3. QED BY <2>1, <2>2 DEF Lines, MapWhole
<1>5. Phases'
  <2>1. Timed(n + 1)' <=> iEvtTime
    <3>1. input'[n + 1].timed = iEvtTime
      BY <1>1
    <3>2. QED BY <3>1, Zenon DEF Timed
  <2>2. Timed(Len(input))' <=> iEvtTime'
    BY <1>1, <2>1
  <2>3. QED BY <1>1, <1>2, <1>3, <2>2 DEF Phases
<1>6. LoopWhole'
  BY <1>2 DEF LoopWhole
<1>7. Partition'
  BY <1>1, <1>2 DEF Lines, Partition, Gone, Pending
<1>8. EventsWhole'
  BY EventsStay
<1>9. DroppedWhole'
  <2>1. dropped' \in SUBSET Nat /\ dropped \subseteq dropped'
    BY <1>2 DEF TypeOK
  <2>2. ASSUME NEW i \in dropped
        PROVE  \E c, d \in 1 .. Len(input') :
                 /\ Ended(c, d)' /\ i \in c .. d /\ c .. d \subseteq dropped'
                 /\ \E k \in c .. (d + 1) : Strange(k)'
    BY <2>1, <2>2, DroppedStays
  <2>3. QED BY <1>2, <2>2 DEF DroppedWhole
<1>10. QED BY <1>4, <1>5, <1>6, <1>7, <1>8, <1>9 DEF Lines
-----------------------------------------------------------------------------
(* The loop over the map.                                                    *)

LEMMA SameLines ==
  ASSUME input' = input
  PROVE  \A a, b \in 1 .. Len(input) :
           /\ Ended(a, b)' <=> Ended(a, b)
           /\ Good(a, b)' <=> Good(a, b)
           /\ \A x \in Nat : Slice(a .. b, x)' = Slice(a .. b, x)
           /\ \A k \in a .. (b + 1) : Strange(k)' <=> Strange(k)
           /\ Timed(b + 1)' <=> Timed(b + 1)
  BY DEF Ended, Bounds, Good, Strange, Slice, Timed

LEMMA PastUnchanged ==
  ASSUME Lines, input' = input, dropped' = dropped
  PROVE  /\ events' = events => EventsWhole'
         /\ DroppedWhole'
<1>1. ASSUME events' = events PROVE EventsWhole'
  <2>1. SUFFICES ASSUME NEW e \in events
                 PROVE  \E a, b \in 1 .. Len(input), x \in Nat :
                          /\ Ended(a, b)' /\ Good(a, b)' /\ (e.sent <=> Timed(b + 1)')
                          /\ e.blocks # {} /\ e.blocks = Slice(a .. b, x)'
    BY <1>1 DEF EventsWhole
  <2>2. PICK a \in 1 .. Len(input), b \in 1 .. Len(input), x \in Nat :
          /\ Ended(a, b) /\ Good(a, b) /\ (e.sent <=> Timed(b + 1))
          /\ e.blocks # {} /\ e.blocks = Slice(a .. b, x)
    BY DEF Lines, EventsWhole
  <2>3. QED BY <2>2, SameLines
<1>2. DroppedWhole'
  <2>1. SUFFICES ASSUME NEW i \in dropped
                 PROVE  \E a, b \in 1 .. Len(input) :
                          /\ Ended(a, b)' /\ i \in a .. b /\ a .. b \subseteq dropped
                          /\ \E k \in a .. (b + 1) : Strange(k)'
    BY DEF DroppedWhole
  <2>2. PICK a \in 1 .. Len(input), b \in 1 .. Len(input) :
          /\ Ended(a, b) /\ i \in a .. b /\ a .. b \subseteq dropped
          /\ \E k \in a .. (b + 1) : Strange(k)
    BY DEF Lines, DroppedWhole
  <2>3. QED BY <2>2, SameLines
<1>3. QED BY <1>1, <1>2

LEMMA WriteEventPreserves ==
  ASSUME TypeOK, Lines, WriteEvent
  PROVE  Lines'
<1>1. /\ pc = "write" /\ pc' = "write" /\ input' = input
      /\ UNCHANGED <<lastCycleNr, DiscardCycle, rData, dropped, iEvtTime>>
  BY DEF WriteEvent, file
<1>2. PICK i \in todo :
        /\ todo' = todo \ Slice(todo, input[i].bx)
        /\ events' = events \cup
             {[nr |-> LcioEventNr + 1, blocks |-> Slice(todo, input[i].bx),
               sent |-> iEvtTime, temps |-> IF iEvtTime THEN Attached ELSE -1,
               sensed |-> sensed]}
  BY DEF WriteEvent
<1> DEFINE x == input[i].bx
           new == [nr |-> LcioEventNr + 1, blocks |-> Slice(todo, x),
                   sent |-> iEvtTime, temps |-> IF iEvtTime THEN Attached ELSE -1,
                   sensed |-> sensed]
<1>3. /\ new.blocks = Slice(todo, x) /\ i \in new.blocks /\ new.blocks \subseteq todo
      /\ new.sent = iEvtTime
  BY DEF Slice
<1>4. Slice(todo, x) = Slice(rData, x)
  BY DEF Lines, LoopWhole
<1>5. i \in rData /\ rData \subseteq 1 .. Len(input) /\ todo \subseteq rData
  BY DEF TypeOK
<1> HIDE DEF x, new
<1>6. events' = events \cup {new} /\ todo' = todo \ new.blocks
  BY <1>2, <1>3 DEF x, new
<1>7. Partition'
  <2>1. /\ Len(input) \notin rData
    BY <1>1 DEF Lines, Phases
  <2>2. Pending = todo \cup {Len(input)} /\ Pending' = (todo \ new.blocks) \cup {Len(input)}
    BY <1>1, <1>6 DEF Pending
  <2>3. Gone' = Gone \cup new.blocks
    BY <1>6 DEF Gone
  <2>4. /\ 1 .. Len(input) = Gone \cup Pending \cup dropped
        /\ Gone \cap Pending = {} /\ Gone \cap dropped = {} /\ Pending \cap dropped = {}
        /\ \A e, f \in events : e.blocks \cap f.blocks # {} => e = f
    BY DEF Lines, Partition
  <2>5. \A e \in events : e.blocks \subseteq Gone
    BY DEF Gone
  <2>6. \A e, f \in events' : e.blocks \cap f.blocks # {} => e = f
    BY <1>3, <1>6, <2>2, <2>4, <2>5
  <2>7. /\ 1 .. Len(input) = Gone' \cup Pending' \cup dropped
        /\ Gone' \cap Pending' = {} /\ Gone' \cap dropped = {}
        /\ Pending' \cap dropped = {}
    BY <1>3, <1>5, <2>1, <2>2, <2>3, <2>4
  <2>8. QED BY <1>1, <2>6, <2>7 DEF Partition
<1>8. EventsWhole'
  <2>1. PICK a \in 1 .. Len(input), b \in 1 .. Len(input) : Present(a, b)
    BY <1>5 DEF Lines, MapWhole
  <2>2. Ended(a, b) /\ Good(a, b) /\ rData = a .. b
    BY <1>1, <2>1 DEF Present, Lines, Phases
  <2>3. x \in Nat
    BY <1>5, LinesAreNumbers DEF x
  <2>4. new.blocks # {} /\ new.blocks = Slice(a .. b, x)
    BY <1>3, <1>4, <2>2
  <2>5. new.sent <=> Timed(b + 1)
    <3>1. b = Len(input) - 1 /\ Len(input) \in Nat
      BY <1>1, <2>1 DEF Present, TypeOK
    <3>2. b + 1 = Len(input)
      BY <3>1
    <3>3. Timed(b + 1) <=> iEvtTime
      BY <1>1, <3>2 DEF Lines, Phases
    <3>4. QED BY <1>3, <3>3, Zenon
  <2>6. \A e \in events' :
          \E c, d \in 1 .. Len(input), y \in Nat :
            /\ Ended(c, d) /\ Good(c, d) /\ (e.sent <=> Timed(d + 1))
            /\ e.blocks # {} /\ e.blocks = Slice(c .. d, y)
    BY <1>6, <2>2, <2>3, <2>4, <2>5 DEF Lines, EventsWhole
  <2>7. SUFFICES ASSUME NEW e \in events'
                 PROVE  \E c, d \in 1 .. Len(input), y \in Nat :
                          /\ Ended(c, d)' /\ Good(c, d)' /\ (e.sent <=> Timed(d + 1)')
                          /\ e.blocks # {} /\ e.blocks = Slice(c .. d, y)'
    BY <1>1 DEF EventsWhole
  <2>8. PICK c \in 1 .. Len(input), d \in 1 .. Len(input), y \in Nat :
          /\ Ended(c, d) /\ Good(c, d) /\ (e.sent <=> Timed(d + 1))
          /\ e.blocks # {} /\ e.blocks = Slice(c .. d, y)
    BY <2>6
  <2>9. /\ Ended(c, d)' /\ Good(c, d)' /\ Slice(c .. d, y)' = Slice(c .. d, y)
        /\ (Timed(d + 1)' <=> Timed(d + 1))
    BY <1>1, <2>8, SameLines
  <2>10. QED BY <2>8, <2>9
<1>9. LoopWhole'
  <2>1. SUFFICES ASSUME NEW j \in todo'
                 PROVE  Slice(todo', input[j].bx) = Slice(rData, input[j].bx)
    BY <1>1 DEF LoopWhole, Slice
  <2>2. j \in todo /\ j \notin Slice(todo, x) /\ todo' = todo \ Slice(todo, x)
    BY <1>3, <1>6, <2>1
  <2>3. input[j].bx # x
    BY <2>2 DEF Slice
  <2>4. Slice(todo', input[j].bx) = Slice(todo, input[j].bx)
    BY <2>2, <2>3 DEF Slice
  <2>5. QED BY <2>2, <2>4 DEF Lines, LoopWhole
<1>10. Phases' /\ MapWhole'
  BY <1>1 DEF Lines, Phases, Timed, MapWhole, Present, Ended, Bounds, Good, Strange
<1>11. DroppedWhole'
  BY <1>1, PastUnchanged
<1>12. QED BY <1>7, <1>8, <1>9, <1>10, <1>11 DEF Lines

LEMMA StartCyclePreserves ==
  ASSUME TypeOK, Lines, StartCycle
  PROVE  Lines'
<1> PICK n \in Nat : n = Len(input)
  BY DEF TypeOK
<1>1. /\ pc = "write" /\ pc' = "read" /\ input' = input /\ todo = {} /\ todo' = {}
      /\ lastCycleNr' = input[n].cyc /\ DiscardCycle' = FALSE /\ rData' = {n}
      /\ dropped' = dropped /\ events' = events
  BY DEF StartCycle, Current, output
<1>2. n \in 1 .. Len(input)
  BY <1>1 DEF Lines, Phases
<1>3. MapWhole'
  <2>1. n > 1 => input[n - 1].cyc # input[n].cyc
    BY <1>1 DEF Lines, MapWhole, Present, Ended, Bounds
  <2>2. Bounds(n, n)'
    BY <1>1, <1>2, <2>1 DEF Bounds
  <2>3. Present(n, n)'
    BY <1>1, <2>2 DEF Present, Good
  <2>4. QED BY <1>1, <1>2, <2>3 DEF MapWhole
<1>4. Phases' /\ LoopWhole'
  BY <1>1 DEF Phases, LoopWhole
<1>5. Partition'
  BY <1>1 DEF Lines, Partition, Gone, Pending
<1>6. EventsWhole' /\ DroppedWhole'
  BY <1>1, PastUnchanged
<1>7. QED BY <1>3, <1>4, <1>5, <1>6 DEF Lines

\* Comment lines and the end of the file.
LEMMA CommentPreserves ==
  ASSUME TypeOK, Lines, pc = "read", pc' \in {"read", "done"},
         UNCHANGED <<input, lastCycleNr, DiscardCycle, rData, todo, dropped, events>>
  PROVE  Lines'
<1>1. Phases' /\ LoopWhole'
  BY DEF Lines, Phases, LoopWhole, Slice
<1>2. Partition'
  BY DEF Lines, Partition, Gone, Pending
<1>3. EventsWhole' /\ DroppedWhole'
  BY PastUnchanged
<1>4. MapWhole'
  BY DEF Lines, MapWhole, Present, Ended, Bounds, Good, Strange
<1>5. QED BY <1>1, <1>2, <1>3, <1>4 DEF Lines
-----------------------------------------------------------------------------
(* Every step.                                                               *)

LEMMA ReadDataPreserves ==
  ASSUME TypeOK, Lines, ReadData
  PROVE  TypeOK' /\ Lines'
<1>1. PICK line :
        /\ line \in [cyc : Cycles, bx : Bx, timed : {iEvtTime}] \cup {EmptyLine}
        /\ input' = Append(input, line)
        /\ LET discard == DiscardCycle \/ line.bx > LastBx
           IN SameCycle(line, discard) \/ Discard(line, discard) \/ StartWriting(line, discard)
  BY DEF ReadData
<1>2. line \in DataLine /\ line.cyc \in Nat /\ line.bx \in Nat /\ line.timed = iEvtTime
  BY <1>1, LineTyped
<1> DEFINE discard == DiscardCycle \/ line.bx > LastBx
<1>3. /\ pc = "read" /\ lines < MaxLines /\ lines' = lines + 1 /\ Len(input) < MaxData
      /\ UNCHANGED <<LcioEventNr, events, iEvtTime, index, newTemp, oldTemp,
                     writeoutTemperature, sensed>>
  BY DEF ReadData, NextLine, temperature, output
<1>4. SameCycle(line, discard) \/ Discard(line, discard) \/ StartWriting(line, discard)
  BY <1>1
<1>5. Lines'
  <2>1. CASE SameCycle(line, discard)
    BY <1>1, <1>2, <1>3, <2>1, SameCyclePreserves
  <2>2. CASE Discard(line, discard)
    BY <1>1, <1>2, <1>3, <2>2, DiscardPreserves
  <2>3. CASE StartWriting(line, discard)
    BY <1>1, <1>2, <1>3, <2>3, StartWritingPreserves
  <2>4. QED BY <1>4, <2>1, <2>2, <2>3
<1>6. TypeOK'
  <2>1. /\ Len(input) \in Nat /\ Len(input') = Len(input) + 1 /\ input' \in Seq(DataLine)
    BY <1>1, <1>2, LineAdded
  <2>2. Len(input') <= MaxData /\ lines' \in 0 .. MaxLines
    BY <1>3, <2>1, BoundAssumption DEF TypeOK, BoundAssumption
  <2>3. line.cyc \in Cycles \cup {0}
    BY <1>2 DEF DataLine
  <2>4. discard \in BOOLEAN
    OBVIOUS
  <2> HIDE DEF discard
  <2>5. /\ pc' \in {"read", "write", "done"} /\ lastCycleNr' \in Cycles \cup {-1, 0}
        /\ DiscardCycle' \in BOOLEAN /\ nCorruptedCycle' \in Nat
    <3>1. CASE SameCycle(line, discard)
      <4>1. DiscardCycle' = discard
        BY <3>1, Zenon DEF SameCycle
      <4>2. DiscardCycle' \in BOOLEAN
        BY <2>4, <4>1, Zenon
      <4>3. UNCHANGED <<pc, lastCycleNr, nCorruptedCycle>>
        BY <3>1 DEF SameCycle
      <4>4. QED BY <4>2, <4>3 DEF TypeOK
    <3>2. CASE Discard(line, discard)
      <4>1. /\ lastCycleNr' = line.cyc /\ DiscardCycle' = FALSE /\ pc' = pc
            /\ nCorruptedCycle' = nCorruptedCycle + 1
        BY <3>2, Zenon DEF Discard
      <4>2. pc \in {"read", "write", "done"} /\ nCorruptedCycle \in Nat
        BY DEF TypeOK
      <4>3. DiscardCycle' \in BOOLEAN /\ pc' \in {"read", "write", "done"}
        BY <4>1, <4>2, Zenon
      <4>4. lastCycleNr' \in Cycles \cup {-1, 0}
        BY <2>3, <4>1
      <4>5. nCorruptedCycle' \in Nat
        BY <4>1, <4>2
      <4>6. QED BY <4>3, <4>4, <4>5, Zenon
    <3>3. CASE StartWriting(line, discard)
      BY <3>3 DEF StartWriting, TypeOK
    <3>4. QED BY <1>4, <3>1, <3>2, <3>3
  <2>6. /\ rData' \subseteq 1 .. Len(input') /\ todo' \subseteq rData'
        /\ dropped' \subseteq 1 .. Len(input')
    <3>1. /\ rData \subseteq 1 .. Len(input) /\ dropped \subseteq 1 .. Len(input) /\ todo = {}
      BY <1>3 DEF TypeOK, Lines, Phases
    <3>2. CASE SameCycle(line, discard)
      <4>1. /\ rData' = rData \cup {Len(input) + 1} /\ todo' = todo /\ dropped' = dropped
        BY <3>2, Zenon DEF SameCycle
      <4>2. rData' \subseteq 1 .. Len(input')
        <5>1. \A k \in 1 .. Len(input) : k \in 1 .. Len(input')
          BY <2>1
        <5>2. Len(input) + 1 \in 1 .. Len(input')
          BY <2>1
        <5>3. QED BY <3>1, <4>1, <5>1, <5>2
      <4>3. dropped' \subseteq 1 .. Len(input')
        BY <2>1, <3>1, <4>1
      <4>4. todo' \subseteq rData'
        BY <3>1, <4>1
      <4>5. QED BY <4>2, <4>3, <4>4, Zenon
    <3>3. CASE Discard(line, discard)
      BY <2>1, <3>1, <3>3 DEF Discard
    <3>4. CASE StartWriting(line, discard)
      BY <2>1, <3>1, <3>4 DEF StartWriting
    <3>5. QED BY <1>4, <3>2, <3>3, <3>4
  <2>7. QED BY <1>3, <2>1, <2>2, <2>5, <2>6 DEF TypeOK
<1>7. QED BY <1>5, <1>6

LEMMA SlotTyped ==
  ASSUME TypeOK, NEW format
  PROVE  Slot(format) \in Nat
  BY DEF Slot, TypeOK

LEMMA TemperatureTyped ==
  ASSUME TypeOK, TakeTemperature \/ UNCHANGED temperature
  PROVE  /\ index' \in Nat /\ sensed' \in Nat
         /\ {newTemp', oldTemp', writeoutTemperature'} \subseteq BOOLEAN
<1>1. CASE UNCHANGED temperature
  BY <1>1 DEF TypeOK, temperature
<1>2. CASE TakeTemperature /\ ~UNCHANGED temperature
  <2>1. /\ index' = 0 /\ sensed' = 0 /\ writeoutTemperature' = FALSE /\ newTemp' = FALSE
        /\ oldTemp' = (oldTemp /\ newTemp)
    BY <1>2 DEF TakeTemperature
  <2>2. oldTemp' \in BOOLEAN
    BY <2>1
  <2>3. QED BY <2>1, <2>2
<1>3. QED BY <1>1, <1>2

LEMMA WriteEventTyped ==
  ASSUME TypeOK, WriteEvent
  PROVE  TypeOK'
<1>1. /\ UNCHANGED <<lines, input, pc, iEvtTime, lastCycleNr, DiscardCycle, rData,
                     nCorruptedCycle, dropped>>
      /\ LcioEventNr' = LcioEventNr + 1
  BY DEF WriteEvent, Number, file
<1>2. PICK i \in todo :
        /\ todo' = todo \ Slice(todo, input[i].bx)
        /\ events' = events \cup
             {[nr |-> LcioEventNr + 1, blocks |-> Slice(todo, input[i].bx),
               sent |-> iEvtTime, temps |-> IF iEvtTime THEN Attached ELSE -1,
               sensed |-> sensed]}
  BY DEF WriteEvent
<1>3. Slice(todo, input[i].bx) \in SUBSET (1 .. MaxData)
  <2>1. rData \subseteq 1 .. Len(input) /\ todo \subseteq rData
    BY DEF TypeOK
  <2>2. Len(input) \in Nat /\ Len(input) <= MaxData /\ MaxData \in Nat
    BY BoundAssumption DEF BoundAssumption, TypeOK
  <2>3. 1 .. Len(input) \subseteq 1 .. MaxData
    BY <2>2
  <2>4. Slice(todo, input[i].bx) \subseteq todo
    BY DEF Slice
  <2>5. QED BY <2>1, <2>3, <2>4
<1>4. (IF iEvtTime THEN Attached ELSE -1) \in Int
  BY DEF Attached, TypeOK
<1>5. LcioEventNr + 1 \in Nat /\ iEvtTime \in BOOLEAN /\ sensed \in Nat
  BY DEF TypeOK
<1>6. events' \subseteq Event
  BY <1>2, <1>3, <1>4, <1>5 DEF Event, TypeOK
<1>7. /\ index' \in Nat /\ sensed' \in Nat
      /\ {newTemp', oldTemp', writeoutTemperature'} \subseteq BOOLEAN
  <2>1. TakeTemperature \/ UNCHANGED temperature
    BY DEF WriteEvent
  <2>2. QED BY <2>1, TemperatureTyped
<1>8. QED BY <1>1, <1>2, <1>5, <1>6, <1>7 DEF TypeOK

LEMMA NextPreserves == TypeOK /\ Lines /\ [Next]_vars => TypeOK' /\ Lines'
<1> SUFFICES ASSUME TypeOK, Lines, [Next]_vars PROVE TypeOK' /\ Lines' OBVIOUS
<1>1. CASE ReadData
  BY <1>1, ReadDataPreserves
<1>2. CASE WriteEvent
  BY <1>2, WriteEventPreserves, WriteEventTyped
<1>3. CASE StartCycle
  <2>1. Lines'
    BY <1>3, StartCyclePreserves
  <2>2. /\ pc' = "read" /\ lastCycleNr' = Current.cyc /\ DiscardCycle' = FALSE
        /\ rData' = {Len(input)}
        /\ UNCHANGED <<lines, input, todo, nCorruptedCycle, dropped, LcioEventNr, events,
                       iEvtTime, index, newTemp, oldTemp, writeoutTemperature, sensed>>
        /\ todo = {}
    BY <1>3 DEF StartCycle, temperature, output
  <2>3. Len(input) \in 1 .. Len(input)
    BY <1>3 DEF StartCycle, Lines, Phases, TypeOK
  <2>4. Current.cyc \in Cycles \cup {0}
    BY <2>3, LinesAreNumbers DEF Current, DataLine
  <2>5. TypeOK'
    BY <2>2, <2>3, <2>4 DEF TypeOK
  <2>6. QED BY <2>1, <2>5
<1>4. CASE ReadDate \/ ReadUnixtime \/ ReadTemperature
  <2>1. /\ pc = "read" /\ lines < MaxLines /\ lines' = lines + 1 /\ pc' \in {"read", "done"}
        /\ UNCHANGED <<input, lastCycleNr, DiscardCycle, rData, todo, nCorruptedCycle, dropped,
                       LcioEventNr, events>>
    BY <1>4 DEF ReadDate, ReadUnixtime, ReadTemperature, NextLine, cycle, output
  <2>2. Lines'
    BY <2>1, CommentPreserves
  <2>3. iEvtTime' \in BOOLEAN
    BY <1>4 DEF ReadDate, ReadUnixtime, ReadTemperature, TypeOK
  <2>4. /\ index' \in Nat /\ sensed' \in Nat
        /\ {newTemp', oldTemp', writeoutTemperature'} \subseteq BOOLEAN
    <3>1. CASE ReadDate \/ ReadUnixtime
      BY <3>1 DEF ReadDate, ReadUnixtime, temperature, TypeOK
    <3>2. CASE ReadTemperature
      <4>1. PICK format \in Formats :
              /\ newTemp' = (format = "new") /\ oldTemp' = (format = "old")
              /\ writeoutTemperature' = TRUE
              /\ index' \in {Slot(format), Slot(format) + 1}
              /\ sensed' \in {sensed, sensed + 1}
        BY <3>2 DEF ReadTemperature
      <4>2. Slot(format) \in Nat
        BY SlotTyped
      <4>3. QED BY <4>1, <4>2 DEF TypeOK
    <3>3. QED BY <1>4, <3>1, <3>2
  <2>5. lines' \in 0 .. MaxLines
    BY <2>1, BoundAssumption DEF BoundAssumption, TypeOK
  <2>6. QED BY <2>1, <2>2, <2>3, <2>4, <2>5, Zenon DEF TypeOK
<1>5. CASE EndOfFile \/ UNCHANGED vars
  <2>1. /\ pc' \in {pc, "done"}
        /\ UNCHANGED <<lines, input, lastCycleNr, DiscardCycle, rData, todo, nCorruptedCycle,
                       dropped, LcioEventNr, events, iEvtTime, index, newTemp, oldTemp,
                       writeoutTemperature, sensed>>
    BY <1>5 DEF EndOfFile, vars, file, cycle, temperature, output
  <2>2. TypeOK'
    BY <2>1 DEF TypeOK
  <2>3. CASE EndOfFile
    <3>1. pc = "read" /\ pc' \in {"read", "done"}
      BY <2>3 DEF EndOfFile
    <3>2. Lines'
      BY <2>1, <3>1, CommentPreserves
    <3>3. QED BY <2>2, <3>2
  <2>4. CASE UNCHANGED vars
    <3>1. pc' = pc
      BY <2>4 DEF vars, file
    <3>2. EventsWhole' /\ DroppedWhole'
      BY <2>1, PastUnchanged
    <3>3. Phases' /\ Partition' /\ MapWhole' /\ LoopWhole'
      BY <2>1, <3>1 DEF Lines, Phases, Partition, Gone, Pending, MapWhole, Present, Ended,
                        Bounds, Good, Strange, LoopWhole, Slice, Timed
    <3>4. QED BY <2>2, <3>2, <3>3 DEF Lines
  <2>5. QED BY <1>5, <2>3, <2>4
<1>6. QED BY <1>1, <1>2, <1>3, <1>4, <1>5 DEF Next

\* Every variable of the converter keeps its type, for files of any length
\* (LabviewConverter2::readDataSource).
THEOREM ConverterTyped == Spec => []TypeOK
  BY InitLines, NextPreserves, PTL DEF Spec

LEMMA LinesInvariant == Spec => []Lines
  BY InitLines, NextPreserves, PTL DEF Spec

-----------------------------------------------------------------------------
(* Whole cycles.                                                             *)

\* The lines around a line of a run that is not cut short are those of the run.
LEMMA SegmentIsRun ==
  ASSUME TypeOK, NEW a \in 1 .. Len(input), NEW b \in 1 .. Len(input),
         Bounds(a, b), b < Len(input) => input[b + 1].cyc # input[a].cyc,
         NEW i \in a .. b
  PROVE  Segment(i) = a .. b
<1> PICK n \in Nat : n = Len(input)
  BY DEF TypeOK
<1>1. /\ a \in 1 .. n /\ b \in a .. n /\ (b < n => input[b + 1].cyc # input[a].cyc)
      /\ \A k \in a .. b : input[k].cyc = input[a].cyc
      /\ a > 1 => input[a - 1].cyc # input[a].cyc
  BY DEF Bounds
<1>2. input[i].cyc = input[a].cyc
  BY <1>1
<1>3. ASSUME NEW j \in 1 .. n, j \in a .. b
      PROVE  j \in Segment(i)
  BY <1>1, <1>2, <1>3 DEF Segment
<1>4. ASSUME NEW j \in Segment(i)
      PROVE  j \in a .. b
  <2>1. /\ j \in 1 .. n
        /\ \A k \in 1 .. n : (i <= k /\ k <= j) \/ (j <= k /\ k <= i)
                                => input[k].cyc = input[i].cyc
    BY DEF Segment
  <2>2. ~(j < a)
    <3>1. SUFFICES ASSUME j < a PROVE FALSE
      OBVIOUS
    <3>2. a - 1 \in 1 .. n /\ j <= a - 1 /\ a - 1 <= i /\ a > 1
      BY <1>1, <2>1, <3>1
    <3>3. QED BY <1>1, <1>2, <2>1, <3>2
  <2>3. ~(j > b)
    <3>1. SUFFICES ASSUME j > b PROVE FALSE
      OBVIOUS
    <3>2. b + 1 \in 1 .. n /\ i <= b + 1 /\ b + 1 <= j
      BY <1>1, <2>1, <3>1
    <3>3. QED BY <1>1, <1>2, <2>1, <3>2
  <2>4. QED BY <1>1, <2>1, <2>2, <2>3
<1>5. a .. b \subseteq 1 .. n
  BY <1>1
<1>6. QED BY <1>3, <1>4, <1>5

LEMMA EventsAreCrossings == TypeOK /\ Lines => WholeCrossing
<1> SUFFICES ASSUME TypeOK, Lines, NEW e \in events, NEW i \in e.blocks
             PROVE  e.blocks = Slice(Segment(i), input[i].bx)
  BY DEF WholeCrossing
<1>1. PICK a \in 1 .. Len(input), b \in 1 .. Len(input), x \in Nat :
        Ended(a, b) /\ Good(a, b) /\ e.blocks # {} /\ e.blocks = Slice(a .. b, x)
  BY DEF Lines, EventsWhole
<1>2. i \in a .. b /\ input[i].bx = x
  BY <1>1 DEF Slice
<1>3. Segment(i) = a .. b
  BY <1>1, <1>2, SegmentIsRun DEF Ended
<1>4. QED BY <1>1, <1>2, <1>3

LEMMA CyclesAreDiscardedWhole == TypeOK /\ Lines => DiscardedWhole
<1> SUFFICES ASSUME TypeOK, Lines PROVE DiscardedWhole
  OBVIOUS
<1>1. ASSUME NEW i \in dropped
      PROVE  /\ Segment(i) \subseteq dropped
             /\ \E j \in 1 .. Len(input) :
                  Strange(j) /\ (j \in Segment(i) \/ j - 1 \in Segment(i))
  <2>1. PICK a \in 1 .. Len(input), b \in 1 .. Len(input) :
          /\ Ended(a, b) /\ i \in a .. b /\ a .. b \subseteq dropped
          /\ \E k \in a .. (b + 1) : Strange(k)
    BY <1>1 DEF Lines, DroppedWhole
  <2>2. Segment(i) = a .. b
    BY <2>1, SegmentIsRun DEF Ended
  <2>3. PICK k \in a .. (b + 1) : Strange(k)
    BY <2>1
  <2>4. k \in 1 .. Len(input) /\ (k \in a .. b \/ k - 1 \in a .. b)
    BY <2>1 DEF Ended, Bounds, TypeOK
  <2>5. QED BY <2>1, <2>2, <2>3, <2>4
<1>2. ASSUME NEW e \in events, NEW i \in e.blocks, NEW j \in Segment(i), Strange(j)
      PROVE  j - 1 \notin Segment(i)
  <2>1. PICK a \in 1 .. Len(input), b \in 1 .. Len(input), x \in Nat :
          Ended(a, b) /\ Good(a, b) /\ e.blocks # {} /\ e.blocks = Slice(a .. b, x)
    BY <1>2 DEF Lines, EventsWhole
  <2>2. i \in a .. b
    BY <1>2, <2>1 DEF Slice
  <2>3. Segment(i) = a .. b
    BY <2>1, <2>2, SegmentIsRun DEF Ended
  <2>4. j \in a .. b /\ j \notin (a + 1) .. b
    BY <1>2, <2>1, <2>3 DEF Good
  <2>5. QED BY <2>3, <2>4
<1>3. QED BY <1>1, <1>2 DEF DiscardedWhole

LEMMA LinesAreAccounted == TypeOK /\ Lines => Accounted
<1> SUFFICES ASSUME TypeOK, Lines PROVE Accounted
  OBVIOUS
<1>1. /\ 1 .. Len(input) = Gone \cup Pending \cup dropped
      /\ Gone \cap Pending = {} /\ Gone \cap dropped = {} /\ Pending \cap dropped = {}
      /\ \A e, f \in events : e.blocks \cap f.blocks # {} => e = f
  BY DEF Lines, Partition
<1>2. ASSUME NEW i \in 1 .. Len(input)
      PROVE  i \in Written <=> i \notin Pending \cup dropped /\ TimeKnown(i)
  <2>1. CASE i \notin Gone
    BY <1>1, <2>1 DEF Written, Gone
  <2>2. CASE i \in Gone
    <3>1. PICK e \in events : i \in e.blocks
      BY <2>2 DEF Gone
    <3>2. PICK a \in 1 .. Len(input), b \in 1 .. Len(input), x \in Nat :
            /\ Ended(a, b) /\ Good(a, b) /\ (e.sent <=> Timed(b + 1))
            /\ e.blocks # {} /\ e.blocks = Slice(a .. b, x)
      BY <3>1 DEF Lines, EventsWhole
    <3>3. Segment(i) = a .. b
      BY <3>1, <3>2, SegmentIsRun DEF Ended, Slice
    <3>4. /\ b + 1 \in 1 .. Len(input) /\ (b + 1) - 1 \in a .. b /\ b + 1 \notin a .. b
          /\ \A j \in 1 .. Len(input) : j - 1 \in a .. b /\ j \notin a .. b => j = b + 1
      BY <3>2 DEF Ended, Bounds, TypeOK
    <3>5. TimeKnown(i) <=> Timed(b + 1)
      BY <3>3, <3>4 DEF TimeKnown, Timed
    <3>6. i \in Written <=> e.sent
      BY <1>1, <3>1 DEF Written
    <3>7. i \notin Pending \cup dropped
      BY <1>1, <2>2
    <3>8. QED BY <3>2, <3>5, <3>6, <3>7, Zenon
  <2>3. QED BY <2>1, <2>2
<1>3. ASSUME pc # "write", NEW i \in 1 .. Len(input)
      PROVE  i \in Pending <=> i \in Segment(Len(input))
  <2>1. PICK a \in 1 .. Len(input), b \in 1 .. Len(input) : Present(a, b)
    BY <1>3 DEF Lines, MapWhole
  <2>2. Bounds(a, b) /\ rData = a .. b /\ b = Len(input)
    BY <1>3, <2>1 DEF Present
  <2>3. Len(input) \in a .. b
    BY <2>2 DEF Bounds
  <2>4. Segment(Len(input)) = a .. b
    BY <2>2, <2>3, SegmentIsRun
  <2>5. QED BY <1>3, <2>2, <2>4 DEF Pending
<1>4. QED BY <1>1, <1>2, <1>3 DEF Accounted

\* Marlin gets every line of a cycle that was not discarded and was over with a time
\* known, once, and no other line, for files of any length
\* (LabviewConverter2.cc:377-548).
THEOREM LinesAccountedFor == Spec => []Accounted
  BY LinesAreAccounted, ConverterTyped, LinesInvariant, PTL

\* An event is one crossing of one cycle, all its lines and no others, for files
\* of any length (LabviewConverter2.cc:377-548).
THEOREM EventsWholeCrossings == Spec => []WholeCrossing
  BY EventsAreCrossings, ConverterTyped, LinesInvariant, PTL

\* Cycles are discarded whole and only for a strange BXID, for files of any
\* length (LabviewConverter2.cc:358-373).
THEOREM CyclesDiscardedWhole == Spec => []DiscardedWhole
  BY CyclesAreDiscardedWhole, ConverterTyped, LinesInvariant, PTL
-----------------------------------------------------------------------------
(* The temperatures.                                                         *)

Flags == writeoutTemperature /\ (newTemp \/ oldTemp)

\* Once a collection is written the flags are down until a temperature is read.
Attaching ==
  /\ \A e \in events : e.nr <= LcioEventNr
  /\ pc # "done" /\ Flags /\ (\E e \in events : e.temps # -1) => sensed > 0
  /\ TemperatureOnce

LEMMA AttachingStep == TypeOK /\ Attaching /\ [Next]_vars => Attaching'
<1> SUFFICES ASSUME TypeOK, Attaching, [Next]_vars PROVE Attaching'
  OBVIOUS
<1>1. CASE WriteEvent
  <2>1. pc = "write" /\ pc' = pc /\ LcioEventNr' = LcioEventNr + 1 /\ LcioEventNr \in Nat
    BY <1>1 DEF WriteEvent, Number, file, TypeOK
  <2>2. PICK new :
          /\ events' = events \cup {new} /\ new.nr = LcioEventNr + 1
          /\ new.temps = (IF iEvtTime THEN Attached ELSE -1) /\ new.sensed = sensed
    <3>1. PICK i \in todo :
            events' = events \cup
              {[nr |-> LcioEventNr + 1, blocks |-> Slice(todo, input[i].bx),
                sent |-> iEvtTime, temps |-> IF iEvtTime THEN Attached ELSE -1,
                sensed |-> sensed]}
      BY <1>1 DEF WriteEvent
    <3> DEFINE new == [nr |-> LcioEventNr + 1, blocks |-> Slice(todo, input[i].bx),
                       sent |-> iEvtTime, temps |-> IF iEvtTime THEN Attached ELSE -1,
                       sensed |-> sensed]
    <3>2. /\ new.nr = LcioEventNr + 1 /\ new.sensed = sensed
          /\ new.temps = (IF iEvtTime THEN Attached ELSE -1)
      OBVIOUS
    <3>3. events' = events \cup {new}
      BY <3>1
    <3> HIDE DEF new
    <3>4. QED BY <3>2, <3>3
  <2>3. events \subseteq Event /\ \A e \in Event : e.nr \in Nat
    BY DEF TypeOK, Event
  <2>4. \A e \in events' : e.nr <= LcioEventNr'
    BY <2>1, <2>2, <2>3 DEF Attaching
  <2>5. new.temps # -1 => iEvtTime /\ Flags
    BY <2>2 DEF Attached, Flags
  <2>6. TemperatureOnce'
    <3>1. SUFFICES ASSUME NEW e \in events', NEW f \in events',
                          e.temps # -1, f.temps # -1, e.nr < f.nr
                   PROVE  f.sensed > 0
      BY DEF TemperatureOnce
    <3>2. CASE e \in events /\ f \in events
      BY <3>1, <3>2 DEF Attaching, TemperatureOnce
    <3>3. CASE e = new
      BY <2>1, <2>2, <2>3, <2>4, <3>1, <3>3
    <3>4. CASE f = new /\ e \in events
      <4>1. Flags /\ pc # "done"
        BY <2>1, <2>5, <3>1, <3>4
      <4>2. sensed > 0
        BY <3>1, <3>4, <4>1 DEF Attaching
      <4>3. QED BY <2>2, <3>4, <4>2
    <3>5. QED BY <2>2, <3>2, <3>3, <3>4
  <2>7. pc' # "done" /\ Flags' /\ (\E e \in events' : e.temps # -1) => sensed' > 0
    <3>1. CASE iEvtTime /\ Flags
      <4>1. writeoutTemperature' = FALSE
        BY <1>1, <3>1 DEF WriteEvent, TakeTemperature, Flags
      <4>2. ~Flags'
        BY <4>1 DEF Flags
      <4>3. QED BY <4>2
    <3>2. CASE ~(iEvtTime /\ Flags)
      <4>1. UNCHANGED temperature
        BY <1>1, <3>2 DEF WriteEvent, TakeTemperature, Flags
      <4>2. (Flags' <=> Flags) /\ sensed' = sensed
        BY <4>1 DEF temperature, Flags
      <4>3. (\E e \in events' : e.temps # -1) => \E e \in events : e.temps # -1
        BY <2>2, <2>5, <3>2
      <4>4. QED BY <2>1, <4>2, <4>3 DEF Attaching
    <3>3. QED BY <3>1, <3>2
  <2>8. QED BY <2>4, <2>6, <2>7 DEF Attaching
<1>2. CASE ReadTemperature
  <2>1. events' = events /\ LcioEventNr' = LcioEventNr
    BY <1>2 DEF ReadTemperature, output
  <2>2. pc' # "done" => sensed' = sensed + 1
    BY <1>2 DEF ReadTemperature
  <2>3. sensed \in Nat
    BY DEF TypeOK
  <2>4. QED BY <2>1, <2>2, <2>3 DEF Attaching, TemperatureOnce
<1>3. CASE ReadDate \/ ReadUnixtime \/ ReadData \/ StartCycle \/ EndOfFile \/ UNCHANGED vars
  <2>1. UNCHANGED <<temperature, output>>
    BY <1>3 DEF ReadDate, ReadUnixtime, ReadData, StartCycle, EndOfFile, vars
  <2>2. events' = events /\ LcioEventNr' = LcioEventNr /\ sensed' = sensed /\ (Flags' <=> Flags)
    BY <2>1 DEF temperature, output, Flags
  <2>3. pc = "done" => pc' = "done"
    BY <1>3 DEF ReadDate, ReadUnixtime, ReadData, NextLine, StartCycle, EndOfFile, vars, file
  <2>4. QED BY <2>2, <2>3 DEF Attaching, TemperatureOnce
<1>4. QED BY <1>1, <1>2, <1>3 DEF Next

\* A set of temperatures is attached once, whatever the format and however long
\* the file (the flags of LabviewConverter2.cc:447-522).
THEOREM TemperaturesAttachedOnce == Spec => []TemperatureOnce
<1>1. Init => Attaching
  BY DEF Init, Attaching, TemperatureOnce
<1>2. Attaching => TemperatureOnce
  BY DEF Attaching
<1>3. QED BY <1>1, <1>2, AttachingStep, ConverterTyped, PTL DEF Spec
\* The slots of TSensor stay in the array as long as one file has one format.
Slots == index <= Layers /\ ("old" \notin Formats => index < Layers)

LEMMA SlotsStep ==
  ASSUME ~({"new", "old"} \subseteq Formats), TypeOK, Slots, [Next]_vars
  PROVE  Slots'
<1>1. CASE ReadTemperature
  <2>1. PICK format \in Formats : index' \in {Slot(format), Slot(format) + 1}
    BY <1>1 DEF ReadTemperature
  <2>2. /\ Layers \in Nat /\ Layers >= 2 /\ index \in Nat /\ index <= Layers
        /\ format \in {"new", "old"} /\ (format = "new" => index < Layers)
    BY LayersAssumption DEF LayersAssumption, TypeOK, Slots
  <2>3. CASE format = "new"
    <3>1. Slot(format) \in Nat /\ Slot(format) + 1 < Layers
      BY <2>2, <2>3 DEF Slot
    <3>2. QED BY <2>1, <2>2, <3>1 DEF Slots
  <2>4. CASE format = "old"
    <3>1. Slot(format) \in Nat /\ Slot(format) + 1 <= Layers
      BY <2>2, <2>4 DEF Slot
    <3>2. QED BY <2>1, <2>2, <2>4, <3>1 DEF Slots
  <2>5. QED BY <2>2, <2>3, <2>4
<1>2. CASE WriteEvent
  <2>1. index' \in {index, 0}
    BY <1>2 DEF WriteEvent, TakeTemperature, temperature
  <2>2. Layers \in Nat /\ Layers >= 2
    BY LayersAssumption DEF LayersAssumption
  <2>3. QED BY <2>1, <2>2 DEF Slots, TypeOK
<1>3. CASE ReadDate \/ ReadUnixtime \/ ReadData \/ StartCycle \/ EndOfFile \/ UNCHANGED vars
  <2>1. UNCHANGED temperature
    BY <1>3 DEF ReadDate, ReadUnixtime, ReadData, StartCycle, EndOfFile, vars
  <2>2. QED BY <2>1 DEF temperature, Slots
<1>4. QED BY <1>1, <1>2, <1>3 DEF Next

\* No temperature line is stored behind the end of TSensor, for files of any
\* length in one of the formats (LabviewConverter2.cc:249-307).
THEOREM SensorsInArray ==
  ASSUME ~({"new", "old"} \subseteq Formats)
  PROVE  Spec => []SensorInArray
<1>1. Init => Slots
  BY LayersAssumption DEF Init, Slots, LayersAssumption
<1>2. TypeOK /\ Slots /\ [Next]_vars => Slots'
  BY SlotsStep
<1>3. Slots => SensorInArray
  BY DEF Slots, SensorInArray
<1>4. QED BY <1>1, <1>2, <1>3, ConverterTyped, PTL DEF Spec

\* The slots used are the lines read, until the array is full.
SlotsUsed ==
  /\ pc # "done" /\ sensed <= Layers => index = sensed
  /\ TemperatureComplete

LEMMA SlotsUsedStep ==
  ASSUME "new" \notin Formats, TypeOK, SlotsUsed, [Next]_vars
  PROVE  SlotsUsed'
<1>1. CASE ReadTemperature
  <2>1. PICK format \in Formats :
          pc' # "done" => index' = Slot(format) + 1 /\ sensed' = sensed + 1
    BY <1>1 DEF ReadTemperature
  <2>2. format = "old" /\ Layers \in Nat
    BY LayersAssumption DEF LayersAssumption
  <2>3. events' = events /\ pc # "done"
    BY <1>1 DEF ReadTemperature, NextLine, output
  <2>4. pc' # "done" /\ sensed' <= Layers => index' = sensed'
    <3>1. SUFFICES ASSUME pc' # "done", sensed' <= Layers PROVE index' = sensed'
      OBVIOUS
    <3>2. sensed \in Nat /\ sensed + 1 <= Layers /\ index = sensed
      BY <2>1, <2>2, <2>3, <3>1 DEF SlotsUsed, TypeOK
    <3>3. Slot(format) = index
      BY <2>2, <3>2 DEF Slot
    <3>4. QED BY <2>1, <3>1, <3>2, <3>3
  <2>5. QED BY <2>3, <2>4 DEF SlotsUsed, TemperatureComplete
<1>2. CASE WriteEvent
  <2>1. pc = "write" /\ pc' = pc
    BY <1>2 DEF WriteEvent, file
  <2>2. PICK i \in todo :
          events' = events \cup
            {[nr |-> LcioEventNr + 1, blocks |-> Slice(todo, input[i].bx),
              sent |-> iEvtTime, temps |-> IF iEvtTime THEN Attached ELSE -1,
              sensed |-> sensed]}
    BY <1>2 DEF WriteEvent
  <2>3. TemperatureComplete'
    <3>1. SUFFICES ASSUME NEW e \in events', e.temps # -1, e.sensed <= Layers
                   PROVE  e.temps = e.sensed
      BY DEF TemperatureComplete
    <3>2. CASE e \in events
      BY <3>1, <3>2 DEF SlotsUsed, TemperatureComplete
    <3>3. CASE e \notin events
      <4>1. e.temps = (IF iEvtTime THEN Attached ELSE -1) /\ e.sensed = sensed
        BY <2>2, <3>3
      <4>2. e.temps = index
        BY <3>1, <4>1 DEF Attached
      <4>3. QED BY <2>1, <3>1, <4>1, <4>2 DEF SlotsUsed
    <3>4. QED BY <3>2, <3>3
  <2>4. (index' = index /\ sensed' = sensed) \/ (index' = 0 /\ sensed' = 0)
    BY <1>2 DEF WriteEvent, TakeTemperature, temperature
  <2>5. QED BY <2>1, <2>3, <2>4 DEF SlotsUsed
<1>3. CASE ReadDate \/ ReadUnixtime \/ ReadData \/ StartCycle \/ EndOfFile \/ UNCHANGED vars
  <2>1. UNCHANGED <<temperature, output>> /\ (pc = "done" => pc' = "done")
    BY <1>3 DEF ReadDate, ReadUnixtime, ReadData, NextLine, StartCycle, EndOfFile, vars, file
  <2>2. QED BY <2>1 DEF temperature, output, SlotsUsed, TemperatureComplete
<1>4. QED BY <1>1, <1>2, <1>3 DEF Next

\* In a file of the old format an event has all the temperatures read before it, as
\* far as TSensor holds them (LabviewConverter2.cc:289-307, 478-520).
THEOREM TemperaturesComplete ==
  ASSUME "new" \notin Formats
  PROVE  Spec => []TemperatureComplete
<1>1. Init => SlotsUsed
  BY DEF Init, SlotsUsed, TemperatureComplete
<1>2. TypeOK /\ SlotsUsed /\ [Next]_vars => SlotsUsed'
  BY SlotsUsedStep
<1>3. SlotsUsed => TemperatureComplete
  BY DEF SlotsUsed
<1>4. QED BY <1>1, <1>2, <1>3, ConverterTyped, PTL DEF Spec
-----------------------------------------------------------------------------
(* The converter implements CycleSplitter.                                   *)

InCycle == {e \in events : e.blocks \subseteq rData}
Out == IF pc = "write" THEN {[nr |-> e.nr, blocks |-> Line(e.blocks)] : e \in InCycle} ELSE {}

\* While a map is filled nothing of it is written.
LEMMA NothingOfTheMap ==
  ASSUME TypeOK, Lines, pc = "read"
  PROVE  InCycle = {}
<1>1. \A e \in events : e.blocks # {} /\ e.blocks \subseteq Gone
  BY DEF Lines, EventsWhole, Gone
<1>2. Gone \cap rData = {}
  BY DEF Lines, Partition, Pending
<1>3. QED BY <1>1, <1>2 DEF InCycle

LEMMA LineOf ==
  ASSUME NEW S \in SUBSET (1 .. Len(input)), input' = input
  PROVE  Line(S)' = Line(S)
  BY DEF Line

LEMMA LoadStep == TypeOK /\ Lines /\ TypeOK' /\ ReadData => [Splitter!Next]_(Splitter!vars)
<1> SUFFICES ASSUME TypeOK, Lines, TypeOK', ReadData PROVE [Splitter!Next]_(Splitter!vars)
  OBVIOUS
<1>1. PICK line :
        LET discard == DiscardCycle \/ line.bx > LastBx
        IN SameCycle(line, discard) \/ Discard(line, discard) \/ StartWriting(line, discard)
  BY DEF ReadData
<1>2. pc = "read" /\ todo = {} /\ events' = events /\ LcioEventNr' = LcioEventNr
  BY DEF ReadData, NextLine, Lines, Phases, output
<1>3. (pc' = pc /\ todo' = todo) \/ (pc' = "write" /\ todo' = rData /\ rData' = rData)
  BY <1>1, Zenon DEF SameCycle, Discard, StartWriting
<1>4. Line(todo) = {}
  BY <1>2 DEF Line
<1>5. CASE pc' = pc /\ todo' = todo
  <2>1. Line(todo)' = {}
    BY <1>2, <1>5 DEF Line
  <2>2. Out = {} /\ Out' = {}
    BY <1>2, <1>5 DEF Out
  <2>3. QED BY <1>2, <1>4, <2>1, <2>2 DEF Splitter!vars, Out, InCycle
<1>6. CASE pc' = "write" /\ todo' = rData /\ rData' = rData
  <2>1. Line(todo)' \in SUBSET [line : Nat, bx : Nat]
    <3>1. \A i \in todo' : i \in Nat /\ input'[i].bx \in Nat
      <4>1. /\ todo' \subseteq rData' /\ rData' \subseteq 1 .. Len(input')
            /\ input' \in Seq(DataLine)
        BY DEF TypeOK
      <4>2. \A l \in DataLine : l.bx \in Nat
        <5>1. \A l \in DataLine : l.bx \in Bx \cup {0}
          BY DEF DataLine
        <5>2. Bx \cup {0} \subseteq Nat
          BY CyclesAssumption DEF CyclesAssumption
        <5>3. QED BY <5>1, <5>2
      <4>3. \A k \in 1 .. Len(input') : input'[k] \in DataLine /\ k \in Nat
        BY <4>1
      <4>4. QED BY <4>1, <4>2, <4>3
    <3>2. QED BY <3>1 DEF Line
  <2>2. InCycle' = {}
    <3>1. InCycle' = InCycle
      BY <1>2, <1>6 DEF InCycle
    <3>2. QED BY <1>2, <3>1, NothingOfTheMap
  <2>3. Out' = {}
    BY <2>2 DEF Out
  <2>4. Splitter!Load
    BY <1>2, <1>4, <2>1, <2>3 DEF Splitter!Load, Out, InCycle
  <2>5. QED BY <2>4 DEF Splitter!Next
<1>7. QED BY <1>3, <1>5, <1>6

LEMMA EmitStep == TypeOK /\ Lines /\ WriteEvent => Splitter!Emit
<1> SUFFICES ASSUME TypeOK, Lines, WriteEvent PROVE Splitter!Emit
  OBVIOUS
<1>1. /\ pc = "write" /\ pc' = "write" /\ rData' = rData /\ input' = input
      /\ LcioEventNr' = LcioEventNr + 1
  BY DEF WriteEvent, Number, file
<1>2. PICK i \in todo :
        /\ First(todo, i)
        /\ todo' = todo \ Slice(todo, input[i].bx)
        /\ events' = events \cup
             {[nr |-> LcioEventNr + 1, blocks |-> Slice(todo, input[i].bx),
               sent |-> iEvtTime, temps |-> IF iEvtTime THEN Attached ELSE -1,
               sensed |-> sensed]}
  BY DEF WriteEvent
<1> DEFINE B == Slice(todo, input[i].bx)
           new == [nr |-> LcioEventNr + 1, blocks |-> B,
                   sent |-> iEvtTime, temps |-> IF iEvtTime THEN Attached ELSE -1,
                   sensed |-> sensed]
           p == [line |-> i, bx |-> input[i].bx]
<1>3. new.blocks = B /\ new.nr = LcioEventNr + 1 /\ B \subseteq todo
  BY DEF Slice
<1>4. todo \subseteq rData /\ rData \subseteq 1 .. Len(input)
  BY DEF TypeOK
<1>5. p \in Line(todo) /\ p.bx = input[i].bx
  BY DEF Line
<1>6. \A q \in Line(todo) : p.bx <= q.bx
  BY <1>2 DEF First, Line
<1>7. Splitter!Crossing(Line(todo), p.bx) = Line(B)
  BY DEF Splitter!Crossing, Line, Slice
<1>8. Line(todo)' = Line(todo) \ Line(B)
  <2>1. todo' = todo \ B
    BY <1>2
  <2>2. Line(todo)' = {[line |-> j, bx |-> input[j].bx] : j \in todo \ B}
    BY <1>1, <2>1 DEF Line
  <2>3. QED BY <2>2 DEF Line
<1>9. events' = events \cup {new}
  BY <1>2
<1> HIDE DEF new
<1>10. InCycle' = InCycle \cup {new}
  BY <1>1, <1>3, <1>4, <1>9 DEF InCycle
<1>11. Out' = Out \cup {[nr |-> LcioEventNr + 1, blocks |-> Line(B)]}
  <2>1. Out' = {[nr |-> e.nr, blocks |-> Line(e.blocks)'] : e \in InCycle'}
    BY <1>1 DEF Out
  <2>2. \A S \in SUBSET (1 .. Len(input)) : Line(S)' = Line(S)
    BY <1>1, LineOf
  <2>3. \A e \in InCycle' : Line(e.blocks)' = Line(e.blocks)
    BY <1>3, <1>4, <1>10, <2>2 DEF InCycle
  <2>4. Out = {[nr |-> e.nr, blocks |-> Line(e.blocks)] : e \in InCycle}
    BY <1>1 DEF Out
  <2>5. QED BY <1>3, <1>10, <2>1, <2>3, <2>4
<1> HIDE DEF B, p
<1>12. QED BY <1>1, <1>5, <1>6, <1>7, <1>8, <1>11 DEF Splitter!Emit, Out, InCycle

LEMMA QuietStep ==
  ASSUME TypeOK, Lines, todo' = todo, input' = input, events' = events,
         LcioEventNr' = LcioEventNr,
         \/ pc' = pc /\ rData' = rData
         \/ pc = "read" /\ pc' = "done"
  PROVE  UNCHANGED Splitter!vars
<1>1. Line(todo)' = Line(todo)
  BY DEF Line
<1>2. Out' = Out
  BY DEF Out, InCycle, Line
<1>3. QED BY <1>1, <1>2 DEF Splitter!vars, Out, InCycle

LEMMA SplitterStep ==
  TypeOK /\ Lines /\ TypeOK' /\ [Next]_vars => [Splitter!Next]_(Splitter!vars)
<1> SUFFICES ASSUME TypeOK, Lines, TypeOK', [Next]_vars
             PROVE  [Splitter!Next]_(Splitter!vars)
  OBVIOUS
<1>1. CASE ReadData
  BY <1>1, LoadStep
<1>2. CASE WriteEvent
  BY <1>2, EmitStep DEF Splitter!Next
<1>3. CASE StartCycle
  <2>1. /\ todo = {} /\ todo' = {} /\ pc' = "read" /\ events' = events
        /\ LcioEventNr' = LcioEventNr
    BY <1>3 DEF StartCycle, output
  <2>2. Line(todo) = {} /\ Line(todo)' = {} /\ Out' = {}
    BY <2>1 DEF Line, Out
  <2>3. Splitter!Load
    BY <2>1, <2>2 DEF Splitter!Load, Out, InCycle
  <2>4. QED BY <2>3 DEF Splitter!Next
<1>4. CASE ReadDate \/ ReadUnixtime \/ ReadTemperature \/ EndOfFile
  <2>1. /\ todo' = todo /\ input' = input /\ events' = events /\ LcioEventNr' = LcioEventNr
        /\ rData' = rData /\ pc = "read"
    BY <1>4 DEF ReadDate, ReadUnixtime, ReadTemperature, EndOfFile, NextLine, cycle, output
  <2>2. pc' = pc \/ pc' = "done"
    BY <1>4 DEF ReadDate, ReadUnixtime, ReadTemperature, EndOfFile
  <2>3. QED BY <2>1, <2>2, QuietStep
<1>5. CASE UNCHANGED vars
  <2>1. /\ todo' = todo /\ input' = input /\ events' = events /\ LcioEventNr' = LcioEventNr
        /\ rData' = rData /\ pc' = pc
    BY <1>5 DEF vars, file, cycle, output
  <2>2. QED BY <2>1, QuietStep
<1>6. QED BY <1>1, <1>2, <1>3, <1>4, <1>5 DEF Next

\* Writing a cycle out is splitting it up: the safety part of ImplementsSplitter, for
\* files of any length (LabviewConverter2.cc:377-548).
THEOREM ConverterImplementsSplitter == Spec => Splitter!Spec
<1>1. Init => Splitter!Init
  <2> SUFFICES ASSUME Init PROVE Splitter!Init
    OBVIOUS
  <2>1. todo = {} /\ pc # "write" /\ LcioEventNr = 0
    BY DEF Init
  <2>2. Line(todo) = {}
    BY <2>1 DEF Line
  <2>3. QED BY <2>1, <2>2 DEF Splitter!Init
<1>2. TypeOK /\ Lines /\ TypeOK' /\ [Next]_vars => [Splitter!Next]_(Splitter!vars)
  BY SplitterStep
<1>3. QED BY <1>1, <1>2, ConverterTyped, LinesInvariant, PTL DEF Spec, Splitter!Spec

-----------------------------------------------------------------------------
(* What holds where comments of the converter promise more.                  *)

\* A line with a strange BXID that is written opened its cycle: the check looked at the
\* cycle before (LabviewConverter2.cc:357-373, "Discard the cycle if strange BXID").
StrangeOnlyOpens ==
  \A e \in events : \A i \in e.blocks :
    Strange(i) => i = 1 \/ input[i - 1].cyc # input[i].cyc

\* When the file is over, a line that Marlin did not get and that was not discarded is of
\* the last cycle, to which no line of another has put an end, or its cycle was over before
\* a time was known (LabviewConverter2.cc:159-162, "until all collected data have been
\* asigned to an event").
OnlyTheLastCycleWaits ==
  pc = "done" => \A i \in 1 .. Len(input) :
    i \notin Written \cup dropped =>
      \/ \A j \in i .. Len(input) : input[j].cyc = input[i].cyc
      \/ ~ TimeKnown(i)

\* For files of any length, a written line with a strange BXID is the first one of its cycle
\* (LabviewConverter2.cc:357-373).
THEOREM StrangeLinesOpenCycles == Spec => []StrangeOnlyOpens
<1>1. TypeOK /\ Lines => StrangeOnlyOpens
  <2> SUFFICES ASSUME TypeOK, Lines, NEW e \in events, NEW i \in e.blocks,
                      Strange(i), i # 1
               PROVE  input[i - 1].cyc # input[i].cyc
    BY DEF StrangeOnlyOpens
  <2>1. PICK a \in 1 .. Len(input), b \in 1 .. Len(input), x \in Nat :
          Ended(a, b) /\ Good(a, b) /\ e.blocks # {} /\ e.blocks = Slice(a .. b, x)
    BY DEF Lines, EventsWhole
  <2>2. i \in a .. b
    BY <2>1 DEF Slice
  <2>3. i = a
    BY <2>1, <2>2 DEF Good
  <2> QED BY <2>1, <2>3 DEF Ended, Bounds
<1> QED BY <1>1, ConverterTyped, LinesInvariant, PTL

\* For files of any length, only lines of the last cycle and of cycles without a time are
\* left over (LabviewConverter2.cc:159-162, 440-450).
THEOREM LastCycleWaits == Spec => []OnlyTheLastCycleWaits
<1>1. TypeOK /\ Lines => OnlyTheLastCycleWaits
  <2> SUFFICES ASSUME TypeOK, Lines, pc = "done", NEW i \in 1 .. Len(input),
                      i \notin Written \cup dropped, TimeKnown(i), NEW j \in i .. Len(input)
               PROVE  input[j].cyc = input[i].cyc
    BY DEF OnlyTheLastCycleWaits
  <2>1. i \in rData
    BY LinesAreAccounted DEF Accounted, Pending
  <2>2. PICK a \in 1 .. Len(input), b \in 1 .. Len(input) : Present(a, b)
    BY <2>1 DEF Lines, MapWhole
  <2>3. b = Len(input) /\ i \in a .. b /\ j \in a .. b
    BY <2>1, <2>2 DEF Present, TypeOK
  <2>4. \A k \in a .. b : input[k].cyc = input[a].cyc
    BY <2>2 DEF Present, Bounds
  <2> QED BY <2>3, <2>4
<1> QED BY <1>1, ConverterTyped, LinesInvariant, PTL

-----------------------------------------------------------------------------
(* The loop over rData ends: the argument behind the fairness of the          *)
(* refinement.                                                               *)

\* In the loop there is a next step: the crossing the map has first, or the new cycle.
LoopGoesOn == pc = "write" => todo = {} \/ \E i \in todo : First(todo, i)

\* While lines are left in the map one of them is in its first crossing, the next one to be
\* written (rData.begin() of the loop, LabviewConverter2.cc:377).
THEOREM LoopHasAFirst == Spec => []LoopGoesOn
<1>1. TypeOK => LoopGoesOn
  <2> SUFFICES ASSUME TypeOK, todo # {} PROVE \E i \in todo : First(todo, i)
    BY DEF LoopGoesOn
  <2> DEFINE T == {input[i].bx : i \in todo}
             R == {pair \in Nat \X Nat : pair[1] < pair[2]}
  <2>1. T \subseteq Nat /\ T # {}
    BY LinesAreNumbers DEF TypeOK
  <2> HIDE DEF T
  <2>2. PICK b \in T : \A c \in T : <<c, b>> \notin R
    <3>1. R = OpToRel(<, Nat)
      BY DEF OpToRel
    <3>2. IsWellFoundedOn(R, Nat)
      BY <3>1, NatLessThanWellFounded
    <3> HIDE DEF R
    <3> QED BY <2>1, <3>2, WFMin
  <2>3. ASSUME NEW c \in T PROVE b <= c
    <3>1. c \in Nat /\ b \in Nat
      BY <2>1
    <3>2. c < b => <<c, b>> \in R
      BY <3>1
    <3>3. ~ (c < b)
      BY <2>2, <3>2
    <3> QED BY <3>1, <3>3
  <2>4. PICK i \in todo : input[i].bx = b
    BY <2>2 DEF T
  <2>5. \A j \in todo : input[j].bx \in T
    BY DEF T
  <2> QED BY <2>3, <2>4, <2>5 DEF First
<1> QED BY <1>1, ConverterTyped, PTL

\* Every turn of the loop leaves fewer lines to write, so it comes to the new cycle after
\* at most as many turns as there are lines (the loop over rData, LabviewConverter2.cc:377-548).
THEOREM LoopComesToAnEnd ==
  Spec => [][WriteEvent => /\ Cardinality(todo) \in Nat /\ Cardinality(todo') \in Nat
                           /\ Cardinality(todo') < Cardinality(todo)]_vars
<1>1. TypeOK /\ WriteEvent => /\ Cardinality(todo) \in Nat /\ Cardinality(todo') \in Nat
                              /\ Cardinality(todo') < Cardinality(todo)
  <2> SUFFICES ASSUME TypeOK, WriteEvent
               PROVE  /\ Cardinality(todo) \in Nat /\ Cardinality(todo') \in Nat
                      /\ Cardinality(todo') < Cardinality(todo)
    OBVIOUS
  <2>1. IsFiniteSet(todo)
    <3>1. IsFiniteSet(1 .. Len(input)) /\ todo \subseteq 1 .. Len(input)
      BY FS_Interval DEF TypeOK
    <3> QED BY <3>1, FS_Subset
  <2>2. PICK i \in todo : todo' = todo \ Slice(todo, input[i].bx)
    BY DEF WriteEvent
  <2>3. todo' \in SUBSET todo /\ todo' # todo
    BY <2>2 DEF Slice
  <2>4. IsFiniteSet(todo') /\ Cardinality(todo') < Cardinality(todo)
    BY <2>1, <2>3, FS_Subset, FS_CardinalityType
  <2> QED BY <2>1, <2>4, FS_CardinalityType
<1> QED BY <1>1, ConverterTyped, PTL DEF Spec

=============================================================================
