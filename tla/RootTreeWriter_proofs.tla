-------------------------- MODULE RootTreeWriter_proofs --------------------------
(***************************************************************************)
(* For every steering file, every input and every number of events: the     *)
(* numbers of an entry are those of its event; the trees are logs of the    *)
(* events (the safety part of TreeLog); an entry shows its own event when   *)
(* the event is complete and nothing of an earlier one when a collection is *)
(* missing; a writer closes its own file at the end; with one tree for each *)
(* file no tree is used after it was deleted; and in the end all entries    *)
(* are on disk.                                                             *)
(***************************************************************************)
EXTENDS RootTreeWriter, TLAPS

\* The part of the state the argument is about has its types.
Types ==
  /\ phase \in {"init", "events", "end", "done"}
  /\ at \in Writers \cup {NULL}
  /\ event \in [number: 0 .. MaxEvents, input: Inputs]
  /\ struct \in [Writers -> Nat]
  /\ bigTree \in [Writers -> Trees \cup {NoTree}]
  /\ runEvent \in [Trees -> Writers \cup {NULL}]
  /\ treeFiller \in [Trees -> Writers \cup {NULL}]
  /\ entries \in [Trees -> Seq(Nat)]
  /\ saved \in [Trees -> Nat]
  /\ DOMAIN last = Trees

\* The branches are the first writer's, Fill is the last one's.
FirstAndLast ==
  /\ \A t \in Trees : runEvent[t] <= treeFiller[t]
  /\ \A t \in Trees : treeFiller[t] # NULL => runEvent[t] # NULL

\* While the writers are initialised.
Opening ==
  phase = "init" =>
    /\ at # NULL
    /\ event.number = 0
    /\ \A t \in Trees : entries[t] = <<>> /\ treeFiller[t] < at
    /\ \A w \in Writers : w < at => bigTree[w] = TreeOf(w) /\ treeFiller[TreeOf(w)] # NULL

\* While events are read.
Reading ==
  phase = "events" =>
    /\ \A w \in Writers : bigTree[w] = TreeOf(w) /\ treeFiller[TreeOf(w)] # NULL
    /\ at # NULL =>
         /\ event.number # 0
         /\ \A w \in Writers : w < at => struct[w] = event.number
         /\ \A t \in Trees : at <= treeFiller[t] =>
              \A i \in DOMAIN entries[t] : entries[t][i] < event.number

NotAhead == \A t \in Trees : \A i \in DOMAIN entries[t] : entries[t][i] <= event.number

Inv == Types /\ FirstAndLast /\ Opening /\ Reading /\ NotAhead /\ NumbersOfTheEntry

-----------------------------------------------------------------------------
LEMMA WritersAreNumbers ==
  /\ Len(Steering) \in Nat /\ Len(Steering) # 0
  /\ Writers = 1 .. Len(Steering)
  /\ MaxEvents \in Nat
BY SteeringAssumption DEF Writers

LEMMA TreeOfAWriter == ASSUME NEW w \in Writers PROVE TreeOf(w) \in Trees
BY DEF Trees

LEMMA NextIsAWriter ==
  ASSUME NEW w \in Writers
  PROVE  /\ NextWriter(w) \in Writers \cup {NULL}
         /\ NextWriter(w) # NULL => NextWriter(w) = w + 1
         /\ NextWriter(w) = NULL => w = Len(Steering)
BY WritersAreNumbers DEF NextWriter, NULL

LEMMA InitInv == Init => Inv
<1> SUFFICES ASSUME Init PROVE Inv
  OBVIOUS
<1>1. 1 \in Writers
  BY WritersAreNumbers
<1>2. NoInput \in Inputs
  BY DEF NoInput, Inputs, Absent
<1>3. Types
  <2>1. event \in [number: 0 .. MaxEvents, input: Inputs]
    <3>1. event = [number |-> 0, input |-> NoInput]
      BY Zenon DEF Init
    <3>2. 0 \in 0 .. MaxEvents
      BY WritersAreNumbers
    <3> QED
      BY <1>2, <3>1, <3>2
  <2>2. entries \in [Trees -> Seq(Nat)] /\ bigTree \in [Writers -> Trees \cup {NoTree}]
    <3>1. <<>> \in Seq(Nat)
      OBVIOUS
    <3>2. entries = [t \in Trees |-> <<>>] /\ bigTree = [v \in Writers |-> NoTree]
      BY DEF Init
    <3>3. entries \in [Trees -> Seq(Nat)]
      BY <3>1, <3>2
    <3>4. bigTree \in [Writers -> Trees \cup {NoTree}]
      BY <3>2
    <3> QED
      BY <3>3, <3>4
  <2>3. /\ runEvent \in [Trees -> Writers \cup {NULL}] /\ treeFiller \in [Trees -> Writers \cup {NULL}]
        /\ struct \in [Writers -> Nat] /\ saved \in [Trees -> Nat] /\ DOMAIN last = Trees
    BY DEF Init
  <2> QED
    BY <1>1, <2>1, <2>2, <2>3 DEF Init, Types
<1>4. FirstAndLast /\ Opening /\ Reading /\ NotAhead
  <2>1. \A t \in Trees : entries[t] = <<>> /\ treeFiller[t] = 0 /\ runEvent[t] = 0
    BY DEF Init, NULL
  <2>2. phase = "init" /\ at = 1 /\ event.number = 0
    BY DEF Init
  <2>3. FirstAndLast /\ NotAhead /\ Reading
    BY <2>1, <2>2 DEF FirstAndLast, NotAhead, Reading, NULL
  <2>4. Opening
    BY <2>1, <2>2, WritersAreNumbers DEF Opening, NULL
  <2> QED
    BY <2>3, <2>4
<1>5. NumbersOfTheEntry
  BY DEF Init, NumbersOfTheEntry, NoEntry
<1> QED
  BY <1>3, <1>4, <1>5 DEF Inv

\* init: the writers before have their trees, and so has this one now.
LEMMA InitWriterKeeps == ASSUME Inv, NEW w \in Writers, init(w) PROVE Inv'
<1> DEFINE t0 == TreeOf(w)
<1>1. t0 \in Trees /\ w \in Nat /\ w >= 1
  BY TreeOfAWriter, WritersAreNumbers
<1>2. /\ phase = "init" /\ at = w /\ at' = NextWriter(w)
      /\ phase' = IF NextWriter(w) = NULL THEN "events" ELSE "init"
      /\ bigTree' = [bigTree EXCEPT ![w] = t0]
      /\ treeFiller' = [treeFiller EXCEPT ![t0] = w]
      /\ runEvent' = IF treeFiller[t0] = NULL THEN [runEvent EXCEPT ![t0] = w] ELSE runEvent
      /\ UNCHANGED <<event, struct, entries, last, saved>>
  BY DEF init, RegisterRunEvent
<1>3. Types'
  BY <1>1, <1>2, NextIsAWriter DEF Inv, Types
<1>4. FirstAndLast'
  <2> SUFFICES ASSUME NEW t \in Trees
               PROVE  runEvent'[t] <= treeFiller'[t] /\ (treeFiller'[t] # NULL => runEvent'[t] # NULL)
    BY DEF FirstAndLast
  <2>1. /\ runEvent[t] \in 0 .. Len(Steering) /\ treeFiller[t] \in 0 .. Len(Steering)
        /\ runEvent[t] <= treeFiller[t] /\ treeFiller[t] < w
        /\ treeFiller[t] # NULL => runEvent[t] # NULL
    BY <1>2, WritersAreNumbers DEF Inv, Types, FirstAndLast, Opening, NULL
  <2> QED
    BY <1>1, <1>2, <2>1, WritersAreNumbers DEF Inv, Types, NULL
<1>5. ASSUME NEW v \in Writers, v <= w
      PROVE  bigTree'[v] = TreeOf(v) /\ treeFiller'[TreeOf(v)] # NULL
  <2>1. v = w \/ v < w
    BY <1>5, WritersAreNumbers
  <2> QED
    BY <1>1, <1>2, <1>5, <2>1, TreeOfAWriter DEF Inv, Types, Opening, NULL
<1>6. Opening'
  <2> SUFFICES ASSUME phase' = "init"
               PROVE  Opening'
    BY DEF Opening
  <2>1. at' = w + 1
    BY <1>2, NextIsAWriter
  <2>2. \A t \in Trees : treeFiller'[t] < at'
    BY <1>1, <1>2, <2>1, WritersAreNumbers DEF Inv, Types, Opening, NULL
  <2>3. \A v \in Writers : v < at' => v <= w
    BY <2>1, WritersAreNumbers
  <2> QED
    BY <1>1, <1>2, <1>5, <2>1, <2>2, <2>3 DEF Inv, Opening, NULL
<1>7. Reading'
  <2> SUFFICES ASSUME phase' = "events"
               PROVE  Reading'
    BY DEF Reading
  <2>1. at' = NULL /\ w = Len(Steering)
    BY <1>2, NextIsAWriter
  <2>2. \A v \in Writers : v <= w
    BY <2>1, WritersAreNumbers
  <2> QED
    BY <1>5, <2>1, <2>2 DEF Reading
<1>8. NotAhead' /\ NumbersOfTheEntry'
  BY <1>2 DEF Inv, NotAhead, NumbersOfTheEntry
<1> QED
  BY <1>3, <1>4, <1>6, <1>7, <1>8 DEF Inv

-----------------------------------------------------------------------------
\* ReadEvent: what is in the trees is of the events before.
LEMMA ReadEventKeeps == ASSUME Inv, NEW s \in InputSets, ReadEvent(s) PROVE Inv'
<1>1. /\ phase = "events" /\ phase' = phase /\ at' = 1
      /\ event.number \in 0 .. MaxEvents /\ event.number < MaxEvents
      /\ event' = [number |-> event.number + 1, input |-> s]
      /\ UNCHANGED <<struct, bigTree, runEvent, treeFiller, entries, saved, last>>
  BY DEF ReadEvent, Inv, Types, ownerVars, memberVars, rootVars
<1>2. event'.number = event.number + 1 /\ event'.number \in 0 .. MaxEvents /\ s \in Inputs
  BY <1>1, WritersAreNumbers, SteeringAssumption
<1>3. event' \in [number: 0 .. MaxEvents, input: Inputs]
  BY <1>1, <1>2
<1>4. 1 \in Writers
  BY WritersAreNumbers
<1>5. Types'
  BY <1>1, <1>3, <1>4 DEF Inv, Types
<1>6. ASSUME NEW t \in Trees, NEW i \in DOMAIN entries[t]
      PROVE  entries[t][i] < event'.number
  <2>1. entries[t] \in Seq(Nat) /\ entries[t][i] \in Nat /\ entries[t][i] <= event.number
    BY DEF Inv, Types, NotAhead
  <2> QED
    BY <1>1, <1>2, <2>1, WritersAreNumbers
<1>7. Reading'
  <2>1. \A w \in Writers : ~(w < 1)
    BY WritersAreNumbers
  <2>2. event'.number # 0
    BY <1>1, <1>2
  <2> QED
    BY <1>1, <1>6, <2>1, <2>2 DEF Inv, Reading, NULL
<1>8. NotAhead'
  <2> SUFFICES ASSUME NEW t \in Trees, NEW i \in DOMAIN entries[t]
               PROVE  entries[t][i] <= event'.number
    BY <1>1 DEF NotAhead
  <2>1. entries[t] \in Seq(Nat) /\ entries[t][i] \in Nat
    BY DEF Inv, Types
  <2> QED
    BY <1>2, <1>6, <2>1, WritersAreNumbers
<1>9. Opening' /\ FirstAndLast' /\ NumbersOfTheEntry'
  BY <1>1 DEF Inv, Opening, FirstAndLast, NumbersOfTheEntry
<1> QED
  BY <1>5, <1>7, <1>8, <1>9 DEF Inv

\* SkipEvent, StopReading and stuttering change no tree and no struct.
LEMMA NoWriterKeeps ==
  ASSUME Inv, SkipEvent \/ StopReading \/ UNCHANGED vars PROVE Inv'
<1>1. UNCHANGED <<event, struct, bigTree, runEvent, treeFiller, entries, saved, last>>
  BY DEF SkipEvent, StopReading, vars, ownerVars, memberVars, rootVars
<1>2. \/ phase = "events" /\ phase' = phase /\ at' = NULL
      \/ phase' = "end" /\ at' = 1
      \/ UNCHANGED <<phase, at>>
  BY DEF SkipEvent, StopReading, vars
<1>3. 1 \in Writers
  BY WritersAreNumbers
<1>4. Types'
  BY <1>1, <1>2, <1>3 DEF Inv, Types
<1>5. Reading' /\ Opening'
  BY <1>1, <1>2 DEF Inv, Reading, Opening
<1>6. FirstAndLast' /\ NotAhead' /\ NumbersOfTheEntry'
  BY <1>1 DEF Inv, FirstAndLast, NotAhead, NumbersOfTheEntry
<1> QED
  BY <1>4, <1>5, <1>6 DEF Inv

-----------------------------------------------------------------------------
\* What processEvent does to a tree, and to no other.
LEMMA WhatIsFilled ==
  ASSUME Inv, NEW w \in Writers, processEvent(w)
  PROVE  LET t0 == TreeOf(w)
             fills == treeFiller[t0] = w
         IN  /\ t0 \in Trees /\ bigTree[w] = t0
             /\ event.number \in Nat /\ event.number \in 1 .. MaxEvents
             /\ fills => /\ entries' = [entries EXCEPT ![t0] = Append(@, event.number)]
                         /\ last' = [last EXCEPT ![t0] = Entry(t0, struct', data')]
             /\ ~fills => UNCHANGED <<entries, last>>
             /\ \A t \in Trees : saved'[t] \in {saved[t], Len(entries'[t])}
             /\ saved' \in [Trees -> Nat]
             /\ entries' \in [Trees -> Seq(Nat)]
<1> DEFINE t0 == TreeOf(w)
<1>1. phase = "events" /\ at = w /\ w # NULL
  BY WritersAreNumbers DEF processEvent, NULL
<1>2. t0 \in Trees /\ bigTree[w] = t0
  BY <1>1, TreeOfAWriter DEF Inv, Reading
<1>3. event.number \in 0 .. MaxEvents /\ event.number # 0
  BY <1>1 DEF Inv, Types, Reading
<1>4. event.number \in Nat /\ event.number \in 1 .. MaxEvents
  BY <1>3, WritersAreNumbers
<1>5. entries \in [Trees -> Seq(Nat)] /\ saved \in [Trees -> Nat]
  BY DEF Inv, Types
<1>6. CASE treeFiller[t0] = w
  <2>1. FillTree(t0)
    BY <1>2, <1>6 DEF processEvent
  <2>2. /\ entries' = [entries EXCEPT ![t0] = Append(@, event.number)]
        /\ last' = [last EXCEPT ![t0] = Entry(t0, struct', data')]
        /\ SameFile \/ ChangeFile(treeFile[t0])
    BY <2>1 DEF FillTree
  <2>3. entries' \in [Trees -> Seq(Nat)]
    <3>1. Append(entries[t0], event.number) \in Seq(Nat)
      BY <1>2, <1>4, <1>5
    <3> QED
      BY <1>5, <2>2, <3>1
  <2>4. \A t \in Trees : Len(entries'[t]) \in Nat
    BY <2>3
  <2>5. /\ \A t \in Trees : saved'[t] \in {saved[t], Len(entries'[t])}
        /\ saved' \in [Trees -> Nat]
    <3>1. CASE SameFile
      BY <1>5, <3>1 DEF SameFile
    <3>2. CASE ChangeFile(treeFile[t0])
      BY <1>5, <2>4, <3>2 DEF ChangeFile
    <3> QED
      BY <2>2, <3>1, <3>2
  <2> QED
    BY <1>2, <1>4, <1>6, <2>2, <2>3, <2>5
<1>7. CASE treeFiller[t0] # w
  BY <1>2, <1>4, <1>5, <1>7 DEF processEvent, SameFile
<1> QED
  BY <1>6, <1>7

\* The one that fills comes last, and the one whose struct it shows has been called.
LEMMA ProcessEventKeeps == ASSUME Inv, NEW w \in Writers, processEvent(w) PROVE Inv'
<1> DEFINE t0 == TreeOf(w)
           n == event.number
<1>1. /\ phase = "events" /\ phase' = phase /\ at = w /\ at' = NextWriter(w)
      /\ struct' = [struct EXCEPT ![w] = n]
      /\ UNCHANGED <<event, bigTree, runEvent, treeFiller>>
  BY DEF processEvent
<1>2. /\ t0 \in Trees /\ n \in Nat /\ n # 0
      /\ treeFiller[t0] = w => /\ entries' = [entries EXCEPT ![t0] = Append(@, n)]
                               /\ last' = [last EXCEPT ![t0] = Entry(t0, struct', data')]
      /\ treeFiller[t0] # w => UNCHANGED <<entries, last>>
      /\ saved' \in [Trees -> Nat] /\ entries' \in [Trees -> Seq(Nat)]
  BY WhatIsFilled, WritersAreNumbers
<1>3. Types'
  <2>1. struct' \in [Writers -> Nat] /\ DOMAIN last' = Trees
    BY <1>1, <1>2 DEF Inv, Types
  <2> QED
    BY <1>1, <1>2, <2>1, NextIsAWriter DEF Inv, Types
<1>4. \A v \in Writers : v <= w => struct'[v] = n
  <2> SUFFICES ASSUME NEW v \in Writers, v <= w
               PROVE  struct'[v] = n
    OBVIOUS
  <2>1. v = w \/ v < w
    BY WritersAreNumbers
  <2>2. at # NULL
    BY <1>1, WritersAreNumbers DEF NULL
  <2> QED
    BY <1>1, <2>1, <2>2 DEF Inv, Types, Reading
<1>5. NotAhead'
  <2> SUFFICES ASSUME NEW t \in Trees, NEW i \in DOMAIN entries'[t]
               PROVE  entries'[t][i] <= n
    BY <1>1 DEF NotAhead
  <2>1. CASE t = t0 /\ treeFiller[t0] = w
    <3>1. entries[t0] \in Seq(Nat) /\ entries'[t0] = Append(entries[t0], n)
      BY <1>2, <2>1 DEF Inv, Types
    <3>2. i \in 1 .. Len(entries[t0]) + 1
      BY <1>2, <2>1, <3>1
    <3>3. CASE i = Len(entries[t0]) + 1
      BY <1>2, <2>1, <3>1, <3>3
    <3>4. CASE i \in 1 .. Len(entries[t0])
      BY <1>2, <2>1, <3>1, <3>4 DEF Inv, NotAhead
    <3> QED
      BY <3>1, <3>2, <3>3, <3>4
  <2>2. CASE ~(t = t0 /\ treeFiller[t0] = w)
    <3>1. entries'[t] = entries[t]
      BY <1>2, <2>2 DEF Inv, Types
    <3> QED
      BY <3>1 DEF Inv, NotAhead
  <2> QED
    BY <2>1, <2>2
<1>6. Reading'
  <2> SUFFICES ASSUME at' # NULL
               PROVE  /\ \A v \in Writers : v < at' => struct'[v] = n
                      /\ \A t \in Trees : at' <= treeFiller[t] =>
                           \A i \in DOMAIN entries'[t] : entries'[t][i] < n
    BY <1>1, <1>2 DEF Inv, Reading
  <2>1. at' = w + 1
    BY <1>1, NextIsAWriter
  <2>2. \A v \in Writers : v < at' => struct'[v] = n
    BY <1>4, <2>1, WritersAreNumbers
  <2>3. ASSUME NEW t \in Trees, at' <= treeFiller[t]
        PROVE  \A i \in DOMAIN entries'[t] : entries'[t][i] < n
    <3>1. treeFiller[t] \in 0 .. Len(Steering)
      BY WritersAreNumbers DEF Inv, Types, NULL
    <3>2. treeFiller[t] # w /\ w <= treeFiller[t] /\ at # NULL
      BY <1>1, <2>1, <2>3, <3>1, WritersAreNumbers DEF NULL
    <3>3. entries'[t] = entries[t]
      BY <1>2, <3>2 DEF Inv, Types
    <3> QED
      BY <1>1, <3>2, <3>3 DEF Inv, Reading
  <2> QED
    BY <2>2, <2>3
<1>7. NumbersOfTheEntry'
  <2> SUFFICES ASSUME NEW t \in Trees
               PROVE  last'[t].run = last'[t].of
    BY DEF NumbersOfTheEntry
  <2>1. CASE t = t0 /\ treeFiller[t0] = w
    <3>1. last'[t] = Entry(t0, struct', data')
      BY <1>2, <2>1 DEF Inv, Types
    <3>2. runEvent[t0] \in Writers /\ runEvent[t0] <= w
      BY <1>2, <2>1, WritersAreNumbers DEF Inv, Types, FirstAndLast, NULL
    <3>3. last'[t].run = struct'[runEvent[t0]] /\ last'[t].of = n
      BY <3>1 DEF Entry
    <3> QED
      BY <1>4, <3>2, <3>3
  <2>2. CASE ~(t = t0 /\ treeFiller[t0] = w)
    <3>1. last'[t] = last[t]
      BY <1>2, <2>2 DEF Inv, Types
    <3> QED
      BY <3>1 DEF Inv, NumbersOfTheEntry
  <2> QED
    BY <2>1, <2>2
<1>8. FirstAndLast' /\ Opening'
  BY <1>1 DEF Inv, FirstAndLast, Opening
<1> QED
  BY <1>3, <1>5, <1>6, <1>7, <1>8 DEF Inv

\* end: what is written and deleted changes no entry.
LEMMA EndKeeps == ASSUME Inv, NEW w \in Writers, end(w) PROVE Inv'
<1>1. /\ phase' = (IF NextWriter(w) = NULL THEN "done" ELSE "end") /\ at' = NextWriter(w)
      /\ bigTree' = (IF OwnsTree(w) THEN [bigTree EXCEPT ![w] = NoTree] ELSE bigTree)
      /\ saved' = [t \in Trees |-> IF t \in WrittenTrees(w) THEN Len(entries[t]) ELSE saved[t]]
      /\ UNCHANGED <<event, struct, runEvent, treeFiller, entries, last>>
  BY DEF end, ownerVars
<1>2. saved' \in [Trees -> Nat]
  BY <1>1 DEF Inv, Types
<1>3. bigTree' \in [Writers -> Trees \cup {NoTree}]
  BY <1>1 DEF Inv, Types
<1>4. Types'
  BY <1>1, <1>2, <1>3, NextIsAWriter DEF Inv, Types
<1>5. Opening' /\ Reading'
  BY <1>1 DEF Opening, Reading
<1>6. FirstAndLast' /\ NotAhead' /\ NumbersOfTheEntry'
  BY <1>1 DEF Inv, FirstAndLast, NotAhead, NumbersOfTheEntry
<1> QED
  BY <1>4, <1>5, <1>6 DEF Inv

LEMMA NextInv == Inv /\ [Next]_vars => Inv'
<1> SUFFICES ASSUME Inv, [Next]_vars PROVE Inv'
  OBVIOUS
<1>1. ASSUME NEW w \in Writers, init(w) PROVE Inv'
  BY <1>1, InitWriterKeeps
<1>2. ASSUME NEW w \in Writers, processEvent(w) PROVE Inv'
  BY <1>2, ProcessEventKeeps
<1>3. ASSUME NEW w \in Writers, end(w) PROVE Inv'
  BY <1>3, EndKeeps
<1>4. ASSUME NEW s \in InputSets, ReadEvent(s) PROVE Inv'
  BY <1>4, ReadEventKeeps
<1>5. CASE SkipEvent \/ StopReading \/ UNCHANGED vars
  BY <1>5, NoWriterKeeps
<1> QED
  BY <1>1, <1>2, <1>3, <1>4, <1>5 DEF Next

LEMMA InvIsInvariant == Spec => []Inv
<1>1. Init => Inv
  BY InitInv
<1>2. Inv /\ [Next]_vars => Inv'
  BY NextInv
<1> QED
  BY <1>1, <1>2, PTL DEF Spec

-----------------------------------------------------------------------------
\* The run and event numbers of an entry are its event's own: the writer that keeps them
\* is called before the one that fills the tree (init, processEvent), whatever the order
\* of the steering file and however often the chain is cut.
THEOREM EntriesNumbered == Spec => []NumbersOfTheEntry
<1>1. Inv => NumbersOfTheEntry
  BY DEF Inv
<1> QED
  BY <1>1, InvIsInvariant, PTL

\* A step of the writers is a step of the log or leaves it alone.
LEMMA StepIsALogStep ==
  ASSUME Inv, [Next]_vars PROVE L!Next \/ UNCHANGED L!logVars
<1>1. ASSUME NEW w \in Writers, init(w) PROVE UNCHANGED L!logVars
  BY <1>1 DEF init, L!logVars
<1>2. ASSUME NEW w \in Writers, processEvent(w) PROVE L!Next
  <2> DEFINE t0 == TreeOf(w)
             n == event.number
  <2>1. /\ t0 \in Trees /\ n \in 1 .. MaxEvents
        /\ treeFiller[t0] = w => entries' = [entries EXCEPT ![t0] = Append(@, n)]
        /\ treeFiller[t0] # w => UNCHANGED entries
        /\ \A t \in Trees : saved'[t] \in {saved[t], Len(entries'[t])}
    BY <1>2, WhatIsFilled
  <2>2. CASE treeFiller[t0] = w
    <3>1. at # NULL /\ at <= treeFiller[t0] /\ phase = "events"
      BY <1>2, <2>2, WritersAreNumbers DEF processEvent, NULL
    <3>2. \A i \in DOMAIN entries[t0] : entries[t0][i] < n
      BY <2>1, <3>1 DEF Inv, Reading
    <3>3. L!Fill(t0, n)
      BY <2>1, <2>2, <3>2 DEF L!Fill, L!Later
    <3> QED
      BY <2>1, <3>3 DEF L!Next
  <2>3. CASE treeFiller[t0] # w
    BY <2>1, <2>3 DEF L!Next, L!Save
  <2> QED
    BY <2>2, <2>3
<1>3. ASSUME NEW w \in Writers, end(w) PROVE L!Next
  <2>1. /\ UNCHANGED entries
        /\ saved' = [t \in Trees |-> IF t \in WrittenTrees(w) THEN Len(entries[t]) ELSE saved[t]]
    BY <1>3 DEF end
  <2>2. \A t \in Trees : saved'[t] \in {saved[t], Len(entries[t])}
    BY <2>1
  <2> QED
    BY <2>1, <2>2 DEF L!Next, L!Save
<1>4. ASSUME NEW s \in InputSets, ReadEvent(s) PROVE UNCHANGED L!logVars
  BY <1>4 DEF ReadEvent, rootVars, L!logVars
<1>5. CASE SkipEvent \/ StopReading \/ UNCHANGED vars
  BY <1>5 DEF SkipEvent, StopReading, vars, rootVars, L!logVars
<1> QED
  BY <1>1, <1>2, <1>3, <1>4, <1>5 DEF Next

\* The writers implement the safety part of TreeLog: in each tree the events are in
\* their order, none twice, and neither an entry nor what was saved is ever lost
\* (processEvent, the file replaced in it, and end).
THEOREM TreesAreLogs == Spec => L!SafeSpec
<1>1. Init => L!Init
  BY DEF Init, L!Init
<1>2. Inv /\ [Next]_vars => [L!Next]_(L!logVars)
  BY StepIsALogStep
<1> QED
  BY <1>1, <1>2, InvIsInvariant, PTL DEF Spec, L!SafeSpec

-----------------------------------------------------------------------------
(* What the engines leave in their members, and what an entry shows of it.   *)

Origin == SUBSET Nat
HodoscopeMembers == [hod1: Origin, hod2: Origin, track: Origin, maxPass: Origin]
HitMembers ==
  [sums: Origin, counted: Origin, iEvt: Origin, cog: Origin, cogIJ: Origin,
   lCog: [Layers -> Origin], hits: Origin, temperature: Origin, energyDensity: Origin,
   radius: Origin, radiusEw: Origin]

\* The two engines that change some of their members and leave others have them all.
Shaped(e, d) == /\ e = "Hodoscope" => d \in HodoscopeMembers
                /\ e = "Hit" => d \in HitMembers

\* What the branches show of a group, over the layers if it has one for each.
Of(d, g) == IF g = "lCog" THEN UNION {d[g][l] : l \in Layers} ELSE d[g]

\* Every group that does not add up shows event n and no other.
ShowsOnly(e, d, n) ==
  \A g \in DOMAIN Visible(e, d) \ AddsUp : Of(Visible(e, d), g) = {n}
\* Every group that is reset shows no event.
ShowsNone(e, d) ==
  \A g \in DOMAIN Visible(e, d) \ NotReset : Of(Visible(e, d), g) = Default

Lacks(e, s) == e \in DOMAIN AsksFor /\ \E c \in AsksFor[e] : ~Has(s, c)

LEMMA RegisteredShaped == ASSUME NEW e PROVE Shaped(e, Registered(e))
<1>1. Default \in Origin /\ Unwritten \in Origin
  BY DEF Origin, Default, Unwritten
<1>2. CASE e = "Hodoscope"
  BY <1>1, <1>2 DEF Shaped, Registered, HodoscopeMembers
<1>3. CASE e = "Hit"
  <2>1. [l \in Layers |-> Unwritten] \in [Layers -> Origin]
    BY <1>1
  <2> QED
    BY <1>1, <1>3, <2>1 DEF Shaped, Registered, HitMembers
<1> QED
  BY <1>2, <1>3 DEF Shaped

\* What HitFill makes of its members, member by member.
LEMMA HitFilled ==
  ASSUME NEW d \in HitMembers, NEW n, NEW s \in Inputs, Has(s, "first"), Has(s, "second")
  PROVE  LET hit == IF Full(s, "first") THEN s.hit ELSE {}
             some == hit # {}
             counted == IF some THEN d.counted \cup {n} ELSE d.counted
             density == IF hit = {} THEN d.energyDensity ELSE d.energyDensity \cup {n}
         IN  HitFill(d, n, s) =
               [sums |-> {n}, counted |-> counted, iEvt |-> counted,
                cog |-> OrDefault(some, n), cogIJ |-> Taken(Front(hit) # {}, n, d.cogIJ),
                lCog |-> [l \in Layers |-> Taken(l \in hit, n, d.lCog[l])],
                hits |-> OrDefault(some, n),
                temperature |-> Taken(some /\ Full(s, "second"), n, d.temperature),
                energyDensity |-> density, radius |-> {n},
                radiusEw |-> density \cup {n}]
<1> DEFINE hit == IF Full(s, "first") THEN s.hit ELSE {}
           some == hit # {}
           counted == IF some THEN d.counted \cup {n} ELSE d.counted
           density == IF hit = {} THEN d.energyDensity ELSE d.energyDensity \cup {n}
           cog == OrDefault(some, n)
           cogIJ == Taken(Front(hit) # {}, n, d.cogIJ)
           lCog == [l \in Layers |-> Taken(l \in hit, n, d.lCog[l])]
           temperature == Taken(some /\ Full(s, "second"), n, d.temperature)
           loop == [sums |-> {n}, counted |-> counted, iEvt |-> counted, cog |-> cog,
                    cogIJ |-> cogIJ, lCog |-> lCog, hits |-> cog,
                    temperature |-> temperature, energyDensity |-> d.energyDensity,
                    radius |-> d.radius, radiusEw |-> d.radiusEw]
<1>1. HitFill(d, n, s) = HitRadii(HitLoop(d, n, s, hit), n, hit)
  BY DEF HitFill
<1>2. HitLoop(d, n, s, hit) = loop
  <2>1. HitLoop(d, n, s, hit) =
          [d EXCEPT !.sums = {n}, !.counted = counted, !.iEvt = counted, !.cog = cog,
                    !.cogIJ = cogIJ, !.lCog = lCog, !.hits = cog,
                    !.temperature = temperature]
    BY DEF HitLoop
  <2> HIDE DEF hit, some, counted, cog, cogIJ, lCog, temperature
  <2> QED
    BY <2>1 DEF HitMembers
<1>3. HitRadii(loop, n, hit) =
        [sums |-> {n}, counted |-> counted, iEvt |-> counted, cog |-> cog,
         cogIJ |-> cogIJ, lCog |-> lCog, hits |-> cog, temperature |-> temperature,
         energyDensity |-> density, radius |-> {n}, radiusEw |-> density \cup {n}]
  <2>1. HitRadii(loop, n, hit) =
          [loop EXCEPT !.energyDensity = density, !.radius = {n},
                       !.radiusEw = density \cup {n}]
    BY DEF HitRadii
  <2> HIDE DEF hit, some, counted, cog, cogIJ, lCog, temperature, density
  <2> QED
    BY <2>1
<1> QED
  BY <1>1, <1>2, <1>3

LEMMA HitCleared ==
  ASSUME NEW d \in HitMembers
  PROVE  HitReset(d) =
           [sums |-> Default, counted |-> d.counted, iEvt |-> Default, cog |-> Default,
            cogIJ |-> Default, lCog |-> [l \in Layers |-> Default], hits |-> Default,
            temperature |-> Default, energyDensity |-> Default,
            radius |-> Default, radiusEw |-> Default]
<1> DEFINE m == HitReset(d)
<1>1. d = [sums |-> d.sums, counted |-> d.counted, iEvt |-> d.iEvt, cog |-> d.cog,
           cogIJ |-> d.cogIJ, lCog |-> d.lCog, hits |-> d.hits,
           temperature |-> d.temperature, energyDensity |-> d.energyDensity,
           radius |-> d.radius, radiusEw |-> d.radiusEw]
  BY DEF HitMembers
<1>2. DOMAIN m = DOMAIN d
  BY DEF HitReset
<1>3. /\ m.sums = Default /\ m.iEvt = Default /\ m.cog = Default /\ m.cogIJ = Default
      /\ m.lCog = [l \in Layers |-> Default] /\ m.hits = Default /\ m.temperature = Default
      /\ m.energyDensity = Default /\ m.radius = Default /\ m.radiusEw = Default
      /\ m.counted = d.counted
  BY <1>1 DEF HitReset
<1>4. m = [g \in DOMAIN d |-> m[g]]
  BY DEF HitReset
<1> HIDE DEF m
<1> QED
  BY <1>1, <1>2, <1>3, <1>4 DEF m

LEMMA FillKeepsShape ==
  ASSUME NEW e, NEW d, Shaped(e, d), NEW n \in Nat, NEW s \in Inputs
  PROVE  Shaped(e, fillVariables(e, d, n, s))
<1>1. Default \in Origin /\ {n} \in Origin
  BY DEF Origin, Default
<1>2. CASE e = "Hodoscope"
  <2>1. d \in HodoscopeMembers /\ fillVariables(e, d, n, s) = HodoscopeFill(d, n, s)
    BY <1>2 DEF Shaped, fillVariables
  <2>2. HodoscopeFill(d, n, s) \in HodoscopeMembers
    BY <1>1, <2>1 DEF HodoscopeFill, HodoscopeReset, HodoscopeMembers, Taken, BestTrack, Origin
  <2> QED
    BY <1>2, <2>1, <2>2 DEF Shaped
<1>3. CASE e = "Hit"
  <2>1. d \in HitMembers /\ fillVariables(e, d, n, s) = HitFill(d, n, s)
    BY <1>3 DEF Shaped, fillVariables
  <2>2. HitFill(d, n, s) \in HitMembers
    <3>1. CASE Has(s, "first") /\ Has(s, "second")
      <4> DEFINE hit == IF Full(s, "first") THEN s.hit ELSE {}
                 some == hit # {}
                 counted == IF some THEN d.counted \cup {n} ELSE d.counted
                 density == IF some THEN d.energyDensity \cup {n} ELSE d.energyDensity
                 cogIJ == Taken(Front(hit) # {}, n, d.cogIJ)
                 lCog == [l \in Layers |-> Taken(l \in hit, n, d.lCog[l])]
                 temperature == Taken(some /\ Full(s, "second"), n, d.temperature)
                 cog == OrDefault(some, n)
                 both == density \cup {n}
      <4>1. /\ d.counted \in Origin /\ d.energyDensity \in Origin /\ d.cogIJ \in Origin
            /\ d.temperature \in Origin /\ d.lCog \in [Layers -> Origin]
        BY <2>1 DEF HitMembers
      <4>2. counted \in Origin /\ density \in Origin /\ both \in Origin
        BY <1>1, <4>1 DEF Origin
      <4>3. cogIJ \in Origin /\ temperature \in Origin /\ cog \in Origin
        BY <1>1, <4>1 DEF Taken, OrDefault
      <4>4. lCog \in [Layers -> Origin]
        BY <1>1, <4>1 DEF Taken
      <4>5. HitFill(d, n, s) =
              [sums |-> {n}, counted |-> counted, iEvt |-> counted, cog |-> cog,
               cogIJ |-> cogIJ, lCog |-> lCog, hits |-> cog, temperature |-> temperature,
               energyDensity |-> density, radius |-> {n}, radiusEw |-> both]
        BY <2>1, <3>1, HitFilled
      <4> HIDE DEF counted, density, both, cogIJ, temperature, cog, lCog
      <4> QED
        BY <1>1, <4>2, <4>3, <4>4, <4>5 DEF HitMembers
    <3>2. CASE ~(Has(s, "first") /\ Has(s, "second"))
      <4>1. HitFill(d, n, s) = HitReset(d)
        BY <3>2 DEF HitFill
      <4>2. [l \in Layers |-> Default] \in [Layers -> Origin] /\ d.counted \in Origin
        BY <1>1, <2>1 DEF HitMembers
      <4> QED
        BY <1>1, <2>1, <4>1, <4>2, HitCleared DEF HitMembers
    <3> QED
      BY <3>1, <3>2
  <2> QED
    BY <1>3, <2>1, <2>2 DEF Shaped
<1> QED
  BY <1>2, <1>3 DEF Shaped

\* An event that has everything leaves nothing of an earlier one in what is shown.
LEMMA CompleteFill ==
  ASSUME NEW e \in Engines, NEW d, Shaped(e, d), NEW n \in Nat, NEW s \in Inputs,
         HadEverything(s)
  PROVE  ShowsOnly(e, fillVariables(e, d, n, s), n)
<1> DEFINE f == fillVariables(e, d, n, s)
<1>1. /\ Full(s, "first") /\ Full(s, "second") /\ Full(s, "third")
      /\ Has(s, "first") /\ Has(s, "second") /\ Has(s, "third")
      /\ s.hit = Layers /\ s.beam
  BY DEF HadEverything, Has, Full, Absent
<1>2. {n} # Default
  BY DEF Default
<1>3. CASE e = "Hodoscope"
  <2>1. f = [hod1 |-> {n}, hod2 |-> {n}, track |-> {n}, maxPass |-> {n}]
    BY <1>1, <1>3 DEF fillVariables, HodoscopeFill, Taken, BestTrack
  <2> QED
    BY <1>3, <2>1 DEF ShowsOnly, Visible, Of
<1>4. CASE e = "Hit"
  <2>1. d \in HitMembers /\ f = HitFill(d, n, s)
    BY <1>4 DEF Shaped, fillVariables
  <2>2. Layers # {} /\ Front(Layers) # {}
    BY LayersAssumption DEF Front
  <2>3. [l \in Layers |-> Taken(l \in Layers, n, d.lCog[l])] = [l \in Layers |-> {n}]
    BY DEF Taken
  <2> DEFINE counted == d.counted \cup {n}
             density == d.energyDensity \cup {n}
             both == density \cup {n}
  <2> HIDE DEF counted, density, both
  <2>4. f = [sums |-> {n}, counted |-> counted, iEvt |-> counted, cog |-> {n}, cogIJ |-> {n},
             lCog |-> [l \in Layers |-> {n}], hits |-> {n}, temperature |-> {n},
             energyDensity |-> density, radius |-> {n}, radiusEw |-> both]
    <3> DEFINE lc == [l \in Layers |-> Taken(l \in Layers, n, d.lCog[l])]
    <3>1. f = [sums |-> {n}, counted |-> counted, iEvt |-> counted,
               cog |-> OrDefault(Layers # {}, n), cogIJ |-> Taken(Front(Layers) # {}, n, d.cogIJ),
               lCog |-> lc, hits |-> OrDefault(Layers # {}, n),
               temperature |-> Taken(Layers # {} /\ Full(s, "second"), n, d.temperature),
               energyDensity |-> density, radius |-> {n}, radiusEw |-> both]
      BY <1>1, <2>1, <2>2, HitFilled DEF counted, density, both
    <3>2. /\ OrDefault(Layers # {}, n) = {n} /\ Taken(Front(Layers) # {}, n, d.cogIJ) = {n}
          /\ Taken(Layers # {} /\ Full(s, "second"), n, d.temperature) = {n}
      BY <1>1, <2>2 DEF OrDefault, Taken
    <3>3. lc = [l \in Layers |-> {n}]
      BY <2>3
    <3> HIDE DEF f, lc
    <3> QED
      BY <3>1, <3>2, <3>3
  <2> HIDE DEF f
  <2>5. Visible(e, f) = f
    BY <1>2, <1>4, <2>4 DEF Visible
  <2>6. DOMAIN f \ AddsUp = {"sums", "cog", "cogIJ", "lCog", "hits", "temperature", "radius"}
    BY <2>4 DEF AddsUp
  <2>7. UNION {f.lCog[l] : l \in Layers} = {n}
    BY <2>2, <2>4
  <2>8. /\ f.sums = {n} /\ f.cog = {n} /\ f.cogIJ = {n} /\ f.hits = {n}
        /\ f.temperature = {n} /\ f.radius = {n}
    BY <2>4
  <2> QED
    BY <2>5, <2>6, <2>7, <2>8 DEF ShowsOnly, Of, f
<1>5. CASE e = "Trigger"
  <2>1. f = [bits |-> {n}]
    BY <1>5 DEF fillVariables, TriggerFill
  <2> QED
    BY <1>5, <2>1 DEF ShowsOnly, Visible, Of
<1>6. CASE e \in {"EventParameter", "CollectionParameter"}
  <2>1. f = [scalars |-> {n}, vectors |-> {n}]
    BY <1>1, <1>6 DEF fillVariables, EventParameterFill, CollectionParameterFill, Taken, OrDefault
  <2> QED
    BY <1>6, <2>1 DEF ShowsOnly, Visible, Of
<1>7. CASE e = "Bif"
  <2>1. f = [times |-> {n}, triggers |-> {n}]
    BY <1>1, <1>7 DEF fillVariables, BifFill, Taken, OrDefault
  <2> QED
    BY <1>7, <2>1 DEF ShowsOnly, Visible, Of
<1>8. CASE e = "MCParticle"
  <2>1. f = [particle |-> {n}]
    BY <1>1, <1>8 DEF fillVariables, MCParticleFill, Taken
  <2> QED
    BY <1>8, <2>1 DEF ShowsOnly, Visible, Of
<1>9. CASE e = "DriftChamber"
  <2>1. f = [track |-> {n}]
    BY <1>1, <1>9 DEF fillVariables, DriftChamberFill, Taken, OrDefault
  <2> QED
    BY <1>9, <2>1 DEF ShowsOnly, Visible, Of
<1>10. CASE e = "TBTrack"
  <2>1. f = [x |-> {n}, y |-> {n}, numX |-> {n}, numY |-> {n}]
    BY <1>1, <1>10 DEF fillVariables, TBTrackFill, Taken, OrDefault
  <2> QED
    BY <1>10, <2>1 DEF ShowsOnly, Visible, Of
<1>11. CASE e = "TrackFinder"
  <2>1. f = [start |-> {n}, energy |-> {n}, numHits |-> {n}, hits |-> {n}]
    BY <1>1, <1>11 DEF fillVariables, TrackFinderFill, Taken, OrDefault
  <2> HIDE DEF f
  <2>2. Visible(e, f) = f
    BY <1>11, <2>1 DEF Visible
  <2> QED
    BY <2>1, <2>2 DEF ShowsOnly, Of, f
<1>12. CASE e = "HcalTrackLars"
  <2>1. f = [ahc |-> {n}, tcmt |-> {n}, tracks |-> {n}]
    BY <1>1, <1>12 DEF fillVariables, HcalTrackLarsFill, Taken, OrDefault
  <2> QED
    BY <1>12, <2>1 DEF ShowsOnly, Visible, Of
<1>13. CASE e \in {"ShowerShape", "DeepAna"}
  <2>1. f = [clusters |-> {n}]
    BY <1>1, <1>13 DEF fillVariables, ShowerShapeFill, DeepAnaFill, Taken, OrDefault
  <2> QED
    BY <1>13, <2>1 DEF ShowsOnly, Visible, Of
<1>14. CASE e = "ASim"
  <2>1. f = [hits |-> {n}, cog |-> {n}]
    BY <1>1, <1>14 DEF fillVariables, ASimFill, Taken, OrDefault
  <2> QED
    BY <1>14, <2>1 DEF ShowsOnly, Visible, Of
<1> HIDE DEF f
<1> QED
  BY <1>3, <1>4, <1>5, <1>6, <1>7, <1>8, <1>9, <1>10, <1>11, <1>12, <1>13, <1>14 DEF Engines, f

\* An event that lacks what an engine asks for leaves nothing of an earlier one in
\* what the engine resets.
LEMMA LackingFill ==
  ASSUME NEW e, NEW d, Shaped(e, d), NEW n \in Nat, NEW s \in Inputs, Lacks(e, s)
  PROVE  ShowsNone(e, fillVariables(e, d, n, s))
<1> DEFINE f == fillVariables(e, d, n, s)
<1>1. e \in {"Hodoscope", "Hit", "TBTrack", "Bif", "MCParticle"}
  BY DEF Lacks, AsksFor
<1>2. CASE e = "Hodoscope"
  <2>1. ~(Has(s, "first") /\ Has(s, "second") /\ Has(s, "third"))
    BY <1>2 DEF Lacks, AsksFor
  <2>2. d \in HodoscopeMembers /\ f = HodoscopeReset(d)
    BY <1>2, <2>1 DEF Shaped, fillVariables, HodoscopeFill
  <2>3. f = [hod1 |-> Default, hod2 |-> Default, track |-> Default, maxPass |-> d.maxPass]
    BY <2>2 DEF HodoscopeReset, HodoscopeMembers
  <2> HIDE DEF f
  <2> QED
    BY <1>2, <2>3 DEF ShowsNone, Visible, Of, NotReset, f
<1>3. CASE e = "Hit"
  <2>1. ~(Has(s, "first") /\ Has(s, "second"))
    BY <1>3 DEF Lacks, AsksFor
  <2>2. d \in HitMembers /\ f = HitReset(d)
    BY <1>3, <2>1 DEF Shaped, fillVariables, HitFill
  <2>3. f = [sums |-> Default, counted |-> d.counted, iEvt |-> Default, cog |-> Default,
             cogIJ |-> Default, lCog |-> [l \in Layers |-> Default], hits |-> Default,
             temperature |-> Default, energyDensity |-> Default,
             radius |-> Default, radiusEw |-> Default]
    BY <2>2, HitCleared
  <2> HIDE DEF f
  <2>4. Visible(e, f) = f
    BY <1>3, <2>3 DEF Visible
  <2>5. UNION {f.lCog[l] : l \in Layers} = Default
    BY <2>3 DEF Default
  <2>6. DOMAIN f \ NotReset = {"sums", "iEvt", "cog", "cogIJ", "lCog", "hits", "temperature",
                               "energyDensity", "radius", "radiusEw"}
    BY <2>3 DEF NotReset
  <2> QED
    BY <2>3, <2>4, <2>5, <2>6 DEF ShowsNone, Of, f
<1>4. CASE e = "TBTrack"
  <2>1. ~Has(s, "first") /\ ~Full(s, "first")
    BY <1>4 DEF Lacks, AsksFor, Has, Full, Absent
  <2>2. PICK a1, a2 : f = [x |-> Default, y |-> Default, numX |-> a1, numY |-> a2]
    BY <1>4, <2>1 DEF fillVariables, TBTrackFill, Taken, OrDefault
  <2> HIDE DEF f
  <2> QED
    BY <1>4, <2>2 DEF ShowsNone, Visible, Of, NotReset, f
<1>5. CASE e = "Bif"
  <2>1. ~Has(s, "first")
    BY <1>5 DEF Lacks, AsksFor
  <2>2. f = [times |-> Default, triggers |-> Default]
    BY <1>5, <2>1 DEF fillVariables, BifFill, Taken, OrDefault
  <2> HIDE DEF f
  <2> QED
    BY <1>5, <2>2 DEF ShowsNone, Visible, Of, f
<1>6. CASE e = "MCParticle"
  <2>1. ~Has(s, "first")
    BY <1>6 DEF Lacks, AsksFor
  <2>2. f = [particle |-> Default]
    BY <1>6, <2>1 DEF fillVariables, MCParticleFill
  <2> HIDE DEF f
  <2> QED
    BY <1>6, <2>2 DEF ShowsNone, Visible, Of, f
<1> QED
  BY <1>1, <1>2, <1>3, <1>4, <1>5, <1>6

-----------------------------------------------------------------------------
(* What the trees show: the invariant.                                       *)

\* The members of an engine after event n, which had s.
OfTheEvent(e, d, n, s) ==
  /\ HadEverything(s) => ShowsOnly(e, d, n)
  /\ Lacks(e, s) => ShowsNone(e, d)

\* The engines have their members, and those of the writers the chain has called
\* for an event are of this event.
Members ==
  /\ \A w \in Writers : \A e \in Steering[w].engines : Shaped(e, data[w][e])
  /\ DOMAIN data = Writers
  /\ \A w \in Writers : DOMAIN data[w] = Steering[w].engines
  /\ phase = "events" /\ at # NULL =>
       \A w \in Writers : w < at => \A e \in Steering[w].engines :
         OfTheEvent(e, data[w][e], event.number, event.input)

\* The writer that fills a tree is the last of those that have it.
LastFills ==
  \A w \in Writers : phase # "init" \/ w < at => w <= treeFiller[TreeOf(w)]

Showing == Members /\ LastFills /\ CompleteIsFresh /\ MissingIsReset

LEMMA SteeringTypes ==
  ASSUME NEW w \in Writers
  PROVE  Steering[w].engines \subseteq Engines
<1> DEFINE R == [file: STRING, tree: STRING, engines: SUBSET Engines]
<1>1. Steering \in Seq(R) /\ w \in DOMAIN Steering
  BY SteeringAssumption DEF Writers
<1> HIDE DEF R
<1>2. Steering[w] \in R
  BY <1>1
<1> QED
  BY <1>2 DEF R

\* What processEvent leaves in the engines of a writer is of the event.
LEMMA FilledOfTheEvent ==
  ASSUME NEW e \in Engines, NEW d, Shaped(e, d), NEW n \in Nat, NEW s \in Inputs
  PROVE  OfTheEvent(e, fillVariables(e, d, n, s), n, s)
BY CompleteFill, LackingFill DEF OfTheEvent

LEMMA ShowingInit == Init => Showing
<1> SUFFICES ASSUME Init PROVE Showing
  OBVIOUS
<1>1. /\ phase = "init" /\ at = 1
      /\ data = [w \in Writers |-> [e \in Steering[w].engines |-> Registered(e)]]
      /\ last = [t \in Trees |-> NoEntry]
  BY DEF Init
<1>2. Members
  BY <1>1, RegisteredShaped DEF Members
<1>3. LastFills
  BY <1>1, WritersAreNumbers DEF LastFills
<1>4. \A t \in Trees : last[t].of = 0 /\ ~HadEverything(last[t].input)
  BY <1>1 DEF NoEntry, NoInput, HadEverything, Has
<1> QED
  BY <1>2, <1>3, <1>4 DEF Showing, CompleteIsFresh, MissingIsReset

\* Steps that leave the entries leave what they show.
LEMMA SameEntries ==
  ASSUME CompleteIsFresh, MissingIsReset, last' = last
  PROVE  CompleteIsFresh' /\ MissingIsReset'
<1>1. CompleteIsFresh'
  BY DEF CompleteIsFresh, Shown
<1>2. MissingIsReset'
  BY DEF MissingIsReset, Shown
<1> QED
  BY <1>1, <1>2

LEMMA InitWriterShowing ==
  ASSUME Inv, Showing, NEW w \in Writers, init(w) PROVE Showing'
<1> DEFINE t0 == TreeOf(w)
<1>1. /\ phase = "init" /\ at = w /\ at' = NextWriter(w)
      /\ phase' = IF NextWriter(w) = NULL THEN "events" ELSE "init"
      /\ treeFiller' = [treeFiller EXCEPT ![t0] = w]
      /\ UNCHANGED <<event, data, last>>
  BY DEF init, RegisterRunEvent
<1>2. t0 \in Trees /\ treeFiller \in [Trees -> Writers \cup {NULL}]
  BY TreeOfAWriter DEF Inv, Types
<1>3. phase' = "events" => at' = NULL
  BY <1>1
<1>4. Members'
  BY <1>1, <1>3 DEF Showing, Members
<1>5. LastFills'
  <2> SUFFICES ASSUME NEW v \in Writers, phase' # "init" \/ v < at'
               PROVE  v <= treeFiller'[TreeOf(v)]
    BY DEF LastFills
  <2>1. v <= w
    <3>1. CASE NextWriter(w) = NULL
      BY <3>1, NextIsAWriter, WritersAreNumbers
    <3>2. CASE NextWriter(w) # NULL
      <4>1. at' = w + 1 /\ phase' = "init"
        BY <1>1, <3>2, NextIsAWriter
      <4> QED
        BY <4>1, WritersAreNumbers
    <3> QED
      BY <3>1, <3>2
  <2>2. TreeOf(v) \in Trees
    BY TreeOfAWriter
  <2>3. CASE TreeOf(v) = t0
    BY <1>1, <1>2, <2>1, <2>3
  <2>4. CASE TreeOf(v) # t0
    <3>1. v < at
      BY <1>1, <2>1, <2>4, WritersAreNumbers
    <3> QED
      BY <1>1, <1>2, <2>2, <2>4, <3>1 DEF Showing, LastFills
  <2> QED
    BY <2>3, <2>4
<1> QED
  BY <1>1, <1>4, <1>5, SameEntries DEF Showing

\* The chain starts again with no writer called yet.
LEMMA ReadEventShowing ==
  ASSUME Inv, Showing, NEW s \in InputSets, ReadEvent(s) PROVE Showing'
<1>1. /\ phase = "events" /\ phase' = phase /\ at' = 1
      /\ UNCHANGED <<data, last, treeFiller>>
  BY DEF ReadEvent, ownerVars, memberVars, rootVars
<1>2. \A w \in Writers : ~(w < at')
  BY <1>1, WritersAreNumbers
<1>3. Members' /\ LastFills'
  BY <1>1, <1>2 DEF Showing, Members, LastFills
<1> QED
  BY <1>1, <1>3, SameEntries DEF Showing

LEMMA NoWriterShowing ==
  ASSUME Inv, Showing, SkipEvent \/ StopReading \/ UNCHANGED vars PROVE Showing'
<1>1. UNCHANGED <<event, data, last, treeFiller>>
  BY DEF SkipEvent, StopReading, vars, ownerVars, memberVars, rootVars
<1>2. \/ phase = "events" /\ phase' = phase /\ at' = NULL
      \/ phase = "events" /\ phase' = "end"
      \/ UNCHANGED <<phase, at>>
  BY DEF SkipEvent, StopReading, vars
<1>3. Members' /\ LastFills'
  BY <1>1, <1>2 DEF Showing, Members, LastFills
<1> QED
  BY <1>1, <1>3, SameEntries DEF Showing

LEMMA EndShowing ==
  ASSUME Inv, Showing, NEW w \in Writers, end(w) PROVE Showing'
<1>1. /\ phase = "end" /\ phase' \in {"done", "end"}
      /\ UNCHANGED <<data, last, treeFiller>>
  BY DEF end, ownerVars
<1>2. Members' /\ LastFills'
  BY <1>1 DEF Showing, Members, LastFills
<1> QED
  BY <1>1, <1>2, SameEntries DEF Showing

\* What the last writer of a tree fills shows the event in all the writers of it.
LEMMA ProcessEventShowing ==
  ASSUME Inv, Showing, NEW w \in Writers, processEvent(w) PROVE Showing'
<1> DEFINE t0 == TreeOf(w)
           n == event.number
           s == event.input
<1>1. /\ phase = "events" /\ phase' = phase /\ at = w /\ at' = NextWriter(w)
      /\ data' = [data EXCEPT ![w] = FilledData(w)]
      /\ UNCHANGED <<event, treeFiller>>
  BY DEF processEvent
<1>2. /\ t0 \in Trees /\ n \in Nat /\ n # 0 /\ s \in Inputs
      /\ treeFiller[t0] = w => last' = [last EXCEPT ![t0] = Entry(t0, struct', data')]
      /\ treeFiller[t0] # w => last' = last
  BY WhatIsFilled DEF Inv, Types
<1>3. /\ DOMAIN data = Writers /\ DOMAIN last = Trees
      /\ \A v \in Writers : DOMAIN data[v] = Steering[v].engines
  BY DEF Showing, Members, Inv, Types
<1>4. \A v \in Writers : data'[v] = IF v = w THEN FilledData(w) ELSE data[v]
  BY <1>1, <1>3
<1>5. \A e \in Steering[w].engines : FilledData(w)[e] = fillVariables(e, data[w][e], n, s)
  BY DEF FilledData
<1>6. ASSUME NEW v \in Writers, NEW e \in Steering[v].engines
      PROVE  Shaped(e, data'[v][e])
  <2>1. Shaped(e, data[v][e])
    BY <1>6 DEF Showing, Members
  <2>2. CASE v = w
    BY <1>2, <1>4, <1>5, <2>1, <2>2, FillKeepsShape
  <2>3. CASE v # w
    BY <1>4, <2>1, <2>3
  <2> QED
    BY <2>2, <2>3
<1>7. ASSUME NEW v \in Writers, v <= w, NEW e \in Steering[v].engines
      PROVE  OfTheEvent(e, data'[v][e], n, s)
  <2>1. CASE v = w
    <3>1. e \in Engines /\ Shaped(e, data[w][e])
      BY <1>7, <2>1, SteeringTypes DEF Showing, Members
    <3> QED
      BY <1>2, <1>4, <1>5, <1>7, <2>1, <3>1, FilledOfTheEvent
  <2>2. CASE v # w
    <3>1. v < at /\ at # NULL
      BY <1>1, <1>7, <2>2, WritersAreNumbers DEF NULL
    <3> QED
      BY <1>1, <1>4, <2>2, <3>1 DEF Showing, Members
  <2> QED
    BY <2>1, <2>2
<1>8. Members'
  <2>1. \A v \in Writers : DOMAIN data'[v] = Steering[v].engines
    BY <1>3, <1>4 DEF FilledData
  <2>2. DOMAIN data' = Writers
    BY <1>1, <1>3
  <2>3. ASSUME at' # NULL, NEW v \in Writers, v < at', NEW e \in Steering[v].engines
        PROVE  OfTheEvent(e, data'[v][e], n, s)
    <3>1. at' = w + 1
      BY <1>1, <2>3, NextIsAWriter
    <3>2. v <= w
      BY <2>3, <3>1, WritersAreNumbers
    <3> QED
      BY <1>7, <3>2
  <2> QED
    BY <1>1, <1>6, <2>1, <2>2, <2>3 DEF Members
<1>9. LastFills'
  BY <1>1 DEF Showing, LastFills
<1>10. ASSUME treeFiller[t0] = w, NEW v \in Writers, TreeOf(v) = t0,
              NEW e \in Steering[v].engines
       PROVE  /\ last'[t0].shows[v][e] = Visible(e, data'[v][e])
              /\ last'[t0].of = n /\ last'[t0].input = s
              /\ OfTheEvent(e, data'[v][e], n, s)
  <2>1. last'[t0] = Entry(t0, struct', data')
    BY <1>2, <1>3, <1>10
  <2>2. /\ last'[t0].of = n /\ last'[t0].input = s
        /\ last'[t0].shows[v] = [x \in Steering[v].engines |-> Visible(x, data'[v][x])]
    BY <1>10, <2>1 DEF Entry
  <2>3. v <= w
    BY <1>1, <1>10 DEF Showing, LastFills
  <2> QED
    BY <1>7, <2>2, <2>3
<1>11. \A t \in Trees : ~(t = t0 /\ treeFiller[t0] = w) => last'[t] = last[t]
  BY <1>2, <1>3
<1>12. CompleteIsFresh'
  <2> SUFFICES ASSUME NEW t \in Trees, NEW v \in Writers, TreeOf(v) = t,
                      HadEverything(last'[t].input), NEW e \in Steering[v].engines,
                      NEW g \in DOMAIN last'[t].shows[v][e] \ AddsUp
               PROVE  Of(last'[t].shows[v][e], g) = {last'[t].of}
    BY DEF CompleteIsFresh, Shown, Of
  <2>1. CASE t = t0 /\ treeFiller[t0] = w
    BY <1>10, <2>1 DEF OfTheEvent, ShowsOnly
  <2>2. CASE ~(t = t0 /\ treeFiller[t0] = w)
    <3>1. last'[t] = last[t]
      BY <1>11, <2>2
    <3>2. Shown(t, v, e, g) = {last[t].of}
      BY <3>1 DEF Showing, CompleteIsFresh
    <3>3. Shown(t, v, e, g) = Of(last[t].shows[v][e], g)
      BY DEF Shown, Of
    <3> QED
      BY <3>1, <3>2, <3>3
  <2> QED
    BY <2>1, <2>2
<1>13. MissingIsReset'
  <2> SUFFICES ASSUME NEW t \in Trees, NEW v \in Writers, TreeOf(v) = t, last'[t].of # 0,
                      NEW e \in Steering[v].engines \cap DOMAIN AsksFor,
                      \E c \in AsksFor[e] : ~Has(last'[t].input, c),
                      NEW g \in DOMAIN last'[t].shows[v][e] \ NotReset
               PROVE  Of(last'[t].shows[v][e], g) = Default
    BY DEF MissingIsReset, Shown, Of
  <2>1. CASE t = t0 /\ treeFiller[t0] = w
    BY <1>10, <2>1 DEF OfTheEvent, ShowsNone, Lacks
  <2>2. CASE ~(t = t0 /\ treeFiller[t0] = w)
    BY <1>11, <2>2 DEF Showing, MissingIsReset, Shown, Of
  <2> QED
    BY <2>1, <2>2
<1> QED
  BY <1>8, <1>9, <1>12, <1>13 DEF Showing

LEMMA ShowingNext == Inv /\ Showing /\ [Next]_vars => Showing'
<1> SUFFICES ASSUME Inv, Showing, [Next]_vars PROVE Showing'
  OBVIOUS
<1>1. ASSUME NEW w \in Writers, init(w) PROVE Showing'
  BY <1>1, InitWriterShowing
<1>2. ASSUME NEW w \in Writers, processEvent(w) PROVE Showing'
  BY <1>2, ProcessEventShowing
<1>3. ASSUME NEW w \in Writers, end(w) PROVE Showing'
  BY <1>3, EndShowing
<1>4. ASSUME NEW s \in InputSets, ReadEvent(s) PROVE Showing'
  BY <1>4, ReadEventShowing
<1>5. CASE SkipEvent \/ StopReading \/ UNCHANGED vars
  BY <1>5, NoWriterShowing
<1> QED
  BY <1>1, <1>2, <1>3, <1>4, <1>5 DEF Next

LEMMA ShowingAlways == Spec => []Showing
BY ShowingInit, ShowingNext, InvIsInvariant, PTL DEF Spec

\* An entry of a complete event shows nothing of another one, for every set of
\* engines, every order of the writers and every chain that was cut before (the
\* fillVariables of all engines, and processEvent, which fills after the last of them).
THEOREM EntriesFresh == Spec => []CompleteIsFresh
<1>1. Showing => CompleteIsFresh
  BY DEF Showing
<1> QED
  BY <1>1, ShowingAlways, PTL

\* An entry of an event that lacks a collection shows nothing of another one in what
\* the engine resets (resetHitsFill, resetBifFill and their like).
THEOREM EntriesReset == Spec => []MissingIsReset
<1>1. Showing => MissingIsReset
  BY DEF Showing
<1> QED
  BY <1>1, ShowingAlways, PTL

-----------------------------------------------------------------------------
(* Files and trees: who owns them, and where they are.                       *)

RootTypes ==
  /\ outFile \in [Writers -> Addresses \cup {NULL}]
  /\ fileOwner \in [Addresses -> Writers \cup {NULL}]
  /\ treeOwner \in [Trees -> Writers \cup {NULL}]
  /\ DOMAIN name = Addresses
  /\ dir \in [Addresses -> SUBSET Trees]
  /\ treeFile \in [Trees -> Addresses \cup {NULL}]

\* A tree is in the list of its file and of no other, and the owner of the file asked
\* for a file of that name; free memory holds nothing and belongs to nobody.
Files ==
  /\ \A a \in Addresses : name[a] = "" => dir[a] = {} /\ fileOwner[a] = NULL
  /\ \A a \in Addresses : \A t \in dir[a] :
       treeFile[t] = a /\ fileOwner[a] # NULL /\ t[1] = Steering[fileOwner[a]].file
  /\ \A t \in Trees : treeFile[t] # NULL => t \in dir[treeFile[t]]

\* While the writers are initialised no two files have one name.
Named ==
  phase = "init" =>
    /\ \A a \in Addresses :
         name[a] # "" => fileOwner[a] # NULL /\ name[a] = Steering[fileOwner[a]].file
    /\ \A a, b \in Addresses : name[a] = name[b] /\ name[a] # "" => a = b

\* A writer that was initialised has its file, and its tree until the end.
Called(w) == phase = "events" \/ (phase = "init" /\ w < at)
HasFiles ==
  /\ \A w \in Writers : Called(w) => outFile[w] # NULL /\ treeFile[TreeOf(w)] # NULL
  /\ \A w \in Writers : phase = "end" /\ at <= w => outFile[w] # NULL

Placement == RootTypes /\ Files /\ Named /\ HasFiles

LEMMA PlacementInit == Init => Placement
<1> SUFFICES ASSUME Init PROVE Placement
  OBVIOUS
<1>1. /\ phase = "init" /\ at = 1
      /\ outFile = [w \in Writers |-> NULL] /\ fileOwner = [a \in Addresses |-> NULL]
      /\ treeOwner = [t \in Trees |-> NULL] /\ name = [a \in Addresses |-> ""]
      /\ dir = [a \in Addresses |-> {}] /\ treeFile = [t \in Trees |-> NULL]
  BY DEF Init
<1>2. RootTypes
  BY <1>1 DEF RootTypes
<1>3. Files
  BY <1>1 DEF Files
<1>4. Named
  BY <1>1 DEF Named
<1>5. \A w \in Writers : ~(w < 1)
  BY WritersAreNumbers
<1>6. HasFiles
  BY <1>1, <1>5 DEF HasFiles, Called
<1> QED
  BY <1>2, <1>3, <1>4, <1>6 DEF Placement

\* init: the file of the name, with the tree in it.
LEMMA InitWriterPlaces ==
  ASSUME Inv, Placement, NEW w \in Writers, init(w)
  PROVE  /\ Placement'
         /\ \E a \in Addresses :
              /\ outFile' = [outFile EXCEPT ![w] = a]
              /\ OpenFile(w, a) /\ OpenTree(w, a, TreeOf(w))
              /\ name[a] \in {"", Steering[w].file} /\ name'[a] = Steering[w].file
              /\ \A b \in Addresses : name[b] = Steering[w].file => b = a
<1> DEFINE t0 == TreeOf(w)
           f == Steering[w].file
<1>1. t0 \in Trees /\ t0[1] = f /\ f # "" /\ w \in Nat /\ w # NULL
  <2>1. \A v \in DOMAIN Steering : Steering[v].file # ""
    BY FileNameAssumption
  <2>2. f # ""
    BY <2>1 DEF Writers
  <2>3. t0[1] = f
    BY DEF TreeOf
  <2>4. t0 \in Trees
    BY TreeOfAWriter
  <2>5. w \in Nat /\ w # NULL
    BY WritersAreNumbers DEF NULL
  <2> QED
    BY <2>2, <2>3, <2>4, <2>5
<1>2. /\ phase = "init" /\ at = w /\ at' = NextWriter(w)
      /\ phase' = IF NextWriter(w) = NULL THEN "events" ELSE "init"
  BY DEF init
<1>3. PICK a \in Addresses :
        /\ OpenFile(w, a) /\ OpenTree(w, a, t0)
        /\ outFile' = [outFile EXCEPT ![w] = a]
  BY DEF init
<1>4. /\ \A b, c \in Addresses : name[b] = name[c] /\ name[b] # "" => b = c
      /\ \A b \in Addresses :
           name[b] # "" => fileOwner[b] # NULL /\ name[b] = Steering[fileOwner[b]].file
  BY <1>2 DEF Placement, Named
<1>5. /\ \A b \in Addresses : name'[b] = IF b = a THEN f ELSE name[b]
      /\ \A b \in Addresses : fileOwner'[b] = IF b = a /\ name[a] = "" THEN w ELSE fileOwner[b]
      /\ DOMAIN name' = Addresses /\ fileOwner' \in [Addresses -> Writers \cup {NULL}]
      /\ \A b \in Addresses : name[b] = f => b = a
      /\ name[a] = "" \/ name[a] = f
  <2>1. CASE \E b \in Addresses : name[b] = f
    <3>1. name[a] = f /\ UNCHANGED <<name, fileOwner>>
      BY <1>3, <2>1 DEF OpenFile
    <3> QED
      BY <1>1, <1>4, <3>1 DEF Placement, RootTypes
  <2>2. CASE ~ \E b \in Addresses : name[b] = f
    <3>1. /\ name[a] = ""
          /\ name' = [name EXCEPT ![a] = f] /\ fileOwner' = [fileOwner EXCEPT ![a] = w]
      BY <1>3, <2>2 DEF OpenFile, Free
    <3> QED
      BY <1>1, <2>2, <3>1 DEF Placement, RootTypes
  <2> QED
    BY <2>1, <2>2
<1>6. fileOwner'[a] # NULL /\ Steering[fileOwner'[a]].file = f
  BY <1>1, <1>4, <1>5
<1>7. /\ dir' \in [Addresses -> SUBSET Trees] /\ treeFile' \in [Trees -> Addresses \cup {NULL}]
      /\ treeOwner' \in [Trees -> Writers \cup {NULL}]
      /\ \A b \in Addresses : dir'[b] = IF b = a THEN dir[b] \cup {t0} ELSE dir[b]
      /\ \A t \in Trees : treeFile'[t] = IF t = t0 THEN a ELSE treeFile[t]
  <2>1. CASE t0 \in dir[a]
    <3>1. treeFile[t0] = a /\ UNCHANGED <<dir, treeFile, treeOwner>>
      BY <1>3, <2>1 DEF OpenTree, Placement, Files
    <3> QED
      BY <1>1, <2>1, <3>1 DEF Placement, RootTypes
  <2>2. CASE t0 \notin dir[a]
    <3>1. /\ dir' = [dir EXCEPT ![a] = @ \cup {t0}]
          /\ treeFile' = [treeFile EXCEPT ![t0] = a]
          /\ treeOwner' = [treeOwner EXCEPT ![t0] = w]
      BY <1>3, <2>2 DEF OpenTree
    <3>2. /\ dir \in [Addresses -> SUBSET Trees] /\ treeFile \in [Trees -> Addresses \cup {NULL}]
          /\ treeOwner \in [Trees -> Writers \cup {NULL}]
      BY DEF Placement, RootTypes
    <3> HIDE DEF t0
    <3>3. /\ treeFile' \in [Trees -> Addresses \cup {NULL}]
          /\ treeOwner' \in [Trees -> Writers \cup {NULL}]
          /\ \A t \in Trees : treeFile'[t] = IF t = t0 THEN a ELSE treeFile[t]
      BY <1>1, <3>1, <3>2
    <3>4. \A b \in Addresses : dir'[b] = IF b = a THEN dir[b] \cup {t0} ELSE dir[b]
      BY <3>1, <3>2
    <3>5. dir' \in [Addresses -> SUBSET Trees]
      <4>1. dir[a] \cup {t0} \in SUBSET Trees
        BY <1>1, <3>2
      <4> QED
        BY <3>1, <3>2, <4>1
    <3> QED
      BY <3>3, <3>4, <3>5
  <2> QED
    BY <2>1, <2>2
<1>8. \A b \in Addresses : t0 \in dir[b] => b = a
  <2> SUFFICES ASSUME NEW b \in Addresses, t0 \in dir[b] PROVE b = a
    OBVIOUS
  <2>1. /\ name[b] # "" /\ fileOwner[b] # NULL /\ f = Steering[fileOwner[b]].file
    BY <1>1 DEF Placement, Files
  <2>2. name[b] = f
    BY <1>4, <2>1
  <2> QED
    BY <1>5, <2>2
<1>9. RootTypes'
  BY <1>2, <1>3, <1>5, <1>7 DEF Placement, RootTypes
<1>10. Files'
  <2>1. ASSUME NEW b \in Addresses, name'[b] = ""
        PROVE  dir'[b] = {} /\ fileOwner'[b] = NULL
    BY <1>1, <1>5, <1>7, <2>1 DEF Placement, Files
  <2>2. ASSUME NEW b \in Addresses, NEW t \in dir'[b]
        PROVE  treeFile'[t] = b /\ fileOwner'[b] # NULL /\ t[1] = Steering[fileOwner'[b]].file
    <3>1. t \in Trees
      BY <1>7, <2>2
    <3>2. CASE t = t0
      <4>1. b = a
        BY <1>7, <1>8, <2>2, <3>2
      <4> QED
        BY <1>1, <1>6, <1>7, <3>1, <3>2, <4>1
    <3>3. CASE t # t0
      <4>1. /\ t \in dir[b] /\ treeFile[t] = b /\ fileOwner[b] # NULL
            /\ t[1] = Steering[fileOwner[b]].file /\ name[b] # ""
        <5>1. t \in dir[b]
          BY <1>7, <2>2, <3>3
        <5> QED
          BY <5>1 DEF Placement, Files
      <4>2. fileOwner'[b] = fileOwner[b]
        BY <1>5, <4>1
      <4> QED
        BY <1>7, <3>1, <3>3, <4>1, <4>2
    <3> QED
      BY <3>2, <3>3
  <2>3. ASSUME NEW t \in Trees, treeFile'[t] # NULL
        PROVE  t \in dir'[treeFile'[t]]
    <3>1. CASE t = t0
      BY <1>7, <3>1
    <3>2. CASE t # t0
      <4>1. treeFile'[t] = treeFile[t]
        BY <1>7, <3>2
      <4>2. treeFile[t] \in Addresses
        BY <2>3, <4>1 DEF Placement, RootTypes
      <4>3. t \in dir[treeFile[t]]
        BY <2>3, <4>1 DEF Placement, Files
      <4> QED
        BY <1>7, <4>1, <4>2, <4>3
    <3> QED
      BY <3>1, <3>2
  <2> QED
    BY <2>1, <2>2, <2>3 DEF Files
<1>11. Named'
  <2>1. ASSUME NEW b \in Addresses, name'[b] # ""
        PROVE  fileOwner'[b] # NULL /\ name'[b] = Steering[fileOwner'[b]].file
    <3>1. CASE b = a
      BY <1>5, <1>6, <3>1
    <3>2. CASE b # a
      BY <1>4, <1>5, <2>1, <3>2
    <3> QED
      BY <3>1, <3>2
  <2>2. ASSUME NEW b \in Addresses, NEW c \in Addresses, name'[b] = name'[c], name'[b] # ""
        PROVE  b = c
    BY <1>4, <1>5, <2>2
  <2> QED
    BY <2>1, <2>2 DEF Named
<1>12. HasFiles'
  <2>1. ASSUME NEW v \in Writers, Called(v)'
        PROVE  outFile'[v] # NULL /\ treeFile'[TreeOf(v)] # NULL
    <3>1. v = w \/ v < w
      <4>1. CASE NextWriter(w) = NULL
        BY <4>1, NextIsAWriter, WritersAreNumbers
      <4>2. CASE NextWriter(w) # NULL
        <5>1. v < w + 1
          BY <1>2, <2>1, <4>2, NextIsAWriter DEF Called
        <5> QED
          BY <5>1, WritersAreNumbers
      <4> QED
        BY <4>1, <4>2
    <3>2. v < w => outFile[v] # NULL /\ treeFile[TreeOf(v)] # NULL
      BY <1>2 DEF Placement, HasFiles, Called
    <3>3. a # NULL /\ TreeOf(v) \in Trees
      BY AddressAssumption, TreeOfAWriter
    <3> QED
      BY <1>3, <1>7, <3>1, <3>2, <3>3 DEF Placement, RootTypes
  <2>2. phase' # "end"
    BY <1>2
  <2> QED
    BY <2>1, <2>2 DEF HasFiles
<1>13. Placement'
  BY <1>9, <1>10, <1>11, <1>12 DEF Placement
<1>14. name[a] \in {"", f} /\ name'[a] = f /\ \A b \in Addresses : name[b] = f => b = a
  BY <1>5
<1> QED
  BY <1>3, <1>13, <1>14

\* A replaced file: its trees and its owner go to memory that was free.
LEMMA ChangeFileMoves ==
  ASSUME Placement, NEW t0 \in Trees, treeFile[t0] # NULL, ChangeFile(treeFile[t0])
  PROVE  \E new \in Addresses :
           LET old == treeFile[t0]
           IN  /\ old \in Addresses /\ old # new
               /\ name[old] # "" /\ dir[new] = {} /\ fileOwner[new] = NULL
               /\ \A a \in Addresses :
                    name'[a] = IF a = new THEN "next" ELSE IF a = old THEN "" ELSE name[a]
               /\ \A a \in Addresses :
                    dir'[a] = IF a = new THEN dir[old] ELSE IF a = old THEN {} ELSE dir[a]
               /\ \A a \in Addresses :
                    fileOwner'[a] = IF a = new THEN fileOwner[old]
                                    ELSE IF a = old THEN NULL ELSE fileOwner[a]
               /\ treeFile' = [t \in Trees |-> IF t \in dir[old] THEN new ELSE treeFile[t]]
               /\ DOMAIN name' = Addresses /\ dir' \in [Addresses -> SUBSET Trees]
               /\ fileOwner' \in [Addresses -> Writers \cup {NULL}]
<1> DEFINE old == treeFile[t0]
<1>1. old \in Addresses /\ t0 \in dir[old] /\ name[old] # ""
  <2>1. treeFile[t0] \in Addresses \cup {NULL}
    BY DEF Placement, RootTypes
  <2>2. old \in Addresses /\ t0 \in dir[old]
    BY <2>1 DEF Placement, Files
  <2> HIDE DEF old
  <2> QED
    BY <2>2 DEF Placement, Files
<1> HIDE DEF old
<1>2. PICK new \in Free :
        /\ name' = [name EXCEPT ![old] = "", ![new] = "next"]
        /\ dir' = [dir EXCEPT ![old] = {}, ![new] = dir[old]]
        /\ treeFile' = [t \in Trees |-> IF t \in dir[old] THEN new ELSE treeFile[t]]
        /\ fileOwner' = [fileOwner EXCEPT ![new] = fileOwner[old], ![old] = NULL]
  BY DEF ChangeFile, old
<1>3. new \in Addresses /\ name[new] = "" /\ new # old /\ dir[new] = {} /\ fileOwner[new] = NULL
  BY <1>1, <1>2 DEF Free, Placement, Files
<1>4. /\ DOMAIN name = Addresses /\ dir \in [Addresses -> SUBSET Trees]
      /\ fileOwner \in [Addresses -> Writers \cup {NULL}]
  BY DEF Placement, RootTypes
<1>6. DOMAIN name' = Addresses
  BY <1>2, <1>4
<1>7. dir' \in [Addresses -> SUBSET Trees]
  BY <1>1, <1>2, <1>4
<1>8. fileOwner' \in [Addresses -> Writers \cup {NULL}]
  BY <1>1, <1>2, <1>4
<1>9. \A a \in Addresses :
        /\ name'[a] = IF a = new THEN "next" ELSE IF a = old THEN "" ELSE name[a]
        /\ dir'[a] = IF a = new THEN dir[old] ELSE IF a = old THEN {} ELSE dir[a]
        /\ fileOwner'[a] = IF a = new THEN fileOwner[old]
                           ELSE IF a = old THEN NULL ELSE fileOwner[a]
  BY <1>1, <1>2, <1>3, <1>4
<1> QED
  BY <1>1, <1>2, <1>3, <1>6, <1>7, <1>8, <1>9 DEF old

\* processEvent: a file may be replaced, and with it the place of its trees.
LEMMA ProcessEventPlaces ==
  ASSUME Inv, Placement, NEW w \in Writers, processEvent(w)
  PROVE  /\ Placement'
         /\ \/ UNCHANGED <<name, dir, treeFile, fileOwner>>
            \/ \E t \in Trees : treeFile[t] # NULL /\ ChangeFile(treeFile[t])
<1> DEFINE t0 == TreeOf(w)
<1>1. /\ phase = "events" /\ phase' = phase /\ at = w
      /\ UNCHANGED <<outFile, treeOwner>>
      /\ IF treeFiller[bigTree[w]] = w THEN FillTree(bigTree[w])
         ELSE SameFile /\ UNCHANGED <<entries, last>>
  BY DEF processEvent
<1>2. t0 \in Trees /\ bigTree[w] = t0 /\ treeFile[t0] # NULL
  BY <1>1, TreeOfAWriter DEF Inv, Reading, Placement, HasFiles, Called
<1>3. SameFile \/ ChangeFile(treeFile[t0])
  BY <1>1, <1>2 DEF FillTree
<1>4. CASE SameFile
  <2>1. UNCHANGED <<name, dir, treeFile, fileOwner>>
    BY <1>4 DEF SameFile
  <2>2. RootTypes' /\ Files'
    BY <1>1, <2>1 DEF Placement, RootTypes, Files
  <2>3. Named' /\ HasFiles'
    BY <1>1, <2>1 DEF Placement, Named, HasFiles, Called
  <2> QED
    BY <2>1, <2>2, <2>3 DEF Placement
<1>5. CASE ChangeFile(treeFile[t0])
  <2> DEFINE old == treeFile[t0]
  <2>1. PICK new \in Addresses :
          /\ old \in Addresses /\ old # new
          /\ name[old] # "" /\ dir[new] = {} /\ fileOwner[new] = NULL
          /\ \A a \in Addresses :
               name'[a] = IF a = new THEN "next" ELSE IF a = old THEN "" ELSE name[a]
          /\ \A a \in Addresses :
               dir'[a] = IF a = new THEN dir[old] ELSE IF a = old THEN {} ELSE dir[a]
          /\ \A a \in Addresses :
               fileOwner'[a] = IF a = new THEN fileOwner[old]
                               ELSE IF a = old THEN NULL ELSE fileOwner[a]
          /\ treeFile' = [t \in Trees |-> IF t \in dir[old] THEN new ELSE treeFile[t]]
          /\ DOMAIN name' = Addresses /\ dir' \in [Addresses -> SUBSET Trees]
          /\ fileOwner' \in [Addresses -> Writers \cup {NULL}]
    BY <1>2, <1>5, ChangeFileMoves
  <2>2. /\ \A t \in Trees : treeFile'[t] = IF t \in dir[old] THEN new ELSE treeFile[t]
        /\ treeFile' \in [Trees -> Addresses \cup {NULL}]
    BY <2>1 DEF Placement, RootTypes
  <2> HIDE DEF old
  <2>3. new # NULL /\ old # NULL
    BY <2>1, AddressAssumption
  <2>4. RootTypes'
    BY <1>1, <2>1, <2>2 DEF Placement, RootTypes
  <2>5. Files'
    <3>1. ASSUME NEW a \in Addresses, name'[a] = ""
          PROVE  dir'[a] = {} /\ fileOwner'[a] = NULL
      <4>1. CASE a = old
        BY <2>1, <4>1
      <4>2. CASE a # old
        <5>1. a # new /\ name[a] = ""
          BY <2>1, <3>1, <4>2
        <5> QED
          BY <2>1, <4>2, <5>1 DEF Placement, Files
      <4> QED
        BY <4>1, <4>2
    <3>2. ASSUME NEW a \in Addresses, NEW t \in dir'[a]
          PROVE  treeFile'[t] = a /\ fileOwner'[a] # NULL /\ t[1] = Steering[fileOwner'[a]].file
      <4>1. t \in Trees /\ a # old
        BY <2>1, <3>2
      <4>2. CASE a = new
        <5>1. t \in dir[old]
          BY <2>1, <3>2, <4>2
        <5>2. fileOwner[old] # NULL /\ t[1] = Steering[fileOwner[old]].file
          BY <2>1, <5>1 DEF Placement, Files
        <5> QED
          BY <2>1, <2>2, <4>1, <4>2, <5>1, <5>2
      <4>3. CASE a # new
        <5>1. t \in dir[a]
          BY <2>1, <3>2, <4>1, <4>3
        <5>2. treeFile[t] = a /\ fileOwner[a] # NULL /\ t[1] = Steering[fileOwner[a]].file
          BY <5>1 DEF Placement, Files
        <5>3. t \in dir[old] => treeFile[t] = old
          BY <2>1 DEF Placement, Files
        <5>4. t \notin dir[old]
          BY <4>1, <5>2, <5>3
        <5> QED
          BY <2>1, <2>2, <4>1, <4>3, <5>2, <5>4
      <4> QED
        BY <4>2, <4>3
    <3>3. ASSUME NEW t \in Trees, treeFile'[t] # NULL
          PROVE  t \in dir'[treeFile'[t]]
      <4>1. CASE t \in dir[old]
        BY <2>1, <2>2, <4>1
      <4>2. CASE t \notin dir[old]
        <5>1. treeFile'[t] = treeFile[t]
          BY <2>2, <4>2
        <5>2. treeFile[t] \in Addresses
          BY <3>3, <5>1 DEF Placement, RootTypes
        <5>3. t \in dir[treeFile[t]]
          BY <3>3, <5>1 DEF Placement, Files
        <5>4. treeFile[t] # old /\ treeFile[t] # new
          BY <2>1, <4>2, <5>3
        <5> QED
          BY <2>1, <5>1, <5>2, <5>3, <5>4
      <4> QED
        BY <4>1, <4>2
    <3> QED
      BY <3>1, <3>2, <3>3 DEF Files
  <2>6. Named'
    BY <1>1 DEF Named
  <2>7. HasFiles'
    <3>1. ASSUME NEW v \in Writers
          PROVE  outFile'[v] # NULL /\ treeFile'[TreeOf(v)] # NULL
      <4>1. outFile[v] # NULL /\ treeFile[TreeOf(v)] # NULL
        BY <1>1 DEF Placement, HasFiles, Called
      <4> QED
        BY <1>1, <2>2, <2>3, <4>1, TreeOfAWriter
    <3> QED
      BY <1>1, <3>1 DEF HasFiles
  <2> QED
    BY <1>2, <1>5, <2>4, <2>5, <2>6, <2>7 DEF Placement
<1> QED
  BY <1>3, <1>4, <1>5

\* end: what is deleted is in the list of no file any more, and nothing else is gone.
LEMMA EndDeletes ==
  ASSUME Inv, Placement, NEW w \in Writers, end(w)
  PROVE  /\ outFile[w] \in Addresses
         /\ OwnsTree(w) => bigTree[w] \in Trees
         /\ \A a \in Addresses : dir'[a] = dir[a] \ DeletedTrees(w)
         /\ dir' \in [Addresses -> SUBSET Trees]
         /\ \A t \in ClosedTrees(w) : OwnsFile(w) /\ t \in dir[outFile[w]]
<1> DEFINE mine == IF OwnsTree(w) THEN {bigTree[w]} ELSE {}
           after == DirAfterDelete(w)
<1>1. phase = "end" /\ at = w
  BY DEF end
<1>2. outFile[w] \in Addresses
  <2>1. outFile[w] # NULL
    BY <1>1, WritersAreNumbers DEF Placement, HasFiles
  <2> QED
    BY <2>1 DEF Placement, RootTypes
<1>3. OwnsTree(w) => bigTree[w] \in Trees
  BY DEF OwnsTree, Inv, Types
<1>4. dir \in [Addresses -> SUBSET Trees] /\ treeFile \in [Trees -> Addresses \cup {NULL}]
  BY DEF Placement, RootTypes
<1>5. \A a \in Addresses : \A t \in dir[a] : treeFile[t] = a
  BY DEF Placement, Files
<1>6. after \in [Addresses -> SUBSET Trees] /\ \A a \in Addresses : after[a] = dir[a] \ mine
  <2>1. CASE OwnsTree(w) /\ treeFile[bigTree[w]] # NULL
    <3> DEFINE b == treeFile[bigTree[w]]
    <3>1. b \in Addresses
      BY <1>3, <1>4, <2>1
    <3> HIDE DEF b
    <3>2. after = [dir EXCEPT ![b] = @ \ {bigTree[w]}] /\ mine = {bigTree[w]}
      BY <2>1 DEF DirAfterDelete, b
    <3>3. \A a \in Addresses : bigTree[w] \in dir[a] => a = b
      BY <1>5 DEF b
    <3> HIDE DEF after, mine
    <3>4. \A a \in Addresses : after[a] = dir[a] \ mine
      BY <1>4, <3>1, <3>2, <3>3
    <3>5. after \in [Addresses -> SUBSET Trees]
      BY <1>4, <3>1, <3>2
    <3> QED
      BY <3>4, <3>5
  <2>2. CASE OwnsTree(w) /\ treeFile[bigTree[w]] = NULL
    <3>1. after = dir /\ mine = {bigTree[w]}
      BY <2>2 DEF DirAfterDelete
    <3>2. \A a \in Addresses : bigTree[w] \notin dir[a]
      BY <1>5, <2>2, AddressAssumption
    <3> HIDE DEF after, mine
    <3> QED
      BY <1>4, <3>1, <3>2
  <2>3. CASE ~OwnsTree(w)
    BY <1>4, <2>3 DEF DirAfterDelete
  <2> QED
    BY <2>1, <2>2, <2>3
<1>7. /\ dir' = IF OwnsFile(w) THEN [after EXCEPT ![outFile[w]] = {}] ELSE after
      /\ ClosedTrees(w) = IF OwnsFile(w) THEN after[outFile[w]] ELSE {}
      /\ DeletedTrees(w) = mine \cup ClosedTrees(w)
  BY DEF end, ClosedTrees, DeletedTrees
<1> HIDE DEF after, mine
<1>8. \A t \in ClosedTrees(w) : OwnsFile(w) /\ t \in dir[outFile[w]]
  BY <1>2, <1>6, <1>7
<1>9. dir' \in [Addresses -> SUBSET Trees]
  BY <1>2, <1>6, <1>7
<1>10. ASSUME NEW a \in Addresses PROVE dir'[a] = dir[a] \ DeletedTrees(w)
  <2>1. CASE OwnsFile(w) /\ a = outFile[w]
    BY <1>2, <1>6, <1>7, <2>1
  <2>2. CASE ~(OwnsFile(w) /\ a = outFile[w])
    <3>1. dir'[a] = dir[a] \ mine
      BY <1>2, <1>6, <1>7, <2>2
    <3>2. \A t \in dir[a] : t \notin ClosedTrees(w)
      BY <1>2, <1>5, <1>8, <2>2
    <3> QED
      BY <1>7, <3>1, <3>2
  <2> QED
    BY <2>1, <2>2
<1> QED
  BY <1>2, <1>3, <1>8, <1>9, <1>10

LEMMA EndPlaces ==
  ASSUME Inv, Placement, NEW w \in Writers, end(w) PROVE Placement'
<1>1. /\ phase = "end" /\ at = w /\ at' = NextWriter(w)
      /\ phase' = (IF NextWriter(w) = NULL THEN "done" ELSE "end")
      /\ treeFile' = [t \in Trees |-> IF t \in DeletedTrees(w) THEN NULL ELSE treeFile[t]]
      /\ name' = (IF OwnsFile(w) THEN [name EXCEPT ![outFile[w]] = "closed"] ELSE name)
      /\ outFile' = (IF OwnsFile(w) THEN [outFile EXCEPT ![w] = NULL] ELSE outFile)
      /\ UNCHANGED <<fileOwner, treeOwner>>
  BY DEF end, ownerVars
<1>2. /\ outFile[w] \in Addresses /\ dir' \in [Addresses -> SUBSET Trees]
      /\ \A a \in Addresses : dir'[a] = dir[a] \ DeletedTrees(w)
  BY EndDeletes
<1>3. RootTypes'
  <2>1. treeFile' \in [Trees -> Addresses \cup {NULL}]
    BY <1>1 DEF Placement, RootTypes
  <2>2. outFile' \in [Writers -> Addresses \cup {NULL}]
    BY <1>1 DEF Placement, RootTypes
  <2>3. DOMAIN name' = Addresses
    BY <1>1 DEF Placement, RootTypes
  <2> QED
    BY <1>1, <1>2, <2>1, <2>2, <2>3 DEF Placement, RootTypes
<1>4. Files'
  <2>1. ASSUME NEW a \in Addresses, name'[a] = ""
        PROVE  dir'[a] = {} /\ fileOwner'[a] = NULL
    <3>1. name[a] = ""
      BY <1>1, <1>2, <2>1 DEF Placement, RootTypes
    <3> QED
      BY <1>1, <1>2, <3>1 DEF Placement, Files
  <2>2. ASSUME NEW a \in Addresses, NEW t \in dir'[a]
        PROVE  treeFile'[t] = a /\ fileOwner'[a] # NULL /\ t[1] = Steering[fileOwner'[a]].file
    <3>1. t \in dir[a] /\ t \notin DeletedTrees(w) /\ t \in Trees
      BY <1>2, <2>2
    <3>2. treeFile[t] = a /\ fileOwner[a] # NULL /\ t[1] = Steering[fileOwner[a]].file
      BY <3>1 DEF Placement, Files
    <3> QED
      BY <1>1, <3>1, <3>2
  <2>3. ASSUME NEW t \in Trees, treeFile'[t] # NULL
        PROVE  t \in dir'[treeFile'[t]]
    <3>1. t \notin DeletedTrees(w) /\ treeFile'[t] = treeFile[t]
      BY <1>1, <2>3
    <3>2. treeFile[t] \in Addresses
      BY <2>3, <3>1 DEF Placement, RootTypes
    <3>3. t \in dir[treeFile[t]]
      BY <2>3, <3>1 DEF Placement, Files
    <3> QED
      BY <1>2, <3>1, <3>2, <3>3
  <2> QED
    BY <2>1, <2>2, <2>3 DEF Files
<1>5. Named'
  BY <1>1 DEF Named
<1>6. HasFiles'
  <2>1. ASSUME NEW v \in Writers, phase' = "end", at' <= v
        PROVE  outFile'[v] # NULL
    <3>1. at' = w + 1
      BY <1>1, <2>1, NextIsAWriter
    <3>2. v # w /\ at <= v
      BY <1>1, <2>1, <3>1, WritersAreNumbers
    <3>3. outFile'[v] = outFile[v]
      BY <1>1, <3>2 DEF Placement, RootTypes
    <3> QED
      BY <1>1, <3>2, <3>3 DEF Placement, HasFiles
  <2> QED
    BY <1>1, <2>1 DEF HasFiles, Called
<1> QED
  BY <1>3, <1>4, <1>5, <1>6 DEF Placement

\* Reading an event, cutting the chain and stopping move no file.
LEMMA NoFilePlaces ==
  ASSUME Inv, Placement,
         (\E s \in InputSets : ReadEvent(s)) \/ SkipEvent \/ StopReading \/ UNCHANGED vars
  PROVE  /\ Placement'
         /\ UNCHANGED <<outFile, bigTree, fileOwner, treeOwner, name, dir, treeFile, misused>>
         /\ (phase = "events" /\ phase' = "end") \/ (phase' = phase /\ phase = "events")
              \/ UNCHANGED <<phase, at>>
<1>1. UNCHANGED <<outFile, bigTree, fileOwner, treeOwner, name, dir, treeFile, misused>>
  BY DEF ReadEvent, SkipEvent, StopReading, vars, ownerVars, memberVars, rootVars
<1>2. \/ phase = "events" /\ phase' = "end"
      \/ phase' = phase /\ phase = "events"
      \/ UNCHANGED <<phase, at>>
  BY DEF ReadEvent, SkipEvent, StopReading, vars
<1>3. RootTypes' /\ Files'
  BY <1>1 DEF Placement, RootTypes, Files
<1>4. Named' /\ HasFiles'
  BY <1>1, <1>2 DEF Placement, Named, HasFiles, Called
<1> QED
  BY <1>1, <1>2, <1>3, <1>4 DEF Placement

LEMMA PlacementNext == Inv /\ Placement /\ [Next]_vars => Placement'
BY InitWriterPlaces, ProcessEventPlaces, EndPlaces, NoFilePlaces DEF Next

LEMMA PlacementAlways == Spec => []Placement
BY PlacementInit, PlacementNext, InvIsInvariant, PTL DEF Spec

\* A writer closes only a file of the name it asked for, also when its _outFile is the
\* address of a file that was replaced and another writer's file is there by now (end).
THEOREM FilesClosedByTheirOwner == Spec => ClosesOwnFile
<1> DEFINE Own ==
      \A w \in Writers : end(w) /\ OwnsFile(w) =>
        \A t \in dir[outFile[w]] : t[1] = Steering[w].file
<1>1. Inv /\ Placement /\ [Next]_vars => [Own]_vars
  <2> SUFFICES ASSUME Inv, Placement, NEW w \in Writers, end(w), OwnsFile(w),
                      NEW t \in dir[outFile[w]]
               PROVE  t[1] = Steering[w].file
    OBVIOUS
  <2>1. outFile[w] \in Addresses /\ fileOwner[outFile[w]] = w
    BY EndDeletes DEF OwnsFile
  <2>2. Files
    BY DEF Placement
  <2>3. t[1] = Steering[fileOwner[outFile[w]]].file
    BY <2>1, <2>2 DEF Files
  <2> QED
    BY <2>1, <2>3
<1> QED
  BY <1>1, InvIsInvariant, PlacementAlways, PTL DEF Spec, ClosesOwnFile

-----------------------------------------------------------------------------
(* One tree for each file: nothing is used after it was deleted.             *)

\* A tree and the file it is in have one owner, so that the tree is there until its
\* owner is called at the end.
Together ==
  /\ \A a \in Addresses : \A t \in dir[a] : fileOwner[a] = treeOwner[t]
  /\ phase = "init" => \A a \in Addresses : name[a] # "" => dir[a] # {}
  /\ phase = "end" => \A w \in Writers : at <= w =>
       bigTree[w] = TreeOf(w) /\ (treeOwner[TreeOf(w)] = w => treeFile[TreeOf(w)] # NULL)
  /\ ~misused

LEMMA InitWriterTogether ==
  ASSUME OneTreePerFile, Inv, Placement, Together, NEW w \in Writers, init(w)
  PROVE  Together'
<1> DEFINE t0 == TreeOf(w)
           f == Steering[w].file
<1>1. PICK a \in Addresses :
        /\ OpenFile(w, a) /\ OpenTree(w, a, t0)
        /\ name[a] \in {"", f} /\ name'[a] = f
        /\ \A b \in Addresses : name[b] = f => b = a
  BY InitWriterPlaces
<1>2. /\ phase = "init" /\ phase' # "end" /\ misused' = misused
      /\ t0 \in Trees /\ f # "" /\ t0[1] = f
  <2>1. \A v \in DOMAIN Steering : Steering[v].file # ""
    BY FileNameAssumption
  <2> QED
    BY <2>1, TreeOfAWriter DEF init, Writers, TreeOf
<1>3. /\ dir \in [Addresses -> SUBSET Trees] /\ treeOwner \in [Trees -> Writers \cup {NULL}]
      /\ fileOwner \in [Addresses -> Writers \cup {NULL}] /\ DOMAIN name = Addresses
  BY DEF Placement, RootTypes
\* A file that is open has this very tree already, and keeps it.
<1>4. CASE name[a] = f
  <2>1. \E b \in Addresses : name[b] = f
    BY <1>4
  <2>2. UNCHANGED <<name, fileOwner>>
    BY <1>1, <2>1 DEF OpenFile
  <2>3. t0 \in dir[a]
    <3>1. PICK t \in dir[a] : TRUE
      BY <1>2, <1>4 DEF Together
    <3>2. fileOwner[a] \in Writers /\ t[1] = Steering[fileOwner[a]].file /\ t \in Trees
      <4>1. Files
        BY DEF Placement
      <4>2. fileOwner[a] # NULL /\ t[1] = Steering[fileOwner[a]].file
        BY <3>1, <4>1 DEF Files
      <4>3. fileOwner[a] \in Writers
        BY <1>3, <4>2
      <4>4. t \in Trees
        BY <1>3, <3>1
      <4> QED
        BY <4>2, <4>3, <4>4
    <3>3. PICK v \in Writers : t = TreeOf(v)
      BY <3>2 DEF Trees
    <3>4. Steering[v].file = f
      BY <1>2, <1>4, <3>2, <3>3 DEF TreeOf, Placement, Named
    <3>5. TreeOf(v) = t0
      BY <3>4 DEF OneTreePerFile
    <3> QED
      BY <3>1, <3>3, <3>5
  <2>4. UNCHANGED <<dir, treeOwner>>
    BY <1>1, <2>3 DEF OpenTree
  <2> QED
    BY <1>2, <2>2, <2>4 DEF Together
\* A new file is the writer's, and so is its tree.
<1>5. CASE name[a] = ""
  <2>1. ~ \E b \in Addresses : name[b] = f
    BY <1>1, <1>2, <1>5
  <2>2. /\ name' = [name EXCEPT ![a] = f] /\ fileOwner' = [fileOwner EXCEPT ![a] = w]
    BY <1>1, <2>1 DEF OpenFile
  <2>3. dir[a] = {}
    BY <1>5 DEF Placement, Files
  <2>4. dir' = [dir EXCEPT ![a] = @ \cup {t0}] /\ treeOwner' = [treeOwner EXCEPT ![t0] = w]
    BY <1>1, <2>3 DEF OpenTree
  <2>5. \A b \in Addresses : t0 \in dir[b] => FALSE
    <3> SUFFICES ASSUME NEW b \in Addresses, t0 \in dir[b] PROVE FALSE
      OBVIOUS
    <3>1. name[b] # "" /\ f = Steering[fileOwner[b]].file
      BY <1>2 DEF Placement, Files
    <3>2. name[b] = f
      BY <1>2, <3>1 DEF Placement, Named
    <3> QED
      BY <2>1, <3>2
  <2>6. ASSUME NEW b \in Addresses, NEW t \in dir'[b]
        PROVE  fileOwner'[b] = treeOwner'[t]
    <3>1. CASE b = a
      <4>1. t = t0
        BY <1>3, <2>3, <2>4, <2>6, <3>1
      <4> QED
        BY <1>2, <1>3, <2>2, <2>4, <3>1, <4>1
    <3>2. CASE b # a
      <4>1. t \in dir[b] /\ t # t0 /\ t \in Trees
        BY <1>3, <2>4, <2>5, <2>6, <3>2
      <4>2. fileOwner[b] = treeOwner[t]
        BY <4>1 DEF Together
      <4> QED
        BY <1>3, <2>2, <2>4, <3>2, <4>1, <4>2
    <3> QED
      BY <3>1, <3>2
  <2>7. ASSUME NEW b \in Addresses, name'[b] # ""
        PROVE  dir'[b] # {}
    <3>1. CASE b = a
      BY <1>3, <2>4, <3>1
    <3>2. CASE b # a
      BY <1>2, <1>3, <2>2, <2>4, <2>7, <3>2 DEF Together
    <3> QED
      BY <3>1, <3>2
  <2> QED
    BY <1>2, <2>6, <2>7 DEF Together
<1> QED
  BY <1>1, <1>4, <1>5

LEMMA ProcessEventTogether ==
  ASSUME Inv, Placement, Together, NEW w \in Writers, processEvent(w)
  PROVE  Together'
<1>1. /\ phase' = "events" /\ UNCHANGED <<treeOwner, misused>>
  BY DEF processEvent
<1>2. CASE UNCHANGED <<name, dir, treeFile, fileOwner>>
  BY <1>1, <1>2 DEF Together
<1>3. CASE \E t \in Trees : treeFile[t] # NULL /\ ChangeFile(treeFile[t])
  <2>1. PICK t0 \in Trees : treeFile[t0] # NULL /\ ChangeFile(treeFile[t0])
    BY <1>3
  <2> DEFINE old == treeFile[t0]
  <2>2. PICK new \in Addresses :
          /\ old \in Addresses /\ old # new
          /\ name[old] # "" /\ dir[new] = {} /\ fileOwner[new] = NULL
          /\ \A a \in Addresses :
               name'[a] = IF a = new THEN "next" ELSE IF a = old THEN "" ELSE name[a]
          /\ \A a \in Addresses :
               dir'[a] = IF a = new THEN dir[old] ELSE IF a = old THEN {} ELSE dir[a]
          /\ \A a \in Addresses :
               fileOwner'[a] = IF a = new THEN fileOwner[old]
                               ELSE IF a = old THEN NULL ELSE fileOwner[a]
          /\ treeFile' = [t \in Trees |-> IF t \in dir[old] THEN new ELSE treeFile[t]]
          /\ DOMAIN name' = Addresses /\ dir' \in [Addresses -> SUBSET Trees]
          /\ fileOwner' \in [Addresses -> Writers \cup {NULL}]
    BY <2>1, ChangeFileMoves
  <2> HIDE DEF old
  <2>3. ASSUME NEW a \in Addresses, NEW t \in dir'[a]
        PROVE  fileOwner'[a] = treeOwner'[t]
    <3>1. CASE a = new
      <4>1. t \in dir[old] /\ fileOwner'[a] = fileOwner[old]
        BY <2>2, <2>3, <3>1
      <4>2. fileOwner[old] = treeOwner[t]
        BY <2>2, <4>1 DEF Together
      <4> QED
        BY <1>1, <4>1, <4>2
    <3>2. CASE a # new
      <4>1. t \in dir[a] /\ fileOwner'[a] = fileOwner[a]
        BY <2>2, <2>3, <3>2
      <4>2. fileOwner[a] = treeOwner[t]
        BY <4>1 DEF Together
      <4> QED
        BY <1>1, <4>1, <4>2
    <3> QED
      BY <3>1, <3>2
  <2> QED
    BY <1>1, <2>3 DEF Together
<1> QED
  BY <1>2, <1>3, ProcessEventPlaces

LEMMA EndTogether ==
  ASSUME Inv, Placement, Together, NEW w \in Writers, end(w)
  PROVE  Together'
<1>1. /\ phase = "end" /\ at = w /\ at' = NextWriter(w)
      /\ phase' = (IF NextWriter(w) = NULL THEN "done" ELSE "end")
      /\ misused' = (misused \/ (OwnsTree(w) /\ treeFile[bigTree[w]] = NULL))
      /\ treeFile' = [t \in Trees |-> IF t \in DeletedTrees(w) THEN NULL ELSE treeFile[t]]
      /\ bigTree' = (IF OwnsTree(w) THEN [bigTree EXCEPT ![w] = NoTree] ELSE bigTree)
      /\ UNCHANGED <<fileOwner, treeOwner>>
  BY DEF end, ownerVars
<1>2. /\ \A a \in Addresses : dir'[a] = dir[a] \ DeletedTrees(w)
      /\ outFile[w] \in Addresses
      /\ \A t \in ClosedTrees(w) : OwnsFile(w) /\ t \in dir[outFile[w]]
  BY EndDeletes
<1>3. bigTree[w] = TreeOf(w) /\ (treeOwner[TreeOf(w)] = w => treeFile[TreeOf(w)] # NULL)
  BY <1>1, WritersAreNumbers DEF Together
<1>4. ~misused'
  BY <1>1, <1>3 DEF Together, OwnsTree
<1>5. \A t \in DeletedTrees(w) : treeOwner[t] = w
  <2> SUFFICES ASSUME NEW t \in DeletedTrees(w) PROVE treeOwner[t] = w
    OBVIOUS
  <2>1. CASE OwnsTree(w) /\ t = bigTree[w]
    BY <2>1 DEF OwnsTree
  <2>2. CASE t \in ClosedTrees(w)
    BY <1>2, <2>2 DEF OwnsFile, Together
  <2> QED
    BY <2>1, <2>2 DEF DeletedTrees
<1>6. ASSUME NEW v \in Writers, phase' = "end", at' <= v
      PROVE  /\ bigTree'[v] = TreeOf(v)
             /\ treeOwner'[TreeOf(v)] = v => treeFile'[TreeOf(v)] # NULL
  <2>1. at' = w + 1
    BY <1>1, <1>6, NextIsAWriter
  <2>2. v # w /\ at <= v
    BY <1>1, <1>6, <2>1, WritersAreNumbers
  <2>3. bigTree[v] = TreeOf(v) /\ (treeOwner[TreeOf(v)] = v => treeFile[TreeOf(v)] # NULL)
    BY <1>1, <2>2 DEF Together
  <2>4. bigTree'[v] = bigTree[v]
    BY <1>1, <2>2 DEF Inv, Types
  <2>5. treeOwner[TreeOf(v)] = v => TreeOf(v) \notin DeletedTrees(w)
    BY <1>5, <2>2
  <2> QED
    BY <1>1, <2>3, <2>4, <2>5, TreeOfAWriter
<1>7. \A a \in Addresses : \A t \in dir'[a] : fileOwner'[a] = treeOwner'[t]
  BY <1>1, <1>2 DEF Together
<1> QED
  BY <1>1, <1>4, <1>6, <1>7 DEF Together

LEMMA NoFileTogether ==
  ASSUME Inv, Placement, Together,
         (\E s \in InputSets : ReadEvent(s)) \/ SkipEvent \/ StopReading \/ UNCHANGED vars
  PROVE  Together'
<1>1. /\ UNCHANGED <<outFile, bigTree, fileOwner, treeOwner, name, dir, treeFile, misused>>
      /\ (phase = "events" /\ phase' = "end") \/ (phase' = phase /\ phase = "events")
           \/ UNCHANGED <<phase, at>>
  BY NoFilePlaces
<1>2. phase = "events" =>
        \A w \in Writers : bigTree[w] = TreeOf(w) /\ treeFile[TreeOf(w)] # NULL
  BY DEF Inv, Reading, Placement, HasFiles, Called
<1> QED
  BY <1>1, <1>2 DEF Together

\* As long as the writers that share a file share its tree, no tree is used after it
\* was deleted, however often its file is replaced (end of the owner of both).
THEOREM TreesUsedWhileThere == OneTreePerFile /\ Spec => []NoUseAfterDelete
<1> SUFFICES ASSUME OneTreePerFile PROVE Spec => []NoUseAfterDelete
  OBVIOUS
<1>1. Init => Together
  BY DEF Init, Together
<1>2. Inv /\ Placement /\ Together /\ [Next]_vars => Together'
  BY InitWriterTogether, ProcessEventTogether, EndTogether, NoFileTogether DEF Next
<1>3. Together => NoUseAfterDelete
  BY DEF Together, NoUseAfterDelete
<1> QED
  BY <1>1, <1>2, <1>3, InvIsInvariant, PlacementAlways, PTL DEF Spec

-----------------------------------------------------------------------------
(* In the end everything is on disk: the argument behind <>[]AllOnDisk.      *)

\* A tree whose entries are not all on disk is there, and its owner has still to be
\* called at the end; every tree in a file was made by a writer that has it.
Kept(t) ==
  /\ treeFile[t] # NULL
  /\ at # NULL /\ at <= treeOwner[t]
  /\ bigTree[treeOwner[t]] = t

Saving ==
  /\ \A t \in Trees : treeOwner[t] # NULL => TreeOf(treeOwner[t]) = t
  /\ \A t \in Trees : treeFile[t] # NULL => treeOwner[t] # NULL
  /\ phase = "init" => \A t \in Trees : saved[t] = 0
  /\ phase = "end" => \A t \in Trees : saved[t] = Len(entries[t]) \/ Kept(t)
  /\ phase = "done" => L!AllOnDisk

LEMMA SavingInit == Init => Saving
BY DEF Init, Saving

LEMMA InitWriterSaving ==
  ASSUME Inv, Placement, Saving, NEW w \in Writers, init(w)
  PROVE  Saving'
<1> DEFINE t0 == TreeOf(w)
<1>1. PICK a \in Addresses : OpenTree(w, a, t0)
  BY DEF init
<1>2. /\ phase = "init" /\ phase' \in {"init", "events"} /\ saved' = saved
      /\ t0 \in Trees /\ w # NULL
  BY TreeOfAWriter, WritersAreNumbers DEF init, NULL
<1>3. /\ DOMAIN treeOwner = Trees /\ DOMAIN treeFile = Trees
  BY DEF Placement, RootTypes
<1>4. \A t \in Trees : \/ treeOwner'[t] = treeOwner[t] /\ treeFile'[t] = treeFile[t]
                       \/ t = t0 /\ treeOwner'[t] = w
  BY <1>1, <1>2, <1>3 DEF OpenTree
<1>5. \A t \in Trees : treeOwner'[t] # NULL => TreeOf(treeOwner'[t]) = t
  BY <1>4 DEF Saving
<1>6. \A t \in Trees : treeFile'[t] # NULL => treeOwner'[t] # NULL
  BY <1>2, <1>4 DEF Saving
<1> QED
  BY <1>2, <1>5, <1>6 DEF Saving

LEMMA ProcessEventSaving ==
  ASSUME Inv, Placement, Saving, NEW w \in Writers, processEvent(w)
  PROVE  Saving'
<1>1. phase' = "events" /\ UNCHANGED treeOwner
  BY DEF processEvent
<1>2. ASSUME NEW t \in Trees, treeFile'[t] # NULL PROVE treeOwner[t] # NULL
  <2>1. CASE UNCHANGED treeFile
    BY <1>2, <2>1 DEF Saving
  <2>2. CASE \E u \in Trees : treeFile[u] # NULL /\ ChangeFile(treeFile[u])
    <3>1. PICK u \in Trees : treeFile[u] # NULL /\ ChangeFile(treeFile[u])
      BY <2>2
    <3>2. PICK new \in Free :
            treeFile' = [v \in Trees |-> IF v \in dir[treeFile[u]] THEN new ELSE treeFile[v]]
      BY <3>1 DEF ChangeFile
    <3>3. treeFile[u] \in Addresses
      BY <3>1 DEF Placement, RootTypes
    <3>4. t \in dir[treeFile[u]] => treeFile[t] = treeFile[u]
      <4>1. \A a \in Addresses : \A v \in dir[a] : treeFile[v] = a
        BY DEF Placement, Files
      <4> QED
        BY <3>3, <4>1
    <3>5. treeFile[t] # NULL
      BY <1>2, <3>1, <3>2, <3>4
    <3> QED
      BY <3>5 DEF Saving
  <2> QED
    BY <2>1, <2>2, ProcessEventPlaces
<1> QED
  BY <1>1, <1>2 DEF Saving

LEMMA EndSaving ==
  ASSUME Inv, Placement, Saving, NEW w \in Writers, end(w)
  PROVE  Saving'
<1>1. /\ phase = "end" /\ at = w /\ at' = NextWriter(w)
      /\ phase' = (IF NextWriter(w) = NULL THEN "done" ELSE "end")
      /\ saved' = [t \in Trees |-> IF t \in WrittenTrees(w) THEN Len(entries[t]) ELSE saved[t]]
      /\ treeFile' = [t \in Trees |-> IF t \in DeletedTrees(w) THEN NULL ELSE treeFile[t]]
      /\ bigTree' = (IF OwnsTree(w) THEN [bigTree EXCEPT ![w] = NoTree] ELSE bigTree)
      /\ UNCHANGED <<treeOwner, entries>>
  BY DEF end, ownerVars
<1>2. ASSUME NEW t \in Trees, saved'[t] # Len(entries'[t])
      PROVE  /\ treeFile'[t] # NULL /\ w < treeOwner[t] /\ bigTree'[treeOwner[t]] = t
             /\ treeOwner[t] \in Writers
  <2>1. saved[t] # Len(entries[t]) /\ t \notin WrittenTrees(w)
    BY <1>1, <1>2
  <2>2. treeFile[t] # NULL /\ w <= treeOwner[t] /\ bigTree[treeOwner[t]] = t
    BY <1>1, <2>1 DEF Saving, Kept
  <2>3. treeOwner[t] \in Writers
    BY <2>2 DEF Placement, RootTypes, Saving
  <2>4. t # NoTree
    <3>1. treeOwner[t] \in DOMAIN Steering /\ t[1] = Steering[treeOwner[t]].file
      BY <2>2, <2>3 DEF Saving, TreeOf, Writers
    <3>2. t[1] # ""
      BY <3>1, FileNameAssumption
    <3>3. NoTree[1] = ""
      BY DEF NoTree
    <3> QED
      BY <3>2, <3>3
  <2>5. treeOwner[t] # w
    <3> SUFFICES ASSUME treeOwner[t] = w PROVE FALSE
      OBVIOUS
    <3>1. OwnsTree(w) /\ bigTree[w] = t
      BY <2>2, <2>4 DEF OwnsTree
    <3>2. t \in dir[treeFile[t]]
      BY <2>2 DEF Placement, Files
    <3> QED
      BY <2>1, <2>2, <3>1, <3>2 DEF WrittenTrees
  <2>6. t \notin DeletedTrees(w)
    <3>1. OwnsTree(w) => bigTree[w] # t
      BY <2>5 DEF OwnsTree
    <3>2. t \notin ClosedTrees(w)
      BY <2>1 DEF WrittenTrees, ClosedTrees
    <3> QED
      BY <3>1, <3>2 DEF DeletedTrees
  <2>7. treeFile'[t] # NULL /\ bigTree'[treeOwner[t]] = t
    BY <1>1, <2>2, <2>3, <2>5, <2>6 DEF Inv, Types
  <2>8. w < treeOwner[t]
    BY <2>2, <2>3, <2>5, WritersAreNumbers
  <2> QED
    BY <2>3, <2>7, <2>8
<1>3. phase' = "done" => L!AllOnDisk'
  <2> SUFFICES ASSUME NextWriter(w) = NULL, NEW t \in Trees, saved'[t] # Len(entries'[t])
               PROVE  FALSE
    BY <1>1 DEF L!AllOnDisk
  <2>1. w < treeOwner[t] /\ treeOwner[t] \in Writers
    BY <1>2
  <2>2. w = Len(Steering)
    BY NextIsAWriter
  <2> QED
    BY <2>1, <2>2, WritersAreNumbers
<1>4. phase' = "end" => \A t \in Trees : saved'[t] = Len(entries'[t]) \/ Kept(t)'
  <2> SUFFICES ASSUME phase' = "end", NEW t \in Trees, saved'[t] # Len(entries'[t])
               PROVE  Kept(t)'
    OBVIOUS
  <2>1. at' # NULL /\ at' = w + 1
    BY <1>1, NextIsAWriter
  <2>2. treeFile'[t] # NULL /\ w < treeOwner[t] /\ bigTree'[treeOwner[t]] = t
    BY <1>2
  <2>3. w + 1 <= treeOwner[t]
    BY <1>2, WritersAreNumbers
  <2> QED
    BY <1>1, <2>1, <2>2, <2>3 DEF Kept
<1>5. \A t \in Trees : treeFile'[t] # NULL => treeOwner'[t] # NULL
  BY <1>1 DEF Saving
<1>6. \A t \in Trees : treeOwner'[t] # NULL => TreeOf(treeOwner'[t]) = t
  BY <1>1 DEF Saving
<1> QED
  BY <1>1, <1>3, <1>4, <1>5, <1>6 DEF Saving

LEMMA StopReadingSaving ==
  ASSUME Inv, Placement, Saving, StopReading PROVE Saving'
<1>1. /\ phase = "events" /\ phase' = "end" /\ at' = 1
      /\ UNCHANGED <<treeOwner, treeFile, bigTree, saved, entries>>
  BY DEF StopReading, ownerVars, memberVars, rootVars
<1>2. ASSUME NEW t \in Trees PROVE Kept(t)'
  <2>1. PICK w \in Writers : t = TreeOf(w)
    BY DEF Trees
  <2>2. treeFile[t] # NULL
    BY <1>1, <2>1 DEF Placement, HasFiles, Called
  <2>3. treeOwner[t] \in Writers /\ TreeOf(treeOwner[t]) = t
    BY <2>2 DEF Saving, Placement, RootTypes
  <2>4. bigTree[treeOwner[t]] = t
    BY <1>1, <2>3 DEF Inv, Reading
  <2>5. 1 <= treeOwner[t] /\ 1 # NULL
    BY <2>3, WritersAreNumbers DEF NULL
  <2> QED
    BY <1>1, <2>2, <2>4, <2>5 DEF Kept
<1> QED
  BY <1>1, <1>2 DEF Saving

LEMMA NoFileSaving ==
  ASSUME Saving, (\E s \in InputSets : ReadEvent(s)) \/ SkipEvent \/ UNCHANGED vars
  PROVE  Saving'
<1>1. /\ UNCHANGED <<phase, treeOwner, treeFile, bigTree, saved, entries>>
      /\ phase = "events" \/ UNCHANGED at
  BY DEF ReadEvent, SkipEvent, vars, ownerVars, memberVars, rootVars
<1> QED
  BY <1>1 DEF Saving, Kept, L!AllOnDisk

\* Once all writers were called at the end every entry of every tree is in a file on disk,
\* whoever owns the file and the trees in it, in whichever order they are called, and
\* also where _outFile is the address of a file that was replaced (the trees in it are
\* then written by their owners): with the fairness that brings the chain to the end,
\* what TreeLog promises of it.
InTheEndOnDisk == phase = "done" => L!AllOnDisk

\* After the last end() nothing that was filled is missing on disk (RootTreeWriter.cc:174-197).
THEOREM AllSavedInTheEnd == Spec => []InTheEndOnDisk
<1>1. Inv /\ Placement /\ Saving /\ [Next]_vars => Saving'
  BY InitWriterSaving, ProcessEventSaving, EndSaving, StopReadingSaving, NoFileSaving DEF Next
<1>2. Saving => InTheEndOnDisk
  BY DEF Saving, InTheEndOnDisk
<1> QED
  BY <1>1, <1>2, SavingInit, InvIsInvariant, PlacementAlways, PTL DEF Spec

-----------------------------------------------------------------------------
(* Type correctness.                                                         *)

\* What a file can be called: as steered, and as what replaced it or was closed.
FileNames == {"", "next", "closed"} \cup {Steering[w].file : w \in Writers}

\* The types that no argument above needs.
MoreTypes ==
  /\ event.input \in InputSets \cup {NoInput}
  /\ struct \in [Writers -> 0 .. MaxEvents]
  /\ name \in [Addresses -> FileNames]
  /\ entries \in [Trees -> Seq(1 .. MaxEvents)]
  /\ changes \in 0 .. MaxChanges
  /\ misused \in BOOLEAN

LEMMA NameAt ==
  ASSUME NEW f \in [Addresses -> FileNames], NEW a, NEW s \in FileNames
  PROVE  [f EXCEPT ![a] = s] \in [Addresses -> FileNames]
OBVIOUS

LEMMA MoreTypesInit == Init => MoreTypes
<1> SUFFICES ASSUME Init PROVE MoreTypes
  OBVIOUS
<1>1. MaxEvents \in Nat /\ MaxChanges \in Nat
  BY SteeringAssumption
<1>2. /\ event.input = NoInput /\ struct = [w \in Writers |-> 0]
      /\ name = [a \in Addresses |-> ""] /\ entries = [t \in Trees |-> <<>>]
      /\ changes = 0 /\ misused = FALSE
  BY DEF Init
<1>3. name \in [Addresses -> FileNames]
  <2>1. "" \in FileNames
    BY DEF FileNames
  <2> QED
    BY <1>2, <2>1
<1>4. struct \in [Writers -> 0 .. MaxEvents]
  <2>1. 0 \in 0 .. MaxEvents
    BY <1>1
  <2> QED
    BY <1>2, <2>1
<1>5. entries \in [Trees -> Seq(1 .. MaxEvents)]
  <2>1. <<>> \in Seq(1 .. MaxEvents)
    OBVIOUS
  <2> QED
    BY <1>2, <2>1
<1>6. changes \in 0 .. MaxChanges
  <2>1. changes = 0
    BY <1>2
  <2> QED
    BY <1>1, <2>1
<1>7. misused \in BOOLEAN /\ event.input \in InputSets \cup {NoInput}
  BY <1>2
<1> QED
  BY <1>3, <1>4, <1>5, <1>6, <1>7 DEF MoreTypes

LEMMA MoreTypesNext == Inv /\ Placement /\ MoreTypes /\ [Next]_vars => MoreTypes'
<1> SUFFICES ASSUME Inv, Placement, MoreTypes, [Next]_vars PROVE MoreTypes'
  OBVIOUS
<1>1. ASSUME NEW w \in Writers, init(w) PROVE MoreTypes'
  <2>1. UNCHANGED <<event, struct, entries, changes, misused>>
    BY <1>1 DEF init
  <2>2. PICK a \in Addresses : OpenFile(w, a)
    BY <1>1 DEF init
  <2>3. name' \in [Addresses -> FileNames]
    <3>1. Steering[w].file \in FileNames
      BY DEF FileNames
    <3>2. name' = name \/ name' = [name EXCEPT ![a] = Steering[w].file]
      BY <2>2 DEF OpenFile
    <3> QED
      BY <3>1, <3>2, NameAt DEF MoreTypes
  <2> QED
    BY <2>1, <2>3 DEF MoreTypes
<1>2. ASSUME NEW w \in Writers, processEvent(w) PROVE MoreTypes'
  <2>1. event' = event /\ misused' = misused /\ struct' = [struct EXCEPT ![w] = event.number]
    BY <1>2 DEF processEvent
  <2>2. event.number \in 1 .. MaxEvents /\ TreeOf(w) \in Trees
        /\ (entries' = entries \/ entries' = [entries EXCEPT ![TreeOf(w)] = Append(@, event.number)])
    BY <1>2, WhatIsFilled
  <2>3. entries' \in [Trees -> Seq(1 .. MaxEvents)]
    <3>1. Append(entries[TreeOf(w)], event.number) \in Seq(1 .. MaxEvents)
      BY <2>2 DEF MoreTypes
    <3> QED
      BY <2>2, <3>1 DEF MoreTypes
  <2>4. struct' \in [Writers -> 0 .. MaxEvents]
    <3>1. event.number \in 0 .. MaxEvents
      BY <2>2, WritersAreNumbers
    <3> QED
      BY <2>1, <3>1 DEF MoreTypes
  <2>5. SameFile \/ \E old : ChangeFile(old)
    BY <1>2 DEF processEvent, FillTree
  <2>6. changes' \in 0 .. MaxChanges
    <3>1. MaxChanges \in Nat /\ changes \in 0 .. MaxChanges
      BY SteeringAssumption DEF MoreTypes
    <3>2. changes' = changes \/ (changes < MaxChanges /\ changes' = changes + 1)
      BY <2>5 DEF SameFile, ChangeFile
    <3> QED
      BY <3>1, <3>2
  <2>7. name' \in [Addresses -> FileNames]
    <3>1. CASE SameFile
      BY <3>1 DEF SameFile, MoreTypes
    <3>2. CASE \E old : ChangeFile(old)
      <4>1. PICK old, new : name' = [name EXCEPT ![old] = "", ![new] = "next"]
        BY <3>2 DEF ChangeFile
      <4>2. "" \in FileNames /\ "next" \in FileNames
        BY DEF FileNames
      <4> QED
        BY <4>1, <4>2 DEF MoreTypes
    <3> QED
      BY <2>5, <3>1, <3>2
  <2> QED
    BY <2>1, <2>3, <2>4, <2>6, <2>7 DEF MoreTypes
<1>3. ASSUME NEW w \in Writers, end(w) PROVE MoreTypes'
  <2>1. /\ UNCHANGED <<event, struct, entries, changes>>
        /\ misused' = (misused \/ (OwnsTree(w) /\ treeFile[bigTree[w]] = NULL))
        /\ name' = (IF OwnsFile(w) THEN [name EXCEPT ![outFile[w]] = "closed"] ELSE name)
    BY <1>3 DEF end
  <2>2. misused' \in BOOLEAN
    BY <2>1
  <2>3. name' \in [Addresses -> FileNames]
    <3>1. "closed" \in FileNames
      BY DEF FileNames
    <3> QED
      BY <2>1, <3>1, NameAt DEF MoreTypes
  <2> QED
    BY <2>1, <2>2, <2>3 DEF MoreTypes
<1>4. ASSUME NEW s \in InputSets, ReadEvent(s) PROVE MoreTypes'
  <2>1. /\ event' = [number |-> event.number + 1, input |-> s]
        /\ UNCHANGED <<struct, name, entries, changes, misused>>
    BY <1>4 DEF ReadEvent, memberVars, rootVars
  <2> QED
    BY <2>1 DEF MoreTypes
<1>5. CASE SkipEvent \/ StopReading \/ UNCHANGED vars
  BY <1>5 DEF SkipEvent, StopReading, vars, memberVars, rootVars, MoreTypes
<1> QED
  BY <1>1, <1>2, <1>3, <1>4, <1>5 DEF Next

\* Every variable of the tree writers keeps its type, for any steering file and any
\* number of events and files (init, processEvent and end assign them all).
THEOREM WritersTyped == Spec => []TypeOK
<1>1. Inv /\ Placement /\ MoreTypes => TypeOK
  <2> SUFFICES ASSUME Inv, Placement, MoreTypes PROVE TypeOK
    OBVIOUS
  <2>1. event \in [number: 0 .. MaxEvents, input: InputSets \cup {NoInput}]
    BY DEF Inv, Types, MoreTypes
  <2> QED
    BY <2>1 DEF Inv, Types, Placement, RootTypes, MoreTypes, FileNames, TypeOK
<1>2. Spec => []MoreTypes
  BY MoreTypesInit, MoreTypesNext, InvIsInvariant, PlacementAlways, PTL DEF Spec
<1> QED
  BY <1>1, <1>2, InvIsInvariant, PlacementAlways, PTL

=============================================================================
