----------------------------- MODULE RootTreeWriter -----------------------------
(***************************************************************************)
(* The processors that write events to ROOT trees                          *)
(* (RootTreeWriter/src/RootTreeWriter.cc). Several of them may share a      *)
(* file or a tree: three static maps say which writer fills a tree, which   *)
(* deletes it and which closes a file. ROOT replaces the file of a tree     *)
(* that grew too large. Marlin calls init, processEvent and end of the      *)
(* writers in the order of the steering file; a processor between two of    *)
(* them may skip the rest of the chain for an event.                        *)
(***************************************************************************)
EXTENDS WriteEngines, Sequences

CONSTANTS
  Steering,     \* the writers of the steering file: [file, tree, engines] each
  InputSets,    \* what an event may have for the engines
  Addresses,    \* where ROOT may allocate a TFile
  MaxEvents,    \* bound: events of the job
  MaxChanges    \* bound: files replaced because a tree grew too large

ASSUME SteeringAssumption ==
  /\ Steering \in Seq([file: STRING, tree: STRING, engines: SUBSET Engines]) \ {<<>>}
  /\ InputSets \subseteq Inputs
  /\ MaxEvents \in Nat /\ MaxChanges \in Nat
\* ROOT opens no file without a name.
ASSUME FileNameAssumption == \A w \in DOMAIN Steering : Steering[w].file # ""

NULL == 0
ASSUME AddressAssumption == NULL \notin Addresses
NoTree == <<"", "">>
Writers == DOMAIN Steering
\* A tree is found by its name in its file.
TreeOf(w) == <<Steering[w].file, Steering[w].tree>>
Trees == {TreeOf(w) : w \in Writers}
\* Writers that share a file share its tree.
OneTreePerFile ==
  \A v, w \in Writers : Steering[v].file = Steering[w].file => TreeOf(v) = TreeOf(w)

VARIABLES
  phase,        \* the calls Marlin makes: init, processEvent or end, and nothing more
  at,           \* the writer called next; NULL between two events
  event,        \* the number of the event, and what it has for the engines
  outFile,      \* _outFile of each writer
  bigTree,      \* _bigTree of each writer, NoTree once deleted
  fileOwner,    \* _fileOwnerMap
  treeOwner,    \* _treeOwnerMap
  treeFiller,   \* _treeFillerMap
  runEvent,     \* the writer whose _runEventStruct the tree's branches point to
  struct,       \* _runEventStruct of each writer: the event it is of
  data,         \* the variables of each writer's enabled engines
  name,         \* gROOT: the name of the open file at an address, "" if there is none
  dir,          \* gROOT: the trees in the list of the file at an address
  treeFile,     \* GetCurrentFile of a tree; NULL if there is no such tree
  entries,      \* the numbers of the events filled into a tree
  last,         \* what the last entry of a tree shows
  saved,        \* how many entries of a tree are in a file on disk
  changes,      \* files replaced so far
  misused       \* was an object used after it was deleted?

ownerVars == <<fileOwner, treeOwner, treeFiller, runEvent>>
memberVars == <<outFile, bigTree, struct, data>>
rootVars == <<name, dir, treeFile, entries, last, saved, changes>>
vars == <<phase, at, event, ownerVars, memberVars, rootVars, misused>>

NoInput == [first |-> Absent, second |-> Absent, third |-> Absent, hit |-> {}, beam |-> FALSE]
NoEntry == [run |-> 0, of |-> 0, input |-> NoInput,
            shows |-> [w \in Writers |-> [e \in Steering[w].engines |-> Registered(e)]]]

Init ==
  /\ phase = "init" /\ at = 1
  /\ event = [number |-> 0, input |-> NoInput]
  /\ outFile = [w \in Writers |-> NULL]
  /\ bigTree = [w \in Writers |-> NoTree]
  /\ fileOwner = [a \in Addresses |-> NULL]
  /\ treeOwner = [t \in Trees |-> NULL]
  /\ treeFiller = [t \in Trees |-> NULL]
  /\ runEvent = [t \in Trees |-> NULL]
  /\ struct = [w \in Writers |-> 0]
  /\ data = [w \in Writers |-> [e \in Steering[w].engines |-> Registered(e)]]
  /\ name = [a \in Addresses |-> ""]
  /\ dir = [a \in Addresses |-> {}]
  /\ treeFile = [t \in Trees |-> NULL]
  /\ entries = [t \in Trees |-> <<>>]
  /\ last = [t \in Trees |-> NoEntry]
  /\ saved = [t \in Trees |-> 0]
  /\ changes = 0
  /\ misused = FALSE

NextWriter(w) == IF w = Len(Steering) THEN NULL ELSE w + 1
\* Memory a TFile may be allocated in: the address of a deleted one may come again.
Free == {a \in Addresses : name[a] = ""}

\* The file is used if gROOT has it open, else opened and owned.
OpenFile(w, a) ==
  IF \E b \in Addresses : name[b] = Steering[w].file
    THEN /\ name[a] = Steering[w].file
         /\ UNCHANGED <<name, fileOwner>>
    ELSE /\ a \in Free
         /\ name' = [name EXCEPT ![a] = Steering[w].file]
         /\ fileOwner' = [fileOwner EXCEPT ![a] = w]

\* The tree is used if the file has it, else made and owned.
OpenTree(w, a, t) ==
  IF t \in dir[a]
    THEN UNCHANGED <<dir, treeFile, treeOwner>>
    ELSE /\ dir' = [dir EXCEPT ![a] = @ \cup {t}]
         /\ treeFile' = [treeFile EXCEPT ![t] = a]
         /\ treeOwner' = [treeOwner EXCEPT ![t] = w]

\* Mutant: the branches go to the last writer, Fill to the first one.
RegisterSwapped(w, t) ==
  /\ runEvent' = [runEvent EXCEPT ![t] = w]
  /\ treeFiller' = IF treeFiller[t] = NULL THEN [treeFiller EXCEPT ![t] = w] ELSE treeFiller

\* Mutant: the first writer to be initialised fills the tree.
RegisterFirst(w, t) ==
  /\ runEvent' = IF treeFiller[t] = NULL THEN [runEvent EXCEPT ![t] = w] ELSE runEvent
  /\ treeFiller' = IF treeFiller[t] = NULL THEN [treeFiller EXCEPT ![t] = w] ELSE treeFiller

\* The branches of the run and event numbers are made by the first writer of the tree;
\* the last one to be initialised fills it.
RegisterRunEvent(w, t) ==
  /\ runEvent' = IF treeFiller[t] = NULL THEN [runEvent EXCEPT ![t] = w] ELSE runEvent
  /\ treeFiller' = [treeFiller EXCEPT ![t] = w]

init(w) ==
  /\ phase = "init" /\ at = w
  /\ \E a \in Addresses :
       /\ OpenFile(w, a)
       /\ OpenTree(w, a, TreeOf(w))
       /\ outFile' = [outFile EXCEPT ![w] = a]
  /\ bigTree' = [bigTree EXCEPT ![w] = TreeOf(w)]
  /\ RegisterRunEvent(w, TreeOf(w))
  /\ at' = NextWriter(w)
  /\ phase' = IF NextWriter(w) = NULL THEN "events" ELSE "init"
  /\ UNCHANGED <<event, struct, data, entries, last, saved, changes, misused>>

-----------------------------------------------------------------------------
ReadEvent(s) ==
  /\ phase = "events" /\ at = NULL
  /\ event.number < MaxEvents
  /\ event' = [number |-> event.number + 1, input |-> s]
  /\ at' = 1
  /\ UNCHANGED <<phase, ownerVars, memberVars, rootVars, misused>>

FilledData(w) ==
  [e \in Steering[w].engines |-> fillVariables(e, data[w][e], event.number, event.input)]

\* Everything the branches of tree t point to, once writer w filled its engines.
Entry(t, newStruct, newData) ==
  [run |-> newStruct[runEvent[t]], of |-> event.number, input |-> event.input,
   shows |-> [w \in Writers |->
                IF TreeOf(w) = t
                  THEN [e \in Steering[w].engines |-> Visible(e, newData[w][e])]
                  ELSE [e \in Steering[w].engines |-> Registered(e)]]]

\* Mutant: the owner map is not told of the new file.
ChangeFileUntold(old) ==
  /\ changes < MaxChanges
  /\ \E new \in Free :
       /\ name' = [name EXCEPT ![old] = "", ![new] = "next"]
       /\ dir' = [dir EXCEPT ![old] = {}, ![new] = dir[old]]
       /\ treeFile' = [t \in Trees |-> IF t \in dir[old] THEN new ELSE treeFile[t]]
  /\ saved' = [t \in Trees |-> IF t \in dir[old] THEN Len(entries'[t]) ELSE saved[t]]
  /\ changes' = changes + 1
  /\ UNCHANGED fileOwner

\* Fill found the file too large: all its trees are saved, and go to a new file.
\* The old one is deleted, and its ownership passes to the new one.
ChangeFile(old) ==
  /\ changes < MaxChanges
  /\ \E new \in Free :
       /\ name' = [name EXCEPT ![old] = "", ![new] = "next"]
       /\ dir' = [dir EXCEPT ![old] = {}, ![new] = dir[old]]
       /\ treeFile' = [t \in Trees |-> IF t \in dir[old] THEN new ELSE treeFile[t]]
       /\ fileOwner' = [fileOwner EXCEPT ![new] = fileOwner[old], ![old] = NULL]
  /\ saved' = [t \in Trees |-> IF t \in dir[old] THEN Len(entries'[t]) ELSE saved[t]]
  /\ changes' = changes + 1

SameFile == UNCHANGED <<name, dir, treeFile, fileOwner, saved, changes>>

FillTree(t) ==
  /\ entries' = [entries EXCEPT ![t] = Append(@, event.number)]
  /\ last' = [last EXCEPT ![t] = Entry(t, struct', data')]
  /\ SameFile \/ ChangeFile(treeFile[t])

processEvent(w) ==
  /\ phase = "events" /\ at = w
  /\ struct' = [struct EXCEPT ![w] = event.number]
  /\ data' = [data EXCEPT ![w] = FilledData(w)]
  /\ IF treeFiller[bigTree[w]] = w
       THEN FillTree(bigTree[w])
       ELSE SameFile /\ UNCHANGED <<entries, last>>
  /\ at' = NextWriter(w)
  /\ UNCHANGED <<phase, event, outFile, bigTree, treeOwner, treeFiller, runEvent, misused>>

\* A processor before writer w throws SkipEventException.
SkipEvent ==
  /\ phase = "events" /\ at # NULL
  /\ at' = NULL
  /\ UNCHANGED <<phase, event, ownerVars, memberVars, rootVars, misused>>

-----------------------------------------------------------------------------
StopReading ==
  /\ phase = "events" /\ at = NULL
  /\ phase' = "end" /\ at' = 1
  /\ UNCHANGED <<event, ownerVars, memberVars, rootVars, misused>>

\* Mutant: a writer deletes its tree whoever owns it.
HasTree(w) == bigTree[w] # NoTree

OwnsTree(w) == bigTree[w] # NoTree /\ treeOwner[bigTree[w]] = w
OwnsFile(w) == fileOwner[outFile[w]] = w

\* The trees of the file are written, and the one of the writer deleted.
DirAfterDelete(w) ==
  IF OwnsTree(w) /\ treeFile[bigTree[w]] # NULL
    THEN [dir EXCEPT ![treeFile[bigTree[w]]] = @ \ {bigTree[w]}]
    ELSE dir

\* Mutant: the tree is deleted before its file is written.
WrittenAtClose(w) == IF OwnsFile(w) THEN DirAfterDelete(w)[outFile[w]] ELSE {}

WrittenTrees(w) ==
  (IF OwnsTree(w) /\ treeFile[bigTree[w]] # NULL THEN dir[treeFile[bigTree[w]]] ELSE {})
    \cup (IF OwnsFile(w) THEN DirAfterDelete(w)[outFile[w]] ELSE {})

\* Closing a file deletes the trees that are still in it.
ClosedTrees(w) == IF OwnsFile(w) THEN DirAfterDelete(w)[outFile[w]] ELSE {}
DeletedTrees(w) == (IF OwnsTree(w) THEN {bigTree[w]} ELSE {}) \cup ClosedTrees(w)

end(w) ==
  /\ phase = "end" /\ at = w
  /\ misused' = (misused \/ (OwnsTree(w) /\ treeFile[bigTree[w]] = NULL))
  /\ saved' = [t \in Trees |-> IF t \in WrittenTrees(w) THEN Len(entries[t]) ELSE saved[t]]
  /\ dir' = IF OwnsFile(w) THEN [DirAfterDelete(w) EXCEPT ![outFile[w]] = {}]
            ELSE DirAfterDelete(w)
  /\ treeFile' = [t \in Trees |-> IF t \in DeletedTrees(w) THEN NULL ELSE treeFile[t]]
  /\ bigTree' = IF OwnsTree(w) THEN [bigTree EXCEPT ![w] = NoTree] ELSE bigTree
  /\ name' = IF OwnsFile(w) THEN [name EXCEPT ![outFile[w]] = "closed"] ELSE name
  /\ outFile' = IF OwnsFile(w) THEN [outFile EXCEPT ![w] = NULL] ELSE outFile
  /\ at' = NextWriter(w)
  /\ phase' = IF NextWriter(w) = NULL THEN "done" ELSE "end"
  /\ UNCHANGED <<event, ownerVars, struct, data, entries, last, changes>>

Next ==
  \/ \E w \in Writers : init(w) \/ processEvent(w) \/ end(w)
  \/ \E s \in InputSets : ReadEvent(s)
  \/ SkipEvent
  \/ StopReading

Spec == Init /\ [][Next]_vars

\* Marlin goes on with the chain as long as it runs.
FairSpec == Spec /\ WF_vars(Next)

-----------------------------------------------------------------------------
(* Properties.                                                               *)

\* The variables have their types (init, processEvent and end assign them all).
TypeOK ==
  /\ phase \in {"init", "events", "end", "done"}
  /\ at \in Writers \cup {NULL}
  /\ event \in [number: 0 .. MaxEvents, input: InputSets \cup {NoInput}]
  /\ outFile \in [Writers -> Addresses \cup {NULL}]
  /\ bigTree \in [Writers -> Trees \cup {NoTree}]
  /\ fileOwner \in [Addresses -> Writers \cup {NULL}]
  /\ treeOwner \in [Trees -> Writers \cup {NULL}]
  /\ treeFiller \in [Trees -> Writers \cup {NULL}]
  /\ runEvent \in [Trees -> Writers \cup {NULL}]
  /\ struct \in [Writers -> 0 .. MaxEvents]
  /\ name \in [Addresses -> {"", "next", "closed"} \cup {Steering[w].file : w \in Writers}]
  /\ dir \in [Addresses -> SUBSET Trees]
  /\ treeFile \in [Trees -> Addresses \cup {NULL}]
  /\ entries \in [Trees -> Seq(1 .. MaxEvents)]
  /\ saved \in [Trees -> Nat]
  /\ changes \in 0 .. MaxChanges
  /\ misused \in BOOLEAN

\* The run and event numbers of an entry, which the first writer of the tree keeps, are
\* those of the event the last writer filled it for, also after a chain that was cut
\* between the two (init gives the branches to one writer and Fill to another).
NumbersOfTheEntry == \A t \in Trees : last[t].run = last[t].of

\* An entry of an event that had everything shows nothing of another event, whatever the
\* events before it lacked and whatever they left in the members; what adds up over the
\* job (energyDensity, radiusEw, iEvt) is the exception.
AddsUp == {"energyDensity", "radiusEw", "iEvt", "counted"}
HadEverything(s) == Has(s, "first") /\ Full(s, "first") /\ Full(s, "second") /\ Full(s, "third")
                      /\ s.hit = Layers /\ s.beam
Shown(t, w, e, g) ==
  IF g = "lCog" THEN UNION {last[t].shows[w][e][g][l] : l \in Layers} ELSE last[t].shows[w][e][g]
CompleteIsFresh ==
  \A t \in Trees, w \in Writers :
    TreeOf(w) = t /\ HadEverything(last[t].input) =>
      \A e \in Steering[w].engines :
        \A g \in DOMAIN last[t].shows[w][e] \ AddsUp : Shown(t, w, e, g) = {last[t].of}

\* An event that lacks a collection of an engine that resets its variables shows none of
\* another event there: the hodoscopes are reset together, whichever is missing, and the
\* hits also when it is the amplitudes that are missing (resetHitsFill, resetBifFill).
AsksFor == [Hodoscope |-> {"first", "second", "third"}, Hit |-> {"first", "second"},
            TBTrack |-> {"first"}, Bif |-> {"first"}, MCParticle |-> {"first"}]
NotReset == {"maxPass", "counted", "numX", "numY"}
MissingIsReset ==
  \A t \in Trees, w \in Writers : TreeOf(w) = t /\ last[t].of # 0 =>
    \A e \in Steering[w].engines \cap DOMAIN AsksFor :
      (\E c \in AsksFor[e] : ~Has(last[t].input, c)) =>
        \A g \in DOMAIN last[t].shows[w][e] \ NotReset : Shown(t, w, e, g) = Default

\* No tree is used once it was deleted, by its owner or with the file it is in: true as
\* long as a file has one tree (end: the owner of the file closes it, with what is left).
NoUseAfterDelete == ~misused

\* A writer closes no file but the one it opened or what became of it: after a file was
\* replaced _outFile is the address of a deleted file, and that address may be another
\* writer's file by now (end looks the address up in _fileOwnerMap).
ClosesOwnFile ==
  [][\A w \in Writers : end(w) /\ OwnsFile(w) =>
       \A t \in dir[outFile[w]] : t[1] = Steering[w].file]_vars

\* The trees are logs of the events that are saved in the end (the filler map, the
\* replacement of files in processEvent, and end together).
L == INSTANCE TreeLog WITH log <- entries, onDisk <- saved
ImplementsTreeLog == L!Spec

\* The shower radius weighted with the energy is the event's own (HitWriteEngine.hh).
RadiusOfTheEvent ==
  \A t \in Trees, w \in Writers :
    TreeOf(w) = t /\ "Hit" \in Steering[w].engines /\ HadEverything(last[t].input) =>
      last[t].shows[w]["Hit"].radiusEw \subseteq Unwritten \cup {last[t].of}

=============================================================================
