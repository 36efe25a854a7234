---------------------------- MODULE MappedContainer ----------------------------
(***************************************************************************)
(* The container the processors keep their constants, positions and hits   *)
(* in (calice_userlib Mapping/MappedContainer.hh): an array over the       *)
(* compact index of the mapper, each entry with the address of its cell.   *)
(* A container lives through changes of the mapping: every access compares *)
(* the version of the mapper and, when it changed, moves the entries to    *)
(* their places in the new one.                                            *)
(***************************************************************************)
EXTENDS Ahc2Mapper

CONSTANTS
  Descriptions, Connections,    \* the collections the mapper may be filled with
  CellIDs, ModuleIDs,           \* what a caller may ask for
  OutOfRange,                   \* whether also outside the range of the mapping
  Elements, NoElement, NoCell, Garbage,
  DeleteElements,               \* _deleteElements
  MaxVersion                    \* bound: changes of the mapping

HasLargest(S) == \E n \in S : \A s \in S : s <= n

\* The collections are lists of finite length.  In a type, channels and cells
\* correspond; so do the modules and the layers.
DescriptionAssumption ==
  \A d \in Descriptions :
    /\ \A l \in d : l.id \in Nat /\ l.i \in Nat /\ l.j \in Nat
    /\ \A l1, l2 \in d :
         l1.type = l2.type /\ (l1.id = l2.id \/ (l1.i = l2.i /\ l1.j = l2.j)) => l1 = l2
    /\ HasLargest(Chips(d)) /\ HasLargest(Chans(d)) /\ HasLargest(Columns(d))

ConnectionAssumption ==
  \A x \in Connections :
    /\ \A a \in x : a.module \in Nat
    /\ \A a1, a2 \in x : a1.module = a2.module \/ a1.k = a2.k => a1 = a2
    /\ HasLargest(Modules(x))

\* Every cell can be asked for.
CellAssumption ==
  /\ \A c \in CellIDs : c = [i |-> c.i, j |-> c.j, k |-> c.k] /\ c.i \in Nat /\ c.j \in Nat
  /\ \A d \in Descriptions, x \in Connections : \A l \in d, a \in x :
       [i |-> l.i, j |-> l.j, k |-> a.k] \in CellIDs
  /\ \A id \in ModuleIDs : id.module \in Nat /\ id.chip \in Nat /\ id.chan \in Nat
  /\ NoCell \notin CellIDs /\ NoElement \notin Elements
  /\ ChannelsPerChip \in Nat \ {0}

ASSUME DescriptionAssumption
ASSUME ConnectionAssumption
ASSUME CellAssumption

\* What the promise of the container needs besides.
SameWidth ==
  \A d1, d2 \in Descriptions : Largest(Columns(d1)) = Largest(Columns(d2))

VARIABLES
  mapper,
  container,            \* live, _orderedData, _maxIndex, _mapperVersion
  deletes,              \* how often each element was deleted since it was made
  handed,               \* elements removed, which belong to the caller
  answer                \* of the present call: what, which cell, result

vars == <<mapper, container, deletes, handed, answer>>

EmptySlot == [address |-> NoCell, element |-> NoElement]

Blank(size) == [n \in 0..(size - 1) |-> EmptySlot]

FilledSlots(c) == {n \in DOMAIN c.data : c.data[n].element # NoElement}

Stored(c) == {c.data[n].element : n \in FilledSlots(c)}

\* initOrderedData with clearAddresses, as far as the array is concerned.
Emptied(c, size) == [c EXCEPT !.data = Blank(size), !.max = size]

Deleted(elements) ==
  [e \in Elements |-> IF DeleteElements /\ e \in elements THEN deletes[e] + 1 ELSE deletes[e]]

Index(m, id) == IF id \in CellIDs THEN IndexByCellID(m, id) ELSE IndexByModuleID(m, id)

(***************************************************************************)
(* refillOrderedData: the entries go to the index their address has now,   *)
(* in the order they had.  The first that has none ends the copying by an  *)
(* exception.                                                              *)
(***************************************************************************)
NewIndex(c, m, n) == IndexByCellID(m, c.data[n].address)

\* Mutant: _maxIndex is the one before.
UnmappedOld(c, m) == {n \in FilledSlots(c) : NewIndex(c, m, n) > c.max}

Unmapped(c, m) == {n \in FilledSlots(c) : NewIndex(c, m, n) > MaxIndex(m)}

Copied(c, m) ==
  LET unmapped == Unmapped(c, m)
  IN  {n \in FilledSlots(c) : \A u \in unmapped : n < u}

\* Of entries that get one index the last one stays.
Refilled(c, m) ==
  LET copied == Copied(c, m)
      from(t) == {n \in copied : NewIndex(c, m, n) = t}
  IN  [c EXCEPT
         !.mapperVersion = m.version,
         !.max = MaxIndex(m),
         !.data = [t \in 0..(MaxIndex(m) - 1) |->
                     IF from(t) = {} THEN EmptySlot
                     ELSE [address |-> CellIDOfIndex(m, t),
                           element |-> c.data[Largest(from(t))].element]]]

Checked(c, m) == IF c.mapperVersion # m.version THEN Refilled(c, m) ELSE c

CheckThrows(c, m) == c.mapperVersion # m.version /\ Unmapped(c, m) # {}

\* Reading one place behind the array would give anything.
GetByIndex(c, n) ==
  CASE n > c.max -> {}
    [] n <= c.max /\ n \notin DOMAIN c.data -> {Garbage}
    [] OTHER -> {c.data[n].element} \ {NoElement}

FilledByIndex(c, m, n, e) ==
  [c EXCEPT !.data[n] = [address |-> CellIDOfIndex(m, n), element |-> e]]

\* Mutant: an entry removed is not set to zero.
WithoutIndexKept(c, n) == c

WithoutIndex(c, n) ==
  [c EXCEPT !.data = [t \in DOMAIN c.data |-> IF t = n THEN EmptySlot ELSE c.data[t]]]

(***************************************************************************)
(* The calls.  The cell an identifier stands for is said without any index.*)
(***************************************************************************)
Meant(m, id) ==
  IF id \in CellIDs THEN id
  ELSE LET hit == {x \in Channels(m) : /\ x.module = id.module
                                       /\ x.chip = id.chip /\ x.chan = id.chan}
       IN IF hit = {} THEN NoCell ELSE CellOf(CHOOSE x \in hit : TRUE)

NoAnswer == [op |-> "none", cell |-> NoCell, threw |-> FALSE, elements |-> {}]

Idle == answer = NoAnswer

InRange(m, id) == IF id \in CellIDs THEN id.i < m.nI ELSE id.chan < m.nChan

Askable(id) == Idle /\ container.live /\ (OutOfRange \/ InRange(mapper, id))

Answer(op, cell, threw, elements) ==
  answer' = [op |-> op, cell |-> cell, threw |-> threw, elements |-> elements]

\* The caller takes the answer before anything else happens.
Return == ~Idle /\ answer' = NoAnswer /\ UNCHANGED <<mapper, container, deletes, handed>>

Init ==
  /\ mapper = NoMapping
  /\ container = [live |-> FALSE, data |-> Blank(0), max |-> 0, mapperVersion |-> 0]
  /\ deletes = [e \in Elements |-> 0]
  /\ handed = {}
  /\ answer = NoAnswer

FillMapper(d, x) ==
  /\ Idle
  /\ mapper.version + 2 <= MaxVersion
  /\ mapper' = FillModuleConnection(FillModuleDescription(mapper, d), x)
  /\ UNCHANGED <<container, deletes, handed, answer>>

\* Possible after the first filling only.
UpdateConnections(x) ==
  /\ Idle
  /\ mapper.layout # {}
  /\ mapper.version < MaxVersion
  /\ mapper' = FillModuleConnection(mapper, x)
  /\ UNCHANGED <<container, deletes, handed, answer>>

Construct ==
  /\ Idle
  /\ ~container.live
  /\ container' = [live |-> TRUE, data |-> Blank(MaxIndex(mapper)),
                   max |-> MaxIndex(mapper), mapperVersion |-> mapper.version]
  /\ UNCHANGED <<mapper, deletes, handed, answer>>

Destroy ==
  /\ Idle /\ container.live
  /\ container' = [Emptied(container, 0) EXCEPT !.live = FALSE]
  /\ deletes' = Deleted(Stored(container))
  /\ UNCHANGED <<mapper, handed, answer>>

\* clear() looks at the mapper but does not note its version.
Clear ==
  /\ Idle /\ container.live
  /\ container' = Emptied(container, MaxIndex(mapper))
  /\ deletes' = Deleted(Stored(container))
  /\ UNCHANGED <<mapper, handed, answer>>

\* checkMapping throws out of whatever was called.
Throw(op, id) ==
  /\ Askable(id)
  /\ CheckThrows(container, mapper)
  /\ container' = Refilled(container, mapper)
  /\ Answer(op, Meant(mapper, id), TRUE, {})
  /\ UNCHANGED <<mapper, deletes, handed>>

Get(id) ==
  /\ Askable(id)
  /\ ~CheckThrows(container, mapper)
  /\ container' = Checked(container, mapper)
  /\ Answer("get", Meant(mapper, id), FALSE,
            GetByIndex(container', Index(mapper, id)))
  /\ UNCHANGED <<mapper, deletes, handed>>

\* An element the container does not have; nobody calls it without unique.
Fill(id, e) ==
  LET c == Checked(container, mapper)
      n == Index(mapper, id)
      free == n \in DOMAIN c.data /\ c.data[n].element = NoElement
  IN  /\ Askable(id)
      /\ e \notin Stored(container)
      /\ ~CheckThrows(container, mapper)
      /\ IF free
         THEN /\ container' = FilledByIndex(c, mapper, n, e)
              /\ deletes' = [deletes EXCEPT ![e] = 0]
              /\ handed' = handed \ {e}
         ELSE /\ container' = c
              /\ UNCHANGED <<deletes, handed>>
      /\ Answer("fill", Meant(mapper, id), ~free, {})
      /\ UNCHANGED mapper

Remove(id) ==
  LET c == Checked(container, mapper)
      n == Index(mapper, id)
  IN  /\ Askable(id)
      /\ ~CheckThrows(container, mapper)
      /\ container' = WithoutIndex(c, n)
      /\ handed' = handed \union GetByIndex(c, n)
      /\ Answer("remove", Meant(mapper, id), FALSE, GetByIndex(c, n))
      /\ UNCHANGED <<mapper, deletes>>

Delete(id) ==
  LET c == Checked(container, mapper)
      n == Index(mapper, id)
  IN  /\ Askable(id)
      /\ ~CheckThrows(container, mapper)
      /\ container' = WithoutIndex(c, n)
      /\ deletes' = Deleted(GetByIndex(c, n))
      /\ Answer("delete", Meant(mapper, id), FALSE, {})
      /\ UNCHANGED <<mapper, handed>>

\* No look at the mapper.
GetAllElements ==
  /\ Idle /\ container.live
  /\ Answer("all", NoCell, FALSE, Stored(container))
  /\ UNCHANGED <<mapper, container, deletes, handed>>

Next ==
  \/ \E d \in Descriptions, x \in Connections : FillMapper(d, x)
  \/ \E x \in Connections : UpdateConnections(x)
  \/ Construct \/ Destroy \/ Clear \/ GetAllElements \/ Return
  \/ \E id \in CellIDs \union ModuleIDs :
        \/ \E op \in {"get", "fill", "remove", "delete"} : Throw(op, id)
        \/ Get(id) \/ Remove(id) \/ Delete(id)
        \/ \E e \in Elements : Fill(id, e)

Spec == Init /\ [][Next]_vars

-----------------------------------------------------------------------------
(***************************************************************************)
(* The translations agree: the channel and the cell it reads have the same *)
(* index, no two channels share one, it lies in the array, and the cell    *)
(* comes back from it (getIndexByCellID, getIndexByModuleID and            *)
(* getCellIDOfIndex, which divide by dimensions that change with every     *)
(* description).                                                           *)
(***************************************************************************)
IndicesAgree ==
  \A x \in Channels(mapper) :
    LET n == CompactIndex(mapper, x.module, x.chip, x.chan)
    IN  /\ n \in 0..(MaxIndex(mapper) - 1)
        /\ IndexByModuleID(mapper, x) = n
        /\ IndexByCellID(mapper, x) = n
        /\ CellIDOfIndex(mapper, n) = CellOf(x)
        /\ \A y \in Channels(mapper) :
             CompactIndex(mapper, y.module, y.chip, y.chan) = n => y = x

(***************************************************************************)
(* An element has one owner: what the container holds and what it handed   *)
(* over is not deleted, nothing is deleted twice, and what was handed over *)
(* is not held (the entries are copied, moved and freed one by one when    *)
(* the mapping changes, in the middle of any other call).                  *)
(***************************************************************************)
OwnedOnce ==
  /\ \A e \in Elements : deletes[e] <= 1
  /\ \A e \in Stored(container) \union handed : deletes[e] = 0
  /\ Stored(container) \intersect handed = {}

\* The content as the callers see it: by the address of the entry.
ContentOf(c) ==
  [a \in CellIDs |->
     LET at == {n \in FilledSlots(c) : c.data[n].address = a}
     IN IF at = {} THEN NoElement ELSE c.data[CHOOSE n \in at : TRUE].element]

Abstract == INSTANCE CellMap WITH
  Cells <- CellIDs, mapped <- MappedCells(mapper), content <- ContentOf(container)

(***************************************************************************)
(* The container is a map from cells to elements: through any sequence of  *)
(* calls and changes of the mapping every answer is that of the cell asked *)
(* for.  It is one if the descriptions have the same width: with fewer     *)
(* columns than before the address of an entry gets the index of a cell of *)
(* another row.                                                            *)
(***************************************************************************)
ImplementsCellMap == Abstract!Spec
=============================================================================
