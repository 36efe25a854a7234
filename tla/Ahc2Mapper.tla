------------------------------ MODULE Ahc2Mapper ------------------------------
(***************************************************************************)
(* The index arithmetic of the mapper (calice_userlib Ahc2Mapper): a cell  *)
(* of the detector is known by its place [i, j, k] and by the electronics  *)
(* that reads it, [module, chip, chan]; both are translated to one number, *)
(* the compact index, which the containers use as a place in an array.     *)
(*                                                                         *)
(* A description is a set of [type, id, i, j]: the cells of each type of   *)
(* module.  A connection is a set of [module, type, k]: the type of each   *)
(* module and its layer.  The two halves of a module are one type here     *)
(* (getCombinedModuleType).  Crates and slots are left out: in this chain  *)
(* only the older prototype asks by DAQ channel.                           *)
(***************************************************************************)
EXTENDS Integers

CONSTANT ChannelsPerChip        \* 36

Largest(S) == CHOOSE n \in S : \A s \in S : s <= n

\* The chips, channels and columns of a description, the modules of a connection;
\* the search for the largest of each starts at 0.
Chips(d) == {l.id \div ChannelsPerChip : l \in d} \union {0}
Chans(d) == {l.id % ChannelsPerChip : l \in d} \union {0}
Columns(d) == {l.i : l \in d} \union {0}
Modules(x) == {a.module : a \in x} \union {0}

NoMapping == [version |-> 0, layout |-> {}, connections |-> {},
              nMod |-> 1, nChip |-> 1, nChan |-> 1, nI |-> 1]

FillModuleDescription(m, d) ==
  [version |-> m.version + 1,
   layout |-> {[type |-> l.type, chip |-> l.id \div ChannelsPerChip,
                chan |-> l.id % ChannelsPerChip, i |-> l.i, j |-> l.j] : l \in d},
   nChip |-> Largest(Chips(d)) + 1,
   nChan |-> Largest(Chans(d)) + 1,
   nI |-> Largest(Columns(d)) + 1,
   connections |-> m.connections, nMod |-> m.nMod]

FillModuleConnection(m, x) ==
  [version |-> m.version + 1, connections |-> x, nMod |-> Largest(Modules(x)) + 1,
   layout |-> m.layout, nChip |-> m.nChip, nChan |-> m.nChan, nI |-> m.nI]

\* Every channel that has a cell, with the place of the cell.
Channels(m) ==
  {[module |-> p[1].module, chip |-> p[2].chip, chan |-> p[2].chan,
    i |-> p[2].i, j |-> p[2].j, k |-> p[1].k] :
     p \in {q \in m.connections \X m.layout : q[1].type = q[2].type}}

CellOf(x) == [i |-> x.i, j |-> x.j, k |-> x.k]

MappedCells(m) == {CellOf(x) : x \in Channels(m)}

ModuleSize(m) == m.nChip * m.nChan
MaxIndex(m) == m.nMod * ModuleSize(m)
NoIndex(m) == MaxIndex(m) + 1

IndexIJ(m, i, j) == j * m.nI + i

\* Mutant: the channels of a chip are counted in chips.
IndexChanByChips(m, chip, chan) == chip * m.nChip + chan

IndexChan(m, chip, chan) == chip * m.nChan + chan

CompactIndex(m, module, chip, chan) ==
  module * ModuleSize(m) + IndexChan(m, chip, chan)

\* The layer is looked up, then the number made of i and j.
IndexByCellID(m, c) ==
  LET hit == {x \in Channels(m) : /\ x.k = c.k
                                  /\ IndexIJ(m, x.i, x.j) = IndexIJ(m, c.i, c.j)}
      x == CHOOSE x \in hit : TRUE
  IN  IF hit = {} THEN NoIndex(m) ELSE CompactIndex(m, x.module, x.chip, x.chan)

\* The module is looked up, then the number made of chip and channel.
IndexByModuleID(m, id) ==
  IF \E x \in Channels(m) :
        /\ x.module = id.module
        /\ IndexChan(m, x.chip, x.chan) = IndexChan(m, id.chip, id.chan)
  THEN CompactIndex(m, id.module, id.chip, id.chan)
  ELSE NoIndex(m)

ModuleFromIndex(m, n) == n \div ModuleSize(m)
ChipFromIndex(m, n) == (n % ModuleSize(m)) \div m.nChan
ChanFromIndex(m, n) == (n % ModuleSize(m)) % m.nChan

CellIDOfIndex(m, n) ==
  CellOf(CHOOSE x \in Channels(m) : /\ x.module = ModuleFromIndex(m, n)
                                    /\ x.chip = ChipFromIndex(m, n)
                                    /\ x.chan = ChanFromIndex(m, n))
=============================================================================
