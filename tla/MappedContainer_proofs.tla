------------------------- MODULE MappedContainer_proofs -------------------------
(***************************************************************************)
(* The compact index and back, and the container as a map from cells to    *)
(* elements.                                                               *)
(***************************************************************************)
EXTENDS MappedContainer, TLAPS

LEMMA LargestIs ==
  ASSUME NEW S, HasLargest(S)
  PROVE  Largest(S) \in S /\ \A s \in S : s <= Largest(S)
BY DEF HasLargest, Largest

LEMMA DividedWhole ==
  ASSUME NEW n \in Nat \ {0}, NEW a \in Nat
  PROVE  a = n * (a \div n) + (a % n) /\ a % n \in 0..(n - 1) /\ a \div n \in Int
OBVIOUS

LEMMA QuotientNat ==
  ASSUME NEW n \in Nat \ {0}, NEW a \in Nat
  PROVE  a \div n \in Nat
OBVIOUS

-----------------------------------------------------------------------------
(***************************************************************************)
(* What is true of the mapper after any sequence of fillings.              *)
(***************************************************************************)
LayoutOK(m) ==
  /\ m.nChip \in Nat \ {0} /\ m.nChan \in Nat \ {0} /\ m.nI \in Nat \ {0}
  /\ \A l \in m.layout : /\ l.chip \in 0..(m.nChip - 1)
                         /\ l.chan \in 0..(m.nChan - 1)
                         /\ l.i \in 0..(m.nI - 1) /\ l.j \in Nat
  /\ \A l1, l2 \in m.layout :
       /\ l1.type = l2.type
       /\ (l1.chip = l2.chip /\ l1.chan = l2.chan) \/ (l1.i = l2.i /\ l1.j = l2.j)
       => l1 = l2
  /\ \A x \in Connections : \A a \in x, l \in m.layout :
       [i |-> l.i, j |-> l.j, k |-> a.k] \in CellIDs

ConnectionsOK(m) ==
  /\ m.connections \in Connections \union {{}}
  /\ m.nMod \in Nat \ {0}
  /\ \A a \in m.connections : a.module \in 0..(m.nMod - 1)
  /\ \A a1, a2 \in m.connections : a1.module = a2.module \/ a1.k = a2.k => a1 = a2

MapperOK(m) == m.version \in Nat /\ LayoutOK(m) /\ ConnectionsOK(m)

LEMMA NoMappingOK == MapperOK(NoMapping)
BY DEF MapperOK, LayoutOK, ConnectionsOK, NoMapping

LEMMA DescriptionFilled ==
  ASSUME NEW m, MapperOK(m), NEW d \in Descriptions
  PROVE  /\ MapperOK(FillModuleDescription(m, d))
         /\ FillModuleDescription(m, d).version = m.version + 1
         /\ FillModuleDescription(m, d).nI = Largest(Columns(d)) + 1
<1> DEFINE f == FillModuleDescription(m, d)
           seen == {[type |-> l.type, chip |-> l.id \div ChannelsPerChip,
                     chan |-> l.id % ChannelsPerChip, i |-> l.i, j |-> l.j] : l \in d}
<1>1. /\ f.version = m.version + 1 /\ f.layout = seen
      /\ f.connections = m.connections /\ f.nMod = m.nMod
      /\ f.nChip = Largest(Chips(d)) + 1 /\ f.nChan = Largest(Chans(d)) + 1
      /\ f.nI = Largest(Columns(d)) + 1
      /\ m.version \in Nat
  BY DEF FillModuleDescription, MapperOK
<1> HIDE DEF f
<1>2. ASSUME NEW l \in d
      PROVE  /\ l.id \in Nat /\ l.i \in Nat /\ l.j \in Nat
             /\ l.id \div ChannelsPerChip \in Nat /\ l.id % ChannelsPerChip \in Nat
             /\ l.id = ChannelsPerChip * (l.id \div ChannelsPerChip) + (l.id % ChannelsPerChip)
  <2>1. l.id \in Nat /\ l.i \in Nat /\ l.j \in Nat /\ ChannelsPerChip \in Nat \ {0}
    BY DescriptionAssumption, CellAssumption DEF DescriptionAssumption, CellAssumption
  <2>2. l.id = ChannelsPerChip * (l.id \div ChannelsPerChip) + (l.id % ChannelsPerChip)
    BY <2>1, DividedWhole
  <2>3. l.id \div ChannelsPerChip \in Nat /\ l.id % ChannelsPerChip \in 0..(ChannelsPerChip - 1)
    BY <2>1, DividedWhole, QuotientNat
  <2>4. QED BY <2>1, <2>2, <2>3
<1>3. /\ Largest(Chips(d)) \in Chips(d) /\ \A s \in Chips(d) : s <= Largest(Chips(d))
      /\ Largest(Chans(d)) \in Chans(d) /\ \A s \in Chans(d) : s <= Largest(Chans(d))
      /\ Largest(Columns(d)) \in Columns(d) /\ \A s \in Columns(d) : s <= Largest(Columns(d))
  BY LargestIs, DescriptionAssumption DEF DescriptionAssumption
<1>4. Chips(d) \subseteq Nat /\ Chans(d) \subseteq Nat /\ Columns(d) \subseteq Nat
  BY <1>2 DEF Chips, Chans, Columns
<1>5. f.nChip \in Nat \ {0} /\ f.nChan \in Nat \ {0} /\ f.nI \in Nat \ {0}
  BY <1>1, <1>3, <1>4
<1>6. ASSUME NEW q \in f.layout
      PROVE  /\ q.chip \in 0..(f.nChip - 1) /\ q.chan \in 0..(f.nChan - 1)
             /\ q.i \in 0..(f.nI - 1) /\ q.j \in Nat
  <2>1. PICK l \in d : q = [type |-> l.type, chip |-> l.id \div ChannelsPerChip,
                     chan |-> l.id % ChannelsPerChip, i |-> l.i, j |-> l.j]
    BY <1>1
  <2>2. q.chip \in Chips(d) /\ q.chan \in Chans(d) /\ q.i \in Columns(d)
    BY <2>1 DEF Chips, Chans, Columns
  <2>3. q.chip \in Nat /\ q.chan \in Nat /\ q.i \in Nat /\ q.j \in Nat
    BY <2>1, <1>2
  <2>4. QED BY <1>1, <1>3, <1>4, <2>2, <2>3
<1>7. ASSUME NEW q1 \in f.layout, NEW q2 \in f.layout, q1.type = q2.type,
             (q1.chip = q2.chip /\ q1.chan = q2.chan) \/ (q1.i = q2.i /\ q1.j = q2.j)
      PROVE  q1 = q2
  <2>1. PICK l1 \in d : q1 = [type |-> l1.type, chip |-> l1.id \div ChannelsPerChip,
                     chan |-> l1.id % ChannelsPerChip, i |-> l1.i, j |-> l1.j]
    BY <1>1
  <2>2. PICK l2 \in d : q2 = [type |-> l2.type, chip |-> l2.id \div ChannelsPerChip,
                     chan |-> l2.id % ChannelsPerChip, i |-> l2.i, j |-> l2.j]
    BY <1>1
  <2>3. l1.type = l2.type /\ (l1.id = l2.id \/ (l1.i = l2.i /\ l1.j = l2.j))
    BY <1>2, <1>7, <2>1, <2>2
  <2>4. l1 = l2
    BY <2>3, DescriptionAssumption DEF DescriptionAssumption
  <2>5. QED BY <2>1, <2>2, <2>4
<1>8. ASSUME NEW x \in Connections, NEW a \in x, NEW q \in f.layout
      PROVE  [i |-> q.i, j |-> q.j, k |-> a.k] \in CellIDs
  <2>1. PICK l \in d : q.i = l.i /\ q.j = l.j
    BY <1>1
  <2>2. QED BY <2>1, CellAssumption DEF CellAssumption
<1>9. LayoutOK(f)
  BY <1>5, <1>6, <1>7, <1>8 DEF LayoutOK
<1>10. ConnectionsOK(f)
  BY <1>1 DEF MapperOK, ConnectionsOK
<1>11. QED BY <1>1, <1>9, <1>10 DEF MapperOK, f

LEMMA ConnectionsFilled ==
  ASSUME NEW m, MapperOK(m), NEW x \in Connections
  PROVE  /\ MapperOK(FillModuleConnection(m, x))
         /\ FillModuleConnection(m, x).version = m.version + 1
         /\ FillModuleConnection(m, x).nI = m.nI
<1> DEFINE f == FillModuleConnection(m, x)
<1>1. /\ f.version = m.version + 1 /\ f.layout = m.layout /\ f.connections = x
      /\ f.nMod = Largest(Modules(x)) + 1 /\ f.nChip = m.nChip /\ f.nChan = m.nChan
      /\ f.nI = m.nI
      /\ m.version \in Nat
  BY DEF FillModuleConnection, MapperOK
<1> HIDE DEF f
<1>2. /\ Largest(Modules(x)) \in Modules(x)
      /\ \A s \in Modules(x) : s <= Largest(Modules(x))
  BY LargestIs, ConnectionAssumption DEF ConnectionAssumption
<1>3. Modules(x) \subseteq Nat /\ \A a \in x : a.module \in Modules(x)
  <2>1. \A a \in x : a.module \in Nat
    BY ConnectionAssumption DEF ConnectionAssumption
  <2>2. QED BY <2>1 DEF Modules
<1>4. f.nMod \in Nat \ {0} /\ \A a \in x : a.module \in 0..(f.nMod - 1)
  BY <1>1, <1>2, <1>3
<1>5. \A a1, a2 \in x : a1.module = a2.module \/ a1.k = a2.k => a1 = a2
  BY ConnectionAssumption DEF ConnectionAssumption
<1>6. ConnectionsOK(f)
  BY <1>1, <1>4, <1>5 DEF ConnectionsOK
<1>7. LayoutOK(f)
  BY <1>1 DEF MapperOK, LayoutOK
<1>8. QED BY <1>1, <1>6, <1>7 DEF MapperOK, f

-----------------------------------------------------------------------------
(***************************************************************************)
(* The compact index.                                                      *)
(***************************************************************************)
\* The quotient and the remainder are the numbers the index was made of.
LEMMA DivisionUndone ==
  ASSUME NEW n \in Nat \ {0}, NEW q \in Nat, NEW r \in 0..(n - 1)
  PROVE  (q * n + r) \div n = q /\ (q * n + r) % n = r
OBVIOUS

LEMMA PartsUnique ==
  ASSUME NEW n \in Nat \ {0}, NEW q \in Nat, NEW p \in Nat,
         NEW r \in 0..(n - 1), NEW s \in 0..(n - 1), q * n + r = p * n + s
  PROVE  q = p /\ r = s
BY DivisionUndone

LEMMA Below ==
  ASSUME NEW n \in Nat \ {0}, NEW b \in Nat, NEW q \in 0..(b - 1), NEW r \in 0..(n - 1)
  PROVE  q * n + r \in 0..(b * n - 1)
<1>1. q + 1 <= b /\ q * n \in Nat /\ b * n \in Nat OBVIOUS
<1>2. q * n + n <= b * n BY <1>1
<1>3. QED BY <1>1, <1>2

LEMMA ChannelParts ==
  ASSUME NEW m, NEW x \in Channels(m)
  PROVE  \E a \in m.connections, l \in m.layout :
           /\ a.type = l.type
           /\ x = [module |-> a.module, chip |-> l.chip, chan |-> l.chan,
                   i |-> l.i, j |-> l.j, k |-> a.k]
BY DEF Channels

LEMMA ChannelRanges ==
  ASSUME NEW m, MapperOK(m), NEW x \in Channels(m)
  PROVE  /\ x.module \in 0..(m.nMod - 1) /\ x.chip \in 0..(m.nChip - 1)
         /\ x.chan \in 0..(m.nChan - 1) /\ x.i \in 0..(m.nI - 1) /\ x.j \in Nat
         /\ CellOf(x) \in CellIDs
<1>1. PICK a \in m.connections, l \in m.layout :
           x = [module |-> a.module, chip |-> l.chip, chan |-> l.chan,
                i |-> l.i, j |-> l.j, k |-> a.k]
  BY ChannelParts
<1>2. m.connections \in Connections
  BY DEF MapperOK, ConnectionsOK
<1>3. QED BY <1>1, <1>2 DEF MapperOK, LayoutOK, ConnectionsOK, CellOf

LEMMA ChannelsUnique ==
  ASSUME NEW m, MapperOK(m), NEW x \in Channels(m), NEW y \in Channels(m),
         \/ x.module = y.module /\ x.chip = y.chip /\ x.chan = y.chan
         \/ CellOf(x) = CellOf(y)
  PROVE  x = y
<1>1. PICK a \in m.connections, l \in m.layout :
           /\ a.type = l.type
           /\ x = [module |-> a.module, chip |-> l.chip, chan |-> l.chan,
                   i |-> l.i, j |-> l.j, k |-> a.k]
  BY ChannelParts
<1>2. PICK b \in m.connections, n \in m.layout :
           /\ b.type = n.type
           /\ y = [module |-> b.module, chip |-> n.chip, chan |-> n.chan,
                   i |-> n.i, j |-> n.j, k |-> b.k]
  BY ChannelParts
<1>3. \/ a.module = b.module /\ l.chip = n.chip /\ l.chan = n.chan
      \/ a.k = b.k /\ l.i = n.i /\ l.j = n.j
  BY <1>1, <1>2 DEF CellOf
<1>4. a = b
  BY <1>3 DEF MapperOK, ConnectionsOK
<1>5. l = n
  BY <1>1, <1>2, <1>3, <1>4 DEF MapperOK, LayoutOK
<1>6. QED BY <1>1, <1>2, <1>4, <1>5

\* The dimensions as numbers.
LEMMA Sizes ==
  ASSUME NEW m, MapperOK(m)
  PROVE  /\ m.nMod \in Nat \ {0} /\ m.nChip \in Nat \ {0} /\ m.nChan \in Nat \ {0}
         /\ m.nI \in Nat \ {0}
         /\ ModuleSize(m) \in Nat \ {0} /\ MaxIndex(m) \in Nat \ {0}
<1>1. /\ m.nMod \in Nat \ {0} /\ m.nChip \in Nat \ {0} /\ m.nChan \in Nat \ {0}
      /\ m.nI \in Nat \ {0}
  BY DEF MapperOK, LayoutOK, ConnectionsOK
<1>2. m.nChip * m.nChan \in Nat \ {0} BY <1>1
<1>3. m.nMod * (m.nChip * m.nChan) \in Nat \ {0} BY <1>1, <1>2
<1>4. QED BY <1>1, <1>2, <1>3 DEF ModuleSize, MaxIndex

LEMMA IndexOfChannel ==
  ASSUME NEW m, MapperOK(m), NEW x \in Channels(m)
  PROVE  LET n == CompactIndex(m, x.module, x.chip, x.chan)
         IN  /\ n \in 0..(MaxIndex(m) - 1)
             /\ ModuleFromIndex(m, n) = x.module
             /\ ChipFromIndex(m, n) = x.chip
             /\ ChanFromIndex(m, n) = x.chan
<1> DEFINE r == IndexChan(m, x.chip, x.chan)
           n == CompactIndex(m, x.module, x.chip, x.chan)
<1>1. /\ m.nMod \in Nat \ {0} /\ m.nChip \in Nat \ {0} /\ m.nChan \in Nat \ {0}
      /\ ModuleSize(m) \in Nat \ {0}
  BY Sizes
<1>2. /\ x.module \in 0..(m.nMod - 1) /\ x.chip \in 0..(m.nChip - 1)
      /\ x.chan \in 0..(m.nChan - 1)
  BY ChannelRanges
<1>3. r \in 0..(ModuleSize(m) - 1) /\ r \div m.nChan = x.chip /\ r % m.nChan = x.chan
  <2>1. r = x.chip * m.nChan + x.chan /\ ModuleSize(m) = m.nChip * m.nChan
    BY DEF IndexChan, ModuleSize
  <2>2. x.chip * m.nChan + x.chan \in 0..(m.nChip * m.nChan - 1)
    BY <1>1, <1>2, Below
  <2>3. x.chip \in Nat
    BY <1>2
  <2>4. /\ (x.chip * m.nChan + x.chan) \div m.nChan = x.chip
        /\ (x.chip * m.nChan + x.chan) % m.nChan = x.chan
    BY <1>1, <1>2, <2>3, DivisionUndone
  <2> HIDE DEF r
  <2>5. QED BY <2>1, <2>2, <2>4
<1>4. n = x.module * ModuleSize(m) + r
  BY DEF CompactIndex
<1> HIDE DEF r, n
<1>5. /\ n \in 0..(MaxIndex(m) - 1)
      /\ n \div ModuleSize(m) = x.module /\ n % ModuleSize(m) = r
  <2>1. x.module * ModuleSize(m) + r \in 0..(m.nMod * ModuleSize(m) - 1)
    BY <1>1, <1>2, <1>3, Below
  <2>2. x.module \in Nat
    BY <1>2
  <2>3. /\ (x.module * ModuleSize(m) + r) \div ModuleSize(m) = x.module
        /\ (x.module * ModuleSize(m) + r) % ModuleSize(m) = r
    BY <1>1, <1>3, <2>2, DivisionUndone
  <2>4. QED BY <1>4, <2>1, <2>3 DEF MaxIndex
<1>6. QED BY <1>3, <1>5 DEF ModuleFromIndex, ChipFromIndex, ChanFromIndex, n

LEMMA IndexUnique ==
  ASSUME NEW m, MapperOK(m), NEW x \in Channels(m), NEW y \in Channels(m),
         CompactIndex(m, x.module, x.chip, x.chan) = CompactIndex(m, y.module, y.chip, y.chan)
  PROVE  x = y
BY IndexOfChannel, ChannelsUnique

LEMMA ChannelOfIndex ==
  ASSUME NEW m, MapperOK(m), NEW x \in Channels(m)
  PROVE  CellIDOfIndex(m, CompactIndex(m, x.module, x.chip, x.chan)) = CellOf(x)
<1> DEFINE n == CompactIndex(m, x.module, x.chip, x.chan)
<1>1. /\ ModuleFromIndex(m, n) = x.module /\ ChipFromIndex(m, n) = x.chip
      /\ ChanFromIndex(m, n) = x.chan
  BY IndexOfChannel
<1> HIDE DEF n
<1>2. ASSUME NEW y \in Channels(m), y.module = ModuleFromIndex(m, n),
             y.chip = ChipFromIndex(m, n), y.chan = ChanFromIndex(m, n)
      PROVE  y = x
  <2>1. y.module = x.module /\ y.chip = x.chip /\ y.chan = x.chan
    BY <1>1, <1>2
  <2>2. QED BY <2>1, ChannelsUnique
<1>3. QED BY <1>1, <1>2 DEF CellIDOfIndex, n

-----------------------------------------------------------------------------
(***************************************************************************)
(* The ways back to the index.                                             *)
(***************************************************************************)
LEMMA SameNumber ==
  ASSUME NEW m, MapperOK(m), NEW x \in Channels(m), NEW c,
         c.i \in 0..(m.nI - 1), c.j \in Nat
  PROVE  IndexIJ(m, x.i, x.j) = IndexIJ(m, c.i, c.j) <=> x.i = c.i /\ x.j = c.j
<1>1. x.i \in 0..(m.nI - 1) /\ x.j \in Nat /\ m.nI \in Nat \ {0}
  BY ChannelRanges, Sizes
<1>2. ASSUME IndexIJ(m, x.i, x.j) = IndexIJ(m, c.i, c.j)
      PROVE  x.i = c.i /\ x.j = c.j
  <2>1. x.j * m.nI + x.i = c.j * m.nI + c.i
    BY <1>2 DEF IndexIJ
  <2>2. QED BY <1>1, <2>1, PartsUnique
<1>3. QED BY <1>2

\* A cell is found at the index of its channel.
LEMMA CellFound ==
  ASSUME NEW m, MapperOK(m), NEW x \in Channels(m), NEW c,
         c.i = x.i, c.j = x.j, c.k = x.k
  PROVE  IndexByCellID(m, c) = CompactIndex(m, x.module, x.chip, x.chan)
<1> DEFINE hit == {y \in Channels(m) : /\ y.k = c.k
                                       /\ IndexIJ(m, y.i, y.j) = IndexIJ(m, c.i, c.j)}
<1>1. c.i \in 0..(m.nI - 1) /\ c.j \in Nat
  BY ChannelRanges
<1>2. x \in hit
  OBVIOUS
<1>3. ASSUME NEW y \in hit
      PROVE  y = x
  <2>1. y \in Channels(m) /\ y.i = c.i /\ y.j = c.j /\ y.k = c.k
    BY <1>1, SameNumber
  <2>2. CellOf(y) = CellOf(x)
    BY <2>1 DEF CellOf
  <2>3. QED BY <2>1, <2>2, ChannelsUnique
<1>4. IndexByCellID(m, c) =
        LET y == CHOOSE y \in hit : TRUE
        IN  IF hit = {} THEN NoIndex(m) ELSE CompactIndex(m, y.module, y.chip, y.chan)
  BY DEF IndexByCellID
<1> HIDE DEF hit
<1>5. (CHOOSE y \in hit : TRUE) = x
  BY <1>2, <1>3
<1>6. QED BY <1>2, <1>4, <1>5

LEMMA CellNotFound ==
  ASSUME NEW m, MapperOK(m), NEW c \in CellIDs, c.i < m.nI, c \notin MappedCells(m)
  PROVE  IndexByCellID(m, c) = NoIndex(m)
<1>1. c = [i |-> c.i, j |-> c.j, k |-> c.k] /\ c.i \in Nat /\ c.j \in Nat
  BY CellAssumption DEF CellAssumption
<1>2. c.i \in 0..(m.nI - 1)
  BY <1>1, Sizes
<1>3. ASSUME NEW y \in Channels(m), y.k = c.k, IndexIJ(m, y.i, y.j) = IndexIJ(m, c.i, c.j)
      PROVE  FALSE
  <2>1. y.i = c.i /\ y.j = c.j
    BY <1>1, <1>2, <1>3, SameNumber
  <2>2. CellOf(y) = c
    BY <1>1, <1>3, <2>1 DEF CellOf
  <2>3. QED BY <2>2 DEF MappedCells
<1>4. QED BY <1>3 DEF IndexByCellID

\* An identifier in range stands for a channel and its cell, or for neither.
LEMMA IndexMeans ==
  ASSUME NEW m, MapperOK(m), NEW id \in CellIDs \union ModuleIDs, InRange(m, id)
  PROVE  \/ \E x \in Channels(m) : /\ Index(m, id) = CompactIndex(m, x.module, x.chip, x.chan)
                                   /\ Meant(m, id) = CellOf(x)
         \/ /\ Index(m, id) = NoIndex(m)
            /\ Meant(m, id) \in (CellIDs \union {NoCell}) \ MappedCells(m)
<1>1. CASE id \in CellIDs
  <2>1. Index(m, id) = IndexByCellID(m, id) /\ Meant(m, id) = id /\ id.i < m.nI
    BY <1>1 DEF Index, Meant, InRange
  <2>2. CASE id \in MappedCells(m)
    <3>1. PICK x \in Channels(m) : id = CellOf(x)
      BY <2>2 DEF MappedCells
    <3>2. id.i = x.i /\ id.j = x.j /\ id.k = x.k
      BY <3>1 DEF CellOf
    <3>3. IndexByCellID(m, id) = CompactIndex(m, x.module, x.chip, x.chan)
      BY <3>2, CellFound
    <3>4. QED BY <2>1, <3>1, <3>3
  <2>3. CASE id \notin MappedCells(m)
    BY <1>1, <2>1, <2>3, CellNotFound
  <2>4. QED BY <2>2, <2>3
<1>2. CASE id \notin CellIDs
  <2> DEFINE hit == {x \in Channels(m) : x.module = id.module /\ x.chip = id.chip
                                         /\ x.chan = id.chan}
  <2>1. /\ id.chan < m.nChan
        /\ id.chip \in Nat /\ id.chan \in Nat /\ NoCell \notin CellIDs
        /\ m.nChan \in Nat \ {0}
    BY <1>2, CellAssumption, Sizes DEF CellAssumption, InRange
  <2>2. ASSUME NEW x \in Channels(m)
        PROVE  IndexChan(m, x.chip, x.chan) = IndexChan(m, id.chip, id.chan)
                 <=> x.chip = id.chip /\ x.chan = id.chan
    <3>1. x.chip \in Nat /\ x.chan \in 0..(m.nChan - 1) /\ id.chan \in 0..(m.nChan - 1)
      BY <2>1, ChannelRanges
    <3>2. ASSUME IndexChan(m, x.chip, x.chan) = IndexChan(m, id.chip, id.chan)
          PROVE  x.chip = id.chip /\ x.chan = id.chan
      <4>1. x.chip * m.nChan + x.chan = id.chip * m.nChan + id.chan
        BY <3>2 DEF IndexChan
      <4>2. QED BY <2>1, <3>1, <4>1, PartsUnique
    <3>3. QED BY <3>2
  <2>3. Index(m, id) = IF hit # {} THEN CompactIndex(m, id.module, id.chip, id.chan)
                       ELSE NoIndex(m)
    <3>1. (\E x \in Channels(m) :
              /\ x.module = id.module
              /\ IndexChan(m, x.chip, x.chan) = IndexChan(m, id.chip, id.chan))
            <=> hit # {}
      BY <2>2
    <3>2. QED BY <1>2, <3>1 DEF Index, IndexByModuleID
  <2>4. Meant(m, id) = IF hit = {} THEN NoCell ELSE CellOf(CHOOSE x \in hit : TRUE)
    BY <1>2 DEF Meant
  <2>5. MappedCells(m) \subseteq CellIDs
    BY ChannelRanges DEF MappedCells
  <2>6. CASE hit = {}
    BY <2>1, <2>3, <2>4, <2>5, <2>6
  <2>7. CASE hit # {}
    <3> DEFINE x == CHOOSE x \in hit : TRUE
    <3>1. x \in hit
      BY <2>7
    <3>2. /\ x \in Channels(m) /\ x.module = id.module /\ x.chip = id.chip
          /\ x.chan = id.chan
      BY <3>1
    <3> HIDE DEF x
    <3>3. Index(m, id) = CompactIndex(m, x.module, x.chip, x.chan)
      BY <2>3, <2>7, <3>2
    <3>4. Meant(m, id) = CellOf(x)
      BY <2>4, <2>7 DEF x
    <3>5. QED BY <3>2, <3>3, <3>4
  <2>8. QED BY <2>6, <2>7
<1>3. QED BY <1>1, <1>2

-----------------------------------------------------------------------------
(***************************************************************************)
(* The mapper through every sequence of fillings.                          *)
(***************************************************************************)
LEMMA MapperFilled ==
  ASSUME NEW m, MapperOK(m), NEW d \in Descriptions, NEW x \in Connections
  PROVE  LET f == FillModuleConnection(FillModuleDescription(m, d), x)
         IN  /\ MapperOK(f)
             /\ f.version = m.version + 2
             /\ f.nI = Largest(Columns(d)) + 1
<1>1. m.version \in Nat
  BY DEF MapperOK
<1>2. QED BY <1>1, DescriptionFilled, ConnectionsFilled

LEMMA MapperAlwaysOK == Spec => []MapperOK(mapper)
<1>1. Init => MapperOK(mapper)
  BY NoMappingOK DEF Init
<1>2. ASSUME MapperOK(mapper), [Next]_vars
      PROVE  MapperOK(mapper)'
  <2>1. CASE \E d \in Descriptions, x \in Connections : FillMapper(d, x)
    <3>1. PICK d \in Descriptions, x \in Connections :
            mapper' = FillModuleConnection(FillModuleDescription(mapper, d), x)
      BY <2>1 DEF FillMapper
    <3>2. MapperOK(mapper')
      BY <1>2, <3>1, MapperFilled
    <3>3. QED BY <3>2
  <2>2. CASE \E x \in Connections : UpdateConnections(x)
    <3>1. PICK x \in Connections : mapper' = FillModuleConnection(mapper, x)
      BY <2>2 DEF UpdateConnections
    <3>2. MapperOK(mapper')
      BY <1>2, <3>1, ConnectionsFilled
    <3>3. QED BY <3>2
  <2>3. CASE UNCHANGED mapper
    BY <1>2, <2>3
  <2>4. QED
    BY <1>2, <2>1, <2>2, <2>3
       DEF Next, vars, Construct, Destroy, Clear, GetAllElements, Return, Throw,
           Get, Fill, Remove, Delete
<1>3. QED BY <1>1, <1>2, PTL DEF Spec

\* Whatever collections the mapper is filled with, and in whatever order, the
\* translations of identifiers to indices agree (the getters of Ahc2Mapper).
THEOREM IndicesAlwaysAgree == Spec => []IndicesAgree
<1>1. MapperOK(mapper) => IndicesAgree
  <2> SUFFICES ASSUME MapperOK(mapper), NEW x \in Channels(mapper)
               PROVE  LET n == CompactIndex(mapper, x.module, x.chip, x.chan)
                      IN  /\ n \in 0..(MaxIndex(mapper) - 1)
                          /\ IndexByModuleID(mapper, x) = n
                          /\ IndexByCellID(mapper, x) = n
                          /\ CellIDOfIndex(mapper, n) = CellOf(x)
                          /\ \A y \in Channels(mapper) :
                               CompactIndex(mapper, y.module, y.chip, y.chan) = n => y = x
    BY DEF IndicesAgree
  <2>1. IndexByModuleID(mapper, x) = CompactIndex(mapper, x.module, x.chip, x.chan)
    BY DEF IndexByModuleID
  <2>2. QED
    BY <2>1, IndexOfChannel, CellFound, ChannelOfIndex, IndexUnique
<1>2. QED BY <1>1, MapperAlwaysOK, PTL

-----------------------------------------------------------------------------
(***************************************************************************)
(* What is true of the container c beside the mapper m: an entry has the   *)
(* address of a cell and that cell has no other entry; if the container    *)
(* has seen the present mapping, the entry is at the index of its cell.    *)
(***************************************************************************)
Slots == [address : CellIDs \union {NoCell}, element : Elements \union {NoElement}]

SlotsOK(c) ==
  /\ c = [live |-> c.live, data |-> c.data, max |-> c.max, mapperVersion |-> c.mapperVersion]
  /\ c.live \in BOOLEAN
  /\ c.max \in Nat /\ c.mapperVersion \in Nat
  /\ c.data \in [0..(c.max - 1) -> Slots]
  /\ \A n1, n2 \in FilledSlots(c) :
       \/ c.data[n1].address = c.data[n2].address
       \/ c.data[n1].element = c.data[n2].element
       => n1 = n2

AddressesOK(c, m) ==
  \A n \in FilledSlots(c) : c.data[n].address \in CellIDs /\ c.data[n].address.i < m.nI

Placed(c, m) ==
  /\ c.max = MaxIndex(m)
  /\ \A n \in FilledSlots(c) :
       \E x \in Channels(m) : /\ c.data[n].address = CellOf(x)
                              /\ n = CompactIndex(m, x.module, x.chip, x.chan)

ContainerOK(c, m) ==
  /\ SlotsOK(c)
  /\ AddressesOK(c, m)
  /\ c.mapperVersion <= m.version
  /\ c.live /\ c.mapperVersion = m.version => Placed(c, m)
  /\ ~c.live => FilledSlots(c) = {}

Holds(c, a, e) ==
  \E n \in FilledSlots(c) : c.data[n].address = a /\ c.data[n].element = e

Contents == [CellIDs -> Elements \union {NoElement}]

LEMMA ElementsFilled ==
  ASSUME NEW c, SlotsOK(c), NEW n \in FilledSlots(c)
  PROVE  /\ n \in 0..(c.max - 1) /\ n \in DOMAIN c.data
         /\ c.data[n].element \in Elements /\ c.data[n].element # NoElement
BY DEF SlotsOK, FilledSlots, Slots

LEMMA ContentIs ==
  ASSUME NEW c, SlotsOK(c)
  PROVE  /\ ContentOf(c) \in Contents
         /\ \A a \in CellIDs, e \in Elements : ContentOf(c)[a] = e <=> Holds(c, a, e)
<1>1. NoElement \notin Elements
  BY CellAssumption DEF CellAssumption
<1>2. ASSUME NEW a \in CellIDs
      PROVE  /\ ContentOf(c)[a] \in Elements \union {NoElement}
             /\ \A e \in Elements : ContentOf(c)[a] = e <=> Holds(c, a, e)
  <2> DEFINE at == {n \in FilledSlots(c) : c.data[n].address = a}
  <2>1. ContentOf(c)[a] = IF at = {} THEN NoElement
                          ELSE c.data[CHOOSE n \in at : TRUE].element
    BY DEF ContentOf
  <2>2. CASE at = {}
    BY <1>1, <2>1, <2>2 DEF Holds
  <2>3. CASE at # {}
    <3>1. PICK n \in at : n = CHOOSE t \in at : TRUE
      BY <2>3
    <3>2. n \in FilledSlots(c) /\ c.data[n].address = a
      BY <3>1
    <3>3. ContentOf(c)[a] = c.data[n].element
      BY <2>1, <2>3, <3>1
    <3>4. \A t \in FilledSlots(c) : c.data[t].address = a => t = n
      BY <3>2 DEF SlotsOK
    <3>5. QED BY <3>2, <3>3, <3>4, ElementsFilled DEF Holds
  <2>4. QED BY <2>2, <2>3
<1>3. QED BY <1>2 DEF ContentOf, Contents

LEMMA SameContent ==
  ASSUME NEW f \in Contents, NEW g \in Contents,
         \A a \in CellIDs, e \in Elements : f[a] = e <=> g[a] = e
  PROVE  f = g
<1>1. ASSUME NEW a \in CellIDs PROVE f[a] = g[a]
  <2>1. f[a] \in Elements \union {NoElement} /\ g[a] \in Elements \union {NoElement}
    BY DEF Contents
  <2>2. QED BY <2>1
<1>2. QED BY <1>1 DEF Contents

-----------------------------------------------------------------------------
(***************************************************************************)
(* refillOrderedData: every entry copied is found at the new index of its  *)
(* address, and nothing else is.                                           *)
(***************************************************************************)
LEMMA CopiedTo ==
  ASSUME NEW m, MapperOK(m), NEW c, SlotsOK(c), AddressesOK(c, m), NEW n \in Copied(c, m)
  PROVE  /\ n \in FilledSlots(c)
         /\ \E x \in Channels(m) :
              /\ c.data[n].address = CellOf(x)
              /\ NewIndex(c, m, n) = CompactIndex(m, x.module, x.chip, x.chan)
<1> DEFINE a == c.data[n].address
<1>1. n \in FilledSlots(c) /\ n \notin Unmapped(c, m)
  <2>1. n \in FilledSlots(c) /\ \A u \in Unmapped(c, m) : n < u
    BY DEF Copied
  <2>2. n \in 0..(c.max - 1) /\ c.max \in Nat
    BY <2>1, ElementsFilled DEF SlotsOK
  <2>3. QED BY <2>1, <2>2
<1>2. ~(IndexByCellID(m, a) > MaxIndex(m))
  BY <1>1 DEF Unmapped, NewIndex
<1>3. a \in CellIDs /\ a.i < m.nI
  BY <1>1 DEF AddressesOK
<1> HIDE DEF a
<1>4. a \in MappedCells(m)
  <2>1. ASSUME a \notin MappedCells(m) PROVE FALSE
    <3>1. IndexByCellID(m, a) = MaxIndex(m) + 1
      BY <1>3, <2>1, CellNotFound DEF NoIndex
    <3>2. MaxIndex(m) \in Nat
      BY Sizes
    <3>3. QED BY <1>2, <3>1, <3>2
  <2>2. QED BY <2>1
<1>5. PICK x \in Channels(m) : a = CellOf(x)
  BY <1>4 DEF MappedCells
<1>6. a.i = x.i /\ a.j = x.j /\ a.k = x.k
  BY <1>5 DEF CellOf
<1>7. IndexByCellID(m, a) = CompactIndex(m, x.module, x.chip, x.chan)
  BY <1>6, CellFound
<1>8. QED BY <1>1, <1>5, <1>7 DEF NewIndex, a

LEMMA CopiedApart ==
  ASSUME NEW m, MapperOK(m), NEW c, SlotsOK(c), AddressesOK(c, m),
         NEW n1 \in Copied(c, m), NEW n2 \in Copied(c, m),
         NewIndex(c, m, n1) = NewIndex(c, m, n2)
  PROVE  n1 = n2
<1>1. n1 \in FilledSlots(c) /\ n2 \in FilledSlots(c)
  BY CopiedTo
<1>2. PICK x \in Channels(m) :
        /\ c.data[n1].address = CellOf(x)
        /\ NewIndex(c, m, n1) = CompactIndex(m, x.module, x.chip, x.chan)
  BY CopiedTo
<1>3. PICK y \in Channels(m) :
        /\ c.data[n2].address = CellOf(y)
        /\ NewIndex(c, m, n2) = CompactIndex(m, y.module, y.chip, y.chan)
  BY CopiedTo
<1>4. x = y
  BY <1>2, <1>3, IndexUnique
<1>5. QED BY <1>1, <1>2, <1>3, <1>4 DEF SlotsOK

LEMMA RefilledData ==
  ASSUME NEW m, MapperOK(m), NEW c, SlotsOK(c), AddressesOK(c, m)
  PROVE  /\ Refilled(c, m) = [live |-> c.live, data |-> Refilled(c, m).data,
                              max |-> MaxIndex(m), mapperVersion |-> m.version]
         /\ DOMAIN Refilled(c, m).data = 0..(MaxIndex(m) - 1)
         /\ \A n \in Copied(c, m) : /\ NewIndex(c, m, n) \in 0..(MaxIndex(m) - 1)
                                    /\ Refilled(c, m).data[NewIndex(c, m, n)] = c.data[n]
         /\ \A t \in 0..(MaxIndex(m) - 1) :
              \/ \E n \in Copied(c, m) : NewIndex(c, m, n) = t
              \/ Refilled(c, m).data[t] = EmptySlot
<1> DEFINE from(t) == {n \in Copied(c, m) : NewIndex(c, m, n) = t}
           data == [t \in 0..(MaxIndex(m) - 1) |->
                      IF from(t) = {} THEN EmptySlot
                      ELSE [address |-> CellIDOfIndex(m, t),
                            element |-> c.data[Largest(from(t))].element]]
<1>1. Refilled(c, m) = [live |-> c.live, data |-> data, max |-> MaxIndex(m),
                        mapperVersion |-> m.version]
  <2>1. c = [live |-> c.live, data |-> c.data, max |-> c.max,
             mapperVersion |-> c.mapperVersion]
    BY DEF SlotsOK
  <2>2. Refilled(c, m) = [c EXCEPT !.mapperVersion = m.version, !.max = MaxIndex(m),
                                   !.data = data]
    BY DEF Refilled
  <2> HIDE DEF data
  <2>3. QED BY <2>1, <2>2
<1>2. ASSUME NEW n \in Copied(c, m)
      PROVE  /\ NewIndex(c, m, n) \in 0..(MaxIndex(m) - 1)
             /\ data[NewIndex(c, m, n)] = c.data[n]
  <2> DEFINE t == NewIndex(c, m, n)
  <2>1. PICK x \in Channels(m) :
          /\ c.data[n].address = CellOf(x)
          /\ t = CompactIndex(m, x.module, x.chip, x.chan)
    BY CopiedTo
  <2>2. t \in 0..(MaxIndex(m) - 1) /\ CellIDOfIndex(m, t) = c.data[n].address
    BY <2>1, IndexOfChannel, ChannelOfIndex
  <2>3. from(t) = {n}
    BY CopiedApart
  <2>4. n \in FilledSlots(c)
    BY CopiedTo
  <2>5. n \in 0..(c.max - 1) /\ c.data[n] \in Slots /\ c.max \in Nat
    BY <2>4, ElementsFilled DEF SlotsOK
  <2>6. Largest({n}) = n
    BY <2>5 DEF Largest
  <2>7. data[t] = [address |-> CellIDOfIndex(m, t), element |-> c.data[n].element]
    BY <2>2, <2>3, <2>6
  <2>8. c.data[n] = [address |-> c.data[n].address, element |-> c.data[n].element]
    BY <2>5 DEF Slots
  <2>9. QED BY <2>2, <2>7, <2>8
<1>3. ASSUME NEW t \in 0..(MaxIndex(m) - 1)
      PROVE  \/ \E n \in Copied(c, m) : NewIndex(c, m, n) = t
             \/ data[t] = EmptySlot
  OBVIOUS
<1>4. DOMAIN data = 0..(MaxIndex(m) - 1)
  OBVIOUS
<1> HIDE DEF data, from
<1>5. QED BY <1>1, <1>2, <1>3, <1>4

LEMMA RefilledOK ==
  ASSUME NEW m, MapperOK(m), NEW c, ContainerOK(c, m)
  PROVE  LET r == Refilled(c, m)
         IN  /\ ContainerOK(r, m)
             /\ r.live = c.live /\ r.mapperVersion = m.version
             /\ Stored(r) \subseteq Stored(c)
             /\ \A a, e : Holds(r, a, e) <=> \E n \in Copied(c, m) :
                                               /\ c.data[n].address = a
                                               /\ c.data[n].element = e
<1> DEFINE r == Refilled(c, m)
           new(n) == NewIndex(c, m, n)
<1>1. SlotsOK(c) /\ AddressesOK(c, m) /\ m.version \in Nat
  BY DEF ContainerOK, MapperOK
<1>2. MaxIndex(m) \in Nat
  BY Sizes
<1>3. /\ r = [live |-> c.live, data |-> r.data, max |-> MaxIndex(m),
              mapperVersion |-> m.version]
      /\ DOMAIN r.data = 0..(MaxIndex(m) - 1)
  BY <1>1, RefilledData
<1>4. ASSUME NEW n \in Copied(c, m)
      PROVE  /\ new(n) \in 0..(MaxIndex(m) - 1) /\ r.data[new(n)] = c.data[n]
             /\ n \in FilledSlots(c) /\ c.data[n] \in Slots
             /\ new(n) \in FilledSlots(r)
             /\ \E x \in Channels(m) :
                  /\ c.data[n].address = CellOf(x)
                  /\ new(n) = CompactIndex(m, x.module, x.chip, x.chan)
  <2>1. new(n) \in 0..(MaxIndex(m) - 1) /\ r.data[new(n)] = c.data[n]
    BY <1>1, RefilledData
  <2>2. /\ n \in FilledSlots(c)
        /\ \E x \in Channels(m) :
             /\ c.data[n].address = CellOf(x)
             /\ new(n) = CompactIndex(m, x.module, x.chip, x.chan)
    BY <1>1, CopiedTo
  <2>3. c.data[n] \in Slots /\ c.data[n].element # NoElement
    BY <1>1, <2>2, ElementsFilled DEF SlotsOK
  <2> HIDE DEF r, new
  <2>4. QED BY <1>3, <2>1, <2>2, <2>3 DEF FilledSlots
<1>5. ASSUME NEW t \in 0..(MaxIndex(m) - 1)
      PROVE  (\E n \in Copied(c, m) : new(n) = t) \/ r.data[t] = EmptySlot
  BY <1>1, RefilledData
<1>6. ASSUME NEW n1 \in Copied(c, m), NEW n2 \in Copied(c, m), new(n1) = new(n2)
      PROVE  n1 = n2
  BY <1>1, <1>6, CopiedApart
<1> HIDE DEF r, new
<1>7. EmptySlot \in Slots /\ EmptySlot.element = NoElement
  BY DEF EmptySlot, Slots
<1>8. ASSUME NEW t \in FilledSlots(r)
      PROVE  \E n \in Copied(c, m) : new(n) = t
  BY <1>3, <1>5, <1>7 DEF FilledSlots
<1>9. r.data \in [0..(MaxIndex(m) - 1) -> Slots]
  <2>1. ASSUME NEW t \in 0..(MaxIndex(m) - 1) PROVE r.data[t] \in Slots
    BY <1>4, <1>5, <1>7
  <2>2. r.data = [t \in 0..(MaxIndex(m) - 1) |-> r.data[t]]
    <3>1. r = Refilled(c, m) BY DEF r
    <3>2. QED BY <3>1 DEF Refilled
  <2>3. QED BY <2>1, <2>2
<1>10. SlotsOK(r)
  <2>1. ASSUME NEW t1 \in FilledSlots(r), NEW t2 \in FilledSlots(r),
               \/ r.data[t1].address = r.data[t2].address
               \/ r.data[t1].element = r.data[t2].element
        PROVE  t1 = t2
    <3>1. PICK n1 \in Copied(c, m) : new(n1) = t1
      BY <1>8
    <3>2. PICK n2 \in Copied(c, m) : new(n2) = t2
      BY <1>8
    <3>3. n1 = n2
      BY <1>1, <1>4, <2>1, <3>1, <3>2 DEF SlotsOK
    <3>4. QED BY <3>1, <3>2, <3>3
  <2>2. c.live \in BOOLEAN
    BY <1>1 DEF SlotsOK
  <2>3. /\ r.live = c.live /\ r.max = MaxIndex(m) /\ r.mapperVersion = m.version
        /\ r = [live |-> r.live, data |-> r.data, max |-> r.max,
                mapperVersion |-> r.mapperVersion]
    BY <1>3
  <2>4. QED BY <1>1, <1>2, <1>9, <2>1, <2>2, <2>3 DEF SlotsOK
<1>11. AddressesOK(r, m)
  <2>1. ASSUME NEW t \in FilledSlots(r)
        PROVE  r.data[t].address \in CellIDs /\ r.data[t].address.i < m.nI
    <3>1. PICK n \in Copied(c, m) : new(n) = t
      BY <1>8
    <3>2. QED BY <1>1, <1>4, <3>1 DEF AddressesOK
  <2>2. QED BY <2>1 DEF AddressesOK
<1>12. Placed(r, m)
  <2>1. ASSUME NEW t \in FilledSlots(r)
        PROVE  \E x \in Channels(m) : /\ r.data[t].address = CellOf(x)
                                      /\ t = CompactIndex(m, x.module, x.chip, x.chan)
    <3>1. PICK n \in Copied(c, m) : new(n) = t
      BY <1>8
    <3>2. QED BY <1>4, <3>1
  <2>2. r.max = MaxIndex(m)
    BY <1>3
  <2>3. QED BY <2>1, <2>2 DEF Placed
<1>13. ~r.live => FilledSlots(r) = {}
  <2>1. ASSUME ~r.live PROVE FilledSlots(r) = {}
    <3>1. r.live = c.live
      BY <1>3
    <3>2. FilledSlots(c) = {}
      BY <2>1, <3>1 DEF ContainerOK
    <3>3. QED BY <1>4, <1>8, <3>2
  <2>2. QED BY <2>1
<1>14. r.live = c.live /\ r.mapperVersion = m.version /\ r.mapperVersion <= m.version
  BY <1>1, <1>3
<1>15. ContainerOK(r, m)
  BY <1>10, <1>11, <1>12, <1>13, <1>14 DEF ContainerOK
<1>16. Stored(r) \subseteq Stored(c)
  BY <1>4, <1>8 DEF Stored
<1>17. ASSUME NEW a, NEW e
       PROVE  Holds(r, a, e) <=> \E n \in Copied(c, m) : /\ c.data[n].address = a
                                                         /\ c.data[n].element = e
  BY <1>4, <1>8 DEF Holds
<1>18. QED BY <1>14, <1>15, <1>16, <1>17 DEF r

\* The cells that have an element and are not mapped any more.
Lost(c, m) == {a \in CellIDs : ContentOf(c)[a] # NoElement} \ MappedCells(m)

LEMMA FilledCells ==
  ASSUME NEW c, NEW m, ContainerOK(c, m), NEW n \in FilledSlots(c)
  PROVE  /\ c.data[n].address \in CellIDs
         /\ ContentOf(c)[c.data[n].address] = c.data[n].element
         /\ c.data[n].element # NoElement
<1>1. SlotsOK(c) /\ c.data[n].address \in CellIDs
  BY DEF ContainerOK, AddressesOK
<1>2. Holds(c, c.data[n].address, c.data[n].element)
  BY DEF Holds
<1>3. QED BY <1>1, <1>2, ContentIs, ElementsFilled

\* checkMapping throws exactly when an element has lost its cell.
LEMMA ThrowsForALoss ==
  ASSUME NEW m, MapperOK(m), NEW c, ContainerOK(c, m)
  PROVE  /\ Unmapped(c, m) = {} => Copied(c, m) = FilledSlots(c) /\ Lost(c, m) = {}
         /\ Unmapped(c, m) # {} => Lost(c, m) # {}
<1>1. SlotsOK(c) /\ AddressesOK(c, m)
  BY DEF ContainerOK
<1>2. ASSUME Unmapped(c, m) = {}
      PROVE  Copied(c, m) = FilledSlots(c) /\ Lost(c, m) = {}
  <2>1. Copied(c, m) = FilledSlots(c)
    BY <1>2 DEF Copied
  <2>2. ASSUME NEW a \in Lost(c, m) PROVE FALSE
    <3>1. a \in CellIDs /\ ContentOf(c)[a] # NoElement /\ a \notin MappedCells(m)
      BY DEF Lost
    <3>2. ContentOf(c)[a] \in Elements
      BY <1>1, <3>1, ContentIs DEF Contents
    <3>3. PICK n \in FilledSlots(c) : c.data[n].address = a
      BY <1>1, <3>1, <3>2, ContentIs DEF Holds
    <3>4. PICK x \in Channels(m) : a = CellOf(x)
      BY <1>1, <2>1, <3>3, CopiedTo
    <3>5. QED BY <3>1, <3>4 DEF MappedCells
  <2>3. QED BY <2>1, <2>2
<1>3. ASSUME Unmapped(c, m) # {}
      PROVE  Lost(c, m) # {}
  <2>1. PICK n \in FilledSlots(c) : NewIndex(c, m, n) > MaxIndex(m)
    BY <1>3 DEF Unmapped
  <2> DEFINE a == c.data[n].address
  <2>2. a \in CellIDs /\ ContentOf(c)[a] # NoElement
    BY FilledCells
  <2>3. IndexByCellID(m, a) > MaxIndex(m)
    BY <2>1 DEF NewIndex
  <2> HIDE DEF a
  <2>4. ASSUME a \in MappedCells(m) PROVE FALSE
    <3>1. PICK x \in Channels(m) : a = CellOf(x)
      BY <2>4 DEF MappedCells
    <3>2. a.i = x.i /\ a.j = x.j /\ a.k = x.k
      BY <3>1 DEF CellOf
    <3>3. IndexByCellID(m, a) \in 0..(MaxIndex(m) - 1)
      BY <3>2, CellFound, IndexOfChannel
    <3>4. MaxIndex(m) \in Nat
      BY Sizes
    <3>5. QED BY <2>3, <3>3, <3>4
  <2>5. QED BY <2>2, <2>4 DEF Lost
<1>4. QED BY <1>2, <1>3

-----------------------------------------------------------------------------
(***************************************************************************)
(* A container that has seen the present mapping.                          *)
(***************************************************************************)
Current(c, m) == ContainerOK(c, m) /\ c.live /\ c.mapperVersion = m.version

LEMMA CheckedOK ==
  ASSUME NEW m, MapperOK(m), NEW c, ContainerOK(c, m), c.live
  PROVE  LET k == Checked(c, m)
         IN  /\ Current(k, m)
             /\ Stored(k) \subseteq Stored(c)
             /\ ~CheckThrows(c, m) => ContentOf(k) = ContentOf(c) /\ Lost(c, m) = {}
<1> DEFINE k == Checked(c, m)
<1>1. CASE c.mapperVersion # m.version
  <2>1. k = Refilled(c, m)
    BY <1>1 DEF Checked
  <2> HIDE DEF k
  <2>2. Current(k, m) /\ Stored(k) \subseteq Stored(c)
    BY <2>1, RefilledOK DEF Current
  <2>3. ASSUME ~CheckThrows(c, m)
        PROVE  ContentOf(k) = ContentOf(c) /\ Lost(c, m) = {}
    <3>1. Copied(c, m) = FilledSlots(c) /\ Lost(c, m) = {}
      BY <1>1, <2>3, ThrowsForALoss DEF CheckThrows
    <3>2. \A a, e : Holds(k, a, e) <=> Holds(c, a, e)
      BY <2>1, <3>1, RefilledOK DEF Holds
    <3>3. SlotsOK(k) /\ SlotsOK(c)
      BY <2>2 DEF ContainerOK, Current
    <3>4. ContentOf(k) = ContentOf(c)
      BY <3>2, <3>3, ContentIs, SameContent
    <3>5. QED BY <3>1, <3>4
  <2>4. QED BY <2>2, <2>3 DEF k
<1>2. CASE c.mapperVersion = m.version
  <2>1. k = c
    BY <1>2 DEF Checked
  <2>2. ASSUME NEW a \in Lost(c, m) PROVE FALSE
    <3>1. SlotsOK(c) /\ Placed(c, m)
      BY <1>2 DEF ContainerOK
    <3>2. a \in CellIDs /\ ContentOf(c)[a] # NoElement /\ a \notin MappedCells(m)
      BY DEF Lost
    <3>3. ContentOf(c)[a] \in Elements
      BY <3>1, <3>2, ContentIs DEF Contents
    <3>4. PICK n \in FilledSlots(c) : c.data[n].address = a
      BY <3>1, <3>2, <3>3, ContentIs DEF Holds
    <3>5. PICK x \in Channels(m) : a = CellOf(x)
      BY <3>1, <3>4 DEF Placed
    <3>6. QED BY <3>2, <3>5 DEF MappedCells
  <2>3. QED BY <1>2, <2>1, <2>2 DEF Current
<1>3. QED BY <1>1, <1>2

LEMMA SlotOfChannel ==
  ASSUME NEW m, MapperOK(m), NEW k, Current(k, m), NEW x \in Channels(m)
  PROVE  LET n == CompactIndex(m, x.module, x.chip, x.chan)
         IN  /\ n \in DOMAIN k.data /\ n \in 0..(k.max - 1) /\ n <= k.max
             /\ CellOf(x) \in CellIDs
             /\ ContentOf(k)[CellOf(x)] = k.data[n].element
             /\ \A t \in FilledSlots(k) : k.data[t].address = CellOf(x) <=> t = n
<1> DEFINE n == CompactIndex(m, x.module, x.chip, x.chan)
           a == CellOf(x)
<1>1. SlotsOK(k) /\ Placed(k, m)
  BY DEF Current, ContainerOK
<1>2. n \in 0..(k.max - 1) /\ n \in DOMAIN k.data /\ n <= k.max
  <2>1. n \in 0..(MaxIndex(m) - 1) /\ k.max = MaxIndex(m) /\ MaxIndex(m) \in Nat
    BY <1>1, IndexOfChannel, Sizes DEF Placed
  <2> HIDE DEF n
  <2>2. QED BY <1>1, <2>1 DEF SlotsOK
<1>3. a \in CellIDs
  BY ChannelRanges
<1>4. ASSUME NEW t \in FilledSlots(k)
      PROVE  k.data[t].address = a <=> t = n
  <2>1. PICK y \in Channels(m) : /\ k.data[t].address = CellOf(y)
                                 /\ t = CompactIndex(m, y.module, y.chip, y.chan)
    BY <1>1 DEF Placed
  <2>2. CellOf(y) = a => y = x
    BY ChannelsUnique
  <2>3. t = n => y = x
    BY <2>1, IndexUnique
  <2>4. QED BY <2>1, <2>2, <2>3
<1> HIDE DEF n, a
<1>5. ContentOf(k)[a] = k.data[n].element
  <2>1. CASE n \in FilledSlots(k)
    BY <1>4, <2>1, FilledCells DEF Current
  <2>2. CASE n \notin FilledSlots(k)
    <3>1. k.data[n].element = NoElement
      BY <1>2, <2>2 DEF FilledSlots
    <3>2. \A e \in Elements : ~Holds(k, a, e)
      BY <1>4, <2>2 DEF Holds
    <3>3. ContentOf(k)[a] = NoElement
      BY <1>1, <1>3, <3>2, ContentIs DEF Contents
    <3>4. QED BY <3>1, <3>3
  <2>3. QED BY <2>1, <2>2
<1>6. QED BY <1>2, <1>3, <1>4, <1>5 DEF n, a

\* What is read at the index asked for is the element of the cell meant.
ElementAt(f, a) == IF a \in {b \in CellIDs : f[b] # NoElement} THEN {f[a]} ELSE {}

LEMMA Answered ==
  ASSUME NEW m, MapperOK(m), NEW k, Current(k, m),
         NEW id \in CellIDs \union ModuleIDs, InRange(m, id)
  PROVE  /\ GetByIndex(k, Index(m, id)) = ElementAt(ContentOf(k), Meant(m, id))
         /\ GetByIndex(k, Index(m, id)) \subseteq Stored(k)
<1> DEFINE n == Index(m, id)
           a == Meant(m, id)
<1>1. CASE \E x \in Channels(m) : n = CompactIndex(m, x.module, x.chip, x.chan) /\ a = CellOf(x)
  <2>1. PICK x \in Channels(m) : n = CompactIndex(m, x.module, x.chip, x.chan) /\ a = CellOf(x)
    BY <1>1
  <2> HIDE DEF n, a
  <2>2. /\ n \in DOMAIN k.data /\ n \in 0..(k.max - 1) /\ n <= k.max /\ a \in CellIDs
        /\ ContentOf(k)[a] = k.data[n].element
    BY <2>1, SlotOfChannel
  <2>3. k.max \in Nat
    BY DEF Current, ContainerOK, SlotsOK
  <2>4. GetByIndex(k, n) = {k.data[n].element} \ {NoElement}
    BY <2>2, <2>3 DEF GetByIndex
  <2>5. QED BY <2>2, <2>4 DEF ElementAt, Stored, FilledSlots, n, a
<1>2. CASE n = NoIndex(m) /\ a \in (CellIDs \union {NoCell}) \ MappedCells(m)
  <2> HIDE DEF n, a
  <2>1. n > k.max /\ ~(n <= k.max)
    <3>1. k.max = MaxIndex(m) /\ MaxIndex(m) \in Nat
      BY Sizes DEF Current, ContainerOK, Placed
    <3>2. QED BY <1>2, <3>1 DEF NoIndex
  <2>2. GetByIndex(k, n) = {}
    BY <2>1 DEF GetByIndex
  <2>3. ASSUME a \in CellIDs, ContentOf(k)[a] # NoElement PROVE FALSE
    <3>1. Lost(k, m) = {}
      <4>1. Checked(k, m) = k /\ ~CheckThrows(k, m)
        BY DEF Checked, CheckThrows, Current
      <4>2. QED BY <4>1, CheckedOK DEF Current
    <3>2. QED BY <1>2, <2>3, <3>1 DEF Lost
  <2>4. QED BY <2>2, <2>3 DEF ElementAt, n, a
<1>3. QED BY <1>1, <1>2, IndexMeans

-----------------------------------------------------------------------------
(***************************************************************************)
(* What the calls do to such a container.                                  *)
(***************************************************************************)
LEMMA FillOK ==
  ASSUME NEW m, MapperOK(m), NEW k, Current(k, m), NEW x \in Channels(m),
         NEW e \in Elements, e \notin Stored(k),
         NEW n, n = CompactIndex(m, x.module, x.chip, x.chan),
         k.data[n].element = NoElement
  PROVE  LET f == FilledByIndex(k, m, n, e)
         IN  /\ ContainerOK(f, m)
             /\ Stored(f) = Stored(k) \union {e}
             /\ ContentOf(f) = [ContentOf(k) EXCEPT ![CellOf(x)] = e]
<1> DEFINE f == FilledByIndex(k, m, n, e)
           a == CellOf(x)
           slot == [address |-> a, element |-> e]
<1>1. SlotsOK(k) /\ AddressesOK(k, m) /\ Placed(k, m) /\ k.live /\ k.mapperVersion <= m.version
  BY DEF Current, ContainerOK
<1>2. /\ n \in DOMAIN k.data /\ n \in 0..(k.max - 1) /\ a \in CellIDs
      /\ \A t \in FilledSlots(k) : k.data[t].address = a <=> t = n
  BY SlotOfChannel
<1>3. a.i < m.nI /\ e # NoElement
  <2>1. x.i \in 0..(m.nI - 1) /\ m.nI \in Nat
    BY ChannelRanges, Sizes
  <2>2. a.i = x.i
    BY DEF CellOf
  <2>3. QED BY <2>1, <2>2, CellAssumption DEF CellAssumption
<1>4. f = [live |-> k.live, data |-> [k.data EXCEPT ![n] = slot], max |-> k.max,
           mapperVersion |-> k.mapperVersion]
  <2>1. CellIDOfIndex(m, n) = a
    BY ChannelOfIndex
  <2>2. k = [live |-> k.live, data |-> k.data, max |-> k.max,
             mapperVersion |-> k.mapperVersion]
    BY <1>1 DEF SlotsOK
  <2>3. f = [k EXCEPT !.data[n] = slot]
    BY <2>1 DEF FilledByIndex
  <2> HIDE DEF slot, f
  <2>4. QED BY <2>2, <2>3
<1>5. slot \in Slots /\ slot.address = a /\ slot.element = e
  BY <1>2 DEF Slots
<1> HIDE DEF f, slot, a
<1>6. /\ f.data \in [0..(k.max - 1) -> Slots] /\ f.data[n] = slot
      /\ \A t \in 0..(k.max - 1) : t # n => f.data[t] = k.data[t]
      /\ DOMAIN f.data = DOMAIN k.data
  BY <1>1, <1>2, <1>4, <1>5 DEF SlotsOK
<1>7. FilledSlots(f) = FilledSlots(k) \union {n} /\ n \notin FilledSlots(k)
  BY <1>1, <1>2, <1>3, <1>5, <1>6 DEF FilledSlots, SlotsOK
<1>8. \A t \in FilledSlots(k) : /\ f.data[t] = k.data[t] /\ k.data[t].element # e
                                /\ k.data[t].address # a
  <2>1. ASSUME NEW t \in FilledSlots(k)
        PROVE  f.data[t] = k.data[t] /\ k.data[t].element # e /\ k.data[t].address # a
    <3>1. t \in 0..(k.max - 1) /\ t # n
      BY <1>1, <1>7, ElementsFilled
    <3>2. k.data[t].element \in Stored(k)
      BY DEF Stored
    <3>3. QED BY <1>2, <1>6, <3>1, <3>2
  <2>2. QED BY <2>1
<1>9. SlotsOK(f)
  <2>1. ASSUME NEW t1 \in FilledSlots(f), NEW t2 \in FilledSlots(f),
               \/ f.data[t1].address = f.data[t2].address
               \/ f.data[t1].element = f.data[t2].element
        PROVE  t1 = t2
    BY <1>1, <1>5, <1>6, <1>7, <1>8, <2>1 DEF SlotsOK
  <2>2. f.live = k.live /\ f.max = k.max /\ f.mapperVersion = k.mapperVersion
    BY <1>4
  <2>3. f = [live |-> f.live, data |-> f.data, max |-> f.max,
             mapperVersion |-> f.mapperVersion]
    BY <1>4
  <2>4. QED BY <1>1, <1>6, <2>1, <2>2, <2>3 DEF SlotsOK
<1>10. AddressesOK(f, m)
  BY <1>1, <1>2, <1>3, <1>5, <1>6, <1>7, <1>8 DEF AddressesOK
<1>11. Placed(f, m)
  <2>1. ASSUME NEW t \in FilledSlots(f)
        PROVE  \E y \in Channels(m) : /\ f.data[t].address = CellOf(y)
                                      /\ t = CompactIndex(m, y.module, y.chip, y.chan)
    <3>1. CASE t = n
      BY <1>5, <1>6, <3>1 DEF a
    <3>2. CASE t \in FilledSlots(k)
      BY <1>1, <1>8, <3>2 DEF Placed
    <3>3. QED BY <1>7, <3>1, <3>2
  <2>2. f.max = MaxIndex(m)
    BY <1>1, <1>4 DEF Placed
  <2>3. QED BY <2>1, <2>2 DEF Placed
<1>12. ContainerOK(f, m)
  BY <1>1, <1>4, <1>9, <1>10, <1>11 DEF ContainerOK
<1>13. Stored(f) = Stored(k) \union {e}
  BY <1>5, <1>6, <1>7, <1>8 DEF Stored
<1>14. ContentOf(f) = [ContentOf(k) EXCEPT ![a] = e]
  <2> DEFINE g == [ContentOf(k) EXCEPT ![a] = e]
  <2>1. ContentOf(k) \in Contents /\ ContentOf(f) \in Contents
    BY <1>1, <1>9, ContentIs
  <2>2. g \in Contents /\ \A b \in CellIDs : g[b] = IF b = a THEN e ELSE ContentOf(k)[b]
    BY <2>1, <1>2 DEF Contents
  <2> HIDE DEF g
  <2>3. ASSUME NEW b \in CellIDs, NEW d \in Elements
        PROVE  ContentOf(f)[b] = d <=> g[b] = d
    <3>1. ContentOf(f)[b] = d <=> Holds(f, b, d)
      BY <1>9, ContentIs
    <3>2. ContentOf(k)[b] = d <=> Holds(k, b, d)
      BY <1>1, ContentIs
    <3>3. CASE b = a
      <4>1. Holds(f, b, d) <=> d = e
        BY <1>5, <1>6, <1>7, <1>8, <3>3 DEF Holds
      <4>2. QED BY <2>2, <3>1, <3>3, <4>1
    <3>4. CASE b # a
      <4>1. Holds(f, b, d) <=> Holds(k, b, d)
        BY <1>5, <1>6, <1>7, <1>8, <3>4 DEF Holds
      <4>2. QED BY <2>2, <3>1, <3>2, <3>4, <4>1
    <3>5. QED BY <3>3, <3>4
  <2>4. QED BY <2>1, <2>2, <2>3, SameContent DEF g
<1>15. QED BY <1>12, <1>13, <1>14 DEF f, a

\* Fewer entries: some slots emptied.
LEMMA FewerOK ==
  ASSUME NEW m, MapperOK(m), NEW k, Current(k, m), NEW n
  PROVE  LET w == WithoutIndex(k, n)
         IN  /\ ContainerOK(w, m)
             /\ FilledSlots(w) = FilledSlots(k) \ {n}
             /\ \A t \in FilledSlots(w) : w.data[t] = k.data[t]
<1> DEFINE w == WithoutIndex(k, n)
           data == [t \in DOMAIN k.data |-> IF t = n THEN EmptySlot ELSE k.data[t]]
<1>1. SlotsOK(k) /\ AddressesOK(k, m) /\ Placed(k, m) /\ k.live /\ k.mapperVersion <= m.version
  BY DEF Current, ContainerOK
<1>2. w = [live |-> k.live, data |-> data, max |-> k.max, mapperVersion |-> k.mapperVersion]
  <2>1. k = [live |-> k.live, data |-> k.data, max |-> k.max,
             mapperVersion |-> k.mapperVersion]
    BY <1>1 DEF SlotsOK
  <2>2. w = [k EXCEPT !.data = data]
    BY DEF WithoutIndex
  <2> HIDE DEF w, data
  <2>3. QED BY <2>1, <2>2
<1>3. EmptySlot \in Slots /\ EmptySlot.element = NoElement
  BY DEF EmptySlot, Slots
<1>4. /\ w.data \in [0..(k.max - 1) -> Slots]
      /\ DOMAIN w.data = DOMAIN k.data
      /\ \A t \in DOMAIN k.data : w.data[t] = IF t = n THEN EmptySlot ELSE k.data[t]
  BY <1>1, <1>2, <1>3 DEF SlotsOK
<1>5. /\ w.live = k.live /\ w.max = k.max /\ w.mapperVersion = k.mapperVersion
      /\ w = [live |-> w.live, data |-> w.data, max |-> w.max,
              mapperVersion |-> w.mapperVersion]
  BY <1>2
<1> HIDE DEF w, data
<1>6. /\ FilledSlots(w) = FilledSlots(k) \ {n}
      /\ \A t \in FilledSlots(w) : w.data[t] = k.data[t]
  BY <1>3, <1>4 DEF FilledSlots
<1>7. SlotsOK(w)
  BY <1>1, <1>4, <1>5, <1>6 DEF SlotsOK
<1>8. AddressesOK(w, m)
  BY <1>1, <1>6 DEF AddressesOK
<1>9. Placed(w, m)
  BY <1>1, <1>5, <1>6 DEF Placed
<1>10. ContainerOK(w, m)
  BY <1>1, <1>5, <1>7, <1>8, <1>9 DEF ContainerOK
<1>11. QED BY <1>6, <1>10 DEF w

LEMMA WithoutOK ==
  ASSUME NEW m, MapperOK(m), NEW k, Current(k, m),
         NEW id \in CellIDs \union ModuleIDs, InRange(m, id)
  PROVE  LET n == Index(m, id)
             w == WithoutIndex(k, n)
         IN  /\ ContainerOK(w, m)
             /\ Stored(w) = Stored(k) \ GetByIndex(k, n)
             /\ ContentOf(w) = [a \in CellIDs |-> IF a = Meant(m, id) THEN NoElement
                                                  ELSE ContentOf(k)[a]]
<1> DEFINE n == Index(m, id)
           a == Meant(m, id)
           w == WithoutIndex(k, n)
           g == [b \in CellIDs |-> IF b = a THEN NoElement ELSE ContentOf(k)[b]]
<1>1. SlotsOK(k)
  BY DEF Current, ContainerOK
<1>2. /\ ContainerOK(w, m)
      /\ FilledSlots(w) = FilledSlots(k) \ {n}
      /\ \A t \in FilledSlots(w) : w.data[t] = k.data[t]
  BY FewerOK
<1>3. SlotsOK(w)
  BY <1>2 DEF ContainerOK
\* The entry at the index is the one of the cell.
<1>4. \A t \in FilledSlots(k) : k.data[t].address = a <=> t = n
  <2>1. CASE \E x \in Channels(m) : n = CompactIndex(m, x.module, x.chip, x.chan) /\ a = CellOf(x)
    BY <2>1, SlotOfChannel
  <2>2. CASE n = NoIndex(m) /\ a \notin MappedCells(m)
    <3>1. ASSUME NEW t \in FilledSlots(k)
          PROVE  k.data[t].address # a /\ t # n
      <4>1. PICK y \in Channels(m) : /\ k.data[t].address = CellOf(y)
                                     /\ t = CompactIndex(m, y.module, y.chip, y.chan)
        BY DEF Current, ContainerOK, Placed
      <4>2. k.data[t].address # a
        BY <2>2, <4>1 DEF MappedCells
      <4>3. t \in 0..(MaxIndex(m) - 1) /\ MaxIndex(m) \in Nat
        BY <4>1, IndexOfChannel, Sizes
      <4>4. QED BY <2>2, <4>2, <4>3 DEF NoIndex
    <3>2. QED BY <3>1
  <2>3. QED BY <2>1, <2>2, IndexMeans
<1>5. GetByIndex(k, n) = ElementAt(ContentOf(k), a)
  BY Answered
<1> HIDE DEF n, a, w
<1>6. ContentOf(k) \in Contents /\ ContentOf(w) \in Contents
  BY <1>1, <1>3, ContentIs
<1>7. g \in Contents /\ \A b \in CellIDs : g[b] = IF b = a THEN NoElement ELSE ContentOf(k)[b]
  BY <1>6 DEF Contents
<1> HIDE DEF g
<1>8. ContentOf(w) = g
  <2>1. ASSUME NEW b \in CellIDs, NEW d \in Elements
        PROVE  ContentOf(w)[b] = d <=> g[b] = d
    <3>1. ContentOf(w)[b] = d <=> Holds(w, b, d)
      BY <1>3, ContentIs
    <3>2. ContentOf(k)[b] = d <=> Holds(k, b, d)
      BY <1>1, ContentIs
    <3>3. CASE b = a
      <4>1. ~Holds(w, b, d)
        BY <1>2, <1>4, <3>3 DEF Holds
      <4>2. d # NoElement
        BY CellAssumption DEF CellAssumption
      <4>3. QED BY <1>7, <3>1, <3>3, <4>1, <4>2
    <3>4. CASE b # a
      <4>1. Holds(w, b, d) <=> Holds(k, b, d)
        BY <1>2, <1>4, <3>4 DEF Holds
      <4>2. QED BY <1>7, <3>1, <3>2, <3>4, <4>1
    <3>5. QED BY <3>3, <3>4
  <2>2. QED BY <1>6, <1>7, <2>1, SameContent
<1>9. Stored(w) = Stored(k) \ GetByIndex(k, n)
  <2>1. \A t \in FilledSlots(k) :
          k.data[t].element \in GetByIndex(k, n) <=> t = n
    <3>1. ASSUME NEW t \in FilledSlots(k)
          PROVE  k.data[t].element \in GetByIndex(k, n) <=> t = n
      <4>1. /\ k.data[t].address \in CellIDs
            /\ ContentOf(k)[k.data[t].address] = k.data[t].element
            /\ k.data[t].element # NoElement /\ k.data[t].element \in Elements
        BY <1>1, FilledCells, ElementsFilled DEF Current
      <4>2. CASE t = n
        BY <1>4, <1>5, <4>1, <4>2 DEF ElementAt
      <4>3. ASSUME k.data[t].element \in GetByIndex(k, n)
            PROVE  t = n
        <5>1. a \in CellIDs /\ ContentOf(k)[a] = k.data[t].element
          BY <1>5, <4>3 DEF ElementAt
        <5>2. PICK s \in FilledSlots(k) : /\ k.data[s].address = a
                                          /\ k.data[s].element = k.data[t].element
          BY <1>1, <4>1, <5>1, ContentIs DEF Holds
        <5>3. s = t
          BY <1>1, <5>2 DEF SlotsOK
        <5>4. QED BY <1>4, <5>2, <5>3
      <4>4. QED BY <4>2, <4>3
    <3>2. QED BY <3>1
  <2>2. QED BY <1>2, <2>1 DEF Stored
<1>10. QED BY <1>2, <1>8, <1>9 DEF n, a, w, g

LEMMA EmptyOK ==
  ASSUME NEW m, MapperOK(m), NEW c, NEW size \in Nat,
         c = [live |-> c.live, data |-> Blank(size), max |-> size,
              mapperVersion |-> c.mapperVersion],
         c.live \in BOOLEAN, c.mapperVersion \in Nat, c.mapperVersion <= m.version,
         c.live => size = MaxIndex(m)
  PROVE  /\ ContainerOK(c, m)
         /\ Stored(c) = {}
         /\ ContentOf(c) = [a \in CellIDs |-> NoElement]
<1>1. c.data = Blank(size) /\ c.max = size
  OBVIOUS
<1>2. EmptySlot \in Slots /\ EmptySlot.element = NoElement
  BY DEF EmptySlot, Slots
<1>3. FilledSlots(c) = {} /\ c.data \in [0..(size - 1) -> Slots]
  BY <1>1, <1>2 DEF FilledSlots, Blank
<1>4. SlotsOK(c)
  BY <1>1, <1>3 DEF SlotsOK
<1>5. ContainerOK(c, m)
  BY <1>1, <1>3, <1>4 DEF ContainerOK, AddressesOK, Placed
<1>6. ContentOf(c) = [a \in CellIDs |-> NoElement]
  BY <1>3 DEF ContentOf
<1>7. QED BY <1>3, <1>5, <1>6 DEF Stored

\* A change of the mapping leaves the entries where they are; the addresses
\* stay good because the width does not shrink.
LEMMA MappingChanged ==
  ASSUME NEW m, MapperOK(m), NEW c, ContainerOK(c, m), NEW f, MapperOK(f),
         f.version > m.version, m.nI = 1 \/ f.nI = m.nI
  PROVE  ContainerOK(c, f)
<1>1. SlotsOK(c) /\ c.mapperVersion \in Nat /\ m.version \in Nat /\ f.version \in Nat
  BY DEF ContainerOK, SlotsOK, MapperOK
<1>2. c.mapperVersion <= f.version /\ c.mapperVersion # f.version
  BY <1>1 DEF ContainerOK
<1>3. f.nI \in Nat \ {0}
  BY Sizes
<1>4. AddressesOK(c, f)
  <2>1. ASSUME NEW n \in FilledSlots(c)
        PROVE  c.data[n].address \in CellIDs /\ c.data[n].address.i < f.nI
    <3> DEFINE a == c.data[n].address
    <3>1. a \in CellIDs /\ a.i < m.nI
      BY DEF ContainerOK, AddressesOK
    <3> HIDE DEF a
    <3>2. a.i \in Nat
      BY <3>1, CellAssumption DEF CellAssumption
    <3>3. QED BY <1>3, <3>1, <3>2 DEF a
  <2>2. QED BY <2>1 DEF AddressesOK
<1>5. QED BY <1>1, <1>2, <1>4 DEF ContainerOK

LEMMA DeletedOK ==
  ASSUME deletes \in [Elements -> Nat], NEW S, \A e \in Elements : deletes[e] <= 1,
         \A e \in S : deletes[e] = 0
  PROVE  /\ Deleted(S) \in [Elements -> Nat]
         /\ \A e \in Elements : Deleted(S)[e] <= 1
         /\ \A e \in Elements : e \notin S => Deleted(S)[e] = deletes[e]
<1>1. ASSUME NEW e \in Elements
      PROVE  /\ Deleted(S)[e] \in Nat /\ Deleted(S)[e] <= 1
             /\ e \notin S => Deleted(S)[e] = deletes[e]
  <2>1. Deleted(S)[e] = IF DeleteElements /\ e \in S THEN deletes[e] + 1 ELSE deletes[e]
    BY DEF Deleted
  <2>2. deletes[e] \in Nat /\ deletes[e] <= 1 /\ (e \in S => deletes[e] = 0)
    OBVIOUS
  <2>3. QED BY <2>1, <2>2
<1>2. QED BY <1>1 DEF Deleted

-----------------------------------------------------------------------------
(***************************************************************************)
(* The invariant, where all descriptions have one width and callers ask    *)
(* for what the mapping has room for.                                      *)
(***************************************************************************)
WidthOK(m) == m.nI = 1 \/ \A d \in Descriptions : m.nI = Largest(Columns(d)) + 1

Owners ==
  /\ deletes \in [Elements -> Nat]
  /\ handed \subseteq Elements
  /\ OwnedOnce

ContainerInv ==
  /\ MapperOK(mapper) /\ WidthOK(mapper)
  /\ ContainerOK(container, mapper)
  /\ Owners

LEMMA StoredElements ==
  ASSUME NEW c, SlotsOK(c)
  PROVE  Stored(c) \subseteq Elements
BY ElementsFilled DEF Stored

LEMMA InvInit == Init => ContainerInv
<1> SUFFICES ASSUME Init PROVE ContainerInv
  OBVIOUS
<1>1. MapperOK(mapper) /\ WidthOK(mapper) /\ mapper.version = 0
  BY NoMappingOK DEF Init, NoMapping, WidthOK
<1>2. ContainerOK(container, mapper) /\ Stored(container) = {}
  <2>1. /\ container = [live |-> container.live, data |-> Blank(0), max |-> 0,
                        mapperVersion |-> container.mapperVersion]
        /\ container.live = FALSE /\ container.mapperVersion = 0
    BY DEF Init
  <2>2. container.mapperVersion \in Nat /\ container.mapperVersion <= mapper.version
    BY <1>1, <2>1
  <2>3. QED BY <1>1, <2>1, <2>2, EmptyOK
<1>3. Owners
  <2>1. deletes = [e \in Elements |-> 0] /\ handed = {}
    BY DEF Init
  <2>2. QED BY <1>2, <2>1 DEF Owners, OwnedOnce
<1>4. QED BY <1>1, <1>2, <1>3 DEF ContainerInv

\* What the steps that ask for an identifier begin with.
LEMMA Asked ==
  ASSUME OutOfRange = FALSE, ContainerInv, NEW id \in CellIDs \union ModuleIDs, Askable(id)
  PROVE  /\ InRange(mapper, id) /\ answer = NoAnswer
         /\ Current(Checked(container, mapper), mapper)
         /\ Stored(Checked(container, mapper)) \subseteq Stored(container)
         /\ ~CheckThrows(container, mapper) =>
              /\ ContentOf(Checked(container, mapper)) = ContentOf(container)
              /\ Lost(container, mapper) = {}
BY CheckedOK DEF ContainerInv, Askable, Idle

\* Where an element may be put the cell is mapped and has none.
LEMMA FreeCell ==
  ASSUME NEW m, MapperOK(m), NEW k, Current(k, m),
         NEW id \in CellIDs \union ModuleIDs, InRange(m, id)
  PROVE  LET n == Index(m, id)
             a == Meant(m, id)
         IN  /\ (n \in DOMAIN k.data /\ k.data[n].element = NoElement)
                  <=> a \in MappedCells(m) \ {b \in CellIDs : ContentOf(k)[b] # NoElement}
             /\ n \in DOMAIN k.data => \E x \in Channels(m) :
                  n = CompactIndex(m, x.module, x.chip, x.chan) /\ a = CellOf(x)
<1> DEFINE n == Index(m, id)
           a == Meant(m, id)
<1>1. CASE \E x \in Channels(m) : n = CompactIndex(m, x.module, x.chip, x.chan) /\ a = CellOf(x)
  <2>1. PICK x \in Channels(m) : n = CompactIndex(m, x.module, x.chip, x.chan) /\ a = CellOf(x)
    BY <1>1
  <2>2. n \in DOMAIN k.data /\ a \in CellIDs /\ ContentOf(k)[a] = k.data[n].element
    BY <2>1, SlotOfChannel
  <2>3. a \in MappedCells(m)
    BY <2>1 DEF MappedCells
  <2>4. QED BY <1>1, <2>2, <2>3
<1>2. CASE n = NoIndex(m) /\ a \notin MappedCells(m)
  <2>1. DOMAIN k.data = 0..(MaxIndex(m) - 1) /\ MaxIndex(m) \in Nat
    BY Sizes DEF Current, ContainerOK, SlotsOK, Placed
  <2>2. n \notin DOMAIN k.data
    BY <1>2, <2>1 DEF NoIndex
  <2>3. QED BY <1>2, <2>2
<1>3. QED BY <1>1, <1>2, IndexMeans

LEMMA InvNext ==
  ASSUME SameWidth, OutOfRange = FALSE, ContainerInv, [Next]_vars
  PROVE  ContainerInv'
<1> USE DEF ContainerInv
<1> DEFINE k == Checked(container, mapper)
<1>1. /\ MapperOK(mapper) /\ WidthOK(mapper) /\ ContainerOK(container, mapper) /\ Owners
      /\ mapper.version \in Nat /\ SlotsOK(container)
      /\ container.live \in BOOLEAN /\ container.mapperVersion \in Nat
      /\ container.mapperVersion <= mapper.version
      /\ Stored(container) \subseteq Elements
      /\ container = [live |-> container.live, data |-> container.data,
                      max |-> container.max, mapperVersion |-> container.mapperVersion]
  BY StoredElements DEF MapperOK, ContainerOK, SlotsOK
<1>2. ASSUME NEW f, mapper' = f, MapperOK(f), WidthOK(f), f.version > mapper.version,
             mapper.nI = 1 \/ f.nI = mapper.nI, UNCHANGED <<container, deletes, handed>>
      PROVE  ContainerInv'
  <2>1. ContainerOK(container, f)
    BY <1>1, <1>2, MappingChanged
  <2>2. Owners'
    BY <1>1, <1>2 DEF Owners, OwnedOnce, Stored, FilledSlots
  <2>3. QED BY <1>2, <2>1, <2>2
<1>3. ASSUME NEW d \in Descriptions, NEW x \in Connections, FillMapper(d, x)
      PROVE  ContainerInv'
  <2> DEFINE f == FillModuleConnection(FillModuleDescription(mapper, d), x)
  <2>1. /\ MapperOK(f) /\ f.version = mapper.version + 2
        /\ f.nI = Largest(Columns(d)) + 1
    BY <1>1, MapperFilled
  <2>2. mapper' = f /\ UNCHANGED <<container, deletes, handed>>
    BY <1>3 DEF FillMapper
  <2> HIDE DEF f
  <2>3. WidthOK(f) /\ (mapper.nI = 1 \/ f.nI = mapper.nI)
    BY <1>1, <2>1 DEF SameWidth, WidthOK
  <2>4. QED BY <1>1, <1>2, <2>1, <2>2, <2>3
<1>4. ASSUME NEW x \in Connections, UpdateConnections(x)
      PROVE  ContainerInv'
  <2> DEFINE f == FillModuleConnection(mapper, x)
  <2>1. MapperOK(f) /\ f.version = mapper.version + 1 /\ f.nI = mapper.nI
    BY <1>1, ConnectionsFilled
  <2>2. mapper' = f /\ UNCHANGED <<container, deletes, handed>>
    BY <1>4 DEF UpdateConnections
  <2> HIDE DEF f
  <2>3. WidthOK(f)
    BY <1>1, <2>1 DEF WidthOK
  <2>4. QED BY <1>1, <1>2, <2>1, <2>2, <2>3
\* The container is empty afterwards.
<1>5. ASSUME ContainerOK(container', mapper), Stored(container') = {}, UNCHANGED <<mapper, handed>>,
             deletes' = deletes \/ deletes' = Deleted(Stored(container))
      PROVE  ContainerInv'
  <2>1. Deleted(Stored(container)) \in [Elements -> Nat]
    BY <1>1, DeletedOK DEF Owners, OwnedOnce
  <2>2. /\ \A e \in Elements : Deleted(Stored(container))[e] <= 1
        /\ \A e \in Elements : e \notin Stored(container)
             => Deleted(Stored(container))[e] = deletes[e]
    BY <1>1, DeletedOK DEF Owners, OwnedOnce
  <2>3. /\ deletes' \in [Elements -> Nat] /\ \A e \in Elements : deletes'[e] <= 1
        /\ \A e \in Elements : e \notin Stored(container) => deletes'[e] = deletes[e]
    BY <1>1, <1>5, <2>1, <2>2 DEF Owners, OwnedOnce
  <2>4. \A e \in handed : e \in Elements /\ e \notin Stored(container) /\ deletes[e] = 0
    BY <1>1 DEF Owners, OwnedOnce
  <2>5. handed' = handed
    BY <1>5
  <2>6. OwnedOnce'
    BY <1>5, <2>3, <2>4, <2>5 DEF OwnedOnce
  <2>7. Owners'
    BY <1>1, <2>3, <2>5, <2>6 DEF Owners
  <2>8. (MapperOK(mapper) /\ WidthOK(mapper) /\ ContainerOK(container, mapper))'
    BY <1>1, <1>5
  <2>9. QED BY <2>7, <2>8
<1>6. CASE Construct
  <2>1. /\ container' = [live |-> container'.live, data |-> Blank(MaxIndex(mapper)),
                         max |-> MaxIndex(mapper), mapperVersion |-> container'.mapperVersion]
        /\ container'.live = TRUE /\ container'.mapperVersion = mapper.version
        /\ UNCHANGED <<mapper, handed, deletes>>
    BY <1>6 DEF Construct
  <2>2. MaxIndex(mapper) \in Nat
    BY <1>1, Sizes
  <2>3. container'.mapperVersion \in Nat /\ container'.mapperVersion <= mapper.version
    <3>1. container'.mapperVersion = mapper.version
      BY <2>1
    <3>2. QED BY <1>1, <3>1
  <2>4. ContainerOK(container', mapper) /\ Stored(container') = {}
    BY <1>1, <2>1, <2>2, <2>3, EmptyOK
  <2>5. QED BY <1>5, <2>1, <2>4
<1>7. CASE Destroy
  <2>1. /\ container' = [live |-> container'.live, data |-> Blank(0),
                         max |-> 0, mapperVersion |-> container'.mapperVersion]
        /\ container'.live = FALSE /\ container'.mapperVersion = container.mapperVersion
        /\ UNCHANGED <<mapper, handed>> /\ deletes' = Deleted(Stored(container))
    BY <1>1, <1>7 DEF Destroy, Emptied
  <2>2. ContainerOK(container', mapper) /\ Stored(container') = {}
    BY <1>1, <2>1, EmptyOK
  <2>3. QED BY <1>5, <2>1, <2>2
<1>8. CASE Clear
  <2>1. /\ container' = [live |-> container'.live, data |-> Blank(MaxIndex(mapper)),
                         max |-> MaxIndex(mapper), mapperVersion |-> container'.mapperVersion]
        /\ container'.live = TRUE /\ container'.mapperVersion = container.mapperVersion
        /\ UNCHANGED <<mapper, handed>> /\ deletes' = Deleted(Stored(container))
    BY <1>1, <1>8 DEF Clear, Emptied
  <2>2. MaxIndex(mapper) \in Nat
    BY <1>1, Sizes
  <2>3. ContainerOK(container', mapper) /\ Stored(container') = {}
    BY <1>1, <2>1, <2>2, EmptyOK
  <2>4. QED BY <1>5, <2>1, <2>3
\* The container keeps the same elements or fewer.
<1>9. ASSUME ContainerOK(container', mapper), Stored(container') \subseteq Stored(container),
             UNCHANGED <<mapper, handed, deletes>>
      PROVE  ContainerInv'
  <2>1. OwnedOnce'
    BY <1>1, <1>9 DEF Owners, OwnedOnce
  <2>2. Owners'
    BY <1>1, <1>9, <2>1 DEF Owners
  <2>3. (MapperOK(mapper) /\ WidthOK(mapper) /\ ContainerOK(container, mapper))'
    BY <1>1, <1>9
  <2>4. QED BY <2>2, <2>3
<1>10. ASSUME NEW op, NEW id \in CellIDs \union ModuleIDs, Throw(op, id)
       PROVE  ContainerInv'
  BY <1>1, <1>9, <1>10, RefilledOK DEF Throw
<1>11. ASSUME NEW id \in CellIDs \union ModuleIDs, Get(id)
       PROVE  ContainerInv'
  <2>1. Askable(id)
    BY <1>11 DEF Get
  <2>2. Current(k, mapper) /\ Stored(k) \subseteq Stored(container)
    BY <2>1, Asked
  <2>3. container' = k /\ UNCHANGED <<mapper, handed, deletes>>
    BY <1>11 DEF Get
  <2> HIDE DEF k
  <2>4. QED BY <1>9, <2>2, <2>3 DEF Current
<1>12. ASSUME NEW id \in CellIDs \union ModuleIDs, NEW e \in Elements, Fill(id, e)
       PROVE  ContainerInv'
  <2> DEFINE n == Index(mapper, id)
             free == n \in DOMAIN k.data /\ k.data[n].element = NoElement
  <2>1. Askable(id) /\ e \notin Stored(container) /\ mapper' = mapper
    BY <1>12 DEF Fill
  <2>2. InRange(mapper, id) /\ Current(k, mapper) /\ Stored(k) \subseteq Stored(container)
    BY <2>1, Asked
  <2>3. CASE free
    <3>1. /\ container' = FilledByIndex(k, mapper, n, e)
          /\ deletes' = [deletes EXCEPT ![e] = 0]
          /\ handed' = handed \ {e}
      BY <1>12, <2>3 DEF Fill
    <3>2. PICK x \in Channels(mapper) : n = CompactIndex(mapper, x.module, x.chip, x.chan)
      BY <1>1, <2>2, <2>3, FreeCell
    <3> HIDE DEF k, n
    <3>3. /\ ContainerOK(container', mapper)
          /\ Stored(container') = Stored(k) \union {e}
      BY <1>1, <2>1, <2>2, <2>3, <3>1, <3>2, FillOK
    <3>4. Owners'
      <4>1. /\ deletes' \in [Elements -> Nat] /\ deletes'[e] = 0
            /\ \A d \in Elements : d # e => deletes'[d] = deletes[d]
            /\ handed' \subseteq Elements
        BY <1>1, <3>1 DEF Owners
      <4>2. OwnedOnce'
        BY <1>1, <2>1, <2>2, <3>1, <3>3, <4>1 DEF Owners, OwnedOnce
      <4>3. QED BY <4>1, <4>2 DEF Owners
    <3>5. QED BY <1>1, <2>1, <3>3, <3>4
  <2>4. CASE ~free
    <3>1. container' = k /\ UNCHANGED <<deletes, handed>>
      BY <1>12, <2>4 DEF Fill
    <3> HIDE DEF k
    <3>2. QED BY <1>9, <2>1, <2>2, <3>1 DEF Current
  <2>5. QED BY <2>3, <2>4
<1>13. ASSUME NEW id \in CellIDs \union ModuleIDs, Askable(id)
       PROVE  LET n == Index(mapper, id)
                  w == WithoutIndex(k, n)
              IN  /\ ContainerOK(w, mapper)
                  /\ GetByIndex(k, n) \subseteq Stored(container)
                  /\ Stored(w) \subseteq Stored(container) \ GetByIndex(k, n)
  <2>1. InRange(mapper, id) /\ Current(k, mapper) /\ Stored(k) \subseteq Stored(container)
    BY <1>13, Asked
  <2> HIDE DEF k
  <2>2. GetByIndex(k, Index(mapper, id)) \subseteq Stored(k)
    BY <1>1, <2>1, Answered
  <2>3. QED BY <1>1, <2>1, <2>2, WithoutOK
<1>14. ASSUME NEW id \in CellIDs \union ModuleIDs, Remove(id)
       PROVE  ContainerInv'
  <2> DEFINE gone == GetByIndex(k, Index(mapper, id))
  <2>1. /\ Askable(id)
        /\ container' = WithoutIndex(k, Index(mapper, id))
        /\ handed' = handed \union gone
        /\ UNCHANGED <<mapper, deletes>>
    BY <1>14 DEF Remove
  <2>2. /\ ContainerOK(container', mapper) /\ gone \subseteq Stored(container)
        /\ Stored(container') \subseteq Stored(container) \ gone
    BY <1>13, <2>1
  <2> HIDE DEF gone, k
  <2>3. OwnedOnce'
    BY <1>1, <2>1, <2>2 DEF Owners, OwnedOnce
  <2>4. Owners'
    BY <1>1, <2>1, <2>2, <2>3 DEF Owners
  <2>5. QED BY <1>1, <2>1, <2>2, <2>4
<1>15. ASSUME NEW id \in CellIDs \union ModuleIDs, Delete(id)
       PROVE  ContainerInv'
  <2> DEFINE gone == GetByIndex(k, Index(mapper, id))
  <2>1. /\ Askable(id)
        /\ container' = WithoutIndex(k, Index(mapper, id))
        /\ deletes' = Deleted(gone)
        /\ UNCHANGED <<mapper, handed>>
    BY <1>15 DEF Delete
  <2>2. /\ ContainerOK(container', mapper) /\ gone \subseteq Stored(container)
        /\ Stored(container') \subseteq Stored(container) \ gone
    BY <1>13, <2>1
  <2> HIDE DEF gone, k
  <2>3. \A e \in gone : deletes[e] = 0
    BY <1>1, <2>2 DEF Owners, OwnedOnce
  <2>4. /\ deletes' \in [Elements -> Nat]
        /\ \A e \in Elements : deletes'[e] <= 1
        /\ \A e \in Elements : e \notin gone => deletes'[e] = deletes[e]
    BY <1>1, <2>1, <2>3, DeletedOK DEF Owners, OwnedOnce
  <2>5. OwnedOnce'
    BY <1>1, <2>1, <2>2, <2>4 DEF Owners, OwnedOnce
  <2>6. Owners'
    BY <1>1, <2>1, <2>4, <2>5 DEF Owners
  <2>7. QED BY <1>1, <2>1, <2>2, <2>6
<1>16. CASE UNCHANGED <<mapper, container, deletes, handed>>
  BY <1>1, <1>9, <1>16
<1> HIDE DEF ContainerInv
<1>17. QED
  BY <1>3, <1>4, <1>6, <1>7, <1>8, <1>10, <1>11, <1>12, <1>14, <1>15, <1>16
     DEF Next, vars, GetAllElements, Return

LEMMA InvAlways == ASSUME SameWidth, OutOfRange = FALSE PROVE Spec => []ContainerInv
<1>1. Init => ContainerInv
  BY InvInit
<1>2. ContainerInv /\ [Next]_vars => ContainerInv'
  BY InvNext
<1>3. QED BY <1>1, <1>2, PTL DEF Spec

\* Whatever is called and however the mapping changes, no element is deleted
\* twice, or while the container or a caller holds it (MappedContainer.hh).
THEOREM ElementsOwnedOnce ==
  ASSUME SameWidth, OutOfRange = FALSE
  PROVE  Spec => []OwnedOnce
<1>1. ContainerInv => OwnedOnce
  BY DEF ContainerInv, Owners
<1>2. QED BY <1>1, InvAlways, PTL

-----------------------------------------------------------------------------
(***************************************************************************)
(* The container is a map from cells to elements.                          *)
(***************************************************************************)
LEMMA ThrownContent ==
  ASSUME NEW m, MapperOK(m), NEW c, ContainerOK(c, m)
  PROVE  \E kept \in SUBSET ({a \in CellIDs : ContentOf(c)[a] # NoElement} \ Lost(c, m)) :
           ContentOf(Refilled(c, m)) =
             [a \in CellIDs |-> IF a \in kept THEN ContentOf(c)[a] ELSE NoElement]
<1> DEFINE kept == {c.data[n].address : n \in Copied(c, m)}
           g == [a \in CellIDs |-> IF a \in kept THEN ContentOf(c)[a] ELSE NoElement]
           r == Refilled(c, m)
<1>1. /\ SlotsOK(c) /\ AddressesOK(c, m)
      /\ ContainerOK(r, m) /\ SlotsOK(r)
      /\ \A a, e : Holds(r, a, e) <=> \E n \in Copied(c, m) : /\ c.data[n].address = a
                                                              /\ c.data[n].element = e
  BY RefilledOK DEF ContainerOK
<1> HIDE DEF r
<1>2. ASSUME NEW n \in Copied(c, m)
      PROVE  /\ n \in FilledSlots(c) /\ c.data[n].address \in CellIDs
             /\ ContentOf(c)[c.data[n].address] = c.data[n].element
             /\ c.data[n].element # NoElement
             /\ c.data[n].address \notin Lost(c, m)
  <2>1. n \in FilledSlots(c) /\ c.data[n].address \in MappedCells(m)
    BY <1>1, CopiedTo DEF MappedCells
  <2>2. QED BY <2>1, FilledCells DEF Lost
<1>3. kept \subseteq {a \in CellIDs : ContentOf(c)[a] # NoElement} \ Lost(c, m)
  BY <1>2
<1>4. ContentOf(r) \in Contents /\ ContentOf(c) \in Contents
  BY <1>1, ContentIs
<1>5. g \in Contents
  BY <1>4 DEF Contents
<1>6. ASSUME NEW a \in CellIDs, NEW e \in Elements
      PROVE  ContentOf(r)[a] = e <=> g[a] = e
  <2>1. ContentOf(r)[a] = e <=> \E n \in Copied(c, m) : /\ c.data[n].address = a
                                                         /\ c.data[n].element = e
    BY <1>1, ContentIs
  <2>2. e # NoElement
    BY CellAssumption DEF CellAssumption
  <2>3. g[a] = IF a \in kept THEN ContentOf(c)[a] ELSE NoElement
    OBVIOUS
  <2>4. CASE a \in kept
    <3>1. PICK n \in Copied(c, m) : c.data[n].address = a
      BY <2>4
    <3>2. g[a] = c.data[n].element
      BY <1>2, <2>3, <2>4, <3>1
    <3>3. \A t \in Copied(c, m) : c.data[t].address = a => t = n
      BY <1>1, <1>2, <3>1 DEF SlotsOK
    <3> HIDE DEF g, kept
    <3>4. QED BY <2>1, <3>1, <3>2, <3>3
  <2>5. CASE a \notin kept
    BY <2>1, <2>2, <2>3, <2>5
  <2>6. QED BY <2>4, <2>5
<1>7. ContentOf(r) = g
  BY <1>4, <1>5, <1>6, SameContent
<1>8. QED BY <1>3, <1>7 DEF r

LEMMA StoredContent ==
  ASSUME NEW m, NEW c, ContainerOK(c, m)
  PROVE  Stored(c) = {ContentOf(c)[a] : a \in {b \in CellIDs : ContentOf(c)[b] # NoElement}}
<1>1. SlotsOK(c)
  BY DEF ContainerOK
<1>2. ASSUME NEW n \in FilledSlots(c)
      PROVE  \E a \in CellIDs : ContentOf(c)[a] # NoElement /\ ContentOf(c)[a] = c.data[n].element
  BY FilledCells
<1>3. ASSUME NEW a \in CellIDs, ContentOf(c)[a] # NoElement
      PROVE  ContentOf(c)[a] \in Stored(c)
  <2>1. ContentOf(c)[a] \in Elements
    BY <1>1, <1>3, ContentIs DEF Contents
  <2>2. Holds(c, a, ContentOf(c)[a])
    BY <1>1, <2>1, ContentIs
  <2>3. QED BY <2>2 DEF Holds, Stored
<1>4. QED BY <1>2, <1>3 DEF Stored

LEMMA AbstractInit == Init => Abstract!Init
<1> SUFFICES ASSUME Init PROVE Abstract!Init
  OBVIOUS
<1>1. mapper.connections = {}
  BY DEF Init, NoMapping
<1>2. MappedCells(mapper) = {}
  BY <1>1 DEF MappedCells, Channels
<1>3. FilledSlots(container) = {}
  <2>1. container.data = Blank(0)
    BY DEF Init
  <2>2. QED BY <2>1 DEF FilledSlots, Blank, EmptySlot
<1>4. ContentOf(container) = [a \in CellIDs |-> NoElement]
  BY <1>3 DEF ContentOf
<1>5. answer = NoAnswer
  BY DEF Init
<1>6. QED BY <1>2, <1>4, <1>5 DEF Abstract!Init, Abstract!Nothing, Abstract!NoAnswer, NoAnswer

LEMMA AbstractNext ==
  ASSUME OutOfRange = FALSE, ContainerInv, ContainerInv', [Next]_vars
  PROVE  [Abstract!Next]_(Abstract!vars)
<1> DEFINE k == Checked(container, mapper)
           content == ContentOf(container)
           filled == {a \in CellIDs : content[a] # NoElement}
<1>1. /\ MapperOK(mapper) /\ ContainerOK(container, mapper)
      /\ MapperOK(mapper') /\ SlotsOK(container)
      /\ container = [live |-> container.live, data |-> container.data,
                      max |-> container.max, mapperVersion |-> container.mapperVersion]
  BY DEF ContainerInv, ContainerOK, SlotsOK
<1>2. /\ Abstract!Filled = filled
      /\ Abstract!Stranded = Lost(container, mapper)
      /\ \A a : Abstract!At(a) = ElementAt(content, a)
      /\ Abstract!NoAnswer = NoAnswer /\ (Abstract!Idle <=> Idle)
  BY DEF Abstract!Filled, Abstract!Stranded, Lost, Abstract!At, ElementAt,
         Abstract!NoAnswer, NoAnswer, Abstract!Idle, Idle
<1>3. MappedCells(mapper') \in SUBSET CellIDs
  BY <1>1, ChannelRanges DEF MappedCells
<1>4. ASSUME Idle, UNCHANGED <<container, answer>>
      PROVE  Abstract!Next
  BY <1>2, <1>3, <1>4 DEF Abstract!Next, Abstract!Remap, MappedCells, ContentOf, FilledSlots
<1>5. ASSUME NEW d \in Descriptions, NEW x \in Connections, FillMapper(d, x)
      PROVE  Abstract!Next
  BY <1>4, <1>5 DEF FillMapper
<1>6. ASSUME NEW x \in Connections, UpdateConnections(x)
      PROVE  Abstract!Next
  BY <1>4, <1>6 DEF UpdateConnections
<1>8. CASE Construct
  <2>1. FilledSlots(container) = {}
    BY <1>1, <1>8 DEF Construct, ContainerOK
  <2>2. FilledSlots(container') = {}
    <3>1. container'.data = Blank(MaxIndex(mapper))
      BY <1>8 DEF Construct
    <3>2. QED BY <3>1 DEF FilledSlots, Blank, EmptySlot
  <2>3. ContentOf(container') = ContentOf(container)
    BY <2>1, <2>2 DEF ContentOf
  <2>4. MappedCells(mapper') = MappedCells(mapper) /\ answer' = answer
    BY <1>8 DEF Construct
  <2>5. QED BY <2>3, <2>4 DEF Abstract!vars
<1>9. ASSUME Destroy \/ Clear
      PROVE  Abstract!Next
  <2>1. PICK size : container'.data = Blank(size)
    BY <1>1, <1>9 DEF Destroy, Clear, Emptied
  <2>2. FilledSlots(container') = {}
    BY <2>1 DEF FilledSlots, Blank, EmptySlot
  <2>3. ContentOf(container') = [a \in CellIDs |-> NoElement]
    BY <2>2 DEF ContentOf
  <2>4. Idle /\ UNCHANGED <<mapper, answer>>
    BY <1>9 DEF Destroy, Clear
  <2>5. QED
    BY <1>2, <2>3, <2>4 DEF Abstract!Next, Abstract!Clear, Abstract!Nothing
<1>10. CASE GetAllElements
  <2>1. /\ Idle /\ UNCHANGED <<mapper, container>>
        /\ answer' = [op |-> "all", cell |-> NoCell, threw |-> FALSE,
                      elements |-> Stored(container)]
    BY <1>10 DEF GetAllElements, Answer
  <2>2. Stored(container) = {content[a] : a \in filled}
    BY <1>1, StoredContent
  <2>3. Abstract!GetAllElements
    BY <1>2, <2>1, <2>2 DEF Abstract!GetAllElements, Abstract!Answer
  <2>4. QED BY <2>3 DEF Abstract!Next
<1>11. CASE Return
  BY <1>2, <1>11 DEF Return, Abstract!Return, Abstract!Next
<1>12. ASSUME NEW id \in CellIDs \union ModuleIDs, Askable(id)
       PROVE  /\ Meant(mapper, id) \in CellIDs \union {NoCell}
              /\ Idle /\ InRange(mapper, id) /\ container.live
              /\ Current(k, mapper)
              /\ ~CheckThrows(container, mapper) =>
                   /\ ContentOf(k) = content
                   /\ Abstract!Stranded = {}
  <2>1. Idle /\ InRange(mapper, id) /\ container.live
    BY <1>12 DEF Askable
  <2>2. Meant(mapper, id) \in CellIDs \union {NoCell}
    BY <1>1, <2>1, IndexMeans, ChannelRanges
  <2>3. QED BY <1>2, <1>12, <2>1, <2>2, Asked
<1> HIDE DEF k, content, filled
<1>13. ASSUME NEW op \in {"get", "fill", "remove", "delete"},
              NEW id \in CellIDs \union ModuleIDs, Throw(op, id)
       PROVE  Abstract!Next
  <2> DEFINE a == Meant(mapper, id)
  <2>1. /\ Askable(id) /\ CheckThrows(container, mapper) /\ mapper' = mapper
        /\ container' = Refilled(container, mapper)
        /\ answer' = [op |-> op, cell |-> a, threw |-> TRUE, elements |-> {}]
    BY <1>13 DEF Throw, Answer
  <2>2. a \in CellIDs \union {NoCell} /\ Idle
    BY <1>12, <2>1
  <2>3. Lost(container, mapper) # {}
    BY <1>1, <2>1, ThrowsForALoss DEF CheckThrows
  <2>4. \E kept \in SUBSET (filled \ Lost(container, mapper)) :
          ContentOf(container') = [b \in CellIDs |-> IF b \in kept THEN content[b] ELSE NoElement]
    BY <1>1, <2>1, ThrownContent DEF content, filled
  <2> HIDE DEF a
  <2>5. Abstract!Lose(op, a)
    BY <1>2, <2>1, <2>2, <2>3, <2>4 DEF Abstract!Lose, Abstract!Answer, content
  <2>6. QED BY <2>2, <2>5 DEF Abstract!Next
<1>14. ASSUME NEW id \in CellIDs \union ModuleIDs, Get(id)
       PROVE  Abstract!Next
  <2> DEFINE a == Meant(mapper, id)
  <2>1. /\ Askable(id) /\ ~CheckThrows(container, mapper) /\ mapper' = mapper
        /\ container' = k
        /\ answer' = [op |-> "get", cell |-> a, threw |-> FALSE,
                      elements |-> GetByIndex(container', Index(mapper, id))]
    BY <1>14 DEF Get, Answer, k
  <2>2. /\ a \in CellIDs \union {NoCell} /\ Idle /\ InRange(mapper, id)
        /\ Current(k, mapper) /\ ContentOf(k) = content /\ Abstract!Stranded = {}
    BY <1>12, <2>1
  <2>3. GetByIndex(k, Index(mapper, id)) = ElementAt(content, a)
    BY <1>1, <2>2, Answered
  <2> HIDE DEF a
  <2>4. Abstract!Get(a)
    BY <1>2, <2>1, <2>2, <2>3 DEF Abstract!Get, Abstract!Answer, content
  <2>5. QED BY <2>2, <2>4 DEF Abstract!Next
<1>15. ASSUME NEW id \in CellIDs \union ModuleIDs, NEW e \in Elements, Fill(id, e)
       PROVE  Abstract!Next
  <2> DEFINE a == Meant(mapper, id)
             n == Index(mapper, id)
             free == n \in DOMAIN k.data /\ k.data[n].element = NoElement
             possible == a \in MappedCells(mapper) \ filled
  <2>1. /\ Askable(id) /\ ~CheckThrows(container, mapper) /\ mapper' = mapper
        /\ e \notin Stored(container)
        /\ answer' = [op |-> "fill", cell |-> a, threw |-> ~free, elements |-> {}]
        /\ free => container' = FilledByIndex(k, mapper, n, e)
        /\ ~free => container' = k
    BY <1>15 DEF Fill, Answer, k
  <2>2. /\ a \in CellIDs \union {NoCell} /\ Idle /\ InRange(mapper, id)
        /\ Current(k, mapper) /\ ContentOf(k) = content /\ Abstract!Stranded = {}
    BY <1>12, <2>1
  <2>3. Stored(k) \subseteq Stored(container)
    BY <1>1, <2>1, <2>2, CheckedOK DEF ContainerInv, Askable, k
  <2>4. free <=> possible
    BY <1>1, <2>2, FreeCell DEF filled
  <2>5. free => ContentOf(container') = [content EXCEPT ![a] = e]
    <3>1. ASSUME free
          PROVE  ContentOf(container') = [content EXCEPT ![a] = e]
      <4>1. PICK x \in Channels(mapper) :
              n = CompactIndex(mapper, x.module, x.chip, x.chan) /\ a = CellOf(x)
        BY <1>1, <2>2, <3>1, FreeCell
      <4> HIDE DEF n, a
      <4>2. QED BY <1>1, <2>1, <2>2, <2>3, <3>1, <4>1, FillOK
    <3>2. QED BY <3>1
  <2>6. answer' = [op |-> "fill", cell |-> a, threw |-> ~possible, elements |-> {}]
    BY <2>1, <2>4, Zenon
  <2> HIDE DEF a, n, free
  <2>7. possible => ContentOf(container') = [content EXCEPT ![a] = e]
    BY <2>4, <2>5
  <2>8. ~possible => ContentOf(container') = content
    BY <2>1, <2>2, <2>4
  <2>9. Abstract!Fill(a, e)
    <3>1. Abstract!Answer("fill", a, a \notin MappedCells(mapper) \ filled, {})
      BY <1>2, <2>2, <2>6, Zenon DEF Abstract!Answer, possible
    <3>2. QED
      BY <1>2, <2>1, <2>2, <2>7, <2>8, <3>1 DEF Abstract!Fill, content
  <2>10. QED BY <2>2, <2>9 DEF Abstract!Next
<1>16. ASSUME NEW id \in CellIDs \union ModuleIDs, Askable(id),
              ~CheckThrows(container, mapper),
              container' = WithoutIndex(k, Index(mapper, id))
       PROVE  /\ ContentOf(container') = Abstract!Emptied(Meant(mapper, id))
              /\ GetByIndex(k, Index(mapper, id)) = ElementAt(content, Meant(mapper, id))
  <2>1. /\ InRange(mapper, id) /\ Current(k, mapper) /\ ContentOf(k) = content
    BY <1>12, <1>16
  <2>2. ContentOf(container') = [a \in CellIDs |-> IF a = Meant(mapper, id) THEN NoElement
                                                   ELSE content[a]]
    BY <1>1, <1>16, <2>1, WithoutOK
  <2>3. QED BY <1>1, <2>1, <2>2, Answered DEF Abstract!Emptied, content
<1>17. ASSUME NEW id \in CellIDs \union ModuleIDs, Remove(id)
       PROVE  Abstract!Next
  <2> DEFINE a == Meant(mapper, id)
  <2>1. /\ Askable(id) /\ ~CheckThrows(container, mapper) /\ mapper' = mapper
        /\ container' = WithoutIndex(k, Index(mapper, id))
        /\ answer' = [op |-> "remove", cell |-> a, threw |-> FALSE,
                      elements |-> GetByIndex(k, Index(mapper, id))]
    BY <1>17 DEF Remove, Answer, k
  <2>2. a \in CellIDs \union {NoCell} /\ Idle /\ Abstract!Stranded = {}
    BY <1>12, <2>1
  <2>3. /\ ContentOf(container') = Abstract!Emptied(a)
        /\ GetByIndex(k, Index(mapper, id)) = ElementAt(content, a)
    BY <1>16, <2>1
  <2> HIDE DEF a
  <2>4. Abstract!Remove(a)
    BY <1>2, <2>1, <2>2, <2>3 DEF Abstract!Remove, Abstract!Answer
  <2>5. QED BY <2>2, <2>4 DEF Abstract!Next
<1>18. ASSUME NEW id \in CellIDs \union ModuleIDs, Delete(id)
       PROVE  Abstract!Next
  <2> DEFINE a == Meant(mapper, id)
  <2>1. /\ Askable(id) /\ ~CheckThrows(container, mapper) /\ mapper' = mapper
        /\ container' = WithoutIndex(k, Index(mapper, id))
        /\ answer' = [op |-> "delete", cell |-> a, threw |-> FALSE, elements |-> {}]
    BY <1>18 DEF Delete, Answer, k
  <2>2. a \in CellIDs \union {NoCell} /\ Idle /\ Abstract!Stranded = {}
    BY <1>12, <2>1
  <2>3. ContentOf(container') = Abstract!Emptied(a)
    BY <1>16, <2>1
  <2> HIDE DEF a
  <2>4. Abstract!Delete(a)
    BY <1>2, <2>1, <2>2, <2>3 DEF Abstract!Delete, Abstract!Answer
  <2>5. QED BY <2>2, <2>4 DEF Abstract!Next
<1>19. CASE UNCHANGED vars
  BY <1>19 DEF vars, Abstract!vars, MappedCells, ContentOf, FilledSlots
<1>20. QED
  BY <1>5, <1>6, <1>8, <1>9, <1>10, <1>11, <1>13, <1>14, <1>15, <1>17, <1>18, <1>19 DEF Next

\* The container is a map from cells to elements through every sequence of calls
\* and changes of the mapping (MappedContainer.hh).
THEOREM ContainerIsAMap ==
  ASSUME SameWidth, OutOfRange = FALSE
  PROVE  Spec => ImplementsCellMap
<1>1. Init => Abstract!Init
  BY AbstractInit
<1>2. ContainerInv /\ ContainerInv' /\ [Next]_vars => [Abstract!Next]_(Abstract!vars)
  BY AbstractNext
<1>3. QED BY <1>1, <1>2, InvAlways, PTL DEF Spec, Abstract!Spec, ImplementsCellMap
=============================================================================
