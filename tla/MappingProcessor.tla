---------------------------- MODULE MappingProcessor ----------------------------
(***************************************************************************)
(* The mapper and the processor that keeps it up to date                   *)
(* (calice_reco/cellGeometry/src/MappingProcessor.cc,                      *)
(* calice_userlib Ahc2Mapper).  The conditions framework hands over a new  *)
(* collection by a callback that only remembers it; the mapper is filled   *)
(* when the processor sees the event.  Other processors notice a new       *)
(* mapping by the version number of the mapper.                            *)
(*                                                                         *)
(* A collection is [nr, cells, itep]: the event it was handed over in, the *)
(* cells it has an entry for, and (saturation parameters only) those of    *)
(* them with more than 11000 pixels.  A module is taken to have one cell.  *)
(* Every connected module has a described type.                            *)
(***************************************************************************)
EXTENDS Integers

CONSTANT Cells          \* the cells any collection may have an entry for

VARIABLES
  mapTold,              \* _colModuleDescription, _colModuleConnection
  mapChanged,           \* _moduleDescriptionChanged, _moduleConnectionChanged
  mapper                \* what the mapper was filled with, and its version

mapVars == <<mapTold, mapChanged, mapper>>

NoCollection == [nr |-> 0, cells |-> {}, itep |-> {}]

Told(col) == col.nr # 0

MapNames == {"description", "connection"}

MapInit ==
  /\ mapTold = [n \in MapNames |-> NoCollection]
  /\ mapChanged = {}
  /\ mapper = [described |-> {}, connected |-> {}, version |-> 0]

\* The callback remembers the collection and that it changed, nothing more.
MapConditionsChanged(n, col) ==
  IF n \in MapNames
  THEN /\ mapTold' = [mapTold EXCEPT ![n] = col]
       /\ mapChanged' = mapChanged \union {n}
       /\ UNCHANGED mapper
  ELSE UNCHANGED mapVars

\* The mapper cannot be filled from a collection that was never handed over.
CanMap == mapChanged = {} \/ \A n \in MapNames : Told(mapTold[n])

FillModuleDescription(m, col) ==
  [described |-> col.cells, connected |-> m.connected, version |-> m.version + 1]

FillModuleConnection(m, col) ==
  [described |-> m.described, connected |-> col.cells, version |-> m.version + 1]

\* With a new description the connections are filled as well.
Fill(m) ==
  FillModuleConnection(FillModuleDescription(m, mapTold["description"]),
                       mapTold["connection"])

MapProcessEvent ==
  /\ mapper' = CASE "description" \in mapChanged -> Fill(mapper)
                 [] mapChanged = {"connection"} ->
                      FillModuleConnection(mapper, mapTold["connection"])
                 [] OTHER -> mapper
  /\ mapChanged' = {}
  /\ UNCHANGED mapTold

\* The cells that have a valid index: getIndexByModuleID, CellIterator.
Mapped == mapper.described \intersect mapper.connected
=============================================================================
