-------------------------- MODULE MCMappedContainer ---------------------------
(* Two descriptions (with two types, and a smaller one) and three           *)
(* connections: one module, two modules, the two with their layers swapped. *)
EXTENDS MappedContainer

Cell(t, id, i, j) == [type |-> t, id |-> id, i |-> i, j |-> j]
Module(n, t, k) == [module |-> n, type |-> t, k |-> k]

MCDescriptions ==
  { {Cell(1, 0, 0, 0), Cell(1, 1, 1, 0), Cell(1, 5, 0, 1), Cell(2, 4, 0, 0), Cell(2, 5, 1, 0)},
    {Cell(1, 0, 1, 0), Cell(1, 1, 0, 0), Cell(2, 1, 0, 0)} }

MCConnections ==
  { {Module(1, 1, 1)},
    {Module(1, 1, 1), Module(2, 2, 2)},
    {Module(1, 1, 2), Module(2, 2, 1)} }

MCCellIDs == [i : 0..1, j : 0..1, k : 1..2] \ {[i |-> 1, j |-> 1, k |-> 2]}
MCModuleIDs == [module : 1..2, chip : 0..2, chan : 0..2]
=============================================================================
