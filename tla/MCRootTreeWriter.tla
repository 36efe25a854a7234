---------------------------- MODULE MCRootTreeWriter ----------------------------
(* Steering files and inputs of the root tree writer for the model checker. *)
EXTENDS RootTreeWriter, TLC

\* Two writers share a tree; the third has a file of its own.
MCSteering ==
  << [file |-> "hcal", tree |-> "bigtree", engines |-> {"Hodoscope", "Trigger", "Bif", "CollectionParameter"}],
     [file |-> "hcal", tree |-> "bigtree", engines |-> {"Hit"}],
     [file |-> "ecal", tree |-> "bigtree", engines |-> Engines \ {"Hit", "Hodoscope", "Bif"}] >>

Complete == [first |-> "full", second |-> "full", third |-> "full", hit |-> Layers, beam |-> TRUE]

\* One thing is missing at a time.
MCInputSets ==
  { Complete,
    [Complete EXCEPT !.first = Absent], [Complete EXCEPT !.second = Absent],
    [Complete EXCEPT !.third = Absent],
    [Complete EXCEPT !.first = "empty"], [Complete EXCEPT !.second = "empty"],
    [Complete EXCEPT !.hit = {1}], [Complete EXCEPT !.beam = FALSE] }
=============================================================================
