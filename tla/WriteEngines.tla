------------------------------ MODULE WriteEngines ------------------------------
(***************************************************************************)
(* The engines of the root tree writer (RootTreeWriter/engines): each keeps *)
(* the variables its branches point to, and fillVariables changes them for  *)
(* an event. What a variable holds is given by its origin, the set of the   *)
(* events its value was computed from: {} is a fixed value the code wrote   *)
(* (a zero or a sentinel), Unwritten the memory as it was allocated. The    *)
(* variables one assignment block fills together are one group.             *)
(***************************************************************************)
EXTENDS Integers

CONSTANT
  Layers        \* the layers of the calorimeter, as many as tell hit from unhit ones

ASSUME LayersAssumption == 1 \in Layers      \* they are counted from 1

Default == {}
Unwritten == {0}            \* events are numbered from 1
Absent == "absent"          \* getCollection throws DataNotAvailableException

(* What an event has for an engine: its first, second and third collection   *)
(* (absent, empty or full), the layers hit where the first is full, and      *)
(* whether the trigger word says beam.                                       *)
Inputs == [first: {Absent, "empty", "full"}, second: {Absent, "empty", "full"},
           third: {Absent, "empty", "full"}, hit: SUBSET Layers, beam: BOOLEAN]

Has(s, which) == s[which] # Absent
Full(s, which) == s[which] = "full"
\* A value taken from event n if the condition holds, the one before otherwise.
Taken(condition, n, old) == IF condition THEN {n} ELSE old
\* A value taken from event n if the condition holds, a fixed one otherwise.
OrDefault(condition, n) == Taken(condition, n, Default)

-----------------------------------------------------------------------------
(* HodoscopeWriteEngine: amplitudes and positions of the two hodoscopes, and *)
(* the pair of positions that fits most hits of the calorimeter.             *)
\* Mutant: the loop ends before the second hodoscope.
HodoscopeResetFirst(d) == [d EXCEPT !.hod1 = Default, !.track = Default]

HodoscopeReset(d) == [d EXCEPT !.hod1 = Default, !.hod2 = Default, !.track = Default]

\* The candidates are the positions of both hodoscopes, whichever event they are from.
BestTrack(hod1, hod2, n) == hod1 \cup hod2 \cup {n}

HodoscopeFill(d, n, s) ==
  IF Has(s, "first") /\ Has(s, "second") /\ Has(s, "third")
    THEN LET hod1 == Taken(Full(s, "first"), n, d.hod1)
             hod2 == Taken(Full(s, "second"), n, d.hod2)
             best == BestTrack(hod1, hod2, n)
         IN  [hod1 |-> hod1, hod2 |-> hod2, track |-> best, maxPass |-> best]
    ELSE HodoscopeReset(d)

-----------------------------------------------------------------------------
(* HitWriteEngine at information level 3, with the cell indices and the      *)
(* amplitudes (the second collection) switched on. "counted" is the member   *)
(* ievt; every other group is registered as a branch.                        *)
HitReset(d) ==
  [d EXCEPT !.sums = Default, !.iEvt = Default, !.cog = Default, !.cogIJ = Default,
            !.lCog = [l \in Layers |-> Default], !.hits = Default,
            !.temperature = Default, !.energyDensity = Default,
            !.radius = Default, !.radiusEw = Default]

\* The layers the centre of gravity in cell indices is taken from.
Front(hit) == hit \cap {1}

HitLoop(d, n, s, hit) ==
  LET some == hit # {}
      counted == IF some THEN d.counted \cup {n} ELSE d.counted
  IN  [d EXCEPT !.sums = {n}, !.counted = counted, !.iEvt = counted,
                !.cog = OrDefault(some, n),
                !.cogIJ = Taken(Front(hit) # {}, n, @),
                !.lCog = [l \in Layers |-> Taken(l \in hit, n, @[l])],
                !.hits = OrDefault(some, n),
                !.temperature = Taken(some /\ Full(s, "second"), n, @)]

HitRadii(d, n, hit) ==
  LET density == IF hit = {} THEN d.energyDensity ELSE d.energyDensity \cup {n}
  IN  [d EXCEPT !.energyDensity = density,
                !.radius = {n},
                !.radiusEw = density \cup {n}]

HitFill(d, n, s) ==
  IF Has(s, "first") /\ Has(s, "second")
    THEN LET hit == IF Full(s, "first") THEN s.hit ELSE {}
         IN  HitRadii(HitLoop(d, n, s, hit), n, hit)
    ELSE HitReset(d)

-----------------------------------------------------------------------------
(* The smaller engines.                                                      *)
BifFill(n, s) == [times |-> OrDefault(Has(s, "first"), n),
                  triggers |-> OrDefault(Has(s, "first"), n)]

CollectionParameterFill(d, n, s) ==
  [scalars |-> Taken(Has(s, "first"), n, d.scalars),
   vectors |-> OrDefault(Has(s, "first"), n)]

EventParameterFill(n) == [scalars |-> {n}, vectors |-> {n}]

TriggerFill(n) == [bits |-> {n}]

MCParticleFill(d, n, s) ==
  [particle |-> IF Has(s, "first") THEN Taken(Full(s, "first"), n, d.particle) ELSE Default]

\* The track collection is taken to hold a track: the code uses element 0 unasked.
DriftChamberFill(d, n, s) ==
  [track |-> IF s.beam THEN OrDefault(Has(s, "first"), n) ELSE d.track]

\* The projections are set to sentinels first; without the x collection y is not read.
TBTrackFill(d, n, s) ==
  LET x == Full(s, "first")
      y == Has(s, "first") /\ Full(s, "second")
  IN  [x |-> OrDefault(x, n), y |-> OrDefault(y, n),
       numX |-> Taken(x, n, d.numX), numY |-> Taken(y, n, d.numY)]

TrackFinderFill(d, n, s) ==
  [start |-> OrDefault(Full(s, "first"), n),
   energy |-> OrDefault(Has(s, "second"), n),
   numHits |-> Taken(Has(s, "second"), n, d.numHits),
   hits |-> Taken(Full(s, "second"), n, d.hits)]

\* The two energies have a collection each; the tracks are the third.
HcalTrackLarsFill(n, s) ==
  [ahc |-> OrDefault(Has(s, "first"), n), tcmt |-> OrDefault(Has(s, "second"), n),
   tracks |-> OrDefault(Has(s, "third"), n)]

ShowerShapeFill(n, s) == [clusters |-> OrDefault(Has(s, "first"), n)]

ASimFill(n, s) == [hits |-> OrDefault(Has(s, "first"), n),
                   cog |-> OrDefault(Full(s, "first"), n)]

\* Nothing is touched by an event without beam; the second collection is asked for last.
DeepAnaFill(d, n, s) ==
  [clusters |-> IF ~s.beam THEN d.clusters
                ELSE OrDefault(Has(s, "first") /\ Has(s, "second"), n)]

-----------------------------------------------------------------------------
(* The engines together.                                                     *)
Engines == {"Hit", "Hodoscope", "Trigger", "DriftChamber", "MCParticle", "ASim",
            "TBTrack", "TrackFinder", "ShowerShape", "HcalTrackLars", "Bif",
            "DeepAna", "EventParameter", "CollectionParameter"}

\* The members as they are once the branches are registered.
Registered(e) ==
  CASE e = "Hodoscope" -> [hod1 |-> Unwritten, hod2 |-> Unwritten,
                           track |-> Unwritten, maxPass |-> Unwritten]
    [] e = "Hit" -> [sums |-> Unwritten, counted |-> Default, iEvt |-> Unwritten,
                     cog |-> Unwritten, cogIJ |-> Unwritten,
                     lCog |-> [l \in Layers |-> Unwritten], hits |-> Unwritten,
                     temperature |-> Unwritten, energyDensity |-> Unwritten,
                     radius |-> Unwritten, radiusEw |-> Unwritten]
    [] e = "Trigger" -> [bits |-> Unwritten]
    [] e \in {"EventParameter", "CollectionParameter"} ->
         [scalars |-> Default, vectors |-> Default]
    [] e = "Bif" -> [times |-> Unwritten, triggers |-> Unwritten]
    [] e = "MCParticle" -> [particle |-> Unwritten]
    [] e = "DriftChamber" -> [track |-> Unwritten]
    [] e = "TBTrack" -> [x |-> Unwritten, y |-> Unwritten,
                         numX |-> Unwritten, numY |-> Unwritten]
    [] e = "TrackFinder" -> [start |-> Unwritten, energy |-> Unwritten,
                             numHits |-> Unwritten, hits |-> Unwritten]
    [] e = "HcalTrackLars" -> [ahc |-> Unwritten, tcmt |-> Unwritten, tracks |-> Default]
    [] e = "ShowerShape" -> [clusters |-> Unwritten]
    [] e = "ASim" -> [hits |-> Default, cog |-> Unwritten]
    [] e = "DeepAna" -> [clusters |-> Unwritten]

fillVariables(e, d, n, s) ==
  CASE e = "Hodoscope" -> HodoscopeFill(d, n, s)
    [] e = "Hit" -> HitFill(d, n, s)
    [] e = "Trigger" -> TriggerFill(n)
    [] e = "EventParameter" -> EventParameterFill(n)
    [] e = "CollectionParameter" -> CollectionParameterFill(d, n, s)
    [] e = "Bif" -> BifFill(n, s)
    [] e = "MCParticle" -> MCParticleFill(d, n, s)
    [] e = "DriftChamber" -> DriftChamberFill(d, n, s)
    [] e = "TBTrack" -> TBTrackFill(d, n, s)
    [] e = "TrackFinder" -> TrackFinderFill(d, n, s)
    [] e = "HcalTrackLars" -> HcalTrackLarsFill(n, s)
    [] e = "ShowerShape" -> ShowerShapeFill(n, s)
    [] e = "ASim" -> ASimFill(n, s)
    [] e = "DeepAna" -> DeepAnaFill(d, n, s)

\* What of the members an entry shows: arrays are cut at their number of elements.
Visible(e, d) ==
  CASE e = "Hit" -> [d EXCEPT !.temperature = IF d.hits = Default THEN Default ELSE @]
    [] e = "TrackFinder" -> [d EXCEPT !.hits = IF d.numHits = @ THEN @ ELSE Default]
    [] OTHER -> d
=============================================================================
