----------------------- MODULE CellDescriptionProcessor -----------------------
(***************************************************************************)
(* The positions of the cells                                              *)
(* (calice_reco/cellGeometry/src/CellDescriptionProcessor.cc,              *)
(* CellDescriptionGenerator.cc).  Built from four collections, again when  *)
(* one of them changes or the mapper has a new version.                    *)
(***************************************************************************)
EXTENDS MappingProcessor

VARIABLES
  geoTold,              \* the four collections remembered by the callback
  geoChanged,           \* those with the changed flag
  geoVersion,           \* _mapperVersion
  positions             \* the container: cell -> the collections it was made of

geoVars == <<geoTold, geoChanged, geoVersion, positions>>

GeoNames == MapNames \union {"location", "transformation"}

GeoInit ==
  /\ geoTold = [n \in GeoNames |-> NoCollection]
  /\ geoChanged = {}
  /\ geoVersion = mapper.version
  /\ positions = << >>

GeoConditionsChanged(n, col) ==
  IF n \in GeoNames
  THEN /\ geoTold' = [geoTold EXCEPT ![n] = col]
       /\ geoChanged' = geoChanged \union {n}
       /\ UNCHANGED <<geoVersion, positions>>
  ELSE UNCHANGED geoVars

\* Mutant: only a new mapping is noticed.
NeedsDescriptionsMapping == mapper.version # geoVersion

NeedsDescriptions == mapper.version # geoVersion \/ geoChanged # {}

\* The generator reads the four collections, and the location of every
\* connected module, without asking whether they are there.
CanDescribe ==
  NeedsDescriptions =>
    /\ \A n \in GeoNames : Told(geoTold[n])
    /\ geoTold["connection"].cells \subseteq geoTold["location"].cells

\* A container filled by cell ID: one entry per cell of a connected module.
Generated ==
  [c \in geoTold["connection"].cells \intersect geoTold["description"].cells |->
     [n \in GeoNames |-> geoTold[n].nr]]

GeoProcessEvent ==
  IF NeedsDescriptions
  THEN /\ positions' = Generated
       /\ geoVersion' = mapper.version
       /\ geoChanged' = {}
       /\ UNCHANGED geoTold
  ELSE UNCHANGED geoVars
=============================================================================
