----------------------- MODULE Ahc2CalibrationsProcessor -----------------------
(***************************************************************************)
(* The calibration constants of every cell and their status bits           *)
(* (calice_reco/recoSiPM/src/Ahc2CalibrationsProcessor.cc).  A callback    *)
(* remembers a new collection; the constants made of it are rebuilt when   *)
(* the processor sees the next event.  A constant is one entry per         *)
(* collection it is made of: the collection's number and whether the cell  *)
(* had an entry of its own there (otherwise the default is used).          *)
(***************************************************************************)
EXTENDS MappingProcessor

CONSTANT Kinds          \* the kinds of constants the model follows

VARIABLES
  calTold,              \* the collections remembered by the callback
  calChanged,           \* those with the changed flag
  calVersion,           \* _mapperVersion
  calibrations          \* the container: cell -> its constants and status bits

calVars == <<calTold, calChanged, calVersion, calibrations>>

\* The collections every kind of constant is made of.
Parts(k) ==
  CASE k = "MIP"  -> {"MIPConstant", "MIPSlope"}
    [] k = "gain" -> {"gainConstant", "gainSlope"}
    [] OTHER      -> {k}

AllKinds == {"MIP", "gain", "pedestal", "interCalibration", "PhysicsCalibIC",
             "saturation", "timeSlopes", "timePedestal", "cellQuality"}

ASSUME KindsAssumption == Kinds \subseteq AllKinds

CalNames == UNION {Parts(k) : k \in Kinds}

ValueKinds == Kinds \ {"cellQuality"}      \* a quality is only a status bit

\* The status bits: that the default of a collection was used, and three more.
DefaultBits == UNION {Parts(k) : k \in ValueKinds \ {"pedestal"}}

Bits == DefaultBits \union {"noPedestal", "isNewITEP", "dead"}

NoValue == << >>                            \* a null pointer

Empty == [value |-> [k \in ValueKinds |-> NoValue], bits |-> {}]

CalInit ==
  /\ calTold = [p \in CalNames |-> NoCollection]
  /\ calChanged = {}
  /\ calVersion = mapper.version
  /\ calibrations = << >>

CalConditionsChanged(p, col) ==
  IF p \in CalNames
  THEN /\ calTold' = [calTold EXCEPT ![p] = col]
       /\ calChanged' = calChanged \union {p}
       /\ UNCHANGED <<calVersion, calibrations>>
  ELSE UNCHANGED calVars

\* Mutants: every event rebuilds the container; what was there stays.
RemappedAlways == [c \in Mapped |-> Empty]
RemappedKept ==
  [c \in Mapped |-> IF c \in DOMAIN calibrations THEN calibrations[c] ELSE Empty]

\* A new version of the mapping throws the constants of all cells away.
Remapped ==
  IF calVersion # mapper.version THEN [c \in Mapped |-> Empty] ELSE calibrations

Changed(k) == Parts(k) \intersect calChanged # {}

\* Constants made of two collections cannot be built before both are there:
\* StopProcessingException.
Missing == \E k \in Kinds : Changed(k) /\ \E p \in Parts(k) : ~Told(calTold[p])

\* An entry of a channel that is not mapped makes fillByIndex throw.  All
\* collections but the gain constants are filled under a catch.
Uncaught ==
  /\ "gain" \in Kinds /\ Changed("gain")
  /\ ~(calTold["gainConstant"].cells \subseteq Mapped)

\* The constant of kind k of cell c, from the collections told last.
Value(k, c) ==
  [p \in Parts(k) |-> [nr |-> calTold[p].nr, own |-> c \in calTold[p].cells]]

Defaulted(k, c) == {p \in Parts(k) : c \notin calTold[p].cells}

NewITEP(c) == c \in calTold["saturation"].itep

\* Mutants: no bit is ever cleared; none is ever set.
BitsAfterUncleared(k, c, bits) ==
  bits \union (CASE k = "cellQuality" -> {b \in {"dead"} : Defaulted(k, c) = {}}
                 [] k = "pedestal" -> {b \in {"noPedestal"} : Defaulted(k, c) # {}}
                 [] OTHER -> Defaulted(k, c))
BitsAfterUnflagged(k, c, bits) == bits

\* What the update of kind k leaves of the status bits of cell c.
BitsAfter(k, c, bits) ==
  CASE k = "pedestal" ->
         bits \union {b \in {"noPedestal"} : Defaulted(k, c) # {}}
    [] k = "cellQuality" ->
         (bits \ {"dead"}) \union {b \in {"dead"} : Defaulted(k, c) = {}}
    [] k = "saturation" ->
         (IF Defaulted(k, c) # {} THEN bits \ {"isNewITEP"}
                                  ELSE bits \ {"saturation"})
           \union Defaulted(k, c) \union {b \in {"isNewITEP"} : NewITEP(c)}
    [] OTHER -> (bits \ Parts(k)) \union Defaulted(k, c)

\* The bits one kind touches are its own, so the order of the updates is free.
Touched(k) ==
  CASE k = "pedestal"    -> {"noPedestal"}
    [] k = "cellQuality" -> {"dead"}
    [] k = "saturation"  -> {"saturation", "isNewITEP"}
    [] OTHER             -> Parts(k)

UpdatedBits(c, bits) ==
  (bits \ UNION {Touched(k) : k \in {j \in Kinds : Changed(j)}})
    \union UNION {BitsAfter(k, c, bits) \intersect Touched(k) :
                    k \in {j \in Kinds : Changed(j)}}

Updated(c, entry) ==
  [value |-> [k \in ValueKinds |->
                IF Changed(k) THEN Value(k, c) ELSE entry.value[k]],
   bits  |-> UpdatedBits(c, entry.bits)]

CalProcessEvent ==
  /\ calibrations' = [c \in DOMAIN Remapped |-> Updated(c, Remapped[c])]
  /\ calVersion' = mapper.version
  /\ calChanged' = {}
  /\ UNCHANGED calTold
=============================================================================
