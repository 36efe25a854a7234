--------------------------- MODULE MCEventBuilder ----------------------------
(* The BIF collections of the event builder for the model checker.          *)
EXTENDS EUDAQEventBuilder

Element(start, triggers) == [marked |-> TRUE, start |-> start, triggers |-> triggers]
Unmarked == [marked |-> FALSE, start |-> 0, triggers |-> {}]

\* A tick before the offset, the first and last ticks of two crossings, the first of a
\* third; the clock turns over in the first.  The last of the ticks is too late for an int.
MCBifCollections ==
  { <<Element(29, {30, 31, 1, 2})>>,
    <<Element(29, {31, 0}), Element(3, {4, 5, 7, 8, 10, 11, 21})>>,
    <<Element(3, {5, 8}), Unmarked>> }
==============================================================================
