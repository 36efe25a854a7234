------------------------------- MODULE CellMap --------------------------------
(***************************************************************************)
(* What a container of mapped objects promises: an element stays at its    *)
(* cell until it is removed, deleted or the container cleared, whatever    *)
(* the mapping becomes, as long as every cell with an element stays        *)
(* mapped.  If one does not, the next call throws and some elements are    *)
(* lost: those of cells no longer mapped, and perhaps others.              *)
(***************************************************************************)
CONSTANTS Cells, Elements, NoElement,
          NoCell                \* asked for with the number of no channel

VARIABLES
  mapped,                       \* the cells that are mapped
  content,                      \* the element of each cell
  answer                        \* of the present call: what, which cell, result

vars == <<mapped, content, answer>>

Nothing == [c \in Cells |-> NoElement]

NoAnswer == [op |-> "none", cell |-> NoCell, threw |-> FALSE, elements |-> {}]

Filled == {c \in Cells : content[c] # NoElement}

Stranded == Filled \ mapped

At(c) == IF c \in Filled THEN {content[c]} ELSE {}

Idle == answer = NoAnswer

Answer(op, c, threw, elements) ==
  /\ Idle
  /\ answer' = [op |-> op, cell |-> c, threw |-> threw, elements |-> elements]

\* The caller takes the answer before anything else happens.
Return == ~Idle /\ answer' = NoAnswer /\ UNCHANGED <<mapped, content>>

Init == mapped = {} /\ content = Nothing /\ answer = NoAnswer

Remap == Idle /\ mapped' \in SUBSET Cells /\ UNCHANGED <<content, answer>>

Lose(op, c) ==
  /\ Answer(op, c, TRUE, {})
  /\ Stranded # {}
  /\ \E kept \in SUBSET (Filled \ Stranded) :
        content' = [a \in Cells |-> IF a \in kept THEN content[a] ELSE NoElement]
  /\ UNCHANGED mapped

Get(c) ==
  /\ Answer("get", c, FALSE, At(c))
  /\ Stranded = {}
  /\ UNCHANGED <<mapped, content>>

Fill(c, e) ==
  /\ Answer("fill", c, c \notin mapped \ Filled, {})
  /\ Stranded = {}
  /\ IF c \in mapped \ Filled
     THEN content' = [content EXCEPT ![c] = e]
     ELSE UNCHANGED content
  /\ UNCHANGED mapped

Emptied(c) == [a \in Cells |-> IF a = c THEN NoElement ELSE content[a]]

Remove(c) ==
  /\ Answer("remove", c, FALSE, At(c))
  /\ Stranded = {}
  /\ content' = Emptied(c)
  /\ UNCHANGED mapped

Delete(c) ==
  /\ Answer("delete", c, FALSE, {})
  /\ Stranded = {}
  /\ content' = Emptied(c)
  /\ UNCHANGED mapped

GetAllElements ==
  /\ Answer("all", NoCell, FALSE, {content[c] : c \in Filled})
  /\ UNCHANGED <<mapped, content>>

Clear == Idle /\ content' = Nothing /\ UNCHANGED <<mapped, answer>>

Next ==
  \/ Remap \/ GetAllElements \/ Clear \/ Return
  \/ \E c \in Cells \union {NoCell} :
        \/ \E op \in {"get", "fill", "remove", "delete"} : Lose(op, c)
        \/ Get(c) \/ Remove(c) \/ Delete(c)
        \/ \E e \in Elements : Fill(c, e)

Spec == Init /\ [][Next]_vars
=============================================================================
