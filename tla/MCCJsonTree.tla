----------------------------- MODULE MCCJsonTree -----------------------------
(***************************************************************************)
(* A small instance of CJsonTree: four items, enough for a list of three   *)
(* with a container, of a few kinds at a time.                             *)
(***************************************************************************)
EXTENDS CJsonForest, TLC
CONSTANTS c1, c2, c3, c4, aName,
          MaxRefs, MaxNames, MaxTexts, MaxArrays, MaxObjects, MaxContainers, MaxUnnamed
MCCell == {c1, c2, c3, c4}
MCLower == [k \in Key |-> aName]

Small ==
    LET Count(P(_)) == Cardinality({c \in Live(mem) : P(c)})
        Typed(t)    == Count(LAMBDA c : mem.cell[c].type = t)
    IN /\ Count(LAMBDA c : mem.cell[c].ref) <= MaxRefs
       /\ Count(LAMBDA c : mem.cell[c].const) + Count(LAMBDA c : OwnsName(mem, c)) <= MaxNames
       /\ Typed("text") <= MaxTexts /\ Typed("array") <= MaxArrays /\ Typed("object") <= MaxObjects
       /\ Typed("array") + Typed("object") <= MaxContainers
       /\ Cardinality(oom) <= MaxUnnamed

MCSymmetry == Permutations(MCCell)
=============================================================================
