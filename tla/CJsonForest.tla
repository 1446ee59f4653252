----------------------------- MODULE CJsonForest -----------------------------
(***************************************************************************)
(* cJSON's items as a forest of ordered trees.                             *)
(***************************************************************************)
EXTENDS CJsonTree

(* The list of p, as get_array_item goes through it.                       *)
After(m, c) == IF c \in Cell THEN m.cell[c].next ELSE Null

Kids(m, p) ==
    LET at[i \in 1..Cardinality(Cell) + 1] ==
            IF i = 1 THEN m.cell[p].child ELSE After(m, at[i - 1])
    IN [i \in {j \in DOMAIN at : at[j] \in Cell} |-> at[i]]

(* A reference owns nothing.                                               *)
Lists(m) == [c \in Cell |-> IF Owner(m, c) THEN Kids(m, c) ELSE <<>>]

(* cJSON's lists implement a forest of ordered trees.                      *)
Forest == INSTANCE OrderedForest WITH Item <- Cell, alive <- Live(mem), kids <- Lists(mem)
ImplementsForest == Forest!Spec
=============================================================================
