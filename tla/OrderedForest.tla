---------------------------- MODULE OrderedForest ----------------------------
(***************************************************************************)
(* What cJSON promises of its items: a forest of ordered trees.  Each item *)
(* that is alive is a root or is in one list of one parent; a call moves,  *)
(* makes or ends whole trees, and the rest of a list keeps its order.      *)
(***************************************************************************)
EXTENDS Integers, Sequences, SequencesExt

CONSTANT Item

VARIABLES alive, kids

vars == <<alive, kids>>

Init == alive = {} /\ kids = [c \in Item |-> <<>>]

(* The items of S and below: no set that is closed can do without them.    *)
Tree(k, S) ==
    {c \in Item : ~ \E T \in SUBSET (Item \ {c}) : S \subseteq T /\ \A d \in T : ToSet(k[d]) \subseteq T}

(* No item is in two lists, twice in one, or below itself.                 *)
IsForest(a, k) ==
    /\ \A p \in a : IsInjective(k[p]) /\ ToSet(k[p]) \subseteq a /\ p \notin Tree(k, ToSet(k[p]))
    /\ \A p, q \in a : p # q => ToSet(k[p]) \cap ToSet(k[q]) = {}

Root(a, k, c) == c \in a /\ \A p \in a : c \notin ToSet(k[p])

(* Where c would be a child of p.                                          *)
Fits(a, k, p, c) == Root(a, k, c) /\ p \notin Tree(k, {c})

(* From a, k to a2, k2: new trees appear, ...                              *)
Grow(a, k, a2, k2) ==
    /\ a \subseteq a2 /\ \A c \in a : k2[c] = k[c]
    /\ \A c \in a2 \ a : ToSet(k2[c]) \cap a = {}
    /\ IsForest(a2, k2)

(* ... a root, or a new item, gets into the list of p, ...                 *)
Put(a, k, a2, k2, p) ==
    \E c \in ToSet(k2[p]) \ ToSet(k[p]) :
        /\ Fits(a, k, p, c) \/ c \in Item \ a
        /\ \E i \in DOMAIN k2[p] : k2 = [k EXCEPT ![p] = InsertAt(@, i, c)]
        /\ a2 = a \cup {c}

(* ... an item leaves it as a root, ...                                    *)
Take(a, k, a2, k2, p) == a2 = a /\ \E i \in DOMAIN k[p] : k2 = [k EXCEPT ![p] = RemoveAt(@, i)]

(* ... c ends with its tree, ...                                           *)
Drop(a, k, a2, k2, c) ==
    LET S == Tree(k, {c}) IN a2 = a \ S /\ k2 = [d \in Item |-> IF d \in S THEN <<>> ELSE k[d]]

(* ... or does so where it has left a list, or another root has taken its  *)
(* place.                                                                  *)
End(a, k, a2, k2, p) ==
    \E i \in DOMAIN k[p] :
        /\ k[p][i] \notin a2
        /\ \/ Drop(a, [k EXCEPT ![p] = RemoveAt(@, i)], a2, k2, k[p][i])
           \/ \E c \in a : /\ Fits(a, k, p, c)
                           /\ Drop(a, [k EXCEPT ![p] = ReplaceAt(@, i, c)], a2, k2, k[p][i])

Next ==
    \E a \in {alive}, k \in {kids}, a2 \in {alive'}, k2 \in {kids'} :
    \/ Grow(a, k, a2, k2)
    \/ \E p \in a : Put(a, k, a2, k2, p) \/ Take(a, k, a2, k2, p) \/ End(a, k, a2, k2, p)
    \/ \E c \in a \ a2 : Root(a, k, c) /\ Drop(a, k, a2, k2, c)

Spec == Init /\ [][Next]_vars
=============================================================================
