--------------------------- MODULE CJsonTreeProofs ---------------------------
(***************************************************************************)
(* cJSON's lists keep their links, every name and text has one owner,      *)
(* nothing is lost and members have names, under any sequence of calls;    *)
(* and the lists implement a forest of ordered trees.                      *)
(***************************************************************************)
EXTENDS CJsonForest, FiniteSetTheorems, SequenceTheorems, WellFoundedInduction, TLAPS

(* What is reached contains the start and goes on, ...                     *)
LEMMA ReachClosed ==
    ASSUME NEW out \in [Cell -> SUBSET Cell], NEW S \in SUBSET Cell
    PROVE  /\ Reach(out, S) \subseteq Cell /\ S \subseteq Reach(out, S)
           /\ \A c \in Reach(out, S) : out[c] \subseteq Reach(out, S)
BY DEF Reach

(* ... and is the least such set.                                          *)
LEMMA ReachLeast ==
    ASSUME NEW out, NEW S, NEW T \in SUBSET Cell, S \subseteq T,
           \A c \in T : out[c] \subseteq T
    PROVE  Reach(out, S) \subseteq T
<1> SUFFICES ASSUME NEW c \in Cell, c \notin T PROVE c \notin Reach(out, S)
  BY DEF Reach
<1>1. T \in SUBSET (Cell \ {c})
  OBVIOUS
<1> QED
  BY <1>1 DEF Reach

(* What is reached is in the start or comes after something else reached.  *)
LEMMA ReachFrom ==
    ASSUME NEW out \in [Cell -> SUBSET Cell], NEW S \in SUBSET Cell,
           NEW c \in Reach(out, S), c \notin S
    PROVE  \E d \in Reach(out, S) : d # c /\ c \in out[d]
<1> DEFINE T == Reach(out, S) \ {c}
<1>1. T \in SUBSET Cell /\ S \subseteq T /\ c \notin T
  BY ReachClosed
<1>2. CASE \A d \in T : out[d] \subseteq T
  <2> HIDE DEF T
  <2>1. Reach(out, S) \subseteq T
    BY <1>1, <1>2, ReachLeast
  <2> QED
    BY <1>1, <2>1
<1>3. CASE \E d \in T : ~(out[d] \subseteq T)
  BY <1>3, ReachClosed
<1> QED
  BY <1>2, <1>3

LEMMA ReachSub ==
    ASSUME NEW out \in [Cell -> SUBSET Cell], NEW S \in SUBSET Cell,
           NEW T \in SUBSET Reach(out, S)
    PROVE  Reach(out, T) \subseteq Reach(out, S)
BY ReachClosed, ReachLeast

-----------------------------------------------------------------------------
Memories == [cell : [Cell -> Item], strings : Int]

LEMMA Typed ==
    ASSUME NEW m \in Memories
    PROVE  /\ m.cell \in [Cell -> Item] /\ m.strings \in Int
           /\ \A c \in Cell : /\ m.cell[c] \in Item
                              /\ m.cell[c].next \in Pointer /\ m.cell[c].prev \in Pointer
                              /\ m.cell[c].child \in Pointer
                              /\ m.cell[c].type \in Type \cup {"free"}
                              /\ m.cell[c].ref \in BOOLEAN /\ m.cell[c].const \in BOOLEAN
                              /\ m.cell[c].key \in Key \cup {NoKey}
           /\ Live(m) \subseteq Cell /\ Null \notin Cell /\ Wild \notin Cell /\ Null # Wild
           /\ Along(m) \in [Cell -> SUBSET Cell] /\ Owned(m) \in [Cell -> SUBSET Cell]
BY CJsonAssumption DEF Memories, Item, Live, Along, Owned

(* The list of a container that owns it: all items are alive, and each but *)
(* the first has another one before it.                                    *)
LEMMA ItemsFacts ==
    ASSUME NEW m \in Memories, Linked(m), NEW p, Owner(m, p)
    PROVE  /\ Items(m, p) \subseteq Live(m)
           /\ m.cell[p].child # Null => m.cell[p].child \in Items(m, p)
           /\ \A c \in Items(m, p) :
                /\ m.cell[c].next # Null => m.cell[c].next \in Items(m, p)
                /\ c # m.cell[p].child => /\ m.cell[c].prev \in Items(m, p)
                                          /\ m.cell[c].prev # c
<1> DEFINE S == {m.cell[p].child} \cap Cell
           out == Along(m)
           T == Items(m, p)
<1>1. p \in Live(m) /\ p \in Cell /\ S \in SUBSET Cell /\ out \in [Cell -> SUBSET Cell]
  BY Typed DEF Owner
<1>2. T = Reach(out, S)
  BY DEF Items, Ahead
<1>3. \A c \in Live(m) : out[c] \subseteq Live(m)
  BY Typed DEF Linked, Along
<1>4. S \subseteq Live(m)
  BY <1>1, Typed DEF Linked, Owner
<1> HIDE DEF S, out, T
<1>5. T \subseteq Live(m)
  BY <1>2, <1>3, <1>4, ReachLeast, Typed
<1>6. S \subseteq T /\ \A c \in T : out[c] \subseteq T
  BY <1>1, <1>2, ReachClosed
<1>7. m.cell[p].child # Null => m.cell[p].child \in T
  BY <1>1, <1>6, Typed DEF S, Linked, Owner
<1>8. ASSUME NEW c \in T PROVE m.cell[c].next # Null => m.cell[c].next \in T
  BY <1>5, <1>6, <1>8, Typed DEF out, Along, Linked
<1>9. ASSUME NEW c \in T, c # m.cell[p].child
      PROVE  m.cell[c].prev \in T /\ m.cell[c].prev # c
  <2>1. c \notin S
    BY <1>9 DEF S
  <2>2. PICK d \in T : d # c /\ c \in out[d]
    BY <1>1, <1>2, <2>1, ReachFrom
  <2>3. d \in Live(m) /\ d \in Cell /\ m.cell[d].next = c /\ c # Null
    BY <1>5, <2>2, Typed DEF out, Along
  <2> QED
    BY <2>2, <2>3 DEF Linked
<1> QED
  BY <1>5, <1>7, <1>8, <1>9 DEF T

(* Lists end: going on never comes back to the first item, and there are   *)
(* finitely many.                                                          *)
LEMMA LastExists ==
    ASSUME NEW m \in Memories, Linked(m), NEW p, Owner(m, p), m.cell[p].child # Null
    PROVE  \E c \in Items(m, p) : m.cell[c].next = Null
<1> DEFINE S == Items(m, p)
           h == m.cell[p].child
           f == [c \in S |-> m.cell[c].next]
<1> SUFFICES ASSUME \A c \in S : m.cell[c].next # Null PROVE FALSE
  OBVIOUS
<1>1. S \subseteq Live(m) /\ h \in S /\ \A c \in S : m.cell[c].next \in S
  BY ItemsFacts
<1>2. m.cell[h].prev = Null /\ h # Null /\ p \in Live(m)
  BY DEF Linked, Owner
<1>3. \A c \in S : m.cell[m.cell[c].next].prev = c /\ c # Null
  BY <1>1, Typed DEF Linked
<1>4. f \in [S -> S \ {h}]
  BY <1>1, <1>2, <1>3
<1>5. IsFiniteSet(S)
  BY <1>1, Typed, CJsonAssumption, FS_Subset
<1> HIDE DEF S, h
<1>6. IsFiniteSet(S \ {h}) /\ Cardinality(S \ {h}) < Cardinality(S)
  <2>1. Cardinality(S) \in Nat
    BY <1>5, FS_CardinalityType
  <2>2. IsFiniteSet(S \ {h}) /\ Cardinality(S \ {h}) = Cardinality(S) - 1
    BY <1>1, <1>5, FS_RemoveElement
  <2> QED
    BY <2>1, <2>2
<1>7. \E x, y \in S : x # y /\ f[x] = f[y]
  <2> HIDE DEF f
  <2> QED
    BY <1>4, <1>5, <1>6, FS_PigeonHole
<1>8. PICK x, y \in S : x # y /\ f[x] = f[y]
  BY <1>7
<1>9. m.cell[x].next = m.cell[y].next
  BY <1>8
<1> QED
  BY <1>3, <1>8, <1>9
-----------------------------------------------------------------------------
(* Names and texts are counted item by item.                               *)
LEMMA StringsType ==
    ASSUME NEW m, NEW T \in SUBSET Cell
    PROVE  Strings(m, T) \in Nat
<1> DEFINE N == {c \in T : OwnsName(m, c)}
           X == {c \in T : OwnsText(m, c)}
<1>1. IsFiniteSet(N) /\ IsFiniteSet(X)
  BY CJsonAssumption, FS_Subset
<1> HIDE DEF N, X
<1>2. Cardinality(N) \in Nat /\ Cardinality(X) \in Nat
  BY <1>1, FS_CardinalityType
<1> QED
  BY <1>2 DEF Strings, N, X

OwnsSame(m, m2, T) ==
    \A c \in T : (OwnsName(m2, c) <=> OwnsName(m, c)) /\ (OwnsText(m2, c) <=> OwnsText(m, c))

LEMMA CellsOwnSame ==
    ASSUME NEW m, NEW m2, NEW T, \A c \in T : m2.cell[c] = m.cell[c]
    PROVE  OwnsSame(m, m2, T)
BY Zenon DEF OwnsSame, OwnsName, OwnsText

LEMMA StringsSame ==
    ASSUME NEW m, NEW m2, NEW T, OwnsSame(m, m2, T)
    PROVE  Strings(m2, T) = Strings(m, T)
<1>1. /\ {c \in T : OwnsName(m2, c)} = {c \in T : OwnsName(m, c)}
      /\ {c \in T : OwnsText(m2, c)} = {c \in T : OwnsText(m, c)}
  BY DEF OwnsSame
<1> QED
  BY <1>1 DEF Strings

LEMMA StringsLess ==
    ASSUME NEW m, NEW T \in SUBSET Cell, NEW S \in SUBSET T
    PROVE  Strings(m, T \ S) = Strings(m, T) - Strings(m, S)
<1> DEFINE N(U) == {c \in U : OwnsName(m, c)}
           X(U) == {c \in U : OwnsText(m, c)}
<1>1. /\ N(T \ S) = N(T) \ N(S) /\ N(T) \cap N(S) = N(S)
      /\ X(T \ S) = X(T) \ X(S) /\ X(T) \cap X(S) = X(S)
  OBVIOUS
<1>2. IsFiniteSet(N(T)) /\ IsFiniteSet(X(T)) /\ IsFiniteSet(N(S)) /\ IsFiniteSet(X(S))
  BY CJsonAssumption, FS_Subset
<1>3. \A U : Strings(m, U) = Cardinality(N(U)) + Cardinality(X(U))
  BY DEF Strings
<1> HIDE DEF N, X
<1>4. /\ Cardinality(N(T)) \in Nat /\ Cardinality(X(T)) \in Nat
      /\ Cardinality(N(S)) \in Nat /\ Cardinality(X(S)) \in Nat
  BY <1>2, FS_CardinalityType
<1>5. /\ Cardinality(N(T) \ N(S)) = Cardinality(N(T)) - Cardinality(N(T) \cap N(S))
      /\ Cardinality(X(T) \ X(S)) = Cardinality(X(T)) - Cardinality(X(T) \cap X(S))
  BY <1>2, FS_Difference
<1>6. /\ Cardinality(N(T \ S)) = Cardinality(N(T)) - Cardinality(N(S))
      /\ Cardinality(X(T \ S)) = Cardinality(X(T)) - Cardinality(X(S))
  BY <1>1, <1>5
<1>7. /\ Strings(m, T \ S) = Cardinality(N(T \ S)) + Cardinality(X(T \ S))
      /\ Strings(m, T) = Cardinality(N(T)) + Cardinality(X(T))
      /\ Strings(m, S) = Cardinality(N(S)) + Cardinality(X(S))
  BY <1>3
<1> QED
  BY <1>4, <1>6, <1>7

LEMMA StringsOne ==
    ASSUME NEW m, NEW n \in Cell
    PROVE  Strings(m, {n}) = (IF OwnsName(m, n) THEN 1 ELSE 0) + (IF OwnsText(m, n) THEN 1 ELSE 0)
<1> DEFINE N == {c \in {n} : OwnsName(m, c)}
           X == {c \in {n} : OwnsText(m, c)}
<1>1. /\ N = IF OwnsName(m, n) THEN {n} ELSE {}
      /\ X = IF OwnsText(m, n) THEN {n} ELSE {}
  OBVIOUS
<1>2. Cardinality({}) = 0 /\ Cardinality({n}) = 1
  BY FS_EmptySet, FS_Singleton
<1>3. Strings(m, {n}) = Cardinality(N) + Cardinality(X)
  BY DEF Strings
<1> HIDE DEF N, X
<1> QED
  BY <1>1, <1>2, <1>3

(* What is swept with a root is alive and nothing else leads to it.        *)
LEMMA SweptFacts ==
    ASSUME NEW m \in Memories, Linked(m), OneOwner(m), NEW c, Root(m, c)
    PROVE  LET S == Swept(m, {c}) IN
           /\ c \in S /\ S \subseteq Live(m)
           /\ \A d \in Live(m) \ S : /\ m.cell[d].next \notin S /\ m.cell[d].prev \notin S
                                     /\ Owner(m, d) => m.cell[d].child \notin S
           /\ \A d \in S : Root(m, d) => d = c
<1> DEFINE S == Swept(m, {c})
           out == Owned(m)
<1>1. c \in Live(m) /\ {c} \in SUBSET Cell /\ out \in [Cell -> SUBSET Cell] /\ S = Reach(out, {c})
  BY Typed DEF Root, Swept
<1>2. \A x \in Live(m) : out[x] \subseteq Live(m)
  BY Typed DEF Linked, Owned
<1> HIDE DEF S
<1>3. S \subseteq Live(m) /\ c \in S
  <2> HIDE DEF out
  <2>1. S \subseteq Live(m)
    BY <1>1, <1>2, ReachLeast, Typed
  <2> QED
    BY <1>1, <2>1, ReachClosed
<1>4. \A x \in S : m.cell[x].next # Null => m.cell[x].next \in S
  <2>1. \A x \in S : out[x] \subseteq S
    BY <1>1, ReachClosed
  <2> QED
    BY <1>3, <2>1, Typed DEF out, Owned, Linked
<1>5. ASSUME NEW e \in S, e # c
      PROVE  \E x \in S : m.cell[x].next = e \/ (Owner(m, x) /\ m.cell[x].child = e)
  <2>1. PICK x \in S : x # e /\ e \in out[x]
    BY <1>1, <1>5, ReachFrom
  <2> QED
    BY <1>3, <2>1, Typed DEF out, Owned, Owner
<1>6. ASSUME NEW d \in Live(m) \ S
      PROVE  /\ m.cell[d].next \notin S /\ m.cell[d].prev \notin S
             /\ Owner(m, d) => m.cell[d].child \notin S
  <2>1. m.cell[d].prev \notin S
    BY <1>3, <1>4, <1>6, Typed DEF Linked
  <2>2. m.cell[d].next \notin S
    <3> SUFFICES ASSUME m.cell[d].next \in S PROVE FALSE
      OBVIOUS
    <3> DEFINE e == m.cell[d].next
    <3>1. e # Null /\ m.cell[e].prev = d /\ d # Null
      BY <1>3, <1>6, Typed DEF Linked
    <3>2. PICK x \in S : m.cell[x].next = e \/ (Owner(m, x) /\ m.cell[x].child = e)
      BY <1>5, <3>1 DEF Root
    <3> QED
      BY <1>3, <1>6, <3>1, <3>2 DEF Linked, Owner
  <2>3. ASSUME Owner(m, d), m.cell[d].child \in S PROVE FALSE
    <3> DEFINE e == m.cell[d].child
    <3>1. e # Null /\ m.cell[e].prev = Null /\ e # c
      BY <1>3, <1>6, <2>3, Typed DEF Linked, Root, Owner
    <3>2. PICK x \in S : m.cell[x].next = e \/ (Owner(m, x) /\ m.cell[x].child = e)
      BY <1>5, <2>3, <3>1
    <3>3. x # Null /\ x \in Live(m) /\ x # d /\ x \in Cell /\ d \in Cell
      BY <1>3, <1>6, <3>2, Typed
    <3> QED
      BY <2>3, <3>1, <3>2, <3>3 DEF Linked, OneOwner
  <2> QED
    BY <2>1, <2>2, <2>3
<1>7. ASSUME NEW d \in S, Root(m, d) PROVE d = c
  <2> SUFFICES ASSUME d # c PROVE FALSE
    OBVIOUS
  <2>1. PICK x \in S : m.cell[x].next = d \/ (Owner(m, x) /\ m.cell[x].child = d)
    BY <1>5, <1>7
  <2>2. x \in Live(m) /\ x \in Cell /\ x # Null /\ d # Null
    BY <1>3, <2>1, Typed
  <2> QED
    BY <1>7, <2>1, <2>2 DEF Root, Linked
<1> QED
  BY <1>3, <1>6, <1>7 DEF S
-----------------------------------------------------------------------------
(* What an item is, apart from its links.                                  *)
SameFlags(m, m2, x) ==
    /\ m2.cell[x].type = m.cell[x].type /\ m2.cell[x].ref = m.cell[x].ref
    /\ m2.cell[x].key = m.cell[x].key /\ m2.cell[x].const = m.cell[x].const

SameLinks(m, m2, x) ==
    /\ m2.cell[x].next = m.cell[x].next /\ m2.cell[x].prev = m.cell[x].prev
    /\ m2.cell[x].child = m.cell[x].child

LEMMA DeleteView ==
    ASSUME NEW m \in Memories, NEW c \in Cell
    PROVE  LET m2 == Delete(m, c)
               S  == Swept(m, {c})
               To(q) == IF q \in S THEN Wild ELSE q
           IN  /\ m2 \in Memories /\ m2.strings = m.strings - Strings(m, S)
               /\ \A x \in Cell \cap S : m2.cell[x] = Blank
               /\ \A x \in Cell \ S : /\ SameFlags(m, m2, x)
                                      /\ m2.cell[x].next = To(m.cell[x].next)
                                      /\ m2.cell[x].prev = To(m.cell[x].prev)
                                      /\ m2.cell[x].child = To(m.cell[x].child)
<1> DEFINE m2 == Delete(m, c)
           S  == Swept(m, {c})
           To(q) == IF q \in S THEN Wild ELSE q
           Cut(x) == [m.cell[x] EXCEPT !.next = To(@), !.prev = To(@), !.child = To(@)]
           F == [d \in Cell |-> IF d \in S THEN Blank ELSE Cut(d)]
<1>1. S \in SUBSET Cell
  BY Typed, ReachClosed DEF Swept
<1>2. Blank \in Item
  BY DEF Blank, Item, Pointer
<1>3. m2.cell = F /\ m2.strings = m.strings - Strings(m, S) /\ m2 = [cell |-> m2.cell, strings |-> m2.strings]
  BY DEF Delete
<1>4. Strings(m, S) \in Nat /\ m.strings \in Int
  BY <1>1, StringsType, Typed
<1>5. ASSUME NEW x \in Cell
      PROVE  /\ Cut(x) \in Item
             /\ Cut(x).next = To(m.cell[x].next) /\ Cut(x).prev = To(m.cell[x].prev)
             /\ Cut(x).child = To(m.cell[x].child)
             /\ Cut(x).type = m.cell[x].type /\ Cut(x).ref = m.cell[x].ref
             /\ Cut(x).key = m.cell[x].key /\ Cut(x).const = m.cell[x].const
  <2>1. /\ m.cell[x] \in Item
        /\ To(m.cell[x].next) \in Pointer /\ To(m.cell[x].prev) \in Pointer
        /\ To(m.cell[x].child) \in Pointer
    BY Typed DEF Pointer
  <2> HIDE DEF S
  <2> QED
    BY <2>1 DEF Item
<1> HIDE DEF m2, S, Cut
<1>6. \A x \in Cell : F[x] \in Item
  BY <1>2, <1>5
<1>7. F \in [Cell -> Item]
  BY <1>6
<1>8. m2 \in Memories
  <2> HIDE DEF F
  <2> QED
    BY <1>3, <1>4, <1>7 DEF Memories
<1>9. \A x \in Cell : m2.cell[x] = IF x \in S THEN Blank ELSE Cut(x)
  BY <1>3
<1>10. \A x \in Cell \cap S : m2.cell[x] = Blank
  BY <1>9
<1>11. ASSUME NEW x \in Cell \ S
       PROVE  /\ SameFlags(m, m2, x)
              /\ m2.cell[x].next = To(m.cell[x].next)
              /\ m2.cell[x].prev = To(m.cell[x].prev)
              /\ m2.cell[x].child = To(m.cell[x].child)
  <2>1. m2.cell[x] = Cut(x)
    BY <1>9
  <2> HIDE DEF To
  <2> QED
    BY <1>5, <2>1 DEF SameFlags
<1>12. m2.strings = m.strings - Strings(m, S)
  BY <1>3
<1> HIDE DEF To
<1>13. /\ m2 \in Memories /\ m2.strings = m.strings - Strings(m, S)
       /\ \A x \in Cell \cap S : m2.cell[x] = Blank
       /\ \A x \in Cell \ S : /\ SameFlags(m, m2, x)
                              /\ m2.cell[x].next = To(m.cell[x].next)
                              /\ m2.cell[x].prev = To(m.cell[x].prev)
                              /\ m2.cell[x].child = To(m.cell[x].child)
  BY <1>8, <1>10, <1>11, <1>12
<1> QED
  BY <1>13 DEF S, m2, To

(* What c owned is free, and all other roots stay roots.                   *)
Cleared(m, m2, c) ==
    /\ m2 \in Memories /\ Sound(m2) /\ Live(m2) = Live(m) \ Swept(m, {c})
    /\ \A x \in Live(m) : Root(m, x) /\ x # c => Root(m2, x)

(* cJSON_Delete of a root: the rest keeps its links, and the strings freed *)
(* are those that were owned.                                              *)
LEMMA DeleteKeeps ==
    ASSUME NEW m \in Memories, Sound(m), NEW c, Root(m, c), NEW m2, m2 = Delete(m, c)
    PROVE  Cleared(m, m2, c)
<1> DEFINE S == Swept(m, {c})
           To(q) == IF q \in S THEN Wild ELSE q
<1>1. c \in Cell /\ Linked(m) /\ Known(m) /\ OneOwner(m) /\ Owns(m)
  BY Typed DEF Root, Sound
<1>2. /\ m2 \in Memories /\ m2.strings = m.strings - Strings(m, S)
      /\ \A x \in Cell \cap S : m2.cell[x] = Blank
      /\ \A x \in Cell \ S : /\ SameFlags(m, m2, x)
                             /\ m2.cell[x].next = To(m.cell[x].next)
                             /\ m2.cell[x].prev = To(m.cell[x].prev)
                             /\ m2.cell[x].child = To(m.cell[x].child)
  BY <1>1, DeleteView
<1>3. /\ c \in S /\ S \subseteq Live(m)
      /\ \A d \in Live(m) \ S : /\ m.cell[d].next \notin S /\ m.cell[d].prev \notin S
                                /\ Owner(m, d) => m.cell[d].child \notin S
      /\ \A d \in S : Root(m, d) => d = c
  BY <1>1, SweptFacts
<1> HIDE DEF S
<1>4. Live(m2) = Live(m) \ S
  BY <1>2, <1>3 DEF Live, Blank, SameFlags
<1>5. \A x \in Live(m2) : /\ SameFlags(m, m2, x) /\ x \in Cell
                          /\ m2.cell[x].next = m.cell[x].next /\ m2.cell[x].prev = m.cell[x].prev
                          /\ (Owner(m2, x) <=> Owner(m, x))
                          /\ Owner(m, x) => m2.cell[x].child = m.cell[x].child
  BY <1>2, <1>3, <1>4, Typed DEF SameFlags, Owner
<1>6. Linked(m2)
  BY <1>1, <1>3, <1>4, <1>5 DEF Linked, Owner
<1>7. OneOwner(m2)
  BY <1>1, <1>4, <1>5 DEF OneOwner, Owner
<1>8. Owns(m2)
  <2>1. Strings(m2, Live(m2)) = Strings(m, Live(m2))
    BY <1>5, StringsSame DEF OwnsSame, OwnsName, OwnsText, SameFlags
  <2>2. Strings(m, Live(m) \ S) = Strings(m, Live(m)) - Strings(m, S)
    BY <1>3, StringsLess, Typed
  <2> QED
    BY <1>1, <1>2, <1>4, <2>1, <2>2 DEF Owns
<1>9. \A x \in Live(m2) : Root(m, x) => Root(m2, x)
  BY <1>4, <1>5 DEF Root, Owner
<1>10. Known(m2)
  BY <1>1, <1>2, <1>3, <1>4, <1>5 DEF Known
<1> QED
  BY <1>2, <1>3, <1>4, <1>6, <1>7, <1>8, <1>9, <1>10 DEF Sound, Cleared, S
-----------------------------------------------------------------------------
(* Single assignments, and what stays with them.                           *)
SetNext(m, c, q)  == [m EXCEPT !.cell[c].next = q]
SetPrev(m, c, q)  == [m EXCEPT !.cell[c].prev = q]
SetChild(m, c, q) == [m EXCEPT !.cell[c].child = q]

Rewired(m, m2) ==
    m2 \in Memories /\ m2.strings = m.strings /\ \A x \in Cell : SameFlags(m, m2, x)
NextBut(m, m2, S)  == \A x \in Cell \ S : m2.cell[x].next = m.cell[x].next
PrevBut(m, m2, S)  == \A x \in Cell \ S : m2.cell[x].prev = m.cell[x].prev
ChildBut(m, m2, S) == \A x \in Cell \ S : m2.cell[x].child = m.cell[x].child

NextIs(m, m2, c, q) ==
    /\ Rewired(m, m2) /\ NextBut(m, m2, {c}) /\ m2.cell[c].next = q
    /\ PrevBut(m, m2, {}) /\ ChildBut(m, m2, {})

PrevIs(m, m2, c, q) ==
    /\ Rewired(m, m2) /\ PrevBut(m, m2, {c}) /\ m2.cell[c].prev = q
    /\ NextBut(m, m2, {}) /\ ChildBut(m, m2, {})

ChildIs(m, m2, c, q) ==
    /\ Rewired(m, m2) /\ ChildBut(m, m2, {c}) /\ m2.cell[c].child = q
    /\ NextBut(m, m2, {}) /\ PrevBut(m, m2, {})

SuffixIs(m, m2, c, d) ==
    /\ Rewired(m, m2) /\ NextBut(m, m2, {c}) /\ m2.cell[c].next = d
    /\ PrevBut(m, m2, {d}) /\ m2.cell[d].prev = c /\ ChildBut(m, m2, {})

PutIs(m, m2, c, i, s) ==
    /\ m2 \in Memories /\ m2.strings = s /\ m2.cell[c] = i
    /\ \A x \in Cell \ {c} : m2.cell[x] = m.cell[x]

LEMMA PutView ==
    ASSUME NEW m \in Memories, NEW c \in Cell, NEW i \in Item, NEW s \in Int,
           NEW m2, m2 = [m EXCEPT !.cell[c] = i, !.strings = s]
    PROVE  PutIs(m, m2, c, i, s)
BY DEF Memories, PutIs

LEMMA SetNextView ==
    ASSUME NEW m \in Memories, NEW c \in Cell, NEW q \in Pointer, NEW m2, m2 = SetNext(m, c, q)
    PROVE  NextIs(m, m2, c, q)
BY DEF NextIs, SetNext, Memories, Item, SameFlags, Rewired, NextBut, PrevBut, ChildBut

LEMMA SetPrevView ==
    ASSUME NEW m \in Memories, NEW c \in Cell, NEW q \in Pointer, NEW m2, m2 = SetPrev(m, c, q)
    PROVE  PrevIs(m, m2, c, q)
BY DEF PrevIs, SetPrev, Memories, Item, SameFlags, Rewired, NextBut, PrevBut, ChildBut

LEMMA SetChildView ==
    ASSUME NEW m \in Memories, NEW c \in Cell, NEW q \in Pointer, NEW m2, m2 = SetChild(m, c, q)
    PROVE  ChildIs(m, m2, c, q)
BY DEF ChildIs, SetChild, Memories, Item, SameFlags, Rewired, NextBut, PrevBut, ChildBut

LEMMA SuffixView ==
    ASSUME NEW m \in Memories, NEW c \in Cell, NEW d \in Cell, NEW m2, m2 = Suffix(m, c, d)
    PROVE  SuffixIs(m, m2, c, d)
<1>1. c \in Pointer /\ d \in Pointer
  BY DEF Pointer
<1>2. PICK a : a = SetNext(m, c, d)
  OBVIOUS
<1>3. NextIs(m, a, c, d)
  BY <1>1, <1>2, SetNextView
<1>4. m2 = SetPrev(a, d, c)
  BY <1>2 DEF Suffix, SetNext, SetPrev
<1>5. a \in Memories
  BY <1>3 DEF NextIs, Rewired
<1>6. PrevIs(a, m2, d, c)
  BY <1>1, <1>4, <1>5, SetPrevView
<1> QED
  BY <1>3, <1>6 DEF NextIs, PrevIs, SuffixIs, Rewired, NextBut, PrevBut, ChildBut, SameFlags

(* Links alone change neither what is alive nor what is owned.             *)
LEMMA FlagsKeep ==
    ASSUME NEW m, NEW m2, Rewired(m, m2)
    PROVE  /\ Live(m2) = Live(m) /\ \A x \in Cell : Owner(m2, x) <=> Owner(m, x)
           /\ Owns(m) => Owns(m2)
<1>1. Live(m2) = Live(m)
  BY DEF Live, SameFlags, Rewired
<1>2. \A x \in Cell : Owner(m2, x) <=> Owner(m, x)
  BY <1>1 DEF Owner, SameFlags, Rewired
<1>3. Strings(m2, Live(m)) = Strings(m, Live(m))
  <2>1. Live(m) \subseteq Cell
    BY DEF Live
  <2> QED
    BY <2>1, StringsSame DEF OwnsSame, SameFlags, Rewired, OwnsName, OwnsText
<1> QED
  BY <1>1, <1>2, <1>3 DEF Owns, Rewired

(* Items of a list are no roots.                                           *)
LEMMA ItemsNoRoot ==
    ASSUME NEW m \in Memories, Linked(m), NEW p, Owner(m, p), NEW c \in Items(m, p)
    PROVE  ~Root(m, c)
BY ItemsFacts, Typed DEF Root, Owner, Live

(* Items are linked anew, and all roots but c stay roots.                  *)
Moved(m, m2, c) ==
    /\ m2 \in Memories /\ Sound(m2) /\ Live(m2) = Live(m)
    /\ \A x \in Live(m) : Root(m, x) /\ x # c => Root(m2, x)

LEMMA AddItemKeeps ==
    ASSUME NEW m \in Memories, Sound(m), NEW p, Owner(m, p), NEW c, Root(m, c), c # p,
           NEW m2, m2 = AddItem(m, p, c)
    PROVE  Moved(m, m2, c)
<1>1. /\ Linked(m) /\ Known(m) /\ OneOwner(m) /\ Owns(m) /\ c \in Live(m) /\ p \in Live(m)
      /\ c \in Cell /\ p \in Cell /\ c \in Pointer
  BY Typed DEF Sound, Root, Owner, Pointer
<1>2. CASE m.cell[p].child = Null
  <2>1. m2 = SetChild(m, p, c)
    BY <1>2 DEF AddItem, SetChild
  <2>2. ChildIs(m, m2, p, c)
    BY <1>1, <2>1, SetChildView
  <2>3. /\ Live(m2) = Live(m) /\ \A x \in Cell : Owner(m2, x) <=> Owner(m, x)
        /\ Owns(m2)
    BY <1>1, <2>2, FlagsKeep DEF ChildIs
  <2>4. Linked(m2)
    <3>1. c # Null /\ m.cell[c].prev = Null
      BY <1>1, Typed DEF Root
    <3>2. ASSUME NEW x \in Live(m)
          PROVE  /\ x \in Cell /\ m2.cell[x].ref = m.cell[x].ref
                 /\ m2.cell[x].next = m.cell[x].next /\ m2.cell[x].prev = m.cell[x].prev
                 /\ m2.cell[x].child = IF x = p THEN c ELSE m.cell[x].child
      BY <2>2, Typed DEF ChildIs, Rewired, NextBut, PrevBut, ChildBut, SameFlags
    <3> QED
      BY <1>1, <2>3, <3>1, <3>2 DEF Linked
  <2>5. OneOwner(m2)
    BY <1>1, <2>2, <2>3, Typed DEF OneOwner, Root, ChildIs, Rewired, NextBut, PrevBut, ChildBut
  <2>6. \A x \in Live(m) : Root(m, x) /\ x # c => Root(m2, x)
    BY <1>1, <2>2, <2>3, Typed DEF Root, ChildIs, Rewired, NextBut, PrevBut, ChildBut
  <2>7. Known(m2)
    BY <1>1, <2>2, <2>3, Typed DEF Known, ChildIs, ChildBut
  <2> QED
    BY <2>2, <2>3, <2>4, <2>5, <2>6, <2>7 DEF Sound, ChildIs, Rewired, Moved
<1>3. CASE m.cell[p].child # Null
  <2> DEFINE last == Pick({d \in Items(m, p) : m.cell[d].next = Null})
  <2>1. last \in Items(m, p) /\ m.cell[last].next = Null
    BY <1>1, <1>3, LastExists DEF Pick
  <2>2. m2 = Suffix(m, last, c)
    BY <1>3 DEF AddItem
  <2> HIDE DEF last
  <2>3. last \in Live(m) /\ last \in Cell /\ last \in Pointer /\ ~Root(m, last)
    BY <1>1, <2>1, ItemsFacts, ItemsNoRoot, Typed DEF Pointer
  <2>4. SuffixIs(m, m2, last, c)
    BY <1>1, <2>2, <2>3, SuffixView
  <2>5. /\ Live(m2) = Live(m) /\ \A x \in Cell : Owner(m2, x) <=> Owner(m, x)
        /\ Owns(m2)
    BY <1>1, <2>4, FlagsKeep DEF SuffixIs
  <2>6. Linked(m2)
    <3>1. /\ m.cell[c].prev = Null /\ c # Null /\ last # Null
          /\ \A x \in Live(m) : Owner(m, x) => m.cell[x].child # c
      BY <1>1, <2>3, Typed DEF Root
    <3>2. ASSUME NEW x \in Live(m)
          PROVE  /\ x \in Cell /\ x # Null /\ m2.cell[x].child = m.cell[x].child
                 /\ m2.cell[x].ref = m.cell[x].ref
      BY <2>4, Typed DEF SuffixIs, Rewired, ChildBut, SameFlags
    <3>3. ASSUME NEW x \in Live(m), m2.cell[x].next # Null
          PROVE  m2.cell[x].next \in Live(m) /\ m2.cell[m2.cell[x].next].prev = x
      <4>1. /\ x # last => m2.cell[x].next = m.cell[x].next
            /\ m2.cell[last].next = c /\ m2.cell[c].prev = last
            /\ \A y \in Cell \ {c} : m2.cell[y].prev = m.cell[y].prev
        BY <2>4, <3>2 DEF SuffixIs, NextBut, PrevBut
      <4>2. CASE x = last
        BY <1>1, <4>1, <4>2
      <4>3. CASE x # last
        <5>1. m.cell[x].next \in Live(m) /\ m.cell[m.cell[x].next].prev = x
          BY <1>1, <3>3, <4>1, <4>3 DEF Linked
        <5>2. m.cell[x].next # c
          BY <3>1, <3>2, <5>1
        <5> QED
          BY <1>1, <4>1, <4>3, <5>1, <5>2, Typed
      <4> QED
        BY <4>2, <4>3
    <3>4. ASSUME NEW x \in Live(m), m2.cell[x].prev # Null
          PROVE  m2.cell[x].prev \in Live(m) /\ m2.cell[m2.cell[x].prev].next = x
      <4>1. CASE x = c
        BY <1>1, <2>3, <2>4, <3>1, <4>1 DEF SuffixIs
      <4>2. CASE x # c
        <5>1. m2.cell[x].prev = m.cell[x].prev
          BY <2>4, <3>2, <4>2 DEF SuffixIs, PrevBut
        <5>2. m.cell[x].prev \in Live(m) /\ m.cell[m.cell[x].prev].next = x
          BY <1>1, <3>4, <5>1 DEF Linked
        <5>3. m.cell[x].prev # last /\ m.cell[x].prev \in Cell
          BY <2>1, <3>2, <5>2
        <5> QED
          BY <2>4, <5>1, <5>2, <5>3 DEF SuffixIs, NextBut
      <4> QED
        BY <4>1, <4>2
    <3>5. ASSUME NEW x \in Live(m), m2.cell[x].child # Null, ~m2.cell[x].ref
          PROVE  m2.cell[x].child \in Live(m) /\ m2.cell[m2.cell[x].child].prev = Null
      BY <1>1, <2>3, <2>4, <3>1, <3>2, <3>5, Typed DEF Linked, Owner, SuffixIs, PrevBut
    <3> QED
      BY <2>5, <3>3, <3>4, <3>5 DEF Linked
  <2>7. OneOwner(m2)
    BY <1>1, <2>4, <2>5, Typed DEF OneOwner, SuffixIs, Rewired, NextBut, PrevBut, ChildBut
  <2>8. \A x \in Live(m) : Root(m, x) /\ x # c => Root(m2, x)
    BY <1>1, <2>3, <2>4, <2>5, Typed DEF Root, SuffixIs, Rewired, NextBut, PrevBut, ChildBut
  <2>9. Known(m2)
    BY <1>1, <2>4, <2>5, Typed DEF Known, SuffixIs, ChildBut
  <2> QED
    BY <2>4, <2>5, <2>6, <2>7, <2>8, <2>9 DEF Sound, SuffixIs, Rewired, Moved
<1> QED
  BY <1>2, <1>3
-----------------------------------------------------------------------------
(* What the calls do to the items: N is new, and all roots stay roots.     *)
Grown(m, m2, N) ==
    /\ m2 \in Memories /\ Sound(m2) /\ Live(m2) = Live(m) \cup N
    /\ \A x \in Live(m) : Root(m, x) => Root(m2, x)
    /\ \A x \in Live(m) : Owner(m, x) => Owner(m2, x)

(* A new item in free memory: in no list, owning no other, without a name. *)
Unlinked(i) ==
    /\ i \in Item /\ i.type # "free" /\ i.next = Null /\ i.prev = Null
    /\ ~i.ref => i.child = Null
    /\ i.key = NoKey

LEMMA PutKeeps ==
    ASSUME NEW m \in Memories, Sound(m), NEW n \in Cell \ Live(m), NEW i, Unlinked(i),
           i.child \in Live(m) \cup {Null, Wild},
           NEW s, s = m.strings + IF ~i.ref /\ i.type = "text" THEN 1 ELSE 0,
           NEW m2, m2 = [m EXCEPT !.cell[n] = i, !.strings = s]
    PROVE  Grown(m, m2, {n}) /\ Root(m2, n)
<1>1. /\ i \in Item /\ s \in Int /\ m.strings \in Int
      /\ Linked(m) /\ Known(m) /\ OneOwner(m) /\ Owns(m) /\ n # Null /\ n \in Cell /\ n \notin Live(m)
  BY Typed DEF Unlinked, Sound
<1>0. PutIs(m, m2, n, i, s)
  BY <1>1, PutView
<1>2. m2 \in Memories /\ m2.strings = s /\ m2.cell[n] = i
  BY <1>0 DEF PutIs
<1>3. \A x \in Cell \ {n} : m2.cell[x] = m.cell[x]
  BY <1>0 DEF PutIs
<1>4. Live(m2) = Live(m) \cup {n}
  BY <1>1, <1>2, <1>3 DEF Live, Unlinked
<1>5. \A x \in Live(m) : /\ m2.cell[x] = m.cell[x] /\ x \in Cell /\ x # n
                         /\ (Owner(m2, x) <=> Owner(m, x))
                         /\ m.cell[x].next # n /\ m.cell[x].prev # n
                         /\ Owner(m, x) => m.cell[x].child # n
  BY <1>1, <1>3, <1>4, Typed DEF Linked, Owner
<1>6. Owner(m2, n) => m2.cell[n].child = Null
  BY <1>2 DEF Owner, Unlinked
<1>7. Linked(m2)
  <2>1. ASSUME NEW x \in Live(m), m2.cell[x].next # Null
        PROVE  m2.cell[x].next \in Live(m) /\ m2.cell[m2.cell[x].next].prev = x
    BY <1>1, <1>5, <2>1 DEF Linked
  <2>2. ASSUME NEW x \in Live(m), m2.cell[x].prev # Null
        PROVE  m2.cell[x].prev \in Live(m) /\ m2.cell[m2.cell[x].prev].next = x
    BY <1>1, <1>5, <2>2 DEF Linked
  <2>3. ASSUME NEW x \in Live(m), m2.cell[x].child # Null, ~m2.cell[x].ref
        PROVE  m2.cell[x].child \in Live(m) /\ m2.cell[m2.cell[x].child].prev = Null
    BY <1>1, <1>5, <2>3 DEF Linked
  <2>4. i.next = Null /\ i.prev = Null /\ (~i.ref => i.child = Null)
    BY DEF Unlinked
  <2> QED
    BY <1>2, <1>4, <2>1, <2>2, <2>3, <2>4 DEF Linked
<1>8. OneOwner(m2)
  BY <1>1, <1>4, <1>5, <1>6 DEF OneOwner, Owner
<1>9. Owns(m2)
  <2>1. Strings(m2, Live(m)) = Strings(m, Live(m))
    <3>1. OwnsSame(m, m2, Live(m))
      BY <1>5, CellsOwnSame
    <3> QED
      BY <3>1, StringsSame
  <2>2. /\ Live(m2) \in SUBSET Cell /\ {n} \in SUBSET Live(m2) /\ Live(m2) \ {n} = Live(m)
        /\ Live(m) \in SUBSET Cell
    BY <1>1, <1>4 DEF Live
  <2>3. Strings(m2, Live(m)) = Strings(m2, Live(m2)) - Strings(m2, {n})
    BY <2>2, StringsLess
  <2>4. Strings(m2, {n}) = IF ~i.ref /\ i.type = "text" THEN 1 ELSE 0
    <3>1. ~OwnsName(m2, n) /\ (OwnsText(m2, n) <=> ~i.ref /\ i.type = "text")
      BY <1>2 DEF OwnsName, OwnsText, Unlinked
    <3> QED
      BY <1>1, <3>1, StringsOne
  <2>5. Strings(m2, Live(m2)) \in Nat /\ Strings(m, Live(m)) \in Nat
    BY <2>2, StringsType
  <2> QED
    BY <1>1, <1>2, <2>1, <2>3, <2>4, <2>5 DEF Owns
<1>10. Root(m2, n)
  BY <1>1, <1>2, <1>4, <1>5, <1>6 DEF Root, Owner, Unlinked
<1>11. \A x \in Live(m) : Root(m, x) => Root(m2, x)
  BY <1>1, <1>4, <1>5, <1>6, Typed DEF Root, Owner
<1>12. Known(m2)
  BY <1>1, <1>2, <1>4, <1>5 DEF Known
<1> QED
  BY <1>2, <1>4, <1>5, <1>7, <1>8, <1>9, <1>10, <1>11, <1>12 DEF Sound, Grown

(* A new name, or none.                                                    *)
GivenName(m, c, k, const, s) == [m EXCEPT !.cell[c].key = k, !.cell[c].const = const, !.strings = s]

LEMMA NameKeeps ==
    ASSUME NEW m \in Memories, Sound(m), NEW c \in Live(m), NEW k \in Key \cup {NoKey},
           NEW const \in BOOLEAN, NEW s,
           s = m.strings - (IF OwnsName(m, c) THEN 1 ELSE 0) + (IF k = NoKey \/ const THEN 0 ELSE 1),
           NEW m2, m2 = GivenName(m, c, k, const, s)
    PROVE  Grown(m, m2, {})
<1> DEFINE i == [m.cell[c] EXCEPT !.key = k, !.const = const]
<1>1. /\ c \in Cell /\ c \in Live(m) /\ m.strings \in Int /\ s \in Int
      /\ Linked(m) /\ Known(m) /\ OneOwner(m) /\ Owns(m)
  BY Typed DEF Sound
<1>2. /\ i \in Item /\ i.type = m.cell[c].type /\ i.ref = m.cell[c].ref
      /\ i.next = m.cell[c].next /\ i.prev = m.cell[c].prev /\ i.child = m.cell[c].child
      /\ i.key = k /\ i.const = const
  <2>1. m.cell[c] \in Item
    BY <1>1, Typed
  <2> QED
    BY <2>1 DEF Item
<1>3. m2 = [m EXCEPT !.cell[c] = i, !.strings = s]
  BY <1>1 DEF Memories, GivenName
<1> HIDE DEF i
<1>0. PutIs(m, m2, c, i, s)
  BY <1>1, <1>2, <1>3, PutView
<1>4. m2 \in Memories /\ m2.strings = s /\ m2.cell[c] = i
  BY <1>0 DEF PutIs
<1>5. \A x \in Cell \ {c} : m2.cell[x] = m.cell[x]
  BY <1>0 DEF PutIs
<1>6. \A x \in Cell : /\ m2.cell[x].type = m.cell[x].type /\ m2.cell[x].ref = m.cell[x].ref
                      /\ SameLinks(m, m2, x)
  BY <1>2, <1>4, <1>5 DEF SameLinks
<1>7. Live(m2) = Live(m) /\ \A x \in Cell : Owner(m2, x) <=> Owner(m, x)
  BY <1>6 DEF Live, Owner
<1>8. Linked(m2)
  <2>1. ASSUME NEW x \in Live(m)
        PROVE  /\ x \in Cell /\ m2.cell[x].ref = m.cell[x].ref
               /\ m2.cell[x].next = m.cell[x].next /\ m2.cell[x].prev = m.cell[x].prev
               /\ m2.cell[x].child = m.cell[x].child
    BY <1>6, Typed DEF SameLinks
  <2>2. ASSUME NEW x \in Live(m), m2.cell[x].next # Null
        PROVE  m2.cell[x].next \in Live(m) /\ m2.cell[m2.cell[x].next].prev = x
    BY <1>1, <2>1, <2>2 DEF Linked
  <2>3. ASSUME NEW x \in Live(m), m2.cell[x].prev # Null
        PROVE  m2.cell[x].prev \in Live(m) /\ m2.cell[m2.cell[x].prev].next = x
    BY <1>1, <2>1, <2>3 DEF Linked
  <2>4. ASSUME NEW x \in Live(m), m2.cell[x].child # Null, ~m2.cell[x].ref
        PROVE  m2.cell[x].child \in Live(m) /\ m2.cell[m2.cell[x].child].prev = Null
    BY <1>1, <2>1, <2>4 DEF Linked
  <2> QED
    BY <1>7, <2>2, <2>3, <2>4 DEF Linked
<1>9. OneOwner(m2)
  BY <1>1, <1>6, <1>7 DEF OneOwner, SameLinks
<1>10. Owns(m2)
  <2> DEFINE L == Live(m)
  <2>1. L \in SUBSET Cell /\ {c} \in SUBSET L /\ L \ {c} \in SUBSET Cell
    BY <1>1 DEF Live
  <2>2. Strings(m2, L \ {c}) = Strings(m, L \ {c})
    <3>1. OwnsSame(m, m2, L \ {c})
      BY <1>5, <2>1, CellsOwnSame
    <3> QED
      BY <3>1, StringsSame
  <2>3. /\ Strings(m2, L \ {c}) = Strings(m2, L) - Strings(m2, {c})
        /\ Strings(m, L \ {c}) = Strings(m, L) - Strings(m, {c})
    BY <2>1, StringsLess
  <2>4. /\ Strings(m2, {c}) = (IF OwnsName(m2, c) THEN 1 ELSE 0) + (IF OwnsText(m2, c) THEN 1 ELSE 0)
        /\ Strings(m, {c}) = (IF OwnsName(m, c) THEN 1 ELSE 0) + (IF OwnsText(m, c) THEN 1 ELSE 0)
    BY <1>1, StringsOne
  <2>5. (OwnsText(m2, c) <=> OwnsText(m, c)) /\ (OwnsName(m2, c) <=> ~(k = NoKey \/ const))
    BY <1>2, <1>4 DEF OwnsText, OwnsName
  <2>6. Strings(m2, L) \in Nat /\ Strings(m, L) \in Nat
    BY <2>1, StringsType
  <2>7. m.strings = Strings(m, L)
    BY <1>1 DEF Owns
  <2>8. Strings(m2, {c}) \in Nat /\ Strings(m, {c}) \in Nat
    BY <1>1, StringsType
  <2> HIDE DEF L
  <2>9. Strings(m2, L) = Strings(m, L) - Strings(m, {c}) + Strings(m2, {c})
    <3>1. \A v, w, x, y \in Int : v - w = x - y => v = x - y + w
      OBVIOUS
    <3>2. Strings(m2, L) - Strings(m2, {c}) = Strings(m, L) - Strings(m, {c})
      BY <2>2, <2>3
    <3> QED
      BY <2>6, <2>8, <3>1, <3>2
  <2>10. m2.strings = Strings(m2, L)
    <3>1. CASE OwnsText(m, c)
      BY <1>4, <2>4, <2>5, <2>6, <2>7, <2>8, <2>9, <3>1
    <3>2. CASE ~OwnsText(m, c)
      BY <1>4, <2>4, <2>5, <2>6, <2>7, <2>8, <2>9, <3>2
    <3> QED
      BY <3>1, <3>2
  <2>11. Live(m2) = L
    BY <1>7 DEF L
  <2> QED
    BY <2>10, <2>11 DEF Owns
<1>11. \A x \in Live(m) : Root(m, x) => Root(m2, x)
  <2>1. \A x \in Live(m) : x \in Cell
    BY DEF Live
  <2> QED
    BY <1>6, <1>7, <2>1 DEF Root, SameLinks
<1>12. Known(m2)
  <2>1. \A x \in Live(m) : x \in Cell
    BY DEF Live
  <2> QED
    BY <1>1, <1>6, <1>7, <2>1 DEF Known, SameLinks
<1> QED
  BY <1>1, <1>4, <1>7, <1>8, <1>9, <1>10, <1>11, <1>12, Typed DEF Sound, Grown
-----------------------------------------------------------------------------
(* Assignments under a condition.                                          *)
NextIf(m, m2, b, c, q) ==
    /\ Rewired(m, m2)
    /\ b => m2.cell[c].next = q
    /\ NextBut(m, m2, IF b THEN {c} ELSE {}) /\ PrevBut(m, m2, {}) /\ ChildBut(m, m2, {})

PrevIf(m, m2, b, c, q) ==
    /\ Rewired(m, m2)
    /\ b => m2.cell[c].prev = q
    /\ PrevBut(m, m2, IF b THEN {c} ELSE {}) /\ NextBut(m, m2, {}) /\ ChildBut(m, m2, {})

ChildIf(m, m2, b, c, q) ==
    /\ Rewired(m, m2)
    /\ b => m2.cell[c].child = q
    /\ ChildBut(m, m2, IF b THEN {c} ELSE {}) /\ NextBut(m, m2, {}) /\ PrevBut(m, m2, {})

LEMMA StaysView ==
    ASSUME NEW m \in Memories
    PROVE  Rewired(m, m) /\ NextBut(m, m, {}) /\ PrevBut(m, m, {}) /\ ChildBut(m, m, {})
BY DEF Rewired, SameFlags, NextBut, PrevBut, ChildBut, Memories

LEMMA NextIfView ==
    ASSUME NEW m \in Memories, NEW b \in BOOLEAN, NEW c, b => c \in Cell, NEW q \in Pointer,
           NEW m2, m2 = IF b THEN SetNext(m, c, q) ELSE m
    PROVE  NextIf(m, m2, b, c, q)
<1>1. CASE b
  <2>1. NextIs(m, m2, c, q)
    BY <1>1, SetNextView
  <2> QED
    BY <1>1, <2>1 DEF NextIs, NextIf
<1>2. CASE ~b
  BY <1>2, StaysView DEF NextIf
<1> QED
  BY <1>1, <1>2

LEMMA PrevIfView ==
    ASSUME NEW m \in Memories, NEW b \in BOOLEAN, NEW c, b => c \in Cell, NEW q \in Pointer,
           NEW m2, m2 = IF b THEN SetPrev(m, c, q) ELSE m
    PROVE  PrevIf(m, m2, b, c, q)
<1>1. CASE b
  <2>1. PrevIs(m, m2, c, q)
    BY <1>1, SetPrevView
  <2> QED
    BY <1>1, <2>1 DEF PrevIs, PrevIf
<1>2. CASE ~b
  BY <1>2, StaysView DEF PrevIf
<1> QED
  BY <1>1, <1>2

LEMMA ChildIfView ==
    ASSUME NEW m \in Memories, NEW b \in BOOLEAN, NEW c, b => c \in Cell, NEW q \in Pointer,
           NEW m2, m2 = IF b THEN SetChild(m, c, q) ELSE m
    PROVE  ChildIf(m, m2, b, c, q)
<1>1. CASE b
  <2>1. ChildIs(m, m2, c, q)
    BY <1>1, SetChildView
  <2> QED
    BY <1>1, <2>1 DEF ChildIs, ChildIf
<1>2. CASE ~b
  BY <1>2, StaysView DEF ChildIf
<1> QED
  BY <1>1, <1>2

DetachIs(m, m2, p, c) ==
    LET i == m.cell[c] IN
    /\ Rewired(m, m2)
    /\ NextBut(m, m2, {c, i.prev}) /\ m2.cell[c].next = Null
    /\ i.prev # Null => m2.cell[i.prev].next = i.next
    /\ PrevBut(m, m2, {c, i.next}) /\ m2.cell[c].prev = Null
    /\ i.next # Null => m2.cell[i.next].prev = i.prev
    /\ ChildBut(m, m2, IF m.cell[p].child = c THEN {p} ELSE {})
    /\ m.cell[p].child = c => m2.cell[p].child = i.next

LEMMA DetachView ==
    ASSUME NEW m \in Memories, NEW p \in Cell, NEW c \in Cell,
           m.cell[c].next \in (Cell \ {c}) \cup {Null}, m.cell[c].prev \in (Cell \ {c}) \cup {Null},
           NEW m2, m2 = Detach(m, p, c)
    PROVE  DetachIs(m, m2, p, c)
<1> DEFINE i == m.cell[c]
           a == IF i.prev # Null THEN SetNext(m, i.prev, i.next) ELSE m
           b == IF i.next # Null THEN SetPrev(a, i.next, i.prev) ELSE a
           d == IF m.cell[p].child = c THEN SetChild(b, p, i.next) ELSE b
           e == SetPrev(d, c, Null)
<1>5. m2 = SetNext(e, c, Null)
  BY DEF Detach, SetNext, SetPrev, SetChild
<1>1. a = IF i.prev # Null THEN SetNext(m, i.prev, i.next) ELSE m
  OBVIOUS
<1> HIDE DEF a
<1>2. b = IF i.next # Null THEN SetPrev(a, i.next, i.prev) ELSE a
  OBVIOUS
<1> HIDE DEF b
<1>3. d = IF m.cell[p].child = c THEN SetChild(b, p, i.next) ELSE b
  OBVIOUS
<1> HIDE DEF d
<1>4. e = SetPrev(d, c, Null)
  OBVIOUS
<1> HIDE DEF e
<1>6. /\ i.next \in Pointer /\ i.prev \in Pointer /\ Null \in Pointer
      /\ i.prev # Null => i.prev \in Cell
      /\ i.next # Null => i.next \in Cell
      /\ i.next # c /\ i.prev # c /\ c # Null
  BY Typed DEF Pointer
<1> HIDE DEF i
<1>7. NextIf(m, a, i.prev # Null, i.prev, i.next)
  BY <1>1, <1>6, NextIfView
<1>8. a \in Memories
  BY <1>7 DEF NextIf, Rewired
<1>9. PrevIf(a, b, i.next # Null, i.next, i.prev)
  BY <1>2, <1>6, <1>8, PrevIfView
<1>10. b \in Memories
  BY <1>9 DEF PrevIf, Rewired
<1>11. ChildIf(b, d, m.cell[p].child = c, p, i.next)
  BY <1>3, <1>6, <1>10, ChildIfView
<1>12. d \in Memories
  BY <1>11 DEF ChildIf, Rewired
<1>13. PrevIs(d, e, c, Null)
  BY <1>4, <1>6, <1>12, SetPrevView
<1>14. e \in Memories
  BY <1>13 DEF PrevIs, Rewired
<1>15. NextIs(e, m2, c, Null)
  BY <1>5, <1>6, <1>14, SetNextView
<1>16. Rewired(m, m2)
  BY <1>7, <1>9, <1>11, <1>13, <1>15 DEF NextIf, PrevIf, ChildIf, PrevIs, NextIs, Rewired, SameFlags
<1>17. /\ NextBut(m, m2, {c, i.prev}) /\ m2.cell[c].next = Null
       /\ i.prev # Null => m2.cell[i.prev].next = i.next
  BY <1>6, <1>7, <1>9, <1>11, <1>13, <1>15 DEF NextIf, PrevIf, ChildIf, PrevIs, NextIs, NextBut
<1>18. /\ PrevBut(m, m2, {c, i.next}) /\ m2.cell[c].prev = Null
       /\ i.next # Null => m2.cell[i.next].prev = i.prev
  BY <1>6, <1>7, <1>9, <1>11, <1>13, <1>15 DEF NextIf, PrevIf, ChildIf, PrevIs, NextIs, PrevBut
<1>19. /\ ChildBut(m, m2, IF m.cell[p].child = c THEN {p} ELSE {})
       /\ m.cell[p].child = c => m2.cell[p].child = i.next
  BY <1>6, <1>7, <1>9, <1>11, <1>13, <1>15 DEF NextIf, PrevIf, ChildIf, PrevIs, NextIs, ChildBut
<1> QED
  BY <1>16, <1>17, <1>18, <1>19 DEF DetachIs, i

(* Where an item of a list stands.                                         *)
LEMMA InList ==
    ASSUME NEW m \in Memories, Sound(m), NEW p, Owner(m, p), NEW c \in Items(m, p)
    PROVE  /\ c \in Live(m) /\ c \in Cell /\ c # Null
           /\ m.cell[c].next \in (Live(m) \ {c}) \cup {Null}
           /\ m.cell[c].prev \in (Live(m) \ {c}) \cup {Null}
           /\ m.cell[p].child = c <=> m.cell[c].prev = Null
           /\ \A q \in Cell : Owner(m, q) /\ m.cell[q].child = c => q = p
<1>1. Linked(m) /\ OneOwner(m) /\ p \in Cell
  BY Typed DEF Sound, Owner
<1>2. c \in Live(m) /\ c \in Cell /\ c # Null
  BY <1>1, ItemsFacts, Typed
<1>3. m.cell[p].child = c <=> m.cell[c].prev = Null
  <2>1. m.cell[p].child = c => m.cell[c].prev = Null
    BY <1>1, <1>2 DEF Linked, Owner
  <2>2. m.cell[p].child # c => m.cell[c].prev \in Items(m, p) /\ Items(m, p) \subseteq Live(m)
    BY <1>1, ItemsFacts
  <2>3. Null \notin Live(m)
    BY Typed
  <2> QED
    BY <2>1, <2>2, <2>3
<1>4. m.cell[c].prev \in (Live(m) \ {c}) \cup {Null}
  <2>1. m.cell[p].child # c => m.cell[c].prev # c
    BY <1>1, ItemsFacts
  <2>2. m.cell[c].prev # Null => m.cell[c].prev \in Live(m)
    BY <1>1, <1>2 DEF Linked
  <2> QED
    BY <1>2, <1>3, <2>1, <2>2
<1>5. m.cell[c].next \in (Live(m) \ {c}) \cup {Null}
  <2>1. m.cell[c].next # Null => m.cell[c].next \in Live(m) /\ m.cell[m.cell[c].next].prev = c
    BY <1>1, <1>2 DEF Linked
  <2> QED
    BY <1>2, <1>4, <2>1
<1>6. ASSUME NEW q \in Cell, Owner(m, q), m.cell[q].child = c PROVE q = p
  <2>1. m.cell[c].prev = Null
    BY <1>1, <1>2, <1>6 DEF Linked, Owner
  <2>2. m.cell[p].child = c
    BY <1>3, <2>1
  <2> QED
    BY <1>1, <1>2, <1>6, <2>2 DEF OneOwner
<1> QED
  BY <1>2, <1>3, <1>4, <1>5, <1>6

LEMMA DetachKeeps ==
    ASSUME NEW m \in Memories, Sound(m), NEW p, Owner(m, p), NEW c \in Items(m, p),
           NEW m2, m2 = Detach(m, p, c)
    PROVE  Moved(m, m2, c) /\ Root(m2, c) /\ ~Root(m, c)
<1> DEFINE i == m.cell[c]
<1>1. /\ c \in Live(m) /\ c \in Cell /\ c # Null
      /\ i.next \in (Live(m) \ {c}) \cup {Null}
      /\ i.prev \in (Live(m) \ {c}) \cup {Null}
      /\ m.cell[p].child = c <=> i.prev = Null
      /\ \A q \in Cell : Owner(m, q) /\ m.cell[q].child = c => q = p
  BY InList
<1>2. Linked(m) /\ Known(m) /\ OneOwner(m) /\ Owns(m) /\ p \in Cell /\ Live(m) \subseteq Cell /\ Null \notin Cell
  BY Typed DEF Sound, Owner
<1>3. DetachIs(m, m2, p, c)
  <2>1. i.next \in (Cell \ {c}) \cup {Null} /\ i.prev \in (Cell \ {c}) \cup {Null}
    BY <1>1, <1>2
  <2> QED
    BY <1>1, <1>2, <2>1, DetachView
<1>4. Rewired(m, m2) /\ m2 \in Memories
  BY <1>3 DEF DetachIs, Rewired
<1>5. /\ Live(m2) = Live(m) /\ \A x \in Cell : Owner(m2, x) <=> Owner(m, x)
      /\ Owns(m2)
  BY <1>2, <1>4, FlagsKeep
<1>6. /\ \A x \in Cell \ {c, i.prev} : m2.cell[x].next = m.cell[x].next
      /\ m2.cell[c].next = Null
      /\ i.prev # Null => m2.cell[i.prev].next = i.next
  BY <1>3 DEF DetachIs, NextBut
<1>7. /\ \A x \in Cell \ {c, i.next} : m2.cell[x].prev = m.cell[x].prev
      /\ m2.cell[c].prev = Null
      /\ i.next # Null => m2.cell[i.next].prev = i.prev
  BY <1>3 DEF DetachIs, PrevBut
<1>8. /\ \A x \in Cell : (m.cell[p].child = c /\ x = p) \/ m2.cell[x].child = m.cell[x].child
      /\ m.cell[p].child = c => m2.cell[p].child = i.next
  BY <1>3 DEF DetachIs, ChildBut
<1>9. \A x \in Cell : m2.cell[x].ref = m.cell[x].ref
  BY <1>4 DEF Rewired, SameFlags
<1>10. /\ i.next # Null => m.cell[i.next].prev = c
       /\ i.prev # Null => m.cell[i.prev].next = c
  BY <1>1, <1>2 DEF Linked
<1> HIDE DEF i
<1>11. ASSUME NEW x \in Live(m), m2.cell[x].next # Null
       PROVE  m2.cell[x].next \in Live(m) /\ m2.cell[m2.cell[x].next].prev = x
  <2>1. CASE x = i.prev
    BY <1>1, <1>2, <1>6, <1>7, <1>11, <2>1
  <2>2. CASE x # i.prev
    <3>1. x # c /\ m2.cell[x].next = m.cell[x].next
      BY <1>2, <1>6, <1>11, <2>2
    <3>2. m.cell[x].next \in Live(m) /\ m.cell[m.cell[x].next].prev = x
      BY <1>2, <1>11, <3>1 DEF Linked
    <3>3. m.cell[x].next # c /\ m.cell[x].next # i.next
      BY <1>1, <1>2, <1>10, <2>2, <3>1, <3>2 DEF i
    <3> QED
      BY <1>2, <1>7, <3>1, <3>2, <3>3
  <2> QED
    BY <2>1, <2>2
<1>12. ASSUME NEW x \in Live(m), m2.cell[x].prev # Null
       PROVE  m2.cell[x].prev \in Live(m) /\ m2.cell[m2.cell[x].prev].next = x
  <2>1. CASE x = i.next
    BY <1>1, <1>2, <1>6, <1>7, <1>12, <2>1
  <2>2. CASE x # i.next
    <3>1. x # c /\ m2.cell[x].prev = m.cell[x].prev
      BY <1>2, <1>7, <1>12, <2>2
    <3>2. m.cell[x].prev \in Live(m) /\ m.cell[m.cell[x].prev].next = x
      BY <1>2, <1>12, <3>1 DEF Linked
    <3>3. m.cell[x].prev # c /\ m.cell[x].prev # i.prev
      BY <1>1, <1>2, <1>10, <2>2, <3>1, <3>2 DEF i
    <3> QED
      BY <1>2, <1>6, <3>1, <3>2, <3>3
  <2> QED
    BY <2>1, <2>2
<1>13. ASSUME NEW x \in Live(m), Owner(m, x), m2.cell[x].child # Null
       PROVE  /\ m2.cell[x].child \in Live(m) /\ m2.cell[m2.cell[x].child].prev = Null
              /\ m2.cell[x].child # c
              /\ \/ x = p /\ m.cell[p].child = c /\ m2.cell[x].child = i.next
                 \/ m2.cell[x].child = m.cell[x].child
  <2>1. CASE x = p /\ m.cell[p].child = c
    BY <1>1, <1>7, <1>8, <1>13, <2>1
  <2>2. CASE ~(x = p /\ m.cell[p].child = c)
    <3>1. m2.cell[x].child = m.cell[x].child /\ x \in Cell
      BY <1>2, <1>8, <2>2
    <3>2. m.cell[x].child # c
      BY <1>1, <1>13, <2>2, <3>1
    <3>3. m.cell[x].child \in Live(m) /\ m.cell[m.cell[x].child].prev = Null
      BY <1>2, <1>13, <3>1 DEF Linked, Owner
    <3>4. m.cell[x].child # i.next
      BY <1>1, <1>2, <1>10, <3>3
    <3> QED
      BY <1>2, <1>7, <3>1, <3>2, <3>3, <3>4
  <2> QED
    BY <2>1, <2>2
<1>14. Linked(m2)
  BY <1>2, <1>5, <1>9, <1>11, <1>12, <1>13 DEF Linked, Owner
<1>15. OneOwner(m2)
  <2> SUFFICES ASSUME NEW x \in Cell, NEW y \in Cell, Owner(m, x), Owner(m, y), x # y,
                      m2.cell[x].child = m2.cell[y].child, m2.cell[x].child # Null
               PROVE  FALSE
    BY <1>5 DEF OneOwner
  <2>1. \A q \in Live(m) : Owner(m, q) /\ m.cell[q].child # Null => m.cell[m.cell[q].child].prev = Null
    BY <1>2 DEF Linked, Owner
  <2>2. x \in Live(m) /\ y \in Live(m)
    BY DEF Owner
  <2>3. \A q \in Live(m) : Owner(m, q) /\ i.next # Null => m.cell[q].child # i.next
    BY <1>1, <1>2, <1>10, <2>1
  <2> QED
    BY <1>2, <1>13, <2>2, <2>3 DEF OneOwner
<1>16. Root(m2, c)
  <2>1. \A q \in Cell : Owner(m2, q) => m2.cell[q].child # c
    <3>1. \A q \in Cell : Owner(m2, q) => q \in Live(m) /\ Owner(m, q)
      BY <1>5 DEF Owner
    <3> QED
      BY <1>1, <1>13, <3>1
  <2> QED
    BY <1>1, <1>5, <1>6, <1>7, <2>1 DEF Root
<1>17. ASSUME NEW x \in Live(m), Root(m, x) PROVE Root(m2, x) /\ x # c
  <2>1. x # c
    BY <1>2, <1>17, ItemsNoRoot
  <2>2. x # i.prev /\ x # i.next
    BY <1>1, <1>2, <1>10, <1>17 DEF Root
  <2>3. \A q \in Cell : Owner(m2, q) => m2.cell[q].child # x
    <3>1. \A q \in Cell : Owner(m2, q) => q \in Live(m) /\ Owner(m, q)
      BY <1>5 DEF Owner
    <3>2. x # Null
      BY <1>2, <1>17
    <3> QED
      BY <1>13, <1>17, <2>2, <3>1, <3>2 DEF Root
  <2> QED
    BY <1>2, <1>5, <1>6, <1>7, <1>17, <2>1, <2>2, <2>3 DEF Root
<1>18. Known(m2)
  BY <1>1, <1>2, <1>5, <1>8 DEF Known
<1> QED
  BY <1>2, <1>4, <1>5, <1>14, <1>15, <1>16, <1>17, <1>18, ItemsNoRoot DEF Sound, Moved

InsertIs(m, m2, p, after, c) ==
    LET before == m.cell[after].prev IN
    /\ Rewired(m, m2)
    /\ NextBut(m, m2, {c, before}) /\ m2.cell[c].next = after
    /\ before # Null => m2.cell[before].next = c
    /\ PrevBut(m, m2, {c, after}) /\ m2.cell[c].prev = before /\ m2.cell[after].prev = c
    /\ ChildBut(m, m2, IF before = Null THEN {p} ELSE {})
    /\ before = Null => m2.cell[p].child = c

LEMMA InsertView ==
    ASSUME NEW m \in Memories, NEW p \in Cell, NEW after \in Cell, NEW c \in Cell \ {after},
           m.cell[after].prev \in (Cell \ {c}) \cup {Null},
           m.cell[p].child = after <=> m.cell[after].prev = Null,
           NEW m2, m2 = InsertBefore(m, p, after, c)
    PROVE  InsertIs(m, m2, p, after, c)
<1> DEFINE before == m.cell[after].prev
           a == SetNext(m, c, after)
           b == SetPrev(a, c, before)
           d == SetPrev(b, after, c)
<1>1. m2 = IF m.cell[p].child = after THEN SetChild(d, p, c) ELSE SetNext(d, before, c)
  BY DEF InsertBefore, SetNext, SetPrev, SetChild
<1>2. a = SetNext(m, c, after)
  OBVIOUS
<1> HIDE DEF a
<1>3. b = SetPrev(a, c, before)
  OBVIOUS
<1> HIDE DEF b
<1>4. d = SetPrev(b, after, c)
  OBVIOUS
<1> HIDE DEF d
<1>5. /\ c \in Pointer /\ after \in Pointer /\ before \in Pointer /\ c # after /\ c # before
      /\ c \in Cell /\ after \in Cell /\ Null \notin Cell
      /\ before # Null => before \in Cell
      /\ m.cell[p].child = after <=> before = Null
  BY Typed DEF Pointer
<1> HIDE DEF before
<1>6. NextIs(m, a, c, after)
  BY <1>2, <1>5, SetNextView
<1>7. a \in Memories
  BY <1>6 DEF NextIs, Rewired
<1>8. PrevIs(a, b, c, before)
  BY <1>3, <1>5, <1>7, SetPrevView
<1>9. b \in Memories
  BY <1>8 DEF PrevIs, Rewired
<1>10. PrevIs(b, d, after, c)
  BY <1>4, <1>5, <1>9, SetPrevView
<1>11. d \in Memories
  BY <1>10 DEF PrevIs, Rewired
<1>12. CASE before = Null
  <2>1. ChildIs(d, m2, p, c)
    BY <1>1, <1>5, <1>11, <1>12, SetChildView
  <2>2. Rewired(m, m2)
    BY <1>6, <1>8, <1>10, <2>1 DEF NextIs, PrevIs, ChildIs, Rewired, SameFlags
  <2>3. NextBut(m, m2, {c, before}) /\ m2.cell[c].next = after
    BY <1>5, <1>6, <1>8, <1>10, <2>1 DEF NextIs, PrevIs, ChildIs, NextBut
  <2>4. PrevBut(m, m2, {c, after}) /\ m2.cell[c].prev = before /\ m2.cell[after].prev = c
    BY <1>5, <1>6, <1>8, <1>10, <2>1 DEF NextIs, PrevIs, ChildIs, PrevBut
  <2>5. ChildBut(m, m2, {p}) /\ m2.cell[p].child = c
    BY <1>5, <1>6, <1>8, <1>10, <2>1 DEF NextIs, PrevIs, ChildIs, ChildBut
  <2> QED
    BY <1>12, <2>2, <2>3, <2>4, <2>5 DEF InsertIs, before
<1>13. CASE before # Null
  <2>1. NextIs(d, m2, before, c)
    BY <1>1, <1>5, <1>11, <1>13, SetNextView
  <2>2. Rewired(m, m2)
    BY <1>6, <1>8, <1>10, <2>1 DEF NextIs, PrevIs, Rewired, SameFlags
  <2>3. NextBut(m, m2, {c, before}) /\ m2.cell[c].next = after /\ m2.cell[before].next = c
    BY <1>5, <1>6, <1>8, <1>10, <2>1 DEF NextIs, PrevIs, NextBut
  <2>4. PrevBut(m, m2, {c, after}) /\ m2.cell[c].prev = before /\ m2.cell[after].prev = c
    BY <1>5, <1>6, <1>8, <1>10, <2>1 DEF NextIs, PrevIs, PrevBut
  <2>5. ChildBut(m, m2, {})
    BY <1>5, <1>6, <1>8, <1>10, <2>1 DEF NextIs, PrevIs, ChildBut
  <2> QED
    BY <1>13, <2>2, <2>3, <2>4, <2>5 DEF InsertIs, before
<1> QED
  BY <1>12, <1>13

LEMMA InsertKeeps ==
    ASSUME NEW m \in Memories, Sound(m), NEW p, Owner(m, p), NEW after \in Items(m, p),
           NEW c, Root(m, c), NEW m2, m2 = InsertBefore(m, p, after, c)
    PROVE  Moved(m, m2, c)
<1> DEFINE before == m.cell[after].prev
<1>1. /\ after \in Live(m) /\ after \in Cell /\ after # Null
      /\ before \in (Live(m) \ {after}) \cup {Null}
      /\ m.cell[p].child = after <=> before = Null
      /\ \A q \in Cell : Owner(m, q) /\ m.cell[q].child = after => q = p
  BY InList
<1>2. /\ Linked(m) /\ Known(m) /\ OneOwner(m) /\ Owns(m) /\ p \in Cell /\ Live(m) \subseteq Cell /\ Null \notin Cell
      /\ Owner(m, p) /\ p \in Live(m)
  BY Typed DEF Sound, Owner
<1>3. before # Null => m.cell[before].next = after
  BY <1>1, <1>2 DEF Linked
<1>4. /\ c \in Live(m) /\ c \in Cell /\ c # Null /\ m.cell[c].next = Null /\ m.cell[c].prev = Null
      /\ \A q \in Cell : Owner(m, q) => m.cell[q].child # c
      /\ c # after /\ c # before
  <2>1. c # after
    BY <1>2, ItemsNoRoot
  <2> QED
    BY <1>1, <1>2, <1>3, <2>1 DEF Root
<1>5. InsertIs(m, m2, p, after, c)
  <2>1. before \in (Cell \ {c}) \cup {Null} /\ c \in Cell \ {after}
    BY <1>1, <1>2, <1>4
  <2> QED
    BY <1>1, <1>2, <2>1, InsertView
<1>6. Rewired(m, m2) /\ m2 \in Memories
  BY <1>5 DEF InsertIs, Rewired
<1>7. /\ Live(m2) = Live(m) /\ \A x \in Cell : Owner(m2, x) <=> Owner(m, x)
      /\ Owns(m2)
  BY <1>2, <1>6, FlagsKeep
<1>8. /\ \A x \in Cell \ {c, before} : m2.cell[x].next = m.cell[x].next
      /\ m2.cell[c].next = after
      /\ before # Null => m2.cell[before].next = c
  BY <1>5 DEF InsertIs, NextBut
<1>9. /\ \A x \in Cell \ {c, after} : m2.cell[x].prev = m.cell[x].prev
      /\ m2.cell[c].prev = before /\ m2.cell[after].prev = c
  BY <1>5 DEF InsertIs, PrevBut
<1>10. /\ \A x \in Cell : (before = Null /\ x = p) \/ m2.cell[x].child = m.cell[x].child
       /\ before = Null => m2.cell[p].child = c
  BY <1>5 DEF InsertIs, ChildBut
<1>11. \A x \in Cell : m2.cell[x].ref = m.cell[x].ref
  BY <1>6 DEF Rewired, SameFlags
<1>12. \A x \in Live(m) : m.cell[x].next = after => x = before
  BY <1>1, <1>2 DEF Linked
<1>13. \A x \in Live(m) : before # Null /\ m.cell[x].prev = before => x = after
  BY <1>2, <1>3 DEF Linked
<1> HIDE DEF before
<1>14. ASSUME NEW x \in Live(m), m2.cell[x].next # Null
       PROVE  m2.cell[x].next \in Live(m) /\ m2.cell[m2.cell[x].next].prev = x
  <2>1. CASE x = c \/ x = before
    BY <1>1, <1>2, <1>4, <1>8, <1>9, <2>1
  <2>2. CASE x # c /\ x # before
    <3>1. m2.cell[x].next = m.cell[x].next
      BY <1>2, <1>8, <2>2
    <3>2. m.cell[x].next \in Live(m) /\ m.cell[m.cell[x].next].prev = x
      BY <1>2, <1>14, <3>1 DEF Linked
    <3>3. m.cell[x].next # c /\ m.cell[x].next # after
      BY <1>2, <1>4, <1>12, <2>2, <3>2
    <3> QED
      BY <1>2, <1>9, <3>1, <3>2, <3>3
  <2> QED
    BY <2>1, <2>2
<1>15. ASSUME NEW x \in Live(m), m2.cell[x].prev # Null
       PROVE  m2.cell[x].prev \in Live(m) /\ m2.cell[m2.cell[x].prev].next = x
  <2>1. CASE x = c \/ x = after
    BY <1>1, <1>2, <1>4, <1>8, <1>9, <1>15, <2>1
  <2>2. CASE x # c /\ x # after
    <3>1. m2.cell[x].prev = m.cell[x].prev
      BY <1>2, <1>9, <2>2
    <3>2. m.cell[x].prev \in Live(m) /\ m.cell[m.cell[x].prev].next = x
      BY <1>2, <1>15, <3>1 DEF Linked
    <3>3. m.cell[x].prev # c /\ m.cell[x].prev # before
      BY <1>2, <1>4, <1>13, <2>2, <3>2
    <3> QED
      BY <1>2, <1>8, <3>1, <3>2, <3>3
  <2> QED
    BY <2>1, <2>2
<1>16. ASSUME NEW x \in Live(m), Owner(m, x), m2.cell[x].child # Null
       PROVE  /\ m2.cell[x].child \in Live(m) /\ m2.cell[m2.cell[x].child].prev = Null
              /\ \/ x = p /\ m2.cell[x].child = c
                 \/ m2.cell[x].child = m.cell[x].child
  <2>1. CASE x = p /\ before = Null
    BY <1>4, <1>9, <1>10, <2>1
  <2>2. CASE ~(x = p /\ before = Null)
    <3>1. m2.cell[x].child = m.cell[x].child /\ x \in Cell
      BY <1>2, <1>10, <2>2
    <3>2. m.cell[x].child # after
      BY <1>1, <1>16, <2>2, <3>1
    <3>3. m.cell[x].child \in Live(m) /\ m.cell[m.cell[x].child].prev = Null
      BY <1>2, <1>16, <3>1 DEF Linked, Owner
    <3>4. m.cell[x].child # c
      BY <1>4, <1>16, <3>1
    <3> QED
      BY <1>2, <1>9, <3>1, <3>2, <3>3, <3>4
  <2> QED
    BY <2>1, <2>2
<1>17. Linked(m2)
  BY <1>2, <1>7, <1>11, <1>14, <1>15, <1>16 DEF Linked, Owner
<1>18. OneOwner(m2)
  <2> SUFFICES ASSUME NEW x \in Cell, NEW y \in Cell, Owner(m, x), Owner(m, y), x # y,
                      m2.cell[x].child = m2.cell[y].child, m2.cell[x].child # Null
               PROVE  FALSE
    BY <1>7 DEF OneOwner
  <2>1. x \in Live(m) /\ y \in Live(m)
    BY DEF Owner
  <2> QED
    BY <1>2, <1>4, <1>16, <2>1 DEF OneOwner
<1>19. ASSUME NEW x \in Live(m), Root(m, x), x # c PROVE Root(m2, x)
  <2>1. x # after
    BY <1>2, <1>19, ItemsNoRoot
  <2>2. x # before
    BY <1>1, <1>2, <1>3, <1>19 DEF Root
  <2>3. \A q \in Cell : Owner(m2, q) => m2.cell[q].child # x
    <3>1. \A q \in Cell : Owner(m2, q) => q \in Live(m) /\ Owner(m, q)
      BY <1>7 DEF Owner
    <3>2. x # Null
      BY <1>2, <1>19
    <3> QED
      BY <1>16, <1>19, <3>1, <3>2 DEF Root
  <2> QED
    BY <1>2, <1>7, <1>8, <1>9, <1>19, <2>1, <2>2, <2>3 DEF Root
<1>20. Known(m2)
  BY <1>1, <1>2, <1>4, <1>7, <1>10 DEF Known
<1> QED
  BY <1>6, <1>7, <1>17, <1>18, <1>19, <1>20 DEF Sound, Moved

(* cJSON_ReplaceItemViaPointer before it deletes the old item.             *)
Exchanged(m, p, c, r) ==
    LET i == m.cell[c]
        a == SetPrev(SetNext(m, r, i.next), r, i.prev)
        b == IF i.next # Null THEN SetPrev(a, i.next, r) ELSE a
        d == IF i.prev # Null THEN SetNext(b, i.prev, r) ELSE b
        e == IF m.cell[p].child = c THEN SetChild(d, p, r) ELSE d
    IN SetPrev(SetNext(e, c, Null), c, Null)

LEMMA ReplaceIsDelete ==
    ASSUME NEW m, NEW p, NEW c, NEW r
    PROVE  Replace(m, p, c, r) = Delete(Exchanged(m, p, c, r), c)
BY DEF Replace, Exchanged, SetNext, SetPrev, SetChild

ExchangeIs(m, m2, p, c, r) ==
    LET i == m.cell[c] IN
    /\ Rewired(m, m2)
    /\ NextBut(m, m2, {c, r, i.prev}) /\ m2.cell[c].next = Null /\ m2.cell[r].next = i.next
    /\ i.prev # Null => m2.cell[i.prev].next = r
    /\ PrevBut(m, m2, {c, r, i.next}) /\ m2.cell[c].prev = Null /\ m2.cell[r].prev = i.prev
    /\ i.next # Null => m2.cell[i.next].prev = r
    /\ ChildBut(m, m2, IF m.cell[p].child = c THEN {p} ELSE {})
    /\ m.cell[p].child = c => m2.cell[p].child = r

LEMMA ExchangeView ==
    ASSUME NEW m \in Memories, NEW p \in Cell, NEW c \in Cell, NEW r \in Cell \ {c},
           m.cell[c].next \in (Cell \ {c, r}) \cup {Null},
           m.cell[c].prev \in (Cell \ {c, r}) \cup {Null},
           NEW m2, m2 = Exchanged(m, p, c, r)
    PROVE  ExchangeIs(m, m2, p, c, r)
<1> DEFINE i == m.cell[c]
           n == SetNext(m, r, i.next)
           a == SetPrev(n, r, i.prev)
           b == IF i.next # Null THEN SetPrev(a, i.next, r) ELSE a
           d == IF i.prev # Null THEN SetNext(b, i.prev, r) ELSE b
           e == IF m.cell[p].child = c THEN SetChild(d, p, r) ELSE d
           f == SetNext(e, c, Null)
<1>1. m2 = SetPrev(f, c, Null)
  BY DEF Exchanged
<1>2. n = SetNext(m, r, i.next)
  OBVIOUS
<1> HIDE DEF n
<1>3. a = SetPrev(n, r, i.prev)
  OBVIOUS
<1> HIDE DEF a
<1>4. b = IF i.next # Null THEN SetPrev(a, i.next, r) ELSE a
  OBVIOUS
<1> HIDE DEF b
<1>5. d = IF i.prev # Null THEN SetNext(b, i.prev, r) ELSE b
  OBVIOUS
<1> HIDE DEF d
<1>6. e = IF m.cell[p].child = c THEN SetChild(d, p, r) ELSE d
  OBVIOUS
<1> HIDE DEF e
<1>7. f = SetNext(e, c, Null)
  OBVIOUS
<1> HIDE DEF f
<1>8. /\ i.next \in Pointer /\ i.prev \in Pointer /\ Null \in Pointer /\ r \in Pointer
      /\ i.prev # Null => i.prev \in Cell
      /\ i.next # Null => i.next \in Cell
      /\ i.next # c /\ i.prev # c /\ c # Null /\ r # c /\ r # i.next /\ r # i.prev
      /\ r # Null /\ r \in Cell
  BY Typed DEF Pointer
<1> HIDE DEF i
<1>9. NextIs(m, n, r, i.next)
  BY <1>2, <1>8, SetNextView
<1>10. n \in Memories
  BY <1>9 DEF NextIs, Rewired
<1>11. PrevIs(n, a, r, i.prev)
  BY <1>3, <1>8, <1>10, SetPrevView
<1>12. a \in Memories
  BY <1>11 DEF PrevIs, Rewired
<1>13. PrevIf(a, b, i.next # Null, i.next, r)
  BY <1>4, <1>8, <1>12, PrevIfView
<1>14. b \in Memories
  BY <1>13 DEF PrevIf, Rewired
<1>15. NextIf(b, d, i.prev # Null, i.prev, r)
  BY <1>5, <1>8, <1>14, NextIfView
<1>16. d \in Memories
  BY <1>15 DEF NextIf, Rewired
<1>17. ChildIf(d, e, m.cell[p].child = c, p, r)
  BY <1>6, <1>8, <1>16, ChildIfView
<1>18. e \in Memories
  BY <1>17 DEF ChildIf, Rewired
<1>19. NextIs(e, f, c, Null)
  BY <1>7, <1>8, <1>18, SetNextView
<1>20. f \in Memories
  BY <1>19 DEF NextIs, Rewired
<1>21. PrevIs(f, m2, c, Null)
  BY <1>1, <1>8, <1>20, SetPrevView
<1>22. Rewired(m, m2)
  <2>1. Rewired(m, n) /\ Rewired(n, a) /\ Rewired(a, b) /\ Rewired(b, d) /\ Rewired(d, e)
        /\ Rewired(e, f) /\ Rewired(f, m2)
    BY <1>9, <1>11, <1>13, <1>15, <1>17, <1>19, <1>21 DEF NextIf, PrevIf, ChildIf, PrevIs, NextIs
  <2> QED
    BY <2>1 DEF Rewired, SameFlags
<1>23. /\ NextBut(m, m2, {c, r, i.prev}) /\ m2.cell[c].next = Null /\ m2.cell[r].next = i.next
       /\ i.prev # Null => m2.cell[i.prev].next = r
  BY <1>8, <1>9, <1>11, <1>13, <1>15, <1>17, <1>19, <1>21
     DEF NextIf, PrevIf, ChildIf, PrevIs, NextIs, NextBut
<1>24. /\ PrevBut(m, m2, {c, r, i.next}) /\ m2.cell[c].prev = Null /\ m2.cell[r].prev = i.prev
       /\ i.next # Null => m2.cell[i.next].prev = r
  BY <1>8, <1>9, <1>11, <1>13, <1>15, <1>17, <1>19, <1>21
     DEF NextIf, PrevIf, ChildIf, PrevIs, NextIs, PrevBut
<1>25. /\ ChildBut(m, m2, IF m.cell[p].child = c THEN {p} ELSE {})
       /\ m.cell[p].child = c => m2.cell[p].child = r
  BY <1>8, <1>9, <1>11, <1>13, <1>15, <1>17, <1>19, <1>21
     DEF NextIf, PrevIf, ChildIf, PrevIs, NextIs, ChildBut
<1> QED
  BY <1>22, <1>23, <1>24, <1>25 DEF ExchangeIs, i

LEMMA ExchangeKeeps ==
    ASSUME NEW m \in Memories, Sound(m), NEW p, Owner(m, p), NEW c \in Items(m, p),
           NEW r, Root(m, r), NEW m2, m2 = Exchanged(m, p, c, r)
    PROVE  Moved(m, m2, r) /\ Root(m2, c) /\ ~Root(m, c)
<1> DEFINE i == m.cell[c]
<1>1. /\ c \in Live(m) /\ c \in Cell /\ c # Null
      /\ i.next \in (Live(m) \ {c}) \cup {Null}
      /\ i.prev \in (Live(m) \ {c}) \cup {Null}
      /\ m.cell[p].child = c <=> i.prev = Null
      /\ \A q \in Cell : Owner(m, q) /\ m.cell[q].child = c => q = p
  BY InList
<1>2. /\ Linked(m) /\ Known(m) /\ OneOwner(m) /\ Owns(m) /\ p \in Cell /\ Live(m) \subseteq Cell /\ Null \notin Cell
      /\ Owner(m, p) /\ p \in Live(m)
  BY Typed DEF Sound, Owner
<1>3. /\ i.next # Null => m.cell[i.next].prev = c
      /\ i.prev # Null => m.cell[i.prev].next = c
  BY <1>1, <1>2 DEF Linked
<1>4. /\ r \in Live(m) /\ r \in Cell /\ r # Null /\ m.cell[r].next = Null /\ m.cell[r].prev = Null
      /\ \A q \in Cell : Owner(m, q) => m.cell[q].child # r
      /\ r # c /\ r # i.next /\ r # i.prev
  <2>1. r # c
    BY <1>2, ItemsNoRoot
  <2> QED
    BY <1>1, <1>2, <1>3, <2>1 DEF Root
<1>5. ExchangeIs(m, m2, p, c, r)
  <2>1. i.next \in (Cell \ {c, r}) \cup {Null} /\ i.prev \in (Cell \ {c, r}) \cup {Null}
    BY <1>1, <1>2, <1>4
  <2> QED
    BY <1>1, <1>2, <1>4, <2>1, ExchangeView
<1>6. Rewired(m, m2) /\ m2 \in Memories
  BY <1>5 DEF ExchangeIs, Rewired
<1>7. /\ Live(m2) = Live(m) /\ \A x \in Cell : Owner(m2, x) <=> Owner(m, x)
      /\ Owns(m2)
  BY <1>2, <1>6, FlagsKeep
<1>8. /\ \A x \in Cell \ {c, r, i.prev} : m2.cell[x].next = m.cell[x].next
      /\ m2.cell[c].next = Null /\ m2.cell[r].next = i.next
      /\ i.prev # Null => m2.cell[i.prev].next = r
  BY <1>5 DEF ExchangeIs, NextBut
<1>9. /\ \A x \in Cell \ {c, r, i.next} : m2.cell[x].prev = m.cell[x].prev
      /\ m2.cell[c].prev = Null /\ m2.cell[r].prev = i.prev
      /\ i.next # Null => m2.cell[i.next].prev = r
  BY <1>5 DEF ExchangeIs, PrevBut
<1>10. /\ \A x \in Cell : (i.prev = Null /\ x = p) \/ m2.cell[x].child = m.cell[x].child
       /\ i.prev = Null => m2.cell[p].child = r
  BY <1>1, <1>5 DEF ExchangeIs, ChildBut
<1>11. \A x \in Cell : m2.cell[x].ref = m.cell[x].ref
  BY <1>6 DEF Rewired, SameFlags
<1>12. /\ \A x \in Live(m) : m.cell[x].next = c => x = i.prev
       /\ \A x \in Live(m) : m.cell[x].prev = c => x = i.next
       /\ \A x \in Live(m) : i.next # Null /\ m.cell[x].next = i.next => x = c
       /\ \A x \in Live(m) : i.prev # Null /\ m.cell[x].prev = i.prev => x = c
  <2>1. \A x \in Live(m) : m.cell[x].next = c => x = i.prev
    BY <1>1, <1>2 DEF Linked
  <2>2. \A x \in Live(m) : m.cell[x].prev = c => x = i.next
    BY <1>1, <1>2 DEF Linked
  <2>3. \A x \in Live(m) : i.next # Null /\ m.cell[x].next = i.next => x = c
    BY <1>2, <1>3 DEF Linked
  <2>4. \A x \in Live(m) : i.prev # Null /\ m.cell[x].prev = i.prev => x = c
    BY <1>2, <1>3 DEF Linked
  <2> QED
    BY <2>1, <2>2, <2>3, <2>4
<1> HIDE DEF i
<1>13. ASSUME NEW x \in Live(m), m2.cell[x].next # Null
       PROVE  m2.cell[x].next \in Live(m) /\ m2.cell[m2.cell[x].next].prev = x
  <2>1. CASE x \in {c, r, i.prev}
    BY <1>1, <1>2, <1>4, <1>8, <1>9, <1>13, <2>1
  <2>2. CASE x \notin {c, r, i.prev}
    <3>1. m2.cell[x].next = m.cell[x].next
      BY <1>2, <1>8, <2>2
    <3>2. m.cell[x].next \in Live(m) /\ m.cell[m.cell[x].next].prev = x
      BY <1>2, <1>13, <3>1 DEF Linked
    <3>3. m.cell[x].next \notin {c, r, i.next}
      BY <1>2, <1>4, <1>12, <2>2, <3>2
    <3> QED
      BY <1>2, <1>9, <3>1, <3>2, <3>3
  <2> QED
    BY <2>1, <2>2
<1>14. ASSUME NEW x \in Live(m), m2.cell[x].prev # Null
       PROVE  m2.cell[x].prev \in Live(m) /\ m2.cell[m2.cell[x].prev].next = x
  <2>1. CASE x \in {c, r, i.next}
    BY <1>1, <1>2, <1>4, <1>8, <1>9, <1>14, <2>1
  <2>2. CASE x \notin {c, r, i.next}
    <3>1. m2.cell[x].prev = m.cell[x].prev
      BY <1>2, <1>9, <2>2
    <3>2. m.cell[x].prev \in Live(m) /\ m.cell[m.cell[x].prev].next = x
      BY <1>2, <1>14, <3>1 DEF Linked
    <3>3. m.cell[x].prev \notin {c, r, i.prev}
      BY <1>2, <1>4, <1>12, <2>2, <3>2
    <3> QED
      BY <1>2, <1>8, <3>1, <3>2, <3>3
  <2> QED
    BY <2>1, <2>2
<1>15. ASSUME NEW x \in Live(m), Owner(m, x), m2.cell[x].child # Null
       PROVE  /\ m2.cell[x].child \in Live(m) /\ m2.cell[m2.cell[x].child].prev = Null
              /\ m2.cell[x].child # c
              /\ \/ x = p /\ m2.cell[x].child = r
                 \/ m2.cell[x].child = m.cell[x].child
  <2>1. CASE x = p /\ i.prev = Null
    BY <1>4, <1>9, <1>10, <2>1
  <2>2. CASE ~(x = p /\ i.prev = Null)
    <3>1. m2.cell[x].child = m.cell[x].child /\ x \in Cell
      BY <1>2, <1>10, <2>2
    <3>2. m.cell[x].child # c
      BY <1>1, <1>15, <2>2, <3>1
    <3>3. m.cell[x].child \in Live(m) /\ m.cell[m.cell[x].child].prev = Null
      BY <1>2, <1>15, <3>1 DEF Linked, Owner
    <3>4. m.cell[x].child # i.next /\ m.cell[x].child # r
      BY <1>1, <1>2, <1>3, <1>4, <1>15, <3>1, <3>3
    <3> QED
      BY <1>2, <1>9, <3>1, <3>2, <3>3, <3>4
  <2> QED
    BY <2>1, <2>2
<1>16. Linked(m2)
  BY <1>2, <1>7, <1>11, <1>13, <1>14, <1>15 DEF Linked, Owner
<1>17. OneOwner(m2)
  <2> SUFFICES ASSUME NEW x \in Cell, NEW y \in Cell, Owner(m, x), Owner(m, y), x # y,
                      m2.cell[x].child = m2.cell[y].child, m2.cell[x].child # Null
               PROVE  FALSE
    BY <1>7 DEF OneOwner
  <2>1. x \in Live(m) /\ y \in Live(m)
    BY DEF Owner
  <2> QED
    BY <1>2, <1>4, <1>15, <2>1 DEF OneOwner
<1>18. \A q \in Cell : Owner(m2, q) => q \in Live(m) /\ Owner(m, q)
  BY <1>7 DEF Owner
<1>19. Root(m2, c)
  <2>1. \A q \in Cell : Owner(m2, q) => m2.cell[q].child # c
    BY <1>1, <1>15, <1>18
  <2> QED
    BY <1>1, <1>7, <1>8, <1>9, <2>1 DEF Root
<1>20. ASSUME NEW x \in Live(m), Root(m, x), x # r PROVE Root(m2, x) /\ x # c
  <2>1. x # c
    BY <1>2, <1>20, ItemsNoRoot
  <2>2. x # i.prev /\ x # i.next
    BY <1>1, <1>2, <1>3, <1>20 DEF Root
  <2>3. \A q \in Cell : Owner(m2, q) => m2.cell[q].child # x
    <3>1. x # Null
      BY <1>2, <1>20
    <3> QED
      BY <1>15, <1>18, <1>20, <3>1 DEF Root
  <2> QED
    BY <1>2, <1>7, <1>8, <1>9, <1>20, <2>1, <2>2, <2>3 DEF Root
<1>21. Known(m2)
  BY <1>1, <1>2, <1>4, <1>7, <1>10 DEF Known
<1> QED
  BY <1>2, <1>6, <1>7, <1>16, <1>17, <1>19, <1>20, <1>21, ItemsNoRoot DEF Sound, Moved
-----------------------------------------------------------------------------
(* Copies.                                                                 *)
LEMMA AtFacts ==
    ASSUME NEW N, NEW n \in N, NEW via \in [N \ {n} -> Link(N)],
           \A x, y \in N \ {n} : via[x] = via[y] => x = y, NEW l
    PROVE  /\ At(via, l) # Null => At(via, l) \in N \ {n} /\ via[At(via, l)] = l
           /\ \A x \in N \ {n} : via[x] = l => At(via, l) = x
<1> DEFINE A == {x \in DOMAIN via : via[x] = l}
<1>1. DOMAIN via = N \ {n}
  OBVIOUS
<1>2. At(via, l) = IF A = {} THEN Null ELSE CHOOSE x \in A : TRUE
  BY DEF At, Pick
<1>3. A # {} => (CHOOSE x \in A : TRUE) \in A
  OBVIOUS
<1>4. At(via, l) # Null => At(via, l) \in A
  BY <1>2, <1>3
<1>5. \A x \in A : At(via, l) \in A
  BY <1>2, <1>3
<1> QED
  BY <1>1, <1>4, <1>5

CopyIs(m, m2, N, of, via) ==
    /\ m2 \in Memories
    /\ m2.strings = m.strings + Cardinality({x \in N : m.cell[of[x]].type = "text"})
                              + Cardinality({x \in N : OwnsName(m, of[x])})
    /\ \A x \in Cell \ N : m2.cell[x] = m.cell[x]
    /\ \A x \in N : /\ m2.cell[x].type = m.cell[of[x]].type /\ m2.cell[x].ref = FALSE
                    /\ m2.cell[x].key = m.cell[of[x]].key
                    /\ m2.cell[x].const = m.cell[of[x]].const
                    /\ m2.cell[x].child = At(via, <<x, "child">>)
                    /\ m2.cell[x].next = At(via, <<x, "next">>)
                    /\ m2.cell[x].prev = IF x \in DOMAIN via /\ via[x][2] = "next" THEN via[x][1] ELSE Null

LEMMA CopyView ==
    ASSUME NEW m \in Memories, NEW N \in SUBSET Cell, NEW n \in N, NEW of \in [N -> Cell],
           NEW via \in [N \ {n} -> Link(N)],
           \A x, y \in N \ {n} : via[x] = via[y] => x = y,
           NEW m2, m2 = Copied(m, N, of, via)
    PROVE  CopyIs(m, m2, N, of, via)
<1> DEFINE Prev(x) == IF x \in DOMAIN via /\ via[x][2] = "next" THEN via[x][1] ELSE Null
           Made(x) == [m.cell[of[x]] EXCEPT
                         !.ref = FALSE, !.child = At(via, <<x, "child">>),
                         !.next = At(via, <<x, "next">>), !.prev = Prev(x)]
           F == [x \in Cell |-> IF x \notin N THEN m.cell[x] ELSE Made(x)]
           s == m.strings + Cardinality({x \in N : m.cell[of[x]].type = "text"})
                          + Cardinality({x \in N : OwnsName(m, of[x])})
<1>1. m2.cell = F /\ m2.strings = s /\ m2 = [cell |-> m2.cell, strings |-> m2.strings]
  BY DEF Copied
<1>2. s \in Int
  <2> DEFINE A == {x \in N : m.cell[of[x]].type = "text"}
             B == {x \in N : OwnsName(m, of[x])}
  <2>1. IsFiniteSet(A) /\ IsFiniteSet(B)
    BY CJsonAssumption, FS_Subset
  <2> HIDE DEF A, B
  <2>2. Cardinality(A) \in Nat /\ Cardinality(B) \in Nat
    BY <2>1, FS_CardinalityType
  <2>3. s = m.strings + Cardinality(A) + Cardinality(B) /\ m.strings \in Int
    BY Typed DEF A, B
  <2> HIDE DEF s
  <2> QED
    BY <2>2, <2>3
<1>3. ASSUME NEW x \in N
      PROVE  /\ Made(x) \in Item /\ Made(x).ref = FALSE
             /\ Made(x).type = m.cell[of[x]].type /\ Made(x).key = m.cell[of[x]].key
             /\ Made(x).const = m.cell[of[x]].const
             /\ Made(x).child = At(via, <<x, "child">>)
             /\ Made(x).next = At(via, <<x, "next">>) /\ Made(x).prev = Prev(x)
  <2>1. m.cell[of[x]] \in Item
    BY Typed
  <2>2. ASSUME NEW l PROVE At(via, l) \in Pointer
    <3>1. At(via, l) # Null => At(via, l) \in N \ {n}
      BY AtFacts
    <3> QED
      BY <3>1 DEF Pointer
  <2>3. Prev(x) \in Pointer
    BY DEF Link, Pointer
  <2> HIDE DEF Prev
  <2> QED
    BY <2>1, <2>2, <2>3 DEF Item
<1> HIDE DEF Made
<1>4. F \in [Cell -> Item]
  BY <1>3, Typed
<1>5. m2 \in Memories
  <2> HIDE DEF F, s
  <2> QED
    BY <1>1, <1>2, <1>4 DEF Memories
<1>6. \A x \in Cell : m2.cell[x] = IF x \notin N THEN m.cell[x] ELSE Made(x)
  BY <1>1
<1>7. m2.strings = s
  BY <1>1
<1>8. \A x \in Cell \ N : m2.cell[x] = m.cell[x]
  BY <1>6
<1>9. \A x \in N : m2.cell[x] = Made(x)
  BY <1>6
<1>10. ASSUME NEW x \in N
       PROVE  /\ m2.cell[x].type = m.cell[of[x]].type /\ m2.cell[x].ref = FALSE
              /\ m2.cell[x].key = m.cell[of[x]].key
              /\ m2.cell[x].const = m.cell[of[x]].const
              /\ m2.cell[x].child = At(via, <<x, "child">>)
              /\ m2.cell[x].next = At(via, <<x, "next">>)
              /\ m2.cell[x].prev = Prev(x)
  <2>1. m2.cell[x] = Made(x)
    BY <1>9
  <2> HIDE DEF s, Prev
  <2> QED
    BY <1>3, <2>1
<1> QED
  BY <1>5, <1>7, <1>8, <1>10 DEF CopyIs

(* A copy of something alive, of as much of it as there is memory for.     *)
LEMMA CopyKeeps ==
    ASSUME NEW m \in Memories, Sound(m), NEW N \in SUBSET (Cell \ Live(m)), NEW n \in N,
           NEW c \in Live(m), NEW of \in [N -> Cell], NEW via \in [N \ {n} -> Link(N)],
           IsCopy(m, c, N, n, of, via),
           NEW m2, m2 = Copied(m, N, of, via)
    PROVE  Grown(m, m2, N) /\ Root(m2, n)
<1>1. /\ Linked(m) /\ Known(m) /\ OneOwner(m) /\ Owns(m) /\ N \subseteq Cell /\ n \in N
      /\ Live(m) \subseteq Cell /\ Null \notin Cell /\ Wild \notin Cell
      /\ N \cap Live(m) = {} /\ Null \notin N /\ Null \notin Live(m) /\ c \in Live(m)
  BY Typed DEF Sound
<1>2. /\ of[n] = c /\ \A x \in N \ {n} : via[x] # <<n, "next">>
      /\ \A x \in N \ {n} : of[x] = IF via[x][2] = "next" THEN m.cell[of[via[x][1]]].next
                                                          ELSE m.cell[of[via[x][1]]].child
      /\ \A x, y \in N \ {n} : via[x] = via[y] => x = y
      /\ Swept(m2, {n}) = N
  BY DEF IsCopy
<1>3. CopyIs(m, m2, N, of, via)
  BY <1>1, <1>2, CopyView
<1>4. m2 \in Memories
  BY <1>3 DEF CopyIs
<1>5. \A x \in Cell \ N : m2.cell[x] = m.cell[x]
  BY <1>3 DEF CopyIs
<1>6. \A x \in N : /\ m2.cell[x].type = m.cell[of[x]].type /\ m2.cell[x].ref = FALSE
                   /\ m2.cell[x].key = m.cell[of[x]].key
                   /\ m2.cell[x].const = m.cell[of[x]].const
  BY <1>3 DEF CopyIs
<1>7. \A x \in N : /\ m2.cell[x].child = At(via, <<x, "child">>)
                   /\ m2.cell[x].next = At(via, <<x, "next">>)
  BY <1>3 DEF CopyIs
<1>8. \A x \in N : m2.cell[x].prev = IF x \in N \ {n} /\ via[x][2] = "next" THEN via[x][1] ELSE Null
  BY <1>3 DEF CopyIs
<1>9. \A x \in N \ {n} : /\ via[x] \in Link(N) /\ via[x] = <<via[x][1], via[x][2]>>
                         /\ via[x][1] \in N /\ via[x][2] \in {"child", "next"}
  BY DEF Link
<1>10. ASSUME NEW l
       PROVE  /\ At(via, l) # Null => At(via, l) \in N \ {n} /\ via[At(via, l)] = l
              /\ \A x \in N \ {n} : via[x] = l => At(via, l) = x
  BY <1>2, AtFacts
<1>11. ASSUME NEW x \in N, m2.cell[x].next # Null
       PROVE  /\ m2.cell[x].next \in N \ {n} /\ via[m2.cell[x].next] = <<x, "next">>
              /\ m2.cell[m2.cell[x].next].prev = x
  <2>1. m2.cell[x].next \in N \ {n} /\ via[m2.cell[x].next] = <<x, "next">>
    <3>1. LET l == <<x, "next">> IN At(via, l) # Null => At(via, l) \in N \ {n} /\ via[At(via, l)] = l
      BY <1>10
    <3> QED
      BY <1>7, <1>11, <3>1
  <2> QED
    BY <1>8, <2>1
<1>12. ASSUME NEW x \in N, m2.cell[x].child # Null
       PROVE  /\ m2.cell[x].child \in N \ {n} /\ via[m2.cell[x].child] = <<x, "child">>
              /\ m2.cell[m2.cell[x].child].prev = Null
  <2>1. m2.cell[x].child \in N \ {n} /\ via[m2.cell[x].child] = <<x, "child">>
    <3>1. LET l == <<x, "child">> IN At(via, l) # Null => At(via, l) \in N \ {n} /\ via[At(via, l)] = l
      BY <1>10
    <3> QED
      BY <1>7, <1>12, <3>1
  <2> QED
    BY <1>8, <2>1
<1>13. ASSUME NEW x \in N, m2.cell[x].prev # Null
       PROVE  m2.cell[x].prev \in N /\ m2.cell[m2.cell[x].prev].next = x
  <2>1. x \in N \ {n} /\ via[x] = <<m2.cell[x].prev, "next">> /\ m2.cell[x].prev \in N
    BY <1>8, <1>9, <1>13
  <2> QED
    BY <1>7, <1>10, <2>1
<1>14. \A x \in N : of[x] \in Live(m)
  <2> DEFINE T == {x \in N : of[x] \in Live(m)}
             out == Owned(m2)
  <2>1. ASSUME NEW x \in T, NEW y \in out[x] PROVE y \in T
    <3>1. x \in N /\ x \in Cell /\ y \in Cell /\ of[x] \in Live(m)
          /\ (y = m2.cell[x].next \/ y = m2.cell[x].child)
      BY <1>1, <2>1 DEF Owned
    <3>2. y # Null
      BY <1>1, <3>1
    <3>3. y \in N \ {n} /\ (via[y] = <<x, "next">> \/ via[y] = <<x, "child">>)
      BY <1>11, <1>12, <3>1, <3>2
    <3>4. of[y] = m.cell[of[x]].next \/ of[y] = m.cell[of[x]].child
      BY <1>2, <3>3
    <3>5. of[y] \in Cell
      BY <3>3
    <3>6. of[y] \in Live(m)
      BY <1>1, <3>1, <3>4, <3>5 DEF Linked, Known
    <3> QED
      BY <3>3, <3>6
  <2>2. {n} \subseteq T /\ T \in SUBSET Cell
    BY <1>1, <1>2
  <2>3. N = Reach(out, {n})
    BY <1>2 DEF Swept
  <2>4. \A x \in T : out[x] \subseteq T
    BY <2>1
  <2> HIDE DEF T, out
  <2>5. N \subseteq T
    BY <2>2, <2>3, <2>4, ReachLeast
  <2> QED
    BY <2>5 DEF T
<1>15. Live(m2) = Live(m) \cup N
  BY <1>1, <1>5, <1>6, <1>14 DEF Live
<1>16. \A x \in Live(m) : /\ x \in Cell /\ x \notin N /\ m2.cell[x] = m.cell[x]
                          /\ (Owner(m2, x) <=> Owner(m, x))
                          /\ m.cell[x].child \notin N
  BY <1>1, <1>5, <1>15 DEF Owner, Known
<1>17. Linked(m2)
  <2>1. ASSUME NEW x \in Live(m), m2.cell[x].next # Null
        PROVE  m2.cell[x].next \in Live(m) /\ m2.cell[m2.cell[x].next].prev = x
    BY <1>1, <1>16, <2>1 DEF Linked
  <2>2. ASSUME NEW x \in Live(m), m2.cell[x].prev # Null
        PROVE  m2.cell[x].prev \in Live(m) /\ m2.cell[m2.cell[x].prev].next = x
    BY <1>1, <1>16, <2>2 DEF Linked
  <2>3. ASSUME NEW x \in Live(m), m2.cell[x].child # Null, ~m2.cell[x].ref
        PROVE  m2.cell[x].child \in Live(m) /\ m2.cell[m2.cell[x].child].prev = Null
    BY <1>1, <1>16, <2>3 DEF Linked
  <2> QED
    BY <1>11, <1>12, <1>13, <1>15, <2>1, <2>2, <2>3 DEF Linked
<1>18. Known(m2)
  BY <1>1, <1>12, <1>15, <1>16 DEF Known
<1>19. OneOwner(m2)
  <2> SUFFICES ASSUME NEW x \in Live(m2), NEW y \in Live(m2), Owner(m2, x), Owner(m2, y), x # y,
                      m2.cell[x].child = m2.cell[y].child, m2.cell[x].child # Null
               PROVE  FALSE
    BY DEF OneOwner, Owner
  <2>1. CASE x \in N /\ y \in N
    <3>1. <<x, "child">> = <<y, "child">>
      BY <1>12, <2>1
    <3> QED
      BY <3>1
  <2>2. CASE x \notin N /\ y \notin N
    BY <1>1, <1>15, <1>16, <2>2 DEF OneOwner
  <2>3. CASE (x \in N /\ y \notin N) \/ (x \notin N /\ y \in N)
    BY <1>12, <1>15, <1>16, <2>3
  <2> QED
    BY <2>1, <2>2, <2>3
<1>20. Owns(m2)
  <2> DEFINE A == {x \in N : m.cell[of[x]].type = "text"}
             B == {x \in N : OwnsName(m, of[x])}
  <2>1. Strings(m2, Live(m)) = Strings(m, Live(m))
    <3>1. OwnsSame(m, m2, Live(m))
      BY <1>16, CellsOwnSame
    <3> QED
      BY <3>1, StringsSame
  <2>2. A = {x \in N : OwnsText(m2, x)} /\ B = {x \in N : OwnsName(m2, x)}
    BY <1>6 DEF OwnsText, OwnsName
  <2>3. Strings(m2, N) = Cardinality(B) + Cardinality(A)
    BY <2>2 DEF Strings
  <2>4. m2.strings = m.strings + Cardinality(A) + Cardinality(B)
    BY <1>3 DEF CopyIs
  <2>5. Cardinality(A) \in Nat /\ Cardinality(B) \in Nat
    <3>1. IsFiniteSet(A) /\ IsFiniteSet(B)
      BY <1>1, CJsonAssumption, FS_Subset
    <3> QED
      BY <3>1, FS_CardinalityType
  <2>6. /\ Live(m2) \in SUBSET Cell /\ N \in SUBSET Live(m2) /\ Live(m2) \ N = Live(m)
        /\ Live(m) \in SUBSET Cell
    BY <1>1, <1>15
  <2>7. Strings(m2, Live(m)) = Strings(m2, Live(m2)) - Strings(m2, N)
    BY <2>6, StringsLess
  <2>8. Strings(m2, Live(m2)) \in Nat /\ Strings(m, Live(m)) \in Nat
    BY <2>6, StringsType
  <2>9. m.strings = Strings(m, Live(m))
    BY <1>1 DEF Owns
  <2> HIDE DEF A, B
  <2>10. \A v, w, x, y \in Int : v = w - (x + y) => w = v + y + x
    OBVIOUS
  <2>11. Strings(m, Live(m)) = Strings(m2, Live(m2)) - (Cardinality(B) + Cardinality(A))
    BY <2>1, <2>3, <2>7
  <2>12. Strings(m2, Live(m2)) = Strings(m, Live(m)) + Cardinality(A) + Cardinality(B)
    BY <2>5, <2>8, <2>10, <2>11
  <2> QED
    BY <2>4, <2>9, <2>12 DEF Owns
<1>21. Root(m2, n)
  <2>1. n \in Live(m2) /\ m2.cell[n].prev = Null
    BY <1>8, <1>15
  <2>2. m2.cell[n].next = Null
    BY <1>2, <1>11
  <2>3. \A q \in Cell : Owner(m2, q) => m2.cell[q].child # n
    BY <1>1, <1>12, <1>15, <1>16 DEF Owner
  <2> QED
    BY <2>1, <2>2, <2>3 DEF Root
<1>22. ASSUME NEW x \in Live(m), Root(m, x) PROVE Root(m2, x)
  <2>1. \A q \in Cell : Owner(m2, q) => m2.cell[q].child # x
    BY <1>1, <1>12, <1>15, <1>16, <1>22 DEF Owner, Root
  <2> QED
    BY <1>15, <1>16, <1>22, <2>1 DEF Root
<1> QED
  BY <1>4, <1>15, <1>16, <1>17, <1>18, <1>19, <1>20, <1>21, <1>22 DEF Sound, Grown
-----------------------------------------------------------------------------
(* Arrays made of a C array.                                               *)
FillIs(m, m2, f, t) ==
    LET Nth(i) == IF i \in 2..Len(f) THEN f[i] ELSE Null IN
    /\ m2 \in Memories
    /\ m2.strings = IF t = "text" THEN m.strings + Len(f) - 1 ELSE m.strings
    /\ \A x \in Cell \ ToSet(f) : m2.cell[x] = m.cell[x]
    /\ m2.cell[f[1]] = [Blank EXCEPT !.type = "array", !.child = Nth(2)]
    /\ \A i \in 2..Len(f) :
         m2.cell[f[i]] = [Blank EXCEPT !.type = t, !.next = Nth(i + 1), !.prev = Nth(i - 1)]

LEMMA FillView ==
    ASSUME NEW m \in Memories, NEW f \in Seq(Cell), Len(f) >= 1,
           \A i, j \in 1..Len(f) : f[i] = f[j] => i = j, NEW t \in {"array", "text"},
           NEW m2, m2 = Filled(m, f, t)
    PROVE  FillIs(m, m2, f, t)
<1> DEFINE Nth(i) == IF i \in 2..Len(f) THEN f[i] ELSE Null
           Made(i) == IF i = 1 THEN [Blank EXCEPT !.type = "array", !.child = Nth(2)]
                      ELSE [Blank EXCEPT !.type = t, !.next = Nth(i + 1), !.prev = Nth(i - 1)]
           Place(c) == CHOOSE i \in DOMAIN f : f[i] = c
           F == [c \in Cell |-> IF c \in ToSet(f) THEN Made(Place(c)) ELSE m.cell[c]]
           s == IF t = "text" THEN m.strings + Len(f) - 1 ELSE m.strings
<1>1. m2.cell = F /\ m2.strings = s /\ m2 = [cell |-> m2.cell, strings |-> m2.strings]
  BY DEF Filled
<1>2. /\ DOMAIN f = 1..Len(f) /\ Len(f) \in Nat /\ \A i \in 1..Len(f) : f[i] \in Cell /\ f[i] \in ToSet(f)
      /\ ToSet(f) \subseteq Cell
  BY DEF ToSet
<1>3. \A i \in 1..Len(f) : Place(f[i]) = i
  <2> SUFFICES ASSUME NEW i \in 1..Len(f) PROVE Place(f[i]) = i
    OBVIOUS
  <2>1. Place(f[i]) \in DOMAIN f /\ f[Place(f[i])] = f[i]
    BY <1>2
  <2> HIDE DEF Place
  <2> QED
    BY <1>2, <2>1
<1>4. \A c \in ToSet(f) : Place(c) \in 1..Len(f)
  BY <1>2 DEF ToSet
<1>5. s \in Int
  BY <1>2, Typed
<1>6. ASSUME NEW i \in 1..Len(f) PROVE Made(i) \in Item
  <2>1. \A j : Nth(j) \in Pointer
    BY <1>2 DEF Pointer
  <2>2. Blank \in Item /\ "array" \in Type \cup {"free"} /\ t \in Type \cup {"free"}
    BY DEF Blank, Item, Pointer, Type
  <2> HIDE DEF Nth
  <2> QED
    BY <2>1, <2>2 DEF Item
<1> HIDE DEF Place
<1>7. F \in [Cell -> Item]
  <2> HIDE DEF Made
  <2> QED
    BY <1>4, <1>6, Typed
<1>8. m2 \in Memories
  <2> HIDE DEF F, s
  <2> QED
    BY <1>1, <1>5, <1>7 DEF Memories
<1>9. \A x \in Cell \ ToSet(f) : m2.cell[x] = m.cell[x]
  BY <1>1
<1>10. \A i \in 1..Len(f) : m2.cell[f[i]] = Made(i)
  <2> HIDE DEF Made
  <2> QED
    BY <1>1, <1>2, <1>3
<1>11. m2.cell[f[1]] = [Blank EXCEPT !.type = "array", !.child = Nth(2)]
  <2>1. m2.cell[f[1]] = Made(1)
    <3> HIDE DEF Made
    <3> QED
      BY <1>2, <1>10
  <2> QED
    BY <2>1
<1>12. ASSUME NEW i \in 2..Len(f)
       PROVE  m2.cell[f[i]] = [Blank EXCEPT !.type = t, !.next = Nth(i + 1), !.prev = Nth(i - 1)]
  <2>1. m2.cell[f[i]] = Made(i)
    <3> HIDE DEF Made
    <3> QED
      BY <1>2, <1>10
  <2>2. i # 1
    OBVIOUS
  <2> QED
    BY <2>1, <2>2
<1>13. m2.strings = s
  BY <1>1
<1> HIDE DEF F
<1> QED
  BY <1>8, <1>9, <1>11, <1>12, <1>13 DEF FillIs

(* The items of an injective sequence are as many as it is long.           *)
LEMMA AsMany ==
    ASSUME NEW f \in Seq(Cell), Len(f) >= 1, \A i, j \in 1..Len(f) : f[i] = f[j] => i = j
    PROVE  Cardinality({f[i] : i \in 2..Len(f)}) = Len(f) - 1
<1> DEFINE D == 2..Len(f)
           T == {f[i] : i \in D}
           g == [i \in D |-> f[i]]
<1>1. Len(f) \in Nat
  OBVIOUS
<1>2. IsFiniteSet(D) /\ Cardinality(D) = Len(f) - 1
  <2>1. IsFiniteSet(D)
    BY <1>1, FS_Interval
  <2>2. Cardinality(D) = IF 2 > Len(f) THEN 0 ELSE Len(f) - 2 + 1
    BY <1>1, FS_Interval
  <2>3. \A k \in Nat : k >= 1 => (IF 2 > k THEN 0 ELSE k - 2 + 1) = k - 1
    OBVIOUS
  <2> HIDE DEF D
  <2> QED
    BY <1>1, <2>1, <2>2, <2>3
<1>3. g \in Bijection(D, T)
  <2>1. g \in [D -> T] /\ \A t \in T : \E i \in D : g[i] = t
    OBVIOUS
  <2>2. \A a, b \in D : g[a] = g[b] => a = b
    BY <1>1
  <2> HIDE DEF D, T, g
  <2> QED
    BY <2>1, <2>2 DEF Bijection, Injection, Surjection, IsInjective
<1>4. ExistsBijection(D, T)
  BY <1>3 DEF ExistsBijection
<1> HIDE DEF D, T
<1>5. Cardinality(T) = Cardinality(D)
  BY <1>2, <1>4, FS_Bijection
<1> QED
  BY <1>2, <1>5 DEF D, T

LEMMA FillKeeps ==
    ASSUME NEW m \in Memories, Sound(m), NEW f \in Seq(Cell \ Live(m)), Len(f) >= 1,
           \A i, j \in 1..Len(f) : f[i] = f[j] => i = j, NEW t \in {"array", "text"},
           NEW m2, m2 = Filled(m, f, t)
    PROVE  Grown(m, m2, ToSet(f)) /\ Root(m2, f[1])
<1> DEFINE Nth(i) == IF i \in 2..Len(f) THEN f[i] ELSE Null
           N == ToSet(f)
           L == Len(f)
<1>1. /\ Linked(m) /\ Known(m) /\ OneOwner(m) /\ Owns(m) /\ Live(m) \subseteq Cell
      /\ Null \notin Cell /\ Wild \notin Cell /\ Null # Wild
  BY Typed DEF Sound
<1>2. /\ L \in Nat /\ L >= 1 /\ N = {f[i] : i \in 1..L}
      /\ \A i \in 1..L : f[i] \in Cell /\ f[i] \notin Live(m) /\ f[i] # Null
      /\ \A i, j \in 1..L : f[i] = f[j] => i = j
  BY <1>1 DEF ToSet
<1>3. f \in Seq(Cell)
  BY <1>2
<1>4. FillIs(m, m2, f, t)
  BY <1>2, <1>3, FillView
<1>5. m2 \in Memories /\ m2.strings = IF t = "text" THEN m.strings + L - 1 ELSE m.strings
  BY <1>4 DEF FillIs
<1>6. \A x \in Cell \ N : m2.cell[x] = m.cell[x]
  BY <1>4 DEF FillIs
<1>7. /\ m2.cell[f[1]].type = "array" /\ m2.cell[f[1]].ref = FALSE /\ m2.cell[f[1]].key = NoKey
      /\ m2.cell[f[1]].next = Null /\ m2.cell[f[1]].prev = Null /\ m2.cell[f[1]].child = Nth(2)
  <2>1. m2.cell[f[1]] = [Blank EXCEPT !.type = "array", !.child = Nth(2)]
    BY <1>4 DEF FillIs
  <2> HIDE DEF Nth
  <2> QED
    BY <2>1 DEF Blank
<1>8. ASSUME NEW i \in 2..L
      PROVE  /\ m2.cell[f[i]].type = t /\ m2.cell[f[i]].ref = FALSE /\ m2.cell[f[i]].key = NoKey
             /\ m2.cell[f[i]].next = Nth(i + 1) /\ m2.cell[f[i]].prev = Nth(i - 1)
             /\ m2.cell[f[i]].child = Null
  <2>1. m2.cell[f[i]] = [Blank EXCEPT !.type = t, !.next = Nth(i + 1), !.prev = Nth(i - 1)]
    BY <1>4 DEF FillIs
  <2> HIDE DEF Nth
  <2> QED
    BY <2>1 DEF Blank
<1>9. /\ \A i \in 2..L : Nth(i) = f[i] /\ Nth(i) \in N /\ Nth(i) # Null /\ Nth(i) # f[1]
      /\ \A i \in Int : i \notin 2..L => Nth(i) = Null
  BY <1>2
<1> HIDE DEF Nth, N, L
<1>10. ASSUME NEW x \in N
       PROVE  x = f[1] \/ \E i \in 2..L : x = f[i]
  BY <1>2
<1>11. Live(m2) = Live(m) \cup N
  <2>1. ASSUME NEW x \in N PROVE x \in Cell /\ m2.cell[x].type # "free"
    <3>1. x \in Cell
      BY <1>2
    <3>2. m2.cell[x].type = "array" \/ m2.cell[x].type = t
      BY <1>7, <1>8, <1>10
    <3> QED
      BY <3>1, <3>2
  <2> QED
    BY <1>1, <1>6, <2>1 DEF Live
<1>12. N \subseteq Cell /\ N \cap Live(m) = {} /\ f[1] \in N
  BY <1>2
<1>13. \A x \in Live(m) : /\ x \in Cell /\ x \notin N /\ m2.cell[x] = m.cell[x]
                          /\ (Owner(m2, x) <=> Owner(m, x))
                          /\ m.cell[x].child \notin N
  BY <1>1, <1>6, <1>11, <1>12 DEF Owner, Known
<1>14. ASSUME NEW x \in N, m2.cell[x].next # Null
       PROVE  m2.cell[x].next \in N /\ m2.cell[m2.cell[x].next].prev = x
  <2>1. PICK i \in 2..L : x = f[i]
    BY <1>7, <1>10, <1>14
  <2>2. i + 1 \in 2..L /\ (i + 1) - 1 = i
    <3>1. i + 1 \in Int /\ (i + 1) - 1 = i
      BY <1>2
    <3>2. Nth(i + 1) # Null
      BY <1>8, <1>14, <2>1
    <3> QED
      BY <1>9, <3>1, <3>2
  <2>3. m2.cell[x].next = f[i + 1] /\ f[i + 1] \in N
    BY <1>8, <1>9, <2>1, <2>2
  <2>4. m2.cell[f[i + 1]].prev = Nth(i)
    BY <1>8, <2>2
  <2> QED
    BY <1>9, <2>1, <2>3, <2>4
<1>15. ASSUME NEW x \in N, m2.cell[x].prev # Null
       PROVE  m2.cell[x].prev \in N /\ m2.cell[m2.cell[x].prev].next = x
  <2>1. PICK i \in 2..L : x = f[i]
    BY <1>7, <1>10, <1>15
  <2>2. i - 1 \in 2..L /\ (i - 1) + 1 = i
    <3>1. i - 1 \in Int /\ (i - 1) + 1 = i
      BY <1>2
    <3>2. Nth(i - 1) # Null
      BY <1>8, <1>15, <2>1
    <3> QED
      BY <1>9, <3>1, <3>2
  <2>3. m2.cell[x].prev = f[i - 1] /\ f[i - 1] \in N
    BY <1>8, <1>9, <2>1, <2>2
  <2>4. m2.cell[f[i - 1]].next = Nth(i)
    BY <1>8, <2>2
  <2> QED
    BY <1>9, <2>1, <2>3, <2>4
<1>16. ASSUME NEW x \in N, m2.cell[x].child # Null
       PROVE  /\ x = f[1] /\ m2.cell[x].child \in N /\ m2.cell[x].child # f[1]
              /\ m2.cell[m2.cell[x].child].prev = Null
  <2>1. x = f[1]
    BY <1>8, <1>10, <1>16
  <2>2. 2 \in 2..L /\ m2.cell[x].child = f[2]
    BY <1>7, <1>9, <1>16, <2>1
  <2>3. m2.cell[f[2]].prev = Nth(1)
    <3>1. m2.cell[f[2]].prev = Nth(2 - 1)
      BY <1>8, <2>2
    <3> QED
      BY <3>1
  <2>4. Nth(1) = Null
    BY <1>9
  <2> QED
    BY <1>9, <2>1, <2>2, <2>3, <2>4
<1>17. Linked(m2)
  <2>1. ASSUME NEW x \in Live(m), m2.cell[x].next # Null
        PROVE  m2.cell[x].next \in Live(m) /\ m2.cell[m2.cell[x].next].prev = x
    BY <1>1, <1>13, <2>1 DEF Linked
  <2>2. ASSUME NEW x \in Live(m), m2.cell[x].prev # Null
        PROVE  m2.cell[x].prev \in Live(m) /\ m2.cell[m2.cell[x].prev].next = x
    BY <1>1, <1>13, <2>2 DEF Linked
  <2>3. ASSUME NEW x \in Live(m), m2.cell[x].child # Null, ~m2.cell[x].ref
        PROVE  m2.cell[x].child \in Live(m) /\ m2.cell[m2.cell[x].child].prev = Null
    BY <1>1, <1>13, <2>3 DEF Linked
  <2> QED
    BY <1>11, <1>14, <1>15, <1>16, <2>1, <2>2, <2>3 DEF Linked
<1>18. Known(m2)
  BY <1>1, <1>11, <1>13, <1>16 DEF Known
<1>19. OneOwner(m2)
  <2> SUFFICES ASSUME NEW x \in Live(m2), NEW y \in Live(m2), Owner(m2, x), Owner(m2, y), x # y,
                      m2.cell[x].child = m2.cell[y].child, m2.cell[x].child # Null
               PROVE  FALSE
    BY DEF OneOwner, Owner
  <2>1. CASE x \in N /\ y \in N
    BY <1>16, <2>1
  <2>2. CASE x \notin N /\ y \notin N
    BY <1>1, <1>11, <1>13, <2>2 DEF OneOwner
  <2>3. CASE (x \in N /\ y \notin N) \/ (x \notin N /\ y \in N)
    BY <1>11, <1>13, <1>16, <2>3
  <2> QED
    BY <2>1, <2>2, <2>3
<1>20. Owns(m2)
  <2>1. Strings(m2, Live(m)) = Strings(m, Live(m))
    <3>1. OwnsSame(m, m2, Live(m))
      BY <1>13, CellsOwnSame
    <3> QED
      BY <3>1, StringsSame
  <2>2. Strings(m2, N) = IF t = "text" THEN L - 1 ELSE 0
    <3> DEFINE A == {x \in N : OwnsName(m2, x)}
               B == {x \in N : OwnsText(m2, x)}
    <3>1. A = {}
      <4>1. ASSUME NEW x \in N PROVE m2.cell[x].key = NoKey
        BY <1>7, <1>8, <1>10
      <4> QED
        BY <4>1 DEF OwnsName
    <3>2. B = IF t = "text" THEN {f[i] : i \in 2..L} ELSE {}
      <4>1. ~OwnsText(m2, f[1])
        BY <1>7 DEF OwnsText
      <4>2. \A i \in 2..L : OwnsText(m2, f[i]) <=> t = "text"
        BY <1>8 DEF OwnsText
      <4>3. \A i \in 2..L : f[i] \in N
        BY <1>9
      <4> QED
        BY <1>10, <4>1, <4>2, <4>3
    <3>3. Cardinality({f[i] : i \in 2..L}) = L - 1 /\ Cardinality({}) = 0
      BY <1>2, <1>3, AsMany, FS_EmptySet DEF L
    <3>4. Strings(m2, N) = Cardinality(A) + Cardinality(B)
      BY DEF Strings
    <3> HIDE DEF A, B
    <3> QED
      BY <1>2, <3>1, <3>2, <3>3, <3>4
  <2>3. /\ Live(m2) \in SUBSET Cell /\ N \in SUBSET Live(m2) /\ Live(m2) \ N = Live(m)
        /\ Live(m) \in SUBSET Cell
    BY <1>1, <1>11, <1>12
  <2>4. Strings(m2, Live(m)) = Strings(m2, Live(m2)) - Strings(m2, N)
    BY <2>3, StringsLess
  <2>5. Strings(m2, Live(m2)) \in Nat /\ Strings(m, Live(m)) \in Nat
    BY <2>3, StringsType
  <2>6. m.strings = Strings(m, Live(m))
    BY <1>1 DEF Owns
  <2>7. m2.strings = Strings(m2, Live(m2))
    <3>1. \A v, w, y \in Int : v = w - y => w = v + y
      OBVIOUS
    <3>2. CASE t = "text"
      <4>1. Strings(m2, N) = L - 1 /\ m2.strings = m.strings + L - 1 /\ L - 1 \in Int
        BY <1>2, <1>5, <2>2, <3>2
      <4>2. Strings(m, Live(m)) = Strings(m2, Live(m2)) - (L - 1)
        BY <2>1, <2>4, <4>1
      <4>3. Strings(m2, Live(m2)) = Strings(m, Live(m)) + (L - 1)
        BY <2>5, <3>1, <4>1, <4>2
      <4>4. m.strings + L - 1 = m.strings + (L - 1)
        BY <1>2, <2>5, <2>6
      <4> QED
        BY <2>6, <4>1, <4>3, <4>4
    <3>3. CASE t # "text"
      <4>1. Strings(m2, N) = 0 /\ m2.strings = m.strings
        BY <1>5, <2>2, <3>3
      <4>2. Strings(m, Live(m)) = Strings(m2, Live(m2)) - 0
        BY <2>1, <2>4, <4>1
      <4>3. Strings(m2, Live(m2)) = Strings(m, Live(m))
        BY <2>5, <4>2
      <4> QED
        BY <2>6, <4>1, <4>3
    <3> QED
      BY <3>2, <3>3
  <2> QED
    BY <2>7 DEF Owns
<1>21. Root(m2, f[1])
  <2>1. \A q \in Cell : Owner(m2, q) => m2.cell[q].child # f[1]
    BY <1>1, <1>2, <1>11, <1>12, <1>13, <1>16 DEF Owner
  <2> QED
    BY <1>7, <1>11, <1>12, <2>1 DEF Root
<1>22. ASSUME NEW x \in Live(m), Root(m, x) PROVE Root(m2, x)
  <2>1. \A q \in Cell : Owner(m2, q) => m2.cell[q].child # x
    BY <1>1, <1>11, <1>12, <1>13, <1>16, <1>22 DEF Owner, Root
  <2> QED
    BY <1>11, <1>13, <1>22, <2>1 DEF Root
<1> QED
  BY <1>5, <1>11, <1>13, <1>17, <1>18, <1>19, <1>20, <1>21, <1>22 DEF Sound, Grown, N
-----------------------------------------------------------------------------
LEMMA PutGrows ==
    ASSUME NEW m \in Memories, Sound(m), NEW n \in Cell \ Live(m), NEW i, Unlinked(i),
           i.child \in Live(m) \cup {Null, Wild}, ~(~i.ref /\ i.type = "text"),
           NEW m2, m2 = [m EXCEPT !.cell[n] = i]
    PROVE  Grown(m, m2, {n}) /\ Root(m2, n)
<1> DEFINE s == m.strings + IF ~i.ref /\ i.type = "text" THEN 1 ELSE 0
<1>1. s = m.strings
  BY Typed
<1>2. m2 = [m EXCEPT !.cell[n] = i, !.strings = s]
  <2> HIDE DEF s
  <2> QED
    BY <1>1 DEF Memories
<1>3. s = m.strings + IF ~i.ref /\ i.type = "text" THEN 1 ELSE 0
  OBVIOUS
<1> HIDE DEF s
<1> QED
  BY <1>2, <1>3, PutKeeps

LEMMA NewGrows ==
    ASSUME NEW m \in Memories, Sound(m), NEW n \in Cell \ Live(m), NEW t \in Type,
           NEW m2, m2 = New(m, n, t)
    PROVE  Grown(m, m2, {n}) /\ Root(m2, n)
<1> DEFINE i == [Blank EXCEPT !.type = t]
           s == m.strings + IF ~i.ref /\ i.type = "text" THEN 1 ELSE 0
<1>1. Unlinked(i) /\ i.child = Null /\ ~i.ref /\ i.type = t
  BY DEF Unlinked, Blank, Item, Pointer, Type
<1>2. m2 = [m EXCEPT !.cell[n] = i, !.strings = s]
  <2>1. s = IF t = "text" THEN m.strings + 1 ELSE m.strings
    BY <1>1, Typed
  <2>2. m2 = [m EXCEPT !.cell[n] = i, !.strings = IF t = "text" THEN m.strings + 1 ELSE m.strings]
    BY DEF New, Memories
  <2> HIDE DEF i, s
  <2> QED
    BY <2>1, <2>2
<1>3. s = m.strings + IF ~i.ref /\ i.type = "text" THEN 1 ELSE 0
  OBVIOUS
<1> HIDE DEF s, i
<1> QED
  BY <1>1, <1>2, <1>3, PutKeeps

LEMMA ReferenceGrows ==
    ASSUME NEW m \in Memories, Sound(m), NEW n \in Cell \ Live(m), NEW c \in Live(m),
           NEW m2, m2 = Reference(m, c, n)
    PROVE  Grown(m, m2, {n}) /\ Root(m2, n)
<1> DEFINE i == [m.cell[c] EXCEPT !.ref = TRUE, !.key = NoKey, !.next = Null, !.prev = Null]
<1>1. m.cell[c] \in Item /\ m.cell[c].type # "free" /\ m.cell[c].child \in Live(m) \cup {Null, Wild}
  BY Typed DEF Live, Sound, Known
<1>2. Unlinked(i) /\ i.child = m.cell[c].child /\ i.ref
  BY <1>1 DEF Unlinked, Item, Pointer
<1>3. m2 = [m EXCEPT !.cell[n] = i]
  BY DEF Reference
<1> HIDE DEF i
<1> QED
  BY <1>1, <1>2, <1>3, PutGrows

LEMMA RenameGrows ==
    ASSUME NEW m \in Memories, Sound(m), NEW c \in Live(m), NEW k \in Key, NEW const \in BOOLEAN,
           NEW m2, m2 = Rename(m, c, k, const)
    PROVE  Grown(m, m2, {})
<1> DEFINE s == m.strings - (IF OwnsName(m, c) THEN 1 ELSE 0) + (IF k = NoKey \/ const THEN 0 ELSE 1)
<1>1. s = m.strings - (IF OwnsName(m, c) THEN 1 ELSE 0) + (IF const THEN 0 ELSE 1)
  BY CJsonAssumption
<1>2. m2 = GivenName(m, c, k, const, s)
  <2> HIDE DEF s
  <2> QED
    BY <1>1 DEF Rename, Memories, GivenName
<1>3. s = m.strings - (IF OwnsName(m, c) THEN 1 ELSE 0) + (IF k = NoKey \/ const THEN 0 ELSE 1)
  OBVIOUS
<1> HIDE DEF s
<1>4. k \in Key \cup {NoKey} /\ const \in BOOLEAN
  OBVIOUS
<1> QED
  BY <1>2, <1>3, <1>4, NameKeeps

LEMMA UnnameGrows ==
    ASSUME NEW m \in Memories, Sound(m), NEW c \in Live(m), NEW m2, m2 = Unname(m, c)
    PROVE  Grown(m, m2, {})
<1> DEFINE s == m.strings - (IF OwnsName(m, c) THEN 1 ELSE 0) + (IF NoKey = NoKey \/ FALSE THEN 0 ELSE 1)
<1>1. s = m.strings - (IF OwnsName(m, c) THEN 1 ELSE 0)
  BY Typed
<1>2. m2 = GivenName(m, c, NoKey, FALSE, s)
  <2> HIDE DEF s
  <2> QED
    BY <1>1 DEF Unname, Memories, GivenName
<1>3. s = m.strings - (IF OwnsName(m, c) THEN 1 ELSE 0) + (IF NoKey = NoKey \/ FALSE THEN 0 ELSE 1)
  OBVIOUS
<1> HIDE DEF s
<1>4. NoKey \in Key \cup {NoKey} /\ FALSE \in BOOLEAN
  OBVIOUS
<1> QED
  BY <1>2, <1>3, <1>4, NameKeeps
-----------------------------------------------------------------------------
(* Free memory is handed out item by item.                                 *)
LEMMA MemoryFacts ==
    ASSUME mem \in Memories
    PROVE  /\ Memory \in Seq(Free(mem)) /\ Fresh \subseteq Free(mem)
           /\ \A i, j \in 1..Len(Memory) : Memory[i] = Memory[j] => i = j
<1> DEFINE S == Free(mem)
<1>1. IsFiniteSet(S)
  BY CJsonAssumption, FS_Subset DEF Free
<1> HIDE DEF S
<1>2. Cardinality(S) \in Nat /\ ExistsBijection(1..Cardinality(S), S)
  BY <1>1, FS_CardinalityType
<1>3. \E f \in [1..Cardinality(S) -> S] : IsInjective(f)
  BY <1>2 DEF ExistsBijection, Bijection, Injection, IsInjective
<1>4. Memory = CHOOSE f \in [1..Cardinality(S) -> S] : IsInjective(f)
  BY DEF Memory, SetToSeq, S
<1>5. Memory \in [1..Cardinality(S) -> S] /\ IsInjective(Memory)
  BY <1>3, <1>4
<1>6. Memory \in Seq(S) /\ Len(Memory) = Cardinality(S)
  BY <1>2, <1>5
<1>7. Fresh \subseteq S
  BY <1>5 DEF Fresh
<1>8. \A i, j \in 1..Len(Memory) : Memory[i] = Memory[j] => i = j
  BY <1>5, <1>6 DEF IsInjective
<1> QED
  BY <1>6, <1>7, <1>8 DEF S
-----------------------------------------------------------------------------
(* The calls.  Every one leaves the links, the strings and the roots the   *)
(* client holds as they should be.                                         *)
Fine == mem \in Memories /\ Sound(mem) /\ (\A c \in held : Root(mem, c)) /\ held \subseteq Live(mem)
        /\ Live(mem) \subseteq Cell /\ oom \subseteq Cell /\ held \subseteq Cell

LEMMA FineIs ==
    ASSUME TypeOK, SoundInv
    PROVE  Fine
<1>1. mem \in Memories
  BY DEF TypeOK, Memories
<1>2. Live(mem) \subseteq Cell
  BY DEF Live
<1> QED
  BY <1>1, <1>2 DEF Fine, TypeOK, SoundInv, Root

LEMMA FineThen ==
    ASSUME mem' \in Memories, Sound(mem'), \A c \in held' : Root(mem', c), oom' \subseteq Cell
    PROVE  TypeOK' /\ SoundInv'
<1>1. held' \subseteq Cell
  BY DEF Root, Live
<1> QED
  BY <1>1 DEF TypeOK, Memories, SoundInv

LEMMA ContainerOwns ==
    ASSUME Fine, NEW p \in Cell, NEW t \in Type, Container(p, t)
    PROVE  Owner(mem, p) /\ p \in Live(mem)
BY DEF Container, Owner, Live, Type

LEMMA LooseIs ==
    ASSUME Fine, NEW p \in Cell, NEW c, Loose(p, c)
    PROVE  c \in held /\ c # p /\ Root(mem, c) /\ c \in Live(mem)
<1>1. c \in held /\ c \in Cell /\ Root(mem, c) /\ c \in Live(mem)
  BY DEF Loose, Fine
<1>2. c \in Swept(mem, {c})
  BY <1>1, Typed, ReachClosed DEF Swept, Fine
<1> QED
  BY <1>1, <1>2 DEF Loose

LEMMA FreshIs ==
    ASSUME Fine, NEW n \in Fresh
    PROVE  n \in Cell \ Live(mem) /\ n \notin held
BY MemoryFacts DEF Fine, Free

LEMMA CreateStep ==
    ASSUME Fine, NEW n \in Fresh, NEW t \in Type, Create(n, t)
    PROVE  TypeOK' /\ SoundInv'
<1>1. n \in Cell \ Live(mem) /\ mem \in Memories /\ Sound(mem)
  BY FreshIs DEF Fine
<1>2. Grown(mem, mem', {n}) /\ Root(mem', n)
  BY <1>1, NewGrows DEF Create
<1> QED
  BY <1>2, FineThen DEF Create, Grown, Fine

LEMMA CreateStringReferenceStep ==
    ASSUME Fine, NEW n \in Fresh, CreateStringReference(n)
    PROVE  TypeOK' /\ SoundInv'
<1> DEFINE i == [Blank EXCEPT !.type = "text", !.ref = TRUE]
<1>1. n \in Cell \ Live(mem) /\ mem \in Memories /\ Sound(mem)
  BY FreshIs DEF Fine
<1>2. Unlinked(i) /\ i.child = Null /\ i.ref
  BY DEF Unlinked, Blank, Item, Pointer, Type
<1>3. mem' = [mem EXCEPT !.cell[n] = i]
  BY DEF CreateStringReference
<1> HIDE DEF i
<1>4. Grown(mem, mem', {n}) /\ Root(mem', n)
  BY <1>1, <1>2, <1>3, PutGrows
<1> QED
  BY <1>4, FineThen DEF CreateStringReference, Grown, Fine

LEMMA CreateReferenceStep ==
    ASSUME Fine, NEW n \in Fresh, NEW c \in Cell, NEW t \in Type \ {"text"}, CreateReference(n, t, c)
    PROVE  TypeOK' /\ SoundInv'
<1> DEFINE i == [Blank EXCEPT !.type = t, !.ref = TRUE, !.child = c]
<1>1. n \in Cell \ Live(mem) /\ mem \in Memories /\ Sound(mem)
  BY FreshIs DEF Fine
<1>2. c \in Live(mem)
  <2>1. PICK p \in Live(mem) : Container(p, t) /\ mem.cell[p].child = c
    BY DEF CreateReference
  <2> QED
    BY <1>1, <2>1, Typed DEF Sound, Linked, Container
<1>3. Unlinked(i) /\ i.child = c /\ i.ref
  BY DEF Unlinked, Blank, Item, Pointer, Type
<1>4. mem' = [mem EXCEPT !.cell[n] = i]
  BY DEF CreateReference
<1> HIDE DEF i
<1>5. Grown(mem, mem', {n}) /\ Root(mem', n)
  BY <1>1, <1>2, <1>3, <1>4, PutGrows
<1> QED
  BY <1>5, FineThen DEF CreateReference, Grown, Fine

LEMMA CreateFilledStep ==
    ASSUME Fine, NEW i \in DOMAIN Memory, NEW t \in {"array", "text"},
           CreateFilled(SubSeq(Memory, 1, i), t)
    PROVE  TypeOK' /\ SoundInv'
<1> DEFINE f == SubSeq(Memory, 1, i)
           made == Filled(mem, f, t)
<1>1. mem \in Memories /\ Sound(mem) /\ Memory \in Seq(Free(mem)) /\ Free(mem) = Cell \ Live(mem)
      /\ \A j, k \in 1..Len(Memory) : Memory[j] = Memory[k] => j = k
  BY MemoryFacts DEF Fine, Free
<1>2. i \in 1..Len(Memory) /\ Len(Memory) \in Nat
  BY <1>1
<1>3. /\ f \in Seq(Cell \ Live(mem)) /\ Len(f) = i
      /\ \A j \in 1..i : f[j] = Memory[j]
  BY <1>1, <1>2
<1> HIDE DEF f
<1>4. Len(f) >= 1 /\ \A j, k \in 1..Len(f) : f[j] = f[k] => j = k
  BY <1>1, <1>2, <1>3
<1>5. Grown(mem, made, ToSet(f)) /\ Root(made, f[1])
  <2>1. made = Filled(mem, f, t)
    OBVIOUS
  <2> HIDE DEF made
  <2> QED
    BY <1>1, <1>3, <1>4, <2>1, FillKeeps
<1>6. f[1] \notin Live(mem) /\ oom' = oom
  BY <1>3, <1>4 DEF CreateFilled
<1>7. CASE mem' = made /\ held' = held \cup {f[1]}
  BY <1>5, <1>6, <1>7, FineThen DEF Grown, Fine
<1>8. CASE mem' = Delete(made, f[1]) /\ held' = held
  <2> HIDE DEF made
  <2>1. Cleared(made, mem', f[1])
    BY <1>5, <1>8, DeleteKeeps DEF Grown
  <2>2. \A c \in held : Root(mem', c)
    BY <1>5, <1>6, <2>1 DEF Grown, Cleared, Fine
  <2> QED
    BY <1>6, <1>8, <2>1, <2>2, FineThen DEF Cleared, Fine
<1> QED
  BY <1>7, <1>8 DEF CreateFilled, f

LEMMA AddItemToArrayStep ==
    ASSUME Fine, NEW p \in Cell, NEW c \in Cell, AddItemToArray(p, c)
    PROVE  TypeOK' /\ SoundInv'
<1>1. Owner(mem, p) /\ Root(mem, c) /\ c # p /\ mem \in Memories /\ Sound(mem)
  BY ContainerOwns, LooseIs DEF AddItemToArray, Fine, Type
<1>2. Moved(mem, mem', c)
  BY <1>1, AddItemKeeps DEF AddItemToArray
<1> QED
  BY <1>2, FineThen DEF AddItemToArray, Moved, Fine

LEMMA AddItemToObjectStep ==
    ASSUME Fine, NEW p \in Cell, NEW c \in Cell, NEW k \in Key, NEW const \in BOOLEAN,
           AddItemToObject(p, k, c, const)
    PROVE  TypeOK' /\ SoundInv'
<1>1. /\ Owner(mem, p) /\ p \in Live(mem) /\ Root(mem, c) /\ c \in Live(mem) /\ c # p
      /\ mem \in Memories /\ Sound(mem)
  BY ContainerOwns, LooseIs DEF AddItemToObject, Fine, Type
<1>2. PICK m : m = Rename(mem, c, k, const)
  OBVIOUS
<1>3. Grown(mem, m, {})
  BY <1>1, <1>2, RenameGrows
<1>4. Owner(m, p) /\ Root(m, c) /\ m \in Memories /\ Sound(m) /\ Live(m) = Live(mem)
  BY <1>1, <1>3 DEF Grown
<1>5. mem' = AddItem(m, p, c)
  BY <1>2 DEF AddItemToObject
<1>6. Moved(m, mem', c)
  BY <1>1, <1>4, <1>5, AddItemKeeps
<1>7. \A x \in held \ {c} : Root(mem', x)
  BY <1>3, <1>4, <1>6 DEF Grown, Moved, Fine
<1> QED
  BY <1>6, <1>7, FineThen DEF AddItemToObject, Moved, Fine

LEMMA AddItemReferenceToArrayStep ==
    ASSUME Fine, NEW p \in Cell, NEW c \in Cell, NEW n \in Fresh, AddItemReferenceToArray(p, c, n)
    PROVE  TypeOK' /\ SoundInv'
<1>1. /\ Owner(mem, p) /\ p \in Live(mem) /\ c \in Live(mem)
      /\ n \in Cell \ Live(mem) /\ mem \in Memories /\ Sound(mem)
  BY ContainerOwns, FreshIs DEF AddItemReferenceToArray, Fine, Type
<1>2. PICK m : m = Reference(mem, c, n)
  OBVIOUS
<1>3. Grown(mem, m, {n}) /\ Root(m, n)
  BY <1>1, <1>2, ReferenceGrows
<1>4. Owner(m, p) /\ m \in Memories /\ Sound(m) /\ n # p /\ held \subseteq Live(m)
  BY <1>1, <1>3 DEF Grown, Fine
<1>5. mem' = AddItem(m, p, n)
  BY <1>2 DEF AddItemReferenceToArray
<1>6. Moved(m, mem', n)
  BY <1>3, <1>4, <1>5, AddItemKeeps
<1>7. \A x \in held : Root(mem', x)
  BY <1>1, <1>3, <1>4, <1>6 DEF Grown, Moved, Fine
<1> QED
  BY <1>6, <1>7, FineThen DEF AddItemReferenceToArray, Moved, Fine

LEMMA AddItemReferenceToObjectStep ==
    ASSUME Fine, NEW p \in Cell, NEW c \in Cell, NEW n \in Fresh, NEW k \in Key,
           AddItemReferenceToObject(p, k, c, n)
    PROVE  TypeOK' /\ SoundInv'
<1>1. /\ Owner(mem, p) /\ p \in Live(mem) /\ c \in Live(mem)
      /\ n \in Cell \ Live(mem) /\ mem \in Memories /\ Sound(mem)
  BY ContainerOwns, FreshIs DEF AddItemReferenceToObject, Fine, Type
<1>2. PICK r : r = Reference(mem, c, n)
  OBVIOUS
<1>3. Grown(mem, r, {n}) /\ Root(r, n)
  BY <1>1, <1>2, ReferenceGrows
<1>4. r \in Memories /\ Sound(r) /\ n \in Live(r) /\ n # p /\ Owner(r, p) /\ p \in Live(r)
  BY <1>1, <1>3 DEF Grown
<1>5. CASE mem' = r
  BY <1>3, <1>5, FineThen DEF AddItemReferenceToObject, Grown, Fine
<1>6. CASE mem' = AddItem(Rename(r, n, k, FALSE), p, n)
  <2>1. PICK m : m = Rename(r, n, k, FALSE)
    OBVIOUS
  <2>2. Grown(r, m, {})
    BY <1>4, <2>1, RenameGrows
  <2>3. Owner(m, p) /\ Root(m, n) /\ m \in Memories /\ Sound(m)
    BY <1>3, <1>4, <2>2 DEF Grown
  <2>4. Moved(m, mem', n)
    BY <1>4, <1>6, <2>1, <2>3, AddItemKeeps
  <2>5. \A x \in held : Root(mem', x)
    <3>1. \A x \in held : x \in Live(mem) /\ Root(mem, x) /\ x # n
      BY <1>1 DEF Fine
    <3>2. \A x \in held : x \in Live(m) /\ Root(m, x)
      BY <1>3, <2>2, <3>1 DEF Grown
    <3> QED
      BY <2>4, <3>1, <3>2 DEF Moved
  <2> QED
    BY <2>4, <2>5, FineThen DEF AddItemReferenceToObject, Moved, Fine
<1> QED
  BY <1>2, <1>5, <1>6 DEF AddItemReferenceToObject

LEMMA AddNewToObjectStep ==
    ASSUME Fine, NEW p \in Cell, NEW n \in Fresh, NEW k \in Key, NEW t \in Type,
           AddNewToObject(p, k, t, n)
    PROVE  TypeOK' /\ SoundInv'
<1>1. /\ Owner(mem, p) /\ p \in Live(mem)
      /\ n \in Cell \ Live(mem) /\ mem \in Memories /\ Sound(mem)
  BY ContainerOwns, FreshIs DEF AddNewToObject, Fine, Type
<1>2. PICK r : r = New(mem, n, t)
  OBVIOUS
<1>3. Grown(mem, r, {n}) /\ Root(r, n)
  BY <1>1, <1>2, NewGrows
<1>4. r \in Memories /\ Sound(r) /\ n \in Live(r) /\ n # p /\ Owner(r, p) /\ p \in Live(r)
  BY <1>1, <1>3 DEF Grown
<1>5. \A x \in held : x \in Live(mem) /\ Root(mem, x) /\ x # n
  BY <1>1 DEF Fine
<1>6. \A x \in held : x \in Live(r) /\ Root(r, x)
  BY <1>3, <1>5 DEF Grown
<1>7. CASE mem' = Delete(r, n)
  <2>1. Cleared(r, mem', n)
    BY <1>3, <1>4, <1>7, DeleteKeeps
  <2>2. \A x \in held : Root(mem', x)
    BY <1>5, <1>6, <2>1 DEF Cleared
  <2> QED
    BY <2>1, <2>2, FineThen DEF AddNewToObject, Cleared, Fine
<1>8. CASE mem' = AddItem(Rename(r, n, k, FALSE), p, n)
  <2>1. PICK m : m = Rename(r, n, k, FALSE)
    OBVIOUS
  <2>2. Grown(r, m, {})
    BY <1>4, <2>1, RenameGrows
  <2>3. Owner(m, p) /\ Root(m, n) /\ m \in Memories /\ Sound(m)
    BY <1>3, <1>4, <2>2 DEF Grown
  <2>4. Moved(m, mem', n)
    BY <1>4, <1>8, <2>1, <2>3, AddItemKeeps
  <2>5. \A x \in held : Root(mem', x)
    BY <1>5, <1>6, <2>2, <2>4 DEF Grown, Moved
  <2> QED
    BY <2>4, <2>5, FineThen DEF AddNewToObject, Moved, Fine
<1> QED
  BY <1>2, <1>7, <1>8 DEF AddNewToObject

(* An item that is found is in the list.                                   *)
LEMMA FoundIs ==
    ASSUME NEW m, NEW p
    PROVE  /\ \A i : ArrayItem(m, p, i) # Null => ArrayItem(m, p, i) \in Items(m, p)
           /\ \A k, sensitive : ObjectItem(m, p, k, sensitive) # Null
                                  => ObjectItem(m, p, k, sensitive) \in Items(m, p)
<1>1. \A S : Pick(S) # Null => Pick(S) \in S
  BY DEF Pick
<1>2. ASSUME NEW i, ArrayItem(m, p, i) # Null PROVE ArrayItem(m, p, i) \in Items(m, p)
  <2> DEFINE S == {c \in Items(m, p) : Cardinality(Items(m, p) \ Ahead(m, c)) = i}
  <2>1. ArrayItem(m, p, i) = Pick(S)
    BY DEF ArrayItem
  <2> QED
    BY <1>1, <1>2, <2>1
<1>3. ASSUME NEW k, NEW sensitive, ObjectItem(m, p, k, sensitive) # Null
      PROVE  ObjectItem(m, p, k, sensitive) \in Items(m, p)
  <2> DEFINE Named(name) ==
               name # NoKey /\ IF sensitive THEN name = k ELSE Lower[name] = Lower[k]
             named == {c \in Items(m, p) : Named(m.cell[c].key)}
             S == {c \in named : named \subseteq Ahead(m, c)}
  <2>1. ObjectItem(m, p, k, sensitive) = Pick(S)
    BY DEF ObjectItem
  <2> HIDE DEF Named
  <2> QED
    BY <1>1, <1>3, <2>1
<1> QED
  BY <1>2, <1>3

LEMMA DetachItemStep ==
    ASSUME Fine, NEW p, Owner(mem, p), NEW c \in Items(mem, p), DetachItem(p, c)
    PROVE  TypeOK' /\ SoundInv'
<1>1. Moved(mem, mem', c) /\ Root(mem', c) /\ ~Root(mem, c)
  BY DetachKeeps DEF DetachItem, Fine
<1> QED
  BY <1>1, FineThen DEF DetachItem, Moved, Fine

LEMMA DeleteItemStep ==
    ASSUME Fine, NEW p, Owner(mem, p), NEW c \in Items(mem, p), DeleteItem(p, c)
    PROVE  TypeOK' /\ SoundInv'
<1>1. PICK m : m = Detach(mem, p, c)
  OBVIOUS
<1>2. Moved(mem, m, c) /\ Root(m, c) /\ ~Root(mem, c)
  BY <1>1, DetachKeeps DEF Fine
<1>3. mem' = Delete(m, c)
  BY <1>1 DEF DeleteItem
<1>4. Cleared(m, mem', c)
  BY <1>2, <1>3, DeleteKeeps DEF Moved
<1>5. \A x \in held : Root(mem', x)
  BY <1>2, <1>4 DEF Moved, Cleared, Fine
<1> QED
  BY <1>4, <1>5, FineThen DEF DeleteItem, Kept, Cleared, Fine

LEMMA FromArrayStep ==
    ASSUME Fine, NEW p \in Cell, NEW i, FromArray(p, i)
    PROVE  TypeOK' /\ SoundInv'
<1>1. Owner(mem, p)
  BY ContainerOwns DEF FromArray, Type
<1>2. ArrayItem(mem, p, i) \in Items(mem, p)
  BY FoundIs DEF FromArray, DetachItem, DeleteItem
<1> QED
  BY <1>1, <1>2, DetachItemStep, DeleteItemStep DEF FromArray

LEMMA FromObjectStep ==
    ASSUME Fine, NEW p \in Cell, NEW k, NEW sensitive, FromObject(p, k, sensitive)
    PROVE  TypeOK' /\ SoundInv'
<1>1. Owner(mem, p)
  BY ContainerOwns DEF FromObject, Type
<1>2. ObjectItem(mem, p, k, sensitive) \in Items(mem, p)
  BY FoundIs DEF FromObject, DetachItem, DeleteItem
<1> QED
  BY <1>1, <1>2, DetachItemStep, DeleteItemStep DEF FromObject

LEMMA InsertItemInArrayStep ==
    ASSUME Fine, NEW p \in Cell, NEW c \in Cell, NEW i, InsertItemInArray(p, i, c)
    PROVE  TypeOK' /\ SoundInv'
<1>1. Owner(mem, p) /\ Root(mem, c) /\ c # p /\ mem \in Memories /\ Sound(mem)
  BY ContainerOwns, LooseIs DEF InsertItemInArray, Fine, Type
<1>2. PICK after : after = ArrayItem(mem, p, i)
  OBVIOUS
<1>3. mem' = IF after = Null THEN AddItem(mem, p, c) ELSE InsertBefore(mem, p, after, c)
  BY <1>2 DEF InsertItemInArray
<1>4. Moved(mem, mem', c)
  <2>1. CASE after = Null
    BY <1>1, <1>3, <2>1, AddItemKeeps
  <2>2. CASE after # Null
    <3>1. after \in Items(mem, p)
      BY <1>2, <2>2, FoundIs
    <3>2. mem' = InsertBefore(mem, p, after, c)
      BY <1>3, <2>2
    <3> QED
      BY <1>1, <3>1, <3>2, InsertKeeps
  <2> QED
    BY <2>1, <2>2
<1> QED
  BY <1>4, FineThen DEF InsertItemInArray, Moved, Fine

(* An item is replaced by a root: what replaces it is no root any more.    *)
LEMMA ReplaceKeeps ==
    ASSUME NEW m \in Memories, Sound(m), NEW p, Owner(m, p), NEW c \in Items(m, p),
           NEW r, Root(m, r), NEW m2, m2 = Replace(m, p, c, r)
    PROVE  /\ m2 \in Memories /\ Sound(m2)
           /\ \A x \in Live(m) : Root(m, x) /\ x # r => Root(m2, x)
<1>1. PICK e : e = Exchanged(m, p, c, r)
  OBVIOUS
<1>2. Moved(m, e, r) /\ Root(e, c) /\ ~Root(m, c)
  BY <1>1, ExchangeKeeps
<1>3. m2 = Delete(e, c)
  BY <1>1, ReplaceIsDelete
<1>4. Cleared(e, m2, c)
  BY <1>2, <1>3, DeleteKeeps DEF Moved
<1> QED
  BY <1>2, <1>4 DEF Moved, Cleared

LEMMA ReplaceItemInArrayStep ==
    ASSUME Fine, NEW p \in Cell, NEW r \in Cell, NEW i, ReplaceItemInArray(p, i, r)
    PROVE  TypeOK' /\ SoundInv'
<1>1. Owner(mem, p) /\ Root(mem, r) /\ mem \in Memories /\ Sound(mem)
  BY ContainerOwns, LooseIs DEF ReplaceItemInArray, Fine, Type
<1>2. PICK c : c = ArrayItem(mem, p, i)
  OBVIOUS
<1>3. c \in Items(mem, p) /\ mem' = Replace(mem, p, c, r)
  BY <1>2, FoundIs DEF ReplaceItemInArray
<1>4. /\ mem' \in Memories /\ Sound(mem')
      /\ \A x \in Live(mem) : Root(mem, x) /\ x # r => Root(mem', x)
  BY <1>1, <1>3, ReplaceKeeps
<1>5. \A x \in held' : Root(mem', x)
  BY <1>4 DEF ReplaceItemInArray, Fine
<1>6. oom' \subseteq Cell
  BY DEF ReplaceItemInArray, Kept, Fine
<1> QED
  BY <1>4, <1>5, <1>6, FineThen

LEMMA ReplaceItemInObjectStep ==
    ASSUME Fine, NEW p \in Cell, NEW r \in Cell, NEW k \in Key, NEW sensitive,
           ReplaceItemInObject(p, k, r, sensitive)
    PROVE  TypeOK' /\ SoundInv'
<1>1. /\ Owner(mem, p) /\ p \in Live(mem) /\ Root(mem, r) /\ r \in Live(mem)
      /\ mem \in Memories /\ Sound(mem)
  BY ContainerOwns, LooseIs DEF ReplaceItemInObject, Fine, Type
<1>2. PICK named \in BOOLEAN :
        LET m == IF named THEN Rename(mem, r, k, FALSE) ELSE Unname(mem, r)
            c == ObjectItem(m, p, k, sensitive)
        IN /\ IF c = Null THEN mem' = m /\ UNCHANGED held
                          ELSE mem' = Replace(m, p, c, r) /\ held' = held \ {r}
           /\ oom' = (IF named THEN oom \ {r} ELSE oom \cup {r}) \cap Live(mem')
  BY DEF ReplaceItemInObject
<1>3. PICK m : m = IF named THEN Rename(mem, r, k, FALSE) ELSE Unname(mem, r)
  OBVIOUS
<1>4. PICK c : c = ObjectItem(m, p, k, sensitive)
  OBVIOUS
<1>5. /\ c = Null => mem' = m /\ held' = held
      /\ c # Null => mem' = Replace(m, p, c, r) /\ held' = held \ {r}
      /\ oom' \subseteq oom \cup {r}
  BY <1>2, <1>3, <1>4
<1>6. Grown(mem, m, {})
  <2>1. CASE named
    BY <1>1, <1>3, <2>1, RenameGrows
  <2>2. CASE ~named
    BY <1>1, <1>3, <2>2, UnnameGrows
  <2> QED
    BY <2>1, <2>2
<1>7. /\ m \in Memories /\ Sound(m) /\ Live(m) = Live(mem) /\ Owner(m, p) /\ Root(m, r)
      /\ \A x \in held : x \in Live(m) /\ Root(m, x)
  BY <1>1, <1>6 DEF Grown, Fine
<1>8. oom' \subseteq Cell
  BY <1>5 DEF Fine
<1>9. CASE c = Null
  BY <1>5, <1>7, <1>8, <1>9, FineThen
<1>10. CASE c # Null
  <2>1. c \in Items(m, p)
    BY <1>4, <1>10, FoundIs
  <2>2. /\ mem' \in Memories /\ Sound(mem')
        /\ \A x \in Live(m) : Root(m, x) /\ x # r => Root(mem', x)
    BY <1>5, <1>7, <1>10, <2>1, ReplaceKeeps
  <2>3. \A x \in held' : Root(mem', x)
    BY <1>5, <1>7, <1>10, <2>2
  <2> QED
    BY <1>8, <2>2, <2>3, FineThen
<1> QED
  BY <1>9, <1>10

LEMMA DuplicateStep ==
    ASSUME Fine, NEW n \in Fresh, NEW i \in DOMAIN Memory, NEW c \in Live(mem),
           NEW recurse \in BOOLEAN, Duplicate(c, recurse, {Memory[j] : j \in 1..i}, n)
    PROVE  TypeOK' /\ SoundInv'
<1> DEFINE N == {Memory[j] : j \in 1..i}
<1>1. mem \in Memories /\ Sound(mem) /\ Memory \in Seq(Free(mem)) /\ Free(mem) = Cell \ Live(mem)
  BY MemoryFacts DEF Fine, Free
<1>2. i \in 1..Len(Memory) /\ Len(Memory) \in Nat /\ n = Memory[1]
  BY <1>1 DEF Fresh
<1>3. N \in SUBSET (Cell \ Live(mem)) /\ n \in N
  BY <1>1, <1>2
<1> HIDE DEF N
<1>4. PICK of \in [N -> Cell], via \in [N \ {n} -> Link(N)] :
        LET made == Copied(mem, N, of, via)
            shown == UNION {Items(made, x) : x \in {y \in N : mem.cell[of[y]].ref}}
        IN /\ IsCopy(mem, c, N, n, of, via)
           /\ \/ /\ recurse => Complete(mem, N, n, of, via)
                 /\ mem' = made /\ held' = held \cup {n}
                 /\ oom' = oom \cup {x \in N : made.cell[x].key = NoKey /\ (of[x] \in oom \/ x \in shown)}
              \/ mem' = Delete(made, n) /\ UNCHANGED <<held, oom>>
  BY DEF Duplicate, N
<1>5. PICK made : made = Copied(mem, N, of, via)
  OBVIOUS
<1>6. /\ IsCopy(mem, c, N, n, of, via)
      /\ \/ mem' = made /\ held' = held \cup {n} /\ oom' \subseteq oom \cup N
         \/ mem' = Delete(made, n) /\ held' = held /\ oom' = oom
  BY <1>4, <1>5
<1>7. Grown(mem, made, N) /\ Root(made, n)
  BY <1>1, <1>3, <1>5, <1>6, CopyKeeps
<1>8. CASE mem' = made /\ held' = held \cup {n} /\ oom' \subseteq oom \cup N
  BY <1>3, <1>7, <1>8, FineThen DEF Grown, Fine
<1>9. CASE mem' = Delete(made, n) /\ held' = held /\ oom' = oom
  <2>1. Cleared(made, mem', n)
    BY <1>7, <1>9, DeleteKeeps DEF Grown
  <2>2. \A x \in held : Root(mem', x)
    BY <1>3, <1>7, <2>1 DEF Grown, Cleared, Fine
  <2> QED
    BY <1>9, <2>1, <2>2, FineThen DEF Cleared, Fine
<1> QED
  BY <1>6, <1>8, <1>9

LEMMA DeleteTreeStep ==
    ASSUME Fine, NEW c \in Cell, DeleteTree(c)
    PROVE  TypeOK' /\ SoundInv'
<1>1. Cleared(mem, mem', c)
  BY DeleteKeeps DEF DeleteTree, Fine
<1> QED
  BY <1>1, FineThen DEF DeleteTree, Kept, Cleared, Fine

LEMMA InitFine ==
    ASSUME Init
    PROVE  TypeOK /\ SoundInv
<1>1. Blank \in Item /\ Blank.type = "free"
  BY DEF Blank, Item, Pointer
<1>2. mem = [cell |-> [c \in Cell |-> Blank], strings |-> 0] /\ held = {} /\ oom = {}
  BY DEF Init
<1>3. mem.cell \in [Cell -> Item] /\ mem.strings = 0 /\ \A c \in Cell : mem.cell[c].type = "free"
  BY <1>1, <1>2
<1>4. TypeOK
  BY <1>1, <1>2 DEF TypeOK
<1>5. Live(mem) = {}
  BY <1>3 DEF Live
<1>6. Owns(mem)
  <2>1. Strings(mem, {}) = 0
    <3>1. {c \in {} : OwnsName(mem, c)} = {} /\ {c \in {} : OwnsText(mem, c)} = {}
      OBVIOUS
    <3>2. Cardinality({}) = 0
      BY FS_EmptySet
    <3> QED
      BY <3>1, <3>2 DEF Strings
  <2> QED
    BY <1>3, <1>5, <2>1 DEF Owns
<1>7. Linked(mem) /\ Known(mem) /\ OneOwner(mem)
  BY <1>5 DEF Linked, Known, OneOwner, Owner
<1> QED
  BY <1>2, <1>4, <1>6, <1>7 DEF SoundInv, Sound

LEMMA NextFine ==
    ASSUME TypeOK, SoundInv, [Next]_vars
    PROVE  TypeOK' /\ SoundInv'
<1> USE FineIs
<1>1. ASSUME NEW n \in Fresh, CreateStringReference(n) \/ \E t \in Type : Create(n, t)
      PROVE  TypeOK' /\ SoundInv'
  BY <1>1, CreateStringReferenceStep, CreateStep
<1>2. ASSUME NEW n \in Fresh, NEW c \in Cell, NEW t \in Type \ {"text"}, CreateReference(n, t, c)
      PROVE  TypeOK' /\ SoundInv'
  BY <1>2, CreateReferenceStep
<1>3. ASSUME NEW i \in DOMAIN Memory, NEW t \in {"array", "text"},
             CreateFilled(SubSeq(Memory, 1, i), t)
      PROVE  TypeOK' /\ SoundInv'
  BY <1>3, CreateFilledStep
<1>4. ASSUME NEW p \in Cell, NEW c \in Cell, AddItemToArray(p, c)
      PROVE  TypeOK' /\ SoundInv'
  BY <1>4, AddItemToArrayStep
<1>5. ASSUME NEW p \in Cell, NEW c \in Cell, NEW k \in Key, NEW const \in BOOLEAN,
             AddItemToObject(p, k, c, const)
      PROVE  TypeOK' /\ SoundInv'
  BY <1>5, AddItemToObjectStep
<1>6. ASSUME NEW p \in Cell, NEW c \in Cell, NEW n \in Fresh, AddItemReferenceToArray(p, c, n)
      PROVE  TypeOK' /\ SoundInv'
  BY <1>6, AddItemReferenceToArrayStep
<1>7. ASSUME NEW p \in Cell, NEW c \in Cell, NEW n \in Fresh, NEW k \in Key,
             AddItemReferenceToObject(p, k, c, n)
      PROVE  TypeOK' /\ SoundInv'
  BY <1>7, AddItemReferenceToObjectStep
<1>8. ASSUME NEW p \in Cell, NEW n \in Fresh, NEW k \in Key, NEW t \in Type,
             AddNewToObject(p, k, t, n)
      PROVE  TypeOK' /\ SoundInv'
  BY <1>8, AddNewToObjectStep
<1>9. ASSUME NEW p \in Cell, NEW i \in 0..Cardinality(Cell), FromArray(p, i)
      PROVE  TypeOK' /\ SoundInv'
  BY <1>9, FromArrayStep
<1>10. ASSUME NEW p \in Cell, NEW k \in Key, NEW sensitive \in BOOLEAN, FromObject(p, k, sensitive)
       PROVE  TypeOK' /\ SoundInv'
  BY <1>10, FromObjectStep
<1>11. ASSUME NEW p \in Cell, NEW c \in Cell, NEW i \in 0..Cardinality(Cell),
              InsertItemInArray(p, i, c) \/ ReplaceItemInArray(p, i, c)
       PROVE  TypeOK' /\ SoundInv'
  BY <1>11, InsertItemInArrayStep, ReplaceItemInArrayStep
<1>12. ASSUME NEW p \in Cell, NEW r \in Cell, NEW k \in Key, NEW sensitive \in BOOLEAN,
              ReplaceItemInObject(p, k, r, sensitive)
       PROVE  TypeOK' /\ SoundInv'
  BY <1>12, ReplaceItemInObjectStep
<1>13. ASSUME NEW n \in Fresh, NEW i \in DOMAIN Memory, NEW c \in Live(mem), NEW recurse \in BOOLEAN,
              Duplicate(c, recurse, {Memory[j] : j \in 1..i}, n)
       PROVE  TypeOK' /\ SoundInv'
  BY <1>13, DuplicateStep
<1>14. ASSUME NEW c \in Cell, DeleteTree(c)
       PROVE  TypeOK' /\ SoundInv'
  BY <1>14, DeleteTreeStep
<1>15. CASE UNCHANGED vars
  BY <1>15, FineThen DEF vars, Fine
<1> QED
  BY <1>1, <1>2, <1>3, <1>4, <1>5, <1>6, <1>7, <1>8, <1>9, <1>10, <1>11, <1>12, <1>13, <1>14, <1>15
     DEF Next
-----------------------------------------------------------------------------
(* What is swept from the roots.  A set of living items is closed if it    *)
(* has what its items own.                                                 *)
Closed(m, T) ==
    \A x \in T : /\ m.cell[x].next # Null => m.cell[x].next \in T
                 /\ Owner(m, x) /\ m.cell[x].child # Null => m.cell[x].child \in T

LEMMA OwnedIs ==
    ASSUME NEW m \in Memories, NEW x \in Live(m)
    PROVE  \A y : y \in Owned(m)[x] <=>
                    y \in Cell /\ (y = m.cell[x].next \/ (Owner(m, x) /\ y = m.cell[x].child))
BY Typed DEF Owned, Owner

LEMMA SweptIs ==
    ASSUME NEW m \in Memories, Linked(m), NEW H \in SUBSET Live(m)
    PROVE  Swept(m, H) \subseteq Live(m) /\ H \subseteq Swept(m, H) /\ Closed(m, Swept(m, H))
<1> DEFINE S == Swept(m, H)
           out == Owned(m)
<1>1. H \in SUBSET Cell /\ out \in [Cell -> SUBSET Cell] /\ S = Reach(out, H) /\ Live(m) \in SUBSET Cell
  BY Typed DEF Swept
<1>2. \A x \in Live(m) : out[x] \subseteq Live(m)
  BY Typed DEF Linked, Owned
<1> HIDE DEF S
<1>3. S \subseteq Live(m)
  <2> HIDE DEF out
  <2> QED
    BY <1>1, <1>2, ReachLeast
<1>4. H \subseteq S /\ \A x \in S : out[x] \subseteq S
  BY <1>1, ReachClosed
<1>5. Closed(m, S)
  <2>1. ASSUME NEW x \in S, m.cell[x].next # Null PROVE m.cell[x].next \in S
    BY <1>3, <1>4, <2>1, OwnedIs, Typed DEF Linked
  <2>2. ASSUME NEW x \in S, Owner(m, x), m.cell[x].child # Null PROVE m.cell[x].child \in S
    BY <1>3, <1>4, <2>2, OwnedIs, Typed DEF Linked, Owner
  <2> QED
    BY <2>1, <2>2 DEF Closed
<1> QED
  BY <1>3, <1>4, <1>5 DEF S

LEMMA SweptLeast ==
    ASSUME NEW m \in Memories, NEW H, NEW T \in SUBSET Live(m), H \subseteq T, Closed(m, T)
    PROVE  Swept(m, H) \subseteq T
<1> DEFINE out == Owned(m)
<1>1. \A x \in T : out[x] \subseteq T
  BY OwnedIs, Typed DEF Closed
<1>2. T \in SUBSET Cell
  BY Typed
<1> HIDE DEF out
<1> QED
  BY <1>1, <1>2, ReachLeast DEF Swept, out

(* What is swept together is swept one after the other.                    *)
LEMMA SweptApart ==
    ASSUME NEW m \in Memories, Linked(m), NEW H \in SUBSET Live(m), NEW c \in H
    PROVE  Swept(m, H) \subseteq Swept(m, H \ {c}) \cup Swept(m, {c})
<1> DEFINE A == Swept(m, H \ {c})
           B == Swept(m, {c})
<1>1. A \subseteq Live(m) /\ H \ {c} \subseteq A /\ Closed(m, A)
  BY SweptIs
<1>2. B \subseteq Live(m) /\ {c} \subseteq B /\ Closed(m, B)
  BY SweptIs
<1> HIDE DEF A, B
<1>3. Closed(m, A \cup B)
  BY <1>1, <1>2 DEF Closed
<1>4. Swept(m, H) \subseteq A \cup B
  BY <1>1, <1>2, <1>3, SweptLeast
<1> QED
  BY <1>4 DEF A, B

(* The list of a container is the least one with what it begins with.      *)
LEMMA ItemsLeast ==
    ASSUME NEW m \in Memories, NEW p, NEW T \in SUBSET Cell,
           m.cell[p].child \in Cell => m.cell[p].child \in T,
           \A x \in T : m.cell[x].next \in Cell => m.cell[x].next \in T
    PROVE  Items(m, p) \subseteq T
<1> DEFINE out == Along(m)
           S == {m.cell[p].child} \cap Cell
<1>1. S \subseteq T /\ \A x \in T : out[x] \subseteq T
  BY DEF Along
<1> HIDE DEF out, S
<1> QED
  BY <1>1, ReachLeast DEF Items, Ahead, out, S

(* Only a list's container and its items lead to its items, ...            *)
LEMMA Incoming ==
    ASSUME NEW m \in Memories, Sound(m), NEW p, Owner(m, p), NEW d \in Live(m)
    PROVE  /\ m.cell[d].next \in Items(m, p) => d \in Items(m, p)
           /\ Owner(m, d) /\ m.cell[d].child \in Items(m, p) => d = p
<1>1. Linked(m) /\ OneOwner(m) /\ p \in Cell /\ d \in Cell /\ d # Null
  BY Typed DEF Sound, Owner
<1>2. ASSUME m.cell[d].next \in Items(m, p) PROVE d \in Items(m, p)
  <2> DEFINE e == m.cell[d].next
  <2>1. e \in Items(m, p) /\ e # Null
    BY <1>2, InList
  <2>2. m.cell[e].prev = d
    BY <1>1, <2>1 DEF Linked
  <2>3. e # m.cell[p].child
    BY <1>1, <2>1, <2>2, InList
  <2> QED
    BY <1>1, <2>1, <2>2, <2>3, ItemsFacts
<1>3. ASSUME Owner(m, d), m.cell[d].child \in Items(m, p) PROVE d = p
  BY <1>1, <1>3, InList
<1> QED
  BY <1>2, <1>3

(* ... and two lists have no items in common.                              *)
LEMMA ListsApart ==
    ASSUME NEW m \in Memories, Sound(m), NEW p, Owner(m, p), NEW q, Owner(m, q), p # q
    PROVE  Items(m, p) \cap Items(m, q) = {}
<1> DEFINE A == Items(m, p)
           B == Items(m, q)
           T == A \ B
<1>1. /\ Linked(m) /\ p \in Live(m) /\ q \in Live(m)
      /\ Null \notin Cell /\ Live(m) \subseteq Cell
  BY Typed DEF Sound, Owner
<1>2. A \subseteq Live(m) /\ B \subseteq Live(m) /\ \A x \in A : m.cell[x].next # Null => m.cell[x].next \in A
  BY <1>1, ItemsFacts
<1>3. m.cell[p].child \in Cell => m.cell[p].child \in T
  <2>1. m.cell[p].child \in Cell => m.cell[p].child \in A
    BY <1>1, ItemsFacts
  <2>2. m.cell[p].child \notin B
    BY <1>1, Incoming
  <2> QED
    BY <2>1, <2>2
<1>4. ASSUME NEW x \in T, m.cell[x].next \in Cell PROVE m.cell[x].next \in T
  <2>1. m.cell[x].next \in A
    BY <1>1, <1>2, <1>4
  <2>2. m.cell[x].next \notin B
    BY <1>2, <1>4, Incoming
  <2> QED
    BY <2>1, <2>2
<1>5. T \in SUBSET Cell
  BY <1>1, <1>2
<1> HIDE DEF T
<1>6. A \subseteq T
  BY <1>3, <1>4, <1>5, ItemsLeast
<1> QED
  BY <1>6 DEF T
-----------------------------------------------------------------------------
(* What a call may do to the items swept and to the lists: no list but p's *)
(* gains an item, and p's gains at most c.                                 *)
Stays(m, m2) ==
    /\ Live(m) \subseteq Live(m2)
    /\ \A x \in Live(m) : SameLinks(m, m2, x) /\ (Owner(m2, x) <=> Owner(m, x))
SweptMore(m, H, m2, H2) == Swept(m, H) \subseteq Swept(m2, H2)
ListsGrow(m, m2, p, c) ==
    \A q \in Live(m) \cap Live(m2) : Owner(m2, q) =>
        Items(m2, q) \subseteq Items(m, q) \cup (IF q = p THEN {c} ELSE {})

LEMMA StaysSwept ==
    ASSUME NEW m \in Memories, Linked(m), NEW m2 \in Memories, Linked(m2), Stays(m, m2),
           NEW H \in SUBSET Live(m)
    PROVE  Swept(m2, H) = Swept(m, H)
<1> DEFINE A == Swept(m, H)
           B == Swept(m2, H)
<1>1. A \subseteq Live(m) /\ H \subseteq A /\ Closed(m, A)
  BY SweptIs
<1>2. H \in SUBSET Live(m2)
  BY DEF Stays
<1>3. B \subseteq Live(m2) /\ H \subseteq B /\ Closed(m2, B)
  BY <1>2, SweptIs
<1>4. B \subseteq A
  <2>1. Closed(m2, A) /\ A \in SUBSET Live(m2)
    BY <1>1 DEF Stays, SameLinks, Closed
  <2> HIDE DEF A, B
  <2> QED
    BY <1>1, <2>1, SweptLeast DEF B
<1>5. A \subseteq B
  <2>1. Closed(m, B)
    BY <1>1, <1>3, <1>4 DEF Stays, SameLinks, Closed
  <2> HIDE DEF B
  <2> QED
    BY <1>1, <1>3, <1>4, <2>1, SweptLeast
<1> QED
  BY <1>4, <1>5

LEMMA StaysLists ==
    ASSUME NEW m \in Memories, Linked(m), NEW m2 \in Memories, Stays(m, m2)
    PROVE  ListsGrow(m, m2, Null, Null)
<1> SUFFICES ASSUME NEW q \in Live(m), Owner(m2, q) PROVE Items(m2, q) \subseteq Items(m, q)
  BY DEF ListsGrow
<1> DEFINE T == Items(m, q)
<1>1. Owner(m, q) /\ m2.cell[q].child = m.cell[q].child
  BY DEF Stays, SameLinks
<1>2. /\ T \subseteq Live(m) /\ T \subseteq Cell /\ Null \notin Cell
      /\ m.cell[q].child # Null => m.cell[q].child \in T
      /\ \A x \in T : m.cell[x].next # Null => m.cell[x].next \in T
  BY <1>1, ItemsFacts, Typed
<1>3. \A x \in T : m2.cell[x].next = m.cell[x].next
  BY <1>2 DEF Stays, SameLinks
<1> HIDE DEF T
<1>4. Items(m2, q) \subseteq T
  BY <1>1, <1>2, <1>3, ItemsLeast
<1> QED
  BY <1>4 DEF T

(* An item that joins a list: what led to the item after it, or to the end *)
(* of the list, leads to it.                                               *)
Joined(m, m2, p, c, after) ==
    /\ Rewired(m, m2) /\ m2.cell[c].next = after /\ after \in Items(m, p) \cup {Null}
    /\ \/ /\ m.cell[p].child = after /\ m2.cell[p].child = c
          /\ NextBut(m, m2, {c}) /\ ChildBut(m, m2, {p})
       \/ /\ \E b \in Items(m, p) : /\ m.cell[b].next = after /\ m2.cell[b].next = c
                                    /\ NextBut(m, m2, {b, c})
          /\ ChildBut(m, m2, {})

LEMMA AddJoins ==
    ASSUME NEW m \in Memories, Sound(m), NEW p, Owner(m, p), NEW c, Root(m, c),
           NEW m2, m2 = AddItem(m, p, c)
    PROVE  \E after : Joined(m, m2, p, c, after)
<1>1. /\ Linked(m) /\ c \in Cell /\ p \in Cell /\ c \in Pointer /\ m.cell[c].next = Null
  BY Typed DEF Sound, Root, Owner, Pointer
<1>2. CASE m.cell[p].child = Null
  <2>1. m2 = SetChild(m, p, c)
    BY <1>2 DEF AddItem, SetChild
  <2>2. ChildIs(m, m2, p, c)
    BY <1>1, <2>1, SetChildView
  <2>3. Joined(m, m2, p, c, Null)
    BY <1>1, <1>2, <2>2 DEF Joined, ChildIs, NextBut
  <2> QED
    BY <2>3
<1>3. CASE m.cell[p].child # Null
  <2> DEFINE last == Pick({d \in Items(m, p) : m.cell[d].next = Null})
  <2>1. last \in Items(m, p) /\ m.cell[last].next = Null
    BY <1>1, <1>3, LastExists DEF Pick
  <2>2. m2 = Suffix(m, last, c)
    BY <1>3 DEF AddItem
  <2> HIDE DEF last
  <2>3. last \in Cell /\ last # c
    BY <1>1, <2>1, InList, ItemsNoRoot
  <2>4. SuffixIs(m, m2, last, c)
    BY <1>1, <2>2, <2>3, SuffixView
  <2>5. m2.cell[c].next = Null /\ m2.cell[last].next = c /\ NextBut(m, m2, {last, c})
    BY <1>1, <2>3, <2>4 DEF SuffixIs, NextBut
  <2>6. Rewired(m, m2) /\ ChildBut(m, m2, {})
    BY <2>4 DEF SuffixIs
  <2>7. Joined(m, m2, p, c, Null)
    BY <2>1, <2>5, <2>6 DEF Joined
  <2> QED
    BY <2>7
<1> QED
  BY <1>2, <1>3

LEMMA InsertJoins ==
    ASSUME NEW m \in Memories, Sound(m), NEW p, Owner(m, p), NEW after \in Items(m, p),
           NEW c, Root(m, c), NEW m2, m2 = InsertBefore(m, p, after, c)
    PROVE  Joined(m, m2, p, c, after)
<1> DEFINE before == m.cell[after].prev
<1>1. /\ after \in Cell /\ after # Null /\ before \in (Live(m) \ {after}) \cup {Null}
      /\ m.cell[p].child = after <=> before = Null
  BY InList
<1>2. /\ Linked(m) /\ p \in Cell /\ Live(m) \subseteq Cell /\ Null \notin Cell
      /\ c \in Cell /\ m.cell[c].next = Null
  BY Typed DEF Sound, Owner, Root
<1>3. before # Null => m.cell[before].next = after /\ before \in Items(m, p)
  <2>1. after \in Live(m)
    BY InList
  <2>2. before # Null => before \in Items(m, p)
    BY <1>1, <1>2, ItemsFacts
  <2> QED
    BY <1>2, <2>1, <2>2 DEF Linked
<1>4. c # after /\ c # before
  BY <1>1, <1>2, <1>3, ItemsNoRoot
<1>5. InsertIs(m, m2, p, after, c)
  <2>1. before \in (Cell \ {c}) \cup {Null} /\ c \in Cell \ {after}
    BY <1>1, <1>2, <1>4
  <2> QED
    BY <1>1, <1>2, <2>1, InsertView
<1>6. /\ Rewired(m, m2) /\ NextBut(m, m2, {c, before}) /\ m2.cell[c].next = after
      /\ before # Null => m2.cell[before].next = c
      /\ ChildBut(m, m2, IF before = Null THEN {p} ELSE {})
      /\ before = Null => m2.cell[p].child = c
  BY <1>5 DEF InsertIs
<1> HIDE DEF before
<1>7. CASE before = Null
  <2>1. NextBut(m, m2, {c})
    BY <1>2, <1>6, <1>7 DEF NextBut
  <2> QED
    BY <1>1, <1>6, <1>7, <2>1 DEF Joined
<1>8. CASE before # Null
  <2>1. {c, before} = {before, c}
    OBVIOUS
  <2> QED
    BY <1>3, <1>6, <1>8, <2>1 DEF Joined
<1> QED
  BY <1>7, <1>8

LEMMA JoinedSwept ==
    ASSUME NEW m \in Memories, Sound(m), NEW p, Owner(m, p), NEW c, Root(m, c),
           NEW m2, Linked(m2), NEW after, Joined(m, m2, p, c, after),
           NEW H \in SUBSET Live(m), c \in H, p \in Swept(m, H \ {c})
    PROVE  SweptMore(m, H, m2, H \ {c})
<1> DEFINE T == Swept(m2, H \ {c})
<1>1. /\ Linked(m) /\ m2 \in Memories /\ Live(m2) = Live(m) /\ Live(m) \subseteq Cell
      /\ \A x \in Cell : Owner(m2, x) <=> Owner(m, x)
      /\ m.cell[c].next = Null /\ c # Null /\ Null \notin Cell /\ c \in Cell
  BY FlagsKeep, Typed DEF Sound, Joined, Rewired, Root
<1>2. T \subseteq Live(m) /\ H \ {c} \subseteq T /\ Closed(m2, T)
  BY <1>1, SweptIs
<1> HIDE DEF T
<1>3. /\ \A x \in T : m2.cell[x].next # Null => m2.cell[x].next \in T
      /\ \A x \in T : Owner(m, x) /\ m2.cell[x].child # Null => m2.cell[x].child \in T
  BY <1>1, <1>2 DEF Closed
<1>4. c \in T => after = Null \/ after \in T
  BY <1>3 DEF Joined
<1>5. Closed(m, T)
  <2>1. CASE /\ m.cell[p].child = after /\ m2.cell[p].child = c
             /\ NextBut(m, m2, {c}) /\ ChildBut(m, m2, {p})
    BY <1>1, <1>2, <1>3, <1>4, <2>1 DEF Closed, NextBut, ChildBut
  <2>2. CASE /\ \E b \in Items(m, p) : /\ m.cell[b].next = after /\ m2.cell[b].next = c
                                       /\ NextBut(m, m2, {b, c})
             /\ ChildBut(m, m2, {})
    <3>1. PICK b \in Items(m, p) : /\ m.cell[b].next = after /\ m2.cell[b].next = c
                                   /\ NextBut(m, m2, {b, c})
      BY <2>2
    <3> QED
      BY <1>1, <1>2, <1>3, <1>4, <2>2, <3>1 DEF Closed, NextBut, ChildBut
  <2> QED
    BY <2>1, <2>2 DEF Joined
<1>6. p \in T
  BY <1>2, <1>5, SweptLeast
<1>7. c \in T
  <2>1. CASE m2.cell[p].child = c
    BY <1>1, <1>3, <1>6, <2>1
  <2>2. CASE \E b \in Items(m, p) : m2.cell[b].next = c
    <3>1. /\ m.cell[p].child \in Cell => m.cell[p].child \in T
          /\ \A x \in T : m.cell[x].next \in Cell => m.cell[x].next \in T
      BY <1>1, <1>5, <1>6 DEF Closed
    <3>2. Items(m, p) \subseteq T
      BY <1>1, <1>2, <3>1, ItemsLeast
    <3> QED
      BY <1>1, <1>3, <2>2, <3>2
  <2> QED
    BY <2>1, <2>2 DEF Joined
<1>8. Swept(m, H) \subseteq T
  BY <1>2, <1>5, <1>7, SweptLeast
<1> QED
  BY <1>8 DEF T, SweptMore

LEMMA JoinedLists ==
    ASSUME NEW m \in Memories, Sound(m), NEW p, Owner(m, p), NEW c, Root(m, c),
           NEW m2, NEW after, Joined(m, m2, p, c, after)
    PROVE  ListsGrow(m, m2, p, c)
<1>1. /\ Linked(m) /\ m2 \in Memories /\ Live(m2) = Live(m) /\ Live(m) \subseteq Cell
      /\ \A x \in Cell : Owner(m2, x) <=> Owner(m, x)
      /\ c # Null /\ Null \notin Cell /\ c \in Cell
  BY FlagsKeep, Typed DEF Sound, Joined, Rewired, Root
<1> SUFFICES ASSUME NEW q \in Live(m), Owner(m, q)
             PROVE  Items(m2, q) \subseteq Items(m, q) \cup (IF q = p THEN {c} ELSE {})
  BY <1>1 DEF ListsGrow
<1> DEFINE T == Items(m, q)
           U == T \cup (IF q = p THEN {c} ELSE {})
<1>2. /\ T \subseteq Live(m) /\ q \in Cell /\ U \in SUBSET Cell
      /\ m.cell[q].child # Null => m.cell[q].child \in T
      /\ \A x \in T : m.cell[x].next # Null => m.cell[x].next \in T
      /\ c \notin T
  BY <1>1, ItemsFacts, ItemsNoRoot
<1>3. q # p => Items(m, p) \cap T = {}
  BY ListsApart
<1> HIDE DEF T
<1>4. after # Null => (q = p => after \in T)
  BY DEF Joined, T
<1>5. m2.cell[q].child \in Cell => m2.cell[q].child \in U
  BY <1>1, <1>2 DEF Joined, ChildBut
<1>6. \A x \in U : m2.cell[x].next \in Cell => m2.cell[x].next \in U
  BY <1>1, <1>2, <1>3, <1>4 DEF Joined, NextBut
<1> HIDE DEF U
<1>7. Items(m2, q) \subseteq U
  BY <1>1, <1>2, <1>5, <1>6, ItemsLeast
<1> QED
  BY <1>7 DEF U, T

(* An item that leaves its list: what led to it leads to r now, which is   *)
(* the item after it, or a root that takes its place.                      *)
Taken(m, m2, p, c, r) ==
    LET i == m.cell[c] IN
    /\ Rewired(m, m2) /\ m2.cell[c].next = Null
    /\ NextBut(m, m2, {c, r, i.prev})
    /\ (r = i.next /\ (r # Null => m2.cell[r].next = m.cell[r].next)) \/ (Root(m, r) /\ m2.cell[r].next = i.next)
    /\ i.prev # Null => m2.cell[i.prev].next = r
    /\ ChildBut(m, m2, IF m.cell[p].child = c THEN {p} ELSE {})
    /\ m.cell[p].child = c => m2.cell[p].child = r

LEMMA DetachTakes ==
    ASSUME NEW m \in Memories, Sound(m), NEW p, Owner(m, p), NEW c \in Items(m, p),
           NEW m2, m2 = Detach(m, p, c)
    PROVE  Taken(m, m2, p, c, m.cell[c].next)
<1> DEFINE i == m.cell[c]
<1>1. /\ c \in Live(m) /\ c \in Cell /\ c # Null
      /\ i.next \in (Live(m) \ {c}) \cup {Null}
      /\ i.prev \in (Live(m) \ {c}) \cup {Null}
  BY InList
<1>2. Linked(m) /\ p \in Cell /\ Live(m) \subseteq Cell /\ Null \notin Cell
  BY Typed DEF Sound, Owner
<1>3. DetachIs(m, m2, p, c)
  <2>1. i.next \in (Cell \ {c}) \cup {Null} /\ i.prev \in (Cell \ {c}) \cup {Null}
    BY <1>1, <1>2
  <2> QED
    BY <1>1, <1>2, <2>1, DetachView
<1>4. i.next # Null => m2.cell[i.next].next = m.cell[i.next].next
  <2>1. ASSUME i.next # Null, i.next = i.prev PROVE m.cell[i.next].next = c /\ m2.cell[i.next].next = i.next
    BY <1>1, <1>2, <1>3, <2>1 DEF DetachIs, Linked
  <2>2. ASSUME i.next # Null, i.next = i.prev PROVE FALSE
    <3> DEFINE T == Items(m, p) \ {c, i.next}
    <3>1. /\ m.cell[i.next].next = c /\ m.cell[i.next].prev = c /\ i.next \in Items(m, p)
          /\ m.cell[c].prev # Null
      BY <1>1, <1>2, <2>1, <2>2, ItemsFacts DEF Linked
    <3>2. m.cell[p].child \in Cell => m.cell[p].child \in T
      <4>1. m.cell[p].child # c /\ m.cell[p].child # i.next
        BY <1>1, <1>2, <3>1, InList
      <4> QED
        BY <1>2, <4>1, ItemsFacts
    <3>3. ASSUME NEW x \in T, m.cell[x].next \in Cell PROVE m.cell[x].next \in T
      <4>1. m.cell[x].next \in Items(m, p) /\ x \in Live(m)
        BY <1>2, <3>3, ItemsFacts
      <4>2. m.cell[m.cell[x].next].prev = x
        BY <1>2, <3>3, <4>1 DEF Linked
      <4> QED
        BY <2>2, <3>1, <3>3, <4>1, <4>2
    <3>4. T \in SUBSET Cell
      BY <1>2, ItemsFacts
    <3> HIDE DEF T
    <3>5. Items(m, p) \subseteq T
      BY <3>2, <3>3, <3>4, ItemsLeast
    <3> QED
      BY <3>5 DEF T
  <2>3. i.next # Null => i.next \in Cell \ {c, i.prev}
    BY <1>1, <1>2, <2>2
  <2> QED
    BY <1>3, <2>3 DEF DetachIs, NextBut
<1>5. NextBut(m, m2, {c, i.next, i.prev})
  BY <1>3 DEF DetachIs, NextBut
<1> QED
  BY <1>3, <1>4, <1>5 DEF DetachIs, Taken

LEMMA ExchangeTakes ==
    ASSUME NEW m \in Memories, Sound(m), NEW p, Owner(m, p), NEW c \in Items(m, p),
           NEW r, Root(m, r), NEW m2, m2 = Exchanged(m, p, c, r)
    PROVE  Taken(m, m2, p, c, r)
<1> DEFINE i == m.cell[c]
<1>1. /\ c \in Live(m) /\ c \in Cell /\ c # Null
      /\ i.next \in (Live(m) \ {c}) \cup {Null}
      /\ i.prev \in (Live(m) \ {c}) \cup {Null}
  BY InList
<1>2. Linked(m) /\ p \in Cell /\ Live(m) \subseteq Cell /\ Null \notin Cell
  BY Typed DEF Sound, Owner
<1>3. /\ i.next # Null => m.cell[i.next].prev = c
      /\ i.prev # Null => m.cell[i.prev].next = c
  BY <1>1, <1>2 DEF Linked
<1>4. /\ r \in Cell /\ r # c /\ r # i.next /\ r # i.prev
  <2>1. r # c
    BY <1>2, ItemsNoRoot
  <2> QED
    BY <1>1, <1>2, <1>3, <2>1 DEF Root
<1>5. ExchangeIs(m, m2, p, c, r)
  <2>1. i.next \in (Cell \ {c, r}) \cup {Null} /\ i.prev \in (Cell \ {c, r}) \cup {Null}
    BY <1>1, <1>2, <1>4
  <2> QED
    BY <1>1, <1>2, <1>4, <2>1, ExchangeView
<1> QED
  BY <1>5 DEF ExchangeIs, Taken

LEMMA TakenSwept ==
    ASSUME NEW m \in Memories, Sound(m), NEW p, Owner(m, p), NEW c \in Items(m, p),
           NEW m2, Linked(m2), NEW r, Taken(m, m2, p, c, r),
           NEW H \in SUBSET Live(m), \A x \in H : Root(m, x), p \in Swept(m, H \ {r})
    PROVE  SweptMore(m, H, m2, (H \ {r}) \cup {c})
<1> DEFINE i == m.cell[c]
           A == Items(m, p)
           U == Swept(m2, H \ {r})
           T == Swept(m2, (H \ {r}) \cup {c})
           V == U \ (A \cup {r})
<1>1. /\ Linked(m) /\ m2 \in Memories /\ Live(m2) = Live(m) /\ Live(m) \subseteq Cell
      /\ \A x \in Cell : Owner(m2, x) <=> Owner(m, x)
      /\ Null \notin Cell /\ p \in Live(m)
  BY FlagsKeep, Typed DEF Sound, Taken, Rewired, Owner
<1>2. /\ c \in Live(m) /\ c # Null
      /\ i.next \in (Live(m) \ {c}) \cup {Null} /\ i.prev \in (Live(m) \ {c}) \cup {Null}
      /\ m.cell[p].child = c <=> i.prev = Null
      /\ i.prev # Null => m.cell[i.prev].next = c
      /\ i.next # Null => i.next \in A
      /\ i.prev # Null => i.prev \in A
      /\ A \subseteq Live(m)
  <2>1. /\ i.next # Null => i.next \in A
        /\ c # m.cell[p].child => i.prev \in A
        /\ A \subseteq Live(m)
    BY <1>1, ItemsFacts
  <2> QED
    BY <1>1, <2>1, InList DEF Linked
<1>3. /\ \A x \in Live(m) \ {c, r, i.prev} : m2.cell[x].next = m.cell[x].next
      /\ \A x \in Live(m) : x # p => m2.cell[x].child = m.cell[x].child
      /\ m.cell[p].child # c => m2.cell[p].child = m.cell[p].child
  BY <1>1 DEF Taken, NextBut, ChildBut
<1>4. /\ m2.cell[c].next = Null
      /\ i.prev # Null => m2.cell[i.prev].next = r
      /\ m.cell[p].child = c => m2.cell[p].child = r
      /\ \/ r = i.next /\ (r # Null => m2.cell[r].next = m.cell[r].next)
         \/ Root(m, r) /\ m2.cell[r].next = i.next
  BY DEF Taken
<1>5. Root(m, r) => r \in Live(m) /\ r # Null /\ r \notin A /\ m.cell[r].next = Null
  <2>1. Root(m, r) => r \notin A
    BY <1>1, ItemsNoRoot
  <2> QED
    BY <1>1, <2>1 DEF Root
<1>6. /\ H \ {r} \in SUBSET Live(m2) /\ (H \ {r}) \cup {c} \in SUBSET Live(m2)
  BY <1>1, <1>2
<1>7. U \subseteq Live(m) /\ H \ {r} \subseteq U /\ Closed(m2, U)
  BY <1>1, <1>6, SweptIs
<1>8. T \subseteq Live(m) /\ (H \ {r}) \cup {c} \subseteq T /\ Closed(m2, T)
  BY <1>1, <1>6, SweptIs
<1>9. U \subseteq T
  BY <1>1, <1>7, <1>8, SweptLeast
<1>10. \A x \in H : x \notin A
  BY <1>1, ItemsNoRoot
<1>11. \A d \in Live(m) : /\ m.cell[d].next \in A => d \in A
                          /\ Owner(m, d) /\ m.cell[d].child \in A => d = p
  BY Incoming
<1>12. \A d \in Live(m) : /\ Root(m, r) => m.cell[d].next # r
                          /\ Root(m, r) /\ Owner(m, d) => m.cell[d].child # r
  BY <1>1 DEF Root, Linked
<1> HIDE DEF A, U, T, V, i
<1>13. r \in A \cup {Null} \/ Root(m, r)
  BY <1>2, <1>4
<1>14. p \in U
  <2> SUFFICES ASSUME p \notin U PROVE FALSE
    OBVIOUS
  <2>1. V \subseteq Live(m) /\ H \ {r} \subseteq V /\ V \subseteq U
    BY <1>7, <1>10 DEF V
  <2>2. \A x \in V : m2.cell[x].next = m.cell[x].next /\ m2.cell[x].child = m.cell[x].child /\ x # p
    <3>1. \A x \in V : x \notin A /\ x # r /\ x # c /\ x # i.prev /\ x # p
      BY <1>1, <1>2, <2>1 DEF V, A
    <3> QED
      BY <1>3, <2>1, <3>1
  <2>3. ASSUME NEW x \in V, m.cell[x].next # Null PROVE m.cell[x].next \in V
    <3>1. m.cell[x].next \in U
      BY <1>7, <2>1, <2>2, <2>3 DEF Closed
    <3>2. m.cell[x].next \notin A
      BY <1>11, <2>1, <2>3 DEF V
    <3> QED
      BY <1>12, <1>13, <2>1, <2>3, <3>1, <3>2 DEF V
  <2>4. ASSUME NEW x \in V, Owner(m, x), m.cell[x].child # Null PROVE m.cell[x].child \in V
    <3>1. m.cell[x].child \in U
      BY <1>1, <1>7, <2>1, <2>2, <2>4 DEF Closed
    <3>2. m.cell[x].child \notin A
      BY <1>11, <2>1, <2>2, <2>4
    <3> QED
      BY <1>12, <1>13, <2>1, <2>4, <3>1, <3>2 DEF V
  <2>5. Closed(m, V)
    BY <2>3, <2>4 DEF Closed
  <2>6. Swept(m, H \ {r}) \subseteq V
    BY <2>1, <2>5, SweptLeast
  <2> QED
    BY <2>1, <2>6
<1>15. p \in T /\ c \in T
  BY <1>8, <1>9, <1>14
<1>16. A \subseteq T /\ (r = Null \/ r \in T)
  <2> DEFINE W == {d \in A : d \in T /\ (d = c => r = Null \/ r \in T)}
  <2>1. m.cell[p].child \in Cell => m.cell[p].child \in W
    <3>1. m.cell[p].child \in Cell => m.cell[p].child \in A
      BY <1>1, ItemsFacts DEF A
    <3>2. m2.cell[p].child # Null => m2.cell[p].child \in T
      BY <1>1, <1>8, <1>15 DEF Closed
    <3> QED
      BY <1>1, <1>3, <1>4, <1>15, <3>1, <3>2
  <2>2. ASSUME NEW d \in W, m.cell[d].next \in Cell PROVE m.cell[d].next \in W
    <3>1. m.cell[d].next \in A /\ d \in Live(m)
      BY <1>1, <1>2, <2>2, ItemsFacts DEF A
    <3>2. m2.cell[d].next # Null => m2.cell[d].next \in T
      BY <1>8, <2>2 DEF Closed
    <3>3. CASE d = c
      <4>1. m.cell[c].next # c /\ i.next = m.cell[c].next /\ i.next # Null
        BY <1>1, <1>2, <2>2, <3>3 DEF i
      <4>2. CASE r = i.next
        BY <2>2, <3>1, <3>3, <4>1, <4>2
      <4>3. CASE Root(m, r) /\ m2.cell[r].next = i.next
        <5>1. r \in T
          BY <1>5, <2>2, <3>3, <4>3
        <5>2. i.next \in T
          BY <1>8, <4>1, <4>3, <5>1 DEF Closed
        <5> QED
          BY <3>1, <3>3, <4>1, <5>2
      <4> QED
        BY <1>4, <4>2, <4>3
    <3>4. CASE d # c /\ m.cell[d].next = c
      <4>1. d = i.prev
        BY <1>1, <1>2, <3>1, <3>4 DEF Linked, i
      <4>2. m2.cell[d].next = r
        BY <1>1, <1>4, <3>1, <4>1
      <4> QED
        BY <1>15, <3>1, <3>2, <3>4, <4>2
    <3>5. CASE d # c /\ m.cell[d].next # c
      <4>1. d # i.prev
        BY <1>1, <1>2, <3>1, <3>5
      <4>2. m2.cell[d].next = m.cell[d].next
        BY <1>1, <1>3, <1>4, <1>5, <2>2, <3>1, <3>5, <4>1
      <4> QED
        BY <1>1, <2>2, <3>1, <3>2, <3>5, <4>2
    <3> QED
      BY <3>3, <3>4, <3>5
  <2>3. W \in SUBSET Cell
    BY <1>1, <1>2
  <2> HIDE DEF W
  <2>4. A \subseteq W
    BY <2>1, <2>2, <2>3, ItemsLeast DEF A
  <2>5. c \in A
    BY DEF A
  <2> QED
    BY <2>4, <2>5 DEF W
<1>17. Closed(m, T)
  <2>1. ASSUME NEW x \in T, m.cell[x].next # Null PROVE m.cell[x].next \in T
    <3>1. x \in Live(m) /\ (m2.cell[x].next # Null => m2.cell[x].next \in T)
      BY <1>8 DEF Closed
    <3>2. CASE x = c
      BY <1>2, <1>16, <2>1, <3>2 DEF i
    <3>3. CASE x = i.prev
      BY <1>1, <1>2, <1>15, <2>1, <3>1, <3>3
    <3>4. CASE x # c /\ x # i.prev
      <4>1. m2.cell[x].next = m.cell[x].next
        BY <1>1, <1>3, <1>4, <1>5, <2>1, <3>1, <3>4
      <4> QED
        BY <2>1, <3>1, <4>1
    <3> QED
      BY <3>2, <3>3, <3>4
  <2>2. ASSUME NEW x \in T, Owner(m, x), m.cell[x].child # Null PROVE m.cell[x].child \in T
    <3>1. x \in Live(m) /\ (m2.cell[x].child # Null => m2.cell[x].child \in T)
      BY <1>1, <1>8, <2>2 DEF Closed
    <3>2. CASE x = p /\ m.cell[p].child = c
      BY <1>15, <3>2
    <3>3. CASE ~(x = p /\ m.cell[p].child = c)
      BY <1>3, <2>2, <3>1, <3>3
    <3> QED
      BY <3>2, <3>3
  <2> QED
    BY <2>1, <2>2 DEF Closed
<1>18. H \subseteq T
  BY <1>1, <1>8, <1>16
<1>19. Swept(m, H) \subseteq T
  BY <1>8, <1>17, <1>18, SweptLeast
<1> QED
  BY <1>19 DEF T, SweptMore

LEMMA TakenLists ==
    ASSUME NEW m \in Memories, Sound(m), NEW p, Owner(m, p), NEW c \in Items(m, p),
           NEW m2, NEW r, Taken(m, m2, p, c, r)
    PROVE  ListsGrow(m, m2, p, r)
<1> DEFINE i == m.cell[c]
<1>1. /\ Linked(m) /\ m2 \in Memories /\ Live(m2) = Live(m) /\ Live(m) \subseteq Cell
      /\ \A x \in Cell : Owner(m2, x) <=> Owner(m, x)
      /\ Null \notin Cell /\ p \in Live(m)
  BY FlagsKeep, Typed DEF Sound, Taken, Rewired, Owner
<1> SUFFICES ASSUME NEW q \in Live(m), Owner(m, q)
             PROVE  Items(m2, q) \subseteq Items(m, q) \cup (IF q = p THEN {r} ELSE {})
  BY <1>1 DEF ListsGrow
<1> DEFINE A == Items(m, p)
           T == Items(m, q)
           U == T \cup (IF q = p THEN {r} \cap Cell ELSE {})
<1>2. /\ i.prev # Null => i.prev \in A
      /\ i.next # Null => i.next \in A
      /\ c \in A
  <2>1. /\ i.next # Null => i.next \in A
        /\ c # m.cell[p].child => i.prev \in A
    BY <1>1, ItemsFacts
  <2> QED
    BY <2>1, InList
<1>3. /\ \A x \in Cell \ {c, r, i.prev} : m2.cell[x].next = m.cell[x].next
      /\ \A x \in Live(m) : x # p => m2.cell[x].child = m.cell[x].child
      /\ m.cell[p].child # c => m2.cell[p].child = m.cell[p].child
  BY <1>1 DEF Taken, NextBut, ChildBut
<1>4. /\ m2.cell[c].next = Null
      /\ i.prev # Null => m2.cell[i.prev].next = r
      /\ m.cell[p].child = c => m2.cell[p].child = r
      /\ \/ r = i.next /\ (r # Null => m2.cell[r].next = m.cell[r].next)
         \/ Root(m, r) /\ m2.cell[r].next = i.next
  BY DEF Taken
<1>5. /\ T \subseteq Cell /\ U \in SUBSET Cell
      /\ m.cell[q].child # Null => m.cell[q].child \in T
      /\ \A x \in T : m.cell[x].next # Null => m.cell[x].next \in T
      /\ Root(m, r) => r \notin T
  BY <1>1, ItemsFacts, ItemsNoRoot
<1>6. q # p => A \cap T = {}
  BY ListsApart
<1>7. q = p => A = T
  OBVIOUS
<1> HIDE DEF A, T, i
<1>8. m2.cell[q].child \in Cell => m2.cell[q].child \in U
  BY <1>1, <1>3, <1>4, <1>5
<1>9. ASSUME NEW x \in U, m2.cell[x].next \in Cell PROVE m2.cell[x].next \in U
  <2>1. CASE q # p
    <3>1. x \in T /\ x # c /\ x \in Cell /\ x # i.prev
      BY <1>1, <1>2, <1>5, <1>6, <1>9, <2>1
    <3>2. m2.cell[x].next = m.cell[x].next
      BY <1>1, <1>2, <1>3, <1>4, <1>5, <1>6, <2>1, <3>1
    <3> QED
      BY <1>1, <1>5, <1>9, <3>1, <3>2
  <2>2. CASE q = p
    <3>1. CASE x = c
      BY <1>1, <1>4, <1>9, <3>1
    <3>2. CASE x = i.prev
      BY <1>1, <1>4, <1>5, <1>9, <2>2, <3>2
    <3>3. CASE x = r /\ x # c /\ x # i.prev
      BY <1>1, <1>2, <1>4, <1>5, <1>7, <1>9, <2>2, <3>3
    <3>4. CASE x # c /\ x # i.prev /\ x # r
      BY <1>1, <1>3, <1>5, <1>9, <2>2, <3>4
    <3> QED
      BY <3>1, <3>2, <3>3, <3>4
  <2> QED
    BY <2>1, <2>2
<1> HIDE DEF U
<1>10. Items(m2, q) \subseteq U
  BY <1>1, <1>5, <1>8, <1>9, ItemsLeast
<1> QED
  BY <1>10 DEF U, T

LEMMA DeletedSwept ==
    ASSUME NEW m \in Memories, Sound(m), NEW c, Root(m, c), NEW m2, m2 = Delete(m, c),
           NEW H \in SUBSET Live(m), \A x \in H : Root(m, x)
    PROVE  Swept(m, H) \subseteq Swept(m2, H \ {c}) \cup Swept(m, {c})
<1> DEFINE S == Swept(m, {c})
           A == Swept(m2, H \ {c})
           To(q) == IF q \in S THEN Wild ELSE q
<1>1. /\ Linked(m) /\ OneOwner(m) /\ c \in Cell /\ c \in Live(m) /\ Live(m) \subseteq Cell
  BY Typed DEF Sound, Root
<1>2. /\ c \in S /\ S \subseteq Live(m)
      /\ \A d \in Live(m) \ S : /\ m.cell[d].next \notin S /\ m.cell[d].prev \notin S
                                /\ Owner(m, d) => m.cell[d].child \notin S
      /\ \A d \in S : Root(m, d) => d = c
  BY <1>1, SweptFacts
<1>3. /\ \A x \in Cell \ S : /\ SameFlags(m, m2, x)
                             /\ m2.cell[x].next = To(m.cell[x].next)
                             /\ m2.cell[x].child = To(m.cell[x].child)
  BY <1>1, DeleteView
<1>4. Cleared(m, m2, c)
  BY DeleteKeeps
<1>5. m2 \in Memories /\ Linked(m2) /\ Live(m2) = Live(m) \ S
  BY <1>4 DEF Cleared, Sound
<1>6. Closed(m, S)
  BY <1>1, SweptIs
<1> HIDE DEF S
<1>7. A \subseteq Live(m2) /\ H \ {c} \subseteq A /\ Closed(m2, A)
  <2>1. H \ {c} \in SUBSET Live(m2)
    BY <1>2, <1>5
  <2> QED
    BY <1>5, <2>1, SweptIs
<1> HIDE DEF A
<1>8. \A x \in A : x \in Live(m) \ S /\ x \in Cell /\ (Owner(m, x) => Owner(m2, x))
  BY <1>1, <1>3, <1>5, <1>7 DEF Owner, SameFlags
<1>9. Closed(m, A \cup S)
  <2>1. \A x \in A : m.cell[x].next # Null => m.cell[x].next \in A
    BY <1>2, <1>3, <1>7, <1>8 DEF Closed
  <2>2. \A x \in A : Owner(m, x) /\ m.cell[x].child # Null => m.cell[x].child \in A
    BY <1>2, <1>3, <1>7, <1>8 DEF Closed
  <2> QED
    BY <1>6, <2>1, <2>2 DEF Closed
<1>10. H \subseteq A \cup S /\ A \cup S \in SUBSET Live(m)
  BY <1>2, <1>7, <1>8
<1>11. Swept(m, H) \subseteq A \cup S
  BY <1>9, <1>10, SweptLeast
<1> QED
  BY <1>11 DEF A, S

LEMMA DeletedLists ==
    ASSUME NEW m \in Memories, Sound(m), NEW c, Root(m, c), NEW m2, m2 = Delete(m, c)
    PROVE  ListsGrow(m, m2, Null, Null)
<1> DEFINE S == Swept(m, {c})
           To(q) == IF q \in S THEN Wild ELSE q
<1>1. c \in Cell /\ Linked(m) /\ Wild \notin Cell /\ Null \notin Cell /\ Live(m) \subseteq Cell
  BY Typed DEF Root, Sound
<1>2. Cleared(m, m2, c)
  BY DeleteKeeps
<1>3. m2 \in Memories /\ Live(m2) = Live(m) \ S
  BY <1>2 DEF Cleared
<1>4. \A x \in Cell \ S : /\ SameFlags(m, m2, x)
                          /\ m2.cell[x].next = To(m.cell[x].next)
                          /\ m2.cell[x].child = To(m.cell[x].child)
  BY <1>1, DeleteView
<1>5. \A x \in Cell \cap S : m2.cell[x] = Blank
  BY <1>1, DeleteView
<1>6. \A x \in Cell \cap S : m2.cell[x].next = Null
  BY <1>5 DEF Blank
<1> HIDE DEF S
<1> SUFFICES ASSUME NEW q \in Live(m) \cap Live(m2), Owner(m2, q)
             PROVE  Items(m2, q) \subseteq Items(m, q)
  BY DEF ListsGrow
<1> DEFINE T == Items(m, q)
<1>7. Owner(m, q) /\ q \in Cell \ S
  BY <1>1, <1>3, <1>4 DEF Owner, SameFlags
<1>8. /\ T \subseteq Live(m) /\ T \in SUBSET Cell
      /\ m.cell[q].child # Null => m.cell[q].child \in T
      /\ \A x \in T : m.cell[x].next # Null => m.cell[x].next \in T
  BY <1>1, <1>7, ItemsFacts
<1> HIDE DEF T
<1>9. m2.cell[q].child \in Cell => m2.cell[q].child \in T
  BY <1>1, <1>4, <1>7, <1>8
<1>10. \A x \in T : m2.cell[x].next \in Cell => m2.cell[x].next \in T
  BY <1>1, <1>4, <1>6, <1>8
<1>11. Items(m2, q) \subseteq T
  BY <1>3, <1>8, <1>9, <1>10, ItemsLeast
<1> QED
  BY <1>11 DEF T
-----------------------------------------------------------------------------
(* What a memory is when the client holds H, and the names of O could not  *)
(* be allocated: sound, and nothing is lost or lacks a name unexplained.   *)
Nobody(m, x) == m.cell[x].ref /\ m.cell[x].key = NoKey
Safe(m, H)   == \A x \in Live(m) : x \in Swept(m, H) \/ Nobody(m, x)

Explained(m, O, x) == m.cell[x].key = NoKey => x \in O
Object(m, q)       == Owner(m, q) /\ m.cell[q].type = "object"
Listed(m, O)       == \A q \in Live(m) : Object(m, q) => \A x \in Items(m, q) : Explained(m, O, x)

Whole(m, H, O) ==
    /\ m \in Memories /\ Sound(m) /\ H \in SUBSET Live(m) /\ \A x \in H : Root(m, x)
    /\ Safe(m, H) /\ Listed(m, O)

LEMMA WholeWeak ==
    ASSUME NEW m, NEW H, NEW O, Whole(m, H, O), NEW O2, O \subseteq O2
    PROVE  Whole(m, H, O2)
BY DEF Whole, Listed, Explained

(* A container is held, or below what is.                                  *)
LEMMA OwnerSwept ==
    ASSUME NEW m, NEW H, NEW O, Whole(m, H, O), NEW p, Owner(m, p)
    PROVE  /\ p \in Swept(m, H)
           /\ \A c \in H : p \notin Swept(m, {c}) => p \in Swept(m, H \ {c})
<1>1. p \in Swept(m, H)
  BY DEF Whole, Safe, Nobody, Owner
<1>2. ASSUME NEW c \in H, p \notin Swept(m, {c}) PROVE p \in Swept(m, H \ {c})
  <2>1. Swept(m, H) \subseteq Swept(m, H \ {c}) \cup Swept(m, {c})
    BY SweptApart DEF Whole, Sound
  <2> QED
    BY <1>1, <1>2, <2>1
<1> QED
  BY <1>1, <1>2

(* New items, of which N are: all held or below what is held, or nobody's, *)
(* and their lists are explained.                                          *)
LEMMA WholeGrown ==
    ASSUME NEW m, NEW H, NEW O, Whole(m, H, O), NEW m2, NEW N, Grown(m, m2, N),
           \A x \in Live(m) : m2.cell[x] = m.cell[x],
           NEW H2 \in SUBSET Live(m2), H \subseteq H2, \A x \in H2 : Root(m2, x),
           \A x \in N : x \in Swept(m2, H2) \/ Nobody(m2, x),
           NEW O2, O \subseteq O2,
           \A q \in N : Object(m2, q) => \A x \in Items(m2, q) : Explained(m2, O2, x)
    PROVE  Whole(m2, H2, O2)
<1>1. /\ m \in Memories /\ Linked(m) /\ H \in SUBSET Live(m) /\ m2 \in Memories /\ Sound(m2)
      /\ Linked(m2) /\ Live(m2) = Live(m) \cup N /\ Live(m) \subseteq Cell
  BY Typed DEF Whole, Grown, Sound
<1>2. Stays(m, m2)
  BY <1>1 DEF Stays, SameLinks, Owner
<1>3. Swept(m, H) \subseteq Swept(m2, H2)
  <2>1. Swept(m2, H) = Swept(m, H)
    BY <1>1, <1>2, StaysSwept
  <2>2. /\ Swept(m2, H2) \subseteq Live(m2) /\ H2 \subseteq Swept(m2, H2)
        /\ Closed(m2, Swept(m2, H2))
    BY <1>1, SweptIs
  <2>3. Swept(m2, H) \subseteq Swept(m2, H2)
    BY <1>1, <2>2, SweptLeast
  <2> QED
    BY <2>1, <2>3
<1>4. Safe(m2, H2)
  BY <1>1, <1>3 DEF Safe, Nobody, Whole
<1>5. ASSUME NEW q \in Live(m), Object(m2, q), NEW x \in Items(m2, q) PROVE Explained(m2, O2, x)
  <2>1. Object(m, q)
    BY <1>2, <1>5 DEF Object, Stays
  <2>2. x \in Items(m, q)
    <3>1. ListsGrow(m, m2, Null, Null) /\ Null \notin Live(m)
      BY <1>1, <1>2, StaysLists, Typed
    <3> QED
      BY <1>1, <1>5, <3>1 DEF ListsGrow, Object
  <2>3. x \in Live(m) /\ Explained(m, O, x)
    BY <1>1, <2>1, <2>2, ItemsFacts DEF Whole, Listed, Object
  <2> QED
    BY <2>3 DEF Explained
<1>6. Listed(m2, O2)
  BY <1>1, <1>5 DEF Listed
<1> QED
  BY <1>1, <1>4, <1>6 DEF Whole

(* A held item that is a tree of its own.                                  *)
Apart(m, H, O, n) == Whole(m, H \cup {n}, O) /\ n \notin H /\ Swept(m, {n}) = {n}

(* An item made, ...                                                       *)
LEMMA WholePut ==
    ASSUME NEW m, NEW H, NEW O, Whole(m, H, O), NEW n \in Cell \ Live(m), NEW i, Unlinked(i),
           NEW m2, NEW s, PutIs(m, m2, n, i, s), Grown(m, m2, {n}), Root(m2, n)
    PROVE  Apart(m2, H, O, n) /\ (i.ref => Whole(m2, H, O))
<1>0. m2.cell[n] = i /\ \A x \in Cell \ {n} : m2.cell[x] = m.cell[x]
  BY DEF PutIs
<1>1. /\ m2 \in Memories /\ Sound(m2) /\ Linked(m2) /\ Live(m2) = Live(m) \cup {n}
      /\ Live(m) \subseteq Cell /\ H \subseteq Live(m) /\ n \notin H
      /\ \A x \in H : Root(m2, x)
  BY Typed DEF Whole, Grown, Sound
<1>2. \A x \in Live(m) : m2.cell[x] = m.cell[x]
  BY <1>0, <1>1
<1>3. H \cup {n} \in SUBSET Live(m2) /\ H \in SUBSET Live(m2) /\ {n} \in SUBSET Live(m2)
  BY <1>1
<1>4. n \in Swept(m2, H \cup {n}) /\ n \in Swept(m2, {n})
  BY <1>1, <1>3, SweptIs
<1>5. Swept(m2, {n}) \subseteq {n}
  <2>1. Closed(m2, {n})
    BY <1>0 DEF Closed, Owner, Unlinked
  <2> QED
    BY <1>1, <1>3, <2>1, SweptLeast
<1>6. ASSUME Object(m2, n), NEW x \in Items(m2, n) PROVE FALSE
  <2>1. m2.cell[n].child = Null
    BY <1>0, <1>6 DEF Unlinked, Object, Owner
  <2>2. Items(m2, n) \subseteq {}
    <3>1. Null \notin Cell
      BY <1>1, Typed
    <3> DEFINE T == {}
    <3>2. /\ T \in SUBSET Cell /\ (m2.cell[n].child \in Cell => m2.cell[n].child \in T)
          /\ \A d \in T : m2.cell[d].next \in Cell => m2.cell[d].next \in T
      BY <2>1, <3>1
    <3> HIDE DEF T
    <3>3. Items(m2, n) \subseteq T
      BY <1>1, <3>2, ItemsLeast
    <3> QED
      BY <3>3 DEF T
  <2> QED
    BY <1>6, <2>2
<1>7. Whole(m2, H \cup {n}, O)
  BY <1>1, <1>2, <1>3, <1>4, <1>6, WholeGrown
<1>8. ASSUME i.ref PROVE Whole(m2, H, O)
  <2>1. Nobody(m2, n)
    BY <1>0, <1>8 DEF Nobody, Unlinked
  <2> QED
    BY <1>1, <1>2, <1>3, <1>6, <2>1, WholeGrown
<1>9. Apart(m2, H, O, n)
  BY <1>1, <1>4, <1>5, <1>7 DEF Apart
<1> QED
  BY <1>8, <1>9

(* ... named anew, ...                                                     *)
LEMMA WholeNamed ==
    ASSUME NEW m, NEW H, NEW O, Whole(m, H, O), NEW c \in H, NEW m2, Grown(m, m2, {}),
           \A x \in Cell : /\ SameLinks(m, m2, x) /\ m2.cell[x].type = m.cell[x].type
                           /\ m2.cell[x].ref = m.cell[x].ref
                           /\ x # c => m2.cell[x].key = m.cell[x].key,
           NEW O2, O \ {c} \subseteq O2, Explained(m2, O2, c)
    PROVE  /\ Whole(m2, H, O2) /\ Live(m2) = Live(m)
           /\ \A p \in Cell : Owner(m2, p) <=> Owner(m, p)
           /\ Swept(m2, {c}) = Swept(m, {c})
<1>1. /\ m \in Memories /\ Linked(m) /\ H \in SUBSET Live(m) /\ m2 \in Memories /\ Sound(m2)
      /\ Linked(m2) /\ Live(m2) = Live(m) /\ Live(m) \subseteq Cell
      /\ \A x \in H : Root(m2, x)
  BY Typed DEF Whole, Grown, Sound
<1>2. \A p \in Cell : Owner(m2, p) <=> Owner(m, p)
  BY <1>1 DEF Owner
<1>3. Stays(m, m2)
  BY <1>1, <1>2 DEF Stays
<1>4. Swept(m2, H) = Swept(m, H) /\ Swept(m2, {c}) = Swept(m, {c})
  BY <1>1, <1>3, StaysSwept
<1>5. c \in Swept(m2, H)
  BY <1>1, SweptIs
<1>6. Safe(m2, H)
  BY <1>1, <1>4, <1>5 DEF Safe, Nobody, Whole
<1>7. ASSUME NEW q \in Live(m), Object(m2, q), NEW x \in Items(m2, q) PROVE Explained(m2, O2, x)
  <2>1. Object(m, q)
    BY <1>1, <1>2, <1>7 DEF Object
  <2>2. x \in Items(m, q)
    <3>1. ListsGrow(m, m2, Null, Null) /\ Null \notin Live(m)
      BY <1>1, <1>3, StaysLists, Typed
    <3> QED
      BY <1>1, <1>7, <3>1 DEF ListsGrow, Object
  <2>3. x \in Live(m) /\ Explained(m, O, x)
    BY <1>1, <2>1, <2>2, ItemsFacts DEF Whole, Listed, Object
  <2> QED
    BY <1>1, <2>3 DEF Explained
<1> QED
  BY <1>1, <1>2, <1>4, <1>6, <1>7 DEF Whole, Listed

(* ... put into a list, ...                                                *)
LEMMA WholeJoined ==
    ASSUME NEW m, NEW H, NEW O, Whole(m, H, O), NEW p, Owner(m, p), NEW c \in H,
           p \notin Swept(m, {c}), NEW m2, Moved(m, m2, c), NEW after, Joined(m, m2, p, c, after),
           m.cell[p].type = "object" => Explained(m, O, c)
    PROVE  Whole(m2, H \ {c}, O)
<1>1. /\ m \in Memories /\ Sound(m) /\ H \in SUBSET Live(m) /\ m2 \in Memories /\ Sound(m2)
      /\ Linked(m2) /\ Live(m2) = Live(m) /\ Live(m) \subseteq Cell /\ Root(m, c)
      /\ \A x \in H \ {c} : Root(m2, x)
  BY Typed DEF Whole, Moved, Sound
<1>2. \A x \in Cell : SameFlags(m, m2, x) /\ (Owner(m2, x) <=> Owner(m, x))
  BY FlagsKeep DEF Joined, Rewired
<1>3. SweptMore(m, H, m2, H \ {c})
  BY <1>1, OwnerSwept, JoinedSwept
<1>4. Safe(m2, H \ {c})
  BY <1>1, <1>2, <1>3 DEF Safe, Nobody, SweptMore, SameFlags, Whole
<1>5. ListsGrow(m, m2, p, c)
  BY <1>1, JoinedLists
<1>6. ASSUME NEW q \in Live(m), Object(m2, q), NEW x \in Items(m2, q) PROVE Explained(m2, O, x)
  <2>1. Object(m, q)
    BY <1>1, <1>2, <1>6 DEF Object, SameFlags
  <2>2. x \in Items(m, q) \/ (q = p /\ x = c)
    BY <1>1, <1>5, <1>6 DEF ListsGrow, Object
  <2>3. x \in Live(m) /\ Explained(m, O, x)
    BY <1>1, <2>1, <2>2, ItemsFacts DEF Whole, Listed, Object, Sound
  <2> QED
    BY <1>1, <1>2, <2>3 DEF Explained, SameFlags
<1> QED
  BY <1>1, <1>4, <1>6 DEF Whole, Listed

(* ... taken out of one, maybe with a root in its place, ...               *)
LEMMA WholeTaken ==
    ASSUME NEW m, NEW H, NEW O, Whole(m, H, O), NEW p, Owner(m, p), NEW c \in Items(m, p),
           NEW r, NEW m2, Moved(m, m2, r) \/ Moved(m, m2, c), Root(m2, c), Taken(m, m2, p, c, r),
           r \in H => p \notin Swept(m, {r}),
           m.cell[p].type = "object" => r = Null \/ Explained(m, O, r)
    PROVE  Whole(m2, (H \ {r}) \cup {c}, O)
<1>1. /\ m \in Memories /\ Sound(m) /\ Linked(m) /\ H \in SUBSET Live(m) /\ m2 \in Memories /\ Sound(m2)
      /\ Linked(m2) /\ Live(m2) = Live(m) /\ Live(m) \subseteq Cell /\ Null \notin Cell
      /\ \A x \in H : Root(m, x)
  BY Typed DEF Whole, Moved, Sound
<1>2. \A x \in Cell : SameFlags(m, m2, x) /\ (Owner(m2, x) <=> Owner(m, x))
  BY FlagsKeep DEF Taken, Rewired
<1>3. c \notin H /\ c \in Live(m)
  BY <1>1, ItemsNoRoot, ItemsFacts
<1>4. (H \ {r}) \cup {c} \in SUBSET Live(m2) /\ \A x \in (H \ {r}) \cup {c} : Root(m2, x)
  BY <1>1, <1>3 DEF Moved
<1>5. p \in Swept(m, H \ {r})
  <2>1. CASE r \in H
    BY <2>1, OwnerSwept
  <2>2. CASE r \notin H
    <3>1. H \ {r} = H
      BY <2>2
    <3> QED
      BY <3>1, OwnerSwept
  <2> QED
    BY <2>1, <2>2
<1>6. SweptMore(m, H, m2, (H \ {r}) \cup {c})
  BY <1>1, <1>5, TakenSwept
<1>7. Safe(m2, (H \ {r}) \cup {c})
  BY <1>1, <1>2, <1>6 DEF Safe, Nobody, SweptMore, SameFlags, Whole
<1>8. ListsGrow(m, m2, p, r)
  BY <1>1, TakenLists
<1>9. ASSUME NEW q \in Live(m), Object(m2, q), NEW x \in Items(m2, q) PROVE Explained(m2, O, x)
  <2>1. Object(m, q)
    BY <1>1, <1>2, <1>9 DEF Object, SameFlags
  <2>2. x \in Items(m, q) \/ (q = p /\ x = r)
    BY <1>1, <1>8, <1>9 DEF ListsGrow, Object
  <2>3. x \in Live(m)
    BY <1>1, <1>9, ItemsFacts DEF Object
  <2>4. Explained(m, O, x)
    BY <1>1, <2>1, <2>2, <2>3 DEF Whole, Listed, Object
  <2> QED
    BY <1>1, <1>2, <2>3, <2>4 DEF Explained, SameFlags
<1> QED
  BY <1>1, <1>4, <1>7, <1>9 DEF Whole, Listed

LEMMA WholeDetached ==
    ASSUME NEW m, NEW H, NEW O, Whole(m, H, O), NEW p, Owner(m, p), NEW c \in Items(m, p),
           NEW m2, m2 = Detach(m, p, c)
    PROVE  Whole(m2, H \cup {c}, O)
<1> DEFINE r == m.cell[c].next
<1>1. /\ m \in Memories /\ Sound(m) /\ Linked(m) /\ p \in Live(m)
      /\ \A x \in H : Root(m, x)
  BY DEF Whole, Sound, Owner
<1>2. Moved(m, m2, c) /\ Root(m2, c) /\ Taken(m, m2, p, c, r)
  BY <1>1, DetachKeeps, DetachTakes
<1>3. r \in Items(m, p) \cup {Null}
  BY <1>1, ItemsFacts
<1>4. r \notin H
  BY <1>1, <1>3, ItemsNoRoot, Typed DEF Root
<1>5. m.cell[p].type = "object" => r = Null \/ Explained(m, O, r)
  BY <1>1, <1>3 DEF Whole, Listed, Object
<1>6. H \ {r} = H
  BY <1>4
<1> HIDE DEF r
<1>7. Whole(m2, (H \ {r}) \cup {c}, O)
  BY <1>2, <1>4, <1>5, WholeTaken
<1> QED
  BY <1>6, <1>7

LEMMA WholeExchanged ==
    ASSUME NEW m, NEW H, NEW O, Whole(m, H, O), NEW p, Owner(m, p), NEW c \in Items(m, p),
           NEW r \in H, p \notin Swept(m, {r}),
           m.cell[p].type = "object" => Explained(m, O, r),
           NEW m2, m2 = Exchanged(m, p, c, r)
    PROVE  Whole(m2, (H \ {r}) \cup {c}, O)
<1>1. m \in Memories /\ Sound(m) /\ Root(m, r)
  BY DEF Whole
<1>2. Moved(m, m2, r) /\ Root(m2, c) /\ Taken(m, m2, p, c, r)
  BY <1>1, ExchangeKeeps, ExchangeTakes
<1> QED
  BY <1>2, WholeTaken

(* ... and deleted.                                                        *)
LEMMA WholeDeleted ==
    ASSUME NEW m, NEW H, NEW O, Whole(m, H, O), NEW c \in H, NEW m2, m2 = Delete(m, c)
    PROVE  Whole(m2, H \ {c}, O \cap Live(m2))
<1> DEFINE S == Swept(m, {c})
<1>1. /\ m \in Memories /\ Sound(m) /\ H \in SUBSET Live(m) /\ Root(m, c)
      /\ \A x \in H : Root(m, x) /\ Live(m) \subseteq Cell
      /\ c \in Cell /\ Linked(m) /\ OneOwner(m)
  BY Typed DEF Whole, Sound
<1>2. Cleared(m, m2, c)
  BY <1>1, DeleteKeeps
<1>3. m2 \in Memories /\ Sound(m2) /\ Linked(m2) /\ Live(m2) = Live(m) \ S
  BY <1>2 DEF Cleared, Sound
<1>4. \A x \in Cell \ S : SameFlags(m, m2, x)
  BY <1>1, DeleteView
<1>5. c \in S /\ S \subseteq Live(m) /\ \A d \in S : Root(m, d) => d = c
  BY <1>1, SweptFacts
<1>6. Swept(m, H) \subseteq Swept(m2, H \ {c}) \cup S
  BY <1>1, DeletedSwept
<1> HIDE DEF S
<1>7. H \ {c} \in SUBSET Live(m2) /\ \A x \in H \ {c} : Root(m2, x)
  BY <1>1, <1>2, <1>3, <1>5 DEF Cleared
<1>8. Safe(m2, H \ {c})
  BY <1>1, <1>3, <1>4, <1>6 DEF Safe, Nobody, SameFlags, Whole
<1>9. ListsGrow(m, m2, Null, Null) /\ Null \notin Live(m)
  BY <1>1, DeletedLists, Typed
<1>10. ASSUME NEW q \in Live(m2), Object(m2, q), NEW x \in Items(m2, q)
       PROVE  Explained(m2, O \cap Live(m2), x)
  <2>1. Object(m, q) /\ q \in Live(m)
    BY <1>1, <1>3, <1>4, <1>10 DEF Object, SameFlags, Owner
  <2>2. x \in Items(m, q)
    BY <1>3, <1>9, <1>10 DEF ListsGrow, Object
  <2>3. x \in Live(m2)
    BY <1>3, <1>10, ItemsFacts DEF Object
  <2>4. Explained(m, O, x)
    BY <2>1, <2>2 DEF Whole, Listed
  <2> QED
    BY <1>1, <1>3, <1>4, <2>3, <2>4 DEF Explained, SameFlags
<1> QED
  BY <1>3, <1>7, <1>8, <1>10 DEF Whole, Listed

LEMMA LeastNumber ==
    ASSUME NEW T \in SUBSET Nat, T # {}
    PROVE  \E i \in T : \A j \in T : ~(j < i)
<1> DEFINE R == {ss \in Nat \X Nat : ss[1] < ss[2]}
<1>1. IsWellFoundedOn(R, Nat)
  BY NatLessThanWellFounded DEF OpToRel
<1> HIDE DEF R
<1>2. PICK i \in T : \A j \in T : ~(<<j, i>> \in R)
  BY <1>1, WFMin
<1> QED
  BY <1>2 DEF R

(* All items of a filled array are in it: the first one that is not comes  *)
(* after one that is.                                                      *)
LEMMA FilledSwept ==
    ASSUME NEW m \in Memories, Sound(m), NEW f \in Seq(Cell \ Live(m)), Len(f) >= 1,
           \A i, j \in 1..Len(f) : f[i] = f[j] => i = j, NEW t \in {"array", "text"},
           NEW m2, m2 = Filled(m, f, t)
    PROVE  ToSet(f) \subseteq Swept(m2, {f[1]})
<1> DEFINE Nth(i) == IF i \in 2..Len(f) THEN f[i] ELSE Null
           S == Swept(m2, {f[1]})
           Out == {i \in 1..Len(f) : f[i] \notin S}
<1>1. f \in Seq(Cell) /\ Len(f) \in Nat
  BY Typed
<1>2. FillIs(m, m2, f, t) /\ Grown(m, m2, ToSet(f)) /\ Root(m2, f[1])
  BY <1>1, FillView, FillKeeps
<1>3. m2.cell[f[1]].child = Nth(2) /\ m2.cell[f[1]].ref = FALSE /\ m2.cell[f[1]].type = "array"
  <2>1. m2.cell[f[1]] = [Blank EXCEPT !.type = "array", !.child = Nth(2)]
    BY <1>2 DEF FillIs
  <2> HIDE DEF Nth
  <2> QED
    BY <2>1 DEF Blank
<1>4. ASSUME NEW i \in 2..Len(f) PROVE m2.cell[f[i]].next = Nth(i + 1)
  <2>1. m2.cell[f[i]] = [Blank EXCEPT !.type = t, !.next = Nth(i + 1), !.prev = Nth(i - 1)]
    BY <1>2 DEF FillIs
  <2> HIDE DEF Nth
  <2> QED
    BY <2>1 DEF Blank
<1>5. m2 \in Memories /\ Linked(m2) /\ f[1] \in Live(m2) /\ f[1] \in Cell /\ Null \notin Cell
  BY <1>1, <1>2, Typed DEF Grown, Sound, Root
<1>6. f[1] \in S /\ Closed(m2, S)
  BY <1>5, SweptIs
<1>7. SUFFICES ASSUME Out # {} PROVE FALSE
  <2>1. ToSet(f) = {f[i] : i \in 1..Len(f)}
    BY <1>1 DEF ToSet
  <2>2. Out = {} => \A x \in ToSet(f) : x \in Swept(m2, {f[1]})
    BY <2>1
  <2> QED
    BY <2>2
<1> HIDE DEF S
<1>9. Out \in SUBSET Nat
  BY <1>1
<1> HIDE DEF Out
<1>11. PICK i \in Out : \A j \in Out : ~(j < i)
  BY <1>7, <1>9, LeastNumber
<1>12. i \in 1..Len(f) /\ f[i] \notin S
  BY DEF Out
<1>13. i # 1
  BY <1>6, <1>12
<1>14. i - 1 \in 1..Len(f) /\ i \in 2..Len(f) /\ f[i - 1] \in S
  BY <1>1, <1>11, <1>12, <1>13 DEF Out
<1>15. f[i] # Null /\ f[i] \in Cell
  BY <1>1, <1>5, <1>12
<1>16. CASE i = 2
  BY <1>3, <1>5, <1>6, <1>12, <1>14, <1>15, <1>16 DEF Closed, Owner
<1>17. CASE i # 2
  <2>1. i - 1 \in 2..Len(f) /\ (i - 1) + 1 = i
    BY <1>1, <1>14, <1>17
  <2>2. m2.cell[f[i - 1]].next = f[i]
    BY <1>4, <1>14, <2>1
  <2> QED
    BY <1>6, <1>12, <1>14, <1>15, <2>2 DEF Closed
<1> QED
  BY <1>16, <1>17

(* Items made in one go: an array of others, ...                           *)
Spared(m, m2) == \A x \in Live(m) : m2.cell[x] = m.cell[x]

LEMMA WholeMade ==
    ASSUME NEW m, NEW H, NEW O, Whole(m, H, O), NEW m2, NEW N, Grown(m, m2, N), Spared(m, m2),
           NEW n, Root(m2, n), N \subseteq Swept(m2, {n}), NEW O2, O \subseteq O2,
           \A q \in N : Object(m2, q) => \A x \in Items(m2, q) : Explained(m2, O2, x)
    PROVE  Whole(m2, H \cup {n}, O2)
<1> DEFINE H2 == H \cup {n}
<1>1. /\ m2 \in Memories /\ Linked(m2) /\ Live(m2) = Live(m) \cup N /\ n \in Live(m2)
      /\ H \in SUBSET Live(m) /\ \A x \in H : Root(m, x)
  BY DEF Grown, Sound, Root, Whole
<1>2. /\ H2 \in SUBSET Live(m2) /\ H \subseteq H2 /\ {n} \subseteq H2 /\ {n} \in SUBSET Live(m2)
      /\ \A x \in H2 : Root(m2, x)
  BY <1>1 DEF Grown
<1> HIDE DEF H2
<1>3. N \subseteq Swept(m2, H2)
  <2>1. Swept(m2, H2) \subseteq Live(m2) /\ H2 \subseteq Swept(m2, H2) /\ Closed(m2, Swept(m2, H2))
    BY <1>1, <1>2, SweptIs
  <2>2. Swept(m2, {n}) \subseteq Swept(m2, H2)
    BY <1>1, <1>2, <2>1, SweptLeast
  <2> QED
    BY <2>2
<1>4. Whole(m2, H2, O2)
  BY <1>2, <1>3, WholeGrown DEF Spared
<1> QED
  BY <1>4 DEF H2

LEMMA WholeFilled ==
    ASSUME NEW m, NEW H, NEW O, Whole(m, H, O), NEW f \in Seq(Cell \ Live(m)), Len(f) >= 1,
           \A i, j \in 1..Len(f) : f[i] = f[j] => i = j, NEW t \in {"array", "text"},
           NEW m2, m2 = Filled(m, f, t)
    PROVE  Whole(m2, H \cup {f[1]}, O)
<1> DEFINE N == ToSet(f)
           Nth(i) == IF i \in 2..Len(f) THEN f[i] ELSE Null
<1>1. m \in Memories /\ Sound(m) /\ f \in Seq(Cell) /\ Len(f) \in Nat
  BY Typed DEF Whole
<1>2. FillIs(m, m2, f, t) /\ Grown(m, m2, N) /\ Root(m2, f[1])
  BY <1>1, FillView, FillKeeps
<1>3. N \subseteq Swept(m2, {f[1]})
  BY <1>1, FilledSwept
<1>4. N = {f[i] : i \in 1..Len(f)}
  BY <1>1 DEF ToSet
<1>5. N \subseteq Cell \ Live(m)
  BY <1>1, <1>4
<1>6. Spared(m, m2)
  <2>1. \A x \in Cell \ N : m2.cell[x] = m.cell[x]
    BY <1>2 DEF FillIs
  <2> QED
    BY <1>1, <1>5, <2>1, Typed DEF Spared
<1>7. ASSUME NEW q \in N PROVE ~Object(m2, q)
  <2>1. PICK i \in 1..Len(f) : q = f[i]
    BY <1>4
  <2>2. CASE i = 1
    <3>1. m2.cell[q].type = "array"
      BY <1>2, <2>1, <2>2 DEF FillIs, Blank
    <3> QED
      BY <3>1 DEF Object
  <2>3. CASE i # 1
    <3>1. i \in 2..Len(f)
      BY <1>1, <2>3
    <3>2. m2.cell[q] = [Blank EXCEPT !.type = t, !.next = Nth(i + 1), !.prev = Nth(i - 1)]
      BY <1>2, <2>1, <3>1 DEF FillIs
    <3> HIDE DEF Nth
    <3>3. m2.cell[q].type = t
      BY <3>2 DEF Blank
    <3> QED
      BY <3>3 DEF Object
  <2> QED
    BY <2>2, <2>3
<1>8. PICK n : n = f[1]
  OBVIOUS
<1> HIDE DEF N
<1>9. Root(m2, n) /\ N \subseteq Swept(m2, {n}) /\ O \subseteq O
  BY <1>2, <1>3, <1>8
<1>10. Whole(m2, H \cup {n}, O)
  BY <1>2, <1>6, <1>7, <1>9, WholeMade
<1> QED
  BY <1>8, <1>10

(* ... or copies: those of an object's list are copies of an object's list,*)
(* or of what a reference shows.                                           *)
LEMMA CopiedItems ==
    ASSUME NEW m \in Memories, Linked(m), NEW N \in SUBSET Cell, NEW n \in N, NEW of \in [N -> Cell],
           NEW via \in [N \ {n} -> Link(N)], NEW c, NEW m2, m2 = Copied(m, N, of, via),
           IsCopy(m, c, N, n, of, via), NEW q \in N, Owner(m, of[q])
    PROVE  \A x \in Items(m2, q) : x \in N /\ of[x] \in Items(m, of[q])
<1> DEFINE T == {x \in N : of[x] \in Items(m, of[q])}
<1>1. /\ \A x \in N \ {n} : of[x] = IF via[x][2] = "next" THEN m.cell[of[via[x][1]]].next
                                                          ELSE m.cell[of[via[x][1]]].child
      /\ \A x, y \in N \ {n} : via[x] = via[y] => x = y
  BY DEF IsCopy
<1>2. CopyIs(m, m2, N, of, via)
  BY <1>1, CopyView
<1>3. /\ m2 \in Memories /\ Null \notin Cell
      /\ \A x \in N : /\ m2.cell[x].child = At(via, <<x, "child">>)
                      /\ m2.cell[x].next = At(via, <<x, "next">>)
  BY <1>2, Typed DEF CopyIs
<1>4. \A l : At(via, l) # Null => At(via, l) \in N \ {n} /\ via[At(via, l)] = l
  BY <1>1, AtFacts
<1>5. /\ m.cell[of[q]].child # Null => m.cell[of[q]].child \in Items(m, of[q])
      /\ \A x \in Items(m, of[q]) : m.cell[x].next # Null => m.cell[x].next \in Items(m, of[q])
  BY ItemsFacts
<1>6. ASSUME m2.cell[q].child \in Cell PROVE m2.cell[q].child \in T
  <2> DEFINE y == At(via, <<q, "child">>)
  <2>1. y = m2.cell[q].child /\ y # Null
    BY <1>3, <1>6
  <2>2. y \in N \ {n} /\ via[y] = <<q, "child">>
    BY <1>4, <2>1
  <2> HIDE DEF y
  <2>3. of[y] = m.cell[of[q]].child
    BY <1>1, <2>2
  <2>4. of[y] \in Items(m, of[q])
    BY <1>3, <1>5, <2>2, <2>3
  <2> QED
    BY <2>1, <2>2, <2>4
<1>7. ASSUME NEW x \in T, m2.cell[x].next \in Cell PROVE m2.cell[x].next \in T
  <2> DEFINE y == At(via, <<x, "next">>)
  <2>1. y = m2.cell[x].next /\ y # Null
    BY <1>3, <1>7
  <2>2. y \in N \ {n} /\ via[y] = <<x, "next">>
    BY <1>4, <2>1
  <2> HIDE DEF y
  <2>3. of[y] = m.cell[of[x]].next
    BY <1>1, <2>2
  <2>4. of[y] \in Items(m, of[q])
    BY <1>3, <1>5, <2>2, <2>3
  <2> QED
    BY <2>1, <2>2, <2>4
<1>8. T \in SUBSET Cell
  OBVIOUS
<1> HIDE DEF T
<1>9. Items(m2, q) \subseteq T
  BY <1>3, <1>6, <1>7, <1>8, ItemsLeast
<1> QED
  BY <1>9 DEF T

Inherited(m, m2, N, of, O, O2) ==
    /\ O \subseteq O2
    /\ \A x \in N : /\ m2.cell[x].key = NoKey
                    /\ of[x] \in O \/ \E y \in N : m.cell[of[y]].ref /\ x \in Items(m2, y)
                    => x \in O2

LEMMA WholeCopied ==
    ASSUME NEW m, NEW H, NEW O, Whole(m, H, O), NEW N \in SUBSET (Cell \ Live(m)), NEW n \in N,
           NEW c \in Live(m), NEW of \in [N -> Cell], NEW via \in [N \ {n} -> Link(N)],
           IsCopy(m, c, N, n, of, via), NEW m2, m2 = Copied(m, N, of, via),
           NEW O2, Inherited(m, m2, N, of, O, O2)
    PROVE  Whole(m2, H \cup {n}, O2)
<1>1. /\ m \in Memories /\ Sound(m) /\ Linked(m) /\ H \in SUBSET Live(m) /\ N \in SUBSET Cell
      /\ \A x \in H : Root(m, x)
  BY DEF Whole, Sound
<1>2. Grown(m, m2, N) /\ Root(m2, n)
  BY <1>1, CopyKeeps
<1>3. m2 \in Memories /\ Linked(m2) /\ Live(m2) = Live(m) \cup N
  BY <1>2 DEF Grown, Sound
<1>4. CopyIs(m, m2, N, of, via)
  BY <1>1, CopyView DEF IsCopy
<1>5. \A x \in Live(m) : m2.cell[x] = m.cell[x]
  BY <1>1, <1>4, Typed DEF CopyIs
<1>6. \A x \in N : /\ m2.cell[x].type = m.cell[of[x]].type /\ m2.cell[x].ref = FALSE
                   /\ m2.cell[x].key = m.cell[of[x]].key
  BY <1>4 DEF CopyIs
<1>7. Spared(m, m2)
  BY <1>5 DEF Spared
<1>8. N \subseteq Swept(m2, {n}) /\ O \subseteq O2
  BY DEF IsCopy, Inherited
<1>9. ASSUME NEW q \in N, Object(m2, q), NEW x \in Items(m2, q) PROVE Explained(m2, O2, x)
  <2>1. of[q] \in Cell /\ m.cell[of[q]].type = "object"
    BY <1>6, <1>9 DEF Object
  <2>2. of[q] \in Live(m)
    BY <2>1 DEF Live
  <2>3. CASE m.cell[of[q]].ref
    <3>1. x \in N
      <4>1. m2.cell[q].child \in N \cup {Null} /\ \A y \in N : m2.cell[y].next \in N \cup {Null}
        <5>1. \A y, z \in N \ {n} : via[y] = via[z] => y = z
          BY DEF IsCopy
        <5>2. \A l : At(via, l) # Null => At(via, l) \in N \ {n}
          BY <5>1, AtFacts
        <5>3. \A y \in N : /\ m2.cell[y].child = At(via, <<y, "child">>)
                           /\ m2.cell[y].next = At(via, <<y, "next">>)
          BY <1>4 DEF CopyIs
        <5> QED
          BY <5>2, <5>3
      <4>2. m2.cell[q].child \in Cell => m2.cell[q].child \in N
        BY <1>1, <4>1, Typed
      <4>3. \A y \in N : m2.cell[y].next \in Cell => m2.cell[y].next \in N
        BY <1>1, <4>1, Typed
      <4>4. Items(m2, q) \subseteq N
        BY <1>1, <1>3, <4>2, <4>3, ItemsLeast
      <4> QED
        BY <1>9, <4>4
    <3> QED
      BY <1>9, <2>3, <3>1 DEF Explained, Inherited
  <2>4. CASE ~m.cell[of[q]].ref
    <3>1. Owner(m, of[q]) /\ Object(m, of[q])
      BY <2>1, <2>2, <2>4 DEF Owner, Object
    <3>2. x \in N /\ of[x] \in Items(m, of[q])
      BY <1>1, <1>9, <3>1, CopiedItems
    <3>3. Explained(m, O, of[x])
      BY <2>2, <3>1, <3>2 DEF Whole, Listed
    <3> QED
      BY <1>6, <3>2, <3>3 DEF Explained, Inherited
  <2> QED
    BY <2>3, <2>4
<1> QED
  BY <1>2, <1>7, <1>8, <1>9, WholeMade

(* The helpers of the calls: an item made or referenced, ...               *)
LEMMA WholeNew ==
    ASSUME NEW m, NEW H, NEW O, Whole(m, H, O), NEW n \in Cell \ Live(m), NEW t \in Type,
           NEW m2, m2 = New(m, n, t)
    PROVE  Apart(m2, H, O, n)
<1> DEFINE i == [Blank EXCEPT !.type = t]
           s == IF t = "text" THEN m.strings + 1 ELSE m.strings
<1>1. m \in Memories /\ Sound(m) /\ s \in Int
  BY Typed DEF Whole
<1>2. Unlinked(i)
  BY DEF Unlinked, Blank, Item, Pointer, Type
<1>3. m2 = [m EXCEPT !.cell[n] = i, !.strings = s]
  BY <1>1 DEF New, Memories
<1>4. Grown(m, m2, {n}) /\ Root(m2, n)
  BY <1>1, NewGrows
<1> HIDE DEF i, s
<1>5. PutIs(m, m2, n, i, s)
  BY <1>1, <1>2, <1>3, PutView DEF Unlinked
<1> QED
  BY <1>2, <1>4, <1>5, WholePut

LEMMA WholeReference ==
    ASSUME NEW m, NEW H, NEW O, Whole(m, H, O), NEW n \in Cell \ Live(m), NEW i, Unlinked(i), i.ref,
           NEW m2, PutIs(m, m2, n, i, m.strings), Grown(m, m2, {n}), Root(m2, n)
    PROVE  Apart(m2, H, O, n) /\ Whole(m2, H, O) /\ Spared(m, m2)
<1>1. m2.cell[n] = i /\ \A x \in Cell \ {n} : m2.cell[x] = m.cell[x]
  BY DEF PutIs
<1>2. Live(m) \subseteq Cell \ {n}
  BY Typed DEF Whole
<1>3. Apart(m2, H, O, n) /\ Whole(m2, H, O)
  BY WholePut
<1> QED
  BY <1>1, <1>2, <1>3 DEF Spared

LEMMA ReferenceIs ==
    ASSUME NEW m \in Memories, NEW n \in Cell, NEW i \in Item, NEW m2, m2 = [m EXCEPT !.cell[n] = i]
    PROVE  PutIs(m, m2, n, i, m.strings)
BY Typed DEF Memories, PutIs

(* ... an item named, ...                                                  *)
Renamed(m, m2, c, k) ==
    /\ \A x \in Cell : /\ SameLinks(m, m2, x) /\ m2.cell[x].type = m.cell[x].type
                       /\ m2.cell[x].ref = m.cell[x].ref
                       /\ x # c => m2.cell[x].key = m.cell[x].key
    /\ m2.cell[c].key = k

LEMMA NamedView ==
    ASSUME NEW m \in Memories, NEW c \in Cell, NEW k \in Key \cup {NoKey}, NEW const \in BOOLEAN,
           NEW s, NEW m2, m2 = GivenName(m, c, k, const, s)
    PROVE  Renamed(m, m2, c, k)
<1> DEFINE i == [m.cell[c] EXCEPT !.key = k, !.const = const]
<1>1. /\ m2.cell[c] = i /\ \A x \in Cell \ {c} : m2.cell[x] = m.cell[x]
  BY DEF GivenName, Memories
<1>2. /\ i.key = k /\ i.type = m.cell[c].type /\ i.ref = m.cell[c].ref /\ i.next = m.cell[c].next
      /\ i.prev = m.cell[c].prev /\ i.child = m.cell[c].child
  BY Typed DEF Item
<1> HIDE DEF i
<1> QED
  BY <1>1, <1>2 DEF SameLinks, Renamed

Alike(m, m2, c) ==
    /\ Live(m2) = Live(m) /\ Swept(m2, {c}) = Swept(m, {c})
    /\ \A p \in Cell : (Owner(m2, p) <=> Owner(m, p)) /\ m2.cell[p].type = m.cell[p].type

LEMMA WholeGiven ==
    ASSUME NEW m, NEW H, NEW O, Whole(m, H, O), NEW c \in H, NEW k, NEW m2, Grown(m, m2, {}),
           Renamed(m, m2, c, k), NEW O2, O \ {c} \subseteq O2, Explained(m2, O2, c)
    PROVE  Whole(m2, H, O2) /\ Alike(m, m2, c) /\ m2.cell[c].key = k
<1>1. \A x \in Cell : /\ SameLinks(m, m2, x) /\ m2.cell[x].type = m.cell[x].type
                      /\ m2.cell[x].ref = m.cell[x].ref
                      /\ x # c => m2.cell[x].key = m.cell[x].key
  BY DEF Renamed
<1>2. /\ Whole(m2, H, O2) /\ Live(m2) = Live(m)
      /\ \A p \in Cell : Owner(m2, p) <=> Owner(m, p)
      /\ Swept(m2, {c}) = Swept(m, {c})
  BY <1>1, WholeNamed
<1> QED
  BY <1>1, <1>2 DEF Renamed, Alike

LEMMA WholeRenamed ==
    ASSUME NEW m, NEW H, NEW O, Whole(m, H, O), NEW c \in H, NEW k \in Key, NEW const \in BOOLEAN,
           NEW m2, m2 = Rename(m, c, k, const)
    PROVE  Whole(m2, H, O \ {c}) /\ Alike(m, m2, c) /\ m2.cell[c].key = k
<1> DEFINE s == m.strings - (IF OwnsName(m, c) THEN 1 ELSE 0) + (IF const THEN 0 ELSE 1)
<1>1. m \in Memories /\ Sound(m) /\ c \in Live(m) /\ c \in Cell
  BY Typed DEF Whole
<1>2. m2 = GivenName(m, c, k, const, s)
  <2> HIDE DEF s
  <2> QED
    BY <1>1 DEF Rename, Memories, GivenName, s
<1> HIDE DEF s
<1>3. Grown(m, m2, {})
  BY <1>1, RenameGrows
<1>4. Renamed(m, m2, c, k)
  BY <1>1, <1>2, NamedView
<1>5. Explained(m2, O \ {c}, c)
  BY <1>4, CJsonAssumption DEF Explained, Renamed
<1> QED
  BY <1>1, <1>3, <1>4, <1>5, WholeGiven

LEMMA WholeUnnamed ==
    ASSUME NEW m, NEW H, NEW O, Whole(m, H, O), NEW c \in H, NEW m2, m2 = Unname(m, c)
    PROVE  Whole(m2, H, O \cup {c}) /\ Alike(m, m2, c)
<1> DEFINE s == m.strings - (IF OwnsName(m, c) THEN 1 ELSE 0)
<1>1. m \in Memories /\ Sound(m) /\ c \in Live(m) /\ c \in Cell
  BY Typed DEF Whole
<1>2. m2 = GivenName(m, c, NoKey, FALSE, s)
  <2> HIDE DEF s
  <2> QED
    BY <1>1 DEF Unname, Memories, GivenName, s
<1> HIDE DEF s
<1>3. Grown(m, m2, {})
  BY <1>1, UnnameGrows
<1>4. Renamed(m, m2, c, NoKey)
  BY <1>1, <1>2, NamedView
<1>5. Explained(m2, O \cup {c}, c) /\ O \ {c} \subseteq O \cup {c}
  BY DEF Explained
<1> QED
  BY <1>1, <1>3, <1>4, <1>5, WholeGiven

(* ... added at the end of a list, with a name or without one, ...         *)
LEMMA WholeAdded ==
    ASSUME NEW m, NEW H, NEW O, Whole(m, H, O), NEW p, Owner(m, p), NEW c \in H,
           p \notin Swept(m, {c}), m.cell[p].type = "object" => Explained(m, O, c),
           NEW m2, m2 = AddItem(m, p, c)
    PROVE  Whole(m2, H \ {c}, O)
<1>1. m \in Memories /\ Sound(m) /\ Linked(m) /\ Root(m, c) /\ c \in Live(m)
  BY DEF Whole, Sound
<1>2. c # p
  BY <1>1, SweptIs
<1>3. Moved(m, m2, c)
  BY <1>1, <1>2, AddItemKeeps
<1>4. PICK after : Joined(m, m2, p, c, after)
  BY <1>1, AddJoins
<1> QED
  BY <1>3, <1>4, WholeJoined

LEMMA WholeMember ==
    ASSUME NEW m, NEW H, NEW O, Whole(m, H, O), NEW p, Owner(m, p), NEW c \in H,
           p \notin Swept(m, {c}), NEW k \in Key, NEW const \in BOOLEAN,
           NEW m2, m2 = AddItem(Rename(m, c, k, const), p, c)
    PROVE  Whole(m2, H \ {c}, O \ {c})
<1>1. PICK r : r = Rename(m, c, k, const)
  OBVIOUS
<1>2. p \in Cell
  BY Typed DEF Whole, Owner
<1>3. Whole(r, H, O \ {c}) /\ Alike(m, r, c) /\ r.cell[c].key = k
  BY <1>1, WholeRenamed
<1>4. Explained(r, O \ {c}, c)
  BY <1>3, CJsonAssumption DEF Explained
<1>5. m2 = AddItem(r, p, c)
  BY <1>1
<1>6. Owner(r, p) /\ p \notin Swept(r, {c})
  BY <1>2, <1>3 DEF Alike
<1> QED
  BY <1>3, <1>4, <1>5, <1>6, WholeAdded

(* ... or put in another's place.                                          *)
LEMMA WholeReplaced ==
    ASSUME NEW m, NEW H, NEW O, Whole(m, H, O), NEW p, Owner(m, p), NEW c \in Items(m, p),
           NEW r \in H, p \notin Swept(m, {r}), m.cell[p].type = "object" => Explained(m, O, r),
           NEW m2, m2 = Replace(m, p, c, r)
    PROVE  Whole(m2, H \ {r}, O \cap Live(m2))
<1>1. PICK e : e = Exchanged(m, p, c, r)
  OBVIOUS
<1>2. Whole(e, (H \ {r}) \cup {c}, O)
  BY <1>1, WholeExchanged
<1>3. m2 = Delete(e, c)
  BY <1>1, ReplaceIsDelete
<1>4. Whole(m2, ((H \ {r}) \cup {c}) \ {c}, O \cap Live(m2))
  BY <1>2, <1>3, WholeDeleted
<1>5. c \notin H
  BY ItemsNoRoot DEF Whole, Sound
<1>6. ((H \ {r}) \cup {c}) \ {c} = H \ {r}
  BY <1>5
<1> QED
  BY <1>4, <1>6
-----------------------------------------------------------------------------
(* Every call leaves a whole memory whole.                                 *)
Intact == Whole(mem, held, oom)

LEMMA CreateWhole ==
    ASSUME Fine, Intact, NEW n \in Fresh, NEW t \in Type, Create(n, t)
    PROVE  Whole(mem', held', oom')
<1>1. n \in Cell \ Live(mem) /\ mem' = New(mem, n, t) /\ held' = held \cup {n} /\ oom' = oom
  BY FreshIs DEF Create
<1>2. Whole(mem', held \cup {n}, oom)
  BY <1>1, WholeNew DEF Intact, Apart
<1> QED
  BY <1>1, <1>2

LEMMA CreateStringReferenceWhole ==
    ASSUME Fine, Intact, NEW n \in Fresh, CreateStringReference(n)
    PROVE  Whole(mem', held', oom')
<1> DEFINE i == [Blank EXCEPT !.type = "text", !.ref = TRUE]
<1>1. n \in Cell \ Live(mem) /\ mem \in Memories /\ Sound(mem)
  BY FreshIs DEF Fine
<1>2. Unlinked(i) /\ i.child = Null /\ i.ref
  BY DEF Unlinked, Blank, Item, Pointer, Type
<1>3. mem' = [mem EXCEPT !.cell[n] = i] /\ held' = held \cup {n} /\ oom' = oom
  BY DEF CreateStringReference
<1> HIDE DEF i
<1>4. Grown(mem, mem', {n}) /\ Root(mem', n)
  BY <1>1, <1>2, <1>3, PutGrows
<1>5. PutIs(mem, mem', n, i, mem.strings)
  BY <1>1, <1>2, <1>3, ReferenceIs DEF Unlinked
<1>6. Whole(mem', held \cup {n}, oom)
  BY <1>1, <1>2, <1>4, <1>5, WholeReference DEF Intact, Apart
<1> QED
  BY <1>3, <1>6

LEMMA CreateReferenceWhole ==
    ASSUME Fine, Intact, NEW n \in Fresh, NEW c \in Cell, NEW t \in Type \ {"text"},
           CreateReference(n, t, c)
    PROVE  Whole(mem', held', oom')
<1> DEFINE i == [Blank EXCEPT !.type = t, !.ref = TRUE, !.child = c]
<1>1. n \in Cell \ Live(mem) /\ mem \in Memories /\ Sound(mem)
  BY FreshIs DEF Fine
<1>2. c \in Live(mem)
  <2>1. PICK p \in Live(mem) : Container(p, t) /\ mem.cell[p].child = c
    BY DEF CreateReference
  <2> QED
    BY <1>1, <2>1, Typed DEF Sound, Linked, Container
<1>3. Unlinked(i) /\ i.child = c /\ i.ref
  BY DEF Unlinked, Blank, Item, Pointer, Type
<1>4. mem' = [mem EXCEPT !.cell[n] = i] /\ held' = held \cup {n} /\ oom' = oom
  BY DEF CreateReference
<1> HIDE DEF i
<1>5. Grown(mem, mem', {n}) /\ Root(mem', n)
  BY <1>1, <1>2, <1>3, <1>4, PutGrows
<1>6. PutIs(mem, mem', n, i, mem.strings)
  BY <1>1, <1>3, <1>4, ReferenceIs DEF Unlinked
<1>7. Whole(mem', held \cup {n}, oom)
  BY <1>1, <1>3, <1>5, <1>6, WholeReference DEF Intact, Apart
<1> QED
  BY <1>4, <1>7

(* What is made and deleted at once leaves all as it was.                  *)
LEMMA WholeAgain ==
    ASSUME NEW m, NEW H, NEW c, c \notin H, NEW O, Whole(m, H \cup {c}, O), NEW m2, m2 = Delete(m, c),
           NEW O2, O \cap Live(m2) \subseteq O2
    PROVE  Whole(m2, H, O2)
<1>1. Whole(m2, (H \cup {c}) \ {c}, O \cap Live(m2))
  BY WholeDeleted
<1>2. (H \cup {c}) \ {c} = H
  OBVIOUS
<1> QED
  BY <1>1, <1>2, WholeWeak

LEMMA CreateFilledWhole ==
    ASSUME Fine, Intact, NEW i \in DOMAIN Memory, NEW t \in {"array", "text"},
           CreateFilled(SubSeq(Memory, 1, i), t)
    PROVE  Whole(mem', held', oom')
<1> DEFINE f == SubSeq(Memory, 1, i)
           made == Filled(mem, f, t)
<1>1. mem \in Memories /\ Sound(mem) /\ Memory \in Seq(Free(mem)) /\ Free(mem) = Cell \ Live(mem)
      /\ \A j, k \in 1..Len(Memory) : Memory[j] = Memory[k] => j = k
  BY MemoryFacts DEF Fine, Free
<1>2. i \in 1..Len(Memory) /\ Len(Memory) \in Nat
  BY <1>1
<1>3. /\ f \in Seq(Cell \ Live(mem)) /\ Len(f) = i
      /\ \A j \in 1..i : f[j] = Memory[j]
  BY <1>1, <1>2
<1> HIDE DEF f
<1>4. Len(f) >= 1 /\ \A j, k \in 1..Len(f) : f[j] = f[k] => j = k
  BY <1>1, <1>2, <1>3
<1>5. Whole(made, held \cup {f[1]}, oom)
  <2>1. made = Filled(mem, f, t)
    OBVIOUS
  <2> HIDE DEF made
  <2> QED
    BY <1>3, <1>4, <2>1, WholeFilled DEF Intact
<1>6. f[1] \notin held /\ oom' = oom
  BY <1>3, <1>4 DEF CreateFilled, Fine
<1> HIDE DEF made
<1>7. CASE mem' = Delete(made, f[1]) /\ held' = held
  <2>1. Whole(mem', held, oom)
    BY <1>5, <1>6, <1>7, WholeAgain
  <2> QED
    BY <1>6, <1>7, <2>1
<1>8. CASE mem' = made /\ held' = held \cup {f[1]}
  BY <1>5, <1>6, <1>8
<1> QED
  BY <1>7, <1>8 DEF CreateFilled, f, made

LEMMA AddItemToArrayWhole ==
    ASSUME Fine, Intact, NEW p \in Cell, NEW c \in Cell, AddItemToArray(p, c)
    PROVE  Whole(mem', held', oom')
<1>1. /\ Owner(mem, p) /\ mem.cell[p].type # "object" /\ c \in held /\ p \notin Swept(mem, {c})
      /\ mem' = AddItem(mem, p, c) /\ held' = held \ {c} /\ oom' = oom
  BY ContainerOwns DEF AddItemToArray, Container, Loose, Type
<1>2. Whole(mem', held \ {c}, oom)
  BY <1>1, WholeAdded DEF Intact
<1> QED
  BY <1>1, <1>2

LEMMA AddItemToObjectWhole ==
    ASSUME Fine, Intact, NEW p \in Cell, NEW c \in Cell, NEW k \in Key, NEW const \in BOOLEAN,
           AddItemToObject(p, k, c, const)
    PROVE  Whole(mem', held', oom')
<1>1. /\ Owner(mem, p) /\ c \in held /\ p \notin Swept(mem, {c})
      /\ mem' = AddItem(Rename(mem, c, k, const), p, c)
      /\ held' = held \ {c} /\ oom' = oom \ {c}
  BY ContainerOwns DEF AddItemToObject, Loose, Type
<1>2. Whole(mem', held \ {c}, oom \ {c})
  BY <1>1, WholeMember DEF Intact
<1> QED
  BY <1>1, <1>2

(* A reference before it is added.                                         *)
Referred(m, H, O, p, n, r) ==
    /\ Whole(r, H \cup {n}, O) /\ Whole(r, H, O) /\ n \notin H
    /\ Owner(r, p) /\ r.cell[p].type = m.cell[p].type /\ p \notin Swept(r, {n})

LEMMA WholeReferred ==
    ASSUME NEW m, NEW H, NEW O, Whole(m, H, O), NEW p, Owner(m, p), NEW c \in Live(m),
           NEW n \in Cell \ Live(m), NEW r, r = Reference(m, c, n)
    PROVE  Referred(m, H, O, p, n, r)
<1> DEFINE i == [m.cell[c] EXCEPT !.ref = TRUE, !.key = NoKey, !.next = Null, !.prev = Null]
<1>1. m \in Memories /\ Sound(m) /\ m.cell[c] \in Item /\ m.cell[c].type # "free" /\ p \in Live(m)
  BY Typed DEF Whole, Live, Owner
<1>2. Unlinked(i) /\ i.ref
  BY <1>1 DEF Unlinked, Item, Pointer
<1>3. r = [m EXCEPT !.cell[n] = i]
  BY DEF Reference
<1> HIDE DEF i
<1>4. Grown(m, r, {n}) /\ Root(r, n)
  BY <1>1, ReferenceGrows
<1>5. PutIs(m, r, n, i, m.strings)
  BY <1>1, <1>2, <1>3, ReferenceIs DEF Unlinked
<1>6. Apart(r, H, O, n) /\ Whole(r, H, O) /\ Spared(m, r)
  BY <1>2, <1>4, <1>5, WholeReference
<1>7. Owner(r, p)
  BY <1>1, <1>4 DEF Grown
<1> QED
  BY <1>1, <1>6, <1>7 DEF Referred, Apart, Spared

LEMMA AddItemReferenceToArrayWhole ==
    ASSUME Fine, Intact, NEW p \in Cell, NEW c \in Cell, NEW n \in Fresh, AddItemReferenceToArray(p, c, n)
    PROVE  Whole(mem', held', oom')
<1>1. /\ Owner(mem, p) /\ mem.cell[p].type # "object" /\ c \in Live(mem) /\ n \in Cell \ Live(mem)
      /\ held' = held /\ oom' = oom
  BY ContainerOwns, FreshIs DEF AddItemReferenceToArray, Container, Type
<1>2. PICK r : r = Reference(mem, c, n)
  OBVIOUS
<1>3. Referred(mem, held, oom, p, n, r)
  BY <1>1, <1>2, WholeReferred DEF Intact
<1>4. /\ Whole(r, held \cup {n}, oom) /\ n \notin held
      /\ Owner(r, p) /\ r.cell[p].type = mem.cell[p].type /\ p \notin Swept(r, {n})
  BY <1>3 DEF Referred
<1>5. mem' = AddItem(r, p, n)
  BY <1>2 DEF AddItemReferenceToArray
<1>6. n \in held \cup {n} /\ (held \cup {n}) \ {n} = held
  BY <1>4
<1>7. Whole(mem', (held \cup {n}) \ {n}, oom)
  BY <1>1, <1>4, <1>5, <1>6, WholeAdded
<1> QED
  BY <1>1, <1>6, <1>7

LEMMA AddItemReferenceToObjectWhole ==
    ASSUME Fine, Intact, NEW p \in Cell, NEW c \in Cell, NEW n \in Fresh, NEW k \in Key,
           AddItemReferenceToObject(p, k, c, n)
    PROVE  Whole(mem', held', oom')
<1>1. /\ Owner(mem, p) /\ c \in Live(mem) /\ n \in Cell \ Live(mem) /\ held' = held /\ oom' = oom
  BY ContainerOwns, FreshIs DEF AddItemReferenceToObject, Type
<1>2. PICK r : r = Reference(mem, c, n)
  OBVIOUS
<1>3. Referred(mem, held, oom, p, n, r)
  BY <1>1, <1>2, WholeReferred DEF Intact
<1>4. CASE mem' = r
  BY <1>1, <1>3, <1>4 DEF Referred
<1>5. CASE mem' = AddItem(Rename(r, n, k, FALSE), p, n)
  <2>1. n \in held \cup {n} /\ (held \cup {n}) \ {n} = held
    BY <1>3 DEF Referred
  <2>2. Whole(r, held \cup {n}, oom) /\ Owner(r, p) /\ p \notin Swept(r, {n})
    BY <1>3 DEF Referred
  <2>3. Whole(mem', (held \cup {n}) \ {n}, oom \ {n})
    BY <1>5, <2>1, <2>2, WholeMember
  <2> QED
    BY <1>1, <2>1, <2>3, WholeWeak
<1> QED
  BY <1>2, <1>4, <1>5 DEF AddItemReferenceToObject

LEMMA AddNewToObjectWhole ==
    ASSUME Fine, Intact, NEW p \in Cell, NEW n \in Fresh, NEW k \in Key, NEW t \in Type,
           AddNewToObject(p, k, t, n)
    PROVE  Whole(mem', held', oom')
<1>1. /\ Owner(mem, p) /\ p \in Live(mem) /\ n \in Cell \ Live(mem) /\ held' = held /\ oom' = oom
      /\ mem \in Memories /\ Sound(mem)
  BY ContainerOwns, FreshIs DEF AddNewToObject, Type, Fine
<1>2. PICK r : r = New(mem, n, t)
  OBVIOUS
<1>3. Whole(r, held \cup {n}, oom) /\ Owner(r, p)
  <2>1. Apart(r, held, oom, n)
    BY <1>1, <1>2, WholeNew DEF Intact
  <2>2. Grown(mem, r, {n})
    BY <1>1, <1>2, NewGrows
  <2> QED
    BY <1>1, <2>1, <2>2 DEF Grown, Apart
<1>4. p \notin Swept(r, {n}) /\ n \notin held
  <2>1. Apart(r, held, oom, n)
    BY <1>1, <1>2, WholeNew DEF Intact
  <2> QED
    BY <1>1, <2>1 DEF Apart
<1>5. CASE mem' = Delete(r, n)
  <2>1. Whole(mem', held, oom)
    BY <1>3, <1>4, <1>5, WholeAgain
  <2> QED
    BY <1>1, <2>1
<1>6. CASE mem' = AddItem(Rename(r, n, k, FALSE), p, n)
  <2>1. n \in held \cup {n} /\ (held \cup {n}) \ {n} = held
    BY <1>4
  <2>2. Whole(mem', (held \cup {n}) \ {n}, oom \ {n})
    BY <1>3, <1>4, <1>6, <2>1, WholeMember
  <2> QED
    BY <1>1, <2>1, <2>2, WholeWeak
<1> QED
  BY <1>2, <1>5, <1>6 DEF AddNewToObject

LEMMA DetachItemWhole ==
    ASSUME Fine, Intact, NEW p, Owner(mem, p), NEW c \in Items(mem, p), DetachItem(p, c)
    PROVE  Whole(mem', held', oom')
<1>1. mem' = Detach(mem, p, c) /\ held' = held \cup {c} /\ oom' = oom
  BY DEF DetachItem
<1>2. Whole(mem', held \cup {c}, oom)
  BY <1>1, WholeDetached DEF Intact
<1> QED
  BY <1>1, <1>2

LEMMA DeleteItemWhole ==
    ASSUME Fine, Intact, NEW p, Owner(mem, p), NEW c \in Items(mem, p), DeleteItem(p, c)
    PROVE  Whole(mem', held', oom')
<1>1. PICK m : m = Detach(mem, p, c)
  OBVIOUS
<1>2. Whole(m, held \cup {c}, oom)
  BY <1>1, WholeDetached DEF Intact
<1>3. c \notin held
  BY ItemsNoRoot DEF Fine, Sound
<1>4. mem' = Delete(m, c) /\ held' = held /\ oom' = oom \cap Live(mem')
  BY <1>1 DEF DeleteItem, Kept
<1>5. Whole(mem', held, oom \cap Live(mem'))
  BY <1>2, <1>3, <1>4, WholeAgain
<1> QED
  BY <1>4, <1>5

LEMMA FromArrayWhole ==
    ASSUME Fine, Intact, NEW p \in Cell, NEW i, FromArray(p, i)
    PROVE  Whole(mem', held', oom')
<1>1. Owner(mem, p)
  BY ContainerOwns DEF FromArray, Type
<1>2. ArrayItem(mem, p, i) \in Items(mem, p)
  BY FoundIs DEF FromArray, DetachItem, DeleteItem
<1> QED
  BY <1>1, <1>2, DetachItemWhole, DeleteItemWhole DEF FromArray

LEMMA FromObjectWhole ==
    ASSUME Fine, Intact, NEW p \in Cell, NEW k, NEW sensitive, FromObject(p, k, sensitive)
    PROVE  Whole(mem', held', oom')
<1>1. Owner(mem, p)
  BY ContainerOwns DEF FromObject, Type
<1>2. ObjectItem(mem, p, k, sensitive) \in Items(mem, p)
  BY FoundIs DEF FromObject, DetachItem, DeleteItem
<1> QED
  BY <1>1, <1>2, DetachItemWhole, DeleteItemWhole DEF FromObject

LEMMA InsertItemInArrayWhole ==
    ASSUME Fine, Intact, NEW p \in Cell, NEW c \in Cell, NEW i, InsertItemInArray(p, i, c)
    PROVE  Whole(mem', held', oom')
<1>1. /\ Owner(mem, p) /\ mem.cell[p].type # "object" /\ c \in held /\ p \notin Swept(mem, {c})
      /\ held' = held \ {c} /\ oom' = oom
  BY ContainerOwns DEF InsertItemInArray, Container, Loose, Type
<1>2. Root(mem, c) /\ c # p /\ mem \in Memories /\ Sound(mem)
  BY LooseIs DEF InsertItemInArray, Fine
<1>3. PICK after : after = ArrayItem(mem, p, i)
  OBVIOUS
<1>4. mem' = IF after = Null THEN AddItem(mem, p, c) ELSE InsertBefore(mem, p, after, c)
  BY <1>3 DEF InsertItemInArray
<1>5. CASE after = Null
  <2>1. Whole(mem', held \ {c}, oom)
    BY <1>1, <1>4, <1>5, WholeAdded DEF Intact
  <2> QED
    BY <1>1, <2>1
<1>6. CASE after # Null
  <2>1. after \in Items(mem, p)
    BY <1>3, <1>6, FoundIs
  <2>2. mem' = InsertBefore(mem, p, after, c)
    BY <1>4, <1>6
  <2>3. Moved(mem, mem', c)
    BY <1>1, <1>2, <2>1, <2>2, InsertKeeps
  <2>4. Joined(mem, mem', p, c, after)
    BY <1>1, <1>2, <2>1, <2>2, InsertJoins
  <2>5. Whole(mem', held \ {c}, oom)
    BY <1>1, <2>3, <2>4, WholeJoined DEF Intact
  <2> QED
    BY <1>1, <2>5
<1> QED
  BY <1>5, <1>6

LEMMA ReplaceItemInArrayWhole ==
    ASSUME Fine, Intact, NEW p \in Cell, NEW r \in Cell, NEW i, ReplaceItemInArray(p, i, r)
    PROVE  Whole(mem', held', oom')
<1>1. /\ Owner(mem, p) /\ mem.cell[p].type # "object" /\ r \in held /\ p \notin Swept(mem, {r})
      /\ held' = held \ {r} /\ oom' = oom \cap Live(mem')
  BY ContainerOwns DEF ReplaceItemInArray, Container, Loose, Kept, Type
<1>2. PICK c : c = ArrayItem(mem, p, i)
  OBVIOUS
<1>3. c \in Items(mem, p) /\ mem' = Replace(mem, p, c, r)
  BY <1>2, FoundIs DEF ReplaceItemInArray
<1>4. Whole(mem', held \ {r}, oom \cap Live(mem'))
  BY <1>1, <1>3, WholeReplaced DEF Intact
<1> QED
  BY <1>1, <1>4

LEMMA WholeLive ==
    ASSUME NEW m, NEW H, NEW O, Whole(m, H, O)
    PROVE  Whole(m, H, O \cap Live(m))
<1>1. Linked(m) /\ m \in Memories
  BY DEF Whole, Sound
<1> QED
  BY <1>1, ItemsFacts DEF Whole, Listed, Explained, Object

LEMMA ReplaceItemInObjectWhole ==
    ASSUME Fine, Intact, NEW p \in Cell, NEW r \in Cell, NEW k \in Key, NEW sensitive,
           ReplaceItemInObject(p, k, r, sensitive)
    PROVE  Whole(mem', held', oom')
<1>1. /\ Owner(mem, p) /\ r \in held /\ p \notin Swept(mem, {r})
  BY ContainerOwns DEF ReplaceItemInObject, Loose, Type
<1>2. PICK named \in BOOLEAN :
        LET m == IF named THEN Rename(mem, r, k, FALSE) ELSE Unname(mem, r)
            c == ObjectItem(m, p, k, sensitive)
        IN /\ IF c = Null THEN mem' = m /\ UNCHANGED held
                          ELSE mem' = Replace(m, p, c, r) /\ held' = held \ {r}
           /\ oom' = (IF named THEN oom \ {r} ELSE oom \cup {r}) \cap Live(mem')
  BY DEF ReplaceItemInObject
<1>3. PICK m : m = IF named THEN Rename(mem, r, k, FALSE) ELSE Unname(mem, r)
  OBVIOUS
<1>4. PICK c : c = ObjectItem(m, p, k, sensitive)
  OBVIOUS
<1>5. PICK O : O = IF named THEN oom \ {r} ELSE oom \cup {r}
  OBVIOUS
<1>6. /\ c = Null => mem' = m /\ held' = held
      /\ c # Null => mem' = Replace(m, p, c, r) /\ held' = held \ {r}
      /\ oom' = O \cap Live(mem')
  BY <1>2, <1>3, <1>4, <1>5
<1>7. Whole(m, held, O) /\ Alike(mem, m, r) /\ Explained(m, O, r)
  <2>1. CASE named
    <3>1. m = Rename(mem, r, k, FALSE) /\ O = oom \ {r}
      BY <1>3, <1>5, <2>1
    <3>2. Whole(mem, held, oom) /\ r \in held
      BY <1>1 DEF Intact
    <3>3. PICK const \in BOOLEAN : m = Rename(mem, r, k, const)
      BY <3>1
    <3>4. Whole(m, held, oom \ {r}) /\ Alike(mem, m, r) /\ m.cell[r].key = k
      BY <3>2, <3>3, WholeRenamed
    <3> QED
      BY <3>1, <3>4, CJsonAssumption DEF Explained
  <2>2. CASE ~named
    <3>1. m = Unname(mem, r) /\ O = oom \cup {r}
      BY <1>3, <1>5, <2>2
    <3>2. Whole(m, held, O) /\ Alike(mem, m, r)
      BY <1>1, <3>1, WholeUnnamed DEF Intact
    <3> QED
      BY <3>1, <3>2 DEF Explained
  <2> QED
    BY <2>1, <2>2
<1>8. Owner(m, p) /\ p \notin Swept(m, {r})
  BY <1>1, <1>7 DEF Alike
<1>9. CASE c = Null
  <2>1. mem' = m /\ held' = held /\ oom' = O \cap Live(m)
    BY <1>6, <1>9
  <2>2. Whole(m, held, O \cap Live(m))
    BY <1>7, WholeLive
  <2> QED
    BY <2>1, <2>2
<1>10. CASE c # Null
  <2>1. c \in Items(m, p)
    BY <1>4, <1>10, FoundIs
  <2>2. mem' = Replace(m, p, c, r) /\ held' = held \ {r} /\ oom' = O \cap Live(mem')
    BY <1>6, <1>10
  <2>3. Whole(mem', held \ {r}, O \cap Live(mem'))
    BY <1>1, <1>7, <1>8, <2>1, <2>2, WholeReplaced
  <2> QED
    BY <2>2, <2>3
<1> QED
  BY <1>9, <1>10

LEMMA DuplicateWhole ==
    ASSUME Fine, Intact, NEW n \in Fresh, NEW i \in DOMAIN Memory, NEW c \in Live(mem),
           NEW recurse \in BOOLEAN, Duplicate(c, recurse, {Memory[j] : j \in 1..i}, n)
    PROVE  Whole(mem', held', oom')
<1> DEFINE N == {Memory[j] : j \in 1..i}
<1>1. mem \in Memories /\ Sound(mem) /\ Memory \in Seq(Free(mem)) /\ Free(mem) = Cell \ Live(mem)
  BY MemoryFacts DEF Fine, Free
<1>2. i \in 1..Len(Memory) /\ Len(Memory) \in Nat /\ n = Memory[1]
  BY <1>1 DEF Fresh
<1>3. N \in SUBSET (Cell \ Live(mem)) /\ n \in N
  BY <1>1, <1>2
<1> HIDE DEF N
<1>4. PICK of \in [N -> Cell], via \in [N \ {n} -> Link(N)] :
        LET made == Copied(mem, N, of, via)
            shown == UNION {Items(made, x) : x \in {y \in N : mem.cell[of[y]].ref}}
        IN /\ IsCopy(mem, c, N, n, of, via)
           /\ \/ /\ recurse => Complete(mem, N, n, of, via)
                 /\ mem' = made /\ held' = held \cup {n}
                 /\ oom' = oom \cup {x \in N : made.cell[x].key = NoKey /\ (of[x] \in oom \/ x \in shown)}
              \/ mem' = Delete(made, n) /\ UNCHANGED <<held, oom>>
  BY DEF Duplicate, N
<1>5. PICK made : made = Copied(mem, N, of, via)
  OBVIOUS
<1>6. PICK shown : shown = UNION {Items(made, x) : x \in {y \in N : mem.cell[of[y]].ref}}
  OBVIOUS
<1>7. PICK O : O = oom \cup {x \in N : made.cell[x].key = NoKey /\ (of[x] \in oom \/ x \in shown)}
  OBVIOUS
<1>8. /\ IsCopy(mem, c, N, n, of, via)
      /\ \/ mem' = made /\ held' = held \cup {n} /\ oom' = O
         \/ mem' = Delete(made, n) /\ held' = held /\ oom' = oom
  BY <1>4, <1>5, <1>6, <1>7
<1>9. oom \subseteq O /\ O \subseteq oom \cup N
  BY <1>7
<1>10. Inherited(mem, made, N, of, oom, O)
  BY <1>6, <1>7 DEF Inherited
<1>11. Whole(made, held \cup {n}, O)
  BY <1>3, <1>5, <1>8, <1>10, WholeCopied DEF Intact
<1>12. CASE mem' = made /\ held' = held \cup {n} /\ oom' = O
  BY <1>11, <1>12
<1>13. CASE mem' = Delete(made, n) /\ held' = held /\ oom' = oom
  <2>1. Swept(made, {n}) = N
    BY <1>5, <1>8 DEF IsCopy
  <2>2. n \notin held
    BY <1>3 DEF Fine
  <2>3. Root(made, n) /\ made \in Memories /\ Sound(made)
    BY <1>11 DEF Whole
  <2>4. Cleared(made, mem', n)
    BY <1>13, <2>3, DeleteKeeps
  <2>5. O \cap Live(mem') \subseteq oom
    BY <1>9, <2>1, <2>4 DEF Cleared
  <2>6. Whole(mem', held, oom)
    BY <1>11, <1>13, <2>2, <2>5, WholeAgain
  <2> QED
    BY <1>13, <2>6
<1> QED
  BY <1>8, <1>12, <1>13

LEMMA DeleteTreeWhole ==
    ASSUME Fine, Intact, NEW c \in Cell, DeleteTree(c)
    PROVE  Whole(mem', held', oom')
<1>1. c \in held /\ mem' = Delete(mem, c) /\ held' = held \ {c} /\ oom' = oom \cap Live(mem')
  BY DEF DeleteTree, Kept
<1>2. Whole(mem', held \ {c}, oom \cap Live(mem'))
  BY <1>1, WholeDeleted DEF Intact
<1> QED
  BY <1>1, <1>2

LEMMA InitWhole ==
    ASSUME Init
    PROVE  Intact
<1>1. TypeOK /\ SoundInv
  BY InitFine
<1>2. mem.cell = [c \in Cell |-> Blank] /\ held = {}
  BY DEF Init
<1>3. Live(mem) = {}
  BY <1>2 DEF Live, Blank
<1> QED
  BY <1>1, <1>2, <1>3, FineIs DEF Intact, Whole, Safe, Listed, Fine

LEMMA NextWhole ==
    ASSUME TypeOK, SoundInv, Intact, [Next]_vars
    PROVE  Intact'
<1> SUFFICES Whole(mem', held', oom')
  BY DEF Intact
<1> USE FineIs
<1>1. ASSUME NEW n \in Fresh, CreateStringReference(n) \/ \E t \in Type : Create(n, t)
      PROVE  Whole(mem', held', oom')
  BY <1>1, CreateStringReferenceWhole, CreateWhole
<1>2. ASSUME NEW n \in Fresh, NEW c \in Cell, NEW t \in Type \ {"text"}, CreateReference(n, t, c)
      PROVE  Whole(mem', held', oom')
  BY <1>2, CreateReferenceWhole
<1>3. ASSUME NEW i \in DOMAIN Memory, NEW t \in {"array", "text"},
             CreateFilled(SubSeq(Memory, 1, i), t)
      PROVE  Whole(mem', held', oom')
  BY <1>3, CreateFilledWhole
<1>4. ASSUME NEW p \in Cell, NEW c \in Cell, AddItemToArray(p, c)
      PROVE  Whole(mem', held', oom')
  BY <1>4, AddItemToArrayWhole
<1>5. ASSUME NEW p \in Cell, NEW c \in Cell, NEW k \in Key, NEW const \in BOOLEAN,
             AddItemToObject(p, k, c, const)
      PROVE  Whole(mem', held', oom')
  BY <1>5, AddItemToObjectWhole
<1>6. ASSUME NEW p \in Cell, NEW c \in Cell, NEW n \in Fresh, AddItemReferenceToArray(p, c, n)
      PROVE  Whole(mem', held', oom')
  BY <1>6, AddItemReferenceToArrayWhole
<1>7. ASSUME NEW p \in Cell, NEW c \in Cell, NEW n \in Fresh, NEW k \in Key,
             AddItemReferenceToObject(p, k, c, n)
      PROVE  Whole(mem', held', oom')
  BY <1>7, AddItemReferenceToObjectWhole
<1>8. ASSUME NEW p \in Cell, NEW n \in Fresh, NEW k \in Key, NEW t \in Type,
             AddNewToObject(p, k, t, n)
      PROVE  Whole(mem', held', oom')
  BY <1>8, AddNewToObjectWhole
<1>9. ASSUME NEW p \in Cell, NEW i \in 0..Cardinality(Cell), FromArray(p, i)
      PROVE  Whole(mem', held', oom')
  BY <1>9, FromArrayWhole
<1>10. ASSUME NEW p \in Cell, NEW k \in Key, NEW sensitive \in BOOLEAN, FromObject(p, k, sensitive)
       PROVE  Whole(mem', held', oom')
  BY <1>10, FromObjectWhole
<1>11. ASSUME NEW p \in Cell, NEW c \in Cell, NEW i \in 0..Cardinality(Cell),
              InsertItemInArray(p, i, c) \/ ReplaceItemInArray(p, i, c)
       PROVE  Whole(mem', held', oom')
  BY <1>11, InsertItemInArrayWhole, ReplaceItemInArrayWhole
<1>12. ASSUME NEW p \in Cell, NEW r \in Cell, NEW k \in Key, NEW sensitive \in BOOLEAN,
              ReplaceItemInObject(p, k, r, sensitive)
       PROVE  Whole(mem', held', oom')
  BY <1>12, ReplaceItemInObjectWhole
<1>13. ASSUME NEW n \in Fresh, NEW i \in DOMAIN Memory, NEW c \in Live(mem), NEW recurse \in BOOLEAN,
              Duplicate(c, recurse, {Memory[j] : j \in 1..i}, n)
       PROVE  Whole(mem', held', oom')
  BY <1>13, DuplicateWhole
<1>14. ASSUME NEW c \in Cell, DeleteTree(c)
       PROVE  Whole(mem', held', oom')
  BY <1>14, DeleteTreeWhole
<1>15. CASE UNCHANGED vars
  BY <1>15 DEF vars, Intact
<1> QED
  BY <1>1, <1>2, <1>3, <1>4, <1>5, <1>6, <1>7, <1>8, <1>9, <1>10, <1>11, <1>12, <1>13, <1>14, <1>15
     DEF Next
-----------------------------------------------------------------------------
(* s is the beginning of the list of p, ...                                *)
Starts(m, p, s) ==
    /\ s \in Seq(Cell)
    /\ Len(s) # 0 => m.cell[p].child = s[1]
    /\ \A i \in 1..Len(s) - 1 : m.cell[s[i]].next = s[i + 1]

(* ... or all of it.                                                       *)
IsList(m, p, s) ==
    /\ Starts(m, p, s)
    /\ IF Len(s) = 0 THEN m.cell[p].child = Null ELSE m.cell[s[Len(s)]].next = Null

(* What a list begins with are its items, ...                              *)
LEMMA StartsInside ==
    ASSUME NEW m \in Memories, Linked(m), NEW p, Owner(m, p), NEW s, Starts(m, p, s)
    PROVE  \A i \in 1..Len(s) : s[i] \in Items(m, p) /\ s[i] \in Live(m) /\ s[i] \in Cell /\ s[i] # Null
<1> DEFINE Out == {i \in 1..Len(s) : s[i] \notin Items(m, p)}
<1>1. s \in Seq(Cell) /\ Len(s) \in Nat /\ \A i \in 1..Len(s) : s[i] \in Cell
  BY DEF Starts
<1>2. Out = {}
  <2> SUFFICES ASSUME Out # {} PROVE FALSE
    OBVIOUS
  <2>1. Out \in SUBSET Nat
    OBVIOUS
  <2>2. PICK i \in Out : \A j \in Out : ~(j < i)
    BY <2>1, LeastNumber
  <2>3. CASE i = 1
    BY <1>1, <2>2, <2>3, ItemsFacts, Typed DEF Starts
  <2>4. CASE i # 1
    <3>1. i - 1 \in 1..Len(s) /\ i - 1 \in 1..Len(s) - 1 /\ i - 1 \notin Out
      BY <1>1, <2>2, <2>4
    <3>2. s[i - 1] \in Items(m, p) /\ m.cell[s[i - 1]].next = s[i]
      BY <3>1 DEF Starts
    <3>3. s[i] \in Items(m, p)
      BY <1>1, <2>2, <3>2, ItemsFacts, Typed
    <3> QED
      BY <2>2, <3>3
  <2> QED
    BY <2>3, <2>4
<1> QED
  BY <1>1, <1>2, ItemsFacts, Typed

(* ... each of them the prev of the one after it, ...                      *)
LEMMA StartsPrev ==
    ASSUME NEW m \in Memories, Linked(m), NEW p, Owner(m, p), NEW s, Starts(m, p, s)
    PROVE  \A i \in 1..Len(s) : m.cell[s[i]].prev = IF i = 1 THEN Null ELSE s[i - 1]
<1>1. s \in Seq(Cell) /\ Len(s) \in Nat
  BY DEF Starts
<1>2. \A i \in 1..Len(s) : s[i] \in Live(m) /\ s[i] \in Cell /\ s[i] # Null
  BY StartsInside
<1>3. ASSUME NEW i \in 1..Len(s), i # 1 PROVE m.cell[s[i]].prev = s[i - 1]
  <2>1. i - 1 \in 1..Len(s) /\ i - 1 \in 1..Len(s) - 1
    BY <1>1, <1>3
  <2>2. m.cell[s[i - 1]].next = s[(i - 1) + 1] /\ (i - 1) + 1 = i
    BY <2>1 DEF Starts
  <2> QED
    BY <1>2, <2>1, <2>2 DEF Linked
<1>4. Len(s) # 0 => m.cell[s[1]].prev = Null
  BY <1>2 DEF Starts, Linked, Owner
<1> QED
  BY <1>1, <1>3, <1>4

(* ... none of them twice, ...                                             *)
LEMMA StartsOnce ==
    ASSUME NEW m \in Memories, Linked(m), NEW p, Owner(m, p), NEW s, Starts(m, p, s),
           NEW i \in 1..Len(s), NEW j \in 1..Len(s), s[i] = s[j]
    PROVE  i = j
<1> DEFINE Twice == {x \in 1..Len(s) : \E y \in 1..Len(s) : x < y /\ s[x] = s[y]}
<1>1. s \in Seq(Cell) /\ Len(s) \in Nat
  BY DEF Starts
<1>2. \A x \in 1..Len(s) : m.cell[s[x]].prev = IF x = 1 THEN Null ELSE s[x - 1]
  BY StartsPrev
<1>3. \A x \in 1..Len(s) : s[x] # Null
  BY StartsInside
<1>4. Twice = {}
  <2> SUFFICES ASSUME Twice # {} PROVE FALSE
    OBVIOUS
  <2>1. Twice \in SUBSET Nat
    OBVIOUS
  <2>2. PICK x \in Twice : \A y \in Twice : ~(y < x)
    BY <2>1, LeastNumber
  <2>3. PICK y \in 1..Len(s) : x < y /\ s[x] = s[y]
    BY <2>2
  <2>4. x \in 1..Len(s) /\ y # 1 /\ y - 1 \in 1..Len(s)
    BY <1>1, <2>2, <2>3
  <2>5. m.cell[s[y]].prev = s[y - 1] /\ s[y - 1] # Null
    BY <1>2, <1>3, <2>3, <2>4
  <2>6. x # 1
    BY <1>2, <2>3, <2>4, <2>5
  <2>7. x - 1 < y - 1 /\ x - 1 \in 1..Len(s)
    BY <1>1, <2>3, <2>4, <2>6
  <2>8. s[x - 1] = s[y - 1]
    BY <1>2, <2>3, <2>4, <2>5, <2>6
  <2>9. x - 1 \in Twice /\ x - 1 < x
    BY <2>4, <2>7, <2>8
  <2> QED
    BY <2>2, <2>9
<1> QED
  BY <1>1, <1>4

(* There is no room for more than all items, ...                           *)
LEMMA StartsShort ==
    ASSUME NEW m \in Memories, Linked(m), NEW p, Owner(m, p), NEW s, Starts(m, p, s)
    PROVE  Len(s) \in Nat /\ Len(s) <= Cardinality(Cell)
<1>1. s \in Seq(Cell) /\ Len(s) \in Nat /\ s \in [1..Len(s) -> Cell]
  BY DEF Starts
<1>2. IsFiniteSet(1..Len(s)) /\ Cardinality(1..Len(s)) = Len(s)
  BY <1>1, FS_Interval
<1>3. s \in Injection(1..Len(s), Cell)
  BY <1>1, StartsOnce DEF Injection, IsInjective
<1>4. Cardinality(1..Len(s)) <= Cardinality(Cell)
  BY <1>3, CJsonAssumption, FS_Injection
<1> QED
  BY <1>1, <1>2, <1>4

(* ... so the longest beginning is the list.                               *)
LEMMA ListExists ==
    ASSUME NEW m \in Memories, Linked(m), NEW p, Owner(m, p)
    PROVE  \E s : IsList(m, p, s)
<1> DEFINE Short == {n \in Nat : \E s : Starts(m, p, s) /\ Len(s) + n = Cardinality(Cell)}
<1>1. Cardinality(Cell) \in Nat
  BY CJsonAssumption, FS_CardinalityType
<1>2. Starts(m, p, <<>>) /\ Len(<<>>) = 0
  BY DEF Starts
<1>3. Cardinality(Cell) \in Short
  BY <1>1, <1>2
<1>4. PICK n \in Short : \A j \in Short : ~(j < n)
  BY <1>3, LeastNumber
<1>5. PICK s : Starts(m, p, s) /\ Len(s) + n = Cardinality(Cell)
  BY <1>4
<1>6. s \in Seq(Cell) /\ Len(s) \in Nat
  BY <1>5 DEF Starts
<1> DEFINE q == IF Len(s) = 0 THEN m.cell[p].child ELSE m.cell[s[Len(s)]].next
<1>7. q \in Cell \cup {Null}
  <2>1. CASE Len(s) = 0
    BY <2>1, Typed DEF Linked, Owner
  <2>2. CASE Len(s) # 0
    <3>1. s[Len(s)] \in Live(m)
      BY <1>5, <1>6, <2>2, StartsInside
    <3> QED
      BY <2>2, <3>1, Typed DEF Linked
  <2> QED
    BY <2>1, <2>2
<1>8. ASSUME q \in Cell PROVE FALSE
  <2> DEFINE s2 == Append(s, q)
  <2>1. s2 \in Seq(Cell) /\ Len(s2) = Len(s) + 1 /\ s2[Len(s) + 1] = q
        /\ \A i \in 1..Len(s) : s2[i] = s[i]
    BY <1>6, <1>8
  <2> HIDE DEF s2
  <2>2. Len(s2) # 0 => m.cell[p].child = s2[1]
    BY <1>5, <1>6, <2>1 DEF Starts
  <2>3. ASSUME NEW i \in 1..Len(s2) - 1 PROVE m.cell[s2[i]].next = s2[i + 1]
    <3>1. i \in 1..Len(s)
      BY <1>6, <2>1
    <3>2. CASE i = Len(s)
      BY <1>6, <2>1, <3>1, <3>2
    <3>3. CASE i # Len(s)
      <4>1. i \in 1..Len(s) - 1 /\ i + 1 \in 1..Len(s)
        BY <1>6, <3>1, <3>3
      <4> QED
        BY <1>5, <2>1, <3>1, <4>1 DEF Starts
    <3> QED
      BY <3>2, <3>3
  <2>4. Starts(m, p, s2)
    BY <2>1, <2>2, <2>3 DEF Starts
  <2>5. Len(s2) <= Cardinality(Cell)
    BY <2>4, StartsShort
  <2>6. n - 1 \in Nat /\ Len(s2) + (n - 1) = Cardinality(Cell)
    BY <1>1, <1>4, <1>5, <1>6, <2>1, <2>5
  <2>7. n - 1 \in Short
    BY <2>4, <2>6
  <2> QED
    BY <1>4, <2>6, <2>7
<1>9. q = Null
  BY <1>7, <1>8
<1> QED
  BY <1>5, <1>6, <1>9 DEF IsList

(* Going through the list from its child on finds its items.               *)
LEMMA KidsAre ==
    ASSUME NEW m \in Memories, Linked(m), NEW p, Owner(m, p), NEW s, IsList(m, p, s)
    PROVE  Kids(m, p) = s
<1> DEFINE D == 1..Cardinality(Cell) + 1
           Walk(h) == [i \in D |-> IF i = 1 THEN m.cell[p].child ELSE After(m, h[i - 1])]
           g == [i \in D |-> IF i \in 1..Len(s) THEN s[i] ELSE Null]
           w == CHOOSE h : h = Walk(h)
           Other == {i \in D : w[i] # g[i]}
<1>1. Kids(m, p) = [i \in {j \in DOMAIN w : w[j] \in Cell} |-> w[i]]
  BY DEF Kids
<1>2. Cardinality(Cell) \in Nat /\ Len(s) \in Nat /\ Len(s) <= Cardinality(Cell) /\ s \in Seq(Cell)
  BY CJsonAssumption, FS_CardinalityType, StartsShort DEF IsList, Starts
<1>3. ASSUME NEW i \in D PROVE g[i] = IF i = 1 THEN m.cell[p].child ELSE After(m, g[i - 1])
  <2>1. CASE i = 1
    BY <1>2, <2>1 DEF IsList, Starts
  <2>2. CASE i # 1 /\ i \in 1..Len(s)
    <3>1. i - 1 \in 1..Len(s) - 1 /\ i - 1 \in D /\ i - 1 \in 1..Len(s)
      BY <1>2, <2>2
    <3>2. m.cell[s[i - 1]].next = s[i] /\ s[i - 1] \in Cell
      BY <1>2, <2>2, <3>1 DEF IsList, Starts
    <3> QED
      BY <2>2, <3>1, <3>2 DEF After
  <2>3. CASE i # 1 /\ i - 1 = Len(s)
    <3>1. i - 1 \in D /\ i - 1 \in 1..Len(s) /\ i \notin 1..Len(s)
      BY <1>2, <2>3
    <3>2. m.cell[s[i - 1]].next = Null /\ s[i - 1] \in Cell
      BY <1>2, <2>3, <3>1 DEF IsList
    <3> QED
      BY <2>3, <3>1, <3>2 DEF After
  <2>4. CASE i # 1 /\ i - 1 > Len(s)
    <3>1. i - 1 \in D /\ i - 1 \notin 1..Len(s) /\ i \notin 1..Len(s)
      BY <1>2, <2>4
    <3> QED
      BY <2>4, <3>1, CJsonAssumption DEF After
  <2> QED
    BY <1>2, <2>1, <2>2, <2>3, <2>4
<1>4. g = Walk(g)
  BY <1>3
<1>5. w = Walk(w)
  BY <1>4
<1> HIDE DEF w
<1>6. DOMAIN w = D /\ \A i \in D : w[i] = IF i = 1 THEN m.cell[p].child ELSE After(m, w[i - 1])
  BY <1>5
<1> HIDE DEF Walk
<1>7. Other = {}
  <2> SUFFICES ASSUME Other # {} PROVE FALSE
    OBVIOUS
  <2>1. Other \in SUBSET Nat
    BY <1>2
  <2>2. PICK i \in Other : \A j \in Other : ~(j < i)
    BY <2>1, LeastNumber
  <2>3. i # 1 /\ i \in D
    BY <1>3, <1>6, <2>2
  <2>4. i - 1 \in D /\ i - 1 \notin Other
    BY <1>2, <2>2, <2>3
  <2>5. w[i - 1] = g[i - 1]
    BY <2>4
  <2> HIDE DEF g
  <2> QED
    BY <1>3, <1>6, <2>2, <2>3, <2>5
<1>8. \A i \in D : w[i] = g[i]
  BY <1>7
<1>9. {j \in D : w[j] \in Cell} = 1..Len(s)
  BY <1>2, <1>8, CJsonAssumption
<1>10. \A i \in 1..Len(s) : w[i] = s[i]
  BY <1>2, <1>8
<1>11. Kids(m, p) = [i \in 1..Len(s) |-> s[i]]
  BY <1>1, <1>6, <1>9, <1>10
<1> QED
  BY <1>2, <1>11

(* So the list that Kids reads is the list of p, with its items.           *)
LEMMA KidsIs ==
    ASSUME NEW m \in Memories, Linked(m), NEW p, Owner(m, p)
    PROVE  IsList(m, p, Kids(m, p))
BY ListExists, KidsAre

LEMMA ListItems ==
    ASSUME NEW m \in Memories, Linked(m), NEW p, Owner(m, p), NEW s, IsList(m, p, s)
    PROVE  ToSet(s) = Items(m, p)
<1>1. s \in Seq(Cell) /\ Len(s) \in Nat /\ ToSet(s) = {s[i] : i \in 1..Len(s)}
  BY DEF IsList, Starts, ToSet
<1>2. ToSet(s) \subseteq Items(m, p)
  BY <1>1, StartsInside DEF IsList
<1>3. ToSet(s) \in SUBSET Cell
  BY <1>1
<1>4. m.cell[p].child \in Cell => m.cell[p].child \in ToSet(s)
  BY <1>1, Typed DEF IsList, Starts
<1>5. ASSUME NEW i \in 1..Len(s), m.cell[s[i]].next \in Cell PROVE m.cell[s[i]].next \in ToSet(s)
  <2>1. i # Len(s)
    BY <1>1, <1>5, Typed DEF IsList
  <2>2. i \in 1..Len(s) - 1 /\ i + 1 \in 1..Len(s)
    BY <1>1, <2>1
  <2>3. m.cell[s[i]].next = s[i + 1]
    BY <2>2 DEF IsList, Starts
  <2> QED
    BY <1>1, <2>2, <2>3
<1>6. \A x \in ToSet(s) : m.cell[x].next \in Cell => m.cell[x].next \in ToSet(s)
  BY <1>1, <1>5
<1>7. Items(m, p) \subseteq ToSet(s)
  BY <1>3, <1>4, <1>6, ItemsLeast
<1> QED
  BY <1>2, <1>7

(* What the sequences of the community modules do, place by place.         *)
Inserted(s, s2, i, e) ==
    /\ s2 \in Seq(Cell) /\ Len(s2) = Len(s) + 1
    /\ \A j \in 1..Len(s) + 1 : s2[j] = IF j < i THEN s[j] ELSE IF j = i THEN e ELSE s[j - 1]

LEMMA InsertAtIs ==
    ASSUME NEW s \in Seq(Cell), NEW i \in 1..Len(s) + 1, NEW e \in Cell
    PROVE  Inserted(s, InsertAt(s, i, e), i, e)
<1> DEFINE a == SubSeq(s, 1, i - 1)
           b == SubSeq(s, i, Len(s))
<1>1. Len(s) \in Nat /\ i \in Int
  OBVIOUS
<1>2. a \in Seq(Cell) /\ Len(a) = i - 1 /\ \A j \in 1..i - 1 : a[j] = s[j]
  BY <1>1
<1>3. b \in Seq(Cell) /\ Len(b) = Len(s) - i + 1 /\ \A j \in 1..Len(s) - i + 1 : b[j] = s[i + j - 1]
  BY <1>1
<1> HIDE DEF a, b
<1> DEFINE c == a \o <<e>>
<1>4. c \in Seq(Cell) /\ Len(c) = i /\ \A j \in 1..i : c[j] = IF j < i THEN s[j] ELSE e
  BY <1>1, <1>2
<1> HIDE DEF c
<1>5. InsertAt(s, i, e) = c \o b
  BY DEF InsertAt, c, a, b
<1>6. c \o b \in Seq(Cell) /\ Len(c \o b) = Len(s) + 1
  <2>1. c \o b \in Seq(Cell) /\ Len(c \o b) = Len(c) + Len(b)
    BY <1>3, <1>4, ConcatProperties
  <2> QED
    BY <1>1, <1>3, <1>4, <2>1
<1>7. ASSUME NEW j \in 1..Len(s) + 1
      PROVE  (c \o b)[j] = IF j < i THEN s[j] ELSE IF j = i THEN e ELSE s[j - 1]
  <2>1. (c \o b)[j] = IF j <= i THEN c[j] ELSE b[j - i]
    BY <1>1, <1>3, <1>4
  <2>2. CASE j <= i
    BY <1>1, <1>4, <2>1, <2>2
  <2>3. CASE ~(j <= i)
    <3>1. j - i \in 1..Len(s) - i + 1 /\ i + (j - i) - 1 = j - 1 /\ ~(j < i) /\ j # i
      BY <1>1, <2>3
    <3>2. b[j - i] = s[i + (j - i) - 1]
      BY <1>3, <3>1
    <3> QED
      BY <2>1, <2>3, <3>1, <3>2
  <2> QED
    BY <2>2, <2>3
<1> QED
  BY <1>5, <1>6, <1>7 DEF Inserted

LEMMA RemoveAtIs ==
    ASSUME NEW S, NEW s \in Seq(S), NEW i \in 1..Len(s)
    PROVE  /\ RemoveAt(s, i) \in Seq(S) /\ Len(RemoveAt(s, i)) = Len(s) - 1
           /\ \A j \in 1..Len(s) - 1 : RemoveAt(s, i)[j] = IF j < i THEN s[j] ELSE s[j + 1]
<1> DEFINE a == SubSeq(s, 1, i - 1)
           b == SubSeq(s, i + 1, Len(s))
<1>1. Len(s) \in Nat /\ i \in Int
  OBVIOUS
<1>2. a \in Seq(S) /\ Len(a) = i - 1 /\ \A j \in 1..i - 1 : a[j] = s[j]
  BY <1>1
<1>3. b \in Seq(S) /\ Len(b) = Len(s) - i /\ \A j \in 1..Len(s) - i : b[j] = s[i + j]
  BY <1>1
<1> HIDE DEF a, b
<1>4. RemoveAt(s, i) = a \o b
  BY DEF RemoveAt, a, b
<1>5. a \o b \in Seq(S) /\ Len(a \o b) = Len(s) - 1
  <2>1. a \o b \in Seq(S) /\ Len(a \o b) = Len(a) + Len(b)
    BY <1>2, <1>3, ConcatProperties
  <2> QED
    BY <1>1, <1>2, <1>3, <2>1
<1>6. ASSUME NEW j \in 1..Len(s) - 1 PROVE (a \o b)[j] = IF j < i THEN s[j] ELSE s[j + 1]
  <2>1. (a \o b)[j] = IF j <= i - 1 THEN a[j] ELSE b[j - (i - 1)]
    BY <1>1, <1>2, <1>3
  <2>2. CASE j < i
    BY <1>1, <1>2, <2>1, <2>2
  <2>3. CASE ~(j < i)
    <3>1. j - (i - 1) \in 1..Len(s) - i /\ i + (j - (i - 1)) = j + 1 /\ ~(j <= i - 1)
      BY <1>1, <2>3
    <3>2. b[j - (i - 1)] = s[i + (j - (i - 1))]
      BY <1>3, <3>1
    <3> QED
      BY <2>1, <2>3, <3>1, <3>2
  <2> QED
    BY <2>2, <2>3
<1> QED
  BY <1>4, <1>5, <1>6

(* A list whose container and items know what they knew is the same.       *)
LEMMA KidsSame ==
    ASSUME NEW m \in Memories, Linked(m), NEW m2 \in Memories, Linked(m2), NEW q,
           Owner(m, q), Owner(m2, q), m2.cell[q].child = m.cell[q].child,
           \A x \in Items(m, q) : m2.cell[x].next = m.cell[x].next
    PROVE  Kids(m2, q) = Kids(m, q)
<1>1. PICK s : s = Kids(m, q)
  OBVIOUS
<1>2. IsList(m, q, s)
  BY <1>1, KidsIs
<1>3. s \in Seq(Cell) /\ \A i \in 1..Len(s) : m2.cell[s[i]].next = m.cell[s[i]].next
  BY <1>2, StartsInside DEF IsList, Starts
<1>4. IsList(m2, q, s)
  BY <1>2, <1>3 DEF IsList, Starts
<1> QED
  BY <1>1, <1>4, KidsAre

(* The places of a list, as the proofs about its links need them.          *)
Places(m, p, s, n) ==
    /\ m.cell[p].child = IF n = 0 THEN Null ELSE s[1]
    /\ \A i \in 1..n : /\ s[i] \in Items(m, p) /\ s[i] \in Cell
                       /\ m.cell[s[i]].next = IF i = n THEN Null ELSE s[i + 1]
                       /\ m.cell[s[i]].prev = IF i = 1 THEN Null ELSE s[i - 1]
                       /\ \A j \in 1..n : s[i] = s[j] => i = j
    /\ \A x \in Items(m, p) : \E i \in 1..n : s[i] = x

LEMMA PlacesAre ==
    ASSUME NEW m \in Memories, Linked(m), NEW p, Owner(m, p), NEW s, s = Kids(m, p)
    PROVE  Places(m, p, s, Len(s)) /\ s \in Seq(Cell) /\ Len(s) \in Nat
<1>1. IsList(m, p, s) /\ Starts(m, p, s)
  BY KidsIs DEF IsList
<1>2. s \in Seq(Cell) /\ Len(s) \in Nat
  BY <1>1 DEF Starts
<1>3. \A i \in 1..Len(s) : m.cell[s[i]].next = IF i = Len(s) THEN Null ELSE s[i + 1]
  BY <1>1, <1>2 DEF IsList, Starts
<1>4. m.cell[p].child = IF Len(s) = 0 THEN Null ELSE s[1]
  BY <1>1 DEF IsList, Starts
<1>5. \A x \in Items(m, p) : \E i \in 1..Len(s) : s[i] = x
  BY <1>1, <1>2, ListItems DEF ToSet
<1> QED
  BY <1>1, <1>2, <1>3, <1>4, <1>5, StartsInside, StartsPrev, StartsOnce DEF Places

LEMMA PlacesList ==
    ASSUME NEW m, NEW p, NEW s \in Seq(Cell),
           m.cell[p].child = IF Len(s) = 0 THEN Null ELSE s[1],
           \A i \in 1..Len(s) : m.cell[s[i]].next = IF i = Len(s) THEN Null ELSE s[i + 1]
    PROVE  IsList(m, p, s)
<1>1. Len(s) \in Nat
  OBVIOUS
<1> QED
  BY <1>1 DEF IsList, Starts

(* What the writes of cJSON_InsertItemInArray and its like do to the list  *)
(* that is read afterwards: one item more, ...                             *)
LEMMA JoinedKids ==
    ASSUME NEW m \in Memories, Sound(m), NEW p, Owner(m, p), NEW c, Root(m, c),
           NEW m2 \in Memories, Linked(m2), NEW after, Joined(m, m2, p, c, after)
    PROVE  \E i \in 1..Len(Kids(m, p)) + 1 : Kids(m2, p) = InsertAt(Kids(m, p), i, c)
<1>1. PICK s : s = Kids(m, p)
  OBVIOUS
<1>2. PICK n : n = Len(s)
  OBVIOUS
<1>3. Linked(m) /\ c \in Cell /\ c \notin Items(m, p) /\ p \in Cell /\ Owner(m2, p) /\ Null \notin Cell
  BY ItemsNoRoot, FlagsKeep, Typed DEF Sound, Root, Joined, Owner
<1>4. Places(m, p, s, n)
  BY <1>1, <1>2, <1>3, PlacesAre
<1>5. s \in Seq(Cell) /\ n \in Nat /\ Len(s) = n
  BY <1>1, <1>2, <1>3, PlacesAre
<1>6. \E i \in 1..n + 1 :
        /\ after = IF i = n + 1 THEN Null ELSE s[i]
        /\ m2.cell[p].child = IF i = 1 THEN c ELSE m.cell[p].child
        /\ i # 1 => m2.cell[s[i - 1]].next = c
        /\ \A j \in 1..n : j # i - 1 => m2.cell[s[j]].next = m.cell[s[j]].next
  <2>1. CASE /\ m.cell[p].child = after /\ m2.cell[p].child = c
             /\ NextBut(m, m2, {c}) /\ ChildBut(m, m2, {p})
    <3>1. \A j \in 1..n : m2.cell[s[j]].next = m.cell[s[j]].next
      BY <1>3, <1>4, <2>1 DEF Places, NextBut
    <3>2. after = IF 1 = n + 1 THEN Null ELSE s[1]
      BY <1>4, <1>5, <2>1 DEF Places
    <3>3. 1 \in 1..n + 1
      BY <1>5
    <3> QED
      BY <2>1, <3>1, <3>2, <3>3
  <2>2. CASE /\ \E b \in Items(m, p) : /\ m.cell[b].next = after /\ m2.cell[b].next = c
                                       /\ NextBut(m, m2, {b, c})
             /\ ChildBut(m, m2, {})
    <3>0. PICK b \in Items(m, p) : m.cell[b].next = after /\ m2.cell[b].next = c /\ NextBut(m, m2, {b, c})
      BY <2>2
    <3>1. PICK k \in 1..n : s[k] = b
      BY <1>4, <3>0 DEF Places
    <3>2. \A j \in 1..n : j # k => m2.cell[s[j]].next = m.cell[s[j]].next
      BY <1>3, <1>4, <3>0, <3>1 DEF Places, NextBut
    <3>3. after = IF k = n THEN Null ELSE s[k + 1]
      BY <1>4, <3>0, <3>1 DEF Places
    <3>4. k + 1 \in 1..n + 1 /\ k + 1 # 1 /\ (k + 1) - 1 = k /\ (k + 1 = n + 1 <=> k = n)
      BY <1>5
    <3>5. m2.cell[p].child = m.cell[p].child
      BY <1>3, <2>2 DEF ChildBut
    <3> QED
      BY <3>0, <3>1, <3>2, <3>3, <3>4, <3>5
  <2> QED
    BY <2>1, <2>2 DEF Joined
<1>7. PICK i \in 1..n + 1 :
        /\ after = IF i = n + 1 THEN Null ELSE s[i]
        /\ m2.cell[p].child = IF i = 1 THEN c ELSE m.cell[p].child
        /\ i # 1 => m2.cell[s[i - 1]].next = c
        /\ \A j \in 1..n : j # i - 1 => m2.cell[s[j]].next = m.cell[s[j]].next
  BY <1>6
<1>8. PICK s2 : s2 = InsertAt(s, i, c)
  OBVIOUS
<1>9. /\ s2 \in Seq(Cell) /\ Len(s2) = n + 1
      /\ \A j \in 1..n + 1 : s2[j] = IF j < i THEN s[j] ELSE IF j = i THEN c ELSE s[j - 1]
  <2>1. i \in 1..Len(s) + 1
    BY <1>5, <1>7
  <2>2. c \in Cell /\ s \in Seq(Cell)
    BY <1>3, <1>5
  <2>3. Inserted(s, s2, i, c)
    BY <1>8, <2>1, <2>2, InsertAtIs
  <2> QED
    BY <1>5, <2>3 DEF Inserted
<1>10. m2.cell[p].child = s2[1]
  BY <1>4, <1>5, <1>7, <1>9 DEF Places
<1>11. ASSUME NEW j \in 1..n + 1 PROVE m2.cell[s2[j]].next = IF j = n + 1 THEN Null ELSE s2[j + 1]
  <2>0. j \in Int /\ i \in Int /\ n \in Nat
    BY <1>5
  <2>1. CASE j < i - 1
    <3>1. j \in 1..n /\ j # i - 1 /\ j + 1 \in 1..n + 1 /\ j # n + 1 /\ j # n /\ j < i /\ j + 1 < i
      BY <2>0, <2>1
    <3> QED
      BY <1>4, <1>7, <1>9, <3>1 DEF Places
  <2>2. CASE j = i - 1
    <3>1. j \in 1..n /\ j + 1 \in 1..n + 1 /\ j # n + 1 /\ j < i /\ j + 1 = i /\ i # 1
      BY <2>0, <2>2
    <3> QED
      BY <1>7, <1>9, <2>2, <3>1
  <2>3. CASE j = i
    <3>1. s2[j] = c /\ m2.cell[c].next = after
      BY <1>9, <2>0, <2>3 DEF Joined
    <3>2. CASE i = n + 1
      BY <1>7, <2>3, <3>1, <3>2
    <3>3. CASE i # n + 1
      <4>1. j + 1 \in 1..n + 1 /\ ~(j + 1 < i) /\ j + 1 # i /\ (j + 1) - 1 = i
        BY <2>0, <2>3, <3>3
      <4> QED
        BY <1>7, <1>9, <2>3, <3>1, <3>3, <4>1
    <3> QED
      BY <3>2, <3>3
  <2>4. CASE j > i
    <3>1. j - 1 \in 1..n /\ j - 1 # i - 1 /\ ~(j < i) /\ j # i /\ (j - 1 = n <=> j = n + 1)
      BY <2>0, <2>4
    <3>2. s2[j] = s[j - 1] /\ m2.cell[s2[j]].next = IF j - 1 = n THEN Null ELSE s[(j - 1) + 1]
      BY <1>4, <1>7, <1>9, <3>1 DEF Places
    <3>3. CASE j = n + 1
      BY <3>1, <3>2, <3>3
    <3>4. CASE j # n + 1
      <4>1. j + 1 \in 1..n + 1 /\ ~(j + 1 < i) /\ j + 1 # i /\ (j + 1) - 1 = (j - 1) + 1
        BY <2>0, <2>4, <3>4
      <4> QED
        BY <1>9, <3>1, <3>2, <3>4, <4>1
    <3> QED
      BY <3>3, <3>4
  <2> QED
    BY <2>0, <2>1, <2>2, <2>3, <2>4
<1>12. IsList(m2, p, s2)
  BY <1>5, <1>9, <1>10, <1>11, PlacesList
<1> QED
  BY <1>1, <1>2, <1>3, <1>7, <1>8, <1>12, KidsAre

(* ... one less, ...                                                       *)
LEMMA TakenKids ==
    ASSUME NEW m \in Memories, Sound(m), NEW p, Owner(m, p), NEW c \in Items(m, p),
           NEW m2 \in Memories, Linked(m2), Taken(m, m2, p, c, m.cell[c].next)
    PROVE  \E i \in 1..Len(Kids(m, p)) : Kids(m, p)[i] = c /\ Kids(m2, p) = RemoveAt(Kids(m, p), i)
<1>1. PICK s : s = Kids(m, p)
  OBVIOUS
<1>2. PICK n : n = Len(s)
  OBVIOUS
<1>3. Linked(m) /\ c \in Cell /\ p \in Cell /\ Owner(m2, p) /\ Null \notin Cell
  BY InList, FlagsKeep, Typed DEF Sound, Taken, Owner
<1>4. Places(m, p, s, n)
  BY <1>1, <1>2, <1>3, PlacesAre
<1>5. s \in Seq(Cell) /\ n \in Nat /\ Len(s) = n
  BY <1>1, <1>2, <1>3, PlacesAre
<1>6. PICK i \in 1..n : s[i] = c
  BY <1>4 DEF Places
<1>7. /\ m.cell[c].next = IF i = n THEN Null ELSE s[i + 1]
      /\ m.cell[c].prev = IF i = 1 THEN Null ELSE s[i - 1]
      /\ m.cell[p].child = c <=> i = 1
  <2>1. m.cell[p].child = s[1] /\ 1 \in 1..n
    BY <1>4, <1>5 DEF Places
  <2> QED
    BY <1>4, <1>6, <2>1 DEF Places
<1>8. m2.cell[p].child = IF i = 1 THEN m.cell[c].next ELSE m.cell[p].child
  BY <1>3, <1>7 DEF Taken, ChildBut
<1>9. i # 1 => m2.cell[s[i - 1]].next = m.cell[c].next
  <2> SUFFICES ASSUME i # 1 PROVE m2.cell[s[i - 1]].next = m.cell[c].next
    OBVIOUS
  <2>1. i - 1 \in 1..n
    BY <1>5
  <2>2. m.cell[c].prev = s[i - 1] /\ s[i - 1] # Null
    BY <1>3, <1>4, <1>7, <2>1 DEF Places
  <2> QED
    BY <2>2 DEF Taken
<1>10. ASSUME NEW j \in 1..n, j # i, j # i - 1 PROVE m2.cell[s[j]].next = m.cell[s[j]].next
  <2>1. s[j] # c /\ s[j] \in Cell /\ s[j] # Null
    BY <1>3, <1>4, <1>6, <1>10 DEF Places
  <2>2. s[j] # m.cell[c].prev
    <3>1. CASE i = 1
      BY <1>7, <2>1, <3>1
    <3>2. CASE i # 1
      <4>1. i - 1 \in 1..n
        BY <1>5, <3>2
      <4> QED
        BY <1>4, <1>7, <1>10, <3>2, <4>1 DEF Places
    <3> QED
      BY <3>1, <3>2
  <2>3. CASE s[j] = m.cell[c].next
    <3>1. ~Root(m, s[j])
      BY <1>3, <1>4, ItemsNoRoot DEF Places
    <3> QED
      BY <2>1, <2>3, <3>1 DEF Taken
  <2>4. CASE s[j] # m.cell[c].next
    BY <2>1, <2>2, <2>4 DEF Taken, NextBut
  <2> QED
    BY <2>3, <2>4
<1>11. PICK s2 : s2 = RemoveAt(s, i)
  OBVIOUS
<1>12. /\ s2 \in Seq(Cell) /\ Len(s2) = n - 1
       /\ \A j \in 1..n - 1 : s2[j] = IF j < i THEN s[j] ELSE s[j + 1]
  BY <1>5, <1>6, <1>11, RemoveAtIs
<1>13. m2.cell[p].child = IF n - 1 = 0 THEN Null ELSE s2[1]
  BY <1>4, <1>5, <1>6, <1>7, <1>8, <1>12 DEF Places
<1>14. ASSUME NEW j \in 1..n - 1 PROVE m2.cell[s2[j]].next = IF j = n - 1 THEN Null ELSE s2[j + 1]
  <2>0. j \in Int /\ i \in Int /\ n \in Nat
    BY <1>5
  <2>1. CASE j < i - 1
    <3>1. j \in 1..n /\ j # i /\ j # i - 1 /\ j + 1 \in 1..n - 1 /\ j # n - 1 /\ j # n /\ j < i /\ j + 1 < i
      BY <2>0, <2>1
    <3>2. s2[j] = s[j] /\ s2[j + 1] = s[j + 1] /\ m.cell[s[j]].next = s[j + 1]
      BY <1>4, <1>12, <3>1 DEF Places
    <3> QED
      BY <1>10, <3>1, <3>2
  <2>2. CASE j = i - 1
    <3>1. j < i /\ i # 1 /\ j = i - 1 /\ (j = n - 1 <=> i = n)
      BY <2>0, <2>2
    <3>2. s2[j] = s[i - 1] /\ m2.cell[s2[j]].next = m.cell[c].next
      BY <1>9, <1>12, <3>1
    <3>3. CASE j # n - 1
      <4>1. j + 1 \in 1..n - 1 /\ ~(j + 1 < i) /\ (j + 1) + 1 = i + 1
        BY <2>0, <2>2, <3>3
      <4> QED
        BY <1>7, <1>12, <3>1, <3>2, <3>3, <4>1
    <3> QED
      BY <1>7, <3>1, <3>2, <3>3
  <2>3. CASE j >= i
    <3>1. j + 1 \in 1..n /\ j + 1 # i /\ j + 1 # i - 1 /\ ~(j < i) /\ (j + 1 = n <=> j = n - 1)
      BY <2>0, <2>3
    <3>2. s2[j] = s[j + 1] /\ m2.cell[s2[j]].next = IF j + 1 = n THEN Null ELSE s[(j + 1) + 1]
      BY <1>4, <1>10, <1>12, <3>1 DEF Places
    <3>3. CASE j # n - 1
      <4>1. j + 1 \in 1..n - 1 /\ ~(j + 1 < i)
        BY <2>0, <2>3, <3>3
      <4> QED
        BY <1>12, <3>1, <3>2, <3>3, <4>1
    <3> QED
      BY <3>1, <3>2, <3>3
  <2> QED
    BY <2>0, <2>1, <2>2, <2>3
<1>15. IsList(m2, p, s2)
  BY <1>12, <1>13, <1>14, PlacesList
<1> QED
  BY <1>1, <1>2, <1>3, <1>6, <1>11, <1>15, KidsAre

(* ... or another one in its place.                                        *)
LEMMA ExchangedKids ==
    ASSUME NEW m \in Memories, Sound(m), NEW p, Owner(m, p), NEW c \in Items(m, p),
           NEW r, Root(m, r), NEW m2 \in Memories, Linked(m2), Taken(m, m2, p, c, r)
    PROVE  \E i \in 1..Len(Kids(m, p)) : Kids(m, p)[i] = c /\ Kids(m2, p) = ReplaceAt(Kids(m, p), i, r)
<1>1. PICK s : s = Kids(m, p)
  OBVIOUS
<1>2. PICK n : n = Len(s)
  OBVIOUS
<1>3. /\ Linked(m) /\ c \in Cell /\ p \in Cell /\ Owner(m2, p) /\ Null \notin Cell
      /\ r \in Cell /\ r \notin Items(m, p) /\ r # Null
  BY InList, FlagsKeep, ItemsNoRoot, Typed DEF Sound, Taken, Owner, Root
<1>4. Places(m, p, s, n)
  BY <1>1, <1>2, <1>3, PlacesAre
<1>5. s \in Seq(Cell) /\ n \in Nat /\ Len(s) = n
  BY <1>1, <1>2, <1>3, PlacesAre
<1>6. PICK i \in 1..n : s[i] = c
  BY <1>4 DEF Places
<1>7. /\ m.cell[c].next = IF i = n THEN Null ELSE s[i + 1]
      /\ m.cell[c].prev = IF i = 1 THEN Null ELSE s[i - 1]
      /\ m.cell[p].child = c <=> i = 1
  <2>1. m.cell[p].child = s[1] /\ 1 \in 1..n
    BY <1>4, <1>5 DEF Places
  <2> QED
    BY <1>4, <1>6, <2>1 DEF Places
<1>8. m2.cell[p].child = IF i = 1 THEN r ELSE m.cell[p].child
  BY <1>3, <1>7 DEF Taken, ChildBut
<1>9. i # 1 => m2.cell[s[i - 1]].next = r
  <2> SUFFICES ASSUME i # 1 PROVE m2.cell[s[i - 1]].next = r
    OBVIOUS
  <2>1. i - 1 \in 1..n
    BY <1>5
  <2>2. m.cell[c].prev = s[i - 1] /\ s[i - 1] # Null
    BY <1>3, <1>4, <1>7, <2>1 DEF Places
  <2> QED
    BY <2>2 DEF Taken
<1>10. ASSUME NEW j \in 1..n, j # i, j # i - 1 PROVE m2.cell[s[j]].next = m.cell[s[j]].next
  <2>1. s[j] # c /\ s[j] \in Cell /\ s[j] # Null /\ s[j] # r
    BY <1>3, <1>4, <1>6, <1>10 DEF Places
  <2>2. s[j] # m.cell[c].prev
    <3>1. CASE i = 1
      BY <1>7, <2>1, <3>1
    <3>2. CASE i # 1
      <4>1. i - 1 \in 1..n
        BY <1>5, <3>2
      <4> QED
        BY <1>4, <1>7, <1>10, <3>2, <4>1 DEF Places
    <3> QED
      BY <3>1, <3>2
  <2> QED
    BY <2>1, <2>2 DEF Taken, NextBut
<1>11. m2.cell[r].next = m.cell[c].next
  <2>1. r # m.cell[c].next
    BY <1>3, ItemsFacts
  <2> QED
    BY <2>1 DEF Taken
<1>12. PICK s2 : s2 = ReplaceAt(s, i, r)
  OBVIOUS
<1>13. /\ s2 \in Seq(Cell) /\ Len(s2) = n
       /\ \A j \in 1..n : s2[j] = IF j = i THEN r ELSE s[j]
  BY <1>3, <1>5, <1>6, <1>12 DEF ReplaceAt
<1>14. m2.cell[p].child = IF n = 0 THEN Null ELSE s2[1]
  BY <1>4, <1>5, <1>6, <1>8, <1>13 DEF Places
<1>15. ASSUME NEW j \in 1..n PROVE m2.cell[s2[j]].next = IF j = n THEN Null ELSE s2[j + 1]
  <2>0. j \in Int /\ i \in Int /\ n \in Nat
    BY <1>5
  <2>1. CASE j = i
    <3>1. m2.cell[s2[j]].next = IF i = n THEN Null ELSE s[i + 1]
      BY <1>7, <1>11, <1>13, <2>1
    <3>2. j # n => j + 1 \in 1..n /\ j + 1 # i
      BY <2>0, <2>1
    <3> QED
      BY <1>13, <2>1, <3>1, <3>2
  <2>2. CASE j = i - 1
    <3>1. j # n /\ j # i /\ j + 1 = i /\ j + 1 \in 1..n /\ i # 1
      BY <2>0, <2>2
    <3> QED
      BY <1>9, <1>13, <2>2, <3>1
  <2>3. CASE j # i /\ j # i - 1
    <3>1. j # n => j + 1 \in 1..n /\ j + 1 # i
      BY <2>0, <2>3
    <3>2. s2[j] = s[j] /\ m2.cell[s[j]].next = IF j = n THEN Null ELSE s[j + 1]
      BY <1>4, <1>10, <1>13, <2>3 DEF Places
    <3> QED
      BY <1>13, <3>1, <3>2
  <2> QED
    BY <2>1, <2>2, <2>3
<1>16. IsList(m2, p, s2)
  BY <1>13, <1>14, <1>15, PlacesList
<1> QED
  BY <1>1, <1>2, <1>3, <1>6, <1>12, <1>16, KidsAre

(* The instance has its own names for what sequences can do.               *)
LEMMA OwnSequences ==
    /\ \A s : Forest!ToSet(s) = ToSet(s) /\ (Forest!IsInjective(s) <=> IsInjective(s))
    /\ \A s, i : Forest!RemoveAt(s, i) = RemoveAt(s, i)
    /\ \A s, i, e : Forest!InsertAt(s, i, e) = InsertAt(s, i, e)
    /\ \A s, i, e : Forest!ReplaceAt(s, i, e) = ReplaceAt(s, i, e)
BY DEF Forest!ToSet, ToSet, Forest!IsInjective, IsInjective, Forest!RemoveAt, RemoveAt,
       Forest!InsertAt, InsertAt, Forest!ReplaceAt, ReplaceAt

(* The items below c.                                                      *)
Children(m) == [c \in Cell |-> IF Owner(m, c) THEN Items(m, c) ELSE {}]

(* A list of the forest has the items of its container, each once.         *)
LEMMA ListsAre ==
    ASSUME NEW m \in Memories, Linked(m), NEW q \in Cell
    PROVE  /\ Owner(m, q) => Lists(m)[q] = Kids(m, q)
           /\ ~Owner(m, q) => Lists(m)[q] = <<>>
           /\ Lists(m)[q] \in Seq(Cell) /\ IsInjective(Lists(m)[q])
           /\ ToSet(Lists(m)[q]) = Children(m)[q]
<1>1. CASE Owner(m, q)
  <2>1. PICK s : s = Kids(m, q)
    OBVIOUS
  <2>2. IsList(m, q, s) /\ Starts(m, q, s)
    BY <1>1, <2>1, KidsIs DEF IsList
  <2>3. s \in Seq(Cell) /\ DOMAIN s = 1..Len(s)
    BY <2>2 DEF Starts
  <2>4. IsInjective(s)
    BY <1>1, <2>2, <2>3, StartsOnce DEF IsInjective
  <2>5. ToSet(s) = Items(m, q)
    BY <1>1, <2>2, ListItems
  <2>6. Lists(m)[q] = s
    BY <1>1, <2>1 DEF Lists
  <2> QED
    BY <1>1, <2>1, <2>3, <2>4, <2>5, <2>6 DEF Children
<1>2. CASE ~Owner(m, q)
  <2>1. Lists(m)[q] = <<>>
    BY <1>2 DEF Lists
  <2>2. <<>> \in Seq(Cell) /\ IsInjective(<<>>) /\ ToSet(<<>>) = {}
    BY DEF IsInjective, ToSet
  <2> QED
    BY <1>2, <2>1, <2>2 DEF Children
<1> QED
  BY <1>1, <1>2

LEMMA ChildrenType ==
    ASSUME NEW m \in Memories, Linked(m)
    PROVE  Children(m) \in [Cell -> SUBSET Cell]
BY ItemsFacts, Typed DEF Children

(* Trees are made of containers and their items.                           *)
LEMMA TreeIs ==
    ASSUME NEW m \in Memories, Linked(m), NEW S
    PROVE  Forest!Tree(Lists(m), S) = Reach(Children(m), S)
<1>1. \A q \in Cell : ToSet(Lists(m)[q]) = Children(m)[q]
  BY ListsAre
<1> HIDE DEF Lists
<1>2. \A T \in SUBSET Cell :
        (\A d \in T : ToSet(Lists(m)[d]) \subseteq T) <=> (\A d \in T : Children(m)[d] \subseteq T)
  BY <1>1
<1> QED
  BY <1>2, OwnSequences DEF Forest!Tree, Reach

(* What is below a root is what cJSON_Delete goes through.                 *)
LEMMA TreeSwept ==
    ASSUME NEW m \in Memories, Sound(m), NEW c, Root(m, c)
    PROVE  Forest!Tree(Lists(m), {c}) = Swept(m, {c})
<1> DEFINE T == Reach(Children(m), {c})
           S == Swept(m, {c})
<1>1. Linked(m) /\ c \in Live(m) /\ c \in Cell /\ Live(m) \subseteq Cell /\ m.cell[c].next = Null
  BY Typed DEF Sound, Root
<1>2. S \subseteq Live(m) /\ c \in S /\ Closed(m, S)
  BY <1>1, SweptIs
<1>3. ASSUME NEW d \in S PROVE Children(m)[d] \subseteq S
  <2>1. CASE Owner(m, d)
    <3>1. m.cell[d].child \in Cell => m.cell[d].child \in S
      BY <1>2, <2>1, Typed DEF Closed
    <3>2. \A x \in S : m.cell[x].next \in Cell => m.cell[x].next \in S
      BY <1>2, Typed DEF Closed
    <3>3. S \in SUBSET Cell
      BY <1>1, <1>2
    <3> HIDE DEF S
    <3>4. Items(m, d) \subseteq S
      BY <3>1, <3>2, <3>3, ItemsLeast
    <3> QED
      BY <1>1, <1>2, <2>1, <3>4 DEF Children
  <2>2. CASE ~Owner(m, d)
    BY <1>1, <1>2, <2>2 DEF Children
  <2> QED
    BY <2>1, <2>2
<1>4. T \subseteq S
  <2>1. S \in SUBSET Cell /\ {c} \subseteq S
    BY <1>1, <1>2
  <2> HIDE DEF S
  <2> QED
    BY <1>3, <2>1, ReachLeast
<1>5. /\ T \subseteq Cell /\ c \in T /\ \A d \in T : Children(m)[d] \subseteq T
      /\ \A x \in T : x # c => \E d \in T : x \in Children(m)[d]
  BY <1>1, ChildrenType, ReachClosed, ReachFrom
<1>6. T \subseteq Live(m)
  BY <1>2, <1>4
<1> HIDE DEF T
<1>7. ASSUME NEW x \in T, m.cell[x].next # Null PROVE m.cell[x].next \in T
  <2>1. PICK d \in T : x \in Children(m)[d]
    BY <1>1, <1>5, <1>7
  <2>2. Owner(m, d) /\ x \in Items(m, d) /\ Children(m)[d] = Items(m, d)
    BY <1>5, <2>1 DEF Children
  <2>3. m.cell[x].next \in Items(m, d)
    BY <1>1, <1>7, <2>2, ItemsFacts
  <2> QED
    BY <1>5, <2>2, <2>3
<1>8. ASSUME NEW x \in T, Owner(m, x), m.cell[x].child # Null PROVE m.cell[x].child \in T
  <2>1. m.cell[x].child \in Items(m, x) /\ Children(m)[x] = Items(m, x)
    BY <1>1, <1>5, <1>8, ItemsFacts DEF Children
  <2> QED
    BY <1>5, <2>1
<1>9. Closed(m, T)
  BY <1>7, <1>8 DEF Closed
<1>10. S \subseteq T
  <2>1. T \in SUBSET Live(m) /\ {c} \subseteq T
    BY <1>5, <1>6
  <2> QED
    BY <1>9, <2>1, SweptLeast
<1>11. Forest!Tree(Lists(m), {c}) = T
  BY <1>1, TreeIs DEF T
<1> QED
  BY <1>4, <1>10, <1>11

(* An item the client may add, replace or delete is a root.                *)
LEMMA RootIs ==
    ASSUME NEW m \in Memories, Sound(m), NEW c, Root(m, c)
    PROVE  Forest!Root(Live(m), Lists(m), c)
<1>1. Linked(m) /\ c \in Live(m) /\ Live(m) \subseteq Cell
  BY Typed DEF Sound, Root
<1>2. ASSUME NEW q \in Live(m) PROVE c \notin ToSet(Lists(m)[q])
  <2>1. ToSet(Lists(m)[q]) = Children(m)[q]
    BY <1>1, ListsAre
  <2> QED
    BY <1>1, <2>1, ItemsNoRoot DEF Children
<1> QED
  BY <1>1, <1>2, OwnSequences DEF Forest!Root

(* What may be added to p fits there.                                      *)
LEMMA FitsIs ==
    ASSUME NEW m \in Memories, Sound(m), NEW c, Root(m, c), NEW p, p \notin Swept(m, {c})
    PROVE  Forest!Fits(Live(m), Lists(m), p, c)
BY RootIs, TreeSwept DEF Forest!Fits

(* No item is below itself: what is below an owner would have no way in    *)
(* from the items that the client holds.                                   *)
LEMMA NoCycle ==
    ASSUME NEW m, NEW H, NEW O, Whole(m, H, O), NEW p, Owner(m, p)
    PROVE  p \notin Reach(Children(m), Items(m, p))
<1> DEFINE X == Reach(Children(m), Items(m, p))
           T == Swept(m, H) \ X
<1> SUFFICES ASSUME p \in X PROVE FALSE
  OBVIOUS
<1>1. /\ m \in Memories /\ Sound(m) /\ Linked(m) /\ H \in SUBSET Live(m) /\ \A h \in H : Root(m, h)
      /\ Live(m) \subseteq Cell /\ p \in Live(m)
  BY Typed DEF Whole, Sound, Owner
<1>2. Items(m, p) \in SUBSET Cell /\ Items(m, p) = Children(m)[p]
  BY <1>1, ItemsFacts DEF Children
<1>3. /\ X \subseteq Cell /\ \A d \in X : Children(m)[d] \subseteq X
      /\ \A x \in X : x \notin Items(m, p) => \E d \in X : x \in Children(m)[d]
  BY <1>1, <1>2, ChildrenType, ReachClosed, ReachFrom
<1> HIDE DEF X
<1>4. ASSUME NEW x \in X
      PROVE  \E d \in X : Owner(m, d) /\ x \in Items(m, d) /\ Items(m, d) \subseteq X
  <2>1. PICK d \in X : x \in Children(m)[d]
    BY <1>2, <1>3, <1>4
  <2> QED
    BY <1>3, <2>1 DEF Children
<1>5. H \cap X = {}
  BY <1>1, <1>4, ItemsNoRoot
<1>6. Swept(m, H) \subseteq Live(m) /\ H \subseteq Swept(m, H) /\ Closed(m, Swept(m, H))
  BY <1>1, SweptIs
<1>7. ASSUME NEW d \in T, m.cell[d].next # Null PROVE m.cell[d].next \in T
  <2>1. d \in Live(m) /\ d \notin X /\ m.cell[d].next \in Swept(m, H)
    BY <1>6, <1>7 DEF Closed
  <2>2. ASSUME m.cell[d].next \in X PROVE FALSE
    <3>1. PICK q \in X : Owner(m, q) /\ m.cell[d].next \in Items(m, q) /\ Items(m, q) \subseteq X
      BY <1>4, <2>2
    <3>2. d \in Items(m, q)
      BY <1>1, <2>1, <3>1, Incoming
    <3> QED
      BY <2>1, <3>1, <3>2
  <2> QED
    BY <2>1, <2>2
<1>8. ASSUME NEW d \in T, Owner(m, d), m.cell[d].child # Null PROVE m.cell[d].child \in T
  <2>1. d \in Live(m) /\ d \notin X /\ m.cell[d].child \in Swept(m, H)
    BY <1>6, <1>8 DEF Closed
  <2>2. ASSUME m.cell[d].child \in X PROVE FALSE
    <3>1. PICK q \in X : Owner(m, q) /\ m.cell[d].child \in Items(m, q) /\ Items(m, q) \subseteq X
      BY <1>4, <2>2
    <3>2. d = q
      BY <1>1, <1>8, <2>1, <3>1, Incoming
    <3> QED
      BY <2>1, <3>2
  <2> QED
    BY <2>1, <2>2
<1>9. Closed(m, T)
  BY <1>7, <1>8 DEF Closed
<1>10. T \in SUBSET Live(m) /\ H \subseteq T /\ p \notin T
  BY <1>5, <1>6
<1> HIDE DEF T
<1>11. Swept(m, H) \subseteq T
  BY <1>1, <1>9, <1>10, SweptLeast
<1> QED
  BY <1>10, <1>11, OwnerSwept

(* A memory that is whole is a forest: no item is in two lists, none twice *)
(* in one, and none below itself.                                          *)
LEMMA ForestIs ==
    ASSUME NEW m, NEW H, NEW O, Whole(m, H, O)
    PROVE  Forest!IsForest(Live(m), Lists(m))
<1>1. m \in Memories /\ Sound(m) /\ Linked(m) /\ Live(m) \subseteq Cell
  BY Typed DEF Whole, Sound
<1>2. \A p \in Cell : ToSet(Lists(m)[p]) = Children(m)[p] /\ IsInjective(Lists(m)[p])
  BY <1>1, ListsAre
<1>3. ASSUME NEW p \in Live(m)
      PROVE  /\ Children(m)[p] \subseteq Live(m) /\ p \notin Reach(Children(m), Children(m)[p])
             /\ \A q \in Live(m) : p # q => Children(m)[p] \cap Children(m)[q] = {}
  <2>1. CASE Owner(m, p)
    <3>1. Children(m)[p] = Items(m, p)
      BY <1>1, <2>1 DEF Children
    <3> QED
      BY <1>1, <2>1, <3>1, ItemsFacts, NoCycle, ListsApart DEF Children
  <2>2. CASE ~Owner(m, p)
    <3>1. Children(m)[p] = {}
      BY <1>1, <2>2 DEF Children
    <3>2. Reach(Children(m), {}) \subseteq {}
      BY ReachLeast
    <3> QED
      BY <3>1, <3>2
  <2> QED
    BY <2>1, <2>2
<1>4. \A p \in Live(m) : Forest!Tree(Lists(m), ToSet(Lists(m)[p])) = Reach(Children(m), Children(m)[p])
  BY <1>1, <1>2, TreeIs
<1> QED
  BY <1>1, <1>2, <1>3, <1>4, OwnSequences DEF Forest!IsForest

-----------------------------------------------------------------------------
(* Nothing but names, texts and flags of names changes.                    *)
LEMMA SameForest ==
    ASSUME NEW m \in Memories, Linked(m), NEW m2 \in Memories, Linked(m2), Stays(m, m2),
           Live(m2) = Live(m)
    PROVE  Lists(m2) = Lists(m)
<1>1. ASSUME NEW q \in Cell PROVE Lists(m2)[q] = Lists(m)[q]
  <2>1. CASE Owner(m, q)
    <3>1. q \in Live(m) /\ Owner(m2, q) /\ m2.cell[q].child = m.cell[q].child
      BY <2>1 DEF Owner, Stays, SameLinks
    <3>2. \A x \in Items(m, q) : m2.cell[x].next = m.cell[x].next
      BY <2>1, ItemsFacts DEF Stays, SameLinks
    <3> QED
      BY <2>1, <3>1, <3>2, KidsSame, ListsAre
  <2>2. CASE ~Owner(m, q)
    <3>1. ~Owner(m2, q)
      BY <2>2 DEF Owner, Stays
    <3> QED
      BY <2>2, <3>1, ListsAre
  <2> QED
    BY <2>1, <2>2
<1> QED
  BY <1>1 DEF Lists

(* New trees among the old ones.                                           *)
LEMMA GrownForest ==
    ASSUME NEW m \in Memories, Linked(m), NEW m2, NEW H, NEW O, Whole(m2, H, O), Stays(m, m2),
           Closed(m2, Live(m2) \ Live(m))
    PROVE  Forest!Grow(Live(m), Lists(m), Live(m2), Lists(m2))
<1>1. /\ m2 \in Memories /\ Linked(m2) /\ Live(m) \subseteq Live(m2) /\ Live(m2) \subseteq Cell
      /\ Live(m) \subseteq Cell /\ Null \notin Cell
  BY Typed DEF Whole, Sound, Stays
<1>2. ASSUME NEW q \in Live(m) PROVE Lists(m2)[q] = Lists(m)[q]
  <2>1. q \in Cell /\ m2.cell[q].child = m.cell[q].child /\ (Owner(m2, q) <=> Owner(m, q))
    BY <1>1 DEF Stays, SameLinks
  <2>2. CASE Owner(m, q)
    <3>1. \A x \in Items(m, q) : m2.cell[x].next = m.cell[x].next
      BY <2>2, ItemsFacts DEF Stays, SameLinks
    <3> QED
      BY <1>1, <2>1, <2>2, <3>1, KidsSame, ListsAre
  <2>3. CASE ~Owner(m, q)
    BY <1>1, <2>1, <2>3, ListsAre
  <2> QED
    BY <2>2, <2>3
<1>3. ASSUME NEW q \in Live(m2) \ Live(m) PROVE ToSet(Lists(m2)[q]) \cap Live(m) = {}
  <2> DEFINE N == Live(m2) \ Live(m)
  <2>1. ToSet(Lists(m2)[q]) = Children(m2)[q]
    BY <1>1, ListsAre
  <2>2. CASE Owner(m2, q)
    <3>1. N \in SUBSET Cell
      BY <1>1
    <3>2. m2.cell[q].child \in Cell => m2.cell[q].child \in N
      BY <1>1, <2>2 DEF Closed
    <3>3. \A x \in N : m2.cell[x].next \in Cell => m2.cell[x].next \in N
      BY <1>1 DEF Closed
    <3> HIDE DEF N
    <3>4. Items(m2, q) \subseteq N
      BY <1>1, <3>1, <3>2, <3>3, ItemsLeast
    <3> QED
      BY <1>1, <2>1, <2>2, <3>4 DEF N, Children
  <2>3. CASE ~Owner(m2, q)
    BY <1>1, <2>1, <2>3 DEF Children
  <2> QED
    BY <2>2, <2>3
<1>4. Forest!IsForest(Live(m2), Lists(m2))
  BY ForestIs
<1> QED
  BY <1>1, <1>2, <1>3, <1>4, OwnSequences DEF Forest!Grow

(* A root goes with its tree.                                              *)
LEMMA DeletedForest ==
    ASSUME NEW m \in Memories, Sound(m), NEW c, Root(m, c), NEW m2, m2 = Delete(m, c)
    PROVE  Forest!Drop(Live(m), Lists(m), Live(m2), Lists(m2), c)
<1> DEFINE S == Swept(m, {c})
<1>1. Cleared(m, m2, c)
  BY DeleteKeeps
<1>2. m2 \in Memories /\ Linked(m2) /\ Live(m2) = Live(m) \ S
  BY <1>1 DEF Cleared, Sound
<1>3. /\ Linked(m) /\ OneOwner(m) /\ Live(m) \subseteq Cell /\ c \in Cell /\ Null \notin Cell /\ Wild \notin Cell
      /\ S \subseteq Live(m)
  BY Typed, SweptFacts DEF Sound, Root
<1>4. \A x \in Live(m) \ S : /\ m.cell[x].next \notin S
                             /\ Owner(m, x) => m.cell[x].child \notin S
  BY <1>3, SweptFacts
<1>5. \A x \in Cell \ S : /\ SameFlags(m, m2, x)
                          /\ m.cell[x].next \notin S => m2.cell[x].next = m.cell[x].next
                          /\ m.cell[x].child \notin S => m2.cell[x].child = m.cell[x].child
  BY <1>3, DeleteView
<1> HIDE DEF S
<1>6. ASSUME NEW q \in Cell PROVE Lists(m2)[q] = IF q \in S THEN <<>> ELSE Lists(m)[q]
  <2>1. Owner(m2, q) <=> q \notin S /\ Owner(m, q)
    BY <1>2, <1>5 DEF Owner, SameFlags
  <2>2. CASE Owner(m2, q)
    <3> DEFINE T == Live(m) \ S
    <3>1. T \in SUBSET Cell /\ q \in T /\ Owner(m, q)
      BY <1>3, <2>1, <2>2 DEF Owner
    <3>2. m.cell[q].child \in Cell => m.cell[q].child \in T
      BY <1>3, <1>4, <3>1 DEF Linked, Owner
    <3>3. \A x \in T : m.cell[x].next \in Cell => m.cell[x].next \in T
      BY <1>3, <1>4 DEF Linked
    <3>4. m2.cell[q].child = m.cell[q].child /\ \A x \in T : m2.cell[x].next = m.cell[x].next
      BY <1>3, <1>4, <1>5, <3>1
    <3> HIDE DEF T
    <3>5. Items(m, q) \subseteq T
      BY <3>1, <3>2, <3>3, ItemsLeast
    <3>6. Kids(m2, q) = Kids(m, q)
      BY <1>2, <1>3, <2>2, <3>1, <3>4, <3>5, KidsSame
    <3> QED
      BY <1>2, <1>3, <2>1, <2>2, <3>1, <3>6, ListsAre
  <2>3. CASE ~Owner(m2, q)
    BY <1>2, <1>3, <2>1, <2>3, ListsAre
  <2> QED
    BY <2>2, <2>3
<1>7. Lists(m2) = [d \in Cell |-> IF d \in S THEN <<>> ELSE Lists(m)[d]]
  BY <1>6 DEF Lists
<1>8. Forest!Tree(Lists(m), {c}) = S
  BY TreeSwept DEF S
<1> HIDE DEF Lists
<1> QED
  BY <1>2, <1>7, <1>8 DEF Forest!Drop

(* Only the list of p changes.                                             *)
Elsewhere(m, m2, p) == \A q \in Cell \ {p} : Lists(m2)[q] = Lists(m)[q]

(* A call that links one list anew changes no other.                       *)
LEMMA OtherLists ==
    ASSUME NEW m \in Memories, Sound(m), NEW m2 \in Memories, Linked(m2), Rewired(m, m2),
           NEW p, Owner(m, p), ChildBut(m, m2, {p}),
           \A x \in Live(m) : ~Root(m, x) /\ x \notin Items(m, p) => m2.cell[x].next = m.cell[x].next
    PROVE  Elsewhere(m, m2, p)
<1>1. Linked(m) /\ Live(m) \subseteq Cell
  BY Typed DEF Sound
<1> SUFFICES ASSUME NEW q \in Cell \ {p} PROVE Lists(m2)[q] = Lists(m)[q]
  BY DEF Elsewhere
<1>2. Owner(m2, q) <=> Owner(m, q)
  BY FlagsKeep
<1>3. CASE Owner(m, q)
  <2>1. Items(m, q) \cap Items(m, p) = {} /\ Items(m, q) \subseteq Live(m)
    BY <1>1, <1>3, ListsApart, ItemsFacts
  <2>2. \A x \in Items(m, q) : m2.cell[x].next = m.cell[x].next
    BY <1>1, <1>3, <2>1, ItemsNoRoot
  <2>3. m2.cell[q].child = m.cell[q].child
    BY DEF ChildBut
  <2> QED
    BY <1>1, <1>2, <1>3, <2>2, <2>3, KidsSame, ListsAre
<1>4. CASE ~Owner(m, q)
  BY <1>1, <1>2, <1>4, ListsAre
<1> QED
  BY <1>3, <1>4

LEMMA Instead ==
    ASSUME NEW m, NEW m2, NEW p \in Cell, NEW s, Elsewhere(m, m2, p), Lists(m2)[p] = s
    PROVE  Lists(m2) = [Lists(m) EXCEPT ![p] = s]
BY DEF Elsewhere, Lists

(* An item gets into the list of p.                                        *)
LEMMA JoinedForest ==
    ASSUME NEW m \in Memories, Sound(m), NEW p, Owner(m, p), NEW c, Root(m, c),
           NEW m2 \in Memories, Linked(m2), NEW after, Joined(m, m2, p, c, after),
           NEW a, Live(m) = a \cup {c}, Forest!Fits(a, Lists(m), p, c) \/ c \notin a
    PROVE  Forest!Put(a, Lists(m), Live(m2), Lists(m2), p)
<1>1. /\ Linked(m) /\ p \in Cell /\ c \in Cell /\ c \notin Items(m, p) /\ Rewired(m, m2) /\ Owner(m2, p)
      /\ Live(m) \subseteq Cell /\ Live(m2) = Live(m) /\ Null \notin Cell
  BY Typed, ItemsNoRoot, FlagsKeep DEF Sound, Root, Owner, Joined
<1>2. Elsewhere(m, m2, p)
  <2>1. ChildBut(m, m2, {p})
    BY DEF Joined, ChildBut
  <2>2. ASSUME NEW x \in Live(m), ~Root(m, x), x \notin Items(m, p)
        PROVE  m2.cell[x].next = m.cell[x].next
    BY <1>1, <2>2 DEF Joined, NextBut
  <2> QED
    BY <1>1, <2>1, <2>2, OtherLists
<1>3. PICK s : s = Lists(m)[p] /\ s = Kids(m, p)
  BY <1>1, ListsAre
<1>4. PICK i \in 1..Len(s) + 1 : Kids(m2, p) = InsertAt(s, i, c)
  BY <1>1, <1>3, JoinedKids
<1>5. PICK s2 : s2 = InsertAt(s, i, c) /\ s2 = Lists(m2)[p]
  BY <1>1, <1>4, ListsAre
<1>6. Lists(m2) = [Lists(m) EXCEPT ![p] = InsertAt(s, i, c)]
  BY <1>1, <1>2, <1>5, Instead
<1>7. s \in Seq(Cell) /\ ToSet(s) = Items(m, p)
  BY <1>1, <1>3, ListsAre DEF Children
<1>8. i \in DOMAIN s2 /\ s2[i] = c
  <2>1. c \in Cell /\ s \in Seq(Cell) /\ s2 = InsertAt(s, i, c)
    BY <1>1, <1>5, <1>7
  <2>2. Inserted(s, s2, i, c)
    BY <2>1, InsertAtIs
  <2> QED
    BY <2>2 DEF Inserted
<1>9. c \in ToSet(s2) \ ToSet(s)
  BY <1>1, <1>7, <1>8 DEF ToSet
<1>10. Lists(m2) = [Lists(m) EXCEPT ![p] = Forest!InsertAt(@, i, c)]
  BY <1>3, <1>6, OwnSequences
<1>11. c \in Forest!ToSet(Lists(m2)[p]) \ Forest!ToSet(Lists(m)[p]) /\ i \in DOMAIN Lists(m2)[p]
  BY <1>3, <1>5, <1>8, <1>9, OwnSequences
<1>12. Live(m2) = a \cup {c}
  BY <1>1
<1>13. Forest!Fits(a, Lists(m), p, c) \/ c \in Cell \ a
  BY <1>1
<1> QED
  BY <1>10, <1>11, <1>12, <1>13 DEF Forest!Put

(* An item leaves it, ...                                                  *)
LEMMA TakenForest ==
    ASSUME NEW m \in Memories, Sound(m), NEW p, Owner(m, p), NEW c \in Items(m, p),
           NEW m2 \in Memories, Linked(m2), Taken(m, m2, p, c, m.cell[c].next)
    PROVE  \E i \in DOMAIN Lists(m)[p] : /\ Lists(m)[p][i] = c
                                         /\ Lists(m2) = [Lists(m) EXCEPT ![p] = Forest!RemoveAt(@, i)]
<1>1. /\ Linked(m) /\ p \in Cell /\ c \in Cell /\ Rewired(m, m2) /\ Owner(m2, p)
      /\ Live(m) \subseteq Cell /\ Null \notin Cell
  BY Typed, InList, FlagsKeep DEF Sound, Owner, Taken
<1>2. Elsewhere(m, m2, p)
  <2>1. ChildBut(m, m2, {p})
    BY DEF Taken, ChildBut
  <2>2. ASSUME NEW x \in Live(m), ~Root(m, x), x \notin Items(m, p)
        PROVE  m2.cell[x].next = m.cell[x].next
    <3>1. x # c /\ x # m.cell[c].next /\ x # m.cell[c].prev
      <4>1. x # Null
        BY <1>1, <2>2
      <4>2. m.cell[c].next = Null \/ m.cell[c].next \in Items(m, p)
        BY <1>1, ItemsFacts
      <4>3. m.cell[c].prev = Null \/ m.cell[c].prev \in Items(m, p)
        BY <1>1, InList, ItemsFacts
      <4> QED
        BY <2>2, <4>1, <4>2, <4>3
    <3> QED
      BY <1>1, <2>2, <3>1 DEF Taken, NextBut
  <2> QED
    BY <1>1, <2>1, <2>2, OtherLists
<1>3. PICK s : s = Lists(m)[p] /\ s = Kids(m, p)
  BY <1>1, ListsAre
<1>4. PICK i \in 1..Len(s) : s[i] = c /\ Kids(m2, p) = RemoveAt(s, i)
  BY <1>1, <1>3, TakenKids
<1>5. Lists(m2)[p] = RemoveAt(s, i)
  BY <1>1, <1>4, ListsAre
<1>6. Lists(m2) = [Lists(m) EXCEPT ![p] = RemoveAt(s, i)]
  BY <1>1, <1>2, <1>5, Instead
<1>7. s \in Seq(Cell)
  BY <1>1, <1>3, ListsAre
<1>8. i \in DOMAIN s
  BY <1>4, <1>7
<1> QED
  BY <1>3, <1>4, <1>6, <1>8, OwnSequences

(* ... or another one takes its place.                                     *)
LEMMA ExchangedForest ==
    ASSUME NEW m \in Memories, Sound(m), NEW p, Owner(m, p), NEW c \in Items(m, p),
           NEW r, Root(m, r), NEW m2 \in Memories, Linked(m2), Taken(m, m2, p, c, r)
    PROVE  \E i \in DOMAIN Lists(m)[p] : /\ Lists(m)[p][i] = c
                                         /\ Lists(m2) = [Lists(m) EXCEPT ![p] = Forest!ReplaceAt(@, i, r)]
<1>1. /\ Linked(m) /\ p \in Cell /\ c \in Cell /\ Rewired(m, m2) /\ Owner(m2, p)
      /\ Live(m) \subseteq Cell /\ Null \notin Cell
  BY Typed, InList, FlagsKeep DEF Sound, Owner, Taken
<1>2. Elsewhere(m, m2, p)
  <2>1. ChildBut(m, m2, {p})
    BY DEF Taken, ChildBut
  <2>2. ASSUME NEW x \in Live(m), ~Root(m, x), x \notin Items(m, p)
        PROVE  m2.cell[x].next = m.cell[x].next
    <3>1. x # c /\ x # r /\ x # m.cell[c].prev
      <4>1. x # Null
        BY <1>1, <2>2
      <4>2. m.cell[c].prev = Null \/ m.cell[c].prev \in Items(m, p)
        BY <1>1, InList, ItemsFacts
      <4> QED
        BY <2>2, <4>1, <4>2
    <3> QED
      BY <1>1, <2>2, <3>1 DEF Taken, NextBut
  <2> QED
    BY <1>1, <2>1, <2>2, OtherLists
<1>3. PICK s : s = Lists(m)[p] /\ s = Kids(m, p)
  BY <1>1, ListsAre
<1>4. PICK i \in 1..Len(s) : s[i] = c /\ Kids(m2, p) = ReplaceAt(s, i, r)
  BY <1>1, <1>3, ExchangedKids
<1>5. Lists(m2)[p] = ReplaceAt(s, i, r)
  BY <1>1, <1>4, ListsAre
<1>6. Lists(m2) = [Lists(m) EXCEPT ![p] = ReplaceAt(s, i, r)]
  BY <1>1, <1>2, <1>5, Instead
<1>7. s \in Seq(Cell)
  BY <1>1, <1>3, ListsAre
<1>8. i \in DOMAIN s
  BY <1>4, <1>7
<1> QED
  BY <1>3, <1>4, <1>6, <1>8, OwnSequences

(* What a call does to the forest: nothing, or a step of OrderedForest.    *)
Moves(m, m2) ==
    \/ Live(m2) = Live(m) /\ Lists(m2) = Lists(m)
    \/ Forest!Grow(Live(m), Lists(m), Live(m2), Lists(m2))
    \/ \E p \in Live(m) : \/ Forest!Put(Live(m), Lists(m), Live(m2), Lists(m2), p)
                          \/ Forest!Take(Live(m), Lists(m), Live(m2), Lists(m2), p)
                          \/ Forest!End(Live(m), Lists(m), Live(m2), Lists(m2), p)
    \/ \E c \in Live(m) \ Live(m2) : /\ Forest!Root(Live(m), Lists(m), c)
                                     /\ Forest!Drop(Live(m), Lists(m), Live(m2), Lists(m2), c)

SameShape(m, m2) == Live(m2) = Live(m) /\ Lists(m2) = Lists(m)

LEMMA MovesFrom ==
    ASSUME NEW m, NEW r, NEW m2, SameShape(m, r), Moves(r, m2)
    PROVE  Moves(m, m2)
BY DEF Moves, SameShape

LEMMA SparedStays ==
    ASSUME NEW m, NEW m2, NEW N, Grown(m, m2, N), Spared(m, m2)
    PROVE  Stays(m, m2)
BY DEF Grown, Spared, Stays, SameLinks, Owner

(* New trees: a new root with all that is new below it.                    *)
Planted(m, m2, N, n) ==
    /\ Grown(m, m2, N) /\ Spared(m, m2) /\ N \in SUBSET (Cell \ Live(m))
    /\ Root(m2, n) /\ Swept(m2, {n}) = N

LEMMA MadeForest ==
    ASSUME NEW m \in Memories, Sound(m), NEW m2, NEW N, NEW n, Planted(m, m2, N, n),
           NEW H, NEW O, Whole(m2, H, O)
    PROVE  Moves(m, m2)
<1>1. Linked(m) /\ m2 \in Memories /\ Linked(m2) /\ {n} \in SUBSET Live(m2) /\ Stays(m, m2)
  BY SparedStays DEF Planted, Sound, Grown, Root
<1>2. Live(m2) \ Live(m) = N
  BY DEF Planted, Grown
<1>3. Closed(m2, N)
  BY <1>1, SweptIs DEF Planted
<1>4. Forest!Grow(Live(m), Lists(m), Live(m2), Lists(m2))
  BY <1>1, <1>2, <1>3, GrownForest
<1> QED
  BY <1>4 DEF Moves

(* Planted and deleted at once.                                            *)
LEMMA UndoneForest ==
    ASSUME NEW m \in Memories, Sound(m), NEW r, NEW N, NEW n, Planted(m, r, N, n),
           NEW m2, m2 = Delete(r, n)
    PROVE  SameShape(m, m2)
<1> DEFINE To(q) == IF q \in N THEN Wild ELSE q
<1>1. /\ Linked(m) /\ Known(m) /\ r \in Memories /\ Sound(r) /\ Root(r, n) /\ Swept(r, {n}) = N
      /\ n \in Cell /\ Live(m) \subseteq Cell /\ Null \notin Cell /\ Wild \notin Cell
      /\ N \subseteq Cell /\ N \cap Live(m) = {} /\ Live(r) = Live(m) \cup N
  BY Typed DEF Planted, Sound, Grown, Root
<1>2. Cleared(r, m2, n)
  BY <1>1, DeleteKeeps
<1>3. m2 \in Memories /\ Linked(m2) /\ Live(m2) = Live(m)
  BY <1>1, <1>2 DEF Cleared, Sound
<1>4. \A x \in Cell \ N : /\ SameFlags(r, m2, x)
                          /\ m2.cell[x].next = To(r.cell[x].next)
                          /\ m2.cell[x].prev = To(r.cell[x].prev)
                          /\ m2.cell[x].child = To(r.cell[x].child)
  BY <1>1, DeleteView
<1>5. ASSUME NEW x \in Live(m) PROVE SameLinks(m, m2, x) /\ (Owner(m2, x) <=> Owner(m, x))
  <2>1. x \in Cell \ N /\ r.cell[x] = m.cell[x]
    BY <1>1 DEF Planted, Spared
  <2>2. m.cell[x].next \notin N /\ m.cell[x].prev \notin N /\ m.cell[x].child \notin N
    BY <1>1 DEF Linked, Known
  <2> QED
    BY <1>3, <1>4, <2>1, <2>2 DEF SameLinks, SameFlags, Owner
<1>6. Stays(m, m2)
  BY <1>3, <1>5 DEF Stays
<1> QED
  BY <1>1, <1>3, <1>6, SameForest DEF SameShape

(* A new item alone: no list changes.                                      *)
LEMMA AloneForest ==
    ASSUME NEW m \in Memories, Sound(m), NEW n \in Cell \ Live(m), NEW m2,
           Grown(m, m2, {n}), Spared(m, m2), Owner(m2, n) => m2.cell[n].child = Null
    PROVE  Lists(m2) = Lists(m)
<1>1. Linked(m) /\ m2 \in Memories /\ Linked(m2) /\ Stays(m, m2) /\ Live(m2) = Live(m) \cup {n}
  BY SparedStays DEF Sound, Grown
<1>2. ASSUME NEW q \in Cell PROVE Lists(m2)[q] = Lists(m)[q]
  <2>1. CASE Owner(m, q)
    <3>1. q \in Live(m) /\ Owner(m2, q) /\ m2.cell[q].child = m.cell[q].child
      BY <1>1, <2>1 DEF Owner, Stays, SameLinks
    <3>2. \A x \in Items(m, q) : m2.cell[x].next = m.cell[x].next
      BY <1>1, <2>1, ItemsFacts DEF Stays, SameLinks
    <3> QED
      BY <1>1, <2>1, <3>1, <3>2, KidsSame, ListsAre
  <2>2. CASE ~Owner(m, q) /\ ~Owner(m2, q)
    BY <1>1, <2>2, ListsAre
  <2>3. CASE ~Owner(m, q) /\ Owner(m2, q)
    <3>1. q = n
      BY <1>1, <2>3 DEF Owner, Stays
    <3>2. IsList(m2, q, <<>>)
      <4>1. Starts(m2, q, <<>>) /\ Len(<<>>) = 0
        BY DEF Starts
      <4> QED
        BY <2>3, <3>1, <4>1 DEF IsList
    <3>3. Kids(m2, q) = <<>>
      BY <1>1, <2>3, <3>2, KidsAre
    <3> QED
      BY <1>1, <2>3, <3>3, ListsAre
  <2> QED
    BY <2>1, <2>2, <2>3
<1> QED
  BY <1>2 DEF Lists

(* An item is named anew.                                                  *)
LEMMA NamedForest ==
    ASSUME NEW m \in Memories, Sound(m), NEW c, NEW k, NEW m2, Grown(m, m2, {}), Renamed(m, m2, c, k)
    PROVE  SameShape(m, m2)
<1>1. Linked(m) /\ m2 \in Memories /\ Linked(m2) /\ Live(m2) = Live(m) /\ Live(m) \subseteq Cell
  BY Typed DEF Sound, Grown
<1>2. Stays(m, m2)
  BY <1>1 DEF Stays, Renamed, Owner
<1> QED
  BY <1>1, <1>2, SameForest DEF SameShape

LEMMA RenamedForest ==
    ASSUME NEW m \in Memories, Sound(m), NEW c \in Live(m), NEW k \in Key, NEW const \in BOOLEAN,
           NEW m2, m2 = Rename(m, c, k, const)
    PROVE  SameShape(m, m2) /\ Grown(m, m2, {})
<1> DEFINE s == m.strings - (IF OwnsName(m, c) THEN 1 ELSE 0) + (IF const THEN 0 ELSE 1)
<1>1. c \in Cell
  BY Typed
<1>2. m2 = GivenName(m, c, k, const, s)
  <2> HIDE DEF s
  <2> QED
    BY <1>1 DEF Rename, Memories, GivenName, s
<1> HIDE DEF s
<1>3. Grown(m, m2, {})
  BY <1>1, RenameGrows
<1>4. Renamed(m, m2, c, k)
  BY <1>1, <1>2, NamedView
<1> QED
  BY <1>3, <1>4, NamedForest

LEMMA UnnamedForest ==
    ASSUME NEW m \in Memories, Sound(m), NEW c \in Live(m), NEW m2, m2 = Unname(m, c)
    PROVE  SameShape(m, m2) /\ Grown(m, m2, {})
<1> DEFINE s == m.strings - (IF OwnsName(m, c) THEN 1 ELSE 0)
<1>1. c \in Cell
  BY Typed
<1>2. m2 = GivenName(m, c, NoKey, FALSE, s)
  <2> HIDE DEF s
  <2> QED
    BY <1>1 DEF Unname, Memories, GivenName, s
<1> HIDE DEF s
<1>3. Grown(m, m2, {})
  BY <1>1, UnnameGrows
<1>4. Renamed(m, m2, c, NoKey)
  BY <1>1, <1>2, NamedView
<1> QED
  BY <1>3, <1>4, NamedForest

(* A root, or a new item, is added at the end of a list, ...               *)
LEMMA AddedForest ==
    ASSUME NEW m \in Memories, Sound(m), NEW p, Owner(m, p), NEW c, Root(m, c), p # c,
           NEW m2, m2 = AddItem(m, p, c),
           NEW a, Live(m) = a \cup {c}, Forest!Fits(a, Lists(m), p, c) \/ c \notin a
    PROVE  Forest!Put(a, Lists(m), Live(m2), Lists(m2), p)
<1>1. Moved(m, m2, c)
  BY AddItemKeeps
<1>2. m2 \in Memories /\ Linked(m2)
  BY <1>1 DEF Moved, Sound
<1>3. PICK after : Joined(m, m2, p, c, after)
  BY AddJoins
<1> QED
  BY <1>2, <1>3, JoinedForest

(* ... by cJSON_AddItemToArray and its like, ...                           *)
LEMMA RootAdded ==
    ASSUME NEW m \in Memories, Sound(m), NEW p, Owner(m, p), NEW c, Root(m, c), p \notin Swept(m, {c}),
           NEW m2, m2 = AddItem(m, p, c)
    PROVE  Moves(m, m2)
<1>1. Linked(m) /\ p \in Live(m) /\ c \in Live(m)
  BY DEF Sound, Owner, Root
<1>2. p # c
  BY <1>1, SweptIs
<1>3. Forest!Fits(Live(m), Lists(m), p, c) /\ Live(m) = Live(m) \cup {c}
  BY <1>1, FitsIs
<1>4. Forest!Put(Live(m), Lists(m), Live(m2), Lists(m2), p)
  BY <1>2, <1>3, AddedForest
<1> QED
  BY <1>1, <1>4 DEF Moves

(* ... as a new item that has just been made, ...                          *)
LEMMA NewAdded ==
    ASSUME NEW m, NEW p \in Live(m), NEW n, n \notin Live(m),
           NEW r \in Memories, Sound(r), Owner(r, p), Root(r, n),
           Live(r) = Live(m) \cup {n}, Lists(r) = Lists(m), NEW m2, m2 = AddItem(r, p, n)
    PROVE  Moves(m, m2)
<1>1. p # n
  OBVIOUS
<1>2. Forest!Put(Live(m), Lists(r), Live(m2), Lists(m2), p)
  BY <1>1, AddedForest
<1> QED
  BY <1>2 DEF Moves

(* ... or goes before an item, ...                                         *)
LEMMA RootInserted ==
    ASSUME NEW m \in Memories, Sound(m), NEW p, Owner(m, p), NEW after \in Items(m, p),
           NEW c, Root(m, c), p \notin Swept(m, {c}), NEW m2, m2 = InsertBefore(m, p, after, c)
    PROVE  Moves(m, m2)
<1>1. Linked(m) /\ p \in Live(m) /\ c \in Live(m)
  BY DEF Sound, Owner, Root
<1>2. c # p
  BY <1>1, SweptIs
<1>3. Moved(m, m2, c)
  BY <1>2, InsertKeeps
<1>4. m2 \in Memories /\ Linked(m2)
  BY <1>3 DEF Moved, Sound
<1>5. Joined(m, m2, p, c, after)
  BY InsertJoins
<1>6. Forest!Fits(Live(m), Lists(m), p, c) /\ Live(m) = Live(m) \cup {c}
  BY <1>1, FitsIs
<1>7. Forest!Put(Live(m), Lists(m), Live(m2), Lists(m2), p)
  BY <1>4, <1>5, <1>6, JoinedForest
<1> QED
  BY <1>1, <1>7 DEF Moves

(* ... an item leaves a list, and may be deleted then, ...                 *)
LEMMA DetachedForest ==
    ASSUME NEW m \in Memories, Sound(m), NEW p, Owner(m, p), NEW c \in Items(m, p),
           NEW m2, m2 = Detach(m, p, c)
    PROVE  /\ Moved(m, m2, c) /\ Root(m2, c)
           /\ \E i \in DOMAIN Lists(m)[p] : /\ Lists(m)[p][i] = c
                                            /\ Lists(m2) = [Lists(m) EXCEPT ![p] = Forest!RemoveAt(@, i)]
<1>1. Moved(m, m2, c) /\ Root(m2, c) /\ Taken(m, m2, p, c, m.cell[c].next)
  BY DetachKeeps, DetachTakes
<1>2. m2 \in Memories /\ Linked(m2)
  BY <1>1 DEF Moved, Sound
<1> QED
  BY <1>1, <1>2, TakenForest

(* ... by cJSON_DetachItemViaPointer, ...                                  *)
LEMMA ItemDetached ==
    ASSUME NEW m \in Memories, Sound(m), NEW p, Owner(m, p), NEW c \in Items(m, p),
           NEW m2, m2 = Detach(m, p, c)
    PROVE  Moves(m, m2)
<1>1. Live(m2) = Live(m) /\ p \in Live(m)
  BY DetachedForest DEF Moved, Owner
<1>2. \E i \in DOMAIN Lists(m)[p] : Lists(m2) = [Lists(m) EXCEPT ![p] = Forest!RemoveAt(@, i)]
  BY DetachedForest
<1>3. Forest!Take(Live(m), Lists(m), Live(m2), Lists(m2), p)
  BY <1>1, <1>2 DEF Forest!Take
<1> QED
  BY <1>1, <1>3 DEF Moves

(* ... by cJSON_DeleteItemFromArray and its like, ...                      *)
LEMMA ItemDeleted ==
    ASSUME NEW m \in Memories, Sound(m), NEW p, Owner(m, p), NEW c \in Items(m, p),
           NEW e, e = Detach(m, p, c), NEW m2, m2 = Delete(e, c)
    PROVE  Moves(m, m2)
<1>1. Moved(m, e, c) /\ Root(e, c)
  BY DetachedForest
<1>2. PICK i \in DOMAIN Lists(m)[p] : /\ Lists(m)[p][i] = c
                                      /\ Lists(e) = [Lists(m) EXCEPT ![p] = Forest!RemoveAt(@, i)]
  BY DetachedForest
<1>3. Live(e) = Live(m) /\ e \in Memories /\ Sound(e) /\ p \in Live(m)
  BY <1>1 DEF Moved, Owner
<1>4. Forest!Drop(Live(e), Lists(e), Live(m2), Lists(m2), c)
  BY <1>1, <1>3, DeletedForest
<1>5. c \notin Live(m2)
  <2>1. Cleared(e, m2, c)
    BY <1>1, <1>3, DeleteKeeps
  <2>2. c \in Swept(e, {c})
    BY <1>1, <1>3, SweptFacts DEF Sound
  <2> QED
    BY <2>1, <2>2 DEF Cleared
<1>6. Forest!End(Live(m), Lists(m), Live(m2), Lists(m2), p)
  BY <1>2, <1>3, <1>4, <1>5 DEF Forest!End
<1> QED
  BY <1>3, <1>6 DEF Moves

(* ... a root takes its place, ...                                         *)
LEMMA ItemReplaced ==
    ASSUME NEW m \in Memories, Sound(m), NEW p, Owner(m, p), NEW c \in Items(m, p),
           NEW r, Root(m, r), p \notin Swept(m, {r}), NEW m2, m2 = Replace(m, p, c, r)
    PROVE  Moves(m, m2)
<1>1. PICK e : e = Exchanged(m, p, c, r)
  OBVIOUS
<1>2. Moved(m, e, r) /\ Root(e, c) /\ Taken(m, e, p, c, r)
  BY <1>1, ExchangeKeeps, ExchangeTakes
<1>3. Live(e) = Live(m) /\ e \in Memories /\ Sound(e) /\ Linked(e) /\ p \in Live(m) /\ r \in Live(m)
  BY <1>2 DEF Moved, Owner, Sound, Root
<1>4. PICK i \in DOMAIN Lists(m)[p] : /\ Lists(m)[p][i] = c
                                      /\ Lists(e) = [Lists(m) EXCEPT ![p] = Forest!ReplaceAt(@, i, r)]
  BY <1>2, <1>3, ExchangedForest
<1>5. m2 = Delete(e, c)
  BY <1>1, ReplaceIsDelete
<1>6. Forest!Drop(Live(e), Lists(e), Live(m2), Lists(m2), c)
  BY <1>2, <1>3, <1>5, DeletedForest
<1>7. c \notin Live(m2)
  <2>1. Cleared(e, m2, c)
    BY <1>2, <1>3, <1>5, DeleteKeeps
  <2>2. c \in Swept(e, {c})
    BY <1>2, <1>3, SweptFacts DEF Sound
  <2> QED
    BY <2>1, <2>2 DEF Cleared
<1>8. Forest!Fits(Live(m), Lists(m), p, r)
  BY FitsIs
<1>9. Forest!End(Live(m), Lists(m), Live(m2), Lists(m2), p)
  BY <1>3, <1>4, <1>6, <1>7, <1>8 DEF Forest!End
<1> QED
  BY <1>3, <1>9 DEF Moves

(* ... and a root is deleted.                                              *)
LEMMA RootDeleted ==
    ASSUME NEW m \in Memories, Sound(m), NEW c, Root(m, c), NEW m2, m2 = Delete(m, c)
    PROVE  Moves(m, m2)
<1>1. Forest!Drop(Live(m), Lists(m), Live(m2), Lists(m2), c) /\ Forest!Root(Live(m), Lists(m), c)
  BY DeletedForest, RootIs
<1>2. Cleared(m, m2, c) /\ c \in Swept(m, {c}) /\ c \in Live(m)
  BY DeleteKeeps, SweptFacts DEF Sound, Root
<1>3. c \in Live(m) \ Live(m2)
  BY <1>2 DEF Cleared
<1> QED
  BY <1>1, <1>3 DEF Moves

(* A new item: a tree of its own.                                          *)
Seedling(m, m2, H, O, n) ==
    Apart(m2, H, O, n) /\ Planted(m, m2, {n}, n) /\ Lists(m2) = Lists(m)

(* What create_reference and the constructors put into free memory.        *)
LEMMA ItemPlanted ==
    ASSUME NEW m, NEW H, NEW O, Whole(m, H, O), NEW n \in Cell \ Live(m), NEW i, Unlinked(i),
           NEW m2, NEW s, PutIs(m, m2, n, i, s), Grown(m, m2, {n}), Root(m2, n)
    PROVE  Seedling(m, m2, H, O, n)
<1>1. m2.cell[n] = i /\ \A x \in Cell \ {n} : m2.cell[x] = m.cell[x]
  BY DEF PutIs
<1>2. Live(m) \subseteq Cell \ {n} /\ m \in Memories /\ Sound(m)
  BY Typed DEF Whole
<1>3. Apart(m2, H, O, n)
  BY WholePut
<1>4. Spared(m, m2)
  BY <1>1, <1>2 DEF Spared
<1>5. Owner(m2, n) => m2.cell[n].child = Null
  BY <1>1 DEF Owner, Unlinked
<1>6. Lists(m2) = Lists(m)
  BY <1>2, <1>4, <1>5, AloneForest
<1> QED
  BY <1>3, <1>4, <1>6 DEF Seedling, Apart, Planted

LEMMA NewPlanted ==
    ASSUME NEW m, NEW H, NEW O, Whole(m, H, O), NEW n \in Cell \ Live(m), NEW t \in Type,
           NEW m2, m2 = New(m, n, t)
    PROVE  Seedling(m, m2, H, O, n)
<1> DEFINE i == [Blank EXCEPT !.type = t]
           s == IF t = "text" THEN m.strings + 1 ELSE m.strings
<1>1. m \in Memories /\ Sound(m) /\ s \in Int
  BY Typed DEF Whole
<1>2. Unlinked(i)
  BY DEF Unlinked, Blank, Item, Pointer, Type
<1>3. m2 = [m EXCEPT !.cell[n] = i, !.strings = s]
  BY <1>1 DEF New, Memories
<1>4. Grown(m, m2, {n}) /\ Root(m2, n)
  BY <1>1, NewGrows
<1> HIDE DEF i, s
<1>5. PutIs(m, m2, n, i, s)
  BY <1>1, <1>2, <1>3, PutView DEF Unlinked
<1> QED
  BY <1>2, <1>4, <1>5, ItemPlanted

LEMMA ReferencePlanted ==
    ASSUME NEW m, NEW H, NEW O, Whole(m, H, O), NEW c \in Live(m), NEW n \in Cell \ Live(m),
           NEW m2, m2 = Reference(m, c, n)
    PROVE  Seedling(m, m2, H, O, n)
<1> DEFINE i == [m.cell[c] EXCEPT !.ref = TRUE, !.key = NoKey, !.next = Null, !.prev = Null]
<1>1. m \in Memories /\ Sound(m) /\ m.cell[c] \in Item /\ m.cell[c].type # "free"
  BY Typed DEF Whole, Live
<1>2. Unlinked(i)
  BY <1>1 DEF Unlinked, Item, Pointer
<1>3. m2 = [m EXCEPT !.cell[n] = i]
  BY DEF Reference
<1> HIDE DEF i
<1>4. Grown(m, m2, {n}) /\ Root(m2, n)
  BY <1>1, ReferenceGrows
<1>5. PutIs(m, m2, n, i, m.strings)
  BY <1>1, <1>2, <1>3, ReferenceIs DEF Unlinked
<1> QED
  BY <1>2, <1>4, <1>5, ItemPlanted

LEMMA SeedlingMoves ==
    ASSUME NEW m \in Memories, Sound(m), NEW m2, NEW H, NEW O, NEW n, Seedling(m, m2, H, O, n)
    PROVE  Moves(m, m2)
<1>1. Planted(m, m2, {n}, n) /\ Whole(m2, H \cup {n}, O)
  BY DEF Seedling, Apart
<1> QED
  BY <1>1, MadeForest

(* A new item is added, with a name or without one.                        *)
LEMMA SeedlingAdded ==
    ASSUME NEW m \in Memories, Sound(m), NEW p, Owner(m, p), NEW r, NEW H, NEW O, NEW n,
           Seedling(m, r, H, O, n), NEW m2
    PROVE  /\ m2 = AddItem(r, p, n) => Moves(m, m2)
           /\ \A k \in Key : m2 = AddItem(Rename(r, n, k, FALSE), p, n) => Moves(m, m2)
<1>1. /\ r \in Memories /\ Sound(r) /\ Owner(r, p) /\ Root(r, n) /\ Live(r) = Live(m) \cup {n}
      /\ Lists(r) = Lists(m) /\ p \in Live(m) /\ n \notin Live(m) /\ n \in Live(r)
  BY DEF Seedling, Planted, Grown, Owner
<1>2. m2 = AddItem(r, p, n) => Moves(m, m2)
  BY <1>1, NewAdded
<1>3. ASSUME NEW k \in Key, m2 = AddItem(Rename(r, n, k, FALSE), p, n) PROVE Moves(m, m2)
  <2>1. PICK e : e = Rename(r, n, k, FALSE)
    OBVIOUS
  <2>2. SameShape(r, e) /\ Grown(r, e, {})
    BY <1>1, <2>1, RenamedForest
  <2>3. /\ e \in Memories /\ Sound(e) /\ Owner(e, p) /\ Root(e, n) /\ Live(e) = Live(m) \cup {n}
        /\ Lists(e) = Lists(m)
    BY <1>1, <2>2 DEF Grown, SameShape, Owner
  <2>4. m2 = AddItem(e, p, n)
    BY <1>3, <2>1
  <2> QED
    BY <1>1, <2>3, <2>4, NewAdded
<1> QED
  BY <1>2, <1>3

(* An array of its own items.                                              *)
LEMMA FilledPlanted ==
    ASSUME NEW m \in Memories, Sound(m), NEW f \in Seq(Cell \ Live(m)), Len(f) >= 1,
           \A i, j \in 1..Len(f) : f[i] = f[j] => i = j, NEW t \in {"array", "text"},
           NEW m2, m2 = Filled(m, f, t)
    PROVE  Planted(m, m2, ToSet(f), f[1])
<1> DEFINE N == ToSet(f)
           Nth(i) == IF i \in 2..Len(f) THEN f[i] ELSE Null
<1>1. f \in Seq(Cell) /\ Len(f) \in Nat /\ Live(m) \subseteq Cell
  BY Typed
<1>2. FillIs(m, m2, f, t) /\ Grown(m, m2, N) /\ Root(m2, f[1])
  BY <1>1, FillView, FillKeeps
<1>3. N \subseteq Swept(m2, {f[1]})
  BY <1>1, FilledSwept
<1>4. N = {f[i] : i \in 1..Len(f)}
  BY <1>1 DEF ToSet
<1>5. N \subseteq Cell \ Live(m) /\ f[1] \in N /\ \A i : Nth(i) \in N \cup {Null}
  BY <1>1, <1>4
<1>6. Spared(m, m2)
  <2>1. \A x \in Cell \ N : m2.cell[x] = m.cell[x]
    BY <1>2 DEF FillIs
  <2> QED
    BY <1>1, <1>5, <2>1 DEF Spared
<1>7. /\ m2.cell[f[1]] = [Blank EXCEPT !.type = "array", !.child = Nth(2)]
      /\ \A i \in 2..Len(f) :
           m2.cell[f[i]] = [Blank EXCEPT !.type = t, !.next = Nth(i + 1), !.prev = Nth(i - 1)]
  BY <1>2 DEF FillIs
<1> HIDE DEF Nth
<1>8. ASSUME NEW x \in N
      PROVE  m2.cell[x].next \in N \cup {Null} /\ m2.cell[x].child \in N \cup {Null}
  <2>1. PICK i \in 1..Len(f) : x = f[i]
    BY <1>4
  <2>2. CASE i = 1
    <3>1. m2.cell[x] = [Blank EXCEPT !.type = "array", !.child = Nth(2)]
      BY <1>7, <2>1, <2>2
    <3>2. Nth(2) \in N \cup {Null}
      BY <1>5
    <3> HIDE DEF N
    <3> QED
      BY <3>1, <3>2 DEF Blank
  <2>3. CASE i # 1
    <3>1. i \in 2..Len(f)
      BY <1>1, <2>3
    <3>2. m2.cell[x] = [Blank EXCEPT !.type = t, !.next = Nth(i + 1), !.prev = Nth(i - 1)]
      BY <1>7, <2>1, <3>1
    <3> QED
      BY <1>5, <3>2 DEF Blank
  <2> QED
    BY <2>2, <2>3
<1>9. Closed(m2, N)
  BY <1>8 DEF Closed
<1>10. PICK n : n = f[1]
  OBVIOUS
<1>11. m2 \in Memories /\ N \in SUBSET Live(m2) /\ {n} \subseteq N
  BY <1>2, <1>5, <1>10 DEF Grown
<1> HIDE DEF N
<1>12. Swept(m2, {n}) \subseteq N
  BY <1>9, <1>11, SweptLeast
<1>13. Swept(m2, {f[1]}) = N
  BY <1>3, <1>10, <1>12
<1>14. Planted(m, m2, N, f[1])
  BY <1>2, <1>5, <1>6, <1>13 DEF Planted
<1> QED
  BY <1>14 DEF N

(* A copy.                                                                 *)
LEMMA CopyPlanted ==
    ASSUME NEW m \in Memories, Sound(m), NEW N \in SUBSET (Cell \ Live(m)), NEW n \in N,
           NEW c \in Live(m), NEW of \in [N -> Cell], NEW via \in [N \ {n} -> Link(N)],
           IsCopy(m, c, N, n, of, via), NEW m2, m2 = Copied(m, N, of, via)
    PROVE  Planted(m, m2, N, n)
<1>1. Grown(m, m2, N) /\ Root(m2, n)
  BY CopyKeeps
<1>2. Swept(m2, {n}) = N
  BY DEF IsCopy
<1>3. CopyIs(m, m2, N, of, via)
  <2>1. N \in SUBSET Cell
    OBVIOUS
  <2> QED
    BY <2>1, CopyView DEF IsCopy
<1>4. Spared(m, m2)
  BY <1>3, Typed DEF CopyIs, Spared
<1> QED
  BY <1>1, <1>2, <1>4 DEF Planted

(* Every call is such a step.                                              *)
Stepped == Moves(mem, mem')

LEMMA CreateMoves ==
    ASSUME Fine, Intact, NEW n \in Fresh, NEW t \in Type, Create(n, t)
    PROVE  Stepped
<1>1. n \in Cell \ Live(mem) /\ mem' = New(mem, n, t) /\ mem \in Memories /\ Sound(mem)
  BY FreshIs DEF Create, Fine
<1>2. Seedling(mem, mem', held, oom, n)
  BY <1>1, NewPlanted DEF Intact
<1> QED
  BY <1>1, <1>2, SeedlingMoves DEF Stepped

LEMMA CreateStringReferenceMoves ==
    ASSUME Fine, Intact, NEW n \in Fresh, CreateStringReference(n)
    PROVE  Stepped
<1> DEFINE i == [Blank EXCEPT !.type = "text", !.ref = TRUE]
<1>1. n \in Cell \ Live(mem) /\ mem \in Memories /\ Sound(mem)
  BY FreshIs DEF Fine
<1>2. Unlinked(i) /\ i.child = Null /\ i.ref
  BY DEF Unlinked, Blank, Item, Pointer, Type
<1>3. mem' = [mem EXCEPT !.cell[n] = i]
  BY DEF CreateStringReference
<1> HIDE DEF i
<1>4. Grown(mem, mem', {n}) /\ Root(mem', n)
  BY <1>1, <1>2, <1>3, PutGrows
<1>5. PutIs(mem, mem', n, i, mem.strings)
  BY <1>1, <1>2, <1>3, ReferenceIs DEF Unlinked
<1>6. Seedling(mem, mem', held, oom, n)
  BY <1>1, <1>2, <1>4, <1>5, ItemPlanted DEF Intact
<1> QED
  BY <1>1, <1>6, SeedlingMoves DEF Stepped

LEMMA CreateReferenceMoves ==
    ASSUME Fine, Intact, NEW n \in Fresh, NEW c \in Cell, NEW t \in Type \ {"text"},
           CreateReference(n, t, c)
    PROVE  Stepped
<1> DEFINE i == [Blank EXCEPT !.type = t, !.ref = TRUE, !.child = c]
<1>1. n \in Cell \ Live(mem) /\ mem \in Memories /\ Sound(mem)
  BY FreshIs DEF Fine
<1>2. c \in Live(mem)
  <2>1. PICK p \in Live(mem) : Container(p, t) /\ mem.cell[p].child = c
    BY DEF CreateReference
  <2> QED
    BY <1>1, <2>1, Typed DEF Sound, Linked, Container
<1>3. Unlinked(i) /\ i.child = c /\ i.ref
  BY DEF Unlinked, Blank, Item, Pointer, Type
<1>4. mem' = [mem EXCEPT !.cell[n] = i]
  BY DEF CreateReference
<1> HIDE DEF i
<1>5. Grown(mem, mem', {n}) /\ Root(mem', n)
  BY <1>1, <1>2, <1>3, <1>4, PutGrows
<1>6. PutIs(mem, mem', n, i, mem.strings)
  BY <1>1, <1>3, <1>4, ReferenceIs DEF Unlinked
<1>7. Seedling(mem, mem', held, oom, n)
  BY <1>1, <1>3, <1>5, <1>6, ItemPlanted DEF Intact
<1> QED
  BY <1>1, <1>7, SeedlingMoves DEF Stepped

LEMMA CreateFilledMoves ==
    ASSUME Fine, Intact, NEW i \in DOMAIN Memory, NEW t \in {"array", "text"},
           CreateFilled(SubSeq(Memory, 1, i), t)
    PROVE  Stepped
<1> DEFINE f == SubSeq(Memory, 1, i)
           made == Filled(mem, f, t)
<1>1. mem \in Memories /\ Sound(mem) /\ Memory \in Seq(Free(mem)) /\ Free(mem) = Cell \ Live(mem)
      /\ \A j, k \in 1..Len(Memory) : Memory[j] = Memory[k] => j = k
  BY MemoryFacts DEF Fine, Free
<1>2. i \in 1..Len(Memory) /\ Len(Memory) \in Nat
  BY <1>1
<1>3. /\ f \in Seq(Cell \ Live(mem)) /\ Len(f) = i
      /\ \A j \in 1..i : f[j] = Memory[j]
  BY <1>1, <1>2
<1>0. /\ \/ mem' = made /\ held' = held \cup {f[1]}
         \/ mem' = Delete(made, f[1])
  BY DEF CreateFilled
<1> HIDE DEF f
<1>4. Len(f) >= 1 /\ \A j, k \in 1..Len(f) : f[j] = f[k] => j = k
  BY <1>1, <1>2, <1>3
<1>5. Planted(mem, made, ToSet(f), f[1]) /\ Whole(made, held \cup {f[1]}, oom)
  <2>1. made = Filled(mem, f, t)
    OBVIOUS
  <2> HIDE DEF made
  <2> QED
    BY <1>1, <1>3, <1>4, <2>1, FilledPlanted, WholeFilled DEF Intact
<1> HIDE DEF made
<1>6. CASE mem' = made
  BY <1>1, <1>5, <1>6, MadeForest DEF Stepped
<1>7. CASE mem' = Delete(made, f[1])
  <2>1. SameShape(mem, mem')
    BY <1>1, <1>5, <1>7, UndoneForest
  <2> QED
    BY <2>1 DEF SameShape, Moves, Stepped
<1> QED
  BY <1>0, <1>6, <1>7

LEMMA AddItemToArrayMoves ==
    ASSUME Fine, NEW p \in Cell, NEW c \in Cell, AddItemToArray(p, c)
    PROVE  Stepped
<1>1. /\ Owner(mem, p) /\ Root(mem, c) /\ mem \in Memories /\ Sound(mem)
      /\ p \notin Swept(mem, {c}) /\ mem' = AddItem(mem, p, c)
  BY ContainerOwns, LooseIs DEF AddItemToArray, Fine, Type, Loose
<1> QED
  BY <1>1, RootAdded DEF Stepped

LEMMA AddItemToObjectMoves ==
    ASSUME Fine, Intact, NEW p \in Cell, NEW c \in Cell, NEW k \in Key, NEW const \in BOOLEAN,
           AddItemToObject(p, k, c, const)
    PROVE  Stepped
<1>1. /\ Owner(mem, p) /\ c \in held /\ p \notin Swept(mem, {c}) /\ Root(mem, c) /\ c \in Live(mem)
      /\ mem \in Memories /\ Sound(mem) /\ mem' = AddItem(Rename(mem, c, k, const), p, c)
  BY ContainerOwns, LooseIs DEF AddItemToObject, Loose, Type, Fine
<1>2. PICK r : r = Rename(mem, c, k, const)
  OBVIOUS
<1>3. SameShape(mem, r) /\ Grown(mem, r, {})
  BY <1>1, <1>2, RenamedForest
<1>4. Alike(mem, r, c)
  BY <1>1, <1>2, WholeRenamed DEF Intact
<1>5. r \in Memories /\ Sound(r) /\ Owner(r, p) /\ Root(r, c) /\ p \notin Swept(r, {c})
  BY <1>1, <1>3, <1>4 DEF Grown, Alike, Owner
<1>6. mem' = AddItem(r, p, c)
  BY <1>1, <1>2
<1>7. Moves(r, mem')
  BY <1>5, <1>6, RootAdded
<1> QED
  BY <1>3, <1>7, MovesFrom DEF Stepped

LEMMA AddItemReferenceToArrayMoves ==
    ASSUME Fine, Intact, NEW p \in Cell, NEW c \in Cell, NEW n \in Fresh, AddItemReferenceToArray(p, c, n)
    PROVE  Stepped
<1>1. /\ Owner(mem, p) /\ c \in Live(mem) /\ n \in Cell \ Live(mem) /\ mem \in Memories /\ Sound(mem)
  BY ContainerOwns, FreshIs DEF AddItemReferenceToArray, Type, Fine
<1>2. PICK r : r = Reference(mem, c, n)
  OBVIOUS
<1>3. Seedling(mem, r, held, oom, n)
  BY <1>1, <1>2, ReferencePlanted DEF Intact
<1>4. mem' = AddItem(r, p, n)
  BY <1>2 DEF AddItemReferenceToArray
<1> QED
  BY <1>1, <1>3, <1>4, SeedlingAdded DEF Stepped

LEMMA AddItemReferenceToObjectMoves ==
    ASSUME Fine, Intact, NEW p \in Cell, NEW c \in Cell, NEW n \in Fresh, NEW k \in Key,
           AddItemReferenceToObject(p, k, c, n)
    PROVE  Stepped
<1>1. /\ Owner(mem, p) /\ c \in Live(mem) /\ n \in Cell \ Live(mem) /\ mem \in Memories /\ Sound(mem)
  BY ContainerOwns, FreshIs DEF AddItemReferenceToObject, Type, Fine
<1>2. PICK r : r = Reference(mem, c, n)
  OBVIOUS
<1>3. Seedling(mem, r, held, oom, n)
  BY <1>1, <1>2, ReferencePlanted DEF Intact
<1>4. mem' = r \/ mem' = AddItem(Rename(r, n, k, FALSE), p, n)
  BY <1>2 DEF AddItemReferenceToObject
<1> QED
  BY <1>1, <1>3, <1>4, SeedlingAdded, SeedlingMoves DEF Stepped

LEMMA AddNewToObjectMoves ==
    ASSUME Fine, Intact, NEW p \in Cell, NEW n \in Fresh, NEW k \in Key, NEW t \in Type,
           AddNewToObject(p, k, t, n)
    PROVE  Stepped
<1>1. /\ Owner(mem, p) /\ n \in Cell \ Live(mem) /\ mem \in Memories /\ Sound(mem)
  BY ContainerOwns, FreshIs DEF AddNewToObject, Type, Fine
<1>2. PICK r : r = New(mem, n, t)
  OBVIOUS
<1>3. Seedling(mem, r, held, oom, n)
  BY <1>1, <1>2, NewPlanted DEF Intact
<1>4. CASE mem' = AddItem(Rename(r, n, k, FALSE), p, n)
  BY <1>1, <1>3, <1>4, SeedlingAdded DEF Stepped
<1>5. CASE mem' = Delete(r, n)
  <2>1. Planted(mem, r, {n}, n)
    BY <1>3 DEF Seedling
  <2>2. SameShape(mem, mem')
    BY <1>1, <1>5, <2>1, UndoneForest
  <2> QED
    BY <2>2 DEF SameShape, Moves, Stepped
<1> QED
  BY <1>2, <1>4, <1>5 DEF AddNewToObject

LEMMA FromArrayMoves ==
    ASSUME Fine, NEW p \in Cell, NEW i, FromArray(p, i)
    PROVE  Stepped
<1>1. Owner(mem, p) /\ mem \in Memories /\ Sound(mem)
  BY ContainerOwns DEF FromArray, Type, Fine
<1>2. ArrayItem(mem, p, i) \in Items(mem, p)
  BY FoundIs DEF FromArray, DetachItem, DeleteItem
<1>3. PICK c \in Items(mem, p) : mem' = Detach(mem, p, c) \/ mem' = Delete(Detach(mem, p, c), c)
  BY <1>2 DEF FromArray, DetachItem, DeleteItem
<1> QED
  BY <1>1, <1>3, ItemDetached, ItemDeleted DEF Stepped

LEMMA FromObjectMoves ==
    ASSUME Fine, NEW p \in Cell, NEW k, NEW sensitive, FromObject(p, k, sensitive)
    PROVE  Stepped
<1>1. Owner(mem, p) /\ mem \in Memories /\ Sound(mem)
  BY ContainerOwns DEF FromObject, Type, Fine
<1>2. ObjectItem(mem, p, k, sensitive) \in Items(mem, p)
  BY FoundIs DEF FromObject, DetachItem, DeleteItem
<1>3. PICK c \in Items(mem, p) : mem' = Detach(mem, p, c) \/ mem' = Delete(Detach(mem, p, c), c)
  BY <1>2 DEF FromObject, DetachItem, DeleteItem
<1> QED
  BY <1>1, <1>3, ItemDetached, ItemDeleted DEF Stepped

LEMMA InsertItemInArrayMoves ==
    ASSUME Fine, NEW p \in Cell, NEW c \in Cell, NEW i, InsertItemInArray(p, i, c)
    PROVE  Stepped
<1>1. /\ Owner(mem, p) /\ Root(mem, c) /\ mem \in Memories /\ Sound(mem) /\ p \notin Swept(mem, {c})
  BY ContainerOwns, LooseIs DEF InsertItemInArray, Fine, Type, Loose
<1>2. PICK after : after = ArrayItem(mem, p, i)
  OBVIOUS
<1>3. mem' = IF after = Null THEN AddItem(mem, p, c) ELSE InsertBefore(mem, p, after, c)
  BY <1>2 DEF InsertItemInArray
<1>4. CASE after = Null
  <2>1. mem' = AddItem(mem, p, c)
    BY <1>3, <1>4
  <2> QED
    BY <1>1, <2>1, RootAdded DEF Stepped
<1>5. CASE after # Null
  <2>1. after \in Items(mem, p) /\ mem' = InsertBefore(mem, p, after, c)
    BY <1>2, <1>3, <1>5, FoundIs
  <2> QED
    BY <1>1, <2>1, RootInserted DEF Stepped
<1> QED
  BY <1>4, <1>5

LEMMA ReplaceItemInArrayMoves ==
    ASSUME Fine, NEW p \in Cell, NEW r \in Cell, NEW i, ReplaceItemInArray(p, i, r)
    PROVE  Stepped
<1>1. /\ Owner(mem, p) /\ Root(mem, r) /\ mem \in Memories /\ Sound(mem) /\ p \notin Swept(mem, {r})
  BY ContainerOwns, LooseIs DEF ReplaceItemInArray, Fine, Type, Loose
<1>2. PICK c : c = ArrayItem(mem, p, i)
  OBVIOUS
<1>3. c \in Items(mem, p) /\ mem' = Replace(mem, p, c, r)
  BY <1>2, FoundIs DEF ReplaceItemInArray
<1> QED
  BY <1>1, <1>3, ItemReplaced DEF Stepped

LEMMA ReplaceItemInObjectMoves ==
    ASSUME Fine, Intact, NEW p \in Cell, NEW r \in Cell, NEW k \in Key, NEW sensitive,
           ReplaceItemInObject(p, k, r, sensitive)
    PROVE  Stepped
<1>1. /\ Owner(mem, p) /\ r \in held /\ p \notin Swept(mem, {r}) /\ Root(mem, r) /\ r \in Live(mem)
      /\ mem \in Memories /\ Sound(mem)
  BY ContainerOwns, LooseIs DEF ReplaceItemInObject, Loose, Type, Fine
<1>2. PICK named \in BOOLEAN :
        LET m == IF named THEN Rename(mem, r, k, FALSE) ELSE Unname(mem, r)
            c == ObjectItem(m, p, k, sensitive)
        IN IF c = Null THEN mem' = m /\ UNCHANGED held
                       ELSE mem' = Replace(m, p, c, r) /\ held' = held \ {r}
  BY DEF ReplaceItemInObject
<1>3. PICK m : m = IF named THEN Rename(mem, r, k, FALSE) ELSE Unname(mem, r)
  OBVIOUS
<1>4. PICK c : c = ObjectItem(m, p, k, sensitive)
  OBVIOUS
<1>5. (c = Null => mem' = m) /\ (c # Null => mem' = Replace(m, p, c, r))
  BY <1>2, <1>3, <1>4
<1>6. SameShape(mem, m) /\ Grown(mem, m, {}) /\ Alike(mem, m, r)
  <2>1. CASE named
    <3>1. PICK const \in BOOLEAN : m = Rename(mem, r, k, const)
      BY <1>3, <2>1
    <3> QED
      BY <1>1, <3>1, RenamedForest, WholeRenamed DEF Intact
  <2>2. CASE ~named
    <3>1. m = Unname(mem, r)
      BY <1>3, <2>2
    <3> QED
      BY <1>1, <3>1, UnnamedForest, WholeUnnamed DEF Intact
  <2> QED
    BY <2>1, <2>2
<1>7. m \in Memories /\ Sound(m) /\ Owner(m, p) /\ Root(m, r) /\ p \notin Swept(m, {r})
  BY <1>1, <1>6 DEF Grown, Alike, Owner
<1>8. CASE c = Null
  BY <1>5, <1>6, <1>8 DEF SameShape, Moves, Stepped
<1>9. CASE c # Null
  <2>1. c \in Items(m, p) /\ mem' = Replace(m, p, c, r)
    BY <1>4, <1>5, <1>9, FoundIs
  <2>2. Moves(m, mem')
    BY <1>7, <2>1, ItemReplaced
  <2> QED
    BY <1>6, <2>2, MovesFrom DEF Stepped
<1> QED
  BY <1>8, <1>9

LEMMA DuplicateMoves ==
    ASSUME Fine, Whole(mem', held', oom'), NEW n \in Fresh, NEW i \in DOMAIN Memory, NEW c \in Live(mem),
           NEW recurse \in BOOLEAN, Duplicate(c, recurse, {Memory[j] : j \in 1..i}, n)
    PROVE  Stepped
<1> DEFINE N == {Memory[j] : j \in 1..i}
<1>1. mem \in Memories /\ Sound(mem) /\ Memory \in Seq(Free(mem)) /\ Free(mem) = Cell \ Live(mem)
  BY MemoryFacts DEF Fine, Free
<1>2. i \in 1..Len(Memory) /\ Len(Memory) \in Nat /\ n = Memory[1]
  BY <1>1 DEF Fresh
<1>3. N \in SUBSET (Cell \ Live(mem)) /\ n \in N
  BY <1>1, <1>2
<1> HIDE DEF N
<1>4. PICK of \in [N -> Cell], via \in [N \ {n} -> Link(N)] :
        LET made == Copied(mem, N, of, via)
        IN IsCopy(mem, c, N, n, of, via) /\ (mem' = made \/ mem' = Delete(made, n))
  BY DEF Duplicate, N
<1>5. PICK made : made = Copied(mem, N, of, via)
  OBVIOUS
<1>6. IsCopy(mem, c, N, n, of, via) /\ (mem' = made \/ mem' = Delete(made, n))
  BY <1>4, <1>5
<1>7. Planted(mem, made, N, n)
  BY <1>1, <1>3, <1>5, <1>6, CopyPlanted
<1>8. CASE mem' = made
  BY <1>1, <1>7, <1>8, MadeForest DEF Stepped
<1>9. CASE mem' = Delete(made, n)
  <2>1. SameShape(mem, mem')
    BY <1>1, <1>7, <1>9, UndoneForest
  <2> QED
    BY <2>1 DEF SameShape, Moves, Stepped
<1> QED
  BY <1>6, <1>8, <1>9

LEMMA DeleteTreeMoves ==
    ASSUME Fine, NEW c \in Cell, DeleteTree(c)
    PROVE  Stepped
<1>1. Root(mem, c) /\ mem' = Delete(mem, c) /\ mem \in Memories /\ Sound(mem)
  BY DEF DeleteTree, Fine
<1> QED
  BY <1>1, RootDeleted DEF Stepped

(* So every step of cJSON's items is one of the forest, or none.           *)
LEMMA NextMoves ==
    ASSUME TypeOK, SoundInv, Intact, Next, Whole(mem', held', oom')
    PROVE  Stepped
<1> USE FineIs
<1>1. ASSUME NEW n \in Fresh, CreateStringReference(n) \/ \E t \in Type : Create(n, t)
      PROVE  Stepped
  BY <1>1, CreateStringReferenceMoves, CreateMoves
<1>2. ASSUME NEW n \in Fresh, NEW c \in Cell, NEW t \in Type \ {"text"}, CreateReference(n, t, c)
      PROVE  Stepped
  BY <1>2, CreateReferenceMoves
<1>3. ASSUME NEW i \in DOMAIN Memory, NEW t \in {"array", "text"},
             CreateFilled(SubSeq(Memory, 1, i), t)
      PROVE  Stepped
  BY <1>3, CreateFilledMoves
<1>4. ASSUME NEW p \in Cell, NEW c \in Cell, AddItemToArray(p, c)
      PROVE  Stepped
  BY <1>4, AddItemToArrayMoves
<1>5. ASSUME NEW p \in Cell, NEW c \in Cell, NEW k \in Key, NEW const \in BOOLEAN,
             AddItemToObject(p, k, c, const)
      PROVE  Stepped
  BY <1>5, AddItemToObjectMoves
<1>6. ASSUME NEW p \in Cell, NEW c \in Cell, NEW n \in Fresh, AddItemReferenceToArray(p, c, n)
      PROVE  Stepped
  BY <1>6, AddItemReferenceToArrayMoves
<1>7. ASSUME NEW p \in Cell, NEW c \in Cell, NEW n \in Fresh, NEW k \in Key,
             AddItemReferenceToObject(p, k, c, n)
      PROVE  Stepped
  BY <1>7, AddItemReferenceToObjectMoves
<1>8. ASSUME NEW p \in Cell, NEW n \in Fresh, NEW k \in Key, NEW t \in Type,
             AddNewToObject(p, k, t, n)
      PROVE  Stepped
  BY <1>8, AddNewToObjectMoves
<1>9. ASSUME NEW p \in Cell, NEW i \in 0..Cardinality(Cell), FromArray(p, i)
      PROVE  Stepped
  BY <1>9, FromArrayMoves
<1>10. ASSUME NEW p \in Cell, NEW k \in Key, NEW sensitive \in BOOLEAN, FromObject(p, k, sensitive)
       PROVE  Stepped
  BY <1>10, FromObjectMoves
<1>11. ASSUME NEW p \in Cell, NEW c \in Cell, NEW i \in 0..Cardinality(Cell),
              InsertItemInArray(p, i, c) \/ ReplaceItemInArray(p, i, c)
       PROVE  Stepped
  BY <1>11, InsertItemInArrayMoves, ReplaceItemInArrayMoves
<1>12. ASSUME NEW p \in Cell, NEW r \in Cell, NEW k \in Key, NEW sensitive \in BOOLEAN,
              ReplaceItemInObject(p, k, r, sensitive)
       PROVE  Stepped
  BY <1>12, ReplaceItemInObjectMoves
<1>13. ASSUME NEW n \in Fresh, NEW i \in DOMAIN Memory, NEW c \in Live(mem), NEW recurse \in BOOLEAN,
              Duplicate(c, recurse, {Memory[j] : j \in 1..i}, n)
       PROVE  Stepped
  BY <1>13, DuplicateMoves
<1>14. ASSUME NEW c \in Cell, DeleteTree(c)
       PROVE  Stepped
  BY <1>14, DeleteTreeMoves
<1> QED
  BY <1>1, <1>2, <1>3, <1>4, <1>5, <1>6, <1>7, <1>8, <1>9, <1>10, <1>11, <1>12, <1>13, <1>14
     DEF Next
-----------------------------------------------------------------------------
(* Every item of cJSON's memory has the fields of the struct cJSON, and    *)
(* the client's pointers are to items.                                     *)
THEOREM TypeCorrect == Spec => []TypeOK
<1>1. Init => TypeOK /\ SoundInv
  BY InitFine
<1>2. TypeOK /\ SoundInv /\ [Next]_vars => TypeOK' /\ SoundInv'
  BY NextFine
<1> QED
  BY <1>1, <1>2, PTL DEF Spec

(* In any tree, after any sequence of calls, lists are doubly linked and   *)
(* no list and no owning container knows freed memory: the links that      *)
(* add_item_to_array, cJSON_DetachItemViaPointer, cJSON_InsertItemInArray, *)
(* cJSON_ReplaceItemViaPointer and cJSON_Duplicate set agree with what     *)
(* cJSON_Delete frees.                                                     *)
THEOREM LinksHold == Spec => []LinksSound
<1>1. Init => TypeOK /\ SoundInv
  BY InitFine
<1>2. TypeOK /\ SoundInv /\ [Next]_vars => TypeOK' /\ SoundInv'
  BY NextFine
<1>3. SoundInv => LinksSound
  BY DEF SoundInv, Sound, LinksSound
<1> QED
  BY <1>1, <1>2, <1>3, PTL DEF Spec

(* The flags of the items tell of every allocated name and text who frees  *)
(* it: none is freed twice and none is forgotten by cJSON_Delete, whatever *)
(* allocation fails.                                                       *)
THEOREM StringsHold == Spec => []StringsOwned
<1>1. Init => TypeOK /\ SoundInv
  BY InitFine
<1>2. TypeOK /\ SoundInv /\ [Next]_vars => TypeOK' /\ SoundInv'
  BY NextFine
<1>3. SoundInv => StringsOwned
  BY DEF SoundInv, Sound, StringsOwned
<1> QED
  BY <1>1, <1>2, <1>3, PTL DEF Spec

(* Whatever is allocated is held by the client or hangs below what is, so  *)
(* that cJSON_Delete reaches it, after any sequence of calls in which any  *)
(* allocation may fail, and what is held is in no list: only the reference *)
(* that cJSON_AddItemReferenceToObject could not name is lost.             *)
THEOREM NothingLostHolds == Spec => []NothingLost
<1>1. Init => TypeOK /\ SoundInv /\ Intact
  BY InitFine, InitWhole
<1>2. TypeOK /\ SoundInv /\ Intact /\ [Next]_vars => TypeOK' /\ SoundInv' /\ Intact'
  BY NextFine, NextWhole
<1>3. Intact => NothingLost
  BY DEF Intact, Whole, Safe, Nobody, NothingLost, Root
<1> QED
  BY <1>1, <1>2, <1>3, PTL DEF Spec

(* A member of an object has a name: only the one that a replacement could *)
(* not be given, and copies of it and of what a reference shows, have none,*)
(* whatever is detached, inserted, replaced or copied.                     *)
THEOREM MembersNamedHolds == Spec => []MembersNamed
<1>1. Init => TypeOK /\ SoundInv /\ Intact
  BY InitFine, InitWhole
<1>2. TypeOK /\ SoundInv /\ Intact /\ [Next]_vars => TypeOK' /\ SoundInv' /\ Intact'
  BY NextFine, NextWhole
<1>3. Intact => MembersNamed
  BY DEF Intact, Whole, Listed, Explained, Object, Owner, MembersNamed, Container
<1> QED
  BY <1>1, <1>2, <1>3, PTL DEF Spec

(* cJSON's lists are a forest of ordered trees, for any number of items:   *)
(* every call makes new trees, puts a root or a new item into one list,    *)
(* takes an item out of it as a root, or ends a tree, and no list but that *)
(* one changes its items or their order; a call that fails changes nothing.*)
THEOREM ForestImplemented == Spec => ImplementsForest
<1>1. Init => Forest!Init
  <2> SUFFICES ASSUME Init PROVE Forest!Init
    OBVIOUS
  <2>1. mem.cell = [c \in Cell |-> Blank]
    BY DEF Init
  <2>2. Live(mem) = {}
    BY <2>1 DEF Live, Blank
  <2>3. Lists(mem) = [c \in Cell |-> <<>>]
    BY <2>2 DEF Lists, Owner
  <2> QED
    BY <2>2, <2>3 DEF Forest!Init
<1>2. Init => TypeOK /\ SoundInv /\ Intact
  BY InitFine, InitWhole
<1>3. TypeOK /\ SoundInv /\ Intact /\ [Next]_vars => TypeOK' /\ SoundInv' /\ Intact'
  BY NextFine, NextWhole
<1>4. TypeOK /\ SoundInv /\ Intact /\ [Next]_vars => [Forest!Next]_Forest!vars
  <2>1. ASSUME TypeOK, SoundInv, Intact, Next PROVE [Forest!Next]_Forest!vars
    <3>1. Whole(mem', held', oom')
      BY <2>1, NextWhole DEF Intact
    <3>2. Moves(mem, mem')
      BY <2>1, <3>1, NextMoves DEF Stepped
    <3> QED
      BY <3>2 DEF Moves, Forest!Next, Forest!vars
  <2>2. ASSUME UNCHANGED vars PROVE UNCHANGED Forest!vars
    BY <2>2 DEF vars, Forest!vars
  <2> QED
    BY <2>1, <2>2
<1> QED
  BY <1>1, <1>2, <1>3, <1>4, PTL DEF Spec, ImplementsForest, Forest!Spec
=============================================================================
