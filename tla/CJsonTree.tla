------------------------------ MODULE CJsonTree ------------------------------
(***************************************************************************)
(* cJSON's items in memory: who owns an item, its name and its text, and   *)
(* how items hang together in doubly linked lists, under every call that   *)
(* makes, adds, references, takes out, replaces, copies or deletes items.  *)
(*                                                                         *)
(* A call is one step.  Any allocation may fail.  The client keeps cJSON's *)
(* rules: it adds, replaces with and deletes only items that are in no     *)
(* list, puts nothing below itself, names the members of objects, and      *)
(* changes no list through a reference; it may go on referring to what it  *)
(* has deleted, but does not copy it then.                                 *)
(*                                                                         *)
(* "text" stands for strings and raw text, "array" also for values without *)
(* children.  A pointer to freed memory is Wild.                           *)
(***************************************************************************)
EXTENDS Integers, FiniteSets, SequencesExt

CONSTANTS Cell, Key, NoKey, Null, Wild,
          Lower       \* tolower of a name

ASSUME CJsonAssumption ==
    /\ NoKey \notin Key /\ Null # Wild /\ {Null, Wild} \cap Cell = {}
    /\ IsFiniteSet(Cell)
    /\ Lower \in [Key -> Key]

VARIABLES
    mem,     \* the items, and the number of allocated names and texts
    held,    \* the items the client has a pointer to and must delete
    oom      \* history: items whose new name could not be allocated

vars == <<mem, held, oom>>

Type    == {"array", "object", "text"}

Pointer == Cell \cup {Null, Wild}

(* The type invariant.  A free item has no type.                           *)
Item ==
    [type : Type \cup {"free"}, ref : BOOLEAN, const : BOOLEAN, key : Key \cup {NoKey},
     next : Pointer, prev : Pointer, child : Pointer]
TypeOK ==
    mem \in [cell : [Cell -> Item], strings : Int] /\ held \subseteq Cell /\ oom \subseteq Cell

Blank == [type |-> "free", ref |-> FALSE, const |-> FALSE, key |-> NoKey,
          next |-> Null, prev |-> Null, child |-> Null]

Init ==
    /\ mem = [cell |-> [c \in Cell |-> Blank], strings |-> 0]
    /\ held = {} /\ oom = {}

-----------------------------------------------------------------------------
(* Reading.                                                                *)
Live(m) == {c \in Cell : m.cell[c].type # "free"}
Free(m) == Cell \ Live(m)

(* The items met from those of S, where out leads on: no set that is closed*)
(* can do without them.                                                    *)
Reach(out, S) ==
    {c \in Cell : ~ \E T \in SUBSET (Cell \ {c}) : S \subseteq T /\ \A d \in T : out[d] \subseteq T}

(* The list from c on, and the list of p.                                  *)
Along(m)    == [c \in Cell |-> {m.cell[c].next} \cap Cell]
Ahead(m, c) == Reach(Along(m), {c} \cap Cell)
Items(m, p) == Ahead(m, m.cell[p].child)

Pick(S) == IF S = {} THEN Null ELSE CHOOSE c \in S : TRUE

(* get_array_item: i items come before; get_object_item: the first match.  *)
(* No item matches a missing name.                                         *)
ArrayItem(m, p, i) == Pick({c \in Items(m, p) : Cardinality(Items(m, p) \ Ahead(m, c)) = i})

ObjectItem(m, p, k, sensitive) ==
    LET Named(name) == name # NoKey /\ IF sensitive THEN name = k ELSE Lower[name] = Lower[k]
        named == {c \in Items(m, p) : Named(m.cell[c].key)}
    IN Pick({c \in named : named \subseteq Ahead(m, c)})

(* What cJSON_Delete goes through ...                                      *)
Owned(m) ==
    [c \in Cell |-> ({m.cell[c].next} \cup IF m.cell[c].ref THEN {} ELSE {m.cell[c].child}) \cap Cell]
Swept(m, S) == Reach(Owned(m), S)

(* ... and what a copy of c sees below it, in references, too.             *)
Shown(m)    == [c \in Cell |-> {m.cell[c].next, m.cell[c].child} \cap Cell]
Below(m, c) == Reach(Shown(m), {m.cell[c].child} \cap Cell)

(* A copy of c comes to an end and meets no freed item.                    *)
Copyable(m, c) ==
    /\ m.cell[c].child # Wild
    /\ \A d \in Below(m, c) : Wild \notin {m.cell[d].next, m.cell[d].child}
    /\ \A d \in {c} \cup Below(m, c) : d \notin Below(m, d)

-----------------------------------------------------------------------------
(* Writing.                                                                *)
OwnsName(m, c) == ~m.cell[c].const /\ m.cell[c].key # NoKey
OwnsText(m, c) == ~m.cell[c].ref /\ m.cell[c].type = "text"

Strings(m, S) == Cardinality({c \in S : OwnsName(m, c)}) + Cardinality({c \in S : OwnsText(m, c)})

Delete(m, c) ==
    LET S == Swept(m, {c})
        To(q) == IF q \in S THEN Wild ELSE q
    IN [cell |-> [d \in Cell |-> IF d \in S THEN Blank
                  ELSE [m.cell[d] EXCEPT !.next = To(@), !.prev = To(@), !.child = To(@)]],
        strings |-> m.strings - Strings(m, S)]

New(m, c, t) ==
    [m EXCEPT !.cell[c] = [Blank EXCEPT !.type = t],
              !.strings = IF t = "text" THEN @ + 1 ELSE @]

(* create_reference: the flag of a constant name stays, the name goes.     *)
Reference(m, c, r) ==
    [m EXCEPT !.cell[r] = [m.cell[c] EXCEPT !.ref = TRUE, !.key = NoKey, !.next = Null, !.prev = Null]]

(* Variant of the next definition: the old name is not freed.              *)
RenameKeeps(m, c, k, const) ==
    [m EXCEPT !.cell[c].key = k, !.cell[c].const = const,
              !.strings = @ + (IF const THEN 0 ELSE 1)]

Rename(m, c, k, const) ==
    [m EXCEPT !.cell[c].key = k, !.cell[c].const = const,
              !.strings = @ - (IF OwnsName(m, c) THEN 1 ELSE 0) + (IF const THEN 0 ELSE 1)]

(* The name of a replacement, whose allocation nobody looks at.            *)
Unname(m, c) ==
    [m EXCEPT !.cell[c].key = NoKey, !.cell[c].const = FALSE,
              !.strings = @ - (IF OwnsName(m, c) THEN 1 ELSE 0)]

Suffix(m, c, d) == [m EXCEPT !.cell[c].next = d, !.cell[d].prev = c]

AddItem(m, p, c) ==
    IF m.cell[p].child = Null THEN [m EXCEPT !.cell[p].child = c]
    ELSE Suffix(m, Pick({d \in Items(m, p) : m.cell[d].next = Null}), c)

(* Variant of the next definition: the next item keeps its prev.           *)
DetachHalf(m, p, c) ==
    LET i == m.cell[c]
        a == IF i.prev # Null THEN [m EXCEPT !.cell[i.prev].next = i.next] ELSE m
        b == IF m.cell[p].child = c THEN [a EXCEPT !.cell[p].child = i.next] ELSE a
    IN [b EXCEPT !.cell[c].prev = Null, !.cell[c].next = Null]

Detach(m, p, c) ==
    LET i == m.cell[c]
        a == IF i.prev # Null THEN [m EXCEPT !.cell[i.prev].next = i.next] ELSE m
        b == IF i.next # Null THEN [a EXCEPT !.cell[i.next].prev = i.prev] ELSE a
        d == IF m.cell[p].child = c THEN [b EXCEPT !.cell[p].child = i.next] ELSE b
    IN [d EXCEPT !.cell[c].prev = Null, !.cell[c].next = Null]

InsertBefore(m, p, after, c) ==
    LET before == m.cell[after].prev
        a == [m EXCEPT !.cell[c].next = after, !.cell[c].prev = before, !.cell[after].prev = c]
    IN IF m.cell[p].child = after THEN [a EXCEPT !.cell[p].child = c] ELSE [a EXCEPT !.cell[before].next = c]

(* Variant of the next definition: the old item still knows the rest.      *)
ReplaceLinked(m, p, c, r) ==
    LET i == m.cell[c]
        a == [m EXCEPT !.cell[r].next = i.next, !.cell[r].prev = i.prev]
        b == IF i.next # Null THEN [a EXCEPT !.cell[i.next].prev = r] ELSE a
        d == IF i.prev # Null THEN [b EXCEPT !.cell[i.prev].next = r] ELSE b
        e == IF m.cell[p].child = c THEN [d EXCEPT !.cell[p].child = r] ELSE d
    IN Delete(e, c)

Replace(m, p, c, r) ==
    LET i == m.cell[c]
        a == [m EXCEPT !.cell[r].next = i.next, !.cell[r].prev = i.prev]
        b == IF i.next # Null THEN [a EXCEPT !.cell[i.next].prev = r] ELSE a
        d == IF i.prev # Null THEN [b EXCEPT !.cell[i.prev].next = r] ELSE b
        e == IF m.cell[p].child = c THEN [d EXCEPT !.cell[p].child = r] ELSE d
    IN Delete([e EXCEPT !.cell[c].next = Null, !.cell[c].prev = Null], c)

(* A new array of the items of f after the first.                          *)
Filled(m, f, t) ==
    LET At(i) == IF i \in 2..Len(f) THEN f[i] ELSE Null
        Made(i) == IF i = 1 THEN [Blank EXCEPT !.type = "array", !.child = At(2)]
                   ELSE [Blank EXCEPT !.type = t, !.next = At(i + 1), !.prev = At(i - 1)]
    IN [cell |-> [c \in Cell |-> IF c \in ToSet(f) THEN Made(CHOOSE i \in DOMAIN f : f[i] = c)
                                ELSE m.cell[c]],
        strings |-> IF t = "text" THEN m.strings + Len(f) - 1 ELSE m.strings]

(* A copy in the items of N: item x is a copy of of[x] and hangs on the    *)
(* child or the next of another one, via[x]; n comes first.                *)
Link(N) == N \X {"child", "next"}
At(via, l) == Pick({x \in DOMAIN via : via[x] = l})

Copied(m, N, of, via) ==
    [cell |-> [x \in Cell |->
        IF x \notin N THEN m.cell[x]
        ELSE [m.cell[of[x]] EXCEPT
                !.ref = FALSE, !.child = At(via, <<x, "child">>), !.next = At(via, <<x, "next">>),
                !.prev = IF x \in DOMAIN via /\ via[x][2] = "next" THEN via[x][1] ELSE Null]],
     strings |-> m.strings + Cardinality({x \in N : m.cell[of[x]].type = "text"})
                           + Cardinality({x \in N : OwnsName(m, of[x])})]

(* Items are copied one after the other, from c on, ...                    *)
IsCopy(m, c, N, n, of, via) ==
    /\ of[n] = c /\ \A x \in N \ {n} : via[x] # <<n, "next">>
    /\ \A x \in N \ {n} : LET i == m.cell[of[via[x][1]]] IN
          of[x] = IF via[x][2] = "next" THEN i.next ELSE i.child
    /\ \A x, y \in N \ {n} : via[x] = via[y] => x = y
    /\ Swept(Copied(m, N, of, via), {n}) = N

(* ... until there are no more.                                            *)
Complete(m, N, n, of, via) ==
    \A x \in N : /\ m.cell[of[x]].child # Null => At(via, <<x, "child">>) # Null
                 /\ m.cell[of[x]].next # Null /\ x # n => At(via, <<x, "next">>) # Null

-----------------------------------------------------------------------------
(* The calls.  p is a container of the client's that is no reference, c an *)
(* item in no list, n an item of free memory.                              *)
Container(p, t) == mem.cell[p].type = t /\ ~mem.cell[p].ref
Loose(p, c)     == c \in held /\ p \notin Swept(mem, {c})
Kept            == oom' = oom \cap Live(mem')

(* The constructors, cJSON_CreateString and cJSON_CreateRaw with a text.   *)
Create(n, t) ==
    /\ mem' = New(mem, n, t) /\ held' = held \cup {n} /\ UNCHANGED oom

CreateStringReference(n) ==
    /\ mem' = [mem EXCEPT !.cell[n] = [Blank EXCEPT !.type = "text", !.ref = TRUE]]
    /\ held' = held \cup {n} /\ UNCHANGED oom

(* cJSON_CreateObjectReference and cJSON_CreateArrayReference to the items *)
(* of some such container.                                                 *)
CreateReference(n, t, c) ==
    /\ \E p \in Live(mem) : Container(p, t) /\ mem.cell[p].child = c
    /\ mem' = [mem EXCEPT !.cell[n] = [Blank EXCEPT !.type = t, !.ref = TRUE, !.child = c]]
    /\ held' = held \cup {n} /\ UNCHANGED oom

(* Variant of the next definition: the array is not deleted.               *)
CreateFilledKeeps(f, t) ==
    /\ mem' = Filled(mem, f, t) /\ UNCHANGED oom
    /\ held' = held \cup {f[1]} \/ UNCHANGED held

(* cJSON_CreateIntArray and its like: an array of all items, or memory is  *)
(* enough for f only.                                                      *)
CreateFilled(f, t) ==
    /\ \/ mem' = Filled(mem, f, t) /\ held' = held \cup {f[1]}
       \/ mem' = Delete(Filled(mem, f, t), f[1]) /\ UNCHANGED held
    /\ UNCHANGED oom

AddItemToArray(p, c) ==
    /\ Container(p, "array") /\ Loose(p, c)
    /\ mem' = AddItem(mem, p, c) /\ held' = held \ {c} /\ UNCHANGED oom

(* cJSON_AddItemToObject and cJSON_AddItemToObjectCS.                      *)
AddItemToObject(p, k, c, const) ==
    /\ Container(p, "object") /\ Loose(p, c)
    /\ mem' = AddItem(Rename(mem, c, k, const), p, c)
    /\ held' = held \ {c} /\ oom' = oom \ {c}

AddItemReferenceToArray(p, c, n) ==
    /\ Container(p, "array") /\ c \in Live(mem)
    /\ mem' = AddItem(Reference(mem, c, n), p, n)
    /\ UNCHANGED <<held, oom>>

(* Without memory for the name the reference is nobody's.                  *)
AddItemReferenceToObject(p, k, c, n) ==
    /\ Container(p, "object") /\ c \in Live(mem)
    /\ LET r == Reference(mem, c, n) IN mem' \in {AddItem(Rename(r, n, k, FALSE), p, n), r}
    /\ UNCHANGED <<held, oom>>

(* Variant of the next definition: without a name it is added all the same.*)
AddNewToObjectAnyway(p, k, t, n) ==
    /\ Container(p, "object")
    /\ LET c == New(mem, n, t) IN mem' \in {AddItem(Rename(c, n, k, FALSE), p, n), AddItem(c, p, n)}
    /\ UNCHANGED <<held, oom>>

(* cJSON_AddNullToObject and its like.                                     *)
AddNewToObject(p, k, t, n) ==
    /\ Container(p, "object")
    /\ LET c == New(mem, n, t) IN mem' \in {AddItem(Rename(c, n, k, FALSE), p, n), Delete(c, n)}
    /\ UNCHANGED <<held, oom>>

(* cJSON_DetachItemViaPointer, FromArray and FromObject, ...               *)
DetachItem(p, c) ==
    /\ c # Null
    /\ mem' = Detach(mem, p, c) /\ held' = held \cup {c} /\ UNCHANGED oom

(* ... and cJSON_DeleteItemFromArray and FromObject.                       *)
DeleteItem(p, c) ==
    /\ c # Null
    /\ mem' = Delete(Detach(mem, p, c), c) /\ UNCHANGED held /\ Kept

FromArray(p, i) ==
    /\ Container(p, "array")
    /\ \/ DetachItem(p, ArrayItem(mem, p, i))
       \/ DeleteItem(p, ArrayItem(mem, p, i))

(* strcmp needs every name before the match.                               *)
Searchable(p, sensitive) == sensitive => \A c \in Items(mem, p) : mem.cell[c].key # NoKey

FromObject(p, k, sensitive) ==
    /\ Container(p, "object") /\ Searchable(p, sensitive)
    /\ \/ DetachItem(p, ObjectItem(mem, p, k, sensitive))
       \/ DeleteItem(p, ObjectItem(mem, p, k, sensitive))

InsertItemInArray(p, i, c) ==
    /\ Container(p, "array") /\ Loose(p, c)
    /\ LET after == ArrayItem(mem, p, i) IN
       mem' = IF after = Null THEN AddItem(mem, p, c) ELSE InsertBefore(mem, p, after, c)
    /\ held' = held \ {c} /\ UNCHANGED oom

(* cJSON_ReplaceItemViaPointer and cJSON_ReplaceItemInArray.               *)
ReplaceItemInArray(p, i, r) ==
    /\ Container(p, "array") /\ Loose(p, r) /\ ArrayItem(mem, p, i) # Null
    /\ mem' = Replace(mem, p, ArrayItem(mem, p, i), r)
    /\ held' = held \ {r} /\ Kept

(* The replacement is renamed whether there is something to replace or not;*)
(* its new name may be missing.                                            *)
ReplaceItemInObject(p, k, r, sensitive) ==
    /\ Container(p, "object") /\ Loose(p, r) /\ Searchable(p, sensitive)
    /\ \E named \in BOOLEAN :
       LET m == IF named THEN Rename(mem, r, k, FALSE) ELSE Unname(mem, r)
           c == ObjectItem(m, p, k, sensitive)
       IN /\ IF c = Null THEN mem' = m /\ UNCHANGED held
                         ELSE mem' = Replace(m, p, c, r) /\ held' = held \ {r}
          /\ oom' = (IF named THEN oom \ {r} ELSE oom \cup {r}) \cap Live(mem')

(* Memory is enough for N: all is copied, or nothing is left.  A copy has  *)
(* a name missing where the original has.                                  *)
Duplicate(c, recurse, N, n) ==
    /\ IF recurse THEN Copyable(mem, c) ELSE N = {n}
    /\ \E of \in [N -> Cell], via \in [N \ {n} -> Link(N)] :
        LET made == Copied(mem, N, of, via)
            shown == UNION {Items(made, x) : x \in {y \in N : mem.cell[of[y]].ref}}
        IN /\ IsCopy(mem, c, N, n, of, via)
           /\ \/ /\ recurse => Complete(mem, N, n, of, via)
                 /\ mem' = made /\ held' = held \cup {n}
                 /\ oom' = oom \cup {x \in N : made.cell[x].key = NoKey /\ (of[x] \in oom \/ x \in shown)}
              \/ mem' = Delete(made, n) /\ UNCHANGED <<held, oom>>

DeleteTree(c) ==
    /\ c \in held
    /\ mem' = Delete(mem, c) /\ held' = held \ {c} /\ Kept

(* What malloc hands out, in turn.  Items of free memory are all alike, so *)
(* one order stands for every other.                                       *)
Memory == SetToSeq(Free(mem))
Fresh  == {Memory[i] : i \in DOMAIN Memory \cap {1}}

Next ==
    \/ \E n \in Fresh : CreateStringReference(n) \/ \E t \in Type : Create(n, t)
    \/ \E n \in Fresh, c \in Cell, t \in Type \ {"text"} : CreateReference(n, t, c)
    \/ \E i \in DOMAIN Memory, t \in {"array", "text"} : CreateFilled(SubSeq(Memory, 1, i), t)
    \/ \E p, c \in Cell : AddItemToArray(p, c)
    \/ \E p, c \in Cell, k \in Key, const \in BOOLEAN : AddItemToObject(p, k, c, const)
    \/ \E p, c \in Cell, n \in Fresh : AddItemReferenceToArray(p, c, n)
    \/ \E p, c \in Cell, n \in Fresh, k \in Key : AddItemReferenceToObject(p, k, c, n)
    \/ \E p \in Cell, n \in Fresh, k \in Key, t \in Type : AddNewToObject(p, k, t, n)
    \/ \E p \in Cell, i \in 0..Cardinality(Cell) : FromArray(p, i)
    \/ \E p \in Cell, k \in Key, sensitive \in BOOLEAN : FromObject(p, k, sensitive)
    \/ \E p, c \in Cell, i \in 0..Cardinality(Cell) : InsertItemInArray(p, i, c) \/ ReplaceItemInArray(p, i, c)
    \/ \E p, r \in Cell, k \in Key, sensitive \in BOOLEAN : ReplaceItemInObject(p, k, r, sensitive)
    \/ \E n \in Fresh, i \in DOMAIN Memory, c \in Live(mem), recurse \in BOOLEAN :
          Duplicate(c, recurse, {Memory[j] : j \in 1..i}, n)
    \/ \E c \in Cell : DeleteTree(c)

Spec == Init /\ [][Next]_vars

-----------------------------------------------------------------------------
(* Lists are doubly linked and start without prev; no list and no          *)
(* container that owns its items knows freed memory, whatever references   *)
(* were made to what.                                                      *)
Linked(m) ==
    \A c \in Live(m) : LET i == m.cell[c] IN
        /\ i.next # Null => i.next \in Live(m) /\ m.cell[i.next].prev = c
        /\ i.prev # Null => i.prev \in Live(m) /\ m.cell[i.prev].next = c
        /\ i.child # Null /\ ~i.ref => i.child \in Live(m) /\ m.cell[i.child].prev = Null
LinksSound == Linked(mem)

(* Every allocated name and text will be freed, once, by cJSON_Delete:     *)
(* what the flags say of names and texts is what was allocated.            *)
Owns(m) == m.strings = Strings(m, Live(m))
StringsOwned == Owns(mem)

(* Every item is in a tree the client can delete, also after an allocation *)
(* has failed in the middle of a call; only a reference that could not be  *)
(* given its name is lost.                                                 *)
NothingLost ==
    /\ \A c \in held : mem.cell[c].next = Null /\ mem.cell[c].prev = Null
    /\ \A c \in Live(mem) \ Swept(mem, held) : mem.cell[c].ref /\ mem.cell[c].key = NoKey

(* A member of an object has a name unless a replacement's could not be    *)
(* allocated, or it is a copy of such a one or of what a reference shows.  *)
MembersNamed ==
    \A p \in Live(mem) : Container(p, "object") =>
        \A c \in Items(mem, p) : mem.cell[c].key = NoKey => c \in oom
-----------------------------------------------------------------------------
(* The inductive invariant of links and strings.  A list belongs to one    *)
(* container, and the client holds what is in no list and no container.    *)
Owner(m, p) == p \in Live(m) /\ ~m.cell[p].ref

OneOwner(m) ==
    \A p, q \in Cell : Owner(m, p) /\ Owner(m, q) /\ m.cell[p].child = m.cell[q].child
        => p = q \/ m.cell[p].child = Null

Root(m, c) ==
    /\ c \in Live(m) /\ m.cell[c].next = Null /\ m.cell[c].prev = Null
    /\ \A p \in Cell : Owner(m, p) => m.cell[p].child # c

(* References know what is alive or that it is not.                        *)
Known(m) == \A c \in Live(m) : m.cell[c].child \in Live(m) \cup {Null, Wild}

Sound(m) == Linked(m) /\ Known(m) /\ OneOwner(m) /\ Owns(m)

SoundInv == Sound(mem) /\ \A c \in held : Root(mem, c)
=============================================================================
