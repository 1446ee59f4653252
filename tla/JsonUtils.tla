------------------------------ MODULE JsonUtils ------------------------------
(***************************************************************************)
(* cJSON_Utils: JSON pointers, patches, merge patches and sorting, as      *)
(* functions of trees.                                                     *)
(*                                                                         *)
(* A place in a tree is the sequence of child numbers that leads to it;    *)
(* Nowhere is the NULL item.  A patch is a record of its members; None is  *)
(* a value that is missing.  The names of objects are without '/': what    *)
(* encode_string_as_pointer writes for that is not defined.                *)
(*                                                                         *)
(* Comparing two trees and generating patches sort the objects of both in  *)
(* place; those operators return the trees with their result.  Sorting     *)
(* leaves the prev of a new first member as it was (stale).  Taking that   *)
(* member out then writes through it: into a later member, which closes    *)
(* the list to a ring, or into memory that was freed.  The tree is Broken  *)
(* from then on, whatever is done to it.                                   *)
(***************************************************************************)
EXTENDS JsonText

TILDE   == 126
Nowhere == <<0>>
None    == Item("missing")
Broken  == Item("broken")

RECURSIVE At(_, _), Change(_, _, _)
At(v, at) == IF at = <<>> THEN v ELSE At(v.kids[Head(at)], Tail(at))

(* v with w at that place.                                                 *)
Change(v, at, w) ==
    IF at = <<>> THEN w ELSE [v EXCEPT !.kids[Head(at)] = Change(@, Tail(at), w)]

(* cJSON_Duplicate links new lists.                                        *)
RECURSIVE Duplicate(_)
Duplicate(v) == [v EXCEPT !.stale = FALSE, !.kids = [i \in DOMAIN @ |-> Duplicate(@[i])]]

-----------------------------------------------------------------------------
(* Sorting.  compare_strings as a sign; it takes NULL for greater.         *)
Sign(n) == IF n < 0 THEN -1 ELSE IF n > 0 THEN 1 ELSE 0

RECURSIVE Strcmp(_, _)
Strcmp(s, t) ==
    IF s = <<>> \/ t = <<>> THEN Sign(Len(s) - Len(t))
    ELSE IF Head(s) = Head(t) THEN Strcmp(Tail(s), Tail(t)) ELSE Sign(Head(s) - Head(t))

CompareStrings(s, t, sensitive) ==
    IF s = NoString \/ t = NoString THEN 1
    ELSE IF sensitive THEN Strcmp(s, t) ELSE Strcmp(Lower(s), Lower(t))

(* sort_list merges without regard to case.                                *)
RECURSIVE Merge(_, _), SortList(_, _)
Merge(s, t) ==
    IF s = <<>> THEN t ELSE IF t = <<>> THEN s
    ELSE IF CompareStrings(Head(s).name, Head(t).name, FALSE) < 0
         THEN <<Head(s)>> \o Merge(Tail(s), t) ELSE <<Head(t)>> \o Merge(s, Tail(t))

SortList(s, sensitive) ==
    LET half == (Len(s) + 1) \div 2 IN
    IF \A i \in 1..Len(s) - 1 : CompareStrings(s[i].name, s[i + 1].name, sensitive) < 0 THEN s
    ELSE Merge(SortList(SubSeq(s, 1, half), sensitive), SortList(SubSeq(s, half + 1, Len(s)), sensitive))

(* sort_object; the first member is a new one when another one was first.  *)
SortObject(v, sensitive) ==
    LET s == SortList([i \in DOMAIN v.kids |-> [name |-> v.kids[i].name, at |-> i]], sensitive)
    IN [v EXCEPT !.kids = [i \in DOMAIN @ |-> @[s[i].at]], !.stale = @ \/ (s # <<>> /\ s[1].at # 1)]

(* What is found about two trees or two lists, and both as they are then;  *)
(* for their first items and for the rest of them.                         *)
Outcome(found, from, to) == [found |-> found, from |-> from, to |-> to]
Both(found, one, rest)   == Outcome(found, <<one.from>> \o rest.from, <<one.to>> \o rest.to)
Inside(v, w, r)          == Outcome(r.found, [v EXCEPT !.kids = r.from], [w EXCEPT !.kids = r.to])

(* compare_json; it stops at the first difference.                         *)
RECURSIVE CompareJson(_, _, _), CompareKids(_, _, _, _)
CompareKids(s, t, named, sensitive) ==
    LET one  == CompareJson(Head(s), Head(t), sensitive)
        rest == IF one.found THEN CompareKids(Tail(s), Tail(t), named, sensitive)
                ELSE Outcome(FALSE, Tail(s), Tail(t))
    IN IF s = <<>> \/ t = <<>> THEN Outcome(s = t, s, t)
       ELSE IF named /\ CompareStrings(Head(s).name, Head(t).name, sensitive) # 0 THEN Outcome(FALSE, s, t)
       ELSE Both(rest.found, one, rest)

CompareJson(a, b, sensitive) ==
    LET x == SortObject(a, sensitive)
        y == SortObject(b, sensitive)
    IN IF a = None \/ b = None \/ a.type # b.type THEN Outcome(FALSE, a, b)
       ELSE IF a.type = "array" THEN Inside(a, b, CompareKids(a.kids, b.kids, FALSE, sensitive))
       ELSE IF a.type = "object" THEN Inside(x, y, CompareKids(x.kids, y.kids, TRUE, sensitive))
       ELSE Outcome((a.type = "number" => a.number = b.number) /\ (a.type = "string" => a.text = b.text), a, b)

-----------------------------------------------------------------------------
(* JSON pointers; a byte past the end is the final 0.                      *)
Char(s, i) == IF i \in DOMAIN s THEN s[i] ELSE 0
IsEnd(c)   == c = 0 \/ c = SLASH

(* compare_pointers of the name from j and the pointer from i.             *)
RECURSIVE ComparePointers(_, _, _, _, _)

(* Variant of the next definition: case never matters.                     *)
ComparePointersAnyCase(name, j, ptr, i, sensitive) ==
    LET n == Char(name, j)
        c == Char(ptr, i)
        escape == Char(ptr, i + 1)
    IN IF n = 0 \/ IsEnd(c) THEN n = 0 /\ IsEnd(c)
       ELSE IF c = TILDE
            THEN <<escape, n>> \in {<<48, TILDE>>, <<49, SLASH>>} /\ ComparePointers(name, j + 1, ptr, i + 2, sensitive)
       ELSE SameName(<<n>>, <<c>>, FALSE) /\ ComparePointers(name, j + 1, ptr, i + 1, sensitive)

ComparePointers(name, j, ptr, i, sensitive) ==
    LET n == Char(name, j)
        c == Char(ptr, i)
        escape == Char(ptr, i + 1)
    IN IF n = 0 \/ IsEnd(c) THEN n = 0 /\ IsEnd(c)
       ELSE IF c = TILDE
            THEN <<escape, n>> \in {<<48, TILDE>>, <<49, SLASH>>} /\ ComparePointers(name, j + 1, ptr, i + 2, sensitive)
       ELSE SameName(<<n>>, <<c>>, sensitive) /\ ComparePointers(name, j + 1, ptr, i + 1, sensitive)

(* decode_array_index_from_pointer: -1 if it is none.  Its loop looks at   *)
(* the first byte for the upper bound.                                     *)
RECURSIVE IndexFrom(_, _, _, _)
IndexFrom(s, first, i, n) ==
    IF Char(s, i) >= 48 /\ Char(s, first) <= 57 THEN IndexFrom(s, first, i + 1, 10 * n + Char(s, i) - 48)
    ELSE IF IsEnd(Char(s, i)) THEN n ELSE -1

ArrayIndex(s, i) == IF Char(s, i) = 48 /\ ~IsEnd(Char(s, i + 1)) THEN -1 ELSE IndexFrom(s, i, i, 0)

NextToken(s, i) == LET j == SelectInSubSeq(s, i, Len(s), LAMBDA c : c = SLASH) IN IF j = 0 THEN Len(s) + 1 ELSE j

(* get_item_from_pointer from i on, at a place in v.                       *)
RECURSIVE Follow(_, _, _, _, _)
Follow(v, at, ptr, i, sensitive) ==
    LET w == At(v, at)
        n == ArrayIndex(ptr, i + 1) + 1
        m == SelectInSeq(w.kids, LAMBDA k : k.name # NoString /\ ComparePointers(k.name, 1, ptr, i + 1, sensitive))
        child == IF w.type = "array" THEN n ELSE IF w.type = "object" THEN m ELSE 0
    IN IF Char(ptr, i) # SLASH THEN at
       ELSE IF child \notin DOMAIN w.kids THEN Nowhere
       ELSE Follow(v, Append(at, child), ptr, NextToken(ptr, i + 1), sensitive)

GetItem(v, ptr, sensitive) == Follow(v, <<>>, ptr, 1, sensitive)

(* encode_string_as_pointer writes ~1 for a '~', too.                      *)
Encode(s) == FlattenSeq([i \in DOMAIN s |-> IF s[i] = TILDE THEN <<TILDE, 49>> ELSE <<s[i]>>])

(* decode_pointer_inplace: what is read at i is not written at d unless it *)
(* is an escape.                                                           *)
RECURSIVE Decode(_, _, _)
Decode(s, d, i) ==
    IF i > Len(s) THEN SubSeq(s, 1, d - 1)
    ELSE IF s[i] # TILDE THEN Decode(s, d + 1, i + 1)
    ELSE IF Char(s, i + 1) = 48 THEN Decode([s EXCEPT ![d] = TILDE], d + 1, i + 2)
    ELSE IF Char(s, i + 1) = 49 THEN Decode([s EXCEPT ![d + 1] = SLASH], d + 1, i + 2)
    ELSE s

(* cJSONUtils_FindPointerFromObjectTo the item at that place.              *)
RECURSIVE FindPointer(_, _)
FindPointer(v, at) ==
    IF at = <<>> THEN <<>>
    ELSE <<SLASH>> \o (IF v.type = "array" THEN Decimal(Head(at) - 1) ELSE Encode(v.kids[Head(at)].name))
                   \o FindPointer(v.kids[Head(at)], Tail(at))

-----------------------------------------------------------------------------
(* Patches.                                                                *)
Patch(op, path, value) == [op |-> op, path |-> path, from |-> NoString, value |-> value]

LastSlash(s) == SelectLastInSeq(s, LAMBDA c : c = SLASH)
Parent(s)    == SubSeq(s, 1, LastSlash(s) - 1)
Child(s)     == Decode(SubSeq(s, LastSlash(s) + 1, Len(s)), 1, 1)

(* detach_path: the place of the item that leaves the tree, below p.       *)
(* Members are looked for without regard to case.                          *)
DetachBelow(v, p, name) ==
    LET w == At(v, p)
        n == IF w.type = "array" THEN ArrayIndex(name, 1) + 1
             ELSE IF w.type = "object" THEN ObjectItem(w, name, FALSE) ELSE 0
    IN IF n \in DOMAIN w.kids THEN Append(p, n) ELSE Nowhere

DetachPath(v, path, sensitive) ==
    LET p == GetItem(v, Parent(path), sensitive)
    IN IF LastSlash(path) = 0 \/ p = Nowhere THEN Nowhere ELSE DetachBelow(v, p, Child(path))

(* The list of w without its i-th item.                                    *)
Detached(w, i) == IF i = 1 /\ w.stale THEN Broken ELSE [w EXCEPT !.kids = RemoveAt(@, i)]
Removed(v, at) ==
    LET w == Detached(At(v, Front(at)), Last(at)) IN IF w = Broken THEN Broken ELSE Change(v, Front(at), w)

Unnamed(v) == [v EXCEPT !.name = NoString]
DeleteMember(w, name, sensitive) ==
    LET i == ObjectItem(w, name, sensitive) IN IF i = 0 THEN w ELSE Detached(w, i)

(* Variant of the next definition: beyond the end is at the end.           *)
AddAtAnywhere(v, p, name, value, sensitive) ==
    LET w == At(v, p)
        n == ArrayIndex(name, 1)
        x == DeleteMember(w, name, sensitive)
        Done(y) == [status |-> 0, v |-> Change(v, p, y)]
        Stop(s) == [status |-> s, v |-> v]
    IN IF w.type = "array"
       THEN IF name = <<MINUS>> \/ n > Len(w.kids) THEN Done([w EXCEPT !.kids = Append(@, value)])
            ELSE IF n < 0 THEN Stop(11)
            ELSE Done([w EXCEPT !.kids = InsertAt(@, n + 1, value)])
       ELSE IF x = Broken THEN [status |-> 0, v |-> Broken]
       ELSE IF w.type = "object" THEN Done([x EXCEPT !.kids = Append(@, Named(name, value))])
       ELSE Stop(9)

(* The last part of apply_patch: value gets to its path, below p.          *)
AddAt(v, p, name, value, sensitive) ==
    LET w == At(v, p)
        n == ArrayIndex(name, 1)
        x == DeleteMember(w, name, sensitive)
        Done(y) == [status |-> 0, v |-> Change(v, p, y)]
        Stop(s) == [status |-> s, v |-> v]
    IN IF w.type = "array"
       THEN IF name = <<MINUS>> THEN Done([w EXCEPT !.kids = Append(@, value)])
            ELSE IF n < 0 THEN Stop(11)
            ELSE IF n > Len(w.kids) THEN Stop(10)
            ELSE Done([w EXCEPT !.kids = InsertAt(@, n + 1, value)])
       ELSE IF x = Broken THEN [status |-> 0, v |-> Broken]
       ELSE IF w.type = "object" THEN Done([x EXCEPT !.kids = Append(@, Named(name, value))])
       ELSE Stop(9)

AddValue(v, path, value, sensitive) ==
    LET p == GetItem(v, Parent(path), sensitive)
    IN IF v = Broken THEN [status |-> 0, v |-> v]
       ELSE IF LastSlash(path) = 0 \/ p = Nowhere THEN [status |-> 9, v |-> v]
       ELSE AddAt(v, p, Child(path), value, sensitive)

ApplyPatch(v, patch, sensitive) ==
    LET op   == patch.op
        path == patch.path
        old  == DetachPath(v, path, sensitive)
        from == IF op = "move" THEN DetachPath(v, patch.from, sensitive) ELSE GetItem(v, patch.from, sensitive)
        place == GetItem(v, path, sensitive)
        test  == CompareJson(At(v, place), patch.value, sensitive)
        Stop(s) == [status |-> s, v |-> v]
    IN IF v = Broken THEN Stop(0)
       ELSE IF path = NoString THEN Stop(2)
       ELSE IF op \notin {"add", "remove", "replace", "move", "copy", "test"} THEN Stop(3)
       ELSE IF op = "test"
            THEN IF place = Nowhere THEN Stop(1)
                 ELSE [status |-> IF test.found THEN 0 ELSE 1, v |-> Change(v, place, test.from)]
       ELSE IF path = <<>> /\ op = "remove" THEN [status |-> 0, v |-> Item("invalid")]
       ELSE IF path = <<>> /\ op \in {"add", "replace"}
            THEN IF patch.value = None THEN Stop(7) ELSE [status |-> 0, v |-> Unnamed(Duplicate(patch.value))]
       ELSE IF op \in {"remove", "replace"} /\ old = Nowhere THEN Stop(13)
       ELSE IF op = "remove" THEN [status |-> 0, v |-> Removed(v, old)]
       ELSE IF op \in {"move", "copy"}
            THEN IF patch.from = NoString THEN Stop(4)
                 ELSE IF from = Nowhere THEN Stop(5)
                 ELSE IF op = "move" THEN AddValue(Removed(v, from), path, At(v, from), sensitive)
                 ELSE AddValue(v, path, Duplicate(At(v, from)), sensitive)
       ELSE IF op = "replace"
            THEN IF patch.value = None THEN [status |-> 7, v |-> Removed(v, old)]
                 ELSE AddValue(Removed(v, old), path, Duplicate(patch.value), sensitive)
       ELSE IF patch.value = None THEN Stop(7) ELSE AddValue(v, path, Duplicate(patch.value), sensitive)

(* cJSONUtils_ApplyPatches stops at the first patch that fails; what the   *)
(* ones before it did stays.                                               *)
ApplyPatches(v, patches, sensitive) ==
    FoldLeft(LAMBDA r, p : IF r.status # 0 THEN r ELSE ApplyPatch(r.v, p, sensitive), [status |-> 0, v |-> v], patches)

(* compose_patch with a suffix.                                            *)
Below(path, suffix) == path \o <<SLASH>> \o Encode(suffix)

AddPatch(path, v)       == Patch("add", path, Unnamed(Duplicate(v)))
ReplacePatch(path, v)   == Patch("replace", path, Unnamed(Duplicate(v)))
RemovePatch(path)       == Patch("remove", path, None)

RECURSIVE CreatePatches(_, _, _, _), ArrayPatches(_, _, _, _, _), ObjectPatches(_, _, _, _)

(* Variant of the next definition: an index for each element removed.      *)
ArrayPatchesCount(path, s, t, index, sensitive) ==
    LET one  == CreatePatches(path \o <<SLASH>> \o Decimal(index), Head(s), Head(t), sensitive)
        rest == ArrayPatches(path, Tail(s), Tail(t), index + 1, sensitive)
    IN IF s # <<>> /\ t # <<>> THEN Both(one.found \o rest.found, one, rest)
       ELSE Outcome([i \in DOMAIN s |-> RemovePatch(Below(path, Decimal(index + i - 1)))]
                    \o [i \in DOMAIN t |-> AddPatch(Below(path, <<MINUS>>), t[i])], s, t)

(* The elements of both, then the rest of one of them.                     *)
ArrayPatches(path, s, t, index, sensitive) ==
    LET one  == CreatePatches(path \o <<SLASH>> \o Decimal(index), Head(s), Head(t), sensitive)
        rest == ArrayPatches(path, Tail(s), Tail(t), index + 1, sensitive)
    IN IF s # <<>> /\ t # <<>> THEN Both(one.found \o rest.found, one, rest)
       ELSE Outcome([i \in DOMAIN s |-> RemovePatch(Below(path, Decimal(index)))]
                    \o [i \in DOMAIN t |-> AddPatch(Below(path, <<MINUS>>), t[i])], s, t)

(* The members in sorted order, side by side.                              *)
ObjectPatches(path, s, t, sensitive) ==
    LET diff == IF s = <<>> THEN 1 ELSE IF t = <<>> THEN -1
                ELSE CompareStrings(Head(s).name, Head(t).name, sensitive)
        one  == CreatePatches(Below(path, Head(s).name), Head(s), Head(t), sensitive)
        rest == ObjectPatches(path, IF diff <= 0 THEN Tail(s) ELSE s, IF diff >= 0 THEN Tail(t) ELSE t, sensitive)
    IN IF s = <<>> /\ t = <<>> THEN Outcome(<<>>, s, t)
       ELSE IF diff = 0 THEN Both(one.found \o rest.found, one, rest)
       ELSE IF diff < 0 THEN Outcome(<<RemovePatch(Below(path, Head(s).name))>> \o rest.found,
                                     <<Head(s)>> \o rest.from, rest.to)
       ELSE Outcome(<<AddPatch(Below(path, Head(t).name), Head(t))>> \o rest.found, rest.from, <<Head(t)>> \o rest.to)

CreatePatches(path, from, to, sensitive) ==
    LET differ == \/ from.type # to.type
                  \/ from.type = "number" /\ from.number # to.number
                  \/ from.type = "string" /\ from.text # to.text
        x == SortObject(from, sensitive)
        y == SortObject(to, sensitive)
    IN IF differ THEN Outcome(<<ReplacePatch(path, to)>>, from, to)
       ELSE IF from.type = "array" THEN Inside(from, to, ArrayPatches(path, from.kids, to.kids, 0, sensitive))
       ELSE IF from.type = "object" THEN Inside(x, y, ObjectPatches(path, x.kids, y.kids, sensitive))
       ELSE Outcome(<<>>, from, to)

-----------------------------------------------------------------------------
(* Merge patches; None is the NULL item.                                   *)
RECURSIVE MergePatch(_, _, _), MergeMembers(_, _, _)

MergeMembers(v, kids, sensitive) ==
    LET k == Head(kids)
        i == ObjectItem(v, k.name, sensitive)
        rest == DeleteMember(v, k.name, sensitive)
        w == MergePatch(IF i = 0 THEN None ELSE v.kids[i], k, sensitive)
    IN IF kids = <<>> \/ v = Broken THEN v
       ELSE IF Broken \in {rest, w} THEN Broken
       ELSE MergeMembers(IF k.type = "null" THEN rest ELSE [rest EXCEPT !.kids = Append(@, Named(k.name, w))],
                         Tail(kids), sensitive)

MergePatch(target, patch, sensitive) ==
    IF patch.type # "object" THEN Duplicate(patch)
    ELSE MergeMembers(IF target.type = "object" THEN target ELSE Item("object"), patch.kids, sensitive)

RECURSIVE GenerateMergePatch(_, _, _), MergeSteps(_, _, _)

(* The names are told apart by strcmp, whatever the sort was; members of   *)
(* both are compared first, and their patch is made without regard to case.*)
MergeSteps(s, t, sensitive) ==
    LET diff == IF s = <<>> THEN 1 ELSE IF t = <<>> THEN -1 ELSE Strcmp(Head(s).name, Head(t).name)
        same == CompareJson(Head(s), Head(t), sensitive)
        made == GenerateMergePatch(same.from, same.to, FALSE)
        one  == IF same.found THEN [same EXCEPT !.found = <<>>]
                ELSE [made EXCEPT !.found = IF @ = None THEN <<>> ELSE <<Named(Head(t).name, @)>>]
        rest == MergeSteps(IF diff <= 0 THEN Tail(s) ELSE s, IF diff >= 0 THEN Tail(t) ELSE t, sensitive)
    IN IF s = <<>> /\ t = <<>> THEN Outcome(<<>>, s, t)
       ELSE IF diff < 0 THEN Outcome(<<Named(Head(s).name, Item("null"))>> \o rest.found,
                                     <<Head(s)>> \o rest.from, rest.to)
       ELSE IF diff > 0 THEN Outcome(<<Duplicate(Head(t))>> \o rest.found, rest.from, <<Head(t)>> \o rest.to)
       ELSE Both(one.found \o rest.found, one, rest)

GenerateMergePatch(from, to, sensitive) ==
    LET x == SortObject(from, sensitive)
        y == SortObject(to, sensitive)
        r == MergeSteps(x.kids, y.kids, sensitive)
    IN IF to = None THEN Outcome(Item("null"), from, to)
       ELSE IF from.type # "object" \/ to.type # "object" THEN Outcome(Duplicate(to), from, to)
       ELSE Inside(x, y, [r EXCEPT !.found = IF @ = <<>> THEN None ELSE Node("object", @)])
=============================================================================
