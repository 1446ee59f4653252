------------------------------- MODULE MCCJson -------------------------------
(***************************************************************************)
(* Calls of cJSON's pure functions over bounded inputs, each with what it  *)
(* returns: a state is a call before or after it was made.                 *)
(***************************************************************************)
EXTENDS JsonUtils, FiniteSetsExt

CONSTANT MaxText     \* the longest preallocated buffer

VARIABLES call, result

vars == <<call, result>>

-----------------------------------------------------------------------------
(* Texts for the parser, from pieces.                                      *)
Texts(pieces, n) == {FlattenSeq(s) : s \in SeqOf(pieces, n)}

a == <<97>>
b == <<98>>
B == <<66>>
One == <<49>>
EmptyString == <<QUOTE, QUOTE>>
OneMember == <<QUOTE, 97, QUOTE, COLON, 49>>

ArrayTexts  == Texts({<<LBRACKET>>, <<RBRACKET>>, <<COMMA>>, One, <<SP>>}, 5)
ObjectTexts == Texts({<<LBRACE>>, <<RBRACE>>, OneMember, EmptyString, <<COLON>>, <<COMMA>>}, 5)
ScalarTexts == Texts({BOM, Word.null, <<MINUS>>, <<49, 48>>, <<QUOTE>>, <<1>>, <<LBRACKET>>, <<RBRACKET>>}, 4)

(* String literals with escapes, and \u escapes of code points.            *)
Literals == {<<QUOTE>> \o s \o <<QUOTE>> :
             s \in Texts({<<ESC>>, <<QUOTE>>, <<117>>, <<48, 48>>, <<100, 56>>, <<68, 67>>, <<110>>, <<195>>}, 4)}

CodePoints == {1, 127, 128, 2047, 2048, 55295, 57344, 65535, 65536, 65537, 1114111}
Halves     == {55296, 56319, 56320, 57343}
Hex(n)     == LET d(k) == (n \div k) % 16  c(h) == IF h < 10 THEN 48 + h ELSE 55 + h
              IN <<ESC, 117, c(d(4096)), c(d(256)), c(d(16)), c(d(1))>>
Escape(n)  == IF n < 65536 THEN Hex(n) ELSE Hex(55296 + (n - 65536) \div 1024) \o Hex(56320 + ((n - 65536) % 1024))

(* Trees: with values, with one level of containers, and with two.         *)
Values == {Item("null"), Item("true"), Number(1)}
Members(K, V) == {Named(k, v) : k \in K, v \in V}
Objects(K, V) == {Node("object", s) : s \in {t \in SeqOf(Members(K, V), 2) : Len(t) = 2 => t[1].name # t[2].name}}
Arrays(V, n)  == {Node("array", s) : s \in SeqOf(V, n)}
Few     == {Item("null"), Number(1)}
Flat    == Values \cup Arrays(Few, 3) \cup Objects({a, b, B}, Few)
Some    == {Number(1), Node("array", <<Number(1)>>), Node("object", <<Named(a, Number(1))>>)}
Wide    == {Node("object", s) : s \in {t \in SeqOf(Members({a, b, <<99>>}, {Number(1)}), 3) : \A i, j \in DOMAIN t : i # j => t[i] # t[j]}}
Nested  == Arrays(Some, 2) \cup Objects({a, b}, Some)
Strings == {Text(s) : s \in SeqOf({QUOTE, ESC, NL, 1, 97}, 3)}
Printable == Values \cup {Text(NoString), Number(-12)} \cup Strings \cup Nested
             \cup {Node("object", <<Named(t.text, t)>>) : t \in Strings}
             \cup {Node("array", <<n, n>>) : n \in Nested}

Tildes  == Objects({a, <<TILDE>>, <<TILDE, 97>>}, {Number(1), Node("object", <<Named(<<97, TILDE>>, Number(1))>>)})
BA      == Node("object", <<Named(b, Number(1)), Named(a, Number(1))>>)
Sorted  == {SortObject(v, TRUE) : v \in Flat \cup Nested}

RECURSIVE Places(_)
Places(v) == {<<>>} \cup UNION {{<<i>> \o p : p \in Places(v.kids[i])} : i \in DOMAIN v.kids}

Paths == {<<>>, a, <<SLASH>>, <<SLASH, 97>>, <<SLASH, 65>>, <<SLASH, 98>>, <<SLASH, 48>>, <<SLASH, 49>>, <<SLASH, 48, 49>>,
          <<SLASH, MINUS>>, <<SLASH, 97, SLASH, 48>>, <<SLASH, 97, SLASH, 97>>, <<SLASH, 98, SLASH, MINUS>>}

Patches ==
    {[op |-> op, path |-> p, from |-> NoString, value |-> v] :
        op \in {"add", "remove", "replace", "test", "other"}, p \in Paths, v \in {None, Number(2), BA}}
    \cup {[op |-> op, path |-> p, from |-> f, value |-> None] :
        op \in {"move", "copy"}, p \in Paths, f \in Paths \cup {NoString}}
    \cup {[op |-> "add", path |-> NoString, from |-> NoString, value |-> None]}

Enough == 99
Pending == [op |-> "none"]

Init ==
    /\ result = Pending
    /\ \/ \E t \in ArrayTexts \cup ObjectTexts \cup ScalarTexts, z \in BOOLEAN, n \in {0, 2, Enough} :
            call = [op |-> "parse", text |-> t, terminated |-> z, left |-> n]
       \/ \E t \in Literals : call = [op |-> "parse", text |-> t, terminated |-> TRUE, left |-> Enough]
       \/ \E n \in CodePoints \cup Halves : call = [op |-> "escape", code |-> n]
       \/ \E v \in Printable, f \in BOOLEAN, n \in {0, 1, 3, Enough} :
            call = [op |-> "print", item |-> v, format |-> f, left |-> n]
       \/ \E v \in Printable, f \in BOOLEAN, l \in {-1, 0, 7}, n \in {0, 1, 2, Enough} :
            call = [op |-> "buffered", item |-> v, format |-> f, length |-> l, left |-> n]
       \/ \E v \in Printable, f \in BOOLEAN, l \in 0..MaxText :
            call = [op |-> "preallocated", item |-> v, format |-> f, length |-> l]
       \/ \E op \in {"patch", "merge"}, s, own \in BOOLEAN, d \in {Flat, Nested, Wide, Tildes} : \E v, w \in d :
            call = [op |-> op, from |-> v, to |-> w, sensitive |-> s, own |-> own]
       \/ \E v \in Flat \cup Nested \cup Sorted, p \in Patches, s \in BOOLEAN :
            call = [op |-> "apply", item |-> v, patch |-> p, sensitive |-> s]
       \/ \E v \in Flat \cup Nested \cup Tildes, s \in BOOLEAN : call = [op |-> "pointer", item |-> v, sensitive |-> s]

-----------------------------------------------------------------------------
Return(r) == result = Pending /\ result' = [op |-> call.op, r |-> r] /\ UNCHANGED call

ParseCall == call.op = "parse" /\ Return(ParseWithOpts(call.text, call.terminated, call.left))

EscapeCall == call.op = "escape" /\ Return(Parse(<<QUOTE>> \o Escape(call.code) \o <<QUOTE>>))

PrintCall == call.op = "print" /\ Return(Printed(call.item, call.format, call.left))

BufferedCall == call.op = "buffered" /\ Return(PrintBuffered(call.item, call.length, call.format, call.left))

PreallocatedCall == call.op = "preallocated" /\ Return(PrintPreallocated(call.item, call.length, call.format))

(* What is made for two trees is applied to the first of them, which it    *)
(* was made from and which has been sorted for that, or to a copy.         *)
Base(r) == IF call.own THEN r.from ELSE Duplicate(call.from)
Left(v, r) == [v |-> v, from |-> r.from, to |-> r.to]

PatchCall ==
    LET r == CreatePatches(<<>>, call.from, call.to, call.sensitive)
        done == ApplyPatches(Base(r), r.found, call.sensitive)
    IN call.op = "patch" /\ Return(IF done.status = 0 THEN Left(done.v, r) ELSE Left(None, r))

(* No merge patch, NULL, is not applied.                                   *)
MergeCall ==
    LET r == GenerateMergePatch(call.from, call.to, call.sensitive)
    IN call.op = "merge" /\ Return(Left(IF r.found = None THEN Base(r) ELSE MergePatch(Base(r), r.found, call.sensitive), r))

ApplyCall == call.op = "apply" /\ Return(ApplyPatch(call.item, call.patch, call.sensitive))

PointerCall ==
    /\ call.op = "pointer"
    /\ Return({<<p, GetItem(call.item, FindPointer(call.item, p), call.sensitive)>> : p \in Places(call.item)})

Next ==
    \/ ParseCall \/ EscapeCall \/ PrintCall \/ BufferedCall \/ PreallocatedCall
    \/ PatchCall \/ MergeCall \/ ApplyCall \/ PointerCall

Spec == Init /\ [][Next]_vars

-----------------------------------------------------------------------------
(* The reference for the parser: JSON's grammar, with white space up to 32 *)
(* and numbers of digits with a sign.                                      *)
Trim(s) ==
    LET I == {i \in DOMAIN s : s[i] > SP} IN
    IF I = {} THEN <<>> ELSE SubSeq(s, SelectInSeq(s, LAMBDA c : c > SP), SelectLastInSeq(s, LAMBDA c : c > SP))

Inner(s)  == SubSeq(s, 2, Len(s) - 1)
Enclosed(s, open, close) == Len(s) > 1 /\ s[1] = open /\ s[Len(s)] = close
Before(s, i) == Trim(SubSeq(s, 1, i - 1))
After(s, i)  == SubSeq(s, i + 1, Len(s))

IsNumber(s) == LET d == IF s # <<>> /\ s[1] = MINUS THEN Tail(s) ELSE s IN d # <<>> /\ \A i \in DOMAIN d : IsDigit(d[i])
RECURSIVE IsChars(_), IsValue(_, _), IsList(_, _, _)
IsChars(s) ==
    \/ s = <<>>
    \/ s[1] \notin {QUOTE, ESC} /\ IsChars(Tail(s))
    \/ Len(s) > 1 /\ s[1] = ESC /\ s[2] \in DOMAIN Escaped /\ IsChars(After(s, 2))
IsString(s) == Enclosed(s, QUOTE, QUOTE) /\ IsChars(Inner(s))

IsElement(s, members, depth) ==
    IF ~members THEN IsValue(Trim(s), depth)
    ELSE \E i \in DOMAIN s : s[i] = COLON /\ IsString(Before(s, i)) /\ IsValue(Trim(After(s, i)), depth)

IsList(s, members, depth) ==
    \/ IsElement(s, members, depth)
    \/ \E i \in DOMAIN s : s[i] = COMMA /\ IsElement(SubSeq(s, 1, i - 1), members, depth) /\ IsList(After(s, i), members, depth)

IsValue(s, depth) ==
    \/ \E w \in DOMAIN Word : s = Word[w]
    \/ IsNumber(s) \/ IsString(s)
    \/ depth > 0 /\ \E m \in BOOLEAN :
         /\ IF m THEN Enclosed(s, LBRACE, RBRACE) ELSE Enclosed(s, LBRACKET, RBRACKET)
         /\ Trim(Inner(s)) = <<>> \/ IsList(Inner(s), m, depth - 1)

Body(t) == IF Len(t) > 3 /\ SubSeq(t, 1, 3) = BOM THEN After(t, 3) ELSE t
Accepted(t, terminated) ==
    IF terminated THEN IsValue(Trim(Body(t)), NestingLimit)
    ELSE \E i \in DOMAIN Body(t) : IsValue(Before(Body(t), i + 1), NestingLimit)

(* The code point of a sequence of UTF-8 bytes.                            *)
CodePoint(s) ==
    LET first == CASE s[1] < 128 -> s[1] [] s[1] \in 192..223 -> s[1] - 192
                   [] s[1] \in 224..239 -> s[1] - 224 [] OTHER -> s[1] - 240
    IN FoldLeft(LAMBDA n, c : 64 * n + c - 128, first, Tail(s))

Utf16Escapes(t) == \E i \in 1..Len(t) - 1 : t[i] = ESC /\ t[i + 1] = 117

(* The parser accepts what the grammar does and nothing else, whatever was *)
(* left of memory; what a failure had allocated is freed; its position is  *)
(* in the text; no string is longer than the room made for it, and an      *)
(* escape is its code point in UTF-8.                                      *)
ParseExact ==
    /\ result.op = "parse" => LET r == result.r  t == call.text IN
        /\ r.fits /\ r.end \in 0..Len(t)
        /\ r.live = IF r.ok THEN Size(r.v) ELSE 0
        /\ ~Utf16Escapes(t) =>
             /\ r.ok => Accepted(t, call.terminated)
             /\ call.left = Enough /\ Accepted(t, call.terminated) => r.ok
    /\ result.op = "escape" => IF call.code \in Halves THEN ~result.r.ok ELSE CodePoint(result.r.v.text) = call.code

RECURSIVE Depth(_)
Depth(v) == IF v.type \notin {"array", "object"} THEN 0
            ELSE 1 + Max({0} \cup {Depth(v.kids[i]) : i \in DOMAIN v.kids})

WholeText(v, format) == PrintPreallocated(v, 1000, format).text

(* That what printing v returned is right, t being the whole text.         *)
PrintedWell(r, v, t) ==
    LET Room(n) == Len(t) + 2 <= n
        most(n) == IF n > IntMax THEN n ELSE IntMax
    IN /\ r.inside
       /\ r.live = IF r.ok /\ call.op # "preallocated" THEN 1 ELSE 0
       /\ r.ok => r.text = t
       /\ call.op = "preallocated" => (r.ok <=> Room(call.length))
       /\ call.op = "print" /\ call.left = Enough => (r.ok <=> Room(most(BufferSize)))
       /\ call.op = "buffered" /\ call.left = Enough => (r.ok <=> call.length >= 0 /\ Room(most(call.length)))
       /\ v # Text(NoString) => (Compare(Parse(t).v, v, TRUE) <=> Depth(v) <= NestingLimit)
       /\ Minify(Append(t, 0), 0, <<>>) = WholeText(v, FALSE)

(* Printing never writes past its buffer and leaves nothing behind when it *)
(* fails; it succeeds if there is room for two bytes more than the text,   *)
(* the final 0 and one that ensure wants; what it prints is parsed as the  *)
(* same tree unless that is nested too deeply, and Minify makes the        *)
(* formatted text the unformatted one.                                     *)
PrintFits ==
    result.op \in {"print", "buffered", "preallocated"} =>
        PrintedWell(result.r, call.item, WholeText(call.item, call.format))

(* No name has an upper case letter, no member is null, no list is stale.  *)
RECURSIVE NamesOf(_), HasNulls(_), HasStale(_)
NamesOf(v)  == UNION {{v.kids[i].name} \cup NamesOf(v.kids[i]) : i \in DOMAIN v.kids} \ {NoString}
OneCase(V)  == \A k \in UNION {NamesOf(v) : v \in V} : k = Lower(k)
HasNulls(v) == \E i \in DOMAIN v.kids : (v.type = "object" /\ v.kids[i].type = "null") \/ HasNulls(v.kids[i])
HasStale(v) == v.stale \/ \E i \in DOMAIN v.kids : HasStale(v.kids[i])

(* The patches made for two trees lead from one to the other if no name    *)
(* has a '~', merge patches, which have no pointers, if no member of the   *)
(* second is null.  Applied to the very tree they were made from they can  *)
(* ruin it instead, but only if making them put another member first in    *)
(* one of its objects.  Making them changes nothing but the order of       *)
(* members, and the two comparisons agree on equality: all where names     *)
(* have one case.                                                          *)
PatchesLead ==
    result.op \in {"patch", "merge"} /\ OneCase({call.from, call.to}) =>
      LET r == result.r
          leads == IF call.op = "merge" THEN ~HasNulls(call.to)
                   ELSE \A k \in NamesOf(call.from) \cup NamesOf(call.to) : ~Contains(k, TILDE)
      IN
        /\ r.v = Broken => call.own /\ HasStale(r.from)
        /\ r.v # Broken /\ leads => Compare(r.v, call.to, call.sensitive)
        /\ Compare(r.from, call.from, TRUE) /\ Compare(r.to, call.to, TRUE)
        /\ CompareJson(call.from, call.to, call.sensitive).found <=> Compare(call.from, call.to, call.sensitive)

(* A patch that fails leaves the tree as it was, but for a move that has   *)
(* taken its item already, a replacement without value, and a test, which  *)
(* reorders members; one that adds or replaces puts its value at the path. *)
(* No single patch ruins a tree that was never sorted.                     *)
PatchKeeps ==
    result.op = "apply" => LET r == result.r  p == call.patch IN
        /\ r.status # 0 =>
             \/ r.v = call.item \/ p.op = "move" \/ (p.op = "replace" /\ p.value = None)
             \/ p.op = "test" /\ Compare(r.v, call.item, TRUE)
        /\ r.v = Broken => HasStale(call.item)
        /\ /\ r.status = 0 /\ r.v # Broken /\ p.op \in {"add", "replace"}
           /\ OneCase({call.item}) /\ (p.path = <<>> \/ p.path[Len(p.path)] # MINUS)
           => LET at == GetItem(r.v, p.path, call.sensitive) IN at # Nowhere /\ Compare(At(r.v, at), p.value, TRUE)

(* Whether a name on the way to that place has a '~'.                      *)
HasTilde(v, at) == \E n \in DOMAIN at : LET k == At(v, SubSeq(at, 1, n)).name IN k # NoString /\ Contains(k, TILDE)

(* The pointer made for an item finds it if no name on the way has a '~',  *)
(* and otherwise nothing: '~' is written like '/', and read as that.       *)
PointerFinds ==
    result.op = "pointer" /\ (call.sensitive \/ OneCase({call.item})) =>
        \A x \in result.r : x[2] = IF HasTilde(call.item, x[1]) THEN Nowhere ELSE x[1]
=============================================================================
