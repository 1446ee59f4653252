------------------------------- MODULE JsonText -------------------------------
(***************************************************************************)
(* cJSON's parser, printer, Minify and Compare as functions of bytes.      *)
(*                                                                         *)
(* A C string is a sequence of bytes without 0; a parse works on the bytes *)
(* with the final 0.  NoString is the NULL pointer.  Memory is a number of *)
(* allocations that still succeed (left) and one of allocations not freed  *)
(* (live).  Numbers are written with digits and a sign only.               *)
(***************************************************************************)
EXTENDS Integers, Sequences, SequencesExt

CONSTANTS NestingLimit,   \* CJSON_NESTING_LIMIT
          IntMax,         \* INT_MAX
          BufferSize      \* the printer's first buffer, 256 bytes

TAB == 9
NL == 10
SP == 32
QUOTE == 34
STAR == 42
COMMA == 44
MINUS == 45
SLASH == 47
COLON == 58
LBRACKET == 91
ESC == 92
RBRACKET == 93
LBRACE == 123
RBRACE == 125

NoString == <<-1>>
BOM      == <<239, 187, 191>>
Word     == [null |-> <<110, 117, 108, 108>>, false |-> <<102, 97, 108, 115, 101>>,
             true |-> <<116, 114, 117, 101>>]

(* An item: number and text are valuedouble and valuestring, kids child;   *)
(* stale says that the prev of the first child is not NULL.                *)
Item(type) == [type |-> type, name |-> NoString, text |-> NoString, number |-> 0, kids |-> <<>>, stale |-> FALSE]
Text(s)    == [Item("string") EXCEPT !.text = s]
Number(n)  == [Item("number") EXCEPT !.number = n]
Node(t, s) == [Item(t) EXCEPT !.kids = s]
Named(k, v) == [v EXCEPT !.name = k]

(* The items of a tree, with their names and texts: what has been          *)
(* allocated for it.                                                       *)
RECURSIVE Size(_)
Size(v) == 1 + (IF v.name = NoString THEN 0 ELSE 1) + (IF v.text = NoString THEN 0 ELSE 1)
             + FoldSeq(LAMBDA k, n : n + Size(k), 0, v.kids)

CString(s) == LET z == SelectInSeq(s, LAMBDA c : c = 0) IN IF z = 0 THEN s ELSE SubSeq(s, 1, z - 1)

-----------------------------------------------------------------------------
(* The parser, at offset p.at of the bytes b.  A failure keeps its offset. *)
Byte(b, i)   == b[i + 1]
Failed(p)    == [ok |-> FALSE, p |-> p, v |-> Item("invalid")]
Parsed(p, v) == [ok |-> TRUE, p |-> p, v |-> v]
Alloc(p)     == [p EXCEPT !.left = @ - 1, !.live = @ + 1]

(* buffer_skip_whitespace: the final 0 is skipped too, and taken back.     *)
Skip(b, p) ==
    LET at == SelectInSubSeq(b, p.at + 1, Len(b), LAMBDA c : c > SP)
    IN [p EXCEPT !.at = IF at = 0 THEN Len(b) - 1 ELSE at - 1]

IsDigit(c) == c \in 48..57

(* parse_number: strtod takes a sign and the digits after it.              *)
RECURSIVE Digits(_, _, _)
Digits(b, i, n) == IF IsDigit(Byte(b, i)) THEN Digits(b, i + 1, 10 * n + Byte(b, i) - 48) ELSE <<i, n>>

ParseNumber(b, p) ==
    LET minus == Byte(b, p.at) = MINUS
        from  == IF minus THEN p.at + 1 ELSE p.at
        d     == Digits(b, from, 0)
    IN IF d[1] = from THEN Failed(p) ELSE Parsed([p EXCEPT !.at = d[1]], Number(IF minus THEN -d[2] ELSE d[2]))

(* parse_hex4: what is not a hexadecimal number is 0.                      *)
HexDigit(c) == IF IsDigit(c) THEN c - 48
               ELSE IF c \in 65..70 THEN c - 55 ELSE IF c \in 97..102 THEN c - 87 ELSE -1
Hex4(b, i) ==
    LET h == [j \in 0..3 |-> HexDigit(Byte(b, i + j))]
    IN IF -1 \in {h[j] : j \in 0..3} THEN 0 ELSE ((h[0] * 16 + h[1]) * 16 + h[2]) * 16 + h[3]

Utf8(c) ==
    IF c < 128 THEN <<c>>
    ELSE IF c < 2048 THEN <<192 + (c \div 64), 128 + (c % 64)>>
    ELSE IF c < 65536 THEN <<224 + (c \div 4096), 128 + ((c \div 64) % 64), 128 + (c % 64)>>
    ELSE <<240 + (c \div 262144), 128 + ((c \div 4096) % 64), 128 + ((c \div 64) % 64), 128 + (c % 64)>>

(* utf16_literal_to_utf8 between i and e: the bytes read, 0 if it fails,   *)
(* and the bytes written.                                                  *)
Utf16(b, i, e) ==
    LET first  == Hex4(b, i + 2)
        second == Hex4(b, i + 8)
    IN IF e - i < 6 THEN <<0, <<>>>>
       ELSE IF first \in 56320..57343 THEN <<0, <<>>>>
       ELSE IF first \notin 55296..56319 THEN <<6, Utf8(first)>>
       ELSE IF e - (i + 6) < 6 THEN <<0, <<>>>>
       ELSE IF Byte(b, i + 6) # ESC \/ Byte(b, i + 7) # 117 \/ second \notin 56320..57343 THEN <<0, <<>>>>
       ELSE <<12, Utf8(65536 + (first % 1024) * 1024 + (second % 1024))>>

(* The byte a letter after a backslash stands for.                         *)
Escaped ==
    [c \in {98, 102, 110, 114, 116, QUOTE, ESC, SLASH} |->
        CASE c = 98 -> 8 [] c = 102 -> 12 [] c = 110 -> NL [] c = 114 -> 13 [] c = 116 -> TAB [] OTHER -> c]

(* The closing quote after i and the escapes before it, if there is one.   *)
RECURSIVE Closing(_, _, _)
Closing(b, i, escapes) ==
    IF i >= Len(b) THEN <<>>
    ELSE IF Byte(b, i) = QUOTE THEN <<i, escapes>>
    ELSE IF Byte(b, i) = ESC THEN Closing(b, i + 2, escapes + 1)
    ELSE Closing(b, i + 1, escapes)

(* What is between i and e without its escapes, or where that fails.       *)
RECURSIVE Unescape(_, _, _, _)
Unescape(b, i, e, out) ==
    IF i >= e THEN [ok |-> TRUE, at |-> i, out |-> out]
    ELSE IF Byte(b, i) # ESC THEN Unescape(b, i + 1, e, Append(out, Byte(b, i)))
    ELSE IF Byte(b, i + 1) = 117
         THEN LET u == Utf16(b, i, e) IN
              IF u[1] = 0 THEN [ok |-> FALSE, at |-> i, out |-> out] ELSE Unescape(b, i + u[1], e, out \o u[2])
    ELSE IF Byte(b, i + 1) \in DOMAIN Escaped THEN Unescape(b, i + 2, e, Append(out, Escaped[Byte(b, i + 1)]))
    ELSE [ok |-> FALSE, at |-> i, out |-> out]

(* parse_string, with the closing quote and what Unescape makes of it;     *)
(* whether the text and its 0 fit what was allocated for them.             *)
StringUpTo(b, p, c, u) ==
    LET room == c[1] - p.at - c[2] + 1
        q == [p EXCEPT !.left = @ - 1, !.fits = @ /\ Len(u.out) + 1 <= room]
    IN IF Byte(b, p.at) # QUOTE \/ c = <<>> \/ p.left = 0 THEN Failed([p EXCEPT !.at = @ + 1])
       ELSE IF ~u.ok THEN Failed([q EXCEPT !.at = u.at])
       ELSE Parsed([q EXCEPT !.at = c[1] + 1, !.live = @ + 1], Text(CString(u.out)))

ParseString(b, p) ==
    LET c == Closing(b, p.at + 1, 0) IN StringUpTo(b, p, c, Unescape(b, p.at + 1, c[1], <<>>))

RECURSIVE ParseValue(_, _), ParseList(_, _, _, _)

(* A member from its name k on; an element of an array, or a member.       *)
Member(b, k) ==
    LET q == Skip(b, k.p)
        v == IF Byte(b, q.at) # COLON THEN Failed(q) ELSE ParseValue(b, Skip(b, [q EXCEPT !.at = @ + 1]))
    IN IF k.ok THEN [v EXCEPT !.v = Named(k.v.text, @)] ELSE k

Entry(b, p, type) ==
    LET q == Skip(b, [p EXCEPT !.at = @ + 1])
    IN IF type = "array" THEN ParseValue(b, q) ELSE Member(b, ParseString(b, q))

(* The loops of parse_array and parse_object: after the entry e, and from  *)
(* the character before one; kids is the list so far.                      *)
Rest(b, e, type, kids) ==
    LET q == Skip(b, e.p)
        all == Node(type, Append(kids, e.v))
    IN IF ~e.ok THEN [Failed(e.p) EXCEPT !.v = all]
       ELSE IF Byte(b, q.at) = COMMA THEN ParseList(b, q, type, all.kids)
       ELSE IF Byte(b, q.at) = (IF type = "array" THEN RBRACKET ELSE RBRACE) THEN Parsed(q, all)
       ELSE [Failed(q) EXCEPT !.v = all]

ParseList(b, p, type, kids) ==
    IF p.left = 0 THEN [Failed(p) EXCEPT !.v = Node(type, kids)] ELSE Rest(b, Entry(b, Alloc(p), type), type, kids)

(* Variant of the next definition: the list that fails is not deleted.     *)
ListKept(r) ==
    IF r.ok THEN Parsed([r.p EXCEPT !.depth = @ - 1, !.at = @ + 1], r.v) ELSE Failed(r.p)

(* The ends of parse_array and parse_object; a list that fails is deleted. *)
ListEnd(r) ==
    IF r.ok THEN Parsed([r.p EXCEPT !.depth = @ - 1, !.at = @ + 1], r.v)
    ELSE Failed([r.p EXCEPT !.live = @ - (Size(r.v) - 1)])

ParseContainer(b, p, type) ==
    LET q == Skip(b, [p EXCEPT !.depth = @ + 1, !.at = @ + 1])
    IN IF p.depth >= NestingLimit THEN Failed(p)
       ELSE IF Byte(b, q.at) = (IF type = "array" THEN RBRACKET ELSE RBRACE)
            THEN Parsed([q EXCEPT !.depth = @ - 1, !.at = @ + 1], Item(type))
       ELSE ListEnd(ParseList(b, [q EXCEPT !.at = @ - 1], type, <<>>))

ParseValue(b, p) ==
    LET c == Byte(b, p.at)
        Has(s) == p.at + Len(s) <= Len(b) /\ SubSeq(b, p.at + 1, p.at + Len(s)) = s
        words == {w \in DOMAIN Word : Has(Word[w])}
    IN IF words # {} THEN LET w == CHOOSE w \in words : TRUE IN Parsed([p EXCEPT !.at = @ + Len(Word[w])], Item(w))
       ELSE IF c = QUOTE THEN ParseString(b, p)
       ELSE IF c = MINUS \/ IsDigit(c) THEN ParseNumber(b, p)
       ELSE IF c = LBRACKET THEN ParseContainer(b, p, "array")
       ELSE IF c = LBRACE THEN ParseContainer(b, p, "object")
       ELSE Failed(p)

(* cJSON_ParseWithOpts after its value was parsed; end is return_parse_end.*)
Complete(b, r, terminated) ==
    LET p == IF r.ok /\ terminated THEN Skip(b, r.p) ELSE r.p
        ok == r.ok /\ (terminated => Byte(b, p.at) = 0)
    IN [ok |-> ok, v |-> r.v, end |-> IF p.at < Len(b) THEN p.at ELSE Len(b) - 1, fits |-> p.fits,
        live |-> IF ok THEN p.live ELSE p.live - Size(r.v)]

ParseWithOpts(text, terminated, left) ==
    LET b == Append(text, 0)
        start == [at |-> 0, depth |-> 0, left |-> left, live |-> 0, fits |-> TRUE]
        bom == IF Len(b) > 4 /\ SubSeq(b, 1, 3) = BOM THEN 3 ELSE 0
    IN IF left = 0 THEN [ok |-> FALSE, v |-> Item("invalid"), end |-> 0, fits |-> TRUE, live |-> 0]
       ELSE Complete(b, ParseValue(b, Skip(b, [Alloc(start) EXCEPT !.at = bom])), terminated)

Parse(text) == ParseWithOpts(text, FALSE, Len(text) + 1)

-----------------------------------------------------------------------------
(* The printer, on a printbuffer: s is what has been written, at the       *)
(* offset, inside whether every byte so far was within the buffer.  Not ok *)
(* is a call that returned NULL, null a buffer that is gone.  Whether the  *)
(* hooks have realloc makes no difference here.                            *)
No(p) == [p EXCEPT !.ok = FALSE]

Ensure(p, needed) ==
    LET n == needed + p.at + 1
        size == IF 2 * n <= IntMax THEN 2 * n ELSE IntMax
    IN IF p.null \/ (p.length > 0 /\ p.at >= p.length) \/ needed > IntMax THEN No(p)
       ELSE IF n <= p.length THEN p
       ELSE IF p.noalloc \/ n > IntMax THEN No(p)
       ELSE IF p.left = 0 THEN No([p EXCEPT !.null = TRUE, !.live = @ - 1])
       ELSE [p EXCEPT !.left = @ - 1, !.length = size]

(* s is written at the offset, which advances.                             *)
Put(p, needed, s, advance) ==
    LET q == Ensure(p, needed) IN
    IF ~p.ok THEN p ELSE IF ~q.ok THEN q
    ELSE [q EXCEPT !.s = SubSeq(@, 1, q.at) \o s, !.at = @ + advance, !.inside = @ /\ q.at + Len(s) <= q.length]

UpdateOffset(p) ==
    IF p.ok THEN [p EXCEPT !.at = SelectInSubSeq(p.s, p.at + 1, Len(p.s), LAMBDA c : c = 0) - 1] ELSE p

RECURSIVE Decimal(_)
Decimal(n) == IF n < 0 THEN <<MINUS>> \o Decimal(-n)
              ELSE IF n < 10 THEN <<48 + n>> ELSE Append(Decimal(n \div 10), 48 + (n % 10))

(* print_string_ptr: a byte as it is written, ...                          *)
Quoted(c) ==
    LET HexByte(h) == IF h < 10 THEN 48 + h ELSE 87 + h
        plain == {x \in DOMAIN Escaped \ {SLASH} : Escaped[x] = c}
    IN IF plain # {} THEN <<ESC>> \o SetToSeq(plain)
       ELSE IF c < 32 THEN <<ESC, 117, 48, 48, HexByte(c \div 16), HexByte(c % 16)>>
       ELSE <<c>>

(* ... and the string, NULL as an empty one.                               *)
PrintString(p, s) ==
    LET quoted == FlattenSeq([i \in DOMAIN s |-> Quoted(s[i])]) IN
    IF s = NoString THEN Put(p, 3, <<QUOTE, QUOTE, 0>>, 0)
    ELSE Put(p, Len(quoted) + 3, <<QUOTE>> \o quoted \o <<QUOTE, 0>>, 0)

RECURSIVE PrintValue(_, _), PrintElements(_, _), PrintMembers(_, _)

Tabs(n) == [i \in 1..n |-> TAB]
Deeper(p, n) == [p EXCEPT !.depth = @ + n]

PrintElements(p, kids) ==
    LET v == UpdateOffset(PrintValue(p, Head(kids)))
        comma == IF p.format THEN <<COMMA, SP>> ELSE <<COMMA>>
    IN IF kids = <<>> THEN p
       ELSE IF Len(kids) = 1 THEN v
       ELSE PrintElements(Put(v, Len(comma) + 1, Append(comma, 0), Len(comma)), Tail(kids))

PrintArray(p, v) ==
    Deeper(Put(PrintElements(Deeper(Put(p, 1, <<LBRACKET>>, 1), 1), v.kids), 2, <<RBRACKET, 0>>, 0), -1)

PrintMembers(p, kids) ==
    LET indented == IF p.format THEN Put(p, p.depth, Tabs(p.depth), p.depth) ELSE p
        colon == IF p.format THEN <<COLON, TAB>> ELSE <<COLON>>
        named == Put(UpdateOffset(PrintString(indented, Head(kids).name)), Len(colon), colon, Len(colon))
        end   == (IF Len(kids) > 1 THEN <<COMMA>> ELSE <<>>) \o (IF p.format THEN <<NL>> ELSE <<>>)
    IN IF kids = <<>> THEN p
       ELSE PrintMembers(Put(UpdateOffset(PrintValue(named, Head(kids))), Len(end) + 1, Append(end, 0), Len(end)),
                         Tail(kids))

(* Variant of the next definition: no room for the final 0.                *)
PrintObjectTight(p, v) ==
    LET open == IF p.format THEN <<LBRACE, NL>> ELSE <<LBRACE>>
        q == PrintMembers(Deeper(Put(p, Len(open) + 1, open, Len(open)), 1), v.kids)
        close == (IF q.format THEN Tabs(q.depth - 1) ELSE <<>>) \o <<RBRACE, 0>>
    IN Deeper(Put(q, Len(close) - 2, close, 0), -1)

PrintObject(p, v) ==
    LET open == IF p.format THEN <<LBRACE, NL>> ELSE <<LBRACE>>
        q == PrintMembers(Deeper(Put(p, Len(open) + 1, open, Len(open)), 1), v.kids)
        close == (IF q.format THEN Tabs(q.depth - 1) ELSE <<>>) \o <<RBRACE, 0>>
    IN Deeper(Put(q, Len(close), close, 0), -1)

PrintValue(p, v) ==
    IF ~p.ok THEN p
    ELSE IF v.type \in DOMAIN Word
         THEN Put(p, Len(Word[v.type]) + 1, Append(Word[v.type], 0), 0)
    ELSE IF v.type = "number"
         THEN LET d == Decimal(v.number) IN Put(p, Len(d) + 1, Append(d, 0), Len(d))
    ELSE IF v.type = "string" THEN PrintString(p, v.text)
    ELSE IF v.type = "raw" /\ v.text # NoString THEN Put(p, Len(v.text) + 1, Append(v.text, 0), 0)
    ELSE IF v.type = "array" THEN PrintArray(p, v)
    ELSE IF v.type = "object" THEN PrintObject(p, v)
    ELSE [p EXCEPT !.ok = FALSE]

Buffer(length, noalloc, format, left) ==
    [s |-> <<>>, length |-> length, at |-> 0, depth |-> 0, noalloc |-> noalloc, format |-> format,
     ok |-> TRUE, null |-> FALSE, inside |-> TRUE, left |-> left, live |-> IF noalloc THEN 0 ELSE 1]

(* What the caller gets: the text, or NULL when the buffer has been freed. *)
Nothing(inside, live) == [ok |-> FALSE, text |-> NoString, inside |-> inside, live |-> live]
Handed(p, s) ==
    IF p.ok THEN [ok |-> TRUE, text |-> CString(s), inside |-> p.inside, live |-> p.live]
    ELSE Nothing(p.inside, IF p.null \/ p.noalloc THEN p.live ELSE p.live - 1)

(* print; the last allocation is for the copy of the right length.         *)
Copied(p) == Handed([p EXCEPT !.ok = @ /\ p.left > 0], SubSeq(p.s, 1, p.at))
Printed(v, format, left) ==
    IF left = 0 THEN Nothing(TRUE, 0)
    ELSE Copied(UpdateOffset(PrintValue(Buffer(BufferSize, FALSE, format, left - 1), v)))

Whole(p) == Handed(p, p.s)
PrintBuffered(v, prebuffer, format, left) ==
    IF prebuffer < 0 \/ left = 0 THEN Nothing(TRUE, 0)
    ELSE Whole(PrintValue(Buffer(prebuffer, FALSE, format, left - 1), v))

PrintPreallocated(v, length, format) == Whole(PrintValue(Buffer(length, TRUE, format, 0), v))

-----------------------------------------------------------------------------
(* cJSON_Minify from i on; NoString where it goes past the final 0.        *)
RECURSIVE Minify(_, _, _), MinifyString(_, _, _)

EndOfLine(b, i) == SelectInSubSeq(b, i + 1, Len(b), LAMBDA c : c \in {0, NL}) - 1

CommentEnd(b, i) ==
    LET E == {j \in i..Len(b) - 2 : Byte(b, j) = STAR /\ Byte(b, j + 1) = SLASH}
    IN IF E = {} THEN Len(b) + 1 ELSE CHOOSE j \in {k + 2 : k \in E} : \A k \in E : j <= k + 2

Minify(b, i, out) ==
    IF i >= Len(b) THEN NoString
    ELSE IF Byte(b, i) = 0 THEN out
    ELSE IF Byte(b, i) \in {SP, TAB, 13, NL} THEN Minify(b, i + 1, out)
    ELSE IF Byte(b, i) = SLASH /\ Byte(b, i + 1) = SLASH THEN Minify(b, EndOfLine(b, i), out)
    ELSE IF Byte(b, i) = SLASH /\ Byte(b, i + 1) = STAR THEN Minify(b, CommentEnd(b, i), out)
    ELSE IF Byte(b, i) = QUOTE THEN MinifyString(b, i + 1, Append(out, QUOTE))
    ELSE Minify(b, i + 1, Append(out, Byte(b, i)))

MinifyString(b, i, out) ==
    IF Byte(b, i) = 0 THEN NoString
    ELSE IF Byte(b, i) = QUOTE THEN Minify(b, i + 1, Append(out, QUOTE))
    ELSE IF Byte(b, i) = ESC THEN IF Byte(b, i + 1) = 0 THEN NoString
                                  ELSE MinifyString(b, i + 2, out \o <<ESC, Byte(b, i + 1)>>)
    ELSE MinifyString(b, i + 1, Append(out, Byte(b, i)))

-----------------------------------------------------------------------------
(* case_insensitive_strcmp is 0, get_object_item, cJSON_Compare.           *)
Lower(s) == [i \in DOMAIN s |-> IF s[i] \in 65..90 THEN s[i] + 32 ELSE s[i]]

SameName(s, t, sensitive) == s # NoString /\ t # NoString /\ IF sensitive THEN s = t ELSE Lower(s) = Lower(t)

ObjectItem(v, name, sensitive) == SelectInSeq(v.kids, LAMBDA k : SameName(k.name, name, sensitive))

RECURSIVE Compare(_, _, _)
Compare(a, b, sensitive) ==
    LET Within(x, y) == \A i \in DOMAIN x.kids : LET j == ObjectItem(y, x.kids[i].name, sensitive) IN
                            j # 0 /\ Compare(x.kids[i], y.kids[j], sensitive)
    IN a.type = b.type /\
       \/ a.type \in DOMAIN Word
       \/ a.type = "number" /\ a.number = b.number
       \/ a.type \in {"string", "raw"} /\ a.text # NoString /\ a.text = b.text
       \/ a.type = "array" /\ Len(a.kids) = Len(b.kids)
                            /\ \A i \in DOMAIN a.kids : Compare(a.kids[i], b.kids[i], sensitive)
       \/ a.type = "object" /\ Within(a, b) /\ Within(b, a)
=============================================================================
