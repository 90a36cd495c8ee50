----------------------------- MODULE RosMessages -----------------------------
(***************************************************************************)
(* How one topic of a bag becomes a table.  The text of its message        *)
(* definition is turned into definitions, these into an Arrow schema and   *)
(* that into one builder per field; then each message is read from its     *)
(* bytes by the definitions and appended to the builders, whose types the  *)
(* parser takes for granted.  Images and point clouds have their fields    *)
(* read by a layout written in the code, and their payload kept apart.     *)
(*                                                                         *)
(* A byte says which value it is a part of, so that a value put together   *)
(* from the wrong bytes shows.  A value is the sequence of what it         *)
(* consists of: a primitive of itself, a string of its characters, a       *)
(* struct of its fields, an array of its items.                            *)
(***************************************************************************)
EXTENDS Naturals, FiniteSets, SequencesExt

CONSTANTS
  Texts,        \* [topic, suffix, sections, generations], see MCMessages
  Prefixed,     \* struct types that are named like a primitive and more: which
  MaxMessages,  \* how many messages the topic has
  MaxLength     \* the longest string or sequence in one

ASSUME MessagesAssumption == {MaxMessages, MaxLength} \subseteq Nat

VARIABLES
  text,         \* of the topic's type
  generation,   \* of ROS
  byteOrder,    \* of the messages
  stage,        \* "new", "ready", "finished"; or "error", "panic", "overflow"
  table,        \* topic_message_definition_table
  builders,     \* their Arrow types
  rows,         \* what was appended to them
  payloads,     \* image or point cloud data
  sent          \* the messages, as their publisher meant them

vars == <<text, generation, byteOrder, stage, table, builders, rows, payloads, sent>>

(***************************************************************************)
(* From the text to definitions.  A section is [name, lines]; a line is    *)
(* [constant, name, of, shape, length, equals, bracket]: what it means,    *)
(* and whether its text has a "=" or, apart from its type, a "[".          *)
(***************************************************************************)
Size == [bool |-> 1, byte |-> 1, char |-> 1, int8 |-> 1, uint8 |-> 1, int16 |-> 2, uint16 |-> 2,
         float32 |-> 4, int32 |-> 4, uint32 |-> 4, float64 |-> 8, int64 |-> 8, uint64 |-> 8]

Primitive == DOMAIN Size \cup {"string"}

(* parse_base_type_text looks at how the name of a type starts: stringStamped
   is taken for a string.                                                    *)
BaseType(short) == IF short \in DOMAIN Prefixed THEN Prefixed[short] ELSE short

ASSUME PrefixedAssumption == \A short \in DOMAIN Prefixed : Prefixed[short] \in Primitive

FieldDefinition(of, shape, length) == [of |-> of, shape |-> shape, length |-> length]
One(of) == FieldDefinition(of, "one", 0)

Builtin == [time |-> <<One("int32"), One("uint32")>>, duration |-> <<One("int32"), One("uint32")>>]

IsConstantLine(l) == l.equals /\ ~l.bracket /\ l.shape = "one"

(* The package of a type is cut off. *)
Fields(lines) ==
  LET kept == SelectSeq(lines, LAMBDA l : ~IsConstantLine(l))
  IN  [i \in DOMAIN kept |-> FieldDefinition(BaseType(kept[i].of.short), kept[i].shape, kept[i].length)]

(* An empty first section is no section.  Of an empty one further on there
   remains a line that is expected to end in a line break.                 *)
SplitSchemaText(sections) == IF sections[1].lines = <<>> THEN Tail(sections) ELSE sections

(* The first section with a short name is the one. *)
Inserted(sections, i) ==
  /\ sections[i].name.short \notin DOMAIN Builtin
  /\ \A j \in 1 .. i - 1 : sections[j].name.short # sections[i].name.short

(* int32[<=5]: the length is not a number *)
TextFails(sections) ==
  \E i \in DOMAIN sections :
    \/ i > 1 /\ sections[i].lines = <<>>
    \/ Inserted(sections, i) /\ \E l \in ToSet(sections[i].lines) : l.shape = "bounded"

MessageDefinitionTable(sections) ==
  FoldLeft(LAMBDA t, s : t @@ (s.name.short :> Fields(s.lines)), Builtin, sections)

(* Both ingestors, before the text is parsed, for a topic whose payload is
   kept apart: "uint8[] data" becomes "uint32 index".                      *)
Externalized(sections) ==
  LET Index(l) == IF l.name = "data" /\ l.of.short = "uint8" /\ l.shape = "sequence"
                  THEN [l EXCEPT !.of.short = "uint32", !.shape = "one"] ELSE l
  IN  [i \in DOMAIN sections |->
        [sections[i] EXCEPT !.lines = [j \in DOMAIN @ |-> Index(@[j])]]]

(***************************************************************************)
(* From definitions to the schema, and to builders of the same types.      *)
(***************************************************************************)
ArrowPrimitive ==
  [bool |-> "Boolean", byte |-> "UInt8", char |-> "UInt8", int8 |-> "Int8", uint8 |-> "UInt8",
   int16 |-> "Int16", uint16 |-> "UInt32", float32 |-> "Float32", int32 |-> "Int32",
   uint32 |-> "UInt32", float64 |-> "Float64", int64 |-> "Int64", uint64 |-> "UInt64",
   string |-> "Utf8"]

RECURSIVE ArrowField(_, _)
ArrowField(t, f) ==
  [shape |-> f.shape, length |-> f.length,
   of |-> IF f.of \in Primitive THEN ArrowPrimitive[f.of] ELSE "Struct",
   fields |-> IF f.of \in Primitive THEN <<>>
              ELSE [i \in DOMAIN t[f.of] |-> ArrowField(t, t[f.of][i])]]

Structs(t, of) == {f.of : f \in ToSet(t[of])} \ Primitive

RECURSIVE Reachable(_, _)
Reachable(t, S) ==
  LET more == S \cup UNION {Structs(t, of) : of \in S \cap DOMAIN t}
  IN  IF more = S THEN S ELSE Reachable(t, more)

(* A struct that contains one of its own short name: the types are built by
   recursion, until the stack overflows.                                   *)
Endless(t, type) == \E of \in Reachable(t, {type}) \cap DOMAIN t : of \in Reachable(t, Structs(t, of))

SchemaFails(t, type) == ~ Reachable(t, {type}) \subseteq DOMAIN t

CreateArrayBuilder(t, f) == ArrowField(t, f)

CreateArrayBuilders(t, type) == [i \in DOMAIN t[type] |-> CreateArrayBuilder(t, t[type][i])]

(***************************************************************************)
(* The deserializer: d is [bytes, generation], a reader is [pos, status,   *)
(* out], where out collects the values of the struct or array in progress. *)
(***************************************************************************)
Garbled == [tag |-> "garbled", id |-> <<>>, k |-> 1, n |-> 1]

(* from_cdr_header: ROS1 messages have no header and are little-endian *)
OrderOf(d) == IF d.generation = "ROS1" THEN "little" ELSE d.bytes[2].tag

(* Faulty: the header counts when the cursor is aligned. *)
AlignToStart(d, pos, n) ==
  IF d.generation = "ROS1" \/ pos % n = 0 THEN pos ELSE pos + (n - (pos % n))

AlignTo(d, pos, n) ==
  IF d.generation = "ROS1" \/ (pos - 4) % n = 0 THEN pos ELSE pos + (n - ((pos - 4) % n))

Value(d, bytes) ==
  LET n == Len(bytes)
      k(i) == IF OrderOf(d) = "little" THEN i ELSE n + 1 - i
  IN  IF \A i \in 1 .. n : bytes[i] = [bytes[1] EXCEPT !.k = k(i), !.n = n]
      THEN [bytes[1] EXCEPT !.k = 1] ELSE Garbled

(* next_bytes panics beyond the end. *)
NextBytes(d, s, n) ==
  IF s.pos + n > Len(d.bytes) THEN [s EXCEPT !.status = "panic"] ELSE [s EXCEPT !.pos = @ + n]

Deserialize(d, s, n) ==
  LET r == NextBytes(d, [s EXCEPT !.pos = AlignTo(d, @, n)], n)
  IN  IF r.status # "ok" THEN r
      ELSE [r EXCEPT !.out = Append(@, <<Value(d, SubSeq(d.bytes, r.pos - n + 1, r.pos))>>)]

(* A length made of other bytes is taken to be larger than the message. *)
LengthOf(d, r) == LET v == Last(r.out)[1] IN IF v.tag = "count" THEN v.id[1] ELSE Len(d.bytes) + 1

(* ROS2 strings end in a NUL.  Bytes that are not UTF-8 are an error. *)
DeserializeString(d, s) ==
  LET h == Deserialize(d, s, 4) IN
  IF h.status # "ok" THEN h
  ELSE LET r == NextBytes(d, h, LengthOf(d, h))
           bytes == SubSeq(d.bytes, h.pos + 1, r.pos)
           text1 == IF d.generation = "ROS1" \/ bytes = <<>> THEN bytes ELSE Front(bytes)
       IN  IF r.status # "ok" THEN r
           ELSE IF \E b \in ToSet(text1) : b.tag = "bad" THEN [r EXCEPT !.status = "error"]
           ELSE [r EXCEPT !.out = Append(s.out, text1)]

(***************************************************************************)
(* The parser, which goes through definitions and builders side by side.   *)
(***************************************************************************)
(* Faulty: numbers of 16 bits have builders of their own. *)
ParserBuilderOfType == [ArrowPrimitive EXCEPT !.char = "Utf8", !.uint16 = "UInt16"]

ParserBuilder == [ArrowPrimitive EXCEPT !.char = "Utf8"]

(* the builder that a field is appended to, as the parser will downcast it *)
Downcasts(f, b) ==
  /\ b.of = IF f.of \in Primitive THEN ParserBuilder[f.of] ELSE "Struct"
  /\ b.shape = IF f.of = "char" /\ f.shape = "one" THEN "array" ELSE f.shape

RECURSIVE ParseMany(_, _, _, _, _, _)

(* append(true) makes one list of the items. *)
Listed(s, r) == [r EXCEPT !.out = Append(s.out, @)]

(* The items of an array are appended to the builder of the list itself. *)
ParseArray(t, f, b, d, s) == Listed(s, ParseMany(t, f.of, b, d, [s EXCEPT !.out = <<>>], f.length))

ParseSequence(t, f, b, d, s) ==
  LET h == Deserialize(d, s, 4)
      items == [b EXCEPT !.shape = "one"]
  IN  IF h.status # "ok" THEN h
      ELSE Listed(s, ParseMany(t, f.of, items, d, [h EXCEPT !.out = <<>>], LengthOf(d, h)))

ParseField(t, f, b, d, s) ==
  IF s.status # "ok" THEN s
  ELSE IF ~Downcasts(f, b) THEN [s EXCEPT !.status = "panic"]
  ELSE CASE f.shape = "array" -> ParseArray(t, f, b, d, s)
         [] f.shape = "sequence" -> ParseSequence(t, f, b, d, s)
         [] f.shape = "one" -> ParseMany(t, f.of, b, d, s, 1)

ParsePrimitive(of, d, s) ==
  IF of = "string" THEN DeserializeString(d, s) ELSE Deserialize(d, s, Size[of])

(* A list builder that is passed for a StructBuilder panics. *)
ParseStruct(t, of, b, d, s) ==
  LET field(r, i) == ParseField(t, t[of][i], b.fields[i], d, r)
  IN  IF b.shape # "one" THEN [s EXCEPT !.status = "panic"]
      ELSE Listed(s, FoldLeft(field, [s EXCEPT !.out = <<>>], [i \in DOMAIN b.fields |-> i]))

(* n values of one type, appended to s.out *)
ParseMany(t, of, b, d, s, n) ==
  IF n = 0 \/ s.status # "ok" THEN s
  ELSE LET r == IF of \in Primitive THEN ParsePrimitive(of, d, s) ELSE ParseStruct(t, of, b, d, s)
       IN  ParseMany(t, of, b, d, r, n - 1)

Start(d) == [pos |-> IF d.generation = "ROS1" THEN 0 ELSE 4, status |-> "ok", out |-> <<>>]

(* RosMsgArrowParser::parse *)
Parse(t, type, bs, d) ==
  FoldLeft(LAMBDA s, i : ParseField(t, t[type][i], bs[i], d, s), Start(d), [i \in DOMAIN bs |-> i])

(***************************************************************************)
(* Images and point clouds: decode_compressed_image, decode_image and      *)
(* decode_point_cloud2 read these fields in this order, and expect the     *)
(* builders that go with them, with an index in the place of the payload.  *)
(***************************************************************************)
Bytes == FieldDefinition("uint8", "sequence", 0)

Header(g) == (IF g = "ROS1" THEN <<One("uint32")>> ELSE <<>>) \o <<One("time"), One("string")>>

CompressedImage == <<One("Header"), One("string"), Bytes>>

Image == <<One("Header"), One("uint32"), One("uint32"), One("string"), One("uint8"), One("uint32"), Bytes>>

PointField == <<One("string"), One("uint32"), One("uint8"), One("uint32")>>

PointCloud2 ==
  <<One("Header"), One("uint32"), One("uint32"), FieldDefinition("PointField", "sequence", 0),
    One("bool"), One("uint32"), One("uint32"), Bytes, One("bool")>>

Layouts(g) ==
  Builtin @@ [Header |-> Header(g), CompressedImage |-> CompressedImage, Image |-> Image,
              PointField |-> PointField, PointCloud2 |-> PointCloud2]

(* Which handler: by the last part of the topic's name and the end of the
   type's, is_point_cloud2_type and is_raw_image_type; ROS1 raw images are
   messages like others.                                                   *)
Layout ==
  CASE text.suffix = "PointCloud2" -> "PointCloud2"
    [] text.topic = "compressed" -> "CompressedImage"
    [] text.suffix = "Image" /\ generation = "ROS2" -> "Image"
    [] OTHER -> "none"

Payload(layout) == CHOOSE i \in DOMAIN layout : layout[i] = Bytes

Expected(ls, layout) ==
  CreateArrayBuilders(ls @@ ("row" :> [layout EXCEPT ![Payload(layout)] = One("uint32")]), "row")

(* Columns beyond the layout stay short, which only finish notices. *)
Appended(r, ls, bs, m) ==
  IF r.status # "ok" THEN r
  ELSE IF Layout = "Image" /\ ~m.encodes THEN [r EXCEPT !.status = "error"]
  ELSE IF ~IsPrefix(Expected(ls, ls[Layout]), bs) THEN [r EXCEPT !.status = "panic"]
  ELSE r

Decode(d, bs, m) ==
  LET ls == Layouts(generation)
  IN  Appended(Parse(ls, Layout, CreateArrayBuilders(ls, Layout), d), ls, bs, m)

(***************************************************************************)
(* The publisher: what the fields of a message mean and how they are put   *)
(* on the wire.  Constants have no place in it, types are told apart by    *)
(* their full names, ROS2 aligns each value to its size and ends a string  *)
(* in a NUL.  m is [n, len, bad, encodes]: its number, the length of its   *)
(* strings and sequences, whether the strings are not UTF-8, and whether   *)
(* an image can be encoded.  w is [bytes, out].                            *)
(***************************************************************************)
Prim(of) == [of |-> [pkg |-> "", short |-> of], shape |-> "one", length |-> 0]

Declared(of) ==
  IF of.pkg = "" THEN <<Prim("int32"), Prim("uint32")>>
  ELSE LET s == SelectSeq(text.sections, LAMBDA x : x.name = of)[1]
       IN  SelectSeq(s.lines, LAMBDA l : ~l.constant)

Put(w, tag, id, n) ==
  LET pad == IF generation = "ROS1" THEN 0 ELSE (n - ((Len(w.bytes) - 4) % n)) % n
      k(i) == IF byteOrder = "little" THEN i ELSE n + 1 - i
      byte(i) == [tag |-> tag, id |-> id, k |-> k(i), n |-> n]
  IN  [bytes |-> w.bytes \o [i \in 1 .. pad |-> [Garbled EXCEPT !.tag = "pad"]] \o [i \in 1 .. n |-> byte(i)],
       out |-> Append(w.out, <<[tag |-> tag, id |-> id, k |-> 1, n |-> n]>>)]

PutString(w, id, m) ==
  LET nul == IF generation = "ROS1" THEN <<>> ELSE <<[Garbled EXCEPT !.tag = "nul"]>>
      chars == [i \in 1 .. m.len |-> [tag |-> IF m.bad THEN "bad" ELSE "text", id |-> Append(id, i), k |-> 1, n |-> 1]]
  IN  [bytes |-> Put(w, "count", <<Len(chars \o nul)>>, 4).bytes \o chars \o nul, out |-> Append(w.out, chars)]

RECURSIVE PutMany(_, _, _, _, _)

PutField(w, l, id, m) ==
  IF l.shape = "one" THEN PutMany(w, l.of, id, m, 1)
  ELSE LET n == IF l.shape = "array" THEN l.length ELSE m.len
           h == IF l.shape = "array" THEN w ELSE Put(w, "count", <<n>>, 4)
           r == PutMany([h EXCEPT !.out = <<>>], l.of, id, m, n)
       IN  [r EXCEPT !.out = Append(w.out, @)]

PutStruct(w, lines, id, m) ==
  LET r == FoldLeft(LAMBDA a, i : PutField(a, lines[i], Append(id, i), m), [w EXCEPT !.out = <<>>], [i \in DOMAIN lines |-> i])
  IN  [r EXCEPT !.out = Append(w.out, @)]

PutMany(w, of, id, m, n) ==
  LET one(a, i) == CASE of.short = "string" -> PutString(a, Append(id, i), m)
                     [] of.short \in DOMAIN Size -> Put(a, of.short, Append(id, i), Size[of.short])
                     [] OTHER -> PutStruct(a, Declared(of), Append(id, i), m)
  IN  FoldLeft(one, w, [i \in 1 .. n |-> i])

CdrHeader ==
  IF generation = "ROS1" THEN <<>>
  ELSE LET h == [Garbled EXCEPT !.tag = "pad"] IN <<h, [h EXCEPT !.tag = byteOrder], h, h>>

Publish(m) ==
  PutStruct([bytes |-> CdrHeader, out |-> <<>>], Declared(text.sections[1].name), <<m.n>>, m)

(***************************************************************************)
(* Pipeline.                                                               *)
(***************************************************************************)
Init ==
  /\ text \in Texts
  /\ generation \in text.generations
  /\ byteOrder \in IF generation = "ROS1" THEN {"little"} ELSE {"little", "big"}
  /\ stage = "new"
  /\ table = Builtin /\ builders = <<>>
  /\ rows = <<>> /\ payloads = <<>> /\ sent = <<>>

bag == <<text, generation, byteOrder>>

Type == text.sections[1].name.short

Sections == SplitSchemaText(IF Layout = "none" THEN text.sections ELSE Externalized(text.sections))

(* add_message_definition, with the first message of the topic or its
   connection: any error ends the ingest.                                  *)
AddMessageDefinition ==
  LET t == MessageDefinitionTable(Sections) IN
  /\ stage = "new"
  /\ ~TextFails(Sections) /\ ~SchemaFails(t, Type) /\ ~Endless(t, Type)
  /\ table' = t
  /\ builders' = CreateArrayBuilders(t, Type)
  /\ stage' = "ready"
  /\ UNCHANGED <<bag, rows, payloads, sent>>

DefinitionFails ==
  /\ stage = "new"
  /\ \/ TextFails(Sections)
     \/ SchemaFails(MessageDefinitionTable(Sections), Type)
  /\ stage' = "error"
  /\ UNCHANGED <<bag, table, builders, rows, payloads, sent>>

DefinitionOverflows ==
  LET t == MessageDefinitionTable(Sections) IN
  /\ stage = "new"
  /\ ~TextFails(Sections) /\ ~SchemaFails(t, Type) /\ Endless(t, Type)
  /\ stage' = "overflow"
  /\ UNCHANGED <<bag, table, builders, rows, payloads, sent>>

(* The row is complete only if reading it succeeded. *)
AddRow(m, r, row) ==
  /\ sent' = Append(sent, [m |-> m, row |-> Publish(m).out[1]])
  /\ stage' = IF r.status = "ok" THEN "ready" ELSE r.status
  /\ rows' = IF r.status = "ok" THEN Append(rows, row) ELSE rows

Data(m) == [bytes |-> Publish(m).bytes, generation |-> generation]

AddMessageData(m) ==
  /\ stage = "ready" /\ Layout = "none"
  /\ \E r \in {Parse(table, Type, builders, Data(m))} : AddRow(m, r, r.out)
  /\ UNCHANGED <<bag, table, builders, payloads>>

(* add_image_data, add_pointcloud_data *)
AddPayloadData(m) ==
  /\ stage = "ready" /\ Layout # "none"
  /\ \E r \in {Decode(Data(m), builders, m)}, p \in {Payload(Layouts(generation)[Layout])} :
         /\ AddRow(m, r, [i \in DOMAIN r.out |-> IF i = p THEN Len(payloads) ELSE r.out[i]])
         /\ payloads' = IF r.status = "ok" THEN Append(payloads, r.out[p]) ELSE payloads
  /\ UNCHANGED <<bag, table, builders>>

(* A RecordBatch needs columns of one length. *)
Finish ==
  /\ stage = "ready"
  /\ stage' = IF \A r \in ToSet(rows) : Len(r) = Len(builders) THEN "finished" ELSE "error"
  /\ UNCHANGED <<bag, table, builders, rows, payloads, sent>>

Ended == stage \notin {"new", "ready"} /\ UNCHANGED vars

Messages == [n : {Len(sent) + 1}, len : 0 .. MaxLength, bad : BOOLEAN, encodes : BOOLEAN]

Next ==
  \/ AddMessageDefinition
  \/ DefinitionFails
  \/ DefinitionOverflows
  \/ Len(sent) < MaxMessages /\ \E m \in Messages : AddMessageData(m) \/ AddPayloadData(m)
  \/ Finish
  \/ Ended

Spec == Init /\ [][Next]_vars

(***************************************************************************)
(* Properties.                                                             *)
(***************************************************************************)
Lines == UNION {ToSet(s.lines) : s \in ToSet(text.sections)}

(* Two types of one short name, of which the code knows only the first. *)
Ambiguous ==
  \E i, j \in DOMAIN text.sections :
    i < j /\ text.sections[i].name.short = text.sections[j].name.short

(* A "=" in the comment or the bound of a field that is no list hides it; a
   "[" in the value or the comment makes a field of a constant.            *)
Misleading ==
  \E l \in Lines : IF l.constant THEN l.bracket ELSE l.equals /\ l.shape = "one" /\ ~l.bracket

(* A field of a struct type that passes for a primitive: the parser reads that
   instead, and goes on in the middle of the struct.                         *)
Misread == \E l \in Lines : ~l.constant /\ l.of.short \in DOMAIN Prefixed

(* What was published is what is in the table, value by value, whatever the
   nesting, the byte order and the alignment: the reader's cursor, the
   definitions and the builders never get out of step, and the index in a
   row is the place of its payload.  Excepted are the types that the parser of
   definitions takes for others.                                           *)
RowsAreMessages ==
  stage = "finished" /\ ~Ambiguous /\ ~Misleading /\ ~Misread =>
    /\ Len(rows) = Len(sent)
    /\ \A i \in DOMAIN rows :
         IF Layout = "none" THEN rows[i] = sent[i].row
         ELSE LET p == Payload(Layouts(generation)[Layout]) IN
              /\ rows[i][p] = i - 1
              /\ [rows[i] EXCEPT ![p] = payloads[i]] = sent[i].row

(* One topic that cannot be read ends the ingest of the whole bag.  That
   happens for these causes only: what the definitions cannot express, types
   that their parser takes for others, a type called an image that is not
   laid out like one, an invalid string, an image that cannot be encoded.  *)
NoSpuriousFailure ==
  stage \in {"error", "panic", "overflow"} =>
    \/ Ambiguous \/ Misleading \/ Misread
    \/ \E s \in ToSet(text.sections) : s.lines = <<>>
    \/ ~ {l.of.short : l \in Lines} \subseteq Primitive \cup DOMAIN table \cup {s.name.short : s \in ToSet(text.sections)}
    \/ \E l \in Lines : l.shape = "bounded" \/ l.of.short = "char" \/ (l.shape = "array" /\ l.of.pkg # "")
    \/ Layout # "none" /\ text.suffix # Layout /\ text.suffix # "CompressedImage"
    \/ Layout = "Image" /\ text.sections[1].name.short # "Image"
    \/ sent # <<>> /\ LET m == Last(sent).m IN (m.bad /\ m.len > 0) \/ (Layout = "Image" /\ ~m.encodes)
=============================================================================
