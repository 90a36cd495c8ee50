------------------------------ MODULE Metadata ------------------------------
(***************************************************************************)
(* The metadata of a recording (rebake/src/schema/metadata): the two       *)
(* versions a meta.json may have, and the conversion of the old one, which *)
(* numbers its instructions and marks one segment as the whole episode,    *)
(* into the new one, whose segments point into a list of labels.           *)
(*                                                                         *)
(* "" is the empty string, Absent one that is not there.  Times are        *)
(* numbers, and a result is a set: of the one value, or empty for an error.*)
(***************************************************************************)
EXTENDS Naturals, Sequences, FiniteSets, SequencesExt

Absent == "absent"

OrEmpty(x) == IF x = Absent THEN "" ELSE x

FirstOr(s, x) == IF s = <<>> THEN x ELSE Head(s)
LastOr(s, x) == IF s = <<>> THEN x ELSE Last(s)

(***************************************************************************)
(* What MetadataV2_0 is made of, as far as anything depends on it.         *)
(***************************************************************************)
Program(role, name, git) == [role |-> role, name |-> name, git |-> git]
File(type, name) == [type |-> type, name |-> name]
Episode(start, end, success, label) ==
  [start_time |-> start, end_time |-> end, success |-> success, label |-> label]

(***************************************************************************)
(* V1.3 to V2.0.                                                           *)
(***************************************************************************)
WithRole(entities, roles) == SelectSeq(entities, LAMBDA e : e.role \in roles)

(* the id or name of the first entity of a role *)
IdOf(entities, role) == OrEmpty(FirstOr(WithRole(entities, {role}), [id |-> Absent]).id)
NameOf(entities, role) == OrEmpty(FirstOr(WithRole(entities, {role}), [name |-> Absent]).name)

extract_robot_from_entities(entities) == [type |-> "HSR", id |-> IdOf(entities, "robot")]

extract_environment_from_entities(entities) ==
  [type |-> "real_world", site |-> NameOf(entities, "location")]

extract_runner_from_entities(entities) ==
  [type |-> "operator", organization |-> NameOf(entities, "organization"),
   name |-> NameOf(entities, "operator")]

extract_devices_from_entities(entities) ==
  LET tools == WithRole(entities, {"controller", "joystick", "device"})
  IN  [k \in DOMAIN tools |->
         [role |-> tools[k].role, id |-> OrEmpty(tools[k].id),
          type |-> IF tools[k].name = Absent THEN tools[k].role ELSE tools[k].name]]

(* what s has at the positions in K, in their order *)
Among(s, K) ==
  [n \in 1 .. Cardinality(K) |-> s[CHOOSE k \in K : Cardinality({j \in K : j <= k}) = n]]

Composite(d) == Among(d.segments, {k \in DOMAIN d.segments : d.segments[k].is_composite})
NonComposite(d) == Among(d.segments, {k \in DOMAIN d.segments : ~d.segments[k].is_composite})

At(d, idx) == {k \in DOMAIN d.instructions : d.instructions[k].idx = idx}
Duplicated(d) ==
  {idx \in {d.instructions[k].idx : k \in DOMAIN d.instructions} : Cardinality(At(d, idx)) > 1}

(* The idx that may be there twice: that of the episode, of the last segment
   and of the last instruction, when no other is and it is not there thrice. *)
allowed_composite_duplicate_instruction_idx(d) ==
  {idx \in Duplicated(d) :
     /\ Composite(d) # <<>> /\ Head(Composite(d)).instruction_idx = idx
     /\ NonComposite(d) # <<>> /\ Last(NonComposite(d)).instruction_idx = idx
     /\ Duplicated(d) = {idx}
     /\ Cardinality(At(d, idx)) = 2
     /\ Last(d.instructions).idx = idx}

First(S) == CHOOSE k \in S : \A j \in S : k <= j
Latest(S) == CHOOSE k \in S : \A j \in S : k >= j

(* the instruction of the composite segment: the later one of two *)
EpisodeInstruction(d) ==
  LET idx == Head(Composite(d)).instruction_idx
  IN  IF idx \in allowed_composite_duplicate_instruction_idx(d)
      THEN Latest(At(d, idx)) ELSE First(At(d, idx))

EpisodeOf(d) ==
  IF Composite(d) # <<>>
  THEN LET c == Head(Composite(d))
       IN  Episode(c.start_time, c.end_time, c.success, Head(d.instructions[EpisodeInstruction(d)].text))
  ELSE LET rest == NonComposite(d)
       IN  Episode(FirstOr(rest, [start_time |-> 0]).start_time, LastOr(rest, [end_time |-> 0]).end_time,
                   rest # <<>> /\ \A k \in DOMAIN rest : rest[k].success, d.episode_label)

LabelIdx(d, idx) == First(At(d, idx)) - 1

(* every error of the conversion *)
Convertible(d) ==
  /\ Duplicated(d) \subseteq allowed_composite_duplicate_instruction_idx(d)
  /\ \A k \in DOMAIN d.instructions : d.instructions[k].text # <<>>
  /\ \A k \in DOMAIN NonComposite(d) : At(d, NonComposite(d)[k].instruction_idx) # {}
  /\ Composite(d) # <<>> => At(d, Head(Composite(d)).instruction_idx) # {}

try_from(d) ==
  [uuid |-> d.uuid,
   robot |-> extract_robot_from_entities(d.entities),
   files |-> d.files,
   environment |-> extract_environment_from_entities(d.entities),
   runner |-> extract_runner_from_entities(d.entities),
   devices |-> extract_devices_from_entities(d.entities),
   programs |-> d.components,
   episode |-> EpisodeOf(d),
   labels |-> [k \in DOMAIN d.instructions |-> Head(d.instructions[k].text)],
   segments |-> [k \in DOMAIN NonComposite(d) |->
      LET s == NonComposite(d)[k]
      IN  [start_time |-> s.start_time, end_time |-> s.end_time, success |-> s.success,
           label_idx |-> LabelIdx(d, s.instruction_idx)]]]

(* AiroaMetadata: either version *)
V1_3(d) == [version |-> "1.3", doc |-> d]
V2_0(m) == [version |-> "2.0", doc |-> m]

into_v2_0(metadata) ==
  IF metadata.version = "2.0" THEN {metadata.doc}
  ELSE IF Convertible(metadata.doc) THEN {try_from(metadata.doc)} ELSE {}

uuid_string(metadata) == metadata.doc.uuid

(* A text is a document with the two version fields it has, the document being
   whatever the fields of the JSON are; Garbage is no JSON.                 *)
Garbage == [schema_version |-> Absent, version |-> Absent, doc |-> Absent, complete |-> FALSE]

detect_version(text) ==
  IF text.schema_version = "2" THEN {"2.0"}
  ELSE IF text.version = "1" THEN {"1.3"} ELSE {}

parse_metadata(text) ==
  {[version |-> v, doc |-> text.doc] : v \in {w \in detect_version(text) : text.complete}}

parse_metadata_as_v2_0(text) == UNION {into_v2_0(metadata) : metadata \in parse_metadata(text)}
=============================================================================
