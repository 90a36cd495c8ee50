----------------------------- MODULE PyMetadata -----------------------------
(***************************************************************************)
(* The metadata object that a Python script builds and changes             *)
(* (python/src/core/metadata.rs), and the parts it is made of.  What a     *)
(* getter returns is a copy: a change of a part counts when the part is    *)
(* set in the object again.  Constructors check what they are given,       *)
(* setters check nothing; a constructor returns the set of the part, or    *)
(* the empty set when it raises.                                           *)
(***************************************************************************)
EXTENDS Metadata, Integers

CONSTANTS
  Names,     \* the strings a script may give, "" among them
  Instants   \* the times it may give, which may be negative

Made(ok, part) == IF ok THEN {part} ELSE {}

(***************************************************************************)
(* Constructors.  A keyword that is not given has its default.             *)
(***************************************************************************)
NewGitSource(uri, hash, branch) ==
  Made(uri # "" /\ hash # "" /\ branch # "", [uri |-> uri, hash |-> hash, branch |-> branch])

NewRobot(type, id) ==
  [type |-> IF type = Absent THEN "unknown" ELSE type, id |-> OrEmpty(id)]

NewFile(name) == Made(name # "", File("mcap", name))

NewEnvironment(site) ==
  [type |-> "real_world", site |-> IF site = Absent THEN "unknown" ELSE site]

NewRunner(organization, name) ==
  [type |-> "operator", organization |-> OrEmpty(organization), name |-> OrEmpty(name)]

NewProgram(role, name, git) == Made(role # "" /\ name # "", Program(role, name, git))

NewDevice(role, type, id) ==
  Made(role # "" /\ type # "", [role |-> role, id |-> OrEmpty(id), type |-> type])

NewEpisode(label, start, end) ==
  Made(label # "" /\ start >= 0 /\ end >= 0, Episode(start, end, TRUE, label))

NewSegment(start, end, label_idx) ==
  [start_time |-> start, end_time |-> end, success |-> TRUE, label_idx |-> label_idx]

NewMetadataV2_0(uuid, episode, files, programs) ==
  Made(files # <<>> /\ programs # <<>>,
    [uuid |-> uuid, robot |-> NewRobot(Absent, Absent), files |-> files,
     environment |-> NewEnvironment(Absent), runner |-> NewRunner(Absent, Absent),
     devices |-> <<>>, programs |-> programs, episode |-> episode,
     labels |-> <<>>, segments |-> <<>>])

(***************************************************************************)
(* Setters of the parts.                                                   *)
(***************************************************************************)
GitSourceSet(g) == {[g EXCEPT !.uri = n] : n \in Names} \cup {[g EXCEPT !.branch = n] : n \in Names}

SourceSet(p) ==
  LET git == NewGitSource("uri", "hash", "branch")
  IN  {[p EXCEPT !.git = g] : g \in {{}, git} \cup {{h} : h \in UNION {GitSourceSet(g) : g \in git}}}

RobotSet(r) == {[r EXCEPT !.id = n] : n \in Names}

FileSet(f) == {[f EXCEPT !.name = n] : n \in Names}

EnvironmentSet(e) == {[e EXCEPT !.site = n] : n \in Names}

RunnerSet(r) == {[r EXCEPT !.name = n] : n \in Names}

ProgramSet(p) == {[p EXCEPT !.role = n] : n \in Names} \cup {[p EXCEPT !.name = n] : n \in Names}

DeviceSet(d) == {[d EXCEPT !.role = n] : n \in Names}

EpisodeSet(e) == {[e EXCEPT !.label = n] : n \in Names} \cup {[e EXCEPT !.start_time = t] : t \in Instants}

SegmentSet(s) == {[s EXCEPT !.label_idx = k] : k \in 0..1}

(***************************************************************************)
(* Setters of the object: of a part that was made, or got and changed, or  *)
(* of a list of one such or of none.                                       *)
(***************************************************************************)
Lists(S) == {<<>>} \cup {<<x>> : x \in S}

Of(list, Set(_)) == UNION {Set(list[k]) : k \in DOMAIN list}

Devices(m) == (UNION {NewDevice(n, "joystick", Absent) : n \in Names}) \cup Of(m.devices, DeviceSet)
Files(m) == (UNION {NewFile(n) : n \in Names}) \cup Of(m.files, FileSet)
Programs(m) == (UNION {NewProgram(n, n, {}) : n \in Names})
               \cup Of(m.programs, ProgramSet) \cup Of(m.programs, SourceSet)
Episodes(m) == (UNION {NewEpisode(n, t, t) : n \in Names, t \in Instants}) \cup EpisodeSet(m.episode)
Segments(m) == {NewSegment(t, t, 0) : t \in Instants} \cup Of(m.segments, SegmentSet)

UuidSet(m) == {[m EXCEPT !.uuid = n] : n \in Names}
PartsSet(m) ==
  {[m EXCEPT !.robot = r] : r \in RobotSet(m.robot)}
  \cup {[m EXCEPT !.environment = e] : e \in EnvironmentSet(m.environment)}
  \cup {[m EXCEPT !.runner = r] : r \in RunnerSet(m.runner)}
  \cup {[m EXCEPT !.episode = e] : e \in Episodes(m)}
ListsSet(m) ==
  {[m EXCEPT !.files = l] : l \in Lists(Files(m))}
  \cup {[m EXCEPT !.devices = l] : l \in Lists(Devices(m))}
  \cup {[m EXCEPT !.programs = l] : l \in Lists(Programs(m))}
  \cup {[m EXCEPT !.labels = l] : l \in Lists(Names)}
  \cup {[m EXCEPT !.segments = l] : l \in Lists(Segments(m))}

MetadataSet(m) == UuidSet(m) \cup PartsSet(m) \cup ListsSet(m)

(***************************************************************************)
(* What the context asks of metadata that a script gives it.               *)
(***************************************************************************)
(* Faulty: the role of a program is not looked at. *)
ValidProgramByName(p) == p.name # ""

ValidProgram(p) == p.role # "" /\ p.name # ""

validate_metadata(m) ==
  /\ m.files # <<>> /\ m.programs # <<>>
  /\ m.uuid # "" /\ m.episode.label # ""
  /\ \A k \in DOMAIN m.files : m.files[k].name # ""
  /\ \A k \in DOMAIN m.programs : ValidProgram(m.programs[k])

FromJson(text) == {m \in parse_metadata_as_v2_0(text) : validate_metadata(m)}
=============================================================================
