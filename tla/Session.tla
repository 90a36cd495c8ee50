------------------------------ MODULE Session ------------------------------
(***************************************************************************)
(* A Python script at work on one context (python/src): it fills the       *)
(* context by hand or by an ingestor, lets stages and pipelines run over   *)
(* it, catches what they raise, and goes on, also to a next bag.           *)
(*                                                                         *)
(* What is in the context stands for whose it is: the name of a bag, or    *)
(* Script for what the script made itself.  A video or an image has also   *)
(* its shape, a number.  A field that is None is the empty set or map.     *)
(***************************************************************************)
EXTENDS PyMetadata, FiniteSets

CONSTANTS
  Rosbags,     \* [name, color, depth, text]: the shape of its images or 0, whether it has depth, its meta.json
  Texts,       \* the JSON texts the script may have
  MaxCalls,    \* bound: calls that do anything
  MaxChanges   \* bound: how many of them change the metadata object

ASSUME SessionAssumption ==
  /\ MaxCalls \in Nat /\ MaxChanges \in Nat
  /\ \A b \in Rosbags : b.name # "script"
  /\ \A text \in Texts \cup {b.text : b \in Rosbags} :
       \A d \in {metadata.doc : metadata \in {m \in parse_metadata(text) : m.version = "1.3"}} :
         /\ d.segments \in Seq(Range(d.segments)) /\ d.instructions \in Seq(Range(d.instructions))
         /\ \A s \in Range(d.segments) : s.is_composite \in BOOLEAN

VARIABLES
  context,   \* the PyContext
  handle,    \* the PyMetadataV2_0 the script has, {} before there is one
  disk,      \* the video files
  bundles,   \* the folders a ParquetVideoExporter wrote
  sources,   \* whose data the script has put in since the context was last empty
  calls,
  changes

sessionVars == <<context, handle, disk, bundles, sources, calls, changes>>

Script == "script"
Color == "color"
Depth == "depth"

Context ==
  [dataset |-> {},             \* whose rows it has
   rosbag_uuid |-> {},         \* what is in their rosbag_uuid column, if they have it
   image_data |-> <<>>,        \* of each topic [of, shape]
   image_topic_shapes |-> <<>>,
   depth_data |-> {},
   video_cache_dir |-> <<>>,
   rosbag_path |-> {},
   bundle_root |-> <<>>,
   video_registry |-> <<>>,    \* of each topic [of, shape, path, root], the root it was written below
   topic_message_type_map |-> {},
   airoa_metadata |-> {}]      \* [version, doc, of, origin], the origin as it was read

SessionInit ==
  /\ context = Context
  /\ handle = {}
  /\ disk = <<>> /\ bundles = <<>>
  /\ sources = {}
  /\ calls = 0 /\ changes = 0

Call == calls < MaxCalls /\ calls' = calls + 1

Over(m, n) == [t \in DOMAIN m \cup DOMAIN n |-> IF t \in DOMAIN m THEN m[t] ELSE n[t]]

Only(t, x) == [u \in {t} |-> x]

Has(field) == field # {}

Owned(metadata, owner) ==
  [version |-> metadata.version, doc |-> metadata.doc, of |-> owner, origin |-> metadata]

uuid == uuid_string(CHOOSE m \in context.airoa_metadata : TRUE)

(***************************************************************************)
(* The metadata object.                                                    *)
(***************************************************************************)
(* MetadataV2_0(episode, files, programs, ...), of parts that were made *)
NewMetadata ==
  /\ Call
  /\ \E n \in Names :
       \E e \in NewEpisode(n, 0, 0), f \in NewFile(n), p \in NewProgram("interface", n, {}) :
         \E m \in NewMetadataV2_0(n, e, <<f>>, <<p>>) : handle' = {m}
  /\ UNCHANGED <<context, disk, bundles, sources, changes>>

ChangeMetadata ==
  /\ Call
  /\ changes < MaxChanges /\ changes' = changes + 1
  /\ \E m \in handle : \E n \in MetadataSet(m) \ {m} : handle' = {n}
  /\ UNCHANGED <<context, disk, bundles, sources>>

MetadataFromJson ==
  /\ Call
  /\ \E text \in Texts : \E m \in FromJson(text) : handle' = {m}
  /\ UNCHANGED <<context, disk, bundles, sources, changes>>

(***************************************************************************)
(* The fields of the context.                                              *)
(***************************************************************************)
PutIn(c) == context' = c /\ sources' = sources \cup {Script}

SetAiroaMetadata ==
  /\ Call
  /\ \E m \in handle :
       /\ validate_metadata(m)
       /\ PutIn([context EXCEPT !.airoa_metadata = {Owned(V2_0(m), Script)}])
  /\ UNCHANGED <<handle, disk, bundles, changes>>

(* text of the old version is kept as it is, and not validated *)
SetAiroaMetadataJson ==
  /\ Call
  /\ \E text \in Texts : \E m \in parse_metadata(text) :
       /\ m.version = "2.0" => validate_metadata(m.doc)
       /\ PutIn([context EXCEPT !.airoa_metadata = {Owned(m, Script)}])
  /\ UNCHANGED <<handle, disk, bundles, changes>>

SetRecordBatch ==
  /\ Call
  /\ PutIn([context EXCEPT !.dataset = @ \cup {Script}])
  /\ UNCHANGED <<handle, disk, bundles, changes>>

SetImageData ==
  /\ Call
  /\ \E shape \in {1, 3} : PutIn([context EXCEPT !.image_data = Only(Color, [of |-> Script, shape |-> shape])])
  /\ UNCHANGED <<handle, disk, bundles, changes>>

(* any other folder than the default "./video_cache" *)
SetVideoCacheDir ==
  /\ Call
  /\ context.video_cache_dir # <<"mine">>
  /\ context' = [context EXCEPT !.video_cache_dir = <<"mine">>]
  /\ UNCHANGED <<handle, disk, bundles, sources, changes>>

SetBundleRoot ==
  /\ Call
  /\ \E dir \in DOMAIN bundles : context' = [context EXCEPT !.bundle_root = dir]
  /\ UNCHANGED <<handle, disk, bundles, sources, changes>>

NewContext ==
  /\ Call
  /\ context' = Context
  /\ sources' = {}
  /\ UNCHANGED <<handle, disk, bundles, changes>>

(***************************************************************************)
(* The stages.  A wrapper takes what the context has, leaves it empty, and *)
(* puts back what the stage returns.                                       *)
(***************************************************************************)
(* Faulty: what the stage was given is still there when it raises. *)
StageRaisesKept ==
  /\ Call
  /\ context # Context
  /\ context' \in {context, Context}
  /\ sources' = {}
  /\ UNCHANGED <<handle, disk, bundles, changes>>

(* whatever the reason *)
StageRaises ==
  /\ Call
  /\ context # Context
  /\ context' = Context
  /\ sources' = {}
  /\ UNCHANGED <<handle, disk, bundles, changes>>

(* Rosbag1Ingestor, Rosbag2Ingestor: the fields the bag has nothing for stay *)
IngestRosbag ==
  /\ Call
  /\ \E b \in Rosbags, require_metadata \in BOOLEAN :
       /\ require_metadata => parse_metadata(b.text) # {}
       /\ context' = [context EXCEPT
            !.dataset = {b.name}, !.rosbag_uuid = {},
            !.image_data = IF b.color = 0 THEN @ ELSE Only(Color, [of |-> b.name, shape |-> b.color]),
            !.image_topic_shapes = IF b.color = 0 THEN @ ELSE Only(Color, b.color),
            !.depth_data = IF b.depth THEN {b.name} ELSE @,
            !.rosbag_path = {b.name},
            !.topic_message_type_map = {b.name},
            !.airoa_metadata = IF require_metadata
              THEN {Owned(m, b.name) : m \in parse_metadata(b.text)}
              ELSE @]
       /\ sources' = sources \cup {b.name}
  /\ UNCHANGED <<handle, disk, bundles, changes>>

Shapes(registry) == [t \in DOMAIN registry |-> registry[t].shape]

(* populate_image_topic_shapes_from_video_registry: those not known yet *)
Populated(c) == [c EXCEPT !.image_topic_shapes = Over(@, Shapes(c.video_registry))]

(* ParquetVideoIngestor, of a folder of its own or of bundle_root *)
IngestBundle ==
  /\ Call
  /\ \E dir \in DOMAIN bundles :
       LET b == bundles[dir]
           c == [context EXCEPT
                   !.bundle_root = dir, !.dataset = b.dataset, !.rosbag_uuid = b.rosbag_uuid,
                   !.topic_message_type_map = b.topic_message_type_map, !.airoa_metadata = b.airoa_metadata]
       IN /\ Has(b.airoa_metadata)
          /\ context' = IF b.video_registry = <<>> THEN c
                        ELSE Populated([c EXCEPT !.video_registry = b.video_registry])
          /\ sources' = sources \cup b.sources
  /\ UNCHANGED <<handle, disk, bundles, changes>>

(* UuidEnricher; without metadata it gives up with Skip, which raises too *)
EnrichUuid ==
  /\ Call
  /\ Has(context.airoa_metadata) /\ Has(context.dataset)
  /\ context.rosbag_uuid # {uuid}
  /\ context' = [context EXCEPT !.rosbag_uuid = {uuid}]
  /\ UNCHANGED <<handle, disk, bundles, sources, changes>>

(* resolve_or_infer_image_shape, of whichever is known first *)
ShapeOf(t) ==
  IF t \in DOMAIN context.image_topic_shapes THEN context.image_topic_shapes[t]
  ELSE context.image_data[t].shape

cache_dir == Append(IF context.video_cache_dir = <<>> THEN <<"video_cache">> ELSE context.video_cache_dir, uuid)

(* the videos of images: [written: what is in the files, registry: what is said of them] *)
Encoded(root, path(_)) ==
  LET images == context.image_data IN
  [written |-> [f \in {root \o path(t) : t \in DOMAIN images} |->
                  images[CHOOSE t \in DOMAIN images : root \o path(t) = f]],
   registry |-> [t \in DOMAIN images |->
                   [of |-> images[t].of, shape |-> ShapeOf(t), path |-> path(t), root |-> root]]]

DepthShape == 1    \* all depth images are of one shape

DepthEncoded(root) ==
  [written |-> [f \in {root \o <<"videos", Depth>> : b \in context.depth_data} |->
                  [of |-> CHOOSE b \in context.depth_data : TRUE, shape |-> DepthShape]],
   registry |-> [t \in {Depth : b \in context.depth_data} |->
                  [of |-> CHOOSE b \in context.depth_data : TRUE, shape |-> DepthShape,
                   path |-> <<"videos", Depth>>, root |-> root]]]

ByTopic(t) == <<t>>
BelowVideos(t) == <<"videos", t>>

(* Faulty: the root is the folder that was given. *)
MovedUp(c, e) ==
  [c EXCEPT !.video_cache_dir = cache_dir, !.bundle_root = context.video_cache_dir,
            !.video_registry = Over(e.registry, @)]

(* what an encoder leaves in the context *)
Moved(c, e) ==
  [c EXCEPT !.video_cache_dir = cache_dir, !.bundle_root = cache_dir,
            !.video_registry = Over(e.registry, @)]

EncodeVideos ==
  /\ Call
  /\ Has(context.airoa_metadata)
  /\ IF context.image_data = <<>>
     THEN context' = [context EXCEPT !.video_cache_dir = cache_dir] /\ UNCHANGED disk
     ELSE LET e == Encoded(cache_dir, ByTopic)
          IN  context' = Moved(context, e) /\ disk' = Over(e.written, disk)
  /\ UNCHANGED <<handle, bundles, sources, changes>>

EncodeDepthVideos ==
  /\ Call
  /\ Has(context.airoa_metadata)
  /\ IF context.depth_data = {}
     THEN context' = [context EXCEPT !.video_cache_dir = cache_dir] /\ UNCHANGED disk
     ELSE LET e == DepthEncoded(cache_dir)
          IN  context' = Moved(context, e) /\ disk' = Over(e.written, disk)
  /\ UNCHANGED <<handle, bundles, sources, changes>>

resolve_path(artifact) == context.bundle_root \o artifact.path

VideosThere ==
  \A t \in DOMAIN context.video_registry :
    context.bundle_root # <<>> /\ resolve_path(context.video_registry[t]) \in DOMAIN disk

(* VideoDecoder.  A video that is looked for below another folder than it was
   written to is whatever is found there: its owner becomes a source.        *)
DecodeVideos ==
  /\ Call
  /\ context.video_registry # <<>> /\ VideosThere
  /\ LET registry == context.video_registry
         frames == [t \in DOMAIN registry |-> disk[resolve_path(registry[t])]]
         astray == {t \in DOMAIN registry : registry[t].root # context.bundle_root}
     IN  /\ context' = [context EXCEPT
              !.image_data = Over(frames, @),
              !.image_topic_shapes = Over([t \in DOMAIN frames |-> frames[t].shape], @)]
         /\ sources' = sources \cup {frames[t].of : t \in astray}
  /\ UNCHANGED <<handle, disk, bundles, changes>>

ExportDir(out) == <<out, uuid>>

(* ParquetVideoExporter.  The registry of an earlier export stays when there
   are no videos now; and metadata that cannot be converted is found out when
   videos and tables have been written.                                      *)
Export ==
  /\ Call
  /\ Has(context.dataset) /\ Has(context.airoa_metadata) /\ Has(context.topic_message_type_map)
  /\ \E depth_config \in BOOLEAN, metadata \in context.airoa_metadata :
       LET dir == ExportDir("out")
           c == Encoded(dir, BelowVideos)
           d == IF depth_config THEN DepthEncoded(dir) ELSE [written |-> <<>>, registry |-> <<>>]
           registry == Over(d.registry, c.registry)
           before == IF dir \in DOMAIN bundles THEN bundles[dir]
                     ELSE [dataset |-> {}, rosbag_uuid |-> {}, topic_message_type_map |-> {}, airoa_metadata |-> {},
                           video_registry |-> <<>>, sources |-> {}, torn |-> FALSE]
           tables == [before EXCEPT !.dataset = context.dataset, !.rosbag_uuid = context.rosbag_uuid,
                                    !.sources = @ \cup sources]
       IN /\ disk' = Over(d.written, Over(c.written, disk))
          /\ IF into_v2_0(metadata) = {}
             THEN /\ bundles' = Over(Only(dir, [tables EXCEPT !.torn = TRUE]), bundles)
                  /\ context' = Context
                  /\ sources' = {}
             ELSE /\ bundles' = Over(Only(dir, [tables EXCEPT
                       !.topic_message_type_map = context.topic_message_type_map,
                       !.airoa_metadata = {[version |-> "2.0", doc |-> m, of |-> metadata.of, origin |-> metadata.origin] :
                                              m \in into_v2_0(metadata)},
                       !.video_registry = IF registry = <<>> THEN @ ELSE registry,
                       !.torn = @ /\ registry = <<>>]), bundles)
                  /\ context' = [context EXCEPT
                       !.video_registry = IF registry = <<>> THEN @ ELSE registry,
                       !.bundle_root = dir]
                  /\ UNCHANGED sources
  /\ UNCHANGED <<handle, changes>>

(* LeRobotV21Transformer takes the metadata out of the context, and leaves the
   rows it made in place of those it read.                                   *)
TransformLeRobot ==
  /\ Call
  /\ Has(context.dataset)
  /\ \E m \in context.airoa_metadata : into_v2_0(m) # {}
  /\ context.image_data # <<>> \/ (context.video_registry # <<>> /\ VideosThere)
  /\ context' = [Populated(context) EXCEPT !.airoa_metadata = {}, !.rosbag_uuid = {}]
  /\ UNCHANGED <<handle, disk, bundles, sources, changes>>

Scripted ==
  \/ NewMetadata \/ ChangeMetadata \/ MetadataFromJson
  \/ SetAiroaMetadata \/ SetAiroaMetadataJson
  \/ SetRecordBatch \/ SetImageData \/ SetVideoCacheDir \/ SetBundleRoot \/ NewContext

Stages ==
  \/ IngestRosbag \/ IngestBundle \/ EnrichUuid
  \/ EncodeVideos \/ EncodeDepthVideos \/ DecodeVideos
  \/ Export \/ TransformLeRobot \/ StageRaises

SessionNext == Scripted \/ Stages

SessionSpec == SessionInit /\ [][SessionNext]_sessionVars

(***************************************************************************)
(* Properties.                                                             *)
(***************************************************************************)
Owners(c) ==
  c.dataset \cup c.depth_data \cup c.topic_message_type_map
  \cup {c.image_data[t].of : t \in DOMAIN c.image_data}
  \cup {c.video_registry[t].of : t \in DOMAIN c.video_registry}
  \cup {m.of : m \in c.airoa_metadata}

(* Nothing is in the context but what came, by itself or through a bundle, from
   what was put in since it was last empty: a stage that raises takes all that
   it was given with it (std::mem::take in every run of python/src).          *)
ContextIsOfItsSources == Owners(context) \subseteq sources

(* The bundle root is a bundle or where an encoder put a video, and every video
   the registry has below it is there, of what the registry says and in the
   shape it says; of images the script made, it is told no shape.  The videos of
   a bundle are not its own when a later export to its folder fails after it
   wrote them.                                                               *)
RegistryTellsTheTruth ==
  LET artifacts == {context.video_registry[t] : t \in DOMAIN context.video_registry} IN
  /\ context.bundle_root \in {<<>>} \cup DOMAIN bundles \cup {a.root : a \in artifacts}
  /\ \A a \in artifacts :
       LET video == resolve_path(a)
           torn == a.root \in DOMAIN bundles /\ bundles[a.root].torn
       IN  a.root = context.bundle_root /\ ~torn =>
             /\ video \in DOMAIN disk /\ disk[video].of = a.of
             /\ a.of # Script => disk[video].shape = a.shape

(* Each segment's label in m is the text of an instruction d has for it, and the
   episode does not share one with a segment when there is one for each.       *)
SaysTheSame(d, m) ==
  LET Place(k) == Cardinality({j \in 1..k : ~d.segments[j].is_composite})
      Label(k) == IF d.segments[k].is_composite THEN m.episode.label
                  ELSE m.labels[m.segments[Place(k)].label_idx + 1]
      shown == {k \in DOMAIN d.segments : d.segments[k].is_composite =>
                   \A j \in 1..(k - 1) : ~d.segments[j].is_composite}
  IN  \E f \in [shown -> DOMAIN d.instructions] :
        \A k \in shown :
          /\ d.instructions[f[k]].idx = d.segments[k].instruction_idx
          /\ Label(k) = Head(d.instructions[f[k]].text)
          /\ \A j \in shown : f[j] = f[k] =>
               \/ d.segments[j].is_composite = d.segments[k].is_composite
               \/ At(d, d.segments[k].instruction_idx) = {f[k]}

(* Metadata that the script gave in the new version names its recording, its
   files, its programs and its episode, whatever has become of the object since
   ("Boundary validation runs here", context.rs:254); that of the old version is
   not looked at, but when it is converted gives every segment and the episode
   the label it had: old recorders wrote the episode's instruction under the
   number of the last segment's (allowed_composite_duplicate_instruction_idx).  *)
MetadataIsSound ==
  \A m \in UNION {c.airoa_metadata : c \in {context} \cup {bundles[dir] : dir \in DOMAIN bundles}} :
    IF m.version # m.origin.version THEN SaysTheSame(m.origin.doc, m.doc)
    ELSE m.of = Script /\ m.version = "2.0" =>
           LET d == m.doc
               texts == {d.uuid, d.episode.label} \cup {d.files[k].name : k \in DOMAIN d.files}
                        \cup UNION {{d.programs[k].role, d.programs[k].name} : k \in DOMAIN d.programs}
           IN  "" \notin texts /\ d.files # <<>> /\ d.programs # <<>>
=============================================================================
