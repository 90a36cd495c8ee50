--------------------------- MODULE ScriptProofs ----------------------------
(***************************************************************************)
(* Whatever a script does: its context has nothing of a recording that it  *)
(* did not put in (IInv), the registry tells the truth of the videos it    *)
(* has (TruthInv), and metadata stays what it was, or is converted with    *)
(* every label where it belongs (SoundInv).  And however often it runs the *)
(* stages of a TF pipeline, a transform they make is one of its own bag    *)
(* and time (ChainInv).                                                    *)
(***************************************************************************)
EXTENDS Session, TfEnrichers, FiniteSetTheorems, WellFoundedInduction, TLAPS

(***************************************************************************)
(* The inductive invariant.                                                *)
(***************************************************************************)
BundleFields ==
  {"dataset", "rosbag_uuid", "topic_message_type_map", "airoa_metadata", "video_registry", "sources", "torn"}

Artifacts(c) == {c.video_registry[t] : t \in DOMAIN c.video_registry}

BundleOwners(b) ==
  b.dataset \cup b.topic_message_type_map
  \cup {a.of : a \in Artifacts(b)} \cup {m.of : m \in b.airoa_metadata}

Path(p) == \E t : p = <<t>> \/ p = <<"videos", t>>

(* Folders of the cache are none that an export writes to. *)
CacheDir(dir) ==
  /\ \E S : dir \in Seq(S)
  /\ dir # <<>>
  /\ dir[1] \in {"video_cache", "mine"}

(* If the video is where it was written to, it is of one of the owners. *)
FoundOf(a, owners) == a.root \o a.path \in DOMAIN disk => disk[a.root \o a.path].of \in owners

ContextSound ==
  /\ DOMAIN context = DOMAIN Context
  /\ context.video_cache_dir # <<>> => CacheDir(context.video_cache_dir)
  /\ Owners(context) \subseteq sources
  /\ \A a \in Artifacts(context) : FoundOf(a, sources)

BundleSound(dir) ==
  /\ \E u : dir = <<"out", u>>
  /\ DOMAIN bundles[dir] = BundleFields
  /\ BundleOwners(bundles[dir]) \subseteq bundles[dir].sources
  /\ \A a \in Artifacts(bundles[dir]) :
       a.root = dir /\ Path(a.path) /\ FoundOf(a, bundles[dir].sources)

IInv == ContextSound /\ \A dir \in DOMAIN bundles : BundleSound(dir)

(***************************************************************************)
(* Lemmas on folders.                                                      *)
(***************************************************************************)
LEMMA ContextFields ==
  DOMAIN Context = {"dataset", "rosbag_uuid", "image_data", "image_topic_shapes", "depth_data",
                    "video_cache_dir", "rosbag_path", "bundle_root", "video_registry",
                    "topic_message_type_map", "airoa_metadata"}
BY DEF Context

(* Exports of different recordings have no file in common. *)
LEMMA ExportsApart ==
  ASSUME NEW u, NEW v, NEW p, NEW q, Path(p), Path(q), u # v
  PROVE  <<"out", u>> \o p # <<"out", v>> \o q
<1>1. \A w, r : Path(r) => (<<"out", w>> \o r)[2] = w
  <2> SUFFICES ASSUME NEW w, NEW r, Path(r) PROVE (<<"out", w>> \o r)[2] = w
    OBVIOUS
  <2> PICK t : r = <<t>> \/ r = <<"videos", t>>
    BY DEF Path
  <2>1. CASE r = <<t>>
    BY <2>1
  <2>2. CASE r = <<"videos", t>>
    BY <2>2
  <2> QED
    BY <2>1, <2>2
<1> QED
  BY <1>1

LEMMA SeqMonotonic ==
  ASSUME NEW S, NEW T, S \subseteq T, NEW s \in Seq(S)
  PROVE  s \in Seq(T)
OBVIOUS

LEMMA HeadOfFirst ==
  ASSUME NEW S, NEW r \in Seq(S), NEW s \in Seq(S), r # <<>>
  PROVE  (r \o s)[1] = r[1]
OBVIOUS

(* The cache has no file of an export. *)
LEMMA CacheApart ==
  ASSUME NEW dir, CacheDir(dir), NEW u, NEW p, NEW q, Path(p), Path(q)
  PROVE  dir \o p # <<"out", u>> \o q
<1> PICK S : dir \in Seq(S)
  BY DEF CacheDir
<1> PICK t : p = <<t>> \/ p = <<"videos", t>>
  BY DEF Path
<1> DEFINE T == S \cup {t, "videos"}
<1>1. dir \in Seq(T)
  BY SeqMonotonic
<1>2. p \in Seq(T)
  <2>1. <<t>> \in Seq(T) /\ <<"videos", t>> \in Seq(T)
    OBVIOUS
  <2> QED
    BY <2>1
<1>3. (dir \o p)[1] = dir[1]
  BY <1>1, <1>2, HeadOfFirst DEF CacheDir
<1>4. (<<"out", u>> \o q)[1] = "out"
  <2> PICK v : q = <<v>> \/ q = <<"videos", v>>
    BY DEF Path
  <2>1. CASE q = <<v>>
    BY <2>1
  <2>2. CASE q = <<"videos", v>>
    BY <2>2
  <2> QED
    BY <2>1, <2>2
<1> QED
  BY <1>3, <1>4 DEF CacheDir

LEMMA CacheDirIsOne ==
  ASSUME IInv
  PROVE  CacheDir(cache_dir)
<1> DEFINE base == IF context.video_cache_dir = <<>> THEN <<"video_cache">> ELSE context.video_cache_dir
<1>1. CacheDir(base)
  <2>1. CASE context.video_cache_dir = <<>>
    <3>1. <<"video_cache">> \in Seq({"video_cache"})
      OBVIOUS
    <3> QED
      BY <2>1, <3>1 DEF CacheDir
  <2>2. CASE context.video_cache_dir # <<>>
    BY <2>2 DEF IInv, ContextSound
  <2> QED
    BY <2>1, <2>2
<1>2. cache_dir = Append(base, uuid)
  BY DEF cache_dir
<1> HIDE DEF base
<1> PICK S : base \in Seq(S)
  BY <1>1 DEF CacheDir
<1> DEFINE T == S \cup {uuid}
<1>3. base \in Seq(T) /\ uuid \in T
  BY SeqMonotonic
<1> HIDE DEF T
<1>4. Append(base, uuid) \in Seq(T) /\ Append(base, uuid) # <<>> /\ Append(base, uuid)[1] = base[1]
  BY <1>1, <1>3 DEF CacheDir
<1> QED
  BY <1>1, <1>2, <1>4 DEF CacheDir

(***************************************************************************)
(* Lemmas on what an encoder writes.                                       *)
(***************************************************************************)
(* Videos of the context's images below root, and what is said of them. *)
Fresh(written, registry, root) ==
  /\ \A f \in DOMAIN written :
       /\ written[f].of \in Owners(context)
       /\ \E p : Path(p) /\ f = root \o p
  /\ \A t \in DOMAIN registry :
       /\ registry[t].of \in Owners(context)
       /\ registry[t].root = root
       /\ Path(registry[t].path)
       /\ root \o registry[t].path \in DOMAIN written

LEMMA EncodedByTopic ==
  ASSUME NEW root
  PROVE  LET e == Encoded(root, ByTopic) IN Fresh(e.written, e.registry, root)
<1> DEFINE images == context.image_data
           e == Encoded(root, ByTopic)
<1>1. e.written = [f \in {root \o <<t>> : t \in DOMAIN images} |->
                     images[CHOOSE t \in DOMAIN images : root \o <<t>> = f]]
  BY DEF Encoded, ByTopic
<1>2. e.registry = [t \in DOMAIN images |->
                      [of |-> images[t].of, shape |-> ShapeOf(t), path |-> <<t>>, root |-> root]]
  BY DEF Encoded, ByTopic
<1>3. \A t \in DOMAIN images : images[t].of \in Owners(context) /\ Path(<<t>>)
  BY DEF Owners, Path
<1> HIDE DEF e, images
<1>4. \A f \in DOMAIN e.written :
         /\ e.written[f].of \in Owners(context)
         /\ \E p : Path(p) /\ f = root \o p
  <2> SUFFICES ASSUME NEW f \in DOMAIN e.written
               PROVE  e.written[f].of \in Owners(context) /\ \E p : Path(p) /\ f = root \o p
    OBVIOUS
  <2>1. \E t \in DOMAIN images : f = root \o <<t>>
    BY <1>1
  <2>2. \E t \in DOMAIN images : e.written[f] = images[t]
    BY <1>1, <2>1
  <2> QED
    BY <1>3, <2>1, <2>2
<1>5. \A t \in DOMAIN e.registry :
         /\ e.registry[t].of \in Owners(context)
         /\ e.registry[t].root = root
         /\ Path(e.registry[t].path)
         /\ root \o e.registry[t].path \in DOMAIN e.written
  <2> SUFFICES ASSUME NEW t \in DOMAIN e.registry
               PROVE  /\ e.registry[t].of \in Owners(context)
                      /\ e.registry[t].root = root
                      /\ Path(e.registry[t].path)
                      /\ root \o e.registry[t].path \in DOMAIN e.written
    OBVIOUS
  <2>1. t \in DOMAIN images
    BY <1>2
  <2>2. e.registry[t] = [of |-> images[t].of, shape |-> ShapeOf(t), path |-> <<t>>, root |-> root]
    BY <1>2, <2>1
  <2>3. root \o <<t>> \in DOMAIN e.written
    BY <1>1, <2>1
  <2> QED
    BY <1>3, <2>1, <2>2, <2>3
<1> QED
  BY <1>4, <1>5 DEF Fresh, e

LEMMA EncodedBelowVideos ==
  ASSUME NEW root
  PROVE  LET e == Encoded(root, BelowVideos) IN Fresh(e.written, e.registry, root)
<1> DEFINE images == context.image_data
           e == Encoded(root, BelowVideos)
<1>1. e.written = [f \in {root \o <<"videos", t>> : t \in DOMAIN images} |->
                     images[CHOOSE t \in DOMAIN images : root \o <<"videos", t>> = f]]
  BY DEF Encoded, BelowVideos
<1>2. e.registry = [t \in DOMAIN images |->
                      [of |-> images[t].of, shape |-> ShapeOf(t), path |-> <<"videos", t>>, root |-> root]]
  BY DEF Encoded, BelowVideos
<1>3. \A t \in DOMAIN images : images[t].of \in Owners(context) /\ Path(<<"videos", t>>)
  BY DEF Owners, Path
<1> HIDE DEF e, images
<1>4. \A f \in DOMAIN e.written :
         /\ e.written[f].of \in Owners(context)
         /\ \E p : Path(p) /\ f = root \o p
  <2> SUFFICES ASSUME NEW f \in DOMAIN e.written
               PROVE  e.written[f].of \in Owners(context) /\ \E p : Path(p) /\ f = root \o p
    OBVIOUS
  <2>1. \E t \in DOMAIN images : f = root \o <<"videos", t>>
    BY <1>1
  <2>2. \E t \in DOMAIN images : e.written[f] = images[t]
    BY <1>1, <2>1
  <2> QED
    BY <1>3, <2>1, <2>2
<1>5. \A t \in DOMAIN e.registry :
         /\ e.registry[t].of \in Owners(context)
         /\ e.registry[t].root = root
         /\ Path(e.registry[t].path)
         /\ root \o e.registry[t].path \in DOMAIN e.written
  <2> SUFFICES ASSUME NEW t \in DOMAIN e.registry
               PROVE  /\ e.registry[t].of \in Owners(context)
                      /\ e.registry[t].root = root
                      /\ Path(e.registry[t].path)
                      /\ root \o e.registry[t].path \in DOMAIN e.written
    OBVIOUS
  <2>1. t \in DOMAIN images
    BY <1>2
  <2>2. e.registry[t] = [of |-> images[t].of, shape |-> ShapeOf(t), path |-> <<"videos", t>>, root |-> root]
    BY <1>2, <2>1
  <2>3. root \o <<"videos", t>> \in DOMAIN e.written
    BY SMTT(30), <1>1, <2>1
  <2> QED
    BY <1>3, <2>1, <2>2, <2>3
<1> QED
  BY <1>4, <1>5 DEF Fresh, e

LEMMA EncodedDepth ==
  ASSUME NEW root
  PROVE  LET e == DepthEncoded(root) IN Fresh(e.written, e.registry, root)
<1> DEFINE e == DepthEncoded(root)
           files == {root \o <<"videos", Depth>> : b \in context.depth_data}
           owner == CHOOSE b \in context.depth_data : TRUE
<1>1. e.written = [f \in files |-> [of |-> owner, shape |-> DepthShape]]
  BY DEF DepthEncoded
<1>2. e.registry = [t \in {Depth : b \in context.depth_data} |->
                      [of |-> owner, shape |-> DepthShape, path |-> <<"videos", Depth>>, root |-> root]]
  BY DEF DepthEncoded
<1>3. Path(<<"videos", Depth>>)
  BY DEF Path
<1>4. context.depth_data # {} => owner \in Owners(context)
  BY DEF Owners
<1> HIDE DEF e, owner, files
<1>5. \A f \in DOMAIN e.written :
         /\ e.written[f].of \in Owners(context)
         /\ \E p : Path(p) /\ f = root \o p
  <2> SUFFICES ASSUME NEW f \in DOMAIN e.written
               PROVE  e.written[f].of \in Owners(context) /\ \E p : Path(p) /\ f = root \o p
    OBVIOUS
  <2>1. f = root \o <<"videos", Depth>> /\ context.depth_data # {}
    BY <1>1 DEF files
  <2>2. e.written[f].of = owner
    BY <1>1
  <2>3. \E p : Path(p) /\ f = root \o p
    BY <1>3, <2>1
  <2> QED
    BY <1>4, <2>1, <2>2, <2>3
<1>6. \A t \in DOMAIN e.registry :
         /\ e.registry[t].of \in Owners(context)
         /\ e.registry[t].root = root
         /\ Path(e.registry[t].path)
         /\ root \o e.registry[t].path \in DOMAIN e.written
  <2> SUFFICES ASSUME NEW t \in DOMAIN e.registry
               PROVE  /\ e.registry[t].of \in Owners(context)
                      /\ e.registry[t].root = root
                      /\ Path(e.registry[t].path)
                      /\ root \o e.registry[t].path \in DOMAIN e.written
    OBVIOUS
  <2>1. context.depth_data # {}
    BY <1>2
  <2>2. e.registry[t] = [of |-> owner, shape |-> DepthShape, path |-> <<"videos", Depth>>, root |-> root]
    BY <1>2
  <2>3. root \o <<"videos", Depth>> \in DOMAIN e.written
    BY <1>1, <2>1 DEF files
  <2> QED
    BY <1>3, <1>4, <2>1, <2>2, <2>3
<1> QED
  BY <1>5, <1>6 DEF Fresh, e

(***************************************************************************)
(* Steps that write no file.                                               *)
(***************************************************************************)
LEMMA BundlesUnchanged ==
  ASSUME IInv, UNCHANGED <<disk, bundles>>
  PROVE  \A dir \in DOMAIN bundles' : BundleSound(dir)'
<1> SUFFICES ASSUME NEW dir \in DOMAIN bundles'
             PROVE  BundleSound(dir)'
  OBVIOUS
<1>1. BundleSound(dir)
  BY DEF IInv
<1> QED
  BY <1>1 DEF BundleSound, BundleOwners, Artifacts, FoundOf

(* Other fields than the registry are changed, and what is new has a source. *)
LEMMA ContextChange ==
  ASSUME IInv, UNCHANGED <<disk, bundles>>,
         DOMAIN context' = DOMAIN Context,
         sources \subseteq sources',
         Owners(context') \subseteq sources',
         context'.video_registry = context.video_registry,
         context'.video_cache_dir # <<>> => CacheDir(context'.video_cache_dir)
  PROVE  IInv'
<1>1. ContextSound'
  <2>1. \A a \in Artifacts(context') : FoundOf(a, sources)
    BY DEF IInv, ContextSound, Artifacts
  <2>2. \A a \in Artifacts(context') : FoundOf(a, sources)'
    BY <2>1 DEF FoundOf
  <2> QED
    BY <2>2 DEF ContextSound
<1> QED
  BY <1>1, BundlesUnchanged DEF IInv

LEMMA EmptyContextSound ==
  ASSUME context' = Context
  PROVE  ContextSound'
<1>1. Owners(context') = {}
  BY DEF Context, Owners
<1>2. Artifacts(context') = {} /\ context'.video_cache_dir = <<>>
  BY DEF Context, Artifacts
<1> QED
  BY <1>1, <1>2 DEF ContextSound

LEMMA InitInv == SessionInit => IInv
<1> SUFFICES ASSUME SessionInit
             PROVE  IInv
  OBVIOUS
<1>1. Owners(context) = {} /\ Artifacts(context) = {} /\ context.video_cache_dir = <<>>
  BY DEF SessionInit, Context, Owners, Artifacts
<1>2. DOMAIN bundles = {}
  BY DEF SessionInit
<1> QED
  BY <1>1, <1>2 DEF IInv, ContextSound, SessionInit

LEMMA EmptiedInv ==
  ASSUME IInv, NewContext \/ StageRaises
  PROVE  IInv'
BY EmptyContextSound, BundlesUnchanged DEF NewContext, StageRaises, IInv

LEMMA MetadataInv ==
  ASSUME IInv, NewMetadata \/ ChangeMetadata \/ MetadataFromJson
  PROVE  IInv'
<1>1. UNCHANGED <<context, disk, bundles, sources>>
  BY DEF NewMetadata, ChangeMetadata, MetadataFromJson
<1> QED
  BY <1>1, ContextChange DEF IInv, ContextSound

LEMMA SetMetadataInv ==
  ASSUME IInv, SetAiroaMetadata \/ SetAiroaMetadataJson
  PROVE  IInv'
<1>1. PICK m : PutIn([context EXCEPT !.airoa_metadata = {Owned(m, Script)}])
  BY DEF SetAiroaMetadata, SetAiroaMetadataJson
<1>2. UNCHANGED <<disk, bundles>>
  BY DEF SetAiroaMetadata, SetAiroaMetadataJson
<1>3. Owned(m, Script).of = Script
  BY DEF Owned
<1>4. /\ DOMAIN context' = DOMAIN Context
      /\ context'.airoa_metadata = {Owned(m, Script)}
      /\ context'.dataset = context.dataset
      /\ context'.depth_data = context.depth_data
      /\ context'.topic_message_type_map = context.topic_message_type_map
      /\ context'.image_data = context.image_data
      /\ context'.video_registry = context.video_registry
      /\ context'.video_cache_dir = context.video_cache_dir
  BY <1>1, ContextFields DEF PutIn, IInv, ContextSound
<1>5. Owners(context') \subseteq sources'
  BY <1>1, <1>3, <1>4 DEF Owners, PutIn, IInv, ContextSound
<1> QED
  BY <1>1, <1>2, <1>4, <1>5, ContextChange DEF PutIn, IInv, ContextSound

LEMMA SetRecordBatchInv ==
  ASSUME IInv, SetRecordBatch
  PROVE  IInv'
<1>1. /\ DOMAIN context' = DOMAIN Context
      /\ context'.dataset = context.dataset \cup {Script}
      /\ context'.airoa_metadata = context.airoa_metadata
      /\ context'.depth_data = context.depth_data
      /\ context'.topic_message_type_map = context.topic_message_type_map
      /\ context'.image_data = context.image_data
      /\ context'.video_registry = context.video_registry
      /\ context'.video_cache_dir = context.video_cache_dir
  BY ContextFields DEF SetRecordBatch, PutIn, IInv, ContextSound
<1>2. sources' = sources \cup {Script} /\ UNCHANGED <<disk, bundles>>
  BY DEF SetRecordBatch, PutIn
<1>3. Owners(context') \subseteq sources'
  BY <1>1, <1>2 DEF Owners, IInv, ContextSound
<1> QED
  BY <1>1, <1>2, <1>3, ContextChange DEF IInv, ContextSound

LEMMA SetImageDataInv ==
  ASSUME IInv, SetImageData
  PROVE  IInv'
<1>1. PICK shape : PutIn([context EXCEPT !.image_data = Only(Color, [of |-> Script, shape |-> shape])])
  BY DEF SetImageData
<1>2. /\ DOMAIN context' = DOMAIN Context
      /\ context'.dataset = context.dataset
      /\ context'.airoa_metadata = context.airoa_metadata
      /\ context'.depth_data = context.depth_data
      /\ context'.topic_message_type_map = context.topic_message_type_map
      /\ context'.image_data = Only(Color, [of |-> Script, shape |-> shape])
      /\ context'.video_registry = context.video_registry
      /\ context'.video_cache_dir = context.video_cache_dir
  BY <1>1, ContextFields DEF PutIn, IInv, ContextSound
<1>3. sources' = sources \cup {Script} /\ UNCHANGED <<disk, bundles>>
  BY <1>1 DEF SetImageData, PutIn
<1>4. \A t \in DOMAIN context'.image_data : context'.image_data[t].of = Script
  BY <1>2 DEF Only
<1>5. Owners(context') \subseteq sources'
  BY <1>2, <1>3, <1>4 DEF Owners, IInv, ContextSound
<1> QED
  BY <1>2, <1>3, <1>5, ContextChange DEF IInv, ContextSound

LEMMA SetFolderInv ==
  ASSUME IInv, SetVideoCacheDir \/ SetBundleRoot \/ EnrichUuid
  PROVE  IInv'
<1>1. /\ DOMAIN context' = DOMAIN Context
      /\ context'.dataset = context.dataset
      /\ context'.airoa_metadata = context.airoa_metadata
      /\ context'.depth_data = context.depth_data
      /\ context'.topic_message_type_map = context.topic_message_type_map
      /\ context'.image_data = context.image_data
      /\ context'.video_registry = context.video_registry
      /\ context'.video_cache_dir \in {context.video_cache_dir, <<"mine">>}
  BY ContextFields DEF SetVideoCacheDir, SetBundleRoot, EnrichUuid, IInv, ContextSound
<1>2. UNCHANGED <<disk, bundles, sources>>
  BY DEF SetVideoCacheDir, SetBundleRoot, EnrichUuid
<1>3. Owners(context') \subseteq sources'
  BY <1>1, <1>2 DEF Owners, IInv, ContextSound
<1>4. CacheDir(<<"mine">>)
  <2>1. <<"mine">> \in Seq({"mine"})
    OBVIOUS
  <2> QED
    BY <2>1 DEF CacheDir
<1> QED
  BY <1>1, <1>2, <1>3, <1>4, ContextChange DEF IInv, ContextSound

LEMMA IngestRosbagInv ==
  ASSUME IInv, IngestRosbag
  PROVE  IInv'
<1>1. PICK b \in Rosbags, require_metadata \in BOOLEAN :
        /\ context' = [context EXCEPT
             !.dataset = {b.name}, !.rosbag_uuid = {},
             !.image_data = IF b.color = 0 THEN @ ELSE Only(Color, [of |-> b.name, shape |-> b.color]),
             !.image_topic_shapes = IF b.color = 0 THEN @ ELSE Only(Color, b.color),
             !.depth_data = IF b.depth THEN {b.name} ELSE @,
             !.rosbag_path = {b.name},
             !.topic_message_type_map = {b.name},
             !.airoa_metadata = IF require_metadata
               THEN {Owned(m, b.name) : m \in parse_metadata(b.text)}
               ELSE @]
        /\ sources' = sources \cup {b.name}
  BY DEF IngestRosbag
<1>2. UNCHANGED <<disk, bundles>>
  BY DEF IngestRosbag
<1> DEFINE images == Only(Color, [of |-> b.name, shape |-> b.color])
           owned == {Owned(m, b.name) : m \in parse_metadata(b.text)}
<1>3. /\ \A t \in DOMAIN images : images[t].of = b.name
      /\ \A m \in owned : m.of = b.name
  BY DEF Only, Owned
<1> HIDE DEF images, owned
<1>4. /\ DOMAIN context' = DOMAIN Context
      /\ context'.dataset = {b.name}
      /\ context'.topic_message_type_map = {b.name}
      /\ context'.depth_data \in {{b.name}, context.depth_data}
      /\ context'.image_data \in {images, context.image_data}
      /\ context'.airoa_metadata \in {owned, context.airoa_metadata}
      /\ context'.video_registry = context.video_registry
      /\ context'.video_cache_dir = context.video_cache_dir
  BY <1>1, ContextFields DEF IInv, ContextSound, images, owned
<1>5. Owners(context') \subseteq sources'
  BY <1>1, <1>3, <1>4 DEF Owners, IInv, ContextSound
<1> QED
  BY ZenonT(40), <1>1, <1>2, <1>4, <1>5, ContextChange DEF IInv, ContextSound

(* A video is taken for what the registry says, or its owner becomes a source. *)
LEMMA DecodeVideosInv ==
  ASSUME IInv, DecodeVideos
  PROVE  IInv'
<1> DEFINE registry == context.video_registry
           frames == [t \in DOMAIN registry |-> disk[resolve_path(registry[t])]]
           astray == {t \in DOMAIN registry : registry[t].root # context.bundle_root}
<1>1. /\ VideosThere
      /\ context' = [context EXCEPT
           !.image_data = Over(frames, @),
           !.image_topic_shapes = Over([t \in DOMAIN frames |-> frames[t].shape], @)]
      /\ sources' = sources \cup {frames[t].of : t \in astray}
      /\ UNCHANGED <<disk, bundles>>
  BY DEF DecodeVideos
<1>2. /\ DOMAIN context' = DOMAIN Context
      /\ context'.dataset = context.dataset
      /\ context'.topic_message_type_map = context.topic_message_type_map
      /\ context'.depth_data = context.depth_data
      /\ context'.airoa_metadata = context.airoa_metadata
      /\ context'.image_data = Over(frames, context.image_data)
      /\ context'.video_registry = context.video_registry
      /\ context'.video_cache_dir = context.video_cache_dir
  <2> HIDE DEF frames, astray
  <2> QED
    BY <1>1, ContextFields DEF IInv, ContextSound
<1>3. \A t \in DOMAIN frames : frames[t].of \in sources'
  <2> SUFFICES ASSUME NEW t \in DOMAIN frames
               PROVE  frames[t].of \in sources'
    OBVIOUS
  <2>1. CASE t \in astray
    <3> HIDE DEF frames, astray, registry
    <3> QED
      BY <1>1, <2>1
  <2>2. CASE registry[t].root = context.bundle_root
    <3>1. registry[t].root \o registry[t].path \in DOMAIN disk
      BY <1>1, <2>2 DEF VideosThere, resolve_path
    <3>2. FoundOf(registry[t], sources)
      BY DEF IInv, ContextSound, Artifacts
    <3> QED
      BY <1>1, <2>2, <3>1, <3>2 DEF FoundOf, resolve_path
  <2> QED
    BY <2>1, <2>2
<1> HIDE DEF frames, astray, registry
<1>4. \A t \in DOMAIN context'.image_data : context'.image_data[t].of \in sources'
  BY <1>1, <1>2, <1>3 DEF Over, IInv, ContextSound, Owners
<1>5. Owners(context') \subseteq sources'
  BY <1>1, <1>2, <1>4 DEF Owners, IInv, ContextSound
<1> QED
  BY <1>1, <1>2, <1>5, ContextChange DEF IInv, ContextSound

LEMMA TransformLeRobotInv ==
  ASSUME IInv, TransformLeRobot
  PROVE  IInv'
<1>1. /\ DOMAIN context' = DOMAIN Context
      /\ context'.dataset = context.dataset
      /\ context'.topic_message_type_map = context.topic_message_type_map
      /\ context'.depth_data = context.depth_data
      /\ context'.airoa_metadata = {}
      /\ context'.image_data = context.image_data
      /\ context'.video_registry = context.video_registry
      /\ context'.video_cache_dir = context.video_cache_dir
  BY ContextFields DEF TransformLeRobot, Populated, IInv, ContextSound
<1>2. UNCHANGED <<disk, bundles, sources>>
  BY DEF TransformLeRobot
<1>3. Owners(context') \subseteq sources'
  BY <1>1, <1>2 DEF Owners, IInv, ContextSound
<1> QED
  BY <1>1, <1>2, <1>3, ContextChange DEF IInv, ContextSound

LEMMA IngestBundleInv ==
  ASSUME IInv, IngestBundle
  PROVE  IInv'
<1>1. PICK dir \in DOMAIN bundles :
        LET b == bundles[dir]
            c == [context EXCEPT
                    !.bundle_root = dir, !.dataset = b.dataset, !.rosbag_uuid = b.rosbag_uuid,
                    !.topic_message_type_map = b.topic_message_type_map, !.airoa_metadata = b.airoa_metadata]
        IN  /\ context' = IF b.video_registry = <<>> THEN c
                          ELSE Populated([c EXCEPT !.video_registry = b.video_registry])
            /\ sources' = sources \cup b.sources
  BY DEF IngestBundle
<1> DEFINE b == bundles[dir]
<1>2. UNCHANGED <<disk, bundles>>
  BY DEF IngestBundle
<1>3. /\ DOMAIN context' = DOMAIN Context
      /\ context'.dataset = b.dataset
      /\ context'.topic_message_type_map = b.topic_message_type_map
      /\ context'.airoa_metadata = b.airoa_metadata
      /\ context'.depth_data = context.depth_data
      /\ context'.image_data = context.image_data
      /\ context'.video_registry \in {context.video_registry, b.video_registry}
      /\ context'.video_cache_dir = context.video_cache_dir
  <2>1. CASE b.video_registry = <<>>
    BY <1>1, <2>1, ContextFields DEF IInv, ContextSound
  <2>2. CASE b.video_registry # <<>>
    BY <1>1, <2>2, ContextFields DEF IInv, ContextSound, Populated
  <2> QED
    BY <2>1, <2>2
<1>4. BundleSound(dir) /\ sources' = sources \cup b.sources
  BY <1>1 DEF IInv
<1> HIDE DEF b
<1>5. /\ \A t \in DOMAIN b.video_registry : b.video_registry[t].of \in sources'
      /\ \A a \in Artifacts(b) : FoundOf(a, sources)'
  <2>1. \A a \in Artifacts(b) : a.of \in b.sources
    BY <1>4 DEF BundleSound, BundleOwners, b
  <2>2. \A a \in Artifacts(b) : FoundOf(a, b.sources)
    BY <1>4 DEF BundleSound, b
  <2> QED
    BY <1>2, <1>4, <2>1, <2>2 DEF FoundOf, Artifacts
<1>6. /\ \A t \in DOMAIN context.video_registry : context.video_registry[t].of \in sources'
      /\ \A a \in Artifacts(context) : FoundOf(a, sources)'
  <2>1. \A a \in Artifacts(context) : FoundOf(a, sources)
    BY DEF IInv, ContextSound
  <2> QED
    BY <1>2, <1>4, <2>1 DEF FoundOf, Owners, IInv, ContextSound
<1>7. \A t \in DOMAIN context'.video_registry : context'.video_registry[t].of \in sources'
  BY <1>3, <1>5, <1>6
<1>8. \A a \in Artifacts(context') : FoundOf(a, sources)'
  BY <1>3, <1>5, <1>6 DEF Artifacts
<1>9. b.dataset \cup b.topic_message_type_map \cup {m.of : m \in b.airoa_metadata} \subseteq sources'
  BY <1>4 DEF BundleSound, BundleOwners, b
<1>10. Owners(context') \subseteq sources'
  BY <1>3, <1>4, <1>7, <1>9 DEF Owners, IInv, ContextSound
<1>11. ContextSound'
  BY <1>3, <1>8, <1>10 DEF ContextSound, IInv
<1> QED
  BY <1>2, <1>11, BundlesUnchanged DEF IInv

(***************************************************************************)
(* Steps that write videos.                                                *)
(***************************************************************************)
(* A file is as it was, or is written now and of a source. *)
LEMMA FileWritten ==
  ASSUME IInv, NEW written, NEW registry, NEW root, Fresh(written, registry, root),
         disk' = Over(written, disk), NEW f \in DOMAIN disk'
  PROVE  IF f \in DOMAIN written THEN disk'[f].of \in sources
         ELSE f \in DOMAIN disk /\ disk'[f] = disk[f]
<1>1. CASE f \in DOMAIN written
  <2>1. disk'[f] = written[f]
    BY <1>1 DEF Over
  <2>2. written[f].of \in sources
    BY <1>1 DEF Fresh, IInv, ContextSound
  <2> QED
    BY <1>1, <2>1, <2>2
<1>2. CASE f \notin DOMAIN written
  BY <1>2 DEF Over
<1> QED
  BY <1>1, <1>2

(* Videos written below root, with their entries added to the registry. *)
LEMMA RegistryWritten ==
  ASSUME IInv, NEW written, NEW registry, NEW root, Fresh(written, registry, root),
         disk' = Over(written, disk), UNCHANGED sources,
         context'.video_registry = Over(registry, context.video_registry)
  PROVE  /\ \A t \in DOMAIN context'.video_registry : context'.video_registry[t].of \in sources
         /\ \A a \in Artifacts(context') : FoundOf(a, sources)'
<1>1. \A t \in DOMAIN context'.video_registry :
         \/ t \in DOMAIN registry /\ context'.video_registry[t] = registry[t]
         \/ t \in DOMAIN context.video_registry /\ context'.video_registry[t] = context.video_registry[t]
  BY DEF Over
<1>2. \A t \in DOMAIN registry : registry[t].of \in sources
  BY DEF Fresh, IInv, ContextSound
<1>3. \A t \in DOMAIN context.video_registry : context.video_registry[t].of \in sources
  BY DEF Owners, IInv, ContextSound
<1>4. \A a \in Artifacts(context) : FoundOf(a, sources)'
  <2> SUFFICES ASSUME NEW a \in Artifacts(context)
               PROVE  FoundOf(a, sources)'
    OBVIOUS
  <2>1. FoundOf(a, sources)
    BY DEF IInv, ContextSound
  <2> QED
    BY <2>1, FileWritten DEF FoundOf
<1>5. \A t \in DOMAIN registry : FoundOf(registry[t], sources)'
  <2> SUFFICES ASSUME NEW t \in DOMAIN registry
               PROVE  FoundOf(registry[t], sources)'
    OBVIOUS
  <2>1. registry[t].root \o registry[t].path \in DOMAIN written
    BY DEF Fresh
  <2> QED
    BY <2>1, FileWritten DEF FoundOf
<1> QED
  BY <1>1, <1>2, <1>3, <1>4, <1>5 DEF Artifacts

LEMMA CacheWritten ==
  ASSUME IInv, NEW written, NEW registry, Fresh(written, registry, cache_dir),
         disk' = Over(written, disk), UNCHANGED <<bundles, sources>>,
         context' = [context EXCEPT !.video_cache_dir = cache_dir, !.bundle_root = cache_dir,
                                    !.video_registry = Over(registry, @)]
  PROVE  IInv'
<1>1. CacheDir(cache_dir)
  BY CacheDirIsOne
<1>2. /\ DOMAIN context' = DOMAIN Context
      /\ context'.dataset = context.dataset
      /\ context'.topic_message_type_map = context.topic_message_type_map
      /\ context'.airoa_metadata = context.airoa_metadata
      /\ context'.depth_data = context.depth_data
      /\ context'.image_data = context.image_data
      /\ context'.video_registry = Over(registry, context.video_registry)
      /\ context'.video_cache_dir = cache_dir
  BY ContextFields DEF IInv, ContextSound
<1>3. /\ \A t \in DOMAIN context'.video_registry : context'.video_registry[t].of \in sources
      /\ \A a \in Artifacts(context') : FoundOf(a, sources)'
  BY <1>2, RegistryWritten
<1>4. Owners(context') \subseteq sources'
  BY <1>2, <1>3 DEF Owners, IInv, ContextSound
<1>5. ContextSound'
  BY <1>1, <1>2, <1>3, <1>4 DEF ContextSound
<1>6. ASSUME NEW dir \in DOMAIN bundles'
      PROVE  BundleSound(dir)'
  <2>1. BundleSound(dir)
    BY <1>6 DEF IInv
  <2>2. ASSUME NEW a \in Artifacts(bundles[dir])
        PROVE  FoundOf(a, bundles[dir].sources)'
    <3> DEFINE f == a.root \o a.path
    <3>1. PICK u : a.root = <<"out", u>>
      BY <2>1, <2>2 DEF BundleSound
    <3>2. Path(a.path)
      BY <2>1, <2>2 DEF BundleSound
    <3>3. f \notin DOMAIN written
      BY <1>1, <3>1, <3>2, CacheApart DEF Fresh
    <3>4. f \in DOMAIN disk' => f \in DOMAIN disk /\ disk'[f] = disk[f]
      BY <3>3 DEF Over
    <3>5. FoundOf(a, bundles[dir].sources)
      BY <2>1, <2>2 DEF BundleSound
    <3> QED
      BY <3>4, <3>5 DEF FoundOf
  <2> QED
    BY <2>1, <2>2 DEF BundleSound, BundleOwners, Artifacts
<1> QED
  BY <1>5, <1>6 DEF IInv

LEMMA CacheUsed ==
  ASSUME IInv, context' = [context EXCEPT !.video_cache_dir = cache_dir], UNCHANGED <<disk, bundles, sources>>
  PROVE  IInv'
<1>1. CacheDir(cache_dir)
  BY CacheDirIsOne
<1>2. /\ DOMAIN context' = DOMAIN Context
      /\ context'.dataset = context.dataset
      /\ context'.topic_message_type_map = context.topic_message_type_map
      /\ context'.airoa_metadata = context.airoa_metadata
      /\ context'.depth_data = context.depth_data
      /\ context'.image_data = context.image_data
      /\ context'.video_registry = context.video_registry
      /\ context'.video_cache_dir = cache_dir
  BY ContextFields DEF IInv, ContextSound
<1>3. Owners(context') \subseteq sources'
  BY <1>2 DEF Owners, IInv, ContextSound
<1> QED
  BY <1>1, <1>2, <1>3, ContextChange

LEMMA EncodeVideosInv ==
  ASSUME IInv, EncodeVideos
  PROVE  IInv'
<1>1. CASE context.image_data = <<>>
  BY <1>1, CacheUsed DEF EncodeVideos
<1>2. CASE context.image_data # <<>>
  <2> DEFINE e == Encoded(cache_dir, ByTopic)
  <2>1. Fresh(e.written, e.registry, cache_dir)
    BY EncodedByTopic
  <2>2. disk' = Over(e.written, disk) /\ context' = Moved(context, e) /\ UNCHANGED <<bundles, sources>>
    BY <1>2 DEF EncodeVideos
  <2> HIDE DEF e
  <2> QED
    BY <2>1, <2>2, CacheWritten DEF Moved
<1> QED
  BY <1>1, <1>2

LEMMA EncodeDepthVideosInv ==
  ASSUME IInv, EncodeDepthVideos
  PROVE  IInv'
<1>1. CASE context.depth_data = {}
  BY <1>1, CacheUsed DEF EncodeDepthVideos
<1>2. CASE context.depth_data # {}
  <2> DEFINE e == DepthEncoded(cache_dir)
  <2>1. Fresh(e.written, e.registry, cache_dir)
    BY EncodedDepth
  <2>2. disk' = Over(e.written, disk) /\ context' = Moved(context, e) /\ UNCHANGED <<bundles, sources>>
    BY <1>2 DEF EncodeDepthVideos
  <2> HIDE DEF e
  <2> QED
    BY <2>1, <2>2, CacheWritten DEF Moved
<1> QED
  BY <1>1, <1>2

LEMMA OverOver == \A k, m, n : Over(k, Over(m, n)) = Over(Over(k, m), n)
BY DEF Over

LEMMA FreshTogether ==
  ASSUME NEW root, NEW w, NEW r, Fresh(w, r, root), NEW v, NEW q, Fresh(v, q, root)
  PROVE  Fresh(Over(w, v), Over(r, q), root)
<1>1. \A f \in DOMAIN Over(w, v) :
         \/ f \in DOMAIN w /\ Over(w, v)[f] = w[f]
         \/ f \in DOMAIN v /\ Over(w, v)[f] = v[f]
  BY DEF Over
<1>2. \A t \in DOMAIN Over(r, q) :
         \/ t \in DOMAIN r /\ Over(r, q)[t] = r[t]
         \/ t \in DOMAIN q /\ Over(r, q)[t] = q[t]
  BY DEF Over
<1>3. DOMAIN w \subseteq DOMAIN Over(w, v) /\ DOMAIN v \subseteq DOMAIN Over(w, v)
  BY DEF Over
<1> QED
  BY <1>1, <1>2, <1>3 DEF Fresh

(* Exports to other folders are as they were. *)
LEMMA OtherBundles ==
  ASSUME IInv, NEW written, NEW registry, NEW root, NEW v, root = <<"out", v>>,
         Fresh(written, registry, root), disk' = Over(written, disk),
         NEW dir \in DOMAIN bundles, dir # root, bundles'[dir] = bundles[dir]
  PROVE  BundleSound(dir)'
<1>1. BundleSound(dir)
  BY DEF IInv
<1>2. ASSUME NEW a \in Artifacts(bundles[dir])
      PROVE  FoundOf(a, bundles[dir].sources)'
  <2> DEFINE f == a.root \o a.path
  <2>1. PICK u : a.root = <<"out", u>> /\ dir = <<"out", u>>
    BY <1>1, <1>2 DEF BundleSound
  <2>2. Path(a.path) /\ u # v
    BY <1>1, <1>2, <2>1 DEF BundleSound
  <2>3. f \notin DOMAIN written
    <3>1. \A g \in DOMAIN written : \E p : Path(p) /\ g = <<"out", v>> \o p
      BY DEF Fresh
    <3>2. \A p : Path(p) => <<"out", u>> \o a.path # <<"out", v>> \o p
      BY <2>2, ExportsApart
    <3> QED
      BY <2>1, <3>1, <3>2
  <2>4. f \in DOMAIN disk' => f \in DOMAIN disk /\ disk'[f] = disk[f]
    BY <2>3 DEF Over
  <2>5. FoundOf(a, bundles[dir].sources)
    BY <1>1, <1>2 DEF BundleSound
  <2> QED
    BY <2>4, <2>5 DEF FoundOf
<1> QED
  BY <1>1, <1>2 DEF BundleSound, BundleOwners, Artifacts

(* What there is of a bundle, before the first export of it too. *)
NoBundle ==
  [dataset |-> {}, rosbag_uuid |-> {}, topic_message_type_map |-> {}, airoa_metadata |-> {},
   video_registry |-> <<>>, sources |-> {}, torn |-> FALSE]

Before(dir) == IF dir \in DOMAIN bundles THEN bundles[dir] ELSE NoBundle

LEMMA BeforeSound ==
  ASSUME IInv, NEW dir
  PROVE  /\ DOMAIN Before(dir) = BundleFields
         /\ BundleOwners(Before(dir)) \subseteq Before(dir).sources
         /\ \A a \in Artifacts(Before(dir)) :
              a.root = dir /\ Path(a.path) /\ FoundOf(a, Before(dir).sources)
<1>1. CASE dir \in DOMAIN bundles
  BY <1>1 DEF IInv, BundleSound, Before
<1>2. CASE dir \notin DOMAIN bundles
  <2>1. Before(dir) = NoBundle
    BY <1>2 DEF Before
  <2>2. DOMAIN NoBundle = BundleFields /\ BundleOwners(NoBundle) = {} /\ Artifacts(NoBundle) = {}
    BY DEF NoBundle, BundleFields, BundleOwners, Artifacts
  <2> QED
    BY <2>1, <2>2
<1> QED
  BY <1>1, <1>2

(* The bundle that is exported has of each part what it had, or what the context has. *)
LEMMA ExportedBundle ==
  ASSUME IInv, NEW written, NEW registry, NEW dir, NEW v, dir = <<"out", v>>,
         Fresh(written, registry, dir),
         disk' = Over(written, disk),
         NEW b, DOMAIN b = BundleFields,
         bundles'[dir] = b,
         b.dataset = context.dataset,
         b.sources = Before(dir).sources \cup sources,
         b.topic_message_type_map \in {Before(dir).topic_message_type_map, context.topic_message_type_map},
         b.video_registry \in {Before(dir).video_registry, registry},
         {m.of : m \in b.airoa_metadata} \subseteq
           {m.of : m \in Before(dir).airoa_metadata} \cup {m.of : m \in context.airoa_metadata}
  PROVE  BundleSound(dir)'
<1>1. Owners(context) \subseteq b.sources /\ BundleOwners(Before(dir)) \subseteq b.sources
  BY BeforeSound DEF IInv, ContextSound
<1>2. ASSUME NEW a \in Artifacts(b)
      PROVE  a.root = dir /\ Path(a.path) /\ a.of \in b.sources /\ FoundOf(a, b.sources)'
  <2> DEFINE f == a.root \o a.path
  <2>1. CASE a \in Artifacts(Before(dir))
    <3>1. a.root = dir /\ Path(a.path) /\ FoundOf(a, Before(dir).sources)
      BY <2>1, BeforeSound
    <3>2. a.of \in b.sources
      BY <1>1, <2>1 DEF BundleOwners
    <3>3. ASSUME f \in DOMAIN disk'
          PROVE  disk'[f].of \in b.sources
      <4>1. IF f \in DOMAIN written THEN disk'[f].of \in sources ELSE f \in DOMAIN disk /\ disk'[f] = disk[f]
        BY <3>3, FileWritten
      <4> QED
        BY <3>1, <4>1 DEF FoundOf
    <3> QED
      BY <3>1, <3>2, <3>3 DEF FoundOf
  <2>2. CASE \E t \in DOMAIN registry : a = registry[t]
    <3>1. a.root = dir /\ Path(a.path) /\ a.of \in Owners(context) /\ f \in DOMAIN written
      BY <2>2 DEF Fresh
    <3>2. f \in DOMAIN disk' => disk'[f].of \in sources
      BY <3>1, FileWritten
    <3> QED
      BY <1>1, <3>1, <3>2 DEF FoundOf
  <2> QED
    BY <1>2, <2>1, <2>2 DEF Artifacts
<1>3. BundleOwners(b) \subseteq b.sources
  <2>1. \A a \in Artifacts(b) : a.of \in b.sources
    BY <1>2
  <2>2. b.dataset \cup b.topic_message_type_map \subseteq b.sources
    BY <1>1 DEF Owners, BundleOwners
  <2>3. {m.of : m \in b.airoa_metadata} \subseteq b.sources
    BY <1>1 DEF Owners, BundleOwners
  <2> QED
    BY <2>1, <2>2, <2>3 DEF BundleOwners
<1> QED
  BY <1>2, <1>3 DEF BundleSound

(* Export to dir, in terms of the names above. *)
DepthPart(dir, depth_config) ==
  IF depth_config THEN DepthEncoded(dir) ELSE [written |-> <<>>, registry |-> <<>>]

Exported(dir, depth_config, metadata) ==
  LET c == Encoded(dir, BelowVideos)
      d == DepthPart(dir, depth_config)
      registry == Over(d.registry, c.registry)
      tables == [Before(dir) EXCEPT !.dataset = context.dataset, !.rosbag_uuid = context.rosbag_uuid,
                                    !.sources = @ \cup sources]
  IN  /\ disk' = Over(d.written, Over(c.written, disk))
      /\ IF into_v2_0(metadata) = {}
         THEN /\ bundles' = Over(Only(dir, [tables EXCEPT !.torn = TRUE]), bundles)
              /\ context' = Context
              /\ sources' = {}
         ELSE /\ bundles' = Over(Only(dir, [tables EXCEPT
                   !.topic_message_type_map = context.topic_message_type_map,
                   !.airoa_metadata = {[version |-> "2.0", doc |-> m, of |-> metadata.of, origin |-> metadata.origin] :
                                         m \in into_v2_0(metadata)},
                   !.video_registry = IF registry = <<>> THEN @ ELSE registry,
                   !.torn = @ /\ registry = <<>>]), bundles)
              /\ context' = [context EXCEPT
                   !.video_registry = IF registry = <<>> THEN @ ELSE registry,
                   !.bundle_root = dir]
              /\ UNCHANGED sources

LEMMA ExportInv ==
  ASSUME IInv, Export
  PROVE  IInv'
<1>1. PICK depth_config \in BOOLEAN, metadata \in context.airoa_metadata :
        Exported(ExportDir("out"), depth_config, metadata)
  BY DEF Export, Exported, DepthPart, Before, NoBundle
<1>2. PICK v, dir : dir = <<"out", v>> /\ Exported(dir, depth_config, metadata)
  <2>1. \E v : ExportDir("out") = <<"out", v>>
    BY DEF ExportDir
  <2> QED
    BY <1>1, <2>1
<1> DEFINE before == Before(dir)
           tables == [before EXCEPT !.dataset = context.dataset, !.rosbag_uuid = context.rosbag_uuid,
                                    !.sources = @ \cup sources]
           c == Encoded(dir, BelowVideos)
           d == DepthPart(dir, depth_config)
           written == Over(d.written, c.written)
           registry == Over(d.registry, c.registry)
           b == bundles'[dir]
           converted == {[version |-> "2.0", doc |-> m, of |-> metadata.of, origin |-> metadata.origin] :
                           m \in into_v2_0(metadata)}
<1>3. /\ disk' = Over(d.written, Over(c.written, disk))
      /\ IF into_v2_0(metadata) = {}
         THEN /\ bundles' = Over(Only(dir, [tables EXCEPT !.torn = TRUE]), bundles)
              /\ context' = Context
              /\ sources' = {}
         ELSE /\ bundles' = Over(Only(dir, [tables EXCEPT
                   !.topic_message_type_map = context.topic_message_type_map,
                   !.airoa_metadata = converted,
                   !.video_registry = IF registry = <<>> THEN @ ELSE registry,
                   !.torn = @ /\ registry = <<>>]), bundles)
              /\ context' = [context EXCEPT
                   !.video_registry = IF registry = <<>> THEN @ ELSE registry,
                   !.bundle_root = dir]
              /\ UNCHANGED sources
  BY <1>2 DEF Exported
<1>4. Fresh(written, registry, dir)
  <2>1. Fresh(c.written, c.registry, dir)
    BY EncodedBelowVideos
  <2>2. Fresh(d.written, d.registry, dir)
    <3>1. CASE depth_config
      BY <3>1, EncodedDepth DEF DepthPart
    <3>2. CASE ~depth_config
      BY <3>2 DEF Fresh, DepthPart
    <3> QED
      BY <3>1, <3>2
  <2> HIDE DEF c, d
  <2> QED
    BY <2>1, <2>2, FreshTogether
<1>5. disk' = Over(written, disk)
  <2> HIDE DEF c, d
  <2> QED
    BY <1>3, OverOver
<1>6. /\ DOMAIN before = BundleFields
      /\ "sources" \in BundleFields /\ "dataset" \in BundleFields
  BY BeforeSound DEF BundleFields
<1>7. \A m \in converted : m.of = metadata.of
  OBVIOUS
<1> HIDE DEF c, d, before, written, registry, converted
<1>8. /\ DOMAIN bundles' = DOMAIN bundles \cup {dir}
      /\ \A o \in DOMAIN bundles : o # dir => bundles'[o] = bundles[o]
  BY <1>3 DEF Over, Only
<1>9. /\ DOMAIN b = BundleFields
      /\ b.dataset = context.dataset
      /\ b.sources = before.sources \cup sources
      /\ b.topic_message_type_map \in {before.topic_message_type_map, context.topic_message_type_map}
      /\ b.video_registry \in {before.video_registry, registry}
      /\ b.airoa_metadata \in {before.airoa_metadata, converted}
  <2>1. CASE into_v2_0(metadata) = {}
    <3>1. b = [tables EXCEPT !.torn = TRUE]
      BY <1>3, <2>1 DEF Over, Only
    <3> QED
      BY <3>1, <1>6 DEF BundleFields
  <2>2. CASE into_v2_0(metadata) # {}
    <3>1. b = [tables EXCEPT
                !.topic_message_type_map = context.topic_message_type_map,
                !.airoa_metadata = converted,
                !.video_registry = IF registry = <<>> THEN @ ELSE registry,
                !.torn = @ /\ registry = <<>>]
      BY <1>3, <2>2 DEF Over, Only, registry, converted
    <3> QED
      BY <3>1, <1>6 DEF BundleFields
  <2> QED
    BY <2>1, <2>2
<1> HIDE DEF b
<1>10. BundleSound(dir)'
  <2>1. {m.of : m \in b.airoa_metadata} \subseteq
           {m.of : m \in before.airoa_metadata} \cup {m.of : m \in context.airoa_metadata}
    BY <1>7, <1>9
  <2>2. bundles'[dir] = b
    BY DEF b
  <2> QED
    BY <1>2, <1>4, <1>5, <1>9, <2>1, <2>2, ExportedBundle DEF before
<1>11. ASSUME NEW o \in DOMAIN bundles'
       PROVE  BundleSound(o)'
  <2>1. CASE o = dir
    BY <1>10, <2>1
  <2>2. CASE o # dir
    <3>1. o \in DOMAIN bundles /\ bundles'[o] = bundles[o]
      BY <1>8, <2>2
    <3> QED
      BY <1>2, <1>4, <1>5, <2>2, <3>1, OtherBundles
  <2> QED
    BY <2>1, <2>2
<1>12. ASSUME NEW f \in DOMAIN disk'
       PROVE  IF f \in DOMAIN written THEN disk'[f].of \in sources
              ELSE f \in DOMAIN disk /\ disk'[f] = disk[f]
  BY <1>4, <1>5, FileWritten
<1>13. ContextSound'
  <2>1. CASE into_v2_0(metadata) = {}
    BY <1>3, <2>1, EmptyContextSound
  <2>2. CASE into_v2_0(metadata) # {}
    <3>1. UNCHANGED sources
      BY <1>3, <2>2
    <3>2. /\ DOMAIN context' = DOMAIN Context
          /\ context'.dataset = context.dataset
          /\ context'.topic_message_type_map = context.topic_message_type_map
          /\ context'.airoa_metadata = context.airoa_metadata
          /\ context'.depth_data = context.depth_data
          /\ context'.image_data = context.image_data
          /\ context'.video_registry \in {context.video_registry, registry}
          /\ context'.video_cache_dir = context.video_cache_dir
      BY <1>3, <2>2, ContextFields DEF IInv, ContextSound, registry
    <3>3. ASSUME NEW a, a \in Artifacts(context')
          PROVE  a.of \in sources /\ FoundOf(a, sources)'
      <4> DEFINE f == a.root \o a.path
      <4>1. CASE \E t \in DOMAIN registry : a = registry[t]
        <5>1. a.of \in Owners(context) /\ f \in DOMAIN written
          BY <4>1, <1>4 DEF Fresh
        <5>2. f \in DOMAIN disk' => disk'[f].of \in sources
          BY <5>1, <1>12
        <5> QED
          BY <5>1, <5>2, <3>1 DEF FoundOf, IInv, ContextSound
      <4>2. CASE a \in Artifacts(context)
        <5>1. a.of \in sources /\ FoundOf(a, sources)
          BY <4>2 DEF IInv, ContextSound, Owners, Artifacts
        <5>2. f \in DOMAIN disk' => disk'[f].of \in sources
          BY <5>1, <1>12 DEF FoundOf
        <5> QED
          BY <5>1, <5>2, <3>1 DEF FoundOf
      <4> QED
        BY <3>2, <3>3, <4>1, <4>2 DEF Artifacts
    <3>4. Owners(context') \subseteq sources'
      <4>1. \A t \in DOMAIN context'.video_registry : context'.video_registry[t].of \in sources
        BY <3>3 DEF Artifacts
      <4> QED
        BY <3>1, <3>2, <4>1 DEF Owners, IInv, ContextSound
    <3>5. \A a \in Artifacts(context') : FoundOf(a, sources)'
      BY <3>3
    <3> QED
      BY <3>2, <3>4, <3>5 DEF ContextSound, IInv
  <2> QED
    BY <2>1, <2>2
<1> QED
  BY <1>11, <1>13 DEF IInv

LEMMA StepInv == IInv /\ [SessionNext]_sessionVars => IInv'
<1> SUFFICES ASSUME IInv, [SessionNext]_sessionVars
             PROVE  IInv'
  OBVIOUS
<1>1. CASE SessionNext
  BY <1>1, EmptiedInv, MetadataInv, SetMetadataInv, SetRecordBatchInv, SetImageDataInv, SetFolderInv,
     IngestRosbagInv, IngestBundleInv, DecodeVideosInv, TransformLeRobotInv,
     EncodeVideosInv, EncodeDepthVideosInv, ExportInv
     DEF SessionNext, Scripted, Stages
<1>2. CASE UNCHANGED sessionVars
  <2>1. UNCHANGED <<context, disk, bundles, sources>>
    BY <1>2 DEF sessionVars
  <2> QED
    BY <2>1, ContextChange DEF IInv, ContextSound
<1> QED
  BY <1>1, <1>2

(* However long the script and whatever it calls, nothing is in its context but
   what was put in since it was last empty, by itself, by a bag, through a bundle
   or with a video that was looked for in another folder than its own.         *)
THEOREM ContextIsOfItsSourcesHolds == SessionSpec => []ContextIsOfItsSources
<1>1. IInv => ContextIsOfItsSources
  BY DEF IInv, ContextSound, ContextIsOfItsSources
<1> QED
  BY InitInv, StepInv, <1>1, PTL DEF SessionSpec

(***************************************************************************)
(* The second invariant: what the registry of the context and those of the *)
(* bundles say of the videos, and where the shape of an image comes from.  *)
(***************************************************************************)
Place(t, p) == p = <<t>> \/ p = <<"videos", t>>

Folder(root) == \E S : root \in Seq(S)

TellsTheTruth(a) ==
  LET video == a.root \o a.path
  IN  video \in DOMAIN disk /\ disk[video].of = a.of /\ (a.of # Script => disk[video].shape = a.shape)

Torn(root) == root \in DOMAIN bundles /\ bundles[root].torn

EntryTrue(t, a) == Place(t, a.path) /\ Folder(a.root) /\ (~Torn(a.root) => TellsTheTruth(a))

RegistryTrue ==
  \A t \in DOMAIN context.video_registry : EntryTrue(t, context.video_registry[t])

BundleTrue(dir) ==
  /\ bundles[dir].torn \in BOOLEAN
  /\ \A t \in DOMAIN bundles[dir].video_registry : EntryTrue(t, bundles[dir].video_registry[t])

BundlesTrue == \A dir \in DOMAIN bundles : BundleTrue(dir)

(* An image that did not come from the script has its shape known. *)
ShapesKnown ==
  LET images == context.image_data
      shapes == context.image_topic_shapes
  IN  /\ images = [t \in DOMAIN images |-> images[t]]
      /\ \A t \in DOMAIN images :
           images[t].of # Script => t \in DOMAIN shapes /\ shapes[t] = images[t].shape

RootKnown == context.bundle_root \in {<<>>} \cup DOMAIN bundles \cup {a.root : a \in Artifacts(context)}

TruthInv == RegistryTrue /\ BundlesTrue /\ ShapesKnown /\ RootKnown

(***************************************************************************)
(* Lemmas on what is written together with what is said of it.             *)
(***************************************************************************)
LEMMA PlaceIsPath ==
  ASSUME NEW t, NEW p, Place(t, p)
  PROVE  Path(p)
BY DEF Place, Path

LEMMA LastOfLast ==
  ASSUME NEW S, NEW r \in Seq(S), NEW s \in Seq(S), s # <<>>
  PROVE  (r \o s)[Len(r \o s)] = s[Len(s)]
<1> DEFINE m == Len(r)
           n == Len(s)
<1>1. m \in Nat /\ n \in Nat /\ Len(r \o s) = m + n
  OBVIOUS
<1>2. n # 0
  OBVIOUS
<1>3. \A i \in 1 .. m + n : (r \o s)[i] = IF i <= m THEN r[i] ELSE s[i - m]
  OBVIOUS
<1> HIDE DEF m, n
<1>4. m + n \in 1 .. m + n /\ ~(m + n <= m) /\ (m + n) - m = n
  BY <1>1, <1>2
<1>5. (r \o s)[m + n] = s[n]
  BY <1>3, <1>4
<1> QED
  BY <1>1, <1>5 DEF n

(* A video has its topic for its name. *)
LEMMA NamedByTopic ==
  ASSUME NEW r, NEW s, Folder(r), Folder(s), NEW t, NEW u, NEW p, NEW q, Place(t, p), Place(u, q),
         r \o p = s \o q
  PROVE  t = u
<1>1. ASSUME NEW d, Folder(d), NEW v, NEW x, Place(v, x)
      PROVE  (d \o x)[Len(d \o x)] = v
  <2> PICK S : d \in Seq(S)
    BY <1>1 DEF Folder
  <2> DEFINE T == S \cup {v, "videos"}
  <2>1. d \in Seq(T)
    BY SeqMonotonic
  <2> HIDE DEF T
  <2>2. v \in T /\ "videos" \in T
    BY DEF T
  <2>3. CASE x = <<v>>
    <3>1. x \in Seq(T) /\ x # <<>> /\ x[Len(x)] = v
      BY <2>2, <2>3
    <3> QED
      BY <2>1, <3>1, LastOfLast
  <2>4. CASE x = <<"videos", v>>
    <3>1. x \in Seq(T) /\ x # <<>> /\ x[Len(x)] = v
      BY <2>2, <2>4
    <3> QED
      BY <2>1, <3>1, LastOfLast
  <2> QED
    BY <1>1, <2>3, <2>4 DEF Place
<1>2. (r \o p)[Len(r \o p)] = t /\ (s \o q)[Len(s \o q)] = u
  BY <1>1
<1> QED
  BY <1>2

(* Videos below root, and a registry that has every one of them as it is. *)
Told(written, registry, root) ==
  /\ \A t \in DOMAIN registry :
       LET a == registry[t]
           f == a.root \o a.path
       IN  /\ a.root = root /\ Place(t, a.path)
           /\ f \in DOMAIN written /\ written[f].of = a.of
           /\ a.of # Script => written[f].shape = a.shape
  /\ \A f \in DOMAIN written : \E t \in DOMAIN registry : f = root \o registry[t].path

LEMMA ImagesTold ==
  ASSUME ShapesKnown, NEW root, Folder(root), NEW written, NEW registry,
         DOMAIN registry = DOMAIN context.image_data,
         \A t \in DOMAIN registry :
           /\ registry[t].of = context.image_data[t].of /\ registry[t].shape = ShapeOf(t)
           /\ registry[t].root = root /\ Place(t, registry[t].path)
           /\ root \o registry[t].path \in DOMAIN written,
         \A f \in DOMAIN written : \E t \in DOMAIN registry :
           f = root \o registry[t].path /\ written[f] = context.image_data[t]
  PROVE  Told(written, registry, root)
<1> DEFINE images == context.image_data
<1>1. SUFFICES ASSUME NEW t \in DOMAIN registry
               PROVE  LET a == registry[t]
                          f == a.root \o a.path
                      IN  /\ a.root = root /\ Place(t, a.path)
                          /\ f \in DOMAIN written /\ written[f].of = a.of
                          /\ a.of # Script => written[f].shape = a.shape
  BY DEF Told
<1> DEFINE f == root \o registry[t].path
<1>2. PICK u \in DOMAIN registry : f = root \o registry[u].path /\ written[f] = images[u]
  BY <1>1
<1>3. u = t
  BY <1>1, <1>2, NamedByTopic
<1>4. images[t].of # Script => ShapeOf(t) = images[t].shape
  BY <1>1 DEF ShapesKnown, ShapeOf
<1> QED
  BY <1>1, <1>2, <1>3, <1>4

LEMMA ToldByTopic ==
  ASSUME ShapesKnown, NEW root, Folder(root)
  PROVE  LET e == Encoded(root, ByTopic)
         IN  Told(e.written, e.registry, root) /\ DOMAIN e.registry = DOMAIN context.image_data
<1> DEFINE images == context.image_data
           e == Encoded(root, ByTopic)
<1>1. e.written = [f \in {root \o <<t>> : t \in DOMAIN images} |->
                     images[CHOOSE t \in DOMAIN images : root \o <<t>> = f]]
  BY DEF Encoded, ByTopic
<1>2. e.registry = [t \in DOMAIN images |->
                      [of |-> images[t].of, shape |-> ShapeOf(t), path |-> <<t>>, root |-> root]]
  BY DEF Encoded, ByTopic
<1> HIDE DEF e
<1>3. \A f \in DOMAIN e.written : \E t \in DOMAIN images : f = root \o <<t>> /\ e.written[f] = images[t]
  BY <1>1
<1>4. /\ DOMAIN e.registry = DOMAIN images
      /\ \A t \in DOMAIN images :
           /\ e.registry[t].of = images[t].of /\ e.registry[t].shape = ShapeOf(t)
           /\ e.registry[t].root = root /\ e.registry[t].path = <<t>>
           /\ root \o <<t>> \in DOMAIN e.written
  <2>1. \A t \in DOMAIN images : root \o <<t>> \in DOMAIN e.written
    BY <1>1
  <2>2. ASSUME NEW t \in DOMAIN images
        PROVE  /\ e.registry[t].of = images[t].of /\ e.registry[t].shape = ShapeOf(t)
               /\ e.registry[t].root = root /\ e.registry[t].path = <<t>>
    <3>1. e.registry[t] = [of |-> images[t].of, shape |-> ShapeOf(t), path |-> <<t>>, root |-> root]
      BY <1>2
    <3> QED
      BY <3>1
  <2>3. DOMAIN e.registry = DOMAIN images
    BY <1>2
  <2> QED
    BY <2>1, <2>2, <2>3
<1>5. \A t : Place(t, <<t>>)
  BY DEF Place
<1> HIDE DEF images
<1>6. Told(e.written, e.registry, root)
  <2>1. \A t \in DOMAIN e.registry :
           /\ e.registry[t].of = images[t].of /\ e.registry[t].shape = ShapeOf(t)
           /\ e.registry[t].root = root /\ Place(t, e.registry[t].path)
           /\ root \o e.registry[t].path \in DOMAIN e.written
    BY <1>4, <1>5
  <2>2. \A f \in DOMAIN e.written : \E t \in DOMAIN e.registry :
          f = root \o e.registry[t].path /\ e.written[f] = images[t]
    BY ZenonT(40), <1>3, <1>4
  <2> QED
    BY <1>4, <2>1, <2>2, ImagesTold DEF images
<1> QED
  BY <1>4, <1>6 DEF e, images

LEMMA ToldBelowVideos ==
  ASSUME ShapesKnown, NEW root, Folder(root)
  PROVE  LET e == Encoded(root, BelowVideos)
         IN  /\ Told(e.written, e.registry, root)
             /\ \A t \in DOMAIN e.registry : e.registry[t].path = <<"videos", t>>
<1> DEFINE images == context.image_data
           e == Encoded(root, BelowVideos)
<1>1. e.written = [f \in {root \o <<"videos", t>> : t \in DOMAIN images} |->
                     images[CHOOSE t \in DOMAIN images : root \o <<"videos", t>> = f]]
  BY DEF Encoded, BelowVideos
<1>2. e.registry = [t \in DOMAIN images |->
                      [of |-> images[t].of, shape |-> ShapeOf(t), path |-> <<"videos", t>>, root |-> root]]
  BY DEF Encoded, BelowVideos
<1> HIDE DEF e
<1>3. \A f \in DOMAIN e.written : \E t \in DOMAIN images :
        f = root \o <<"videos", t>> /\ e.written[f] = images[t]
  BY <1>1
<1>4. /\ DOMAIN e.registry = DOMAIN images
      /\ \A t \in DOMAIN images :
           /\ e.registry[t].of = images[t].of /\ e.registry[t].shape = ShapeOf(t)
           /\ e.registry[t].root = root /\ e.registry[t].path = <<"videos", t>>
           /\ root \o <<"videos", t>> \in DOMAIN e.written
  <2>1. \A t \in DOMAIN images : root \o <<"videos", t>> \in DOMAIN e.written
    BY <1>1
  <2>2. ASSUME NEW t \in DOMAIN images
        PROVE  /\ e.registry[t].of = images[t].of /\ e.registry[t].shape = ShapeOf(t)
               /\ e.registry[t].root = root /\ e.registry[t].path = <<"videos", t>>
    <3>1. e.registry[t] = [of |-> images[t].of, shape |-> ShapeOf(t), path |-> <<"videos", t>>, root |-> root]
      BY <1>2
    <3> QED
      BY <3>1
  <2>3. DOMAIN e.registry = DOMAIN images
    BY <1>2
  <2> QED
    BY <2>1, <2>2, <2>3
<1>5. \A t : Place(t, <<"videos", t>>)
  BY DEF Place
<1> HIDE DEF images
<1>6. Told(e.written, e.registry, root)
  <2>1. \A t \in DOMAIN e.registry :
           /\ e.registry[t].of = images[t].of /\ e.registry[t].shape = ShapeOf(t)
           /\ e.registry[t].root = root /\ Place(t, e.registry[t].path)
           /\ root \o e.registry[t].path \in DOMAIN e.written
    BY <1>4, <1>5
  <2>2. \A f \in DOMAIN e.written : \E t \in DOMAIN e.registry :
          f = root \o e.registry[t].path /\ e.written[f] = images[t]
    BY ZenonT(40), <1>3, <1>4
  <2> QED
    BY <1>4, <2>1, <2>2, ImagesTold DEF images
<1> QED
  BY <1>4, <1>6 DEF e, images

LEMMA ToldDepth ==
  ASSUME NEW root
  PROVE  LET e == DepthEncoded(root)
         IN  /\ Told(e.written, e.registry, root)
             /\ \A t \in DOMAIN e.registry : e.registry[t].path = <<"videos", t>>
             /\ context.depth_data # {} => DOMAIN e.registry # {}
<1> DEFINE e == DepthEncoded(root)
           files == {root \o <<"videos", Depth>> : b \in context.depth_data}
           owner == CHOOSE b \in context.depth_data : TRUE
<1>1. e.written = [f \in files |-> [of |-> owner, shape |-> DepthShape]]
  BY DEF DepthEncoded
<1>2. e.registry = [t \in {Depth : b \in context.depth_data} |->
                      [of |-> owner, shape |-> DepthShape, path |-> <<"videos", Depth>>, root |-> root]]
  BY DEF DepthEncoded
<1>3. Place(Depth, <<"videos", Depth>>)
  BY DEF Place
<1> HIDE DEF e, owner, files
<1>4. \A f \in DOMAIN e.written :
        /\ f = root \o <<"videos", Depth>> /\ context.depth_data # {}
        /\ e.written[f].of = owner /\ e.written[f].shape = DepthShape
  <2> SUFFICES ASSUME NEW f \in DOMAIN e.written
               PROVE  /\ f = root \o <<"videos", Depth>> /\ context.depth_data # {}
                      /\ e.written[f].of = owner /\ e.written[f].shape = DepthShape
    OBVIOUS
  <2>1. f \in files
    BY <1>1
  <2>2. e.written[f] = [of |-> owner, shape |-> DepthShape]
    BY <1>1, <2>1
  <2> QED
    BY <2>1, <2>2 DEF files
<1>5. context.depth_data # {} => Depth \in DOMAIN e.registry /\ root \o <<"videos", Depth>> \in DOMAIN e.written
  BY <1>1, <1>2 DEF files
<1>6. \A t \in DOMAIN e.registry :
        /\ t = Depth /\ context.depth_data # {}
        /\ e.registry[t].of = owner /\ e.registry[t].shape = DepthShape
        /\ e.registry[t].root = root /\ e.registry[t].path = <<"videos", Depth>>
  BY <1>2
<1>7. Told(e.written, e.registry, root)
  BY <1>3, <1>4, <1>5, <1>6 DEF Told
<1> QED
  BY <1>5, <1>6, <1>7 DEF e

LEMMA ToldTogether ==
  ASSUME NEW root, Folder(root), NEW w, NEW r, Told(w, r, root), NEW v, NEW q, Told(v, q, root),
         \A t \in DOMAIN r \cap DOMAIN q : r[t].path = q[t].path
  PROVE  Told(Over(w, v), Over(r, q), root)
<1> DEFINE written == Over(w, v)
           registry == Over(r, q)
<1>1. /\ DOMAIN written = DOMAIN w \cup DOMAIN v
      /\ \A f \in DOMAIN w : written[f] = w[f]
      /\ \A f \in DOMAIN v \ DOMAIN w : written[f] = v[f]
  BY DEF Over
<1>2. /\ DOMAIN registry = DOMAIN r \cup DOMAIN q
      /\ \A t \in DOMAIN r : registry[t] = r[t]
      /\ \A t \in DOMAIN q \ DOMAIN r : registry[t] = q[t]
  BY DEF Over
<1> HIDE DEF written, registry
<1>3. ASSUME NEW t \in DOMAIN registry
      PROVE  LET a == registry[t]
                 f == a.root \o a.path
             IN  /\ a.root = root /\ Place(t, a.path)
                 /\ f \in DOMAIN written /\ written[f].of = a.of
                 /\ a.of # Script => written[f].shape = a.shape
  <2>1. CASE t \in DOMAIN r
    BY <1>1, <1>2, <2>1 DEF Told
  <2>2. CASE t \in DOMAIN q \ DOMAIN r
    <3> DEFINE f == root \o q[t].path
    <3>1. q[t].root = root /\ Place(t, q[t].path) /\ f \in DOMAIN v
      BY <2>2 DEF Told
    <3>2. f \notin DOMAIN w
      <4> SUFFICES ASSUME f \in DOMAIN w PROVE FALSE
        OBVIOUS
      <4>1. PICK u \in DOMAIN r : f = root \o r[u].path
        BY DEF Told
      <4>2. Place(u, r[u].path)
        BY DEF Told
      <4>3. t = u
        BY <3>1, <4>1, <4>2, NamedByTopic
      <4> QED
        BY <2>2, <4>3
    <3>3. written[f] = v[f] /\ registry[t] = q[t] /\ f \in DOMAIN written
      BY <1>1, <1>2, <2>2, <3>1, <3>2
    <3> QED
      BY <2>2, <3>1, <3>3 DEF Told
  <2> QED
    BY <1>2, <2>1, <2>2
<1>4. ASSUME NEW f \in DOMAIN written
      PROVE  \E t \in DOMAIN registry : f = root \o registry[t].path
  <2>1. CASE f \in DOMAIN w
    <3>1. PICK t \in DOMAIN r : f = root \o r[t].path
      BY <2>1 DEF Told
    <3> QED
      BY <1>2, <3>1
  <2>2. CASE f \in DOMAIN v
    <3>1. PICK t \in DOMAIN q : f = root \o q[t].path
      BY <2>2 DEF Told
    <3>2. CASE t \in DOMAIN r
      BY <1>2, <3>1, <3>2
    <3>3. CASE t \notin DOMAIN r
      BY <1>2, <3>1, <3>3
    <3> QED
      BY <3>2, <3>3
  <2> QED
    BY <1>1, <2>1, <2>2
<1>5. Told(written, registry, root)
  BY <1>3, <1>4 DEF Told
<1> QED
  BY <1>5 DEF written, registry

(***************************************************************************)
(* Steps that leave the videos and the registries alone.                   *)
(***************************************************************************)
(* A file that is not written to is still what is said of it. *)
LEMMA StillTrue ==
  ASSUME NEW t, NEW a, EntryTrue(t, a), Torn(a.root) => Torn(a.root)',
         a.root \o a.path \in DOMAIN disk =>
           /\ a.root \o a.path \in DOMAIN disk'
           /\ disk'[a.root \o a.path] = disk[a.root \o a.path]
  PROVE  EntryTrue(t, a)'
BY DEF EntryTrue, TellsTheTruth

LEMMA NothingWritten ==
  ASSUME TruthInv, UNCHANGED <<disk, bundles>>
  PROVE  /\ BundlesTrue'
         /\ \A t, a : EntryTrue(t, a) => EntryTrue(t, a)'
<1>1. ASSUME NEW t, NEW a, EntryTrue(t, a)
      PROVE  EntryTrue(t, a)'
  <2>1. Torn(a.root)' <=> Torn(a.root)
    BY DEF Torn
  <2> QED
    BY <1>1, <2>1, StillTrue
<1>2. ASSUME NEW dir \in DOMAIN bundles'
      PROVE  BundleTrue(dir)'
  <2>1. BundleTrue(dir)
    BY DEF TruthInv, BundlesTrue
  <2> QED
    BY <1>1, <2>1 DEF BundleTrue
<1> QED
  BY <1>1, <1>2 DEF BundlesTrue

LEMMA RegistryKept ==
  ASSUME TruthInv, UNCHANGED <<disk, bundles>>,
         context'.video_registry = context.video_registry,
         context'.bundle_root \in {context.bundle_root} \cup DOMAIN bundles,
         ShapesKnown'
  PROVE  TruthInv'
<1>1. BundlesTrue' /\ RegistryTrue'
  BY NothingWritten DEF TruthInv, RegistryTrue
<1>2. RootKnown'
  BY DEF TruthInv, RootKnown, Artifacts
<1> QED
  BY <1>1, <1>2 DEF TruthInv

LEMMA ImagesKept ==
  ASSUME TruthInv, context'.image_data = context.image_data,
         \A t \in DOMAIN context.image_topic_shapes :
           /\ t \in DOMAIN context'.image_topic_shapes
           /\ context'.image_topic_shapes[t] = context.image_topic_shapes[t]
  PROVE  ShapesKnown'
BY DEF TruthInv, ShapesKnown

LEMMA TruthInit == SessionInit => TruthInv
<1> SUFFICES ASSUME SessionInit PROVE TruthInv
  OBVIOUS
<1>1. /\ DOMAIN context.video_registry = {} /\ DOMAIN bundles = {} /\ context.bundle_root = <<>>
      /\ context.image_data = <<>>
  BY DEF SessionInit, Context
<1>2. <<>> = [t \in DOMAIN <<>> |-> <<>>[t]] /\ DOMAIN <<>> = {}
  OBVIOUS
<1> QED
  BY <1>1, <1>2 DEF TruthInv, RegistryTrue, BundlesTrue, ShapesKnown, RootKnown

LEMMA EmptyContextTrue ==
  ASSUME context' = Context
  PROVE  RegistryTrue' /\ ShapesKnown' /\ RootKnown'
<1>1. /\ DOMAIN context'.video_registry = {} /\ context'.bundle_root = <<>> /\ context'.image_data = <<>>
  BY DEF Context
<1>2. <<>> = [t \in DOMAIN <<>> |-> <<>>[t]] /\ DOMAIN <<>> = {}
  OBVIOUS
<1> QED
  BY <1>1, <1>2 DEF RegistryTrue, ShapesKnown, RootKnown

(* the calls that have nothing to do with images or videos *)
LEMMA OtherCallsTrue ==
  ASSUME IInv, TruthInv,
         \/ NewMetadata \/ ChangeMetadata \/ MetadataFromJson
         \/ SetAiroaMetadata \/ SetAiroaMetadataJson \/ SetRecordBatch
         \/ SetVideoCacheDir \/ SetBundleRoot \/ NewContext \/ EnrichUuid \/ StageRaises
  PROVE  TruthInv'
<1>1. UNCHANGED <<disk, bundles>>
  BY DEF NewMetadata, ChangeMetadata, MetadataFromJson, SetAiroaMetadata, SetAiroaMetadataJson,
         SetRecordBatch, SetVideoCacheDir, SetBundleRoot, NewContext, EnrichUuid, StageRaises
<1>2. CASE context' = Context
  BY <1>1, <1>2, NothingWritten, EmptyContextTrue DEF TruthInv
<1>3. CASE context' # Context
  <2>1. /\ context'.video_registry = context.video_registry
        /\ context'.image_data = context.image_data
        /\ context'.image_topic_shapes = context.image_topic_shapes
        /\ context'.bundle_root \in {context.bundle_root} \cup DOMAIN bundles
    <3>1. DOMAIN context = DOMAIN Context
      BY DEF IInv, ContextSound
    <3>2. CASE NewMetadata \/ ChangeMetadata \/ MetadataFromJson
      BY <3>2 DEF NewMetadata, ChangeMetadata, MetadataFromJson
    <3>3. CASE SetAiroaMetadata \/ SetAiroaMetadataJson
      <4>1. PICK m : context' = [context EXCEPT !.airoa_metadata = {Owned(m, Script)}]
        BY <3>3 DEF SetAiroaMetadata, SetAiroaMetadataJson, PutIn
      <4> QED
        BY <3>1, <4>1, ContextFields
    <3>4. CASE SetRecordBatch \/ SetVideoCacheDir \/ SetBundleRoot \/ EnrichUuid
      BY <3>1, <3>4, ContextFields DEF SetRecordBatch, SetVideoCacheDir, SetBundleRoot, EnrichUuid, PutIn
    <3> QED
      BY <1>3, <3>2, <3>3, <3>4 DEF NewContext, StageRaises
  <2> QED
    BY <1>1, <2>1, ImagesKept, RegistryKept
<1> QED
  BY <1>2, <1>3

(***************************************************************************)
(* Steps that bring images or a registry into the context.                 *)
(***************************************************************************)
LEMMA SetImageDataTrue ==
  ASSUME IInv, TruthInv, SetImageData
  PROVE  TruthInv'
<1>1. PICK shape : PutIn([context EXCEPT !.image_data = Only(Color, [of |-> Script, shape |-> shape])])
  BY DEF SetImageData
<1> DEFINE images == Only(Color, [of |-> Script, shape |-> shape])
<1>2. images = [t \in DOMAIN images |-> images[t]] /\ \A t \in DOMAIN images : images[t].of = Script
  BY DEF Only
<1> HIDE DEF images
<1>3. /\ context'.image_data = images
      /\ context'.video_registry = context.video_registry
      /\ context'.bundle_root = context.bundle_root
  BY <1>1, ContextFields DEF PutIn, IInv, ContextSound, images
<1>4. ShapesKnown'
  BY <1>2, <1>3 DEF ShapesKnown
<1> QED
  BY <1>3, <1>4, RegistryKept DEF SetImageData

LEMMA IngestRosbagTrue ==
  ASSUME IInv, TruthInv, IngestRosbag
  PROVE  TruthInv'
<1>1. PICK b \in Rosbags, require_metadata \in BOOLEAN :
        context' = [context EXCEPT
             !.dataset = {b.name}, !.rosbag_uuid = {},
             !.image_data = IF b.color = 0 THEN @ ELSE Only(Color, [of |-> b.name, shape |-> b.color]),
             !.image_topic_shapes = IF b.color = 0 THEN @ ELSE Only(Color, b.color),
             !.depth_data = IF b.depth THEN {b.name} ELSE @,
             !.rosbag_path = {b.name},
             !.topic_message_type_map = {b.name},
             !.airoa_metadata = IF require_metadata
               THEN {Owned(m, b.name) : m \in parse_metadata(b.text)}
               ELSE @]
  BY DEF IngestRosbag
<1> DEFINE images == Only(Color, [of |-> b.name, shape |-> b.color])
           shapes == Only(Color, b.color)
           owned == {Owned(m, b.name) : m \in parse_metadata(b.text)}
<1>2. /\ images = [t \in DOMAIN images |-> images[t]]
      /\ DOMAIN shapes = DOMAIN images
      /\ \A t \in DOMAIN images : images[t].shape = b.color /\ shapes[t] = b.color
  BY DEF Only
<1> HIDE DEF images, shapes, owned
<1>3. /\ context'.image_data = IF b.color = 0 THEN context.image_data ELSE images
      /\ context'.image_topic_shapes = IF b.color = 0 THEN context.image_topic_shapes ELSE shapes
      /\ context'.video_registry = context.video_registry
      /\ context'.bundle_root = context.bundle_root
  BY <1>1, ContextFields DEF IInv, ContextSound, images, shapes, owned
<1>4. ShapesKnown'
  <2>1. CASE b.color = 0
    BY <1>3, <2>1, ImagesKept
  <2>2. CASE b.color # 0
    BY <1>2, <1>3, <2>2 DEF ShapesKnown
  <2> QED
    BY <2>1, <2>2
<1> QED
  BY <1>3, <1>4, RegistryKept DEF IngestRosbag

LEMMA DecodeVideosTrue ==
  ASSUME IInv, TruthInv, DecodeVideos
  PROVE  TruthInv'
<1> DEFINE registry == context.video_registry
           frames == [t \in DOMAIN registry |-> disk[resolve_path(registry[t])]]
           shapes == [t \in DOMAIN frames |-> frames[t].shape]
<1>1. /\ context' = [context EXCEPT
           !.image_data = Over(frames, @),
           !.image_topic_shapes = Over(shapes, @)]
      /\ UNCHANGED <<disk, bundles>>
  BY DEF DecodeVideos
<1>2. DOMAIN shapes = DOMAIN frames /\ \A t \in DOMAIN frames : shapes[t] = frames[t].shape
  OBVIOUS
<1> HIDE DEF frames, shapes
<1>3. /\ context'.image_data = Over(frames, context.image_data)
      /\ context'.image_topic_shapes = Over(shapes, context.image_topic_shapes)
      /\ context'.video_registry = context.video_registry
      /\ context'.bundle_root = context.bundle_root
  BY <1>1, ContextFields DEF IInv, ContextSound
<1>4. ShapesKnown'
  BY <1>2, <1>3 DEF ShapesKnown, TruthInv, Over
<1> QED
  BY <1>1, <1>3, <1>4, RegistryKept

LEMMA TransformLeRobotTrue ==
  ASSUME IInv, TruthInv, TransformLeRobot
  PROVE  TruthInv'
<1> DEFINE shapes == Shapes(context.video_registry)
<1>1. /\ context'.image_data = context.image_data
      /\ context'.image_topic_shapes = Over(context.image_topic_shapes, shapes)
      /\ context'.video_registry = context.video_registry
      /\ context'.bundle_root = context.bundle_root
  <2> HIDE DEF shapes
  <2> QED
    BY ContextFields DEF TransformLeRobot, Populated, IInv, ContextSound, shapes
<1> HIDE DEF shapes
<1>2. ShapesKnown'
  <2>1. \A t \in DOMAIN context.image_topic_shapes :
          /\ t \in DOMAIN context'.image_topic_shapes
          /\ context'.image_topic_shapes[t] = context.image_topic_shapes[t]
    BY <1>1 DEF Over
  <2> QED
    BY <1>1, <2>1, ImagesKept
<1> QED
  BY <1>1, <1>2, RegistryKept DEF TransformLeRobot

LEMMA IngestBundleTrue ==
  ASSUME IInv, TruthInv, IngestBundle
  PROVE  TruthInv'
<1>1. PICK dir \in DOMAIN bundles :
        LET b == bundles[dir]
            c == [context EXCEPT
                    !.bundle_root = dir, !.dataset = b.dataset, !.rosbag_uuid = b.rosbag_uuid,
                    !.topic_message_type_map = b.topic_message_type_map, !.airoa_metadata = b.airoa_metadata]
        IN  context' = IF b.video_registry = <<>> THEN c
                       ELSE Populated([c EXCEPT !.video_registry = b.video_registry])
  BY DEF IngestBundle
<1> DEFINE b == bundles[dir]
           shapes == Shapes(b.video_registry)
<1>2. UNCHANGED <<disk, bundles>>
  BY DEF IngestBundle
<1>3. /\ context'.image_data = context.image_data
      /\ context'.image_topic_shapes \in
           {context.image_topic_shapes, Over(context.image_topic_shapes, shapes)}
      /\ context'.video_registry \in {context.video_registry, b.video_registry}
      /\ context'.bundle_root = dir
  <2>1. CASE b.video_registry = <<>>
    BY <1>1, <2>1, ContextFields DEF IInv, ContextSound
  <2>2. CASE b.video_registry # <<>>
    BY <1>1, <2>2, ContextFields DEF IInv, ContextSound, Populated
  <2> QED
    BY <2>1, <2>2
<1> HIDE DEF b, shapes
<1>4. ShapesKnown'
  <2>1. \A t \in DOMAIN context.image_topic_shapes :
          /\ t \in DOMAIN context'.image_topic_shapes
          /\ context'.image_topic_shapes[t] = context.image_topic_shapes[t]
    BY <1>3 DEF Over
  <2> QED
    BY <1>3, <2>1, ImagesKept
<1>5. RegistryTrue'
  <2>1. ASSUME NEW t \in DOMAIN context'.video_registry, NEW a, a = context'.video_registry[t]
        PROVE  EntryTrue(t, a)'
    <3>1. EntryTrue(t, a)
      BY <1>3, <2>1 DEF TruthInv, RegistryTrue, BundlesTrue, BundleTrue, b
    <3> QED
      BY <1>2, <3>1, NothingWritten
  <2> QED
    BY <2>1 DEF RegistryTrue
<1>6. RootKnown'
  BY <1>2, <1>3 DEF RootKnown
<1> QED
  BY <1>2, <1>4, <1>5, <1>6, NothingWritten DEF TruthInv

(***************************************************************************)
(* Steps that write videos.                                                *)
(***************************************************************************)
LEMMA CacheWrittenTrue ==
  ASSUME IInv, TruthInv, NEW written, NEW registry, Told(written, registry, cache_dir),
         DOMAIN registry # {}, disk' = Over(written, disk), UNCHANGED bundles,
         context' = [context EXCEPT !.video_cache_dir = cache_dir, !.bundle_root = cache_dir,
                                    !.video_registry = Over(registry, @)]
  PROVE  TruthInv'
<1>1. CacheDir(cache_dir) /\ Folder(cache_dir)
  BY CacheDirIsOne DEF CacheDir, Folder
<1>2. /\ context'.image_data = context.image_data
      /\ context'.image_topic_shapes = context.image_topic_shapes
      /\ context'.video_registry = Over(registry, context.video_registry)
      /\ context'.bundle_root = cache_dir
  BY ContextFields DEF IInv, ContextSound
<1>3. /\ \A f \in DOMAIN written : f \in DOMAIN disk' /\ disk'[f] = written[f]
      /\ \A f \in DOMAIN disk \ DOMAIN written : f \in DOMAIN disk' /\ disk'[f] = disk[f]
  BY DEF Over
<1>4. \A root : Torn(root)' <=> Torn(root)
  BY DEF Torn
<1>5. /\ DOMAIN context'.video_registry = DOMAIN registry \cup DOMAIN context.video_registry
      /\ \A t \in DOMAIN registry : context'.video_registry[t] = registry[t]
      /\ \A t \in DOMAIN context.video_registry \ DOMAIN registry :
           context'.video_registry[t] = context.video_registry[t]
  BY <1>2 DEF Over
<1>6. ASSUME NEW t \in DOMAIN context'.video_registry, NEW a, a = context'.video_registry[t]
      PROVE  EntryTrue(t, a)'
  <2>1. CASE t \in DOMAIN registry
    <3>1. a = registry[t]
      BY <1>5, <1>6, <2>1
    <3> QED
      BY <1>1, <1>3, <2>1, <3>1 DEF Told, EntryTrue, TellsTheTruth
  <2>2. CASE t \notin DOMAIN registry
    <3>1. EntryTrue(t, a)
      BY <1>5, <1>6, <2>2 DEF TruthInv, RegistryTrue
    <3>2. a.root \o a.path \notin DOMAIN written
      <4> SUFFICES ASSUME a.root \o a.path \in DOMAIN written PROVE FALSE
        OBVIOUS
      <4>1. PICK u \in DOMAIN registry : a.root \o a.path = cache_dir \o registry[u].path
        BY DEF Told
      <4>2. Place(u, registry[u].path)
        BY DEF Told
      <4>3. t = u
        BY <1>1, <3>1, <4>1, <4>2, NamedByTopic DEF EntryTrue
      <4> QED
        BY <2>2, <4>3
    <3> QED
      BY <1>3, <1>4, <3>1, <3>2, StillTrue
  <2> QED
    BY <2>1, <2>2
<1>7. ASSUME NEW dir \in DOMAIN bundles'
      PROVE  BundleTrue(dir)'
  <2>1. BundleTrue(dir) /\ BundleSound(dir)
    BY <1>7 DEF IInv, TruthInv, BundlesTrue
  <2>2. ASSUME NEW t \in DOMAIN bundles[dir].video_registry, NEW a, a = bundles[dir].video_registry[t]
        PROVE  EntryTrue(t, a)'
    <3>1. EntryTrue(t, a)
      BY <2>1, <2>2 DEF BundleTrue
    <3>2. PICK u : a.root = <<"out", u>> /\ Path(a.path)
      BY <2>1, <2>2 DEF BundleSound, Artifacts
    <3>3. a.root \o a.path \notin DOMAIN written
      <4>1. \A f \in DOMAIN written : \E p : Path(p) /\ f = cache_dir \o p
        BY PlaceIsPath DEF Told
      <4> QED
        BY <1>1, <3>2, <4>1, CacheApart
    <3> QED
      BY <1>3, <1>4, <3>1, <3>3, StillTrue
  <2> QED
    BY <2>1, <2>2 DEF BundleTrue
<1>8. RootKnown'
  <2>1. PICK t : t \in DOMAIN registry
    OBVIOUS
  <2>2. context'.video_registry[t] \in Artifacts(context') /\ context'.video_registry[t].root = cache_dir
    BY <1>5, <2>1 DEF Artifacts, Told
  <2> QED
    BY <1>2, <2>2 DEF RootKnown
<1>9. ShapesKnown'
  BY <1>2, ImagesKept
<1>10. RegistryTrue'
  BY <1>6 DEF RegistryTrue
<1>11. BundlesTrue'
  BY <1>7 DEF BundlesTrue
<1> QED
  BY <1>8, <1>9, <1>10, <1>11 DEF TruthInv

LEMMA CacheUsedTrue ==
  ASSUME IInv, TruthInv, context' = [context EXCEPT !.video_cache_dir = cache_dir],
         UNCHANGED <<disk, bundles>>
  PROVE  TruthInv'
<1>1. /\ context'.image_data = context.image_data
      /\ context'.image_topic_shapes = context.image_topic_shapes
      /\ context'.video_registry = context.video_registry
      /\ context'.bundle_root = context.bundle_root
  BY ContextFields DEF IInv, ContextSound
<1> QED
  BY <1>1, ImagesKept, RegistryKept

LEMMA EncodersTrue ==
  ASSUME IInv, TruthInv, EncodeVideos \/ EncodeDepthVideos
  PROVE  TruthInv'
<1>1. Folder(cache_dir)
  BY CacheDirIsOne DEF CacheDir, Folder
<1>2. CASE EncodeVideos /\ context.image_data # <<>>
  <2> DEFINE e == Encoded(cache_dir, ByTopic)
  <2>1. Told(e.written, e.registry, cache_dir) /\ DOMAIN e.registry = DOMAIN context.image_data
    BY <1>1, ToldByTopic DEF TruthInv
  <2>2. DOMAIN context.image_data # {}
    <3>1. \A m : m = [t \in DOMAIN m |-> m[t]] /\ DOMAIN m = {} => m = <<>>
      OBVIOUS
    <3> QED
      BY <1>2, <3>1 DEF TruthInv, ShapesKnown
  <2>3. disk' = Over(e.written, disk) /\ context' = Moved(context, e) /\ UNCHANGED bundles
    BY <1>2 DEF EncodeVideos
  <2> HIDE DEF e
  <2> QED
    BY <2>1, <2>2, <2>3, CacheWrittenTrue DEF Moved
<1>3. CASE EncodeDepthVideos /\ context.depth_data # {}
  <2> DEFINE e == DepthEncoded(cache_dir)
  <2>1. Told(e.written, e.registry, cache_dir) /\ DOMAIN e.registry # {}
    BY <1>3, ToldDepth
  <2>2. disk' = Over(e.written, disk) /\ context' = Moved(context, e) /\ UNCHANGED bundles
    BY <1>3 DEF EncodeDepthVideos
  <2> HIDE DEF e
  <2> QED
    BY <2>1, <2>2, CacheWrittenTrue DEF Moved
<1>4. CASE \/ EncodeVideos /\ context.image_data = <<>>
           \/ EncodeDepthVideos /\ context.depth_data = {}
  BY <1>4, CacheUsedTrue DEF EncodeVideos, EncodeDepthVideos
<1> QED
  BY <1>2, <1>3, <1>4

(* Exports to other folders still have their own videos. *)
LEMMA OtherBundlesTrue ==
  ASSUME IInv, TruthInv, NEW written, NEW registry, NEW dir, NEW v, dir = <<"out", v>>,
         Told(written, registry, dir), disk' = Over(written, disk),
         NEW o \in DOMAIN bundles, o # dir, o \in DOMAIN bundles', bundles'[o] = bundles[o]
  PROVE  BundleTrue(o)'
<1>1. BundleTrue(o) /\ BundleSound(o)
  BY DEF IInv, TruthInv, BundlesTrue
<1>2. ASSUME NEW t \in DOMAIN bundles[o].video_registry, NEW a, a = bundles[o].video_registry[t]
      PROVE  EntryTrue(t, a)'
  <2>1. EntryTrue(t, a)
    BY <1>1, <1>2 DEF BundleTrue
  <2>2. a.root = o /\ Path(a.path)
    BY <1>1, <1>2 DEF BundleSound, Artifacts
  <2>3. PICK u : o = <<"out", u>>
    BY <1>1 DEF BundleSound
  <2>4. a.root \o a.path \notin DOMAIN written
    <3>1. \A f \in DOMAIN written : \E p : Path(p) /\ f = <<"out", v>> \o p
      BY PlaceIsPath DEF Told
    <3>2. u # v
      BY <2>3
    <3>3. \A p : Path(p) => <<"out", u>> \o a.path # <<"out", v>> \o p
      BY <2>2, <3>2, ExportsApart
    <3>4. a.root \o a.path = <<"out", u>> \o a.path
      BY <2>2, <2>3
    <3> QED
      BY <3>1, <3>3, <3>4
  <2>5. \A f \in DOMAIN disk \ DOMAIN written : f \in DOMAIN disk' /\ disk'[f] = disk[f]
    BY DEF Over
  <2>6. Torn(a.root)' <=> Torn(a.root)
    BY <2>2 DEF Torn
  <2> QED
    BY <2>1, <2>4, <2>5, <2>6, StillTrue
<1> QED
  BY <1>1, <1>2 DEF BundleTrue

(* Export to dir: what is in the folder is what the new registry says, or, when
   there are no videos to write, what it was.                                   *)
LEMMA ExportTrue ==
  ASSUME IInv, TruthInv, Export
  PROVE  TruthInv'
<1>1. PICK depth_config \in BOOLEAN, metadata \in context.airoa_metadata :
        Exported(ExportDir("out"), depth_config, metadata)
  BY DEF Export, Exported, DepthPart, Before, NoBundle
<1>2. PICK v, dir : dir = <<"out", v>> /\ Exported(dir, depth_config, metadata)
  <2>1. \E v : ExportDir("out") = <<"out", v>>
    BY DEF ExportDir
  <2> QED
    BY <1>1, <2>1
<1> DEFINE before == Before(dir)
           tables == [before EXCEPT !.dataset = context.dataset, !.rosbag_uuid = context.rosbag_uuid,
                                    !.sources = @ \cup sources]
           c == Encoded(dir, BelowVideos)
           d == DepthPart(dir, depth_config)
           written == Over(d.written, c.written)
           registry == Over(d.registry, c.registry)
           b == bundles'[dir]
           converted == {[version |-> "2.0", doc |-> m, of |-> metadata.of, origin |-> metadata.origin] :
                           m \in into_v2_0(metadata)}
<1>3. /\ disk' = Over(d.written, Over(c.written, disk))
      /\ IF into_v2_0(metadata) = {}
         THEN /\ bundles' = Over(Only(dir, [tables EXCEPT !.torn = TRUE]), bundles)
              /\ context' = Context
         ELSE /\ bundles' = Over(Only(dir, [tables EXCEPT
                   !.topic_message_type_map = context.topic_message_type_map,
                   !.airoa_metadata = converted,
                   !.video_registry = IF registry = <<>> THEN @ ELSE registry,
                   !.torn = @ /\ registry = <<>>]), bundles)
              /\ context' = [context EXCEPT
                   !.video_registry = IF registry = <<>> THEN @ ELSE registry,
                   !.bundle_root = dir]
  BY <1>2 DEF Exported
<1>4. Folder(dir)
  <2>1. <<"out", v>> \in Seq({"out", v})
    OBVIOUS
  <2> QED
    BY <1>2, <2>1 DEF Folder
<1>5. Told(written, registry, dir)
  <2>1. /\ Told(c.written, c.registry, dir)
        /\ \A t \in DOMAIN c.registry : c.registry[t].path = <<"videos", t>>
    BY <1>4, ToldBelowVideos DEF TruthInv
  <2>2. /\ Told(d.written, d.registry, dir)
        /\ \A t \in DOMAIN d.registry : d.registry[t].path = <<"videos", t>>
    <3>1. CASE depth_config
      BY <3>1, ToldDepth DEF DepthPart
    <3>2. CASE ~depth_config
      BY <3>2 DEF Told, DepthPart
    <3> QED
      BY <3>1, <3>2
  <2> HIDE DEF c, d
  <2> QED
    BY <1>4, <2>1, <2>2, ToldTogether
<1>6. disk' = Over(written, disk)
  <2> HIDE DEF c, d
  <2> QED
    BY <1>3, OverOver
<1>7. DOMAIN before = BundleFields /\ "torn" \in BundleFields
  BY BeforeSound DEF BundleFields
<1>8. /\ before.torn \in BOOLEAN
      /\ before.torn <=> Torn(dir)
      /\ \A t \in DOMAIN before.video_registry : EntryTrue(t, before.video_registry[t])
  <2>1. CASE dir \in DOMAIN bundles
    BY <2>1 DEF Before, TruthInv, BundlesTrue, BundleTrue, Torn
  <2>2. CASE dir \notin DOMAIN bundles
    <3>1. before = NoBundle
      BY <2>2 DEF Before
    <3>2. NoBundle.torn = FALSE /\ DOMAIN NoBundle.video_registry = {}
      BY DEF NoBundle
    <3> QED
      BY <2>2, <3>1, <3>2 DEF Torn
  <2> QED
    BY <2>1, <2>2
<1> HIDE DEF c, d, before, written, registry, converted
<1>9. /\ DOMAIN bundles' = DOMAIN bundles \cup {dir}
      /\ \A o \in DOMAIN bundles : o # dir => bundles'[o] = bundles[o]
  BY <1>3 DEF Over, Only
<1>10. CASE into_v2_0(metadata) = {}
  <2>1. b = [tables EXCEPT !.torn = TRUE]
    BY <1>3, <1>10 DEF Over, Only
  <2>2. b.torn = TRUE /\ b.video_registry = before.video_registry
    BY <1>7, <2>1 DEF BundleFields
  <2> HIDE DEF b
  <2>3. Torn(dir)'
    BY <1>9, <2>2 DEF Torn, b
  <2>4. BundleTrue(dir)'
    <3>1. ASSUME NEW t \in DOMAIN before.video_registry, NEW a, a = before.video_registry[t]
          PROVE  EntryTrue(t, a)'
      <4>1. EntryTrue(t, a)
        BY <1>8, <3>1
      <4>2. a.root = dir
        BY <3>1, BeforeSound DEF before, Artifacts
      <4> QED
        BY <2>3, <4>1, <4>2 DEF EntryTrue
    <3> QED
      BY <2>2, <3>1 DEF BundleTrue, b
  <2>5. ASSUME NEW o \in DOMAIN bundles'
        PROVE  BundleTrue(o)'
    <3>1. CASE o = dir
      BY <2>4, <3>1
    <3>2. CASE o # dir
      BY <1>2, <1>5, <1>6, <1>9, <3>2, OtherBundlesTrue
    <3> QED
      BY <3>1, <3>2
  <2> QED
    BY <1>3, <1>10, <2>5, EmptyContextTrue DEF TruthInv, BundlesTrue
<1>11. CASE into_v2_0(metadata) # {}
  <2>1. b = [tables EXCEPT
              !.topic_message_type_map = context.topic_message_type_map,
              !.airoa_metadata = converted,
              !.video_registry = IF registry = <<>> THEN @ ELSE registry,
              !.torn = @ /\ registry = <<>>]
    BY <1>3, <1>11 DEF Over, Only
  <2>2. /\ b.torn = (before.torn /\ registry = <<>>)
        /\ b.video_registry = IF registry = <<>> THEN before.video_registry ELSE registry
    BY <1>7, <2>1 DEF BundleFields
  <2>3. /\ context'.image_data = context.image_data
        /\ context'.image_topic_shapes = context.image_topic_shapes
        /\ context'.video_registry = IF registry = <<>> THEN context.video_registry ELSE registry
        /\ context'.bundle_root = dir
    BY <1>3, <1>11, ContextFields DEF IInv, ContextSound
  <2> HIDE DEF b, tables
  <2>4. Torn(dir)' <=> Torn(dir) /\ registry = <<>>
    BY <1>8, <1>9, <2>2 DEF Torn, b
  <2>5. ASSUME registry # <<>>, NEW t \in DOMAIN registry, NEW a, a = registry[t]
        PROVE  EntryTrue(t, a)'
    <3>1. \A f \in DOMAIN written : f \in DOMAIN disk' /\ disk'[f] = written[f]
      BY <1>6 DEF Over
    <3> QED
      BY <1>4, <1>5, <2>5, <3>1 DEF Told, EntryTrue, TellsTheTruth
  <2>6. ASSUME registry = <<>>, NEW t, NEW a, EntryTrue(t, a)
        PROVE  EntryTrue(t, a)'
    <3>1. DOMAIN written = {}
      <4>1. DOMAIN registry = {}
        BY <2>6
      <4> QED
        BY <1>5, <4>1 DEF Told
    <3>2. \A f \in DOMAIN disk : f \in DOMAIN disk' /\ disk'[f] = disk[f]
      BY <1>6, <3>1 DEF Over
    <3>3. Torn(a.root) => Torn(a.root)'
      <4>1. CASE a.root = dir
        BY <2>4, <2>6, <4>1
      <4>2. CASE a.root # dir
        BY <1>9, <4>2 DEF Torn
      <4> QED
        BY <4>1, <4>2
    <3> QED
      BY <2>6, <3>2, <3>3, StillTrue
  <2>7. ASSUME NEW o \in DOMAIN bundles'
        PROVE  BundleTrue(o)'
    <3>1. CASE o = dir
      <4>1. b.torn \in BOOLEAN
        BY <1>8, <2>2
      <4>2. ASSUME NEW t \in DOMAIN b.video_registry, NEW a, a = b.video_registry[t]
            PROVE  EntryTrue(t, a)'
        BY <1>8, <2>2, <2>5, <2>6, <4>2
      <4> QED
        BY <3>1, <4>1, <4>2 DEF BundleTrue, b
    <3>2. CASE o # dir
      BY <1>2, <1>5, <1>6, <1>9, <3>2, OtherBundlesTrue
    <3> QED
      BY <3>1, <3>2
  <2>8. ASSUME NEW t \in DOMAIN context'.video_registry, NEW a, a = context'.video_registry[t]
        PROVE  EntryTrue(t, a)'
    BY <2>3, <2>5, <2>6, <2>8 DEF TruthInv, RegistryTrue
  <2>9. RegistryTrue'
    BY <2>8 DEF RegistryTrue
  <2>10. ShapesKnown' /\ RootKnown'
    BY <1>9, <2>3, ImagesKept DEF RootKnown
  <2> QED
    BY <2>7, <2>9, <2>10 DEF TruthInv, BundlesTrue
<1> QED
  BY <1>10, <1>11

LEMMA TruthStep == IInv /\ TruthInv /\ [SessionNext]_sessionVars => TruthInv'
<1> SUFFICES ASSUME IInv, TruthInv, [SessionNext]_sessionVars
             PROVE  TruthInv'
  OBVIOUS
<1>1. CASE SessionNext
  BY <1>1, OtherCallsTrue, SetImageDataTrue, IngestRosbagTrue, IngestBundleTrue, DecodeVideosTrue,
     TransformLeRobotTrue, EncodersTrue, ExportTrue DEF SessionNext, Scripted, Stages
<1>2. CASE UNCHANGED sessionVars
  <2>1. UNCHANGED <<context, disk, bundles>>
    BY <1>2 DEF sessionVars
  <2> QED
    BY <2>1, ImagesKept, RegistryKept
<1> QED
  BY <1>1, <1>2

(* Every video the registry has below the bundle root is there, of what and in
   the shape the registry says, however encoders, exports, decoders and bundles
   of the same or of other recordings follow each other.                        *)
THEOREM RegistryTellsTheTruthHolds == SessionSpec => []RegistryTellsTheTruth
<1>1. IInv /\ TruthInv => RegistryTellsTheTruth
  <2> SUFFICES ASSUME TruthInv PROVE RegistryTellsTheTruth
    OBVIOUS
  <2>1. context.bundle_root \in {<<>>} \cup DOMAIN bundles \cup {a.root : a \in Artifacts(context)}
    BY DEF TruthInv, RootKnown
  <2>2. ASSUME NEW a \in Artifacts(context), a.root = context.bundle_root,
               ~(a.root \in DOMAIN bundles /\ bundles[a.root].torn)
        PROVE  /\ resolve_path(a) \in DOMAIN disk /\ disk[resolve_path(a)].of = a.of
               /\ a.of # Script => disk[resolve_path(a)].shape = a.shape
    <3>1. PICK t \in DOMAIN context.video_registry : a = context.video_registry[t]
      BY <2>2 DEF Artifacts
    <3>2. TellsTheTruth(a)
      BY <2>2, <3>1 DEF TruthInv, RegistryTrue, EntryTrue, Torn
    <3> QED
      BY <2>2, <3>2 DEF TellsTheTruth, resolve_path
  <2> QED
    BY <2>1, <2>2 DEF RegistryTellsTheTruth, Artifacts
<1> QED
  BY InitInv, StepInv, TruthInit, TruthStep, <1>1, PTL DEF SessionSpec

(***************************************************************************)
(* The metadata.  First the conversion of the old version.                 *)
(***************************************************************************)
(* what the texts of the old version are *)
Document(d) ==
  /\ d.segments \in Seq(Range(d.segments)) /\ d.instructions \in Seq(Range(d.instructions))
  /\ \A s \in Range(d.segments) : s.is_composite \in BOOLEAN

LEMMA DocumentIs ==
  ASSUME NEW d, Document(d)
  PROVE  /\ Len(d.segments) \in Nat /\ DOMAIN d.segments = 1 .. Len(d.segments)
         /\ Len(d.instructions) \in Nat /\ DOMAIN d.instructions = 1 .. Len(d.instructions)
         /\ \A k \in DOMAIN d.segments : d.segments[k].is_composite \in BOOLEAN
<1>1. /\ Len(d.segments) \in Nat /\ DOMAIN d.segments = 1 .. Len(d.segments)
      /\ Len(d.instructions) \in Nat /\ DOMAIN d.instructions = 1 .. Len(d.instructions)
  BY DEF Document
<1>2. \A k \in DOMAIN d.segments : d.segments[k] \in Range(d.segments)
  BY DEF Range
<1> QED
  BY <1>1, <1>2 DEF Document

(* The element at the position k comes where as many come before it as are in K. *)
Rank(K, k) == Cardinality({j \in 1 .. k : j \in K})

LEMMA AmongAt ==
  ASSUME NEW s, NEW K, NEW n \in Nat, K \subseteq 1 .. n, NEW k \in K
  PROVE  Rank(K, k) \in DOMAIN Among(s, K) /\ Among(s, K)[Rank(K, k)] = s[k]
<1> DEFINE Upto(i) == {j \in K : j <= i}
           place == Cardinality(Upto(k))
<1>0. \A i \in K : i \in Nat /\ 1 <= i
  OBVIOUS
<1>1. IsFiniteSet(K)
  <2>1. IsFiniteSet(1 .. n)
    BY FS_Interval
  <2>2. K \in SUBSET (1 .. n)
    OBVIOUS
  <2> QED
    BY <2>1, <2>2, FS_Subset
<1>2. \A i \in K : /\ IsFiniteSet(Upto(i)) /\ Cardinality(Upto(i)) \in Nat
                   /\ Cardinality(Upto(i)) <= Cardinality(K)
  <2> SUFFICES ASSUME NEW i \in K
               PROVE  /\ IsFiniteSet(Upto(i)) /\ Cardinality(Upto(i)) \in Nat
                      /\ Cardinality(Upto(i)) <= Cardinality(K)
    OBVIOUS
  <2>1. Upto(i) \in SUBSET K
    OBVIOUS
  <2> HIDE DEF Upto
  <2> QED
    BY <1>1, <2>1, FS_Subset, FS_CardinalityType
<1>3. ASSUME NEW i \in K, NEW l \in K, i < l
      PROVE  Cardinality(Upto(i)) # Cardinality(Upto(l))
  <2>1. l \in Upto(l) /\ l \notin Upto(i)
    BY <1>0, <1>3
  <2>2. ASSUME NEW j \in K, j <= i
        PROVE  j <= l
    <3>1. i \in Nat /\ l \in Nat /\ j \in Nat
      BY <1>0
    <3> QED
      BY <1>3, <2>2, <3>1
  <2>3. Upto(i) \in SUBSET Upto(l)
    BY <2>2
  <2> HIDE DEF Upto
  <2> QED
    BY <1>2, <2>1, <2>3, FS_Subset
<1>4. place # 0
  <2>1. k \in Upto(k)
    BY <1>0
  <2> HIDE DEF Upto
  <2> QED
    BY <1>2, <2>1, FS_EmptySet
<1>5. \A i \in K : Cardinality(Upto(i)) = place => i = k
  <2> SUFFICES ASSUME NEW i \in K, Cardinality(Upto(i)) = place PROVE i = k
    OBVIOUS
  <2>1. i \in Nat /\ k \in Nat
    BY <1>0
  <2>2. ~(i < k) /\ ~(k < i)
    BY <1>3
  <2> QED
    BY <2>1, <2>2
<1>6. (CHOOSE i \in K : Cardinality({j \in K : j <= i}) = place) = k
  <2>1. \A i \in K : Cardinality({j \in K : j <= i}) = place <=> i = k
    BY <1>5
  <2> HIDE DEF place
  <2> QED
    BY <2>1
<1>7. Upto(k) = {j \in 1 .. k : j \in K}
  <2>1. \A j \in K : j <= k <=> j \in 1 .. k
    BY <1>0
  <2> QED
    BY <2>1
<1>8. Cardinality(K) \in Nat
  BY <1>1, FS_CardinalityType
<1> HIDE DEF Upto
<1>9. place \in 1 .. Cardinality(K)
  BY <1>2, <1>4, <1>8
<1> HIDE DEF place
<1>10. DOMAIN Among(s, K) = 1 .. Cardinality(K) /\ Among(s, K)[place] = s[k]
  BY <1>6, <1>9 DEF Among
<1> QED
  BY <1>7, <1>9, <1>10 DEF place, Rank

LEMMA OneOrTwo ==
  ASSUME NEW S, IsFiniteSet(S), S \subseteq Nat, S # {}
  PROVE  /\ Cardinality(S) <= 1 => \A k \in S : S = {k} /\ First(S) = k
         /\ Cardinality(S) = 2 => First(S) \in S /\ Latest(S) \in S /\ First(S) # Latest(S)
<1>1. PICK x : x \in S
  OBVIOUS
<1>2. /\ IsFiniteSet(S \ {x}) /\ Cardinality(S \ {x}) = Cardinality(S) - 1
      /\ Cardinality(S) \in Nat /\ Cardinality(S \ {x}) \in Nat
  BY <1>1, FS_RemoveElement, FS_CardinalityType
<1>3. ASSUME Cardinality(S) <= 1, NEW k \in S
      PROVE  S = {k} /\ First(S) = k
  <2>1. Cardinality(S \ {x}) = 0
    BY <1>2, <1>3
  <2>2. S \ {x} = {}
    BY <1>2, <2>1, FS_EmptySet
  <2>3. S = {k} /\ k \in Nat
    BY <1>1, <1>3, <2>2
  <2>4. First({k}) = k
    BY <2>3 DEF First
  <2> QED
    BY <2>3, <2>4
<1>4. ASSUME Cardinality(S) = 2
      PROVE  First(S) \in S /\ Latest(S) \in S /\ First(S) # Latest(S)
  <2>1. Cardinality(S \ {x}) = 1
    BY <1>2, <1>4
  <2>2. PICK y : S \ {x} = {y}
    BY <1>2, <2>1, FS_Singleton
  <2>3. S = {x, y} /\ x # y /\ x \in Nat /\ y \in Nat
    BY <1>1, <2>2
  <2>4. PICK lo \in S, hi \in S : S = {lo, hi} /\ lo < hi /\ lo \in Nat /\ hi \in Nat
    BY <2>3
  <2>5. First(S) = lo
    BY <2>4 DEF First
  <2>6. Latest(S) = hi
    BY SMTT(30), <2>4 DEF Latest
  <2> QED
    BY <2>4, <2>5, <2>6
<1> QED
  BY <1>3, <1>4

(* Converted, a document says of every segment what it said before. *)
LEMMA ConversionSound ==
  ASSUME NEW d, Document(d), Convertible(d)
  PROVE  SaysTheSame(d, try_from(d))
<1> DEFINE m == try_from(d)
           n == Len(d.segments)
           R == {k \in DOMAIN d.segments : ~d.segments[k].is_composite}
           C == {k \in DOMAIN d.segments : d.segments[k].is_composite}
           Place_(k) == Cardinality({j \in 1..k : ~d.segments[j].is_composite})
           Label(k) == IF d.segments[k].is_composite THEN m.episode.label
                       ELSE m.labels[m.segments[Place_(k)].label_idx + 1]
           shown == {k \in DOMAIN d.segments : d.segments[k].is_composite =>
                        \A j \in 1..(k - 1) : ~d.segments[j].is_composite}
           Idx(k) == d.segments[k].instruction_idx
           f == [k \in shown |-> IF d.segments[k].is_composite THEN EpisodeInstruction(d)
                                 ELSE First(At(d, Idx(k)))]
<1>1. /\ n \in Nat /\ DOMAIN d.segments = 1 .. n
      /\ DOMAIN d.instructions \subseteq Nat /\ IsFiniteSet(DOMAIN d.instructions)
  <2>1. /\ Len(d.segments) \in Nat /\ DOMAIN d.segments = 1 .. Len(d.segments)
        /\ Len(d.instructions) \in Nat /\ DOMAIN d.instructions = 1 .. Len(d.instructions)
    BY DocumentIs
  <2> HIDE DEF m, R, C, shown, f
  <2>2. \A l \in Nat : IsFiniteSet(1 .. l) /\ 1 .. l \subseteq Nat
    BY FS_Interval
  <2> QED
    BY <2>1, <2>2
<1>13. /\ R \subseteq 1 .. n /\ C \subseteq 1 .. n
       /\ \A k \in shown : k \in 1 .. n
       /\ \A k \in R : ~d.segments[k].is_composite
       /\ \A k \in C : d.segments[k].is_composite
       /\ \A k \in 1 .. n : k \in R \/ k \in C
       /\ \A k \in shown : k \in C => \A j \in 1 .. k - 1 : j \notin C
  BY <1>1
<1>14. \A k : Place_(k) = Cardinality({j \in 1 .. k : ~d.segments[j].is_composite})
  OBVIOUS
<1>15. \A k \in shown : f[k] = IF d.segments[k].is_composite THEN EpisodeInstruction(d)
                                ELSE First(At(d, Idx(k)))
  OBVIOUS
<1>16. NonComposite(d) = Among(d.segments, R) /\ Composite(d) = Among(d.segments, C)
  BY DEF NonComposite, Composite
<1>17. f = [k \in shown |-> f[k]]
  OBVIOUS
<1>18. \A k : Label(k) = IF d.segments[k].is_composite THEN m.episode.label
                         ELSE m.labels[m.segments[Place_(k)].label_idx + 1]
  OBVIOUS
<1>2. \A i : /\ IsFiniteSet(At(d, i)) /\ At(d, i) \subseteq Nat /\ At(d, i) \subseteq DOMAIN d.instructions
             /\ \A k \in At(d, i) : d.instructions[k].idx = i
  <2> SUFFICES ASSUME NEW i
               PROVE  /\ IsFiniteSet(At(d, i)) /\ At(d, i) \subseteq Nat
                      /\ At(d, i) \subseteq DOMAIN d.instructions
                      /\ \A k \in At(d, i) : d.instructions[k].idx = i
    OBVIOUS
  <2>1. At(d, i) \in SUBSET (DOMAIN d.instructions) /\ \A k \in At(d, i) : d.instructions[k].idx = i
    BY DEF At
  <2> QED
    BY <1>1, <2>1, FS_Subset
(* There is one instruction for a number, or there are two and it is that of the episode. *)
<1>3. ASSUME NEW i, At(d, i) # {}
      PROVE  \/ Cardinality(At(d, i)) <= 1 /\ i \notin allowed_composite_duplicate_instruction_idx(d)
             \/ Cardinality(At(d, i)) = 2 /\ i \in allowed_composite_duplicate_instruction_idx(d)
  <2>1. Cardinality(At(d, i)) \in Nat
    BY <1>2, FS_CardinalityType
  <2>2. CASE i \in allowed_composite_duplicate_instruction_idx(d)
    BY <2>2 DEF allowed_composite_duplicate_instruction_idx
  <2>3. CASE i \notin allowed_composite_duplicate_instruction_idx(d)
    <3>1. i \notin Duplicated(d)
      BY <2>3 DEF Convertible
    <3>2. i \in {d.instructions[k].idx : k \in DOMAIN d.instructions}
      BY <1>2, <1>3
    <3> QED
      BY <2>1, <2>3, <3>1, <3>2 DEF Duplicated
  <2> QED
    BY <2>2, <2>3
<1>4. ASSUME NEW k \in R
      PROVE  /\ At(d, Idx(k)) # {} /\ First(At(d, Idx(k))) \in At(d, Idx(k))
             /\ m.segments[Place_(k)].label_idx = First(At(d, Idx(k))) - 1
  <2>1. {j \in 1..k : ~d.segments[j].is_composite} = {j \in 1..k : j \in R}
    <3>1. \A j \in 1 .. k : j \in 1 .. n
      BY <1>1, <1>4, <1>13
    <3> HIDE DEF R, C, shown, n
    <3> QED
      BY <1>13, <3>1
  <2>2. /\ Place_(k) \in DOMAIN NonComposite(d) /\ NonComposite(d)[Place_(k)] = d.segments[k]
    <3> HIDE DEF R, n, Place_, m, Label, f, shown, Idx, C
    <3>1. Place_(k) = Cardinality({j \in 1..k : j \in R})
      BY <1>14, <2>1
    <3>2. k \in R /\ R \subseteq 1 .. n /\ n \in Nat
      BY <1>1, <1>4, <1>13
    <3>3. Rank(R, k) \in DOMAIN Among(d.segments, R) /\ Among(d.segments, R)[Rank(R, k)] = d.segments[k]
      BY <3>2, AmongAt
    <3> QED
      BY <1>16, <3>1, <3>3 DEF Rank
  <2> HIDE DEF Place_
  <2>3. At(d, Idx(k)) # {}
    BY <2>2 DEF Convertible
  <2>4. First(At(d, Idx(k))) \in At(d, Idx(k))
    BY <1>2, <1>3, <2>3, OneOrTwo
  <2>5. m.segments[Place_(k)].label_idx = LabelIdx(d, Idx(k))
    BY <2>2 DEF try_from
  <2> QED
    BY <2>3, <2>4, <2>5 DEF LabelIdx
<1>5. ASSUME NEW k \in C, k \in shown
      PROVE  /\ EpisodeInstruction(d) \in At(d, Idx(k))
             /\ Cardinality(At(d, Idx(k))) <= 1 \/ EpisodeInstruction(d) # First(At(d, Idx(k)))
             /\ m.episode.label = Head(d.instructions[EpisodeInstruction(d)].text)
  <2>2. {j \in 1..k : j \in C} = {k}
    <3>1. k \in 1 .. n
      BY <1>5, <1>13
    <3>2. \A j \in 1 .. k : j = k \/ j \in 1 .. k - 1
      BY <1>1, <3>1
    <3>3. k \in 1 .. k
      BY <1>1, <3>1
    <3> HIDE DEF R, C, shown, n
    <3> QED
      BY <1>5, <1>13, <3>2, <3>3
  <2>3. Cardinality({k}) = 1
    BY FS_Singleton
  <2>4. /\ 1 \in DOMAIN Composite(d) /\ Composite(d)[1] = d.segments[k]
    <3> HIDE DEF R, n, Place_, m, Label, f, shown, Idx, C
    <3>1. 1 = Cardinality({j \in 1..k : j \in C})
      BY <2>2, <2>3
    <3>2. k \in C /\ C \subseteq 1 .. n /\ n \in Nat
      BY <1>1, <1>5, <1>13
    <3>3. Rank(C, k) \in DOMAIN Among(d.segments, C) /\ Among(d.segments, C)[Rank(C, k)] = d.segments[k]
      BY <3>2, AmongAt
    <3> QED
      BY <1>16, <3>1, <3>3 DEF Rank
  <2>5. Composite(d) # <<>> /\ Head(Composite(d)) = d.segments[k]
    <3>1. Composite(d) = [i \in 1 .. Cardinality(C) |-> Composite(d)[i]]
      BY <1>16 DEF Among
    <3>2. IsFiniteSet(C)
      <4>1. IsFiniteSet(1 .. n)
        BY <1>1, FS_Interval
      <4> HIDE DEF C, n
      <4> QED
        BY <1>13, <4>1, FS_Subset
    <3>3. Cardinality(C) \in Nat
      BY <3>2, FS_CardinalityType
    <3> DEFINE s == Composite(d)
               S == {s[i] : i \in 1 .. Cardinality(C)}
    <3>4. s \in Seq(S)
      <4> HIDE DEF s, C
      <4> QED
        BY <3>1, <3>3 DEF s
    <3> HIDE DEF s, S
    <3>5. s # <<>> /\ Head(s) = s[1]
      BY <2>4, <3>4 DEF s
    <3> QED
      BY <2>4, <3>5 DEF s
  <2>6. At(d, Idx(k)) # {}
    BY <2>5 DEF Convertible
  <2>7. EpisodeInstruction(d) = IF Idx(k) \in allowed_composite_duplicate_instruction_idx(d)
                                THEN Latest(At(d, Idx(k))) ELSE First(At(d, Idx(k)))
    BY <2>5 DEF EpisodeInstruction
  <2>8. EpisodeInstruction(d) \in At(d, Idx(k)) /\
        (Cardinality(At(d, Idx(k))) <= 1 \/ EpisodeInstruction(d) # First(At(d, Idx(k))))
    BY <1>2, <1>3, <2>6, <2>7, OneOrTwo
  <2>9. m.episode.label = Head(d.instructions[EpisodeInstruction(d)].text)
    BY <2>5 DEF try_from, EpisodeOf, Episode
  <2> QED
    BY <2>8, <2>9
<1>7. \A k \in DOMAIN d.instructions : m.labels[k] = Head(d.instructions[k].text)
  BY DEF try_from
<1> HIDE DEF R, n, Place_, m, Label, f, shown, Idx, C
<1>6. \A k \in shown : k \in R \/ k \in C
  BY <1>13
<1>8. ASSUME NEW k \in shown
      PROVE  /\ f[k] \in At(d, Idx(k))
             /\ Label(k) = Head(d.instructions[f[k]].text)
  <2>1. CASE k \in C
    <3>1. f[k] = EpisodeInstruction(d) /\ Label(k) = m.episode.label
      BY <1>8, <1>13, <1>15, <1>18, <2>1
    <3> QED
      BY <1>5, <1>8, <2>1, <3>1
  <2>2. CASE k \in R
    <3>1. f[k] = First(At(d, Idx(k))) /\ Label(k) = m.labels[m.segments[Place_(k)].label_idx + 1]
      BY <1>8, <1>13, <1>15, <1>18, <2>2
    <3> DEFINE i == First(At(d, Idx(k)))
    <3>2. i \in At(d, Idx(k)) /\ m.segments[Place_(k)].label_idx = i - 1
      BY <1>4, <2>2
    <3>3. i \in Nat /\ i \in DOMAIN d.instructions
      BY <1>2, <3>2
    <3> HIDE DEF i
    <3>4. m.segments[Place_(k)].label_idx + 1 = i
      BY <3>2, <3>3
    <3> QED
      BY <1>7, <3>1, <3>2, <3>3, <3>4 DEF i
  <2> QED
    BY <1>6, <1>8, <2>1, <2>2
<1>9. ASSUME NEW k \in shown, NEW j \in shown, f[j] = f[k]
      PROVE  \/ d.segments[j].is_composite = d.segments[k].is_composite
             \/ At(d, Idx(k)) = {f[k]}
  <2>1. Idx(j) = Idx(k)
    <3>1. f[j] \in At(d, Idx(j)) /\ f[j] \in At(d, Idx(k))
      BY <1>8, <1>9
    <3> QED
      BY <1>2, <3>1
  <2>2. ASSUME NEW c \in C, NEW r \in R, c \in shown, r \in shown, Idx(c) = Idx(r), f[c] = f[r]
        PROVE  At(d, Idx(c)) = {f[c]}
    <3>1. f[c] = EpisodeInstruction(d) /\ f[r] = First(At(d, Idx(r)))
      BY <1>13, <1>15, <2>2
    <3>2. Cardinality(At(d, Idx(c))) <= 1 /\ f[c] \in At(d, Idx(c))
      BY <1>5, <2>2, <3>1
    <3> QED
      BY <1>2, <3>2, OneOrTwo
  <2>3. CASE j \in C /\ k \in R
    <3>1. At(d, Idx(j)) = {f[j]}
      BY <1>9, <2>1, <2>2, <2>3
    <3> QED
      BY <1>9, <2>1, <3>1
  <2>4. CASE j \in R /\ k \in C
    <3>1. At(d, Idx(k)) = {f[k]}
      BY <1>9, <2>1, <2>2, <2>4
    <3> QED
      BY <3>1
  <2>5. CASE (j \in C /\ k \in C) \/ (j \in R /\ k \in R)
    <3>1. d.segments[j].is_composite \in BOOLEAN /\ d.segments[k].is_composite \in BOOLEAN
      BY <1>1, <1>9, <1>13, DocumentIs
    <3>2. d.segments[j].is_composite <=> d.segments[k].is_composite
      BY <1>13, <2>5
    <3> QED
      BY <3>1, <3>2
  <2>6. (k \in R \/ k \in C) /\ (j \in R \/ j \in C)
    BY <1>6, <1>9
  <2> QED
    BY <2>3, <2>4, <2>5, <2>6
<1>10. f \in [shown -> DOMAIN d.instructions]
  <2>1. \A k \in shown : f[k] \in DOMAIN d.instructions
    BY <1>2, <1>8
  <2> QED
    BY <1>17, <2>1
<1>11. \A k \in shown : d.instructions[f[k]].idx = Idx(k)
  BY <1>2, <1>8
<1>12. \E g \in [shown -> DOMAIN d.instructions] :
         \A k \in shown :
           /\ d.instructions[g[k]].idx = Idx(k)
           /\ Label(k) = Head(d.instructions[g[k]].text)
           /\ \A j \in shown : g[j] = g[k] =>
                \/ d.segments[j].is_composite = d.segments[k].is_composite
                \/ At(d, Idx(k)) = {g[k]}
  BY <1>8, <1>9, <1>10, <1>11
<1> QED
  BY <1>12 DEF SaysTheSame, R, n, Place_, m, Label, shown, Idx

(***************************************************************************)
(* Then where metadata comes from, and goes.                               *)
(***************************************************************************)
(* What is in the context or in a bundle is as it was read, and was looked at if
   the script gave it in the new version, or it is the old version converted.  *)
Faithful(m) ==
  /\ m.version \in {"1.3", "2.0"}
  /\ m.origin.version = "1.3" => Document(m.origin.doc)
  /\ IF m.version = m.origin.version
     THEN m.doc = m.origin.doc /\ (m.of = Script /\ m.version = "2.0" => validate_metadata(m.doc))
     ELSE /\ m.version = "2.0" /\ m.origin.version = "1.3"
          /\ Convertible(m.origin.doc) /\ m.doc = try_from(m.origin.doc)

AllFaithful(S) == \A m \in S : Faithful(m)

SoundInv ==
  /\ AllFaithful(context.airoa_metadata)
  /\ \A dir \in DOMAIN bundles : AllFaithful(bundles[dir].airoa_metadata)

(* what is read is in one of the two versions, the old one as it is written down *)
LEMMA ReadIsKept ==
  ASSUME NEW text \in Texts \cup {b.text : b \in Rosbags}, NEW m \in parse_metadata(text), NEW owner,
         owner = Script /\ m.version = "2.0" => validate_metadata(m.doc)
  PROVE  Faithful(Owned(m, owner))
<1>1. m.version \in {"1.3", "2.0"}
  BY DEF parse_metadata, detect_version
<1>2. m.version = "1.3" => Document(m.doc)
  BY SessionAssumption DEF Document
<1>3. /\ Owned(m, owner).version = m.version /\ Owned(m, owner).doc = m.doc
      /\ Owned(m, owner).of = owner /\ Owned(m, owner).origin = m
  BY DEF Owned
<1> HIDE DEF Owned
<1> QED
  BY <1>1, <1>2, <1>3 DEF Faithful

(* and what is converted was the old version, or is left as it was *)
LEMMA ConvertedIsKept ==
  ASSUME NEW metadata, Faithful(metadata), NEW m \in into_v2_0(metadata),
         NEW n, n = [version |-> "2.0", doc |-> m, of |-> metadata.of, origin |-> metadata.origin]
  PROVE  Faithful(n)
<1>1. /\ n.version = "2.0" /\ n.doc = m /\ n.of = metadata.of /\ n.origin = metadata.origin
  OBVIOUS
<1>2. CASE metadata.version = "2.0"
  <2>1. m = metadata.doc
    BY <1>2 DEF into_v2_0
  <2> QED
    BY <1>1, <1>2, <2>1 DEF Faithful
<1>3. CASE metadata.version = "1.3"
  <2>1. Convertible(metadata.doc) /\ m = try_from(metadata.doc)
    BY <1>3 DEF into_v2_0
  <2>2. metadata.origin.version = "1.3" /\ metadata.doc = metadata.origin.doc
    BY <1>3 DEF Faithful
  <2> QED
    BY <1>1, <2>1, <2>2 DEF Faithful
<1> QED
  BY <1>2, <1>3 DEF Faithful

LEMMA SoundInit == SessionInit => SoundInv
<1> SUFFICES ASSUME SessionInit
             PROVE  SoundInv
  OBVIOUS
<1>1. context.airoa_metadata = {} /\ DOMAIN bundles = {}
  BY DEF SessionInit, Context
<1> QED
  BY <1>1 DEF SoundInv, AllFaithful

(* the calls that leave the metadata alone, or let it go *)
LEMMA OtherCallsKeep ==
  ASSUME IInv, SoundInv,
         \/ NewMetadata \/ ChangeMetadata \/ MetadataFromJson
         \/ SetRecordBatch \/ SetImageData \/ SetVideoCacheDir \/ SetBundleRoot \/ NewContext
         \/ EnrichUuid \/ EncodeVideos \/ EncodeDepthVideos \/ DecodeVideos
         \/ TransformLeRobot \/ StageRaises
  PROVE  SoundInv'
<1>1. UNCHANGED bundles
  BY DEF NewMetadata, ChangeMetadata, MetadataFromJson, SetRecordBatch, SetImageData,
         SetVideoCacheDir, SetBundleRoot, NewContext, EnrichUuid, EncodeVideos,
         EncodeDepthVideos, DecodeVideos, TransformLeRobot, StageRaises
<1>2. context'.airoa_metadata \in {context.airoa_metadata, {}}
  <2>1. DOMAIN context = DOMAIN Context
    BY DEF IInv, ContextSound
  <2>2. CASE NewMetadata \/ ChangeMetadata \/ MetadataFromJson
    BY <2>2 DEF NewMetadata, ChangeMetadata, MetadataFromJson
  <2>3. CASE SetRecordBatch \/ SetImageData
    BY <2>1, <2>3, ContextFields DEF SetRecordBatch, SetImageData, PutIn
  <2>4. CASE SetVideoCacheDir \/ SetBundleRoot \/ EnrichUuid
    BY <2>1, <2>4, ContextFields DEF SetVideoCacheDir, SetBundleRoot, EnrichUuid
  <2>5. CASE EncodeVideos \/ EncodeDepthVideos
    <3>1. \/ context' = [context EXCEPT !.video_cache_dir = cache_dir]
          \/ \E e : context' = Moved(context, e)
      BY <2>5 DEF EncodeVideos, EncodeDepthVideos
    <3> QED
      BY <2>1, <3>1, ContextFields DEF Moved
  <2>6. CASE DecodeVideos
    BY <2>1, <2>6, ContextFields DEF DecodeVideos
  <2>7. CASE TransformLeRobot
    BY <2>1, <2>7, ContextFields DEF TransformLeRobot, Populated
  <2>8. CASE NewContext \/ StageRaises
    BY <2>8 DEF NewContext, StageRaises, Context
  <2> QED
    BY <2>2, <2>3, <2>4, <2>5, <2>6, <2>7, <2>8
<1> QED
  BY <1>1, <1>2 DEF SoundInv, AllFaithful

(* metadata of the script's own *)
LEMMA SetMetadataKeeps ==
  ASSUME IInv, SoundInv, SetAiroaMetadata \/ SetAiroaMetadataJson
  PROVE  SoundInv'
<1>1. UNCHANGED bundles
  BY DEF SetAiroaMetadata, SetAiroaMetadataJson
<1>2. PICK m : Faithful(Owned(m, Script)) /\ context' = [context EXCEPT !.airoa_metadata = {Owned(m, Script)}]
  <2>1. CASE SetAiroaMetadata
    <3>1. PICK h \in handle : /\ validate_metadata(h)
                              /\ context' = [context EXCEPT !.airoa_metadata = {Owned(V2_0(h), Script)}]
      BY <2>1 DEF SetAiroaMetadata, PutIn
    <3>2. /\ Owned(V2_0(h), Script).version = "2.0" /\ Owned(V2_0(h), Script).doc = h
          /\ Owned(V2_0(h), Script).origin.version = "2.0" /\ Owned(V2_0(h), Script).origin.doc = h
      BY DEF Owned, V2_0
    <3>3. Faithful(Owned(V2_0(h), Script))
      <4> HIDE DEF Owned
      <4> QED
        BY <3>1, <3>2 DEF Faithful
    <3> QED
      BY <3>1, <3>3
  <2>2. CASE SetAiroaMetadataJson
    <3>1. PICK text \in Texts : \E m \in parse_metadata(text) :
            /\ m.version = "2.0" => validate_metadata(m.doc)
            /\ context' = [context EXCEPT !.airoa_metadata = {Owned(m, Script)}]
      BY <2>2 DEF SetAiroaMetadataJson, PutIn
    <3>2. PICK m \in parse_metadata(text) :
            /\ m.version = "2.0" => validate_metadata(m.doc)
            /\ context' = [context EXCEPT !.airoa_metadata = {Owned(m, Script)}]
      BY <3>1
    <3>3. Faithful(Owned(m, Script))
      BY <3>2, ReadIsKept
    <3> QED
      BY <3>2, <3>3
  <2> QED
    BY <2>1, <2>2
<1>3. context'.airoa_metadata = {Owned(m, Script)}
  BY <1>2, ContextFields DEF IInv, ContextSound
<1> QED
  BY <1>1, <1>2, <1>3 DEF SoundInv, AllFaithful

LEMMA IngestRosbagKeeps ==
  ASSUME IInv, SoundInv, IngestRosbag
  PROVE  SoundInv'
<1>1. UNCHANGED bundles
  BY DEF IngestRosbag
<1>2. PICK b \in Rosbags, require_metadata \in BOOLEAN :
        context' = [context EXCEPT
          !.dataset = {b.name}, !.rosbag_uuid = {},
          !.image_data = IF b.color = 0 THEN @ ELSE Only(Color, [of |-> b.name, shape |-> b.color]),
          !.image_topic_shapes = IF b.color = 0 THEN @ ELSE Only(Color, b.color),
          !.depth_data = IF b.depth THEN {b.name} ELSE @,
          !.rosbag_path = {b.name},
          !.topic_message_type_map = {b.name},
          !.airoa_metadata = IF require_metadata
            THEN {Owned(m, b.name) : m \in parse_metadata(b.text)}
            ELSE @]
  BY DEF IngestRosbag
<1> DEFINE owned == {Owned(m, b.name) : m \in parse_metadata(b.text)}
<1>3. AllFaithful(owned)
  <2>1. b.text \in {c.text : c \in Rosbags} /\ b.name # Script
    BY SessionAssumption DEF Script
  <2>2. \A m \in parse_metadata(b.text) : Faithful(Owned(m, b.name))
    BY <2>1, ReadIsKept
  <2> QED
    BY <2>2 DEF AllFaithful
<1>4. context'.airoa_metadata \in {owned, context.airoa_metadata}
  BY <1>2, ContextFields DEF IInv, ContextSound
<1> HIDE DEF owned
<1> QED
  BY <1>1, <1>3, <1>4 DEF SoundInv

LEMMA IngestBundleKeeps ==
  ASSUME IInv, SoundInv, IngestBundle
  PROVE  SoundInv'
<1>1. UNCHANGED bundles
  BY DEF IngestBundle
<1>2. PICK dir \in DOMAIN bundles :
        LET b == bundles[dir]
            c == [context EXCEPT
                    !.bundle_root = dir, !.dataset = b.dataset, !.rosbag_uuid = b.rosbag_uuid,
                    !.topic_message_type_map = b.topic_message_type_map, !.airoa_metadata = b.airoa_metadata]
        IN  context' = IF b.video_registry = <<>> THEN c
                       ELSE Populated([c EXCEPT !.video_registry = b.video_registry])
  BY DEF IngestBundle
<1>3. context'.airoa_metadata = bundles[dir].airoa_metadata
  <2>1. CASE bundles[dir].video_registry = <<>>
    BY <1>2, <2>1, ContextFields DEF IInv, ContextSound
  <2>2. CASE bundles[dir].video_registry # <<>>
    BY <1>2, <2>2, ContextFields DEF IInv, ContextSound, Populated
  <2> QED
    BY <2>1, <2>2
<1> QED
  BY <1>1, <1>2, <1>3 DEF SoundInv

(* What is exported is in the new version; a bundle whose export failed keeps
   the metadata it had.                                                      *)
LEMMA ExportKeeps ==
  ASSUME IInv, SoundInv, Export
  PROVE  SoundInv'
<1>0. PICK depth_config \in BOOLEAN, metadata \in context.airoa_metadata :
        Exported(ExportDir("out"), depth_config, metadata)
  BY DEF Export, Exported, DepthPart, Before, NoBundle
<1>1. PICK dir : Exported(dir, depth_config, metadata)
  BY <1>0
<1> DEFINE before == Before(dir)
           tables == [before EXCEPT !.dataset = context.dataset, !.rosbag_uuid = context.rosbag_uuid,
                                    !.sources = @ \cup sources]
           c == Encoded(dir, BelowVideos)
           d == DepthPart(dir, depth_config)
           registry == Over(d.registry, c.registry)
           b == bundles'[dir]
           converted == {[version |-> "2.0", doc |-> m, of |-> metadata.of, origin |-> metadata.origin] :
                           m \in into_v2_0(metadata)}
<1>2. IF into_v2_0(metadata) = {}
      THEN /\ bundles' = Over(Only(dir, [tables EXCEPT !.torn = TRUE]), bundles)
           /\ context' = Context
      ELSE /\ bundles' = Over(Only(dir, [tables EXCEPT
                !.topic_message_type_map = context.topic_message_type_map,
                !.airoa_metadata = converted,
                !.video_registry = IF registry = <<>> THEN @ ELSE registry,
                !.torn = @ /\ registry = <<>>]), bundles)
           /\ context' = [context EXCEPT
                !.video_registry = IF registry = <<>> THEN @ ELSE registry,
                !.bundle_root = dir]
  BY <1>1 DEF Exported
<1>3. DOMAIN before = BundleFields
  BY BeforeSound
<1>4. AllFaithful(before.airoa_metadata)
  BY DEF Before, NoBundle, SoundInv, AllFaithful
<1>5. AllFaithful(converted)
  <2>1. Faithful(metadata)
    BY DEF SoundInv, AllFaithful
  <2> QED
    BY <2>1, ConvertedIsKept DEF AllFaithful
<1> HIDE DEF before, registry, converted
<1>6. /\ DOMAIN bundles' = DOMAIN bundles \cup {dir}
      /\ \A o \in DOMAIN bundles : o # dir => bundles'[o] = bundles[o]
  BY <1>2 DEF Over, Only
<1>7. b.airoa_metadata \in {before.airoa_metadata, converted}
  <2>1. CASE into_v2_0(metadata) = {}
    <3>1. b = [tables EXCEPT !.torn = TRUE]
      BY <1>2, <2>1 DEF Over, Only
    <3> QED
      BY <1>3, <3>1 DEF BundleFields
  <2>2. CASE into_v2_0(metadata) # {}
    <3>1. b = [tables EXCEPT
                !.topic_message_type_map = context.topic_message_type_map,
                !.airoa_metadata = converted,
                !.video_registry = IF registry = <<>> THEN @ ELSE registry,
                !.torn = @ /\ registry = <<>>]
      BY <1>2, <2>2 DEF Over, Only
    <3> QED
      BY <1>3, <3>1 DEF BundleFields
  <2> QED
    BY <2>1, <2>2
<1>8. context'.airoa_metadata \in {context.airoa_metadata, {}}
  <2>1. CASE into_v2_0(metadata) = {}
    BY <1>2, <2>1 DEF Context
  <2>2. CASE into_v2_0(metadata) # {}
    BY <1>2, <2>2, ContextFields DEF IInv, ContextSound
  <2> QED
    BY <2>1, <2>2
<1> HIDE DEF b
<1>9. ASSUME NEW o \in DOMAIN bundles'
      PROVE  AllFaithful(bundles'[o].airoa_metadata)
  <2>1. CASE o = dir
    <3>1. bundles'[o] = b
      BY <2>1 DEF b
    <3> QED
      BY <1>4, <1>5, <1>7, <3>1
  <2>2. CASE o # dir
    BY <1>6, <2>2 DEF SoundInv
  <2> QED
    BY <2>1, <2>2
<1>10. AllFaithful(context'.airoa_metadata)
  BY <1>8 DEF SoundInv, AllFaithful
<1> QED
  BY <1>9, <1>10 DEF SoundInv

LEMMA SoundStep == IInv /\ SoundInv /\ [SessionNext]_sessionVars => SoundInv'
<1> SUFFICES ASSUME IInv, SoundInv, [SessionNext]_sessionVars
             PROVE  SoundInv'
  OBVIOUS
<1>1. CASE SessionNext
  BY <1>1, OtherCallsKeep, SetMetadataKeeps, IngestRosbagKeeps, IngestBundleKeeps, ExportKeeps
     DEF SessionNext, Scripted, Stages
<1>2. CASE UNCHANGED sessionVars
  BY <1>2 DEF sessionVars, SoundInv
<1> QED
  BY <1>1, <1>2

(* What the script gave in the new version still names its recording, its files,
   its programs and its episode, through every stage and every bundle, whatever
   it did to the object since; and for any document of the old version that the
   conversion accepts, each segment and the episode have the label they had.    *)
THEOREM MetadataIsSoundHolds == SessionSpec => []MetadataIsSound
<1>1. SoundInv => MetadataIsSound
  <2> SUFFICES ASSUME SoundInv,
                      NEW m \in UNION {c.airoa_metadata : c \in {context} \cup {bundles[dir] : dir \in DOMAIN bundles}}
               PROVE  IF m.version # m.origin.version THEN SaysTheSame(m.origin.doc, m.doc)
                      ELSE m.of = Script /\ m.version = "2.0" =>
                        LET d == m.doc
                            texts == {d.uuid, d.episode.label} \cup {d.files[k].name : k \in DOMAIN d.files}
                                     \cup UNION {{d.programs[k].role, d.programs[k].name} : k \in DOMAIN d.programs}
                        IN  "" \notin texts /\ d.files # <<>> /\ d.programs # <<>>
    BY DEF MetadataIsSound
  <2>1. Faithful(m)
    BY DEF SoundInv, AllFaithful
  <2>2. CASE m.version # m.origin.version
    <3>1. Document(m.origin.doc) /\ Convertible(m.origin.doc) /\ m.doc = try_from(m.origin.doc)
      BY <2>1, <2>2 DEF Faithful
    <3> QED
      BY <2>2, <3>1, ConversionSound
  <2>3. ASSUME m.version = m.origin.version, m.of = Script, m.version = "2.0"
        PROVE  LET d == m.doc
                   texts == {d.uuid, d.episode.label} \cup {d.files[k].name : k \in DOMAIN d.files}
                            \cup UNION {{d.programs[k].role, d.programs[k].name} : k \in DOMAIN d.programs}
               IN  "" \notin texts /\ d.files # <<>> /\ d.programs # <<>>
    <3>1. validate_metadata(m.doc)
      BY <2>1, <2>3 DEF Faithful
    <3> QED
      BY <3>1 DEF validate_metadata, ValidProgram
  <2> QED
    BY <2>2, <2>3
<1> QED
  BY InitInv, StepInv, SoundInit, SoundStep, <1>1, PTL DEF SessionSpec

LEMMA SetInduction ==
  ASSUME NEW S, S \subseteq Nat, 0 \in S, \A n \in S : n + 1 \in S
  PROVE  S = Nat
<1> SUFFICES ASSUME Nat \ S # {} PROVE FALSE
  OBVIOUS
<1> DEFINE R == OpToRel(<, Nat)  T == Nat \ S
<1>1. IsWellFoundedOn(R, Nat)
  BY NatLessThanWellFounded
<1>2. \E x \in T : \A y \in T : ~ (<<y, x>> \in R)
  <2> HIDE DEF R
  <2> QED BY <1>1, WFMin
<1>3. \A y, x \in Nat : <<y, x>> \in R <=> y < x
  BY DEF OpToRel
<1>4. PICK x \in T : \A y \in T : ~ (y < x)
  BY <1>2, <1>3
<1>5. x # 0 /\ x - 1 \in Nat /\ x - 1 \in S
  BY <1>4
<1> QED BY <1>5, <1>4

(* Induction up to a bound. *)
LEMMA UpTo ==
  ASSUME NEW n \in Nat, NEW S, 0 \in S, \A i \in 0 .. n - 1 : i \in S => i + 1 \in S
  PROVE  \A i \in 0 .. n : i \in S
<1> DEFINE U == {i \in Nat : i <= n => i \in S}
<1>1. U \subseteq Nat /\ 0 \in U
  OBVIOUS
<1>2. \A i \in U : i + 1 \in U
  OBVIOUS
<1>3. U = Nat
  <2> HIDE DEF U
  <2> QED BY <1>1, <1>2, SetInduction
<1> QED BY <1>3

(* g is computed from c by n steps of D. *)
Computes(g, n, V, c, D) ==
  /\ g \in [0 .. n -> V]
  /\ g[0] = c
  /\ \A i \in 1 .. n : g[i] = D[<<g[i - 1], i>>]

(* What is defined by recursion exists: values from V, step by step. *)
LEMMA Recursion ==
  ASSUME NEW n \in Nat, NEW V, NEW c \in V, NEW D \in [V \X (1 .. n) -> V]
  PROVE  \E g : Computes(g, n, V, c, D)
<1> DEFINE Up(m, g) ==
             g \in [0 .. m -> V] /\ g[0] = c /\ \A i \in 1 .. m : g[i] = D[<<g[i - 1], i>>]
           S == {m \in 0 .. n : \E g : Up(m, g)}
<1>1. 0 \in S
  <2>1. Up(0, [i \in 0 .. 0 |-> c])
    OBVIOUS
  <2> HIDE DEF Up
  <2> QED BY <2>1
<1>2. ASSUME NEW m \in 0 .. n - 1, m \in S PROVE m + 1 \in S
  <2>1. PICK g : Up(m, g)
    BY <1>2
  <2> DEFINE h == [i \in 0 .. m + 1 |-> IF i = m + 1 THEN D[<<g[m], m + 1>>] ELSE g[i]]
  <2>2. D[<<g[m], m + 1>>] \in V
    BY <2>1
  <2>3. h \in [0 .. m + 1 -> V] /\ h[0] = c
    BY <2>1, <2>2
  <2>4. ASSUME NEW i \in 1 .. m + 1 PROVE h[i] = D[<<h[i - 1], i>>]
    <3>1. CASE i = m + 1
      <4>1. h[i - 1] = g[m]
        BY <3>1
      <4>2. h[i] = D[<<g[m], m + 1>>]
        BY <3>1
      <4> HIDE DEF h
      <4> QED BY <4>1, <4>2, <3>1
    <3>2. CASE i # m + 1
      <4>1. i \in 1 .. m /\ h[i - 1] = g[i - 1]
        BY <3>2
      <4>2. h[i] = g[i]
        BY <3>2
      <4> HIDE DEF h
      <4> QED BY <4>1, <4>2, <2>1
    <3> QED BY <3>1, <3>2
  <2>5. Up(m + 1, h)
    BY <2>3, <2>4
  <2> HIDE DEF Up, h
  <2> QED BY <2>5
<1>3. n \in S
  <2> HIDE DEF S
  <2> QED BY <1>1, <1>2, UpTo
<1> QED BY <1>3 DEF Computes

(***************************************************************************)
(* The stages of a TF pipeline.                                            *)
(***************************************************************************)
Measurement == [ts : Int, child : Frames, parent : Frames]

(* One of the latest measurements for every child of the bag. *)
LatestChoice(t) ==
  {f \in [Children(table) -> table] : \A c \in Children(table) : f[c] \in Joined(table, t, c)}

(* A snapshot that has them all. *)
OfLatest(row) ==
  \E f \in LatestChoice(row.ts) : row.entries = {Entry(f[c], row.ts) : c \in Children(table)}

KnownTimes(b) == {t \in Times(b) : \A c \in Children(b) : \E m \in b : m.child = c /\ m.ts <= t}

TimesOf(rows) == {row.ts : row \in rows}

Current == \A row \in chain : \E links \in LatestLinks(row.ts) : Shows(row, links)

ChainInv ==
  /\ pairs \in Configs
  /\ table \subseteq Measurement
  /\ IsFiniteSet(table)
  /\ \A row \in buffer : OfLatest(row)
  /\ Current
  /\ status \in {"buffered", "ok"} => TimesOf(buffer) \cup TimesOf(chain) = KnownTimes(table)
  /\ status = "ok" => buffer = {}

(* Among finitely many measurements one is the latest. *)
LEMMA LatestThere ==
  ASSUME NEW b, IsFiniteSet(b), b \subseteq Measurement, b # {}
  PROVE  \E m \in b : \A n \in b : n.ts <= m.ts
<1>1. PICK k \in Nat : ExistsSurjection(1 .. k, b)
  BY FS_NatSurjection
<1>2. PICK f \in [1 .. k -> b] : \A m \in b : \E i \in 1 .. k : f[i] = m
  BY <1>1 DEF ExistsSurjection, Surjection
<1> DEFINE S == {i \in 0 .. k : i = 0 \/ \E m \in b : \A j \in 1 .. i : f[j].ts <= m.ts}
<1>3. ASSUME NEW i \in 0 .. k - 1, i \in S PROVE i + 1 \in S
  <2>1. f[i + 1] \in b /\ f[i + 1].ts \in Int /\ \A j \in 1 .. k : f[j].ts \in Int
    BY <1>2 DEF Measurement
  <2>2. CASE i = 0
    <3>1. \A j \in 1 .. i + 1 : f[j].ts <= f[i + 1].ts
      BY <2>1, <2>2
    <3> QED BY <2>1, <3>1
  <2>3. ASSUME NEW m \in b, \A j \in 1 .. i : f[j].ts <= m.ts PROVE i + 1 \in S
    <3>1. m.ts \in Int
      BY DEF Measurement
    <3>2. CASE f[i + 1].ts <= m.ts
      <4>1. \A j \in 1 .. i + 1 : f[j].ts <= m.ts
        BY <2>3, <3>2
      <4> QED BY <4>1
    <3>3. CASE m.ts < f[i + 1].ts
      <4>1. \A j \in 1 .. i + 1 : f[j].ts <= f[i + 1].ts
        BY <2>1, <2>3, <3>1, <3>3
      <4> QED BY <2>1, <4>1
    <3> QED BY <2>1, <3>1, <3>2, <3>3
  <2> QED BY <1>3, <2>2, <2>3
<1>4. k \in S
  <2>1. 0 \in S
    OBVIOUS
  <2>2. \A i \in 0 .. k - 1 : i \in S => i + 1 \in S
    BY <1>3
  <2>3. \A i \in 0 .. k : i \in S
    <3> HIDE DEF S
    <3> QED BY <2>1, <2>2, UpTo
  <2> HIDE DEF S
  <2> QED BY <2>3
<1>5. k # 0
  BY <1>2
<1> QED BY <1>2, <1>4, <1>5

LEMMA JoinedThere ==
  ASSUME NEW b, IsFiniteSet(b), b \subseteq Measurement, NEW t, NEW c,
         \E m \in b : m.child = c /\ m.ts <= t
  PROVE  Joined(b, t, c) # {}
<1> DEFINE known == {m \in b : m.child = c /\ m.ts <= t}
<1>1. IsFiniteSet(known)
  BY FS_Subset
<1>2. known \subseteq Measurement /\ known # {}
  OBVIOUS
<1> HIDE DEF known
<1>3. \E m \in known : \A n \in known : n.ts <= m.ts
  BY <1>1, <1>2, LatestThere
<1> QED BY <1>3 DEF Joined, known

(***************************************************************************)
(* A snapshot is kept exactly when every child has a measurement by then.  *)
(***************************************************************************)
LEMMA ChildrenFinite ==
  ASSUME NEW b, b \subseteq Measurement
  PROVE  IsFiniteSet(Children(b)) /\ Children(b) \subseteq Frames
<1>1. Children(b) \subseteq Frames
  BY DEF Children, Measurement
<1> QED BY <1>1, FS_Subset, FramesAssumption

Filled(b, t) == {c \in Children(b) : Joined(b, t, c) # {}}

LEMMA SnapshotIs ==
  ASSUME NEW b, b \subseteq Measurement, NEW t, NEW s \in Snapshots(b, t)
  PROVE  /\ s.ts = t
         /\ \E f \in [Filled(b, t) -> b] :
              /\ \A c \in Filled(b, t) : f[c] \in Joined(b, t, c)
              /\ s.entries = {Entry(f[c], t) : c \in Filled(b, t)}
         /\ Kept(b, s) <=> Filled(b, t) = Children(b)
<1> DEFINE filled == Filled(b, t)
<1>1. PICK f \in [filled -> b] :
        /\ \A c \in filled : f[c] \in Joined(b, t, c)
        /\ s = [ts |-> t, entries |-> {Entry(f[c], t) : c \in filled}]
  BY DEF Snapshots, Filled
<1>2. s.ts = t /\ s.entries = {Entry(f[c], t) : c \in filled}
  BY <1>1
<1>3. filled \subseteq Children(b)
  BY DEF Filled
<1>4. \A c \in filled : Entry(f[c], t).child = c
  BY <1>1 DEF Joined, Entry
<1> HIDE DEF filled
<1>5. {e.child : e \in s.entries} = filled
  BY <1>2, <1>4
<1>6. Kept(b, s) <=> filled = Children(b)
  <2>1. IsFiniteSet(Children(b))
    BY ChildrenFinite
  <2>2. Cardinality(Children(b)) = Cardinality(filled) <=> filled = Children(b)
    BY <1>3, <2>1, FS_Subset
  <2> QED BY <1>5, <2>2 DEF Kept
<1> QED BY <1>1, <1>2, <1>6 DEF filled

LEMMA FilledIs ==
  ASSUME NEW b, IsFiniteSet(b), b \subseteq Measurement, NEW t
  PROVE  Filled(b, t) = Children(b) <=> \A c \in Children(b) : \E m \in b : m.child = c /\ m.ts <= t
<1>1. ASSUME NEW c, Joined(b, t, c) # {} PROVE \E m \in b : m.child = c /\ m.ts <= t
  BY <1>1 DEF Joined
<1>2. ASSUME NEW c, \E m \in b : m.child = c /\ m.ts <= t PROVE Joined(b, t, c) # {}
  BY <1>2, JoinedThere
<1> QED BY <1>1, <1>2 DEF Filled

LEMMA BufferKeeps == ASSUME ChainInv, Buffer PROVE ChainInv'
<1>1. /\ table' \in Bags /\ buffer' \in Buffers(table') /\ chain' = {} /\ status' = "buffered" /\ pairs' = pairs
  BY DEF Buffer
<1>2. PICK b : b = table'
  OBVIOUS
<1>3. b \subseteq Measurement /\ IsFiniteSet(b)
  BY <1>1, <1>2, BagsAssumption DEF Measurement
<1>4. buffer' \in Buffers(b)
  BY <1>1, <1>2
<1>5. PICK f : /\ \A t \in Times(b) : f[t] \in Snapshots(b, t)
               /\ buffer' = {s \in {f[t] : t \in Times(b)} : Kept(b, s)}
  BY <1>4 DEF Buffers
<1>6. \A t \in Times(b) : f[t].ts = t /\ (f[t] \in buffer' <=> t \in KnownTimes(b))
  BY <1>3, <1>5, SnapshotIs, FilledIs DEF KnownTimes
<1>7. TimesOf(buffer') = KnownTimes(b)
  <2>1. KnownTimes(b) \subseteq Times(b)
    BY DEF KnownTimes
  <2> QED BY <1>5, <1>6, <2>1 DEF TimesOf
<1>8. ASSUME NEW row \in buffer' PROVE OfLatest(row)'
  <2>1. PICK t \in Times(b) : row = f[t]
    BY <1>5
  <2>2. Filled(b, t) = Children(b) /\ row.ts = t
    BY <1>3, <1>5, <2>1, SnapshotIs
  <2>3. PICK g \in [Children(b) -> b] :
          /\ \A c \in Children(b) : g[c] \in Joined(b, t, c)
          /\ row.entries = {Entry(g[c], t) : c \in Children(b)}
    BY <1>3, <1>5, <2>1, <2>2, SnapshotIs
  <2> QED BY <1>2, <2>2, <2>3 DEF OfLatest, LatestChoice
<1>9. (TimesOf(buffer) \cup TimesOf(chain) = KnownTimes(table))'
  <2>1. TimesOf(chain') = {}
    BY <1>1 DEF TimesOf
  <2> QED BY <1>2, <1>7, <2>1 DEF TimesOf, KnownTimes, Times, Children
<1>10. Current'
  BY <1>1 DEF Current
<1> QED BY <1>1, <1>2, <1>3, <1>8, <1>9, <1>10 DEF ChainInv

(***************************************************************************)
(* Up from a frame.                                                        *)
(***************************************************************************)
Top == Cardinality(Frames)

LEMMA TopNat == Top \in Nat
  BY FramesAssumption, FS_CardinalityType DEF Top

Climbs(up, links, start) ==
  /\ up \in [0 .. Top -> Frames \cup {None}]
  /\ up[0] = start
  /\ \A n \in 1 .. Top :
       up[n] = IF up[n - 1] = None \/ IsRoot(links, up[n - 1]) THEN None
               ELSE LinkOf(links, up[n - 1]).parent

LEMMA AncestorIs ==
  ASSUME NEW links, \A e \in links : e.parent \in Frames, NEW start \in Frames
  PROVE  Climbs(Ancestor(links, start), links, start)
<1> DEFINE V == Frames \cup {None}
           Above(f) == IF f = None \/ IsRoot(links, f) THEN None ELSE LinkOf(links, f).parent
           D == [p \in V \X (1 .. Top) |-> Above(p[1])]
           U(up) == up = [n \in 0 .. Top |-> IF n = 0 THEN start ELSE Above(up[n - 1])]
<1>1. \A f \in V : Above(f) \in V
  <2> SUFFICES ASSUME NEW f \in V, f # None, ~ IsRoot(links, f) PROVE LinkOf(links, f).parent \in Frames
    OBVIOUS
  <2>1. LinkOf(links, f) \in links
    BY DEF IsRoot, LinkOf
  <2> QED BY <2>1
<1>2. Ancestor(links, start) = CHOOSE up : U(up)
  BY DEF Ancestor, Top
<1> HIDE DEF Above
<1>3. \E up : U(up)
  <2>1. D \in [V \X (1 .. Top) -> V] /\ start \in V
    BY <1>1
  <2>2. PICK g : Computes(g, Top, V, start, D)
    <3> HIDE DEF V, D
    <3> QED BY <2>1, TopNat, Recursion
  <2>3. \A i \in 1 .. Top : g[i] = Above(g[i - 1])
    <3> SUFFICES ASSUME NEW i \in 1 .. Top PROVE g[i] = Above(g[i - 1])
      OBVIOUS
    <3>1. g[i] = D[<<g[i - 1], i>>]
      BY <2>2 DEF Computes
    <3>2. i - 1 \in 0 .. Top /\ g[i - 1] \in V
      BY <2>2, TopNat DEF Computes
    <3>3. D[<<g[i - 1], i>>] = Above(g[i - 1])
      BY <3>2
    <3> QED BY <3>1, <3>3
  <2>4. g = [n \in 0 .. Top |-> IF n = 0 THEN start ELSE Above(g[n - 1])]
    BY <2>2, <2>3, TopNat DEF Computes
  <2> QED BY <2>4
<1>4. PICK up : up = Ancestor(links, start)
  OBVIOUS
<1>5. U(up)
  <2> HIDE DEF U
  <2> QED BY <1>2, <1>3, <1>4
<1>6. up[0] = start /\ \A n \in 1 .. Top : up[n] = Above(up[n - 1])
  BY <1>5, TopNat
<1>7. \A n \in 0 .. Top : up[n] \in V
  <2> DEFINE S == {n \in 0 .. Top : up[n] \in V}
  <2>1. 0 \in S
    BY <1>6, TopNat
  <2>2. \A n \in 0 .. Top - 1 : n \in S => n + 1 \in S
    BY <1>1, <1>6, TopNat
  <2>3. \A n \in 0 .. Top : n \in S
    <3> HIDE DEF S
    <3> QED BY <2>1, <2>2, TopNat, UpTo
  <2> QED BY <2>3
<1>8. up \in [0 .. Top -> V]
  BY <1>5, <1>7
<1> QED BY <1>4, <1>6, <1>8 DEF Climbs, Above

(* Below a frame on the way up there are frames only, each linked to the next. *)
LEMMA Below ==
  ASSUME NEW links, NEW up, NEW start, Climbs(up, links, start),
         NEW d \in 0 .. Top, up[d] # None
  PROVE  \A n \in 0 .. d - 1 :
           /\ LinkOf(links, up[n]) \in links
           /\ LinkOf(links, up[n]).child = up[n]
           /\ LinkOf(links, up[n]).parent = up[n + 1]
<1>1. \A n \in 0 .. Top - 1 : up[n + 1] # None =>
        /\ up[n] # None /\ ~ IsRoot(links, up[n]) /\ up[n + 1] = LinkOf(links, up[n]).parent
  BY TopNat DEF Climbs
<1> DEFINE S == {k \in 0 .. d : up[d - k] # None}
<1>2. \A k \in 0 .. d : k \in S
  <2>1. 0 \in S /\ d \in Nat
    BY TopNat
  <2>2. \A k \in 0 .. d - 1 : k \in S => k + 1 \in S
    <3> SUFFICES ASSUME NEW k \in 0 .. d - 1, k \in S PROVE k + 1 \in S
      OBVIOUS
    <3>1. d - (k + 1) \in 0 .. Top - 1 /\ (d - (k + 1)) + 1 = d - k
      BY TopNat
    <3> QED BY <1>1, <3>1
  <2> HIDE DEF S
  <2> QED BY <2>1, <2>2, UpTo
<1> SUFFICES ASSUME NEW n \in 0 .. d - 1
             PROVE  /\ LinkOf(links, up[n]) \in links
                    /\ LinkOf(links, up[n]).child = up[n]
                    /\ LinkOf(links, up[n]).parent = up[n + 1]
  OBVIOUS
<1>3. n \in 0 .. Top - 1 /\ up[n + 1] # None
  <2>1. d - (n + 1) \in 0 .. d /\ d - (d - (n + 1)) = n + 1 /\ n \in 0 .. Top - 1
    BY TopNat
  <2> QED BY <1>2, <2>1
<1>4. ~ IsRoot(links, up[n]) /\ LinkOf(links, up[n]).parent = up[n + 1]
  BY <1>1, <1>3
<1> QED BY <1>4 DEF IsRoot, LinkOf

(***************************************************************************)
(* What a row of the chain says.                                           *)
(***************************************************************************)

(* The entries a row leaves in the chain are among the latest measurements. *)
OfSnapshot(links, latest, t) ==
  \A e \in links : e.m \in latest /\ e = Entry(e.m, t)

(* The product over a way down: of links, from the top, to the frame, and of
   children that are on the way up, below the top.                          *)
LEMMA DownwardShows ==
  ASSUME NEW links, NEW latest, NEW t, OfSnapshot(links, latest, t), \A e \in links : e.parent \in Frames,
         NEW f \in Frames, NEW d \in 0 .. Top, Ancestor(links, f)[d] # None
  PROVE  LET path == Downward(links, f, d)
             ms == Measured(path)
         IN  /\ Elements(ms) \subseteq latest
             /\ ComesDown(ms, Ancestor(links, f)[d], f)
             /\ \A m \in Elements(ms) : \E n \in 0 .. d - 1 : m.child = Ancestor(links, f)[n]
             /\ AnyFresh(path) <=> \E m \in Elements(ms) : m.ts = t
<1> DEFINE path == Downward(links, f, d)
           ms == Measured(path)
<1>1. PICK up : up = Ancestor(links, f)
  OBVIOUS
<1>2. Climbs(up, links, f) /\ up[d] # None
  BY <1>1, AncestorIs
<1>3. d \in Nat /\ up[0] = f
  BY <1>2, TopNat DEF Climbs
<1>4. path = [k \in 1 .. d |-> LinkOf(links, up[d - k])]
  BY <1>1 DEF Downward
<1>5. ASSUME NEW k \in 1 .. d
      PROVE  /\ path[k] \in links /\ path[k].child = up[d - k] /\ path[k].parent = up[(d - k) + 1]
             /\ d - k \in 0 .. d - 1
  <2>1. d - k \in 0 .. d - 1
    BY <1>3
  <2>2. path[k] = LinkOf(links, up[d - k])
    BY <1>4
  <2> QED BY <1>2, <2>1, <2>2, Below
<1> HIDE DEF path
<1>6. DOMAIN path = 1 .. d
  BY <1>4
<1>7. /\ ms = [k \in 1 .. d |-> path[k].m] /\ Len(ms) = d
  BY <1>3, <1>6 DEF Measured
<1> HIDE DEF ms
<1>8. \A k \in 1 .. d : /\ ms[k] = path[k].m /\ ms[k] \in latest
                        /\ ms[k].child = up[d - k] /\ ms[k].parent = up[(d - k) + 1]
                        /\ path[k] = Entry(ms[k], t)
  <2> SUFFICES ASSUME NEW k \in 1 .. d
               PROVE  /\ ms[k] = path[k].m /\ ms[k] \in latest
                      /\ ms[k].child = up[d - k] /\ ms[k].parent = up[(d - k) + 1]
                      /\ path[k] = Entry(ms[k], t)
    OBVIOUS
  <2>1. ms[k] = path[k].m /\ path[k] = Entry(ms[k], t) /\ ms[k] \in latest
    BY <1>5, <1>7 DEF OfSnapshot
  <2>2. path[k].child = ms[k].child /\ path[k].parent = ms[k].parent
    BY <2>1 DEF Entry
  <2> QED BY <1>5, <2>1, <2>2
<1>9. Elements(ms) = {ms[k] : k \in 1 .. d}
  BY <1>7 DEF Elements
<1>10. Elements(ms) \subseteq latest
  BY <1>8, <1>9
<1>11. \A m \in Elements(ms) : \E n \in 0 .. d - 1 : m.child = up[n]
  BY <1>5, <1>8, <1>9
<1>12. AnyFresh(path) <=> \E m \in Elements(ms) : m.ts = t
  <2>1. \A k \in 1 .. d : path[k].fresh <=> ms[k].ts = t
    <3>1. \A m : Entry(m, t).fresh <=> m.ts = t
      BY DEF Entry
    <3> QED BY Zenon, <1>8, <3>1
  <2> QED BY Zenon, <1>6, <1>9, <2>1 DEF AnyFresh
<1>13. ComesDown(ms, up[d], f)
  <2>1. CASE d = 0
    <3>1. ms = << >>
      BY <1>7, <2>1
    <3>2. Len(ms) = 0
      BY <1>7, <2>1
    <3> QED BY <1>3, <2>1, <3>1, <3>2 DEF ComesDown
  <2>2. CASE d # 0
    <3>1. 1 \in 1 .. d /\ d \in 1 .. d /\ (d - 1) + 1 = d /\ d - d = 0
      BY <1>3, <2>2
    <3>2. ms # << >> /\ ms[1].parent = up[d] /\ ms[Len(ms)].child = f
      BY <1>3, <1>7, <1>8, <2>2, <3>1
    <3>3. ASSUME NEW k \in 1 .. d - 1 PROVE ms[k].child = ms[k + 1].parent
      <4>1. k \in 1 .. d /\ k + 1 \in 1 .. d /\ (d - (k + 1)) + 1 = d - k
        BY <1>3
      <4> QED BY <1>8, <4>1
    <3> QED BY <1>7, <3>2, <3>3 DEF ComesDown
  <2> QED BY <2>1, <2>2
<1> QED BY <1>1, <1>10, <1>11, <1>12, <1>13 DEF path, ms

LEMMA RowShows ==
  ASSUME NEW links, NEW latest, NEW t, OfSnapshot(links, latest, t), \A e \in links : e.parent \in Frames,
         pairs \subseteq Frames \X Frames, \A pair \in pairs : Resolvable(links, pair)
  PROVE  Shows([ts |-> t, results |-> [pair \in pairs |-> ForwardKinematics(links, pair)]], latest)
<1> DEFINE row == [ts |-> t, results |-> [pair \in pairs |-> ForwardKinematics(links, pair)]]
           Good(r, pair) ==
             LET used == Elements(r.up) \cup Elements(r.down)
             IN  /\ used \subseteq latest
                 /\ Elements(r.up) \cap Elements(r.down) = {}
                 /\ \E top \in Frames : ComesDown(r.up, top, pair[1]) /\ ComesDown(r.down, top, pair[2])
                 /\ r.fresh = (\E m \in used : m.ts = t)
<1>1. ASSUME NEW pair \in pairs PROVE Good(ForwardKinematics(links, pair), pair)
  <2>1. pair[1] \in Frames /\ pair[2] \in Frames
    OBVIOUS
  <2>2. CASE pair[1] = pair[2]
    <3>1. ForwardKinematics(links, pair) = [up |-> << >>, down |-> << >>, fresh |-> FALSE]
      BY <2>2 DEF ForwardKinematics
    <3>2. Elements(<< >>) = {} /\ Len(<< >>) = 0 /\ ComesDown(<< >>, pair[1], pair[1])
      BY DEF Elements, ComesDown
    <3>3. Good([up |-> << >>, down |-> << >>, fresh |-> FALSE], pair)
      BY <2>1, <2>2, <3>2
    <3> HIDE DEF Good
    <3> QED BY <3>1, <3>3
  <2>3. CASE pair[1] # pair[2]
    <3> DEFINE s == Ancestor(links, pair[1])
               u == Ancestor(links, pair[2])
               lca == CHOOSE ij \in Common(links, pair[1], pair[2]) : TRUE
               src == Downward(links, pair[1], lca[1])
               tgt == Downward(links, pair[2], lca[2])
               r == [up |-> Measured(src), down |-> Measured(tgt), fresh |-> AnyFresh(src) \/ AnyFresh(tgt)]
    <3>1. ForwardKinematics(links, pair) = r
      BY <2>3 DEF ForwardKinematics
    <3>2. lca \in Common(links, pair[1], pair[2])
      <4>1. Common(links, pair[1], pair[2]) # {}
        BY <2>3 DEF Resolvable
      <4> QED BY <4>1
    <3>3. Climbs(s, links, pair[1]) /\ Climbs(u, links, pair[2])
      BY <2>1, AncestorIs
    <3> HIDE DEF lca
    <3>4. /\ lca[1] \in 0 .. Top /\ lca[2] \in 0 .. Top
          /\ u[lca[2]] # None /\ s[lca[1]] = u[lca[2]]
          /\ \A k \in 0 .. lca[2] - 1, l \in 0 .. Top : s[l] # u[k]
      <4>1. DOMAIN s = 0 .. Top /\ DOMAIN u = 0 .. Top
        BY <3>3 DEF Climbs
      <4> HIDE DEF s, u
      <4> QED BY <3>2, <4>1 DEF Common, s, u
    <3>5. u[lca[2]] \in Frames
      BY <3>3, <3>4 DEF Climbs
    <3>6. /\ Elements(Measured(src)) \subseteq latest
          /\ ComesDown(Measured(src), s[lca[1]], pair[1])
          /\ \A m \in Elements(Measured(src)) : \E n \in 0 .. lca[1] - 1 : m.child = s[n]
          /\ AnyFresh(src) <=> \E m \in Elements(Measured(src)) : m.ts = t
      BY <2>1, <3>4, DownwardShows
    <3>7. /\ Elements(Measured(tgt)) \subseteq latest
          /\ ComesDown(Measured(tgt), u[lca[2]], pair[2])
          /\ \A m \in Elements(Measured(tgt)) : \E n \in 0 .. lca[2] - 1 : m.child = u[n]
          /\ AnyFresh(tgt) <=> \E m \in Elements(Measured(tgt)) : m.ts = t
      BY <2>1, <3>4, DownwardShows
    <3> HIDE DEF s, u, src, tgt
    <3>8. Elements(Measured(src)) \cap Elements(Measured(tgt)) = {}
      <4>1. \A n \in 0 .. lca[1] - 1 : n \in 0 .. Top
        BY <3>4, TopNat
      <4> QED BY <3>4, <3>6, <3>7, <4>1
    <3>9. r.up = Measured(src) /\ r.down = Measured(tgt) /\ r.fresh = (AnyFresh(src) \/ AnyFresh(tgt))
      OBVIOUS
    <3>10. r.fresh = (\E m \in Elements(Measured(src)) \cup Elements(Measured(tgt)) : m.ts = t)
      BY <3>6, <3>7, <3>9
    <3> HIDE DEF r
    <3>11. Good(r, pair)
      BY <3>4, <3>5, <3>6, <3>7, <3>8, <3>9, <3>10
    <3> HIDE DEF Good
    <3> QED BY <3>1, <3>11
  <2> QED BY <2>2, <2>3
<1>2. row.ts = t /\ \A pair \in pairs : row.results[pair] = ForwardKinematics(links, pair)
  OBVIOUS
<1> HIDE DEF row
<1>3. Shows(row, latest)
  BY <1>1, <1>2 DEF Shows
<1> QED BY <1>3 DEF row

LEMMA ChainRowKeeps == ASSUME ChainInv, status = "buffered", NEW row \in buffer, ChainRow(row) PROVE ChainInv'
<1> DEFINE links == Populate(Builder(row), row)
           new == [ts |-> row.ts, results |-> [pair \in pairs |-> ForwardKinematics(links, pair)]]
<1>1. /\ chain' = chain \cup {new} /\ buffer' = buffer \ {row}
      /\ UNCHANGED <<pairs, table, status>>
      /\ \A pair \in pairs : Resolvable(links, pair)
  BY DEF ChainRow, RowWorks
<1>2. PICK f \in LatestChoice(row.ts) : row.entries = {Entry(f[c], row.ts) : c \in Children(table)}
  BY DEF ChainInv, OfLatest
<1> DEFINE latest == {f[c] : c \in Children(table)}
<1>3. latest \in LatestLinks(row.ts) /\ latest \subseteq Measurement
  <2>1. latest \subseteq table
    BY <1>2 DEF LatestChoice
  <2> QED BY <1>2, <2>1 DEF LatestLinks, LatestChoice, ChainInv
<1>4. OfSnapshot(links, latest, row.ts) /\ \A e \in links : e.parent \in Frames
  <2>1. links \subseteq row.entries
    BY DEF Populate
  <2> HIDE DEF links
  <2>2. ASSUME NEW e \in links PROVE e.m \in latest /\ e = Entry(e.m, row.ts) /\ e.parent \in Frames
    <3>1. PICK c \in Children(table) : e = Entry(f[c], row.ts)
      BY <1>2, <2>1
    <3>2. e.m = f[c] /\ e.parent = f[c].parent
      BY <3>1 DEF Entry
    <3>3. f[c].parent \in Frames
      BY <1>3 DEF Measurement
    <3> QED BY <3>1, <3>2, <3>3
  <2> QED BY <2>2 DEF OfSnapshot
<1>5. pairs \subseteq Frames \X Frames
  BY ConfigsAssumption DEF ChainInv
<1>6. new.ts = row.ts /\ Shows(new, latest)
  <2> HIDE DEF links, latest
  <2> QED BY <1>1, <1>4, <1>5, RowShows
<1> HIDE DEF links, latest, new
<1>7. Current'
  <2>1. \A r, m : (Shows(r, m)' <=> Shows(r, m)) /\ (m \in LatestLinks(r.ts)' <=> m \in LatestLinks(r.ts))
    BY <1>1 DEF Shows, LatestLinks
  <2>2. Current
    BY DEF ChainInv
  <2> QED BY <1>1, <1>3, <1>6, <2>1, <2>2 DEF Current
<1>8. TimesOf(buffer') \cup TimesOf(chain') = TimesOf(buffer) \cup TimesOf(chain)
  BY <1>1, <1>6 DEF TimesOf
<1>9. \A r \in buffer' : OfLatest(r)'
  BY <1>1 DEF ChainInv, OfLatest, LatestChoice
<1>10. (TimesOf(buffer) \cup TimesOf(chain) = KnownTimes(table))'
  BY <1>1, <1>8 DEF ChainInv, TimesOf
<1> QED BY <1>1, <1>7, <1>9, <1>10 DEF ChainInv

LEMMA ChainErrorKeeps == ASSUME ChainInv, NEW row \in buffer, ChainError(row) PROVE ChainInv'
<1>1. buffer' = {} /\ chain' = {} /\ status' = "failed" /\ UNCHANGED <<pairs, table>>
  BY DEF ChainError
<1> QED BY <1>1 DEF ChainInv, Current

LEMMA CurrentStays ==
  ASSUME Current, UNCHANGED <<pairs, table, chain>>
  PROVE  Current'
<1>1. \A r, m : (Shows(r, m)' <=> Shows(r, m)) /\ (m \in LatestLinks(r.ts)' <=> m \in LatestLinks(r.ts))
  BY DEF Shows, LatestLinks
<1> QED BY <1>1 DEF Current

LEMMA ChainEndKeeps == ASSUME ChainInv, ChainEnd PROVE ChainInv'
<1>1. buffer = {} /\ status = "buffered" /\ UNCHANGED <<pairs, table, buffer, chain>>
  BY DEF ChainEnd
<1>2. Current'
  BY <1>1, CurrentStays DEF ChainInv
<1>3. (TimesOf(buffer) \cup TimesOf(chain) = KnownTimes(table))'
  BY <1>1 DEF ChainInv, TimesOf
<1> QED BY <1>1, <1>2, <1>3 DEF ChainInv

LEMMA ChainInit == Init => ChainInv
<1> SUFFICES ASSUME Init PROVE ChainInv
  OBVIOUS
<1>1. IsFiniteSet({})
  BY FS_EmptySet
<1> QED BY <1>1 DEF Init, ChainInv, Current

LEMMA ChainStep == ChainInv /\ [Next]_vars => ChainInv'
<1> SUFFICES ASSUME ChainInv, [Next]_vars PROVE ChainInv'
  OBVIOUS
<1>1. CASE Buffer
  BY <1>1, BufferKeeps
<1>2. CASE Row
  BY <1>2, ChainRowKeeps, ChainErrorKeeps DEF Row
<1>3. CASE ChainEnd
  BY <1>3, ChainEndKeeps
<1>4. CASE UNCHANGED vars
  <2>1. Current'
    BY <1>4, CurrentStays DEF ChainInv, vars
  <2>2. (TimesOf(buffer) \cup TimesOf(chain) = KnownTimes(table))' <=> TimesOf(buffer) \cup TimesOf(chain) = KnownTimes(table)
    BY <1>4 DEF TimesOf, vars
  <2>3. \A r \in buffer' : OfLatest(r)'
    BY <1>4 DEF ChainInv, OfLatest, LatestChoice, vars
  <2> QED BY <1>4, <2>1, <2>2, <2>3 DEF ChainInv, vars
<1> QED BY <1>1, <1>2, <1>3, <1>4 DEF Next

(* Whatever bags the stages of one pipeline are given, and however often: each
   transform of /tf_chain is the product of the latest measurements on the way
   between its frames in that bag, fresh exactly when one of them is of its time,
   and a run that ends well has one for every time by which all frames are known.
   No link of an earlier row or an earlier bag is left in a product.           *)
THEOREM ChainIsCurrentHolds == Spec => []ChainIsCurrent
<1>1. ChainInv => ChainIsCurrent
  BY DEF ChainInv, ChainIsCurrent, Current, TimesOf, KnownTimes
<1> QED BY ChainInit, ChainStep, <1>1, PTL DEF Spec
=============================================================================
