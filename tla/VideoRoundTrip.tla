--------------------------- MODULE VideoRoundTrip ---------------------------
(***************************************************************************)
(* The images of one topic on their way from a bag into a data set.  They  *)
(* are ingested, apart from the rows that hold their indices; a stage      *)
(* writes them as a video, in place or in an exported bundle that another  *)
(* pipeline reads; and the LeRobot transform encodes an episode from the   *)
(* frames that its rows point to.  It takes them from the ingested images, *)
(* from those a VideoDecoder stage put in their place, or out of the video *)
(* itself.  A program may also call the decoder as it likes ("calls").     *)
(***************************************************************************)
EXTENDS Ingest, VideoEncoder, VideoDecoder

CONSTANTS
  Requests,      \* the configurations asked for: see EncoderConfig
  Values(_, _),  \* what an option of a codec may be set to
  Machine,       \* the files and encoders there are: [files, ffmpeg, library]
  MaxMessages,   \* images of the topic
  MaxConnections,  \* connection records of the topic in a ROS1 bag
  MaxCalls       \* frames the transform or the program asks for

ASSUME RoundTripAssumption ==
  /\ MaxMessages \in Nat \ {0} /\ MaxConnections \in Nat /\ MaxCalls \in Nat

(* What can be asked for: a codec there is, and no size or one in pixels. *)
ASSUME RequestsAssumption ==
  \A r \in Requests : r.codec \in Codec /\ r.resize \in {None} \cup [width : Nat, height : Nat]

(* The frames there can be, of the sizes that are carried or asked for. *)
Frames ==
  [n : Nat,
   image : [format : {"jpeg", "png", "other", "bin"}, decodes : BOOLEAN,
            size : {m.size : m \in Image} \cup {r.resize : r \in Requests}]]

ASSUME NoneAssumption == None \notin Seq(Frames)

VARIABLES
  request,       \* the configuration asked for, until the pipeline is built
  messages,      \* what the topic carried: the frames [n, image], n from 0
  route,         \* where the frames come from: see Route
  stage,         \* the stage at work, or "done" or "failed"
  at,            \* how many frames or calls it has dealt with
  directory,     \* how deep video_cache_dir and bundle_root lie below the base
  registry,      \* the topic's artifact: [level, file], or None
  image_data,    \* the frames the context holds
  asked,         \* the rows whose frames were asked for so far, [n, index]
  answers        \* and what came back: a frame, or NoFrame

context == <<directory, registry, image_data>>
calls == <<asked, answers>>
vars == <<request, ingest, encoder, video, decoder, messages, route, stage, at, context, calls>>

Route == {"ingested", "decoded", "file", "calls"}

Init ==
  /\ request \in Requests
  /\ messages = <<>>
  /\ IngestInit
  /\ kind = None /\ resize = None /\ ready = FALSE
  /\ input_mode = "unknown" /\ input_dimensions = None
  /\ stream = None /\ frame_count = 0 /\ video = None
  /\ input = <<>> /\ next_packet = 0 /\ next_frame = 0
  /\ last_frame_cache = NoCache /\ last_decoded_pts = NoPts /\ answer = NoFrame
  /\ route \in Route
  /\ stage = "configure" /\ at = 0
  /\ directory = [video_cache_dir |-> 0, bundle_root |-> 0]
  /\ registry = None /\ image_data = <<>>
  /\ asked = <<>> /\ answers = <<>>

Enter(s) == stage' = s /\ at' = 0
Fail == stage' = "failed" /\ UNCHANGED at

(* The pipeline is built, and given a bag. *)
Configure ==
  /\ stage = "configure"
  /\ kind' = KindOf(request.codec)
  /\ resize' = request.resize
  /\ ready' = preflight(Config(request), Machine)
  /\ request' = None
  /\ \E len \in 1 .. MaxMessages : \E carried \in [1 .. len -> Image] :
       messages' = [i \in 1 .. len |-> [n |-> i - 1, image |-> carried[i]]]
  /\ Enter("ingest")
  /\ UNCHANGED <<ingest, input_mode, input_dimensions, stream, frame_count, video, decoder,
                 route, context, calls>>

-----------------------------------------------------------------------------
(* Rosbag1Ingestor::run and Rosbag2Ingestor::run *)

IngestConnection ==
  /\ stage = "ingest" /\ connections < MaxConnections
  /\ Connection
  /\ UNCHANGED <<encoder, video, decoder, request, messages, route, stage, at, context, calls>>

IngestMessage ==
  /\ stage = "ingest" /\ at < Len(messages)
  /\ Rosbag1Message(messages[at + 1]) \/ Rosbag2Message(messages[at + 1])
  /\ at' = at + 1
  /\ UNCHANGED <<encoder, video, decoder, request, messages, route, stage, context, calls>>

(* A message that cannot be read ends the run. *)
IngestFails ==
  /\ stage = "ingest"
  /\ Fail
  /\ UNCHANGED <<ingest, encoder, video, decoder, request, messages, route, context, calls>>

IngestEnd ==
  /\ stage = "ingest" /\ at = Len(messages)
  /\ image_data' = image_topic_data
  /\ Enter("encode")
  /\ UNCHANGED <<ingest, encoder, video, decoder, request, messages, route, directory, registry, calls>>

-----------------------------------------------------------------------------
(* VideoEncoder::run or ParquetVideoExporter::run, for one topic *)

EncodeImage ==
  /\ stage = "encode" /\ at < Len(image_data)
  /\ AddData(image_data[at + 1])
  /\ at' = at + 1
  /\ UNCHANGED <<ingest, stage, decoder, request, messages, route, context, calls>>

(* Any call may fail; the error drops the encoder and ends the pipeline. *)
EncodeFails ==
  /\ stage \in {"encode", "transform"}
  /\ DropEncoder
  /\ Fail
  /\ UNCHANGED <<ingest, decoder, request, messages, route, context, calls>>

(* The size that is said of the video: the one asked for, or that of the
   first image that can be read.                                             *)
ArtifactSize ==
  output_dimensions(resize, Readable(image_data)[1].image.size)

(* The topic is registered with the shape of its first readable image, and
   the directories go one level down, into that of the uuid.                *)
EncodeEnd ==
  /\ stage = "encode" /\ at = Len(image_data)
  /\ \E i \in DOMAIN image_data : image_data[i].image.decodes
  /\ Finish
  /\ LET level == directory.video_cache_dir + 1
     IN  /\ directory' = [video_cache_dir |-> level, bundle_root |-> level]
         /\ registry' = [level |-> level, file |-> video', size |-> ArtifactSize]
  /\ Enter("depth")
  /\ UNCHANGED <<ingest, decoder, request, messages, route, image_data, calls>>

(* Without images VideoEncoder::run moves video_cache_dir alone. *)
EncodeNothing ==
  /\ stage = "encode" /\ image_data = <<>>
  /\ directory' = [directory EXCEPT !.video_cache_dir = @ + 1]
  /\ Enter("done")
  /\ UNCHANGED <<ingest, encoder, video, decoder, request, messages, route, registry, image_data, calls>>

(* ParquetVideoExporter::run writes the video into the bundle of the uuid, and
   a ParquetVideoIngestor finds it there later, in a context of its own.       *)
ExportBundle ==
  /\ stage = "encode" /\ at = Len(image_data)
  /\ route # "ingested"
  /\ \E i \in DOMAIN image_data : image_data[i].image.decodes
  /\ Finish
  /\ directory' = [directory EXCEPT !.bundle_root = 1]
  /\ registry' = [level |-> 1, file |-> video', size |-> ArtifactSize]
  /\ image_data' = <<>>
  /\ Enter("open")
  /\ UNCHANGED <<ingest, decoder, request, messages, route, calls>>

(* DepthVideoEncoder::run, if the pipeline has it, goes down once more: with
   depth images it takes bundle_root along, without it leaves it behind.     *)
DepthStage ==
  /\ stage = "depth"
  /\ \/ UNCHANGED directory
     \/ \E has_depth \in BOOLEAN :
          LET level == directory.video_cache_dir + 1
          IN  directory' = [video_cache_dir |-> level,
                            bundle_root |-> IF has_depth THEN level ELSE directory.bundle_root]
  /\ Enter(IF route = "ingested" THEN "transform" ELSE "open")
  /\ IF route = "ingested" THEN New /\ video' = None ELSE UNCHANGED <<encoder, video>>
  /\ UNCHANGED <<ingest, decoder, request, messages, route, registry, image_data, calls>>

-----------------------------------------------------------------------------
(* The video is found by its path relative to bundle_root, and opened; or a
   relative path leads nowhere and the stage fails.                          *)
(* All frames of a video are of its size: ffmpeg scales them (external). *)
OneSize(file) ==
  [i \in DOMAIN file.frames |-> [file.frames[i] EXCEPT !.image.size = file.size]]

Resolves == directory.bundle_root = registry.level

OpenArtifact ==
  /\ stage = "open" /\ Resolves
  /\ OpenVideo(OneSize(registry.file))
  /\ Enter(CASE route = "decoded" -> "decode"
             [] route = "file" -> "transform"
             [] route = "calls" -> "calls")
  /\ image_data' = <<>>
  /\ New /\ video' = None
  /\ UNCHANGED <<ingest, request, messages, route, directory, registry, calls>>

DecoderFails ==
  /\ stage \in {"open", "decode"}
  /\ Fail
  /\ UNCHANGED <<ingest, encoder, video, decoder, request, messages, route, context, calls>>

(* decode_frames_from_decoder: a frame that does not come is left out. *)
DecodeFrame ==
  /\ stage = "decode" /\ at < Len(input)
  /\ AtIndex(at)
  /\ image_data' = IF answer' = NoFrame THEN image_data ELSE Append(image_data, answer')
  /\ at' = at + 1
  /\ UNCHANGED <<ingest, encoder, video, stage, request, messages, route, directory, registry, calls>>

DecodeEnd ==
  /\ stage = "decode" /\ at = Len(input)
  /\ Enter("transform")
  /\ UNCHANGED <<ingest, encoder, video, decoder, request, messages, route, context, calls>>

-----------------------------------------------------------------------------
(* VideoEncoderPipeline of the transform *)

Ask(row, frame) ==
  /\ asked' = Append(asked, row)
  /\ answers' = Append(answers, frame)
  /\ at' = at + 1

RowsOfTopic == {rows[k] : k \in DOMAIN rows}

(* InMemoryFrameProvider: the index is a place in the list. *)
EncodeFromMemory ==
  /\ stage = "transform" /\ route \in {"ingested", "decoded"} /\ at < MaxCalls
  /\ \E row \in RowsOfTopic :
       /\ row.index < Len(image_data)
       /\ AddFrame(image_data[row.index + 1])
       /\ Ask(row, image_data[row.index + 1])
  /\ UNCHANGED <<ingest, stage, decoder, request, messages, route, context>>

(* VideoFileFrameProvider: a frame that does not come is an error. *)
EncodeFromFile ==
  /\ stage = "transform" /\ route = "file" /\ at < MaxCalls
  /\ \E row \in RowsOfTopic :
       /\ AtIndex(row.index)
       /\ answer' # NoFrame
       /\ AddFrame(answer')
       /\ Ask(row, answer')
  /\ UNCHANGED <<ingest, stage, request, messages, route, context>>

(* The provider has no such frame: the transform fails. *)
ProviderFails ==
  /\ stage = "transform" /\ at < MaxCalls
  /\ \E row \in RowsOfTopic :
       /\ IF route = "file"
          THEN AtIndex(row.index) /\ answer' = NoFrame
          ELSE row.index >= Len(image_data) /\ UNCHANGED decoder
       /\ Ask(row, NoFrame)
  /\ stage' = "failed"
  /\ DropEncoder
  /\ UNCHANGED <<ingest, request, messages, route, context>>

Finalize ==
  /\ stage = "transform" /\ at > 0
  /\ Finish
  /\ Enter("done")
  /\ UNCHANGED <<ingest, decoder, request, messages, route, context, calls>>

-----------------------------------------------------------------------------
(* A program that uses SingleVideoDecoder itself, past the end too. *)
Call ==
  /\ stage = "calls" /\ at < MaxCalls
  /\ \E index \in 0 .. Len(messages) :
       /\ AtIndex(index) \/ AtTimestamp(index)
       /\ Ask([n |-> index, index |-> index], answer')
  /\ UNCHANGED <<ingest, encoder, video, stage, request, messages, route, context>>

Next ==
  \/ Configure
  \/ IngestConnection \/ IngestMessage \/ IngestFails \/ IngestEnd
  \/ EncodeImage \/ EncodeFails \/ EncodeEnd \/ EncodeNothing \/ ExportBundle \/ DepthStage
  \/ OpenArtifact \/ DecoderFails \/ DecodeFrame \/ DecodeEnd
  \/ EncodeFromMemory \/ EncodeFromFile \/ ProviderFails \/ Finalize \/ Call

Spec == Init /\ [][Next]_vars

-----------------------------------------------------------------------------
(* Hardware encoders pipe JPEG and PNG unread, and ffmpeg skips what it
   cannot decode: then the video is shorter than the table.                  *)
SkipsFrames ==
  /\ kind # "software"
  /\ image_topic_data[1].image.format \in {"jpeg", "png"}
  /\ \E i \in DOMAIN image_topic_data : ~image_topic_data[i].image.decodes

(* A second connection record in a ROS1 bag sets the counter back, and a
   topic some of whose messages pass for depth counts them all together: the
   index is then no longer the image's place.                                *)
LosesPlace == connections > 1 \/ (image_topic_data # <<>> /\ depth_topic_data # <<>>)

(* What the values of the options stand for, by their documentation: those of
   crf are of the software codecs, scaling is that of a resize for ffmpeg, and
   lp is 1 to 6 or automatic.                                                *)
Meaning(c) ==
  LET cli == uses_ffmpeg_cli_encoder(c.codec)
      Stands(o, v) ==
        CASE o = "lp" -> IF v \in 1 .. 6 THEN v ELSE 0
          [] o = "pin" -> Or(v, 0)
          [] o = "device" -> Or(v, DEFAULT_VAAPI_DEVICE)
          [] o = "profile" /\ c.codec = "AV1_VAAPI" -> Or(v, "main")
          [] OTHER -> v
  IN  [c EXCEPT !.options = [o \in DOMAIN @ |-> Stands(o, @[o])],
                !.crf = IF cli THEN None ELSE @,
                !.scaling = IF cli /\ c.resize = None THEN None ELSE @]

(* the configurations that differ from one in a single place *)
Variants(c) ==
  (UNION {{[c EXCEPT !.options[o] = v] : v \in Values(c.codec, o)} : o \in DOMAIN c.options})
  \cup {[c EXCEPT !.fps = @ + 1], [c EXCEPT !.gop = @ + 1], [c EXCEPT !.crf = None]}
  \cup {[c EXCEPT !.scaling = flag] : flag \in ScalingFlag}
  \cup {[c EXCEPT !.resize = size] : size \in {None, [width |-> 2, height |-> 4]}}

(* Nothing that is asked for is lost on the way to the encoder: two accepted
   configurations that mean different things never become the same arguments,
   and a YAML pipeline and a Python script that ask for the same get the same,
   but for the options of h264_nvenc that a script cannot turn off.           *)
RequestIsHonoured ==
  stage = "configure" =>
    LET c == Config(request) IN
    /\ validate(c) =>
         \A d \in Variants(c) :
           validate(d) /\ Meaning(d) # Meaning(c) => Arguments(d) # Arguments(c)
    /\ \/ PyOptions(request.codec, request.given) = YamlOptions(request.codec, request.given)
       \/ request.codec = "H264_NVENC" /\ \E o \in DOMAIN request.given : request.given[o] = None

(* Every frame of an episode shows what the message of its row carried, from
   the bag on, on each of the routes and whatever order the rows ask in,
   unless the index was already wrong or ffmpeg skipped frames.              *)
EpisodeShowsIndexedFrames ==
  stage = "done" /\ asked # <<>> /\ ~LosesPlace /\ (route = "ingested" \/ ~SkipsFrames) =>
    /\ video.whole
    /\ Len(video.frames) = Len(asked)
    /\ \A k \in DOMAIN asked : video.frames[k].n = asked[k].n

(* What the registry names is a finished file with a frame for every message
   that can be shown, in their order, and of the size that is said of it, and
   never the rest of an encoder that was dropped.                            *)
RegisteredIsWhole ==
  registry # None =>
    LET frames == registry.file.frames
        shown == {k \in DOMAIN messages : /\ messages[k].image.decodes
                                          /\ topic = "raw" \/ Visual(messages[k])}
    IN  /\ registry.file.whole
        /\ frames # <<>> => registry.file.size = registry.size
        /\ {frames[i].n : i \in DOMAIN frames} = {messages[k].n : k \in shown}
        /\ \A i, j \in DOMAIN frames : i < j => frames[i].n < frames[j].n

(* The decoder answers a call with the frame it was asked for, from wherever
   earlier calls left it.  It finds nothing only past the end, among the last
   frames that the codec keeps back, or ahead of a position that an earlier
   call left behind when it ran into the end of the file.                     *)
AnswersAreRight ==
  route \in {"file", "calls"} =>
    \A k \in DOMAIN asked :
      LET index == asked[k].index
      IN  IF answers[k] # NoFrame
          THEN answers[k] = input[index + 1]
          ELSE \/ index >= Len(input) - Delay
               \/ \E j \in 2 .. k - 1 : \E i \in 1 .. j - 1 :
                    /\ answers[j] = NoFrame
                    /\ answers[i] # NoFrame /\ asked[i].index < index
=============================================================================
