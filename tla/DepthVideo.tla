----------------------------- MODULE DepthVideo -----------------------------
(***************************************************************************)
(* A topic of depth images on its way into a video, with how that is asked *)
(* for (`DepthVideoConfig`), and out of it again; and into files of raw    *)
(* depths.  A frame is decoded, quantized unless the codec is lossless,    *)
(* and written to ffmpeg, which cuts what it reads into frames by the size *)
(* and the pixel format on its command line.                               *)
(*                                                                         *)
(* The codecs are taken to give back the samples they were given: what a   *)
(* codec itself loses is no part of this code.                             *)
(***************************************************************************)
EXTENDS CompressedDepth, DepthQuantizer, EncoderConfig

CONSTANTS
  DepthTopics,    \* sequences of messages [ros_format, payload, seen, connection]:
                  \* whether another connection of the topic comes before it
  DepthRequests,  \* [door, given, codec, options]: see DepthConfig
  DepthMachine,   \* the files and encoders there are
  DepthDelay      \* frames a decoder keeps back at the end of the file

VARIABLES
  depth_request,  \* the configuration asked for
  seen,           \* what the camera saw, or None where the message is garbled
  depth_data,     \* the frames [index, ros_format, payload], as ingested
  set_back,       \* whether their index was set back, by a further connection
  depth_stage,    \* the stage at work; or "failed", "aborted"
  depth_at,       \* how many frames it has dealt with
  process,        \* ffmpeg: its arguments, and the samples written to it
  artifact,       \* [file, metadata] of the video, or None
  bins,           \* the raw images this run has written, by their index
  meta,           \* and the size that is said of them
  decoded         \* the frames [index, image] that came out of the video

depthVars == <<depth_request, seen, depth_data, set_back, depth_stage, depth_at, process, artifact, bins, meta, decoded>>

-----------------------------------------------------------------------------
(* DepthVideoConfig and DepthCodecConfig; and how Python makes them *)

DepthVaapi == {"H265_VAAPI", "AV1_VAAPI"}
DepthNvenc == {"H265_NVENC", "AV1_NVENC"}
DepthCodec == {"AV1", "FFV1"} \cup DepthVaapi \cup DepthNvenc

depth_encoder_name ==
  [H265_VAAPI |-> "hevc_vaapi", AV1_VAAPI |-> "av1_vaapi", H265_NVENC |-> "hevc_nvenc",
   AV1_NVENC |-> "av1_nvenc", AV1 |-> "libsvtav1", FFV1 |-> "ffv1"]

is_lossless(codec) == codec = "FFV1"
video_extension(codec) == IF codec = "FFV1" THEN "mkv" ELSE "mp4"

DepthNvencOptions(qp) ==
  [qp |-> qp, gpu |-> None, preset |-> "P4", tune |-> None, b_frames |-> 0, rc_lookahead |-> None]

DepthDefaults ==
  [H265_VAAPI |-> [qp |-> 18, device |-> None],
   AV1_VAAPI |-> [global_quality |-> 35, device |-> None],
   H265_NVENC |-> DepthNvencOptions(10),
   AV1_NVENC |-> DepthNvencOptions(20),
   AV1 |-> [crf |-> 4, preset |-> 4],
   FFV1 |-> <<>>]

depth_py_h265_vaapi == [qp |-> 18, device |-> None]
depth_py_av1_vaapi == [global_quality |-> 35, device |-> None]
depth_py_h265_nvenc == DepthNvencOptions(10)
depth_py_av1_nvenc == DepthNvencOptions(20)
depth_py_av1 == [crf |-> 4, preset |-> 4]

DepthSignature ==
  [H265_VAAPI |-> depth_py_h265_vaapi, AV1_VAAPI |-> depth_py_av1_vaapi,
   H265_NVENC |-> depth_py_h265_nvenc, AV1_NVENC |-> depth_py_av1_nvenc,
   AV1 |-> depth_py_av1, FFV1 |-> <<>>]

PyTop == [depth_max_mm |-> 4092, fps |-> 30]
YamlTop == [depth_max_mm |-> 4092, fps |-> 30]

DepthConfig(request) ==
  LET python == request.door = "python"
      codec == Or(request.codec, "AV1")
      top == With(IF python THEN PyTop ELSE YamlTop, request.given)
  IN  [depth_max_mm |-> top.depth_max_mm, fps |-> top.fps, codec |-> codec,
       options |-> With(IF python THEN DepthSignature[codec] ELSE DepthDefaults[codec], request.options)]

DepthQuality(c) ==
  LET o == c.options
  IN  CASE c.codec \in {"H265_VAAPI", "H265_NVENC"} -> o.qp <= 51
        [] c.codec = "AV1_NVENC" -> o.qp <= 255
        [] c.codec = "AV1_VAAPI" -> o.global_quality <= 255
        [] c.codec = "AV1" -> o.crf <= 63 /\ o.preset <= 13
        [] c.codec = "FFV1" -> TRUE

depth_validate(c) ==
  /\ c.fps > 0
  /\ ~is_lossless(c.codec) => c.depth_max_mm > 0
  /\ DepthQuality(c)
  /\ c.codec \in DepthNvenc => c.options.b_frames <= 7 /\ AtMost(c.options.rc_lookahead, 120)

depth_preflight(c, machine) ==
  /\ depth_validate(c)
  /\ c.codec \in DepthVaapi => Or(c.options.device, DEFAULT_VAAPI_DEVICE) \in machine.files
  /\ c.codec \in DepthNvenc =>
       /\ "/dev/nvidiactl" \in machine.files
       /\ {"/dev/nvidia0", "/dev/nvidia-caps"} \cap machine.files # {}
  /\ depth_encoder_name[c.codec] \in machine.ffmpeg

DepthPixelFormat(c) == IF is_lossless(c.codec) THEN "gray16le" ELSE "p010le"

depth_metadata(c, width, height) ==
  [media_type |-> "depth",
   codec_family |-> CASE c.codec \in {"H265_VAAPI", "H265_NVENC"} -> "h265"
                      [] c.codec \in {"AV1", "AV1_VAAPI", "AV1_NVENC"} -> "av1"
                      [] c.codec = "FFV1" -> "ffv1",
   encoder_name |-> depth_encoder_name[c.codec], pix_fmt |-> DepthPixelFormat(c),
   width |-> width, height |-> height, fps |-> c.fps, config |-> c]

-----------------------------------------------------------------------------
(* What ffmpeg is told of its input and of its output. *)

PipeArguments(c, width, height) ==
  {<<"-f", "rawvideo">>, <<"-pix_fmt", DepthPixelFormat(c)>>, <<"-s", <<width, height>>>>, <<"-framerate", c.fps>>}
    \cup IF c.codec \in DepthVaapi \cup DepthNvenc THEN {<<"-color_range", "pc">>} ELSE {}

DepthVaapiArguments(c) ==
  {<<"-vaapi_device", Or(c.options.device, DEFAULT_VAAPI_DEVICE)>>, <<"-vf", "format=p010,hwupload">>,
   <<"-g", 30>>, <<"-rc_mode", "CQP">>}
    \cup IF c.codec = "H265_VAAPI" THEN {<<"-profile:v", "main10">>, <<"-qp", c.options.qp>>}
         ELSE {<<"-profile:v", "main">>, <<"-global_quality", c.options.global_quality>>}

DepthNvencArguments(c) ==
  LET o == c.options
  IN  {<<"-pix_fmt", "p010le">>, <<"-color_range", "pc">>, <<"-rc", "constqp">>, <<"-qp", o.qp>>,
       <<"-g", 30>>, <<"-bf", o.b_frames>>, <<"-preset", o.preset>>}
        \cup (IF c.codec = "H265_NVENC" THEN {<<"-profile:v", "main10">>} ELSE {})
        \cup (IF o.b_frames > 0 THEN {<<"-b_ref_mode", "middle">>} ELSE {})
        \cup When(o, "rc_lookahead", "-rc-lookahead")
        \cup When(o, "tune", "-tune")
        \cup When(o, "gpu", "-gpu")

DepthSoftwareArguments(c) ==
  IF c.codec = "FFV1"
  THEN {<<"-level", 3>>, <<"-coder", 1>>, <<"-context", 1>>, <<"-g", 1>>, <<"-slicecrc", 1>>}
  ELSE {<<"-preset", c.options.preset>>, <<"-crf", c.options.crf>>, <<"-g", 30>>, <<"-pix_fmt", "yuv420p10le">>}

DepthArguments(c, width, height) ==
  [input |-> PipeArguments(c, width, height),
   output |-> {<<"-c:v", depth_encoder_name[c.codec]>>, <<"to", video_extension(c.codec)>>}
                \cup CASE c.codec \in DepthVaapi -> DepthVaapiArguments(c)
                       [] c.codec \in DepthNvenc -> DepthNvencArguments(c)
                       [] OTHER -> DepthSoftwareArguments(c)]

-----------------------------------------------------------------------------
(* The samples of a frame in the pipe *)

(* An odd column or row has no colour of its own. *)
q10_to_p010le(q10, width, height) ==
  [i \in DOMAIN q10 |-> Packed(q10[i])] \o [i \in 1 .. 2 * (width \div 2) * (height \div 2) |-> 32768]

Samples(c, image) ==
  IF is_lossless(c.codec) THEN image.values
  ELSE q10_to_p010le([i \in DOMAIN image.values |-> Quantize(c.depth_max_mm, image.values[i])], image.width, image.height)

(* ffmpeg: it takes an odd column or row to have a colour, and leaves what is
   no whole frame; an encoder in hardware makes depths of a limited range
   unless told that theirs is full.                                          *)
FrameSamples(pix_fmt, width, height) ==
  width * height + (IF pix_fmt = "gray16le" THEN 0 ELSE 2 * ((width + 1) \div 2) * ((height + 1) \div 2))

Limited(sample) == Packed(64 + ((sample \div 64) * 876) \div 1023)

Recorded(arguments, written) ==
  LET Of(flag) == (CHOOSE a \in arguments.input : a[1] = flag)[2]
      width == Of("-s")[1]
      height == Of("-s")[2]
      size == FrameSamples(Of("-pix_fmt"), width, height)
      squeezed == /\ <<"-color_range", "pc">> \notin arguments.input
                  /\ \E name \in {"hevc_vaapi", "av1_vaapi", "hevc_nvenc", "av1_nvenc"} : <<"-c:v", name>> \in arguments.output
      Sample(s) == IF squeezed THEN Limited(s) ELSE s
  IN  [pix_fmt |-> Of("-pix_fmt"), width |-> width, height |-> height,
       extension |-> (CHOOSE a \in arguments.output : a[1] = "to")[2],
       frames |-> [k \in 1 .. Len(written) \div size |->
                    [i \in 1 .. width * height |-> Sample(written[(k - 1) * size + i])]]]

-----------------------------------------------------------------------------
(* What a camera sees, how it is sent, and what is garbled: what no decoder
   takes for an image.  A payload has room for no more pixels, and no deeper.  *)
IsDepthImage(i) ==
  /\ i = DepthImage(i.width, i.height, i.values)
  /\ i.width \in Nat \ {0} /\ i.height \in Nat \ {0} /\ i.width * i.height < IntLimit
  /\ i.values \in [1 .. i.width * i.height -> 0 .. U16Max]

IsDepthMessage(m) ==
  /\ m.connection \in BOOLEAN
  /\ IF m.seen = None THEN decode_depth_frame(m).kind # "image"
     ELSE LET f == resolve_format_or_sniff_png(m.ros_format, m.payload)
              i == m.seen
          IN  /\ IsDepthImage(i)
              /\ \/ f = "Depth16Png" /\ m.payload = Png("luma16", i.width, i.height, i.values)
                 \/ f = "Depth16Rvl" /\ m.payload = Rvl(i.width, i.height, i.values)

ASSUME DepthTopicsAssumption ==
  \A topic \in DepthTopics :
    /\ Len(topic) \in Nat /\ DOMAIN topic = 1 .. Len(topic)
    /\ \A k \in 1 .. Len(topic) : IsDepthMessage(topic[k])

ASSUME DepthRequestsAssumption ==
  \A r \in DepthRequests :
    /\ r = [door |-> r.door, given |-> r.given, codec |-> r.codec, options |-> r.options]
    /\ r.codec \in DepthCodec \cup {None}
    /\ "depth_max_mm" \in DOMAIN r.given => r.given["depth_max_mm"] \in 0 .. U16Max

-----------------------------------------------------------------------------
(* The stages.  The error of a stage ends the pipeline, and drops ffmpeg. *)

DepthInit ==
  /\ depth_request \in DepthRequests
  /\ seen = <<>> /\ depth_data = <<>> /\ set_back = FALSE
  /\ depth_stage = "ingest" /\ depth_at = 0
  /\ process = None /\ artifact = None
  /\ bins = <<>> /\ meta = None /\ decoded = <<>>

DepthEnter(s) == depth_stage' = s /\ depth_at' = 0

DepthFails(s) ==
  /\ depth_stage' = s
  /\ process' = None
  /\ UNCHANGED <<depth_request, seen, depth_data, set_back, depth_at, artifact, bins, meta, decoded>>

(* add_image_data, for each message of the topic: it is kept as it is, under
   an index that each connection of the topic sets back to 0 (add_image_info). *)
IngestDepth ==
  /\ depth_stage = "ingest"
  /\ \E topic \in DepthTopics :
       LET connections == {j \in 2 .. Len(topic) : topic[j].connection}
           Index(i) == i - Max({1} \cup {j \in connections : j <= i})
       IN  /\ seen' = [i \in DOMAIN topic |-> topic[i].seen]
           /\ depth_data' = [i \in DOMAIN topic |->
                              [index |-> Index(i), ros_format |-> topic[i].ros_format, payload |-> topic[i].payload]]
           /\ set_back' = (connections # {})
  /\ \E s \in {"video", "images"} : DepthEnter(s)
  /\ UNCHANGED <<depth_request, process, artifact, bins, meta, decoded>>

NextDepth == decode_depth_frame(depth_data[depth_at + 1])

(* A frame that cannot be decoded, in either encoder. *)
DepthUnreadable ==
  /\ depth_stage \in {"video", "images"} /\ depth_at < Len(depth_data)
  /\ depth_stage = "video" => process # None \/ depth_preflight(DepthConfig(depth_request), DepthMachine)
  /\ \/ NextDepth = Invalid /\ DepthFails("failed")
     \/ NextDepth = Abort /\ DepthFails("aborted")

DepthRefused ==
  /\ depth_stage = "video" /\ process = None /\ depth_data # <<>>
  /\ ~depth_preflight(DepthConfig(depth_request), DepthMachine)
  /\ DepthFails("failed")

(* ffmpeg is started when the first frame is known. *)
SpawnFfmpeg ==
  /\ depth_stage = "video" /\ process = None /\ depth_at = 0 /\ depth_data # <<>>
  /\ LET c == DepthConfig(depth_request)
     IN  /\ depth_preflight(c, DepthMachine)
         /\ NextDepth.kind = "image"
         /\ process' = [arguments |-> DepthArguments(c, NextDepth.width, NextDepth.height), written |-> <<>>]
  /\ UNCHANGED <<depth_request, seen, depth_data, set_back, depth_stage, depth_at, artifact, bins, meta, decoded>>

SameSize(arguments, image) == <<"-s", <<image.width, image.height>>>> \in arguments.input

WriteDepthFrame ==
  /\ depth_stage = "video" /\ process # None /\ depth_at < Len(depth_data)
  /\ NextDepth.kind = "image"
  /\ SameSize(process.arguments, NextDepth)
  /\ process' = [process EXCEPT !.written = @ \o Samples(DepthConfig(depth_request), NextDepth)]
  /\ depth_at' = depth_at + 1
  /\ UNCHANGED <<depth_request, seen, depth_data, set_back, depth_stage, artifact, bins, meta, decoded>>

DepthMismatch ==
  /\ depth_stage = "video" /\ process # None /\ depth_at < Len(depth_data)
  /\ NextDepth.kind = "image"
  /\ ~SameSize(process.arguments, NextDepth)
  /\ DepthFails("failed")

(* Starting ffmpeg, a write, the end, or a file: any of them may fail. *)
DepthCallFails ==
  /\ depth_stage \in {"video", "images", "decode"}
  /\ depth_data # <<>>
  /\ DepthFails("failed")

FinishDepthVideo ==
  /\ depth_stage = "video" /\ process # None /\ depth_at = Len(depth_data)
  /\ LET size == (CHOOSE a \in process.arguments.input : a[1] = "-s")[2]
     IN  artifact' = [file |-> Recorded(process.arguments, process.written),
                      metadata |-> depth_metadata(DepthConfig(depth_request), size[1], size[2])]
  /\ process' = None
  /\ DepthEnter("decode")
  /\ UNCHANGED <<depth_request, seen, depth_data, set_back, bins, meta, decoded>>

(* A topic without frames is passed over, and has no video. *)
NoDepthVideo ==
  /\ depth_stage = "video" /\ depth_data = <<>>
  /\ DepthEnter("done")
  /\ UNCHANGED <<depth_request, seen, depth_data, set_back, process, artifact, bins, meta, decoded>>

(* DepthImageEncoder::run: a file for each frame, named after its index, over
   what is there; and one for their size.                                    *)
SaveDepthImage ==
  /\ depth_stage = "images" /\ depth_at < Len(depth_data)
  /\ NextDepth.kind = "image"
  /\ LET index == depth_data[depth_at + 1].index
     IN  bins' = [i \in DOMAIN bins \cup {index} |-> IF i = index THEN NextDepth.values ELSE bins[i]]
  /\ depth_at' = depth_at + 1
  /\ UNCHANGED <<depth_request, seen, depth_data, set_back, depth_stage, process, artifact, meta, decoded>>

SaveDepthSize ==
  /\ depth_stage = "images" /\ depth_at = Len(depth_data)
  /\ meta' = IF depth_data = <<>> THEN None
             ELSE LET last == decode_depth_frame(Last(depth_data)) IN [width |-> last.width, height |-> last.height]
  /\ DepthEnter("video")
  /\ UNCHANGED <<depth_request, seen, depth_data, set_back, process, artifact, bins, decoded>>

-----------------------------------------------------------------------------
(* decode_video_registry, for the artifact *)

depth_decode_kind(metadata) ==
  IF metadata.config.codec = "FFV1" \/ metadata.pix_fmt = "gray16le" THEN "RawGray16" ELSE "Q10"

(* The number of frames is told from the duration of the stream, which a
   Matroska file need not give: then there are none.                         *)
OpenWithoutDuration ==
  /\ depth_stage = "decode" /\ artifact.file.extension = "mkv"
  /\ DepthEnter("done")
  /\ UNCHANGED <<depth_request, seen, depth_data, set_back, process, artifact, bins, meta, decoded>>

(* A decoder gives ten bits as P010 or as planar samples, and at the end may
   keep frames back, which are passed over.                                  *)
DecodedSample(kind, max, format, sample) ==
  IF kind = "RawGray16" THEN sample
  ELSE Dequantize(max, Unpacked(format, IF format = "p010le" THEN sample ELSE sample \div 64))

ReadDepthFrame ==
  /\ depth_stage = "decode" /\ depth_at < Len(artifact.file.frames)
  /\ \/ /\ \E format \in IF artifact.file.pix_fmt = "gray16le" THEN {"gray16le"} ELSE {"p010le", "yuv420p10le"} :
            LET frame == artifact.file.frames[depth_at + 1]
                Depth(s) == DecodedSample(depth_decode_kind(artifact.metadata), artifact.metadata.config.depth_max_mm, format, s)
            IN  decoded' = Append(decoded, [index |-> depth_at,
                                            image |-> DepthImage(artifact.file.width, artifact.file.height,
                                                                 [i \in DOMAIN frame |-> Depth(frame[i])])])
     \/ depth_at >= Len(artifact.file.frames) - DepthDelay /\ UNCHANGED decoded
  /\ depth_at' = depth_at + 1
  /\ UNCHANGED <<depth_request, seen, depth_data, set_back, depth_stage, process, artifact, bins, meta>>

ReadDepthEnd ==
  /\ depth_stage = "decode" /\ depth_at = Len(artifact.file.frames)
  /\ DepthEnter("done")
  /\ UNCHANGED <<depth_request, seen, depth_data, set_back, process, artifact, bins, meta, decoded>>

DepthEnded == depth_stage \in {"done", "failed", "aborted"} /\ UNCHANGED depthVars

DepthNext ==
  \/ IngestDepth \/ DepthUnreadable \/ DepthRefused \/ SpawnFfmpeg \/ WriteDepthFrame \/ DepthMismatch
  \/ DepthCallFails \/ FinishDepthVideo \/ NoDepthVideo \/ SaveDepthImage \/ SaveDepthSize
  \/ OpenWithoutDuration \/ ReadDepthFrame \/ ReadDepthEnd \/ DepthEnded

DepthSpec == DepthInit /\ [][DepthNext]_depthVars

-----------------------------------------------------------------------------
(* What the options stand for: no limit on lossless depths; a device. *)
DepthMeaning(c) ==
  [c EXCEPT !.depth_max_mm = None,
            !.options = [o \in DOMAIN @ |-> IF o = "device" THEN Or(@[o], DEFAULT_VAAPI_DEVICE) ELSE @[o]]]

DepthAsAsked ==
  \A other \in DepthRequests :
    LET c == DepthConfig(depth_request)
        d == DepthConfig(other)
    IN  /\ depth_validate(c) /\ depth_validate(d) /\ DepthMeaning(c) # DepthMeaning(d)
             => DepthArguments(c, 2, 2) # DepthArguments(d, 2, 2)
        /\ [other EXCEPT !.door = "yaml"] = [depth_request EXCEPT !.door = "yaml"] => c = d

SizesOf(images) == {<<i.width, i.height>> : i \in ToSet(images)}

(* Only lossless codecs are for images of an odd width or height. *)
DepthFits(c) ==
  is_lossless(c.codec) \/ \A size \in SizesOf(seen) : size[1] % 2 = 0 /\ size[2] % 2 = 0

DepthPixelKept(c, depth, back) ==
  IF is_lossless(c.codec) THEN back = depth ELSE Kept(c.depth_max_mm, depth, back)

DepthFrameKept(c, image, back) ==
  /\ back.width = image.width /\ back.height = image.height
  /\ \A i \in DOMAIN image.values : DepthPixelKept(c, image.values[i], back.values[i])

(* A later image has taken the place of a raw file. *)
Overwritten(i) ==
  set_back /\ \E j \in i + 1 .. Len(seen) : depth_data[j].index = depth_data[i].index

(* What a camera saw is what comes out of the video and of the raw files: no
   frame that is garbled or of another size gets into a video, none is lost or
   changes its place, and each depth is exact or, from a lossy codec, within
   half a step, missing where it was missing and nowhere else; a raw file has
   the depths of an image with its index, and there is one for every image; and
   a script and a pipeline that ask for the same video get it.  Excepted are
   lossy videos of an odd size, whose frames run into each other; the size that
   is kept for raw files of several sizes; and, where a further connection of
   the topic has set the index back, the images whose files later ones take.   *)
DepthIsKept ==
  LET c == DepthConfig(depth_request)
  IN  /\ depth_stage = "ingest" => DepthAsAsked
      /\ artifact # None =>
           /\ None \notin ToSet(seen)
           /\ SizesOf(seen) = {<<artifact.metadata.width, artifact.metadata.height>>}
           /\ DepthFits(c) => Len(artifact.file.frames) = Len(seen)
      /\ artifact # None /\ DepthFits(c) =>
           \A d \in ToSet(decoded) : DepthFrameKept(c, seen[d.index + 1], d.image)
      /\ \A index \in DOMAIN bins : \E i \in DOMAIN seen :
           depth_data[i].index = index /\ seen[i] # None /\ bins[index] = seen[i].values
      /\ meta # None => \A i \in DOMAIN seen :
           /\ depth_data[i].index \in DOMAIN bins
           /\ bins[depth_data[i].index] = seen[i].values \/ Overwritten(i)
      /\ meta # None /\ Cardinality(SizesOf(seen)) = 1 => <<meta.width, meta.height>> \in SizesOf(seen)
=============================================================================
