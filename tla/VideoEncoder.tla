---------------------------- MODULE VideoEncoder ----------------------------
(***************************************************************************)
(* `VideoEncoderVariant`: one video is encoded frame by frame, in this     *)
(* process (Software) or by an ffmpeg that reads from a pipe (Vaapi,       *)
(* Nvenc).  The two hardware variants differ in ffmpeg's arguments only.   *)
(* The callers add frames, finish once, and drop the encoder at the first  *)
(* error; what the pipe and ffmpeg do is in FfmpegSubprocess.              *)
(***************************************************************************)
EXTENDS EncoderConfig

CONSTANT
  Image    \* what a message may carry: [format, size, decodes]

ASSUME ImageAssumption ==
  \A m \in Image :
    m \in [format : {"jpeg", "png", "other", "bin"}, size : {m.size}, decodes : BOOLEAN]

VARIABLES
  kind,               \* the variant: "software", "vaapi" or "nvenc"
  resize,             \* the size asked for, or None
  ready,              \* whether the configuration passes its preflight
  input_mode,         \* of a hardware encoder: "unknown", "rgb", or the format piped
  input_dimensions,   \* the size of the first raw frame, or None
  stream,             \* the frames ffmpeg, or the codec, was given; None if not started
  frame_count,
  video               \* the output file: [frames, size, whole], or None

config == <<kind, resize, ready>>
settings == <<config, input_mode, input_dimensions, frame_count>>
encoder == <<settings, stream>>

(* A frame is [n, image]: its place among the messages, and what it carries. *)

(* VideoEncoderVariant::from_config: nothing is opened yet *)
KindOf(codec) ==
  IF codec \in VaapiCodec THEN "vaapi" ELSE IF codec \in NvencCodec THEN "nvenc" ELSE "software"

New ==
  /\ UNCHANGED config
  /\ input_mode' = "unknown"
  /\ input_dimensions' = None
  /\ stream' = None
  /\ frame_count' = 0

Started == stream # None

(* What an encoder writes has the size asked for, or that of its first frame. *)
File(frames, whole) ==
  [frames |-> frames, whole |-> whole,
   size |-> IF frames = <<>> THEN None ELSE output_dimensions(resize, frames[1].image.size)]

(* The configuration passes preflight, and the output file is cut to nothing. *)
Create == ready /\ video' = File(<<>>, FALSE)

Send(f) == stream' = Append(IF Started THEN stream ELSE <<>>, f)

-----------------------------------------------------------------------------
(* VaapiVideoEncoder and NvencVideoEncoder *)

(* ImageFormat::detect *)
Detected(m) == IF m.format \in {"jpeg", "png"} THEN m.format ELSE None

(* spawn_ffmpeg_rawvideo, for images of the first one's size *)
SpawnRawvideo(size) == Create /\ input_mode' = "rgb" /\ input_dimensions' = size

(* spawn_ffmpeg_image2pipe, for files of one format *)
SpawnImage2pipe(format) == Create /\ input_mode' = format /\ UNCHANGED input_dimensions

WriteToPipe(f) == Send(f) /\ frame_count' = frame_count + 1

(* add_frame: all must have the first frame's size, if that was sent raw. *)
AddRawFrame(f) ==
  /\ f.image.decodes
  /\ IF Started
     THEN /\ input_dimensions \in {None, f.image.size}
          /\ UNCHANGED <<video, input_mode, input_dimensions>>
     ELSE SpawnRawvideo(f.image.size)
  /\ WriteToPipe(f)
  /\ UNCHANGED config

(* add_data, first frame: JPEG and PNG go to ffmpeg as they are. *)
AddFirstDirect(f) ==
  /\ input_mode = "unknown"
  /\ Detected(f.image) # None
  /\ SpawnImage2pipe(Detected(f.image))
  /\ WriteToPipe(f)
  /\ UNCHANGED config

(* Faulty: the format is settled by the first frame and not looked at again,
   and ffmpeg skips what it cannot read.                                     *)
AddDirectUnchecked(f) ==
  /\ input_mode \in {"jpeg", "png"}
  /\ IF Detected(f.image) = input_mode
     THEN WriteToPipe(f)
     ELSE UNCHANGED <<stream, frame_count>>
  /\ UNCHANGED <<video, config, input_mode, input_dimensions>>

(* add_data in DirectPipe: every frame must have the first one's format. *)
AddDirect(f) ==
  /\ input_mode \in {"jpeg", "png"}
  /\ Detected(f.image) = input_mode
  /\ WriteToPipe(f)
  /\ UNCHANGED <<video, config, input_mode, input_dimensions>>

(* add_data otherwise: the image is decoded here and sent raw. *)
AddDecoded(f) ==
  /\ \/ input_mode = "rgb"
     \/ input_mode = "unknown" /\ Detected(f.image) = None
  /\ AddRawFrame(f)

HardwareAddData(f) == AddFirstDirect(f) \/ AddDirect(f) \/ AddDecoded(f)

-----------------------------------------------------------------------------
(* SoftwareVideoEncoder *)

(* init_encoder: codec, file and scaler, for the first frame's size *)
InitEncoder(size) == Create /\ input_dimensions' = size

(* add_frame; the scaler refuses another size, and packets that the codec
   gives out are written at once.                                           *)
SoftwareAddFrame(f) ==
  /\ f.image.decodes
  /\ IF Started
     THEN f.image.size = input_dimensions /\ UNCHANGED <<video, input_dimensions>>
     ELSE InitEncoder(f.image.size)
  /\ Send(f)
  /\ UNCHANGED <<config, input_mode, frame_count>>

-----------------------------------------------------------------------------
(* The variant's calls when they return Ok.  Any of them may fail instead:
   an image that is refused, a codec, a pipe, ffmpeg or the disk.           *)

AddData(f) == IF kind = "software" THEN SoftwareAddFrame(f) ELSE HardwareAddData(f)

AddFrame(f) == IF kind = "software" THEN SoftwareAddFrame(f) ELSE AddRawFrame(f)

(* the frames that can be decoded, in their order *)
Readable(frames) ==
  LET first[k \in 0 .. Len(frames)] ==
        IF k = 0 THEN <<>>
        ELSE IF frames[k].image.decodes THEN Append(first[k - 1], frames[k])
        ELSE first[k - 1]
  IN  first[Len(frames)]

(* ffmpeg decodes what was piped as it was, and skips what it cannot decode
   (external).                                                              *)
Rendered == Readable(stream)

(* finish: ffmpeg's standard input is closed, and ffmpeg waited for. *)
FinishHardware ==
  IF frame_count = 0 THEN UNCHANGED video
  ELSE Started /\ video' = File(Rendered, TRUE)

(* Faulty: the trailer is written before the codec's last packet. *)
FinishWithoutDrain ==
  IF Started THEN video' = File(SubSeq(stream, 1, Len(stream) - 1), TRUE)
  ELSE UNCHANGED video

(* finish: the end is sent, the rest is drained, the trailer written. *)
FinishSoftware ==
  IF Started THEN video' = File(stream, TRUE)
  ELSE UNCHANGED video

Finish ==
  /\ IF kind = "software" THEN FinishSoftware ELSE FinishHardware
  /\ stream' = None
  /\ UNCHANGED settings

(* Drop after an error.  Software: the codec is flushed if it can be and the
   trailer is written, so that the file plays as far as it goes.             *)
DropSoftware ==
  IF Started
  THEN \E k \in 0 .. Len(stream) : video' = File(SubSeq(stream, 1, k), FALSE)
  ELSE UNCHANGED video

(* Hardware: ffmpeg is killed, and the file is what it had written. *)
DropHardware ==
  IF Started
  THEN \E k \in 0 .. Len(Rendered) : video' = File(SubSeq(Rendered, 1, k), FALSE)
  ELSE UNCHANGED video

DropEncoder ==
  /\ IF kind = "software" THEN DropSoftware ELSE DropHardware
  /\ stream' = None
  /\ UNCHANGED settings
=============================================================================
