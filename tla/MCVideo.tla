------------------------------ MODULE MCVideo ------------------------------
(* One readable and one broken JPEG, a larger image of another format
   and one whose format is not named; a codec that keeps one frame back, and
   few keyframes.  Every codec is asked for as it is, with each of its options
   set to something else, and some with a resize, on a machine without an
   NVIDIA card.                                                             *)
EXTENDS VideoRoundTrip, TLC

Picture(format, size, decodes) == [format |-> format, size |-> size, decodes |-> decodes]

Size(w) == [width |-> w, height |-> 2]

MCImage ==
  {Picture("jpeg", Size(2), TRUE), Picture("jpeg", Size(2), FALSE),
   Picture("other", Size(4), TRUE), Picture("bin", Size(2), TRUE)}

MCValues(codec, option) ==
  CASE option \in {"lp", "fast_decode"} -> {None, 0, 1, 2, 3, 6, 7}
    [] option \in {"pin", "threads", "frame_threads", "gpu", "b_depth", "async_depth"} -> {None, 0, 1, 2, 16}
    [] option = "film_grain" -> {None, 0, 50, 51}
    [] option = "film_grain_denoise" -> {None, TRUE, FALSE}
    [] option = "lookahead" -> {None, -2, -1, 0, 120, 121}
    [] option = "rc_lookahead" -> {None, 0, 32, 120, 121}
    [] option = "qp" -> {0, 25, 51, 52, 255, 256}
    [] option = "b_frames" -> {0, 1, 2, 7, 8}
    [] option = "device" -> {None, DEFAULT_VAAPI_DEVICE, "/dev/dri/renderD129"}
    [] option = "profile" -> {None, "main", "high"}
    [] option = "preset" ->
         IF codec = "AV1" THEN 0 .. 13 ELSE IF codec \in NvencCodec THEN NvencPreset ELSE X264Preset
    [] option = "tune" /\ codec \in NvencCodec -> NvencTune \cup {None}
    [] option = "tune" ->
         LET psy == IF codec = "H264" THEN X264Psy ELSE X265Psy
         IN  {<<>>, <<"psnr", "ssim">>, <<"grain", "fastdecode">>} \cup {<<t>> : t \in psy \cup NonPsy}

Asked(door, codec, given, size) ==
  [door |-> door, codec |-> codec, given |-> given, fps |-> 10, gop |-> 3, crf |-> "34",
   scaling |-> "Bicubic", resize |-> size]

(* one option, None if it can be, or else its last value *)
Given(codec) ==
  {<<>>} \cup {o :> (IF None \in MCValues(codec, o) THEN None
                     ELSE CHOOSE v \in MCValues(codec, o) : v # Defaults(codec)[o])
                : o \in DOMAIN Defaults(codec)}

MCRequests ==
  UNION {{Asked("yaml", codec, given, None), Asked("python", codec, given, None)} :
           <<codec, given>> \in UNION {{<<c, g>> : g \in Given(c)} : c \in Codec}}
  \cup {Asked("yaml", codec, <<>>, size) :
          codec \in Codec, size \in {Size(3), [width |-> 0, height |-> 2]}}
  \cup {Asked("yaml", codec, <<>>, Size(6)) : codec \in SoftwareCodec \cup NvencCodec}

MCMachine ==
  LET encoders == {ffmpeg_encoder_name[c] : c \in Codec}
  IN  [files |-> {DEFAULT_VAAPI_DEVICE}, ffmpeg |-> encoders, library |-> encoders]
=============================================================================
