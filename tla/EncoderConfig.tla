--------------------------- MODULE EncoderConfig ---------------------------
(***************************************************************************)
(* How a video is to be encoded: `VideoEncoderConfig` and `CodecConfig`,   *)
(* asked for in a YAML pipeline or built by a Python script, whose         *)
(* defaults are written down twice; what is refused; and what the codec,   *)
(* or ffmpeg on its command line, is told.                                 *)
(*                                                                         *)
(* The options of a codec are a function from their names to values, None  *)
(* being an option that is left out or null.  The arguments of an encoder  *)
(* are pairs of a flag and its value.                                      *)
(***************************************************************************)
EXTENDS Integers, Sequences, FiniteSets

CONSTANT None

SoftwareCodec == {"AV1", "H264", "H265"}
VaapiCodec == {"H264_VAAPI", "H265_VAAPI", "AV1_VAAPI"}
NvencCodec == {"H264_NVENC", "H265_NVENC", "AV1_NVENC"}
Codec == SoftwareCodec \cup VaapiCodec \cup NvencCodec

uses_ffmpeg_cli_encoder(codec) == codec \in VaapiCodec \cup NvencCodec

codec_family_name(codec) ==
  CASE codec \in {"AV1", "AV1_VAAPI", "AV1_NVENC"} -> "av1"
    [] codec \in {"H264", "H264_VAAPI", "H264_NVENC"} -> "h264"
    [] codec \in {"H265", "H265_VAAPI", "H265_NVENC"} -> "h265"

ffmpeg_encoder_name ==
  [AV1 |-> "libsvtav1", H264 |-> "libx264", H265 |-> "libx265",
   H264_VAAPI |-> "h264_vaapi", H265_VAAPI |-> "hevc_vaapi", AV1_VAAPI |-> "av1_vaapi",
   H264_NVENC |-> "h264_nvenc", H265_NVENC |-> "hevc_nvenc", AV1_NVENC |-> "av1_nvenc"]

(* What an option may be called; ParamDefault stands for no flag at all. *)
X264Preset ==
  {"ultrafast", "superfast", "veryfast", "faster", "fast", "medium", "slow", "slower", "veryslow"}
X264Psy == {"film", "animation", "grain", "stillimage", "psnr", "ssim"}
X265Psy == {"psnr", "ssim", "grain", "animation"}
NonPsy == {"fastdecode", "zerolatency"}
NvencPreset == {"P1", "P2", "P3", "P4", "P5", "P6", "P7"}
NvencTune == {"hq", "ll", "ull"}

CliScale ==
  {"FastBilinear", "Bilinear", "Bicubic", "Bicublin", "Gauss", "Sinc", "Lanczos", "Spline",
   "PrintInfo", "FullChrHInt", "FullChrHInp", "AccurateRnd", "BitExact", "ErrorDiffusion"}
LibraryScale == {"SrcVChrDropMask", "SrcVChrDropShift", "DirectBgr"}
ScalingFlag == CliScale \cup LibraryScale \cup {"ParamDefault"}

-----------------------------------------------------------------------------
(* The defaults of serde, and those of the Python constructors. *)

DEFAULT_VAAPI_DEVICE == "/dev/dri/renderD128"

Av1Defaults ==
  [lp |-> None, pin |-> None, preset |-> 10, film_grain |-> None, film_grain_denoise |-> None,
   lookahead |-> None, fast_decode |-> None]

H264Defaults == [threads |-> None, preset |-> "medium", tune |-> <<>>]

H265Defaults == [threads |-> None, preset |-> "medium", tune |-> <<>>, frame_threads |-> None]

VaapiDefaults(codec) ==
  CASE codec = "H264_VAAPI" ->
         [qp |-> 21, device |-> None, profile |-> "high", b_depth |-> None, async_depth |-> 16]
    [] codec = "H265_VAAPI" ->
         [qp |-> 29, device |-> None, profile |-> None, async_depth |-> None]
    [] codec = "AV1_VAAPI" ->
         [qp |-> 110, device |-> None, profile |-> None, b_depth |-> None, async_depth |-> None]

NvencOptions(qp, preset, tune, profile, b_frames, rc_lookahead) ==
  [qp |-> qp, gpu |-> None, preset |-> preset, tune |-> tune, profile |-> profile,
   b_frames |-> b_frames, rc_lookahead |-> rc_lookahead]

NvencDefaults(codec) ==
  CASE codec = "H264_NVENC" -> NvencOptions(26, "P5", "hq", "high", 1, 32)
    [] codec = "H265_NVENC" -> NvencOptions(25, "P4", None, None, 0, None)
    [] codec = "AV1_NVENC" -> NvencOptions(130, "P7", None, None, 0, None)

Defaults(codec) ==
  CASE codec = "AV1" -> Av1Defaults
    [] codec = "H264" -> H264Defaults
    [] codec = "H265" -> H265Defaults
    [] codec \in VaapiCodec -> VaapiDefaults(codec)
    [] codec \in NvencCodec -> NvencDefaults(codec)

With(defaults, given) ==
  [o \in DOMAIN defaults |-> IF o \in DOMAIN given THEN given[o] ELSE defaults[o]]

(* PyCodecConfig: what its constructors take for an argument that is left out.
   That of h264_nvenc takes the default for None, too.                       *)
py_av1 ==
  [lp |-> None, pin |-> None, preset |-> 10, film_grain |-> None, film_grain_denoise |-> None,
   lookahead |-> None, fast_decode |-> None]

py_h264 == [threads |-> None, preset |-> "medium", tune |-> <<>>]

py_h265 == [threads |-> None, preset |-> "medium", tune |-> <<>>, frame_threads |-> None]

py_h264_vaapi ==
  [qp |-> 21, device |-> None, profile |-> "high", b_depth |-> None, async_depth |-> 16]

py_h265_vaapi == [qp |-> 29, device |-> None, profile |-> None, async_depth |-> None]

py_av1_vaapi ==
  [qp |-> 110, device |-> None, profile |-> None, b_depth |-> None, async_depth |-> None]

py_h264_nvenc == NvencOptions(26, "P5", None, None, 1, None)

py_h265_nvenc == NvencOptions(25, "P4", None, None, 0, None)

py_av1_nvenc == NvencOptions(130, "P7", None, None, 0, None)

PySignature ==
  [AV1 |-> py_av1, H264 |-> py_h264, H265 |-> py_h265,
   H264_VAAPI |-> py_h264_vaapi, H265_VAAPI |-> py_h265_vaapi, AV1_VAAPI |-> py_av1_vaapi,
   H264_NVENC |-> py_h264_nvenc, H265_NVENC |-> py_h265_nvenc, AV1_NVENC |-> py_av1_nvenc]

Or(x, default) == IF x = None THEN default ELSE x

PyOptions(codec, given) ==
  LET o == With(PySignature[codec], given)
  IN  IF codec = "H264_NVENC"
      THEN [o EXCEPT !.tune = Or(@, "hq"), !.profile = Or(@, "high"), !.rc_lookahead = Or(@, 32)]
      ELSE o

YamlOptions(codec, given) == With(Defaults(codec), given)

(* A request names a codec and some of its options, and the rest of the
   configuration; Python offers no resize.                                 *)
Options(request) ==
  IF request.door = "python" THEN PyOptions(request.codec, request.given)
  ELSE YamlOptions(request.codec, request.given)

Config(request) ==
  [codec |-> request.codec, options |-> Options(request),
   fps |-> request.fps, gop |-> request.gop, crf |-> request.crf,
   scaling |-> request.scaling, resize |-> request.resize]

-----------------------------------------------------------------------------
(* VideoEncoderConfig::validate *)

AtMost(x, bound) == x # None => x <= bound

ValidResize(resize) ==
  /\ resize.width > 0 /\ resize.height > 0
  /\ resize.width % 2 = 0 /\ resize.height % 2 = 0

ValidAv1(o) ==
  /\ AtMost(o.film_grain, 50)
  /\ o.lookahead = None \/ o.lookahead \in -1 .. 120
  /\ AtMost(o.fast_decode, 2)

ValidTune(tune, psy) == Cardinality({k \in DOMAIN tune : tune[k] \in psy}) <= 1

ValidQp(codec, o) == o.qp <= IF codec_family_name(codec) = "av1" THEN 255 ELSE 51

ValidNvenc(o, gop) ==
  /\ o.b_frames <= 7
  /\ AtMost(o.rc_lookahead, 120)
  /\ o.b_frames > 0 => gop > o.b_frames + 1

validate(c) ==
  /\ c.fps > 0
  /\ c.gop > 0
  /\ c.resize # None =>
       /\ ValidResize(c.resize)
       /\ uses_ffmpeg_cli_encoder(c.codec) => c.scaling \notin LibraryScale
  /\ c.codec = "AV1" => ValidAv1(c.options)
  /\ c.codec = "H264" => ValidTune(c.options.tune, X264Psy)
  /\ c.codec = "H265" => ValidTune(c.options.tune, X265Psy)
  /\ uses_ffmpeg_cli_encoder(c.codec) => ValidQp(c.codec, c.options)
  /\ c.codec \in NvencCodec => ValidNvenc(c.options, c.gop)

(* preflight asks the machine, too: the files it has, and the encoders of the
   ffmpeg that is called or linked.                                          *)
preflight(c, machine) ==
  /\ validate(c)
  /\ c.codec \in VaapiCodec => Or(c.options.device, DEFAULT_VAAPI_DEVICE) \in machine.files
  /\ c.codec \in NvencCodec =>
       /\ "/dev/nvidiactl" \in machine.files
       /\ {"/dev/nvidia0", "/dev/nvidia-caps"} \cap machine.files # {}
  /\ ffmpeg_encoder_name[c.codec] \in
       IF uses_ffmpeg_cli_encoder(c.codec) THEN machine.ffmpeg ELSE machine.library

output_dimensions(resize, size) == IF resize = None THEN size ELSE resize

-----------------------------------------------------------------------------
(* What the encoder is told. *)

When(o, option, flag) ==
  IF o[option] = None THEN {} ELSE {<<flag, o[option]>>}

(* Faulty: the method of scaling is not passed on. *)
filter_without_flags(c) == IF c.resize = None THEN <<>> ELSE <<c.resize.width, c.resize.height>>

(* the part of a filter that scales: none, or to a size by some method *)
ffmpeg_video_filter(c) ==
  IF c.resize = None THEN <<>>
  ELSE IF c.scaling = "ParamDefault" THEN <<c.resize.width, c.resize.height>>
  ELSE <<c.resize.width, c.resize.height, c.scaling>>

CliArguments(c) ==
  {<<"-framerate", c.fps>>, <<"-vf", ffmpeg_video_filter(c)>>,
   <<"-c:v", ffmpeg_encoder_name[c.codec]>>, <<"-g", c.gop>>}

VaapiArguments(c) ==
  LET o == c.options
      av1 == c.codec = "AV1_VAAPI"
  IN  CliArguments(c)
        \cup {<<"-vaapi_device", Or(o.device, DEFAULT_VAAPI_DEVICE)>>,
              <<"-rc_mode", "CQP">>,
              <<IF av1 THEN "-global_quality" ELSE "-qp", o.qp>>}
        \cup (IF av1 THEN {<<"-profile:v", Or(o.profile, "main")>>}
              ELSE When(o, "profile", "-profile:v"))
        \cup (IF c.codec = "H265_VAAPI" THEN {} ELSE When(o, "b_depth", "-b_depth"))
        \cup When(o, "async_depth", "-async_depth")

NvencArguments(c) ==
  LET o == c.options
  IN  CliArguments(c)
        \cup {<<"-rc", "constqp">>, <<"-qp", o.qp>>, <<"-bf", o.b_frames>>, <<"-preset", o.preset>>}
        \cup (IF o.b_frames > 0 THEN {<<"-b_ref_mode", "middle">>} ELSE {})
        \cup When(o, "rc_lookahead", "-rc-lookahead")
        \cup When(o, "tune", "-tune")
        \cup When(o, "gpu", "-gpu")
        \cup When(o, "profile", "-profile:v")

Av1Options(o) ==
  {<<"lp", IF o.lp \in 1 .. 6 THEN o.lp ELSE 0>>, <<"pin", Or(o.pin, 0)>>, <<"preset", o.preset>>}
    \cup When(o, "film_grain", "film-grain")
    \cup When(o, "film_grain_denoise", "film-grain-denoise")
    \cup When(o, "lookahead", "lookahead")
    \cup When(o, "fast_decode", "fast-decode")

X26Options(o, threads) ==
  {<<"preset", o.preset>>}
    \cup When(o, "threads", threads)
    \cup IF o.tune = <<>> THEN {} ELSE {<<"tune", o.tune>>}

(* the linked library: the options of the codec, and the scaler's method *)
SoftwareArguments(c) ==
  {<<"time_base", c.fps>>, <<"g", c.gop>>, <<"crf", c.crf>>,
   <<"size", ffmpeg_video_filter([c EXCEPT !.scaling = "ParamDefault"])>>,
   <<"scaler", c.scaling>>, <<"codec", ffmpeg_encoder_name[c.codec]>>}
  \cup CASE c.codec = "AV1" -> Av1Options(c.options)
         [] c.codec = "H264" -> X26Options(c.options, "threads")
         [] c.codec = "H265" ->
              X26Options(c.options, "pools") \cup When(c.options, "frame_threads", "frame-threads")

Arguments(c) ==
  CASE c.codec \in SoftwareCodec -> SoftwareArguments(c)
    [] c.codec \in VaapiCodec -> VaapiArguments(c)
    [] c.codec \in NvencCodec -> NvencArguments(c)
=============================================================================
