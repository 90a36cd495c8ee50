------------------------------ MODULE MCTopics ------------------------------
(* Two topics of a bag: one whose messages become a table, or one of depth  *)
(* images.  The images of a single message have every combination of three  *)
(* depths in four pixels; topics of two messages have pictures of different *)
(* sizes, and messages that are garbled, or not what their format says; and *)
(* some topics have a second connection.                                    *)
EXTENDS MCMessages, DepthVideo

Format(encoding, named, codec) == [encoding |-> encoding, transport |-> [named |-> named, codec |-> codec]]
PngFormat == Format("16uc1", TRUE, "png")
RvlFormat == Format("16uc1", TRUE, "rvl")

DepthMessage(f, payload, image) == [ros_format |-> f, payload |-> payload, seen |-> image, connection |-> FALSE]
AsRvl(i) == DepthMessage(RvlFormat, Rvl(i.width, i.height, i.values), i)
AsPng(f, i) == DepthMessage(f, Png("luma16", i.width, i.height, i.values), i)
DepthGarbled(f, payload) == DepthMessage(f, payload, None)
Reconnected(m) == [m EXCEPT !.connection = TRUE]

Near == DepthImage(2, 2, <<1, 2, 3, 4>>)
Far == DepthImage(2, 2, <<0, 4091, 4093, 0>>)
Wide == DepthImage(4, 2, <<0, 0, 700, 702, 0, 701, 65535, 0>>)
Odd == DepthImage(3, 1, <<5, 0, 6>>)

Stream(nibbles) == [kind |-> "rvl", width |-> 2, height |-> 2, stream |-> nibbles]

Unreadable ==
  {DepthGarbled(RvlFormat, p) : p \in
     {Stream(<<0, 4>>),                                     \* ends too early
      Stream(<<5, 0, 0, 0, 0, 0, 0, 0>>),                   \* more pixels than fit
      Stream(<<0, 1, 1, 3, 0, 0, 0, 0>>),                   \* a depth below 0
      Stream(<<0, 15, 15, 15, 15, 15, 15, 15, 15, 0>>),     \* an integer too long
      [Rvl(2, 2, Near.values) EXCEPT !.width = 0],
      [Rvl(2, 2, Near.values) EXCEPT !.height = 4],
      [kind |-> "short"], Png("luma16", 2, 2, Near.values)}}
  \cup {DepthGarbled(PngFormat, p) : p \in {[kind |-> "short"], Png("rgb8", 2, 2, Near.values), Rvl(2, 2, Near.values)}}
  \cup {DepthGarbled(f, Png("luma16", 2, 2, Near.values)) :
          f \in {Format("32fc1", TRUE, "png"), Format("mono16", TRUE, "png"), Format("16uc1", TRUE, "zstd")}}
  \cup {DepthGarbled(f, Rvl(2, 2, Near.values)) : f \in {NoFormat, Format("16uc1", FALSE, "rvl")}}

Readable ==
  {AsRvl(i) : i \in {Near, Far, Wide, Odd}}
  \cup {AsPng(f, Far) : f \in {NoFormat, PngFormat, Format("16uc1", TRUE, ""), Format("16uc1", FALSE, "jpeg")}}
  \cup {AsPng(PngFormat, Odd)}

MCDepthTopics ==
  {<<>>} \cup {<<AsRvl(DepthImage(2, 2, v))>> : v \in [1 .. 4 -> {0, 700, 65535}]}
  \cup {<<m, AsRvl(Near)>> : m \in Readable \cup Unreadable}
  \cup {<<AsRvl(Near), m>> : m \in Readable \cup Unreadable}
  \cup {<<AsRvl(Odd), AsRvl(Odd)>>}
  \cup {<<AsRvl(Near), Reconnected(AsRvl(Far))>>, <<AsRvl(Near), AsRvl(Far), Reconnected(AsRvl(Far))>>}

DepthAsked(door, codec, options, given) == [door |-> door, codec |-> codec, options |-> options, given |-> given]

(* One option, set to something else. *)
DepthGiven(codec) ==
  LET Values(o) == CASE o = "qp" -> {0, 51, 52, 255}
                     [] o \in {"crf", "preset"} -> IF codec = "AV1" THEN {0, 13, 63, 64} ELSE {"P1"}
                     [] o = "global_quality" -> {0, 256}
                     [] o = "device" -> {"/dev/dri/renderD129"}
                     [] o = "tune" -> {"hq"}
                     [] o \in {"gpu", "b_frames", "rc_lookahead"} -> {0, 1, 121}
  IN  {<<>>} \cup UNION {{o :> v : v \in Values(o)} : o \in DOMAIN DepthDefaults[codec]}

MCDepthRequests ==
  UNION {{DepthAsked(door, codec, given, <<>>) : given \in DepthGiven(codec)} :
           <<door, codec>> \in {"yaml", "python"} \X DepthCodec}
  \cup {DepthAsked(door, None, <<>>, given) : door \in {"yaml", "python"}, given \in
          {<<>>, "fps" :> 15, "fps" :> 0} \cup {"depth_max_mm" :> max : max \in {0, 1, 700, 65535}}}
  \cup {DepthAsked("yaml", "FFV1", <<>>, "depth_max_mm" :> 0)}

MCDepthMachine ==
  [files |-> {DEFAULT_VAAPI_DEVICE, "/dev/nvidiactl", "/dev/nvidia0"},
   ffmpeg |-> {depth_encoder_name[c] : c \in DepthCodec}]

(* The bag has the one topic or the other. *)
ToDepth == text = Mixed /\ generation = "ROS1"
TopicsInit ==
  /\ Init /\ DepthInit
  /\ depth_request = DepthAsked("yaml", None, <<>>, <<>>) \/ ToDepth

OnMessages == depth_stage = "ingest" /\ depth_request = DepthAsked("yaml", None, <<>>, <<>>) /\ Next /\ UNCHANGED depthVars
OnDepth == stage = "new" /\ ToDepth /\ DepthNext /\ UNCHANGED vars

TopicsSpec == TopicsInit /\ [][OnMessages \/ OnDepth]_<<vars, depthVars>>
=============================================================================
