----------------------------- MODULE MCMessages -----------------------------
(* Definitions such as bags hold: nested and repeated structs, values of    *)
(* every size in an order that needs padding, constants, and the types the  *)
(* definitions cannot express, or are taken for others.                     *)
EXTENDS RosMessages

N(pkg, short) == [pkg |-> pkg, short |-> short]
Line(name, of, shape, length) ==
  [constant |-> FALSE, name |-> name, of |-> of, shape |-> shape, length |-> length, equals |-> FALSE, bracket |-> FALSE]
L1(of) == Line("x", N("", of), "one", 0)
LSeq(of) == Line("xs", N("", of), "sequence", 0)
LArr(of, n) == Line("a", N("", of), "array", n)
Const(of, bracket) == [L1(of) EXCEPT !.constant = TRUE, !.equals = TRUE, !.bracket = bracket]
S(name, lines) == [name |-> name, lines |-> lines]
Text(topic, suffix, sections) ==
  [topic |-> topic, suffix |-> suffix, sections |-> sections, generations |-> {"ROS1", "ROS2"}]

HeaderName == N("std_msgs", "Header")
HeaderLine == Line("header", HeaderName, "one", 0)
StdHeader(g) ==
  S(HeaderName, (IF g = "ROS1" THEN <<L1("uint32")>> ELSE <<>>) \o <<Line("stamp", N("", "time"), "one", 0), L1("string")>>)
DataLine == Line("data", N("", "uint8"), "sequence", 0)

Mixed == Text("plain", "other",
  << S(N("p", "Mixed"), <<Const("uint8", FALSE), HeaderLine, L1("bool"), L1("uint16"), L1("int8"), L1("float64"),
                          LSeq("string"), L1("byte"), L1("int64"), LArr("float32", 2)>>), StdHeader("ROS1") >>)
Nested == Text("plain", "other",
  << S(N("p", "Nested"), <<L1("uint8"), Line("ps", N("p", "Pair"), "sequence", 0), L1("int16"), Line("t", N("", "duration"), "one", 0)>>),
     S(N("p", "Pair"), <<L1("int8"), LSeq("uint64"), Line("v", N("q", "Vector"), "one", 0)>>),
     S(N("q", "Vector"), <<L1("float64"), L1("bool")>>) >>)
Numbers == Text("plain", "other", << S(N("p", "Numbers"), <<L1("uint8"), L1("float64"), LArr("uint16", 2), L1("int32")>>) >>)
Chars(l) == Text("plain", "other", << S(N("p", "Chars"), <<L1("int32"), l>>) >>)
Corners == Text("plain", "other",
  << S(N("p", "Corners"), <<Line("cs", N("p", "Point"), "array", 2)>>), S(N("p", "Point"), <<L1("float32")>>) >>)
Bounded == Text("plain", "other", << S(N("p", "Bounded"), <<Line("xs", N("", "int32"), "bounded", 0)>>) >>)
(* Rosbag2Ingestor passes over a topic without definition. *)
Empty == [Text("plain", "other", << S(N("std_msgs", "Empty"), <<>>) >>) EXCEPT !.generations = {"ROS1"}]
HoldsEmpty == Text("plain", "other", << S(N("p", "HoldsEmpty"), <<Line("e", N("p", "Nothing"), "one", 0), L1("bool")>>), S(N("p", "Nothing"), <<>>) >>)
TwoPoses == Text("plain", "other",
  << S(N("p", "TwoPoses"), <<Line("a", N("p", "Pose"), "one", 0), Line("b", N("q", "Pose"), "one", 0)>>),
     S(N("p", "Pose"), <<L1("float32")>>), S(N("q", "Pose"), <<L1("uint16"), L1("uint16")>>) >>)
OwnName == Text("plain", "other", << S(N("p", "Pose"), <<Line("pose", N("q", "Pose"), "one", 0)>>), S(N("q", "Pose"), <<L1("float64")>>) >>)
Hidden == Text("plain", "other", << S(N("p", "Hidden"), <<[L1("uint8") EXCEPT !.equals = TRUE], Const("uint16", TRUE), L1("uint8")>>) >>)

(* ROS1 has no rule against such a name. *)
MCPrefixed == [stringStamped |-> "string", byteVec |-> "byte"]
Stamp == Text("plain", "other",
  << S(N("p", "Stamp"), <<L1("uint8"), Line("s", N("p", "stringStamped"), "one", 0), L1("bool")>>),
     S(N("p", "stringStamped"), <<L1("int32"), L1("string")>>) >>)
Vectors == Text("plain", "other",
  << S(N("p", "Vectors"), <<Line("vs", N("p", "byteVec"), "sequence", 0), L1("uint16")>>),
     S(N("p", "byteVec"), <<L1("float64")>>) >>)

CompressedText(g) == Text("compressed", "CompressedImage",
  << S(N("sensor_msgs", "CompressedImage"), <<HeaderLine, L1("string"), DataLine>>), StdHeader(g) >>)
ImageLines == <<HeaderLine, L1("uint32"), L1("uint32"), L1("string"), L1("uint8"), L1("uint32"), DataLine>>
ImageText(g) == Text("plain", "Image", << S(N("sensor_msgs", "Image"), ImageLines), StdHeader(g) >>)
Disparity(g) == Text("plain", "Image",
  << S(N("stereo_msgs", "DisparityImage"), <<HeaderLine, Line("image", N("sensor_msgs", "Image"), "one", 0), L1("float32")>>),
     StdHeader(g), S(N("sensor_msgs", "Image"), ImageLines) >>)
Longer(g) == Text("plain", "Image", << S(N("p", "StampedImage"), Append(ImageLines, L1("float32"))), StdHeader(g) >>)
Cloud(g) == Text("plain", "PointCloud2",
  << S(N("sensor_msgs", "PointCloud2"),
       <<HeaderLine, L1("uint32"), L1("uint32"), Line("fields", N("sensor_msgs", "PointField"), "sequence", 0),
         L1("bool"), L1("uint32"), L1("uint32"), DataLine, L1("bool")>>),
     StdHeader(g), S(N("sensor_msgs", "PointField"), <<Const("uint8", FALSE), L1("string"), L1("uint32"), L1("uint8"), L1("uint32")>>) >>)

Stamped(g) == <<CompressedText(g), ImageText(g), Disparity(g), Longer(g), Cloud(g)>>

MCTexts ==
  {Mixed, Nested, Numbers, Chars(L1("char")), Chars(LSeq("char")), Chars(LArr("char", 2)), Chars(L1("wstring")), Corners, Bounded, Empty, HoldsEmpty,
   TwoPoses, OwnName, Hidden} \cup
  {[t EXCEPT !.generations = {"ROS1"}] : t \in {Stamp, Vectors}} \cup
  {[Stamped(g)[i] EXCEPT !.generations = {g}] : g \in {"ROS1", "ROS2"}, i \in 1 .. 5}
=============================================================================
