--------------------------- MODULE CompressedDepth ---------------------------
(***************************************************************************)
(* Depth images as ROS sends them (`compressedDepth`): the text that names *)
(* their format, and a payload that is a PNG or RVL: alternating runs of   *)
(* missing and other depths, with the differences of the latter.           *)
(*                                                                         *)
(* A format is [encoding, transport], lower case and without blanks, where *)
(* the transport is [named, codec]: named is whether it mentions           *)
(* "compressedDepth".  A payload is [kind, ..]: "png" with colors, width,  *)
(* height and values, "rvl" with width, height and stream, or "short".     *)
(* What is decoded is a depth image [width, height, values].               *)
(***************************************************************************)
EXTENDS Integers, SequencesExt, FiniteSetsExt

CONSTANT
  IntLimit  \* the integers in an RVL stream are below it: 2^32 in the code

ASSUME CompressedDepthAssumption == IntLimit \in Nat /\ IntLimit \div 131072 \in 1 .. 32768

U16Max == 65535

Invalid == [kind |-> "invalid"]
Abort == [kind |-> "abort"]  \* more memory is asked for than there is

DepthImage(width, height, values) == [kind |-> "image", width |-> width, height |-> height, values |-> values]

-----------------------------------------------------------------------------
(* CompressedDepthFormat::parse *)

(* "rvl" alone is not a transport: only the full name is. *)
normalize_transport_suffix(transport) ==
  IF ~transport.named \/ transport.codec = "" THEN "png" ELSE transport.codec

ParseFormat(f) ==
  LET codec == normalize_transport_suffix(f.transport)
  IN  CASE f.encoding = "16uc1" /\ codec = "png" -> "Depth16Png"
        [] f.encoding = "16uc1" /\ codec = "rvl" -> "Depth16Rvl"
        [] f.encoding = "32fc1" /\ codec = "png" -> "Depth32FPng"
        [] OTHER -> "unsupported"

(* of a message that came without a format *)
NoFormat == [encoding |-> "unknown"]

resolve_format_or_sniff_png(ros_format, payload) ==
  IF ros_format # NoFormat THEN ParseFormat(ros_format)
  ELSE IF payload.kind = "png" THEN "Depth16Png" ELSE "unsupported"

-----------------------------------------------------------------------------
(* The stream of an RVL payload is a sequence of nibbles; a reader of it is
   [pos, out, previous, ok].                                               *)

decode_zigzag_delta(encoded) == IF encoded % 2 = 0 THEN encoded \div 2 ELSE -(encoded \div 2) - 1

(* What is left of an integer after so many of its nibbles, of three bits each,
   the lowest first; and how many there are.                                 *)
Left(value) ==
  LET left[k \in 0 .. 11] == IF k = 0 THEN value ELSE left[k - 1] \div 8
  IN  left

Nibbles(value) == Min({k \in 1 .. 11 : Left(value)[k] = 0})

(* [value, pos, ok].  What the last nibble has beyond the width is shifted out. *)
decode_vle(stream, pos) ==
  LET lasts == {i \in pos .. Len(stream) : stream[i] < 8}
      last == Min(lasts)
      value[i \in pos .. last] == (stream[i] % 8) + (IF i = last THEN 0 ELSE 8 * value[i + 1])
  IN  IF lasts = {} \/ last - pos >= Nibbles(IntLimit - 1) THEN [value |-> 0, pos |-> pos, ok |-> FALSE]
      ELSE [value |-> value[pos] % IntLimit, pos |-> last + 1, ok |-> TRUE]

extend_zero_run(stream, pixel_count, r) ==
  LET run == decode_vle(stream, r.pos)
      fits == Len(r.out) + run.value <= pixel_count
  IN  IF run.ok /\ fits
      THEN [r EXCEPT !.pos = run.pos, !.out = @ \o [i \in 1 .. run.value |-> 0]]
      ELSE [r EXCEPT !.ok = FALSE]

(* Faulty: the differences begin anew with each run. *)
NextValueOfRun(stream, r) ==
  LET encoded == decode_vle(stream, r.pos)
      before == IF r.out # <<>> /\ Last(r.out) # 0 THEN r.previous ELSE 0
      current == before + decode_zigzag_delta(encoded.value)
  IN  IF r.ok /\ encoded.ok /\ current \in 0 .. U16Max
      THEN [r EXCEPT !.pos = encoded.pos, !.previous = current, !.out = Append(@, current)]
      ELSE [r EXCEPT !.ok = FALSE]

decode_next_depth_value(stream, r) ==
  LET encoded == decode_vle(stream, r.pos)
      current == r.previous + decode_zigzag_delta(encoded.value)
  IN  IF r.ok /\ encoded.ok /\ current \in 0 .. U16Max
      THEN [r EXCEPT !.pos = encoded.pos, !.previous = current, !.out = Append(@, current)]
      ELSE [r EXCEPT !.ok = FALSE]

extend_nonzero_run(stream, pixel_count, r) ==
  LET run == decode_vle(stream, r.pos)
      fits == Len(r.out) + run.value <= pixel_count
      read[n \in 0 .. run.value] ==
        IF n = 0 THEN [r EXCEPT !.pos = run.pos] ELSE decode_next_depth_value(stream, read[n - 1])
  IN  IF r.ok /\ run.ok /\ fits THEN read[run.value] ELSE [r EXCEPT !.ok = FALSE]

(* One time through the loop, if it is not over. *)
extend_runs(stream, pixel_count, r) ==
  IF ~r.ok \/ Len(r.out) = pixel_count THEN r
  ELSE extend_nonzero_run(stream, pixel_count, extend_zero_run(stream, pixel_count, r))

(* Each takes two nibbles at least. *)
decode_rvl_stream(stream, pixel_count) ==
  LET round[m \in 0 .. Len(stream)] ==
        IF m = 0 THEN [pos |-> 1, out |-> <<>>, previous |-> 0, ok |-> TRUE]
        ELSE extend_runs(stream, pixel_count, round[m - 1])
      end == round[Len(stream)]
  IN  [end EXCEPT !.ok = @ /\ Len(end.out) = pixel_count]

(* The buffer for the pixels is allocated for the size the payload states:
   that which the first bytes of a PNG state is beyond any memory.           *)
decode_rvl_depth(payload) ==
  CASE payload.kind = "short" -> Invalid
    [] payload.kind = "png" -> Abort
    [] payload.kind = "rvl" ->
         IF payload.width = 0 \/ payload.height = 0 THEN Invalid
         ELSE LET end == decode_rvl_stream(payload.stream, payload.width * payload.height)
              IN  IF end.ok THEN DepthImage(payload.width, payload.height, end.out) ELSE Invalid

decode_png_depth(payload) ==
  IF payload.kind # "png" \/ payload.colors # "luma16" THEN Invalid
  ELSE DepthImage(payload.width, payload.height, payload.values)

decode_depth_frame(frame) ==
  LET f == resolve_format_or_sniff_png(frame.ros_format, frame.payload)
  IN  CASE f = "Depth16Png" -> decode_png_depth(frame.payload)
        [] f = "Depth16Rvl" -> decode_rvl_depth(frame.payload)
        [] OTHER -> Invalid

-----------------------------------------------------------------------------
(* How the sender makes RVL, as the repository's fixture does. *)

encode_rvl_vle(value) ==
  [i \in 1 .. Nibbles(value) |-> (Left(value)[i - 1] % 8) + (IF i < Nibbles(value) THEN 8 ELSE 0)]

zigzag(delta) == IF delta >= 0 THEN 2 * delta ELSE -2 * delta - 1

Missing(values, i) == i \in DOMAIN values /\ values[i] = 0
Known(values, i) == i \in DOMAIN values /\ values[i] # 0

(* A round: missing depths from i, others from zeros(i), up to before others(i). *)
Starts(values, i) == i = 1 \/ (Missing(values, i) /\ Known(values, i - 1))
ZerosEnd(values, i) == Min({k \in i .. Len(values) + 1 : ~Missing(values, k)})
RunEnd(values, i) == Min({k \in ZerosEnd(values, i) .. Len(values) + 1 : ~Known(values, k)})

(* The depth before, which the difference is from. *)
Previous(values, i) ==
  LET before == {k \in 1 .. i - 1 : Known(values, k)}
  IN  IF before = {} THEN 0 ELSE values[Max(before)]

(* What is pushed at a pixel: the lengths of the runs of a round, its difference. *)
PixelNibbles(values, i) ==
  (IF Starts(values, i)
   THEN encode_rvl_vle(ZerosEnd(values, i) - i) \o encode_rvl_vle(RunEnd(values, i) - ZerosEnd(values, i))
   ELSE <<>>)
  \o (IF Known(values, i) THEN encode_rvl_vle(zigzag(values[i] - Previous(values, i))) ELSE <<>>)

(* and the last word is filled up *)
encode_rvl_stream(values) ==
  LET nibbles == FlattenSeq([i \in DOMAIN values |-> PixelNibbles(values, i)])
  IN  nibbles \o [k \in 1 .. (8 - (Len(nibbles) % 8)) % 8 |-> 0]

Rvl(width, height, values) ==
  [kind |-> "rvl", width |-> width, height |-> height, stream |-> encode_rvl_stream(values)]

Png(colors, width, height, values) ==
  [kind |-> "png", colors |-> colors, width |-> width, height |-> height, values |-> values]
=============================================================================
