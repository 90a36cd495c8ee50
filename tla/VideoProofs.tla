---------------------------- MODULE VideoProofs ----------------------------
(***************************************************************************)
(* The way of a topic's images: that every call of the decoder is answered *)
(* with the frame it asks for, that what the registry names is whole, that *)
(* the frames of an episode are those of its rows, and that what is asked  *)
(* of an encoder is what it is told.  And of depth images: that a depth    *)
(* survives its quantization, an image its RVL stream, and a topic its     *)
(* video and its raw files.                                                *)
(*                                                                         *)
(* The three first are parts of VideoInv, or follow from it.  It relates   *)
(* the lists that are ingested to the rows and the messages, what the      *)
(* encoder was given to the images, the file to the registry, and the      *)
(* decoder's position to the calls so far; a lemma for each action says    *)
(* why the action keeps it.  Before it come the lemmas about the operators *)
(* that are used: smallest and largest numbers, the decoder's search, the  *)
(* frames that can be read, an encoder that is given one frame more.       *)
(*                                                                         *)
(* An RVL stream is read by functions on the numbers of its nibbles, of    *)
(* its pixels and of its rounds: what they are at each number follows by   *)
(* induction (SetInduction, UpTo), and from it what they give in the end.  *)
(* DepthInv relates what was ingested to what was seen, the samples in the *)
(* pipe to the images so far, the file to the images, and the frames that  *)
(* came out of it to what went in.                                         *)
(***************************************************************************)
EXTENDS VideoRoundTrip, DepthVideo, SequenceTheorems, FiniteSetTheorems, WellFoundedInduction, TLAPS

LEMMA SetInduction ==
  ASSUME NEW S, S \subseteq Nat, 0 \in S, \A n \in S : n + 1 \in S
  PROVE  S = Nat
<1> SUFFICES ASSUME Nat \ S # {} PROVE FALSE
  OBVIOUS
<1> DEFINE R == OpToRel(<, Nat)  T == Nat \ S
<1>1. IsWellFoundedOn(R, Nat)
  BY NatLessThanWellFounded
<1>2. \E x \in T : \A y \in T : ~ (<<y, x>> \in R)
  <2> HIDE DEF R
  <2> QED BY <1>1, WFMin
<1>3. \A y, x \in Nat : <<y, x>> \in R <=> y < x
  BY DEF OpToRel
<1>4. PICK x \in T : \A y \in T : ~ (y < x)
  BY <1>2, <1>3
<1>5. x # 0 /\ x - 1 \in Nat /\ x - 1 \in S
  BY <1>4
<1> QED BY <1>5, <1>4

(* Induction up to a bound. *)
LEMMA UpTo ==
  ASSUME NEW n \in Nat, NEW S, 0 \in S, \A i \in 0 .. n - 1 : i \in S => i + 1 \in S
  PROVE  \A i \in 0 .. n : i \in S
<1> DEFINE U == {i \in Nat : i <= n => i \in S}
<1>1. U \subseteq Nat /\ 0 \in U
  OBVIOUS
<1>2. \A i \in U : i + 1 \in U
  OBVIOUS
<1>3. U = Nat
  <2> HIDE DEF U
  <2> QED BY <1>1, <1>2, SetInduction
<1> QED BY <1>3

(* g is computed from c by n steps of D. *)
Computes(g, n, V, c, D) ==
  /\ g \in [0 .. n -> V]
  /\ g[0] = c
  /\ \A i \in 1 .. n : g[i] = D[<<g[i - 1], i>>]

(* What is defined by recursion exists: values from V, step by step. *)
LEMMA Recursion ==
  ASSUME NEW n \in Nat, NEW V, NEW c \in V, NEW D \in [V \X (1 .. n) -> V]
  PROVE  \E g : Computes(g, n, V, c, D)
<1> DEFINE Up(m, g) ==
             g \in [0 .. m -> V] /\ g[0] = c /\ \A i \in 1 .. m : g[i] = D[<<g[i - 1], i>>]
           S == {m \in 0 .. n : \E g : Up(m, g)}
<1>1. 0 \in S
  <2>1. Up(0, [i \in 0 .. 0 |-> c])
    OBVIOUS
  <2> HIDE DEF Up
  <2> QED BY <2>1
<1>2. ASSUME NEW m \in 0 .. n - 1, m \in S PROVE m + 1 \in S
  <2>1. PICK g : Up(m, g)
    BY <1>2
  <2> DEFINE h == [i \in 0 .. m + 1 |-> IF i = m + 1 THEN D[<<g[m], m + 1>>] ELSE g[i]]
  <2>2. D[<<g[m], m + 1>>] \in V
    BY <2>1
  <2>3. h \in [0 .. m + 1 -> V] /\ h[0] = c
    BY <2>1, <2>2
  <2>4. ASSUME NEW i \in 1 .. m + 1 PROVE h[i] = D[<<h[i - 1], i>>]
    <3>1. CASE i = m + 1
      <4>1. h[i - 1] = g[m]
        BY <3>1
      <4>2. h[i] = D[<<g[m], m + 1>>]
        BY <3>1
      <4> HIDE DEF h
      <4> QED BY <4>1, <4>2, <3>1
    <3>2. CASE i # m + 1
      <4>1. i \in 1 .. m /\ h[i - 1] = g[i - 1]
        BY <3>2
      <4>2. h[i] = g[i]
        BY <3>2
      <4> HIDE DEF h
      <4> QED BY <4>1, <4>2, <2>1
    <3> QED BY <3>1, <3>2
  <2>5. Up(m + 1, h)
    BY <2>3, <2>4
  <2> HIDE DEF Up, h
  <2> QED BY <2>5
<1>3. n \in S
  <2> HIDE DEF S
  <2> QED BY <1>1, <1>2, UpTo
<1> QED BY <1>3 DEF Computes

(* Smallest and largest numbers *)

LEMMA MinIs ==
  ASSUME NEW S, S \subseteq Nat, S # {}
  PROVE  Min(S) \in S /\ \A y \in S : Min(S) <= y
<1> DEFINE R == OpToRel(<, Nat)
<1>1. IsWellFoundedOn(R, Nat)
  BY NatLessThanWellFounded
<1>2. \E x \in S : \A y \in S : ~ (<<y, x>> \in R)
  <2> HIDE DEF R
  <2> QED BY <1>1, WFMin
<1>3. \A y, x \in Nat : <<y, x>> \in R <=> y < x
  BY DEF OpToRel
<1>4. \E x \in S : \A y \in S : x <= y
  <2>1. PICK x \in S : \A y \in S : ~ (y < x)
    BY <1>2, <1>3
  <2> QED BY <2>1
<1> QED BY <1>4 DEF Min

LEMMA MaxIs ==
  ASSUME NEW m \in Nat, NEW S, S \subseteq 0 .. m, S # {}
  PROVE  Max(S) \in S /\ \A y \in S : y <= Max(S)
<1> DEFINE T == {m - y : y \in S}
<1>1. T \subseteq Nat /\ T # {}
  <2>1. \A y \in S : y \in 0 .. m
    OBVIOUS
  <2>2. \A y \in S : m - y \in Nat
    BY <2>1
  <2> QED BY <2>2
<1>2. Min(T) \in T /\ \A z \in T : Min(T) <= z
  <2> HIDE DEF T
  <2> QED BY <1>1, MinIs
<1>3. PICK x \in S : m - x = Min(T)
  BY <1>2
<1>4. \A y \in S : m - x <= m - y
  BY <1>2, <1>3
<1>5. \E z \in S : \A y \in S : z >= y
  BY <1>4
<1> QED BY <1>5 DEF Max

(***************************************************************************)
(* The decoder.                                                            *)
(***************************************************************************)
LEMMA PtsOrder ==
  ASSUME NEW i \in Nat, NEW j \in Nat
  PROVE  /\ Pts(i) \in Nat
         /\ Pts(i) <= Pts(j) <=> i <= j
         /\ i < j => Pts(i) + FrameDuration <= Pts(j)
<1>1. FrameDuration \in Nat /\ FrameDuration > 0
  BY DecoderAssumption
<1>2. \A d, a \in Nat : (a + 1 + d) * FrameDuration = a * FrameDuration + FrameDuration + d * FrameDuration
  BY <1>1
<1>3. \A d \in Nat : d * FrameDuration \in Nat
  BY <1>1
<1>4. \A a, b \in Nat : a < b => a * FrameDuration + FrameDuration <= b * FrameDuration
  <2> SUFFICES ASSUME NEW a \in Nat, NEW b \in Nat, a < b
               PROVE  a * FrameDuration + FrameDuration <= b * FrameDuration
    OBVIOUS
  <2>1. b - a - 1 \in Nat /\ b = a + 1 + (b - a - 1)
    OBVIOUS
  <2>2. b * FrameDuration = a * FrameDuration + FrameDuration + (b - a - 1) * FrameDuration
    BY <1>2, <2>1
  <2>3. (b - a - 1) * FrameDuration \in Nat /\ a * FrameDuration \in Nat /\ b * FrameDuration \in Nat
    BY <1>3, <2>1
  <2> QED BY <1>1, <2>2, <2>3
<1>5. Pts(i) = i * FrameDuration /\ Pts(j) = j * FrameDuration
  BY DEF Pts
<1>6. i * FrameDuration \in Nat /\ j * FrameDuration \in Nat
  BY <1>3
<1>7. i < j => i * FrameDuration + FrameDuration <= j * FrameDuration
  BY <1>4
<1>8. j < i => j * FrameDuration + FrameDuration <= i * FrameDuration
  BY <1>4
<1> QED BY <1>1, <1>5, <1>6, <1>7, <1>8

(* A target lies after every frame before the one it stands for. *)
LEMMA TargetIs ==
  ASSUME NEW index \in Nat, NEW t \in TargetPts(index)
  PROVE  /\ t \in Nat /\ t <= Pts(index)
         /\ \A i \in Nat : Pts(i) >= t <=> i >= index
<1>1. Pts(index) \in Nat
  BY PtsOrder
<1>2. CASE t = Pts(index)
  BY <1>1, <1>2, PtsOrder
<1>3. CASE t = Pts(index) - 1 /\ index > 0
  <2>1. Pts(0) + FrameDuration <= Pts(index) /\ Pts(0) \in Nat
        /\ FrameDuration \in Nat /\ FrameDuration > 1
    BY <1>3, PtsOrder, DecoderAssumption
  <2>2. \A i \in Nat : i < index => Pts(i) \in Nat /\ Pts(i) + FrameDuration <= Pts(index)
    BY PtsOrder
  <2>3. \A i \in Nat : i >= index => Pts(i) \in Nat /\ Pts(index) <= Pts(i)
    BY PtsOrder
  <2> QED BY <1>1, <1>3, <2>1, <2>2, <2>3
<1>4. Pts(0) = 0
  BY DecoderAssumption DEF Pts
<1> QED BY <1>2, <1>3, <1>4 DEF TargetPts

(* The last frame that can come out before the codec is flushed. *)
LastOut == Len(input) - 1 - Delay

(* From a frame that is not past the one it looks for, the search finds it, if it
   comes out at all; from the frames that are kept back it finds nothing.     *)
LEMMA Searches ==
  ASSUME input \in Seq(Frames), NEW index \in Nat, NEW t \in TargetPts(index),
         NEW from, NEW frame \in Nat, NEW none, frame <= index \/ frame > LastOut,
         DecodeUntil(from, frame, t, none)
  PROVE  \/ /\ frame <= index /\ index <= LastOut
            /\ answer' = input[index + 1] /\ answer' \in Frames
            /\ next_frame' = index + 1 /\ last_decoded_pts' = Pts(index)
         \/ /\ frame > LastOut \/ index > LastOut
            /\ answer' = NoFrame
            /\ next_frame' \in Nat /\ next_frame' > LastOut
            /\ last_decoded_pts' = none
<1> DEFINE found == {i \in frame .. Len(input) - 1 - Delay : Pts(i) >= t}
<1>1. LastOut \in Int /\ Len(input) \in Nat /\ Delay \in Nat /\ LastOut = Len(input) - 1 - Delay
  BY DecoderAssumption DEF LastOut
<1>2. found = {i \in frame .. LastOut : i >= index}
  BY <1>1, TargetIs
<1>3. CASE frame <= index /\ index <= LastOut
  <2>1. index \in found /\ found \subseteq Nat /\ \A i \in found : index <= i
    BY <1>1, <1>2, <1>3
  <2> HIDE DEF found
  <2>2. Min(found) = index
    <3>1. Min(found) \in found /\ Min(found) <= index
      BY <2>1, MinIs
    <3>2. Min(found) \in Nat /\ index <= Min(found)
      BY <2>1, <3>1
    <3> QED BY <3>1, <3>2
  <2>3. found # {}
    BY <2>1
  <2>4. answer' = Frame(index) /\ next_frame' = index + 1 /\ last_decoded_pts' = Pts(index)
    BY <2>2, <2>3 DEF DecodeUntil, found
  <2>5. index + 1 \in 1 .. Len(input)
    BY <1>1, <1>3
  <2>6. input[index + 1] \in Frames
    BY <2>5, ElementOfSeq
  <2> QED BY <1>3, <2>4, <2>6 DEF Frame
<1>4. CASE frame > LastOut \/ index > LastOut
  <2>1. found = {}
    BY <1>1, <1>2, <1>4
  <2> HIDE DEF found
  <2>2. answer' = NoFrame /\ next_frame' = Max({frame, Len(input) - Delay}) /\ last_decoded_pts' = none
    BY <2>1 DEF DecodeUntil, found
  <2>3. Max({frame, Len(input) - Delay}) \in Nat /\ Max({frame, Len(input) - Delay}) >= Len(input) - Delay
    <3>1. PICK later \in {frame, Len(input) - Delay} : later >= frame /\ later >= Len(input) - Delay
      BY <1>1
    <3>2. \E x \in {frame, Len(input) - Delay} : \A y \in {frame, Len(input) - Delay} : x >= y
      BY <3>1
    <3>3. /\ Max({frame, Len(input) - Delay}) \in {frame, Len(input) - Delay}
          /\ \A y \in {frame, Len(input) - Delay} : Max({frame, Len(input) - Delay}) >= y
      BY <3>2 DEF Max
    <3> QED BY <1>1, <3>3
  <2> QED BY <1>1, <1>4, <2>2, <2>3
<1> QED BY <1>1, <1>3, <1>4

(* A seek goes to a frame that is not past the one it looks for. *)
LEMMA Seeks ==
  ASSUME input \in Seq(Frames), NEW index \in Nat, NEW t \in TargetPts(index)
  PROVE  Keyframe(t) \in Nat /\ Keyframe(t) <= index
<1> DEFINE S == {k \in 0 .. Len(input) : k % KeyframeEvery = 0 /\ Pts(k) <= Max({t, 0})}
<1>1. t \in Nat /\ t <= Pts(index) /\ Pts(index) \in Nat
  BY TargetIs, PtsOrder
<1>2. Max({t, 0}) = t
  <2>1. \A x \in {t, 0} : (\A y \in {t, 0} : x >= y) <=> x = t
    BY <1>1
  <2> QED BY <2>1 DEF Max
<1>3. 0 \in S
  <2>1. Pts(0) = 0
    BY DecoderAssumption DEF Pts
  <2>2. 0 % KeyframeEvery = 0
    BY DecoderAssumption
  <2> QED BY <1>1, <1>2, <2>1, <2>2
<1>4. S \subseteq 0 .. Len(input) /\ Len(input) \in Nat
  OBVIOUS
<1>5. Max(S) \in S
  <2> HIDE DEF S
  <2> QED BY <1>3, <1>4, MaxIs
<1>6. Keyframe(t) = Max(S)
  BY DEF Keyframe
<1>7. Max(S) \in Nat /\ Pts(Max(S)) <= t
  BY <1>2, <1>5
<1> QED BY <1>1, <1>6, <1>7, PtsOrder

(* Where the decoder is: it gave out frame p last, or it ran into the end of the
   file since and is lost.                                                    *)
Position(p, lost) ==
  /\ p \in 0 .. LastOut
  /\ last_decoded_pts = Pts(p)
  /\ next_frame = p + 1 \/ (lost /\ next_frame \in Nat /\ next_frame > LastOut)

CacheOk ==
  last_frame_cache.index # -1 =>
    /\ last_frame_cache.index \in 0 .. LastOut
    /\ last_frame_cache.image = input[last_frame_cache.index + 1]

(* What a call finds, and where it leaves the decoder, from frame p or anywhere. *)
Found(index, p, lost) ==
  /\ answer' # NoFrame =>
       index <= LastOut /\ answer' = input[index + 1] /\ answer' \in Frames
  /\ answer' = NoFrame => index > LastOut \/ (last_decoded_pts # NoPts /\ lost /\ index > p)
  /\ \/ last_decoded_pts' = NoPts
     \/ answer' # NoFrame /\ Position(index, FALSE)'
     \/ answer' = NoFrame /\ last_decoded_pts # NoPts /\ Position(p, TRUE)'
     \/ answer' # NoFrame /\ last_decoded_pts # NoPts /\ Position(p, lost)'

LEMMA FramesAreSome == ASSUME NEW f \in Frames PROVE f # NoFrame
<1>1. f.n \in Nat
  BY DEF Frames
<1>2. NoFrame.n = -1
  BY DEF NoFrame
<1> QED BY <1>1, <1>2

LEMMA SeekFinds ==
  ASSUME input \in Seq(Frames), UNCHANGED input, NEW index \in Nat, NEW t \in TargetPts(index),
         SeekAndDecode(t), NEW p, NEW lost
  PROVE  Found(index, p, lost) /\ (answer' = NoFrame => last_decoded_pts' = NoPts)
<1>1. Keyframe(t) \in Nat /\ Keyframe(t) <= index
  BY Seeks
<1>2. DecodeUntil(Keyframe(t), Keyframe(t), t, NoPts)
  BY DEF SeekAndDecode
<1>3. LastOut \in Int /\ LastOut' = LastOut
  BY DecoderAssumption DEF LastOut
<1>4. \/ /\ index <= LastOut
         /\ answer' = input[index + 1] /\ answer' \in Frames
         /\ next_frame' = index + 1 /\ last_decoded_pts' = Pts(index)
      \/ /\ Keyframe(t) > LastOut \/ index > LastOut
         /\ answer' = NoFrame /\ last_decoded_pts' = NoPts
  BY <1>1, <1>2, Searches
<1>5. CASE /\ index <= LastOut
           /\ answer' = input[index + 1] /\ answer' \in Frames
           /\ next_frame' = index + 1 /\ last_decoded_pts' = Pts(index)
  <2>1. answer' # NoFrame
    BY <1>5, FramesAreSome
  <2>2. Position(index, FALSE)'
    BY <1>3, <1>5 DEF Position, Pts
  <2> QED BY <1>5, <2>1, <2>2 DEF Found
<1>6. CASE /\ Keyframe(t) > LastOut \/ index > LastOut
           /\ answer' = NoFrame /\ last_decoded_pts' = NoPts
  BY <1>1, <1>3, <1>6 DEF Found
<1> QED BY <1>4, <1>5, <1>6

LEMMA ContinueFinds ==
  ASSUME input \in Seq(Frames), UNCHANGED input, NEW index \in Nat, NEW t \in TargetPts(index),
         NEW d, CanContinue(t, d), ContinueDecode(t), NEW p, NEW lost \in BOOLEAN, Position(p, lost)
  PROVE  Found(index, p, lost)
<1>1. LastOut \in Int /\ LastOut' = LastOut /\ p \in Nat /\ p <= LastOut
  BY DecoderAssumption DEF LastOut, Position
<1>2. p < index
  <2>1. t > Pts(p) /\ t <= Pts(index) /\ t \in Nat /\ Pts(p) \in Nat
    BY <1>1, TargetIs, PtsOrder DEF CanContinue, Position
  <2>2. ~ (Pts(index) <= Pts(p)) /\ Pts(index) \in Nat
    BY <1>1, <2>1, PtsOrder
  <2> QED BY <1>1, <2>2, PtsOrder
<1>3. next_frame \in Nat /\ (next_frame <= index \/ (lost /\ next_frame > LastOut))
  BY <1>1, <1>2 DEF Position
<1>4. DecodeUntil(next_packet, next_frame, t, last_decoded_pts)
  BY DEF ContinueDecode
<1>5. \/ /\ index <= LastOut
         /\ answer' = input[index + 1] /\ answer' \in Frames
         /\ next_frame' = index + 1 /\ last_decoded_pts' = Pts(index)
      \/ /\ next_frame > LastOut \/ index > LastOut
         /\ answer' = NoFrame
         /\ next_frame' \in Nat /\ next_frame' > LastOut
         /\ last_decoded_pts' = last_decoded_pts
  BY <1>3, <1>4, Searches
<1>6. last_decoded_pts # NoPts
  BY DEF CanContinue
<1>7. CASE /\ index <= LastOut
           /\ answer' = input[index + 1] /\ answer' \in Frames
           /\ next_frame' = index + 1 /\ last_decoded_pts' = Pts(index)
  <2>1. answer' # NoFrame
    BY <1>7, FramesAreSome
  <2>2. Position(index, FALSE)'
    BY <1>1, <1>7 DEF Position, Pts
  <2> QED BY <1>7, <2>1, <2>2 DEF Found
<1>8. CASE /\ next_frame > LastOut \/ index > LastOut
           /\ answer' = NoFrame
           /\ next_frame' \in Nat /\ next_frame' > LastOut
           /\ last_decoded_pts' = last_decoded_pts
  <2>1. Position(p, TRUE)'
    BY <1>1, <1>8 DEF Position, Pts
  <2>2. index > LastOut \/ lost
    BY <1>1, <1>2, <1>3, <1>8
  <2> QED BY <1>2, <1>6, <1>8, <2>1, <2>2 DEF Found
<1> QED BY <1>5, <1>7, <1>8

(* A call of the decoder, from wherever it is. *)
LEMMA AtIndexFinds ==
  ASSUME input \in Seq(Frames), CacheOk, NEW index \in Nat, AtIndex(index), NEW p, NEW lost \in BOOLEAN,
         last_decoded_pts = NoPts \/ Position(p, lost)
  PROVE  Found(index, p, lost) /\ CacheOk' /\ UNCHANGED input
<1>0. LastOut \in Int /\ Len(input) \in Nat /\ LastOut < Len(input)
  BY DecoderAssumption DEF LastOut
<1>1. CASE last_frame_cache.index = index
  <2>1. answer' = last_frame_cache.image
        /\ UNCHANGED <<input, next_frame, last_frame_cache, last_decoded_pts>>
    BY <1>1 DEF AtIndex
  <2>2. index \in 0 .. LastOut /\ answer' = input[index + 1]
    BY <1>1, <2>1 DEF CacheOk
  <2>3. index + 1 \in 1 .. Len(input)
    BY <1>0, <2>2
  <2>4. answer' \in Frames
    BY <2>2, <2>3, ElementOfSeq
  <2>5. answer' # NoFrame
    BY <2>4, FramesAreSome
  <2>6. CacheOk' /\ (Position(p, lost) => Position(p, lost)')
    BY <2>1 DEF CacheOk, Position, LastOut, Pts
  <2>7. index <= LastOut
    BY <1>0, <2>2
  <2>8. \/ last_decoded_pts' = NoPts
        \/ answer' # NoFrame /\ last_decoded_pts # NoPts /\ Position(p, lost)'
    BY <2>1, <2>5, <2>6
  <2> QED BY <2>1, <2>2, <2>4, <2>5, <2>6, <2>7, <2>8 DEF Found
<1>2. CASE last_frame_cache.index # index
  <2>1. PICK t \in TargetPts(index), d \in FrameDurationPts :
          /\ IF CanContinue(t, d) THEN ContinueDecode(t) ELSE SeekAndDecode(t)
          /\ last_frame_cache' = IF answer' = NoFrame THEN last_frame_cache
                                 ELSE [index |-> index, image |-> answer']
          /\ UNCHANGED input
    BY <1>2 DEF AtIndex
  <2>2. Found(index, p, lost)
    <3>1. CASE CanContinue(t, d)
      <4>1. Position(p, lost)
        BY <3>1 DEF CanContinue
      <4> QED BY <2>1, <3>1, <4>1, ContinueFinds
    <3>2. CASE ~ CanContinue(t, d)
      BY <2>1, <3>2, SeekFinds
    <3> QED BY <3>1, <3>2
  <2>3. CacheOk'
    <3>1. LastOut' = LastOut
      BY <2>1 DEF LastOut
    <3>2. CASE answer' = NoFrame
      BY <2>1, <3>1, <3>2 DEF CacheOk
    <3>3. CASE answer' # NoFrame
      <4>1. last_frame_cache'.index = index /\ last_frame_cache'.image = answer'
        BY <2>1, <3>3
      <4>2. index \in 0 .. LastOut /\ answer' = input[index + 1]
        BY <1>0, <2>2, <3>3 DEF Found
      <4> QED BY <2>1, <3>1, <4>1, <4>2 DEF CacheOk
    <3> QED BY <3>2, <3>3
  <2> QED BY <2>1, <2>2, <2>3
<1> QED BY <1>1, <1>2

LEMMA AtTimestampFinds ==
  ASSUME input \in Seq(Frames), CacheOk, NEW index \in Nat, AtTimestamp(index), NEW p, NEW lost
  PROVE  Found(index, p, lost) /\ CacheOk' /\ UNCHANGED input
<1>1. PICK t \in TargetPts(index) : SeekAndDecode(t) /\ UNCHANGED <<input, last_frame_cache>>
  BY DEF AtTimestamp
<1>2. CacheOk'
  BY <1>1 DEF CacheOk, LastOut
<1> QED BY <1>1, <1>2, SeekFinds

(***************************************************************************)
(* The encoder.                                                            *)
(***************************************************************************)
AllDecode(s) == \A i \in DOMAIN s : s[i].image.decodes

Ascending(s) == \A i, j \in DOMAIN s : i < j => s[i].n < s[j].n

(* r is what can be decoded of the first k frames of s. *)
ReadableTo(r, s, k) ==
  /\ r \in Seq(Frames) /\ Len(r) <= k
  /\ \A i \in 1 .. Len(r) : \E l \in 1 .. k : r[i] = s[l] /\ s[l].image.decodes
  /\ \A l \in 1 .. k : s[l].image.decodes => \E i \in 1 .. Len(r) : r[i] = s[l]
  /\ Ascending(s) => Ascending(r)
  /\ AllDecode(s) => Len(r) = k /\ \A i \in 1 .. k : r[i] = s[i]

LEMMA ReadableStep ==
  ASSUME NEW s \in Seq(Frames), NEW k \in 0 .. Len(s) - 1, NEW r, ReadableTo(r, s, k)
  PROVE  ReadableTo(IF s[k + 1].image.decodes THEN Append(r, s[k + 1]) ELSE r, s, k + 1)
<1>1. /\ k \in Nat /\ k + 1 \in 1 .. Len(s) /\ s[k + 1] \in Frames /\ DOMAIN s = 1 .. Len(s)
      /\ Len(r) \in Nat /\ DOMAIN r = 1 .. Len(r)
  BY ElementOfSeq DEF ReadableTo
<1>2. CASE ~ s[k + 1].image.decodes
  <2>1. ~ AllDecode(s)
    BY <1>1, <1>2 DEF AllDecode
  <2>2. \A l \in 1 .. k + 1 : s[l].image.decodes => l \in 1 .. k
    BY <1>1, <1>2
  <2>3. 1 .. k \subseteq 1 .. k + 1 /\ Len(r) <= k + 1
    <3>1. Len(r) <= k
      BY DEF ReadableTo
    <3> QED BY <1>1, <3>1
  <2>4. ReadableTo(r, s, k + 1)
    BY <2>1, <2>2, <2>3 DEF ReadableTo
  <2> QED BY <1>2, <2>4
<1>3. CASE s[k + 1].image.decodes
  <2> DEFINE q == Append(r, s[k + 1])
  <2>1. /\ q \in Seq(Frames) /\ Len(q) = Len(r) + 1 /\ q[Len(r) + 1] = s[k + 1]
        /\ \A i \in 1 .. Len(r) : q[i] = r[i]
    <3>1. r \in Seq(Frames) /\ s[k + 1] \in Frames
      BY <1>1 DEF ReadableTo
    <3> QED BY <3>1, AppendProperties
  <2> HIDE DEF q
  <2>2. DOMAIN q = 1 .. Len(r) + 1 /\ Len(q) <= k + 1
    <3>1. Len(r) <= k
      BY DEF ReadableTo
    <3> QED BY <1>1, <2>1, <3>1
  <2>3. \A i \in 1 .. Len(q) : \E l \in 1 .. k + 1 : q[i] = s[l] /\ s[l].image.decodes
    <3> SUFFICES ASSUME NEW i \in 1 .. Len(q) PROVE \E l \in 1 .. k + 1 : q[i] = s[l] /\ s[l].image.decodes
      OBVIOUS
    <3>1. CASE i = Len(r) + 1
      BY <1>1, <1>3, <2>1, <3>1
    <3>2. CASE i \in 1 .. Len(r)
      <4>1. PICK l \in 1 .. k : r[i] = s[l] /\ s[l].image.decodes
        BY <3>2 DEF ReadableTo
      <4> QED BY <1>1, <2>1, <3>2, <4>1
    <3> QED BY <1>1, <2>1, <3>1, <3>2
  <2>4. \A l \in 1 .. k + 1 : s[l].image.decodes => \E i \in 1 .. Len(q) : q[i] = s[l]
    <3> SUFFICES ASSUME NEW l \in 1 .. k + 1, s[l].image.decodes PROVE \E i \in 1 .. Len(q) : q[i] = s[l]
      OBVIOUS
    <3>1. CASE l = k + 1
      BY <1>1, <2>1, <3>1
    <3>2. CASE l \in 1 .. k
      <4>1. PICK i \in 1 .. Len(r) : r[i] = s[l]
        BY <3>2 DEF ReadableTo
      <4> QED BY <1>1, <2>1, <4>1
    <3> QED BY <1>1, <3>1, <3>2
  <2>5. ASSUME Ascending(s) PROVE Ascending(q)
    <3> SUFFICES ASSUME NEW i \in 1 .. Len(r) + 1, NEW j \in 1 .. Len(r) + 1, i < j PROVE q[i].n < q[j].n
      BY <2>2 DEF Ascending
    <3>0. Len(r) \in Nat /\ DOMAIN r = 1 .. Len(r)
      BY <1>1
    <3>1. i \in 1 .. Len(r)
      BY <3>0
    <3>2. CASE j \in 1 .. Len(r)
      <4>1. Ascending(r)
        BY <2>5 DEF ReadableTo
      <4>2. r[i].n < r[j].n
        BY <3>0, <3>1, <3>2, <4>1 DEF Ascending
      <4> QED BY <2>1, <3>1, <3>2, <4>2
    <3>3. CASE j = Len(r) + 1
      <4>1. PICK l \in 1 .. k : r[i] = s[l]
        BY <3>1 DEF ReadableTo
      <4>2. l < k + 1 /\ l \in DOMAIN s /\ k + 1 \in DOMAIN s
        BY <1>1
      <4>3. s[l].n < s[k + 1].n
        BY <2>5, <4>2 DEF Ascending
      <4> QED BY <2>1, <3>1, <3>3, <4>1, <4>3
    <3> QED BY <1>1, <3>2, <3>3
  <2>6. ASSUME AllDecode(s) PROVE Len(q) = k + 1 /\ \A i \in 1 .. k + 1 : q[i] = s[i]
    <3>1. Len(r) = k /\ \A i \in 1 .. k : r[i] = s[i]
      BY <2>6 DEF ReadableTo
    <3> QED BY <1>1, <2>1, <3>1
  <2>7. ReadableTo(q, s, k + 1)
    BY <2>1, <2>2, <2>3, <2>4, <2>5, <2>6 DEF ReadableTo
  <2> QED BY <1>3, <2>7 DEF q
<1> QED BY <1>2, <1>3

LEMMA ReadableIs ==
  ASSUME NEW s \in Seq(Frames)
  PROVE  ReadableTo(Readable(s), s, Len(s))
<1> DEFINE V == Seq(Frames)
           n == Len(s)
           Next1(q, k) == IF s[k].image.decodes THEN Append(q, s[k]) ELSE q
           D == [p \in V \X (1 .. n) |-> Next1(p[1], p[2])]
           R(g) == g = [k \in 0 .. n |-> IF k = 0 THEN << >> ELSE Next1(g[k - 1], k)]
<1>1. n \in Nat /\ \A k \in 1 .. n : s[k] \in Frames
  BY ElementOfSeq
<1>2. Readable(s) = (CHOOSE g : R(g))[n]
  BY DEF Readable
<1>3. \A q \in V, k \in 1 .. n : Next1(q, k) \in V
  BY <1>1
<1> HIDE DEF Next1
<1>4. \E g : R(g)
  <2>1. D \in [V \X (1 .. n) -> V] /\ << >> \in V
    BY <1>3
  <2>2. PICK g : Computes(g, n, V, << >>, D)
    <3> HIDE DEF V, D, n
    <3> QED BY <1>1, <2>1, Recursion
  <2>3. ASSUME NEW k \in 1 .. n PROVE g[k] = Next1(g[k - 1], k)
    <3>1. g[k] = D[<<g[k - 1], k>>]
      BY <2>2 DEF Computes
    <3>2. k - 1 \in 0 .. n /\ g[k - 1] \in V
      <4>1. n \in Nat /\ g \in [0 .. n -> V]
        BY <1>1, <2>2 DEF Computes
      <4> HIDE DEF n, V
      <4> QED BY <4>1
    <3>3. D[<<g[k - 1], k>>] = Next1(g[k - 1], k)
      BY <3>2
    <3> QED BY <3>1, <3>3
  <2>4. g = [k \in 0 .. n |-> IF k = 0 THEN << >> ELSE Next1(g[k - 1], k)]
    BY <1>1, <2>2, <2>3 DEF Computes
  <2> QED BY <2>4
<1>5. PICK g : g = CHOOSE h : R(h)
  OBVIOUS
<1>6. R(g)
  <2> HIDE DEF R
  <2> QED BY <1>4, <1>5
<1>7. g[0] = << >> /\ \A k \in 0 .. n - 1 : g[k + 1] = Next1(g[k], k + 1)
  BY <1>1, <1>6
<1> DEFINE S == {k \in 0 .. n : ReadableTo(g[k], s, k)}
<1>8. 0 \in S
  <2>1. ReadableTo(<< >>, s, 0)
    BY DEF ReadableTo, Ascending
  <2> QED BY <1>1, <1>7, <2>1
<1>9. \A k \in 0 .. n - 1 : k \in S => k + 1 \in S
  <2> SUFFICES ASSUME NEW k \in 0 .. n - 1, ReadableTo(g[k], s, k) PROVE ReadableTo(g[k + 1], s, k + 1)
    BY <1>1
  <2> QED BY <1>7, ReadableStep DEF Next1
<1>10. \A k \in 0 .. n : k \in S
  <2> HIDE DEF S, n
  <2> QED BY <1>1, <1>8, <1>9, UpTo
<1> QED BY <1>1, <1>2, <1>5, <1>10

(* An encoder that was given these frames, in this order, since it was new. *)
EncoderInv(given) ==
  /\ given = << >> => stream = None
  /\ given # << >> => stream = given
  /\ kind # "software" => frame_count = Len(given) /\ (given # << >> <=> input_mode # "unknown")
  /\ kind = "software" \/ input_mode \notin {"jpeg", "png"} => AllDecode(given)
  /\ kind # "software" /\ input_mode \in {"jpeg", "png"} => given[1].image.format \in {"jpeg", "png"}

(* It sends no files as they are. *)
Raw == kind = "software" \/ input_mode \notin {"jpeg", "png"}

LEMMA NewIs == ASSUME New PROVE EncoderInv(<< >>)' /\ Raw'
  BY DEF New, EncoderInv, Raw, AllDecode

LEMMA SentIs ==
  ASSUME NEW given \in Seq(Frames), EncoderInv(given), NEW f \in Frames, Send(f)
  PROVE  /\ stream' = Append(given, f) /\ Append(given, f) \in Seq(Frames) \ {<< >>}
         /\ Len(Append(given, f)) = Len(given) + 1
         /\ Append(given, f)[1] = IF given = << >> THEN f ELSE given[1]
         /\ AllDecode(given) /\ f.image.decodes => AllDecode(Append(given, f))
<1>1. given # << >> => given # None
  BY NoneAssumption
<1>2. stream' = Append(given, f)
  BY <1>1 DEF Send, Started, EncoderInv
<1>3. AllDecode(given) /\ f.image.decodes => AllDecode(Append(given, f))
  BY DEF AllDecode
<1> QED BY <1>2, <1>3

LEMMA RawFrameKeeps ==
  ASSUME NEW given \in Seq(Frames), EncoderInv(given), kind # "software", Raw, NEW f \in Frames,
         AddRawFrame(f)
  PROVE  EncoderInv(Append(given, f))' /\ Raw'
<1> DEFINE q == Append(given, f)
<1>1. Send(f) /\ frame_count' = frame_count + 1 /\ UNCHANGED config /\ f.image.decodes
  BY DEF AddRawFrame, WriteToPipe
<1>2. /\ stream' = q /\ q # << >> /\ Len(q) = Len(given) + 1 /\ AllDecode(q)
  BY <1>1, SentIs DEF EncoderInv, Raw
<1>3. input_mode' \notin {"jpeg", "png", "unknown"}
  <2>1. CASE Started
    <3>1. given # << >>
      BY <2>1 DEF Started, EncoderInv
    <3> QED BY <2>1, <3>1 DEF AddRawFrame, EncoderInv, Raw
  <2>2. CASE ~ Started
    BY <2>2 DEF AddRawFrame, SpawnRawvideo
  <2> QED BY <2>1, <2>2
<1> HIDE DEF q
<1>4. EncoderInv(q)' /\ Raw'
  BY <1>1, <1>2, <1>3 DEF EncoderInv, Raw, config
<1> QED BY <1>4 DEF q

LEMMA SoftwareKeeps ==
  ASSUME NEW given \in Seq(Frames), EncoderInv(given), kind = "software", NEW f \in Frames,
         SoftwareAddFrame(f)
  PROVE  EncoderInv(Append(given, f))' /\ Raw'
<1> DEFINE q == Append(given, f)
<1>1. Send(f) /\ UNCHANGED <<config, input_mode, frame_count>> /\ f.image.decodes
  BY DEF SoftwareAddFrame
<1>2. /\ stream' = q /\ q # << >> /\ AllDecode(q)
  BY <1>1, SentIs DEF EncoderInv
<1> HIDE DEF q
<1>3. EncoderInv(q)' /\ Raw'
  BY <1>1, <1>2 DEF EncoderInv, Raw, config
<1> QED BY <1>3 DEF q

(* add_data keeps the frames in the order it is given them. *)
LEMMA AddDataKeeps ==
  ASSUME NEW given \in Seq(Frames), EncoderInv(given), NEW f \in Frames, AddData(f)
  PROVE  EncoderInv(Append(given, f))'
<1> DEFINE q == Append(given, f)
<1>1. CASE kind = "software"
  BY <1>1, SoftwareKeeps DEF AddData
<1>2. CASE kind # "software" /\ AddDecoded(f)
  BY <1>2, RawFrameKeeps DEF AddDecoded, Raw
<1>3. CASE kind # "software" /\ (AddFirstDirect(f) \/ AddDirect(f))
  <2>1. WriteToPipe(f) /\ UNCHANGED config
    BY <1>3 DEF AddFirstDirect, AddDirect
  <2>2. Send(f) /\ frame_count' = frame_count + 1
    BY <2>1 DEF WriteToPipe
  <2>3. /\ stream' = q /\ q # << >> /\ Len(q) = Len(given) + 1
        /\ q[1] = IF given = << >> THEN f ELSE given[1]
    BY <2>2, SentIs
  <2>4. input_mode' \in {"jpeg", "png"} /\ q[1].image.format \in {"jpeg", "png"}
    <3>1. CASE AddFirstDirect(f)
      <4>1. given = << >> /\ Detected(f.image) # None /\ input_mode' = Detected(f.image)
        BY <1>3, <3>1 DEF AddFirstDirect, SpawnImage2pipe, EncoderInv
      <4> QED BY <2>3, <4>1 DEF Detected
    <3>2. CASE AddDirect(f)
      <4>1. input_mode \in {"jpeg", "png"} /\ input_mode' = input_mode
        BY <3>2 DEF AddDirect
      <4>2. given # << >> /\ given[1].image.format \in {"jpeg", "png"}
        BY <1>3, <4>1 DEF EncoderInv
      <4> QED BY <2>3, <4>1, <4>2
    <3> QED BY <1>3, <3>1, <3>2
  <2> HIDE DEF q
  <2>5. EncoderInv(q)'
    BY <1>3, <2>1, <2>2, <2>3, <2>4 DEF EncoderInv, config
  <2> QED BY <2>5 DEF q
<1> QED BY <1>1, <1>2, <1>3 DEF AddData, HardwareAddData

LEMMA AddFrameKeeps ==
  ASSUME NEW given \in Seq(Frames), EncoderInv(given), Raw, NEW f \in Frames, AddFrame(f)
  PROVE  EncoderInv(Append(given, f))' /\ Raw'
<1>1. CASE kind = "software"
  BY <1>1, SoftwareKeeps DEF AddFrame
<1>2. CASE kind # "software"
  BY <1>2, RawFrameKeeps DEF AddFrame
<1> QED BY <1>1, <1>2

(* What is finished has the frames that can be decoded, and no other. *)
LEMMA FinishIs ==
  ASSUME NEW given \in Seq(Frames), given # << >>, EncoderInv(given), Finish
  PROVE  /\ video' = File(Readable(given), TRUE)
         /\ AllDecode(given) => Readable(given) = given
         /\ UNCHANGED <<config, input_mode>>
<1>1. stream = given /\ given # None /\ Len(given) # 0
  BY NoneAssumption DEF EncoderInv
<1>2. ASSUME AllDecode(given) PROVE Readable(given) = given
  <2>1. /\ Readable(given) \in Seq(Frames) /\ Len(Readable(given)) = Len(given)
        /\ \A i \in 1 .. Len(given) : Readable(given)[i] = given[i]
    BY <1>2, ReadableIs DEF ReadableTo
  <2> QED BY <2>1, SeqEqual
<1>3. UNCHANGED <<config, input_mode>>
  BY DEF Finish, settings
<1>4. CASE kind = "software"
  <2>1. AllDecode(given)
    BY <1>4 DEF EncoderInv
  <2> QED BY <1>1, <1>2, <1>3, <1>4, <2>1 DEF Finish, FinishSoftware, Started
<1>5. CASE kind # "software"
  BY <1>1, <1>2, <1>3, <1>5 DEF Finish, FinishHardware, Rendered, EncoderInv
<1> QED BY <1>4, <1>5

(***************************************************************************)
(* The invariant of the round trip, part by part.                          *)
(***************************************************************************)
Row == [n : Nat, index : Nat]

Sizes == {m.size : m \in Image} \cup {r.resize : r \in Requests}

Typed ==
  /\ messages \in Seq(Frames) /\ \A k \in 1 .. Len(messages) : messages[k].n = k - 1
  /\ image_topic_data \in Seq(Frames) /\ depth_topic_data \in Seq(Frames)
  /\ image_data \in Seq(Frames) /\ input \in Seq(Frames)
  /\ at \in Nat /\ route \in Route

(* Every row belongs to an image or a depth image.  While the counter was set
   back only once it is the row's place, and without depth images the image at
   that place is the row's.                                                  *)
RowsOk ==
  /\ rows \in Seq(Row) /\ connections \in Nat /\ image_topic_id \in Nat
  /\ topic \in {"raw", "compressed", "compressedDepth"} /\ generation \in {"ROS1", "ROS2"}
  /\ Len(rows) = Len(image_topic_data) + Len(depth_topic_data)
  /\ connections = 0 => rows = << >>
  /\ connections = 1 =>
       image_topic_id = Len(rows) /\ \A k \in 1 .. Len(rows) : rows[k].index = k - 1
  /\ generation = "ROS2" => connections <= 1
  /\ depth_topic_data = << >> => \A k \in 1 .. Len(rows) : rows[k].n = image_topic_data[k].n
  /\ topic = "compressedDepth" => image_topic_data = << >>

(* the messages with an image that can be shown *)
Shown == {k \in DOMAIN messages : messages[k].image.decodes /\ (topic = "raw" \/ Visual(messages[k]))}

(* The first m messages were ingested, in their order. *)
Ingested(m) ==
  /\ Ascending(image_topic_data)
  /\ \A i \in 1 .. Len(image_topic_data) : image_topic_data[i].n < m
  /\ topic # "compressedDepth" =>
       /\ \A i \in 1 .. Len(image_topic_data) :
            image_topic_data[i].image.decodes => image_topic_data[i].n + 1 \in Shown
       /\ \A k \in Shown : k <= m =>
            \E i \in 1 .. Len(image_topic_data) :
              image_topic_data[i].image.decodes /\ image_topic_data[i].n = k - 1

IngestOk ==
  /\ stage = "configure" => image_topic_data = << >>
  /\ stage = "ingest" => at <= Len(messages) /\ Ingested(at)
  /\ stage = "encode" => Ingested(Len(messages))

EncoderOk ==
  /\ stage = "configure" => request \in Requests
  /\ stage # "configure" => resize \in {r.resize : r \in Requests}
  /\ stage \in {"configure", "ingest"} => stream = None /\ frame_count = 0 /\ input_mode = "unknown"
  /\ stage = "encode" => /\ image_data = image_topic_data /\ at <= Len(image_data)
                         /\ EncoderInv(SubSeq(image_data, 1, at))

(* What was written has the images that can be shown; all of them are, unless
   ffmpeg skipped some.                                                      *)
Whole ==
  /\ registry.file.whole /\ registry.file.frames \in Seq(Frames) \ {<< >>}
  /\ registry.size \in Sizes /\ registry.file.size = registry.size
  /\ Ascending(registry.file.frames)
  /\ {registry.file.frames[i].n : i \in DOMAIN registry.file.frames} = {messages[k].n : k \in Shown}
  /\ image_topic_data # << >> /\ (~ SkipsFrames => registry.file.frames = image_topic_data)

RegisteredOk ==
  /\ stage \in {"configure", "ingest", "encode"} => registry = None
  /\ registry # None \/ stage \in {"depth", "open", "decode", "calls", "transform"} => Whole

SourceOk ==
  /\ stage = "open" => route # "ingested"
  /\ stage = "decode" => route = "decoded"
  /\ stage = "calls" => route = "calls"
  /\ stage = "transform" => route # "calls"
  /\ stage \in {"depth", "transform"} /\ route = "ingested" => image_data = image_topic_data
  /\ stage \in {"decode", "calls", "transform"} /\ route # "ingested" => input = OneSize(registry.file)
  /\ stage \in {"decode", "transform"} /\ route = "decoded" =>
       \A i \in 1 .. Len(image_data) : i <= Len(input) /\ image_data[i] = input[i]

(* While a video is decoded from its first frame on, no frame is missing before
   the last that comes out.                                                  *)
DecodeOk ==
  /\ CacheOk
  /\ stage = "decode" =>
       \E p \in 0 .. Len(input), lost \in BOOLEAN :
         /\ last_decoded_pts = NoPts \/ Position(p, lost)
         /\ at <= LastOut + 1 => ~ lost /\ Len(image_data) = at

(* The decoder is where an earlier call found its frame, unless it forgot. *)
Somewhere ==
  \/ last_decoded_pts = NoPts
  \/ \E i \in 1 .. Len(asked), lost \in BOOLEAN :
       /\ answers[i] # NoFrame
       /\ Position(asked[i].index, lost)
       /\ lost => \E j \in i + 1 .. Len(asked) : answers[j] = NoFrame

CallsOk ==
  /\ asked \in Seq(Row) /\ answers \in Seq(Frames \cup {NoFrame}) /\ Len(asked) = Len(answers)
  /\ stage \notin {"transform", "calls", "done", "failed"} => asked = << >> /\ answers = << >>
  /\ AnswersAreRight
  /\ route \in {"file", "calls"} => Somewhere

InPlace == ~ LosesPlace /\ (route = "ingested" \/ ~ SkipsFrames)

EpisodeOk ==
  /\ stage \in {"decode", "transform"} => EncoderInv(answers) /\ Raw /\ answers \in Seq(Frames)
  /\ stage = "transform" =>
       at = Len(asked) /\ (InPlace => \A k \in 1 .. Len(asked) : answers[k].n = asked[k].n)
  /\ EpisodeShowsIndexedFrames

VideoInv ==
  Typed /\ RowsOk /\ IngestOk /\ EncoderOk /\ RegisteredOk /\ SourceOk /\ DecodeOk /\ CallsOk /\ EpisodeOk

-----------------------------------------------------------------------------
LEMMA RowsStay == ASSUME RowsOk, UNCHANGED ingest PROVE RowsOk'
  BY DEF RowsOk, ingest, bag

LEMMA WholeStays == ASSUME Whole, UNCHANGED <<ingest, config, messages, registry>> PROVE Whole'
<1>1. UNCHANGED <<topic, image_topic_data, kind, messages, registry>>
  BY DEF ingest, bag, config
<1>2. Shown' = Shown
  BY <1>1, Zenon DEF Shown, Visual
<1>3. SkipsFrames' <=> SkipsFrames
  BY <1>1, Zenon DEF SkipsFrames
<1>4. registry'.file.whole
  BY <1>1, Zenon DEF Whole
<1>5. Ascending(registry.file.frames)'
  BY <1>1, Zenon DEF Whole, Ascending
<1>6. {registry.file.frames[i].n : i \in DOMAIN registry.file.frames}' = {messages[k].n : k \in Shown}'
  <2>1. {registry.file.frames[i].n : i \in DOMAIN registry.file.frames} = {messages[k].n : k \in Shown}
    BY DEF Whole
  <2>2. {messages[k].n : k \in Shown}' = {messages[k].n : k \in Shown}
    BY <1>1, <1>2, Zenon
  <2> QED BY <1>1, <2>1, <2>2, Zenon
<1>7. /\ (registry.file.frames \in Seq(Frames) \ {<< >>})'
      /\ (registry.size \in Sizes /\ registry.file.size = registry.size)'
      /\ (image_topic_data # << >>)' /\ (~ SkipsFrames => registry.file.frames = image_topic_data)'
  BY <1>1, <1>3 DEF Whole
<1> QED BY <1>4, <1>5, <1>6, <1>7 DEF Whole

LEMMA CacheStays == ASSUME CacheOk, UNCHANGED decoder PROVE CacheOk'
  BY DEF CacheOk, decoder, LastOut

LEMMA CallsStay ==
  ASSUME CallsOk, UNCHANGED <<calls, route, decoder>>,
         stage' \in {"transform", "calls", "done", "failed"}
         \/ stage \notin {"transform", "calls", "done", "failed"}
  PROVE  CallsOk'
<1>1. UNCHANGED <<asked, answers, route, decoder, input, last_decoded_pts, next_frame>>
  BY DEF calls, decoder
<1>2. Somewhere => Somewhere'
  BY <1>1 DEF Somewhere, Position, Pts, LastOut
<1>3. AnswersAreRight'
  BY <1>1 DEF CallsOk, AnswersAreRight
<1> QED BY <1>1, <1>2, <1>3 DEF CallsOk

(* An error ends the pipeline and leaves everything but the video as it was. *)
LEMMA Fails ==
  ASSUME VideoInv, stage # "configure", stage' = "failed",
         UNCHANGED <<ingest, config, decoder, messages, route, at, context, calls>>
  PROVE  VideoInv'
<1> USE DEF VideoInv
<1>1. Typed'
  BY DEF Typed, ingest, decoder, context
<1>2. RowsOk'
  BY RowsStay
<1>3. IngestOk' /\ EncoderOk'
  BY DEF IngestOk, EncoderOk, config
<1>4. RegisteredOk'
  <2>1. UNCHANGED registry
    BY DEF context
  <2> QED BY <2>1, WholeStays DEF RegisteredOk
<1>5. SourceOk'
  BY DEF SourceOk
<1>6. DecodeOk'
  BY CacheStays DEF DecodeOk
<1>7. CallsOk'
  BY CallsStay
<1>8. EpisodeOk'
  BY DEF EpisodeOk, EpisodeShowsIndexedFrames
<1> QED BY <1>1, <1>2, <1>3, <1>4, <1>5, <1>6, <1>7, <1>8

LEMMA VideoFailures ==
  ASSUME VideoInv, IngestFails \/ EncodeFails \/ DecoderFails
  PROVE  VideoInv'
<1>1. CASE IngestFails
  BY <1>1, Fails DEF IngestFails, Fail, encoder, settings
<1>2. CASE EncodeFails
  BY <1>2, Fails DEF EncodeFails, Fail, DropEncoder, settings
<1>3. CASE DecoderFails
  BY <1>3, Fails DEF DecoderFails, Fail, encoder, settings
<1> QED BY <1>1, <1>2, <1>3

LEMMA VideoInit == Init => VideoInv
<1> SUFFICES ASSUME Init PROVE VideoInv
  OBVIOUS
<1>1. Typed /\ RowsOk
  BY DEF Init, IngestInit, Typed, RowsOk
<1>2. IngestOk /\ EncoderOk /\ RegisteredOk /\ SourceOk
  BY DEF Init, IngestInit, IngestOk, EncoderOk, RegisteredOk, SourceOk
<1>3. DecodeOk
  BY DEF Init, DecodeOk, CacheOk, NoCache
<1>4. CallsOk /\ EpisodeOk
  BY DEF Init, CallsOk, AnswersAreRight, Somewhere, EpisodeOk, EpisodeShowsIndexedFrames
<1> QED BY <1>1, <1>2, <1>3, <1>4 DEF VideoInv

LEMMA ConfigureKeeps == ASSUME VideoInv, Configure PROVE VideoInv'
<1> USE DEF VideoInv
<1>1. /\ stage = "configure" /\ stage' = "ingest" /\ at' = 0 /\ resize' = request.resize
      /\ UNCHANGED <<ingest, input_mode, input_dimensions, stream, frame_count, video, decoder, route,
         context, calls>>
  BY DEF Configure, Enter
<1>2. PICK len \in 1 .. MaxMessages : \E carried \in [1 .. len -> Image] :
        messages' = [i \in 1 .. len |-> [n |-> i - 1, image |-> carried[i]]]
  BY DEF Configure
<1>3. PICK carried \in [1 .. len -> Image] :
        messages' = [i \in 1 .. len |-> [n |-> i - 1, image |-> carried[i]]]
  BY <1>2
<1>4. /\ messages' \in Seq(Frames) /\ Len(messages') = len
      /\ \A k \in 1 .. len : messages'[k].n = k - 1
  <2>1. len \in Nat
    BY RoundTripAssumption
  <2>2. \A m \in Image : m \in [format : {"jpeg", "png", "other", "bin"}, decodes : BOOLEAN,
                                size : {i.size : i \in Image} \cup {r.resize : r \in Requests}]
    <3> SUFFICES ASSUME NEW m \in Image
                 PROVE  m \in [format : {"jpeg", "png", "other", "bin"}, decodes : BOOLEAN,
                               size : {i.size : i \in Image} \cup {r.resize : r \in Requests}]
      OBVIOUS
    <3>1. m \in [format : {"jpeg", "png", "other", "bin"}, size : {m.size}, decodes : BOOLEAN]
      BY ImageAssumption
    <3>2. {m.size} \subseteq {i.size : i \in Image} \cup {r.resize : r \in Requests}
      OBVIOUS
    <3> QED BY <3>1, <3>2
  <2>3. \A i \in 1 .. len : [n |-> i - 1, image |-> carried[i]] \in Frames
    BY <2>1, <2>2 DEF Frames
  <2> QED BY <1>3, <2>1, <2>3
<1>5. Typed'
  BY <1>1, <1>4 DEF Typed, ingest, decoder, context
<1>6. RowsOk'
  BY <1>1, RowsStay
<1>7. IngestOk'
  <2>1. image_topic_data' = << >>
    BY <1>1 DEF IngestOk, ingest
  <2>2. Shown' \subseteq 1 .. len /\ len \in Nat
    BY <1>4, RoundTripAssumption DEF Shown
  <2>3. Ingested(0)'
    BY <2>1, <2>2 DEF Ingested, Ascending
  <2> QED BY <1>1, <1>4, <2>2, <2>3 DEF IngestOk
<1>8. EncoderOk'
  BY <1>1 DEF EncoderOk
<1>9. RegisteredOk' /\ SourceOk'
  BY <1>1 DEF RegisteredOk, SourceOk, context
<1>10. DecodeOk'
  BY <1>1, CacheStays DEF DecodeOk
<1>11. CallsOk'
  BY <1>1, CallsStay
<1>12. EpisodeOk'
  BY <1>1 DEF EpisodeOk, EpisodeShowsIndexedFrames
<1> QED BY <1>5, <1>6, <1>7, <1>8, <1>9, <1>10, <1>11, <1>12

LEMMA IngestConnectionKeeps == ASSUME VideoInv, IngestConnection PROVE VideoInv'
<1> USE DEF VideoInv
<1>1. /\ stage = "ingest"
      /\ generation = "ROS1" /\ image_topic_id' = 0 /\ connections' = connections + 1
      /\ rows' = IF connections = 0 THEN << >> ELSE rows
      /\ UNCHANGED <<generation, topic, image_topic_data, depth_topic_data>>
      /\ UNCHANGED <<encoder, video, decoder, request, messages, route, stage, at, context, calls>>
  BY DEF IngestConnection, Connection, AddImageInfo, AddMessageDefinition, bag
<1>2. Typed'
  BY <1>1 DEF Typed, decoder, context
<1>3. RowsOk'
  <2>1. CASE connections = 0
    BY <1>1, <2>1 DEF RowsOk
  <2>2. CASE connections # 0
    BY <1>1, <2>2 DEF RowsOk
  <2> QED BY <2>1, <2>2
<1>4. IngestOk'
  BY <1>1 DEF IngestOk, Ingested, Ascending, Shown, Visual
<1>5. EncoderOk'
  BY <1>1 DEF EncoderOk, encoder, settings, config
<1>6. RegisteredOk' /\ SourceOk'
  BY <1>1 DEF RegisteredOk, SourceOk, context
<1>7. DecodeOk'
  BY <1>1, CacheStays DEF DecodeOk
<1>8. CallsOk'
  BY <1>1, CallsStay
<1>9. EpisodeOk'
  BY <1>1 DEF EpisodeOk, EpisodeShowsIndexedFrames
<1> QED BY <1>2, <1>3, <1>4, <1>5, <1>6, <1>7, <1>8, <1>9

(* A message goes to the end of one of the lists. *)
LEMMA StoredIs ==
  ASSUME NEW f \in Frames, NEW id, AddImageData(f, id),
         topic \in {"raw", "compressed", "compressedDepth"}
  PROVE  \/ /\ topic = "raw" \/ Visual(f)
            /\ topic # "compressedDepth"
            /\ \E g \in Frames : /\ g.n = f.n /\ (g.image.decodes <=> f.image.decodes)
                                 /\ image_topic_data' = Append(image_topic_data, g)
            /\ UNCHANGED depth_topic_data
         \/ /\ topic # "raw" /\ (Visual(f) => topic = "compressedDepth")
            /\ depth_topic_data' = Append(depth_topic_data, f)
            /\ UNCHANGED image_topic_data
<1>1. CASE topic = "raw"
  <2>1. StoreRaw(f)
    BY <1>1 DEF AddImageData
  <2> DEFINE g == [f EXCEPT !.image.format = "jpeg"]
  <2>2. g \in Frames
    BY DEF Frames
  <2>3. g.n = f.n
    BY DEF Frames
  <2>4. g.image.decodes <=> f.image.decodes
    <3>1. g.image = [f.image EXCEPT !.format = "jpeg"]
      BY DEF Frames
    <3>2. f.image \in [format : {"jpeg", "png", "other", "bin"}, decodes : BOOLEAN,
                       size : {m.size : m \in Image} \cup {r.resize : r \in Requests}]
      BY DEF Frames
    <3>3. g.image.decodes = f.image.decodes
      BY <3>1, <3>2
    <3> QED BY <3>3
  <2>5. image_topic_data' = Append(image_topic_data, g) /\ UNCHANGED depth_topic_data
    BY <2>1 DEF StoreRaw
  <2> HIDE DEF g
  <2> QED BY <1>1, <2>2, <2>3, <2>4, <2>5
<1>2. CASE topic = "compressed" /\ Visual(f)
  <2>1. StoreImage(f)
    BY <1>2 DEF AddImageData
  <2> QED BY <1>2, <2>1 DEF StoreImage
<1>3. CASE topic # "raw" /\ ~ (topic = "compressed" /\ Visual(f))
  <2>1. StoreDepth(f)
    BY <1>3 DEF AddImageData
  <2> QED BY <1>3, <2>1 DEF StoreDepth
<1> QED BY <1>1, <1>2, <1>3

\* An index of a sequence with one more element is that of the new one or an earlier one.
LEMMA LastOrEarlier == ASSUME NEW n \in Nat, NEW k \in 1 .. n + 1 PROVE k = n + 1 \/ k \in 1 .. n
OBVIOUS

\* What Append returns: one element more, the old ones where they were.
LEMMA AppendIs ==
  ASSUME NEW S, NEW s \in Seq(S), NEW x \in S
  PROVE  /\ Append(s, x) \in Seq(S) /\ Len(Append(s, x)) = Len(s) + 1
         /\ Append(s, x)[Len(s) + 1] = x
         /\ \A i \in 1 .. Len(s) : Append(s, x)[i] = s[i]
  OBVIOUS

(* The next message is ingested. *)
LEMMA MessageIs ==
  ASSUME VideoInv, IngestMessage
  PROVE  \E f \in Frames, id \in Nat :
           /\ f = messages[at + 1] /\ f.n = at /\ at + 1 \in 1 .. Len(messages)
           /\ AddImageData(f, id)
           /\ UNCHANGED <<generation, topic>>
           /\ connections' \in Nat /\ connections' # 0 /\ (generation = "ROS2" => connections' = 1)
           /\ connections' = 1 => id = Len(rows) /\ \A k \in 1 .. Len(rows) : rows[k].index = k - 1
<1> USE DEF VideoInv
<1>1. /\ stage = "ingest" /\ at < Len(messages) /\ at \in Nat
      /\ Rosbag1Message(messages[at + 1]) \/ Rosbag2Message(messages[at + 1])
  BY DEF IngestMessage, Typed
<1>2. PICK f : f = messages[at + 1]
  OBVIOUS
<1>3. at + 1 \in 1 .. Len(messages)
  BY <1>1 DEF Typed
<1>4. f \in Frames /\ f.n = at
  BY <1>1, <1>2, <1>3, ElementOfSeq DEF Typed
<1>5. CASE Rosbag1Message(f)
  <2>1. /\ generation = "ROS1" /\ connections > 0 /\ UNCHANGED <<generation, topic, connections>>
        /\ connections \in Nat /\ image_topic_id \in Nat
    BY <1>5 DEF Rosbag1Message, bag, RowsOk
  <2>2. PICK id : id = image_topic_id
    OBVIOUS
  <2>3. AddImageData(f, id)
    BY <1>5, <2>2 DEF Rosbag1Message
  <2>4. connections' = 1 => id = Len(rows) /\ \A k \in 1 .. Len(rows) : rows[k].index = k - 1
    BY <2>1, <2>2 DEF RowsOk
  <2> QED BY <1>2, <1>3, <1>4, <2>1, <2>2, <2>3, <2>4
<1>6. CASE Rosbag2Message(f)
  <2>1. /\ generation = "ROS2" /\ connections' = 1 /\ UNCHANGED <<generation, topic>>
        /\ connections \in {0, 1} /\ image_topic_id \in Nat
    BY <1>6 DEF Rosbag2Message, bag, RowsOk
  <2>2. PICK id : id = IF connections = 0 THEN 0 ELSE image_topic_id
    OBVIOUS
  <2>3. AddImageData(f, id) /\ id \in Nat
    BY <1>6, <2>1, <2>2 DEF Rosbag2Message
  <2>4. id = Len(rows) /\ \A k \in 1 .. Len(rows) : rows[k].index = k - 1
    BY <2>1, <2>2 DEF RowsOk
  <2> QED BY <1>2, <1>3, <1>4, <2>1, <2>3, <2>4
<1> QED BY <1>1, <1>2, <1>5, <1>6

LEMMA MessageRowsOk ==
  ASSUME VideoInv, IngestMessage
  PROVE  RowsOk'
<1> USE DEF VideoInv
<1>1. PICK f \in Frames : \E id \in Nat :
           /\ f = messages[at + 1] /\ f.n = at /\ at + 1 \in 1 .. Len(messages)
           /\ AddImageData(f, id)
           /\ UNCHANGED <<generation, topic>>
           /\ connections' \in Nat /\ connections' # 0 /\ (generation = "ROS2" => connections' = 1)
           /\ connections' = 1 => id = Len(rows) /\ \A k \in 1 .. Len(rows) : rows[k].index = k - 1
  BY MessageIs
<1>2. PICK id \in Nat :
           /\ f = messages[at + 1] /\ f.n = at /\ at + 1 \in 1 .. Len(messages)
           /\ AddImageData(f, id)
           /\ UNCHANGED <<generation, topic>>
           /\ connections' \in Nat /\ connections' # 0 /\ (generation = "ROS2" => connections' = 1)
           /\ connections' = 1 => id = Len(rows) /\ \A k \in 1 .. Len(rows) : rows[k].index = k - 1
  BY <1>1
<1> DEFINE row == [n |-> f.n, index |-> id]
<1>3. row \in Row /\ row.n = f.n /\ row.index = id
  BY DEF Row, Frames
<1>4. rows' = Append(rows, row) /\ image_topic_id' = id + 1
  BY <1>2 DEF AddImageData
<1> HIDE DEF row
<1>5. /\ rows \in Seq(Row) /\ image_topic_data \in Seq(Frames) /\ depth_topic_data \in Seq(Frames)
      /\ Len(rows) = Len(image_topic_data) + Len(depth_topic_data)
      /\ topic \in {"raw", "compressed", "compressedDepth"} /\ generation \in {"ROS1", "ROS2"}
      /\ Len(image_topic_data) \in Nat /\ Len(depth_topic_data) \in Nat
  BY DEF RowsOk, Typed
<1>6. /\ rows' \in Seq(Row) /\ Len(rows') = Len(rows) + 1 /\ rows'[Len(rows) + 1] = row
      /\ \A k \in 1 .. Len(rows) : rows'[k] = rows[k]
  <2>1. /\ Append(rows, row) \in Seq(Row) /\ Len(Append(rows, row)) = Len(rows) + 1
        /\ Append(rows, row)[Len(rows) + 1] = row
        /\ \A k \in 1 .. Len(rows) : Append(rows, row)[k] = rows[k]
    <3>1. rows \in Seq(Row) /\ row \in Row
      BY <1>3, <1>5
    <3> QED BY <3>1, AppendIs
  <2> QED BY <1>4, <2>1
<1>7. connections' = 1 =>
        image_topic_id' = Len(rows') /\ \A k \in 1 .. Len(rows') : rows'[k].index = k - 1
  BY <1>2, <1>3, <1>4, <1>5, <1>6
<1>8. /\ topic' \in {"raw", "compressed", "compressedDepth"} /\ generation' \in {"ROS1", "ROS2"}
      /\ (generation' = "ROS2" => connections' <= 1) /\ image_topic_id' \in Nat
  BY <1>2, <1>4, <1>5
<1>9. CASE \E g \in Frames : /\ g.n = f.n /\ topic # "compressedDepth"
                             /\ image_topic_data' = Append(image_topic_data, g)
                             /\ UNCHANGED depth_topic_data
  <2>1. PICK g \in Frames : /\ g.n = f.n /\ topic # "compressedDepth"
                            /\ image_topic_data' = Append(image_topic_data, g)
                            /\ UNCHANGED depth_topic_data
    BY <1>9
  <2>2. /\ Len(image_topic_data') = Len(image_topic_data) + 1
        /\ image_topic_data'[Len(image_topic_data) + 1] = g
        /\ \A k \in 1 .. Len(image_topic_data) : image_topic_data'[k] = image_topic_data[k]
    BY <1>5, <2>1, AppendIs
  <2>3. depth_topic_data' = << >> => \A k \in 1 .. Len(rows') : rows'[k].n = image_topic_data'[k].n
    <3> SUFFICES ASSUME depth_topic_data' = << >>, NEW k \in 1 .. Len(rows')
                 PROVE  rows'[k].n = image_topic_data'[k].n
      OBVIOUS
    <3>1. depth_topic_data = << >> /\ Len(rows) = Len(image_topic_data)
      BY <1>5, <2>1
    <3>2. \A i \in 1 .. Len(rows) : rows[i].n = image_topic_data[i].n
      BY <3>1 DEF RowsOk
    <3>3. CASE k = Len(rows) + 1
      <4>1. rows'[k] = row
        BY <1>6, <3>3, Zenon
      <4>2. image_topic_data'[k] = g
        BY <2>2, <3>1, <3>3, Zenon
      <4> QED BY <1>3, <2>1, <4>1, <4>2, Zenon
    <3>4. CASE k \in 1 .. Len(rows)
      <4>1. rows'[k] = rows[k]
        BY <1>6, <3>4, Zenon
      <4>2. image_topic_data'[k] = image_topic_data[k]
        BY <2>2, <3>1, <3>4, Zenon
      <4> QED BY <3>2, <3>4, <4>1, <4>2, Zenon
    <3>5. k = Len(rows) + 1 \/ k \in 1 .. Len(rows)
      <4>1. Len(rows) \in Nat
        BY <1>5, SMT
      <4>2. Len(rows') = Len(rows) + 1
        BY <1>6, Zenon
      <4>3. k \in 1 .. Len(rows) + 1
        BY <4>2, Zenon
      <4> QED BY <4>1, <4>3, LastOrEarlier, Zenon
    <3> QED BY <3>3, <3>4, <3>5, Zenon
  <2>4. Len(rows') = Len(image_topic_data') + Len(depth_topic_data')
    BY <1>5, <1>6, <2>1, <2>2
  <2> QED BY <1>2, <1>6, <1>7, <1>8, <2>1, <2>3, <2>4 DEF RowsOk
<1>10. CASE depth_topic_data' = Append(depth_topic_data, f) /\ UNCHANGED image_topic_data
  <2>1. Len(depth_topic_data') = Len(depth_topic_data) + 1 /\ depth_topic_data' # << >>
    BY <1>5, <1>10, AppendIs
  <2>2. topic' = "compressedDepth" => image_topic_data' = << >>
    BY <1>2, <1>10 DEF RowsOk
  <2>3. Len(rows') = Len(image_topic_data') + Len(depth_topic_data')
    BY <1>5, <1>6, <1>10, <2>1
  <2> QED BY <1>2, <1>6, <1>7, <1>8, <2>1, <2>2, <2>3 DEF RowsOk
<1> QED BY <1>2, <1>5, <1>9, <1>10, StoredIs

LEMMA IngestMessageKeeps == ASSUME VideoInv, IngestMessage PROVE VideoInv'
<1> USE DEF VideoInv
<1>1. PICK f \in Frames : \E id \in Nat :
           /\ f = messages[at + 1] /\ f.n = at /\ at + 1 \in 1 .. Len(messages)
           /\ AddImageData(f, id)
           /\ UNCHANGED <<generation, topic>>
  BY MessageIs
<1>2. PICK id \in Nat :
           /\ f = messages[at + 1] /\ f.n = at /\ at + 1 \in 1 .. Len(messages)
           /\ AddImageData(f, id)
           /\ UNCHANGED <<generation, topic>>
  BY <1>1
<1>3. /\ stage = "ingest" /\ at' = at + 1 /\ at \in Nat
      /\ UNCHANGED <<encoder, video, decoder, request, messages, route, stage, context, calls>>
  BY DEF IngestMessage, Typed
<1>4. /\ messages \in Seq(Frames) /\ image_topic_data \in Seq(Frames) /\ depth_topic_data \in Seq(Frames)
      /\ topic \in {"raw", "compressed", "compressedDepth"} /\ at + 1 <= Len(messages)
      /\ DOMAIN messages = 1 .. Len(messages) /\ Len(messages) \in Nat /\ Len(image_topic_data) \in Nat
  BY <1>2, <1>3 DEF RowsOk, Typed
<1>5. \/ /\ topic = "raw" \/ Visual(f)
         /\ topic # "compressedDepth"
         /\ \E g \in Frames : /\ g.n = f.n /\ (g.image.decodes <=> f.image.decodes)
                              /\ image_topic_data' = Append(image_topic_data, g)
         /\ UNCHANGED depth_topic_data
      \/ /\ topic # "raw" /\ (Visual(f) => topic = "compressedDepth")
         /\ depth_topic_data' = Append(depth_topic_data, f)
         /\ UNCHANGED image_topic_data
  BY <1>2, <1>4, StoredIs
<1>6. Shown' = Shown /\ \A k \in Shown : k \in 1 .. Len(messages)
  BY <1>2, <1>3, <1>4 DEF Shown, Visual
<1>7. at + 1 \in Shown <=> f.image.decodes /\ (topic = "raw" \/ Visual(f))
  BY <1>2, <1>4 DEF Shown
<1>8. /\ Ascending(image_topic_data)
      /\ \A i \in 1 .. Len(image_topic_data) : image_topic_data[i].n < at
      /\ topic # "compressedDepth" =>
           /\ \A i \in 1 .. Len(image_topic_data) :
                image_topic_data[i].image.decodes => image_topic_data[i].n + 1 \in Shown
           /\ \A k \in Shown : k <= at =>
                \E i \in 1 .. Len(image_topic_data) :
                  image_topic_data[i].image.decodes /\ image_topic_data[i].n = k - 1
  BY <1>3 DEF IngestOk, Ingested
<1>9. Typed'
  <2>1. image_topic_data' \in Seq(Frames) /\ depth_topic_data' \in Seq(Frames)
    <3>1. \A g \in Frames : Append(image_topic_data, g) \in Seq(Frames)
          /\ Append(depth_topic_data, g) \in Seq(Frames)
      BY <1>4, AppendIs
    <3> QED BY <1>4, <1>5, <3>1
  <2>2. UNCHANGED <<messages, image_data, input, route>>
    BY <1>3 DEF decoder, context
  <2>3. Typed /\ at' = at + 1
    BY <1>3
  <2> QED BY <2>1, <2>2, <2>3 DEF Typed
<1>10. /\ Ascending(image_topic_data')
       /\ \A i \in 1 .. Len(image_topic_data') : image_topic_data'[i].n < at + 1
       /\ topic # "compressedDepth" =>
            /\ \A i \in 1 .. Len(image_topic_data') :
                 image_topic_data'[i].image.decodes => image_topic_data'[i].n + 1 \in Shown
            /\ \A k \in Shown : k <= at + 1 =>
                 \E i \in 1 .. Len(image_topic_data') :
                   image_topic_data'[i].image.decodes /\ image_topic_data'[i].n = k - 1
  <2>0. \A i \in 1 .. Len(image_topic_data) : image_topic_data[i].n \in Nat
    <3>1. \A i \in 1 .. Len(image_topic_data) : image_topic_data[i] \in Frames
      BY <1>4, ElementOfSeq
    <3> QED BY <3>1 DEF Frames
  <2>1. CASE /\ topic = "raw" \/ Visual(f)
             /\ topic # "compressedDepth"
             /\ \E g \in Frames : /\ g.n = f.n /\ (g.image.decodes <=> f.image.decodes)
                                  /\ image_topic_data' = Append(image_topic_data, g)
    <3>1. PICK g \in Frames : /\ g.n = f.n /\ (g.image.decodes <=> f.image.decodes)
                             /\ image_topic_data' = Append(image_topic_data, g)
      BY <2>1
    <3> DEFINE len == Len(image_topic_data)
    <3>2. /\ Len(image_topic_data') = len + 1 /\ image_topic_data'[len + 1] = g
          /\ \A i \in 1 .. len : image_topic_data'[i] = image_topic_data[i]
          /\ DOMAIN image_topic_data' = 1 .. len + 1 /\ DOMAIN image_topic_data = 1 .. len
      BY <1>4, <3>1, AppendIs
    <3>3. len \in Nat /\ g.n = at /\ (at + 1 \in Shown <=> g.image.decodes)
      BY <1>2, <1>4, <1>7, <2>1, <3>1
    <3> HIDE DEF len
    <3>4. \A i \in 1 .. len + 1 : i \in 1 .. len \/ i = len + 1
      BY <3>3
    <3>5. Ascending(image_topic_data')
      <4> SUFFICES ASSUME NEW i \in 1 .. len + 1, NEW j \in 1 .. len + 1, i < j
                   PROVE  image_topic_data'[i].n < image_topic_data'[j].n
        BY <3>2 DEF Ascending
      <4>1. i \in 1 .. len
        BY <3>3
      <4>2. CASE j = len + 1
        BY <1>8, <3>2, <3>3, <4>1, <4>2 DEF len
      <4>3. CASE j \in 1 .. len
        BY <1>8, <3>2, <4>1, <4>3 DEF Ascending
      <4> QED BY <3>4, <4>2, <4>3
    <3>6. \A i \in 1 .. len + 1 : image_topic_data'[i].n < at + 1
      <4>1. \A i \in 1 .. len : image_topic_data'[i].n < at + 1
        BY <1>3, <1>8, <2>0, <3>2 DEF len
      <4> QED BY <1>3, <3>2, <3>3, <3>4, <4>1
    <3>7. \A i \in 1 .. len + 1 : image_topic_data'[i].image.decodes => image_topic_data'[i].n + 1 \in Shown
      <4>1. \A i \in 1 .. len : image_topic_data'[i].image.decodes => image_topic_data'[i].n + 1 \in Shown
        BY <1>8, <2>1, <3>2 DEF len
      <4> QED BY <3>2, <3>3, <3>4, <4>1
    <3>8. \A k \in Shown : k <= at + 1 =>
            \E i \in 1 .. len + 1 : image_topic_data'[i].image.decodes /\ image_topic_data'[i].n = k - 1
      <4> SUFFICES ASSUME NEW k \in Shown, k <= at + 1
                   PROVE  \E i \in 1 .. len + 1 : image_topic_data'[i].image.decodes
                          /\ image_topic_data'[i].n = k - 1
        OBVIOUS
      <4>1. CASE k = at + 1
        BY <1>3, <3>2, <3>3, <4>1
      <4>2. CASE k # at + 1
        <5>1. k <= at
          BY <1>3, <1>4, <1>6, <4>2
        <5>2. PICK i \in 1 .. len : image_topic_data[i].image.decodes /\ image_topic_data[i].n = k - 1
          BY <1>8, <2>1, <5>1 DEF len
        <5>3. i \in 1 .. len + 1
          BY <3>3
        <5> QED BY <3>2, <5>2, <5>3
      <4> QED BY <4>1, <4>2
    <3> QED BY <3>2, <3>5, <3>6, <3>7, <3>8
  <2>2. CASE topic # "raw" /\ (Visual(f) => topic = "compressedDepth") /\ UNCHANGED image_topic_data
    <3>1. \A i \in 1 .. Len(image_topic_data) : image_topic_data[i].n < at + 1
      BY <1>3, <1>8, <2>0
    <3>2. topic # "compressedDepth" => ~ (at + 1 \in Shown)
      BY <1>7, <2>2
    <3>3. \A k \in Shown : k <= at + 1 /\ topic # "compressedDepth" => k <= at
      BY <1>3, <1>4, <1>6, <3>2
    <3> QED BY <1>8, <2>2, <3>1, <3>3
  <2> QED BY <1>5, <2>1, <2>2
<1>11. Ingested(at)'
  BY <1>2, <1>3, <1>6, <1>10 DEF Ingested
<1>12. IngestOk'
  BY <1>3, <1>4, <1>11 DEF IngestOk
<1>13. EncoderOk'
  BY <1>3 DEF EncoderOk, encoder, settings, config
<1>14. RegisteredOk' /\ SourceOk'
  BY <1>3 DEF RegisteredOk, SourceOk, context
<1>15. DecodeOk'
  BY <1>3, CacheStays DEF DecodeOk
<1>16. CallsOk'
  BY <1>3, CallsStay
<1>17. EpisodeOk'
  BY <1>3 DEF EpisodeOk, EpisodeShowsIndexedFrames
<1> QED BY <1>9, MessageRowsOk, <1>12, <1>13, <1>14, <1>15, <1>16, <1>17

LEMMA IngestEndKeeps == ASSUME VideoInv, IngestEnd PROVE VideoInv'
<1> USE DEF VideoInv
<1>1. /\ stage = "ingest" /\ at = Len(messages) /\ image_data' = image_topic_data
      /\ stage' = "encode" /\ at' = 0
      /\ UNCHANGED <<ingest, encoder, video, decoder, request, messages, route, directory, registry, calls>>
  BY DEF IngestEnd, Enter
<1>2. UNCHANGED <<topic, image_topic_data, config, input_mode, frame_count, stream, kind, resize, input>>
  BY <1>1 DEF ingest, bag, encoder, settings, config, decoder
<1>3. Typed'
  BY <1>1, <1>2 DEF Typed, ingest
<1>4. RowsOk'
  BY <1>1, RowsStay
<1>5. IngestOk'
  <2>1. Shown' = Shown
    BY <1>1, <1>2 DEF Shown, Visual
  <2> QED BY <1>1, <1>2, <2>1 DEF IngestOk, Ingested, Ascending
<1>6. EncoderOk'
  <2>1. stream = None /\ frame_count = 0 /\ input_mode = "unknown"
    BY <1>1 DEF EncoderOk
  <2>2. EncoderInv(<< >>)'
    BY <1>2, <2>1 DEF EncoderInv, AllDecode
  <2>3. SubSeq(image_data, 1, at)' = << >> /\ Len(image_data') \in Nat
    BY <1>1 DEF Typed
  <2>4. EncoderInv(SubSeq(image_data, 1, at))'
    BY <2>2, <2>3
  <2> QED BY <1>1, <1>2, <2>3, <2>4 DEF EncoderOk
<1>7. RegisteredOk' /\ SourceOk'
  BY <1>1 DEF RegisteredOk, SourceOk
<1>8. DecodeOk'
  BY <1>1, CacheStays DEF DecodeOk
<1>9. CallsOk'
  BY <1>1, CallsStay
<1>10. EpisodeOk'
  BY <1>1 DEF EpisodeOk, EpisodeShowsIndexedFrames
<1> QED BY <1>3, <1>4, <1>5, <1>6, <1>7, <1>8, <1>9, <1>10

LEMMA Longer ==
  ASSUME NEW S, NEW s \in Seq(S), NEW i \in 0 .. Len(s) - 1
  PROVE  SubSeq(s, 1, i + 1) = Append(SubSeq(s, 1, i), s[i + 1])
<1> DEFINE a == SubSeq(s, 1, i + 1)  b == SubSeq(s, 1, i)
<1>1. /\ a \in Seq(S) /\ Len(a) = i + 1 /\ \A j \in 1 .. i + 1 : a[j] = s[j]
      /\ b \in Seq(S) /\ Len(b) = i /\ \A j \in 1 .. i : b[j] = s[j]
      /\ s[i + 1] \in S
  BY SubSeqProperties, ElementOfSeq
<1>2. /\ Append(b, s[i + 1]) \in Seq(S) /\ Len(Append(b, s[i + 1])) = i + 1
      /\ Append(b, s[i + 1])[i + 1] = s[i + 1]
      /\ \A j \in 1 .. i : Append(b, s[i + 1])[j] = b[j]
  <2> HIDE DEF b
  <2> QED BY <1>1, AppendIs
<1>3. \A j \in 1 .. i + 1 : a[j] = Append(b, s[i + 1])[j]
  <2> HIDE DEF a, b
  <2>1. \A j \in 1 .. i + 1 : j \in 1 .. i \/ j = i + 1
    OBVIOUS
  <2> QED BY <1>1, <1>2, <2>1
<1> HIDE DEF a, b
<1>4. a = Append(b, s[i + 1])
  BY <1>1, <1>2, <1>3, SeqEqual
<1> QED BY <1>4 DEF a, b

LEMMA EncodeImageKeeps == ASSUME VideoInv, EncodeImage PROVE VideoInv'
<1> USE DEF VideoInv
<1>1. /\ stage = "encode" /\ at < Len(image_data) /\ at' = at + 1
      /\ AddData(image_data[at + 1])
      /\ UNCHANGED <<ingest, stage, decoder, request, messages, route, context, calls>>
  BY DEF EncodeImage
<1>2. UNCHANGED <<topic, image_topic_data, image_data, registry, input, kind, resize>>
  BY <1>1 DEF ingest, bag, context, decoder, AddData, HardwareAddData, AddFirstDirect, AddDirect,
              AddDecoded, AddRawFrame, SoftwareAddFrame, config
<1>3. at \in Nat /\ image_data \in Seq(Frames) /\ image_data[at + 1] \in Frames
  BY <1>1, ElementOfSeq DEF Typed
<1>4. Typed'
  <2>1. UNCHANGED <<messages, image_topic_data, depth_topic_data, image_data, input, route>> /\ at' = at + 1
    BY <1>1, <1>2 DEF ingest
  <2>2. Typed
    OBVIOUS
  <2> QED BY <2>1, <2>2 DEF Typed
<1>5. RowsOk'
  BY <1>1, RowsStay
<1>6. IngestOk'
  <2>1. Shown' = Shown
    BY <1>1, <1>2 DEF Shown, Visual
  <2> QED BY <1>1, <1>2, <2>1 DEF IngestOk, Ingested, Ascending
<1>7. EncoderOk'
  <2>1. PICK given : given = SubSeq(image_data, 1, at)
    OBVIOUS
  <2>2. PICK f : f = image_data[at + 1]
    OBVIOUS
  <2>3. given \in Seq(Frames)
    BY <1>1, <1>3, <2>1, SubSeqProperties
  <2>4. EncoderInv(given)
    BY <1>1, <2>1 DEF EncoderOk
  <2>5. EncoderInv(Append(given, f))'
    BY <1>1, <1>3, <2>2, <2>3, <2>4, AddDataKeeps
  <2>6. SubSeq(image_data, 1, at)' = Append(given, f)
    BY <1>1, <1>2, <1>3, <2>1, <2>2, Longer
  <2>7. EncoderInv(SubSeq(image_data, 1, at))'
    BY <2>5, <2>6
  <2>8. at' <= Len(image_data') /\ image_data' = image_topic_data'
    BY <1>1, <1>2, <1>3 DEF EncoderOk
  <2> QED BY <1>1, <1>2, <2>7, <2>8 DEF EncoderOk
<1>8. RegisteredOk' /\ SourceOk'
  BY <1>1, <1>2 DEF RegisteredOk, SourceOk
<1>9. DecodeOk'
  BY <1>1, CacheStays DEF DecodeOk
<1>10. CallsOk'
  BY <1>1, CallsStay
<1>11. EpisodeOk'
  BY <1>1 DEF EpisodeOk, EpisodeShowsIndexedFrames
<1> QED BY <1>4, <1>5, <1>6, <1>7, <1>8, <1>9, <1>10, <1>11

(* What is registered is whole. *)
LEMMA Written ==
  ASSUME VideoInv, stage = "encode", at = Len(image_data),
         \E i \in DOMAIN image_data : image_data[i].image.decodes,
         Finish, NEW l, registry' = [level |-> l, file |-> video', size |-> ArtifactSize],
         UNCHANGED <<ingest, messages>>
  PROVE  Whole'
<1> USE DEF VideoInv
<1>1. PICK s : s = image_data
  OBVIOUS
<1>2. s \in Seq(Frames) /\ s # << >> /\ s = image_topic_data /\ Len(s) \in Nat /\ DOMAIN s = 1 .. Len(s)
  BY <1>1 DEF Typed, EncoderOk
<1>3. EncoderInv(s)
  <2>1. SubSeq(image_data, 1, at) = s
    BY <1>1, <1>2
  <2> QED BY <2>1 DEF EncoderOk
<1>4. PICK r : r = Readable(s)
  OBVIOUS
<1>5. ReadableTo(r, s, Len(s))
  BY <1>2, <1>4, ReadableIs
<1>6. /\ video' = File(r, TRUE) /\ (AllDecode(s) => r = s)
      /\ UNCHANGED <<kind, resize, topic, image_topic_data>>
  <2>1. /\ video' = File(Readable(s), TRUE) /\ (AllDecode(s) => Readable(s) = s)
        /\ UNCHANGED <<config, input_mode>>
    BY <1>2, <1>3, FinishIs
  <2> QED BY <1>4, <2>1 DEF config, ingest, bag
<1>7. r \in Seq(Frames) /\ r # << >> /\ Ascending(r) /\ Len(r) \in Nat \ {0} /\ DOMAIN r = 1 .. Len(r)
  <2>1. r \in Seq(Frames)
    BY <1>5 DEF ReadableTo
  <2>2. PICK l1 \in 1 .. Len(s) : s[l1].image.decodes
    BY <1>1, <1>2
  <2>3. \E i \in 1 .. Len(r) : r[i] = s[l1]
    BY <1>5, <2>2 DEF ReadableTo
  <2>4. Ascending(s)
    BY <1>2 DEF IngestOk, Ingested
  <2>5. Ascending(r)
    BY <1>5, <2>4 DEF ReadableTo
  <2> QED BY <2>1, <2>3, <2>5
<1>8. /\ registry'.file.frames = r /\ registry'.file.whole = TRUE
      /\ registry'.file.size = output_dimensions(resize, r[1].image.size)
      /\ registry'.size = output_dimensions(resize, r[1].image.size)
  <2>1. File(r, TRUE).size = output_dimensions(resize, r[1].image.size)
    BY <1>7 DEF File
  <2>2. ArtifactSize = output_dimensions(resize, r[1].image.size)
    BY <1>1, <1>4 DEF ArtifactSize
  <2>3. File(r, TRUE).frames = r /\ File(r, TRUE).whole = TRUE
    BY DEF File
  <2> QED BY <1>6, <2>1, <2>2, <2>3
<1>9. output_dimensions(resize, r[1].image.size) \in Sizes
  <2>1. r[1] \in Frames
    BY <1>7, ElementOfSeq
  <2>2. r[1].image.size \in Sizes
    BY <2>1 DEF Frames, Sizes
  <2>3. resize \in Sizes
    BY DEF EncoderOk, Sizes
  <2> QED BY <2>2, <2>3 DEF output_dimensions
<1>10. Shown' = Shown
  BY <1>6 DEF Shown, Visual
<1>11. {r[i].n : i \in DOMAIN r} = {messages[k].n : k \in Shown}
  <2>1. topic # "compressedDepth"
    BY <1>2 DEF RowsOk
  <2>2. Shown \subseteq 1 .. Len(messages) /\ \A k \in Shown : messages[k].n = k - 1 /\ k <= Len(messages)
    <3>1. Len(messages) \in Nat /\ DOMAIN messages = 1 .. Len(messages)
      BY DEF Typed
    <3>2. Shown \subseteq 1 .. Len(messages)
      BY <3>1 DEF Shown
    <3> QED BY <3>1, <3>2 DEF Typed
  <2>3. /\ \A i \in 1 .. Len(s) : s[i].image.decodes => s[i].n + 1 \in Shown
        /\ \A k \in Shown : \E i \in 1 .. Len(s) : s[i].image.decodes /\ s[i].n = k - 1
    BY <1>2, <2>1, <2>2 DEF IngestOk, Ingested
  <2>4. \A i \in 1 .. Len(s) : s[i].n \in Nat
    <3>1. \A i \in 1 .. Len(s) : s[i] \in Frames
      BY <1>2, ElementOfSeq
    <3> QED BY <3>1 DEF Frames
  <2>5. ASSUME NEW i \in 1 .. Len(r) PROVE \E k \in Shown : r[i].n = messages[k].n
    <3>1. PICK j \in 1 .. Len(s) : r[i] = s[j] /\ s[j].image.decodes
      BY <1>5 DEF ReadableTo
    <3>2. s[j].n + 1 \in Shown /\ s[j].n = (s[j].n + 1) - 1
      BY <2>3, <2>4, <3>1
    <3> QED BY <2>2, <3>1, <3>2
  <2>6. ASSUME NEW k \in Shown PROVE \E i \in 1 .. Len(r) : r[i].n = messages[k].n
    <3>1. PICK j \in 1 .. Len(s) : s[j].image.decodes /\ s[j].n = k - 1
      BY <2>3
    <3>2. PICK i \in 1 .. Len(r) : r[i] = s[j]
      BY <1>5, <3>1 DEF ReadableTo
    <3> QED BY <2>2, <3>1, <3>2
  <2>7. DOMAIN r = 1 .. Len(r)
    BY <1>7
  <2>8. {r[i].n : i \in DOMAIN r} \subseteq {messages[k].n : k \in Shown}
    BY <2>5, <2>7
  <2>9. {messages[k].n : k \in Shown} \subseteq {r[i].n : i \in DOMAIN r}
    <3> SUFFICES ASSUME NEW k \in Shown PROVE messages[k].n \in {r[i].n : i \in DOMAIN r}
      OBVIOUS
    <3>1. PICK i \in 1 .. Len(r) : r[i].n = messages[k].n
      BY <2>6
    <3> QED BY <2>7, <3>1
  <2> QED BY <2>8, <2>9, Zenon
<1>12. ~ SkipsFrames' => r = s
  <2> SUFFICES ASSUME ~ SkipsFrames' PROVE r = s
    OBVIOUS
  <2>1. ~ SkipsFrames
    BY <1>6 DEF SkipsFrames
  <2>2. CASE kind = "software" \/ input_mode \notin {"jpeg", "png"}
    BY <1>3, <1>6, <2>2 DEF EncoderInv
  <2>3. CASE kind # "software" /\ input_mode \in {"jpeg", "png"}
    <3>1. s[1].image.format \in {"jpeg", "png"}
      BY <1>3, <2>3 DEF EncoderInv
    <3>2. AllDecode(s)
      BY <1>2, <2>1, <2>3, <3>1 DEF SkipsFrames, AllDecode
    <3> QED BY <1>6, <3>2
  <2> QED BY <2>2, <2>3
<1>13. {messages[k].n : k \in Shown}' = {messages[k].n : k \in Shown}
  BY <1>10
<1>14. image_topic_data' = s
  BY <1>2, <1>6
<1>15. Ascending(registry.file.frames)'
  <2>1. registry'.file.frames = r /\ Ascending(r)
    BY <1>7, <1>8
  <2> QED BY <2>1, Zenon DEF Ascending
<1>16. (/\ registry.file.whole /\ registry.file.frames \in Seq(Frames) \ {<< >>}
         /\ registry.size \in Sizes /\ registry.file.size = registry.size)'
  BY <1>7, <1>8, <1>9, Zenon
<1>17. ({registry.file.frames[i].n : i \in DOMAIN registry.file.frames} = {messages[k].n : k \in Shown})'
  BY <1>8, <1>11, <1>13, Zenon
<1>18. (image_topic_data # << >> /\ (~ SkipsFrames => registry.file.frames = image_topic_data))'
  BY <1>2, <1>8, <1>12, <1>14, Zenon
<1> QED BY <1>15, <1>16, <1>17, <1>18, Zenon DEF Whole

LEMMA EncodeNothingKeeps == ASSUME VideoInv, EncodeNothing PROVE VideoInv'
<1> USE DEF VideoInv
<1>1. /\ stage = "encode" /\ stage' = "done" /\ at' = 0
      /\ UNCHANGED <<ingest, encoder, video, decoder, request, messages, route, registry, image_data, calls>>
  BY DEF EncodeNothing, Enter
<1>2. UNCHANGED <<asked, input, resize>>
  BY <1>1 DEF calls, decoder, encoder, settings, config
<1>3. Typed'
  BY <1>1, <1>2 DEF Typed, ingest
<1>4. RowsOk'
  BY <1>1, RowsStay
<1>5. IngestOk' /\ EncoderOk' /\ SourceOk'
  BY <1>1, <1>2 DEF IngestOk, EncoderOk, SourceOk
<1>6. RegisteredOk'
  BY <1>1 DEF RegisteredOk
<1>7. DecodeOk'
  BY <1>1, CacheStays DEF DecodeOk
<1>8. CallsOk'
  BY <1>1, CallsStay
<1>9. EpisodeOk'
  <2>1. asked' = << >>
    BY <1>1, <1>2 DEF CallsOk
  <2> QED BY <1>1, <2>1 DEF EpisodeOk, EpisodeShowsIndexedFrames
<1> QED BY <1>3, <1>4, <1>5, <1>6, <1>7, <1>8, <1>9

LEMMA EncodeEndKeeps == ASSUME VideoInv, EncodeEnd \/ ExportBundle PROVE VideoInv'
<1> USE DEF VideoInv
<1>1. /\ stage = "encode" /\ at = Len(image_data) /\ at' = 0
      /\ \E i \in DOMAIN image_data : image_data[i].image.decodes
      /\ Finish
      /\ \/ stage' = "depth" /\ UNCHANGED image_data
         \/ stage' = "open" /\ route # "ingested" /\ image_data' = << >>
      /\ UNCHANGED <<ingest, decoder, request, messages, route, calls>>
  BY DEF EncodeEnd, ExportBundle, Enter
<1>2. PICK l : registry' = [level |-> l, file |-> video', size |-> ArtifactSize]
  BY DEF EncodeEnd, ExportBundle
<1>3. Whole'
  BY <1>1, <1>2, Written
<1>4. UNCHANGED <<input, resize, image_topic_data>>
  BY <1>1 DEF Finish, settings, config, decoder, ingest
<1>5. Typed'
  <2>1. image_data' \in Seq(Frames)
    <3>1. image_data' = image_data \/ image_data' = << >>
      BY <1>1
    <3>2. image_data \in Seq(Frames) /\ << >> \in Seq(Frames)
      BY DEF Typed
    <3> QED BY <3>1, <3>2
  <2>2. at' \in Nat /\ UNCHANGED <<messages, image_topic_data, depth_topic_data, input, route>>
    BY <1>1, <1>4 DEF ingest
  <2> QED BY <2>1, <2>2 DEF Typed
<1>6. RowsOk'
  BY <1>1, RowsStay
<1>7. IngestOk' /\ EncoderOk'
  BY <1>1, <1>4 DEF IngestOk, EncoderOk
<1>8. RegisteredOk'
  BY <1>1, <1>3 DEF RegisteredOk
<1>9. SourceOk'
  BY <1>1, <1>4 DEF SourceOk, EncoderOk
<1>10. DecodeOk'
  BY <1>1, CacheStays DEF DecodeOk
<1>11. CallsOk'
  BY <1>1, CallsStay
<1>12. EpisodeOk'
  BY <1>1 DEF EpisodeOk, EpisodeShowsIndexedFrames
<1> QED BY <1>5, <1>6, <1>7, <1>8, <1>9, <1>10, <1>11, <1>12

LEMMA DepthStageKeeps == ASSUME VideoInv, DepthStage PROVE VideoInv'
<1> USE DEF VideoInv
<1>1. /\ stage = "depth" /\ at' = 0
      /\ stage' = IF route = "ingested" THEN "transform" ELSE "open"
      /\ IF route = "ingested" THEN New /\ video' = None ELSE UNCHANGED <<encoder, video>>
      /\ UNCHANGED <<ingest, decoder, request, messages, route, registry, image_data, calls>>
  BY DEF DepthStage, Enter
<1>2. UNCHANGED <<config, input, resize, image_topic_data, asked, answers>>
  BY <1>1 DEF New, encoder, settings, config, decoder, ingest, calls
<1>3. Typed'
  BY <1>1, <1>2 DEF Typed, ingest
<1>4. RowsOk'
  BY <1>1, RowsStay
<1>5. IngestOk' /\ EncoderOk'
  BY <1>1, <1>2 DEF IngestOk, EncoderOk
<1>6. RegisteredOk'
  BY <1>1, <1>2, WholeStays DEF RegisteredOk
<1>7. SourceOk'
  BY <1>1, <1>2 DEF SourceOk
<1>8. DecodeOk'
  BY <1>1, CacheStays DEF DecodeOk
<1>9. CallsOk'
  BY <1>1, CallsStay
<1>10. EpisodeOk'
  <2>1. asked' = << >> /\ answers' = << >>
    BY <1>1, <1>2 DEF CallsOk
  <2>2. CASE route = "ingested"
    <3>1. EncoderInv(<< >>)' /\ Raw'
      BY <1>1, <2>2, NewIs
    <3>2. EncoderInv(answers)'
      BY <2>1, <3>1
    <3> QED BY <1>1, <2>1, <2>2, <3>1, <3>2 DEF EpisodeOk, EpisodeShowsIndexedFrames
  <2>3. CASE route # "ingested"
    BY <1>1, <2>3 DEF EpisodeOk, EpisodeShowsIndexedFrames
  <2> QED BY <2>2, <2>3
<1> QED BY <1>3, <1>4, <1>5, <1>6, <1>7, <1>8, <1>9, <1>10

(* Scaling a video leaves its frames at their places. *)
LEMMA OneSizeIs ==
  ASSUME Whole
  PROVE  /\ OneSize(registry.file) \in Seq(Frames)
         /\ Len(OneSize(registry.file)) = Len(registry.file.frames)
         /\ \A i \in 1 .. Len(registry.file.frames) :
              OneSize(registry.file)[i].n = registry.file.frames[i].n
<1> DEFINE s == registry.file.frames
<1>1. s \in Seq(Frames) /\ registry.file.size \in Sizes /\ Len(s) \in Nat /\ DOMAIN s = 1 .. Len(s)
  BY DEF Whole
<1>2. OneSize(registry.file) = [i \in 1 .. Len(s) |-> [s[i] EXCEPT !.image.size = registry.file.size]]
  BY <1>1 DEF OneSize
<1> HIDE DEF s
<1>3. ASSUME NEW i \in 1 .. Len(s)
      PROVE  /\ [s[i] EXCEPT !.image.size = registry.file.size] \in Frames
             /\ [s[i] EXCEPT !.image.size = registry.file.size].n = s[i].n
  <2>1. s[i] \in Frames
    BY <1>1, ElementOfSeq
  <2> QED BY <1>1, <2>1 DEF Frames, Sizes
<1>4. OneSize(registry.file) \in Seq(Frames) /\ Len(OneSize(registry.file)) = Len(s)
  BY <1>1, <1>2, <1>3
<1>5. \A i \in 1 .. Len(s) : OneSize(registry.file)[i].n = s[i].n
  BY <1>2, <1>3
<1> QED BY <1>4, <1>5 DEF s

LEMMA EncoderStays ==
  ASSUME NEW given, EncoderInv(given), Raw, UNCHANGED encoder PROVE EncoderInv(given)' /\ Raw'
<1>1. UNCHANGED <<stream, kind, frame_count, input_mode>>
  BY DEF encoder, settings, config
<1> QED BY <1>1 DEF EncoderInv, Raw, AllDecode

LEMMA OpenArtifactKeeps == ASSUME VideoInv, OpenArtifact PROVE VideoInv'
<1> USE DEF VideoInv
<1>1. /\ stage = "open" /\ OpenVideo(OneSize(registry.file)) /\ at' = 0
      /\ image_data' = << >> /\ New
      /\ UNCHANGED <<ingest, request, messages, route, directory, registry, calls>>
  BY DEF OpenArtifact, Enter
<1>2. \/ route = "decoded" /\ stage' = "decode"
      \/ route = "file" /\ stage' = "transform"
      \/ route = "calls" /\ stage' = "calls"
  <2>1. route \in {"decoded", "file", "calls"}
    BY <1>1 DEF SourceOk, Typed, Route
  <2>2. stage' = CASE route = "decoded" -> "decode"
                   [] route = "file" -> "transform"
                   [] route = "calls" -> "calls"
    BY DEF OpenArtifact, Enter
  <2> QED BY <2>1, <2>2
<1>3. Whole
  BY <1>1 DEF RegisteredOk
<1>4. /\ input' = OneSize(registry.file) /\ last_frame_cache' = NoCache /\ last_decoded_pts' = NoPts
      /\ UNCHANGED <<config, resize, image_topic_data, asked, answers>>
      /\ asked = << >> /\ answers = << >>
  BY <1>1 DEF OpenVideo, New, config, ingest, calls, CallsOk
<1>5. Typed'
  <2>1. input' \in Seq(Frames)
    BY <1>3, <1>4, OneSizeIs
  <2> QED BY <1>1, <1>4, <2>1 DEF Typed, ingest
<1>6. RowsOk'
  BY <1>1, RowsStay
<1>7. IngestOk' /\ EncoderOk'
  BY <1>1, <1>2, <1>4 DEF IngestOk, EncoderOk
<1>8. RegisteredOk'
  BY <1>1, <1>2, <1>3, <1>4, WholeStays DEF RegisteredOk
<1>9. SourceOk'
  <2>1. OneSize(registry.file)' = OneSize(registry.file)
    BY <1>1 DEF OneSize
  <2> QED BY <1>1, <1>2, <1>4, <2>1 DEF SourceOk
<1>10. DecodeOk'
  <2>1. CacheOk'
    BY <1>4 DEF CacheOk, NoCache
  <2>2. 0 \in 0 .. Len(input') /\ Len(image_data') = 0
    BY <1>1, <1>5 DEF Typed
  <2> QED BY <1>1, <1>4, <2>1, <2>2 DEF DecodeOk
<1>11. CallsOk'
  BY <1>1, <1>4 DEF CallsOk, AnswersAreRight, Somewhere
<1>12. EpisodeOk'
  <2>1. EncoderInv(<< >>)' /\ Raw'
    BY <1>1, NewIs
  <2>2. EncoderInv(answers)'
    BY <1>4, <2>1
  <2> QED BY <1>1, <1>2, <1>4, <2>1, <2>2 DEF EpisodeOk, EpisodeShowsIndexedFrames
<1> QED BY <1>5, <1>6, <1>7, <1>8, <1>9, <1>10, <1>11, <1>12

LEMMA DecodeEndKeeps == ASSUME VideoInv, DecodeEnd PROVE VideoInv'
<1> USE DEF VideoInv
<1>1. /\ stage = "decode" /\ stage' = "transform" /\ at' = 0
      /\ UNCHANGED <<ingest, encoder, video, decoder, request, messages, route, context, calls>>
  BY DEF DecodeEnd, Enter
<1>2. UNCHANGED <<config, resize, input, registry, image_data, image_topic_data, asked, answers>>
  BY <1>1 DEF encoder, settings, config, decoder, context, ingest, calls
<1>3. Typed'
  BY <1>1, <1>2 DEF Typed, ingest
<1>4. RowsOk'
  BY <1>1, RowsStay
<1>5. IngestOk' /\ EncoderOk'
  BY <1>1, <1>2 DEF IngestOk, EncoderOk
<1>6. RegisteredOk'
  BY <1>1, <1>2, WholeStays DEF RegisteredOk
<1>7. SourceOk'
  BY <1>1, <1>2 DEF SourceOk, OneSize
<1>8. DecodeOk'
  BY <1>1, CacheStays DEF DecodeOk
<1>9. CallsOk'
  BY <1>1, CallsStay
<1>10. EpisodeOk'
  <2>1. asked = << >> /\ answers = << >> /\ EncoderInv(<< >>) /\ Raw
    BY <1>1 DEF CallsOk, EpisodeOk
  <2>2. EncoderInv(<< >>)' /\ Raw'
    BY <1>1, <2>1, EncoderStays
  <2>3. EncoderInv(answers)'
    BY <1>2, <2>1, <2>2
  <2> QED BY <1>1, <1>2, <2>1, <2>2, <2>3 DEF EpisodeOk, EpisodeShowsIndexedFrames
<1> QED BY <1>3, <1>4, <1>5, <1>6, <1>7, <1>8, <1>9, <1>10

LEMMA DecodeFrameKeeps == ASSUME VideoInv, DecodeFrame PROVE VideoInv'
<1> USE DEF VideoInv
<1>1. /\ stage = "decode" /\ route = "decoded" /\ at < Len(input) /\ at' = at + 1 /\ at \in Nat
      /\ AtIndex(at) /\ input \in Seq(Frames) /\ image_data \in Seq(Frames)
      /\ image_data' = IF answer' = NoFrame THEN image_data ELSE Append(image_data, answer')
      /\ UNCHANGED <<ingest, encoder, video, stage, request, messages, route, directory, registry, calls>>
  BY DEF DecodeFrame, SourceOk, Typed
<1>2. PICK index : index = at
  OBVIOUS
<1>3. PICK p \in 0 .. Len(input) : \E lost \in BOOLEAN :
        /\ last_decoded_pts = NoPts \/ Position(p, lost)
        /\ at <= LastOut + 1 => ~ lost /\ Len(image_data) = at
  BY <1>1 DEF DecodeOk
<1>4. PICK lost \in BOOLEAN :
        /\ last_decoded_pts = NoPts \/ Position(p, lost)
        /\ at <= LastOut + 1 => ~ lost /\ Len(image_data) = at
  BY <1>3
<1>5. Found(index, p, lost) /\ CacheOk' /\ UNCHANGED input
  BY <1>1, <1>2, <1>4, AtIndexFinds DEF DecodeOk
<1>6. LastOut' = LastOut /\ LastOut \in Int /\ LastOut < Len(input) /\ Len(input) \in Nat
  BY <1>1, <1>5, DecoderAssumption DEF LastOut
<1>7. /\ answer' # NoFrame => index <= LastOut /\ answer' = input[index + 1] /\ answer' \in Frames
      /\ answer' = NoFrame => index > LastOut
  BY <1>1, <1>2, <1>4, <1>5, <1>6 DEF Found
<1>8. UNCHANGED <<config, resize, image_topic_data, asked, answers>>
  BY <1>1 DEF encoder, settings, config, ingest, calls
<1>9. /\ image_data' \in Seq(Frames)
      /\ \A i \in 1 .. Len(image_data') : i <= Len(input) /\ image_data'[i] = input[i]
      /\ at + 1 <= LastOut + 1 => Len(image_data') = at + 1
  <2>1. CASE answer' = NoFrame
    BY <1>1, <1>2, <1>6, <1>7, <2>1 DEF SourceOk
  <2>2. CASE answer' # NoFrame
    <3>1. PICK f \in Frames : f = answer' /\ f = input[at + 1]
      BY <1>2, <1>7, <2>2
    <3>2. Len(image_data) = at /\ at <= LastOut
      BY <1>1, <1>2, <1>4, <1>6, <1>7, <2>2
    <3>3. image_data' = Append(image_data, f)
      BY <1>1, <2>2, <3>1
    <3>4. /\ Append(image_data, f) \in Seq(Frames) /\ Len(Append(image_data, f)) = at + 1
          /\ Append(image_data, f)[at + 1] = f
          /\ \A i \in 1 .. at : Append(image_data, f)[i] = image_data[i]
      BY <1>1, <3>2, AppendIs
    <3>5. \A i \in 1 .. at : i <= Len(input) /\ image_data[i] = input[i]
      BY <1>1, <3>2 DEF SourceOk
    <3>6. \A i \in 1 .. at + 1 : i \in 1 .. at \/ i = at + 1
      BY <1>1
    <3>7. at + 1 <= Len(input)
      BY <1>1, <1>6
    <3> QED BY <3>1, <3>3, <3>4, <3>5, <3>6, <3>7
  <2> QED BY <2>1, <2>2
<1>10. Typed'
  BY <1>1, <1>5, <1>9 DEF Typed, ingest
<1>11. RowsOk'
  BY <1>1, RowsStay
<1>12. IngestOk' /\ EncoderOk'
  BY <1>1, <1>8 DEF IngestOk, EncoderOk
<1>13. RegisteredOk'
  BY <1>1, <1>8, WholeStays DEF RegisteredOk
<1>14. SourceOk'
  BY <1>1, <1>5, <1>9 DEF SourceOk, OneSize
<1>15. DecodeOk'
  <2>1. \E q \in 0 .. Len(input), gone \in BOOLEAN :
           /\ last_decoded_pts' = NoPts \/ Position(q, gone)'
           /\ at + 1 <= LastOut + 1 => ~ gone
    <3>1. CASE last_decoded_pts' = NoPts
      BY <1>6, <3>1
    <3>2. CASE answer' # NoFrame /\ Position(index, FALSE)'
      <4>1. index \in 0 .. Len(input)
        BY <1>1, <1>2, <1>6, <1>7, <3>2
      <4>2. \E gone \in BOOLEAN : Position(index, gone)' /\ (at + 1 <= LastOut + 1 => ~ gone)
        BY <3>2
      <4> QED BY <4>1, <4>2
    <3>3. CASE answer' = NoFrame /\ last_decoded_pts # NoPts /\ Position(p, TRUE)'
      <4>1. ~ (at + 1 <= LastOut + 1)
        BY <1>1, <1>2, <1>6, <1>7, <3>3
      <4>2. \E gone \in BOOLEAN : Position(p, gone)'
        BY <3>3
      <4> QED BY <4>1, <4>2
    <3>4. CASE answer' # NoFrame /\ last_decoded_pts # NoPts /\ Position(p, lost)'
      <4>1. at + 1 <= LastOut + 1 => ~ lost
        BY <1>1, <1>4, <1>6
      <4> QED BY <3>4, <4>1
    <3> QED BY <1>5, <3>1, <3>2, <3>3, <3>4 DEF Found
  <2> QED BY <1>1, <1>5, <1>6, <1>9, <2>1 DEF DecodeOk
<1>16. CallsOk'
  BY <1>1, <1>8 DEF CallsOk, AnswersAreRight
<1>17. EpisodeOk'
  <2>1. PICK given : given = answers
    OBVIOUS
  <2>2. EncoderInv(given)' /\ Raw'
    BY <1>1, <2>1, EncoderStays DEF EpisodeOk
  <2>3. EncoderInv(answers)'
    BY <1>8, <2>1, <2>2
  <2> QED BY <1>1, <1>8, <2>2, <2>3 DEF EpisodeOk, EpisodeShowsIndexedFrames
<1> QED BY <1>10, <1>11, <1>12, <1>13, <1>14, <1>15, <1>16, <1>17

(* A call of the decoder leaves every answer right. *)
LEMMA CallKeeps ==
  ASSUME VideoInv, route \in {"file", "calls"}, NEW row \in Row,
         AtIndex(row.index) \/ AtTimestamp(row.index),
         NEW f, f = answer', asked' = Append(asked, row), answers' = Append(answers, f),
         UNCHANGED route, stage' \in {"transform", "calls", "failed"}
  PROVE  /\ CallsOk' /\ CacheOk' /\ UNCHANGED input
         /\ f # NoFrame => f \in Frames /\ row.index + 1 \in 1 .. Len(input) /\ f = input[row.index + 1]
<1> USE DEF VideoInv
<1>0. PICK index : index = row.index
  OBVIOUS
<1>1. /\ index \in Nat /\ input \in Seq(Frames) /\ Len(input) \in Nat /\ LastOut \in Int
      /\ LastOut < Len(input) /\ LastOut = Len(input) - Delay - 1 /\ Delay \in Nat
  BY <1>0, DecoderAssumption DEF Row, Typed, LastOut
<1>2. /\ asked \in Seq(Row) /\ answers \in Seq(Frames \cup {NoFrame}) /\ Len(asked) = Len(answers)
      /\ Len(asked) \in Nat
  BY DEF CallsOk
<1>3. PICK a, s, len : a = asked /\ s = answers /\ len = Len(asked)
  OBVIOUS
<1>4. \/ last_decoded_pts = NoPts
      \/ last_decoded_pts # NoPts /\ \E i \in 1 .. len, lost \in BOOLEAN, p \in Nat :
           /\ s[i] # NoFrame /\ p = a[i].index
           /\ Position(p, lost)
           /\ lost => \E j \in i + 1 .. len : s[j] = NoFrame
  <2>1. CASE last_decoded_pts # NoPts
    <3>1. PICK i \in 1 .. len : \E lost \in BOOLEAN :
            /\ s[i] # NoFrame /\ Position(a[i].index, lost)
            /\ lost => \E j \in i + 1 .. len : s[j] = NoFrame
      BY <1>3, <2>1 DEF CallsOk, Somewhere
    <3>2. a[i].index \in Nat
      <4>1. \A k \in 1 .. Len(asked) : asked[k] \in Row
        BY <1>2, ElementOfSeq
      <4>2. a[i] \in Row
        BY <1>3, <3>1, <4>1
      <4> QED BY <4>2 DEF Row
    <3> QED BY <2>1, <3>1, <3>2
  <2> QED BY <2>1
<1>5. ASSUME NEW p, NEW lost \in BOOLEAN, last_decoded_pts = NoPts \/ Position(p, lost)
      PROVE  Found(index, p, lost) /\ CacheOk' /\ UNCHANGED input
  <2>1. CASE AtIndex(row.index)
    BY <1>0, <1>1, <1>5, <2>1, AtIndexFinds DEF DecodeOk
  <2>2. CASE AtTimestamp(row.index)
    BY <1>0, <1>1, <1>5, <2>2, AtTimestampFinds DEF DecodeOk
  <2> QED BY <2>1, <2>2
(* what it finds, and where that leaves the decoder *)
<1>6. /\ f # NoFrame =>
           /\ index <= LastOut /\ f = input[index + 1] /\ f \in Frames
           /\ \/ last_decoded_pts' = NoPts
              \/ Position(index, FALSE)'
              \/ \E i \in 1 .. len, lost \in BOOLEAN, p \in Nat :
                   /\ s[i] # NoFrame /\ p = a[i].index
                   /\ Position(p, lost)'
                   /\ lost => \E j \in i + 1 .. len : s[j] = NoFrame
      /\ f = NoFrame =>
           /\ \/ index > LastOut
              \/ \E i \in 1 .. len : /\ s[i] # NoFrame /\ a[i].index < index
                                     /\ \E j \in i + 1 .. len : s[j] = NoFrame
           /\ \/ last_decoded_pts' = NoPts
              \/ \E i \in 1 .. len, p \in Nat : s[i] # NoFrame /\ p = a[i].index /\ Position(p, TRUE)'
      /\ CacheOk' /\ UNCHANGED input
  <2>1. CASE last_decoded_pts = NoPts
    <3>1. Found(index, 0, FALSE) /\ CacheOk' /\ UNCHANGED input
      BY <1>5, <2>1
    <3> QED BY <2>1, <3>1 DEF Found
  <2>2. CASE last_decoded_pts # NoPts
    <3>1. PICK i \in 1 .. len : \E lost \in BOOLEAN, p \in Nat :
           /\ s[i] # NoFrame /\ p = a[i].index
           /\ Position(p, lost)
           /\ lost => \E j \in i + 1 .. len : s[j] = NoFrame
      BY <1>4, <2>2
    <3>2. PICK lost \in BOOLEAN : \E p \in Nat :
           /\ s[i] # NoFrame /\ p = a[i].index
           /\ Position(p, lost)
           /\ lost => \E j \in i + 1 .. len : s[j] = NoFrame
      BY <3>1
    <3>3. PICK p \in Nat :
           /\ s[i] # NoFrame /\ p = a[i].index
           /\ Position(p, lost)
           /\ lost => \E j \in i + 1 .. len : s[j] = NoFrame
      BY <3>2
    <3>4. Found(index, p, lost) /\ CacheOk' /\ UNCHANGED input
      BY <1>5, <3>3
    <3>5. f # NoFrame =>
           /\ index <= LastOut /\ f = input[index + 1] /\ f \in Frames
           /\ last_decoded_pts' = NoPts \/ Position(index, FALSE)' \/ Position(p, lost)'
      BY <3>4 DEF Found
    <3>6. f = NoFrame =>
           /\ index > LastOut \/ (lost /\ index > p)
           /\ last_decoded_pts' = NoPts \/ Position(p, TRUE)'
      BY <3>4 DEF Found
    <3>7. index > LastOut \/ (lost /\ index > p) =>
           \/ index > LastOut
           \/ \E k \in 1 .. len : /\ s[k] # NoFrame /\ a[k].index < index
                                  /\ \E j \in k + 1 .. len : s[j] = NoFrame
      BY <1>1, <3>3
    <3>8. Position(p, lost)' =>
           \E k \in 1 .. len, gone \in BOOLEAN, q \in Nat :
             /\ s[k] # NoFrame /\ q = a[k].index
             /\ Position(q, gone)'
             /\ gone => \E j \in k + 1 .. len : s[j] = NoFrame
      BY <3>3
    <3>9. Position(p, TRUE)' => \E k \in 1 .. len, q \in Nat : s[k] # NoFrame /\ q = a[k].index
          /\ Position(q, TRUE)'
      BY <3>3
    <3> QED BY <3>4, <3>5, <3>6, <3>7, <3>8, <3>9
  <2> QED BY <2>1, <2>2
<1>7. LastOut' = LastOut
  BY <1>6 DEF LastOut
<1>8. f \in Frames \cup {NoFrame} /\ len \in Nat /\ len = Len(asked) /\ len = Len(answers)
  BY <1>2, <1>3, <1>6
<1>9. /\ asked' \in Seq(Row) /\ Len(asked') = len + 1 /\ asked'[len + 1] = row
      /\ \A i \in 1 .. len : asked'[i] = a[i]
  <2>1. /\ Append(asked, row) \in Seq(Row) /\ Len(Append(asked, row)) = Len(asked) + 1
        /\ Append(asked, row)[Len(asked) + 1] = row
        /\ \A i \in 1 .. Len(asked) : Append(asked, row)[i] = asked[i]
    BY <1>2, AppendIs
  <2> QED BY <1>3, <2>1
<1>10. /\ answers' \in Seq(Frames \cup {NoFrame}) /\ Len(answers') = len + 1 /\ answers'[len + 1] = f
       /\ \A i \in 1 .. len : answers'[i] = s[i]
  <2> DEFINE S == Frames \cup {NoFrame}
  <2>1. answers \in Seq(S) /\ f \in S
    BY <1>2, <1>8
  <2> HIDE DEF S
  <2>2. /\ Append(answers, f) \in Seq(S) /\ Len(Append(answers, f)) = Len(answers) + 1
        /\ Append(answers, f)[Len(answers) + 1] = f
        /\ \A i \in 1 .. Len(answers) : Append(answers, f)[i] = answers[i]
    BY <2>1, AppendIs
  <2>3. answers' \in Seq(S) /\ Len(answers') = len + 1
    BY <1>3, <1>8, <2>2
  <2>4. answers'[len + 1] = f /\ \A i \in 1 .. len : answers'[i] = s[i]
    BY <1>3, <1>8, <2>2
  <2> QED BY <2>3, <2>4 DEF S
<1>11. AnswersAreRight'
  <2>1. \A k \in 1 .. len :
          /\ s[k] # NoFrame => s[k] = input[a[k].index + 1]
          /\ s[k] = NoFrame =>
               \/ a[k].index >= Len(input) - Delay
               \/ \E j \in 2 .. k - 1 : \E i \in 1 .. j - 1 :
                    s[j] = NoFrame /\ s[i] # NoFrame /\ a[i].index < a[k].index
    <3> SUFFICES ASSUME NEW k \in 1 .. len
                 PROVE  /\ s[k] # NoFrame => s[k] = input[a[k].index + 1]
                        /\ s[k] = NoFrame =>
                             \/ a[k].index >= Len(input) - Delay
                             \/ \E j \in 2 .. k - 1 : \E i \in 1 .. j - 1 :
                                  s[j] = NoFrame /\ s[i] # NoFrame /\ a[i].index < a[k].index
      OBVIOUS
    <3>1. AnswersAreRight /\ k \in DOMAIN asked
      BY <1>2, <1>3 DEF CallsOk
    <3>2. IF answers[k] # NoFrame
          THEN answers[k] = input[asked[k].index + 1]
          ELSE \/ asked[k].index >= Len(input) - Delay
               \/ \E j \in 2 .. k - 1 : \E i \in 1 .. j - 1 :
                    /\ answers[j] = NoFrame
                    /\ answers[i] # NoFrame /\ asked[i].index < asked[k].index
      BY <3>1, Zenon DEF AnswersAreRight
    <3>3. CASE s[k] # NoFrame
      BY <1>3, <3>2, <3>3
    <3>4. CASE s[k] = NoFrame
      BY <1>3, <3>2, <3>4
    <3> QED BY <3>3, <3>4
  <2> SUFFICES ASSUME NEW k \in 1 .. len + 1
               PROVE  /\ answers'[k] # NoFrame => answers'[k] = input'[asked'[k].index + 1]
                      /\ answers'[k] = NoFrame =>
                           \/ asked'[k].index >= Len(input') - Delay
                           \/ \E j \in 2 .. k - 1 : \E i \in 1 .. j - 1 :
                                /\ answers'[j] = NoFrame
                                /\ answers'[i] # NoFrame /\ asked'[i].index < asked'[k].index
    <3>1. DOMAIN asked' = 1 .. len + 1
      BY <1>8, <1>9
    <3> QED BY <3>1 DEF AnswersAreRight
  <2>2. \A j \in 2 .. k - 1 : j \in 1 .. len /\ \A i \in 1 .. j - 1 : i \in 1 .. len
    BY <1>8
  <2>3. CASE k \in 1 .. len
    <3>1. asked'[k] = a[k] /\ answers'[k] = s[k]
      BY <1>9, <1>10, <2>3
    <3>2. CASE s[k] # NoFrame
      BY <1>6, <2>1, <2>3, <3>1, <3>2
    <3>3. CASE s[k] = NoFrame /\ a[k].index >= Len(input) - Delay
      BY <1>6, <3>1, <3>3
    <3>4. CASE s[k] = NoFrame /\ \E j \in 2 .. k - 1 : \E i \in 1 .. j - 1 :
                                   s[j] = NoFrame /\ s[i] # NoFrame /\ a[i].index < a[k].index
      <4>1. PICK j \in 2 .. k - 1 : \E i \in 1 .. j - 1 :
                                   s[j] = NoFrame /\ s[i] # NoFrame /\ a[i].index < a[k].index
        BY <3>4
      <4>2. PICK i \in 1 .. j - 1 : s[j] = NoFrame /\ s[i] # NoFrame /\ a[i].index < a[k].index
        BY <4>1
      <4>3. j \in 1 .. len /\ i \in 1 .. len
        BY <2>2
      <4>4. answers'[j] = NoFrame /\ answers'[i] # NoFrame /\ asked'[i].index < asked'[k].index
        BY <1>9, <1>10, <3>1, <4>2, <4>3
      <4> QED BY <3>1, <3>4, <4>4
    <3> QED BY <2>1, <2>3, <3>2, <3>3, <3>4
  <2>4. CASE k = len + 1
    <3>1. asked'[k].index = index /\ answers'[k] = f
      BY <1>0, <1>9, <1>10, <2>4
    <3>2. CASE f # NoFrame
      BY <1>6, <3>1, <3>2
    <3>3. CASE f = NoFrame /\ index > LastOut
      BY <1>1, <1>6, <3>1, <3>3
    <3>4. CASE f = NoFrame /\ \E i \in 1 .. len : /\ s[i] # NoFrame /\ a[i].index < index
                                               /\ \E j \in i + 1 .. len : s[j] = NoFrame
      <4>1. PICK i \in 1 .. len : s[i] # NoFrame /\ a[i].index < index
                                  /\ \E j \in i + 1 .. len : s[j] = NoFrame
        BY <3>4
      <4>2. PICK j \in i + 1 .. len : s[j] = NoFrame
        BY <4>1
      <4>3. j \in 2 .. k - 1 /\ i \in 1 .. j - 1 /\ j \in 1 .. len
        BY <1>8, <2>4
      <4>4. answers'[j] = NoFrame /\ answers'[i] # NoFrame /\ asked'[i].index < index
        BY <1>9, <1>10, <4>1, <4>2, <4>3
      <4> QED BY <3>1, <3>4, <4>3, <4>4
    <3> QED BY <1>6, <3>2, <3>3, <3>4
  <2>5. k \in 1 .. len \/ k = len + 1
    BY <1>8
  <2> QED BY <2>3, <2>4, <2>5, Zenon
<1>12. Somewhere'
  <2>1. CASE last_decoded_pts' = NoPts
    BY <2>1 DEF Somewhere
  <2>2. CASE f # NoFrame /\ Position(index, FALSE)'
    <3>1. len + 1 \in 1 .. Len(asked') /\ answers'[len + 1] # NoFrame /\ asked'[len + 1].index = index
      BY <1>0, <1>8, <1>9, <1>10, <2>2
    <3>2. Position(asked[len + 1].index, FALSE)'
      BY <1>3, <2>2, <3>1 DEF Position, Pts, LastOut
    <3>3. \E lost \in BOOLEAN : ~ lost /\ Position(asked[len + 1].index, lost)'
      BY <3>2
    <3> QED BY <3>1, <3>3 DEF Somewhere
  <2>3. CASE f # NoFrame /\ \E i \in 1 .. len, lost \in BOOLEAN, p \in Nat :
                             /\ s[i] # NoFrame /\ p = a[i].index
                             /\ Position(p, lost)'
                             /\ lost => \E j \in i + 1 .. len : s[j] = NoFrame
    <3>1. PICK i \in 1 .. len, lost \in BOOLEAN, p \in Nat :
             /\ s[i] # NoFrame /\ p = a[i].index
             /\ Position(p, lost)'
             /\ lost => \E j \in i + 1 .. len : s[j] = NoFrame
      BY <2>3
    <3>2. i \in 1 .. Len(asked') /\ answers'[i] # NoFrame /\ asked'[i].index = p
      BY <1>8, <1>9, <1>10, <3>1
    <3>3. Position(asked[i].index, lost)'
      BY <3>1, <3>2 DEF Position, Pts, LastOut
    <3>4. lost => \E j \in i + 1 .. Len(asked') : answers'[j] = NoFrame
      BY <1>8, <1>9, <1>10, <3>1
    <3> QED BY <3>2, <3>3, <3>4 DEF Somewhere
  <2>4. CASE f = NoFrame /\ \E i \in 1 .. len, p \in Nat : s[i] # NoFrame /\ p = a[i].index
        /\ Position(p, TRUE)'
    <3>1. PICK i \in 1 .. len, p \in Nat : s[i] # NoFrame /\ p = a[i].index /\ Position(p, TRUE)'
      BY <2>4
    <3>2. i \in 1 .. Len(asked') /\ answers'[i] # NoFrame /\ asked'[i].index = p
      BY <1>8, <1>9, <1>10, <3>1
    <3>3. Position(asked[i].index, TRUE)'
      BY <3>1, <3>2 DEF Position, Pts, LastOut
    <3>4. len + 1 \in i + 1 .. Len(asked') /\ answers'[len + 1] = NoFrame
      BY <1>8, <1>9, <1>10, <2>4
    <3>5. \E lost \in BOOLEAN : lost /\ Position(asked[i].index, lost)'
      BY <3>3
    <3> QED BY <3>2, <3>4, <3>5 DEF Somewhere
  <2> QED BY <1>6, <2>1, <2>2, <2>3, <2>4
<1>13. CallsOk'
  BY <1>8, <1>9, <1>10, <1>11, <1>12 DEF CallsOk
<1>14. f # NoFrame => index + 1 \in 1 .. Len(input)
  BY <1>1, <1>6
<1> QED BY <1>0, <1>6, <1>13, <1>14

(* Without an index that was wrong, the row's frame is at its place. *)
LEMMA RowsFrame ==
  ASSUME VideoInv, stage = "transform", InPlace, NEW row \in RowsOfTopic, NEW f,
         \/ route # "file" /\ row.index < Len(image_data) /\ f = image_data[row.index + 1]
         \/ route = "file" /\ row.index + 1 \in 1 .. Len(input) /\ f = input[row.index + 1]
  PROVE  f.n = row.n
<1> USE DEF VideoInv
<1>1. Whole
  BY DEF RegisteredOk
<1>2. /\ rows \in Seq(Row) /\ image_topic_data \in Seq(Frames) /\ depth_topic_data \in Seq(Frames)
      /\ image_data \in Seq(Frames) /\ input \in Seq(Frames)
      /\ DOMAIN rows = 1 .. Len(rows) /\ Len(rows) \in Nat
  BY DEF Typed, RowsOk
<1>3. image_topic_data # << >> /\ depth_topic_data = << >> /\ connections <= 1
  BY <1>1, <1>2 DEF InPlace, LosesPlace, Whole, RowsOk
<1>4. PICK k \in 1 .. Len(rows) : row = rows[k]
  BY <1>2 DEF RowsOfTopic
<1>5. connections = 1
  <2>1. rows # << >>
    BY <1>2, <1>4
  <2> QED BY <1>3, <2>1 DEF RowsOk
<1>6. row.index = k - 1 /\ row.n = image_topic_data[k].n /\ row.index + 1 = k
  <2>1. rows[k].index = k - 1
    BY <1>4, <1>5 DEF RowsOk
  <2>2. rows[k].n = image_topic_data[k].n
    BY <1>3, <1>4 DEF RowsOk
  <2> QED BY <1>4, <2>1, <2>2
<1>7. CASE route = "ingested"
  <2>1. image_data = image_topic_data
    BY <1>7 DEF SourceOk
  <2> QED BY <1>6, <1>7, <2>1
<1>8. CASE route # "ingested"
  <2>1. input = OneSize(registry.file) /\ registry.file.frames = image_topic_data
    BY <1>1, <1>8 DEF SourceOk, Whole, InPlace
  <2>2. /\ Len(input) = Len(image_topic_data)
        /\ \A i \in 1 .. Len(image_topic_data) : input[i].n = image_topic_data[i].n
    BY <1>1, <2>1, OneSizeIs
  <2>3. f = input[k] /\ k \in 1 .. Len(input)
    <3>1. CASE route = "file"
      BY <1>6, <3>1
    <3>2. CASE route = "decoded"
      <4>1. k \in 1 .. Len(image_data) /\ f = image_data[k]
        BY <1>2, <1>4, <1>6, <3>2
      <4> QED BY <1>2, <3>2, <4>1 DEF SourceOk
    <3>3. route \in {"ingested", "decoded", "file"}
      BY DEF SourceOk, Typed, Route
    <3> QED BY <1>8, <3>1, <3>2, <3>3
  <2> QED BY <1>6, <2>2, <2>3
<1> QED BY <1>7, <1>8

LEMMA RowTyped == ASSUME VideoInv, NEW row \in RowsOfTopic PROVE row \in Row
<1>1. rows \in Seq(Row) /\ DOMAIN rows = 1 .. Len(rows)
  BY DEF VideoInv, RowsOk
<1>2. \A k \in 1 .. Len(rows) : rows[k] \in Row
  BY <1>1, ElementOfSeq
<1> QED BY <1>1, <1>2 DEF RowsOfTopic

LEMMA InPlaceStays ==
  ASSUME UNCHANGED <<ingest, kind, route>> PROVE InPlace' <=> InPlace
<1>1. UNCHANGED <<connections, image_topic_data, depth_topic_data, kind, route>>
  BY DEF ingest
<1> QED BY <1>1, Zenon DEF InPlace, LosesPlace, SkipsFrames

(* The frame of a row is encoded. *)
LEMMA EpisodeGrows ==
  ASSUME VideoInv, stage = "transform", NEW row \in Row, NEW f \in Frames, AddFrame(f),
         InPlace => f.n = row.n,
         asked' = Append(asked, row), answers' = Append(answers, f), at' = at + 1,
         UNCHANGED <<ingest, route, stage>>
  PROVE  EpisodeOk' /\ UNCHANGED config
<1> USE DEF VideoInv
<1>1. /\ EncoderInv(answers) /\ Raw /\ answers \in Seq(Frames) /\ at = Len(asked)
      /\ InPlace => \A k \in 1 .. Len(asked) : answers[k].n = asked[k].n
  BY DEF EpisodeOk
<1>2. asked \in Seq(Row) /\ Len(asked) = Len(answers) /\ Len(asked) \in Nat
  BY DEF CallsOk
<1>3. PICK s : s = answers
  OBVIOUS
<1>4. EncoderInv(Append(s, f))' /\ Raw'
  BY <1>1, <1>3, AddFrameKeeps
<1>5. EncoderInv(answers)'
  BY <1>3, <1>4
<1>6. UNCHANGED config
  BY DEF AddFrame, SoftwareAddFrame, AddRawFrame
<1>7. InPlace' <=> InPlace
  BY <1>6, InPlaceStays DEF config
<1>8. /\ Append(answers, f) \in Seq(Frames) /\ Len(Append(answers, f)) = Len(answers) + 1
      /\ Append(answers, f)[Len(answers) + 1] = f
      /\ \A i \in 1 .. Len(answers) : Append(answers, f)[i] = answers[i]
  BY <1>1, AppendIs
<1>9. /\ Len(Append(asked, row)) = Len(asked) + 1
      /\ Append(asked, row)[Len(asked) + 1] = row
      /\ \A i \in 1 .. Len(asked) : Append(asked, row)[i] = asked[i]
  BY <1>2, AppendIs
<1>10. ASSUME InPlace PROVE \A k \in 1 .. Len(asked) + 1 : Append(answers, f)[k].n = Append(asked, row)[k].n
  <2>1. \A k \in 1 .. Len(asked) + 1 : k \in 1 .. Len(asked) \/ k = Len(asked) + 1
    BY <1>2
  <2> QED BY <1>1, <1>2, <1>8, <1>9, <1>10, <2>1
<1>11. /\ answers' \in Seq(Frames) /\ at' = Len(asked')
       /\ InPlace' => \A k \in 1 .. Len(asked') : answers'[k].n = asked'[k].n
  BY <1>1, <1>7, <1>8, <1>9, <1>10
<1> QED BY <1>4, <1>5, <1>6, <1>11 DEF EpisodeOk, EpisodeShowsIndexedFrames

(* What a step of the transform does not touch. *)
LEMMA TransformKeeps ==
  ASSUME VideoInv, stage = "transform" \/ stage = "calls",
         stage' \in {stage, "failed", "done"}, at' \in Nat,
         UNCHANGED <<ingest, config, input, messages, route, context>>
  PROVE  Typed' /\ RowsOk' /\ IngestOk' /\ EncoderOk' /\ RegisteredOk' /\ SourceOk'
<1> USE DEF VideoInv
<1>1. UNCHANGED <<registry, image_data, resize, image_topic_data>>
  BY DEF context, config, ingest
<1>2. Typed'
  BY <1>1 DEF Typed, ingest
<1>3. RowsOk'
  BY RowsStay
<1>4. IngestOk' /\ EncoderOk'
  BY <1>1 DEF IngestOk, EncoderOk
<1>5. RegisteredOk'
  BY <1>1, WholeStays DEF RegisteredOk
<1>6. SourceOk'
  BY <1>1 DEF SourceOk, OneSize
<1> QED BY <1>2, <1>3, <1>4, <1>5, <1>6

LEMMA EncodeFromMemoryKeeps == ASSUME VideoInv, EncodeFromMemory PROVE VideoInv'
<1> USE DEF VideoInv
<1>1. PICK row \in RowsOfTopic : /\ row.index < Len(image_data)
                                 /\ AddFrame(image_data[row.index + 1])
                                 /\ Ask(row, image_data[row.index + 1])
  BY DEF EncodeFromMemory
<1>2. /\ stage = "transform" /\ route \in {"ingested", "decoded"} /\ at' = at + 1 /\ at \in Nat
      /\ UNCHANGED <<ingest, stage, decoder, request, messages, route, context>>
  BY <1>1 DEF EncodeFromMemory, Ask, Typed
<1>3. PICK f : f = image_data[row.index + 1]
  OBVIOUS
<1>4. row \in Row /\ f \in Frames
  <2>1. row \in Row
    BY RowTyped
  <2>2. row.index + 1 \in 1 .. Len(image_data) /\ image_data \in Seq(Frames)
    BY <1>1, <2>1 DEF Row, Typed
  <2> QED BY <1>3, <2>1, <2>2, ElementOfSeq
<1>5. AddFrame(f) /\ asked' = Append(asked, row) /\ answers' = Append(answers, f)
  BY <1>1, <1>3 DEF Ask
<1>6. InPlace => f.n = row.n
  BY <1>1, <1>2, <1>3, RowsFrame
<1>7. EpisodeOk' /\ UNCHANGED config
  BY <1>2, <1>4, <1>5, <1>6, EpisodeGrows
<1>8. UNCHANGED input
  BY <1>2 DEF decoder
<1>9. Typed' /\ RowsOk' /\ IngestOk' /\ EncoderOk' /\ RegisteredOk' /\ SourceOk'
  BY <1>2, <1>7, <1>8, TransformKeeps
<1>10. DecodeOk'
  BY <1>2, CacheStays DEF DecodeOk
<1>11. CallsOk'
  <2>1. /\ asked' \in Seq(Row) /\ Len(asked') = Len(asked) + 1
    BY <1>4, <1>5, AppendIs DEF CallsOk
  <2>2. answers \in Seq(Frames \cup {NoFrame}) /\ f \in Frames \cup {NoFrame}
    BY <1>4 DEF CallsOk
  <2>3. /\ answers' \in Seq(Frames \cup {NoFrame}) /\ Len(answers') = Len(answers) + 1
    <3> DEFINE S == Frames \cup {NoFrame}
    <3> HIDE DEF S
    <3> QED BY <1>5, <2>2, AppendIs
  <2> QED BY <1>2, <2>1, <2>3 DEF CallsOk, AnswersAreRight
<1> QED BY <1>7, <1>9, <1>10, <1>11

LEMMA EncodeFromFileKeeps == ASSUME VideoInv, EncodeFromFile PROVE VideoInv'
<1> USE DEF VideoInv
<1>1. PICK row \in RowsOfTopic : /\ AtIndex(row.index) /\ answer' # NoFrame
                                 /\ AddFrame(answer') /\ Ask(row, answer')
  BY DEF EncodeFromFile
<1>2. /\ stage = "transform" /\ route = "file" /\ at' = at + 1 /\ at \in Nat
      /\ UNCHANGED <<ingest, stage, request, messages, route, context>>
  BY <1>1 DEF EncodeFromFile, Ask, Typed
<1>3. PICK f : f = answer'
  OBVIOUS
<1>4. row \in Row
  BY RowTyped
<1>5. AddFrame(f) /\ asked' = Append(asked, row) /\ answers' = Append(answers, f)
  BY <1>1, <1>3 DEF Ask
<1>6. /\ CallsOk' /\ CacheOk' /\ UNCHANGED input
      /\ f \in Frames /\ row.index + 1 \in 1 .. Len(input) /\ f = input[row.index + 1]
  BY <1>1, <1>2, <1>3, <1>4, <1>5, CallKeeps
<1>7. InPlace => f.n = row.n
  BY <1>2, <1>6, RowsFrame
<1>8. EpisodeOk' /\ UNCHANGED config
  BY <1>2, <1>4, <1>5, <1>6, <1>7, EpisodeGrows
<1>9. Typed' /\ RowsOk' /\ IngestOk' /\ EncoderOk' /\ RegisteredOk' /\ SourceOk'
  BY <1>2, <1>6, <1>8, TransformKeeps
<1>10. DecodeOk'
  BY <1>2, <1>6 DEF DecodeOk
<1> QED BY <1>6, <1>8, <1>9, <1>10

LEMMA ProviderFailsKeeps == ASSUME VideoInv, ProviderFails PROVE VideoInv'
<1> USE DEF VideoInv
<1>1. PICK row \in RowsOfTopic :
        /\ IF route = "file"
           THEN AtIndex(row.index) /\ answer' = NoFrame
           ELSE row.index >= Len(image_data) /\ UNCHANGED decoder
        /\ Ask(row, NoFrame)
  BY DEF ProviderFails
<1>2. /\ stage = "transform" /\ stage' = "failed" /\ at' = at + 1 /\ at \in Nat
      /\ UNCHANGED <<ingest, config, request, messages, route, context>>
      /\ asked' = Append(asked, row) /\ answers' = Append(answers, NoFrame)
  BY <1>1 DEF ProviderFails, Ask, Typed, DropEncoder, settings
<1>3. row \in Row
  BY RowTyped
<1>4. CallsOk' /\ CacheOk' /\ UNCHANGED input
  <2>1. CASE route = "file"
    <3>1. PICK f : f = NoFrame
      OBVIOUS
    <3>2. f = answer' /\ answers' = Append(answers, f) /\ AtIndex(row.index)
      BY <1>1, <1>2, <2>1, <3>1
    <3> QED BY <1>2, <1>3, <2>1, <3>2, CallKeeps
  <2>2. CASE route # "file"
    <3>1. UNCHANGED decoder /\ route \notin {"file", "calls"}
      BY <1>1, <1>2, <2>2 DEF SourceOk
    <3>2. CacheOk' /\ UNCHANGED input
      BY <3>1, CacheStays DEF DecodeOk, decoder
    <3>3. /\ asked' \in Seq(Row) /\ Len(asked') = Len(asked) + 1
      BY <1>2, <1>3, AppendIs DEF CallsOk
    <3>4. answers \in Seq(Frames \cup {NoFrame}) /\ NoFrame \in Frames \cup {NoFrame}
      BY DEF CallsOk
    <3>5. /\ answers' \in Seq(Frames \cup {NoFrame}) /\ Len(answers') = Len(answers) + 1
      BY <1>2, <3>4, AppendIs
    <3>6. CallsOk'
      BY <1>2, <3>1, <3>3, <3>5 DEF CallsOk, AnswersAreRight
    <3> QED BY <3>2, <3>6
  <2> QED BY <2>1, <2>2
<1>5. Typed' /\ RowsOk' /\ IngestOk' /\ EncoderOk' /\ RegisteredOk' /\ SourceOk'
  BY <1>2, <1>4, TransformKeeps
<1>6. DecodeOk' /\ EpisodeOk'
  BY <1>2, <1>4 DEF DecodeOk, EpisodeOk, EpisodeShowsIndexedFrames
<1> QED BY <1>4, <1>5, <1>6

LEMMA CallProgramKeeps == ASSUME VideoInv, Call PROVE VideoInv'
<1> USE DEF VideoInv
<1>1. PICK index \in 0 .. Len(messages) : /\ AtIndex(index) \/ AtTimestamp(index)
                                          /\ Ask([n |-> index, index |-> index], answer')
  BY DEF Call
<1>2. /\ stage = "calls" /\ route = "calls" /\ at' = at + 1 /\ at \in Nat
      /\ UNCHANGED <<ingest, encoder, video, stage, request, messages, route, context>>
  BY <1>1 DEF Call, Ask, Typed, SourceOk
<1>3. PICK f : f = answer'
  OBVIOUS
<1>4. PICK row : row = [n |-> index, index |-> index]
  OBVIOUS
<1>5. row \in Row /\ row.index = index
  BY <1>1, <1>4 DEF Row, Typed
<1>6. asked' = Append(asked, row) /\ answers' = Append(answers, f)
  BY <1>1, <1>3, <1>4 DEF Ask
<1>7. CallsOk' /\ CacheOk' /\ UNCHANGED input
  BY <1>1, <1>2, <1>3, <1>5, <1>6, CallKeeps
<1>8. UNCHANGED config
  BY <1>2 DEF encoder, settings
<1>9. Typed' /\ RowsOk' /\ IngestOk' /\ EncoderOk' /\ RegisteredOk' /\ SourceOk'
  BY <1>2, <1>7, <1>8, TransformKeeps
<1>10. DecodeOk' /\ EpisodeOk'
  BY <1>2, <1>7 DEF DecodeOk, EpisodeOk, EpisodeShowsIndexedFrames
<1> QED BY <1>7, <1>9, <1>10

LEMMA FinalizeKeeps == ASSUME VideoInv, Finalize PROVE VideoInv'
<1> USE DEF VideoInv
<1>1. /\ stage = "transform" /\ at > 0 /\ Finish /\ stage' = "done" /\ at' = 0
      /\ UNCHANGED <<ingest, decoder, request, messages, route, context, calls>>
  BY DEF Finalize, Enter
<1>2. UNCHANGED <<config, kind, input, asked, answers>>
  BY <1>1 DEF Finish, settings, config, decoder, calls
<1>3. Typed' /\ RowsOk' /\ IngestOk' /\ EncoderOk' /\ RegisteredOk' /\ SourceOk'
  BY <1>1, <1>2, TransformKeeps
<1>4. DecodeOk'
  BY <1>1, CacheStays DEF DecodeOk
<1>5. CallsOk'
  BY <1>1, CallsStay
<1>6. EpisodeOk'
  <2>1. PICK s : s = answers
    OBVIOUS
  <2>2. /\ EncoderInv(s) /\ Raw /\ s \in Seq(Frames) /\ Len(s) = Len(asked) /\ s # << >>
        /\ InPlace => \A k \in 1 .. Len(asked) : s[k].n = asked[k].n
    BY <1>1, <2>1 DEF EpisodeOk, CallsOk
  <2>3. AllDecode(s)
    BY <2>2 DEF EncoderInv, Raw
  <2>4. video' = File(s, TRUE)
    BY <1>1, <2>2, <2>3, FinishIs
  <2>5. video'.whole = TRUE /\ video'.frames = s
    BY <2>4 DEF File
  <2>6. InPlace' <=> InPlace
    BY <1>1, <1>2, InPlaceStays
  <2>7. DOMAIN asked = 1 .. Len(asked)
    BY DEF CallsOk
  <2>8. ASSUME ~ LosesPlace', route' = "ingested" \/ ~ SkipsFrames'
        PROVE  \A k \in DOMAIN asked : s[k].n = asked[k].n
    BY <2>2, <2>6, <2>7, <2>8 DEF InPlace
  <2>9. EpisodeShowsIndexedFrames'
    BY <1>2, <2>2, <2>5, <2>8 DEF EpisodeShowsIndexedFrames
  <2> QED BY <1>1, <2>9 DEF EpisodeOk
<1> QED BY <1>3, <1>4, <1>5, <1>6

-----------------------------------------------------------------------------
LEMMA VideoStutters == ASSUME VideoInv, UNCHANGED vars PROVE VideoInv'
<1> USE DEF VideoInv
<1>1. /\ UNCHANGED <<request, ingest, encoder, video, decoder, messages, route, stage, at, context, calls>>
      /\ UNCHANGED <<topic, image_topic_data, depth_topic_data, config, kind, resize, stream, frame_count,
                    input_mode, input, registry, image_data, asked, answers>>
  BY DEF vars, ingest, bag, encoder, settings, config, decoder, context, calls
<1>2. Typed' /\ RowsOk'
  BY <1>1, RowsStay DEF Typed
<1>3. IngestOk'
  <2>1. Shown' = Shown
    BY <1>1 DEF Shown, Visual
  <2> QED BY <1>1, <2>1 DEF IngestOk, Ingested, Ascending
<1>4. EncoderOk'
  <2>1. PICK given : given = SubSeq(image_data, 1, at)
    OBVIOUS
  <2>2. EncoderInv(given) => EncoderInv(given)'
    BY <1>1 DEF EncoderInv, AllDecode
  <2>3. given = SubSeq(image_data, 1, at)'
    BY <1>1, <2>1
  <2>4. EncoderInv(SubSeq(image_data, 1, at)) => EncoderInv(SubSeq(image_data, 1, at))'
    BY <2>1, <2>2, <2>3
  <2> QED BY <1>1, <2>4 DEF EncoderOk
<1>5. RegisteredOk'
  BY <1>1, WholeStays DEF RegisteredOk
<1>6. SourceOk'
  BY <1>1 DEF SourceOk, OneSize
<1>7. DecodeOk'
  <2>1. CacheOk' /\ UNCHANGED <<last_decoded_pts, next_frame>>
    BY <1>1, CacheStays DEF DecodeOk, decoder
  <2> QED BY <1>1, <2>1 DEF DecodeOk, Position, Pts, LastOut
<1>8. CallsOk'
  <2>1. UNCHANGED <<last_decoded_pts, next_frame>>
    BY <1>1 DEF decoder
  <2>2. Somewhere => Somewhere'
    BY <1>1, <2>1 DEF Somewhere, Position, Pts, LastOut
  <2>3. AnswersAreRight'
    BY <1>1 DEF CallsOk, AnswersAreRight
  <2> QED BY <1>1, <2>2, <2>3 DEF CallsOk
<1>9. EpisodeOk'
  <2>1. PICK given : given = answers
    OBVIOUS
  <2>2. EncoderInv(given) /\ Raw => EncoderInv(given)' /\ Raw'
    BY <1>1, EncoderStays
  <2>3. given = answers'
    BY <1>1, <2>1
  <2>4. EncoderInv(answers) /\ Raw => EncoderInv(answers)' /\ Raw'
    BY <2>1, <2>2, <2>3
  <2>5. InPlace' <=> InPlace
    BY <1>1, InPlaceStays
  <2>6. EpisodeShowsIndexedFrames'
    BY <1>1, Zenon DEF EpisodeOk, EpisodeShowsIndexedFrames, LosesPlace, SkipsFrames, ingest
  <2> QED BY <1>1, <2>4, <2>5, <2>6 DEF EpisodeOk
<1> QED BY <1>2, <1>3, <1>4, <1>5, <1>6, <1>7, <1>8, <1>9

LEMMA VideoStep == VideoInv /\ [Next]_vars => VideoInv'
<1> SUFFICES ASSUME VideoInv, [Next]_vars PROVE VideoInv'
  OBVIOUS
<1>1. CASE UNCHANGED vars
  BY <1>1, VideoStutters
<1>2. CASE Next
  BY <1>2, ConfigureKeeps, IngestConnectionKeeps, IngestMessageKeeps, IngestEndKeeps, EncodeImageKeeps,
     EncodeEndKeeps, EncodeNothingKeeps, DepthStageKeeps, VideoFailures, OpenArtifactKeeps,
     DecodeFrameKeeps, DecodeEndKeeps, EncodeFromMemoryKeeps, EncodeFromFileKeeps, ProviderFailsKeeps,
     FinalizeKeeps, CallProgramKeeps DEF Next
<1> QED BY <1>1, <1>2

LEMMA VideoInvHolds == Spec => []VideoInv
BY VideoInit, VideoStep, PTL DEF Spec

(* The decoder answers a call with the frame it was asked for, from wherever
   earlier calls left it (SingleVideoDecoder::decode_frame_at_index).  The
   invariant says where a decoder can be: at a frame that an earlier call
   found, or past the last that comes out once a later call found nothing.   *)
THEOREM AnswersAreRightHolds == Spec => []AnswersAreRight
<1>1. VideoInv => AnswersAreRight
  BY DEF VideoInv, CallsOk
<1> QED BY <1>1, VideoInvHolds, PTL

(* What the registry names is a finished file with a frame for every message
   that can be shown, in their order and of the size that is said of it
   (VideoEncoder::run, ParquetVideoExporter::run).  An encoder was given the
   images so far, and one that pipes no files only such as can be decoded.    *)
THEOREM RegisteredIsWholeHolds == Spec => []RegisteredIsWhole
<1>1. VideoInv => RegisteredIsWhole
  <2> SUFFICES ASSUME Whole PROVE RegisteredIsWhole
    BY DEF VideoInv, RegisteredOk, RegisteredIsWhole
  <2>1. /\ registry.file.whole
        /\ \A i, j \in DOMAIN registry.file.frames :
             i < j => registry.file.frames[i].n < registry.file.frames[j].n
    BY Zenon DEF Whole, Ascending
  <2>2. registry.file.size = registry.size
    BY DEF Whole
  <2>3. {registry.file.frames[i].n : i \in DOMAIN registry.file.frames} = {messages[k].n : k \in Shown}
    BY DEF Whole
  <2> QED BY <2>1, <2>2, <2>3, Zenon DEF RegisteredIsWhole, Shown
<1> QED BY <1>1, VideoInvHolds, PTL

(* Every frame of an episode shows what the message of its row carried, on each
   of the routes and whatever order the rows ask in, unless the index was
   already wrong or ffmpeg skipped frames (VideoEncoderPipeline).             *)
THEOREM EpisodeShowsIndexedFramesHolds == Spec => []EpisodeShowsIndexedFrames
<1>1. VideoInv => EpisodeShowsIndexedFrames
  BY DEF VideoInv, EpisodeOk
<1> QED BY <1>1, VideoInvHolds, PTL

(* The quotient of a division of naturals, by the multiples on both sides. *)
LEMMA Division ==
  ASSUME NEW a \in Nat, NEW b \in Nat, b > 0
  PROVE  /\ a \div b \in Nat
         /\ (a \div b) * b <= a
         /\ a < (a \div b) * b + b
OBVIOUS

(* A larger number has the larger multiples. *)
LEMMA Multiples ==
  ASSUME NEW a \in Nat, NEW b \in Nat, NEW c \in Nat, a <= b
  PROVE  a * c <= b * c
OBVIOUS

(* q is the quotient that stands for the depth, rounded with h; or 1. *)
Rounded(max, depth, h, q) ==
  /\ h = max \div 2
  /\ h * 2 \in {max, max - 1}
  /\ q = Quantize(max, depth)
  /\ 1 <= q
  /\ q <= 1023
  /\ Smallest(max, depth) => q = 1
  /\ ~Smallest(max, depth) => q * max <= depth * 1023 + h /\ depth * 1023 + h < q * max + max

(* Ten bits suffice, and 0 stands for nothing but a missing depth. *)
LEMMA Quantized ==
  ASSUME NEW max \in Nat, 0 < max, max <= 65535, NEW depth \in Nat, 0 < depth, depth <= max
  PROVE  \E h \in Nat, q \in Nat : Rounded(max, depth, h, q)
<1> DEFINE h == max \div 2
           a == depth * 1023 + h
           q == a \div max
<1>1. max \in Nat /\ max > 0 /\ depth \in Nat /\ depth > 0 /\ depth <= max
  OBVIOUS
<1>2. h \in Nat /\ h * 2 <= max /\ max < h * 2 + 2
  BY <1>1, Division
<1>3. a \in Nat
  BY <1>1, <1>2
<1> HIDE DEF h
<1>4. q \in Nat /\ q * max <= a /\ a < q * max + max
  BY <1>1, <1>3, Division DEF a
<1>5. q < 1024
  <2>1. a < 1024 * max
    BY <1>1, <1>2
  <2>2. ASSUME 1024 <= q PROVE FALSE
    <3>1. 1024 * max <= q * max
      BY <2>2, <1>1, <1>4, Multiples
    <3> QED
      BY <3>1, <2>1, <1>1, <1>3, <1>4
  <2> QED
    BY <2>2, <1>4
<1>6. Smallest(max, depth) <=> q = 0
  <2>1. CASE q = 0
    BY <2>1, <1>1, <1>4 DEF Smallest, h
  <2>2. CASE q >= 1
    <3>1. 1 * max <= q * max
      BY <2>2, <1>1, <1>4, Multiples
    <3> QED
      BY <3>1, <2>2, <1>1, <1>3, <1>4 DEF Smallest, h
  <2> QED
    BY <2>1, <2>2, <1>4
<1>7. Quantize(max, depth) = Clamp(q, 1, 1023)
  BY <1>1 DEF Quantize, h
<1> HIDE DEF q, a
<1>8. Quantize(max, depth) = IF Smallest(max, depth) THEN 1 ELSE q
  BY <1>4, <1>5, <1>6, <1>7 DEF Clamp
<1>9. PICK kept \in Nat : kept = IF Smallest(max, depth) THEN 1 ELSE q
  BY <1>4
<1>10. kept = Quantize(max, depth) /\ 1 <= kept /\ kept <= 1023
  BY <1>4, <1>5, <1>6, <1>8, <1>9
<1>11. ~Smallest(max, depth) => kept * max <= depth * 1023 + h /\ depth * 1023 + h < kept * max + max
  BY <1>4, <1>9 DEF a
<1>12. h * 2 \in {max, max - 1}
  BY <1>1, <1>2
<1> QED
  <2>1. Rounded(max, depth, h, kept)
    BY <1>10, <1>11, <1>12, <1>9 DEF Rounded, h
  <2> QED
    BY <2>1, <1>2

(* A depth in range.  `level` is the depth in 1023rds of a millimetre after
   the first rounding, `back` the millimetres after the second.            *)
LEMMA InRange ==
  ASSUME NEW max \in Nat, 0 < max, max <= 65535, NEW depth \in Nat, 0 < depth, depth <= max
  PROVE  Kept(max, depth, Dequantize(max, Quantize(max, depth)))
<1>1. max \in Nat
  OBVIOUS
<1>2. PICK h \in Nat, q \in Nat : Rounded(max, depth, h, q)
  BY Quantized
<1>3. PICK level \in Nat : level = q * max
  BY <1>1
<1>4. max <= level /\ level <= 1023 * max
  <2>1. 1 * max <= q * max
    BY <1>1, <1>2, Multiples DEF Rounded
  <2>2. q * max <= 1023 * max
    BY <1>1, <1>2, Multiples DEF Rounded
  <2> QED
    BY <2>1, <2>2, <1>1, <1>2, <1>3 DEF Rounded
<1>5. PICK back \in Nat :
        /\ back = (level + 511) \div 1023
        /\ back * 1023 <= level + 511
        /\ level + 511 < back * 1023 + 1023
  BY Division
<1>6. back <= max
  BY <1>4, <1>5
<1>7. Dequantize(max, q) = back
  <2>1. Dequantize(max, q) = back % 65536
    BY <1>2, <1>3, <1>5 DEF Dequantize, Rounded
  <2> QED
    BY <2>1, <1>6
<1>8. CASE Smallest(max, depth)
  <2>1. level = max
    BY <1>1, <1>2, <1>3, <1>8 DEF Rounded
  <2>2. depth * 1023 + h < max
    BY <1>2, <1>8 DEF Smallest, Rounded
  <2>3. back >= 1
    BY <2>1, <2>2, <1>5
  <2>4. Kept(max, depth, back)
    BY <2>1, <2>3, <1>5, <1>6, <1>8 DEF Kept
  <2> QED
    BY <2>4, <1>2, <1>7 DEF Rounded
<1>9. CASE ~Smallest(max, depth)
  <2>1. level <= depth * 1023 + h /\ depth * 1023 + h < level + max
    BY <1>1, <1>2, <1>3, <1>9 DEF Rounded
  <2>2. HalfAStep(max) = max - h + 511
    BY <1>2 DEF HalfAStep, Rounded
  <2>3. (back - depth) * 1023 \in -HalfAStep(max) .. HalfAStep(max)
    BY <2>1, <2>2, <1>2, <1>4, <1>5 DEF Rounded
  <2>4. back >= 1
    BY <2>1, <1>2, <1>4, <1>5 DEF Rounded
  <2>5. Kept(max, depth, back)
    BY <2>3, <2>4, <1>6, <1>9 DEF Kept
  <2> QED
    BY <2>5, <1>2, <1>7 DEF Rounded
<1> QED
  BY <1>8, <1>9

(* Back in millimetres, a quantized depth keeps what is promised (quantize
   and dequantize of Q10ClipParams): no depth becomes a missing one, none is
   invented, the u16 never wraps, and the error is half a step at most, with
   the exception of what lies below half a step.                            *)
THEOREM QuantizationKeeps ==
  ASSUME NEW max \in Nat, 0 < max, max <= 65535, NEW depth \in Nat, depth <= 65535
  PROVE  Kept(max, depth, Dequantize(max, Quantize(max, depth)))
<1>1. CASE depth = 0 \/ depth > max
  BY <1>1 DEF Quantize, Dequantize, Kept
<1>2. CASE 0 < depth /\ depth <= max
  BY <1>2, InRange
<1> QED
  BY <1>1, <1>2

-----------------------------------------------------------------------------
(* The arguments of an encoder are equal only if what they stand for is. *)
OptionNames ==
  [AV1 |-> {"lp", "pin", "preset", "film_grain", "film_grain_denoise", "lookahead", "fast_decode"},
   H264 |-> {"threads", "preset", "tune"},
   H265 |-> {"threads", "preset", "tune", "frame_threads"},
   H264_VAAPI |-> {"qp", "device", "profile", "b_depth", "async_depth"},
   H265_VAAPI |-> {"qp", "device", "profile", "async_depth"},
   AV1_VAAPI |-> {"qp", "device", "profile", "b_depth", "async_depth"},
   H264_NVENC |-> {"qp", "gpu", "preset", "tune", "profile", "b_frames", "rc_lookahead"},
   H265_NVENC |-> {"qp", "gpu", "preset", "tune", "profile", "b_frames", "rc_lookahead"},
   AV1_NVENC |-> {"qp", "gpu", "preset", "tune", "profile", "b_frames", "rc_lookahead"}]

LEMMA DefaultsAre ==
  ASSUME NEW codec \in Codec
  PROVE  DOMAIN Defaults(codec) = OptionNames[codec] /\ DOMAIN PySignature[codec] = OptionNames[codec]
<1>1. CASE codec = "AV1"
  BY <1>1 DEF VaapiCodec, NvencCodec, Defaults, PySignature, OptionNames, Av1Defaults, py_av1
<1>2. CASE codec = "H264"
  BY <1>2 DEF VaapiCodec, NvencCodec, Defaults, PySignature, OptionNames, H264Defaults, py_h264
<1>5. CASE codec = "H265"
  BY <1>5 DEF VaapiCodec, NvencCodec, Defaults, PySignature, OptionNames, H265Defaults, py_h265
<1>3. CASE codec \in VaapiCodec
  BY <1>3 DEF VaapiCodec, NvencCodec, Defaults, PySignature, OptionNames, VaapiDefaults, py_h264_vaapi,
     py_h265_vaapi, py_av1_vaapi
<1>4. CASE codec \in NvencCodec
  BY <1>4 DEF VaapiCodec, NvencCodec, Defaults, PySignature, OptionNames, NvencDefaults, NvencOptions,
             py_h264_nvenc, py_h265_nvenc, py_av1_nvenc
<1> QED BY <1>1, <1>2, <1>3, <1>4, <1>5 DEF Codec, SoftwareCodec

LEMMA WhenHas ==
  ASSUME NEW o, NEW option, NEW flag, NEW f, NEW x
  PROVE  <<f, x>> \in When(o, option, flag) <=> f = flag /\ x = o[option] /\ x # None
BY DEF When

LEMMA Av1Has ==
  ASSUME NEW o, NEW f, NEW x
  PROVE  <<f, x>> \in Av1Options(o) <=>
           \/ f = "lp" /\ x = IF o.lp \in 1 .. 6 THEN o.lp ELSE 0
           \/ f = "pin" /\ x = Or(o.pin, 0)
           \/ f = "preset" /\ x = o.preset
           \/ f = "film-grain" /\ x = o["film_grain"] /\ x # None
           \/ f = "film-grain-denoise" /\ x = o["film_grain_denoise"] /\ x # None
           \/ f = "lookahead" /\ x = o["lookahead"] /\ x # None
           \/ f = "fast-decode" /\ x = o["fast_decode"] /\ x # None
BY WhenHas DEF Av1Options

LEMMA X26Has ==
  ASSUME NEW o, NEW threads, NEW f, NEW x
  PROVE  <<f, x>> \in X26Options(o, threads) <=>
           \/ f = "preset" /\ x = o.preset
           \/ f = threads /\ x = o["threads"] /\ x # None
           \/ f = "tune" /\ x = o.tune /\ x # <<>>
BY WhenHas DEF X26Options

LEMMA CliHas ==
  ASSUME NEW c, NEW f, NEW x
  PROVE  <<f, x>> \in CliArguments(c) <=>
           \/ f = "-framerate" /\ x = c.fps
           \/ f = "-vf" /\ x = ffmpeg_video_filter(c)
           \/ f = "-c:v" /\ x = ffmpeg_encoder_name[c.codec]
           \/ f = "-g" /\ x = c.gop
BY DEF CliArguments

LEMMA NvencHas ==
  ASSUME NEW c, NEW f, NEW x
  PROVE  <<f, x>> \in NvencArguments(c) <=>
           \/ <<f, x>> \in CliArguments(c)
           \/ f = "-rc" /\ x = "constqp"
           \/ f = "-qp" /\ x = c.options.qp
           \/ f = "-bf" /\ x = c.options.b_frames
           \/ f = "-preset" /\ x = c.options.preset
           \/ f = "-b_ref_mode" /\ x = "middle" /\ c.options.b_frames > 0
           \/ f = "-rc-lookahead" /\ x = c.options["rc_lookahead"] /\ x # None
           \/ f = "-tune" /\ x = c.options["tune"] /\ x # None
           \/ f = "-gpu" /\ x = c.options["gpu"] /\ x # None
           \/ f = "-profile:v" /\ x = c.options["profile"] /\ x # None
BY WhenHas DEF NvencArguments

LEMMA VaapiHas ==
  ASSUME NEW c, NEW f, NEW x
  PROVE  <<f, x>> \in VaapiArguments(c) <=>
           \/ <<f, x>> \in CliArguments(c)
           \/ f = "-vaapi_device" /\ x = Or(c.options.device, DEFAULT_VAAPI_DEVICE)
           \/ f = "-rc_mode" /\ x = "CQP"
           \/ f = "-global_quality" /\ x = c.options.qp /\ c.codec = "AV1_VAAPI"
           \/ f = "-qp" /\ x = c.options.qp /\ c.codec # "AV1_VAAPI"
           \/ f = "-profile:v" /\ c.codec = "AV1_VAAPI" /\ x = Or(c.options.profile, "main")
           \/ f = "-profile:v" /\ c.codec # "AV1_VAAPI" /\ x = c.options["profile"] /\ x # None
           \/ f = "-b_depth" /\ c.codec # "H265_VAAPI" /\ x = c.options["b_depth"] /\ x # None
           \/ f = "-async_depth" /\ x = c.options["async_depth"] /\ x # None
BY WhenHas DEF VaapiArguments

LEMMA SoftwareHas ==
  ASSUME NEW c, NEW f, NEW x, c.codec \in SoftwareCodec
  PROVE  <<f, x>> \in SoftwareArguments(c) <=>
           \/ f = "time_base" /\ x = c.fps
           \/ f = "g" /\ x = c.gop
           \/ f = "crf" /\ x = c.crf
           \/ f = "size" /\ x = ffmpeg_video_filter([c EXCEPT !.scaling = "ParamDefault"])
           \/ f = "scaler" /\ x = c.scaling
           \/ f = "codec" /\ x = ffmpeg_encoder_name[c.codec]
           \/ c.codec = "AV1" /\ <<f, x>> \in Av1Options(c.options)
           \/ c.codec = "H264" /\ <<f, x>> \in X26Options(c.options, "threads")
           \/ c.codec = "H265" /\ <<f, x>> \in X26Options(c.options, "pools")
           \/ c.codec = "H265" /\ f = "frame-threads" /\ x = c.options["frame_threads"] /\ x # None
BY WhenHas DEF SoftwareArguments, SoftwareCodec

IsConfig(c) ==
  /\ c = [codec |-> c.codec, options |-> c.options, fps |-> c.fps, gop |-> c.gop, crf |-> c.crf,
          scaling |-> c.scaling, resize |-> c.resize]
  /\ c.codec \in Codec /\ c.options = [o \in OptionNames[c.codec] |-> c.options[o]]
  /\ c.resize # None => c.resize = [width |-> c.resize.width, height |-> c.resize.height]

StandsFor(codec, o, v) ==
  CASE o = "lp" -> IF v \in 1 .. 6 THEN v ELSE 0
    [] o = "pin" -> Or(v, 0)
    [] o = "device" -> Or(v, DEFAULT_VAAPI_DEVICE)
    [] o = "profile" /\ codec = "AV1_VAAPI" -> Or(v, "main")
    [] OTHER -> v

LEMMA MeaningIs ==
  ASSUME NEW c, IsConfig(c)
  PROVE  LET cli == uses_ffmpeg_cli_encoder(c.codec) IN
         Meaning(c) = [codec |-> c.codec, options |->
         [o \in OptionNames[c.codec] |-> StandsFor(c.codec, o, c.options[o])],
                       fps |-> c.fps, gop |-> c.gop, crf |-> IF cli THEN None ELSE c.crf,
                       scaling |-> IF cli /\ c.resize = None THEN None ELSE c.scaling, resize |-> c.resize]
<1> DEFINE cli == uses_ffmpeg_cli_encoder(c.codec)
           told == [o \in OptionNames[c.codec] |-> StandsFor(c.codec, o, c.options[o])]
<1>1. DOMAIN c.options = OptionNames[c.codec]
  BY DEF IsConfig
<1>2. Meaning(c) = [c EXCEPT !.options = told, !.crf = IF cli THEN None ELSE @,
                             !.scaling = IF cli /\ c.resize = None THEN None ELSE @]
  BY <1>1, Zenon DEF Meaning, StandsFor
<1> HIDE DEF cli, told
<1>3. Meaning(c) = [codec |-> c.codec, options |-> told, fps |-> c.fps, gop |-> c.gop, crf |->
      IF cli THEN None ELSE c.crf,
                    scaling |-> IF cli /\ c.resize = None THEN None ELSE c.scaling, resize |-> c.resize]
  BY <1>2 DEF IsConfig
<1> QED BY <1>3 DEF cli, told

LEMMA FilterTells ==
  ASSUME NEW c, NEW d, IsConfig(c), IsConfig(d), ffmpeg_video_filter(c) = ffmpeg_video_filter(d)
  PROVE  c.resize = d.resize /\ (c.resize # None => c.scaling = d.scaling)
BY DEF IsConfig, ffmpeg_video_filter

LEMMA SizeTells ==
  ASSUME NEW c, NEW d, IsConfig(c), IsConfig(d),
         ffmpeg_video_filter([c EXCEPT !.scaling = "ParamDefault"])
         = ffmpeg_video_filter([d EXCEPT !.scaling = "ParamDefault"])
  PROVE  c.resize = d.resize
BY DEF IsConfig, ffmpeg_video_filter

LEMMA SoftwareSays ==
  ASSUME NEW c, c.codec \in SoftwareCodec, NEW x
  PROVE  LET S == SoftwareArguments(c) IN
         /\ <<"time_base", x>> \in S <=> x = c.fps
         /\ <<"g", x>> \in S <=> x = c.gop
         /\ <<"crf", x>> \in S <=> x = c.crf
         /\ <<"scaler", x>> \in S <=> x = c.scaling
         /\ <<"size", x>> \in S <=> x = ffmpeg_video_filter([c EXCEPT !.scaling = "ParamDefault"])
<1> DEFINE F == {"time_base", "g", "crf", "size", "scaler", "codec"}
<1>1. \A f \in F : <<f, x>> \notin Av1Options(c.options)
  BY Av1Has
<1>2. \A f \in F : <<f, x>> \notin X26Options(c.options, "threads")
      /\ <<f, x>> \notin X26Options(c.options, "pools")
  BY X26Has
<1> QED BY <1>1, <1>2, SoftwareHas

LEMMA SoftwareTells ==
  ASSUME NEW c, NEW d, IsConfig(c), IsConfig(d), c.codec = d.codec, c.codec \in SoftwareCodec,
         SoftwareArguments(c) = SoftwareArguments(d)
  PROVE  /\ c.fps = d.fps /\ c.gop = d.gop /\ c.crf = d.crf /\ c.scaling = d.scaling /\ c.resize = d.resize
<1>2. c.fps = d.fps /\ c.gop = d.gop /\ c.crf = d.crf /\ c.scaling = d.scaling
  BY SoftwareSays
<1>3. c.resize = d.resize
  <2>1. ffmpeg_video_filter([c EXCEPT !.scaling = "ParamDefault"])
        = ffmpeg_video_filter([d EXCEPT !.scaling = "ParamDefault"])
    BY SoftwareSays
  <2> QED BY <2>1, SizeTells
<1> QED BY <1>2, <1>3

LEMMA Av1Says ==
  ASSUME NEW c, c.codec = "AV1", NEW x
  PROVE  LET S == SoftwareArguments(c) IN
         /\ <<"lp", x>> \in S <=> x = IF c.options.lp \in 1 .. 6 THEN c.options.lp ELSE 0
         /\ <<"pin", x>> \in S <=> x = Or(c.options.pin, 0)
         /\ <<"preset", x>> \in S <=> x = c.options.preset
         /\ <<"film-grain", x>> \in S <=> x = c.options["film_grain"] /\ x # None
         /\ <<"film-grain-denoise", x>> \in S <=> x = c.options["film_grain_denoise"] /\ x # None
         /\ <<"lookahead", x>> \in S <=> x = c.options["lookahead"] /\ x # None
         /\ <<"fast-decode", x>> \in S <=> x = c.options["fast_decode"] /\ x # None
<1> DEFINE F == {"lp", "pin", "preset", "film-grain", "film-grain-denoise", "lookahead", "fast-decode"}
<1>1. \A f \in F : <<f, x>> \in SoftwareArguments(c) <=> <<f, x>> \in Av1Options(c.options)
  <2>1. c.codec \in SoftwareCodec
    BY DEF SoftwareCodec
  <2>2. \A f : <<f, x>> \in SoftwareArguments(c) <=>
           \/ f = "time_base" /\ x = c.fps
           \/ f = "g" /\ x = c.gop
           \/ f = "crf" /\ x = c.crf
           \/ f = "size" /\ x = ffmpeg_video_filter([c EXCEPT !.scaling = "ParamDefault"])
           \/ f = "scaler" /\ x = c.scaling
           \/ f = "codec" /\ x = ffmpeg_encoder_name[c.codec]
           \/ <<f, x>> \in Av1Options(c.options)
    BY <2>1, SoftwareHas
  <2> QED BY <2>2
<1> QED BY <1>1, Av1Has

LEMMA Av1Lp ==
  ASSUME NEW c, c.codec = "AV1", NEW x
  PROVE  <<"lp", x>> \in SoftwareArguments(c) <=> x = IF c.options.lp \in 1 .. 6 THEN c.options.lp ELSE 0
BY Av1Says

LEMMA Av1Tells ==
  ASSUME NEW c, NEW d, c.codec = "AV1", d.codec = "AV1", SoftwareArguments(c) = SoftwareArguments(d)
  PROVE  \A n \in OptionNames.AV1 : StandsFor("AV1", n, c.options[n]) = StandsFor("AV1", n, d.options[n])
<1> DEFINE o == c.options  p == d.options
<1>1. \A a, b : a = (IF o.lp \in 1 .. 6 THEN o.lp ELSE 0)
      /\ b = (IF p.lp \in 1 .. 6 THEN p.lp ELSE 0) => a = b
  <2> TAKE a, b
  <2>1. <<"lp", a>> \in SoftwareArguments(c) <=> a = IF o.lp \in 1 .. 6 THEN o.lp ELSE 0
    BY Av1Lp
  <2>2. <<"lp", a>> \in SoftwareArguments(d) <=> a = IF p.lp \in 1 .. 6 THEN p.lp ELSE 0
    BY Av1Lp
  <2> QED BY <2>1, <2>2
<1>2. Or(o.pin, 0) = Or(p.pin, 0)
  BY Av1Says
<1>3. o.preset = p.preset
  BY Av1Says
<1>4. (o["film_grain"] # None => p["film_grain"] = o["film_grain"])
      /\ (p["film_grain"] # None => p["film_grain"] = o["film_grain"])
  BY Av1Says
<1>5. (o["film_grain_denoise"] # None => p["film_grain_denoise"] = o["film_grain_denoise"])
      /\ (p["film_grain_denoise"] # None => p["film_grain_denoise"] = o["film_grain_denoise"])
  BY Av1Says
<1>6. (o["lookahead"] # None => p["lookahead"] = o["lookahead"])
      /\ (p["lookahead"] # None => p["lookahead"] = o["lookahead"])
  BY Av1Says
<1>7. (o["fast_decode"] # None => p["fast_decode"] = o["fast_decode"])
      /\ (p["fast_decode"] # None => p["fast_decode"] = o["fast_decode"])
  BY Av1Says
<1> QED BY <1>1, <1>2, <1>3, <1>4, <1>5, <1>6, <1>7 DEF StandsFor, OptionNames

LEMMA H264Says ==
  ASSUME NEW c, c.codec = "H264", NEW x
  PROVE  LET S == SoftwareArguments(c) IN
         /\ <<"preset", x>> \in S <=> x = c.options.preset
         /\ <<"threads", x>> \in S <=> x = c.options["threads"] /\ x # None
         /\ <<"tune", x>> \in S <=> x = c.options.tune /\ x # <<>>
<1>0. c.codec \in SoftwareCodec
  BY DEF SoftwareCodec
<1>1. \A f \in {"preset", "threads", "tune"} : <<f, x>> \in SoftwareArguments(c)
      <=> <<f, x>> \in X26Options(c.options, "threads")
  BY <1>0, SoftwareHas
<1> QED BY <1>1, X26Has

LEMMA H264Tells ==
  ASSUME NEW c, NEW d, c.codec = "H264", d.codec = "H264", SoftwareArguments(c) = SoftwareArguments(d)
  PROVE  \A n \in OptionNames.H264 : c.options[n] = d.options[n]
<1>1. c.options.preset = d.options.preset
  BY H264Says
<1>2. (c.options.tune # <<>> => d.options.tune = c.options.tune)
      /\ (d.options.tune # <<>> => d.options.tune = c.options.tune)
  BY H264Says
<1>3. (c.options["threads"] # None => d.options["threads"] = c.options["threads"])
      /\ (d.options["threads"] # None => d.options["threads"] = c.options["threads"])
  BY H264Says
<1> QED BY <1>1, <1>2, <1>3 DEF OptionNames

LEMMA H265Says ==
  ASSUME NEW c, c.codec = "H265", NEW x
  PROVE  LET S == SoftwareArguments(c) IN
         /\ <<"preset", x>> \in S <=> x = c.options.preset
         /\ <<"pools", x>> \in S <=> x = c.options["threads"] /\ x # None
         /\ <<"tune", x>> \in S <=> x = c.options.tune /\ x # <<>>
         /\ <<"frame-threads", x>> \in S <=> x = c.options["frame_threads"] /\ x # None
<1>0. c.codec \in SoftwareCodec
  BY DEF SoftwareCodec
<1>1. \A f \in {"preset", "pools", "tune"} : <<f, x>> \in SoftwareArguments(c)
      <=> <<f, x>> \in X26Options(c.options, "pools")
  BY <1>0, SoftwareHas
<1>2. <<"frame-threads", x>> \notin X26Options(c.options, "pools")
  BY X26Has
<1>3. <<"frame-threads", x>> \in SoftwareArguments(c) <=>
        \/ <<"frame-threads", x>> \in X26Options(c.options, "pools")
        \/ x = c.options["frame_threads"] /\ x # None
  <2>1. \A f : f = "frame-threads" =>
          (<<f, x>> \in SoftwareArguments(c) <=>
             <<f, x>> \in X26Options(c.options, "pools") \/ (x = c.options["frame_threads"] /\ x # None))
    BY <1>0, SoftwareHas
  <2> QED BY <2>1
<1> QED BY <1>1, <1>2, <1>3, X26Has

LEMMA H265Tells ==
  ASSUME NEW c, NEW d, c.codec = "H265", d.codec = "H265", SoftwareArguments(c) = SoftwareArguments(d)
  PROVE  \A n \in OptionNames.H265 : c.options[n] = d.options[n]
<1>1. c.options.preset = d.options.preset
  BY H265Says
<1>2. (c.options.tune # <<>> => d.options.tune = c.options.tune)
      /\ (d.options.tune # <<>> => d.options.tune = c.options.tune)
  BY H265Says
<1>3. (c.options["threads"] # None => d.options["threads"] = c.options["threads"])
      /\ (d.options["threads"] # None => d.options["threads"] = c.options["threads"])
  BY H265Says
<1>4. (c.options["frame_threads"] # None => d.options["frame_threads"] = c.options["frame_threads"])
      /\ (d.options["frame_threads"] # None => d.options["frame_threads"] = c.options["frame_threads"])
  BY H265Says
<1> QED BY <1>1, <1>2, <1>3, <1>4 DEF OptionNames

LEMMA NvencSays ==
  ASSUME NEW c, NEW x
  PROVE  LET S == NvencArguments(c) IN
         /\ <<"-framerate", x>> \in S <=> x = c.fps
         /\ <<"-vf", x>> \in S <=> x = ffmpeg_video_filter(c)
         /\ <<"-g", x>> \in S <=> x = c.gop
         /\ <<"-qp", x>> \in S <=> x = c.options.qp
         /\ <<"-bf", x>> \in S <=> x = c.options.b_frames
         /\ <<"-preset", x>> \in S <=> x = c.options.preset
         /\ <<"-rc-lookahead", x>> \in S <=> x = c.options["rc_lookahead"] /\ x # None
         /\ <<"-tune", x>> \in S <=> x = c.options["tune"] /\ x # None
         /\ <<"-gpu", x>> \in S <=> x = c.options["gpu"] /\ x # None
         /\ <<"-profile:v", x>> \in S <=> x = c.options["profile"] /\ x # None
<1>1. \A f \in {"-qp", "-bf", "-preset", "-rc-lookahead", "-tune", "-gpu", "-profile:v"} : <<f,
      x>> \notin CliArguments(c)
  BY CliHas
<1>2. \A f \in {"-framerate", "-vf", "-g"} : <<f, x>> \in NvencArguments(c) <=> <<f, x>> \in CliArguments(c)
  BY NvencHas
<1>3. /\ <<"-framerate", x>> \in CliArguments(c) <=> x = c.fps
      /\ <<"-vf", x>> \in CliArguments(c) <=> x = ffmpeg_video_filter(c)
      /\ <<"-g", x>> \in CliArguments(c) <=> x = c.gop
  BY CliHas
<1> QED BY <1>1, <1>2, <1>3, NvencHas

LEMMA NvencTells ==
  ASSUME NEW c, NEW d, c.codec \in NvencCodec, IsConfig(c), IsConfig(d), d.codec = c.codec,
         NvencArguments(c) = NvencArguments(d)
  PROVE  /\ c.fps = d.fps /\ c.gop = d.gop /\ c.resize = d.resize
         /\ (c.resize # None => c.scaling = d.scaling)
         /\ \A n \in OptionNames[c.codec] : c.options[n] = d.options[n]
<1>1. c.fps = d.fps /\ c.gop = d.gop
  BY NvencSays
<1>2. ffmpeg_video_filter(c) = ffmpeg_video_filter(d)
  BY NvencSays
<1>3. c.options.qp = d.options.qp /\ c.options.b_frames = d.options.b_frames
      /\ c.options.preset = d.options.preset
  BY NvencSays
<1>4. \A o \in {"rc_lookahead", "tune", "gpu", "profile"} : c.options[o] = d.options[o]
  <2>1. c.options["rc_lookahead"] = d.options["rc_lookahead"]
    <3>1. ASSUME NEW x, x # None PROVE (x = c.options["rc_lookahead"]) <=> (x = d.options["rc_lookahead"])
      <4>1. <<"-rc-lookahead", x>> \in NvencArguments(c) <=> x = c.options["rc_lookahead"]
        BY <3>1, NvencSays
      <4>2. <<"-rc-lookahead", x>> \in NvencArguments(d) <=> x = d.options["rc_lookahead"]
        BY <3>1, NvencSays
      <4> QED BY <4>1, <4>2
    <3> QED BY <3>1, Zenon
  <2>2. c.options["tune"] = d.options["tune"]
    <3>1. ASSUME NEW x, x # None PROVE (x = c.options["tune"]) <=> (x = d.options["tune"])
      <4>1. <<"-tune", x>> \in NvencArguments(c) <=> x = c.options["tune"]
        BY <3>1, NvencSays
      <4>2. <<"-tune", x>> \in NvencArguments(d) <=> x = d.options["tune"]
        BY <3>1, NvencSays
      <4> QED BY <4>1, <4>2
    <3> QED BY <3>1, Zenon
  <2>3. c.options["gpu"] = d.options["gpu"]
    <3>1. ASSUME NEW x, x # None PROVE (x = c.options["gpu"]) <=> (x = d.options["gpu"])
      <4>1. <<"-gpu", x>> \in NvencArguments(c) <=> x = c.options["gpu"]
        BY <3>1, NvencSays
      <4>2. <<"-gpu", x>> \in NvencArguments(d) <=> x = d.options["gpu"]
        BY <3>1, NvencSays
      <4> QED BY <4>1, <4>2
    <3> QED BY <3>1, Zenon
  <2>4. c.options["profile"] = d.options["profile"]
    <3>1. ASSUME NEW x, x # None PROVE (x = c.options["profile"]) <=> (x = d.options["profile"])
      <4>1. <<"-profile:v", x>> \in NvencArguments(c) <=> x = c.options["profile"]
        BY <3>1, NvencSays
      <4>2. <<"-profile:v", x>> \in NvencArguments(d) <=> x = d.options["profile"]
        BY <3>1, NvencSays
      <4> QED BY <4>1, <4>2
    <3> QED BY <3>1, Zenon
  <2> QED BY <2>1, <2>2, <2>3, <2>4
<1>5. c.resize = d.resize /\ (c.resize # None => c.scaling = d.scaling)
  BY <1>2, FilterTells
<1> QED BY <1>1, <1>3, <1>4, <1>5 DEF OptionNames, NvencCodec

LEMMA VaapiSays ==
  ASSUME NEW c, NEW x, c.codec \in VaapiCodec
  PROVE  LET S == VaapiArguments(c)
             av1 == c.codec = "AV1_VAAPI"
         IN
         /\ <<"-framerate", x>> \in S <=> x = c.fps
         /\ <<"-vf", x>> \in S <=> x = ffmpeg_video_filter(c)
         /\ <<"-g", x>> \in S <=> x = c.gop
         /\ <<"-vaapi_device", x>> \in S <=> x = Or(c.options.device, DEFAULT_VAAPI_DEVICE)
         /\ <<IF av1 THEN "-global_quality" ELSE "-qp", x>> \in S <=> x = c.options.qp
         /\ <<"-profile:v", x>> \in S <=>
              IF av1 THEN x = Or(c.options.profile, "main") ELSE x = c.options["profile"] /\ x # None
         /\ <<"-b_depth", x>> \in S <=> c.codec # "H265_VAAPI" /\ x = c.options["b_depth"] /\ x # None
         /\ <<"-async_depth", x>> \in S <=> x = c.options["async_depth"] /\ x # None
<1>1. \A f \in {"-vaapi_device", "-global_quality", "-qp", "-profile:v", "-b_depth", "-async_depth"} : <<f,
      x>> \notin CliArguments(c)
  BY CliHas
<1>2. \A f \in {"-framerate", "-vf", "-g"} : <<f, x>> \in VaapiArguments(c) <=> <<f, x>> \in CliArguments(c)
  BY VaapiHas
<1>3. /\ <<"-framerate", x>> \in CliArguments(c) <=> x = c.fps
      /\ <<"-vf", x>> \in CliArguments(c) <=> x = ffmpeg_video_filter(c)
      /\ <<"-g", x>> \in CliArguments(c) <=> x = c.gop
  BY CliHas
<1> QED BY <1>1, <1>2, <1>3, VaapiHas

LEMMA VaapiTells ==
  ASSUME NEW c, NEW d, c.codec \in VaapiCodec, IsConfig(c), IsConfig(d), d.codec = c.codec,
         VaapiArguments(c) = VaapiArguments(d)
  PROVE  /\ c.fps = d.fps /\ c.gop = d.gop /\ c.resize = d.resize
         /\ (c.resize # None => c.scaling = d.scaling)
         /\ \A n \in OptionNames[c.codec] : StandsFor(c.codec, n, c.options[n])
            = StandsFor(c.codec, n, d.options[n])
<1>1. c.fps = d.fps /\ c.gop = d.gop
  BY VaapiSays
<1>2. ffmpeg_video_filter(c) = ffmpeg_video_filter(d)
  BY VaapiSays
<1>3. c.options.qp = d.options.qp
      /\ Or(c.options.device, DEFAULT_VAAPI_DEVICE) = Or(d.options.device, DEFAULT_VAAPI_DEVICE)
  BY VaapiSays
<1>4. IF c.codec = "AV1_VAAPI" THEN Or(c.options.profile, "main") = Or(d.options.profile, "main")
      ELSE /\ c.options["profile"] # None => d.options["profile"] = c.options["profile"]
           /\ d.options["profile"] # None => d.options["profile"] = c.options["profile"]
  <2>1. CASE c.codec = "AV1_VAAPI"
    <3>1. \A x : (x = Or(c.options.profile, "main")) <=> (x = Or(d.options.profile, "main"))
      <4> TAKE x
      <4>1. <<"-profile:v", x>> \in VaapiArguments(c) <=> x = Or(c.options.profile, "main")
        BY <2>1, VaapiHas, CliHas
      <4>2. <<"-profile:v", x>> \in VaapiArguments(d) <=> x = Or(d.options.profile, "main")
        BY <2>1, VaapiHas, CliHas
      <4> QED BY <4>1, <4>2
    <3> QED BY <2>1, <3>1, Zenon
  <2>2. CASE c.codec # "AV1_VAAPI"
    <3>1. ASSUME NEW x, x # None
          PROVE  (x = c.options["profile"]) <=> (x = d.options["profile"])
      <4>1. <<"-profile:v", x>> \in VaapiArguments(c) <=> x = c.options["profile"]
        BY <2>2, <3>1, VaapiHas, CliHas
      <4>2. <<"-profile:v", x>> \in VaapiArguments(d) <=> x = d.options["profile"]
        BY <2>2, <3>1, VaapiHas, CliHas
      <4> QED BY <4>1, <4>2
    <3> QED BY <2>2, <3>1
  <2> QED BY <2>1, <2>2
<1>5. /\ c.codec # "H265_VAAPI" => c.options["b_depth"] = d.options["b_depth"]
      /\ c.options["async_depth"] = d.options["async_depth"]
  <2>1. ASSUME c.codec # "H265_VAAPI" PROVE c.options["b_depth"] = d.options["b_depth"]
    <3>1. ASSUME NEW x, x # None PROVE (x = c.options["b_depth"]) <=> (x = d.options["b_depth"])
      <4>1. <<"-b_depth", x>> \in VaapiArguments(c) <=> x = c.options["b_depth"]
        BY <2>1, <3>1, VaapiHas, CliHas
      <4>2. <<"-b_depth", x>> \in VaapiArguments(d) <=> x = d.options["b_depth"]
        BY <2>1, <3>1, VaapiHas, CliHas
      <4> QED BY <4>1, <4>2
    <3> QED BY <3>1, Zenon
  <2>2. c.options["async_depth"] = d.options["async_depth"]
    <3>1. ASSUME NEW x, x # None PROVE (x = c.options["async_depth"]) <=> (x = d.options["async_depth"])
      <4>1. <<"-async_depth", x>> \in VaapiArguments(c) <=> x = c.options["async_depth"]
        BY <3>1, VaapiHas, CliHas
      <4>2. <<"-async_depth", x>> \in VaapiArguments(d) <=> x = d.options["async_depth"]
        BY <3>1, VaapiHas, CliHas
      <4> QED BY <4>1, <4>2
    <3> QED BY <3>1, Zenon
  <2> QED BY <2>1, <2>2
<1>6. c.resize = d.resize /\ (c.resize # None => c.scaling = d.scaling)
  BY <1>2, FilterTells
<1>7. \A n \in OptionNames[c.codec] : n \in {"qp", "device", "profile", "b_depth", "async_depth"}
      /\ (n = "b_depth" => c.codec # "H265_VAAPI")
  BY DEF OptionNames, VaapiCodec
<1> QED BY <1>1, <1>3, <1>4, <1>5, <1>6, <1>7 DEF StandsFor
LEMMA ArgumentsAre ==
  ASSUME NEW c, c.codec \in Codec
  PROVE  /\ c.codec \in SoftwareCodec => Arguments(c) = SoftwareArguments(c)
            /\ ~uses_ffmpeg_cli_encoder(c.codec)
         /\ c.codec \in VaapiCodec => Arguments(c) = VaapiArguments(c) /\ uses_ffmpeg_cli_encoder(c.codec)
         /\ c.codec \in NvencCodec => Arguments(c) = NvencArguments(c) /\ uses_ffmpeg_cli_encoder(c.codec)
BY DEF Arguments, Codec, SoftwareCodec, VaapiCodec, NvencCodec, uses_ffmpeg_cli_encoder

LEMMA OptionsTell ==
  ASSUME NEW c, NEW d, IsConfig(c), IsConfig(d), c.codec = d.codec, Arguments(c) = Arguments(d)
  PROVE  \A n \in OptionNames[c.codec] : StandsFor(c.codec, n, c.options[n])
         = StandsFor(c.codec, n, d.options[n])
<1>0. c.codec \in Codec
  BY DEF IsConfig
<1>1. CASE c.codec = "AV1"
  <2>1. SoftwareArguments(c) = SoftwareArguments(d)
    BY <1>1, <1>0, ArgumentsAre DEF SoftwareCodec
  <2> QED BY <2>1, <1>1, Av1Tells
<1>2. CASE c.codec = "H264"
  <2>1. SoftwareArguments(c) = SoftwareArguments(d)
    BY <1>2, <1>0, ArgumentsAre DEF SoftwareCodec
  <2>2. \A n \in OptionNames.H264 : c.options[n] = d.options[n]
    BY <2>1, <1>2, H264Tells
  <2> QED BY <2>2, <1>2
<1>3. CASE c.codec = "H265"
  <2>1. SoftwareArguments(c) = SoftwareArguments(d)
    BY <1>3, <1>0, ArgumentsAre DEF SoftwareCodec
  <2>2. \A n \in OptionNames.H265 : c.options[n] = d.options[n]
    BY <2>1, <1>3, H265Tells
  <2> QED BY <2>2, <1>3
<1>4. CASE c.codec \in VaapiCodec
  BY <1>0, <1>4, ArgumentsAre, VaapiTells
<1>5. CASE c.codec \in NvencCodec
  BY <1>0, <1>5, ArgumentsAre, NvencTells
<1> QED BY <1>0, <1>1, <1>2, <1>3, <1>4, <1>5 DEF Codec, SoftwareCodec

LEMMA RestTells ==
  ASSUME NEW c, NEW d, IsConfig(c), IsConfig(d), c.codec = d.codec, Arguments(c) = Arguments(d)
  PROVE  /\ c.fps = d.fps /\ c.gop = d.gop /\ c.resize = d.resize
         /\ c.crf = d.crf \/ uses_ffmpeg_cli_encoder(c.codec)
         /\ c.scaling = d.scaling \/ (uses_ffmpeg_cli_encoder(c.codec) /\ c.resize = None)
<1>0. c.codec \in Codec
  BY DEF IsConfig
<1>1. CASE c.codec \in SoftwareCodec
  BY <1>0, <1>1, ArgumentsAre, SoftwareTells
<1>2. CASE c.codec \in VaapiCodec
  BY <1>0, <1>2, ArgumentsAre, VaapiTells
<1>3. CASE c.codec \in NvencCodec
  BY <1>0, <1>3, ArgumentsAre, NvencTells
<1> QED BY <1>0, <1>1, <1>2, <1>3 DEF Codec

(* Of two configurations with the same codec that mean different things the
   encoders make different arguments (CliArguments, VaapiArguments,
   NvencArguments, SoftwareArguments): no option gets lost on the way, and none
   is told with the name of another.                                           *)
THEOREM ArgumentsTell ==
  ASSUME NEW c, NEW d, IsConfig(c), IsConfig(d), c.codec = d.codec, Arguments(c) = Arguments(d)
  PROVE  Meaning(c) = Meaning(d)
<1>1. [o \in OptionNames[c.codec] |-> StandsFor(c.codec, o, c.options[o])]
        = [o \in OptionNames[d.codec] |-> StandsFor(d.codec, o, d.options[o])]
  BY OptionsTell
<1> QED BY <1>1, RestTells, MeaningIs

LEMMA VariantsAreConfigs ==
  ASSUME NEW c, IsConfig(c), NEW d \in Variants(c)
  PROVE  IsConfig(d) /\ d.codec = c.codec
<1> USE DEF IsConfig
<1>1. CASE \E o \in DOMAIN c.options : \E v \in Values(c.codec, o) : d = [c EXCEPT !.options[o] = v]
  <2> PICK o \in DOMAIN c.options : \E v \in Values(c.codec, o) : d = [c EXCEPT !.options[o] = v]
    BY <1>1
  <2> PICK v \in Values(c.codec, o) : d = [c EXCEPT !.options[o] = v]
    OBVIOUS
  <2> QED OBVIOUS
<1>2. CASE d \in {[c EXCEPT !.fps = @ + 1], [c EXCEPT !.gop = @ + 1], [c EXCEPT !.crf = None]}
  BY <1>2
<1>3. CASE \E flag \in ScalingFlag : d = [c EXCEPT !.scaling = flag]
  BY <1>3
<1>4. CASE \E size \in {None, [width |-> 2, height |-> 4]} : d = [c EXCEPT !.resize = size]
  BY <1>4
<1> QED
  <2> DEFINE A == UNION {{[c EXCEPT !.options[o] = v] : v \in Values(c.codec, o)} : o \in DOMAIN c.options}
             B == {[c EXCEPT !.fps = @ + 1], [c EXCEPT !.gop = @ + 1], [c EXCEPT !.crf = None]}
             C == {[c EXCEPT !.scaling = flag] : flag \in ScalingFlag}
             D == {[c EXCEPT !.resize = size] : size \in {None, [width |-> 2, height |-> 4]}}
  <2>1. Variants(c) = ((A \cup B) \cup C) \cup D
    BY Zenon DEF Variants
  <2>2. ASSUME d \in A
        PROVE  \E o \in DOMAIN c.options : \E v \in Values(c.codec, o) : d = [c EXCEPT !.options[o] = v]
    <3> DEFINE Set(o) == {[c EXCEPT !.options[o] = v] : v \in Values(c.codec, o)}
    <3>1. \E o \in DOMAIN c.options : d \in Set(o)
      <4> HIDE DEF Set
      <4>1. d \in UNION {Set(o) : o \in DOMAIN c.options}
        BY <2>2, Zenon DEF Set
      <4> QED BY <4>1
    <3> QED BY <3>1
  <2>3. d \in C => \E flag \in ScalingFlag : d = [c EXCEPT !.scaling = flag]
    BY Zenon
  <2>4. d \in D => \E size \in {None, [width |-> 2, height |-> 4]} : d = [c EXCEPT !.resize = size]
    BY Zenon
  <2>5. d \in A \/ d \in B \/ d \in C \/ d \in D
    BY <2>1, Zenon
  <2> QED BY <2>2, <2>3, <2>4, <2>5, <1>1, <1>2, <1>3, <1>4, Zenon

LEMMA WithHas ==
  ASSUME NEW defaults, NEW given
  PROVE  /\ DOMAIN With(defaults, given) = DOMAIN defaults
         /\ With(defaults, given) = [o \in DOMAIN defaults |-> With(defaults, given)[o]]
BY DEF With

(* The signatures of Python differ from the defaults for h264_nvenc alone. *)
LEMMA SignaturesAre ==
  ASSUME NEW codec \in Codec, codec # "H264_NVENC"
  PROVE  PySignature[codec] = Defaults(codec)
<1>1. CASE codec = "AV1"
  BY <1>1 DEF VaapiCodec, NvencCodec, Defaults, PySignature, Av1Defaults, py_av1
<1>2. CASE codec = "H264"
  BY <1>2 DEF VaapiCodec, NvencCodec, Defaults, PySignature, H264Defaults, py_h264
<1>5. CASE codec = "H265"
  BY <1>5 DEF VaapiCodec, NvencCodec, Defaults, PySignature, H265Defaults, py_h265
<1>3. CASE codec \in VaapiCodec
  BY <1>3 DEF VaapiCodec, NvencCodec, Defaults, PySignature, VaapiDefaults, py_h264_vaapi, py_h265_vaapi,
     py_av1_vaapi
<1>4. CASE codec \in NvencCodec
  BY <1>4 DEF VaapiCodec, NvencCodec, Defaults, PySignature, NvencDefaults, NvencOptions,
             py_h265_nvenc, py_av1_nvenc
<1> QED BY <1>1, <1>2, <1>3, <1>4, <1>5 DEF Codec, SoftwareCodec

LEMMA DoorsAgree ==
  ASSUME NEW codec \in Codec, NEW given
  PROVE  \/ PyOptions(codec, given) = YamlOptions(codec, given)
         \/ codec = "H264_NVENC" /\ \E o \in DOMAIN given : given[o] = None
<1>1. CASE codec # "H264_NVENC"
  BY <1>1, SignaturesAre DEF PyOptions, YamlOptions
<1>2. CASE codec = "H264_NVENC" /\ \A o \in DOMAIN given : given[o] # None
  <2> DEFINE names == OptionNames.H264_NVENC
             py == With(PySignature[codec], given)
  <2>1. PySignature[codec] = NvencOptions(26, "P5", None, None, 1, None)
        /\ Defaults(codec) = NvencOptions(26, "P5", "hq", "high", 1, 32)
    BY <1>2 DEF PySignature, py_h264_nvenc, Defaults, NvencDefaults, VaapiCodec, NvencCodec
  <2>2. py = [o \in names |-> IF o \in DOMAIN given THEN given[o] ELSE NvencOptions(26, "P5", None, None, 1,
        None)[o]]
    BY <2>1 DEF With, NvencOptions, OptionNames
  <2>3. YamlOptions(codec, given)
          = [o \in names |-> IF o \in DOMAIN given THEN given[o] ELSE NvencOptions(26, "P5", "hq", "high", 1,
          32)[o]]
    BY <2>1 DEF YamlOptions, With, NvencOptions, OptionNames
  <2>4. PyOptions(codec, given)
          = [[[py EXCEPT !.tune = Or(@, "hq")] EXCEPT !.profile = Or(@, "high")] EXCEPT !.rc_lookahead
          = Or(@, 32)]
    BY <1>2, Zenon DEF PyOptions
  <2> HIDE DEF py
  <2>5. \A o \in names : o \notin {"tune", "profile", "rc_lookahead"} => PyOptions(codec, given)[o] = py[o]
    BY <2>2, <2>4 DEF OptionNames
  <2>6. PyOptions(codec, given).tune = Or(py.tune, "hq")
        /\ PyOptions(codec, given).profile = Or(py.profile, "high")
        /\ PyOptions(codec, given).rc_lookahead = Or(py.rc_lookahead, 32)
    BY <2>2, <2>4 DEF OptionNames
  <2>7. PyOptions(codec, given) = [o \in names |-> PyOptions(codec, given)[o]]
    BY <2>2, <2>4
  <2>8. \A o \in names : PyOptions(codec, given)[o] = YamlOptions(codec, given)[o]
    BY <1>2, <2>2, <2>3, <2>5, <2>6 DEF NvencOptions, Or, OptionNames
  <2> QED BY <2>3, <2>7, <2>8
<1> QED BY <1>1, <1>2

LEMMA OptionsAre ==
  ASSUME NEW codec \in Codec, NEW given
  PROVE  /\ PyOptions(codec, given) = [o \in OptionNames[codec] |-> PyOptions(codec, given)[o]]
         /\ YamlOptions(codec, given) = [o \in OptionNames[codec] |-> YamlOptions(codec, given)[o]]
<1>1. With(PySignature[codec], given) = [o \in OptionNames[codec] |-> With(PySignature[codec], given)[o]]
  BY WithHas, DefaultsAre
<1>2. With(Defaults(codec), given) = [o \in OptionNames[codec] |-> With(Defaults(codec), given)[o]]
  BY WithHas, DefaultsAre
<1> QED BY <1>1, <1>2 DEF PyOptions, YamlOptions

LEMMA ConfigIsConfig ==
  ASSUME NEW r, r.codec \in Codec, r.resize # None
         => r.resize = [width |-> r.resize.width, height |-> r.resize.height]
  PROVE  IsConfig(Config(r))
<1>1. Options(r) = [o \in OptionNames[r.codec] |-> Options(r)[o]]
  BY OptionsAre DEF Options
<1> QED BY <1>1 DEF Config, IsConfig

(* Nothing that is asked for is lost on the way to the encoder (VideoEncoderConfig,
   CodecConfig, and the arguments the encoders make of them): two accepted
   configurations that mean different things never become the same arguments,
   and a pipeline and a script that ask for the same get the same, but for what
   a script cannot turn off for h264_nvenc.                                     *)
THEOREM RequestIsHonouredHolds == Spec => []RequestIsHonoured
<1>1. VideoInv => RequestIsHonoured
  <2> SUFFICES ASSUME VideoInv, stage = "configure" PROVE RequestIsHonoured
    BY DEF RequestIsHonoured
  <2> DEFINE c == Config(request)
  <2>1. request \in Requests
    BY DEF VideoInv, EncoderOk
  <2>2. request.codec \in Codec /\ IsConfig(c)
    BY <2>1, RequestsAssumption, ConfigIsConfig
  <2>3. ASSUME NEW d \in Variants(c), Meaning(d) # Meaning(c)
        PROVE  Arguments(d) # Arguments(c)
    BY <2>2, <2>3, VariantsAreConfigs, ArgumentsTell
  <2>4. \/ PyOptions(request.codec, request.given) = YamlOptions(request.codec, request.given)
        \/ request.codec = "H264_NVENC" /\ \E o \in DOMAIN request.given : request.given[o] = None
    BY <2>2, DoorsAgree
  <2> QED BY <2>3, <2>4 DEF RequestIsHonoured
<1> QED BY <1>1, VideoInvHolds, PTL

-----------------------------------------------------------------------------
(* The same from 1. *)
LEMMA From1 ==
  ASSUME NEW n \in Nat \ {0}, NEW S, 1 \in S, \A i \in 1 .. n - 1 : i \in S => i + 1 \in S
  PROVE  \A i \in 1 .. n : i \in S
<1> DEFINE U == {k \in Nat : k + 1 \in S}
<1>1. 0 \in U /\ n - 1 \in Nat
  OBVIOUS
<1>2. \A k \in 0 .. (n - 1) - 1 : k \in U => k + 1 \in U
  <2> SUFFICES ASSUME NEW k \in 0 .. (n - 1) - 1, k \in U PROVE k + 1 \in U
    OBVIOUS
  <2>1. k + 1 \in 1 .. n - 1 /\ k + 1 \in S
    OBVIOUS
  <2> QED BY <2>1
<1>3. \A k \in 0 .. n - 1 : k \in U
  <2> HIDE DEF U
  <2> QED BY <1>1, <1>2, UpTo
<1> SUFFICES ASSUME NEW i \in 1 .. n PROVE i \in S
  OBVIOUS
<1>4. i - 1 \in 0 .. n - 1
  OBVIOUS
<1>5. i - 1 \in U
  <2> HIDE DEF U
  <2> QED BY <1>3, <1>4
<1> QED BY <1>5

(* FlattenSeq concatenates its sequences one after the other: f has the
   results on the way.                                                      *)
Concatenates(f, T, n, seqs) ==
  /\ f \in [1 .. n -> Seq(T)]
  /\ f[1] = seqs[1]
  /\ \A i \in 1 .. n - 1 : f[i + 1] = f[i] \o seqs[i + 1]

LEMMA Flat ==
  ASSUME NEW T, NEW n \in Nat \ {0}, NEW seqs \in [1 .. n -> Seq(T)]
  PROVE  \E f : Concatenates(f, T, n, seqs) /\ FlattenSeq(seqs) = f[n]
<1> DEFINE P(k) == k = [i \in 1 .. n |-> IF i = 1 THEN seqs[i] ELSE k[i - 1] \o seqs[i]]
           D == [p \in Seq(T) \X (1 .. n - 1) |-> p[1] \o seqs[p[2] + 1]]
           f == CHOOSE g : g = [i \in 1 .. n |-> IF i = 1 THEN seqs[i] ELSE g[i - 1] \o seqs[i]]
<1>1. /\ n - 1 \in Nat /\ seqs[1] \in Seq(T)
      /\ D \in [Seq(T) \X (1 .. n - 1) -> Seq(T)]
  OBVIOUS
<1>2. PICK g \in [0 .. n - 1 -> Seq(T)] : 
        g[0] = seqs[1] /\ \A i \in 1 .. n - 1 : g[i] = D[<<g[i - 1], i>>]
  <2> DEFINE m == n - 1  c == seqs[1]  V == Seq(T)
  <2>1. m \in Nat /\ c \in V /\ D \in [V \X (1 .. m) -> V]
    BY <1>1
  <2>2. \E g : Computes(g, m, V, c, D)
    <3> HIDE DEF D, m, c, V
    <3> QED BY <2>1, Recursion
  <2> HIDE DEF D
  <2> QED BY <2>2 DEF Computes
<1> DEFINE h == [i \in 1 .. n |-> g[i - 1]]
<1>3. P(h)
  <2>1. ASSUME NEW i \in 1 .. n, i # 1 PROVE h[i] = h[i - 1] \o seqs[i]
    <3>1. i - 1 \in 1 .. n - 1 /\ i - 1 \in 1 .. n /\ (i - 1) + 1 = i
      BY <2>1
    <3>2. g[i - 1] = D[<<g[(i - 1) - 1], i - 1>>]
      BY <1>2, <3>1
    <3>3. g[(i - 1) - 1] \in Seq(T)
      BY <3>1
    <3>4. h[i - 1] = g[(i - 1) - 1] /\ h[i] = g[i - 1]
      BY <3>1
    <3> HIDE DEF h
    <3> QED BY <3>1, <3>2, <3>3, <3>4
  <2>2. h[1] = seqs[1]
    BY <1>2
  <2>3. \A i \in 1 .. n : h[i] = IF i = 1 THEN seqs[i] ELSE h[i - 1] \o seqs[i]
    <3> HIDE DEF h
    <3> QED BY <2>1, <2>2
  <2> DEFINE r == [i \in 1 .. n |-> IF i = 1 THEN seqs[i] ELSE h[i - 1] \o seqs[i]]
  <2>4. h = [i \in 1 .. n |-> h[i]]
    OBVIOUS
  <2>5. h = r
    <3> HIDE DEF h
    <3> QED BY <2>3, <2>4
  <2> QED BY <2>5
<1>4. P(f)
  <2>1. f = CHOOSE k : P(k)
    OBVIOUS
  <2> HIDE DEF P, f, h
  <2> QED BY <1>3, <2>1
<1>5. FlattenSeq(seqs) = f[n]
  <2>1. seqs \in Seq(Seq(T))
    BY SeqDef
  <2>2. Len(seqs) = n
    BY <2>1, LenProperties
  <2> QED BY <2>2 DEF FlattenSeq
<1> HIDE DEF f
<1>6. /\ f[1] = seqs[1]
      /\ \A i \in 1 .. n - 1 : f[i + 1] = f[i] \o seqs[i + 1]
  <2>1. f = [i \in 1 .. n |-> IF i = 1 THEN seqs[i] ELSE f[i - 1] \o seqs[i]]
    BY <1>4
  <2>2. f[1] = seqs[1]
    BY <2>1
  <2>3. ASSUME NEW i \in 1 .. n - 1 PROVE f[i + 1] = f[i] \o seqs[i + 1]
    <3>1. i + 1 \in 1 .. n /\ i + 1 # 1 /\ (i + 1) - 1 = i
      OBVIOUS
    <3>2. f[i + 1] = f[(i + 1) - 1] \o seqs[i + 1]
      BY <2>1, <3>1
    <3> QED BY <3>1, <3>2
  <2> QED BY <2>2, <2>3
<1>7. \A i \in 1 .. n : f[i] \in Seq(T)
  <2> DEFINE S == {i \in 1 .. n : f[i] \in Seq(T)}
  <2>1. 1 \in S
    BY <1>6
  <2>2. ASSUME NEW i \in 1 .. n - 1, i \in S PROVE i + 1 \in S
    <3>1. f[i + 1] = f[i] \o seqs[i + 1]
      BY <1>6
    <3>2. f[i] \in Seq(T) /\ seqs[i + 1] \in Seq(T) /\ i + 1 \in 1 .. n
      BY <2>2
    <3>3. f[i + 1] \in Seq(T)
      BY <3>1, <3>2
    <3> QED BY <3>2, <3>3
  <2>3. \A i \in 1 .. n : i \in S
    <3> HIDE DEF S
    <3> QED BY <2>1, <2>2, From1
  <2> QED BY <2>3
<1>8. f \in [1 .. n -> Seq(T)]
  BY <1>4, <1>7
<1>9. Concatenates(f, T, n, seqs)
  BY <1>6, <1>8 DEF Concatenates
<1> QED BY <1>5, <1>9
LEMMA FlatType ==
  ASSUME NEW T, NEW n \in Nat \ {0}, NEW seqs \in [1 .. n -> Seq(T)]
  PROVE  FlattenSeq(seqs) \in Seq(T)
<1>1. PICK f : Concatenates(f, T, n, seqs) /\ FlattenSeq(seqs) = f[n]
  BY Flat
<1> QED BY <1>1 DEF Concatenates

(* The integers of a stream *)

(* Eleven nibbles suffice below. *)
Widest == 8589934592

LEMMA LeftIs ==
  ASSUME NEW v \in Nat
  PROVE  /\ Left(v) \in [0 .. 11 -> Nat] /\ Left(v)[0] = v
         /\ \A k \in 1 .. 11 : Left(v)[k] = Left(v)[k - 1] \div 8
<1> DEFINE P(f) == f = [k \in 0 .. 11 |-> IF k = 0 THEN v ELSE f[k - 1] \div 8]
           D == [p \in Nat \X (1 .. 11) |-> p[1] \div 8]
<1>1. D \in [Nat \X (1 .. 11) -> Nat]
  OBVIOUS
<1>2. PICK g : Computes(g, 11, Nat, v, D)
  <2> HIDE DEF D
  <2> QED BY <1>1, Recursion
<1>3. \A k \in 1 .. 11 : g[k] = g[k - 1] \div 8
  <2> TAKE k \in 1 .. 11
  <2>1. g[k - 1] \in Nat /\ k - 1 \in 0 .. 11
    BY <1>2 DEF Computes
  <2>2. g[k] = D[<<g[k - 1], k>>]
    BY <1>2 DEF Computes
  <2> QED BY <2>1, <2>2
<1>4. P(g)
  BY <1>2, <1>3 DEF Computes
<1>5. P(Left(v))
  <2>1. Left(v) = CHOOSE f : P(f)
    BY DEF Left
  <2> HIDE DEF P
  <2> QED BY <2>1, <1>4
<1>6. /\ Left(v)[0] = v
      /\ \A k \in 1 .. 11 : Left(v)[k] = Left(v)[k - 1] \div 8
  BY <1>5
<1>7. \A k \in 0 .. 11 : Left(v)[k] \in Nat
  <2> DEFINE S == {k \in 0 .. 11 : Left(v)[k] \in Nat}
  <2>1. 0 \in S
    BY <1>6
  <2>2. ASSUME NEW k \in 0 .. 11 - 1, k \in S PROVE k + 1 \in S
    <3>1. k + 1 \in 1 .. 11 /\ (k + 1) - 1 = k
      OBVIOUS
    <3>2. Left(v)[k + 1] = Left(v)[k] \div 8
      BY <1>6, <3>1
    <3> QED BY <2>2, <3>2
  <2>3. \A k \in 0 .. 11 : k \in S
    <3> HIDE DEF S
    <3> QED BY <2>1, <2>2, UpTo
  <2> QED BY <2>3
<1> QED BY <1>5, <1>6, <1>7

LEMMA LeftOrder ==
  ASSUME NEW v \in Nat, NEW w \in Nat, v <= w
  PROVE  \A k \in 0 .. 11 : Left(v)[k] <= Left(w)[k]
<1> DEFINE S == {k \in 0 .. 11 : Left(v)[k] <= Left(w)[k]}
<1>1. 0 \in S
  BY LeftIs
<1>2. ASSUME NEW k \in 0 .. 11 - 1, k \in S PROVE k + 1 \in S
  <2>1. k + 1 \in 1 .. 11 /\ (k + 1) - 1 = k
    OBVIOUS
  <2>2. \A u \in Nat : Left(u)[k + 1] = Left(u)[k] \div 8 /\ Left(u)[k] \in Nat
    <3> TAKE u \in Nat
    <3>1. \A j \in 1 .. 11 : Left(u)[j] = Left(u)[j - 1] \div 8
      BY LeftIs
    <3>2. Left(u)[k] \in Nat
      BY LeftIs
    <3> QED BY <2>1, <3>1, <3>2
  <2> QED BY <1>2, <2>2
<1>3. \A k \in 0 .. 11 : k \in S
  <2> HIDE DEF S
  <2> QED BY <1>1, <1>2, UpTo
<1> QED BY <1>3

LEMMA LimitIs == IntLimit \in Nat /\ 131072 <= IntLimit /\ IntLimit < Widest
BY CompressedDepthAssumption, SMT DEF Widest

LEMMA NibblesAre ==
  ASSUME NEW v \in Nat, v < Widest
  PROVE  /\ Nibbles(v) \in 1 .. 11
         /\ Left(v)[Nibbles(v)] = 0 /\ Left(v)[Nibbles(v) - 1] < 8
         /\ \A k \in 1 .. Nibbles(v) - 1 : Left(v)[k] > 0
<1> DEFINE S == {k \in 1 .. 11 : Left(v)[k] = 0}
<1>1. Left(v)[11] = 0
  <2>1. \A k \in 1 .. 11 : Left(v)[k] \in Nat /\ Left(v)[k - 1] \in Nat /\ 8 * Left(v)[k] <= Left(v)[k - 1]
    <3> TAKE k \in 1 .. 11
    <3>1. Left(v)[k] = Left(v)[k - 1] \div 8 /\ Left(v)[k - 1] \in Nat
      BY LeftIs
    <3> QED BY <3>1
  <2>2. /\ Left(v)[0] = v /\ 8 * Left(v)[1] <= Left(v)[0] /\ 8 * Left(v)[2] <= Left(v)[1]
        /\ 8 * Left(v)[3] <= Left(v)[2]
        /\ 8 * Left(v)[4] <= Left(v)[3] /\ 8 * Left(v)[5] <= Left(v)[4] /\ 8 * Left(v)[6] <= Left(v)[5]
        /\ 8 * Left(v)[7] <= Left(v)[6] /\ 8 * Left(v)[8] <= Left(v)[7] /\ 8 * Left(v)[9] <= Left(v)[8]
        /\ 8 * Left(v)[10] <= Left(v)[9] /\ 8 * Left(v)[11] <= Left(v)[10]
    BY <2>1, LeftIs
  <2>3. \A k \in 0 .. 11 : Left(v)[k] \in Nat
    BY LeftIs
  <2> QED BY <2>2, <2>3, SMT DEF Widest
<1>2. Nibbles(v) = Min(S)
  BY DEF Nibbles
<1>3. S \subseteq Nat /\ S # {} /\ S \subseteq 1 .. 11
  BY <1>1
<1>4. Nibbles(v) \in S /\ \A k \in S : Nibbles(v) <= k
  <2> HIDE DEF S
  <2> QED BY <1>2, <1>3, MinIs
<1>5. Nibbles(v) \in 1 .. 11 /\ Left(v)[Nibbles(v)] = 0
  BY <1>4
<1>6. \A k \in 1 .. Nibbles(v) - 1 : Left(v)[k] > 0
  <2> TAKE k \in 1 .. Nibbles(v) - 1
  <2>1. k \in 1 .. 11 /\ k \notin S
    BY <1>4, <1>5
  <2>2. Left(v)[k] \in Nat /\ Left(v)[k] # 0
    BY <2>1, LeftIs
  <2> QED BY <2>2
<1>7. Left(v)[Nibbles(v) - 1] < 8
  <2>1. Left(v)[Nibbles(v)] = Left(v)[Nibbles(v) - 1] \div 8 /\ Left(v)[Nibbles(v) - 1] \in Nat
    BY <1>5, LeftIs
  <2> QED BY <2>1, <1>5
<1> QED BY <1>5, <1>6, <1>7

LEMMA NibblesOrder ==
  ASSUME NEW v \in Nat, NEW w \in Nat, v <= w, w < Widest
  PROVE  Nibbles(v) <= Nibbles(w)
<1>1. Nibbles(w) \in 1 .. 11 /\ Left(w)[Nibbles(w)] = 0
  BY NibblesAre
<1>2. Left(v)[Nibbles(w)] = 0
  <2> DEFINE k == Nibbles(w)
  <2>0. k \in 0 .. 11
    BY <1>1
  <2>1. Left(v)[k] <= Left(w)[k] /\ Left(v)[k] \in Nat
    <3> HIDE DEF k
    <3>1. \A j \in 0 .. 11 : Left(v)[j] <= Left(w)[j]
      BY LeftOrder
    <3>2. \A j \in 0 .. 11 : Left(v)[j] \in Nat
      BY LeftIs
    <3> QED BY <2>0, <3>1, <3>2
  <2> QED BY <2>1, <1>1
<1>0. v < Widest
  BY DEF Widest
<1>3. Nibbles(v) \in 1 .. 11 /\ \A k \in 1 .. Nibbles(v) - 1 : Left(v)[k] > 0
  BY <1>0, NibblesAre
<1> QED BY <1>1, <1>2, <1>3

LEMMA VleIs ==
  ASSUME NEW v \in Nat, v < Widest
  PROVE  /\ encode_rvl_vle(v) \in Seq(0 .. 15) /\ Len(encode_rvl_vle(v)) = Nibbles(v)
         /\ \A i \in 1 .. Nibbles(v) :
              encode_rvl_vle(v)[i] = (Left(v)[i - 1] % 8) + (IF i < Nibbles(v) THEN 8 ELSE 0)
<1>1. Nibbles(v) \in Nat /\ Nibbles(v) \in 1 .. 11
  BY NibblesAre
<1>2. \A i \in 1 .. Nibbles(v) : (Left(v)[i - 1] % 8) + (IF i < Nibbles(v) THEN 8 ELSE 0) \in 0 .. 15
  <2> TAKE i \in 1 .. Nibbles(v)
  <2>0. i - 1 \in 0 .. 11
    BY <1>1
  <2>1. Left(v)[i - 1] \in Nat
    BY <2>0, LeftIs
  <2> QED BY <2>1
<1> QED BY <1>1, <1>2 DEF encode_rvl_vle

(* What stands at a place of a stream: these nibbles. *)
At(sent, pos, part) ==
  /\ pos \in Nat \ {0} /\ pos + Len(part) - 1 <= Len(sent)
  /\ \A i \in 1 .. Len(part) : sent[pos + i - 1] = part[i]

(* The nibbles of an integer from pos to last, of which M[i] is left at i. *)
IsWritten(sent, pos, last, M) ==
  /\ M \in [pos .. last -> Nat] /\ M[last] < 8
  /\ \A i \in pos .. last - 1 : M[i + 1] = M[i] \div 8
  /\ \A i \in pos .. last : sent[i] = (M[i] % 8) + (IF i = last THEN 0 ELSE 8)

LEMMA LastNibble ==
  ASSUME NEW sent, NEW pos \in Nat, NEW last \in Nat, pos <= last, NEW M, IsWritten(sent, pos, last, M),
         Len(sent) \in Nat, last <= Len(sent)
  PROVE  LET lasts == {i \in pos .. Len(sent) : sent[i] < 8} IN lasts # {} /\ Min(lasts) = last
<1> DEFINE lasts == {i \in pos .. Len(sent) : sent[i] < 8}
<1>1. last \in lasts
  BY DEF IsWritten
<1>2. \A i \in lasts : last <= i
  <2> SUFFICES ASSUME NEW i \in pos .. Len(sent), i < last PROVE ~ (sent[i] < 8)
    OBVIOUS
  <2>1. M[i] \in Nat /\ sent[i] = (M[i] % 8) + 8
    BY DEF IsWritten
  <2> QED BY <2>1
<1>3. lasts \subseteq Nat
  OBVIOUS
<1> HIDE DEF lasts
<1>4. Min(lasts) \in lasts /\ \A y \in lasts : Min(lasts) <= y
  BY <1>1, <1>3, MinIs
<1>5. Min(lasts) \in Nat /\ Min(lasts) <= last /\ last <= Min(lasts)
  BY <1>1, <1>2, <1>3, <1>4
<1>6. Min(lasts) = last
  BY <1>5
<1> QED BY <1>1, <1>6 DEF lasts

LEMMA WholeValue ==
  ASSUME NEW sent, NEW pos \in Nat, NEW last \in Nat, pos <= last, NEW M, IsWritten(sent, pos, last, M)
  PROVE  LET value[i \in pos .. last] == (sent[i] % 8) + (IF i = last THEN 0 ELSE 8 * value[i + 1])
         IN  value[pos] = M[pos]
<1> DEFINE P(f) == f = [i \in pos .. last |-> (sent[i] % 8) + (IF i = last THEN 0 ELSE 8 * f[i + 1])]
           value == CHOOSE f : P(f)
<1>1. \A i \in pos .. last : M[i] = (sent[i] % 8) + (IF i = last THEN 0 ELSE 8 * M[i + 1])
  <2> TAKE i \in pos .. last
  <2>1. M[i] \in Nat /\ sent[i] = (M[i] % 8) + (IF i = last THEN 0 ELSE 8)
    BY DEF IsWritten
  <2>2. CASE i = last
    <3>1. M[i] < 8
      BY <2>2 DEF IsWritten
    <3>2. sent[i] = M[i] % 8
      BY <2>1, <2>2
    <3> QED BY <2>1, <2>2, <3>1, <3>2
  <2>3. CASE i # last
    <3>1. i \in pos .. last - 1
      BY <2>3
    <3>2. M[i + 1] = M[i] \div 8
      BY <3>1 DEF IsWritten
    <3> QED BY <2>1, <2>3, <3>2
  <2> QED BY <2>2, <2>3
<1>2. M = [i \in pos .. last |-> M[i]]
  BY DEF IsWritten
<1>3. P(M)
  BY <1>1, <1>2
<1>4. P(value)
  <2> HIDE DEF P
  <2> QED BY <1>3
<1>5. \A i \in pos .. last : value[i] = (sent[i] % 8) + (IF i = last THEN 0 ELSE 8 * value[i + 1])
  <2> HIDE DEF value
  <2> QED BY <1>4
<1> DEFINE S == {k \in 0 .. last - pos : value[last - k] = M[last - k]}
<1> HIDE DEF value
<1>6. 0 \in S
  BY <1>1, <1>5
<1>7. ASSUME NEW k \in 0 .. (last - pos) - 1, k \in S PROVE k + 1 \in S
  <2>1. last - (k + 1) \in pos .. last /\ last - (k + 1) # last /\ (last - (k + 1)) + 1 = last - k
        /\ k + 1 \in 0 .. last - pos
    OBVIOUS
  <2> QED BY <1>1, <1>5, <1>7, <2>1
<1>8. \A k \in 0 .. last - pos : k \in S
  <2> HIDE DEF S
  <2>1. last - pos \in Nat
    OBVIOUS
  <2> QED BY <1>6, <1>7, <2>1, UpTo
<1>9. last - pos \in S
  <2> HIDE DEF S
  <2> QED BY <1>8
<1> QED BY <1>9 DEF value

(* An integer is read as it was written. *)
LEMMA ReadsVle ==
  ASSUME NEW v \in Nat, v < IntLimit, NEW sent \in Seq(0 .. 15), NEW pos, At(sent, pos, encode_rvl_vle(v))
  PROVE  decode_vle(sent, pos) = [value |-> v, pos |-> pos + Nibbles(v), ok |-> TRUE]
<1> DEFINE n == Nibbles(v)
           last == pos + n - 1
           M == [i \in pos .. last |-> Left(v)[i - pos]]
<1>0. v < Widest /\ IntLimit - 1 \in Nat /\ v <= IntLimit - 1 /\ IntLimit - 1 < Widest
  BY LimitIs DEF Widest
<1>1. n \in 1 .. 11 /\ Left(v)[n - 1] < 8
  BY <1>0, NibblesAre
<1>2. pos \in Nat \ {0} /\ last <= Len(sent) /\ Len(sent) \in Nat
      /\ \A i \in 1 .. n : sent[pos + i - 1] = (Left(v)[i - 1] % 8) + (IF i < n THEN 8 ELSE 0)
  BY <1>0, VleIs DEF At
<1> HIDE DEF n
<1>3. last \in Nat /\ pos <= last /\ last - pos = n - 1
  BY <1>1, <1>2
<1>4. IsWritten(sent, pos, last, M)
  <2> DEFINE L == Left(v)
  <2>1. L \in [0 .. 11 -> Nat] /\ \A k \in 1 .. 11 : L[k] = L[k - 1] \div 8
    BY LeftIs
  <2>2. L[n - 1] < 8 /\ \A i \in 1 .. n : sent[pos + i - 1] = (L[i - 1] % 8) + (IF i < n THEN 8 ELSE 0)
    BY <1>1, <1>2
  <2>3. M = [i \in pos .. last |-> L[i - pos]]
    OBVIOUS
  <2> HIDE DEF L, M
  <2>4. \A i \in pos .. last : i - pos \in 0 .. 11 /\ i - pos + 1 \in 1 .. n /\ pos + (i - pos + 1) - 1 = i
                               /\ (i - pos + 1) - 1 = i - pos
    BY <1>1, <1>2
  <2>5. M \in [pos .. last -> Nat] /\ M[last] < 8
    <3>1. \A i \in pos .. last : L[i - pos] \in Nat
      BY <2>1, <2>4
    <3>2. last \in pos .. last /\ last - pos = n - 1
      BY <1>3, <1>2
    <3> HIDE DEF last
    <3> QED BY <2>2, <2>3, <3>1, <3>2
  <2>6. ASSUME NEW i \in pos .. last - 1 PROVE M[i + 1] = M[i] \div 8
    <3>1. i + 1 \in pos .. last /\ i \in pos .. last /\ (i + 1) - pos \in 1 .. 11
          /\ ((i + 1) - pos) - 1 = i - pos
      BY <1>1, <1>2
    <3>2. L[(i + 1) - pos] = L[i - pos] \div 8
      BY <2>1, <3>1
    <3> QED BY <2>3, <3>1, <3>2
  <2>7. ASSUME NEW i \in pos .. last PROVE sent[i] = (M[i] % 8) + (IF i = last THEN 0 ELSE 8)
    <3>1. sent[pos + (i - pos + 1) - 1] = (L[(i - pos + 1) - 1] % 8) + (IF i - pos + 1 < n THEN 8 ELSE 0)
      BY <2>2, <2>4
    <3>2. sent[i] = (L[i - pos] % 8) + (IF i - pos + 1 < n THEN 8 ELSE 0)
      BY <2>4, <3>1
    <3>3. (i - pos + 1 < n) <=> i # last
      BY <1>1, <1>2
    <3> QED BY <2>3, <3>2, <3>3
  <2> QED BY <2>5, <2>6, <2>7 DEF IsWritten
<1>5. M[pos] = v
  BY <1>2, <1>3, LeftIs
<1> HIDE DEF M
<1> DEFINE lasts == {i \in pos .. Len(sent) : sent[i] < 8}
           P(f) == f = [i \in pos .. last |-> (sent[i] % 8) + (IF i = last THEN 0 ELSE 8 * f[i + 1])]
           value == CHOOSE f : P(f)
<1> HIDE DEF last
<1>6. lasts # {} /\ Min(lasts) = last
  BY <1>2, <1>3, <1>4, LastNibble
<1>7. value[pos] = v
  BY <1>2, <1>3, <1>4, <1>5, WholeValue
<1>8. ~ (last - pos >= Nibbles(IntLimit - 1))
  <2>1. n <= Nibbles(IntLimit - 1)
    BY <1>0, NibblesOrder DEF n
  <2>2. Nibbles(IntLimit - 1) \in 1 .. 11
    BY <1>0, NibblesAre
  <2> QED BY <1>1, <1>3, <2>1, <2>2
<1>9. decode_vle(sent, pos)
         = IF lasts = {} \/ last - pos >= Nibbles(IntLimit - 1) THEN [value |-> 0, pos |-> pos, ok |-> FALSE]
           ELSE [value |-> value[pos] % IntLimit, pos |-> last + 1, ok |-> TRUE]
  BY <1>6, Zenon DEF decode_vle
<1>10. v % IntLimit = v
  BY LimitIs
<1>11. last + 1 = pos + n
  BY <1>1, <1>2 DEF last
<1> HIDE DEF value, lasts
<1> QED BY <1>6, <1>7, <1>8, <1>9, <1>10, <1>11 DEF n

(* Where the parts of a flattened sequence are: the k-th after off[k - 1]. *)
Places(off, n, seqs, flat) ==
  /\ off \in [0 .. n -> Nat] /\ off[0] = 0 /\ off[n] = Len(flat)
  /\ \A k \in 1 .. n : off[k] = off[k - 1] + Len(seqs[k]) /\ off[k] <= Len(flat)
  /\ \A k \in 1 .. n : \A j \in 1 .. Len(seqs[k]) : flat[off[k - 1] + j] = seqs[k][j]

LEMMA Concat ==
  ASSUME NEW T, NEW a \in Seq(T), NEW b \in Seq(T)
  PROVE  /\ a \o b \in Seq(T) /\ Len(a \o b) = Len(a) + Len(b) /\ Len(a) \in Nat /\ Len(b) \in Nat
         /\ \A i \in 1 .. Len(a) : (a \o b)[i] = a[i]
         /\ \A j \in 1 .. Len(b) : (a \o b)[Len(a) + j] = b[j]
<1>1. Len(a) \in Nat /\ Len(b) \in Nat
  OBVIOUS
<1>2. \A i \in 1 .. Len(a) + Len(b) : (a \o b)[i] = IF i <= Len(a) THEN a[i] ELSE b[i - Len(a)]
  BY ConcatProperties
<1>3. ASSUME NEW j \in 1 .. Len(b) PROVE (a \o b)[Len(a) + j] = b[j]
  <2>1. Len(a) + j \in 1 .. Len(a) + Len(b) /\ ~ (Len(a) + j <= Len(a)) /\ (Len(a) + j) - Len(a) = j
    BY <1>1
  <2> QED BY <1>2, <2>1
<1>4. ASSUME NEW i \in 1 .. Len(a) PROVE (a \o b)[i] = a[i]
  <2>1. i \in 1 .. Len(a) + Len(b) /\ i <= Len(a)
    BY <1>1
  <2> QED BY <1>2, <2>1
<1> QED BY <1>1, <1>3, <1>4, ConcatProperties

LEMMA FlatPlaces ==
  ASSUME NEW T, NEW n \in Nat \ {0}, NEW seqs \in [1 .. n -> Seq(T)]
  PROVE  \E off : Places(off, n, seqs, FlattenSeq(seqs))
<1>1. PICK f : Concatenates(f, T, n, seqs) /\ FlattenSeq(seqs) = f[n]
  BY Flat
<1>0. PICK off : off = [k \in 0 .. n |-> IF k = 0 THEN 0 ELSE Len(f[k])]
  OBVIOUS
<1>2. \A k \in 1 .. n : f[k] \in Seq(T) /\ seqs[k] \in Seq(T) /\ Len(seqs[k]) \in Nat
  BY <1>1 DEF Concatenates
<1>3. off \in [0 .. n -> Nat] /\ off[0] = 0 /\ off[n] = Len(f[n])
  BY <1>0, <1>2
<1>4. \A k \in 1 .. n : off[k] = Len(f[k])
  BY <1>0
<1>5. \A k \in 1 .. n : off[k] = off[k - 1] + Len(seqs[k])
  <2> TAKE k \in 1 .. n
  <2>1. CASE k = 1
    BY <2>1, <1>1, <1>2, <1>3, <1>4 DEF Concatenates
  <2>2. CASE k # 1
    <3>1. k - 1 \in 1 .. n - 1 /\ k - 1 \in 1 .. n /\ (k - 1) + 1 = k
      BY <2>2
    <3>2. f[k] = f[k - 1] \o seqs[k]
      BY <1>1, <3>1 DEF Concatenates
    <3>3. Len(f[k]) = Len(f[k - 1]) + Len(seqs[k])
      BY <1>2, <3>1, <3>2, ConcatProperties
    <3> QED BY <1>4, <3>1, <3>3
  <2> QED BY <2>1, <2>2
<1>20. PICK len : len = [k \in 1 .. n |-> Len(seqs[k])]
  OBVIOUS
<1>21. \A k \in 1 .. n : len[k] \in Nat /\ Len(seqs[k]) = len[k] /\ off[k] = off[k - 1] + len[k]
  BY <1>2, <1>5, <1>20
<1> DEFINE Placed(m, k) == off[k] <= off[m] /\ \A j \in 1 .. len[k] : f[m][off[k - 1] + j] = seqs[k][j]
           S == {m \in 1 .. n : \A k \in 1 .. m : Placed(m, k)}
<1>6. 1 \in S
  <2>1. f[1] = seqs[1] /\ 1 \in 1 .. n
    BY <1>1 DEF Concatenates
  <2>2. Placed(1, 1)
    BY <1>2, <1>3, <1>21, <2>1
  <2> HIDE DEF Placed
  <2> QED BY <2>1, <2>2
<1>7. ASSUME NEW m \in 1 .. n - 1, m \in S PROVE m + 1 \in S
  <2>1. m + 1 \in 1 .. n /\ m \in 1 .. n /\ (m + 1) - 1 = m
    OBVIOUS
  <2>2. f[m + 1] = f[m] \o seqs[m + 1]
    BY <1>1 DEF Concatenates
  <2>3. off[m + 1] = off[m] + len[m + 1] /\ off[m] \in Nat /\ off[m] = Len(f[m]) /\ len[m + 1] \in Nat
    <3>1. off[m + 1] = off[(m + 1) - 1] + len[m + 1] /\ len[m + 1] \in Nat
      BY <1>21, <2>1
    <3>2. off[m] \in Nat /\ off[m] = Len(f[m])
      BY <1>3, <1>4, <2>1
    <3> QED BY <2>1, <3>1, <3>2
  <2>4. /\ \A i \in 1 .. Len(f[m]) : f[m + 1][i] = f[m][i]
        /\ \A j \in 1 .. len[m + 1] : f[m + 1][Len(f[m]) + j] = seqs[m + 1][j]
    <3> DEFINE a == f[m]  b == seqs[m + 1]
    <3>1. a \in Seq(T) /\ b \in Seq(T) /\ f[m + 1] = a \o b
      BY <1>2, <2>1, <2>2
    <3> HIDE DEF a, b
    <3>2. /\ \A i \in 1 .. Len(a) : f[m + 1][i] = a[i]
          /\ \A j \in 1 .. Len(b) : f[m + 1][Len(a) + j] = b[j]
      BY <3>1, Concat
    <3>3. Len(b) = len[m + 1]
      BY <1>21, <2>1 DEF b
    <3> QED BY <3>2, <3>3 DEF a, b
  <2>6. ASSUME NEW k \in 1 .. m + 1 PROVE Placed(m + 1, k)
    <3>1. CASE k = m + 1
      BY <2>1, <2>3, <2>4, <3>1
    <3>2. CASE k # m + 1
      <4>1. k \in 1 .. m /\ k \in 1 .. n /\ k - 1 \in 0 .. n
        BY <3>2
      <4>2. Placed(m, k)
        BY <1>7, <4>1
      <4>3. off[k] \in Nat /\ off[k - 1] \in Nat /\ off[k] = off[k - 1] + len[k] /\ len[k] \in Nat
        BY <1>2, <1>3, <1>21, <4>1
      <4>4. off[k] <= off[m + 1]
        BY <2>3, <4>2, <4>3
      <4>5. ASSUME NEW j \in 1 .. len[k] PROVE f[m + 1][off[k - 1] + j] = seqs[k][j]
        <5>1. off[k - 1] + j \in 1 .. off[m]
          <6>1. off[k] <= off[m]
            BY <4>2
          <6>2. \A a, b, c, d \in Nat : a + c <= d /\ b \in 1 .. c => a + b \in 1 .. d
            OBVIOUS
          <6>3. off[k - 1] + len[k] <= off[m]
            BY <6>1, <4>3
          <6>4. j \in Nat
            OBVIOUS
          <6> QED BY <6>2, <6>3, <6>4, <4>3, <2>3
        <5>2. f[m + 1][off[k - 1] + j] = f[m][off[k - 1] + j]
          BY <2>3, <2>4, <5>1
        <5> QED BY <4>2, <5>2
      <4> QED BY <4>4, <4>5
    <3> QED BY <3>1, <3>2
  <2> HIDE DEF Placed
  <2> QED BY <2>1, <2>6
<1>8. \A m \in 1 .. n : m \in S
  <2> HIDE DEF S
  <2> QED BY <1>6, <1>7, From1
<1>9. \A k \in 1 .. n : Placed(n, k)
  <2>1. n \in S
    <3> HIDE DEF S
    <3> QED BY <1>8
  <2> HIDE DEF Placed
  <2> QED BY <2>1
<1>10. \A k \in 1 .. n : off[k] <= Len(f[n]) /\ \A j \in 1 .. Len(seqs[k]) : f[n][off[k - 1] + j] = seqs[k][j]
  BY <1>3, <1>9, <1>21
<1>11. Places(off, n, seqs, f[n])
  BY <1>3, <1>5, <1>10 DEF Places
<1> QED BY <1>1, <1>11

(* The pixels of an image. *)
Pixels(values, n) ==
  /\ n \in Nat \ {0} /\ n < IntLimit
  /\ values \in [1 .. n -> 0 .. U16Max]

LEMMA U16Is == U16Max \in Nat /\ 2 * U16Max + 1 < IntLimit
BY LimitIs, SMT DEF U16Max

LEMMA PixelsAre ==
  ASSUME NEW values, NEW n, Pixels(values, n)
  PROVE  /\ n \in Nat \ {0} /\ n < IntLimit /\ n < Widest
         /\ values \in Seq(0 .. U16Max) /\ Len(values) = n /\ DOMAIN values = 1 .. n
         /\ \A k \in 1 .. n : values[k] \in 0 .. U16Max
<1>1. n \in Nat \ {0} /\ n < IntLimit /\ values \in [1 .. n -> 0 .. U16Max]
  BY DEF Pixels
<1>2. n < Widest
  <2>1. n \in Nat /\ n < IntLimit
    BY <1>1
  <2> QED BY <2>1, LimitIs, SMT DEF Widest
<1>3. values \in Seq(0 .. U16Max)
  <2> DEFINE S == 0 .. U16Max
  <2>1. n \in Nat /\ values \in [1 .. n -> S]
    BY <1>1
  <2> HIDE DEF S
  <2>2. values \in Seq(S)
    BY <2>1, SeqDef
  <2> QED BY <2>2 DEF S
<1>4. Len(values) = n
  BY <1>1, <1>3, LenProperties
<1> QED BY <1>1, <1>2, <1>3, <1>4

LEMMA DepthIs ==
  ASSUME NEW values, NEW n, Pixels(values, n), NEW k
  PROVE  /\ Missing(values, k) <=> k \in 1 .. n /\ values[k] = 0
         /\ Known(values, k) <=> k \in 1 .. n /\ values[k] # 0
         /\ k \in 1 .. n => (Missing(values, k) <=> ~ Known(values, k))
         /\ Missing(values, k) => ~ Known(values, k)
<1>1. DOMAIN values = 1 .. n
  BY PixelsAre
<1> QED BY <1>1 DEF Missing, Known

(* A round from a pixel: missing depths up to z, others up to e. *)
Round(values, n, i, z, e) ==
  /\ z \in i .. n + 1 /\ e \in z .. n + 1
  /\ \A k \in i .. z - 1 : Missing(values, k)
  /\ \A k \in z .. e - 1 : Known(values, k)
  /\ ~ Missing(values, z) /\ ~ Known(values, e)

LEMMA RoundIs ==
  ASSUME NEW values, NEW n, Pixels(values, n), NEW i \in 1 .. n
  PROVE  Round(values, n, i, ZerosEnd(values, i), RunEnd(values, i))
<1> DEFINE z == ZerosEnd(values, i)
           e == RunEnd(values, i)
           Z == {k \in i .. n + 1 : ~ Missing(values, k)}
<1>1. n \in Nat /\ Len(values) = n
  BY PixelsAre
<1>2. z = Min(Z)
  BY <1>1 DEF ZerosEnd
<1>0. ~ Missing(values, n + 1) /\ ~ Known(values, n + 1)
  <2>1. n + 1 \notin 1 .. n
    BY <1>1
  <2> QED BY <2>1, DepthIs
<1>3. n + 1 \in Z /\ Z \subseteq Nat
  BY <1>1, <1>0
<1>4. z \in Z /\ \A y \in Z : z <= y
  <2> HIDE DEF Z, z
  <2> QED BY <1>2, <1>3, MinIs
<1>5. z \in i .. n + 1 /\ ~ Missing(values, z) /\ \A k \in i .. z - 1 : Missing(values, k)
  <2> HIDE DEF z
  <2>1. z \in i .. n + 1 /\ ~ Missing(values, z)
    BY <1>4
  <2>2. ASSUME NEW k \in i .. z - 1 PROVE Missing(values, k)
    <3>1. k \in i .. n + 1 /\ k < z
      BY <1>1, <2>1
    <3>2. k \notin Z
      BY <1>4, <2>1, <3>1
    <3> QED BY <3>1, <3>2
  <2> QED BY <2>1, <2>2
<1> HIDE DEF z, Z
<1> DEFINE E == {k \in z .. n + 1 : ~ Known(values, k)}
<1>6. e = Min(E)
  BY <1>1 DEF RunEnd, z
<1>7. n + 1 \in E /\ E \subseteq Nat
  BY <1>1, <1>0, <1>5
<1>8. e \in E /\ \A y \in E : e <= y
  <2> HIDE DEF E, e
  <2> QED BY <1>6, <1>7, MinIs
<1>9. e \in z .. n + 1 /\ ~ Known(values, e) /\ \A k \in z .. e - 1 : Known(values, k)
  <2> HIDE DEF e
  <2>1. e \in z .. n + 1 /\ ~ Known(values, e)
    BY <1>8
  <2>2. ASSUME NEW k \in z .. e - 1 PROVE Known(values, k)
    <3>1. k \in z .. n + 1 /\ k < e
      BY <1>1, <1>5, <2>1
    <3>2. k \notin E
      BY <1>5, <1>8, <2>1, <3>1
    <3> QED BY <3>1, <3>2
  <2> QED BY <2>1, <2>2
<1> QED BY <1>5, <1>9 DEF Round, z

(* A round is never empty, the next starts where it ends, and within it none does. *)
LEMMA RoundTurns ==
  ASSUME NEW values, NEW n, Pixels(values, n), NEW i \in 1 .. n, NEW z, NEW e, Round(values, n, i, z, e)
  PROVE  /\ z \in Nat /\ e \in Nat /\ i <= z /\ z <= e /\ i < e /\ e <= n + 1
         /\ e <= n => Starts(values, e)
         /\ \A k \in i + 1 .. e - 1 : ~ Starts(values, k)
         /\ e = z => z = n + 1
<1>1. n \in Nat /\ i \in Nat /\ z \in i .. n + 1 /\ e \in z .. n + 1
  BY PixelsAre DEF Round
<1>2. \A k \in 1 .. n : Missing(values, k) <=> ~ Known(values, k)
  BY DepthIs
<1>3. z <= n => Known(values, z)
  BY <1>1, <1>2 DEF Round
<1>4. e <= n => Missing(values, e)
  BY <1>1, <1>2 DEF Round
<1>5. e = z => z = n + 1
  BY <1>1, <1>2, <1>3, <1>4
<1>6. i < e
  BY <1>1, <1>5
<1>7. e <= n => Starts(values, e)
  <2> SUFFICES ASSUME e <= n PROVE Starts(values, e)
    OBVIOUS
  <2>1. e - 1 \in z .. e - 1
    BY <1>1, <1>5
  <2> QED BY <2>1, <1>4 DEF Round, Starts
<1>8. ASSUME NEW k \in i + 1 .. e - 1 PROVE ~ Starts(values, k)
  <2>1. k \in 1 .. n /\ k # 1
    BY <1>1
  <2>2. CASE k <= z
    <3>1. k - 1 \in i .. z - 1 /\ k - 1 \in 1 .. n
      BY <1>1, <2>2
    <3>2. Missing(values, k - 1)
      BY <3>1 DEF Round
    <3> QED BY <1>2, <2>1, <3>1, <3>2 DEF Starts
  <2>3. CASE k > z
    <3>1. k \in z .. e - 1
      BY <1>1, <2>3
    <3>2. Known(values, k)
      BY <3>1 DEF Round
    <3> QED BY <1>2, <2>1, <3>2 DEF Starts
  <2> QED BY <1>1, <2>2, <2>3
<1> QED BY <1>1, <1>5, <1>6, <1>7, <1>8

(* The difference is from the depth before. *)
LEMMA PreviousIs ==
  ASSUME NEW values, NEW n, Pixels(values, n)
  PROVE  /\ Previous(values, 1) = 0
         /\ \A k \in 1 .. n + 1 : Previous(values, k) \in 0 .. U16Max
         /\ \A k \in 1 .. n : Known(values, k) => Previous(values, k + 1) = values[k]
         /\ \A i, z \in 1 .. n + 1 : i <= z
            /\ (\A k \in i .. z - 1 : Missing(values, k)) => Previous(values, z) = Previous(values, i)
<1> DEFINE Before(i) == {k \in 1 .. i - 1 : Known(values, k)}
<1>1. n \in Nat
  BY PixelsAre
<1>2. \A i : Previous(values, i) = IF Before(i) = {} THEN 0 ELSE values[Max(Before(i))]
  BY DEF Previous
<1>3. Before(1) = {}
  OBVIOUS
<1>4. ASSUME NEW i \in 1 .. n + 1, Before(i) # {}
      PROVE  Max(Before(i)) \in Before(i) /\ \A y \in Before(i) : y <= Max(Before(i))
  <2>1. Before(i) \subseteq 0 .. i /\ i \in Nat
    BY <1>1
  <2> HIDE DEF Before
  <2> QED BY <1>4, <2>1, MaxIs
<1>5. ASSUME NEW i \in 1 .. n + 1 PROVE Previous(values, i) \in 0 .. U16Max
  <2>1. CASE Before(i) = {}
    <3>1. Previous(values, i) = 0
      <4> HIDE DEF Before
      <4> QED BY <1>2, <2>1
    <3> QED BY <3>1, U16Is
  <2>2. CASE Before(i) # {}
    <3>1. Max(Before(i)) \in Before(i)
      BY <1>4, <2>2
    <3>2. Max(Before(i)) \in 1 .. n
      BY <3>1, PixelsAre
    <3> HIDE DEF Before
    <3> QED BY <1>2, <2>2, <3>2, PixelsAre
  <2> QED BY <2>1, <2>2
<1>6. ASSUME NEW k \in 1 .. n, Known(values, k) PROVE Previous(values, k + 1) = values[k]
  <2>1. k + 1 \in 1 .. n + 1 /\ k \in Before(k + 1) /\ \A y \in Before(k + 1) : y \in Nat /\ y <= k
    BY <1>1, <1>6
  <2>2. Max(Before(k + 1)) \in Before(k + 1) /\ k <= Max(Before(k + 1))
    <3> HIDE DEF Before
    <3> QED BY <1>4, <2>1
  <2> HIDE DEF Before
  <2>3. Max(Before(k + 1)) \in Nat /\ Max(Before(k + 1)) <= k
    BY <2>1, <2>2
  <2>4. Max(Before(k + 1)) = k
    BY <2>2, <2>3
  <2> QED BY <1>2, <2>1, <2>4
<1>7. ASSUME NEW i \in 1 .. n + 1, NEW z \in 1 .. n + 1, i <= z, \A k \in i .. z - 1 : Missing(values, k)
      PROVE  Previous(values, z) = Previous(values, i)
  <2>1. Before(z) = Before(i)
    <3>1. ASSUME NEW k \in Before(z) PROVE k \in Before(i)
      <4>1. k \in 1 .. z - 1 /\ Known(values, k)
        BY <3>1
      <4>2. ~ Missing(values, k)
        BY <4>1, DepthIs
      <4>3. k \notin i .. z - 1
        BY <1>7, <4>2
      <4> QED BY <1>1, <4>1, <4>3
    <3>2. ASSUME NEW k \in Before(i) PROVE k \in Before(z)
      BY <1>1, <1>7, <3>2
    <3> QED BY <3>1, <3>2
  <2> HIDE DEF Before
  <2> QED BY <1>2, <2>1
<1> QED BY <1>2, <1>3, <1>5, <1>6, <1>7

(* A difference comes back from its encoding. *)
LEMMA ZigzagIs ==
  ASSUME NEW d \in Int, -U16Max <= d, d <= U16Max
  PROVE  zigzag(d) \in Nat /\ zigzag(d) < IntLimit /\ decode_zigzag_delta(zigzag(d)) = d
<1>0. U16Max \in Nat /\ 2 * U16Max + 1 < IntLimit /\ IntLimit \in Nat
  BY U16Is, LimitIs
<1>1. CASE d >= 0
  <2>1. zigzag(d) = 2 * d
    BY <1>1 DEF zigzag
  <2>2. (2 * d) % 2 = 0 /\ (2 * d) \div 2 = d /\ 2 * d \in Nat /\ 2 * d < IntLimit
    BY <1>0, <1>1
  <2> QED BY <2>1, <2>2 DEF decode_zigzag_delta
<1>2. CASE ~ (d >= 0)
  <2>1. zigzag(d) = -2 * d - 1
    BY <1>2 DEF zigzag
  <2>2. (-2 * d - 1) % 2 = 1 /\ (-2 * d - 1) \div 2 = -d - 1 /\ -2 * d - 1 \in Nat /\ -2 * d - 1 < IntLimit
    BY <1>0, <1>2
  <2> QED BY <2>1, <2>2 DEF decode_zigzag_delta
<1> QED BY <1>1, <1>2

(* What stands there in parts. *)
LEMMA AtParts ==
  ASSUME NEW T, NEW sent \in Seq(T), NEW a \in Seq(T), NEW b \in Seq(T), NEW pos, At(sent, pos, a \o b)
  PROVE  At(sent, pos, a) /\ (Len(b) >= 0 => At(sent, pos + Len(a), b))
<1>1. PICK la \in Nat, lb \in Nat : la = Len(a) /\ lb = Len(b) /\ Len(a \o b) = la + lb
  BY Concat
<1>2. pos \in Nat \ {0} /\ pos + (la + lb) - 1 <= Len(sent) /\ Len(sent) \in Nat
  BY <1>1 DEF At
<1>3. \A i \in 1 .. la + lb : sent[pos + i - 1] = (a \o b)[i]
  BY <1>1 DEF At
<1>4. ASSUME NEW i \in 1 .. la PROVE sent[pos + i - 1] = a[i]
  <2>1. i \in 1 .. la + lb
    OBVIOUS
  <2>2. (a \o b)[i] = a[i]
    BY <1>1, Concat
  <2> QED BY <2>1, <2>2, <1>3
<1>5. ASSUME NEW j \in 1 .. lb PROVE sent[(pos + la) + j - 1] = b[j]
  <2>1. la + j \in 1 .. la + lb /\ pos + (la + j) - 1 = (pos + la) + j - 1
    BY <1>2
  <2>2. (a \o b)[la + j] = b[j]
    BY <1>1, Concat
  <2> QED BY <2>1, <2>2, <1>3
<1>6. pos + la - 1 <= Len(sent) /\ pos + la \in Nat \ {0} /\ (pos + la) + lb - 1 <= Len(sent)
  BY <1>2
<1> QED BY <1>1, <1>2, <1>4, <1>5, <1>6 DEF At

(* Each round begins with its runs; each known depth is a difference. *)
RunsNibbles(values, i) ==
  IF Starts(values, i)
  THEN encode_rvl_vle(ZerosEnd(values, i) - i) \o encode_rvl_vle(RunEnd(values, i) - ZerosEnd(values, i))
  ELSE <<>>

Difference(values, i) == zigzag(values[i] - Previous(values, i))

DifferenceNibbles(values, i) == IF Known(values, i) THEN encode_rvl_vle(Difference(values, i)) ELSE <<>>

LEMMA DifferenceIs ==
  ASSUME NEW values, NEW n, Pixels(values, n), NEW i \in 1 .. n
  PROVE  /\ Difference(values, i) \in Nat /\ Difference(values, i) < IntLimit
         /\ Difference(values, i) < Widest
         /\ Previous(values, i) + decode_zigzag_delta(Difference(values, i)) = values[i]
<1> DEFINE p == Previous(values, i)  v == values[i]
<1>1. n \in Nat /\ i \in 1 .. n + 1
  BY PixelsAre
<1>2. p \in 0 .. U16Max /\ v \in 0 .. U16Max
  BY <1>1, PreviousIs, PixelsAre
<1>3. Difference(values, i) = zigzag(v - p)
  BY DEF Difference
<1> HIDE DEF p, v
<1>4. v - p \in Int /\ -U16Max <= v - p /\ v - p <= U16Max /\ p + (v - p) = v
  BY <1>2, U16Is
<1>5. zigzag(v - p) \in Nat /\ zigzag(v - p) < IntLimit /\ decode_zigzag_delta(zigzag(v - p)) = v - p
  BY <1>4, ZigzagIs
<1>6. zigzag(v - p) < Widest
  BY <1>5, LimitIs, SMT DEF Widest
<1> QED BY <1>3, <1>4, <1>5, <1>6 DEF p, v

LEMMA PixelNibblesAre ==
  ASSUME NEW values, NEW n, Pixels(values, n), NEW i \in 1 .. n
  PROVE  /\ PixelNibbles(values, i) = RunsNibbles(values, i) \o DifferenceNibbles(values, i)
         /\ RunsNibbles(values, i) \in Seq(0 .. 15) /\ DifferenceNibbles(values, i) \in Seq(0 .. 15)
         /\ PixelNibbles(values, i) \in Seq(0 .. 15)
         /\ ZerosEnd(values, i) - i \in Nat /\ RunEnd(values, i) - ZerosEnd(values, i) \in Nat
         /\ ZerosEnd(values, i) - i < IntLimit /\ RunEnd(values, i) - ZerosEnd(values, i) < IntLimit
         /\ ZerosEnd(values, i) - i < Widest /\ RunEnd(values, i) - ZerosEnd(values, i) < Widest
<1> DEFINE z == ZerosEnd(values, i)  e == RunEnd(values, i)
<1>1. n \in Nat /\ n < IntLimit /\ n < Widest /\ Widest \in Nat /\ IntLimit \in Nat
  BY PixelsAre, LimitIs, SMT DEF Widest
<1>2. z \in i .. n + 1 /\ e \in z .. n + 1
  BY RoundIs DEF Round
<1> HIDE DEF z, e
<1>3. i \in Nat /\ i # 0 /\ z \in Nat /\ e \in Nat /\ i <= z /\ z <= e /\ e <= n + 1
  BY <1>1, <1>2
<1>4. z - i \in Nat /\ e - z \in Nat /\ z - i <= n /\ e - z <= n
  BY <1>1, <1>3
<1>5. z - i < IntLimit /\ e - z < IntLimit /\ z - i < Widest /\ e - z < Widest
  BY <1>1, <1>4
<1>6. encode_rvl_vle(z - i) \in Seq(0 .. 15) /\ encode_rvl_vle(e - z) \in Seq(0 .. 15)
  BY <1>4, <1>5, VleIs
<1>7. encode_rvl_vle(z - i) \o encode_rvl_vle(e - z) \in Seq(0 .. 15)
  BY <1>6, Concat
<1>8. RunsNibbles(values, i) \in Seq(0 .. 15)
  BY <1>7 DEF RunsNibbles, z, e
<1>9. DifferenceNibbles(values, i) \in Seq(0 .. 15)
  <2>1. encode_rvl_vle(Difference(values, i)) \in Seq(0 .. 15)
    BY DifferenceIs, VleIs
  <2> QED BY <2>1 DEF DifferenceNibbles
<1>10. PixelNibbles(values, i) = RunsNibbles(values, i) \o DifferenceNibbles(values, i)
  BY DEF PixelNibbles, RunsNibbles, DifferenceNibbles, Difference
<1>11. PixelNibbles(values, i) \in Seq(0 .. 15)
  BY <1>8, <1>9, <1>10, Concat
<1> QED BY <1>4, <1>5, <1>8, <1>9, <1>10, <1>11 DEF z, e

(* What is read where in the stream of an image: at a pixel, after off[k - 1]
   nibbles, the runs of a round that starts there, then its difference.      *)
ReadsRuns(off, ahead, values, sent, k) ==
  \E mid \in Nat :
    /\ decode_vle(sent, off[k - 1] + 1) = [value |-> ZerosEnd(values, k) - k, pos |-> mid, ok |-> TRUE]
    /\ decode_vle(sent, mid)
         = [value |-> RunEnd(values, k) - ZerosEnd(values, k), pos |-> off[k - 1] + ahead[k] + 1, ok |-> TRUE]

ReadsDifference(off, ahead, values, sent, k) ==
  decode_vle(sent, off[k - 1] + ahead[k] + 1)
  = [value |-> Difference(values, k), pos |-> off[k] + 1, ok |-> TRUE]

Lays(off, ahead, values, n, sent) ==
  /\ off \in [0 .. n -> Nat] /\ ahead \in [1 .. n -> Nat]
  /\ Len(sent) \in Nat /\ off[0] = 0 /\ off[n] <= Len(sent)
  /\ \A k \in 1 .. n :
       /\ off[k - 1] + ahead[k] <= off[k]
       /\ Starts(values, k) => ahead[k] >= 2 /\ ReadsRuns(off, ahead, values, sent, k)
       /\ ~ Starts(values, k) => ahead[k] = 0
       /\ Known(values, k) => ReadsDifference(off, ahead, values, sent, k)
       /\ ~ Known(values, k) => off[k] = off[k - 1] + ahead[k]

LEMMA StreamIs ==
  ASSUME NEW values, NEW n, Pixels(values, n)
  PROVE  /\ encode_rvl_stream(values) \in Seq(0 .. 15)
         /\ \E off : /\ off \in [0 .. n -> Nat] /\ off[0] = 0 /\ off[n] <= Len(encode_rvl_stream(values))
                     /\ \A k \in 1 .. n : off[k] = off[k - 1] + Len(PixelNibbles(values, k))
                     /\ \A k \in 1 .. n : At(encode_rvl_stream(values), off[k - 1] + 1,
                        PixelNibbles(values, k))
<1> DEFINE T == 0 .. 15
           seqs == [i \in 1 .. n |-> PixelNibbles(values, i)]
           flat == FlattenSeq(seqs)
           padding == [k \in 1 .. (8 - (Len(flat) % 8)) % 8 |-> 0]
           sent == encode_rvl_stream(values)
<1>1. n \in Nat \ {0} /\ DOMAIN values = 1 .. n
  BY PixelsAre
<1>2. sent = flat \o padding
  BY <1>1 DEF encode_rvl_stream
<1>3. seqs \in [1 .. n -> Seq(T)]
  BY PixelNibblesAre
<1>4. \A k \in 1 .. n : seqs[k] = PixelNibbles(values, k) /\ seqs[k] \in Seq(T)
  BY <1>3
<1> HIDE DEF seqs, T, sent
<1>5. PICK off : Places(off, n, seqs, flat)
  BY <1>1, <1>3, FlatPlaces
<1>6. flat \in Seq(T)
  BY <1>1, <1>3, FlatType
<1>7. padding \in Seq(T)
  <2>1. Len(flat) \in Nat
    BY <1>6
  <2> HIDE DEF flat
  <2>2. (8 - (Len(flat) % 8)) % 8 \in Nat
    BY <2>1
  <2> QED BY <2>2 DEF T
<1> HIDE DEF flat, padding
<1>8. sent \in Seq(T) /\ Len(sent) = Len(flat) + Len(padding) /\ Len(flat) \in Nat /\ Len(padding) \in Nat
      /\ \A i \in 1 .. Len(flat) : sent[i] = flat[i]
  BY <1>2, <1>6, <1>7, Concat
<1>9. off \in [0 .. n -> Nat] /\ off[0] = 0 /\ off[n] <= Len(sent)
  <2>1. off[n] = Len(flat)
    BY <1>5 DEF Places
  <2> QED BY <1>5, <1>8, <2>1 DEF Places
<1>10. ASSUME NEW k \in 1 .. n
       PROVE  off[k] = off[k - 1] + Len(seqs[k]) /\ At(sent, off[k - 1] + 1, seqs[k])
  <2>1. PICK a \in Nat, b \in Nat, len \in Nat, all \in Nat, whole \in Nat :
          a = off[k - 1] /\ b = off[k] /\ len = Len(seqs[k]) /\ all = Len(flat) /\ whole = Len(sent)
    <3>1. k - 1 \in 0 .. n /\ k \in 0 .. n
      BY <1>1
    <3>2. Len(seqs[k]) \in Nat
      BY <1>4
    <3>3. off[k - 1] \in Nat /\ off[k] \in Nat
      BY <1>9, <3>1
    <3> QED BY <1>8, <3>2, <3>3
  <2>2. b = a + len /\ b <= all /\ \A j \in 1 .. len : flat[a + j] = seqs[k][j]
    BY <1>5, <2>1 DEF Places
  <2>3. all <= whole /\ \A i \in 1 .. all : sent[i] = flat[i]
    BY <1>8, <2>1
  <2>4. ASSUME NEW j \in 1 .. len PROVE sent[(a + 1) + j - 1] = seqs[k][j]
    <3>1. a + j \in 1 .. all /\ (a + 1) + j - 1 = a + j
      BY <2>2
    <3> QED BY <2>2, <2>3, <3>1
  <2>5. a + 1 \in Nat \ {0} /\ (a + 1) + len - 1 <= whole
    BY <2>2, <2>3
  <2>6. At(sent, a + 1, seqs[k])
    BY <2>1, <2>4, <2>5 DEF At
  <2> QED BY <2>1, <2>2, <2>6
<1>11. \A k \in 1 .. n : off[k] = off[k - 1] + Len(PixelNibbles(values, k))
       /\ At(sent, off[k - 1] + 1, PixelNibbles(values, k))
  BY <1>4, <1>10
<1> QED BY <1>8, <1>9, <1>11 DEF sent, T

LEMMA LaysOut ==
  ASSUME NEW values, NEW n, Pixels(values, n)
  PROVE  \E off, ahead : Lays(off, ahead, values, n, encode_rvl_stream(values))
<1> DEFINE T == 0 .. 15
<1> PICK sent \in Seq(T) : sent = encode_rvl_stream(values)
  BY StreamIs
<1>1. PICK off :
        /\ sent = encode_rvl_stream(values)
        /\ off \in [0 .. n -> Nat] /\ off[0] = 0 /\ off[n] <= Len(sent)
        /\ \A k \in 1 .. n : off[k] = off[k - 1] + Len(PixelNibbles(values, k))
        /\ \A k \in 1 .. n : At(sent, off[k - 1] + 1, PixelNibbles(values, k))
  BY StreamIs
<1>2. PICK ahead : ahead = [k \in 1 .. n |-> Len(RunsNibbles(values, k))]
  OBVIOUS
<1>3. Len(sent) \in Nat /\ n \in Nat
  BY <1>1, PixelsAre
<1>4. ASSUME NEW k \in 1 .. n
      PROVE  /\ ahead[k] \in Nat
             /\ off[k - 1] + ahead[k] <= off[k]
             /\ Starts(values, k) => ahead[k] >= 2 /\ ReadsRuns(off, ahead, values, sent, k)
             /\ ~ Starts(values, k) => ahead[k] = 0
             /\ Known(values, k) => ReadsDifference(off, ahead, values, sent, k)
             /\ ~ Known(values, k) => off[k] = off[k - 1] + ahead[k]
  <2> DEFINE zeros == ZerosEnd(values, k) - k
             others == RunEnd(values, k) - ZerosEnd(values, k)
             runs == RunsNibbles(values, k)
             diff == DifferenceNibbles(values, k)
  <2>1. /\ PixelNibbles(values, k) = runs \o diff /\ runs \in Seq(T) /\ diff \in Seq(T)
        /\ zeros \in Nat /\ zeros < IntLimit /\ zeros < Widest /\ others \in Nat /\ others < IntLimit
        /\ others < Widest
    BY PixelNibblesAre
  <2>2. PICK a \in Nat, b \in Nat, r \in Nat, d \in Nat :
          a = off[k - 1] /\ b = off[k] /\ r = Len(runs) /\ d = Len(diff) /\ ahead[k] = r
    <3>1. off[k - 1] \in Nat /\ off[k] \in Nat
      BY <1>1, <1>3
    <3>2. Len(runs) \in Nat /\ Len(diff) \in Nat
      <4> HIDE DEF runs, diff
      <4> QED BY <2>1
    <3> QED BY <1>2, <3>1, <3>2
  <2> HIDE DEF runs, diff, zeros, others
  <2>3. b = a + r + d
    <3>1. off[k] = off[k - 1] + Len(runs \o diff)
      BY <1>1, <2>1
    <3>2. Len(runs \o diff) = Len(runs) + Len(diff)
      BY <2>1, Concat
    <3> QED BY <2>2, <3>1, <3>2
  <2>4. At(sent, a + 1, runs) /\ At(sent, a + 1 + r, diff)
    <3>1. At(sent, a + 1, runs \o diff)
      BY <1>1, <2>1, <2>2
    <3>2. At(sent, a + 1, runs) /\ (Len(diff) >= 0 => At(sent, a + 1 + Len(runs), diff))
      BY <2>1, <3>1, AtParts
    <3> QED BY <2>2, <3>2
  <2>5. ASSUME Starts(values, k) PROVE r >= 2 /\ ReadsRuns(off, ahead, values, sent, k)
    <3> DEFINE x == encode_rvl_vle(zeros)  y == encode_rvl_vle(others)
    <3>1. runs = x \o y
      BY <2>5 DEF runs, RunsNibbles, zeros, others
    <3>2. x \in Seq(T) /\ Len(x) = Nibbles(zeros) /\ y \in Seq(T) /\ Len(y) = Nibbles(others)
      BY <2>1, VleIs
    <3>3. Nibbles(zeros) \in 1 .. 11 /\ Nibbles(others) \in 1 .. 11
      BY <2>1, NibblesAre
    <3> HIDE DEF x, y, T
    <3>4. At(sent, a + 1, x) /\ At(sent, a + 1 + Nibbles(zeros), y) /\ r = Nibbles(zeros) + Nibbles(others)
      <4>1. At(sent, a + 1, x) /\ (Len(y) >= 0 => At(sent, a + 1 + Len(x), y))
        BY <2>4, <3>1, <3>2, AtParts
      <4>2. Len(runs) = Len(x) + Len(y)
        BY <3>1, <3>2, Concat
      <4> QED BY <2>2, <3>2, <3>3, <4>1, <4>2
    <3>5. decode_vle(sent, a + 1) = [value |-> zeros, pos |-> a + 1 + Nibbles(zeros), ok |-> TRUE]
      BY <2>1, <3>4, ReadsVle DEF x, T
    <3>6. decode_vle(sent, a + 1 + Nibbles(zeros))
            = [value |-> others, pos |-> (a + 1 + Nibbles(zeros)) + Nibbles(others), ok |-> TRUE]
      BY <2>1, <3>4, ReadsVle DEF y, T
    <3>70. r = Nibbles(zeros) + Nibbles(others)
      BY <3>4
    <3>7. (a + 1 + Nibbles(zeros)) + Nibbles(others) = a + r + 1 /\ r >= 2 /\ a + 1 + Nibbles(zeros) \in Nat
      <4>1. \A p, q \in 1 .. 11 : (a + 1 + p) + q = a + (p + q) + 1 /\ p + q >= 2 /\ a + 1 + p \in Nat
        OBVIOUS
      <4> QED BY <3>3, <3>70, <4>1
    <3> QED BY <2>2, <3>5, <3>6, <3>7 DEF ReadsRuns, zeros, others
  <2>6. ASSUME ~ Starts(values, k) PROVE r = 0
    BY <2>2, <2>6 DEF runs, RunsNibbles
  <2>7. ASSUME Known(values, k) PROVE ReadsDifference(off, ahead, values, sent, k)
    <3>1. diff = encode_rvl_vle(Difference(values, k))
      BY <2>7 DEF diff, DifferenceNibbles
    <3>2. Difference(values, k) \in Nat /\ Difference(values, k) < IntLimit /\ Difference(values, k) < Widest
      BY DifferenceIs
    <3>3. decode_vle(sent, a + 1 + r)
          = [value |-> Difference(values, k), pos |-> (a + 1 + r) + Nibbles(Difference(values, k)), ok |->
          TRUE]
      BY <2>4, <3>1, <3>2, ReadsVle
    <3>4. d = Nibbles(Difference(values, k))
      BY <2>2, <3>1, <3>2, VleIs
    <3>5. a + 1 + r = a + r + 1 /\ (a + 1 + r) + d = b + 1
      BY <2>3
    <3> QED BY <2>2, <3>3, <3>4, <3>5 DEF ReadsDifference
  <2>8. ASSUME ~ Known(values, k) PROVE d = 0
    BY <2>2, <2>8 DEF diff, DifferenceNibbles
  <2>9. a + r <= b /\ (d = 0 => b = a + r)
    BY <2>3
  <2> QED BY <2>2, <2>5, <2>6, <2>7, <2>8, <2>9
<1>5. ahead \in [1 .. n -> Nat]
  BY <1>2, <1>4
<1>6. Lays(off, ahead, values, n, sent)
  BY <1>1, <1>3, <1>4, <1>5 DEF Lays
<1> QED BY <1>1, <1>6

(* The depths before a pixel, and the reader there. *)
Upto(values, i) == [k \in 1 .. i |-> values[k]]

Boundary(off, values, i) ==
  [pos |-> off[i - 1] + 1, out |-> Upto(values, i - 1), previous |-> Previous(values, i), ok |-> TRUE]

LEMMA UptoIs ==
  ASSUME NEW values, NEW n, Pixels(values, n)
  PROVE  /\ \A i \in 0 .. n : Upto(values, i) \in Seq(0 .. U16Max) /\ Len(Upto(values, i)) = i
         /\ \A i \in 0 .. n - 1 : Append(Upto(values, i), values[i + 1]) = Upto(values, i + 1)
         /\ Upto(values, 0) = <<>> /\ Upto(values, n) = values
<1> DEFINE T == 0 .. U16Max
<1>1. n \in Nat /\ DOMAIN values = 1 .. n /\ \A k \in 1 .. n : values[k] \in T
  BY PixelsAre
<1>8. values \in [1 .. n -> T]
  BY DEF Pixels
<1> HIDE DEF T
<1>2. ASSUME NEW i \in 0 .. n PROVE Upto(values, i) \in Seq(T) /\ Len(Upto(values, i)) = i
  <2>1. i \in Nat /\ \A k \in 1 .. i : values[k] \in T
    BY <1>1
  <2> QED BY <2>1 DEF Upto
<1>3. ASSUME NEW i \in 0 .. n - 1 PROVE Append(Upto(values, i), values[i + 1]) = Upto(values, i + 1)
  <2>1. i \in 0 .. n /\ i + 1 \in 0 .. n /\ i + 1 \in 1 .. n /\ i \in Nat
    BY <1>1
  <2>2. PICK s \in Seq(T) : s = Upto(values, i) /\ Len(s) = i
    BY <1>2, <2>1
  <2>3. \A k \in 1 .. i : s[k] = values[k]
    BY <2>2 DEF Upto
  <2>4. PICK t \in Seq(T) : t = Upto(values, i + 1) /\ Len(t) = i + 1
    BY <1>2, <2>1
  <2>5. \A k \in 1 .. i + 1 : t[k] = values[k]
    BY <2>4 DEF Upto
  <2>6. values[i + 1] \in T
    BY <1>1, <2>1
  <2>7. PICK u \in Seq(T) : u = Append(s, values[i + 1])
    BY <2>6, AppendProperties
  <2>8. Len(u) = i + 1 /\ \A k \in 1 .. i + 1 : u[k] = values[k]
    BY <2>1, <2>2, <2>3, <2>6, <2>7, AppendProperties
  <2>9. u = t
    BY <2>4, <2>5, <2>7, <2>8, SeqEqual
  <2> QED BY <2>2, <2>4, <2>7, <2>9
<1>4. Upto(values, 0) = <<>>
  BY DEF Upto
<1>5. Upto(values, n) = values
  BY <1>8 DEF Upto
<1> QED BY <1>2, <1>3, <1>4, <1>5 DEF T

(* Missing depths are zeros. *)
LEMMA UptoZeros ==
  ASSUME NEW values, NEW n, Pixels(values, n), NEW i \in 0 .. n, NEW j \in i .. n,
         \A k \in i + 1 .. j : Missing(values, k)
  PROVE  Upto(values, i) \o [k \in 1 .. j - i |-> 0] = Upto(values, j)
<1> DEFINE T == 0 .. U16Max  zeros == [k \in 1 .. j - i |-> 0]
<1>1. n \in Nat /\ i \in Nat /\ j \in Nat /\ j \in 0 .. n /\ j - i \in Nat /\ 0 \in T
  BY PixelsAre, U16Is
<1> HIDE DEF T
<1>2. PICK s \in Seq(T) : s = Upto(values, i) /\ Len(s) = i
  BY UptoIs DEF T
<1>3. PICK t \in Seq(T) : t = Upto(values, j) /\ Len(t) = j
  BY <1>1, UptoIs DEF T
<1>4. zeros \in Seq(T) /\ Len(zeros) = j - i /\ \A k \in 1 .. j - i : zeros[k] = 0
  BY <1>1
<1> HIDE DEF zeros
<1>5. PICK u \in Seq(T) : u = s \o zeros
  BY <1>4, Concat
<1>6. /\ Len(u) = i + (j - i)
      /\ \A k \in 1 .. i : u[k] = s[k]
      /\ \A k \in 1 .. j - i : u[i + k] = zeros[k]
  <2>1. /\ Len(s \o zeros) = Len(s) + Len(zeros)
        /\ \A k \in 1 .. Len(s) : (s \o zeros)[k] = s[k]
        /\ \A k \in 1 .. Len(zeros) : (s \o zeros)[Len(s) + k] = zeros[k]
    <3>1. s \in Seq(T) /\ zeros \in Seq(T)
      BY <1>2, <1>4
    <3> QED BY <3>1, Concat
  <2> QED BY <1>2, <1>4, <1>5, <2>1
<1>7. ASSUME NEW k \in 1 .. j PROVE u[k] = t[k]
  <2>1. t[k] = values[k]
    BY <1>3 DEF Upto
  <2>2. CASE k <= i
    <3>1. k \in 1 .. i
      BY <1>1, <2>2
    <3>2. s[k] = values[k]
      BY <3>1, <1>2 DEF Upto
    <3> QED BY <1>6, <2>1, <3>1, <3>2
  <2>3. CASE ~ (k <= i)
    <3>1. k \in i + 1 .. j /\ k - i \in 1 .. j - i /\ i + (k - i) = k
      BY <1>1, <2>3
    <3>2. values[k] = 0
      BY <3>1, DepthIs
    <3>3. u[i + (k - i)] = zeros[k - i]
      BY <1>6, <3>1
    <3> QED BY <1>4, <2>1, <3>1, <3>2, <3>3
  <2> QED BY <2>2, <2>3
<1>8. Len(u) = j
  BY <1>1, <1>6
<1>9. u = t
  BY <1>3, <1>7, <1>8, SeqEqual
<1> QED BY <1>2, <1>3, <1>5, <1>9 DEF zeros

(* In a round nothing but its runs comes before the first difference, and
   nothing between the differences.                                        *)
LEMMA OffsetsInRound ==
  ASSUME NEW values, NEW n, Pixels(values, n), NEW off, NEW ahead, NEW sent,
         Lays(off, ahead, values, n, sent),
         NEW i \in 1 .. n, NEW z, NEW e, Round(values, n, i, z, e)
  PROVE  /\ z <= n => off[z - 1] + ahead[z] = off[i - 1] + ahead[i]
         /\ z = n + 1 => off[n] = off[i - 1] + ahead[i]
         /\ \A k \in z + 1 .. e - 1 : ahead[k] = 0
<1>1. /\ n \in Nat /\ i \in Nat /\ z \in Nat /\ e \in Nat /\ i <= z /\ z <= e /\ i < e /\ e <= n + 1
      /\ \A k \in i + 1 .. e - 1 : ~ Starts(values, k)
  BY PixelsAre, RoundTurns
<1>2. \A k \in 1 .. n : off[k - 1] \in Nat /\ off[k] \in Nat /\ ahead[k] \in Nat
  <2> TAKE k \in 1 .. n
  <2>1. k - 1 \in 0 .. n /\ k \in 0 .. n
    BY <1>1
  <2> QED BY <2>1 DEF Lays
<1>3. \A k \in 1 .. n : ~ Starts(values, k) => ahead[k] = 0
  BY DEF Lays
<1>4. \A k \in 1 .. n : ~ Known(values, k) => off[k] = off[k - 1] + ahead[k]
  BY DEF Lays
<1>5. \A k \in i .. z - 1 : ~ Known(values, k)
  BY DepthIs DEF Round
<1>6. ASSUME NEW k \in i + 1 .. e - 1 PROVE ahead[k] = 0
  <2>1. k \in 1 .. n
    BY <1>1
  <2> QED BY <2>1, <1>1, <1>3
<1>7. ASSUME i < z PROVE off[z - 1] = off[i - 1] + ahead[i]
  <2> DEFINE S == {m \in 0 .. (z - 1) - i : off[i + m] = off[i - 1] + ahead[i]}
  <2>1. 0 \in S
    <3>1. i \in i .. z - 1
      BY <1>1, <1>7
    <3>2. off[i] = off[i - 1] + ahead[i]
      BY <3>1, <1>4, <1>5
    <3> QED BY <3>2, <1>1, <1>7
  <2>2. ASSUME NEW m \in 0 .. ((z - 1) - i) - 1, m \in S PROVE m + 1 \in S
    <3>1. i + m + 1 \in i + 1 .. e - 1 /\ i + m + 1 \in 1 .. n /\ i + m + 1 \in i .. z - 1
          /\ (i + m + 1) - 1 = i + m
          /\ i + (m + 1) = i + m + 1 /\ m + 1 \in 0 .. (z - 1) - i
      BY <1>1
    <3>2. ahead[i + m + 1] = 0 /\ off[i + m] = off[i - 1] + ahead[i]
      BY <1>6, <2>2, <3>1
    <3>3. off[i + m + 1] = off[(i + m + 1) - 1] + ahead[i + m + 1]
      BY <1>4, <1>5, <3>1
    <3>4. off[i + m] \in Nat
      <4>1. off[(i + m + 1) - 1] \in Nat
        BY <1>2, <3>1
      <4> QED BY <3>1, <4>1
    <3>5. off[i + (m + 1)] = off[i - 1] + ahead[i]
      BY <3>1, <3>2, <3>3, <3>4
    <3> QED BY <3>1, <3>5
  <2>3. (z - 1) - i \in Nat /\ i + ((z - 1) - i) = z - 1
    BY <1>1, <1>7
  <2>4. \A m \in 0 .. (z - 1) - i : m \in S
    <3> HIDE DEF S
    <3> QED BY <2>1, <2>2, <2>3, UpTo
  <2>5. (z - 1) - i \in S
    <3> HIDE DEF S
    <3> QED BY <2>3, <2>4
  <2> QED BY <2>3, <2>5
<1>8. ASSUME z <= n PROVE off[z - 1] + ahead[z] = off[i - 1] + ahead[i]
  <2>1. CASE z = i
    BY <2>1
  <2>2. CASE i < z
    <3>1. ahead[z] = 0
      <4>1. z \in 1 .. n /\ z \in i + 1 .. n
        BY <1>1, <1>8, <2>2
      <4>2. CASE z < e
        <5>1. z \in i + 1 .. e - 1
          BY <1>1, <2>2, <4>2
        <5> QED BY <5>1, <1>6
      <4>3. CASE ~ (z < e)
        <5>1. e = z /\ (e = z => z = n + 1)
          BY <1>1, <4>3, RoundTurns
        <5> QED BY <5>1, <1>1, <1>8
      <4> QED BY <4>2, <4>3
    <3>2. off[z - 1] \in Nat
      <4>1. z \in 1 .. n
        BY <1>1, <1>8
      <4> QED BY <4>1, <1>2
    <3> QED BY <1>7, <2>2, <3>1, <3>2
  <2> QED BY <1>1, <2>1, <2>2
<1>9. ASSUME z = n + 1 PROVE off[n] = off[i - 1] + ahead[i]
  <2>1. i < z /\ z - 1 = n
    BY <1>1, <1>9
  <2> QED BY <1>7, <2>1
<1>10. ASSUME NEW k \in z + 1 .. e - 1 PROVE ahead[k] = 0
  <2>1. k \in i + 1 .. e - 1
    BY <1>1
  <2> QED BY <2>1, <1>6
<1> QED BY <1>8, <1>9, <1>10

(* A reader that goes on. *)
LEMMA GoesOn ==
  ASSUME NEW a, NEW b, NEW c, NEW d, NEW r, r = [pos |-> a, out |-> b, previous |-> c, ok |-> d], NEW x
  PROVE  [r EXCEPT !.pos = x] = [pos |-> x, out |-> b, previous |-> c, ok |-> d]
OBVIOUS

(* Reading a round of an image from its boundary leads to the next one. *)
LEMMA ReadsZeros ==
  ASSUME NEW values, NEW n, Pixels(values, n), NEW off, NEW i \in 1 .. n, NEW z, NEW e,
         Round(values, n, i, z, e),
         NEW sent, NEW mid, decode_vle(sent, off[i - 1] + 1) = [value |-> z - i, pos |-> mid, ok |-> TRUE]
  PROVE  extend_zero_run(sent, n, Boundary(off, values, i))
           = [pos |-> mid, out |-> Upto(values, z - 1), previous |-> Previous(values, z), ok |-> TRUE]
<1>1. n \in Nat /\ i \in Nat /\ z \in Nat /\ i <= z /\ z <= n + 1
  BY PixelsAre, RoundTurns
<1>2. PICK r : r = Boundary(off, values, i)
  OBVIOUS
<1>3. r = [pos |-> off[i - 1] + 1, out |-> Upto(values, i - 1), previous |-> Previous(values, i), ok |-> TRUE]
  BY <1>2 DEF Boundary
<1>4. i - 1 \in 0 .. n /\ z - 1 \in (i - 1) .. n /\ (z - 1) - (i - 1) = z - i /\ (i - 1) + 1 = i
  BY <1>1
<1>5. Len(r.out) = i - 1
  BY <1>3, <1>4, UptoIs
<1>6. \A k \in i .. z - 1 : Missing(values, k)
  BY DEF Round
<1>7. r.out \o [k \in 1 .. z - i |-> 0] = Upto(values, z - 1)
  <2>1. Upto(values, i - 1) \o [k \in 1 .. (z - 1) - (i - 1) |-> 0] = Upto(values, z - 1)
    <3>1. PICK a \in 0 .. n, b \in 0 .. n : a = i - 1 /\ b = z - 1 /\ b \in a .. n
      BY <1>4
    <3>2. \A k \in a + 1 .. b : Missing(values, k)
      BY <1>4, <1>6, <3>1
    <3>3. Upto(values, a) \o [k \in 1 .. b - a |-> 0] = Upto(values, b)
      BY <3>1, <3>2, UptoZeros
    <3> QED BY <3>1, <3>3
  <2> QED BY <1>3, <1>4, <2>1
<1>8. Previous(values, z) = Previous(values, i)
  <2>1. i \in 1 .. n + 1 /\ z \in 1 .. n + 1
    BY <1>1
  <2> QED BY <1>1, <1>6, <2>1, PreviousIs
<1>9. Len(r.out) + (z - i) <= n
  BY <1>1, <1>5
<1>10. extend_zero_run(sent, n, r) = [r EXCEPT !.pos = mid, !.out = @ \o [k \in 1 .. z - i |-> 0]]
  <2>1. r.pos = off[i - 1] + 1
    BY <1>3
  <2>2. decode_vle(sent, r.pos) = [value |-> z - i, pos |-> mid, ok |-> TRUE]
    BY <2>1
  <2> QED BY <1>9, <2>2 DEF extend_zero_run
<1>11. [r EXCEPT !.pos = mid, !.out = @ \o [k \in 1 .. z - i |-> 0]]
         = [pos |-> mid, out |-> Upto(values, z - 1), previous |-> Previous(values, z), ok |-> TRUE]
  <2>1. [r EXCEPT !.pos = mid, !.out = @ \o [k \in 1 .. z - i |-> 0]]
          = [pos |-> mid, out |-> Upto(values, i - 1) \o [k \in 1 .. z - i |-> 0], previous |->
          Previous(values, i), ok |-> TRUE]
    <3>1. PICK a, b, c, d, y : d = TRUE /\ a = off[i - 1] + 1 /\ b = Upto(values, i - 1)
                               /\ c = Previous(values, i) /\ y = [k \in 1 .. z - i |-> 0]
      OBVIOUS
    <3>2. r = [pos |-> a, out |-> b, previous |-> c, ok |-> d]
      BY <1>3, <3>1, Zenon
    <3>3. [r EXCEPT !.pos = mid, !.out = @ \o y] = [pos |-> mid, out |-> b \o y, previous |-> c, ok |-> d]
      <4>1. PICK h : h = b \o y
        OBVIOUS
      <4>2. PICK s : s = [r EXCEPT !.pos = mid]
        OBVIOUS
      <4>3. s = [pos |-> mid, out |-> b, previous |-> c, ok |-> d]
        BY <3>2, <4>2
      <4>4. [s EXCEPT !.out = h] = [pos |-> mid, out |-> h, previous |-> c, ok |-> d]
        BY <4>3
      <4>5. r.out = b
        BY <3>2
      <4>6. [r EXCEPT !.pos = mid, !.out = @ \o y] = [s EXCEPT !.out = h]
        BY <4>1, <4>2, <4>5
      <4> QED BY <4>1, <4>4, <4>6
    <3> QED BY <3>1, <3>3, Zenon
  <2>2. r.out = Upto(values, i - 1)
    BY <1>3
  <2> QED BY <1>7, <1>8, <2>1, <2>2
<1> QED BY <1>2, <1>10, <1>11

LEMMA ReadsOthers ==
  ASSUME NEW values, NEW n, Pixels(values, n), NEW off, NEW ahead, NEW sent,
         Lays(off, ahead, values, n, sent),
         NEW i \in 1 .. n, NEW z, NEW e, Round(values, n, i, z, e), NEW mid,
         decode_vle(sent, mid) = [value |-> e - z, pos |-> off[i - 1] + ahead[i] + 1, ok |-> TRUE]
  PROVE  extend_nonzero_run(sent, n,
         [pos |-> mid, out |-> Upto(values, z - 1), previous |-> Previous(values, z), ok |-> TRUE])
           = Boundary(off, values, e)
<1>1. n \in Nat /\ i \in Nat /\ z \in Nat /\ e \in Nat /\ i <= z /\ z <= e /\ i < e /\ e <= n + 1 /\ i <= n
      /\ (e = z => z = n + 1)
  BY PixelsAre, RoundTurns
<1>2. PICK r, start, count :
        /\ r = [pos |-> mid, out |-> Upto(values, z - 1), previous |-> Previous(values, z), ok |-> TRUE]
        /\ start = off[i - 1] + ahead[i] + 1 /\ count = e - z
  OBVIOUS
<1>3. count \in Nat /\ z + count = e
  BY <1>1, <1>2
<1> DEFINE At_(m) == [pos |-> IF m = 0 THEN start ELSE off[z + m - 1] + 1, out |-> Upto(values, z + m - 1),
                      previous |-> Previous(values, z + m), ok |-> TRUE]
           g == [m \in 0 .. count |-> At_(m)]
           run == decode_vle(sent, r.pos)
           P(f) == f = [m \in 0 .. run.value |->
                          IF m = 0 THEN [r EXCEPT !.pos
                          = run.pos] ELSE decode_next_depth_value(sent, f[m - 1])]
           read == CHOOSE f : P(f)
<1>14. run = [value |-> count, pos |-> start, ok |-> TRUE] /\ run.value = count /\ run.pos = start
       /\ run.ok = TRUE
  <2>1. r.pos = mid
    BY <1>2
  <2>2. run = [value |-> count, pos |-> start, ok |-> TRUE]
    BY <1>2, <2>1
  <2> QED BY <2>2
<1> HIDE DEF run
<1>4. g[0] = [r EXCEPT !.pos = start]
  <2>1. z + 0 - 1 = z - 1 /\ z + 0 = z /\ 0 \in 0 .. count
    BY <1>1, <1>3
  <2>2. At_(0) = [pos |-> start, out |-> Upto(values, z - 1), previous |-> Previous(values, z), ok |-> TRUE]
    BY <2>1
  <2>3. g[0] = At_(0)
    <3> HIDE DEF At_
    <3> QED BY <2>1
  <2> HIDE DEF At_, g
  <2>4. [r EXCEPT !.pos = start] = [pos |-> start, out |-> Upto(values, z - 1), previous |->
        Previous(values, z), ok |-> TRUE]
    <3>1. PICK d : d = TRUE
      OBVIOUS
    <3>2. r = [pos |-> mid, out |-> Upto(values, z - 1), previous |-> Previous(values, z), ok |-> d]
      BY <1>2, <3>1, Zenon
    <3>3. [r EXCEPT !.pos = start] = [pos |-> start, out |-> Upto(values, z - 1), previous |->
          Previous(values, z), ok |-> d]
      BY <3>2, GoesOn
    <3> QED BY <3>1, <3>3, Zenon
  <2> QED BY <2>2, <2>3, <2>4
<1>5. ASSUME NEW m \in 1 .. count PROVE g[m] = decode_next_depth_value(sent, g[m - 1])
  <2> DEFINE k == z + m - 1
  <2>1. k \in Nat /\ k \in 1 .. n /\ k \in z .. e - 1 /\ m - 1 \in 0 .. count /\ m \in 0 .. count /\ m # 0
        /\ z + (m - 1) - 1 = k - 1
        /\ z + (m - 1) = k /\ z + m = k + 1 /\ k - 1 \in 0 .. n - 1 /\ (k - 1) + 1 = k
    BY <1>1, <1>3
  <2> HIDE DEF k
  <2>2. g[m] = [pos |-> off[k] + 1, out |-> Upto(values, k), previous |-> Previous(values, k + 1), ok |->
        TRUE]
    <3>1. At_(m) = [pos |-> off[k] + 1, out |-> Upto(values, k), previous |-> Previous(values, k + 1), ok |->
          TRUE]
      BY <2>1 DEF k
    <3> HIDE DEF At_
    <3> QED BY <2>1, <3>1
  <2>3. PICK s : s = g[m - 1]
    OBVIOUS
  <2>4. s = [pos |-> IF m - 1 = 0 THEN start ELSE off[k - 1] + 1, out |-> Upto(values, k - 1),
             previous |-> Previous(values, k), ok |-> TRUE]
    BY <2>1, <2>3
  <2>5. s.pos = off[k - 1] + ahead[k] + 1
    <3>1. CASE m = 1
      <4>1. k = z /\ z <= n
        BY <1>1, <2>1, <3>1
      <4>2. off[z - 1] + ahead[z] = off[i - 1] + ahead[i]
        BY <4>1, OffsetsInRound
      <4>3. s.pos = start
        BY <2>4, <3>1
      <4> QED BY <1>2, <4>1, <4>2, <4>3
    <3>2. CASE m # 1
      <4>1. k \in z + 1 .. e - 1
        BY <1>1, <1>3, <3>2 DEF k
      <4>2. ahead[k] = 0
        BY <4>1, OffsetsInRound
      <4>3. s.pos = off[k - 1] + 1
        BY <2>4, <3>2
      <4>4. off[k - 1] \in Nat
        <5>1. k - 1 \in 0 .. n
          BY <1>1, <2>1
        <5> QED BY <5>1 DEF Lays
      <4> QED BY <4>2, <4>3, <4>4
    <3> QED BY <3>1, <3>2
  <2>6. Known(values, k)
    BY <2>1 DEF Round
  <2>7. decode_vle(sent, s.pos) = [value |-> Difference(values, k), pos |-> off[k] + 1, ok |-> TRUE]
    <3>1. ReadsDifference(off, ahead, values, sent, k)
      BY <2>1, <2>6 DEF Lays
    <3> QED BY <2>5, <3>1 DEF ReadsDifference
  <2>8. s.previous + decode_zigzag_delta(Difference(values, k)) = values[k] /\ values[k] \in 0 .. U16Max
    <3>1. s.previous = Previous(values, k)
      BY <2>4
    <3> QED BY <2>1, <3>1, DifferenceIs, PixelsAre
  <2> HIDE DEF g, P, read, At_
  <2>9. decode_next_depth_value(sent, s)
        = [s EXCEPT !.pos = off[k] + 1, !.previous = values[k], !.out = Append(@, values[k])]
    <3>1. s.ok = TRUE
      BY <2>4
    <3>2. PICK run_ : run_ = decode_vle(sent, s.pos) /\ run_.value = Difference(values, k)
                      /\ run_.pos = off[k] + 1 /\ run_.ok = TRUE
      BY <2>7
    <3>3. s.ok /\ run_.ok /\ s.previous + decode_zigzag_delta(run_.value) \in 0 .. U16Max
      BY <2>8, <3>1, <3>2
    <3>4. decode_next_depth_value(sent, s)
            = [s EXCEPT !.pos = run_.pos, !.previous = s.previous + decode_zigzag_delta(run_.value),
                        !.out = Append(@, s.previous + decode_zigzag_delta(run_.value))]
      BY <3>2, <3>3, Zenon DEF decode_next_depth_value
    <3> QED BY <2>8, <3>2, <3>4
  <2>10. Append(Upto(values, k - 1), values[k]) = Upto(values, k)
    <3>1. Append(Upto(values, k - 1), values[(k - 1) + 1]) = Upto(values, (k - 1) + 1)
      BY <2>1, UptoIs
    <3> QED BY <2>1, <3>1
  <2>11. Previous(values, k + 1) = values[k]
    BY <2>1, <2>6, PreviousIs
  <2>12. [s EXCEPT !.pos = off[k] + 1, !.previous = values[k], !.out = Append(@, values[k])]
           = [pos |-> off[k] + 1, out |-> Append(Upto(values, k - 1), values[k]), previous |-> values[k], ok |->
           TRUE]
    <3>1. PICK a, b, c, d, y, x : d = TRUE /\ a = s.pos /\ b = Upto(values, k - 1) /\ c = Previous(values, k)
                                  /\ y = values[k] /\ x = off[k] + 1
      OBVIOUS
    <3>2. s = [pos |-> a, out |-> b, previous |-> c, ok |-> d]
      <4>1. a = IF m - 1 = 0 THEN start ELSE off[k - 1] + 1
        BY <2>4, <3>1
      <4> QED BY <2>4, <3>1, <4>1, Zenon
    <3>3. [s EXCEPT !.pos = x, !.previous = y, !.out = Append(@, y)]
          = [pos |-> x, out |-> Append(b, y), previous |-> y, ok |-> d]
      <4>1. PICK h : h = Append(b, y)
        OBVIOUS
      <4>2. PICK t : t = [s EXCEPT !.pos = x]
        OBVIOUS
      <4>3. t = [pos |-> x, out |-> b, previous |-> c, ok |-> d]
        BY <3>2, <4>2
      <4>4. PICK u : u = [t EXCEPT !.previous = y]
        OBVIOUS
      <4>5. u = [pos |-> x, out |-> b, previous |-> y, ok |-> d]
        BY <4>3, <4>4
      <4>6. [u EXCEPT !.out = h] = [pos |-> x, out |-> h, previous |-> y, ok |-> d]
        BY <4>5
      <4>7. s.out = b
        BY <3>2
      <4>8. [s EXCEPT !.pos = x, !.previous = y, !.out = Append(@, y)] = [u EXCEPT !.out = h]
        BY <4>1, <4>2, <4>4, <4>7
      <4> QED BY <4>1, <4>6, <4>8
    <3> QED BY <3>1, <3>3, Zenon
  <2> QED BY <2>2, <2>3, <2>9, <2>10, <2>11, <2>12
<1>6. P(g)
  <2> HIDE DEF At_
  <2>1. \A m \in 0 .. count : g[m] = IF m
        = 0 THEN [r EXCEPT !.pos = start] ELSE decode_next_depth_value(sent, g[m - 1])
    <3> TAKE m \in 0 .. count
    <3>1. CASE m = 0
      BY <3>1, <1>4
    <3>2. CASE m # 0
      <4>1. m \in 1 .. count
        BY <1>3, <3>2
      <4> HIDE DEF g
      <4> QED BY <3>2, <4>1, <1>5
    <3> QED BY <3>1, <3>2
  <2>2. g = [m \in 0 .. count |-> g[m]]
    OBVIOUS
  <2> HIDE DEF g
  <2> QED BY <2>1, <2>2, <1>14
<1>7. P(read)
  <2> HIDE DEF P
  <2> QED BY <1>6
<1>8. \A m \in 0 .. count : read[m] = IF m
      = 0 THEN [r EXCEPT !.pos = start] ELSE decode_next_depth_value(sent, read[m - 1])
  <2> HIDE DEF read
  <2> QED BY <1>7, <1>14
<1> HIDE DEF g, read, P
<1> DEFINE S == {m \in 0 .. count : read[m] = g[m]}
<1>9. 0 \in S
  BY <1>3, <1>4, <1>8
<1>10. ASSUME NEW m \in 0 .. count - 1, m \in S PROVE m + 1 \in S
  <2>1. m + 1 \in 1 .. count /\ m + 1 \in 0 .. count /\ (m + 1) - 1 = m /\ m + 1 # 0
    BY <1>3
  <2>2. g[m + 1] = decode_next_depth_value(sent, g[m])
    BY <1>5, <2>1
  <2>3. read[m + 1] = decode_next_depth_value(sent, read[m])
    BY <1>8, <2>1
  <2> QED BY <1>10, <2>1, <2>2, <2>3
<1>11. count \in S
  <2> HIDE DEF S
  <2>1. \A m \in 0 .. count : m \in S
    BY <1>3, <1>9, <1>10, UpTo
  <2> QED BY <1>3, <2>1
<1>12. g[count] = Boundary(off, values, e)
  <2>1. g[count] = [pos |-> IF count = 0 THEN start ELSE off[e - 1] + 1, out |-> Upto(values, e - 1),
                    previous |-> Previous(values, e), ok |-> TRUE]
    <3>1. At_(count) = [pos |-> IF count = 0 THEN start ELSE off[e - 1] + 1, out |-> Upto(values, e - 1),
                        previous |-> Previous(values, e), ok |-> TRUE]
      <4>1. z + count = e /\ z + count - 1 = e - 1
        BY <1>1, <1>3
      <4> QED BY <4>1
    <3> HIDE DEF At_
    <3>2. count \in 0 .. count
      BY <1>3
    <3> QED BY <3>1, <3>2 DEF g
  <2>2. count = 0 => start = off[e - 1] + 1
    <3> SUFFICES ASSUME count = 0 PROVE start = off[e - 1] + 1
      OBVIOUS
    <3>1. e = z /\ z = n + 1 /\ e - 1 = n
      BY <1>1, <1>3
    <3>2. off[n] = off[i - 1] + ahead[i]
      BY <3>1, OffsetsInRound
    <3> QED BY <1>2, <3>1, <3>2
  <2> QED BY <2>1, <2>2 DEF Boundary
<1>13. extend_nonzero_run(sent, n, r) = read[count]
  <2>1. r.ok = TRUE /\ r.out = Upto(values, z - 1)
    BY <1>2
  <2>2. z - 1 \in 0 .. n /\ (z - 1) + count <= n
    BY <1>1, <1>3
  <2>3. Len(r.out) + run.value <= n
    BY <2>1, <2>2, <1>14, UptoIs
  <2>4. r.ok /\ run.ok /\ Len(r.out) + run.value <= n
    BY <2>1, <2>3, <1>14
  <2>5. extend_nonzero_run(sent, n, r) = IF r.ok /\ run.ok
        /\ Len(r.out) + run.value <= n THEN read[run.value] ELSE [r EXCEPT !.ok = FALSE]
    BY Zenon DEF extend_nonzero_run, read, P, run
  <2> QED BY <2>4, <2>5, <1>14
<1> QED BY <1>2, <1>11, <1>12, <1>13

LEMMA ReadsRound ==
  ASSUME NEW values, NEW n, Pixels(values, n), NEW off, NEW ahead, NEW sent,
         Lays(off, ahead, values, n, sent),
         NEW i \in 1 .. n, Starts(values, i)
  PROVE  extend_runs(sent, n, Boundary(off, values, i)) = Boundary(off, values, RunEnd(values, i))
<1> DEFINE z == ZerosEnd(values, i)  e == RunEnd(values, i)  b == Boundary(off, values, i)
<1>1. Round(values, n, i, z, e)
  BY RoundIs
<1>2. PICK mid \in Nat :
        /\ decode_vle(sent, off[i - 1] + 1) = [value |-> z - i, pos |-> mid, ok |-> TRUE]
        /\ decode_vle(sent, mid) = [value |-> e - z, pos |-> off[i - 1] + ahead[i] + 1, ok |-> TRUE]
  BY DEF Lays, ReadsRuns
<1> HIDE DEF z, e
<1>3. extend_zero_run(sent, n, b)
        = [pos |-> mid, out |-> Upto(values, z - 1), previous |-> Previous(values, z), ok |-> TRUE]
  BY <1>1, <1>2, ReadsZeros
<1>4. extend_nonzero_run(sent, n,
      [pos |-> mid, out |-> Upto(values, z - 1), previous |-> Previous(values, z), ok |-> TRUE])
        = Boundary(off, values, e)
  BY <1>1, <1>2, ReadsOthers
<1>5. b.ok = TRUE /\ Len(b.out) # n
  <2>1. n \in Nat /\ i - 1 \in 0 .. n /\ i - 1 # n
    BY PixelsAre
  <2>2. b.ok = TRUE /\ b.out = Upto(values, i - 1)
    BY DEF Boundary
  <2> QED BY <2>1, <2>2, UptoIs
<1> HIDE DEF b
<1>6. extend_runs(sent, n, b) = extend_nonzero_run(sent, n, extend_zero_run(sent, n, b))
  BY <1>5 DEF extend_runs
<1> QED BY <1>3, <1>4, <1>6 DEF b, e

LEMMA OffsetsGrow ==
  ASSUME NEW values, NEW n \in Nat, NEW off, NEW ahead, NEW sent, Lays(off, ahead, values, n, sent),
         NEW i \in 0 .. n, NEW j \in i .. n
  PROVE  off[i] \in Nat /\ off[j] \in Nat /\ off[i] <= off[j]
<1>1. \A k \in 0 .. n : off[k] \in Nat
  BY DEF Lays
<1>2. \A k \in 1 .. n : off[k - 1] <= off[k]
  <2> TAKE k \in 1 .. n
  <2>1. off[k - 1] + ahead[k] <= off[k] /\ ahead[k] \in Nat
    BY DEF Lays
  <2>2. off[k - 1] \in Nat /\ off[k] \in Nat
    <3>1. k - 1 \in 0 .. n /\ k \in 0 .. n
      OBVIOUS
    <3> QED BY <3>1, <1>1
  <2> QED BY <2>1, <2>2
<1> DEFINE S == {m \in 0 .. n - i : off[i] <= off[i + m]}
<1>3. 0 \in S
  BY <1>1
<1>4. ASSUME NEW m \in 0 .. (n - i) - 1, m \in S PROVE m + 1 \in S
  <2>1. i + m + 1 \in 1 .. n /\ (i + m + 1) - 1 = i + m /\ i + (m + 1) = i + m + 1 /\ m + 1 \in 0 .. n - i
        /\ i + m \in 0 .. n
        /\ i + m + 1 \in 0 .. n
    OBVIOUS
  <2>2. off[i + m] <= off[i + m + 1]
    BY <1>2, <2>1
  <2>3. off[i] \in Nat /\ off[i + m] \in Nat /\ off[i + m + 1] \in Nat
    BY <1>1, <2>1
  <2> QED BY <1>4, <2>1, <2>2, <2>3
<1>5. n - i \in Nat /\ j - i \in 0 .. n - i /\ i + (j - i) = j /\ j \in 0 .. n
  OBVIOUS
<1>6. j - i \in S
  <2> HIDE DEF S
  <2>1. \A m \in 0 .. n - i : m \in S
    BY <1>3, <1>4, <1>5, UpTo
  <2> QED BY <2>1, <1>5
<1> QED BY <1>1, <1>5, <1>6

(* Where the m-th round ends. *)
Ends(b, values, n, L) ==
  /\ b \in [0 .. L -> 1 .. n + 1] /\ b[0] = 1
  /\ \A m \in 1 .. L : b[m] = IF b[m - 1] = n + 1 THEN n + 1 ELSE RunEnd(values, b[m - 1])

LEMMA EndsExist ==
  ASSUME NEW values, NEW n, Pixels(values, n), NEW L \in Nat
  PROVE  \E b : Ends(b, values, n, L)
<1> DEFINE V == 1 .. n + 1
           D == [p \in V \X (1 .. L) |-> IF p[1] = n + 1 THEN n + 1 ELSE RunEnd(values, p[1])]
<1>1. n \in Nat \ {0}
  BY PixelsAre
<1>2. \A i \in V : i # n + 1 => RunEnd(values, i) \in V
  <2> TAKE i \in V
  <2> HAVE i # n + 1
  <2>1. i \in 1 .. n
    BY <1>1
  <2>2. Round(values, n, i, ZerosEnd(values, i), RunEnd(values, i))
    BY <2>1, RoundIs
  <2>3. RunEnd(values, i) \in Nat /\ i < RunEnd(values, i) /\ RunEnd(values, i) <= n + 1
    BY <2>1, <2>2, RoundTurns
  <2> QED BY <1>1, <2>1, <2>3
<1>3. D \in [V \X (1 .. L) -> V]
  BY <1>1, <1>2
<1>4. 1 \in V
  BY <1>1
<1>5. PICK b : Computes(b, L, V, 1, D)
  <2> HIDE DEF D, V
  <2> QED BY <1>3, <1>4, Recursion
<1>6. b \in [0 .. L -> V] /\ b[0] = 1 /\ \A m \in 1 .. L : b[m] = D[<<b[m - 1], m>>]
  <2> HIDE DEF D, V
  <2> QED BY <1>5 DEF Computes
<1>7. ASSUME NEW m \in 1 .. L PROVE b[m] = IF b[m - 1] = n + 1 THEN n + 1 ELSE RunEnd(values, b[m - 1])
  <2>1. m - 1 \in 0 .. L
    OBVIOUS
  <2>2. b[m - 1] \in V
    BY <1>6, <2>1
  <2>3. b[m] = D[<<b[m - 1], m>>]
    BY <1>6
  <2> QED BY <2>2, <2>3
<1> QED BY <1>6, <1>7 DEF Ends

(* Until the end, a round starts there, and takes two nibbles at least. *)
LEMMA EndsAre ==
  ASSUME NEW values, NEW n, Pixels(values, n), NEW off, NEW ahead, NEW sent,
         Lays(off, ahead, values, n, sent),
         NEW L \in Nat, NEW b, Ends(b, values, n, L)
  PROVE  \A m \in 0 .. L : b[m] = n + 1 \/ (b[m] \in 1 .. n /\ Starts(values, b[m]) /\ off[b[m] - 1] >= 2 * m)
<1> DEFINE At_(m) == b[m] = n + 1 \/ (b[m] \in 1 .. n /\ Starts(values, b[m]) /\ off[b[m] - 1] >= 2 * m)
           S == {m \in 0 .. L : At_(m)}
<1>1. n \in Nat \ {0}
  BY PixelsAre
<1>2. 0 \in S
  <2>1. b[0] = 1 /\ 1 \in 1 .. n /\ Starts(values, 1)
    BY <1>1 DEF Ends, Starts
  <2>2. off[b[0] - 1] = 0
    BY <2>1 DEF Lays
  <2> QED BY <2>1, <2>2
<1>3. ASSUME NEW m \in 0 .. L - 1, m \in S PROVE m + 1 \in S
  <2>1. m + 1 \in 1 .. L /\ (m + 1) - 1 = m /\ m \in Nat /\ m + 1 \in 0 .. L
    OBVIOUS
  <2>2. b[m + 1] = IF b[m] = n + 1 THEN n + 1 ELSE RunEnd(values, b[m])
    BY <2>1 DEF Ends
  <2>3. CASE b[m] = n + 1
    BY <2>1, <2>2, <2>3
  <2>4. CASE b[m] # n + 1
    <3>1. PICK i \in 1 .. n : i = b[m] /\ Starts(values, i) /\ off[i - 1] >= 2 * m
      BY <1>3, <2>4
    <3>2. PICK e : e = RunEnd(values, i) /\ e = b[m + 1]
      BY <2>2, <2>4, <3>1
    <3>3. e \in Nat /\ i < e /\ e <= n + 1 /\ (e <= n => Starts(values, e))
      <4>1. Round(values, n, i, ZerosEnd(values, i), RunEnd(values, i))
        BY RoundIs
      <4> QED BY <3>2, <4>1, RoundTurns
    <3>4. off[i - 1] + ahead[i] <= off[i] /\ ahead[i] >= 2 /\ ahead[i] \in Nat
      BY <3>1 DEF Lays
    <3>5. i - 1 \in 0 .. n /\ i \in 0 .. n /\ e - 1 \in i .. n
      BY <1>1, <3>3
    <3>6. off[i - 1] \in Nat /\ off[i] \in Nat /\ off[e - 1] \in Nat /\ off[i] <= off[e - 1]
      <4>1. off[i] \in Nat /\ off[e - 1] \in Nat /\ off[i] <= off[e - 1]
        BY <1>1, <3>5, OffsetsGrow
      <4> QED BY <3>5, <4>1 DEF Lays
    <3>7. off[e - 1] >= 2 * (m + 1)
      BY <2>1, <3>1, <3>4, <3>6
    <3> QED BY <1>1, <2>1, <3>2, <3>3, <3>7
  <2> QED BY <2>3, <2>4
<1>4. \A m \in 0 .. L : m \in S
  <2> HIDE DEF S
  <2> QED BY <1>2, <1>3, UpTo
<1> QED BY <1>4

LEMMA ReadsToTheEnd ==
  ASSUME NEW values, NEW n, Pixels(values, n), NEW off, NEW ahead, NEW sent,
         Lays(off, ahead, values, n, sent),
         NEW b, Ends(b, values, n, Len(sent))
  PROVE  b[Len(sent)] = n + 1
<1> DEFINE L == Len(sent)
<1>1. n \in Nat \ {0} /\ L \in Nat /\ off[n] <= L
  BY PixelsAre DEF Lays
<1> HIDE DEF L
<1>2. b[L] = n + 1 \/ (b[L] \in 1 .. n /\ Starts(values, b[L]) /\ off[b[L] - 1] >= 2 * L)
  <2>1. L \in 0 .. L
    BY <1>1
  <2>2. Ends(b, values, n, L)
    BY DEF L
  <2> QED BY <1>1, <2>1, <2>2, EndsAre
<1>3. SUFFICES ASSUME b[L] \in 1 .. n, off[b[L] - 1] >= 2 * L PROVE FALSE
  BY <1>2 DEF L
<1>4. b[L] - 1 \in 0 .. n /\ n \in (b[L] - 1) .. n
  BY <1>1, <1>3
<1>5. off[b[L] - 1] \in Nat /\ off[n] \in Nat /\ off[b[L] - 1] <= off[n]
  BY <1>1, <1>4, OffsetsGrow
<1>6. L = 0 /\ off[n] = 0
  BY <1>1, <1>3, <1>5
<1>7. off[0] + ahead[1] <= off[1] /\ ahead[1] >= 2 /\ ahead[1] \in Nat /\ off[0] = 0
  <2>1. 1 \in 1 .. n /\ Starts(values, 1) /\ 1 - 1 = 0
    BY <1>1 DEF Starts
  <2> QED BY <2>1 DEF Lays
<1>8. off[1] \in Nat /\ off[1] <= off[n]
  <2>1. 1 \in 0 .. n /\ n \in 1 .. n
    BY <1>1
  <2> QED BY <1>1, <2>1, OffsetsGrow
<1> QED BY <1>6, <1>7, <1>8

(* What is decoded is what was encoded. *)
LEMMA ReadsStream ==
  ASSUME NEW values, NEW n, Pixels(values, n)
  PROVE  LET end == decode_rvl_stream(encode_rvl_stream(values), n) IN end.ok = TRUE /\ end.out = values
<1>0. PICK sent : sent = encode_rvl_stream(values)
  OBVIOUS
<1>1. PICK off, ahead : Lays(off, ahead, values, n, sent)
  BY <1>0, LaysOut
<1>2. PICK L \in Nat : L = Len(sent)
  BY <1>1 DEF Lays
<1>3. PICK b : Ends(b, values, n, L)
  BY EndsExist
<1>4. n \in Nat \ {0}
  BY PixelsAre
<1>5. \A m \in 0 .. L : b[m] = n + 1 \/ (b[m] \in 1 .. n /\ Starts(values, b[m]))
  BY <1>1, <1>3, EndsAre
<1>6. b[L] = n + 1
  BY <1>1, <1>2, <1>3, ReadsToTheEnd
<1> DEFINE start == [pos |-> 1, out |-> <<>>, previous |-> 0, ok |-> TRUE]
           g == [m \in 0 .. L |-> Boundary(off, values, b[m])]
           P(f) == f = [m \in 0 .. Len(sent) |-> IF m = 0 THEN start ELSE extend_runs(sent, n, f[m - 1])]
           round == CHOOSE f : P(f)
<1>7. g[0] = start
  <2>1. b[0] = 1 /\ off[0] = 0 /\ 0 \in 0 .. L
    BY <1>1, <1>3 DEF Ends, Lays
  <2>2. Upto(values, 0) = <<>> /\ Previous(values, 1) = 0
    BY UptoIs, PreviousIs
  <2>3. Boundary(off, values, 1) = start
    <3>1. off[1 - 1] + 1 = 1 /\ Upto(values, 1 - 1) = <<>>
      BY <2>1, <2>2
    <3> QED BY <2>2, <3>1 DEF Boundary
  <2> HIDE DEF start
  <2> QED BY <2>1, <2>3
<1> HIDE DEF start
<1>8. ASSUME NEW m \in 1 .. L PROVE g[m] = extend_runs(sent, n, g[m - 1])
  <2>1. m - 1 \in 0 .. L /\ m \in 0 .. L
    OBVIOUS
  <2>2. b[m] = IF b[m - 1] = n + 1 THEN n + 1 ELSE RunEnd(values, b[m - 1])
    BY <1>3 DEF Ends
  <2>3. PICK i : i = b[m - 1]
    OBVIOUS
  <2>4. g[m - 1] = Boundary(off, values, i) /\ g[m] = Boundary(off, values, b[m])
    BY <2>1, <2>3
  <2> HIDE DEF g
  <2>5. CASE i = n + 1
    <3>1. PICK s : s = Boundary(off, values, n + 1)
      OBVIOUS
    <3>2. s.out = Upto(values, n)
      <4>1. (n + 1) - 1 = n
        BY <1>4
      <4>2. s.out = Upto(values, (n + 1) - 1)
        BY <3>1 DEF Boundary
      <4> QED BY <4>1, <4>2
    <3>3. Len(s.out) = n
      <4>1. n \in 0 .. n
        BY <1>4
      <4> QED BY <3>2, <4>1, UptoIs
    <3>4. extend_runs(sent, n, s) = s
      BY <3>3 DEF extend_runs
    <3> QED BY <2>2, <2>3, <2>4, <2>5, <3>1, <3>4
  <2>6. CASE i # n + 1
    <3>1. i \in 1 .. n /\ Starts(values, i)
      BY <1>5, <2>1, <2>3, <2>6
    <3>2. extend_runs(sent, n, Boundary(off, values, i)) = Boundary(off, values, RunEnd(values, i))
      BY <1>1, <3>1, ReadsRound
    <3> QED BY <2>2, <2>3, <2>4, <2>6, <3>2
  <2> QED BY <2>5, <2>6
<1>9. P(g)
  <2>1. \A m \in 0 .. L : g[m] = IF m = 0 THEN start ELSE extend_runs(sent, n, g[m - 1])
    <3> TAKE m \in 0 .. L
    <3>1. CASE m = 0
      BY <3>1, <1>7
    <3>2. CASE m # 0
      <4>1. m \in 1 .. L
        BY <3>2
      <4> HIDE DEF g
      <4> QED BY <3>2, <4>1, <1>8
    <3> QED BY <3>1, <3>2
  <2>2. g = [m \in 0 .. L |-> g[m]]
    OBVIOUS
  <2> HIDE DEF g
  <2> QED BY <2>1, <2>2, <1>2
<1>10. P(round)
  <2> HIDE DEF P
  <2> QED BY <1>9
<1>11. \A m \in 0 .. L : round[m] = IF m = 0 THEN start ELSE extend_runs(sent, n, round[m - 1])
  <2> HIDE DEF round
  <2> QED BY <1>10, <1>2
<1> HIDE DEF g, round, P
<1> DEFINE S == {m \in 0 .. L : round[m] = g[m]}
<1>12. 0 \in S
  BY <1>7, <1>11
<1>13. ASSUME NEW m \in 0 .. L - 1, m \in S PROVE m + 1 \in S
  <2>1. m + 1 \in 1 .. L /\ m + 1 \in 0 .. L /\ (m + 1) - 1 = m /\ m + 1 # 0
    OBVIOUS
  <2>2. g[m + 1] = extend_runs(sent, n, g[m])
    BY <1>8, <2>1
  <2>3. round[m + 1] = extend_runs(sent, n, round[m])
    BY <1>11, <2>1
  <2> QED BY <1>13, <2>1, <2>2, <2>3
<1>14. L \in S
  <2> HIDE DEF S
  <2>1. \A m \in 0 .. L : m \in S
    BY <1>12, <1>13, UpTo
  <2> QED BY <2>1
<1>15. PICK end : end = round[L]
  OBVIOUS
<1>16. end = Boundary(off, values, n + 1)
  <2>1. L \in 0 .. L
    OBVIOUS
  <2> QED BY <1>6, <1>14, <1>15, <2>1 DEF g
<1>17. end.ok = TRUE /\ end.out = values
  <2>1. (n + 1) - 1 = n /\ Upto(values, n) = values
    BY <1>4, UptoIs
  <2>2. end.ok = TRUE /\ end.out = Upto(values, (n + 1) - 1)
    BY <1>16 DEF Boundary
  <2> QED BY <2>1, <2>2
<1>18. Len(end.out) = n
  BY <1>17, PixelsAre
<1>19. decode_rvl_stream(sent, n) = [end EXCEPT !.ok = @ /\ Len(end.out) = n]
  <2>1. decode_rvl_stream(sent, n) = [round[Len(sent)] EXCEPT !.ok = @ /\ Len(round[Len(sent)].out) = n]
    BY Zenon DEF decode_rvl_stream, round, P, start
  <2> QED BY <2>1, <1>2, <1>15
<1>20. (end.ok /\ Len(end.out) = n) = TRUE
  BY <1>17, <1>18
<1> HIDE DEF round
<1>21. end = [pos |-> off[(n + 1) - 1] + 1, out |-> Upto(values, (n + 1) - 1), previous |->
       Previous(values, n + 1), ok |-> TRUE]
  BY <1>16 DEF Boundary
<1>22. [end EXCEPT !.ok = @ /\ Len(end.out) = n].ok = TRUE
       /\ [end EXCEPT !.ok = @ /\ Len(end.out) = n].out = values
  BY <1>17, <1>20, <1>21
<1> QED BY <1>0, <1>19, <1>22

(* A depth image that was written as an RVL stream is read back as it was
   (encode_rvl_stream_fixture of the tests against decode_rvl_stream): whatever
   the pixels, the runs of missing and of other depths, the lengths of their
   integers and how many share the last word, no depth is changed, lost or
   moved, and a sound stream is never taken for a broken one.                 *)
THEOREM ReadsRvl ==
  ASSUME NEW values, NEW n, Pixels(values, n), NEW width \in Nat \ {0}, NEW height \in Nat \ {0},
         width * height = n
  PROVE  decode_rvl_depth(Rvl(width, height, values)) = DepthImage(width, height, values)
<1>1. PICK payload : payload = Rvl(width, height, values)
  OBVIOUS
<1>2. payload.kind = "rvl" /\ payload.width = width /\ payload.height = height
      /\ payload.stream = encode_rvl_stream(values)
  BY <1>1 DEF Rvl
<1>3. PICK end : end = decode_rvl_stream(encode_rvl_stream(values), n)
  OBVIOUS
<1>4. end.ok = TRUE /\ end.out = values
  BY <1>3, ReadsStream
<1>5. decode_rvl_depth(payload)
        = LET f == decode_rvl_stream(payload.stream, payload.width * payload.height)
          IN  IF f.ok THEN DepthImage(payload.width, payload.height, f.out) ELSE Invalid
  BY <1>2 DEF decode_rvl_depth
<1>6. decode_rvl_stream(payload.stream, payload.width * payload.height) = end
  BY <1>2, <1>3
<1> QED BY <1>1, <1>2, <1>4, <1>5, <1>6

-----------------------------------------------------------------------------
(* The configuration, the samples of a frame that is kept. *)
Asked == DepthConfig(depth_request)

DepthFitsSize(c, width, height) == is_lossless(c.codec) \/ (width % 2 = 0 /\ height % 2 = 0)

FrameSize(c, image) == FrameSamples(DepthPixelFormat(c), image.width, image.height)

SameSizes(images, n) ==
  \A k \in 1 .. n :
    images[k] # None /\ images[k].width = images[1].width /\ images[k].height = images[1].height

(* What was ingested is what was sent. *)
DepthSent ==
  /\ depth_request \in DepthRequests
  /\ Len(seen) \in Nat /\ Len(depth_data) = Len(seen)
  /\ seen = [k \in 1 .. Len(seen) |-> seen[k]] /\ depth_data = [k \in 1 .. Len(seen) |-> depth_data[k]]
  /\ \A k \in 1 .. Len(seen) :
       IF seen[k] = None THEN decode_depth_frame(depth_data[k]).kind # "image"
       ELSE IsDepthImage(seen[k]) /\ decode_depth_frame(depth_data[k]) = seen[k]
  /\ ~set_back => \A k \in 1 .. Len(seen) : depth_data[k].index = k - 1

DepthFresh ==
  depth_stage = "ingest" => process = None /\ artifact = None /\ bins = <<>> /\ meta = None /\ decoded = <<>>

(* The raw files of the first n images. *)
SavedUpTo(n) ==
  \A k \in 1 .. n :
    /\ seen[k] # None /\ depth_data[k].index \in DOMAIN bins
    /\ \/ bins[depth_data[k].index] = seen[k].values
       \/ \E j \in k + 1 .. n : depth_data[j].index = depth_data[k].index

(* The raw files so far, and the size. *)
DepthSaved ==
  /\ \A index \in DOMAIN bins : \E k \in 1 .. Len(seen) :
       depth_data[k].index = index /\ seen[k] # None /\ bins[index] = seen[k].values
  /\ depth_stage = "images" =>
       /\ depth_at \in 0 .. Len(seen) /\ SavedUpTo(depth_at)
       /\ process = None /\ artifact = None /\ meta = None /\ decoded = <<>>
  /\ meta # None => SavedUpTo(Len(seen))
  /\ meta # None => Len(seen) > 0 /\ seen[Len(seen)] # None
                    /\ meta.width = seen[Len(seen)].width /\ meta.height = seen[Len(seen)].height

(* The samples of the first n images, one after the other. *)
DepthWritten(c, n, written) ==
  LET size == FrameSize(c, seen[1])
  IN  /\ written \in Seq(Nat) /\ Len(written) = n * size
      /\ \A k \in 1 .. n : \A j \in 1 .. size : written[(k - 1) * size + j] = Samples(c, seen[k])[j]

DepthEncodes ==
  /\ depth_stage = "video" => depth_at \in 0 .. Len(seen) /\ artifact = None /\ decoded = <<>>
  /\ process # None =>
       /\ depth_stage = "video" /\ Len(seen) > 0 /\ seen[1] # None /\ depth_validate(Asked)
       /\ process = [arguments |-> process.arguments, written |-> process.written]
       /\ process.arguments = DepthArguments(Asked, seen[1].width, seen[1].height)
       /\ SameSizes(seen, depth_at)
       /\ DepthFitsSize(Asked, seen[1].width, seen[1].height) =>
            DepthWritten(Asked, depth_at, process.written)

(* A video is whole. *)
DepthVideoIs ==
  /\ depth_stage # "video" /\ Len(seen) > 0 /\ SameSizes(seen, Len(seen)) /\ depth_validate(Asked)
  /\ artifact.metadata = depth_metadata(Asked, seen[1].width, seen[1].height)
  /\ DepthFitsSize(Asked, seen[1].width, seen[1].height) =>
       /\ artifact.file.pix_fmt = DepthPixelFormat(Asked)
       /\ artifact.file.width = seen[1].width /\ artifact.file.height = seen[1].height
       /\ artifact.file.frames =
            [k \in 1 .. Len(seen) |->
               [i \in 1 .. seen[1].width * seen[1].height |-> Samples(Asked, seen[k])[i]]]
       /\ \A d \in ToSet(decoded) :
            d.index \in 0 .. Len(seen) - 1 /\ DepthFrameKept(Asked, seen[d.index + 1], d.image)

DepthRecorded ==
  /\ Len(decoded) \in Nat /\ decoded = [k \in 1 .. Len(decoded) |-> decoded[k]]
  /\ depth_stage = "decode" => depth_at \in Nat
  /\ depth_stage = "decode" \/ artifact # None => DepthVideoIs

DepthInv == DepthSent /\ DepthFresh /\ DepthSaved /\ DepthEncodes /\ DepthRecorded

LEMMA LenIs ==
  ASSUME NEW n \in Nat, NEW f, f = [i \in 1 .. n |-> f[i]]
  PROVE  Len(f) = n /\ DOMAIN f = 1 .. n /\ \A S : (\A i \in 1 .. n : f[i] \in S) => f \in Seq(S)
<1>1. DOMAIN f = 1 .. n
  OBVIOUS
<1>2. ASSUME NEW S, \A i \in 1 .. n : f[i] \in S PROVE f \in Seq(S)
  <2>1. f \in [1 .. n -> S]
    BY <1>2
  <2> QED BY <2>1, SeqDef
<1>3. PICK S : \A i \in 1 .. n : f[i] \in S
  <2>1. \A i \in 1 .. n : f[i] \in {f[k] : k \in 1 .. n}
    OBVIOUS
  <2> QED BY <2>1
<1>4. f \in Seq(S)
  BY <1>2, <1>3
<1>5. Len(f) \in Nat /\ DOMAIN f = 1 .. Len(f)
  BY <1>4, LenProperties
<1>6. Len(f) = n
  BY <1>1, <1>5
<1> QED BY <1>1, <1>2, <1>6

(* What the camera saw comes out of the message, or the message is garbled. *)
LEMMA DepthMessageIs ==
  ASSUME NEW m, IsDepthMessage(m), NEW frame, frame.ros_format = m.ros_format, frame.payload = m.payload
  PROVE  IF m.seen = None THEN decode_depth_frame(frame).kind # "image"
         ELSE IsDepthImage(m.seen) /\ decode_depth_frame(frame) = m.seen
<1>1. decode_depth_frame(frame) = decode_depth_frame(m)
  BY Zenon DEF decode_depth_frame
<1>2. CASE m.seen = None
  BY <1>1, <1>2 DEF IsDepthMessage
<1>3. CASE m.seen # None
  <2> DEFINE i == m.seen
  <2>1. PICK f : f = resolve_format_or_sniff_png(m.ros_format, m.payload)
    OBVIOUS
  <2>2. /\ IsDepthImage(i)
        /\ \/ f = "Depth16Png" /\ m.payload = Png("luma16", i.width, i.height, i.values)
           \/ f = "Depth16Rvl" /\ m.payload = Rvl(i.width, i.height, i.values)
    BY <1>3, <2>1, Zenon DEF IsDepthMessage
  <2>3. decode_depth_frame(m) = IF f = "Depth16Png" THEN decode_png_depth(m.payload)
                                ELSE IF f = "Depth16Rvl" THEN decode_rvl_depth(m.payload) ELSE Invalid
    BY <2>1 DEF decode_depth_frame
  <2>4. i = DepthImage(i.width, i.height, i.values)
    BY <2>2 DEF IsDepthImage
  <2>5. CASE f = "Depth16Png" /\ m.payload = Png("luma16", i.width, i.height, i.values)
    <3>1. decode_png_depth(m.payload) = DepthImage(i.width, i.height, i.values)
      <4> HIDE DEF i
      <4> QED BY <2>5 DEF decode_png_depth, Png
    <3> QED BY <1>1, <1>3, <2>2, <2>3, <2>4, <2>5, <3>1
  <2>6. CASE f = "Depth16Rvl" /\ m.payload = Rvl(i.width, i.height, i.values)
    <3>1. PICK w, h, v, n :
            /\ w \in Nat \ {0} /\ h \in Nat \ {0} /\ w = i.width /\ h = i.height /\ n = w * h
            /\ v = i.values /\ n < IntLimit /\ v \in [1 .. n -> 0 .. U16Max]
      BY <2>2, Zenon DEF IsDepthImage
    <3>2. n \in Nat \ {0}
      BY <3>1
    <3>3. Pixels(v, n)
      BY <3>1, <3>2 DEF Pixels
    <3>4. decode_rvl_depth(Rvl(w, h, v)) = DepthImage(w, h, v)
      BY <3>1, <3>3, ReadsRvl
    <3> QED BY <1>1, <1>3, <2>2, <2>3, <2>4, <2>6, <3>1, <3>4
  <2> QED BY <2>2, <2>5, <2>6
<1> QED BY <1>2, <1>3

LEMMA ImageIs ==
  ASSUME NEW i, IsDepthImage(i)
  PROVE  /\ i.kind = "image" /\ i.width \in Nat \ {0} /\ i.height \in Nat \ {0}
         /\ i.width * i.height \in Nat \ {0}
         /\ i.values \in [1 .. i.width * i.height -> 0 .. U16Max]
         /\ DOMAIN i.values = 1 .. i.width * i.height
<1>1. i.kind = "image"
  <2>1. PICK w, h, v : i = DepthImage(w, h, v)
    BY DEF IsDepthImage
  <2> QED BY <2>1 DEF DepthImage
<1>2. i.width \in Nat \ {0} /\ i.height \in Nat \ {0} /\ i.values \in [1 .. i.width * i.height -> 0 .. U16Max]
  BY Zenon DEF IsDepthImage
<1>3. i.width * i.height \in Nat \ {0}
  <2>1. \A a, b \in Nat \ {0} : a * b \in Nat \ {0}
    OBVIOUS
  <2> QED BY <1>2, <2>1
<1> QED BY <1>1, <1>2, <1>3

IsDepthConfig(c) ==
  /\ c = [depth_max_mm |-> c.depth_max_mm, fps |-> c.fps, codec |-> c.codec, options |-> c.options]
  /\ c.codec \in DepthCodec /\ c.depth_max_mm \in Nat /\ c.depth_max_mm <= U16Max

LEMMA DepthConfigIs ==
  ASSUME NEW r \in DepthRequests
  PROVE  IsDepthConfig(DepthConfig(r))
<1> DEFINE c == DepthConfig(r)
           top == With(IF r.door = "python" THEN PyTop ELSE YamlTop, r.given)
<1>1. r.codec \in DepthCodec \cup {None}
      /\ ("depth_max_mm" \in DOMAIN r.given => r.given["depth_max_mm"] \in 0 .. U16Max)
  BY DepthRequestsAssumption
<1>2. c = [depth_max_mm |-> top.depth_max_mm, fps |-> top.fps, codec |-> c.codec, options |-> c.options]
      /\ c.codec = Or(r.codec, "AV1")
  BY DEF DepthConfig
<1>3. top.depth_max_mm \in 0 .. U16Max
  <2>1. \A f : f \in {PyTop, YamlTop} => "depth_max_mm" \in DOMAIN f /\ f["depth_max_mm"] = 4092
    BY DEF PyTop, YamlTop
  <2>2. PICK f : f = IF r.door = "python" THEN PyTop ELSE YamlTop
    OBVIOUS
  <2>3. "depth_max_mm" \in DOMAIN f /\ f["depth_max_mm"] = 4092
    BY <2>1, <2>2
  <2>4. With(f, r.given)["depth_max_mm"]
        = IF "depth_max_mm" \in DOMAIN r.given THEN r.given["depth_max_mm"] ELSE 4092
    BY <2>3 DEF With
  <2>5. 4092 \in 0 .. U16Max
    BY SMT DEF U16Max
  <2> QED BY <1>1, <2>2, <2>4, <2>5
<1>4. c.codec \in DepthCodec
  BY <1>1, <1>2 DEF Or, DepthCodec
<1>5. c.depth_max_mm = top.depth_max_mm
  BY <1>2
<1> HIDE DEF c, top
<1>6. c.depth_max_mm \in Nat /\ c.depth_max_mm <= U16Max
  BY <1>3, <1>5, U16Is
<1>7. c = [depth_max_mm |-> c.depth_max_mm, fps |-> c.fps, codec |-> c.codec, options |-> c.options]
  BY <1>2
<1> QED BY <1>4, <1>6, <1>7 DEF IsDepthConfig, c

LEMMA CodecIs == ASSUME NEW c, IsDepthConfig(c) PROVE c.codec \in DepthCodec
BY DEF IsDepthConfig

(* What the arguments of an encoder say of a flag. *)
LEMMA PipeHas ==
  ASSUME NEW c, NEW w, NEW h, NEW a
  PROVE  a \in PipeArguments(c, w, h) <=>
           \/ a = <<"-f", "rawvideo">> \/ a = <<"-pix_fmt", DepthPixelFormat(c)>>
           \/ a = <<"-s", <<w, h>>>> \/ a = <<"-framerate", c.fps>>
           \/ c.codec \in DepthVaapi \cup DepthNvenc /\ a = <<"-color_range", "pc">>
BY DEF PipeArguments

Told(P, flag) == (CHOOSE a \in P : a[1] = flag)[2]

LEMMA PipeSays ==
  ASSUME NEW c, NEW w, NEW h, NEW P, P = PipeArguments(c, w, h)
  PROVE  /\ Told(P, "-s") = <<w, h>>
         /\ Told(P, "-pix_fmt") = DepthPixelFormat(c)
         /\ \A v, x : <<"-s", <<v, x>>>> \in P <=> v = w /\ x = h
<1>1. \A a \in P : (a[1] = "-s" => a = <<"-s", <<w, h>>>>)
      /\ (a[1] = "-pix_fmt" => a = <<"-pix_fmt", DepthPixelFormat(c)>>)
  BY PipeHas
<1>2. <<"-s", <<w, h>>>> \in P /\ <<"-pix_fmt", DepthPixelFormat(c)>> \in P
  BY PipeHas
<1>3. \A v, x : <<"-s", <<v, x>>>> \in P <=> v = w /\ x = h
  BY PipeHas
<1>4. \A s, x : x \in P /\ x[1] = s /\ (\A a \in P : a[1] = s => a = x) => (CHOOSE a \in P : a[1] = s) = x
  BY Zenon
<1>5. (CHOOSE a \in P : a[1] = "-s") = <<"-s", <<w, h>>>>
  <2>1. <<"-s", <<w, h>>>>[1] = "-s"
    OBVIOUS
  <2> QED BY <1>1, <1>2, <1>4, <2>1, Zenon
<1>6. (CHOOSE a \in P : a[1] = "-pix_fmt") = <<"-pix_fmt", DepthPixelFormat(c)>>
  <2>1. PICK x : x = <<"-pix_fmt", DepthPixelFormat(c)>>
    OBVIOUS
  <2>2. x[1] = "-pix_fmt" /\ x \in P
    BY <1>2, <2>1
  <2>3. \A a \in P : a[1] = "-pix_fmt" => a = x
    BY <1>1, <2>1
  <2> QED BY <1>4, <2>1, <2>2, <2>3, Zenon
<1>7. (CHOOSE a \in P : a[1] = "-s")[2] = <<w, h>>
      /\ (CHOOSE a \in P : a[1] = "-pix_fmt")[2] = DepthPixelFormat(c)
  <2>1. <<"-s", <<w, h>>>>[2] = <<w, h>>
    OBVIOUS
  <2>2. \A x, y, z : x = y /\ y[2] = z => x[2] = z
    OBVIOUS
  <2>3. PICK y : y = <<"-pix_fmt", DepthPixelFormat(c)>>
    OBVIOUS
  <2>4. y[2] = DepthPixelFormat(c)
    BY <2>3
  <2> QED BY <1>5, <1>6, <2>1, <2>2, <2>3, <2>4, Zenon
<1> QED BY <1>3, <1>7, Zenon DEF Told

LEMMA DepthVaapiHas ==
  ASSUME NEW c, NEW f, NEW x
  PROVE  <<f, x>> \in DepthVaapiArguments(c) <=>
           \/ f = "-vaapi_device" /\ x = Or(c.options.device, DEFAULT_VAAPI_DEVICE)
           \/ f = "-vf" /\ x = "format=p010,hwupload"
           \/ f = "-g" /\ x = 30
           \/ f = "-rc_mode" /\ x = "CQP"
           \/ f = "-profile:v" /\ x = (IF c.codec = "H265_VAAPI" THEN "main10" ELSE "main")
           \/ f = "-qp" /\ c.codec = "H265_VAAPI" /\ x = c.options.qp
           \/ f = "-global_quality" /\ c.codec # "H265_VAAPI" /\ x = c.options.global_quality
BY DEF DepthVaapiArguments

LEMMA DepthNvencHas ==
  ASSUME NEW c, NEW f, NEW x
  PROVE  <<f, x>> \in DepthNvencArguments(c) <=>
           \/ f = "-pix_fmt" /\ x = "p010le"
           \/ f = "-color_range" /\ x = "pc"
           \/ f = "-rc" /\ x = "constqp"
           \/ f = "-qp" /\ x = c.options.qp
           \/ f = "-g" /\ x = 30
           \/ f = "-bf" /\ x = c.options.b_frames
           \/ f = "-preset" /\ x = c.options.preset
           \/ f = "-profile:v" /\ x = "main10" /\ c.codec = "H265_NVENC"
           \/ f = "-b_ref_mode" /\ x = "middle" /\ c.options.b_frames > 0
           \/ f = "-rc-lookahead" /\ x = c.options["rc_lookahead"] /\ x # None
           \/ f = "-tune" /\ x = c.options["tune"] /\ x # None
           \/ f = "-gpu" /\ x = c.options["gpu"] /\ x # None
BY WhenHas DEF DepthNvencArguments

LEMMA DepthSoftwareHas ==
  ASSUME NEW c, NEW f, NEW x
  PROVE  <<f, x>> \in DepthSoftwareArguments(c) <=>
           IF c.codec = "FFV1"
           THEN \/ f = "-level" /\ x = 3
                \/ f = "-coder" /\ x = 1
                \/ f = "-context" /\ x = 1
                \/ f = "-g" /\ x = 1
                \/ f = "-slicecrc" /\ x = 1
           ELSE \/ f = "-preset" /\ x = c.options.preset
                \/ f = "-crf" /\ x = c.options.crf
                \/ f = "-g" /\ x = 30
                \/ f = "-pix_fmt" /\ x = "yuv420p10le"
BY DEF DepthSoftwareArguments

LEMMA DepthOutputHas ==
  ASSUME NEW c, NEW w, NEW h, NEW f, NEW x
  PROVE  <<f, x>> \in DepthArguments(c, w, h).output <=>
           \/ f = "-c:v" /\ x = depth_encoder_name[c.codec]
           \/ f = "to" /\ x = video_extension(c.codec)
           \/ c.codec \in DepthVaapi /\ <<f, x>> \in DepthVaapiArguments(c)
           \/ c.codec \notin DepthVaapi /\ c.codec \in DepthNvenc /\ <<f, x>> \in DepthNvencArguments(c)
           \/ c.codec \notin DepthVaapi /\ c.codec \notin DepthNvenc /\ <<f, x>> \in DepthSoftwareArguments(c)
BY DEF DepthArguments, DepthVaapi, DepthNvenc

LEMMA DepthCodecSays ==
  ASSUME NEW c, NEW w, NEW h, NEW x
  PROVE  <<"-c:v", x>> \in DepthArguments(c, w, h).output <=> x = depth_encoder_name[c.codec]
<1>1. <<"-c:v", x>> \notin DepthVaapiArguments(c)
  BY DepthVaapiHas
<1>2. <<"-c:v", x>> \notin DepthNvencArguments(c)
  BY DepthNvencHas
<1>3. <<"-c:v", x>> \notin DepthSoftwareArguments(c)
  BY DepthSoftwareHas
<1> QED BY <1>1, <1>2, <1>3, DepthOutputHas

LEMMA DepthNamesAre ==
  ASSUME NEW a \in DepthCodec, NEW b \in DepthCodec
  PROVE  /\ depth_encoder_name[a] = depth_encoder_name[b] => a = b
         /\ depth_encoder_name[a] \in {"hevc_vaapi", "av1_vaapi", "hevc_nvenc", "av1_nvenc"}
              => a \in DepthVaapi \cup DepthNvenc
BY DEF depth_encoder_name, DepthCodec, DepthVaapi, DepthNvenc

LEMMA QuantizeIs ==
  ASSUME NEW max \in Nat, max <= U16Max, NEW depth \in Nat, depth <= U16Max
  PROVE  /\ Quantize(max, depth) \in Nat /\ Quantize(max, depth) <= 1023
         /\ Kept(max, depth, Dequantize(max, Quantize(max, depth)))
<1>1. max <= 65535 /\ depth <= 65535
  BY SMT DEF U16Max
<1>2. CASE depth = 0 \/ depth > max
  <2>1. Quantize(max, depth) = 0
    BY <1>2 DEF Quantize
  <2>2. Dequantize(max, 0) = 0
    BY DEF Dequantize
  <2> QED BY <1>2, <2>1, <2>2 DEF Kept
<1>3. CASE 0 < depth /\ depth <= max
  <2>1. 0 < max
    BY <1>3
  <2>2. PICK h \in Nat, q \in Nat : Rounded(max, depth, h, q)
    BY <1>1, <1>3, <2>1, Quantized
  <2>3. q = Quantize(max, depth) /\ q <= 1023
    BY <2>2 DEF Rounded
  <2> QED BY <1>1, <2>1, <2>3, QuantizationKeeps
<1> QED BY <1>2, <1>3

(* Ten bits come back from a P010 sample, and from its upper bits. *)
LEMMA UnpackedIs ==
  ASSUME NEW q \in Nat, q <= 1023
  PROVE  /\ Unpacked("p010le", Packed(q)) = q
         /\ Unpacked("yuv420p10le", Packed(q) \div 64) = q
BY DEF Unpacked, Packed

LEMMA Joined ==
  ASSUME NEW T, NEW a \in Seq(T), NEW b \in Seq(T), NEW n \in Nat, NEW m \in Nat, Len(a) = n, Len(b) = m
  PROVE  /\ a \o b \in Seq(T) /\ Len(a \o b) = n + m
         /\ \A i \in 1 .. n : (a \o b)[i] = a[i]
         /\ \A j \in 1 .. m : (a \o b)[n + j] = b[j]
<1>1. a \o b \in Seq(T)
  BY Concat
<1>2. Len(a \o b) = Len(a) + Len(b)
  BY Concat
<1>3. ASSUME NEW i \in 1 .. n PROVE (a \o b)[i] = a[i]
  BY Concat
<1>4. ASSUME NEW j \in 1 .. m PROVE (a \o b)[n + j] = b[j]
  BY Concat
<1> QED BY <1>1, <1>2, <1>3, <1>4

(* A sequence that is made of n parts of a size, with one part more. *)
Parts(a, n, size) == a \in Seq(Nat) /\ Len(a) = n * size

Extends(s, a, b, n, size) ==
  /\ \A k \in 1 .. n : \A j \in 1 .. size :
       (k - 1) * size + j \in 1 .. n * size /\ s[(k - 1) * size + j] = a[(k - 1) * size + j]
  /\ \A j \in 1 .. size : s[n * size + j] = b[j]

LEMMA Chunk ==
  ASSUME NEW n \in Nat, NEW size \in Nat, NEW a, Parts(a, n, size), NEW b \in Seq(Nat), Len(b) = size
  PROVE  Parts(a \o b, n + 1, size) /\ Extends(a \o b, a, b, n, size)
<1>0. a \in Seq(Nat)
  BY DEF Parts
<1>1. PICK m \in Nat : m = Len(a) /\ m = n * size
  BY <1>0, Concat DEF Parts
<1>2. a \o b \in Seq(Nat) /\ Len(a \o b) = m + size
  <2>1. a \o b \in Seq(Nat) /\ Len(a \o b) = Len(a) + Len(b)
    BY <1>0, Concat
  <2> QED BY <1>1, <2>1
<1>3. ASSUME NEW i \in 1 .. m PROVE (a \o b)[i] = a[i]
  <2>1. i \in 1 .. Len(a)
    BY <1>1
  <2> QED BY <1>0, <2>1, Concat
<1>4. ASSUME NEW j \in 1 .. size PROVE (a \o b)[m + j] = b[j]
  <2>1. j \in 1 .. Len(b) /\ m = Len(a)
    BY <1>1
  <2>2. (a \o b)[Len(a) + j] = b[j]
    BY <1>0, <2>1, Concat
  <2> QED BY <2>1, <2>2, Zenon
<1>5. (n + 1) * size = m + size
  BY <1>1
<1>6. ASSUME NEW k \in 1 .. n, NEW j \in 1 .. size
      PROVE  (k - 1) * size + j \in 1 .. m
  <2>1. k - 1 \in Nat /\ n - 1 \in Nat /\ k - 1 <= n - 1
    OBVIOUS
  <2>2. (k - 1) * size <= (n - 1) * size
    BY <2>1, Multiples
  <2>3. (n - 1) * size = n * size - size /\ (k - 1) * size \in Nat
    BY <2>1
  <2> QED BY <1>1, <2>2, <2>3
<1>7. Parts(a \o b, n + 1, size)
  BY <1>2, <1>5 DEF Parts
<1>8. Extends(a \o b, a, b, n, size)
  BY <1>1, <1>3, <1>4, <1>6, Zenon DEF Extends
<1> QED BY <1>7, <1>8

LEMMA FrameSizeIs ==
  ASSUME NEW c, NEW w \in Nat \ {0}, NEW h \in Nat \ {0},
         NEW size, size = FrameSamples(DepthPixelFormat(c), w, h)
  PROVE      /\ size \in Nat \ {0} /\ w * h <= size
             /\ is_lossless(c.codec) => size = w * h
             /\ ~ is_lossless(c.codec) /\ w % 2 = 0 /\ h % 2 = 0 => size = w * h + 2 * (w \div 2) * (h \div 2)
<1> DEFINE p == 2 * ((w + 1) \div 2) * ((h + 1) \div 2)
<1>1. (w + 1) \div 2 \in Nat /\ (h + 1) \div 2 \in Nat
  BY Division
<1>2. p \in Nat
  <2>1. \A x, y \in Nat : 2 * x * y \in Nat
    OBVIOUS
  <2> QED BY <1>1, <2>1
<1>3. w * h \in Nat \ {0}
  OBVIOUS
<1>4. w % 2 = 0 /\ h % 2 = 0 => p = 2 * (w \div 2) * (h \div 2)
  <2>1. \A x \in Nat : x % 2 = 0 => (x + 1) \div 2 = x \div 2
    OBVIOUS
  <2> QED BY <2>1
<1>5. FrameSamples(DepthPixelFormat(c), w, h) = w * h + IF is_lossless(c.codec) THEN 0 ELSE p
  BY DEF FrameSamples, DepthPixelFormat
<1> HIDE DEF p
<1> QED BY <1>2, <1>3, <1>4, <1>5

Sampled(c, depth) == IF is_lossless(c.codec) THEN depth ELSE Packed(Quantize(c.depth_max_mm, depth))

LEMMA SamplesAre ==
  ASSUME NEW c, IsDepthConfig(c), NEW i, IsDepthImage(i), DepthFitsSize(c, i.width, i.height)
  PROVE  /\ Samples(c, i) \in Seq(Nat) /\ Len(Samples(c, i)) = FrameSize(c, i)
         /\ \A j \in 1 .. i.width * i.height : Samples(c, i)[j] = Sampled(c, i.values[j])
<1> DEFINE max == c.depth_max_mm
<1>1. PICK w \in Nat \ {0}, h \in Nat \ {0}, n \in Nat \ {0} : w = i.width /\ h = i.height /\ n = w * h
  BY ImageIs
<1>2. PICK v : v = i.values /\ v \in [1 .. n -> 0 .. U16Max] /\ DOMAIN v = 1 .. n
  BY <1>1, ImageIs
<1>3. PICK size : size = FrameSize(c, i)
  OBVIOUS
<1>4. /\ is_lossless(c.codec) => size = n
      /\ ~ is_lossless(c.codec) /\ w % 2 = 0 /\ h % 2 = 0 => size = n + 2 * (w \div 2) * (h \div 2)
  <2>1. size = FrameSamples(DepthPixelFormat(c), w, h)
    BY <1>1, <1>3 DEF FrameSize
  <2> QED BY <1>1, <2>1, FrameSizeIs
<1>5. \A k \in 1 .. n : v[k] \in Nat /\ v[k] <= U16Max
  BY <1>2, U16Is
<1>6. CASE is_lossless(c.codec)
  <2>1. Samples(c, i) = v
    BY <1>2, <1>6 DEF Samples
  <2>2. v = [k \in 1 .. n |-> v[k]]
    BY <1>2
  <2>3. v \in Seq(Nat) /\ Len(v) = n
    BY <1>5, <2>2, LenIs
  <2> QED BY <1>1, <1>2, <1>3, <1>4, <1>6, <2>1, <2>3 DEF Sampled
<1>7. CASE ~ is_lossless(c.codec)
  <2>1. w % 2 = 0 /\ h % 2 = 0
    BY <1>1, <1>7 DEF DepthFitsSize
  <2>2. max \in Nat /\ max <= U16Max
    BY DEF IsDepthConfig
  <2>3. PICK q10 : q10 = [k \in 1 .. n |-> Quantize(max, v[k])]
    OBVIOUS
  <2>4. PICK a : a = [k \in 1 .. n |-> Packed(q10[k])]
    OBVIOUS
  <2>5. PICK m \in Nat : m = 2 * (w \div 2) * (h \div 2)
    <3>1. w \div 2 \in Nat /\ h \div 2 \in Nat
      BY Division
    <3>2. \A x, y \in Nat : 2 * x * y \in Nat
      OBVIOUS
    <3> QED BY <3>1, <3>2
  <2>13. PICK x \in Nat : x = 32768
    OBVIOUS
  <2>6. PICK b : b = [k \in 1 .. m |-> x]
    OBVIOUS
  <2>7. Samples(c, i) = q10_to_p010le(q10, w, h)
    BY <1>1, <1>2, <1>7, <2>3 DEF Samples
  <2>8. q10_to_p010le(q10, w, h) = a \o b
    <3>1. DOMAIN q10 = 1 .. n
      BY <2>3
    <3>2. a = [k \in DOMAIN q10 |-> Packed(q10[k])]
      BY <2>4, <3>1
    <3>3. b = [k \in 1 .. 2 * (w \div 2) * (h \div 2) |-> x]
      BY <2>5, <2>6
    <3> QED BY <2>13, <2>6, <3>2, <3>3 DEF q10_to_p010le
  <2>9. a \in Seq(Nat) /\ Len(a) = n
    <3>1. \A k \in 1 .. n : q10[k] \in Nat
      BY <1>5, <2>2, <2>3, QuantizeIs
    <3>2. \A k \in 1 .. n : a[k] \in Nat
      BY <2>4, <3>1 DEF Packed
    <3>3. a = [k \in 1 .. n |-> a[k]]
      BY <2>4
    <3> QED BY <3>2, <3>3, LenIs
  <2>10. b \in Seq(Nat) /\ Len(b) = m
    <3>1. \A k \in 1 .. m : b[k] \in Nat
      BY <2>6
    <3>2. b = [k \in 1 .. m |-> b[k]]
      BY <2>6
    <3> QED BY <3>1, <3>2, LenIs
  <2>11. a \o b \in Seq(Nat) /\ Len(a \o b) = n + m /\ \A k \in 1 .. n : (a \o b)[k] = a[k]
    BY <2>9, <2>10, Joined
  <2>12. \A k \in 1 .. n : a[k] = Sampled(c, v[k])
    BY <1>7, <2>3, <2>4 DEF Sampled
  <2> QED BY <1>1, <1>2, <1>3, <1>4, <1>7, <2>1, <2>5, <2>7, <2>8, <2>11, <2>12
<1> QED BY <1>6, <1>7

LEMMA NotSqueezed ==
  ASSUME NEW c, IsDepthConfig(c), NEW w, NEW h,
         NEW name, name \in {"hevc_vaapi", "av1_vaapi", "hevc_nvenc", "av1_nvenc"},
         <<"-c:v", name>> \in DepthArguments(c, w, h).output
  PROVE  <<"-color_range", "pc">> \in DepthArguments(c, w, h).input
<1>1. name = depth_encoder_name[c.codec]
  BY DepthCodecSays
<1>2. c.codec \in DepthCodec
  BY DEF IsDepthConfig
<1>3. c.codec \in DepthVaapi \cup DepthNvenc
  BY <1>1, <1>2, DepthNamesAre
<1>4. <<"-color_range", "pc">> \in PipeArguments(c, w, h)
  BY <1>3, PipeHas
<1> QED BY <1>4 DEF DepthArguments

LEMMA DivisionOfMultiple ==
  ASSUME NEW n \in Nat, NEW size \in Nat \ {0}
  PROVE  (n * size) \div size = n
<1>1. PICK m \in Nat : m = n * size
  OBVIOUS
<1>2. PICK q \in Nat : q = m \div size
  BY Division
<1>3. PICK x \in Nat : x = q * size
  OBVIOUS
<1>4. x <= m /\ m < x + size
  BY <1>2, <1>3, Division
<1>5. ASSUME q < n PROVE FALSE
  <2>1. (q + 1) * size <= m
    <3>1. q + 1 <= n /\ q + 1 \in Nat
      BY <1>5
    <3> QED BY <1>1, <3>1, Multiples
  <2>2. (q + 1) * size = x + size
    BY <1>3
  <2> QED BY <1>4, <2>1, <2>2
<1>6. ASSUME n < q PROVE FALSE
  <2>1. (n + 1) * size <= x
    <3>1. n + 1 <= q /\ n + 1 \in Nat
      BY <1>6
    <3> QED BY <1>3, <3>1, Multiples
  <2>2. (n + 1) * size = m + size
    BY <1>1
  <2> QED BY <1>4, <2>1, <2>2
<1>7. q = n
  BY <1>5, <1>6
<1> QED BY <1>1, <1>2, <1>7

CutUp(file, c, width, height, n, size, written) ==
  /\ file.pix_fmt = DepthPixelFormat(c) /\ file.width = width /\ file.height = height
  /\ file.frames = [k \in 1 .. n |-> [i \in 1 .. width * height |-> written[(k - 1) * size + i]]]

(* ffmpeg cuts the samples into the frames they were written for. *)
LEMMA RecordedIs ==
  ASSUME NEW c, IsDepthConfig(c), NEW w \in Nat \ {0}, NEW h \in Nat \ {0}, NEW n \in Nat,
         NEW size \in Nat \ {0},
         size = FrameSamples(DepthPixelFormat(c), w, h), NEW written, Parts(written, n, size)
  PROVE  CutUp(Recorded(DepthArguments(c, w, h), written), c, w, h, n, size, written)
<1> DEFINE arguments == DepthArguments(c, w, h)
           Of(flag) == Told(arguments.input, flag)
           squeezed == /\ <<"-color_range", "pc">> \notin arguments.input
                       /\ \E name \in {"hevc_vaapi", "av1_vaapi", "hevc_nvenc", "av1_nvenc"} : <<"-c:v",
                          name>> \in arguments.output
           to == (CHOOSE a \in arguments.output : a[1] = "to")[2]
<1>1. arguments.input = PipeArguments(c, w, h)
  BY DEF DepthArguments
<1>2. Of("-s") = <<w, h>> /\ Of("-pix_fmt") = DepthPixelFormat(c)
  <2> HIDE DEF arguments
  <2> QED BY <1>1, PipeSays
<1>3. ~ squeezed
  BY NotSqueezed
<1>4. Of("-s")[1] = w /\ Of("-s")[2] = h
  <2>1. <<w, h>>[1] = w /\ <<w, h>>[2] = h
    OBVIOUS
  <2> HIDE DEF Of
  <2> QED BY <1>2, <2>1, Zenon
<1>5. PICK F : F = [k \in 1 .. Len(written) \div FrameSamples(Of("-pix_fmt"), Of("-s")[1], Of("-s")[2]) |->
                      [i \in 1 .. Of("-s")[1] * Of("-s")[2] |->
                         IF squeezed THEN Limited(written[(k - 1) * FrameSamples(Of("-pix_fmt"), Of("-s")[1],
                         Of("-s")[2]) + i])
                         ELSE written[(k - 1) * FrameSamples(Of("-pix_fmt"), Of("-s")[1], Of("-s")[2]) + i]]]
  BY Zenon
<1>6. Recorded(arguments, written)
        = [pix_fmt |-> Of("-pix_fmt"), width |-> Of("-s")[1], height |-> Of("-s")[2], extension |->
        to, frames |-> F]
  BY <1>5, Zenon DEF Recorded, Told
<1> HIDE DEF squeezed, Of, to, arguments
<1>7. PICK s : s = FrameSamples(Of("-pix_fmt"), Of("-s")[1], Of("-s")[2])
  OBVIOUS
<1>8. s = size
  BY <1>2, <1>4, <1>7, Zenon
<1>9. Len(written) \div size = n
  BY DivisionOfMultiple DEF Parts
<1>10. F = [k \in 1 .. n |-> [i \in 1 .. w * h |-> written[(k - 1) * size + i]]]
  <2>1. F = [k \in 1 .. Len(written) \div s |->
               [i \in 1 .. w * h |-> IF squeezed THEN Limited(written[(k - 1) * s + i]) ELSE written[(k - 1) * s + i]]]
    BY <1>4, <1>5, <1>7, Zenon
  <2>2. Len(written) \div s = n
    BY <1>8, <1>9
  <2> QED BY <1>3, <1>8, <2>1, <2>2, Zenon
<1>11. PICK f : f = Recorded(arguments, written)
  OBVIOUS
<1>12. f.pix_fmt = Of("-pix_fmt") /\ f.width = Of("-s")[1] /\ f.height = Of("-s")[2] /\ f.frames = F
  BY <1>6, <1>11
<1>13. CutUp(f, c, w, h, n, size, written)
  BY <1>2, <1>4, <1>10, <1>12, Zenon DEF CutUp
<1> QED BY <1>11, <1>13, Zenon DEF arguments

(* Frames of one size. *)
LEMMA WrittenGrows ==
  ASSUME NEW c, IsDepthConfig(c), NEW n \in Nat, NEW written, DepthWritten(c, n, written),
         IsDepthImage(seen[1]), IsDepthImage(seen[n + 1]),
         seen[n + 1].width = seen[1].width, seen[n + 1].height = seen[1].height,
         DepthFitsSize(c, seen[1].width, seen[1].height)
  PROVE  DepthWritten(c, n + 1, written \o Samples(c, seen[n + 1]))
<1>1. PICK w \in Nat \ {0}, h \in Nat \ {0} : w = seen[1].width /\ h = seen[1].height
  BY ImageIs
<1>2. PICK size : size = FrameSize(c, seen[1])
  OBVIOUS
<1>3. size \in Nat \ {0} /\ size = FrameSize(c, seen[n + 1])
  <2>1. size = FrameSamples(DepthPixelFormat(c), w, h)
    BY <1>1, <1>2 DEF FrameSize
  <2>2. size \in Nat \ {0}
    BY <2>1, FrameSizeIs
  <2> QED BY <1>1, <2>1, <2>2 DEF FrameSize
<1>4. PICK b : b = Samples(c, seen[n + 1]) /\ b \in Seq(Nat) /\ Len(b) = size
  BY <1>3, SamplesAre
<1>5. /\ written \in Seq(Nat) /\ Len(written) = n * size
      /\ \A k \in 1 .. n : \A j \in 1 .. size : written[(k - 1) * size + j] = Samples(c, seen[k])[j]
  BY <1>2, Zenon DEF DepthWritten
<1>6. PICK a : a = written \o b
  OBVIOUS
<1>7. /\ a \in Seq(Nat) /\ Len(a) = (n + 1) * size
      /\ \A k \in 1 .. n : \A j \in 1 .. size :
           (k - 1) * size + j \in 1 .. n * size /\ a[(k - 1) * size + j] = written[(k - 1) * size + j]
      /\ \A j \in 1 .. size : a[n * size + j] = b[j]
  <2>1. Parts(written, n, size) /\ b \in Seq(Nat) /\ n \in Nat /\ size \in Nat /\ Len(b) = size
    BY <1>3, <1>4, <1>5 DEF Parts
  <2>2. Parts(a, n + 1, size) /\ Extends(a, written, b, n, size)
    BY <1>6, <2>1, Chunk
  <2> QED BY <2>2, Zenon DEF Parts, Extends
<1>8. ASSUME NEW k \in 1 .. n + 1, NEW j \in 1 .. size
      PROVE  a[(k - 1) * size + j] = Samples(c, seen[k])[j]
  <2>1. CASE k \in 1 .. n
    BY <1>5, <1>7, <2>1, Zenon
  <2>2. CASE k = n + 1
    <3>1. k - 1 = n
      BY <2>2
    <3> QED BY <1>4, <1>7, <2>2, <3>1, Zenon
  <2> QED BY <2>1, <2>2
<1>9. a = written \o Samples(c, seen[n + 1])
  BY <1>4, <1>6
<1>10. DepthWritten(c, n + 1, a)
  BY <1>2, <1>7, <1>8, Zenon DEF DepthWritten
<1> QED BY <1>9, <1>10

LEMMA PixelBack ==
  ASSUME NEW c, IsDepthConfig(c), NEW depth \in 0 .. U16Max,
         NEW format, format \in IF DepthPixelFormat(c)
         = "gray16le" THEN {"gray16le"} ELSE {"p010le", "yuv420p10le"}
  PROVE  DepthPixelKept(c, depth,
                        DecodedSample(IF is_lossless(c.codec) THEN "RawGray16" ELSE "Q10",
                                      c.depth_max_mm, format, Sampled(c, depth)))
<1> DEFINE max == c.depth_max_mm
<1>1. CASE is_lossless(c.codec)
  BY <1>1 DEF DepthPixelKept, DecodedSample, Sampled
<1>2. CASE ~ is_lossless(c.codec)
  <2>1. max \in Nat /\ max <= U16Max /\ depth \in Nat /\ depth <= U16Max
    BY U16Is DEF IsDepthConfig
  <2>2. PICK q \in Nat : q = Quantize(max, depth) /\ q <= 1023 /\ Kept(max, depth, Dequantize(max, q))
    <3> HIDE DEF max
    <3> QED BY <2>1, QuantizeIs
  <2>3. format \in {"p010le", "yuv420p10le"}
    BY <1>2 DEF DepthPixelFormat
  <2>4. Sampled(c, depth) = Packed(q)
    BY <1>2, <2>2 DEF Sampled
  <2>5. Unpacked(format, IF format = "p010le" THEN Packed(q) ELSE Packed(q) \div 64) = q
    BY <2>2, <2>3, UnpackedIs
  <2>6. DecodedSample("Q10", max, format, Packed(q)) = Dequantize(max, q)
    BY <2>5, Zenon DEF DecodedSample
  <2>7. PICK r : r = DecodedSample("Q10", max, format, Packed(q))
    OBVIOUS
  <2> HIDE DEF max
  <2>8. Kept(max, depth, r)
    BY <2>2, <2>6, <2>7
  <2>9. DepthPixelKept(c, depth, r)
    BY <1>2, <2>8 DEF DepthPixelKept, max
  <2> QED BY <1>2, <2>4, <2>7, <2>9, Zenon DEF max
<1> QED BY <1>1, <1>2

LEMMA EmptyIs ==
  /\ Len(<<>>) = 0 /\ <<>> = [k \in 1 .. 0 |-> <<>>[k]] /\ ToSet(<<>>) = {}
  /\ \A s : s = [k \in 1 .. 0 |-> s[k]] => s = <<>>
<1>1. Len(<<>>) = 0
  BY EmptySeq
<1>2. 1 .. 0 = {}
  OBVIOUS
<1>3. <<>> \in Seq(Nat) /\ DOMAIN <<>> = 1 .. 0
  BY <1>1, EmptySeq, LenProperties
<1>4. <<>> = [k \in 1 .. 0 |-> <<>>[k]]
  <2>1. <<>> \in [1 .. 0 -> Nat]
    BY <1>1, <1>3, LenProperties
  <2> QED BY <2>1
<1>5. ToSet(<<>>) = {}
  BY <1>2, <1>3 DEF ToSet
<1>6. ASSUME NEW s, s = [k \in 1 .. 0 |-> s[k]] PROVE s = <<>>
  <2>1. [k \in 1 .. 0 |-> s[k]] = [k \in 1 .. 0 |-> <<>>[k]]
    BY <1>2
  <2> QED BY <1>4, <1>6, <2>1
<1> QED BY <1>1, <1>4, <1>5, <1>6

LEMMA Appended ==
  ASSUME NEW s, Len(s) \in Nat, s = [k \in 1 .. Len(s) |-> s[k]], NEW x, NEW t, t = Append(s, x)
  PROVE  /\ Len(t) = Len(s) + 1 /\ t = [k \in 1 .. Len(t) |-> t[k]]
         /\ \A k \in 1 .. Len(s) : t[k] = s[k]
         /\ t[Len(s) + 1] = x
         /\ ToSet(t) = ToSet(s) \cup {x}
<1> PICK S : S = {s[k] : k \in 1 .. Len(s)} \cup {x}
  OBVIOUS
<1>1. s \in Seq(S)
  BY LenIs
<1>2. x \in S
  OBVIOUS
<1>3. t \in Seq(S) /\ Len(t) = Len(s) + 1 /\ (\A k \in 1 .. Len(s) : t[k] = s[k]) /\ t[Len(s) + 1] = x
  BY <1>1, <1>2, AppendProperties
<1>4. t \in [1 .. Len(t) -> S] /\ DOMAIN t = 1 .. Len(t) /\ DOMAIN s = 1 .. Len(s)
  BY <1>1, <1>3, LenProperties
<1>5. t = [k \in 1 .. Len(t) |-> t[k]]
  BY <1>4
<1>6. ToSet(t) = ToSet(s) \cup {x}
  <2>1. 1 .. Len(t) = 1 .. Len(s) \cup {Len(s) + 1}
    BY <1>3
  <2>2. \A y : y \in ToSet(t) <=> \E k \in 1 .. Len(t) : y = t[k]
    BY <1>4 DEF ToSet
  <2>3. \A y : y \in ToSet(s) <=> \E k \in 1 .. Len(s) : y = s[k]
    BY <1>4 DEF ToSet
  <2>4. \A y : y \in ToSet(t) <=> y \in ToSet(s) \/ y = x
    BY <1>3, <2>1, <2>2, <2>3
  <2> QED BY <2>4
<1> QED BY <1>3, <1>5, <1>6

IsList(s) == Len(s) \in Nat /\ s = [k \in 1 .. Len(s) |-> s[k]]

LEMMA ListGrows ==
  ASSUME NEW s, IsList(s), NEW x
  PROVE  IsList(Append(s, x)) /\ ToSet(Append(s, x)) = ToSet(s) \cup {x}
<1> PICK t : t = Append(s, x)
  OBVIOUS
<1>1. Len(s) \in Nat /\ s = [k \in 1 .. Len(s) |-> s[k]]
  BY DEF IsList
<1>2. Len(t) = Len(s) + 1 /\ t = [k \in 1 .. Len(t) |-> t[k]]
  <2>1. PICK S : S = {s[k] : k \in 1 .. Len(s)} \cup {x}
    OBVIOUS
  <2>2. s \in Seq(S)
    BY <1>1, <2>1, LenIs
  <2>3. t \in Seq(S) /\ Len(t) = Len(s) + 1
    BY <2>1, <2>2, AppendProperties
  <2>4. t \in [1 .. Len(t) -> S]
    BY <2>3, LenProperties
  <2> QED BY <2>3, <2>4
<1>3. ToSet(t) = ToSet(s) \cup {x}
  BY <1>1, Appended, Zenon
<1>4. IsList(t)
  BY <1>1, <1>2 DEF IsList
<1> QED BY <1>3, <1>4, Zenon

LEMMA FrameIs ==
  ASSUME DepthSent, NEW k \in 1 .. Len(seen)
  PROVE  /\ decode_depth_frame(depth_data[k]).kind = "image" => seen[k] # None
         /\ seen[k] # None => IsDepthImage(seen[k]) /\ decode_depth_frame(depth_data[k]) = seen[k]
BY DEF DepthSent

LEMMA DataEmpty ==
  ASSUME DepthSent
  PROVE  depth_data = <<>> <=> Len(seen) = 0
<1>1. Len(depth_data) = Len(seen) /\ depth_data = [k \in 1 .. Len(seen) |-> depth_data[k]]
  BY DEF DepthSent
<1>2. CASE Len(seen) = 0
  BY <1>1, <1>2, EmptyIs
<1>3. CASE Len(seen) # 0
  BY <1>1, <1>3, EmptyIs
<1> QED BY <1>2, <1>3

LEMMA AskedIs == ASSUME DepthSent PROVE IsDepthConfig(Asked)
BY DepthConfigIs DEF DepthSent, Asked

LEMMA SentStays ==
  ASSUME DepthSent, UNCHANGED <<depth_request, seen, depth_data, set_back>>
  PROVE  DepthSent'
BY DEF DepthSent

LEMMA SavedStays ==
  ASSUME DepthSaved, UNCHANGED <<seen, depth_data, bins, meta>>, depth_stage' # "images"
  PROVE  DepthSaved'
BY DEF DepthSaved, SavedUpTo

LEMMA VideoStays ==
  ASSUME DepthVideoIs, UNCHANGED <<depth_request, seen, artifact, decoded>>, depth_stage' # "video"
  PROVE  DepthVideoIs'
BY DEF DepthVideoIs, Asked, SameSizes

LEMMA WrittenStays ==
  ASSUME NEW c, NEW n, NEW written, DepthWritten(c, n, written), UNCHANGED seen
  PROVE  DepthWritten(c, n, written)'
BY DEF DepthWritten

LEMMA DepthFailsKeeps ==
  ASSUME DepthInv, NEW s \in {"failed", "aborted"}, DepthFails(s)
  PROVE  DepthInv'
<1> USE DEF DepthFails, DepthInv
<1>1. DepthSent'
  BY SentStays
<1>2. DepthSaved'
  BY SavedStays
<1>3. DepthFresh' /\ DepthEncodes'
  BY DEF DepthFresh, DepthEncodes
<1>4. DepthRecorded'
  BY VideoStays DEF DepthRecorded
<1> QED BY <1>1, <1>2, <1>3, <1>4

LEMMA DepthInitIs == ASSUME DepthInit PROVE DepthInv
<1> USE DEF DepthInit
<1>1. Len(seen) = 0 /\ DOMAIN bins = {} /\ Len(decoded) = 0 /\ Len(depth_data) = 0
  BY EmptyIs
<1>2. /\ seen = [k \in 1 .. 0 |-> seen[k]]
      /\ decoded = [k \in 1 .. 0 |-> decoded[k]] /\ depth_data = [k \in 1 .. 0 |-> depth_data[k]]
  BY EmptyIs
<1>3. DepthSent
  BY <1>1, <1>2 DEF DepthSent
<1>4. DepthFresh /\ DepthSaved /\ DepthEncodes
  BY <1>1, <1>2 DEF DepthFresh, DepthSaved, DepthEncodes
<1>5. DepthRecorded
  BY <1>1, <1>2 DEF DepthRecorded
<1> QED BY <1>3, <1>4, <1>5 DEF DepthInv

LEMMA IngestDepthKeeps == ASSUME DepthInv, IngestDepth PROVE DepthInv'
<1> DEFINE again(m) == {j \in 2 .. Len(m) : m[j].connection}
           Index(m, i) == i - Max({1} \cup {j \in again(m) : j <= i})
<1>1. PICK images \in DepthTopics :
        /\ seen' = [i \in DOMAIN images |-> images[i].seen]
        /\ depth_data' = [i \in DOMAIN images |->
                            [index |-> Index(images, i), ros_format |-> images[i].ros_format, payload |->
                            images[i].payload]]
        /\ set_back' = (again(images) # {})
  BY DEF IngestDepth
<1>2. depth_stage' \in {"video", "images"} /\ depth_at' = 0
  BY DEF IngestDepth, DepthEnter
<1>3. depth_stage = "ingest" /\ UNCHANGED <<depth_request, process, artifact, bins, meta, decoded>>
  BY DEF IngestDepth
<1>4. process' = None /\ artifact' = None /\ bins' = <<>> /\ meta' = None /\ decoded' = <<>>
  BY <1>3 DEF DepthInv, DepthFresh
<1>5. PICK n \in Nat : n = Len(images) /\ DOMAIN images = 1 .. n
                       /\ \A k \in 1 .. n : IsDepthMessage(images[k])
  BY DepthTopicsAssumption
<1>6. /\ seen' = [k \in 1 .. n |-> seen'[k]] /\ Len(seen') = n
      /\ depth_data' = [k \in 1 .. n |-> depth_data'[k]] /\ Len(depth_data') = n
  <2>1. seen' = [k \in 1 .. n |-> seen'[k]] /\ depth_data' = [k \in 1 .. n |-> depth_data'[k]]
    BY <1>1, <1>5
  <2> QED BY <2>1, LenIs
<1>7. ASSUME NEW k \in 1 .. n
      PROVE  IF seen'[k] = None THEN decode_depth_frame(depth_data'[k]).kind # "image"
             ELSE IsDepthImage(seen'[k]) /\ decode_depth_frame(depth_data'[k]) = seen'[k]
  <2>1. seen'[k] = images[k].seen /\ IsDepthMessage(images[k])
    BY <1>1, <1>5
  <2>2. PICK frame : frame = depth_data'[k]
    OBVIOUS
  <2>3. frame.ros_format = images[k].ros_format /\ frame.payload = images[k].payload
    BY <1>1, <1>5, <2>2
  <2> QED BY <2>1, <2>2, <2>3, DepthMessageIs
<1>13. ASSUME ~set_back', NEW k \in 1 .. n PROVE depth_data'[k].index = k - 1
  <2>1. {1} \cup {j \in again(images) : j <= k} = {1}
    BY <1>1, <1>13
  <2>2. Max({1}) = 1
    BY DEF Max
  <2>3. depth_data'[k].index = Index(images, k)
    BY <1>1, <1>5
  <2> QED BY <2>1, <2>2, <2>3
<1>8. DepthSent'
  BY <1>3, <1>6, <1>7, <1>13 DEF DepthSent, DepthInv
<1>9. DOMAIN bins' = {} /\ Len(decoded') = 0
      /\ decoded' = [k \in 1 .. 0 |-> decoded'[k]]
  BY <1>4, EmptyIs
<1>10. DepthSaved'
  BY <1>2, <1>4, <1>6, <1>9 DEF DepthSaved, SavedUpTo
<1>11. DepthFresh' /\ DepthEncodes'
  BY <1>2, <1>4, <1>6 DEF DepthFresh, DepthEncodes
<1>12. DepthRecorded'
  BY <1>2, <1>4, <1>9 DEF DepthRecorded
<1> QED BY <1>8, <1>10, <1>11, <1>12 DEF DepthInv

LEMMA FitsSize ==
  ASSUME NEW c, NEW i, IsDepthImage(i)
  PROVE  FrameSize(c, i) \in Nat \ {0} /\ i.width * i.height \in Nat /\ i.width * i.height <= FrameSize(c, i)
<1>1. PICK w \in Nat \ {0}, h \in Nat \ {0} : w = i.width /\ h = i.height
  BY ImageIs
<1>2. PICK size : size = FrameSamples(DepthPixelFormat(c), w, h)
  OBVIOUS
<1>3. size \in Nat \ {0} /\ w * h <= size
  BY <1>2, FrameSizeIs
<1>4. size = FrameSize(c, i)
  BY <1>1, <1>2 DEF FrameSize
<1> QED BY <1>1, <1>3, <1>4, ImageIs

LEMMA SpawnFfmpegKeeps == ASSUME DepthInv, SpawnFfmpeg PROVE DepthInv'
<1> DEFINE c == Asked
<1>1. /\ depth_stage = "video" /\ process = None /\ depth_at = 0 /\ depth_data # <<>>
      /\ depth_preflight(c, DepthMachine) /\ NextDepth.kind = "image"
      /\ process' = [arguments |-> DepthArguments(c, NextDepth.width, NextDepth.height), written |-> <<>>]
      /\ UNCHANGED <<depth_request, seen, depth_data, set_back, depth_stage, depth_at, artifact, bins, meta, decoded>>
  BY Zenon DEF SpawnFfmpeg, Asked
<1>2. DepthSent /\ DepthSaved /\ DepthEncodes /\ DepthRecorded
  BY DEF DepthInv
<1>3. Len(seen) \in Nat /\ 1 \in 1 .. Len(seen) /\ NextDepth = decode_depth_frame(depth_data[1])
  <2>1. Len(seen) # 0 /\ Len(seen) \in Nat
    BY <1>1, <1>2, DataEmpty DEF DepthSent
  <2> QED BY <1>1, <2>1 DEF NextDepth
<1>4. seen[1] # None /\ IsDepthImage(seen[1]) /\ NextDepth = seen[1]
  BY <1>1, <1>2, <1>3, FrameIs
<1>5. process'.arguments = DepthArguments(c, seen[1].width, seen[1].height) /\ process'.written = <<>>
      /\ process' = [arguments |-> process'.arguments, written |-> process'.written]
  BY <1>1, <1>4
<1>6. DepthWritten(c, 0, <<>>)
  <2>1. PICK size \in Nat : size = FrameSize(c, seen[1])
    BY <1>4, FitsSize
  <2>2. Len(<<>>) = 0 * size /\ <<>> \in Seq(Nat) /\ 1 .. 0 = {}
    BY EmptySeq
  <2> QED BY <2>1, <2>2, Zenon DEF DepthWritten
<1>7. DepthSent'
  BY <1>1, <1>2, SentStays
<1>8. DepthSaved' /\ DepthFresh'
  BY <1>1, <1>2, SavedStays DEF DepthFresh
<1>9. DepthRecorded'
  BY <1>1, <1>2 DEF DepthRecorded, DepthEncodes, DepthVideoIs
<1>10. SameSizes(seen, 0)'
  BY DEF SameSizes
<1>11. c' = c
  BY <1>1 DEF Asked
<1>12. DepthWritten(c, 0, <<>>)'
  <2> HIDE DEF c
  <2> QED BY <1>1, <1>6, <1>11, WrittenStays
<1>13. DepthEncodes'
  <2>1. depth_validate(c)
    BY <1>1 DEF depth_preflight
  <2> QED BY <1>1, <1>2, <1>3, <1>4, <1>5, <1>10, <1>11, <1>12, <2>1 DEF DepthEncodes
<1> QED BY <1>7, <1>8, <1>9, <1>13 DEF DepthInv

LEMMA WriteDepthFrameKeeps == ASSUME DepthInv, WriteDepthFrame PROVE DepthInv'
<1> DEFINE c == Asked
<1>1. /\ depth_stage = "video" /\ process # None /\ depth_at < Len(depth_data)
      /\ NextDepth.kind = "image" /\ SameSize(process.arguments, NextDepth)
      /\ process' = [process EXCEPT !.written = @ \o Samples(c, NextDepth)]
      /\ depth_at' = depth_at + 1
      /\ UNCHANGED <<depth_request, seen, depth_data, set_back, depth_stage, artifact, bins, meta, decoded>>
  BY DEF WriteDepthFrame, Asked
<1>2. DepthSent /\ DepthSaved /\ DepthEncodes /\ DepthRecorded /\ IsDepthConfig(c)
  BY AskedIs DEF DepthInv
<1>3. PICK n \in Nat : n = depth_at /\ n + 1 \in 1 .. Len(seen) /\ Len(seen) \in Nat
  BY <1>1, <1>2 DEF DepthEncodes, DepthSent
<1>4. /\ Len(seen) > 0 /\ seen[1] # None /\ depth_validate(c)
      /\ process = [arguments |-> process.arguments, written |-> process.written]
      /\ process.arguments = DepthArguments(c, seen[1].width, seen[1].height)
      /\ SameSizes(seen, n)
      /\ DepthFitsSize(c, seen[1].width, seen[1].height) => DepthWritten(c, n, process.written)
  BY <1>1, <1>2, <1>3 DEF DepthEncodes
<1>5. PICK image : image = seen[n + 1] /\ image # None /\ IsDepthImage(image) /\ NextDepth = image
  BY <1>1, <1>2, <1>3, FrameIs DEF NextDepth
<1>6. IsDepthImage(seen[1])
  BY <1>2, <1>3, <1>4, FrameIs
<1>7. image.width = seen[1].width /\ image.height = seen[1].height
  <2>1. PICK P : P = PipeArguments(c, seen[1].width, seen[1].height)
    OBVIOUS
  <2>2. process.arguments.input = P
    BY <1>4, <2>1 DEF DepthArguments
  <2>3. <<"-s", <<image.width, image.height>>>> \in P
    BY <1>1, <1>5, <2>2, Zenon DEF SameSize
  <2> QED BY <2>1, <2>3, PipeSays
<1>8. SameSizes(seen, n + 1)
  BY <1>3, <1>4, <1>5, <1>7 DEF SameSizes
<1>9. PICK w : w = process.written \o Samples(c, image)
  OBVIOUS
<1>10. DepthFitsSize(c, seen[1].width, seen[1].height) => DepthWritten(c, n + 1, w)
  BY <1>2, <1>3, <1>4, <1>5, <1>6, <1>7, <1>9, WrittenGrows
<1>11. process' = [arguments |-> process.arguments, written |-> w]
  BY <1>1, <1>4, <1>5, <1>9
<1>12. process'.arguments = process.arguments /\ process'.written = w
       /\ process' = [arguments |-> process'.arguments, written |-> process'.written]
  BY <1>11
<1>13. DepthSent'
  BY <1>1, <1>2, SentStays
<1>14. DepthSaved' /\ DepthFresh'
  BY <1>1, <1>2, SavedStays DEF DepthFresh
<1>15. DepthRecorded'
  BY <1>1, <1>2 DEF DepthRecorded, DepthEncodes, DepthVideoIs
<1>16. SameSizes(seen, n + 1)'
  BY <1>1, <1>8 DEF SameSizes
<1>17. c' = c
  BY <1>1 DEF Asked
<1>18. DepthFitsSize(c, seen[1].width, seen[1].height) => DepthWritten(c, n + 1, w)'
  <2> HIDE DEF c
  <2> QED BY <1>1, <1>10, <1>17, WrittenStays
<1>19. DepthEncodes'
  <2> HIDE DEF c
  <2>1. (depth_stage = "video" => depth_at \in 0 .. Len(seen) /\ artifact = None /\ decoded = <<>>)'
    BY <1>1, <1>2, <1>3 DEF DepthEncodes
  <2>2. /\ depth_stage' = "video" /\ seen' = seen /\ depth_at' = n + 1
        /\ process'.arguments = DepthArguments(c', seen[1].width, seen[1].height)
        /\ depth_validate(c') /\ Len(seen) > 0 /\ seen[1] # None
    BY <1>1, <1>3, <1>4, <1>12, <1>17
  <2>3. SameSizes(seen, depth_at)'
    BY <1>16, <2>2
  <2>4. (DepthFitsSize(c, seen[1].width, seen[1].height) => DepthWritten(c, depth_at, process.written))'
    BY <1>12, <1>17, <1>18, <2>2
  <2> QED BY <1>12, <2>1, <2>2, <2>3, <2>4, Zenon DEF DepthEncodes, c
<1> QED BY <1>13, <1>14, <1>15, <1>19 DEF DepthInv

LEMMA FinishDepthVideoKeeps == ASSUME DepthInv, FinishDepthVideo PROVE DepthInv'
<1> DEFINE c == Asked
<1>1. /\ depth_stage = "video" /\ process # None /\ depth_at = Len(depth_data)
      /\ artifact' = [file |-> Recorded(process.arguments, process.written),
                      metadata |-> depth_metadata(c, Told(process.arguments.input, "-s")[1],
                      Told(process.arguments.input, "-s")[2])]
      /\ process' = None /\ depth_stage' = "decode" /\ depth_at' = 0
      /\ UNCHANGED <<depth_request, seen, depth_data, set_back, bins, meta, decoded>>
  BY Zenon DEF FinishDepthVideo, Asked, Told, DepthEnter
<1>2. DepthSent /\ DepthSaved /\ DepthEncodes /\ DepthRecorded /\ IsDepthConfig(c)
  BY AskedIs DEF DepthInv
<1>3. PICK n \in Nat : n = Len(seen) /\ depth_at = n /\ n > 0 /\ 1 \in 1 .. n
  BY <1>1, <1>2 DEF DepthEncodes, DepthSent
<1>4. /\ seen[1] # None /\ depth_validate(c) /\ artifact = None /\ decoded = <<>>
      /\ process.arguments = DepthArguments(c, seen[1].width, seen[1].height)
      /\ SameSizes(seen, n)
      /\ DepthFitsSize(c, seen[1].width, seen[1].height) => DepthWritten(c, n, process.written)
  BY <1>1, <1>2, <1>3 DEF DepthEncodes
<1>5. IsDepthImage(seen[1])
  BY <1>2, <1>3, <1>4, FrameIs
<1>6. PICK w \in Nat \ {0}, h \in Nat \ {0} : w = seen[1].width /\ h = seen[1].height
  BY <1>5, ImageIs
<1>7. Told(process.arguments.input, "-s")[1] = w /\ Told(process.arguments.input, "-s")[2] = h
  <2>1. PICK P : P = PipeArguments(c, w, h)
    OBVIOUS
  <2>2. process.arguments.input = P
    BY <1>4, <1>6, <2>1 DEF DepthArguments
  <2>3. PICK t : t = Told(P, "-s")
    OBVIOUS
  <2>4. t = <<w, h>>
    BY <2>1, <2>3, PipeSays
  <2>5. t[1] = w /\ t[2] = h
    BY <2>4
  <2> QED BY <2>2, <2>3, <2>5, Zenon
<1>8. PICK f : f = Recorded(process.arguments, process.written)
  OBVIOUS
<1>9. artifact'.file = f /\ artifact'.metadata = depth_metadata(c, w, h)
  <2>1. artifact' = [file |-> f, metadata |-> depth_metadata(c, w, h)]
    BY <1>1, <1>7, <1>8, Zenon
  <2> QED BY <2>1
<1>10. ASSUME DepthFitsSize(c, w, h)
       PROVE  /\ f.pix_fmt = DepthPixelFormat(c) /\ f.width = w /\ f.height = h
              /\ f.frames = [k \in 1 .. n |-> [i \in 1 .. w * h |-> Samples(c, seen[k])[i]]]
  <2>1. PICK size \in Nat \ {0} : size = FrameSize(c, seen[1])
                                  /\ size = FrameSamples(DepthPixelFormat(c), w, h) /\ w * h <= size
    <3>1. FrameSize(c, seen[1]) = FrameSamples(DepthPixelFormat(c), w, h)
      BY <1>6 DEF FrameSize
    <3> QED BY <1>5, <1>6, <3>1, FitsSize
  <2>2. PICK written : written = process.written
    OBVIOUS
  <2>3. DepthWritten(c, n, written)
    BY <1>4, <1>6, <1>10, <2>2
  <2>4. Parts(written, n, size)
        /\ \A k \in 1 .. n : \A j \in 1 .. size : written[(k - 1) * size + j] = Samples(c, seen[k])[j]
    BY <2>1, <2>3, Zenon DEF DepthWritten, Parts
  <2>5. f = Recorded(DepthArguments(c, w, h), written)
    BY <1>4, <1>6, <1>8, <2>2
  <2>6. /\ f.pix_fmt = DepthPixelFormat(c) /\ f.width = w /\ f.height = h
        /\ f.frames = [k \in 1 .. n |-> [i \in 1 .. w * h |-> written[(k - 1) * size + i]]]
    <3> HIDE DEF c
    <3>1. IsDepthConfig(c) /\ size = FrameSamples(DepthPixelFormat(c), w, h) /\ Parts(written, n, size)
      BY <1>2, <2>1, <2>4
    <3>2. CutUp(Recorded(DepthArguments(c, w, h), written), c, w, h, n, size, written)
      BY <2>1, <3>1, RecordedIs, Zenon
    <3> QED BY <2>5, <3>2, Zenon DEF CutUp
  <2>7. ASSUME NEW k \in 1 .. n
        PROVE  [i \in 1 .. w * h |-> written[(k - 1) * size + i]]
               = [i \in 1 .. w * h |-> Samples(c, seen[k])[i]]
    <3>1. \A i \in 1 .. w * h : i \in 1 .. size
      <4>1. PICK m \in Nat : m = w * h
        OBVIOUS
      <4> QED BY <2>1, <4>1
    <3>2. \A i \in 1 .. w * h : written[(k - 1) * size + i] = Samples(c, seen[k])[i]
      BY <2>4, <3>1, Zenon
    <3> QED BY <3>2, Zenon
  <2>8. [k \in 1 .. n |-> [i \in 1 .. w * h |-> written[(k - 1) * size + i]]]
          = [k \in 1 .. n |-> [i \in 1 .. w * h |-> Samples(c, seen[k])[i]]]
    BY <2>7, Zenon
  <2> QED BY <2>6, <2>8, Zenon
<1>11. c' = c
  BY <1>1 DEF Asked
<1>12. ToSet(decoded') = {}
  BY <1>1, <1>4, EmptyIs
<1>13. DepthVideoIs'
  <2> HIDE DEF c
  <2>1. /\ depth_stage' # "video" /\ Len(seen') > 0 /\ depth_validate(c') /\ Len(seen') = n
        /\ seen' = seen /\ seen'[1].width = w /\ seen'[1].height = h
    BY <1>1, <1>3, <1>4, <1>6, <1>11
  <2>2. SameSizes(seen, Len(seen))'
    BY <1>1, <1>3, <1>4 DEF SameSizes
  <2>3. artifact'.metadata = depth_metadata(c', seen'[1].width, seen'[1].height)
    BY <1>9, <1>11, <2>1
  <2>4. ASSUME DepthFitsSize(c', seen'[1].width, seen'[1].height)
        PROVE  /\ artifact'.file.pix_fmt = DepthPixelFormat(c')
               /\ artifact'.file.width = seen'[1].width /\ artifact'.file.height = seen'[1].height
               /\ artifact'.file.frames =
                    [k \in 1 .. Len(seen') |->
                       [i \in 1 .. seen'[1].width * seen'[1].height |-> Samples(c', seen'[k])[i]]]
    <3>1. DepthFitsSize(c, w, h)
      BY <1>11, <2>1, <2>4
    <3>2. f.pix_fmt = DepthPixelFormat(c) /\ f.width = w /\ f.height = h
      BY <1>10, <3>1
    <3>3. f.frames = [k \in 1 .. n |-> [i \in 1 .. w * h |-> Samples(c, seen[k])[i]]]
      BY <1>10, <3>1
    <3>4. [k \in 1 .. n |-> [i \in 1 .. w * h |-> Samples(c, seen[k])[i]]]
           = [k \in 1 .. Len(seen') |-> [i \in 1 .. seen'[1].width * seen'[1].height |->
           Samples(c', seen'[k])[i]]]
      BY <1>11, <2>1, Zenon
    <3> QED BY <1>9, <1>11, <2>1, <3>2, <3>3, <3>4, Zenon
  <2>5. \A d \in ToSet(decoded') : FALSE
    BY <1>12
  <2> QED BY <2>1, <2>2, <2>3, <2>4, <2>5, Zenon DEF DepthVideoIs, c
<1>14. DepthSent'
  BY <1>1, <1>2, SentStays
<1>15. DepthSaved' /\ DepthFresh'
  BY <1>1, <1>2, SavedStays DEF DepthFresh
<1>16. DepthEncodes'
  BY <1>1 DEF DepthEncodes
<1>17. DepthRecorded'
  BY <1>1, <1>2, <1>13 DEF DepthRecorded
<1> QED BY <1>14, <1>15, <1>16, <1>17 DEF DepthInv

LEMMA NoDepthVideoKeeps == ASSUME DepthInv, NoDepthVideo PROVE DepthInv'
<1>1. /\ depth_stage = "video" /\ depth_data = <<>> /\ depth_stage' = "done"
      /\ UNCHANGED <<depth_request, seen, depth_data, set_back, process, artifact, bins, meta, decoded>>
  BY DEF NoDepthVideo, DepthEnter
<1>2. DepthSent /\ DepthSaved /\ DepthEncodes /\ DepthRecorded
  BY DEF DepthInv
<1>3. process = None /\ artifact = None
  <2>1. Len(seen) = 0
    BY <1>1, <1>2, DataEmpty
  <2> QED BY <1>1, <1>2, <2>1 DEF DepthEncodes
<1>4. DepthSent' /\ DepthSaved' /\ DepthFresh'
  BY <1>1, <1>2, SentStays, SavedStays DEF DepthFresh
<1>5. DepthEncodes' /\ DepthRecorded'
  BY <1>1, <1>2, <1>3 DEF DepthEncodes, DepthRecorded
<1> QED BY <1>4, <1>5 DEF DepthInv

LEMMA SaveDepthImageKeeps == ASSUME DepthInv, SaveDepthImage PROVE DepthInv'
<1> DEFINE index(k) == depth_data[k].index
<1>1. /\ depth_stage = "images" /\ depth_at < Len(depth_data)
      /\ NextDepth.kind = "image"
      /\ bins' = [i \in DOMAIN bins \cup {index(depth_at + 1)} |->
                   IF i = index(depth_at + 1) THEN NextDepth.values ELSE bins[i]]
      /\ depth_at' = depth_at + 1
      /\ UNCHANGED <<depth_request, seen, depth_data, set_back, depth_stage, process, artifact, meta, decoded>>
  BY DEF SaveDepthImage
<1>2. DepthSent /\ DepthSaved /\ DepthEncodes /\ DepthRecorded
  BY DEF DepthInv
<1>3. PICK n \in Nat : n = depth_at /\ n + 1 \in 1 .. Len(seen) /\ Len(seen) \in Nat
  BY <1>1, <1>2 DEF DepthSaved, DepthSent
<1>4. process = None /\ artifact = None /\ meta = None /\ decoded = <<>> /\ SavedUpTo(n)
  BY <1>1, <1>2, <1>3 DEF DepthSaved
<1>5. PICK image : image = seen[n + 1] /\ image # None /\ NextDepth = image
  BY <1>1, <1>2, <1>3, FrameIs DEF NextDepth
<1>6. /\ DOMAIN bins' = DOMAIN bins \cup {index(n + 1)}
      /\ bins'[index(n + 1)] = image.values
      /\ \A i \in DOMAIN bins : i # index(n + 1) => bins'[i] = bins[i]
  BY <1>1, <1>3, <1>5
<1>7. ASSUME NEW i \in DOMAIN bins'
      PROVE  \E k \in 1 .. Len(seen) : index(k) = i /\ seen[k] # None /\ bins'[i] = seen[k].values
  <2>1. CASE i = index(n + 1)
    BY <1>3, <1>5, <1>6, <2>1
  <2>2. CASE i # index(n + 1)
    BY <1>2, <1>6, <1>7, <2>2 DEF DepthSaved
  <2> QED BY <2>1, <2>2
<1>8. ASSUME NEW k \in 1 .. n + 1
      PROVE  /\ seen[k] # None /\ index(k) \in DOMAIN bins'
             /\ \/ bins'[index(k)] = seen[k].values
                \/ \E j \in k + 1 .. n + 1 : index(j) = index(k)
  <2>1. CASE k = n + 1
    BY <1>5, <1>6, <2>1
  <2>2. CASE k \in 1 .. n /\ index(k) = index(n + 1)
    BY <1>3, <1>4, <1>6, <2>2 DEF SavedUpTo
  <2>3. CASE k \in 1 .. n /\ index(k) # index(n + 1)
    BY <1>3, <1>4, <1>6, <2>3 DEF SavedUpTo
  <2> QED BY <1>3, <2>1, <2>2, <2>3
<1>12. SavedUpTo(n + 1)'
  BY <1>1, <1>8 DEF SavedUpTo
<1>9. DepthSaved'
  <2>1. depth_at' = n + 1 /\ n + 1 \in 0 .. Len(seen) /\ seen' = seen /\ depth_data' = depth_data
    BY <1>1, <1>3
  <2>2. SavedUpTo(depth_at)'
    BY <1>12, <2>1 DEF SavedUpTo
  <2>3. process' = None /\ artifact' = None /\ meta' = None /\ decoded' = <<>>
    BY <1>1, <1>4
  <2> QED BY <1>7, <2>1, <2>2, <2>3 DEF DepthSaved
<1>10. DepthSent' /\ DepthFresh'
  BY <1>1, <1>2, SentStays DEF DepthFresh
<1>11. DepthEncodes' /\ DepthRecorded'
  BY <1>1, <1>2, <1>4 DEF DepthEncodes, DepthRecorded
<1> QED BY <1>9, <1>10, <1>11 DEF DepthInv

LEMMA SaveDepthSizeKeeps == ASSUME DepthInv, SaveDepthSize PROVE DepthInv'
<1>1. /\ depth_stage = "images" /\ depth_at = Len(depth_data)
      /\ depth_stage' = "video" /\ depth_at' = 0
      /\ UNCHANGED <<depth_request, seen, depth_data, set_back, process, artifact, bins, decoded>>
  BY DEF SaveDepthSize, DepthEnter
<1>2. DepthSent /\ DepthSaved /\ DepthEncodes /\ DepthRecorded
  BY DEF DepthInv
<1>3. PICK n \in Nat : n = Len(seen) /\ n = depth_at /\ n = Len(depth_data)
  BY <1>1, <1>2 DEF DepthSaved, DepthSent
<1>4. process = None /\ artifact = None /\ decoded = <<>> /\ SavedUpTo(n)
  BY <1>1, <1>2, <1>3 DEF DepthSaved
<1>5. ASSUME meta' # None
      PROVE  Len(seen) > 0 /\ seen[Len(seen)] # None
             /\ meta'.width = seen[Len(seen)].width /\ meta'.height = seen[Len(seen)].height
  <2>1. PICK last : last = decode_depth_frame(Last(depth_data))
    OBVIOUS
  <2>2. depth_data # <<>> /\ meta' = [width |-> last.width, height |-> last.height]
    BY <1>5, <2>1, Zenon DEF SaveDepthSize
  <2>3. n > 0
    BY <1>2, <1>3, <2>2, DataEmpty
  <2>4. Last(depth_data) = depth_data[n]
    BY <1>3 DEF Last
  <2>5. n \in 1 .. Len(seen)
    BY <1>3, <2>3
  <2>7. seen[n] # None
    BY <1>3, <1>4, <2>5 DEF SavedUpTo
  <2>6. last = seen[n]
    BY <1>2, <1>3, <2>1, <2>4, <2>5, <2>7, FrameIs
  <2> QED BY <1>3, <2>2, <2>3, <2>5, <2>6, <2>7
<1>6. DepthSaved'
  BY <1>1, <1>2, <1>3, <1>4, <1>5 DEF DepthSaved, SavedUpTo
<1>7. DepthSent' /\ DepthFresh'
  BY <1>1, <1>2, SentStays DEF DepthFresh
<1>8. DepthEncodes' /\ DepthRecorded'
  BY <1>1, <1>2, <1>3, <1>4 DEF DepthEncodes, DepthRecorded
<1> QED BY <1>6, <1>7, <1>8 DEF DepthInv

(* A video that is there stays as it is. *)
LEMMA DepthDoneKeeps ==
  ASSUME DepthInv, depth_stage = "decode", depth_stage' = "done",
         UNCHANGED <<depth_request, seen, depth_data, set_back, process, artifact, bins, meta, decoded>>
  PROVE  DepthInv'
<1>1. DepthSent /\ DepthSaved /\ DepthEncodes /\ DepthRecorded
  BY DEF DepthInv
<1>2. DepthSent' /\ DepthSaved' /\ DepthFresh'
  BY <1>1, SentStays, SavedStays DEF DepthFresh
<1>3. DepthVideoIs'
  BY <1>1, VideoStays DEF DepthRecorded
<1>4. DepthEncodes' /\ DepthRecorded'
  BY <1>1, <1>3 DEF DepthEncodes, DepthRecorded
<1> QED BY <1>2, <1>4 DEF DepthInv

(* What a decoder makes of the samples of an image. *)
Picture(c, image) == [j \in 1 .. image.width * image.height |-> Samples(c, image)[j]]

Developed(c, image, codes, format, frame) ==
  DepthImage(image.width, image.height,
  [j \in DOMAIN frame |-> DecodedSample(codes, c.depth_max_mm, format, frame[j])])

DepthFormats(c) == IF DepthPixelFormat(c) = "gray16le" THEN {"gray16le"} ELSE {"p010le", "yuv420p10le"}

DepthCodes(c) == IF is_lossless(c.codec) THEN "RawGray16" ELSE "Q10"

LEMMA FrameBack ==
  ASSUME NEW c, IsDepthConfig(c), NEW i, IsDepthImage(i), DepthFitsSize(c, i.width, i.height),
         NEW format, format \in DepthFormats(c)
  PROVE  DepthFrameKept(c, i, Developed(c, i, DepthCodes(c), format, Picture(c, i)))
<1> PICK codes : codes = DepthCodes(c)
  OBVIOUS
<1> PICK frame : frame = Picture(c, i)
  OBVIOUS
<1> PICK back : back = Developed(c, i, codes, format, frame)
  OBVIOUS
<1>1. PICK n \in Nat : n = i.width * i.height
  BY ImageIs
<1>2. DOMAIN i.values = 1 .. n /\ DOMAIN frame = 1 .. n /\ i.values \in [1 .. n -> 0 .. U16Max]
  BY <1>1, ImageIs DEF Picture
<1>3. PICK v : v = [j \in DOMAIN frame |-> DecodedSample(codes, c.depth_max_mm, format, frame[j])]
  OBVIOUS
<1>4. back.width = i.width /\ back.height = i.height /\ back.values = v
  BY <1>3 DEF DepthImage, Developed
<1>5. ASSUME NEW j \in 1 .. n PROVE DepthPixelKept(c, i.values[j], v[j])
  <2>1. frame[j] = Samples(c, i)[j] /\ Samples(c, i)[j] = Sampled(c, i.values[j])
    <3>1. frame = [k \in 1 .. n |-> Samples(c, i)[k]]
      BY <1>1 DEF Picture
    <3>2. \A k \in 1 .. n : Samples(c, i)[k] = Sampled(c, i.values[k])
      BY <1>1, SamplesAre, Zenon
    <3> QED BY <3>1, <3>2
  <2>2. v[j] = DecodedSample(codes, c.depth_max_mm, format, frame[j])
    BY <1>2, <1>3
  <2>3. PICK depth \in 0 .. U16Max : depth = i.values[j]
    BY <1>2
  <2>4. DepthPixelKept(c, depth, DecodedSample(codes, c.depth_max_mm, format, Sampled(c, depth)))
    BY PixelBack DEF DepthFormats, DepthCodes
  <2> QED BY <2>1, <2>2, <2>3, <2>4
<1> QED BY <1>2, <1>4, <1>5 DEF DepthFrameKept

LEMMA ReadDepthFrameKeeps == ASSUME DepthInv, ReadDepthFrame PROVE DepthInv'
<1> DEFINE c == Asked
<1>1. /\ depth_stage = "decode" /\ depth_at < Len(artifact.file.frames) /\ depth_at' = depth_at + 1
      /\ UNCHANGED <<depth_request, seen, depth_data, set_back, depth_stage, process, artifact, bins, meta>>
  BY DEF ReadDepthFrame
<1>2. DepthSent /\ DepthSaved /\ DepthEncodes /\ DepthRecorded /\ IsDepthConfig(c)
  BY AskedIs DEF DepthInv
<1>3. DepthVideoIs /\ depth_at \in Nat /\ Len(decoded) \in Nat
      /\ decoded = [k \in 1 .. Len(decoded) |-> decoded[k]]
  BY <1>1, <1>2 DEF DepthRecorded
<1>4. process = None
  BY <1>1, <1>2 DEF DepthEncodes
<1>5. DepthSent' /\ DepthSaved' /\ DepthFresh' /\ DepthEncodes'
  BY <1>1, <1>2, <1>4, SentStays, SavedStays DEF DepthFresh, DepthEncodes
<1>6. CASE UNCHANGED decoded
  <2>1. DepthVideoIs'
    BY <1>1, <1>3, <1>6, VideoStays
  <2> QED BY <1>1, <1>2, <1>3, <1>5, <1>6, <2>1 DEF DepthRecorded, DepthInv
<1>7. CASE decoded' # decoded
  <2>1. PICK format \in IF artifact.file.pix_fmt = "gray16le" THEN {"gray16le"} ELSE {"p010le", "yuv420p10le"} :
          decoded' = Append(decoded,
                       [index |-> depth_at,
                        image |-> DepthImage(artifact.file.width, artifact.file.height,
                                    [i \in DOMAIN artifact.file.frames[depth_at + 1] |->
                                       DecodedSample(depth_decode_kind(artifact.metadata),
                                       artifact.metadata.config.depth_max_mm,
                                                     format, artifact.file.frames[depth_at + 1][i])])])
    BY <1>7, Zenon DEF ReadDepthFrame
  <2>2. PICK d : d = [index |-> depth_at,
                        image |-> DepthImage(artifact.file.width, artifact.file.height,
                                    [i \in DOMAIN artifact.file.frames[depth_at + 1] |->
                                       DecodedSample(depth_decode_kind(artifact.metadata),
                                       artifact.metadata.config.depth_max_mm,
                                                     format, artifact.file.frames[depth_at + 1][i])])]
    OBVIOUS
  <2>3. PICK t : t = decoded' /\ t = Append(decoded, d)
    BY <2>1, <2>2
  <2>4. Len(t) \in Nat /\ t = [k \in 1 .. Len(t) |-> t[k]] /\ ToSet(t) = ToSet(decoded) \cup {d}
    <3>1. IsList(decoded)
      BY <1>3 DEF IsList
    <3>2. IsList(t) /\ ToSet(t) = ToSet(decoded) \cup {d}
      BY <2>3, <3>1, ListGrows, Zenon
    <3> QED BY <3>2, Zenon DEF IsList
  <2>5. Len(seen) > 0 /\ SameSizes(seen, Len(seen)) /\ depth_validate(c)
        /\ artifact.metadata = depth_metadata(c, seen[1].width, seen[1].height)
    BY <1>3 DEF DepthVideoIs
  <2>6. ASSUME DepthFitsSize(c, seen[1].width, seen[1].height)
        PROVE  d.index \in 0 .. Len(seen) - 1 /\ DepthFrameKept(c, seen[d.index + 1], d.image)
    <3>1. /\ artifact.file.pix_fmt = DepthPixelFormat(c)
          /\ artifact.file.width = seen[1].width /\ artifact.file.height = seen[1].height
          /\ artifact.file.frames =
               [k \in 1 .. Len(seen) |->
                  [i \in 1 .. seen[1].width * seen[1].height |-> Samples(c, seen[k])[i]]]
      BY <1>3, <2>6 DEF DepthVideoIs
    <3>2. PICK n \in Nat : n = Len(seen)
      BY <1>2 DEF DepthSent
    <3>3. PICK frames : frames = artifact.file.frames
      OBVIOUS
    <3>4. Len(frames) = n
      <4>1. frames = [k \in 1 .. n |-> frames[k]]
        BY <3>1, <3>2, <3>3
      <4> QED BY <4>1, LenIs
    <3>5. PICK k \in 1 .. n : k = depth_at + 1 /\ depth_at \in 0 .. n - 1
      BY <1>1, <1>3, <3>2, <3>3, <3>4
    <3>6. PICK image : image = seen[k] /\ IsDepthImage(image) /\ image.width = seen[1].width
                       /\ image.height = seen[1].height
      BY <1>2, <2>5, <3>2, <3>5, FrameIs DEF SameSizes
    <3>7. PICK frame : frame = artifact.file.frames[k]
                       /\ frame = [i \in 1 .. image.width * image.height |-> Samples(c, image)[i]]
      BY <3>1, <3>2, <3>5, <3>6
    <3>8. PICK metadata : metadata = depth_metadata(c, image.width, image.height)
                          /\ metadata = artifact.metadata
      BY <2>5, <3>6
    <3>9. metadata.config = c /\ metadata.pix_fmt = DepthPixelFormat(c)
      BY <3>8 DEF depth_metadata
    <3>10. PICK codes : codes = depth_decode_kind(metadata)
                        /\ codes = IF is_lossless(c.codec) THEN "RawGray16" ELSE "Q10"
      BY <3>9 DEF depth_decode_kind, is_lossless, DepthPixelFormat
    <3>11. PICK back : back = DepthImage(image.width, image.height,
                                [j \in DOMAIN frame |-> DecodedSample(codes, c.depth_max_mm, format,
                                frame[j])])
      OBVIOUS
    <3>12. DepthFrameKept(c, image, back)
      <4>1. format \in DepthFormats(c)
        BY <2>1, <3>1 DEF DepthFormats
      <4>2. frame = Picture(c, image)
        BY <3>7 DEF Picture
      <4>3. codes = DepthCodes(c)
        BY <3>10 DEF DepthCodes
      <4>4. back = Developed(c, image, DepthCodes(c), format, Picture(c, image))
        BY <3>11, <4>2, <4>3 DEF Developed
      <4> HIDE DEF c
      <4>5. IsDepthConfig(c) /\ IsDepthImage(image) /\ DepthFitsSize(c, image.width, image.height)
        BY <1>2, <2>6, <3>6
      <4> QED BY <4>1, <4>4, <4>5, FrameBack
    <3>13. d = [index |-> depth_at, image |-> back]
      <4> HIDE DEF c
      <4>1. artifact.file.width = image.width /\ artifact.file.height = image.height
            /\ artifact.metadata.config = c
            /\ depth_decode_kind(artifact.metadata) = codes /\ artifact.file.frames[depth_at + 1] = frame
        BY <3>1, <3>5, <3>6, <3>7, <3>8, <3>9, <3>10
      <4> QED BY <2>2, <3>11, <4>1, Zenon
    <3>14. d.index = depth_at /\ d.image = back
      BY <3>13
    <3> QED BY <3>2, <3>5, <3>6, <3>12, <3>14
  <2>7. c' = c
    BY <1>1 DEF Asked
  <2>8. DepthVideoIs'
    <3> HIDE DEF c
    <3>1. \A e \in ToSet(decoded') : e \in ToSet(decoded) \/ e = d
      BY <2>3, <2>4
    <3>2. SameSizes(seen, Len(seen))'
      BY <1>1, <2>5 DEF SameSizes
    <3>3. /\ (depth_stage # "video")' /\ (Len(seen) > 0)' /\ depth_validate(c')
          /\ (artifact.metadata)' = depth_metadata(c', seen'[1].width, seen'[1].height)
      BY <1>1, <2>5, <2>7
    <3>4. ASSUME DepthFitsSize(c', seen'[1].width, seen'[1].height)
          PROVE  /\ artifact'.file.pix_fmt = DepthPixelFormat(c')
                 /\ artifact'.file.width = seen'[1].width /\ artifact'.file.height = seen'[1].height
                 /\ artifact'.file.frames =
                      [k \in 1 .. Len(seen') |->
                         [i \in 1 .. seen'[1].width * seen'[1].height |-> Samples(c', seen'[k])[i]]]
                 /\ \A e \in ToSet(decoded') : e.index \in 0 .. Len(seen') - 1
                    /\ DepthFrameKept(c', seen'[e.index + 1], e.image)
      <4>1. DepthFitsSize(c, seen[1].width, seen[1].height)
        BY <1>1, <2>7, <3>4
      <4>2. /\ artifact.file.pix_fmt = DepthPixelFormat(c)
            /\ artifact.file.width = seen[1].width /\ artifact.file.height = seen[1].height
            /\ artifact.file.frames =
                 [k \in 1 .. Len(seen) |->
                    [i \in 1 .. seen[1].width * seen[1].height |-> Samples(c, seen[k])[i]]]
            /\ \A e \in ToSet(decoded) : e.index \in 0 .. Len(seen) - 1
               /\ DepthFrameKept(c, seen[e.index + 1], e.image)
        BY <1>3, <4>1, Zenon DEF DepthVideoIs, c
      <4>3. \A e \in ToSet(decoded') : e.index \in 0 .. Len(seen) - 1
            /\ DepthFrameKept(c, seen[e.index + 1], e.image)
        BY <2>6, <3>1, <4>1, <4>2, Zenon
      <4> QED BY <1>1, <2>7, <4>2, <4>3, Zenon
    <3> QED BY <3>2, <3>3, <3>4, Zenon DEF DepthVideoIs, c
  <2> QED BY <1>1, <1>3, <1>5, <2>3, <2>4, <2>8 DEF DepthRecorded, DepthInv
<1> QED BY <1>6, <1>7

(* The options there are for a codec. *)
LEMMA DepthOptionNames ==
  /\ DOMAIN DepthDefaults["H265_VAAPI"] = {"qp", "device"}
  /\ DOMAIN DepthDefaults["AV1_VAAPI"] = {"global_quality", "device"}
  /\ \A codec \in DepthNvenc :
       DOMAIN DepthDefaults[codec] = {"qp", "gpu", "preset", "tune", "b_frames", "rc_lookahead"}
  /\ DOMAIN DepthDefaults["AV1"] = {"crf", "preset"}
  /\ DOMAIN DepthDefaults["FFV1"] = {}
<1>1. DOMAIN <<>> = {}
  OBVIOUS
<1>2. DOMAIN DepthDefaults["FFV1"] = {}
  BY <1>1 DEF DepthDefaults
<1>3. \A qp : DOMAIN DepthNvencOptions(qp) = {"qp", "gpu", "preset", "tune", "b_frames", "rc_lookahead"}
  BY DEF DepthNvencOptions
<1>4. DepthDefaults["H265_NVENC"] = DepthNvencOptions(10)
      /\ DepthDefaults["AV1_NVENC"] = DepthNvencOptions(20)
  BY DEF DepthDefaults
<1>5. DepthDefaults["H265_VAAPI"] = [qp |-> 18, device |-> None]
      /\ DepthDefaults["AV1"] = [crf |-> 4, preset |-> 4]
      /\ DepthDefaults["AV1_VAAPI"] = [global_quality |-> 35, device |-> None]
  BY DEF DepthDefaults
<1> QED BY <1>2, <1>3, <1>4, <1>5 DEF DepthNvenc

(* A script and a pipeline start from the same. *)
LEMMA DepthDoorsAgree == DepthSignature = DepthDefaults /\ PyTop = YamlTop
<1>1. DepthSignature = DepthDefaults
  BY Zenon DEF DepthSignature, DepthDefaults, depth_py_h265_vaapi, depth_py_av1_vaapi, depth_py_h265_nvenc,
               depth_py_av1_nvenc, depth_py_av1
<1> QED BY <1>1 DEF PyTop, YamlTop

DepthFrom(given, codec, options) ==
  LET top == With(YamlTop, given)
  IN  [depth_max_mm |-> top.depth_max_mm, fps |-> top.fps, codec |-> Or(codec, "AV1"),
       options |-> With(DepthDefaults[Or(codec, "AV1")], options)]

LEMMA DepthFromIs ==
  ASSUME NEW r
  PROVE  DepthConfig(r) = DepthFrom(r.given, r.codec, r.options)
<1>1. \A x, y : (IF x THEN y ELSE y) = y
  OBVIOUS
<1>2. \A x : (IF x THEN PyTop ELSE YamlTop) = YamlTop
  BY <1>1, DepthDoorsAgree, Zenon
<1>3. \A x, codec : (IF x THEN DepthSignature[codec] ELSE DepthDefaults[codec]) = DepthDefaults[codec]
  BY <1>1, DepthDoorsAgree, Zenon
<1> QED BY <1>2, <1>3, Zenon DEF DepthConfig, DepthFrom

LEMMA DepthOptionsAre ==
  ASSUME NEW r \in DepthRequests, NEW c, c = DepthConfig(r)
  PROVE  c.codec \in DepthCodec /\ c.options = [o \in DOMAIN DepthDefaults[c.codec] |-> c.options[o]]
<1>1. IsDepthConfig(c)
  BY DepthConfigIs
<1>2. c = DepthFrom(r.given, r.codec, r.options)
  BY DepthFromIs
<1>3. c.options = With(DepthDefaults[Or(r.codec, "AV1")], r.options) /\ c.codec = Or(r.codec, "AV1")
  BY <1>2 DEF DepthFrom
<1>4. c.options = With(DepthDefaults[c.codec], r.options)
  BY <1>3, Zenon
<1>5. DOMAIN c.options = DOMAIN DepthDefaults[c.codec]
      /\ c.options = [o \in DOMAIN c.options |-> c.options[o]]
  BY <1>4 DEF With
<1> QED BY <1>1, <1>5 DEF IsDepthConfig

LEMMA DepthFamilySays ==
  ASSUME NEW c, NEW d, IsDepthConfig(c), IsDepthConfig(d), NEW w, NEW h,
         DepthArguments(c, w, h) = DepthArguments(d, w, h)
  PROVE  /\ c.codec = d.codec /\ c.fps = d.fps
         /\ c.codec \in DepthVaapi =>
              \A f, x : f \notin {"-c:v", "to"} =>
                (<<f, x>> \in DepthVaapiArguments(c) <=> <<f, x>> \in DepthVaapiArguments(d))
         /\ c.codec \in DepthNvenc =>
              \A f, x : f \notin {"-c:v", "to"} =>
                (<<f, x>> \in DepthNvencArguments(c) <=> <<f, x>> \in DepthNvencArguments(d))
         /\ c.codec = "AV1" =>
              \A f, x : f \notin {"-c:v", "to"} =>
                (<<f, x>> \in DepthSoftwareArguments(c) <=> <<f, x>> \in DepthSoftwareArguments(d))
<1>1. PICK P : P = DepthArguments(c, w, h) /\ P = DepthArguments(d, w, h)
  OBVIOUS
<1>2. c.codec = d.codec
  <2>1. depth_encoder_name[c.codec] = depth_encoder_name[d.codec]
    BY <1>1, DepthCodecSays
  <2> QED BY <2>1, CodecIs, DepthNamesAre
<1>3. c.fps = d.fps
  <2>1. PipeArguments(c, w, h) = PipeArguments(d, w, h)
    BY DEF DepthArguments
  <2>2. <<"-framerate", c.fps>> \in PipeArguments(d, w, h)
    BY <2>1, PipeHas
  <2> QED BY <2>2, PipeHas
<1>4. ASSUME NEW f, NEW x
      PROVE  <<f, x>> \in DepthArguments(c, w, h).output <=> <<f, x>> \in DepthArguments(d, w, h).output
  BY <1>1, Zenon
<1>5. ASSUME c.codec \in DepthVaapi, NEW f, NEW x, f \notin {"-c:v", "to"}
      PROVE  <<f, x>> \in DepthVaapiArguments(c) <=> <<f, x>> \in DepthVaapiArguments(d)
  BY <1>2, <1>4, <1>5, DepthOutputHas
<1>6. ASSUME c.codec \in DepthNvenc, NEW f, NEW x, f \notin {"-c:v", "to"}
      PROVE  <<f, x>> \in DepthNvencArguments(c) <=> <<f, x>> \in DepthNvencArguments(d)
  <2>1. c.codec \notin DepthVaapi
    BY <1>6 DEF DepthNvenc, DepthVaapi
  <2> QED BY <1>2, <1>4, <1>6, <2>1, DepthOutputHas
<1>7. ASSUME c.codec = "AV1", NEW f, NEW x, f \notin {"-c:v", "to"}
      PROVE  <<f, x>> \in DepthSoftwareArguments(c) <=> <<f, x>> \in DepthSoftwareArguments(d)
  <2>1. c.codec \notin DepthVaapi /\ c.codec \notin DepthNvenc
    BY <1>7 DEF DepthNvenc, DepthVaapi
  <2> QED BY <1>2, <1>4, <1>7, <2>1, DepthOutputHas
<1> QED BY <1>2, <1>3, <1>5, <1>6, <1>7, Zenon

LEMMA DepthVaapiSays ==
  ASSUME NEW e, NEW x
  PROVE  /\ <<"-vaapi_device", x>> \in DepthVaapiArguments(e)
            <=> x = Or(e.options.device, DEFAULT_VAAPI_DEVICE)
         /\ <<"-qp", x>> \in DepthVaapiArguments(e) <=> e.codec = "H265_VAAPI" /\ x = e.options.qp
         /\ <<"-global_quality", x>> \in DepthVaapiArguments(e)
              <=> e.codec # "H265_VAAPI" /\ x = e.options.global_quality
BY DEF DepthVaapiArguments

(* Options with the same arguments mean the same. *)
OptionMeans(o, x) == IF o = "device" THEN Or(x, DEFAULT_VAAPI_DEVICE) ELSE x

LEMMA DepthOptionsTell ==
  ASSUME NEW c, NEW d, IsDepthConfig(c), IsDepthConfig(d), NEW w, NEW h,
         DepthArguments(c, w, h) = DepthArguments(d, w, h)
  PROVE  \A o \in DOMAIN DepthDefaults[c.codec] : OptionMeans(o, c.options[o]) = OptionMeans(o, d.options[o])
<1>1. c.codec = d.codec /\ c.codec \in DepthCodec
  BY DepthFamilySays, CodecIs
<1>2. CASE c.codec \in DepthVaapi
  <2>1. ASSUME NEW f, NEW x, f \in {"-vaapi_device", "-qp", "-global_quality"}
        PROVE  <<f, x>> \in DepthVaapiArguments(c) <=> <<f, x>> \in DepthVaapiArguments(d)
    <3>1. f \notin {"-c:v", "to"}
      BY <2>1
    <3> QED BY <1>2, <3>1, DepthFamilySays
  <2>5. \A x :
          /\ (<<"-vaapi_device", x>> \in DepthVaapiArguments(c)
                <=> <<"-vaapi_device", x>> \in DepthVaapiArguments(d))
          /\ (<<"-qp", x>> \in DepthVaapiArguments(c)
                <=> <<"-qp", x>> \in DepthVaapiArguments(d))
          /\ (<<"-global_quality", x>> \in DepthVaapiArguments(c)
                <=> <<"-global_quality", x>> \in DepthVaapiArguments(d))
    BY <2>1
  <2>2. Or(c.options.device, DEFAULT_VAAPI_DEVICE) = Or(d.options.device, DEFAULT_VAAPI_DEVICE)
    BY <2>5, DepthVaapiSays, Zenon
  <2>3. CASE c.codec = "H265_VAAPI"
    <3>1. c.options.qp = d.options.qp
      BY <1>1, <2>3, <2>5, DepthVaapiSays, Zenon
    <3> QED BY <2>2, <2>3, <3>1, DepthOptionNames DEF OptionMeans
  <2>6. "AV1_VAAPI" # "H265_VAAPI"
    OBVIOUS
  <2>4. CASE c.codec = "AV1_VAAPI"
    <3>1. c.options.global_quality = d.options.global_quality
      BY <1>1, <2>4, <2>6, <2>5, DepthVaapiSays, Zenon
    <3> QED BY <2>2, <2>4, <3>1, DepthOptionNames DEF OptionMeans
  <2> QED BY <1>2, <2>3, <2>4 DEF DepthVaapi
<1>3. CASE c.codec \in DepthNvenc
  <2> DEFINE flags == {"-qp", "-bf", "-preset", "-rc-lookahead", "-tune", "-gpu"}
  <2>1. ASSUME NEW f \in flags, NEW x
        PROVE  <<f, x>> \in DepthNvencArguments(c) <=> <<f, x>> \in DepthNvencArguments(d)
    <3>1. f \notin {"-c:v", "to"}
      BY <2>1
    <3> QED BY <1>3, <3>1, DepthFamilySays
  <2>2. ASSUME NEW e, NEW x
        PROVE  /\ <<"-qp", x>> \in DepthNvencArguments(e) <=> x = e.options.qp
               /\ <<"-bf", x>> \in DepthNvencArguments(e) <=> x = e.options.b_frames
               /\ <<"-preset", x>> \in DepthNvencArguments(e) <=> x = e.options.preset
               /\ <<"-rc-lookahead", x>> \in DepthNvencArguments(e)
                  <=> x = e.options["rc_lookahead"] /\ x # None
               /\ <<"-tune", x>> \in DepthNvencArguments(e) <=> x = e.options["tune"] /\ x # None
               /\ <<"-gpu", x>> \in DepthNvencArguments(e) <=> x = e.options["gpu"] /\ x # None
    BY DepthNvencHas
  <2>3. \A x : (x = c.options.qp <=> x = d.options.qp) /\ (x = c.options.b_frames <=> x = d.options.b_frames)
               /\ (x = c.options.preset <=> x = d.options.preset)
    BY <2>1, <2>2
  <2>4. \A x : x # None => (x = c.options["rc_lookahead"] <=> x = d.options["rc_lookahead"])
                           /\ (x = c.options["tune"] <=> x = d.options["tune"])
                           /\ (x = c.options["gpu"] <=> x = d.options["gpu"])
    <3> TAKE x
    <3> HAVE x # None
    <3>1. /\ <<"-rc-lookahead", x>> \in DepthNvencArguments(c) <=> x = c.options["rc_lookahead"]
          /\ <<"-tune", x>> \in DepthNvencArguments(c) <=> x = c.options["tune"]
          /\ <<"-gpu", x>> \in DepthNvencArguments(c) <=> x = c.options["gpu"]
      BY <2>2
    <3>2. /\ <<"-rc-lookahead", x>> \in DepthNvencArguments(d) <=> x = d.options["rc_lookahead"]
          /\ <<"-tune", x>> \in DepthNvencArguments(d) <=> x = d.options["tune"]
          /\ <<"-gpu", x>> \in DepthNvencArguments(d) <=> x = d.options["gpu"]
      BY <2>2
    <3>3. \A f \in {"-rc-lookahead", "-tune", "-gpu"} :
             <<f, x>> \in DepthNvencArguments(c) <=> <<f, x>> \in DepthNvencArguments(d)
      BY <2>1
    <3> QED BY <3>1, <3>2, <3>3
  <2>5. \A o \in {"qp", "gpu", "preset", "tune", "b_frames", "rc_lookahead"} : c.options[o] = d.options[o]
    <3>1. c.options.qp = d.options.qp /\ c.options.b_frames = d.options.b_frames
          /\ c.options.preset = d.options.preset
      BY <2>3, Zenon
    <3>2. c.options["rc_lookahead"] = d.options["rc_lookahead"]
      BY <2>4, Zenon
    <3>3. c.options["tune"] = d.options["tune"]
      BY <2>4, Zenon
    <3>4. c.options["gpu"] = d.options["gpu"]
      BY <2>4, Zenon
    <3> QED BY <3>1, <3>2, <3>3, <3>4
  <2> QED BY <1>3, <2>5, DepthOptionNames DEF OptionMeans
<1>4. CASE c.codec = "AV1"
  <2>1. ASSUME NEW f \in {"-crf", "-preset"}, NEW x
        PROVE  <<f, x>> \in DepthSoftwareArguments(c) <=> <<f, x>> \in DepthSoftwareArguments(d)
    <3>1. f \notin {"-c:v", "to"}
      BY <2>1
    <3> QED BY <1>4, <3>1, DepthFamilySays
  <2>2. ASSUME NEW e, e.codec = "AV1", NEW x
        PROVE  /\ <<"-crf", x>> \in DepthSoftwareArguments(e) <=> x = e.options.crf
               /\ <<"-preset", x>> \in DepthSoftwareArguments(e) <=> x = e.options.preset
    BY <2>2, DepthSoftwareHas
  <2>3. c.options.crf = d.options.crf /\ c.options.preset = d.options.preset
    BY <1>1, <1>4, <2>1, <2>2
  <2> QED BY <1>4, <2>3, DepthOptionNames DEF OptionMeans
<1>5. CASE c.codec = "FFV1"
  BY <1>5, DepthOptionNames
<1> QED BY <1>1, <1>2, <1>3, <1>4, <1>5 DEF DepthCodec

LEMMA DepthMeaningIs ==
  ASSUME NEW c, IsDepthConfig(c)
  PROVE  DepthMeaning(c) = [depth_max_mm |-> None, fps |-> c.fps, codec |-> c.codec,
                            options |-> [o \in DOMAIN c.options |-> OptionMeans(o, c.options[o])]]
<1>1. c = [depth_max_mm |-> c.depth_max_mm, fps |-> c.fps, codec |-> c.codec, options |-> c.options]
  BY DEF IsDepthConfig
<1>2. PICK O : O = [o \in DOMAIN c.options |-> OptionMeans(o, c.options[o])]
  OBVIOUS
<1>3. O = [o \in DOMAIN c.options |->
      IF o = "device" THEN Or(c.options[o], DEFAULT_VAAPI_DEVICE) ELSE c.options[o]]
  BY <1>2, Zenon DEF OptionMeans
<1>4. DepthMeaning(c) = [c EXCEPT !.depth_max_mm = None, !.options = O]
  BY <1>3, Zenon DEF DepthMeaning
<1>5. PICK a, b, e, f : c = [depth_max_mm |-> a, fps |-> b, codec |-> e, options |-> f] /\ b = c.fps
                        /\ e = c.codec
  BY <1>1
<1>6. [c EXCEPT !.depth_max_mm = None, !.options = O]
      = [depth_max_mm |-> None, fps |-> b, codec |-> e, options |-> O]
  <2>1. [c EXCEPT !.depth_max_mm = None, !.options = O]
        = [[c EXCEPT !.depth_max_mm = None] EXCEPT !.options = O]
    BY Zenon
  <2>2. PICK x : x = [c EXCEPT !.depth_max_mm = None]
    OBVIOUS
  <2>3. x = [depth_max_mm |-> None, fps |-> b, codec |-> e, options |-> f]
    BY <1>5, <2>2
  <2>4. [x EXCEPT !.options = O] = [depth_max_mm |-> None, fps |-> b, codec |-> e, options |-> O]
    BY <2>3
  <2> QED BY <2>1, <2>2, <2>4, Zenon
<1> QED BY <1>2, <1>4, <1>5, <1>6

(* Whoever asks for the same gets it; whoever asks for something else, too. *)
LEMMA DepthAsksAre == depth_request \in DepthRequests => DepthAsAsked
<1> SUFFICES ASSUME depth_request \in DepthRequests, NEW other \in DepthRequests, NEW c, NEW d,
                    c = DepthConfig(depth_request), d = DepthConfig(other)
             PROVE  /\ depth_validate(c) /\ depth_validate(d) /\ DepthMeaning(c) # DepthMeaning(d)
                         => DepthArguments(c, 2, 2) # DepthArguments(d, 2, 2)
                    /\ [other EXCEPT !.door = "yaml"] = [depth_request EXCEPT !.door = "yaml"] => c = d
  BY Zenon DEF DepthAsAsked
<1>1. IsDepthConfig(c) /\ IsDepthConfig(d)
  BY DepthConfigIs
<1>2. ASSUME DepthArguments(c, 2, 2) = DepthArguments(d, 2, 2) PROVE DepthMeaning(c) = DepthMeaning(d)
  <2>1. c.codec = d.codec /\ c.fps = d.fps
    BY <1>1, <1>2, DepthFamilySays
  <2>2. \A o \in DOMAIN DepthDefaults[c.codec] : OptionMeans(o, c.options[o]) = OptionMeans(o, d.options[o])
    BY <1>1, <1>2, DepthOptionsTell
  <2>3. DOMAIN c.options = DOMAIN DepthDefaults[c.codec] /\ DOMAIN d.options = DOMAIN DepthDefaults[c.codec]
    <3>1. c.options = [o \in DOMAIN DepthDefaults[c.codec] |-> c.options[o]]
      BY DepthOptionsAre
    <3>2. d.options = [o \in DOMAIN DepthDefaults[d.codec] |-> d.options[o]]
      BY DepthOptionsAre
    <3> QED BY <2>1, <3>1, <3>2
  <2>4. [o \in DOMAIN c.options |-> OptionMeans(o, c.options[o])]
        = [o \in DOMAIN d.options |-> OptionMeans(o, d.options[o])]
    BY <2>2, <2>3
  <2>5. PICK x, y : /\ x = [o \in DOMAIN c.options |-> OptionMeans(o, c.options[o])]
                     /\ y = [o \in DOMAIN d.options |-> OptionMeans(o, d.options[o])]
    OBVIOUS
  <2>6. DepthMeaning(c) = [depth_max_mm |-> None, fps |-> c.fps, codec |-> c.codec, options |-> x]
    BY <1>1, <2>5, DepthMeaningIs, Zenon
  <2>7. DepthMeaning(d) = [depth_max_mm |-> None, fps |-> d.fps, codec |-> d.codec, options |-> y]
    BY <1>1, <2>5, DepthMeaningIs, Zenon
  <2> QED BY <2>1, <2>4, <2>5, <2>6, <2>7, Zenon
<1>3. ASSUME [other EXCEPT !.door = "yaml"] = [depth_request EXCEPT !.door = "yaml"] PROVE c = d
  <2>1. \A r \in DepthRequests : LET y == [r EXCEPT !.door = "yaml"]
                                 IN  y.given = r.given /\ y.codec = r.codec /\ y.options = r.options
    BY DepthRequestsAssumption
  <2>2. other.given = depth_request.given /\ other.codec = depth_request.codec
        /\ other.options = depth_request.options
    BY <1>3, <2>1
  <2>3. c = DepthFrom(depth_request.given, depth_request.codec, depth_request.options)
        /\ d = DepthFrom(other.given, other.codec, other.options)
    BY DepthFromIs
  <2> QED BY <2>2, <2>3
<1> QED BY <1>2, <1>3

(* Every step keeps the invariant. *)
LEMMA DepthStep == ASSUME DepthInv, [DepthNext]_depthVars PROVE DepthInv'
<1>1. CASE IngestDepth
  BY <1>1, IngestDepthKeeps
<1>2. CASE DepthUnreadable
  <2>1. DepthFails("failed") \/ DepthFails("aborted")
    BY <1>2 DEF DepthUnreadable
  <2> QED BY <2>1, DepthFailsKeeps
<1>3. CASE DepthRefused
  BY <1>3, DepthFailsKeeps DEF DepthRefused
<1>4. CASE SpawnFfmpeg
  BY <1>4, SpawnFfmpegKeeps
<1>5. CASE WriteDepthFrame
  BY <1>5, WriteDepthFrameKeeps
<1>6. CASE DepthMismatch
  BY <1>6, DepthFailsKeeps DEF DepthMismatch
<1>7. CASE DepthCallFails
  BY <1>7, DepthFailsKeeps DEF DepthCallFails
<1>8. CASE FinishDepthVideo
  BY <1>8, FinishDepthVideoKeeps
<1>9. CASE NoDepthVideo
  BY <1>9, NoDepthVideoKeeps
<1>10. CASE SaveDepthImage
  BY <1>10, SaveDepthImageKeeps
<1>11. CASE SaveDepthSize
  BY <1>11, SaveDepthSizeKeeps
<1>12. CASE OpenWithoutDuration
  BY <1>12, DepthDoneKeeps DEF OpenWithoutDuration, DepthEnter
<1>13. CASE ReadDepthFrame
  BY <1>13, ReadDepthFrameKeeps
<1>14. CASE ReadDepthEnd
  BY <1>14, DepthDoneKeeps DEF ReadDepthEnd, DepthEnter
<1>15. CASE UNCHANGED depthVars
  <2> USE <1>15 DEF depthVars
  <2>1. DepthSent'
    BY SentStays DEF DepthInv
  <2>2. DepthFresh' /\ DepthSaved'
    BY DEF DepthFresh, DepthSaved, SavedUpTo, DepthInv
  <2>3. DepthEncodes'
    BY DEF DepthEncodes, DepthInv, Asked, SameSizes, DepthWritten
  <2>4. DepthRecorded'
    BY VideoStays DEF DepthRecorded, DepthInv, DepthVideoIs
  <2> QED BY <2>1, <2>2, <2>3, <2>4 DEF DepthInv
<1> QED BY <1>1, <1>2, <1>3, <1>4, <1>5, <1>6, <1>7, <1>8, <1>9, <1>10, <1>11, <1>12, <1>13, <1>14, <1>15
        DEF DepthNext, DepthEnded

(* The invariant holds in every state a depth topic can get into, through both
   encoders (DepthVideoEncoder::run, DepthImageEncoder::run) and the decoder.  *)
THEOREM DepthInvHolds == DepthSpec => []DepthInv
<1>1. DepthInit => DepthInv
  BY DepthInitIs
<1>2. DepthInv /\ [DepthNext]_depthVars => DepthInv'
  BY DepthStep
<1> QED BY <1>1, <1>2, PTL DEF DepthSpec

LEMMA SeenAre ==
  ASSUME DepthSent
  PROVE  /\ Len(seen) \in Nat
         /\ \A x : x \in ToSet(seen) <=> \E k \in 1 .. Len(seen) : x = seen[k]
         /\ \A k \in 1 .. Len(seen) : <<seen[k].width, seen[k].height>> \in SizesOf(seen)
<1>1. Len(seen) \in Nat /\ DOMAIN seen = 1 .. Len(seen)
  BY DEF DepthSent
<1>2. \A x : x \in ToSet(seen) <=> \E k \in 1 .. Len(seen) : x = seen[k]
  BY <1>1 DEF ToSet
<1>3. ASSUME NEW k \in 1 .. Len(seen) PROVE <<seen[k].width, seen[k].height>> \in SizesOf(seen)
  <2>1. seen[k] \in ToSet(seen)
    BY <1>2
  <2> QED BY <2>1, Zenon DEF SizesOf
<1> QED BY <1>1, <1>2, <1>3

LEMMA DepthVideoKept ==
  ASSUME DepthSent, DepthVideoIs
  PROVE  /\ None \notin ToSet(seen)
         /\ SizesOf(seen) = {<<artifact.metadata.width, artifact.metadata.height>>}
         /\ DepthFits(Asked) => Len(artifact.file.frames) = Len(seen)
         /\ DepthFits(Asked) => \A d \in ToSet(decoded) : DepthFrameKept(Asked, seen[d.index + 1], d.image)
<1> DEFINE c == Asked
<1>1. Len(seen) > 0 /\ SameSizes(seen, Len(seen))
      /\ artifact.metadata = depth_metadata(c, seen[1].width, seen[1].height)
  BY DEF DepthVideoIs
<1>2. PICK n \in Nat : n = Len(seen) /\ 1 \in 1 .. n
  BY <1>1, SeenAre
<1>3. \A k \in 1 .. n : seen[k] # None /\ seen[k].width = seen[1].width /\ seen[k].height = seen[1].height
  BY <1>1, <1>2 DEF SameSizes
<1>4. None \notin ToSet(seen)
  BY <1>2, <1>3, SeenAre
<1>5. PICK w, h : w = seen[1].width /\ h = seen[1].height
  OBVIOUS
<1>6. SizesOf(seen) = {<<w, h>>}
  <2>1. ASSUME NEW x \in ToSet(seen) PROVE x.width = w /\ x.height = h
    BY <1>2, <1>3, <1>5, SeenAre
  <2>2. \A s \in SizesOf(seen) : s = <<w, h>>
    BY <2>1 DEF SizesOf
  <2>3. <<w, h>> \in SizesOf(seen)
    BY <1>2, <1>5, SeenAre
  <2> QED BY <2>2, <2>3
<1>7. artifact.metadata.width = w /\ artifact.metadata.height = h
  <2>1. artifact.metadata = depth_metadata(c, w, h)
    BY <1>1, <1>5
  <2>2. depth_metadata(c, w, h).width = w /\ depth_metadata(c, w, h).height = h
    BY DEF depth_metadata
  <2> QED BY <2>1, <2>2
<1>8. ASSUME DepthFits(c)
      PROVE  Len(artifact.file.frames) = Len(seen)
             /\ \A d \in ToSet(decoded) : DepthFrameKept(c, seen[d.index + 1], d.image)
  <2>1. DepthFitsSize(c, w, h)
    <3>1. PICK s : s = <<w, h>>
      OBVIOUS
    <3>2. is_lossless(c.codec) \/ (s[1] % 2 = 0 /\ s[2] % 2 = 0)
      BY <1>6, <1>8, <3>1, Zenon DEF DepthFits
    <3>3. s[1] = w /\ s[2] = h
      BY <3>1
    <3> QED BY <3>2, <3>3, Zenon DEF DepthFitsSize
  <2>2. /\ artifact.file.frames = [k \in 1 .. Len(seen) |-> [i \in 1 .. w * h |-> Samples(c, seen[k])[i]]]
        /\ \A d \in ToSet(decoded) : DepthFrameKept(c, seen[d.index + 1], d.image)
    BY <1>5, <2>1, Zenon DEF DepthVideoIs
  <2>3. PICK f : f = artifact.file.frames
    OBVIOUS
  <2>4. f = [k \in 1 .. n |-> f[k]]
    BY <1>2, <2>2, <2>3
  <2>5. Len(f) = n
    BY <2>4, LenIs
  <2> QED BY <1>2, <2>2, <2>3, <2>5
<1> QED BY <1>4, <1>6, <1>7, <1>8

LEMMA DepthInvSays == DepthInv => DepthIsKept
<1> SUFFICES ASSUME DepthInv PROVE DepthIsKept
  OBVIOUS
<1>1. DepthSent /\ DepthSaved /\ DepthRecorded
  BY DEF DepthInv
<1>2. depth_stage = "ingest" => DepthAsAsked
  BY <1>1, DepthAsksAre DEF DepthSent
<1>3. artifact # None => DepthVideoIs
  BY <1>1 DEF DepthRecorded
<1>7. DOMAIN seen = 1 .. Len(seen)
  BY <1>1 DEF DepthSent
<1>4. \A index \in DOMAIN bins : \E i \in DOMAIN seen :
        depth_data[i].index = index /\ seen[i] # None /\ bins[index] = seen[i].values
  BY <1>1, <1>7 DEF DepthSaved
<1>8. ASSUME meta # None, NEW i \in DOMAIN seen
      PROVE  /\ depth_data[i].index \in DOMAIN bins
             /\ bins[depth_data[i].index] = seen[i].values \/ Overwritten(i)
  <2>1. SavedUpTo(Len(seen)) /\ i \in 1 .. Len(seen) /\ Len(seen) \in Nat
    BY <1>1, <1>7, <1>8, SeenAre DEF DepthSaved
  <2>2. ASSUME NEW j \in i + 1 .. Len(seen), depth_data[j].index = depth_data[i].index
        PROVE  set_back
    <3>1. ASSUME ~set_back PROVE depth_data[j].index = j - 1 /\ depth_data[i].index = i - 1
      BY <1>1, <2>1, <3>1 DEF DepthSent
    <3> QED BY <2>1, <2>2, <3>1
  <2> QED BY <2>1, <2>2 DEF SavedUpTo, Overwritten
<1>5. meta # None => <<meta.width, meta.height>> \in SizesOf(seen)
  <2> SUFFICES ASSUME meta # None PROVE <<meta.width, meta.height>> \in SizesOf(seen)
    OBVIOUS
  <2>1. Len(seen) > 0 /\ meta.width = seen[Len(seen)].width /\ meta.height = seen[Len(seen)].height
    BY <1>1 DEF DepthSaved
  <2>2. Len(seen) \in 1 .. Len(seen)
    BY <1>1, <2>1, SeenAre
  <2> QED BY <1>1, <2>1, <2>2, SeenAre
<1>6. artifact # None =>
        /\ None \notin ToSet(seen)
        /\ SizesOf(seen) = {<<artifact.metadata.width, artifact.metadata.height>>}
        /\ DepthFits(Asked) => Len(artifact.file.frames) = Len(seen)
        /\ DepthFits(Asked) => \A d \in ToSet(decoded) : DepthFrameKept(Asked, seen[d.index + 1], d.image)
  BY <1>1, <1>3, DepthVideoKept
<1> QED BY <1>2, <1>4, <1>5, <1>6, <1>8, Zenon DEF DepthIsKept, Asked

(* What a camera saw is what comes out of its depth video and of its raw files
   (DepthVideoEncoder::run, DepthImageEncoder::run, DecodedVideo), for every
   topic, size, codec, option and machine, and however a stage fails; and who
   asks for another video gets another, through either door (DepthVideoConfig). *)
THEOREM DepthIsKeptHolds == DepthSpec => []DepthIsKept
BY DepthInvHolds, DepthInvSays, PTL
=============================================================================
