---------------------------- MODULE VideoDecoder ----------------------------
(***************************************************************************)
(* `SingleVideoDecoder`: frames of one video by index.  The decoder walks  *)
(* the packets of an open file, seeks to keyframes, and remembers where it *)
(* is: the cached answer, and the time of the last frame it returned.      *)
(*                                                                         *)
(* Frame i, from 0, is packet i and has the time i * FrameDuration in the  *)
(* stream's time base.  A codec with reordering gives out a frame when it  *)
(* has seen Delay packets more (external).                                 *)
(***************************************************************************)
EXTENDS Integers, Sequences, FiniteSetsExt

CONSTANTS
  FrameDuration,     \* of one frame in the time base
  MaxForwardFrames,  \* max_forward_frames, 100 in the code
  Delay,             \* frames the codec keeps back until it is flushed
  KeyframeEvery      \* frame 0, KeyframeEvery, 2 * KeyframeEvery .. are keyframes

(* A frame lasts more than one tick: the muxer that writes the files gives a
   video track a time base of at least 10000 ticks a second (external).  With
   one tick per frame a target that falls short of its frame, see TargetPts,
   would be the frame before, and that would be the answer.                 *)
ASSUME DecoderAssumption ==
  /\ FrameDuration \in Nat /\ FrameDuration > 1 /\ KeyframeEvery \in Nat \ {0}
  /\ MaxForwardFrames \in Nat /\ Delay \in Nat

VARIABLES
  input,              \* the frames in the open file, or the empty sequence
  next_packet,        \* what packets() gives next
  next_frame,         \* what receive_frame gives next
  last_frame_cache,   \* [index, image], or NoFrame
  last_decoded_pts,   \* or NoPts
  answer              \* what the last call returned: a frame, or NoFrame

decoder == <<input, next_packet, next_frame, last_frame_cache, last_decoded_pts, answer>>

NoFrame == [n |-> -1]
NoPts == -1
NoCache == [index |-> -1, image |-> NoFrame]

Pts(i) == i * FrameDuration
Frame(i) == input[i + 1]

OpenVideo(frames) ==
  /\ input' = frames
  /\ next_packet' = 0 /\ next_frame' = 0
  /\ last_frame_cache' = NoCache
  /\ last_decoded_pts' = NoPts
  /\ answer' = NoFrame

(* decode_until, from packet `from` with `frame` the next to come out: the
   first frame that is not before the target.  The end of the file ends the
   search and does not flush the codec; then the time of the last frame
   stays as it was.                                                         *)
DecodeUntil(from, frame, target_pts, pts_if_none) ==
  LET found == {i \in frame .. Len(input) - 1 - Delay : Pts(i) >= target_pts}
  IN  IF found # {}
      THEN /\ answer' = Frame(Min(found))
           /\ next_packet' = Min(found) + Delay + 1
           /\ next_frame' = Min(found) + 1
           /\ last_decoded_pts' = Pts(Min(found))
      ELSE /\ answer' = NoFrame
           /\ next_packet' = Len(input)
           /\ next_frame' = Max({frame, Len(input) - Delay})
           /\ last_decoded_pts' = pts_if_none

ContinueDecode(target_pts) ==
  DecodeUntil(next_packet, next_frame, target_pts, last_decoded_pts)

(* the last keyframe that is not after the target *)
Keyframe(target_pts) ==
  Max({k \in 0 .. Len(input) : k % KeyframeEvery = 0 /\ Pts(k) <= Max({target_pts, 0})})

(* seek_and_decode: the codec is emptied, and it forgets where it was. *)
SeekAndDecode(target_pts) ==
  LET k == Keyframe(target_pts) IN DecodeUntil(k, k, target_pts, NoPts)

(* Two floating point quotients, cut to integers, which may fall just short
   of the exact one: index / fps in seconds, then in the time base ..       *)
TargetPts(index) == IF index = 0 THEN {0} ELSE {Pts(index), Pts(index) - 1}

(* .. and frame_duration_pts, how far a frame is thought to reach *)
FrameDurationPts == {FrameDuration, FrameDuration - 1}

(* Faulty: goes on decoding for a target behind the current position too. *)
CanContinueBack(target_pts, frame_duration_pts) ==
  /\ last_decoded_pts # NoPts
  /\ target_pts <= last_decoded_pts + frame_duration_pts * MaxForwardFrames

CanContinue(target_pts, frame_duration_pts) ==
  /\ last_decoded_pts # NoPts
  /\ target_pts > last_decoded_pts
  /\ target_pts <= last_decoded_pts + frame_duration_pts * MaxForwardFrames

AtIndex(index) ==
  IF last_frame_cache.index = index
  THEN /\ answer' = last_frame_cache.image
       /\ UNCHANGED <<input, next_packet, next_frame, last_frame_cache, last_decoded_pts>>
  ELSE \E target_pts \in TargetPts(index), frame_duration_pts \in FrameDurationPts :
       /\ IF CanContinue(target_pts, frame_duration_pts)
          THEN ContinueDecode(target_pts)
          ELSE SeekAndDecode(target_pts)
       /\ last_frame_cache' = IF answer' = NoFrame THEN last_frame_cache
                              ELSE [index |-> index, image |-> answer']
       /\ UNCHANGED input

AtTimestamp(index) ==
  \E target_pts \in TargetPts(index) :
    /\ SeekAndDecode(target_pts)
    /\ UNCHANGED <<input, last_frame_cache>>
=============================================================================
