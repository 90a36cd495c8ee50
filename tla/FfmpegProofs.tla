---------------------------- MODULE FfmpegProofs ----------------------------
(***************************************************************************)
(* The safety of the ffmpeg wrapper for frames, pipes, buffers and limits  *)
(* of every size and for every number of frames and of bytes logged.       *)
(***************************************************************************)
EXTENDS FfmpegSubprocess, SequenceTheorems, TLAPS

(* The reader holds the tail of what it has read, and has read everything
   once it has seen the end.                                               *)
Bytes ==
  /\ written \in Nat /\ written <= MaxErr
  /\ proc = "logging" => written < MaxErr
  /\ drained \in Nat /\ drained <= written
  /\ captured = LastBytes(drained)
  /\ reader \in {"reading", "eof", "broken"}
  /\ reader = "eof" => drained = written /\ ~Running

(* What a place in the wrapper's calls says of its fields. *)
AtControl ==
  /\ pc \in Control
  /\ call \in {"none", "write_all", "finish", "drop"}
  /\ child \in BOOLEAN /\ handle \in BOOLEAN /\ stdin \in BOOLEAN /\ waitFailed \in BOOLEAN
  /\ child = stdin
  /\ child => pc \in {"idle", "writing"}
  /\ pc = "writing" => child /\ call = "write_all"
  /\ pc = "trying" => call \in {"write_all", "drop"}
  /\ ~handle => reader # "reading"
  /\ pc = "gone" => ~handle

Process ==
  /\ proc \in Proc
  /\ code \in {"none", "success", "failure"}
  /\ Running <=> code = "none"
  /\ code = "success" => ~stdin /\ inPipe = 0

(* A child that has been taken is waited for before anything else is done. *)
Reaped == ~child /\ pc \in {"idle", "joining", "gone"} => proc = "reaped" \/ waitFailed

Handed == frames * FrameLen

(* No write has been cut short: the child is there, or was taken by finish. *)
Finishing == call = "finish" /\ (pc \in {"waiting", "joining"} \/ (pc = "idle" /\ answer = "ok"))

(* What was handed over is in the call, in the pipe or in ffmpeg. *)
Conserved ==
  /\ frames \in Nat /\ frames <= MaxFrames
  /\ left \in Nat /\ left <= FrameLen
  /\ inPipe \in Nat /\ inPipe <= InCap
  /\ eaten \in Nat /\ accepted \in Nat
  /\ pc # "writing" => left = 0
  /\ eaten + inPipe + left <= Handed
  /\ accepted <= Handed
  /\ pc = "writing" => accepted + FrameLen <= Handed
  /\ child \/ Finishing => eaten + inPipe + left = Handed

Answered ==
  /\ answer \in {"none", "ok", "closed", "write_error", "wait_error", "exit_error"}
  /\ report = <<>> \/ \E n \in 0 .. MaxErr : report = LastBytes(n)
  /\ pc = "idle" /\ call = "finish" /\ answer = "ok" => code = "success"
  /\ pc = "idle" /\ answer \in {"write_error", "exit_error"} =>
       reader = "broken" \/ (reader = "eof" /\ report = LastBytes(written))

IInv == Bytes /\ AtControl /\ Process /\ Reaped /\ Conserved /\ Answered

-----------------------------------------------------------------------------
(* Sequences of bytes *)

LEMMA LastBytesSeq ==
  ASSUME NEW n \in Nat
  PROVE  /\ LastBytes(n) \in Seq(1 .. n)
         /\ Len(LastBytes(n)) = IF n <= Limit THEN n ELSE Limit
         /\ \A b \in 1 .. Len(LastBytes(n)) : LastBytes(n)[b] = n - Len(LastBytes(n)) + b
<1> DEFINE k == IF n <= Limit THEN n ELSE Limit
<1>1. k \in Nat /\ k <= n
  BY FfmpegAssumption
<1>2. \A b \in 1 .. k : n - k + b \in 1 .. n
  BY <1>1
<1>3. LastBytes(n) = [b \in 1 .. k |-> n - k + b]
  BY DEF LastBytes
<1>4. LastBytes(n) \in [1 .. k -> 1 .. n]
  BY <1>2, <1>3
<1>5. LastBytes(n) \in Seq(1 .. n)
  BY <1>1, <1>4, SeqDef
<1>6. Len(LastBytes(n)) = k
  BY <1>1, <1>3, <1>5, LenProperties
<1> QED
  BY <1>3, <1>5, <1>6

(* s has the last k bytes among the first n *)
IsTail(s, k, n) ==
  /\ s \in Seq(Nat) /\ Len(s) = k /\ k \in Nat /\ n \in Nat
  /\ \A b \in 1 .. k : s[b] = n - k + b

Kept(n) == IF n <= Limit THEN n ELSE Limit

LEMMA LimitPositive == Limit \in Nat /\ Limit >= 1
BY FfmpegAssumption

LEMMA LastBytesTail ==
  ASSUME NEW n \in Nat
  PROVE  IsTail(LastBytes(n), Kept(n), n)
<1>1. LastBytes(n) \in Seq(1 .. n)
  BY LastBytesSeq
<1>2. 1 .. n \subseteq Nat
  OBVIOUS
<1>3. LastBytes(n) \in Seq(Nat)
  BY <1>1, <1>2, SeqMonotonic
<1>4. Kept(n) \in Nat
  BY LimitPositive DEF Kept
<1>5. Len(LastBytes(n)) = Kept(n)
  BY LastBytesSeq DEF Kept
<1>6. \A b \in 1 .. Kept(n) : LastBytes(n)[b] = n - Kept(n) + b
  BY <1>5, LastBytesSeq
<1> QED
  BY <1>3, <1>4, <1>5, <1>6 DEF IsTail

LEMMA TailsEqual ==
  ASSUME NEW s, NEW t, NEW k, NEW n, IsTail(s, k, n), IsTail(t, k, n)
  PROVE  s = t
BY SeqEqual DEF IsTail

LEMMA ConcatTail ==
  ASSUME NEW s, NEW t, NEW k, NEW n, NEW d, IsTail(s, k, d), IsTail(t, n, d + n)
  PROVE  IsTail(s \o t, k + n, d + n)
<1>1. /\ s \in Seq(Nat) /\ Len(s) = k /\ t \in Seq(Nat) /\ Len(t) = n
      /\ k \in Nat /\ n \in Nat /\ d \in Nat
  BY DEF IsTail
<1>2. /\ s \o t \in Seq(Nat) /\ Len(s \o t) = k + n
      /\ \A i \in 1 .. k + n : (s \o t)[i] = IF i <= k THEN s[i] ELSE t[i - k]
  BY <1>1, ConcatProperties
<1>3. ASSUME NEW i \in 1 .. k + n PROVE (s \o t)[i] = d + n - (k + n) + i
  <2>1. CASE i <= k
    <3>1. i \in 1 .. k
      BY <1>1, <2>1
    <3>2. s[i] = d - k + i
      BY <3>1 DEF IsTail
    <3> QED
      BY <1>1, <1>2, <2>1, <3>2
  <2>2. CASE i > k
    <3>1. i - k \in 1 .. n
      BY <1>1, <2>2
    <3>2. t[i - k] = d + n - n + (i - k)
      BY <3>1 DEF IsTail
    <3> QED
      BY <1>1, <1>2, <2>2, <3>2
  <2> QED
    BY <1>1, <2>1, <2>2
<1> QED
  BY <1>1, <1>2, <1>3 DEF IsTail

LEMMA SubSeqTail ==
  ASSUME NEW s, NEW k, NEW n, NEW j \in 1 .. k, IsTail(s, k, n)
  PROVE  IsTail(SubSeq(s, k - j + 1, k), j, n)
<1> DEFINE lo == k - j + 1
           got == SubSeq(s, lo, k)
<1>1. s \in Seq(Nat) /\ Len(s) = k /\ k \in Nat /\ n \in Nat /\ j \in Nat
  BY DEF IsTail
<1>2. lo \in Int /\ k \in Int /\ lo <= k /\ k - lo + 1 = j /\ lo >= 1
  BY <1>1
<1>3. \A i \in lo .. k : s[i] \in Nat
  BY <1>1, <1>2, ElementOfSeq
<1> HIDE DEF lo
<1>4. got \in Seq(Nat) /\ Len(got) = j /\ \A i \in 1 .. j : got[i] = s[lo + i - 1]
  BY <1>2, <1>3, SubSeqProperties
<1>5. ASSUME NEW i \in 1 .. j PROVE got[i] = n - j + i
  <2>1. lo + i - 1 \in 1 .. k /\ lo + i - 1 = k - j + i
    BY <1>1, <1>2
  <2>2. s[lo + i - 1] = n - k + (lo + i - 1)
    BY <2>1 DEF IsTail
  <2> QED
    BY <1>1, <1>4, <2>1, <2>2
<1> QED
  BY <1>1, <1>4, <1>5 DEF IsTail, lo

LEMMA PushShort ==
  ASSUME NEW s, NEW t, NEW n \in Nat, NEW k \in Nat,
         Len(t) = n, n < Limit, Len(s \o t) = k
  PROVE  Push(s, t) = IF k > Limit THEN SubSeq(s \o t, k - Limit + 1, k) ELSE s \o t
<1>1. ~(Len(t) >= Limit)
  BY LimitPositive
<1>2. Push(s, t) = IF Len(s \o t) > Limit
                   THEN SubSeq(s \o t, Len(s \o t) - Limit + 1, Len(s \o t))
                   ELSE s \o t
  BY <1>1, Zenon DEF Push
<1> QED
  BY <1>2

(* push_stderr_with_limit takes the tail of what was read to the tail of
   what is read with the new bytes, on each of its three paths.            *)
LEMMA PushKeepsTail ==
  ASSUME NEW d \in Nat, NEW n \in Nat
  PROVE  Push(LastBytes(d), [b \in 1 .. n |-> d + b]) = LastBytes(d + n)
<1> DEFINE new == [b \in 1 .. n |-> d + b]
           old == LastBytes(d)
           all == old \o new
<1>1. IsTail(new, n, d + n)
  <2>1. new \in [1 .. n -> Nat]
    OBVIOUS
  <2>2. new \in Seq(Nat)
    BY <2>1, SeqDef
  <2>3. Len(new) = n
    BY <2>1, <2>2, LenProperties
  <2>4. \A b \in 1 .. n : new[b] = d + n - n + b
    OBVIOUS
  <2> QED
    BY <2>2, <2>3, <2>4 DEF IsTail
<1>2. IsTail(old, Kept(d), d)
  BY LastBytesTail
<1>3. IsTail(all, Kept(d) + n, d + n)
  BY <1>1, <1>2, ConcatTail
<1>4. IsTail(LastBytes(d + n), Kept(d + n), d + n)
  BY LastBytesTail
<1>5. Len(new) = n /\ Len(all) = Kept(d) + n /\ Kept(d) \in Nat
  BY <1>1, <1>2, <1>3 DEF IsTail
<1> HIDE DEF new, old, all
<1>6. CASE n >= Limit
  <2>1. Limit \in 1 .. n /\ Kept(d + n) = Limit
    BY <1>6, LimitPositive DEF Kept
  <2>2. IsTail(SubSeq(new, n - Limit + 1, n), Limit, d + n)
    BY <1>1, <2>1, SubSeqTail
  <2>3. SubSeq(new, n - Limit + 1, n) = LastBytes(d + n)
    BY <1>4, <2>1, <2>2, TailsEqual
  <2> QED
    BY <1>5, <1>6, <2>3 DEF Push, new, old
<1>7. CASE n < Limit /\ Kept(d) + n > Limit
  <2> DEFINE k == Kept(d) + n
  <2>1. Limit \in 1 .. k /\ Kept(d + n) = Limit
    BY <1>5, <1>7, LimitPositive DEF Kept
  <2>2. IsTail(SubSeq(all, k - Limit + 1, k), Limit, d + n)
    BY <1>3, <2>1, SubSeqTail
  <2>3. SubSeq(all, k - Limit + 1, k) = LastBytes(d + n)
    BY <1>4, <2>1, <2>2, TailsEqual
  <2> QED
    <3>1. Len(old \o new) = k /\ k \in Nat
      BY <1>5 DEF all
    <3>2. Push(old, new) = IF k > Limit THEN SubSeq(old \o new, k - Limit + 1, k) ELSE old \o new
      BY <1>5, <1>7, <3>1, PushShort
    <3>3. Push(old, new) = SubSeq(all, k - Limit + 1, k)
      BY <1>7, <3>2 DEF all
    <3> QED
      BY <2>3, <3>3 DEF old, new
<1>8. CASE n < Limit /\ ~(Kept(d) + n > Limit)
  <2>1. Kept(d + n) = Kept(d) + n
    BY <1>5, <1>8, LimitPositive DEF Kept
  <2>2. all = LastBytes(d + n)
    BY <1>3, <1>4, <2>1, TailsEqual
  <2> QED
    <3> DEFINE k == Kept(d) + n
    <3>1. Len(old \o new) = k /\ k \in Nat
      BY <1>5 DEF all
    <3>2. Push(old, new) = IF k > Limit THEN SubSeq(old \o new, k - Limit + 1, k) ELSE old \o new
      BY <1>5, <1>8, <3>1, PushShort
    <3>3. Push(old, new) = all
      BY <1>8, <3>2 DEF all
    <3> QED
      BY <2>2, <3>3 DEF old, new
<1> QED
  BY <1>5, <1>6, <1>7, <1>8, LimitPositive

-----------------------------------------------------------------------------
(* The invariant *)

LEMMA SizesAreNat ==
  /\ FrameLen \in Nat /\ FrameLen >= 1 /\ InCap \in Nat /\ ErrCap \in Nat
  /\ BufLen \in Nat /\ MaxErr \in Nat /\ MaxFrames \in Nat
BY FfmpegAssumption

LEMMA InitInv == Init => IInv
<1> SUFFICES ASSUME Init PROVE IInv
  OBVIOUS
<1>1. captured = LastBytes(drained)
  <2>1. LastBytes(0) = [b \in 1 .. 0 |-> 0 - 0 + b]
    BY LimitPositive DEF LastBytes
  <2>2. LastBytes(0) \in Seq(1 .. 0) /\ Len(LastBytes(0)) = 0
    BY LastBytesSeq, LimitPositive
  <2>3. LastBytes(0) = <<>>
    BY <2>2, EmptySeq
  <2> QED
    BY <2>3 DEF Init
<1>2. Bytes
  BY <1>1, SizesAreNat DEF Init, Bytes, Running
<1>3. AtControl /\ Process /\ Reaped
  BY DEF Init, AtControl, Control, Process, Proc, Running, Reaped
<1>4. Conserved
  BY SizesAreNat DEF Init, Conserved, Handed, Finishing
<1>5. Answered
  BY DEF Init, Answered
<1> QED
  BY <1>2, <1>3, <1>4, <1>5 DEF IInv

(* A frame more is FrameLen units more to account for. *)
LEMMA HandedNext ==
  ASSUME IInv
  PROVE  Handed \in Nat /\ (frames + 1) * FrameLen = Handed + FrameLen
BY SizesAreNat DEF IInv, Conserved, Handed

LEMMA CallInv == IInv /\ Call => IInv'
<1> SUFFICES ASSUME IInv, Call PROVE IInv'
  OBVIOUS
<1> USE DEF wrapper, process, thread
<1>0. Handed \in Nat /\ (frames + 1) * FrameLen = Handed + FrameLen
  BY HandedNext
<1>1. Bytes'
  BY DEF IInv, Bytes, Running, Call, CallClosed, BeginWrite, BeginFinish, BeginDrop, LastBytes
<1>2. Process'
  BY DEF IInv, Process, AtControl, Running, Call, CallClosed, BeginWrite, BeginFinish, BeginDrop
<1>3. CASE CallClosed
  <2>1. AtControl' /\ Reaped'
    BY <1>3 DEF IInv, AtControl, Control, Reaped, CallClosed, Return
  <2>2. Conserved'
    BY <1>3 DEF IInv, Conserved, Handed, Finishing, CallClosed, Return
  <2>3. Answered'
    BY <1>3 DEF IInv, Answered, CallClosed, Return
  <2> QED
    BY <1>1, <1>2, <2>1, <2>2, <2>3 DEF IInv
<1>4. CASE BeginWrite
  <2>1. AtControl' /\ Reaped'
    BY <1>4 DEF IInv, AtControl, Control, Reaped, BeginWrite
  <2>2. Conserved'
    <3>1. Handed' = Handed + FrameLen
      BY <1>0, <1>4 DEF BeginWrite, Handed
    <3>2. child'
      BY <1>4 DEF BeginWrite
    <3> QED
      BY <1>0, <1>4, <3>1, <3>2, SizesAreNat DEF IInv, Conserved, Finishing, BeginWrite
  <2>3. Answered'
    BY <1>4 DEF IInv, Answered, BeginWrite, LastBytes
  <2> QED
    BY <1>1, <1>2, <2>1, <2>2, <2>3 DEF IInv
<1>5. CASE BeginFinish
  <2>1. AtControl' /\ Reaped'
    BY <1>5 DEF IInv, AtControl, Control, Reaped, BeginFinish
  <2>2. Conserved'
    BY <1>5 DEF IInv, Conserved, Handed, Finishing, BeginFinish
  <2>3. Answered'
    BY <1>5 DEF IInv, Answered, BeginFinish, LastBytes
  <2> QED
    BY <1>1, <1>2, <2>1, <2>2, <2>3 DEF IInv
<1>6. CASE BeginDrop
  <2>1. AtControl' /\ Reaped'
    BY <1>6 DEF IInv, AtControl, Control, Reaped, BeginDrop
  <2>2. Conserved'
    BY <1>6 DEF IInv, Conserved, Handed, Finishing, BeginDrop
  <2>3. Answered'
    BY <1>6 DEF IInv, Answered, BeginDrop, LastBytes
  <2> QED
    BY <1>1, <1>2, <2>1, <2>2, <2>3 DEF IInv
<1> QED
  BY <1>3, <1>4, <1>5, <1>6 DEF Call

LEMMA InCallInv == IInv /\ (InCall \/ WaitErr) => IInv'
<1> SUFFICES ASSUME IInv, InCall \/ WaitErr PROVE IInv'
  OBVIOUS
<1> USE DEF wrapper, process, thread
<1>0. Handed \in Nat
  BY HandedNext
<1>1. CASE WriteSome
  <2>1. Bytes'
    BY <1>1 DEF IInv, Bytes, Running, LastBytes, WriteSome
  <2>2. AtControl' /\ Reaped'
    BY <1>1 DEF IInv, Bytes, AtControl, Control, Reaped, WriteSome
  <2>3. Process'
    BY <1>1 DEF IInv, Process, Proc, AtControl, Running, WriteSome
  <2>4. Conserved'
    BY <1>1, <1>0, SizesAreNat DEF IInv, Conserved, AtControl, Handed, Finishing, WriteSome
  <2>5. Answered'
    BY <1>1 DEF IInv, Answered, LastBytes, WriteSome
  <2> QED
    BY <2>1, <2>2, <2>3, <2>4, <2>5 DEF IInv
<1>2. CASE WriteDone
  <2>1. Bytes'
    BY <1>2 DEF IInv, Bytes, Running, LastBytes, WriteDone
  <2>2. AtControl' /\ Reaped'
    BY <1>2 DEF IInv, Bytes, AtControl, Control, Reaped, WriteDone, Return
  <2>3. Process'
    BY <1>2 DEF IInv, Process, Proc, AtControl, Running, WriteDone
  <2>4. Conserved'
    BY <1>2, <1>0, SizesAreNat DEF IInv, Conserved, AtControl, Handed, Finishing, WriteDone, Return
  <2>5. Answered'
    BY <1>2 DEF IInv, AtControl, Answered, LastBytes, WriteDone, Return
  <2> QED
    BY <2>1, <2>2, <2>3, <2>4, <2>5 DEF IInv
<1>3. CASE WriteError
  <2>1. Bytes'
    BY <1>3 DEF IInv, Bytes, Running, LastBytes, WriteError
  <2>2. AtControl' /\ Reaped'
    BY <1>3 DEF IInv, Bytes, AtControl, Control, Reaped, WriteError
  <2>3. Process'
    BY <1>3 DEF IInv, Process, Proc, AtControl, Running, WriteError
  <2>4. Conserved'
    BY <1>3, <1>0, SizesAreNat DEF IInv, Conserved, AtControl, Handed, Finishing, WriteError
  <2>5. Answered'
    BY <1>3 DEF IInv, Answered, LastBytes, WriteError
  <2> QED
    BY <2>1, <2>2, <2>3, <2>4, <2>5 DEF IInv
<1>4. CASE TryWaitExited
  <2>1. Bytes'
    BY <1>4 DEF IInv, Bytes, Running, LastBytes, TryWaitExited
  <2>2. AtControl' /\ Reaped'
    BY <1>4 DEF IInv, Bytes, AtControl, Control, Reaped, TryWaitExited
  <2>3. Process'
    BY <1>4 DEF IInv, Process, Proc, AtControl, Running, TryWaitExited
  <2>4. Conserved'
    BY <1>4, <1>0, SizesAreNat DEF IInv, Conserved, AtControl, Handed, Finishing, TryWaitExited
  <2>5. Answered'
    BY <1>4 DEF IInv, Answered, LastBytes, TryWaitExited
  <2> QED
    BY <2>1, <2>2, <2>3, <2>4, <2>5 DEF IInv
<1>5. CASE TryWaitKill
  <2>1. Bytes'
    BY <1>5 DEF IInv, Bytes, Running, LastBytes, TryWaitKill
  <2>2. AtControl' /\ Reaped'
    BY <1>5 DEF IInv, Bytes, AtControl, Control, Reaped, TryWaitKill
  <2>3. Process'
    BY <1>5 DEF IInv, Process, Proc, AtControl, Running, TryWaitKill
  <2>4. Conserved'
    BY <1>5, <1>0, SizesAreNat DEF IInv, Conserved, AtControl, Handed, Finishing, TryWaitKill
  <2>5. Answered'
    BY <1>5 DEF IInv, Answered, LastBytes, TryWaitKill
  <2> QED
    BY <2>1, <2>2, <2>3, <2>4, <2>5 DEF IInv
<1>6. CASE WaitExited
  <2>1. Bytes'
    BY <1>6 DEF IInv, Bytes, Running, LastBytes, WaitExited
  <2>2. AtControl' /\ Reaped'
    BY <1>6 DEF IInv, Bytes, AtControl, Control, Reaped, WaitExited
  <2>3. Process'
    BY <1>6 DEF IInv, Process, Proc, AtControl, Running, WaitExited
  <2>4. Conserved'
    BY <1>6, <1>0, SizesAreNat DEF IInv, Conserved, AtControl, Handed, Finishing, WaitExited
  <2>5. Answered'
    BY <1>6 DEF IInv, Answered, LastBytes, WaitExited
  <2> QED
    BY <2>1, <2>2, <2>3, <2>4, <2>5 DEF IInv
<1>7. CASE WaitErr
  <2>1. Bytes'
    BY <1>7 DEF IInv, Bytes, Running, LastBytes, WaitErr
  <2>2. AtControl' /\ Reaped'
    BY <1>7 DEF IInv, Bytes, AtControl, Control, Reaped, WaitErr, Return
  <2>3. Process'
    BY <1>7 DEF IInv, Process, Proc, AtControl, Running, WaitErr
  <2>4. Conserved'
    BY <1>7, <1>0, SizesAreNat DEF IInv, Conserved, AtControl, Handed, Finishing, WaitErr, Return
  <2>5. Answered'
    BY <1>7 DEF IInv, Answered, LastBytes, WaitErr, Return
  <2> QED
    BY <2>1, <2>2, <2>3, <2>4, <2>5 DEF IInv
<1>8. CASE Join
  <2>1. Bytes'
    BY <1>8 DEF IInv, Bytes, Running, LastBytes, Join
  <2>2. AtControl' /\ Reaped'
    BY <1>8 DEF IInv, Bytes, AtControl, Control, Reaped, Join, Conclude, Return
  <2>3. Process'
    BY <1>8 DEF IInv, Process, Proc, AtControl, Running, Join
  <2>4. Conserved'
    BY <1>8, <1>0, SizesAreNat DEF IInv, Conserved, AtControl, Handed, Finishing, Join, Conclude, Return
  <2>5. Answered'
    <3>1. captured = LastBytes(drained) /\ drained \in 0 .. MaxErr
      BY SizesAreNat DEF IInv, Bytes
    <3>2. report' \in {report, <<>>, captured}
      BY <1>8 DEF Join, Conclude, Return
    <3>3. report' = <<>> \/ \E n \in 0 .. MaxErr : report' = LastBytes(n)
      BY <3>1, <3>2, Zenon DEF IInv, Answered
    <3>4. reader = "broken" \/ (reader = "eof" /\ captured = LastBytes(written))
      BY <1>8, <3>1 DEF IInv, Bytes, AtControl, Join
    <3>5. answer' \in {"write_error", "exit_error"} /\ pc' = "idle" => report' = captured
      BY <1>8 DEF IInv, Answered, Join, Conclude, Return
    <3>6. UNCHANGED <<reader, written, code, call>>
      BY <1>8 DEF Join
    <3>7. answer' \in {"none", "ok", "closed", "write_error", "wait_error", "exit_error"}
      BY <1>8 DEF IInv, Answered, Join, Conclude, Return
    <3>8. pc' = "idle" /\ call' = "finish" /\ answer' = "ok" => code' = "success"
      BY <1>8 DEF Join, Conclude, Return
    <3>9. pc' = "idle" /\ answer' \in {"write_error", "exit_error"} =>
            reader' = "broken" \/ (reader' = "eof" /\ report' = LastBytes(written'))
      BY <3>4, <3>5, <3>6
    <3> QED
      BY <3>3, <3>7, <3>8, <3>9, Zenon DEF Answered, LastBytes
  <2> QED
    BY <2>1, <2>2, <2>3, <2>4, <2>5 DEF IInv
<1> QED
  BY <1>1, <1>2, <1>3, <1>4, <1>5, <1>6, <1>7, <1>8 DEF InCall

LEMMA ReaderInv == IInv /\ (Reader \/ ReadBreaks) => IInv'
<1> SUFFICES ASSUME IInv, Reader \/ ReadBreaks PROVE IInv'
  OBVIOUS
<1> USE DEF wrapper, process, thread
<1>1. AtControl' /\ Process' /\ Reaped' /\ Conserved'
  BY DEF IInv, AtControl, Control, Process, Proc, Running, Reaped, Conserved, Handed, Finishing,
         Reader, ReadStderr, ReadEof, ReadBreaks
<1>2. CASE ReadStderr
  <2>1. PICK n \in 1 .. BufLen :
          /\ n <= ErrPipe
          /\ captured' = Push(captured, [b \in 1 .. n |-> drained + b])
          /\ drained' = drained + n
    BY <1>2 DEF ReadStderr
  <2>2. n \in Nat /\ drained \in Nat /\ captured = LastBytes(drained)
    BY SizesAreNat DEF IInv, Bytes
  <2>3. captured' = LastBytes(drained + n)
    BY <2>1, <2>2, PushKeepsTail
  <2>4. drained + n \in Nat /\ drained + n <= written
    BY <2>1, <2>2 DEF IInv, Bytes, ErrPipe
  <2>5. reader = "reading" /\ UNCHANGED <<reader, written, proc>>
    BY <1>2 DEF ReadStderr
  <2>6. LastBytes(drained + n) = LastBytes(drained')
    BY <2>1
  <2>7. Bytes'
    BY <2>1, <2>3, <2>4, <2>5, <2>6 DEF IInv, Bytes, Running, LastBytes
  <2>8. Answered'
    BY <1>2 DEF IInv, Answered, LastBytes, ReadStderr
  <2> QED
    BY <1>1, <2>7, <2>8 DEF IInv
<1>3. CASE ReadEof \/ ReadBreaks
  <2>1. Bytes'
    BY <1>3 DEF IInv, Bytes, Running, ErrPipe, LastBytes, ReadEof, ReadBreaks
  <2>2. Answered'
    BY <1>3 DEF IInv, AtControl, Answered, LastBytes, ReadEof, ReadBreaks
  <2> QED
    BY <1>1, <2>1, <2>2 DEF IInv
<1> QED
  BY <1>2, <1>3 DEF Reader

(* What the process does: only Log touches the bytes of stderr, which a
   reader that has seen the end rules out, and only Consume moves input.   *)
LEMMA FfmpegInv == IInv /\ (Ffmpeg \/ Crash \/ BecomeZombie) => IInv'
<1> SUFFICES ASSUME IInv, Ffmpeg \/ Crash \/ BecomeZombie PROVE IInv'
  OBVIOUS
<1> USE DEF wrapper, process, thread
<1>0. Handed \in Nat
  BY HandedNext
<1>1. CASE Consume
  <2>1. AtControl' /\ Reaped'
    BY <1>1 DEF IInv, AtControl, Control, Reaped, Running, Consume
  <2>2. Bytes'
    BY <1>1, SizesAreNat DEF IInv, Bytes, Running, LastBytes, Consume
  <2>3. Process'
    BY <1>1 DEF IInv, Process, Proc, Conserved, Running, Consume
  <2>4. Conserved'
    BY <1>1, <1>0, SizesAreNat DEF IInv, Conserved, Handed, Finishing, Consume
  <2>5. Answered'
    BY <1>1 DEF IInv, Bytes, Answered, Running, LastBytes, Consume
  <2> QED
    BY <2>1, <2>2, <2>3, <2>4, <2>5 DEF IInv
<1>2. CASE StartLog
  <2>1. AtControl' /\ Reaped'
    BY <1>2 DEF IInv, AtControl, Control, Reaped, Running, StartLog
  <2>2. Bytes'
    BY <1>2, SizesAreNat DEF IInv, Bytes, Running, LastBytes, StartLog
  <2>3. Process'
    BY <1>2 DEF IInv, Process, Proc, Conserved, Running, StartLog
  <2>4. Conserved'
    BY <1>2, <1>0 DEF IInv, Conserved, Handed, Finishing, StartLog
  <2>5. Answered'
    BY <1>2 DEF IInv, Bytes, Answered, Running, LastBytes, StartLog
  <2> QED
    BY <2>1, <2>2, <2>3, <2>4, <2>5 DEF IInv
<1>3. CASE Log
  <2>1. AtControl' /\ Reaped'
    BY <1>3 DEF IInv, AtControl, Control, Reaped, Running, Log
  <2>2. Bytes'
    BY <1>3, SizesAreNat DEF IInv, Bytes, Running, LastBytes, Log
  <2>3. Process'
    BY <1>3 DEF IInv, Process, Proc, Conserved, Running, Log
  <2>4. Conserved'
    BY <1>3, <1>0 DEF IInv, Conserved, Handed, Finishing, Log
  <2>5. Answered'
    BY <1>3 DEF IInv, Bytes, Answered, Running, LastBytes, Log
  <2> QED
    BY <2>1, <2>2, <2>3, <2>4, <2>5 DEF IInv
<1>4. CASE ExitAtEof
  <2>1. AtControl' /\ Reaped'
    BY <1>4 DEF IInv, AtControl, Control, Reaped, Running, ExitAtEof
  <2>2. Bytes'
    BY <1>4, SizesAreNat DEF IInv, Bytes, Running, LastBytes, ExitAtEof
  <2>3. Process'
    BY <1>4 DEF IInv, Process, Proc, Conserved, Running, ExitAtEof
  <2>4. Conserved'
    BY <1>4, <1>0 DEF IInv, Conserved, Handed, Finishing, ExitAtEof
  <2>5. Answered'
    BY <1>4 DEF IInv, Bytes, Process, Answered, Running, LastBytes, ExitAtEof
  <2> QED
    BY <2>1, <2>2, <2>3, <2>4, <2>5 DEF IInv
<1>5. CASE Crash
  <2>1. AtControl' /\ Reaped'
    BY <1>5 DEF IInv, AtControl, Control, Reaped, Running, Crash
  <2>2. Bytes'
    BY <1>5, SizesAreNat DEF IInv, Bytes, Running, LastBytes, Crash
  <2>3. Process'
    BY <1>5 DEF IInv, Process, Proc, Conserved, Running, Crash
  <2>4. Conserved'
    BY <1>5, <1>0 DEF IInv, Conserved, Handed, Finishing, Crash
  <2>5. Answered'
    BY <1>5 DEF IInv, Bytes, Process, Answered, Running, LastBytes, Crash
  <2> QED
    BY <2>1, <2>2, <2>3, <2>4, <2>5 DEF IInv
<1>6. CASE BecomeZombie
  <2>1. AtControl' /\ Reaped'
    BY <1>6 DEF IInv, AtControl, Control, Reaped, Running, BecomeZombie
  <2>2. Bytes'
    BY <1>6, SizesAreNat DEF IInv, Bytes, Running, LastBytes, BecomeZombie
  <2>3. Process'
    BY <1>6 DEF IInv, Process, Proc, Conserved, Running, BecomeZombie
  <2>4. Conserved'
    BY <1>6, <1>0 DEF IInv, Conserved, Handed, Finishing, BecomeZombie
  <2>5. Answered'
    BY <1>6 DEF IInv, Bytes, Answered, Running, LastBytes, BecomeZombie
  <2> QED
    BY <2>1, <2>2, <2>3, <2>4, <2>5 DEF IInv
<1> QED
  BY <1>1, <1>2, <1>3, <1>4, <1>5, <1>6 DEF Ffmpeg

LEMMA StepInv == IInv /\ [Next]_vars => IInv'
<1> SUFFICES ASSUME IInv, [Next]_vars PROVE IInv'
  OBVIOUS
<1>1. CASE UNCHANGED vars
  BY <1>1 DEF vars, wrapper, process, thread, IInv, Bytes, AtControl, Process, Reaped,
     Conserved, Handed, Finishing, Answered, Running, LastBytes
<1>2. CASE Next
  BY <1>1, <1>2, CallInv, InCallInv, ReaderInv, FfmpegInv DEF Next, Gone
<1> QED
  BY <1>1, <1>2

LEMMA Invariance == Spec => []IInv
BY InitInv, StepInv, PTL DEF Spec

-----------------------------------------------------------------------------
(* What the invariant says *)

LEMMA BytesInRange ==
  ASSUME NEW n \in Nat, n <= MaxErr
  PROVE  LastBytes(n) \in Seq(1 .. MaxErr) /\ Len(LastBytes(n)) <= Limit
<1>1. 1 .. n \subseteq 1 .. MaxErr
  BY SizesAreNat
<1>2. LastBytes(n) \in Seq(1 .. MaxErr)
  BY <1>1, LastBytesSeq, SeqMonotonic
<1> QED
  BY <1>2, LastBytesSeq, LimitPositive

LEMMA HandedBound ==
  ASSUME IInv
  PROVE  Handed <= FrameLen * MaxFrames
<1>1. frames \in Nat /\ frames <= MaxFrames
  BY DEF IInv, Conserved
<1>2. PICK d \in Nat : MaxFrames = frames + d
  <2>1. MaxFrames - frames \in Nat
    BY <1>1, SizesAreNat
  <2> QED
    BY <1>1, <2>1, SizesAreNat
<1>3. FrameLen * MaxFrames = frames * FrameLen + d * FrameLen
  BY <1>1, <1>2, SizesAreNat
<1>4. d * FrameLen \in Nat /\ frames * FrameLen \in Nat
  BY <1>1, <1>2, SizesAreNat
<1> QED
  BY <1>3, <1>4 DEF Handed

LEMMA InvType == IInv => TypeOK
<1> SUFFICES ASSUME IInv PROVE TypeOK
  OBVIOUS
<1>1. captured \in Seq(1 .. MaxErr) /\ Len(captured) <= Limit
  <2>1. drained \in Nat /\ drained <= MaxErr /\ captured = LastBytes(drained)
    BY SizesAreNat DEF IInv, Bytes
  <2> QED
    BY <2>1, BytesInRange
<1>2. report \in Seq(1 .. MaxErr)
  <2>1. CASE report = <<>>
    BY <2>1
  <2>2. CASE \E n \in 0 .. MaxErr : report = LastBytes(n)
    BY <2>2, BytesInRange, SizesAreNat
  <2> QED
    BY <2>1, <2>2 DEF IInv, Answered
<1>3. accepted \in 0 .. FrameLen * MaxFrames /\ eaten \in 0 .. FrameLen * MaxFrames
  <2>1. FrameLen * MaxFrames \in Nat /\ Handed \in Nat
    BY SizesAreNat, HandedNext
  <2>2. accepted \in Nat /\ eaten \in Nat /\ accepted <= Handed /\ eaten <= Handed
    BY <2>1 DEF IInv, Conserved
  <2> QED
    BY <2>1, <2>2, HandedBound
<1>4. /\ left \in 0 .. FrameLen /\ frames \in 0 .. MaxFrames /\ inPipe \in 0 .. InCap
      /\ written \in 0 .. MaxErr /\ drained \in 0 .. written
  BY SizesAreNat DEF IInv, Conserved, Bytes
<1>5. /\ pc \in Control /\ call \in {"none", "write_all", "finish", "drop"}
      /\ child \in BOOLEAN /\ handle \in BOOLEAN /\ stdin \in BOOLEAN /\ waitFailed \in BOOLEAN
      /\ proc \in Proc /\ code \in {"none", "success", "failure"}
      /\ answer \in {"none", "ok", "closed", "write_error", "wait_error", "exit_error"}
      /\ reader \in {"reading", "eof", "broken"}
  BY DEF IInv, AtControl, Process, Answered, Bytes
<1> QED
  BY <1>1, <1>2, <1>3, <1>4, <1>5 DEF TypeOK

(* Every variable keeps its type; the tail never exceeds Limit, and what was
   accepted or eaten never exceeds what was handed over
   (ffmpeg_subprocess.rs, the whole wrapper).                              *)
THEOREM TypeCorrect == Spec => []TypeOK
BY Invariance, InvType, PTL

(* push_stderr_with_limit keeps the latest bytes in order, for every size of
   the reads and of the limit.                                             *)
THEOREM TailKept == Spec => []CapturedIsTail
<1>1. IInv => CapturedIsTail
  BY DEF IInv, Bytes, CapturedIsTail
<1> QED
  BY <1>1, Invariance, PTL

(* The error of a failed write or of a failed encode carries ffmpeg's last
   words, unless the reader itself broke.                                  *)
THEOREM ReportsComplete == Spec => []ReportIsComplete
<1>1. IInv => ReportIsComplete
  BY DEF IInv, Answered, ReportIsComplete
<1> QED
  BY <1>1, Invariance, PTL

(* finish() says Ok only of an encode that took in every frame.            *)
THEOREM OkIsEncoded == Spec => []OkMeansEncoded
<1>1. IInv => OkMeansEncoded
  <2> SUFFICES ASSUME IInv, pc = "idle", call = "finish", answer = "ok"
               PROVE  code = "success" /\ eaten = frames * FrameLen
    BY DEF OkMeansEncoded
  <2>1. code = "success" /\ inPipe = 0 /\ left = 0
    BY DEF IInv, Answered, Process, Conserved
  <2>2. eaten + inPipe + left = Handed /\ eaten \in Nat
    BY DEF IInv, Conserved, Finishing
  <2> QED
    BY <2>1, <2>2 DEF Handed
<1> QED
  BY <1>1, Invariance, PTL

(* A wrapper that is gone has left neither its thread nor its child.       *)
THEOREM NothingLeft == Spec => []NothingLeftBehind
<1>1. IInv => NothingLeftBehind
  BY DEF IInv, AtControl, Reaped, NothingLeftBehind
<1> QED
  BY <1>1, Invariance, PTL
=============================================================================
