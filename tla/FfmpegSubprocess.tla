-------------------------- MODULE FfmpegSubprocess --------------------------
(***************************************************************************)
(* `FfmpegSubprocess`: an encoder's thread writes frames into the stdin of *)
(* an ffmpeg process, a background thread drains its stderr, and the child *)
(* must be gone when the wrapper is.  Both pipes are finite, ffmpeg may    *)
(* block on either, and it may die between any two steps.                  *)
(*                                                                         *)
(* A byte on stdin is a unit without identity; the bytes of stderr are     *)
(* numbered 1, 2, .. in the order ffmpeg writes them.                      *)
(***************************************************************************)
EXTENDS Naturals, Sequences

CONSTANTS
  FrameLen,     \* units in the data of one write_all
  InCap,        \* capacity of the stdin pipe
  ErrCap,       \* capacity of the stderr pipe
  BufLen,       \* size of the reader's buffer (8192)
  Limit,        \* MAX_CAPTURED_STDERR
  MaxErr,       \* bound: bytes ffmpeg writes to stderr
  MaxFrames     \* bound: calls of write_all

ASSUME FfmpegAssumption ==
  /\ {FrameLen, InCap, ErrCap, BufLen, Limit} \subseteq Nat \ {0}
  /\ {MaxErr, MaxFrames} \subseteq Nat

VARIABLES
  pc,         \* what the encoder's thread does, see Control
  call,       \* the call it is in
  child,      \* is self.child Some?
  handle,     \* is self.stderr_handle Some?
  stdin,      \* does the parent hold the write end of stdin?
  left,       \* units of the current frame still to be written
  frames,     \* calls of write_all so far
  accepted,   \* units of the frames that write_all returned Ok for
  answer,     \* what the last call returned
  report,     \* the stderr text the last call put in its error
  inPipe,     \* units in the stdin pipe
  proc,       \* the ffmpeg process
  code,       \* its exit status, "none" before it ends
  eaten,      \* units it has read
  written,    \* bytes it has written to stderr
  drained,    \* bytes the reader has read
  captured,   \* the reader's Vec
  reader,     \* the reader thread
  waitFailed  \* did child.wait() fail?

wrapper == <<call, child, handle, stdin, left, frames, accepted, answer, report, waitFailed>>
process == <<inPipe, proc, code, eaten, written>>
thread == <<drained, captured, reader>>
vars == <<pc, wrapper, process, thread>>

(* idle: between calls; writing, trying (try_wait), waiting (wait) and
   joining are the system calls a call may block or branch in             *)
Control == {"idle", "writing", "trying", "waiting", "joining", "gone"}

(* ending: its descriptors are closed and it is not yet a zombie *)
Proc == {"reading", "logging", "ending", "zombie", "reaped"}

TypeOK ==
  /\ pc \in Control
  /\ call \in {"none", "write_all", "finish", "drop"}
  /\ {child, handle, stdin, waitFailed} \subseteq BOOLEAN
  /\ left \in 0 .. FrameLen /\ frames \in 0 .. MaxFrames
  /\ accepted \in 0 .. FrameLen * MaxFrames
  /\ answer \in {"none", "ok", "closed", "write_error", "wait_error", "exit_error"}
  /\ report \in Seq(1 .. MaxErr)
  /\ inPipe \in 0 .. InCap
  /\ proc \in Proc
  /\ code \in {"none", "success", "failure"}
  /\ eaten \in 0 .. FrameLen * MaxFrames
  /\ written \in 0 .. MaxErr
  /\ drained \in 0 .. written
  /\ captured \in Seq(1 .. MaxErr) /\ Len(captured) <= Limit
  /\ reader \in {"reading", "eof", "broken"}

(* spawn: three pipes, the child, and the reader thread *)
Init ==
  /\ pc = "idle" /\ call = "none"
  /\ child = TRUE /\ handle = TRUE /\ stdin = TRUE
  /\ left = 0 /\ frames = 0 /\ accepted = 0
  /\ answer = "none" /\ report = <<>>
  /\ inPipe = 0 /\ proc = "reading" /\ code = "none" /\ eaten = 0 /\ written = 0
  /\ drained = 0 /\ captured = <<>> /\ reader = "reading"
  /\ waitFailed = FALSE

Running == proc \in {"reading", "logging"}
ErrPipe == written - drained

-----------------------------------------------------------------------------
(* The encoder's thread *)

Return(a, r) == pc' = "idle" /\ answer' = a /\ report' = r

(* write_all and finish on a wrapper that is already closed *)
CallClosed ==
  /\ pc = "idle"
  /\ ~child
  /\ \E c \in {"write_all", "finish"} : call' = c
  /\ Return("closed", <<>>)
  /\ UNCHANGED <<child, handle, stdin, left, frames, accepted, waitFailed, process, thread>>

BeginWrite ==
  /\ pc = "idle" /\ child
  /\ frames < MaxFrames
  /\ pc' = "writing" /\ call' = "write_all"
  /\ left' = FrameLen
  /\ frames' = frames + 1
  /\ UNCHANGED <<child, handle, stdin, accepted, answer, report, waitFailed, process, thread>>

(* stdin.write_all(data) puts in what the pipe has room for, and blocks *)
WriteSome ==
  /\ pc = "writing" /\ left > 0
  /\ Running
  /\ \E n \in 1 .. left : /\ inPipe + n <= InCap
                          /\ inPipe' = inPipe + n
                          /\ left' = left - n
  /\ UNCHANGED <<pc, call, child, handle, stdin, frames, accepted, answer, report,
                 waitFailed, proc, code, eaten, written, thread>>

WriteDone ==
  /\ pc = "writing" /\ left = 0
  /\ accepted' = accepted + FrameLen
  /\ Return("ok", <<>>)
  /\ UNCHANGED <<call, child, handle, stdin, left, frames, waitFailed, process, thread>>

(* EPIPE: terminate_after_write_error takes the child and closes stdin *)
WriteError ==
  /\ pc = "writing" /\ left > 0
  /\ ~Running
  /\ pc' = "trying"
  /\ child' = FALSE /\ stdin' = FALSE
  /\ left' = 0
  /\ UNCHANGED <<call, handle, frames, accepted, answer, report, waitFailed, process, thread>>

(* finish takes the child, closes stdin and waits, however long it takes *)
BeginFinish ==
  /\ pc = "idle" /\ child
  /\ pc' = "waiting" /\ call' = "finish"
  /\ child' = FALSE /\ stdin' = FALSE
  /\ UNCHANGED <<handle, left, frames, accepted, answer, report, waitFailed, process, thread>>

(* Faulty: the Child is dropped like any other field. *)
BeginDropDetached ==
  /\ pc = "idle"
  /\ pc' = "joining" /\ call' = "drop"
  /\ child' = FALSE /\ stdin' = FALSE
  /\ UNCHANGED <<handle, left, frames, accepted, answer, report, waitFailed, process, thread>>

(* Drop: only a child that is still there is tried and killed *)
BeginDrop ==
  /\ pc = "idle"
  /\ pc' = IF child THEN "trying" ELSE "joining"
  /\ call' = "drop"
  /\ child' = FALSE /\ stdin' = FALSE
  /\ UNCHANGED <<handle, left, frames, accepted, answer, report, waitFailed, process, thread>>

(* try_wait: Ok(Some(status)) *)
TryWaitExited ==
  /\ pc = "trying"
  /\ proc = "zombie"
  /\ proc' = "reaped"
  /\ pc' = "joining"
  /\ UNCHANGED <<wrapper, inPipe, code, eaten, written, thread>>

(* Faulty: the child is waited for and not killed. *)
TryWaitNoKill ==
  /\ pc = "trying"
  /\ pc' = "waiting"
  /\ UNCHANGED <<wrapper, process, thread>>

(* try_wait: Ok(None), which the child may outrun, or Err.  kill() does
   nothing to a process that is already ending.                           *)
TryWaitKill ==
  /\ pc = "trying"
  /\ IF Running THEN proc' = "ending" /\ code' = "failure" ELSE UNCHANGED <<proc, code>>
  /\ pc' = "waiting"
  /\ UNCHANGED <<wrapper, inPipe, eaten, written, thread>>

WaitExited ==
  /\ pc = "waiting"
  /\ proc = "zombie"
  /\ proc' = "reaped"
  /\ pc' = "joining"
  /\ UNCHANGED <<wrapper, inPipe, code, eaten, written, thread>>

(* finish returns the error and leaves the reader to Drop; the kill paths
   ignore it                                                              *)
WaitErr ==
  /\ pc = "waiting"
  /\ waitFailed' = TRUE
  /\ IF call = "finish"
     THEN Return("wait_error", <<>>)
     ELSE pc' = "joining" /\ UNCHANGED <<answer, report>>
  /\ UNCHANGED <<call, child, handle, stdin, left, frames, accepted, process, thread>>

(* Faulty: the exit status is not looked at. *)
ConcludeRegardless ==
  \/ call = "drop" /\ pc' = "gone" /\ UNCHANGED <<answer, report>>
  \/ call = "write_all" /\ Return("write_error", captured)
  \/ call = "finish" /\ Return("ok", <<>>)

(* What the call has to say once stderr is there.  *)
Conclude ==
  \/ call = "drop" /\ pc' = "gone" /\ UNCHANGED <<answer, report>>
  \/ call = "write_all" /\ Return("write_error", captured)
  \/ call = "finish" /\ code = "success" /\ Return("ok", <<>>)
  \/ call = "finish" /\ code # "success" /\ Return("exit_error", captured)

(* Faulty: the call returns what has been captured so far. *)
JoinNoWait ==
  /\ pc = "joining"
  /\ handle' = FALSE
  /\ Conclude
  /\ UNCHANGED <<call, child, stdin, left, frames, accepted, waitFailed, process, thread>>

(* handle.join(), if the handle has not been taken before *)
Join ==
  /\ pc = "joining"
  /\ handle => reader # "reading"
  /\ handle' = FALSE
  /\ Conclude
  /\ UNCHANGED <<call, child, stdin, left, frames, accepted, waitFailed, process, thread>>

-----------------------------------------------------------------------------
(* The reader thread *)

(* Faulty: keeps one byte too many. *)
PushOneMore(bytes, incoming) ==
  LET all == bytes \o incoming
  IN  IF Len(all) > Limit + 1 THEN SubSeq(all, Len(all) - Limit, Len(all)) ELSE all

(* push_stderr_with_limit: the oldest bytes go *)
Push(bytes, incoming) ==
  IF Len(incoming) >= Limit
  THEN SubSeq(incoming, Len(incoming) - Limit + 1, Len(incoming))
  ELSE LET all == bytes \o incoming
       IN  IF Len(all) > Limit THEN SubSeq(all, Len(all) - Limit + 1, Len(all)) ELSE all

(* Faulty: the reader stops once it has all it keeps. *)
ReadUpToLimit ==
  /\ reader = "reading"
  /\ drained < Limit
  /\ \E n \in 1 .. BufLen :
       /\ n <= ErrPipe
       /\ captured' = Push(captured, [b \in 1 .. n |-> drained + b])
       /\ drained' = drained + n
  /\ UNCHANGED <<pc, wrapper, process, reader>>

(* stderr.read(&mut buffer): Ok(n) *)
ReadStderr ==
  /\ reader = "reading"
  /\ \E n \in 1 .. BufLen :
       /\ n <= ErrPipe
       /\ captured' = Push(captured, [b \in 1 .. n |-> drained + b])
       /\ drained' = drained + n
  /\ UNCHANGED <<pc, wrapper, process, reader>>

(* Ok(0): ffmpeg has closed its stderr and the pipe is empty *)
ReadEof ==
  /\ reader = "reading"
  /\ ErrPipe = 0 /\ ~Running
  /\ reader' = "eof"
  /\ UNCHANGED <<pc, wrapper, process, drained, captured>>

(* Err(_), an interrupted read included: the thread returns what it has and
   closes the pipe                                                        *)
ReadBreaks ==
  /\ reader = "reading"
  /\ reader' = "broken"
  /\ UNCHANGED <<pc, wrapper, process, drained, captured>>

-----------------------------------------------------------------------------
(* The ffmpeg process, as far as the wrapper relies on it: one thread that
   reads frames, logs, and ends with success only at the end of its input  *)

Consume ==
  /\ proc = "reading"
  /\ \E n \in 1 .. inPipe : inPipe' = inPipe - n /\ eaten' = eaten + n
  /\ UNCHANGED <<pc, wrapper, proc, code, written, thread>>

StartLog ==
  /\ proc = "reading"
  /\ written < MaxErr
  /\ proc' = "logging"
  /\ UNCHANGED <<pc, wrapper, inPipe, code, eaten, written, thread>>

(* blocks while the pipe is full; without a reader the byte is lost *)
Log ==
  /\ proc = "logging"
  /\ ErrPipe < ErrCap \/ reader = "broken"
  /\ written' = written + 1
  /\ proc' = "reading"
  /\ UNCHANGED <<pc, wrapper, inPipe, code, eaten, thread>>

ExitAtEof ==
  /\ proc = "reading"
  /\ ~stdin /\ inPipe = 0
  /\ proc' = "ending"
  /\ \E c \in {"success", "failure"} : code' = c
  /\ UNCHANGED <<pc, wrapper, inPipe, eaten, written, thread>>

Crash ==
  /\ Running
  /\ proc' = "ending" /\ code' = "failure"
  /\ UNCHANGED <<pc, wrapper, inPipe, eaten, written, thread>>

(* The system is done with the process but for its status. *)
BecomeZombie ==
  /\ proc = "ending"
  /\ proc' = "zombie"
  /\ UNCHANGED <<pc, wrapper, inPipe, code, eaten, written, thread>>

-----------------------------------------------------------------------------
(* What an encoder may do next is up to it; what it has begun goes on.     *)
Call == CallClosed \/ BeginWrite \/ BeginFinish \/ BeginDrop

InCall == WriteSome \/ WriteDone \/ WriteError \/ TryWaitExited \/ TryWaitKill
            \/ WaitExited \/ Join

Reader == ReadStderr \/ ReadEof

Ffmpeg == Consume \/ StartLog \/ Log \/ ExitAtEof

(* the wrapper is gone; the encoder goes its way *)
Gone == pc = "gone" /\ UNCHANGED vars

Next == Call \/ InCall \/ WaitErr \/ Reader \/ ReadBreaks
          \/ Ffmpeg \/ Crash \/ BecomeZombie \/ Gone

Spec == Init /\ [][Next]_vars

(* Threads run and the system buries the dead; no system call is assumed to
   fail, and ffmpeg is not assumed to do anything.                          *)
FairSpec == Spec /\ WF_vars(InCall) /\ WF_vars(Reader) /\ WF_vars(BecomeZombie)

(* ffmpeg does not hang by itself; assumed only where said so *)
FfmpegFair == WF_vars(Ffmpeg)

-----------------------------------------------------------------------------
(* Properties *)

(* The last bytes among the first n, at most Limit of them *)
LastBytes(n) ==
  LET k == IF n <= Limit THEN n ELSE Limit IN [b \in 1 .. k |-> n - k + b]

(* However ffmpeg's output is cut into reads, the reader holds the latest
   bytes it has read, in order and never more than Limit
   (push_stderr_with_limit).                                               *)
CapturedIsTail == captured = LastBytes(drained)

(* An error carries ffmpeg's last words: nothing ffmpeg wrote before it died
   is still in the pipe when the message is made, though process and reader
   end in either order (the join in finish and after a failed write).      *)
ReportIsComplete ==
  pc = "idle" /\ answer \in {"write_error", "exit_error"} =>
    reader = "broken" \/ report = LastBytes(written)

(* finish() returns Ok only if ffmpeg succeeded and took in every frame that
   was ever handed over, the one cut short by a failed write included.     *)
OkMeansEncoded ==
  pc = "idle" /\ call = "finish" /\ answer = "ok" =>
    code = "success" /\ eaten = frames * FrameLen

(* A wrapper that is gone leaves neither thread nor process, not even a
   zombie, unless the system refused to wait for the child.                *)
NothingLeftBehind ==
  pc = "gone" => reader # "reading" /\ (proc = "reaped" \/ waitFailed)

(* Liveness.  No call hangs on two full pipes: if ffmpeg goes on whenever it
   can, every call of the encoder returns, even if the reader has broken.  *)
CallsReturn ==
  FfmpegFair => (pc \notin {"idle", "gone"} ~> pc \in {"idle", "gone"})

(* Closing after a failed write, or by Drop, does not depend on ffmpeg: it
   returns even when ffmpeg hangs for good, unless waiting failed.         *)
CloseIsPrompt ==
  pc = "trying" ~> pc \in {"idle", "gone"} \/ waitFailed
=============================================================================
