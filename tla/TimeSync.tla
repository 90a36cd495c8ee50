------------------------------ MODULE TimeSync ------------------------------
(***************************************************************************)
(* The three time synchronizers: zero-order hold ("zoh"), nearest          *)
(* neighbour ("nn") and timestamp merge ("merge").  Each turns the topics  *)
(* of a dataset into tables with one row per target timestamp, in steps:   *)
(* time bounds, timeline, then every topic in the order of a HashMap.      *)
(*                                                                         *)
(* A source row is one message; its timestamp is in u64 nanoseconds since  *)
(* the epoch (the model's clock starts at 0), and several messages of a    *)
(* topic may have the same.  Null stands for a row the join left empty.    *)
(***************************************************************************)
EXTENDS Integers, Sequences, FiniteSetsExt, Functions

CONSTANTS
  Topic,     \* the topics of the dataset
  Method,    \* the synchronizers to run, of "zoh", "nn" and "merge"
  Fps,       \* the configured frame rates
  Second,    \* nanoseconds in a second, 1_000_000_000
  I64Max,    \* largest i64
  MaxTime,   \* bound: latest timestamp
  MaxLen     \* bound: messages in a topic

(* Fps of 0 divides by zero and one above Second never ends, see README. *)
ASSUME TimeSyncAssumption ==
  /\ Topic # {} /\ IsFiniteSet(Topic) /\ Method \subseteq {"zoh", "nn", "merge"}
  /\ {Second, I64Max, MaxTime, MaxLen} \subseteq Nat
  /\ Fps \subseteq 1 .. Second

Time == 0 .. MaxTime
Null == -1

VARIABLES
  method,    \* the synchronizer
  fps,       \* self.fps
  source,    \* the timestamp column of every topic, in the order of the rows
  phase,     \* how far the stage is
  start, end,
  timeline,  \* the synched_timestamp_ns column, the same for all topics
  todo,      \* topics not aligned yet
  aligned,   \* for each topic, the original timestamp each timeline row holds
  held,      \* for each topic, which message that is; not kept for "nn",
             \* whose sort is free to reorder messages of one timestamp
  is_fresh   \* the flag column; the merge adds none

vars == <<method, fps, source, phase, start, end, timeline, todo, aligned, held, is_fresh>>

Column == UNION {[1 .. n -> Time] : n \in 0 .. MaxLen}

Ascending(s) == \A i, j \in DOMAIN s : i < j => s[i] <= s[j]

(* Bags are ingested in the order of the file.  Only "nn" sorts a topic
   itself, the others rely on that order to be the order of time.           *)
Init ==
  /\ method \in Method
  /\ fps \in Fps
  /\ source \in [Topic -> IF method = "nn" THEN Column ELSE {c \in Column : Ascending(c)}]
  /\ phase = "bounds"
  /\ start = 0 /\ end = 0
  /\ timeline = <<>>
  /\ todo = Topic
  /\ aligned = [t \in Topic |-> <<>>]
  /\ held = [t \in Topic |-> <<>>]
  /\ is_fresh = [t \in Topic |-> <<>>]

-----------------------------------------------------------------------------
(* The timeline *)

Stamps(t) == Range(source[t])

(* Faulty: from the first message of any topic. *)
StartFromAny == Min({Min(Stamps(t)) : t \in Topic})

(* start.max(min), end.max(max) over the topics *)
StartBound == Max({Min(Stamps(t)) : t \in Topic})

EndBound == Max({Max(Stamps(t)) : t \in Topic})

TargetTimestamps(first, last) ==
  LET step == Second \div fps
  IN  [k \in 1 .. (last - first) \div step + 1 |-> first + (k - 1) * step]

(* sort: the values of a column in ascending order, each as often as there;
   the n-th is the smallest that n of them do not exceed                    *)
Sorted(column) ==
  LET UpTo(x) == {r \in DOMAIN column : column[r] <= x}
  IN  [n \in 1 .. Cardinality(DOMAIN column) |->
         Min({x \in Range(column) : Cardinality(UpTo(x)) >= n})]

(* the messages of all topics, [topic, row] *)
Rows == UNION {{t} \X DOMAIN source[t] : t \in Topic}
StampOf(r) == source[r[1]][r[2]]

(* Faulty: only what is strictly inside the bounds. *)
MergedTimestampsInside(first, last) ==
  Sorted([r \in {r \in Rows : first < StampOf(r) /\ StampOf(r) < last} |-> StampOf(r)])

MergedTimestamps(first, last) ==
  Sorted([r \in {r \in Rows : first <= StampOf(r) /\ StampOf(r) <= last} |-> StampOf(r)])

(* time_bounds: an empty topic is an error *)
TimeBounds ==
  /\ phase = "bounds"
  /\ IF \E t \in Topic : Stamps(t) = {}
     THEN phase' = "failed" /\ UNCHANGED <<start, end>>
     ELSE phase' = "timeline" /\ start' = StartBound /\ end' = EndBound
  /\ UNCHANGED <<method, fps, source, timeline, todo, aligned, held, is_fresh>>

Timeline ==
  /\ phase = "timeline"
  /\ timeline' = IF method = "merge" THEN MergedTimestamps(start, end)
                                     ELSE TargetTimestamps(start, end)
  /\ phase' = "align"
  /\ UNCHANGED <<method, fps, source, start, end, todo, aligned, held, is_fresh>>

-----------------------------------------------------------------------------
(* The as-of joins of polars, with check_sortedness = false: one cursor goes
   over the source rows, whatever their order, and for each row of the
   timeline, which ascends, stops at the first that is later (or not earlier) *)

RowOrNull(s, i) == IF i \in DOMAIN s THEN s[i] ELSE Null

(* the message before the cursor, 0 for none: of several with the same
   timestamp the last                                                       *)
BackwardRows(s) ==
  LET Later(x) == Min({j \in 1 .. Len(s) + 1 : j > Len(s) \/ s[j] > x})
  IN  [k \in 1 .. Len(timeline) |-> Later(timeline[k]) - 1]

AsofBackward(s) == [k \in 1 .. Len(timeline) |-> RowOrNull(s, BackwardRows(s)[k])]

AsofForward(s) ==
  LET NotEarlier(x) == Min({j \in 1 .. Len(s) + 1 : j > Len(s) \/ s[j] >= x})
  IN  [k \in 1 .. Len(timeline) |-> RowOrNull(s, NotEarlier(timeline[k]))]

(* (a - b)^2 in i64, which wraps *)
SquaredTimeDifference(a, b) ==
  LET width == 2 * (I64Max + 1)
  IN  (((a - b) * (a - b) + I64Max + 1) % width) - (I64Max + 1)

(* choose_nearest: a tie goes to the past *)
ChooseNearest(target, backward, forward) ==
  LET prefer_forward ==
        /\ forward # Null
        /\ \/ backward = Null
           \/ SquaredTimeDifference(target, forward) < SquaredTimeDifference(target, backward)
  IN  IF prefer_forward THEN forward ELSE backward

(* Faulty: the source is not sorted first. *)
AlignNearestUnsorted(s) ==
  LET b == AsofBackward(s)
      f == AsofForward(s)
  IN  [k \in DOMAIN timeline |-> ChooseNearest(timeline[k], b[k], f[k])]

(* collect_source sorts; both joins have the timeline's rows, and are joined
   on its distinct timestamps                                               *)
AlignNearest(s) ==
  LET sorted == Sorted(s)
      b == AsofBackward(sorted)
      f == AsofForward(sorted)
  IN  [k \in DOMAIN timeline |-> ChooseNearest(timeline[k], b[k], f[k])]

(* Faulty: a row is fresh unless it is the one before at the same target. *)
FreshAfterNull(rows) == [k \in DOMAIN rows |-> rows[k] # Null]

(* append_is_fresh_column: not the value of the last row that had one *)
Fresh(rows) ==
  [k \in DOMAIN rows |->
     /\ rows[k] # Null
     /\ ~ \E j \in 1 .. k - 1 : /\ rows[j] = rows[k]
                                /\ \A i \in j + 1 .. k - 1 : rows[i] = Null]

AlignTopic(t) ==
  /\ phase = "align"
  /\ t \in todo
  /\ todo' = todo \ {t}
  /\ LET rows == IF method = "nn" THEN AlignNearest(source[t]) ELSE AsofBackward(source[t])
     IN  /\ aligned' = [aligned EXCEPT ![t] = rows]
         /\ held' = [held EXCEPT ![t] = IF method = "nn" THEN <<>> ELSE BackwardRows(source[t])]
         /\ is_fresh' = [is_fresh EXCEPT ![t] = IF method = "merge" THEN <<>> ELSE Fresh(rows)]
  /\ UNCHANGED <<method, fps, source, phase, start, end, timeline>>

SetDataset ==
  /\ phase = "align"
  /\ todo = {}
  /\ phase' = "done"
  /\ UNCHANGED <<method, fps, source, start, end, timeline, todo, aligned, held, is_fresh>>

Returned == phase \in {"done", "failed"} /\ UNCHANGED vars

Next ==
  \/ TimeBounds
  \/ Timeline
  \/ \E t \in Topic : AlignTopic(t)
  \/ SetDataset
  \/ Returned

Spec == Init /\ [][Next]_vars

-----------------------------------------------------------------------------
(* Properties *)

Done == phase = "done"

(* All topics come out as long as the timeline, which is never empty, and no
   row is without data, whatever the topics' time ranges and even when one
   topic ends before another begins (time_bounds against the as-of joins).  *)
NoHole ==
  Done =>
    /\ timeline # <<>>
    /\ \A t \in Topic : /\ Len(aligned[t]) = Len(timeline)
                        /\ \A k \in DOMAIN timeline : aligned[t][k] # Null

Distance(a, b) == IF a >= b THEN a - b ELSE b - a

(* Nearest neighbour: no message of the topic is closer to the row than the
   one it holds, in whatever order the topic was recorded.                  *)
Nearest ==
  Done /\ method = "nn" =>
    \A t \in Topic : \A k \in DOMAIN timeline : \A x \in Stamps(t) :
      Distance(aligned[t][k], timeline[k]) <= Distance(x, timeline[k])

(* Each timestamp a topic contributes is fresh in exactly one row, the first
   of those that hold it; held rows are stale (append_is_fresh_column, which
   compares original timestamps).                                           *)
FreshOnce ==
  Done /\ method # "merge" =>
    \A t \in Topic : \A k \in DOMAIN timeline :
      is_fresh[t][k] <=> \A j \in 1 .. k - 1 : aligned[t][j] # aligned[t][k]

(* What the merge keeps and what it loses: of the messages from start on,
   a row holds each one but those that a later message of the same topic
   follows with the same timestamp.  The timeline has a row for each of
   these too, but all hold the last of them (the backward join of
   join_asof_with_strategy), so the others are in no row.                   *)
MergeKeepsLast ==
  Done /\ method = "merge" =>
    \A t \in Topic : \A i \in DOMAIN source[t] :
      source[t][i] >= start =>
        LET Kept == \E k \in DOMAIN timeline : held[t][k] = i
            Doubled == \E j \in DOMAIN source[t] : j > i /\ source[t][j] = source[t][i]
        IN  Kept <=> ~ Doubled
=============================================================================
