-------------------------- MODULE LeRobotTransform --------------------------
(***************************************************************************)
(* `LeRobotV21Transformer`: the synchronized topics of a bag become a      *)
(* LeRobot data set in {outdir}/{uuid}, one episode of all its segments    *)
(* (SHT) or an episode each (PA).  A pipeline may run its stages on bag    *)
(* after bag, and the stage then keeps the tasks it has numbered; a        *)
(* process starts without.  A run may fail or be cut off between two files *)
(* or within one, and a later one write over what it left.                 *)
(*                                                                         *)
(* The times of segments are floating point seconds: they are taken in     *)
(* half nanoseconds, so that rounding and cutting off differ.  A row is    *)
(* [ts, image]: its synched_timestamp_ns, and the index of its image or    *)
(* None.  All topics share the synchronizer's timeline, one row an instant, *)
(* and their inner join is that timeline.                                  *)
(***************************************************************************)
EXTENDS Integers, Sequences, FiniteSets, SequencesExt

CONSTANTS
  Bag,       \* [uuid, labels, label, segments, rows]; "" is no label
  None,
  MaxRuns    \* bound: how often the stage is run

Uuid == {b.uuid : b \in Bag}
Episode == UNION {0 .. Len(b.segments) - 1 : b \in Bag}
MetaFile == {"info", "tasks", "stats", "episodes"}

ASSUME TransformAssumption ==
  /\ MaxRuns \in Nat
  /\ \A b \in Bag :
       /\ b.labels \in Seq(STRING) /\ b.label \in STRING
       /\ b.segments \in Seq([start : Nat, end : Nat, label_idx : Nat])
       /\ \A s \in Range(b.segments) : s.start <= s.end
       /\ b.rows \in Seq([ts : Nat, image : Nat \cup {None}])
       /\ \A i, j \in DOMAIN b.rows : i < j => b.rows[i].ts < b.rows[j].ts

VARIABLES
  separate_per_primitive,   \* PA, not SHT
  metadata,      \* what the stage keeps: [tasks, total_tasks], see LeRobotMetadata
  pc,            \* what is done next, "idle" between runs
  bag,           \* the bag of this run
  frames,        \* the rows of the segments assembled so far, segment by segment
  stream,        \* the images in the open video encoder
  total_videos,
  disk,          \* the data sets, file by file
  runs,          \* number of runs started
  writers,       \* the runs that have written below a uuid
  ok             \* did the last of them return Ok?

run == <<bag, frames, stream, total_videos>>
vars == <<separate_per_primitive, metadata, pc, run, disk, runs, writers, ok>>

Absent == [state |-> "absent"]
Torn == [state |-> "torn"]      \* a file that was not written to its end
Whole(content) == [state |-> "whole", run |-> runs, content |-> content]

Fresh == [tasks |-> [t \in {} |-> 0], total_tasks |-> 0]
NoBag == [uuid |-> None]

Init ==
  /\ separate_per_primitive \in BOOLEAN
  /\ metadata = Fresh
  /\ pc = "idle" /\ bag = NoBag /\ frames = <<>> /\ stream = <<>> /\ total_videos = 0
  /\ disk = [u \in Uuid |->
               [data |-> [e \in Episode |-> Absent], videos |-> [e \in Episode |-> Absent],
                info |-> Absent, tasks |-> Absent, stats |-> Absent, episodes |-> Absent]]
  /\ runs = 0 /\ writers = [u \in Uuid |-> {}] /\ ok = [u \in Uuid |-> FALSE]

-----------------------------------------------------------------------------
(* Tasks *)

(* Faulty: the counter is left alone. *)
AddTaskUncounted(m, t) ==
  [m EXCEPT !.tasks = [x \in DOMAIN m.tasks \cup {t} |->
                         IF x = t THEN m.total_tasks ELSE m.tasks[x]]]

(* LeRobotMetadata::add_task *)
AddTask(m, t) ==
  [tasks |-> [x \in DOMAIN m.tasks \cup {t} |-> IF x = t THEN m.total_tasks ELSE m.tasks[x]],
   total_tasks |-> m.total_tasks + 1]

RegisterLabels(m, labels) ==
  LET known[i \in 0 .. Len(labels)] ==
        IF i = 0 THEN m
        ELSE IF labels[i] \in DOMAIN known[i - 1].tasks THEN known[i - 1]
        ELSE AddTask(known[i - 1], labels[i])
  IN  known[Len(labels)]

(* the labels, then the label of the whole episode, if it has one *)
Labelled(b) == b.labels \o (IF b.label = "" THEN <<>> ELSE <<b.label>>)

(* LeRobotTasksVec: by index *)
TasksVec ==
  LET tasks == metadata.tasks
  IN  CHOOSE v \in [1 .. Cardinality(DOMAIN tasks) -> DOMAIN tasks] :
        /\ Range(v) = DOMAIN tasks
        /\ \A i, j \in DOMAIN v : i < j => tasks[v[i]] <= tasks[v[j]]

-----------------------------------------------------------------------------
(* Segments *)

Rounded(t) == (t + 1) \div 2
Truncated(t) == t \div 2

Option(there, x) == IF there THEN <<x>> ELSE <<>>

(* filter_segments_with_indices_within_range: the positions that are kept *)
Kept(b) ==
  FlattenSeq([i \in DOMAIN b.segments |->
                Option(/\ Rounded(b.segments[i].end) >= b.rows[1].ts
                       /\ Rounded(b.segments[i].start) <= Last(b.rows).ts, i)])

(* extract_segment_data and join_all_features: both ends are included *)
Cut(b, s) ==
  FlattenSeq([i \in DOMAIN b.rows |->
                Option(Truncated(s.start) <= b.rows[i].ts /\ b.rows[i].ts <= Truncated(s.end),
                       b.rows[i])])

(* global_frame_offset; in SHT, where the rows of a segment come to lie *)
Offset == Len(FlattenSeq(frames))

episode == IF separate_per_primitive THEN Len(frames) - 1 ELSE 0

(* the annotations and the axes of the rows of a segment *)
Annotated(rows, task_index, ep) ==
  [k \in DOMAIN rows |->
     [image |-> rows[k].image, task_index |-> task_index, done |-> k = Len(rows),
      index |-> Offset + k - 1, episode_index |-> ep,
      frame_index |-> IF separate_per_primitive THEN k - 1 ELSE Offset + k - 1]]

Images(rows) == FlattenSeq([k \in DOMAIN rows |-> Option(rows[k].image # None, rows[k].image)])

Put(file, content) == disk' = [disk EXCEPT ![bag.uuid][file] = Whole(content)]

PutEpisode(kind, content) == disk' = [disk EXCEPT ![bag.uuid][kind][episode] = Whole(content)]

-----------------------------------------------------------------------------
(* Faulty: SHT writes the metadata first. *)
OrderMetaFirst ==
  IF separate_per_primitive
  THEN <<"finalize", "data", "episodes", "stats", "info", "tasks">>
  ELSE <<"info", "tasks", "stats", "episodes", "finalize", "data">>

(* the order of what is written, for each episode and then for the data set *)
Order ==
  IF separate_per_primitive
  THEN <<"finalize", "data", "episodes", "stats", "info", "tasks">>
  ELSE <<"finalize", "data", "info", "tasks", "stats", "episodes">>

(* on to the next file, or the stage returns Ok *)
Advance ==
  \E i \in DOMAIN Order :
    /\ Order[i] = pc
    /\ IF i < Len(Order)
       THEN pc' = Order[i + 1] /\ UNCHANGED ok
       ELSE pc' = "idle" /\ ok' = [ok EXCEPT ![bag.uuid] = TRUE]

(* execute_pipeline, up to the choice of the mode *)

Readable(b) == Kept(b) # <<>> /\ Len(b.rows) >= 2

Run(b) ==
  /\ pc = "idle" /\ runs < MaxRuns
  /\ metadata' = RegisterLabels(metadata, Labelled(b))
  /\ runs' = runs + 1
  /\ IF Readable(b)
     THEN /\ pc' = "segment"
          /\ bag' = b /\ frames' = <<>> /\ stream' = <<>> /\ total_videos' = 0
          /\ writers' = [writers EXCEPT ![b.uuid] = @ \cup {runs'}]
          /\ ok' = [ok EXCEPT ![b.uuid] = FALSE]
     ELSE UNCHANGED <<pc, run, writers, ok>>
  /\ UNCHANGED <<separate_per_primitive, disk>>

(* The next segment is assembled, and its images go into the encoder, which
   opens the video with the first of them.  Rows without one are passed over. *)
AssembleSegment ==
  /\ pc = "segment"
  /\ LET s == bag.segments[Kept(bag)[Len(frames) + 1]]
         rows == Cut(bag, s)
         ep == IF separate_per_primitive THEN Len(frames) ELSE 0
     IN  /\ s.label_idx \in DOMAIN bag.labels
         /\ frames' = Append(frames, Annotated(rows, metadata.tasks[bag.labels[s.label_idx]], ep))
         /\ stream' = stream \o Images(rows)
         /\ disk' = IF Images(rows) = <<>> THEN disk
                    ELSE [disk EXCEPT ![bag.uuid].videos[ep] = Torn]
  /\ pc' = IF separate_per_primitive \/ Len(frames') = Len(Kept(bag)) THEN Order[1] ELSE "segment"
  /\ UNCHANGED <<separate_per_primitive, metadata, bag, total_videos, runs, writers, ok>>

(* Faulty: the next episode goes into the same encoder. *)
FinalizeKept ==
  /\ pc = "finalize"
  /\ IF stream = <<>>
     THEN UNCHANGED <<disk, total_videos>>
     ELSE PutEpisode("videos", stream) /\ total_videos' = total_videos + 1
  /\ Advance
  /\ UNCHANGED <<separate_per_primitive, metadata, bag, frames, stream, runs, writers>>

(* VideoEncoderPipeline::finalize: no images, no video, and one that an
   earlier run left stays.                                                   *)
Finalize ==
  /\ pc = "finalize"
  /\ IF stream = <<>>
     THEN UNCHANGED <<disk, total_videos>>
     ELSE PutEpisode("videos", stream) /\ total_videos' = total_videos + 1
  /\ stream' = <<>>
  /\ Advance
  /\ UNCHANGED <<separate_per_primitive, metadata, bag, frames, runs, writers>>

EpisodeFrames == IF separate_per_primitive THEN frames ELSE <<FlattenSeq(frames)>>

WriteParquet ==
  /\ pc = "data"
  /\ PutEpisode("data", Last(EpisodeFrames))
  /\ IF Len(frames) < Len(Kept(bag)) THEN pc' = "segment" /\ UNCHANGED ok ELSE Advance
  /\ UNCHANGED <<separate_per_primitive, metadata, run, runs, writers>>

-----------------------------------------------------------------------------
(* The files in meta/ *)

unchanged == <<separate_per_primitive, run, runs, writers>>

(* update_info, update_info_for_pa *)
Info ==
  [total_episodes |-> Len(EpisodeFrames), total_frames |-> Len(FlattenSeq(frames)),
   total_tasks |-> Cardinality(DOMAIN metadata.tasks), total_videos |-> total_videos]

WriteInfo ==
  /\ pc = "info"
  /\ Put("info", Info)
  /\ metadata' = [metadata EXCEPT !.total_tasks = Cardinality(DOMAIN metadata.tasks)]
  /\ Advance
  /\ UNCHANGED unchanged

WriteTasks ==
  /\ pc = "tasks"
  /\ Put("tasks", metadata.tasks)
  /\ Advance
  /\ UNCHANGED <<unchanged, metadata>>

EpisodeId(k) == IF separate_per_primitive THEN <<bag.uuid, Kept(bag)[k]>> ELSE <<bag.uuid>>

EpisodesStats ==
  [k \in DOMAIN EpisodeFrames |->
     [episode_index |-> k - 1, episode_id |-> EpisodeId(k), count |-> Len(EpisodeFrames[k])]]

WriteEpisodeStats ==
  /\ pc = "stats"
  /\ Put("stats", EpisodesStats)
  /\ Advance
  /\ UNCHANGED <<unchanged, metadata>>

(* build_episode: without a label of its own, the last task stands for the
   whole episode and the others for its parts.                              *)
PrimitiveActions ==
  IF bag.label # "" THEN bag.labels
  ELSE IF Len(TasksVec) > 1 THEN SubSeq(TasksVec, 1, Len(TasksVec) - 1)
  ELSE TasksVec

(* build_episode, build_episode_for_pa *)
Episodes ==
  [k \in DOMAIN EpisodeFrames |->
     [episode_index |-> k - 1, episode_id |-> EpisodeId(k), length |-> Len(EpisodeFrames[k]),
      tasks |-> IF separate_per_primitive
                THEN <<bag.labels[bag.segments[Kept(bag)[k]].label_idx]>>
                ELSE PrimitiveActions]]

(* Episodes::save or save_all *)
WriteEpisodes ==
  /\ pc = "episodes"
  /\ Put("episodes", Episodes)
  /\ Advance
  /\ UNCHANGED <<unchanged, metadata>>

-----------------------------------------------------------------------------
(* What a run that stops here leaves of the file it is at; a video that is
   open is torn already.                                                     *)
LeavesTorn ==
  \/ UNCHANGED disk
  \/ pc \in MetaFile /\ disk' = [disk EXCEPT ![bag.uuid][pc] = Torn]
  \/ pc = "data" /\ disk' = [disk EXCEPT ![bag.uuid].data[episode] = Torn]

(* An error: the stage is dropped or used again, with the tasks it knows. *)
Fails ==
  /\ pc # "idle"
  /\ LeavesTorn
  /\ pc' = "idle"
  /\ UNCHANGED <<separate_per_primitive, metadata, run, runs, writers, ok>>

(* Another process, after a crash or after the last has ended *)
Restart ==
  /\ runs < MaxRuns
  /\ LeavesTorn
  /\ pc' = "idle"
  /\ metadata' = Fresh
  /\ separate_per_primitive' \in BOOLEAN
  /\ UNCHANGED <<run, runs, writers, ok>>

Next ==
  \/ \E b \in Bag : Run(b)
  \/ AssembleSegment \/ Finalize \/ WriteParquet
  \/ WriteInfo \/ WriteTasks \/ WriteEpisodeStats \/ WriteEpisodes
  \/ Fails \/ Restart

Spec == Init /\ [][Next]_vars

-----------------------------------------------------------------------------
Written(file) == file.state = "whole"

(* what tasks.jsonl says is a numbering without gaps *)
Numbering(tasks) ==
  /\ \A t \in DOMAIN tasks : tasks[t] \in 0 .. Cardinality(DOMAIN tasks) - 1
  /\ \A t, u \in DOMAIN tasks : tasks[t] = tasks[u] => t = u

RowsBefore(d, k) == Len(FlattenSeq([j \in 1 .. k - 1 |-> d.data[j - 1].content]))

(* The files of a data set agree: an episode's file has the rows that are
   announced, numbered on from the one before; their task is one of the
   episode, under the number that tasks.jsonl gives it, or the last task, which
   an SHT episode without a label takes for its own; the totals are true.     *)
EpisodeAgrees(d, k) ==
  LET e == d.episodes.content[k]
      rows == d.data[k - 1].content
  IN  /\ Written(d.data[k - 1])
      /\ e.episode_index = k - 1 /\ e.length = Len(rows)
      /\ d.stats.content[k] = [episode_index |-> k - 1, episode_id |-> e.episode_id,
                               count |-> Len(rows)]
      /\ \A i \in DOMAIN rows :
           /\ rows[i].index = RowsBefore(d, k) + i - 1
           /\ rows[i].frame_index = i - 1 /\ rows[i].episode_index = k - 1
           /\ \/ \E t \in Range(e.tasks) : d.tasks.content[t] = rows[i].task_index
              \/ /\ Len(e.episode_id) = 1
                 /\ rows[i].task_index = Cardinality(DOMAIN d.tasks.content) - 1

FilesAgree(d) ==
  LET n == Len(d.episodes.content)
  IN  /\ Numbering(d.tasks.content)
      /\ Len(d.stats.content) = n
      /\ \A k \in 1 .. n : EpisodeAgrees(d, k)
      /\ d.info.content.total_episodes = n
      /\ d.info.content.total_frames = RowsBefore(d, n + 1)
      /\ d.info.content.total_tasks = Cardinality(DOMAIN d.tasks.content)

(* When the stage returns Ok, the data set below the uuid agrees with itself,
   whatever earlier runs, of this process or of another, left there, and
   whatever other bags the stage has numbered tasks for.                      *)
OkIsConsistent ==
  \A u \in Uuid :
    ok[u] => (\A f \in MetaFile : Written(disk[u][f])) /\ FilesAgree(disk[u])

(* A run that is cut off has not written all four metadata files, or has
   written everything: what `rebake merge` can read of a directory that one
   run has filled is whole.                                                   *)
MetadataComesLast ==
  \A u \in Uuid :
    Cardinality(writers[u]) = 1 /\ (\A f \in MetaFile : Written(disk[u][f])) =>
      /\ FilesAgree(disk[u])
      /\ \A e \in Episode : disk[u].videos[e].state # "torn"

(* The video of an episode has the images of its rows in their order, as far
   as they have one; an episode without any may come with an old video.       *)
VideoFollowsRows ==
  \A u \in Uuid : \A e \in Episode :
    ok[u] /\ e < disk[u].info.content.total_episodes =>
      LET images == Images(disk[u].data[e].content)
      IN  images # <<>> =>
            disk[u].videos[e] = [state |-> "whole", run |-> disk[u].data[e].run, content |-> images]
=============================================================================
