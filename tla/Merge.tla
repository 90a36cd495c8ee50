------------------------------- MODULE Merge -------------------------------
(***************************************************************************)
(* `merge_datasets`: several LeRobot datasets become one, file by file, in *)
(* an output directory that is never cleaned.  A merge may fail or be cut  *)
(* off between two files or in the middle of one, and be run again, on the *)
(* same datasets or on others that have taken their place.                 *)
(*                                                                         *)
(* An episode's parquet file is what the merge looks at in it: how many    *)
(* rows there are, where their index column starts, the episode_index of   *)
(* all of them and the task_index of each.  `origin` names the recorded    *)
(* episode that a file's payload belongs to.  Statistics of a column are   *)
(* its smallest and its largest value.                                     *)
(***************************************************************************)
EXTENDS Integers, Sequences, FiniteSets, SequencesExt

CONSTANTS
  Shelf,        \* the datasets that may be found, see Dataset
  Sources,      \* number of datasets below source_dir
  ChunksSize,   \* config.chunks_size, or None
  None,
  Torn,         \* a file cut off while it was written
  MaxRuns       \* bound: how often the merge is run

Slot == 1 .. Sources

ASSUME MergeAssumption ==
  /\ Sources \in Nat /\ MaxRuns \in Nat
  /\ ChunksSize \in Nat \cup {None}
  /\ \A d \in Shelf :
       /\ d.chunks_size \in Nat
       /\ d.episodes \in Seq([length : Nat, task_index : Seq(Int), has_video : BOOLEAN,
                              has_stats : BOOLEAN, has_data : BOOLEAN])
       /\ \A e \in DOMAIN d.episodes : Len(d.episodes[e].task_index) = d.episodes[e].length
       /\ d.tasks \in Seq(Range(d.tasks)) /\ None \notin Range(d.tasks)
  /\ Torn \notin [origin : Slot \X {d.name : d \in Shelf} \X Nat, rows : Nat,
                  episode_index : Nat, index : Nat, task_index : Seq(Int)]
  /\ None \notin [min : Int, max : Int]

VARIABLES
  sources,   \* the datasets, in alphabetical order of their directories
  out,       \* the output directory, file by file
  pc,        \* the file merge_datasets writes next
  at,        \* the mapping it is at
  videos,    \* total_copied
  runs,      \* merges started
  result,    \* of the last merge that ended
  over       \* did this merge find the info.json of an earlier one?

vars == <<sources, out, pc, at, videos, runs, result, over>>

Nowhere == <<>>   \* the function without arguments: no file at all

Init ==
  /\ sources \in [Slot -> Shelf]
  /\ out = [info |-> None, tasks |-> None, episodes |-> None, stats |-> None,
            data |-> Nowhere, video |-> Nowhere]
  /\ pc = "idle" /\ at = 0 /\ videos = 0
  /\ runs = 0 /\ result = "none" /\ over = FALSE

-----------------------------------------------------------------------------
(* What is computed from the sources before anything is written *)

chunks_size == IF ChunksSize = None THEN sources[1].chunks_size ELSE ChunksSize

(* deduplicate_tasks: indices in the order the texts are first met *)
GlobalTasks ==
  LET texts == FlattenSeq([s \in Slot |-> sources[s].tasks])
      seen[n \in 0 .. Len(texts)] ==
        IF n = 0 THEN <<>>
        ELSE LET before == seen[n - 1]
             IN  IF texts[n] \in Range(before) THEN before ELSE Append(before, texts[n])
  IN  seen[Len(texts)]

IndexOf(text) == CHOOSE i \in 0 .. Len(GlobalTasks) - 1 : GlobalTasks[i + 1] = text

(* Faulty: indices are carried over. *)
RemapTaskKept(s, task_index) == task_index

(* remap_task_column: negative means no task; an index that tasks.jsonl does
   not have is kept                                                         *)
RemapTask(s, task_index) ==
  IF task_index >= 0 /\ task_index < Len(sources[s].tasks)
  THEN IndexOf(sources[s].tasks[task_index + 1])
  ELSE task_index

(* the statistics of a column, None of an empty one *)
StatOf(column) ==
  IF column = <<>> THEN None
  ELSE [min |-> Min(Range(column)), max |-> Max(Range(column))]

(* remap_constant_task_stat: statistics of rows with one task are those of
   its new index, statistics of rows with several stay what they were       *)
RemapStat(s, stat) ==
  IF stat # None /\ stat.min = stat.max
  THEN [min |-> RemapTask(s, stat.min), max |-> RemapTask(s, stat.min)]
  ELSE stat

Mapping(s, e, frames_before) ==
  [source |-> s, old |-> e - 1, frame_count |-> sources[s].episodes[e].length,
   global_frame_offset |-> frames_before]

(* the episodes in the order build_episode_mappings meets them *)
Listed == FlattenSeq([s \in Slot |-> [e \in DOMAIN sources[s].episodes |-> <<s, e>>]])

(* global_frame_offset, which runs on over the datasets *)
FramesUpTo(k) ==
  LET frames[n \in 0 .. Len(Listed)] ==
        IF n = 0 THEN 0
        ELSE frames[n - 1] + sources[Listed[n][1]].episodes[Listed[n][2]].length
  IN  frames[k]

(* build_episode_mappings; the new index is the position, less one *)
Mappings == [k \in DOMAIN Listed |-> Mapping(Listed[k][1], Listed[k][2], FramesUpTo(k - 1))]

Episode(m) == sources[m.source].episodes[m.old + 1]
Origin(m) == <<m.source, sources[m.source].name, m.old>>

(* Faulty: in the chunk the episode had in its source. *)
PathInSource(k) == <<Mappings[k].old \div sources[Mappings[k].source].chunks_size, k - 1>>

(* chunk and file name of an episode in the output *)
Path(k) == <<(k - 1) \div chunks_size, k - 1>>

-----------------------------------------------------------------------------
(* Faulty: info.json first. *)
OrderInfoFirst == <<"info", "data", "video", "episodes", "stats", "tasks">>

Order == <<"data", "video", "episodes", "stats", "tasks", "info">>

After(file) ==
  LET i == CHOOSE i \in DOMAIN Order : Order[i] = file
  IN  IF i = Len(Order) THEN "idle" ELSE Order[i + 1]

(* discover_datasets, load_sources, validate_sources, deduplicate_tasks and
   build_episode_mappings only read.  The datasets may be others each time.  *)
Begin ==
  /\ pc = "idle" /\ runs < MaxRuns
  /\ runs' = runs + 1
  /\ \E found \in [Slot -> Shelf] : sources' = found
  /\ over' = (out.info # None)
  /\ at' = 1 /\ videos' = 0
  /\ IF Sources < 2 \/ \E s \in Slot : sources'[s].fps # sources'[1].fps
     THEN pc' = "idle" /\ result' = "error"
     ELSE pc' = Order[1] /\ result' = "none"
  /\ UNCHANGED out

(* the next mapping, or the next kind of file *)
Advance ==
  IF at < Len(Mappings) /\ pc \in {"data", "video"}
  THEN at' = at + 1 /\ pc' = pc
  ELSE at' = 1 /\ pc' = After(pc)

(* The content of the files *)

(* remap_parquet_columns, the task_index row by row *)
DataFile(k) ==
  LET m == Mappings[k]
      old == Episode(m).task_index
  IN  [origin |-> Origin(m), rows |-> Episode(m).length, episode_index |-> k - 1,
       index |-> m.global_frame_offset,
       task_index |-> [row \in DOMAIN old |-> RemapTask(m.source, old[row])]]

EpisodesFile ==
  [k \in DOMAIN Mappings |->
     [origin |-> Origin(Mappings[k]), episode_index |-> k - 1, length |-> Mappings[k].frame_count]]

(* Faulty: the maximum is the first index of the next episode. *)
StatsEntryToNext(k) ==
  LET m == Mappings[k]
  IN  [episode_index |-> k - 1,
       min |-> m.global_frame_offset,
       max |-> m.global_frame_offset + m.frame_count,
       task_index |-> RemapStat(m.source, StatOf(Episode(m).task_index))]

(* remap_episode_stats_metadata, of statistics the source has of its rows *)
StatsEntry(k) ==
  LET m == Mappings[k]
  IN  [episode_index |-> k - 1,
       min |-> m.global_frame_offset,
       max |-> m.global_frame_offset + (IF m.frame_count = 0 THEN 0 ELSE m.frame_count - 1),
       task_index |-> RemapStat(m.source, StatOf(Episode(m).task_index))]

(* by the episode's number, less one; one without statistics is skipped *)
StatsFile == [k \in {k \in DOMAIN Mappings : Episode(Mappings[k]).has_stats} |-> StatsEntry(k)]

InfoFile ==
  [total_episodes |-> Len(Mappings), chunks_size |-> chunks_size, fps |-> sources[1].fps,
   total_frames |-> FoldLeft(LAMBDA sum, m : sum + m.frame_count, 0, Mappings),
   total_tasks |-> Len(GlobalTasks), total_videos |-> videos,
   total_chunks |-> IF Mappings = <<>> THEN 0
                    ELSE (Len(Mappings) + chunks_size - 1) \div chunks_size]

Put(files, path, content) ==
  [p \in DOMAIN files \cup {path} |-> IF p = path THEN content ELSE files[p]]

(* process_parquet_files; a missing source file, and a chunks_size of 0, end
   the merge (Fail)                                                        *)
WriteParquet ==
  /\ pc = "data"
  /\ IF Mappings = <<>>
     THEN UNCHANGED out
     ELSE /\ Episode(Mappings[at]).has_data /\ chunks_size > 0
          /\ out' = [out EXCEPT !.data = Put(@, Path(at), DataFile(at))]
  /\ Advance
  /\ UNCHANGED <<sources, videos, runs, result, over>>

(* copy_video_files; a missing video is skipped with a warning *)
CopyVideo ==
  /\ pc = "video"
  /\ IF Mappings # <<>> /\ Episode(Mappings[at]).has_video
     THEN /\ out' = [out EXCEPT !.video = Put(@, Path(at), Origin(Mappings[at]))]
          /\ videos' = videos + 1
     ELSE UNCHANGED <<out, videos>>
  /\ Advance
  /\ UNCHANGED <<sources, runs, result, over>>

(* merge_jsonl_metadata twice, tasks.save, write_merged_info *)
WriteMeta ==
  /\ pc \in {"episodes", "stats", "tasks", "info"}
  /\ out' = [out EXCEPT ![pc] = CASE pc = "episodes" -> EpisodesFile
                                  [] pc = "stats" -> StatsFile
                                  [] pc = "tasks" -> GlobalTasks
                                  [] pc = "info" -> InfoFile]
  /\ Advance
  /\ result' = IF pc' = "idle" THEN "ok" ELSE result
  /\ UNCHANGED <<sources, videos, runs, over>>

(* An error, a panic or a kill ends the merge before, or in the middle of,
   the file it is at.                                                      *)
Fail ==
  /\ pc # "idle"
  /\ \/ UNCHANGED out
     \/ /\ pc \in {"episodes", "stats", "tasks", "info"}
        /\ out' = [out EXCEPT ![pc] = Torn]
     \/ /\ pc \in {"data", "video"} /\ Mappings # <<>> /\ chunks_size > 0
        /\ out' = [out EXCEPT ![pc] = Put(@, Path(at), Torn)]
  /\ pc' = "idle" /\ result' = "error"
  /\ UNCHANGED <<sources, at, videos, runs, over>>

Over == pc = "idle" /\ runs = MaxRuns /\ UNCHANGED vars

Next == Begin \/ WriteParquet \/ CopyVideo \/ WriteMeta \/ Fail \/ Over

Spec == Init /\ [][Next]_vars

-----------------------------------------------------------------------------
(* Properties *)

(* the parquet file a reader of info.json looks for *)
FileOf(k) == <<k \div out.info.chunks_size, k>>

Committed == out.info \notin {None, Torn}

(* the text of each row's task, None where the index is no task's *)
TextsOf(d, task_index) ==
  [row \in DOMAIN task_index |->
     IF task_index[row] \in 0 .. Len(d.tasks) - 1 THEN d.tasks[task_index[row] + 1] ELSE None]

(* The recorded episodes, in the order of their datasets *)
Recorded ==
  FlattenSeq([s \in Slot |->
    [e \in DOMAIN sources[s].episodes |->
       [origin |-> <<s, sources[s].name, e - 1>>,
        length |-> sources[s].episodes[e].length,
        task_index |-> sources[s].episodes[e].task_index,
        task |-> TextsOf(sources[s], sources[s].episodes[e].task_index)]]])

(* What a reader of the output gets, file after file, is every recorded
   episode once and in order, under its number in the file's name, in its
   rows and in episodes.jsonl, and an index column that starts at 0 and goes
   on from one file to the next without a gap.                             *)
EpisodesAreTheRecorded ==
  /\ out.info.total_episodes = Len(Recorded)
  /\ \A k \in 0 .. Len(Recorded) - 1 :
       /\ FileOf(k) \in DOMAIN out.data
       /\ out.data[FileOf(k)] # Torn
       /\ out.data[FileOf(k)].origin = Recorded[k + 1].origin
       /\ out.data[FileOf(k)].episode_index = k
       /\ out.data[FileOf(k)].rows = Recorded[k + 1].length
       /\ out.data[FileOf(k)].index =
            IF k = 0 THEN 0 ELSE out.data[FileOf(k - 1)].index + out.data[FileOf(k - 1)].rows
       /\ out.episodes[k + 1] = [origin |-> Recorded[k + 1].origin, episode_index |-> k,
                                 length |-> Recorded[k + 1].length]

(* A merge that succeeds gives a whole dataset whatever an earlier merge, of
   the same or other datasets, left in the directory when it failed.        *)
SuccessIsWhole == result = "ok" => EpisodesAreTheRecorded

(* A merge into a fresh directory that fails anywhere leaves nothing that
   passes for a dataset: when info.json is readable, all of it is there.    *)
CommittedIsWhole == Committed /\ ~over => EpisodesAreTheRecorded

(* Every frame keeps its task through deduplication, in episodes of one task
   and of several: the text tasks.jsonl has for its new index is the one its
   dataset had for the old, and each text is listed once.  An index that was
   no task's stays what it was.                                             *)
TaskKept ==
  result = "ok" =>
    /\ \A k \in 0 .. Len(Recorded) - 1 :
         LET was == Recorded[k + 1]
             new == out.data[FileOf(k)].task_index
         IN  /\ Len(new) = was.length
             /\ \A row \in 1 .. was.length :
                  IF was.task[row] = None THEN new[row] = was.task_index[row]
                  ELSE new[row] \in 0 .. Len(out.tasks) - 1 /\ out.tasks[new[row] + 1] = was.task[row]
    /\ IsInjective(out.tasks)

IsConstant(column) == \A i, j \in DOMAIN column : column[i] = column[j]

(* The statistics, remapped apart from the rows, still describe them: the
   bounds of the index column, and those of task_index where all rows of the
   episode have one task.  Where they have several the code leaves the old
   numbers (constant_stat_i64), so that the entry is that of the rows in the
   source dataset and may not be that of the merged ones.                   *)
StatsDescribeRows ==
  result = "ok" =>
    \A i \in DOMAIN out.stats :
      LET k == out.stats[i].episode_index
          file == out.data[FileOf(k)]
          was == Recorded[k + 1].task_index
      IN  /\ file.rows > 0 => /\ out.stats[i].min = file.index
                             /\ out.stats[i].max = file.index + (file.rows - 1)
          /\ out.stats[i].task_index = StatOf(IF IsConstant(was) THEN file.task_index ELSE was)

(* A video that a merged dataset has for an episode is that episode's. *)
VideoIsOwn ==
  result = "ok" =>
    \A k \in 0 .. Len(Recorded) - 1 :
      FileOf(k) \in DOMAIN out.video => out.video[FileOf(k)] = Recorded[k + 1].origin
=============================================================================
