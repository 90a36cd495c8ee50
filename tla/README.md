# rebake in TLA+

rebake turns robot recordings (ROS 1 and ROS 2 bags) into datasets for learning:
a bag is ingested into tables and frames, enriched, synchronized to one clock,
encoded, exported as a bundle or written as a LeRobot v2.1 dataset; datasets are
merged into larger ones. A YAML file and the command line, or a Python script,
say which stages run. This directory models the parts of it in which order,
failure, time and shared state matter, checks them with TLC on small instances,
and proves with TLAPS, for eight of them, what the instances suggest for all sizes.

## Inventory

| Part | State | Operations | Talks to | What makes it correct |
|---|---|---|---|---|
| Orchestrator (`orchestrator/orchestrator.rs`, `rebake run`) | pending, running and failed inputs, `should_stop`, child processes | spawn, poll, kill, finish; sequential path | children by exit status, signals | no input is lost from the verdict or blamed for another; `--jobs` and `stop_on_error` are kept; it returns |
| Pipeline runner (`Pipeline::run`, `save_context`, `rosbag_utils.rs`) | one input's stage, the folders of saved contexts | collect bags, run stages, write topics | the orchestrator, the file system | what is saved of an input is its own and whole |
| Export (`rebake-cli/.../export.rs`, `export/`) | as the orchestrator, without stopping; bundles | spawn, poll, finish; the exporter's files in order | children, the file system | each bag is accounted for; a registry vouches for its bundle |
| FFmpeg subprocess (`encode/ffmpeg_subprocess.rs`) | child, stdin, thread handle, captured tail of stderr | spawn, write_all, finish, drop; the reader thread | ffmpeg through two pipes, by signals | no deadlock between the pipes; Ok means a finished encode; nothing is left running or unreaped |
| Ingest (`ingest/`) | tables by topic, image counter, lists of images and depths | register a topic, add a message, finish; read a bundle | bag readers | every row refers to its own frame |
| ROS message decoding (`ingest/ros_msg_arrow_parser.rs`, `ros/`, `arrow/`) | definitions, schema, builders, a cursor in the bytes | parse the definition, make schema and builders, read and append | ingest | the table holds what was published; one topic does not fail the bag without cause |
| Video encoders (`encode/video_encoder.rs`) | input mode, size, stream, count | configure, preflight, add a frame, finish, drop | codecs, ffmpeg | the video has a frame for each message; what is asked for is what the encoder is told |
| Depth encoders (`depth_video_encoder.rs`, `compressed_depth/`, `depth_quantizer.rs`, `depth_image_encoder.rs`) | the process, frames written | decode PNG or RVL, quantize, pack, write | ffmpeg | each depth comes back, within half a step |
| Video decoder (`decode/video_decoder.rs`) | cache, position, open file | at_index, at_timestamp, decode all | codecs, the transform | the frame that was asked for is the one returned |
| Time synchronizers (`synchronize/`) | timestamp index, timeline, aligned tables | bounds, timeline, align each topic | the Context's dataset; polars' as-of join | every row of every topic has the message it should have; fresh and held rows are told apart |
| TF enrichers (`enrich/tf_*.rs`) | snapshots; the chain's builder, kept over runs | group, backfill; set parent, find ancestor, compose | the synchronizer | a product has the latest link of each edge, of this bag only |
| LeRobot transform (`transform/lerobot_v21/`) | task registry kept over bags, segments, episode tables, video encoders | filter, assemble, annotate, encode, write | merge, through the files | rows, frames, indices and files of an episode agree, also after a crash |
| Merge (`merge/`) | source datasets, output directory | discover, load, validate, renumber, write file after file | the file system, earlier merges | a dataset that can be found is whole; numbers, tasks, statistics and videos belong to their episode |
| Metadata (`schema/`) | a document of one of two versions | parse, validate, convert | ingest, exporter, transform | the converted document says the same |
| Python bindings (`python/src`) | the context a script holds, the metadata object | set, ingest, run a stage, catch its error | all stages | nothing of another bag, or of a stage that failed, is in the context |
| Other enrichers, analysis | none over time | column expressions, summaries | the dataset | not modelled, see below |

The hard behaviours: children that end between polls, a wrapper between two
pipes and a thread, joins that depend on an order they do not check, arithmetic
on nanoseconds and on ten bits, stage objects and contexts that outlive one bag,
directories that are written in place and never cleaned, and every option and
every layout written down more than once. `PROJECT.json` lists them line by line
under "hazards".

## Plan

Written, in this order: `BatchContract` and `Orchestrator` (the core, proved),
`FfmpegSubprocess`, `TimeSync`, `Merge`; `ExportBatch` (a second implementation of
the contract, proved), `Ingest`, `VideoEncoder`, `VideoDecoder` and their
composition `VideoRoundTrip`, `LeRobotTransform`, `TfEnrichers`, `RosMessages`,
`PipelineRun` (which composes with `Orchestrator`), `Metadata`, `PyMetadata` and
`Session`, `EncoderConfig`, `DepthQuantizer` (proved), `CompressedDepth` and
`DepthVideo`; the proofs of `FfmpegSubprocess`, `Session`, `Merge`,
`LeRobotTransform`, `TimeSync`, `PipelineRun`, `TfEnrichers`, `VideoRoundTrip`,
`EncoderConfig`, `CompressedDepth` and `DepthVideo`.

Left, most important first: the output of `LeRobotTransform` as an input of
`Merge` in one specification; the shift, hand and head enrichers, which are column
expressions; a source out of order under the zero-order hold.

## Modules

**BatchContract** is what a batch command promises: inputs are taken up in order
and once, at most `Width` at a time, none after a failure of a stopping batch,
and the verdict agrees with what became of them. It has no processes or polling.

**Orchestrator** is `Orchestrator::run`. `pending`, `running` and `failed` are the
Vecs of the same names (`pending` as the index `next`, since only its head is
removed); `unpolled` is the part of `running` the `for` loop has not consumed.
`job` is the truth the parent cannot see: what each process really does, and it
changes between any two steps of the parent. Every branch of the loop is an
action: `LoopHead`, `Kill`, `KillBreak`, `SpawnOk`, `SpawnErr`, `SpawnEnd`,
`PollFinished`, `PollFailed`, `PollAlive`, `PollErr` (try_wait fails and the
`Child` is dropped: the process is `lost`), `PollEnd`, `FinishInputBatch`. The
pipeline of one input is one step with two outcomes. Parallelism of at most 1
takes the sequential path. **OrchestratorProofs** holds the theorems about it.

**PipelineRun** extends Orchestrator and works its `job` out: the command line
is collected into inputs, each input runs stage after stage, and after each the
topics of its context are written to folders named after the folder of the bag.
A child may crash between any two files; in process, a panic takes the whole
batch with it, whatever stop_on_error says (`aborted`).

**ExportBatch** is `run_export` in the same style, and `ProcessSingleRosbag` the
exporter file by file: tables, videos, and the registry last. A file is the set of
exports that have written in it, so that a mixed or cut-off file can be seen; `Earlier`
stands for those of earlier commands, which may have left any part of a bundle (`Left`),
since the exporter makes the directory if it is missing and never cleans it. `Hung`
are exports that may never end. It refines BatchContract with StopOnError FALSE.
**ExportBatchProofs** holds the theorems about it.

**FfmpegSubprocess** is the wrapper. A call of `write_all`, `finish` or `drop` is
several steps, at each of which ffmpeg, the reader thread and the operating
system may act: `write_all` puts in what the pipe has room for, `wait` blocks,
`try_wait` and `kill` are apart. ffmpeg is the environment: it reads, logs,
finishes at the end of its input, crashes, or does nothing. **FfmpegProofs** holds
the theorems about it.

**Ingest** is one image topic in `ingest/pipeline.rs`: the row gets the counter,
the image goes to the end of one of two lists; a ROS 1 bag may register a topic
again, which sets the counter back.

**EncoderConfig** is `VideoEncoderConfig` and `CodecConfig` with the defaults as
YAML and as Python have them, `validate`, `preflight`, and the arguments each
encoder is given, as sets of pairs.

**VideoEncoder** extends it with the three encoders, one action per call and
outcome. **VideoDecoder** is `at_index` and what it calls over an external codec
that keeps back `Delay` frames; its target and its duration of a frame are quotients of
floating point cut to integers, exact or one tick short. **VideoRoundTrip** composes Ingest, VideoEncoder
and VideoDecoder: a bag, the stage that writes a video (in place, or in a bundle
another pipeline reads), and the transform that asks for frames by the indices in
its rows. `route` says which of the ways a pipeline may be configured is taken.
**VideoProofs** holds the theorems about it, about EncoderConfig and about depths.

**DepthQuantizer** is the arithmetic of ten-bit depths, **CompressedDepth** the
text that names a format, the PNG and RVL readers nibble by nibble, and the
writer of RVL that the repository's tests have. **DepthVideo** extends both and
EncoderConfig: the messages of a depth topic, of one connection or several, each of
which sets the index back; the two depth encoders, of which one names its raw files
after the index, so that a file may be overwritten (`bins` has those this run wrote);
ffmpeg cutting its input into frames by size and pixel format, and the stage that
decodes.

**RosMessages** is one topic from the text of its definition to a table. A byte
says which value it is a part of: a cursor that is one off shows as a value put
together from the wrong bytes. The parser of definitions compares only how the name of a
type starts; `Prefixed` are the names it takes for primitives. It is the one module with RECURSIVE operators,
and only TLC uses it.

**TimeSync** is the three synchronizers over one dataset. `aligned[t]` is the
column of source timestamps of topic t, and `held[t]` says which message of the topic
each row of the merge has, so that two messages of one timestamp are two. polars' as-of joins are external and
modelled as the cursor they are: over the rows of the source as they stand, it stops
for each row of the timeline at the first that is later (or not earlier), so what an
unsorted source gives is what it gives in the code. The topics are aligned in any order, as a
HashMap gives them. `Sorted` is what sorting a column
gives. The square in `SquaredTimeDifference` wraps at the width of an i64.
**TimeSyncProofs** holds the theorems about it.

**TfEnrichers** is TfBufferEnricher and TfChainEnricher with the chain's builder.
A transform is the name of its measurement and a product a sequence of them, so
that two products are equal only if they multiply the same. Snapshots reach the
chain in any order, because the grouping keeps none. **ScriptProofs** holds the
theorem about it, as **MCScript** runs it.

**LeRobotTransform** is the transform in both modes: SHT makes one episode of a
bag, PA one per segment. One action per file; a run may fail or be cut off in the
middle of any. The stage object goes on to the next bag with its tasks.
**LeRobotTransformProofs** holds the theorems about it.

**Merge** is `merge_datasets`, one action per file written, and `Fail` before or
in the middle of any of them. `out` is the output directory, which no merge
cleans. `origin` in a file says whose recording it holds, which the real file
shows only to someone who looks at it. An episode has a task index per row, and the
statistics its source has of them. **MergeProofs** holds the theorems about it.

**Metadata** has the two versions of the metadata and the conversion of the old
one, **PyMetadata** the object a script builds and changes, and **Session** a
script at work: it fills one context by hand, from bags or bundles, runs stages
over it, catches what they raise, and goes on. What is in a field of the context
stands for whose it is. A video that is looked for below another folder than it was
written to is whatever is found there, and its owner becomes a source. What the
conversion filters is written with `Among`, which puts the elements at some positions
in a row, so that it can be reasoned about. **ScriptProofs** holds the theorems about
all three.

The **MC** modules supply values for the constants and, where one run asks about
two parts that do not interact, join them: **MCVideo**, **MCTopics** (a table
topic through RosMessages, or a depth topic through DepthVideo), **MCScript** (a
context in Session, or the TF stages run twice).

Operators marked "Faulty" are variants with a plausible mistake. They are not
part of any specification: putting one in the place of the operator after it is
how each property is shown to notice something.

## Runs

| Run | Checks | Bounds, and why they are enough |
|---|---|---|
| `orchestrator` | verdict, blame, `--jobs`, leftovers, the contract, two liveness properties | 4 inputs, 2 jobs or none, stop_on_error: one running and one starting while others have failed and wait; 2,507 states |
| `pipeline` | `SavedIsOwn` | 2 bags of one folder, of two, or one under two names; 2 stages of one kind, 0 to 2 topics; in process or 2 children; 743,697 states |
| `export` | accounts, the registry, `--jobs` under a hang, the contract | 3 bags, 2 of them with one uuid, one that may hang, 1 or 2 jobs; empty bundles, or those of earlier commands, one whole and one with a video cut short; 804,598 states |
| `ffmpeg_subprocess` | tail, report, Ok, leftovers, two liveness properties | frames of 3 bytes over a pipe of 2, a stderr pipe of 1, a tail of 2 with reads of up to 2 and 3 bytes in all, 2 frames: writes block, the tail is cut on both paths; about 16,300 states |
| `messages` | values of the table, failures, depths | 21 definitions, two of them with types taken for others, 2 messages, strings and sequences of up to 2, ROS 1 and both byte orders of ROS 2; and depth topics of up to 2 images, or 3 with a second connection, each codec with its options, `IntLimit` 2^23 in place of 2^32 (23 and 32 both leave 2 when divided by 3, the bits of a nibble, so that the last nibble overflows alike); 309,629 states |
| `video` | configuration, frames of an episode, the registered video, the decoder's answers | every codec from both doors with each option changed; up to 4 images of 4 kinds, 2 connection records, 3 calls, a decoder that goes forward by 1 frame before it seeks and keeps 1 back, every second frame a keyframe; 5,277,540 states |
| `time_sync` | holes, nearest, fresh, what the merge keeps | 2 topics of 0 to 3 messages at times 0 to 4, also several at one, steps of 1 and 3, all three methods; squares fit; 423,182 states |
| `time_sync_overflow` | `Nearest` is violated | the same with an i64 whose largest value is 7 |
| `script` | the context's owners, the registry, the metadata; the chain | 6 calls on a context over 3 bags and 4 texts of metadata, 1 change; or 2 runs over bags of up to 3 measurements of 2 children under 4 possible parents; 663,734 states |
| `lerobot` | agreement after Ok and after a crash, videos | bags in both modes with segments that touch, miss or share rows, with and without labels and images; 3 runs of one stage; 777,556 states |
| `merge` | wholeness after success and after a crash, tasks, statistics | 2 datasets of 6, again for a second merge; 0 to 2 episodes, chunks of 1 and 2, shared, reordered, missing and unlisted tasks, one or two in an episode, missing data or statistics; 258,720 states |
| `merge_stale_video` | `VideoIsOwn` is violated | 2 datasets of 2, one of which has no video |

The two violations are findings about the code, quoted in `PROJECT.json`:

* the nearest-neighbour synchronizer squares nanoseconds in an i64, which wraps
  for gaps of more than about 3.04 s and can choose the farther message; a row can then
  hold an earlier message than the row before, and a message be marked fresh twice;
* a merge over the remains of a failed one can give an episode without video the
  video of another episode.

Deadlock is checked wherever a program that has ended has a step of its own that
leaves everything as it is (`Returned`, `Gone`, `Over`, `DepthEnded`); `lerobot`,
`video` and `script` really stop, at the bound of their calls.

### What the properties except, and why

A property is as strong as the code allows, and what it excepts is itself
something to know about the code:

* `AtMostJobsAlive` and `NoChildLeftBehind` except `killed` and `lost` children:
  the code kills without waiting, and forgets a child whose status it cannot read.
* `SavedIsOwn` holds of inputs with a folder of their own (`HasFolder`): folders
  are named after the last part of the bag's folder only, so that bags of one
  folder write over each other.
* `RegistryMeansWhole` excepts a bundle that another bag of the same uuid is or
  has been writing to in this command (`Disturbed`). It does not say that a registry
  always vouches for the files next to it, which is not so: nothing removes the registry
  an earlier command left, so that it stands beside the new videos and tables until the
  export writes its own, and for good when the export fails before that or has no images
  (`OldRegistryStands`). What the property says is that it stands at no other time, and
  that the registry of an export of this command means a bundle that is whole and its
  own. Files of topics that only the earlier export had are not modelled; they stay.
* `MergeKeepsLast` says which messages a merged timeline loses: of those of a topic
  that share a timestamp all but the last, though each has a row of the timeline
  (timestamp_merge_time_synchronizer.rs:186), and no others from the start on.
* `EpisodeShowsIndexedFrames` excepts a ROS 1 topic registered again after images
  came (`LosesPlace`, rosbag1_ingestor.rs:172: the counter goes back to 0), and
  frames that ffmpeg skipped because a hardware encoder pipes images unread
  (`SkipsFrames`). A topic whose messages change between visual and other formats
  has its images in two lists under one counter (pipeline.rs:288), and loses its
  place likewise.
* `TaskKept` and `StatsDescribeRows` hold of a task index that tasks.jsonl does not
  list only in that the merge keeps it as it is (parquet.rs:120, merger.rs:573): in the
  merged list the same number may be another dataset's task. `StatsDescribeRows` says
  nothing of the bounds of an episode without rows, which has none; and of an episode with
  several tasks it says that the statistics of the task index are the source's, unchanged
  (merger.rs:559 renumbers only those of a constant), while the rows are renumbered.
* `Nearest` and `FreshOnce` are checked where the squares fit the i64, and proved where
  `SquaresFit` says so: every row that has a message after it is within 3.03 s of one
  before and one after. `FreshOnce` is not about the merge, which adds no such column.
* No property says that the merged timeline has each time once, though its
  documentation speaks of unique timestamps (timestamp_merge_time_synchronizer.rs:30):
  the code sorts the times of all messages and removes none (:129), so that one that
  two messages have is there twice.
* `AnswersAreRight` lets the decoder find nothing among the last `Delay` frames,
  which are never flushed, and ahead of a position where an earlier call met the
  end of the file. It rests on a frame lasting more than one tick of the time base
  (`DecoderAssumption`), as the muxer gives a track many ticks a frame: with one, a target
  that was cut one tick short (video_decoder.rs:222) would find the frame before.
* `RequestIsHonoured` excepts options of h264_nvenc that a script sets to None,
  which become the default. An `lp` outside 1 to 6 means automatic, without a
  word; hardware codecs ignore `crf`; `validate` does not check the ranges
  documented for b_depth, async_depth, preset and crf.
* `RowsAreMessages` excepts two types with one short name, lines whose comment
  or default hides what they are, and fields of a type whose name starts with that of a
  primitive, such as stringStamped, which are read as that primitive
  (schema_type_parser.rs:155) (`Ambiguous`, `Misleading`, `Misread`). `NoSpuriousFailure`
  lists all that may end the ingest of a bag: these, an empty nested section, `int32[<=5]`,
  `char`, arrays of structs with a package, unknown types, a type called Image
  that is laid out otherwise, invalid UTF-8, an image that cannot be encoded; a
  struct that contains its own short name overflows the stack.
* `DepthIsKept` excepts lossy videos of an odd width or height, whose frames run
  into each other (the code says "must be even" and does not check it); the meta.json of
  a topic with images of several sizes, which has the last one's; and the raw files of
  images whose index a further ROS 1 connection gave to later images again
  (`Overwritten`, depth_image_encoder.rs:102), which have a later image's depths.
  A depth below half a step becomes a whole step: 1 mm of 4,092 comes back as 4.
  A Matroska video whose duration is not known gives no frames and no error.
  A payload named RVL that is a PNG asks for a buffer no machine has (`Abort`).
  Garbled RVL that still has the form of RVL cannot be noticed and is not modelled.
* `VideoFollowsRows` excepts an episode without images, which may be left with an
  old video.
* `CommittedIsWhole` holds for a merge into a directory without an info.json,
  because info.json is written last; a merge into an existing dataset is not safe
  to interrupt. `MetadataComesLast` is about a directory one run has filled.
* `RegistryTellsTheTruth` excepts bundles that a later, failing export spoils, and
  the shapes of images a script made; `MetadataIsSound` does not promise that old
  metadata given as text is valid, because it is not validated.
* Two that are not stated because they fail by design of the code: the merged
  timeline is documented as unique and repeats timestamps two messages share; an
  uppercase extension of a bag is accepted by name only.

## Fairness

`FairSpec` of Orchestrator is weakly fair to the parent, whose loop never blocks:
it polls with `try_wait` and sleeps. It is not fair to children, which may hang.
`Returns` therefore assumes `ChildrenFair`, and `StopDoesNotWait` does not:
under stop_on_error the parent returns without them.

`FairSpec` of ExportBatch is weakly fair to the parent for the same reason
(`ParentFair`), and to each export that is not in `Hung` (`ExportsFair`): an
export is a program that ends. `HangDoesNotStarve` says that those in `Hung` cost
their own place and no other.

`FairSpec` of FfmpegSubprocess is weakly fair to a call in progress when the pipe
or the process allows it, to the reader thread, and to the system ending a
killed process; never to the caller, who may stop calling, nor to a read error.
`CallsReturn` assumes that ffmpeg makes progress (`FfmpegFair`); `CloseIsPrompt`,
about drop and a failed write, does not, since these kill it.

The other modules are sequential programs that end; they have no liveness
properties.

## Proofs

**OrchestratorProofs** assumes only `OrchestratorAssumption`: N and MaxParallel are
natural numbers, StopOnError a Boolean. It proves, for all of these, the sequential
path included, every safety property of `orchestrator` and `KeepsContract`, the
refinement of BatchContract; and `OkIsEarned` and `NothingStartsAfterFailure`,
which no run checks because the contract implies them.

No property is inductive by itself. The inductive invariant `IInv` adds to the
types what each place of the loop knows:

* the inputs at and above `next` are idle, those below are running, failed,
  killed or succeeded, and each is accounted for;
* running inputs have been started and are neither failed, killed nor lost;
  a failed input is lost, ended in failure, or was never started;
* `unpolled` is a part of `running`, and `running` is bounded by the parallelism;
* a failure in the list is known to `should_stop` before anything can be spawned;
* at "finish" nothing runs, and inputs are pending only if the batch is stopping.

One lemma per action or group of actions shows that it keeps `IInv`; `StepInv`
puts them together. The theorems then follow by PTL. For the refinement,
`InitContract` and `StepContract` show under `IInv` that the initial state maps to
an initial state and that each step maps to `TakeUp`, `Resolve`, `Return`,
`Refuse` or a stutter: spawning is taking up, the poll resolves, the kill abandons.

It also proves `SavedIsOwn` of the pipelines a run puts its inputs through, under
`PipelineAssumption`: no topic has the name that stands for none, and the stages are a
list. The batch of `PipelineRun` is Orchestrator's with one of two values of --jobs, so
the invariant has a part that no value of --jobs matters to (`Core`), proved of the steps
of both. To it `PipelineInv` adds where each pipeline is (`WorkTyped`, `Along`), that in
process only the input before `next` works (`TakeTurns`), and what the files hold that an
input has finished or begun (`Kept`). An input that shares its folder has it to itself
in process because those before it have ended and those after it not begun (`NotBegun`).

**ExportBatchProofs** does the same for the export, whose invariant also relates
the two counts to the sets of bags, and each file of a bundle to how far the
export of its only writer has got, from which `RegistryTrusted` follows, whatever `Left`
has: the registry of an export is there only after all other files are its own
(`Registered`), and as long as it is not, the export is at a place where an old one may
stand.

**FfmpegProofs** proves the four safety properties of the wrapper for every length
of a frame, of the tail and of both pipes. `IInv` is `Bytes /\ AtControl /\
Process /\ Reaped /\ Conserved /\ Answered`: the bytes of the frames written are
those ffmpeg has eaten, those in the pipe and those still to be written; a child
that has been taken was waited for; a reader at the end of the pipe has drained
all that was logged; an answer was given from where the call stands. A lemma on
sequences shows that appending a chunk and cutting the front keeps the tail.

**VideoProofs** proves the properties of `VideoRoundTrip` and of `DepthVideo`. Those of
`VideoRoundTrip` hold for topics of any length, all images, encoders, routes and sequences of calls, and every frame duration of more than one tick, delay of
the codec, distance of keyframes and limit on going forward. It assumes
`DecoderAssumption`, `RoundTripAssumption`, that images are records with a format and a
Boolean for whether they decode (`ImageAssumption`), that the value that stands for
nothing is not a list of frames (`NoneAssumption`), and that what is asked for is a codec
there is, in a size in pixels or in none (`RequestsAssumption`). `VideoInv` has a part for each thing
that is handed on:

* `RowsOk`: each row belongs to an image of one of the lists, and while the counter was
  set back once only and there is no depth it is the row's place; `IngestOk`: the images
  are those of the messages so far, in order;
* `EncoderOk`: the encoder was given the images so far (`EncoderInv`), all of which
  decode unless it pipes files, so that what it leaves out is what ffmpeg skips;
  `RegisteredOk`: the file that is registered has every image that can be shown
  (`Whole`, `Written`), by an induction over the frames that can be read (`ReadableIs`);
* `DecodeOk` and `CallsOk`: the decoder is at a frame that an earlier call found, or past
  the last that comes out since a later call found nothing (`Somewhere`). From there
  `AtIndexFinds` says what a call finds: the target is after every frame before the one
  it stands for, though it may be cut one tick short (`TargetIs`), a seek never goes past it (`Seeks`),
  and what is given out next is not past it either (`ContinueFinds`);
* `SourceOk` and `EpisodeOk`: on each route the frame at a row's index is the row's
  (`RowsFrame`), and the episode's encoder was given the frames that were asked for.

`RequestIsHonoured` needs no invariant but that a request is one of those there are. Its
core is `ArgumentsTell`: equal arguments mean equal configurations. For each encoder a
lemma says which pairs of a flag and a value are in its arguments (`CliHas`, `Av1Has`,
`X26Has` and their kin), so that from the pair of a flag the option follows that it stands
for (`OptionsTell`), also where an option is left out, stands for a default, or sets two
flags. The values are any: no bound on them is used but those `validate` puts.

For depths it proves, for every range and every depth of 16 bits, that rounding to ten
bits and back keeps what `Kept` says: two roundings, each within half of its divisor, and
no wrap (`QuantizationKeeps`). `ReadsRvl` says that an RVL stream is read back as the
image it was written from, for every image whose pixels can be counted in an integer of
the stream (`CompressedDepthAssumption`: a depth's difference fits, too). Along the way:
an integer is made of its nibbles and read from them alone, wherever they begin; the
stream of an image is the nibbles of its pixels one after the other, a round's two lengths
in front of its first; and after each round the decoder has the pixels up to where the
next round starts, at its nibbles, with the last depth that is not missing. The nibbles
that fill up the last word are never read, since the pixels are counted.

`DepthIsKept` follows from `DepthInv`, for topics of any length and size, both formats,
every codec, option and machine, and a failure of any call. It assumes that a message is
an image as a camera sends it or one no decoder takes (`DepthTopicsAssumption`), and that
a request names a codec there is and a range of 16 bits (`DepthRequestsAssumption`).
`DepthSent` says that what can be decoded of what was ingested is what was seen, by
`ReadsRvl`; `DepthSaved` that a raw file has the depths of an image with its
index, and each image so far its file, or a later one with its index took it; `DepthEncodes` that ffmpeg was started
for the first image's size and has the samples of the images so far, each at the number
of images before it times the size of a frame (`DepthWritten`); `DepthRecorded` that the
finished file has one frame for each image, and that what came out of it is within what is
promised. That ffmpeg's size of a frame is that of the samples is where an even size is
needed (`SamplesAre`); that a hardware encoder does not squeeze the range is where its flag
is (`NotSqueezed`).

**ScriptProofs** is about scripts of any length, any bags and any texts. It assumes of a context
`SessionAssumption`: a bag is not called Script, and what is read as a document of the
old version has lists of segments and of instructions, with a Boolean that marks a
segment, as serde reads it. It has three invariants of the context and one of the TF stages:

* `IInv`, for `ContextIsOfItsSources`, says besides of each entry of a registry that
  the video, where it was written to, is of a source: of the context's, and for a
  registry in a bundle of what went into the bundle. Decoding needs the first,
  ingesting a bundle the second. Both survive that videos are overwritten because the
  cache and the exports are folders apart (`CacheApart`), exports of other recordings
  are (`ExportsApart`), and whoever writes to a bundle's folder adds its sources to it.
* `TruthInv`, for `RegistryTellsTheTruth`: every entry of the context's registry and
  of a bundle's is true of the file it names, unless a failed export has torn the
  bundle. A path ends in the name of its topic, so that two topics never share a file
  (`NamedByTopic`), and every image that is not the script's has its shape known, so
  that the shape that is written down is the one that is encoded (`ShapesKnown`).
* `SoundInv`, for `MetadataIsSound`: metadata is as it was read, and was validated if
  the script gave it in the new version, or it is what the conversion makes of a
  document of the old version that it accepts. What remains is a fact about the
  conversion alone, `ConversionSound`: for every such document there is a choice of
  instructions that gives each segment and the episode its label, and the episode its
  own where there are two. `AmongAt` says where a filtered list has an element, and
  `OneOrTwo` which of two instructions is the first and which the later.
* `ChainInv`, for `ChainIsCurrent`, assumes that bags are finite sets of measurements
  between frames (`BagsAssumption`) and pairs name frames (`ConfigsAssumption`). It says
  of a snapshot not yet read that it has one of the latest measurements of every child,
  and of the times read and unread together that they are those by which all children
  are known: a snapshot is kept exactly then (`SnapshotIs`, `FilledIs`), for of finitely
  many measurements one is the latest (`LatestThere`). The builder is not mentioned: it
  chooses which entries of a row are links, but never keeps one of an earlier row. That
  the links below a common ancestor compose (`Below`, `DownwardShows`), and that the
  lowest one leaves the two ways nothing in common, is `RowShows`.

**MergeProofs** assumes only `MergeAssumption`, which types the shelf of datasets; that
the tasks of an episode are listed is not assumed, as nothing checks it. The invariant is `TypeInv` and what a merge has written
at each file: `WrittenInv` gives every file below the point it has reached the value
that was computed from the sources, `WholeInv` says that an info.json that is there was
written over a whole dataset, unless this merge found one, and `FreshInv` that a
directory without one may have anything in it. From it the four properties follow by what was computed: the
recorded episodes in order (`RecordedIsListed`), the frame offsets that run on from one
to the next (`Offsets`), and a task list that has each text once and all of them
(`TasksAre`, `TaskOf`), from which rows and statistics are renumbered alike.

**LeRobotTransformProofs** assumes only `TransformAssumption`: the timeline of a bag
ascends strictly, and no segment ends before it starts. Besides the types, `IInv` says
that the stage numbers its tasks without gaps (`MetadataInv`), what it holds of the
episode in progress (`ProgressInv`, `RowsInv`, `StreamInv`: the images in the encoder are
those of the rows assembled so far), and what is on disk: episodes whole or not there yet
(`EpisodesInv`), metadata files that agree with them (`MetaInv`), more of it in a
directory only one run has written to (`FirstInv`), and all of it when the last run
returned Ok (`SettledInv`). `Agreement` is the lemma that what a run computes agrees
with itself; `Registered` says that registering the tasks of one more bag keeps the
numbers of those before.

**TimeSyncProofs** assumes only `TimeSyncAssumption`: finitely many topics, at least one,
and frame rates of 1 to 10^9. `IInv` says what each step has computed: the bounds of the
times (`BoundsInv`), the timeline between them (`TimelineInv`), and for each topic that
is done the rows of its join (`AlignedInv`). The rest is about the operators: sorting
keeps the values and orders them (`SortedIs`); over an ordered source the backward join
gives the latest message that is not later, the forward join the earliest that is not
earlier (`BackwardIs`, `ForwardIs`); of the two the squares choose the nearer, the past
one of two that are as near, while they fit (`SquaresOrder`, `NearestIs`); the timeline
ascends, starts at the latest first message and so never before any topic has one
(`TimelineIs`). Which message a row of the merge has is `BackwardRowIs`: the last of
those that are not later, and so the last of several at one time, from which
`MergeKeepsLastHolds` follows. What is held ascends with the timeline (`HeldAscends`), so a message once
left does not come back, which is why comparing with the last row that has one is enough
for `FreshOnce`. Without `SquaresFit` neither it nor `Nearest` is true.

`MergeProofs`, `LeRobotTransformProofs` and `VideoProofs` need facts that are proved by
induction over sequences: what `FlattenSeq` concatenates, what a running sum is, which
frames can be read; `ScriptProofs` needs that the way up from a frame is what its
recursion says. The library's induction theorems take an operator and cannot be used, but
from the well-foundedness of < a rule about sets of numbers can be proved
(`SetInduction`), and from it that a function defined by recursion exists (`Recursion`).
With these, `FlatAppend`, `FlatConcat`, `ReadableIs` and their kin are proved, and nothing
about data is taken on trust.

Only model-checked: liveness, which is out of the prover's reach; the properties of
`RosMessages`, whose values are computed by RECURSIVE operators, which the prover does not
take; and the two runs that end in a counterexample.

## Left out

* Codecs, image formats, polars and the file system: external, modelled from how
  the code uses them. A codec gives back the samples it was given, in order.
* Analysis and the shift, delta, head and hand enrichers: summaries and column
  expressions over one table, without state. Getters, configuration objects other
  than the encoders', and wrappers that pass values on.
* In the orchestrator: progress output, the reason of a failure, the order of
  `running`. In the export: what the stages before the exporter do, beyond failing.
* In the synchronizers: payload columns, and the excluded rows, which nothing
  reads; `fps` 0 or above 10^9, for which the code divides by zero or loops for
  ever, is excluded by an assumption; a bag recorded out of order is modelled for
  the nearest neighbour only.
* In the merge: schemas other than fps, several video features per episode, an
  output directory inside the source directory, and datasets without tasks.jsonl.
* In the transform: feature columns, the numbers of the statistics, the schema of
  info.json. In ingest: point clouds, which go the way of depth images, and the
  columns of timestamps; raw ROS 1 images on a topic called compressed; a garbled
  length greater than its message. `decode_image_ros1` is never called.
* In the encoders: colour conversion, the scaler's pixels, shapes known from
  camera_info only. The request machine of `video` has no NVIDIA card.
* In the session: lazy frames of a bundle, bundle roots of a script's own folders.
  In the chain: the arithmetic of rotations.
