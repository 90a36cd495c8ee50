------------------------------ MODULE MCMerge ------------------------------
(* Merge with a shelf of datasets that between them share a task, number it
   differently, have several in one episode, lack a task, have an index for
   one they do not list, lack a file or an entry, and have chunks of two
   sizes.                                                                   *)
EXTENDS Merge

CONSTANTS pick, place

Ep(task_index, video, stats, data) ==
  [length |-> Len(task_index), task_index |-> task_index, has_video |-> video,
   has_stats |-> stats, has_data |-> data]

Dataset(name, fps, chunk, tasks, episodes) ==
  [name |-> name, fps |-> fps, chunks_size |-> chunk, tasks |-> tasks, episodes |-> episodes]

TwoTasks == Dataset("two_tasks", 10, 2, <<pick, place>>,
                    <<Ep(<<0, 1>>, TRUE, TRUE, TRUE), Ep(<<1>>, TRUE, FALSE, TRUE)>>)
OneTask == Dataset("one_task", 10, 1, <<place>>, <<Ep(<<0, 0, 0>>, TRUE, TRUE, TRUE)>>)
Swapped == Dataset("swapped", 10, 1, <<place, pick>>,
                   <<Ep(<<1>>, TRUE, TRUE, TRUE), Ep(<<-1>>, TRUE, TRUE, TRUE),
                     Ep(<<2>>, FALSE, TRUE, TRUE)>>)
Pauses == Dataset("pauses", 10, 2, <<pick>>, <<Ep(<<0, -1, 0>>, TRUE, TRUE, TRUE)>>)
Blind == Dataset("blind", 10, 2, <<pick>>, <<Ep(<<0, 0>>, FALSE, TRUE, TRUE)>>)
Faster == Dataset("faster", 20, 2, <<pick>>, <<Ep(<<0, 0>>, TRUE, TRUE, TRUE)>>)
Incomplete == Dataset("incomplete", 10, 2, <<pick>>,
                      <<Ep(<<0, 0>>, TRUE, TRUE, TRUE), Ep(<<0, 0>>, TRUE, TRUE, FALSE)>>)
Empty == Dataset("empty", 10, 2, <<pick>>, <<>>)

MCShelf == {TwoTasks, OneTask, Swapped, Pauses, Faster, Incomplete, Empty}
MCShelfBlind == {OneTask, Blind}
=============================================================================
