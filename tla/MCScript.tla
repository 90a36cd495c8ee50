------------------------------ MODULE MCScript ------------------------------
(***************************************************************************)
(* A script that uses its objects again: a context over three bags, of      *)
(* which two have images of different shapes and one has none; or the       *)
(* stages of a TF pipeline, run twice, over two child frames that may hang  *)
(* on each other, on a frame r or on a frame q, measured at two times, and  *)
(* bags of up to three measurements.                                        *)
(***************************************************************************)
EXTENDS Session, TfEnrichers

Instruction(i, text) == [idx |-> i, text |-> text]
Segment(s, e, i, composite) ==
  [start_time |-> s, end_time |-> e, instruction_idx |-> i, success |-> TRUE, is_composite |-> composite]

Old(name, instructions, segments) ==
  [schema_version |-> Absent, version |-> "1", complete |-> TRUE,
   doc |-> [uuid |-> name, files |-> <<File("bag", "f")>>,
            entities |-> <<[role |-> "robot", id |-> "r", name |-> Absent]>>,
            components |-> <<>>, instructions |-> instructions, segments |-> segments, episode_label |-> "e"]]

New(name) ==
  [schema_version |-> "2", version |-> Absent, complete |-> TRUE,
   doc |-> [uuid |-> name,
                   robot |-> [type |-> "unknown", id |-> ""],
                   files |-> <<File("mcap", name)>>,
                   environment |-> [type |-> "real_world", site |-> "unknown"],
                   runner |-> [type |-> "operator", organization |-> "", name |-> ""],
                   devices |-> <<>>,
                   programs |-> <<Program("interface", name, {})>>,
                   episode |-> Episode(0, 0, TRUE, name),
                   labels |-> <<>>, segments |-> <<>>]]

Legacy == Old("b", <<Instruction(0, <<"x">>), Instruction(0, <<"y">>)>>,
                   <<Segment(1, 2, 0, FALSE), Segment(1, 2, 0, TRUE)>>)

Mixed == Old("b", <<Instruction(1, <<"x">>), Instruction(0, <<"y">>), Instruction(1, <<"z">>)>>,
                  <<Segment(0, 1, 1, FALSE), Segment(0, 3, 1, TRUE), Segment(1, 2, 0, FALSE), Segment(2, 3, 1, FALSE)>>)

Elsewhere == Old("b", <<Instruction(0, <<"x">>), Instruction(0, <<"y">>), Instruction(1, <<"z">>)>>,
                      <<Segment(1, 2, 0, FALSE), Segment(1, 2, 0, TRUE)>>)

Plain == Old("b", <<Instruction(1, <<"x">>), Instruction(0, <<"y">>)>>,
                  <<Segment(1, 2, 0, FALSE), Segment(2, 3, 1, FALSE)>>)

MCTexts == {Legacy, Mixed, Elsewhere, Plain}

MCRosbags ==
  {[name |-> "p", color |-> 1, depth |-> TRUE, text |-> New("a")],
   [name |-> "q", color |-> 2, depth |-> FALSE, text |-> Legacy],
   [name |-> "r", color |-> 0, depth |-> FALSE, text |-> New("a")]}

MCInstants == {-1, 1}

MCFrames == {"a", "b", "r", "q"}

Measurements ==
    {m \in [ts : 1..2, child : {"a", "b"}, parent : MCFrames] : m.child # m.parent}

MCBags == {b \in SUBSET Measurements : Cardinality(b) \in 1..3}

MCConfigs == {{<<"a", "b">>}, {<<"b", "a">>, <<"a", "a">>}, {<<"a", "b">>, <<"r", "a">>}}

(* The script does one or the other. *)
ScriptInit == SessionInit /\ Init

OnContext == runs = 0 /\ pairs = {<<"a", "b">>} /\ SessionNext /\ UNCHANGED vars
OnStages == calls = 0 /\ Next /\ UNCHANGED sessionVars

ScriptSpec == ScriptInit /\ [][OnContext \/ OnStages]_<<sessionVars, vars>>
=============================================================================
