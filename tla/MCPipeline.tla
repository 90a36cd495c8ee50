----------------------------- MODULE MCPipeline -----------------------------
(* A work directory for two bags at a time: of one folder, of two, of none, *)
(* and one bag under two names.                                             *)
EXTENDS PipelineRun

Bag(folder, ext, backup) == [folder |-> folder, ext |-> ext, backup |-> backup]

MCTree ==
  {Bag("x", "mcap", FALSE), Bag("x", "mcap", TRUE), Bag("x", "txt", FALSE),
   Bag("y", "bag", FALSE), Bag("y", "MCAP", FALSE), Bag(Here, "bag", FALSE)}

Folder(via, folder) == [via |-> via, folder |-> folder, file |-> NoFile]
Name(file) == [via |-> "", folder |-> file.folder, file |-> file]

MCArguments ==
  {{Folder("", "x"), Folder("./", "x")},
   {Folder("", "x"), Name(Bag("x", "mcap", FALSE)), Name(Bag(Here, "bag", FALSE))},
   {Folder("", "x"), Name(Bag("y", "MCAP", FALSE))}}

MCStages == <<"enrich", "enrich">>

MCContexts == {{"a", "b"}}
=============================================================================
