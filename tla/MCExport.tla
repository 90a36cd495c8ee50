------------------------------ MODULE MCExport ------------------------------
(* Three bags, two of which carry the same uuid; one of these has no images. *)
(* An earlier command has left nothing; or the bundle of the first bag, and   *)
(* that of the others but for a video that was cut short in another attempt.  *)
EXTENDS ExportBatch

MCUuidOf == [i \in Input |-> IF i = 1 THEN "a" ELSE "b"]
MCFilmed == {1, 2}
MCLeft ==
  {[u \in Uuid |-> [f \in File |-> {}]],
   [u \in Uuid |-> [f \in File |-> IF u = "b" /\ f = "videos" THEN {Earlier, Torn} ELSE {Earlier}]]}
=============================================================================
