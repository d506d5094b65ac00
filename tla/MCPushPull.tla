----------------------------- MODULE MCPushPull -----------------------------
(* PushPull on the files of MCStreams. *)
EXTENDS PushPull, MCStreams

\* The files of the run are those the refinement is proved for.
ASSUME PairedAssumption == \A s \in PairedStreams : Paired(s)
=============================================================================
