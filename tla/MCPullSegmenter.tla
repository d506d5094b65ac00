--------------------------- MODULE MCPullSegmenter ---------------------------
(* PullSegmenter on the files of MCStreams. *)
EXTENDS PullSegmenter, MCStreams

\* The files of the run are those the theorem is about; FollowStreams are not.
ASSUME RegularAssumption == \A s \in PullStreams : Regular(s)
=============================================================================
