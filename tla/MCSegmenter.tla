----------------------------- MODULE MCSegmenter -----------------------------
(* Segmenter on the files of MCStreams. *)
EXTENDS Segmenter, MCStreams
=============================================================================
