------------------------------- MODULE PushPull -------------------------------
(***************************************************************************)
(* The push segmenter implements the pull segmenter: fed the bytes of a    *)
(* file in chunks of any size and flushed at its end, it cuts the same     *)
(* GoPs with the same contents in the same order (the tests                *)
(* test_push_segmenter_* of push.rs compare the two on one file).          *)
(***************************************************************************)
EXTENDS Segmenter

FeedMore  == \E n \in 1..(BoxParts * Len(stream)) : Feed(n)
FlushLast == recv = BoxParts * Len(stream) /\ Flush

\* The caller of the command line and of the Go wrapper (cli.rs,
\* cmd_segment_stdout): it stops at the first error, and it flushes once, at
\* the end of the input.
CallerNext ==
  /\ ~ failed /\ flushes = 0
  /\ \/ FeedMore
     \/ Run
     \/ FlushLast

\* A call of feed() runs to its return, the caller reads the file to its end
\* and then flushes; between two chunks both could come next, hence SF.
CallerSpec == /\ Init /\ [][CallerNext]_vars
              /\ WF_vars(Run) /\ SF_vars(FeedMore) /\ SF_vars(FlushLast)

-----------------------------------------------------------------------------

\* The GoPs of a list of events: all but the first, which is the Init.
GopsOf(list) == [i \in 1..(Len(list) - 1) |-> list[i + 1].gop]

\* Where the pull reader stands.  It reads a moof together with its mdat.
PullNext ==
  IF pc \in {"mint", "record"} THEN next + 1
  ELSE IF pending # 0 THEN pending ELSE next

PullPc ==
  CASE failed                        -> "error"
    [] ~ failed /\ flushes > 0       -> IF streaming THEN "done" ELSE "error"
    [] ~ failed /\ flushes = 0       -> IF ~ streaming THEN "moov"
                                        ELSE IF pc = "mint" THEN "mint" ELSE "read"

Pull == INSTANCE PullSegmenter
          WITH next <- PullNext, pc <- PullPc, gops <- GopsOf(Emitted)

\* A moof is directly followed by its mdat, whose size is not in the 64-bit
\* field, and no box has an unknown size.
Paired(s) ==
  \A i \in DOMAIN s :
    /\ s[i].kind # "open"
    /\ s[i].kind = "mdat" => ~ s[i].large
    /\ s[i].kind = "moof" => i < Len(s) /\ s[i + 1].kind = "mdat"

\* The refinement, with the liveness of the pull loop: it ends.
PushImplementsPull == Pull!Spec
-----------------------------------------------------------------------------
(* Liveness.                                                               *)

\* A moof directly followed by its mdat, after a moov, no box of unknown size
\* before it.
Deliverable(i) ==
  /\ i < Len(stream)
  /\ stream[i].kind = "moof" /\ stream[i + 1].kind = "mdat"
  /\ \E j \in 1..(i - 1) : stream[j].kind = "moov"
  /\ \A j \in 1..i : stream[j].kind # "open"

\* If no call fails, the caller ends up with every sample of the file.
EverySampleDelivered ==
  <>[](\/ failed
       \/ \A i \in DOMAIN stream : Deliverable(i) =>
            \A k \in DOMAIN stream[i].steps :
              LET s == stream[i].steps[k]
              IN  s.op = "sample" =>
                    \E e \in DOMAIN delivered :
                      \E j \in DOMAIN FramesIn(delivered[e], Remap[s.track]) :
                        FramesIn(delivered[e], Remap[s.track])[j].data
                          = <<i + 1, PayloadAfter(stream[i].steps)[k - 1]>>)
=============================================================================
