---------------------------- MODULE PullSegmenter ----------------------------
(***************************************************************************)
(* The pull segmenter: segment_fmp4_with_remap (segment.rs) over           *)
(* FMP4Reader::next_frame (fragment.rs).  It owns the whole file, reads it *)
(* front to back and hands each GoP to a callback at once.  It is what the *)
(* push segmenter must agree with, whatever chunks that one is fed.        *)
(***************************************************************************)
EXTENDS GopCut

CONSTANT Streams   \* the inputs considered

ASSUME StreamAssumption == Streams \subseteq Seq(Box)

VARIABLES
  stream,   \* the input file
  next,     \* the next box to read
  pc,       \* "moov" while looking for it, "read", "mint", "done" or "error"
  catalog,
  cursor,   \* the moof being processed, its next step, the position of its data
  frames,   \* FMP4Reader::pending
  clock,    \* FMP4Reader::track_state
  bufs, segNo, seen,
  gops      \* the GoPs handed to on_gop

vars == <<stream, next, pc, catalog, cursor, frames, clock, bufs, segNo, seen, gops>>

Init ==
  /\ stream \in Streams
  /\ next = 1
  /\ pc = "moov"
  /\ catalog = [video |-> {}, scale |-> [t \in Track |-> 0]]
  /\ cursor = [moof |-> 0, step |-> 1, pos |-> 0]
  /\ frames = <<>>
  /\ clock = StartClock
  /\ bufs = NoBufs
  /\ segNo = 0
  /\ seen = FALSE
  /\ gops = <<>>

AtEnd   == next > Len(stream)
ThisBox == stream[next]

Error ==
  /\ pc' = "error"
  /\ UNCHANGED <<stream, next, catalog, cursor, frames, clock, bufs, segNo, seen, gops>>

-----------------------------------------------------------------------------
(* read_moov_streaming.                                                    *)

ReadMoov ==
  /\ pc = "moov"
  /\ ~ AtEnd
  /\ ThisBox.kind = "moov"
  /\ ThisBox.ok
  /\ catalog' = RemapCatalog(ThisBox.catalog)
  /\ next' = next + 1
  /\ pc' = "read"
  /\ UNCHANGED <<stream, cursor, frames, clock, bufs, segNo, seen, gops>>

NoMoov ==
  /\ pc = "moov"
  /\ \/ AtEnd
     \/ ~ AtEnd /\ ThisBox.kind = "open"
     \/ ~ AtEnd /\ ThisBox.kind = "moov" /\ ~ ThisBox.ok
  /\ Error

\* Before the moov any other box is skipped, after it any box but a moof.
SkipBox ==
  /\ ~ AtEnd
  /\ \/ pc = "moov" /\ ThisBox.kind \notin {"moov", "open"}
     \/ pc = "read" /\ frames = <<>> /\ ThisBox.kind \notin {"moof", "open"}
  /\ next' = next + 1
  /\ UNCHANGED <<stream, pc, catalog, cursor, frames, clock, bufs, segNo, seen, gops>>

-----------------------------------------------------------------------------
(* next_frame, when no frame is pending.                                   *)

Reading == pc = "read" /\ frames = <<>> /\ ~ AtEnd

\* A moof must be followed by its mdat.
MdatFollows == next < Len(stream) /\ stream[next + 1].kind = "mdat"

ReadPair ==
  /\ Reading
  /\ ThisBox.kind = "moof"
  /\ ThisBox.ok
  /\ MdatFollows
  /\ cursor' = [moof |-> next, step |-> 1, pos |-> 0]
  /\ next' = next + 2
  /\ pc' = "mint"
  /\ UNCHANGED <<stream, catalog, frames, clock, bufs, segNo, seen, gops>>

BadPair ==
  /\ Reading
  /\ \/ ThisBox.kind = "open"
     \/ ThisBox.kind = "moof" /\ ~ (ThisBox.ok /\ MdatFollows)
  /\ Error

Mdat      == stream[cursor.moof + 1]
Steps     == stream[cursor.moof].steps
ThisStep  == Steps[cursor.step]
MoreSteps == pc = "mint" /\ cursor.step <= Len(Steps)

\* The payload starts after the header, of 16 bytes when the size is 64-bit.
PayloadStart(mdat) == IF mdat.large THEN 8 ELSE 0

ReadTfdt ==
  /\ MoreSteps
  /\ ThisStep.op = "tfdt"
  /\ clock' = SetDecodeTime(clock, ThisStep)
  /\ cursor' = [cursor EXCEPT !.step = @ + 1]
  /\ UNCHANGED <<stream, next, pc, catalog, frames, bufs, segNo, seen, gops>>

StartTrun ==
  /\ MoreSteps
  /\ ThisStep.op = "trun"
  /\ TrunStart(ThisStep) >= 0
  /\ cursor' = [cursor EXCEPT !.step = @ + 1, !.pos = TrunStart(ThisStep)]
  /\ UNCHANGED <<stream, next, pc, catalog, frames, clock, bufs, segNo, seen, gops>>

MintSample ==
  /\ MoreSteps
  /\ ThisStep.op = "sample"
  /\ InMdat(ThisStep, cursor.pos, Mdat.len)
  /\ frames' = Append(frames, MintFrame(clock, ThisStep,
                   <<cursor.moof + 1, PayloadStart(Mdat) + cursor.pos>>))
  /\ clock' = Advance(clock, ThisStep)
  /\ cursor' = [cursor EXCEPT !.step = @ + 1, !.pos = @ + ThisStep.size]
  /\ UNCHANGED <<stream, next, pc, catalog, bufs, segNo, seen, gops>>

DataOutside ==
  /\ MoreSteps
  /\ \/ ThisStep.op = "trun" /\ TrunStart(ThisStep) < 0
     \/ ThisStep.op = "sample" /\ ~ InMdat(ThisStep, cursor.pos, Mdat.len)
  /\ Error

AllMinted ==
  /\ pc = "mint"
  /\ cursor.step > Len(Steps)
  /\ pc' = "read"
  /\ UNCHANGED <<stream, next, catalog, cursor, frames, clock, bufs, segNo, seen, gops>>

-----------------------------------------------------------------------------
(* The loop of segment_fmp4_with_remap.                                    *)

WithGop(list) ==
  IF Present(bufs) = {} THEN list ELSE Append(list, GopOf(bufs, segNo + 1))

TakeFrame ==
  /\ pc = "read"
  /\ frames # <<>>
  /\ LET f   == Head(frames)
         cut == Boundary(catalog, bufs, seen, f)
     IN  /\ segNo' = IF cut THEN segNo + 1 ELSE segNo
         /\ gops' = IF cut THEN WithGop(gops) ELSE gops
         /\ bufs' = RecordFrame(IF cut THEN NoBufs ELSE bufs, f)
         /\ seen' = (seen \/ IsVideoKeyframe(catalog, f))
  /\ frames' = Tail(frames)
  /\ UNCHANGED <<stream, next, pc, catalog, cursor, clock>>

\* A slip: nothing is cut when the input ends.
EndWithoutGop ==
  /\ pc = "read"
  /\ frames = <<>>
  /\ AtEnd
  /\ pc' = "done"
  /\ UNCHANGED <<stream, next, catalog, cursor, frames, clock, bufs, segNo, seen, gops>>

EndOfFile ==
  /\ pc = "read"
  /\ frames = <<>>
  /\ AtEnd
  /\ segNo' = segNo + 1
  /\ gops' = WithGop(gops)
  /\ bufs' = NoBufs
  /\ pc' = "done"
  /\ UNCHANGED <<stream, next, catalog, cursor, frames, clock, seen>>

Next ==
  \/ ReadMoov \/ NoMoov \/ SkipBox \/ ReadPair \/ BadPair
  \/ ReadTfdt \/ StartTrun \/ MintSample \/ DataOutside \/ AllMinted
  \/ TakeFrame \/ EndOfFile

Spec == Init /\ [][Next]_vars /\ WF_vars(Next)

-----------------------------------------------------------------------------

\* The GoPs that hold the sample that step k of the moof i describes.
Holding(i, k) ==
  LET s == stream[i].steps[k]
  IN  {g \in DOMAIN gops :
         \E j \in DOMAIN gops[g].tracks[Remap[s.track]].frames :
           gops[g].tracks[Remap[s.track]].frames[j].data
             = <<i + 1, PayloadStart(stream[i + 1]) + PayloadAfter(stream[i].steps)[k - 1]>>}

SamplesOf(i) == {k \in DOMAIN stream[i].steps : stream[i].steps[k].op = "sample"}

\* A moov comes before the moofs; within a moof only a trun that starts at the
\* first byte of the payload leaves its data offset out, and no two samples of a
\* track are at one place.
Regular(s) ==
  \A i \in DOMAIN s : s[i].kind = "moof" =>
    LET at == PayloadAfter(s[i].steps)
    IN  /\ \E j \in 1..(i - 1) : s[j].kind = "moov"
        /\ \A k \in DOMAIN s[i].steps :
             LET step == s[i].steps[k]
             IN  /\ step.op = "trun" /\ ~ step.offset => at[k - 1] = 0
                 /\ \A l \in 1..(k - 1) :
                      (/\ step.op = "sample" /\ s[i].steps[l].op = "sample"
                       /\ step.track = s[i].steps[l].track) => at[l - 1] # at[k - 1]

\* A file read to its end without error has every sample of every moof in one
\* GoP, and a sample never is in two.
EachSampleOnce ==
  \A i \in {i \in DOMAIN stream : stream[i].kind = "moof"} :
    i < next => \A k \in SamplesOf(i) :
      /\ Cardinality(Holding(i, k)) <= 1
      /\ pc = "done" => Holding(i, k) # {}
=============================================================================
