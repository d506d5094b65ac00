------------------------------ MODULE Segmenter ------------------------------
(***************************************************************************)
(* The push segmenter of src/src/push.rs.  A caller feeds the bytes of an  *)
(* fMP4 stream in chunks of any size and receives, from each call, the     *)
(* events that became complete: the init segment, then one event per GoP.  *)
(*                                                                         *)
(* A call of feed() is a run of steps between Feed and FeedReturn (or      *)
(* Fail): one step per box, per sample minted and per frame recorded.      *)
(* While it runs nothing else happens (`&mut self`).                       *)
(***************************************************************************)
EXTENDS GopCut

CONSTANTS
  Streams,    \* the inputs considered
  BoxParts,   \* a box arrives in up to this many parts
  MaxFlushes  \* bound: how often the caller calls flush()

ASSUME StreamAssumption ==
  /\ Streams \subseteq Seq(Box)
  /\ BoxParts \in Nat \ {0}
  /\ MaxFlushes \in Nat

VARIABLES
  stream,     \* the input file
  recv,       \* how many parts of it have been fed
  next,       \* the first box not drained from `buffer`
  pc,         \* "idle" between calls, "scan", "mint" or "record" inside feed()
  streaming,  \* State::Streaming rather than State::WaitingForInit
  catalog,    \* the catalog of the moov, remapped
  pending,    \* pending_moof: the index of the moof held, 0 for None
  cursor,     \* inside a moof+mdat pair: the moof, the step to run next and
              \* the position in the payload
  frames,     \* the local `frames` of the pair being processed
  clock,      \* track_state
  bufs,       \* track_bufs, track_durations, track_sample_counts, track_samples
  segNo,      \* segment_number
  seen,       \* seen_first_keyframe
  events,     \* the local `events` of the call that runs
  delivered,  \* history: every event returned to the caller
  failed,     \* history: some call of feed() returned an error
  flushes     \* history: how often flush() was called

input   == <<stream, recv>>
reader  == <<catalog, streaming, pending>>
minting == <<cursor, frames, clock>>
gop     == <<bufs, segNo, seen>>
history == <<delivered, failed, flushes>>
vars    == <<input, next, pc, reader, minting, gop, events, history>>

Event == [type : {"init"}, catalog : Catalog] \cup [type : {"segment"}, gop : Gop]

NoCatalog == [video |-> {}, scale |-> [t \in Track |-> 0]]

Init ==
  /\ stream \in Streams
  /\ recv = 0
  /\ next = 1
  /\ pc = "idle"
  /\ streaming = FALSE
  /\ catalog = NoCatalog
  /\ pending = 0
  /\ cursor = [moof |-> 0, step |-> 1, pos |-> 0]
  /\ frames = <<>>
  /\ clock = StartClock
  /\ bufs = NoBufs
  /\ segNo = 0
  /\ seen = FALSE
  /\ events = <<>>
  /\ delivered = <<>>
  /\ failed = FALSE
  /\ flushes = 0

-----------------------------------------------------------------------------
(* feed(): the loop over the boxes of the buffer.                          *)

\* The whole box is in the buffer.  peek_atom_header gives up on a box of
\* size 0, so such a box never is.
Complete(i) == recv >= BoxParts * i /\ stream[i].kind # "open"

BoxReady == pc = "scan" /\ next <= Len(stream) /\ Complete(next)
ThisBox  == stream[next]

Feed(n) ==
  /\ pc = "idle"
  /\ recv + n <= BoxParts * Len(stream)
  /\ recv' = recv + n
  /\ pc' = "scan"
  /\ UNCHANGED <<stream, next, reader, minting, gop, events, history>>

FeedReturn ==
  /\ pc = "scan"
  /\ ~ (next <= Len(stream) /\ Complete(next))
  /\ delivered' = delivered \o events
  /\ events' = <<>>
  /\ pc' = "idle"
  /\ UNCHANGED <<input, next, reader, minting, gop, failed, flushes>>

\* `?` in feed(): the call returns Err.  Its events and frames are locals and
\* die with it, and the box is not drained.
Fail ==
  /\ events' = <<>>
  /\ frames' = <<>>
  /\ pc' = "idle"
  /\ failed' = TRUE
  /\ UNCHANGED <<input, next, reader, cursor, clock, gop, delivered, flushes>>

\* A slip: the loop ends at a box that is skipped.
SkipBoxEndsCall ==
  /\ BoxReady
  /\ IF streaming
     THEN /\ ThisBox.kind # "moof"
          /\ ThisBox.kind = "mdat" => pending = 0
     ELSE ThisBox.kind # "moov"
  /\ next' = next + 1
  /\ delivered' = delivered \o events
  /\ events' = <<>>
  /\ pc' = "idle"
  /\ UNCHANGED <<input, reader, minting, gop, failed, flushes>>

\* ftyp and the like before the moov; styp, sidx, a second moov and an mdat
\* with no moof before it once streaming.
SkipBox ==
  /\ BoxReady
  /\ IF streaming
     THEN /\ ThisBox.kind # "moof"
          /\ ThisBox.kind = "mdat" => pending = 0
     ELSE ThisBox.kind # "moov"
  /\ next' = next + 1
  /\ UNCHANGED <<input, pc, reader, minting, gop, events, history>>

BadBox ==
  /\ BoxReady
  /\ ThisBox.kind = IF streaming THEN "moof" ELSE "moov"
  /\ ~ ThisBox.ok
  /\ Fail

ReadMoov ==
  /\ BoxReady
  /\ ~ streaming
  /\ ThisBox.kind = "moov"
  /\ ThisBox.ok
  /\ streaming' = TRUE
  /\ catalog' = RemapCatalog(ThisBox.catalog)
  /\ events' = Append(events, [type |-> "init", catalog |-> catalog'])
  /\ next' = next + 1
  /\ UNCHANGED <<input, pc, pending, minting, gop, history>>

\* A slip: the position noted is that of the box after the moof.
HoldMoofAfter ==
  /\ BoxReady
  /\ streaming
  /\ ThisBox.kind = "moof"
  /\ ThisBox.ok
  /\ pending' = next + 1
  /\ next' = next + 1
  /\ UNCHANGED <<input, pc, streaming, catalog, minting, gop, events, history>>

\* A moof already held is replaced.
HoldMoof ==
  /\ BoxReady
  /\ streaming
  /\ ThisBox.kind = "moof"
  /\ ThisBox.ok
  /\ pending' = next
  /\ next' = next + 1
  /\ UNCHANGED <<input, pc, streaming, catalog, minting, gop, events, history>>

OpenMdat ==
  /\ BoxReady
  /\ streaming
  /\ ThisBox.kind = "mdat"
  /\ pending # 0
  /\ cursor' = [moof |-> pending, step |-> 1, pos |-> 0]
  /\ pending' = 0
  /\ frames' = <<>>
  /\ pc' = "mint"
  /\ UNCHANGED <<input, next, streaming, catalog, clock, gop, events, history>>

-----------------------------------------------------------------------------
(* process_moof_mdat: a frame per sample of the moof held.                 *)

\* push.rs takes everything after the short header for payload, so the 8
\* bytes of a 64-bit size field count as payload.
PayloadLen(mdat) == mdat.len + IF mdat.large THEN 8 ELSE 0

Steps    == stream[cursor.moof].steps
ThisStep == Steps[cursor.step]
MoreSteps == pc = "mint" /\ cursor.step <= Len(Steps)

ReadTfdt ==
  /\ MoreSteps
  /\ ThisStep.op = "tfdt"
  /\ clock' = SetDecodeTime(clock, ThisStep)
  /\ cursor' = [cursor EXCEPT !.step = @ + 1]
  /\ UNCHANGED <<input, next, pc, reader, frames, gop, events, history>>

StartTrun ==
  /\ MoreSteps
  /\ ThisStep.op = "trun"
  /\ TrunStart(ThisStep) >= 0
  /\ cursor' = [cursor EXCEPT !.step = @ + 1, !.pos = TrunStart(ThisStep)]
  /\ UNCHANGED <<input, next, pc, reader, frames, clock, gop, events, history>>

MintSample ==
  /\ MoreSteps
  /\ ThisStep.op = "sample"
  /\ InMdat(ThisStep, cursor.pos, PayloadLen(ThisBox))
  /\ frames' = Append(frames, MintFrame(clock, ThisStep, <<next, cursor.pos>>))
  /\ clock' = Advance(clock, ThisStep)
  /\ cursor' = [cursor EXCEPT !.step = @ + 1, !.pos = @ + ThisStep.size]
  /\ UNCHANGED <<input, next, pc, reader, gop, events, history>>

\* A trun that points before the mdat, a sample that goes beyond it.
DataOutside ==
  /\ MoreSteps
  /\ \/ ThisStep.op = "trun" /\ TrunStart(ThisStep) < 0
     \/ ThisStep.op = "sample" /\ ~ InMdat(ThisStep, cursor.pos, PayloadLen(ThisBox))
  /\ Fail

AllMinted ==
  /\ pc = "mint"
  /\ cursor.step > Len(Steps)
  /\ pc' = "record"
  /\ UNCHANGED <<input, next, reader, minting, gop, events, history>>

-----------------------------------------------------------------------------
(* The loop over the frames of the pair.                                   *)

\* flush_track_bufs pushes a GoP only if some track has a frame.
WithGop(list) ==
  IF Present(bufs) = {} THEN list
  ELSE Append(list, [type |-> "segment", gop |-> GopOf(bufs, segNo + 1)])

\* A slip: the frame that opens a GoP is put in the one it closes.
RecordThenCut ==
  /\ pc = "record"
  /\ frames # <<>>
  /\ LET f    == Head(frames)
         cut  == Boundary(catalog, bufs, seen, f)
         all  == RecordFrame(bufs, f)
     IN  /\ segNo' = IF cut THEN segNo + 1 ELSE segNo
         /\ events' = IF cut THEN Append(events, [type |-> "segment",
                                                  gop |-> GopOf(all, segNo + 1)])
                             ELSE events
         /\ bufs' = IF cut THEN NoBufs ELSE all
         /\ seen' = (seen \/ IsVideoKeyframe(catalog, f))
  /\ frames' = Tail(frames)
  /\ UNCHANGED <<input, next, pc, reader, cursor, clock, history>>

RecordNext ==
  /\ pc = "record"
  /\ frames # <<>>
  /\ LET f   == Head(frames)
         cut == Boundary(catalog, bufs, seen, f)
     IN  /\ segNo' = IF cut THEN segNo + 1 ELSE segNo
         /\ events' = IF cut THEN WithGop(events) ELSE events
         /\ bufs' = RecordFrame(IF cut THEN NoBufs ELSE bufs, f)
         /\ seen' = (seen \/ IsVideoKeyframe(catalog, f))
  /\ frames' = Tail(frames)
  /\ UNCHANGED <<input, next, pc, reader, cursor, clock, history>>

DrainMdat ==
  /\ pc = "record"
  /\ frames = <<>>
  /\ next' = next + 1
  /\ pc' = "scan"
  /\ UNCHANGED <<input, reader, minting, gop, events, history>>

-----------------------------------------------------------------------------
(* flush(): numbers and returns what is buffered; the stream may go on.    *)

\* A slip: the buffers are copied out and not emptied.
FlushKeepsBufs ==
  /\ pc = "idle"
  /\ flushes < MaxFlushes
  /\ flushes' = flushes + 1
  /\ IF streaming
     THEN /\ segNo' = segNo + 1
          /\ delivered' = WithGop(delivered)
          /\ UNCHANGED bufs
     ELSE UNCHANGED <<segNo, delivered, bufs>>
  /\ UNCHANGED <<input, next, pc, reader, minting, seen, events, failed>>

Flush ==
  /\ pc = "idle"
  /\ flushes < MaxFlushes
  /\ flushes' = flushes + 1
  /\ IF streaming
     THEN /\ segNo' = segNo + 1
          /\ delivered' = WithGop(delivered)
          /\ bufs' = NoBufs
     ELSE UNCHANGED <<segNo, delivered, bufs>>
  /\ UNCHANGED <<input, next, pc, reader, minting, seen, events, failed>>

-----------------------------------------------------------------------------

\* The work of a feed() that was called.
Run ==
  \/ FeedReturn \/ SkipBox \/ BadBox \/ ReadMoov \/ HoldMoof \/ OpenMdat
  \/ ReadTfdt \/ StartTrun \/ MintSample \/ DataOutside \/ AllMinted
  \/ RecordNext \/ DrainMdat

Next ==
  \/ \E n \in 0..(BoxParts * Len(stream)) : Feed(n)
  \/ Run
  \/ Flush

Spec == Init /\ [][Next]_vars

-----------------------------------------------------------------------------
(* Type invariant.                                                         *)

\* Every variable has its type, and the indices into the stream are in it.
TypeOK ==
  /\ stream \in Streams
  /\ recv \in Nat
  /\ next \in 1..(Len(stream) + 1)
  /\ pc \in {"idle", "scan", "mint", "record"}
  /\ streaming \in BOOLEAN
  /\ catalog \in Catalog
  /\ pending \in 0..Len(stream)
  /\ pending # 0 => stream[pending].kind = "moof"
  /\ cursor \in [moof : 0..Len(stream), step : Nat \ {0}, pos : Nat]
  /\ pc = "mint" => /\ cursor.moof # 0
                    /\ stream[cursor.moof].kind = "moof"
  /\ pc \in {"mint", "record"} => /\ next <= Len(stream)
                                  /\ stream[next].kind = "mdat"
  /\ frames \in Seq(Frame)
  /\ clock \in [Track -> Progress]
  /\ bufs \in [Track -> TrackBuf]
  /\ segNo \in Nat
  /\ seen \in BOOLEAN
  /\ events \in Seq(Event)
  /\ delivered \in Seq(Event)
  /\ failed \in BOOLEAN
  /\ flushes \in 0..MaxFlushes

-----------------------------------------------------------------------------
(* Where a frame can be: in a GoP that was cut, buffered for the GoP being *)
(* built, or minted and still queued.                                      *)

Emitted == delivered \o events

\* The fragments of track t in the event e, none in an init segment.
FramesIn(e, t) == IF e.type = "segment" THEN e.gop.tracks[t].frames ELSE <<>>

TracksIn(e) == {t \in Track : FramesIn(e, t) # <<>>}

Below(s, n)   == \A i \in DOMAIN s : s[i].seq < n
Before(s, r)  == \A j \in DOMAIN r : Below(s, r[j].seq)
Increasing(s) == \A i, j \in DOMAIN s : i < j => s[i].seq < s[j].seq

\* The sequence numbers of each track increase through the events of `list`,
\* then the buffers `held`, then the frames of `queue`.
Ordered(list, held, queue) ==
  \A t \in Track :
    /\ \A i \in DOMAIN list : /\ Increasing(FramesIn(list[i], t))
                              /\ Before(FramesIn(list[i], t), held[t].frames)
    /\ \A i, j \in DOMAIN list :
         i < j => Before(FramesIn(list[i], t), FramesIn(list[j], t))
    /\ Increasing(held[t].frames)
    /\ \A q \in DOMAIN queue : queue[q].track = t =>
         /\ \A i \in DOMAIN list : Below(FramesIn(list[i], t), queue[q].seq)
         /\ Below(held[t].frames, queue[q].seq)
         /\ \A p \in DOMAIN queue :
              (p < q /\ queue[p].track = t) => queue[p].seq < queue[q].seq

\* A track's sequence numbers strictly increase through everything that was
\* emitted, then its buffer, then the queue: whatever the chunks, and through
\* errors and retries, no fragment is emitted twice or out of order
\* (canonical-form.md: "within a single track the sequence is strictly
\* monotonic").
InOrder == Ordered(Emitted, bufs, frames)

\* No gap: while no call has failed, a fragment is emitted only when every
\* earlier fragment of its track has been, in the same GoP or an earlier one
\* (canonical-form.md: "starting at 1 ... with no gaps").
GapFree ==
  ~ failed =>
    \A t \in Track, i \in DOMAIN Emitted :
      \A k \in DOMAIN FramesIn(Emitted[i], t) :
        \A m \in 1..FramesIn(Emitted[i], t)[k].seq :
          \E j \in 1..i : \E l \in DOMAIN FramesIn(Emitted[j], t) :
            FramesIn(Emitted[j], t)[l].seq = m

\* The k-th event is GoP k-1: the init segment comes first and once, and the
\* numbers of the GoPs are consecutive from 1, until a call fails or flush()
\* is called.
NumbersConsecutive ==
  ~ failed /\ flushes = 0 =>
    \A i \in DOMAIN Emitted :
      IF i = 1 THEN Emitted[1].type = "init"
      ELSE /\ Emitted[i].type = "segment"
           /\ Emitted[i].gop.number = i - 1

\* The fragments of the GoP being built and of those that were cut.
Groups(t) == {FramesIn(Emitted[i], t) : i \in DOMAIN Emitted} \cup {bufs[t].frames}

\* With a single video track, a GoP holds one keyframe, its video segment's
\* first frame; only the first GoP may start with frames from before the
\* first keyframe (canonical-form.md, Segmentation Rule).
KeyframePerGop ==
  flushes = 0 =>
    \A v \in Track : catalog.video = {v} =>
      /\ \A g \in Groups(v) : \A i, j \in DOMAIN g : g[i].sync /\ g[j].sync => i = j
      /\ \A i \in DOMAIN Emitted :
           (FramesIn(Emitted[i], v) # <<>> /\ Emitted[i].gop.number > 1)
             => FramesIn(Emitted[i], v)[1].sync

\* What the test test_video_segments_start_with_keyframe (segment.rs) asserts:
\* each video track's segment starts with a sync frame.
VideoStartsWithKeyframe ==
  \A v \in catalog.video, i \in DOMAIN Emitted :
    FramesIn(Emitted[i], v) # <<>> => FramesIn(Emitted[i], v)[1].sync

\* Audio only: in each GoP the track with the smallest id lasts a second or
\* more, and less than a second without its last frame (canonical-form.md,
\* "segments are 1-second wall-clock spans").
AudioSpans ==
  (flushes = 0 /\ streaming /\ catalog.video = {}) =>
    \A i \in DOMAIN Emitted : Emitted[i].type = "segment" =>
      LET tracks == Emitted[i].gop.tracks
          ref    == CHOOSE t \in TracksIn(Emitted[i]) :
                      \A u \in TracksIn(Emitted[i]) : t <= u
          last   == tracks[ref].frames[Len(tracks[ref].frames)]
      IN  /\ catalog.scale[ref] > 0
          /\ tracks[ref].dur >= catalog.scale[ref]
          /\ tracks[ref].dur - last.dur < catalog.scale[ref]

\* The sample index of an emitted segment describes its bytes: the prefix,
\* the moofs, the mdat headers and the payloads the offsets point at tile the
\* segment, and the sync list names its sync samples.  The maps it is built
\* from are kept apart from the bytes and cleared at each cut.
IndexDescribesBytes ==
  \A i \in DOMAIN Emitted : Emitted[i].type = "segment" =>
    \A t \in TracksIn(Emitted[i]) :
      LET s == Emitted[i].gop.tracks[t]
          n == Len(s.frames)
      IN  /\ Len(s.offs) = n
          /\ s.offs[1] = PrefixLen[t] + s.frames[1].moof + MdatHeader
          /\ \A k \in 2..n : s.offs[k] = s.offs[k - 1] + s.frames[k - 1].size
                                         + s.frames[k].moof + MdatHeader
          /\ s.len = s.offs[n] + s.frames[n].size
          /\ s.syncs = {k \in 1..n : s.frames[k].sync}
          /\ s.start = s.frames[1].tfdt

\* A feed() that succeeded left no complete box unread: what the caller has
\* not got yet is waiting for bytes, not for another call.
NothingLeftToRead ==
  pc = "idle" /\ ~ failed => ~ (next <= Len(stream) /\ recv >= BoxParts * next
                                /\ stream[next].kind # "open")

\* Every GoP that was cut reached the caller by the time the call returned.
CutIsDelivered ==
  pc = "idle" /\ flushes = 0 =>
    segNo = Cardinality({i \in DOMAIN delivered : delivered[i].type = "segment"})

=============================================================================
