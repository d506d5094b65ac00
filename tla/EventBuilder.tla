---------------------------- MODULE EventBuilder ----------------------------
(***************************************************************************)
(* StreamEventBuilder of src/src/reader.rs: the canonical segments of a    *)
(* stored stream come in one by one, in the order they are stored, and go  *)
(* out as the events of the live segmenter: an Init, then one Segment per  *)
(* GoP.  The stored bytes do not say where a GoP ends; the builder infers  *)
(* it from the track ids, which ascend within a GoP.                       *)
(***************************************************************************)
EXTENDS Integers, Sequences, FiniteSets

CONSTANTS
  Track,   \* track ids
  Video,   \* the video tracks among them
  Inputs   \* the stored streams considered

\* A stored segment: its track, the timescale its catalog gives the track, its
\* duration in ticks, the GoP it was cut in (which its bytes do not hold), and
\* whether its uuid and moofs parse.
Seg == [track : Track, scale : Nat, dur : Nat, gop : Nat, ok : BOOLEAN]

ASSUME BuilderAssumption ==
  /\ Track \subseteq Nat
  /\ Video \subseteq Track
  /\ Inputs \subseteq Seq(Seg)

VARIABLES
  stored,       \* the stored segments
  next,         \* the next segment to push
  running,      \* the aggregate catalog: the timescale of each track seen
  emittedTids,  \* emitted_tids: the tracks of the last Init
  initEmitted,  \* init_emitted
  pendingNew,   \* pending_new_tid
  cur,          \* cur: the positions of its segments and its duration
  lastTid,      \* last_tid
  out,          \* the events emitted
  status        \* "run", then "done" or "error"

vars == <<stored, next, running, emittedTids, initEmitted, pendingNew, cur,
          lastTid, out, status>>

\* cur is None exactly when nothing was pushed.
NoGop == [segs |-> {}, us |-> 0]

Init ==
  /\ stored \in Inputs
  /\ next = 1
  /\ running = [t \in {} |-> 0]
  /\ emittedTids = {}
  /\ initEmitted = FALSE
  /\ pendingNew = FALSE
  /\ cur = NoGop
  /\ lastTid = 0
  /\ out = <<>>
  /\ status = "run"

-----------------------------------------------------------------------------
(* flush_gop.                                                              *)

NeedsInit == ~ initEmitted \/ pendingNew

InitEvent == [type |-> "init", tracks |-> DOMAIN running]
GopEvent(g) == [type |-> "segment", segs |-> g.segs, us |-> g.us]

FlushGop(g) ==
  /\ out' = IF NeedsInit THEN out \o <<InitEvent, GopEvent(g)>>
                         ELSE Append(out, GopEvent(g))
  /\ emittedTids' = IF NeedsInit THEN DOMAIN running ELSE emittedTids
  /\ initEmitted' = TRUE

\* The sink refuses an event: the Init, or the Segment after it.
SinkFails(g) ==
  /\ out' \in {out} \cup IF NeedsInit THEN {Append(out, InitEvent)} ELSE {}
  /\ status' = "error"
  /\ UNCHANGED <<stored, next, running, emittedTids, initEmitted, pendingNew,
                 cur, lastTid>>

-----------------------------------------------------------------------------
(* push_segment.                                                           *)

ThisSeg == stored[next]
Pushing == status = "run" /\ next <= Len(stored)

\* A slip: a repeated id does not close the GoP.
ClosesGopLess == cur # NoGop /\ ThisSeg.track < lastTid

\* A track id that is not above the previous one closes the current GoP.
ClosesGop == cur # NoGop /\ ThisSeg.track <= lastTid

Micros(ticks, scale) == IF scale > 0 THEN (ticks * 1000000) \div scale ELSE 0

\* The maps of a GoP are keyed by track: a second segment of a track would
\* replace the first.
AddSegment(g, i) ==
  [segs |-> {j \in g.segs : stored[j].track # stored[i].track} \cup {i},
   us   |-> IF Micros(stored[i].dur, stored[i].scale) > g.us
            THEN Micros(stored[i].dur, stored[i].scale) ELSE g.us]

FoldCatalog(s) ==
  [t \in DOMAIN running \cup {s.track} |-> IF t = s.track THEN s.scale ELSE running[t]]

\* A slip: a track is new when no segment had it before this one.
PushUnseen ==
  /\ Pushing
  /\ ThisSeg.ok
  /\ IF ClosesGop THEN FlushGop(cur)
                  ELSE UNCHANGED <<out, emittedTids, initEmitted>>
  /\ running' = FoldCatalog(ThisSeg)
  /\ pendingNew' = (\/ ~ ClosesGop /\ pendingNew
                    \/ ThisSeg.track \notin DOMAIN running /\ ~ initEmitted)
  /\ cur' = AddSegment(IF ClosesGop THEN NoGop ELSE cur, next)
  /\ lastTid' = ThisSeg.track
  /\ next' = next + 1
  /\ UNCHANGED <<stored, status>>

PushSegment ==
  /\ Pushing
  /\ ThisSeg.ok
  /\ IF ClosesGop THEN FlushGop(cur)
                  ELSE UNCHANGED <<out, emittedTids, initEmitted>>
  /\ running' = FoldCatalog(ThisSeg)
  /\ pendingNew' = (\/ ~ ClosesGop /\ pendingNew
                    \/ ThisSeg.track \notin emittedTids')
  /\ cur' = AddSegment(IF ClosesGop THEN NoGop ELSE cur, next)
  /\ lastTid' = ThisSeg.track
  /\ next' = next + 1
  /\ UNCHANGED <<stored, status>>

PushFails ==
  /\ Pushing
  /\ \/ ThisSeg.ok /\ ClosesGop /\ SinkFails(cur)
     \/ /\ ~ ThisSeg.ok
        /\ status' = "error"
        /\ UNCHANGED <<stored, next, running, emittedTids, initEmitted, pendingNew,
                       cur, lastTid, out>>

\* finish(): the last GoP.
Finish ==
  /\ status = "run"
  /\ next > Len(stored)
  /\ \/ /\ IF cur # NoGop THEN FlushGop(cur)
                          ELSE UNCHANGED <<out, emittedTids, initEmitted>>
        /\ pendingNew' = FALSE
        /\ cur' = NoGop
        /\ status' = "done"
        /\ UNCHANGED <<stored, next, running, lastTid>>
     \/ cur # NoGop /\ SinkFails(cur)

Next == PushSegment \/ PushFails \/ Finish

Spec == Init /\ [][Next]_vars

-----------------------------------------------------------------------------

GopEvents == {e \in DOMAIN out : out[e].type = "segment"}
TracksOf(segs) == {stored[i].track : i \in segs}

\* Every segment that was pushed is in one event or in the GoP being built,
\* and the events take the segments in their stored order: none is dropped,
\* repeated or moved (segment_events: "returned verbatim").
NothingDropped ==
  /\ status = "run" =>
       (UNION {out[e].segs : e \in GopEvents}) \cup cur.segs = 1..(next - 1)
  /\ status = "done" => UNION {out[e].segs : e \in GopEvents} = 1..Len(stored)
  /\ \A e, f \in GopEvents : e < f => \A i \in out[e].segs, j \in out[f].segs : i < j
  /\ \A e \in GopEvents : \A i, j \in out[e].segs :
       stored[i].track = stored[j].track => i = j

\* The Init in force when a GoP goes out covers its tracks, and an Init holds
\* exactly the tracks of the GoPs up to the one it precedes, and not of the
\* segment that closed that GoP (the comment in push_segment).
InitCoversGop ==
  \A e \in GopEvents :
    \E i \in 1..(e - 1) :
      /\ out[i].type = "init"
      /\ \A j \in (i + 1)..e : out[j].type = "segment"
      /\ TracksOf(out[e].segs) \subseteq out[i].tracks
      /\ out[i].tracks = UNION {TracksOf(out[f].segs) : f \in GopEvents \cap 1..(i + 1)}

\* The events are the GoPs the live segmenter cut: "one Init, then one Segment
\* per GoP" (segment_events).
OneEventPerGop ==
  \A e \in GopEvents : \A i \in out[e].segs :
    out[e].segs = {j \in DOMAIN stored : stored[j].gop = stored[i].gop}

\* The same for the streams the builder is made for: each GoP holds one and the
\* same track, and the tracks ascend within it (canonical-form.md: "tracks are
\* ordered by track_id ascending").
InStoreOrder ==
  \A i \in 1..(Len(stored) - 1) :
    \/ stored[i].gop = stored[i + 1].gop /\ stored[i].track < stored[i + 1].track
    \/ stored[i].gop < stored[i + 1].gop
CommonTrack ==
  \E t \in Track : \A i \in DOMAIN stored : \E j \in DOMAIN stored :
    stored[j].gop = stored[i].gop /\ stored[j].track = t
GopsKept == InStoreOrder /\ CommonTrack => OneEventPerGop

\* compute_duration_us: the live segmenter takes the first video track of the
\* GoP, and the longest track when there is none.
LiveDuration(segs) ==
  LET us(i)  == Micros(stored[i].dur, stored[i].scale)
      video  == {i \in segs : stored[i].track \in Video}
      first  == CHOOSE i \in video : \A j \in video : stored[i].track <= stored[j].track
      longest == CHOOSE i \in segs : \A j \in segs : us(j) <= us(i)
  IN  IF video # {} THEN us(first) ELSE us(longest)

\* The stored stream drives HLS as the live one did: the GoP has the duration
\* the live segmenter gave it (segment_events: "exactly like freshly-segmented
\* ones").
DurationAsLive == \A e \in GopEvents : out[e].us = LiveDuration(out[e].segs)
=============================================================================
