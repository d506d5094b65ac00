------------------------------- MODULE Wrapper -------------------------------
(***************************************************************************)
(* Files as sequences of boxes, and the two ways reader.rs finds the       *)
(* segments of a storage wrapper that is in memory or seekable: unwrap and *)
(* read_segments_at.  The third, scan_wrapper_stream, is the state machine *)
(* of Archive.                                                             *)
(*                                                                         *)
(* A file is [head, size]: the boxes that start at each offset, inside the *)
(* mdat envelope of a flat MP4 too, and the number of its bytes, which is  *)
(* smaller than what the boxes announce once the file is cut off.  A box   *)
(* is [kind, hlen, len, body]: hlen is 16 when its size is in the 64-bit   *)
(* field, and kind is "ftyp" for every container framing box, "muxl" and   *)
(* "c2pa" for a uuid box with the id of MUXL and with another.             *)
(***************************************************************************)
EXTENDS Catalogs
LOCAL INSTANCE SequencesExt
LOCAL INSTANCE FiniteSetsExt

CONSTANT C2paLen       \* length of the box a signature puts before a segment

ASSUME C2paAssumption == C2paLen \in Nat /\ C2paLen >= 24

Nothing == [nothing |-> TRUE]

Atom(kind, hlen, len, body) == [kind |-> kind, hlen |-> hlen, len |-> len, body |-> body]

EmptyFile == [head |-> <<>>, size |-> 0]

\* A box more, behind the others.
WithBox(file, a) ==
  [p \in DOMAIN file.head \cup {file.size} |-> IF p = file.size THEN a ELSE file.head[p]]

AddAtom(file, a) == [head |-> WithBox(file, a), size |-> file.size + a.len]

\* Only the header of the outer mdat of a flat MP4: its payload follows.
AddEnvelope(file, payload) ==
  [head |-> WithBox(file, Atom("mdat", 16, 16 + payload, Nothing)), size |-> file.size + 16]

CutFile(file, n) ==
  [head |-> [o \in {p \in DOMAIN file.head : p < n} |-> file.head[o]], size |-> n]

-----------------------------------------------------------------------------
(* Box headers.                                                            *)

\* The header at `pos` of bytes that end at `end`: [ok, kind, start, end].
BadHeader == [ok |-> FALSE, kind |-> "none", start |-> 0, end |-> 0]

ReadBoxHeader(file, pos, end) ==
  IF \/ pos \notin DOMAIN file.head
     \/ pos + file.head[pos].hlen > end
     \/ pos + file.head[pos].len > end
  THEN BadHeader
  ELSE [ok |-> TRUE, kind |-> file.head[pos].kind,
        start |-> pos + file.head[pos].hlen, end |-> pos + file.head[pos].len]

IsUuid(h) == h.kind \in {"muxl", "c2pa"}

\* The uuid box is there with its id.
IsMuxl(h) == h.ok /\ h.kind = "muxl" /\ h.start + 16 <= h.end

\* The boxes of [from, to), by where they start, up to one that is cut off.
Chain(file, from, to) ==
  LET walk[pos \in from..to] ==
        LET h    == ReadBoxHeader(file, pos, to)
            rest == walk[h.end]
        IN  IF pos + 8 > to THEN [ok |-> TRUE, at |-> <<>>]
            ELSE IF ~h.ok THEN [ok |-> FALSE, at |-> <<>>]
            ELSE [ok |-> rest.ok, at |-> <<pos>> \o rest.at]
  IN  walk[from]

-----------------------------------------------------------------------------
(* unwrap: the whole input in memory.                                      *)

\* A non-MUXL uuid heads the stream when a MUXL uuid comes next, and is
\* framing otherwise, as the box a signer puts before the moov.
HeadsStream(file, pos, h) ==
  \/ h.kind = "moof"
  \/ IsMuxl(h)
  \/ h.kind = "c2pa" /\ IsMuxl(ReadBoxHeader(file, h.end, file.size))

\* locate_segment_stream: [ok, from, to].
Located(file) ==
  LET find[pos \in 0..file.size] ==
        LET h == ReadBoxHeader(file, pos, file.size)
        IN  IF pos + 8 > file.size THEN [ok |-> TRUE, from |-> 0, to |-> file.size]
            ELSE IF ~h.ok THEN [ok |-> FALSE, from |-> 0, to |-> 0]
            ELSE IF h.kind = "mdat" THEN [ok |-> TRUE, from |-> h.start, to |-> h.end]
            ELSE IF HeadsStream(file, pos, h)
                 THEN [ok |-> TRUE, from |-> pos, to |-> file.size]
            ELSE find[h.end]
  IN  find[0]

\* A slip: only a MUXL uuid opens a segment, so the signature of the next
\* one stays with this one.
OpensSegmentAtMuxl(started, hasMuxl, isMuxl) == started /\ isMuxl /\ hasMuxl

\* A uuid box opens a segment: the first one, a second MUXL uuid, or any
\* other uuid, which heads the prefix of a signed segment.
OpensSegment(started, hasMuxl, isMuxl) == started /\ (~isMuxl \/ hasMuxl)

NoCatalog == [ok |-> FALSE, catalog |-> EmptyCatalog]

\* from_segment: the catalog in the first MUXL uuid box of a segment.
FromSegment(file, seg) ==
  LET find[pos \in seg.from..seg.to] ==
        LET h == ReadBoxHeader(file, pos, seg.to)
        IN  IF pos + 8 > seg.to \/ ~h.ok THEN NoCatalog
            ELSE IF IsMuxl(h) THEN [ok |-> TRUE, catalog |-> file.head[pos].body]
            ELSE find[h.end]
  IN  find[seg.from]

\* The track a segment is pushed with; an opaque track counts.
SegmentTrack(file, seg) == FirstTrack(TracksOf(FromSegment(file, seg).catalog)).track

\* An empty catalog, as where there is no MUXL uuid, describes no track.
Describes(file, seg) == TracksOf(FromSegment(file, seg).catalog) # {}

\* The segment that is open, seg_start and seg_has_muxl: it starts at -1 while
\* there is none.
NoneOpen == [from |-> -1, muxl |-> FALSE]

Refused == [ok |-> FALSE, segs |-> <<>>]

\* What the open segment is when it ends at `to`.
OpenTo(s, to) == [from |-> s.open.from, to |-> to]

\* The box ends the open segment.
Cuts(s, h) == IsUuid(h) /\ OpensSegment(s.open.from >= 0, s.open.muxl, IsMuxl(h))

\* The box at the cursor joins the open segment, or it opens the next.
TakeHeader(s, h) ==
  [pos  |-> h.end,
   open |-> IF ~IsUuid(h) THEN s.open
            ELSE [from |-> IF Cuts(s, h) \/ s.open.from < 0 THEN s.pos ELSE s.open.from,
                  muxl |-> IsMuxl(h) \/ (s.open.muxl /\ ~Cuts(s, h))],
   segs |-> IF Cuts(s, h) THEN Append(s.segs, OpenTo(s, s.pos)) ELSE s.segs]

\* The stream is over, and the open segment is pushed too.
CloseLast(file, s, to) ==
  IF s.open.from < 0 THEN [ok |-> TRUE, segs |-> s.segs]
  ELSE [ok |-> Describes(file, OpenTo(s, to)), segs |-> Append(s.segs, OpenTo(s, to))]

\* scan_segments: [ok, segs].  A segment that is pushed must describe a track.
ScanSegments(file, stream) ==
  LET scan[s \in [pos : 0..stream.to, open : [from : -1..stream.to, muxl : BOOLEAN],
                  segs : Seq([from : Nat, to : Nat])]] ==
        LET h == ReadBoxHeader(file, s.pos, stream.to)
        IN  IF s.pos + 8 > stream.to THEN CloseLast(file, s, stream.to)
            ELSE IF \/ ~h.ok
                    \/ ~IsUuid(h) /\ s.open.from < 0
                    \/ Cuts(s, h) /\ ~Describes(file, OpenTo(s, s.pos))
            THEN Refused
            ELSE scan[TakeHeader(s, h)]
  IN  scan[[pos |-> stream.from, open |-> NoneOpen, segs |-> <<>>]]

UnwrapStream(file, stream) == IF stream.ok THEN ScanSegments(file, stream) ELSE Refused

Unwrap(file) == UnwrapStream(file, Located(file))

-----------------------------------------------------------------------------
(* read_segments_at: random access, headers only.                          *)

\* A slip: the header of the envelope is taken to be a short one.
EnvelopeBodyShort(pos, h) == pos + 8

EnvelopeBody(pos, h) == h.start

\* segment_stream_start: [ok, at].
StreamStart(file) ==
  LET find[pos \in 0..file.size] ==
        LET h    == ReadBoxHeader(file, pos, file.size)
            next == ReadBoxHeader(file, h.end, file.size)
        IN  IF pos + 8 > file.size THEN [ok |-> TRUE, at |-> 0]
            ELSE IF ~h.ok THEN [ok |-> FALSE, at |-> 0]
            ELSE IF h.kind = "mdat" THEN [ok |-> TRUE, at |-> EnvelopeBody(pos, h)]
            ELSE IF h.kind = "moof" \/ IsMuxl(h) THEN [ok |-> TRUE, at |-> pos]
            ELSE IF h.kind = "c2pa" /\ h.end + 8 <= file.size /\ ~next.ok
                 THEN [ok |-> FALSE, at |-> 0]
            ELSE IF h.kind = "c2pa" /\ h.end + 8 <= file.size /\ IsMuxl(next)
                 THEN [ok |-> TRUE, at |-> pos]
            ELSE find[h.end]
  IN  find[0]

All == -1

\* The boxes are walked from `start` until `count` segments are closed, or to
\* the end of the file: [ok, from, to].
WalkSegments(file, start, count) ==
  LET walk[pos \in start..file.size, closed \in 0..file.size,
           open \in BOOLEAN, muxl \in BOOLEAN] ==
        LET h   == ReadBoxHeader(file, pos, file.size)
            cut == IsUuid(h) /\ OpensSegment(open, muxl, IsMuxl(h))
        IN  IF pos + 8 > file.size
            THEN [ok |-> count = All \/ closed + (IF open THEN 1 ELSE 0) >= count,
                  from |-> start, to |-> file.size]
            ELSE IF ~h.ok \/ (~IsUuid(h) /\ ~open)
            THEN [ok |-> FALSE, from |-> start, to |-> start]
            ELSE IF cut /\ count # All /\ closed + 1 >= count
            THEN [ok |-> TRUE, from |-> start, to |-> pos]
            ELSE IF IsUuid(h)
            THEN walk[h.end, IF cut THEN closed + 1 ELSE closed, TRUE,
                      IsMuxl(h) \/ (muxl /\ ~cut)]
            ELSE walk[h.end, closed, open, muxl]
  IN  walk[start, 0, FALSE, FALSE]

\* An offset in the file, or one counted from the first segment.
ReadSegmentsAt(file, fromStream, offset, count) ==
  LET base  == IF fromStream THEN StreamStart(file) ELSE [ok |-> TRUE, at |-> 0]
      start == base.at + offset
  IN  IF ~base.ok \/ start > file.size THEN [ok |-> FALSE, from |-> 0, to |-> 0]
      ELSE WalkSegments(file, start, count)
=============================================================================
