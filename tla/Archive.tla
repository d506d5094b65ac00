------------------------------- MODULE Archive -------------------------------
(***************************************************************************)
(* A converted file is taken apart, its segments are perhaps signed, and   *)
(* stored in a wrapper; the wrapper is perhaps cut short, and then read    *)
(* front to back by scan_wrapper_stream (reader.rs), one box at a time,    *)
(* each segment going to segment_metafile (muxl metafile).                 *)
(***************************************************************************)
EXTENDS Convert, Presentation
LOCAL INSTANCE SequencesExt

CONSTANTS
  Extra,     \* tracks of a group of a later version, whose segments are stored too
  CutUpTo    \* bound: only files of at most so many bytes are cut short

ASSUME ArchiveAssumption == Extra \subseteq Track /\ CutUpTo \in Nat

VARIABLES
  stored,    \* the wrapper
  want,      \* the segments it was made of, with their places in it
  status,    \* "none", "stored", "scan", "ok" or "error"
  pos,       \* the cursor of the scan
  inStream,  \* in_stream
  left,      \* envelope_remaining, All when there is no envelope
  open,      \* seg_buf: where it starts, -1 before the first, and seg_has_muxl
  emitted    \* the segments handed on

scanVars == <<status, pos, inStream, left, open, emitted>>
avars == <<vars, stored, want, scanVars>>

ArchiveInit ==
  /\ Init
  /\ stored = EmptyFile
  /\ want = <<>>
  /\ status = "none"
  /\ pos = 0
  /\ inStream = FALSE
  /\ left = All
  /\ open = NoneOpen
  /\ emitted = <<>>

-----------------------------------------------------------------------------
(* The wrapper.                                                            *)

\* A segment of a group this version cannot interpret.
OpaqueSegment(id) ==
  LET body == [seq |-> 1, trafs |-> <<[track |-> id, tfdt |-> 0, offset |-> TRUE,
                                       at |-> MoofLen[FALSE] + MdatHeader,
                                       samples |-> <<[dur |-> 1, size |-> 1, sync |-> TRUE,
                                                      cts |-> 0]>>]>>]
      catalog == [rend |-> <<"text", id>> :> [track |-> id, scale |-> 1, codec |-> "text"],
                  display |-> NoDisplay]
  IN  AddAtom(AddAtom(AddAtom(EmptyFile, Atom("muxl", 8, PrefixLen[id], catalog)),
                      Atom("moof", 8, MoofLen[FALSE], body)),
              Atom("mdat", 8, MdatHeader + 1, [data |-> 0]))

\* The segments to store: some signed, perhaps those of a second input that is
\* the same, and perhaps one of a later version.
Chosen(mine, again, extra, n) ==
  IF again THEN mine \o mine
  ELSE IF extra = {} THEN mine
  ELSE SubSeq(mine, 1, n) \o <<OpaqueSegment(CHOOSE id \in extra : TRUE)>>
         \o SubSeq(mine, n + 1, Len(mine))

SignSome(segments, signed) ==
  [i \in DOMAIN segments |-> IF i \in signed THEN Signed(segments[i]) ELSE segments[i]]

\* A box that a signer of the whole file puts ahead of the moov.
Sealed(file) ==
  LET lead == Chain(file, 0, file.size).at[2]
  IN  AddFile(AddAtom(Extract(file, 0, lead), Atom("c2pa", 8, C2paLen, Nothing)),
              Extract(file, lead, file.size))

IsDeclared(segment) == IsKnown(FirstTrack(TracksOf(CatalogOf(segment).catalog)))

Wrapped(form, agg, segments) ==
  CASE form = "bare" -> AddFiles(EmptyFile, segments)
    [] form = "fmp4" -> WriteFmp4(agg, segments)
    [] form = "flat" -> WriteFlatFromM4s(agg, segments)
    [] form = "sealed" -> Sealed(WriteFlatFromM4s(agg, segments))

\* Where segments at the end of a file are.
Places(file, segments) ==
  LET end[i \in 0..Len(segments)] ==
        IF i = 0 THEN file.size - SumSeq([j \in DOMAIN segments |-> segments[j].size])
        ELSE end[i - 1] + segments[i].size
  IN  [i \in DOMAIN segments |-> [from |-> end[i - 1], to |-> end[i]]]

\* The flat forms need a track that a moov can declare, and "fmp4" leaves out
\* the others.
StoreSegments(form, segments) ==
  /\ form \in {"flat", "sealed"} => \E i \in DOMAIN segments : IsDeclared(segments[i])
  /\ stored' = Wrapped(form, Aggregate(segments), segments)
  /\ want' = Places(stored', IF form = "fmp4" THEN SelectSeq(segments, IsDeclared) ELSE segments)

Store(form, signed, again, extra, n) ==
  /\ pc = "done"
  /\ status = "none"
  /\ \E found \in {Unwrap(out)} :
       /\ found.ok /\ n <= Len(found.segs)
       /\ StoreSegments(form, Chosen(SignSome(Slices(out, found.segs), signed), again, extra, n))
  /\ status' = "stored"
  /\ UNCHANGED <<vars, pos, inStream, left, open, emitted>>

\* The upload is cut short, at any byte.
Lose(n) ==
  /\ status = "stored"
  /\ stored.size <= CutUpTo
  /\ stored' = CutFile(stored, n)
  /\ status' = "scan"
  /\ UNCHANGED <<vars, want, pos, inStream, left, open, emitted>>

Keep ==
  /\ status = "stored"
  /\ status' = "scan"
  /\ UNCHANGED <<vars, stored, want, pos, inStream, left, open, emitted>>

-----------------------------------------------------------------------------
(* scan_wrapper_stream.                                                    *)

Avail == stored.size - pos
AtEnd == (inStream /\ left = 0) \/ Avail = 0

\* next_box_header, which does not look at the body.
HeaderThere == Avail >= 8 /\ pos \in DOMAIN stored.head /\ Avail >= stored.head[pos].hlen
Here == stored.head[pos]
BodyThere == Here.len <= Avail

\* uuid_is_muxl, on the box that starts at p.
MuxlAt(p) ==
  /\ p \in DOMAIN stored.head
  /\ stored.head[p].kind = "muxl"
  /\ p + stored.head[p].hlen + 16 <= stored.size

UuidHere == Here.kind \in {"muxl", "c2pa"}

\* A slip: a c2pa box is framing wherever it is.
HeadsScanMuxlOnly == Here.kind = "moof" \/ MuxlAt(pos)

HeadsScan == Here.kind = "moof" \/ MuxlAt(pos) \/ (UuidHere /\ MuxlAt(pos + Here.len))

Fail ==
  /\ status' = "error"
  /\ UNCHANGED <<vars, stored, want, pos, inStream, left, open, emitted>>

\* The segment in the buffer is handed on.
Metadata(seg) == Metafile(Extract(stored, seg.from, seg.to))
Buffered == [from |-> open.from, to |-> pos]

HeaderTorn == status = "scan" /\ ~AtEnd /\ ~HeaderThere /\ Fail

Locating == status = "scan" /\ ~AtEnd /\ HeaderThere /\ ~inStream

\* A slip: the cursor moves before the bytes are there.
SkipFramingBlind ==
  /\ Locating
  /\ Here.kind # "mdat" /\ ~HeadsScan
  /\ pos' = pos + Here.len
  /\ UNCHANGED <<vars, stored, want, status, inStream, left, open, emitted>>

SkipFraming ==
  /\ Locating
  /\ Here.kind # "mdat" /\ ~HeadsScan
  /\ BodyThere
  /\ pos' = pos + Here.len
  /\ UNCHANGED <<vars, stored, want, status, inStream, left, open, emitted>>

FramingTorn ==
  /\ Locating
  /\ Here.kind # "mdat" /\ ~HeadsScan
  /\ ~BodyThere
  /\ Fail

EnterEnvelope ==
  /\ Locating
  /\ Here.kind = "mdat"
  /\ inStream' = TRUE
  /\ left' = Here.len - Here.hlen
  /\ pos' = pos + Here.hlen
  /\ UNCHANGED <<vars, stored, want, status, open, emitted>>

EnterStream ==
  /\ Locating
  /\ HeadsScan
  /\ inStream' = TRUE
  /\ left' = All
  /\ UNCHANGED <<vars, stored, want, status, pos, open, emitted>>

\* The box joins the buffer, after the segment before it was handed on.  A box
\* that is cut off, or longer than its envelope, is an error all the same.
TakeBox ==
  /\ status = "scan" /\ ~AtEnd /\ HeaderThere /\ inStream
  /\ LET isMuxl  == MuxlAt(pos)
         started == open.from >= 0
         cut     == UuidHere /\ OpensSegment(started, open.muxl, isMuxl)
         handed  == cut => Metadata(Buffered).ok
         fits    == BodyThere /\ (left = All \/ Here.len <= left)
     IN  /\ emitted' = IF cut /\ handed THEN Append(emitted, Buffered) ELSE emitted
         /\ status' = IF (UuidHere \/ started) /\ handed /\ fits THEN "scan" ELSE "error"
         /\ open' = IF ~UuidHere THEN open
                    ELSE [from |-> IF cut \/ ~started THEN pos ELSE open.from,
                          muxl |-> isMuxl \/ (open.muxl /\ ~cut)]
         /\ pos' = IF fits THEN pos + Here.len ELSE pos
         /\ left' = IF left = All \/ ~fits THEN left ELSE left - Here.len
  /\ UNCHANGED <<vars, stored, want, inStream>>

\* A slip: the buffer is left behind.
EndDropsLast ==
  /\ status = "scan" /\ AtEnd
  /\ status' = "ok"
  /\ UNCHANGED <<vars, stored, want, pos, inStream, left, open, emitted>>

\* The end of the envelope or of the input closes the last segment.
EndOfScan ==
  /\ status = "scan" /\ AtEnd
  /\ LET last   == open.from >= 0
         handed == last => Metadata(Buffered).ok
     IN  /\ emitted' = IF last /\ handed THEN Append(emitted, Buffered) ELSE emitted
         /\ status' = IF handed THEN "ok" ELSE "error"
  /\ UNCHANGED <<vars, stored, want, pos, inStream, left, open>>

ArchiveNext ==
  \/ Next /\ UNCHANGED <<stored, want, scanVars>>
  \/ \E form \in {"bare", "fmp4", "flat", "sealed"}, extra \in {{}, Extra} :
       \E signed \in {{}, {2, 3}, 1..Len(slots)}, n \in 0..Len(slots), again \in BOOLEAN :
         /\ extra = {} \/ again => n = 0
         /\ again => extra = {}
         /\ \A k \in DOMAIN source.plans : source.plans[k].track \notin extra
         /\ Store(form, signed, again, extra, n)
  \/ Keep
  \/ \E n \in 0..(stored.size - 1) : Lose(n)
  \/ HeaderTorn \/ SkipFraming \/ FramingTorn \/ EnterEnvelope \/ EnterStream
  \/ TakeBox \/ EndOfScan

ArchiveSpec == ArchiveInit /\ [][ArchiveNext]_avars

-----------------------------------------------------------------------------
(* Properties.                                                             *)

Over  == status \in {"ok", "error"}
Whole == want # <<>> /\ stored.size = want[Len(want)].to

\* What a file is: boxes with a header of 8 or 16 bytes, which their length
\* counts, and a uuid box of MUXL has room for its id.
Boxed(file) ==
  /\ file.size \in Nat
  /\ \A p \in DOMAIN file.head :
       LET box == file.head[p]
       IN  /\ p \in Nat /\ box.hlen \in {8, 16} /\ box.len \in Nat
           /\ box.hlen <= box.len
           /\ box.kind = "muxl" => box.hlen + 16 <= box.len

\* Type correctness of the conversion, of the wrapper and of the scan.
ArchiveTypeOK ==
  /\ TypeOK
  /\ Boxed(stored)
  /\ status \in {"none", "stored", "scan", "ok", "error"}
  /\ pos \in 0..stored.size
  /\ left \in Nat \cup {All}
  /\ open.from \in -1..pos /\ open.muxl \in BOOLEAN
  /\ \A i \in DOMAIN emitted : emitted[i].from < emitted[i].to /\ emitted[i].to <= stored.size

\* reader.rs scan_wrapper_stream and unwrap: from a wrapper that is whole both
\* recover the segments that were stored, signatures and tracks of a later
\* version included, and nothing else.
CompleteIsRead ==
  Over /\ Whole =>
    /\ status = "ok"
    /\ emitted = want
    /\ Unwrap(stored) = [ok |-> TRUE, segs |-> want]

\* reader.rs:584, "the streaming twin": on a file cut anywhere, the two scans
\* may not both accept it and find different segments.
ScanMatchesUnwrap ==
  status = "ok" /\ Unwrap(stored).ok => emitted = Unwrap(stored).segs

\* reader.rs:562: the two scans accept the same files.
TwinsAccept == Over => (status = "ok" <=> Unwrap(stored).ok)

\* reader.rs scan_wrapper_stream: whatever is cut off, what was handed on is
\* the stored segments from the first on, verbatim.  Only the last one may be
\* short, by whole boxes, and then it ends where the file does; that is so in
\* an envelope too, which the scan does not expect to be full.
NothingTorn ==
  /\ Len(emitted) <= Len(want)
  /\ \A i \in DOMAIN emitted :
       \/ emitted[i] = want[i]
       \/ /\ status = "ok" /\ i = Len(emitted)
          /\ emitted[i] = [from |-> want[i].from, to |-> stored.size]

\* reader.rs read_segments_at, segment_stream_start: from the start of every
\* segment, in the file or counted from the first one, and for every count,
\* random access returns the bytes the scan has found there, and refuses a
\* count the stream does not hold.
SeekMatchesScan ==
  Over /\ Whole =>
    \A i \in DOMAIN emitted, n \in {All} \cup 1..(Len(emitted) + 1), fromStream \in BOOLEAN :
      LET last  == IF n = All THEN Len(emitted) ELSE i + n - 1
          place == IF fromStream THEN emitted[i].from - emitted[1].from ELSE emitted[i].from
          Expected(read) ==
            IF last > Len(emitted) THEN ~read.ok
            ELSE read = [ok |-> TRUE, from |-> emitted[i].from, to |-> emitted[last].to]
      IN  Expected(ReadSegmentsAt(stored, fromStream, place, n))

Handed == Slices(stored, emitted)

\* Every co64 entry is where a fragment of its track has its payload.
PointsAtBody(file) ==
  \A i \in DOMAIN MoovOf(file).traks :
    LET read == ReadStbl(MoovOf(file).traks[i].stbl)
        fs   == FragmentsOf(file, MoovOf(file).traks[i].track)
    IN  /\ Len(read) = Len(fs)
        /\ \A j \in DOMAIN fs :
             /\ read[j].at = fs[j].from + file.head[fs[j].from].len + MdatHeader
             /\ read[j].size = fs[j].sample.size

\* present.rs write_flat_from_m4s: a flat file of the segments as they were
\* stored, signed or not, with a track the moov leaves out or not, has a
\* header whose every entry is right; and the metadata of a signed segment is
\* what the signer made of that of the segment without its signature.
M4sHeaderPoints ==
  status = "ok" /\ Whole =>
    /\ M4sHeader(Aggregate(Handed), Handed).ok
    /\ PointsAtBody(WriteFlatFromM4s(Aggregate(Handed), Handed))
    /\ \A i \in DOMAIN emitted :
         stored.head[emitted[i].from].kind = "c2pa" =>
           Metadata(emitted[i]) =
             MetaWhenSigned(Metadata([emitted[i] EXCEPT !.from = @ + C2paLen]))

\* Every GoP holds a segment of every track.
GopsFull(gops) ==
  LET ids == UNION {DOMAIN gops[g].bytes : g \in DOMAIN gops}
  IN  \A g \in DOMAIN gops : DOMAIN gops[g].bytes = ids

\* present.rs:97 and 138, "byte-identical", and metafile.rs: from the unsigned
\* segments of a flat file, their GoPs or their metafiles comes the same file.
\* GoPs need the start of every track from the caller, segments all tracks in
\* the first GoP, and metafiles all tracks in every GoP.
SameAsDirect ==
  status = "ok" /\ Whole /\ job.form = "flat" /\ Handed = Slices(out, Unwrap(out).segs) =>
    LET metas == [i \in DOMAIN emitted |-> Metadata(emitted[i])]
        gops  == RegroupAscending(metas)
        ids   == {metas[i].track : i \in DOMAIN metas}
        starts == [id \in ids |->
                     source.plans[CHOOSE k \in DOMAIN source.plans :
                                    source.plans[k].track = id].start]
        Makes(header) == header.ok /\ AddFiles(HeaderFile(header), Handed) = out
    IN  /\ Makes(GopsHeader(Aggregate(Handed), gops, starts))
        /\ DOMAIN gops[1].bytes = ids => Makes(M4sHeader(Aggregate(Handed), Handed))
        /\ GopsFull(gops) => Makes(MetafileHeader(metas))

\* metafile.rs:6: the metafiles of any contiguous range of segments give a
\* header that is exact for those segments.
AnyRangePlays ==
  status = "ok" /\ Whole =>
    \A i, j \in DOMAIN emitted :
      LET header == MetafileHeader([k \in 1..(j - i + 1) |-> Metadata(emitted[i + k - 1])])
      IN  i <= j /\ header.ok => PointsAtBody(AddFiles(HeaderFile(header), SubSeq(Handed, i, j)))
=============================================================================
