------------------------------- MODULE GopCut -------------------------------
(***************************************************************************)
(* The data and the pure helpers that the push segmenter (push.rs) and the *)
(* pull segmenter (segment.rs) share: the boxes of an fMP4 stream, the     *)
(* minting of one-sample fragments, and the accumulator that cuts minted   *)
(* fragments into GoPs.                                                    *)
(*                                                                         *)
(* Lengths are in bytes, times in the track's own timescale.  A sample's   *)
(* payload is identified by where it sits in the input: the index of its   *)
(* mdat box and its offset after the 8 bytes of the mdat's short header.   *)
(***************************************************************************)
EXTENDS Integers, Sequences, FiniteSets

CONSTANTS
  Track,      \* the track ids of the input and of the output
  Remap,      \* --remap-track: output id of each input id, itself by default
  MoofLen,    \* length of a minted moof; it is longer with a composition offset
  PrefixLen   \* length of the uuid box that opens a segment of each track

ASSUME TrackAssumption  == Track \subseteq Nat /\ IsFiniteSet(Track)
ASSUME LengthAssumption == /\ MoofLen \in [BOOLEAN -> Nat \ {0}]
                           /\ PrefixLen \in [Track -> Nat \ {0}]
\* Two input tracks are never given one output id: an id is remapped to
\* a free one (catalog.rs, remap_track_ids).
ASSUME RemapAssumption  == /\ Remap \in [Track -> Track]
                           /\ \A t, u \in Track : Remap[t] = Remap[u] => t = u

MdatHeader == 8

-----------------------------------------------------------------------------
(* The input.                                                              *)

\* What the moov says: which tracks are video, and each track's timescale
\* (0 for a track the moov does not describe).
Catalog == [video : SUBSET Track, scale : [Track -> Nat]]

\* A moof read in file order: a traf with a tfdt sets its track's clock,
\* each trun says where its data starts, counted from the end of a short mdat
\* header, or leaves the data offset out, and each of its entries is a sample.
Step == [op : {"tfdt"}, track : Track, time : Nat]
        \cup [op : {"trun"}, offset : BOOLEAN, at : Int]
        \cup [op : {"sample"}, track : Track, dur : Nat, size : Nat,
              sync : BOOLEAN, cts : BOOLEAN]

\* `large` is an mdat whose size is in the 64-bit field though it is small;
\* `ok` is FALSE for a box whose body does not parse; an "open" box has size
\* 0, to the end of the file.
Box == [kind : {"moov"}, ok : BOOLEAN, catalog : Catalog]
       \cup [kind : {"moof"}, ok : BOOLEAN, steps : Seq(Step)]
       \cup [kind : {"mdat"}, len : Nat, large : BOOLEAN]
       \cup [kind : {"other", "open"}]

-----------------------------------------------------------------------------
(* Minting, process_moof_mdat and write_frame_fragment (fragment.rs).      *)

\* A minted fragment: one sample in a moof of its own.
Frame == [track : Track, seq : Nat, tfdt : Nat, dur : Nat, size : Nat,
          moof : Nat, sync : BOOLEAN, data : Nat \X Int]

\* TrackProgress, kept per input track.
Progress == [time : Nat, count : Nat]

StartClock == [t \in Track |-> [time |-> 0, count |-> 0]]

SetDecodeTime(clock, s) == [clock EXCEPT ![s.track].time = s.time]

\* Where the data of a trun starts: at 0 when it has no data offset.
TrunStart(s) == IF s.offset THEN s.at ELSE 0

\* The sample at `at` lies within the `len` bytes taken for the payload.
InMdat(s, at, len) == at + s.size <= len

\* A plausible slip: counting fragments for the whole stream, as
\* spec/open-questions.md says earlier versions did.
MintGlobalSeq(clock, s, data) ==
  [track |-> Remap[s.track],
   seq   |-> (CHOOSE n \in {clock[t].count : t \in Track} :
                 \A t \in Track : clock[t].count <= n) + 1,
   tfdt  |-> clock[s.track].time, dur |-> s.dur, size |-> s.size,
   moof  |-> MoofLen[s.cts], sync |-> s.sync, data |-> data]

MintFrame(clock, s, data) ==
  [track |-> Remap[s.track],
   seq   |-> clock[s.track].count + 1,
   tfdt  |-> clock[s.track].time,
   dur   |-> s.dur,
   size  |-> s.size,
   moof  |-> MoofLen[s.cts],
   sync  |-> s.sync,
   data  |-> data]

Advance(clock, s) ==
  [clock EXCEPT ![s.track] = [time |-> @.time + s.dur, count |-> @.count + 1]]

FrameLen(f) == f.moof + MdatHeader + f.size

-----------------------------------------------------------------------------
(* The accumulator of segment.rs: the parallel maps track_bufs,            *)
(* track_durations, track_sample_counts and track_samples.                 *)

TrackBuf == [frames : Seq(Frame), len : Nat, dur : Nat,
             offs : Seq(Nat), syncs : SUBSET Nat]

EmptyBuf == [frames |-> <<>>, len |-> 0, dur |-> 0, offs |-> <<>>, syncs |-> {}]
NoBufs   == [t \in Track |-> EmptyBuf]

Present(bufs) == {t \in Track : bufs[t].frames # <<>>}

\* A slip: the offset of the sample, taken without the mdat header.
RecordNoHeader(bufs, f) ==
  [bufs EXCEPT ![f.track] =
    [frames |-> Append(@.frames, f),
     len    |-> @.len + FrameLen(f),
     dur    |-> @.dur + f.dur,
     offs   |-> Append(@.offs, @.len + f.moof),
     syncs  |-> @.syncs]]

RecordFrame(bufs, f) ==
  [bufs EXCEPT ![f.track] =
    [frames |-> Append(@.frames, f),
     len    |-> @.len + FrameLen(f),
     dur    |-> @.dur + f.dur,
     offs   |-> Append(@.offs, @.len + f.moof + MdatHeader),
     syncs  |-> IF f.sync THEN @.syncs \cup {Len(@.frames) + 1} ELSE @.syncs]]

\* One track's part of a GopSegment: the uuid prefix and the fragments.
Segment == [frames : Seq(Frame), len : Nat, dur : Nat,
            offs : Seq(Nat), syncs : SUBSET Nat, start : Nat]

SegmentOf(buf, t) ==
  [frames |-> buf.frames,
   len    |-> PrefixLen[t] + buf.len,
   dur    |-> buf.dur,
   offs   |-> [i \in 1..Len(buf.offs) |-> buf.offs[i] + PrefixLen[t]],
   syncs  |-> buf.syncs,
   start  |-> buf.frames[1].tfdt]

\* A track with no entry in the map `tracks` has the empty segment here.
NoSegment == [frames |-> <<>>, len |-> 0, dur |-> 0, offs |-> <<>>,
              syncs |-> {}, start |-> 0]

Gop == [number : Nat, tracks : [Track -> Segment]]

GopOf(bufs, n) ==
  [number |-> n,
   tracks |-> [t \in Track |-> IF t \in Present(bufs) THEN SegmentOf(bufs[t], t)
                                                     ELSE NoSegment]]

\* A slip: exactly one second is not yet a second.
AudioBoundaryLate(bufs, catalog) ==
  \E t \in Present(bufs) :
    /\ \A u \in Present(bufs) : t <= u
    /\ catalog.scale[t] > 0
    /\ bufs[t].dur > catalog.scale[t]

\* Audio only: the next frame opens a GoP once the present track with the
\* smallest id has accumulated a second.
AudioOnlyBoundary(bufs, catalog) ==
  \E t \in Present(bufs) :
    /\ \A u \in Present(bufs) : t <= u
    /\ catalog.scale[t] > 0
    /\ bufs[t].dur >= catalog.scale[t]

IsVideoKeyframe(catalog, f) == f.track \in catalog.video /\ f.sync

\* A slip: every keyframe cuts, the first one too.
BoundaryAtEveryKeyframe(catalog, bufs, seen, f) ==
  IF catalog.video = {} THEN AudioOnlyBoundary(bufs, catalog)
                        ELSE IsVideoKeyframe(catalog, f)

Boundary(catalog, bufs, seen, f) ==
  IF catalog.video = {} THEN AudioOnlyBoundary(bufs, catalog)
                        ELSE IsVideoKeyframe(catalog, f) /\ seen

\* Catalog::remap_track_ids on the catalog read from the moov.
RemapCatalog(c) ==
  [video |-> {Remap[t] : t \in c.video},
   scale |-> [u \in Track |->
                IF \E t \in Track : Remap[t] = u
                THEN c.scale[CHOOSE t \in Track : Remap[t] = u]
                ELSE 0]]

-----------------------------------------------------------------------------
(* Reference, for the properties.                                          *)

\* Where the payload stands after each step of a moof: a trun without an
\* offset goes on where the one before it ended.
PayloadAfter(steps) ==
  LET at[k \in 0..Len(steps)] ==
        IF k = 0 THEN 0
        ELSE CASE steps[k].op = "tfdt"   -> at[k - 1]
               [] steps[k].op = "trun"   -> IF steps[k].offset THEN steps[k].at ELSE at[k - 1]
               [] steps[k].op = "sample" -> at[k - 1] + steps[k].size
  IN  at
=============================================================================
