---------------------------- MODULE Presentation ----------------------------
(***************************************************************************)
(* Canonical segments put into presentations (present.rs) and described by *)
(* metafiles (metafile.rs).  A segment is the file of its own bytes, so    *)
(* that a signed segment is one that begins with a c2pa box.               *)
(***************************************************************************)
EXTENDS CanonicalBody
LOCAL INSTANCE SequencesExt
LOCAL INSTANCE FiniteSetsExt

\* The bytes of a file from one offset to another.
Extract(file, from, to) ==
  [head |-> [o \in {p - from : p \in {q \in DOMAIN file.head : from <= q /\ q < to}} |->
               file.head[o + from]],
   size |-> to - from]

AddFile(file, part) ==
  [head |-> [o \in DOMAIN file.head \cup {p + file.size : p \in DOMAIN part.head} |->
               IF o < file.size THEN file.head[o] ELSE part.head[o - file.size]],
   size |-> file.size + part.size]

AddFiles(file, parts) == FoldLeft(AddFile, file, parts)

Slices(file, segs) == [i \in DOMAIN segs |-> Extract(file, segs[i].from, segs[i].to)]

\* A signer puts a box ahead of the segment and leaves its bytes alone.
Signed(segment) == AddFile(AddAtom(EmptyFile, Atom("c2pa", 8, C2paLen, Nothing)), segment)

CatalogOf(segment) == FromSegment(segment, [from |-> 0, to |-> segment.size])

\* aggregate_catalog.
Aggregate(segments) ==
  FoldLeft(MergeCatalog, EmptyCatalog, [i \in DOMAIN segments |-> CatalogOf(segments[i]).catalog])

-----------------------------------------------------------------------------
(* segment_index: one sample in each moof, wherever its moof stands.       *)

\* A slip: offsets are counted from the uuid box of MUXL.
IndexUnsigned(segment, moofs) ==
  LET lead == Min(DOMAIN segment.head \ {p \in DOMAIN segment.head : segment.head[p].kind = "c2pa"})
  IN  [i \in DOMAIN moofs |-> moofs[i] - lead + segment.head[moofs[i]].len + MdatHeader]

\* Where the samples are, counted from the first byte of the segment.
IndexOffsets(segment, moofs) ==
  [i \in DOMAIN moofs |-> moofs[i] + segment.head[moofs[i]].len + MdatHeader]

IndexOfMoofs(segment, moofs) ==
  LET Traf(i) == segment.head[moofs[i]].body.trafs[1]
      S(i)  == Traf(i).samples[1]
      n     == Len(moofs)
      Empty(i) == \/ segment.head[moofs[i]].body.trafs = <<>>
                  \/ Traf(i).samples = <<>>
  IN  IF moofs = <<>> \/ \E i \in DOMAIN moofs : Empty(i) THEN [ok |-> FALSE]
      ELSE [ok    |-> TRUE,
            track |-> Traf(n).track,
            first |-> IF Traf(1).tfdt = NoTfdt THEN 0 ELSE Traf(1).tfdt,
            index |-> [durs  |-> [i \in 1..n |-> S(i).dur],
                       sizes |-> [i \in 1..n |-> S(i).size],
                       ctss  |-> [i \in 1..n |-> S(i).cts],
                       syncs |-> {i \in 1..n : S(i).sync},
                       offs  |-> IndexOffsets(segment, moofs)]]

\* A box that is cut off is an error.
SegmentIndex(segment) ==
  LET Moofs(chain) == SelectSeq(chain.at, LAMBDA p : chain.ok /\ segment.head[p].kind = "moof")
  IN  IndexOfMoofs(segment, Moofs(Chain(segment, 0, segment.size)))

\* segment_metafile: [ok, catalog, track, first, index, bytes].
Metafile(segment) ==
  LET Meta(x, c) == IF ~x.ok \/ ~c.ok THEN [ok |-> FALSE]
                    ELSE [ok |-> TRUE, catalog |-> c.catalog, track |-> x.track,
                          first |-> x.first, index |-> x.index, bytes |-> segment.size]
  IN  Meta(SegmentIndex(segment), CatalogOf(segment))

\* sign_gop_canonical_segments_in_place: the metadata a signing stream sends
\* with a segment it has signed.
MetaWhenSigned(meta) ==
  [meta EXCEPT !.index.offs = [i \in DOMAIN @ |-> @[i] + C2paLen], !.bytes = @ + C2paLen]

-----------------------------------------------------------------------------
(* Segments regrouped into GoPs.                                           *)

NoMeta == [bytes |-> <<>>, index |-> <<>>, first |-> <<>>]

\* A slip: the start of the track is forgotten.
PutUntimed(meta, x) ==
  [meta EXCEPT !.bytes = (x.track :> x.bytes) @@ @, !.index = (x.track :> x.index) @@ @]

Put(meta, x) ==
  [bytes |-> (x.track :> x.bytes) @@ meta.bytes,
   index |-> (x.track :> x.index) @@ meta.index,
   first |-> (x.track :> x.first) @@ meta.first]

\* write_flat_from_m4s: an id that does not ascend opens a GoP.
RegroupAscending(xs) ==
  FoldLeft(LAMBDA gops, i :
             IF i = 1 \/ xs[i].track <= xs[i - 1].track
             THEN Append(gops, Put(NoMeta, xs[i]))
             ELSE [gops EXCEPT ![Len(gops)] = Put(@, xs[i])],
           <<>>, [i \in DOMAIN xs |-> i])

\* synthesize_flat_header: an id that is repeated opens a GoP.
RegroupRepeated(xs) ==
  FoldLeft(LAMBDA gops, i :
             IF i = 1 \/ xs[i].track \in DOMAIN gops[Len(gops)].bytes
             THEN Append(gops, Put(NoMeta, xs[i]))
             ELSE [gops EXCEPT ![Len(gops)] = Put(@, xs[i])],
           <<>>, [i \in DOMAIN xs |-> i])

-----------------------------------------------------------------------------
(* The presentations.                                                      *)

\* write_fmp4: the segments of tracks that the moov declares.
WriteFmp4(catalog, segments) ==
  AddFiles(InitFile(catalog),
           SelectSeq(segments, LAMBDA s : IsKnown(FirstTrack(TracksOf(CatalogOf(s).catalog)))))

\* write_flat: the GoPs of a segmenter, timed by its caller.
GopsHeader(catalog, gops, firsts) ==
  SynthHeader(catalog, [g \in DOMAIN gops |->
    [gops[g] EXCEPT !.first = IF g = 1 THEN firsts ELSE <<>>]])

\* write_flat_from_m4s.
M4sHeader(catalog, segments) ==
  LET xs == [i \in DOMAIN segments |-> SegmentIndex(segments[i])]
      Meta(x, bytes) == [track |-> x.track, first |-> x.first, index |-> x.index, bytes |-> bytes]
  IN  IF \E i \in DOMAIN xs : ~xs[i].ok THEN NoHeader
      ELSE SynthHeader(catalog, RegroupAscending([i \in DOMAIN xs |->
                                  Meta(xs[i], segments[i].size)]))

WriteFlatFromM4s(catalog, segments) ==
  AddFiles(HeaderFile(M4sHeader(catalog, segments)), segments)

\* synthesize_flat_header, from metafiles alone.  Its loop takes the tracks of a
\* metafile by id, so one of several tracks is given as that many metafiles.
MetafileHeader(metafiles) ==
  IF metafiles = <<>> THEN NoHeader
  ELSE SynthHeader(FoldLeft(MergeCatalog, EmptyCatalog,
                            [i \in DOMAIN metafiles |-> metafiles[i].catalog]),
                   RegroupRepeated(metafiles))
=============================================================================
