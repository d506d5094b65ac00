---------------------------- MODULE SampleTable ----------------------------
(***************************************************************************)
(* The sample tables of a trak: how a flat MP4 is read (fragment.rs,       *)
(* extract_flat_track_info) and how the canonical one is written (flat.rs, *)
(* populate_stbl).  A sample is [dur, size, sync, cts, at]; `at` is where  *)
(* its bytes are in the file the table belongs to.                         *)
(***************************************************************************)
EXTENDS Integers, Sequences
LOCAL INSTANCE SequencesExt

\* A table: runs of durations and of composition offsets, sizes, chunk runs
\* [first, per], chunk offsets, and the set of sync samples.  `hasCts` and
\* `hasSync` say whether the ctts and stss boxes are there.
NoTable == [stts |-> <<>>, hasCts |-> FALSE, ctts |-> <<>>, stsz |-> <<>>,
            stsc |-> <<>>, chunks |-> <<>>, hasSync |-> FALSE, stss |-> {}]

\* Run-length encoding.
Runs(values) ==
  LET runs[i \in 0..Len(values)] ==
        LET before == runs[i - 1]
        IN  IF i = 0 THEN <<>>
            ELSE IF i > 1 /\ values[i] = values[i - 1]
            THEN [before EXCEPT ![Len(before)].count = @ + 1]
            ELSE Append(before, [count |-> 1, value |-> values[i]])
  IN  runs[Len(values)]

\* The first n values of the runs.
Expand(runs, n) ==
  LET all == FlattenSeq([i \in DOMAIN runs |-> [j \in 1..runs[i].count |-> runs[i].value]])
  IN  SubSeq(all, 1, IF n < Len(all) THEN n ELSE Len(all))

Field(samples, F(_)) == [i \in DOMAIN samples |-> F(samples[i])]

\* Each sample is alone in its mdat, so it is a chunk of its own.  A video
\* track whose samples are all sync, or none, gets no stss.
PopulateStbl(plan, offsets) ==
  LET s     == plan.samples
      cts   == Field(s, LAMBDA x : x.cts)
      syncs == {i \in DOMAIN s : s[i].sync}
      some  == plan.video /\ syncs # {} /\ syncs # DOMAIN s
      anyCts == \E i \in DOMAIN s : s[i].cts # 0
  IN  [stts    |-> Runs(Field(s, LAMBDA x : x.dur)),
       hasCts  |-> anyCts,
       ctts    |-> IF anyCts THEN Runs(cts) ELSE <<>>,
       stsz    |-> Field(s, LAMBDA x : x.size),
       stsc    |-> IF s = <<>> THEN <<>> ELSE <<[first |-> 1, per |-> 1]>>,
       chunks  |-> offsets,
       hasSync |-> some,
       stss    |-> IF some THEN syncs ELSE {}]

\* The chunks in the order they are visited, each with its number of samples:
\* a run of the stsc ends where the next one begins or with the last chunk,
\* and a chunk that does not exist ends its run.
ChunkVisits(stsc, count) ==
  LET Until(i) == IF i < Len(stsc) /\ stsc[i + 1].first <= count THEN stsc[i + 1].first
                                                                 ELSE count + 1
      Run(i)   == IF stsc[i].first < 1 THEN <<>>
                  ELSE [j \in 1..(Until(i) - stsc[i].first) |->
                          [chunk |-> stsc[i].first + j - 1, per |-> stsc[i].per]]
      upTo[i \in 0..Len(stsc)] == IF i = 0 THEN <<>> ELSE upTo[i - 1] \o Run(i)
  IN  upTo[Len(stsc)]

\* A slip: the samples of a chunk are all placed at its start.
ChunkStarts(stsc, chunks, sizes) ==
  FoldLeft(LAMBDA offs, v :
             offs \o [j \in 1..(IF v.per < Len(sizes) - Len(offs)
                                THEN v.per ELSE Len(sizes) - Len(offs)) |-> chunks[v.chunk]],
           <<>>, ChunkVisits(stsc, Len(chunks)))

\* Where each sample starts: one after the other in its chunk.
ResolveSampleOffsets(stsc, chunks, sizes) ==
  LET visits == ChunkVisits(stsc, Len(chunks))
      Count(v, n) == IF v.per < Len(sizes) - n THEN v.per ELSE Len(sizes) - n
      InChunk(v, n) ==
        LET start[j \in 1..Count(v, n)] == IF j = 1 THEN chunks[v.chunk]
                                            ELSE start[j - 1] + sizes[n + j - 1]
        IN  start
      offs[i \in 0..Len(visits)] ==
        LET done == offs[i - 1]
        IN  IF i = 0 THEN <<>> ELSE done \o InChunk(visits[i], Len(done))
  IN  offs[Len(visits)]

\* The tables that are read without an error.
TableOk(stbl) == stbl.stsz = <<>> \/ stbl.stsc # <<>>

\* extract_flat_track_info, on a table that describes every sample.
ReadStbl(stbl) ==
  LET n    == Len(stbl.stsz)
      durs == Expand(stbl.stts, n)
      cts  == IF stbl.hasCts THEN Expand(stbl.ctts, n) ELSE [i \in 1..n |-> 0]
      offs == ResolveSampleOffsets(stbl.stsc, stbl.chunks, stbl.stsz)
  IN  [i \in 1..n |->
         [dur |-> durs[i], size |-> stbl.stsz[i],
          sync |-> stbl.hasSync => i \in stbl.stss, cts |-> cts[i], at |-> offs[i]]]
=============================================================================
