---------------------------- MODULE CanonicalBody ----------------------------
(***************************************************************************)
(* What the random-access writers compute before they touch a sample       *)
(* (flat.rs): the sample plan of an input, its partition into GoPs by      *)
(* time, the metadata of each GoP and the header synthesized from it.      *)
(*                                                                         *)
(* A plan is a sequence of tracks by id, each [track, video, scale, start, *)
(* samples] with the samples of SampleTable.  The index of a segment is    *)
(* [durs, sizes, ctss, syncs, offs], and the metadata of a GoP is          *)
(* [bytes, index, first], functions of the tracks it has.                  *)
(***************************************************************************)
EXTENDS GopCut, Wrapper, SampleTable
LOCAL INSTANCE SequencesExt
LOCAL INSTANCE FiniteSetsExt

SumSeq(s) ==
  LET sum[i \in 0..Len(s)] == IF i = 0 THEN 0 ELSE sum[i - 1] + s[i]
  IN  sum[Len(s)]

\* The plan of a track, and those of an input: by id, one for each track.
TrackPlan == [track : Track, video : BOOLEAN, scale : Nat, start : Nat,
              samples : Seq([dur : Nat, size : Nat, sync : BOOLEAN, cts : Int, at : Nat])]

Planned(plans) ==
  /\ plans \in Seq(TrackPlan)
  /\ \A i, j \in DOMAIN plans : i < j => plans[i].track < plans[j].track

ById(plans) == SortSeq(plans, LAMBDA p, q : p.track < q.track)

-----------------------------------------------------------------------------
(* Reading an input.                                                       *)

\* The boxes of an input, where they start, by their headers alone: the last
\* one may be cut off, and a header that is cut off is an error.
TopBoxes(file) ==
  LET walk[pos \in 0..file.size] ==
        LET rest == walk[Min({pos + file.head[pos].len, file.size})]
        IN  IF pos = file.size THEN [ok |-> TRUE, at |-> <<>>]
            ELSE IF pos \notin DOMAIN file.head \/ pos + file.head[pos].hlen > file.size
                 THEN [ok |-> FALSE, at |-> <<>>]
            ELSE [ok |-> rest.ok, at |-> <<pos>> \o rest.at]
  IN  walk[0]

\* A box that is read and not passed over must be there in full.
InFull(file, p) == p + file.head[p].len <= file.size

\* A moof is found before the end of the file, or it is a flat MP4.
IsFmp4(file) == \E p \in ToSet(TopBoxes(file).at) : file.head[p].kind = "moof"

MoovAt(file)  == {p \in DOMAIN file.head : file.head[p].kind = "moov"}
MoovOf(file)  == file.head[CHOOSE p \in MoovAt(file) : \A q \in MoovAt(file) : p <= q].body

VideoIds(cat) == {cat.rend[k].track : k \in {j \in DOMAIN cat.rend : j[1] = "video"}}

\* read_moov, which stops at the moov.
HasMoov(file) ==
  \E p \in MoovAt(file) \cap ToSet(TopBoxes(file).at) : InFull(file, p)

\* Every trak gets a plan, those the catalog leaves out too.
PlanOfTrak(cat, trak, start, samples) ==
  [track |-> trak.track, video |-> trak.track \in VideoIds(cat), scale |-> trak.scale,
   start |-> start, samples |-> samples]

NoPlans == [ok |-> FALSE, catalog |-> EmptyCatalog, plans |-> <<>>]

PlanFromFlat(moov) ==
  LET cat == CatalogFromMoov(moov)
      Plan(trak) == PlanOfTrak(cat, trak, StartOffset(trak, moov.scale), ReadStbl(trak.stbl))
  IN  IF \E i \in DOMAIN moov.traks : ~TableOk(moov.traks[i].stbl) THEN NoPlans
      ELSE [ok |-> TRUE, catalog |-> cat,
            plans |-> ById([i \in DOMAIN moov.traks |-> Plan(moov.traks[i])])]

\* The samples of a traf, whose data is counted from the start of its moof.  A
\* traf with several truns is given as one for each, the tfdt with the first:
\* the code reads the two alike.
TrafSamples(traf, moofAt) ==
  LET end[k \in 0..Len(traf.samples)] ==
        IF k = 0 THEN 0 ELSE end[k - 1] + traf.samples[k].size
  IN  [k \in DOMAIN traf.samples |->
         [dur |-> traf.samples[k].dur, size |-> traf.samples[k].size,
          sync |-> traf.samples[k].sync, cts |-> traf.samples[k].cts,
          at |-> moofAt + traf.at + end[k - 1]]]

NoTfdt == -1

\* A slip: the last tfdt of a track is kept instead of its first.
AddTrafLastTime(plans, traf, moofAt) ==
  [i \in DOMAIN plans |->
     IF plans[i].track # traf.track THEN plans[i]
     ELSE [plans[i] EXCEPT !.start = IF traf.tfdt # NoTfdt THEN traf.tfdt ELSE @,
                           !.samples = @ \o TrafSamples(traf, moofAt)]]

\* Only the tfdt ahead of the first sample of a track counts.
AddTraf(plans, traf, moofAt) ==
  [i \in DOMAIN plans |->
     IF plans[i].track # traf.track THEN plans[i]
     ELSE [plans[i] EXCEPT
             !.start = IF traf.tfdt # NoTfdt /\ plans[i].samples = <<>> THEN traf.tfdt ELSE @,
             !.samples = @ \o TrafSamples(traf, moofAt)]]

\* The box after a moof is passed over, whatever it is.
MoofsRead(file) ==
  FoldLeft(LAMBDA s, p : IF s.skip THEN [s EXCEPT !.skip = FALSE]
                         ELSE IF file.head[p].kind = "moof"
                         THEN [moofs |-> Append(s.moofs, p), skip |-> TRUE]
                         ELSE s,
           [moofs |-> <<>>, skip |-> FALSE], TopBoxes(file).at).moofs

\* A track must be known once there is a sample of it.
PlanFromFmp4(file) ==
  LET moov  == MoovOf(file)
      cat   == CatalogFromMoov(moov)
      empty == [i \in DOMAIN moov.traks |-> PlanOfTrak(cat, moov.traks[i], 0, <<>>)]
      moofs == MoofsRead(file)
      trafs == FlattenSeq([m \in DOMAIN moofs |->
                 [j \in DOMAIN file.head[moofs[m]].body.trafs |->
                    [traf |-> file.head[moofs[m]].body.trafs[j], moof |-> moofs[m]]]])
      HasTrak(traf) == \E i \in DOMAIN empty : empty[i].track = traf.track
  IN  [ok      |-> /\ TopBoxes(file).ok
                   /\ \A m \in DOMAIN moofs : InFull(file, moofs[m])
                   /\ \A j \in DOMAIN trafs :
                        /\ trafs[j].traf.offset
                        /\ trafs[j].traf.samples = <<>> \/ HasTrak(trafs[j].traf),
       catalog |-> cat,
       plans   |-> ById(FoldLeft(LAMBDA plans, x : AddTraf(plans, x.traf, x.moof),
                                 empty, trafs))]

\* read: the kind of input is detected, from all its headers up to a moof.
ReadSource(file) ==
  IF ~HasMoov(file) THEN NoPlans
  ELSE IF IsFmp4(file) THEN PlanFromFmp4(file)
  ELSE IF TopBoxes(file).ok THEN PlanFromFlat(MoovOf(file))
  ELSE NoPlans

\* Source::remap_track_ids.
RemapSource(source, map) ==
  [source EXCEPT
     !.catalog = RemapTrackIds(@, map),
     !.plans = ById([i \in DOMAIN @ |->
                       IF @[i].track \in DOMAIN map THEN [@[i] EXCEPT !.track = map[@]]
                                                    ELSE @[i]])]

-----------------------------------------------------------------------------
(* compute_gop_partition.                                                  *)

\* The decode time of each sample, and of the end.
DecodeTimes(plan) ==
  LET dt[i \in 1..(Len(plan.samples) + 1)] ==
        IF i = 1 THEN plan.start ELSE dt[i - 1] + plan.samples[i - 1].dur
  IN  dt

Micros(ticks, scale) == (ticks * 1000000) \div (IF scale = 0 THEN 1 ELSE scale)

\* The first video track, or else the first track.
Reference(plans) ==
  LET video == {i \in DOMAIN plans : plans[i].video}
  IN  plans[IF video = {} THEN 1 ELSE CHOOSE i \in video : \A j \in video : i <= j]

\* The samples of a video reference that open a GoP: the sync samples, and
\* the first sample whatever it is.
StartsOfVideo(plan) ==
  Ascending({1} \cup {i \in DOMAIN plan.samples : plan.samples[i].sync})

\* Those of an audio reference: the first one in each second of a fixed grid,
\* at most one boundary for each sample.
StartsOfAudio(plan) ==
  LET dt == DecodeTimes(plan)
      second == IF plan.scale = 0 THEN 1 ELSE plan.scale
      starts[i \in 0..Len(plan.samples)] ==
        LET before == starts[i - 1]
        IN  IF i = 0 THEN <<1>>
            ELSE IF dt[i] >= plan.start + Len(before) * second THEN Append(before, i)
            ELSE before
  IN  starts[Len(plan.samples)]

GopStarts(plans) ==
  LET ref    == Reference(plans)
      starts == IF ref.video THEN StartsOfVideo(ref) ELSE StartsOfAudio(ref)
  IN  [g \in DOMAIN starts |-> Micros(DecodeTimes(ref)[starts[g]], ref.scale)]

\* A slip: a sample that falls on the start of a GoP stays in the one before.
GopOfTimeLate(starts, us) ==
  1 + Cardinality({g \in 2..Len(starts) : starts[g] < us})

\* The starts ascend, so the GoP of a sample is the last one begun by then.
GopOfTime(starts, us) ==
  1 + Cardinality({g \in 2..Len(starts) : starts[g] <= us})

\* For each track and GoP the samples of the track in it, in order.
Partition(plans) ==
  LET starts == GopStarts(plans)
  IN  [k \in DOMAIN plans |->
         LET dt  == DecodeTimes(plans[k])
             gop == [i \in DOMAIN plans[k].samples |->
                       GopOfTime(starts, Micros(dt[i], plans[k].scale))]
         IN  [g \in DOMAIN starts |->
                Ascending({i \in DOMAIN plans[k].samples : gop[i] = g})]]

-----------------------------------------------------------------------------
(* plan_canonical_body.                                                    *)

\* A slip: every moof is taken to be as long as the shortest.
IndexFixedMoof(samples, prefix) ==
  LET start[i \in 1..(Len(samples) + 1)] ==
        IF i = 1 THEN prefix
        ELSE start[i - 1] + MoofLen[FALSE] + MdatHeader + samples[i - 1].size
  IN  [durs  |-> Field(samples, LAMBDA x : x.dur),
       sizes |-> Field(samples, LAMBDA x : x.size),
       ctss  |-> Field(samples, LAMBDA x : x.cts),
       syncs |-> {i \in DOMAIN samples : samples[i].sync},
       offs  |-> [i \in DOMAIN samples |-> start[i] + MoofLen[FALSE] + MdatHeader],
       bytes |-> start[Len(samples) + 1]]

\* Where the payloads of the samples are, after the uuid box and each moof.
IndexOf(samples, prefix) ==
  LET Moof(i) == MoofLen[samples[i].cts # 0]
      start[i \in 1..(Len(samples) + 1)] ==
        IF i = 1 THEN prefix
        ELSE start[i - 1] + Moof(i - 1) + MdatHeader + samples[i - 1].size
  IN  [durs  |-> Field(samples, LAMBDA x : x.dur),
       sizes |-> Field(samples, LAMBDA x : x.size),
       ctss  |-> Field(samples, LAMBDA x : x.cts),
       syncs |-> {i \in DOMAIN samples : samples[i].sync},
       offs  |-> [i \in DOMAIN samples |-> start[i] + Moof(i) + MdatHeader],
       bytes |-> start[Len(samples) + 1]]

\* The metadata of a GoP from the indexes of its segments.
MetaOf(index, first) ==
  [bytes |-> [id \in DOMAIN index |-> index[id].bytes], index |-> index, first |-> first]

\* The first decode times go with the first GoP, also for a track that has
\* no sample in it.
MetasOf(plans, parts) ==
  LET Slice(k, g) == [j \in DOMAIN parts[k][g] |-> plans[k].samples[parts[k][g][j]]]
      Ids(g)  == {plans[k].track : k \in {j \in DOMAIN plans : parts[j][g] # <<>>}}
      By(id)  == CHOOSE k \in DOMAIN plans : plans[k].track = id
      First   == [id \in {plans[k].track : k \in DOMAIN plans} |-> plans[By(id)].start]
  IN  [g \in DOMAIN parts[1] |->
         MetaOf([id \in Ids(g) |-> IndexOf(Slice(By(id), g), PrefixLen[id])],
                IF g > 1 THEN <<>> ELSE First)]

PlanBody(plans) == IF plans = <<>> THEN <<>> ELSE MetasOf(plans, Partition(plans))

-----------------------------------------------------------------------------
(* build_synth_flat_header.                                                *)

\* A slip: offsets are compared in ticks, whatever the timescales.
RebaseTicks(plans) ==
  LET least == Min({plans[i].start : i \in DOMAIN plans})
  IN  [i \in DOMAIN plans |-> [plans[i] EXCEPT !.start = @ - least]]

\* The earliest track is moved to zero and the others by as much, in their
\* own ticks and rounded down.
Rebase(plans) ==
  LET timed == {i \in DOMAIN plans : plans[i].scale # 0}
      least == CHOOSE i \in timed : \A j \in timed :
                 plans[i].start * plans[j].scale <= plans[j].start * plans[i].scale
      Sub(p) == (plans[least].start * p.scale) \div plans[least].scale
  IN  IF timed = {} THEN plans
      ELSE [i \in DOMAIN plans |->
              [plans[i] EXCEPT !.start = IF @ > Sub(plans[i]) THEN @ - Sub(plans[i]) ELSE 0]]

FtypLen  == 8
\* The tables have entries of a fixed width: the length of a moov depends on
\* how many there are and not on what they say.
MoovLen(traks) ==
  8 + SumSeq([i \in DOMAIN traks |->
        8 + Len(traks[i].edits) + Len(traks[i].stbl.stts) + Len(traks[i].stbl.ctts)
          + Len(traks[i].stbl.stsz) + Cardinality(traks[i].stbl.stss)])

\* The bytes of some of the tracks of a GoP.
Displaced(meta, ids) ==
  LET order == Ascending(ids)
  IN  SumSeq([i \in DOMAIN order |-> meta.bytes[order[i]]])

\* co64 of a track: behind the GoPs before, the smaller tracks of the same GoP,
\* and the offset in the segment.
Co64(metas, id, payload) ==
  LET behind[g \in 0..Len(metas)] ==
        IF g = 0 THEN payload
        ELSE behind[g - 1] + Displaced(metas[g], DOMAIN metas[g].bytes)
      Smaller(g) == Displaced(metas[g], {t \in DOMAIN metas[g].bytes : t < id})
      upTo[g \in 0..Len(metas)] ==
        IF g = 0 THEN <<>>
        ELSE IF id \notin DOMAIN metas[g].bytes THEN upTo[g - 1]
        ELSE upTo[g - 1] \o [i \in DOMAIN metas[g].index[id].offs |->
                               behind[g - 1] + Smaller(g) + metas[g].index[id].offs[i]]
  IN  upTo[Len(metas)]

\* The samples of a track that the indexes of its segments describe.
SamplesOfMetas(metas, id) ==
  LET Samples(x) == [i \in DOMAIN x.durs |->
                       [dur |-> x.durs[i], size |-> x.sizes[i], sync |-> i \in x.syncs,
                        cts |-> x.ctss[i], at |-> 0]]
      upTo[g \in 0..Len(metas)] ==
        IF g = 0 THEN <<>>
        ELSE IF id \notin DOMAIN metas[g].index THEN upTo[g - 1]
        ELSE upTo[g - 1] \o Samples(metas[g].index[id])
  IN  upTo[Len(metas)]

NoHeader == [ok |-> FALSE]

\* The tracks of the GoPs, and the plans of those a moov can declare.
IdsOf(metas) == UNION {DOMAIN metas[g].index : g \in DOMAIN metas}

PlanOf(t, metas) ==
  [track |-> t.track, video |-> t.group = "video", scale |-> t.scale,
   start |-> IF t.track \in DOMAIN metas[1].first THEN metas[1].first[t.track] ELSE 0,
   samples |-> SamplesOfMetas(metas, t.track)]

PlansOfMetas(catalog, metas) ==
  LET ids == Ascending({id \in IdsOf(metas) : IsKnown(TrackOf(catalog, id))})
  IN  Rebase([i \in DOMAIN ids |-> PlanOf(TrackOf(catalog, ids[i]), metas)])

\* A trak with its table and its edit list.
FullTrak(catalog, p, offsets) ==
  LET key   == CHOOSE k \in DOMAIN catalog.rend : catalog.rend[k].track = p.track
      media == SumSeq(Field(p.samples, LAMBDA x : x.dur))
  IN  [BaseTrak(catalog, key, PopulateStbl(p, offsets)) EXCEPT
         !.edits = CanonicalEdits(p.start, media, p.scale)]

\* Pass 1: the place of the first segment, behind a moov that is not yet filled.
PayloadAt(catalog, plans) ==
  FtypLen + 16 + MoovLen([i \in DOMAIN plans |->
                            FullTrak(catalog, plans[i], [j \in DOMAIN plans[i].samples |-> 0])])

\* Pass 2: `entries` are the co64 tables.
FilledHeader(catalog, metas, plans, entries) ==
  IF \/ plans = <<>>
     \/ \E g \in DOMAIN metas : ~(DOMAIN metas[g].bytes \subseteq DOMAIN metas[g].index)
     \/ \E i \in DOMAIN plans : Len(entries[i]) # Len(plans[i].samples)
  THEN NoHeader
  ELSE [ok   |-> TRUE,
        body |-> SumSeq([g \in DOMAIN metas |-> Displaced(metas[g], DOMAIN metas[g].bytes)]),
        moov |-> [scale |-> MovieScale, next |-> Max(IdsOf(metas)) + 1,
                  traks |-> [i \in DOMAIN plans |->
                               FullTrak(catalog, plans[i], entries[i])]]]

HeaderOfPlans(catalog, metas, plans) ==
  FilledHeader(catalog, metas, plans,
               [i \in DOMAIN plans |-> Co64(metas, plans[i].track, PayloadAt(catalog, plans))])

SynthHeader(catalog, metas) == HeaderOfPlans(catalog, metas, PlansOfMetas(catalog, metas))

\* A slip: the envelope is sized when the body is finished.
HeaderUnsized(header) ==
  AddEnvelope(AddAtom(AddAtom(EmptyFile, Atom("ftyp", 8, FtypLen, Nothing)),
                      Atom("moov", 8, MoovLen(header.moov.traks), header.moov)), 0)

\* The header's bytes: ftyp, moov and the envelope's own header.
HeaderFile(header) ==
  AddEnvelope(AddAtom(AddAtom(EmptyFile, Atom("ftyp", 8, FtypLen, Nothing)),
                      Atom("moov", 8, MoovLen(header.moov.traks), header.moov)),
              header.body)

\* ftyp and moov of an init segment.
InitFile(catalog) ==
  LET moov == InitMoov(catalog, NoTable)
  IN  AddAtom(AddAtom(EmptyFile, Atom("ftyp", 8, FtypLen, Nothing)),
              Atom("moov", 8, MoovLen(moov.traks), moov))
=============================================================================
