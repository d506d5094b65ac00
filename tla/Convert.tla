------------------------------- MODULE Convert -------------------------------
(***************************************************************************)
(* The conversion of a whole input, flat or fragmented, into one canonical *)
(* file: cmd_segment_presentation (cli.rs) with flat::write or             *)
(* fmp4::write, which share write_canonical_body.  The header is written   *)
(* first, from the plan alone; then the body, GoP by GoP and track by      *)
(* track, each sample read from the input when it is its turn.             *)
(***************************************************************************)
EXTENDS CanonicalBody
LOCAL INSTANCE SequencesExt
LOCAL INSTANCE FiniteSetsExt

\* The invocations: [file, form, map], with form "flat" or "fmp4" and map the
\* track ids to rename.
CONSTANT Jobs

\* The traks of an input have ids of their own, after they are renamed too
\* (nothing in remap_track_ids keeps two tracks from getting one id).
ASSUME JobsAssumption ==
  \A j \in Jobs : ReadSource(j.file).ok =>
    LET read == RemapSource(ReadSource(j.file), j.map)
    IN  Planned(read.plans) /\ IsFiniteSet(DOMAIN read.catalog.rend)

\* The tracks are renamed in the plan, and fragments are minted with its ids.
ASSUME RenamedAssumption == \A t \in Track : Remap[t] = t

VARIABLES
  job,      \* the invocation
  pc,       \* "read", "header", "body", "done" or "error"
  source,   \* the catalog and the plan read from the input
  slots,    \* the segments to write, each [k, samples] with k the track's index
  at,       \* [slot, sample]: the segment being written, the samples written of it
  out,      \* the file written so far
  clock,    \* TrackProgress of each track
  frags,    \* per_track_fragments
  segs      \* per_track_segments

vars == <<job, pc, source, slots, at, out, clock, frags, segs>>

Init ==
  /\ job \in Jobs
  /\ pc = "read"
  /\ source = NoPlans
  /\ slots = <<>>
  /\ at = [slot |-> 1, sample |-> 0]
  /\ out = EmptyFile
  /\ clock = StartClock
  /\ frags = <<>>
  /\ segs = <<>>

Stop(reason) ==
  /\ pc' = reason
  /\ UNCHANGED <<job, source, slots, at, out, clock, frags, segs>>

Read ==
  /\ pc = "read"
  /\ \E read \in {ReadSource(job.file)} : read.ok /\ source' = RemapSource(read, job.map)
  /\ pc' = "header"
  /\ UNCHANGED <<job, slots, at, out, clock, frags, segs>>

ReadFails ==
  /\ pc = "read"
  /\ ~ReadSource(job.file).ok
  /\ Stop("error")

\* The segments in the order they are written, without the empty ones.
SlotsOf(plans) ==
  LET parts == Partition(plans)
      gops  == IF plans = <<>> THEN 0 ELSE Len(parts[1])
      held  == {x \in (1..gops) \X DOMAIN plans : parts[x[2]][x[1]] # <<>>}
      order == AscendingBy(held, [x \in held |-> x[1] * Len(plans) + x[2]])
  IN  [i \in DOMAIN order |-> [k |-> order[i][2], samples |-> parts[order[i][2]][order[i][1]]]]

\* A slip: every clock starts at zero, as in fragment_to_directory.
ClockAtZero(plans) == StartClock

\* The fragments of a track count from its start, not from zero.
ClockOf(plans) ==
  [t \in Track |-> [time |-> IF \E k \in DOMAIN plans : plans[k].track = t
                             THEN plans[CHOOSE k \in DOMAIN plans : plans[k].track = t].start
                             ELSE 0,
                    count |-> 0]]

HeaderOf == SynthHeader(source.catalog, PlanBody(source.plans))

StartBody(header) ==
  /\ pc = "header"
  /\ job.form = "flat" => header.ok
  /\ out' = IF job.form = "flat" THEN HeaderFile(header) ELSE InitFile(source.catalog)
  /\ slots' = SlotsOf(source.plans)
  /\ clock' = ClockOf(source.plans)
  /\ frags' = [k \in DOMAIN source.plans |-> <<>>]
  /\ segs' = [k \in DOMAIN source.plans |-> <<>>]
  /\ pc' = "body"
  /\ UNCHANGED <<job, source, at>>

WriteHeader == StartBody(HeaderOf)

\* No track a moov can declare: nothing is written.
HeaderFails ==
  /\ pc = "header"
  /\ job.form = "flat"
  /\ ~HeaderOf.ok
  /\ Stop("error")

-----------------------------------------------------------------------------
(* write_canonical_body.                                                   *)

Slot    == slots[at.slot]
ThisPlan == source.plans[Slot.k]
Writing == pc = "body" /\ at.slot <= Len(slots)

\* mint_canonical_segment_prefix; the catalog is empty for a track it does
\* not describe.
PrefixAtom(catalog, id) == Atom("muxl", 8, PrefixLen[id], FilterToTrack(catalog, id))

StartSegment ==
  /\ Writing
  /\ at.sample = 0
  /\ segs' = [segs EXCEPT ![Slot.k] =
                Append(@, [offset |-> out.size, size |-> PrefixLen[ThisPlan.track],
                           dur |-> 0, count |-> 0])]
  /\ out' = AddAtom(out, PrefixAtom(source.catalog, ThisPlan.track))
  /\ at' = [at EXCEPT !.sample = 1]
  /\ UNCHANGED <<job, pc, source, slots, clock, frags>>

Sample == ThisPlan.samples[Slot.samples[at.sample]]
InInput(s) == s.at + s.size <= job.file.size

\* One sample in a moof and an mdat of its own.
FragmentAtoms(f, s) ==
  << Atom("moof", 8, f.moof,
          [seq |-> f.seq,
           trafs |-> <<[track |-> f.track, tfdt |-> f.tfdt, offset |-> TRUE,
                        at |-> f.moof + MdatHeader,
                        samples |-> <<[dur |-> s.dur, size |-> s.size,
                                       sync |-> s.sync, cts |-> s.cts]>>]>>]),
     Atom("mdat", 8, MdatHeader + s.size, [data |-> s.at]) >>

\* A slip: the next segment starts at the sample where this one ended.
NextPlaceKept(samples) ==
  [slot |-> IF at.sample < Len(samples) THEN at.slot ELSE at.slot + 1, sample |-> at.sample + 1]

\* The next sample of the segment, or the prefix of the next segment.
NextPlace(samples) ==
  IF at.sample < Len(samples) THEN [at EXCEPT !.sample = @ + 1]
                              ELSE [slot |-> at.slot + 1, sample |-> 0]

WriteSample ==
  /\ Writing
  /\ at.sample > 0
  /\ InInput(Sample)
  /\ LET s    == Sample
         step == [track |-> ThisPlan.track, dur |-> s.dur, size |-> s.size,
                  sync |-> s.sync, cts |-> s.cts # 0]
         f    == MintFrame(clock, step, <<0, s.at>>)
         mark == Len(segs[Slot.k])
     IN  /\ out' = AddAtom(AddAtom(out, FragmentAtoms(f, s)[1]), FragmentAtoms(f, s)[2])
         /\ clock' = Advance(clock, step)
         /\ frags' = [frags EXCEPT ![Slot.k] =
                        Append(@, [offset |-> out.size, size |-> FrameLen(f),
                                   dur |-> s.dur, sync |-> s.sync])]
         /\ segs' = [segs EXCEPT ![Slot.k][mark].size = @ + FrameLen(f),
                                 ![Slot.k][mark].dur = @ + s.dur,
                                 ![Slot.k][mark].count = @ + 1]
  /\ at' = NextPlace(Slot.samples)
  /\ UNCHANGED <<job, pc, source, slots>>

\* The input is shorter than its tables say: what is written stays behind.
SampleOutside ==
  /\ Writing
  /\ at.sample > 0
  /\ ~InInput(Sample)
  /\ Stop("error")

\* write_flat_mp4 looks up the timescale of every track it has written.
AllDescribed ==
  \A k \in DOMAIN source.plans : TrackOf(source.catalog, source.plans[k].track) # NoTrack

Finish ==
  /\ pc = "body"
  /\ at.slot > Len(slots)
  /\ job.form = "flat" => AllDescribed
  /\ Stop("done")

FinishFails ==
  /\ pc = "body"
  /\ at.slot > Len(slots)
  /\ job.form = "flat"
  /\ ~AllDescribed
  /\ Stop("error")

Next ==
  \/ Read \/ ReadFails
  \/ WriteHeader \/ HeaderFails
  \/ StartSegment \/ WriteSample \/ SampleOutside
  \/ Finish \/ FinishFails

Spec == Init /\ [][Next]_vars

-----------------------------------------------------------------------------
(* Properties.                                                             *)

\* The one-sample fragments of a track in a file, in file order.
FragmentsOf(file, id) ==
  LET moofs == Ascending({p \in DOMAIN file.head : /\ file.head[p].kind = "moof"
                                                   /\ file.head[p].body.trafs[1].track = id})
  IN  [i \in DOMAIN moofs |->
         LET moof == file.head[moofs[i]]
         IN  [from |-> moofs[i], seq |-> moof.body.seq, tfdt |-> moof.body.trafs[1].tfdt,
              sample |-> moof.body.trafs[1].samples[1],
              data |-> file.head[moofs[i] + moof.len].body.data]]

\* What is in the output at the place a sample is said to be.
PayloadIs(file, place, s) ==
  LET box == place - MdatHeader
  IN  /\ box \in DOMAIN file.head
      /\ file.head[box].kind = "mdat"
      /\ file.head[box].len = MdatHeader + s.size
      /\ file.head[box].body = [data |-> s.at]

\* Type correctness of the conversion's state.
TypeOK ==
  /\ pc \in {"read", "header", "body", "done", "error"}
  /\ \A k \in DOMAIN source.plans :
       source.plans[k].track \in Track /\ source.plans[k].start \in Nat
  /\ at.slot \in 1..(Len(slots) + 1)
  /\ at.slot <= Len(slots) => at.sample \in 0..Len(slots[at.slot].samples)
  /\ clock \in [Track -> Progress]
  /\ out.size \in Nat /\ \A p \in DOMAIN out.head : p < out.size

\* The run of chunks that a chunk belongs to: the last one begun by then.
RunOf(stsc, c) ==
  CHOOSE r \in DOMAIN stsc :
    stsc[r].first <= c /\ \A q \in DOMAIN stsc : stsc[q].first <= c => q <= r

\* How many samples the first chunks hold.
HeldBy(stbl) ==
  LET upTo[c \in 0..Len(stbl.chunks)] ==
        IF c = 0 THEN 0 ELSE upTo[c - 1] + stbl.stsc[RunOf(stbl.stsc, c)].per
  IN  upTo

\* The chunk of the i-th sample is the one whose samples reach it.
ChunkOf(stbl, i) ==
  CHOOSE c \in DOMAIN stbl.chunks : HeldBy(stbl)[c - 1] < i /\ i <= HeldBy(stbl)[c]

\* A table with a chunk for each sample, its runs of chunks in order.  With a
\* sample behind the last chunk, extract_flat_track_info would index behind
\* the end of a vector.
PlacesAll(stbl) ==
  /\ stbl.stsz \in Seq(Nat) /\ stbl.chunks \in Seq(Nat)
  /\ stbl.stsc \in Seq([first : Nat, per : Nat])
  /\ stbl.stsz # <<>> =>
       /\ stbl.stsc # <<>> /\ stbl.stsc[1].first = 1
       /\ \A q, r \in DOMAIN stbl.stsc : q < r => stbl.stsc[q].first < stbl.stsc[r].first
       /\ Len(stbl.stsz) <= HeldBy(stbl)[Len(stbl.chunks)]

\* fragment.rs resolve_sample_offsets: the samples of a flat input are read
\* from where its tables put them.  The first sample of a chunk is at the
\* chunk's offset, and any other begins where the one before it ends.
ChunksResolved ==
  pc = "header" /\ ~IsFmp4(job.file) =>
    \A i \in DOMAIN MoovOf(job.file).traks :
      LET stbl == MoovOf(job.file).traks[i].stbl
          read == ReadStbl(stbl)
          C(j) == ChunkOf(stbl, j)
      IN  PlacesAll(stbl) =>
            /\ Len(read) = Len(stbl.stsz)
            /\ \A j \in DOMAIN read :
                 read[j].at = IF j > 1 /\ C(j - 1) = C(j) THEN read[j - 1].at + read[j - 1].size
                                                          ELSE stbl.chunks[C(j)]

\* flat.rs write_canonical_body, compute_gop_partition: whatever the GoPs
\* are, each track comes out whole and in order.  Its fragments in file order
\* are its first samples, numbered from 1 and timed from its start without a
\* gap, each with its own bytes; at the end they are all there.
SamplesWrittenOnce ==
  \A k \in DOMAIN frags :
    LET plan    == source.plans[k]
        written == FragmentsOf(out, plan.track)
    IN  /\ Len(written) <= Len(plan.samples)
        /\ pc = "done" => Len(written) = Len(plan.samples)
        /\ \A i \in DOMAIN written :
             LET s == plan.samples[i]
             IN  /\ written[i].seq = i
                 /\ written[i].tfdt = DecodeTimes(plan)[i]
                 /\ written[i].data = s.at
                 /\ written[i].sample = [dur |-> s.dur, size |-> s.size,
                                         sync |-> s.sync, cts |-> s.cts]

\* A sample at which a GoP should open: a later keyframe, or, without video,
\* the first one in a second counted from the start of the first track.
Opens(plan, j) ==
  LET second == IF plan.scale = 0 THEN 1 ELSE plan.scale
      Second(n) == (DecodeTimes(plan)[n] - plan.start) \div second
  IN  j > 1 /\ IF plan.video THEN plan.samples[j].sync ELSE Second(j) > Second(j - 1)

\* The first sample at the time of one that opens a GoP: a frame without a
\* duration goes with the keyframe behind it.
OpensGop(plan, i) ==
  LET Time(n) == Micros(DecodeTimes(plan)[n], plan.scale)
  IN  /\ i > 1 /\ Time(i - 1) < Time(i)
      /\ \E j \in i..Len(plan.samples) : Opens(plan, j) /\ Time(j) = Time(i)

\* flat.rs compute_gop_partition: the bytes of every track are cut where the
\* reference track opens a GoP.  A fragment is written behind the cut exactly
\* when its time is not earlier (microseconds, rounded down), so no segment
\* spans a cut and none begins early.  In a GoP the smaller tracks are ahead
\* of the reference, so behind the cut is behind its previous fragment.
GopsCutByTime ==
  slots # <<>> =>
    LET ref     == Reference(source.plans)
        opening == FragmentsOf(out, ref.track)
    IN  \A i \in {j \in DOMAIN opening : OpensGop(ref, j)}, k \in DOMAIN source.plans :
          LET plan == source.plans[k]
              cut  == opening[IF plan.track < ref.track THEN i - 1 ELSE i].from
              fs   == FragmentsOf(out, plan.track)
          IN  \A j \in DOMAIN fs :
                fs[j].from >= cut <=>
                  Micros(fs[j].tfdt, plan.scale) >= Micros(opening[i].tfdt, ref.scale)

\* flat.rs build_synth_flat_header, plan_canonical_body: the header is written
\* before any sample and from lengths alone, and yet every co64 entry of the
\* finished file is the place of that sample's bytes.
OffsetsPointAtSamples ==
  pc = "done" /\ job.form = "flat" =>
    \A i \in DOMAIN MoovOf(out).traks :
      LET trak == MoovOf(out).traks[i]
          plan == source.plans[CHOOSE k \in DOMAIN source.plans :
                                 source.plans[k].track = trak.track]
          read == ReadStbl(trak.stbl)
      IN  /\ Len(read) = Len(plan.samples)
          /\ \A j \in DOMAIN read : PayloadIs(out, read[j].at, plan.samples[j])

\* A stss says nothing of an audio track, and cannot say that no sample is a
\* sync sample.
SyncKept(plan) ==
  LET syncs == {i \in DOMAIN plan.samples : plan.samples[i].sync}
  IN  job.form = "fmp4" \/ syncs = DOMAIN plan.samples \/ (plan.video /\ syncs # {})

\* fmp4.rs, flat.rs and the readers in fragment.rs: what is written reads back
\* as the same presentation, by whichever reader the form calls for; only the
\* starts of a flat file may move, all by as much (SkewKept).
ReadsBack ==
  pc = "done" /\ AllDescribed =>
    LET read == ReadSource(out)
        Same(p, q) ==
          /\ q.track = p.track /\ q.video = p.video /\ q.scale = p.scale
          /\ job.form = "fmp4" /\ p.samples # <<>> => q.start = p.start
          /\ Len(q.samples) = Len(p.samples)
          /\ \A i \in DOMAIN p.samples :
               /\ q.samples[i].dur = p.samples[i].dur
               /\ q.samples[i].cts = p.samples[i].cts
               /\ SyncKept(p) => q.samples[i].sync = p.samples[i].sync
               /\ PayloadIs(out, q.samples[i].at, p.samples[i])
    IN  /\ read.ok
        /\ \A k \in DOMAIN source.plans :
             source.plans[k].samples # <<>> =>
               \E j \in DOMAIN read.plans : Same(source.plans[k], read.plans[j])

Abs(n) == IF n < 0 THEN -n ELSE n

\* Two tracks that were read are as far apart as they were planned.
SkewOf(read) ==
  LET Old(q) == source.plans[CHOOSE k \in DOMAIN source.plans :
                               source.plans[k].track = q.track].start
      \* A distance, in seconds times 2000 times both timescales.
      Apart(p, sp, q, sq) == 2000 * (sp * q.scale - sq * p.scale)
  IN  \A i, j \in DOMAIN read :
        LET p == read[i]
            q == read[j]
        IN  Abs(Apart(p, p.start, q, q.start) - Apart(p, Old(p), q, Old(q)))
              <= 3000 * (p.scale + q.scale) + 2 * p.scale * q.scale

\* flat.rs rebase_start_offsets_to_zero, build_canonical_elst and init.rs
\* start_offset_from_trak: through the edit lists of a flat file two tracks keep
\* their distance, to a tick and a half of each and a millisecond.
SkewKept == pc = "done" /\ job.form = "flat" => SkewOf(ReadSource(out).plans)

\* flat.rs write_canonical_body and reader.rs unwrap: the byte ranges recorded
\* for the playlists are the segments a reader of the file finds, each with
\* the fragments recorded in it.
RecordedRanges ==
  pc = "done" /\ AllDescribed =>
    LET found == Unwrap(out)
        Extent(r) == [from |-> r.offset, to |-> r.offset + r.size]
        Mine(k)  == SelectSeq(found.segs, LAMBDA s : SegmentTrack(out, s) = source.plans[k].track)
        Inside(k, r) == SelectSeq(frags[k], LAMBDA f : Extent(r).from < f.offset
                                                       /\ f.offset + f.size <= Extent(r).to)
    IN  /\ found.ok
        /\ Len(found.segs) = Len(slots)
        /\ \A k \in DOMAIN segs :
             /\ Mine(k) = [i \in DOMAIN segs[k] |-> Extent(segs[k][i])]
             /\ \A i \in DOMAIN segs[k] :
                  /\ Len(Inside(k, segs[k][i])) = segs[k][i].count
                  /\ segs[k][i].size = PrefixLen[source.plans[k].track]
                       + SumSeq(Field(Inside(k, segs[k][i]), LAMBDA f : f.size))

\* flat.rs write: a flat file that lacks a sample, because the conversion failed
\* or was cut off on the way, is refused and never read as a shorter recording.
PartialIsRefused ==
  job.form = "flat" /\ out # EmptyFile /\ at.slot <= Len(slots) => ~Unwrap(out).ok

\* spec/canonical-form.md:73: in an fMP4 every moof names a track that the
\* moov declares.
EveryMoofDeclared ==
  pc = "done" /\ job.form = "fmp4" =>
    \A p \in DOMAIN out.head :
      out.head[p].kind = "moof" =>
        \E i \in DOMAIN MoovOf(out).traks :
          MoovOf(out).traks[i].track = out.head[p].body.trafs[1].track
=============================================================================
