# Verification of muxl

muxl turns any fMP4 stream into *canonical segments*: for each GoP and each
track, the bytes `[uuid][moof][mdat][moof][mdat]...`, one fragment per sample,
that depend on nothing but the track's own samples. Everything else in the
repository moves such segments around: it stores, scans, re-derives, indexes,
signs and plays them. This directory holds TLA+ models of those parts, the TLC
runs that check them and the TLAPS proofs about them.

    tlc -config Segmenter.cfg MCSegmenter          # one run
    tlapm Segmenter_proofs.tla                     # the proofs of a component

`PROJECT.json` lists the components, the runs, the lines each definition stands
for (`map`), the known hazards and the theorems.

## Inventory

| Component | Source | State it keeps | Operations | What makes it correct |
|---|---|---|---|---|
| push segmenter | `src/push.rs` | unread bytes, catalog, pending moof, clock of each track, buffers of the GoP being built, segment number | `feed`, `flush` | same output whatever the chunks; no sample lost, repeated or reordered; sequence numbers of a track without gaps; a GoP begins at a keyframe; the sample index describes the bytes; an error loses nothing already cut |
| pull segmenter | `src/segment.rs`, `src/fragment.rs` | the same, driven by `Read` | `segment_fmp4_with_remap`, `FMP4Reader::next_frame` | same GoPs as the push segmenter |
| track remap | `catalog.rs` 338-378 | none | `remap_track_ids` | catalog and fragments renamed alike |
| event re-derivation | `reader.rs` 206-401 | aggregate catalog, tracks of the last Init, current GoP, last track id | `push_segment`, `flush_gop`, `finish` | events of stored bytes = events of the live segmenter; an Init covers the GoPs after it |
| wrapper scan | `reader.rs` 40-160, 405-680, 853-925 | position, inside/outside the envelope | `unwrap`, `scan_wrapper_stream`, `read_segments_at` | slurping and streaming scan agree; segments verbatim |
| presentation wrappers | `present.rs` | none | `write_fmp4`, `write_flat`, `write_flat_from_m4s` | segment bytes verbatim behind a header |
| metafiles | `metafile.rs` | running body size, current GoP | `segment_metafile`, `synthesize_flat_header` | header = the one built from the bytes |
| flat MP4 | `flat.rs`, `sample_table.rs` | plans of the tracks | `write`, `plan_from_*`, `build_synth_flat_header`, `compute_gop_partition` | chunk offsets point at the samples; earliest track starts at zero; same GoPs as the streaming rule |
| canonical fMP4 writer | `fmp4.rs` | clocks | `write` | same segments from flat and fragmented input |
| HLS artifacts | `hls.rs` | none | grouping of fragments, playlists | groups tile the blob |
| catalog, init, timescale, cid, source, io | `catalog.rs`, `cbor.rs`, `init.rs`, `timescale.rs`, `cid.rs`, `source.rs`, `io.rs` | none | encoding, pure conversions | round trips |
| browser buffers | `wasm_io.rs`, `wasm.rs` | a status word and a data area shared with the page | `read_at`, `write` | request and response alternate |
| signing stream | `crates/muxl/src/sign.rs` | the segmenter, the manifest source | `sign_segment_stream_with`, `handle_event`, `host_get_manifest_callback` | every GoP signed once, in order, with the manifest in force |
| Go engine | `go/runtime.go`, `go/wasm.go` | registered callbacks, pipes, `errCh` | `runWith`, `parseEvents`, `hostSign`, `hostGetManifest` | every event dispatched in order; the call ends |
| Go signing segmenter | `go/concat.go` | pipe, three channels, `done` | `Write`, `Close` | ordered delivery; channels closed by the time `Close` returns |
| verification, certificates, inspection | `crates/muxl/src/{verify,cert,inspect}.rs` | none | library calls | - |
| command lines, examples, scripts | `cli.rs`, `crates/muxl/src/{cli,main}.rs`, `examples/`, `scripts/` | none | argument parsing | - |

How they interact. A caller (`cmd_segment_stdout`, or the loop of the signing
stream) reads chunks and calls `feed`; the events that come back are encoded and
written to stdout. In Go, stdout is a pipe to a parser that sends each event to
channels; stdin is fed by a copier from another pipe, which the caller of
`Write` fills. A stored stream goes the other way: the scan splits it into
segments and the event builder re-derives the events, or
`segment_metafile` describes each so that a header for any of them can be made
without their bytes. A whole file is converted by `flat::write` or `fmp4::write`,
which plan first and copy samples afterwards; in the browser their reads and
writes go to the page through two shared buffers.

What is hard: chunk boundaries anywhere; errors in the middle of a call whose
earlier effects stay; state that is cleared at a GoP (four maps) beside state
that must not be (clocks, counters); a GoP end that is not written down and has
to be inferred; two programs for one job (push and pull, slurp and stream, two
regrouping rules, two partition rules); a header written before the body it
describes, from lengths that are computed and not measured; places in a file
counted from four different origins (the file, the first segment, the segment, the
moof); files cut short anywhere; five goroutines, three unbuffered pipes
and three bounded channels that can all wait for each other; failures and
cancellation at any of their steps; a worker and a page that take turns on a
status word. `PROJECT.json` lists 40 hazards at their lines, with the properties that cover them or the reason why none does.

## Modules

| Module | Models | State and actions |
|---|---|---|
| `GopCut` | helpers of `fragment.rs` and `segment.rs` used by both segmenters | none: `MintFrame` (`write_frame_fragment`), `RecordFrame`, `GopOf` (`flush_track_bufs`), `Boundary`, `AudioOnlyBoundary`, `RemapCatalog` |
| `Segmenter` | `push.rs` | one variable per field of `Segmenter` and `StreamingState` and one per local that lives across steps (`frames`, `events`); a call of `feed` is `Feed`, then one step per box, per sample and per frame, then `FeedReturn` or `Fail` |
| `PullSegmenter` | `segment.rs`, `fragment.rs` | the reading loop; `gops` is what was handed out |
| `PushPull` | the caller, and the refinement | `CallerSpec`; `PushImplementsPull` is `PullSegmenter!Spec` under a mapping |
| `EventBuilder` | `StreamEventBuilder` | `PushSegment`, `PushFails`, `Finish`; `out` is every event emitted |
| `StoreOrder` | the order of the tracks of a GoP in Rust (ids) and in Go (strings) | none |
| `Concatenator` | `concat.go`, `runWith`, `parseEvents`, `hostGetManifest`, the loop of `sign.rs` | one variable per goroutine; a pipe hands over when both ends are ready, a channel is what was sent minus what was received; a manifest is fetched by `Sign`, or by `Grow` and then `Sign`, or ends the program (`Outgrown`) |
| `Catalogs` | `catalog.rs`, and the moov of `init.rs` | none: `FilterToTrack`, `MergeCatalog`, `RemapTrackIds`, `CatalogFromMoov`, `InitMoov`, the edit lists |
| `SampleTable` | the sample tables as they are read (`fragment.rs`) and written (`flat.rs`) | none: `ResolveSampleOffsets`, `PopulateStbl` |
| `Wrapper` | files as boxes; `unwrap` and `read_segments_at` | none: `Located`, `ScanSegments`, `WalkSegments` |
| `CanonicalBody` | what `flat.rs` computes before it writes | none: `ReadSource`, `Partition`, `PlanBody`, `SynthHeader` |
| `Convert` | `cmd_segment_presentation` with `flat::write` or `fmp4::write` | `Read`, `WriteHeader`, then one step per segment prefix and per sample, `Finish`, and a step for each way to fail; `out` is the file so far |
| `Hls` | the byte ranges of the playlists of a converted file | none |
| `Presentation` | `present.rs`, `metafile.rs`, the signed segment of `sign.rs` | none: `Metafile`, the two regroupings, `WriteFmp4`, `WriteFlatFromM4s`, `MetafileHeader`, `MetaWhenSigned` |
| `Archive` | the life of a converted file: taken apart, signed, stored in a wrapper, cut short, scanned by `scan_wrapper_stream` | the actions of `Convert`, then `Store`, `Lose` or `Keep`, and one action per box of the scan and per way it is treated |
| `Browser` | `wasm_io.rs` under `read_exact_at` and `write_all`, and a page | a step for each store, wait and load of the worker and each look, copy and answer of the page |
| `GopCut_proofs`, `Segmenter_proofs` (with `PushPull`), `PullSegmenter_proofs`, `EventBuilder_proofs`, `Concatenator_proofs`, `Convert_proofs`, `Archive_proofs`, `Browser_proofs` | - | lemmas and theorems |
| `MCStreams` | - | the files of the segmenter runs |
| `MCConvert` | - | the inputs of the conversions; `MCArchive` adds one short enough to be cut everywhere |
| `MCSegmenter`, `MCPullSegmenter`, `MCPushPull`, `MCEventBuilder`, `MCConcatenator`, `MCBrowser` | - | values of the constants |

`Archive` EXTENDS `Convert` and `Presentation`, these `CanonicalBody`, that `GopCut`,
`Wrapper` and `SampleTable`: the segments a conversion writes, the prefixes and the
fragment clock are those of the streaming segmenters.

Abstraction. A box is its kind and the fields the code reads; bytes are lengths
and places: a sample's payload is `<<box, offset>>`, so a wrong or repeated
payload shows. A moof is the list of its steps (set the decode time, start a
trun, take a sample) in the order the loops of `process_moof_mdat` run them. A
stored segment is its track, timescale, duration and the GoP it was cut in,
which only the properties read. An event of the signing pipeline is the number
of its GoP and the manifests in force when it was cut and when it was signed.

A whole file (`Wrapper`) maps each offset at which a box starts to its kind, the
length of its header, its length and what the code reads of its body; the file's
size is smaller than what its boxes announce once it is cut. So offsets are real
numbers of bytes, and a table entry is right exactly when the box in front of the
place it names is the mdat with that sample of the input. Lengths are small: a moof is 10
bytes, 12 with a composition offset, and no two prefixes are equally long, so
that an offset computed with the wrong one is wrong.
Integer widths play no part in the modelled properties: the lengths and ticks
that occur are far below 2^32, and the code computes with 64 or 128 bits there.

## Runs

Passing runs.

| Run | Instance | Shows |
|---|---|---|
| `Segmenter` | (a) a video and an audio track, up to 3 moof+mdat pairs out of a library of 3: several truns, an explicit `tfdt`, interleaved tracks; (b) audio only with two timescales, or with a track that is not in the moov; (c) any three of 8 good and faulty boxes after a good or a bad moov. Each box in up to 2 parts, retries after errors, one flush anywhere, the two tracks exchanged by the remap | `TypeOK`; `InOrder` through errors and retries; `GapFree` and `NumbersConsecutive` while nothing failed; `KeyframePerGop`; `AudioSpans`: one second at least, less without the last frame; `IndexDescribesBytes`; `NothingLeftToRead` |
| `PushPull` | the streams (a) and (b) and one with other boxes between; a caller that feeds all and flushes | `PushImplementsPull`, with the liveness of the pull loop, and `EverySampleDelivered`; that the streams are those of the theorems (`PairedAssumption`) |
| `PullSegmenter` | the streams (c), and files without a moov | `EachSampleOnce`, on files that are those of its theorem (`RegularAssumption`) |
| `Events` | up to 3 GoPs of any tracks out of {1,2,3}; a segment may not parse and the sink may refuse an event | `NothingDropped`, `InitCoversGop`, and `GopsKept`: the GoPs come out as they were cut if they share a track |
| `Pipeline` | 3 GoPs, channels of 1, 1 and 2 (1, 16 and 16 in the code), all drained; failures, cancellation and up to three manifest changes at any point: to one for which the buffer grows, to one that is too long, and back to a short one | `TypeOK`, `InStep`, `ClosedWhenOver`, `ManifestFollows`: each GoP is signed with a manifest as new as its cut, also when it changes between the probe and the retry; `WriterReturnsIfCalm` and `ChannelsClose`, over a manifest that outgrew its buffer too |
| `Archive` | 24 inputs to `flat` and to `fmp4`, flat and fragmented: late tracks, open GoPs, no sync sample, a frame without a duration, two videos, audio alone, a track no moov can declare (with samples and without), a short file, broken tables, renamed tracks, several truns, a fragmented file that ends inside its last mdat, moof or header. What comes out is stored bare, as fMP4, as flat MP4 or as a flat MP4 signed as a whole; with no segment, two or all of them signed, twice over, or with a segment of a later version anywhere; and the smallest is cut at every byte | of the conversion `ChunksResolved`, `SamplesWrittenOnce`, `GopsCutByTime`, `OffsetsPointAtSamples`, `ReadsBack`, `SkewKept`, `RecordedRanges`, `PartialIsRefused`; of the wrappers `CompleteIsRead`, `ScanMatchesUnwrap`, `NothingTorn`, `SeekMatchesScan`; of the headers `M4sHeaderPoints` and `SameAsDirect` (the three ways to build a flat file give the same bytes); `ArchiveTypeOK` |
| `Browser` | four programs of reads and writes that are empty, larger than the data region or past the end; a page that answers with as many bytes as it likes, or refuses | `OneSideAtATime`, `ReadsAreWhatWasAsked`, `OutputInOrder`, `WorkerReturns`, `TypeOK` |

Runs that find a disagreement between the code and what the repository says of
it (`findings` in `PROJECT.json` quotes the line):

| Run | What happens |
|---|---|
| `SegmenterLostGop` | an error in `feed` drops the GoPs the same call had cut |
| `PipelineStuckWriter` | after a failure of the wasm, `Write` never returns |
| `HlsRanges` | the ranges of an audio playlist add up fragments that do not follow each other in the file |
| `MetafileRange` | a range of metafiles that begins in the middle of a GoP gets wrong offsets |
| `OtherTrack` | a subtitle track is written as moofs of a track no moov declares |

More configurations are kept for reference and are not among the runs. The
first reproduce disagreements of rarer inputs, or smaller ones:

| Configuration | Module | What happens |
|---|---|---|
| `SegmenterTwoVideo` | `MCSegmenter` | a keyframe of one video track cuts the other one mid-GoP (the test at `segment.rs` 676 asserts that each video segment starts with a sync frame) |
| `PushPullLarge` | `MCPushPull` | the offsets of a trun assume an 8-byte mdat header (`fragment.rs` 452-454); a small mdat with a 64-bit size is read by the push segmenter and refused by the pull one (`push.rs` 508 asserts that they agree) |
| `PullFollow` | `MCPullSegmenter` | a trun without a data offset starts over at the first sample (the comment at `fragment.rs` 483: "data follows immediately after previous trun's data") |
| `EventsAudio` | `MCEventBuilder` | two audio-only GoPs whose tracks ascend across the boundary become one event (`reader.rs` 213: "one `Segment` per GoP") |
| `EventsDuration` | `MCEventBuilder` | a re-derived GoP has the duration of its longest track, a live one of its video (`segment.rs` 312) |
| `EventsGo` | `MCEventBuilder` | track ids sorted as strings break the interleave order (`runtime.go` 272) |
| `PipelineExample` | `MCConcatenator` | the documented caller of `Concatenator` never reads `EventCh`, so the pipeline stops once it is full |
| `ScanTwins` | `MCArchive` | `TwinsAccept`: of a file cut short, `unwrap` and its "streaming twin" (`reader.rs` 584) do not refuse the same ones |
| `Convert` | `MCConvert` | passes: the conversion alone, quicker than `Archive` |

Where the two scans differ, since none of it is an error by itself: a flat file
cut at a box boundary inside its envelope is refused by `unwrap`, whose envelope
must be whole, and read by the scan; fewer than 8 bytes at the end are an error
of the scan only. `ScanMatchesUnwrap` says that they never accept a file with
different segments. Random access (`read_segments_at`) knows no end of the envelope: a
box behind it would be read as part of the stream.

### Bounds

- `BoxParts`: a box arrives in up to this many parts. Two are enough to end a
  chunk inside a box, at a box and after several boxes: the code only asks
  whether the next box is complete.
- `Streams` (`MCStreams`): three pairs give a GoP before the first keyframe, a
  closed one and an open one, with each track present or absent in each.
- `MaxFlushes` = 1: a flush at the end or in the middle. The properties that a
  flush in the middle would break say `flushes = 0`.
- `Inputs` (`MCEventBuilder`): three GoPs give a first Init, a GoP covered by it
  and one with a new track.
- `Gops` = 3 and the capacities 1, 1, 2: every channel fills up while the parser,
  the wasm, the copier and the writer all hold something. `PipelineExample` takes
  5 GoPs, more than all of them hold together.
- `Manifests` = 3 with the lengths 1, 2, 4, 1 and a buffer of 1 that may grow to 3
  (64 KiB and 16 MiB in the code): a change before a GoP is cut, between cut and
  probe, between probe and retry, to one that fits, does not fit, and never fits.
- `Jobs` (`MCConvert`): up to 5 samples on up to 3 tracks, with times that meet a
  GoP boundary exactly, fall before the first one, or round differently in the
  timescales 4, 6 and 10. The audio-only input crosses two seconds inside a sample.
  A traf with several truns is given as one for each, which the reader treats alike.
  A last mdat that is cut off is planned and fails when its sample is read; a last
  header or moof that is cut off is refused at once.
- `CutUpTo` = 250: the file of two video frames and one of audio is that short in
  every form, so every byte of a header, a prefix, a moof and an mdat is an end.
- `C2paLen` = 25, one signature length for all, which the signer asserts.
- `FileSize` = 4, `DataSize` = 2 (1 MiB in the code): a call of 5 bytes takes three
  requests, and a short answer makes any of them more.

Deadlock checking is off where the system comes to its end: the input is
consumed and the last call has returned.

### Fairness

`CallerSpec` has weak fairness of `Run`, since a call of `feed` is a loop that
runs to its return, and strong fairness of feeding and of the final flush: the
loop of `cmd_segment_stdout` reads to the end of the input and then flushes, and
both are disabled while a call runs. `FairSpec` has weak fairness of each
goroutine, which the Go scheduler gives to one that can run, and of a consumer
that receives from the channels it reads. Nothing makes the wasm fail, the
manifest change or the context end. `Browser` has weak fairness of the worker,
a thread, and of the page, whose event loop comes round: the worker's wait returns
when the status has changed, and the page answers or refuses a request it has
seen. Nothing makes the page answer with more than no bytes.

## Proofs

TLC checks small instances; the theorems hold for every value of the constants that
meets the assumptions named with them, and all of them are theorems of the
specification, with the failures, retries and interleavings it has.

### Push segmenter

`Segmenter_proofs` proves for every set of tracks, remap, input and way of
feeding it, failing calls included:

- `TypeCorrect == Spec => []TypeOK`
- `EmittedInOrder == Spec => []InOrder`: the fragments of a track have strictly
  increasing sequence numbers through everything emitted, then the buffer, then
  the queue of minted frames. No sample is emitted twice or out of order.

`InOrder` is not inductive. A new frame gets the next number of its track's
clock, so the invariant must say that the clock is above every number in use;
and a call that fails empties `events` and `frames`, while `FeedReturn` moves
`events` to `delivered`, so it must say that no event is left when the caller has
control. `OrderInv` is `TypeOK`, `Ordered`, `BelowClock` and
`pc = "idle" => events = <<>>`. The lemmas `Good...` say that each way of changing
the list, the buffers, the queue or the clock (appending a frame, cutting a GoP,
dropping a suffix, setting a decode time, minting) keeps it, and `OrderStep` has
one step per action. `GopCut_proofs` holds the lemmas about the helpers.

It also proves what the GoPs are:

- `IndexesDescribe == Spec => []IndexDescribesBytes`
- `Numbered == Spec => []NumbersConsecutive`
- `OneKeyframe == Spec => []KeyframePerGop`
- `AudioGopsSpanASecond == Spec => []AudioSpans`
- `NoGaps == Spec => []GapFree`
- `AllRead == Spec => []NothingLeftToRead`

Five properties share a first half. `Settled` adds to the types what holds before the
moov and between calls, and `Moves` says that a step, seen from outside a call,
does one of five things: nothing (`StaysPut`, which a failing call that takes its
events with it is too), open the stream, take a frame with or without a cut before it,
or flush. Each property then needs its own strengthening and a case for each of the
five:

| Invariant | Adds | Without it |
|---|---|---|
| `IndexInv` | the offsets, lengths and sync samples kept beside the frames of a buffer describe them | nothing is known of the maps a cut turns into an index |
| `CountInv` | once a keyframe was seen, something is buffered | a cut with empty buffers would use up a number |
| `KeyInv` | no keyframe is buffered before the first is seen; after the first cut the buffer begins with one | a cut could leave a GoP with two, or with none |
| `SpanInv` | the deciding track of the buffer would be too short without its last frame | only the lower bound holds |
| `GapInv` | every number the clock of a track has given is emitted, buffered or queued, the earlier no later (`Whole`) | a number lost in the queue shows only when a later one is emitted |

`NothingLeftToRead` is inductive by itself.

The assumptions are those of the constants: `TrackAssumption`, `LengthAssumption`,
`StreamAssumption`, and `RemapAssumption`: the remap takes tracks to tracks, no two
to one. The code does not check the latter; the comment of `remap_track_ids` (`catalog.rs`
348) says that a track is given a free id. With two tracks on one id their fragments
would carry two clocks in one segment, so `InOrder` and `EachSampleOnce` need
it; it is among the hazards. No assumption restricts what a stream contains: boxes in
any order, of any size, that parse or do not.

### Pull segmenter

`PullSegmenter_proofs` proves

    THEOREM SamplesOnce ==
      ASSUME \A s \in Streams : Regular(s)
      PROVE  Spec => []EachSampleOnce

`OnceInv` says that the position in a moof is the one `PayloadAfter` computes for the
steps done so far (`Placed`), that no sample is in two places (`Once`), that what is in
a place is a sample that was minted (`Known`), and that those are somewhere, unless the
run has failed (`Kept`). `PayloadAfter` is a recursive function over the steps of a
moof; `PayloadRuns` shows that it satisfies its equations, by induction over the
interval of its domain.

`Regular` is what a file must be for the property to make sense of the code: a moov
before the moofs (those before it are skipped), no two samples of a track at one place of
the payload, and a trun that leaves its data offset out only where the payload begins,
because the code starts over there (`PullFollow` shows it). The run checks that its files
are regular, faulty ones included.

### Push implements pull

The last part of `Segmenter_proofs` proves

    THEOREM PushRefinesPull ==
      ASSUME \A s \in Streams : Paired(s)
      PROVE  CallerSpec => Pull!Init /\ [][~ failed' => [Pull!Next]_(Pull!vars)]_vars

and, as a corollary, that a behaviour in which no call fails is one of the pull
segmenter. `Pull` is the mapping the run `PushPull` checks: `gops` are the GoPs that
were emitted, in a list returned or not yet; a moof that the push
segmenter holds back until its mdat is complete is one the pull segmenter has not read. Between two steps of the pull loop
lie any number of steps that stutter: parts that arrive, boxes that are not
complete, calls that return. `MapInv` is `Settled`, `NothingLeftToRead` and where the
push reader stands: the pending moof is the box before the next one, the queue
is filled only while no moof is pending, and the Init is out once `streaming`.

`Paired` says that each moof is directly followed by its mdat, that no mdat has a
64-bit size and no box an unknown one. Without it the statement is false, and the code
is why: the pull reader takes the moof's mdat to be the next box, where the push one waits for it,
and it refuses the 64-bit size (`PushPullLarge`). After a call that failed there is
nothing to compare: the pull segmenter has one error and is over, the push one may be
called again. `MCPushPull` checks that its streams are paired.

That the pull loop ends when the push one does (the weak fairness in
`PushImplementsPull`) is checked by TLC only. The prover takes a theorem that is
reached through INSTANCE for opaque, so that the two theorems above give
`EachSampleOnce` of what the push segmenter emits is for the reader to put together.

### Event builder

`EventBuilder_proofs` proves for every set of tracks and of stored streams, every
place where a segment does not parse and every place where the sink refuses an event:

- `AllGivenBack == Spec => []NothingDropped`
- `InitsCover == Spec => []InitCoversGop`
- `GopsInferred == Spec => []GopsKept`

`BuildInv` adds that what was pushed is in the events or in the GoP being built, in the
stored order, and that the tracks of that GoP are below `lastTid`, which is why
none of them occurs twice. `CoverInv` adds that an Init is in force
(`InForce`) that holds exactly the tracks sent, and that a track it lacks is noted in
`pendingNew` while its GoP is built: without that note the flush would not emit
the Init the GoP needs. `KeptInv` adds that the GoP being built is that of the
segment last pushed, up to it (`Building`). That the end of a GoP is found
needs that the common track comes back in the next GoP, at a place not above the last
track; `Sorted`, that a list in store order is ordered between any two of its places, is an
induction over its length. `BuilderAssumption` (types of the constants) is all that is
assumed.

### Signing pipeline

`Concatenator_proofs` proves for any number of GoPs, any capacities, any sequence of
manifests of any lengths, and failures and cancellation at any step:

- `TypesHold == Spec => []TypeOK`
- `Sequenced == Spec => []InStep`
- `ClosedAfterAll == Spec => []ClosedWhenOver`
- `ManifestsFollow == Spec => []ManifestFollows`

They share `IndInv`. `Input` is what the two ends of the input pipe know of each other.
`Program` is where the wasm program stands: it reads only with nothing in
hand. `Numbered` counts: the bodies that were sent, what the parser and the
program hold, and the GoPs whose end the program has seen are the same number, unless
the context made the parser drop one; this is why a nil error means that all went out. `Paired`
says that the metadata is at most the one body behind that the parser is about to
complete. `Renewed` orders the manifests from the oldest event to the newest, what
the parser and the program hold included: without those the order of what was sent is not
kept by the next send. `Over` is the order of the ends: the parser, the channels,
`done`, `Close`. `PipelineAssumption` (types of the constants, capacities of at least
one) is all that is assumed.

### Conversion

`Convert_proofs` proves for every set of inputs, flat or fragmented, and every length of
prefixes and moofs:

- `ChunksRead == Spec => []ChunksResolved`
- `WrittenOnce == Spec => []SamplesWrittenOnce`
- `CutByTime == Spec => []GopsCutByTime`
- `OffsetsPoint == Spec => []OffsetsPointAtSamples`
- `PartialRefused == Spec => []PartialIsRefused`
- `ConvertTyped == Spec => []TypeOK`

`CInv` says where the writer is. Before the body (`Planning`) nothing is known but that
there is no fragment. In it (`InBody`), of each track some number *w* of samples is
written (`TrackSoFar`): those whose turn has come in the order of writing (`Reached`),
the fragments of the track in the file are these and no others (`TrackWritten`), and the
fragment clock of the track stands at *w* and at the decode time of the sample that comes
next. `SamplesWrittenOnce` speaks of what a reader finds in the finished file, the moofs of
a track by their places; that these places ascend in the order of writing is part of
`TrackWritten`.

The step that writes a sample keeps this only because the order of writing is the right one,
and that is where the work is. The sample written is number *w* + 1 of its track
(`Paced`): the GoP of a sample, the number of GoPs begun by its time in microseconds rounded
down, does not decrease along a track (`GopIn`), so the parts of a track, one for
each GoP, are intervals that follow each other, each sorted; and the segments are visited by
GoP, the empty ones left out (`Slotted`). None of that depends on where the GoPs begin,
video or audio, nor on timescales being alike. The rest is that the header has
no fragment in it and is of some length (`HeaderFileIs`, `InitFileIs`), and that adding a box
behind a file leaves the boxes before it alone (`Grown`).

`CutByTime` relates the tracks. That two of them are cut at the same times is no matter of
times alone: the property compares places in the file, and the place of a fragment is given by
its GoP and its track. Three facts make it up. First, a sample at which a GoP should open is in the
list of the starts, and the list has nothing between it and the sample before it
(`OpensIsCut`). For video the list is the sync samples. For audio it grows by at
most one entry for each sample while the seconds may jump by several; so it never runs ahead of the
seconds (`AudioPaced`), and at the first sample of a second it is behind by one or more
and takes it (`AudioOpener`). Second, the fragments of different tracks lie in
the file in the order of their turns (`InTurn`). `GInv` adds this to `CInv`, with the segments
being those of the plan; the step that writes a sample keeps it since what is written already
has had its turn before (`TurnsPass`). Third, of two samples the one with the later time is
in no earlier GoP, and none that is earlier than the opener is in a GoP later than that of the sample
before it (`CutAhead`); so time, GoP and place agree on both sides of the cut (`CutOfReference`,
`CutOfOther`). `OpensGop` says that the sample is the first at its time. A frame of no
duration ahead of a keyframe has the keyframe's time, and goes into the keyframe's GoP, since
`compute_gop_partition` compares times (`flat.rs` 995), although by its comment each sync
sample is a boundary (`flat.rs` 921).

`ChunksRead` is about the input, and so about one function and every table it may be given;
TLC sees it on the tables of the inputs of `Archive`. `resolve_sample_offsets` goes
through the runs of chunks, the chunks of a run and the samples of a chunk; what it must
yield is said chunk by chunk (`ChunkOf`: the run in force at a chunk is the last one that
has begun, and the numbers of samples add up). The two meet in three steps. The runs visit
each chunk once, in order, those behind the last chunk none (`RunVisited`, `ChunksVisited`).
The offsets after *c* chunks are the right ones for these chunks, and they are as many as the
chunks hold or as there are samples (`PlacedIn`, kept by `PlacedNext`). And a sample is in one chunk only
(`ChunkOfIs`). The property is for tables in which each sample has a chunk and the runs begin
at the first chunk and ascend (`PlacesAll`). Where a sample has none, the code indexes behind the
end of `file_offsets` (`fragment.rs` 596); runs that do not ascend say nothing of where
a sample is.

`OffsetsPoint` is about the header, which comes first and is computed apart from the body.
`AInv` adds to `CInv`, for a flat file, that there are places *P* for the segments
(`OutAimed`) such that the moov of the file aims at them (`Aimed`), they lie one behind the
other as their samples, moofs and prefixes ask (`Laid`), the samples that are written
lie where the moov says (`Landed`), and the file ends where the next one is to be
(`Reaches`). Two arguments meet there. When the header is written (`HeaderAims`): the metadata
of a GoP is that of its parts (`MetasAre`), so the co64 of a track, which adds up the GoPs
before and the smaller tracks of the same GoP, gives the places of its samples
(`EntriesAre`, `PlacesAre`); the canonical table, read back by `resolve_sample_offsets`, gives
its entries unchanged (`TraksAimed`); and the header of pass 1, with zeros for offsets, is as
long as the one that is written (`TrakLength`, `HeaderLength`). While the body is written
(`PrefixLands`, `SampleLands`): each step adds a prefix, or a moof and an mdat, of the lengths
that `IndexOf` counted.

`PartialRefused` has the same invariant and looks at the end of the file. The mdat
envelope announces the lengths of all the GoPs, and these are what the segments and
their prefixes take (`BodyIs`). The places of the segments grow (`BehindGrows`), so a file that
ends where a sample is still to come ends before its envelope does (`Sealed`,
`NotFilled`); and a file that is cut inside its envelope is refused whatever is in it
(`SearchIs`, `CutIsRefused`: the search for the envelope comes to it, and finds that it does
not fit). The property speaks of files that lack a sample, not of conversions that fail: of
a track that is not in the catalog and has no samples, `write_flat_mp4` only finds that out
when all has been written (`flat.rs` 1039), and what it leaves is a complete file.

The model's tables are recursive functions over indexes; `PrefixRecursion` shows
that such a function satisfies its equations, and is cited for sums, runs, decode times, starts
of GoPs and the samples of the metadata. `AscendingBy`, a set in the order of its weights,
is shown to list each element once, in that order (`Order`), by counting (`Ranks`).

Assumed, besides the types of the constants: `JobsAssumption`, that the plans read from an
input have types and their ids are distinct, after the renaming too (`remap_track_ids`,
`catalog.rs` 352, does not see to that; it is among the hazards), and
`RenamedAssumption`, that the constant `Remap`, which belongs to the streaming segmenters,
renames nothing here. The run checks both for its inputs.

### Scans of a wrapper

`Archive_proofs` proves

    THEOREM TwinsAgree == ArchiveSpec /\ [](Boxed(stored)) => []ScanMatchesUnwrap

`Boxed` is what a file is: it has a size, its boxes are at offsets, with
headers of 8 or 16 bytes that their lengths count, and a MUXL uuid box has room for its id.
`ArchiveTypeOK` has it as a conjunct, so the run checks that every wrapper it makes, cut
anywhere, is such a file. Nothing else is assumed of a wrapper: not that its segments are
whole, nor that its envelope ends where the file does.

`unwrap` is a recursive function of the file and `scan_wrapper_stream` a state machine, which
treats boxes in another order: it looks at one box at a time, hands a segment on when
the next one opens, and does not look for the end of the envelope in the file.
The invariant is a simulation by continuation: from the state the scan is in (cursor, open
segment, segments handed on), the loop of `unwrap` gives `unwrap`'s own result for the
whole file. At the end the loop has nothing left to do, so the two results are the same.
The exception is a file that has no MUXL uuid where one is looked for (`NoneBefore`): there
the scan has not opened a segment, and `unwrap` finds none.

### Browser buffers

`Browser_proofs` proves for every program of reads and writes, every size of the
file and of the data region, and every page that follows the protocol:

- `TypesHold == Spec => []TypeOK`
- `Handshake == Spec => []OneSideAtATime`
- `ReadsExact == Spec => []ReadsAreWhatWasAsked`
- `OutputComplete == Spec => []OutputInOrder`

`IndInv` has four parts. `States` is the type of every variable. `Turns` says who may
touch the buffers: a request stands on the buffer of the call under way and on no
other, and when the worker comes to look, the answer is there. `Reading` follows a
read through the calls `read_exact_at` makes of it: what is there so far is the bytes
of its place, the page was asked for the place that comes next, and what the read
buffer holds is that place from the moment the page has written it until the worker
has taken it. `Writing` says that all that was announced has been drained, but for the
one chunk in the buffer while `Undrained`, and for a call that was refused. Without
`Undrained` the page could drain a chunk twice; without `Turns` it could read one
that is being replaced. The lemmas `Bytes...` are about runs of consecutive bytes, and
`StatesStep`, `TurnsStep`, `ReadingStep` and `WritingStep` have one step per action.
`BrowserAssumption` is all they assume: the sizes are positive and the calls have
lengths and offsets.

### What is not proved

Model-checked only:

- All liveness: `EverySampleDelivered`, the end of the pull loop in
  `PushImplementsPull`, `WriterReturnsIfCalm`, `ChannelsClose`, `WorkerReturns`. No prover
  here handles fairness or ENABLED.
- Of the conversion, the readers of what was written: `ReadsBack`, `SkewKept`, `RecordedRanges`. Of the wrappers, what depends on how they were made: `CompleteIsRead`, `NothingTorn`, `SeekMatchesScan`,
  `M4sHeaderPoints`, `SameAsDirect`. Readers of tables, aggregate catalogs and regroupings
  compute with folds and filters of the community modules, operators
  with an operator for a parameter or recursive ones, of which the provers see no equation;
  where such a computation mattered to a theorem it was written as a recursive function.

An induction is possible over a set (`SetInduction` in `PullSegmenter_proofs` and
in `EventBuilder_proofs`, from the well-foundedness of finite sets), since a set can be
instantiated and a predicate cannot. So what a recursive function computes can be proved,
as for `PayloadAfter`, where the function is over numbers and is written as such.

## Not modelled

- Bytes: the encodings of boxes, CBOR and catalogs; codec configurations; the text
  of playlists; signatures, certificates, manifests and hashes. These are libraries or
  pure functions of one value. What a damaged box makes a decoder do is the
  choice between success and failure.
- `timescale.rs`, which the modelled paths do not call: `flat.rs` rescales itself, and
  that is in `CanonicalBody`. The functions of `sample_table.rs` that nothing calls.
- `fragment_to_directory` and the files the commands name and place.
- Boxes whose size field is 0 or wrong in a stored file: a box of the model announces
  the length it had when it was written, and a file differs from that by being cut.
- `host_sign`, but as a call that may fail; the memory allocator, but as a failure.
- The other calls of the Go engine, which are `runWith` without channels.
- A failure of the sink of a conversion, and inputs that change while they are read.
- Command lines, examples, developer scripts.
- A change of configuration mid-stream: the spec (`canonical-form.md`) excludes
  it, and the segmenter skips a second moov, which `SkipBox` models.
- The wasm runtime, `io.Pipe`, channels and the page of the browser: modelled from how
  `go/` and `wasm_io.rs` use them.

## Plan

1. *Done.* `GopCut`, `Segmenter`, `PullSegmenter`, `PushPull`: the core.
2. *Done.* `EventBuilder`, `StoreOrder`: events of stored streams.
3. *Done.* `Concatenator`: the signing pipeline in Go, with the manifest's probe and retry.
4. *Done.* `Catalogs`, `SampleTable`, `Wrapper`, `CanonicalBody`, `Convert`: the random-access
   writers and readers; `Hls`.
5. *Done.* `Presentation`, `Archive`: wrappers, metafiles and the scans.
6. *Done.* `Browser`.

Proofs. *Done:* the push segmenter, the pull one, the step simulation between them, the
event builder, the signing pipeline, the browser buffers, the samples a conversion writes and
where it cuts them, the offsets of the header it writes first, that what is cut short is refused,
the offsets a reader finds in any sample table, and the agreement of the two scans. *Left:* `Boxed` of every wrapper that is made, which would free
`TwinsAgree` of its hypothesis; the readers of the canonical file; a
machine-checked `EachSampleOnce` of the push segmenter itself.
