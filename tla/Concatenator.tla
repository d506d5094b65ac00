---------------------------- MODULE Concatenator ----------------------------
(***************************************************************************)
(* The signing segmenter of the Go wrapper: Concatenator (go/concat.go)    *)
(* over runWith and parseEvents (go/runtime.go) over the loop of the wasm  *)
(* program (sign_segment_stream_with, crates/muxl/src/sign.rs).            *)
(*                                                                         *)
(*   writer -> io.Pipe -> copier -> io.Pipe -> wasm -> io.Pipe -> parser   *)
(*          -> InitCh, SegCh, EventCh -> consumer                          *)
(*                                                                         *)
(* The g-th Write holds the g-th GoP (the first one the moov too), which   *)
(* the segmenter cuts when the next Write or the end of the input shows    *)
(* where it ends.  An io.Pipe has no buffer: a write to it returns when it *)
(* has been read.                                                          *)
(***************************************************************************)
EXTENDS Integers, Sequences

CONSTANTS
  Gops,          \* how many GoPs are written
  Cap,           \* the capacity of each channel
  Reads,         \* the channels the consumer receives from
  Manifests,     \* how often the manifest of the stream changes
  ManifestLen,   \* the length of each version of it
  InitialLen,    \* HOST_MANIFEST_INITIAL_LEN
  MaxLen,        \* HOST_MANIFEST_MAX_LEN
  MayFail,       \* whether the wasm may fail
  MayCancel      \* whether the context may be cancelled

Chan == {"init", "seg", "event"}

ASSUME PipelineAssumption ==
  /\ Gops \in Nat
  /\ Cap \in [Chan -> Nat \ {0}]
  /\ Reads \subseteq Chan
  /\ Manifests \in Nat
  /\ ManifestLen \in [0..Manifests -> Nat]
  /\ InitialLen \in Nat /\ MaxLen \in Nat
  /\ MayFail \in BOOLEAN /\ MayCancel \in BOOLEAN

VARIABLES
  writer,     \* the goroutine that calls Write and Close, and its number of Writes
  copier,     \* io.Copy from the pipe of the Concatenator to the stdin of the wasm
  wasm,       \* the wasm program: the events it has still to write, and the
              \* length of the buffer it has for a manifest
  stdout,     \* the pipe it writes to: "open", "closed", or "torn" inside an event
  parser,     \* parseEvents and the event it is handing over
  sent,       \* all that was sent to each channel
  received,   \* how much of it was received
  closed,     \* how many of InitCh, SegCh, EventCh are closed, in this order
  done,       \* the error of run on the channel done
  manifest,   \* the version of the manifest the host returns
  cancelled   \* whether ctx is done

pipeVars == <<writer, copier, wasm, stdout>>
chanVars == <<sent, received, closed, done>>
hostVars == <<manifest, cancelled>>
vars == <<pipeVars, parser, chanVars, hostVars>>

Result == {"none", "nil", "error"}

\* An event: the GoP (0 for the Init), the manifest in force when it was cut,
\* and the manifest it is signed with.
Event(g) == [gop |-> g, cut |-> manifest, with |-> manifest]
NoEvent == [gop |-> 0, cut |-> 0, with |-> 0]

Init ==
  /\ writer = [pc |-> "ready", n |-> 0]
  /\ copier = "idle"
  /\ wasm = [pc |-> "read", queue |-> <<>>, last |-> FALSE, room |-> InitialLen, err |-> "none"]
  /\ stdout = "open"
  /\ parser = [pc |-> "decode", ev |-> NoEvent, err |-> "none"]
  /\ sent = [c \in Chan |-> <<>>]
  /\ received = [c \in Chan |-> 0]
  /\ closed = 0
  /\ done = "none"
  /\ manifest = 0
  /\ cancelled = FALSE

-----------------------------------------------------------------------------
(* The caller that writes.                                                 *)

Write ==
  /\ writer.pc = "ready"
  /\ writer.n < Gops
  /\ writer' = [pc |-> "writing", n |-> writer.n + 1]
  /\ UNCHANGED <<copier, wasm, stdout, parser, chanVars, hostVars>>

Close ==
  /\ writer.pc = "ready"
  /\ writer.n = Gops
  /\ writer' = [writer EXCEPT !.pc = "closing"]
  /\ UNCHANGED <<copier, wasm, stdout, parser, chanVars, hostVars>>

CloseReturns ==
  /\ writer.pc = "closing"
  /\ done # "none"
  /\ writer' = [writer EXCEPT !.pc = "closed"]
  /\ UNCHANGED <<copier, wasm, stdout, parser, chanVars, hostVars>>

-----------------------------------------------------------------------------
(* io.Copy: it reads what is written, which lets the Write return, and     *)
(* writes it to the stdin of the wasm.  Nobody closes the reading end of   *)
(* either pipe.                                                            *)

CopyRead ==
  /\ copier = "idle"
  /\ writer.pc = "writing"
  /\ copier' = "holding"
  /\ writer' = [writer EXCEPT !.pc = "ready"]
  /\ UNCHANGED <<wasm, stdout, parser, chanVars, hostVars>>

\* A slip: the stdin of the wasm is left open.
CopyEndsOpen ==
  /\ copier = "idle"
  /\ writer.pc = "closing"
  /\ copier' = "left"
  /\ UNCHANGED <<writer, wasm, stdout, parser, chanVars, hostVars>>

CopyEnds ==
  /\ copier = "idle"
  /\ writer.pc = "closing"
  /\ copier' = "ended"
  /\ UNCHANGED <<writer, wasm, stdout, parser, chanVars, hostVars>>

-----------------------------------------------------------------------------
(* The wasm program.                                                       *)

\* The Writes that the program has read: all but what is on its way.
ReadSoFar ==
  writer.n - (IF writer.pc = "writing" THEN 1 ELSE 0)
           - (IF copier = "holding" THEN 1 ELSE 0)

WasmRead ==
  /\ wasm.pc = "read"
  /\ copier = "holding"
  /\ copier' = "idle"
  /\ wasm' = [wasm EXCEPT !.pc = "handle", !.queue = <<Event(ReadSoFar)>>]
  /\ UNCHANGED <<writer, stdout, parser, chanVars, hostVars>>

\* The end of the input: segmenter.flush().
WasmFlush ==
  /\ wasm.pc = "read"
  /\ copier = "ended"
  /\ wasm' = [wasm EXCEPT !.pc = "handle", !.last = TRUE,
                          !.queue = IF Gops > 0 THEN <<Event(Gops)>> ELSE <<>>]
  /\ UNCHANGED <<writer, copier, stdout, parser, chanVars, hostVars>>

\* handle_event: an Init is not signed.
WriteInit ==
  /\ wasm.pc = "handle"
  /\ wasm.queue # <<>> /\ wasm.queue[1].gop = 0
  /\ wasm' = [wasm EXCEPT !.pc = "write"]
  /\ UNCHANGED <<writer, copier, stdout, parser, chanVars, hostVars>>

\* A Segment is signed with the manifest the host returns now (next_track,
\* host_get_manifest_callback).  The host writes it if it fits in the buffer,
\* and otherwise only says how long it is.
Fetching == wasm.pc \in {"handle", "retry"} /\ wasm.queue # <<>> /\ wasm.queue[1].gop > 0
HostLen  == ManifestLen[manifest]

\* A slip: the manifest is fetched once, at the start.
SignOnce ==
  /\ Fetching
  /\ HostLen <= wasm.room
  /\ wasm' = [wasm EXCEPT !.pc = "write", !.queue[1].with = 0, !.room = InitialLen]
  /\ UNCHANGED <<writer, copier, stdout, parser, chanVars, hostVars>>

Sign ==
  /\ Fetching
  /\ HostLen <= wasm.room
  /\ wasm' = [wasm EXCEPT !.pc = "write", !.queue[1].with = manifest, !.room = InitialLen]
  /\ UNCHANGED <<writer, copier, stdout, parser, chanVars, hostVars>>

\* A longer one makes the buffer grow, once; the host is then asked anew.
Grow ==
  /\ Fetching
  /\ wasm.pc = "handle"
  /\ wasm.room < HostLen /\ HostLen <= MaxLen
  /\ wasm' = [wasm EXCEPT !.pc = "retry", !.room = HostLen]
  /\ UNCHANGED <<writer, copier, stdout, parser, chanVars, hostVars>>

\* An implausible length, or one that grew between the calls, ends the program.
Outgrown ==
  /\ Fetching
  /\ wasm.room < HostLen
  /\ wasm.pc = "retry" \/ MaxLen < HostLen
  /\ wasm' = [wasm EXCEPT !.pc = "ended", !.err = "error"]
  /\ stdout' = "closed"
  /\ UNCHANGED <<writer, copier, parser, chanVars, hostVars>>

NextRead ==
  /\ wasm.pc = "handle"
  /\ wasm.queue = <<>>
  /\ ~ wasm.last
  /\ wasm' = [wasm EXCEPT !.pc = "read"]
  /\ UNCHANGED <<writer, copier, stdout, parser, chanVars, hostVars>>

WasmExits ==
  /\ wasm.pc = "handle"
  /\ wasm.queue = <<>>
  /\ wasm.last
  /\ wasm' = [wasm EXCEPT !.pc = "ended", !.err = "nil"]
  /\ stdout' = "closed"
  /\ UNCHANGED <<writer, copier, parser, chanVars, hostVars>>

\* A slip: stdout is closed on a clean exit only.
WasmFailsOpen ==
  /\ MayFail
  /\ wasm.pc \in {"handle", "retry", "write"}
  /\ wasm' = [wasm EXCEPT !.pc = "ended", !.err = "error"]
  /\ UNCHANGED <<writer, copier, stdout, parser, chanVars, hostVars>>

\* An input that does not parse, a signer or a manifest callback that returns
\* an error, or a memory cap exceeded, maybe in the middle of an event.
WasmFails ==
  /\ MayFail
  /\ wasm.pc \in {"handle", "retry", "write"}
  /\ wasm' = [wasm EXCEPT !.pc = "ended", !.err = "error"]
  /\ stdout' \in {"closed"} \cup IF wasm.pc = "write" THEN {"torn"} ELSE {}
  /\ UNCHANGED <<writer, copier, parser, chanVars, hostVars>>

-----------------------------------------------------------------------------
(* parseEvents.                                                            *)

Decode ==
  /\ parser.pc = "decode"
  /\ wasm.pc = "write"
  /\ parser' = [parser EXCEPT !.pc = "body", !.ev = Head(wasm.queue)]
  /\ wasm' = [wasm EXCEPT !.pc = "handle", !.queue = Tail(@)]
  /\ UNCHANGED <<writer, copier, stdout, chanVars, hostVars>>

DecodeEnds ==
  /\ parser.pc = "decode"
  /\ stdout # "open"
  /\ parser' = [parser EXCEPT !.pc = "returned",
                              !.err = IF stdout = "torn" THEN "error" ELSE "nil"]
  /\ UNCHANGED <<pipeVars, chanVars, hostVars>>

BodyChan == IF parser.ev.gop = 0 THEN "init" ELSE "seg"
InChan(c) == SubSeq(sent[c], received[c] + 1, Len(sent[c]))

Send(c) ==
  /\ Len(InChan(c)) < Cap[c]
  /\ sent' = [sent EXCEPT ![c] = Append(@, parser.ev)]
  /\ UNCHANGED <<pipeVars, received, closed, done, hostVars>>

\* A slip: the metadata goes out before the bytes.
EventFirst ==
  /\ parser.pc = "body"
  /\ Send("event")
  /\ parser' = [parser EXCEPT !.pc = "decode"]

SendBody ==
  /\ parser.pc = "body"
  /\ Send(BodyChan)
  /\ parser' = [parser EXCEPT !.pc = "event"]

SendEvent ==
  /\ parser.pc = "event"
  /\ Send("event")
  /\ parser' = [parser EXCEPT !.pc = "decode"]

\* select may take ctx.Done() though the channel has room.
ParserCancelled ==
  /\ cancelled
  /\ parser.pc \in {"body", "event"}
  /\ parser' = [parser EXCEPT !.pc = "returned", !.err = "nil"]
  /\ UNCHANGED <<pipeVars, chanVars, hostVars>>

-----------------------------------------------------------------------------
(* The goroutine of newConcatenator.  runWith returns at once when the     *)
(* parser fails, and otherwise waits for the wasm.                         *)

RunReturns ==
  parser.pc = "returned" /\ (parser.err = "error" \/ wasm.pc = "ended")

RunError == IF parser.err = "error" THEN "error" ELSE wasm.err

\* A slip: run does not wait for the parser.
CloseEarly ==
  /\ wasm.pc = "ended"
  /\ closed < 3
  /\ closed' = closed + 1
  /\ UNCHANGED <<pipeVars, parser, sent, received, done, hostVars>>

\* A slip: a channel that is closed is closed again.
CloseAgain ==
  /\ RunReturns
  /\ closed <= 3
  /\ closed' = closed + 1
  /\ UNCHANGED <<pipeVars, parser, sent, received, done, hostVars>>

CloseChannel ==
  /\ RunReturns
  /\ closed < 3
  /\ closed' = closed + 1
  /\ UNCHANGED <<pipeVars, parser, sent, received, done, hostVars>>

SignalDone ==
  /\ closed = 3
  /\ done = "none"
  /\ done' = RunError
  /\ UNCHANGED <<pipeVars, parser, sent, received, closed, hostVars>>

-----------------------------------------------------------------------------
(* The consumer and the host.                                              *)

Receive(c) ==
  /\ c \in Reads
  /\ InChan(c) # <<>>
  /\ received' = [received EXCEPT ![c] = @ + 1]
  /\ UNCHANGED <<pipeVars, parser, sent, closed, done, hostVars>>

ChangeManifest ==
  /\ manifest < Manifests
  /\ manifest' = manifest + 1
  /\ UNCHANGED <<pipeVars, parser, chanVars, cancelled>>

Cancel ==
  /\ MayCancel
  /\ ~ cancelled
  /\ cancelled' = TRUE
  /\ UNCHANGED <<pipeVars, parser, chanVars, manifest>>

-----------------------------------------------------------------------------

WriterNext == Write \/ Close \/ CloseReturns
CopierNext == CopyRead \/ CopyEnds
WasmNext ==
  WasmRead \/ WasmFlush \/ WriteInit \/ Sign \/ Grow \/ Outgrown \/ NextRead \/ WasmExits
ParserNext == Decode \/ DecodeEnds \/ SendBody \/ SendEvent \/ ParserCancelled
RunNext == CloseChannel \/ SignalDone

Next ==
  \/ WriterNext \/ CopierNext \/ WasmNext \/ WasmFails \/ ParserNext \/ RunNext
  \/ \E c \in Chan : Receive(c)
  \/ ChangeManifest \/ Cancel

Spec == Init /\ [][Next]_vars

\* The goroutines run, the writer writes its GoPs and closes, and the consumer
\* receives what there is in the channels it reads.  Nothing makes the wasm
\* fail, the manifest change or the context end.
FairSpec ==
  /\ Spec
  /\ WF_vars(WriterNext) /\ WF_vars(CopierNext) /\ WF_vars(WasmNext)
  /\ WF_vars(ParserNext) /\ WF_vars(RunNext)
  /\ \A c \in Chan : WF_vars(Receive(c))

-----------------------------------------------------------------------------

Ev == [gop : 0..Gops, cut : 0..Manifests, with : 0..Manifests]

TypeOK ==
  /\ writer \in [pc : {"ready", "writing", "closing", "closed"}, n : 0..Gops]
  /\ copier \in {"idle", "holding", "ended"}
  /\ wasm \in [pc : {"read", "handle", "retry", "write", "ended"}, queue : Seq(Ev),
               last : BOOLEAN, room : Nat, err : Result]
  /\ Len(wasm.queue) <= 1
  /\ stdout \in {"open", "closed", "torn"}
  /\ parser \in [pc : {"decode", "body", "event", "returned"}, ev : Ev, err : Result]
  /\ sent \in [Chan -> Seq(Ev)]
  /\ received \in [Chan -> Nat]
  /\ closed \in 0..3
  /\ done \in Result
  /\ manifest \in 0..Manifests
  /\ cancelled \in BOOLEAN

\* What InitCh and SegCh were sent, in the order of EventCh.
Bodies == sent["init"] \o sent["seg"]

\* However the five goroutines interleave, each channel gets the Init and the
\* GoPs in the order they were written, none skipped or sent twice, none before
\* the end of the GoP was written, and the metadata of each right after its
\* bytes (SegCh and EventCh of Concatenator).
InStep ==
  /\ \A i \in DOMAIN Bodies : Bodies[i].gop = i - 1
  /\ \A i \in DOMAIN sent["event"] : i <= Len(Bodies) /\ sent["event"][i] = Bodies[i]
  /\ Len(Bodies) - Len(sent["event"]) \in
       IF parser.pc = "event" THEN {1} ELSE IF parser.pc = "returned" THEN {0, 1} ELSE {0}
  /\ \A i \in DOMAIN sent["seg"] : i < writer.n \/ writer.pc \in {"closing", "closed"}

\* A channel is closed only when nothing more is sent to it, Close returns when
\* the three are closed ("the output channels are closed by the time it
\* returns"), and a nil error then means that every GoP went out, unless the
\* context was cancelled.
ClosedWhenOver ==
  /\ closed > 0 => parser.pc = "returned"
  /\ done # "none" => closed = 3
  /\ writer.pc = "closed" => done # "none"
  /\ done = "nil" /\ ~ cancelled =>
       Len(sent["seg"]) = Gops /\ Len(sent["event"]) = Len(Bodies)

\* Each GoP is signed with a manifest no older than the one in force when it
\* was cut, and never with an older one than the GoP before it: a change made
\* mid-stream is picked up and stays (SignSegment: "pick up mid-stream manifest
\* changes"), also one between the probe of its length and the retry.
ManifestFollows ==
  \A i \in DOMAIN sent["seg"] :
    /\ sent["seg"][i].cut <= sent["seg"][i].with
    /\ i > 1 => sent["seg"][i - 1].with <= sent["seg"][i].with

\* go func() { c.Write(archive); c.Close() }() comes to an end.
WriterReturns == <>(writer.pc = "closed")

\* Nothing in the pipeline waits for ever on something that waits for it: with
\* the channels drained, the writer comes to an end unless the wasm failed or
\* the context was cancelled ("Close ... waits for the pipeline to finish").
WriterReturnsIfCalm == <>(writer.pc = "closed" \/ wasm.err = "error" \/ cancelled)

\* Whenever the wasm fails, over a manifest that grew too, InitCh, SegCh and
\* EventCh "are closed when processing finishes": a consumer that ranges over
\* them comes to an end, unless the context was cancelled.
ChannelsClose == <>(closed = 3 \/ cancelled)
=============================================================================
