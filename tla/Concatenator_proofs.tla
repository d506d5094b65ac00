------------------------- MODULE Concatenator_proofs -------------------------
(***************************************************************************)
(* The safety of the signing pipeline, for any number of GoPs, any channel *)
(* capacities, any sequence of manifests, and failures and cancellation at *)
(* any point.                                                              *)
(***************************************************************************)
EXTENDS Concatenator, SequenceTheorems, TLAPS

-----------------------------------------------------------------------------
(* The inductive invariant.                                                *)

Closing == writer.pc \in {"closing", "closed"}

\* What each end of the input knows of the other.
Input ==
  /\ ReadSoFar \in 0..Gops
  /\ Closing => writer.n = Gops
  /\ copier = "ended" => Closing
  /\ wasm.last => copier = "ended"

\* Where the wasm program stands.
Program ==
  /\ wasm.pc = "read" => wasm.queue = <<>> /\ ~ wasm.last
  /\ wasm.pc \in {"retry", "write"} => wasm.queue # <<>>
  /\ stdout # "open" => wasm.pc = "ended"
  /\ wasm.err = "nil" => wasm.last /\ wasm.queue = <<>> /\ wasm.pc = "ended"

Count == Len(sent["init"]) + Len(sent["seg"])

\* How many events the parser and the wasm hold.
InHand == (IF parser.pc = "body" THEN 1 ELSE 0) + Len(wasm.queue)

\* The GoPs whose end the program has seen, and the Init.
Cut == ReadSoFar + (IF wasm.last /\ Gops > 0 THEN 1 ELSE 0)

\* The bodies that were sent are numbered without a gap, the Init first; what
\* is in hand comes next, and with it nothing that was cut is missing, unless
\* the context made the parser drop it.
Numbered ==
  /\ Len(sent["init"]) \in {0, 1}
  /\ sent["seg"] # <<>> => Len(sent["init"]) = 1
  /\ \A i \in 1..Len(sent["init"]) : sent["init"][i].gop = 0
  /\ \A i \in 1..Len(sent["seg"]) : sent["seg"][i].gop = i
  /\ parser.pc = "body" => parser.ev.gop = Count
  /\ parser.pc # "returned" /\ wasm.queue # <<>> =>
       wasm.queue[1].gop = Count + (IF parser.pc = "body" THEN 1 ELSE 0)
  /\ parser.pc # "returned" \/ ~ cancelled => Count + InHand = Cut
  /\ sent["seg"] # <<>> => Len(sent["seg"]) < writer.n \/ Closing

\* The metadata of each body follows it.
Paired ==
  /\ \A i \in 1..Len(sent["event"]) : i <= Count /\ sent["event"][i] = Bodies[i]
  /\ Count - Len(sent["event"]) \in
       IF parser.pc = "event" THEN {1}
       ELSE IF parser.pc = "returned" /\ cancelled THEN {0, 1} ELSE {0}
  /\ parser.pc = "event" => Count > 0 /\ parser.ev = Bodies[Count]

\* Manifests do not go back, from the oldest event to the newest.
Fresh(e) == e.cut <= e.with /\ e.with <= manifest

Renewed ==
  /\ Fresh(parser.ev)
  /\ \A i \in 1..Len(sent["seg"]) : Fresh(sent["seg"][i])
  /\ \A i, j \in 1..Len(sent["seg"]) : i < j => sent["seg"][i].with <= sent["seg"][j].with
  /\ parser.pc = "body" => \A i \in 1..Len(sent["seg"]) : sent["seg"][i].with <= parser.ev.with
  /\ wasm.queue # <<>> =>
       /\ Fresh(wasm.queue[1])
       /\ \A i \in 1..Len(sent["seg"]) : sent["seg"][i].with <= wasm.queue[1].with
       /\ parser.pc = "body" => parser.ev.with <= wasm.queue[1].with

\* The channels close after the parser, done after the channels, Close after that.
Over ==
  /\ closed > 0 => RunReturns
  /\ done # "none" => closed = 3
  /\ done = "nil" => wasm.err = "nil"
  /\ writer.pc = "closed" => done # "none"
  /\ parser.pc = "returned" => parser.err \in {"nil", "error"}

IndInv == TypeOK /\ Input /\ Program /\ Numbered /\ Paired /\ Renewed /\ Over

-----------------------------------------------------------------------------
(* Type correctness, and what each step makes of the wasm program.         *)

LEMMA EvType ==
  ASSUME NEW e \in Ev
  PROVE  e.gop \in 0..Gops /\ e.cut \in 0..Manifests /\ e.with \in 0..Manifests
BY DEF Ev

LEMMA SentTypes ==
  ASSUME TypeOK
  PROVE  \A c \in Chan : /\ sent[c] \in Seq(Ev) /\ Len(sent[c]) \in Nat
                         /\ DOMAIN sent[c] = 1..Len(sent[c])
                         /\ \A i \in 1..Len(sent[c]) : sent[c][i] \in Ev
BY DEF TypeOK

LEMMA NewEvent ==
  ASSUME TypeOK, NEW g \in 0..Gops
  PROVE  /\ Event(g) \in Ev /\ <<Event(g)>> \in Seq(Ev) /\ Len(<<Event(g)>>) = 1
         /\ <<Event(g)>> # <<>> /\ <<Event(g)>>[1] = Event(g)
         /\ Event(g).gop = g /\ Event(g).cut = manifest /\ Event(g).with = manifest
BY DEF TypeOK, Ev, Event

\* Signing changes the manifest of the first event and nothing else in the queue.
LEMMA Signed ==
  ASSUME TypeOK, wasm.queue # <<>>, NEW q, q = [wasm.queue EXCEPT ![1].with = manifest]
  PROVE  /\ q \in Seq(Ev) /\ Len(q) = Len(wasm.queue) /\ q # <<>>
         /\ q[1].gop = wasm.queue[1].gop /\ q[1].cut = wasm.queue[1].cut
         /\ q[1].with = manifest
<1>1. wasm.queue \in Seq(Ev) /\ manifest \in 0..Manifests
  BY DEF TypeOK
<1>2. 1 \in 1..Len(wasm.queue) /\ wasm.queue[1] \in Ev
  BY <1>1, EmptySeq
<1> DEFINE e == [wasm.queue[1] EXCEPT !.with = manifest]
<1>3. e \in Ev /\ e.gop = wasm.queue[1].gop /\ e.cut = wasm.queue[1].cut /\ e.with = manifest
  BY <1>1, <1>2 DEF Ev
<1>4. q = [wasm.queue EXCEPT ![1] = e]
  OBVIOUS
<1> HIDE DEF e
<1>5. q \in Seq(Ev) /\ Len(q) = Len(wasm.queue) /\ q[1] = e
  BY <1>1, <1>2, <1>3, <1>4, ExceptSeq
<1> QED
  BY <1>2, <1>3, <1>5, EmptySeq

\* Which actions may change which variables.
LEMMA Touches ==
  ASSUME [Next]_vars
  PROVE  /\ Write \/ Close \/ CloseReturns \/ CopyRead \/ writer' = writer
         /\ CopyRead \/ CopyEnds \/ WasmRead \/ copier' = copier
         /\ \/ WasmRead \/ WasmFlush \/ WriteInit \/ Sign \/ Grow \/ Outgrown \/ NextRead
            \/ WasmExits \/ WasmFails \/ Decode \/ wasm' = wasm
         /\ Outgrown \/ WasmExits \/ WasmFails \/ stdout' = stdout
         /\ Decode \/ DecodeEnds \/ SendBody \/ SendEvent \/ ParserCancelled \/ parser' = parser
         /\ SendBody \/ SendEvent \/ sent' = sent
         /\ (\E c \in Chan : Receive(c)) \/ received' = received
         /\ CloseChannel \/ closed' = closed
         /\ SignalDone \/ done' = done
         /\ ChangeManifest \/ manifest' = manifest
         /\ Cancel \/ cancelled' = cancelled
BY DEF Next, WriterNext, Write, Close, CloseReturns, CopierNext, CopyRead, CopyEnds,
   WasmNext, WasmRead, WasmFlush, WriteInit, Sign, Grow, Outgrown, NextRead, WasmExits,
   WasmFails, ParserNext, Decode, DecodeEnds, SendBody, SendEvent, Send, ParserCancelled,
   RunNext, CloseChannel, SignalDone, Receive, ChangeManifest, Cancel,
   vars, pipeVars, chanVars, hostVars

Wasm == [pc : {"read", "handle", "retry", "write", "ended"}, queue : Seq(Ev),
         last : BOOLEAN, room : Nat, err : Result]

\* The program and its queue of at most one event: every step, but for those
\* that cut, sign or hand over an event, leaves the queue.
LEMMA WasmMoves ==
  ASSUME IndInv, [Next]_vars
  PROVE  /\ wasm' \in Wasm /\ Len(wasm'.queue) <= 1
         /\ WasmRead => /\ wasm'.pc = "handle" /\ wasm'.queue = <<Event(ReadSoFar)>>
                        /\ wasm'.last = wasm.last /\ wasm'.err = wasm.err
         /\ WasmFlush => /\ wasm'.pc = "handle" /\ wasm'.last = TRUE /\ wasm'.err = wasm.err
                         /\ wasm'.queue = IF Gops > 0 THEN <<Event(Gops)>> ELSE <<>>
         /\ Sign => /\ wasm'.pc = "write" /\ wasm.queue # <<>> /\ wasm'.queue # <<>>
                    /\ Len(wasm'.queue) = Len(wasm.queue)
                    /\ wasm'.queue[1].gop = wasm.queue[1].gop
                    /\ wasm'.queue[1].cut = wasm.queue[1].cut
                    /\ wasm'.queue[1].with = manifest
                    /\ wasm'.last = wasm.last /\ wasm'.err = wasm.err
         /\ Decode => /\ wasm'.pc = "handle" /\ wasm'.queue = <<>> /\ Len(wasm.queue) = 1
                      /\ Head(wasm.queue) = wasm.queue[1] /\ wasm.queue[1] \in Ev
                      /\ wasm'.last = wasm.last /\ wasm'.err = wasm.err
         /\ ~ (WasmRead \/ WasmFlush \/ Sign \/ Decode) =>
              /\ wasm'.queue = wasm.queue /\ wasm'.last = wasm.last
<1>0. wasm \in Wasm /\ Len(wasm.queue) <= 1 /\ manifest \in 0..Manifests
  BY DEF IndInv, TypeOK, Wasm
<1>1. CASE WasmRead
  <2>1. wasm' = [wasm EXCEPT !.pc = "handle", !.queue = <<Event(ReadSoFar)>>]
    BY <1>1 DEF WasmRead
  <2>2. <<Event(ReadSoFar)>> \in Seq(Ev) /\ Len(<<Event(ReadSoFar)>>) = 1
    BY NewEvent DEF IndInv, Input
  <2>3. wasm' = [pc |-> "handle", queue |-> <<Event(ReadSoFar)>>, last |-> wasm.last,
                 room |-> wasm.room, err |-> wasm.err]
    BY <1>0, <2>1 DEF Wasm
  <2>4. ~ WasmFlush /\ ~ Sign /\ ~ Decode
    BY <1>1 DEF WasmRead, WasmFlush, Sign, Fetching, Decode
  <2> QED
    BY <1>0, <1>1, <2>2, <2>3, <2>4 DEF Wasm
<1>2. CASE WasmFlush
  <2> DEFINE q == IF Gops > 0 THEN <<Event(Gops)>> ELSE <<>>
  <2>1. wasm' = [wasm EXCEPT !.pc = "handle", !.last = TRUE, !.queue = q]
    BY <1>2 DEF WasmFlush
  <2>2. q \in Seq(Ev) /\ Len(q) <= 1
    <3>1. Gops \in 0..Gops
      BY PipelineAssumption
    <3>2. <<Event(Gops)>> \in Seq(Ev) /\ Len(<<Event(Gops)>>) = 1
      BY <3>1, NewEvent DEF IndInv
    <3>3. <<>> \in Seq(Ev) /\ Len(<<>>) = 0
      BY EmptySeq
    <3> QED
      BY <3>2, <3>3
  <2> HIDE DEF q
  <2>3. wasm' = [pc |-> "handle", queue |-> q, last |-> TRUE,
                 room |-> wasm.room, err |-> wasm.err]
    BY <1>0, <2>1 DEF Wasm
  <2>4. ~ WasmRead /\ ~ Sign /\ ~ Decode
    BY <1>2 DEF WasmRead, WasmFlush, Sign, Fetching, Decode
  <2> QED
    BY <1>0, <1>2, <2>2, <2>3, <2>4 DEF Wasm, q
<1>3. CASE Sign
  <2> DEFINE q == [wasm.queue EXCEPT ![1].with = manifest]
  <2>1. /\ wasm' = [wasm EXCEPT !.pc = "write", !.queue = q, !.room = InitialLen]
        /\ wasm.queue # <<>>
    BY <1>0, <1>3 DEF Sign, Fetching, Wasm
  <2>2. /\ q \in Seq(Ev) /\ Len(q) = Len(wasm.queue) /\ q # <<>>
        /\ q[1].gop = wasm.queue[1].gop /\ q[1].cut = wasm.queue[1].cut
        /\ q[1].with = manifest
    BY <2>1, Signed DEF IndInv
  <2> HIDE DEF q
  <2>3. wasm' = [pc |-> "write", queue |-> q, last |-> wasm.last,
                 room |-> InitialLen, err |-> wasm.err]
    BY <1>0, <2>1 DEF Wasm
  <2>4. ~ WasmRead /\ ~ WasmFlush /\ ~ Decode
    BY <1>3 DEF WasmRead, WasmFlush, Sign, Fetching, Decode
  <2> QED
    BY <1>0, <1>3, <2>1, <2>2, <2>3, <2>4, PipelineAssumption DEF Wasm
<1>4. CASE Decode
  <2>1. wasm' = [wasm EXCEPT !.pc = "handle", !.queue = Tail(wasm.queue)]
    BY <1>0, <1>4 DEF Decode, Wasm
  <2>2. wasm.queue # <<>> /\ wasm.queue \in Seq(Ev)
    BY <1>0, <1>4 DEF IndInv, Program, Decode, Wasm
  <2>3. Len(wasm.queue) = 1 /\ wasm.queue[1] \in Ev
    <3>1. Len(wasm.queue) \in Nat /\ Len(wasm.queue) # 0
      BY <2>2, EmptySeq
    <3>a. Len(wasm.queue) <= 1
      BY <1>0
    <3>b. \A n \in Nat : n # 0 /\ n <= 1 => n = 1
      OBVIOUS
    <3>2. Len(wasm.queue) = 1
      BY <3>1, <3>a, <3>b
    <3> QED
      BY <2>2, <3>2, ElementOfSeq
  <2>4. Tail(wasm.queue) = <<>> /\ Head(wasm.queue) = wasm.queue[1]
    <3>1. Tail(wasm.queue) \in Seq(Ev) /\ Len(Tail(wasm.queue)) = 0
      BY <2>2, <2>3, HeadTailProperties
    <3>2. Tail(wasm.queue) = <<>>
      BY <3>1, EmptySeq
    <3> QED
      BY <2>2, <3>2
  <2>5. wasm' = [pc |-> "handle", queue |-> <<>>, last |-> wasm.last,
                 room |-> wasm.room, err |-> wasm.err]
    BY <1>0, <2>1, <2>4 DEF Wasm
  <2>6. ~ WasmRead /\ ~ WasmFlush /\ ~ Sign
    BY <1>4 DEF WasmRead, WasmFlush, Sign, Fetching, Decode
  <2>7. <<>> \in Seq(Ev) /\ Len(<<>>) = 0
    BY EmptySeq
  <2> QED
    BY <1>0, <1>4, <2>3, <2>4, <2>5, <2>6, <2>7 DEF Wasm
<1>5. CASE ~ (WasmRead \/ WasmFlush \/ Sign \/ Decode)
  <2>1. CASE Grow
    <3>1. ManifestLen[manifest] \in Nat
      BY <1>0, PipelineAssumption
    <3> QED
      BY <1>0, <1>5, <2>1, <3>1 DEF Grow, HostLen, Wasm
  <2>2. CASE WriteInit \/ Outgrown \/ NextRead \/ WasmExits \/ WasmFails
    BY <1>0, <1>5, <2>2 DEF WriteInit, Outgrown, NextRead, WasmExits, WasmFails, Wasm, Result
  <2>3. CASE wasm' = wasm
    BY <1>0, <1>5, <2>3
  <2>4. Grow \/ WriteInit \/ Outgrown \/ NextRead \/ WasmExits \/ WasmFails \/ wasm' = wasm
    BY <1>5, Touches
  <2> QED
    BY <2>1, <2>2, <2>3, <2>4
<1> QED
  BY <1>1, <1>2, <1>3, <1>4, <1>5

\* The parser sends the event it is handing over.
LEMMA Sends ==
  ASSUME TypeOK, NEW c \in Chan, Send(c)
  PROVE  /\ sent' \in [Chan -> Seq(Ev)]
         /\ sent'[c] = Append(sent[c], parser.ev)
         /\ \A d \in Chan \ {c} : sent'[d] = sent[d]
<1>1. parser.ev \in Ev /\ sent \in [Chan -> Seq(Ev)]
  BY DEF TypeOK
<1>2. sent' = [sent EXCEPT ![c] = Append(sent[c], parser.ev)]
  BY DEF Send
<1>3. Append(sent[c], parser.ev) \in Seq(Ev)
  BY <1>1, AppendProperties
<1> QED
  BY <1>1, <1>2, <1>3

LEMMA TypeStep ==
  ASSUME IndInv, [Next]_vars
  PROVE  TypeOK'
<1> USE DEF Result
<1> DEFINE Parser == [pc : {"decode", "body", "event", "returned"}, ev : Ev, err : Result]
           Writer == [pc : {"ready", "writing", "closing", "closed"}, n : 0..Gops]
<1>0. TypeOK /\ "event" \in Chan /\ BodyChan \in Chan
  BY DEF IndInv, Chan, BodyChan
<1>1. wasm' \in Wasm /\ Len(wasm'.queue) <= 1
  BY WasmMoves
<1>2. writer' \in Writer
  <2>1. CASE Write
    <3>1. writer' = [pc |-> "writing", n |-> writer.n + 1] /\ writer.n + 1 \in 0..Gops
      BY <1>0, <2>1, PipelineAssumption DEF TypeOK, Write
    <3> QED
      BY <3>1
  <2>2. CASE Close \/ CloseReturns \/ CopyRead
    BY <1>0, <2>2 DEF TypeOK, Close, CloseReturns, CopyRead
  <2>3. CASE writer' = writer
    BY <1>0, <2>3 DEF TypeOK
  <2>4. Write \/ Close \/ CloseReturns \/ CopyRead \/ writer' = writer
    BY Touches
  <2> QED
    BY <2>1, <2>2, <2>3, <2>4
<1>3. parser' \in Parser
  <2>1. CASE Decode
    <3>1. parser' = [parser EXCEPT !.pc = "body", !.ev = wasm.queue[1]] /\ wasm.queue[1] \in Ev
      BY <2>1, WasmMoves DEF Decode
    <3> QED
      BY <1>0, <3>1 DEF TypeOK
  <2>2. CASE DecodeEnds \/ SendBody \/ SendEvent \/ ParserCancelled
    BY <1>0, <2>2 DEF TypeOK, DecodeEnds, SendBody, SendEvent, ParserCancelled
  <2>3. CASE parser' = parser
    BY <1>0, <2>3 DEF TypeOK
  <2>4. Decode \/ DecodeEnds \/ SendBody \/ SendEvent \/ ParserCancelled \/ parser' = parser
    BY Touches
  <2> QED
    BY <2>1, <2>2, <2>3, <2>4
<1>4. sent' \in [Chan -> Seq(Ev)]
  <2>1. CASE SendBody \/ SendEvent
    BY <1>0, <2>1, Sends DEF SendBody, SendEvent
  <2>2. CASE sent' = sent
    BY <1>0, <2>2 DEF TypeOK
  <2>3. SendBody \/ SendEvent \/ sent' = sent
    BY Touches
  <2> QED
    BY <2>1, <2>2, <2>3
<1>5. received' \in [Chan -> Nat]
  <2>1. ASSUME NEW c \in Chan, Receive(c) PROVE received' \in [Chan -> Nat]
    BY <1>0, <2>1 DEF TypeOK, Receive
  <2>2. CASE received' = received
    BY <1>0, <2>2 DEF TypeOK
  <2>3. (\E c \in Chan : Receive(c)) \/ received' = received
    BY Touches
  <2> QED
    BY <2>1, <2>2, <2>3
<1>6. closed' \in 0..3 /\ done' \in Result
  <2>1. CASE CloseChannel \/ SignalDone
    BY <1>0, <2>1 DEF TypeOK, CloseChannel, SignalDone, RunError
  <2>2. CASE UNCHANGED <<closed, done>>
    BY <1>0, <2>2 DEF TypeOK
  <2>3. CloseChannel \/ SignalDone \/ UNCHANGED <<closed, done>>
    BY Touches
  <2> QED
    BY <2>1, <2>2, <2>3
<1>7. /\ copier' \in {"idle", "holding", "ended"} /\ stdout' \in {"open", "closed", "torn"}
      /\ manifest' \in 0..Manifests /\ cancelled' \in BOOLEAN
  <2>1. CASE CopyRead \/ CopyEnds \/ WasmRead \/ Outgrown \/ WasmExits \/ WasmFails
    BY <1>0, <2>1 DEF TypeOK, CopyRead, CopyEnds, WasmRead, Outgrown, WasmExits, WasmFails, hostVars
  <2>2. CASE ChangeManifest
    <3>1. manifest \in 0..Manifests /\ manifest < Manifests /\ manifest' = manifest + 1
      BY <1>0, <2>2 DEF TypeOK, ChangeManifest
    <3>2. manifest' \in 0..Manifests
      BY <3>1, PipelineAssumption
    <3>3. UNCHANGED <<copier, stdout, cancelled>>
      BY <2>2 DEF ChangeManifest, pipeVars
    <3> QED
      BY <1>0, <3>2, <3>3 DEF TypeOK
  <2>5. CASE Cancel
    BY <1>0, <2>5 DEF TypeOK, Cancel, pipeVars
  <2>3. CASE UNCHANGED <<copier, stdout, manifest, cancelled>>
    BY <1>0, <2>3 DEF TypeOK
  <2>4. \/ CopyRead \/ CopyEnds \/ WasmRead \/ Outgrown \/ WasmExits \/ WasmFails
        \/ ChangeManifest \/ Cancel \/ UNCHANGED <<copier, stdout, manifest, cancelled>>
    BY Touches
  <2> QED
    BY <2>1, <2>2, <2>3, <2>4, <2>5
<1> QED
  BY <1>1, <1>2, <1>3, <1>4, <1>5, <1>6, <1>7 DEF TypeOK, Wasm

-----------------------------------------------------------------------------
(* The invariant holds at the start.                                       *)

LEMMA InitInv == Init => IndInv
<1> SUFFICES ASSUME Init PROVE IndInv
  OBVIOUS
<1>0. /\ Gops \in Nat /\ 0 \in 0..Gops /\ 0 \in 0..Manifests /\ InitialLen \in Nat
      /\ <<>> \in Seq(Ev) /\ Len(<<>>) = 0
  BY PipelineAssumption, EmptySeq
<1>1. \A c \in Chan : sent[c] = <<>>
  BY DEF Init
<1>2. sent["init"] = <<>> /\ sent["seg"] = <<>> /\ sent["event"] = <<>>
  BY <1>1 DEF Chan
<1>3. TypeOK
  <2>1. NoEvent \in Ev
    BY <1>0 DEF NoEvent, Ev
  <2> QED
    <3>1. /\ writer \in [pc : {"ready", "writing", "closing", "closed"}, n : 0..Gops]
          /\ parser \in [pc : {"decode", "body", "event", "returned"}, ev : Ev, err : Result]
      BY <1>0, <2>1 DEF Init, Result
    <3>2. wasm = [pc |-> "read", queue |-> <<>>, last |-> FALSE, room |-> InitialLen, err |-> "none"]
      BY DEF Init
    <3>3. wasm \in Wasm
      BY <1>0, <3>2 DEF Wasm, Result
    <3>4. wasm.queue = <<>>
      BY <3>2
    <3>5. Len(wasm.queue) <= 1
      BY <1>0, <3>4
    <3>6. sent \in [Chan -> Seq(Ev)] /\ received \in [Chan -> Nat]
      BY <1>0 DEF Init
    <3>7. /\ copier = "idle" /\ stdout = "open" /\ closed = 0 /\ done = "none"
          /\ manifest = 0 /\ cancelled = FALSE
      BY DEF Init
    <3>8. /\ copier \in {"idle", "holding", "ended"} /\ stdout \in {"open", "closed", "torn"}
          /\ closed \in 0..3 /\ done \in Result /\ cancelled \in BOOLEAN
      <4>1. copier \in {"idle", "holding", "ended"} /\ stdout \in {"open", "closed", "torn"}
        BY <3>7
      <4>2. closed \in 0..3
        BY <3>7
      <4>3. done \in Result
        BY <3>7 DEF Result
      <4>4. cancelled \in BOOLEAN
        BY <3>7
      <4> QED
        BY <4>1, <4>2, <4>3, <4>4
    <3>9. manifest \in 0..Manifests
      BY <1>0, <3>7
    <3> QED
      BY <3>1, <3>3, <3>5, <3>6, <3>8, <3>9 DEF TypeOK, Wasm
<1>4. Input
  BY <1>0 DEF Init, Input, ReadSoFar, Closing
<1>5. Program
  BY DEF Init, Program
<1>6. Numbered /\ Paired
  <2>1. Len(sent["init"]) = 0 /\ Len(sent["seg"]) = 0 /\ Len(sent["event"]) = 0
    BY <1>0, <1>2
  <2>2. /\ wasm.queue = <<>> /\ wasm.last = FALSE /\ parser.pc = "decode" /\ copier = "idle"
        /\ writer.n = 0 /\ writer.pc = "ready"
    BY DEF Init
  <2>3. Len(wasm.queue) = 0
    BY <1>0, <2>2
  <2>4. Count = 0
    BY <2>1 DEF Count
  <2>5. InHand = 0 /\ Cut = 0
    BY <2>2, <2>3 DEF InHand, Cut, ReadSoFar
  <2>6. Numbered
    BY <1>2, <2>1, <2>2, <2>4, <2>5 DEF Numbered
  <2>7. Paired
    BY <2>1, <2>2, <2>4 DEF Paired
  <2> QED
    BY <2>6, <2>7
<1>7. Renewed
  BY <1>0, <1>2 DEF Init, Renewed, Fresh, NoEvent
<1>8. Over
  BY DEF Init, Over
<1> QED
  BY <1>3, <1>4, <1>5, <1>6, <1>7, <1>8 DEF IndInv

-----------------------------------------------------------------------------
(* Every step keeps what is known of the input and of the program.         *)

\* Only a read of the program counts: what is written, and what the copier
\* holds, is still on its way.
LEMMA ReadMoves ==
  ASSUME IndInv, [Next]_vars
  PROVE  /\ ReadSoFar' \in 0..Gops
         /\ WasmRead => ReadSoFar' = ReadSoFar + 1
         /\ ~ WasmRead => ReadSoFar' = ReadSoFar
         /\ writer'.n >= writer.n
         /\ Closing => Closing'
<1>0. /\ writer \in [pc : {"ready", "writing", "closing", "closed"}, n : 0..Gops]
      /\ writer.n \in Nat /\ writer.n <= Gops
      /\ ReadSoFar \in 0..Gops /\ Gops \in Nat
  BY PipelineAssumption DEF IndInv, TypeOK, Input
<1>1. CASE Write
  <2>1. writer.pc = "ready" /\ writer'.pc = "writing" /\ writer'.n = writer.n + 1 /\ copier' = copier
    BY <1>1 DEF Write
  <2> QED
    BY <1>0, <1>1, <2>1 DEF ReadSoFar, Closing, WasmRead, Write
<1>2. CASE Close \/ CloseReturns
  <2>1. /\ writer.pc # "writing" /\ writer'.pc \in {"closing", "closed"} /\ writer'.n = writer.n
        /\ copier' = copier
    BY <1>0, <1>2 DEF Close, CloseReturns
  <2>2. ~ WasmRead \/ ReadSoFar' = ReadSoFar
    BY <1>0, <2>1 DEF ReadSoFar
  <2>3. ~ WasmRead
    BY <1>2 DEF WasmRead, Close, CloseReturns
  <2> QED
    BY <1>0, <2>1, <2>2, <2>3 DEF ReadSoFar, Closing
<1>3. CASE CopyRead
  <2>1. /\ writer.pc = "writing" /\ writer'.pc = "ready" /\ writer'.n = writer.n
        /\ copier = "idle" /\ copier' = "holding"
    BY <1>0, <1>3 DEF CopyRead
  <2> QED
    BY <1>0, <2>1 DEF ReadSoFar, Closing, WasmRead
<1>4. CASE CopyEnds
  <2>1. writer' = writer /\ copier = "idle" /\ copier' = "ended"
    BY <1>4 DEF CopyEnds
  <2> QED
    BY <1>0, <2>1 DEF ReadSoFar, Closing, WasmRead
<1>5. CASE WasmRead
  <2>1. writer' = writer /\ copier = "holding" /\ copier' = "idle"
    BY <1>5 DEF WasmRead
  <2> QED
    BY <1>0, <1>5, <2>1 DEF ReadSoFar, Closing
<1>6. CASE UNCHANGED <<writer, copier>>
  BY <1>0, <1>6 DEF ReadSoFar, Closing, WasmRead
<1> QED
  <2>1. Write \/ Close \/ CloseReturns \/ CopyRead \/ CopyEnds \/ WasmRead
          \/ UNCHANGED <<writer, copier>>
    BY Touches
  <2> QED
    BY <1>1, <1>2, <1>3, <1>4, <1>5, <1>6, <2>1

LEMMA InputStep ==
  ASSUME IndInv, [Next]_vars
  PROVE  Input'
<1>0. TypeOK /\ Input
  BY DEF IndInv
<1>1. Closing' => writer'.n = Gops
  <2>1. CASE Write
    BY <2>1 DEF Write, Closing
  <2>2. CASE Close \/ CloseReturns
    BY <1>0, <2>2 DEF TypeOK, Input, Closing, Close, CloseReturns
  <2>3. CASE CopyRead
    BY <1>0, <2>3 DEF TypeOK, Closing, CopyRead
  <2>4. CASE writer' = writer
    BY <1>0, <2>4 DEF Input, Closing
  <2> QED
    BY <2>1, <2>2, <2>3, <2>4, Touches
<1>2. copier' = "ended" => Closing'
  <2>1. CASE CopyEnds
    BY <2>1 DEF CopyEnds, Closing
  <2>2. CASE CopyRead \/ WasmRead
    BY <2>2 DEF CopyRead, WasmRead
  <2>3. CASE copier' = copier
    BY <1>0, <2>3, ReadMoves DEF Input
  <2> QED
    BY <2>1, <2>2, <2>3, Touches
<1>3. wasm'.last => copier' = "ended"
  <2>1. CASE WasmFlush
    BY <2>1 DEF WasmFlush
  <2>2. CASE WasmRead
    BY <1>0, <2>2, WasmMoves DEF Input, WasmRead
  <2>3. CASE ~ WasmFlush /\ ~ WasmRead
    <3>1. wasm'.last = wasm.last
      BY <2>3, WasmMoves
    <3>2. copier = "ended" => copier' = "ended"
      BY <2>3, Touches DEF CopyRead, CopyEnds
    <3> QED
      BY <1>0, <3>1, <3>2 DEF Input
  <2> QED
    BY <2>1, <2>2, <2>3
<1> QED
  BY <1>1, <1>2, <1>3, ReadMoves DEF Input

LEMMA ProgramStep ==
  ASSUME IndInv, [Next]_vars
  PROVE  Program'
<1>0. wasm \in Wasm /\ Program
  BY DEF IndInv, TypeOK, Wasm
<1>1. CASE WasmRead \/ WasmFlush
  <2>1. wasm'.pc = "handle" /\ stdout' = stdout /\ wasm'.err = wasm.err /\ wasm.pc = "read"
    BY <1>1, WasmMoves DEF WasmRead, WasmFlush
  <2> QED
    BY <1>0, <2>1 DEF Program
<1>2. CASE WriteInit \/ Grow
  <2>1. /\ wasm.pc = "handle" /\ wasm'.pc \in {"write", "retry"} /\ wasm.queue # <<>>
        /\ wasm'.queue = wasm.queue /\ stdout' = stdout /\ wasm'.err = wasm.err
    BY <1>0, <1>2 DEF WriteInit, Grow, Fetching, Wasm
  <2> QED
    BY <1>0, <2>1 DEF Program
<1>3. CASE Sign
  <2>1. /\ wasm.pc # "ended" /\ wasm'.pc = "write" /\ wasm'.queue # <<>> /\ stdout' = stdout
        /\ wasm'.err = wasm.err
    BY <1>3, WasmMoves DEF Sign, Fetching
  <2> QED
    BY <1>0, <2>1 DEF Program
<1>4. CASE Outgrown \/ WasmExits \/ WasmFails
  <2>1. /\ wasm'.pc = "ended" /\ wasm'.queue = wasm.queue /\ wasm'.last = wasm.last
        /\ wasm'.err = "nil" => wasm.last /\ wasm.queue = <<>>
    BY <1>0, <1>4 DEF Outgrown, WasmExits, WasmFails, Wasm
  <2> QED
    BY <1>0, <2>1 DEF Program
<1>5. CASE NextRead
  <2>1. /\ wasm.pc = "handle" /\ wasm'.pc = "read" /\ wasm.queue = <<>> /\ wasm'.queue = <<>>
        /\ ~ wasm.last /\ wasm'.last = wasm.last /\ stdout' = stdout /\ wasm'.err = wasm.err
    BY <1>0, <1>5 DEF NextRead, Wasm
  <2> QED
    BY <1>0, <2>1 DEF Program
<1>6. CASE Decode
  <2>1. wasm'.pc = "handle" /\ wasm.pc = "write" /\ stdout' = stdout /\ wasm'.err = wasm.err
    BY <1>6, WasmMoves DEF Decode
  <2> QED
    BY <1>0, <2>1 DEF Program
<1>7. CASE UNCHANGED <<wasm, stdout>>
  BY <1>0, <1>7 DEF Program
<1> QED
  <2>1. \/ WasmRead \/ WasmFlush \/ WriteInit \/ Grow \/ Sign \/ Outgrown \/ WasmExits \/ WasmFails
        \/ NextRead \/ Decode \/ UNCHANGED <<wasm, stdout>>
    BY Touches
  <2> QED
    BY <1>1, <1>2, <1>3, <1>4, <1>5, <1>6, <1>7, <2>1

-----------------------------------------------------------------------------
(* The end: parser, channels, done, Close, in this order.                  *)

\* Once run has its result, nothing changes it.
LEMMA ReturnStays ==
  ASSUME IndInv, [Next]_vars, RunReturns
  PROVE  RunReturns' /\ parser' = parser /\ RunError' = RunError
<1>1. parser.pc = "returned" /\ (parser.err = "error" \/ wasm.pc = "ended")
  BY DEF RunReturns
<1>2. parser' = parser
  BY <1>1, Touches DEF Decode, DecodeEnds, SendBody, SendEvent, ParserCancelled
<1>3. wasm.pc = "ended" => wasm' = wasm
  BY Touches DEF WasmRead, WasmFlush, WriteInit, Sign, Grow, Outgrown, NextRead, WasmExits,
     WasmFails, Decode, Fetching
<1> QED
  BY <1>1, <1>2, <1>3 DEF RunReturns, RunError

LEMMA OverStep ==
  ASSUME IndInv, [Next]_vars
  PROVE  Over'
<1>0. TypeOK /\ Program /\ Over
  BY DEF IndInv
<1>1. closed' > 0 => RunReturns'
  <2>1. CASE CloseChannel
    BY <2>1, ReturnStays DEF CloseChannel
  <2>2. CASE closed' = closed
    BY <1>0, <2>2, ReturnStays DEF Over
  <2> QED
    BY <2>1, <2>2, Touches
<1>2. done' # "none" => closed' = 3
  <2>1. CASE CloseChannel
    BY <1>0, <2>1 DEF Over, CloseChannel
  <2>2. CASE SignalDone
    BY <2>2 DEF SignalDone
  <2>3. CASE UNCHANGED <<closed, done>>
    BY <1>0, <2>3 DEF Over
  <2> QED
    BY <2>1, <2>2, <2>3, Touches
<1>3. wasm.err = "nil" => wasm'.err = "nil"
  <2>1. wasm.err = "nil" => wasm.pc = "ended"
    BY <1>0 DEF Program
  <2> QED
    BY <2>1, Touches DEF WasmRead, WasmFlush, WriteInit, Sign, Grow, Outgrown, NextRead,
       WasmExits, WasmFails, Decode, Fetching
<1>4. done' = "nil" => wasm'.err = "nil"
  <2>1. CASE SignalDone
    <3>1. done' = RunError
      BY <2>1 DEF SignalDone
    <3>2. done' = "nil" => wasm.err = "nil"
      BY <3>1 DEF RunError
    <3> QED
      BY <1>3, <3>2
  <2>2. CASE done' = done
    BY <1>0, <1>3, <2>2 DEF Over
  <2> QED
    BY <2>1, <2>2, Touches
<1>5. writer'.pc = "closed" => done' # "none"
  <2>1. done # "none" => done' # "none"
    BY Touches DEF SignalDone
  <2>2. CASE Write \/ Close \/ CopyRead
    BY <1>0, <2>2 DEF TypeOK, Write, Close, CopyRead
  <2>3. CASE CloseReturns
    BY <2>1, <2>3 DEF CloseReturns
  <2>4. CASE writer' = writer
    BY <1>0, <2>1, <2>4 DEF Over
  <2> QED
    BY <2>2, <2>3, <2>4, Touches
<1>6. parser'.pc = "returned" => parser'.err \in {"nil", "error"}
  <2>1. CASE Decode \/ SendBody \/ SendEvent
    BY <1>0, <2>1 DEF TypeOK, Decode, SendBody, SendEvent
  <2>2. CASE DecodeEnds \/ ParserCancelled
    BY <1>0, <2>2 DEF TypeOK, DecodeEnds, ParserCancelled
  <2>3. CASE parser' = parser
    BY <1>0, <2>3 DEF Over
  <2> QED
    BY <2>1, <2>2, <2>3, Touches
<1> QED
  BY <1>1, <1>2, <1>4, <1>5, <1>6 DEF Over

-----------------------------------------------------------------------------
(* What was sent.                                                          *)

LEMMA BodiesAre ==
  ASSUME TypeOK
  PROVE  /\ Bodies \in Seq(Ev) /\ Len(Bodies) = Count /\ Count \in Nat
         /\ DOMAIN Bodies = 1..Count
         /\ \A i \in 1..Count :
              Bodies[i] = IF i <= Len(sent["init"]) THEN sent["init"][i]
                          ELSE sent["seg"][i - Len(sent["init"])]
<1>1. sent["init"] \in Seq(Ev) /\ sent["seg"] \in Seq(Ev)
  BY SentTypes DEF Chan
<1>2. Len(sent["init"]) \in Nat /\ Len(sent["seg"]) \in Nat
  BY <1>1
<1>3. Len(Bodies) = Count /\ Bodies \in Seq(Ev)
  BY <1>1, ConcatProperties DEF Bodies, Count
<1>a. \A m, n \in Nat : m + n \in Nat
  OBVIOUS
<1>4. Count \in Nat
  BY <1>2, <1>a DEF Count
<1>5. \A i \in 1..Count :
        Bodies[i] = IF i <= Len(sent["init"]) THEN sent["init"][i]
                    ELSE sent["seg"][i - Len(sent["init"])]
  BY <1>1, ConcatProperties DEF Bodies, Count
<1> QED
  BY <1>3, <1>4, <1>5

LEMMA BodiesNumbered ==
  ASSUME TypeOK, Numbered
  PROVE  /\ \A i \in 1..Count : Bodies[i].gop = i - 1
         /\ Count = 0 => sent["init"] = <<>> /\ sent["seg"] = <<>>
         /\ Count > 0 => Len(sent["init"]) = 1 /\ Count = 1 + Len(sent["seg"])
<1>1. sent["init"] \in Seq(Ev) /\ sent["seg"] \in Seq(Ev)
  BY SentTypes DEF Chan
<1>2. Len(sent["init"]) \in Nat /\ Len(sent["seg"]) \in Nat
  BY <1>1
<1>a. \A m, n \in Nat : m + n = 0 => m = 0 /\ n = 0
  OBVIOUS
<1>3. Count = 0 => Len(sent["init"]) = 0 /\ Len(sent["seg"]) = 0
  BY <1>2, <1>a DEF Count
<1>4. Count = 0 => sent["init"] = <<>> /\ sent["seg"] = <<>>
  BY <1>1, <1>3, EmptySeq
<1>5. Len(sent["seg"]) # 0 => Len(sent["init"]) = 1
  BY <1>1, EmptySeq DEF Numbered
<1>6. Len(sent["init"]) = 0 \/ Len(sent["init"]) = 1
  BY DEF Numbered
<1>b. \A m, n \in Nat : m + n > 0 /\ (n # 0 => m = 1) /\ (m = 0 \/ m = 1) => m = 1 /\ m + n = 1 + n
  OBVIOUS
<1>7. Count > 0 => Len(sent["init"]) = 1 /\ Count = 1 + Len(sent["seg"])
  BY <1>2, <1>5, <1>6, <1>b DEF Count
<1>8. ASSUME NEW i \in 1..Count PROVE Bodies[i].gop = i - 1
  <2>0. Count \in Nat /\ i \in Nat /\ i >= 1 /\ i <= Count
    BY BodiesAre
  <2>1. Len(sent["init"]) = 1 /\ Count = 1 + Len(sent["seg"])
    BY <1>7, <2>0
  <2>2. CASE i = 1
    <3>1. Bodies[i] = sent["init"][1]
      BY <2>0, <2>1, <2>2, BodiesAre
    <3> QED
      BY <2>1, <2>2, <3>1 DEF Numbered
  <2>3. CASE i # 1
    <3>1. Bodies[i] = sent["seg"][i - 1]
      BY <2>0, <2>1, <2>3, BodiesAre
    <3>2. i - 1 \in 1..Len(sent["seg"])
      BY <1>2, <2>0, <2>1, <2>3
    <3> QED
      BY <3>1, <3>2 DEF Numbered
  <2> QED
    BY <2>2, <2>3
<1> QED
  BY <1>4, <1>7, <1>8

\* A body goes after all that was sent: the Init to InitCh when nothing was, a
\* GoP to SegCh.
LEMMA BodySent ==
  ASSUME IndInv, SendBody
  PROVE  /\ \/ /\ BodyChan = "init" /\ Count = 0 /\ Len(sent'["init"]) = 1
               /\ sent'["init"][1] = parser.ev /\ sent["seg"] = <<>> /\ sent'["seg"] = <<>>
            \/ /\ BodyChan = "seg" /\ Count > 0 /\ Len(sent["init"]) = 1
               /\ sent'["init"] = sent["init"] /\ Count = 1 + Len(sent["seg"])
               /\ sent'["seg"] = Append(sent["seg"], parser.ev)
         /\ sent'["event"] = sent["event"]
         /\ Count' = Count + 1
         /\ \A i \in 1..Count : Bodies'[i] = Bodies[i]
         /\ Bodies'[Count + 1] = parser.ev
         /\ parser.ev \in Ev /\ parser.ev.gop = Count
<1>0. TypeOK /\ Numbered /\ parser.pc = "body" /\ BodyChan \in Chan
  BY DEF IndInv, SendBody, BodyChan, Chan
<1>1. parser.ev \in Ev /\ parser.ev.gop = Count /\ parser.ev.gop \in Nat
  <2>1. parser.ev \in Ev /\ parser.ev.gop = Count
    BY <1>0 DEF TypeOK, Numbered
  <2> QED
    BY <1>0, <2>1, BodiesAre
<1>2. /\ sent'[BodyChan] = Append(sent[BodyChan], parser.ev)
      /\ \A d \in Chan \ {BodyChan} : sent'[d] = sent[d]
  BY <1>0, Sends DEF SendBody
<1>3. sent'["event"] = sent["event"]
  BY <1>2 DEF BodyChan, Chan
<1>4. /\ sent["init"] \in Seq(Ev) /\ sent["seg"] \in Seq(Ev)
      /\ Len(sent["init"]) \in Nat /\ Len(sent["seg"]) \in Nat
  BY <1>0, SentTypes DEF Chan
<1>a. \A m, n \in Nat : m + n \in Nat /\ (m = 0 => m + n = n)
  OBVIOUS
<1>5. CASE parser.ev.gop = 0
  <2>1. BodyChan = "init" /\ Count = 0
    BY <1>1, <1>5 DEF BodyChan
  <2>2. sent["init"] = <<>> /\ sent["seg"] = <<>>
    BY <1>0, <2>1, BodiesNumbered
  <2>3. sent'["init"] = <<parser.ev>> /\ sent'["seg"] = <<>>
    BY <1>2, <2>1, <2>2 DEF Chan
  <2>4. Len(<<parser.ev>>) = 1 /\ <<parser.ev>>[1] = parser.ev /\ Len(<<>>) = 0
    OBVIOUS
  <2>5. Bodies' = <<parser.ev>> \o <<>>
    BY <2>3 DEF Bodies
  <2>6. Bodies' = <<parser.ev>>
    BY <1>1, <2>5
  <2>7. Count' = 1
    BY <2>3, <2>4 DEF Count
  <2> QED
    BY <1>1, <1>3, <2>1, <2>2, <2>3, <2>4, <2>6, <2>7
<1>6. CASE parser.ev.gop # 0
  <2>1. BodyChan = "seg" /\ Count > 0
    BY <1>1, <1>6 DEF BodyChan
  <2>2. Len(sent["init"]) = 1 /\ Count = 1 + Len(sent["seg"])
    BY <1>0, <2>1, BodiesNumbered
  <2>3. sent'["init"] = sent["init"] /\ sent'["seg"] = Append(sent["seg"], parser.ev)
    BY <1>2, <2>1 DEF Chan
  <2>4. Bodies' = sent["init"] \o Append(sent["seg"], parser.ev)
    BY <2>3 DEF Bodies
  <2>5. Bodies' = Append(Bodies, parser.ev)
    <3>1. <<parser.ev>> \in Seq(Ev)
      BY <1>1
    <3>2. Append(sent["seg"], parser.ev) = sent["seg"] \o <<parser.ev>>
      BY <1>1, <1>4, AppendIsConcat
    <3>3. (sent["init"] \o sent["seg"]) \o <<parser.ev>> = sent["init"] \o (sent["seg"] \o <<parser.ev>>)
      <4> DEFINE a == sent["init"]  b == sent["seg"]  d == <<parser.ev>>
      <4>1. a \in Seq(Ev) /\ b \in Seq(Ev) /\ d \in Seq(Ev)
        BY <1>4, <3>1
      <4> HIDE DEF a, b, d
      <4>2. (a \o b) \o d = a \o (b \o d)
        BY <4>1, ConcatAssociative
      <4> QED
        BY <4>2 DEF a, b, d
    <3>4. Append(Bodies, parser.ev) = Bodies \o <<parser.ev>>
      BY <1>0, <1>1, BodiesAre, AppendIsConcat
    <3> QED
      BY <2>4, <3>2, <3>3, <3>4 DEF Bodies
  <2>6. Bodies \in Seq(Ev) /\ Len(Bodies) = Count
    BY <1>0, BodiesAre
  <2>7. (\A i \in 1..Count : Bodies'[i] = Bodies[i]) /\ Bodies'[Count + 1] = parser.ev
    BY <1>1, <2>5, <2>6, AppendProperties
  <2>8. Len(Append(sent["seg"], parser.ev)) = Len(sent["seg"]) + 1
    BY <1>1, <1>4, AppendProperties
  <2>b. \A n \in Nat : 1 + (n + 1) = (1 + n) + 1
    OBVIOUS
  <2>9. Count' = Count + 1
    BY <1>4, <2>2, <2>3, <2>8, <2>b DEF Count
  <2> QED
    BY <1>1, <1>3, <2>1, <2>2, <2>3, <2>7, <2>9
<1> QED
  BY <1>5, <1>6

LEMMA EventSent ==
  ASSUME IndInv, SendEvent
  PROVE  /\ sent'["init"] = sent["init"] /\ sent'["seg"] = sent["seg"]
         /\ sent'["event"] = Append(sent["event"], parser.ev)
         /\ Count' = Count /\ Bodies' = Bodies
<1>1. /\ sent'["event"] = Append(sent["event"], parser.ev)
      /\ \A d \in Chan \ {"event"} : sent'[d] = sent[d]
  BY Sends DEF IndInv, SendEvent, Chan
<1>2. sent'["init"] = sent["init"] /\ sent'["seg"] = sent["seg"]
  BY <1>1 DEF Chan
<1> QED
  BY <1>1, <1>2 DEF Count, Bodies

\* What goes on between the program and the parser changes neither what was
\* sent nor what was cut; the numbering is then kept.
LEMMA NumberedStep ==
  ASSUME IndInv, [Next]_vars
  PROVE  Numbered'
<1>0. TypeOK /\ Input /\ Program /\ Numbered /\ Over
  BY DEF IndInv
<1>1. /\ Count \in Nat /\ ReadSoFar \in Nat /\ Gops \in Nat /\ Len(wasm.queue) \in Nat
      /\ wasm.queue \in Seq(Ev) /\ parser.pc \in {"decode", "body", "event", "returned"}
  BY <1>0, BodiesAre, PipelineAssumption DEF Input, TypeOK
<1> DEFINE Body == IF parser.pc = "body" THEN 1 ELSE 0
           Last == IF wasm.last /\ Gops > 0 THEN 1 ELSE 0
<1>q. Len(<<>>) = 0 /\ (wasm.queue = <<>> => Len(wasm.queue) = 0)
  OBVIOUS
<1>2. InHand = Body + Len(wasm.queue) /\ Cut = ReadSoFar + Last
  BY DEF InHand, Cut
<1>3. cancelled => cancelled'
  BY Touches DEF Cancel
<1>w. writer.n <= writer'.n /\ (Closing => Closing')
  BY ReadMoves, <1>0 DEF TypeOK
\* The last conjunct, as long as nothing is sent to SegCh.
<1>s. sent' = sent => /\ Count' = Count
                      /\ sent'["seg"] # <<>> => Len(sent'["seg"]) < writer'.n \/ Closing'
  <2>1. Len(sent["seg"]) \in Nat /\ writer.n \in Nat /\ writer'.n \in Nat
    BY <1>0, SentTypes, TypeStep DEF TypeOK, Chan
  <2>2. \A k, m, n \in Nat : k < m /\ m <= n => k < n
    OBVIOUS
  <2> QED
    BY <1>0, <1>w, <2>1, <2>2 DEF Numbered, Count
<1>4. CASE WasmRead
  <2>1. /\ wasm.queue = <<>> /\ ~ wasm.last /\ parser' = parser /\ sent' = sent
        /\ cancelled' = cancelled
    BY <1>0, <1>4 DEF Program, WasmRead, chanVars, hostVars
  <2>2. /\ wasm'.queue = <<Event(ReadSoFar)>> /\ wasm'.last = wasm.last
        /\ ReadSoFar' = ReadSoFar + 1
    BY <1>4, WasmMoves, ReadMoves
  <2>3. Len(<<Event(ReadSoFar)>>) = 1 /\ <<Event(ReadSoFar)>>[1].gop = ReadSoFar
    BY <1>0, NewEvent DEF Input
  <2>4. InHand = Body /\ Cut = ReadSoFar /\ InHand' = Body + 1 /\ Cut' = ReadSoFar + 1
    BY <1>1, <1>2, <1>q, <2>1, <2>2, <2>3 DEF InHand, Cut
  <2>5. parser.pc # "returned" \/ ~ cancelled => Count + Body = ReadSoFar
    BY <1>0, <2>4 DEF Numbered
  <2>6. parser'.pc # "returned" \/ ~ cancelled' => Count' + InHand' = Cut'
    BY <1>1, <1>s, <2>1, <2>4, <2>5
  <2>7. parser'.pc # "returned" => wasm'.queue[1].gop = Count' + (IF parser'.pc = "body" THEN 1 ELSE 0)
    BY <1>1, <1>s, <2>1, <2>2, <2>3, <2>5
  <2> QED
    BY <1>0, <1>s, <2>1, <2>6, <2>7 DEF Numbered
<1>5. CASE WasmFlush
  <2>1. /\ wasm.queue = <<>> /\ ~ wasm.last /\ parser' = parser /\ sent' = sent
        /\ cancelled' = cancelled /\ copier = "ended"
    BY <1>0, <1>5 DEF Program, WasmFlush, chanVars, hostVars
  <2>2. wasm'.queue = (IF Gops > 0 THEN <<Event(Gops)>> ELSE <<>>) /\ wasm'.last = TRUE
    BY <1>5, WasmMoves
  <2>3. ReadSoFar = Gops /\ ReadSoFar' = ReadSoFar
    <3>1. writer.n = Gops /\ writer.pc # "writing"
      BY <1>0, <2>1 DEF Input, Closing
    <3> QED
      BY <1>1, <1>5, <2>1, <3>1, ReadMoves DEF ReadSoFar, WasmRead, WasmFlush
  <2>4. Len(<<Event(Gops)>>) = 1 /\ <<Event(Gops)>>[1].gop = Gops
    <3>1. Gops \in 0..Gops
      BY <1>1
    <3> QED
      BY <1>0, <3>1, NewEvent
  <2>5. InHand = Body /\ Cut = Gops
    BY <1>1, <1>2, <1>q, <2>1, <2>3
  <2>6. Gops > 0 => InHand' = Body + 1 /\ Cut' = Gops + 1
    BY <1>1, <2>1, <2>2, <2>3, <2>4 DEF InHand, Cut
  <2>7. Gops = 0 => InHand' = Body /\ Cut' = 0 /\ wasm'.queue = <<>>
    BY <1>1, <1>q, <2>1, <2>2, <2>3 DEF InHand, Cut
  <2>8. parser.pc # "returned" \/ ~ cancelled => Count + Body = Gops
    BY <1>0, <2>5 DEF Numbered
  <2>9. parser'.pc # "returned" \/ ~ cancelled' => Count' + InHand' = Cut'
    BY <1>1, <1>s, <2>1, <2>6, <2>7, <2>8
  <2>10. parser'.pc # "returned" /\ wasm'.queue # <<>> =>
           wasm'.queue[1].gop = Count' + (IF parser'.pc = "body" THEN 1 ELSE 0)
    BY <1>1, <1>s, <2>1, <2>2, <2>4, <2>8
  <2> QED
    BY <1>0, <1>s, <2>1, <2>9, <2>10 DEF Numbered
<1>6. CASE Sign
  <2>1. /\ Len(wasm'.queue) = Len(wasm.queue) /\ wasm'.queue[1].gop = wasm.queue[1].gop
        /\ wasm.queue # <<>> /\ wasm'.last = wasm.last
    BY <1>6, WasmMoves
  <2>2. parser' = parser /\ sent' = sent /\ cancelled' = cancelled /\ ~ WasmRead
    BY <1>6 DEF Sign, Fetching, WasmRead, chanVars, hostVars
  <2>3. InHand' = InHand /\ Cut' = Cut
    BY <2>1, <2>2, ReadMoves DEF InHand, Cut
  <2>4. parser'.pc # "returned" /\ wasm'.queue # <<>> =>
          wasm'.queue[1].gop = Count' + (IF parser'.pc = "body" THEN 1 ELSE 0)
    BY <1>0, <1>s, <2>1, <2>2 DEF Numbered
  <2> QED
    BY <1>0, <1>s, <2>2, <2>3, <2>4 DEF Numbered
<1>7. CASE Decode
  <2>1. /\ wasm'.queue = <<>> /\ Len(wasm.queue) = 1 /\ Head(wasm.queue) = wasm.queue[1]
        /\ wasm'.last = wasm.last
    BY <1>7, WasmMoves
  <2>2. parser.pc = "decode" /\ parser' = [parser EXCEPT !.pc = "body", !.ev = wasm.queue[1]]
    BY <1>7, <2>1 DEF Decode
  <2>3. parser'.pc = "body" /\ parser'.ev = wasm.queue[1]
    BY <1>0, <2>2 DEF TypeOK
  <2>4. sent' = sent /\ cancelled' = cancelled /\ ~ WasmRead
    BY <1>7 DEF Decode, WasmRead, chanVars, hostVars
  <2>5. Cut' = Cut
    BY <2>1, <2>4, ReadMoves DEF Cut
  <2>6. InHand' = 1 /\ InHand = 1
    BY <1>q, <2>1, <2>2, <2>3 DEF InHand
  <2>7. parser'.ev.gop = Count'
    <3>1. wasm.queue # <<>>
      BY <1>q, <2>1
    <3> QED
      BY <1>0, <1>1, <1>s, <2>2, <2>3, <2>4, <3>1 DEF Numbered
  <2>8. Count' + InHand' = Cut'
    BY <1>0, <1>s, <2>2, <2>4, <2>5, <2>6 DEF Numbered
  <2> QED
    BY <1>0, <1>s, <2>1, <2>3, <2>4, <2>7, <2>8 DEF Numbered

<1>8. CASE SendBody
  <2>1. /\ parser.pc = "body" /\ parser' = [parser EXCEPT !.pc = "event"]
        /\ wasm' = wasm /\ writer' = writer /\ copier' = copier /\ cancelled' = cancelled
    BY <1>8 DEF SendBody, Send, pipeVars, hostVars
  <2>2. parser'.pc = "event"
    BY <1>0, <2>1 DEF TypeOK
  <2>3. Count' = Count + 1 /\ Cut' = Cut
    <3>1. Count' = Count + 1
      BY <1>8, BodySent DEF IndInv
    <3> QED
      BY <2>1, <3>1 DEF Cut, ReadSoFar
  <2>4. InHand = 1 + Len(wasm.queue) /\ InHand' = Len(wasm.queue)
    BY <1>1, <2>1, <2>2 DEF InHand
  <2>5. Count + InHand = Cut
    BY <1>0, <2>1 DEF Numbered
  <2>a. \A l \in Nat, m \in Nat : m + (1 + l) = (m + 1) + l
    OBVIOUS
  <2>6. Count' + InHand' = Cut'
    BY <1>1, <2>3, <2>4, <2>5, <2>a
  <2>7. wasm'.queue # <<>> => wasm'.queue[1].gop = Count'
    BY <1>0, <2>1, <2>3 DEF Numbered
  <2>b. /\ parser'.pc = "body" => parser'.ev.gop = Count'
        /\ parser'.pc # "returned" /\ wasm'.queue # <<>> =>
             wasm'.queue[1].gop = Count' + (IF parser'.pc = "body" THEN 1 ELSE 0)
        /\ parser'.pc # "returned" \/ ~ cancelled' => Count' + InHand' = Cut'
    <3>1. Count' \in Nat
      BY <1>1, <2>3
    <3> QED
      BY <2>2, <2>6, <2>7, <3>1
  <2>8. CASE BodyChan = "init"
    <3>1. /\ Len(sent'["init"]) = 1 /\ sent'["init"][1] = parser.ev /\ sent'["seg"] = <<>>
          /\ parser.ev.gop = 0
      BY <1>8, <2>8, BodySent
    <3>2. \A i \in 1..Len(sent'["init"]) : sent'["init"][i].gop = 0
      BY <3>1
    <3>3. \A i \in 1..Len(sent'["seg"]) : sent'["seg"][i].gop = i
      BY <1>q, <3>1
    <3>4. Len(sent'["init"]) \in {0, 1} /\ sent'["seg"] = <<>>
      BY <3>1
    <3> QED
      BY <2>b, <3>2, <3>3, <3>4 DEF Numbered
  <2>9. CASE BodyChan # "init"
    <3>1. /\ Len(sent["init"]) = 1 /\ sent'["init"] = sent["init"] /\ Count = 1 + Len(sent["seg"])
          /\ sent'["seg"] = Append(sent["seg"], parser.ev)
          /\ parser.ev \in Ev /\ parser.ev.gop = Count
      BY <1>8, <2>9, BodySent
    <3>2. sent["seg"] \in Seq(Ev) /\ Len(sent["seg"]) \in Nat
      BY <1>0, SentTypes DEF Chan
    <3>3. /\ Len(sent'["seg"]) = Len(sent["seg"]) + 1
          /\ \A i \in 1..Len(sent["seg"]) : sent'["seg"][i] = sent["seg"][i]
          /\ sent'["seg"][Len(sent["seg"]) + 1] = parser.ev
      BY <3>1, <3>2, AppendProperties
    <3>4. ASSUME NEW i \in 1..Len(sent'["seg"]) PROVE sent'["seg"][i].gop = i
      <4>1. CASE i \in 1..Len(sent["seg"])
        BY <1>0, <3>3, <4>1 DEF Numbered
      <4>2. CASE i \notin 1..Len(sent["seg"])
        <5>1. i = Len(sent["seg"]) + 1
          BY <3>2, <3>3, <4>2
        <5>2. sent'["seg"][i].gop = Count
          BY <3>1, <3>3, <5>1
        <5> QED
          BY <3>1, <3>2, <5>1, <5>2
      <4> QED
        BY <4>1, <4>2
    <3>5. Len(sent'["seg"]) < writer'.n \/ Closing'
      <4>1. CASE wasm.last
        BY <1>0, <2>1, <4>1 DEF Input, Closing
      <4>2. CASE ~ wasm.last
        <5>1. Cut = ReadSoFar /\ ReadSoFar <= writer.n /\ writer.n \in Nat
          <6>1. writer.n \in Nat
            BY <1>0 DEF TypeOK
          <6> QED
            BY <1>1, <4>2, <6>1 DEF Cut, ReadSoFar
        <5>2. Count < ReadSoFar
          BY <1>1, <2>4, <2>5, <5>1
        <5>3. Len(sent'["seg"]) = Count
          BY <3>1, <3>2, <3>3
        <5> QED
          BY <1>1, <2>1, <5>1, <5>2, <5>3
      <4> QED
        BY <4>1, <4>2
    <3>6. \A i \in 1..Len(sent'["init"]) : sent'["init"][i].gop = 0
      BY <1>0, <3>1 DEF Numbered
    <3>7. Len(sent'["init"]) \in {0, 1} /\ Len(sent'["init"]) = 1
      BY <3>1
    <3> QED
      BY <2>b, <3>4, <3>5, <3>6, <3>7 DEF Numbered
  <2> QED
    BY <2>8, <2>9
<1>9. CASE SendEvent
  <2>1. /\ parser.pc = "event" /\ parser' = [parser EXCEPT !.pc = "decode"]
        /\ wasm' = wasm /\ writer' = writer /\ copier' = copier /\ cancelled' = cancelled
    BY <1>9 DEF SendEvent, Send, pipeVars, hostVars
  <2>2. parser'.pc = "decode"
    BY <1>0, <2>1 DEF TypeOK
  <2>3. Count' = Count /\ sent'["init"] = sent["init"] /\ sent'["seg"] = sent["seg"]
    BY <1>9, EventSent
  <2>4. InHand' = InHand /\ Cut' = Cut /\ (Closing <=> Closing')
    BY <2>1, <2>2 DEF InHand, Cut, ReadSoFar, Closing
  <2> QED
    BY <1>0, <2>1, <2>2, <2>3, <2>4 DEF Numbered
<1>10. CASE DecodeEnds
  <2>1. /\ parser.pc = "decode" /\ wasm' = wasm /\ writer' = writer /\ copier' = copier
        /\ cancelled' = cancelled /\ sent' = sent
    BY <1>10 DEF DecodeEnds, pipeVars, chanVars, hostVars
  <2>2. parser'.pc = "returned"
    BY <1>0, <1>10 DEF TypeOK, DecodeEnds
  <2>3. InHand' = InHand /\ Cut' = Cut
    BY <2>1, <2>2 DEF InHand, Cut, ReadSoFar
  <2> QED
    BY <1>0, <1>s, <2>1, <2>2, <2>3 DEF Numbered
<1>11. CASE ParserCancelled
  <2>1. parser'.pc = "returned" /\ cancelled' /\ sent' = sent
    BY <1>0, <1>11 DEF TypeOK, ParserCancelled, chanVars, hostVars
  <2> QED
    BY <1>0, <1>s, <2>1 DEF Numbered
<1>12. CASE ~ (\/ WasmRead \/ WasmFlush \/ Sign \/ Decode \/ SendBody \/ SendEvent
               \/ DecodeEnds \/ ParserCancelled)
  <2>1. parser' = parser /\ sent' = sent
    BY <1>12, Touches
  <2>2. wasm'.queue = wasm.queue /\ wasm'.last = wasm.last
    BY <1>12, WasmMoves
  <2>3. InHand' = InHand /\ Cut' = Cut
    BY <1>12, <2>1, <2>2, ReadMoves DEF InHand, Cut
  <2> QED
    BY <1>0, <1>3, <1>s, <2>1, <2>2, <2>3 DEF Numbered
<1> QED
  BY <1>4, <1>5, <1>6, <1>7, <1>8, <1>9, <1>10, <1>11, <1>12

LEMMA PairedStep ==
  ASSUME IndInv, [Next]_vars
  PROVE  Paired'
<1>0. TypeOK /\ Paired /\ parser.pc \in {"decode", "body", "event", "returned"}
  BY DEF IndInv, TypeOK
<1>1. /\ Count \in Nat /\ Len(sent["event"]) \in Nat /\ sent["event"] \in Seq(Ev)
      /\ parser.ev \in Ev
  BY <1>0, BodiesAre, SentTypes DEF Chan, TypeOK
<1>s. sent' = sent => Count' = Count /\ Bodies' = Bodies
  BY DEF Count, Bodies
<1>2. CASE SendBody
  <2>1. parser.pc = "body" /\ parser' = [parser EXCEPT !.pc = "event"]
    BY <1>2 DEF SendBody
  <2>2. parser'.pc = "event" /\ parser'.ev = parser.ev
    BY <1>0, <2>1 DEF TypeOK
  <2>3. /\ sent'["event"] = sent["event"] /\ Count' = Count + 1
        /\ \A i \in 1..Count : Bodies'[i] = Bodies[i]
        /\ Bodies'[Count + 1] = parser.ev
    BY <1>2, BodySent
  <2>4. Count - Len(sent["event"]) = 0
    BY <1>0, <2>1 DEF Paired
  <2>5. Count' - Len(sent'["event"]) = 1
    BY <1>1, <2>3, <2>4
  <2>6. \A i \in 1..Len(sent'["event"]) : i <= Count' /\ sent'["event"][i] = Bodies'[i]
    BY <1>0, <1>1, <2>3 DEF Paired
  <2>7. Count' > 0 /\ parser'.ev = Bodies'[Count']
    BY <1>1, <2>2, <2>3
  <2> QED
    BY <2>2, <2>5, <2>6, <2>7 DEF Paired
<1>3. CASE SendEvent
  <2>1. parser.pc = "event" /\ parser' = [parser EXCEPT !.pc = "decode"]
    BY <1>3 DEF SendEvent
  <2>2. parser'.pc = "decode"
    BY <1>0, <2>1 DEF TypeOK
  <2>3. /\ sent'["event"] = Append(sent["event"], parser.ev)
        /\ Count' = Count /\ Bodies' = Bodies
    BY <1>3, EventSent
  <2>4. Count - Len(sent["event"]) = 1 /\ parser.ev = Bodies[Count]
    BY <1>0, <2>1 DEF Paired
  <2>5. /\ Len(sent'["event"]) = Len(sent["event"]) + 1
        /\ \A i \in 1..Len(sent["event"]) : sent'["event"][i] = sent["event"][i]
        /\ sent'["event"][Len(sent["event"]) + 1] = parser.ev
    BY <1>1, <2>3, AppendProperties
  <2>6. Len(sent'["event"]) = Count
    BY <1>1, <2>4, <2>5
  <2>7. ASSUME NEW i \in 1..Len(sent'["event"])
        PROVE  i <= Count' /\ sent'["event"][i] = Bodies'[i]
    <3>1. CASE i \in 1..Len(sent["event"])
      BY <1>0, <2>3, <2>5, <3>1 DEF Paired
    <3>2. CASE i \notin 1..Len(sent["event"])
      <4>1. i = Len(sent["event"]) + 1 /\ i = Count
        BY <1>1, <2>5, <2>6, <3>2
      <4>2. sent'["event"][i] = parser.ev
        BY <2>5, <4>1
      <4> QED
        BY <1>1, <2>3, <2>4, <4>1, <4>2
    <3> QED
      BY <3>1, <3>2
  <2>8. Count' - Len(sent'["event"]) = 0
    BY <1>1, <2>3, <2>6
  <2> QED
    BY <2>2, <2>7, <2>8 DEF Paired
<1>4. CASE Decode \/ DecodeEnds \/ ParserCancelled
  <2>1. sent' = sent
    BY <1>4 DEF Decode, DecodeEnds, ParserCancelled, chanVars
  <2>2. \/ parser.pc = "decode" /\ parser'.pc \in {"body", "returned"}
        \/ parser.pc \in {"body", "event"} /\ parser'.pc = "returned" /\ cancelled'
    BY <1>0, <1>4 DEF TypeOK, Decode, DecodeEnds, ParserCancelled, hostVars
  <2>3. Count - Len(sent["event"]) \in IF parser.pc = "event" THEN {1} ELSE {0}
    BY <1>0, <2>2 DEF Paired
  <2>4. Count' - Len(sent'["event"]) \in
          IF parser'.pc = "returned" /\ cancelled' THEN {0, 1} ELSE {0}
    <3>1. Count' - Len(sent'["event"]) = Count - Len(sent["event"])
      BY <1>s, <2>1
    <3> QED
      BY <2>2, <2>3, <3>1
  <2> QED
    BY <1>0, <1>s, <2>1, <2>2, <2>4 DEF Paired
<1>5. CASE UNCHANGED <<parser, sent>>
  <2>1. cancelled => cancelled'
    BY Touches DEF Cancel
  <2> QED
    BY <1>0, <1>s, <1>5, <2>1 DEF Paired
<1> QED
  BY <1>2, <1>3, <1>4, <1>5, Touches

\* The manifest of the host only gets newer, and the event that is read, cut or
\* signed now gets the newest.
LEMMA RenewedStep ==
  ASSUME IndInv, [Next]_vars
  PROVE  Renewed'
<1>0. TypeOK /\ Renewed /\ manifest \in Nat /\ manifest' \in Nat
  BY TypeStep, PipelineAssumption DEF IndInv, TypeOK
<1>t. /\ sent["seg"] \in Seq(Ev) /\ Len(sent["seg"]) \in Nat
      /\ \A i \in 1..Len(sent["seg"]) : sent["seg"][i].cut \in Nat /\ sent["seg"][i].with \in Nat
      /\ parser.ev.cut \in Nat /\ parser.ev.with \in Nat
  <2>1. \A e \in Ev : e.cut \in Nat /\ e.with \in Nat
    BY EvType, PipelineAssumption
  <2> QED
    BY <1>0, <2>1, SentTypes DEF TypeOK, Chan
<1>q. wasm.queue # <<>> => wasm.queue[1].cut \in Nat /\ wasm.queue[1].with \in Nat
  <2>1. wasm.queue # <<>> => wasm.queue[1] \in Ev
    BY <1>0, EmptySeq, ElementOfSeq DEF TypeOK
  <2> QED
    BY <2>1, EvType, PipelineAssumption
<1>m. manifest <= manifest'
  BY <1>0, Touches DEF ChangeManifest
<1>f. \A e : e.with \in Nat /\ Fresh(e) => Fresh(e)'
  BY <1>0, <1>m DEF Fresh
\* Sent events are not touched again.
<1>s. sent'["seg"] = sent["seg"] =>
        /\ \A i \in 1..Len(sent'["seg"]) : Fresh(sent["seg"][i])'
        /\ \A i, j \in 1..Len(sent'["seg"]) :
             i < j => sent'["seg"][i].with <= sent'["seg"][j].with
  BY <1>0, <1>t, <1>f DEF Renewed
<1>p. Fresh(parser.ev)'  \/ parser' # parser
  BY <1>0, <1>t, <1>f DEF Renewed
<1>1. CASE WasmRead \/ WasmFlush
  <2>1. parser' = parser /\ sent' = sent /\ manifest' = manifest
    BY <1>1 DEF WasmRead, WasmFlush, chanVars, hostVars
  <2>2. wasm'.queue # <<>> => wasm'.queue[1].cut = manifest /\ wasm'.queue[1].with = manifest
    <3>1. ReadSoFar \in 0..Gops /\ Gops \in 0..Gops
      BY PipelineAssumption DEF IndInv, Input
    <3> QED
      <4>1. /\ Event(ReadSoFar).cut = manifest /\ Event(ReadSoFar).with = manifest
            /\ <<Event(ReadSoFar)>>[1] = Event(ReadSoFar)
            /\ Event(Gops).cut = manifest /\ Event(Gops).with = manifest
            /\ <<Event(Gops)>>[1] = Event(Gops)
        BY <1>0, <3>1, NewEvent DEF IndInv
      <4>2. /\ WasmRead => wasm'.queue = <<Event(ReadSoFar)>>
            /\ WasmFlush => wasm'.queue = IF Gops > 0 THEN <<Event(Gops)>> ELSE <<>>
        BY <1>0, WasmMoves
      <4> QED
        BY <1>1, <4>1, <4>2
  <2>3. /\ \A i \in 1..Len(sent["seg"]) : sent["seg"][i].with <= manifest
        /\ parser.ev.with <= manifest
    BY <1>0 DEF Renewed, Fresh
  <2>4. wasm'.queue # <<>> =>
          /\ Fresh(wasm.queue[1])'
          /\ \A i \in 1..Len(sent["seg"]) : sent["seg"][i].with <= wasm'.queue[1].with
          /\ parser.ev.with <= wasm'.queue[1].with
    BY <1>0, <2>1, <2>2, <2>3 DEF Fresh
  <2> QED
    BY <1>0, <1>s, <1>p, <2>1, <2>4 DEF Renewed
<1>2. CASE Sign
  <2>1. parser' = parser /\ sent' = sent /\ manifest' = manifest /\ wasm.queue # <<>>
    BY <1>2 DEF Sign, Fetching, chanVars, hostVars
  <2>2. wasm'.queue[1].cut = wasm.queue[1].cut /\ wasm'.queue[1].with = manifest
    BY <1>2, WasmMoves
  <2>3. wasm.queue[1].cut <= wasm.queue[1].with /\ wasm.queue[1].with <= manifest
    BY <1>0, <2>1 DEF Renewed, Fresh
  <2>4. Fresh(wasm.queue[1])'
    BY <1>0, <1>q, <2>1, <2>2, <2>3 DEF Fresh
  <2>5. /\ \A i \in 1..Len(sent["seg"]) : sent["seg"][i].with <= wasm'.queue[1].with
        /\ parser.ev.with <= wasm'.queue[1].with
    BY <1>0, <2>2 DEF Renewed, Fresh
  <2> QED
    BY <1>0, <1>s, <1>p, <2>1, <2>4, <2>5 DEF Renewed
<1>3. CASE Decode
  <2>1. /\ wasm'.queue = <<>> /\ Len(wasm.queue) = 1 /\ Head(wasm.queue) = wasm.queue[1]
    BY <1>3, WasmMoves
  <2>2. parser' = [parser EXCEPT !.pc = "body", !.ev = wasm.queue[1]]
    BY <1>3, <2>1 DEF Decode
  <2>3. parser'.ev = wasm.queue[1] /\ wasm.queue # <<>>
    <3>1. Len(<<>>) = 0
      OBVIOUS
    <3>2. wasm.queue # <<>>
      BY <2>1, <3>1
    <3>3. parser'.ev = wasm.queue[1]
      BY <1>0, <2>2 DEF TypeOK
    <3> QED
      BY <3>2, <3>3
  <2>4. sent' = sent /\ manifest' = manifest
    BY <1>3 DEF Decode, chanVars, hostVars
  <2>5. Fresh(parser.ev)'
    BY <1>0, <2>3, <2>4 DEF Renewed, Fresh
  <2>6. \A i \in 1..Len(sent["seg"]) : sent["seg"][i].with <= parser'.ev.with
    BY <1>0, <2>3 DEF Renewed
  <2> QED
    BY <1>s, <2>1, <2>4, <2>5, <2>6 DEF Renewed
<1>4. CASE SendBody
  <2>1. /\ parser.pc = "body" /\ parser' = [parser EXCEPT !.pc = "event"]
        /\ wasm' = wasm /\ manifest' = manifest
    BY <1>4 DEF SendBody, Send, pipeVars, hostVars
  <2>2. parser'.pc = "event" /\ parser'.ev = parser.ev
    BY <1>0, <2>1 DEF TypeOK
  <2>3. /\ Fresh(parser.ev)
        /\ \A i \in 1..Len(sent["seg"]) : sent["seg"][i].with <= parser.ev.with
        /\ wasm.queue # <<>> => Fresh(wasm.queue[1]) /\ parser.ev.with <= wasm.queue[1].with
    BY <1>0, <2>1 DEF Renewed
  <2>4. Fresh(parser.ev)' /\ (wasm'.queue # <<>> => Fresh(wasm.queue[1])')
    BY <2>1, <2>2, <2>3 DEF Fresh
  <2>5. CASE sent'["seg"] = sent["seg"]
    BY <1>0, <1>s, <2>1, <2>2, <2>4, <2>5 DEF Renewed
  <2>6. CASE sent'["seg"] = Append(sent["seg"], parser.ev)
    <3>1. /\ Len(sent'["seg"]) = Len(sent["seg"]) + 1
          /\ \A i \in 1..Len(sent["seg"]) : sent'["seg"][i] = sent["seg"][i]
          /\ sent'["seg"][Len(sent["seg"]) + 1] = parser.ev
      <4>1. parser.ev \in Ev
        BY <1>0 DEF TypeOK
      <4> QED
        BY <1>t, <2>6, <4>1, AppendProperties
    <3>2. ASSUME NEW i \in 1..Len(sent'["seg"])
          PROVE  /\ Fresh(sent["seg"][i])' /\ sent'["seg"][i].with <= parser.ev.with
                 /\ i < Len(sent["seg"]) + 1 => sent'["seg"][i] = sent["seg"][i]
                 /\ wasm.queue # <<>> => sent'["seg"][i].with <= wasm.queue[1].with
      <4>1. CASE i \in 1..Len(sent["seg"])
        <5>1. sent'["seg"][i] = sent["seg"][i] /\ Fresh(sent["seg"][i])
          BY <1>0, <3>1, <4>1 DEF Renewed
        <5>2. Fresh(sent["seg"][i])'
          BY <2>1, <5>1 DEF Fresh
        <5>3. wasm.queue # <<>> => sent["seg"][i].with <= wasm.queue[1].with
          BY <1>0, <4>1 DEF Renewed
        <5> QED
          BY <2>3, <4>1, <5>1, <5>2, <5>3
      <4>2. CASE i \notin 1..Len(sent["seg"])
        <5>1. i = Len(sent["seg"]) + 1
          BY <1>t, <3>1, <4>2
        <5>2. sent'["seg"][i] = parser.ev
          BY <3>1, <5>1
        <5>3. Fresh(sent["seg"][i])'
          BY <2>1, <2>3, <5>2 DEF Fresh
        <5> QED
          BY <1>t, <2>3, <5>1, <5>2, <5>3
      <4> QED
        BY <4>1, <4>2
    <3>3. ASSUME NEW i \in 1..Len(sent'["seg"]), NEW j \in 1..Len(sent'["seg"]), i < j
          PROVE  sent'["seg"][i].with <= sent'["seg"][j].with
      <4>1. i \in 1..Len(sent["seg"])
        BY <1>t, <3>1, <3>3
      <4>2. CASE j \in 1..Len(sent["seg"])
        BY <1>0, <3>1, <3>3, <4>1, <4>2 DEF Renewed
      <4>3. CASE j \notin 1..Len(sent["seg"])
        <5>1. j = Len(sent["seg"]) + 1
          BY <1>t, <3>1, <4>3
        <5> QED
          BY <3>1, <3>2, <5>1
      <4> QED
        BY <4>2, <4>3
    <3> QED
      BY <2>1, <2>2, <2>4, <3>2, <3>3 DEF Renewed
  <2> QED
    BY <1>4, <2>5, <2>6, BodySent
<1>5. CASE ~ (WasmRead \/ WasmFlush \/ Sign \/ Decode \/ SendBody)
  <2>1. wasm'.queue = wasm.queue
    BY <1>5, WasmMoves
  <2>2. sent'["seg"] = sent["seg"]
    BY <1>5, Touches, EventSent
  <2>3. parser'.ev = parser.ev /\ (parser'.pc = "body" => parser.pc = "body")
    BY <1>0, <1>5, Touches DEF TypeOK, DecodeEnds, SendEvent, ParserCancelled
  <2>4. Fresh(parser.ev)' /\ (wasm'.queue # <<>> => Fresh(wasm.queue[1])')
    BY <1>0, <1>t, <1>q, <1>f, <2>1, <2>3 DEF Renewed
  <2> QED
    BY <1>0, <1>s, <2>1, <2>2, <2>3, <2>4 DEF Renewed
<1> QED
  BY <1>1, <1>2, <1>3, <1>4, <1>5

-----------------------------------------------------------------------------

LEMMA Inductive == IndInv /\ [Next]_vars => IndInv'
BY TypeStep, InputStep, ProgramStep, NumberedStep, PairedStep, RenewedStep, OverStep DEF IndInv

LEMMA Always == Spec => []IndInv
BY InitInv, Inductive, PTL DEF Spec

\* Every state of the pipeline is of its type: the program holds at most one
\* event at a time, and no channel is closed more than once (close of a closed
\* channel panics).
THEOREM TypesHold == Spec => []TypeOK
<1>1. IndInv => TypeOK
  BY DEF IndInv
<1> QED
  BY <1>1, Always, PTL

\* However the five goroutines interleave, wherever the wasm fails and whenever
\* the context is cancelled, InitCh, SegCh and EventCh get the Init and the GoPs
\* in the order they were written, without a gap or a repetition, each body
\* before its metadata (parseEvents).
THEOREM Sequenced == Spec => []InStep
<1>1. ASSUME IndInv PROVE InStep
  <2>0. TypeOK /\ Numbered /\ Paired
    BY <1>1 DEF IndInv
  <2>1. /\ Len(Bodies) = Count /\ DOMAIN Bodies = 1..Count
        /\ DOMAIN sent["event"] = 1..Len(sent["event"]) /\ DOMAIN sent["seg"] = 1..Len(sent["seg"])
        /\ Len(sent["seg"]) \in Nat /\ writer.n \in Nat /\ sent["seg"] \in Seq(Ev)
    BY <2>0, BodiesAre, SentTypes DEF Chan, TypeOK
  <2>2. \A i \in DOMAIN Bodies : Bodies[i].gop = i - 1
    BY <2>0, <2>1, BodiesNumbered
  <2>3. \A i \in DOMAIN sent["event"] : i <= Len(Bodies) /\ sent["event"][i] = Bodies[i]
    BY <2>0, <2>1 DEF Paired
  <2>4. Len(Bodies) - Len(sent["event"]) \in
          IF parser.pc = "event" THEN {1} ELSE IF parser.pc = "returned" THEN {0, 1} ELSE {0}
    BY <2>0, <2>1 DEF Paired
  <2>5. ASSUME NEW i \in DOMAIN sent["seg"]
        PROVE  i < writer.n \/ writer.pc \in {"closing", "closed"}
    <3>1. i \in 1..Len(sent["seg"]) /\ sent["seg"] # <<>>
      BY <2>1, EmptySeq
    <3> QED
      BY <2>0, <2>1, <3>1 DEF Numbered, Closing
  <2> QED
    BY <2>2, <2>3, <2>4, <2>5 DEF InStep
<1> QED
  BY <1>1, Always, PTL


\* A channel is closed only when nothing more is sent to it, Close returns after
\* the three are closed, and a nil error then says that every GoP went out with
\* its metadata, unless the context was cancelled (newConcatenator, Close).
THEOREM ClosedAfterAll == Spec => []ClosedWhenOver
<1>1. ASSUME IndInv PROVE ClosedWhenOver
  <2>0. TypeOK /\ Input /\ Program /\ Numbered /\ Paired /\ Over
    BY <1>1 DEF IndInv
  <2>1. closed > 0 => parser.pc = "returned"
    BY <2>0 DEF Over, RunReturns
  <2>2. ASSUME done = "nil", ~ cancelled
        PROVE  Len(sent["seg"]) = Gops /\ Len(sent["event"]) = Len(Bodies)
    <3>1. wasm.last /\ wasm.queue = <<>> /\ closed > 0
      <4>1. wasm.err = "nil" /\ closed = 3
        BY <2>0, <2>2 DEF Over
      <4> QED
        BY <2>0, <4>1 DEF Program
    <3>2. parser.pc = "returned"
      BY <2>1, <3>1
    <3>3. ReadSoFar = Gops
      <4>1. writer.n = Gops /\ writer.pc # "writing" /\ copier = "ended"
        BY <2>0, <3>1 DEF Input, Closing
      <4>2. Gops \in Nat
        BY PipelineAssumption
      <4> QED
        BY <4>1, <4>2 DEF ReadSoFar
    <3>4. InHand = 0
      <4>1. Len(<<>>) = 0
        OBVIOUS
      <4> QED
        BY <3>1, <3>2, <4>1 DEF InHand
    <3>5. Count + 0 = Cut
      BY <2>0, <2>2, <3>4 DEF Numbered
    <3>6. /\ Count \in Nat /\ Len(Bodies) = Count /\ Gops \in Nat
          /\ Len(sent["seg"]) \in Nat /\ Len(sent["event"]) \in Nat /\ sent["seg"] \in Seq(Ev)
      BY <2>0, BodiesAre, SentTypes, PipelineAssumption DEF Chan
    <3>7. Len(sent["seg"]) = Gops
      <4>1. CASE Gops = 0
        <5>1. Count = 0
          BY <3>1, <3>3, <3>5, <3>6, <4>1 DEF Cut
        <5>2. sent["seg"] = <<>>
          BY <2>0, <5>1, BodiesNumbered
        <5> QED
          BY <4>1, <5>2
      <4>2. CASE Gops # 0
        <5>1. Cut = Gops + 1
          BY <3>1, <3>3, <3>6, <4>2 DEF Cut
        <5>2. Count = Gops + 1
          BY <3>5, <3>6, <5>1
        <5>3. Count = 1 + Len(sent["seg"])
          BY <2>0, <3>6, <5>2, BodiesNumbered
        <5> QED
          BY <3>6, <5>2, <5>3
      <4> QED
        BY <4>1, <4>2
    <3>8. Count - Len(sent["event"]) = 0
      BY <2>0, <2>2, <3>2 DEF Paired
    <3>9. Len(sent["event"]) = Count
      BY <3>6, <3>8
    <3> QED
      BY <3>6, <3>7, <3>9
  <2> QED
    BY <2>0, <2>1, <2>2 DEF Over, ClosedWhenOver
<1> QED
  BY <1>1, Always, PTL

\* Each GoP is signed with a manifest no older than when it was cut and no older
\* than the GoP before it: a change made mid-stream is picked up and stays, also
\* one that comes between the probe of the length and the retry (next_track).
THEOREM ManifestsFollow == Spec => []ManifestFollows
<1>1. ASSUME IndInv PROVE ManifestFollows
  <2>0. TypeOK /\ Renewed
    BY <1>1 DEF IndInv
  <2>1. DOMAIN sent["seg"] = 1..Len(sent["seg"]) /\ Len(sent["seg"]) \in Nat
    BY <2>0, SentTypes DEF Chan
  <2>2. ASSUME NEW i \in DOMAIN sent["seg"]
        PROVE  /\ sent["seg"][i].cut <= sent["seg"][i].with
               /\ i > 1 => sent["seg"][i - 1].with <= sent["seg"][i].with
    <3>1. sent["seg"][i].cut <= sent["seg"][i].with
      BY <2>0, <2>1 DEF Renewed, Fresh
    <3>2. i > 1 => i - 1 \in 1..Len(sent["seg"]) /\ i - 1 < i
      BY <2>1
    <3> QED
      BY <2>0, <2>1, <3>1, <3>2 DEF Renewed
  <2> QED
    BY <2>2 DEF ManifestFollows
<1> QED
  BY <1>1, Always, PTL
=============================================================================
