-------------------------- MODULE Segmenter_proofs --------------------------
(***************************************************************************)
(* The push segmenter, for every set of streams, every way to cut them     *)
(* into chunks and any number of flushes: its variables keep their types,  *)
(* it emits the fragments of a track in order, each at most once; then     *)
(* which frames a GoP holds, how the GoPs are numbered and what their      *)
(* indexes say.                                                            *)
(***************************************************************************)
EXTENDS PushPull, GopCut_proofs, SequenceTheorems

-----------------------------------------------------------------------------
(* Type correctness.                                                       *)

LEMMA StreamType ==
  ASSUME TypeOK
  PROVE  /\ stream \in Seq(Box)
         /\ Len(stream) \in Nat
         /\ \A i \in 1..Len(stream) : stream[i] \in Box
BY StreamAssumption DEF TypeOK

\* The step that a mint step runs is a step of a moof of the stream.
LEMMA ThisStepType ==
  ASSUME TypeOK, MoreSteps
  PROVE  ThisStep \in Step
<1>1. stream[cursor.moof] \in Box /\ stream[cursor.moof].kind = "moof"
  BY StreamType DEF TypeOK, MoreSteps
<1>2. Steps \in Seq(Step)
  BY <1>1, BoxFields DEF Steps
<1>3. cursor.step \in 1..Len(Steps)
  BY <1>2 DEF TypeOK, MoreSteps
<1> QED
  BY <1>2, <1>3 DEF ThisStep

LEMMA GopEventType ==
  ASSUME NEW list \in Seq(Event), bufs \in [Track -> TrackBuf], segNo \in Nat
  PROVE  WithGop(list) \in Seq(Event)
<1>1. GopOf(bufs, segNo + 1) \in Gop
  BY GopOfType
<1>2. [type |-> "segment", gop |-> GopOf(bufs, segNo + 1)] \in Event
  BY <1>1 DEF Event
<1> QED
  BY <1>2 DEF WithGop

LEMMA TypeInit == Init => TypeOK
<1> SUFFICES ASSUME Init PROVE TypeOK
  OBVIOUS
<1>1. stream \in Seq(Box) /\ Len(stream) \in Nat
  BY StreamAssumption DEF Init
<1>2. catalog \in Catalog
  BY DEF Init, NoCatalog, Catalog
<1>3. clock \in [Track -> Progress]
  BY DEF Init, StartClock, Progress
<1>4. bufs \in [Track -> TrackBuf]
  BY NoBufsType DEF Init
<1>5. flushes \in 0..MaxFlushes
  BY StreamAssumption DEF Init
<1>6. cursor \in [moof : 0..Len(stream), step : Nat \ {0}, pos : Nat]
  BY <1>1 DEF Init
<1>7. frames \in Seq(Frame) /\ events \in Seq(Event) /\ delivered \in Seq(Event)
  BY DEF Init
<1>8. /\ stream \in Streams /\ recv = 0 /\ next = 1 /\ next \in 1..(Len(stream) + 1)
      /\ pc = "idle" /\ streaming = FALSE /\ pending = 0 /\ pending \in 0..Len(stream)
      /\ segNo = 0 /\ seen = FALSE /\ failed = FALSE
  BY <1>1 DEF Init
<1> QED
  BY <1>2, <1>3, <1>4, <1>5, <1>6, <1>7, <1>8 DEF TypeOK

LEMMA TypeFail ==
  ASSUME TypeOK, Fail
  PROVE  TypeOK'
BY DEF TypeOK, Fail, input, reader, gop

LEMMA TypeRecord ==
  ASSUME TypeOK, RecordNext
  PROVE  TypeOK'
<1> DEFINE f == Head(frames)
           cut == Boundary(catalog, bufs, seen, f)
<1>1. f \in Frame /\ Tail(frames) \in Seq(Frame)
  BY DEF TypeOK, RecordNext
<1>2. bufs' \in [Track -> TrackBuf]
  <2>1. (IF cut THEN NoBufs ELSE bufs) \in [Track -> TrackBuf]
    BY NoBufsType DEF TypeOK
  <2>2. bufs' = RecordFrame(IF cut THEN NoBufs ELSE bufs, f)
    BY DEF RecordNext
  <2> QED
    BY <1>1, <2>1, <2>2, RecordFrameType
<1>3. events' \in Seq(Event)
  BY GopEventType DEF TypeOK, RecordNext
<1>4. segNo' \in Nat
  BY DEF TypeOK, RecordNext
<1>5. seen' \in BOOLEAN
  BY DEF TypeOK, RecordNext
<1>6. frames' \in Seq(Frame)
  BY <1>1 DEF RecordNext
<1> QED
  BY <1>2, <1>3, <1>4, <1>5, <1>6
  DEF TypeOK, RecordNext, input, reader, history

LEMMA TypeFlush ==
  ASSUME TypeOK, Flush
  PROVE  TypeOK'
<1>1. delivered' \in Seq(Event)
  BY GopEventType DEF TypeOK, Flush
<1>2. bufs' \in [Track -> TrackBuf]
  BY NoBufsType DEF TypeOK, Flush
<1>3. segNo' \in Nat
  BY DEF TypeOK, Flush
<1>4. flushes' \in 0..MaxFlushes
  BY StreamAssumption DEF TypeOK, Flush
<1> QED
  BY <1>1, <1>2, <1>3, <1>4 DEF TypeOK, Flush, input, reader, minting

LEMMA TypeStep == TypeOK /\ [Next]_vars => TypeOK'
<1> SUFFICES ASSUME TypeOK, [Next]_vars PROVE TypeOK'
  OBVIOUS
<1>s. /\ stream \in Seq(Box) /\ Len(stream) \in Nat
      /\ \A i \in 1..Len(stream) : stream[i] \in Box
  BY StreamType
<1>1. ASSUME NEW n \in 0..(BoxParts * Len(stream)), Feed(n)
      PROVE  TypeOK'
  <2>1. n \in Nat
    BY <1>s, <1>1, StreamAssumption
  <2>2. recv' \in Nat
    BY <1>1, <2>1 DEF TypeOK, Feed
  <2> QED
    BY <1>1, <2>2 DEF TypeOK, Feed, reader, minting, gop, history
<1>2. CASE FeedReturn
  BY <1>2 DEF TypeOK, FeedReturn, input, reader, minting, gop
<1>3. CASE SkipBox
  BY <1>s, <1>3 DEF TypeOK, SkipBox, BoxReady, ThisBox, input, reader, minting, gop, history
<1>4. CASE BadBox
  BY <1>4, TypeFail DEF BadBox
<1>5. CASE ReadMoov
  <2>1. ThisBox \in Box
    BY <1>s, <1>5 DEF TypeOK, ReadMoov, BoxReady, ThisBox
  <2>2. catalog' \in Catalog
    BY <1>5, <2>1, BoxFields, RemapCatalogType DEF ReadMoov
  <2>3. events' \in Seq(Event)
    <3>1. [type |-> "init", catalog |-> catalog'] \in Event
      BY <2>2 DEF Event
    <3> QED
      BY <1>5, <3>1 DEF TypeOK, ReadMoov
  <2>4. next' \in 1..(Len(stream) + 1)
    BY <1>s, <1>5 DEF TypeOK, ReadMoov, BoxReady
  <2> QED
    BY <1>5, <2>2, <2>3, <2>4
    DEF TypeOK, ReadMoov, BoxReady, input, minting, gop, history
<1>6. CASE HoldMoof
  <2>1. next \in 1..Len(stream)
    BY <1>s, <1>6 DEF TypeOK, HoldMoof, BoxReady
  <2>2. next' \in 1..(Len(stream) + 1) /\ pending' \in 1..Len(stream)
    BY <1>s, <1>6, <2>1 DEF HoldMoof
  <2>3. stream[pending'].kind = "moof"
    BY <1>6 DEF HoldMoof, ThisBox
  <2>4. pc' = "scan"
    BY <1>6 DEF HoldMoof, BoxReady
  <2> QED
    BY <1>6, <2>2, <2>3, <2>4 DEF TypeOK, HoldMoof, input, minting, gop, history
<1>7. CASE OpenMdat
  <2>1. cursor' \in [moof : 0..Len(stream), step : Nat \ {0}, pos : Nat]
    BY <1>s, <1>7 DEF TypeOK, OpenMdat
  <2>2. cursor'.moof # 0 /\ stream[cursor'.moof].kind = "moof"
    BY <1>7 DEF TypeOK, OpenMdat
  <2>3. next \in 1..Len(stream) /\ stream[next].kind = "mdat"
    BY <1>s, <1>7 DEF TypeOK, OpenMdat, BoxReady, ThisBox
  <2>4. frames' \in Seq(Frame)
    BY <1>7 DEF OpenMdat
  <2> QED
    BY <1>7, <2>1, <2>2, <2>3, <2>4, <1>s DEF TypeOK, OpenMdat, input, gop, history
<1>8. CASE ReadTfdt
  <2>1. clock' \in [Track -> Progress]
    BY <1>8, ThisStepType, ClockType DEF TypeOK, ReadTfdt
  <2>2. /\ cursor' \in [moof : 0..Len(stream), step : Nat \ {0}, pos : Nat]
        /\ cursor'.moof = cursor.moof
    <3>1. cursor.moof \in 0..Len(stream) /\ cursor.step \in Nat /\ cursor.pos \in Nat
      BY DEF TypeOK
    <3>2. cursor' = [moof |-> cursor.moof, step |-> cursor.step + 1, pos |-> cursor.pos]
      BY <1>8 DEF TypeOK, ReadTfdt
    <3> QED
      BY <3>1, <3>2
  <2> QED
    BY <1>8, <2>1, <2>2 DEF TypeOK, ReadTfdt, input, reader, gop, history
<1>9. CASE MintSample
  <2>1. clock' \in [Track -> Progress]
    BY <1>9, ThisStepType, ClockType DEF TypeOK, MintSample
  <2>2. /\ cursor' \in [moof : 0..Len(stream), step : Nat \ {0}, pos : Nat]
        /\ cursor'.moof = cursor.moof
    <3>1. cursor.moof \in 0..Len(stream) /\ cursor.step \in Nat /\ cursor.pos \in Nat
      BY DEF TypeOK
    <3>2. cursor' = [moof |-> cursor.moof, step |-> cursor.step + 1,
                     pos |-> cursor.pos + ThisStep.size]
      BY <1>9 DEF TypeOK, MintSample
    <3>3. ThisStep.size \in Nat
      BY <1>9, ThisStepType, StepFields DEF MintSample
    <3> QED
      BY <3>1, <3>2, <3>3
  <2>3. frames' \in Seq(Frame)
    <3>1. <<next, cursor.pos>> \in Nat \X Int
      BY <1>s DEF TypeOK
    <3>2. MintFrame(clock, ThisStep, <<next, cursor.pos>>) \in Frame
      BY <1>9, <3>1, ThisStepType, MintFrameType DEF TypeOK, MintSample
    <3> QED
      BY <1>9, <3>2 DEF TypeOK, MintSample
  <2> QED
    BY <1>9, <2>1, <2>2, <2>3 DEF TypeOK, MintSample, input, reader, gop, history
<1>10. CASE DataOutside
  BY <1>10, TypeFail DEF DataOutside
<1>11. CASE AllMinted
  BY <1>11 DEF TypeOK, AllMinted, input, reader, minting, gop, history
<1>12. CASE RecordNext
  BY <1>12, TypeRecord
<1>13. CASE DrainMdat
  BY <1>s, <1>13 DEF TypeOK, DrainMdat, input, reader, minting, gop, history
<1>14. CASE Flush
  BY <1>14, TypeFlush
<1>15. CASE StartTrun
  <2>1. cursor' \in [moof : 0..Len(stream), step : Nat \ {0}, pos : Nat]
    <3>1. cursor.moof \in 0..Len(stream) /\ cursor.step \in Nat
      BY DEF TypeOK
    <3>2. cursor' = [moof |-> cursor.moof, step |-> cursor.step + 1,
                     pos |-> TrunStart(ThisStep)]
      BY <1>15 DEF TypeOK, StartTrun
    <3>3. TrunStart(ThisStep) \in Nat
      BY <1>15, ThisStepType, StepFields DEF StartTrun, TrunStart
    <3> QED
      BY <3>1, <3>2, <3>3
  <2>2. cursor'.moof = cursor.moof
    BY <1>15 DEF TypeOK, StartTrun
  <2> QED
    BY <1>15, <2>1, <2>2 DEF TypeOK, StartTrun, input, reader, gop, history
<1>16. CASE UNCHANGED vars
  BY <1>16 DEF TypeOK, vars, input, reader, minting, gop, history
<1> QED
  BY <1>1, <1>2, <1>3, <1>4, <1>5, <1>6, <1>7, <1>8, <1>9, <1>10, <1>11,
     <1>12, <1>13, <1>14, <1>15, <1>16 DEF Next, Run

\* Every variable keeps its type, and `next`, `pending` and the cursor stay
\* positions of boxes of the right kind in the file (push.rs, Segmenter).
THEOREM TypeCorrect == Spec => []TypeOK
BY TypeInit, TypeStep, PTL DEF Spec

-----------------------------------------------------------------------------
(* Order.  Ordered alone is not inductive: that a frame just minted comes  *)
(* last needs every earlier frame of its track to be numbered below the    *)
(* count of the clock, and that a call leaves no event behind needs        *)
(* `events` to be empty between calls.                                     *)

\* No frame is numbered above the count of its input track.
BelowClock(list, held, queue, ticks) ==
  \A t \in Track :
    /\ \A i \in DOMAIN list : Below(FramesIn(list[i], Remap[t]), ticks[t].count + 1)
    /\ Below(held[Remap[t]].frames, ticks[t].count + 1)
    /\ \A q \in DOMAIN queue :
         queue[q].track = Remap[t] => queue[q].seq < ticks[t].count + 1

Good(list, held, queue, ticks) ==
  Ordered(list, held, queue) /\ BelowClock(list, held, queue, ticks)

\* The inductive invariant.
OrderInv ==
  /\ TypeOK
  /\ Good(Emitted, bufs, frames, clock)
  /\ pc = "idle" => events = <<>>

LEMMA FramesInType ==
  ASSUME NEW e \in Event, NEW t \in Track
  PROVE  FramesIn(e, t) \in Seq(Frame)
<1>1. CASE e.type = "segment"
  <2>1. e.gop \in Gop
    BY <1>1 DEF Event
  <2>2. e.gop.tracks[t] \in Segment
    BY <2>1 DEF Gop
  <2> QED
    BY <1>1, <2>2 DEF FramesIn, Segment
<1>2. CASE e.type # "segment"
  BY <1>2 DEF FramesIn
<1> QED
  BY <1>1, <1>2

LEMMA FrameSeq ==
  ASSUME NEW g \in Seq(Frame)
  PROVE  \A i \in DOMAIN g : g[i] \in Frame /\ g[i].seq \in Nat
<1>1. \A i \in DOMAIN g : g[i] \in Frame
  OBVIOUS
<1>2. \A f \in Frame : f.seq \in Nat
  BY DEF Frame
<1> QED
  BY <1>1, <1>2

\* The events of `list`, one more, holding what was buffered, or nothing.
LEMMA GoodEmit ==
  ASSUME NEW list \in Seq(Event), NEW held \in [Track -> TrackBuf],
         NEW queue \in Seq(Frame), NEW ticks \in [Track -> Progress],
         Good(list, held, queue, ticks),
         NEW e \in Event, \A t \in Track : FramesIn(e, t) = held[t].frames
  PROVE  Good(Append(list, e), NoBufs, queue, ticks)
<1> DEFINE more == Append(list, e)
<1>1. /\ Len(list) \in Nat /\ DOMAIN list = 1..Len(list)
      /\ DOMAIN more = 1..(Len(list) + 1)
      /\ more[Len(list) + 1] = e
      /\ \A i \in 1..Len(list) : more[i] = list[i]
  OBVIOUS
<1>2. \A t \in Track : NoBufs[t].frames = <<>>
  BY DEF NoBufs, EmptyBuf
<1>3. Ordered(more, NoBufs, queue)
  <2> SUFFICES ASSUME NEW t \in Track
               PROVE  /\ \A i \in DOMAIN more : /\ Increasing(FramesIn(more[i], t))
                                                /\ Before(FramesIn(more[i], t), NoBufs[t].frames)
                      /\ \A i, j \in DOMAIN more :
                           i < j => Before(FramesIn(more[i], t), FramesIn(more[j], t))
                      /\ Increasing(NoBufs[t].frames)
                      /\ \A q \in DOMAIN queue : queue[q].track = t =>
                           /\ \A i \in DOMAIN more : Below(FramesIn(more[i], t), queue[q].seq)
                           /\ Below(NoBufs[t].frames, queue[q].seq)
                           /\ \A p \in DOMAIN queue :
                                (p < q /\ queue[p].track = t) => queue[p].seq < queue[q].seq
    BY DEF Ordered
  <2> HIDE DEF more
  <2>1. \A i \in DOMAIN more : i \in 1..Len(list) \/ i = Len(list) + 1
    BY <1>1
  <2>2. /\ \A i \in 1..Len(list) : /\ Increasing(FramesIn(list[i], t))
                                   /\ Before(FramesIn(list[i], t), FramesIn(e, t))
        /\ \A i, j \in 1..Len(list) :
             i < j => Before(FramesIn(list[i], t), FramesIn(list[j], t))
        /\ Increasing(FramesIn(e, t))
        /\ \A q \in DOMAIN queue : queue[q].track = t =>
             /\ \A i \in 1..Len(list) : Below(FramesIn(list[i], t), queue[q].seq)
             /\ Below(FramesIn(e, t), queue[q].seq)
             /\ \A p \in DOMAIN queue :
                  (p < q /\ queue[p].track = t) => queue[p].seq < queue[q].seq
    BY <1>1 DEF Good, Ordered
  <2>3. \A r : Before(r, NoBufs[t].frames)
    BY <1>2 DEF Before
  <2>4. Increasing(NoBufs[t].frames) /\ \A n : Below(NoBufs[t].frames, n)
    BY <1>2 DEF Increasing, Below
  <2>5. \A i \in DOMAIN more : Increasing(FramesIn(more[i], t))
    BY <1>1, <2>1, <2>2
  <2>6. ASSUME NEW i \in DOMAIN more, NEW j \in DOMAIN more, i < j
        PROVE  Before(FramesIn(more[i], t), FramesIn(more[j], t))
    <3>1. i \in 1..Len(list)
      BY <1>1, <2>6
    <3>2. j \in 1..Len(list) \/ j = Len(list) + 1
      BY <2>1
    <3> QED
      BY <1>1, <2>2, <2>6, <3>1, <3>2
  <2>7. \A q \in DOMAIN queue : queue[q].track = t =>
          \A i \in DOMAIN more : Below(FramesIn(more[i], t), queue[q].seq)
    BY <1>1, <2>1, <2>2
  <2> QED
    BY <2>2, <2>3, <2>4, <2>5, <2>6, <2>7
<1>4. BelowClock(more, NoBufs, queue, ticks)
  <2> SUFFICES ASSUME NEW t \in Track
               PROVE  /\ \A i \in DOMAIN more :
                           Below(FramesIn(more[i], Remap[t]), ticks[t].count + 1)
                      /\ Below(NoBufs[Remap[t]].frames, ticks[t].count + 1)
                      /\ \A q \in DOMAIN queue :
                           queue[q].track = Remap[t] => queue[q].seq < ticks[t].count + 1
    BY DEF BelowClock
  <2> HIDE DEF more
  <2>1. Remap[t] \in Track
    BY RemapAssumption
  <2>2. /\ \A i \in 1..Len(list) : Below(FramesIn(list[i], Remap[t]), ticks[t].count + 1)
        /\ Below(FramesIn(e, Remap[t]), ticks[t].count + 1)
        /\ \A q \in DOMAIN queue :
             queue[q].track = Remap[t] => queue[q].seq < ticks[t].count + 1
    BY <1>1, <2>1 DEF Good, BelowClock
  <2>3. Below(NoBufs[Remap[t]].frames, ticks[t].count + 1)
    BY <1>2, <2>1 DEF Below
  <2>4. \A i \in DOMAIN more : i \in 1..Len(list) \/ i = Len(list) + 1
    BY <1>1
  <2> QED
    BY <1>1, <2>2, <2>3, <2>4
<1> QED
  BY <1>3, <1>4 DEF Good

\* An event without frames changes nothing.
LEMMA GoodEmitInit ==
  ASSUME NEW list \in Seq(Event), NEW held, NEW queue, NEW ticks,
         Good(list, held, queue, ticks),
         NEW e, \A t \in Track : FramesIn(e, t) = <<>>
  PROVE  Good(Append(list, e), held, queue, ticks)
<1> DEFINE more == Append(list, e)
<1>1. /\ Len(list) \in Nat /\ DOMAIN list = 1..Len(list)
      /\ DOMAIN more = 1..(Len(list) + 1)
      /\ more[Len(list) + 1] = e
      /\ \A i \in 1..Len(list) : more[i] = list[i]
  OBVIOUS
<1> HIDE DEF more
<1>2. \A i \in DOMAIN more : i \in DOMAIN list \/ i = Len(list) + 1
  BY <1>1
<1>3. ASSUME NEW t \in Track
      PROVE  /\ Increasing(FramesIn(e, t))
             /\ \A r : Before(FramesIn(e, t), r) /\ Before(r, FramesIn(e, t))
             /\ \A n : Below(FramesIn(e, t), n)
  BY DEF Increasing, Before, Below
<1>4. Ordered(more, held, queue)
  <2> SUFFICES ASSUME NEW t \in Track
               PROVE  /\ \A i \in DOMAIN more : /\ Increasing(FramesIn(more[i], t))
                                                /\ Before(FramesIn(more[i], t), held[t].frames)
                      /\ \A i, j \in DOMAIN more :
                           i < j => Before(FramesIn(more[i], t), FramesIn(more[j], t))
                      /\ Increasing(held[t].frames)
                      /\ \A q \in DOMAIN queue : queue[q].track = t =>
                           /\ \A i \in DOMAIN more : Below(FramesIn(more[i], t), queue[q].seq)
                           /\ Below(held[t].frames, queue[q].seq)
                           /\ \A p \in DOMAIN queue :
                                (p < q /\ queue[p].track = t) => queue[p].seq < queue[q].seq
    BY DEF Ordered
  <2>1. \A i, j \in DOMAIN more :
          i < j => Before(FramesIn(more[i], t), FramesIn(more[j], t))
    BY <1>1, <1>2, <1>3 DEF Good, Ordered
  <2>2. \A i \in DOMAIN more : /\ Increasing(FramesIn(more[i], t))
                               /\ Before(FramesIn(more[i], t), held[t].frames)
    BY <1>1, <1>2, <1>3 DEF Good, Ordered
  <2>3. \A q \in DOMAIN queue : queue[q].track = t =>
          \A i \in DOMAIN more : Below(FramesIn(more[i], t), queue[q].seq)
    BY <1>1, <1>2, <1>3 DEF Good, Ordered
  <2> QED
    BY <2>1, <2>2, <2>3 DEF Good, Ordered
<1>5. BelowClock(more, held, queue, ticks)
  <2>1. \A t \in Track, i \in DOMAIN more :
          Below(FramesIn(more[i], Remap[t]), ticks[t].count + 1)
    BY <1>1, <1>2, <1>3, RemapAssumption DEF Good, BelowClock
  <2> QED
    BY <2>1 DEF Good, BelowClock
<1> QED
  BY <1>4, <1>5 DEF Good, more

\* Frames may be forgotten: those buffered, those queued, the last events.
LEMMA GoodNoHeld ==
  ASSUME NEW list, NEW held, NEW queue, NEW ticks, Good(list, held, queue, ticks)
  PROVE  Good(list, NoBufs, queue, ticks)
<1>1. \A t \in Track : NoBufs[t].frames = <<>>
  BY DEF NoBufs, EmptyBuf
<1>2. ASSUME NEW t \in Track
      PROVE  /\ Increasing(NoBufs[t].frames)
             /\ \A r : Before(r, NoBufs[t].frames)
             /\ \A n : Below(NoBufs[t].frames, n)
  BY <1>1 DEF Increasing, Before, Below
<1>3. Ordered(list, NoBufs, queue)
  BY <1>2 DEF Good, Ordered
<1>4. BelowClock(list, NoBufs, queue, ticks)
  BY <1>2, RemapAssumption DEF Good, BelowClock
<1> QED
  BY <1>3, <1>4 DEF Good

LEMMA GoodNoQueue ==
  ASSUME NEW list, NEW held, NEW queue, NEW ticks, Good(list, held, queue, ticks)
  PROVE  Good(list, held, <<>>, ticks)
BY DEF Good, Ordered, BelowClock

LEMMA GoodPrefix ==
  ASSUME NEW list \in Seq(Event), NEW last \in Seq(Event), NEW held, NEW queue, NEW ticks,
         Good(list \o last, held, queue, ticks)
  PROVE  Good(list, held, queue, ticks)
<1>1. /\ DOMAIN list \subseteq DOMAIN (list \o last)
      /\ \A i \in DOMAIN list : (list \o last)[i] = list[i]
  OBVIOUS
<1>2. Ordered(list, held, queue)
  BY <1>1 DEF Good, Ordered
<1>3. BelowClock(list, held, queue, ticks)
  BY <1>1 DEF Good, BelowClock
<1> QED
  BY <1>2, <1>3 DEF Good

\* Setting a decode time leaves the counts.
LEMMA GoodTfdt ==
  ASSUME NEW list, NEW held, NEW queue, NEW ticks \in [Track -> Progress],
         Good(list, held, queue, ticks), NEW s \in Step, s.op = "tfdt"
  PROVE  Good(list, held, queue, SetDecodeTime(ticks, s))
<1>1. \A t \in Track : SetDecodeTime(ticks, s)[t].count = ticks[t].count
  BY StepFields DEF SetDecodeTime, Progress
<1> QED
  BY <1>1 DEF Good, BelowClock

\* The head of the queue joins the buffer of its track.
LEMMA GoodRecord ==
  ASSUME NEW list \in Seq(Event), NEW held \in [Track -> TrackBuf],
         NEW queue \in Seq(Frame), queue # <<>>,
         NEW ticks \in [Track -> Progress], Good(list, held, queue, ticks)
  PROVE  Good(list, RecordFrame(held, Head(queue)), Tail(queue), ticks)
<1> DEFINE f    == Head(queue)
           more == RecordFrame(held, f)
           rest == Tail(queue)
<1>1. /\ f = queue[1] /\ f \in Frame /\ 1 \in DOMAIN queue
      /\ rest \in Seq(Frame)
      /\ \A q \in DOMAIN rest : /\ q + 1 \in DOMAIN queue /\ q \in Nat /\ q >= 1
                               /\ rest[q] = queue[q + 1]
  OBVIOUS
<1>2. /\ f.track \in Track
      /\ more[f.track].frames = Append(held[f.track].frames, f)
      /\ \A t \in Track \ {f.track} : more[t] = held[t]
  BY <1>1, RecordFrameType
<1> HIDE DEF f, more, rest
<1>3. ASSUME NEW t \in Track
      PROVE  \A k \in DOMAIN more[t].frames :
               \/ k \in DOMAIN held[t].frames /\ more[t].frames[k] = held[t].frames[k]
               \/ /\ f.track = t /\ more[t].frames[k] = f
                  /\ \A l \in DOMAIN held[t].frames : l < k
  <2>1. held[t].frames \in Seq(Frame)
    BY DEF TrackBuf
  <2>2. CASE f.track = t
    <3>1. more[t].frames = Append(held[t].frames, f)
      BY <1>2, <2>2
    <3> QED
      BY <1>1, <2>1, <2>2, <3>1
  <2>3. CASE f.track # t
    BY <1>2, <2>3
  <2> QED
    BY <2>2, <2>3
<1>4. ASSUME NEW t \in Track
      PROVE  /\ \A i \in DOMAIN list : Before(FramesIn(list[i], t), more[t].frames)
             /\ Increasing(more[t].frames)
             /\ \A q \in DOMAIN rest : rest[q].track = t => Below(more[t].frames, rest[q].seq)
  <2>1. held[t].frames \in Seq(Frame)
    BY DEF TrackBuf
  <2>2. f.track = t => /\ Below(held[t].frames, f.seq)
                       /\ \A i \in DOMAIN list : Below(FramesIn(list[i], t), f.seq)
    BY <1>1 DEF Good, Ordered
  <2>3. \A i \in DOMAIN list : Before(FramesIn(list[i], t), more[t].frames)
    BY <1>3, <2>2 DEF Good, Ordered, Before
  <2>4. Increasing(more[t].frames)
    <3> SUFFICES ASSUME NEW k \in DOMAIN more[t].frames, NEW l \in DOMAIN more[t].frames, k < l
                 PROVE  more[t].frames[k].seq < more[t].frames[l].seq
      BY DEF Increasing
    <3>1. Increasing(held[t].frames)
      BY DEF Good, Ordered
    <3>2. k \in DOMAIN held[t].frames /\ more[t].frames[k] = held[t].frames[k]
      <4>1. more[t].frames \in Seq(Frame)
        <5>1. CASE f.track = t
          <6>1. more[t].frames = Append(held[t].frames, f)
            BY <1>2, <5>1
          <6> QED
            BY <1>1, <2>1, <6>1
        <5>2. CASE f.track # t
          BY <1>2, <2>1, <5>2
        <5> QED
          BY <5>1, <5>2
      <4>2. k \in Nat /\ l \in Nat
        BY <4>1
      <4>3. DOMAIN held[t].frames = 1..Len(held[t].frames) /\ Len(held[t].frames) \in Nat
        BY <2>1
      <4>4. CASE \A m \in DOMAIN held[t].frames : m < k
        <5>1. l \notin DOMAIN held[t].frames
          BY <4>2, <4>4
        <5>2. Len(more[t].frames) <= Len(held[t].frames) + 1
          <6>1. CASE f.track = t
            BY <1>1, <1>2, <2>1, <6>1
          <6>2. CASE f.track # t
            BY <1>2, <2>1, <6>2
          <6> QED
            BY <6>1, <6>2
        <5>3. l <= Len(held[t].frames) + 1 /\ k >= 1
          BY <4>1, <5>2
        <5>4. k <= Len(held[t].frames)
          BY <4>2, <4>3, <5>3
        <5> QED
          BY <4>2, <4>3, <4>4, <5>3, <5>4
      <4> QED
        BY <1>3, <4>4
    <3>3. CASE l \in DOMAIN held[t].frames /\ more[t].frames[l] = held[t].frames[l]
      BY <3>1, <3>2, <3>3 DEF Increasing
    <3>4. CASE f.track = t /\ more[t].frames[l] = f
      BY <2>2, <3>2, <3>4 DEF Below
    <3> QED
      BY <1>3, <3>3, <3>4
  <2>5. ASSUME NEW q \in DOMAIN rest, rest[q].track = t
        PROVE  Below(more[t].frames, rest[q].seq)
    <3>1. q + 1 \in DOMAIN queue /\ queue[q + 1] = rest[q] /\ 1 < q + 1
      BY <1>1
    <3>2. Below(held[t].frames, rest[q].seq)
      BY <2>5, <3>1 DEF Good, Ordered
    <3>3. f.track = t => f.seq < rest[q].seq
      BY <1>1, <2>5, <3>1 DEF Good, Ordered
    <3> QED
      BY <1>3, <3>2, <3>3 DEF Below
  <2> QED
    BY <2>3, <2>4, <2>5
<1>5. Ordered(list, more, rest)
  <2> SUFFICES ASSUME NEW t \in Track
               PROVE  \A q \in DOMAIN rest : rest[q].track = t =>
                        /\ \A i \in DOMAIN list : Below(FramesIn(list[i], t), rest[q].seq)
                        /\ \A p \in DOMAIN rest :
                             (p < q /\ rest[p].track = t) => rest[p].seq < rest[q].seq
    BY <1>4 DEF Good, Ordered
  <2>1. \A p, q \in DOMAIN rest : p < q => p + 1 < q + 1
    BY <1>1
  <2> QED
    BY <1>1, <2>1 DEF Good, Ordered
<1>6. BelowClock(list, more, rest, ticks)
  <2>1. ASSUME NEW t \in Track
        PROVE  Below(more[Remap[t]].frames, ticks[t].count + 1)
    <3>1. Remap[t] \in Track
      BY RemapAssumption
    <3>2. Below(held[Remap[t]].frames, ticks[t].count + 1)
      BY DEF Good, BelowClock
    <3>3. f.track = Remap[t] => f.seq < ticks[t].count + 1
      BY <1>1 DEF Good, BelowClock
    <3> QED
      BY <1>3, <3>1, <3>2, <3>3 DEF Below
  <2> QED
    BY <1>1, <2>1 DEF Good, BelowClock
<1> QED
  BY <1>5, <1>6 DEF Good, f, more, rest

\* A sample that is minted joins the end of the queue.
LEMMA GoodMint ==
  ASSUME NEW list \in Seq(Event), NEW held \in [Track -> TrackBuf],
         NEW queue \in Seq(Frame),
         NEW ticks \in [Track -> Progress], Good(list, held, queue, ticks),
         NEW s \in Step, s.op = "sample", NEW data \in Nat \X Int
  PROVE  Good(list, held, Append(queue, MintFrame(ticks, s, data)), Advance(ticks, s))
<1> DEFINE f    == MintFrame(ticks, s, data)
           more == Append(queue, f)
           on   == Advance(ticks, s)
<1>1. f \in Frame /\ f.track = Remap[s.track] /\ f.seq = ticks[s.track].count + 1
  BY MintFrameType
<1>2. /\ s.track \in Track
      /\ on[s.track].count = ticks[s.track].count + 1
      /\ \A t \in Track : ticks[t].count \in Nat /\ (t # s.track => on[t] = ticks[t])
  BY StepFields DEF Advance, Progress
<1>3. /\ Len(queue) \in Nat /\ DOMAIN queue = 1..Len(queue)
      /\ DOMAIN more = 1..(Len(queue) + 1)
      /\ more[Len(queue) + 1] = f
      /\ \A i \in 1..Len(queue) : more[i] = queue[i]
  BY <1>1
<1> HIDE DEF f, more, on
<1>4. Ordered(list, held, more)
  <2> SUFFICES ASSUME NEW t \in Track, NEW q \in DOMAIN more, more[q].track = t
               PROVE  /\ \A i \in DOMAIN list : Below(FramesIn(list[i], t), more[q].seq)
                      /\ Below(held[t].frames, more[q].seq)
                      /\ \A p \in DOMAIN more :
                           (p < q /\ more[p].track = t) => more[p].seq < more[q].seq
    BY DEF Good, Ordered
  <2>1. CASE q \in 1..Len(queue)
    <3>1. \A p \in DOMAIN more : p < q => p \in 1..Len(queue)
      BY <1>3, <2>1
    <3> QED
      BY <1>3, <2>1, <3>1 DEF Good, Ordered
  <2>2. CASE q = Len(queue) + 1
    <3>1. more[q] = f /\ t = Remap[s.track]
      BY <1>1, <1>3, <2>2
    <3>2. \A p \in DOMAIN more : p < q => p \in 1..Len(queue)
      BY <1>3, <2>2
    <3> QED
      BY <1>1, <1>2, <1>3, <3>1, <3>2 DEF Good, BelowClock
  <2> QED
    BY <1>3, <2>1, <2>2
<1>5. BelowClock(list, held, more, on)
  <2> SUFFICES ASSUME NEW t \in Track
               PROVE  /\ \A i \in DOMAIN list : Below(FramesIn(list[i], Remap[t]), on[t].count + 1)
                      /\ Below(held[Remap[t]].frames, on[t].count + 1)
                      /\ \A q \in DOMAIN more :
                           more[q].track = Remap[t] => more[q].seq < on[t].count + 1
    BY DEF BelowClock
  <2>1. CASE t # s.track
    <3>1. f.track # Remap[t]
      BY <1>1, <1>2, <2>1, RemapAssumption
    <3>2. on[t] = ticks[t]
      BY <1>2, <2>1
    <3>3. \A q \in DOMAIN more : more[q].track = Remap[t] =>
            q \in DOMAIN queue /\ more[q] = queue[q]
      BY <1>3, <3>1
    <3> QED
      BY <3>2, <3>3 DEF Good, BelowClock
  <2>2. CASE t = s.track
    <3>1. ASSUME NEW g \in Seq(Frame), NEW n \in Nat, Below(g, n)
          PROVE  Below(g, n + 1)
      <4>1. \A i \in DOMAIN g : g[i].seq \in Nat
        BY FrameSeq
      <4> QED
        BY <3>1, <4>1 DEF Below
    <3>2. Remap[t] \in Track /\ ticks[t].count + 1 \in Nat
      BY <1>2, RemapAssumption
    <3>3. on[t].count + 1 = (ticks[t].count + 1) + 1
      BY <1>2, <2>2
    <3>4. \A i \in DOMAIN list : Below(FramesIn(list[i], Remap[t]), on[t].count + 1)
      <4> TAKE i \in DOMAIN list
      <4>1. FramesIn(list[i], Remap[t]) \in Seq(Frame)
        BY <3>2, FramesInType
      <4>2. Below(FramesIn(list[i], Remap[t]), ticks[t].count + 1)
        BY DEF Good, BelowClock
      <4> QED
        BY <3>1, <3>2, <3>3, <4>1, <4>2
    <3>5. Below(held[Remap[t]].frames, on[t].count + 1)
      <4>1. held[Remap[t]].frames \in Seq(Frame)
        BY <3>2 DEF TrackBuf
      <4>2. Below(held[Remap[t]].frames, ticks[t].count + 1)
        BY DEF Good, BelowClock
      <4> QED
        BY <3>1, <3>2, <3>3, <4>1, <4>2
    <3>6. \A q \in DOMAIN more :
            more[q].track = Remap[t] => more[q].seq < on[t].count + 1
      <4>1. \A q \in 1..Len(queue) : queue[q].seq \in Nat
        BY <1>3, FrameSeq
      <4>2. \A q \in 1..Len(queue) :
              queue[q].track = Remap[t] => queue[q].seq < on[t].count + 1
        <5>1. /\ DOMAIN queue = 1..Len(queue) /\ ticks[t].count + 1 \in Nat
              /\ ticks[t].count + 1 < on[t].count + 1
          BY <1>3, <3>2, <3>3
        <5>2. \A q \in 1..Len(queue) :
                queue[q].track = Remap[t] => queue[q].seq < ticks[t].count + 1
          BY <5>1 DEF Good, BelowClock
        <5> QED
          BY <3>3, <4>1, <5>1, <5>2
      <4>3. f.seq < on[t].count + 1
        BY <1>1, <1>2, <2>2
      <4> QED
        BY <1>3, <4>2, <4>3
    <3> QED
      BY <3>4, <3>5, <3>6
  <2> QED
    BY <2>1, <2>2
<1> QED
  BY <1>4, <1>5 DEF Good, f, more, on

\* The GoP of the buffers, if any, joins the events and the buffers empty.
LEMMA GoodCut ==
  ASSUME NEW list \in Seq(Event), bufs \in [Track -> TrackBuf], segNo \in Nat,
         NEW queue \in Seq(Frame), NEW ticks \in [Track -> Progress],
         Good(list, bufs, queue, ticks)
  PROVE  Good(WithGop(list), NoBufs, queue, ticks)
<1> DEFINE e == [type |-> "segment", gop |-> GopOf(bufs, segNo + 1)]
<1>1. CASE Present(bufs) = {}
  <2>1. WithGop(list) = list
    BY <1>1 DEF WithGop
  <2> QED
    BY <2>1, GoodNoHeld
<1>2. CASE Present(bufs) # {}
  <2>1. /\ GopOf(bufs, segNo + 1) \in Gop
        /\ \A t \in Track : GopOf(bufs, segNo + 1).tracks[t].frames = bufs[t].frames
    BY GopOfType
  <2>2. e \in Event
    BY <2>1 DEF Event
  <2>3. \A t \in Track : FramesIn(e, t) = bufs[t].frames
    BY <2>1 DEF FramesIn
  <2>4. WithGop(list) = Append(list, e)
    BY <1>2 DEF WithGop
  <2> QED
    BY <2>2, <2>3, <2>4, GoodEmit
<1> QED
  BY <1>1, <1>2

\* WithGop of the events of the call is WithGop of all that was emitted.
LEMMA WithGopConcat ==
  ASSUME NEW a \in Seq(Event), NEW b \in Seq(Event),
         bufs \in [Track -> TrackBuf], segNo \in Nat
  PROVE  a \o WithGop(b) = WithGop(a \o b)
<1>1. [type |-> "segment", gop |-> GopOf(bufs, segNo + 1)] \in Event
  BY GopOfType DEF Event
<1>2. \A e \in Event : a \o Append(b, e) = Append(a \o b, e)
  OBVIOUS
<1> QED
  BY <1>1, <1>2 DEF WithGop

LEMMA OrderInit == Init => OrderInv
<1> SUFFICES ASSUME Init PROVE OrderInv
  OBVIOUS
<1>1. Emitted = <<>> /\ frames = <<>> /\ \A t \in Track : bufs[t].frames = <<>>
  BY DEF Init, Emitted, NoBufs, EmptyBuf
<1>2. Ordered(Emitted, bufs, frames)
  BY <1>1 DEF Ordered, Increasing
<1>3. BelowClock(Emitted, bufs, frames, clock)
  BY <1>1, RemapAssumption DEF BelowClock, Below
<1> QED
  BY <1>2, <1>3, TypeInit DEF OrderInv, Good, Init

LEMMA OrderFail ==
  ASSUME OrderInv, Fail
  PROVE  OrderInv'
<1>1. delivered \in Seq(Event) /\ events \in Seq(Event)
  BY DEF OrderInv, TypeOK
<1>2. Good(delivered, bufs, frames, clock)
  BY <1>1, GoodPrefix DEF OrderInv, Emitted
<1>3. Good(delivered, bufs, <<>>, clock)
  BY <1>2, GoodNoQueue
<1>4. Emitted' = delivered
  BY <1>1 DEF Fail, Emitted
<1>5. frames' = <<>> /\ events' = <<>> /\ bufs' = bufs /\ clock' = clock
  BY DEF Fail, gop
<1>6. TypeOK'
  BY TypeFail DEF OrderInv
<1> QED
  BY <1>3, <1>4, <1>5, <1>6 DEF OrderInv

LEMMA OrderRecord ==
  ASSUME OrderInv, RecordNext
  PROVE  OrderInv'
<1> DEFINE f   == Head(frames)
           cut == Boundary(catalog, bufs, seen, f)
           held == IF cut THEN NoBufs ELSE bufs
           list == IF cut THEN WithGop(Emitted) ELSE Emitted
<1>1. /\ delivered \in Seq(Event) /\ events \in Seq(Event) /\ Emitted \in Seq(Event)
      /\ bufs \in [Track -> TrackBuf] /\ segNo \in Nat
      /\ frames \in Seq(Frame) /\ clock \in [Track -> Progress]
  BY DEF OrderInv, TypeOK, Emitted
<1>2. Emitted' = list
  <2>1. delivered' = delivered /\ events' = IF cut THEN WithGop(events) ELSE events
    BY DEF RecordNext, history
  <2> QED
    BY <1>1, <2>1, WithGopConcat DEF Emitted
<1>3. bufs' = RecordFrame(held, Head(frames)) /\ frames' = Tail(frames) /\ clock' = clock
  BY DEF RecordNext
<1>4. list \in Seq(Event) /\ held \in [Track -> TrackBuf]
  BY <1>1, GopEventType, NoBufsType
<1>5. Good(list, held, frames, clock)
  <2>1. Good(Emitted, bufs, frames, clock)
    BY DEF OrderInv
  <2>2. Good(WithGop(Emitted), NoBufs, frames, clock)
    BY <1>1, <2>1, GoodCut
  <2> QED
    BY <2>1, <2>2
<1>6. frames # <<>> /\ pc' = "record"
  BY DEF RecordNext
<1> HIDE DEF held, list
<1>7. Good(list, RecordFrame(held, Head(frames)), Tail(frames), clock)
  BY <1>1, <1>4, <1>5, <1>6, GoodRecord
<1>8. TypeOK'
  BY TypeRecord DEF OrderInv
<1> QED
  BY <1>2, <1>3, <1>6, <1>7, <1>8 DEF OrderInv

LEMMA OrderFlush ==
  ASSUME OrderInv, Flush
  PROVE  OrderInv'
<1>1. /\ delivered \in Seq(Event) /\ bufs \in [Track -> TrackBuf] /\ segNo \in Nat
      /\ frames \in Seq(Frame) /\ clock \in [Track -> Progress]
  BY DEF OrderInv, TypeOK
<1>2. pc = "idle" /\ events = <<>> /\ events' = <<>> /\ frames' = frames /\ clock' = clock
  BY DEF OrderInv, Flush, minting
<1>3. Emitted = delivered
  BY <1>1, <1>2 DEF Emitted
<1>4. Good(delivered, bufs, frames, clock)
  BY <1>3 DEF OrderInv
<1>5. TypeOK'
  BY TypeFlush DEF OrderInv
<1>6. CASE streaming
  <2>1. delivered' = WithGop(delivered) /\ bufs' = NoBufs
    BY <1>6 DEF Flush
  <2>2. Emitted' = WithGop(delivered)
    BY <1>1, <1>2, <2>1, GopEventType DEF Emitted
  <2>3. Good(WithGop(delivered), NoBufs, frames, clock)
    BY <1>1, <1>4, GoodCut
  <2> QED
    BY <1>2, <1>5, <2>1, <2>2, <2>3 DEF OrderInv
<1>7. CASE ~ streaming
  <2>1. delivered' = delivered /\ bufs' = bufs
    BY <1>7 DEF Flush
  <2>2. Emitted' = delivered
    BY <1>1, <1>2, <2>1 DEF Emitted
  <2> QED
    BY <1>2, <1>4, <1>5, <2>1, <2>2 DEF OrderInv
<1> QED
  BY <1>6, <1>7

LEMMA OrderStep == OrderInv /\ [Next]_vars => OrderInv'
<1> SUFFICES ASSUME OrderInv, [Next]_vars PROVE OrderInv'
  OBVIOUS
<1>t. TypeOK'
  BY TypeStep DEF OrderInv
<1>s. /\ delivered \in Seq(Event) /\ events \in Seq(Event) /\ Emitted \in Seq(Event)
      /\ bufs \in [Track -> TrackBuf] /\ <<next, cursor.pos>> \in Nat \X Int
      /\ frames \in Seq(Frame) /\ clock \in [Track -> Progress]
  BY StreamType DEF OrderInv, TypeOK, Emitted
<1>g. Good(Emitted, bufs, frames, clock)
  BY DEF OrderInv
<1>q. ASSUME UNCHANGED <<delivered, events, bufs, frames, clock>>,
             pc' = "idle" => pc = "idle"
      PROVE  OrderInv'
  BY <1>t, <1>q DEF OrderInv, Emitted
<1>1. CASE \E n \in 0..(BoxParts * Len(stream)) : Feed(n)
  BY <1>1, <1>q DEF Feed, minting, gop, history
<1>2. CASE FeedReturn
  <2>1. /\ delivered' = delivered \o events /\ events' = <<>>
        /\ bufs' = bufs /\ frames' = frames /\ clock' = clock
    BY <1>2 DEF FeedReturn, minting, gop
  <2>2. Emitted' = Emitted
    BY <1>s, <2>1 DEF Emitted
  <2> QED
    BY <1>t, <1>g, <2>1, <2>2 DEF OrderInv
<1>3. CASE SkipBox
  BY <1>3, <1>q DEF SkipBox, minting, gop, history
<1>4. CASE BadBox
  BY <1>4, OrderFail DEF BadBox
<1>5. CASE ReadMoov
  <2> DEFINE e == [type |-> "init", catalog |-> catalog']
  <2>1. /\ events' = Append(events, e) /\ delivered' = delivered
        /\ bufs' = bufs /\ frames' = frames /\ clock' = clock /\ pc' = "scan"
    BY <1>5 DEF ReadMoov, BoxReady, minting, gop, history
  <2>2. Emitted' = Append(Emitted, e)
    BY <1>s, <2>1 DEF Emitted
  <2>3. \A t \in Track : FramesIn(e, t) = <<>>
    BY DEF FramesIn
  <2>4. Good(Append(Emitted, e), bufs, frames, clock)
    BY <1>s, <1>g, <2>3, GoodEmitInit
  <2> QED
    BY <1>t, <2>1, <2>2, <2>4 DEF OrderInv
<1>6. CASE HoldMoof
  BY <1>6, <1>q DEF HoldMoof, minting, gop, history
<1>7. CASE OpenMdat
  <2>1. /\ frames' = <<>> /\ Emitted' = Emitted /\ bufs' = bufs /\ clock' = clock
        /\ pc' = "mint"
    BY <1>7 DEF OpenMdat, gop, history, Emitted
  <2> QED
    BY <1>t, <1>g, <2>1, GoodNoQueue DEF OrderInv
<1>8. CASE ReadTfdt
  <2>1. /\ frames' = frames /\ Emitted' = Emitted /\ bufs' = bufs
        /\ clock' = SetDecodeTime(clock, ThisStep) /\ pc' = "mint"
    BY <1>8 DEF ReadTfdt, MoreSteps, gop, history, Emitted
  <2>2. ThisStep \in Step /\ ThisStep.op = "tfdt"
    BY <1>8, ThisStepType DEF ReadTfdt, OrderInv
  <2> QED
    BY <1>t, <1>s, <1>g, <2>1, <2>2, GoodTfdt DEF OrderInv
<1>9. CASE MintSample
  <2>1. /\ frames' = Append(frames, MintFrame(clock, ThisStep, <<next, cursor.pos>>))
        /\ Emitted' = Emitted /\ bufs' = bufs
        /\ clock' = Advance(clock, ThisStep) /\ pc' = "mint"
    BY <1>9 DEF MintSample, MoreSteps, gop, history, Emitted
  <2>2. ThisStep \in Step /\ ThisStep.op = "sample"
    BY <1>9, ThisStepType DEF MintSample, OrderInv
  <2>3. Good(Emitted, bufs, Append(frames, MintFrame(clock, ThisStep, <<next, cursor.pos>>)),
             Advance(clock, ThisStep))
    BY <1>s, <1>g, <2>2, GoodMint
  <2> QED
    BY <1>t, <2>1, <2>3 DEF OrderInv
<1>10. CASE DataOutside
  BY <1>10, OrderFail DEF DataOutside
<1>11. CASE AllMinted
  BY <1>11, <1>q DEF AllMinted, minting, gop, history
<1>12. CASE RecordNext
  BY <1>12, OrderRecord
<1>13. CASE DrainMdat
  BY <1>13, <1>q DEF DrainMdat, minting, gop, history
<1>14. CASE Flush
  BY <1>14, OrderFlush
<1>15. CASE StartTrun
  BY <1>15, <1>q DEF StartTrun, gop, history
<1>16. CASE UNCHANGED vars
  BY <1>16, <1>q DEF vars, minting, gop, history
<1> QED
  BY <1>1, <1>2, <1>3, <1>4, <1>5, <1>6, <1>7, <1>8, <1>9, <1>10, <1>11,
     <1>12, <1>13, <1>14, <1>15, <1>16 DEF Next, Run

\* Whatever the chunks, the errors and the flushes, the fragments of a track
\* are emitted with increasing sequence numbers, none twice (push.rs, feed
\* and flush; canonical-form.md, Fragments).
THEOREM EmittedInOrder == Spec => []InOrder
<1>1. OrderInv => InOrder
  BY DEF OrderInv, Good, InOrder
<1> QED
  BY <1>1, OrderInit, OrderStep, PTL DEF Spec

-----------------------------------------------------------------------------
(* What a step does to the GoPs, seen from outside a call.                 *)

\* Before the moov there is nothing, frames are queued only while a pair is
\* processed, and no event is left between calls.
Started ==
  /\ ~ streaming => Emitted = <<>> /\ bufs = NoBufs /\ ~ seen /\ segNo = 0 /\ pending = 0
  /\ pc \in {"mint", "record"} => streaming
  /\ pc \in {"idle", "scan"} => frames = <<>>
  /\ pc = "idle" => events = <<>>

Settled == TypeOK /\ Started

CutGop == [type |-> "segment", gop |-> GopOf(bufs, segNo + 1)]

\* Nothing is cut or recorded; a call that fails takes its events with it.
StaysPut ==
  /\ UNCHANGED <<bufs, segNo, seen, flushes, catalog, streaming>>
  /\ \/ Emitted' = Emitted /\ failed' = failed
     \/ /\ failed'
        /\ \A i \in DOMAIN Emitted' : i \in DOMAIN Emitted /\ Emitted'[i] = Emitted[i]

Opens ==
  /\ ~ streaming /\ streaming'
  /\ Emitted' = Append(Emitted, [type |-> "init", catalog |-> catalog'])
  /\ UNCHANGED <<bufs, segNo, seen, flushes, failed>>

\* The frame f is recorded, in a new GoP or in the one being built.
Takes(f) ==
  /\ f \in Frame /\ streaming
  /\ seen' = (seen \/ IsVideoKeyframe(catalog, f))
  /\ UNCHANGED <<flushes, failed, catalog, streaming>>

Cuts(f) ==
  /\ Boundary(catalog, bufs, seen, f)
  /\ Emitted' = WithGop(Emitted)
  /\ bufs' = RecordFrame(NoBufs, f)
  /\ segNo' = segNo + 1

Adds(f) ==
  /\ ~ Boundary(catalog, bufs, seen, f)
  /\ Emitted' = Emitted
  /\ bufs' = RecordFrame(bufs, f)
  /\ segNo' = segNo

Flushes ==
  /\ flushes' > 0
  /\ UNCHANGED <<catalog, streaming, seen, failed>>
  /\ \/ streaming /\ Emitted' = WithGop(Emitted) /\ bufs' = NoBufs
     \/ Emitted' = Emitted /\ bufs' = bufs /\ segNo' = segNo

LEMMA Lists ==
  ASSUME Settled
  PROVE  /\ delivered \in Seq(Event) /\ events \in Seq(Event) /\ Emitted \in Seq(Event)
         /\ bufs \in [Track -> TrackBuf] /\ segNo \in Nat /\ catalog \in Catalog
         /\ frames \in Seq(Frame) /\ clock \in [Track -> Progress]
         /\ streaming \in BOOLEAN /\ seen \in BOOLEAN /\ flushes \in Nat
         /\ pc \in {"idle", "scan", "mint", "record"}
<1>1. flushes \in Nat
  BY StreamAssumption DEF Settled, TypeOK
<1> QED
  BY <1>1 DEF Settled, TypeOK, Emitted

LEMMA FailMoves ==
  ASSUME Settled, Fail
  PROVE  StaysPut /\ failed' /\ pc' = "idle" /\ frames' = <<>> /\ events' = <<>>
<1>1. Emitted' = delivered
  BY Lists DEF Fail, Emitted
<1>2. \A i \in DOMAIN delivered : i \in DOMAIN Emitted /\ Emitted[i] = delivered[i]
  BY Lists, ConcatProperties DEF Emitted
<1> QED
  BY <1>1, <1>2 DEF Fail, StaysPut, gop, reader

LEMMA RecordMoves ==
  ASSUME Settled, RecordNext
  PROVE  LET f == Head(frames) IN Takes(f) /\ (Cuts(f) \/ Adds(f))
<1> DEFINE f   == Head(frames)
           cut == Boundary(catalog, bufs, seen, f)
<1>1. f \in Frame /\ streaming
  BY Lists DEF RecordNext, Settled, Started
<1>2. Emitted' = IF cut THEN WithGop(Emitted) ELSE Emitted
  <2>1. delivered' = delivered /\ events' = IF cut THEN WithGop(events) ELSE events
    BY DEF RecordNext, history
  <2> QED
    BY Lists, <2>1, WithGopConcat DEF Emitted
<1>3. Takes(f)
  BY <1>1 DEF RecordNext, Takes, reader, history
<1>4. /\ bufs' = RecordFrame(IF cut THEN NoBufs ELSE bufs, f)
      /\ segNo' = IF cut THEN segNo + 1 ELSE segNo
  BY DEF RecordNext
<1>5. cut => Cuts(f)
  BY <1>2, <1>4 DEF Cuts
<1>6. ~ cut => Adds(f)
  BY <1>2, <1>4 DEF Adds
<1> QED
  BY <1>3, <1>5, <1>6

\* Every step does one of five things to the GoPs.
LEMMA Moves ==
  ASSUME Settled, [Next]_vars
  PROVE  \/ StaysPut
         \/ Opens
         \/ \E f : Takes(f) /\ (Cuts(f) \/ Adds(f))
         \/ Flushes
<1>0. /\ delivered \in Seq(Event) /\ events \in Seq(Event) /\ Emitted \in Seq(Event)
      /\ bufs \in [Track -> TrackBuf] /\ segNo \in Nat /\ flushes \in Nat
  BY Lists
<1>q. ASSUME UNCHANGED <<delivered, events, bufs, segNo, seen, flushes, catalog, streaming, failed>>
      PROVE  StaysPut
  BY <1>q DEF StaysPut, Emitted
<1>1. CASE \E n \in 0..(BoxParts * Len(stream)) : Feed(n)
  BY <1>1, <1>q DEF Feed, reader, gop, history
<1>2. CASE FeedReturn
  <2>1. /\ delivered' = delivered \o events /\ events' = <<>>
        /\ UNCHANGED <<bufs, segNo, seen, flushes, catalog, streaming, failed>>
    BY <1>2 DEF FeedReturn, gop, reader
  <2>2. Emitted' = Emitted
    BY <1>0, <2>1 DEF Emitted
  <2> QED
    BY <2>1, <2>2 DEF StaysPut
<1>3. CASE SkipBox \/ HoldMoof \/ OpenMdat
  BY <1>3, <1>q DEF SkipBox, HoldMoof, OpenMdat, reader, gop, history
<1>4. CASE BadBox \/ DataOutside
  BY <1>4, FailMoves DEF BadBox, DataOutside
<1>5. CASE ReadMoov
  <2> DEFINE e == [type |-> "init", catalog |-> catalog']
  <2>1. /\ events' = Append(events, e) /\ delivered' = delivered
        /\ ~ streaming /\ streaming' /\ UNCHANGED <<bufs, segNo, seen, flushes, failed>>
    BY <1>5 DEF ReadMoov, gop, history
  <2>2. Emitted' = Append(Emitted, e)
    BY <1>0, <2>1 DEF Emitted
  <2> QED
    BY <2>1, <2>2 DEF Opens
<1>6. CASE ReadTfdt \/ StartTrun \/ MintSample
  BY <1>6, <1>q DEF ReadTfdt, StartTrun, MintSample, reader, gop, history
<1>7. CASE AllMinted \/ DrainMdat
  BY <1>7, <1>q DEF AllMinted, DrainMdat, reader, gop, history
<1>8. CASE RecordNext
  BY <1>8, RecordMoves
<1>9. CASE Flush
  <2>1. /\ flushes' > 0 /\ UNCHANGED <<catalog, streaming, seen, failed>> /\ events' = events
        /\ events = <<>>
    BY <1>0, <1>9 DEF Flush, reader, Settled, Started
  <2>2. Emitted = delivered
    BY <1>0, <2>1 DEF Emitted
  <2>3. CASE streaming
    <3>1. delivered' = WithGop(delivered) /\ bufs' = NoBufs
      BY <1>9, <2>3 DEF Flush
    <3>2. Emitted' = WithGop(delivered)
      BY <1>0, <2>1, <3>1, GopEventType DEF Emitted
    <3> QED
      BY <2>1, <2>2, <2>3, <3>1, <3>2 DEF Flushes
  <2>4. CASE ~ streaming
    <3>1. delivered' = delivered /\ bufs' = bufs /\ segNo' = segNo
      BY <1>9, <2>4 DEF Flush
    <3> QED
      BY <2>1, <3>1 DEF Flushes, Emitted
  <2> QED
    BY <2>3, <2>4
<1>10. CASE UNCHANGED vars
  BY <1>10, <1>q DEF vars, reader, gop, history
<1> QED
  BY <1>1, <1>2, <1>3, <1>4, <1>5, <1>6, <1>7, <1>8, <1>9, <1>10 DEF Next, Run

LEMMA StartedStep ==
  ASSUME Settled, [Next]_vars
  PROVE  Started'
<1>0. Started /\ TypeOK
  BY DEF Settled
<1>1. ~ streaming' => Emitted' = <<>> /\ bufs' = NoBufs /\ ~ seen' /\ segNo' = 0
  <2> SUFFICES ASSUME ~ streaming' PROVE Emitted' = <<>> /\ bufs' = NoBufs /\ ~ seen' /\ segNo' = 0
    OBVIOUS
  <2>1. CASE StaysPut
    <3>1. ~ streaming /\ UNCHANGED <<bufs, segNo, seen>>
      BY <2>1 DEF StaysPut
    <3>2. Emitted' \in Seq(Event)
      BY TypeStep DEF Settled, TypeOK, Emitted
    <3>3. Emitted = <<>>
      BY <1>0, <3>1 DEF Started
    <3>4. Emitted' = <<>>
      <4>1. DOMAIN Emitted' = {} \/ Emitted' = Emitted
        <5>1. DOMAIN Emitted = {}
          BY <3>3
        <5> HIDE DEF Emitted
        <5> QED
          BY <2>1, <5>1 DEF StaysPut
      <4> QED
        BY <3>2, <3>3, <4>1, EmptySeq
    <3> QED
      BY <1>0, <3>1, <3>4 DEF Started
  <2>2. CASE Opens
    BY <2>2 DEF Opens
  <2>3. CASE \E f : Takes(f) /\ (Cuts(f) \/ Adds(f))
    BY <2>3 DEF Takes
  <2>4. CASE Flushes
    BY <1>0, <2>4 DEF Flushes, Started
  <2> QED
    BY <2>1, <2>2, <2>3, <2>4, Moves
<1>2. ~ streaming' => pending' = 0
  <2>1. streaming => streaming'
    BY Moves DEF StaysPut, Opens, Takes, Flushes
  <2>2. CASE HoldMoof
    BY <2>1, <2>2 DEF HoldMoof
  <2>3. CASE ~ HoldMoof
    <3>1. pending' = pending \/ pending' = 0
      BY <2>3 DEF Next, Run, Feed, FeedReturn, SkipBox, BadBox, ReadMoov, OpenMdat, ReadTfdt,
         StartTrun, MintSample, DataOutside, AllMinted, RecordNext, DrainMdat, Flush, Fail, reader, vars
    <3> QED
      BY <1>0, <2>1, <3>1 DEF Started
  <2> QED
    BY <2>2, <2>3
<1>3. pc' \in {"mint", "record"} => streaming'
  <2>1. streaming => streaming'
    BY Moves DEF StaysPut, Opens, Takes, Flushes
  <2>2. pc' \in {"mint", "record"} => pc \in {"mint", "record"} \/ OpenMdat
    BY DEF Next, Run, Feed, FeedReturn, SkipBox, BadBox, ReadMoov, HoldMoof, OpenMdat, ReadTfdt,
       StartTrun, MintSample, DataOutside, AllMinted, RecordNext, DrainMdat, Flush, Fail, vars,
       BoxReady
  <2> QED
    BY <1>0, <2>1, <2>2 DEF Started, OpenMdat
<1>4. pc' \in {"idle", "scan"} => frames' = <<>>
  <2>1. CASE Fail
    BY <2>1 DEF Fail
  <2>2. CASE DrainMdat
    BY <2>2 DEF DrainMdat, minting
  <2>3. CASE (\E n \in 0..(BoxParts * Len(stream)) : Feed(n)) \/ FeedReturn \/ SkipBox \/ ReadMoov
               \/ HoldMoof \/ Flush \/ UNCHANGED vars
    BY <1>0, <2>3 DEF Started, Feed, FeedReturn, SkipBox, ReadMoov, HoldMoof, Flush, BoxReady,
       minting, vars
  <2>4. CASE OpenMdat \/ ReadTfdt \/ StartTrun \/ MintSample \/ AllMinted \/ RecordNext
    BY <2>4 DEF OpenMdat, ReadTfdt, StartTrun, MintSample, AllMinted, RecordNext, MoreSteps
  <2> QED
    BY <2>1, <2>2, <2>3, <2>4 DEF Next, Run, BadBox, DataOutside
<1>5. pc' = "idle" => events' = <<>>
  BY <1>0 DEF Started, Next, Run, Feed, FeedReturn, SkipBox, BadBox, ReadMoov, HoldMoof, OpenMdat,
     ReadTfdt, StartTrun, MintSample, DataOutside, AllMinted, RecordNext, DrainMdat, Flush, Fail,
     vars, MoreSteps, BoxReady
<1> QED
  BY <1>1, <1>2, <1>3, <1>4, <1>5 DEF Started

LEMMA SettledInit == Init => Settled
<1> SUFFICES ASSUME Init PROVE Settled
  OBVIOUS
<1>1. Started
  BY DEF Init, Started, Emitted
<1> QED
  BY <1>1, TypeInit DEF Settled

LEMMA SettledStep == Settled /\ [Next]_vars => Settled'
BY TypeStep, StartedStep DEF Settled

-----------------------------------------------------------------------------
(* The lists that grow.                                                    *)

LEMMA Grown ==
  ASSUME NEW S, NEW list \in Seq(S), NEW e \in S
  PROVE  /\ Append(list, e) \in Seq(S) /\ Len(Append(list, e)) = Len(list) + 1
         /\ Len(list) \in Nat /\ DOMAIN list = 1..Len(list)
         /\ \A i \in DOMAIN Append(list, e) :
              \/ i \in DOMAIN list /\ i # Len(list) + 1 /\ Append(list, e)[i] = list[i]
              \/ i = Len(list) + 1 /\ Append(list, e)[i] = e
         /\ \A i \in DOMAIN list : i \in DOMAIN Append(list, e) /\ Append(list, e)[i] = list[i]
         /\ Len(list) + 1 \in DOMAIN Append(list, e)
         /\ Append(list, e)[Len(list) + 1] = e
         /\ Append(list, e) # <<>>
<1>1. /\ Append(list, e) \in Seq(S) /\ Len(Append(list, e)) = Len(list) + 1
      /\ \A i \in 1..Len(list) : Append(list, e)[i] = list[i]
      /\ Append(list, e)[Len(list) + 1] = e /\ Append(list, e) # <<>>
  BY AppendProperties
<1>2. /\ Len(list) \in Nat /\ DOMAIN list = 1..Len(list)
      /\ DOMAIN Append(list, e) = 1..(Len(list) + 1)
  BY <1>1, LenProperties
<1> QED
  BY <1>1, <1>2

\* The GoP of the buffers has the frames they hold, and the tracks with frames.
LEMMA CutGopIs ==
  ASSUME Settled
  PROVE  /\ CutGop \in Event /\ CutGop.type = "segment" /\ CutGop.gop.number = segNo + 1
         /\ \A t \in Track : FramesIn(CutGop, t) = bufs[t].frames
         /\ TracksIn(CutGop) = Present(bufs)
         /\ \A t \in Present(bufs) : CutGop.gop.tracks[t] = SegmentOf(bufs[t], t)
<1>1. /\ GopOf(bufs, segNo + 1) \in Gop /\ GopOf(bufs, segNo + 1).number = segNo + 1
      /\ \A t \in Track : GopOf(bufs, segNo + 1).tracks[t].frames = bufs[t].frames
  <2>1. bufs \in [Track -> TrackBuf] /\ segNo + 1 \in Nat
    BY Lists
  <2> QED
    BY <2>1, GopOfType
<1>2. CutGop \in Event
  BY <1>1 DEF CutGop, Event
<1>3. \A t \in Track : FramesIn(CutGop, t) = bufs[t].frames
  BY <1>1 DEF CutGop, FramesIn
<1>4. TracksIn(CutGop) = Present(bufs)
  BY <1>3 DEF TracksIn, Present
<1>5. \A t \in Present(bufs) : CutGop.gop.tracks[t] = SegmentOf(bufs[t], t)
  BY DEF CutGop, GopOf, Present
<1> QED
  BY <1>1, <1>2, <1>3, <1>4, <1>5 DEF CutGop

LEMMA WithGopIs ==
  ASSUME Settled
  PROVE  /\ WithGop(Emitted) = IF Present(bufs) = {} THEN Emitted ELSE Append(Emitted, CutGop)
         /\ \A i \in DOMAIN WithGop(Emitted) :
              \/ i \in DOMAIN Emitted /\ WithGop(Emitted)[i] = Emitted[i]
              \/ i = Len(Emitted) + 1 /\ WithGop(Emitted)[i] = CutGop /\ Present(bufs) # {}
<1>1. WithGop(Emitted) = IF Present(bufs) = {} THEN Emitted ELSE Append(Emitted, CutGop)
  BY DEF WithGop, CutGop
<1>2. Emitted \in Seq(Event) /\ CutGop \in Event
  BY Lists, CutGopIs
<1> QED
  BY <1>1, <1>2, Grown

LEMMA Recorded ==
  ASSUME NEW held \in [Track -> TrackBuf], NEW f \in Frame
  PROVE  LET b == held[f.track]
             r == RecordFrame(held, f)[f.track]
         IN  /\ r.frames = Append(b.frames, f)
             /\ r.len = b.len + FrameLen(f)
             /\ r.dur = b.dur + f.dur
             /\ r.offs = Append(b.offs, b.len + f.moof + MdatHeader)
             /\ r.syncs = IF f.sync THEN b.syncs \cup {Len(b.frames) + 1} ELSE b.syncs
             /\ b \in TrackBuf /\ b.frames \in Seq(Frame)
             /\ Present(RecordFrame(held, f)) = Present(held) \cup {f.track}
<1>1. f.track \in Track
  BY DEF Frame
<1>2. held[f.track].frames \in Seq(Frame) /\ held[f.track] \in TrackBuf
  BY <1>1 DEF TrackBuf
<1>3. Append(held[f.track].frames, f) # <<>>
  BY <1>2, Grown
<1>4. Present(RecordFrame(held, f)) = Present(held) \cup {f.track}
  BY <1>1, <1>3, RecordFrameType DEF Present
<1> QED
  BY <1>1, <1>2, <1>4 DEF RecordFrame

LEMMA NothingHeld ==
  Present(NoBufs) = {} /\ \A t \in Track : NoBufs[t] = EmptyBuf /\ NoBufs[t].frames = <<>>
BY DEF Present, NoBufs, EmptyBuf

-----------------------------------------------------------------------------
(* The index of a segment.                                                 *)

\* The offsets and sync samples kept for the frames of a buffer.
BufIndexed(b) ==
  LET n == Len(b.frames) IN
  /\ Len(b.offs) = n
  /\ n = 0 => b.len = 0
  /\ n > 0 => /\ b.offs[1] = b.frames[1].moof + MdatHeader
              /\ b.len = b.offs[n] + b.frames[n].size
  /\ \A k \in 2..n : b.offs[k] = b.offs[k - 1] + b.frames[k - 1].size + b.frames[k].moof + MdatHeader
  /\ b.syncs = {k \in 1..n : b.frames[k].sync}

Described(s, t) ==
  LET n == Len(s.frames) IN
  /\ Len(s.offs) = n
  /\ s.offs[1] = PrefixLen[t] + s.frames[1].moof + MdatHeader
  /\ \A k \in 2..n : s.offs[k] = s.offs[k - 1] + s.frames[k - 1].size
                                 + s.frames[k].moof + MdatHeader
  /\ s.len = s.offs[n] + s.frames[n].size
  /\ s.syncs = {k \in 1..n : s.frames[k].sync}
  /\ s.start = s.frames[1].tfdt

IndexInv ==
  /\ Settled
  /\ \A t \in Track : BufIndexed(bufs[t])
  /\ \A i \in DOMAIN Emitted : Emitted[i].type = "segment" =>
       \A t \in TracksIn(Emitted[i]) : Described(Emitted[i].gop.tracks[t], t)

LEMMA EmptyIndexed == BufIndexed(EmptyBuf)
BY DEF BufIndexed, EmptyBuf

LEMMA RecordIndexed ==
  ASSUME NEW held \in [Track -> TrackBuf], NEW f \in Frame,
         \A t \in Track : BufIndexed(held[t])
  PROVE  \A t \in Track : BufIndexed(RecordFrame(held, f)[t])
<1> DEFINE b == held[f.track]
           r == RecordFrame(held, f)[f.track]
           n == Len(b.frames)
           o == b.len + f.moof + MdatHeader
<1>0. /\ f.track \in Track /\ f.size \in Nat /\ f.moof \in Nat /\ f.sync \in BOOLEAN
      /\ b.frames \in Seq(Frame) /\ b.len \in Nat /\ b.offs \in Seq(Nat) /\ b.syncs \in SUBSET Nat
  BY DEF Frame, TrackBuf
<1>1. /\ r.frames = Append(b.frames, f) /\ r.len = b.len + FrameLen(f)
      /\ r.offs = Append(b.offs, o)
      /\ r.syncs = IF f.sync THEN b.syncs \cup {n + 1} ELSE b.syncs
  BY Recorded
<1>2. BufIndexed(b)
  BY <1>0
<1> HIDE DEF b, r
<1>3. o \in Nat /\ FrameLen(f) = f.moof + MdatHeader + f.size /\ MdatHeader = 8
  BY <1>0 DEF MdatHeader, FrameLen
<1>4. /\ n \in Nat /\ Len(b.offs) = n /\ Len(r.frames) = n + 1 /\ Len(r.offs) = n + 1
      /\ \A k \in 1..n : r.frames[k] = b.frames[k] /\ r.offs[k] = b.offs[k]
      /\ r.frames[n + 1] = f /\ r.offs[n + 1] = o
  <2>1. n \in Nat /\ Len(b.offs) = n
    BY <1>0, <1>2, LenProperties DEF BufIndexed
  <2> HIDE DEF n
  <2>2. /\ Len(r.frames) = n + 1 /\ r.frames[n + 1] = f
        /\ \A k \in 1..n : r.frames[k] = b.frames[k]
    BY <1>0, <1>1, AppendProperties DEF n
  <2>3. /\ Len(r.offs) = n + 1 /\ r.offs[n + 1] = o
        /\ \A k \in 1..n : r.offs[k] = b.offs[k]
    <3>1. Len(Append(b.offs, o)) = Len(b.offs) + 1 /\ Append(b.offs, o)[Len(b.offs) + 1] = o
          /\ \A k \in 1..Len(b.offs) : Append(b.offs, o)[k] = b.offs[k]
      <4> HIDE DEF o
      <4> QED
        BY <1>0, <1>3, AppendProperties
    <3> QED
      BY <1>1, <2>1, <3>1
  <2> QED
    BY <2>1, <2>2, <2>3
<1>5. \A k \in 1..n : b.offs[k] \in Nat /\ b.frames[k] \in Frame
  BY <1>0, <1>4
<1>6. \A g \in Frame : g.moof \in Nat /\ g.size \in Nat
  BY DEF Frame
<1>7. r.len = o + f.size
  <2>1. \A l, m, z \in Nat : l + (m + 8 + z) = (l + m + 8) + z
    OBVIOUS
  <2>2. b.len + (f.moof + 8 + f.size) = (b.len + f.moof + 8) + f.size
    BY <1>0, <2>1
  <2> QED
    BY <1>1, <1>3, <2>2
<1>8. r.offs[1] = r.frames[1].moof + MdatHeader
  <2>1. CASE n = 0
    <3>1. b.len = 0
      BY <1>2, <2>1 DEF BufIndexed
    <3>2. r.offs[1] = o /\ r.frames[1] = f
      BY <1>4, <2>1
    <3> QED
      BY <1>0, <1>3, <3>1, <3>2
  <2>2. CASE n # 0
    <3>1. 1 \in 1..n /\ n > 0
      BY <1>4, <2>2
    <3> QED
      BY <1>2, <1>4, <3>1 DEF BufIndexed
  <2> QED
    BY <2>1, <2>2
<1>9. ASSUME NEW k \in 2..(n + 1)
      PROVE  r.offs[k] = r.offs[k - 1] + r.frames[k - 1].size + r.frames[k].moof + MdatHeader
  <2>1. CASE k \in 2..n
    <3>1. k \in 1..n /\ k - 1 \in 1..n
      BY <1>4, <2>1
    <3> QED
      BY <1>2, <1>4, <2>1, <3>1 DEF BufIndexed
  <2>2. CASE k \notin 2..n
    <3>1. k = n + 1 /\ k - 1 = n /\ n > 0 /\ n \in 1..n
      BY <1>4, <2>2
    <3>2. b.len = b.offs[n] + b.frames[n].size
      BY <1>2, <3>1 DEF BufIndexed
    <3>3. r.offs[k] = o /\ r.frames[k] = f /\ r.offs[k - 1] = b.offs[n] /\ r.frames[k - 1] = b.frames[n]
      BY <1>4, <3>1
    <3>4. b.offs[n] \in Nat /\ b.frames[n].size \in Nat
      BY <1>5, <1>6, <3>1
    <3> QED
      BY <1>0, <1>3, <3>2, <3>3, <3>4
  <2> QED
    BY <2>1, <2>2
<1>10. r.syncs = {k \in 1..(n + 1) : r.frames[k].sync}
  <2>1. b.syncs = {k \in 1..n : b.frames[k].sync}
    BY <1>2 DEF BufIndexed
  <2>2. \A k \in 1..(n + 1) : k \in 1..n \/ k = n + 1
    BY <1>4
  <2>3. 1..n \subseteq 1..(n + 1) /\ n + 1 \in 1..(n + 1) /\ n + 1 \notin 1..n
    BY <1>4
  <2> QED
    BY <1>0, <1>1, <1>4, <2>1, <2>2, <2>3
<1>11. BufIndexed(r)
  BY <1>4, <1>7, <1>8, <1>9, <1>10 DEF BufIndexed
<1> QED
  BY <1>11, RecordFrameType DEF r


\* Putting the prefix before the bytes of a buffer moves every offset by it.
LEMMA SegmentDescribed ==
  ASSUME NEW t \in Track, NEW b \in TrackBuf, BufIndexed(b), b.frames # <<>>
  PROVE  Described(SegmentOf(b, t), t)
<1> DEFINE s == SegmentOf(b, t)
           n == Len(b.frames)
<1>0. /\ b.frames \in Seq(Frame) /\ b.len \in Nat /\ b.offs \in Seq(Nat)
      /\ PrefixLen[t] \in Nat
  BY LengthAssumption DEF TrackBuf
<1>1. /\ s.frames = b.frames /\ s.len = PrefixLen[t] + b.len /\ s.syncs = b.syncs
      /\ s.offs = [i \in 1..Len(b.offs) |-> b.offs[i] + PrefixLen[t]]
      /\ s.start = b.frames[1].tfdt
  BY DEF SegmentOf
<1> HIDE DEF s
<1>2. n \in Nat /\ n > 0 /\ Len(b.offs) = n
  <2>1. Len(b.offs) = n
    BY DEF BufIndexed
  <2>2. n \in Nat /\ n # 0
    BY <1>0, EmptySeq
  <2>3. \A k \in Nat : k # 0 => k > 0
    OBVIOUS
  <2> QED
    BY <2>1, <2>2, <2>3
<1>3. Len(s.offs) = n /\ \A k \in 1..n : s.offs[k] = b.offs[k] + PrefixLen[t] /\ b.offs[k] \in Nat
  BY <1>0, <1>1, <1>2
<1>4. \A k \in 1..n : b.frames[k].size \in Nat /\ b.frames[k].moof \in Nat
  <2>1. \A g \in Frame : g.moof \in Nat /\ g.size \in Nat
    BY DEF Frame
  <2> QED
    BY <1>0, <2>1
<1>5. 1 \in 1..n /\ n \in 1..n /\ MdatHeader = 8
  BY <1>2 DEF MdatHeader
<1>6. s.offs[1] = PrefixLen[t] + s.frames[1].moof + MdatHeader
  <2>1. s.offs[1] = (b.frames[1].moof + 8) + PrefixLen[t]
    BY <1>2, <1>3, <1>5 DEF BufIndexed
  <2>2. \A p, m \in Nat : (m + 8) + p = p + m + 8
    OBVIOUS
  <2> QED
    BY <1>0, <1>1, <1>4, <1>5, <2>1, <2>2
<1>7. s.len = s.offs[n] + s.frames[n].size
  <2>1. b.len = b.offs[n] + b.frames[n].size
    BY <1>2 DEF BufIndexed
  <2>2. \A p, o, z \in Nat : p + (o + z) = (o + p) + z
    OBVIOUS
  <2>3. b.offs[n] \in Nat /\ b.frames[n].size \in Nat /\ s.offs[n] = b.offs[n] + PrefixLen[t]
    BY <1>3, <1>4, <1>5
  <2>4. PrefixLen[t] + (b.offs[n] + b.frames[n].size) = (b.offs[n] + PrefixLen[t]) + b.frames[n].size
    BY <1>0, <2>2, <2>3
  <2> QED
    BY <1>1, <2>1, <2>3, <2>4
<1>8. ASSUME NEW k \in 2..n
      PROVE  s.offs[k] = s.offs[k - 1] + s.frames[k - 1].size + s.frames[k].moof + MdatHeader
  <2>1. k \in 1..n /\ k - 1 \in 1..n
    BY <1>2
  <2>2. b.offs[k] = b.offs[k - 1] + b.frames[k - 1].size + b.frames[k].moof + 8
    BY <1>5 DEF BufIndexed
  <2>3. \A p, o, z, m \in Nat : (o + z + m + 8) + p = (o + p) + z + m + 8
    OBVIOUS
  <2>4. /\ s.offs[k] = b.offs[k] + PrefixLen[t] /\ s.offs[k - 1] = b.offs[k - 1] + PrefixLen[t]
        /\ b.offs[k - 1] \in Nat /\ b.frames[k - 1].size \in Nat /\ b.frames[k].moof \in Nat
    BY <1>3, <1>4, <2>1
  <2>5. (b.offs[k - 1] + b.frames[k - 1].size + b.frames[k].moof + 8) + PrefixLen[t]
          = (b.offs[k - 1] + PrefixLen[t]) + b.frames[k - 1].size + b.frames[k].moof + 8
    <3> DEFINE p == PrefixLen[t]
               o == b.offs[k - 1]
               z == b.frames[k - 1].size
               m == b.frames[k].moof
    <3>1. p \in Nat /\ o \in Nat /\ z \in Nat /\ m \in Nat
      BY <1>0, <2>4
    <3> HIDE DEF p, o, z, m
    <3>2. (o + z + m + 8) + p = (o + p) + z + m + 8
      BY <2>3, <3>1
    <3> QED
      BY <3>2 DEF p, o, z, m
  <2> QED
    BY <1>1, <1>5, <2>2, <2>4, <2>5
<1>9. s.syncs = {k \in 1..n : s.frames[k].sync}
  BY <1>1 DEF BufIndexed
<1> QED
  BY <1>1, <1>3, <1>6, <1>7, <1>8, <1>9 DEF Described, s

LEMMA IndexInit == Init => IndexInv
<1> SUFFICES ASSUME Init PROVE IndexInv
  OBVIOUS
<1>1. Emitted = <<>> /\ bufs = NoBufs
  BY DEF Init, Emitted
<1> QED
  BY <1>1, SettledInit, NothingHeld, EmptyIndexed DEF IndexInv

LEMMA IndexStep == IndexInv /\ [Next]_vars => IndexInv'
<1> SUFFICES ASSUME IndexInv, [Next]_vars PROVE IndexInv'
  OBVIOUS
<1> DEFINE Each(list) == \A i \in DOMAIN list : list[i].type = "segment" =>
                           \A t \in TracksIn(list[i]) : Described(list[i].gop.tracks[t], t)
<1>0. Settled /\ Settled' /\ (\A t \in Track : BufIndexed(bufs[t])) /\ Each(Emitted)
  BY SettledStep DEF IndexInv
<1>e. Emitted \in Seq(Event) /\ bufs \in [Track -> TrackBuf] /\ NoBufs \in [Track -> TrackBuf]
  BY <1>0, Lists, NoBufsType
<1>c. Each(WithGop(Emitted))
  <2>1. CutGop.type = "segment" =>
          \A t \in TracksIn(CutGop) : Described(CutGop.gop.tracks[t], t)
    <3>1. ASSUME NEW t \in Present(bufs) PROVE Described(CutGop.gop.tracks[t], t)
      <4>1. t \in Track /\ bufs[t].frames # <<>> /\ bufs[t] \in TrackBuf
        BY <1>e DEF Present
      <4> QED
        BY <1>0, <4>1, CutGopIs, SegmentDescribed
    <3> QED
      BY <1>0, <3>1, CutGopIs
  <2> QED
    BY <1>0, <2>1, WithGopIs
<1>n. \A t \in Track : BufIndexed(NoBufs[t])
  BY NothingHeld, EmptyIndexed
<1>1. CASE StaysPut
  BY <1>0, <1>1 DEF StaysPut, IndexInv
<1>2. CASE Opens
  <2> DEFINE e == [type |-> "init", catalog |-> catalog']
  <2>1. Emitted' = Append(Emitted, e) /\ bufs' = bufs /\ e \in Event
    <3>1. catalog' \in Catalog
      BY <1>0 DEF Settled, TypeOK
    <3> QED
      BY <1>2, <3>1 DEF Opens, Event
  <2>2. e.type # "segment"
    OBVIOUS
  <2> HIDE DEF e
  <2>3. Each(Emitted')
    BY <1>0, <1>e, <2>1, <2>2, Grown
  <2> QED
    BY <1>0, <2>1, <2>3 DEF IndexInv
<1>3. ASSUME NEW f, Takes(f), Cuts(f)
      PROVE  IndexInv'
  <2>1. \A t \in Track : BufIndexed(RecordFrame(NoBufs, f)[t])
    BY <1>3, <1>e, <1>n, RecordIndexed DEF Takes
  <2> QED
    BY <1>0, <1>3, <1>c, <2>1 DEF IndexInv, Cuts
<1>4. ASSUME NEW f, Takes(f), Adds(f)
      PROVE  IndexInv'
  <2>1. \A t \in Track : BufIndexed(RecordFrame(bufs, f)[t])
    BY <1>0, <1>4, <1>e, RecordIndexed DEF Takes
  <2> QED
    BY <1>0, <1>4, <2>1 DEF IndexInv, Adds
<1>5. CASE Flushes
  BY <1>0, <1>5, <1>c, <1>n DEF IndexInv, Flushes
<1> QED
  BY <1>0, <1>1, <1>2, <1>3, <1>4, <1>5, Moves

\* The index of every segment that is cut describes its bytes: the offsets of
\* the payloads, its length and its sync samples, though these are kept in maps
\* of their own (flush_track_bufs, push.rs).
THEOREM IndexesDescribe == Spec => []IndexDescribesBytes
<1>1. IndexInv => IndexDescribesBytes
  BY DEF IndexInv, IndexDescribesBytes, Described
<1> QED
  BY <1>1, IndexInit, IndexStep, PTL DEF Spec

-----------------------------------------------------------------------------
(* The numbers of the GoPs.                                                *)

NumberedFrom1(list) ==
  \A i \in DOMAIN list :
    IF i = 1 THEN list[1].type = "init"
    ELSE list[i].type = "segment" /\ list[i].gop.number = i - 1

\* Once a keyframe was seen, there is always a GoP being built, so none of the
\* numbers that a cut takes is lost on an empty one.
CountInv ==
  /\ Settled
  /\ flushes = 0 /\ seen => Present(bufs) # {}
  /\ ~ failed /\ flushes = 0 => /\ streaming => Len(Emitted) = segNo + 1
                                /\ NumberedFrom1(Emitted)

LEMMA CountInit == Init => CountInv
<1> SUFFICES ASSUME Init PROVE CountInv
  OBVIOUS
<1>1. Emitted = <<>> /\ ~ streaming /\ ~ seen
  BY DEF Init, Emitted
<1> QED
  BY <1>1, SettledInit DEF CountInv, NumberedFrom1

LEMMA CountStep == CountInv /\ [Next]_vars => CountInv'
<1> SUFFICES ASSUME CountInv, [Next]_vars PROVE CountInv'
  OBVIOUS
<1>0. Settled /\ Settled' /\ segNo \in Nat /\ Emitted \in Seq(Event) /\ bufs \in [Track -> TrackBuf]
  BY SettledStep, Lists DEF CountInv
<1>1. CASE StaysPut
  BY <1>0, <1>1 DEF StaysPut, CountInv
<1>2. CASE Opens
  <2> DEFINE e == [type |-> "init", catalog |-> catalog']
  <2>1. /\ Emitted' = Append(<<>>, e) /\ segNo' = 0 /\ streaming' /\ ~ seen'
    BY <1>0, <1>2 DEF Opens, Settled, Started
  <2>2. Len(Emitted') = 1 /\ DOMAIN Emitted' = {1} /\ Emitted'[1] = e
    BY <2>1
  <2>3. NumberedFrom1(Emitted')
    BY <2>2 DEF NumberedFrom1
  <2> QED
    BY <1>0, <2>1, <2>2, <2>3 DEF CountInv
<1>3. ASSUME NEW f, Takes(f), Cuts(f)
      PROVE  CountInv'
  <2>1. Present(bufs)' # {}
    BY <1>0, <1>3, Recorded, NoBufsType DEF Takes, Cuts
  <2>2. ASSUME ~ failed', flushes' = 0
        PROVE  Len(Emitted') = segNo' + 1 /\ NumberedFrom1(Emitted')
    <3>1. ~ failed /\ flushes = 0 /\ streaming
      BY <1>3, <2>2 DEF Takes
    <3>2. Present(bufs) # {}
      BY <1>3, <3>1 DEF CountInv, Cuts, Boundary, AudioOnlyBoundary
    <3>3. Emitted' = Append(Emitted, CutGop) /\ segNo' = segNo + 1
      BY <1>0, <1>3, <3>2, WithGopIs DEF Cuts
    <3>4. Len(Emitted) = segNo + 1 /\ NumberedFrom1(Emitted)
      BY <3>1 DEF CountInv
    <3>5. CutGop \in Event /\ CutGop.type = "segment" /\ CutGop.gop.number = segNo + 1
      BY <1>0, CutGopIs
    <3>6. Len(Emitted') = segNo' + 1
      BY <1>0, <3>3, <3>4, <3>5, Grown
    <3>7. ASSUME NEW i \in DOMAIN Emitted'
          PROVE  IF i = 1 THEN Emitted'[1].type = "init"
                 ELSE Emitted'[i].type = "segment" /\ Emitted'[i].gop.number = i - 1
      <4>1. CASE i \in DOMAIN Emitted /\ Emitted'[i] = Emitted[i]
        BY <3>4, <4>1 DEF NumberedFrom1
      <4>2. CASE i = Len(Emitted) + 1 /\ Emitted'[i] = CutGop
        <5>1. i # 1 /\ i - 1 = segNo + 1
          BY <1>0, <3>4, <4>2
        <5> QED
          BY <3>5, <4>2, <5>1
      <4> QED
        BY <1>0, <3>3, <3>5, <4>1, <4>2, Grown
    <3> QED
      BY <3>6, <3>7 DEF NumberedFrom1
  <2> QED
    BY <1>0, <2>1, <2>2 DEF CountInv
<1>4. ASSUME NEW f, Takes(f), Adds(f)
      PROVE  CountInv'
  <2>1. Present(bufs)' # {}
    BY <1>0, <1>4, Recorded DEF Takes, Adds
  <2> QED
    BY <1>0, <1>4, <2>1 DEF CountInv, Takes, Adds
<1>5. CASE Flushes
  <2>1. flushes' # 0
    BY <1>5 DEF Flushes
  <2> QED
    BY <1>0, <2>1 DEF CountInv
<1> QED
  BY <1>0, <1>1, <1>2, <1>3, <1>4, <1>5, Moves

\* The first event is the Init and the k-th GoP has number k, until a call fails
\* or flush() is called: a cut takes a number only for a GoP that has frames
\* (flush_segment in push.rs).
THEOREM Numbered == Spec => []NumbersConsecutive
<1>1. CountInv => NumbersConsecutive
  BY DEF CountInv, NumberedFrom1, NumbersConsecutive
<1> QED
  BY <1>1, CountInit, CountStep, PTL DEF Spec

-----------------------------------------------------------------------------
(* The keyframes of a GoP.                                                 *)

OneSync(g) == \A i, j \in DOMAIN g : g[i].sync /\ g[j].sync => i = j

Keyed(e, v) ==
  /\ OneSync(FramesIn(e, v))
  /\ FramesIn(e, v) # <<>> /\ e.gop.number > 1 => FramesIn(e, v)[1].sync

\* The first GoP is built until the second keyframe; every later one was opened
\* by its keyframe.
HeldKeyed(held, v) ==
  /\ OneSync(held[v].frames)
  /\ ~ seen => \A i \in DOMAIN held[v].frames : ~ held[v].frames[i].sync
  /\ segNo > 0 => held[v].frames # <<>> /\ held[v].frames[1].sync

KeyInv ==
  /\ Settled
  /\ flushes = 0 => \A v \in Track : catalog.video = {v} =>
       HeldKeyed(bufs, v) /\ \A i \in DOMAIN Emitted : Keyed(Emitted[i], v)

LEMMA KeyInit == Init => KeyInv
<1> SUFFICES ASSUME Init PROVE KeyInv
  OBVIOUS
<1>1. Emitted = <<>> /\ catalog.video = {}
  BY DEF Init, Emitted, NoCatalog
<1> QED
  BY <1>1, SettledInit DEF KeyInv

LEMMA KeyStep == KeyInv /\ [Next]_vars => KeyInv'
<1> SUFFICES ASSUME KeyInv, [Next]_vars PROVE KeyInv'
  OBVIOUS
<1>0. /\ Settled /\ Settled' /\ segNo \in Nat /\ Emitted \in Seq(Event)
      /\ bufs \in [Track -> TrackBuf] /\ NoBufs \in [Track -> TrackBuf]
  BY SettledStep, Lists, NoBufsType DEF KeyInv
<1> SUFFICES ASSUME flushes' = 0, NEW v \in Track, catalog'.video = {v}
             PROVE  HeldKeyed(bufs, v)' /\ \A i \in DOMAIN Emitted' : Keyed(Emitted'[i], v)
  BY <1>0 DEF KeyInv
<1>i. ASSUME flushes = 0, catalog.video = {v}
      PROVE  HeldKeyed(bufs, v) /\ \A i \in DOMAIN Emitted : Keyed(Emitted[i], v)
  BY <1>i DEF KeyInv
<1>1. CASE StaysPut
  <2>1. flushes = 0 /\ catalog.video = {v} /\ UNCHANGED <<bufs, segNo, seen>>
    BY <1>1 DEF StaysPut
  <2>2. \A i \in DOMAIN Emitted' : i \in DOMAIN Emitted /\ Emitted'[i] = Emitted[i]
    BY <1>1 DEF StaysPut
  <2>3. HeldKeyed(bufs, v)'
    BY <1>i, <2>1 DEF HeldKeyed
  <2> QED
    BY <1>i, <2>1, <2>2, <2>3
<1>2. CASE Opens
  <2> DEFINE e == [type |-> "init", catalog |-> catalog']
  <2>1. /\ Emitted' = Append(<<>>, e) /\ segNo' = 0 /\ bufs' = NoBufs
    BY <1>0, <1>2 DEF Opens, Settled, Started
  <2>2. DOMAIN Emitted' = {1} /\ FramesIn(Emitted'[1], v) = <<>>
    BY <2>1 DEF FramesIn
  <2>3. HeldKeyed(bufs, v)'
    BY <2>1, NothingHeld DEF HeldKeyed, OneSync
  <2> QED
    BY <2>2, <2>3 DEF Keyed, OneSync
<1>3. ASSUME NEW f, Takes(f), Cuts(f)
      PROVE  HeldKeyed(bufs, v)' /\ \A i \in DOMAIN Emitted' : Keyed(Emitted'[i], v)
  <2>1. flushes = 0 /\ catalog.video = {v} /\ f \in Frame
    BY <1>3 DEF Takes
  <2>2. HeldKeyed(bufs, v) /\ \A i \in DOMAIN Emitted : Keyed(Emitted[i], v)
    BY <1>i, <2>1
  <2>3. f.track = v /\ f.sync /\ seen
    BY <1>3, <2>1 DEF Cuts, Boundary, IsVideoKeyframe
  <2>4. bufs'[v].frames = <<f>>
    <3>1. bufs' = RecordFrame(NoBufs, f) /\ NoBufs[f.track].frames = <<>>
      BY <1>3, <2>3, NothingHeld DEF Cuts
    <3>2. bufs'[f.track].frames = Append(NoBufs[f.track].frames, f)
      BY <1>0, <2>1, <3>1, Recorded
    <3>3. Append(<<>>, f) = <<f>>
      OBVIOUS
    <3> QED
      BY <2>3, <3>1, <3>2, <3>3
  <2>5. seen'
    BY <1>3, <2>3 DEF Takes
  <2>6. HeldKeyed(bufs, v)'
    <3>1. DOMAIN <<f>> = {1} /\ <<f>>[1] = f /\ <<f>> # <<>>
      OBVIOUS
    <3> QED
      BY <2>3, <2>4, <2>5, <3>1 DEF HeldKeyed, OneSync
  <2>7. Keyed(CutGop, v)
    <3>1. FramesIn(CutGop, v) = bufs[v].frames /\ CutGop.gop.number = segNo + 1
      BY <1>0, CutGopIs
    <3>2. segNo + 1 > 1 => segNo > 0
      BY <1>0
    <3> QED
      BY <2>2, <3>1, <3>2 DEF Keyed, HeldKeyed
  <2> QED
    BY <1>0, <1>3, <2>2, <2>6, <2>7, WithGopIs DEF Cuts
<1>4. ASSUME NEW f, Takes(f), Adds(f)
      PROVE  HeldKeyed(bufs, v)' /\ \A i \in DOMAIN Emitted' : Keyed(Emitted'[i], v)
  <2>1. flushes = 0 /\ catalog.video = {v} /\ f \in Frame /\ Emitted' = Emitted /\ segNo' = segNo
    BY <1>4 DEF Takes, Adds
  <2>2. HeldKeyed(bufs, v) /\ \A i \in DOMAIN Emitted : Keyed(Emitted[i], v)
    BY <1>i, <2>1
  <2>3. seen' = (seen \/ (f.track = v /\ f.sync)) /\ ~ (f.track = v /\ f.sync /\ seen)
    BY <1>4, <2>1 DEF Takes, Adds, Boundary, IsVideoKeyframe
  <2>4. bufs' = RecordFrame(bufs, f)
    BY <1>4 DEF Adds
  <2>5. CASE f.track # v
    <3>1. bufs'[v] = bufs[v]
      BY <1>0, <2>1, <2>4, <2>5, RecordFrameType
    <3> QED
      BY <2>1, <2>2, <2>3, <2>5, <3>1 DEF HeldKeyed
  <2>6. CASE f.track = v
    <3> DEFINE g == bufs[v].frames
    <3>1. bufs'[v].frames = Append(g, f) /\ g \in Seq(Frame)
      BY <1>0, <2>1, <2>4, <2>6, Recorded
    <3>2. /\ OneSync(g) /\ (~ seen => \A i \in DOMAIN g : ~ g[i].sync)
          /\ segNo > 0 => g # <<>> /\ g[1].sync
      BY <2>2 DEF HeldKeyed
    <3>3. f.sync => \A i \in DOMAIN g : ~ g[i].sync
      BY <2>3, <2>6, <3>2
    <3> HIDE DEF g
    <3> DEFINE h == Append(g, f)
    <3>h. \A i \in DOMAIN h : (i \in DOMAIN g /\ h[i] = g[i]) \/ (i = Len(g) + 1 /\ h[i] = f)
      BY <2>1, <3>1, Grown
    <3> HIDE DEF h
    <3>4. OneSync(h)
      BY <3>2, <3>3, <3>h DEF OneSync
    <3>5. ~ seen' => \A i \in DOMAIN h : ~ h[i].sync
      BY <2>3, <2>6, <3>2, <3>h
    <3>6. segNo' > 0 => h # <<>> /\ h[1].sync
      <4>1. g # <<>> => 1 \in DOMAIN g
        BY <3>1, EmptySeq
      <4> QED
        BY <2>1, <3>1, <3>2, <4>1, Grown DEF h
    <3>7. HeldKeyed(bufs, v)'
      BY <3>1, <3>4, <3>5, <3>6 DEF HeldKeyed, h
    <3> QED
      BY <2>1, <2>2, <3>7
  <2> QED
    BY <2>5, <2>6
<1>5. CASE Flushes
  BY <1>5 DEF Flushes
<1> QED
  BY <1>0, <1>1, <1>2, <1>3, <1>4, <1>5, Moves

\* With a single video track a GoP has one keyframe, its first frame of that
\* track; only the first GoP may start with frames from before it (is_boundary,
\* push.rs; canonical-form.md, Segmentation Rule).
THEOREM OneKeyframe == Spec => []KeyframePerGop
<1>1. ASSUME KeyInv PROVE KeyframePerGop
  <2> SUFFICES ASSUME flushes = 0, NEW v \in Track, catalog.video = {v}
               PROVE  /\ \A g \in Groups(v) : OneSync(g)
                      /\ \A i \in DOMAIN Emitted :
                           FramesIn(Emitted[i], v) # <<>> /\ Emitted[i].gop.number > 1
                             => FramesIn(Emitted[i], v)[1].sync
    BY DEF KeyframePerGop, OneSync
  <2>1. HeldKeyed(bufs, v) /\ \A i \in DOMAIN Emitted : Keyed(Emitted[i], v)
    BY <1>1 DEF KeyInv
  <2> QED
    BY <2>1 DEF Keyed, HeldKeyed, Groups
<1> QED
  BY <1>1, KeyInit, KeyStep, PTL DEF Spec

-----------------------------------------------------------------------------
(* The length of a GoP without video.                                      *)

Smallest(t, set) == t \in set /\ \A u \in set : t <= u
WithoutLast(s) == s.dur - s.frames[Len(s.frames)].dur

\* The track that decides would have been too short without its last frame.
Spanning(held, c) ==
  /\ \A t \in Track \ Present(held) : held[t].dur = 0
  /\ \A t \in Track : Smallest(t, Present(held)) /\ c.scale[t] > 0 =>
                        WithoutLast(held[t]) < c.scale[t]

Spans(e, c) ==
  e.type = "segment" =>
    \E t \in Track : /\ Smallest(t, TracksIn(e)) /\ c.scale[t] > 0
                     /\ e.gop.tracks[t].dur >= c.scale[t]
                     /\ WithoutLast(e.gop.tracks[t]) < c.scale[t]

SpanInv ==
  /\ Settled
  /\ flushes = 0 /\ streaming /\ catalog.video = {} =>
       Spanning(bufs, catalog) /\ \A i \in DOMAIN Emitted : Spans(Emitted[i], catalog)

LEMMA BufNumbers ==
  ASSUME NEW b \in TrackBuf
  PROVE  /\ b.dur \in Nat /\ b.frames \in Seq(Frame)
         /\ b.frames # <<>> => b.frames[Len(b.frames)].dur \in Nat
<1>1. b.dur \in Nat /\ b.frames \in Seq(Frame)
  BY DEF TrackBuf
<1>2. ASSUME b.frames # <<>> PROVE b.frames[Len(b.frames)] \in Frame
  BY <1>1, <1>2, EmptySeq, LenProperties, ElementOfSeq
<1> QED
  BY <1>1, <1>2 DEF Frame

LEMMA RecordSpanning ==
  ASSUME NEW held \in [Track -> TrackBuf], NEW f \in Frame, NEW c \in Catalog,
         Spanning(held, c), ~ AudioOnlyBoundary(held, c)
  PROVE  Spanning(RecordFrame(held, f), c)
<1> DEFINE new == RecordFrame(held, f)
           b == held[f.track]
<1>0. f.track \in Track /\ f.dur \in Nat
  BY DEF Frame
<1>1. /\ new[f.track].frames = Append(b.frames, f) /\ new[f.track].dur = b.dur + f.dur
      /\ b \in TrackBuf /\ b.frames \in Seq(Frame) /\ Present(new) = Present(held) \cup {f.track}
      /\ \A t \in Track \ {f.track} : new[t] = held[t]
  BY Recorded, RecordFrameType
<1>2. b.dur \in Nat
  BY <1>1, BufNumbers
<1>3. WithoutLast(new[f.track]) = b.dur
  <2>1. Len(Append(b.frames, f)) = Len(b.frames) + 1 /\ Append(b.frames, f)[Len(b.frames) + 1] = f
    BY <1>1, AppendProperties
  <2>2. WithoutLast(new[f.track]) = (b.dur + f.dur) - f.dur
    BY <1>1, <2>1 DEF WithoutLast
  <2>3. \A m, n \in Nat : (m + n) - n = m
    OBVIOUS
  <2> QED
    BY <1>0, <1>2, <2>2, <2>3
<1> HIDE DEF new
<1>4. \A t \in Track \ Present(new) : new[t].dur = 0
  BY <1>1 DEF Spanning
<1>5. ASSUME NEW t \in Track, Smallest(t, Present(new)), c.scale[t] > 0
      PROVE  WithoutLast(new[t]) < c.scale[t]
  <2>0. c.scale[t] \in Nat
    BY DEF Catalog
  <2>1. CASE t # f.track
    <3>1. new[t] = held[t] /\ Smallest(t, Present(held))
      BY <1>1, <1>5, <2>1 DEF Smallest
    <3> QED
      BY <1>5, <3>1 DEF Spanning
  <2>2. CASE t = f.track /\ t \notin Present(held)
    <3>1. b.dur = 0
      BY <1>0, <2>2 DEF Spanning
    <3> QED
      BY <1>3, <1>5, <2>2, <3>1
  <2>3. CASE t = f.track /\ t \in Present(held)
    <3>1. Smallest(t, Present(held))
      BY <1>1, <1>5, <2>3 DEF Smallest
    <3>2. ~ (held[t].dur >= c.scale[t])
      BY <1>5, <3>1 DEF Smallest, AudioOnlyBoundary
    <3>3. b.dur < c.scale[t]
      BY <1>2, <2>0, <2>3, <3>2
    <3> QED
      BY <1>3, <2>3, <3>3
  <2> QED
    BY <2>1, <2>2, <2>3
<1> QED
  BY <1>4, <1>5 DEF Spanning, new

LEMMA NothingSpans ==
  ASSUME NEW c
  PROVE  Spanning(NoBufs, c) /\ ~ AudioOnlyBoundary(NoBufs, c)
<1>1. \A t \in Track : NoBufs[t].dur = 0
  BY NothingHeld DEF EmptyBuf
<1> QED
  BY <1>1, NothingHeld DEF Spanning, Smallest, AudioOnlyBoundary

LEMMA CutSpans ==
  ASSUME Settled, Spanning(bufs, catalog), AudioOnlyBoundary(bufs, catalog)
  PROVE  Spans(CutGop, catalog)
<1>1. PICK t \in Present(bufs) : /\ \A u \in Present(bufs) : t <= u
                                 /\ catalog.scale[t] > 0
                                 /\ bufs[t].dur >= catalog.scale[t]
  BY DEF AudioOnlyBoundary
<1>2. t \in Track /\ Smallest(t, Present(bufs)) /\ TracksIn(CutGop) = Present(bufs)
  BY <1>1, CutGopIs DEF Smallest, Present
<1>3. /\ CutGop.gop.tracks[t].dur = bufs[t].dur
      /\ CutGop.gop.tracks[t].frames = bufs[t].frames
  <2>1. CutGop.gop.tracks[t] = SegmentOf(bufs[t], t)
    BY <1>1, CutGopIs
  <2>2. \A b, u : SegmentOf(b, u).dur = b.dur /\ SegmentOf(b, u).frames = b.frames
    BY DEF SegmentOf
  <2> QED
    BY <2>1, <2>2
<1>4. WithoutLast(CutGop.gop.tracks[t]) = WithoutLast(bufs[t])
  BY <1>3 DEF WithoutLast
<1>5. WithoutLast(bufs[t]) < catalog.scale[t]
  BY <1>1, <1>2 DEF Spanning
<1> QED
  BY <1>1, <1>2, <1>3, <1>4, <1>5 DEF Spans

LEMMA SpanInit == Init => SpanInv
BY SettledInit DEF Init, SpanInv

LEMMA SpanStep == SpanInv /\ [Next]_vars => SpanInv'
<1> SUFFICES ASSUME SpanInv, [Next]_vars PROVE SpanInv'
  OBVIOUS
<1>0. /\ Settled /\ Settled' /\ Emitted \in Seq(Event) /\ catalog \in Catalog
      /\ bufs \in [Track -> TrackBuf] /\ NoBufs \in [Track -> TrackBuf]
  BY SettledStep, Lists, NoBufsType DEF SpanInv
<1> SUFFICES ASSUME flushes' = 0, streaming', catalog'.video = {}
             PROVE  Spanning(bufs', catalog') /\ \A i \in DOMAIN Emitted' : Spans(Emitted'[i], catalog')
  BY <1>0 DEF SpanInv
<1>i. ASSUME flushes = 0, streaming, catalog.video = {}
      PROVE  Spanning(bufs, catalog) /\ \A i \in DOMAIN Emitted : Spans(Emitted[i], catalog)
  BY <1>i DEF SpanInv
<1>1. CASE StaysPut
  <2>1. flushes = 0 /\ streaming /\ catalog' = catalog /\ catalog.video = {} /\ bufs' = bufs
    BY <1>1 DEF StaysPut
  <2>2. \A i \in DOMAIN Emitted' : i \in DOMAIN Emitted /\ Emitted'[i] = Emitted[i]
    BY <1>1 DEF StaysPut
  <2> QED
    BY <1>i, <2>1, <2>2
<1>2. CASE Opens
  <2> DEFINE e == [type |-> "init", catalog |-> catalog']
  <2>1. Emitted' = Append(<<>>, e) /\ bufs' = NoBufs
    BY <1>0, <1>2 DEF Opens, Settled, Started
  <2>2. DOMAIN Emitted' = {1} /\ Emitted'[1].type = "init"
    BY <2>1
  <2> QED
    BY <2>1, <2>2, NothingSpans DEF Spans
<1>3. ASSUME NEW f, Takes(f), Cuts(f)
      PROVE  Spanning(bufs', catalog') /\ \A i \in DOMAIN Emitted' : Spans(Emitted'[i], catalog')
  <2>1. flushes = 0 /\ streaming /\ catalog' = catalog /\ catalog.video = {} /\ f \in Frame
    BY <1>3 DEF Takes
  <2>2. AudioOnlyBoundary(bufs, catalog)
    BY <1>3, <2>1 DEF Cuts, Boundary
  <2>3. Spans(CutGop, catalog)
    BY <1>0, <1>i, <2>1, <2>2, CutSpans
  <2>4. Spanning(bufs', catalog)
    BY <1>0, <1>3, <2>1, NothingSpans, RecordSpanning DEF Cuts
  <2>5. \A i \in DOMAIN Emitted' : Spans(Emitted'[i], catalog)
    BY <1>0, <1>3, <1>i, <2>1, <2>3, WithGopIs DEF Cuts
  <2> QED
    BY <2>1, <2>4, <2>5
<1>4. ASSUME NEW f, Takes(f), Adds(f)
      PROVE  Spanning(bufs', catalog') /\ \A i \in DOMAIN Emitted' : Spans(Emitted'[i], catalog')
  <2>1. /\ flushes = 0 /\ streaming /\ catalog' = catalog /\ catalog.video = {} /\ f \in Frame
        /\ Emitted' = Emitted
    BY <1>4 DEF Takes, Adds
  <2>2. ~ AudioOnlyBoundary(bufs, catalog)
    BY <1>4, <2>1 DEF Adds, Boundary
  <2>3. Spanning(bufs', catalog)
    BY <1>0, <1>4, <1>i, <2>1, <2>2, RecordSpanning DEF Adds
  <2> QED
    BY <1>i, <2>1, <2>3
<1>5. CASE Flushes
  BY <1>5 DEF Flushes
<1> QED
  BY <1>0, <1>1, <1>2, <1>3, <1>4, <1>5, Moves

\* Without video, the present track with the smallest id lasts a second or more
\* in every GoP, and less without its last frame (is_boundary, push.rs).
THEOREM AudioGopsSpanASecond == Spec => []AudioSpans
<1>1. ASSUME SpanInv PROVE AudioSpans
  <2> SUFFICES ASSUME flushes = 0, streaming, catalog.video = {},
                      NEW i \in DOMAIN Emitted, Emitted[i].type = "segment"
               PROVE  LET tracks == Emitted[i].gop.tracks
                          ref    == CHOOSE t \in TracksIn(Emitted[i]) :
                                      \A u \in TracksIn(Emitted[i]) : t <= u
                          last   == tracks[ref].frames[Len(tracks[ref].frames)]
                      IN  /\ catalog.scale[ref] > 0
                          /\ tracks[ref].dur >= catalog.scale[ref]
                          /\ tracks[ref].dur - last.dur < catalog.scale[ref]
    BY DEF AudioSpans
  <2> DEFINE set == TracksIn(Emitted[i])
             ref == CHOOSE t \in set : \A u \in set : t <= u
  <2>1. PICK t \in Track : /\ Smallest(t, set) /\ catalog.scale[t] > 0
                           /\ Emitted[i].gop.tracks[t].dur >= catalog.scale[t]
                           /\ WithoutLast(Emitted[i].gop.tracks[t]) < catalog.scale[t]
    BY <1>1 DEF SpanInv, Spans
  <2>2. set \subseteq Nat
    BY TrackAssumption DEF TracksIn
  <2> HIDE DEF set
  <2>3. t \in set /\ \A u \in set : t <= u
    BY <2>1 DEF Smallest
  <2>4. ref \in set /\ \A u \in set : ref <= u
    BY <2>3
  <2> HIDE DEF ref
  <2>5. ref = t
    <3>1. ref <= t /\ t <= ref /\ ref \in Nat /\ t \in Nat
      BY <2>2, <2>3, <2>4
    <3> QED
      BY <3>1
  <2> QED
    BY <2>1, <2>5 DEF WithoutLast, ref, set
<1> QED
  BY <1>1, SpanInit, SpanStep, PTL DEF Spec

-----------------------------------------------------------------------------
(* No gap.                                                                 *)

SentIn(list, t, m) ==
  \E j \in DOMAIN list : \E l \in DOMAIN FramesIn(list[j], t) : FramesIn(list[j], t)[l].seq = m
HeldIn(held, t, m) == \E l \in DOMAIN held[t].frames : held[t].frames[l].seq = m
QueuedIn(queue, n, t, m) == \E p \in 1..n : queue[p].track = t /\ queue[p].seq = m

\* Emitted, buffered, or among the first n of the queue.
Somewhere(list, held, queue, n, t, m) ==
  SentIn(list, t, m) \/ HeldIn(held, t, m) \/ QueuedIn(queue, n, t, m)

ListWhole(list) ==
  \A t \in Track, i \in DOMAIN list :
    \A k \in DOMAIN FramesIn(list[i], t) : \A m \in 1..FramesIn(list[i], t)[k].seq :
      \E j \in 1..i : \E l \in DOMAIN FramesIn(list[j], t) : FramesIn(list[j], t)[l].seq = m

HeldWhole(list, held) ==
  \A t \in Track : \A k \in DOMAIN held[t].frames : \A m \in 1..held[t].frames[k].seq :
    SentIn(list, t, m) \/ HeldIn(held, t, m)

\* All that a track's clock has counted is somewhere, the earlier of it no later.
Whole(list, held, queue, ticks) ==
  /\ ListWhole(list)
  /\ HeldWhole(list, held)
  /\ \A q \in DOMAIN queue : \A m \in 1..queue[q].seq :
       Somewhere(list, held, queue, q, queue[q].track, m)
  /\ \A s \in Track : \A m \in 1..ticks[s].count :
       Somewhere(list, held, queue, Len(queue), Remap[s], m)

GapInv == Settled /\ (~ failed => Whole(Emitted, bufs, frames, clock))

LEMMA FrameTracks ==
  ASSUME NEW g \in Seq(Frame)
  PROVE  \A i \in DOMAIN g : g[i].track \in Track
<1>1. \A h \in Frame : h.track \in Track
  BY DEF Frame
<1> QED
  BY <1>1, FrameSeq

LEMMA WholeEmit ==
  ASSUME NEW list \in Seq(Event), NEW held, NEW queue \in Seq(Frame), NEW ticks,
         Whole(list, held, queue, ticks),
         NEW e \in Event, \A t \in Track : FramesIn(e, t) = held[t].frames
  PROVE  Whole(Append(list, e), NoBufs, queue, ticks)
<1> DEFINE more == Append(list, e)
<1>1. /\ Len(list) \in Nat /\ DOMAIN list = 1..Len(list) /\ DOMAIN more = 1..(Len(list) + 1)
      /\ \A i \in DOMAIN list : i \in DOMAIN more /\ more[i] = list[i]
      /\ more[Len(list) + 1] = e /\ Len(list) + 1 \in DOMAIN more
  BY Grown, LenProperties
<1> HIDE DEF more
<1>2. ASSUME NEW t \in Track, NEW m
      PROVE  SentIn(list, t, m) \/ HeldIn(held, t, m) => SentIn(more, t, m)
  <2>1. SentIn(list, t, m) => SentIn(more, t, m)
    BY <1>1 DEF SentIn
  <2>2. HeldIn(held, t, m) => SentIn(more, t, m)
    BY <1>1 DEF SentIn, HeldIn
  <2> QED
    BY <2>1, <2>2
<1>3. \A t \in Track : \A m, n :
        Somewhere(list, held, queue, n, t, m) => Somewhere(more, NoBufs, queue, n, t, m)
  BY <1>2 DEF Somewhere
<1>4. ASSUME NEW t \in Track, NEW i \in DOMAIN more,
             NEW k \in DOMAIN FramesIn(more[i], t), NEW m \in 1..FramesIn(more[i], t)[k].seq
      PROVE  \E j \in 1..i : \E l \in DOMAIN FramesIn(more[j], t) : FramesIn(more[j], t)[l].seq = m
  <2>1. CASE i \in DOMAIN list
    <3>0. k \in DOMAIN FramesIn(list[i], t) /\ m \in 1..FramesIn(list[i], t)[k].seq
      BY <1>1, <2>1
    <3>1. PICK j \in 1..i : \E l \in DOMAIN FramesIn(list[j], t) : FramesIn(list[j], t)[l].seq = m
      BY <2>1, <3>0 DEF Whole, ListWhole
    <3>2. j \in DOMAIN list
      BY <1>1, <2>1
    <3> QED
      BY <1>1, <3>1, <3>2
  <2>2. CASE i \notin DOMAIN list
    <3>1. i = Len(list) + 1 /\ more[i] = e
      BY <1>1, <2>2
    <3>2. SentIn(list, t, m) \/ HeldIn(held, t, m)
      BY <3>1 DEF Whole, HeldWhole
    <3>3. SentIn(more, t, m)
      BY <1>2, <3>2
    <3>4. DOMAIN more = 1..i
      BY <1>1, <3>1
    <3> QED
      BY <3>3, <3>4 DEF SentIn
  <2> QED
    BY <2>1, <2>2
<1>5. ListWhole(more)
  BY <1>4 DEF ListWhole
<1>6. HeldWhole(more, NoBufs)
  BY NothingHeld DEF HeldWhole
<1>7. \A q \in DOMAIN queue : queue[q].track \in Track
  BY FrameTracks
<1>8. \A q \in DOMAIN queue : \A m \in 1..queue[q].seq :
        Somewhere(more, NoBufs, queue, q, queue[q].track, m)
  BY <1>3, <1>7 DEF Whole
<1>9. \A s \in Track : \A m \in 1..ticks[s].count :
        Somewhere(more, NoBufs, queue, Len(queue), Remap[s], m)
  BY <1>3, RemapAssumption DEF Whole
<1> QED
  BY <1>5, <1>6, <1>8, <1>9 DEF Whole, more

LEMMA WholeEmitInit ==
  ASSUME NEW list \in Seq(Event), NEW held, NEW queue \in Seq(Frame), NEW ticks,
         Whole(list, held, queue, ticks),
         NEW e \in Event, \A t \in Track : FramesIn(e, t) = <<>>
  PROVE  Whole(Append(list, e), held, queue, ticks)
<1> DEFINE more == Append(list, e)
<1>1. /\ Len(list) \in Nat /\ DOMAIN list = 1..Len(list) /\ DOMAIN more = 1..(Len(list) + 1)
      /\ \A i \in DOMAIN list : i \in DOMAIN more /\ more[i] = list[i]
      /\ more[Len(list) + 1] = e
  BY Grown, LenProperties
<1> HIDE DEF more
<1>2. \A t \in Track : \A m : SentIn(list, t, m) => SentIn(more, t, m)
  BY <1>1 DEF SentIn
<1>3. \A t \in Track : \A m, n :
        Somewhere(list, held, queue, n, t, m) => Somewhere(more, held, queue, n, t, m)
  BY <1>2 DEF Somewhere
<1>4. ASSUME NEW t \in Track, NEW i \in DOMAIN more,
             NEW k \in DOMAIN FramesIn(more[i], t), NEW m \in 1..FramesIn(more[i], t)[k].seq
      PROVE  \E j \in 1..i : \E l \in DOMAIN FramesIn(more[j], t) : FramesIn(more[j], t)[l].seq = m
  <2>1. i \in DOMAIN list
    <3>1. i = Len(list) + 1 => FramesIn(more[i], t) = <<>>
      BY <1>1
    <3>2. i # Len(list) + 1
      BY <3>1
    <3> QED
      BY <1>1, <3>2
  <2>0. k \in DOMAIN FramesIn(list[i], t) /\ m \in 1..FramesIn(list[i], t)[k].seq
    BY <1>1, <2>1
  <2>2. PICK j \in 1..i : \E l \in DOMAIN FramesIn(list[j], t) : FramesIn(list[j], t)[l].seq = m
    BY <2>1, <2>0 DEF Whole, ListWhole
  <2>3. j \in DOMAIN list
    BY <1>1, <2>1
  <2> QED
    BY <1>1, <2>2, <2>3
<1>5. ListWhole(more)
  BY <1>4 DEF ListWhole
<1>6. HeldWhole(more, held)
  BY <1>2 DEF Whole, HeldWhole
<1>7. \A q \in DOMAIN queue : queue[q].track \in Track
  BY FrameTracks
<1>8. \A q \in DOMAIN queue : \A m \in 1..queue[q].seq :
        Somewhere(more, held, queue, q, queue[q].track, m)
  BY <1>3, <1>7 DEF Whole
<1>9. \A s \in Track : \A m \in 1..ticks[s].count :
        Somewhere(more, held, queue, Len(queue), Remap[s], m)
  BY <1>3, RemapAssumption DEF Whole
<1> QED
  BY <1>5, <1>6, <1>8, <1>9 DEF Whole, more

\* A cut moves what is buffered to what is emitted.
LEMMA WholeCut ==
  ASSUME Settled, NEW queue \in Seq(Frame), NEW ticks, Whole(Emitted, bufs, queue, ticks)
  PROVE  Whole(WithGop(Emitted), NoBufs, queue, ticks)
<1>0. Emitted \in Seq(Event)
  BY Lists
<1>1. CASE Present(bufs) = {}
  <2>1. \A t \in Track : bufs[t].frames = <<>> /\ NoBufs[t].frames = <<>>
    BY <1>1, NothingHeld DEF Present
  <2>2. \A t \in Track : \A m : ~ HeldIn(bufs, t, m)
    BY <2>1 DEF HeldIn
  <2>3. \A t \in Track : \A m, n :
          Somewhere(Emitted, bufs, queue, n, t, m) => Somewhere(Emitted, NoBufs, queue, n, t, m)
    BY <2>2 DEF Somewhere
  <2>4. HeldWhole(Emitted, NoBufs)
    BY <2>1 DEF HeldWhole
  <2>5. \A q \in DOMAIN queue : queue[q].track \in Track
    BY FrameTracks
  <2>6. /\ \A q \in DOMAIN queue : \A m \in 1..queue[q].seq :
             Somewhere(Emitted, NoBufs, queue, q, queue[q].track, m)
        /\ \A s \in Track : \A m \in 1..ticks[s].count :
             Somewhere(Emitted, NoBufs, queue, Len(queue), Remap[s], m)
    BY <2>3, <2>5, RemapAssumption DEF Whole
  <2>7. Whole(Emitted, NoBufs, queue, ticks)
    BY <2>4, <2>6 DEF Whole
  <2> QED
    BY <1>1, <2>7, WithGopIs
<1>2. CASE Present(bufs) # {}
  BY <1>0, <1>2, WithGopIs, CutGopIs, WholeEmit
<1> QED
  BY <1>1, <1>2

\* The frame at the head of the queue joins the buffer of its track.
LEMMA WholeRecord ==
  ASSUME NEW list, NEW held \in [Track -> TrackBuf], NEW queue \in Seq(Frame), queue # <<>>,
         NEW ticks, Whole(list, held, queue, ticks)
  PROVE  Whole(list, RecordFrame(held, Head(queue)), Tail(queue), ticks)
<1> DEFINE f    == Head(queue)
           more == RecordFrame(held, f)
           rest == Tail(queue)
<1>1. /\ f = queue[1] /\ f \in Frame /\ 1 \in DOMAIN queue
      /\ Len(queue) \in Nat /\ Len(rest) = Len(queue) - 1 /\ rest \in Seq(Frame)
      /\ DOMAIN rest = 1..(Len(queue) - 1)
      /\ \A q \in DOMAIN rest : /\ q + 1 \in DOMAIN queue /\ q \in Nat /\ q >= 1
                               /\ rest[q] = queue[q + 1]
  OBVIOUS
<1>2. /\ f.track \in Track
      /\ more[f.track].frames = Append(held[f.track].frames, f)
      /\ \A t \in Track \ {f.track} : more[t] = held[t]
  BY <1>1, RecordFrameType
<1>3. /\ held[f.track].frames \in Seq(Frame)
      /\ \A t \in Track : held[t].frames \in Seq(Frame)
  BY <1>2 DEF TrackBuf
<1> HIDE DEF f, more, rest
<1>4. /\ Len(held[f.track].frames) + 1 \in DOMAIN more[f.track].frames
      /\ more[f.track].frames[Len(held[f.track].frames) + 1] = f
      /\ \A i \in DOMAIN held[f.track].frames :
           i \in DOMAIN more[f.track].frames /\ more[f.track].frames[i] = held[f.track].frames[i]
      /\ \A i \in DOMAIN more[f.track].frames :
           \/ i \in DOMAIN held[f.track].frames /\ more[f.track].frames[i] = held[f.track].frames[i]
           \/ more[f.track].frames[i] = f
  <2> DEFINE b == held[f.track].frames
             g == more[f.track].frames
  <2>1. g = Append(b, f) /\ b \in Seq(Frame)
    BY <1>2, <1>3
  <2> HIDE DEF b, g
  <2>2. /\ Len(b) + 1 \in DOMAIN g /\ g[Len(b) + 1] = f
        /\ \A i \in DOMAIN b : i \in DOMAIN g /\ g[i] = b[i]
        /\ \A i \in DOMAIN g : (i \in DOMAIN b /\ g[i] = b[i]) \/ g[i] = f
    BY <1>1, <2>1, Grown
  <2> QED
    BY <2>2 DEF b, g
<1>5. ASSUME NEW t \in Track, NEW m
      PROVE  (HeldIn(held, t, m) \/ (f.track = t /\ f.seq = m)) => HeldIn(more, t, m)
  <2>1. CASE f.track = t
    BY <1>4, <2>1 DEF HeldIn
  <2>2. CASE f.track # t
    BY <1>2, <2>2 DEF HeldIn
  <2> QED
    BY <2>1, <2>2
<1>6. ASSUME NEW t \in Track, NEW m, NEW n \in 1..Len(queue),
             Somewhere(list, held, queue, n, t, m)
      PROVE  Somewhere(list, more, rest, n - 1, t, m)
  <2>1. CASE QueuedIn(queue, n, t, m)
    <3>1. PICK p \in 1..n : queue[p].track = t /\ queue[p].seq = m
      BY <2>1 DEF QueuedIn
    <3>2. CASE p = 1
      BY <1>1, <1>5, <3>1, <3>2 DEF Somewhere
    <3>3. CASE p # 1
      <4>1. p - 1 \in 1..(n - 1) /\ p - 1 \in DOMAIN rest /\ (p - 1) + 1 = p
        BY <1>1, <3>3
      <4>2. rest[p - 1] = queue[p]
        BY <1>1, <4>1
      <4> QED
        BY <3>1, <4>1, <4>2 DEF Somewhere, QueuedIn
    <3> QED
      BY <3>2, <3>3
  <2>2. CASE SentIn(list, t, m) \/ HeldIn(held, t, m)
    BY <1>5, <2>2 DEF Somewhere
  <2> QED
    BY <1>6, <2>1, <2>2 DEF Somewhere
<1>7. HeldWhole(list, more)
  <2> SUFFICES ASSUME NEW t \in Track, NEW k \in DOMAIN more[t].frames,
                      NEW m \in 1..more[t].frames[k].seq
               PROVE  SentIn(list, t, m) \/ HeldIn(more, t, m)
    BY DEF HeldWhole
  <2>1. CASE k \in DOMAIN held[t].frames /\ more[t].frames[k] = held[t].frames[k]
    <3>1. SentIn(list, t, m) \/ HeldIn(held, t, m)
      BY <2>1 DEF Whole, HeldWhole
    <3> QED
      BY <1>5, <3>1
  <2>2. CASE f.track = t /\ more[t].frames[k] = f
    <3>1. Somewhere(list, held, queue, 1, t, m)
      <4>1. m \in 1..queue[1].seq /\ queue[1].track = t
        BY <1>1, <2>2
      <4> QED
        BY <1>1, <4>1 DEF Whole
    <3>2. Somewhere(list, more, rest, 1 - 1, t, m)
      BY <1>1, <1>6, <3>1
    <3>3. ~ QueuedIn(rest, 1 - 1, t, m)
      BY DEF QueuedIn
    <3> QED
      BY <3>2, <3>3 DEF Somewhere
  <2> QED
    BY <1>2, <1>4, <2>1, <2>2
<1>8. ASSUME NEW q \in DOMAIN rest, NEW m \in 1..rest[q].seq
      PROVE  Somewhere(list, more, rest, q, rest[q].track, m)
  <2>1. q + 1 \in DOMAIN queue /\ rest[q] = queue[q + 1] /\ (q + 1) - 1 = q
        /\ q + 1 \in 1..Len(queue)
    BY <1>1
  <2>2. rest[q].track \in Track
    BY <1>1, FrameTracks
  <2>3. Somewhere(list, held, queue, q + 1, rest[q].track, m)
    BY <2>1 DEF Whole
  <2> QED
    BY <1>6, <2>1, <2>2, <2>3
<1>9. ASSUME NEW s \in Track, NEW m \in 1..ticks[s].count
      PROVE  Somewhere(list, more, rest, Len(rest), Remap[s], m)
  <2>1. Remap[s] \in Track /\ Len(queue) \in 1..Len(queue)
    BY <1>1, RemapAssumption
  <2>2. Somewhere(list, held, queue, Len(queue), Remap[s], m)
    BY DEF Whole
  <2> QED
    BY <1>1, <1>6, <2>1, <2>2
<1>10. ListWhole(list)
  BY DEF Whole
<1>11. Whole(list, more, rest, ticks)
  BY <1>7, <1>8, <1>9, <1>10 DEF Whole
<1> QED
  BY <1>11 DEF f, more, rest

\* A sample that is minted takes the number after the last of its track.
LEMMA WholeMint ==
  ASSUME NEW list, NEW held, NEW queue \in Seq(Frame),
         NEW ticks \in [Track -> Progress], Whole(list, held, queue, ticks),
         NEW s \in Step, s.op = "sample", NEW data \in Nat \X Int
  PROVE  Whole(list, held, Append(queue, MintFrame(ticks, s, data)), Advance(ticks, s))
<1> DEFINE f    == MintFrame(ticks, s, data)
           more == Append(queue, f)
           on   == Advance(ticks, s)
<1>1. f \in Frame /\ f.track = Remap[s.track] /\ f.seq = ticks[s.track].count + 1
  BY MintFrameType
<1>2. /\ s.track \in Track /\ ticks[s.track].count \in Nat
      /\ on[s.track].count = ticks[s.track].count + 1
      /\ \A t \in Track : t # s.track => on[t] = ticks[t]
  BY StepFields DEF Advance, Progress
<1>3. /\ Len(queue) \in Nat /\ DOMAIN queue = 1..Len(queue)
      /\ DOMAIN more = 1..(Len(queue) + 1) /\ Len(more) = Len(queue) + 1
      /\ more[Len(queue) + 1] = f
      /\ \A i \in 1..Len(queue) : more[i] = queue[i]
  BY <1>1, Grown
<1> HIDE DEF f, more, on
<1>4. ASSUME NEW t, NEW m, NEW n \in 0..Len(queue), Somewhere(list, held, queue, n, t, m)
      PROVE  Somewhere(list, held, more, n, t, m) /\ Somewhere(list, held, more, n + 1, t, m)
  <2>1. \A p \in 1..n : p \in 1..Len(queue) /\ p \in 1..(n + 1) /\ more[p] = queue[p]
    BY <1>3
  <2> QED
    BY <1>4, <2>1 DEF Somewhere, QueuedIn
<1>5. ASSUME NEW m \in 1..(ticks[s.track].count + 1)
      PROVE  Somewhere(list, held, more, Len(queue) + 1, Remap[s.track], m)
  <2>1. CASE m \in 1..ticks[s.track].count
    <3>1. Somewhere(list, held, queue, Len(queue), Remap[s.track], m)
      BY <1>2, <2>1 DEF Whole
    <3> QED
      BY <1>3, <1>4, <3>1
  <2>2. CASE m = ticks[s.track].count + 1
    <3>1. Len(queue) + 1 \in 1..(Len(queue) + 1)
      BY <1>3
    <3> QED
      BY <1>1, <1>3, <2>2, <3>1 DEF Somewhere, QueuedIn
  <2> QED
    BY <1>2, <2>1, <2>2
<1>6. ASSUME NEW q \in DOMAIN more, NEW m \in 1..more[q].seq
      PROVE  Somewhere(list, held, more, q, more[q].track, m)
  <2>1. CASE q \in 1..Len(queue)
    <3>1. more[q] = queue[q] /\ q \in 0..Len(queue)
      BY <1>3, <2>1
    <3>2. Somewhere(list, held, queue, q, queue[q].track, m)
      BY <1>3, <2>1, <3>1 DEF Whole
    <3> QED
      BY <1>4, <3>1, <3>2
  <2>2. CASE q = Len(queue) + 1
    <3>1. more[q] = f
      BY <1>3, <2>2
    <3>2. m \in 1..(ticks[s.track].count + 1)
      BY <1>1, <3>1
    <3> QED
      BY <1>1, <1>5, <2>2, <3>1, <3>2
  <2> QED
    BY <1>3, <2>1, <2>2
<1>7. ASSUME NEW t \in Track, NEW m \in 1..on[t].count
      PROVE  Somewhere(list, held, more, Len(more), Remap[t], m)
  <2>1. CASE t = s.track
    BY <1>2, <1>3, <1>5, <2>1
  <2>2. CASE t # s.track
    <3>1. m \in 1..ticks[t].count
      BY <1>2, <2>2
    <3>2. Somewhere(list, held, queue, Len(queue), Remap[t], m)
      BY <3>1 DEF Whole
    <3> QED
      BY <1>3, <1>4, <3>2
  <2> QED
    BY <2>1, <2>2
<1>8. ListWhole(list) /\ HeldWhole(list, held)
  BY DEF Whole
<1>9. Whole(list, held, more, on)
  BY <1>6, <1>7, <1>8 DEF Whole
<1> QED
  BY <1>9 DEF f, more, on

\* A tfdt moves a track's time and not its count.
LEMMA WholeTfdt ==
  ASSUME NEW list, NEW held, NEW queue, NEW ticks \in [Track -> Progress],
         Whole(list, held, queue, ticks), NEW s \in Step, s.op = "tfdt"
  PROVE  Whole(list, held, queue, SetDecodeTime(ticks, s))
<1>1. \A t \in Track : SetDecodeTime(ticks, s)[t].count = ticks[t].count
  BY StepFields DEF SetDecodeTime, Progress
<1> QED
  BY <1>1 DEF Whole

LEMMA GapInit == Init => GapInv
<1> SUFFICES ASSUME Init PROVE GapInv
  OBVIOUS
<1>1. Emitted = <<>> /\ frames = <<>> /\ bufs = NoBufs /\ clock = StartClock
  BY DEF Init, Emitted
<1>2. ListWhole(Emitted)
  BY <1>1 DEF ListWhole
<1>3. HeldWhole(Emitted, bufs)
  BY <1>1, NothingHeld DEF HeldWhole
<1>4. \A s \in Track : clock[s].count = 0
  BY <1>1 DEF StartClock
<1>5. Whole(Emitted, bufs, frames, clock)
  BY <1>1, <1>2, <1>3, <1>4 DEF Whole
<1> QED
  BY <1>5, SettledInit DEF GapInv

LEMMA GapStep == GapInv /\ [Next]_vars => GapInv'
<1> SUFFICES ASSUME GapInv, [Next]_vars, ~ failed' PROVE Whole(Emitted, bufs, frames, clock)'
  BY SettledStep DEF GapInv
<1>0. Settled /\ TypeOK /\ Started
  BY DEF GapInv, Settled
<1>1. /\ delivered \in Seq(Event) /\ events \in Seq(Event) /\ Emitted \in Seq(Event)
      /\ bufs \in [Track -> TrackBuf] /\ frames \in Seq(Frame) /\ clock \in [Track -> Progress]
  BY <1>0, Lists
<1>2. ~ failed
  <2>1. failed => failed'
    BY <1>0, Moves DEF StaysPut, Opens, Takes, Flushes
  <2> QED
    BY <2>1
<1>3. Whole(Emitted, bufs, frames, clock)
  BY <1>2 DEF GapInv
<1>q. ASSUME UNCHANGED <<delivered, events, bufs, frames, clock>>
      PROVE  Whole(Emitted, bufs, frames, clock)'
  BY <1>3, <1>q DEF Emitted
<1>4. CASE \E n \in 0..(BoxParts * Len(stream)) : Feed(n)
  BY <1>4, <1>q DEF Feed, minting, gop, history
<1>5. CASE FeedReturn
  <2>1. delivered' = delivered \o events /\ events' = <<>> /\ UNCHANGED <<bufs, frames, clock>>
    BY <1>5 DEF FeedReturn, gop, minting
  <2>2. Emitted' = Emitted
    BY <1>1, <2>1 DEF Emitted
  <2> QED
    BY <1>3, <2>1, <2>2
<1>6. CASE SkipBox \/ HoldMoof
  BY <1>6, <1>q DEF SkipBox, HoldMoof, minting, gop, history
<1>7. CASE BadBox \/ DataOutside
  BY <1>7 DEF BadBox, DataOutside, Fail
<1>8. CASE ReadMoov
  <2> DEFINE e == [type |-> "init", catalog |-> catalog']
  <2>1. /\ events' = Append(events, e) /\ delivered' = delivered /\ UNCHANGED <<bufs, frames, clock>>
    BY <1>8 DEF ReadMoov, gop, history, minting
  <2>2. Emitted' = Append(Emitted, e)
    BY <1>1, <2>1 DEF Emitted
  <2>3. e \in Event
    BY <1>0, TypeStep, <1>8 DEF TypeOK, Event
  <2>4. \A t \in Track : FramesIn(e, t) = <<>>
    BY DEF FramesIn
  <2> HIDE DEF e
  <2>5. Whole(Append(Emitted, e), bufs, frames, clock)
    BY <1>1, <1>3, <2>3, <2>4, WholeEmitInit
  <2> QED
    BY <2>1, <2>2, <2>5
<1>9. CASE OpenMdat
  BY <1>0, <1>9, <1>q DEF OpenMdat, BoxReady, Started, gop, history
<1>10. CASE ReadTfdt
  <2>1. ThisStep \in Step
    BY <1>0, <1>10, ThisStepType DEF ReadTfdt
  <2>2. ThisStep.op = "tfdt" /\ clock' = SetDecodeTime(clock, ThisStep)
        /\ UNCHANGED <<delivered, events, bufs, frames>>
    BY <1>10 DEF ReadTfdt, gop, history
  <2>3. Whole(Emitted, bufs, frames, SetDecodeTime(clock, ThisStep))
    BY <1>1, <1>3, <2>1, <2>2, WholeTfdt
  <2> QED
    BY <2>2, <2>3 DEF Emitted
<1>11. CASE StartTrun
  BY <1>11, <1>q DEF StartTrun, gop, history
<1>12. CASE MintSample
  <2> DEFINE data == <<next, cursor.pos>>
  <2>1. ThisStep \in Step
    BY <1>0, <1>12, ThisStepType DEF MintSample
  <2>2. /\ ThisStep.op = "sample" /\ clock' = Advance(clock, ThisStep)
        /\ frames' = Append(frames, MintFrame(clock, ThisStep, data))
        /\ UNCHANGED <<delivered, events, bufs>>
    BY <1>12 DEF MintSample, gop, history
  <2>3. data \in Nat \X Int
    BY <1>0, StreamType DEF TypeOK
  <2>4. Whole(Emitted, bufs, Append(frames, MintFrame(clock, ThisStep, data)), Advance(clock, ThisStep))
    BY <1>1, <1>3, <2>1, <2>2, <2>3, WholeMint
  <2> QED
    BY <2>2, <2>4 DEF Emitted
<1>13. CASE AllMinted \/ DrainMdat
  BY <1>13, <1>q DEF AllMinted, DrainMdat, minting, gop, history
<1>14. CASE RecordNext
  <2> DEFINE f == Head(frames)
  <2>1. frames # <<>> /\ frames' = Tail(frames) /\ clock' = clock
    BY <1>14 DEF RecordNext
  <2>2. Cuts(f) \/ Adds(f)
    BY <1>0, <1>14, RecordMoves
  <2>3. CASE Cuts(f)
    <3>1. Whole(WithGop(Emitted), NoBufs, frames, clock)
      BY <1>0, <1>1, <1>3, WholeCut
    <3>2. Whole(WithGop(Emitted), RecordFrame(NoBufs, f), Tail(frames), clock)
      BY <1>1, <2>1, <3>1, NoBufsType, WholeRecord
    <3>3. Emitted' = WithGop(Emitted) /\ bufs' = RecordFrame(NoBufs, f)
      BY <2>3 DEF Cuts
    <3> QED
      BY <2>1, <3>2, <3>3
  <2>4. CASE Adds(f)
    <3>1. Whole(Emitted, RecordFrame(bufs, f), Tail(frames), clock)
      BY <1>1, <1>3, <2>1, WholeRecord
    <3>2. Emitted' = Emitted /\ bufs' = RecordFrame(bufs, f)
      BY <2>4 DEF Adds
    <3> QED
      BY <2>1, <3>1, <3>2
  <2> QED
    BY <2>2, <2>3, <2>4
<1>15. CASE Flush
  <2>1. UNCHANGED <<frames, clock, events>> /\ events = <<>>
    BY <1>0, <1>15 DEF Flush, minting, Started
  <2>2. Emitted = delivered
    BY <1>1, <2>1 DEF Emitted
  <2>3. CASE streaming
    <3>1. delivered' = WithGop(delivered) /\ bufs' = NoBufs
      BY <1>15, <2>3 DEF Flush
    <3>2. WithGop(delivered) \in Seq(Event)
      <4>1. WithGop(Emitted) \in Seq(Event)
        <5>1. Settled /\ Emitted \in Seq(Event) /\ CutGop \in Event
          BY <1>0, <1>1, CutGopIs
        <5>2. Append(Emitted, CutGop) \in Seq(Event)
          BY <5>1, Grown
        <5> QED
          BY <5>1, <5>2, WithGopIs
      <4> QED
        BY <2>2, <4>1
    <3>3. Emitted' = WithGop(Emitted)
      BY <2>1, <2>2, <3>1, <3>2 DEF Emitted
    <3>4. Whole(WithGop(Emitted), NoBufs, frames, clock)
      BY <1>0, <1>1, <1>3, WholeCut
    <3> QED
      BY <2>1, <3>1, <3>3, <3>4
  <2>4. CASE ~ streaming
    BY <1>15, <2>1, <2>4, <1>q DEF Flush
  <2> QED
    BY <2>3, <2>4
<1>16. CASE UNCHANGED vars
  BY <1>16, <1>q DEF vars, minting, gop, history
<1> QED
  BY <1>4, <1>5, <1>6, <1>7, <1>8, <1>9, <1>10, <1>11, <1>12, <1>13, <1>14, <1>15, <1>16 DEF Next, Run

\* No gap in what is emitted of a track, until a call fails: what a clock has
\* counted is emitted, buffered or queued, the earlier of it no later, and a cut
\* takes the whole buffer (flush_segment in push.rs).
THEOREM NoGaps == Spec => []GapFree
<1>1. GapInv => GapFree
  BY DEF GapInv, Whole, ListWhole, GapFree
<1> QED
  BY <1>1, GapInit, GapStep, PTL DEF Spec

-----------------------------------------------------------------------------
(* What a call leaves unread.                                              *)

LEMMA UnreadInit == Init => NothingLeftToRead
<1> SUFFICES ASSUME Init, next <= Len(stream) PROVE ~ recv >= BoxParts * next
  BY DEF NothingLeftToRead
<1>1. recv = 0 /\ next = 1 /\ BoxParts \in Nat \ {0}
  BY StreamAssumption DEF Init
<1>2. BoxParts * next = BoxParts
  BY <1>1
<1> QED
  BY <1>1, <1>2

LEMMA UnreadStep == NothingLeftToRead /\ [Next]_vars => NothingLeftToRead'
<1> SUFFICES ASSUME NothingLeftToRead, [Next]_vars, pc' = "idle", ~ failed' PROVE NothingLeftToRead'
  BY DEF NothingLeftToRead
<1>1. CASE FeedReturn
  BY <1>1 DEF FeedReturn, NothingLeftToRead, Complete, input
<1>2. CASE Flush
  BY <1>2 DEF Flush, NothingLeftToRead, input
<1>3. CASE UNCHANGED vars
  BY <1>3 DEF vars, NothingLeftToRead, input, history
<1>4. CASE BadBox \/ DataOutside
  BY <1>4 DEF BadBox, DataOutside, Fail
<1>5. CASE (\E n \in 0..(BoxParts * Len(stream)) : Feed(n)) \/ SkipBox \/ ReadMoov \/ HoldMoof
             \/ OpenMdat \/ ReadTfdt \/ StartTrun \/ MintSample \/ AllMinted \/ RecordNext \/ DrainMdat
  BY <1>5 DEF Feed, SkipBox, ReadMoov, HoldMoof, OpenMdat, ReadTfdt, StartTrun, MintSample,
     AllMinted, RecordNext, DrainMdat, BoxReady, MoreSteps
<1> QED
  BY <1>1, <1>2, <1>3, <1>4, <1>5 DEF Next, Run

\* A call of feed() that succeeds returns only at a box whose bytes have not all
\* arrived (the loop of feed() in push.rs), and flush() reads nothing.
THEOREM AllRead == Spec => []NothingLeftToRead
BY UnreadInit, UnreadStep, PTL DEF Spec

-----------------------------------------------------------------------------
(* The push segmenter implements the pull segmenter.                       *)

\* Where the push reader stands while the caller keeps its bargain: the moof it
\* holds is the box before the next one, and once streaming the Init is out.
MapInv ==
  /\ Settled
  /\ NothingLeftToRead
  /\ pending # 0 => next = pending + 1 /\ stream[pending].ok
  /\ pc = "mint" => cursor.moof + 1 = next
  /\ pc \in {"mint", "record"} => pending = 0
  /\ ~ failed /\ streaming => Emitted # <<>>

-----------------------------------------------------------------------------
(* The operators of the pull segmenter are those of the push segmenter.    *)

LEMMA SameOperators ==
  /\ Pull!StartClock = StartClock /\ Pull!NoBufs = NoBufs
  /\ \A c : Pull!RemapCatalog(c) = RemapCatalog(c)
  /\ \A c, s : Pull!SetDecodeTime(c, s) = SetDecodeTime(c, s)
  /\ \A c, s : Pull!Advance(c, s) = Advance(c, s)
  /\ \A s : Pull!TrunStart(s) = TrunStart(s)
  /\ \A s, at, len : Pull!InMdat(s, at, len) = InMdat(s, at, len)
  /\ \A c, s, d : Pull!MintFrame(c, s, d) = MintFrame(c, s, d)
  /\ \A b, f : Pull!RecordFrame(b, f) = RecordFrame(b, f)
  /\ \A c, b, n, f : Pull!Boundary(c, b, n, f) = Boundary(c, b, n, f)
  /\ \A c, f : Pull!IsVideoKeyframe(c, f) = IsVideoKeyframe(c, f)
  /\ \A b : Pull!Present(b) = Present(b)
  /\ \A b, n : Pull!GopOf(b, n) = GopOf(b, n)
<1>1. Pull!StartClock = StartClock /\ Pull!NoBufs = NoBufs
  BY DEF Pull!StartClock, StartClock, Pull!NoBufs, NoBufs, Pull!EmptyBuf, EmptyBuf
<1>2. \A c : Pull!RemapCatalog(c) = RemapCatalog(c)
  BY DEF Pull!RemapCatalog, RemapCatalog
<1>3. \A c, s : Pull!SetDecodeTime(c, s) = SetDecodeTime(c, s)
  BY DEF Pull!SetDecodeTime, SetDecodeTime
<1>4. \A c, s : Pull!Advance(c, s) = Advance(c, s)
  BY DEF Pull!Advance, Advance
<1>5. \A s : Pull!TrunStart(s) = TrunStart(s)
  BY DEF Pull!TrunStart, TrunStart
<1>6. \A s, at, len : Pull!InMdat(s, at, len) = InMdat(s, at, len)
  BY DEF Pull!InMdat, InMdat
<1>7. \A c, s, d : Pull!MintFrame(c, s, d) = MintFrame(c, s, d)
  BY DEF Pull!MintFrame, MintFrame
<1>8. \A b, f : Pull!RecordFrame(b, f) = RecordFrame(b, f)
  BY DEF Pull!RecordFrame, RecordFrame, Pull!FrameLen, FrameLen, Pull!MdatHeader, MdatHeader
<1>9. \A c, f : Pull!IsVideoKeyframe(c, f) = IsVideoKeyframe(c, f)
  BY DEF Pull!IsVideoKeyframe, IsVideoKeyframe
<1>10. \A b : Pull!Present(b) = Present(b)
  BY DEF Pull!Present, Present
<1>11. \A c, b, n, f : Pull!Boundary(c, b, n, f) = Boundary(c, b, n, f)
  BY <1>9, <1>10 DEF Pull!Boundary, Boundary, Pull!AudioOnlyBoundary, AudioOnlyBoundary
<1>12. \A b, t : Pull!SegmentOf(b, t) = SegmentOf(b, t)
  BY DEF Pull!SegmentOf, SegmentOf
<1>13. \A b, n : Pull!GopOf(b, n) = GopOf(b, n)
  BY <1>10, <1>12 DEF Pull!GopOf, GopOf, Pull!NoSegment, NoSegment
<1> QED
  BY <1>1, <1>2, <1>3, <1>4, <1>5, <1>6, <1>7, <1>8, <1>9, <1>10, <1>11, <1>13

-----------------------------------------------------------------------------
(* Where the push reader stands.                                           *)

LEMMA CallerSteps == CallerNext => Next
<1>1. FeedMore => Next
  <2> SUFFICES ASSUME NEW n \in 1..(BoxParts * Len(stream)), Feed(n) PROVE Next
    BY DEF FeedMore
  <2>1. n \in 0..(BoxParts * Len(stream))
    OBVIOUS
  <2> QED
    BY <2>1 DEF Next
<1> QED
  BY <1>1 DEF CallerNext, FlushLast, Next

LEMMA PairedBoxes ==
  ASSUME TypeOK, \A s \in Streams : Paired(s)
  PROVE  /\ Len(stream) \in Nat /\ next \in 1..(Len(stream) + 1) /\ pending \in 0..Len(stream)
         /\ \A i \in 1..Len(stream) : /\ stream[i].kind # "open"
                                      /\ stream[i].kind = "mdat" => ~ stream[i].large
                                      /\ stream[i].kind = "moof" => i < Len(stream) /\ stream[i + 1].kind = "mdat"
<1>1. Len(stream) \in Nat /\ DOMAIN stream = 1..Len(stream)
  BY StreamType
<1> QED
  BY <1>1 DEF TypeOK, Paired

LEMMA MapInit == Init => MapInv
BY SettledInit, UnreadInit DEF Init, MapInv

\* The box after a moof that is held is its mdat.
LEMMA HeldThenMdat ==
  ASSUME MapInv, \A s \in Streams : Paired(s), pending # 0
  PROVE  /\ pending \in 1..Len(stream) /\ pending < Len(stream) /\ next = pending + 1
         /\ stream[pending].kind = "moof" /\ stream[pending].ok /\ stream[next].kind = "mdat"
<1>1. pending \in 1..Len(stream) /\ stream[pending].kind = "moof"
  BY PairedBoxes DEF MapInv, Settled, TypeOK
<1> QED
  BY <1>1, PairedBoxes DEF MapInv, Settled

LEMMA MapStep ==
  ASSUME \A s \in Streams : Paired(s)
  PROVE  MapInv /\ [CallerNext]_vars => MapInv'
<1> SUFFICES ASSUME MapInv, [CallerNext]_vars PROVE MapInv'
  OBVIOUS
<1>0. [Next]_vars
  BY CallerSteps
<1>1. Settled' /\ NothingLeftToRead'
  BY <1>0, SettledStep, UnreadStep DEF MapInv
<1>2. (~ failed /\ streaming => Emitted # <<>>)'
  <2>1. ASSUME StaysPut PROVE (~ failed /\ streaming => Emitted # <<>>)'
    BY <2>1 DEF StaysPut, MapInv
  <2>2. ASSUME Opens PROVE Emitted' # <<>>
    BY <2>2, Lists, Grown DEF Opens, MapInv
  <2>3. Emitted # <<>> => WithGop(Emitted) # <<>>
    <3>1. Emitted \in Seq(Event) /\ CutGop \in Event
      BY Lists, CutGopIs DEF MapInv
    <3>2. Append(Emitted, CutGop) # <<>>
      BY <3>1, Grown
    <3> QED
      BY <3>2, WithGopIs DEF MapInv
  <2>4. ASSUME Flushes PROVE (~ failed /\ streaming => Emitted # <<>>)'
    BY <2>3, <2>4 DEF Flushes, MapInv
  <2>5. ASSUME NEW f, Takes(f), Cuts(f) \/ Adds(f) PROVE (~ failed /\ streaming => Emitted # <<>>)'
    BY <2>3, <2>5 DEF Takes, Cuts, Adds, MapInv
  <2> QED
    BY <1>0, <2>1, <2>2, <2>4, <2>5, Moves DEF MapInv
<1>3. /\ (pending # 0 => next = pending + 1 /\ stream[pending].ok)'
      /\ (pc = "mint" => cursor.moof + 1 = next)'
      /\ (pc \in {"mint", "record"} => pending = 0)'
  <2>q. ASSUME UNCHANGED <<stream, next, pending>>,
               pc' \notin {"mint", "record"} \/ UNCHANGED <<pc, cursor>>
        PROVE  /\ (pending # 0 => next = pending + 1 /\ stream[pending].ok)'
               /\ (pc = "mint" => cursor.moof + 1 = next)'
               /\ (pc \in {"mint", "record"} => pending = 0)'
    BY <2>q DEF MapInv
  <2>1. CASE FeedMore \/ FlushLast
    BY <2>1, <2>q DEF FeedMore, Feed, FlushLast, Flush, input, reader
  <2>2. CASE FeedReturn
    BY <2>2, <2>q DEF FeedReturn, input, reader
  <2>3. CASE SkipBox
    <3>1. pending = 0
      BY <2>3, HeldThenMdat DEF SkipBox, ThisBox, MapInv, Settled, Started
    <3>2. pending' = pending /\ pc' = "scan"
      BY <2>3 DEF SkipBox, BoxReady, reader
    <3> QED
      BY <3>1, <3>2
  <2>4. CASE BadBox \/ DataOutside
    BY <2>4, <2>q DEF BadBox, DataOutside, Fail, input, reader
  <2>5. CASE ReadMoov
    <3>1. pending = 0 /\ pending' = pending /\ pc' = "scan"
      BY <2>5 DEF ReadMoov, BoxReady, MapInv, Settled, Started
    <3> QED
      BY <3>1
  <2>6. CASE HoldMoof
    BY <2>6 DEF HoldMoof, BoxReady, ThisBox, input
  <2>7. CASE OpenMdat
    BY <2>7, HeldThenMdat DEF OpenMdat
  <2>8. CASE ReadTfdt \/ StartTrun \/ MintSample
    <3>1. cursor'.moof = cursor.moof
      BY <2>8 DEF ReadTfdt, StartTrun, MintSample, MapInv, Settled, TypeOK
    <3> QED
      BY <2>8, <3>1 DEF ReadTfdt, StartTrun, MintSample, MoreSteps, input, reader, MapInv
  <2>9. CASE AllMinted \/ RecordNext
    BY <2>9 DEF AllMinted, RecordNext, input, reader, MapInv
  <2>10. CASE DrainMdat
    BY <2>10 DEF DrainMdat, reader, MapInv
  <2>11. CASE UNCHANGED vars
    BY <2>11, <2>q DEF vars, input, reader, minting
  <2> QED
    BY <2>1, <2>2, <2>3, <2>4, <2>5, <2>6, <2>7, <2>8, <2>9, <2>10, <2>11 DEF CallerNext, Run
<1> QED
  BY <1>1, <1>2, <1>3 DEF MapInv

-----------------------------------------------------------------------------
(* The GoPs emitted.                                                       *)

LEMMA GopsAreSeq ==
  ASSUME NEW list \in Seq(Event), NEW S,
         \A i \in 1..(Len(list) - 1) : list[i + 1].gop \in S
  PROVE  list # <<>> => GopsOf(list) \in Seq(S) /\ Len(GopsOf(list)) = Len(list) - 1
<1>1. list # <<>> => Len(list) - 1 \in Nat
  BY LenProperties, EmptySeq
<1> QED
  BY <1>1 DEF GopsOf

LEMMA GopsAppend ==
  ASSUME NEW list \in Seq(Event), NEW e \in Event, list # <<>>
  PROVE  GopsOf(Append(list, e)) = Append(GopsOf(list), e.gop)
<1> DEFINE n == Len(list)
           S == {list[i + 1].gop : i \in 1..(n - 1)} \cup {e.gop}
           more == Append(list, e)
           gops == GopsOf(list)
           all  == Append(gops, e.gop)
<1>1. n \in Nat /\ n - 1 \in Nat
  BY LenProperties, EmptySeq
<1>2. gops \in Seq(S) /\ Len(gops) = n - 1
  <2>1. \A i \in 1..(n - 1) : list[i + 1].gop \in S
    OBVIOUS
  <2> HIDE DEF S
  <2> QED
    BY <2>1, GopsAreSeq
<1>3. /\ more \in Seq(Event) /\ Len(more) = n + 1 /\ more[n + 1] = e
      /\ \A i \in 1..n : more[i] = list[i]
  BY AppendProperties
<1>4. /\ all \in Seq(S) /\ Len(all) = n /\ all[n] = e.gop
      /\ \A i \in 1..(n - 1) : all[i] = gops[i]
  BY <1>1, <1>2, AppendProperties
<1>5. /\ DOMAIN GopsOf(more) = 1..n
      /\ \A i \in 1..n : GopsOf(more)[i] = more[i + 1].gop
      /\ \A i \in 1..(n - 1) : gops[i] = list[i + 1].gop
  BY <1>1, <1>3 DEF GopsOf
<1> HIDE DEF n, S, more, gops, all
<1>6. \A i \in 1..n : GopsOf(more)[i] = all[i]
  <2> TAKE i \in 1..n
  <2>1. CASE i \in 1..(n - 1)
    <3>1. i + 1 \in 1..n
      BY <1>1, <2>1
    <3> QED
      BY <1>3, <1>4, <1>5, <2>1, <3>1
  <2>2. CASE i = n
    BY <1>3, <1>4, <1>5, <2>2
  <2> QED
    BY <1>1, <2>1, <2>2
<1>7. GopsOf(more) = [i \in 1..n |-> GopsOf(more)[i]]
  BY <1>1, <1>3 DEF GopsOf
<1>8. all = [i \in 1..n |-> all[i]]
  BY <1>4
<1> QED
  BY <1>6, <1>7, <1>8 DEF more, gops, all

LEMMA FirstGops ==
  ASSUME NEW e \in Event
  PROVE  GopsOf(<<>>) = <<>> /\ GopsOf(Append(<<>>, e)) = <<>>
<1>1. Len(<<>>) = 0 /\ Len(Append(<<>>, e)) = 1
  BY AppendProperties, EmptySeq
<1>2. 1..(0 - 1) = {} /\ 1..(1 - 1) = {}
  OBVIOUS
<1>3. \A f : [i \in {} |-> f] = <<>>
  OBVIOUS
<1> QED
  BY <1>1, <1>2, <1>3 DEF GopsOf

\* What is cut is handed to the callback.
LEMMA GopsCut ==
  ASSUME MapInv, Emitted # <<>>
  PROVE  GopsOf(WithGop(Emitted)) = Pull!WithGop(GopsOf(Emitted))
<1>1. Emitted \in Seq(Event) /\ CutGop \in Event
  BY Lists, CutGopIs DEF MapInv
<1>2. Present(bufs) # {} => GopsOf(WithGop(Emitted)) = Append(GopsOf(Emitted), GopOf(bufs, segNo + 1))
  BY <1>1, GopsAppend, WithGopIs DEF MapInv, CutGop
<1>3. Present(bufs) = {} => WithGop(Emitted) = Emitted
  BY WithGopIs DEF MapInv
<1> QED
  BY <1>2, <1>3, SameOperators DEF Pull!WithGop

-----------------------------------------------------------------------------
(* The steps.                                                              *)

\* What the mapping gives while the caller is at work.
LEMMA Standing ==
  ASSUME MapInv, ~ failed, flushes = 0
  PROVE  /\ PullPc = IF ~ streaming THEN "moov" ELSE IF pc = "mint" THEN "mint" ELSE "read"
         /\ pc \in {"mint", "record"} => PullNext = next + 1 /\ streaming
         /\ pc \in {"idle", "scan"} => /\ PullNext = IF pending # 0 THEN pending ELSE next
                                       /\ frames = <<>>
BY DEF MapInv, Settled, Started, PullPc, PullNext

\* Steps that move nothing the pull segmenter has.
LEMMA Stutters ==
  ASSUME \A s \in Streams : Paired(s), MapInv, ~ failed, flushes = 0, ~ failed',
         FeedMore \/ FeedReturn \/ HoldMoof \/ DrainMdat
  PROVE  UNCHANGED Pull!vars
<1>1. ASSUME UNCHANGED <<stream, catalog, cursor, frames, clock, bufs, segNo, seen,
                         streaming, failed, flushes, Emitted>>,
             pc # "mint", pc' # "mint", PullNext' = PullNext
      PROVE  UNCHANGED Pull!vars
  <2>1. PullPc' = PullPc
    BY <1>1 DEF PullPc
  <2> QED
    BY <1>1, <2>1 DEF Pull!vars, GopsOf
<1>2. CASE FeedMore
  <2>1. /\ pc = "idle" /\ pc' = "scan"
        /\ UNCHANGED <<stream, catalog, cursor, frames, clock, bufs, segNo, seen, streaming,
                       failed, flushes, delivered, events, next, pending>>
    BY <1>2 DEF FeedMore, Feed, reader, minting, gop, history
  <2>2. PullNext' = PullNext /\ Emitted' = Emitted
    BY <2>1 DEF PullNext, Emitted
  <2> QED
    BY <1>1, <2>1, <2>2
<1>3. CASE FeedReturn
  <2>1. /\ pc = "scan" /\ pc' = "idle" /\ delivered' = delivered \o events /\ events' = <<>>
        /\ UNCHANGED <<stream, catalog, cursor, frames, clock, bufs, segNo, seen, streaming,
                       failed, flushes, next, pending>>
    BY <1>3 DEF FeedReturn, input, reader, minting, gop
  <2>2. Emitted' = Emitted
    BY <2>1, Lists DEF Emitted, MapInv
  <2>3. PullNext' = PullNext
    BY <2>1 DEF PullNext
  <2> QED
    BY <1>1, <2>1, <2>2, <2>3
<1>4. CASE HoldMoof
  <2>1. /\ pc = "scan" /\ pc' = "scan" /\ next \in 1..Len(stream) /\ stream[next].kind = "moof"
        /\ pending' = next
        /\ UNCHANGED <<stream, catalog, cursor, frames, clock, bufs, segNo, seen, streaming,
                       failed, flushes, delivered, events>>
    BY <1>4, PairedBoxes DEF HoldMoof, BoxReady, ThisBox, input, minting, gop, history, MapInv, Settled
  <2>2. pending = 0
    BY <2>1, HeldThenMdat
  <2>3. PullNext' = PullNext /\ Emitted' = Emitted
    BY <2>1, <2>2 DEF PullNext, Emitted
  <2> QED
    BY <1>1, <2>1, <2>3
<1>5. CASE DrainMdat
  <2>1. /\ pc = "record" /\ pc' = "scan" /\ pending = 0 /\ pending' = 0 /\ next' = next + 1
        /\ UNCHANGED <<stream, catalog, cursor, frames, clock, bufs, segNo, seen, streaming,
                       failed, flushes, delivered, events>>
    BY <1>5 DEF DrainMdat, input, reader, minting, gop, history, MapInv
  <2>2. PullNext' = PullNext /\ Emitted' = Emitted
    BY <2>1 DEF PullNext, Emitted
  <2> QED
    BY <1>1, <2>1, <2>2
<1> QED
  BY <1>2, <1>3, <1>4, <1>5

\* The moov and the boxes that are skipped are read alike.
LEMMA BoxSteps ==
  ASSUME \A s \in Streams : Paired(s), MapInv, ~ failed, flushes = 0
  PROVE  /\ ReadMoov => Pull!ReadMoov
         /\ SkipBox => Pull!SkipBox
         /\ OpenMdat => Pull!ReadPair
<1>0. ASSUME BoxReady
      PROVE  /\ next \in 1..Len(stream) /\ next <= Len(stream) /\ stream[next].kind # "open"
             /\ frames = <<>> /\ pc = "scan"
  BY <1>0, PairedBoxes DEF BoxReady, MapInv, Settled, Started
<1>1. ASSUME ReadMoov PROVE Pull!ReadMoov
  <2>1. /\ BoxReady /\ ~ streaming /\ streaming' /\ stream[next].kind = "moov" /\ stream[next].ok
        /\ catalog' = RemapCatalog(stream[next].catalog) /\ next' = next + 1 /\ pc' = pc
        /\ events' = Append(events, [type |-> "init", catalog |-> catalog']) /\ delivered' = delivered
        /\ UNCHANGED <<stream, cursor, frames, clock, bufs, segNo, seen, pending, failed, flushes>>
    BY <1>1 DEF ReadMoov, ThisBox, input, minting, gop, history
  <2>2. pending = 0 /\ Emitted = <<>>
    BY <2>1 DEF MapInv, Settled, Started
  <2>3. PullNext = next /\ PullNext' = next + 1 /\ PullPc = "moov" /\ PullPc' = "read"
    BY <1>0, <2>1, <2>2 DEF PullNext, PullPc
  <2>4. GopsOf(Emitted)' = GopsOf(Emitted)
    <3>1. [type |-> "init", catalog |-> catalog'] \in Event
      <4>1. stream[next] \in Box /\ stream[next].kind = "moov"
        BY <1>0, <2>1, StreamType DEF MapInv, Settled
      <4>2. catalog' \in Catalog
        BY <2>1, <4>1, BoxFields, RemapCatalogType
      <4> QED
        BY <4>2 DEF Event
    <3>2. Emitted' = Append(Emitted, [type |-> "init", catalog |-> catalog'])
      BY <2>1, <3>1, Lists DEF Emitted, MapInv
    <3> QED
      BY <2>2, <3>1, <3>2, FirstGops
  <2> QED
    BY <1>0, <2>1, <2>3, <2>4, SameOperators DEF Pull!ReadMoov, Pull!AtEnd, Pull!ThisBox
<1>2. ASSUME SkipBox PROVE Pull!SkipBox
  <2>1. /\ BoxReady /\ stream[next].kind # IF streaming THEN "moof" ELSE "moov"
        /\ next' = next + 1
        /\ UNCHANGED <<stream, catalog, cursor, frames, clock, bufs, segNo, seen, streaming, pc,
                       pending, failed, flushes, delivered, events>>
    BY <1>2 DEF SkipBox, ThisBox, input, reader, minting, gop, history
  <2>2. pending = 0
    BY <1>2, HeldThenMdat DEF SkipBox, ThisBox, MapInv, Settled, Started
  <2>3. /\ PullNext = next /\ PullNext' = next + 1
        /\ PullPc = IF streaming THEN "read" ELSE "moov"
        /\ PullPc' = PullPc /\ GopsOf(Emitted)' = GopsOf(Emitted)
    BY <1>0, <2>1, <2>2 DEF PullNext, PullPc, Emitted, GopsOf
  <2> QED
    BY <1>0, <2>1, <2>3 DEF Pull!SkipBox, Pull!AtEnd, Pull!ThisBox
<1>3. ASSUME OpenMdat PROVE Pull!ReadPair
  <2>1. /\ BoxReady /\ streaming /\ pending # 0 /\ pending' = 0 /\ pc' = "mint"
        /\ cursor' = [moof |-> pending, step |-> 1, pos |-> 0] /\ frames' = <<>>
        /\ UNCHANGED <<stream, catalog, clock, bufs, segNo, seen, streaming, next,
                       failed, flushes, delivered, events>>
    BY <1>3 DEF OpenMdat, input, gop, history
  <2>2. /\ pending < Len(stream) /\ next = pending + 1 /\ pending \in 1..Len(stream)
        /\ stream[pending].kind = "moof" /\ stream[pending].ok /\ stream[pending + 1].kind = "mdat"
    BY <2>1, HeldThenMdat
  <2>3. /\ PullNext = pending /\ PullNext' = pending + 2
        /\ PullPc = "read" /\ PullPc' = "mint" /\ GopsOf(Emitted)' = GopsOf(Emitted)
    <3>1. next + 1 = pending + 2
      BY <2>2
    <3> QED
      BY <1>0, <2>1, <3>1 DEF PullNext, PullPc, Emitted, GopsOf
  <2>4. ~ pending > Len(stream)
    BY <2>2, PairedBoxes DEF MapInv, Settled
  <2> QED
    BY <1>0, <2>1, <2>2, <2>3, <2>4
       DEF Pull!ReadPair, Pull!Reading, Pull!AtEnd, Pull!ThisBox, Pull!MdatFollows
<1> QED
  BY <1>1, <1>2, <1>3

\* Inside a pair: the samples are minted alike, from the same bytes.
LEMMA MintSteps ==
  ASSUME \A s \in Streams : Paired(s), MapInv, ~ failed, flushes = 0
  PROVE  /\ ReadTfdt => Pull!ReadTfdt
         /\ StartTrun => Pull!StartTrun
         /\ MintSample => Pull!MintSample
         /\ AllMinted => Pull!AllMinted
<1>0. ASSUME pc = "mint"
      PROVE  /\ cursor.moof + 1 = next /\ streaming /\ ~ stream[next].large
             /\ PullPc = "mint" /\ PullNext = next + 1
             /\ MoreSteps <=> Pull!MoreSteps
             /\ Steps = Pull!Steps /\ ThisStep = Pull!ThisStep
             /\ Pull!Mdat = ThisBox
             /\ PayloadLen(ThisBox) = ThisBox.len /\ Pull!PayloadStart(ThisBox) = 0
  <2>1. cursor.moof + 1 = next /\ streaming
    BY <1>0 DEF MapInv, Settled, Started
  <2>2. ~ stream[next].large
    <3>1. next \in 1..Len(stream) /\ stream[next].kind = "mdat"
      BY <1>0, PairedBoxes DEF MapInv, Settled, TypeOK
    <3> QED
      BY <3>1, PairedBoxes DEF MapInv, Settled
  <2>3. PullPc = "mint" /\ PullNext = next + 1
    BY <1>0, <2>1 DEF PullPc, PullNext
  <2>4. Steps = Pull!Steps /\ ThisStep = Pull!ThisStep
    BY DEF Steps, Pull!Steps, ThisStep, Pull!ThisStep
  <2>5. MoreSteps <=> Pull!MoreSteps
    BY <1>0, <2>3, <2>4 DEF MoreSteps, Pull!MoreSteps
  <2>6. Pull!Mdat = ThisBox
    BY <2>1 DEF Pull!Mdat, ThisBox
  <2>7. PayloadLen(ThisBox) = ThisBox.len /\ Pull!PayloadStart(ThisBox) = 0
    <3>1. ThisBox.len \in Nat
      <4>1. stream[next] \in Box /\ stream[next].kind = "mdat"
        BY <1>0, StreamType DEF MapInv, Settled, TypeOK
      <4> QED
        BY <4>1, BoxFields DEF ThisBox
    <3> QED
      BY <2>2, <3>1 DEF PayloadLen, Pull!PayloadStart, ThisBox
  <2> QED
    BY <2>1, <2>2, <2>3, <2>4, <2>5, <2>6, <2>7
<1>1. ASSUME pc = "mint", pc' \in {"mint", "record"},
             UNCHANGED <<next, streaming, failed, flushes, delivered, events>>
      PROVE  /\ PullNext' = PullNext /\ GopsOf(Emitted)' = GopsOf(Emitted)
             /\ PullPc' = IF pc' = "mint" THEN "mint" ELSE "read"
  BY <1>0, <1>1 DEF PullNext, PullPc, Emitted, GopsOf
<1>2. ASSUME ReadTfdt PROVE Pull!ReadTfdt
  <2>1. /\ pc = "mint" /\ pc' = "mint" /\ MoreSteps
        /\ UNCHANGED <<stream, next, catalog, streaming, frames, bufs, segNo, seen,
                       failed, flushes, delivered, events>>
    BY <1>2 DEF ReadTfdt, MoreSteps, input, reader, gop, history
  <2> QED
    BY <1>0, <1>1, <1>2, <2>1, SameOperators DEF ReadTfdt, Pull!ReadTfdt
<1>3. ASSUME StartTrun PROVE Pull!StartTrun
  <2>1. /\ pc = "mint" /\ pc' = "mint" /\ MoreSteps
        /\ UNCHANGED <<stream, next, catalog, streaming, frames, clock, bufs, segNo, seen,
                       failed, flushes, delivered, events>>
    BY <1>3 DEF StartTrun, MoreSteps, input, reader, gop, history
  <2> QED
    BY <1>0, <1>1, <1>3, <2>1, SameOperators DEF StartTrun, Pull!StartTrun
<1>4. ASSUME MintSample PROVE Pull!MintSample
  <2>1. /\ pc = "mint" /\ pc' = "mint" /\ MoreSteps
        /\ UNCHANGED <<stream, next, catalog, streaming, bufs, segNo, seen,
                       failed, flushes, delivered, events>>
    BY <1>4 DEF MintSample, MoreSteps, input, reader, gop, history
  <2>2. 0 + cursor.pos = cursor.pos
    BY DEF MapInv, Settled, TypeOK
  <2>3. /\ Pull!InMdat(Pull!ThisStep, cursor.pos, Pull!Mdat.len)
        /\ <<cursor.moof + 1, Pull!PayloadStart(Pull!Mdat) + cursor.pos>> = <<next, cursor.pos>>
    BY <1>0, <1>4, <2>1, <2>2, SameOperators DEF MintSample
  <2> QED
    BY <1>0, <1>1, <1>4, <2>1, <2>3, SameOperators DEF MintSample, Pull!MintSample
<1>5. ASSUME AllMinted PROVE Pull!AllMinted
  <2>1. /\ pc = "mint" /\ pc' = "record"
        /\ UNCHANGED <<stream, next, catalog, streaming, cursor, frames, clock, bufs, segNo, seen,
                       failed, flushes, delivered, events>>
    BY <1>5 DEF AllMinted, input, reader, minting, gop, history
  <2> QED
    BY <1>0, <1>1, <1>5, <2>1 DEF AllMinted, Pull!AllMinted
<1> QED
  BY <1>2, <1>3, <1>4, <1>5

\* A frame is recorded, and the GoP it closes is cut, alike.
LEMMA RecordStep ==
  ASSUME MapInv, ~ failed, flushes = 0, RecordNext
  PROVE  Pull!TakeFrame
<1> DEFINE f == Head(frames)
<1>1. /\ pc = "record" /\ pc' = "record" /\ frames # <<>> /\ frames' = Tail(frames)
      /\ UNCHANGED <<stream, next, catalog, streaming, cursor, clock, failed, flushes>>
  BY DEF RecordNext, input, reader, history
<1>2. streaming /\ Emitted # <<>>
  BY <1>1 DEF MapInv, Settled, Started
<1>3. PullPc = "read" /\ PullPc' = "read" /\ PullNext' = PullNext
  BY <1>1, <1>2 DEF PullPc, PullNext
<1>4. /\ bufs' = RecordFrame(IF Boundary(catalog, bufs, seen, f) THEN NoBufs ELSE bufs, f)
      /\ segNo' = IF Boundary(catalog, bufs, seen, f) THEN segNo + 1 ELSE segNo
      /\ seen' = (seen \/ IsVideoKeyframe(catalog, f))
  BY DEF RecordNext
<1>5. GopsOf(Emitted)' = IF Boundary(catalog, bufs, seen, f) THEN Pull!WithGop(GopsOf(Emitted))
                                                            ELSE GopsOf(Emitted)
  <2>1. Cuts(f) \/ Adds(f)
    BY RecordMoves DEF MapInv
  <2>2. Cuts(f) => GopsOf(Emitted') = GopsOf(WithGop(Emitted))
    BY DEF Cuts
  <2> QED
    BY <1>2, <2>1, <2>2, GopsCut DEF Cuts, Adds
<1> HIDE DEF f
<1> QED
  BY <1>1, <1>3, <1>4, <1>5, SameOperators DEF Pull!TakeFrame, f

\* The flush at the end of the input is the end of the file.
LEMMA FlushStep ==
  ASSUME \A s \in Streams : Paired(s), MapInv, ~ failed, flushes = 0, FlushLast
  PROVE  Pull!EndOfFile \/ Pull!NoMoov
<1>1. /\ pc = "idle" /\ flushes' > 0 /\ recv = BoxParts * Len(stream)
      /\ UNCHANGED <<stream, next, pc, catalog, streaming, pending, cursor, frames, clock, seen, failed, events>>
  BY DEF FlushLast, Flush, input, reader, minting
<1>2. events = <<>> /\ frames = <<>> /\ Emitted = delivered /\ Emitted' = delivered'
  <2>1. events = <<>> /\ frames = <<>> /\ events' = <<>>
    BY <1>1 DEF MapInv, Settled, Started
  <2>2. delivered \in Seq(Event) /\ delivered' \in Seq(Event)
    <3>1. TypeOK'
      BY SettledStep DEF FlushLast, Next, MapInv, Settled
    <3> QED
      BY <3>1, Lists DEF MapInv, TypeOK
  <2> QED
    BY <2>1, <2>2 DEF Emitted
<1>3. next > Len(stream)
  <2> SUFFICES ASSUME ~ next > Len(stream) PROVE FALSE
    OBVIOUS
  <2>1. next \in 1..Len(stream) /\ next <= Len(stream) /\ stream[next].kind # "open" /\ Len(stream) \in Nat
    BY PairedBoxes DEF MapInv, Settled
  <2>2. BoxParts * Len(stream) >= BoxParts * next
    <3>1. \A b, m, n \in Nat : m <= n => b * n >= b * m
      OBVIOUS
    <3> QED
      BY <2>1, <3>1, StreamAssumption
  <2> QED
    BY <1>1, <2>1, <2>2 DEF MapInv, NothingLeftToRead
<1>4. pending = 0
  <2> SUFFICES ASSUME pending # 0 PROVE FALSE
    OBVIOUS
  <2>1. next = pending + 1 /\ pending < Len(stream) /\ Len(stream) \in Nat /\ pending \in Nat
    BY HeldThenMdat, PairedBoxes DEF MapInv, Settled
  <2> QED
    BY <1>3, <2>1
<1>5. PullNext = next /\ PullNext' = next
  BY <1>1, <1>4 DEF PullNext
<1>6. CASE streaming
  <2>1. segNo' = segNo + 1 /\ delivered' = WithGop(delivered) /\ bufs' = NoBufs
    BY <1>6 DEF FlushLast, Flush
  <2>2. PullPc = "read" /\ PullPc' = "done"
    BY <1>1, <1>6, SettledStep DEF PullPc
  <2>3. GopsOf(Emitted)' = Pull!WithGop(GopsOf(Emitted))
    BY <1>2, <1>6, <2>1, GopsCut DEF MapInv
  <2> QED
    BY <1>1, <1>2, <1>3, <1>5, <2>1, <2>2, <2>3, SameOperators DEF Pull!EndOfFile, Pull!AtEnd
<1>7. CASE ~ streaming
  <2>1. UNCHANGED <<segNo, delivered, bufs>>
    BY <1>7 DEF FlushLast, Flush
  <2>2. PullPc = "moov" /\ PullPc' = "error"
    BY <1>1, <1>7 DEF PullPc
  <2>3. GopsOf(Emitted)' = GopsOf(Emitted)
    BY <1>2, <2>1
  <2> QED
    BY <1>1, <1>2, <1>3, <1>5, <2>1, <2>2, <2>3 DEF Pull!NoMoov, Pull!AtEnd, Pull!Error
<1> QED
  BY <1>6, <1>7

LEMMA StepMaps ==
  ASSUME \A s \in Streams : Paired(s), MapInv, [CallerNext]_vars, ~ failed'
  PROVE  [Pull!Next]_(Pull!vars)
<1>1. CASE UNCHANGED vars
  <2>1. UNCHANGED Pull!vars
    BY <1>1 DEF vars, input, reader, minting, gop, history, Pull!vars, PullNext, PullPc, GopsOf, Emitted
  <2> QED
    BY <2>1
<1>2. CASE CallerNext
  <2>0. ~ failed /\ flushes = 0
    BY <1>2 DEF CallerNext
  <2>1. CASE FeedMore \/ FeedReturn \/ HoldMoof \/ DrainMdat
    BY <2>0, <2>1, Stutters
  <2>2. CASE ReadMoov \/ SkipBox \/ OpenMdat
    BY <2>0, <2>2, BoxSteps DEF Pull!Next
  <2>3. CASE ReadTfdt \/ StartTrun \/ MintSample \/ AllMinted
    BY <2>0, <2>3, MintSteps DEF Pull!Next
  <2>4. CASE RecordNext
    BY <2>0, <2>4, RecordStep DEF Pull!Next
  <2>5. CASE FlushLast
    BY <2>0, <2>5, FlushStep DEF Pull!Next
  <2>6. CASE BadBox \/ DataOutside
    BY <2>6 DEF BadBox, DataOutside, Fail
  <2> QED
    BY <1>2, <2>1, <2>2, <2>3, <2>4, <2>5, <2>6 DEF CallerNext, Run
<1> QED
  BY <1>1, <1>2

LEMMA InitMaps == Init => Pull!Init
<1> SUFFICES ASSUME Init PROVE Pull!Init
  OBVIOUS
<1>1. Emitted = <<>> /\ GopsOf(Emitted) = <<>>
  <2>1. Emitted = <<>>
    BY DEF Init, Emitted
  <2>2. Len(<<>>) = 0 /\ 1..(0 - 1) = {} /\ \A f : [i \in {} |-> f] = <<>>
    OBVIOUS
  <2> QED
    BY <2>1, <2>2 DEF GopsOf
<1>2. PullNext = 1 /\ PullPc = "moov"
  BY DEF Init, PullNext, PullPc
<1> QED
  BY <1>1, <1>2, SameOperators DEF Init, Pull!Init, NoCatalog

\* The push segmenter implements the pull segmenter, up to the liveness of its
\* loop: every step of feed() and of the last flush() that does not return an
\* error (push.rs) is a step of segment_fmp4_with_remap (segment.rs), or changes
\* nothing that it has.
THEOREM PushRefinesPull ==
  ASSUME \A s \in Streams : Paired(s)
  PROVE  CallerSpec => Pull!Init /\ [][~ failed' => [Pull!Next]_(Pull!vars)]_vars
<1>1. MapInv /\ [CallerNext]_vars => (~ failed' => [Pull!Next]_(Pull!vars))
  BY StepMaps
<1>2. MapInv /\ [CallerNext]_vars => MapInv'
  BY MapStep
<1> QED
  BY <1>1, <1>2, InitMaps, MapInit, PTL DEF CallerSpec

\* Its consequence for a caller to whom no call returns an error.
COROLLARY PushIsPull ==
  ASSUME \A s \in Streams : Paired(s)
  PROVE  CallerSpec /\ []~ failed => Pull!Init /\ [][Pull!Next]_(Pull!vars)
<1>1. MapInv /\ [CallerNext]_vars /\ ~ failed' => [Pull!Next]_(Pull!vars)
  BY StepMaps
<1>2. MapInv /\ [CallerNext]_vars => MapInv'
  BY MapStep
<1> QED
  BY <1>1, <1>2, InitMaps, MapInit, PTL DEF CallerSpec
=============================================================================
