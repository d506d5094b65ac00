------------------------- MODULE EventBuilder_proofs -------------------------
(***************************************************************************)
(* What StreamEventBuilder gives back, for every set of stored streams and *)
(* every place where the sink may fail.                                    *)
(***************************************************************************)
EXTENDS EventBuilder, FiniteSetTheorems, SequenceTheorems, TLAPS

EventType == [type : {"init"}, tracks : SUBSET Track]
             \cup [type : {"segment"}, segs : SUBSET Nat, us : Nat]

\* TracksOf, with what it reads as a parameter.
TrackSet(s, segs) == {s[i].track : i \in segs}

TypeOK ==
  /\ stored \in Inputs
  /\ next \in 1..(Len(stored) + 1)
  /\ emittedTids \in SUBSET Track
  /\ initEmitted \in BOOLEAN
  /\ pendingNew \in BOOLEAN
  /\ cur \in [segs : SUBSET Nat, us : Nat]
  /\ lastTid \in Nat
  /\ out \in Seq(EventType)
  /\ status \in {"run", "done", "error"}
  /\ DOMAIN running = TrackSet(stored, 1..(next - 1))

Flushed == UNION {out[e].segs : e \in GopEvents}

\* What was pushed is in the events or in the GoP being built, in its order,
\* and the tracks of a GoP differ.
BuildInv ==
  /\ TypeOK
  /\ Flushed \cup cur.segs = 1..(next - 1)
  /\ status = "done" => cur = NoGop /\ next = Len(stored) + 1
  /\ \A i \in cur.segs : stored[i].track <= lastTid
  /\ \A i, j \in cur.segs : stored[i].track = stored[j].track => i = j
  /\ \A e \in GopEvents : \A i \in out[e].segs, j \in cur.segs : i < j
  /\ \A e, f \in GopEvents : e < f => \A i \in out[e].segs, j \in out[f].segs : i < j
  /\ \A e \in GopEvents : \A i, j \in out[e].segs :
       stored[i].track = stored[j].track => i = j

Sent == UNION {TrackSet(stored, out[f].segs) : f \in GopEvents}

Covered(e) ==
  \E i \in 1..(e - 1) :
    /\ out[i].type = "init"
    /\ \A j \in (i + 1)..e : out[j].type = "segment"
    /\ TrackSet(stored, out[e].segs) \subseteq out[i].tracks
    /\ out[i].tracks = UNION {TrackSet(stored, out[f].segs) : f \in GopEvents \cap 1..(i + 1)}

AllCovered == \A e \in GopEvents : Covered(e)

InForce(i) ==
  /\ i \in DOMAIN out /\ i < Len(out)
  /\ out[i].type = "init"
  /\ out[i].tracks = emittedTids
  /\ \A j \in (i + 1)..Len(out) : out[j].type = "segment"
  /\ out[i].tracks = UNION {TrackSet(stored, out[f].segs) : f \in GopEvents \cap 1..(i + 1)}

\* The last Init holds the tracks of all that was sent, the first GoP after it
\* included, and a track it lacks is noted while its GoP is built.
CoverInv ==
  /\ BuildInv
  /\ status = "run" =>
       /\ initEmitted => \E i \in DOMAIN out : InForce(i)
       /\ emittedTids = UNION {TrackSet(stored, out[f].segs) : f \in GopEvents}
       /\ ~ pendingNew => TrackSet(stored, cur.segs) \subseteq emittedTids
  /\ AllCovered

SameGop(i) == {j \in DOMAIN stored : stored[j].gop = stored[i].gop}

\* The GoP being built is the one of the segment last pushed, up to it.
Building ==
  /\ cur # NoGop /\ lastTid = stored[next - 1].track
  /\ cur.segs = {j \in 1..(next - 1) : stored[j].gop = stored[next - 1].gop}

KeptInv ==
  /\ BuildInv
  /\ InStoreOrder /\ CommonTrack =>
       /\ OneEventPerGop
       /\ status = "run" => (next > 1 => Building) /\ (next = 1 => cur = NoGop)

-----------------------------------------------------------------------------
(* The stored segments and the events.                                     *)

LEMMA StoredType ==
  ASSUME stored \in Inputs
  PROVE  /\ Len(stored) \in Nat /\ DOMAIN stored = 1..Len(stored)
         /\ \A i \in DOMAIN stored : /\ stored[i].track \in Track /\ stored[i].track \in Nat
                                     /\ stored[i].scale \in Nat /\ stored[i].dur \in Nat
                                     /\ stored[i].gop \in Nat
<1>1. stored \in Seq(Seg)
  BY BuilderAssumption
<1>2. \A i \in DOMAIN stored : stored[i] \in Seg
  BY <1>1
<1>3. \A s \in Seg : /\ s.track \in Track /\ s.track \in Nat
                     /\ s.scale \in Nat /\ s.dur \in Nat /\ s.gop \in Nat
  BY BuilderAssumption DEF Seg
<1> QED
  BY <1>1, <1>2, <1>3

LEMMA AtNext ==
  ASSUME TypeOK, Pushing
  PROVE  /\ next \in DOMAIN stored /\ next \in Nat /\ 1..(next + 1 - 1) = 1..(next - 1) \cup {next}
         /\ next + 1 \in 1..(Len(stored) + 1)
         /\ ThisSeg.track \in Track /\ ThisSeg.track \in Nat
         /\ ThisSeg.dur \in Nat /\ ThisSeg.scale \in Nat
<1>1. next \in 1..Len(stored) /\ Len(stored) \in Nat
  BY StoredType DEF TypeOK, Pushing
<1> QED
  BY <1>1, StoredType DEF TypeOK, ThisSeg

LEMMA MicrosType ==
  ASSUME NEW ticks \in Nat, NEW scale \in Nat
  PROVE  Micros(ticks, scale) \in Nat
<1>1. CASE scale > 0
  <2>1. (ticks * 1000000) \in Nat
    OBVIOUS
  <2>2. \A n \in Nat, d \in Nat \ {0} : n \div d \in Nat
    OBVIOUS
  <2>3. (ticks * 1000000) \div scale \in Nat
    BY <1>1, <2>1, <2>2
  <2> QED
    BY <1>1, <2>3 DEF Micros
<1>2. CASE ~ scale > 0
  BY <1>2 DEF Micros
<1> QED
  BY <1>1, <1>2

\* flush_gop puts the GoP at the end, after an Init if one is due.
LEMMA Flushing ==
  ASSUME TypeOK, FlushGop(cur)
  PROVE  LET n == Len(out)
             k == IF NeedsInit THEN n + 2 ELSE n + 1
         IN  /\ n \in Nat /\ k \in Nat /\ n < k
             /\ out' \in Seq(EventType)
             /\ DOMAIN out = 1..n /\ Len(out') = k /\ DOMAIN out' = 1..k
             /\ out'[k] = GopEvent(cur)
             /\ NeedsInit => out'[n + 1] = InitEvent
             /\ \A i \in 1..n : out'[i] = out[i]
             /\ GopEvents \subseteq 1..n
             /\ GopEvents' = GopEvents \cup {k}
<1> DEFINE n == Len(out)
           k == IF NeedsInit THEN n + 2 ELSE n + 1
           g == GopEvent(cur)
           a == InitEvent
<1>1. out \in Seq(EventType) /\ n \in Nat /\ k \in Nat /\ n < k /\ DOMAIN out = 1..n
  BY DEF TypeOK
<1>2. g \in EventType /\ g.type = "segment"
  BY DEF TypeOK, GopEvent, EventType
<1>3. a \in EventType /\ a.type = "init"
  <2>1. DOMAIN running \subseteq Track
    <3>1. \A i \in 1..(next - 1) : i \in DOMAIN stored
      BY StoredType DEF TypeOK
    <3> QED
      BY <3>1, StoredType DEF TypeOK, TrackSet
  <2> QED
    BY <2>1 DEF InitEvent, EventType
<1>4. out' = IF NeedsInit THEN out \o <<a, g>> ELSE Append(out, g)
  BY DEF FlushGop
<1> HIDE DEF g, a
<1>5. /\ out' \in Seq(EventType) /\ Len(out') = k /\ DOMAIN out' = 1..k /\ out'[k] = g
      /\ NeedsInit => out'[n + 1] = a
      /\ \A i \in 1..n : out'[i] = out[i]
  <2>1. CASE NeedsInit
    <3>1. out' = out \o <<a, g>> /\ <<a, g>> \in Seq(EventType) /\ Len(<<a, g>>) = 2
      BY <1>2, <1>3, <1>4, <2>1
    <3>2. /\ out' \in Seq(EventType) /\ Len(out') = n + 2
          /\ \A i \in 1..(n + 2) : out'[i] = IF i <= n THEN out[i] ELSE <<a, g>>[i - n]
      BY <1>1, <3>1, ConcatProperties
    <3> QED
      BY <1>1, <2>1, <3>2
  <2>2. CASE ~ NeedsInit
    BY <1>1, <1>2, <1>4, <2>2
  <2> QED
    BY <2>1, <2>2
<1>6. GopEvents \subseteq 1..n
  BY <1>1 DEF GopEvents
<1>7. GopEvents' = GopEvents \cup {k}
  <2>1. \A e \in 1..k : e \in 1..n \/ e = k \/ (NeedsInit /\ e = n + 1)
    BY <1>1
  <2>2. \A e \in 1..n : e \in 1..k
    BY <1>1
  <2>3. k \in 1..k
    BY <1>1
  <2>4. \A e \in 1..k : out'[e].type = "segment" <=> (e \in 1..n /\ out[e].type = "segment") \/ e = k
    BY <1>1, <1>2, <1>3, <1>5, <2>1
  <2> HIDE DEF k
  <2> QED
    BY <1>1, <1>5, <2>2, <2>3, <2>4 DEF GopEvents
<1> QED
  BY <1>1, <1>5, <1>6, <1>7 DEF g, a

\* A sink that fails has the events it took, at most one Init more.
LEMMA SinkFailing ==
  ASSUME TypeOK, SinkFails(cur)
  PROVE  /\ out' \in Seq(EventType)
         /\ GopEvents' = GopEvents
         /\ \A i \in DOMAIN out : i \in DOMAIN out' /\ out'[i] = out[i]
<1> DEFINE a == InitEvent
<1>1. out \in Seq(EventType)
  BY DEF TypeOK
<1>2. a \in EventType /\ a.type = "init"
  <2>1. DOMAIN running \subseteq Track
    <3>1. \A i \in 1..(next - 1) : i \in DOMAIN stored
      BY StoredType DEF TypeOK
    <3> QED
      BY <3>1, StoredType DEF TypeOK, TrackSet
  <2> QED
    BY <2>1 DEF InitEvent, EventType
<1>3. out' = out \/ out' = Append(out, a)
  BY DEF SinkFails
<1> HIDE DEF a
<1>4. CASE out' = Append(out, a)
  <2>1. /\ out' \in Seq(EventType) /\ Len(out) \in Nat /\ DOMAIN out = 1..Len(out)
        /\ DOMAIN out' = 1..(Len(out) + 1)
        /\ out'[Len(out) + 1] = a /\ \A i \in 1..Len(out) : out'[i] = out[i]
    BY <1>1, <1>2, <1>4
  <2>2. \A e \in DOMAIN out' : e \in DOMAIN out \/ e = Len(out) + 1
    BY <2>1
  <2>3. \A e \in DOMAIN out : e \in DOMAIN out'
    BY <2>1
  <2> QED
    BY <1>2, <2>1, <2>2, <2>3 DEF GopEvents
<1> QED
  BY <1>1, <1>3, <1>4 DEF GopEvents

-----------------------------------------------------------------------------
(* Every segment in one event.                                             *)

\* A segment that does not close the GoP being built replaces none in it.
LEMMA Adding ==
  ASSUME BuildInv, Pushing, NEW g, g = NoGop \/ (g = cur /\ ~ ClosesGop)
  PROVE  /\ AddSegment(g, next) \in [segs : SUBSET Nat, us : Nat]
         /\ AddSegment(g, next).segs = g.segs \cup {next}
         /\ next \notin g.segs
         /\ \A i \in g.segs : i \in 1..(next - 1) /\ stored[i].track < ThisSeg.track
<1>0. TypeOK /\ next \in Nat
  BY AtNext DEF BuildInv
<1>1. g \in [segs : SUBSET Nat, us : Nat]
  BY <1>0 DEF TypeOK, NoGop
<1>2. \A i \in g.segs : i \in 1..(next - 1)
  BY DEF BuildInv, NoGop
<1>3. \A i \in g.segs : stored[i].track \in Nat /\ stored[i].track < ThisSeg.track
  <2>1. CASE g = cur /\ cur # NoGop /\ ~ ClosesGop
    <3>1. ThisSeg.track > lastTid
      BY <1>0, <2>1, AtNext DEF ClosesGop, TypeOK
    <3>2. \A i \in cur.segs : stored[i].track \in Nat /\ stored[i].track <= lastTid
      BY <1>0, <1>2, <2>1, StoredType DEF BuildInv, TypeOK
    <3> QED
      BY <1>0, <2>1, <3>1, <3>2, AtNext DEF TypeOK
  <2>2. CASE g = NoGop
    BY <2>2 DEF NoGop
  <2> QED
    BY <2>1, <2>2
<1>4. {j \in g.segs : stored[j].track # stored[next].track} = g.segs
  BY <1>0, <1>3, AtNext DEF ThisSeg
<1>5. AddSegment(g, next).segs = g.segs \cup {next}
  BY <1>4 DEF AddSegment
<1>6. AddSegment(g, next).us \in Nat
  <2>1. Micros(stored[next].dur, stored[next].scale) \in Nat
    BY <1>0, MicrosType, AtNext DEF ThisSeg
  <2> QED
    BY <1>1, <2>1 DEF AddSegment
<1>7. g.segs \cup {next} \in SUBSET Nat
  BY <1>0, <1>1
<1>8. AddSegment(g, next) \in [segs : SUBSET Nat, us : Nat]
  BY <1>5, <1>6, <1>7 DEF AddSegment
<1> QED
  BY <1>0, <1>2, <1>3, <1>5, <1>8

\* The events hold the segments in order, and no track twice.
Orderly ==
  /\ \A e, f \in GopEvents : e < f => \A i \in out[e].segs, j \in out[f].segs : i < j
  /\ \A e \in GopEvents : \A i, j \in out[e].segs :
       stored[i].track = stored[j].track => i = j

LEMMA FlushKeeps ==
  ASSUME BuildInv, FlushGop(cur), stored' = stored
  PROVE  /\ Flushed' = 1..(next - 1)
         /\ Orderly'
         /\ out' \in Seq(EventType) /\ initEmitted' \in BOOLEAN /\ emittedTids' \in SUBSET Track
<1> DEFINE n == Len(out)
           k == IF NeedsInit THEN n + 2 ELSE n + 1
<1>0. TypeOK
  BY DEF BuildInv
<1>1. /\ n \in Nat /\ k \in Nat /\ n < k
      /\ out' \in Seq(EventType)
      /\ out'[k] = GopEvent(cur)
      /\ \A i \in 1..n : out'[i] = out[i]
      /\ GopEvents \subseteq 1..n
      /\ GopEvents' = GopEvents \cup {k}
  BY <1>0, Flushing
<1> HIDE DEF k, n
<1>2. /\ out'[k].segs = cur.segs
      /\ \A e \in GopEvents : out'[e].segs = out[e].segs /\ e < k /\ e \in Nat
  <2>1. \A e \in 1..n : e < k /\ e \in Nat
    BY <1>1
  <2> QED
    BY <1>1, <2>1 DEF GopEvent
<1>3. Flushed' = Flushed \cup cur.segs
  BY <1>1, <1>2 DEF Flushed
<1>4. Orderly'
  <2>1. ASSUME NEW e \in GopEvents', NEW f \in GopEvents', e < f,
               NEW i \in out'[e].segs, NEW j \in out'[f].segs
        PROVE  i < j
    <3>1. e \in GopEvents
      <4>1. ~ k < k
        BY <1>1
      <4> QED
        BY <1>1, <1>2, <2>1, <4>1
    <3>2. CASE f \in GopEvents
      BY <1>2, <2>1, <3>1, <3>2 DEF BuildInv
    <3>3. CASE f = k
      BY <1>2, <3>1, <3>3 DEF BuildInv
    <3> QED
      BY <1>1, <3>2, <3>3
  <2>2. ASSUME NEW e \in GopEvents', NEW i \in out'[e].segs, NEW j \in out'[e].segs,
               stored[i].track = stored[j].track
        PROVE  i = j
    BY <1>1, <1>2, <2>2 DEF BuildInv
  <2> QED
    BY <2>1, <2>2 DEF Orderly
<1>5. initEmitted' \in BOOLEAN /\ emittedTids' \in SUBSET Track
  <2>1. DOMAIN running \subseteq Track
    <3>1. \A i \in 1..(next - 1) : i \in DOMAIN stored
      BY <1>0, StoredType DEF TypeOK
    <3> QED
      BY <1>0, <3>1, StoredType DEF TypeOK, TrackSet
  <2> QED
    BY <1>0, <2>1 DEF FlushGop, TypeOK
<1> QED
  BY <1>1, <1>3, <1>4, <1>5 DEF BuildInv

LEMMA BuildInit == Init => BuildInv
<1> SUFFICES ASSUME Init PROVE BuildInv
  OBVIOUS
<1>1. out = <<>> /\ next = 1 /\ cur = NoGop /\ cur.segs = {} /\ GopEvents = {}
  BY DEF Init, NoGop, GopEvents
<1>2. 1..(next - 1) = {}
  BY <1>1
<1>3. TypeOK
  <2>1. DOMAIN running = {} /\ TrackSet(stored, 1..(next - 1)) = {}
    BY <1>2 DEF Init, TrackSet
  <2>2. next \in 1..(Len(stored) + 1) /\ stored \in Inputs
    BY StoredType DEF Init
  <2>3. cur \in [segs : SUBSET Nat, us : Nat]
    BY <1>1 DEF NoGop
  <2>4. /\ emittedTids = {} /\ initEmitted = FALSE /\ pendingNew = FALSE /\ lastTid = 0
        /\ out \in Seq(EventType) /\ status = "run"
    BY DEF Init
  <2> QED
    BY <2>1, <2>2, <2>3, <2>4 DEF TypeOK
<1>4. Flushed = {}
  BY <1>1 DEF Flushed
<1> QED
  BY <1>1, <1>2, <1>3, <1>4 DEF BuildInv, Init

LEMMA BuildStep == BuildInv /\ [Next]_vars => BuildInv'
<1> SUFFICES ASSUME BuildInv, [Next]_vars PROVE BuildInv'
  OBVIOUS
<1>0. TypeOK /\ Orderly
  BY DEF BuildInv, Orderly
<1>1. CASE PushSegment
  <2> DEFINE g == IF ClosesGop THEN NoGop ELSE cur
  <2>1. /\ Pushing /\ stored' = stored /\ status' = status /\ status = "run" /\ next' = next + 1
        /\ lastTid' = ThisSeg.track /\ cur' = AddSegment(g, next)
    BY <1>1 DEF PushSegment, Pushing
  <2>2. /\ next \in DOMAIN stored /\ next \in Nat /\ next' \in 1..(Len(stored) + 1)
        /\ 1..(next' - 1) = 1..(next - 1) \cup {next}
        /\ ThisSeg.track \in Track /\ ThisSeg.track \in Nat /\ stored[next] = ThisSeg
    BY <1>0, <2>1, AtNext DEF ThisSeg
  <2>3. /\ cur' \in [segs : SUBSET Nat, us : Nat]
        /\ cur'.segs = g.segs \cup {next} /\ next \notin g.segs
        /\ \A i \in g.segs : i \in 1..(next - 1) /\ stored[i].track < ThisSeg.track
    BY <2>1, Adding
  <2>4. /\ Flushed' \cup g.segs = 1..(next - 1)
        /\ Orderly'
        /\ out' \in Seq(EventType) /\ initEmitted' \in BOOLEAN /\ emittedTids' \in SUBSET Track
        /\ \A e \in GopEvents' : \A i \in out'[e].segs, j \in g.segs : i < j
    <3>1. CASE ClosesGop
      <4>1. FlushGop(cur)
        BY <1>1, <3>1 DEF PushSegment
      <4> QED
        BY <2>1, <3>1, <4>1, FlushKeeps DEF NoGop
    <3>2. CASE ~ ClosesGop
      <4>1. UNCHANGED <<out, emittedTids, initEmitted>>
        BY <1>1, <3>2 DEF PushSegment
      <4> QED
        BY <1>0, <2>1, <3>2, <4>1 DEF BuildInv, Orderly, Flushed, GopEvents, TypeOK
    <3> QED
      BY <3>1, <3>2
  <2>5. DOMAIN running' = TrackSet(stored', 1..(next' - 1))
    <3>1. DOMAIN running' = DOMAIN running \cup {ThisSeg.track}
      BY <1>1 DEF PushSegment, FoldCatalog
    <3>2. TrackSet(stored', 1..(next' - 1)) = TrackSet(stored, 1..(next - 1)) \cup {stored[next].track}
      BY <2>1, <2>2 DEF TrackSet
    <3> QED
      BY <1>0, <2>2, <3>1, <3>2 DEF TypeOK
  <2>6. pendingNew' \in BOOLEAN
    BY <1>0, <1>1 DEF PushSegment, TypeOK
  <2>7. TypeOK'
    BY <1>0, <2>1, <2>2, <2>3, <2>4, <2>5, <2>6 DEF TypeOK
  <2>8. Flushed' \cup cur'.segs = 1..(next' - 1)
    BY <2>2, <2>3, <2>4
  <2>9. \A e \in GopEvents' : \A i \in out'[e].segs : i < next /\ i \in 1..(next - 1)
    <3>1. \A i \in 1..(next - 1) : i < next
      BY <2>2
    <3> QED
      BY <2>4, <3>1 DEF Flushed
  <2>10. \A e \in GopEvents' : \A i \in out'[e].segs, j \in cur'.segs : i < j
    BY <2>3, <2>4, <2>9
  <2>11. \A i, j \in cur'.segs : stored[i].track = stored[j].track => i = j
    <3>1. \A i, j \in g.segs : stored[i].track = stored[j].track => i = j
      BY DEF BuildInv, NoGop
    <3>2. \A i \in g.segs : stored[i].track # stored[next].track
      <4>1. \A i \in g.segs : stored[i].track \in Nat
        BY <1>0, <2>3, StoredType DEF TypeOK
      <4> QED
        BY <2>2, <2>3, <4>1
    <3> QED
      BY <2>3, <3>1, <3>2
  <2>12. \A i \in cur'.segs : stored[i].track <= lastTid'
    <3>1. \A i \in g.segs : stored[i].track \in Nat
      BY <1>0, <2>3, StoredType DEF TypeOK
    <3>2. \A i \in g.segs : stored[i].track <= ThisSeg.track
      BY <2>2, <2>3, <3>1
    <3>3. stored[next].track <= ThisSeg.track
      BY <2>2
    <3> QED
      BY <2>1, <2>3, <3>2, <3>3
  <2> QED
    BY <2>1, <2>4, <2>7, <2>8, <2>10, <2>11, <2>12 DEF BuildInv, Orderly
<1>2. ASSUME SinkFails(cur)
      PROVE  BuildInv'
  <2>1. /\ out' \in Seq(EventType) /\ GopEvents' = GopEvents
        /\ \A i \in GopEvents : out'[i] = out[i]
    BY <1>0, <1>2, SinkFailing DEF GopEvents
  <2>2. UNCHANGED <<stored, next, running, emittedTids, initEmitted, pendingNew, cur, lastTid>>
        /\ status' = "error"
    BY <1>2 DEF SinkFails
  <2>3. Flushed' = Flushed
    BY <2>1 DEF Flushed
  <2>4. TypeOK'
    BY <1>0, <2>1, <2>2 DEF TypeOK, TrackSet
  <2> QED
    BY <2>1, <2>2, <2>3, <2>4 DEF BuildInv
<1>3. CASE PushFails
  <2>1. CASE SinkFails(cur)
    BY <1>2, <2>1
  <2>2. CASE ~ SinkFails(cur)
    <3>1. UNCHANGED <<stored, next, running, emittedTids, initEmitted, pendingNew, cur, lastTid, out>>
          /\ status' = "error"
      BY <1>3, <2>2 DEF PushFails
    <3>2. TypeOK'
      BY <1>0, <3>1 DEF TypeOK, TrackSet
    <3> QED
      BY <3>1, <3>2 DEF BuildInv, Flushed, GopEvents
  <2> QED
    BY <2>1, <2>2
<1>4. CASE Finish
  <2>1. CASE SinkFails(cur)
    BY <1>2, <2>1
  <2>2. CASE ~ SinkFails(cur)
    <3>1. /\ UNCHANGED <<stored, next, running, lastTid>> /\ status' = "done" /\ cur' = NoGop
          /\ pendingNew' = FALSE /\ next > Len(stored)
          /\ IF cur # NoGop THEN FlushGop(cur) ELSE UNCHANGED <<out, emittedTids, initEmitted>>
      BY <1>4, <2>2 DEF Finish
    <3>2. next' = Len(stored) + 1 /\ next' \in 1..(Len(stored) + 1)
      BY <1>0, <3>1, StoredType DEF TypeOK
    <3>3. /\ Flushed' = 1..(next - 1) /\ Orderly'
          /\ out' \in Seq(EventType) /\ initEmitted' \in BOOLEAN /\ emittedTids' \in SUBSET Track
      <4>1. CASE cur # NoGop
        BY <3>1, <4>1, FlushKeeps
      <4>2. CASE cur = NoGop
        <5>1. UNCHANGED <<out, emittedTids, initEmitted, stored>> /\ cur.segs = {}
          BY <3>1, <4>2 DEF NoGop
        <5> QED
          BY <1>0, <5>1 DEF BuildInv, Orderly, Flushed, GopEvents, TypeOK
      <4> QED
        BY <4>1, <4>2
    <3>4. cur'.segs = {} /\ cur' \in [segs : SUBSET Nat, us : Nat]
      BY <3>1 DEF NoGop
    <3>5. TypeOK'
      BY <1>0, <3>1, <3>3, <3>4 DEF TypeOK, TrackSet
    <3> QED
      BY <3>1, <3>2, <3>3, <3>4, <3>5 DEF BuildInv, Orderly
  <2> QED
    BY <2>1, <2>2
<1>5. CASE UNCHANGED vars
  BY <1>5 DEF vars, BuildInv, TypeOK, TrackSet, Flushed, GopEvents
<1> QED
  BY <1>1, <1>3, <1>4, <1>5 DEF Next

\* Every stored segment that was pushed is in one event or in the GoP being
\* built, in the stored order, and the events of a stream that ended well hold
\* all of it (StreamEventBuilder in reader.rs).
THEOREM AllGivenBack == Spec => []NothingDropped
<1>1. BuildInv => NothingDropped
  <2> SUFFICES ASSUME BuildInv PROVE NothingDropped
    OBVIOUS
  <2>1. status = "done" => Flushed = 1..Len(stored)
    <3>1. Len(stored) \in Nat /\ (Len(stored) + 1) - 1 = Len(stored)
      BY StoredType DEF BuildInv, TypeOK
    <3>2. NoGop.segs = {}
      BY DEF NoGop
    <3> QED
      BY <3>1, <3>2 DEF BuildInv
  <2>2. status = "run" => Flushed \cup cur.segs = 1..(next - 1)
    BY DEF BuildInv
  <2>3. Orderly
    BY DEF BuildInv, Orderly
  <2>4. /\ \A e, f \in GopEvents : e < f => \A i \in out[e].segs, j \in out[f].segs : i < j
        /\ \A e \in GopEvents : \A i, j \in out[e].segs :
             stored[i].track = stored[j].track => i = j
    BY <2>3 DEF Orderly
  <2>5. /\ status = "run" => (UNION {out[e].segs : e \in GopEvents}) \cup cur.segs = 1..(next - 1)
        /\ status = "done" => UNION {out[e].segs : e \in GopEvents} = 1..Len(stored)
    BY <2>1, <2>2 DEF Flushed
  <2> QED
    BY <2>4, <2>5 DEF NothingDropped
<1> QED
  BY <1>1, BuildInit, BuildStep, PTL DEF Spec

-----------------------------------------------------------------------------
(* The Init in force.                                                      *)

LEMMA CoversAll == InitCoversGop <=> AllCovered
BY DEF InitCoversGop, AllCovered, Covered, TracksOf, TrackSet

\* What is put after it does not matter to an event.
LEMMA StaysCovered ==
  ASSUME TypeOK, stored' = stored,
         \A i \in DOMAIN out : out'[i] = out[i],
         \A i \in DOMAIN out : i \in GopEvents' <=> i \in GopEvents,
         NEW e \in GopEvents, Covered(e)
  PROVE  Covered(e)'
<1>1. DOMAIN out = 1..Len(out) /\ Len(out) \in Nat /\ e \in 1..Len(out)
  BY DEF TypeOK, GopEvents
<1>2. PICK i \in 1..(e - 1) :
        /\ out[i].type = "init"
        /\ \A j \in (i + 1)..e : out[j].type = "segment"
        /\ TrackSet(stored, out[e].segs) \subseteq out[i].tracks
        /\ out[i].tracks = UNION {TrackSet(stored, out[f].segs) : f \in GopEvents \cap 1..(i + 1)}
  BY DEF Covered
<1>3. /\ i \in DOMAIN out /\ e \in DOMAIN out
      /\ \A j \in (i + 1)..e : j \in DOMAIN out
      /\ \A j \in 1..(i + 1) : j \in DOMAIN out
  BY <1>1
<1>4. out'[i] = out[i] /\ out'[e] = out[e] /\ \A j \in (i + 1)..e : out'[j].type = "segment"
  BY <1>2, <1>3
<1>6. UNION {TrackSet(stored, out[f].segs) : f \in GopEvents \cap 1..(i + 1)}
      = UNION {TrackSet(stored, out'[f].segs) : f \in GopEvents' \cap 1..(i + 1)}
  <2>1. GopEvents \cap 1..(i + 1) = GopEvents' \cap 1..(i + 1)
    BY <1>3
  <2>2. \A f \in GopEvents \cap 1..(i + 1) : TrackSet(stored, out[f].segs) = TrackSet(stored, out'[f].segs)
    BY <1>3
  <2> QED
    BY <2>1, <2>2
<1>7. /\ out'[i].type = "init"
      /\ TrackSet(stored, out'[e].segs) \subseteq out'[i].tracks
      /\ out'[i].tracks = UNION {TrackSet(stored, out'[f].segs) : f \in GopEvents' \cap 1..(i + 1)}
  BY <1>2, <1>4, <1>6
<1> QED
  BY <1>4, <1>7 DEF Covered

LEMMA FlushCovers ==
  ASSUME CoverInv, status = "run", FlushGop(cur), stored' = stored
  PROVE  /\ AllCovered'
         /\ initEmitted'
         /\ \E i \in DOMAIN out' : InForce(i)'
         /\ emittedTids' = Sent'
<1>0. TypeOK /\ BuildInv
  BY DEF CoverInv, BuildInv
<1>1. PICK n \in Nat, k \in Nat :
      /\ n = Len(out) /\ n < k /\ DOMAIN out = 1..n /\ DOMAIN out' = 1..k
      /\ Len(out') = k
      /\ k = IF NeedsInit THEN n + 2 ELSE n + 1
      /\ out'[k] = GopEvent(cur)
      /\ NeedsInit => out'[n + 1] = InitEvent
      /\ \A i \in 1..n : out'[i] = out[i]
      /\ GopEvents \subseteq 1..n
      /\ GopEvents' = GopEvents \cup {k}
  BY <1>0, Flushing
<1>2. out'[k].segs = cur.segs /\ out'[k].type = "segment"
  BY <1>1 DEF GopEvent
<1>4. Sent' = Sent \cup TrackSet(stored, cur.segs)
  <2>1. Sent' = UNION {TrackSet(stored, out'[f].segs) : f \in GopEvents'}
    BY DEF Sent
  <2>2. \A f \in GopEvents : TrackSet(stored, out'[f].segs) = TrackSet(stored, out[f].segs)
    BY <1>1
  <2> QED
    BY <1>1, <1>2, <2>1, <2>2 DEF Sent
<1>5. Sent \cup TrackSet(stored, cur.segs) = DOMAIN running
  <2>1. TrackSet(stored, 1..(next - 1)) = Sent \cup TrackSet(stored, cur.segs)
    <3>1. TrackSet(stored, Flushed \cup cur.segs) = Sent \cup TrackSet(stored, cur.segs)
      BY DEF TrackSet, Flushed, Sent
    <3> QED
      BY <1>0, <3>1 DEF BuildInv
  <2> QED
    BY <1>0, <2>1 DEF TypeOK
<1>6. \A i \in DOMAIN out : i \in GopEvents' <=> i \in GopEvents
  BY <1>1
<1>7. \A e \in GopEvents : Covered(e)'
  <2>1. \A e \in GopEvents : Covered(e)
    BY DEF CoverInv, AllCovered
  <2>2. \A i \in DOMAIN out : out'[i] = out[i]
    BY <1>1
  <2> QED
    BY <1>0, <1>6, <2>1, <2>2, StaysCovered
<1>8. ASSUME NEW i \in 1..(k - 1), out'[i].type = "init",
             \A j \in (i + 1)..k : out'[j].type = "segment",
             out'[i].tracks = emittedTids', TrackSet(stored, cur.segs) \subseteq emittedTids',
             out'[i].tracks = UNION {TrackSet(stored, out'[f].segs) : f \in GopEvents' \cap 1..(i + 1)}
      PROVE  Covered(k)' /\ InForce(i)' /\ i \in DOMAIN out'
  <2>1. i \in DOMAIN out' /\ i < Len(out') /\ Len(out') = k
    BY <1>1
  <2>2. TrackSet(stored, out'[k].segs) \subseteq out'[i].tracks
    BY <1>2, <1>8
  <2>3. Covered(k)'
    BY <1>8, <2>2 DEF Covered
  <2>4. InForce(i)'
    BY <1>8, <2>1 DEF InForce
  <2> QED
    BY <2>1, <2>3, <2>4
<1>9. /\ emittedTids' = Sent' /\ initEmitted'
      /\ \E i \in 1..(k - 1) : Covered(k)' /\ InForce(i)' /\ i \in DOMAIN out'
  <2>1. CASE NeedsInit
    <3>1. emittedTids' = DOMAIN running /\ initEmitted'
      BY <2>1 DEF FlushGop
    <3>2. k = n + 2 /\ n + 1 \in 1..(k - 1) /\ (n + 1) + 1 = k
      BY <1>1, <2>1
    <3>3. out'[n + 1].type = "init" /\ out'[n + 1].tracks = DOMAIN running
      BY <1>1, <2>1 DEF InitEvent
    <3>4. \A j \in ((n + 1) + 1)..k : out'[j].type = "segment"
      <4>1. \A j \in ((n + 1) + 1)..k : j = k
        BY <1>1, <3>2
      <4> QED
        BY <1>2, <4>1
    <3>5. UNION {TrackSet(stored, out'[f].segs) : f \in GopEvents' \cap 1..((n + 1) + 1)} = Sent'
      <4>1. GopEvents' \cap 1..((n + 1) + 1) = GopEvents'
        <5>1. \A i \in 1..n : i \in 1..k
          BY <1>1
        <5>2. k \in 1..k
          BY <1>1
        <5> QED
          BY <1>1, <3>2, <5>1, <5>2
      <4> QED
        BY <4>1 DEF Sent
    <3> QED
      BY <1>4, <1>5, <1>8, <3>1, <3>2, <3>3, <3>4, <3>5
  <2>2. CASE ~ NeedsInit
    <3>1. emittedTids' = emittedTids /\ initEmitted /\ initEmitted' /\ ~ pendingNew /\ k = n + 1
      BY <1>1, <2>2 DEF FlushGop, NeedsInit
    <3>2. emittedTids = Sent /\ TrackSet(stored, cur.segs) \subseteq emittedTids
      BY <3>1 DEF CoverInv, Sent
    <3>3. PICK i \in DOMAIN out : InForce(i)
      BY <3>1 DEF CoverInv
    <3>4. /\ i \in 1..(k - 1) /\ i \in 1..n /\ (i + 1) \in 1..n
          /\ \A j \in (i + 1)..k : j = k \/ (j \in 1..n /\ j \in (i + 1)..n)
          /\ \A j \in 1..(i + 1) : j \in 1..n
      BY <1>1, <3>1, <3>3 DEF InForce
    <3>5. out'[i] = out[i] /\ out[i].type = "init" /\ out[i].tracks = emittedTids
      BY <1>1, <3>3, <3>4 DEF InForce
    <3>6. \A j \in (i + 1)..k : out'[j].type = "segment"
      BY <1>1, <1>2, <3>3, <3>4 DEF InForce
    <3>7. out'[i].tracks = UNION {TrackSet(stored, out'[f].segs) : f \in GopEvents' \cap 1..(i + 1)}
      <4>1. GopEvents' \cap 1..(i + 1) = GopEvents \cap 1..(i + 1)
        BY <1>1, <1>6, <3>4
      <4>2. \A f \in GopEvents \cap 1..(i + 1) : TrackSet(stored, out'[f].segs) = TrackSet(stored, out[f].segs)
        BY <1>1, <3>4
      <4>3. out[i].tracks = UNION {TrackSet(stored, out[f].segs) : f \in GopEvents \cap 1..(i + 1)}
        BY <3>3 DEF InForce
      <4> QED
        BY <3>5, <4>1, <4>2, <4>3
    <3> QED
      BY <1>4, <1>8, <3>1, <3>2, <3>4, <3>5, <3>6, <3>7
  <2> QED
    BY <2>1, <2>2
<1>10. AllCovered'
  <2>1. \A e \in GopEvents' : Covered(e)'
    BY <1>1, <1>7, <1>9
  <2> QED
    BY <2>1 DEF AllCovered
<1> QED
  BY <1>9, <1>10

LEMMA CoverInit == Init => CoverInv
<1> SUFFICES ASSUME Init PROVE CoverInv
  OBVIOUS
<1>1. GopEvents = {} /\ cur.segs = {} /\ emittedTids = {} /\ ~ initEmitted
  BY DEF Init, NoGop, GopEvents
<1> QED
  BY <1>1, BuildInit DEF CoverInv, AllCovered, TrackSet

LEMMA CoverStep == CoverInv /\ [Next]_vars => CoverInv'
<1> SUFFICES ASSUME CoverInv, [Next]_vars PROVE CoverInv'
  OBVIOUS
<1>0. BuildInv /\ TypeOK /\ BuildInv' /\ \A e \in GopEvents : Covered(e)
  BY BuildStep DEF CoverInv, BuildInv, AllCovered
<1>u. ASSUME UNCHANGED <<stored, out, initEmitted, emittedTids>>
      PROVE  /\ AllCovered'
             /\ \A i \in DOMAIN out : InForce(i) => InForce(i)'
             /\ Sent' = Sent
  <2>1. GopEvents' = GopEvents
    BY <1>u DEF GopEvents
  <2>2. \A e \in GopEvents : Covered(e)'
    BY <1>0, <1>u, <2>1, StaysCovered
  <2>3. ASSUME NEW i \in DOMAIN out, InForce(i) PROVE InForce(i)'
    BY <1>u, <2>1, <2>3 DEF InForce
  <2>4. Sent' = Sent
    BY <1>u, <2>1 DEF Sent
  <2> QED
    BY <2>1, <2>2, <2>3, <2>4 DEF AllCovered
<1>1. CASE PushSegment
  <2>1. /\ Pushing /\ status = "run" /\ stored' = stored /\ next \in Nat
        /\ pendingNew' = ((~ ClosesGop /\ pendingNew) \/ ThisSeg.track \notin emittedTids')
        /\ cur' = AddSegment(IF ClosesGop THEN NoGop ELSE cur, next)
    BY <1>0, <1>1, AtNext DEF PushSegment, Pushing
  <2>2. /\ AllCovered'
        /\ initEmitted' => \E i \in DOMAIN out' : InForce(i)'
        /\ emittedTids' = Sent'
    <3>1. CASE ClosesGop
      <4>1. FlushGop(cur)
        BY <1>1, <3>1 DEF PushSegment
      <4> QED
        BY <2>1, <4>1, FlushCovers
    <3>2. CASE ~ ClosesGop
      <4>1. UNCHANGED <<out, emittedTids, initEmitted>>
        BY <1>1, <3>2 DEF PushSegment
      <4> QED
        BY <1>u, <2>1, <4>1 DEF CoverInv, Sent
    <3> QED
      BY <3>1, <3>2
  <2>3. ~ pendingNew' => TrackSet(stored', cur'.segs) \subseteq emittedTids'
    <3> SUFFICES ASSUME ~ pendingNew' PROVE TrackSet(stored', cur'.segs) \subseteq emittedTids'
      OBVIOUS
    <3>1. stored[next].track \in emittedTids'
      BY <2>1 DEF ThisSeg
    <3>2. CASE ClosesGop
      <4>1. cur'.segs = {next}
        BY <1>0, <2>1, <3>2, Adding DEF NoGop
      <4> QED
        BY <2>1, <3>1, <4>1 DEF TrackSet
    <3>3. CASE ~ ClosesGop
      <4>1. cur'.segs = cur.segs \cup {next}
        BY <1>0, <2>1, <3>3, Adding
      <4>2. ~ pendingNew /\ emittedTids' = emittedTids
        BY <1>1, <2>1, <3>3 DEF PushSegment
      <4>3. TrackSet(stored, cur.segs) \subseteq emittedTids
        BY <2>1, <4>2 DEF CoverInv
      <4> QED
        BY <2>1, <3>1, <4>1, <4>2, <4>3 DEF TrackSet
    <3> QED
      BY <3>2, <3>3
  <2> QED
    BY <1>0, <2>2, <2>3 DEF CoverInv, Sent
<1>2. ASSUME SinkFails(cur)
      PROVE  CoverInv'
  <2>1. /\ GopEvents' = GopEvents /\ stored' = stored /\ status' = "error"
        /\ \A i \in DOMAIN out : out'[i] = out[i]
    BY <1>0, <1>2, SinkFailing DEF SinkFails
  <2>2. \A e \in GopEvents : Covered(e)'
    BY <1>0, <2>1, StaysCovered
  <2>3. AllCovered'
    BY <2>1, <2>2 DEF AllCovered
  <2> QED
    BY <1>0, <2>1, <2>3 DEF CoverInv
<1>3. CASE PushFails /\ ~ SinkFails(cur)
  <2>1. UNCHANGED <<stored, out, initEmitted, emittedTids>> /\ status' = "error"
    BY <1>3 DEF PushFails
  <2> QED
    BY <1>0, <1>u, <2>1 DEF CoverInv
<1>4. CASE Finish /\ ~ SinkFails(cur)
  <2>1. /\ stored' = stored /\ status = "run" /\ status' = "done"
        /\ IF cur # NoGop THEN FlushGop(cur) ELSE UNCHANGED <<out, emittedTids, initEmitted>>
    BY <1>4 DEF Finish
  <2>2. AllCovered'
    BY <1>u, <2>1, FlushCovers
  <2> QED
    BY <1>0, <2>1, <2>2 DEF CoverInv
<1>5. CASE UNCHANGED vars
  <2>1. UNCHANGED <<stored, out, initEmitted, emittedTids, pendingNew, cur, status>>
    BY <1>5 DEF vars
  <2>2. TrackSet(stored', cur'.segs) = TrackSet(stored, cur.segs)
    BY <2>1 DEF TrackSet
  <2> QED
    BY <1>0, <1>u, <2>1, <2>2 DEF CoverInv, Sent
<1> QED
  BY <1>1, <1>2, <1>3, <1>4, <1>5 DEF Next, PushFails, Finish

\* A GoP goes out after an Init that has its tracks, and an Init has no track
\* of a GoP later than the one it announces (push_segment in reader.rs).
THEOREM InitsCover == Spec => []InitCoversGop
<1>1. CoverInv => InitCoversGop
  BY CoversAll DEF CoverInv
<1> QED
  BY <1>1, CoverInit, CoverStep, PTL DEF Spec

-----------------------------------------------------------------------------
(* The stored order.                                                       *)

\* A set of numbers has a least one: the strict subsets of finite sets are
\* well-founded, and 0..m is a strict subset of 0..n when m < n.
LEMMA Least ==
  ASSUME NEW T \in SUBSET Nat, T # {}
  PROVE  \E m \in T : \A n \in T : m <= n
<1> DEFINE W == {0..n : n \in T}
<1>1. \A n \in T : 0..n \in FiniteSubsetsOf(Nat)
  BY FS_Interval DEF FiniteSubsetsOf
<1>2. PICK w \in W : \A v \in W : <<v, w>> \notin StrictSubsetOrdering(Nat)
  <2>1. W \subseteq FiniteSubsetsOf(Nat) /\ W # {}
    BY <1>1
  <2> HIDE DEF W
  <2> QED
    BY <2>1, FS_StrictSubsetOrderingWellFounded, WFMin
<1>3. PICK m \in T : w = 0..m
  BY <1>2
<1>4. ASSUME NEW n \in T, n < m
      PROVE  FALSE
  <2>1. 0..n \subseteq 0..m /\ m \in 0..m /\ m \notin 0..n
    BY <1>4
  <2>2. <<0..n, 0..m>> \in StrictSubsetOrdering(Nat)
    BY <2>1 DEF StrictSubsetOrdering
  <2> QED
    BY <1>2, <1>3, <2>2
<1> QED
  BY <1>4

\* Induction over the numbers, with the set of those the claim holds for.
LEMMA SetInduction ==
  ASSUME NEW P \in SUBSET Nat, 0 \in P, \A n \in P : n + 1 \in P
  PROVE  Nat \subseteq P
<1> SUFFICES ASSUME Nat \ P # {} PROVE FALSE
  OBVIOUS
<1>1. PICK m \in Nat \ P : \A n \in Nat \ P : m <= n
  BY Least
<1>2. m - 1 \in Nat /\ (m - 1) + 1 = m /\ ~ m <= m - 1
  BY <1>1
<1> QED
  BY <1>1, <1>2

Earlier(i, j) == \/ stored[i].gop < stored[j].gop
                 \/ stored[i].gop = stored[j].gop /\ stored[i].track < stored[j].track

\* What holds of neighbours holds of all.
LEMMA Sorted ==
  ASSUME TypeOK, InStoreOrder
  PROVE  \A i, j \in DOMAIN stored : i < j => Earlier(i, j)
<1> DEFINE P == {d \in Nat : \A i \in DOMAIN stored :
                   i + d + 1 \in DOMAIN stored => Earlier(i, i + d + 1)}
<1>1. /\ Len(stored) \in Nat /\ DOMAIN stored = 1..Len(stored)
      /\ \A i \in DOMAIN stored : stored[i].gop \in Nat /\ stored[i].track \in Nat
  BY StoredType DEF TypeOK
<1>2. ASSUME NEW i \in DOMAIN stored, i + 1 \in DOMAIN stored
      PROVE  Earlier(i, i + 1)
  <2>1. i \in 1..(Len(stored) - 1)
    BY <1>1, <1>2
  <2> QED
    BY <2>1 DEF InStoreOrder, Earlier
<1>3. 0 \in P
  <2>1. \A i \in DOMAIN stored : i + 0 + 1 = i + 1
    BY <1>1
  <2> QED
    BY <1>2, <2>1
<1>4. ASSUME NEW d \in P PROVE d + 1 \in P
  <2>1. ASSUME NEW i \in DOMAIN stored, i + (d + 1) + 1 \in DOMAIN stored
        PROVE  Earlier(i, i + (d + 1) + 1)
    <3>1. /\ i + d + 1 \in DOMAIN stored /\ (i + d + 1) + 1 = i + (d + 1) + 1
      BY <1>1, <2>1
    <3>2. Earlier(i, i + d + 1)
      BY <3>1
    <3>3. Earlier(i + d + 1, i + (d + 1) + 1)
      BY <1>2, <2>1, <3>1
    <3>4. \A a, b, c, x, y, z \in Nat :
            (a < b \/ (a = b /\ x < y)) /\ (b < c \/ (b = c /\ y < z))
              => (a < c \/ (a = c /\ x < z))
      OBVIOUS
    <3> QED
      BY <1>1, <2>1, <3>1, <3>2, <3>3, <3>4 DEF Earlier
  <2> QED
    BY <2>1
<1>5. ASSUME NEW i \in DOMAIN stored, NEW j \in DOMAIN stored, i < j
      PROVE  Earlier(i, j)
  <2>1. j - i - 1 \in Nat /\ i + (j - i - 1) + 1 = j
    BY <1>1, <1>5
  <2>2. j - i - 1 \in P
    <3>1. P \in SUBSET Nat
      OBVIOUS
    <3> HIDE DEF P
    <3> QED
      BY <1>3, <1>4, <2>1, <3>1, SetInduction
  <2> QED
    BY <2>1, <2>2
<1> QED
  BY <1>5

\* In a stream in stored order, every GoP with the same track, a GoP starts
\* where the track ids stop ascending.
LEMMA Boundaries ==
  ASSUME TypeOK, InStoreOrder, CommonTrack,
         NEW i \in DOMAIN stored, i + 1 \in DOMAIN stored
  PROVE  stored[i + 1].track <= stored[i].track <=> stored[i].gop # stored[i + 1].gop
<1>1. /\ \A j \in DOMAIN stored : stored[j].gop \in Nat /\ stored[j].track \in Nat /\ j \in Nat
      /\ \A j, k \in DOMAIN stored : j < k => Earlier(j, k)
  BY StoredType, Sorted DEF TypeOK
<1>2. Earlier(i, i + 1)
  BY <1>1
<1>3. CASE stored[i].gop = stored[i + 1].gop
  BY <1>1, <1>2, <1>3 DEF Earlier
<1>4. CASE stored[i].gop # stored[i + 1].gop
  <2>1. stored[i].gop < stored[i + 1].gop
    BY <1>2, <1>4 DEF Earlier
  <2>2. PICK t \in Track : \A a \in DOMAIN stored : \E j \in DOMAIN stored :
          stored[j].gop = stored[a].gop /\ stored[j].track = t
    BY DEF CommonTrack
  <2>3. t \in Nat
    BY BuilderAssumption
  <2>4. t <= stored[i].track
    <3>1. PICK j \in DOMAIN stored : stored[j].gop = stored[i].gop /\ stored[j].track = t
      BY <2>2
    <3>2. CASE j = i
      BY <1>1, <3>1, <3>2
    <3>3. CASE j < i
      <4>1. Earlier(j, i)
        BY <1>1, <3>3
      <4> QED
        BY <1>1, <3>1, <4>1 DEF Earlier
    <3>4. CASE j = i + 1
      BY <1>1, <2>1, <3>1, <3>4
    <3>5. CASE j > i + 1
      <4>1. Earlier(i + 1, j)
        BY <1>1, <3>5
      <4> QED
        BY <1>1, <2>1, <3>1, <4>1 DEF Earlier
    <3> QED
      BY <1>1, <3>2, <3>3, <3>4, <3>5
  <2>5. stored[i + 1].track <= t
    <3>1. PICK j \in DOMAIN stored : stored[j].gop = stored[i + 1].gop /\ stored[j].track = t
      BY <2>2
    <3>2. CASE j = i + 1
      BY <1>1, <3>1, <3>2
    <3>3. CASE j > i + 1
      <4>1. Earlier(i + 1, j)
        BY <1>1, <3>3
      <4> QED
        BY <1>1, <3>1, <4>1 DEF Earlier
    <3>4. CASE j = i
      BY <1>1, <2>1, <3>1, <3>4
    <3>5. CASE j < i
      <4>1. Earlier(j, i)
        BY <1>1, <3>5
      <4> QED
        BY <1>1, <2>1, <3>1, <4>1 DEF Earlier
    <3> QED
      BY <1>1, <3>2, <3>3, <3>4, <3>5
  <2> QED
    BY <1>1, <1>4, <2>3, <2>4, <2>5
<1> QED
  BY <1>3, <1>4

\* Where the GoP changes, all before it belongs to earlier GoPs.
LEMMA Splits ==
  ASSUME TypeOK, InStoreOrder, NEW i \in DOMAIN stored, i + 1 \in DOMAIN stored,
         stored[i].gop # stored[i + 1].gop
  PROVE  /\ \A j \in DOMAIN stored : j > i => stored[j].gop # stored[i].gop
         /\ \A j \in DOMAIN stored : j <= i => stored[j].gop # stored[i + 1].gop
<1>1. /\ \A j \in DOMAIN stored : stored[j].gop \in Nat /\ j \in Nat
      /\ \A j, k \in DOMAIN stored : j < k => stored[j].gop <= stored[k].gop
  <2>1. \A j \in DOMAIN stored : stored[j].gop \in Nat /\ j \in Nat
    BY StoredType DEF TypeOK
  <2>2. \A j, k \in DOMAIN stored : j < k => Earlier(j, k)
    BY Sorted
  <2> QED
    BY <2>1, <2>2 DEF Earlier
<1>2. stored[i].gop < stored[i + 1].gop
  BY <1>1
<1>3. ASSUME NEW j \in DOMAIN stored, j > i PROVE stored[j].gop # stored[i].gop
  <2>1. j = i + 1 \/ j > i + 1
    BY <1>1, <1>3
  <2>2. stored[i + 1].gop <= stored[j].gop
    BY <1>1, <2>1
  <2> QED
    BY <1>1, <1>2, <2>2
<1>4. ASSUME NEW j \in DOMAIN stored, j <= i PROVE stored[j].gop # stored[i + 1].gop
  <2>1. stored[j].gop <= stored[i].gop
    BY <1>1, <1>4
  <2> QED
    BY <1>1, <1>2, <2>1
<1> QED
  BY <1>3, <1>4

-----------------------------------------------------------------------------
(* The GoPs of the live segmenter.                                         *)

Inferable == InStoreOrder /\ CommonTrack

\* What was sent are GoPs of the stream; what is being built is its last, up to here.
LEMMA FlushKeepsGops ==
  ASSUME BuildInv, OneEventPerGop, FlushGop(cur), stored' = stored,
         NEW p \in DOMAIN stored, cur.segs = SameGop(p)
  PROVE  OneEventPerGop'
<1>1. PICK k :
      /\ out'[k] = GopEvent(cur)
      /\ \A e \in GopEvents : out'[e] = out[e]
      /\ GopEvents' = GopEvents \cup {k}
  BY Flushing DEF BuildInv
<1>2. \A e \in GopEvents : \A i \in out[e].segs : out[e].segs = SameGop(i)
  BY DEF OneEventPerGop, SameGop
<1>3. \A i \in cur.segs : cur.segs = SameGop(i)
  BY DEF SameGop
<1>4. \A e \in GopEvents' : \A i \in out'[e].segs : out'[e].segs = SameGop(i)
  BY <1>1, <1>2, <1>3 DEF GopEvent
<1>5. \A i : SameGop(i) = {j \in DOMAIN stored' : stored'[j].gop = stored'[i].gop}
  BY DEF SameGop
<1> QED
  BY <1>4, <1>5 DEF OneEventPerGop

LEMMA KeptInit == Init => KeptInv
<1> SUFFICES ASSUME Init PROVE KeptInv
  OBVIOUS
<1>1. next = 1 /\ cur = NoGop /\ GopEvents = {}
  BY DEF Init, GopEvents
<1> QED
  BY <1>1, BuildInit DEF KeptInv, OneEventPerGop

LEMMA KeptStep == KeptInv /\ [Next]_vars => KeptInv'
<1> SUFFICES ASSUME KeptInv, [Next]_vars, Inferable'
             PROVE  /\ OneEventPerGop'
                    /\ (status = "run" =>
                          /\ next > 1 => Building
                          /\ next = 1 => cur = NoGop)'
  BY BuildStep DEF KeptInv, Inferable
<1>0. BuildInv /\ TypeOK /\ next \in Nat
  BY StoredType DEF KeptInv, BuildInv, TypeOK
<1>1. stored' = stored
  BY DEF Next, PushSegment, PushFails, Finish, SinkFails, vars
<1>2. InStoreOrder /\ CommonTrack
  <2>1. InStoreOrder' /\ CommonTrack'
    BY DEF Inferable
  <2>2. InStoreOrder' <=> InStoreOrder
    BY <1>1 DEF InStoreOrder
  <2>3. CommonTrack' <=> CommonTrack
    BY <1>1 DEF CommonTrack
  <2> QED
    BY <2>1, <2>2, <2>3
<1>3. /\ OneEventPerGop
      /\ status = "run" => (next > 1 => Building) /\ (next = 1 => cur = NoGop)
  BY <1>2 DEF KeptInv
<1>u. ASSUME UNCHANGED out PROVE OneEventPerGop'
  <2>1. GopEvents' = GopEvents
    BY <1>u DEF GopEvents
  <2> QED
    BY <1>1, <1>3, <1>u, <2>1 DEF OneEventPerGop
<1>4. CASE PushSegment
  <2>1. /\ Pushing /\ status' = "run" /\ status = "run" /\ next' = next + 1
        /\ lastTid' = ThisSeg.track
        /\ cur' = AddSegment(IF ClosesGop THEN NoGop ELSE cur, next)
    BY <1>4 DEF PushSegment, Pushing
  <2>2. /\ next \in DOMAIN stored /\ next \in 1..Len(stored)
        /\ DOMAIN stored = 1..Len(stored) /\ Len(stored) \in Nat
    BY <1>0, <2>1, AtNext, StoredType DEF TypeOK
  <2>3. cur' # NoGop /\ lastTid' = stored[next' - 1].track /\ next' # 1 /\ next' - 1 = next
    <3>1. next \in cur'.segs
      BY <1>0, <2>1, Adding
    <3>2. next' - 1 = next /\ next' # 1
      BY <2>1, <2>2
    <3> QED
      BY <2>1, <3>1, <3>2 DEF NoGop, ThisSeg
  <2>4. CASE next = 1
    <3>1. cur = NoGop /\ ~ ClosesGop
      BY <1>3, <2>1, <2>4 DEF ClosesGop
    <3>2. cur'.segs = {1}
      BY <1>0, <2>1, <2>4, <3>1, Adding DEF NoGop
    <3>3. {j \in 1..next : stored[j].gop = stored[next].gop} = {1}
      BY <2>4
    <3>4. UNCHANGED out
      BY <1>4, <3>1 DEF PushSegment
    <3> QED
      BY <1>1, <1>u, <2>3, <2>4, <3>2, <3>3, <3>4 DEF Building
  <2>5. CASE next > 1
    <3>1. /\ next - 1 \in DOMAIN stored /\ (next - 1) + 1 = next
          /\ \A j \in 1..next : j = next \/ j \in 1..(next - 1)
          /\ \A j \in 1..(next - 1) : j \in 1..next /\ j \in DOMAIN stored /\ j <= next - 1
          /\ next \in 1..next
      BY <2>2, <2>5
    <3>2. Building
      BY <1>3, <2>1, <2>5
    <3>3. ClosesGop <=> stored[next - 1].gop # stored[next].gop
      <4>1. ClosesGop <=> stored[next].track <= stored[next - 1].track
        BY <3>2 DEF ClosesGop, Building, ThisSeg
      <4> QED
        BY <1>0, <1>2, <2>2, <3>1, <4>1, Boundaries
    <3>4. CASE ClosesGop
      <4>1. /\ \A j \in DOMAIN stored : j > next - 1 => stored[j].gop # stored[next - 1].gop
            /\ \A j \in DOMAIN stored : j <= next - 1 => stored[j].gop # stored[next].gop
        BY <1>0, <1>2, <2>2, <3>1, <3>3, <3>4, Splits
      <4>2. cur.segs = SameGop(next - 1)
        <5>1. \A j \in DOMAIN stored : j \in 1..(next - 1) \/ j > next - 1
          BY <2>2, <3>1
        <5> QED
          BY <3>1, <3>2, <4>1, <5>1 DEF Building, SameGop
      <4>3. OneEventPerGop'
        BY <1>0, <1>1, <1>3, <1>4, <3>1, <3>4, <4>2, FlushKeepsGops DEF PushSegment
      <4>4. cur'.segs = {next}
        BY <1>0, <2>1, <3>4, Adding DEF NoGop
      <4>5. {j \in 1..next : stored[j].gop = stored[next].gop} = {next}
        BY <3>1, <4>1
      <4> QED
        BY <1>1, <2>3, <4>3, <4>4, <4>5 DEF Building
    <3>5. CASE ~ ClosesGop
      <4>1. cur'.segs = cur.segs \cup {next}
        BY <1>0, <2>1, <3>5, Adding
      <4>2. cur'.segs = {j \in 1..next : stored[j].gop = stored[next].gop}
        BY <3>1, <3>2, <3>3, <3>5, <4>1 DEF Building
      <4>3. UNCHANGED out
        BY <1>4, <3>5 DEF PushSegment
      <4> QED
        BY <1>1, <1>u, <2>3, <4>2, <4>3 DEF Building
    <3> QED
      BY <3>4, <3>5
  <2> QED
    BY <2>2, <2>4, <2>5
<1>5. ASSUME SinkFails(cur)
      PROVE  OneEventPerGop' /\ status' # "run"
  <2>1. /\ GopEvents' = GopEvents /\ status' = "error"
        /\ \A i \in GopEvents : out'[i] = out[i]
    BY <1>0, <1>5, SinkFailing DEF SinkFails, GopEvents
  <2> QED
    BY <1>1, <1>3, <2>1 DEF OneEventPerGop
<1>6. CASE PushFails /\ ~ SinkFails(cur)
  BY <1>6, <1>u DEF PushFails
<1>7. CASE Finish /\ ~ SinkFails(cur)
  <2>1. /\ status = "run" /\ status' = "done" /\ next > Len(stored)
        /\ IF cur # NoGop THEN FlushGop(cur) ELSE UNCHANGED out
    BY <1>7 DEF Finish
  <2>2. CASE cur # NoGop
    <3>1. next > 1 /\ next = Len(stored) + 1 /\ Len(stored) \in Nat /\ DOMAIN stored = 1..Len(stored)
      <4>1. next \in 1..(Len(stored) + 1) /\ Len(stored) \in Nat /\ DOMAIN stored = 1..Len(stored)
        BY <1>0, StoredType DEF TypeOK
      <4>2. next # 1
        BY <1>3, <2>1, <2>2
      <4> QED
        BY <2>1, <4>1, <4>2
    <3>2. next - 1 \in DOMAIN stored /\ 1..(next - 1) = DOMAIN stored
      BY <3>1
    <3>3. cur.segs = SameGop(next - 1)
      BY <1>3, <2>1, <3>1, <3>2 DEF Building, SameGop
    <3> QED
      BY <1>0, <1>1, <1>3, <2>1, <2>2, <3>2, <3>3, FlushKeepsGops
  <2>3. CASE cur = NoGop
    BY <1>u, <2>1, <2>3
  <2> QED
    BY <2>1, <2>2, <2>3
<1>8. CASE UNCHANGED vars
  <2>1. UNCHANGED <<out, next, cur, lastTid, status>>
    BY <1>8 DEF vars
  <2>2. Building' = Building
    BY <1>1, <2>1 DEF Building
  <2> QED
    BY <1>3, <1>u, <2>1, <2>2
<1> QED
  BY <1>4, <1>5, <1>6, <1>7, <1>8 DEF Next, PushFails, Finish

\* When the tracks ascend within each stored GoP and some track is in all of
\* them, the events are the GoPs that were cut (segment_events in reader.rs).
THEOREM GopsInferred == Spec => []GopsKept
<1>1. KeptInv => GopsKept
  BY DEF KeptInv, GopsKept
<1> QED
  BY <1>1, KeptInit, KeptStep, PTL DEF Spec
=============================================================================
