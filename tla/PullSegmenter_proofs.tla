------------------------ MODULE PullSegmenter_proofs ------------------------
(***************************************************************************)
(* The pull segmenter, for every set of files: each sample of a moof that  *)
(* is read goes into one GoP, with its own bytes.                          *)
(***************************************************************************)
EXTENDS PullSegmenter, GopCut_proofs

-----------------------------------------------------------------------------
(* What is in a file.                                                      *)

\* The samples of the moofs of a file, each as its moof and its step.
Samples(s) ==
  UNION {{i} \X {k \in DOMAIN s[i].steps : s[i].steps[k].op = "sample"} :
           i \in {i \in DOMAIN s : s[i].kind = "moof"}}

\* The track that gets the sample, and where its bytes are.
TrackOf(s, p) == Remap[s[p[1]].steps[p[2]].track]

Place(s, p) ==
  <<p[1] + 1, PayloadStart(s[p[1] + 1]) + PayloadAfter(s[p[1]].steps)[p[2] - 1]>>

\* The samples that were minted, when none was skipped.
Minted ==
  {p \in Samples(stream) :
     /\ p[1] < next
     /\ pc = "mint" /\ p[1] = cursor.moof => p[2] < cursor.step}

-----------------------------------------------------------------------------
(* Where a sample can be: in a GoP, buffered for the next or queued.       *)

InGop(g, t, d) == \E j \in DOMAIN g.tracks[t].frames : g.tracks[t].frames[j].data = d

InBuf(held, t, d) == \E j \in DOMAIN held[t].frames : held[t].frames[j].data = d

InQueue(queue, t, d) == \E q \in DOMAIN queue : queue[q].track = t /\ queue[q].data = d

Somewhere(list, held, queue, t, d) ==
  \/ \E g \in DOMAIN list : InGop(list[g], t, d)
  \/ InBuf(held, t, d)
  \/ InQueue(queue, t, d)

\* No sample is in two GoPs, and none that is still to be cut is in one.
Once(list, held, queue) ==
  \A t \in Track : \A d :
    /\ \A g \in DOMAIN list : InGop(list[g], t, d) =>
         /\ \A h \in DOMAIN list : InGop(list[h], t, d) => g = h
         /\ ~ InBuf(held, t, d)
         /\ ~ InQueue(queue, t, d)
    /\ InBuf(held, t, d) => ~ InQueue(queue, t, d)
    /\ \A q, r \in DOMAIN queue :
         (/\ queue[q].track = t /\ queue[q].data = d
          /\ queue[r].track = t /\ queue[r].data = d) => q = r

\* What is somewhere is a sample that was minted, and those are somewhere.
Known(list, held, queue, s, minted) ==
  \A t \in Track : \A d : Somewhere(list, held, queue, t, d) =>
    \E p \in minted : TrackOf(s, p) = t /\ Place(s, p) = d

Kept(list, held, queue, s, minted) ==
  \A p \in minted : Somewhere(list, held, queue, TrackOf(s, p), Place(s, p))

-----------------------------------------------------------------------------
(* The inductive invariant.                                                *)

\* The variables have their types, and a pair that is open is one.
Typed ==
  /\ stream \in Streams
  /\ next \in 1..(Len(stream) + 1)
  /\ pc \in {"moov", "read", "mint", "done", "error"}
  /\ cursor \in [moof : 0..Len(stream), step : Nat \ {0}, pos : Nat]
  /\ pc = "mint" => /\ cursor.moof # 0 /\ next = cursor.moof + 2
                    /\ stream[cursor.moof].kind = "moof"
                    /\ stream[cursor.moof + 1].kind = "mdat"
  /\ frames \in Seq(Frame)
  /\ clock \in [Track -> Progress]
  /\ bufs \in [Track -> TrackBuf]
  /\ segNo \in Nat
  /\ gops \in Seq(Gop)

\* How far the file was read.
Placed ==
  /\ pc = "moov" => \A j \in 1..(next - 1) : stream[j].kind # "moov"
  /\ pc = "mint" => /\ cursor.step - 1 \in 0..Len(Steps)
                    /\ cursor.pos = PayloadAfter(Steps)[cursor.step - 1]
  /\ pc = "done" => frames = <<>> /\ bufs = NoBufs

OnceInv ==
  /\ Typed
  /\ Placed
  /\ Once(gops, bufs, frames)
  /\ Known(gops, bufs, frames, stream, Minted)
  /\ pc # "error" => Kept(gops, bufs, frames, stream, Minted)

-----------------------------------------------------------------------------
(* Where the payload stands.                                               *)

\* What a step of a moof does to the position in the payload.
After(step, at) ==
  IF step.op = "sample" THEN at + step.size
  ELSE IF step.op = "trun" /\ step.offset THEN step.at
  ELSE at

Runs(f, steps, n) ==
  /\ f \in [0..n -> Int]
  /\ f[0] = 0
  /\ \A k \in 1..n : f[k] = After(steps[k], f[k - 1])

\* PayloadAfter is what it says: there is a function with these equations.
LEMMA PayloadRuns ==
  ASSUME NEW steps \in Seq(Step)
  PROVE  Runs(PayloadAfter(steps), steps, Len(steps))
<1> DEFINE P == {n \in Nat : n <= Len(steps) => \E f : Runs(f, steps, n)}
           body(at, k) == IF k = 0 THEN 0
                          ELSE CASE steps[k].op = "tfdt"   -> at[k - 1]
                                 [] steps[k].op = "trun"   -> IF steps[k].offset THEN steps[k].at ELSE at[k - 1]
                                 [] steps[k].op = "sample" -> at[k - 1] + steps[k].size
<1>0. Len(steps) \in Nat /\ \A k \in 1..Len(steps) : steps[k] \in Step
  OBVIOUS
<1>1. 0 \in P
  <2>1. Runs([i \in 0..0 |-> 0], steps, 0)
    BY DEF Runs
  <2> QED
    BY <2>1
<1>2. ASSUME NEW n \in P PROVE n + 1 \in P
  <2> SUFFICES ASSUME n + 1 <= Len(steps) PROVE \E f : Runs(f, steps, n + 1)
    OBVIOUS
  <2>1. n \in Nat /\ n <= Len(steps) /\ n + 1 \in 1..Len(steps)
    BY <1>0
  <2>2. PICK f : Runs(f, steps, n)
    BY <2>1
  <2> DEFINE s == steps[n + 1]
             e == After(s, f[n])
             g == [i \in 0..(n + 1) |-> IF i = n + 1 THEN e ELSE f[i]]
  <2>3. e \in Int
    <3>1. s \in Step /\ f[n] \in Int
      BY <1>0, <2>1, <2>2 DEF Runs
    <3> HIDE DEF s
    <3> QED
      BY <3>1, StepFields DEF After
  <2> HIDE DEF e
  <2>4. g \in [0..(n + 1) -> Int] /\ g[0] = 0
    BY <2>1, <2>2, <2>3 DEF Runs
  <2>5. ASSUME NEW k \in 1..(n + 1) PROVE g[k] = After(steps[k], g[k - 1])
    <3>1. k - 1 \in 0..n /\ g[k - 1] = f[k - 1]
      BY <2>1
    <3>2. CASE k \in 1..n
      <4>1. g[k] = f[k]
        BY <2>1, <3>2
      <4> HIDE DEF g
      <4> QED
        BY <2>2, <3>1, <3>2, <4>1 DEF Runs
    <3>3. CASE k = n + 1
      <4>1. g[k] = e /\ k - 1 = n
        BY <2>1, <3>3
      <4> HIDE DEF g
      <4> QED
        BY <3>1, <3>3, <4>1 DEF e
    <3> QED
      BY <2>1, <3>2, <3>3
  <2> HIDE DEF g
  <2> QED
    BY <2>4, <2>5 DEF Runs
<1>3. PICK f : Runs(f, steps, Len(steps))
  <2>1. P \in SUBSET Nat
    OBVIOUS
  <2> HIDE DEF P
  <2>2. Len(steps) \in P
    BY <1>0, <1>1, <1>2, <2>1, SetInduction
  <2> QED
    BY <1>0, <2>2 DEF P
<1>4. ASSUME NEW at, NEW k \in 1..Len(steps) PROVE body(at, k) = After(steps[k], at[k - 1])
  <2>1. /\ steps[k].op \in {"tfdt", "trun", "sample"} /\ k # 0
    BY <1>0, StepFields
  <2>2. CASE steps[k].op = "tfdt"
    BY <2>1, <2>2 DEF After
  <2>3. CASE steps[k].op = "trun"
    BY <2>1, <2>3 DEF After
  <2>4. CASE steps[k].op = "sample"
    BY <2>1, <2>4 DEF After
  <2> QED
    BY <2>1, <2>2, <2>3, <2>4
<1>5. \A at : body(at, 0) = 0
  OBVIOUS
<1>6. f = [k \in 0..Len(steps) |-> body(f, k)]
  <2> HIDE DEF body
  <2>1. f = [k \in 0..Len(steps) |-> f[k]]
    BY <1>3 DEF Runs
  <2>2. \A k \in 0..Len(steps) : f[k] = body(f, k)
    <3> TAKE k \in 0..Len(steps)
    <3>1. CASE k = 0
      BY <1>3, <1>5, <3>1 DEF Runs
    <3>2. CASE k \in 1..Len(steps)
      BY <1>3, <1>4, <3>2 DEF Runs
    <3> QED
      BY <1>0, <3>1, <3>2
  <2> QED
    BY <2>1, <2>2
<1> DEFINE at == PayloadAfter(steps)
<1>7. at = [k \in 0..Len(steps) |-> body(at, k)]
  BY <1>6, Zenon DEF PayloadAfter
<1> HIDE DEF at, body
<1>8. at[0] = 0 /\ \A k \in 1..Len(steps) : at[k] = After(steps[k], at[k - 1])
  BY <1>0, <1>4, <1>5, <1>7
<1>9. \A k \in 0..Len(steps) : at[k] \in Int
  <2> DEFINE I == {n \in Nat : n <= Len(steps) => at[n] \in Int}
  <2>1. 0 \in I
    BY <1>8
  <2>2. ASSUME NEW n \in I PROVE n + 1 \in I
    <3> SUFFICES ASSUME n + 1 <= Len(steps) PROVE at[n + 1] \in Int
      OBVIOUS
    <3>1. n \in Nat /\ n + 1 \in 1..Len(steps) /\ (n + 1) - 1 = n
      BY <1>0
    <3>2. at[n] \in Int /\ steps[n + 1] \in Step
      BY <1>0, <3>1
    <3>3. at[n + 1] = After(steps[n + 1], at[n])
      BY <1>8, <3>1
    <3> QED
      BY <3>2, <3>3, StepFields DEF After
  <2>3. I \in SUBSET Nat
    OBVIOUS
  <2> HIDE DEF I
  <2>4. Nat \subseteq I
    BY <2>1, <2>2, <2>3, SetInduction
  <2> QED
    BY <1>0, <2>4 DEF I
<1> QED
  BY <1>7, <1>8, <1>9 DEF Runs, at

-----------------------------------------------------------------------------
(* Recording, cutting and minting, seen from the places.                   *)

LEMMA Appended ==
  ASSUME NEW S, NEW list \in Seq(S), NEW e \in S
  PROVE  /\ Append(list, e) \in Seq(S) /\ DOMAIN list = 1..Len(list) /\ Len(list) \in Nat
         /\ DOMAIN Append(list, e) = 1..(Len(list) + 1)
         /\ \A i \in 1..Len(list) : Append(list, e)[i] = list[i]
         /\ Append(list, e)[Len(list) + 1] = e
OBVIOUS

\* The head of the queue goes into the buffer of its track.
LEMMA RecordPlaces ==
  ASSUME NEW held \in [Track -> TrackBuf], NEW queue \in Seq(Frame), queue # <<>>,
         NEW t \in Track, NEW d
  PROVE  LET f    == Head(queue)
             mine == f.track = t /\ f.data = d
         IN  /\ InBuf(RecordFrame(held, f), t, d) <=> InBuf(held, t, d) \/ mine
             /\ InQueue(queue, t, d) <=> InQueue(Tail(queue), t, d) \/ mine
<1> DEFINE f    == Head(queue)
           mine == f.track = t /\ f.data = d
           more == RecordFrame(held, f)
           rest == Tail(queue)
<1>1. /\ f \in Frame /\ f = queue[1] /\ rest \in Seq(Frame) /\ 1 \in DOMAIN queue
      /\ \A q \in DOMAIN rest : q + 1 \in DOMAIN queue /\ rest[q] = queue[q + 1]
      /\ \A q \in DOMAIN queue : q = 1 \/ (q - 1 \in DOMAIN rest /\ rest[q - 1] = queue[q])
  OBVIOUS
<1>2. InBuf(more, t, d) <=> InBuf(held, t, d) \/ mine
  <2>1. /\ more[f.track].frames = Append(held[f.track].frames, f)
        /\ \A u \in Track \ {f.track} : more[u] = held[u]
        /\ f.track \in Track /\ held[f.track].frames \in Seq(Frame)
    BY <1>1, RecordFrameType DEF TrackBuf
  <2> HIDE DEF f, more
  <2>2. CASE f.track = t
    <3> DEFINE old == held[t].frames
               new == more[t].frames
    <3>1. new = Append(old, f) /\ old \in Seq(Frame)
      BY <2>1, <2>2
    <3>2. /\ DOMAIN old = 1..Len(old) /\ DOMAIN new = 1..(Len(old) + 1) /\ Len(old) \in Nat
          /\ \A i \in 1..Len(old) : new[i] = old[i]
          /\ new[Len(old) + 1] = f
      BY <1>1, <3>1, Appended
    <3> HIDE DEF old, new
    <3>3. (\E j \in DOMAIN new : new[j].data = d) <=> (\E j \in DOMAIN old : old[j].data = d) \/ f.data = d
      <4>1. \A j \in 1..(Len(old) + 1) : j \in 1..Len(old) \/ j = Len(old) + 1
        BY <3>2
      <4>2. Len(old) + 1 \in 1..(Len(old) + 1) /\ \A j \in 1..Len(old) : j \in 1..(Len(old) + 1)
        BY <3>2
      <4> QED
        BY <3>2, <4>1, <4>2
    <3> QED
      BY <2>2, <3>3 DEF InBuf, old, new
  <2>3. CASE f.track # t
    BY <2>1, <2>3 DEF InBuf
  <2> QED
    BY <2>2, <2>3
<1>3. InQueue(queue, t, d) <=> InQueue(rest, t, d) \/ mine
  <2> HIDE DEF f, rest
  <2>1. ASSUME InQueue(queue, t, d) PROVE InQueue(rest, t, d) \/ mine
    <3>1. PICK q \in DOMAIN queue : queue[q].track = t /\ queue[q].data = d
      BY <2>1 DEF InQueue
    <3>2. CASE q = 1
      BY <1>1, <3>1, <3>2
    <3>3. CASE q - 1 \in DOMAIN rest /\ rest[q - 1] = queue[q]
      BY <3>1, <3>3 DEF InQueue
    <3> QED
      BY <1>1, <3>2, <3>3
  <2>2. ASSUME InQueue(rest, t, d) PROVE InQueue(queue, t, d)
    <3>1. PICK q \in DOMAIN rest : rest[q].track = t /\ rest[q].data = d
      BY <2>2 DEF InQueue
    <3>2. q + 1 \in DOMAIN queue /\ rest[q] = queue[q + 1]
      BY <1>1
    <3> QED
      BY <3>1, <3>2 DEF InQueue
  <2>3. mine => InQueue(queue, t, d)
    BY <1>1 DEF InQueue
  <2> QED
    BY <2>1, <2>2, <2>3
<1> QED
  BY <1>2, <1>3

LEMMA RecordOnce ==
  ASSUME NEW list \in Seq(Gop), NEW held \in [Track -> TrackBuf], NEW queue \in Seq(Frame),
         queue # <<>>, Once(list, held, queue)
  PROVE  Once(list, RecordFrame(held, Head(queue)), Tail(queue))
<1> DEFINE f    == Head(queue)
           more == RecordFrame(held, f)
           rest == Tail(queue)
<1> SUFFICES ASSUME NEW t \in Track, NEW d
             PROVE  /\ \A g \in DOMAIN list : InGop(list[g], t, d) =>
                         /\ \A h \in DOMAIN list : InGop(list[h], t, d) => g = h
                         /\ ~ InBuf(more, t, d)
                         /\ ~ InQueue(rest, t, d)
                    /\ InBuf(more, t, d) => ~ InQueue(rest, t, d)
                    /\ \A q, r \in DOMAIN rest :
                         (/\ rest[q].track = t /\ rest[q].data = d
                          /\ rest[r].track = t /\ rest[r].data = d) => q = r
  BY DEF Once
<1> DEFINE mine == f.track = t /\ f.data = d
<1>1. /\ InBuf(more, t, d) <=> InBuf(held, t, d) \/ mine
      /\ InQueue(queue, t, d) <=> InQueue(rest, t, d) \/ mine
  BY RecordPlaces
<1>2. /\ f = queue[1] /\ 1 \in DOMAIN queue /\ DOMAIN rest \subseteq Int
      /\ \A q \in DOMAIN rest : q + 1 \in DOMAIN queue /\ q + 1 # 1 /\ rest[q] = queue[q + 1]
  OBVIOUS
<1> HIDE DEF f, more, rest
<1>3. mine => ~ InQueue(rest, t, d)
  BY <1>2 DEF Once, InQueue
<1>4. \A g \in DOMAIN list : InGop(list[g], t, d) =>
        /\ \A h \in DOMAIN list : InGop(list[h], t, d) => g = h
        /\ ~ InBuf(more, t, d) /\ ~ InQueue(rest, t, d)
  BY <1>1 DEF Once
<1>5. InBuf(more, t, d) => ~ InQueue(rest, t, d)
  BY <1>1, <1>3 DEF Once
<1>6. ASSUME NEW q \in DOMAIN rest, NEW r \in DOMAIN rest,
             rest[q].track = t, rest[q].data = d, rest[r].track = t, rest[r].data = d
      PROVE  q = r
  <2>0. \A a, b \in DOMAIN queue : (/\ queue[a].track = t /\ queue[a].data = d
                                   /\ queue[b].track = t /\ queue[b].data = d) => a = b
    BY DEF Once
  <2>1. q + 1 = r + 1
    BY <1>2, <1>6, <2>0
  <2> QED
    BY <1>2, <2>1
<1> QED
  BY <1>4, <1>5, <1>6

\* The buffers become a GoP, and are empty.
LEMMA CutPlaces ==
  ASSUME NEW list \in Seq(Gop), bufs \in [Track -> TrackBuf], segNo \in Nat,
         NEW t \in Track, NEW d
  PROVE  /\ WithGop(list) \in Seq(Gop)
         /\ ~ InBuf(NoBufs, t, d)
         /\ \A g \in DOMAIN list : g \in DOMAIN WithGop(list) /\ WithGop(list)[g] = list[g]
         /\ \A g \in DOMAIN WithGop(list) :
              \/ g \in DOMAIN list /\ WithGop(list)[g] = list[g]
              \/ g = Len(list) + 1 /\ g \notin DOMAIN list /\ (InGop(WithGop(list)[g], t, d) <=> InBuf(bufs, t, d))
         /\ InBuf(bufs, t, d) => \E g \in DOMAIN WithGop(list) : InGop(WithGop(list)[g], t, d)
<1> DEFINE e == GopOf(bufs, segNo + 1)
<1>1. e \in Gop /\ (InGop(e, t, d) <=> InBuf(bufs, t, d))
  <2>1. segNo + 1 \in Nat
    OBVIOUS
  <2> QED
    BY <2>1, GopOfType DEF InGop, InBuf
<1>2. ~ InBuf(NoBufs, t, d)
  BY DEF InBuf, NoBufs, EmptyBuf
<1>3. CASE Present(bufs) = {}
  <2>1. WithGop(list) = list
    BY <1>3 DEF WithGop
  <2>2. ~ InBuf(bufs, t, d)
    <3>1. bufs[t].frames = <<>>
      BY <1>3 DEF Present
    <3> QED
      BY <3>1 DEF InBuf
  <2> QED
    BY <1>2, <2>1, <2>2
<1>4. CASE Present(bufs) # {}
  <2>1. WithGop(list) = Append(list, e)
    BY <1>4 DEF WithGop
  <2> HIDE DEF e
  <2>2. /\ Append(list, e) \in Seq(Gop) /\ DOMAIN list = 1..Len(list) /\ Len(list) \in Nat
        /\ DOMAIN Append(list, e) = 1..(Len(list) + 1)
        /\ \A i \in 1..Len(list) : Append(list, e)[i] = list[i]
        /\ Append(list, e)[Len(list) + 1] = e
    BY <1>1, Appended
  <2>3. \A g \in 1..(Len(list) + 1) : g \in 1..Len(list) \/ (g = Len(list) + 1 /\ g \notin 1..Len(list))
    BY <2>2
  <2>4. Len(list) + 1 \in 1..(Len(list) + 1) /\ \A g \in 1..Len(list) : g \in 1..(Len(list) + 1)
    BY <2>2
  <2> QED
    BY <1>1, <1>2, <2>1, <2>2, <2>3, <2>4
<1> QED
  BY <1>3, <1>4

LEMMA CutOnce ==
  ASSUME NEW list \in Seq(Gop), bufs \in [Track -> TrackBuf], segNo \in Nat,
         NEW queue \in Seq(Frame), Once(list, bufs, queue)
  PROVE  Once(WithGop(list), NoBufs, queue)
<1> DEFINE all == WithGop(list)
<1> SUFFICES ASSUME NEW t \in Track, NEW d
             PROVE  /\ \A g \in DOMAIN all : InGop(all[g], t, d) =>
                         /\ \A h \in DOMAIN all : InGop(all[h], t, d) => g = h
                         /\ ~ InBuf(NoBufs, t, d)
                         /\ ~ InQueue(queue, t, d)
                    /\ InBuf(NoBufs, t, d) => ~ InQueue(queue, t, d)
                    /\ \A q, r \in DOMAIN queue :
                         (/\ queue[q].track = t /\ queue[q].data = d
                          /\ queue[r].track = t /\ queue[r].data = d) => q = r
  BY DEF Once
<1>1. /\ ~ InBuf(NoBufs, t, d)
      /\ \A g \in DOMAIN all :
           \/ g \in DOMAIN list /\ all[g] = list[g]
           \/ g = Len(list) + 1 /\ g \notin DOMAIN list /\ (InGop(all[g], t, d) <=> InBuf(bufs, t, d))
  BY CutPlaces
<1> HIDE DEF all
<1>2. \A g \in DOMAIN all : InGop(all[g], t, d) =>
        /\ \A h \in DOMAIN all : InGop(all[h], t, d) => g = h
        /\ ~ InQueue(queue, t, d)
  BY <1>1 DEF Once
<1>3. \A q, r \in DOMAIN queue :
         (/\ queue[q].track = t /\ queue[q].data = d
          /\ queue[r].track = t /\ queue[r].data = d) => q = r
  BY DEF Once
<1> QED
  BY <1>1, <1>2, <1>3

\* A sample that is nowhere joins the end of the queue.
LEMMA MintPlaces ==
  ASSUME NEW queue \in Seq(Frame), NEW f \in Frame, NEW t, NEW d
  PROVE  InQueue(Append(queue, f), t, d) <=> InQueue(queue, t, d) \/ (f.track = t /\ f.data = d)
<1> DEFINE all == Append(queue, f)
<1>1. /\ DOMAIN queue = 1..Len(queue) /\ DOMAIN all = 1..(Len(queue) + 1) /\ Len(queue) \in Nat
      /\ \A i \in 1..Len(queue) : all[i] = queue[i]
      /\ all[Len(queue) + 1] = f
  BY Appended
<1>2. \A j \in 1..(Len(queue) + 1) : j \in 1..Len(queue) \/ j = Len(queue) + 1
  BY <1>1
<1>3. Len(queue) + 1 \in 1..(Len(queue) + 1) /\ \A j \in 1..Len(queue) : j \in 1..(Len(queue) + 1)
  BY <1>1
<1> HIDE DEF all
<1>4. InQueue(all, t, d) <=> InQueue(queue, t, d) \/ (f.track = t /\ f.data = d)
  BY <1>1, <1>2, <1>3 DEF InQueue
<1> QED
  BY <1>4 DEF all

LEMMA MintOnce ==
  ASSUME NEW list \in Seq(Gop), NEW held \in [Track -> TrackBuf], NEW queue \in Seq(Frame),
         Once(list, held, queue), NEW f \in Frame,
         ~ Somewhere(list, held, queue, f.track, f.data)
  PROVE  Once(list, held, Append(queue, f))
<1> DEFINE all == Append(queue, f)
<1> SUFFICES ASSUME NEW t \in Track, NEW d
             PROVE  /\ \A g \in DOMAIN list : InGop(list[g], t, d) =>
                         /\ \A h \in DOMAIN list : InGop(list[h], t, d) => g = h
                         /\ ~ InBuf(held, t, d)
                         /\ ~ InQueue(all, t, d)
                    /\ InBuf(held, t, d) => ~ InQueue(all, t, d)
                    /\ \A q, r \in DOMAIN all :
                         (/\ all[q].track = t /\ all[q].data = d
                          /\ all[r].track = t /\ all[r].data = d) => q = r
  BY DEF Once
<1> DEFINE mine == f.track = t /\ f.data = d
<1>1. InQueue(all, t, d) <=> InQueue(queue, t, d) \/ mine
  BY MintPlaces
<1>2. /\ DOMAIN queue = 1..Len(queue) /\ DOMAIN all = 1..(Len(queue) + 1) /\ Len(queue) \in Nat
      /\ \A i \in 1..Len(queue) : all[i] = queue[i]
      /\ all[Len(queue) + 1] = f
  BY Appended
<1>3. \A j \in DOMAIN all : j \in DOMAIN queue \/ j = Len(queue) + 1
  BY <1>2
<1> HIDE DEF all
<1>4. mine => ~ Somewhere(list, held, queue, t, d)
  OBVIOUS
<1>5. \A g \in DOMAIN list : InGop(list[g], t, d) =>
        /\ \A h \in DOMAIN list : InGop(list[h], t, d) => g = h
        /\ ~ InBuf(held, t, d) /\ ~ InQueue(all, t, d)
  BY <1>1, <1>4 DEF Once, Somewhere
<1>6. InBuf(held, t, d) => ~ InQueue(all, t, d)
  BY <1>1, <1>4 DEF Once, Somewhere
<1>7. \A q, r \in DOMAIN all :
         (/\ all[q].track = t /\ all[q].data = d
          /\ all[r].track = t /\ all[r].data = d) => q = r
  <2>1. mine => ~ InQueue(queue, t, d)
    BY <1>4 DEF Somewhere
  <2> QED
    BY <1>2, <1>3, <2>1 DEF Once, InQueue
<1> QED
  BY <1>5, <1>6, <1>7

-----------------------------------------------------------------------------
(* The types.                                                              *)

LEMMA StreamType ==
  ASSUME Typed
  PROVE  /\ stream \in Seq(Box) /\ Len(stream) \in Nat /\ DOMAIN stream = 1..Len(stream)
         /\ \A i \in 1..Len(stream) : stream[i] \in Box
         /\ next \in Nat /\ next <= Len(stream) + 1 /\ 1 <= next
         /\ ~ AtEnd => next \in 1..Len(stream)
<1>1. stream \in Seq(Box)
  BY StreamAssumption DEF Typed
<1> QED
  BY <1>1 DEF Typed, AtEnd

LEMMA StepsType ==
  ASSUME Typed, pc = "mint"
  PROVE  /\ Steps \in Seq(Step) /\ Len(Steps) \in Nat
         /\ cursor.moof \in 1..Len(stream) /\ stream[cursor.moof].kind = "moof"
         /\ next = cursor.moof + 2
         /\ cursor.step \in Nat \ {0}
         /\ cursor.step <= Len(Steps) => ThisStep \in Step /\ cursor.step \in 1..Len(Steps)
<1>1. cursor.moof \in 1..Len(stream) /\ stream[cursor.moof] \in Box /\ stream[cursor.moof].kind = "moof"
  BY StreamType DEF Typed
<1>2. Steps \in Seq(Step)
  BY <1>1, BoxFields DEF Steps
<1>3. cursor.step \in Nat \ {0} /\ next = cursor.moof + 2
  BY DEF Typed
<1>4. cursor.step <= Len(Steps) => cursor.step \in 1..Len(Steps)
  BY <1>2, <1>3
<1> QED
  BY <1>1, <1>2, <1>3, <1>4 DEF ThisStep

LEMMA TypedInit == Init => Typed
<1> SUFFICES ASSUME Init PROVE Typed
  OBVIOUS
<1>1. stream \in Seq(Box) /\ Len(stream) \in Nat
  BY StreamAssumption DEF Init
<1>2. 1 \in 1..(Len(stream) + 1) /\ 0 \in 0..Len(stream)
  BY <1>1
<1>3. clock \in [Track -> Progress]
  BY DEF Init, StartClock, Progress
<1>4. bufs \in [Track -> TrackBuf]
  BY NoBufsType DEF Init
<1> QED
  BY <1>2, <1>3, <1>4 DEF Init, Typed

LEMMA TypedStep == Typed /\ [Next]_vars => Typed'
<1> SUFFICES ASSUME Typed, [Next]_vars PROVE Typed'
  OBVIOUS
<1>0. Len(stream) \in Nat /\ next \in Nat /\ 1 <= next
  BY StreamType
<1>1. CASE ReadMoov \/ SkipBox
  <2>1. next' = next + 1 /\ next \in 1..Len(stream)
    BY <1>1, StreamType DEF ReadMoov, SkipBox
  <2>2. next + 1 \in 1..(Len(stream) + 1)
    BY <1>0, <2>1
  <2>3. pc' \in {"moov", "read"}
    BY <1>1 DEF ReadMoov, SkipBox
  <2> QED
    BY <1>1, <2>1, <2>2, <2>3 DEF ReadMoov, SkipBox, Typed
<1>2. CASE NoMoov \/ BadPair \/ DataOutside
  BY <1>2 DEF NoMoov, BadPair, DataOutside, Error, Typed
<1>3. CASE ReadPair
  <2>1. next \in 1..Len(stream) /\ next < Len(stream)
    BY <1>3, StreamType DEF ReadPair, Reading, MdatFollows
  <2>2. next + 2 \in 1..(Len(stream) + 1) /\ next \in 0..Len(stream) /\ next # 0
    BY <1>0, <2>1
  <2>3. cursor' = [moof |-> next, step |-> 1, pos |-> 0] /\ next' = next + 2 /\ pc' = "mint"
        /\ stream[next].kind = "moof" /\ stream[next + 1].kind = "mdat"
        /\ UNCHANGED <<stream, frames, clock, bufs, segNo, gops>>
    BY <1>3 DEF ReadPair, ThisBox, MdatFollows
  <2>4. cursor'.moof = next /\ cursor' \in [moof : 0..Len(stream), step : Nat \ {0}, pos : Nat]
    BY <2>2, <2>3
  <2> QED
    BY <2>2, <2>3, <2>4 DEF Typed
<1>4. CASE ReadTfdt \/ StartTrun \/ MintSample
  <2>1. pc = "mint" /\ cursor.step <= Len(Steps) /\ pc' = "mint"
        /\ UNCHANGED <<stream, next, bufs, segNo, gops>>
    BY <1>4 DEF ReadTfdt, StartTrun, MintSample, MoreSteps
  <2>2. ThisStep \in Step
    BY <2>1, StepsType
  <2>3. /\ cursor' \in [moof : 0..Len(stream), step : Nat \ {0}, pos : Nat]
        /\ cursor'.moof = cursor.moof
    <3>0. /\ cursor \in [moof : 0..Len(stream), step : Nat \ {0}, pos : Nat]
          /\ cursor.step + 1 \in Nat \ {0} /\ cursor.pos \in Nat
      BY DEF Typed
    <3>1. CASE ReadTfdt
      BY <3>1 DEF ReadTfdt, Typed
    <3>2. CASE StartTrun
      <4>1. TrunStart(ThisStep) \in Nat
        <5>1. ThisStep.op = "trun" /\ TrunStart(ThisStep) >= 0
          BY <3>2 DEF StartTrun
        <5> QED
          BY <2>2, <5>1, StepFields DEF TrunStart
      <4> QED
        BY <3>0, <3>2, <4>1 DEF StartTrun
    <3>3. CASE MintSample
      <4>1. ThisStep.size \in Nat
        BY <2>2, <3>3, StepFields DEF MintSample
      <4>2. cursor.pos + ThisStep.size \in Nat
        BY <3>0, <4>1
      <4> QED
        BY <3>0, <3>3, <4>2 DEF MintSample
    <3> QED
      BY <1>4, <3>1, <3>2, <3>3
  <2>4. frames' \in Seq(Frame) /\ clock' \in [Track -> Progress]
    <3>1. CASE ReadTfdt
      BY <2>2, <3>1, ClockType DEF ReadTfdt, Typed
    <3>2. CASE StartTrun
      BY <3>2 DEF StartTrun, Typed
    <3>3. CASE MintSample
      <4>1. <<cursor.moof + 1, PayloadStart(Mdat) + cursor.pos>> \in Nat \X Int
        BY DEF Typed, PayloadStart
      <4>2. MintFrame(clock, ThisStep, <<cursor.moof + 1, PayloadStart(Mdat) + cursor.pos>>) \in Frame
        BY <2>2, <3>3, <4>1, MintFrameType DEF MintSample, Typed
      <4>3. frames \in Seq(Frame)
        BY DEF Typed
      <4>4. frames' \in Seq(Frame)
        BY <3>3, <4>2, <4>3, Appended DEF MintSample
      <4> QED
        BY <2>2, <3>3, <4>4, ClockType DEF MintSample, Typed
    <3> QED
      BY <1>4, <3>1, <3>2, <3>3
  <2> QED
    BY <2>1, <2>3, <2>4 DEF Typed
<1>5. CASE AllMinted
  BY <1>5 DEF AllMinted, Typed
<1>6. CASE TakeFrame
  <2> DEFINE f == Head(frames)
             cut == Boundary(catalog, bufs, seen, f)
  <2>1. frames # <<>> /\ frames' = Tail(frames) /\ pc' = "read"
        /\ UNCHANGED <<stream, next, cursor, clock>>
        /\ segNo' = (IF cut THEN segNo + 1 ELSE segNo)
        /\ gops' = (IF cut THEN WithGop(gops) ELSE gops)
        /\ bufs' = RecordFrame(IF cut THEN NoBufs ELSE bufs, f)
    BY <1>6 DEF TakeFrame
  <2>2. f \in Frame /\ Tail(frames) \in Seq(Frame)
    BY <2>1 DEF Typed
  <2> HIDE DEF f, cut
  <2>3. bufs' \in [Track -> TrackBuf]
    BY <2>1, <2>2, NoBufsType, RecordFrameType DEF Typed
  <2>4. gops' \in Seq(Gop)
    <3>1. segNo + 1 \in Nat /\ bufs \in [Track -> TrackBuf] /\ gops \in Seq(Gop)
      BY DEF Typed
    <3>2. GopOf(bufs, segNo + 1) \in Gop
      BY <3>1, GopOfType
    <3> QED
      BY <2>1, <3>1, <3>2, Appended DEF WithGop
  <2> QED
    BY <2>1, <2>2, <2>3, <2>4 DEF Typed
<1>7. CASE EndOfFile
  <2>1. WithGop(gops) \in Seq(Gop)
    BY GopOfType, Appended DEF Typed, WithGop
  <2> QED
    BY <1>7, <2>1, NoBufsType DEF EndOfFile, Typed
<1>8. CASE UNCHANGED vars
  BY <1>8 DEF vars, Typed
<1> QED
  BY <1>1, <1>2, <1>3, <1>4, <1>5, <1>6, <1>7, <1>8 DEF Next

-----------------------------------------------------------------------------
(* How far the file was read.                                              *)

LEMMA SampleIs ==
  ASSUME NEW s
  PROVE  /\ \A p \in Samples(s) : /\ p[1] \in DOMAIN s /\ s[p[1]].kind = "moof"
                                  /\ p[2] \in DOMAIN s[p[1]].steps
                                  /\ s[p[1]].steps[p[2]].op = "sample"
                                  /\ p = <<p[1], p[2]>>
         /\ \A i \in DOMAIN s : \A k \in DOMAIN s[i].steps :
              s[i].kind = "moof" /\ s[i].steps[k].op = "sample" => <<i, k>> \in Samples(s)
BY DEF Samples

LEMMA RegularFile ==
  ASSUME Typed, \A s \in Streams : Regular(s), NEW i \in 1..Len(stream), stream[i].kind = "moof"
  PROVE  /\ \E j \in 1..(i - 1) : stream[j].kind = "moov"
         /\ \A k \in DOMAIN stream[i].steps :
              /\ stream[i].steps[k].op = "trun" /\ ~ stream[i].steps[k].offset
                   => PayloadAfter(stream[i].steps)[k - 1] = 0
              /\ \A l \in 1..(k - 1) :
                   (/\ stream[i].steps[k].op = "sample" /\ stream[i].steps[l].op = "sample"
                    /\ stream[i].steps[k].track = stream[i].steps[l].track)
                     => PayloadAfter(stream[i].steps)[l - 1] # PayloadAfter(stream[i].steps)[k - 1]
BY StreamType DEF Regular, Typed

LEMMA PlacedStep ==
  ASSUME \A s \in Streams : Regular(s), Typed, Placed, [Next]_vars
  PROVE  Placed'
<1>1. CASE ReadMoov \/ NoMoov \/ BadPair \/ DataOutside \/ AllMinted \/ TakeFrame
  BY <1>1 DEF ReadMoov, NoMoov, BadPair, DataOutside, AllMinted, TakeFrame, Error, Placed
<1>2. CASE SkipBox
  <2>1. /\ next' = next + 1 /\ UNCHANGED <<stream, pc, cursor, frames, bufs>> /\ pc # "mint" /\ pc # "done"
        /\ pc = "moov" => stream[next].kind # "moov"
    BY <1>2 DEF SkipBox, ThisBox
  <2>2. \A j \in 1..((next + 1) - 1) : j = next \/ j \in 1..(next - 1)
    BY StreamType
  <2> QED
    BY <2>1, <2>2 DEF Placed
<1>3. CASE ReadPair
  <2>1. /\ cursor' = [moof |-> next, step |-> 1, pos |-> 0] /\ pc' = "mint" /\ stream' = stream
        /\ next \in 1..Len(stream) /\ stream[next].kind = "moof"
    BY <1>3, StreamType DEF ReadPair, Reading, ThisBox
  <2>2. stream[next].steps \in Seq(Step)
    BY <2>1, StreamType, BoxFields
  <2>3. PayloadAfter(stream[next].steps)[0] = 0 /\ 0 \in 0..Len(stream[next].steps)
    BY <2>2, PayloadRuns DEF Runs
  <2> QED
    BY <2>1, <2>3 DEF Placed, Steps
<1>4. CASE ReadTfdt \/ StartTrun \/ MintSample
  <2> DEFINE k  == cursor.step
             at == PayloadAfter(Steps)
  <2>1. /\ pc = "mint" /\ pc' = "mint" /\ stream' = stream /\ k <= Len(Steps)
        /\ cursor \in [moof : 0..Len(stream), step : Nat \ {0}, pos : Nat]
    BY <1>4 DEF ReadTfdt, StartTrun, MintSample, MoreSteps, Typed
  <2>2. Steps \in Seq(Step) /\ ThisStep \in Step /\ k \in 1..Len(Steps) /\ ThisStep = Steps[k]
    BY <2>1, StepsType DEF ThisStep
  <2>3. at[k] = After(ThisStep, at[k - 1]) /\ cursor.pos = at[k - 1] /\ at[k - 1] \in Int
    <3>1. Runs(at, Steps, Len(Steps))
      BY <2>2, PayloadRuns
    <3>2. k - 1 \in 0..Len(Steps)
      BY <2>2
    <3> QED
      BY <2>1, <2>2, <3>1, <3>2 DEF Runs, Placed
  <2>4. cursor'.moof = cursor.moof /\ cursor'.step = k + 1 /\ cursor'.pos = at[k]
    <3>1. CASE ReadTfdt
      BY <2>1, <2>3, <3>1 DEF ReadTfdt, After
    <3>2. CASE StartTrun
      <4>1. ThisStep.op = "trun" /\ cursor'.moof = cursor.moof /\ cursor'.step = k + 1
            /\ cursor'.pos = TrunStart(ThisStep)
        BY <2>1, <3>2 DEF StartTrun
      <4>2. ~ ThisStep.offset => at[k - 1] = 0
        <5>1. cursor.moof \in 1..Len(stream) /\ stream[cursor.moof].kind = "moof"
          BY <2>1, StepsType
        <5>2. k \in DOMAIN stream[cursor.moof].steps /\ ThisStep = stream[cursor.moof].steps[k]
          BY <2>2 DEF Steps
        <5> QED
          BY <4>1, <5>1, <5>2, RegularFile DEF Steps
      <4> QED
        BY <2>3, <4>1, <4>2 DEF TrunStart, After
    <3>3. CASE MintSample
      BY <2>1, <2>3, <3>3 DEF MintSample, After
    <3> QED
      BY <1>4, <3>1, <3>2, <3>3
  <2>5. Steps' = Steps
    BY <2>1, <2>4 DEF Steps
  <2>6. (k + 1) - 1 = k /\ k \in 0..Len(Steps)
    BY <2>2
  <2> HIDE DEF at
  <2> QED
    BY <2>1, <2>4, <2>5, <2>6 DEF Placed, at
<1>5. CASE EndOfFile
  BY <1>5 DEF EndOfFile, Placed
<1>6. CASE UNCHANGED vars
  BY <1>6 DEF vars, Placed, Steps
<1> QED
  BY <1>1, <1>2, <1>3, <1>4, <1>5, <1>6 DEF Next

\* Which samples count as minted changes only when one is.
LEMMA MintedSteps ==
  ASSUME \A s \in Streams : Regular(s), Typed, Placed, [Next]_vars
  PROVE  /\ ~ MintSample /\ ~ DataOutside => Minted' = Minted
         /\ DataOutside => Minted \subseteq Minted'
         /\ MintSample => Minted' = Minted \cup {<<cursor.moof, cursor.step>>}
<1> DEFINE S == Samples(stream)
<1>1. \A p \in S : /\ p[1] \in 1..Len(stream) /\ stream[p[1]].kind = "moof"
                   /\ p[2] \in DOMAIN stream[p[1]].steps
                   /\ stream[p[1]].steps[p[2]].op = "sample" /\ p = <<p[1], p[2]>>
                   /\ p[2] \in Nat \ {0}
  <2>1. \A p \in S : /\ p[1] \in 1..Len(stream) /\ stream[p[1]].kind = "moof"
                     /\ p[2] \in DOMAIN stream[p[1]].steps
                     /\ stream[p[1]].steps[p[2]].op = "sample" /\ p = <<p[1], p[2]>>
    BY SampleIs, StreamType
  <2>2. \A p \in S : stream[p[1]].steps \in Seq(Step)
    BY <2>1, StreamType, BoxFields
  <2> QED
    BY <2>1, <2>2
<1>2. stream' = stream
  BY DEF Next, ReadMoov, NoMoov, SkipBox, ReadPair, BadPair, ReadTfdt, StartTrun, MintSample,
     DataOutside, AllMinted, TakeFrame, EndOfFile, Error, vars
<1>3. /\ Minted = {p \in S : p[1] < next /\ (pc = "mint" /\ p[1] = cursor.moof => p[2] < cursor.step)}
      /\ Minted' = {p \in S : p[1] < next' /\ (pc' = "mint" /\ p[1] = cursor'.moof => p[2] < cursor'.step)}
  BY <1>2 DEF Minted
<1> HIDE DEF S
<1>4. CASE NoMoov \/ BadPair \/ TakeFrame \/ EndOfFile
  BY <1>3, <1>4 DEF NoMoov, BadPair, TakeFrame, EndOfFile, Error, Reading, MintSample, DataOutside, MoreSteps
<1>5. CASE ReadMoov \/ SkipBox
  <2>1. /\ next' = next + 1 /\ pc # "mint" /\ pc' # "mint" /\ next \in 1..Len(stream)
        /\ stream[next].kind = "moof" => pc = "moov"
    BY <1>5, StreamType DEF ReadMoov, SkipBox, ThisBox
  <2>2. stream[next].kind # "moof"
    BY <2>1, RegularFile DEF Placed
  <2>3. \A p \in S : p[1] < next + 1 <=> p[1] < next
    <3>1. \A p \in S : p[1] # next /\ p[1] \in Nat
      BY <1>1, <2>2
    <3> QED
      BY <2>1, <3>1
  <2> QED
    BY <1>3, <2>1, <2>3 DEF MintSample, DataOutside, MoreSteps
<1>6. CASE ReadPair
  <2>1. /\ next' = next + 2 /\ pc = "read" /\ pc' = "mint" /\ next \in Nat
        /\ cursor'.moof = next /\ cursor'.step = 1 /\ stream[next + 1].kind = "mdat"
    BY <1>6, StreamType DEF ReadPair, Reading, MdatFollows
  <2>2. \A p \in S : (p[1] < next + 2 /\ (p[1] = next => p[2] < 1)) <=> p[1] < next
    <3>1. \A p \in S : p[1] # next + 1 /\ p[1] \in Nat /\ ~ p[2] < 1
      BY <1>1, <2>1
    <3> QED
      BY <2>1, <3>1
  <2> QED
    BY <1>3, <2>1, <2>2 DEF MintSample, DataOutside, MoreSteps
<1>7. CASE ReadTfdt \/ StartTrun
  <2>1. /\ next' = next /\ pc = "mint" /\ pc' = "mint" /\ ThisStep.op # "sample"
        /\ cursor'.moof = cursor.moof /\ cursor'.step = cursor.step + 1 /\ cursor.step \in Nat
    BY <1>7 DEF ReadTfdt, StartTrun, MoreSteps, Typed
  <2>2. \A p \in S : p[1] = cursor.moof => p[2] \in Nat /\ p[2] # cursor.step
    BY <1>1, <2>1 DEF ThisStep, Steps
  <2>3. \A p \in S : p[1] = cursor.moof => (p[2] < cursor.step + 1 <=> p[2] < cursor.step)
    BY <2>1, <2>2
  <2>4. ~ MintSample
    BY <2>1 DEF MintSample
  <2>5. DataOutside => Minted \subseteq Minted'
    BY <1>3, <2>1, <2>3
  <2> QED
    BY <1>3, <2>1, <2>3, <2>4, <2>5
<1>8. CASE MintSample
  <2>1. /\ next' = next /\ pc = "mint" /\ pc' = "mint" /\ ThisStep.op = "sample"
        /\ cursor'.moof = cursor.moof /\ cursor'.step = cursor.step + 1 /\ cursor.step \in Nat
        /\ cursor.step <= Len(Steps)
    BY <1>8 DEF MintSample, MoreSteps, Typed
  <2>2. cursor.moof \in 1..Len(stream) /\ cursor.step \in DOMAIN Steps /\ stream[cursor.moof].kind = "moof"
        /\ cursor.moof < next
    BY <2>1, StepsType
  <2>3. <<cursor.moof, cursor.step>> \in S
    BY <2>1, <2>2, SampleIs, StreamType DEF S, ThisStep, Steps
  <2>4. \A p \in S : p[1] = cursor.moof => (p[2] < cursor.step + 1 <=> p[2] < cursor.step \/ p[2] = cursor.step)
    BY <1>1, <2>1
  <2>5. \A p \in S : p = <<cursor.moof, cursor.step>> <=> p[1] = cursor.moof /\ p[2] = cursor.step
    BY <1>1
  <2>6. ~ DataOutside
    BY <1>8 DEF MintSample, DataOutside
  <2> QED
    BY <1>3, <1>8, <2>1, <2>2, <2>3, <2>4, <2>5, <2>6
<1>9. CASE DataOutside
  <2>1. next' = next /\ pc' = "error" /\ ~ MintSample
    BY <1>9 DEF DataOutside, Error, MintSample
  <2> QED
    BY <1>3, <1>9, <2>1
<1>10. CASE AllMinted
  <2>1. /\ next' = next /\ pc' = "read" /\ cursor' = cursor /\ pc = "mint" /\ ~ cursor.step <= Len(Steps)
    BY <1>10, StepsType DEF AllMinted
  <2>2. \A p \in S : p[1] = cursor.moof => p[2] < cursor.step
    BY <1>1, <2>1, StepsType DEF Steps
  <2> QED
    BY <1>3, <2>1, <2>2 DEF MintSample, DataOutside, MoreSteps
<1>11. CASE UNCHANGED vars
  <2>1. ~ MintSample /\ ~ DataOutside
    BY <1>11, StepsType DEF vars, MintSample, DataOutside, MoreSteps, Error, Typed
  <2> QED
    BY <1>3, <1>11, <2>1 DEF vars
<1> QED
  BY <1>4, <1>5, <1>6, <1>7, <1>8, <1>9, <1>10, <1>11 DEF Next

-----------------------------------------------------------------------------
(* Each sample in one place.                                               *)

\* The sample that is minted is in none.
LEMMA MintedIsNew ==
  ASSUME \A s \in Streams : Regular(s), OnceInv, MintSample
  PROVE  LET f == MintFrame(clock, ThisStep, <<cursor.moof + 1, PayloadStart(Mdat) + cursor.pos>>)
             p == <<cursor.moof, cursor.step>>
         IN  /\ f \in Frame /\ f.track = TrackOf(stream, p) /\ f.data = Place(stream, p)
             /\ ~ Somewhere(gops, bufs, frames, f.track, f.data)
<1> DEFINE i == cursor.moof
           k == cursor.step
           data == <<i + 1, PayloadStart(Mdat) + cursor.pos>>
           f == MintFrame(clock, ThisStep, data)
           p == <<i, k>>
           at == PayloadAfter(Steps)
<1>0. Typed /\ Placed /\ pc = "mint" /\ ThisStep.op = "sample" /\ k <= Len(Steps)
  BY DEF OnceInv, MintSample, MoreSteps
<1>1. /\ Steps \in Seq(Step) /\ i \in 1..Len(stream) /\ stream[i].kind = "moof"
      /\ ThisStep \in Step /\ k \in 1..Len(Steps) /\ ThisStep = Steps[k] /\ i < next
  BY <1>0, StepsType DEF ThisStep
<1>2. cursor.pos = at[k - 1] /\ \A l \in 1..Len(Steps) : at[l - 1] \in Int
  <2>1. \A l \in 1..Len(Steps) : l - 1 \in 0..Len(Steps)
    BY <1>1
  <2> QED
    BY <1>0, <1>1, <2>1, PayloadRuns DEF Placed, Runs
<1>3. data \in Nat \X Int /\ data = Place(stream, p)
  <2>1. PayloadStart(Mdat) \in Nat /\ cursor.pos \in Nat /\ i + 1 \in Nat
    BY <1>0 DEF PayloadStart, Typed
  <2> QED
    BY <1>2, <2>1 DEF Place, Mdat, Steps
<1> HIDE DEF data
<1>4. f \in Frame /\ f.track = TrackOf(stream, p) /\ f.data = Place(stream, p)
  <2>1. clock \in [Track -> Progress]
    BY <1>0 DEF Typed
  <2>2. f \in Frame /\ f.track = Remap[ThisStep.track]
    BY <1>0, <1>1, <1>3, <2>1, MintFrameType
  <2>3. f.data = data
    BY DEF MintFrame
  <2>4. TrackOf(stream, p) = Remap[ThisStep.track]
    BY DEF TrackOf, ThisStep, Steps
  <2> QED
    BY <1>3, <2>2, <2>3, <2>4
<1> HIDE DEF f
<1>5. ASSUME Somewhere(gops, bufs, frames, f.track, f.data) PROVE FALSE
  <2>1. f.track \in Track
    BY <1>4 DEF Frame
  <2>2. PICK q \in Minted : TrackOf(stream, q) = f.track /\ Place(stream, q) = f.data
    BY <1>5, <2>1 DEF OnceInv, Known
  <2>3. /\ q[1] \in 1..Len(stream) /\ stream[q[1]].kind = "moof" /\ q[2] \in DOMAIN stream[q[1]].steps
        /\ stream[q[1]].steps[q[2]].op = "sample"
        /\ q[1] = i => q[2] < k
    BY <1>0, SampleIs, StreamType DEF Minted
  <2>4. q[1] = i
    <3>1. q[1] + 1 = i + 1
      BY <1>4, <2>2 DEF Place
    <3> QED
      BY <1>1, <2>3, <3>1, StreamType
  <2>5. q[2] \in 1..(k - 1) /\ q[2] \in 1..Len(Steps) /\ Steps[q[2]].op = "sample"
    BY <1>1, <2>3, <2>4 DEF Steps
  <2>6. at[q[2] - 1] = at[k - 1]
    <3>1. PayloadStart(Mdat) + at[q[2] - 1] = PayloadStart(Mdat) + at[k - 1]
      BY <1>4, <2>2, <2>4 DEF Place, Mdat, Steps
    <3>2. PayloadStart(Mdat) \in Int
      BY DEF PayloadStart
    <3> HIDE DEF at
    <3> QED
      BY <1>1, <1>2, <2>5, <3>1, <3>2
  <2>7. Steps[q[2]].track = ThisStep.track
    <3>1. Steps[q[2]] \in Step
      BY <1>1, <2>5
    <3>2. Steps[q[2]].track \in Track /\ ThisStep.track \in Track
      BY <1>0, <1>1, <2>5, <3>1, StepFields
    <3>3. Remap[Steps[q[2]].track] = Remap[ThisStep.track]
      BY <1>4, <2>2, <2>4 DEF TrackOf, ThisStep, Steps
    <3> QED
      BY <3>2, <3>3, RemapAssumption
  <2>8. \A l \in 1..(k - 1) :
          (/\ Steps[k].op = "sample" /\ Steps[l].op = "sample"
           /\ Steps[k].track = Steps[l].track) => at[l - 1] # at[k - 1]
    <3>1. k \in DOMAIN Steps
      BY <1>1
    <3> QED
      BY <1>0, <1>1, <3>1, RegularFile DEF Steps
  <2> HIDE DEF at
  <2> QED
    BY <1>0, <1>1, <2>5, <2>6, <2>7, <2>8
<1> QED
  BY <1>4, <1>5 DEF f, data

LEMMA OnceInit == Init => OnceInv
<1> SUFFICES ASSUME Init PROVE OnceInv
  OBVIOUS
<1>1. Typed
  BY TypedInit
<1>2. Placed
  BY DEF Init, Placed
<1>3. \A t \in Track : \A d : ~ Somewhere(gops, bufs, frames, t, d)
  BY DEF Init, Somewhere, InGop, InBuf, InQueue, NoBufs, EmptyBuf
<1>4. Minted = {}
  <2>1. next = 1
    BY DEF Init
  <2>2. \A p \in Samples(stream) : ~ p[1] < 1
    BY <1>1, SampleIs, StreamType
  <2> QED
    BY <2>1, <2>2 DEF Minted
<1>5. Once(gops, bufs, frames)
  BY DEF Init, Once, InGop, InBuf, InQueue, NoBufs, EmptyBuf
<1> QED
  BY <1>1, <1>2, <1>3, <1>4, <1>5 DEF OnceInv, Known, Kept

LEMMA OnceStep ==
  ASSUME \A s \in Streams : Regular(s)
  PROVE  OnceInv /\ [Next]_vars => OnceInv'
<1> SUFFICES ASSUME OnceInv, [Next]_vars PROVE OnceInv'
  OBVIOUS
<1>0. Typed /\ Placed
  BY DEF OnceInv
<1>1. Typed' /\ Placed'
  BY <1>0, TypedStep, PlacedStep
<1>2. gops \in Seq(Gop) /\ bufs \in [Track -> TrackBuf] /\ frames \in Seq(Frame) /\ segNo \in Nat
  BY <1>0 DEF Typed
<1>3. /\ Once(gops, bufs, frames) /\ Known(gops, bufs, frames, stream, Minted)
      /\ pc # "error" => Kept(gops, bufs, frames, stream, Minted)
  BY DEF OnceInv
<1>4. ASSUME UNCHANGED <<gops, bufs, frames, stream>>, ~ MintSample, pc = "error" => pc' = "error",
             ~ DataOutside \/ pc' = "error"
      PROVE  OnceInv'
  <2>1. Minted \subseteq Minted' /\ (pc' # "error" => Minted' = Minted)
    BY <1>0, <1>4, MintedSteps
  <2> QED
    BY <1>1, <1>3, <1>4, <2>1 DEF OnceInv, Known, Kept
<1>5. CASE NoMoov \/ BadPair \/ DataOutside
  BY <1>4, <1>5 DEF NoMoov, BadPair, DataOutside, Error, MintSample, MoreSteps, Reading
<1>6. CASE ReadMoov \/ SkipBox \/ ReadPair
  BY <1>4, <1>6 DEF ReadMoov, SkipBox, ReadPair, Reading, MintSample, DataOutside, MoreSteps
<1>7. CASE ReadTfdt \/ StartTrun
  <2>1. ~ MintSample /\ pc # "error" /\ UNCHANGED <<gops, bufs, frames, stream>>
    BY <1>7 DEF ReadTfdt, StartTrun, MintSample, MoreSteps
  <2>2. ~ DataOutside
    BY <1>7 DEF ReadTfdt, StartTrun, DataOutside, Error, MoreSteps
  <2> QED
    BY <1>4, <2>1, <2>2
<1>8. CASE AllMinted
  BY <1>4, <1>8, StepsType DEF AllMinted, MintSample, DataOutside, Error
<1>9. CASE UNCHANGED vars
  <2>1. ~ MintSample /\ ~ DataOutside
    BY <1>0, <1>9, StepsType DEF vars, MintSample, DataOutside, MoreSteps, Error, Typed
  <2> QED
    BY <1>4, <1>9, <2>1 DEF vars
<1>10. CASE MintSample
  <2> DEFINE f == MintFrame(clock, ThisStep, <<cursor.moof + 1, PayloadStart(Mdat) + cursor.pos>>)
             p == <<cursor.moof, cursor.step>>
             more == Append(frames, f)
  <2>1. UNCHANGED <<gops, bufs, stream>> /\ frames' = more /\ pc # "error"
    BY <1>10 DEF MintSample, MoreSteps
  <2>2. /\ f \in Frame /\ f.track = TrackOf(stream, p) /\ f.data = Place(stream, p)
        /\ ~ Somewhere(gops, bufs, frames, f.track, f.data)
    BY <1>10, MintedIsNew
  <2>3. Minted' = Minted \cup {p}
    BY <1>0, <1>10, MintedSteps
  <2> HIDE DEF f, p
  <2>4. Once(gops, bufs, more)
    BY <1>2, <1>3, <2>2, MintOnce
  <2>5. \A t, d : Somewhere(gops, bufs, more, t, d) <=>
                    Somewhere(gops, bufs, frames, t, d) \/ (f.track = t /\ f.data = d)
    BY <1>2, <2>2, MintPlaces DEF Somewhere
  <2> HIDE DEF more
  <2>6. Known(gops, bufs, more, stream, Minted \cup {p})
    BY <1>3, <2>2, <2>5 DEF Known
  <2>7. Kept(gops, bufs, more, stream, Minted \cup {p})
    BY <1>3, <2>1, <2>2, <2>5 DEF Kept
  <2> QED
    BY <1>1, <2>1, <2>3, <2>4, <2>6, <2>7 DEF OnceInv
<1>11. ASSUME NEW list, NEW held, NEW queue, Once(list, held, queue),
              \A t \in Track : \A d : Somewhere(list, held, queue, t, d) <=> Somewhere(gops, bufs, frames, t, d),
              gops' = list, bufs' = held, frames' = queue, stream' = stream, Minted' = Minted, pc # "error"
       PROVE  OnceInv'
  <2>1. Known(list, held, queue, stream, Minted)
    BY <1>3, <1>11 DEF Known
  <2>2. Kept(list, held, queue, stream, Minted)
    <3>1. \A p \in Minted : TrackOf(stream, p) \in Track
      <4> TAKE p \in Minted
      <4>1. /\ p[1] \in 1..Len(stream) /\ stream[p[1]].kind = "moof" /\ p[2] \in DOMAIN stream[p[1]].steps
            /\ stream[p[1]].steps[p[2]].op = "sample"
        BY <1>0, SampleIs, StreamType DEF Minted
      <4>2. stream[p[1]].steps[p[2]] \in Step
        BY <1>0, <4>1, StreamType, BoxFields
      <4> QED
        BY <4>1, <4>2, StepFields, RemapAssumption DEF TrackOf
    <3> QED
      BY <1>3, <1>11, <3>1 DEF Kept
  <2> QED
    BY <1>1, <1>11, <2>1, <2>2 DEF OnceInv
<1>12. Once(WithGop(gops), NoBufs, frames) /\ WithGop(gops) \in Seq(Gop)
       /\ \A t \in Track : \A d : Somewhere(WithGop(gops), NoBufs, frames, t, d) <=> Somewhere(gops, bufs, frames, t, d)
  <2>1. Once(WithGop(gops), NoBufs, frames)
    BY <1>2, <1>3, CutOnce
  <2>2. ASSUME NEW t \in Track, NEW d
        PROVE  Somewhere(WithGop(gops), NoBufs, frames, t, d) <=> Somewhere(gops, bufs, frames, t, d)
    BY <1>2, CutPlaces DEF Somewhere
  <2>3. WithGop(gops) \in Seq(Gop)
    <3>1. segNo + 1 \in Nat
      BY <1>2
    <3>2. GopOf(bufs, segNo + 1) \in Gop
      BY <1>2, <3>1, GopOfType
    <3> QED
      BY <1>2, <3>2, Appended DEF WithGop
  <2> QED
    BY <2>1, <2>2, <2>3
<1>13. CASE EndOfFile
  <2>1. /\ gops' = WithGop(gops) /\ bufs' = NoBufs /\ frames' = frames /\ stream' = stream /\ pc # "error"
        /\ ~ MintSample /\ ~ DataOutside
    BY <1>13 DEF EndOfFile, MintSample, DataOutside, MoreSteps
  <2>2. Minted' = Minted
    BY <1>0, <2>1, MintedSteps
  <2> QED
    BY <1>11, <1>12, <2>1, <2>2
<1>14. CASE TakeFrame
  <2> DEFINE g == Head(frames)
             cut == Boundary(catalog, bufs, seen, g)
             list == IF cut THEN WithGop(gops) ELSE gops
             held == IF cut THEN NoBufs ELSE bufs
  <2>1. /\ gops' = list /\ bufs' = RecordFrame(held, g) /\ frames' = Tail(frames) /\ stream' = stream
        /\ pc # "error" /\ ~ MintSample /\ ~ DataOutside /\ frames # <<>>
    BY <1>14 DEF TakeFrame, MintSample, DataOutside, MoreSteps
  <2>2. Minted' = Minted
    BY <1>0, <2>1, MintedSteps
  <2>3. /\ list \in Seq(Gop) /\ held \in [Track -> TrackBuf] /\ Once(list, held, frames)
        /\ \A t \in Track : \A d : Somewhere(list, held, frames, t, d) <=> Somewhere(gops, bufs, frames, t, d)
    BY <1>2, <1>3, <1>12, NoBufsType
  <2> HIDE DEF list, held
  <2>4. Once(list, RecordFrame(held, g), Tail(frames))
    BY <1>2, <2>1, <2>3, RecordOnce
  <2>5. ASSUME NEW t \in Track, NEW d
        PROVE  Somewhere(list, RecordFrame(held, g), Tail(frames), t, d) <=> Somewhere(gops, bufs, frames, t, d)
    BY <1>2, <2>1, <2>3, RecordPlaces DEF Somewhere
  <2> HIDE DEF g
  <2> QED
    BY <1>11, <2>1, <2>2, <2>4, <2>5
<1> QED
  BY <1>5, <1>6, <1>7, <1>8, <1>9, <1>10, <1>13, <1>14 DEF Next

LEMMA InOneGop ==
  ASSUME OnceInv
  PROVE  EachSampleOnce
<1> SUFFICES ASSUME NEW i \in {i \in DOMAIN stream : stream[i].kind = "moof"}, i < next,
                    NEW k \in SamplesOf(i)
             PROVE  /\ Cardinality(Holding(i, k)) <= 1
                    /\ pc = "done" => Holding(i, k) # {}
  BY DEF EachSampleOnce
<1> DEFINE p == <<i, k>>
           t == TrackOf(stream, p)
           d == Place(stream, p)
<1>0. Typed
  BY DEF OnceInv
<1>1. /\ i \in 1..Len(stream) /\ stream[i].kind = "moof"
      /\ k \in DOMAIN stream[i].steps /\ stream[i].steps[k].op = "sample"
  BY <1>0, StreamType DEF SamplesOf
<1>2. t \in Track
  <2>1. stream[i].steps[k] \in Step
    BY <1>0, <1>1, StreamType, BoxFields
  <2> QED
    BY <1>1, <2>1, StepFields, RemapAssumption DEF TrackOf
<1>3. Holding(i, k) = {g \in DOMAIN gops : InGop(gops[g], t, d)}
  BY DEF Holding, InGop, TrackOf, Place
<1> HIDE DEF t, d
<1>4. Cardinality(Holding(i, k)) <= 1
  <2>1. \A g, h \in Holding(i, k) : g = h
    BY <1>2, <1>3 DEF OnceInv, Once
  <2>2. CASE Holding(i, k) = {}
    BY <2>2, FS_EmptySet
  <2>3. CASE Holding(i, k) # {}
    <3>1. PICK g \in Holding(i, k) : Holding(i, k) = {g}
      BY <2>1, <2>3
    <3> QED
      BY <3>1, FS_Singleton
  <2> QED
    BY <2>2, <2>3
<1>5. ASSUME pc = "done" PROVE Holding(i, k) # {}
  <2>1. p \in Minted
    <3>1. p \in Samples(stream)
      BY <1>0, <1>1, SampleIs, StreamType
    <3> QED
      BY <1>5, <3>1 DEF Minted
  <2>2. Somewhere(gops, bufs, frames, t, d)
    BY <1>5, <2>1 DEF OnceInv, Kept, t, d
  <2>3. ~ InBuf(bufs, t, d) /\ ~ InQueue(frames, t, d)
    BY <1>2, <1>5 DEF OnceInv, Placed, InBuf, InQueue, NoBufs, EmptyBuf
  <2> QED
    BY <1>3, <2>2, <2>3 DEF Somewhere
<1> QED
  BY <1>4, <1>5

\* In a file that is read without error each sample of each moof is in exactly
\* one GoP, that of its output track, with the bytes it was described by
\* (next_frame in fragment.rs and the loop of segment_fmp4_with_remap in
\* segment.rs); after an error none is in two.
THEOREM SamplesOnce ==
  ASSUME \A s \in Streams : Regular(s)
  PROVE  Spec => []EachSampleOnce
<1>1. OnceInv /\ [Next]_vars => OnceInv'
  BY OnceStep
<1>2. OnceInv => EachSampleOnce
  BY InOneGop
<1> QED
  BY <1>1, <1>2, OnceInit, PTL DEF Spec
=============================================================================
