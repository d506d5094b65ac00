---------------------------- MODULE GopCut_proofs ----------------------------
(***************************************************************************)
(* What the helpers of GopCut return, and what loops over lists compute.   *)
(***************************************************************************)
EXTENDS GopCut, FiniteSetTheorems, TLAPS

\* A box of a given kind has the fields of that kind.
LEMMA BoxFields ==
  ASSUME NEW b \in Box
  PROVE  /\ b.kind \in {"moov", "moof", "mdat", "other", "open"}
         /\ b.kind = "moov" => b.ok \in BOOLEAN /\ b.catalog \in Catalog
         /\ b.kind = "moof" => b.ok \in BOOLEAN /\ b.steps \in Seq(Step)
         /\ b.kind = "mdat" => b.len \in Nat /\ b.large \in BOOLEAN
BY DEF Box

LEMMA StepFields ==
  ASSUME NEW s \in Step
  PROVE  /\ s.op \in {"tfdt", "trun", "sample"}
         /\ s.op = "tfdt" => s.track \in Track /\ s.time \in Nat
         /\ s.op = "trun" => s.offset \in BOOLEAN /\ s.at \in Int
         /\ s.op = "sample" => /\ s.track \in Track /\ s.dur \in Nat /\ s.size \in Nat
                               /\ s.sync \in BOOLEAN /\ s.cts \in BOOLEAN
BY DEF Step

\* Minting gives a frame of the sample's output track, whose sequence number
\* is one more than the number of fragments minted for its input track.
LEMMA MintFrameType ==
  ASSUME NEW clock \in [Track -> Progress], NEW s \in Step, s.op = "sample",
         NEW data \in Nat \X Int
  PROVE  /\ MintFrame(clock, s, data) \in Frame
         /\ MintFrame(clock, s, data).track = Remap[s.track]
         /\ MintFrame(clock, s, data).seq = clock[s.track].count + 1
<1>1. /\ s.track \in Track /\ s.dur \in Nat /\ s.size \in Nat
      /\ s.sync \in BOOLEAN /\ s.cts \in BOOLEAN
  BY StepFields
<1>2. Remap[s.track] \in Track
  BY <1>1, RemapAssumption
<1>3. MoofLen[s.cts] \in Nat
  BY <1>1, LengthAssumption
<1>4. clock[s.track].time \in Nat /\ clock[s.track].count \in Nat
  BY <1>1 DEF Progress
<1> QED
  BY <1>1, <1>2, <1>3, <1>4 DEF MintFrame, Frame

LEMMA ClockType ==
  ASSUME NEW clock \in [Track -> Progress], NEW s \in Step
  PROVE  /\ s.op = "tfdt" => SetDecodeTime(clock, s) \in [Track -> Progress]
         /\ s.op = "sample" => Advance(clock, s) \in [Track -> Progress]
         /\ StartClock \in [Track -> Progress]
BY StepFields DEF SetDecodeTime, Advance, StartClock, Progress

LEMMA NoBufsType == NoBufs \in [Track -> TrackBuf]
BY DEF NoBufs, EmptyBuf, TrackBuf

LEMMA RecordFrameType ==
  ASSUME NEW bufs \in [Track -> TrackBuf], NEW f \in Frame
  PROVE  /\ RecordFrame(bufs, f) \in [Track -> TrackBuf]
         /\ f.track \in Track
         /\ RecordFrame(bufs, f)[f.track].frames = Append(bufs[f.track].frames, f)
         /\ \A t \in Track \ {f.track} : RecordFrame(bufs, f)[t] = bufs[t]
<1> DEFINE b == bufs[f.track]
           r == [frames |-> Append(b.frames, f),
                 len    |-> b.len + FrameLen(f),
                 dur    |-> b.dur + f.dur,
                 offs   |-> Append(b.offs, b.len + f.moof + MdatHeader),
                 syncs  |-> IF f.sync THEN b.syncs \cup {Len(b.frames) + 1}
                                      ELSE b.syncs]
<1>1. /\ f.track \in Track /\ f.dur \in Nat /\ f.size \in Nat /\ f.moof \in Nat
      /\ f.sync \in BOOLEAN
  BY DEF Frame
<1>2. /\ b.frames \in Seq(Frame) /\ b.len \in Nat /\ b.dur \in Nat
      /\ b.offs \in Seq(Nat) /\ b.syncs \in SUBSET Nat
  BY <1>1 DEF TrackBuf
<1>3. /\ Append(b.frames, f) \in Seq(Frame)
      /\ b.len + FrameLen(f) \in Nat
      /\ b.dur + f.dur \in Nat
      /\ Append(b.offs, b.len + f.moof + MdatHeader) \in Seq(Nat)
  <2> HIDE DEF b
  <2>1. Append(b.frames, f) \in Seq(Frame)
    BY <1>2
  <2>2. b.len + f.moof + MdatHeader \in Nat
    BY <1>1, <1>2 DEF MdatHeader
  <2>3. Append(b.offs, b.len + f.moof + MdatHeader) \in Seq(Nat)
    BY <1>2, <2>2
  <2>4. FrameLen(f) \in Nat
    BY <1>1 DEF FrameLen, MdatHeader
  <2>5. b.len + FrameLen(f) \in Nat
    BY <1>2, <2>4
  <2>6. b.dur + f.dur \in Nat
    BY <1>1, <1>2
  <2> QED
    BY <2>1, <2>3, <2>5, <2>6
<1>4. (IF f.sync THEN b.syncs \cup {Len(b.frames) + 1} ELSE b.syncs) \in SUBSET Nat
  BY <1>1, <1>2
<1>5. r \in TrackBuf
  BY <1>3, <1>4 DEF TrackBuf
<1>6. RecordFrame(bufs, f) = [bufs EXCEPT ![f.track] = r]
  BY DEF RecordFrame
<1> QED
  BY <1>1, <1>5, <1>6

LEMMA GopOfType ==
  ASSUME NEW bufs \in [Track -> TrackBuf], NEW n \in Nat
  PROVE  /\ GopOf(bufs, n) \in Gop
         /\ GopOf(bufs, n).number = n
         /\ \A t \in Track : GopOf(bufs, n).tracks[t].frames = bufs[t].frames
<1>1. ASSUME NEW t \in Track, t \in Present(bufs)
      PROVE  SegmentOf(bufs[t], t) \in Segment
  <2> DEFINE b == bufs[t]
  <2>1. /\ b.frames \in Seq(Frame) /\ b.len \in Nat /\ b.dur \in Nat
        /\ b.offs \in Seq(Nat) /\ b.syncs \in SUBSET Nat
    BY DEF TrackBuf
  <2>2. PrefixLen[t] \in Nat
    BY LengthAssumption
  <2>3. [i \in 1..Len(b.offs) |-> b.offs[i] + PrefixLen[t]] \in Seq(Nat)
    <3>1. \A i \in 1..Len(b.offs) : b.offs[i] + PrefixLen[t] \in Nat
      BY <2>1, <2>2
    <3>2. Len(b.offs) \in Nat
      BY <2>1
    <3> QED
      BY <3>1, <3>2
  <2>4. b.frames # <<>>
    BY <1>1 DEF Present
  <2>5. b.frames[1] \in Frame
    BY <2>1, <2>4
  <2>6. b.frames[1].tfdt \in Nat
    BY <2>5 DEF Frame
  <2>7. PrefixLen[t] + b.len \in Nat
    BY <2>1, <2>2
  <2> QED
    BY <2>1, <2>3, <2>6, <2>7 DEF SegmentOf, Segment
<1>2. NoSegment \in Segment
  BY DEF NoSegment, Segment
<1>3. GopOf(bufs, n) \in Gop
  BY <1>1, <1>2 DEF GopOf, Gop
<1>4. ASSUME NEW t \in Track
      PROVE  GopOf(bufs, n).tracks[t].frames = bufs[t].frames
  <2>1. CASE t \in Present(bufs)
    BY <2>1 DEF GopOf, SegmentOf
  <2>2. CASE t \notin Present(bufs)
    BY <2>2 DEF GopOf, NoSegment, Present
  <2> QED
    BY <2>1, <2>2
<1> QED
  BY <1>3, <1>4 DEF GopOf

LEMMA RemapCatalogType ==
  ASSUME NEW c \in Catalog
  PROVE  RemapCatalog(c) \in Catalog
<1>1. {Remap[t] : t \in c.video} \in SUBSET Track
  BY RemapAssumption DEF Catalog
<1>2. ASSUME NEW u \in Track
      PROVE  (IF \E t \in Track : Remap[t] = u
              THEN c.scale[CHOOSE t \in Track : Remap[t] = u] ELSE 0) \in Nat
  <2>1. c.scale \in [Track -> Nat]
    BY DEF Catalog
  <2>2. CASE \E t \in Track : Remap[t] = u
    <3>1. (CHOOSE t \in Track : Remap[t] = u) \in Track
      BY <2>2
    <3> QED
      BY <2>1, <2>2, <3>1
  <2> QED
    BY <2>2
<1> QED
  BY <1>1, <1>2 DEF RemapCatalog, Catalog
-----------------------------------------------------------------------------
(* Induction over the numbers.                                             *)

\* A set of numbers has a least one: the strict subsets of finite sets are
\* well-founded, and 0..m is a strict subset of 0..n when m < n.
LEMMA Least ==
  ASSUME NEW T \in SUBSET Nat, T # {}
  PROVE  \E m \in T : \A n \in T : m <= n
<1> DEFINE W == {0..n : n \in T}
<1>1. \A n \in T : 0..n \in FiniteSubsetsOf(Nat)
  BY FS_Interval DEF FiniteSubsetsOf
<1>2. PICK w \in W : \A v \in W : <<v, w>> \notin StrictSubsetOrdering(Nat)
  <2>1. W \subseteq FiniteSubsetsOf(Nat) /\ W # {}
    BY <1>1
  <2> HIDE DEF W
  <2> QED
    BY <2>1, FS_StrictSubsetOrderingWellFounded, WFMin
<1>3. PICK m \in T : w = 0..m
  BY <1>2
<1>4. ASSUME NEW n \in T, n < m
      PROVE  FALSE
  <2>1. 0..n \subseteq 0..m /\ m \in 0..m /\ m \notin 0..n
    BY <1>4
  <2>2. <<0..n, 0..m>> \in StrictSubsetOrdering(Nat)
    BY <2>1 DEF StrictSubsetOrdering
  <2> QED
    BY <1>2, <1>3, <2>2
<1> QED
  BY <1>4

\* Induction over the numbers, with the set of those the claim holds for.
LEMMA SetInduction ==
  ASSUME NEW P \in SUBSET Nat, 0 \in P, \A n \in P : n + 1 \in P
  PROVE  Nat \subseteq P
<1> SUFFICES ASSUME Nat \ P # {} PROVE FALSE
  OBVIOUS
<1>1. PICK m \in Nat \ P : \A n \in Nat \ P : m <= n
  BY Least
<1>2. m - 1 \in Nat /\ (m - 1) + 1 = m /\ ~ m <= m - 1
  BY <1>1
<1> QED
  BY <1>1, <1>2
-----------------------------------------------------------------------------
(* Counting.                                                               *)

Weighs(S, w) ==
  /\ IsFiniteSet(S)
  /\ w \in [S -> Int]
  /\ \A x, y \in S : w[x] = w[y] => x = y

NoHeavier(S, w, x) == {y \in S : w[y] <= w[x]}

\* How many are not heavier than x: the place of x.
LEMMA Ranks ==
  ASSUME NEW S, NEW w, Weighs(S, w)
  PROVE  /\ Cardinality(S) \in Nat
         /\ \A x \in S : Cardinality(NoHeavier(S, w, x)) \in 1..Cardinality(S)
         /\ \A x, y \in S : w[x] < w[y] => Cardinality(NoHeavier(S, w, x)) < Cardinality(NoHeavier(S, w, y))
         /\ \A i \in 1..Cardinality(S) : \E x \in S : Cardinality(NoHeavier(S, w, x)) = i
<1> DEFINE n == Cardinality(S)
           r == [x \in S |-> Cardinality(NoHeavier(S, w, x))]
<1>0. /\ IsFiniteSet(S) /\ w \in [S -> Int]
      /\ \A x, y \in S : w[x] = w[y] => x = y
  BY DEF Weighs
<1>1. n \in Nat
  BY <1>0, FS_CardinalityType
<1>2. ASSUME NEW x \in S
      PROVE  IsFiniteSet(NoHeavier(S, w, x)) /\ r[x] \in 1..n
  <2>1. NoHeavier(S, w, x) \in SUBSET S /\ x \in NoHeavier(S, w, x)
    BY <1>0 DEF NoHeavier
  <2>2. IsFiniteSet(NoHeavier(S, w, x)) /\ Cardinality(NoHeavier(S, w, x)) <= n
    BY <1>0, <2>1, FS_Subset
  <2>3. Cardinality(NoHeavier(S, w, x)) \in Nat
    BY <2>2, FS_CardinalityType
  <2>4. Cardinality(NoHeavier(S, w, x)) # 0
    BY <2>1, <2>2, FS_EmptySet
  <2> QED
    BY <1>1, <2>2, <2>3, <2>4
<1>3. ASSUME NEW x \in S, NEW y \in S, w[x] < w[y]
      PROVE  r[x] < r[y]
  <2>1. NoHeavier(S, w, x) \in SUBSET NoHeavier(S, w, y)
    BY <1>0, <1>3 DEF NoHeavier
  <2>2. y \in NoHeavier(S, w, y) /\ y \notin NoHeavier(S, w, x)
    BY <1>0, <1>3 DEF NoHeavier
  <2>3. /\ r[x] <= r[y]
        /\ r[y] = r[x] => NoHeavier(S, w, y) = NoHeavier(S, w, x)
    BY <1>2, <2>1, FS_Subset
  <2>4. r[x] \in Nat /\ r[y] \in Nat
    BY <1>1, <1>2
  <2> QED
    BY <2>2, <2>3, <2>4
<1>4. ASSUME NEW i \in 1..n
      PROVE  \E x \in S : r[x] = i
  <2>1. r \in [S -> 1..n]
    BY <1>2
  <2>2. \A x, y \in S : r[x] = r[y] => x = y
    <3> SUFFICES ASSUME NEW x \in S, NEW y \in S, r[x] = r[y] PROVE x = y
      OBVIOUS
    <3>1. ~ w[x] < w[y] /\ ~ w[y] < w[x]
      BY <1>1, <1>2, <1>3
    <3>2. w[x] \in Int /\ w[y] \in Int
      BY <1>0
    <3> QED
      BY <1>0, <3>1, <3>2
  <2>3. r \in Injection(S, 1..n)
    BY <2>1, <2>2 DEF Injection, IsInjective
  <2>4. IsFiniteSet(1..n) /\ Cardinality(1..n) = n
    BY <1>1, FS_Interval
  <2>5. r \in Surjection(S, 1..n)
    <3> HIDE DEF r
    <3>1. Cardinality(S) = Cardinality(1..n)
      BY <2>4
    <3>2. IsFiniteSet(1..n)
      BY <2>4
    <3> HIDE DEF n
    <3> QED
      BY <2>3, <3>1, <3>2, FS_Injection
  <2> QED
    BY <2>5 DEF Surjection
<1> QED
  BY <1>1, <1>2, <1>3, <1>4

\* A list without a repetition has as many elements as places.
LEMMA Counted ==
  ASSUME NEW S, NEW n \in Nat, NEW s \in [1..n -> S],
         \A i, j \in 1..n : s[i] = s[j] => i = j,
         \A x \in S : \E i \in 1..n : s[i] = x
  PROVE  IsFiniteSet(S) /\ Cardinality(S) = n
<1>1. s \in Injection(1..n, S) /\ s \in Surjection(1..n, S)
  BY DEF Injection, Surjection, IsInjective
<1>2. IsFiniteSet(1..n)
  BY FS_Interval
<1>3. IsFiniteSet(S)
  BY <1>1, <1>2, FS_Surjection
<1>4. ExistsBijection(1..n, S)
  BY <1>1 DEF ExistsBijection, Bijection
<1>5. Cardinality(S) = n
  BY <1>4, FS_CountingElements
<1> QED
  BY <1>3, <1>5

\* Finitely many numbers have finitely many values.
LEMMA ImageFinite ==
  ASSUME NEW S, IsFiniteSet(S), NEW f
  PROVE  IsFiniteSet({f[x] : x \in S})
<1>1. PICK g, T : g = [x \in S |-> f[x]] /\ T = {f[x] : x \in S}
  OBVIOUS
<1>2. g \in Surjection(S, T)
  BY <1>1 DEF Surjection
<1> QED
  BY <1>1, <1>2, FS_Surjection

LEMMA TracksFinite == ASSUME NEW S \in SUBSET Track PROVE IsFiniteSet(S)
  BY TrackAssumption, FS_Subset

-----------------------------------------------------------------------------
(* A loop as a function: the value of a state at which it stops, and for   *)
(* any other that of the state after it.                                   *)

Loop(f, S, over, base, nxt) == f = [x \in S |-> IF x \in over THEN base[x] ELSE f[nxt[x]]]

\* Where a measure descends, there is such a function.
LEMMA TailRecursion ==
  ASSUME NEW S, NEW M \in Nat, NEW m \in [S -> 0..M], NEW over, NEW base, NEW nxt,
         \A x \in S : x \notin over => nxt[x] \in S /\ m[nxt[x]] < m[x]
  PROVE  \E f : Loop(f, S, over, base, nxt)
<1> DEFINE Holds(f, x) == f[x] = IF x \in over THEN base[x] ELSE f[nxt[x]]
           P == {n \in Nat : \E f : /\ f = [x \in S |-> f[x]]
                                    /\ \A x \in S : m[x] < n => Holds(f, x)}
<1>0. \A x \in S : m[x] \in 0..M /\ m[x] \in Nat
  OBVIOUS
<1>1. 0 \in P
  <2> DEFINE g == [x \in S |-> base[x]]
  <2>1. g = [x \in S |-> g[x]] /\ \A x \in S : ~ m[x] < 0
    BY <1>0
  <2> QED
    BY <2>1
<1>2. ASSUME NEW n \in P PROVE n + 1 \in P
  <2>1. n \in Nat
    OBVIOUS
  <2>2. PICK f : f = [x \in S |-> f[x]] /\ \A x \in S : m[x] < n => Holds(f, x)
    OBVIOUS
  <2> DEFINE g == [x \in S |-> IF m[x] < n THEN f[x]
                               ELSE IF x \in over THEN base[x] ELSE f[nxt[x]]]
  <2>3. ASSUME NEW x \in S, m[x] < n + 1 PROVE Holds(g, x)
    <3>1. CASE x \in over
      BY <2>2, <3>1
    <3>2. CASE x \notin over
      <4>1. nxt[x] \in S /\ m[nxt[x]] < n
        BY <1>0, <2>1, <2>3, <3>2
      <4>2. g[nxt[x]] = f[nxt[x]]
        BY <4>1
      <4> QED
        BY <2>2, <3>2, <4>2
    <3> QED
      BY <3>1, <3>2
  <2>4. g = [x \in S |-> g[x]]
    OBVIOUS
  <2> HIDE DEF g, Holds
  <2> QED
    BY <2>1, <2>3, <2>4
<1>3. M + 1 \in P
  <2>1. P \in SUBSET Nat
    OBVIOUS
  <2> HIDE DEF P
  <2> QED
    BY <1>1, <1>2, <2>1, SetInduction
<1>4. PICK f : f = [x \in S |-> f[x]] /\ \A x \in S : m[x] < M + 1 => Holds(f, x)
  BY <1>3
<1>5. \A x \in S : Holds(f, x)
  BY <1>0, <1>4
<1> QED
  BY <1>4, <1>5 DEF Loop
=============================================================================
