--------------------------- MODULE Archive_proofs ---------------------------
(***************************************************************************)
(* The two scans of a wrapper, for every file: where scan_wrapper_stream   *)
(* and unwrap both accept a file, they find the same segments.             *)
(***************************************************************************)
EXTENDS Archive, GopCut_proofs

-----------------------------------------------------------------------------
(* Boxes.                                                                  *)

\* A header that is read is that of a box that ends where it may.
LEMMA HeaderRead ==
  ASSUME NEW file, Boxed(file), NEW p, NEW end \in Nat, NEW h, h = ReadBoxHeader(file, p, end)
  PROVE  /\ h.ok \in BOOLEAN
         /\ h.ok <=> /\ p \in DOMAIN file.head
                     /\ p + file.head[p].hlen <= end
                     /\ p + file.head[p].len <= end
         /\ h.ok => /\ p \in Nat /\ p \in DOMAIN file.head
                    /\ h.kind = file.head[p].kind
                    /\ h.start = p + file.head[p].hlen
                    /\ h.end = p + file.head[p].len
                    /\ h.end \in 0..end /\ p + 8 <= h.end /\ h.start \in 0..end
                    /\ IsMuxl(h) <=> h.kind = "muxl"
         /\ IsMuxl(h) \in BOOLEAN
<1>1. ASSUME p \in DOMAIN file.head
      PROVE  /\ p \in Nat /\ file.head[p].hlen \in {8, 16} /\ file.head[p].len \in Nat
             /\ file.head[p].hlen <= file.head[p].len
             /\ file.head[p].kind = "muxl" => file.head[p].hlen + 16 <= file.head[p].len
  BY <1>1 DEF Boxed
<1>2. CASE /\ p \in DOMAIN file.head
           /\ p + file.head[p].hlen <= end
           /\ p + file.head[p].len <= end
  <2>1. h = [ok |-> TRUE, kind |-> file.head[p].kind,
             start |-> p + file.head[p].hlen, end |-> p + file.head[p].len]
    BY <1>1, <1>2 DEF ReadBoxHeader
  <2> QED
    BY <1>1, <1>2, <2>1 DEF IsMuxl
<1>3. CASE ~ (/\ p \in DOMAIN file.head
              /\ p + file.head[p].hlen <= end
              /\ p + file.head[p].len <= end)
  <2>1. h = BadHeader
    BY <1>1, <1>3 DEF ReadBoxHeader
  <2> QED
    BY <1>3, <2>1 DEF IsMuxl, BadHeader
<1> QED
  BY <1>2, <1>3

-----------------------------------------------------------------------------
(* locate_segment_stream.                                                  *)

FindBody(file, f, p) ==
  LET h == ReadBoxHeader(file, p, file.size)
  IN  IF p + 8 > file.size THEN [ok |-> TRUE, from |-> 0, to |-> file.size]
      ELSE IF ~h.ok THEN [ok |-> FALSE, from |-> 0, to |-> 0]
      ELSE IF h.kind = "mdat" THEN [ok |-> TRUE, from |-> h.start, to |-> h.end]
      ELSE IF HeadsStream(file, p, h) THEN [ok |-> TRUE, from |-> p, to |-> file.size]
      ELSE f[h.end]

\* What the search finds from each place on.
Find(file) == CHOOSE f : f = [p \in 0..file.size |-> FindBody(file, f, p)]

LEMMA LocatedIsFind == \A file : Located(file) = Find(file)[0]
  BY Zenon DEF Located, Find, FindBody

LEMMA FindIs ==
  ASSUME NEW file, Boxed(file)
  PROVE  \A p \in 0..file.size : Find(file)[p] = FindBody(file, Find(file), p)
<1> DEFINE S == 0..file.size
           H(p) == ReadBoxHeader(file, p, file.size)
           On(p) == p + 8 <= file.size /\ H(p).ok /\ H(p).kind # "mdat" /\ ~HeadsStream(file, p, H(p))
           m == [p \in S |-> file.size - p]
           stop == {p \in S : ~ On(p)}
           none == [p \in S |-> 0]
           base == [p \in S |-> FindBody(file, none, p)]
           nxt == [p \in S |-> H(p).end]
<1>0. file.size \in Nat
  BY DEF Boxed
<1>1. m \in [S -> 0..file.size]
  BY <1>0
<1>2. ASSUME NEW p \in S, p \notin stop PROVE nxt[p] \in S /\ m[nxt[p]] < m[p]
  <2>1. On(p)
    BY <1>2
  <2>2. H(p).end \in 0..file.size /\ p + 8 <= H(p).end /\ p \in Nat
    BY <1>0, <2>1, HeaderRead
  <2> HIDE DEF H
  <2> QED
    BY <1>0, <2>2
<1>3. PICK f : Loop(f, S, stop, base, nxt)
  <2>1. \A p \in S : p \notin stop => nxt[p] \in S /\ m[nxt[p]] < m[p]
    BY <1>2
  <2> HIDE DEF S, m, stop, base, nxt
  <2>2. file.size \in Nat /\ m \in [S -> 0..file.size]
    BY <1>0, <1>1
  <2> QED
    BY <2>1, <2>2, TailRecursion
<1>4. ASSUME NEW p \in S PROVE (IF p \in stop THEN base[p] ELSE f[nxt[p]]) = FindBody(file, f, p)
  <2>1. CASE On(p)
    <3>1. FindBody(file, f, p) = f[H(p).end]
      BY <1>0, <2>1 DEF FindBody
    <3> QED
      BY <2>1, <3>1
  <2>2. CASE ~ On(p)
    <3>1. FindBody(file, none, p) = FindBody(file, f, p)
      BY <1>0, <2>2 DEF FindBody
    <3> QED
      BY <2>2, <3>1
  <2> QED
    BY <2>1, <2>2
<1>5. f = [p \in 0..file.size |-> FindBody(file, f, p)]
  <2> HIDE DEF stop, base, nxt
  <2> QED
    BY <1>3, <1>4 DEF Loop
<1>6. Find(file) = [p \in 0..file.size |-> FindBody(file, Find(file), p)]
  BY <1>5, Zenon DEF Find
<1> HIDE DEF S
<1> QED
  BY <1>6

-----------------------------------------------------------------------------
(* scan_segments.                                                          *)

States(end) ==
  [pos : 0..end, open : [from : -1..end, muxl : BOOLEAN], segs : Seq([from : Nat, to : Nat])]

ScanBody(file, end, f, s) ==
  LET h == ReadBoxHeader(file, s.pos, end)
  IN  IF s.pos + 8 > end THEN CloseLast(file, s, end)
      ELSE IF \/ ~h.ok
              \/ ~IsUuid(h) /\ s.open.from < 0
              \/ Cuts(s, h) /\ ~Describes(file, OpenTo(s, s.pos))
      THEN Refused
      ELSE f[TakeHeader(s, h)]

\* What the scan of the boxes before `end` returns from each state on.
Scan(file, end) == CHOOSE f : f = [s \in States(end) |-> ScanBody(file, end, f, s)]

AtStart(p) == [pos |-> p, open |-> NoneOpen, segs |-> <<>>]

LEMMA ScanSegmentsIsScan ==
  \A file, stream0 : ScanSegments(file, stream0) = Scan(file, stream0.to)[AtStart(stream0.from)]
  BY Zenon DEF ScanSegments, Scan, ScanBody, States, AtStart

\* After a box that is taken the loop is in one of its states, further on.
LEMMA TakeHeaderType ==
  ASSUME NEW file, Boxed(file), NEW end \in Nat, NEW s \in States(end),
         NEW h, h = ReadBoxHeader(file, s.pos, end), h.ok
  PROVE  TakeHeader(s, h) \in States(end) /\ s.pos + 8 <= TakeHeader(s, h).pos
<1>1. /\ s.pos \in 0..end /\ s.open \in [from : -1..end, muxl : BOOLEAN]
      /\ s.segs \in Seq([from : Nat, to : Nat])
  BY DEF States
<1>2. h.end \in 0..end /\ s.pos + 8 <= h.end /\ IsMuxl(h) \in BOOLEAN
  BY <1>1, HeaderRead
<1>3. s.open.from \in -1..end /\ s.open.muxl \in BOOLEAN
  BY <1>1
<1> DEFINE c == Cuts(s, h)
           next == TakeHeader(s, h)
<1>4. next.pos \in 0..end /\ next.pos = h.end
  BY <1>2 DEF TakeHeader
<1>5. next.open \in [from : -1..end, muxl : BOOLEAN]
  <2>1. CASE IsUuid(h)
    <3>1. next.open = [from |-> IF c \/ s.open.from < 0 THEN s.pos ELSE s.open.from,
                       muxl |-> IsMuxl(h) \/ (s.open.muxl /\ ~c)]
      BY <2>1 DEF TakeHeader
    <3>2. (IF c \/ s.open.from < 0 THEN s.pos ELSE s.open.from) \in -1..end
      BY <1>1, <1>3
    <3>3. (IsMuxl(h) \/ (s.open.muxl /\ ~c)) \in BOOLEAN
      OBVIOUS
    <3> HIDE DEF c, next
    <3> QED
      BY <3>1, <3>2, <3>3
  <2>2. CASE ~IsUuid(h)
    BY <1>1, <2>2 DEF TakeHeader
  <2> QED
    BY <2>1, <2>2
<1>6. next.segs \in Seq([from : Nat, to : Nat])
  <2>1. CASE c
    <3>1. next.segs = Append(s.segs, OpenTo(s, s.pos))
      BY <2>1 DEF TakeHeader
    <3>2. s.open.from >= 0
      BY <2>1 DEF Cuts, OpensSegment
    <3>3. OpenTo(s, s.pos) \in [from : Nat, to : Nat]
      BY <1>1, <1>3, <3>2 DEF OpenTo
    <3> QED
      BY <1>1, <3>1, <3>3
  <2>2. CASE ~c
    BY <1>1, <2>2 DEF TakeHeader
  <2> QED
    BY <2>1, <2>2
<1>7. next = [pos |-> next.pos, open |-> next.open, segs |-> next.segs]
  BY DEF TakeHeader
<1>8. next \in States(end)
  <2> HIDE DEF next
  <2> QED
    BY <1>4, <1>5, <1>6, <1>7 DEF States
<1>9. s.pos + 8 <= next.pos
  <2> HIDE DEF next
  <2> QED
    BY <1>2, <1>4
<1> QED
  BY <1>8, <1>9

LEMMA ScanIs ==
  ASSUME NEW file, Boxed(file), NEW end \in Nat
  PROVE  \A s \in States(end) : Scan(file, end)[s] = ScanBody(file, end, Scan(file, end), s)
<1> DEFINE S == States(end)
           H(s) == ReadBoxHeader(file, s.pos, end)
           On(s) == /\ ~ s.pos + 8 > end
                    /\ ~ (\/ ~H(s).ok
                          \/ ~IsUuid(H(s)) /\ s.open.from < 0
                          \/ Cuts(s, H(s)) /\ ~Describes(file, OpenTo(s, s.pos)))
           m == [s \in S |-> end - s.pos]
           stop == {s \in S : ~ On(s)}
           none == [s \in S |-> 0]
           base == [s \in S |-> ScanBody(file, end, none, s)]
           nxt == [s \in S |-> TakeHeader(s, H(s))]
<1>0. \A s \in S : s.pos \in 0..end
  BY DEF States
<1>1. m \in [S -> 0..end]
  BY <1>0
<1>2. ASSUME NEW s \in S, s \notin stop PROVE nxt[s] \in S /\ m[nxt[s]] < m[s]
  <2>1. On(s)
    BY <1>2
  <2>2. H(s).ok
    BY <2>1
  <2>3. TakeHeader(s, H(s)) \in S /\ s.pos + 8 <= TakeHeader(s, H(s)).pos
    BY <2>2, TakeHeaderType
  <2>4. s.pos \in 0..end /\ TakeHeader(s, H(s)).pos \in 0..end
    BY <1>0, <2>3
  <2> HIDE DEF H, S
  <2> QED
    BY <2>3, <2>4
<1>3. PICK f : Loop(f, S, stop, base, nxt)
  <2>1. \A s \in S : s \notin stop => nxt[s] \in S /\ m[nxt[s]] < m[s]
    BY <1>2
  <2> HIDE DEF S, m, stop, base, nxt
  <2>2. m \in [S -> 0..end]
    BY <1>1
  <2> QED
    BY <2>1, <2>2, TailRecursion
<1>4. ASSUME NEW s \in S PROVE (IF s \in stop THEN base[s] ELSE f[nxt[s]]) = ScanBody(file, end, f, s)
  <2>1. CASE On(s)
    <3>1. ScanBody(file, end, f, s) = f[TakeHeader(s, H(s))]
      BY <2>1 DEF ScanBody
    <3>2. s \notin stop /\ nxt[s] = TakeHeader(s, H(s))
      BY <2>1
    <3> QED
      BY <3>1, <3>2
  <2>2. CASE ~ On(s)
    <3>1. ScanBody(file, end, none, s) = ScanBody(file, end, f, s)
      BY <2>2 DEF ScanBody
    <3>2. s \in stop /\ base[s] = ScanBody(file, end, none, s)
      BY <2>2
    <3> QED
      BY <3>1, <3>2
  <2> QED
    BY <2>1, <2>2
<1>5. f = [s \in States(end) |-> ScanBody(file, end, f, s)]
  <2> HIDE DEF stop, base, nxt
  <2> QED
    BY <1>3, <1>4 DEF Loop
<1>6. Scan(file, end) = [s \in States(end) |-> ScanBody(file, end, Scan(file, end), s)]
  BY <1>5, Zenon DEF Scan
<1> HIDE DEF S
<1> QED
  BY <1>6

-----------------------------------------------------------------------------
(* from_segment.                                                           *)

CatBody(file, to, f, p) ==
  LET h == ReadBoxHeader(file, p, to)
  IN  IF p + 8 > to \/ ~h.ok THEN NoCatalog
      ELSE IF IsMuxl(h) THEN [ok |-> TRUE, catalog |-> file.head[p].body]
      ELSE f[h.end]

\* The catalog that is found from each place on.
Cat(file, from, to) == CHOOSE f : f = [p \in from..to |-> CatBody(file, to, f, p)]

LEMMA FromSegmentIsCat ==
  \A file, seg : FromSegment(file, seg) = Cat(file, seg.from, seg.to)[seg.from]
  BY Zenon DEF FromSegment, Cat, CatBody

LEMMA CatIs ==
  ASSUME NEW file, Boxed(file), NEW to \in Nat
  PROVE  \A p \in 0..to : Cat(file, 0, to)[p] = CatBody(file, to, Cat(file, 0, to), p)
<1> DEFINE S == 0..to
           H(p) == ReadBoxHeader(file, p, to)
           On(p) == p + 8 <= to /\ H(p).ok /\ ~IsMuxl(H(p))
           m == [p \in S |-> to - p]
           stop == {p \in S : ~ On(p)}
           none == [p \in S |-> 0]
           base == [p \in S |-> CatBody(file, to, none, p)]
           nxt == [p \in S |-> H(p).end]
<1>1. m \in [S -> 0..to]
  OBVIOUS
<1>2. ASSUME NEW p \in S, p \notin stop PROVE nxt[p] \in S /\ m[nxt[p]] < m[p]
  <2>1. On(p)
    BY <1>2
  <2>2. H(p).end \in 0..to /\ p + 8 <= H(p).end /\ p \in Nat
    BY <2>1, HeaderRead
  <2> HIDE DEF H
  <2> QED
    BY <2>2
<1>3. PICK f : Loop(f, S, stop, base, nxt)
  <2>1. \A p \in S : p \notin stop => nxt[p] \in S /\ m[nxt[p]] < m[p]
    BY <1>2
  <2> HIDE DEF S, m, stop, base, nxt
  <2>2. m \in [S -> 0..to]
    BY <1>1
  <2> QED
    BY <2>1, <2>2, TailRecursion
<1>4. ASSUME NEW p \in S PROVE (IF p \in stop THEN base[p] ELSE f[nxt[p]]) = CatBody(file, to, f, p)
  <2>1. CASE On(p)
    <3>1. CatBody(file, to, f, p) = f[H(p).end]
      BY <2>1 DEF CatBody
    <3> QED
      BY <2>1, <3>1
  <2>2. CASE ~ On(p)
    <3>1. CatBody(file, to, none, p) = CatBody(file, to, f, p)
      BY <2>2 DEF CatBody
    <3> QED
      BY <2>2, <3>1
  <2> QED
    BY <2>1, <2>2
<1>5. f = [p \in 0..to |-> CatBody(file, to, f, p)]
  <2> HIDE DEF stop, base, nxt
  <2> QED
    BY <1>3, <1>4 DEF Loop
<1>6. Cat(file, 0, to) = [p \in 0..to |-> CatBody(file, to, Cat(file, 0, to), p)]
  BY <1>5, Zenon DEF Cat
<1> HIDE DEF S
<1> QED
  BY <1>6

-----------------------------------------------------------------------------
(* A file without a MUXL uuid holds no segment.                            *)

\* No box before p is a MUXL uuid: the search for one goes on from p.
NoneBefore(file, p) ==
  \A to \in 0..file.size :
    Cat(file, 0, to)[0] = IF p <= to THEN Cat(file, 0, to)[p] ELSE NoCatalog

LEMMA NoneBeforeStart == \A file : Boxed(file) => NoneBefore(file, 0)
  BY DEF NoneBefore, Boxed

LEMMA NoneBeforeNext ==
  ASSUME NEW file, Boxed(file), NEW p \in Nat, NoneBefore(file, p), p \in DOMAIN file.head,
         p + file.head[p].len <= file.size, file.head[p].kind # "muxl"
  PROVE  NoneBefore(file, p + file.head[p].len)
<1> DEFINE q == p + file.head[p].len
<1>0. /\ file.size \in Nat /\ file.head[p].len \in Nat /\ q \in Nat /\ p + 8 <= q
      /\ file.head[p].hlen \in Nat /\ file.head[p].hlen <= file.head[p].len
  BY DEF Boxed
<1> SUFFICES ASSUME NEW to \in 0..file.size
             PROVE  Cat(file, 0, to)[0] = IF q <= to THEN Cat(file, 0, to)[q] ELSE NoCatalog
  BY DEF NoneBefore
<1>1. to \in Nat
  BY <1>0
<1>2. PICK h : h = ReadBoxHeader(file, p, to)
  OBVIOUS
<1>3. CASE to < p
  <2>1. ~ p <= to /\ ~ q <= to
    BY <1>0, <1>1, <1>3
  <2> QED
    BY <2>1 DEF NoneBefore
<1>4. CASE p <= to
  <2>1. Cat(file, 0, to)[0] = CatBody(file, to, Cat(file, 0, to), p)
    BY <1>0, <1>1, <1>4, CatIs DEF NoneBefore
  <2>2. CASE q <= to
    <3>1. h.ok /\ h.end = q /\ ~ IsMuxl(h)
      BY <1>0, <1>1, <1>2, <2>2, HeaderRead
    <3>2. ~ p + 8 > to
      BY <1>0, <1>1, <2>2
    <3>3. CatBody(file, to, Cat(file, 0, to), p) = Cat(file, 0, to)[q]
      BY <1>2, <3>1, <3>2 DEF CatBody
    <3> QED
      BY <2>1, <2>2, <3>3
  <2>3. CASE ~ q <= to
    <3>1. ~ h.ok
      BY <1>0, <1>1, <1>2, <2>3, HeaderRead
    <3>2. CatBody(file, to, Cat(file, 0, to), p) = NoCatalog
      BY <1>2, <3>1 DEF CatBody
    <3> QED
      BY <2>1, <2>3, <3>2
  <2> QED
    BY <2>2, <2>3
<1> QED
  BY <1>0, <1>1, <1>3, <1>4

\* So no prefix of the file describes a track,
LEMMA NothingDescribed ==
  ASSUME NEW file, Boxed(file), NoneBefore(file, file.size), NEW to \in 0..file.size
  PROVE  ~ Describes(file, [from |-> 0, to |-> to])
<1>0. file.size \in Nat /\ to \in Nat
  BY DEF Boxed
<1>1. Cat(file, 0, to)[0] = NoCatalog
  <2>1. CASE to < file.size
    BY <1>0, <2>1 DEF NoneBefore
  <2>2. CASE to = file.size
    <3>1. Cat(file, 0, to)[0] = CatBody(file, to, Cat(file, 0, to), to)
      BY <1>0, <2>2, CatIs DEF NoneBefore
    <3>2. to + 8 > to
      BY <1>0
    <3> QED
      BY <3>1, <3>2 DEF CatBody
  <2> QED
    BY <1>0, <2>1, <2>2
<1>2. FromSegment(file, [from |-> 0, to |-> to]) = NoCatalog
  BY <1>1, FromSegmentIsCat
<1>3. DOMAIN EmptyCatalog.rend = {}
  BY DEF EmptyCatalog
<1>4. TracksOf(EmptyCatalog) = {}
  BY <1>3 DEF TracksOf
<1> QED
  BY <1>2, <1>4 DEF Describes, NoCatalog

\* a scan with a segment open at the first byte is refused,
LEMMA OpenAtZeroRefused ==
  ASSUME NEW file, Boxed(file), NoneBefore(file, file.size)
  PROVE  \A s \in States(file.size) : s.open.from = 0 => ~ Scan(file, file.size)[s].ok
<1> DEFINE end == file.size
           P == {n \in Nat : \A s \in States(end) : s.open.from = 0 /\ end - s.pos <= n
                                                      => ~ Scan(file, end)[s].ok}
<1>0. end \in Nat
  BY DEF Boxed
<1>1. ASSUME NEW s \in States(end), s.open.from = 0,
             \A t \in States(end) : t.open.from = 0 /\ s.pos < t.pos => ~ Scan(file, end)[t].ok
      PROVE  ~ Scan(file, end)[s].ok
  <2>0. s.pos \in 0..end
    BY DEF States
  <2>1. PICK h : h = ReadBoxHeader(file, s.pos, end)
    OBVIOUS
  <2>2. Scan(file, end)[s] = ScanBody(file, end, Scan(file, end), s)
    BY <1>0, ScanIs
  <2>3. ASSUME NEW to \in 0..end PROVE ~ Describes(file, OpenTo(s, to))
    BY <1>1, <2>3, NothingDescribed DEF OpenTo
  <2>4. CASE s.pos + 8 > end
    <3>1. Scan(file, end)[s] = CloseLast(file, s, end)
      BY <2>2, <2>4 DEF ScanBody
    <3>2. ~ s.open.from < 0 /\ end \in 0..end
      BY <1>0, <1>1
    <3>3. Scan(file, end)[s].ok = Describes(file, OpenTo(s, end))
      BY <3>1, <3>2 DEF CloseLast
    <3> QED
      BY <2>3, <3>2, <3>3
  <2>5. CASE ~ s.pos + 8 > end
    <3>1. CASE ~h.ok \/ Cuts(s, h)
      <4>1. Scan(file, end)[s] = Refused
        BY <2>0, <2>1, <2>2, <2>3, <2>5, <3>1 DEF ScanBody
      <4> QED
        BY <4>1 DEF Refused
    <3>2. CASE h.ok /\ ~ Cuts(s, h)
      <4>1. ~ s.open.from < 0
        BY <1>1
      <4>2. Scan(file, end)[s] = Scan(file, end)[TakeHeader(s, h)]
        BY <2>1, <2>2, <2>5, <3>2, <4>1 DEF ScanBody
      <4>3. TakeHeader(s, h) \in States(end) /\ s.pos + 8 <= TakeHeader(s, h).pos
        BY <1>0, <2>1, <3>2, TakeHeaderType
      <4>4. TakeHeader(s, h).open.from = 0
        BY <1>1, <3>2, <4>1 DEF TakeHeader
      <4>5. TakeHeader(s, h).pos \in 0..end
        BY <4>3 DEF States
      <4>6. s.pos < TakeHeader(s, h).pos
        BY <1>0, <2>0, <4>3, <4>5
      <4> QED
        BY <1>1, <4>2, <4>3, <4>4, <4>6
    <3> QED
      BY <3>1, <3>2
  <2> QED
    BY <2>4, <2>5
<1>2. 0 \in P
  <2> SUFFICES ASSUME NEW s \in States(end), s.open.from = 0, end - s.pos <= 0
               PROVE  ~ Scan(file, end)[s].ok
    OBVIOUS
  <2>1. \A t \in States(end) : t.pos \in 0..end
    BY DEF States
  <2>2. \A t \in States(end) : ~ s.pos < t.pos
    BY <1>0, <2>1
  <2> QED
    BY <1>1, <2>2
<1>3. ASSUME NEW n \in P PROVE n + 1 \in P
  <2>0. n \in Nat
    OBVIOUS
  <2> SUFFICES ASSUME NEW s \in States(end), s.open.from = 0, end - s.pos <= n + 1
               PROVE  ~ Scan(file, end)[s].ok
    BY <2>0
  <2>1. \A t \in States(end) : t.pos \in 0..end
    BY DEF States
  <2>2. \A t \in States(end) : s.pos < t.pos => end - t.pos <= n
    BY <1>0, <2>0, <2>1
  <2>3. \A t \in States(end) : t.open.from = 0 /\ end - t.pos <= n => ~ Scan(file, end)[t].ok
    BY <1>3
  <2> QED
    BY <1>1, <2>2, <2>3
<1>4. end \in P
  <2>1. P \in SUBSET Nat
    OBVIOUS
  <2> HIDE DEF P
  <2> QED
    BY <1>0, <1>2, <1>3, <2>1, SetInduction
<1>5. ASSUME NEW s \in States(end), s.open.from = 0
      PROVE  ~ Scan(file, end)[s].ok
  <2>1. s.pos \in 0..end
    BY DEF States
  <2>2. end - s.pos <= end
    BY <1>0, <2>1
  <2> QED
    BY <1>4, <1>5, <2>2
<1> QED
  BY <1>5

\* and one that is accepted found nothing.
LEMMA NoSegments ==
  ASSUME NEW file, Boxed(file), NoneBefore(file, file.size),
         Scan(file, file.size)[AtStart(0)].ok
  PROVE  Scan(file, file.size)[AtStart(0)].segs = <<>>
<1> DEFINE end == file.size
           s == AtStart(0)
<1>0. end \in Nat
  BY DEF Boxed
<1>1. s \in States(end) /\ s.pos = 0 /\ s.open.from = -1 /\ s.segs = <<>>
  BY <1>0 DEF AtStart, NoneOpen, States
<1>2. PICK h : h = ReadBoxHeader(file, s.pos, end)
  OBVIOUS
<1>3. Scan(file, end)[s] = ScanBody(file, end, Scan(file, end), s)
  BY <1>0, <1>1, ScanIs
<1> HIDE DEF s
<1>4. CASE s.pos + 8 > end
  <2>1. Scan(file, end)[s] = CloseLast(file, s, end)
    BY <1>3, <1>4 DEF ScanBody
  <2> QED
    BY <1>1, <2>1 DEF CloseLast, s
<1>5. CASE ~ s.pos + 8 > end
  <2>1. CASE \/ ~h.ok
             \/ ~IsUuid(h) /\ s.open.from < 0
             \/ Cuts(s, h) /\ ~Describes(file, OpenTo(s, s.pos))
    <3>1. Scan(file, end)[s] = Refused
      BY <1>2, <1>3, <1>5, <2>1 DEF ScanBody
    <3> QED
      BY <3>1 DEF Refused, s
  <2>2. CASE ~ (\/ ~h.ok
                \/ ~IsUuid(h) /\ s.open.from < 0
                \/ Cuts(s, h) /\ ~Describes(file, OpenTo(s, s.pos)))
    <3>1. Scan(file, end)[s] = Scan(file, end)[TakeHeader(s, h)]
      BY <1>2, <1>3, <1>5, <2>2 DEF ScanBody
    <3>2. h.ok /\ IsUuid(h) /\ s.open.from < 0
      BY <1>1, <2>2
    <3>3. TakeHeader(s, h).open.from = 0
      BY <1>1, <3>2 DEF TakeHeader
    <3>4. TakeHeader(s, h) \in States(end)
      BY <1>0, <1>1, <1>2, <3>2, TakeHeaderType
    <3> QED
      BY <3>1, <3>3, <3>4, OpenAtZeroRefused DEF s
  <2> QED
    BY <2>1, <2>2
<1> QED
  BY <1>4, <1>5

-----------------------------------------------------------------------------
(* The inductive invariant: whatever the scan has done, unwrap would come  *)
(* to its own result from there.                                           *)

\* Where the stream ends.
StreamEnd == IF left = All THEN stored.size ELSE pos + left

\* The state of unwrap's loop that the scan is in.
Here0 == [pos |-> pos, open |-> open, segs |-> emitted]

\* The wrapper is not read yet.
Untouched == pos = 0 /\ ~inStream /\ left = All /\ open = NoneOpen /\ emitted = <<>>

\* The stream is not found yet: unwrap's search comes by the cursor.
Searching ==
  /\ left = All /\ open = NoneOpen /\ emitted = <<>>
  /\ Located(stored) = Find(stored)[pos]
  /\ NoneBefore(stored, pos)

\* The stream is read: unwrap's scan comes by this state.
Copying ==
  /\ left # All => left \in Nat /\ pos + left <= stored.size
  /\ Here0 \in States(StreamEnd)
  /\ Unwrap(stored) = Scan(stored, StreamEnd)[Here0]

ScanInv ==
  /\ status \in {"none", "stored", "scan", "ok", "error"}
  /\ inStream \in BOOLEAN
  /\ status \in {"none", "stored"} => Untouched
  /\ status = "scan" /\ Unwrap(stored).ok =>
       /\ pos \in 0..stored.size
       /\ IF inStream THEN Copying ELSE Searching
  /\ ScanMatchesUnwrap

LEMMA ScanInvInit == ArchiveInit => ScanInv
  BY DEF ArchiveInit, ScanInv, Untouched, ScanMatchesUnwrap

\* The scan begins.
LEMMA ScanBegins ==
  ASSUME Boxed(stored'), Untouched, UNCHANGED <<pos, inStream, left, open, emitted>>
  PROVE  pos' \in 0..stored'.size /\ Searching'
<1>1. stored'.size \in Nat
  BY DEF Boxed
<1>2. Located(stored') = Find(stored')[0]
  BY LocatedIsFind
<1>3. NoneBefore(stored', 0)
  BY NoneBeforeStart
<1> QED
  BY <1>1, <1>2, <1>3 DEF Untouched, Searching

\* What unwrap returns.
LEMMA UnwrapIs ==
  ASSUME NEW file, NEW found, found = Located(file)
  PROVE  /\ Unwrap(file).ok => found.ok
         /\ found.ok => Unwrap(file) = Scan(file, found.to)[AtStart(found.from)]
<1>1. Unwrap(file) = IF found.ok THEN ScanSegments(file, found) ELSE Refused
  BY DEF Unwrap, UnwrapStream
<1>2. ~ Refused.ok
  BY DEF Refused
<1> QED
  BY <1>1, <1>2, ScanSegmentsIsScan

\* The box at the cursor, as both scans see it.
LEMMA HereIs ==
  ASSUME Boxed(stored), pos \in 0..stored.size, HeaderThere, NEW h,
         h = ReadBoxHeader(stored, pos, stored.size)
  PROVE  /\ stored.size \in Nat /\ pos \in Nat /\ pos \in DOMAIN stored.head
         /\ Here.hlen \in {8, 16} /\ Here.len \in Nat /\ Here.hlen <= Here.len
         /\ pos + 8 <= stored.size /\ pos + Here.hlen <= stored.size
         /\ h.ok <=> BodyThere
         /\ h.ok => /\ h.kind = Here.kind /\ h.start = pos + Here.hlen /\ h.end = pos + Here.len
                    /\ IsMuxl(h) <=> MuxlAt(pos)
                    /\ IsUuid(h) <=> UuidHere
         /\ Here.kind = "muxl" /\ BodyThere => MuxlAt(pos)
<1>1. /\ stored.size \in Nat /\ pos \in Nat /\ pos \in DOMAIN stored.head
      /\ Here.hlen \in {8, 16} /\ Here.len \in Nat /\ Here.hlen <= Here.len
      /\ Here.kind = "muxl" => Here.hlen + 16 <= Here.len
  BY DEF Boxed, HeaderThere, Here
<1>2. pos + 8 <= stored.size /\ pos + Here.hlen <= stored.size
  BY <1>1 DEF HeaderThere, Avail, Here
<1>3. BodyThere <=> pos + Here.len <= stored.size
  BY <1>1 DEF BodyThere, Avail
<1>4. /\ h.ok <=> BodyThere
      /\ h.ok => /\ h.kind = Here.kind /\ h.start = pos + Here.hlen /\ h.end = pos + Here.len
                 /\ IsMuxl(h) <=> h.kind = "muxl"
  BY <1>1, <1>2, <1>3, HeaderRead DEF Here
<1>5. Here.kind = "muxl" /\ BodyThere => MuxlAt(pos)
  BY <1>1, <1>3 DEF MuxlAt, Here
<1>6. MuxlAt(pos) => Here.kind = "muxl"
  BY DEF MuxlAt, Here
<1>7. h.ok => (IsUuid(h) <=> UuidHere)
  BY <1>4 DEF IsUuid, UuidHere
<1> QED
  BY <1>1, <1>2, <1>4, <1>5, <1>6, <1>7

\* What heads the stream in the one heads it in the other, in a file whose
\* next box is there.
LEMMA HeadsAgree ==
  ASSUME Boxed(stored), pos \in 0..stored.size, HeaderThere, BodyThere, NEW h,
         h = ReadBoxHeader(stored, pos, stored.size),
         NEW next, next = ReadBoxHeader(stored, pos + Here.len, stored.size)
  PROVE  /\ HeadsStream(stored, pos, h) => HeadsScan
         /\ HeadsScan => \/ HeadsStream(stored, pos, h)
                         \/ /\ Here.kind = "c2pa" /\ ~ next.ok
                            /\ pos + Here.len + 8 <= stored.size
<1>1. /\ h.ok /\ h.kind = Here.kind /\ h.end = pos + Here.len
      /\ IsMuxl(h) <=> MuxlAt(pos)
      /\ stored.size \in Nat /\ pos \in Nat /\ Here.len \in Nat
      /\ Here.kind = "muxl" => MuxlAt(pos)
  BY HereIs
<1> DEFINE q == pos + Here.len
<1>2. q \in Nat
  BY <1>1
<1>3. IsMuxl(next) => MuxlAt(q)
  <2> SUFFICES ASSUME IsMuxl(next) PROVE MuxlAt(q)
    OBVIOUS
  <2>1. next.ok /\ next.kind = "muxl" /\ next.start + 16 <= next.end
    BY DEF IsMuxl
  <2>2. /\ q \in DOMAIN stored.head /\ stored.head[q].kind = "muxl"
        /\ next.start = q + stored.head[q].hlen /\ next.end \in 0..stored.size
        /\ next.start \in 0..stored.size
    BY <1>1, <1>2, <2>1, HeaderRead
  <2> HIDE DEF q
  <2>3. q + stored.head[q].hlen + 16 <= stored.size
    BY <1>1, <2>1, <2>2
  <2> QED
    BY <2>2, <2>3 DEF MuxlAt
<1>4. MuxlAt(q) => \/ IsMuxl(next)
                   \/ ~ next.ok /\ q + 8 <= stored.size
  <2> SUFFICES ASSUME MuxlAt(q), ~ IsMuxl(next) PROVE ~ next.ok /\ q + 8 <= stored.size
    OBVIOUS
  <2>1. /\ q \in DOMAIN stored.head /\ stored.head[q].kind = "muxl"
        /\ q + stored.head[q].hlen + 16 <= stored.size
    BY DEF MuxlAt
  <2>2. stored.head[q].hlen \in {8, 16}
    BY <2>1 DEF Boxed
  <2>3. next.ok => IsMuxl(next)
    BY <1>1, <1>2, <2>1, HeaderRead
  <2> HIDE DEF q
  <2> QED
    BY <1>1, <1>2, <2>1, <2>2, <2>3
<1>5. HeadsStream(stored, pos, h) <=>
        \/ Here.kind = "moof" \/ MuxlAt(pos)
        \/ Here.kind = "c2pa" /\ IsMuxl(next)
  BY <1>1 DEF HeadsStream
<1>6. HeadsScan <=> \/ Here.kind = "moof" \/ MuxlAt(pos)
                    \/ Here.kind \in {"muxl", "c2pa"} /\ MuxlAt(q)
  BY DEF HeadsScan, UuidHere
<1> HIDE DEF q
<1>7. Here.kind = "muxl" => MuxlAt(pos)
  BY <1>1
<1>8. HeadsStream(stored, pos, h) => HeadsScan
  BY <1>3, <1>5, <1>6, <1>7
<1>9. HeadsScan => \/ HeadsStream(stored, pos, h)
                   \/ Here.kind = "c2pa" /\ ~ next.ok /\ q + 8 <= stored.size
  BY <1>4, <1>5, <1>6, <1>7
<1> QED
  BY <1>8, <1>9 DEF q

-----------------------------------------------------------------------------
(* The steps of the scan.                                                  *)

\* The search has not come to an end at a box that is there.
LEMMA SearchAt ==
  ASSUME Boxed(stored), pos \in 0..stored.size, HeaderThere, Searching,
         NEW h, h = ReadBoxHeader(stored, pos, stored.size)
  PROVE  Located(stored) =
           IF ~h.ok THEN [ok |-> FALSE, from |-> 0, to |-> 0]
           ELSE IF h.kind = "mdat" THEN [ok |-> TRUE, from |-> h.start, to |-> h.end]
           ELSE IF HeadsStream(stored, pos, h) THEN [ok |-> TRUE, from |-> pos, to |-> stored.size]
           ELSE Find(stored)[h.end]
<1>1. Located(stored) = FindBody(stored, Find(stored), pos)
  BY FindIs DEF Searching
<1>2. ~ pos + 8 > stored.size
  BY HereIs
<1> QED
  BY <1>1, <1>2 DEF FindBody

LEMMA SkipFramingStep ==
  ASSUME Boxed(stored), pos \in 0..stored.size, Searching, SkipFraming
  PROVE  pos' \in 0..stored'.size /\ ~ inStream' /\ Searching'
<1>1. /\ ~inStream /\ HeaderThere /\ Here.kind # "mdat" /\ ~HeadsScan /\ BodyThere
      /\ pos' = pos + Here.len
      /\ stored' = stored /\ inStream' = inStream /\ left' = left /\ open' = open
      /\ emitted' = emitted
  BY DEF SkipFraming, Locating
<1>2. PICK h : h = ReadBoxHeader(stored, pos, stored.size)
  OBVIOUS
<1>3. /\ h.ok /\ h.kind = Here.kind /\ h.end = pos + Here.len
      /\ stored.size \in Nat /\ pos \in Nat /\ Here.len \in Nat /\ pos \in DOMAIN stored.head
      /\ Here.kind = "muxl" => MuxlAt(pos)
  BY <1>1, <1>2, HereIs
<1>4. pos' \in 0..stored.size
  BY <1>1, <1>3 DEF BodyThere, Avail
<1>5. ~ HeadsStream(stored, pos, h)
  BY <1>1, <1>2, HeadsAgree
<1>6. Located(stored) = Find(stored)[pos']
  BY <1>1, <1>2, <1>3, <1>5, SearchAt
<1>7. Here.kind # "muxl"
  BY <1>1, <1>3 DEF HeadsScan
<1>8. NoneBefore(stored, pos')
  <2>1. /\ NoneBefore(stored, pos) /\ pos + stored.head[pos].len <= stored.size
        /\ stored.head[pos].kind # "muxl"
    BY <1>1, <1>3, <1>4, <1>7 DEF Searching, Here
  <2>2. NoneBefore(stored, pos + stored.head[pos].len)
    BY <1>3, <2>1, NoneBeforeNext
  <2> QED
    BY <1>1, <2>2 DEF Here
<1> QED
  BY <1>1, <1>4, <1>6, <1>8 DEF Searching

\* The scan goes on from a stream that was found.
LEMMA StreamFound ==
  ASSUME Boxed(stored), Unwrap(stored).ok, NEW found, found = Located(stored),
         found.from \in 0..found.to, found.to \in 0..stored.size, stored' = stored,
         pos' = found.from, open' = NoneOpen, emitted' = <<>>,
         left' \in {All, found.to - found.from}, left' = All => found.to = stored.size
  PROVE  Copying'
<1>0. stored.size \in Nat
  BY DEF Boxed
<1>1. StreamEnd' = found.to
  <2>1. CASE left' = All
    BY <2>1 DEF StreamEnd
  <2>2. CASE left' # All
    <3>1. left' = found.to - found.from
      BY <2>2
    <3>2. StreamEnd' = pos' + left'
      BY <2>2 DEF StreamEnd
    <3> QED
      BY <1>0, <3>1, <3>2
  <2> QED
    BY <2>1, <2>2
<1>2. Here0' = AtStart(found.from)
  BY DEF Here0, AtStart
<1>3. AtStart(found.from) \in States(found.to)
  BY <1>0 DEF AtStart, NoneOpen, States
<1>4. Unwrap(stored) = Scan(stored, found.to)[AtStart(found.from)]
  BY UnwrapIs
<1>5. left' # All => left' \in Nat /\ pos' + left' <= stored'.size
  BY <1>0
<1> QED
  BY <1>1, <1>2, <1>3, <1>4, <1>5 DEF Copying

LEMMA EnterEnvelopeStep ==
  ASSUME Boxed(stored), pos \in 0..stored.size, Searching, EnterEnvelope, Unwrap(stored).ok
  PROVE  pos' \in 0..stored'.size /\ inStream' /\ Copying'
<1>1. /\ HeaderThere /\ Here.kind = "mdat" /\ inStream' = TRUE
      /\ left' = Here.len - Here.hlen /\ pos' = pos + Here.hlen
      /\ stored' = stored /\ open' = open /\ emitted' = emitted
  BY DEF EnterEnvelope, Locating
<1>2. PICK h : h = ReadBoxHeader(stored, pos, stored.size)
  OBVIOUS
<1>3. /\ h.ok => /\ h.kind = Here.kind /\ h.start = pos + Here.hlen /\ h.end = pos + Here.len
      /\ stored.size \in Nat /\ pos \in Nat /\ Here.len \in Nat /\ Here.hlen \in Nat
      /\ Here.hlen <= Here.len /\ pos + Here.hlen <= stored.size
      /\ h.ok <=> BodyThere
  BY <1>1, <1>2, HereIs
<1>4. PICK found : found = Located(stored)
  OBVIOUS
<1>5. found.ok
  BY <1>4, UnwrapIs
<1>6. h.ok
  BY <1>1, <1>2, <1>4, <1>5, SearchAt
<1>7. found = [ok |-> TRUE, from |-> pos + Here.hlen, to |-> pos + Here.len]
  BY <1>1, <1>2, <1>3, <1>4, <1>6, SearchAt
<1>8. pos + Here.len <= stored.size
  BY <1>3, <1>6 DEF BodyThere, Avail
<1>9. /\ found.from \in 0..found.to /\ found.to \in 0..stored.size
      /\ found.to - found.from = Here.len - Here.hlen /\ Here.len - Here.hlen \in Nat
  BY <1>3, <1>7, <1>8
<1>10. left' # All /\ left' = found.to - found.from /\ pos' = found.from
  BY <1>1, <1>7, <1>9 DEF All
<1>11. open' = NoneOpen /\ emitted' = <<>>
  BY <1>1 DEF Searching
<1>12. Copying'
  BY <1>1, <1>4, <1>9, <1>10, <1>11, StreamFound
<1> QED
  BY <1>1, <1>3, <1>12

LEMMA EnterStreamStep ==
  ASSUME Boxed(stored), pos \in 0..stored.size, Searching, EnterStream, Unwrap(stored).ok
  PROVE  pos' \in 0..stored'.size /\ inStream' /\ Copying'
<1>1. /\ HeaderThere /\ HeadsScan /\ inStream' = TRUE /\ left' = All /\ pos' = pos
      /\ stored' = stored /\ open' = open /\ emitted' = emitted
  BY DEF EnterStream, Locating
<1>2. PICK h, next : /\ h = ReadBoxHeader(stored, pos, stored.size)
                     /\ next = ReadBoxHeader(stored, pos + Here.len, stored.size)
  OBVIOUS
<1>3. /\ h.ok => h.kind = Here.kind /\ h.end = pos + Here.len
      /\ stored.size \in Nat /\ pos \in Nat /\ Here.len \in Nat
      /\ h.ok <=> BodyThere
  BY <1>1, <1>2, HereIs
<1>4. PICK found : found = Located(stored)
  OBVIOUS
<1>5. found.ok
  BY <1>4, UnwrapIs
<1>6. h.ok /\ BodyThere
  BY <1>1, <1>2, <1>3, <1>4, <1>5, SearchAt
<1>7. h.kind # "mdat"
  <2>1. Here.kind \in {"moof", "muxl", "c2pa"}
    BY <1>1 DEF HeadsScan, MuxlAt, UuidHere, Here
  <2> QED
    BY <1>3, <1>6, <2>1
<1>8. HeadsStream(stored, pos, h)
  <2> SUFFICES ASSUME ~ HeadsStream(stored, pos, h) PROVE FALSE
    OBVIOUS
  <2>1. ~ next.ok /\ pos + Here.len + 8 <= stored.size
    BY <1>1, <1>2, <1>6, HeadsAgree
  <2>2. found = Find(stored)[pos + Here.len]
    BY <1>1, <1>2, <1>3, <1>4, <1>6, <1>7, SearchAt
  <2>3. pos + Here.len \in 0..stored.size
    BY <1>3, <2>1
  <2>4. found = FindBody(stored, Find(stored), pos + Here.len)
    BY <2>2, <2>3, FindIs
  <2>5. ~ pos + Here.len + 8 > stored.size
    BY <1>3, <2>1
  <2>6. found = [ok |-> FALSE, from |-> 0, to |-> 0]
    BY <1>2, <2>1, <2>4, <2>5 DEF FindBody
  <2> QED
    BY <1>5, <2>6
<1>9. found = [ok |-> TRUE, from |-> pos, to |-> stored.size]
  BY <1>1, <1>2, <1>4, <1>6, <1>7, <1>8, SearchAt
<1>10. /\ found.from \in 0..found.to /\ found.to \in 0..stored.size
       /\ pos' = found.from /\ found.to = stored.size
  BY <1>1, <1>3, <1>9
<1>11. open' = NoneOpen /\ emitted' = <<>>
  BY <1>1 DEF Searching
<1>12. Copying'
  BY <1>1, <1>4, <1>10, <1>11, StreamFound
<1> QED
  BY <1>1, <1>3, <1>12

\* A box that the scan takes is taken by unwrap's scan too.
LEMMA TakeBoxStep ==
  ASSUME Boxed(stored), pos \in 0..stored.size, inStream, Copying, TakeBox,
         Unwrap(stored).ok, status' = "scan"
  PROVE  pos' \in 0..stored'.size /\ inStream' /\ Copying'
<1> DEFINE isMuxl  == MuxlAt(pos)
           started == open.from >= 0
           cut     == UuidHere /\ OpensSegment(started, open.muxl, isMuxl)
           fits    == BodyThere /\ (left = All \/ Here.len <= left)
           end     == StreamEnd
           s       == Here0
<1>1. /\ HeaderThere /\ inStream' = inStream /\ stored' = stored
      /\ UuidHere \/ started
      /\ fits
      /\ emitted' = IF cut THEN Append(emitted, Buffered) ELSE emitted
      /\ open' = IF ~UuidHere THEN open
                 ELSE [from |-> IF cut \/ ~started THEN pos ELSE open.from,
                       muxl |-> isMuxl \/ (open.muxl /\ ~cut)]
      /\ pos' = pos + Here.len
      /\ left' = IF left = All THEN left ELSE left - Here.len
  BY DEF TakeBox
<1>2. PICK h : h = ReadBoxHeader(stored, pos, stored.size)
  OBVIOUS
<1>3. /\ stored.size \in Nat /\ pos \in Nat /\ pos \in DOMAIN stored.head
      /\ Here.hlen \in {8, 16} /\ Here.len \in Nat /\ Here.hlen <= Here.len
      /\ h.ok /\ h.kind = Here.kind
      /\ IsMuxl(h) <=> MuxlAt(pos)
      /\ IsUuid(h) <=> UuidHere
  BY <1>1, <1>2, HereIs
<1>4. /\ end \in 0..stored.size /\ pos + Here.len <= end /\ pos + 8 <= end
  <2>1. pos + Here.len <= stored.size
    BY <1>1, <1>3 DEF BodyThere, Avail
  <2>2. CASE left = All
    BY <1>3, <2>1, <2>2 DEF StreamEnd
  <2>3. CASE left # All
    <3>1. left \in Nat /\ pos + left <= stored.size /\ end = pos + left /\ Here.len <= left
      BY <1>1, <2>3 DEF Copying, StreamEnd
    <3> HIDE DEF end
    <3> QED
      BY <1>3, <2>1, <3>1
  <2> QED
    BY <2>2, <2>3
<1>5. PICK g : g = ReadBoxHeader(stored, pos, end)
  OBVIOUS
<1>6. end \in Nat
  BY <1>3, <1>4
<1>7. /\ g.ok /\ g.kind = h.kind /\ g.end = pos + Here.len
      /\ IsMuxl(g) <=> isMuxl
      /\ IsUuid(g) <=> UuidHere
  <2>1. pos + stored.head[pos].hlen <= end /\ pos + stored.head[pos].len <= end
    BY <1>3, <1>4, <1>6 DEF Here
  <2> HIDE DEF end
  <2>2. g.ok /\ g.kind = Here.kind /\ g.end = pos + Here.len
    BY <1>3, <1>5, <1>6, <2>1, HeaderRead DEF Here
  <2>3. IsMuxl(g) <=> g.kind = "muxl"
    BY <1>3, <1>5, <1>6, <2>1, HeaderRead DEF Here
  <2>4. IsMuxl(h) <=> h.kind = "muxl"
    BY <1>2, <1>3, HeaderRead
  <2>5. IsUuid(g) <=> IsUuid(h)
    BY <1>3, <2>2 DEF IsUuid
  <2> QED
    BY <1>3, <2>2, <2>3, <2>4, <2>5
<1>8. s \in States(end) /\ s.pos = pos /\ s.open = open /\ s.segs = emitted
  BY DEF Copying, Here0
<1>9. Cuts(s, g) <=> cut
  BY <1>7, <1>8 DEF Cuts, OpensSegment
<1>10. Scan(stored, end)[s] = ScanBody(stored, end, Scan(stored, end), s)
  BY <1>6, <1>8, ScanIs
<1>11. Scan(stored, end)[s].ok
  BY DEF Copying
<1>12. ~ s.pos + 8 > end
  BY <1>3, <1>4, <1>6, <1>8
<1>13. Scan(stored, end)[s] = Scan(stored, end)[TakeHeader(s, g)]
  <2> HIDE DEF s, end
  <2>1. \/ Scan(stored, end)[s] = Refused
        \/ Scan(stored, end)[s] = Scan(stored, end)[TakeHeader(s, g)]
    BY <1>5, <1>8, <1>10, <1>12 DEF ScanBody
  <2> QED
    BY <1>11, <2>1 DEF Refused
<1>14. Here0' = TakeHeader(s, g)
  <2>1. started <=> ~ s.open.from < 0
    <3>1. s.open.from \in Int
      BY <1>6, <1>8 DEF States
    <3> QED
      BY <1>8, <3>1
  <2> HIDE DEF s, cut, started, isMuxl
  <2>2. TakeHeader(s, g).open = open'
    BY <1>1, <1>7, <1>8, <1>9, <2>1 DEF TakeHeader
  <2>3. TakeHeader(s, g).segs = emitted'
    BY <1>1, <1>8, <1>9 DEF TakeHeader, OpenTo, Buffered
  <2>4. TakeHeader(s, g).pos = pos'
    BY <1>1, <1>7 DEF TakeHeader
  <2>5. TakeHeader(s, g) = [pos |-> TakeHeader(s, g).pos, open |-> TakeHeader(s, g).open,
                            segs |-> TakeHeader(s, g).segs]
    BY DEF TakeHeader
  <2> QED
    BY <2>2, <2>3, <2>4, <2>5 DEF Here0
<1>15. StreamEnd' = end /\ (left' # All => left' \in Nat /\ pos' + left' <= stored'.size)
  <2>1. CASE left = All
    BY <1>1, <2>1 DEF StreamEnd
  <2>2. CASE left # All
    <3>1. left \in Nat /\ pos + left <= stored.size /\ end = pos + left /\ Here.len <= left
      BY <1>1, <2>2 DEF Copying, StreamEnd
    <3>2. left' = left - Here.len /\ pos' = pos + Here.len
      BY <1>1, <2>2
    <3>3. left' \in Nat /\ pos' + left' = pos + left
      BY <1>3, <3>1, <3>2
    <3>4. left' # All
      BY <3>3 DEF All
    <3>5. StreamEnd' = pos' + left'
      BY <3>4 DEF StreamEnd
    <3> QED
      BY <1>1, <3>1, <3>3, <3>5
  <2> QED
    BY <2>1, <2>2
<1>16. TakeHeader(s, g) \in States(end)
  <2> HIDE DEF s, end
  <2> QED
    BY <1>5, <1>6, <1>7, <1>8, TakeHeaderType
<1>17. Copying'
  <2>1. Unwrap(stored) = Scan(stored, end)[s]
    BY DEF Copying
  <2> HIDE DEF s, end
  <2> QED
    BY <1>1, <1>13, <1>14, <1>15, <1>16, <2>1 DEF Copying
<1>18. pos' \in 0..stored.size
  <2> HIDE DEF end
  <2> QED
    BY <1>1, <1>3, <1>4, <1>6
<1> QED
  BY <1>1, <1>17, <1>18

\* The end of the input is the end of the stream, and both have the same.
LEMMA EndOfScanStep ==
  ASSUME Boxed(stored), pos \in 0..stored.size, inStream \in BOOLEAN,
         IF inStream THEN Copying ELSE Searching,
         EndOfScan, Unwrap(stored).ok, status' = "ok"
  PROVE  emitted' = Unwrap(stored).segs
<1>0. stored.size \in Nat /\ pos \in Nat
  BY DEF Boxed
<1>1. emitted' = IF open.from >= 0 THEN Append(emitted, Buffered) ELSE emitted
  BY DEF EndOfScan
<1>2. CASE inStream
  <2>1. StreamEnd = pos
    <3>1. CASE left = 0
      BY <1>0, <3>1 DEF StreamEnd, All
    <3>2. CASE left # 0
      <4>1. stored.size = pos
        BY <1>0, <3>2 DEF EndOfScan, AtEnd, Avail
      <4>2. CASE left = All
        BY <4>1, <4>2 DEF StreamEnd
      <4>3. CASE left # All
        BY <1>0, <1>2, <3>2, <4>1, <4>3 DEF Copying
      <4> QED
        BY <4>2, <4>3
    <3> QED
      BY <3>1, <3>2
  <2>2. Here0 \in States(pos) /\ Unwrap(stored) = Scan(stored, pos)[Here0]
    BY <1>2, <2>1 DEF Copying
  <2>3. Scan(stored, pos)[Here0] = ScanBody(stored, pos, Scan(stored, pos), Here0)
    BY <1>0, <2>2, ScanIs
  <2>4. Here0.pos + 8 > pos /\ Here0.open = open /\ Here0.segs = emitted
    BY <1>0 DEF Here0
  <2>5. Unwrap(stored) = CloseLast(stored, Here0, pos)
    BY <2>2, <2>3, <2>4 DEF ScanBody
  <2>6. open.from < 0 <=> ~ open.from >= 0
    <3>1. Here0.open.from \in Int
      BY <1>0, <2>2 DEF States
    <3> QED
      BY <2>4, <3>1
  <2> QED
    BY <1>1, <2>4, <2>5, <2>6 DEF CloseLast, OpenTo, Buffered
<1>3. CASE ~ inStream
  <2>1. pos = stored.size /\ Searching
    BY <1>0, <1>3 DEF EndOfScan, AtEnd, Avail
  <2>2. ~ open.from >= 0 /\ emitted = <<>>
    BY <2>1 DEF Searching, NoneOpen
  <2>3. Located(stored) = FindBody(stored, Find(stored), pos)
    BY <2>1, FindIs DEF Searching
  <2>4. Located(stored) = [ok |-> TRUE, from |-> 0, to |-> stored.size]
    BY <1>0, <2>1, <2>3 DEF FindBody
  <2>5. Unwrap(stored) = Scan(stored, stored.size)[AtStart(0)]
    BY <2>4, UnwrapIs
  <2>6. Unwrap(stored).segs = <<>>
    BY <2>1, <2>5, NoSegments DEF Searching
  <2> QED
    BY <1>1, <2>2, <2>6
<1> QED
  BY <1>2, <1>3

-----------------------------------------------------------------------------
(* The theorem.                                                            *)

\* Only Store writes the wrapper, and only Lose cuts it, before it is read.
LEMMA ScanInvStep ==
  ASSUME Boxed(stored), Boxed(stored'), ScanInv, [ArchiveNext]_avars
  PROVE  ScanInv'
<1>1. CASE UNCHANGED <<stored, want, scanVars>>
  <2>1. /\ stored' = stored /\ status' = status /\ pos' = pos /\ inStream' = inStream
        /\ left' = left /\ open' = open /\ emitted' = emitted
    BY <1>1 DEF scanVars
  <2> QED
    BY <2>1 DEF ScanInv, Untouched, Searching, Copying, StreamEnd, Here0, ScanMatchesUnwrap
<1>2. ASSUME NEW form, NEW signed, NEW again, NEW extra, NEW n, Store(form, signed, again, extra, n)
      PROVE  ScanInv'
  <2>1. /\ status = "none" /\ status' = "stored"
        /\ UNCHANGED <<pos, inStream, left, open, emitted>>
    BY <1>2 DEF Store
  <2> QED
    BY <2>1 DEF ScanInv, Untouched, ScanMatchesUnwrap
<1>3. ASSUME NEW n, Lose(n) \/ Keep PROVE ScanInv'
  <2>1. /\ status = "stored" /\ status' = "scan"
        /\ UNCHANGED <<pos, inStream, left, open, emitted>>
    BY <1>3 DEF Lose, Keep
  <2>2. Untouched
    BY <2>1 DEF ScanInv
  <2>3. pos' \in 0..stored'.size /\ Searching'
    BY <2>1, <2>2, ScanBegins
  <2>4. ~ inStream' /\ inStream' \in BOOLEAN
    BY <2>1, <2>2 DEF ScanInv, Untouched
  <2> QED
    BY <2>1, <2>3, <2>4 DEF ScanInv, ScanMatchesUnwrap
<1>4. CASE HeaderTorn \/ FramingTorn
  <2>1. status' = "error" /\ inStream' = inStream
    BY <1>4 DEF HeaderTorn, FramingTorn, Fail
  <2> QED
    BY <2>1 DEF ScanInv, ScanMatchesUnwrap
<1>5. CASE SkipFraming
  <2>1. status = "scan" /\ status' = "scan" /\ stored' = stored /\ ~ inStream /\ inStream' = inStream
    BY <1>5 DEF SkipFraming, Locating
  <2>2. Unwrap(stored).ok => pos' \in 0..stored'.size /\ ~ inStream' /\ Searching'
    BY <1>5, <2>1, SkipFramingStep DEF ScanInv
  <2> QED
    BY <2>1, <2>2 DEF ScanInv, ScanMatchesUnwrap
<1>6. CASE EnterEnvelope \/ EnterStream
  <2>1. status = "scan" /\ status' = "scan" /\ stored' = stored /\ ~ inStream /\ inStream' = TRUE
    BY <1>6 DEF EnterEnvelope, EnterStream, Locating
  <2>2. Unwrap(stored).ok => pos' \in 0..stored'.size /\ Copying'
    BY <1>6, <2>1, EnterEnvelopeStep, EnterStreamStep DEF ScanInv
  <2> QED
    BY <2>1, <2>2 DEF ScanInv, ScanMatchesUnwrap
<1>7. CASE TakeBox
  <2>1. /\ status = "scan" /\ status' \in {"scan", "error"} /\ stored' = stored
        /\ inStream /\ inStream' = inStream
    BY <1>7 DEF TakeBox
  <2>2. Unwrap(stored).ok /\ status' = "scan" => pos' \in 0..stored'.size /\ Copying'
    BY <1>7, <2>1, TakeBoxStep DEF ScanInv
  <2> QED
    BY <2>1, <2>2 DEF ScanInv, ScanMatchesUnwrap
<1>8. CASE EndOfScan
  <2>1. /\ status = "scan" /\ status' \in {"ok", "error"} /\ stored' = stored
        /\ inStream' = inStream
    BY <1>8 DEF EndOfScan
  <2>2. Unwrap(stored).ok /\ status' = "ok" => emitted' = Unwrap(stored).segs
    BY <1>8, <2>1, EndOfScanStep DEF ScanInv
  <2> QED
    BY <2>1, <2>2 DEF ScanInv, ScanMatchesUnwrap
<1>9. CASE UNCHANGED avars
  <2>1. UNCHANGED <<stored, want, scanVars>>
    BY <1>9 DEF avars
  <2> QED
    BY <1>1, <2>1
<1>10. \/ UNCHANGED <<stored, want, scanVars>>
       \/ \E form, signed, again, extra, n : Store(form, signed, again, extra, n)
       \/ Keep \/ \E n : Lose(n)
       \/ HeaderTorn \/ SkipFraming \/ FramingTorn \/ EnterEnvelope \/ EnterStream
       \/ TakeBox \/ EndOfScan
       \/ UNCHANGED avars
  BY DEF ArchiveNext
<1> QED
  BY <1>1, <1>2, <1>3, <1>4, <1>5, <1>6, <1>7, <1>8, <1>9, <1>10

\* reader.rs scan_wrapper_stream, the streaming twin of unwrap: of every file
\* that is made of boxes, however it came about and wherever it is cut, the two
\* do not both accept it and find different segments.
THEOREM TwinsAgree == ArchiveSpec /\ [](Boxed(stored)) => []ScanMatchesUnwrap
<1>1. ArchiveInit => ScanInv
  BY ScanInvInit
<1>2. Boxed(stored) /\ Boxed(stored)' /\ ScanInv /\ [ArchiveNext]_avars => ScanInv'
  <2>1. Boxed(stored)' <=> Boxed(stored')
    BY DEF Boxed
  <2> QED
    BY <2>1, ScanInvStep
<1>3. ScanInv => ScanMatchesUnwrap
  BY DEF ScanInv
<1> QED
  BY <1>1, <1>2, <1>3, PTL DEF ArchiveSpec
=============================================================================
