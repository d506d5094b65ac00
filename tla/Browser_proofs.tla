---------------------------- MODULE Browser_proofs ----------------------------
(***************************************************************************)
(* The buffers of worker and page, for every program of reads and writes,  *)
(* every file size and every size of the data region.                      *)
(***************************************************************************)
EXTENDS Browser, SequenceTheorems, TLAPS

-----------------------------------------------------------------------------
(* Runs of consecutive bytes.                                              *)

LEMMA BytesType ==
  ASSUME NEW from \in Nat, NEW n \in Nat
  PROVE  /\ Bytes(from, n) \in Seq(Nat)
         /\ Len(Bytes(from, n)) = n
         /\ \A i \in 1..n : Bytes(from, n)[i] = from + i - 1
<1>1. Bytes(from, n) \in [1..n -> Nat]
  BY DEF Bytes
<1>2. Bytes(from, n) \in Seq(Nat)
  BY <1>1, SeqDef
<1>3. DOMAIN Bytes(from, n) = 1..n
  BY DEF Bytes
<1>4. Len(Bytes(from, n)) = n
  BY <1>2, <1>3, LenProperties
<1> QED
  BY <1>2, <1>4 DEF Bytes

\* What follows a run of bytes continues it.
LEMMA BytesJoin ==
  ASSUME NEW from \in Nat, NEW m \in Nat, NEW n \in Nat
  PROVE  Bytes(from, m) \o Bytes(from + m, n) = Bytes(from, m + n)
<1> DEFINE s == Bytes(from, m)
           t == Bytes(from + m, n)
           u == Bytes(from, m + n)
<1>0. from + m \in Nat /\ m + n \in Nat
  OBVIOUS
<1>a. s \in Seq(Nat) /\ Len(s) = m /\ \A i \in 1..m : s[i] = from + i - 1
  BY BytesType
<1>b. t \in Seq(Nat) /\ Len(t) = n /\ \A i \in 1..n : t[i] = from + m + i - 1
  BY <1>0, BytesType
<1>c. u \in Seq(Nat) /\ Len(u) = m + n /\ \A i \in 1..(m + n) : u[i] = from + i - 1
  BY <1>0, BytesType
<1> HIDE DEF s, t, u
<1>2. /\ s \o t \in Seq(Nat)
      /\ Len(s \o t) = m + n
      /\ \A i \in 1..(m + n) : (s \o t)[i] = IF i <= m THEN s[i] ELSE t[i - m]
  BY <1>a, <1>b, <1>c, ConcatProperties
<1>3. \A i \in 1..(m + n) : (s \o t)[i] = u[i]
  BY <1>a, <1>b, <1>c, <1>2
<1>4. s \o t = u
  BY <1>a, <1>b, <1>c, <1>2, <1>3, SeqEqual
<1> QED
  BY <1>4 DEF s, t, u

LEMMA BytesPrefix ==
  ASSUME NEW from \in Nat, NEW n \in Nat, NEW k \in 0..n
  PROVE  SubSeq(Bytes(from, n), 1, k) = Bytes(from, k)
<1> DEFINE s == Bytes(from, n)
           u == Bytes(from, k)
<1>1. /\ s \in Seq(Nat) /\ Len(s) = n /\ \A i \in 1..n : s[i] = from + i - 1
      /\ u \in Seq(Nat) /\ Len(u) = k /\ \A i \in 1..k : u[i] = from + i - 1
  BY BytesType
<1> HIDE DEF s, u
<1>2. \A i \in 1..k : s[i] \in Nat
  BY <1>1
<1>3. /\ SubSeq(s, 1, k) \in Seq(Nat)
      /\ Len(SubSeq(s, 1, k)) = k
      /\ \A i \in 1..k : SubSeq(s, 1, k)[i] = s[i]
  BY <1>2, SubSeqProperties
<1>4. SubSeq(s, 1, k) = u
  BY <1>1, <1>3, SeqEqual
<1> QED
  BY <1>4 DEF s, u

LEMMA JoinTypes ==
  ASSUME NEW s \in Seq(Nat), NEW t \in Seq(Nat)
  PROVE  s \o t \in Seq(Nat) /\ Len(s \o t) = Len(s) + Len(t)
BY ConcatProperties

LEMMA NoBytes ==
  ASSUME NEW from \in Nat
  PROVE  Bytes(from, 0) = <<>>
<1>1. Bytes(from, 0) \in Seq(Nat) /\ Len(Bytes(from, 0)) = 0
  BY BytesType
<1> QED
  BY <1>1, EmptySeq

-----------------------------------------------------------------------------
(* The inductive invariant.                                                *)

Busy  == pc \in {"args", "wait", "load"}
Place == Call.offset + Len(got)

Buffer == [status : Statuses, arg0 : Nat, arg1 : 0..DataSize, resp : 0..DataSize,
           data : Seq(Nat)]

States ==
  /\ pc \in {"idle", "args", "wait", "load", "end", "failed"}
  /\ todo \in Seq(CallType)
  /\ got \in Seq(Nat)
  /\ got = <<>> \/ (todo # <<>> /\ Len(got) < Call.len)
  /\ buf \in [Bufs -> Buffer]
  /\ \A b \in Bufs : Len(buf[b].data) <= DataSize
  /\ page \in [at : {"idle", "serving", "served"}, buf : Bufs, arg0 : Nat, arg1 : 0..DataSize]
  /\ results \in Seq([offset : Nat, len : Nat, bytes : Seq(Nat)])
  /\ drained \in Seq(Nat)
  /\ total \in Nat

\* Who may touch the buffers: a request is on the buffer of the call under
\* way and stays until its answer, which is there when the worker looks.
Turns ==
  /\ Busy => todo # <<>> /\ Wants > 0
  /\ \A b \in Bufs : buf[b].status = "REQUEST" => pc = "wait" /\ b = Call.op
  /\ pc = "wait" => buf[Call.op].status \in {"REQUEST", "RESPONSE", "ERROR"}
  /\ pc = "load" => buf[Call.op].status \in {"RESPONSE", "ERROR"}
  /\ OneSideAtATime

\* The bytes in the read buffer are an answer to the call under way.
Answered ==
  \/ page.at = "served" /\ page.buf = "read"
  \/ pc \in {"wait", "load"} /\ Call.op = "read" /\ buf["read"].status = "RESPONSE"

Reading ==
  /\ todo # <<>> /\ Call.op = "read" => got = Bytes(Call.offset, Len(got))
  /\ Busy /\ Call.op = "read" => buf["read"].arg0 = Place
  /\ page.at # "idle" /\ page.buf = "read" => page.arg0 = Place
  /\ Answered => buf["read"].data = Bytes(Place, buf["read"].resp)
  /\ ReadsAreWhatWasAsked

\* A chunk of the output is in the write buffer, and the page has yet to take it.
Undrained ==
  /\ Busy /\ Call.op = "write"
  /\ pc = "args" \/ (buf["write"].status = "REQUEST" /\ page.at # "served")

Refused ==
  \/ pc = "failed"
  \/ Busy /\ Call.op = "write" /\ pc # "args" /\ buf["write"].status = "ERROR"

Writing ==
  /\ drained = Bytes(0, Len(drained))
  /\ Busy /\ Call.op = "write" =>
       buf["write"].resp = Least(Wants, DataSize) /\ Len(buf["write"].data) = buf["write"].resp
  /\ Undrained => /\ total = Len(drained) + buf["write"].resp
                  /\ buf["write"].data = Bytes(Len(drained), buf["write"].resp)
  /\ Len(drained) <= total
  /\ ~Undrained /\ ~Refused => Len(drained) = total
  /\ buf["write"].status = "DONE" => pc = "end"

IndInv == States /\ Turns /\ Reading /\ Writing

-----------------------------------------------------------------------------
(* The call under way.                                                     *)

LEMMA CallFacts ==
  ASSUME States, todo # <<>>
  PROVE  /\ Call \in CallType /\ Call.op \in Bufs /\ Call.len \in Nat
         /\ Call.op = "read" => Call.offset \in Nat
         /\ Len(got) \in Nat /\ Len(got) <= Call.len
         /\ Wants \in Nat
         /\ Tail(todo) \in Seq(CallType)
<1>1. Call \in CallType /\ Tail(todo) \in Seq(CallType)
  BY HeadTailProperties DEF States, Call
<1>2. Call.op \in Bufs /\ Call.len \in Nat /\ (Call.op = "read" => Call.offset \in Nat)
  BY <1>1 DEF CallType, Bufs
<1>3. Len(got) \in Nat /\ (got = <<>> => Len(got) = 0)
  BY EmptySeq, LenProperties DEF States
<1>4. Len(got) <= Call.len
  BY <1>2, <1>3 DEF States
<1> QED
  BY <1>1, <1>2, <1>3, <1>4 DEF Wants

LEMMA LeastFacts ==
  ASSUME NEW a \in Nat, NEW b \in Nat
  PROVE  /\ Least(a, b) \in Nat /\ Least(a, b) <= a /\ Least(a, b) <= b
         /\ a > 0 /\ b > 0 => Least(a, b) > 0
BY DEF Least

\* A call that is over is dropped, with what it has read; another goes on.
LEMMA DoneTypes ==
  ASSUME States, todo # <<>>, NEW bytes \in Seq(Nat), Len(bytes) <= Call.len, Done(bytes)
  PROVE  /\ todo' \in Seq(CallType)
         /\ got' \in Seq(Nat)
         /\ got' = <<>> \/ (todo' # <<>> /\ Len(got') < Call'.len)
         /\ results' \in Seq([offset : Nat, len : Nat, bytes : Seq(Nat)])
<1>1. CASE Len(bytes) = Call.len
  <2>1. todo' = Tail(todo) /\ got' = <<>>
    BY <1>1 DEF Done
  <2>2. results' \in Seq([offset : Nat, len : Nat, bytes : Seq(Nat)])
    <3>1. CASE Call.op = "read"
      <4>1. [offset |-> Call.offset, len |-> Call.len, bytes |-> bytes]
              \in [offset : Nat, len : Nat, bytes : Seq(Nat)]
        BY <3>1, CallFacts
      <4>2. results' = Append(results, [offset |-> Call.offset, len |-> Call.len, bytes |-> bytes])
        BY <1>1, <3>1 DEF Done
      <4> QED
        BY <4>1, <4>2, AppendProperties DEF States
    <3>2. CASE Call.op # "read"
      BY <1>1, <3>2 DEF Done, States
    <3> QED
      BY <3>1, <3>2
  <2> QED
    BY <2>1, <2>2, CallFacts, EmptySeq
<1>2. CASE Len(bytes) # Call.len
  <2>1. todo' = todo /\ got' = bytes /\ results' = results
    BY <1>2 DEF Done
  <2>2. Len(bytes) < Call.len
    BY <1>2, CallFacts, LenProperties
  <2>3. Call' = Call
    BY <2>1 DEF Call
  <2> QED
    BY <2>1, <2>2, <2>3 DEF States
<1> QED
  BY <1>1, <1>2

-----------------------------------------------------------------------------
(* The invariant holds at the start.                                       *)

LEMMA InitInv == Init => IndInv
<1> SUFFICES ASSUME Init PROVE IndInv
  OBVIOUS
<1>1. todo \in Seq(CallType)
  BY BrowserAssumption DEF Init
<1>2. Blank \in Buffer /\ Len(Blank.data) = 0 /\ Blank.status = "IDLE"
  BY BrowserAssumption, EmptySeq DEF Blank, Buffer, Statuses
<1>3. \A b \in Bufs : buf[b] = Blank
  BY DEF Init
<1>4. States
  <2>1. buf \in [Bufs -> Buffer] /\ \A b \in Bufs : Len(buf[b].data) <= DataSize
    BY <1>2, <1>3, BrowserAssumption DEF Init
  <2>2. page \in [at : {"idle", "serving", "served"}, buf : Bufs, arg0 : Nat, arg1 : 0..DataSize]
    BY BrowserAssumption DEF Init, Resting, Bufs
  <2> QED
    BY <1>1, <2>1, <2>2, EmptySeq DEF Init, States
<1>5. Turns
  BY <1>2, <1>3 DEF Init, Turns, OneSideAtATime, Busy, Resting, Bufs
<1>6. Reading
  <2>1. todo # <<>> /\ Call.op = "read" => got = Bytes(Call.offset, Len(got))
    BY <1>4, CallFacts, NoBytes, EmptySeq DEF Init
  <2> QED
    BY <2>1 DEF Init, Reading, Busy, Answered, ReadsAreWhatWasAsked, Resting
<1>7. Writing
  <2>1. drained = Bytes(0, Len(drained)) /\ Len(drained) = 0
    BY NoBytes, EmptySeq DEF Init
  <2>2. buf["write"].status = "IDLE"
    BY <1>2, <1>3 DEF Bufs
  <2> QED
    BY <2>1, <2>2 DEF Init, Writing, Busy, Undrained
<1> QED
  BY <1>4, <1>5, <1>6, <1>7 DEF IndInv

-----------------------------------------------------------------------------
(* Every step keeps the types.                                             *)

\* A read hands on at most what it was asked for, a write its chunk.
LEMMA ReadTypes ==
  ASSUME States, Turns, ReadAnswered
  PROVE  /\ todo # <<>> /\ Call.op = "read"
         /\ Least(buf["read"].resp, Wants) \in Nat
         /\ Least(buf["read"].resp, Wants) <= Wants
BY CallFacts, LeastFacts DEF States, Turns, Busy, Buffer, Bufs, ReadAnswered

LEMMA Buffers ==
  ASSUME States
  PROVE  \A b \in Bufs : /\ buf[b] \in Buffer
                         /\ buf[b].data \in Seq(Nat) /\ buf[b].resp \in Nat
                         /\ buf[b].arg0 \in Nat /\ buf[b].arg1 \in Nat
                         /\ buf[b].resp <= DataSize /\ buf[b].arg1 <= DataSize
BY BrowserAssumption DEF States, Buffer

\* What an answered read has in all: the bytes of its place from the first on.
LEMMA ReadSoFarIs ==
  ASSUME IndInv, ReadAnswered, NEW n, n = Least(buf["read"].resp, Wants)
  PROVE  /\ got \o SubSeq(buf["read"].data, 1, n) = Bytes(Call.offset, Len(got) + n)
         /\ got \o SubSeq(buf["read"].data, 1, n) \in Seq(Nat)
         /\ Len(got \o SubSeq(buf["read"].data, 1, n)) = Len(got) + n
         /\ n \in Nat /\ Len(got) + n <= Call.len
<1>1. todo # <<>> /\ Call.op = "read" /\ n \in Nat /\ n <= Wants
  BY ReadTypes DEF IndInv
<1>2. /\ Call.offset \in Nat /\ Len(got) \in Nat /\ Call.len \in Nat
      /\ Len(got) + n <= Call.len
      /\ Place \in Nat
  BY <1>1, CallFacts DEF IndInv, Wants, Place
<1>3. buf["read"].status = "RESPONSE"
  BY <1>1 DEF IndInv, Turns, ReadAnswered
<1>4. buf["read"].data = Bytes(Place, buf["read"].resp)
  BY <1>1, <1>3 DEF IndInv, Reading, Answered, ReadAnswered
<1>5. buf["read"].resp \in Nat /\ n \in 0..buf["read"].resp
  <2>1. buf["read"].resp \in Nat /\ Wants \in Nat
    BY <1>1, Buffers, CallFacts DEF IndInv, Bufs
  <2>2. n <= buf["read"].resp
    BY <2>1, LeastFacts
  <2> QED
    BY <1>1, <2>1, <2>2
<1>6. SubSeq(buf["read"].data, 1, n) = Bytes(Call.offset + Len(got), n)
  <2> DEFINE r == buf["read"].resp
  <2>1. r \in Nat /\ n \in 0..r
    BY <1>5
  <2>2. buf["read"].data = Bytes(Place, r) /\ Place = Call.offset + Len(got)
    BY <1>4 DEF Place
  <2> HIDE DEF r
  <2>3. SubSeq(Bytes(Place, r), 1, n) = Bytes(Place, n)
    BY <1>2, <2>1, BytesPrefix
  <2> QED
    BY <2>2, <2>3
<1>7. got = Bytes(Call.offset, Len(got))
  BY <1>1 DEF IndInv, Reading
<1>8. Bytes(Call.offset, Len(got)) \o Bytes(Call.offset + Len(got), n)
        = Bytes(Call.offset, Len(got) + n)
  <2> DEFINE o == Call.offset
             m == Len(got)
  <2>1. o \in Nat /\ m \in Nat /\ n \in Nat
    BY <1>1, <1>2
  <2> HIDE DEF o, m
  <2>2. Bytes(o, m) \o Bytes(o + m, n) = Bytes(o, m + n)
    BY <2>1, BytesJoin
  <2> QED
    BY <2>2 DEF o, m
<1>9. got \o SubSeq(buf["read"].data, 1, n) = Bytes(Call.offset, Len(got) + n)
  BY <1>6, <1>7, <1>8
<1>10. Len(got) + n \in Nat
  BY <1>1, <1>2
<1>11. /\ Bytes(Call.offset, Len(got) + n) \in Seq(Nat)
       /\ Len(Bytes(Call.offset, Len(got) + n)) = Len(got) + n
  BY <1>2, <1>10, BytesType
<1> QED
  BY <1>1, <1>2, <1>9, <1>11

\* What an accepted write has in all.
LEMMA WrittenSoFarIs ==
  ASSUME IndInv, WriteAccepted, NEW n, n = Least(Wants, DataSize)
  PROVE  /\ todo # <<>> /\ Call.op = "write"
         /\ got \o SubSeq(buf["write"].data, 1, n) \in Seq(Nat)
         /\ Len(got \o SubSeq(buf["write"].data, 1, n)) = Len(got) + n
         /\ n \in Nat /\ Len(got) + n <= Call.len
<1>1. todo # <<>> /\ Call.op = "write"
  BY DEF IndInv, Turns, Busy, WriteAccepted
<1>2. Len(got) \in Nat /\ Call.len \in Nat /\ Wants \in Nat
  BY <1>1, CallFacts DEF IndInv
<1>3. n \in Nat /\ n <= Wants
  BY <1>2, LeastFacts, BrowserAssumption
<1>4. buf["write"].data \in Seq(Nat) /\ Len(buf["write"].data) = n
  BY <1>1, Buffers DEF IndInv, Writing, Busy, WriteAccepted, Bufs
<1>5. SubSeq(buf["write"].data, 1, n) = buf["write"].data
  BY <1>4, SubSeqFull
<1>6. got \in Seq(Nat)
  BY DEF IndInv, States
<1>7. /\ got \o buf["write"].data \in Seq(Nat)
      /\ Len(got \o buf["write"].data) = Len(got) + Len(buf["write"].data)
  BY <1>4, <1>6, JoinTypes
<1>8. Len(got) + n <= Call.len
  <2>1. n <= Call.len - Len(got)
    BY <1>3 DEF Wants
  <2> QED
    BY <1>2, <1>3, <2>1
<1> QED
  BY <1>1, <1>3, <1>4, <1>5, <1>7, <1>8

LEMMA StatesStep ==
  ASSUME IndInv, [Next]_vars
  PROVE  States'
<1> USE BrowserAssumption
<1> DEFINE Calls    == /\ todo \in Seq(CallType)
                       /\ got \in Seq(Nat)
                       /\ got = <<>> \/ (todo # <<>> /\ Len(got) < Call.len)
           Results  == results \in Seq([offset : Nat, len : Nat, bytes : Seq(Nat)])
           Data     == /\ buf \in [Bufs -> Buffer]
                       /\ \A b \in Bufs : Len(buf[b].data) <= DataSize
           PageType == page \in [at : {"idle", "serving", "served"}, buf : Bufs,
                                 arg0 : Nat, arg1 : 0..DataSize]
           Output   == drained \in Seq(Nat) /\ total \in Nat
           Control  == pc \in {"idle", "args", "wait", "load", "end", "failed"}
<1>0. Calls /\ Results /\ Data /\ PageType /\ Output /\ Control
  BY DEF IndInv, States
<1>a. ASSUME UNCHANGED <<todo, got>> PROVE Calls'
  BY <1>0, <1>a DEF Call
<1>b. ASSUME NEW b \in Bufs, NEW s \in Statuses, buf' = [buf EXCEPT ![b].status = s]
      PROVE  Data'
  <2>1. \A c \in Bufs : buf[c] \in Buffer
    BY <1>0
  <2>2. buf'[b] = [buf[b] EXCEPT !.status = s] /\ \A c \in Bufs \ {b} : buf'[c] = buf[c]
    BY <1>0, <1>b
  <2>3. buf'[b] \in Buffer /\ buf'[b].data = buf[b].data
    BY <2>1, <2>2 DEF Buffer
  <2> QED
    BY <1>0, <1>b, <2>1, <2>2, <2>3
<1>c. /\ \A s \in {"IDLE", "REQUEST", "RESPONSE", "ERROR", "DONE"} : s \in Statuses
      /\ "read" \in Bufs /\ "write" \in Bufs
  BY DEF Statuses, Bufs
<1>1. CASE EmptyCall
  <2>1. todo # <<>> /\ got \in Seq(Nat) /\ Len(got) <= Call.len
    BY <1>0, <1>1, CallFacts DEF EmptyCall, IndInv
  <2>2. Calls' /\ Results'
    BY <1>1, <2>1, DoneTypes DEF EmptyCall, IndInv
  <2> QED
    BY <1>0, <1>1, <2>2 DEF EmptyCall, States
<1>2. CASE FailAtEnd
  BY <1>0, <1>2, <1>a DEF FailAtEnd, States
<1>3. CASE ReadArgs
  <2>1. /\ todo # <<>> /\ Call.op = "read" /\ UNCHANGED <<todo, got>>
        /\ buf' = [buf EXCEPT !["read"].arg0 = Call.offset + Len(got),
                              !["read"].arg1 = Least(Wants, DataSize)]
    BY <1>3 DEF ReadArgs
  <2>2. Call.offset + Len(got) \in Nat /\ Wants \in Nat
    BY <2>1, CallFacts DEF IndInv
  <2>3. Least(Wants, DataSize) \in 0..DataSize
    <3>1. Least(Wants, DataSize) \in Nat /\ Least(Wants, DataSize) <= DataSize
      BY <2>2, LeastFacts
    <3> QED
      BY <3>1
  <2>4. Data'
    <3>1. buf["read"] \in Buffer /\ buf["write"] \in Buffer
      BY <1>0, <1>c
    <3>2. /\ buf'["read"] = [buf["read"] EXCEPT !.arg0 = Call.offset + Len(got),
                                                !.arg1 = Least(Wants, DataSize)]
          /\ buf'["write"] = buf["write"]
      BY <1>0, <1>c, <2>1
    <3>3. buf'["read"] \in Buffer /\ buf'["read"].data = buf["read"].data
      BY <2>2, <2>3, <3>1, <3>2 DEF Buffer
    <3>4. DOMAIN buf' = Bufs /\ buf' = [b \in Bufs |-> buf'[b]]
      BY <1>0, <2>1
    <3> QED
      BY <1>0, <3>1, <3>2, <3>3, <3>4 DEF Bufs
  <2> QED
    BY <1>0, <1>3, <1>a, <2>4 DEF ReadArgs, States
<1>4. CASE WriteArgs
  <2> DEFINE n == Least(Wants, DataSize)
  <2>1. /\ todo # <<>> /\ UNCHANGED <<todo, got>>
        /\ buf' = [buf EXCEPT !["write"].data = Bytes(total, n), !["write"].resp = n]
        /\ total' = total + n
    BY <1>4 DEF WriteArgs
  <2>2. Wants \in Nat
    BY <2>1, CallFacts DEF IndInv
  <2>3. n \in Nat /\ n \in 0..DataSize
    BY <2>2, LeastFacts
  <2>4. Bytes(total, n) \in Seq(Nat) /\ Len(Bytes(total, n)) = n
    BY <1>0, <2>3, BytesType
  <2> HIDE DEF n
  <2>5. Data'
    <3>1. buf["read"] \in Buffer /\ buf["write"] \in Buffer
      BY <1>0, <1>c
    <3>2. /\ buf'["write"] = [buf["write"] EXCEPT !.data = Bytes(total, n), !.resp = n]
          /\ buf'["read"] = buf["read"]
      BY <1>0, <1>c, <2>1
    <3>3. buf'["write"] \in Buffer /\ buf'["write"].data = Bytes(total, n)
      BY <2>3, <2>4, <3>1, <3>2 DEF Buffer
    <3>4. DOMAIN buf' = Bufs /\ buf' = [b \in Bufs |-> buf'[b]]
      BY <1>0, <2>1
    <3>5. Len(buf'["write"].data) <= DataSize /\ Len(buf'["read"].data) <= DataSize
      BY <1>0, <1>c, <2>3, <2>4, <3>2, <3>3
    <3> QED
      BY <3>1, <3>2, <3>3, <3>4, <3>5 DEF Bufs
  <2>6. Output' /\ Control' /\ PageType' /\ Results'
    BY <1>0, <1>4, <2>1, <2>3 DEF WriteArgs
  <2> QED
    BY <1>a, <2>1, <2>5, <2>6 DEF States
<1>5. CASE Request
  <2>1. Call.op \in Bufs
    BY <1>5, CallFacts DEF IndInv, Turns, Busy, Request
  <2>2. Data'
    BY <1>5, <1>b, <1>c, <2>1 DEF Request
  <2> QED
    BY <1>0, <1>5, <1>a, <2>2 DEF Request, States
<1>6. CASE Wait
  BY <1>0, <1>6, <1>a DEF Wait, States
<1>7. CASE ReadRefused
  <2>1. Data'
    BY <1>7, <1>b, <1>c DEF ReadRefused
  <2> QED
    BY <1>0, <1>7, <1>a, <2>1 DEF ReadRefused, States
<1>8. CASE ReadAnswered
  <2> DEFINE n == Least(buf["read"].resp, Wants)
  <2>1. Data'
    BY <1>8, <1>b, <1>c DEF ReadAnswered
  <2>2. Calls' /\ Results' /\ Control'
    <3>1. CASE n = 0
      BY <1>0, <1>8, <1>a, <3>1 DEF ReadAnswered
    <3>2. CASE n # 0
      <4>1. Done(got \o SubSeq(buf["read"].data, 1, n)) /\ pc' = "idle"
        BY <1>8, <3>2 DEF ReadAnswered
      <4>2. /\ got \o SubSeq(buf["read"].data, 1, n) \in Seq(Nat)
            /\ Len(got \o SubSeq(buf["read"].data, 1, n)) <= Call.len
        BY <1>8, ReadSoFarIs
      <4>3. todo # <<>> /\ States
        BY <1>8, ReadTypes DEF IndInv
      <4> QED
        BY <4>1, <4>2, <4>3, DoneTypes
    <3> QED
      BY <3>1, <3>2
  <2> QED
    BY <1>0, <1>8, <2>1, <2>2 DEF ReadAnswered, States
<1>9. CASE WriteRefused
  BY <1>0, <1>9, <1>a DEF WriteRefused, States
<1>10. CASE WriteAccepted
  <2> DEFINE n == Least(Wants, DataSize)
  <2>1. Done(got \o SubSeq(buf["write"].data, 1, n)) /\ pc' = "idle"
    BY <1>10 DEF WriteAccepted
  <2>2. /\ todo # <<>> /\ States
        /\ got \o SubSeq(buf["write"].data, 1, n) \in Seq(Nat)
        /\ Len(got \o SubSeq(buf["write"].data, 1, n)) <= Call.len
    BY <1>10, WrittenSoFarIs DEF IndInv
  <2>3. Calls' /\ Results' /\ Control'
    BY <2>1, <2>2, DoneTypes
  <2> QED
    BY <1>0, <1>10, <2>3 DEF WriteAccepted, States
<1>11. CASE Finish
  <2>1. Data'
    BY <1>11, <1>b, <1>c DEF Finish
  <2> QED
    BY <1>0, <1>11, <1>a, <2>1 DEF Finish, States
<1>12. ASSUME NEW b \in Bufs, PageSees(b) PROVE States'
  <2>1. buf[b].arg0 \in Nat /\ buf[b].arg1 \in 0..DataSize
    BY <1>0 DEF Buffer
  <2>2. PageType'
    BY <1>12, <2>1 DEF PageSees
  <2> QED
    BY <1>0, <1>12, <1>a, <2>2 DEF PageSees, States
<1>13. ASSUME NEW n \in 0..page.arg1, PageReads(n) PROVE States'
  <2>1. buf' = [buf EXCEPT !["read"].data = Bytes(page.arg0, n), !["read"].resp = n]
    BY <1>13 DEF PageReads
  <2>a. page.arg0 \in Nat /\ n \in 0..DataSize /\ n \in Nat
    BY <1>0, <1>13
  <2>2. Bytes(page.arg0, n) \in Seq(Nat) /\ Len(Bytes(page.arg0, n)) = n
    BY <2>a, BytesType
  <2>3. Data'
    <3>1. buf["read"] \in Buffer /\ buf["write"] \in Buffer
      BY <1>0, <1>c
    <3>2. /\ buf'["read"] = [buf["read"] EXCEPT !.data = Bytes(page.arg0, n), !.resp = n]
          /\ buf'["write"] = buf["write"]
      BY <1>0, <1>c, <2>1
    <3>3. buf'["read"] \in Buffer /\ buf'["read"].data = Bytes(page.arg0, n)
      BY <2>a, <2>2, <3>1, <3>2 DEF Buffer
    <3>4. DOMAIN buf' = Bufs /\ buf' = [b \in Bufs |-> buf'[b]]
      BY <1>0, <2>1
    <3>5. Len(buf'["read"].data) <= DataSize /\ Len(buf'["write"].data) <= DataSize
      BY <1>0, <1>c, <2>a, <2>2, <3>2, <3>3
    <3> QED
      BY <3>1, <3>2, <3>3, <3>4, <3>5 DEF Bufs
  <2>4. PageType'
    BY <1>0, <1>13 DEF PageReads
  <2> QED
    BY <1>0, <1>13, <1>a, <2>3, <2>4 DEF PageReads, States
<1>14. CASE PageDrains
  <2> DEFINE r == buf["write"].resp
             d == buf["write"].data
  <2>1. page.at = "serving" /\ page.buf = "write"
    BY <1>14 DEF PageDrains
  <2>2. pc = "wait" /\ Call.op = "write" /\ buf["write"].status = "REQUEST"
    BY <2>1 DEF IndInv, Turns, OneSideAtATime
  <2>3. Len(d) = r /\ d \in Seq(Nat)
    BY <1>c, <2>2, Buffers DEF IndInv, Writing, Busy
  <2>4. drained' = drained \o SubSeq(d, 1, r)
    BY <1>14 DEF PageDrains
  <2> HIDE DEF r, d
  <2>5. SubSeq(d, 1, r) = d
    BY <2>3, SubSeqFull
  <2>6. Output'
    BY <1>0, <1>14, <2>3, <2>4, <2>5, JoinTypes DEF PageDrains
  <2>7. PageType'
    BY <1>0, <1>14 DEF PageDrains
  <2> QED
    BY <1>0, <1>14, <1>a, <2>6, <2>7 DEF PageDrains, States
<1>15. CASE PageAnswers
  <2>1. Data'
    BY <1>0, <1>15, <1>b, <1>c DEF PageAnswers
  <2>2. PageType'
    BY <1>15, <1>c DEF PageAnswers, Resting
  <2> QED
    BY <1>0, <1>15, <1>a, <2>1, <2>2 DEF PageAnswers, States
<1>16. CASE PageRefuses
  <2>1. Data'
    BY <1>0, <1>16, <1>b, <1>c DEF PageRefuses
  <2>2. PageType'
    BY <1>16, <1>c DEF PageRefuses, Resting
  <2> QED
    BY <1>0, <1>16, <1>a, <2>1, <2>2 DEF PageRefuses, States
<1>17. CASE UNCHANGED vars
  BY <1>0, <1>17, <1>a DEF vars, States
<1> QED
  BY <1>1, <1>2, <1>3, <1>4, <1>5, <1>6, <1>7, <1>8, <1>9, <1>10, <1>11, <1>12, <1>13,
     <1>14, <1>15, <1>16, <1>17 DEF Next, Worker, Page

-----------------------------------------------------------------------------
(* Every step keeps the turns.                                             *)

\* A store to one status leaves all else in the buffers.
LEMMA SetStatus ==
  ASSUME States, NEW b \in Bufs, NEW s, buf' = [buf EXCEPT ![b].status = s]
  PROVE  /\ buf'[b].status = s
         /\ \A c \in Bufs \ {b} : buf'[c] = buf[c]
         /\ \A c \in Bufs : /\ buf'[c].arg0 = buf[c].arg0 /\ buf'[c].resp = buf[c].resp
                            /\ buf'[c].data = buf[c].data
<1>1. b \in DOMAIN buf /\ \A c \in Bufs : c \in DOMAIN buf
  BY DEF States
<1>2. buf'[b] = [buf[b] EXCEPT !.status = s] /\ \A c \in Bufs \ {b} : buf'[c] = buf[c]
  BY <1>1
<1>3. buf[b] \in Buffer
  BY DEF States
<1> QED
  BY <1>2, <1>3 DEF Buffer

\* The other stores leave the status.
LEMMA SetData ==
  ASSUME States, ReadArgs \/ WriteArgs \/ \E n \in 0..page.arg1 : PageReads(n)
  PROVE  \A b \in Bufs : buf'[b].status = buf[b].status
<1>1. \A b \in Bufs : b \in DOMAIN buf /\ buf[b] \in Buffer
  BY DEF States
<1>2. CASE ReadArgs
  <2>1. buf'["read"].status = buf["read"].status /\ buf'["write"] = buf["write"]
    BY <1>1, <1>2 DEF ReadArgs, Buffer, Bufs
  <2> QED
    BY <2>1 DEF Bufs
<1>3. CASE WriteArgs
  <2>1. buf'["write"].status = buf["write"].status /\ buf'["read"] = buf["read"]
    BY <1>1, <1>3 DEF WriteArgs, Buffer, Bufs
  <2> QED
    BY <2>1 DEF Bufs
<1>4. ASSUME NEW n \in 0..page.arg1, PageReads(n)
      PROVE  \A b \in Bufs : buf'[b].status = buf[b].status
  <2>1. buf'["read"].status = buf["read"].status /\ buf'["write"] = buf["write"]
    BY <1>1, <1>4 DEF PageReads, Buffer, Bufs
  <2> QED
    BY <2>1 DEF Bufs
<1> QED
  BY <1>2, <1>3, <1>4

LEMMA TurnsStep ==
  ASSUME IndInv, [Next]_vars
  PROVE  Turns'
<1>0. States /\ Turns
  BY DEF IndInv
<1>a. "read" \in Bufs /\ "write" \in Bufs
  BY DEF Bufs
<1>b. pc # "wait" => page.at = "idle" /\ \A b \in Bufs : buf[b].status # "REQUEST"
  BY <1>0 DEF Turns, OneSideAtATime
\* Back to a worker that is not busy, with no request made.
<1>c. ASSUME pc \in {"idle", "load"}, pc' \in {"idle", "end", "failed"}, page' = page,
             \A b \in Bufs : buf'[b].status \in {buf[b].status, "IDLE", "DONE"}
      PROVE  Turns'
  BY <1>b, <1>c DEF Turns, OneSideAtATime, Busy
<1>1. CASE EmptyCall
  BY <1>c, <1>1 DEF EmptyCall
<1>2. CASE FailAtEnd
  BY <1>c, <1>2 DEF FailAtEnd
<1>3. CASE ReadArgs \/ WriteArgs
  <2>1. /\ pc = "idle" /\ pc' = "args" /\ UNCHANGED <<todo, got, page>>
        /\ todo # <<>> /\ Wants > 0
    BY <1>3 DEF ReadArgs, WriteArgs
  <2>2. \A b \in Bufs : buf'[b].status # "REQUEST"
    BY <1>0, <1>3, <1>b, <2>1, SetData
  <2> QED
    BY <1>b, <2>1, <2>2 DEF Turns, OneSideAtATime, Busy, Wants, Call
<1>4. CASE Request
  <2>1. /\ pc = "args" /\ pc' = "wait" /\ UNCHANGED <<todo, got, page>>
        /\ buf' = [buf EXCEPT ![Call.op].status = "REQUEST"]
    BY <1>4 DEF Request
  <2>2. todo # <<>> /\ Wants > 0 /\ Call.op \in Bufs
    BY <1>0, <2>1, CallFacts DEF Turns, Busy
  <2>3. /\ buf'[Call.op].status = "REQUEST"
        /\ \A c \in Bufs \ {Call.op} : buf'[c] = buf[c]
    BY <1>0, <2>1, <2>2, SetStatus
  <2>4. Call' = Call /\ Wants' = Wants
    BY <2>1 DEF Call, Wants
  <2> QED
    BY <1>b, <2>1, <2>2, <2>3, <2>4 DEF Turns, OneSideAtATime, Busy
<1>5. CASE Wait
  <2>1. /\ pc = "wait" /\ pc' = "load" /\ UNCHANGED <<todo, got, buf, page>>
        /\ buf[Call.op].status # "REQUEST"
    BY <1>5 DEF Wait
  <2>2. Call' = Call /\ Wants' = Wants
    BY <2>1 DEF Call, Wants
  <2> QED
    BY <1>0, <2>1, <2>2 DEF Turns, OneSideAtATime, Busy
<1>6. CASE ReadRefused \/ ReadAnswered
  <2>1. /\ pc = "load" /\ pc' \in {"idle", "failed"} /\ page' = page
        /\ buf' = [buf EXCEPT !["read"].status = "IDLE"]
    BY <1>6 DEF ReadRefused, ReadAnswered
  <2>2. \A b \in Bufs : buf'[b].status \in {buf[b].status, "IDLE"}
    BY <1>0, <1>a, <2>1, SetStatus
  <2> QED
    BY <1>c, <2>1, <2>2
<1>7. CASE WriteRefused \/ WriteAccepted
  BY <1>c, <1>7 DEF WriteRefused, WriteAccepted
<1>8. CASE Finish
  <2>1. /\ pc = "idle" /\ pc' = "end" /\ page' = page
        /\ buf' = [buf EXCEPT !["write"].status = "DONE"]
    BY <1>8 DEF Finish
  <2>2. \A b \in Bufs : buf'[b].status \in {buf[b].status, "DONE"}
    BY <1>0, <1>a, <2>1, SetStatus
  <2> QED
    BY <1>c, <2>1, <2>2
\* The page: the call under way does not change.
<1>d. ASSUME UNCHANGED <<todo, got, pc>>
      PROVE  Call' = Call /\ Wants' = Wants /\ Busy' = Busy
  BY <1>d DEF Call, Wants, Busy
<1>9. ASSUME NEW b \in Bufs, PageSees(b) PROVE Turns'
  <2>1. /\ buf[b].status = "REQUEST" /\ page'.at = "serving" /\ page'.buf = b
        /\ UNCHANGED <<todo, got, pc, buf>>
    BY <1>9 DEF PageSees
  <2> QED
    BY <1>0, <1>d, <2>1 DEF Turns, OneSideAtATime
<1>10. ASSUME NEW n \in 0..page.arg1, PageReads(n) PROVE Turns'
  <2>1. /\ page.at = "serving" /\ page'.at = "served" /\ page'.buf = page.buf
        /\ UNCHANGED <<todo, got, pc>>
    BY <1>0, <1>10 DEF PageReads, States
  <2>2. \A b \in Bufs : buf'[b].status = buf[b].status
    BY <1>0, <1>10, SetData
  <2>3. pc = "wait" /\ page.buf = Call.op /\ Call.op \in Bufs
    BY <1>0, <2>1, CallFacts DEF Turns, OneSideAtATime, Busy
  <2> QED
    BY <1>0, <1>d, <2>1, <2>2, <2>3 DEF Turns, OneSideAtATime
<1>11. CASE PageDrains
  <2>1. /\ page.at = "serving" /\ page'.at = "served" /\ page'.buf = page.buf
        /\ UNCHANGED <<todo, got, pc, buf>>
    BY <1>0, <1>11 DEF PageDrains, States
  <2> QED
    BY <1>0, <1>d, <2>1 DEF Turns, OneSideAtATime
<1>12. CASE PageAnswers \/ PageRefuses
  <2>1. /\ page.at # "idle" /\ page' = Resting /\ UNCHANGED <<todo, got, pc>>
        /\ \E s \in {"RESPONSE", "ERROR"} : buf' = [buf EXCEPT ![page.buf].status = s]
    BY <1>12 DEF PageAnswers, PageRefuses
  <2>2. pc = "wait" /\ page.buf = Call.op /\ Call.op \in Bufs
    BY <1>0, <2>1, CallFacts DEF Turns, OneSideAtATime, Busy
  <2>3. /\ buf'[Call.op].status \in {"RESPONSE", "ERROR"}
        /\ \A c \in Bufs \ {Call.op} : buf'[c] = buf[c]
    <3>1. PICK s \in {"RESPONSE", "ERROR"} : buf' = [buf EXCEPT ![Call.op].status = s]
      BY <2>1, <2>2
    <3> QED
      BY <1>0, <2>2, <3>1, SetStatus
  <2> QED
    BY <1>0, <1>d, <2>1, <2>2, <2>3 DEF Turns, OneSideAtATime, Resting
<1>13. CASE UNCHANGED vars
  BY <1>0, <1>13 DEF vars, Turns, OneSideAtATime, Busy, Wants, Call
<1> QED
  BY <1>1, <1>2, <1>3, <1>4, <1>5, <1>6, <1>7, <1>8, <1>9, <1>10, <1>11, <1>12, <1>13
     DEF Next, Worker, Page

-----------------------------------------------------------------------------
(* Every step keeps what is read.                                          *)

\* A call that goes on, or the next one with nothing read yet.
LEMMA DoneReading ==
  ASSUME IndInv, States', todo # <<>>, NEW bytes \in Seq(Nat), Done(bytes),
         Call.op = "read" => bytes = Bytes(Call.offset, Len(bytes))
  PROVE  /\ todo' # <<>> /\ Call'.op = "read" => got' = Bytes(Call'.offset, Len(got'))
         /\ ReadsAreWhatWasAsked'
<1>0. States
  BY DEF IndInv
<1>1. CASE Len(bytes) = Call.len
  <2>1. todo' = Tail(todo) /\ got' = <<>>
    BY <1>1 DEF Done
  <2>2. ASSUME todo' # <<>>, Call'.op = "read"
        PROVE  got' = Bytes(Call'.offset, Len(got'))
    <3>1. Call'.offset \in Nat
      <4>1. todo' \in Seq(CallType)
        BY DEF States
      <4>2. Call' \in CallType
        BY <2>2, <4>1, HeadTailProperties DEF Call
      <4> QED
        BY <2>2, <4>2 DEF CallType
    <3> QED
      BY <2>1, <3>1, NoBytes, EmptySeq
  <2>3. ReadsAreWhatWasAsked'
    <3> DEFINE r == [offset |-> Call.offset, len |-> Call.len, bytes |-> bytes]
               R == [offset : Nat, len : Nat, bytes : Seq(Nat)]
    <3>1. CASE Call.op = "read"
      <4>1. results' = Append(results, r)
        BY <1>1, <3>1 DEF Done
      <4>2. r \in R /\ results \in Seq(R)
        BY <1>0, <3>1, CallFacts DEF States
      <4>3. r.bytes = Bytes(r.offset, r.len)
        BY <1>1, <3>1
      <4> HIDE DEF r, R
      <4>4. /\ DOMAIN results' = 1..(Len(results) + 1) /\ DOMAIN results = 1..Len(results)
            /\ Len(results) \in Nat
            /\ results'[Len(results) + 1] = r
            /\ \A i \in 1..Len(results) : results'[i] = results[i]
        BY <4>1, <4>2, AppendProperties, LenProperties
      <4> QED
        BY <4>3, <4>4 DEF IndInv, Reading, ReadsAreWhatWasAsked
    <3>2. CASE Call.op # "read"
      BY <1>1, <3>2 DEF Done, IndInv, Reading, ReadsAreWhatWasAsked
    <3> QED
      BY <3>1, <3>2
  <2> QED
    BY <2>2, <2>3
<1>2. CASE Len(bytes) # Call.len
  <2>1. todo' = todo /\ got' = bytes /\ results' = results
    BY <1>2 DEF Done
  <2> QED
    BY <2>1 DEF Call, IndInv, Reading, ReadsAreWhatWasAsked
<1> QED
  BY <1>1, <1>2

LEMMA ReadingStep ==
  ASSUME IndInv, [Next]_vars, States', Turns'
  PROVE  Reading'
<1>0. States /\ Turns /\ Reading
  BY DEF IndInv
<1>a. "read" \in Bufs /\ "write" \in Bufs
  BY DEF Bufs
<1>b. pc # "wait" => page.at = "idle"
  BY <1>0 DEF Turns, OneSideAtATime
<1>c. ASSUME UNCHANGED <<todo, got>>
      PROVE  /\ Call' = Call /\ Place' = Place
             /\ todo' # <<>> /\ Call'.op = "read" => got' = Bytes(Call'.offset, Len(got'))
  BY <1>0, <1>c DEF Call, Place, Reading
<1>d. ASSUME results' = results PROVE ReadsAreWhatWasAsked'
  BY <1>0, <1>d DEF Reading, ReadsAreWhatWasAsked
\* Nothing is asked and nothing answered.
<1>e. ASSUME pc # "wait", pc' \in {"idle", "end", "failed"}, page' = page,
             todo' # <<>> /\ Call'.op = "read" => got' = Bytes(Call'.offset, Len(got')),
             ReadsAreWhatWasAsked'
      PROVE  Reading'
  BY <1>b, <1>e DEF Reading, Answered, Busy
<1>1. CASE EmptyCall
  <2>1. /\ todo # <<>> /\ Done(got) /\ pc = "idle" /\ pc' = pc /\ page' = page
    BY <1>1 DEF EmptyCall
  <2>2. got \in Seq(Nat) /\ (Call.op = "read" => got = Bytes(Call.offset, Len(got)))
    BY <1>0, <2>1 DEF States, Reading
  <2> QED
    BY <1>e, <2>1, <2>2, DoneReading
<1>2. CASE FailAtEnd
  BY <1>2, <1>c, <1>d, <1>e DEF FailAtEnd
<1>3. CASE ReadArgs
  <2>1. /\ pc = "idle" /\ pc' = "args" /\ UNCHANGED <<todo, got, page, results>>
        /\ buf' = [buf EXCEPT !["read"].arg0 = Call.offset + Len(got),
                              !["read"].arg1 = Least(Wants, DataSize)]
    BY <1>3 DEF ReadArgs
  <2>2. buf'["read"].arg0 = Place
    BY <1>0, <1>a, <2>1 DEF States, Buffer, Place
  <2> QED
    BY <1>b, <1>c, <1>d, <2>1, <2>2 DEF Reading, Answered, Busy
<1>4. CASE WriteArgs
  <2>1. /\ pc = "idle" /\ pc' = "args" /\ UNCHANGED <<todo, got, page, results>>
        /\ Call.op = "write"
    BY <1>4 DEF WriteArgs
  <2> QED
    BY <1>b, <1>c, <1>d, <2>1 DEF Reading, Answered, Busy
<1>5. CASE Request
  <2>1. /\ pc = "args" /\ pc' = "wait" /\ UNCHANGED <<todo, got, page, results>>
        /\ buf' = [buf EXCEPT ![Call.op].status = "REQUEST"]
    BY <1>5 DEF Request
  <2>2. Call.op \in Bufs
    BY <1>0, <2>1, CallFacts DEF Turns, Busy
  <2>3. buf'[Call.op].status = "REQUEST" /\ buf'["read"].arg0 = buf["read"].arg0
    BY <1>0, <1>a, <2>1, <2>2, SetStatus
  <2> QED
    BY <1>0, <1>b, <1>c, <1>d, <2>1, <2>3 DEF Reading, Answered, Busy
<1>6. CASE Wait
  <2>1. /\ pc = "wait" /\ pc' = "load" /\ UNCHANGED <<todo, got, buf, page, results>>
        /\ page.at = "idle"
    BY <1>0, <1>6 DEF Wait, Turns, OneSideAtATime
  <2> QED
    BY <1>0, <1>c, <1>d, <2>1 DEF Reading, Answered, Busy
<1>7. CASE ReadRefused \/ WriteRefused \/ Finish
  BY <1>7, <1>c, <1>d, <1>e DEF ReadRefused, WriteRefused, Finish
<1>8. CASE ReadAnswered
  <2> DEFINE n == Least(buf["read"].resp, Wants)
  <2>1. /\ pc = "load" /\ pc' \in {"idle", "failed"} /\ page' = page
    BY <1>8 DEF ReadAnswered
  <2>2. CASE n = 0
    BY <1>8, <1>c, <1>d, <1>e, <2>2 DEF ReadAnswered
  <2>3. CASE n # 0
    <3>1. Done(got \o SubSeq(buf["read"].data, 1, n))
      BY <1>8, <2>3 DEF ReadAnswered
    <3>2. todo # <<>>
      BY <1>0, <1>8, ReadTypes
    <3>3. /\ got \o SubSeq(buf["read"].data, 1, n) \in Seq(Nat)
          /\ got \o SubSeq(buf["read"].data, 1, n) =
               Bytes(Call.offset, Len(got \o SubSeq(buf["read"].data, 1, n)))
      BY <1>8, ReadSoFarIs
    <3> HIDE DEF n
    <3> QED
      BY <1>e, <2>1, <3>1, <3>2, <3>3, DoneReading
  <2> QED
    BY <2>2, <2>3
<1>9. CASE WriteAccepted
  <2> DEFINE n == Least(Wants, DataSize)
  <2>1. /\ pc = "load" /\ pc' = "idle" /\ page' = page
        /\ Done(got \o SubSeq(buf["write"].data, 1, n))
    BY <1>9 DEF WriteAccepted
  <2>2. /\ todo # <<>> /\ Call.op = "write"
        /\ got \o SubSeq(buf["write"].data, 1, n) \in Seq(Nat)
    BY <1>9, WrittenSoFarIs
  <2> HIDE DEF n
  <2> QED
    BY <1>e, <2>1, <2>2, DoneReading
<1>10. ASSUME NEW b \in Bufs, PageSees(b) PROVE Reading'
  <2>1. /\ page.at = "idle" /\ buf[b].status = "REQUEST"
        /\ page'.at = "serving" /\ page'.buf = b /\ page'.arg0 = buf[b].arg0
        /\ UNCHANGED <<todo, got, pc, buf, results>>
    BY <1>10 DEF PageSees
  <2>2. pc = "wait" /\ b = Call.op
    BY <1>0, <2>1 DEF Turns
  <2> QED
    BY <1>0, <1>c, <1>d, <2>1, <2>2 DEF Reading, Answered, Busy
<1>11. ASSUME NEW n \in 0..page.arg1, PageReads(n) PROVE Reading'
  <2>1. /\ page.at = "serving" /\ page.buf = "read" /\ page' = [page EXCEPT !.at = "served"]
        /\ buf' = [buf EXCEPT !["read"].data = Bytes(page.arg0, n), !["read"].resp = n]
        /\ UNCHANGED <<todo, got, pc, results>>
    BY <1>11 DEF PageReads
  <2>2. page'.at = "served" /\ page'.buf = "read" /\ page'.arg0 = page.arg0
    BY <1>0, <2>1 DEF States
  <2>3. /\ buf'["read"].data = Bytes(page.arg0, n) /\ buf'["read"].resp = n
        /\ buf'["read"].arg0 = buf["read"].arg0
    BY <1>0, <1>a, <2>1 DEF States, Buffer
  <2>4. page.arg0 = Place
    BY <1>0, <2>1 DEF Reading
  <2> QED
    BY <1>0, <1>c, <1>d, <2>1, <2>2, <2>3, <2>4 DEF Reading, Answered, Busy
<1>12. CASE PageDrains
  <2>1. /\ page.buf = "write" /\ page' = [page EXCEPT !.at = "served"]
        /\ UNCHANGED <<todo, got, pc, buf, results>>
    BY <1>12 DEF PageDrains
  <2>2. page'.buf = "write"
    BY <1>0, <2>1 DEF States
  <2> QED
    BY <1>0, <1>c, <1>d, <2>1, <2>2 DEF Reading, Answered, Busy
<1>13. CASE PageAnswers
  <2>1. /\ page.at = "served" /\ page' = Resting /\ UNCHANGED <<todo, got, pc, results>>
        /\ buf' = [buf EXCEPT ![page.buf].status = "RESPONSE"]
    BY <1>13 DEF PageAnswers
  <2>2. pc = "wait" /\ page.buf = Call.op /\ page.buf \in Bufs
    BY <1>0, <2>1, CallFacts DEF Turns, OneSideAtATime, Busy
  <2>3. \A c \in Bufs : buf'[c].arg0 = buf[c].arg0 /\ buf'[c].resp = buf[c].resp
                         /\ buf'[c].data = buf[c].data
    BY <1>0, <2>1, <2>2, SetStatus
  <2>4. Call.op = "read" => Answered
    BY <2>1, <2>2 DEF Answered
  <2> QED
    BY <1>0, <1>a, <1>c, <1>d, <2>1, <2>2, <2>3, <2>4 DEF Reading, Answered, Busy, Resting
<1>14. CASE PageRefuses
  <2>1. /\ page.at = "serving" /\ page' = Resting /\ UNCHANGED <<todo, got, pc, results>>
        /\ buf' = [buf EXCEPT ![page.buf].status = "ERROR"]
    BY <1>14 DEF PageRefuses
  <2>2. pc = "wait" /\ page.buf = Call.op /\ page.buf \in Bufs
    BY <1>0, <2>1, CallFacts DEF Turns, OneSideAtATime, Busy
  <2>3. buf'[page.buf].status = "ERROR" /\ buf'["read"].arg0 = buf["read"].arg0
    <3>1. buf' = [buf EXCEPT ![page.buf].status = "ERROR"]
      BY <2>1
    <3> QED
      BY <1>0, <1>a, <2>2, <3>1, SetStatus
  <2> QED
    BY <1>0, <1>c, <1>d, <2>1, <2>2, <2>3 DEF Reading, Answered, Busy, Resting
<1>15. CASE UNCHANGED vars
  BY <1>0, <1>15, <1>c, <1>d DEF vars, Reading, Answered, Busy
<1> QED
  BY <1>1, <1>2, <1>3, <1>4, <1>5, <1>6, <1>7, <1>8, <1>9, <1>10, <1>11, <1>12, <1>13,
     <1>14, <1>15 DEF Next, Worker, Page

-----------------------------------------------------------------------------
(* Every step keeps what is written.                                       *)

LEMMA WritingStep ==
  ASSUME IndInv, [Next]_vars, States', Turns'
  PROVE  Writing'
<1>0. States /\ Turns /\ Writing
  BY DEF IndInv
<1>a. "read" \in Bufs /\ "write" \in Bufs
  BY DEF Bufs
<1>b. pc # "wait" => page.at = "idle"
  BY <1>0 DEF Turns, OneSideAtATime
<1>c. ASSUME UNCHANGED <<todo, got>> PROVE Call' = Call /\ Wants' = Wants
  BY <1>c DEF Call, Wants
<1>d. Len(drained) \in Nat /\ total \in Nat
  BY <1>0, LenProperties DEF States
\* All that was announced is drained, or the call has failed.
<1>e. ASSUME pc' \in {"idle", "end", "failed"}, UNCHANGED <<drained, total>>, ~Undrained,
             pc' = "failed" \/ ~Refused, buf'["write"].status = "DONE" => pc' = "end"
      PROVE  Writing'
  BY <1>0, <1>e DEF Writing, Undrained, Refused, Busy
\* A read does not touch the output.
<1>f. ASSUME UNCHANGED <<todo, got, drained, total>>, Call.op = "read", pc # "failed",
             pc' \notin {"failed", "end"}, buf'["write"].status = buf["write"].status, pc # "end"
      PROVE  Writing'
  BY <1>0, <1>c, <1>f DEF Writing, Undrained, Refused, Busy
<1>1. CASE EmptyCall \/ FailAtEnd
  <2>1. pc = "idle" /\ pc' \in {"idle", "failed"} /\ UNCHANGED <<buf, drained, total>>
    BY <1>1 DEF EmptyCall, FailAtEnd
  <2> QED
    BY <1>0, <1>e, <2>1 DEF Writing, Undrained, Refused, Busy
<1>2. CASE ReadArgs
  <2>1. /\ pc = "idle" /\ pc' = "args" /\ Call.op = "read"
        /\ UNCHANGED <<todo, got, drained, total>>
    BY <1>2 DEF ReadArgs
  <2>2. buf'["write"].status = buf["write"].status
    BY <1>0, <1>2, <1>a, SetData
  <2> QED
    BY <1>f, <2>1, <2>2
<1>3. CASE WriteArgs
  <2> DEFINE n == Least(Wants, DataSize)
  <2>1. /\ pc = "idle" /\ pc' = "args" /\ todo # <<>> /\ Call.op = "write"
        /\ UNCHANGED <<todo, got, drained, page>> /\ total' = total + n
        /\ buf' = [buf EXCEPT !["write"].data = Bytes(total, n), !["write"].resp = n]
    BY <1>3 DEF WriteArgs
  <2>2. n \in Nat
    BY <1>0, <2>1, CallFacts, LeastFacts, BrowserAssumption
  <2>3. Len(Bytes(total, n)) = n
    BY <1>d, <2>2, BytesType
  <2>4. n = Least(Wants, DataSize)
    OBVIOUS
  <2> HIDE DEF n
  <2>5. buf'["write"].data = Bytes(total, n) /\ buf'["write"].resp = n
    BY <1>0, <1>a, <2>1 DEF States, Buffer
  <2>6. buf'["write"].status = buf["write"].status
    BY <1>0, <1>3, <1>a, SetData
  <2>7. Len(drained) = total /\ buf["write"].status # "DONE"
    BY <1>0, <2>1 DEF Writing, Undrained, Refused, Busy
  <2>8. Call' = Call /\ Least(Wants, DataSize)' = n
    BY <1>c, <2>1, <2>4
  <2> QED
    BY <1>0, <1>d, <2>1, <2>2, <2>3, <2>5, <2>6, <2>7, <2>8
       DEF Writing, Undrained, Refused, Busy
<1>4. CASE Request
  <2>1. /\ pc = "args" /\ pc' = "wait" /\ UNCHANGED <<todo, got, page, drained, total>>
        /\ buf' = [buf EXCEPT ![Call.op].status = "REQUEST"]
    BY <1>4 DEF Request
  <2>2. Call.op \in Bufs
    BY <1>0, <2>1, CallFacts DEF Turns, Busy
  <2>3. /\ buf'[Call.op].status = "REQUEST"
        /\ \A c \in Bufs \ {Call.op} : buf'[c] = buf[c]
        /\ buf'["write"].resp = buf["write"].resp /\ buf'["write"].data = buf["write"].data
    BY <1>0, <1>a, <2>1, <2>2, SetStatus
  <2>4. Call' = Call /\ Least(Wants, DataSize)' = Least(Wants, DataSize)
    BY <1>c, <2>1
  <2>5. CASE Call.op = "write"
    BY <1>0, <1>b, <2>1, <2>3, <2>4, <2>5 DEF Writing, Undrained, Refused, Busy
  <2>6. CASE Call.op = "read"
    BY <1>a, <1>f, <2>1, <2>3, <2>6
  <2> QED
    BY <2>2, <2>5, <2>6 DEF Bufs
<1>5. CASE Wait
  <2>1. /\ pc = "wait" /\ pc' = "load" /\ UNCHANGED <<todo, got, buf, page, drained, total>>
        /\ buf[Call.op].status # "REQUEST"
    BY <1>5 DEF Wait
  <2>2. Call' = Call /\ Least(Wants, DataSize)' = Least(Wants, DataSize)
    BY <1>c, <2>1
  <2> QED
    BY <1>0, <2>1, <2>2 DEF Writing, Undrained, Refused, Busy
<1>6. CASE ReadRefused \/ ReadAnswered
  <2>1. /\ pc = "load" /\ Call.op = "read" /\ pc' \in {"idle", "failed"}
        /\ UNCHANGED <<drained, total>>
        /\ buf' = [buf EXCEPT !["read"].status = "IDLE"]
    BY <1>6 DEF ReadRefused, ReadAnswered
  <2>2. buf'["write"] = buf["write"]
    BY <1>0, <1>a, <2>1, SetStatus
  <2> QED
    BY <1>0, <1>e, <2>1, <2>2 DEF Writing, Undrained, Refused, Busy
<1>7. CASE WriteRefused \/ WriteAccepted
  <2>1. /\ pc = "load" /\ Call.op = "write" /\ UNCHANGED <<buf, drained, total>>
        /\ \/ pc' = "failed"
           \/ pc' = "idle" /\ buf["write"].status # "ERROR"
    BY <1>7 DEF WriteRefused, WriteAccepted
  <2>2. buf["write"].status # "REQUEST" /\ buf["write"].status # "DONE"
    BY <1>0, <2>1 DEF Turns
  <2> QED
    BY <1>e, <2>1, <2>2 DEF Undrained, Refused, Busy
<1>8. CASE Finish
  BY <1>0, <1>8, <1>e DEF Finish, Undrained, Refused, Busy
<1>9. ASSUME NEW b \in Bufs, PageSees(b) PROVE Writing'
  <2>1. /\ page.at # "served" /\ page'.at # "served"
        /\ UNCHANGED <<todo, got, pc, buf, drained, total>>
    BY <1>9 DEF PageSees
  <2>2. Call' = Call /\ Least(Wants, DataSize)' = Least(Wants, DataSize)
    BY <1>c, <2>1
  <2> QED
    BY <1>0, <2>1, <2>2 DEF Writing, Undrained, Refused, Busy
<1>10. ASSUME NEW n \in 0..page.arg1, PageReads(n) PROVE Writing'
  <2>1. /\ page.at = "serving" /\ page.buf = "read"
        /\ UNCHANGED <<todo, got, pc, drained, total>>
    BY <1>10 DEF PageReads
  <2>2. pc = "wait" /\ Call.op = "read"
    BY <1>0, <2>1 DEF Turns, OneSideAtATime
  <2>3. buf'["write"].status = buf["write"].status
    BY <1>0, <1>10, <1>a, SetData
  <2> QED
    BY <1>f, <2>1, <2>2, <2>3
<1>11. CASE PageDrains
  <2> DEFINE r == buf["write"].resp
             d == buf["write"].data
  <2>1. /\ page.at = "serving" /\ page.buf = "write" /\ page' = [page EXCEPT !.at = "served"]
        /\ UNCHANGED <<todo, got, pc, buf, total>>
        /\ drained' = drained \o SubSeq(d, 1, r)
    BY <1>11 DEF PageDrains
  <2>2. page'.at = "served"
    BY <1>0, <2>1 DEF States
  <2>3. pc = "wait" /\ Call.op = "write" /\ buf["write"].status = "REQUEST"
    BY <1>0, <2>1 DEF Turns, OneSideAtATime
  <2>4. /\ total = Len(drained) + r /\ d = Bytes(Len(drained), r) /\ Len(d) = r
        /\ drained = Bytes(0, Len(drained))
    BY <1>0, <2>1, <2>3 DEF Writing, Undrained, Busy
  <2>5. d \in Seq(Nat) /\ r \in Nat
    BY <1>0, <1>a, Buffers
  <2>6. Call' = Call /\ Least(Wants, DataSize)' = Least(Wants, DataSize)
    BY <1>c, <2>1
  <2> HIDE DEF r, d
  <2>7. SubSeq(d, 1, r) = d
    BY <2>4, <2>5, SubSeqFull
  <2>8. drained' = Bytes(0, total)
    <3>1. Bytes(0, Len(drained)) \o Bytes(0 + Len(drained), r) = Bytes(0, Len(drained) + r)
      BY <1>d, <2>5, BytesJoin
    <3>2. 0 + Len(drained) = Len(drained)
      BY <1>d
    <3> QED
      BY <2>1, <2>4, <2>7, <3>1, <3>2
  <2>9. Len(drained') = total
    BY <1>d, <2>8, BytesType
  <2>10. ~Undrained' /\ buf'["write"].status # "DONE"
    BY <2>1, <2>2, <2>3 DEF Undrained
  <2>11. Busy' /\ Call'.op = "write" =>
           buf'["write"].resp = Least(Wants, DataSize)' /\ Len(buf'["write"].data) = buf'["write"].resp
    BY <1>0, <2>1, <2>6 DEF Writing, Busy
  <2>12. drained' = Bytes(0, Len(drained'))
    BY <2>8, <2>9
  <2>13. Len(drained') = total' /\ Len(drained') <= total'
    <3>1. total' = total
      BY <2>1
    <3> QED
      BY <1>d, <2>9, <3>1
  <2> QED
    BY <2>10, <2>11, <2>12, <2>13 DEF Writing
<1>12. CASE PageAnswers \/ PageRefuses
  <2>1. /\ page.at # "idle" /\ page' = Resting /\ UNCHANGED <<todo, got, pc, drained, total>>
        /\ \E s \in {"RESPONSE", "ERROR"} :
             /\ buf' = [buf EXCEPT ![page.buf].status = s]
             /\ s = "RESPONSE" => page.at = "served"
    BY <1>12 DEF PageAnswers, PageRefuses
  <2>2. /\ pc = "wait" /\ page.buf = Call.op /\ Call.op \in Bufs
        /\ buf[Call.op].status = "REQUEST"
    BY <1>0, <2>1, CallFacts DEF Turns, OneSideAtATime, Busy
  <2>3. PICK s \in {"RESPONSE", "ERROR"} :
          buf' = [buf EXCEPT ![Call.op].status = s] /\ (s = "RESPONSE" => page.at = "served")
    BY <2>1, <2>2
  <2>4. /\ buf'[Call.op].status = s
        /\ \A c \in Bufs \ {Call.op} : buf'[c] = buf[c]
        /\ buf'["write"].resp = buf["write"].resp /\ buf'["write"].data = buf["write"].data
    BY <1>0, <1>a, <2>2, <2>3, SetStatus
  <2>5. Call' = Call /\ Least(Wants, DataSize)' = Least(Wants, DataSize)
    BY <1>c, <2>1
  <2>6. CASE Call.op = "write"
    BY <1>0, <2>1, <2>2, <2>3, <2>4, <2>5, <2>6 DEF Writing, Undrained, Refused, Busy
  <2>7. CASE Call.op = "read"
    BY <1>a, <1>f, <2>1, <2>2, <2>4, <2>7
  <2> QED
    BY <2>2, <2>6, <2>7 DEF Bufs
<1>13. CASE UNCHANGED vars
  <2>1. UNCHANGED <<todo, got, pc, buf, page, drained, total>>
    BY <1>13 DEF vars
  <2>2. Call' = Call /\ Least(Wants, DataSize)' = Least(Wants, DataSize)
    BY <1>c, <2>1
  <2> QED
    BY <1>0, <2>1, <2>2 DEF Writing, Undrained, Refused, Busy
<1> QED
  BY <1>1, <1>2, <1>3, <1>4, <1>5, <1>6, <1>7, <1>8, <1>9, <1>10, <1>11, <1>12, <1>13
     DEF Next, Worker, Page

-----------------------------------------------------------------------------
(* The theorems.                                                           *)

LEMMA Inductive == IndInv /\ [Next]_vars => IndInv'
<1> SUFFICES ASSUME IndInv, [Next]_vars PROVE IndInv'
  OBVIOUS
<1>1. States' /\ Turns'
  BY StatesStep, TurnsStep
<1> QED
  BY <1>1, ReadingStep, WritingStep DEF IndInv

LEMMA Always == Spec => []IndInv
<1> QED
  BY InitInv, Inductive, PTL DEF Spec

\* The buffers and the worker keep their types, and no chunk or answer is
\* larger than the data region (wasm_io.rs DATA_SIZE).
THEOREM TypesHold == Spec => []TypeOK
<1>1. IndInv => TypeOK
  <2> SUFFICES ASSUME IndInv PROVE TypeOK
    OBVIOUS
  <2>1. \A b \in Bufs : buf[b] \in Buffer /\ Len(buf[b].data) <= DataSize
    BY DEF IndInv, States
  <2>2. \A b \in Bufs : /\ buf[b].status \in Statuses
                        /\ buf[b].arg1 \in 0..DataSize /\ buf[b].resp \in 0..DataSize
    BY <2>1 DEF Buffer
  <2> QED
    BY <2>1, <2>2 DEF IndInv, States, TypeOK
<1> QED
  BY <1>1, Always, PTL

\* The handshake of wasm_io.rs:9-30: while the page works on a buffer, the
\* worker waits on that buffer and its request stands.
THEOREM Handshake == Spec => []OneSideAtATime
<1>1. IndInv => OneSideAtATime
  BY DEF IndInv, Turns
<1> QED
  BY <1>1, Always, PTL

\* WasmReadAt::read_at under read_exact_at: every read that returns has the
\* bytes of its own place, however the page portions its answers.
THEOREM ReadsExact == Spec => []ReadsAreWhatWasAsked
<1>1. IndInv => ReadsAreWhatWasAsked
  BY DEF IndInv, Reading
<1> QED
  BY <1>1, Always, PTL

\* WasmWriteAt::write under write_all, and finish: the page receives the
\* output in order, each byte once, and all of it before DONE.
THEOREM OutputComplete == Spec => []OutputInOrder
<1>1. IndInv => OutputInOrder
  BY DEF IndInv, Writing, OutputInOrder, Undrained, Refused, Busy
<1> QED
  BY <1>1, Always, PTL
=============================================================================
