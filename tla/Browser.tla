------------------------------- MODULE Browser -------------------------------
(***************************************************************************)
(* The two buffers a worker shares with its page (wasm_io.rs), under a     *)
(* conversion (convert_flat_mp4): WasmReadAt::read_at and                  *)
(* WasmWriteAt::write on the worker's side, and on the other side a page   *)
(* that follows the protocol of the module's comment, which is outside the *)
(* repository.  Each store, wait and copy is a step of its own.            *)
(*                                                                         *)
(* A byte is the place it has in the input or in the output.               *)
(***************************************************************************)
EXTENDS Integers, Sequences

CONSTANTS
  Programs,   \* sequences of calls: [op |-> "read", offset, len] or [op |-> "write", len]
  FileSize,   \* file_size, set by the page before the call
  DataSize    \* DATA_SIZE

\* What read_exact_at and write_all are asked for.
CallType == [op : {"read"}, offset : Nat, len : Nat] \cup [op : {"write"}, len : Nat]

ASSUME BrowserAssumption ==
  /\ FileSize \in Nat \ {0} /\ DataSize \in Nat \ {0}
  /\ Programs \subseteq Seq(CallType)

VARIABLES
  todo,      \* the calls left, the first one under way
  got,       \* the bytes the call under way has moved so far
  pc,        \* "idle", "args", "wait", "load", "end" or "failed"
  buf,       \* READ_BUF and WRITE_BUF: [status, arg0, arg1, resp, data]
  page,      \* what the page is at: [at, buf, arg0, arg1]
  results,   \* what the completed reads returned, [offset, len, bytes]
  drained,   \* the bytes the page has taken from the write buffer
  total      \* total_written

vars == <<todo, got, pc, buf, page, results, drained, total>>

Bufs == {"read", "write"}
Statuses == {"IDLE", "REQUEST", "RESPONSE", "ERROR", "DONE"}

Blank == [status |-> "IDLE", arg0 |-> 0, arg1 |-> 0, resp |-> 0, data |-> <<>>]
Resting == [at |-> "idle", buf |-> "read", arg0 |-> 0, arg1 |-> 0]

Init ==
  /\ todo \in Programs
  /\ got = <<>>
  /\ pc = "idle"
  /\ buf = [b \in Bufs |-> Blank]
  /\ page = Resting
  /\ results = <<>>
  /\ drained = <<>>
  /\ total = 0

Least(a, b) == IF a < b THEN a ELSE b
Bytes(from, n) == [i \in 1..n |-> from + i - 1]

-----------------------------------------------------------------------------
(* The worker.                                                             *)

Call == Head(todo)
Wants == Call.len - Len(got)

\* read_exact_at and write_all come back for the rest; a read that returns
\* nothing is an unexpected end of the file.
Done(bytes) ==
  IF Len(bytes) = Call.len
  THEN /\ todo' = Tail(todo)
       /\ got' = <<>>
       /\ results' = IF Call.op = "read"
                     THEN Append(results, [offset |-> Call.offset, len |-> Call.len, bytes |-> bytes])
                     ELSE results
  ELSE /\ got' = bytes
       /\ UNCHANGED <<todo, results>>

ReadPastEnd == Call.op = "read" /\ Call.offset + Len(got) >= FileSize

\* Nothing to move: no request is made.
EmptyCall ==
  /\ pc = "idle" /\ todo # <<>> /\ Wants = 0
  /\ Done(got)
  /\ UNCHANGED <<pc, buf, page, drained, total>>

FailAtEnd ==
  /\ pc = "idle" /\ todo # <<>> /\ Wants > 0 /\ ReadPastEnd
  /\ pc' = "failed"
  /\ UNCHANGED <<todo, got, buf, page, results, drained, total>>

ReadArgs ==
  /\ pc = "idle" /\ todo # <<>> /\ Wants > 0
  /\ Call.op = "read" /\ ~ReadPastEnd
  /\ buf' = [buf EXCEPT !["read"].arg0 = Call.offset + Len(got),
                        !["read"].arg1 = Least(Wants, DataSize)]
  /\ pc' = "args"
  /\ UNCHANGED <<todo, got, page, results, drained, total>>

\* A slip: the whole rest is announced, whatever the data region holds.
WriteArgsUncapped ==
  /\ pc = "idle" /\ todo # <<>> /\ Wants > 0
  /\ Call.op = "write"
  /\ buf' = [buf EXCEPT !["write"].data = Bytes(total, Least(Wants, DataSize)),
                        !["write"].resp = Wants]
  /\ total' = total + Wants
  /\ pc' = "args"
  /\ UNCHANGED <<todo, got, page, results, drained>>

WriteArgs ==
  /\ pc = "idle" /\ todo # <<>> /\ Wants > 0
  /\ Call.op = "write"
  /\ LET chunk == Least(Wants, DataSize)
     IN  /\ buf' = [buf EXCEPT !["write"].data = Bytes(total, chunk),
                               !["write"].resp = chunk]
         /\ total' = total + chunk
  /\ pc' = "args"
  /\ UNCHANGED <<todo, got, page, results, drained>>

\* atomic_store_notify(REQUEST).
Request ==
  /\ pc = "args"
  /\ buf' = [buf EXCEPT ![Call.op].status = "REQUEST"]
  /\ pc' = "wait"
  /\ UNCHANGED <<todo, got, page, results, drained, total>>

\* A slip: the wait is left out.
NoWait ==
  /\ pc = "wait"
  /\ pc' = "load"
  /\ UNCHANGED <<todo, got, buf, page, results, drained, total>>

\* A slip: the wait is for the answer, and an error is none.
WaitForResponse ==
  /\ pc = "wait"
  /\ buf[Call.op].status = "RESPONSE"
  /\ pc' = "load"
  /\ UNCHANGED <<todo, got, buf, page, results, drained, total>>

\* atomic_wait(REQUEST) returns at once when the answer is there already, and
\* is woken by the page's notify when it is not.
Wait ==
  /\ pc = "wait"
  /\ buf[Call.op].status # "REQUEST"
  /\ pc' = "load"
  /\ UNCHANGED <<todo, got, buf, page, results, drained, total>>

ReadRefused ==
  /\ pc = "load" /\ Call.op = "read"
  /\ buf["read"].status = "ERROR"
  /\ buf' = [buf EXCEPT !["read"].status = "IDLE"]
  /\ pc' = "failed"
  /\ UNCHANGED <<todo, got, page, results, drained, total>>

ReadAnswered ==
  /\ pc = "load" /\ Call.op = "read"
  /\ buf["read"].status # "ERROR"
  /\ LET n == Least(buf["read"].resp, Wants)
     IN  IF n = 0 THEN pc' = "failed" /\ UNCHANGED <<todo, got, results>>
         ELSE pc' = "idle" /\ Done(got \o SubSeq(buf["read"].data, 1, n))
  /\ buf' = [buf EXCEPT !["read"].status = "IDLE"]
  /\ UNCHANGED <<page, drained, total>>

\* The status stays what the page made it.
WriteRefused ==
  /\ pc = "load" /\ Call.op = "write"
  /\ buf["write"].status = "ERROR"
  /\ pc' = "failed"
  /\ UNCHANGED <<todo, got, buf, page, results, drained, total>>

WriteAccepted ==
  /\ pc = "load" /\ Call.op = "write"
  /\ buf["write"].status # "ERROR"
  /\ pc' = "idle"
  /\ Done(got \o SubSeq(buf["write"].data, 1, Least(Wants, DataSize)))
  /\ UNCHANGED <<buf, page, drained, total>>

\* finish(), which a conversion that fails does not reach.
Finish ==
  /\ pc = "idle" /\ todo = <<>>
  /\ buf' = [buf EXCEPT !["write"].status = "DONE"]
  /\ pc' = "end"
  /\ UNCHANGED <<todo, got, page, results, drained, total>>

Worker ==
  \/ EmptyCall \/ FailAtEnd \/ ReadArgs \/ WriteArgs \/ Request \/ Wait
  \/ ReadRefused \/ ReadAnswered \/ WriteRefused \/ WriteAccepted \/ Finish

-----------------------------------------------------------------------------
(* The page.                                                               *)

PageSees(b) ==
  /\ page.at = "idle"
  /\ buf[b].status = "REQUEST"
  /\ page' = [at |-> "serving", buf |-> b, arg0 |-> buf[b].arg0, arg1 |-> buf[b].arg1]
  /\ UNCHANGED <<todo, got, pc, buf, results, drained, total>>

\* Perhaps fewer bytes than were asked for, perhaps none.
PageReads(n) ==
  /\ page.at = "serving" /\ page.buf = "read"
  /\ page.arg0 + n <= FileSize
  /\ buf' = [buf EXCEPT !["read"].data = Bytes(page.arg0, n), !["read"].resp = n]
  /\ page' = [page EXCEPT !.at = "served"]
  /\ UNCHANGED <<todo, got, pc, results, drained, total>>

PageDrains ==
  /\ page.at = "serving" /\ page.buf = "write"
  /\ drained' = drained \o SubSeq(buf["write"].data, 1, buf["write"].resp)
  /\ page' = [page EXCEPT !.at = "served"]
  /\ UNCHANGED <<todo, got, pc, buf, results, total>>

PageAnswers ==
  /\ page.at = "served"
  /\ buf' = [buf EXCEPT ![page.buf].status = "RESPONSE"]
  /\ page' = Resting
  /\ UNCHANGED <<todo, got, pc, results, drained, total>>

PageRefuses ==
  /\ page.at = "serving"
  /\ buf' = [buf EXCEPT ![page.buf].status = "ERROR"]
  /\ page' = Resting
  /\ UNCHANGED <<todo, got, pc, results, drained, total>>

Page ==
  \/ \E b \in Bufs : PageSees(b)
  \/ \E n \in 0..page.arg1 : PageReads(n)
  \/ PageDrains \/ PageAnswers \/ PageRefuses

Next == Worker \/ Page

\* The worker runs and the page's event loop comes round.
Spec == Init /\ [][Next]_vars /\ WF_vars(Worker) /\ WF_vars(Page)

-----------------------------------------------------------------------------
(* Properties.                                                             *)

\* Type correctness of the buffers and of the worker.
TypeOK ==
  /\ pc \in {"idle", "args", "wait", "load", "end", "failed"}
  /\ \A b \in Bufs : /\ buf[b].status \in Statuses
                     /\ buf[b].arg1 \in 0..DataSize
                     /\ buf[b].resp \in 0..DataSize
                     /\ Len(buf[b].data) <= DataSize
  /\ got = <<>> \/ (todo # <<>> /\ Len(got) < Call.len)

\* wasm_io.rs read_at under read_exact_at: whatever the page answers at a
\* time, a read that returns has the bytes of the place it asked for, all of
\* them and none of an earlier answer.
ReadsAreWhatWasAsked ==
  \A i \in DOMAIN results : results[i].bytes = Bytes(results[i].offset, results[i].len)

\* wasm_io.rs write under write_all: the page receives the output from its
\* first byte on, each byte once and in order, though the data region is used
\* again for every chunk; once it sees DONE it has all of it.
OutputInOrder ==
  /\ drained = Bytes(0, Len(drained))
  /\ Len(drained) <= total
  /\ buf["write"].status = "DONE" => Len(drained) = total

\* wasm_io.rs:9-30: the data region and the arguments belong to the page from
\* the request to its answer; the worker is then waiting on that buffer, and a
\* call never returns on an answer to an earlier one.
OneSideAtATime ==
  page.at # "idle" =>
    /\ pc = "wait" /\ page.buf = Call.op
    /\ buf[page.buf].status = "REQUEST"

\* wasm_io.rs atomic_store_notify and atomic_wait: no wake-up is lost, the
\* worker ends, with the end of the stream announced or a call failed.
WorkerReturns == <>(pc \in {"end", "failed"})
=============================================================================
