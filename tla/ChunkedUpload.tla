--------------------------- MODULE ChunkedUpload ---------------------------
(***************************************************************************)
(* Client.UploadChunked (pkg/mk20/chunked.go) against the storage provider *)
(* of MockSP.                                                              *)
(*                                                                         *)
(* One reader goroutine cuts the body into chunks and offers them on an    *)
(* unbuffered channel; `Workers` goroutines take them and PUT them in      *)
(* parallel; the calling goroutine starts the upload, joins the reader and *)
(* the workers, and finalizes.  Any of them may fail, the caller's context *)
(* may be cancelled at any time, and the first recorded error cancels the  *)
(* rest.  Requests travel through net: one may be lost, overtaken, or      *)
(* executed long after the client gave it up.  After an error the caller   *)
(* may call UploadChunked again for the same deal and the same file.       *)
(***************************************************************************)
EXTENDS MockSP, FiniteSets

CONSTANTS
  ConcurrencyOpt,      \* ChunkedUploadOpts.Concurrency
  DefaultConcurrency,  \* 4 in the code
  ChunkSizeOpts,       \* the values of ChunkedUploadOpts.ChunkSize, in units
  DefaultChunkSize,    \* 16 MiB in the code
  MaxAttempts,         \* bound: calls of UploadChunked by one caller
  BodyMayFail          \* whether reading the body may return an I/O error

ASSUME ConcurrencyAssumption ==
  ConcurrencyOpt \in Int /\ DefaultConcurrency \in Nat \ {0}

ASSUME ChunkSizeAssumption ==
  ChunkSizeOpts \subseteq Int /\ DefaultChunkSize \in Nat \ {0}

ASSUME AttemptsAssumption ==
  MaxAttempts \in Nat \ {0} /\ BodyMayFail \in BOOLEAN

\* Zero and negative options mean the default.
OptOrDefault(opt, default) == IF opt > 0 THEN opt ELSE default

Workers == 1..OptOrDefault(ConcurrencyOpt, DefaultConcurrency)

ChunkSizes == {OptOrDefault(s, DefaultChunkSize) : s \in ChunkSizeOpts}

VARIABLES
  pc,         \* the calling goroutine
  outcome,    \* what UploadChunked returned: "none", "ok" or "error"
  attempt,    \* number of calls so far; names the requests of each call
  chunkSize,  \* units per chunk in this call
  ctxDone,    \* the caller's ctx is cancelled or past its deadline
  cancelled,  \* cancel() was called on uploadCtx
  firstErr,   \* "nil", or the kind of the first recorded error
  reader,     \* the reader goroutine: [st, idx, body, err]
  worker,     \* worker goroutines: [st, idx, body]
  acked,      \* history: the chunks of this call answered 200
  net,        \* requests on their way to the SP
  replies     \* requests answered 200, the answer on its way back

callVars == <<attempt, chunkSize>>
errVars == <<ctxDone, cancelled, firstErr>>
netVars == <<net, replies>>
clientVars == <<pc, outcome, callVars, errVars, reader, worker, acked>>
vars == <<clientVars, netVars, spVars>>

\* uploadCtx is a child of the caller's ctx.
uploadCtxDone == ctxDone \/ cancelled

Request == [kind : {"chunk", "finalize"}, attempt : 1..MaxAttempts,
            idx : ChunkNumbers, body : Stretch]

ChunkRequest(w) == [kind |-> "chunk", attempt |-> attempt,
                    idx |-> worker[w].idx, body |-> worker[w].body]

FinalizeRequest == [kind |-> "finalize", attempt |-> attempt,
                    idx |-> 0, body |-> NoBytes]

\* The client still wants the answer of r.
Waiting(r) ==
  \/ \E w \in Workers : worker[w].st = "sent" /\ r = ChunkRequest(w)
  \/ pc = "finalSent" /\ r = FinalizeRequest

NewReader == [st |-> "unborn", idx |-> 0, body |-> NoBytes, err |-> "nil"]
NewWorker == [st |-> "unborn", idx |-> 0, body |-> NoBytes]

CallTypeOK ==
  /\ pc \in {"idle", "starting", "streaming", "joining", "finalizing",
             "finalSent", "returned"}
  /\ outcome \in {"none", "ok", "error"}
  /\ attempt \in 0..MaxAttempts
  /\ chunkSize \in ChunkSizes
  /\ ctxDone \in BOOLEAN /\ cancelled \in BOOLEAN
  /\ firstErr \in {"nil", "put", "ctx", "read"}
  /\ acked \subseteq ChunkNumbers

GoroutineTypeOK ==
  /\ reader \in [st : {"unborn", "reading", "sending", "switch", "exited"},
                 idx : ChunkNumbers, body : Stretch,
                 err : {"nil", "eof", "fail"}]
  /\ worker \in [Workers ->
                  [st : {"unborn", "select", "ready", "sent", "exited"},
                   idx : ChunkNumbers, body : Stretch]]

NetTypeOK == net \subseteq Request /\ replies \subseteq Request

TypeOK == SPTypeOK /\ CallTypeOK /\ GoroutineTypeOK /\ NetTypeOK

-----------------------------------------------------------------------------
(* The calling goroutine.                                                  *)

Init ==
  /\ SPInit
  /\ pc = "idle" /\ outcome = "none" /\ attempt = 0
  /\ chunkSize \in ChunkSizes
  /\ ctxDone = FALSE /\ cancelled = FALSE /\ firstErr = "nil"
  /\ reader = NewReader /\ worker = [w \in Workers |-> NewWorker]
  /\ acked = {} /\ net = {} /\ replies = {}

\* UploadChunked is called, for the first time or again after an error, with
\* a body read from its start, some chunk size and a live ctx.
Call ==
  /\ pc = "idle" \/ (pc = "returned" /\ outcome = "error")
  /\ attempt < MaxAttempts
  /\ pc' = "starting" /\ outcome' = "none" /\ attempt' = attempt + 1
  /\ chunkSize' \in ChunkSizes
  /\ ctxDone' = FALSE /\ cancelled' = FALSE /\ firstErr' = "nil"
  /\ reader' = NewReader /\ worker' = [w \in Workers |-> NewWorker]
  /\ acked' = {}
  /\ UNCHANGED <<netVars, spVars>>

\* POST /uploads/{id} succeeds (the SP keeps nothing of it) and the
\* goroutines are launched.
Start ==
  /\ pc = "starting" /\ ~ctxDone
  /\ pc' = "streaming"
  /\ reader' = [reader EXCEPT !.st = "reading"]
  /\ worker' = [w \in Workers |-> [worker[w] EXCEPT !.st = "select"]]
  /\ UNCHANGED <<outcome, callVars, errVars, acked, netVars, spVars>>

\* The deferred cancel() runs on every return after line 77.
Return(result) ==
  /\ pc' = "returned" /\ outcome' = result
  /\ cancelled' = TRUE
  /\ UNCHANGED <<ctxDone, firstErr>>

StartFails ==
  /\ pc = "starting"
  /\ pc' = "returned" /\ outcome' = "error"
  /\ UNCHANGED <<callVars, errVars, reader, worker, acked, netVars, spVars>>

\* reader.Wait()
JoinReader ==
  /\ pc = "streaming" /\ reader.st = "exited"
  /\ pc' = "joining"
  /\ UNCHANGED <<outcome, callVars, errVars, reader, worker, acked,
                 netVars, spVars>>

\* A slip the model must notice: only the reader is waited for.
WorkersNotAwaited == TRUE

WorkersExited == \A w \in Workers : worker[w].st = "exited"

\* workers.Wait() and the check of firstErr that follows it.
JoinWorkers ==
  /\ pc = "joining" /\ WorkersExited
  /\ \/ firstErr # "nil" /\ Return("error")
     \/ /\ firstErr = "nil" /\ pc' = "finalizing"
        /\ UNCHANGED <<outcome, errVars>>
  /\ UNCHANGED <<callVars, reader, worker, acked, netVars, spVars>>

\* A slip the model must notice: the finalize request ignores the ctx.
SendFinalizeAnyway ==
  /\ pc = "finalizing"
  /\ pc' = "finalSent"
  /\ net' = net \union {FinalizeRequest}
  /\ UNCHANGED <<outcome, callVars, errVars, reader, worker, acked, replies,
                 spVars>>

\* doJSON with the caller's ctx: http.Client.Do sends nothing once it is done.
SendFinalize ==
  /\ pc = "finalizing" /\ ~ctxDone
  /\ pc' = "finalSent"
  /\ net' = net \union {FinalizeRequest}
  /\ UNCHANGED <<outcome, callVars, errVars, reader, worker, acked, replies,
                 spVars>>

FinalizeOK ==
  /\ pc = "finalSent" /\ FinalizeRequest \in replies
  /\ replies' = replies \ {FinalizeRequest}
  /\ Return("ok")
  /\ UNCHANGED <<callVars, reader, worker, acked, net, spVars>>

\* The request could not be signed or sent, was answered with an error, timed
\* out, or its answer was lost.
FinalizeFails ==
  /\ pc \in {"finalizing", "finalSent"}
  /\ replies' = replies \ {FinalizeRequest}
  /\ Return("error")
  /\ UNCHANGED <<callVars, reader, worker, acked, net, spVars>>

-----------------------------------------------------------------------------
(* recordErr, one critical section of firstErrMu.                          *)

\* Slips the model must notice: the last error wins; nobody is told.
RecordErrLastWins(kind) ==
  /\ firstErr' = kind
  /\ cancelled' = TRUE
  /\ UNCHANGED ctxDone

RecordErrSilently(kind) ==
  /\ firstErr' = IF firstErr = "nil" THEN kind ELSE firstErr
  /\ UNCHANGED <<ctxDone, cancelled>>

\* The first error is kept and cancels uploadCtx (cancel() is idempotent).
RecordErr(kind) ==
  /\ firstErr' = IF firstErr = "nil" THEN kind ELSE firstErr
  /\ cancelled' = TRUE
  /\ UNCHANGED ctxDone

-----------------------------------------------------------------------------
(* The reader goroutine.  Its deferred close(jobs) and reader.Done() follow *)
(* one another without a step between them, so "exited" stands for both.   *)

offset == reader.idx * chunkSize

\* A slip the model must notice: an empty read is sent as a chunk too.
ReadResultUnchecked(hi, err) ==
  reader' = [reader EXCEPT
               !.st = "sending", !.body = [lo |-> offset, hi |-> hi],
               !.err = err]

\* io.ReadFull fills the buffer (err = nil), or stops short at the end of the
\* body (io.EOF, io.ErrUnexpectedEOF), or at an error of the body.  What was
\* read, even of a failed read, is copied and offered on jobs if not empty.
ReadResult(hi, err) ==
  reader' = [reader EXCEPT
               !.st = IF hi > offset THEN "sending" ELSE "switch",
               !.body = [lo |-> offset, hi |-> hi],
               !.err = err]

ReadFull ==
  /\ reader.st = "reading"
  /\ \/ offset + chunkSize <= L /\ ReadResult(offset + chunkSize, "nil")
     \/ offset + chunkSize > L /\ ReadResult(L, "eof")
     \/ /\ BodyMayFail
        /\ \E hi \in offset..L :
             hi < offset + chunkSize /\ ReadResult(hi, "fail")
  /\ UNCHANGED <<pc, outcome, callVars, errVars, worker, acked, netVars,
                 spVars>>

\* The rendezvous on jobs: the reader's send meets the receive of worker w.
\* select may take it even when uploadCtx is done.
Handoff(w) ==
  /\ reader.st = "sending" /\ worker[w].st = "select"
  /\ reader' = [reader EXCEPT !.st = "switch", !.idx = @ + 1]
  /\ worker' = [worker EXCEPT ![w] = [st |-> "ready", idx |-> reader.idx,
                                      body |-> reader.body]]
  /\ UNCHANGED <<pc, outcome, callVars, errVars, acked, netVars, spVars>>

ReaderCancelled ==
  /\ reader.st = "sending" /\ uploadCtxDone
  /\ reader' = [reader EXCEPT !.st = "exited"]
  /\ UNCHANGED <<pc, outcome, callVars, errVars, worker, acked, netVars,
                 spVars>>

\* The switch on err: go on, stop at the end, or record the read error.
ReaderSwitch ==
  /\ reader.st = "switch"
  /\ reader' = [reader EXCEPT
                  !.st = IF reader.err = "nil" THEN "reading" ELSE "exited"]
  /\ IF reader.err = "fail" THEN RecordErr("read") ELSE UNCHANGED errVars
  /\ UNCHANGED <<pc, outcome, callVars, worker, acked, netVars, spVars>>

-----------------------------------------------------------------------------
(* Worker goroutine w.                                                     *)

\* The select finds uploadCtx done, or jobs closed.
WorkerExit(w) ==
  /\ worker[w].st = "select"
  /\ uploadCtxDone \/ reader.st = "exited"
  /\ worker' = [worker EXCEPT ![w].st = "exited"]
  /\ UNCHANGED <<pc, outcome, callVars, errVars, reader, acked, netVars,
                 spVars>>

\* doUploadPUT with uploadCtx sends the request.
SendChunk(w) ==
  /\ worker[w].st = "ready" /\ ~uploadCtxDone
  /\ worker' = [worker EXCEPT ![w].st = "sent"]
  /\ net' = net \union {ChunkRequest(w)}
  /\ UNCHANGED <<pc, outcome, callVars, errVars, reader, acked, replies,
                 spVars>>

ChunkOK(w) ==
  /\ worker[w].st = "sent" /\ ChunkRequest(w) \in replies
  /\ worker' = [worker EXCEPT ![w].st = "select"]
  /\ acked' = acked \union {worker[w].idx}
  /\ replies' = replies \ {ChunkRequest(w)}
  /\ UNCHANGED <<pc, outcome, callVars, errVars, reader, net, spVars>>

\* The PUT could not be signed or sent, was answered with an error (401, 404),
\* timed out, lost its answer, or was given up because uploadCtx is done.
ChunkFails(w) ==
  /\ worker[w].st \in {"ready", "sent"}
  /\ RecordErr("put") \/ (uploadCtxDone /\ RecordErr("ctx"))
  /\ worker' = [worker EXCEPT ![w].st = "exited"]
  /\ replies' = replies \ {ChunkRequest(w)}
  /\ UNCHANGED <<pc, outcome, callVars, reader, acked, net, spVars>>

-----------------------------------------------------------------------------
(* The caller's context, and the SP at the other end of net.               *)

CancelCtx ==
  /\ pc \notin {"idle", "returned"} /\ ~ctxDone
  /\ ctxDone' = TRUE
  /\ UNCHANGED <<pc, outcome, callVars, cancelled, firstErr, reader, worker,
                 acked, netVars, spVars>>

\* The SP executes a request; the answer finds the client only if it still
\* waits.  A 404 needs no answer here: the client may fail at any time.
SPHandles(r) ==
  /\ net' = net \ {r}
  /\ \/ /\ \/ r.kind = "chunk" /\ PutChunk(r.idx, r.body)
           \/ r.kind = "finalize" /\ FinalizeChunks
        /\ replies' = IF Waiting(r) THEN replies \union {r} ELSE replies
     \/ DealNotFound /\ UNCHANGED replies
  /\ UNCHANGED clientVars

\* A request the client has given up is lost on its way.
Lose(r) ==
  /\ ~Waiting(r)
  /\ net' = net \ {r}
  /\ UNCHANGED <<clientVars, replies, spVars>>

-----------------------------------------------------------------------------
ReaderStep == ReadFull \/ (\E w \in Workers : Handoff(w))
              \/ ReaderCancelled \/ ReaderSwitch

WorkerStep(w) == WorkerExit(w) \/ SendChunk(w) \/ ChunkOK(w) \/ ChunkFails(w)

MainStep == \/ Start \/ StartFails \/ JoinReader \/ JoinWorkers
            \/ SendFinalize \/ FinalizeOK \/ FinalizeFails

\* Nobody will call again.
Finished ==
  /\ pc = "returned"
  /\ outcome = "ok" \/ attempt = MaxAttempts
  /\ UNCHANGED vars

Next ==
  \/ Call
  \/ MainStep
  \/ ReaderStep
  \/ \E w \in Workers : WorkerStep(w)
  \/ CancelCtx
  \/ \E r \in net : SPHandles(r)
  \/ \E r \in net : Lose(r)
  \/ Finished

Spec == Init /\ [][Next]_vars

\* Goroutines run.  A request ends by itself: http.Client has a timeout of
\* 60 s, so a worker or the caller in "sent" can always fail.  Reading the body
\* ends, as it does for a file.  Nothing is assumed of the SP, of net, of the
\* caller's ctx, or of a further Call.
FairSpec ==
  /\ Spec
  /\ WF_vars(MainStep) /\ WF_vars(ReaderStep)
  /\ \A w \in Workers : WF_vars(WorkerStep(w))

-----------------------------------------------------------------------------
(* Properties.                                                             *)

\* The chunks that the payload is made of.
AllChunks == {i \in ChunkNumbers : i * chunkSize < L}

\* The SP is asked to assemble the upload only when every chunk of the payload
\* was answered 200 in this call: no interleaving of a failed PUT, a failed
\* read, a cancelled ctx, the two waits and the check of firstErr lets a
\* partial upload be finalized (lines 149-157).
FinalizeOnlyComplete ==
  pc = "finalSent" \/ outcome = "ok" => AllChunks \subseteq acked

\* The error the caller sees is the cause and not its echo: when one PUT fails
\* and cancels the others, their "context canceled" errors never replace it.
\* An error of kind ctx is reported only if the caller's own ctx ended
\* (recordErr, lines 83-90).
RootCause == firstErr = "ctx" => ctxDone

\* UploadChunked leaves no goroutine behind on any path: after it returns,
\* nobody reads the caller's body or sends a chunk (lines 149-150).
NoGoroutineOutlives ==
  pc = "returned" =>
    /\ reader.st \in {"unborn", "exited"}
    /\ \A w \in Workers : worker[w].st \in {"unborn", "exited"}

\* When UploadChunked returns nil the SP holds the payload, whatever happened
\* to the calls before it (pkg/mk20/integration_test.go:269-277).
SuccessMeansStored == outcome = "ok" => SPHoldsPayload

\* A call of UploadChunked and the SP implement UploadPromise: in addition to
\* SuccessMeansStored, what the SP holds is never damaged by a request that
\* comes late or by a further call for the same file.
Abstract == INSTANCE UploadPromise WITH
              outcome <- outcome,
              held <- IF SPHoldsPayload THEN "payload" ELSE "nothing"

Promise == Abstract!Spec

\* Every call returns, although the channel is unbuffered and all the workers
\* may have failed: the reader never waits for ever to hand over a chunk.
UploadReturns == pc = "starting" ~> pc = "returned"

-----------------------------------------------------------------------------
(* The inductive invariant, by the question each part answers.             *)

Busy(w) == worker[w].st \in {"ready", "sent"}

\* How far the calling goroutine is tells how far the others are.
PhaseInv ==
  /\ pc # "idle" => attempt \in 1..MaxAttempts
  /\ pc \in {"idle", "starting"} =>
       reader.st = "unborn" /\ reader.idx = 0
       /\ \A w \in Workers : worker[w].st = "unborn"
  /\ pc \in {"streaming", "joining", "finalizing", "finalSent"} =>
       reader.st # "unborn" /\ \A w \in Workers : worker[w].st # "unborn"
  /\ pc \in {"joining", "finalizing", "finalSent"} => reader.st = "exited"
  /\ pc \in {"finalizing", "finalSent"} => WorkersExited /\ firstErr = "nil"
  /\ outcome # "none" => pc = "returned"

\* Where the reader is in the body.
ReaderInv ==
  /\ reader.st = "reading" => offset <= L
  /\ reader.st = "sending" => offset < L
  /\ reader.st = "sending" /\ reader.err = "nil" => offset + chunkSize <= L
  /\ reader.st = "switch" /\ reader.err = "nil" => offset <= L
  /\ reader.st = "sending" /\ reader.err = "eof" => offset + chunkSize >= L
  /\ reader.st = "switch" /\ reader.err = "eof" => offset >= L

\* Until the call returns, cancel() comes from recordErr only.
ErrorInv == pc # "returned" => (cancelled <=> firstErr # "nil")

\* As long as nothing went wrong in the call ...
Untroubled == firstErr = "nil" /\ ~uploadCtxDone

\* ... no chunk is lost between the reader and the SP's answers, and the
\* reader stops only at the end of the body.
ProgressInv ==
  Untroubled =>
    /\ \A i \in ChunkNumbers :
         i < reader.idx =>
           i \in acked \/ \E w \in Workers : Busy(w) /\ worker[w].idx = i
    /\ reader.st = "exited" => offset >= L

IInv == /\ TypeOK /\ PhaseInv /\ ReaderInv /\ ErrorInv /\ ProgressInv
        /\ FinalizeOnlyComplete /\ RootCause /\ NoGoroutineOutlives
=============================================================================
