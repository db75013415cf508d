---------------------------- MODULE SerialUpload ----------------------------
(***************************************************************************)
(* Client.SubmitDeal followed by Client.UploadSerial (pkg/mk20/client.go,  *)
(* upload.go) against handleDeal, handleSerialUpload and handleStatus of   *)
(* the mock SP, with somebody else asking for the status of the deal at    *)
(* any time.                                                               *)
(*                                                                         *)
(* handleSerialUpload looks the deal up in one critical section and acts   *)
(* in another; handleStatus looks it up in one and then reads its fields   *)
(* without the mutex.  In between the deal may be submitted again, which   *)
(* puts a new record in its place.  A record is named by the submission    *)
(* that made it; 0 is no record.  A PUT is stored whole or not at all, so  *)
(* the bytes are "none" or "payload".                                      *)
(***************************************************************************)
EXTENDS Integers

CONSTANTS
  MaxSubmits,   \* bound: calls of SubmitDeal for the deal
  MaxAttempts   \* bound: calls of UploadSerial for the deal

ASSUME BoundsAssumption ==
  MaxSubmits \in Nat \ {0} /\ MaxAttempts \in Nat \ {0}

VARIABLES
  pc,         \* the calling goroutine
  outcome,    \* what UploadSerial returned: "none", "ok" or "error"
  submits,    \* number of submissions so far
  attempt,    \* number of uploads so far
  net,        \* requests on their way to the SP
  handling,   \* serial upload requests between their two critical sections
  replies,    \* requests answered 200, the answer on its way back
  record,     \* deals[id]
  finalized,  \* records with uploaded = true
  settled,    \* records older than SimulateProcessing
  bytes,      \* uploads[id]
  resubmitted, \* history: a submission was executed since the SP took up the
               \* finalize of the last upload
  replaced,   \* history: a record was replaced of which a finalize was taken up
  query,      \* the status query: [st, rec, after]
  seen        \* the state it reported last, or "none"

clientVars == <<pc, outcome, submits, attempt>>
netVars == <<net, handling, replies>>
spVars == <<record, finalized, settled, bytes, resubmitted, replaced>>
queryVars == <<query, seen>>
vars == <<clientVars, netVars, spVars, queryVars>>

DealRequest(n) == [kind |-> "deal", try |-> n]
PutRequest(n) == [kind |-> "put", try |-> n]
PostRequest(n) == [kind |-> "post", try |-> n]

Requests == {DealRequest(n) : n \in 1..MaxSubmits}
            \union {PutRequest(n) : n \in 1..MaxAttempts}
            \union {PostRequest(n) : n \in 1..MaxAttempts}

Records == 1..MaxSubmits

\* The client still wants the answer of r.
Waiting(r) ==
  \/ pc = "submitting" /\ r = DealRequest(submits)
  \/ pc = "putting" /\ r = PutRequest(attempt)
  \/ pc = "posting" /\ r = PostRequest(attempt)

NoQuery == [st |-> "idle", rec |-> 0, after |-> FALSE]

TypeOK ==
  /\ pc \in {"new", "submitting", "accepted", "putting", "posting", "returned"}
  /\ outcome \in {"none", "ok", "error"}
  /\ submits \in 0..MaxSubmits /\ attempt \in 0..MaxAttempts
  /\ net \subseteq Requests /\ replies \subseteq Requests
  /\ handling \subseteq [req : Requests, rec : Records]
  /\ record \in 0..MaxSubmits
  /\ finalized \subseteq Records /\ settled \subseteq Records
  /\ bytes \in {"none", "payload"}
  /\ resubmitted \in BOOLEAN /\ replaced \in BOOLEAN
  /\ query \in [st : {"idle", "asked", "found"}, rec : 0..MaxSubmits,
                after : BOOLEAN]
  /\ seen \in {"none", "accepted", "processing", "active"}

Init ==
  /\ pc = "new" /\ outcome = "none" /\ submits = 0 /\ attempt = 0
  /\ net = {} /\ handling = {} /\ replies = {}
  /\ record = 0 /\ finalized = {} /\ settled = {} /\ bytes = "none"
  /\ resubmitted = FALSE /\ replaced = FALSE
  /\ query = NoQuery /\ seen = "none"

-----------------------------------------------------------------------------
(* The client.  A request that could not even be sent is one that is lost. *)

\* SubmitDeal, for the first time or again after an error.
Submit ==
  /\ pc = "new" /\ submits < MaxSubmits
  /\ pc' = "submitting" /\ submits' = submits + 1
  /\ net' = net \union {DealRequest(submits + 1)}
  /\ UNCHANGED <<outcome, attempt, handling, replies, spVars, queryVars>>

SubmitOK ==
  /\ pc = "submitting" /\ DealRequest(submits) \in replies
  /\ pc' = "accepted"
  /\ replies' = replies \ {DealRequest(submits)}
  /\ UNCHANGED <<outcome, submits, attempt, net, handling, spVars, queryVars>>

\* A timeout, a lost answer, or an answer other than 2xx, such as the 400 of
\* FailNextDeal.
SubmitFails ==
  /\ pc = "submitting"
  /\ pc' = "new"
  /\ replies' = replies \ {DealRequest(submits)}
  /\ UNCHANGED <<outcome, submits, attempt, net, handling, spVars, queryVars>>

\* UploadSerial of an accepted deal, for the first time or again after an
\* error, with a body read from its start: the PUT.
SendPut ==
  /\ pc = "accepted" \/ (pc = "returned" /\ outcome = "error")
  /\ attempt < MaxAttempts
  /\ pc' = "putting" /\ outcome' = "none" /\ attempt' = attempt + 1
  /\ net' = net \union {PutRequest(attempt + 1)}
  /\ UNCHANGED <<submits, handling, replies, spVars, queryVars>>

\* The PUT was accepted, the POST follows.
SendPost ==
  /\ pc = "putting" /\ PutRequest(attempt) \in replies
  /\ pc' = "posting"
  /\ replies' = replies \ {PutRequest(attempt)}
  /\ net' = net \union {PostRequest(attempt)}
  /\ UNCHANGED <<outcome, submits, attempt, handling, spVars, queryVars>>

UploadOK ==
  /\ pc = "posting" /\ PostRequest(attempt) \in replies
  /\ pc' = "returned" /\ outcome' = "ok"
  /\ replies' = replies \ {PostRequest(attempt)}
  /\ UNCHANGED <<submits, attempt, net, handling, spVars, queryVars>>

\* A slip the model must notice: an error of the PUT is not looked at.
UploadFailsAfterPost ==
  /\ pc = "putting"
  /\ pc' = "posting"
  /\ net' = net \union {PostRequest(attempt)}
  /\ UNCHANGED <<outcome, submits, attempt, handling, replies, spVars,
                 queryVars>>

\* An error of the PUT or of the POST ends the call.
UploadFails ==
  /\ pc \in {"putting", "posting"}
  /\ pc' = "returned" /\ outcome' = "error"
  /\ replies' = replies \ {PutRequest(attempt), PostRequest(attempt)}
  /\ UNCHANGED <<submits, attempt, net, handling, spVars, queryVars>>

-----------------------------------------------------------------------------
(* The SP.                                                                 *)

\* The answer to r leaves the SP; a client that gave up does not get it.
Reply(r) == replies' = IF Waiting(r) THEN replies \union {r} ELSE replies

\* The SP has taken up a finalize of the record.
FinalizeTakenUp(rec) ==
  rec \in finalized \/ \E h \in handling : h.req.kind = "post" /\ h.rec = rec

\* handleDeal: a new record, whatever was there.
AcceptDeal(r) ==
  /\ r.kind = "deal"
  /\ record' = r.try
  /\ resubmitted' = TRUE
  /\ replaced' = (replaced \/ FinalizeTakenUp(record))
  /\ net' = net \ {r} /\ Reply(r)
  /\ UNCHANGED <<clientVars, handling, finalized, settled, bytes, queryVars>>

\* A slip the model must notice: a request works on the record that another one
\* being handled has found.
LookUpShared(r) ==
  /\ r.kind \in {"put", "post"} /\ record # 0
  /\ net' = net \ {r}
  /\ LET found == IF handling = {} THEN record
                  ELSE (CHOOSE h \in handling : TRUE).rec
     IN  handling' = handling \union {[req |-> r, rec |-> found]}
  /\ resubmitted' = (resubmitted /\ r # PostRequest(attempt))
  /\ UNCHANGED <<clientVars, replies, record, finalized, settled, bytes,
                 replaced, queryVars>>

\* handleSerialUpload, first critical section.  The deal is there, since it is
\* uploaded only after it was accepted.
LookUp(r) ==
  /\ r.kind \in {"put", "post"} /\ record # 0
  /\ net' = net \ {r}
  /\ handling' = handling \union {[req |-> r, rec |-> record]}
  /\ resubmitted' = (resubmitted /\ r # PostRequest(attempt))
  /\ UNCHANGED <<clientVars, replies, record, finalized, settled, bytes,
                 replaced, queryVars>>

\* A slip the model must notice: new bytes void the finalize.
StoreVoidsFinalize(h) ==
  /\ h.req.kind = "put"
  /\ bytes' = "payload" /\ finalized' = finalized \ {h.rec}
  /\ handling' = handling \ {h} /\ Reply(h.req)
  /\ UNCHANGED <<clientVars, net, record, settled, resubmitted, replaced,
                 queryVars>>

\* ... the body was read to its end: second critical section of a PUT.
Store(h) ==
  /\ h.req.kind = "put"
  /\ bytes' = "payload"
  /\ handling' = handling \ {h} /\ Reply(h.req)
  /\ UNCHANGED <<clientVars, net, record, finalized, settled, resubmitted,
                 replaced, queryVars>>

\* ... the body broke off: 400 and nothing stored.
BodyBreaks(h) ==
  /\ h.req.kind = "put"
  /\ handling' = handling \ {h}
  /\ UNCHANGED <<clientVars, net, replies, spVars, queryVars>>

\* Second critical section of a POST, on the record found by the first.
Finalize(h) ==
  /\ h.req.kind = "post"
  /\ finalized' = finalized \union {h.rec}
  /\ handling' = handling \ {h} /\ Reply(h.req)
  /\ UNCHANGED <<clientVars, net, record, settled, bytes, resubmitted, replaced,
                 queryVars>>

\* SimulateProcessing has passed since the deal was accepted.
Settle ==
  /\ record # 0 /\ record \notin settled
  /\ settled' = settled \union {record}
  /\ UNCHANGED <<clientVars, netVars, record, finalized, bytes, resubmitted,
                 replaced, queryVars>>

\* A request the client has given up is lost on its way.
Lose(r) ==
  /\ ~Waiting(r)
  /\ net' = net \ {r}
  /\ UNCHANGED <<clientVars, handling, replies, spVars, queryVars>>

-----------------------------------------------------------------------------
(* Client.Status from any goroutine or process, one call after the other.  *)
(* A query that fails is forgotten: it has no effect.                      *)

\* What handleStatus makes of the fields of rec.
StateOf(rec) ==
  CASE rec \notin finalized -> "accepted"
    [] rec \in finalized \ settled -> "processing"
    [] OTHER -> "active"

AskStatus ==
  /\ query.st = "idle"
  /\ query' = [st |-> "asked", rec |-> 0, after |-> outcome = "ok"]
  /\ UNCHANGED <<clientVars, netVars, spVars, seen>>

\* The critical section of handleStatus.
FindDeal ==
  /\ query.st = "asked" /\ record # 0
  /\ query' = [query EXCEPT !.st = "found", !.rec = record]
  /\ UNCHANGED <<clientVars, netVars, spVars, seen>>

\* 404, timeout, lost answer.
StatusFails ==
  /\ query.st # "idle"
  /\ query' = NoQuery
  /\ UNCHANGED <<clientVars, netVars, spVars, seen>>

\* The fields are read after the unlock, and answered.
AnswerStatus ==
  /\ query.st = "found"
  /\ seen' = StateOf(query.rec)
  /\ query' = NoQuery
  /\ UNCHANGED <<clientVars, netVars, spVars>>

-----------------------------------------------------------------------------
Client == \/ Submit \/ SubmitOK \/ SubmitFails
          \/ SendPut \/ SendPost \/ UploadOK \/ UploadFails

SPStep == \/ \E r \in net : AcceptDeal(r) \/ LookUp(r) \/ Lose(r)
          \/ \E h \in handling : Store(h) \/ BodyBreaks(h) \/ Finalize(h)
          \/ Settle

Observer == AskStatus \/ FindDeal \/ StatusFails \/ AnswerStatus

Next == Client \/ SPStep \/ Observer

Spec == Init /\ [][Next]_vars

-----------------------------------------------------------------------------
\* The SP never reports a deal as processed or active before it has the bytes,
\* in whatever order the two halves of old and new requests are executed
\* (mockserver.go:324-346, upload.go:38-43).
StatusIsTrue == seen \in {"processing", "active"} => bytes = "payload"

\* "PollStatus should now flip to active because the mock sets uploaded=true"
\* (integration_test.go:180): a status asked for after UploadSerial returned
\* nil is not "accepted".  The one excuse is a submission that was executed
\* after the SP took up the finalize of this upload: it leaves the mark on a
\* dead record (mockserver.go:283, 326).  Submissions executed before that,
\* even between the PUT and the POST, are none.
ReadYourUpload ==
  [][AnswerStatus /\ query.after /\ ~resubmitted => seen' # "accepted"]_vars

\* Seen from outside a deal only advances, although its fields are read
\* without the mutex, unless a record was replaced of which a finalize had been
\* taken up.
Rank(state) == CASE state = "none" -> 0 [] state = "accepted" -> 1
                 [] state = "processing" -> 2 [] state = "active" -> 3

NeverBack == [][~replaced => Rank(seen') >= Rank(seen)]_vars

\* UploadSerial and the SP implement UploadPromise: nil is returned only when
\* the SP has the payload, and no late half of a request takes it away.
Abstract == INSTANCE UploadPromise WITH
              outcome <- outcome,
              held <- IF bytes = "payload" THEN "payload" ELSE "nothing"

Promise == Abstract!Spec

-----------------------------------------------------------------------------
(* The inductive invariant.                                                *)

\* Every request that carries or acknowledges a finalize.
PostAbout == \/ \E r \in net \union replies : r.kind = "post"
             \/ \E h \in handling : h.req.kind = "post"

\* The bytes are there as soon as a PUT is acknowledged, and for good.
BytesInv ==
  /\ pc = "posting" \/ outcome = "ok" \/ PostAbout \/ finalized # {} =>
       bytes = "payload"
  /\ \A r \in replies : r.kind = "put" => bytes = "payload"

OutcomeInv == outcome # "none" => pc = "returned"

\* Nothing is known to anybody of a deal that is not there.
NoRecordInv ==
  record = 0 => /\ handling = {} /\ finalized = {}
                /\ \A r \in replies : r.kind # "post"
                /\ outcome # "ok" /\ query.st # "found" /\ seen = "none"

\* The finalize of the last upload is in one place, and sent after its PUT was
\* accepted.
OnceInv ==
  /\ \A r \in net \union replies : r.kind = "post" => r.try <= attempt
  /\ \A h \in handling : h.req.kind = "post" => h.req.try <= attempt
  /\ PostRequest(attempt) \in net =>
       /\ PostRequest(attempt) \notin replies /\ outcome # "ok"
       /\ \A h \in handling : h.req # PostRequest(attempt)
  /\ pc = "putting" =>
       /\ PostRequest(attempt) \notin net \union replies
       /\ \A h \in handling : h.req # PostRequest(attempt)

\* Until a submission comes after it, the finalize of the last upload and
\* whoever asks for its effect work on the record in place.
UploadedInv ==
  ~resubmitted =>
    /\ \A h \in handling : h.req = PostRequest(attempt) => h.rec = record
    /\ PostRequest(attempt) \in replies => record \in finalized
    /\ outcome = "ok" => record \in finalized
    /\ query.after /\ query.st = "found" => query.rec = record

\* As long as no record was replaced that was being finalized, all finalizes are
\* of the record in place, and of another one at most "accepted" is said.
RecordInv ==
  ~replaced =>
    /\ \A h \in handling : h.req.kind = "post" => h.rec = record
    /\ finalized \subseteq {record}
    /\ query.st = "found" /\ query.rec # record => Rank(seen) <= 1
    /\ seen # "none" => Rank(seen) <= Rank(StateOf(record))

QueryInv == query.after => outcome = "ok"

IInv == /\ TypeOK /\ BytesInv /\ OutcomeInv /\ NoRecordInv /\ OnceInv
        /\ UploadedInv /\ RecordInv /\ QueryInv /\ StatusIsTrue
=============================================================================
