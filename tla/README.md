# filcrate in TLA+

filcrate stores a file with a Filecoin storage provider (SP) over the mk20 HTTP
protocol: it finds providers, probes what they support, submits a deal, pushes
the bytes, and polls until the provider is done.  These modules describe the
parts of it where order, concurrency, failure or a boundary decides whether it
is right.  TLC checks them on small instances, and TLAPS proves
every invariant and action property of the passing runs but one for every instance.

Paths below are relative to `src/`; a bare line number refers to the file named
before it.

## 1. Inventory

| Component | State | Operations | What makes it correct |
|---|---|---|---|
| **Chunked upload client** `pkg/mk20/chunked.go` | per call: `uploadCtx`, `firstErr` under a mutex, the unbuffered channel `jobs`, one reader and `concurrency` worker goroutines, two WaitGroups | `UploadChunked`: start, read and hand over chunks, PUT them in parallel, join, finalize | an upload with a missing chunk is never finalized; the caller sees the first error; the call returns and leaves no goroutine behind; nil means that the SP has the payload |
| **Mock SP** `pkg/mk20/mockserver/mockserver.go` (the reference implementation of the SP side that this repository's tests run against) | maps `deals`, `uploads`, `chunks`, `chunkMax` under one mutex | `handleDeal`, `handleStatus`, `handleSerialUpload`, `handleChunkedUpload`, three capability handlers, `verifyAuth` | chunks that arrive in any order are assembled in theirs; a request executed late does no damage |
| **Serial upload client** `pkg/mk20/upload.go` | none beyond the call | `UploadSerial`: one PUT, one POST; `doUploadPUT` | finalize only after the PUT was accepted |
| **Status polling** `pkg/mk20/upload.go` | per call: the deadline, the last status | `PollStatus`, `isTerminal` | returns in time, never declares a timeout of a deal that had ended when it was asked about, does not flood the SP, notices the end |
| **mk20 HTTP client** `pkg/mk20/client.go`, `util.go` | base URL, signer, `http.Client` with a 60 s timeout | `Products`, `DataSources`, `Contracts`, `SubmitDeal`, `Status`, `doJSON` | every status other than 2xx is an error; arguments are checked before anything is sent |
| **Request signing** `pkg/mk20/auth.go`, `pkg/wallet/secp.go` | a key | `AuthHeader`, `ApplyAuth`, `WrapSignature`, `SignDigest` | a client that the SP accepts is refused for the minute of its signature only, and never for good; any other learns nothing |
| **Deal builders and types** `pkg/mk20/builders.go`, `types.go` | none | `NewDDODeal`, `NewPDPDeal`, `NewPDPCreateDataSetDeal` | exactly the options that describe a deal of their kind make one, and it is sound |
| **Catalog crawler: index pages** `pkg/catalog/crawler.go` | per call: page number, addresses so far | `fetchTopMiners` | the top of the ranking, whole, in order, with no page too many |
| **Probe pool** `pkg/catalog/crawler.go`, `internal/cli/sps.go` | semaphore channel, WaitGroup, the slice `results` | `probeAll`, `probeBatch`, the count in `Crawl` | bounded concurrency, every result present when counted, it ends |
| **Capability prober** `pkg/catalog/catalog.go` | per call: a `Capability` being filled | `Probe`, `httpCandidates` | https first, each URL once, first working one wins, failures are kept |
| **Chain RPC client** `pkg/chain/rpc.go` | endpoint, `http.Client` with a 30 s timeout | `StateMinerInfo` and other JSON-RPC calls | — |
| **Store command** `internal/cli/store.go`, `flags.go` | one process: flags, ctx with a timeout, commitment, deal, the open file | `filcrate store`: hash, sign, probe, build, submit, upload, poll | exit status 0 is true of the deal of this run; what is uploaded is what was committed to; it ends in time |
| **Other commands** `internal/cli/{sps,catalog,commp,version}.go` | flags | parse, call, print | — |
| **Piece commitment** `pkg/piece/piece.go` | a library hasher | `File`, `Stream` | it commits to the bytes that were read |

How they interact.  The store command calls the prober, the builders, the
client, one of the uploads and the poll, one after another.  The crawler calls
`fetchTopMiners` and then the pool, whose goroutines call the prober.  The
clients reach the SP by HTTP only: a request can be lost, answered late, or
executed after its sender gave it up.  The goroutines of an upload share a
channel, a context and a guarded error; those of the pool share a channel, a
WaitGroup and a slice of which each owns one element.

What is hard in it: the goroutines of an upload all end for different reasons,
in any order (failed PUT, failed read, ended ctx, closed channel), and the
answer is derived from what they left; an SP that is behind the client's view;
a semaphore and a WaitGroup whose operations are spread over a loop and deferred
calls; a paged index that changes while it is read; the clocks that meet in a
poll; a command whose file, SP and earlier runs all move on while it works.
`PROJECT.json` lists these hazards one by one, each at its line, with the properties that watch it or the reason why none does yet.

## 2. Modules

    UploadPromise          what an upload promises (abstract)
          ^  refinement (Promise)
    ChunkedUpload ------ extends ------> MockSP (the SP's maps and handlers)
          ^
    UploadRetry            the conditions under which a failed call may be repeated
    SerialUpload           submit, serial upload and status; implements UploadPromise too
    ProbePool              the pool and the count
    TopMiners              the pages of the index
    Prober <-- MCProber         (addresses for its runs)
    PollStatus <-- MCPollStatus (state names for its runs)
    StorePromise           what the exit status of `store` promises (abstract)
          ^  refinement (Promise)
    StoreCommand <-- MCStoreCommand (flags for its runs)
          | extends
    DealBuilder            the builders, as operators

    ChunkedUploadProofs, UploadRetryProofs, SerialUploadProofs, ProbePoolProofs,
    TopMinersProofs, PollStatusProofs, ProberProofs, StoreCommandProofs
                           each about the module it is named for

### MockSP and ChunkedUpload

`MockSP` is the part of `handleChunkedUpload` that touches the maps, reduced to
the entries of one deal.  It reads the body before it takes the mutex (389) and
does the rest in one critical section, so a request is one step: `PutChunk`,
`FinalizeChunks`, `DealNotFound`.  A body cut off by a client that gave up is a
400 with no effect, since `Content-Length` was sent.  The start request reaches
the `default` branch, which changes nothing, so it has no step of its own.

`ChunkedUpload` has a variable per goroutine.  `pc` is where the calling
goroutine is, `reader` and `worker` are records whose field `st` is the place in
the loop:

| State | Code in `chunked.go` |
|---|---|
| `pc`: `starting`, `streaming`, `joining`, `finalizing`, `finalSent`, `returned` | 61; 149; 150; 157; waiting for the answer; 154, 158, 160 |
| `reader.st`: `reading`, `sending`, `switch`, `exited` | 127; 130-135; 137-145; after the two deferred calls |
| `worker.st`: `select`, `ready`, `sent`, `exited` | 99; 105 before the request is out; waiting for the answer; after `workers.Done()` |
| `cancelled`, `ctxDone`, `firstErr` | `cancel()` was called; the caller's ctx ended; 80-90 |
| `net`, `replies` | requests not yet executed; answers of those the client waits for |
| `acked` (history) | chunks answered 200 in this call |

Each loop position has its actions: `Handoff` is the rendezvous on the unbuffered
channel, `ReaderCancelled` and `WorkerExit` are the other branches of the two
`select`s, which may lose against a ready channel even when the context is done,
as Go chooses among ready cases.  `Return` includes the deferred `cancel()`.
`CancelCtx`, `SPHandles` and `Lose` are the environment: the caller's ctx ends
at any time, a request is executed at any time after it was sent, also after the
client gave it up, or never if it was given up.  Not modelled is duplication:
Go's transport does not send a PUT or POST with a body twice on its own.  `Call`
repeats a failed upload of the same deal, as a user of the package may.  (A run of
the store command makes a deal of its own and so calls once.)

Abstractions.  The payload is `L` distinguishable units; bytes are the interval
of the payload they came from, and a concatenation is the payload when the
bounds meet.  The error is reduced to its kind: `put`, `read`, or the `ctx` echo
of a cancelled context.  A 401 or 404 needs no message: the client may fail at
any point of a request.  `itoa` names chunks injectively, so the number stands
for its name.

### UploadRetry and UploadPromise

`UploadPromise` says what the caller may rely on: the SP comes to hold the
payload in one step, possibly late; `ok` is said only once it does; it is never
damaged by a late request or by a further call.  `UploadRetry` is
`ChunkedUpload` under `SameFileAssumption` - the calls use one chunk size and the
file can be read - and states the invariant behind the refinement
(`outcome <- outcome`, `held <- ` whether the SP serves exactly the payload).

### SerialUpload

The client is sequential: `SubmitDeal`, then `UploadSerial` with its PUT and POST,
each repeatable after an error up to `MaxSubmits` and `MaxAttempts`.  What is
concurrent is the SP.  `handleSerialUpload` looks the deal up in one critical
section (324-326 of `mockserver.go`) and acts in another, so a request under way
is in `handling` with the record it found; `handleStatus` looks up and then reads
the record without the mutex (`query`).  `handleDeal` replaces the record of a
deal that is submitted again; records are told apart by the submission that made
them, `finalized` are those with `uploaded`, `settled` those older than
`SimulateProcessing`.  Requests are executed late or lost as above.  A status query
has no effect and can be made by anybody at any time.

A deal that is submitted again loses what was done to its record, and nothing in
the code prevents a submission given up long ago from being executed after the
upload.  Two history variables say when that is the reason for what is seen:
`resubmitted` begins with every submission executed and ends when the SP takes up
the finalize of the last upload, so `ReadYourUpload` excuses only a submission
after that; `replaced` begins when a record is replaced of which a finalize was
taken up, and only then does `NeverBack` let a deal fall back.

### ProbePool

`pc` and `i` are the loop; `sem` counts the tokens in the channel, `wg` is the
WaitGroup; `probe[s]` is where the goroutine of miner `s` is between its launch
and its last deferred call.  `wg.Add`, the slot, the probe with its write, and
the two deferred calls are separate steps, since others run in between.
`probeBatch` (`internal/cli/sps.go` 148-176) is the same code with another
default.  A probe is reduced to what it may return (`Outcome`): an mk20
capability, one without mk20, or nil.

### Prober

`Probe` in its order: the RPC call and the decoding of the addresses
(`InfoFails`, `MultiaddrsFail`, `NoCandidates`, `Resolve`), then for each
candidate `NewClient` and `Products`, and for the first that works `Sources` and
`Contracts`.  `pc` is `asking` while a call is out; `spent` is the age of its
`probeCtx`, `since` the time since `started`.  A server's reply is fixed when it is
asked and kept in `speaks` for the properties.  `Lose` stands for everything that
makes a call of a good server fail: transport, a signature whose minute was over,
a body that is not JSON.  After the end of the caller's ctx the loop goes on and
every call fails at once without being sent, as in the code.
`HttpCandidates` is the operator `httpCandidates`: an address is its scheme and
host, since the path is dropped, the stable sort by two scores is the addresses
of the one scheme (`Of`) joined to those of the other, and the map `seen` is what
was ranked before (`NotSeen`).  Both are written by the positions that are kept
(`Keep`, `Nth`) and not by recursion along the list, so that they can be proved
about.

### TopMiners

`FetchPage` is one round of the loop of `fetchTopMiners`.  `ranking` is the
index, a sequence of distinct miners; `Overtake` exchanges neighbours between
two requests.  `moved` and `past` are history.  `Page`, `PastTheEnd` and
`Overtake` describe the index service and are external; that a page past the end
may be HTTP 500 is the comment at `crawler.go` 182-184.

### PollStatus

Time advances by `Tick` while a request is out or the client sleeps.  `elapsed`
and `asked` are ages, not dates, so that a poll without a limit has finitely
many states.  A state name is the sequence of its words, which is all that
`isTerminal` looks at.  The answer (`answer`) may be older than the deal by the
time it is judged.

Every request is signed.  `Ask` puts the header into it (`AuthHeader`,
`auth.go` 55-83): what the `Signer` says of itself, and a signature, which is the
address its key belongs to and the minute of the client's clock.  `SPAnswers` is
the handler behind `withAuth` (`mockserver.go` 158-242): unless it skips
verification, `VerifyAuth` wants the envelope, the one key type it knows, and a
signature that recovers to the address in the header, which it does only in its
own minute; then the address must be one of the allowed.  Everything else is the
401, `Refused`.  That the header is there, has the prefix, three parts and an
address that decodes is what `ApplyAuth` sees to; the SP's checks of it are in the
model but cannot fail for this client.  The SP's clock is `Skew` ahead, and later
by the time the request was under way.  The
wall clock is kept modulo `Minute * Minutes`; `TimeAssumption` makes the cycle
longer than any request, so that two minutes are equal in the cycle only if they
are equal.  `Faulty = FALSE` rules out everything else that can go wrong with a
request, so that the run `poll_error` shows what the minute does alone, for a
client that the SP accepts.

`wasOver` is history: whether the deal had ended when the client last asked about
it.  An ended deal stays so in this model (`DealMoves`); that the mock SP takes
even this back when a submission is executed late is in `SerialUpload`.

### DealBuilder

`NewDDODeal`, `NewPDPDeal`, `NewPDPCreateDataSetDeal` and their helpers as
operators on a record of options; `Unset` is nil, `""` or an undefined CID.  What
may be absent - the data of a deal, a product in it, the result of a builder,
which is empty for an error - is a set of at most one member.  `BuilderRight` is
written without them, from what `docs/PROTOCOL-NOTES.md` says of a deal.

### StoreCommand and StorePromise

`pc` is the call that the command is in:

| `pc` | Code in `store.go` |
|---|---|
| `hash` | `piece.File`, 81 (it takes no ctx) |
| `signer` | `loadOrEphemeralSigner`, 90 |
| `probe` | 98-122, skipped in a dry run |
| `build` | 125-173, with the checks of the tier's flags |
| `submit`, `submitting` | 177-183, before the request and waiting for its answer |
| `open` | `os.Open` and `Stat`, 188-193 |
| `sending`, `finalizing` | 197-208, before and after the request that finalizes |
| `polling` | 213 |
| `exit` | returned; `exit` is the status |

Each call either fails for a reason of its own (`Fails`), or is ended by the ctx
(`CtxEndsCall`: the timeout, or a signal, `main.go`), or succeeds.  What the
calls do inside is the matter of the other modules, and only their promises are
used here: an upload succeeds once the SP has executed its finalize, a poll once
the deal is in a terminal state, whichever.  `PollStatus` has its own limit, as
long as that of the ctx but begun later, which adds no reason to return.
Requests that were given up stay in `net` and may be executed during a later run.

Bytes are the versions of the file they were read from, `[lo, hi, size]`: a file
that is written while it is read gives a mixture, and the size of the one or the
other version.  A file of up to `serialThreshold` bytes is sent with its length,
so a shorter one is an error and of a longer one a prefix is sent; size 0 is
"unknown" to Go's transport.  The identifier of a deal is its run (`newULID` never
gives one out twice), and a key is the one in the wallet file (`WalletKey`) or the
run's own.

`StorePromise` is what the shell may rely on: exit status 0 means that the SP
accepted the deal *of this run*, came to hold bytes sent for it and ended its
processing, or that the run was a dry one.  Everything else may still happen
after any other exit.  That a deal ended as `failed` is status 0 too is what the
code does; the promise says "ended", not "active".

## 3. Runs

| Run | Expected | Question |
|---|---|---|
| `upload_single` | pass | One call with failing reads, PUTs, finalize and an ending ctx: is finalize only sent for complete uploads (`FinalizeOnlyComplete`), the error the first one (`RootCause`), every goroutine gone (`NoGoroutineOutlives`), and does the call return (`UploadReturns`)?  `IInv` is the invariant of the proof. |
| `upload_retry` | pass | Two calls for one file, the requests of the first executed whenever: does nil mean stored (`SuccessMeansStored`) and is `UploadPromise` implemented (`Promise`)?  `RetryInv` is the invariant of the proof. |
| `upload_resize` | violation | The same with another chunk size in the second call. |
| `serial_upload` | pass | Submissions and uploads that are repeated, executed in halves and late: `Promise`, `StatusIsTrue` (no state past `accepted` without the bytes), `ReadYourUpload` (a status after nil shows the upload, unless a submission was executed after its finalize was taken up), `NeverBack` (no query sees the deal fall back, unless a record was replaced of which a finalize was taken up).  `IInv` is the invariant of the proof. |
| `probe_pool` | pass | `InFlightCapped`, `AllCollected`, `PoolEnds`; `IInv` is the invariant of the proof. |
| `prober` | pass | Are the candidates the right ones in the right order (`CandidatesRight`)?  Is the endpoint in the report the first that works, all before it explained and none after it asked (`FirstWorkingWins`), a reachable one found behind silent ones (`FoundIfThere`) with its own latency (`LatencyIsItsOwn`), and the probe over in time (`ReturnsInTime`)?  `IInv` is the invariant of the proof. |
| `top_miners` | pass | `ResultIsTop` while the ranking stands still; `AtMostTop` and `RequestsBounded` whatever it does; `IInv` is the invariant of the proof. |
| `top_miners_past_end` | violation | Is a page past the end never asked for, as a comment says? |
| `poll_status` | pass | Does a poll return in time (`ReturnsInTime`), never time out on a deal that had ended when it was asked about (`EndBeatsDeadline`), pause (`PollsArePaced`) and notice the end (`EndIsNoticed`)?  Is a client that is welcome refused only for the minute, and any other told nothing (`AuthIsRight`)?  `IInv` is the invariant of the proof. |
| `poll_error` | violation | The client is welcome, clocks agree and every request is answered soon: does the poll end only for the reasons its comment gives? |
| `store_command` | pass | Two runs over a file that others write: is status 0 true (`Promise`), does the SP hold what was committed to unless the file was written (`CommitmentKept`), is a run over in time (`ReturnsInTime`) and at all (`CommandEnds`), do the command's checks agree with the builder's (`BuilderNeverRefuses`), and are the builders right for all 4096 option sets (`BuildersRight`)?  `IInv` is the invariant of the proof. |
| `store_ephemeral` | violation | Is the key that a comment calls unusable for deals never used for one? |

### Bounds

* `upload_single`: `L = 4`, two workers (the default, taken for the option 0) and
  chunk sizes 1 (likewise) and 3.  Four chunks for two workers: both may fail while
  the reader still has chunks to hand over, which is where it could block for ever.  Size 1
  divides the payload, so the body ends with an empty read; size 3 does not, so
  it ends with a short chunk.
* `upload_retry`: `L = 3`, two workers, `MaxAttempts = 2`.  A late request needs
  one earlier call; a third adds no new kind of request.  The proof is for
  every number of calls.
* `upload_resize`: one worker, `L = 2`, the smallest payload that two chunk sizes
  cut differently.
* `serial_upload`: `MaxSubmits = 2`, `MaxAttempts = 2`: an old request of each kind
  beside a new one.  The proofs are for every number.
* `probe_pool`: four miners and two slots: the loop waits for a slot twice.
* `prober`: up to three of seven addresses: a host under `https`, `wss` and `http`, one
  under `ws`, one of which no URL can be made, one not HTTP-shaped, one that
  cannot be decoded.  Three candidates have one before and one after the one that
  works.  A silent server takes `Timeout = 2`, any other at most `Delay = 1`, so a
  deadline or a clock that is not renewed shows at the second candidate.
* `top_miners`: up to four miners, pages of at most two, 1 to 5 wanted: fewer and
  more miners than wanted, last pages that are full, short and empty, a `top`
  below, equal to and above the page size.
* `poll_status`: no limit, a limit of 1 (shorter than a request) and of 4 (longer
  than a pause with a request); pauses of 1 and 2; `RequestTimeout = 2`.  A minute
  of 4 and two of them, beginning anywhere: a request can be made and verified in
  one minute or in two, and the SP's clock is ahead by a quarter of one.  Five
  signers: the one of `pkg/wallet`, and one for each thing another `Signer` can do
  wrong; three policies: everyone, somebody else, and no verification.
  `poll_error` has no such skew, and every request is answered within 1.
* `store_command`: two runs, so that a request of the first is executed in the
  second; one write, at any time; sizes 0 (refused by the hasher), 2 (the serial
  threshold) and 3 (above it); `Deadline = 2` lets the ctx end in every call, and
  `HashTime = 3` lets it end before hashing does.  Five sets of flags: both tiers,
  with and without a wallet, a dry run, flags refused before and after hashing.

The bounds that the code does not have are `L`, `MaxAttempts`, `MaxSubmits`,
`Miners`, `MaxAddrs`, `Minutes`, `MaxRuns`, `MaxWrites`, and the small numbers given for its
durations and sizes.

### Fairness

* `ChunkedUpload!FairSpec`: a goroutine that can go on goes on (Go's scheduler),
  and a request ends: `http.Client` has a timeout of 60 s (`client.go` 62-64), so
  a waiting worker or caller can always fail.  Reading a file ends.  Nothing is
  assumed of the SP, the network, the caller's ctx, or of another call.
  (`SetHTTPClient` can replace the client by one without a timeout; then this
  is not given.)
* `ProbePool!FairSpec`: goroutines run and a probe ends, since all its requests have
  a timeout: the capability calls theirs (`catalog.go` 70-73), which
  `Prober!ReturnsInTime` adds up, and the chain RPC before them the 30 s of its
  client (`rpc.go` 64), which that bound does not count.
* `PollStatus!FairSpec`: the goroutine runs and time passes.  The SP need not
  answer, and a request need not fail: what ends it in the end is the timeout of
  the `http.Client`.
* `StoreCommand!FairSpec`: the process runs, hashing a file ends, and time passes.
  No answer need come and no call need fail by itself; what ends a call is the ctx.

## 4. Proofs

All for arbitrary constants under the named `ASSUME`s of the modules (`L`, sizes
and counts are integers or naturals, defaults positive).

* `ChunkedUploadProofs`: `Spec => []IInv`, one lemma per action, and from it
  `TypeOK` (a conjunct of `IInv`), `FinalizeOnlyComplete`, `RootCause`,
  `NoGoroutineOutlives`.
  `FinalizeOnlyComplete` is not inductive: a finalize is sent on the strength of
  `firstErr = nil` and a live ctx, so the invariant must say what these imply.
  `ProgressInv` does: as long as nothing went wrong, each chunk cut so far is
  acknowledged or with a worker, and a reader that has exited is at the end of the
  payload.  After both waits no worker has one, so all are acknowledged.
  `PhaseInv` ties the calling goroutine's position to the others', `ReaderInv`
  the reader's position to the payload, `ErrorInv` the cancellation to the error.
  That no chunk is numbered past `L` needs arithmetic on products, which is in
  the first lemmas.
* `UploadRetryProofs`: `Spec => []RetryInv`, and from it `SuccessMeansStored` and
  the refinement `Spec => Promise`.  The argument: with one chunk size a chunk
  number means the same bytes in every call (`BodyInv`), so a late PUT rewrites
  what is there (`ChunksInv`), and every finalize under way, of whatever call, was
  sent when all chunks were stored (`StoredInv`).  `AssembledIsPayload` shows
  that the stored chunks joined are the payload.  The run `upload_resize` shows that
  the assumption of one size is needed.
* `SerialUploadProofs`: `Spec => []IInv`, and from it `StatusIsTrue`, the action
  properties `ReadYourUpload` and `NeverBack`, and the refinement `Spec => Promise`.
  `BytesInv` says that a POST exists, in any place, only if a PUT was acknowledged;
  `UploadedInv` that, until a submission comes after it, the finalize of the last
  upload works on the record in place, and once acknowledged has marked it, which
  needs that there is only one such request (`OnceInv`); `RecordInv` that, as long as
  no record was replaced during or after its finalize, all finalizes are of the
  record in place, and a query that holds another one says "accepted" at most.
* `ProbePoolProofs`: `Spec => []IInv`, `InFlightCapped`, `AllCollected`.  `sem` is
  the number of goroutines between launch and release, `wg` of those not done plus
  the one the loop has announced; the rest is counting finite sets.

* `TopMinersProofs`: `Spec => []IInv`, `ResultIsTop`, `AtMostTop` and
  `RequestsBounded`, for any index and page size.  `LoopInv` says that a loop that
  goes on has collected full pages only: as many entries as pages times their size,
  fewer than wanted, and, while the ranking stood still, its beginning.  The
  round that ends it takes the next stretch, cut where enough are collected or the
  ranking ends (`PageCollected`); stretches that meet make one (`StretchesMeet`).
* `PollStatusProofs`: `Spec => []IInv`, `ReturnsInTime`, `EndBeatsDeadline`,
  `AuthIsRight` and the action property `PollsArePaced`.  `LimitInv` bounds
  how late the poll can be by where it stands, `PauseInv` ties the pause to the time
  since the last request, `SignedInv` the minute in a signature to the age of the
  request, `EndedInv` says that the answer to a request about an ended deal is a
  terminal one, wherever it is.  `WelcomeOrNot` is what verification comes to.  Of the
  clock, which goes round, it must be known that an instant counted from the time of
  a request keeps its minute while clock and age go on together (`MinutesKept`).
* `ProberProofs`: `Spec => []IInv`, `CandidatesRight`, `FirstWorkingWins`,
  `FoundIfThere`, `LatencyIsItsOwn`, `ReturnsInTime`.  The first half is about
  `HttpCandidates` for sequences of any length.  Instead of an induction along the
  list it counts: the rank of a position among those that are kept is a bijection
  onto `1..n` (`Ranks`), so `Nth` lists them all, in order (`NthListsAll`, `Kept`), and
  there is a first of any positions (`First`).  `Ranking` gives every ranked address
  its place on the chain (`Origin`), and `Candidates` shows that the place of a kept
  URL is the first address for it, from which the order follows.  The second half
  is the search.  `SearchInv` is what makes `FirstWorkingWins` inductive: all
  candidates before `at` were passed over, none after it was asked, and an error of
  a candidate exists only for one before `at`; that no URL is listed twice
  (`EachOnce`, from `CandidatesRight`) is needed for the last.  `CallInv` ties the
  reply to what the server is and to the time the call has taken, `VainInv` keeps
  that for the candidates passed over, `TimeInv` counts a timeout for every call
  made.
* `StoreCommandProofs`: `Spec => []IInv`, `CommitmentKept`, `ReturnsInTime`,
  `BuilderNeverRefuses`, and the refinement `Spec => Promise`.
  `BuildersAlwaysRight` is `BuilderRight` for all options, of which the run looks at
  one value each (`BuildersRight`).  `DealInv` says that the deal of a run is in one
  place: not yet sent, in one message, or a record; `StageInv` what the SP has done by the time
  a call is made, which the exit status rests on; `KeptInv` that as long as the file
  is what it was when a run began, everything read for that run, in the process, in
  a message or at the SP, is the whole of it.  For the refinement, each action maps
  to a step of `StorePromise` or changes none of the facts of the current run, late
  requests of earlier runs included.

The assumptions are the named `ASSUME`s only.  Those that say something of the
code: durations and limits are naturals, a server that replies does so within less
than the timeout of the client (`ProberAssumption`), the cycle of minutes is longer
than any request (`TimeAssumption`), and `Unset` is none of the values an option can
have (`StoreAssumption`).

Model-checked only: liveness (`UploadReturns`, `PoolEnds`, `EndIsNoticed`,
`CommandEnds`), which TLAPS does not reach here.  All other properties of the passing
runs are theorems, except `BuildersRight`, which is an instance of
`BuildersAlwaysRight`.  The four properties of the runs that expect a violation are
false, and so have none.

## 5. Findings

| Where | What | Run |
|---|---|---|
| `mockserver.go:369` | the start request clears nothing, so a repeated upload with another chunk size returns nil while the SP serves a mixture of both | `upload_resize` |
| `crawler.go:185` | when the last page is full, the page past the end is requested, and an HTTP 500 for it, which the comment wants to avoid, would fail the crawl; the run shows the request, the 500 is the comment's | `top_miners_past_end` |
| `upload.go:101` | one failed request ends a poll, which the comment does not name among its ends; it takes no more than a status request made at the end of one minute and verified in the next | `poll_error` |
| `store.go:90` | without `--wallet` a deal is made in the name of a key that is forgotten at exit, which `flags.go` 53-56 calls not usable for deals | `store_ephemeral` |

## 6. Not modelled

* Cryptography (`secp.go`, the hash in `piece.go`) and the encoding of keys, headers
  and identifiers: computed by libraries, with no states to explore.
* The JSON envelope of the chain RPC, printing, and the other commands: stateless
  calls and formatting.  `sps probe` exits with status 0 when every candidate
  failed, since `Probe` returns no error then (`catalog.go` 140); this is one
  return statement.
* The capability handlers of the mock SP: they serve constants; `Prober` lets a
  server reply as it likes.  A server that says 200 to everything is listed as an
  mk20 endpoint (`client.go` 178): see the hazard there.
* `SortErrors`: the errors of a report are a set.
* Data races on plain memory inside one handler beyond those in the hazard list.
* The memory held by an upload, which a comment gives as `concurrency * chunkSize`
  and is two chunks more; the words in the comment of `isTerminal`, of which the
  code takes whole names and four suffixes.
* A `Read` that blocks (`chunked.go` 127): it has no way to learn of the cancel,
  against the comment at 74-75.  The runs assume that the read of a file ends.
* A body that reports its own truncation as `io.ErrUnexpectedEOF` (`chunked.go`
  140): the bodies of `ChunkedUpload` are files, which do not; see the hazard.
* In the store command: a `--timeout` of zero or less, a failed write when a dry run
  prints its deal, and the error of `Stat` after a successful `Open`, which the code
  ignores (`store.go` 193).
* The limits at which the mock SP stops reading a body (4 MiB for a deal, 256 MiB for
  a chunk, 1 GiB for a serial upload) and keeps what it has: payloads here are below
  them.
* An index service that sends more entries than a page has.
* Rates: the 60 s of the `http.Client` include the body of a serial PUT, which a
  slow line cannot send in time.  For the modules this is one of the ways in
  which a PUT fails.

## 7. Plan

1. In `ChunkedUpload`, a third way for a body to end, and the announced length,
   with the proofs carried over.
2. Proofs of what the liveness properties rest on: that a state in which a
   component waits always has a step that ends the wait (no deadlock among the
   goroutines of an upload and of the pool), as an invariant without `ENABLED`.
3. A bound on the requests of a whole crawl, from `RequestsBounded`,
   `InFlightCapped` and `Prober!ReturnsInTime` together.
