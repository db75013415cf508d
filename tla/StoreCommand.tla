---------------------------- MODULE StoreCommand ----------------------------
(***************************************************************************)
(* `filcrate store` (internal/cli/store.go): a file is hashed, an SP is    *)
(* probed, a deal is built and submitted, the file is opened again and     *)
(* uploaded, and the status is polled until it is terminal.  The command   *)
(* may be run again, and others may write the file at any time.            *)
(*                                                                         *)
(* A call to the network is one step that succeeds or fails here; what it  *)
(* does inside is in Prober, SerialUpload, ChunkedUpload and PollStatus.   *)
(* What the other modules promise is kept: a request the client gave up    *)
(* may be executed later, and an upload succeeds only once the SP holds    *)
(* the bytes (UploadPromise).                                              *)
(*                                                                         *)
(* Bytes are a record [lo, hi, size]: read from versions lo to hi of the   *)
(* file, which differ when it was written while it was read.               *)
(***************************************************************************)
EXTENDS DealBuilder, FiniteSets

CONSTANTS
  FlagSets,    \* the flags a run may be given
  Products,    \* the sets of products the SP may advertise
  Sizes,       \* sizes of the file
  Threshold,   \* serialThreshold, 64 MiB in the code
  MinPiece,    \* the hasher refuses less: 65 bytes
  Deadline,    \* --timeout
  HashTime,    \* how long the file takes to be hashed
  MaxRuns,     \* bound: runs of the command
  MaxWrites    \* bound: times others write the file

NoBytes == [lo |-> 0, hi |-> 0, size |-> -1]
Bytes == [lo : 0..MaxWrites, hi : 0..MaxWrites, size : Sizes]

ASSUME StoreAssumption ==
  /\ Sizes \subseteq Nat /\ Threshold \in Nat /\ MinPiece \in Nat \ {0}
  /\ Deadline \in Nat \ {0} /\ HashTime \in Nat
  /\ MaxRuns \in Nat \ {0} /\ MaxWrites \in Nat
  /\ Unset \notin Int \union Bytes

ASSUME FlagsAssumption ==
  /\ FlagSets # {}
  /\ \A f \in FlagSets : /\ f.allocation \in Nat /\ f.dataSet \in Nat
                         /\ f.dry \in BOOLEAN /\ f.wallet \in BOOLEAN

Runs == 1..MaxRuns

\* A slip the model must notice: a run takes up the identifier of the first.
IdentifierOfFirst(r) == 1

\* newULID: no two runs get the same one.
Identifier(r) == r

\* loadOrEphemeralSigner: the key in the wallet file, or one that is made for
\* this run and forgotten.
WalletKey == 0
SignerOf(f, r) == IF f.wallet THEN WalletKey ELSE r

VARIABLES
  pc,        \* the call under way, or "exit"
  run,       \* number of the current run; 0 before the first
  flags,     \* its flags
  deal,      \* the deal built by it, in a set; empty if there is none
  file,      \* the file: its version and size
  reading,   \* the file as it was when the open for reading found it
  piece,     \* the bytes committed to
  age,       \* time since the run began
  stopped,   \* SIGINT or SIGTERM was received
  exit,      \* "none", "ok" (exit status 0) or "error"
  net,       \* requests on their way to the SP, of this run or an earlier one
  deals,     \* the SP's deals by identifier; `by` is history: the run it is of
  since      \* history: the version of the file when each run began

command == <<run, flags, deal, reading, piece, since>>
vars == <<pc, command, file, age, stopped, exit, net, deals>>

-----------------------------------------------------------------------------
\* What a reader gets that began with the file as `from` and ends with `now`.
ReadBytes(from, now) ==
  [lo : from.ver..now.ver, hi : {now.ver},
   size : IF from.ver = now.ver THEN {now.size} ELSE {from.size, now.size}]

\* A slip the model must notice: one byte less is announced than Stat says.
SentBytesShort(from, now) ==
  {[b EXCEPT !.size = @ - 1] : b \in ReadBytes(from, now)}

\* What an upload sends: chunks to the end of the file, or one PUT of just the
\* length that Stat gave, unless that was 0 and no length was announced.
SentBytes(from, now) ==
  IF from.size \in 1..Threshold
  THEN {b \in ReadBytes(from, now) :
          b.size = from.size /\ now.size >= from.size}
  ELSE ReadBytes(from, now)

\* A slip the model must notice: an empty file is hashed like any other.
EnoughToHashAlways(b) == TRUE

EnoughToHash(b) == b.size >= MinPiece

NoRecord == [state |-> "none"]
Records == [state : {"accepted", "processing", "active", "failed"},
            piece : Bytes, client : 0..MaxRuns,
            held : Bytes \union {NoBytes}, by : Runs]

Terminal(state) == state \in {"active", "failed"}

FlagsOK(f) == f.tier \in {"cold", "hot"} /\ f.provider # Unset

Required(f) == IF f.tier = "hot" THEN "pdp_v1" ELSE "ddo_v1"

UnsetIfZero(n) == IF n = 0 THEN Unset ELSE n

\* The flags of the tier are checked before the builder sees them.
TierFlagsOK(f) ==
  \/ f.tier = "hot" /\ f.dataSet # 0 /\ f.recordKeeper # Unset
  \/ f.tier = "cold" /\ (f.allocation # 0 \/ f.marketAddr # Unset)

\* opts.  A builder does not look at the options of the other tier.
OptsOf(f, r, p) ==
  [ClientAddress |-> SignerOf(f, r),
   PieceCID |-> p, PayloadSize |-> p.size,
   HTTPSourceURL |-> Unset, HTTPPutSource |-> TRUE,
   ColdProvider |-> f.provider, ColdDuration |-> f.duration,
   ColdAllocationID |-> UnsetIfZero(f.allocation),
   ColdMarketAddress |-> f.marketAddr,
   ColdStartEpoch |-> UnsetIfZero(f.startEpoch),
   HotDataSetID |-> UnsetIfZero(f.dataSet),
   HotRecordKeeper |-> f.recordKeeper,
   RetrievalIndexing |-> Unset, RetrievalIndexAnnounce |-> Unset]

BuiltDeal(f, r, p) ==
  IF f.tier = "hot" THEN NewPDPDeal(Identifier(r), OptsOf(f, r, p))
  ELSE NewDDODeal(Identifier(r), OptsOf(f, r, p))

-----------------------------------------------------------------------------
(* Time.  Local steps take none, but for hashing.                          *)

NetworkCalls == {"probe", "submitting", "sending", "finalizing", "polling"}
Calls == NetworkCalls \union {"hash"}

\* A slip the model must notice: the upload is made with another context.
TakesCtxButUpload(call) == call \in NetworkCalls \ {"sending", "finalizing"}

\* The calls that are made with ctx; piece.File takes none.
TakesCtx(call) == call \in NetworkCalls

CtxDone == stopped \/ age >= Deadline

Latest == IF HashTime > Deadline THEN HashTime ELSE Deadline

TypeOK ==
  /\ pc \in Calls \union {"signer", "build", "submit", "open", "exit"}
  /\ run \in 0..MaxRuns /\ flags \in FlagSets
  /\ file \in [ver : 0..MaxWrites, size : Sizes]
  /\ reading \in [ver : 0..MaxWrites, size : Sizes]
  /\ piece \in Bytes \union {NoBytes}
  /\ age \in 0..(Latest + 1) /\ stopped \in BOOLEAN
  /\ exit \in {"none", "ok", "error"} /\ (exit = "none") = (pc # "exit")
  /\ since \in [Runs -> 0..MaxWrites]
  /\ \A m \in net : m.run \in 1..run /\ m.what \in {"deal", "finalize"}
  /\ \A m \in net : m.what = "finalize" => m.body \in Bytes
  /\ deals \in [Runs -> Records \union {NoRecord}]

Init ==
  /\ pc = "exit" /\ exit = "error" /\ run = 0
  /\ flags = CHOOSE f \in FlagSets : TRUE
  /\ file \in [ver : {0}, size : Sizes] /\ reading = file
  /\ piece = NoBytes /\ deal = {}
  /\ age = 0 /\ stopped = FALSE
  /\ net = {} /\ deals = [r \in Runs |-> NoRecord]
  /\ since = [r \in Runs |-> 0]

-----------------------------------------------------------------------------
(* The command.                                                            *)

sp == <<file, deals>>
clocks == <<age, stopped>>

Exit(status) == pc' = "exit" /\ exit' = status
Goto(call) == pc' = call /\ UNCHANGED exit

\* The call under way fails for a reason of its own, which ends the command.
Fails(call) ==
  /\ pc = call
  /\ Exit("error")
  /\ UNCHANGED <<command, clocks, net, sp>>

\* A run begins; without good flags it ends at once.
Run ==
  /\ pc = "exit" /\ run < MaxRuns
  /\ run' = run + 1 /\ flags' \in FlagSets
  /\ IF FlagsOK(flags') THEN pc' = "hash" /\ exit' = "none" ELSE Exit("error")
  /\ reading' = file /\ piece' = NoBytes /\ deal' = {}
  /\ age' = 0 /\ stopped' = FALSE
  /\ since' = [since EXCEPT ![run'] = file.ver]
  /\ UNCHANGED <<net, sp>>

\* piece.File: the commitment to what was read, if that is enough to hash.
Hashed ==
  /\ pc = "hash"
  /\ \E b \in ReadBytes(reading, file) :
       \/ EnoughToHash(b) /\ piece' = b /\ Goto("signer")
       \/ ~EnoughToHash(b) /\ Exit("error") /\ UNCHANGED piece
  /\ UNCHANGED <<run, flags, deal, reading, since, clocks, net, sp>>

\* The path names no file, or it cannot be read.
HashFails == Fails("hash")

\* A dry run goes straight to the builder.
Signed ==
  /\ pc = "signer"
  /\ Goto(IF flags.dry THEN "build" ELSE "probe")
  /\ UNCHANGED <<command, clocks, net, sp>>

\* The wallet file is missing or holds no key.
SignerFails == flags.wallet /\ Fails("signer")

\* The SP speaks mk20; it must also have the product of the tier.
Probed ==
  /\ pc = "probe" /\ ~CtxDone
  /\ \E advertised \in Products :
       \/ Required(flags) \in advertised /\ Goto("build")
       \/ Required(flags) \notin advertised /\ Exit("error")
  /\ UNCHANGED <<command, clocks, net, sp>>

ProbeFails == Fails("probe")

\* The flags of the tier are checked, the deal is built; a dry run ends here.
Build ==
  /\ pc = "build"
  /\ deal' = IF TierFlagsOK(flags) THEN BuiltDeal(flags, run, piece) ELSE {}
  /\ \/ deal' = {} /\ Exit("error")
     \/ deal' # {} /\ flags.dry /\ Exit("ok")
     \/ deal' # {} /\ ~flags.dry /\ Goto("submit")
  /\ UNCHANGED <<run, flags, reading, piece, since, clocks, net, sp>>

\* The deal is on its way, unless ctx is done already.
Submit ==
  /\ pc = "submit"
  /\ IF CtxDone THEN Exit("error") /\ UNCHANGED net
     ELSE /\ Goto("submitting")
          /\ net' = net \union
                      {[what |-> "deal", run |-> run, deal |-> d] : d \in deal}
  /\ UNCHANGED <<command, clocks, sp>>

\* The SP has executed a request of this run and the client knows.
Answered(what) == \A m \in net : m.run = run => m.what # what

Submitted ==
  /\ pc = "submitting" /\ ~CtxDone /\ Answered("deal")
  /\ Goto("open")
  /\ UNCHANGED <<command, clocks, net, sp>>

SubmitFails == Fails("submitting")

\* The file is opened and its size taken.
Open ==
  /\ pc = "open"
  /\ Goto("sending") /\ reading' = file
  /\ UNCHANGED <<run, flags, deal, piece, since, clocks, net, sp>>

OpenFails == Fails("open")

\* All bytes have arrived, and the request that finalizes the upload is made.
Send ==
  /\ pc = "sending" /\ ~CtxDone
  /\ Goto("finalizing")
  /\ \E b \in SentBytes(reading, file) :
       net' = net \union {[what |-> "finalize", run |-> run, body |-> b]}
  /\ UNCHANGED <<command, clocks, sp>>

SendFails == Fails("sending")

\* A slip the model must notice: the error of the upload is not looked at.
FinalizeFailsUnnoticed ==
  /\ pc = "finalizing"
  /\ Goto("polling")
  /\ UNCHANGED <<command, clocks, net, sp>>

Uploaded ==
  /\ pc = "finalizing" /\ ~CtxDone /\ Answered("finalize")
  /\ Goto("polling")
  /\ UNCHANGED <<command, clocks, net, sp>>

FinalizeFails == Fails("finalizing")

\* PollStatus returns a terminal state, whichever.  Its own limit is as long as
\* that of ctx but begins later: it adds no reason to return.
PolledToEnd ==
  /\ pc = "polling" /\ ~CtxDone
  /\ Terminal(deals[Identifier(run)].state)
  /\ Exit("ok")
  /\ UNCHANGED <<command, clocks, net, sp>>

PollFails == Fails("polling")

\* A slip the model must notice: the poll goes on when ctx is done.
CtxEndsCallButPoll ==
  CtxDone /\ \E call \in NetworkCalls \ {"polling"} : Fails(call)

\* A call with a ctx that is done fails.
CtxEndsCall == CtxDone /\ \E call \in {c \in Calls : TakesCtx(c)} : Fails(call)

-----------------------------------------------------------------------------
(* The SP, the user, and time.                                             *)

\* A deal arrives; a record of the same identifier is replaced.
AcceptDeal ==
  \E m \in {n \in net : n.what = "deal"} : \E data \in m.deal.Data :
    /\ deals' = [deals EXCEPT ![m.deal.Identifier] =
         [state |-> "accepted", piece |-> data.PieceCID,
          client |-> m.deal.Client, held |-> NoBytes, by |-> m.run]]
    /\ net' = net \ {m}
    /\ UNCHANGED <<pc, command, file, clocks, exit>>

\* The bytes uploaded for a deal become the ones it is served with.
FinalizeUpload ==
  \E m \in net :
    /\ m.what = "finalize" /\ deals[Identifier(m.run)] # NoRecord
    /\ deals' = [deals EXCEPT ![Identifier(m.run)].held = m.body]
    /\ net' = net \ {m}
    /\ UNCHANGED <<pc, command, file, clocks, exit>>

\* The SP processes a deal it has the bytes of, or fails any.
ProcessDeal ==
  \E r \in Runs, state \in {"processing", "active", "failed"} :
    /\ deals[r] # NoRecord /\ ~Terminal(deals[r].state)
    /\ deals[r].state # state
    /\ state \in {"processing", "active"} => deals[r].held # NoBytes
    /\ deals' = [deals EXCEPT ![r].state = state]
    /\ UNCHANGED <<pc, command, file, clocks, exit, net>>

\* Another program writes the file.
WriteFile ==
  /\ file.ver < MaxWrites
  /\ \E n \in Sizes : file' = [ver |-> file.ver + 1, size |-> n]
  /\ UNCHANGED <<pc, command, clocks, exit, net, deals>>

Signal ==
  /\ pc # "exit" /\ ~stopped
  /\ stopped' = TRUE
  /\ UNCHANGED <<pc, command, file, age, exit, net, deals>>

\* Time passes in a call, until hashing is over or ctx is done.
Tick ==
  /\ pc \in Calls /\ age <= Latest
  /\ pc = "hash" => age < HashTime
  /\ TakesCtx(pc) => ~CtxDone
  /\ age' = age + 1
  /\ UNCHANGED <<pc, command, file, stopped, exit, net, deals>>

AllRun == pc = "exit" /\ run = MaxRuns /\ UNCHANGED vars

\* What the process does by itself, and what must go right for it to do more.
OwnStep == Hashed \/ Signed \/ Build \/ Submit \/ Open \/ CtxEndsCall

AnswerStep == Probed \/ Submitted \/ Send \/ Uploaded \/ PolledToEnd

Failure == \/ HashFails \/ SignerFails \/ ProbeFails \/ SubmitFails
           \/ OpenFails \/ SendFails \/ FinalizeFails \/ PollFails

SPStep == AcceptDeal \/ FinalizeUpload \/ ProcessDeal

Next == \/ Run \/ OwnStep \/ AnswerStep \/ Failure \/ SPStep
        \/ WriteFile \/ Signal \/ Tick \/ AllRun

Spec == Init /\ [][Next]_vars

\* The process runs, hashing a file comes to an end, and time passes.  No
\* answer need come, and nobody need run the command.
FairSpec == Spec /\ WF_vars(OwnStep) /\ WF_vars(Tick)

-----------------------------------------------------------------------------
\* Exit status 0 means what StorePromise says: the SP accepted the deal of this
\* very run, holds bytes for it and ended its processing (store.go 170-225).
FactsOf(d) ==
  IF d = NoRecord THEN {}
  ELSE {"accepted"}
       \union (IF d.held # NoBytes THEN {"stored"} ELSE {})
       \union (IF Terminal(d.state) THEN {"finished"} ELSE {})

Facts == IF run = 0 THEN {} ELSE FactsOf(deals[Identifier(run)])

Abstract == INSTANCE StorePromise WITH
  dry <- run > 0 /\ flags.dry,
  facts <- Facts,
  answer <- exit

Promise == Abstract!Spec

\* The SP holds the bytes a deal commits to, whatever failed, was repeated or
\* came late, unless the file was written after the run that made the deal
\* began: the file is read twice and nothing compares (store.go 81, 188).
CommitmentKept ==
  \A r \in Runs :
    /\ deals[r] # NoRecord
    /\ deals[r].held # NoBytes
    /\ deals[r].held # deals[r].piece
    => file.ver > since[deals[r].by]

\* A run is over by its timeout, or else by the time the file is hashed, which
\* neither the timeout nor a signal cuts short (store.go 67, 81).
ReturnsInTime == pc # "exit" => age <= Latest

\* What a call may rely on when it begins: it has flags, a piece and a deal that
\* passed the checks before it, and a dry run never comes to the network.
CallInv ==
  /\ pc # "exit" => run \in Runs /\ FlagsOK(flags)
  /\ pc \notin {"exit", "hash"} => piece \in Bytes /\ EnoughToHash(piece)
  /\ pc \in NetworkCalls \union {"submit", "open"} => ~flags.dry
  /\ pc = "submit" => deal # {} /\ deal = BuiltDeal(flags, run, piece)

\* The deal of a run is in one place: not yet sent, in one message, or a record.
DealInv ==
  /\ \A r \in Runs : deals[r] # NoRecord => r <= run /\ deals[r].by = r
  /\ \A m \in net : m.what = "deal" =>
       /\ m.deal.Identifier = Identifier(m.run) /\ m.deal.Client \in 0..MaxRuns
       /\ \A data \in m.deal.Data : data.PieceCID \in Bytes
       /\ deals[m.run] = NoRecord
       /\ \A n \in net : n.what = "deal" /\ n.run = m.run => n = m
  /\ flags.dry => \A r \in Runs : r = run => deals[r] = NoRecord
  /\ flags.dry => \A m \in net : m.run # run

\* What the SP has done by the time a call is made.
StageInv ==
  /\ pc \in {"hash", "signer", "probe", "build", "submit"} =>
       deals[run] = NoRecord /\ \A m \in net : m.run # run
  /\ pc = "submitting" => ~Answered("deal") \/ deals[run] # NoRecord
  /\ pc \in {"open", "sending", "finalizing", "polling"} =>
       Answered("deal") /\ deals[run] # NoRecord
  /\ pc = "finalizing" =>
       ~Answered("finalize") \/ deals[run].held # NoBytes
  /\ pc = "polling" => deals[run].held # NoBytes

Whole(f) == [lo |-> f.ver, hi |-> f.ver, size |-> f.size]

BytesOf(m) ==
  IF m.what = "deal" THEN {data.PieceCID : data \in m.deal.Data} ELSE {m.body}

\* As long as the file is what it was when a run began, all that was read for
\* that run is the whole of it, wherever it has got to.
KeptInv ==
  \A r \in 1..run :
    /\ since[r] <= file.ver
    /\ since[r] = file.ver =>
         /\ r = run => reading = file /\ piece \in {Whole(file), NoBytes}
         /\ \A m \in net : m.run = r => BytesOf(m) \subseteq {Whole(file)}
         /\ deals[r] # NoRecord =>
              /\ deals[r].piece = Whole(file)
              /\ deals[r].held \in {Whole(file), NoBytes}

\* The inductive invariant: what the commitment, the timeout and the promise of
\* exit status 0 rest on, in every state between two calls.
IInv ==
  /\ TypeOK /\ CallInv /\ DealInv /\ StageInv /\ KeptInv /\ ReturnsInTime

\* A deal that passed the checks of the command is never refused by the
\* builder, after the probe was made for nothing (store.go 135-165).
BuilderNeverRefuses ==
  pc = "build" /\ TierFlagsOK(flags) => BuiltDeal(flags, run, piece) # {}

\* The builders accept exactly the options that describe a deal of their kind,
\* and what they build is what the protocol asks for (builders.go 62-206).  They
\* are pure functions: one look, before the first run, is enough.
BuildersRight ==
  run = 0 => \A o \in Options(1, 1, 1, 1, 1, 1, 1, 1) : BuilderRight(1, o)

\* Every run ends, whatever the SP does or fails to do.
CommandEnds == pc # "exit" ~> pc = "exit"

\* Comment at flags.go 53-56: a key made in memory is "obviously not usable for
\* deals where the SP needs to recognize a stable client address".
ClientIsStable ==
  \A r \in Runs : deals[r] # NoRecord => deals[r].client = WalletKey
=============================================================================
