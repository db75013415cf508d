----------------------------- MODULE PollStatus -----------------------------
(***************************************************************************)
(* Client.PollStatus and isTerminal (pkg/mk20/upload.go): the status of a  *)
(* deal is asked for until it is terminal, the caller's ctx is done, the   *)
(* time given has elapsed, or a request fails.  Every request carries the  *)
(* header of AuthHeader (pkg/mk20/auth.go), signed for a minute, which the *)
(* SP verifies with the minute of its own clock before it lets the request *)
(* through (withAuth, verifyAuth in pkg/mk20/mockserver).                  *)
(*                                                                         *)
(* Time is counted in units and kept as the age of the things that depend  *)
(* on it, so that a poll without a limit has finitely many states.  A step *)
(* of the client takes no time; a request and a sleep do.  A state name is *)
(* the sequence of its words, <<"deal", "failed">> for "deal_failed".      *)
(***************************************************************************)
EXTENDS Integers, SequencesExt

CONSTANTS
  States,          \* state names the SP may report
  UntilOpts,       \* values of the argument until
  EveryOpts,       \* values of the argument every
  DefaultEvery,    \* 5 s in the code
  RequestTimeout,  \* 60 s in the code: the timeout of http.Client
  Minute,          \* 60 s: how long a signature names the same minute
  Minutes,         \* bound: the wall clock starts over after so many minutes
  Skew,            \* how far the SP's clock is ahead of the client's
  Faulty,          \* requests may be lost, slow or fail for other reasons
  Delay,           \* if not: by when a request has been answered
  Signers,         \* what the client may sign with
  Policies         \* whom the SP may let through

ASSUME TimeAssumption ==
  /\ UntilOpts \subseteq Int /\ EveryOpts \subseteq Int
  /\ DefaultEvery \in Nat \ {0} /\ RequestTimeout \in Nat \ {0}
  /\ Minute \in Nat \ {0} /\ Minutes \in Nat \ {0, 1} /\ Skew \in Nat
  /\ RequestTimeout + Skew < Minute * (Minutes - 1)
  /\ Faulty \in BOOLEAN /\ Delay \in 0..(RequestTimeout - 1)

TerminalNames == {"complete", "completed", "finalized", "active",
                  "failed", "rejected", "error", "expired"}

TerminalSuffixes == {"failed", "complete", "done", "error"}

\* isTerminal: one of the names, or one of the suffixes after an underscore.
IsTerminal(name) ==
  \/ Len(name) = 1 /\ name[1] \in TerminalNames
  \/ Len(name) > 1 /\ Last(name) \in TerminalSuffixes

NoStatus == <<>>

Refused == <<"401">>

ASSUME StatesAssumption == NoStatus \notin States /\ Refused \notin States

\* time.Now() truncated to the minute, on either side.
AuthMinute(t) == (t \div Minute) % Minutes

\* A Signer (auth.go 17-41): the key type it names, its address, the type of
\* signature it returns, "naked" without the envelope of WrapSignature, and the
\* address its key really belongs to.  A policy of the SP: whether it skips
\* verification, and the clients it allows (all, where AllowedClients is nil).
KeyTypes == {"secp256k1", "bls", "delegated"}

Stranger == "stranger"

ASSUME PartiesAssumption ==
  /\ \A s \in Signers :
       /\ DOMAIN s = {"keyType", "addr", "sigType", "key"}
       /\ s.keyType \in KeyTypes /\ s.sigType \in KeyTypes \union {"naked"}
       /\ s.addr # Stranger
  /\ \A p \in Policies :
       DOMAIN p = {"skipAuth", "allowed"} /\ p.skipAuth \in BOOLEAN

AuthHeader(s, minute) ==
  [scheme |-> "CurioAuth", keyType |-> s.keyType, addr |-> s.addr,
   sigType |-> s.sigType, key |-> s.key, minute |-> minute]

\* A request without the header.
NoHeader == [scheme |-> "none"]

Headers == {AuthHeader(s, m) : s \in Signers, m \in 0..(Minutes - 1)}

\* The address a signature recovers to; it is nobody's when the digest was made
\* in another minute.
Recovered(header, now) ==
  IF header.minute = AuthMinute(now) THEN header.key ELSE Stranger

\* verifyAuth: the prefix; the envelope of the signature; the one key type the
\* mock knows, by name and in the signature; and the recovered address.  That
\* the three parts are there and decode is the work of AuthHeader.
VerifyAuth(header, now) ==
  /\ header.scheme = "CurioAuth"
  /\ header.sigType # "naked"
  /\ header.keyType = "secp256k1" /\ header.sigType = "secp256k1"
  /\ Recovered(header, now) = header.addr

\* withAuth: what a handler says to a request that passes, or 401.
WithAuth(policy, header, now, reply) ==
  IF \/ policy.skipAuth
     \/ /\ header # NoHeader
        /\ VerifyAuth(header, now)
        /\ header.addr \in policy.allowed
  THEN reply ELSE Refused

\* How long a request can be under way.
LongestRequest == IF Faulty THEN RequestTimeout ELSE Delay

\* A slip the model must notice: the argument is taken as it comes.
EveryAsGiven(e) == e

\* Zero and negative arguments mean the default.
EveryOrDefault(e) == IF e > 0 THEN e ELSE DefaultEvery

VARIABLES
  pc,         \* "ask", "asking", "answered", "sleep" or "returned"
  limit,      \* the argument until
  every,      \* the argument every, or its default
  signer,     \* the client's signer
  policy,     \* the SP's AllowedClients and SkipAuth
  elapsed,    \* time since PollStatus was called, if there is a limit
  asked,      \* time since the last request was made, up to `every`
  spent,      \* time spent in the current request or sleep
  status,     \* the status last received
  answer,     \* the answer on its way: a status, Refused, or NoStatus if none
  header,     \* the Authorization header of the current request
  wasOver,    \* history: the deal had ended when it was last asked about
  result,     \* why PollStatus returned
  ctxDone,    \* the caller's ctx is done
  dealState,  \* the SP's state of the deal
  clock       \* the wall clock of the client

args == <<limit, every, signer, policy>>
request == <<answer, header, wasOver>>
world == <<ctxDone, dealState, clock>>
vars == <<pc, args, elapsed, asked, spent, status, request, result, world>>

Limited == limit > 0

\* By when a poll with a limit returns: the last sleep may begin just before
\* the deadline and is followed by one more request.
Latest == limit + every + RequestTimeout

TypeOK ==
  /\ pc \in {"ask", "asking", "answered", "sleep", "returned"}
  /\ limit \in UntilOpts
  /\ every \in Nat \ {0}
  /\ signer \in Signers /\ policy \in Policies
  /\ elapsed \in Nat
  /\ asked \in 0..every
  /\ spent \in Nat
  /\ status \in States \union {NoStatus}
  /\ answer \in States \union {NoStatus, Refused}
  /\ header \in Headers \union {NoHeader}
  /\ wasOver \in BOOLEAN
  /\ result \in {"none", "terminal", "timeout", "ctx", "error"}
  /\ ctxDone \in BOOLEAN
  /\ dealState \in States
  /\ clock \in 0..(Minute * Minutes - 1)

Init ==
  /\ pc = "ask" /\ limit \in UntilOpts
  /\ every \in {EveryOrDefault(e) : e \in EveryOpts}
  /\ signer \in Signers /\ policy \in Policies
  /\ elapsed = 0 /\ asked = every /\ spent = 0
  /\ status = NoStatus /\ answer = NoStatus /\ header = NoHeader
  /\ wasOver = FALSE
  /\ result = "none" /\ ctxDone = FALSE
  /\ dealState \in States
  /\ clock \in 0..(Minute * Minutes - 1)

-----------------------------------------------------------------------------
Return(why) == pc' = "returned" /\ result' = why

\* A slip the model must notice: a header once made is used again.
AskSignedOnce ==
  /\ pc = "ask"
  /\ pc' = "asking" /\ asked' = 0 /\ spent' = 0 /\ answer' = NoStatus
  /\ header' = IF header = NoHeader THEN AuthHeader(signer, AuthMinute(clock))
                                   ELSE header
  /\ wasOver' = IsTerminal(dealState)
  /\ UNCHANGED <<args, elapsed, status, result, world>>

\* The request is signed and made.
Ask ==
  /\ pc = "ask"
  /\ pc' = "asking" /\ asked' = 0 /\ spent' = 0
  /\ answer' = NoStatus /\ header' = AuthHeader(signer, AuthMinute(clock))
  /\ wasOver' = IsTerminal(dealState)
  /\ UNCHANGED <<args, elapsed, status, result, world>>

AskEndsWithError ==
  /\ Return("error")
  /\ UNCHANGED <<args, elapsed, asked, spent, status, request, world>>

\* It fails for a reason of its own: transport, another status, bad JSON.
AskFails == pc = "asking" /\ Faulty /\ AskEndsWithError

\* Status gives up: the answer is a 401, the ctx is done, or the time of the
\* http.Client is over.
GiveUp ==
  /\ pc = "asking"
  /\ answer = Refused \/ ctxDone \/ spent >= RequestTimeout
  /\ AskEndsWithError

AnswerArrives ==
  /\ pc = "asking" /\ answer \in States
  /\ pc' = "answered" /\ status' = answer /\ answer' = NoStatus
  /\ UNCHANGED <<args, elapsed, asked, spent, header, wasOver, result, world>>

\* time.Now().After(deadline)
PastDeadline == Limited /\ elapsed > limit

Sleep == pc' = "sleep" /\ spent' = 0 /\ UNCHANGED result

\* Slips the model must notice: the deadline is looked at first, or not at all.
JudgeDeadlineFirst ==
  /\ pc = "answered"
  /\ \/ PastDeadline /\ Return("timeout") /\ UNCHANGED spent
     \/ ~PastDeadline /\ IsTerminal(status) /\ Return("terminal")
        /\ UNCHANGED spent
     \/ ~PastDeadline /\ ~IsTerminal(status) /\ Sleep
  /\ UNCHANGED <<args, elapsed, asked, status, request, world>>

JudgeNoDeadline ==
  /\ pc = "answered"
  /\ \/ IsTerminal(status) /\ Return("terminal") /\ UNCHANGED spent
     \/ ~IsTerminal(status) /\ Sleep
  /\ UNCHANGED <<args, elapsed, asked, status, request, world>>

\* A terminal state is returned; then the deadline is looked at; then sleep.
Judge ==
  /\ pc = "answered"
  /\ \/ IsTerminal(status) /\ Return("terminal") /\ UNCHANGED spent
     \/ ~IsTerminal(status) /\ PastDeadline /\ Return("timeout")
        /\ UNCHANGED spent
     \/ ~IsTerminal(status) /\ ~PastDeadline /\ Sleep
  /\ UNCHANGED <<args, elapsed, asked, status, request, world>>

\* Slips the model must notice: the pause is skipped; only the ctx ends it.
WakeAtOnce ==
  /\ pc = "sleep"
  /\ pc' = "ask"
  /\ UNCHANGED <<args, elapsed, asked, spent, status, request, result, world>>

WakeOnlyByCtx == FALSE /\ UNCHANGED vars

\* The select of the two ends of a sleep; either may win when both are ready.
Wake ==
  /\ pc = "sleep" /\ spent >= every
  /\ pc' = "ask"
  /\ UNCHANGED <<args, elapsed, asked, spent, status, request, result, world>>

Interrupted ==
  /\ pc = "sleep" /\ ctxDone
  /\ Return("ctx")
  /\ UNCHANGED <<args, elapsed, asked, spent, status, request, world>>

-----------------------------------------------------------------------------
(* The SP, the caller, and time.                                           *)

\* handleStatus behind withAuth: the SP answers with the state the deal is in, or
\* with 401; either may be old by the time it arrives.
SPAnswers ==
  /\ pc = "asking" /\ answer = NoStatus
  /\ answer' = WithAuth(policy, header, clock + Skew, dealState)
  /\ UNCHANGED <<pc, args, elapsed, asked, spent, status, header, wasOver,
                 result, world>>

\* A deal moves on until it is in a terminal state.
DealMoves ==
  /\ pc # "returned" /\ ~IsTerminal(dealState)
  /\ dealState' \in States \ {dealState}
  /\ UNCHANGED <<pc, args, elapsed, asked, spent, status, request, result,
                 ctxDone, clock>>

CancelCtx ==
  /\ pc # "returned" /\ ~ctxDone
  /\ ctxDone' = TRUE
  /\ UNCHANGED <<pc, args, elapsed, asked, spent, status, request, result,
                 dealState, clock>>

\* Time passes while a request is out or the client sleeps, not beyond the end
\* of either.  Ages stop growing where nothing depends on them any more.
Tick ==
  /\ \/ pc = "asking" /\ spent < LongestRequest /\ ~ctxDone
     \/ pc = "sleep" /\ spent < every /\ ~ctxDone
  /\ spent' = spent + 1
  /\ elapsed' = IF Limited /\ elapsed <= Latest THEN elapsed + 1 ELSE elapsed
  /\ asked' = IF asked < every THEN asked + 1 ELSE asked
  /\ clock' = (clock + 1) % (Minute * Minutes)
  /\ UNCHANGED <<pc, args, status, request, result, ctxDone, dealState>>

Finished == pc = "returned" /\ UNCHANGED vars

ClientStep == Ask \/ GiveUp \/ AnswerArrives \/ Judge \/ Wake \/ Interrupted

Next == \/ ClientStep \/ AskFails \/ SPAnswers \/ DealMoves \/ CancelCtx
        \/ Tick \/ Finished

Spec == Init /\ [][Next]_vars

\* The goroutine runs and time passes.  The SP need not answer, and nothing
\* that can go wrong with a request has to.
FairSpec == Spec /\ WF_vars(ClientStep) /\ WF_vars(Tick)

-----------------------------------------------------------------------------
\* A poll with a limit returns in time: no sequence of slow answers makes it
\* last longer than the limit, one pause and one request (lines 94-115).
ReturnsInTime == Limited /\ pc # "returned" => elapsed <= Latest

\* A deal that had ended by the time it was asked about last is never reported
\* as timed out, even if the deadline passed while the answer was on its way:
\* the state is judged before the deadline (lines 104-110).  A deal that ends
\* after it was asked about may be.
EndBeatsDeadline == result = "timeout" => ~wasOver

\* The SP is never asked again before a full pause has passed, whatever value
\* of `every` the caller gave (lines 91-93, 114).
PollsArePaced == [][pc = "ask" /\ pc' = "asking" => asked >= every]_vars

\* The SP takes requests of this client: whatever it is told, or signed by the
\* secp256k1 key of an address it allows.
Welcome ==
  \/ policy.skipAuth
  \/ /\ signer.keyType = "secp256k1" /\ signer.sigType = "secp256k1"
     /\ signer.key = signer.addr
     /\ signer.addr \in policy.allowed

\* A client that is welcome is refused only because the minute turned on the way
\* of the request, or the clocks disagree: a request verified in the minute it
\* was made in passes, however many came before it (auth.go 52-54: a fresh header
\* for every request).  One that is not is never told a status, in any minute
\* (TestIntegration_AuthRejectsBadSigner, integration_test.go:70-92).
AuthIsRight ==
  /\ answer = Refused /\ Welcome =>
       \E t \in 0..spent :
         AuthMinute(clock - spent) # AuthMinute(clock - spent + t + Skew)
  /\ answer \in States \/ status # NoStatus => Welcome

\* How much of the limit can be used up where: the last sleep begins before the
\* deadline, and after it there is one more request.
LimitInv ==
  Limited =>
    /\ pc = "ask" => elapsed <= limit + every
    /\ pc = "asking" => elapsed <= limit + every + spent
    /\ pc = "answered" => elapsed <= Latest
    /\ pc = "sleep" => elapsed <= limit + spent

\* The pause is part of the time since the last request, which begins with it.
PauseInv ==
  /\ pc = "asking" => spent <= LongestRequest
  /\ pc = "sleep" => spent <= every /\ spent <= asked
  /\ pc = "ask" => asked = every

\* The header of the request under way is signed for the minute it was made in;
\* after it there is no answer.
SignedInv ==
  /\ pc = "asking" => header = AuthHeader(signer, AuthMinute(clock - spent))
  /\ pc \in {"ask", "answered", "sleep"} => answer = NoStatus

\* A deal that had ended when it was asked about is still over, and its answer
\* says so wherever it is.
EndedInv ==
  wasOver =>
    /\ IsTerminal(dealState)
    /\ answer \in States => IsTerminal(answer)
    /\ pc = "answered" => IsTerminal(status)

\* The result is there when the poll has returned, a timeout not before the
\* limit.
ResultInv ==
  /\ (result = "none") = (pc # "returned")
  /\ result = "timeout" => Limited /\ elapsed > limit

\* The inductive invariant: where the poll stands bounds how late it can be, the
\* signature under way is as old as the request, and an end is not lost.
IInv == /\ TypeOK /\ LimitInv /\ PauseInv /\ SignedInv /\ EndedInv
        /\ ResultInv /\ EndBeatsDeadline /\ AuthIsRight

\* When the deal has ended the poll ends, even without a limit.
EndIsNoticed == IsTerminal(dealState) ~> pc = "returned"

\* Comment of lines 84-85: PollStatus ends when the deal is in a terminal
\* state, ctx is cancelled, or the time has elapsed.
EndsAsDocumented ==
  pc = "returned" => IsTerminal(status) \/ ctxDone \/ PastDeadline
=============================================================================
