------------------------- MODULE PollStatusProofs -------------------------
(***************************************************************************)
(* Proofs about PollStatus, for all arguments, all durations and any       *)
(* difference of the clocks: IInv is inductive.  LimitInv says how much of *)
(* the limit each place in the loop can have used up; PauseInv that the    *)
(* pause is waited for in full; SignedInv ties the signature to the minute *)
(* its request was made in, on a clock that goes round; EndedInv that what *)
(* a terminal deal is answered is terminal.                                *)
(***************************************************************************)
EXTENDS PollStatus, TLAPS

\* The clock goes round in this many units.
Round == Minute * Minutes

\* Division with a remainder.
LEMMA Division ==
  ASSUME NEW x \in Int, NEW m \in Nat \ {0}
  PROVE  /\ x = m * (x \div m) + (x % m)
         /\ x \div m \in Int /\ x % m \in 0..m - 1
OBVIOUS

\* A remainder can be read off.
LEMMA Remainder ==
  ASSUME NEW q \in Int, NEW m \in Nat \ {0}, NEW r \in 0..m - 1
  PROVE  (m * q + r) % m = r
OBVIOUS

\* Whole rounds do not count for a remainder.
LEMMA RemainderGoesRound ==
  ASSUME NEW q \in Int, NEW n \in Nat \ {0}
  PROVE  (q - n) % n = q % n
<1> DEFINE k == q \div n
           r == q % n
<1>1. q = n * k + r /\ k \in Int /\ r \in 0..n - 1
  BY Division
<1> HIDE DEF k, r
<1>2. q - n = n * (k - 1) + r /\ k - 1 \in Int
  BY <1>1
<1>3. (n * (k - 1) + r) % n = r
  BY <1>1, <1>2, Remainder
<1> QED BY <1>2, <1>3 DEF r

\* A minute later on the clock is one more when divided.
LEMMA MinutesEarlier ==
  ASSUME NEW x \in Int, NEW m \in Nat \ {0}, NEW n \in Int
  PROVE  (x - m * n) \div m = (x \div m) - n
OBVIOUS

\* A minute has one of so many names, and the same one a round earlier.
LEMMA MinuteGoesRound ==
  ASSUME NEW t \in Int
  PROVE  /\ AuthMinute(t) \in 0..Minutes - 1
         /\ AuthMinute(t - Round) = AuthMinute(t)
<1>1. Minute \in Nat \ {0} /\ Minutes \in Nat \ {0}
  BY TimeAssumption
<1>2. t \div Minute \in Int
  BY <1>1, Division
<1>3. AuthMinute(t) \in 0..Minutes - 1
  BY <1>1, <1>2, Division DEF AuthMinute
<1>4. (t - Minute * Minutes) \div Minute = (t \div Minute) - Minutes
  <2>1. Minutes \in Int
    BY <1>1
  <2> QED BY <1>1, <2>1, MinutesEarlier, Zenon
<1>5. AuthMinute(t - Round) = AuthMinute(t)
  BY <1>1, <1>2, <1>4, RemainderGoesRound DEF AuthMinute, Round
<1> QED BY <1>3, <1>5

\* When the clock goes on it goes on by one, or begins a new round.
LEMMA ClockTicks ==
  ASSUME NEW c \in 0..Round - 1
  PROVE  /\ (c + 1) % Round \in 0..Round - 1
         /\ (c + 1) % Round \in {c + 1, c + 1 - Round}
<1>1. Round \in Nat \ {0}
  BY TimeAssumption DEF Round
<1>2. CASE c + 1 < Round
  <2>1. (Round * 0 + (c + 1)) % Round = c + 1
    BY <1>1, <1>2, Remainder
  <2>2. Round * 0 + (c + 1) = c + 1
    BY <1>1
  <2> QED BY <1>1, <1>2, <2>1, <2>2
<1>3. CASE c + 1 = Round
  <2>1. (Round * 1 + 0) % Round = 0
    BY <1>1, Remainder
  <2>2. Round * 1 + 0 = c + 1
    BY <1>1, <1>3
  <2> QED BY <1>1, <1>3, <2>1, <2>2
<1> QED BY <1>1, <1>2, <1>3

\* While the clock and the age of a request go on together, the minute in which
\* the request was made, and every other instant counted from it, keep theirs.
LEMMA MinutesKept ==
  ASSUME NEW c \in 0..Round - 1, NEW s \in Int, NEW d \in Int
  PROVE  AuthMinute(((c + 1) % Round) - (s + 1) + d) = AuthMinute(c - s + d)
<1>1. Round \in Nat
  BY TimeAssumption DEF Round
<1>2. CASE (c + 1) % Round = c + 1
  <2>1. ((c + 1) % Round) - (s + 1) + d = c - s + d
    BY <1>1, <1>2
  <2> QED BY <2>1
<1>3. CASE (c + 1) % Round = c + 1 - Round
  <2>1. ((c + 1) % Round) - (s + 1) + d = (c - s + d) - Round
    BY <1>1, <1>3
  <2>2. c - s + d \in Int
    BY <1>1
  <2> QED BY <2>1, <2>2, MinuteGoesRound
<1> QED BY <1>2, <1>3, ClockTicks

\* How long a request may take is known.
LEMMA LongestIsTimeout ==
  LongestRequest \in Nat /\ LongestRequest <= RequestTimeout
BY TimeAssumption DEF LongestRequest

-----------------------------------------------------------------------------
\* IInv holds before the first request.
LEMMA InitInv == Init => IInv
<1> SUFFICES ASSUME Init PROVE IInv
  OBVIOUS
<1>1. every \in Nat \ {0} /\ limit \in Int
  BY TimeAssumption DEF Init, EveryOrDefault
<1>2. 0 \in 0..Minutes - 1 /\ every \in 0..every
  BY <1>1, TimeAssumption
<1>3. TypeOK
  BY <1>1, <1>2 DEF Init, TypeOK
<1>4. LimitInv /\ PauseInv /\ SignedInv /\ EndedInv /\ ResultInv
  BY <1>1 DEF Init, LimitInv, PauseInv, SignedInv, EndedInv, ResultInv, Limited
<1>5. EndBeatsDeadline /\ AuthIsRight
  BY StatesAssumption
     DEF Init, EndBeatsDeadline, AuthIsRight, NoStatus, Refused
<1> QED BY <1>3, <1>4, <1>5 DEF IInv

\* The types of what IInv speaks of.
LEMMA Types ==
  ASSUME TypeOK
  PROVE  /\ limit \in Int /\ every \in Nat \ {0} /\ elapsed \in Nat
         /\ asked \in 0..every /\ spent \in Nat
         /\ clock \in 0..Round - 1 /\ clock \in Int
         /\ RequestTimeout \in Nat /\ Skew \in Nat
BY TimeAssumption DEF TypeOK, Round

\* A step that lets no time pass and tells the client nothing leaves what the SP
\* said of it as right as it was.
LEMMA AuthIsRightStays ==
  ASSUME AuthIsRight, UNCHANGED <<args, answer, status, clock, spent>>
  PROVE  AuthIsRight'
BY DEF AuthIsRight, Welcome, args

\* The SP lets a request through only if its signer is welcome, and refuses that
\* of one who is only if it names another minute.
LEMMA WelcomeOrNot ==
  ASSUME NEW minute, NEW now, NEW reply, reply # Refused, TypeOK
  PROVE  LET said == WithAuth(policy, AuthHeader(signer, minute), now, reply)
         IN  /\ said # Refused => Welcome
             /\ said = Refused /\ Welcome => minute # AuthMinute(now)
<1> DEFINE h == AuthHeader(signer, minute)
<1>1. /\ h.scheme = "CurioAuth" /\ h.keyType = signer.keyType
      /\ h.addr = signer.addr /\ h.sigType = signer.sigType
      /\ h.key = signer.key /\ h.minute = minute
  BY DEF AuthHeader
<1>2. h # NoHeader
  BY <1>1 DEF NoHeader
<1>3. signer.addr # Stranger
  BY PartiesAssumption DEF TypeOK
<1> HIDE DEF h
<1>4. VerifyAuth(h, now) =>
        /\ signer.keyType = "secp256k1" /\ signer.sigType = "secp256k1"
        /\ signer.key = signer.addr
  BY <1>1, <1>3 DEF VerifyAuth, Recovered
<1>5. /\ signer.keyType = "secp256k1" /\ signer.sigType = "secp256k1"
      /\ signer.key = signer.addr /\ minute = AuthMinute(now)
      => VerifyAuth(h, now)
  BY <1>1 DEF VerifyAuth, Recovered
<1>6. WithAuth(policy, h, now, reply) # Refused => Welcome
  BY <1>1, <1>4 DEF WithAuth, Welcome
<1>7. WithAuth(policy, h, now, reply) = Refused /\ Welcome
      => minute # AuthMinute(now)
  BY <1>1, <1>2, <1>5 DEF WithAuth, Welcome
<1> QED BY <1>6, <1>7 DEF h

\* A request is made and signed.
LEMMA AskPreserves == IInv /\ Ask => IInv'
<1> SUFFICES ASSUME IInv, Ask PROVE IInv'
  OBVIOUS
<1> USE DEF IInv
<1>1. AuthMinute(clock) \in 0..Minutes - 1 /\ clock - 0 = clock
  BY Types, MinuteGoesRound
<1>2. TypeOK'
  <2>1. header' \in Headers
    BY <1>1 DEF Ask, Headers, TypeOK
  <2>2. wasOver' \in BOOLEAN
    BY Zenon DEF Ask, IsTerminal
  <2> QED BY <2>1, <2>2, Types DEF Ask, TypeOK, args, world
<1>3. LimitInv' /\ PauseInv'
  BY Types, LongestIsTimeout
     DEF Ask, LimitInv, PauseInv, Limited, args, Latest
<1>4. SignedInv'
  BY <1>1 DEF Ask, SignedInv, world, args
<1>5. ResultInv' /\ EndBeatsDeadline'
  BY DEF Ask, ResultInv, EndBeatsDeadline, args, Limited
<1>6. EndedInv'
  <2>1. wasOver' => IsTerminal(dealState)
    BY Zenon DEF Ask
  <2> QED BY <2>1, StatesAssumption DEF Ask, EndedInv, world
<1>7. AuthIsRight'
  BY StatesAssumption
     DEF Ask, AuthIsRight, Welcome, NoStatus, Refused, args
<1> QED BY <1>2, <1>3, <1>4, <1>5, <1>6, <1>7

\* A request fails, for whatever reason: the poll has returned, without a
\* timeout.
LEMMA ErrorPreserves == IInv /\ AskEndsWithError => IInv'
<1> SUFFICES ASSUME IInv, AskEndsWithError PROVE IInv'
  OBVIOUS
<1> USE DEF IInv, AskEndsWithError, Return
<1>1. TypeOK'
  BY DEF TypeOK, args, world, request
<1>2. LimitInv' /\ PauseInv' /\ SignedInv' /\ ResultInv' /\ EndBeatsDeadline'
  BY DEF LimitInv, PauseInv, SignedInv, ResultInv, EndBeatsDeadline
<1>3. EndedInv'
  BY DEF EndedInv, request, world
<1>4. AuthIsRight'
  BY AuthIsRightStays DEF request, world
<1> QED BY <1>1, <1>2, <1>3, <1>4

\* A status arrives, within the time of its request.
LEMMA AnswerArrivesPreserves == IInv /\ AnswerArrives => IInv'
<1> SUFFICES ASSUME IInv, AnswerArrives PROVE IInv'
  OBVIOUS
<1> USE DEF IInv
<1>1. TypeOK'
  BY DEF AnswerArrives, TypeOK, args, world
<1>2. LimitInv' /\ PauseInv'
  BY Types, LongestIsTimeout
     DEF AnswerArrives, LimitInv, PauseInv, Limited, args, Latest
<1>3. SignedInv' /\ ResultInv' /\ EndBeatsDeadline'
  BY DEF AnswerArrives, SignedInv, ResultInv, EndBeatsDeadline
<1>4. EndedInv'
  BY StatesAssumption DEF AnswerArrives, EndedInv, world
<1>5. AuthIsRight'
  BY StatesAssumption
     DEF AnswerArrives, AuthIsRight, Welcome, NoStatus, Refused, args
<1> QED BY <1>1, <1>2, <1>3, <1>4, <1>5

\* A status is judged: the poll returns, or sleeps before the deadline.
LEMMA JudgePreserves == IInv /\ Judge => IInv'
<1> SUFFICES ASSUME IInv, Judge PROVE IInv'
  OBVIOUS
<1> USE DEF IInv
<1>1. TypeOK'
  BY DEF Judge, TypeOK, Return, Sleep, args, world, request
<1>2. LimitInv' /\ PauseInv'
  BY Types DEF Judge, LimitInv, PauseInv, Limited, Return, Sleep, args,
               PastDeadline
<1>3. SignedInv' /\ ResultInv'
  BY DEF Judge, SignedInv, ResultInv, Return, Sleep, request, args, Limited,
         PastDeadline
<1>4. EndedInv' /\ EndBeatsDeadline'
  BY DEF Judge, EndedInv, EndBeatsDeadline, ResultInv, Return, Sleep, request,
         world
<1>5. AuthIsRight'
  BY StatesAssumption
     DEF Judge, SignedInv, AuthIsRight, Welcome, request, args, NoStatus, Refused
<1> QED BY <1>1, <1>2, <1>3, <1>4, <1>5

\* A sleep ends, in time or with the ctx.
LEMMA SleepEndsPreserves == IInv /\ (Wake \/ Interrupted) => IInv'
<1> SUFFICES ASSUME IInv, Wake \/ Interrupted PROVE IInv'
  OBVIOUS
<1> USE DEF IInv
<1>1. TypeOK'
  BY DEF Wake, Interrupted, TypeOK, Return, args, world, request
<1>2. LimitInv' /\ PauseInv'
  BY Types DEF Wake, Interrupted, LimitInv, PauseInv, Limited, Return, args
<1>3. SignedInv' /\ ResultInv' /\ EndBeatsDeadline'
  BY DEF Wake, Interrupted, SignedInv, ResultInv, EndBeatsDeadline, Return,
         request
<1>4. EndedInv'
  BY DEF Wake, Interrupted, EndedInv, Return, request, world
<1>5. AuthIsRight'
  BY AuthIsRightStays DEF Wake, Interrupted, request, world
<1> QED BY <1>1, <1>2, <1>3, <1>4, <1>5

\* The SP answers: one who is welcome with a 401 only if the minute on its clock
\* is another one than that of the signature, anybody else with nothing but that.
LEMMA SPAnswersPreserves == IInv /\ SPAnswers => IInv'
<1> SUFFICES ASSUME IInv, SPAnswers PROVE IInv'
  OBVIOUS
<1> USE DEF IInv
<1>1. answer' = WithAuth(policy, header, clock + Skew, dealState)
      /\ pc = "asking"
      /\ UNCHANGED <<pc, args, elapsed, asked, spent, status, header, wasOver,
                     result, world>>
  BY DEF SPAnswers
<1>2. answer' \in {dealState, Refused} /\ dealState \in States
  BY <1>1 DEF WithAuth, TypeOK
<1>3. TypeOK'
  BY <1>1, <1>2 DEF TypeOK, args, world
<1>4. LimitInv' /\ PauseInv' /\ SignedInv' /\ ResultInv' /\ EndBeatsDeadline'
  BY <1>1 DEF LimitInv, PauseInv, SignedInv, ResultInv, EndBeatsDeadline,
              Limited, Latest, args, world
<1>5. EndedInv'
  BY <1>1, <1>2, StatesAssumption DEF EndedInv, world
<1>6. AuthIsRight'
  <2> DEFINE m == AuthMinute(clock - spent)
  <2>1. header = AuthHeader(signer, m) /\ dealState # Refused
    BY <1>1, <1>2, StatesAssumption DEF SignedInv
  <2>2. /\ answer' # Refused => Welcome
        /\ answer' = Refused /\ Welcome => m # AuthMinute(clock + Skew)
    <3> HIDE DEF m
    <3> QED BY <1>1, <2>1, WelcomeOrNot
  <2>3. clock - spent + spent + Skew = clock + Skew /\ spent \in 0..spent
    BY Types
  <2>4. answer' = Refused /\ Welcome =>
          \E t \in 0..spent :
            AuthMinute(clock - spent) # AuthMinute(clock - spent + t + Skew)
    BY <2>2, <2>3
  <2>5. Welcome' = Welcome /\ UNCHANGED <<spent, clock, status>>
    BY <1>1 DEF Welcome, args, world
  <2>6. answer' \in States \/ status' # NoStatus => Welcome
    BY <1>2, <2>2, <2>5, StatesAssumption DEF AuthIsRight
  <2> QED BY <2>4, <2>5, <2>6 DEF AuthIsRight
<1> QED BY <1>3, <1>4, <1>5, <1>6

\* The deal moves on, or the ctx ends.
LEMMA WorldPreserves == IInv /\ (DealMoves \/ CancelCtx) => IInv'
<1> SUFFICES ASSUME IInv, DealMoves \/ CancelCtx PROVE IInv'
  OBVIOUS
<1> USE DEF IInv
<1>1. UNCHANGED <<pc, args, elapsed, asked, spent, status, request, result,
                  clock>>
  BY DEF DealMoves, CancelCtx
<1>2. TypeOK'
  BY <1>1 DEF DealMoves, CancelCtx, TypeOK, args, request
<1>3. LimitInv' /\ PauseInv' /\ SignedInv' /\ ResultInv' /\ EndBeatsDeadline'
  BY <1>1 DEF LimitInv, PauseInv, SignedInv, ResultInv, EndBeatsDeadline,
              Limited, Latest, args, request
<1>4. EndedInv'
  BY <1>1 DEF EndedInv, DealMoves, CancelCtx, request
<1>5. AuthIsRight'
  BY <1>1, AuthIsRightStays DEF request
<1> QED BY <1>2, <1>3, <1>4, <1>5

\* Time passes in a request or a sleep.
LEMMA TickPreserves == IInv /\ Tick => IInv'
<1> SUFFICES ASSUME IInv, Tick PROVE IInv'
  OBVIOUS
<1> USE DEF IInv
<1>1. UNCHANGED <<pc, args, status, request, result, ctxDone, dealState>>
      /\ pc \in {"asking", "sleep"} /\ spent' = spent + 1
  BY DEF Tick
<1>2. clock' = (clock + 1) % Round
  BY DEF Tick, Round
<1>3. TypeOK'
  <2>1. clock' \in 0..Round - 1
    BY <1>2, Types, ClockTicks
  <2>2. elapsed' \in Nat /\ asked' \in 0..every /\ spent' \in Nat
    BY Types DEF Tick
  <2> QED BY <1>1, <2>1, <2>2 DEF TypeOK, args, request, Round
<1>4. LimitInv'
  BY <1>1, Types DEF Tick, LimitInv, Limited, Latest, args
<1>5. PauseInv'
  BY <1>1, Types, LongestIsTimeout DEF Tick, PauseInv, args
<1>6. \A d \in Int :
        AuthMinute(clock' - spent' + d) = AuthMinute(clock - spent + d)
  BY <1>1, <1>2, Types, MinutesKept
<1>7. AuthMinute(clock' - spent') = AuthMinute(clock - spent)
  <2>1. clock - spent + 0 = clock - spent
    BY Types
  <2>2. clock' - spent' + 0 = clock' - spent'
    BY <1>3, Types DEF TypeOK
  <2> QED BY <1>6, <2>1, <2>2
<1>8. SignedInv'
  BY <1>1, <1>7 DEF SignedInv, request, args
<1>9. ResultInv' /\ EndBeatsDeadline' /\ EndedInv'
  BY <1>1 DEF ResultInv, EndBeatsDeadline, EndedInv, request
<1>10. AuthIsRight'
  <2>. Welcome' = Welcome /\ UNCHANGED <<answer, status>>
    BY <1>1 DEF Welcome, args, request
  <2>0. answer' \in States \/ status' # NoStatus => Welcome'
    BY DEF AuthIsRight
  <2> SUFFICES ASSUME answer' = Refused, Welcome' PROVE AuthIsRight'
    BY <2>0 DEF AuthIsRight
  <2>1. PICK t \in 0..spent :
          AuthMinute(clock - spent) # AuthMinute(clock - spent + t + Skew)
    BY DEF AuthIsRight
  <2>2. t \in 0..spent' /\ t + Skew \in Int
    BY <1>1, Types
  <2>3. AuthMinute(clock - spent + t + Skew)
          = AuthMinute(clock' - spent' + t + Skew)
    <3>1. AuthMinute(clock - spent + (t + Skew))
            = AuthMinute(clock' - spent' + (t + Skew))
      BY <1>6, <2>2
    <3>2. /\ clock - spent + (t + Skew) = clock - spent + t + Skew
          /\ clock' - spent' + (t + Skew) = clock' - spent' + t + Skew
      BY <1>3, Types DEF TypeOK
    <3> QED BY <3>1, <3>2
  <2> QED BY <1>7, <2>0, <2>1, <2>2, <2>3 DEF AuthIsRight
<1> QED BY <1>3, <1>4, <1>5, <1>8, <1>9, <1>10

\* Every step preserves IInv.
LEMMA NextInv == IInv /\ [Next]_vars => IInv'
<1> SUFFICES ASSUME IInv, [Next]_vars PROVE IInv'
  OBVIOUS
<1>1. CASE UNCHANGED vars
  BY <1>1 DEF vars, args, request, world, IInv, TypeOK, LimitInv, PauseInv,
       SignedInv, EndedInv, ResultInv, EndBeatsDeadline, AuthIsRight, Welcome,
       Limited, Latest
<1>2. CASE ClientStep
  BY <1>2, AskPreserves, ErrorPreserves, AnswerArrivesPreserves,
     JudgePreserves, SleepEndsPreserves DEF ClientStep, GiveUp
<1>3. CASE AskFails \/ SPAnswers \/ DealMoves \/ CancelCtx \/ Tick
  BY <1>3, ErrorPreserves, SPAnswersPreserves, WorldPreserves, TickPreserves
     DEF AskFails
<1> QED BY <1>1, <1>2, <1>3 DEF Next, Finished

\* In every reachable state of a poll the inductive invariant holds.
THEOREM Invariance == Spec => []IInv
BY InitInv, NextInv, PTL DEF Spec

-----------------------------------------------------------------------------
\* A poll with a limit is over one pause and one request after it, whatever the
\* SP does (upload.go:94-115).
THEOREM PollReturnsInTime == Spec => []ReturnsInTime
<1>1. IInv => ReturnsInTime
  BY Types, LongestIsTimeout
     DEF IInv, TypeOK, LimitInv, PauseInv, ReturnsInTime, Limited, Latest
<1> QED BY <1>1, Invariance, PTL

\* A deal that had ended when it was asked about last never times out, however
\* late its answer comes (upload.go:104-110).
THEOREM EndAlwaysBeatsDeadline == Spec => []EndBeatsDeadline
<1>1. IInv => EndBeatsDeadline
  BY DEF IInv
<1> QED BY <1>1, Invariance, PTL

\* One who is welcome is refused only for the minute, by whatever the clocks
\* differ; one who is not learns nothing (auth.go:52-62, mockserver.go:158-242).
THEOREM AuthIsAlwaysRight == Spec => []AuthIsRight
<1>1. IInv => AuthIsRight
  BY DEF IInv
<1> QED BY <1>1, Invariance, PTL

\* Between two requests there is a whole pause, of whatever length the caller
\* asked for (upload.go:91-93, 114).
THEOREM PollsAreAlwaysPaced == Spec => PollsArePaced
<1>1. IInv /\ [Next]_vars => [pc = "ask" /\ pc' = "asking" => asked >= every]_vars
  BY Types DEF IInv, PauseInv
<1> QED BY <1>1, Invariance, PTL DEF Spec, PollsArePaced
=============================================================================
