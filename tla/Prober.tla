------------------------------- MODULE Prober -------------------------------
(***************************************************************************)
(* Prober.Probe and httpCandidates (pkg/catalog/catalog.go): the addresses *)
(* of a miner are read from the chain, made into candidate URLs, and these *)
(* are asked one after another for their mk20 capabilities.                *)
(*                                                                         *)
(* An address is its scheme and host; "garbled" is one that cannot be      *)
(* decoded, "none" one that is not HTTP-shaped.  What a speaks will reply  *)
(* is chosen when it is asked: "list", "404", "500", "none" for silence,   *)
(* or "foreign", the 200 of some other server: an empty body, or JSON      *)
(* without the field that is looked for, both of which doJSON takes.       *)
(* Time passes in units while a call is out.                               *)
(***************************************************************************)
EXTENDS Integers, Sequences, FiniteSets, SequencesExt, Functions

CONSTANTS
  Addrs,       \* addresses a miner may have put on the chain
  MaxAddrs,    \* bound: addresses of one miner
  BadHosts,    \* hosts of which NewClient cannot make a URL again
  Timeout,     \* Prober.HTTPTimeout, for each call
  Delay        \* by when a speaks that replies has done so

Schemes == {"https", "wss", "http", "ws", "none", "garbled"}

ASSUME ProberAssumption ==
  /\ \A a \in Addrs : a.scheme \in Schemes
  /\ MaxAddrs \in Nat /\ Delay \in Nat /\ Timeout \in Nat /\ Delay < Timeout

Usable(a) == a.scheme \in {"https", "wss", "http", "ws"}

\* The base URL of an address: its path is dropped, a websocket is HTTP.
Url(a) == [scheme |-> IF a.scheme \in {"https", "wss"} THEN "https" ELSE "http",
           host |-> a.host]

\* The members of s at the positions in P, in their order.
Nth(P, k) == CHOOSE i \in P : Cardinality({j \in P : j <= i}) = k
Keep(s, P) == [k \in 1..Cardinality(P) |-> s[Nth(P, k)]]

\* The addresses that become URLs of a scheme.
Of(scheme, addrs) ==
  Keep(addrs, {i \in DOMAIN addrs :
                 Usable(addrs[i]) /\ Url(addrs[i]).scheme = scheme})

\* A slip the model must notice: a host is listed once, not a URL.
NewHost(urls, i) == \A j \in 1..i - 1 : urls[j].host # urls[i].host

NotSeen(urls, i) == \A j \in 1..i - 1 : urls[j] # urls[i]

\* The URLs of the usable addresses, https before http, each of them once.
HttpCandidates(addrs) ==
  LET ranked == Of("https", addrs) \o Of("http", addrs)
      urls == [i \in DOMAIN ranked |-> Url(ranked[i])]
  IN Keep(urls, {i \in DOMAIN urls : NotSeen(urls, i)})

Replies == {"list", "foreign", "404", "500", "none"}
Accepted == {"list", "foreign"}

VARIABLES
  pc,        \* "info", "ask", "asking" or "returned"
  maddrs,    \* the addresses on the chain
  cands,     \* candidates
  at,        \* position in cands
  call,      \* "products", "sources" or "contracts"
  reply,     \* what the call under way will get; "lost" if it is lost
  spent,     \* age of probeCtx
  since,     \* time since started, until the latency is taken
  elapsed,   \* history: time spent in calls
  cap,       \* the Capability but for its errors
  errors,    \* Capability.Errors
  err,       \* Probe returned an error
  ctxDone,   \* the caller's ctx is done
  speaks,    \* history: whether each URL asked for its products has them
  hiccup     \* history: some call was lost

chain == <<maddrs, cands>>
calling == <<at, call, reply, spent, since>>
report == <<cap, errors, err>>
history == <<elapsed, speaks, hiccup>>
vars == <<pc, chain, calling, report, ctxDone, history>>

NoUrl == [scheme |-> "none", host |-> "none"]

Unknown == [mk20 |-> FALSE, base |-> NoUrl, products |-> "none",
            sources |-> "none", contracts |-> "none", latency |-> 0]

Base == cands[at]
Error(stage, u) == [stage |-> stage, url |-> u]

Stages == {"state_miner_info", "parse_multiaddrs", "no_http_multiaddr",
           "new_client", "products", "sources", "contracts"}

Urls == {Url(a) : a \in Addrs}

Capabilities ==
  [mk20 : BOOLEAN, base : Urls \union {NoUrl}, products : {"none", "list"},
   sources : {"none", "list"}, contracts : {"none", "list"}, latency : Nat]

TypeOK ==
  /\ pc \in {"info", "ask", "asking", "returned"}
  /\ maddrs \in Seq(Addrs) /\ Len(maddrs) <= MaxAddrs
  /\ cands \in Seq(Urls) /\ Len(cands) <= Len(maddrs)
  /\ at \in Nat \ {0} /\ (pc # "info" /\ ~err => at \in DOMAIN cands)
  /\ call \in {"products", "sources", "contracts"}
  /\ reply \in Replies \union {"lost"}
  /\ spent \in 0..Timeout /\ since \in Nat /\ elapsed \in Nat
  /\ cap \in Capabilities
  /\ errors \subseteq [stage : Stages, url : Urls \union {NoUrl}]
  /\ err \in BOOLEAN /\ ctxDone \in BOOLEAN /\ hiccup \in BOOLEAN
  /\ DOMAIN speaks \subseteq ToSet(cands) /\ Range(speaks) \subseteq BOOLEAN

Init ==
  /\ pc = "info" /\ maddrs \in BoundedSeq(Addrs, MaxAddrs) /\ cands = <<>>
  /\ at = 1 /\ call = "products" /\ reply = "none" /\ spent = 0 /\ since = 0
  /\ elapsed = 0 /\ cap = Unknown /\ errors = {} /\ err = FALSE
  /\ ctxDone = FALSE /\ speaks = <<>> /\ hiccup = FALSE

-----------------------------------------------------------------------------
(* The chain is asked, and the answer is made into candidates.             *)

FailAtOnce(stage) ==
  /\ pc = "info"
  /\ pc' = "returned" /\ err' = TRUE /\ errors' = {Error(stage, NoUrl)}
  /\ UNCHANGED <<chain, calling, history, cap, ctxDone>>

\* The RPC call fails: transport, timeout, ctx, HTTP status, RPC error.
InfoFails == FailAtOnce("state_miner_info")

Garbled == \E a \in ToSet(maddrs) : a.scheme = "garbled"

\* One address that cannot be decoded is enough.
MultiaddrsFail == Garbled /\ FailAtOnce("parse_multiaddrs")

NoCandidates ==
  /\ ~Garbled /\ HttpCandidates(maddrs) = <<>>
  /\ FailAtOnce("no_http_multiaddr")

Resolve ==
  /\ pc = "info" /\ ~Garbled
  /\ HttpCandidates(maddrs) # <<>>
  /\ cands' = HttpCandidates(maddrs)
  /\ pc' = "ask"
  /\ UNCHANGED <<maddrs, calling, history, report, ctxDone>>

-----------------------------------------------------------------------------
(* The candidates are asked.                                               *)

\* cancel(); the next call has a deadline of its own.
EndCall == reply' = "none" /\ spent' = 0

\* Slips the model must notice: the clock of the latency, or the deadline, runs
\* on from the first candidate.
NextCandidateSameClock ==
  /\ IF at < Len(cands)
       THEN pc' = "ask" /\ at' = at + 1
       ELSE pc' = "returned" /\ UNCHANGED at
  /\ UNCHANGED since
  /\ EndCall

NextCandidateSameDeadline ==
  /\ IF at < Len(cands)
       THEN pc' = "ask" /\ at' = at + 1
       ELSE pc' = "returned" /\ UNCHANGED at
  /\ since' = 0
  /\ reply' = "none" /\ UNCHANGED spent

\* On to the next candidate, if there is one.
NextCandidate ==
  /\ IF at < Len(cands)
       THEN pc' = "ask" /\ at' = at + 1
       ELSE pc' = "returned" /\ UNCHANGED at
  /\ since' = 0
  /\ EndCall

NewClientFails ==
  /\ pc = "ask" /\ call = "products" /\ Base.host \in BadHosts
  /\ errors' = errors \union {Error("new_client", Base)}
  /\ NextCandidate
  /\ UNCHANGED <<chain, call, history, cap, err, ctxDone>>

\* A request goes out.
Ask ==
  /\ pc = "ask" /\ Base.host \notin BadHosts /\ ~ctxDone
  /\ \E r \in Replies :
       /\ reply' = r
       /\ speaks' =
            IF call = "products"
              THEN [u \in DOMAIN speaks \union {Base} |->
                      IF u = Base THEN r \in Accepted ELSE speaks[u]]
              ELSE speaks
  /\ pc' = "asking"
  /\ UNCHANGED <<chain, at, call, spent, since, elapsed, report, ctxDone,
                 hiccup>>

\* A slip the model must notice: only the caller's ctx ends a silent call.
CallFailsUnlessSilent ==
  \/ ctxDone /\ pc \in {"ask", "asking"} /\ Base.host \notin BadHosts
  \/ pc = "asking" /\ reply \in {"404", "500", "lost"}

\* The call under way, or about to be made, ends in an error.
CallFails ==
  \/ ctxDone /\ pc \in {"ask", "asking"} /\ Base.host \notin BadHosts
  \/ pc = "asking" /\ (reply \in {"404", "500", "lost"} \/ spent >= Timeout)

CallWorks == pc = "asking" /\ reply \in Accepted

ListOf(r) == IF r = "list" THEN "list" ELSE "none"

ProductsFail ==
  /\ call = "products" /\ CallFails
  /\ errors' = errors \union {Error("products", Base)}
  /\ NextCandidate
  /\ UNCHANGED <<chain, call, history, cap, err, ctxDone>>

ProductsWork ==
  /\ call = "products" /\ CallWorks
  /\ cap' = [cap EXCEPT !.mk20 = TRUE, !.base = Base,
                        !.products = ListOf(reply), !.latency = since]
  /\ call' = "sources" /\ pc' = "ask" /\ since' = 0 /\ EndCall
  /\ UNCHANGED <<chain, at, history, errors, err, ctxDone>>

\* Best effort: an error is kept and the probe goes on.
Sources ==
  /\ call = "sources"
  /\ \/ /\ CallWorks
        /\ cap' = [cap EXCEPT !.sources = ListOf(reply)] /\ UNCHANGED errors
     \/ /\ CallFails
        /\ errors' = errors \union {Error("sources", Base)} /\ UNCHANGED cap
  /\ call' = "contracts" /\ pc' = "ask" /\ EndCall
  /\ UNCHANGED <<chain, at, since, history, err, ctxDone>>

\* A slip the model must notice: the search goes on after a hit.
ContractsNoBreak ==
  /\ call = "contracts" /\ (CallWorks \/ CallFails)
  /\ NextCandidate
  /\ call' = "products"
  /\ UNCHANGED <<chain, history, report, ctxDone>>

\* The same, where 404 is no error; then the search is over.
Contracts ==
  /\ call = "contracts"
  /\ \/ /\ CallWorks
        /\ cap' = [cap EXCEPT !.contracts = ListOf(reply)] /\ UNCHANGED errors
     \/ /\ CallFails
        /\ errors' = IF pc = "asking" /\ reply = "404" THEN errors
                     ELSE errors \union {Error("contracts", Base)}
        /\ UNCHANGED cap
  /\ pc' = "returned" /\ EndCall
  /\ UNCHANGED <<chain, at, call, since, history, err, ctxDone>>

-----------------------------------------------------------------------------
(* The network, the caller, and time.                                      *)

\* The call is lost, cut off, refused for its signature, or not JSON.
Lose ==
  /\ pc = "asking" /\ reply # "lost"
  /\ reply' = "lost" /\ hiccup' = TRUE
  /\ UNCHANGED <<pc, chain, at, call, spent, since, elapsed, report, ctxDone,
                 speaks>>

CancelCtx ==
  /\ pc # "returned" /\ ~ctxDone
  /\ ctxDone' = TRUE
  /\ UNCHANGED <<pc, chain, calling, history, report>>

\* While a call is out, until it is over.
Tick ==
  /\ pc = "asking" /\ ~CallFails
  /\ reply # "none" => spent < Delay
  /\ spent' = spent + 1 /\ elapsed' = elapsed + 1
  /\ since' = IF call = "products" THEN since + 1 ELSE since
  /\ UNCHANGED <<pc, chain, at, call, reply, report, ctxDone, speaks, hiccup>>

Finished == pc = "returned" /\ UNCHANGED vars

ProbeStep == \/ InfoFails \/ MultiaddrsFail \/ NoCandidates \/ Resolve
             \/ NewClientFails \/ Ask \/ ProductsFail \/ ProductsWork
             \/ Sources \/ Contracts

Next == ProbeStep \/ Lose \/ CancelCtx \/ Tick \/ Finished

Spec == Init /\ [][Next]_vars

-----------------------------------------------------------------------------
\* The candidates are what the chain says: the URLs of the usable addresses and
\* no others, each once although wss and https of a host are the same, https
\* before http, and otherwise in chain order (lines 143-187).
FirstAt(addrs, u) ==
  CHOOSE i \in DOMAIN addrs :
    /\ Usable(addrs[i]) /\ Url(addrs[i]) = u
    /\ \A j \in 1..i - 1 : ~Usable(addrs[j]) \/ Url(addrs[j]) # u

CandidatesRight ==
  cands # <<>> =>
    /\ ToSet(cands) = {Url(a) : a \in {b \in ToSet(maddrs) : Usable(b)}}
    /\ \A i, j \in DOMAIN cands : i < j =>
         \/ cands[i].scheme = "https" /\ cands[j].scheme = "http"
         \/ /\ cands[i].scheme = cands[j].scheme
            /\ FirstAt(maddrs, cands[i]) < FirstAt(maddrs, cands[j])

\* u was tried and found not to work, and the report says so.
PassedOver(u) ==
  \E e \in errors : e.url = u /\ e.stage \in {"new_client", "products"}

\* "We hit a working Mk20 endpoint.  Record it and finish enumerating"
\* (line 113): whatever fails when, the endpoint in the report is the first
\* that worked, all before it have their error in the report, and none after
\* it was bothered.
FirstWorkingWins ==
  cap.mk20 =>
    \E k \in DOMAIN cands :
      /\ cap.base = cands[k] /\ ~PassedOver(cands[k])
      /\ \A j \in 1..k - 1 : PassedOver(cands[j])
      /\ \A j \in k + 1..Len(cands) : cands[j] \notin DOMAIN speaks

\* A miner that is reachable is found, however slow its other addresses are:
\* "no Mk20" in a complete probe means that every candidate was asked in vain.
FoundIfThere ==
  pc = "returned" /\ ~err /\ ~cap.mk20 =>
    /\ \A u \in ToSet(cands) : PassedOver(u)
    /\ ~ctxDone /\ ~hiccup =>
         \A u \in ToSet(cands) : u.host \in BadHosts \/ ~speaks[u]

\* The latency by which the reports are ranked is that of the endpoint itself,
\* which replied in time, and not of the addresses tried before it (line 117).
LatencyIsItsOwn == cap.latency <= Delay

\* "HTTPTimeout bounds each individual capability call" (line 56): silent
\* servers cost one timeout per candidate, and two more for an endpoint that
\* works but replies to nothing else.  The chain RPC before them, with the 30 s of
\* its own client (rpc.go:64), is not counted.
ReturnsInTime == elapsed <= (Len(cands) + 2) * Timeout

-----------------------------------------------------------------------------
(* What the properties rest on.                                            *)

\* Before there are candidates, and after an error, nothing was tried.
EmptyInv ==
  /\ pc = "info" \/ err =>
       /\ cands = <<>> /\ cap = Unknown /\ speaks = <<>>
       /\ at = 1 /\ call = "products" /\ elapsed = 0
       /\ \A e \in errors : e.stage \notin {"new_client", "products"}
  /\ pc = "info" => ~err
  /\ err => pc = "returned"

\* The search is where `at` says: all before it were passed over, none after it
\* was asked, and an endpoint that was found is the one it stands at.
SearchInv ==
  /\ \A j \in DOMAIN cands : j < at => PassedOver(cands[j])
  /\ \A e \in errors : e.stage \in {"new_client", "products"} =>
       \E j \in DOMAIN cands :
         /\ e.url = cands[j]
         /\ j < at \/ (j = at /\ pc = "returned" /\ ~cap.mk20)
  /\ \A u \in DOMAIN speaks : \E j \in DOMAIN cands : j <= at /\ u = cands[j]
  /\ cap.mk20 = (call # "products")
  /\ cap.mk20 => cap.base = cands[at]
  /\ pc = "returned" /\ ~err /\ ~cap.mk20 =>
       at = Len(cands) /\ PassedOver(cands[at])

\* What a call may have come to, and how long it took.
CallInv ==
  /\ pc \in {"info", "ask"} => reply = "none" /\ spent = 0
  /\ reply \notin {"none", "lost"} => spent <= Delay
  /\ reply = "lost" => hiccup
  /\ pc \in {"info", "ask", "asking"} /\ call = "products" => since = spent
  /\ pc = "asking" /\ call = "products" =>
       /\ Base \in DOMAIN speaks
       /\ reply # "lost" => speaks[Base] = (reply \in Accepted)

\* Whoever was passed over without a mishap did not work.
VainInv ==
  ~ctxDone /\ ~hiccup =>
    \A u \in ToSet(cands) : PassedOver(u) =>
      u.host \in BadHosts \/ (u \in DOMAIN speaks /\ ~speaks[u])

\* Each call that ended took no longer than its timeout.
CallsBefore ==
  at - 1 + CASE call = "products" -> 0 [] call = "sources" -> 1
             [] call = "contracts" -> 2

TimeInv ==
  /\ pc \in {"ask", "asking"} => elapsed <= CallsBefore * Timeout + spent
  /\ ReturnsInTime

\* The inductive invariant: wherever the probe stands, the report explains every
\* candidate before that place, and no call has taken longer than it may.
IInv == /\ TypeOK /\ CandidatesRight /\ EmptyInv /\ SearchInv /\ CallInv
        /\ VainInv /\ TimeInv /\ LatencyIsItsOwn
=============================================================================
