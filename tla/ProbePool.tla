----------------------------- MODULE ProbePool -----------------------------
(***************************************************************************)
(* The pool of Crawler.probeAll (pkg/catalog/crawler.go), which probeBatch *)
(* (internal/cli/sps.go) repeats line by line, and the count that Crawl    *)
(* makes of its results.                                                   *)
(*                                                                         *)
(* A loop starts one goroutine per miner and takes a slot of a buffered    *)
(* channel before each; a goroutine probes its miner, writes its own       *)
(* element of results, gives the slot back and leaves the WaitGroup.  The  *)
(* loop then waits for the group and the results are counted.              *)
(***************************************************************************)
EXTENDS Integers, FiniteSets

CONSTANTS
  N,                   \* number of miners
  ConcurrencyOpt,      \* Crawler.Concurrency, or the flag of sps probe-batch
  DefaultConcurrency,  \* 8 and 4 in the code
  ProbeOutcomes        \* what Prober.Probe may return: see Outcome

Outcome == {"mk20", "plain", "nil"}

ASSUME PoolAssumption ==
  /\ N \in Nat
  /\ ConcurrencyOpt \in Int /\ DefaultConcurrency \in Nat \ {0}
  /\ ProbeOutcomes \subseteq Outcome

\* A slip the model must notice: the setting is taken as it comes.
CapacityAsGiven == ConcurrencyOpt

\* Zero and negative settings mean the default.
Capacity == IF ConcurrencyOpt > 0 THEN ConcurrencyOpt ELSE DefaultConcurrency

Slots == 1..N   \* indices of miners and of results

VARIABLES
  pc,       \* the calling goroutine: "loop", "acquire", "wait", "counted"
  i,        \* the miner the loop is at
  sem,      \* tokens in the channel sem
  wg,       \* counter of the WaitGroup
  probe,    \* goroutine of each miner
  results,  \* the slice results; "nil" where nothing was written
  mk20      \* Snapshot.Mk20Count

vars == <<pc, i, sem, wg, probe, results, mk20>>

\* Goroutines holding a slot, and those whose probe is running.
Holding == {s \in Slots : probe[s] \in {"probing", "written"}}
Probing == {s \in Slots : probe[s] = "probing"}

TypeOK ==
  /\ pc \in {"loop", "acquire", "wait", "counted"}
  /\ i \in 1..N + 1
  /\ sem \in 0..Capacity
  /\ wg \in 0..N
  /\ probe \in [Slots -> {"unborn", "probing", "written", "released", "done"}]
  /\ results \in [Slots -> Outcome]
  /\ mk20 \in 0..N

Init ==
  /\ pc = "loop" /\ i = 1
  /\ sem = 0 /\ wg = 0
  /\ probe = [s \in Slots |-> "unborn"]
  /\ results = [s \in Slots |-> "nil"]
  /\ mk20 = 0

-----------------------------------------------------------------------------
(* The calling goroutine.                                                  *)

\* A slip the model must notice: the group learns of a goroutine too late.
AddToGroupLate ==
  /\ pc = "loop" /\ i <= N
  /\ pc' = "acquire"
  /\ UNCHANGED <<i, sem, wg, probe, results, mk20>>

\* wg.Add(1)
AddToGroup ==
  /\ pc = "loop" /\ i <= N
  /\ wg' = wg + 1 /\ pc' = "acquire"
  /\ UNCHANGED <<i, sem, probe, results, mk20>>

\* A slip the model must notice: the goroutine does not wait for a slot.
LaunchAtOnce ==
  /\ pc = "acquire"
  /\ sem' = IF sem < Capacity THEN sem + 1 ELSE sem
  /\ probe' = [probe EXCEPT ![i] = "probing"]
  /\ i' = i + 1 /\ pc' = "loop"
  /\ UNCHANGED <<wg, results, mk20>>

\* sem <- struct{}{} and the go statement.
Launch ==
  /\ pc = "acquire" /\ sem < Capacity
  /\ sem' = sem + 1
  /\ probe' = [probe EXCEPT ![i] = "probing"]
  /\ i' = i + 1 /\ pc' = "loop"
  /\ UNCHANGED <<wg, results, mk20>>

LoopEnds ==
  /\ pc = "loop" /\ i = N + 1
  /\ pc' = "wait"
  /\ UNCHANGED <<i, sem, wg, probe, results, mk20>>

\* wg.Wait(), and the count of the results with Mk20 set.
Count ==
  /\ pc = "wait" /\ wg = 0
  /\ mk20' = Cardinality({s \in Slots : results[s] = "mk20"})
  /\ pc' = "counted"
  /\ UNCHANGED <<i, sem, wg, probe, results>>

-----------------------------------------------------------------------------
(* The goroutine of miner s.                                               *)

\* A slip the model must notice: a nil capability is stored.
OrEmptyUnchecked(o) == o

\* A nil capability is replaced by an empty one.
OrEmpty(o) == IF o = "nil" THEN "plain" ELSE o

Probe(s) ==
  /\ probe[s] = "probing"
  /\ \E o \in ProbeOutcomes : results' = [results EXCEPT ![s] = OrEmpty(o)]
  /\ probe' = [probe EXCEPT ![s] = "written"]
  /\ UNCHANGED <<pc, i, sem, wg, mk20>>

\* The two deferred calls, last one first: <-sem, then wg.Done().
Release(s) ==
  /\ probe[s] = "written"
  /\ sem' = sem - 1
  /\ probe' = [probe EXCEPT ![s] = "released"]
  /\ UNCHANGED <<pc, i, wg, results, mk20>>

Done(s) ==
  /\ probe[s] = "released"
  /\ wg' = wg - 1
  /\ probe' = [probe EXCEPT ![s] = "done"]
  /\ UNCHANGED <<pc, i, sem, results, mk20>>

Finished == pc = "counted" /\ UNCHANGED vars

Main == AddToGroup \/ Launch \/ LoopEnds \/ Count

Worker(s) == Probe(s) \/ Release(s) \/ Done(s)

Next == Main \/ (\E s \in Slots : Worker(s)) \/ Finished

Spec == Init /\ [][Next]_vars

\* Goroutines run, and a probe ends: every request it makes has a timeout
\* (catalog.go:70-73, and the 60 s of mk20.NewClient).
FairSpec == Spec /\ WF_vars(Main) /\ \A s \in Slots : WF_vars(Worker(s))

-----------------------------------------------------------------------------
\* "Concurrency caps in-flight probes" (crawler.go:31): however the loop and
\* the deferred calls interleave, no more probes run than there are slots.
InFlightCapped == Cardinality(Probing) <= Capacity

\* Every result is there when the group is waited for, and every goroutine is
\* gone: the count never meets a nil capability, which it would dereference
\* (crawler.go:69-74), and no goroutine writes to results afterwards.
AllCollected ==
  pc = "counted" => \A s \in Slots : results[s] # "nil" /\ probe[s] = "done"

\* The pool never gets stuck on its own slots: the count is reached.
PoolEnds == <>(pc = "counted")

-----------------------------------------------------------------------------
(* The inductive invariant: sem counts the slots in use, wg the goroutines *)
(* that are to come or not done, and a result is written before its slot   *)
(* is given back.                                                          *)

Launched == {s \in Slots : probe[s] # "unborn"}
NotDone == {s \in Slots : probe[s] \in {"probing", "written", "released"}}

SlotsInv == sem = Cardinality(Holding)

GroupInv == wg = Cardinality(NotDone) + (IF pc = "acquire" THEN 1 ELSE 0)

LoopInv ==
  /\ \A s \in Slots : probe[s] = "unborn" <=> s >= i
  /\ pc = "acquire" => i <= N
  /\ pc \in {"wait", "counted"} => i = N + 1
  /\ pc = "counted" => NotDone = {}

WrittenInv ==
  \A s \in Slots :
    probe[s] \in {"written", "released", "done"} => results[s] # "nil"

IInv == TypeOK /\ SlotsInv /\ GroupInv /\ LoopInv /\ WrittenInv
=============================================================================
