--------------------------- MODULE ProbePoolProofs --------------------------
(***************************************************************************)
(* Proofs about ProbePool, for any number of miners and of slots: IInv is  *)
(* inductive.  InFlightCapped follows because sem counts the goroutines    *)
(* that hold a slot (SlotsInv) and a running probe holds one; AllCollected *)
(* because wg counts every goroutine that is not done (GroupInv), so that  *)
(* a zero means that all of them are, and a result is written before its   *)
(* goroutine leaves the group (WrittenInv).                                *)
(***************************************************************************)
EXTENDS ProbePool, FiniteSetTheorems, TLAPS

\* There is at least one slot, whatever is configured.
LEMMA CapacityPositive == Capacity \in Nat \ {0}
BY PoolAssumption DEF Capacity

\* The sets of goroutines are finite, so that they can be counted.
LEMMA SlotsFinite ==
  /\ IsFiniteSet(Slots)
  /\ IsFiniteSet(Holding) /\ Cardinality(Holding) \in Nat
  /\ IsFiniteSet(NotDone) /\ Cardinality(NotDone) \in Nat
<1>1. IsFiniteSet(Slots)
  BY PoolAssumption, FS_Interval DEF Slots
<1>2. Holding \subseteq Slots /\ NotDone \subseteq Slots
  BY DEF Holding, NotDone
<1> QED BY <1>1, <1>2, FS_Subset, FS_CardinalityType

\* IInv holds initially.
LEMMA InitInv == Init => IInv
<1> SUFFICES ASSUME Init PROVE IInv
  OBVIOUS
<1>1. Holding = {} /\ NotDone = {}
  BY DEF Init, Holding, NotDone
<1>2. Cardinality({}) = 0
  BY FS_EmptySet
<1>3. TypeOK
  BY PoolAssumption, CapacityPositive DEF Init, TypeOK, Outcome
<1>4. SlotsInv /\ GroupInv
  BY <1>1, <1>2 DEF Init, SlotsInv, GroupInv
<1>5. LoopInv /\ WrittenInv
  BY DEF Init, LoopInv, WrittenInv, Slots
<1> QED BY <1>3, <1>4, <1>5 DEF IInv

\* wg.Add(1) announces the goroutine that is launched next.
LEMMA AddToGroupPreserves == IInv /\ AddToGroup => IInv'
<1> SUFFICES ASSUME IInv, AddToGroup PROVE IInv'
  OBVIOUS
<1> USE DEF IInv
<1>1. Holding' = Holding /\ NotDone' = NotDone
  BY DEF AddToGroup, Holding, NotDone
<1>2. SlotsInv' /\ GroupInv'
  BY <1>1, SlotsFinite DEF AddToGroup, SlotsInv, GroupInv, TypeOK
<1>3. LoopInv' /\ WrittenInv'
  BY PoolAssumption, <1>1 DEF AddToGroup, LoopInv, WrittenInv, TypeOK
<1>4. wg' \in 0..N
  <2>1. NotDone \subseteq 1..N \ {i} /\ i \in 1..N
    BY PoolAssumption
       DEF AddToGroup, NotDone, LoopInv, Slots, TypeOK
  <2>2. IsFiniteSet(1..N) /\ Cardinality(1..N) = N
    BY PoolAssumption, FS_Interval
  <2>3. /\ IsFiniteSet(1..N \ {i})
        /\ Cardinality(1..N \ {i}) = N - 1
    BY <2>1, <2>2, FS_RemoveElement
  <2>4. Cardinality(NotDone) <= Cardinality(1..N \ {i})
    <3>1. NotDone \in SUBSET (1..N \ {i})
      BY <2>1
    <3> QED BY <2>3, <3>1, FS_Subset
  <2> QED BY <2>3, <2>4, SlotsFinite, PoolAssumption
          DEF AddToGroup, GroupInv
<1>5. TypeOK'
  BY <1>4 DEF AddToGroup, TypeOK
<1> QED BY <1>2, <1>3, <1>5

\* The goroutine launched takes one slot and is the one announced.
LEMMA LaunchPreserves == IInv /\ Launch => IInv'
<1> SUFFICES ASSUME IInv, Launch PROVE IInv'
  OBVIOUS
<1> USE DEF IInv
<1>1. i \in Slots /\ probe[i] = "unborn" /\ i \in Nat
  BY PoolAssumption DEF Launch, LoopInv, TypeOK, Slots
<1>2. probe' = [probe EXCEPT ![i] = "probing"]
  BY DEF Launch
<1>3. /\ Holding' = Holding \union {i} /\ i \notin Holding
      /\ NotDone' = NotDone \union {i} /\ i \notin NotDone
  BY <1>1, <1>2 DEF Holding, NotDone, TypeOK
<1>4. /\ Cardinality(Holding') = Cardinality(Holding) + 1
      /\ Cardinality(NotDone') = Cardinality(NotDone) + 1
  BY <1>3, SlotsFinite, FS_AddElement
<1>5. SlotsInv' /\ GroupInv'
  BY <1>4, SlotsFinite DEF Launch, SlotsInv, GroupInv, TypeOK
<1>6. LoopInv'
  BY <1>1, <1>2, PoolAssumption DEF Launch, LoopInv, TypeOK, Slots
<1>7. WrittenInv'
  BY <1>1, <1>2 DEF Launch, WrittenInv, TypeOK
<1>8. TypeOK'
  BY <1>1, PoolAssumption, CapacityPositive DEF Launch, TypeOK, Slots
<1> QED BY <1>5, <1>6, <1>7, <1>8

\* The calling goroutine waits.
LEMMA LoopEndsPreserves == IInv /\ LoopEnds => IInv'
BY DEF LoopEnds, IInv, TypeOK, SlotsInv, GroupInv, LoopInv, WrittenInv,
       Holding, NotDone

\* A group counted down to zero has no goroutine that is not done.
LEMMA CountPreserves == IInv /\ Count => IInv'
<1> SUFFICES ASSUME IInv, Count PROVE IInv'
  OBVIOUS
<1> USE DEF IInv
<1>1. NotDone = {}
  <2>1. Cardinality(NotDone) = 0
    BY SlotsFinite DEF Count, GroupInv
  <2> QED BY <2>1, SlotsFinite, FS_EmptySet
<1>2. Holding' = Holding /\ NotDone' = NotDone
  BY DEF Count, Holding, NotDone
<1>3. mk20' \in 0..N
  <2>1. {s \in Slots : results[s] = "mk20"} \subseteq Slots
    OBVIOUS
  <2>2. Cardinality(Slots) = N
    BY PoolAssumption, FS_Interval DEF Slots
  <2> QED BY <2>1, <2>2, SlotsFinite, FS_Subset, FS_CardinalityType,
             PoolAssumption
          DEF Count
<1>4. TypeOK'
  BY <1>3 DEF Count, TypeOK
<1>5. SlotsInv' /\ GroupInv'
  BY <1>2 DEF Count, SlotsInv, GroupInv
<1>6. LoopInv' /\ WrittenInv'
  BY <1>1, <1>2 DEF Count, LoopInv, WrittenInv
<1> QED BY <1>4, <1>5, <1>6

\* A probe that ends keeps its slot and its place in the group.
LEMMA ProbePreserves ==
  ASSUME IInv, NEW s \in Slots, Probe(s)
  PROVE  IInv'
<1> USE DEF IInv
<1>1. probe[s] = "probing" /\ probe' = [probe EXCEPT ![s] = "written"]
  BY DEF Probe
<1>2. PICK o \in ProbeOutcomes : results' = [results EXCEPT ![s] = OrEmpty(o)]
  BY DEF Probe
<1>3. OrEmpty(o) \in Outcome \ {"nil"}
  BY PoolAssumption DEF OrEmpty, Outcome
<1>4. Holding' = Holding /\ NotDone' = NotDone
  BY <1>1 DEF Holding, NotDone, TypeOK
<1>5. SlotsInv' /\ GroupInv'
  BY <1>4 DEF Probe, SlotsInv, GroupInv
<1>6. LoopInv'
  BY <1>1, <1>4 DEF Probe, LoopInv, TypeOK
<1>7. WrittenInv' /\ TypeOK'
  BY <1>1, <1>2, <1>3 DEF Probe, WrittenInv, TypeOK, Outcome
<1> QED BY <1>5, <1>6, <1>7

\* The slot given back was counted.
LEMMA ReleasePreserves ==
  ASSUME IInv, NEW s \in Slots, Release(s)
  PROVE  IInv'
<1> USE DEF IInv
<1>1. probe[s] = "written" /\ probe' = [probe EXCEPT ![s] = "released"]
  BY DEF Release
<1>2. /\ s \in Holding /\ Holding' = Holding \ {s}
      /\ NotDone' = NotDone
  BY <1>1 DEF Holding, NotDone, TypeOK
<1>3. Cardinality(Holding') = Cardinality(Holding) - 1
  BY <1>2, SlotsFinite, FS_RemoveElement
<1>4. SlotsInv' /\ GroupInv'
  BY <1>2, <1>3 DEF Release, SlotsInv, GroupInv
<1>5. sem' \in 0..Capacity
  <2>1. IsFiniteSet(Holding')
    BY <1>2, SlotsFinite, FS_RemoveElement
  <2>2. sem' \in Nat
    BY <1>4, <2>1, FS_CardinalityType DEF SlotsInv
  <2> QED BY <2>2, CapacityPositive DEF Release, TypeOK
<1>6. LoopInv'
  BY <1>1, <1>2 DEF Release, LoopInv, TypeOK
<1>7. WrittenInv'
  BY <1>1 DEF Release, WrittenInv, TypeOK
<1>8. TypeOK'
  BY <1>1, <1>5 DEF Release, TypeOK
<1> QED BY <1>4, <1>6, <1>7, <1>8

\* The goroutine that leaves the group was counted.
LEMMA DonePreserves ==
  ASSUME IInv, NEW s \in Slots, Done(s)
  PROVE  IInv'
<1> USE DEF IInv
<1>1. probe[s] = "released" /\ probe' = [probe EXCEPT ![s] = "done"]
  BY DEF Done
<1>2. /\ s \in NotDone /\ NotDone' = NotDone \ {s}
      /\ Holding' = Holding
  BY <1>1 DEF Holding, NotDone, TypeOK
<1>3. /\ IsFiniteSet(NotDone')
      /\ Cardinality(NotDone') = Cardinality(NotDone) - 1
  BY <1>2, SlotsFinite, FS_RemoveElement
<1>4. SlotsInv' /\ GroupInv'
  BY <1>2, <1>3, SlotsFinite DEF Done, SlotsInv, GroupInv
<1>5. wg' \in 0..N
  <2>1. wg' >= 0
    BY <1>3, <1>4, FS_CardinalityType DEF GroupInv
  <2> QED BY <2>1, PoolAssumption DEF Done, TypeOK
<1>6. LoopInv'
  BY <1>1, <1>2 DEF Done, LoopInv, TypeOK
<1>7. WrittenInv'
  BY <1>1 DEF Done, WrittenInv, TypeOK
<1>8. TypeOK'
  BY <1>1, <1>5 DEF Done, TypeOK
<1> QED BY <1>4, <1>6, <1>7, <1>8

\* In every reachable state of the pool the inductive invariant holds.
THEOREM Invariance == Spec => []IInv
<1>1. IInv /\ UNCHANGED vars => IInv'
  BY DEF vars, IInv, TypeOK, SlotsInv, GroupInv, LoopInv, WrittenInv,
         Holding, NotDone
<1>2. IInv /\ [Next]_vars => IInv'
  BY <1>1, AddToGroupPreserves, LaunchPreserves, LoopEndsPreserves,
     CountPreserves, ProbePreserves, ReleasePreserves, DonePreserves
     DEF Next, Main, Worker, Finished
<1> QED BY InitInv, <1>2, PTL DEF Spec

\* At no time are more probes in flight than the configured concurrency
\* (crawler.go:31, 99-104; sps.go:151-159).
THEOREM InFlightIsCapped == Spec => []InFlightCapped
<1>1. IInv => InFlightCapped
  <2> SUFFICES ASSUME IInv PROVE InFlightCapped
    OBVIOUS
  <2>1. Probing \subseteq Holding
    BY DEF Probing, Holding
  <2>2. Cardinality(Probing) <= Cardinality(Holding)
        /\ Cardinality(Probing) \in Nat
    BY <2>1, SlotsFinite, FS_Subset, FS_CardinalityType
  <2> QED BY <2>2, SlotsFinite, CapacityPositive
          DEF IInv, SlotsInv, TypeOK, InFlightCapped
<1> QED BY <1>1, Invariance, PTL

\* When the results are counted, all of them are written and no goroutine is
\* left (crawler.go:69-74, 116-117).
THEOREM AllAreCollected == Spec => []AllCollected
<1>1. IInv => AllCollected
  BY PoolAssumption
     DEF IInv, TypeOK, LoopInv, WrittenInv, NotDone, AllCollected, Slots
<1> QED BY <1>1, Invariance, PTL
=============================================================================
