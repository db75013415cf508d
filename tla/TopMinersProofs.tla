-------------------------- MODULE TopMinersProofs --------------------------
(***************************************************************************)
(* Proofs about TopMiners, for any index, any page size and any number of  *)
(* miners wanted: IInv is inductive.  A page that does not end the loop is *)
(* full (LoopInv), so that the pages collected join without a gap; the one *)
(* that ends it is cut where enough are collected or the ranking ends.     *)
(***************************************************************************)
EXTENDS TopMiners, SequenceTheorems, TLAPS

\* The pages have at least one entry, and no more than are wanted.
LEMMA PageSizePositive ==
  ASSUME top \in Nat \ {0}
  PROVE  PageSize \in Nat \ {0} /\ PageSize <= top /\ PageSize <= PageCap
BY TopAssumption DEF PageSize, Least

\* The bounds of a page follow each other.
LEMMA NextPageStart ==
  ASSUME NEW p \in Nat, NEW n \in Nat
  PROVE  p * n \in Nat /\ (p + 1) * n = p * n + n
OBVIOUS

\* A ranking is a sequence of miners.
LEMMA RankingIsSeq ==
  ASSUME NEW r \in Rankings
  PROVE  r \in Seq(Miners) /\ Len(r) \in Nat /\ DOMAIN r = 1..Len(r)
BY DEF Rankings

\* A stretch of a sequence: its length and its entries.
LEMMA Stretch ==
  ASSUME NEW S, NEW s \in Seq(S), NEW a \in Nat, NEW b \in Nat,
         a <= b, b <= Len(s)
  PROVE  /\ SubSeq(s, a + 1, b) \in Seq(S)
         /\ Len(SubSeq(s, a + 1, b)) = b - a
         /\ \A i \in 1..b - a : SubSeq(s, a + 1, b)[i] = s[a + i]
<1>1. \A i \in a + 1..b : s[i] \in S
  BY ElementOfSeq
<1> DEFINE t == SubSeq(s, a + 1, b)
<1>2. /\ t \in Seq(S)
      /\ Len(t) = IF a + 1 <= b THEN b - (a + 1) + 1 ELSE 0
      /\ \A i \in 1..b - (a + 1) + 1 : t[i] = s[(a + 1) + i - 1]
  BY <1>1, SubSeqProperties
<1>3. \A i \in 1..b - a : i \in 1..b - (a + 1) + 1 /\ (a + 1) + i - 1 = a + i
  OBVIOUS
<1> QED BY <1>2, <1>3

\* The beginning of a stretch is a stretch.
LEMMA StretchCut ==
  ASSUME NEW S, NEW s \in Seq(S), NEW a \in Nat, NEW b \in Nat, NEW k \in Nat,
         a + k <= b, b <= Len(s)
  PROVE  SubSeq(SubSeq(s, a + 1, b), 1, k) = SubSeq(s, a + 1, a + k)
<1> DEFINE t == SubSeq(s, a + 1, b)
           u == SubSeq(t, 0 + 1, k)
           v == SubSeq(s, a + 1, a + k)
<1>1. /\ t \in Seq(S) /\ Len(t) = b - a
      /\ \A i \in 1..b - a : t[i] = s[a + i]
  BY Stretch
<1>2. /\ u \in Seq(S) /\ Len(u) = k - 0
      /\ \A i \in 1..k - 0 : u[i] = t[0 + i]
  BY <1>1, Stretch
<1>3. /\ v \in Seq(S) /\ Len(v) = a + k - a
      /\ \A i \in 1..a + k - a : v[i] = s[a + i]
  BY Stretch
<1>4. Len(u) = Len(v) /\ \A i \in 1..Len(u) : u[i] = v[i]
  BY <1>1, <1>2, <1>3
<1>5. u = v
  BY <1>2, <1>3, <1>4, SeqEqual
<1> QED BY <1>5

\* Two stretches that meet make one.
LEMMA StretchesMeet ==
  ASSUME NEW S, NEW s \in Seq(S), NEW a \in Nat, NEW b \in Nat,
         a <= b, b <= Len(s)
  PROVE  SubSeq(s, 1, a) \o SubSeq(s, a + 1, b) = SubSeq(s, 1, b)
<1>1. 1 \in 1..Len(s) + 1 /\ a \in 1 - 1..Len(s) /\ b \in a..Len(s)
  BY LenProperties
<1> QED BY <1>1, ConcatAdjacentSubSeq

-----------------------------------------------------------------------------
\* IInv holds before the first page.
LEMMA InitInv == Init => IInv
<1> SUFFICES ASSUME Init PROVE IInv
  OBVIOUS
<1>1. top \in Nat \ {0}
  BY TopAssumption DEF Init, TopOrDefault
<1>2. PageSize \in Nat \ {0}
  BY <1>1, PageSizePositive
<1>3. page * PageSize = 0
  BY <1>2 DEF Init
<1>4. ranking \in Seq(Miners) /\ Len(ranking) \in Nat
  BY RankingIsSeq DEF Init
<1>5. SubSeq(ranking, 1, 0) = <<>> /\ out = <<>> /\ Len(out) = 0
  BY SubSeqEmpty DEF Init
<1>6. TypeOK
  BY <1>1, EmptySeq DEF Init, TypeOK
<1>7. LoopInv
  BY <1>1, <1>3, <1>4, <1>5 DEF LoopInv
<1>8. AtMostTop /\ ResultIsTop
  BY <1>1, <1>5 DEF AtMostTop, ResultIsTop, Init
<1> QED BY <1>6, <1>7, <1>8 DEF IInv

\* The page collected next begins after From and ends with To in the ranking;
\* what is collected of it ends with Upto.
From == page * PageSize
To == Least(From + PageSize, Len(ranking))
Upto == Least(To, top)

\* What a round of the loop collects.
LEMMA PageCollected ==
  ASSUME IInv, FetchPage
  PROVE  /\ From \in Nat /\ To \in Nat /\ Upto \in Nat
         /\ From <= To /\ To <= Len(ranking) /\ From <= Upto
         /\ Len(Page(page)) = To - From
         /\ out' \in Seq(Miners) /\ Len(out') = Upto
         /\ ~moved => out' = SubSeq(ranking, 1, Upto)
<1> USE DEF IInv
<1>1. PageSize \in Nat \ {0} /\ PageSize <= top /\ top \in Nat /\ page \in Nat
  BY PageSizePositive DEF TypeOK
<1>2. From \in Nat /\ (page + 1) * PageSize = From + PageSize
  BY <1>1, NextPageStart DEF From
<1>3. ranking \in Seq(Miners) /\ Len(ranking) \in Nat
  BY RankingIsSeq DEF TypeOK
<1>4. /\ Len(out) = From /\ From < top /\ From <= Len(ranking)
      /\ out \in Seq(Miners)
      /\ ~moved => out = SubSeq(ranking, 1, From)
  BY DEF FetchPage, LoopInv, TypeOK, From
<1>5. /\ To \in Nat /\ From <= To /\ To <= Len(ranking)
      /\ Upto \in Nat /\ From <= Upto /\ Upto <= To /\ Upto <= top
  BY <1>1, <1>2, <1>3, <1>4 DEF To, Upto, Least
<1>6. Page(page) = SubSeq(ranking, From + 1, To)
  BY <1>2 DEF Page, To, From
<1>7. Len(Page(page)) = To - From
  BY <1>2, <1>3, <1>5, <1>6, Stretch
<1>8. Least(Len(Page(page)), top - Len(out)) = Upto - From
  BY <1>1, <1>2, <1>4, <1>5, <1>7 DEF Upto, Least
<1>9. Upto - From \in Nat /\ From + (Upto - From) = Upto
  BY <1>2, <1>5
<1>10. SubSeq(SubSeq(ranking, From + 1, To), 1, Upto - From)
         = SubSeq(ranking, From + 1, From + (Upto - From))
  BY <1>2, <1>3, <1>5, <1>9, StretchCut
<1>11. out' = out \o SubSeq(ranking, From + 1, Upto)
  BY <1>6, <1>8, <1>9, <1>10 DEF FetchPage, Take
<1>12. /\ SubSeq(ranking, From + 1, Upto) \in Seq(Miners)
       /\ Len(SubSeq(ranking, From + 1, Upto)) = Upto - From
  <2>1. Upto <= Len(ranking)
    BY <1>3, <1>5
  <2> QED BY <1>2, <1>3, <1>5, <2>1, Stretch
<1>13. out' \in Seq(Miners) /\ Len(out') = Len(out) + (Upto - From)
  BY <1>4, <1>11, <1>12, ConcatProperties
<1>14. Len(out') = Upto
  BY <1>2, <1>4, <1>5, <1>13
<1>15. ~moved => out' = SubSeq(ranking, 1, Upto)
  <2>1. Upto <= Len(ranking)
    BY <1>3, <1>5
  <2>2. SubSeq(ranking, 1, From) \o SubSeq(ranking, From + 1, Upto)
          = SubSeq(ranking, 1, Upto)
    BY <1>2, <1>3, <1>5, <2>1, StretchesMeet
  <2> QED BY <1>4, <1>11, <2>2
<1> QED BY <1>2, <1>5, <1>7, <1>13, <1>14, <1>15

\* A round of the loop: a full page keeps the pages joined; another one, or
\* enough entries, make the result.
LEMMA FetchPagePreserves == IInv /\ FetchPage => IInv'
<1> SUFFICES ASSUME IInv, FetchPage PROVE IInv'
  OBVIOUS
<1> USE DEF IInv
<1>1. /\ From \in Nat /\ To \in Nat /\ Upto \in Nat
      /\ From <= To /\ To <= Len(ranking) /\ From <= Upto
      /\ Len(Page(page)) = To - From
      /\ out' \in Seq(Miners) /\ Len(out') = Upto
      /\ ~moved => out' = SubSeq(ranking, 1, Upto)
  BY PageCollected
<1>2. /\ PageSize \in Nat \ {0} /\ top \in Nat \ {0} /\ page \in Nat
      /\ Len(ranking) \in Nat /\ PageSize' = PageSize
  BY PageSizePositive, RankingIsSeq DEF TypeOK, FetchPage, PageSize
<1>3. UNCHANGED <<top, ranking, moved>> /\ pc = "fetching"
  BY DEF FetchPage
<1>4. (page + 1) * PageSize = From + PageSize
  BY <1>2, NextPageStart DEF From
<1>5. Upto <= top /\ Upto <= To
  BY <1>1, <1>2 DEF Upto, Least
<1>6. AtMostTop'
  BY <1>1, <1>3, <1>5 DEF AtMostTop
<1>7. TypeOK'
  BY <1>1, <1>2 DEF FetchPage, TypeOK
<1>8. CASE LastPage(Page(page)) \/ Len(out') >= top
  <2>1. pc' = "ok"
    BY <1>8 DEF FetchPage
  <2>2. Upto = Least(top, Len(ranking))
    <3>1. CASE Len(out') >= top
      BY <1>1, <1>2, <1>5, <3>1 DEF Least
    <3>2. CASE LastPage(Page(page))
      <4>1. To - From < PageSize
        BY <1>1, <3>2 DEF LastPage
      <4>2. To = Len(ranking)
        BY <1>1, <1>2, <4>1 DEF To, Least
      <4> QED BY <1>2, <4>2 DEF Upto, Least
    <3> QED BY <1>8, <3>1, <3>2
  <2>3. LoopInv'
    BY <2>1 DEF LoopInv
  <2>4. ResultIsTop'
    BY <1>1, <1>3, <2>2 DEF ResultIsTop
  <2> QED BY <1>6, <1>7, <2>3, <2>4
<1>9. CASE ~(LastPage(Page(page)) \/ Len(out') >= top)
  <2>1. pc' = "fetching" /\ page' = page + 1
    BY <1>9 DEF FetchPage
  <2>2. To - From >= PageSize /\ Upto < top
    BY <1>1, <1>2, <1>9 DEF LastPage
  <2>3. To = From + PageSize /\ Upto = To
    BY <1>1, <1>2, <2>2 DEF To, Upto, Least
  <2>4. (page * PageSize)' = Upto
    BY <1>2, <1>4, <2>1, <2>3 DEF From
  <2>5. LoopInv'
    BY <1>1, <1>2, <1>3, <2>2, <2>3, <2>4 DEF LoopInv
  <2>6. ResultIsTop'
    BY <2>1 DEF ResultIsTop
  <2> QED BY <1>6, <1>7, <2>5, <2>6
<1> QED BY <1>8, <1>9

\* A failed request ends the crawl.
LEMMA FailurePreserves == IInv /\ (PastEndFails \/ FetchFails) => IInv'
BY DEF IInv, PastEndFails, FetchFails, TypeOK, LoopInv, AtMostTop, ResultIsTop

\* The ranking remains a ranking of as many miners, and is known to have moved.
LEMMA OvertakePreserves == IInv /\ Overtake => IInv'
<1> SUFFICES ASSUME IInv, Overtake PROVE IInv'
  OBVIOUS
<1> USE DEF IInv
<1>1. PICK i \in 1..Len(ranking) - 1 :
        ranking' = [ranking EXCEPT ![i] = ranking[i + 1],
                                   ![i + 1] = ranking[i]]
  BY DEF Overtake
<1>2. PICK n \in 0..Cardinality(Miners) :
        ranking \in [1..n -> Miners] /\ IsInjective(ranking)
  BY DEF TypeOK, Rankings
<1>3. n \in Nat /\ Len(ranking) = n /\ i \in 1..n /\ i + 1 \in 1..n
  BY <1>1, <1>2
<1>4. ranking' \in [1..n -> Miners]
  BY <1>1, <1>2, <1>3
<1>5. \A x \in 1..n :
        ranking'[x] = IF x = i THEN ranking[i + 1]
                      ELSE IF x = i + 1 THEN ranking[i] ELSE ranking[x]
  BY <1>1, <1>2, <1>3
<1>6. IsInjective(ranking')
  BY <1>2, <1>3, <1>4, <1>5 DEF IsInjective
<1>7. ranking' \in Rankings
  BY <1>2, <1>4, <1>6 DEF Rankings
<1>8. Len(ranking') = Len(ranking)
  BY <1>3, <1>4
<1>9. TypeOK'
  BY <1>7 DEF Overtake, TypeOK
<1>10. LoopInv'
  BY <1>8 DEF Overtake, LoopInv, PageSize
<1>11. AtMostTop' /\ ResultIsTop'
  BY DEF Overtake, AtMostTop, ResultIsTop
<1> QED BY <1>9, <1>10, <1>11

\* In every reachable state of the crawl the inductive invariant holds.
THEOREM Invariance == Spec => []IInv
<1>1. IInv /\ UNCHANGED vars => IInv'
  BY DEF vars, IInv, TypeOK, LoopInv, AtMostTop, ResultIsTop, PageSize
<1>2. IInv /\ [Next]_vars => IInv'
  BY <1>1, FetchPagePreserves, FailurePreserves, OvertakePreserves
     DEF Next, Finished
<1> QED BY InitInv, <1>2, PTL DEF Spec

\* The result is the top of the ranking, whole and in order, if it stood still:
\* no page is skipped, read twice or cut short (crawler.go:151-188).
THEOREM ResultIsTheTop == Spec => []ResultIsTop
<1>1. IInv => ResultIsTop
  BY DEF IInv
<1> QED BY <1>1, Invariance, PTL

\* Never more addresses than wanted, whatever the index does (crawler.go:188).
THEOREM NeverMoreThanTop == Spec => []AtMostTop
<1>1. IInv => AtMostTop
  BY DEF IInv
<1> QED BY <1>1, Invariance, PTL

\* The loop asks for no page after those that could hold enough, whatever the
\* index does (crawler.go:151-188).
THEOREM RequestsAreBounded == Spec => []RequestsBounded
<1>1. IInv => RequestsBounded
  BY DEF IInv, LoopInv, RequestsBounded
<1> QED BY <1>1, Invariance, PTL
=============================================================================
