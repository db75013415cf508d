---------------------------- MODULE ProberProofs ----------------------------
(***************************************************************************)
(* Proofs about Prober, for any addresses, any number of them and all      *)
(* durations: what the candidates are, and the inductive invariant that    *)
(* the search over them rests on.                                          *)
(***************************************************************************)
EXTENDS Prober, FiniteSetTheorems, TLAPS

-----------------------------------------------------------------------------
(* Members of a sequence picked out by their positions.                    *)

Rank(P, i) == Cardinality({j \in P : j <= i})

\* The ranks of positions are the numbers from 1, and grow with them.
LEMMA Ranks ==
  ASSUME NEW n \in Nat, NEW P \in SUBSET (1..n)
  PROVE  /\ IsFiniteSet(P) /\ Cardinality(P) \in Nat
         /\ \A i \in P : Rank(P, i) \in 1..Cardinality(P)
         /\ \A i, j \in P : i < j => Rank(P, i) < Rank(P, j)
         /\ \A k \in 1..Cardinality(P) : \E i \in P : Rank(P, i) = k
<1> DEFINE Below(i) == {j \in P : j <= i}
<1>1. IsFiniteSet(P) /\ Cardinality(P) \in Nat
  <2>1. IsFiniteSet(1..n)
    BY FS_Interval
  <2>2. IsFiniteSet(P)
    BY <2>1, FS_Subset
  <2> QED BY <2>2, FS_CardinalityType
<1>2. \A i \in P : /\ IsFiniteSet(Below(i)) /\ Cardinality(Below(i)) \in Nat
                   /\ Cardinality(Below(i)) <= Cardinality(P)
                   /\ Cardinality(Below(i)) # 0
  <2> SUFFICES ASSUME NEW i \in P
               PROVE  /\ IsFiniteSet(Below(i)) /\ Cardinality(Below(i)) \in Nat
                      /\ Cardinality(Below(i)) <= Cardinality(P)
                      /\ Cardinality(Below(i)) # 0
    OBVIOUS
  <2>1. Below(i) \in SUBSET P /\ i \in Below(i)
    OBVIOUS
  <2> HIDE DEF Below
  <2> QED BY <1>1, <2>1, FS_Subset, FS_CardinalityType, FS_EmptySet
<1>3. \A i \in P : Rank(P, i) \in 1..Cardinality(P)
  BY <1>1, <1>2 DEF Rank
<1>4. ASSUME NEW i \in P, NEW j \in P, i < j
      PROVE  Rank(P, i) < Rank(P, j)
  <2>1. Below(i) \in SUBSET Below(j) /\ j \in Below(j) /\ j \notin Below(i)
    <3>1. \A x \in P : x \in Int
      OBVIOUS
    <3>2. j \in Below(j) /\ j \notin Below(i)
      BY <1>4, <3>1
    <3>3. ASSUME NEW x \in Below(i)  PROVE x \in Below(j)
      BY <1>4, <3>1
    <3> QED BY <3>2, <3>3
  <2>2. Below(i) # Below(j)
    BY <2>1
  <2>3. Cardinality(Below(i)) <= Cardinality(Below(j))
        /\ Cardinality(Below(i)) # Cardinality(Below(j))
    <3> HIDE DEF Below
    <3> QED BY <1>2, <2>1, <2>2, FS_Subset
  <2> QED BY <1>2, <2>3 DEF Rank
<1> DEFINE f == [i \in P |-> Rank(P, i)]
<1>5. f \in Injection(P, 1..Cardinality(P))
  <2>1. f \in [P -> 1..Cardinality(P)]
    BY <1>3
  <2>2. \A i, j \in P : f[i] = f[j] => i = j
    BY <1>1, <1>3, <1>4
  <2> QED BY <2>1, <2>2 DEF Injection, IsInjective
<1>6. f \in Surjection(P, 1..Cardinality(P))
  <2>1. IsFiniteSet(1..Cardinality(P))
        /\ Cardinality(1..Cardinality(P)) = Cardinality(P)
    BY <1>1, FS_Interval
  <2> QED BY <1>5, <2>1, FS_Injection
<1>7. \A k \in 1..Cardinality(P) : \E i \in P : Rank(P, i) = k
  BY <1>6 DEF Surjection
<1> QED BY <1>1, <1>3, <1>4, <1>7

\* Nth lists the positions in their order.
LEMMA NthListsAll ==
  ASSUME NEW n \in Nat, NEW P \in SUBSET (1..n)
  PROVE  /\ Cardinality(P) \in Nat
         /\ \A k \in 1..Cardinality(P) : Nth(P, k) \in P
         /\ \A j, k \in 1..Cardinality(P) : j < k => Nth(P, j) < Nth(P, k)
         /\ \A i \in P : \E k \in 1..Cardinality(P) : Nth(P, k) = i
<1>1. \A k \in 1..Cardinality(P) : Nth(P, k) \in P /\ Rank(P, Nth(P, k)) = k
  <2> SUFFICES ASSUME NEW k \in 1..Cardinality(P)
               PROVE  Nth(P, k) \in P /\ Rank(P, Nth(P, k)) = k
    OBVIOUS
  <2>1. \E i \in P : Cardinality({j \in P : j <= i}) = k
    BY Ranks DEF Rank
  <2> QED BY <2>1 DEF Nth, Rank
<1>2. ASSUME NEW j \in 1..Cardinality(P), NEW k \in 1..Cardinality(P), j < k
      PROVE  Nth(P, j) < Nth(P, k)
  <2>1. Nth(P, j) \in 1..n /\ Nth(P, k) \in 1..n
    BY <1>1
  <2>2. Nth(P, k) < Nth(P, j) => k < j
    <3>1. \A x, y \in P : x < y => Rank(P, x) < Rank(P, y)
      BY Ranks
    <3> QED BY <1>1, <3>1
  <2>3. Cardinality(P) \in Nat
    BY Ranks
  <2>4. Nth(P, k) # Nth(P, j)
    BY <1>1, <1>2, <2>3
  <2> QED BY <1>2, <2>1, <2>2, <2>3, <2>4
<1>3. ASSUME NEW i \in P
      PROVE  \E k \in 1..Cardinality(P) : Nth(P, k) = i
  <2>1. Rank(P, i) \in 1..Cardinality(P)
    BY Ranks
  <2>2. Nth(P, Rank(P, i)) \in P /\ Rank(P, Nth(P, Rank(P, i))) = Rank(P, i)
    BY <1>1, <2>1
  <2>3. Nth(P, Rank(P, i)) = i
    <3>1. Nth(P, Rank(P, i)) \in 1..n /\ i \in 1..n
      BY <2>2
    <3>2. \A x, y \in P : x < y => Rank(P, x) < Rank(P, y)
      BY Ranks
    <3>3. Rank(P, i) \in Int
      BY <2>1, Ranks
    <3> QED BY <2>2, <3>1, <3>2, <3>3
  <2> QED BY <2>1, <2>3
<1> QED BY <1>1, <1>2, <1>3, Ranks

\* There is a first of any positions.
LEMMA First ==
  ASSUME NEW n \in Nat, NEW P \in SUBSET (1..n), P # {}
  PROVE  \E i \in P : \A j \in P : i <= j
<1>1. 1 \in 1..Cardinality(P)
  <2>1. PICK j \in P : TRUE
    OBVIOUS
  <2>2. Rank(P, j) \in 1..Cardinality(P) /\ Cardinality(P) \in Nat
    BY Ranks
  <2> QED BY <2>2
<1>2. PICK i \in P : Rank(P, i) = 1
  BY <1>1, Ranks
<1>3. \A j \in P : ~(j < i)
  <2>1. /\ \A j \in P : Rank(P, j) \in 1..Cardinality(P)
        /\ \A j \in P : j < i => Rank(P, j) < Rank(P, i)
    BY Ranks
  <2> QED BY <1>2, <2>1
<1> QED BY <1>3

\* What is kept of a sequence is what was at those positions, in that order.
LEMMA Kept ==
  ASSUME NEW S, NEW s \in Seq(S), NEW P \in SUBSET DOMAIN s
  PROVE  /\ Cardinality(P) \in Nat
         /\ Keep(s, P) \in Seq(S) /\ Len(Keep(s, P)) = Cardinality(P)
         /\ DOMAIN Keep(s, P) = 1..Cardinality(P)
         /\ \A k \in 1..Cardinality(P) :
              Nth(P, k) \in P /\ Keep(s, P)[k] = s[Nth(P, k)]
         /\ \A j, k \in 1..Cardinality(P) : j < k => Nth(P, j) < Nth(P, k)
         /\ \A i \in P : \E k \in 1..Cardinality(P) : Nth(P, k) = i
<1>1. Len(s) \in Nat /\ P \in SUBSET (1..Len(s))
  OBVIOUS
<1>2. /\ Cardinality(P) \in Nat
      /\ \A k \in 1..Cardinality(P) : Nth(P, k) \in P
      /\ \A j, k \in 1..Cardinality(P) : j < k => Nth(P, j) < Nth(P, k)
      /\ \A i \in P : \E k \in 1..Cardinality(P) : Nth(P, k) = i
  BY <1>1, NthListsAll
<1>3. Keep(s, P) \in Seq(S) /\ Len(Keep(s, P)) = Cardinality(P)
      /\ DOMAIN Keep(s, P) = 1..Cardinality(P)
  BY <1>1, <1>2 DEF Keep
<1>4. \A k \in 1..Cardinality(P) : Keep(s, P)[k] = s[Nth(P, k)]
  BY DEF Keep
<1> QED BY <1>2, <1>3, <1>4

-----------------------------------------------------------------------------
(* The candidates.                                                         *)

Positions(scheme, addrs) ==
  {i \in DOMAIN addrs : Usable(addrs[i]) /\ Url(addrs[i]).scheme = scheme}

Ranked(addrs) == Of("https", addrs) \o Of("http", addrs)

\* Where on the chain the address comes from that is ranked k-th.
Origin(addrs, k) ==
  LET n == Cardinality(Positions("https", addrs))
  IN IF k <= n THEN Nth(Positions("https", addrs), k)
     ELSE Nth(Positions("http", addrs), k - n)

\* Every usable address is of one of the two schemes.
LEMMA TwoSchemes ==
  ASSUME NEW addrs \in Seq(Addrs)
  PROVE  /\ Positions("https", addrs) \union Positions("http", addrs) =
              {i \in DOMAIN addrs : Usable(addrs[i])}
         /\ Positions("https", addrs) \intersect Positions("http", addrs) = {}
         /\ \A scheme : Positions(scheme, addrs) \in SUBSET DOMAIN addrs
BY DEF Positions, Url

\* One sequence after another.
LEMMA Concatenation ==
  ASSUME NEW S, NEW s \in Seq(S), NEW t \in Seq(S)
  PROVE  /\ s \o t \in Seq(S) /\ Len(s \o t) = Len(s) + Len(t)
         /\ \A k \in 1..Len(s) : (s \o t)[k] = s[k]
         /\ \A k \in Len(s) + 1..Len(s) + Len(t) :
              (s \o t)[k] = t[k - Len(s)]
OBVIOUS

\* Ranking takes every usable address once, https before http, and otherwise
\* leaves them in the order of the chain.
LEMMA Ranking ==
  ASSUME NEW addrs \in Seq(Addrs)
  PROVE  /\ Ranked(addrs) \in Seq(Addrs) /\ Len(Ranked(addrs)) <= Len(addrs)
         /\ \A k \in DOMAIN Ranked(addrs) :
              /\ Origin(addrs, k) \in DOMAIN addrs
              /\ Ranked(addrs)[k] = addrs[Origin(addrs, k)]
              /\ Usable(Ranked(addrs)[k])
         /\ \A i \in DOMAIN addrs : Usable(addrs[i]) =>
              \E k \in DOMAIN Ranked(addrs) : Origin(addrs, k) = i
         /\ \A j, k \in DOMAIN Ranked(addrs) : j < k =>
              \/ /\ Url(Ranked(addrs)[j]).scheme = "https"
                 /\ Url(Ranked(addrs)[k]).scheme = "http"
              \/ /\ Url(Ranked(addrs)[j]).scheme = Url(Ranked(addrs)[k]).scheme
                 /\ Origin(addrs, j) < Origin(addrs, k)
<1> DEFINE A == Positions("https", addrs)
           B == Positions("http", addrs)
           a == Cardinality(A)
           b == Cardinality(B)
<1>1. /\ a \in Nat /\ Of("https", addrs) \in Seq(Addrs)
      /\ Len(Of("https", addrs)) = a
      /\ \A k \in 1..a :
           Nth(A, k) \in A /\ Of("https", addrs)[k] = addrs[Nth(A, k)]
      /\ \A j, k \in 1..a : j < k => Nth(A, j) < Nth(A, k)
      /\ \A i \in A : \E k \in 1..a : Nth(A, k) = i
  <2>1. A \in SUBSET DOMAIN addrs /\ Of("https", addrs) = Keep(addrs, A)
    BY TwoSchemes DEF Of, Positions
  <2> HIDE DEF A
  <2> QED BY <2>1, Kept
<1>2. /\ b \in Nat /\ Of("http", addrs) \in Seq(Addrs)
      /\ Len(Of("http", addrs)) = b
      /\ \A k \in 1..b :
           Nth(B, k) \in B /\ Of("http", addrs)[k] = addrs[Nth(B, k)]
      /\ \A j, k \in 1..b : j < k => Nth(B, j) < Nth(B, k)
      /\ \A i \in B : \E k \in 1..b : Nth(B, k) = i
  <2>1. B \in SUBSET DOMAIN addrs /\ Of("http", addrs) = Keep(addrs, B)
    BY TwoSchemes DEF Of, Positions
  <2> HIDE DEF B
  <2> QED BY <2>1, Kept
<1>3. /\ A \union B = {i \in DOMAIN addrs : Usable(addrs[i])}
      /\ A \intersect B = {} /\ A \in SUBSET DOMAIN addrs
      /\ B \in SUBSET DOMAIN addrs
  BY TwoSchemes
<1>4. /\ \A i \in A : Usable(addrs[i]) /\ Url(addrs[i]).scheme = "https"
      /\ \A i \in B : Usable(addrs[i]) /\ Url(addrs[i]).scheme = "http"
  BY DEF Positions
<1>5. \A k : Origin(addrs, k) = IF k <= a THEN Nth(A, k) ELSE Nth(B, k - a)
  BY DEF Origin
<1>6. DOMAIN addrs = 1..Len(addrs) /\ Len(addrs) \in Nat
  OBVIOUS
<1> HIDE DEF A, B
<1>7. a + b <= Len(addrs)
  <2>1. IsFiniteSet(1..Len(addrs)) /\ Cardinality(1..Len(addrs)) = Len(addrs)
    BY <1>6, FS_Interval
  <2>2. IsFiniteSet(A) /\ IsFiniteSet(B)
    BY <1>3, <1>6, <2>1, FS_Subset
  <2>3. Cardinality(A \intersect B) = 0
    BY <1>3, FS_EmptySet
  <2>4. Cardinality(A \union B) = a + b
    <3>1. Cardinality(A \union B) = a + b - Cardinality(A \intersect B)
      BY <2>2, FS_Union
    <3> QED BY <1>1, <1>2, <2>3, <3>1
  <2>5. A \union B \in SUBSET (1..Len(addrs))
    BY <1>3, <1>6
  <2> QED BY <2>1, <2>4, <2>5, FS_Subset
<1>8. Ranked(addrs) \in Seq(Addrs) /\ Len(Ranked(addrs)) = a + b
  BY <1>1, <1>2, Concatenation DEF Ranked
<1>9. \A k \in 1..a : Ranked(addrs)[k] = addrs[Nth(A, k)]
  BY <1>1, <1>2, Concatenation DEF Ranked
<1>10. \A k \in a + 1..a + b :
         k - a \in 1..b /\ Ranked(addrs)[k] = addrs[Nth(B, k - a)]
  <2>1. \A k \in a + 1..a + b : k - a \in 1..b
    BY <1>1, <1>2
  <2>2. \A k \in a + 1..a + b : Ranked(addrs)[k] = Of("http", addrs)[k - a]
    BY <1>1, <1>2, Concatenation DEF Ranked
  <2> QED BY <1>2, <2>1, <2>2
<1> HIDE DEF a, b
<1>11. ASSUME NEW k \in 1..a + b
       PROVE  /\ Origin(addrs, k) \in DOMAIN addrs
              /\ Ranked(addrs)[k] = addrs[Origin(addrs, k)]
              /\ Usable(Ranked(addrs)[k])
  <2>1. CASE k <= a
    BY <1>1, <1>3, <1>4, <1>5, <1>9, <2>1
  <2>2. CASE ~(k <= a)
    BY <1>1, <1>2, <1>3, <1>4, <1>5, <1>10, <2>2
  <2> QED BY <2>1, <2>2
<1>12. ASSUME NEW i \in A \union B
       PROVE  \E k \in 1..a + b : Origin(addrs, k) = i
  <2>1. CASE i \in A
    <3>1. PICK k \in 1..a : Nth(A, k) = i
      BY <1>1, <2>1
    <3> QED BY <1>1, <1>2, <1>5, <3>1
  <2>2. CASE i \in B
    <3>1. PICK k \in 1..b : Nth(B, k) = i
      BY <1>2, <2>2
    <3>2. k + a \in 1..a + b /\ ~(k + a <= a) /\ (k + a) - a = k
      BY <1>1, <1>2
    <3> QED BY <1>5, <3>1, <3>2
  <2> QED BY <2>1, <2>2
<1>13. ASSUME NEW j \in 1..a + b, NEW k \in 1..a + b, j < k
       PROVE  \/ /\ Url(Ranked(addrs)[j]).scheme = "https"
                 /\ Url(Ranked(addrs)[k]).scheme = "http"
              \/ /\ Url(Ranked(addrs)[j]).scheme = Url(Ranked(addrs)[k]).scheme
                 /\ Origin(addrs, j) < Origin(addrs, k)
  <2>1. \A x \in 1..a : Url(Ranked(addrs)[x]).scheme = "https"
    BY <1>1, <1>4, <1>9
  <2>2. \A x \in a + 1..a + b : Url(Ranked(addrs)[x]).scheme = "http"
    BY <1>2, <1>4, <1>10
  <2>3. CASE k <= a
    BY <1>1, <1>2, <1>5, <1>13, <2>1, <2>3
  <2>4. CASE j <= a /\ ~(k <= a)
    BY <1>1, <1>2, <2>1, <2>2, <2>4
  <2>5. CASE ~(j <= a)
    BY <1>1, <1>2, <1>5, <1>10, <1>13, <2>2, <2>5
  <2> QED BY <1>1, <1>2, <1>13, <2>3, <2>4, <2>5
<1>14. DOMAIN Ranked(addrs) = 1..a + b
  BY <1>8
<1>15. \A i \in DOMAIN addrs : Usable(addrs[i]) => i \in A \union B
  BY <1>3
<1> QED BY <1>7, <1>8, <1>11, <1>12, <1>13, <1>14, <1>15

\* An address with no other for the same URL before it is the first for it.
LEMMA FirstForItsUrl ==
  ASSUME NEW addrs \in Seq(Addrs), NEW i \in DOMAIN addrs, Usable(addrs[i]),
         \A j \in 1..i - 1 :
           ~Usable(addrs[j]) \/ Url(addrs[j]) # Url(addrs[i])
  PROVE  FirstAt(addrs, Url(addrs[i])) = i
<1> DEFINE Is(x) ==
      /\ Usable(addrs[x]) /\ Url(addrs[x]) = Url(addrs[i])
      /\ \A j \in 1..x - 1 : ~Usable(addrs[j]) \/ Url(addrs[j]) # Url(addrs[i])
<1>1. \A x \in DOMAIN addrs : Is(x) => x = i
  <2> SUFFICES ASSUME NEW x \in DOMAIN addrs, Is(x)  PROVE x = i
    OBVIOUS
  <2>1. x \in Nat /\ i \in Nat /\ x >= 1 /\ i >= 1
    OBVIOUS
  <2>2. ~(x < i)
    <3>1. x < i => x \in 1..i - 1
      BY <2>1
    <3> QED BY <3>1
  <2>3. ~(i < x)
    <3>1. i < x => i \in 1..x - 1
      BY <2>1
    <3> QED BY <3>1
  <2> QED BY <2>1, <2>2, <2>3
<1>2. Is(i)
  OBVIOUS
<1>3. FirstAt(addrs, Url(addrs[i])) = CHOOSE x \in DOMAIN addrs : Is(x)
  BY DEF FirstAt
<1> HIDE DEF Is
<1> QED BY <1>1, <1>2, <1>3

\* What httpCandidates returns: no more than there are addresses, the URLs of
\* the usable ones, and in which order.
LEMMA Candidates ==
  ASSUME NEW addrs \in Seq(Addrs)
  PROVE  /\ HttpCandidates(addrs) \in Seq(Urls)
         /\ Len(HttpCandidates(addrs)) <= Len(addrs)
         /\ ToSet(HttpCandidates(addrs)) =
              {Url(a) : a \in {b \in ToSet(addrs) : Usable(b)}}
         /\ \A i, j \in DOMAIN HttpCandidates(addrs) : i < j =>
              \/ /\ HttpCandidates(addrs)[i].scheme = "https"
                 /\ HttpCandidates(addrs)[j].scheme = "http"
              \/ /\ HttpCandidates(addrs)[i].scheme
                      = HttpCandidates(addrs)[j].scheme
                 /\ FirstAt(addrs, HttpCandidates(addrs)[i])
                      < FirstAt(addrs, HttpCandidates(addrs)[j])
<1> DEFINE r == Ranked(addrs)
           n == Len(r)
           urls == [i \in DOMAIN r |-> Url(r[i])]
           D == {i \in DOMAIN urls : NotSeen(urls, i)}
           c == HttpCandidates(addrs)
           from(k) == Origin(addrs, k)
<1>1. /\ r \in Seq(Addrs) /\ n <= Len(addrs)
      /\ \A k \in DOMAIN r : /\ from(k) \in DOMAIN addrs
                             /\ r[k] = addrs[from(k)] /\ Usable(r[k])
      /\ \A i \in DOMAIN addrs :
           Usable(addrs[i]) => \E k \in DOMAIN r : from(k) = i
      /\ \A j, k \in DOMAIN r : j < k =>
           \/ Url(r[j]).scheme = "https" /\ Url(r[k]).scheme = "http"
           \/ Url(r[j]).scheme = Url(r[k]).scheme /\ from(j) < from(k)
  BY Ranking
<1>2. c = Keep(urls, D)
  BY DEF HttpCandidates, Ranked
<1> HIDE DEF r, c, from
<1>3. /\ n \in Nat /\ DOMAIN r = 1..n /\ DOMAIN urls = 1..n
      /\ urls \in Seq(Urls) /\ Len(urls) = n
      /\ Len(addrs) \in Nat /\ DOMAIN addrs = 1..Len(addrs)
  <2>1. n \in Nat /\ DOMAIN r = 1..n
    BY <1>1
  <2>2. \A k \in 1..n : Url(r[k]) \in Urls
    BY <1>1, <2>1 DEF Urls
  <2>3. DOMAIN urls = 1..n /\ urls \in Seq(Urls) /\ Len(urls) = n
    BY <2>1, <2>2
  <2> QED BY <2>1, <2>3
<1>4. \A k \in 1..n : urls[k] = Url(addrs[from(k)])
  BY <1>1, <1>3
<1>5. \A j, k \in 1..n : j < k =>
        \/ urls[j].scheme = "https" /\ urls[k].scheme = "http"
        \/ urls[j].scheme = urls[k].scheme /\ from(j) < from(k)
  BY <1>1, <1>3
<1>6. \A k \in 1..n : k \in D <=> \A j \in 1..k - 1 : urls[j] # urls[k]
  BY <1>3 DEF NotSeen
<1>7. D \in SUBSET DOMAIN urls /\ D \in SUBSET (1..n)
  BY <1>3
<1> HIDE DEF urls, D
<1> DEFINE d == Cardinality(D)
<1>8. /\ d \in Nat /\ c \in Seq(Urls) /\ Len(c) = d /\ DOMAIN c = 1..d
      /\ \A k \in 1..d : Nth(D, k) \in D /\ c[k] = urls[Nth(D, k)]
      /\ \A j, k \in 1..d : j < k => Nth(D, j) < Nth(D, k)
      /\ \A i \in D : \E k \in 1..d : Nth(D, k) = i
  BY <1>2, <1>3, <1>7, Kept
<1> HIDE DEF d, n
<1>9. d <= n
  <2>1. IsFiniteSet(1..n) /\ Cardinality(1..n) = n
    BY <1>3, FS_Interval
  <2> QED BY <1>7, <2>1, FS_Subset DEF d
<1>10. ASSUME NEW i \in 1..n
       PROVE  \E k \in D : urls[k] = urls[i]
  <2> DEFINE P == {k \in 1..n : urls[k] = urls[i]}
  <2>1. P \in SUBSET (1..n) /\ i \in P
    OBVIOUS
  <2>2. PICK k \in P : \A j \in P : k <= j
    <3> HIDE DEF P
    <3> QED BY <1>3, <2>1, First
  <2>3. \A j \in 1..k - 1 : j \in 1..n /\ ~(k <= j)
    BY <1>3, <2>2
  <2>4. k \in D
    BY <1>6, <2>2, <2>3
  <2> QED BY <2>2, <2>4
<1>11. ToSet(c) = {Url(a) : a \in {b \in ToSet(addrs) : Usable(b)}}
  <2>1. ASSUME NEW k \in 1..d
        PROVE  c[k] \in {Url(a) : a \in {b \in ToSet(addrs) : Usable(b)}}
    <3>1. Nth(D, k) \in 1..n /\ c[k] = Url(addrs[from(Nth(D, k))])
      BY <1>4, <1>7, <1>8
    <3>2. addrs[from(Nth(D, k))] \in ToSet(addrs)
          /\ Usable(addrs[from(Nth(D, k))])
      BY <1>1, <1>3, <3>1 DEF ToSet
    <3> QED BY <3>1, <3>2
  <2>2. ASSUME NEW b \in ToSet(addrs), Usable(b)
        PROVE  \E k \in 1..d : c[k] = Url(b)
    <3>1. PICK i \in DOMAIN addrs : b = addrs[i]
      BY DEF ToSet
    <3>2. PICK m \in 1..n : from(m) = i
      BY <1>1, <1>3, <2>2, <3>1
    <3>3. PICK x \in D : urls[x] = urls[m]
      BY <1>10
    <3>4. PICK k \in 1..d : Nth(D, k) = x
      BY <1>8
    <3> QED BY <1>4, <1>8, <3>1, <3>2, <3>3, <3>4
  <2>3. ToSet(c) = {c[k] : k \in 1..d}
    BY <1>8 DEF ToSet
  <2> QED BY <2>1, <2>2, <2>3
<1>12. ASSUME NEW k \in D
       PROVE  FirstAt(addrs, urls[k]) = from(k)
  <2>1. k \in 1..n /\ from(k) \in DOMAIN addrs /\ Usable(addrs[from(k)])
        /\ urls[k] = Url(addrs[from(k)])
    BY <1>1, <1>3, <1>4, <1>7
  <2>2. ASSUME NEW j \in 1..from(k) - 1, Usable(addrs[j]),
               Url(addrs[j]) = urls[k]
        PROVE  FALSE
    <3>1. j \in DOMAIN addrs /\ j < from(k) /\ from(k) \in Nat
      BY <1>3, <2>1
    <3>2. PICK m \in 1..n : from(m) = j
      BY <1>1, <1>3, <2>2, <3>1
    <3>3. urls[m] = urls[k]
      BY <1>4, <2>2, <3>2
    <3>4. ~(m < k)
      <4>1. m < k => m \in 1..k - 1
        BY <1>3, <2>1
      <4> QED BY <1>6, <2>1, <3>3, <4>1
    <3>5. ~(k < m)
      BY <1>5, <2>1, <3>1, <3>2, <3>3
    <3>6. m # k
      BY <3>1, <3>2
    <3> QED BY <1>3, <2>1, <3>4, <3>5, <3>6
  <2> QED BY <2>1, <2>2, FirstForItsUrl
<1>13. ASSUME NEW i \in 1..d, NEW j \in 1..d, i < j
       PROVE  \/ c[i].scheme = "https" /\ c[j].scheme = "http"
              \/ /\ c[i].scheme = c[j].scheme
                 /\ FirstAt(addrs, c[i]) < FirstAt(addrs, c[j])
  <2>1. /\ Nth(D, i) \in D /\ Nth(D, j) \in D /\ Nth(D, i) < Nth(D, j)
        /\ c[i] = urls[Nth(D, i)] /\ c[j] = urls[Nth(D, j)]
    BY <1>8, <1>13
  <2>2. FirstAt(addrs, c[i]) = from(Nth(D, i))
        /\ FirstAt(addrs, c[j]) = from(Nth(D, j))
    BY <1>12, <2>1
  <2> QED BY <1>5, <1>7, <2>1, <2>2
<1>14. Len(c) <= Len(addrs)
  BY <1>1, <1>3, <1>8, <1>9
<1>15. \A i, j \in DOMAIN c : i < j =>
         \/ c[i].scheme = "https" /\ c[j].scheme = "http"
         \/ /\ c[i].scheme = c[j].scheme
            /\ FirstAt(addrs, c[i]) < FirstAt(addrs, c[j])
  BY <1>8, <1>13
<1> QED BY <1>8, <1>11, <1>14, <1>15 DEF c

\* Whatever URL a usable address has, it has a first address.
LEMMA FirstIsAPosition ==
  ASSUME NEW addrs \in Seq(Addrs), NEW i \in DOMAIN addrs, Usable(addrs[i])
  PROVE  FirstAt(addrs, Url(addrs[i])) \in DOMAIN addrs
<1> DEFINE n == Len(addrs)
           P == {j \in 1..n : Usable(addrs[j]) /\ Url(addrs[j]) = Url(addrs[i])}
<1>1. n \in Nat /\ DOMAIN addrs = 1..n
  OBVIOUS
<1>2. P \in SUBSET (1..n) /\ i \in P
  BY <1>1
<1>3. PICK k \in P : \A j \in P : k <= j
  <2> HIDE DEF P, n
  <2> QED BY <1>1, <1>2, First
<1>4. k \in DOMAIN addrs /\ Usable(addrs[k]) /\ Url(addrs[k]) = Url(addrs[i])
  BY <1>1
<1>5. \A j \in 1..k - 1 : ~Usable(addrs[j]) \/ Url(addrs[j]) # Url(addrs[k])
  <2>1. \A j \in 1..k - 1 : j \in 1..n /\ ~(k <= j)
    BY <1>1
  <2> QED BY <1>3, <1>4, <2>1
<1>6. FirstAt(addrs, Url(addrs[k])) = k
  BY <1>4, <1>5, FirstForItsUrl
<1> QED BY <1>4, <1>6

\* No URL is listed twice.
LEMMA EachOnce ==
  ASSUME TypeOK, CandidatesRight
  PROVE  \A i, j \in DOMAIN cands : cands[i] = cands[j] => i = j
<1>1. ASSUME NEW i \in DOMAIN cands, NEW j \in DOMAIN cands, i < j
      PROVE  cands[i] # cands[j]
  <2>1. cands # <<>>
    BY <1>1
  <2>2. cands[i] \in {Url(a) : a \in {b \in ToSet(maddrs) : Usable(b)}}
    BY <2>1 DEF CandidatesRight, ToSet
  <2>3. PICK k \in DOMAIN maddrs :
          Usable(maddrs[k]) /\ cands[i] = Url(maddrs[k])
    BY <2>2 DEF ToSet
  <2>4. FirstAt(maddrs, cands[i]) \in Int
    <3>1. maddrs \in Seq(Addrs) /\ DOMAIN maddrs \subseteq Int
      BY DEF TypeOK
    <3>2. FirstAt(maddrs, cands[i]) \in DOMAIN maddrs
      BY <2>3, <3>1, FirstIsAPosition
    <3> QED BY <3>1, <3>2
  <2>5. \/ cands[i].scheme = "https" /\ cands[j].scheme = "http"
        \/ FirstAt(maddrs, cands[i]) < FirstAt(maddrs, cands[j])
    BY <1>1, <2>1 DEF CandidatesRight
  <2> QED BY <2>4, <2>5
<1>2. DOMAIN cands \subseteq Int
  BY DEF TypeOK
<1> QED BY <1>1, <1>2

\* Products of numbers, which the provers do not multiply by themselves.
LEMMA Products ==
  ASSUME NEW a \in Nat, NEW b \in Nat
  PROVE  a * b \in Nat /\ (a + 1) * b = a * b + b
OBVIOUS

LEMMA MoreOfThem ==
  ASSUME NEW a \in Nat, NEW b \in Nat, NEW c \in Nat, a <= c
  PROVE  a * b <= c * b
OBVIOUS

-----------------------------------------------------------------------------
(* IInv is inductive.                                                      *)

\* It holds before the chain is asked.
LEMMA InitInv == Init => IInv
<1> SUFFICES ASSUME Init PROVE IInv
  OBVIOUS
<1> USE ProberAssumption
<1>1. cands = <<>> /\ DOMAIN cands = {} /\ Len(cands) = 0 /\ cands \in Seq(Urls)
  BY DEF Init
<1>2. maddrs \in Seq(Addrs) /\ Len(maddrs) \in Nat /\ Len(maddrs) <= MaxAddrs
  <2>1. PICK m \in 0..MaxAddrs : maddrs \in [1..m -> Addrs]
    BY DEF Init, BoundedSeq, SeqOf
  <2> QED BY <2>1
<1>3. speaks = <<>> /\ DOMAIN speaks = {}
  BY DEF Init
<1>4. TypeOK
  <2>1. cap \in Capabilities
    BY DEF Init, Unknown, Capabilities
  <2>2. Range(speaks) \subseteq BOOLEAN
    BY <1>3 DEF Range
  <2>3. err \in BOOLEAN /\ ctxDone \in BOOLEAN /\ hiccup \in BOOLEAN
    BY DEF Init
  <2>4. /\ pc = "info" /\ at = 1 /\ call = "products" /\ reply = "none"
        /\ spent = 0 /\ since = 0 /\ elapsed = 0 /\ errors = {}
    BY DEF Init
  <2> QED BY <1>1, <1>2, <1>3, <2>1, <2>2, <2>3, <2>4 DEF TypeOK, Replies
<1>5. CandidatesRight
  BY <1>1 DEF CandidatesRight
<1>6. EmptyInv
  BY DEF Init, EmptyInv
<1>7. SearchInv
  BY <1>1, <1>3 DEF Init, SearchInv, Unknown
<1>8. CallInv
  BY DEF Init, CallInv
<1>9. VainInv
  BY <1>1 DEF VainInv, ToSet
<1>10. TimeInv
  <2>1. 2 * Timeout \in Nat /\ (Len(cands) + 2) * Timeout = 2 * Timeout
    BY <1>1
  <2> QED BY <2>1 DEF Init, TimeInv, ReturnsInTime
<1>11. LatencyIsItsOwn
  BY DEF Init, Unknown, LatencyIsItsOwn
<1> QED BY <1>4, <1>5, <1>6, <1>7, <1>8, <1>9, <1>10, <1>11 DEF IInv

\* The probe ends before it has candidates.
LEMMA FailAtOncePreserves ==
  ASSUME IInv, NEW stage \in Stages \ {"new_client", "products"},
         FailAtOnce(stage)
  PROVE  IInv'
<1> USE ProberAssumption DEF IInv
<1>1. /\ pc = "info" /\ pc' = "returned" /\ err' = TRUE
      /\ errors' = {Error(stage, NoUrl)}
      /\ UNCHANGED <<maddrs, cands, at, call, reply, spent, since, elapsed,
                     speaks, hiccup, cap, ctxDone>>
  BY DEF FailAtOnce, chain, calling, history
<1>2. /\ cands = <<>> /\ cap = Unknown /\ speaks = <<>> /\ at = 1
      /\ call = "products" /\ elapsed = 0 /\ DOMAIN cands = {}
      /\ DOMAIN speaks = {}
  BY <1>1 DEF EmptyInv
<1>3. \A e \in errors' : e.stage = stage
  BY <1>1 DEF Error
<1>4. TypeOK'
  <2>1. errors' \subseteq [stage : Stages, url : Urls \union {NoUrl}]
    BY <1>1 DEF Error
  <2> QED BY <1>1, <2>1 DEF TypeOK
<1>5. CandidatesRight'
  BY <1>1, <1>2 DEF CandidatesRight
<1>6. EmptyInv'
  BY <1>1, <1>2, <1>3 DEF EmptyInv
<1>7. SearchInv'
  BY <1>1, <1>2, <1>3 DEF SearchInv, Unknown
<1>8. CallInv'
  BY <1>1 DEF CallInv
<1>9. VainInv'
  BY <1>1, <1>2 DEF VainInv, ToSet
<1>10. TimeInv' /\ LatencyIsItsOwn'
  BY <1>1 DEF TimeInv, ReturnsInTime, LatencyIsItsOwn
<1> QED BY <1>4, <1>5, <1>6, <1>7, <1>8, <1>9, <1>10

\* The candidates are made.
LEMMA ResolvePreserves == IInv /\ Resolve => IInv'
<1> SUFFICES ASSUME IInv, Resolve PROVE IInv'
  OBVIOUS
<1> USE ProberAssumption DEF IInv
<1>1. /\ pc = "info" /\ pc' = "ask" /\ ~err
      /\ cands' = HttpCandidates(maddrs) /\ cands' # <<>>
      /\ UNCHANGED <<maddrs, at, call, reply, spent, since, elapsed, speaks,
                     hiccup, cap, errors, err, ctxDone>>
  BY DEF Resolve, EmptyInv, calling, history, report
<1>2. /\ cap = Unknown /\ speaks = <<>> /\ DOMAIN speaks = {} /\ at = 1
      /\ call = "products" /\ elapsed = 0
      /\ \A e \in errors : e.stage \notin {"new_client", "products"}
  BY <1>1 DEF EmptyInv
<1>3. /\ cands' \in Seq(Urls) /\ Len(cands') <= Len(maddrs)
      /\ Len(cands') \in Nat /\ DOMAIN cands' = 1..Len(cands')
      /\ 1 \in DOMAIN cands'
  <2>1. cands' \in Seq(Urls) /\ Len(cands') <= Len(maddrs)
    BY <1>1, Candidates DEF TypeOK
  <2> QED BY <1>1, <2>1
<1>4. TypeOK'
  BY <1>1, <1>2, <1>3 DEF TypeOK
<1>5. CandidatesRight'
  <2>1. maddrs \in Seq(Addrs)
    BY DEF TypeOK
  <2> QED BY <1>1, <2>1, Candidates DEF CandidatesRight
<1>6. EmptyInv'
  BY <1>1, <1>2 DEF EmptyInv
<1>7. SearchInv'
  <2>1. /\ pc' = "ask" /\ at' = 1 /\ call' = "products" /\ errors' = errors
        /\ cap'.mk20 = FALSE /\ DOMAIN speaks' = {}
    BY <1>1, <1>2 DEF Unknown
  <2>2. \A j \in DOMAIN cands' : ~(j < at')
    BY <1>3, <2>1
  <2> QED BY <1>2, <2>1, <2>2 DEF SearchInv
<1>8. CallInv'
  BY <1>1 DEF CallInv
<1>9. VainInv'
  BY <1>1, <1>2 DEF VainInv, PassedOver
<1>10. TimeInv'
  <2>1. CallsBefore' = 0 /\ spent \in Nat
    BY <1>1, <1>2 DEF CallsBefore, TypeOK
  <2>2. (Len(cands') + 2) * Timeout \in Nat
    <3> DEFINE n == Len(cands') + 2
    <3>1. n \in Nat
      BY <1>3
    <3> HIDE DEF n
    <3>2. n * Timeout \in Nat
      BY <3>1, Products
    <3> QED BY <3>2 DEF n
  <2>3. elapsed' = 0 /\ elapsed' <= CallsBefore' * Timeout + spent'
    BY <1>1, <1>2, <2>1
  <2>4. ReturnsInTime'
    BY <2>2, <2>3 DEF ReturnsInTime
  <2> QED BY <2>3, <2>4 DEF TimeInv
<1>11. LatencyIsItsOwn'
  BY <1>1 DEF LatencyIsItsOwn
<1> QED BY <1>4, <1>5, <1>6, <1>7, <1>8, <1>9, <1>10, <1>11

\* While the candidates are asked, `at` is the place of one of them.
LEMMA BaseIsACandidate ==
  ASSUME TypeOK, pc # "info", ~err
  PROVE  /\ at \in DOMAIN cands /\ Base \in Urls /\ Base \in ToSet(cands)
         /\ at \in Nat \ {0} /\ at <= Len(cands) /\ Len(cands) \in Nat
         /\ DOMAIN cands = 1..Len(cands)
BY DEF TypeOK, Base, ToSet

\* Calls of one more timeout, and never more than two beyond the candidates.
LEMMA CallsCost ==
  ASSUME IInv, pc \in {"ask", "asking"}
  PROVE  /\ CallsBefore \in Nat
         /\ CallsBefore * Timeout \in Nat
         /\ (CallsBefore + 1) * Timeout = CallsBefore * Timeout + Timeout
         /\ CallsBefore * Timeout + Timeout <= (Len(cands) + 2) * Timeout
<1>1. at \in Nat \ {0} /\ at <= Len(cands) /\ Len(cands) \in Nat
  BY BaseIsACandidate DEF IInv, EmptyInv
<1>2. CallsBefore \in Nat /\ CallsBefore + 1 <= Len(cands) + 2
  <2>1. call \in {"products", "sources", "contracts"}
    BY DEF IInv, TypeOK
  <2> QED BY <1>1, <2>1 DEF CallsBefore
<1> DEFINE c == CallsBefore
           n == Len(cands) + 2
<1>3. c \in Nat /\ c + 1 \in Nat /\ n \in Nat /\ c + 1 <= n
  BY <1>1, <1>2
<1> HIDE DEF c, n
<1>4. Timeout \in Nat
  BY ProberAssumption
<1>5. c * Timeout \in Nat /\ (c + 1) * Timeout = c * Timeout + Timeout
  BY <1>3, <1>4, Products
<1>6. (c + 1) * Timeout <= n * Timeout
  BY <1>3, <1>4, MoreOfThem, Zenon
<1> QED BY <1>3, <1>5, <1>6 DEF c, n

\* A candidate is passed over, with its error in the report.
LEMMA PassOverPreserves ==
  ASSUME IInv, NEW stage \in {"new_client", "products"},
         pc \in {"ask", "asking"}, call = "products",
         errors' = errors \union {Error(stage, Base)}, NextCandidate,
         UNCHANGED <<chain, call, history, cap, err, ctxDone>>,
         ~ctxDone /\ ~hiccup =>
           Base.host \in BadHosts \/ (Base \in DOMAIN speaks /\ ~speaks[Base])
  PROVE  IInv'
<1> USE ProberAssumption DEF IInv
<1>1. /\ reply' = "none" /\ spent' = 0 /\ since' = 0
      /\ UNCHANGED <<maddrs, cands, call, elapsed, speaks, hiccup, cap, err,
                     ctxDone>>
  BY DEF NextCandidate, EndCall, chain, history
<1>2. /\ at < Len(cands) => pc' = "ask" /\ at' = at + 1
      /\ ~(at < Len(cands)) => pc' = "returned" /\ at' = at
  BY DEF NextCandidate
<1>3. ~err
  BY DEF EmptyInv
<1>4. /\ at \in DOMAIN cands /\ Base \in Urls /\ Base = cands[at]
      /\ at \in Nat \ {0} /\ at <= Len(cands) /\ Len(cands) \in Nat
      /\ DOMAIN cands = 1..Len(cands)
  BY <1>3, BaseIsACandidate DEF Base
<1>5. pc' \in {"ask", "returned"} /\ at <= at' /\ at' \in DOMAIN cands
      /\ at' \in Nat \ {0}
  BY <1>2, <1>4
<1>6. \A u : PassedOver(u) => PassedOver(u)'
  BY DEF PassedOver
<1>7. \A u : u = Base => PassedOver(u)'
  <2>1. /\ Error(stage, Base) \in errors'
        /\ Error(stage, Base).stage = stage /\ Error(stage, Base).url = Base
    BY DEF Error
  <2> QED BY <2>1 DEF PassedOver
<1>8. \A u : PassedOver(u)' => PassedOver(u) \/ u = Base
  BY DEF PassedOver, Error
<1>9. TypeOK'
  <2>1. errors' \subseteq [stage : Stages, url : Urls \union {NoUrl}]
    BY <1>4 DEF Error, TypeOK, Stages
  <2>2. spent' \in 0..Timeout /\ since' \in Nat /\ elapsed' \in Nat
    BY <1>1 DEF TypeOK
  <2>3. err' \in BOOLEAN /\ ctxDone' \in BOOLEAN /\ hiccup' \in BOOLEAN
    BY <1>1 DEF TypeOK
  <2>4. /\ (DOMAIN speaks \subseteq ToSet(cands))'
        /\ (Range(speaks) \subseteq BOOLEAN)'
    BY <1>1 DEF TypeOK
  <2>5. /\ (maddrs \in Seq(Addrs) /\ Len(maddrs) <= MaxAddrs)'
        /\ (cands \in Seq(Urls) /\ Len(cands) <= Len(maddrs))'
        /\ (call \in {"products", "sources", "contracts"})'
        /\ (cap \in Capabilities)'
    BY <1>1 DEF TypeOK, Capabilities
  <2>6. /\ (pc \in {"info", "ask", "asking", "returned"})'
        /\ (reply \in Replies \union {"lost"})'
        /\ (at \in Nat \ {0} /\ (pc # "info" /\ ~err => at \in DOMAIN cands))'
    BY <1>1, <1>5 DEF Replies
  <2> QED BY <2>1, <2>2, <2>3, <2>4, <2>5, <2>6 DEF TypeOK
<1>10. CandidatesRight'
  BY <1>1 DEF CandidatesRight
<1>11. EmptyInv'
  BY <1>1, <1>3, <1>5 DEF EmptyInv
<1>12. SearchInv'
  <2>1. \A j \in DOMAIN cands : j < at' => PassedOver(cands[j])'
    <3> SUFFICES ASSUME NEW j \in DOMAIN cands, j < at'
                 PROVE  PassedOver(cands[j])'
      OBVIOUS
    <3>1. j < at \/ j = at
      BY <1>2, <1>4
    <3>2. PassedOver(cands[j]) \/ cands[j] = Base
      BY <1>4, <3>1 DEF SearchInv
    <3>3. \A u : PassedOver(u) \/ u = Base => PassedOver(u)'
      BY <1>6, <1>7
    <3>4. \A u : u = cands[j] => PassedOver(u)'
      BY <3>2, <3>3
    <3> QED BY <1>1, <3>4
  <2>2. ASSUME NEW e \in errors', e.stage \in {"new_client", "products"}
        PROVE  \E j \in DOMAIN cands :
                 /\ e.url = cands[j]
                 /\ j < at' \/ (j = at' /\ pc' = "returned" /\ ~cap.mk20)
    <3>1. ~cap.mk20
      BY DEF SearchInv
    <3>2. CASE e \in errors
      <4>1. PICK j \in DOMAIN cands :
              /\ e.url = cands[j]
              /\ j < at \/ (j = at /\ pc = "returned" /\ ~cap.mk20)
        BY <2>2, <3>2 DEF SearchInv
      <4>2. j < at'
        BY <1>4, <1>5, <4>1
      <4> QED BY <4>1, <4>2
    <3>3. CASE e = Error(stage, Base)
      <4>1. e.url = cands[at]
        BY <1>4, <3>3 DEF Error
      <4>2. at < at' \/ (at = at' /\ pc' = "returned")
        BY <1>2, <1>4
      <4> QED BY <1>4, <3>1, <4>1, <4>2
    <3> QED BY <3>2, <3>3
  <2>3. \A u \in DOMAIN speaks :
          \E j \in DOMAIN cands : j <= at' /\ u = cands[j]
    <3> SUFFICES ASSUME NEW u \in DOMAIN speaks
                 PROVE  \E j \in DOMAIN cands : j <= at' /\ u = cands[j]
      OBVIOUS
    <3>1. PICK j \in DOMAIN cands : j <= at /\ u = cands[j]
      BY DEF SearchInv
    <3>2. j <= at'
      BY <1>4, <1>5, <3>1
    <3> QED BY <3>1, <3>2
  <2>4. /\ (cap.mk20 = (call # "products"))' /\ ~cap'.mk20
    BY <1>1 DEF SearchInv
  <2>5. pc' = "returned" => at' = Len(cands) /\ PassedOver(cands[at])'
    <3> SUFFICES ASSUME pc' = "returned"
                 PROVE  at' = Len(cands) /\ PassedOver(cands[at])'
      OBVIOUS
    <3>1. at' = Len(cands) /\ at' = at
      BY <1>2, <1>4
    <3>2. cands'[at'] = Base
      BY <1>1, <1>4, <3>1
    <3> QED BY <1>7, <3>1, <3>2
  <2> QED BY <1>1, <2>1, <2>2, <2>3, <2>4, <2>5 DEF SearchInv
<1>13. CallInv'
  BY <1>1, <1>5 DEF CallInv
<1>14. VainInv'
  BY <1>1, <1>8 DEF VainInv
<1>15. TimeInv'
  <2>1. ReturnsInTime'
    BY <1>1 DEF TimeInv, ReturnsInTime
  <2>2. ASSUME pc' = "ask"
        PROVE  elapsed' <= CallsBefore' * Timeout + spent'
    <3>1. CallsBefore' = CallsBefore + 1
      BY <1>1, <1>2, <1>4, <2>2 DEF CallsBefore
    <3>2. elapsed <= CallsBefore * Timeout + spent
      BY DEF TimeInv
    <3>3. spent \in Nat /\ spent <= Timeout /\ elapsed \in Nat
      BY DEF TypeOK
    <3>4. CallsBefore * Timeout \in Nat
          /\ CallsBefore' * Timeout = CallsBefore * Timeout + Timeout
      BY <3>1, CallsCost
    <3> QED BY <1>1, <3>2, <3>3, <3>4
  <2> QED BY <1>5, <2>1, <2>2 DEF TimeInv
<1>16. LatencyIsItsOwn'
  BY <1>1 DEF LatencyIsItsOwn
<1> QED BY <1>9, <1>10, <1>11, <1>12, <1>13, <1>14, <1>15, <1>16

\* A client cannot be made for a candidate.
LEMMA NewClientFailsPreserves == IInv /\ NewClientFails => IInv'
<1> SUFFICES ASSUME IInv, NewClientFails PROVE IInv'
  OBVIOUS
<1>1. errors' = errors \union {Error("new_client", Base)}
  BY DEF NewClientFails
<1> QED BY <1>1, PassOverPreserves DEF NewClientFails

\* A candidate's products cannot be had: it does not have them, or something
\* came between.
LEMMA ProductsFailPreserves == IInv /\ ProductsFail => IInv'
<1> SUFFICES ASSUME IInv, ProductsFail PROVE IInv'
  OBVIOUS
<1> USE ProberAssumption
<1>1. ASSUME ~ctxDone, ~hiccup
      PROVE  Base \in DOMAIN speaks /\ ~speaks[Base]
  <2>1. /\ pc = "asking" /\ call = "products"
        /\ reply \in {"404", "500", "lost"} \/ spent >= Timeout
    BY <1>1 DEF ProductsFail, CallFails
  <2>2. reply # "lost"
    BY <1>1 DEF IInv, CallInv
  <2>3. Base \in DOMAIN speaks /\ speaks[Base] = (reply \in Accepted)
    BY <2>1, <2>2 DEF IInv, CallInv
  <2>4. reply \notin Accepted
    <3>1. reply \notin {"none", "lost"} => spent <= Delay
      BY DEF IInv, CallInv
    <3>2. spent \in Nat
      BY DEF IInv, TypeOK
    <3>3. reply \in {"404", "500", "none"}
      BY <2>1, <2>2, <3>1, <3>2
    <3> QED BY <3>3 DEF Accepted
  <2> QED BY <2>3, <2>4
<1>2. pc \in {"ask", "asking"}
  BY DEF ProductsFail, CallFails
<1> QED BY <1>1, <1>2, PassOverPreserves DEF ProductsFail

\* The candidate that is asked was not passed over before.
LEMMA BaseIsNew ==
  ASSUME IInv, pc \in {"ask", "asking"}
  PROVE  ~PassedOver(Base)
<1>1. /\ at \in DOMAIN cands /\ Base = cands[at] /\ at \in Int
      /\ \A i, j \in DOMAIN cands : cands[i] = cands[j] => i = j
  BY BaseIsACandidate, EachOnce DEF IInv, EmptyInv, Base
<1>2. \A e \in errors : e.stage \in {"new_client", "products"} =>
        \E j \in DOMAIN cands : e.url = cands[j] /\ j < at
  BY DEF IInv, SearchInv
<1> QED BY <1>1, <1>2 DEF PassedOver

\* A request goes out; that of a candidate for its products says what it is.
LEMMA AskPreserves == IInv /\ Ask => IInv'
<1> SUFFICES ASSUME IInv, Ask PROVE IInv'
  OBVIOUS
<1> USE ProberAssumption DEF IInv
<1>1. /\ pc = "ask" /\ pc' = "asking" /\ ~ctxDone
      /\ UNCHANGED <<maddrs, cands, at, call, spent, since, elapsed, cap,
                     errors, err, ctxDone, hiccup>>
  BY DEF Ask, chain, report
<1>2. /\ reply' \in Replies
      /\ call = "products" =>
           /\ DOMAIN speaks' = DOMAIN speaks \union {Base}
           /\ speaks'[Base] = (reply' \in Accepted)
           /\ \A u \in DOMAIN speaks \ {Base} : speaks'[u] = speaks[u]
      /\ call # "products" => speaks' = speaks
  BY DEF Ask
<1>3. /\ at \in DOMAIN cands /\ Base \in ToSet(cands) /\ Base = cands[at]
      /\ Base' = Base /\ at \in Nat
  BY <1>1, BaseIsACandidate DEF EmptyInv, Base
<1>4. \A u : PassedOver(u)' <=> PassedOver(u)
  BY <1>1 DEF PassedOver
<1>5. TypeOK'
  <2>1. DOMAIN speaks' \subseteq ToSet(cands')
    BY <1>1, <1>2, <1>3 DEF TypeOK
  <2>2. \A u \in DOMAIN speaks' : speaks'[u] \in BOOLEAN
    <3>1. \A u \in DOMAIN speaks : speaks[u] \in BOOLEAN
      BY DEF TypeOK, Range
    <3>2. CASE call = "products"
      <4> SUFFICES ASSUME NEW u \in DOMAIN speaks'
                   PROVE  speaks'[u] \in BOOLEAN
        OBVIOUS
      <4>1. CASE u = Base
        <5>1. speaks'[Base] = (reply' \in Accepted)
          BY <1>2, <3>2
        <5>2. (reply' \in Accepted) \in BOOLEAN
          OBVIOUS
        <5> QED BY <4>1, <5>1, <5>2, Zenon
      <4>2. CASE u # Base
        BY <1>2, <3>1, <3>2, <4>2, Zenon
      <4> QED BY <4>1, <4>2
    <3>3. CASE call # "products"
      BY <1>2, <3>1, <3>3, Zenon
    <3> QED BY <3>2, <3>3
  <2>3. Range(speaks') \subseteq BOOLEAN
    BY <2>2, Zenon DEF Range
  <2>4. /\ pc' \in {"info", "ask", "asking", "returned"}
        /\ reply' \in Replies \union {"lost"}
    BY <1>1, <1>2
  <2> QED BY <1>1, <2>1, <2>3, <2>4 DEF TypeOK
<1>6. CandidatesRight'
  BY <1>1 DEF CandidatesRight
<1>7. EmptyInv'
  BY <1>1 DEF EmptyInv
<1>8. SearchInv'
  <2>1. \A u \in DOMAIN speaks' : u \in DOMAIN speaks \/ u = cands[at]
    BY <1>2, <1>3
  <2>2. \A u \in DOMAIN speaks' :
          \E j \in DOMAIN cands : j <= at /\ u = cands[j]
    BY <1>3, <2>1 DEF SearchInv
  <2> QED BY <1>1, <2>2, <1>4 DEF SearchInv
<1>9. CallInv'
  <2>1. spent = 0 /\ (call = "products" => since = spent)
    BY <1>1 DEF CallInv
  <2>2. reply' # "lost"
    BY <1>2 DEF Replies
  <2>3. call' = "products" =>
          /\ Base' \in DOMAIN speaks'
          /\ speaks'[Base'] = (reply' \in Accepted)
    BY <1>1, <1>2, <1>3, Zenon
  <2> QED BY <1>1, <2>1, <2>2, <2>3 DEF CallInv
<1>10. VainInv'
  <2> SUFFICES ASSUME ~ctxDone, ~hiccup,
                      NEW u \in ToSet(cands), PassedOver(u)
               PROVE  u.host \in BadHosts \/ (u \in DOMAIN speaks' /\ ~speaks'[u])
    BY <1>1, <1>4 DEF VainInv
  <2>1. u.host \in BadHosts \/ (u \in DOMAIN speaks /\ ~speaks[u])
    BY DEF VainInv
  <2>2. u # Base
    BY <1>1, BaseIsNew
  <2> QED BY <1>2, <2>1, <2>2
<1>11. TimeInv'
  <2>1. CallsBefore' = CallsBefore
    BY <1>1 DEF CallsBefore
  <2> QED BY <1>1, <2>1 DEF TimeInv, ReturnsInTime
<1>12. LatencyIsItsOwn'
  BY <1>1 DEF LatencyIsItsOwn
<1> QED BY <1>5, <1>6, <1>7, <1>8, <1>9, <1>10, <1>11, <1>12

\* The next call for the candidate that was found is one call further.
LEMMA OneCallFurther ==
  ASSUME IInv, pc \in {"ask", "asking"}, CallsBefore' = CallsBefore + 1,
         spent' = 0, UNCHANGED <<elapsed, cands>>
  PROVE  TimeInv'
<1>1. elapsed <= CallsBefore * Timeout + spent
  BY DEF IInv, TimeInv
<1>2. spent \in Nat /\ spent <= Timeout /\ elapsed \in Nat /\ Timeout \in Nat
  BY ProberAssumption DEF IInv, TypeOK
<1>3. CallsBefore * Timeout \in Nat
      /\ CallsBefore' * Timeout = CallsBefore * Timeout + Timeout
  BY CallsCost
<1>4. ReturnsInTime'
  BY DEF IInv, TimeInv, ReturnsInTime
<1> QED BY <1>1, <1>2, <1>3, <1>4 DEF TimeInv

\* A candidate has the products: it is the one that was looked for.
LEMMA ProductsWorkPreserves == IInv /\ ProductsWork => IInv'
<1> SUFFICES ASSUME IInv, ProductsWork PROVE IInv'
  OBVIOUS
<1> USE ProberAssumption DEF IInv
<1>1. /\ pc = "asking" /\ call = "products" /\ reply \in Accepted
      /\ pc' = "ask" /\ call' = "sources" /\ since' = 0 /\ reply' = "none"
      /\ spent' = 0
      /\ UNCHANGED <<maddrs, cands, at, elapsed, speaks, hiccup, errors, err,
                     ctxDone>>
  BY DEF ProductsWork, CallWorks, EndCall, chain, history
<1>2. /\ at \in DOMAIN cands /\ Base \in Urls /\ Base = cands[at] /\ at \in Nat
      /\ ~err
  BY <1>1, BaseIsACandidate DEF EmptyInv, Base
<1>3. /\ cap' \in Capabilities /\ cap'.mk20 = TRUE /\ cap'.base = Base
      /\ cap'.latency = since
  BY <1>2 DEF ProductsWork, TypeOK, Capabilities, ListOf
<1>4. \A u : PassedOver(u)' <=> PassedOver(u)
  BY <1>1 DEF PassedOver
<1>5. TypeOK'
  BY <1>1, <1>3 DEF TypeOK, Replies
<1>6. CandidatesRight'
  BY <1>1 DEF CandidatesRight
<1>7. EmptyInv'
  BY <1>1, <1>2 DEF EmptyInv
<1>8. SearchInv'
  <2>1. \A e \in errors : e.stage \in {"new_client", "products"} =>
          \E j \in DOMAIN cands : e.url = cands[j] /\ j < at
    BY <1>1 DEF SearchInv
  <2>2. (cap.mk20 = (call # "products"))'
    BY <1>1, <1>3
  <2> QED BY <1>1, <1>2, <1>3, <1>4, <2>1, <2>2 DEF SearchInv
<1>9. CallInv'
  BY <1>1 DEF CallInv
<1>10. VainInv'
  BY <1>1, <1>4 DEF VainInv
<1>11. TimeInv'
  <2>1. CallsBefore' = CallsBefore + 1
    BY <1>1, <1>2 DEF CallsBefore
  <2> QED BY <1>1, <2>1, OneCallFurther
<1>12. LatencyIsItsOwn'
  <2>1. reply \notin {"none", "lost"} /\ since = spent
    BY <1>1 DEF Accepted, CallInv
  <2> QED BY <1>3, <2>1 DEF CallInv, LatencyIsItsOwn
<1> QED BY <1>5, <1>6, <1>7, <1>8, <1>9, <1>10, <1>11, <1>12

\* What a best-effort call changes in the report: neither the endpoint that was
\* found, nor who was passed over.
LEMMA BestEffort ==
  ASSUME IInv, call \in {"sources", "contracts"}, Sources \/ Contracts
  PROVE  /\ pc \in {"ask", "asking"} /\ ~err /\ cap.mk20
         /\ cap' \in Capabilities /\ cap'.mk20 = cap.mk20
         /\ cap'.base = cap.base /\ cap'.latency = cap.latency
         /\ errors' \subseteq [stage : Stages, url : Urls \union {NoUrl}]
         /\ \A e \in errors' : e \in errors
              \/ e.stage \notin {"new_client", "products"}
         /\ errors \subseteq errors'
<1> USE DEF IInv
<1>1. pc \in {"ask", "asking"}
  BY DEF Sources, Contracts, CallWorks, CallFails
<1>2. ~err /\ cap.mk20
  BY <1>1 DEF EmptyInv, SearchInv
<1>3. Base \in Urls
  BY <1>1, <1>2, BaseIsACandidate
<1>4. /\ cap' \in Capabilities /\ cap'.mk20 = cap.mk20
      /\ cap'.base = cap.base /\ cap'.latency = cap.latency
  <2>1. cap \in Capabilities
    BY DEF TypeOK
  <2>2. \/ cap' = cap
        \/ cap' = [cap EXCEPT !.sources = ListOf(reply)]
        \/ cap' = [cap EXCEPT !.contracts = ListOf(reply)]
    BY DEF Sources, Contracts
  <2> QED BY <2>1, <2>2 DEF Capabilities, ListOf
<1>5. \/ errors' = errors
      \/ errors' = errors \union {Error("sources", Base)}
      \/ errors' = errors \union {Error("contracts", Base)}
  BY DEF Sources, Contracts
<1>6. errors' \subseteq [stage : Stages, url : Urls \union {NoUrl}]
  BY <1>3, <1>5 DEF Error, TypeOK, Stages
<1>7. errors \subseteq errors'
      /\ \A e \in errors' : e \in errors
           \/ e.stage \notin {"new_client", "products"}
  BY <1>5 DEF Error
<1> QED BY <1>1, <1>2, <1>4, <1>6, <1>7

\* The sources of the endpoint that was found are asked for, best effort.
LEMMA SourcesPreserves == IInv /\ Sources => IInv'
<1> SUFFICES ASSUME IInv, Sources PROVE IInv'
  OBVIOUS
<1> USE ProberAssumption DEF IInv
<1>1. /\ call = "sources" /\ call' = "contracts" /\ pc' = "ask"
      /\ reply' = "none" /\ spent' = 0
      /\ UNCHANGED <<maddrs, cands, at, since, elapsed, speaks, hiccup, err,
                     ctxDone>>
  BY DEF Sources, EndCall, chain, history
<1>2. /\ pc \in {"ask", "asking"} /\ ~err /\ cap.mk20
      /\ cap' \in Capabilities /\ cap'.mk20 = cap.mk20
      /\ cap'.base = cap.base /\ cap'.latency = cap.latency
      /\ errors' \subseteq [stage : Stages, url : Urls \union {NoUrl}]
      /\ \A e \in errors' : e \in errors
           \/ e.stage \notin {"new_client", "products"}
      /\ errors \subseteq errors'
  BY <1>1, BestEffort
<1>3. \A u : PassedOver(u)' <=> PassedOver(u)
  BY <1>2 DEF PassedOver
<1>4. at \in DOMAIN cands /\ at \in Nat
  BY <1>2, BaseIsACandidate
<1>5. TypeOK'
  BY <1>1, <1>2, <1>4 DEF TypeOK, Replies
<1>6. CandidatesRight'
  BY <1>1 DEF CandidatesRight
<1>7. EmptyInv'
  BY <1>1, <1>2 DEF EmptyInv
<1>8. SearchInv'
  <2>1. \A e \in errors' : e.stage \in {"new_client", "products"} =>
          \E j \in DOMAIN cands : e.url = cands[j] /\ j < at
    BY <1>2 DEF SearchInv
  <2>2. (cap.mk20 = (call # "products"))'
    BY <1>1, <1>2 DEF Capabilities
  <2> QED BY <1>1, <1>2, <1>3, <1>4, <2>1, <2>2 DEF SearchInv
<1>9. CallInv'
  BY <1>1 DEF CallInv
<1>10. VainInv'
  BY <1>1, <1>3 DEF VainInv
<1>11. TimeInv'
  <2>1. CallsBefore' = CallsBefore + 1
    BY <1>1, <1>4 DEF CallsBefore
  <2> QED BY <1>1, <1>2, <2>1, OneCallFurther
<1>12. LatencyIsItsOwn'
  BY <1>1, <1>2 DEF LatencyIsItsOwn
<1> QED BY <1>5, <1>6, <1>7, <1>8, <1>9, <1>10, <1>11, <1>12

\* Its contracts are asked for, best effort, and the search is over.
LEMMA ContractsPreserves == IInv /\ Contracts => IInv'
<1> SUFFICES ASSUME IInv, Contracts PROVE IInv'
  OBVIOUS
<1> USE ProberAssumption DEF IInv
<1>1. /\ call = "contracts" /\ pc' = "returned"
      /\ reply' = "none" /\ spent' = 0
      /\ UNCHANGED <<maddrs, cands, at, call, since, elapsed, speaks, hiccup,
                     err, ctxDone>>
  BY DEF Contracts, EndCall, chain, history
<1>2. /\ pc \in {"ask", "asking"} /\ ~err /\ cap.mk20
      /\ cap' \in Capabilities /\ cap'.mk20 = cap.mk20
      /\ cap'.base = cap.base /\ cap'.latency = cap.latency
      /\ errors' \subseteq [stage : Stages, url : Urls \union {NoUrl}]
      /\ \A e \in errors' : e \in errors
           \/ e.stage \notin {"new_client", "products"}
      /\ errors \subseteq errors'
  BY <1>1, BestEffort
<1>3. \A u : PassedOver(u)' <=> PassedOver(u)
  BY <1>2 DEF PassedOver
<1>4. at \in DOMAIN cands
  BY <1>2, BaseIsACandidate
<1>5. TypeOK'
  BY <1>1, <1>2, <1>4 DEF TypeOK, Replies
<1>6. CandidatesRight'
  BY <1>1 DEF CandidatesRight
<1>7. EmptyInv'
  BY <1>1, <1>2 DEF EmptyInv
<1>8. SearchInv'
  <2>1. \A e \in errors' : e.stage \in {"new_client", "products"} =>
          \E j \in DOMAIN cands : e.url = cands[j] /\ j < at
    BY <1>2 DEF SearchInv
  <2>2. (cap.mk20 = (call # "products"))'
    BY <1>1, <1>2 DEF Capabilities
  <2> QED BY <1>1, <1>2, <1>3, <1>4, <2>1, <2>2 DEF SearchInv
<1>9. CallInv'
  BY <1>1 DEF CallInv
<1>10. VainInv'
  BY <1>1, <1>3 DEF VainInv
<1>11. TimeInv'
  BY <1>1 DEF TimeInv, ReturnsInTime
<1>12. LatencyIsItsOwn'
  BY <1>1, <1>2 DEF LatencyIsItsOwn
<1> QED BY <1>5, <1>6, <1>7, <1>8, <1>9, <1>10, <1>11, <1>12

\* The call under way is lost, or the caller's context is done: only what is
\* said of undisturbed probes is affected.
LEMMA DisturbancePreserves == IInv /\ (Lose \/ CancelCtx) => IInv'
<1> SUFFICES ASSUME IInv, Lose \/ CancelCtx PROVE IInv'
  OBVIOUS
<1> USE ProberAssumption DEF IInv
<1>1. /\ UNCHANGED <<pc, maddrs, cands, at, call, spent, since, elapsed, cap,
                     errors, err, speaks>>
      /\ \/ pc = "asking" /\ reply' = "lost" /\ hiccup' = TRUE
            /\ ctxDone' = ctxDone
         \/ ctxDone' = TRUE /\ reply' = reply /\ hiccup' = hiccup
  BY DEF Lose, CancelCtx, chain, calling, history, report
<1>2. \A u : PassedOver(u)' <=> PassedOver(u)
  BY <1>1 DEF PassedOver
<1>3. TypeOK'
  <2>1. ctxDone' \in BOOLEAN /\ hiccup' \in BOOLEAN
        /\ reply' \in Replies \union {"lost"}
    BY <1>1 DEF TypeOK
  <2> QED BY <1>1, <2>1 DEF TypeOK
<1>4. CandidatesRight' /\ EmptyInv'
  BY <1>1 DEF CandidatesRight, EmptyInv
<1>5. SearchInv'
  BY <1>1, <1>2 DEF SearchInv
<1>6. CallInv'
  <2>1. Base' = Base
    BY <1>1 DEF Base
  <2>2. CASE reply' = "lost" /\ hiccup' = TRUE /\ pc = "asking"
    BY <1>1, <2>1, <2>2 DEF CallInv
  <2>3. CASE reply' = reply /\ hiccup' = hiccup
    BY <1>1, <2>1, <2>3 DEF CallInv
  <2> QED BY <1>1, <2>2, <2>3
<1>7. VainInv'
  <2>1. ~(~ctxDone' /\ ~hiccup')
    BY <1>1
  <2> QED BY <2>1 DEF VainInv
<1>8. TimeInv'
  <2>1. CallsBefore' = CallsBefore
    BY <1>1 DEF CallsBefore
  <2> QED BY <1>1, <2>1 DEF TimeInv, ReturnsInTime
<1>9. LatencyIsItsOwn'
  BY <1>1 DEF LatencyIsItsOwn
<1> QED BY <1>3, <1>4, <1>5, <1>6, <1>7, <1>8, <1>9

\* Time passes while a call is out, and no call is out for longer than Timeout.
LEMMA TickPreserves == IInv /\ Tick => IInv'
<1> SUFFICES ASSUME IInv, Tick PROVE IInv'
  OBVIOUS
<1> USE ProberAssumption DEF IInv
<1>1. /\ pc = "asking" /\ spent' = spent + 1 /\ elapsed' = elapsed + 1
      /\ call = "products" => since' = since + 1
      /\ call # "products" => since' = since
      /\ reply # "none" => spent < Delay
      /\ ~(spent >= Timeout)
      /\ UNCHANGED <<pc, maddrs, cands, at, call, reply, cap, errors, err,
                     ctxDone, speaks, hiccup>>
  BY DEF Tick, CallFails, chain, report
<1>2. /\ spent \in Nat /\ elapsed \in Nat /\ since \in Nat /\ Timeout \in Nat
      /\ spent < Timeout
  BY <1>1 DEF TypeOK
<1>3. \A u : PassedOver(u)' <=> PassedOver(u)
  BY <1>1 DEF PassedOver
<1>4. TypeOK'
  <2>1. spent' \in 0..Timeout /\ since' \in Nat /\ elapsed' \in Nat
    BY <1>1, <1>2
  <2> QED BY <1>1, <2>1 DEF TypeOK
<1>5. CandidatesRight'
  BY <1>1 DEF CandidatesRight
<1>6. EmptyInv'
  BY <1>1 DEF EmptyInv
<1>7. SearchInv'
  BY <1>1, <1>3 DEF SearchInv
<1>8. CallInv'
  <2>1. Base' = Base
    BY <1>1 DEF Base
  <2>2. reply \notin {"none", "lost"} => spent' <= Delay
    BY <1>1, <1>2
  <2> QED BY <1>1, <2>1, <2>2 DEF CallInv
<1>9. VainInv'
  BY <1>1, <1>3 DEF VainInv
<1>10. TimeInv'
  <2>1. CallsBefore' = CallsBefore
    BY <1>1 DEF CallsBefore
  <2>2. /\ CallsBefore * Timeout \in Nat
        /\ CallsBefore * Timeout + Timeout <= (Len(cands) + 2) * Timeout
    BY <1>1, CallsCost
  <2>3. elapsed <= CallsBefore * Timeout + spent
    BY <1>1 DEF TimeInv
  <2> DEFINE c == CallsBefore * Timeout
             m == (Len(cands) + 2) * Timeout
  <2>4. m \in Int
    <3>1. Len(cands) + 2 \in Nat
      BY DEF TypeOK
    <3> DEFINE n == Len(cands) + 2
    <3> HIDE DEF n
    <3>2. n * Timeout \in Nat
      BY <1>2, <3>1, Products DEF n
    <3> QED BY <3>2 DEF n
  <2>5. CallsBefore' * Timeout = c /\ (Len(cands') + 2) * Timeout = m
    BY <1>1, <2>1
  <2> HIDE DEF c, m
  <2>6. c \in Nat /\ c + Timeout <= m /\ elapsed <= c + spent
    BY <2>2, <2>3 DEF c, m
  <2>7. elapsed' <= c + spent' /\ elapsed' <= m
    BY <1>1, <1>2, <2>4, <2>6
  <2> QED BY <2>5, <2>7 DEF TimeInv, ReturnsInTime
<1>11. LatencyIsItsOwn'
  BY <1>1 DEF LatencyIsItsOwn
<1> QED BY <1>4, <1>5, <1>6, <1>7, <1>8, <1>9, <1>10, <1>11

\* No step leaves IInv.
LEMMA NextInv == IInv /\ [Next]_vars => IInv'
<1> SUFFICES ASSUME IInv, [Next]_vars PROVE IInv'
  OBVIOUS
<1>1. CASE InfoFails \/ MultiaddrsFail \/ NoCandidates
  <2>1. PICK stage \in {"state_miner_info", "parse_multiaddrs",
                        "no_http_multiaddr"} : FailAtOnce(stage)
    BY <1>1 DEF InfoFails, MultiaddrsFail, NoCandidates
  <2> QED BY <2>1, FailAtOncePreserves DEF Stages
<1>2. CASE Resolve
  BY <1>2, ResolvePreserves
<1>3. CASE NewClientFails
  BY <1>3, NewClientFailsPreserves
<1>4. CASE Ask
  BY <1>4, AskPreserves
<1>5. CASE ProductsFail
  BY <1>5, ProductsFailPreserves
<1>6. CASE ProductsWork
  BY <1>6, ProductsWorkPreserves
<1>7. CASE Sources
  BY <1>7, SourcesPreserves
<1>8. CASE Contracts
  BY <1>8, ContractsPreserves
<1>9. CASE Lose \/ CancelCtx
  BY <1>9, DisturbancePreserves
<1>10. CASE Tick
  BY <1>10, TickPreserves
<1>11. CASE UNCHANGED vars
  BY <1>11 DEF vars, chain, calling, report, history, IInv, TypeOK,
     CandidatesRight, EmptyInv, SearchInv, CallInv, VainInv, PassedOver, Base,
     TimeInv, CallsBefore, ReturnsInTime, LatencyIsItsOwn
<1>12. CASE Finished
  BY <1>11, <1>12 DEF Finished
<1> QED BY <1>1, <1>2, <1>3, <1>4, <1>5, <1>6, <1>7, <1>8, <1>9, <1>10,
           <1>11, <1>12 DEF Next, ProbeStep

\* The inductive invariant holds throughout.
THEOREM Invariance == Spec => []IInv
BY InitInv, NextInv, PTL DEF Spec

\* The candidates are the URLs of the usable addresses, each once, https first
\* and otherwise in chain order, for any addresses (lines 143-187).
THEOREM CandidatesAreRight == Spec => []CandidatesRight
<1>1. IInv => CandidatesRight
  BY DEF IInv
<1> QED BY Invariance, <1>1, PTL

\* Whatever fails when, the endpoint reported is the first that worked, with the
\* errors of all before it, and none after it was asked (line 113).
THEOREM FirstWorkingAlwaysWins == Spec => []FirstWorkingWins
<1>1. ASSUME IInv, cap.mk20
      PROVE  \E k \in DOMAIN cands :
               /\ cap.base = cands[k] /\ ~PassedOver(cands[k])
               /\ \A j \in 1..k - 1 : PassedOver(cands[j])
               /\ \A j \in k + 1..Len(cands) : cands[j] \notin DOMAIN speaks
  <2>1. pc # "info" /\ ~err
    BY <1>1 DEF IInv, EmptyInv, Unknown
  <2>2. /\ at \in DOMAIN cands /\ at \in Nat \ {0} /\ at <= Len(cands)
        /\ Len(cands) \in Nat /\ DOMAIN cands = 1..Len(cands)
    BY <1>1, <2>1, BaseIsACandidate DEF IInv
  <2>3. \A i, j \in DOMAIN cands : cands[i] = cands[j] => i = j
    BY <1>1, EachOnce DEF IInv
  <2>4. cap.base = cands[at]
    BY <1>1 DEF IInv, SearchInv
  <2>5. ~PassedOver(cands[at])
    <3>1. \A e \in errors : e.stage \in {"new_client", "products"} =>
            \E j \in DOMAIN cands : e.url = cands[j] /\ j < at
      BY <1>1 DEF IInv, SearchInv
    <3> QED BY <2>2, <2>3, <3>1 DEF PassedOver
  <2>6. \A j \in 1..at - 1 : PassedOver(cands[j])
    <3>1. \A j \in 1..at - 1 : j \in DOMAIN cands /\ j < at
      BY <2>2
    <3> QED BY <1>1, <3>1 DEF IInv, SearchInv
  <2>7. \A j \in at + 1..Len(cands) : cands[j] \notin DOMAIN speaks
    <3>1. \A j \in at + 1..Len(cands) : j \in DOMAIN cands /\ ~(j <= at)
      BY <2>2
    <3>2. \A u \in DOMAIN speaks :
            \E i \in DOMAIN cands : i <= at /\ u = cands[i]
      BY <1>1 DEF IInv, SearchInv
    <3> QED BY <2>3, <3>1, <3>2
  <2> QED BY <2>2, <2>4, <2>5, <2>6, <2>7
<1>2. IInv => FirstWorkingWins
  BY <1>1 DEF FirstWorkingWins
<1> QED BY Invariance, <1>2, PTL

\* A probe that reports no Mk20 has asked every candidate in vain.
THEOREM FoundIfItIsThere == Spec => []FoundIfThere
<1>1. ASSUME IInv, pc = "returned", ~err, ~cap.mk20
      PROVE  \A u \in ToSet(cands) : PassedOver(u)
  <2>1. at = Len(cands) /\ PassedOver(cands[at])
    BY <1>1 DEF IInv, SearchInv
  <2>2. \A j \in DOMAIN cands : j < at \/ j = at
    <3>1. cands \in Seq(Urls)
      BY <1>1 DEF IInv, TypeOK
    <3> QED BY <2>1, <3>1
  <2>3. \A j \in DOMAIN cands : PassedOver(cands[j])
    BY <1>1, <2>1, <2>2 DEF IInv, SearchInv
  <2> QED BY <2>3 DEF ToSet
<1>2. IInv => FoundIfThere
  BY <1>1 DEF FoundIfThere, IInv, VainInv
<1> QED BY Invariance, <1>2, PTL

\* The latency reported is within the time in which a server replies.
THEOREM LatencyIsAlwaysItsOwn == Spec => []LatencyIsItsOwn
<1>1. IInv => LatencyIsItsOwn
  BY DEF IInv
<1> QED BY Invariance, <1>1, PTL

\* The capability calls of a probe take no longer than one timeout for each
\* candidate and two more.
THEOREM ProbeReturnsInTime == Spec => []ReturnsInTime
<1>1. IInv => ReturnsInTime
  BY DEF IInv, TimeInv
<1> QED BY Invariance, <1>1, PTL
=============================================================================
