----------------------------- MODULE TopMiners -----------------------------
(***************************************************************************)
(* fetchTopMiners of pkg/catalog/crawler.go, with the default of `top`     *)
(* that Crawl applies: the pages of a ranked index are fetched one by one  *)
(* until `top` addresses are collected or a page tells that it is the      *)
(* last.                                                                   *)
(*                                                                         *)
(* The index (Filfox) is outside this repository.  It serves a ranking     *)
(* that may change between two requests, and answers a page past the end   *)
(* with an empty list or, as the comment at crawler.go:182-184 says of     *)
(* calibration, with HTTP 500.                                             *)
(***************************************************************************)
EXTENDS Integers, Sequences, FiniteSets, Functions

CONSTANTS
  Miners,         \* addresses the index can rank
  TopOpts,        \* values of Crawl's argument top
  DefaultTop,     \* 50 in the code
  PageCap,        \* 100 in the code: entries per page at most
  PastEnd         \* answers to a page past the end: subset of {"empty", "500"}

ASSUME TopAssumption ==
  TopOpts \subseteq Int /\ DefaultTop \in Nat \ {0} /\ PageCap \in Nat \ {0}

ASSUME IndexAssumption ==
  /\ IsFiniteSet(Miners)
  /\ PastEnd \subseteq {"empty", "500"} /\ PastEnd # {}

VARIABLES
  pc,       \* "fetching", "ok" or "error"
  top,      \* how many addresses are wanted
  page,     \* the next page to ask for
  out,      \* addresses collected
  ranking,  \* the index: distinct miners, best first
  moved,    \* history: the ranking changed since the first page
  past      \* history: a page past the end was asked for

vars == <<pc, top, page, out, ranking, moved, past>>

Rankings == UNION {{s \in [1..n -> Miners] : IsInjective(s)} :
                     n \in 0..Cardinality(Miners)}

Least(a, b) == IF a < b THEN a ELSE b

PageSize == Least(top, PageCap)

\* Page p of the index.
Page(p) == SubSeq(ranking, p * PageSize + 1,
                  Least((p + 1) * PageSize, Len(ranking)))

TypeOK ==
  /\ pc \in {"fetching", "ok", "error"}
  /\ top \in Nat \ {0}
  /\ page \in Nat
  /\ out \in Seq(Miners)
  /\ ranking \in Rankings
  /\ moved \in BOOLEAN /\ past \in BOOLEAN

\* A slip the model must notice: the argument is taken as it comes.
TopAsGiven(t) == t

\* Zero and negative arguments mean the default.
TopOrDefault(t) == IF t > 0 THEN t ELSE DefaultTop

Init ==
  /\ pc = "fetching" /\ page = 0 /\ out = <<>>
  /\ moved = FALSE /\ past = FALSE
  /\ top \in {TopOrDefault(t) : t \in TopOpts}
  /\ ranking \in Rankings

\* A slip the model must notice: the page is appended whole.
TakeAll(entries) == entries

\* The entries of a page that are still wanted.
Take(entries) == SubSeq(entries, 1, Least(Len(entries), top - Len(out)))

\* Slips the model must notice: only an empty page ends the loop; a full one
\* does.
LastPageIfEmpty(entries) == entries = <<>>

LastPageIfFull(entries) == Len(entries) <= PageSize

\* The page is empty or shorter than asked for.
LastPage(entries) == Len(entries) < PageSize

PastTheEnd == page > 0 /\ page * PageSize >= Len(ranking)

\* One round of the loop: a page arrives, its entries are appended, and the
\* loop ends when enough are collected or the page is the last.
FetchPage ==
  /\ pc = "fetching"
  /\ PastTheEnd => "empty" \in PastEnd
  /\ past' = (past \/ PastTheEnd)
  /\ out' = out \o Take(Page(page))
  /\ IF LastPage(Page(page)) \/ Len(out') >= top
       THEN pc' = "ok" /\ UNCHANGED page
       ELSE pc' = "fetching" /\ page' = page + 1
  /\ UNCHANGED <<top, ranking, moved>>

\* The index has no such page and says so with HTTP 500: all is lost.
PastEndFails ==
  /\ pc = "fetching" /\ PastTheEnd /\ "500" \in PastEnd
  /\ past' = TRUE /\ pc' = "error"
  /\ UNCHANGED <<top, page, out, ranking, moved>>

\* Transport error, other status, undecodable body, ctx done.
FetchFails ==
  /\ pc = "fetching"
  /\ pc' = "error"
  /\ UNCHANGED <<top, page, out, ranking, moved, past>>

\* Two neighbours of the ranking change places between two requests.
Overtake ==
  /\ pc = "fetching" /\ page > 0
  /\ \E i \in 1..Len(ranking) - 1 :
       ranking' = [ranking EXCEPT ![i] = ranking[i + 1], ![i + 1] = ranking[i]]
  /\ moved' = TRUE
  /\ UNCHANGED <<pc, top, page, out, past>>

Finished == pc # "fetching" /\ UNCHANGED vars

Next == FetchPage \/ PastEndFails \/ FetchFails \/ Overtake \/ Finished

Spec == Init /\ [][Next]_vars

-----------------------------------------------------------------------------
\* If the ranking stood still, the addresses are its best `top`, in its order,
\* or all of them if there are fewer: no page is skipped, read twice or cut
\* short (lines 151-188).
ResultIsTop ==
  pc = "ok" /\ ~moved => out = SubSeq(ranking, 1, Least(top, Len(ranking)))

\* The caller never gets more than it asked for, whatever the index does.
AtMostTop == Len(out) <= top

\* No page is asked for once the pages before it could have held `top`
\* addresses: every round but the last gains a full page, so the loop over
\* pages ends after at most top / PageSize requests, rounded up, whatever the
\* ranking does meanwhile.
RequestsBounded == pc = "fetching" => page * PageSize < top

\* While the loop goes on, every page so far was full and is collected, whole;
\* and it is the beginning of the ranking if that stood still (lines 151-188).
LoopInv ==
  pc = "fetching" =>
    /\ Len(out) = page * PageSize
    /\ page * PageSize < top /\ page * PageSize <= Len(ranking)
    /\ ~moved => out = SubSeq(ranking, 1, page * PageSize)

\* The inductive invariant.
IInv == TypeOK /\ LoopInv /\ AtMostTop /\ ResultIsTop

\* Comment of lines 182-184: the end is detected "via short-page rather than
\* empty-page" because a page past the end is answered with HTTP 500, so no
\* such page is asked for.
NeverPastEnd == ~past
=============================================================================
