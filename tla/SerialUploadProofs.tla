------------------------- MODULE SerialUploadProofs -------------------------
(***************************************************************************)
(* Proofs about SerialUpload for every number of submissions and uploads:  *)
(* its inductive invariant, what a status query may report, and that it    *)
(* implements UploadPromise.                                               *)
(***************************************************************************)
EXTENDS SerialUpload, TLAPS

USE DEF clientVars, netVars, spVars, queryVars

-----------------------------------------------------------------------------
(* A request to submit the deal names the record it makes.                 *)

LEMMA DealNamesRecord ==
  ASSUME TypeOK, NEW r \in net, r.kind = "deal"
  PROVE  r.try \in 1..MaxSubmits
  BY DEF TypeOK, Requests, DealRequest, PutRequest, PostRequest

-----------------------------------------------------------------------------
(* Every action keeps the invariant.                                       *)

LEMMA SubmitPreserves ==
  ASSUME IInv, Submit
  PROVE  IInv'
<1>1. TypeOK'
  BY BoundsAssumption DEF IInv, TypeOK, Submit, DealRequest, Requests
<1>2. BytesInv'
  BY DEF IInv, BytesInv, PostAbout, Submit, DealRequest
<1>3. OutcomeInv'
  BY DEF IInv, OutcomeInv, Submit
<1>4. NoRecordInv' /\ RecordInv' /\ QueryInv' /\ StatusIsTrue'
  BY DEF IInv, NoRecordInv, RecordInv, QueryInv, StatusIsTrue, StateOf,
     Submit
<1>5. OnceInv'
  BY DEF IInv, OnceInv, Submit, DealRequest, PostRequest
<1>6. UploadedInv'
  BY DEF IInv, UploadedInv, Submit, PostRequest
<1> QED  BY <1>1, <1>2, <1>3, <1>4, <1>5, <1>6 DEF IInv

LEMMA SubmitOKPreserves ==
  ASSUME IInv, SubmitOK
  PROVE  IInv'
<1>1. TypeOK'
  BY BoundsAssumption DEF IInv, TypeOK, SubmitOK
<1>2. BytesInv'
  BY DEF IInv, BytesInv, PostAbout, SubmitOK
<1>3. OutcomeInv'
  BY DEF IInv, OutcomeInv, SubmitOK
<1>4. NoRecordInv'
  BY DEF IInv, NoRecordInv, SubmitOK
<1>5. RecordInv'
  BY DEF IInv, RecordInv, StateOf, SubmitOK
<1>6. QueryInv' /\ StatusIsTrue'
  BY DEF IInv, QueryInv, StatusIsTrue, SubmitOK
<1>7. OnceInv'
  BY DEF IInv, OnceInv, SubmitOK, DealRequest, PostRequest
<1>8. UploadedInv'
  BY DEF IInv, UploadedInv, SubmitOK
<1> QED  BY <1>1, <1>2, <1>3, <1>4, <1>5, <1>6, <1>7, <1>8 DEF IInv

LEMMA SubmitFailsPreserves ==
  ASSUME IInv, SubmitFails
  PROVE  IInv'
<1>1. TypeOK'
  BY DEF IInv, TypeOK, SubmitFails
<1>2. BytesInv'
  BY DEF IInv, BytesInv, PostAbout, SubmitFails
<1>3. OutcomeInv'
  BY DEF IInv, OutcomeInv, SubmitFails
<1>4. NoRecordInv'
  BY DEF IInv, NoRecordInv, SubmitFails
<1>5. RecordInv'
  BY DEF IInv, RecordInv, StateOf, SubmitFails
<1>6. QueryInv' /\ StatusIsTrue'
  BY DEF IInv, QueryInv, StatusIsTrue, SubmitFails
<1>7. OnceInv'
  BY DEF IInv, OnceInv, SubmitFails, DealRequest, PostRequest
<1>8. UploadedInv'
  BY DEF IInv, UploadedInv, SubmitFails
<1> QED  BY <1>1, <1>2, <1>3, <1>4, <1>5, <1>6, <1>7, <1>8 DEF IInv

LEMMA SendPutPreserves ==
  ASSUME IInv, SendPut
  PROVE  IInv'
<1>1. TypeOK'
  BY BoundsAssumption DEF IInv, TypeOK, SendPut, PutRequest, Requests
<1>2. BytesInv'
  BY DEF IInv, BytesInv, PostAbout, SendPut, PutRequest
<1>3. OutcomeInv'
  BY DEF IInv, OutcomeInv, SendPut
<1>4. NoRecordInv'
  BY DEF IInv, NoRecordInv, SendPut
<1>5. RecordInv'
  BY DEF IInv, RecordInv, StateOf, SendPut
<1>6. QueryInv'
  BY DEF IInv, QueryInv, SendPut, OutcomeInv
<1>7. StatusIsTrue'
  BY DEF IInv, StatusIsTrue, SendPut
<1>8. OnceInv'
  <2>1. attempt \in Nat /\ attempt' = attempt + 1
    BY DEF IInv, TypeOK, SendPut
  <2>2. \A r \in Requests : r.kind = "post" => r.try \in Int
    BY BoundsAssumption DEF Requests, DealRequest, PutRequest, PostRequest
  <2>3. /\ \A r \in net \union replies : r.kind = "post" => r.try <= attempt'
        /\ \A h \in handling : h.req.kind = "post" => h.req.try <= attempt'
    BY <2>1, <2>2 DEF IInv, OnceInv, TypeOK
  <2>4. /\ PostRequest(attempt') \notin net \union replies
        /\ \A h \in handling : h.req # PostRequest(attempt')
    BY <2>1 DEF IInv, OnceInv, PostRequest
  <2>5. net' = net \union {PutRequest(attempt')} /\ UNCHANGED <<handling, replies>>
    BY <2>1 DEF SendPut
  <2>6. PutRequest(attempt').kind = "put" /\ PostRequest(attempt').kind = "post"
    BY DEF PutRequest, PostRequest
  <2> QED  BY <2>3, <2>4, <2>5, <2>6 DEF OnceInv
<1>9. UploadedInv'
  BY DEF IInv, UploadedInv, SendPut, PostRequest, OnceInv, OutcomeInv, QueryInv, TypeOK
<1> QED  BY <1>1, <1>2, <1>3, <1>4, <1>5, <1>6, <1>7, <1>8, <1>9 DEF IInv

LEMMA SendPostPreserves ==
  ASSUME IInv, SendPost
  PROVE  IInv'
<1>1. TypeOK'
  BY BoundsAssumption DEF IInv, TypeOK, SendPost, PutRequest, PostRequest,
     Requests, DealRequest
<1>2. BytesInv'
  BY DEF IInv, BytesInv, PostAbout, SendPost, PutRequest, PostRequest
<1>3. OutcomeInv'
  BY DEF IInv, OutcomeInv, SendPost
<1>4. NoRecordInv'
  BY DEF IInv, NoRecordInv, SendPost
<1>5. RecordInv'
  BY DEF IInv, RecordInv, StateOf, SendPost
<1>6. QueryInv' /\ StatusIsTrue'
  BY DEF IInv, QueryInv, StatusIsTrue, SendPost
<1>7. OnceInv'
  <2>1. attempt \in Int /\ outcome # "ok" /\ UNCHANGED attempt
    BY DEF IInv, TypeOK, OutcomeInv, SendPost
  <2>2. PostRequest(attempt).try = attempt
    BY DEF PostRequest
  <2> QED  BY <2>1, <2>2 DEF IInv, OnceInv, SendPost
<1>8. UploadedInv'
  BY DEF IInv, UploadedInv, SendPost, PostRequest, OutcomeInv
<1> QED  BY <1>1, <1>2, <1>3, <1>4, <1>5, <1>6, <1>7, <1>8 DEF IInv

LEMMA UploadOKPreserves ==
  ASSUME IInv, UploadOK
  PROVE  IInv'
<1>1. TypeOK'
  BY DEF IInv, TypeOK, UploadOK
<1>2. BytesInv'
  BY DEF IInv, BytesInv, PostAbout, UploadOK, PostRequest
<1>3. OutcomeInv'
  BY DEF IInv, OutcomeInv, UploadOK
<1>4. NoRecordInv'
  BY DEF IInv, NoRecordInv, UploadOK, PostRequest
<1>5. RecordInv'
  BY DEF IInv, RecordInv, StateOf, UploadOK, PostRequest
<1>6. QueryInv'
  BY DEF IInv, QueryInv, UploadOK
<1>7. StatusIsTrue'
  BY DEF IInv, StatusIsTrue, UploadOK
<1>8. OnceInv'
  BY DEF IInv, OnceInv, UploadOK, PostRequest
<1>9. UploadedInv'
  BY DEF IInv, UploadedInv, UploadOK, PostRequest
<1> QED  BY <1>1, <1>2, <1>3, <1>4, <1>5, <1>6, <1>7, <1>8, <1>9 DEF IInv

LEMMA UploadFailsPreserves ==
  ASSUME IInv, UploadFails
  PROVE  IInv'
<1>1. TypeOK'
  BY DEF IInv, TypeOK, UploadFails
<1>2. BytesInv'
  BY DEF IInv, BytesInv, PostAbout, UploadFails
<1>3. OutcomeInv'
  BY DEF IInv, OutcomeInv, UploadFails
<1>4. NoRecordInv'
  BY DEF IInv, NoRecordInv, UploadFails
<1>5. RecordInv'
  BY DEF IInv, RecordInv, StateOf, UploadFails
<1>6. QueryInv'
  BY DEF IInv, QueryInv, UploadFails, OutcomeInv
<1>7. StatusIsTrue'
  BY DEF IInv, StatusIsTrue, UploadFails
<1>8. OnceInv'
  BY DEF IInv, OnceInv, UploadFails, PostRequest
<1>9. UploadedInv'
  BY DEF IInv, UploadedInv, UploadFails, PostRequest, OutcomeInv, QueryInv
<1> QED  BY <1>1, <1>2, <1>3, <1>4, <1>5, <1>6, <1>7, <1>8, <1>9 DEF IInv

LEMMA AcceptDealPreserves ==
  ASSUME IInv, NEW r \in net, AcceptDeal(r)
  PROVE  IInv'
<1>1. TypeOK'
  BY BoundsAssumption, DealNamesRecord DEF IInv, TypeOK, AcceptDeal, Reply,
     Records
<1>2. BytesInv'
  BY DEF IInv, BytesInv, PostAbout, AcceptDeal, Reply
<1>3. NoRecordInv'
  <2>1. r.try \in 1..MaxSubmits
    BY DealNamesRecord DEF IInv, AcceptDeal
  <2>2. record' # 0
    BY <2>1, BoundsAssumption DEF AcceptDeal
  <2> QED  BY <2>2 DEF NoRecordInv
<1>4. RecordInv'
  <2> SUFFICES ASSUME ~replaced' PROVE RecordInv'
    BY DEF RecordInv
  <2>1. ~replaced /\ ~FinalizeTakenUp(record)
    BY Zenon DEF AcceptDeal
  <2>2. finalized = {} /\ \A h \in handling : h.req.kind # "post"
    BY <2>1 DEF IInv, RecordInv, FinalizeTakenUp
  <2>3. Rank(seen) <= 1
    <3>1. seen \in {"none", "accepted", "processing", "active"}
      BY DEF IInv, TypeOK
    <3>2. StateOf(record) = "accepted"
      BY <2>2 DEF StateOf
    <3>3. seen # "none" => Rank(seen) <= Rank("accepted")
      BY <2>1, <3>2 DEF IInv, RecordInv
    <3> QED  BY <3>1, <3>3 DEF Rank
  <2>4. UNCHANGED <<handling, finalized, seen>> /\ query' = query
    BY DEF AcceptDeal
  <2>5. Rank(StateOf(record)') = 1
    BY <2>2, <2>4 DEF StateOf, Rank
  <2>6. Rank(seen') <= Rank(StateOf(record)') /\ Rank(seen)' <= 1
    BY <2>3, <2>4, <2>5
  <2> QED  BY <2>2, <2>4, <2>6 DEF RecordInv
<1>5. OutcomeInv' /\ QueryInv' /\ StatusIsTrue'
  BY DEF IInv, OutcomeInv, QueryInv, StatusIsTrue, AcceptDeal
<1>6. OnceInv'
  BY DEF IInv, OnceInv, AcceptDeal, PostRequest, Reply
<1>7. UploadedInv'
  BY DEF IInv, UploadedInv, AcceptDeal, Reply
<1> QED  BY <1>1, <1>2, <1>3, <1>4, <1>5, <1>6, <1>7 DEF IInv

LEMMA LookUpPreserves ==
  ASSUME IInv, NEW r \in net, LookUp(r)
  PROVE  IInv'
<1>1. TypeOK'
  BY DEF IInv, TypeOK, LookUp, Records
<1>2. BytesInv'
  BY DEF IInv, BytesInv, PostAbout, LookUp
<1>3. NoRecordInv'
  BY DEF IInv, NoRecordInv, LookUp
<1>4. RecordInv'
  BY DEF IInv, RecordInv, StateOf, LookUp
<1>5. OutcomeInv' /\ QueryInv' /\ StatusIsTrue'
  BY DEF IInv, OutcomeInv, QueryInv, StatusIsTrue, LookUp
<1>6. OnceInv'
  BY DEF IInv, OnceInv, LookUp, PostRequest, TypeOK
<1>7. UploadedInv'
  <2> SUFFICES ASSUME ~resubmitted' PROVE UploadedInv'
    BY DEF UploadedInv
  <2>1. ~resubmitted \/ r = PostRequest(attempt)
    BY Zenon DEF LookUp
  <2>2. CASE r = PostRequest(attempt)
    BY <2>2 DEF IInv, UploadedInv, LookUp, OnceInv, QueryInv
  <2>3. CASE ~resubmitted /\ r # PostRequest(attempt)
    BY <2>3 DEF IInv, UploadedInv, LookUp
  <2> QED  BY <2>1, <2>2, <2>3
<1> QED  BY <1>1, <1>2, <1>3, <1>4, <1>5, <1>6, <1>7 DEF IInv

LEMMA LosePreserves ==
  ASSUME IInv, NEW r \in net, Lose(r)
  PROVE  IInv'
<1>1. TypeOK'
  BY DEF IInv, TypeOK, Lose
<1>2. BytesInv'
  BY DEF IInv, BytesInv, PostAbout, Lose
<1>3. OutcomeInv' /\ NoRecordInv' /\ RecordInv' /\ QueryInv' /\ StatusIsTrue'
  BY DEF IInv, OutcomeInv, NoRecordInv, RecordInv, QueryInv, StatusIsTrue,
     StateOf, Lose
<1>4. OnceInv'
  BY DEF IInv, OnceInv, Lose
<1>5. UploadedInv'
  BY DEF IInv, UploadedInv, Lose
<1> QED  BY <1>1, <1>2, <1>3, <1>4, <1>5 DEF IInv

LEMMA StorePreserves ==
  ASSUME IInv, NEW h \in handling, Store(h)
  PROVE  IInv'
<1>1. TypeOK'
  BY DEF IInv, TypeOK, Store, Reply
<1>2. BytesInv'
  BY DEF IInv, BytesInv, PostAbout, Store, Reply
<1>3. NoRecordInv'
  BY DEF IInv, NoRecordInv, Store, Reply
<1>4. RecordInv'
  BY DEF IInv, RecordInv, StateOf, Store, Reply
<1>5. StatusIsTrue'
  BY DEF IInv, StatusIsTrue, Store
<1>6. OutcomeInv' /\ QueryInv'
  BY DEF IInv, OutcomeInv, QueryInv, Store
<1>7. OnceInv'
  BY DEF IInv, OnceInv, Store, PostRequest, Reply
<1>8. UploadedInv'
  BY DEF IInv, UploadedInv, Store, PostRequest, Reply
<1> QED  BY <1>1, <1>2, <1>3, <1>4, <1>5, <1>6, <1>7, <1>8 DEF IInv

LEMMA BodyBreaksPreserves ==
  ASSUME IInv, NEW h \in handling, BodyBreaks(h)
  PROVE  IInv'
<1>1. TypeOK'
  BY DEF IInv, TypeOK, BodyBreaks
<1>2. BytesInv'
  BY DEF IInv, BytesInv, PostAbout, BodyBreaks
<1>3. NoRecordInv'
  BY DEF IInv, NoRecordInv, BodyBreaks
<1>4. RecordInv'
  BY DEF IInv, RecordInv, StateOf, BodyBreaks
<1>5. OutcomeInv' /\ QueryInv' /\ StatusIsTrue'
  BY DEF IInv, OutcomeInv, QueryInv, StatusIsTrue, BodyBreaks
<1>6. OnceInv'
  BY DEF IInv, OnceInv, BodyBreaks
<1>7. UploadedInv'
  BY DEF IInv, UploadedInv, BodyBreaks
<1> QED  BY <1>1, <1>2, <1>3, <1>4, <1>5, <1>6, <1>7 DEF IInv

LEMMA FinalizePreserves ==
  ASSUME IInv, NEW h \in handling, Finalize(h)
  PROVE  IInv'
<1>1. TypeOK'
  BY DEF IInv, TypeOK, Finalize, Reply, Records
<1>2. BytesInv'
  BY DEF IInv, BytesInv, PostAbout, Finalize, Reply, Waiting
<1>3. NoRecordInv'
  BY DEF IInv, NoRecordInv, Finalize, Reply
<1>4. RecordInv'
  BY DEF IInv, RecordInv, StateOf, Finalize, Reply, Rank, TypeOK
<1>5. OutcomeInv' /\ QueryInv' /\ StatusIsTrue'
  BY DEF IInv, OutcomeInv, QueryInv, StatusIsTrue, Finalize
<1>6. OnceInv'
  BY DEF IInv, OnceInv, Finalize, PostRequest, Reply
<1>7. UploadedInv'
  BY DEF IInv, UploadedInv, Finalize, Reply
<1> QED  BY <1>1, <1>2, <1>3, <1>4, <1>5, <1>6, <1>7 DEF IInv

LEMMA SettlePreserves ==
  ASSUME IInv, Settle
  PROVE  IInv'
<1>1. TypeOK'
  BY DEF IInv, TypeOK, Settle, Records
<1>2. RecordInv'
  BY DEF IInv, RecordInv, StateOf, Settle, Rank, TypeOK
<1>3. BytesInv' /\ OutcomeInv' /\ NoRecordInv' /\ QueryInv' /\ StatusIsTrue'
  BY DEF IInv, BytesInv, OutcomeInv, NoRecordInv, QueryInv, StatusIsTrue,
     PostAbout, Settle
<1>4. OnceInv'
  BY DEF IInv, OnceInv, Settle
<1>5. UploadedInv'
  BY DEF IInv, UploadedInv, Settle
<1> QED  BY <1>1, <1>2, <1>3, <1>4, <1>5 DEF IInv

LEMMA AskStatusPreserves ==
  ASSUME IInv, AskStatus
  PROVE  IInv'
<1>1. TypeOK'
  BY BoundsAssumption DEF IInv, TypeOK, AskStatus
<1>2. NoRecordInv'
  BY DEF IInv, NoRecordInv, AskStatus
<1>3. RecordInv'
  BY DEF IInv, RecordInv, StateOf, AskStatus
<1>4. QueryInv'
  BY DEF IInv, QueryInv, AskStatus
<1>5. BytesInv' /\ OutcomeInv' /\ StatusIsTrue'
  BY DEF IInv, BytesInv, OutcomeInv, StatusIsTrue, PostAbout, AskStatus
<1>6. OnceInv'
  BY DEF IInv, OnceInv, AskStatus
<1>7. UploadedInv'
  BY DEF IInv, UploadedInv, AskStatus
<1> QED  BY <1>1, <1>2, <1>3, <1>4, <1>5, <1>6, <1>7 DEF IInv

LEMMA FindDealPreserves ==
  ASSUME IInv, FindDeal
  PROVE  IInv'
<1>1. TypeOK'
  BY DEF IInv, TypeOK, FindDeal
<1>2. NoRecordInv'
  BY DEF IInv, NoRecordInv, FindDeal
<1>3. RecordInv'
  BY DEF IInv, RecordInv, StateOf, FindDeal
<1>4. QueryInv'
  BY DEF IInv, QueryInv, FindDeal
<1>5. BytesInv' /\ OutcomeInv' /\ StatusIsTrue'
  BY DEF IInv, BytesInv, OutcomeInv, StatusIsTrue, PostAbout, FindDeal
<1>6. OnceInv'
  BY DEF IInv, OnceInv, FindDeal
<1>7. UploadedInv'
  BY DEF IInv, UploadedInv, FindDeal, QueryInv
<1> QED  BY <1>1, <1>2, <1>3, <1>4, <1>5, <1>6, <1>7 DEF IInv

LEMMA StatusFailsPreserves ==
  ASSUME IInv, StatusFails
  PROVE  IInv'
<1>1. TypeOK'
  BY BoundsAssumption DEF IInv, TypeOK, StatusFails, NoQuery
<1>2. NoRecordInv'
  BY DEF IInv, NoRecordInv, StatusFails, NoQuery
<1>3. RecordInv'
  BY DEF IInv, RecordInv, StateOf, StatusFails, NoQuery
<1>4. QueryInv'
  BY DEF IInv, QueryInv, StatusFails, NoQuery
<1>5. BytesInv' /\ OutcomeInv' /\ StatusIsTrue'
  BY DEF IInv, BytesInv, OutcomeInv, StatusIsTrue, PostAbout, StatusFails
<1>6. OnceInv'
  BY DEF IInv, OnceInv, StatusFails
<1>7. UploadedInv'
  BY DEF IInv, UploadedInv, StatusFails, NoQuery
<1> QED  BY <1>1, <1>2, <1>3, <1>4, <1>5, <1>6, <1>7 DEF IInv

LEMMA AnswerStatusPreserves ==
  ASSUME IInv, AnswerStatus
  PROVE  IInv'
<1>1. TypeOK'
  BY BoundsAssumption DEF IInv, TypeOK, AnswerStatus, NoQuery, StateOf
<1>2. NoRecordInv'
  BY DEF IInv, NoRecordInv, AnswerStatus, NoQuery
<1>3. RecordInv'
  BY DEF IInv, RecordInv, StateOf, AnswerStatus, NoQuery, Rank, TypeOK
<1>4. QueryInv'
  BY DEF IInv, QueryInv, AnswerStatus, NoQuery
<1>5. StatusIsTrue'
  BY DEF IInv, StatusIsTrue, AnswerStatus, BytesInv, StateOf
<1>6. BytesInv' /\ OutcomeInv'
  BY DEF IInv, BytesInv, OutcomeInv, PostAbout, AnswerStatus
<1>7. OnceInv'
  BY DEF IInv, OnceInv, AnswerStatus
<1>8. UploadedInv'
  BY DEF IInv, UploadedInv, AnswerStatus, NoQuery
<1> QED  BY <1>1, <1>2, <1>3, <1>4, <1>5, <1>6, <1>7, <1>8 DEF IInv

LEMMA StutterPreserves ==
  ASSUME IInv, UNCHANGED vars
  PROVE  IInv'
<1>1. TypeOK'
  BY DEF IInv, TypeOK, vars
<1>2. BytesInv' /\ OutcomeInv' /\ NoRecordInv' /\ QueryInv' /\ StatusIsTrue'
  BY DEF IInv, BytesInv, PostAbout, OutcomeInv, NoRecordInv, QueryInv,
     StatusIsTrue, vars
<1>3. OnceInv' /\ UploadedInv' /\ RecordInv'
  BY DEF IInv, OnceInv, UploadedInv, RecordInv, StateOf, vars
<1> QED  BY <1>1, <1>2, <1>3 DEF IInv

LEMMA InitInv == Init => IInv
<1> SUFFICES ASSUME Init
             PROVE  IInv
  OBVIOUS
<1>1. TypeOK
  <2>1. /\ submits \in 0..MaxSubmits /\ attempt \in 0..MaxAttempts
        /\ record \in 0..MaxSubmits
    BY BoundsAssumption DEF Init
  <2>2. query \in [st : {"idle", "asked", "found"}, rec : 0..MaxSubmits,
                   after : BOOLEAN]
    BY BoundsAssumption DEF Init, NoQuery
  <2> QED  BY <2>1, <2>2 DEF Init, TypeOK
<1>2. BytesInv
  BY DEF Init, BytesInv, PostAbout
<1>3. NoRecordInv /\ RecordInv
  BY DEF Init, NoRecordInv, RecordInv, NoQuery, Rank
<1>4. OutcomeInv /\ QueryInv /\ StatusIsTrue
  BY DEF Init, OutcomeInv, QueryInv, StatusIsTrue, NoQuery
<1>5. OnceInv /\ UploadedInv
  BY DEF Init, OnceInv, UploadedInv, NoQuery
<1> QED  BY <1>1, <1>2, <1>3, <1>4, <1>5 DEF IInv

LEMMA NextPreserves == IInv /\ [Next]_vars => IInv'
<1> SUFFICES ASSUME IInv, [Next]_vars
             PROVE  IInv'
  OBVIOUS
<1>1. CASE Client
  BY <1>1, SubmitPreserves, SubmitOKPreserves, SubmitFailsPreserves,
     SendPutPreserves, SendPostPreserves, UploadOKPreserves,
     UploadFailsPreserves DEF Client
<1>2. CASE SPStep
  BY <1>2, AcceptDealPreserves, LookUpPreserves, LosePreserves,
     StorePreserves, BodyBreaksPreserves, FinalizePreserves, SettlePreserves
     DEF SPStep
<1>3. CASE Observer
  BY <1>3, AskStatusPreserves, FindDealPreserves, StatusFailsPreserves,
     AnswerStatusPreserves DEF Observer
<1>4. CASE UNCHANGED vars
  BY <1>4, StutterPreserves
<1> QED  BY <1>1, <1>2, <1>3, <1>4 DEF Next

-----------------------------------------------------------------------------
\* The inductive invariant of submission, serial upload and status query holds
\* for every number of calls.
THEOREM Invariance == Spec => []IInv
<1>1. Init => IInv  BY InitInv
<1>2. IInv /\ [Next]_vars => IInv'  BY NextPreserves
<1> QED  BY <1>1, <1>2, PTL DEF Spec

\* A deal is never reported as processed or active without its bytes.
THEOREM TruthfulStatus == Spec => []StatusIsTrue
<1>1. IInv => StatusIsTrue  BY DEF IInv
<1> QED  BY <1>1, Invariance, PTL

-----------------------------------------------------------------------------
(* What a status query reports.                                            *)

LEMMA OnlyAnswersAreSeen ==
  ASSUME [Next]_vars
  PROVE  AnswerStatus \/ UNCHANGED seen
<1>1. CASE Client
  BY <1>1 DEF Client, Submit, SubmitOK, SubmitFails, SendPut, SendPost,
              UploadOK, UploadFails
<1>2. CASE SPStep
  BY <1>2 DEF SPStep, AcceptDeal, LookUp, Lose, Store, BodyBreaks, Finalize,
              Settle
<1>3. CASE Observer
  BY <1>3 DEF Observer, AskStatus, FindDeal, StatusFails
<1>4. CASE UNCHANGED vars
  BY <1>4 DEF vars
<1> QED  BY <1>1, <1>2, <1>3, <1>4 DEF Next

\* A status asked for after UploadSerial returned nil shows the upload, unless a
\* submission was executed after the SP took up its finalize.
THEOREM UploadIsVisible == Spec => ReadYourUpload
<1>1. IInv => (AnswerStatus /\ query.after /\ ~resubmitted
                 => seen' # "accepted")
  <2> SUFFICES ASSUME IInv, AnswerStatus, query.after, ~resubmitted
               PROVE  seen' # "accepted"
    OBVIOUS
  <2>1. query.rec = record /\ record \in finalized
    BY DEF IInv, QueryInv, UploadedInv, AnswerStatus
  <2> QED  BY <2>1 DEF AnswerStatus, StateOf
<1> QED  BY <1>1, Invariance, PTL DEF ReadYourUpload

\* Successive status queries never see a deal go back, unless a record was
\* replaced of which a finalize had been taken up.
THEOREM DealOnlyAdvances == Spec => NeverBack
<1>1. IInv /\ [Next]_vars => (~replaced => Rank(seen') >= Rank(seen))
  <2> SUFFICES ASSUME IInv, [Next]_vars, ~replaced
               PROVE  Rank(seen') >= Rank(seen)
    OBVIOUS
  <2>1. seen \in {"none", "accepted", "processing", "active"}
    BY DEF IInv, TypeOK
  <2>2. CASE AnswerStatus /\ query.rec = record
    <3>1. seen' = StateOf(record)
      BY <2>2 DEF AnswerStatus
    <3>2. seen # "none" => Rank(seen) <= Rank(StateOf(record))
      BY DEF IInv, RecordInv
    <3> QED  BY <2>1, <3>1, <3>2 DEF Rank, StateOf
  <2>3. CASE AnswerStatus /\ query.rec # record
    <3>1. seen' = "accepted" /\ Rank(seen) <= 1
      BY <2>3 DEF AnswerStatus, StateOf, IInv, RecordInv
    <3> QED  BY <2>1, <3>1 DEF Rank
  <2>4. CASE UNCHANGED seen
    BY <2>1, <2>4 DEF Rank
  <2> QED  BY <2>2, <2>3, <2>4, OnlyAnswersAreSeen
<1> QED  BY <1>1, Invariance, PTL DEF Spec, NeverBack

-----------------------------------------------------------------------------
(* The refinement.                                                         *)

LEMMA StepRefines ==
  ASSUME IInv, [Next]_vars
  PROVE  Abstract!Next \/ UNCHANGED Abstract!vars
<1> USE DEF Abstract!vars, Abstract!Next
<1>1. CASE SendPut
  BY <1>1 DEF SendPut, Abstract!Retry, IInv, OutcomeInv
<1>2. CASE UploadOK
  BY <1>2 DEF UploadOK, Abstract!ReturnOk, IInv, OutcomeInv, BytesInv, TypeOK
<1>3. CASE UploadFails
  BY <1>3 DEF UploadFails, Abstract!ReturnError, IInv, OutcomeInv, TypeOK
<1>4. ASSUME NEW h \in handling, Store(h)
      PROVE  Abstract!Next \/ UNCHANGED Abstract!vars
  BY <1>4 DEF Store, Abstract!Arrive
<1>5. CASE Submit \/ SubmitOK \/ SubmitFails \/ SendPost
  BY <1>5 DEF Submit, SubmitOK, SubmitFails, SendPost
<1>6. ASSUME NEW r \in net, AcceptDeal(r) \/ LookUp(r) \/ Lose(r)
      PROVE  UNCHANGED Abstract!vars
  BY <1>6 DEF AcceptDeal, LookUp, Lose
<1>7. ASSUME NEW h \in handling, BodyBreaks(h) \/ Finalize(h)
      PROVE  UNCHANGED Abstract!vars
  BY <1>7 DEF BodyBreaks, Finalize
<1>8. CASE Settle \/ Observer \/ UNCHANGED vars
  BY <1>8 DEF Settle, Observer, AskStatus, FindDeal, StatusFails,
              AnswerStatus, vars
<1> QED
  BY <1>1, <1>2, <1>3, <1>4, <1>5, <1>6, <1>7, <1>8 DEF Next, Client, SPStep

\* UploadSerial, whatever is repeated and however late its requests are
\* executed, implements UploadPromise.
THEOREM KeepsPromise == Spec => Promise
<1>1. Init => Abstract!Init
  BY DEF Init, Abstract!Init
<1>2. IInv /\ [Next]_vars => [Abstract!Next]_(Abstract!vars)
  BY StepRefines
<1> QED  BY <1>1, <1>2, Invariance, PTL DEF Spec, Promise, Abstract!Spec
=============================================================================
