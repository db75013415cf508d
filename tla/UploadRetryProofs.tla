------------------------- MODULE UploadRetryProofs --------------------------
(***************************************************************************)
(* Proofs about UploadRetry: whatever the size of the payload and of the   *)
(* chunks, however many workers and calls, a repeated upload of the same   *)
(* file with the same chunk size implements UploadPromise.                 *)
(*                                                                         *)
(* The argument: chunk number i means the same bytes in every request of   *)
(* every call (BodyInv), so a request that comes late only stores again    *)
(* what is stored already (ChunksInv), and a finalize, early or late, was  *)
(* sent when every chunk had been stored (StoredInv with the theorem       *)
(* FinalizeIsComplete's invariant).                                        *)
(***************************************************************************)
EXTENDS UploadRetry, ChunkedUploadProofs

-----------------------------------------------------------------------------

\* Products are monotone in their first factor.
LEMMA ProductMonotone ==
  ASSUME NEW i \in Nat, NEW j \in Nat, NEW c \in Nat, i <= j
  PROVE  i * c <= j * c
<1>1. PICK d \in Nat : j = i + d
  OBVIOUS
<1>2. j * c = i * c + d * c /\ d * c >= 0
  BY <1>1
<1>3. i * c \in Nat /\ j * c \in Nat /\ d * c \in Nat
  BY <1>1
<1> QED BY <1>2, <1>3

\* Every call uses the same chunk size.
LEMMA SizeFixed ==
  ASSUME TypeOK, TypeOK'
  PROVE  chunkSize' = chunkSize
BY SameFileAssumption DEF TypeOK, CallTypeOK

\* Concatenating chunks 0..chunkMax gives the payload, provided that all of
\* them are stored: chunkMax is then the last chunk of the payload.
LEMMA AssembledIsPayload ==
  ASSUME TypeOK, ChunksInv, AllStored
  PROVE  IsPayload([max |-> chunkMax, part |-> chunks])
<1> DEFINE c == chunkSize
<1>1. L \in Nat /\ c \in Nat \ {0} /\ chunkMax \in 0..L
  BY PayloadAssumption, SizesPositive
     DEF TypeOK, SPTypeOK, CallTypeOK, ChunkNumbers
<1>2. CASE L = 0
  <2>1. 0 \in ChunkNumbers /\ AllChunks = {}
    BY <1>1, <1>2 DEF ChunkNumbers, AllChunks
  <2>2. chunkMax = 0 /\ chunks[0] = NoBytes
    BY <2>1 DEF ChunksInv
  <2> QED BY <1>2, <2>2 DEF IsPayload, NoBytes
<1>3. CASE L > 0
  <2>1. 0 \in AllChunks
    BY <1>1, <1>3 DEF AllChunks, ChunkNumbers
  <2>2. chunkMax \in AllChunks
    BY <2>1 DEF ChunksInv
  <2>3. ASSUME NEW i \in AllChunks
        PROVE  i <= chunkMax
    <3>1. i \in ChunkNumbers /\ i \in Nat /\ i * c < L
      BY <1>1 DEF AllChunks, ChunkNumbers
    <3>2. chunks[i] = PieceOf(i)
      BY DEF AllStored
    <3>3. PieceOf(i).hi > 0
      BY <1>1, <1>3, <3>1 DEF PieceOf
    <3>4. chunks[i] # NoBytes
      BY <3>2, <3>3 DEF NoBytes
    <3> QED BY <3>1, <3>4 DEF ChunksInv
  <2>4. chunkMax * c < L /\ chunkMax < L
    <3>1. chunkMax * c < L
      BY <2>2 DEF AllChunks
    <3>2. chunkMax <= chunkMax * c
      BY <1>1, AtMostProduct
    <3>3. chunkMax * c \in Nat
      BY <1>1
    <3> QED BY <1>1, <3>1, <3>2, <3>3
  <2>5. chunkMax * c + c >= L
    <3>1. chunkMax + 1 \in ChunkNumbers /\ chunkMax + 1 \notin AllChunks
      BY <1>1, <2>3, <2>4 DEF ChunkNumbers
    <3>2. ~((chunkMax + 1) * c < L)
      BY <3>1 DEF AllChunks
    <3>3. (chunkMax + 1) * c = chunkMax * c + c
      BY <1>1
    <3> QED BY <1>1, <3>2, <3>3
  <2>6. chunks[0].lo = 0
    <3>1. chunks[0] = PieceOf(0) /\ 0 * c = 0
      BY <1>1, <2>1 DEF AllStored
    <3> QED BY <3>1 DEF PieceOf
  <2>7. chunks[chunkMax].hi = L
    <3>1. chunks[chunkMax] = PieceOf(chunkMax)
      BY <2>2 DEF AllStored
    <3>2. chunkMax * c \in Nat
      BY <1>1
    <3> QED BY <1>1, <2>5, <3>1, <3>2 DEF PieceOf
  <2>8. ASSUME NEW n \in 1..chunkMax
        PROVE  chunks[n].lo = chunks[n - 1].hi
    <3>1. n \in Nat /\ n - 1 \in Nat /\ n <= chunkMax /\ n - 1 <= chunkMax
      BY <1>1
    <3>2. n * c <= chunkMax * c /\ (n - 1) * c <= chunkMax * c
      BY <1>1, <3>1, ProductMonotone
    <3>3. /\ n * c \in Nat /\ (n - 1) * c \in Nat /\ chunkMax * c \in Nat
          /\ (n - 1) * c + c = n * c
      BY <1>1, <3>1
    <3>4. n \in AllChunks /\ n - 1 \in AllChunks
      BY <1>1, <2>4, <3>1, <3>2, <3>3 DEF AllChunks, ChunkNumbers
    <3>5. chunks[n] = PieceOf(n) /\ chunks[n - 1] = PieceOf(n - 1)
      BY <3>4 DEF AllStored
    <3> QED BY <1>1, <2>4, <3>2, <3>3, <3>5 DEF PieceOf
  <2> QED BY <2>6, <2>7, <2>8 DEF IsPayload
<1> QED BY <1>1, <1>2, <1>3

-----------------------------------------------------------------------------
(* Every action keeps the three parts.                                     *)

\* Nothing of the SP or of the requests changes, nor does the chunk size.
LEMMA CallKeeps ==
  ASSUME RetryInv, Call
  PROVE  BodyInv' /\ ChunksInv' /\ StoredInv'
<1> USE DEF RetryInv, IInv, TypeOK
<1>1. BodyInv'
  BY SizeFixed, CallPreserves
     DEF Call, NewReader, NewWorker, netVars,
         spVars, BodyInv, Busy, PieceOf, AllChunks
<1>2. ChunksInv'
  BY SizeFixed, CallPreserves
     DEF Call, NewReader, NewWorker, netVars,
         spVars, ChunksInv, PieceOf, AllChunks
<1>3. StoredInv'
  BY SizeFixed, CallPreserves
     DEF Call, NewReader, NewWorker, netVars,
         spVars, StoredInv, AllStored, PieceOf, AllChunks
<1> QED BY <1>1, <1>2, <1>3

\* No chunk has been read yet.
LEMMA StartKeeps ==
  ASSUME RetryInv, Start
  PROVE  BodyInv' /\ ChunksInv' /\ StoredInv'
<1> USE DEF RetryInv, IInv, TypeOK
<1>1. ChunksInv' /\ StoredInv'
  BY DEF Start, callVars, netVars, spVars, ChunksInv, PieceOf, AllChunks,
         StoredInv, AllStored
<1>2. BodyInv'
  BY DEF Start, callVars, netVars, spVars, BodyInv, Busy, PieceOf, AllChunks,
         GoroutineTypeOK
<1> QED BY <1>1, <1>2

\* A failed start returns an error.
LEMMA StartFailsKeeps ==
  ASSUME RetryInv, StartFails
  PROVE  BodyInv' /\ ChunksInv' /\ StoredInv'
<1> USE DEF RetryInv, IInv, TypeOK
<1>1. BodyInv' /\ ChunksInv'
  BY DEF StartFails, callVars, netVars, spVars, BodyInv, Busy, PieceOf,
         AllChunks, ChunksInv
<1>2. StoredInv'
  BY DEF StartFails, callVars, netVars, spVars, StoredInv, AllStored, PieceOf,
         AllChunks
<1> QED BY <1>1, <1>2

\* Waiting changes nothing of what is stored.
LEMMA JoinReaderKeeps ==
  ASSUME RetryInv, JoinReader
  PROVE  BodyInv' /\ ChunksInv' /\ StoredInv'
<1> USE DEF RetryInv, IInv, TypeOK
<1>1. BodyInv' /\ ChunksInv' /\ StoredInv'
  BY DEF JoinReader, callVars, netVars, spVars, BodyInv, Busy, PieceOf,
         AllChunks, ChunksInv, StoredInv, AllStored
<1> QED BY <1>1

\* Neither does it when it ends in an error.
LEMMA JoinWorkersKeeps ==
  ASSUME RetryInv, JoinWorkers
  PROVE  BodyInv' /\ ChunksInv' /\ StoredInv'
<1> USE DEF RetryInv, IInv, TypeOK
<1>1. BodyInv' /\ ChunksInv'
  BY DEF JoinWorkers, Return, callVars, netVars, spVars, BodyInv, Busy,
         PieceOf, AllChunks, ChunksInv
<1>2. StoredInv'
  BY DEF JoinWorkers, Return, callVars, netVars, spVars, StoredInv, AllStored,
         PieceOf, AllChunks
<1> QED BY <1>1, <1>2

\* Every chunk was acknowledged, so every chunk is stored.
LEMMA SendFinalizeKeeps ==
  ASSUME RetryInv, SendFinalize
  PROVE  BodyInv' /\ ChunksInv' /\ StoredInv'
<1> USE DEF RetryInv, IInv, TypeOK
<1>1. BodyInv'
  BY DEF SendFinalize, FinalizeRequest, callVars, spVars, BodyInv, Busy,
         PieceOf, AllChunks
<1>2. ChunksInv'
  BY DEF SendFinalize, FinalizeRequest, callVars, spVars, ChunksInv, PieceOf,
         AllChunks
<1>3. StoredInv'
  <2>1. AllChunks \subseteq acked
    <3>1. FinalizeOnlyComplete' /\ pc' = "finalSent"
      BY SendFinalizePreserves DEF SendFinalize
    <3> QED BY <3>1 DEF FinalizeOnlyComplete, AllChunks, SendFinalize, callVars
  <2>2. AllStored
    BY <2>1 DEF AllStored, StoredInv
  <2> QED BY <2>2 DEF SendFinalize, FinalizeRequest, callVars, spVars,
                      StoredInv, AllStored, PieceOf, AllChunks
<1> QED BY <1>1, <1>2, <1>3

\* The answer proves that the SP executed the finalize.
LEMMA FinalizeOKKeeps ==
  ASSUME RetryInv, FinalizeOK
  PROVE  BodyInv' /\ ChunksInv' /\ StoredInv'
<1> USE DEF RetryInv, IInv, TypeOK
<1>1. BodyInv'
  BY DEF FinalizeOK, Return, callVars, spVars, BodyInv, Busy, PieceOf,
         AllChunks
<1>2. ChunksInv'
  BY DEF FinalizeOK, Return, callVars, spVars, ChunksInv, PieceOf, AllChunks
<1>3. StoredInv'
  BY DEF FinalizeOK, Return, callVars, spVars, StoredInv, AllStored, PieceOf,
         AllChunks, FinalizeRequest
<1> QED BY <1>1, <1>2, <1>3

\* An error promises nothing.
LEMMA FinalizeFailsKeeps ==
  ASSUME RetryInv, FinalizeFails
  PROVE  BodyInv' /\ ChunksInv' /\ StoredInv'
<1> USE DEF RetryInv, IInv, TypeOK
<1>1. BodyInv'
  BY DEF FinalizeFails, Return, callVars, spVars, BodyInv, Busy, PieceOf,
         AllChunks
<1>2. ChunksInv'
  BY DEF FinalizeFails, Return, callVars, spVars, ChunksInv, PieceOf,
         AllChunks
<1>3. StoredInv'
  BY DEF FinalizeFails, Return, callVars, spVars, StoredInv, AllStored,
         PieceOf, AllChunks
<1> QED BY <1>1, <1>2, <1>3

\* The reader cuts the body at multiples of the chunk size.
LEMMA ReadFullKeeps ==
  ASSUME RetryInv, ReadFull
  PROVE  BodyInv' /\ ChunksInv' /\ StoredInv'
<1> USE DEF RetryInv, IInv, TypeOK
<1>1. ChunksInv' /\ StoredInv'
  BY DEF ReadFull, ReadResult, callVars, netVars, spVars, ChunksInv, PieceOf,
         AllChunks, StoredInv, AllStored
<1>2. BodyInv'
  <2>1. offset \in Nat /\ chunkSize \in Nat /\ L \in Nat
    BY OffsetNat, SizesPositive, PayloadAssumption DEF CallTypeOK
  <2>2. PICK hi, err : /\ ReadResult(hi, err)
                       /\ hi = IF offset + chunkSize <= L
                               THEN offset + chunkSize ELSE L
    BY <2>1, SameFileAssumption DEF ReadFull
  <2>3. /\ reader'.idx = reader.idx
        /\ reader'.body = [lo |-> offset, hi |-> hi]
    BY <2>2 DEF ReadResult, GoroutineTypeOK
  <2>4. reader'.body = PieceOf(reader.idx)'
    BY <2>2, <2>3 DEF ReadFull, callVars, PieceOf, offset
  <2> QED BY <2>4 DEF ReadFull, callVars, netVars, BodyInv, Busy, PieceOf,
                      AllChunks
<1> QED BY <1>1, <1>2

\* The job keeps its number and its bytes.
LEMMA HandoffKeeps ==
  ASSUME RetryInv, NEW w \in Workers, Handoff(w)
  PROVE  BodyInv' /\ ChunksInv' /\ StoredInv'
<1> USE DEF RetryInv, IInv, TypeOK
<1>1. ChunksInv' /\ StoredInv'
  BY DEF Handoff, callVars, netVars, spVars, ChunksInv, PieceOf, AllChunks,
         StoredInv, AllStored
<1>2. BodyInv'
  BY SizesPositive, PayloadAssumption
     DEF Handoff, callVars, netVars,
         spVars, BodyInv, Busy, PieceOf, AllChunks, GoroutineTypeOK,
         ReaderInv, offset, ChunkNumbers
<1> QED BY <1>1, <1>2

\* The chunk is dropped.
LEMMA ReaderCancelledKeeps ==
  ASSUME RetryInv, ReaderCancelled
  PROVE  BodyInv' /\ ChunksInv' /\ StoredInv'
<1> USE DEF RetryInv, IInv, TypeOK
<1>1. ChunksInv' /\ StoredInv'
  BY DEF ReaderCancelled, callVars, netVars, spVars, ChunksInv, PieceOf,
         AllChunks, StoredInv, AllStored
<1>2. BodyInv'
  BY DEF ReaderCancelled, callVars, netVars, spVars, BodyInv, Busy, PieceOf,
         AllChunks, GoroutineTypeOK
<1> QED BY <1>1, <1>2

\* The reader goes on with nothing to offer.
LEMMA ReaderSwitchKeeps ==
  ASSUME RetryInv, ReaderSwitch
  PROVE  BodyInv' /\ ChunksInv' /\ StoredInv'
<1> USE DEF RetryInv, IInv, TypeOK
<1>1. ChunksInv' /\ StoredInv'
  BY DEF ReaderSwitch, callVars, netVars, spVars, ChunksInv, PieceOf,
         AllChunks, StoredInv, AllStored
<1>2. BodyInv'
  BY DEF ReaderSwitch, callVars, netVars, spVars, BodyInv, Busy, PieceOf,
         AllChunks, GoroutineTypeOK
<1> QED BY <1>1, <1>2

\* The worker had no job.
LEMMA WorkerExitKeeps ==
  ASSUME RetryInv, NEW w \in Workers, WorkerExit(w)
  PROVE  BodyInv' /\ ChunksInv' /\ StoredInv'
<1> USE DEF RetryInv, IInv, TypeOK
<1>1. ChunksInv' /\ StoredInv'
  BY DEF WorkerExit, callVars, netVars, spVars, ChunksInv, PieceOf, AllChunks,
         StoredInv, AllStored
<1>2. BodyInv'
  BY DEF WorkerExit, callVars, netVars, spVars, BodyInv, Busy, PieceOf,
         AllChunks, GoroutineTypeOK
<1> QED BY <1>1, <1>2

\* The request has the number and the bytes of the job.
LEMMA SendChunkKeeps ==
  ASSUME RetryInv, NEW w \in Workers, SendChunk(w)
  PROVE  BodyInv' /\ ChunksInv' /\ StoredInv'
<1> USE DEF RetryInv, IInv, TypeOK
<1>1. BodyInv'
  BY DEF SendChunk, ChunkRequest, callVars, spVars, BodyInv, Busy, PieceOf,
         AllChunks, GoroutineTypeOK
<1>2. ChunksInv'
  BY DEF SendChunk, ChunkRequest, callVars, spVars, ChunksInv, PieceOf,
         AllChunks
<1>3. StoredInv'
  BY DEF SendChunk, ChunkRequest, callVars, spVars, StoredInv, AllStored,
         PieceOf, AllChunks
<1> QED BY <1>1, <1>2, <1>3

\* An answered chunk is stored.
LEMMA ChunkOKKeeps ==
  ASSUME RetryInv, NEW w \in Workers, ChunkOK(w)
  PROVE  BodyInv' /\ ChunksInv' /\ StoredInv'
<1> USE DEF RetryInv, IInv, TypeOK
<1>1. BodyInv'
  BY DEF ChunkOK, ChunkRequest, callVars, spVars, BodyInv, Busy, PieceOf,
         AllChunks, GoroutineTypeOK
<1>2. ChunksInv'
  BY DEF ChunkOK, ChunkRequest, callVars, spVars, ChunksInv, PieceOf,
         AllChunks
<1>3. StoredInv'
  BY DEF ChunkOK, ChunkRequest, callVars, spVars, StoredInv, AllStored,
         PieceOf, AllChunks
<1> QED BY <1>1, <1>2, <1>3

\* The job is dropped; its request may stay on its way.
LEMMA ChunkFailsKeeps ==
  ASSUME RetryInv, NEW w \in Workers, ChunkFails(w)
  PROVE  BodyInv' /\ ChunksInv' /\ StoredInv'
<1> USE DEF RetryInv, IInv, TypeOK
<1>1. BodyInv'
  BY DEF ChunkFails, callVars, spVars, BodyInv, Busy, PieceOf, AllChunks,
         GoroutineTypeOK
<1>2. ChunksInv'
  BY DEF ChunkFails, callVars, spVars, ChunksInv, PieceOf, AllChunks
<1>3. StoredInv'
  BY DEF ChunkFails, callVars, spVars, StoredInv, AllStored, PieceOf,
         AllChunks
<1> QED BY <1>1, <1>2, <1>3

\* Nothing but the ctx changes.
LEMMA CancelCtxKeeps ==
  ASSUME RetryInv, CancelCtx
  PROVE  BodyInv' /\ ChunksInv' /\ StoredInv'
<1> USE DEF RetryInv, IInv, TypeOK
<1>1. BodyInv' /\ ChunksInv' /\ StoredInv'
  BY DEF CancelCtx, callVars, netVars, spVars, BodyInv, Busy, PieceOf,
         AllChunks, ChunksInv, StoredInv, AllStored
<1> QED BY <1>1

\* A chunk stores what is stored or missing; a finalize assembles the payload.
LEMMA SPHandlesKeeps ==
  ASSUME RetryInv, NEW r \in net, SPHandles(r)
  PROVE  BodyInv' /\ ChunksInv' /\ StoredInv'
<1> USE DEF RetryInv, IInv, TypeOK
<1>1. BodyInv'
  BY DEF SPHandles, clientVars, callVars, BodyInv, Busy, PieceOf, AllChunks
<1>2. CASE r.kind = "chunk" /\ PutChunk(r.idx, r.body)
  <2>1. r.idx \in AllChunks /\ r.body = PieceOf(r.idx)
    BY <1>2 DEF BodyInv
  <2>2. r.idx \in Nat /\ chunkMax \in Nat /\ AllChunks \subseteq ChunkNumbers
    BY <2>1, PayloadAssumption DEF SPTypeOK, AllChunks, ChunkNumbers
  <2>3. chunks' = [chunks EXCEPT ![r.idx] = PieceOf(r.idx)]
    BY <1>2, <2>1 DEF PutChunk
  <2>4. chunkSize' = chunkSize
    BY DEF SPHandles, clientVars, callVars
  <2>5. ChunksInv'
    BY <1>2, <2>1, <2>2, <2>3, <2>4, PayloadAssumption
       DEF PutChunk, RaiseMax, ChunksInv, SPTypeOK, PieceOf, AllChunks,
           ChunkNumbers
  <2>6. \A i \in ChunkNumbers : chunks[i] = PieceOf(i) =>
                                 chunks'[i] = PieceOf(i)
    BY <2>3 DEF SPTypeOK
  <2>7. StoredInv'
    <3>1. \A i \in acked' : chunks'[i] = PieceOf(i)'
      BY <2>4, <2>6 DEF SPHandles, clientVars, StoredInv, CallTypeOK, PieceOf
    <3>2. \A s \in replies' :
            s.kind = "chunk" => chunks'[s.idx] = PieceOf(s.idx)'
      <4>1. replies' \subseteq replies \union {r}
        BY DEF SPHandles
      <4>2. chunks'[r.idx] = PieceOf(r.idx)
        BY <2>1, <2>2, <2>3 DEF SPTypeOK
      <4>3. \A s \in replies : s.idx \in ChunkNumbers
        BY DEF NetTypeOK, Request
      <4> QED BY <2>4, <2>6, <4>1, <4>2, <4>3 DEF StoredInv, PieceOf
    <3>3. AllStored => AllStored'
      BY <2>2, <2>4, <2>6 DEF AllStored, AllChunks, PieceOf
    <3>4. \A s \in net' : s.kind = "finalize" => AllStored'
      BY <3>3 DEF SPHandles, StoredInv
    <3>5. \A s \in replies' : s.kind = "finalize" => s \in replies
      BY <1>2 DEF SPHandles
    <3> QED BY <1>2, <3>1, <3>2, <3>4, <3>5
            DEF SPHandles, PutChunk, clientVars, StoredInv
  <2> QED BY <1>1, <2>5, <2>7
<1>3. CASE r.kind = "finalize" /\ FinalizeChunks
  <2>1. AllStored
    BY <1>3 DEF StoredInv
  <2>2. uploaded' /\ IsPayload(upload')
    BY <1>3, <2>1, AssembledIsPayload DEF FinalizeChunks
  <2>3. chunks' = chunks /\ chunkMax' = chunkMax /\ chunkSize' = chunkSize
    BY <1>3 DEF FinalizeChunks, SPHandles, clientVars, callVars
  <2>4. ChunksInv'
    BY <2>3 DEF ChunksInv, PieceOf, AllChunks
  <2>5. \A s \in replies' : s.kind = "chunk" => s \in replies
    BY <1>3 DEF SPHandles
  <2>6. StoredInv'
    BY <2>1, <2>2, <2>3, <2>5
       DEF SPHandles, clientVars, StoredInv, AllStored, PieceOf, AllChunks,
           IsPayload
  <2> QED BY <1>1, <2>4, <2>6
<1>4. CASE DealNotFound /\ UNCHANGED replies
  BY <1>1, <1>4 DEF SPHandles, DealNotFound, clientVars, callVars, spVars,
                    ChunksInv, StoredInv, AllStored, PieceOf, AllChunks
<1> QED BY <1>2, <1>3, <1>4 DEF SPHandles

\* A lost request changes nothing that is stored.
LEMMA LoseKeeps ==
  ASSUME RetryInv, NEW r \in net, Lose(r)
  PROVE  BodyInv' /\ ChunksInv' /\ StoredInv'
<1> USE DEF RetryInv, IInv, TypeOK
<1>1. BodyInv'
  BY DEF Lose, clientVars, callVars, spVars, BodyInv, Busy, PieceOf, AllChunks
<1>2. ChunksInv'
  BY DEF Lose, clientVars, callVars, spVars, ChunksInv, PieceOf, AllChunks
<1>3. StoredInv'
  BY DEF Lose, clientVars, callVars, spVars, StoredInv, AllStored, PieceOf,
         AllChunks
<1> QED BY <1>1, <1>2, <1>3

-----------------------------------------------------------------------------
(* The theorems.                                                           *)

\* RetryInv holds initially: nothing is stored, nothing is asked.
LEMMA InitRetryInv ==
  ASSUME Init
  PROVE  RetryInv
<1>1. IInv
  BY InitInv
<1>2. BodyInv
  BY DEF Init, NewReader, NewWorker, BodyInv, Busy
<1>3. ChunksInv
  BY DEF Init, SPInit, ChunksInv
<1>4. StoredInv
  BY DEF Init, SPInit, StoredInv
<1> QED BY <1>1, <1>2, <1>3, <1>4 DEF RetryInv

\* RetryInv is inductive.
LEMMA NextKeeps ==
  ASSUME RetryInv, [Next]_vars
  PROVE  RetryInv'
<1>1. IInv'
  BY NextPreserves DEF RetryInv
<1>2. CASE Call
  BY <1>1, <1>2, CallKeeps DEF RetryInv
<1>3. CASE MainStep
  BY <1>1, <1>3, StartKeeps, StartFailsKeeps, JoinReaderKeeps,
     JoinWorkersKeeps, SendFinalizeKeeps, FinalizeOKKeeps, FinalizeFailsKeeps
     DEF MainStep, RetryInv
<1>4. CASE ReaderStep
  BY <1>1, <1>4, ReadFullKeeps, HandoffKeeps, ReaderCancelledKeeps,
     ReaderSwitchKeeps DEF ReaderStep, RetryInv
<1>5. ASSUME NEW w \in Workers, WorkerStep(w)
      PROVE  RetryInv'
  BY <1>1, <1>5, WorkerExitKeeps, SendChunkKeeps, ChunkOKKeeps,
     ChunkFailsKeeps DEF WorkerStep, RetryInv
<1>6. CASE CancelCtx
  BY <1>1, <1>6, CancelCtxKeeps DEF RetryInv
<1>7. ASSUME NEW r \in net, SPHandles(r) \/ Lose(r)
      PROVE  RetryInv'
  BY <1>1, <1>7, SPHandlesKeeps, LoseKeeps DEF RetryInv
<1>8. CASE Finished \/ UNCHANGED vars
  <2>1. BodyInv' /\ ChunksInv' /\ StoredInv'
    BY <1>8 DEF Finished, vars, clientVars, callVars, netVars, spVars,
                RetryInv, BodyInv, ChunksInv, StoredInv, Busy, AllStored,
                PieceOf, AllChunks
  <2> QED BY <1>1, <2>1 DEF RetryInv
<1> QED BY <1>2, <1>3, <1>4, <1>5, <1>6, <1>7, <1>8 DEF Next

\* RetryInv holds in every reachable state.
THEOREM RetryInvariance == Spec => []RetryInv
<1>1. Init => RetryInv
  BY InitRetryInv
<1>2. RetryInv /\ [Next]_vars => RetryInv'
  BY NextKeeps
<1> QED BY <1>1, <1>2, PTL DEF Spec

\* When UploadChunked returns nil, the SP holds exactly the bytes of the file,
\* after any number of failed calls and with requests of those calls arriving
\* at any time (integration_test.go:269-277, for one undisturbed call).
THEOREM SuccessIsStored == Spec => []SuccessMeansStored
<1>1. RetryInv => SuccessMeansStored
  BY DEF RetryInv, StoredInv, SuccessMeansStored, SPHoldsPayload
<1> QED BY <1>1, RetryInvariance, PTL

\* Once the SP has assembled an upload it keeps the payload.
LEMMA HeldIsKept ==
  ASSUME RetryInv, RetryInv', [Next]_vars
  PROVE  SPHoldsPayload => SPHoldsPayload'
<1>1. uploaded => uploaded'
  <2>1. ASSUME NEW r \in net, SPHandles(r)
        PROVE  uploaded => uploaded'
    BY <2>1 DEF SPHandles, PutChunk, FinalizeChunks, DealNotFound, spVars
  <2> QED BY <2>1
          DEF Next, Call, MainStep, Start, StartFails, JoinReader,
              JoinWorkers, SendFinalize, FinalizeOK, FinalizeFails,
              ReaderStep, ReadFull, Handoff, ReaderCancelled, ReaderSwitch,
              WorkerStep, WorkerExit, SendChunk, ChunkOK, ChunkFails,
              CancelCtx, Lose, Finished, vars, spVars
<1> QED BY <1>1 DEF RetryInv, StoredInv, SPHoldsPayload

\* Every step of the program is a step of the promise, or changes nothing that
\* the promise speaks of.
LEMMA StepRefines ==
  ASSUME RetryInv, RetryInv', [Next]_vars
  PROVE  [Abstract!Next]_(Abstract!vars)
<1> DEFINE held == IF SPHoldsPayload THEN "payload" ELSE "nothing"
<1> USE DEF Abstract!vars, Abstract!Next
<1>1. ASSUME NEW r \in net, SPHandles(r)
      PROVE  [Abstract!Next]_(Abstract!vars)
  <2>1. outcome' = outcome
    BY <1>1 DEF SPHandles, clientVars
  <2>2. SPHoldsPayload => SPHoldsPayload'
    BY HeldIsKept
  <2> QED BY <2>1, <2>2 DEF Abstract!Arrive
<1>2. ASSUME UNCHANGED spVars
      PROVE  held' = held
  BY <1>2 DEF spVars, SPHoldsPayload, IsPayload
<1>3. ASSUME UNCHANGED <<spVars, outcome>>
      PROVE  [Abstract!Next]_(Abstract!vars)
  BY <1>2, <1>3
<1>4. ASSUME UNCHANGED spVars, outcome = "none", outcome' = "error"
      PROVE  [Abstract!Next]_(Abstract!vars)
  BY <1>2, <1>4 DEF Abstract!ReturnError
<1>5. ASSUME pc # "returned"
      PROVE  outcome = "none"
  BY <1>5 DEF RetryInv, IInv, PhaseInv
<1>6. CASE Call
  <2>1. outcome \in {"none", "error"} /\ outcome' = "none"
    BY <1>5, <1>6 DEF Call
  <2>2. UNCHANGED spVars
    BY <1>6 DEF Call
  <2>3. CASE outcome = "none"
    BY <1>3, <2>1, <2>2, <2>3
  <2>4. CASE outcome = "error"
    BY <1>2, <2>1, <2>2, <2>4 DEF Abstract!Retry
  <2> QED BY <2>1, <2>3, <2>4
<1>7. CASE StartFails
  BY <1>4, <1>5, <1>7 DEF StartFails
<1>8. CASE JoinWorkers
  BY <1>3, <1>4, <1>5, <1>8 DEF JoinWorkers, Return
<1>9. CASE FinalizeFails
  BY <1>4, <1>5, <1>9 DEF FinalizeFails, Return
<1>10. CASE FinalizeOK
  <2>1. outcome = "none" /\ outcome' = "ok" /\ UNCHANGED spVars
    BY <1>5, <1>10 DEF FinalizeOK, Return
  <2>2. SPHoldsPayload
    BY <1>10 DEF FinalizeOK, FinalizeRequest, RetryInv, StoredInv,
                 SPHoldsPayload
  <2> QED BY <1>2, <2>1, <2>2 DEF Abstract!ReturnOk
<1>11. CASE Start \/ JoinReader \/ SendFinalize
  BY <1>3, <1>11 DEF Start, JoinReader, SendFinalize
<1>12. CASE ReaderStep
  BY <1>3, <1>12
     DEF ReaderStep, ReadFull, Handoff, ReaderCancelled, ReaderSwitch
<1>13. ASSUME NEW w \in Workers, WorkerStep(w)
       PROVE  [Abstract!Next]_(Abstract!vars)
  BY <1>3, <1>13 DEF WorkerStep, WorkerExit, SendChunk, ChunkOK, ChunkFails
<1>14. CASE CancelCtx \/ (\E r \in net : Lose(r)) \/ Finished \/ UNCHANGED vars
  BY <1>3, <1>14 DEF CancelCtx, Lose, Finished, vars, clientVars
<1> QED BY <1>1, <1>6, <1>7, <1>8, <1>9, <1>10, <1>11, <1>12, <1>13, <1>14
        DEF Next, MainStep

\* UploadChunked, retried, with the SP implements UploadPromise.
THEOREM KeepsPromise == Spec => Promise
<1>1. Init => Abstract!Init
  BY DEF Init, SPInit, Abstract!Init, SPHoldsPayload
<1>2. RetryInv /\ RetryInv' /\ [Next]_vars => [Abstract!Next]_(Abstract!vars)
  BY StepRefines
<1> QED BY <1>1, <1>2, RetryInvariance, PTL DEF Spec, Promise, Abstract!Spec
=============================================================================
