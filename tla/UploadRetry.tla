---------------------------- MODULE UploadRetry ----------------------------
(***************************************************************************)
(* ChunkedUpload for a caller that repeats a failed UploadChunked for the  *)
(* same file with the same chunk size, and whose file can be read: the     *)
(* conditions under which the parts of several calls fit together at the   *)
(* SP.  (ChunkedUpload_resize.cfg shows what happens without them.)        *)
(***************************************************************************)
EXTENDS ChunkedUpload

ASSUME SameFileAssumption ==
  /\ BodyMayFail = FALSE
  /\ \A s, t \in ChunkSizes : s = t

-----------------------------------------------------------------------------
(* The inductive invariant behind Promise.                                 *)

\* The bytes of chunk i, in this call as in every other.
PieceOf(i) ==
  [lo |-> i * chunkSize,
   hi |-> IF i * chunkSize + chunkSize <= L
          THEN i * chunkSize + chunkSize ELSE L]

AllStored == \A i \in AllChunks : chunks[i] = PieceOf(i)

\* A chunk number means the same bytes everywhere: at the reader, with the
\* workers, in every request old or new, and at the SP.
BodyInv ==
  /\ reader.st = "sending" => reader.body = PieceOf(reader.idx)
  /\ \A w \in Workers :
       Busy(w) => /\ worker[w].idx \in AllChunks
                  /\ worker[w].body = PieceOf(worker[w].idx)
  /\ \A r \in net \union replies :
       r.kind = "chunk" => r.idx \in AllChunks /\ r.body = PieceOf(r.idx)

ChunksInv ==
  /\ \A i \in ChunkNumbers :
       chunks[i] # NoBytes =>
         i \in AllChunks /\ i <= chunkMax /\ chunks[i] = PieceOf(i)
  /\ chunkMax # 0 => chunkMax \in AllChunks

\* What was answered 200 is at the SP, and the SP is never asked to finalize,
\* not even by a request of an earlier call, before all chunks are there.
StoredInv ==
  /\ \A i \in acked : chunks[i] = PieceOf(i)
  /\ \A r \in replies : r.kind = "chunk" => chunks[r.idx] = PieceOf(r.idx)
  /\ \A r \in net : r.kind = "finalize" => AllStored
  /\ \A r \in replies : r.kind = "finalize" => uploaded
  /\ outcome = "ok" => uploaded
  /\ uploaded => IsPayload(upload)

RetryInv == IInv /\ BodyInv /\ ChunksInv /\ StoredInv
=============================================================================
