------------------------------- MODULE MockSP -------------------------------
(***************************************************************************)
(* The storage provider of pkg/mk20/mockserver/mockserver.go, the          *)
(* executable reference of the mk20 protocol in this repository, for one   *)
(* deal identifier and its chunked upload.  Its four maps deals, uploads,  *)
(* chunks and chunkMax are each reduced to their entry for that deal.      *)
(*                                                                         *)
(* This module has no next-state relation: each handler is an action       *)
(* operator that the module of a client conjoins with the arrival of a     *)
(* request.  handleChunkedUpload does all its work on the maps inside one  *)
(* critical section of s.mu, so one step is one request.                   *)
(*                                                                         *)
(* The payload is L distinct units.  A stretch of it is the record of its  *)
(* bounds, so concatenation gives back the payload exactly when the bounds *)
(* meet; all that is asked of bytes here is where in the payload they come *)
(* from.                                                                   *)
(***************************************************************************)
EXTENDS Integers

CONSTANT L   \* payload units: the number of distinguishable parts of a file

ASSUME PayloadAssumption == L \in Nat

Stretch == [lo : 0..L, hi : 0..L]

NoBytes == [lo |-> 0, hi |-> 0]

VARIABLES
  deal,      \* BOOLEAN: deals[id] exists
  chunks,    \* chunks[id]: chunk number -> bytes (a missing entry is empty)
  chunkMax,  \* chunkMax[id]: the highest chunk number stored
  upload,    \* uploads[id]: the parts concatenated by the last finalize
  uploaded   \* deals[id].uploaded

spVars == <<deal, chunks, chunkMax, upload, uploaded>>

\* A chunk holds at least one unit, so no upload numbers a chunk L or above;
\* index L is kept as the sentinel past the last chunk.
ChunkNumbers == 0..L

SPTypeOK ==
  /\ deal \in BOOLEAN
  /\ chunks \in [ChunkNumbers -> Stretch]
  /\ chunkMax \in ChunkNumbers
  /\ upload \in [max : ChunkNumbers, part : [ChunkNumbers -> Stretch]]
  /\ uploaded \in BOOLEAN

\* The maps as New() makes them; whether SubmitDeal was accepted before the
\* upload begins is up to the caller.
SPInit ==
  /\ deal \in BOOLEAN
  /\ chunks = [n \in ChunkNumbers |-> NoBytes]
  /\ chunkMax = 0
  /\ upload = [max |-> 0, part |-> [n \in ChunkNumbers |-> NoBytes]]
  /\ uploaded = FALSE

-----------------------------------------------------------------------------
\* A slip the model must notice: chunkMax follows the last chunk to arrive.
RaiseMaxToLast(n) == n

\* The highest chunk number after chunk n is stored.
RaiseMax(n) == IF n > chunkMax THEN n ELSE chunkMax

\* A slip the model must notice: the chunk is stored under the next number.
PutChunkOffByOne(n, body) ==
  /\ deal
  /\ chunks' = [chunks EXCEPT ![n] = body, ![n + 1] = body]
  /\ chunkMax' = RaiseMax(n + 1)
  /\ UNCHANGED <<deal, upload, uploaded>>

\* PUT /uploads/{id}/{n}, answered 200.
PutChunk(n, body) ==
  /\ deal
  /\ chunks' = [chunks EXCEPT ![n] = body]
  /\ chunkMax' = RaiseMax(n)
  /\ UNCHANGED <<deal, upload, uploaded>>

\* A slip the model must notice: the deal is marked but nothing is assembled.
FinalizeMarksOnly ==
  /\ deal
  /\ uploaded' = TRUE
  /\ UNCHANGED <<deal, chunks, chunkMax, upload>>

\* POST /uploads/finalize/{id}, answered 200: chunks 0..chunkMax become the
\* upload, whatever call they come from.
FinalizeChunks ==
  /\ deal
  /\ upload' = [max |-> chunkMax, part |-> chunks]
  /\ uploaded' = TRUE
  /\ UNCHANGED <<deal, chunks, chunkMax>>

\* Either request for a deal that SubmitDeal did not create: 404, no effect.
DealNotFound == ~deal /\ UNCHANGED spVars

-----------------------------------------------------------------------------
\* u, concatenated, is the payload: it starts at 0, every part begins where
\* the part before it ends, and the last ends at L.
IsPayload(u) ==
  /\ u.part[0].lo = 0
  /\ u.part[u.max].hi = L
  /\ \A n \in 1..u.max : u.part[n].lo = u.part[n - 1].hi

SPHoldsPayload == uploaded /\ IsPayload(upload)
=============================================================================
