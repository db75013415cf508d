------------------------ MODULE ChunkedUploadProofs -------------------------
(***************************************************************************)
(* Proofs about ChunkedUpload, for every payload size, number of workers,  *)
(* set of chunk sizes and number of calls: IInv is inductive, and with it  *)
(* the type invariant and the safety invariants are theorems of Spec.      *)
(*                                                                         *)
(* FinalizeOnlyComplete is not inductive.  What makes it so is that while  *)
(* nothing went wrong (Untroubled) every chunk read so far was answered or *)
(* is with a worker, and the reader stops only at the end of the body      *)
(* (ProgressInv); that SendFinalize happens only while nothing went wrong  *)
(* (PhaseInv, ErrorInv); and that then all workers have exited, so that no *)
(* chunk is with a worker (PhaseInv).                                      *)
(***************************************************************************)
EXTENDS ChunkedUpload, TLAPS

-----------------------------------------------------------------------------
(* Arithmetic.                                                             *)

\* Whatever the options, a chunk holds at least one unit (lines 49-58).
LEMMA SizesPositive == ChunkSizes \subseteq Nat \ {0}
BY ChunkSizeAssumption DEF ChunkSizes, OptOrDefault

\* An order of products is an order of their factors.
LEMMA LessByFactor ==
  ASSUME NEW i \in Nat, NEW j \in Nat, NEW c \in Nat, i * c < j * c
  PROVE  i < j
<1>1. SUFFICES ASSUME j <= i PROVE FALSE
  OBVIOUS
<1>2. PICK d \in Nat : i = j + d
  BY <1>1
<1>3. i * c = j * c + d * c /\ d * c >= 0
  BY <1>2
<1> QED BY <1>3

\* Chunk i starts at or after unit i.
LEMMA AtMostProduct ==
  ASSUME NEW i \in Nat, NEW c \in Nat \ {0}
  PROVE  i <= i * c
<1>1. i * c = i + i * (c - 1) /\ i * (c - 1) >= 0
  OBVIOUS
<1> QED BY <1>1

\* The reader's offset is a number.
LEMMA OffsetNat ==
  ASSUME TypeOK
  PROVE  offset \in Nat
BY SizesPositive DEF TypeOK, CallTypeOK, GoroutineTypeOK, ChunkNumbers, offset

-----------------------------------------------------------------------------
(* Every action preserves IInv.                                            *)

\* A call begins with nothing read, nothing acknowledged and no error.
LEMMA CallPreserves ==
  ASSUME IInv, Call
  PROVE  IInv'
<1> USE DEF IInv, TypeOK
<1>1. /\ SPTypeOK' /\ NetTypeOK'
  BY DEF Call, NewReader, NewWorker, netVars, spVars, SPTypeOK, NetTypeOK
<1>2. CallTypeOK'
  <2>1. attempt' \in 0..MaxAttempts
    BY AttemptsAssumption DEF Call, CallTypeOK
  <2>2. acked' \subseteq ChunkNumbers
    BY DEF Call
  <2> QED BY <2>1, <2>2 DEF Call, CallTypeOK
<1>3. GoroutineTypeOK'
  BY PayloadAssumption
     DEF Call, NewReader, NewWorker, netVars, spVars,
         GoroutineTypeOK, ChunkNumbers, Stretch, NoBytes
<1>4. PhaseInv'
  BY AttemptsAssumption
     DEF Call, NewReader, NewWorker, netVars, spVars,
         PhaseInv, WorkersExited, CallTypeOK
<1>5. ReaderInv'
  BY DEF Call, NewReader, NewWorker, netVars, spVars, ReaderInv, offset
<1>6. ErrorInv'
  BY DEF Call, NewReader, NewWorker, netVars, spVars, ErrorInv
<1>7. ProgressInv'
  BY PayloadAssumption
     DEF Call, NewReader, NewWorker, netVars, spVars,
         ProgressInv, Untroubled, uploadCtxDone, Busy, offset, ChunkNumbers
<1>8. FinalizeOnlyComplete'
  BY DEF Call, NewReader, NewWorker, netVars, spVars, FinalizeOnlyComplete,
         AllChunks
<1>9. RootCause'
  BY DEF Call, NewReader, NewWorker, netVars, spVars, RootCause
<1>10. NoGoroutineOutlives'
  BY DEF Call, NewReader, NewWorker, netVars, spVars, NoGoroutineOutlives
<1> QED BY <1>1, <1>2, <1>3, <1>4, <1>5, <1>6, <1>7, <1>8, <1>9, <1>10

\* The goroutines are launched with the reader at the start of the body.
LEMMA StartPreserves ==
  ASSUME IInv, Start
  PROVE  IInv'
<1> USE DEF IInv, TypeOK
<1>1. /\ SPTypeOK' /\ NetTypeOK' /\ RootCause'
  BY DEF Start, callVars, errVars, netVars, spVars, SPTypeOK, NetTypeOK,
         RootCause
<1>2. CallTypeOK'
  BY DEF Start, callVars, errVars, netVars, spVars, CallTypeOK
<1>3. GoroutineTypeOK'
  BY DEF Start, callVars, errVars, netVars, spVars, GoroutineTypeOK
<1>4. PhaseInv'
  BY DEF Start, callVars, errVars, netVars, spVars, PhaseInv, WorkersExited,
         GoroutineTypeOK
<1>5. ReaderInv'
  BY SizesPositive, PayloadAssumption
     DEF Start, callVars, errVars,
         netVars, spVars, ReaderInv, offset, PhaseInv, CallTypeOK,
         GoroutineTypeOK
<1>6. ErrorInv'
  BY DEF Start, callVars, errVars, netVars, spVars, ErrorInv
<1>7. ProgressInv'
  BY DEF Start, callVars, errVars, netVars, spVars, ProgressInv, Untroubled,
         uploadCtxDone, Busy, offset, PhaseInv, GoroutineTypeOK
<1>8. FinalizeOnlyComplete'
  BY DEF Start, callVars, errVars, netVars, spVars, FinalizeOnlyComplete,
         AllChunks, PhaseInv
<1>9. NoGoroutineOutlives'
  BY DEF Start, callVars, errVars, netVars, spVars, NoGoroutineOutlives
<1> QED BY <1>1, <1>2, <1>3, <1>4, <1>5, <1>6, <1>7, <1>8, <1>9

\* A failed start returns before any goroutine exists.
LEMMA StartFailsPreserves ==
  ASSUME IInv, StartFails
  PROVE  IInv'
<1> USE DEF IInv, TypeOK
<1>1. /\ SPTypeOK' /\ GoroutineTypeOK' /\ NetTypeOK' /\ ReaderInv'
      /\ ProgressInv' /\ RootCause'
  BY DEF StartFails, callVars, errVars, netVars, spVars, SPTypeOK,
         GoroutineTypeOK, NetTypeOK, ReaderInv, offset, ProgressInv,
         Untroubled, uploadCtxDone, Busy, RootCause
<1>2. CallTypeOK'
  BY DEF StartFails, callVars, errVars, netVars, spVars, CallTypeOK
<1>3. PhaseInv'
  BY DEF StartFails, callVars, errVars, netVars, spVars, PhaseInv,
         WorkersExited
<1>4. ErrorInv'
  BY DEF StartFails, callVars, errVars, netVars, spVars, ErrorInv
<1>5. FinalizeOnlyComplete'
  BY DEF StartFails, callVars, errVars, netVars, spVars, FinalizeOnlyComplete,
         AllChunks
<1>6. NoGoroutineOutlives'
  BY DEF StartFails, callVars, errVars, netVars, spVars, NoGoroutineOutlives,
         PhaseInv
<1> QED BY <1>1, <1>2, <1>3, <1>4, <1>5, <1>6

\* reader.Wait() returns once the reader has exited.
LEMMA JoinReaderPreserves ==
  ASSUME IInv, JoinReader
  PROVE  IInv'
<1> USE DEF IInv, TypeOK
<1>1. /\ SPTypeOK' /\ GoroutineTypeOK' /\ NetTypeOK' /\ ReaderInv'
      /\ ProgressInv' /\ RootCause'
  BY DEF JoinReader, callVars, errVars, netVars, spVars, SPTypeOK,
         GoroutineTypeOK, NetTypeOK, ReaderInv, offset, ProgressInv,
         Untroubled, uploadCtxDone, Busy, RootCause
<1>2. CallTypeOK'
  BY DEF JoinReader, callVars, errVars, netVars, spVars, CallTypeOK
<1>3. PhaseInv'
  BY DEF JoinReader, callVars, errVars, netVars, spVars, PhaseInv,
         WorkersExited
<1>4. ErrorInv'
  BY DEF JoinReader, callVars, errVars, netVars, spVars, ErrorInv
<1>5. FinalizeOnlyComplete'
  BY DEF JoinReader, callVars, errVars, netVars, spVars, FinalizeOnlyComplete,
         AllChunks
<1>6. NoGoroutineOutlives'
  BY DEF JoinReader, callVars, errVars, netVars, spVars, NoGoroutineOutlives
<1> QED BY <1>1, <1>2, <1>3, <1>4, <1>5, <1>6

\* workers.Wait() returns once all workers have exited.
LEMMA JoinWorkersPreserves ==
  ASSUME IInv, JoinWorkers
  PROVE  IInv'
<1> USE DEF IInv, TypeOK
<1>1. /\ SPTypeOK' /\ GoroutineTypeOK' /\ NetTypeOK' /\ ReaderInv'
      /\ RootCause'
  BY DEF JoinWorkers, Return, callVars, errVars, netVars, spVars, SPTypeOK,
         GoroutineTypeOK, NetTypeOK, ReaderInv, offset, RootCause
<1>2. CallTypeOK'
  BY DEF JoinWorkers, Return, callVars, errVars, netVars, spVars, CallTypeOK
<1>3. PhaseInv'
  BY DEF JoinWorkers, Return, callVars, errVars, netVars, spVars, PhaseInv,
         WorkersExited
<1>4. ErrorInv'
  BY DEF JoinWorkers, Return, callVars, errVars, netVars, spVars, ErrorInv
<1>5. ProgressInv'
  BY DEF JoinWorkers, Return, callVars, errVars, netVars, spVars, ProgressInv,
         Untroubled, uploadCtxDone, Busy, offset
<1>6. FinalizeOnlyComplete'
  BY DEF JoinWorkers, Return, callVars, errVars, netVars, spVars,
         FinalizeOnlyComplete, AllChunks
<1>7. NoGoroutineOutlives'
  BY DEF JoinWorkers, Return, callVars, errVars, netVars, spVars,
         NoGoroutineOutlives, PhaseInv, WorkersExited
<1> QED BY <1>1, <1>2, <1>3, <1>4, <1>5, <1>6, <1>7

\* The finalize request leaves while nothing has gone wrong: every chunk of
\* the payload was acknowledged.
LEMMA SendFinalizePreserves ==
  ASSUME IInv, SendFinalize
  PROVE  IInv'
<1> USE DEF IInv, TypeOK
<1>1. /\ SPTypeOK' /\ GoroutineTypeOK' /\ ReaderInv' /\ ProgressInv'
      /\ RootCause'
  BY DEF SendFinalize, callVars, errVars, spVars, SPTypeOK, GoroutineTypeOK,
         ReaderInv, offset, ProgressInv, Untroubled, uploadCtxDone, Busy,
         RootCause
<1>2. CallTypeOK'
  BY DEF SendFinalize, callVars, errVars, spVars, CallTypeOK
<1>3. NetTypeOK'
  BY PayloadAssumption
     DEF SendFinalize, callVars, errVars, spVars,
         NetTypeOK, FinalizeRequest, Request, CallTypeOK, PhaseInv,
         ChunkNumbers, Stretch, NoBytes
<1>4. PhaseInv'
  BY DEF SendFinalize, callVars, errVars, spVars, PhaseInv, WorkersExited
<1>5. ErrorInv'
  BY DEF SendFinalize, callVars, errVars, spVars, ErrorInv
<1>6. FinalizeOnlyComplete'
  <2>1. Untroubled
    BY DEF SendFinalize, PhaseInv, ErrorInv, Untroubled, uploadCtxDone
  <2>2. offset >= L /\ \A i \in ChunkNumbers : i < reader.idx => i \in acked
    BY <2>1 DEF SendFinalize, PhaseInv, ProgressInv, WorkersExited, Busy
  <2>3. ASSUME NEW i \in AllChunks
        PROVE  i < reader.idx
    <3>1. i \in Nat /\ reader.idx \in Nat /\ chunkSize \in Nat
      BY SizesPositive DEF AllChunks, ChunkNumbers, GoroutineTypeOK, CallTypeOK
    <3>2. i * chunkSize < reader.idx * chunkSize
      BY <2>2, <3>1, PayloadAssumption DEF AllChunks, offset
    <3> QED BY <3>1, <3>2, LessByFactor
  <2>4. AllChunks \subseteq acked
    BY <2>2, <2>3 DEF AllChunks
  <2> QED BY <2>4 DEF SendFinalize, FinalizeOnlyComplete, AllChunks, callVars
<1>7. NoGoroutineOutlives'
  BY DEF SendFinalize, callVars, errVars, spVars, NoGoroutineOutlives
<1> QED BY <1>1, <1>2, <1>3, <1>4, <1>5, <1>6, <1>7

\* A finalize answered 200 was sent, so the upload was complete.
LEMMA FinalizeOKPreserves ==
  ASSUME IInv, FinalizeOK
  PROVE  IInv'
<1> USE DEF IInv, TypeOK
<1>1. /\ SPTypeOK' /\ GoroutineTypeOK' /\ ReaderInv' /\ RootCause'
  BY DEF FinalizeOK, Return, callVars, spVars, SPTypeOK, GoroutineTypeOK,
         ReaderInv, offset, RootCause
<1>2. CallTypeOK'
  BY DEF FinalizeOK, Return, callVars, spVars, CallTypeOK
<1>3. NetTypeOK'
  BY DEF FinalizeOK, Return, callVars, spVars, NetTypeOK
<1>4. PhaseInv'
  BY DEF FinalizeOK, Return, callVars, spVars, PhaseInv, WorkersExited
<1>5. ErrorInv'
  BY DEF FinalizeOK, Return, callVars, spVars, ErrorInv
<1>6. ProgressInv'
  BY DEF FinalizeOK, Return, callVars, spVars, ProgressInv, Untroubled,
         uploadCtxDone, Busy, offset
<1>7. FinalizeOnlyComplete'
  BY DEF FinalizeOK, Return, callVars, spVars, FinalizeOnlyComplete, AllChunks
<1>8. NoGoroutineOutlives'
  BY DEF FinalizeOK, Return, callVars, spVars, NoGoroutineOutlives, PhaseInv,
         WorkersExited
<1> QED BY <1>1, <1>2, <1>3, <1>4, <1>5, <1>6, <1>7, <1>8

\* A failed finalize leaves no goroutine either.
LEMMA FinalizeFailsPreserves ==
  ASSUME IInv, FinalizeFails
  PROVE  IInv'
<1> USE DEF IInv, TypeOK
<1>1. /\ SPTypeOK' /\ GoroutineTypeOK' /\ ReaderInv' /\ RootCause'
  BY DEF FinalizeFails, Return, callVars, spVars, SPTypeOK, GoroutineTypeOK,
         ReaderInv, offset, RootCause
<1>2. CallTypeOK'
  BY DEF FinalizeFails, Return, callVars, spVars, CallTypeOK
<1>3. NetTypeOK'
  BY DEF FinalizeFails, Return, callVars, spVars, NetTypeOK
<1>4. PhaseInv'
  BY DEF FinalizeFails, Return, callVars, spVars, PhaseInv, WorkersExited
<1>5. ErrorInv'
  BY DEF FinalizeFails, Return, callVars, spVars, ErrorInv
<1>6. ProgressInv'
  BY DEF FinalizeFails, Return, callVars, spVars, ProgressInv, Untroubled,
         uploadCtxDone, Busy, offset
<1>7. FinalizeOnlyComplete'
  BY DEF FinalizeFails, Return, callVars, spVars, FinalizeOnlyComplete,
         AllChunks
<1>8. NoGoroutineOutlives'
  BY DEF FinalizeFails, Return, callVars, spVars, NoGoroutineOutlives,
         PhaseInv, WorkersExited
<1> QED BY <1>1, <1>2, <1>3, <1>4, <1>5, <1>6, <1>7, <1>8

\* A read stays inside the body, and stops short only at its end.
LEMMA ReadFullPreserves ==
  ASSUME IInv, ReadFull
  PROVE  IInv'
<1> USE DEF IInv, TypeOK
<1>1. /\ SPTypeOK' /\ CallTypeOK' /\ NetTypeOK' /\ ErrorInv'
      /\ FinalizeOnlyComplete' /\ RootCause'
  BY DEF ReadFull, ReadResult, callVars, errVars, netVars, spVars, SPTypeOK,
         CallTypeOK, NetTypeOK, ErrorInv, FinalizeOnlyComplete, AllChunks,
         RootCause
<1>2. GoroutineTypeOK'
  <2>1. offset \in 0..L /\ chunkSize \in Nat
    BY OffsetNat, SizesPositive, PayloadAssumption
       DEF ReadFull, ReaderInv, CallTypeOK
  <2>2. PICK hi \in 0..L, err \in {"nil", "eof", "fail"} : ReadResult(hi, err)
    BY <2>1, PayloadAssumption DEF ReadFull
  <2> QED BY <2>1, <2>2 DEF ReadFull, ReadResult, GoroutineTypeOK, Stretch
<1>3. PhaseInv'
  BY DEF ReadFull, ReadResult, callVars, errVars, netVars, spVars, PhaseInv,
         WorkersExited, GoroutineTypeOK
<1>4. ReaderInv'
  <2>1. offset \in Nat /\ chunkSize \in Nat \ {0} /\ L \in Nat
    BY OffsetNat, SizesPositive, PayloadAssumption DEF CallTypeOK
  <2>2. offset <= L
    BY DEF ReadFull, ReaderInv
  <2>3. offset' = offset /\ chunkSize' = chunkSize
    BY DEF ReadFull, ReadResult, offset, callVars, GoroutineTypeOK
  <2>4. PICK hi, err : ReadResult(hi, err) /\ hi \in offset..L
          /\ (err = "nil" => hi = offset + chunkSize)
          /\ (err = "eof" => hi = L /\ offset + chunkSize > L)
    BY <2>1, <2>2 DEF ReadFull
  <2>5. /\ reader'.st = IF hi > offset THEN "sending" ELSE "switch"
        /\ reader'.err = err
    BY <2>4 DEF ReadResult, GoroutineTypeOK
  <2> QED BY <2>1, <2>2, <2>3, <2>4, <2>5 DEF ReaderInv
<1>5. ProgressInv'
  <2>1. /\ reader'.idx = reader.idx /\ reader'.st # "exited"
        /\ reader.st # "exited"
    BY DEF ReadFull, ReadResult, GoroutineTypeOK
  <2> QED BY <2>1 DEF ReadFull, callVars, errVars, ProgressInv, Untroubled,
                      uploadCtxDone, Busy
<1>6. NoGoroutineOutlives'
  BY DEF ReadFull, ReadResult, callVars, errVars, netVars, spVars,
         NoGoroutineOutlives
<1> QED BY <1>1, <1>2, <1>3, <1>4, <1>5, <1>6

\* The chunk leaves the reader for worker w, so it is still accounted for.
LEMMA HandoffPreserves ==
  ASSUME IInv, NEW w \in Workers, Handoff(w)
  PROVE  IInv'
<1> USE DEF IInv, TypeOK
<1>1. /\ SPTypeOK' /\ CallTypeOK' /\ NetTypeOK' /\ ErrorInv'
      /\ FinalizeOnlyComplete' /\ RootCause'
  BY DEF Handoff, callVars, errVars, netVars, spVars, SPTypeOK, CallTypeOK,
         NetTypeOK, ErrorInv, FinalizeOnlyComplete, AllChunks, RootCause
<1>2. GoroutineTypeOK'
  <2>1. reader.idx \in 0..L /\ chunkSize \in Nat \ {0} /\ L \in Nat
    BY SizesPositive, PayloadAssumption
       DEF GoroutineTypeOK, CallTypeOK, ChunkNumbers
  <2>2. reader.idx < L
    BY <2>1, AtMostProduct DEF Handoff, ReaderInv, offset
  <2>3. reader.idx + 1 \in ChunkNumbers
    BY <2>1, <2>2 DEF ChunkNumbers
  <2> QED BY <2>3 DEF Handoff, GoroutineTypeOK
<1>3. PhaseInv'
  BY DEF Handoff, callVars, errVars, netVars, spVars, PhaseInv, WorkersExited,
         GoroutineTypeOK
<1>4. ReaderInv'
  BY SizesPositive, PayloadAssumption
     DEF Handoff, callVars, errVars,
         netVars, spVars, ReaderInv, offset, GoroutineTypeOK, CallTypeOK,
         ChunkNumbers
<1>5. ProgressInv'
  BY DEF Handoff, callVars, errVars, netVars, spVars, ProgressInv, Untroubled,
         uploadCtxDone, Busy, offset, GoroutineTypeOK, ChunkNumbers
<1>6. NoGoroutineOutlives'
  BY DEF Handoff, callVars, errVars, netVars, spVars, NoGoroutineOutlives
<1> QED BY <1>1, <1>2, <1>3, <1>4, <1>5, <1>6

\* The reader gives up only when something went wrong.
LEMMA ReaderCancelledPreserves ==
  ASSUME IInv, ReaderCancelled
  PROVE  IInv'
<1> USE DEF IInv, TypeOK
<1>1. /\ SPTypeOK' /\ CallTypeOK' /\ NetTypeOK' /\ ErrorInv'
      /\ FinalizeOnlyComplete' /\ RootCause'
  BY DEF ReaderCancelled, uploadCtxDone, callVars, errVars, netVars, spVars,
         SPTypeOK, CallTypeOK, NetTypeOK, ErrorInv, FinalizeOnlyComplete,
         AllChunks, RootCause
<1>2. GoroutineTypeOK'
  BY DEF ReaderCancelled, uploadCtxDone, callVars, errVars, netVars, spVars,
         GoroutineTypeOK
<1>3. PhaseInv'
  BY DEF ReaderCancelled, uploadCtxDone, callVars, errVars, netVars, spVars,
         PhaseInv, WorkersExited, GoroutineTypeOK
<1>4. ReaderInv'
  BY DEF ReaderCancelled, uploadCtxDone, callVars, errVars, netVars, spVars,
         ReaderInv, offset, GoroutineTypeOK
<1>5. ProgressInv'
  BY DEF ReaderCancelled, uploadCtxDone, callVars, errVars, netVars, spVars,
         ProgressInv, Untroubled, Busy, offset
<1>6. NoGoroutineOutlives'
  BY DEF ReaderCancelled, uploadCtxDone, callVars, errVars, netVars, spVars,
         NoGoroutineOutlives
<1> QED BY <1>1, <1>2, <1>3, <1>4, <1>5, <1>6

\* The reader exits at the end of the body, or records its error.
LEMMA ReaderSwitchPreserves ==
  ASSUME IInv, ReaderSwitch
  PROVE  IInv'
<1> USE DEF IInv, TypeOK
<1>1. /\ SPTypeOK' /\ NetTypeOK' /\ FinalizeOnlyComplete'
  BY DEF ReaderSwitch, RecordErr, callVars, errVars, netVars, spVars,
         SPTypeOK, NetTypeOK, FinalizeOnlyComplete, AllChunks
<1>2. CallTypeOK'
  BY DEF ReaderSwitch, RecordErr, callVars, errVars, netVars, spVars,
         CallTypeOK
<1>3. GoroutineTypeOK'
  BY DEF ReaderSwitch, RecordErr, callVars, errVars, netVars, spVars,
         GoroutineTypeOK
<1>4. PhaseInv'
  BY DEF ReaderSwitch, RecordErr, callVars, errVars, netVars, spVars,
         PhaseInv, WorkersExited, GoroutineTypeOK
<1>5. ReaderInv'
  BY DEF ReaderSwitch, RecordErr, callVars, errVars, netVars, spVars,
         ReaderInv, offset, GoroutineTypeOK
<1>6. ErrorInv'
  BY DEF ReaderSwitch, RecordErr, callVars, errVars, netVars, spVars,
         ErrorInv, CallTypeOK
<1>7. ProgressInv'
  BY DEF ReaderSwitch, RecordErr, callVars, errVars, netVars, spVars,
         ProgressInv, Untroubled, uploadCtxDone, Busy, offset,
         GoroutineTypeOK, ReaderInv
<1>8. RootCause'
  BY DEF ReaderSwitch, RecordErr, callVars, errVars, netVars, spVars,
         RootCause
<1>9. NoGoroutineOutlives'
  BY DEF ReaderSwitch, RecordErr, callVars, errVars, netVars, spVars,
         NoGoroutineOutlives
<1> QED BY <1>1, <1>2, <1>3, <1>4, <1>5, <1>6, <1>7, <1>8, <1>9

\* A worker exits with empty hands.
LEMMA WorkerExitPreserves ==
  ASSUME IInv, NEW w \in Workers, WorkerExit(w)
  PROVE  IInv'
<1> USE DEF IInv, TypeOK
<1>1. /\ SPTypeOK' /\ CallTypeOK' /\ NetTypeOK' /\ ReaderInv'
      /\ ErrorInv' /\ FinalizeOnlyComplete' /\ RootCause'
  BY DEF WorkerExit, callVars, errVars, netVars, spVars, SPTypeOK, CallTypeOK,
         NetTypeOK, ReaderInv, offset, ErrorInv, FinalizeOnlyComplete,
         AllChunks, RootCause
<1>2. GoroutineTypeOK'
  BY DEF WorkerExit, callVars, errVars, netVars, spVars, GoroutineTypeOK
<1>3. PhaseInv'
  BY DEF WorkerExit, callVars, errVars, netVars, spVars, PhaseInv,
         WorkersExited, GoroutineTypeOK
<1>4. ProgressInv'
  BY DEF WorkerExit, callVars, errVars, netVars, spVars, ProgressInv,
         Untroubled, uploadCtxDone, Busy, offset, GoroutineTypeOK
<1>5. NoGoroutineOutlives'
  BY DEF WorkerExit, callVars, errVars, netVars, spVars, NoGoroutineOutlives
<1> QED BY <1>1, <1>2, <1>3, <1>4, <1>5

\* The chunk stays with its worker while the request is out.
LEMMA SendChunkPreserves ==
  ASSUME IInv, NEW w \in Workers, SendChunk(w)
  PROVE  IInv'
<1> USE DEF IInv, TypeOK
<1>1. /\ SPTypeOK' /\ CallTypeOK' /\ ReaderInv' /\ ErrorInv'
      /\ FinalizeOnlyComplete' /\ RootCause'
  BY DEF SendChunk, callVars, errVars, spVars, SPTypeOK, CallTypeOK,
         ReaderInv, offset, ErrorInv, FinalizeOnlyComplete, AllChunks,
         RootCause
<1>2. GoroutineTypeOK'
  BY DEF SendChunk, callVars, errVars, spVars, GoroutineTypeOK
<1>3. NetTypeOK'
  BY DEF SendChunk, callVars, errVars, spVars, NetTypeOK, ChunkRequest,
         Request, CallTypeOK, GoroutineTypeOK, PhaseInv, NoGoroutineOutlives
<1>4. PhaseInv'
  BY DEF SendChunk, callVars, errVars, spVars, PhaseInv, WorkersExited,
         GoroutineTypeOK
<1>5. ProgressInv'
  BY DEF SendChunk, callVars, errVars, spVars, ProgressInv, Untroubled,
         uploadCtxDone, Busy, offset, GoroutineTypeOK
<1>6. NoGoroutineOutlives'
  BY DEF SendChunk, callVars, errVars, spVars, NoGoroutineOutlives
<1> QED BY <1>1, <1>2, <1>3, <1>4, <1>5, <1>6

\* A chunk leaves its worker by being acknowledged.
LEMMA ChunkOKPreserves ==
  ASSUME IInv, NEW w \in Workers, ChunkOK(w)
  PROVE  IInv'
<1> USE DEF IInv, TypeOK
<1>1. /\ SPTypeOK' /\ ReaderInv' /\ ErrorInv' /\ RootCause'
  BY DEF ChunkOK, callVars, errVars, spVars, SPTypeOK, ReaderInv, offset,
         ErrorInv, RootCause
<1>2. CallTypeOK'
  BY DEF ChunkOK, callVars, errVars, spVars, CallTypeOK, GoroutineTypeOK
<1>3. GoroutineTypeOK'
  BY DEF ChunkOK, callVars, errVars, spVars, GoroutineTypeOK
<1>4. NetTypeOK'
  BY DEF ChunkOK, callVars, errVars, spVars, NetTypeOK
<1>5. PhaseInv'
  BY DEF ChunkOK, callVars, errVars, spVars, PhaseInv, WorkersExited,
         GoroutineTypeOK
<1>6. ProgressInv'
  BY DEF ChunkOK, callVars, errVars, spVars, ProgressInv, Untroubled,
         uploadCtxDone, Busy, offset, GoroutineTypeOK
<1>7. FinalizeOnlyComplete'
  BY DEF ChunkOK, callVars, errVars, spVars, FinalizeOnlyComplete, AllChunks
<1>8. NoGoroutineOutlives'
  BY DEF ChunkOK, callVars, errVars, spVars, NoGoroutineOutlives
<1> QED BY <1>1, <1>2, <1>3, <1>4, <1>5, <1>6, <1>7, <1>8

\* A worker that drops a chunk records an error first.  An error of kind ctx
\* is the first one only when the caller's ctx ended.
LEMMA ChunkFailsPreserves ==
  ASSUME IInv, NEW w \in Workers, ChunkFails(w)
  PROVE  IInv'
<1> USE DEF IInv, TypeOK
<1>1. /\ SPTypeOK' /\ ReaderInv' /\ FinalizeOnlyComplete'
  BY DEF ChunkFails, RecordErr, callVars, spVars, SPTypeOK, ReaderInv, offset,
         FinalizeOnlyComplete, AllChunks
<1>2. CallTypeOK'
  BY DEF ChunkFails, RecordErr, callVars, spVars, CallTypeOK
<1>3. GoroutineTypeOK'
  BY DEF ChunkFails, RecordErr, callVars, spVars, GoroutineTypeOK
<1>4. NetTypeOK'
  BY DEF ChunkFails, RecordErr, callVars, spVars, NetTypeOK
<1>5. PhaseInv'
  BY DEF ChunkFails, RecordErr, callVars, spVars, PhaseInv, WorkersExited,
         GoroutineTypeOK
<1>6. ErrorInv'
  BY DEF ChunkFails, RecordErr, callVars, spVars, ErrorInv, CallTypeOK
<1>7. ProgressInv'
  BY DEF ChunkFails, RecordErr, callVars, spVars, ProgressInv, Untroubled,
         uploadCtxDone, Busy, offset, GoroutineTypeOK, CallTypeOK
<1>8. RootCause'
  BY DEF ChunkFails, RecordErr, callVars, spVars, RootCause, ErrorInv,
         uploadCtxDone, NoGoroutineOutlives
<1>9. NoGoroutineOutlives'
  BY DEF ChunkFails, RecordErr, callVars, spVars, NoGoroutineOutlives
<1> QED BY <1>1, <1>2, <1>3, <1>4, <1>5, <1>6, <1>7, <1>8, <1>9

\* The end of the caller's ctx is trouble.
LEMMA CancelCtxPreserves ==
  ASSUME IInv, CancelCtx
  PROVE  IInv'
<1> USE DEF IInv, TypeOK
<1>1. /\ SPTypeOK' /\ GoroutineTypeOK' /\ NetTypeOK' /\ PhaseInv'
      /\ ReaderInv' /\ ErrorInv' /\ FinalizeOnlyComplete' /\ NoGoroutineOutlives'
  BY DEF CancelCtx, callVars, netVars, spVars, SPTypeOK, GoroutineTypeOK,
         NetTypeOK, PhaseInv, WorkersExited, ReaderInv, offset, ErrorInv,
         FinalizeOnlyComplete, AllChunks, NoGoroutineOutlives
<1>2. CallTypeOK'
  BY DEF CancelCtx, callVars, netVars, spVars, CallTypeOK
<1>3. ProgressInv'
  BY DEF CancelCtx, callVars, netVars, spVars, ProgressInv, Untroubled,
         uploadCtxDone, Busy, offset
<1>4. RootCause'
  BY DEF CancelCtx, callVars, netVars, spVars, RootCause
<1> QED BY <1>1, <1>2, <1>3, <1>4

\* What the SP does touches no variable of the client but replies.
LEMMA SPHandlesPreserves ==
  ASSUME IInv, NEW r \in net, SPHandles(r)
  PROVE  IInv'
<1> USE DEF IInv, TypeOK
<1>1. /\ CallTypeOK' /\ GoroutineTypeOK' /\ PhaseInv' /\ ReaderInv'
      /\ ErrorInv' /\ ProgressInv' /\ FinalizeOnlyComplete' /\ RootCause'
      /\ NoGoroutineOutlives'
  BY DEF SPHandles, clientVars, callVars, errVars, CallTypeOK,
         GoroutineTypeOK, PhaseInv, WorkersExited, ReaderInv, offset,
         ErrorInv, ProgressInv, Untroubled, uploadCtxDone, Busy,
         FinalizeOnlyComplete, AllChunks, RootCause, NoGoroutineOutlives
<1>2. SPTypeOK'
  <2>1. r.idx \in ChunkNumbers /\ r.body \in Stretch
    BY DEF NetTypeOK, Request
  <2>2. CASE PutChunk(r.idx, r.body)
    BY <2>1, <2>2 DEF SPTypeOK, PutChunk, RaiseMax
  <2>3. CASE FinalizeChunks
    BY <2>3 DEF SPTypeOK, FinalizeChunks
  <2>4. CASE DealNotFound
    BY <2>4 DEF SPTypeOK, DealNotFound, spVars
  <2> QED BY <2>2, <2>3, <2>4 DEF SPHandles
<1>3. NetTypeOK'
  BY DEF SPHandles, clientVars, callVars, errVars, NetTypeOK
<1> QED BY <1>1, <1>2, <1>3

\* Nor does the loss of a request.
LEMMA LosePreserves ==
  ASSUME IInv, NEW r \in net, Lose(r)
  PROVE  IInv'
<1> USE DEF IInv, TypeOK
<1>1. /\ SPTypeOK' /\ CallTypeOK' /\ GoroutineTypeOK' /\ PhaseInv'
      /\ ReaderInv' /\ ErrorInv' /\ ProgressInv' /\ FinalizeOnlyComplete'
      /\ RootCause' /\ NoGoroutineOutlives'
  BY DEF Lose, clientVars, callVars, errVars, spVars, SPTypeOK, CallTypeOK,
         GoroutineTypeOK, PhaseInv, WorkersExited, ReaderInv, offset,
         ErrorInv, ProgressInv, Untroubled, uploadCtxDone, Busy,
         FinalizeOnlyComplete, AllChunks, RootCause, NoGoroutineOutlives
<1>2. NetTypeOK'
  BY DEF Lose, clientVars, callVars, errVars, spVars, NetTypeOK
<1> QED BY <1>1, <1>2

-----------------------------------------------------------------------------
(* The theorems.                                                           *)

\* The inductive invariant holds initially.
LEMMA InitInv ==
  ASSUME Init
  PROVE  IInv
<1>1. TypeOK
  <2>1. 0 \in ChunkNumbers /\ NoBytes \in Stretch
    BY PayloadAssumption DEF ChunkNumbers, Stretch, NoBytes
  <2>2. SPTypeOK
    BY <2>1 DEF Init, SPInit, SPTypeOK
  <2>3. CallTypeOK
    <3>1. attempt \in 0..MaxAttempts
      BY AttemptsAssumption DEF Init
    <3> QED BY <3>1 DEF Init, CallTypeOK
  <2>4. GoroutineTypeOK
    BY <2>1 DEF Init, NewReader, NewWorker, GoroutineTypeOK
  <2>5. NetTypeOK
    BY DEF Init, NetTypeOK
  <2> QED BY <2>2, <2>3, <2>4, <2>5 DEF TypeOK
<1>2. PhaseInv /\ ReaderInv /\ ErrorInv
  BY DEF Init, NewReader, NewWorker, PhaseInv, ReaderInv, ErrorInv
<1>3. ProgressInv
  BY PayloadAssumption DEF Init, NewReader, ProgressInv, ChunkNumbers
<1>4. FinalizeOnlyComplete /\ RootCause /\ NoGoroutineOutlives
  BY DEF Init, FinalizeOnlyComplete, RootCause, NoGoroutineOutlives
<1> QED BY <1>1, <1>2, <1>3, <1>4 DEF IInv

\* Nothing changes.
LEMMA StutterPreserves ==
  ASSUME IInv, UNCHANGED vars
  PROVE  IInv'
<1> USE DEF vars, clientVars, callVars, errVars, netVars, spVars
<1>1. TypeOK'
  BY DEF IInv, TypeOK, SPTypeOK, CallTypeOK, GoroutineTypeOK, NetTypeOK
<1>2. PhaseInv' /\ ReaderInv' /\ ErrorInv'
  BY DEF IInv, PhaseInv, ReaderInv, ErrorInv, WorkersExited, offset
<1>3. ProgressInv'
  BY DEF IInv, ProgressInv, Untroubled, uploadCtxDone, Busy, offset
<1>4. FinalizeOnlyComplete' /\ RootCause' /\ NoGoroutineOutlives'
  BY DEF IInv, FinalizeOnlyComplete, AllChunks, RootCause,
         NoGoroutineOutlives
<1> QED BY <1>1, <1>2, <1>3, <1>4 DEF IInv

\* IInv is inductive.
LEMMA NextPreserves ==
  ASSUME IInv, [Next]_vars
  PROVE  IInv'
<1>1. CASE Call
  BY <1>1, CallPreserves
<1>2. CASE MainStep
  BY <1>2, StartPreserves, StartFailsPreserves, JoinReaderPreserves,
     JoinWorkersPreserves, SendFinalizePreserves, FinalizeOKPreserves,
     FinalizeFailsPreserves DEF MainStep
<1>3. CASE ReaderStep
  BY <1>3, ReadFullPreserves, HandoffPreserves, ReaderCancelledPreserves,
     ReaderSwitchPreserves DEF ReaderStep
<1>4. ASSUME NEW w \in Workers, WorkerStep(w)
      PROVE  IInv'
  BY <1>4, WorkerExitPreserves, SendChunkPreserves, ChunkOKPreserves,
     ChunkFailsPreserves DEF WorkerStep
<1>5. CASE CancelCtx
  BY <1>5, CancelCtxPreserves
<1>6. ASSUME NEW r \in net, SPHandles(r) \/ Lose(r)
      PROVE  IInv'
  BY <1>6, SPHandlesPreserves, LosePreserves
<1>7. CASE Finished \/ UNCHANGED vars
  BY <1>7, StutterPreserves DEF Finished
<1> QED BY <1>1, <1>2, <1>3, <1>4, <1>5, <1>6, <1>7 DEF Next

\* In every reachable state of UploadChunked, its requests and the SP, the
\* inductive invariant holds.
THEOREM Invariance == Spec => []IInv
<1>1. Init => IInv
  BY InitInv
<1>2. IInv /\ [Next]_vars => IInv'
  BY NextPreserves
<1> QED BY <1>1, <1>2, PTL DEF Spec

\* All variables keep their types; in particular the reader never numbers a
\* chunk past the payload and never offers bytes outside it.
THEOREM TypeCorrect == Spec => []TypeOK
<1>1. IInv => TypeOK
  BY DEF IInv
<1> QED BY <1>1, Invariance, PTL

\* The SP is never asked to assemble a partial upload (chunked.go:149-157).
THEOREM FinalizeIsComplete == Spec => []FinalizeOnlyComplete
<1>1. IInv => FinalizeOnlyComplete
  BY DEF IInv
<1> QED BY <1>1, Invariance, PTL

\* The reported error is the cause, never an echo of the cancellation it
\* triggered (chunked.go:83-90).
THEOREM ErrorIsRootCause == Spec => []RootCause
<1>1. IInv => RootCause
  BY DEF IInv
<1> QED BY <1>1, Invariance, PTL

\* UploadChunked never returns with a goroutine running (chunked.go:149-150).
THEOREM NoGoroutineLeak == Spec => []NoGoroutineOutlives
<1>1. IInv => NoGoroutineOutlives
  BY DEF IInv
<1> QED BY <1>1, Invariance, PTL
=============================================================================
