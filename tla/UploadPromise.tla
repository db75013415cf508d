--------------------------- MODULE UploadPromise ---------------------------
(***************************************************************************)
(* What an upload promises to the code that calls it, with nothing said    *)
(* about chunks, goroutines or HTTP.                                       *)
(*                                                                         *)
(* The storage provider (SP) comes to hold the caller's payload, in one    *)
(* step, at any time while a call is out or has failed (a request may be   *)
(* executed after the client gave it up).  A call may answer "ok" only     *)
(* once the SP holds the payload, it may answer "error" whatever the SP    *)
(* holds, and what the SP holds is never damaged by a later call that      *)
(* uploads the same payload again.                                         *)
(***************************************************************************)

VARIABLES outcome,  \* the answer of the current call: "none", "ok", "error"
          held      \* what the SP serves for the deal: "nothing", "payload"

vars == <<outcome, held>>

Init == outcome = "none" /\ held = "nothing"

\* The SP assembles the payload.
Arrive == /\ held = "nothing"
          /\ held' = "payload"
          /\ UNCHANGED outcome

ReturnOk == /\ outcome = "none"
            /\ held = "payload"
            /\ outcome' = "ok"
            /\ UNCHANGED held

ReturnError == /\ outcome = "none"
               /\ outcome' = "error"
               /\ UNCHANGED held

\* The caller tries the same payload again after an error.
Retry == /\ outcome = "error"
         /\ outcome' = "none"
         /\ UNCHANGED held

Next == Arrive \/ ReturnOk \/ ReturnError \/ Retry

Spec == Init /\ [][Next]_vars
=============================================================================
