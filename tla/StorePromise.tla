---------------------------- MODULE StorePromise ----------------------------
(***************************************************************************)
(* What `filcrate store` promises to the shell that runs it: exit status 0 *)
(* means that the SP accepted the deal, came to hold bytes sent for it and *)
(* ended its processing; or that the run was a dry one and was asked to do *)
(* none of that.  Any other exit says nothing about the SP, where          *)
(* everything may still happen later.                                      *)
(***************************************************************************)

VARIABLES dry,    \* the current run is a dry run
          facts,  \* what is true at the SP of the deal of the current run
          answer  \* "none" while the command runs, "ok" or "error"

vars == <<dry, facts, answer>>

Init == dry = FALSE /\ facts = {} /\ answer = "error"

\* The command is run, for a new deal.
Run == /\ answer # "none"
       /\ dry' \in BOOLEAN /\ facts' = {}
       /\ answer' \in {"none", "error"}

\* The SP moves on, whether the command still runs or not; it does nothing for
\* a deal it has not accepted, and takes nothing back.
Happen == /\ ~dry
          /\ \E f \in {"accepted", "stored", "finished"} \ facts :
               /\ f # "accepted" => "accepted" \in facts
               /\ facts' = facts \union {f}
          /\ UNCHANGED <<dry, answer>>

ExitOk == /\ answer = "none"
          /\ dry \/ facts = {"accepted", "stored", "finished"}
          /\ answer' = "ok"
          /\ UNCHANGED <<dry, facts>>

ExitError == /\ answer = "none"
             /\ answer' = "error"
             /\ UNCHANGED <<dry, facts>>

Next == Run \/ Happen \/ ExitOk \/ ExitError

Spec == Init /\ [][Next]_vars
=============================================================================
