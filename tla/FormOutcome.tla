----------------------------- MODULE FormOutcome -----------------------------
(***************************************************************************)
(* What the opener of a form dialog is promised: the dialog is opened,     *)
(* ends once, with "done" only when the server has accepted the form, and  *)
(* what was accepted before the end cannot be taken back.                  *)
(***************************************************************************)
VARIABLES outcome, accepted

FormOutcomeTypeOK ==
    /\ outcome \in {"idle", "run", "done", "cancel"}
    /\ accepted \in BOOLEAN

Init == outcome = "idle" /\ accepted = FALSE

Start  == outcome = "idle" /\ outcome' = "run" /\ UNCHANGED accepted

\* A form which was posted may be accepted after the dialog was closed.
Accept == outcome # "idle" /\ accepted' = TRUE /\ UNCHANGED outcome

Done   == outcome = "run" /\ accepted /\ outcome' = "done" /\ UNCHANGED accepted

Cancel == outcome = "run" /\ outcome' = "cancel" /\ UNCHANGED accepted

Next == Start \/ Accept \/ Done \/ Cancel

Spec == Init /\ [][Next]_<<outcome, accepted>>
=============================================================================
