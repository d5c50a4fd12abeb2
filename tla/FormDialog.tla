------------------------------ MODULE FormDialog ------------------------------
(***************************************************************************)
(* A dialog which contains a form of the server, and the action which opens *)
(* it: FormDialogAction, FormDialog, Dialog and Frame.                      *)
(*                                                                         *)
(* The "send" button is disabled while a POST is in flight, but the Enter  *)
(* key triggers its click handlers whatever its state, and "cancel" stays  *)
(* enabled. The dialog listens to an answer with EventHandler.one(), which *)
(* binds a listener of each kind (done, fail) per submit; the first event  *)
(* of a kind calls, and unbinds, all the listeners of this kind.           *)
(***************************************************************************)
EXTENDS Naturals, FiniteSets

CONSTANTS
    MaxSubmits,     \* bound: POSTs of the form
    MaxCuts         \* bound: requests which fail or whose answer is lost

ASSUME DialogAssumption == MaxSubmits \in Nat /\ MaxCuts \in Nat

VARIABLES
    outcome,    \* status of FormDialogAction
    popup,      \* the element of the dialog
    content,    \* what the frame contains
    sendOn,     \* the "send" button is enabled
    posts,      \* POSTs in flight: [id, answer]
    bound,      \* number of bound listeners: submit-done, submit-fail
    count,      \* number of POSTs, of failures, of forms saved by the server (and
                \* of those whose answer is lost), of form-success and close events
    taken       \* history: a form came back while another POST was in flight, and
                \* took the listener which was bound for it

dialogVars == <<outcome, popup, content, sendOn, posts, bound, count, taken>>

Answers == {"none", "saved", "invalid", "failed", "cut"}

DialogTypeOK ==
    /\ outcome \in {"idle", "run", "done", "cancel"}
    /\ popup \in {"closed", "opened", "destroyed"}
    /\ content \in {"empty", "fetching", "form", "error"}
    /\ sendOn \in BOOLEAN /\ taken \in BOOLEAN
    /\ posts \subseteq [id : Nat, answer : Answers]
    /\ bound \in [{"done", "fail"} -> Nat]
    /\ count \in [{"posts", "fails", "cuts", "saved", "success", "close"} -> Nat]

DialogInit ==
    /\ outcome = "idle" /\ popup = "closed" /\ content = "empty" /\ sendOn = FALSE
    /\ posts = {} /\ taken = FALSE
    /\ bound = [k \in {"done", "fail"} |-> 0]
    /\ count = [k \in {"posts", "fails", "cuts", "saved", "success", "close"} |-> 0]

Add(k, n) == count' = [count EXCEPT ![k] = @ + n]
Failures  == count.fails + count.cuts

-----------------------------------------------------------------------------
(* Opening and closing *)

\* start() of the action: the dialog is opened and its form asked for.
OpenPopup ==
    /\ outcome = "idle"
    /\ outcome' = "run" /\ popup' = "opened" /\ content' = "fetching"
    /\ UNCHANGED <<sendOn, posts, bound, count, taken>>

FetchDone ==
    /\ content = "fetching"
    /\ content' = "form"
    /\ sendOn' = (popup = "opened")
    /\ UNCHANGED <<outcome, popup, posts, bound, count, taken>>

\* The overlay displays the error; no form, no key handler.
FetchFail ==
    /\ content = "fetching" /\ Failures < MaxCuts
    /\ content' = "error"
    /\ sendOn' = FALSE
    /\ Add("fails", 1)
    /\ UNCHANGED <<outcome, popup, posts, bound, taken>>

\* "cancel", the cross or Escape: the action is cancelled, POSTs are not.
Close ==
    /\ popup = "opened"
    /\ popup' = "destroyed" /\ sendOn' = FALSE
    /\ content' = IF content = "fetching" THEN content ELSE "empty"
    /\ outcome' = IF outcome = "run" THEN "cancel" ELSE outcome
    /\ Add("close", 1)
    /\ UNCHANGED <<posts, bound, taken>>

-----------------------------------------------------------------------------
(* Submitting *)

\* Mutant: the listeners are bound by the first submit only.
SubmitBoundOnce ==
    /\ popup = "opened" /\ content = "form" /\ count.posts < MaxSubmits
    /\ posts' = posts \cup {[id |-> count.posts, answer |-> "none"]}
    /\ bound' = IF count.posts = 0 THEN [k \in {"done", "fail"} |-> 1] ELSE bound
    /\ sendOn' = FALSE
    /\ Add("posts", 1)
    /\ UNCHANGED <<outcome, popup, content, taken>>

Submit ==
    /\ popup = "opened" /\ content = "form" /\ count.posts < MaxSubmits
    /\ posts' = posts \cup {[id |-> count.posts, answer |-> "none"]}
    /\ bound' = [k \in {"done", "fail"} |-> bound[k] + 1]
    /\ sendOn' = FALSE
    /\ Add("posts", 1)
    /\ UNCHANGED <<outcome, popup, content, taken>>

ClickSend == sendOn /\ Submit

\* The handler of the key triggers the click of a button which may be disabled.
PressEnter == Submit

\* The server saves the form, or sends it back; the network may fail before
\* ("failed") or after ("cut").
ServePost(p) ==
    /\ p.answer = "none"
    /\ \E a \in Answers \ {"none"} :
        /\ a \in {"failed", "cut"} => Failures < MaxCuts
        /\ posts' = (posts \ {p}) \cup {[p EXCEPT !.answer = a]}
        /\ count' = [count EXCEPT
                        !.saved = @ + (IF a \in {"saved", "cut"} THEN 1 ELSE 0),
                        !.cuts  = @ + (IF a = "cut" THEN 1 ELSE 0),
                        !.fails = @ + (IF a = "failed" THEN 1 ELSE 0)]
    /\ UNCHANGED <<outcome, popup, content, sendOn, bound, taken>>

\* The form is valid: each listener triggers form-success, which ends the
\* action, and the dialog is destroyed without "close".
PostSaved(p) ==
    /\ p.answer = "saved"
    /\ posts' = posts \ {p}
    /\ bound' = [bound EXCEPT !["done"] = 0]
    /\ Add("success", bound["done"])
    /\ IF bound["done"] > 0
       THEN /\ outcome' = IF outcome = "run" THEN "done" ELSE outcome
            /\ popup' = "destroyed" /\ sendOn' = FALSE /\ content' = "empty"
       ELSE UNCHANGED <<outcome, popup, sendOn, content>>
    /\ UNCHANGED taken

\* Mutant: the end of the action does not look at the answer.
PostInvalidDone(p) ==
    /\ p.answer = "invalid"
    /\ posts' = posts \ {p}
    /\ bound' = [bound EXCEPT !["done"] = 0]
    /\ outcome' = IF outcome = "run" THEN "done" ELSE outcome
    /\ popup' = "destroyed" /\ sendOn' = FALSE /\ content' = "empty"
    /\ UNCHANGED <<count, taken>>

\* Mutant: the form which comes back leaves the button as it is.
PostInvalidLeft(p) ==
    /\ p.answer = "invalid"
    /\ posts' = posts \ {p}
    /\ bound' = [bound EXCEPT !["done"] = 0]
    /\ content' = "form"
    /\ UNCHANGED <<outcome, popup, sendOn, count, taken>>

\* The form comes back with its errors: the frame is filled, and each listener
\* enables the button again.
PostInvalid(p) ==
    /\ p.answer = "invalid"
    /\ posts' = posts \ {p}
    /\ bound' = [bound EXCEPT !["done"] = 0]
    /\ content' = "form"
    /\ sendOn' = (popup = "opened" /\ (sendOn \/ bound["done"] > 0))
    /\ taken' = (taken \/ posts # {p})
    /\ UNCHANGED <<outcome, popup, count>>

\* The overlay displays the error above the form, which is still there.
PostFailed(p) ==
    /\ p.answer \in {"failed", "cut"}
    /\ posts' = posts \ {p}
    /\ bound' = [bound EXCEPT !["fail"] = 0]
    /\ sendOn' = (sendOn /\ bound["fail"] = 0)
    /\ UNCHANGED <<outcome, popup, content, count, taken>>

-----------------------------------------------------------------------------
DialogAnswers ==
    \/ FetchDone \/ FetchFail
    \/ \E p \in posts :
        ServePost(p) \/ PostSaved(p) \/ PostInvalid(p) \/ PostFailed(p)

DialogNext == OpenPopup \/ Close \/ ClickSend \/ PressEnter \/ DialogAnswers

DialogSpec == DialogInit /\ [][DialogNext]_dialogVars

DialogFairSpec == DialogSpec /\ WF_dialogVars(DialogAnswers)

-----------------------------------------------------------------------------
(* Properties *)

\* The whole implements FormOutcome: one end, "done" only for a form which the
\* server has saved, even when listeners are called twice, or after the close.
Outcome == INSTANCE FormOutcome WITH outcome <- outcome, accepted <- count.saved > 0

ImplementsFormOutcome == Outcome!Spec

\* A form which the server has saved, and whose answer was not lost, is reported by
\* a form-success: whatever the order of the answers, after requests which failed
\* or were lost, with POSTs which crossed, and when the dialog was closed meanwhile;
\* unless the answer to another POST, with errors, took its listener.
SavedIsReported ==
    posts = {} /\ count.saved > count.cuts /\ ~taken => count.success > 0

\* The dialog never stays opened, with its form, and without a way to go on:
\* when no POST is in flight, the button is enabled, unless a request failed.
FormUsable ==
    popup = "opened" /\ content = "form" /\ posts = {} /\ Failures = 0
        => sendOn

\* form.js: "the 'close' event is considered as the cancellation of the form so
\* we can't send it along with a 'form-success'".
CloseIsNotSuccess == ~(count.close > 0 /\ count.success > 0)
=============================================================================
