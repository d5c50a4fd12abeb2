----------------------------- MODULE JobsMonitor -----------------------------
(***************************************************************************)
(* A page which watches jobs until they are finished (a popup after an     *)
(* import, or the brick of the jobs), and the view which informs it.       *)
(*                                                                         *)
(* The page asks for the jobs which wait according to its own elements, or *)
(* which were displayed with a communication error; the view sends START   *)
(* again for those whose START was refused. One fetch follows another; an  *)
(* HTTP failure ends the loop.                                             *)
(***************************************************************************)
EXTENDS Naturals

CONSTANTS
    Jobs,           \* the jobs of the page
    Unsent,         \* those whose START was refused when they were created
    MaxOutages,     \* bound: times the job manager stops answering PING
    MaxHttpFails    \* bound: requests which fail

ASSUME MonitorAssumption == Unsent \subseteq Jobs /\ {MaxOutages, MaxHttpFails} \subseteq Nat

VARIABLES
    status,         \* rows: status of the jobs
    ackErrors,      \* rows: ack_errors is not 0
    started,        \* jobs whose START the job manager has received
    manager,        \* the job manager answers
    monitor,        \* what the page does
    displayed,      \* data-job-status of the elements
    asked,          \* jobs of the request in flight
    info,           \* its answer
    troubles        \* number of outages and of failures

monitorVars == <<status, ackErrors, started, manager, monitor, displayed, asked,
                 info, troubles>>

NoInfo == [error |-> FALSE, jobs |-> {}]

MonitorTypeOK ==
    /\ status \in [Jobs -> {"wait", "ok", "error", "gone"}]
    /\ ackErrors \subseteq Jobs /\ started \subseteq Jobs /\ manager \in BOOLEAN
    /\ monitor \in {"timer", "asking", "informed", "finished", "stopped"}
    /\ displayed \in [Jobs -> {"wait", "ok", "error"}]
    /\ asked \subseteq Jobs
    /\ info \in [error : BOOLEAN,
                 jobs : SUBSET [job : Jobs, ack : BOOLEAN,
                                status : {"wait", "ok", "error", "gone"}]]
    /\ troubles \in [outages : Nat, fails : Nat]

MonitorInit ==
    /\ status = [j \in Jobs |-> "wait"] /\ displayed = status
    /\ ackErrors = Unsent /\ started = Jobs \ Unsent /\ manager = TRUE
    /\ monitor = "timer" /\ asked = {} /\ info = NoInfo
    /\ troubles = [outages |-> 0, fails |-> 0]

-----------------------------------------------------------------------------
(* The job manager and the rows *)

ExecuteJob(j) ==
    /\ j \in started /\ status[j] = "wait" /\ manager
    /\ \E s \in {"ok", "error"} : status' = [status EXCEPT ![j] = s]
    /\ UNCHANGED <<ackErrors, started, manager, monitor, displayed, asked, info, troubles>>

\* The owner clears a finished job from another page.
ClearRow(j) ==
    /\ status[j] \in {"ok", "error"}
    /\ status' = [status EXCEPT ![j] = "gone"]
    /\ UNCHANGED <<ackErrors, started, manager, monitor, displayed, asked, info, troubles>>

StopManager ==
    /\ manager /\ troubles.outages < MaxOutages
    /\ manager' = FALSE
    /\ troubles' = [troubles EXCEPT !.outages = @ + 1]
    /\ UNCHANGED <<status, ackErrors, started, monitor, displayed, asked, info>>

RestartManager ==
    /\ ~manager
    /\ manager' = TRUE
    /\ UNCHANGED <<status, ackErrors, started, monitor, displayed, asked, info, troubles>>

-----------------------------------------------------------------------------
(* JobsInformation *)

\* Mutant: START is not sent again.
SentAgainNever == {}

\* Without error START is sent again for the jobs which have communication errors.
SentAgain ==
    IF manager THEN {j \in asked \cap ackErrors : status[j] # "gone"} ELSE {}

\* The broker may refuse, after the PING: then the errors are kept.
ServeInfo ==
    /\ monitor = "asking"
    /\ monitor' = "informed"
    /\ \/ /\ started' = started \cup SentAgain /\ ackErrors' = ackErrors \ SentAgain
          /\ UNCHANGED troubles
       \/ /\ troubles.outages < MaxOutages
          /\ troubles' = [troubles EXCEPT !.outages = @ + 1]
          /\ UNCHANGED <<started, ackErrors>>
    /\ info' = [error |-> ~manager,
                jobs  |-> {[job |-> j, status |-> status[j], ack |-> j \in ackErrors'] : j \in asked}]
    /\ UNCHANGED <<status, manager, displayed, asked>>

-----------------------------------------------------------------------------
(* The page *)

\* data-job-ack-errors is never updated in the page.
Watched == {j \in Jobs : displayed[j] = "wait" \/ j \in Unsent}

FetchInfo ==
    /\ monitor = "timer"
    /\ monitor' = "asking"
    /\ asked' = Watched
    /\ UNCHANGED <<status, ackErrors, started, manager, displayed, info, troubles>>

\* The jobs of the answer which exist.
Known == {i \in info.jobs : i.status # "gone"}

\* Mutant: what the last job says is kept.
NeedReloadLast == info.error \/ (Known # {} /\ \A i \in Known : i.status = "wait" \/ i.ack)

NeedReload == info.error \/ \E i \in Known : i.status = "wait" \/ i.ack

InfoDone ==
    /\ monitor = "informed"
    /\ monitor' = IF NeedReload THEN "timer" ELSE "finished"
    /\ displayed' = IF info.error THEN displayed
                    ELSE [j \in Jobs |->
                            IF \E i \in Known : i.job = j
                            THEN (CHOOSE i \in Known : i.job = j).status ELSE displayed[j]]
    /\ asked' = {} /\ info' = NoInfo
    /\ UNCHANGED <<status, ackErrors, started, manager, troubles>>

\* Only a message: the page does not ask any more.
InfoFail ==
    /\ monitor \in {"asking", "informed"} /\ troubles.fails < MaxHttpFails
    /\ monitor' = "stopped"
    /\ asked' = {} /\ info' = NoInfo
    /\ troubles' = [troubles EXCEPT !.fails = @ + 1]
    /\ UNCHANGED <<status, ackErrors, started, manager, displayed>>

-----------------------------------------------------------------------------
MonitorStep == FetchInfo \/ ServeInfo \/ InfoDone \/ InfoFail

MonitorNext ==
    \/ \E j \in Jobs : ExecuteJob(j) \/ ClearRow(j)
    \/ StopManager \/ RestartManager
    \/ MonitorStep

MonitorSpec == MonitorInit /\ [][MonitorNext]_monitorVars

\* Requests are answered, the timer fires, the manager is started again and
\* executes the jobs which it knows.
MonitorFairSpec ==
    /\ MonitorSpec
    /\ WF_monitorVars(MonitorStep) /\ WF_monitorVars(RestartManager)
    /\ \A j \in Jobs : WF_monitorVars(ExecuteJob(j))

-----------------------------------------------------------------------------
(* Properties *)

\* "finished" (the popup lets the user terminate) is only announced when no job
\* of the page waits, or waits for its START: whatever was answered about jobs
\* which end, are cleared or are started again between two answers.
FinishedIsTrue ==
    monitor = "finished" => \A j \in Jobs : status[j] # "wait" /\ j \in started

\* A page which is not cut off by an HTTP failure sees the end of its jobs, even
\* of those whose START was refused: its own polls start them.
MonitorEnds == <>(monitor \in {"finished", "stopped"})
=============================================================================
