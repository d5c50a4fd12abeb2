---------------------------- MODULE MCComponents ----------------------------
(***************************************************************************)
(* The small components side by side, for TLC. They share no variable and  *)
(* no step: a behaviour is one of a single component, named by part, and   *)
(* nothing is lost by exploring them one at a time.                        *)
(***************************************************************************)
EXTENDS BrickPage, FormDialog, SearchBox, NotificationBox, JobsMonitor,
        NumberGeneration, MassImport, BatchProcess

CONSTANTS
    Parts,                      \* the components which are explored
    b1, b2, b3, m1, m2,         \* bricks and models
    n1, n2, n3, c1,             \* requests which give numbers
    d1, d2, d3, d4              \* billing documents

\* Two bricks of one model, one of which is read only, and one of both models.
BrickDeps == [b \in Bricks |-> IF b = b2 THEN {m1, m2} ELSE {m1}]

\* Two requests number an invoice, a third one another; a job creates others.
ButtonTarget   == [b \in Buttons |-> IF b = n2 THEN d2 ELSE d1]
CreatorCreates == [c \in Creators |-> {d3, d4}]

VARIABLE part

allVars  == <<part, brickVars, dialogVars, searchVars, boxVars, monitorVars,
              numberVars, importVars, batchVars>>

ComponentsInit ==
    /\ part \in Parts
    /\ BrickInit /\ DialogInit /\ SearchInit /\ BoxInit /\ MonitorInit
    /\ NumbersInit /\ ImportInit /\ BatchInit

\* Everything but the variables of one part.
Only(p) ==
    /\ part = p /\ UNCHANGED part
    /\ p # "bricks"  => UNCHANGED brickVars
    /\ p # "dialog"  => UNCHANGED dialogVars
    /\ p # "search"  => UNCHANGED searchVars
    /\ p # "box"     => UNCHANGED boxVars
    /\ p # "monitor" => UNCHANGED monitorVars
    /\ p # "numbers" => UNCHANGED numberVars
    /\ p # "import"  => UNCHANGED importVars
    /\ p # "batch"   => UNCHANGED batchVars

ComponentsNext ==
    \/ Only("bricks") /\ BrickNext
    \/ Only("dialog") /\ DialogNext
    \/ Only("search") /\ SearchNext
    \/ Only("box") /\ BoxNext
    \/ Only("monitor") /\ MonitorNext
    \/ Only("numbers") /\ NumbersNext
    \/ Only("import") /\ ImportNext
    \/ Only("batch") /\ BatchNext

\* With the fairness of each component, for its own behaviours: as the others do
\* nothing, one condition stands for those which concern a single action.
Progress ==
    \/ Only("bricks") /\ BrickAnswers
    \/ Only("search") /\ SearchProgress
    \/ Only("box") /\ BoxPolls
    \/ Only("monitor") /\ MonitorStep

ComponentsSpec ==
    /\ ComponentsInit /\ [][ComponentsNext]_allVars
    /\ WF_allVars(Progress)
    /\ WF_allVars(Only("monitor") /\ RestartManager)
    /\ \A j \in Jobs : WF_allVars(Only("monitor") /\ ExecuteJob(j))

\* Every component keeps to its types.
ComponentsTypeOK ==
    /\ BrickTypeOK /\ DialogTypeOK /\ SearchTypeOK /\ BoxTypeOK /\ MonitorTypeOK
    /\ NumbersTypeOK /\ ImportTypeOK /\ BatchTypeOK

\* The liveness of the monitor, for its behaviours.
WatchedJobsEnd == part = "monitor" => MonitorEnds
=============================================================================
