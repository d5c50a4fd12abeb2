---------------------------- MODULE JobLifecycle ----------------------------
(***************************************************************************)
(* What a user of Creme is promised about the user jobs: a job which has   *)
(* been created waits for a place in the pool, runs once, and stays        *)
(* finished until its owner clears it. A job may be lost when its insertion *)
(* outlives the trials of the scheduler, or when its process is killed.    *)
(* UserJobs implements it as long as the scheduler is not restarted and    *)
(* one page at a time watches the jobs.                                    *)
(***************************************************************************)
EXTENDS Naturals, FiniteSets

CONSTANTS Jobs, PoolSize

VARIABLE status

States == {"new", "waiting", "running", "finished", "cleared", "lost"}

LifecycleTypeOK == status \in [Jobs -> States]

Init == status = [j \in Jobs |-> "new"]

Become(j, s) == status' = [status EXCEPT ![j] = s]

Running == {j \in Jobs : status[j] = "running"}

Create(j) == status[j] = "new" /\ \E s \in {"waiting", "lost"} : Become(j, s)

Start(j) ==
    /\ status[j] = "waiting"
    /\ Cardinality(Running) < PoolSize
    /\ Become(j, "running")

End(j) == status[j] = "running" /\ Become(j, "finished")

Die(j) == status[j] = "running" /\ Become(j, "lost")

Clear(j) == status[j] = "finished" /\ Become(j, "cleared")

Next == \E j \in Jobs : Create(j) \/ Start(j) \/ End(j) \/ Die(j) \/ Clear(j)

Spec == Init /\ [][Next]_status

\* A place in the pool is given to somebody, and whoever runs ends.
LifecycleFairness ==
    /\ WF_status(\E j \in Jobs : Start(j))
    /\ \A j \in Jobs : WF_status(End(j))

FairSpec == Spec /\ LifecycleFairness
=============================================================================
