------------------------------ MODULE UserJobs ------------------------------
(***************************************************************************)
(* User jobs of Creme: the web views which create, poll and clear them,    *)
(* the broker (Redis list) which carries the commands, the JobScheduler    *)
(* process with its pool, and the sub-process which executes each job.     *)
(*                                                                         *)
(* The rows of the table Job are the only durable state; everything the    *)
(* scheduler knows is lost when it stops, and rebuilt by _retrieve_jobs(). *)
(* Between the pop of a command and the query which its handler makes, the *)
(* scheduler touches nothing that another process reads, so a command is   *)
(* popped and handled in one step. PING only proves that the scheduler     *)
(* answers; it is the guard of PollRead.                                   *)
(***************************************************************************)
EXTENDS Naturals, Sequences, FiniteSets

CONSTANTS
    Jobs,            \* ids of the user jobs
    Users,           \* owners of jobs
    Owner,           \* Job.user
    Unchecked,       \* jobs created by views which ignore MAX_JOBS_PER_USER
    Clearable,       \* jobs their owner may clear once finished
    Procs,           \* bound: process identifiers the OS may give
    Pollers,         \* concurrent requests to the view JobsInformation
    NoJob, NoProc,
    MaxUserJobs,     \* settings.MAX_USER_JOBS
    MaxJobsPerUser,  \* settings.MAX_JOBS_PER_USER
    TrialsLimit,     \* _DeferredJob: 100 trials in the code
    InitSched,       \* {"up"}: the scheduler already listens; {"down"}: it boots
    MaxStops,        \* bound: number of times the scheduler is stopped
    MaxLost,         \* bound: number of pushes the broker refuses
    MaxKills         \* bound: number of job processes killed from outside

ASSUME ConstantsAssumption ==
    /\ Jobs \subseteq Nat
    /\ IsFiniteSet(Jobs)
    /\ Owner \in [Jobs -> Users]
    /\ NoJob \notin Jobs
    /\ NoProc \notin Procs
    /\ Unchecked \subseteq Jobs
    /\ Clearable \subseteq Jobs
    /\ MaxUserJobs \in Nat
    /\ MaxJobsPerUser \in Nat
    /\ TrialsLimit \in Nat \ {0}
    /\ InitSched \subseteq {"up", "down"}
    /\ MaxStops \in Nat /\ MaxLost \in Nat /\ MaxKills \in Nat

VARIABLES
    web,        \* the request which creates the job: see WebStates
    row,        \* committed status of the Job, "none" when there is no row
    ack,        \* Job.ack_errors
    poll,       \* what each JobsInformation request has read
    queue,      \* the Redis list 'creme_jobs'
    sched,      \* "down", "cleared" (queue emptied, jobs not read yet), "up"
    usersJobs,  \* JobScheduler._users_jobs, next to start first
    running,    \* JobScheduler._running_userjob_ids
    deferred,   \* number of _DeferredJob in the heap, by job and trials
    popen,      \* JobScheduler._procs
    waiting,    \* the process _end_job() is waiting for
    proc,       \* the operating system's view of the job processes
    dropped,    \* history: jobs whose only START was thrown away, see Tracked
    stops, lost, kills   \* counters of the environment's bounds

webVars   == <<web, row, ack, poll>>
schedVars == <<sched, usersJobs, running, deferred, popen, waiting>>
bounds    == <<stops, lost, kills>>
vars      == <<webVars, queue, schedVars, proc, dropped, bounds>>

WebStates  == {"idle", "checked", "inserted", "committed", "aborted"}
RowStates  == {"none", "wait", "error", "ok"}
ProcStates == {"spawned", "loaded", "executing", "saved"}

START(j) == [type |-> "START", job |-> j]
END(j)   == [type |-> "END",   job |-> j]
Commands == [type : {"START", "END"}, job : Jobs]

NoTrial == [t \in 1..TrialsLimit |-> 0]
Idle    == [job |-> NoJob, pc |-> "idle"]
NoPoll  == [job |-> NoJob, ack |-> 0]

TypeOK ==
    /\ web \in [Jobs -> WebStates]
    /\ row \in [Jobs -> RowStates]
    /\ ack \in [Jobs -> Nat]
    /\ poll \in [Pollers -> [job : Jobs, ack : Nat] \cup {NoPoll}]
    /\ queue \in Seq(Commands)
    /\ sched \in {"down", "cleared", "up"}
    /\ usersJobs \in Seq(Jobs)
    /\ running \subseteq Jobs
    /\ deferred \in [Jobs -> [1..TrialsLimit -> Nat]]
    /\ popen \in [Jobs -> Procs \cup {NoProc}]
    /\ waiting \in Procs \cup {NoProc}
    /\ proc \in [Procs -> [job : Jobs, pc : ProcStates] \cup {Idle}]
    /\ dropped \subseteq Jobs
    /\ stops \in Nat /\ lost \in Nat /\ kills \in Nat

Init ==
    /\ web = [j \in Jobs |-> "idle"]
    /\ row = [j \in Jobs |-> "none"]
    /\ ack = [j \in Jobs |-> 0]
    /\ poll = [p \in Pollers |-> NoPoll]
    /\ queue = <<>>
    /\ sched \in InitSched
    /\ usersJobs = <<>>
    /\ running = {}
    /\ deferred = [j \in Jobs |-> NoTrial]
    /\ popen = [j \in Jobs |-> NoProc]
    /\ waiting = NoProc
    /\ proc = [p \in Procs |-> Idle]
    /\ dropped = {}
    /\ stops = 0 /\ lost = 0 /\ kills = 0

-----------------------------------------------------------------------------
(* The views.                                                              *)

NotFinished(u) == {j \in Jobs : Owner[j] = u /\ row[j] = "wait"}

\* The broker takes the command, or refuses it (RedisError).
Push(cmd) == queue' = Append(queue, cmd) /\ UNCHANGED lost
Refuse    == lost < MaxLost /\ lost' = lost + 1 /\ UNCHANGED queue

\* A view checks the quota of its user; nothing is locked until the creation.
CheckQuota(j) ==
    /\ web[j] = "idle"
    /\ \/ j \in Unchecked
       \/ Cardinality(NotFinished(Owner[j])) < MaxJobsPerUser
    /\ web' = [web EXCEPT ![j] = "checked"]
    /\ UNCHANGED <<row, ack, poll, queue, schedVars, proc, dropped, bounds>>

\* Job.save(): START is sent from inside the transaction which inserts the row.
SaveJob(j) ==
    /\ web[j] = "checked"
    /\ web' = [web EXCEPT ![j] = "inserted"]
    /\ \/ Push(START(j)) /\ UNCHANGED ack
       \/ Refuse /\ ack' = [ack EXCEPT ![j] = 1]
    /\ UNCHANGED <<row, poll, schedVars, proc, dropped, stops, kills>>

Commit(j) ==
    /\ web[j] = "inserted"
    /\ web' = [web EXCEPT ![j] = "committed"]
    /\ row' = [row EXCEPT ![j] = "wait"]
    /\ UNCHANGED <<ack, poll, queue, schedVars, proc, dropped, bounds>>

Rollback(j) ==
    /\ web[j] = "inserted"
    /\ web' = [web EXCEPT ![j] = "aborted"]
    /\ UNCHANGED <<row, ack, poll, queue, schedVars, proc, dropped, bounds>>

\* JobDeletion: only a finished job can be cleared.
ClearJob(j) ==
    /\ j \in Clearable
    /\ row[j] \in {"ok", "error"}
    /\ row' = [row EXCEPT ![j] = "none"]
    /\ UNCHANGED <<web, ack, poll, queue, schedVars, proc, dropped, bounds>>

\* JobsInformation: the PING has been answered, the row is read ...
PollRead(p, j) ==
    /\ sched = "up" /\ waiting = NoProc
    /\ poll[p] = NoPoll
    /\ row[j] # "none" /\ ack[j] > 0
    /\ poll' = [poll EXCEPT ![p] = [job |-> j, ack |-> ack[j]]]
    /\ UNCHANGED <<web, row, ack, queue, schedVars, proc, dropped, bounds>>

\* Mutants: the subtraction is not checked; the errors are not forgotten.
ForgetUnchecked(j, n) == ack' = [ack EXCEPT ![j] = @ - n]
ForgetNothing(j, n)   == UNCHANGED ack

\* forget_ack_errors() subtracts what was read: the database refuses a negative.
Forget(j, n) == IF row[j] # "none" /\ ack[j] >= n
                THEN ack' = [ack EXCEPT ![j] = @ - n]
                ELSE UNCHANGED ack

\* ... and START is sent again, whatever has become of the job meanwhile.
PollSend(p) ==
    /\ poll[p] # NoPoll
    /\ poll' = [poll EXCEPT ![p] = NoPoll]
    /\ \/ Push(START(poll[p].job)) /\ Forget(poll[p].job, poll[p].ack)
       \/ Refuse /\ UNCHANGED ack
    /\ UNCHANGED <<web, row, schedVars, proc, dropped, stops, kills>>

-----------------------------------------------------------------------------
(* The scheduler process.                                                  *)

InUsersJobs(j) == \E i \in 1..Len(usersJobs) : usersJobs[i] = j
HasStart(j)    == \E i \in 1..Len(queue) : queue[i] = START(j)
IsDeferred(j)  == \E t \in 1..TrialsLimit : deferred[j][t] > 0

\* The sequences which hold each element of S once, smaller ids first.
ById(S) == {s \in [1..Cardinality(S) -> S] :
               /\ \A j \in S : \E i \in DOMAIN s : s[i] = j
               /\ \A i, k \in DOMAIN s : i < k => s[i] < s[k]}

\* start(): the list of commands is deleted ...
SchedClear ==
    /\ sched = "down"
    /\ sched' = "cleared"
    /\ queue' = <<>>
    /\ dropped' = dropped \cup {j \in Jobs : web[j] = "inserted"}
    /\ UNCHANGED <<webVars, usersJobs, running, deferred, popen, waiting, proc, bounds>>

\* Mutants: the list of commands is deleted last; no job is read.
RetrieveThenClear ==
    /\ sched = "cleared"
    /\ sched' = "up"
    /\ \E s \in ById({j \in Jobs : row[j] = "wait"}) : usersJobs' = s
    /\ queue' = <<>>
    /\ dropped' = {j \in dropped : row[j] # "wait"}
    /\ UNCHANGED <<webVars, running, deferred, popen, waiting, proc, bounds>>

RetrieveNothing ==
    /\ sched = "cleared"
    /\ sched' = "up"
    /\ dropped' = {j \in dropped : row[j] # "wait"}
    /\ UNCHANGED <<webVars, queue, usersJobs, running, deferred, popen, waiting, proc, bounds>>

\* ... then the waiting jobs are read from the database.
RetrieveJobs ==
    /\ sched = "cleared"
    /\ sched' = "up"
    /\ \E s \in ById({j \in Jobs : row[j] = "wait"}) : usersJobs' = s
    /\ dropped' = {j \in dropped : row[j] # "wait"}
    /\ UNCHANGED <<webVars, queue, running, deferred, popen, waiting, proc, bounds>>

\* SIGTERM, or an exception of the broker which nobody catches in start().
SchedStop ==
    /\ sched # "down"
    /\ stops < MaxStops /\ stops' = stops + 1
    /\ sched' = "down"
    /\ usersJobs' = <<>>
    /\ running' = {}
    /\ deferred' = [j \in Jobs |-> NoTrial]
    /\ popen' = [j \in Jobs |-> NoProc]
    /\ waiting' = NoProc
    /\ UNCHANGED <<webVars, queue, proc, dropped, lost, kills>>

\* The main loop is not blocked in the wait() of _end_job().
Ready == sched = "up" /\ waiting = NoProc

\* Mutant: a job which is in the list is pushed again.
PushAgain(j) == usersJobs' = Append(usersJobs, j)

PushUserJob(j) == usersJobs' = IF InUsersJobs(j) THEN usersJobs ELSE Append(usersJobs, j)

\* Mutant: one process more.
PoolHasMoreRoom == Cardinality(running) <= MaxUserJobs + 1

\* The test of the main loop is "<=", not "<".
PoolHasRoom == Cardinality(running) <= MaxUserJobs
CanStart    == PoolHasRoom /\ usersJobs # <<>>

\* A process identifier nobody refers to any more.
FreeProcs == {p \in Procs : proc[p] = Idle /\ \A j \in Jobs : popen[j] # p}

StartJob ==
    /\ Ready /\ CanStart
    /\ LET j == Head(usersJobs) IN
       \E p \in FreeProcs :
          /\ proc' = [proc EXCEPT ![p] = [job |-> j, pc |-> "spawned"]]
          /\ popen' = [popen EXCEPT ![j] = p]
          /\ running' = running \cup {j}
    /\ usersJobs' = Tail(usersJobs)
    /\ UNCHANGED <<webVars, queue, sched, deferred, waiting, dropped, bounds>>

\* Mutant: a deferred job is only tried once.
WakeOnce(j, t) ==
    /\ Ready
    /\ deferred[j][t] > 0
    /\ deferred' = [deferred EXCEPT ![j][t] = @ - 1]
    /\ IF row[j] # "none" THEN PushUserJob(j) ELSE UNCHANGED usersJobs
    /\ UNCHANGED <<webVars, queue, sched, running, popen, waiting, proc, dropped, bounds>>

\* A deferred job is due: its row is there, or it is tried again, or forgotten.
WakeDeferred(j, t) ==
    /\ Ready
    /\ deferred[j][t] > 0
    /\ LET popped == [deferred[j] EXCEPT ![t] = @ - 1] IN
       \/ /\ row[j] # "none"
          /\ PushUserJob(j)
          /\ deferred' = [deferred EXCEPT ![j] = popped]
          /\ UNCHANGED dropped
       \/ /\ row[j] = "none" /\ t < TrialsLimit
          /\ deferred' = [deferred EXCEPT ![j] = [popped EXCEPT ![t + 1] = @ + 1]]
          /\ UNCHANGED <<usersJobs, dropped>>
       \/ /\ row[j] = "none" /\ t >= TrialsLimit
          /\ deferred' = [deferred EXCEPT ![j] = popped]
          /\ dropped' = IF web[j] = "inserted" THEN dropped \cup {j} ELSE dropped
          /\ UNCHANGED usersJobs
    /\ UNCHANGED <<webVars, queue, sched, running, popen, waiting, proc, bounds>>

\* The pool is filled before the main loop blocks on the queue.
NextCommand(cmd) ==
    /\ Ready /\ ~CanStart
    /\ queue # <<>>
    /\ Head(queue) = cmd
    /\ queue' = Tail(queue)

\* Mutant: a START whose job does not exist yet is ignored.
HandleStartOnce(j) ==
    /\ NextCommand(START(j))
    /\ IF row[j] # "none" THEN PushUserJob(j) ELSE UNCHANGED usersJobs
    /\ UNCHANGED <<webVars, sched, deferred, running, popen, waiting, proc, dropped, bounds>>

HandleStart(j) ==
    /\ NextCommand(START(j))
    /\ \/ /\ row[j] # "none"
          /\ PushUserJob(j)
          /\ UNCHANGED deferred
       \/ /\ row[j] = "none"
          /\ deferred' = [deferred EXCEPT ![j][1] = @ + 1]
          /\ UNCHANGED usersJobs
    /\ UNCHANGED <<webVars, sched, running, popen, waiting, proc, dropped, bounds>>

\* Mutant: the slot of the pool is not given back.
HandleEndKeepSlot(j) ==
    /\ NextCommand(END(j))
    /\ IF row[j] = "none"
       THEN UNCHANGED <<popen, waiting>>
       ELSE /\ popen' = [popen EXCEPT ![j] = NoProc]
            /\ waiting' = popen[j]
    /\ UNCHANGED <<webVars, sched, usersJobs, running, deferred, proc, dropped, bounds>>

\* _end_job(): the Popen is forgotten, and waited for.
HandleEnd(j) ==
    /\ NextCommand(END(j))
    /\ IF row[j] = "none"
       THEN UNCHANGED <<running, popen, waiting>>
       ELSE /\ running' = running \ {j}
            /\ popen' = [popen EXCEPT ![j] = NoProc]
            /\ waiting' = popen[j]
    /\ UNCHANGED <<webVars, sched, usersJobs, deferred, proc, dropped, bounds>>

WaitReturns ==
    /\ sched = "up" /\ waiting # NoProc
    /\ proc[waiting] = Idle
    /\ waiting' = NoProc
    /\ UNCHANGED <<webVars, queue, sched, usersJobs, running, deferred, popen, proc, dropped, bounds>>

-----------------------------------------------------------------------------
(* A job process: _JobTypeRegistry.__call__() then JobType.execute().      *)

\* Job.objects.filter(id=...).update(): nothing happens without a row.
UpdateRow(j, status) == row' = [row EXCEPT ![j] = IF @ = "none" THEN @ ELSE status]

\* Job.objects.get(): when the row is gone the process dies, without END.
Load(p) ==
    /\ proc[p].pc = "spawned"
    /\ proc' = [proc EXCEPT ![p] = IF row[proc[p].job] = "none" THEN Idle
                                   ELSE [@ EXCEPT !.pc = "loaded"]]
    /\ UNCHANGED <<webVars, queue, schedVars, dropped, bounds>>

MarkWait(p) ==
    /\ proc[p].pc = "loaded"
    /\ UpdateRow(proc[p].job, "wait")
    /\ proc' = [proc EXCEPT ![p].pc = "executing"]
    /\ UNCHANGED <<web, ack, poll, queue, schedVars, dropped, bounds>>

\* _execute() has returned or raised; the result is saved.
Finish(p) ==
    /\ proc[p].pc = "executing"
    /\ \E status \in {"ok", "error"} : UpdateRow(proc[p].job, status)
    /\ proc' = [proc EXCEPT ![p].pc = "saved"]
    /\ UNCHANGED <<web, ack, poll, queue, schedVars, dropped, bounds>>

\* end_job() is the last thing the process does; it does not catch RedisError.
SendEnd(p) ==
    /\ proc[p].pc = "saved"
    /\ Push(END(proc[p].job)) \/ Refuse
    /\ proc' = [proc EXCEPT ![p] = Idle]
    /\ UNCHANGED <<webVars, schedVars, dropped, stops, kills>>

Kill(p) ==
    /\ proc[p] # Idle
    /\ kills < MaxKills /\ kills' = kills + 1
    /\ proc' = [proc EXCEPT ![p] = Idle]
    /\ dropped' = dropped \cup {proc[p].job}
    /\ UNCHANGED <<webVars, queue, schedVars, stops, lost>>

-----------------------------------------------------------------------------
Web(j) == CheckQuota(j) \/ SaveJob(j) \/ Commit(j) \/ Rollback(j) \/ ClearJob(j)

Poll == \E p \in Pollers : PollSend(p) \/ \E j \in Jobs : PollRead(p, j)

Command == \E j \in Jobs : HandleStart(j) \/ HandleEnd(j)

Wake == \E j \in Jobs, t \in 1..TrialsLimit : WakeDeferred(j, t)

Work(p) == Load(p) \/ MarkWait(p) \/ Finish(p) \/ SendEnd(p)

Next ==
    \/ \E j \in Jobs : Web(j)
    \/ Poll
    \/ SchedClear \/ RetrieveJobs \/ SchedStop
    \/ StartJob \/ Wake \/ Command \/ WaitReturns
    \/ \E p \in Procs : Work(p) \/ Kill(p)

Spec == Init /\ [][Next]_vars

\* The scheduler loops, its timer expires, a job terminates, a view which has
\* begun an insertion ends it. Nobody has to create, poll or clear anything.
Fairness ==
    /\ WF_vars(SchedClear) /\ WF_vars(RetrieveJobs)
    /\ WF_vars(StartJob) /\ WF_vars(Command) /\ WF_vars(WaitReturns)
    /\ \A j \in Jobs : WF_vars(\E t \in 1..TrialsLimit : WakeDeferred(j, t))
    /\ \A j \in Jobs : WF_vars(Commit(j) \/ Rollback(j))
    /\ \A p \in Procs : WF_vars(Work(p))

FairSpec == Spec /\ Fairness

\* Each page which displays the jobs stays opened: it polls again and again.
WatchedSpec ==
    /\ FairSpec
    /\ \A p \in Pollers, j \in Jobs : WF_vars(PollRead(p, j)) /\ WF_vars(PollSend(p))
-----------------------------------------------------------------------------
(* Properties.                                                             *)

Executes(p, j) == proc[p].job = j /\ proc[p].pc \in {"spawned", "loaded", "executing"}
IsExecuted(j)  == \E p \in Procs : Executes(p, j)

\* Something will make the scheduler run the job.
Tracked(j) ==
    \/ sched # "up"        \* it will be read from the database
    \/ HasStart(j) \/ IsDeferred(j) \/ InUsersJobs(j)
    \/ IsExecuted(j)
    \/ ack[j] > 0          \* START is sent again when its owner watches the job

\* A waiting job is never forgotten by everybody at once, whatever the orders
\* of transactions, commands, restarts and refused pushes; except a job whose
\* process is killed or whose insertion was not committed when its command was
\* thrown away (the reset of the queue, the last trial of _DeferredJob).
NoSilentLoss == \A j \in Jobs : row[j] = "wait" => Tracked(j) \/ j \in dropped

\* The inductive strengthening of NoSilentLoss: a row only exists once its
\* insertion is committed, and a job being inserted already has its START.
CommittedRows   == \A j \in Jobs : web[j] # "committed" => row[j] = "none"
InsertedTracked == \A j \in Jobs : web[j] = "inserted" =>
    \/ sched = "down" \/ HasStart(j) \/ IsDeferred(j) \/ ack[j] > 0
    \/ j \in dropped
LossInv == CommittedRows /\ InsertedTracked /\ NoSilentLoss

\* The ids counted by the pool are those of the processes the scheduler knows,
\* and START commands which cross each other cannot make the pool grow.
PoolConsistent ==
    /\ Cardinality(running) <= MaxUserJobs + 1
    /\ \A j \in Jobs : j \in running <=> popen[j] # NoProc

\* _push_user_job(): a job is not twice in the list, whichever of START, the
\* deferred trials and the database brought it there.
UsersJobsDistinct ==
    \A i, k \in 1..Len(usersJobs) : i # k => usersJobs[i] # usersJobs[k]

\* JobType: NOT_PERIODIC is a "one shot Job". A process is only spawned for a
\* job which waits and which no other process executes: two processes never
\* execute the same job, and a finished job is not executed again.
OneShot == [][\A p \in Procs : \A j \in Jobs :
                  ~Executes(p, j) /\ Executes(p, j)' => row[j] = "wait" /\ ~IsExecuted(j)]_vars

\* A waiting job ends, when its START has not been thrown away.
WaitingJobEnds ==
    \A j \in Jobs : (row[j] = "wait" /\ j \notin dropped) ~> (row[j] # "wait")

\* The user's view of the states of the code.
StatusOf(j) ==
    CASE row[j] = "none"            -> IF web[j] = "committed" THEN "cleared" ELSE "new"
      [] row[j] \in {"ok", "error"} -> "finished"
      [] row[j] = "wait"            -> IF IsExecuted(j) THEN "running"
                                       ELSE IF j \in dropped THEN "lost" ELSE "waiting"

Status == [j \in Jobs |-> StatusOf(j)]

Lifecycle == INSTANCE JobLifecycle WITH PoolSize <- MaxUserJobs + 1, status <- Status

\* The commands, the deferred trials, the table of processes and the rows
\* together do what JobLifecycle promises.
ImplementsLifecycle == Lifecycle!Spec

\* A place of the pool which will never be given back: the job was cleared before
\* its END is handled, its process was killed, or its END was refused.
PlaceLost == \E j \in running :
    \/ row[j] = "none"
    \/ j \in dropped
    \/ lost > 0 /\ ~\E p \in Procs : proc[p].job = j
        /\ ~\E i \in 1..Len(queue) : queue[i] = END(j)

\* As long as no place is lost in this way, every place of the pool ends up being
\* given while jobs wait, and whoever runs ends: no order of the transactions,
\* trials, polls and commands makes the scheduler forget a free place.
PlacesAreGiven == <>PlaceLost \/ Lifecycle!LifecycleFairness
=============================================================================
