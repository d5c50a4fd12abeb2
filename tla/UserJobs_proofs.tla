--------------------------- MODULE UserJobs_proofs ---------------------------
(* Theorems about UserJobs, for every value of its constants. *)
EXTENDS UserJobs, FiniteSetTheorems, SequenceTheorems, TLAPS

\* The push of a command on the Redis list (JobSchedulerQueue) keeps the list one of commands.
LEMMA PushType ==
    ASSUME queue \in Seq(Commands), lost \in Nat, NEW c \in Commands, Push(c)
    PROVE  queue' \in Seq(Commands) /\ lost' \in Nat
  BY AppendProperties DEF Push

\* A push which Redis refuses leaves the list alone and counts one more failure.
LEMMA RefuseType ==
    ASSUME queue \in Seq(Commands), lost \in Nat, Refuse
    PROVE  queue' \in Seq(Commands) /\ lost' \in Nat
  BY DEF Refuse

\* The pop of the oldest command leaves a list of commands.
LEMMA NextCommandType ==
    ASSUME queue \in Seq(Commands), NEW c, NextCommand(c)
    PROVE  queue' \in Seq(Commands)
  BY HeadTailProperties DEF NextCommand

\* START and END of a job are commands the scheduler knows.
LEMMA CommandsType == \A j \in Jobs : START(j) \in Commands /\ END(j) \in Commands
  BY DEF START, END, Commands

\* _push_user_job() keeps the list of the jobs to start one of jobs.
LEMMA PushUserJobType ==
    ASSUME usersJobs \in Seq(Jobs), NEW j \in Jobs, PushUserJob(j)
    PROVE  usersJobs' \in Seq(Jobs)
  BY AppendProperties DEF PushUserJob

\* The rows order_by("id") returns: all the rows of the set, each one once.
LEMMA ByIdType ==
    ASSUME NEW S, S \subseteq Jobs, NEW s \in ById(S)
    PROVE  /\ s \in Seq(Jobs)
           /\ \A j \in S : \E i \in 1..Len(s) : s[i] = j
           /\ \A i, k \in 1..Len(s) : i # k => s[i] # s[k]
<1>1. Cardinality(S) \in Nat
  BY ConstantsAssumption, FS_Subset, FS_CardinalityType
<1>2. s \in [1..Cardinality(S) -> S]
  BY DEF ById
<1>3. s \in Seq(S) /\ Len(s) = Cardinality(S) /\ DOMAIN s = 1..Len(s)
  BY <1>1, <1>2
<1>4. s \in Seq(Jobs)
  BY <1>3
<1>5. \A j \in S : \E i \in 1..Len(s) : s[i] = j
  BY <1>3 DEF ById
<1>6. ASSUME NEW i \in 1..Len(s), NEW k \in 1..Len(s), i # k PROVE s[i] # s[k]
  <2>1. i < k \/ k < i
    BY <1>3, <1>6
  <2>2. s[i] \in Nat /\ s[k] \in Nat
    BY <1>2, <1>3, ConstantsAssumption
  <2>3. \A a, b \in DOMAIN s : a < b => s[a] < s[b]
    BY DEF ById
  <2> QED
    BY <1>3, <2>1, <2>2, <2>3
<1> QED
  BY <1>4, <1>5, <1>6

ProcType == [Procs -> [job : Jobs, pc : ProcStates] \cup {Idle}]

\* A process which is not idle executes a job, and changes its state or ends.
LEMMA ProcStep ==
    ASSUME proc \in ProcType, NEW p \in Procs, proc[p].pc # "idle"
    PROVE  /\ proc[p] \in [job : Jobs, pc : ProcStates]
           /\ \A pc \in ProcStates : [proc EXCEPT ![p].pc = pc] \in ProcType
           /\ [proc EXCEPT ![p] = Idle] \in ProcType
<1>1. proc[p] \in [job : Jobs, pc : ProcStates]
  BY DEF ProcType, Idle
<1>2. ASSUME NEW pc \in ProcStates PROVE [proc EXCEPT ![p].pc = pc] \in ProcType
  <2>1. [proc[p] EXCEPT !.pc = pc] \in [job : Jobs, pc : ProcStates]
    BY <1>1
  <2> QED
    BY <2>1 DEF ProcType
<1>3. [proc EXCEPT ![p] = Idle] \in ProcType
  BY DEF ProcType
<1> QED
  BY <1>1, <1>2, <1>3

-----------------------------------------------------------------------------

\* The state a fresh installation starts from has the right types.
LEMMA TypeInit == Init => TypeOK
  BY ConstantsAssumption
  DEF Init, TypeOK, NoTrial, NoPoll, Idle, WebStates, RowStates, ProcStates, Commands

\* Every handler, of the web workers, of the scheduler and of the children, keeps the types.
LEMMA TypeNext == TypeOK /\ [Next]_vars => TypeOK'
<1> SUFFICES ASSUME TypeOK, [Next]_vars PROVE TypeOK'
  OBVIOUS
<1> USE ConstantsAssumption DEF TypeOK
<1>1. ASSUME NEW j \in Jobs, CheckQuota(j) PROVE TypeOK'
  BY <1>1 DEF CheckQuota, WebStates, schedVars, bounds
<1>2. ASSUME NEW j \in Jobs, SaveJob(j) PROVE TypeOK'
  <2>1. queue' \in Seq(Commands) /\ lost' \in Nat
    BY <1>2, PushType, RefuseType, CommandsType DEF SaveJob
  <2>2. ack' \in [Jobs -> Nat] /\ web' \in [Jobs -> WebStates]
    BY <1>2 DEF SaveJob, Push, Refuse, WebStates
  <2> QED
    BY <1>2, <2>1, <2>2 DEF SaveJob, schedVars
<1>3. ASSUME NEW j \in Jobs, Commit(j) PROVE TypeOK'
  BY <1>3 DEF Commit, WebStates, RowStates, schedVars, bounds
<1>4. ASSUME NEW j \in Jobs, Rollback(j) PROVE TypeOK'
  BY <1>4 DEF Rollback, WebStates, schedVars, bounds
<1>5. ASSUME NEW j \in Jobs, ClearJob(j) PROVE TypeOK'
  BY <1>5 DEF ClearJob, RowStates, schedVars, bounds
<1>6. ASSUME NEW p \in Pollers, NEW j \in Jobs, PollRead(p, j) PROVE TypeOK'
  BY <1>6 DEF PollRead, schedVars, bounds
<1>7. ASSUME NEW p \in Pollers, PollSend(p) PROVE TypeOK'
  <2>1. poll[p].job \in Jobs /\ poll[p].ack \in Nat
    BY <1>7 DEF PollSend
  <2>2. queue' \in Seq(Commands) /\ lost' \in Nat
    BY <1>7, <2>1, PushType, RefuseType, CommandsType DEF PollSend
  <2>3. ack' \in [Jobs -> Nat]
    BY <1>7, <2>1 DEF PollSend, Forget
  <2>4. poll' \in [Pollers -> [job : Jobs, ack : Nat] \cup {NoPoll}]
    BY <1>7 DEF PollSend
  <2> QED
    BY <1>7, <2>2, <2>3, <2>4 DEF PollSend, schedVars
<1>8. CASE SchedClear
  <2>1. queue' \in Seq(Commands)
    BY <1>8 DEF SchedClear
  <2>2. dropped' \subseteq Jobs /\ sched' \in {"down", "cleared", "up"}
    BY <1>8 DEF SchedClear
  <2> QED
    BY <1>8, <2>1, <2>2 DEF SchedClear, webVars, bounds
<1>9. CASE RetrieveJobs
  <2>1. usersJobs' \in Seq(Jobs)
    BY <1>9, ByIdType DEF RetrieveJobs
  <2> QED
    BY <1>9, <2>1 DEF RetrieveJobs, webVars, bounds
<1>10. CASE SchedStop
  BY <1>10 DEF SchedStop, webVars, NoTrial
<1>11. CASE StartJob
  <2>1. Head(usersJobs) \in Jobs /\ Tail(usersJobs) \in Seq(Jobs)
    BY <1>11, HeadTailProperties DEF StartJob, CanStart
  <2>2. PICK p \in FreeProcs :
          /\ proc' = [proc EXCEPT ![p] = [job |-> Head(usersJobs), pc |-> "spawned"]]
          /\ popen' = [popen EXCEPT ![Head(usersJobs)] = p]
          /\ running' = running \cup {Head(usersJobs)}
    BY <1>11 DEF StartJob
  <2>3. [job |-> Head(usersJobs), pc |-> "spawned"] \in [job : Jobs, pc : ProcStates]
    BY <2>1 DEF ProcStates
  <2>4. p \in Procs
    BY DEF FreeProcs
  <2> QED
    BY <1>11, <2>1, <2>2, <2>3, <2>4 DEF StartJob, webVars, bounds
<1>12. ASSUME NEW j \in Jobs, NEW t \in 1..TrialsLimit, WakeDeferred(j, t) PROVE TypeOK'
  <2>1. usersJobs' \in Seq(Jobs)
    BY <1>12, PushUserJobType DEF WakeDeferred
  <2>2. deferred' \in [Jobs -> [1..TrialsLimit -> Nat]]
    <3> DEFINE popped == [deferred[j] EXCEPT ![t] = @ - 1]
    <3>1. popped \in [1..TrialsLimit -> Nat]
      <4>1. deferred[j] \in [1..TrialsLimit -> Nat]
        OBVIOUS
      <4>2. deferred[j][t] \in Nat /\ deferred[j][t] > 0
        BY <1>12, <4>1 DEF WakeDeferred
      <4>3. deferred[j][t] - 1 \in Nat
        BY <4>2
      <4> QED
        BY <4>1, <4>3
    <3>2. ASSUME t < TrialsLimit
          PROVE  [popped EXCEPT ![t + 1] = @ + 1] \in [1..TrialsLimit -> Nat]
      <4>1. t + 1 \in 1..TrialsLimit
        BY <3>2
      <4> HIDE DEF popped
      <4>2. popped[t + 1] + 1 \in Nat
        BY <3>1, <4>1
      <4> QED
        BY <3>1, <4>1, <4>2
    <3>3. \/ deferred' = [deferred EXCEPT ![j] = popped]
          \/ t < TrialsLimit /\ deferred' = [deferred EXCEPT ![j] = [popped EXCEPT ![t + 1] = @ + 1]]
      BY <1>12 DEF WakeDeferred
    <3> HIDE DEF popped
    <3> QED
      BY <3>1, <3>2, <3>3
  <2>3. dropped' \subseteq Jobs
    <3>1. dropped' = dropped \/ dropped' = dropped \cup {j}
      BY <1>12, Zenon DEF WakeDeferred
    <3> QED
      BY <3>1
  <2> QED
    BY <1>12, <2>1, <2>2, <2>3 DEF WakeDeferred, webVars, bounds
<1>13. ASSUME NEW j \in Jobs, HandleStart(j) PROVE TypeOK'
  <2>1. queue' \in Seq(Commands)
    BY <1>13, NextCommandType DEF HandleStart
  <2>2. usersJobs' \in Seq(Jobs)
    BY <1>13, PushUserJobType DEF HandleStart
  <2>3. deferred' \in [Jobs -> [1..TrialsLimit -> Nat]]
    <3>1. 1 \in 1..TrialsLimit
      OBVIOUS
    <3>2. deferred' = deferred \/ deferred' = [deferred EXCEPT ![j][1] = @ + 1]
      BY <1>13 DEF HandleStart
    <3>3. [deferred[j] EXCEPT ![1] = @ + 1] \in [1..TrialsLimit -> Nat]
      BY <3>1
    <3> QED
      BY <3>2, <3>3
  <2> QED
    BY <1>13, <2>1, <2>2, <2>3 DEF HandleStart, webVars, bounds
<1>14. ASSUME NEW j \in Jobs, HandleEnd(j) PROVE TypeOK'
  <2>1. queue' \in Seq(Commands)
    BY <1>14, NextCommandType DEF HandleEnd
  <2> QED
    BY <1>14, <2>1 DEF HandleEnd, webVars, bounds
<1>15. CASE WaitReturns
  BY <1>15 DEF WaitReturns, webVars, bounds
<1>16. ASSUME NEW p \in Procs, Load(p) PROVE TypeOK'
  <2>1. proc' = [proc EXCEPT ![p] = Idle] \/ proc' = [proc EXCEPT ![p].pc = "loaded"]
    BY <1>16 DEF Load
  <2>2. proc' \in ProcType
    BY <1>16, <2>1, ProcStep DEF Load, ProcStates, ProcType
  <2> QED
    BY <1>16, <2>2 DEF Load, ProcType, webVars, schedVars, bounds
<1>17. ASSUME NEW p \in Procs, MarkWait(p) PROVE TypeOK'
  <2>1. proc' \in ProcType
    BY <1>17, ProcStep DEF MarkWait, ProcStates, ProcType
  <2>2. row' \in [Jobs -> RowStates]
    BY <1>17, ProcStep DEF MarkWait, UpdateRow, ProcType, RowStates
  <2> QED
    BY <1>17, <2>1, <2>2 DEF MarkWait, ProcType, schedVars, bounds
<1>18. ASSUME NEW p \in Procs, Finish(p) PROVE TypeOK'
  <2>1. proc' \in ProcType
    BY <1>18, ProcStep DEF Finish, ProcStates, ProcType
  <2>2. row' \in [Jobs -> RowStates]
    BY <1>18, ProcStep DEF Finish, UpdateRow, ProcType, RowStates
  <2> QED
    BY <1>18, <2>1, <2>2 DEF Finish, ProcType, schedVars, bounds
<1>19. ASSUME NEW p \in Procs, SendEnd(p) PROVE TypeOK'
  <2>1. proc[p].job \in Jobs
    BY <1>19 DEF SendEnd, Idle
  <2>2. queue' \in Seq(Commands) /\ lost' \in Nat
    BY <1>19, <2>1, PushType, RefuseType, CommandsType DEF SendEnd
  <2> QED
    BY <1>19, <2>2 DEF SendEnd, webVars, schedVars
<1>20. ASSUME NEW p \in Procs, Kill(p) PROVE TypeOK'
  <2>1. proc[p].job \in Jobs
    BY <1>20 DEF Kill
  <2>2. proc' \in ProcType
    BY <1>20 DEF Kill, ProcType
  <2>3. dropped' \subseteq Jobs
    BY <1>20, <2>1 DEF Kill
  <2>3a. kills' \in Nat
    BY <1>20 DEF Kill
  <2>4. UNCHANGED <<web, row, ack, poll, queue, sched, usersJobs, running, deferred,
                    popen, waiting, stops, lost>>
    BY <1>20 DEF Kill, webVars, schedVars
  <2> HIDE <1>20
  <2> QED
    BY <2>2, <2>3, <2>3a, <2>4 DEF ProcType
<1>21. CASE UNCHANGED vars
  BY <1>21 DEF vars, webVars, schedVars, bounds
<1> QED
  BY <1>1, <1>2, <1>3, <1>4, <1>5, <1>6, <1>7, <1>8, <1>9, <1>10, <1>11, <1>12, <1>13,
     <1>14, <1>15, <1>16, <1>17, <1>18, <1>19, <1>20, <1>21
  DEF Next, Web, Poll, Wake, Command, Work

\* Every variable keeps its type, with any number of jobs, processes, pollers,
\* restarts and failures.
THEOREM TypeCorrect == Spec => []TypeOK
  BY TypeInit, TypeNext, PTL DEF Spec

-----------------------------------------------------------------------------
(* The pool.                                                               *)

\* Only the start of a child, an END command and the stop of the scheduler touch the pool;
\* the first one checks that the pool has room, the others only make it smaller.
LEMMA PoolNext == TypeOK /\ PoolConsistent /\ [Next]_vars => PoolConsistent'
<1> SUFFICES ASSUME TypeOK, PoolConsistent, [Next]_vars PROVE PoolConsistent'
  OBVIOUS
<1>1. IsFiniteSet(running) /\ Cardinality(running) \in Nat
  BY ConstantsAssumption, FS_Subset, FS_CardinalityType DEF TypeOK
<1>2. ASSUME UNCHANGED <<running, popen>> PROVE PoolConsistent'
  BY <1>2 DEF PoolConsistent
<1>3. CASE SchedStop
  <2>1. Cardinality({}) = 0
    BY FS_EmptySet
  <2> QED
    BY <1>3, <2>1, ConstantsAssumption DEF SchedStop, PoolConsistent
<1>4. CASE StartJob
  <2> DEFINE j == Head(usersJobs)
  <2>1. j \in Jobs
    BY <1>4, HeadTailProperties DEF StartJob, CanStart, TypeOK
  <2>2. PICK p \in Procs : popen' = [popen EXCEPT ![j] = p] /\ running' = running \cup {j}
    BY <1>4 DEF StartJob, FreeProcs
  <2>3. Cardinality(running \cup {j}) <= Cardinality(running) + 1
    BY <1>1, FS_AddElement
  <2>4. Cardinality(running) <= MaxUserJobs
    BY <1>4 DEF StartJob, CanStart, PoolHasRoom
  <2>5. Cardinality(running \cup {j}) \in Nat
    BY <1>1, FS_AddElement
  <2>6. Cardinality(running') <= MaxUserJobs + 1
    BY <1>1, <2>2, <2>3, <2>4, <2>5, ConstantsAssumption
  <2>7. \A k \in Jobs : k \in running' <=> popen'[k] # NoProc
    BY <2>1, <2>2, ConstantsAssumption DEF PoolConsistent, TypeOK
  <2> QED
    BY <2>6, <2>7 DEF PoolConsistent
<1>5. ASSUME NEW j \in Jobs, HandleEnd(j) PROVE PoolConsistent'
  <2>1. CASE row[j] = "none"
    BY <1>2, <1>5, <2>1 DEF HandleEnd
  <2>2. CASE row[j] # "none"
    <3>1. running' = running \ {j} /\ popen' = [popen EXCEPT ![j] = NoProc]
      BY <1>5, <2>2 DEF HandleEnd
    <3>2. Cardinality(running \ {j}) <= Cardinality(running) /\ Cardinality(running \ {j}) \in Nat
      BY <1>1, FS_Subset, FS_CardinalityType
    <3>3. Cardinality(running') <= MaxUserJobs + 1
      BY <1>1, <3>1, <3>2, ConstantsAssumption DEF PoolConsistent
    <3> QED
      BY <3>1, <3>3 DEF PoolConsistent, TypeOK
  <2> QED
    BY <2>1, <2>2
<1>6. ASSUME NEW j \in Jobs, Web(j) PROVE PoolConsistent'
  BY <1>2, <1>6 DEF Web, CheckQuota, SaveJob, Commit, Rollback, ClearJob, schedVars
<1>7. CASE Poll \/ SchedClear \/ RetrieveJobs \/ Wake \/ WaitReturns
  BY <1>2, <1>7 DEF Poll, PollRead, PollSend, SchedClear, RetrieveJobs, Wake, WakeDeferred,
                    WaitReturns, schedVars
<1>8. ASSUME NEW j \in Jobs, HandleStart(j) PROVE PoolConsistent'
  BY <1>2, <1>8 DEF HandleStart
<1>9. ASSUME NEW p \in Procs, Work(p) \/ Kill(p) PROVE PoolConsistent'
  BY <1>2, <1>9 DEF Work, Load, MarkWait, Finish, SendEnd, Kill, schedVars
<1>10. CASE UNCHANGED vars
  BY <1>2, <1>10 DEF vars, schedVars
<1> QED
  BY <1>3, <1>4, <1>5, <1>6, <1>7, <1>8, <1>9, <1>10 DEF Next, Command

\* The pool never counts more than MAX_USER_JOBS + 1 jobs, and they are exactly
\* the jobs whose process is in JobScheduler._procs.
THEOREM PoolCorrect == Spec => []PoolConsistent
<1>1. Init => PoolConsistent
  <2>1. Cardinality({}) = 0
    BY FS_EmptySet
  <2> QED
    BY <2>1, ConstantsAssumption DEF Init, PoolConsistent
<1> QED
  BY <1>1, TypeCorrect, PoolNext, PTL DEF Spec

-----------------------------------------------------------------------------
(* The list of the jobs to start.                                          *)

\* _push_user_job() does not append a job which is already in the list.
LEMMA PushDistinct ==
    ASSUME usersJobs \in Seq(Jobs), UsersJobsDistinct, NEW j \in Jobs, PushUserJob(j)
    PROVE  UsersJobsDistinct'
<1>1. CASE InUsersJobs(j)
  BY <1>1 DEF PushUserJob, UsersJobsDistinct
<1>2. CASE ~InUsersJobs(j)
  <2>1. usersJobs' = Append(usersJobs, j)
    BY <1>2 DEF PushUserJob
  <2>2. /\ Len(usersJobs') = Len(usersJobs) + 1
        /\ \A i \in 1..Len(usersJobs) : usersJobs'[i] = usersJobs[i] /\ usersJobs[i] # j
        /\ usersJobs'[Len(usersJobs) + 1] = j
    BY <1>2, <2>1, AppendProperties DEF InUsersJobs
  <2>3. Len(usersJobs) \in Nat
    BY LenProperties
  <2> QED
    BY <2>2, <2>3 DEF UsersJobsDistinct
<1> QED
  BY <1>1, <1>2

\* The list of the jobs to start is filled by _push_user_job(), or read in one query at boot.
LEMMA DistinctNext == TypeOK /\ UsersJobsDistinct /\ [Next]_vars => UsersJobsDistinct'
<1> SUFFICES ASSUME TypeOK, UsersJobsDistinct, [Next]_vars PROVE UsersJobsDistinct'
  OBVIOUS
<1>1. usersJobs \in Seq(Jobs)
  BY DEF TypeOK
<1>2. ASSUME UNCHANGED usersJobs PROVE UsersJobsDistinct'
  BY <1>2 DEF UsersJobsDistinct
<1>3. CASE RetrieveJobs
  BY <1>3, ByIdType DEF RetrieveJobs, UsersJobsDistinct
<1>4. CASE SchedStop
  BY <1>4 DEF SchedStop, UsersJobsDistinct
<1>5. CASE StartJob
  <2>1. usersJobs' = Tail(usersJobs) /\ usersJobs # <<>>
    BY <1>5 DEF StartJob, CanStart
  <2>2. /\ Len(usersJobs') = Len(usersJobs) - 1
        /\ \A i \in 1..Len(usersJobs') : usersJobs'[i] = usersJobs[i + 1]
    BY <1>1, <2>1, HeadTailProperties
  <2>3. Len(usersJobs) \in Nat
    BY <1>1, LenProperties
  <2> QED
    BY <2>2, <2>3 DEF UsersJobsDistinct
<1>6. ASSUME NEW j \in Jobs, NEW t \in 1..TrialsLimit, WakeDeferred(j, t)
      PROVE  UsersJobsDistinct'
  BY <1>1, <1>2, <1>6, PushDistinct DEF WakeDeferred
<1>7. ASSUME NEW j \in Jobs, HandleStart(j) PROVE UsersJobsDistinct'
  BY <1>1, <1>2, <1>7, PushDistinct DEF HandleStart
<1>8. ASSUME NEW j \in Jobs, HandleEnd(j) PROVE UsersJobsDistinct'
  BY <1>2, <1>8 DEF HandleEnd
<1>9. ASSUME NEW j \in Jobs, Web(j) PROVE UsersJobsDistinct'
  BY <1>2, <1>9 DEF Web, CheckQuota, SaveJob, Commit, Rollback, ClearJob, schedVars
<1>10. CASE Poll \/ SchedClear \/ WaitReturns
  BY <1>2, <1>10 DEF Poll, PollRead, PollSend, SchedClear, WaitReturns, schedVars
<1>11. ASSUME NEW p \in Procs, Work(p) \/ Kill(p) PROVE UsersJobsDistinct'
  BY <1>2, <1>11 DEF Work, Load, MarkWait, Finish, SendEnd, Kill, schedVars
<1>12. CASE UNCHANGED vars
  BY <1>2, <1>12 DEF vars, schedVars
<1> QED
  BY <1>3, <1>4, <1>5, <1>6, <1>7, <1>8, <1>9, <1>10, <1>11, <1>12 DEF Next, Command, Wake

\* _push_user_job() keeps its promise against START commands sent twice, the
\* deferred trials and the jobs read when the scheduler boots.
THEOREM NoDuplicate == Spec => []UsersJobsDistinct
<1>1. Init => UsersJobsDistinct
  BY DEF Init, UsersJobsDistinct
<1> QED
  BY <1>1, TypeCorrect, DistinctNext, PTL DEF Spec

-----------------------------------------------------------------------------
(* No job is lost silently.                                                *)

\* The START command of a job is neither the one of another job, nor an END command.
LEMMA StartsDiffer ==
    \A j, k \in Jobs : START(j) # END(k) /\ (START(j) = START(k) => j = k)
  BY DEF START, END

\* What an action which leaves the memory of the scheduler alone preserves.
LEMMA SameQueue == UNCHANGED queue => \A k \in Jobs : HasStart(k)' <=> HasStart(k)
  BY DEF HasStart

\* The deferred trials of a job depend on the deque only.
LEMMA SameDeferred == UNCHANGED deferred => \A k \in Jobs : IsDeferred(k)' <=> IsDeferred(k)
  BY DEF IsDeferred

\* The presence of a job in the list of the jobs to start depends on that list only.
LEMMA SameUsersJobs ==
    UNCHANGED usersJobs => \A k \in Jobs : InUsersJobs(k)' <=> InUsersJobs(k)
  BY DEF InUsersJobs

\* The execution of a job depends on the children only.
LEMMA SameProc == UNCHANGED proc => \A k \in Jobs : IsExecuted(k)' <=> IsExecuted(k)
  BY DEF IsExecuted, Executes

\* A push keeps the START commands which are waiting, and adds its own.
LEMMA PushKeeps ==
    ASSUME queue \in Seq(Commands), NEW c \in Commands, Push(c)
    PROVE  \A k \in Jobs : HasStart(k) \/ c = START(k) => HasStart(k)'
<1>1. /\ Len(queue') = Len(queue) + 1
      /\ \A i \in 1..Len(queue) : queue'[i] = queue[i]
      /\ queue'[Len(queue) + 1] = c
  BY AppendProperties DEF Push
<1>2. Len(queue) \in Nat
  BY LenProperties
<1> QED
  BY <1>1, <1>2 DEF HasStart

\* The pop of a command loses no other START command.
LEMMA PopKeeps ==
    ASSUME queue \in Seq(Commands), NEW c, NextCommand(c)
    PROVE  \A k \in Jobs : HasStart(k) /\ c # START(k) => HasStart(k)'
<1>1. /\ Head(queue) = queue[1]
      /\ Len(queue') = Len(queue) - 1
      /\ \A i \in 1..Len(queue') : queue'[i] = queue[i + 1]
      /\ queue[1] = c
  BY HeadTailProperties DEF NextCommand
<1>2. Len(queue) \in Nat
  BY LenProperties
<1>3. ASSUME NEW k \in Jobs, HasStart(k), c # START(k) PROVE HasStart(k)'
  <2>1. PICK i \in 1..Len(queue) : queue[i] = START(k)
    BY <1>3 DEF HasStart
  <2>2. i # 1 /\ i - 1 \in 1..Len(queue')
    BY <1>1, <1>2, <1>3, <2>1
  <2>3. queue'[i - 1] = START(k)
    BY <1>1, <1>2, <2>1, <2>2
  <2> QED
    BY <2>2, <2>3 DEF HasStart
<1> QED
  BY <1>3

\* _push_user_job() puts the job in the list, and removes none.
LEMMA PushUserJobKeeps ==
    ASSUME usersJobs \in Seq(Jobs), NEW j \in Jobs, PushUserJob(j)
    PROVE  InUsersJobs(j)' /\ \A k \in Jobs : InUsersJobs(k) => InUsersJobs(k)'
<1>1. CASE InUsersJobs(j)
  BY <1>1 DEF PushUserJob, InUsersJobs
<1>2. CASE ~InUsersJobs(j)
  <2>1. usersJobs' = Append(usersJobs, j)
    BY <1>2 DEF PushUserJob
  <2>2. /\ Len(usersJobs') = Len(usersJobs) + 1
        /\ \A i \in 1..Len(usersJobs) : usersJobs'[i] = usersJobs[i]
        /\ usersJobs'[Len(usersJobs) + 1] = j
    BY <2>1, AppendProperties
  <2>3. Len(usersJobs) \in Nat
    BY LenProperties
  <2> QED
    BY <2>2, <2>3 DEF InUsersJobs
<1> QED
  BY <1>1, <1>2

\* The creation of a job (its row and its START command) and its deletion lose no job.
LEMMA LossWeb ==
    ASSUME TypeOK, LossInv, NEW j \in Jobs, Web(j)
    PROVE  LossInv'
<1> USE DEF TypeOK, LossInv, CommittedRows, InsertedTracked, NoSilentLoss, Tracked
<1>1. /\ \A k \in Jobs : IsDeferred(k)' <=> IsDeferred(k)
      /\ \A k \in Jobs : InUsersJobs(k)' <=> InUsersJobs(k)
      /\ \A k \in Jobs : IsExecuted(k)' <=> IsExecuted(k)
      /\ UNCHANGED <<sched, dropped>>
  BY SameDeferred, SameUsersJobs, SameProc
  DEF Web, CheckQuota, SaveJob, Commit, Rollback, ClearJob, schedVars
<1>2. CASE SaveJob(j)
  <2>1. CASE Push(START(j)) /\ UNCHANGED ack
    <3>1. HasStart(j)' /\ \A k \in Jobs : HasStart(k) => HasStart(k)'
      BY <2>1, PushKeeps, CommandsType
    <3> QED
      BY <1>1, <1>2, <2>1, <3>1 DEF SaveJob
  <2>2. CASE Refuse /\ ack' = [ack EXCEPT ![j] = 1]
    <3>1. \A k \in Jobs : HasStart(k)' <=> HasStart(k)
      BY <2>2, SameQueue DEF Refuse
    <3> QED
      BY <1>1, <1>2, <2>2, <3>1 DEF SaveJob
  <2> QED
    BY <1>2, <2>1, <2>2 DEF SaveJob
<1>3. CASE ~SaveJob(j)
  <2>1. UNCHANGED <<queue, ack>> /\ \A k \in Jobs : HasStart(k)' <=> HasStart(k)
    BY <1>3, SameQueue DEF Web, CheckQuota, Commit, Rollback, ClearJob
  <2>2. CASE CheckQuota(j)
    BY <1>1, <2>1, <2>2 DEF CheckQuota
  <2>3. CASE Commit(j)
    BY <1>1, <2>1, <2>3 DEF Commit
  <2>4. CASE Rollback(j)
    BY <1>1, <2>1, <2>4 DEF Rollback
  <2>5. CASE ClearJob(j)
    BY <1>1, <2>1, <2>5 DEF ClearJob
  <2> QED
    BY <1>3, <2>2, <2>3, <2>4, <2>5 DEF Web
<1> QED
  BY <1>2, <1>3

\* A poller of the portal which sends START again loses no job.
LEMMA LossPoll ==
    ASSUME TypeOK, LossInv, Poll
    PROVE  LossInv'
<1> USE DEF TypeOK, LossInv, CommittedRows, InsertedTracked, NoSilentLoss, Tracked
<1>1. /\ \A k \in Jobs : IsDeferred(k)' <=> IsDeferred(k)
      /\ \A k \in Jobs : InUsersJobs(k)' <=> InUsersJobs(k)
      /\ \A k \in Jobs : IsExecuted(k)' <=> IsExecuted(k)
      /\ UNCHANGED <<web, row, sched, dropped>>
  BY SameDeferred, SameUsersJobs, SameProc DEF Poll, PollRead, PollSend, schedVars
<1>2. CASE UNCHANGED <<queue, ack>>
  BY <1>1, <1>2, SameQueue
<1>3. ASSUME NEW p \in Pollers, PollSend(p), Push(START(poll[p].job)),
             Forget(poll[p].job, poll[p].ack)
      PROVE  LossInv'
  <2>1. PICK j \in Jobs : j = poll[p].job
    BY <1>3 DEF PollSend
  <2>2. Push(START(j)) /\ Forget(j, poll[p].ack)
    BY <1>3, <2>1
  <2>3. HasStart(j)' /\ \A k \in Jobs : HasStart(k) => HasStart(k)'
    BY <2>2, PushKeeps, CommandsType
  <2>4. \A k \in Jobs : k # j => ack'[k] = ack[k]
    BY <2>2 DEF Forget
  <2> QED
    BY <1>1, <2>3, <2>4
<1> QED
  BY <1>2, <1>3 DEF Poll, PollRead, PollSend, Refuse

\* The query of the boot finds every job whose row waits.
LEMMA RetrieveFindsWaiting ==
    ASSUME RetrieveJobs
    PROVE  \A k \in Jobs : row[k] = "wait" => InUsersJobs(k)'
<1>1. PICK s \in ById({j \in Jobs : row[j] = "wait"}) : usersJobs' = s
  BY DEF RetrieveJobs
<1>2. \A S : S \subseteq Jobs => \A t \in ById(S) : \A k \in S : \E i \in 1..Len(t) : t[i] = k
  BY ByIdType
<1>3. \A k \in {j \in Jobs : row[j] = "wait"} : \E i \in 1..Len(s) : s[i] = k
  BY <1>1, <1>2
<1> QED
  BY <1>1, <1>3 DEF InUsersJobs

\* A stop of the scheduler, and its boot (the list is cleared, the rows are read), lose no job:
\* the commands which are cleared are those of jobs whose row is read just after, or recorded as dropped.
LEMMA LossBoot ==
    ASSUME TypeOK, LossInv, SchedClear \/ RetrieveJobs \/ SchedStop
    PROVE  LossInv'
<1> USE DEF TypeOK, LossInv, CommittedRows, InsertedTracked, NoSilentLoss, Tracked
<1>1. CASE SchedClear
  BY <1>1 DEF SchedClear, webVars
<1>2. CASE RetrieveJobs
  <2>1. \A k \in Jobs : row[k] = "wait" => InUsersJobs(k)'
    BY <1>2, RetrieveFindsWaiting
  <2>2. \A k \in Jobs : (HasStart(k)' <=> HasStart(k)) /\ (IsDeferred(k)' <=> IsDeferred(k))
    BY <1>2, SameQueue, SameDeferred DEF RetrieveJobs
  <2>3. UNCHANGED <<web, row, ack>>
    BY <1>2 DEF RetrieveJobs, webVars
  <2>4. CommittedRows' /\ NoSilentLoss'
    BY <2>1, <2>3
  <2>5. InsertedTracked'
    BY <1>2, <2>2, <2>3 DEF RetrieveJobs
  <2> QED
    BY <2>4, <2>5
<1>3. CASE SchedStop
  BY <1>3 DEF SchedStop, webVars
<1> QED
  BY <1>1, <1>2, <1>3

\* The start of a child moves its job from the list to the pool.
LEMMA LossStart ==
    ASSUME TypeOK, LossInv, StartJob
    PROVE  LossInv'
<1> USE DEF TypeOK, LossInv, CommittedRows, InsertedTracked, NoSilentLoss, Tracked
<1>1. /\ \A k \in Jobs : HasStart(k)' <=> HasStart(k)
      /\ \A k \in Jobs : IsDeferred(k)' <=> IsDeferred(k)
      /\ UNCHANGED <<web, row, ack, sched, dropped>>
  BY SameQueue, SameDeferred DEF StartJob, webVars
<1>h. PICK h \in Jobs : h = Head(usersJobs)
  BY HeadTailProperties DEF StartJob, CanStart
<1>2. /\ usersJobs' = Tail(usersJobs) /\ usersJobs # <<>>
      /\ Len(usersJobs) \in Nat
  BY LenProperties DEF StartJob, CanStart
<1>3. \A k \in Jobs : InUsersJobs(k) /\ k # h => InUsersJobs(k)'
  <2>1. /\ h = usersJobs[1]
        /\ Len(usersJobs') = Len(usersJobs) - 1
        /\ \A i \in 1..Len(usersJobs') : usersJobs'[i] = usersJobs[i + 1]
    BY <1>2, <1>h, HeadTailProperties
  <2>2. ASSUME NEW k \in Jobs, InUsersJobs(k), k # h PROVE InUsersJobs(k)'
    <3>1. PICK i \in 1..Len(usersJobs) : usersJobs[i] = k
      BY <2>2 DEF InUsersJobs
    <3>2. i # 1 /\ i - 1 \in 1..Len(usersJobs') /\ usersJobs'[i - 1] = k
      BY <1>2, <2>1, <2>2, <3>1
    <3> QED
      BY <3>2 DEF InUsersJobs
  <2> QED
    BY <2>2
<1>4. PICK p \in Procs : /\ proc[p] = Idle
                         /\ proc' = [proc EXCEPT ![p] = [job |-> h, pc |-> "spawned"]]
  BY <1>h DEF StartJob, FreeProcs
<1>5. IsExecuted(h)'
  <2>1. proc'[p] = [job |-> h, pc |-> "spawned"]
    BY <1>4
  <2>2. proc'[p].job = h /\ proc'[p].pc = "spawned"
    BY <2>1
  <2> QED
    BY <2>2 DEF IsExecuted, Executes
<1>6. \A k \in Jobs : IsExecuted(k) => IsExecuted(k)'
  <2>1. \A q \in Procs : proc[q].pc # "idle" => proc'[q] = proc[q]
    BY <1>4 DEF Idle
  <2> QED
    BY <2>1 DEF IsExecuted, Executes
<1> QED
  BY <1>1, <1>3, <1>5, <1>6

\* A deferred trial finds the row, is deferred again, or gives up, which is recorded.
LEMMA LossWake ==
    ASSUME TypeOK, LossInv, NEW j \in Jobs, NEW t \in 1..TrialsLimit, WakeDeferred(j, t)
    PROVE  LossInv'
<1> USE DEF TypeOK, LossInv, CommittedRows, InsertedTracked, NoSilentLoss, Tracked
<1>1. /\ \A k \in Jobs : HasStart(k)' <=> HasStart(k)
      /\ \A k \in Jobs : IsExecuted(k)' <=> IsExecuted(k)
      /\ UNCHANGED <<web, row, ack, sched>>
  BY SameQueue, SameProc DEF WakeDeferred, webVars
<1>2. \A k \in Jobs : k # j => (IsDeferred(k)' <=> IsDeferred(k))
  BY DEF WakeDeferred, IsDeferred
<1>3. CASE row[j] # "none"
  <2>1. InUsersJobs(j)' /\ \A k \in Jobs : InUsersJobs(k) => InUsersJobs(k)'
    BY <1>3, PushUserJobKeeps DEF WakeDeferred
  <2>2. UNCHANGED dropped /\ web[j] # "inserted"
    BY <1>3 DEF WakeDeferred
  <2> QED
    BY <1>1, <1>2, <2>1, <2>2
<1>4. CASE row[j] = "none"
  <2>1. \A k \in Jobs : InUsersJobs(k)' <=> InUsersJobs(k)
    BY <1>4, SameUsersJobs DEF WakeDeferred
  <2>2. CASE t < TrialsLimit
    <3>1. t + 1 \in 1..TrialsLimit /\ t # t + 1
      BY <2>2, ConstantsAssumption
    <3> DEFINE popped == [deferred[j] EXCEPT ![t] = @ - 1]
    <3>2. deferred' = [deferred EXCEPT ![j] = [popped EXCEPT ![t + 1] = @ + 1]] /\ UNCHANGED dropped
      <4>1. ~(t >= TrialsLimit) /\ row[j] = "none"
        BY <1>4, <2>2, ConstantsAssumption
      <4> QED
        BY <4>1 DEF WakeDeferred
    <3>3. deferred'[j][t + 1] = deferred[j][t + 1] + 1
      BY <3>1, <3>2
    <3>4. deferred[j][t + 1] \in Nat
      BY <3>1
    <3>5. IsDeferred(j)'
      BY <3>1, <3>3, <3>4 DEF IsDeferred
    <3> QED
      BY <1>1, <1>2, <2>1, <3>2, <3>5
  <2>3. CASE t >= TrialsLimit
    <3>1. dropped' = IF web[j] = "inserted" THEN dropped \cup {j} ELSE dropped
      BY <1>4, <2>3, ConstantsAssumption DEF WakeDeferred
    <3> QED
      BY <1>1, <1>2, <1>4, <2>1, <3>1
  <2> QED
    BY <2>2, <2>3, ConstantsAssumption
<1> QED
  BY <1>3, <1>4

\* A START command puts its job in the list or defers it; an END command loses no job.
LEMMA LossCommand ==
    ASSUME TypeOK, LossInv, NEW j \in Jobs, HandleStart(j) \/ HandleEnd(j)
    PROVE  LossInv'
<1> USE DEF TypeOK, LossInv, CommittedRows, InsertedTracked, NoSilentLoss, Tracked
<1>1. /\ \A k \in Jobs : IsExecuted(k)' <=> IsExecuted(k)
      /\ UNCHANGED <<web, row, ack, sched, dropped>>
  BY SameProc DEF HandleStart, HandleEnd, webVars
<1>2. CASE HandleStart(j)
  <2>1. \A k \in Jobs : HasStart(k) /\ k # j => HasStart(k)'
    BY <1>2, PopKeeps, StartsDiffer DEF HandleStart
  <2>2. CASE row[j] # "none"
    <3>1. InUsersJobs(j)' /\ \A k \in Jobs : InUsersJobs(k) => InUsersJobs(k)'
      BY <1>2, <2>2, PushUserJobKeeps DEF HandleStart
    <3>2. \A k \in Jobs : IsDeferred(k)' <=> IsDeferred(k)
      BY <1>2, <2>2, SameDeferred DEF HandleStart
    <3> QED
      BY <1>1, <2>1, <2>2, <3>1, <3>2
  <2>3. CASE row[j] = "none"
    <3>1. \A k \in Jobs : InUsersJobs(k)' <=> InUsersJobs(k)
      BY <1>2, <2>3, SameUsersJobs DEF HandleStart
    <3>2. deferred' = [deferred EXCEPT ![j][1] = @ + 1]
      BY <1>2, <2>3 DEF HandleStart
    <3>3. 1 \in 1..TrialsLimit
      BY ConstantsAssumption
    <3>4. deferred'[j][1] = deferred[j][1] + 1 /\ deferred[j][1] \in Nat
      BY <3>2, <3>3
    <3>5. IsDeferred(j)'
      BY <3>3, <3>4 DEF IsDeferred
    <3>6. \A k \in Jobs : k # j => (IsDeferred(k)' <=> IsDeferred(k))
      BY <3>2 DEF IsDeferred
    <3> QED
      BY <1>1, <2>1, <2>3, <3>1, <3>5, <3>6
  <2> QED
    BY <2>2, <2>3
<1>3. CASE HandleEnd(j)
  <2>1. \A k \in Jobs : HasStart(k) => HasStart(k)'
    BY <1>3, PopKeeps, StartsDiffer DEF HandleEnd
  <2>2. /\ \A k \in Jobs : IsDeferred(k)' <=> IsDeferred(k)
        /\ \A k \in Jobs : InUsersJobs(k)' <=> InUsersJobs(k)
    BY <1>3, SameDeferred, SameUsersJobs DEF HandleEnd
  <2> QED
    BY <1>1, <2>1, <2>2
<1> QED
  BY <1>2, <1>3

\* A child loses its job only when it is killed, which is recorded.
LEMMA LossWork ==
    ASSUME TypeOK, LossInv, NEW p \in Procs, Work(p) \/ Kill(p)
    PROVE  LossInv'
<1> USE DEF TypeOK, LossInv, CommittedRows, InsertedTracked, NoSilentLoss, Tracked
<1>1. /\ \A k \in Jobs : IsDeferred(k)' <=> IsDeferred(k)
      /\ \A k \in Jobs : InUsersJobs(k)' <=> InUsersJobs(k)
      /\ UNCHANGED <<web, ack, sched>>
  BY SameDeferred, SameUsersJobs
  DEF Work, Load, MarkWait, Finish, SendEnd, Kill, webVars, schedVars
<1>2. \A k \in Jobs : HasStart(k) => HasStart(k)'
  <2>1. CASE UNCHANGED queue
    BY <2>1, SameQueue
  <2>2. CASE SendEnd(p) /\ Push(END(proc[p].job))
    <3>1. proc[p].job \in Jobs
      BY <2>2 DEF SendEnd, Idle
    <3> QED
      BY <2>2, <3>1, PushKeeps, CommandsType
  <2> QED
    BY <2>1, <2>2 DEF Work, Load, MarkWait, Finish, SendEnd, Refuse, Kill
<1>j. PICK j \in Jobs : j = proc[p].job
  BY DEF Work, Load, MarkWait, Finish, SendEnd, Kill, Idle
<1>3. \A k \in Jobs : k # j /\ IsExecuted(k) => IsExecuted(k)'
  BY <1>j DEF IsExecuted, Executes, Work, Load, MarkWait, Finish, SendEnd, Kill, Idle
<1>4. CASE Load(p)
  <2>1. UNCHANGED <<row, dropped>>
    BY <1>4, <1>j DEF Load, webVars
  <2>2. row[j] # "none" => (IsExecuted(j) => IsExecuted(j)')
    BY <1>4, <1>j DEF Load, IsExecuted, Executes, Idle
  <2> QED
    BY <1>1, <1>2, <1>3, <2>1, <2>2
<1>5. CASE MarkWait(p)
  <2>1. UNCHANGED dropped /\ IsExecuted(j)'
    BY <1>5, <1>j DEF MarkWait, IsExecuted, Executes, Idle
  <2>2. \A k \in Jobs : (k # j => row'[k] = row[k]) /\ (row[k] = "none" => row'[k] = "none")
    BY <1>5, <1>j, <2>1 DEF MarkWait, UpdateRow
  <2> QED
    BY <1>1, <1>2, <1>3, <2>1, <2>2
<1>6. CASE Finish(p)
  <2>1. UNCHANGED dropped
    BY <1>6, <1>j DEF Finish
  <2>2. /\ \A k \in Jobs : (k # j => row'[k] = row[k]) /\ (row[k] = "none" => row'[k] = "none")
        /\ row'[j] # "wait"
    BY <1>6, <1>j, <2>1 DEF Finish, UpdateRow
  <2> QED
    BY <1>1, <1>2, <1>3, <2>1, <2>2
<1>7. CASE SendEnd(p)
  <2>1. UNCHANGED <<row, dropped>>
    BY <1>7 DEF SendEnd, webVars
  <2>2. \A k \in Jobs : IsExecuted(k) => IsExecuted(k)'
    BY <1>7 DEF SendEnd, IsExecuted, Executes, Idle
  <2> QED
    BY <1>1, <1>2, <2>1, <2>2
<1>8. CASE Kill(p)
  <2>1. UNCHANGED row /\ dropped' = dropped \cup {j}
    BY <1>8, <1>j DEF Kill, webVars
  <2> QED
    BY <1>1, <1>2, <1>3, <2>1
<1> QED
  BY <1>4, <1>5, <1>6, <1>7, <1>8 DEF Work

\* A stuttering step loses no job.
LEMMA LossStutter == ASSUME LossInv, UNCHANGED <<vars>> PROVE LossInv'
<1>1. UNCHANGED <<web, row, ack, sched, dropped>>
  BY DEF vars, webVars, schedVars
<1>2. \A k \in Jobs : /\ HasStart(k)' <=> HasStart(k)
                      /\ IsDeferred(k)' <=> IsDeferred(k)
                      /\ InUsersJobs(k)' <=> InUsersJobs(k)
                      /\ IsExecuted(k)' <=> IsExecuted(k)
  BY SameQueue, SameDeferred, SameUsersJobs, SameProc DEF vars, schedVars
<1> QED
  BY <1>1, <1>2 DEF LossInv, CommittedRows, InsertedTracked, NoSilentLoss, Tracked

\* The end of the wait of the command loop loses no job.
LEMMA LossWait == ASSUME LossInv, WaitReturns PROVE LossInv'
<1>1. UNCHANGED <<web, row, ack, sched, dropped>>
  BY DEF WaitReturns, webVars
<1>2. \A k \in Jobs : /\ HasStart(k)' <=> HasStart(k)
                      /\ IsDeferred(k)' <=> IsDeferred(k)
                      /\ InUsersJobs(k)' <=> InUsersJobs(k)
                      /\ IsExecuted(k)' <=> IsExecuted(k)
  BY SameQueue, SameDeferred, SameUsersJobs, SameProc DEF WaitReturns
<1> QED
  BY <1>1, <1>2 DEF LossInv, CommittedRows, InsertedTracked, NoSilentLoss, Tracked

\* The strengthened invariant holds: see InsertedTracked for what it adds.
THEOREM LossInvariant == Spec => []LossInv
<1>1. Init => LossInv
  BY DEF Init, LossInv, CommittedRows, InsertedTracked, NoSilentLoss
<1>2. TypeOK /\ LossInv /\ [Next]_vars => LossInv'
  BY LossWeb, LossPoll, LossBoot, LossStart, LossWake, LossCommand, LossWork,
     LossWait, LossStutter
  DEF Next, Command, Wake
<1> QED
  BY <1>1, <1>2, TypeCorrect, PTL DEF Spec

\* Whatever the number of jobs, of stops of the scheduler, of refused pushes and
\* of kills, a waiting job is known to somebody, or was dropped for a known reason.
THEOREM NothingLostSilently == Spec => []NoSilentLoss
<1>1. LossInv => NoSilentLoss
  BY DEF LossInv
<1> QED
  BY <1>1, LossInvariant, PTL

-----------------------------------------------------------------------------
(* One shot: a job which has been created is at one place at most.         *)

\* The scheduler listens and is not stopped, and one page at a time polls the
\* jobs; pushes may be refused and processes killed. The code makes no job run
\* twice under these conditions only: two pages which have read the same
\* ack_errors both send START again, and a scheduler which boots may read the row
\* of a job and then its START (run user_one_shot).
Undisturbed ==
    /\ InitSched = {"up"}
    /\ MaxStops = 0
    /\ \A p, q \in Pollers : p = q

EndSent(j) == \E i \in 1..Len(queue) : queue[i] = END(j)

Owned(j) == \E p \in Procs : proc[p].job = j

OneStart(j) ==
    \A i, k \in 1..Len(queue) : queue[i] = START(j) /\ queue[k] = START(j) => i = k

OneTrial(j) ==
    \A t, u \in 1..TrialsLimit :
        deferred[j][t] <= 1 /\ (deferred[j][t] > 0 /\ deferred[j][u] > 0 => t = u)

OneProc(j) == \A p, q \in Procs : proc[p].job = j /\ proc[q].job = j => p = q

\* The places of a job: the queue, the deferred jobs, the list of the jobs to start,
\* the refused pushes, a process, and the queue again for its END.
Exclusive(j) ==
    /\ HasStart(j)    => ~IsDeferred(j) /\ ~InUsersJobs(j) /\ ack[j] = 0 /\ ~Owned(j) /\ ~EndSent(j)
    /\ IsDeferred(j)  => ~InUsersJobs(j) /\ ack[j] = 0 /\ ~Owned(j) /\ ~EndSent(j)
    /\ InUsersJobs(j) => ack[j] = 0 /\ ~Owned(j) /\ ~EndSent(j)
    /\ ack[j] > 0     => ack[j] = 1 /\ ~Owned(j) /\ ~EndSent(j)
    /\ Owned(j)       => ~EndSent(j)

Single(j) == OneStart(j) /\ OneTrial(j) /\ OneProc(j) /\ Exclusive(j)

ToStart(j) == HasStart(j) \/ IsDeferred(j) \/ InUsersJobs(j) \/ ack[j] > 0

\* What the row of the job is at each of these places.
Stage(j) ==
    /\ ToStart(j) => (row[j] = "wait" \/ web[j] \in {"inserted", "aborted"}) /\ j \notin dropped
    /\ InUsersJobs(j) => row[j] = "wait"
    /\ \A p \in Procs : Executes(p, j) => row[j] = "wait" /\ popen[j] = p /\ j \notin dropped
    /\ \A p \in Procs : proc[p].job = j /\ proc[p].pc = "saved"
                        => row[j] # "wait" /\ web[j] = "committed"
    /\ EndSent(j) => row[j] # "wait" /\ web[j] = "committed"
    /\ row[j] # "none" => web[j] = "committed"
    /\ j \in dropped => web[j] \notin {"idle", "checked"}

\* The page which polls is about to send again the START which was refused.
PollKnown ==
    \A p \in Pollers : poll[p] # NoPoll =>
        poll[p].ack = 1 /\ ack[poll[p].job] = 1 /\ row[poll[p].job] = "wait"

OnePlace == sched = "up" /\ PollKnown /\ \A j \in Jobs : Single(j) /\ Stage(j)

\* A push adds its command and no other.
LEMMA PushPlaces ==
    ASSUME queue \in Seq(Commands), NEW c \in Commands, Push(c), NEW k \in Jobs
    PROVE  /\ HasStart(k)' <=> HasStart(k) \/ c = START(k)
           /\ EndSent(k)' <=> EndSent(k) \/ c = END(k)
           /\ OneStart(k) /\ ~(HasStart(k) /\ c = START(k)) => OneStart(k)'
<1>1. /\ Len(queue') = Len(queue) + 1
      /\ \A i \in 1..Len(queue) : queue'[i] = queue[i]
      /\ queue'[Len(queue) + 1] = c
  BY AppendProperties DEF Push
<1>2. Len(queue) \in Nat
  BY LenProperties
<1>3. \A i \in 1..Len(queue') : i \in 1..Len(queue) \/ i = Len(queue) + 1
  BY <1>1, <1>2
<1>4. 1..Len(queue) \subseteq 1..Len(queue') /\ Len(queue) + 1 \in 1..Len(queue')
  BY <1>1, <1>2
<1>5. HasStart(k)' <=> HasStart(k) \/ c = START(k)
  BY <1>1, <1>3, <1>4 DEF HasStart
<1>6. EndSent(k)' <=> EndSent(k) \/ c = END(k)
  BY <1>1, <1>3, <1>4 DEF EndSent
<1>7. ASSUME OneStart(k), ~(HasStart(k) /\ c = START(k)) PROVE OneStart(k)'
  BY <1>1, <1>3, <1>7 DEF OneStart, HasStart
<1> QED
  BY <1>5, <1>6, <1>7

\* A pop removes its command and no other.
LEMMA PopPlaces ==
    ASSUME queue \in Seq(Commands), NEW c \in Commands, NextCommand(c), NEW k \in Jobs
    PROVE  /\ HasStart(k)' => HasStart(k)
           /\ EndSent(k)' => EndSent(k)
           /\ c # START(k) => (HasStart(k)' <=> HasStart(k))
           /\ c = START(k) => HasStart(k) /\ (OneStart(k) => ~HasStart(k)')
           /\ c = END(k) => EndSent(k)
           /\ OneStart(k) => OneStart(k)'
<1>1. /\ queue[1] = c
      /\ Len(queue') = Len(queue) - 1
      /\ \A i \in 1..Len(queue') : queue'[i] = queue[i + 1]
  BY HeadTailProperties DEF NextCommand
<1>2. Len(queue) \in Nat /\ Len(queue) > 0
  BY LenProperties, EmptySeq DEF NextCommand
<1>3. \A i \in 1..Len(queue') : i + 1 \in 1..Len(queue) /\ i + 1 # 1
  BY <1>1, <1>2
<1>4. HasStart(k)' => HasStart(k)
  BY <1>1, <1>3 DEF HasStart
<1>5. EndSent(k)' => EndSent(k)
  BY <1>1, <1>3 DEF EndSent
<1>6. 1 \in 1..Len(queue)
  BY <1>2
<1>7. c = START(k) => HasStart(k) /\ (OneStart(k) => ~HasStart(k)')
  BY <1>1, <1>3, <1>6 DEF HasStart, OneStart
<1>8. c = END(k) => EndSent(k)
  BY <1>1, <1>6 DEF EndSent
<1>9. ASSUME OneStart(k), NEW i \in 1..Len(queue'), NEW n \in 1..Len(queue'),
             queue'[i] = START(k), queue'[n] = START(k)
      PROVE  i = n
  <2>1. i + 1 = n + 1
    BY <1>1, <1>3, <1>9 DEF OneStart
  <2> QED
    BY <2>1, <1>2
<1>10. OneStart(k) => OneStart(k)'
  BY <1>9 DEF OneStart
<1> QED
  BY <1>4, <1>5, <1>7, <1>8, <1>10, PopKeeps

\* The pop of a command loses no other END command.
LEMMA EndKept ==
    ASSUME queue \in Seq(Commands), NEW c \in Commands, NextCommand(c), NEW k \in Jobs, c # END(k)
    PROVE  EndSent(k)' <=> EndSent(k)
<1>1. /\ queue[1] = c
      /\ Len(queue') = Len(queue) - 1
      /\ \A i \in 1..Len(queue') : queue'[i] = queue[i + 1]
  BY HeadTailProperties DEF NextCommand
<1>2. Len(queue) \in Nat
  BY LenProperties
<1>3. ASSUME EndSent(k) PROVE EndSent(k)'
  <2>1. PICK i \in 1..Len(queue) : queue[i] = END(k)
    BY <1>3 DEF EndSent
  <2>2. i # 1 /\ i - 1 \in 1..Len(queue')
    BY <1>1, <1>2, <2>1
  <2>3. queue'[i - 1] = END(k)
    BY <1>1, <1>2, <2>1, <2>2
  <2> QED
    BY <2>2, <2>3 DEF EndSent
<1> QED
  BY <1>3, PopPlaces

\* _push_user_job() adds its job and no other.
LEMMA PushUserJobPlaces ==
    ASSUME usersJobs \in Seq(Jobs), NEW j \in Jobs, PushUserJob(j), NEW k \in Jobs
    PROVE  InUsersJobs(k)' <=> InUsersJobs(k) \/ k = j
<1>1. CASE InUsersJobs(j)
  BY <1>1 DEF PushUserJob, InUsersJobs
<1>2. CASE ~InUsersJobs(j)
  <2>1. usersJobs' = Append(usersJobs, j)
    BY <1>2 DEF PushUserJob
  <2>2. /\ Len(usersJobs') = Len(usersJobs) + 1
        /\ \A i \in 1..Len(usersJobs) : usersJobs'[i] = usersJobs[i]
        /\ usersJobs'[Len(usersJobs) + 1] = j
    BY <2>1, AppendProperties
  <2>3. Len(usersJobs) \in Nat
    BY LenProperties
  <2>4. \A i \in 1..Len(usersJobs') : i \in 1..Len(usersJobs) \/ i = Len(usersJobs) + 1
    BY <2>2, <2>3
  <2>5. 1..Len(usersJobs) \subseteq 1..Len(usersJobs') /\ Len(usersJobs) + 1 \in 1..Len(usersJobs')
    BY <2>2, <2>3
  <2> QED
    BY <2>2, <2>4, <2>5 DEF InUsersJobs
<1> QED
  BY <1>1, <1>2

\* The start of a job takes it from the list, and no other.
LEMMA TailPlaces ==
    ASSUME usersJobs \in Seq(Jobs), usersJobs # <<>>, UsersJobsDistinct,
           usersJobs' = Tail(usersJobs), NEW k \in Jobs
    PROVE  /\ InUsersJobs(k)' <=> InUsersJobs(k) /\ k # Head(usersJobs)
           /\ k = Head(usersJobs) => InUsersJobs(k)
<1>1. /\ Head(usersJobs) = usersJobs[1]
      /\ Len(usersJobs') = Len(usersJobs) - 1
      /\ \A i \in 1..Len(usersJobs') : usersJobs'[i] = usersJobs[i + 1]
  BY HeadTailProperties
<1>2. Len(usersJobs) \in Nat /\ Len(usersJobs) > 0
  BY LenProperties, EmptySeq
<1>3. 1 \in 1..Len(usersJobs) /\ \A i \in 1..Len(usersJobs') : i + 1 \in 1..Len(usersJobs) /\ i + 1 # 1
  BY <1>1, <1>2
<1>4. InUsersJobs(k)' => InUsersJobs(k) /\ k # Head(usersJobs)
  BY <1>1, <1>3 DEF InUsersJobs, UsersJobsDistinct
<1>5. ASSUME InUsersJobs(k), k # Head(usersJobs) PROVE InUsersJobs(k)'
  <2>1. PICK i \in 1..Len(usersJobs) : usersJobs[i] = k
    BY <1>5 DEF InUsersJobs
  <2>2. i # 1 /\ i - 1 \in 1..Len(usersJobs') /\ usersJobs'[i - 1] = k
    BY <1>1, <1>2, <1>5, <2>1
  <2> QED
    BY <2>2 DEF InUsersJobs
<1>6. k = Head(usersJobs) => InUsersJobs(k)
  BY <1>1, <1>3 DEF InUsersJobs
<1> QED
  BY <1>4, <1>5, <1>6

\* What an action which is not about the job k leaves alone.
Untouched(k) ==
    /\ HasStart(k)' <=> HasStart(k)
    /\ OneStart(k) => OneStart(k)'
    /\ EndSent(k)' <=> EndSent(k)
    /\ InUsersJobs(k)' <=> InUsersJobs(k)
    /\ deferred'[k] = deferred[k] /\ ack'[k] = ack[k] /\ popen'[k] = popen[k]
    /\ row'[k] = row[k] /\ web'[k] = web[k] /\ (k \in dropped' <=> k \in dropped)
    /\ \A p \in Procs : proc[p].job = k \/ proc'[p].job = k => proc'[p] = proc[p]

\* A job which nothing touches stays at its place.
LEMMA UntouchedStays ==
    ASSUME NEW k \in Jobs, Untouched(k), Single(k), Stage(k)
    PROVE  Single(k)' /\ Stage(k)'
<1>1. OneTrial(k)' /\ (IsDeferred(k)' <=> IsDeferred(k))
  BY DEF Untouched, Single, OneTrial, IsDeferred
<1>2. OneProc(k)' /\ (Owned(k)' <=> Owned(k))
  BY DEF Untouched, Single, OneProc, Owned
<1>3. Single(k)'
  BY <1>1, <1>2 DEF Untouched, Single, Exclusive
<1>4. \A p \in Procs : (Executes(p, k)' => Executes(p, k))
                     /\ ((proc[p].job = k /\ proc[p].pc = "saved")'
                         => proc[p].job = k /\ proc[p].pc = "saved")
  BY DEF Untouched, Executes
<1>5. Stage(k)'
  BY <1>1, <1>4 DEF Untouched, Stage, ToStart
<1> QED
  BY <1>3, <1>5

\* A process which holds a job executes it, or has saved its result.
LEMMA OwnedPc ==
    ASSUME TypeOK, NEW j \in Jobs, NEW p \in Procs, proc[p].job = j
    PROVE  Executes(p, j) \/ proc[p].pc = "saved"
BY ConstantsAssumption DEF TypeOK, Idle, ProcStates, Executes

\* A job which is being created is nowhere yet.
LEMMA NotCreated ==
    ASSUME TypeOK, NEW j \in Jobs, Stage(j), web[j] \in {"idle", "checked"}
    PROVE  ~ToStart(j) /\ ~Owned(j) /\ ~EndSent(j) /\ row[j] = "none" /\ j \notin dropped
<1>1. row[j] = "none" /\ ~ToStart(j) /\ ~EndSent(j) /\ j \notin dropped
  BY DEF Stage
<1>2. ~Owned(j)
  BY <1>1, OwnedPc DEF Owned, Stage
<1> QED
  BY <1>1, <1>2

\* What the variables which an action leaves alone say of a job.
LEMMA SamePlaces ==
    ASSUME NEW k \in Jobs
    PROVE  /\ UNCHANGED queue => /\ HasStart(k)' <=> HasStart(k)
                                 /\ EndSent(k)' <=> EndSent(k)
                                 /\ OneStart(k)' <=> OneStart(k)
           /\ UNCHANGED usersJobs => (InUsersJobs(k)' <=> InUsersJobs(k))
           /\ UNCHANGED deferred => /\ IsDeferred(k)' <=> IsDeferred(k)
                                    /\ OneTrial(k)' <=> OneTrial(k)
           /\ UNCHANGED proc => /\ OneProc(k)' <=> OneProc(k)
                                /\ Owned(k)' <=> Owned(k)
                                /\ \A p \in Procs : Executes(p, k)' <=> Executes(p, k)
BY DEF HasStart, EndSent, OneStart, InUsersJobs, IsDeferred, OneTrial, OneProc, Owned, Executes

\* The creation of a job brings it from nowhere to its START, or to its refusal.
LEMMA PlaceSave ==
    ASSUME TypeOK, OnePlace, NEW j \in Jobs, SaveJob(j)
    PROVE  OnePlace'
<1>1. Single(j) /\ Stage(j) /\ web[j] = "checked" /\ web' = [web EXCEPT ![j] = "inserted"]
  BY DEF OnePlace, SaveJob
<1>2. ~ToStart(j) /\ ~Owned(j) /\ ~EndSent(j) /\ row[j] = "none" /\ j \notin dropped
  BY <1>1, NotCreated
<1>3. UNCHANGED <<row, poll, sched, usersJobs, deferred, popen, proc, dropped>>
  BY DEF SaveJob, schedVars
<1>4. /\ \A k \in Jobs : k # j => ack'[k] = ack[k]
      /\ ack'[j] = 0 \/ ack'[j] = 1
  <2>1. ack \in [Jobs -> Nat] /\ ack[j] = 0
    BY <1>2 DEF TypeOK, ToStart
  <2> QED
    BY <2>1 DEF SaveJob
<1>5. /\ \A k \in Jobs : k # j => /\ HasStart(k)' <=> HasStart(k)
                                  /\ OneStart(k) => OneStart(k)'
                                  /\ EndSent(k)' <=> EndSent(k)
      /\ ~EndSent(j)' /\ OneStart(j)' /\ (HasStart(j)' => ack'[j] = 0)
  <2>1. CASE Push(START(j)) /\ UNCHANGED ack
    <3>1. START(j) \in Commands
      BY CommandsType
    <3>2. \A k \in Jobs : k # j => START(k) # START(j)
      BY StartsDiffer
    <3>3. \A k \in Jobs : END(k) # START(j)
      BY StartsDiffer
    <3>4. \A k \in Jobs :
            /\ HasStart(k)' <=> HasStart(k) \/ START(j) = START(k)
            /\ EndSent(k)' <=> EndSent(k) \/ START(j) = END(k)
            /\ OneStart(k) /\ ~(HasStart(k) /\ START(j) = START(k)) => OneStart(k)'
      BY <2>1, <3>1, PushPlaces DEF TypeOK
    <3>5. ack'[j] = 0
      BY <1>2, <2>1 DEF TypeOK, ToStart
    <3> QED
      BY <1>1, <1>2, <3>2, <3>3, <3>4, <3>5 DEF Single, ToStart
  <2>2. CASE Refuse /\ ack' = [ack EXCEPT ![j] = 1]
    BY <1>1, <1>2, <2>2, SamePlaces DEF Refuse, Single, ToStart
  <2> QED
    BY <2>1, <2>2 DEF SaveJob
<1>6. ASSUME NEW k \in Jobs, k # j PROVE Untouched(k)
  BY <1>1, <1>3, <1>4, <1>5, <1>6, SamePlaces DEF Untouched, TypeOK
<1>7. ~IsDeferred(j)' /\ ~InUsersJobs(j)' /\ ~Owned(j)' /\ OneTrial(j)' /\ OneProc(j)'
  BY <1>1, <1>2, <1>3, SamePlaces DEF Single, ToStart
<1>8. Single(j)'
  BY <1>4, <1>5, <1>7 DEF Single, Exclusive
<1>9. Stage(j)'
  <2>1. web'[j] = "inserted" /\ row'[j] = "none" /\ j \notin dropped'
    BY <1>1, <1>2, <1>3 DEF TypeOK
  <2>2. \A p \in Procs : proc'[p].job # j
    BY <1>7 DEF Owned
  <2> QED
    BY <1>5, <1>7, <2>1, <2>2 DEF Stage, Executes
<1>10. PollKnown'
  <2>1. \A p \in Pollers : poll[p] # NoPoll => poll[p].job \in Jobs /\ poll[p].job # j
    BY <1>2 DEF OnePlace, PollKnown, TypeOK
  <2> QED
    BY <1>3, <1>4, <2>1 DEF OnePlace, PollKnown
<1> QED
  BY <1>3, <1>6, <1>8, <1>9, <1>10, UntouchedStays DEF OnePlace

\* A request which writes nothing but its own job, in its transaction.
LEMMA PlaceWeb ==
    ASSUME TypeOK, OnePlace, NEW j \in Jobs,
           CheckQuota(j) \/ Commit(j) \/ Rollback(j) \/ ClearJob(j)
    PROVE  OnePlace'
<1> USE DEF CheckQuota, Commit, Rollback, ClearJob
<1>1. UNCHANGED <<ack, poll, queue, sched, usersJobs, deferred, popen, proc, dropped>>
  BY DEF schedVars
<1>2. \A k \in Jobs : k # j => web'[k] = web[k] /\ row'[k] = row[k]
  BY DEF TypeOK
<1>3. Single(j) /\ Stage(j)
  BY DEF OnePlace
<1>4. ASSUME NEW k \in Jobs, k # j PROVE Untouched(k)
  BY <1>1, <1>2, <1>4, SamePlaces DEF Untouched
<1>5. Single(j)'
  BY <1>1, <1>3, SamePlaces DEF Single, Exclusive
<1>6. /\ ToStart(j)' <=> ToStart(j)
      /\ InUsersJobs(j)' <=> InUsersJobs(j)
      /\ EndSent(j)' <=> EndSent(j)
      /\ \A p \in Procs : Executes(p, j)' <=> Executes(p, j)
  BY <1>1, SamePlaces DEF ToStart
<1>7. CASE CheckQuota(j)
  <2>1. web'[j] = "checked" /\ row'[j] = row[j]
    BY <1>7 DEF TypeOK
  <2>2. ~ToStart(j) /\ ~Owned(j) /\ ~EndSent(j) /\ row[j] = "none" /\ j \notin dropped
    BY <1>3, <1>7, NotCreated
  <2>3. Stage(j)'
    BY <1>1, <1>6, <2>1, <2>2 DEF Stage, ToStart, Owned, Executes
  <2>4. PollKnown'
    BY <1>1, <1>7 DEF OnePlace, PollKnown
  <2> QED
    BY <1>1, <1>4, <1>5, <2>3, <2>4, UntouchedStays DEF OnePlace
<1>8. CASE Commit(j)
  <2>1. web'[j] = "committed" /\ row'[j] = "wait" /\ row[j] = "none"
    BY <1>3, <1>8 DEF TypeOK, Stage
  <2>2. ~EndSent(j) /\ \A p \in Procs : ~Executes(p, j) /\ ~(proc[p].job = j /\ proc[p].pc = "saved")
    BY <1>3, <1>8, <2>1 DEF Stage
  <2>3. ToStart(j) => j \notin dropped
    BY <1>3 DEF Stage
  <2>4. Stage(j)'
    BY <1>1, <1>6, <2>1, <2>2, <2>3 DEF Stage
  <2>5. PollKnown'
    BY <1>1, <1>2, <2>1 DEF OnePlace, PollKnown, TypeOK
  <2> QED
    BY <1>1, <1>4, <1>5, <2>4, <2>5, UntouchedStays DEF OnePlace
<1>9. CASE Rollback(j)
  <2>1. web'[j] = "aborted" /\ UNCHANGED row /\ row[j] = "none"
    BY <1>3, <1>9 DEF TypeOK, Stage
  <2>2. ~EndSent(j) /\ \A p \in Procs : ~Executes(p, j) /\ ~(proc[p].job = j /\ proc[p].pc = "saved")
    BY <1>3, <1>9, <2>1 DEF Stage
  <2>3. (ToStart(j) => j \notin dropped) /\ (InUsersJobs(j) => row[j] = "wait")
    BY <1>3 DEF Stage
  <2>4. Stage(j)'
    BY <1>1, <1>6, <2>1, <2>2, <2>3 DEF Stage
  <2>5. PollKnown'
    BY <1>1, <2>1 DEF OnePlace, PollKnown
  <2> QED
    BY <1>1, <1>4, <1>5, <2>4, <2>5, UntouchedStays DEF OnePlace
<1>10. CASE ClearJob(j)
  <2>1. UNCHANGED web /\ row'[j] = "none" /\ row[j] \in {"ok", "error"} /\ web[j] = "committed"
    BY <1>3, <1>10 DEF TypeOK, Stage
  <2>2. ~ToStart(j) /\ \A p \in Procs : ~Executes(p, j)
    BY <1>3, <2>1 DEF Stage
  <2>3. Stage(j)'
    BY <1>1, <1>6, <2>1, <2>2 DEF Stage, ToStart
  <2>4. PollKnown'
    BY <1>1, <1>2, <2>1 DEF OnePlace, PollKnown, TypeOK
  <2> QED
    BY <1>1, <1>4, <1>5, <2>3, <2>4, UntouchedStays DEF OnePlace
<1> QED
  BY <1>7, <1>8, <1>9, <1>10

\* The page which polls sends again the START which was refused, once.
LEMMA PlacePoll ==
    ASSUME TypeOK, OnePlace, Undisturbed, Poll
    PROVE  OnePlace'
<1>1. /\ UNCHANGED <<web, row, sched, usersJobs, deferred, popen, proc, dropped>>
      /\ \A k \in Jobs : Single(k) /\ Stage(k)
  BY DEF Poll, PollRead, PollSend, schedVars, OnePlace
<1>2. CASE UNCHANGED <<queue, ack>>
  <2>1. ASSUME NEW k \in Jobs PROVE Untouched(k)
    BY <1>1, <1>2, SamePlaces DEF Untouched
  <2>2. PollKnown'
    <3>1. ASSUME NEW p \in Pollers, NEW j \in Jobs, PollRead(p, j) PROVE PollKnown'
      <4>1. ack[j] = 1 /\ row[j] = "wait"
        BY <1>1, <3>1 DEF PollRead, Single, Exclusive, Stage, ToStart
      <4> QED
        BY <1>1, <1>2, <3>1, <4>1 DEF PollRead, OnePlace, PollKnown, TypeOK
    <3>2. ASSUME NEW p \in Pollers, PollSend(p) PROVE PollKnown'
      BY <1>1, <1>2, <3>2 DEF PollSend, OnePlace, PollKnown, TypeOK
    <3> QED
      BY <3>1, <3>2 DEF Poll
  <2> QED
    BY <1>1, <2>1, <2>2, UntouchedStays DEF OnePlace
<1>3. ASSUME NEW p \in Pollers, PollSend(p), Push(START(poll[p].job)),
             Forget(poll[p].job, poll[p].ack)
      PROVE  OnePlace'
  <2>1. PICK j \in Jobs : j = poll[p].job
    BY <1>3 DEF PollSend, TypeOK
  <2>2. poll[p].ack = 1 /\ ack[j] = 1 /\ row[j] = "wait" /\ Single(j) /\ Stage(j)
    BY <1>1, <1>3, <2>1 DEF PollSend, OnePlace, PollKnown
  <2>3. ack' = [ack EXCEPT ![j] = @ - 1]
    BY <1>3, <2>1, <2>2 DEF Forget
  <2>4. ack'[j] = 0 /\ \A k \in Jobs : k # j => ack'[k] = ack[k]
    BY <2>2, <2>3 DEF TypeOK
  <2>5. \A k \in Jobs : /\ k # j => START(k) # START(j)
                        /\ END(k) # START(j)
    BY StartsDiffer
  <2>6. \A k \in Jobs :
          /\ HasStart(k)' <=> HasStart(k) \/ START(j) = START(k)
          /\ EndSent(k)' <=> EndSent(k) \/ START(j) = END(k)
          /\ OneStart(k) /\ ~(HasStart(k) /\ START(j) = START(k)) => OneStart(k)'
    BY <1>3, <2>1, CommandsType, PushPlaces DEF TypeOK
  <2>7. ASSUME NEW k \in Jobs, k # j PROVE Untouched(k)
    BY <1>1, <2>4, <2>5, <2>6, <2>7, SamePlaces DEF Untouched
  <2>8. ~HasStart(j) /\ ~IsDeferred(j) /\ ~InUsersJobs(j) /\ ~Owned(j) /\ ~EndSent(j)
    BY <2>2 DEF Single, Exclusive
  <2>9. Single(j)'
    BY <1>1, <2>2, <2>4, <2>5, <2>6, <2>8, SamePlaces DEF Single, Exclusive
  <2>10. Stage(j)'
    BY <1>1, <2>2, <2>5, <2>6, <2>8, SamePlaces DEF Stage, ToStart
  <2>11. \A q \in Pollers : poll'[q] = NoPoll
    BY <1>3 DEF PollSend, Undisturbed, TypeOK
  <2> QED
    BY <1>1, <2>7, <2>9, <2>10, <2>11, UntouchedStays DEF OnePlace, PollKnown
<1> QED
  BY <1>2, <1>3 DEF Poll, PollRead, PollSend, Refuse

\* A deferred trial puts the job in the list, defers it again, or forgets it.
LEMMA PlaceWake ==
    ASSUME TypeOK, OnePlace, NEW j \in Jobs, NEW t \in 1..TrialsLimit, WakeDeferred(j, t)
    PROVE  OnePlace'
<1>1. /\ UNCHANGED <<web, row, ack, poll, queue, sched, popen, proc>>
      /\ \A k \in Jobs : Single(k) /\ Stage(k)
  BY DEF WakeDeferred, webVars, OnePlace
<1>2. IsDeferred(j) /\ deferred[j][t] = 1 /\ \A u \in 1..TrialsLimit : u # t => deferred[j][u] = 0
  <2>1. deferred[j][t] > 0 /\ OneTrial(j)
    BY <1>1 DEF WakeDeferred, Single
  <2>2. \A u \in 1..TrialsLimit : deferred[j][u] \in Nat
    BY DEF TypeOK
  <2> QED
    BY <2>1, <2>2 DEF OneTrial, IsDeferred
<1>3. ~HasStart(j) /\ ~InUsersJobs(j) /\ ack[j] = 0 /\ ~Owned(j) /\ ~EndSent(j)
      /\ OneStart(j) /\ OneProc(j)
  BY <1>1, <1>2 DEF Single, Exclusive, TypeOK
<1>4. ~HasStart(j)' /\ ack'[j] = 0 /\ ~Owned(j)' /\ ~EndSent(j)' /\ OneStart(j)' /\ OneProc(j)'
  BY <1>1, <1>3, SamePlaces
<1>5. (row[j] = "wait" \/ web[j] \in {"inserted", "aborted"}) /\ j \notin dropped
      /\ (row[j] # "none" => web[j] = "committed")
  BY <1>1, <1>2 DEF Stage, ToStart
<1>6. \A p \in Procs : proc'[p].job # j
  BY <1>4 DEF Owned
<1> DEFINE popped == [deferred[j] EXCEPT ![t] = @ - 1]
<1>7. popped \in [1..TrialsLimit -> Nat] /\ \A u \in 1..TrialsLimit : popped[u] = 0
  <2>1. deferred[j] \in [1..TrialsLimit -> Nat]
    BY DEF TypeOK
  <2>2. popped = [u \in 1..TrialsLimit |-> IF u = t THEN deferred[j][t] - 1 ELSE deferred[j][u]]
    BY <2>1
  <2>3. ASSUME NEW u \in 1..TrialsLimit PROVE popped[u] = 0
    <3>1. popped[u] = IF u = t THEN deferred[j][t] - 1 ELSE deferred[j][u]
      BY <2>2
    <3>2. deferred[j][t] - 1 = 0
      BY <1>2
    <3> QED
      BY <1>2, <3>1, <3>2
  <2>4. \A u \in 1..TrialsLimit : popped[u] \in Nat
    BY <2>3
  <2> HIDE DEF popped
  <2>5. popped \in [1..TrialsLimit -> Nat]
    BY <2>2, <2>4
  <2> QED
    BY <2>3, <2>5
<1> HIDE DEF popped
<1>8. ASSUME \A k \in Jobs : k # j => /\ InUsersJobs(k)' <=> InUsersJobs(k)
                                      /\ deferred'[k] = deferred[k]
                                      /\ k \in dropped' <=> k \in dropped
      PROVE  \A k \in Jobs : k # j => Untouched(k)
  BY <1>1, <1>8, SamePlaces DEF Untouched
<1>9. PollKnown'
  BY <1>1 DEF OnePlace, PollKnown
<1>10. ASSUME \A u \in 1..TrialsLimit : deferred'[j][u] = 0
       PROVE  ~IsDeferred(j)' /\ OneTrial(j)'
  BY <1>10 DEF IsDeferred, OneTrial
<1>11. CASE row[j] # "none"
  <2>1. /\ PushUserJob(j) /\ UNCHANGED dropped
        /\ deferred' = [deferred EXCEPT ![j] = popped]
    BY <1>11 DEF WakeDeferred, popped
  <2>2. \A k \in Jobs : InUsersJobs(k)' <=> InUsersJobs(k) \/ k = j
    BY <2>1, PushUserJobPlaces DEF TypeOK
  <2>3. \A k \in Jobs : k # j => Untouched(k)
    BY <1>8, <2>1, <2>2 DEF TypeOK
  <2>4. ~IsDeferred(j)' /\ OneTrial(j)'
    BY <1>7, <1>10, <2>1 DEF TypeOK
  <2>5. Single(j)'
    BY <1>4, <2>2, <2>4 DEF Single, Exclusive
  <2>6. Stage(j)'
    BY <1>1, <1>4, <1>5, <1>6, <1>11, <2>1, <2>4 DEF Stage, ToStart, Executes
  <2> QED
    BY <1>1, <1>9, <2>3, <2>5, <2>6, UntouchedStays DEF OnePlace
<1>12. CASE row[j] = "none" /\ t < TrialsLimit
  <2>1. t + 1 \in 1..TrialsLimit
    BY <1>12, ConstantsAssumption
  <2>2. ~(t >= TrialsLimit)
    BY <1>12, ConstantsAssumption
  <2>3. /\ UNCHANGED <<usersJobs, dropped>>
        /\ deferred' = [deferred EXCEPT ![j] = [popped EXCEPT ![t + 1] = @ + 1]]
    BY <1>12, <2>2 DEF WakeDeferred, popped
  <2>4. \A k \in Jobs : k # j => Untouched(k)
    BY <1>8, <2>3, SamePlaces DEF TypeOK
  <2>5. \A u \in 1..TrialsLimit : deferred'[j][u] = IF u = t + 1 THEN 1 ELSE 0
    BY <1>7, <2>1, <2>3 DEF TypeOK
  <2>6. OneTrial(j)'
    BY <2>5 DEF OneTrial
  <2>7. ~InUsersJobs(j)'
    BY <1>3, <2>3, SamePlaces
  <2>8. Single(j)'
    BY <1>4, <2>6, <2>7 DEF Single, Exclusive
  <2>9. Stage(j)'
    BY <1>1, <1>4, <1>5, <1>6, <2>3, <2>7 DEF Stage, ToStart, Executes
  <2> QED
    BY <1>1, <1>9, <2>4, <2>8, <2>9, UntouchedStays DEF OnePlace
<1>13. CASE row[j] = "none" /\ t >= TrialsLimit
  <2>1. ~(t < TrialsLimit)
    BY <1>13, ConstantsAssumption
  <2>2. /\ UNCHANGED usersJobs
        /\ dropped' = dropped \/ dropped' = dropped \cup {j}
        /\ deferred' = [deferred EXCEPT ![j] = popped]
    BY <1>13, <2>1 DEF WakeDeferred, popped
  <2>3. \A k \in Jobs : k # j => Untouched(k)
    BY <1>8, <2>2, SamePlaces DEF TypeOK
  <2>4. ~IsDeferred(j)' /\ OneTrial(j)' /\ ~InUsersJobs(j)'
    BY <1>3, <1>7, <1>10, <2>2, SamePlaces DEF TypeOK
  <2>5. Single(j)'
    BY <1>4, <2>4 DEF Single, Exclusive
  <2>6. web[j] \in {"inserted", "aborted"}
    BY <1>5, <1>13
  <2>7. Stage(j)'
    BY <1>1, <1>4, <1>6, <1>13, <2>4, <2>6 DEF Stage, ToStart, Executes
  <2> QED
    BY <1>1, <1>9, <2>3, <2>5, <2>7, UntouchedStays DEF OnePlace
<1> QED
  BY <1>11, <1>12, <1>13, ConstantsAssumption

\* A START brings its job to the list or to the deferred jobs.
LEMMA PlaceStartCommand ==
    ASSUME TypeOK, OnePlace, NEW j \in Jobs, HandleStart(j)
    PROVE  OnePlace'
<1>1. /\ UNCHANGED <<web, row, ack, poll, sched, popen, proc, dropped>>
      /\ \A k \in Jobs : Single(k) /\ Stage(k)
      /\ NextCommand(START(j))
  BY DEF HandleStart, webVars, OnePlace
<1>2. \A k \in Jobs : /\ k # j => START(j) # START(k)
                      /\ START(j) # END(k)
  BY StartsDiffer
<1>3. \A k \in Jobs : /\ EndSent(k)' => EndSent(k)
                      /\ START(j) # START(k) => (HasStart(k)' <=> HasStart(k))
                      /\ START(j) = START(k) => HasStart(k) /\ (OneStart(k) => ~HasStart(k)')
                      /\ OneStart(k) => OneStart(k)'
  BY <1>1, CommandsType, PopPlaces DEF TypeOK
<1>4. HasStart(j) /\ ~HasStart(j)' /\ OneStart(j)'
  BY <1>1, <1>3 DEF Single
<1>5. ~IsDeferred(j) /\ ~InUsersJobs(j) /\ ack[j] = 0 /\ ~Owned(j) /\ ~EndSent(j)
      /\ OneTrial(j) /\ OneProc(j)
  BY <1>1, <1>4 DEF Single, Exclusive
<1>6. ack'[j] = 0 /\ ~Owned(j)' /\ ~EndSent(j)' /\ OneProc(j)'
  BY <1>1, <1>3, <1>5, SamePlaces
<1>7. (row[j] = "wait" \/ web[j] \in {"inserted", "aborted"}) /\ j \notin dropped
      /\ (row[j] # "none" => web[j] = "committed")
  BY <1>1, <1>4 DEF Stage, ToStart
<1>8. \A p \in Procs : proc'[p].job # j
  BY <1>6 DEF Owned
<1>9. PollKnown'
  BY <1>1 DEF OnePlace, PollKnown
<1>10. \A k \in Jobs : EndSent(k)' <=> EndSent(k)
  BY <1>1, <1>2, CommandsType, EndKept DEF TypeOK
<1>11. CASE row[j] # "none"
  <2>1. PushUserJob(j) /\ UNCHANGED deferred
    BY <1>11 DEF HandleStart
  <2>2. \A k \in Jobs : InUsersJobs(k)' <=> InUsersJobs(k) \/ k = j
    BY <2>1, PushUserJobPlaces DEF TypeOK
  <2>3. ASSUME NEW k \in Jobs, k # j PROVE Untouched(k)
    BY <1>1, <1>2, <1>3, <1>10, <2>1, <2>2, <2>3, SamePlaces DEF Untouched
  <2>4. Single(j)'
    BY <1>4, <1>5, <1>6, <2>1, <2>2, SamePlaces DEF Single, Exclusive
  <2>5. Stage(j)'
    BY <1>1, <1>4, <1>6, <1>7, <1>8, <1>11 DEF Stage, ToStart, Executes
  <2> QED
    BY <1>1, <1>9, <2>3, <2>4, <2>5, UntouchedStays DEF OnePlace
<1>12. CASE row[j] = "none"
  <2>1. UNCHANGED usersJobs /\ deferred' = [deferred EXCEPT ![j][1] = @ + 1]
    BY <1>12 DEF HandleStart
  <2>2. ASSUME NEW k \in Jobs, k # j PROVE Untouched(k)
    BY <1>1, <1>2, <1>3, <1>10, <2>1, <2>2, SamePlaces DEF Untouched, TypeOK
  <2>3. OneTrial(j)'
    <3>1. deferred[j] \in [1..TrialsLimit -> Nat] /\ 1 \in 1..TrialsLimit
      BY ConstantsAssumption DEF TypeOK
    <3>2. ASSUME NEW u \in 1..TrialsLimit PROVE deferred[j][u] = 0
      <4>1. deferred[j][u] \in Nat
        BY <3>1
      <4> QED
        BY <1>5, <4>1 DEF IsDeferred
    <3>3. deferred'[j] = [deferred[j] EXCEPT ![1] = @ + 1]
      BY <2>1 DEF TypeOK
    <3>4. ASSUME NEW u \in 1..TrialsLimit PROVE deferred'[j][u] = IF u = 1 THEN 1 ELSE 0
      <4>1. deferred'[j][u] = IF u = 1 THEN deferred[j][1] + 1 ELSE deferred[j][u]
        BY <3>1, <3>3
      <4>2. deferred[j][1] = 0
        BY <3>1, <3>2
      <4> QED
        BY <3>2, <4>1, <4>2
    <3> QED
      BY <3>4 DEF OneTrial
  <2>4. ~InUsersJobs(j)'
    BY <1>5, <2>1, SamePlaces
  <2>5. Single(j)'
    BY <1>4, <1>6, <2>3, <2>4 DEF Single, Exclusive
  <2>6. Stage(j)'
    BY <1>1, <1>6, <1>7, <1>8, <2>4 DEF Stage, ToStart, Executes
  <2> QED
    BY <1>1, <1>9, <2>2, <2>5, <2>6, UntouchedStays DEF OnePlace
<1> QED
  BY <1>11, <1>12

\* An END is the last thing which is known of its job.
LEMMA PlaceEndCommand ==
    ASSUME TypeOK, OnePlace, NEW j \in Jobs, HandleEnd(j)
    PROVE  OnePlace'
<1>1. /\ UNCHANGED <<web, row, ack, poll, sched, usersJobs, deferred, proc, dropped>>
      /\ \A k \in Jobs : Single(k) /\ Stage(k)
      /\ NextCommand(END(j))
      /\ \A k \in Jobs : k # j => popen'[k] = popen[k]
  BY DEF HandleEnd, webVars, OnePlace, TypeOK
<1>2. \A k \in Jobs : /\ k # j => END(j) # END(k)
                      /\ END(j) # START(k)
  BY DEF START, END
<1>3. \A k \in Jobs : /\ HasStart(k)' <=> HasStart(k)
                      /\ OneStart(k) => OneStart(k)'
                      /\ END(j) = END(k) => EndSent(k)
  BY <1>1, <1>2, CommandsType, PopPlaces DEF TypeOK
<1>4. \A k \in Jobs : k # j => (EndSent(k)' <=> EndSent(k))
  BY <1>1, <1>2, CommandsType, EndKept DEF TypeOK
<1>5. ASSUME NEW k \in Jobs, k # j PROVE Untouched(k)
  BY <1>1, <1>3, <1>4, <1>5, SamePlaces DEF Untouched
<1>6. EndSent(j) /\ ~Owned(j) /\ ~ToStart(j)
  BY <1>1, <1>3 DEF Single, Exclusive, ToStart
<1>7. ~HasStart(j)' /\ ~IsDeferred(j)' /\ ~InUsersJobs(j)' /\ ~(ack[j] > 0)' /\ ~Owned(j)'
      /\ OneStart(j)' /\ OneTrial(j)' /\ OneProc(j)'
  BY <1>1, <1>3, <1>6, SamePlaces DEF ToStart, Single
<1>8. Single(j)'
  BY <1>7 DEF Single, Exclusive
<1>9. row[j] # "wait" /\ web[j] = "committed" /\ \A p \in Procs : proc'[p].job # j
  BY <1>1, <1>6, <1>7 DEF Stage, Owned
<1>10. Stage(j)'
  BY <1>1, <1>7, <1>9 DEF Stage, ToStart, Executes
<1>11. PollKnown'
  BY <1>1 DEF OnePlace, PollKnown
<1> QED
  BY <1>1, <1>5, <1>8, <1>10, <1>11, UntouchedStays DEF OnePlace

\* The start of a process brings the job from the list to the process.
LEMMA PlaceStartJob ==
    ASSUME TypeOK, UsersJobsDistinct, OnePlace, StartJob
    PROVE  OnePlace'
<1>1. PICK j \in Jobs : j = Head(usersJobs)
  BY HeadTailProperties DEF StartJob, CanStart, TypeOK
<1>2. PICK p \in Procs : /\ proc[p] = Idle
                         /\ proc' = [proc EXCEPT ![p] = [job |-> j, pc |-> "spawned"]]
                         /\ popen' = [popen EXCEPT ![j] = p]
  BY <1>1 DEF StartJob, FreeProcs
<1>3. /\ UNCHANGED <<web, row, ack, poll, queue, sched, deferred, dropped>>
      /\ \A k \in Jobs : Single(k) /\ Stage(k)
  BY DEF StartJob, webVars, OnePlace
<1>4. \A k \in Jobs : /\ InUsersJobs(k)' <=> InUsersJobs(k) /\ k # j
                      /\ k = j => InUsersJobs(k)
  BY <1>1, TailPlaces DEF StartJob, CanStart, TypeOK
<1>5. /\ proc'[p] = [job |-> j, pc |-> "spawned"]
      /\ \A q \in Procs : q # p => proc'[q] = proc[q]
      /\ popen'[j] = p
      /\ \A k \in Jobs : k # j => popen'[k] = popen[k]
      /\ proc[p].job \notin Jobs
  BY <1>2, ConstantsAssumption DEF TypeOK, Idle
<1>6. ASSUME NEW k \in Jobs, k # j PROVE Untouched(k)
  <2>1. \A q \in Procs : proc[q].job = k \/ proc'[q].job = k => proc'[q] = proc[q]
    BY <1>5, <1>6
  <2> QED
    BY <1>3, <1>4, <1>5, <1>6, <2>1, SamePlaces DEF Untouched
<1>7. InUsersJobs(j) /\ ~HasStart(j) /\ ~IsDeferred(j) /\ ack[j] = 0 /\ ~Owned(j) /\ ~EndSent(j)
      /\ row[j] = "wait" /\ j \notin dropped /\ web[j] = "committed"
  BY <1>3, <1>4 DEF Single, Exclusive, Stage, ToStart, TypeOK
<1>8. ~HasStart(j)' /\ ~IsDeferred(j)' /\ ~InUsersJobs(j)' /\ ack'[j] = 0 /\ ~EndSent(j)'
      /\ OneStart(j)' /\ OneTrial(j)'
  BY <1>3, <1>4, <1>7, SamePlaces DEF Single
<1>9. \A q \in Procs : proc'[q].job = j => q = p
  BY <1>5, <1>7 DEF Owned
<1>10. Single(j)'
  BY <1>8, <1>9 DEF Single, Exclusive, OneProc
<1>11. proc'[p].pc # "saved"
  BY <1>5
<1>12. Stage(j)'
  BY <1>3, <1>5, <1>7, <1>8, <1>9, <1>11 DEF Stage, ToStart, Executes
<1>13. PollKnown'
  BY <1>3 DEF OnePlace, PollKnown
<1> QED
  BY <1>3, <1>6, <1>10, <1>12, <1>13, UntouchedStays DEF OnePlace

\* A process executes its job, saves the result, and sends END or dies.
LEMMA PlaceWork ==
    ASSUME TypeOK, OnePlace, NEW p \in Procs, Work(p) \/ Kill(p)
    PROVE  OnePlace'
<1>1. PICK j \in Jobs : j = proc[p].job
  BY DEF Work, Load, MarkWait, Finish, SendEnd, Kill, Idle, TypeOK
<1>2. /\ UNCHANGED <<web, ack, poll, sched, usersJobs, deferred, popen>>
      /\ \A k \in Jobs : Single(k) /\ Stage(k)
  BY DEF Work, Load, MarkWait, Finish, SendEnd, Kill, webVars, schedVars, OnePlace
<1>3. \A q \in Procs : proc[q].job = j => q = p
  BY <1>1, <1>2 DEF Single, OneProc
<1>4. Owned(j) /\ ~HasStart(j) /\ ~IsDeferred(j) /\ ~InUsersJobs(j) /\ ack[j] = 0 /\ ~EndSent(j)
      /\ OneStart(j) /\ OneTrial(j)
  <2>1. Owned(j) /\ ack[j] \in Nat
    BY <1>1 DEF Owned, TypeOK
  <2> QED
    BY <1>2, <2>1 DEF Single, Exclusive
<1>5. ~IsDeferred(j)' /\ ~InUsersJobs(j)' /\ ack'[j] = 0 /\ OneTrial(j)'
  BY <1>2, <1>4, SamePlaces
<1>6. /\ \A q \in Procs : q # p => proc'[q] = proc[q]
      /\ proc'[p].job \in {j, NoJob}
  BY <1>1 DEF Work, Load, MarkWait, Finish, SendEnd, Kill, Idle, TypeOK
<1>7. \A q \in Procs : proc'[q].job = j => q = p
  BY <1>3, <1>6
<1>8. \A k \in Jobs : k # j =>
          \A q \in Procs : proc[q].job = k \/ proc'[q].job = k => proc'[q] = proc[q]
  BY <1>1, <1>6, ConstantsAssumption
<1>9. web[j] = "committed" /\ (Executes(p, j) => row[j] = "wait" /\ popen[j] = p /\ j \notin dropped)
      /\ (proc[p].pc = "saved" => row[j] # "wait")
  <2>1. CASE Executes(p, j)
    BY <1>2, <2>1 DEF Stage, Executes
  <2>2. CASE proc[p].pc = "saved"
    BY <1>1, <1>2, <2>2 DEF Stage, Executes
  <2> QED
    BY <1>1, <2>1, <2>2, OwnedPc
<1>10. ASSUME \A k \in Jobs : k # j =>
                  /\ HasStart(k)' <=> HasStart(k)
                  /\ OneStart(k) => OneStart(k)'
                  /\ EndSent(k)' <=> EndSent(k)
                  /\ row'[k] = row[k] /\ (k \in dropped' <=> k \in dropped)
       PROVE  \A k \in Jobs : k # j => Untouched(k)
  BY <1>2, <1>8, <1>10, SamePlaces DEF Untouched
<1>11. PollKnown'
  <2>1. \A q \in Pollers : poll[q] # NoPoll => poll[q].job \in Jobs /\ poll[q].job # j
    BY <1>4 DEF OnePlace, PollKnown, TypeOK
  <2>2. \A k \in Jobs : k # j => row'[k] = row[k]
    BY <1>1 DEF Work, Load, MarkWait, Finish, SendEnd, Kill, webVars, UpdateRow, TypeOK
  <2> QED
    BY <1>2, <2>1, <2>2 DEF OnePlace, PollKnown
<1>12. CASE Load(p) \/ MarkWait(p) \/ Finish(p)
  <2>1. UNCHANGED <<queue, dropped>> /\ Executes(p, j)
    BY <1>1, <1>12 DEF Load, MarkWait, Finish, Executes
  <2>2. \A k \in Jobs : k # j => row'[k] = row[k]
    BY <1>1, <1>12 DEF Load, MarkWait, Finish, webVars, UpdateRow, TypeOK
  <2>3. \A k \in Jobs : k # j => Untouched(k)
    BY <1>10, <2>1, <2>2, SamePlaces
  <2>4. ~HasStart(j)' /\ ~EndSent(j)' /\ OneStart(j)'
    BY <1>4, <2>1, SamePlaces
  <2>5. Single(j)'
    BY <1>5, <1>7, <2>4 DEF Single, Exclusive, OneProc
  <2>6. row[j] = "wait" /\ popen[j] = p /\ j \notin dropped
    BY <1>9, <2>1
  <2>7. \/ row'[j] = "wait" /\ proc'[p].pc # "saved"
        \/ row'[j] # "wait" /\ proc'[p].pc = "saved"
    <3>1. CASE Load(p)
      BY <1>1, <2>6, <3>1 DEF Load, webVars, TypeOK
    <3>2. CASE MarkWait(p)
      BY <1>1, <2>6, <3>2 DEF MarkWait, UpdateRow, TypeOK
    <3>3. CASE Finish(p)
      BY <1>1, <2>6, <3>3 DEF Finish, UpdateRow, TypeOK
    <3> QED
      BY <1>12, <3>1, <3>2, <3>3
  <2>8. Stage(j)'
    BY <1>2, <1>5, <1>7, <1>9, <2>1, <2>4, <2>6, <2>7 DEF Stage, ToStart, Executes
  <2> QED
    BY <1>2, <1>11, <2>3, <2>5, <2>8, UntouchedStays DEF OnePlace
<1>13. CASE SendEnd(p) \/ Kill(p)
  <2>1. UNCHANGED row /\ proc'[p] = Idle
    BY <1>13 DEF SendEnd, Kill, webVars, TypeOK
  <2>2. ~Owned(j)'
    BY <1>7, <2>1, ConstantsAssumption DEF Owned, Idle
  <2>3. \A k \in Jobs : /\ k # j => END(k) # END(j)
                        /\ START(k) # END(j)
    BY DEF START, END
  <2>4. /\ \A k \in Jobs : k # j => /\ HasStart(k)' <=> HasStart(k)
                                    /\ OneStart(k) => OneStart(k)'
                                    /\ EndSent(k)' <=> EndSent(k)
                                    /\ k \in dropped' <=> k \in dropped
        /\ ~HasStart(j)' /\ OneStart(j)'
        /\ EndSent(j)' => row[j] # "wait"
    <3>1. CASE Kill(p)
      BY <1>1, <1>4, <3>1, SamePlaces DEF Kill
    <3>2. CASE SendEnd(p) /\ Refuse
      BY <1>4, <3>2, SamePlaces DEF SendEnd, Refuse
    <3>3. CASE SendEnd(p) /\ Push(END(j))
      <4>1. \A k \in Jobs :
              /\ HasStart(k)' <=> HasStart(k) \/ END(j) = START(k)
              /\ EndSent(k)' <=> EndSent(k) \/ END(j) = END(k)
              /\ OneStart(k) /\ ~(HasStart(k) /\ END(j) = START(k)) => OneStart(k)'
        BY <3>3, CommandsType, PushPlaces DEF TypeOK
      <4>2. row[j] # "wait"
        BY <1>9, <3>3 DEF SendEnd
      <4>3. UNCHANGED dropped
        BY <3>3 DEF SendEnd
      <4> QED
        BY <1>4, <2>3, <4>1, <4>2, <4>3
    <3> QED
      BY <1>1, <1>13, <3>1, <3>2, <3>3 DEF SendEnd
  <2>5. \A k \in Jobs : k # j => Untouched(k)
    BY <1>10, <2>1, <2>4
  <2>6. Single(j)'
    BY <1>5, <1>7, <2>2, <2>4 DEF Single, Exclusive, OneProc
  <2>7. \A q \in Procs : proc'[q].job # j
    BY <2>2 DEF Owned
  <2>8. Stage(j)'
    BY <1>2, <1>5, <1>9, <2>1, <2>4, <2>7 DEF Stage, ToStart, Executes
  <2> QED
    BY <1>2, <1>11, <2>5, <2>6, <2>8, UntouchedStays DEF OnePlace
<1> QED
  BY <1>12, <1>13 DEF Work

\* Whatever step is taken, every job is at one place at most, and its row is what
\* it must be there.
LEMMA PlaceStep ==
    ASSUME Undisturbed, TypeOK, UsersJobsDistinct, OnePlace, [Next]_vars
    PROVE  OnePlace'
<1>1. sched = "up" /\ ~SchedClear /\ ~RetrieveJobs /\ ~SchedStop
  BY DEF OnePlace, SchedClear, RetrieveJobs, SchedStop, Undisturbed, TypeOK
<1>2. CASE WaitReturns \/ UNCHANGED vars
  <2>1. UNCHANGED <<web, row, ack, poll, queue, sched, usersJobs, deferred, popen, proc, dropped>>
    BY <1>2 DEF WaitReturns, vars, webVars, schedVars
  <2>2. ASSUME NEW k \in Jobs PROVE Untouched(k)
    BY <2>1, SamePlaces DEF Untouched
  <2> QED
    BY <2>1, <2>2, UntouchedStays DEF OnePlace, PollKnown
<1>3. ASSUME NEW j \in Jobs, Web(j) PROVE OnePlace'
  BY <1>3, PlaceSave, PlaceWeb DEF Web
<1>4. CASE Poll
  BY <1>4, PlacePoll
<1>5. CASE StartJob
  BY <1>5, PlaceStartJob
<1>6. CASE Wake
  BY <1>6, PlaceWake DEF Wake
<1>7. CASE Command
  BY <1>7, PlaceStartCommand, PlaceEndCommand DEF Command
<1>8. ASSUME NEW p \in Procs, Work(p) \/ Kill(p) PROVE OnePlace'
  BY <1>8, PlaceWork
<1> QED
  BY <1>1, <1>2, <1>3, <1>4, <1>5, <1>6, <1>7, <1>8 DEF Next

\* Nothing is anywhere when the scheduler begins to listen.
LEMMA PlaceInit == ASSUME Undisturbed, Init PROVE OnePlace
<1>1. sched = "up" /\ PollKnown
  BY DEF Init, Undisturbed, PollKnown
<1>2. ASSUME NEW j \in Jobs PROVE Single(j) /\ Stage(j)
  <2>1. /\ web[j] = "idle" /\ row[j] = "none" /\ ack[j] = 0 /\ j \notin dropped
        /\ queue = <<>> /\ usersJobs = <<>> /\ deferred[j] = NoTrial
        /\ \A p \in Procs : proc[p] = Idle
    BY DEF Init
  <2>2. ~HasStart(j) /\ ~EndSent(j) /\ OneStart(j) /\ ~InUsersJobs(j)
    BY <2>1 DEF HasStart, EndSent, OneStart, InUsersJobs
  <2>3. ~IsDeferred(j) /\ OneTrial(j)
    BY <2>1 DEF IsDeferred, OneTrial, NoTrial
  <2>4. \A p \in Procs : proc[p].job # j
    BY <2>1, ConstantsAssumption DEF Idle
  <2> QED
    BY <2>1, <2>2, <2>3, <2>4
    DEF Single, Stage, Exclusive, ToStart, OneProc, Owned, Executes
<1> QED
  BY <1>1, <1>2 DEF OnePlace

\* Whatever pushes are refused and processes killed, a job which has been created is
\* at one place at most: two START never wait for it, nor a START and a process.
THEOREM AtOnePlace ==
    ASSUME Undisturbed
    PROVE  Spec => []OnePlace
<1>1. Init => OnePlace
  BY PlaceInit
<1>2. TypeOK /\ UsersJobsDistinct /\ OnePlace /\ [Next]_vars => OnePlace'
  BY PlaceStep
<1> QED
  BY <1>1, <1>2, TypeCorrect, NoDuplicate, PTL DEF Spec

\* A process begins to execute a job which waits, and which no process executes.
LEMMA OneShotStep ==
    ASSUME TypeOK, UsersJobsDistinct, OnePlace, [Next]_vars,
           NEW p \in Procs, NEW j \in Jobs, ~Executes(p, j), Executes(p, j)'
    PROVE  row[j] = "wait" /\ ~IsExecuted(j)
<1>1. CASE UNCHANGED proc
  BY <1>1 DEF Executes
<1>2. ASSUME NEW q \in Procs, Work(q) \/ Kill(q)
      PROVE  FALSE
  <2>1. p = q
    BY <1>2 DEF Work, Load, MarkWait, Finish, SendEnd, Kill, Executes, TypeOK
  <2>2. proc'[p].job = j /\ j # NoJob
    BY ConstantsAssumption DEF Executes
  <2>3. proc[p].job = j
    BY <1>2, <2>1, <2>2 DEF Work, Load, MarkWait, Finish, SendEnd, Kill, Idle, TypeOK
  <2> QED
    BY <1>2, <2>1, <2>2, <2>3
    DEF Work, Load, MarkWait, Finish, SendEnd, Kill, Executes, Idle, TypeOK
<1>3. CASE StartJob
  <2>1. usersJobs \in Seq(Jobs) /\ usersJobs # <<>>
    BY <1>3 DEF StartJob, CanStart, TypeOK
  <2>2. PICK h \in Jobs : h = Head(usersJobs)
    BY <2>1, HeadTailProperties
  <2>3. PICK q \in Procs : proc' = [proc EXCEPT ![q] = [job |-> h, pc |-> "spawned"]]
    BY <1>3, <2>2 DEF StartJob, FreeProcs
  <2>4. h = j
    BY <2>3 DEF Executes, TypeOK
  <2>5. InUsersJobs(j)
    BY <1>3, <2>1, <2>2, <2>4, TailPlaces DEF StartJob
  <2>6. Single(j) /\ Stage(j)
    BY DEF OnePlace
  <2> QED
    BY <2>5, <2>6 DEF Single, Exclusive, Stage, Owned, IsExecuted, Executes
<1>4. ASSUME NEW k \in Jobs, Web(k) \/ HandleStart(k) \/ HandleEnd(k) PROVE UNCHANGED proc
  BY <1>4 DEF Web, CheckQuota, SaveJob, Commit, Rollback, ClearJob, HandleStart, HandleEnd
<1>5. CASE Poll \/ SchedClear \/ RetrieveJobs \/ SchedStop \/ Wake \/ WaitReturns
  BY <1>1, <1>5 DEF Poll, PollRead, PollSend, SchedClear, RetrieveJobs, SchedStop, Wake,
                    WakeDeferred, WaitReturns
<1>6. CASE UNCHANGED vars
  BY <1>1, <1>6 DEF vars
<1> QED
  BY <1>1, <1>2, <1>3, <1>4, <1>5, <1>6 DEF Next, Command

\* JobType: a "one shot Job". With any number of jobs and processes, of refused pushes
\* and of kills, a process is only spawned for a waiting job which nobody executes.
THEOREM EachJobOnce ==
    ASSUME Undisturbed
    PROVE  Spec => OneShot
<1>1. TypeOK /\ UsersJobsDistinct /\ OnePlace /\ [Next]_vars =>
        [\A p \in Procs : \A j \in Jobs :
            ~Executes(p, j) /\ Executes(p, j)' => row[j] = "wait" /\ ~IsExecuted(j)]_vars
  BY OneShotStep
<1> QED
  BY <1>1, TypeCorrect, NoDuplicate, AtOnePlace, PTL DEF Spec, OneShot

-----------------------------------------------------------------------------
(* The user jobs implement JobLifecycle.                                   *)

\* What an action which the user of the job k does not see leaves alone.
Unseen(k) ==
    /\ row'[k] = row[k]
    /\ row[k] = "none" => (web'[k] = "committed" <=> web[k] = "committed")
    /\ row[k] = "wait" => /\ IsExecuted(k)' <=> IsExecuted(k)
                          /\ IsExecuted(k) \/ (k \in dropped' <=> k \in dropped)

\* The status of a job, from its row, before and after a step.
LEMMA StatusCases ==
    ASSUME NEW k \in Jobs
    PROVE  /\ row[k] = "none" => StatusOf(k) = IF web[k] = "committed" THEN "cleared" ELSE "new"
           /\ row[k] \in {"ok", "error"} => StatusOf(k) = "finished"
           /\ row[k] = "wait" => StatusOf(k) = IF IsExecuted(k) THEN "running"
                                               ELSE IF k \in dropped THEN "lost" ELSE "waiting"
           /\ row'[k] = "none" => StatusOf(k)' = IF web'[k] = "committed" THEN "cleared" ELSE "new"
           /\ row'[k] \in {"ok", "error"} => StatusOf(k)' = "finished"
           /\ row'[k] = "wait" => StatusOf(k)' = IF IsExecuted(k)' THEN "running"
                                                 ELSE IF k \in dropped' THEN "lost" ELSE "waiting"
BY DEF StatusOf

\* The status of a job which is not seen to change.
LEMMA StatusKept ==
    ASSUME TypeOK, NEW k \in Jobs, Unseen(k)
    PROVE  StatusOf(k)' = StatusOf(k)
<1>1. row[k] \in {"none", "wait", "ok", "error"}
  BY DEF TypeOK, RowStates
<1> QED
  BY <1>1, StatusCases DEF Unseen

\* When one job at most is seen to change, its status is the only one which does.
LEMMA StatusMoves ==
    ASSUME TypeOK, NEW j \in Jobs, \A k \in Jobs : k # j => Unseen(k)
    PROVE  Status[j] = StatusOf(j) /\ Status' = [Status EXCEPT ![j] = StatusOf(j)']
<1>1. \A k \in Jobs : k # j => StatusOf(k)' = StatusOf(k)
  BY StatusKept
<1>2. Status = [k \in Jobs |-> StatusOf(k)] /\ Status' = [k \in Jobs |-> StatusOf(k)']
  BY DEF Status
<1> QED
  BY <1>1, <1>2

\* When no job is seen to change, no status does.
LEMMA StatusStays ==
    ASSUME TypeOK, \A k \in Jobs : Unseen(k)
    PROVE  Status' = Status
<1>1. \A k \in Jobs : StatusOf(k)' = StatusOf(k)
  BY StatusKept
<1>2. Status = [k \in Jobs |-> StatusOf(k)] /\ Status' = [k \in Jobs |-> StatusOf(k)']
  BY DEF Status
<1> QED
  BY <1>1, <1>2

\* JobLifecycle counts as UserJobs does.
LEMMA SameCardinality == \A S : Lifecycle!Cardinality(S) = Cardinality(S)
BY DEF Lifecycle!Cardinality, Cardinality

\* The jobs which run have a place of the pool: one is free when the main loop
\* finds that the pool has room.
LEMMA RunningInPool ==
    ASSUME TypeOK, PoolConsistent, OnePlace, PoolHasRoom
    PROVE  Cardinality(Lifecycle!Running) < MaxUserJobs + 1
<1>1. ASSUME NEW j \in Jobs, Status[j] = "running" PROVE j \in running
  <2>1. row[j] \in {"none", "wait", "ok", "error"}
    BY DEF TypeOK, RowStates
  <2>2. IsExecuted(j)
    BY <1>1, <2>1, StatusCases DEF Status
  <2>3. PICK p \in Procs : Executes(p, j)
    BY <2>2 DEF IsExecuted
  <2>4. popen[j] = p
    BY <2>3 DEF OnePlace, Stage
  <2> QED
    BY <2>4, ConstantsAssumption DEF PoolConsistent
<1>2. Lifecycle!Running \subseteq running
  BY <1>1 DEF Lifecycle!Running
<1>3. IsFiniteSet(running)
  BY ConstantsAssumption, FS_Subset DEF TypeOK
<1>4. /\ Cardinality(Lifecycle!Running) <= Cardinality(running)
      /\ Cardinality(Lifecycle!Running) \in Nat /\ Cardinality(running) \in Nat
  BY <1>2, <1>3, FS_Subset, FS_CardinalityType
<1> QED
  BY <1>4, ConstantsAssumption DEF PoolHasRoom

\* A request is seen when it commits the row of its job, or clears it.
LEMMA LifecycleWeb ==
    ASSUME TypeOK, OnePlace, NEW j \in Jobs, Web(j)
    PROVE  [Lifecycle!Next]_Status
<1>1. Single(j) /\ Stage(j) /\ UNCHANGED <<dropped, proc>>
  BY DEF OnePlace, Web, CheckQuota, SaveJob, Commit, Rollback, ClearJob
<1>2. \A k \in Jobs : IsExecuted(k)' <=> IsExecuted(k)
  BY <1>1, SameProc
<1>3. \A k \in Jobs : k # j => row'[k] = row[k] /\ web'[k] = web[k]
  BY DEF Web, CheckQuota, SaveJob, Commit, Rollback, ClearJob, TypeOK
<1>4. \A k \in Jobs : k # j => Unseen(k)
  BY <1>1, <1>2, <1>3 DEF Unseen
<1>5. CASE CheckQuota(j) \/ SaveJob(j) \/ Rollback(j)
  <2>1. row' = row /\ web[j] # "committed" /\ web'[j] # "committed"
    BY <1>5 DEF CheckQuota, SaveJob, Rollback, TypeOK
  <2>2. Unseen(j)
    BY <1>1, <1>2, <2>1 DEF Unseen
  <2> QED
    BY <1>4, <2>2, StatusStays
<1>6. CASE Commit(j)
  <2>1. row[j] = "none" /\ web[j] # "committed" /\ row'[j] = "wait"
    BY <1>1, <1>6 DEF Commit, Stage, TypeOK
  <2>2. ~IsExecuted(j)
    BY <1>1, <2>1 DEF Stage, IsExecuted
  <2>3. StatusOf(j) = "new" /\ StatusOf(j)' \in {"waiting", "lost"}
    BY <1>2, <2>1, <2>2, StatusCases
  <2>4. Lifecycle!Create(j)
    BY <1>4, <2>3, StatusMoves DEF Lifecycle!Create, Lifecycle!Become
  <2> QED
    BY <2>4 DEF Lifecycle!Next
<1>7. CASE ClearJob(j)
  <2>1. row[j] \in {"ok", "error"} /\ row'[j] = "none" /\ web'[j] = "committed"
    BY <1>1, <1>7 DEF ClearJob, Stage, TypeOK
  <2>2. StatusOf(j) = "finished" /\ StatusOf(j)' = "cleared"
    BY <2>1, StatusCases
  <2>3. Lifecycle!Clear(j)
    BY <1>4, <2>2, StatusMoves DEF Lifecycle!Clear, Lifecycle!Become
  <2> QED
    BY <2>3 DEF Lifecycle!Next
<1> QED
  BY <1>5, <1>6, <1>7 DEF Web

\* The main loop is seen when it spawns the process of a job.
LEMMA LifecycleStart ==
    ASSUME TypeOK, PoolConsistent, UsersJobsDistinct, OnePlace, StartJob
    PROVE  [Lifecycle!Next]_Status
<1>1. usersJobs \in Seq(Jobs) /\ usersJobs # <<>> /\ PoolHasRoom
      /\ UNCHANGED <<web, row, dropped>>
  BY DEF StartJob, CanStart, TypeOK, webVars
<1>2. PICK j \in Jobs : j = Head(usersJobs)
  BY <1>1, HeadTailProperties
<1>3. PICK p \in Procs : proc[p] = Idle /\ proc' = [proc EXCEPT ![p] = [job |-> j, pc |-> "spawned"]]
  BY <1>2 DEF StartJob, FreeProcs
<1>4. InUsersJobs(j)
  BY <1>1, <1>2, TailPlaces DEF StartJob
<1>5. row[j] = "wait" /\ ~IsExecuted(j) /\ j \notin dropped
  BY <1>4 DEF OnePlace, Single, Exclusive, Stage, ToStart, Owned, IsExecuted, Executes
<1>6. proc'[p] = [job |-> j, pc |-> "spawned"] /\ \A q \in Procs : q # p => proc'[q] = proc[q]
  BY <1>3 DEF TypeOK
<1>7. IsExecuted(j)'
  <2>1. Executes(p, j)'
    BY <1>6 DEF Executes
  <2> QED
    BY <2>1 DEF IsExecuted
<1>8. ASSUME NEW k \in Jobs, k # j PROVE Unseen(k)
  <2>1. \A q \in Procs : Executes(q, k)' <=> Executes(q, k)
    BY <1>3, <1>6, <1>8, ConstantsAssumption DEF Executes, Idle
  <2> QED
    BY <1>1, <2>1 DEF Unseen, IsExecuted
<1>9. StatusOf(j) = "waiting" /\ StatusOf(j)' = "running"
  BY <1>1, <1>5, <1>7, StatusCases
<1>10. Lifecycle!Start(j)
  BY <1>1, <1>8, <1>9, RunningInPool, SameCardinality, StatusMoves DEF Lifecycle!Start, Lifecycle!Become
<1> QED
  BY <1>10 DEF Lifecycle!Next

\* A process is seen when it saves the result of its job, or dies before.
LEMMA LifecycleWork ==
    ASSUME TypeOK, OnePlace, NEW p \in Procs, Work(p) \/ Kill(p)
    PROVE  [Lifecycle!Next]_Status
<1>1. PICK j \in Jobs : j = proc[p].job
  BY DEF Work, Load, MarkWait, Finish, SendEnd, Kill, Idle, TypeOK
<1>2. Single(j) /\ Stage(j) /\ UNCHANGED web
  BY DEF OnePlace, Work, Load, MarkWait, Finish, SendEnd, Kill, webVars
<1>3. /\ \A q \in Procs : q # p => proc'[q] = proc[q]
      /\ proc'[p].job \in {j, NoJob}
      /\ \A k \in Jobs : k # j => row'[k] = row[k] /\ (k \in dropped' <=> k \in dropped)
  BY <1>1 DEF Work, Load, MarkWait, Finish, SendEnd, Kill, Idle, UpdateRow, webVars, TypeOK
<1>4. ASSUME NEW k \in Jobs, k # j PROVE Unseen(k)
  <2>1. \A q \in Procs : Executes(q, k)' <=> Executes(q, k)
    BY <1>1, <1>3, <1>4, ConstantsAssumption DEF Executes
  <2> QED
    BY <1>2, <1>3, <1>4, <2>1 DEF Unseen, IsExecuted
<1>5. /\ IsExecuted(j) <=> Executes(p, j)
      /\ IsExecuted(j)' <=> Executes(p, j)'
  BY <1>1, <1>2, <1>3 DEF IsExecuted, Executes, Single, OneProc
<1>6. Executes(p, j) => row[j] = "wait" /\ j \notin dropped
  BY <1>2 DEF Stage
<1>7. CASE Load(p) \/ MarkWait(p)
  <2>1. Executes(p, j)
    BY <1>1, <1>7 DEF Load, MarkWait, Executes
  <2>2. row'[j] = row[j]
    BY <1>1, <1>6, <1>7, <2>1 DEF Load, MarkWait, UpdateRow, webVars, TypeOK
  <2>3. Executes(p, j)'
    <3>1. proc[p] \in [job : Jobs, pc : ProcStates] /\ row[j] # "none"
      BY <1>1, <1>6, <2>1, ConstantsAssumption DEF TypeOK, Idle
    <3>2. PICK pc \in {"loaded", "executing"} : proc' = [proc EXCEPT ![p].pc = pc]
      BY <1>1, <1>7, <3>1 DEF Load, MarkWait
    <3>3. proc'[p].job = j /\ proc'[p].pc = pc
      BY <1>1, <3>1, <3>2 DEF TypeOK
    <3> QED
      BY <3>3 DEF Executes
  <2>4. Unseen(j)
    BY <1>2, <1>5, <2>1, <2>2, <2>3 DEF Unseen
  <2> QED
    BY <1>4, <2>4, StatusStays
<1>8. CASE Finish(p)
  <2>1. Executes(p, j)
    BY <1>1, <1>8 DEF Finish, Executes
  <2>2. row'[j] \in {"ok", "error"}
    BY <1>1, <1>6, <1>8, <2>1 DEF Finish, UpdateRow, TypeOK
  <2>3. StatusOf(j) = "running" /\ StatusOf(j)' = "finished"
    BY <1>5, <1>6, <2>1, <2>2, StatusCases
  <2>4. Lifecycle!End(j)
    BY <1>4, <2>3, StatusMoves DEF Lifecycle!End, Lifecycle!Become
  <2> QED
    BY <2>4 DEF Lifecycle!Next
<1>9. CASE (SendEnd(p) \/ Kill(p)) /\ ~Executes(p, j)
  <2>1. row' = row /\ proc'[p] = Idle
    BY <1>9 DEF SendEnd, Kill, webVars, TypeOK
  <2>2. row[j] # "wait"
    BY <1>1, <1>2, <1>9, OwnedPc DEF Stage
  <2>3. Unseen(j)
    BY <1>2, <2>1, <2>2 DEF Unseen
  <2> QED
    BY <1>4, <2>3, StatusStays
<1>10. CASE Kill(p) /\ Executes(p, j)
  <2>1. row' = row /\ j \in dropped' /\ proc'[p] = Idle
    BY <1>1, <1>10 DEF Kill, webVars, TypeOK
  <2>2. ~Executes(p, j)'
    BY <2>1 DEF Executes, Idle
  <2>3. StatusOf(j) = "running" /\ StatusOf(j)' = "lost"
    BY <1>5, <1>6, <1>10, <2>1, <2>2, StatusCases
  <2>4. Lifecycle!Die(j)
    BY <1>4, <2>3, StatusMoves DEF Lifecycle!Die, Lifecycle!Become
  <2> QED
    BY <2>4 DEF Lifecycle!Next
<1>11. SendEnd(p) => ~Executes(p, j)
  BY DEF SendEnd, Executes
<1> QED
  BY <1>7, <1>8, <1>9, <1>10, <1>11 DEF Work

\* The polls, the commands, the waits and the trials of the scheduler are not seen.
LEMMA LifecycleHidden ==
    ASSUME TypeOK, OnePlace, Poll \/ Wake \/ Command \/ WaitReturns \/ UNCHANGED vars
    PROVE  Status' = Status
<1>1. UNCHANGED <<web, row, proc>>
  BY DEF Poll, PollRead, PollSend, Wake, WakeDeferred, Command, HandleStart, HandleEnd,
         WaitReturns, vars, webVars
<1>2. \A k \in Jobs : IsExecuted(k)' <=> IsExecuted(k)
  BY <1>1, SameProc
<1>3. ASSUME NEW k \in Jobs, row[k] = "wait" PROVE k \in dropped' <=> k \in dropped
  <2>1. CASE UNCHANGED dropped
    BY <2>1
  <2>2. ASSUME NEW j \in Jobs, NEW t \in 1..TrialsLimit, WakeDeferred(j, t), k # j
        PROVE  k \in dropped' <=> k \in dropped
    <3>1. dropped' = dropped \/ dropped' = dropped \cup {j}
      BY <2>2, Zenon DEF WakeDeferred
    <3> QED
      BY <2>2, <3>1
  <2>3. ASSUME NEW t \in 1..TrialsLimit, WakeDeferred(k, t) PROVE UNCHANGED dropped
    BY <1>3, <2>3 DEF WakeDeferred
  <2>4. Poll \/ Command \/ WaitReturns \/ UNCHANGED vars => UNCHANGED dropped
    BY DEF Poll, PollRead, PollSend, Command, HandleStart, HandleEnd, WaitReturns, vars
  <2> QED
    BY <2>1, <2>2, <2>3, <2>4 DEF Wake
<1>4. ASSUME NEW k \in Jobs PROVE Unseen(k)
  BY <1>1, <1>2, <1>3 DEF Unseen
<1> QED
  BY <1>4, StatusStays

\* Every step is one of JobLifecycle, or its users do not see it.
LEMMA LifecycleStep ==
    ASSUME Undisturbed, TypeOK, PoolConsistent, UsersJobsDistinct, OnePlace, [Next]_vars
    PROVE  [Lifecycle!Next]_Status
<1>1. ~SchedClear /\ ~RetrieveJobs /\ ~SchedStop
  BY DEF OnePlace, SchedClear, RetrieveJobs, SchedStop, Undisturbed, TypeOK
<1> QED
  BY <1>1, LifecycleWeb, LifecycleStart, LifecycleWork, LifecycleHidden DEF Next

\* Every job is new before it is created.
LEMMA LifecycleInit == ASSUME Init PROVE Lifecycle!Init
<1>1. ASSUME NEW j \in Jobs PROVE StatusOf(j) = "new"
  BY StatusCases DEF Init
<1>2. Status = [j \in Jobs |-> StatusOf(j)]
  BY DEF Status
<1> QED
  BY <1>1, <1>2 DEF Lifecycle!Init

\* Requests, commands, deferred trials, rows and processes together keep the promise
\* of JobLifecycle: a job waits, runs once with a place of the pool, stays finished
\* until it is cleared, and is only lost as JobLifecycle says.
THEOREM LifecycleImplemented ==
    ASSUME Undisturbed
    PROVE  Spec => ImplementsLifecycle
<1>1. Init => Lifecycle!Init
  BY LifecycleInit
<1>2. TypeOK /\ PoolConsistent /\ UsersJobsDistinct /\ OnePlace /\ [Next]_vars
        => [Lifecycle!Next]_Status
  BY LifecycleStep
<1> QED
  BY <1>1, <1>2, TypeCorrect, PoolCorrect, NoDuplicate, AtOnePlace, PTL
  DEF Spec, ImplementsLifecycle, Lifecycle!Spec
=============================================================================
