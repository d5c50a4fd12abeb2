----------------------------- MODULE SystemJobs -----------------------------
(***************************************************************************)
(* System jobs of Creme: the JobScheduler keeps them in a heap ordered by  *)
(* date, starts each one when its date comes, and computes its next date   *)
(* when it ends (END) or when its row or the data it works on are edited    *)
(* (REFRESH). The commands are sent from inside the transactions they tell *)
(* about, so the scheduler may handle them before the commit, or instead.  *)
(*                                                                         *)
(* A PERIODIC job runs at reference_run + N * periodicity. A               *)
(* PSEUDO_PERIODIC job also runs when its data ask for it: its agenda is   *)
(* the set of dates at which committed data (alerts, mails...) are due.    *)
(* User jobs are in UserJobs: they only share the broker's list.           *)
(***************************************************************************)
EXTENDS Naturals, Sequences, FiniteSets

CONSTANTS
    Jobs,      \* system jobs, created by "populate" and never deleted
    Pseudo,    \* those which are PSEUDO_PERIODIC, the others are PERIODIC
    Refs,      \* values an administrator gives to reference_run
    Periods,   \* and to periodicity
    PseudoPeriod,  \* settings.PSEUDO_PERIOD
    Secure,    \* _handle_command_refresh(): 30 seconds
    Early,     \* a job starts when its date is less than 1 second away
    Far,       \* the year MAXYEAR
    Editable,  \* jobs which administrators edit
    Watched,   \* jobs whose state is asked to the view JobsInformation
    Delays,    \* data which are added are due this long after their creation
    None,
    Horizon, MaxEdits, MaxItems, MaxStops, MaxLost   \* bounds

ASSUME SystemAssumption ==
    /\ IsFiniteSet(Jobs) /\ Pseudo \subseteq Jobs
    /\ Refs \subseteq Nat /\ Periods \subseteq Nat \ {0} /\ PseudoPeriod \in Nat \ {0}
    /\ 0 \in Refs /\ Periods # {}
    /\ Secure \in Nat /\ Early \in Nat /\ Far \in Nat /\ Delays \subseteq Nat
    /\ \A period \in Periods \cup {PseudoPeriod} : Early <= period
    /\ None \notin Nat /\ None \notin Jobs
    /\ Editable \subseteq Jobs /\ Watched \subseteq Jobs
    /\ Horizon \in Nat /\ MaxEdits \in Nat /\ MaxItems \in Nat
    /\ MaxStops \in Nat /\ MaxLost \in Nat

VARIABLES
    clock,
    conf,     \* rows of Job: enabled, reference_run, periodicity
    ack,      \* Job.ack_errors
    edit,     \* the transaction of JobEdition or JobEnabling: it locks the row
    agenda,   \* dates of the committed data each pseudo-periodic job handles
    adding,   \* the transaction which adds such data
    queue,    \* the Redis list 'creme_jobs'
    sched,    \* "down", "cleared" or "up"
    loop,     \* where the main loop is: "top", or "blocked" on the queue
    wake,     \* JobScheduler._system_jobs: the date of each job of the heap
    mem,      \* and the values of the instance which is in the heap
    starts,   \* JobScheduler._system_jobs_starts
    waiting,  \* the job whose process _end_job() is waiting for
    proc,     \* "run" while the process spawned by this scheduler lives
    orphan,   \* jobs which a former scheduler has started and which still run
    gone,     \* history: jobs whose last process is dead, and has sent no END
    raced,    \* history: jobs whose values may differ, see MemoryFollowsRows
    missed,   \* history: jobs edited by a transaction still open when END is handled
    late,     \* history: data committed after the END which should have seen them
    edits, items, stops, lost   \* counters of the bounds

dbVars    == <<conf, ack, edit, agenda, adding>>
heapVars  == <<wake, mem, starts>>
schedVars == <<sched, loop, waiting>>
procVars  == <<proc, orphan, gone>>
history   == <<raced, missed, late>>
bounds    == <<edits, items, stops, lost>>
vars      == <<clock, dbVars, queue, schedVars, heapVars, procVars, history, bounds>>

PeriodsOf(j) == IF j \in Pseudo THEN {PseudoPeriod} ELSE Periods
RefsOf(j)    == IF j \in Pseudo THEN {0} ELSE Refs
Confs(j)     == [enabled : BOOLEAN, ref : RefsOf(j), period : PeriodsOf(j)]
AllConfs     == UNION {Confs(j) : j \in Jobs}

REFRESH(j, c) == [type |-> "REFRESH", job |-> j, conf |-> c]
END(j)        == [type |-> "END", job |-> j]
Commands      == [type : {"REFRESH"}, job : Jobs, conf : AllConfs]
                 \cup [type : {"END"}, job : Jobs]

NoEdit == [job |-> None]
NoItem == [job |-> None]
Edits  == [job : Jobs, conf : AllConfs, ack : {0, 1}]
Items  == [job : Pseudo, due : Nat, conf : AllConfs, sent : BOOLEAN, late : BOOLEAN]

TypeOK ==
    /\ clock \in Nat
    /\ conf \in [Jobs -> AllConfs]
    /\ ack \in [Jobs -> Nat]
    /\ edit \in Edits \cup {NoEdit}
    /\ agenda \in [Jobs -> SUBSET Nat]
    /\ adding \in Items \cup {NoItem}
    /\ queue \in Seq(Commands)
    /\ sched \in {"down", "cleared", "up"}
    /\ loop \in {"top", "blocked"}
    /\ wake \in [Jobs -> Nat \cup {None}]
    /\ mem \in [Jobs -> AllConfs]
    /\ starts \in [Jobs -> Nat \cup {None}]
    /\ waiting \in Jobs \cup {None}
    /\ proc \in [Jobs -> {"none", "run"}]
    /\ orphan \subseteq Jobs /\ gone \subseteq Jobs
    /\ raced \subseteq Jobs /\ missed \subseteq Jobs
    /\ late \in [Jobs -> SUBSET Nat]
    /\ edits \in Nat /\ items \in Nat /\ stops \in Nat /\ lost \in Nat

-----------------------------------------------------------------------------
(* _next_wakeup()                                                          *)

Smallest(a, b) == IF a <= b THEN a ELSE b
First(S)       == CHOOSE d \in S : \A e \in S : d <= e

\* Mutant: one period too many.
NextDateSkipped(ref, period, now) ==
    IF ref >= now THEN ref ELSE ref + period * ((now - ref + period) \div period + 1)

\* The loop "while next_wakeup < now_value: next_wakeup += period".
NextDate(ref, period, now) ==
    IF ref >= now THEN ref
    ELSE ref + period * ((now - ref + period - 1) \div period)

NextWakeup(j, c, ref, now) ==
    IF ~c.enabled THEN Far
    ELSE LET date == NextDate(ref, c.period, now)
         IN  IF j \in Pseudo /\ agenda[j] # {} THEN Smallest(date, First(agenda[j]))
             ELSE date

Init ==
    /\ clock = 0
    /\ conf \in {f \in [Jobs -> AllConfs] :
                   \A j \in Jobs : f[j] \in Confs(j) /\ f[j].enabled /\ f[j].ref = 0}
    /\ ack = [j \in Jobs |-> 0]
    /\ edit = NoEdit /\ adding = NoItem
    /\ agenda = [j \in Jobs |-> {}]
    /\ queue = <<>>
    /\ sched = "down" /\ loop = "top" /\ waiting = None
    /\ wake = [j \in Jobs |-> None]
    /\ mem = conf
    /\ starts = [j \in Jobs |-> None]
    /\ proc = [j \in Jobs |-> "none"]
    /\ orphan = {} /\ gone = {} /\ raced = {} /\ missed = {}
    /\ late = [j \in Jobs |-> {}]
    /\ edits = 0 /\ items = 0 /\ stops = 0 /\ lost = 0

-----------------------------------------------------------------------------
(* The views.                                                              *)

Push(cmd) == queue' = Append(queue, cmd) /\ UNCHANGED lost
Refuse    == lost < MaxLost /\ lost' = lost + 1 /\ UNCHANGED queue

IsEdited(j) == edit.job = j
IsAdding(j) == adding.job = j

\* Job.save() of a row locked by select_for_update(): REFRESH carries all the
\* fields. A refused push is counted in the same transaction.
EditJob(j, c) ==
    /\ j \in Editable
    /\ edit = NoEdit
    /\ edits < MaxEdits /\ edits' = edits + 1
    /\ c # conf[j]
    /\ \/ Push(REFRESH(j, c)) /\ edit' = [job |-> j, conf |-> c, ack |-> 0]
       \/ Refuse /\ edit' = [job |-> j, conf |-> c, ack |-> 1]
    /\ raced' = IF IsAdding(j) THEN raced \cup {j} ELSE raced
    /\ UNCHANGED <<clock, conf, ack, agenda, adding, schedVars, heapVars, procVars, missed, late,
                   items, stops>>

\* Mutant: the errors are subtracted.
CommitEditMinus ==
    /\ edit # NoEdit
    /\ edit' = NoEdit
    /\ conf' = [conf EXCEPT ![edit.job] = edit.conf]
    /\ ack' = [ack EXCEPT ![edit.job] = @ - edit.ack]
    /\ UNCHANGED <<clock, agenda, adding, queue, schedVars, heapVars, procVars, history, bounds>>

CommitEdit ==
    /\ edit # NoEdit
    /\ edit' = NoEdit
    /\ conf' = [conf EXCEPT ![edit.job] = edit.conf]
    /\ ack' = [ack EXCEPT ![edit.job] = @ + edit.ack]
    /\ UNCHANGED <<clock, agenda, adding, queue, schedVars, heapVars, procVars, history, bounds>>

RollbackEdit ==
    /\ edit # NoEdit
    /\ edit' = NoEdit
    /\ raced' = raced \cup {edit.job}
    /\ UNCHANGED <<clock, conf, ack, agenda, adding, queue, schedVars, heapVars, procVars, missed, late,
                   bounds>>

\* An object which the job will handle is saved; JobType.refresh_job() reads
\* the row of the job ...
AddItem(j, delay) ==
    /\ j \in Pseudo
    /\ adding = NoItem
    /\ items < MaxItems /\ items' = items + 1
    /\ adding' = [job |-> j, due |-> clock + delay, conf |-> conf[j], sent |-> FALSE,
                  late |-> FALSE]
    /\ raced' = IF IsEdited(j) THEN raced \cup {j} ELSE raced
    /\ UNCHANGED <<clock, conf, ack, edit, agenda, queue, schedVars, heapVars, procVars, missed, late,
                   edits, stops, lost>>

\* ... and refresh(force=True) sends it; a refused push is not counted.
SendItem ==
    /\ adding # NoItem /\ ~adding.sent
    /\ \/ Push(REFRESH(adding.job, adding.conf)) /\ adding' = [adding EXCEPT !.sent = TRUE]
       \/ Refuse /\ adding' = [adding EXCEPT !.sent = TRUE, !.late = TRUE]
    /\ UNCHANGED <<clock, conf, ack, edit, agenda, schedVars, heapVars, procVars, history,
                   edits, items, stops>>

CommitItem ==
    /\ adding # NoItem /\ adding.sent
    /\ adding' = NoItem
    /\ agenda' = [agenda EXCEPT ![adding.job] = @ \cup {adding.due}]
    /\ late' = IF adding.late THEN [late EXCEPT ![adding.job] = @ \cup {adding.due}] ELSE late
    /\ UNCHANGED <<clock, conf, ack, edit, queue, schedVars, heapVars, procVars, raced, missed, bounds>>

RollbackItem ==
    /\ adding # NoItem /\ adding.sent
    /\ adding' = NoItem
    /\ UNCHANGED <<clock, conf, ack, edit, agenda, queue, schedVars, heapVars, procVars, history,
                   bounds>>

\* JobsInformation.get_job_info(): for a system job refresh() is not forced, it
\* sends nothing and reports no error, so the errors are forgotten.
PollJob(j) ==
    /\ j \in Watched
    /\ sched = "up"
    /\ ack[j] > 0
    /\ ack' = [ack EXCEPT ![j] = 0]
    /\ raced' = raced \cup {j}
    /\ UNCHANGED <<clock, conf, edit, agenda, adding, queue, schedVars, heapVars, procVars,
                   missed, late, bounds>>

-----------------------------------------------------------------------------
(* The scheduler process.                                                  *)

Queued(j) == \E i \in 1..Len(queue) : queue[i].type = "REFRESH" /\ queue[i].job = j

\* A date computed from the committed rows misses the transactions still open.
MissItem(js) == IF adding # NoItem /\ adding.sent /\ adding.job \in js
                THEN adding' = [adding EXCEPT !.late = TRUE] ELSE UNCHANGED adding
OpenEdit     == IF edit = NoEdit THEN {} ELSE {edit.job}

SchedClear ==
    /\ sched = "down"
    /\ sched' = "cleared"
    /\ queue' = <<>>
    /\ UNCHANGED <<clock, dbVars, loop, waiting, heapVars, procVars, history, bounds>>

\* _retrieve_jobs()
RetrieveJobs ==
    /\ sched = "cleared"
    /\ sched' = "up" /\ loop' = "top"
    /\ mem' = conf
    /\ wake' = [j \in Jobs |-> NextWakeup(j, conf[j], conf[j].ref, clock)]
    /\ raced' = OpenEdit \cup {j \in raced : Queued(j) \/ IsAdding(j)}
    /\ missed' = {}
    /\ late' = [j \in Jobs |-> {}]
    /\ MissItem(Jobs)
    /\ UNCHANGED <<clock, conf, ack, edit, agenda, queue, waiting, starts, procVars, bounds>>

\* The scheduler dies, the processes of the jobs survive.
SchedStop ==
    /\ sched # "down"
    /\ stops < MaxStops /\ stops' = stops + 1
    /\ sched' = "down" /\ loop' = "top" /\ waiting' = None
    /\ wake' = [j \in Jobs |-> None]
    /\ starts' = [j \in Jobs |-> None]
    /\ orphan' = orphan \cup {j \in Jobs : proc[j] = "run"}
    /\ proc' = [j \in Jobs |-> "none"]
    /\ gone' = {}
    /\ UNCHANGED <<clock, dbVars, queue, mem, history, edits, items, lost>>

Ready == sched = "up" /\ waiting = None

\* "timeout < 1", the difference being truncated to seconds.
Due(j) == wake[j] # None /\ wake[j] <= clock + Early

\* The first job of the heap is due: it is popped and its process spawned.
RunJob(j) ==
    /\ Ready /\ loop = "top"
    /\ Due(j)
    /\ \A k \in Jobs : wake[k] # None => wake[j] <= wake[k]
    /\ wake' = [wake EXCEPT ![j] = None]
    /\ starts' = [starts EXCEPT ![j] = wake[j]]
    /\ proc' = [proc EXCEPT ![j] = "run"]
    /\ gone' = gone \ {j}
    /\ UNCHANGED <<clock, dbVars, queue, schedVars, mem, orphan, history, bounds>>

Block ==
    /\ Ready /\ loop = "top"
    /\ \A j \in Jobs : ~Due(j)
    /\ loop' = "blocked"
    /\ UNCHANGED <<clock, dbVars, queue, sched, waiting, heapVars, procVars, history, bounds>>

\* get_command() returns None: the date of the first job of the heap comes.
Timeout ==
    /\ Ready /\ loop = "blocked"
    /\ \E j \in Jobs : Due(j)
    /\ loop' = "top"
    /\ UNCHANGED <<clock, dbVars, queue, sched, waiting, heapVars, procVars, history, bounds>>

NextCommand(cmd) ==
    /\ Ready /\ loop = "blocked"
    /\ queue # <<>>
    /\ Head(queue) = cmd
    /\ queue' = Tail(queue)
    /\ loop' = "top"

\* Mutant: the next date of a pseudo-periodic job is not brought forward.
SecuredNever(j, c, date) == date

\* The data may not be committed yet: a pseudo-periodic job runs soon anyway.
Secured(j, c, date) == IF c.enabled /\ j \in Pseudo THEN Smallest(date, clock + Secure) ELSE date

\* The job is in the heap, unless it runs; the branches for an unknown job and
\* for data which cannot be read are never taken: refresh() writes the data.
HandleRefresh(j, c) ==
    /\ NextCommand(REFRESH(j, c))
    /\ \/ /\ starts[j] # None
          /\ UNCHANGED <<heapVars, history>>
       \/ /\ starts[j] = None
          /\ mem' = [mem EXCEPT ![j] = c]
          /\ wake' = [wake EXCEPT ![j] = Secured(j, c, NextWakeup(j, c, c.ref, clock))]
          /\ late' = [late EXCEPT ![j] = {}]
          /\ missed' = missed \ {j}
          /\ UNCHANGED <<starts, raced>>
    /\ UNCHANGED <<clock, dbVars, sched, waiting, procVars, bounds>>

\* At END the row and the data are read again: what is committed later is missed.
ReadAtEnd(j) ==
    /\ raced' = IF IsEdited(j) \/ Queued(j) \/ IsAdding(j) THEN raced ELSE raced \ {j}
    /\ missed' = IF IsEdited(j) THEN missed \cup {j} ELSE missed \ {j}
    /\ late' = [late EXCEPT ![j] = {}]
    /\ MissItem({j})

\* Mutants: a job which was disabled meanwhile is not pushed back; its instance
\* is not read again; the process is not waited for.
HandleEndEnabled(j) ==
    /\ NextCommand(END(j))
    /\ starts[j] # None
    /\ mem' = [mem EXCEPT ![j] = conf[j]]
    /\ wake' = [wake EXCEPT ![j] = IF conf[j].enabled
                                   THEN NextWakeup(j, conf[j], starts[j], clock) ELSE None]
    /\ starts' = [starts EXCEPT ![j] = None]
    /\ waiting' = j
    /\ ReadAtEnd(j)
    /\ UNCHANGED <<clock, conf, ack, edit, agenda, sched, procVars, bounds>>

HandleEndOldInstance(j) ==
    /\ NextCommand(END(j))
    /\ starts[j] # None
    /\ wake' = [wake EXCEPT ![j] = NextWakeup(j, mem[j], starts[j], clock)]
    /\ starts' = [starts EXCEPT ![j] = None]
    /\ waiting' = j
    /\ ReadAtEnd(j)
    /\ UNCHANGED <<clock, conf, ack, edit, agenda, mem, sched, procVars, bounds>>

HandleEndNoWait(j) ==
    /\ NextCommand(END(j))
    /\ starts[j] # None
    /\ mem' = [mem EXCEPT ![j] = conf[j]]
    /\ wake' = [wake EXCEPT ![j] = NextWakeup(j, conf[j], starts[j], clock)]
    /\ starts' = [starts EXCEPT ![j] = None]
    /\ ReadAtEnd(j)
    /\ UNCHANGED <<clock, conf, ack, edit, agenda, sched, waiting, procVars, bounds>>

\* The row is read again, but the next date follows the one of the run which
\* ends. An END which nobody expects (a former scheduler started the job) is
\* ignored. _end_job() waits for the process this scheduler has spawned.
HandleEnd(j) ==
    /\ NextCommand(END(j))
    /\ \/ /\ starts[j] = None
          /\ UNCHANGED <<adding, heapVars, waiting, history>>
       \/ /\ starts[j] # None
          /\ mem' = [mem EXCEPT ![j] = conf[j]]
          /\ wake' = [wake EXCEPT ![j] = NextWakeup(j, conf[j], starts[j], clock)]
          /\ starts' = [starts EXCEPT ![j] = None]
          /\ waiting' = j
          /\ ReadAtEnd(j)
    /\ UNCHANGED <<clock, conf, ack, edit, agenda, sched, procVars, bounds>>

WaitReturns ==
    /\ waiting # None
    /\ proc[waiting] = "none"
    /\ waiting' = None
    /\ UNCHANGED <<clock, dbVars, queue, sched, loop, heapVars, procVars, history, bounds>>

-----------------------------------------------------------------------------
(* The processes of the jobs.                                              *)

\* The data which are due are handled.
Handle(j, due) ==
    /\ agenda' = [agenda EXCEPT ![j] = @ \ due]
    /\ late' = [late EXCEPT ![j] = @ \ due]

DueData(j) == {d \in agenda[j] \cup late[j] : d <= clock}

\* The job handles what is due in its data, then sends END, and nobody knows it
\* when the push is refused.
EndRun(j) ==
    /\ proc[j] = "run"
    /\ Handle(j, DueData(j))
    /\ \/ Push(END(j)) /\ UNCHANGED gone
       \/ Refuse /\ gone' = gone \cup {j}
    /\ proc' = [proc EXCEPT ![j] = "none"]
    /\ UNCHANGED <<clock, conf, ack, edit, adding, schedVars, heapVars, orphan, raced, missed,
                   edits, items, stops>>

EndOrphan(j) ==
    /\ j \in orphan
    /\ Handle(j, DueData(j))
    /\ Push(END(j)) \/ Refuse
    /\ orphan' = orphan \ {j}
    /\ UNCHANGED <<clock, conf, ack, edit, adding, schedVars, heapVars, proc, gone, raced, missed,
                   edits, items, stops>>

\* A process dies in the middle of its work, in a way Python cannot catch. The
\* scheduler does not poll its children: it goes on waiting for the END.
Kill(j) ==
    /\ \E due \in SUBSET DueData(j) : Handle(j, due)
    /\ \/ /\ proc[j] = "run"
          /\ proc' = [proc EXCEPT ![j] = "none"]
          /\ gone' = gone \cup {j}
          /\ UNCHANGED orphan
       \/ /\ j \in orphan
          /\ orphan' = orphan \ {j}
          /\ UNCHANGED <<proc, gone>>
    /\ UNCHANGED <<clock, conf, ack, edit, adding, queue, schedVars, heapVars, raced, missed, bounds>>

\* Time passes while the scheduler has nothing to do, waits or is stopped.
Tick ==
    /\ clock < Horizon
    /\ sched = "down" \/ (sched = "up" /\ waiting # None)
       \/ (Ready /\ loop = "blocked" /\ queue = <<>> /\ \A j \in Jobs : ~Due(j))
    /\ clock' = clock + 1
    /\ UNCHANGED <<dbVars, queue, schedVars, heapVars, procVars, history, bounds>>

Next ==
    \/ \E j \in Jobs : \E c \in Confs(j) : EditJob(j, c) \/ HandleRefresh(j, c)
    \/ \E j \in Jobs : \E d \in Delays : AddItem(j, d)
    \/ CommitEdit \/ RollbackEdit \/ SendItem \/ CommitItem \/ RollbackItem
    \/ \E j \in Jobs : PollJob(j) \/ RunJob(j) \/ HandleEnd(j) \/ EndRun(j) \/ EndOrphan(j)
    \/ \E j \in Jobs : Kill(j)
    \/ SchedClear \/ RetrieveJobs \/ SchedStop
    \/ Block \/ Timeout \/ WaitReturns \/ Tick

Spec == Init /\ [][Next]_vars

-----------------------------------------------------------------------------
(* Properties.                                                             *)

\* What the scheduler knows of its jobs, behind the properties below: it keeps
\* each one in the heap or among the starts, never in both; only what it has
\* spawned runs, and is waited for, when it is up; a start is not in the future.
HeapInv ==
    /\ sched # "up" => waiting = None /\ \A j \in Jobs : starts[j] = None /\ proc[j] = "none"
    /\ \A j \in Jobs : sched = "up" => (starts[j] = None <=> wake[j] # None)
    /\ \A j \in Jobs : proc[j] = "run" /\ waiting # j => starts[j] # None
    /\ \A j \in Jobs : starts[j] # None => starts[j] <= clock + Early

\* The scheduler loses track of a job only when the process it has spawned for it
\* dies without END, or when this END is refused; else the job is in the heap, or
\* its process runs, or its END is on its way. Refused REFRESHs, lost processes of
\* a former scheduler, and what happened in an earlier start are no excuse.
NeverForgotten == \A j \in Jobs : sched = "up" =>
    \/ wake[j] # None
    \/ /\ starts[j] # None
       /\ \/ proc[j] = "run"
          \/ \E i \in 1..Len(queue) : queue[i] = END(j)
          \/ j \in gone

\* A job is not started while the process this scheduler spawned still runs,
\* even if ENDs of a former scheduler's processes are received meanwhile.
NoOverlap == [][\A j \in Jobs : proc[j] = "run" /\ starts[j] # starts'[j] => starts'[j] = None]_vars

\* At rest, the instance in the heap has the values of its row, unless the row
\* was read or refreshed while one of its editions was open, or rolled back, or
\* the errors which told that a REFRESH was refused have been forgotten.
MemoryFollowsRows == \A j \in Jobs :
    sched = "up" /\ wake[j] # None /\ ~IsEdited(j) /\ ~Queued(j) /\ ack[j] = 0
        => mem[j] = conf[j] \/ j \in raced \cup missed

\* _handle_command_refresh(): a REFRESH is ignored while the job runs, because
\* "the new waking up is computed at the end of its execution".
RefreshNotLost == \A j \in Jobs :
    sched = "up" /\ wake[j] # None /\ ~IsEdited(j) /\ ~Queued(j) /\ ack[j] = 0
        => mem[j] = conf[j] \/ j \in raced

\* Data which were committed in time are handled at their date, or within the
\* security delay; the pseudo-periodic job does not wait for its period.
AgendaServed == \A j \in Pseudo : \A d \in agenda[j] \ late[j] :
    sched = "up" /\ wake[j] # None /\ mem[j].enabled /\ ~Queued(j)
        => wake[j] <= d \/ wake[j] <= clock + Secure

\* What makes it true: data whose REFRESH was handled before their commit make
\* the job run within the delay too.
ItemServed ==
    adding # NoItem /\ adding.sent /\ ~adding.late =>
        LET j == adding.job
        IN  sched = "up" /\ wake[j] # None /\ mem[j].enabled /\ ~Queued(j)
                => wake[j] <= clock + Secure

AgendaInv == AgendaServed /\ ItemServed

\* settings.PSEUDO_PERIOD: even if a REFRESH is lost, the next run of a job which
\* is in the heap is not further than one period (or than its first date).
RunsEveryPeriod == \A j \in Jobs :
    sched = "up" /\ wake[j] # None /\ mem[j].enabled
        => wake[j] <= clock + mem[j].period \/ wake[j] <= mem[j].ref
=============================================================================
