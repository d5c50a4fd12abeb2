------------------------------ MODULE Reminders ------------------------------
(***************************************************************************)
(* The job which notifies users of their alerts and todos: the dates it    *)
(* gives to the scheduler, and the process which reads the rows, then      *)
(* notifies and saves them one by one while users edit them.               *)
(*                                                                         *)
(* It is one of the pseudo-periodic jobs of SystemJobs, where its commands *)
(* and transactions are; here a command is handled when it is sent, and    *)
(* the security delay of REFRESH (30 seconds) is less than a tick. A todo  *)
(* without deadline is never read by the job, and is left out. The job is  *)
(* enabled.                                                                *)
(***************************************************************************)
EXTENDS Integers, FiniteSets

CONSTANTS
    Todos, Alerts,
    Dates,       \* deadlines of todos and trigger dates of alerts
    Day,         \* TODO_REMINDER_DAYS_BEFORE (one day), in ticks
    AlertDelta,  \* settings.DEFAULT_TIME_ALERT_REMIND
    HourLen,     \* an hour, in ticks
    MinHour,     \* todo_reminder_key: no todo is reminded before this hour;
                 \* the tick of the day at which it begins
    Period,      \* settings.PSEUDO_PERIOD
    Procs,       \* bound: process identifiers
    None,
    Horizon, MaxEdits, MaxStops, MaxKills   \* bounds

Items == Todos \cup Alerts

ASSUME RemindersAssumption ==
    /\ Todos \cap Alerts = {} /\ IsFiniteSet(Items) /\ IsFiniteSet(Procs)
    /\ Dates \subseteq Nat
    /\ Day \in Nat \ {0} /\ AlertDelta \in Nat /\ Period \in Nat \ {0}
    /\ HourLen \in Nat \ {0} /\ Day % HourLen = 0
    /\ MinHour \in Nat /\ MinHour % HourLen = 0 /\ MinHour + HourLen <= Day
    /\ None \notin Int /\ None \notin Procs
    /\ Horizon \in Nat /\ MaxEdits \in Nat /\ MaxStops \in Nat /\ MaxKills \in Nat

VARIABLES
    clock,
    item,     \* rows of ToDo and Alert
    sent,     \* number of notifications sent for each item
    up,       \* the scheduler runs
    wake,     \* date of the job in the heap of the scheduler, None while it runs
    current,  \* the process which the scheduler has spawned for the job
    started,  \* the date it was spawned for
    waiting,  \* the process _end_job() waits for
    proc,     \* processes of the job, with the instances they have read
    edits, stops, kills   \* counters of the bounds

schedVars == <<up, wake, current, started, waiting>>
bounds    == <<edits, stops, kills>>
vars      == <<clock, item, sent, schedVars, proc, bounds>>

NoRow   == [date |-> None]
Rows    == [date : Dates, done : BOOLEAN, reminded : BOOLEAN]
Batches == UNION {[S -> Rows] : S \in SUBSET Items}
Empty   == [i \in {} |-> NoRow]
Dead    == [at |-> "none", batch |-> Empty]
Stages  == {"fetch alerts", "send alerts", "fetch todos", "send todos", "end"}

TypeOK ==
    /\ clock \in Nat
    /\ item \in [Items -> Rows \cup {NoRow}]
    /\ sent \in [Items -> Nat]
    /\ up \in BOOLEAN
    /\ wake \in Int \cup {None}
    /\ current \in Procs \cup {None}
    /\ up => (wake = None <=> current # None)
    /\ started \in Int \cup {None}
    /\ waiting \in Procs \cup {None}
    /\ proc \in [Procs -> [at : Stages, batch : Batches] \cup {Dead}]
    /\ edits \in Nat /\ stops \in Nat /\ kills \in Nat

-----------------------------------------------------------------------------
(* Dates.                                                                  *)

TimeOfDay(date)    == date % Day
\* replace(hour=hour): the minutes and the seconds are kept.
AtHour(date, hour) == date - TimeOfDay(date) + hour + (TimeOfDay(date) % HourLen)
Smallest(S)   == CHOOSE d \in S : \A e \in S : d <= e
Largest(a, b) == IF a >= b THEN a ELSE b

\* to_be_reminded: the rows which next_wakeup() looks for.
ToRemind(rows, S) == {i \in S : rows[i] # NoRow /\ ~rows[i].done /\ ~rows[i].reminded}

AlertWakeup(rows) ==
    LET dates == {rows[i].date : i \in ToRemind(rows, Alerts)}
    IN  IF dates = {} THEN {} ELSE {Smallest(dates) - AlertDelta}

\* Only a date whose own hour is too early is moved to the minimum hour.
TodoWakeup(rows, now) ==
    LET dates  == {rows[i].date : i \in ToRemind(rows, Todos)}
        wakeup == Smallest(dates) - Day
    IN  IF dates = {} THEN {}
        ELSE IF TimeOfDay(wakeup) < MinHour THEN {AtHour(Largest(wakeup, now), MinHour)}
        ELSE {wakeup}

\* The first date of the period after now.
PeriodDate(date, now) == IF date > now THEN date
                         ELSE date + Period * ((now - date) \div Period + 1)

\* Mutants: the period is forgotten; the data are forgotten.
NextWakeupNoPeriod(rows, date, now) ==
    LET dates == AlertWakeup(rows) \cup TodoWakeup(rows, now)
    IN  IF dates = {} THEN None ELSE Smallest(dates)

NextWakeupNoData(rows, date, now) == PeriodDate(date, now)

NextWakeup(rows, date, now) ==
    Smallest({PeriodDate(date, now)} \cup AlertWakeup(rows) \cup TodoWakeup(rows, now))

Init ==
    /\ clock = 0
    /\ item = [i \in Items |-> NoRow]
    /\ sent = [i \in Items |-> 0]
    /\ up = TRUE
    /\ wake = NextWakeup(item, 0, 0)
    /\ current = None /\ started = None /\ waiting = None
    /\ proc = [p \in Procs |-> Dead]
    /\ edits = 0 /\ stops = 0 /\ kills = 0

-----------------------------------------------------------------------------
(* The views.                                                              *)

\* Mutant: a job which has a date is not brought forward.
RefreshNever(row) == UNCHANGED schedVars

\* post_save: the job is refreshed, hence run soon, unless it runs already.
Refresh(row) ==
    /\ wake' = IF up /\ current = None /\ ~row.done /\ ~row.reminded THEN clock ELSE wake
    /\ UNCHANGED <<up, current, started, waiting>>

Save(i, row) ==
    /\ item' = [item EXCEPT ![i] = row]
    /\ Refresh(row)
    /\ UNCHANGED <<clock, sent, proc, stops, kills>>

Create(i, date) ==
    /\ item[i] = NoRow /\ sent[i] = 0
    /\ Save(i, [date |-> date, done |-> FALSE, reminded |-> FALSE])
    /\ UNCHANGED edits

Edited(i) == item[i] # NoRow /\ edits < MaxEdits /\ edits' = edits + 1

\* The views read the row under a lock; the date alone is edited.
Edit(i, date) == Edited(i) /\ Save(i, [item[i] EXCEPT !.date = date])

Validate(i) == Edited(i) /\ Save(i, [item[i] EXCEPT !.done = TRUE])

Delete(i) ==
    /\ Edited(i)
    /\ item' = [item EXCEPT ![i] = NoRow]
    /\ UNCHANGED <<clock, sent, schedVars, proc, stops, kills>>

-----------------------------------------------------------------------------
(* The scheduler: see SystemJobs.                                          *)

Blocked == waiting # None /\ proc[waiting] # Dead

IsDue   == up /\ current = None /\ ~Blocked /\ wake <= clock

RunJob(p) ==
    /\ IsDue
    /\ proc[p] = Dead
    /\ proc' = [proc EXCEPT ![p] = [at |-> "fetch alerts", batch |-> Empty]]
    /\ current' = p /\ started' = wake /\ wake' = None
    /\ waiting' = None
    /\ UNCHANGED <<clock, item, sent, up, bounds>>

SchedStop ==
    /\ up
    /\ stops < MaxStops /\ stops' = stops + 1
    /\ up' = FALSE /\ wake' = None /\ current' = None /\ started' = None
    /\ waiting' = None
    /\ UNCHANGED <<clock, item, sent, proc, edits, kills>>

SchedStart ==
    /\ ~up /\ up' = TRUE
    /\ wake' = NextWakeup(item, 0, clock)
    /\ UNCHANGED <<clock, item, sent, current, started, waiting, proc, bounds>>

-----------------------------------------------------------------------------
(* A process: _ReminderType._execute() runs each Reminder.execute().       *)

At(p, stage)          == proc[p].at = stage
GoTo(p, stage, batch) == proc' = [proc EXCEPT ![p] = [at |-> stage, batch |-> batch]]
Sending(p)            == At(p, "send alerts") \/ At(p, "send todos")

\* Mutant: exclude(reminded=True) is forgotten.
RemindableAgain(i) ==
    /\ item[i] # NoRow /\ ~item[i].done
    /\ item[i].date <= clock + (IF i \in Todos THEN Day ELSE AlertDelta)

\* get_Q_filter()
Remindable(i) ==
    /\ i \in ToRemind(item, Items)
    /\ item[i].date <= clock + (IF i \in Todos THEN Day ELSE AlertDelta)

Batch(S) == [i \in {j \in S : Remindable(j)} |-> item[i]]

FetchAlerts(p) ==
    /\ At(p, "fetch alerts")
    /\ GoTo(p, "send alerts", Batch(Alerts))
    /\ UNCHANGED <<clock, item, sent, schedVars, bounds>>

\* ok_for_continue()
HourIsOk == TimeOfDay(clock) >= MinHour

FetchTodos(p) ==
    /\ At(p, "fetch todos")
    /\ IF HourIsOk THEN GoTo(p, "send todos", Batch(Todos))
                   ELSE GoTo(p, "end", Empty)
    /\ UNCHANGED <<clock, item, sent, schedVars, bounds>>

\* Mutant: the instance is notified, but not saved.
RemindOnly(p, i) ==
    /\ Sending(p)
    /\ i \in DOMAIN proc[p].batch
    /\ sent' = [sent EXCEPT ![i] = @ + 1]
    /\ proc' = [proc EXCEPT ![p].batch = [j \in DOMAIN @ \ {i} |-> @[j]]]
    /\ UNCHANGED <<clock, item, schedVars, bounds>>

\* The notification and save() are in a transaction. save() writes all the
\* fields of the instance which was fetched: it undoes the edits made since,
\* and inserts again a row which has been deleted.
Remind(p, i) ==
    /\ Sending(p)
    /\ i \in DOMAIN proc[p].batch
    /\ sent' = [sent EXCEPT ![i] = @ + 1]
    /\ item' = [item EXCEPT ![i] = [proc[p].batch[i] EXCEPT !.reminded = TRUE]]
    /\ proc' = [proc EXCEPT ![p].batch = [j \in DOMAIN @ \ {i} |-> @[j]]]
    /\ UNCHANGED <<clock, schedVars, bounds>>

NextReminder(p) ==
    /\ proc[p].batch = Empty
    /\ \/ At(p, "send alerts") /\ GoTo(p, "fetch todos", Empty)
       \/ At(p, "send todos") /\ GoTo(p, "end", Empty)
    /\ UNCHANGED <<clock, item, sent, schedVars, bounds>>

\* END is only taken into account for a job which was started; when it comes
\* from a process of a former scheduler, it is the other process which is waited.
End(p) ==
    /\ At(p, "end")
    /\ proc' = [proc EXCEPT ![p] = Dead]
    /\ \/ /\ current = None
          /\ UNCHANGED schedVars
       \/ /\ current # None
          /\ wake' = NextWakeup(item, started, clock)
          /\ current' = None /\ started' = None
          /\ waiting' = current
          /\ UNCHANGED up
    /\ UNCHANGED <<clock, item, sent, bounds>>

Kill(p) ==
    /\ proc[p] # Dead
    /\ kills < MaxKills /\ kills' = kills + 1
    /\ proc' = [proc EXCEPT ![p] = Dead]
    /\ UNCHANGED <<clock, item, sent, schedVars, edits, stops>>

\* A job which is due is started before time passes; its process takes time.
Tick ==
    /\ clock < Horizon
    /\ ~IsDue
    /\ clock' = clock + 1
    /\ UNCHANGED <<item, sent, schedVars, proc, bounds>>

Next ==
    \/ \E i \in Items : \E d \in Dates : Create(i, d) \/ Edit(i, d)
    \/ \E i \in Items : Validate(i) \/ Delete(i)
    \/ SchedStop \/ SchedStart
    \/ \E p \in Procs :
          \/ RunJob(p) \/ FetchAlerts(p) \/ FetchTodos(p)
          \/ \E i \in Items : Remind(p, i)
          \/ NextReminder(p) \/ End(p) \/ Kill(p)
    \/ Tick

Spec == Init /\ [][Next]_vars

-----------------------------------------------------------------------------
(* Properties.                                                             *)

\* An item is notified once, however the users edit it while the process runs;
\* and once more for each scheduler whose process has outlived it.
NotifiedOnce == \A i \in Items : sent[i] <= 1 + stops

\* What makes it true. A row which is not reminded has never been sent; at most
\* one process lives for the scheduler which runs, and one for each former one;
\* and the processes which hold an instance have not sent it yet.
Holders(i) == {p \in Procs : i \in DOMAIN proc[p].batch}
Alive      == {p \in Procs : proc[p] # Dead}
Mine       == IF current # None THEN current ELSE waiting

Unsent   == \A i \in Items : item[i] # NoRow /\ ~item[i].reminded => sent[i] = 0
FewAlive == Cardinality(Alive \ {Mine}) <= stops
FewHeld  == \A i \in Items : sent[i] + Cardinality(Holders(i)) <= 1 + stops
OnceInv  == Unsent /\ FewAlive /\ FewHeld

\* While the job sleeps there is nothing to remind, although the rows which
\* were edited during its last run have been refreshed in vain; but in the first
\* hour at which todos are reminded (the date moved to this hour keeps its
\* minutes), a todo may wait, until the end of this hour at the latest.
InMinHour(t)  == TimeOfDay(t) \in MinHour..(MinHour + HourLen - 1)
MinHourEnd(t) == t - TimeOfDay(t) + MinHour + HourLen
SoonEnough(i, date, t) ==
    \/ date <= t
    \/ i \in Todos /\ InMinHour(t) /\ date < MinHourEnd(t)

NothingDueAsleep ==
    up /\ current = None /\ wake > clock
        => \A i \in Items : Remindable(i) /\ (i \in Todos => HourIsOk)
              => i \in Todos /\ InMinHour(clock) /\ wake < MinHourEnd(clock)

\* What makes it true: at any time, present or future, at which a row will have
\* to be reminded, the date of the job is soon enough.
DueAt(i, t) ==
    /\ i \in ToRemind(item, Items)
    /\ item[i].date <= t + (IF i \in Todos THEN Day ELSE AlertDelta)
    /\ i \in Todos => TimeOfDay(t) >= MinHour

InTimeInv ==
    /\ clock <= Horizon
    /\ up /\ current = None
          => \A i \in Items : \A t \in clock..Horizon : DueAt(i, t) => SoonEnough(i, wake, t)

\* core/reminder.py: next_wakeup() is "the next time when the job manager should
\* wake up in order to send": when the job ends, it is not started again at once
\* unless there is something to send.
WakesToSend == [][current # None /\ up' /\ current' = None =>
    wake' > clock \/ \E i \in Items : Remindable(i) /\ (i \in Todos => HourIsOk)]_vars
=============================================================================
