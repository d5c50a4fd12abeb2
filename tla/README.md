# A formal model of Creme CRM

Creme is a Django application. Most of it answers one HTTP request at a time
inside one database transaction; what is hard is what happens *between*
requests and processes:

* the job subsystem: web processes, a Redis list, a scheduler process, and one
  sub-process for each job being executed, which may be killed and resumed;
* the rows which several transactions update together, like the counter of the
  numbers of billing documents;
* the pages opened in a browser: their queries cross, fail, or are answered
  when what they were about has been replaced or closed.

This directory models them in TLA+, checks them with TLC on small instances, and
proves with TLAPS, for every value of the constants, the invariants which
protect the jobs, the reminders, the documents and the pages of the users.

    tlc -config UserJobs_safety.cfg MCUserJobs.tla     # one run
    tlapm UserJobs_proofs.tla                          # the proofs of a module

Paths below are relative to `src/creme/creme_core/` unless they begin with `src/`.

## 1. Inventory

### The parts of the job subsystem

| part | state | operations | talks to |
|---|---|---|---|
| job rows (`models/job.py`) | `status`, `enabled`, `reference_run`, `periodicity`, `ack_errors`; the only durable state | `save()`, `refresh()`, `update()`, `forget_ack_errors()` | pushes START / REFRESH from inside the transaction |
| views (`views/job.py`, `views/mass_import.py`, `views/batch_process.py`) | what a request has read | check the quota, create, edit, enable, clear, poll | rows, broker |
| broker (`core/job/queue/redis.py`) | the list `creme_jobs`, the pong keys | `lpush`, blocking `brpop`, `delete` | everybody |
| scheduler (`core/job/scheduler.py`) | `_users_jobs`, `_running_userjob_ids`, the heap `_system_jobs`, `_system_jobs_starts`, `_procs`; all lost when it stops | handlers of START, END, REFRESH, PING; start-up; main loop | broker, rows, processes |
| processes (`core/job/registry.py`, `creme_jobs/base.py`) | where they are | load the row, execute, save the result, push END | rows, broker |
| reminders (`core/reminder.py`, `src/creme/assistants/`) | rows of alerts and todos | give a date, read, notify and save | rows; called by the scheduler (date) and by a process (execution) |

What makes it hard:

* commands are sent before the commit they are about, and may be handled
  before it, after it, or when it is rolled back;
* a command may be refused by the broker; START is then sent again by the pages
  which poll, REFRESH is counted but not sent again, END is not protected;
* the scheduler may stop at any time while processes go on and transactions are open;
* rows, memory of the scheduler and processes read and write the same facts at
  different times.

What makes it correct: a waiting job is always held by something which will run
it; a job is run once; the pool is counted right; the scheduler follows the
rows of the system jobs, never loses one and runs it in time; a user is
notified once, and as soon as there is something to say.

### Long jobs and numbers

| part | state | operations | talks to |
|---|---|---|---|
| mass import (`creme_jobs/mass_import.py`, `forms/mass_import.py`) | a result per line of the file, the status of the job | import a line and its result in a transaction; resume after as many lines as there are results | scheduler (restarts), rows |
| batch process (`creme_jobs/batch_process.py`, `core/paginator.py`) | a result per entity | load a page of entities, lock and change each one with its result; resume without those which have a result | scheduler, rows, users who use the trash |
| number generation (`src/creme/billing/`) | the counter of an organisation (a row), the copies of the caches | lock and use it (button); use a cached copy and write it (creation) | rows |

Hard: a process dies between two transactions and another one must go on where
it was; pages are read while the query changes; a copy is written over a row
which was used since. Correct: no line or entity is missed nor treated twice,
two documents never have the same number.

### The browser

| part (`static/creme_core/js/`) | state | operations | talks to |
|---|---|---|---|
| bricks (`bricks.js`, `bricks-action.js`) | elements of the page, loading states | POST of an action, reload of a brick with those which share its dependencies, change of page | views; other bricks |
| form dialogs (`widgets/dialog/form.js`, `frame.js`, `dialog.js`) | dialog, frame, buttons, listeners | open, fetch, submit (button or key), close | views; the action which opened it |
| search box (`search.js`) | debounce, timestamp, label, items | type, search, leave | view of the quick search |
| notification box (`notification.js`, `views/notification.py`) | counter, items, timer | poll, discard | views; other tabs |
| jobs monitor (`jobs.js`, `views/job.py`) | displayed statuses | fetch again until all is finished | view of the jobs, which sends START again |

Hard: nothing is cancelled, almost nothing is numbered, elements are replaced
while queries about them are in flight. Correct: what is displayed is what the
server has, now or as soon as the answers have come; a loading state ends; the
outcome of a dialog is that of the form; a page does not announce an end which
has not come.

### The rest of the repository

`PROJECT.json` lists every component. Planned (§7): trash cleaner and deletor,
workflow engine, named locks, recurrent generators, campaign e-mails. Not
planned: entities, credentials, filters, menus, configuration and business
applications: they are data models, SQL queries and rendering, without a
protocol between two actors. Most of the JavaScript lines of the repository are
vendored libraries (TinyMCE, jQuery, FullCalendar, select2, moment ...), which
are not modelled: only a small share of all the JavaScript lines is.

## 2. Modules

| module | role |
|---|---|
| `UserJobs.tla` | user jobs: views, broker, scheduler, processes |
| `JobLifecycle.tla` | abstract specification: what a user is promised about a job |
| `SystemJobs.tla` | periodic and pseudo-periodic jobs: heap of dates, REFRESH, END |
| `Reminders.tla` | one pseudo-periodic job in detail: alerts and todos |
| `MassImport.tla`, `BatchProcess.tla` | jobs which are killed and resumed |
| `NumberGeneration.tla` | the numbers of billing documents |
| `BrickPage.tla` | the bricks of a page, their actions and reloads |
| `FormDialog.tla` | a form in a dialog, and the action which opens it |
| `FormOutcome.tla` | abstract specification: what the opener of a dialog is promised |
| `SearchBox.tla`, `NotificationBox.tla`, `JobsMonitor.tla` | the other parts of a page which talk to the server |
| `*_proofs.tla` | theorems about the module of the same name; `Page_proofs.tla`: about the modules of a page; `Components_proofs.tla`: about the components side by side |
| `MC*.tla`, `*.cfg` | instances for TLC |

Each of these modules defines, just before an operation, the mutated forms
of it (comments beginning with *Mutant*): bugs which a change of the code could
plausibly introduce, and which the properties must catch. They are not part of
the specifications.

### UserJobs

One action per step which another actor can observe.

* A view is `CheckQuota`, then `SaveJob` (START pushed while the row is not
  visible), then `Commit` or `Rollback`. `ClearJob` is `JobDeletion`.
  A page which polls is `PollRead` (PING answered, row read) then `PollSend`.
* The start-up is `SchedClear` (`queue.clear()`) then `RetrieveJobs`. A handler
  pops its command and runs in one step: between the two the scheduler touches
  nothing which others read. `deferred` counts the `_DeferredJob` of each job
  by number of trials; the dates at which they wake up are left out
  (`WakeDeferred` may happen at any time).
* `StartJob` spawns a process; the pool is filled before a command is popped
  (`NextCommand` needs `~CanStart`), as in the main loop. `_end_job()` blocks
  the scheduler (`waiting`) until the process dies.
* A process is `Load`, `MarkWait`, `Finish`, `SendEnd`; `Kill` is the operating system.
* `dropped` is a history variable: the jobs whose START was thrown away before
  their row was committed (start-up, last trial), and those whose process was killed.

`JobLifecycle` says: a new job waits, starts when there is a place in the pool,
ends, and is cleared; or it is lost. The refinement mapping (`Status`) derives
this from rows, processes and `dropped`.

### SystemJobs

The clock is a number of ticks. A heap entry is `wake[j]` (date) and `mem[j]`
(the values of the instance in the heap). `EditJob` / `CommitEdit` /
`RollbackEdit` are the views which lock the row and call `Job.save()`;
`AddItem` / `SendItem` / `CommitItem` are the transactions which add data to a
pseudo-periodic job and call `refresh_job()`, whose REFRESH carries the values
of the row as committed. `agenda[j]` abstracts what `JobType.next_wakeup()`
reads. The main loop is `RunJob` while the first job is due, then `Block`, then
`Timeout` or a command. A process handles the data which are due and ends in
`EndRun`, or dies without END in the middle of its work (`Kill`): the scheduler does
not poll its children, and waits for this END until it is restarted. `gone` is a
history variable: the jobs whose process died so, or whose END was refused.
Processes of a former scheduler are `orphan`: their END arrives and must do no
harm. `raced`, `missed` and `late` are history variables
which say which transactions were open when the scheduler read the database.

### Reminders

The same job seen from its data: which date `next_wakeup()` gives for alerts
and todos, what the process reads, and that `Remind` sends the notification and
saves the whole instance it read (so it undoes what users did meanwhile). A day
is made of hours of `HourLen` ticks: a date which is moved to the minimum hour
keeps its minutes (`AtHour`), so that a todo which may be reminded since the
beginning of this hour can wait until its end (`SoonEnough`). Its
scheduler is a reduced `SystemJobs`: commands are handled when they are sent.

### MassImport and BatchProcess

A process is its position: the next line of the file, or what is left of a page
and the id of the first entity of the next one. `StartImport` and `StartBatch`
are what `_execute()` reads before its loop (the number of results, the set of
entities which have one); each other step is one transaction. `importTwins` and
`batchTwins` remember that two processes executed the job at once, which
`OneShot` of `UserJobs` says may happen. `Treat` takes the entities of a page by
increasing id, and may find each of them already processed, deleted, invalid or
unchanged. What is extracted from the cells of a line is abstract, and so are
the errors: a line has a result whether it was imported or not.

### NumberGeneration

The row of the counter is `item` (its period is the year or the month of its
last use, according to the reset). `tx` is the transaction which holds the row:
`LockItem` is the view of the button (it locks, then reads), `SaveItem` is the
signal which numbers a document when it is created (it writes the copy which
`LoadItem` read for the request, or for the job). `overwritten` remembers that a
copy older than the row was written over it.

### BrickPage

`version` counts the changes of each model on the server, `shown` is what the
present element of each brick displays. A POST is `StartAction`, `ServeAction`,
then `ActionDone` (which refreshes the brick, when its element is still in the
page: `IsBound`) or `ActionFail`; a reload is `StartReload` (from an action or
from a pager), `ServeReload`, `ReloadDone` or `ReloadFail`. `gen` counts the
replacements of the element. A brick of `ReadOnly`, or without dependencies, is
reloaded alone (`Collected`), and its actions change nothing of its models
(`Changeable`). `lost` remembers the bricks whose reload was lost:
a query failed, a late answer replaced a newer one, or the refresh of an action
was ignored because its element was replaced.

### FormDialog

`Submit` is the common part of `ClickSend` (a button which may be disabled) and
`PressEnter` (which triggers the click handlers in any case). `bound` counts the
listeners which `EventHandler.one()` has bound: the first answer calls them all.
`taken` remembers that a form came back with errors while another POST was in
flight: it unbinds the listener of this one too. Failures (`fails`) and lost
answers (`cuts`) are counted apart. `FormOutcome` says: the dialog
is opened, ends once, and is "done" only when the server has accepted a form.

### SearchBox, NotificationBox, JobsMonitor

Queries of `SearchBox` are numbered in the order of their timestamps; `gaveUp`
remembers that the user has left, or that a query has failed, since the last
one. In `NotificationBox` a fetch and a POST are each a record of what is to be
answered (`MaxRequests` bounds those in flight); the view which discards reads the
row, then saves it. `JobsMonitor` is
the page, the view `JobsInformation` and a much reduced job manager (the whole one
is `UserJobs`, where pages are reduced to their polls).

### MCComponents

TLC explores these eight components with one instance which is their sum: `part`
names the component a behaviour is about, the variables of the others do not
change. They share nothing, so that nothing is lost, and the fairness of each
component is stated for its own behaviours: `Progress` gathers the conditions
which concern one action of a component, since in a behaviour of one part the
actions of the others are never enabled.

## 3. Runs

| run | question | bounds |
|---|---|---|
| `user_safety` | types, no job lost silently (`LossInv`, `NoSilentLoss`), pool counted right, nothing listed twice | 2 jobs, pool of one, 1 restart, 1 refused push, 1 killed process, 2 pages |
| `user_live` | each job runs once; `JobLifecycle` is implemented; its places are given (`PlacesAreGiven`) | 3 jobs, pool of two, 1 page, 1 refused push, 1 killed process, no restart |
| `user_live_restart` | a waiting job ends, through a restart | 2 jobs, pool of one |
| `system_periodic` | a periodic job is only forgotten when its process dies without END or its END is refused, is never started twice at once, follows its row; the invariant `HeapInv` behind them | 1 job, 2 editions, 1 refused push, 1 restart, any process which dies, 8 dates, jobs started one tick early |
| `system_pseudo` | data are handled at their date or 30 seconds late (`AgendaInv`, `AgendaServed`); one run per period even after a refused push | 1 job, 1 datum, 1 edition, 1 refused push, 1 restart, 7 dates |
| `reminders_safety` | one notification per item and scheduler; nothing to remind while the job sleeps, but a todo within the minimum hour; the inductive invariants of both | 1 todo, 1 alert, 1 edit, 1 restart, 1 killed process, a day and a half, days of 3 hours of 2 ticks, a deadline on the hour and one within it, a period of an hour |
| `components` | the properties of the table below | in `Components.cfg` |
| `user_one_shot`, `user_slot_leak`, `system_refresh_lost`, `reminders_spin`, `numbers_unique` | violations, §4 | |

| property of `components` | says | bounds of its part |
|---|---|---|
| `NoStaleBrick` | what a brick does not display yet is on its way, unless a reload was lost | 3 bricks (two of a model, one of which is read only, one of both models), 2 actions, 1 change of page, 1 failure |
| `LoadingHasCause`, `LoadingEnds` | a loading state is waited for by a query, and ends | the same; one brick is asynchronous |
| `SavedIsReported`, `FormUsable`, `ImplementsFormOutcome` | a saved form whose answer is not lost is reported, unless another form came back with errors meanwhile; an opened dialog can be sent; the outcome is that of the form | 3 POSTs, 1 request which fails or whose answer is lost |
| `ResultsOfLastQuery`, `TextIsAnswered` | results are those of the last query; the box catches up with the text | 3 texts, 1 failure, 1 leave |
| `RemovedIsDiscarded`, `BoxCatchesUp` | an item disappears when the server has discarded it; the box ends up as the server | 2 notifications, 1 displayed, 2 fetches in flight, 3 requests in flight, 2 discards here (of one item, or of two) and any elsewhere, 1 failure |
| `FinishedIsTrue`, `WatchedJobsEnd` | "finished" is true, and comes | 2 jobs, one whose START was refused, 1 outage, 1 failure |
| `DistinctUnlessOverwritten` | a number is not given twice unless a copy was written over the row | 3 requests of the button, two of them for one invoice, a creator of 2 documents, 2 periods, 1 rollback |
| `NoLineMissed`, `RepeatedForBlanks` | no line is missed; a line is repeated for the blank lines before it at most | 5 lines of which 2 blank, 2 processes, 3 kills |
| `AppliedOnce`, `NoneLeftOut` | an entity is changed once; all those which were never in the trash are treated | 3 entities, pages of 2, 2 kills, 1 entity moved to the trash |
| `ComponentsTypeOK` | every component keeps to its types | |

Why the bounds are enough: two jobs with a pool of one are needed for a job to
wait for another; three jobs and a pool of two for the off-by-one of the pool; two
trials of a deferred job distinguish the first, a middle and the last one (`t <
TrialsLimit`, `t >= TrialsLimit`); one restart puts processes, commands and
transactions of the former scheduler in front of the new one; two pages make two
polls cross. In `SystemJobs` the horizon is more than two periods of the periodic
job (7 and 3), so late jobs skip a period; in `system_pseudo` it is one period and
a half (6 and 4), since the data make the job run between its dates. `Secure` and
`Early` are shorter than a period, as 30 seconds and 1 second are. `MaxUserJobs`
is `settings.MAX_USER_JOBS`, and since the code compares with `<=`, its value 0
gives a pool of one. In the components of a page, two requests in flight and one
failure are needed for answers to cross; three POSTs, for a listener which a
failed POST has left behind to be called by the success of a later one. In
`Reminders` the two deadlines put the date of a reminder after the minimum hour
and before it, with minutes. Two discards are a double click, whose answers both
decrement the counter. Three kills and two blank lines make a resumed import begin
before, at and after a blank line; three entities make a full page and the rest,
with or without the entity which goes to the trash.

Deadlock is not checked: the bounds stop every instance.

### Fairness

`UserJobs!FairSpec` assumes that the scheduler goes on (weak fairness of its
start-up, of spawning, of handling the commands, of the timer of each deferred
job), that `wait()` returns when the process is dead, that a process which
lives makes progress, and that a request which has begun an insertion ends it.
These are the loop of `start()`, the time-out of `brpop`, and the end of every
transaction. Nobody is assumed to create, poll or clear anything, and restarts,
refusals and kills are never fair. `Procs` is larger than the pool so that
`StartJob` is never short of identifiers. `WatchedSpec` adds that the page which
displays the jobs stays opened: without it a job whose START was refused waits
until somebody looks at it. `PlacesAreGiven` is the fairness of `JobLifecycle`,
promised as long as no place is visibly lost (`PlaceLost`: a cleared job, a
killed process, a refused END).

In a page, queries are answered (done or failed) and timers fire. `BrickAnswers`
and `SearchProgress` are fair as a whole, since each query is answered once and
the user is bounded. `BoxPolls` is the timer of the box, its view and its answer;
nothing is asked of the POSTs, nor of the page staying visible
(`BoxCatchesUp` assumes it). `MonitorStep` is the loop of the monitor; the
manager is restarted after an outage, and executes the jobs it knows. The other
components have no liveness property: their safety says what they have done when
they end.

## 4. What the code does against its documentation

| run | what TLC shows | where |
|---|---|---|
| `user_slot_leak` | a job cleared between its result and its END keeps its place of the pool for ever; the next jobs wait | `core/job/scheduler.py:214` |
| `user_one_shot` | a job found in the database at start-up is run again by its own START, received once it is started | `core/job/scheduler.py:178` |
| `system_refresh_lost` | a REFRESH ignored because the job runs is not "useless" when the edition is committed after END | `core/job/scheduler.py:268` |
| `reminders_spin` | a todo entered before the minimum hour, with a past date of reminder whose hour is not too early, makes the scheduler spawn processes without a pause until that hour | `src/creme/assistants/reminders.py:101` |
| `numbers_unique` | a document is numbered with a copy of the counter which was read before another request used it: two documents have the same number. Nothing clears the cache of a job process, so an import keeps its copy until it ends | `src/creme/billing/signals.py:101` |

Also met, without a run of their own.

Jobs: `MAX_USER_JOBS + 1` jobs run at the same time (`core/job/scheduler.py:470`,
`<=`, against `src/creme/settings.py:89`); two requests may both pass the quota
(`views/mass_import.py:61`); two pages which poll can run a job twice
(`views/job.py:280`); a job committed after the start-up of the scheduler, and
whose START came before it, waits until the next restart (`dropped`); the errors
of a system job are forgotten although nothing is sent (`views/job.py:280`); after
an edition of `reference_run` during a run, the dates follow the old reference
(`core/job/scheduler.py:242`); an END refused by the broker, or a process which dies
without END, removes a system job until the next restart (`creme_jobs/base.py:153`,
`core/job/scheduler.py:373`); `core/reminder.py:76` saves a
stale instance; `replace(hour=)` keeps the minutes, so a todo of 3h45 is reminded at
9h45 whereas it may be from 9h (`src/creme/assistants/reminders.py:99`).

Long jobs and numbers: a line which was imported is imported again when a file
with blank lines is resumed (`LineImportedOnce`, violated: results are counted,
lines are skipped, `forms/mass_import.py:1730`); two requests which read an invoice
before either locks the counter both number it (`NumberKept`, violated:
`src/creme/billing/views/number_generation.py:95`); the row of a `Mutex` stays
locked when the process which holds it dies (`models/lock.py`).

Pages: the refresh of an action does nothing when its brick was reloaded
meanwhile (`bricks.js:883`); the last answer of two reloads wins, even when it is
older (`bricks.js:1057`); a loading state ends while the reload of the same
action is in flight (`bricks.js:772`); a dialog which is closed during a POST
triggers both `close` and `form-success`, which `form.js:174-175` excludes
(`CloseIsNotSuccess`, violated); a listener left by a failed POST makes the next
success trigger `form-success` twice; the failure of a former search resets the
present one (`search.js:221`); the counter of notifications may be wrong, or
negative, until the next fetch (`notification.js:138`); the monitor of jobs stops
at the first HTTP failure (`jobs.js:181`).

## 5. Proofs

Every invariant and every action property of the passing runs is a theorem, and
so are the two refinements (their safety). `UserJobs_proofs.tla` proves, for any
number of jobs, users, processes, pages, restarts, refusals and kills, from
`ConstantsAssumption` (the last three also suppose `Undisturbed`, see below):

| theorem | argument |
|---|---|
| `TypeCorrect` | `TypeOK` is inductive: one step per action. The counter of errors stays in `Nat` because the database refuses a negative value |
| `PoolCorrect` | `PoolConsistent` is inductive with `TypeOK`: `StartJob` needs room before it adds an id, and `running` and `popen` change together |
| `NoDuplicate` | `UsersJobsDistinct` is inductive: `_push_user_job()` looks before it appends, and `_retrieve_jobs()` starts from an empty list |
| `LossInvariant` | see below |
| `NothingLostSilently` | follows from `LossInv` |
| `AtOnePlace` | `OnePlace`, see below |
| `EachJobOnce` | a job which is started was in the list of the jobs to start, so by `OnePlace` no process holds it and its row waits |
| `LifecycleImplemented` | a lemma per group of actions: commit, spawn, result, kill and clearing map to the steps of `JobLifecycle`, the other actions to a stutter; a job which runs has its process in `_procs` (`OnePlace`), so there are no more of them than places (`PoolConsistent`) |

`NoSilentLoss` speaks of committed rows, and is not inductive: when a transaction
commits, nothing in it says that its START is still somewhere. `LossInv` adds
`InsertedTracked` (a job being inserted already has its START in the queue, a
deferred trial, or an error counted; or its START was dropped) and
`CommittedRows` (no row without commit). Then the commit hands the trace over to
`NoSilentLoss`, and each scheduler action moves it from one place to the next:
queue, heap, list, process. The proof has one lemma per group of actions, and
small lemmas which say what pushing, popping and appending keep.

`OneShot` and the refinement of `JobLifecycle` are false of the code in general: a
scheduler which boots may read the row of a job and then its START
(`user_one_shot`), and two pages which have read the same `ack_errors` both send
START again. `Undisturbed` says that neither happens: the scheduler already
listens (`InitSched = {"up"}`) and is not stopped (`MaxStops = 0`), and one page
at a time polls. It is the environment of the run `user_live`; the numbers of
jobs, users, processes, trials, refused pushes and kills stay free. Under it
`OnePlace` is inductive: a job is at one place at most, among one START in the
queue, one deferred trial, one entry of the list, one refused push, one process,
one END in the queue (`Single`); and its row is what it must be there (`Stage`: it
is only executed while it waits, its END follows its result, a job which was
dropped is nowhere). Both halves need each other: a second START would put a
running job in the list again, and only the row tells a job being created, which
nothing knows yet. The page which is about to send START again is part of it
(`PollKnown`): what it has read is the one refused push. Each action moves one job
from a place to the next and leaves the others `Untouched`, which is how the
lemmas are laid out (`PlaceSave`, `PlaceWeb`, `PlacePoll`, `PlaceWake`, ...).

`Reminders_proofs.tla` proves, for any number of alerts, todos, processes,
editions, stops and kills, any delays, period, hours and minimum hour, from
`RemindersAssumption` only:

| theorem | argument |
|---|---|
| `TypeCorrect` | inductive with two facts which `TypeOK` does not say: a job which runs has the date it was started at, and a scheduler which is stopped has no process |
| `InTime` | `InTimeInv`, see below: the job does not sleep past what is to be reminded, but for the minutes of a todo in the minimum hour |
| `NothingForgotten` | `InTimeInv` at the present time |
| `Once` | `OnceInv`, see below |
| `OneNotification` | `OnceInv`, a number of holders being natural |

`NothingDueAsleep` speaks of the present, and a row becomes due by the mere
passing of time. `InTimeInv` says it of every time to come: the date of the job
is soon enough for any time at which a row will be due (`SoonEnough`): not after
it, or, for a todo due within the minimum hour, before the end of this hour.
`post_save` keeps it because it brings the job forward, END because of the lemma
`NextWakeupInTime`: the date of a reminder is soon enough, even when it is moved,
since a date which is moved to the minimum hour is in the first hour, at the latest,
of the day of each time it is asked for (`MinHourBegun`).
The first date of a set exists because the order of the naturals is well founded.

`NotifiedOnce` counts notifications; what bounds them are the processes which
hold a copy of the row, read before the others saved theirs. `OnceInv` says that
a row which is not reminded was never sent, that at most one process lives for
the present scheduler and one for each stop, and that notifications and holders
together do not exceed this number. A fetch keeps it because it only reads rows
never sent, a notification because it turns a holder into a notification, and a
start because `_end_job()` has waited for the former process.

`SystemJobs_proofs.tla` proves, for any number of jobs, data, editions, refused
pushes, dead processes and restarts, any periods and delays, from `SystemAssumption` only (which
says that a period is not shorter than the second by which a job may start early):

| theorem | argument |
|---|---|
| `TypeCorrect` | inductive; each date which is computed is a natural: the loop of `_next_wakeup()` is a division (`NextDateBounds`), and an agenda which is not empty has a first date (`FirstDate`) |
| `HeapOrStarts` | `HeapInv`, see below |
| `OneProcess` | a job which is popped was in the heap, so by `HeapInv` its process does not run |
| `NoJobForgotten` | by `HeapInv` a job which is not in the heap is among the starts; the step which ends its process pushes its END, which stays in the list until it is handled, or the job is `gone` (`ProcessStep`), and it is no more once it is started again |
| `NextRunInAPeriod` | END computes the next date from that of the start, which is at most `Early` in the future (`HeapInv`), hence at most a period |
| `AgendaAndItem`, `DataServedInTime` | `AgendaInv`, see below |
| `ExpectedValues`, `RowsAreFollowed` | `ValuesKnown`, see below |

`HeapInv` says that, when the scheduler is up, each job is in the heap or among the
starts and never in both; that a process which lives, and is not the one which is
waited for, has its start; that a scheduler which is not up knows nothing; and
that a start is not in the future by more than `Early`. It is kept when the END
of an orphan ends the run of a job whose own process still lives, because
`_end_job()` then waits for this process, and a scheduler which waits starts nothing.

`AgendaServed` speaks of committed data. When a transaction commits, what makes the
job run in time is the REFRESH sent before: either it is still in the list, or it was
handled and brought the job forward by the security delay, or the job was running
and END came before the commit (then the data are `late`). `AgendaInv` adds this
(`ItemServed`) for the transaction which is still open.

`MemoryFollowsRows` speaks of rest: no edition is open and no REFRESH of the job is
in the list. What makes it true is in the list before: several REFRESH of one job
may be there with different values, the last of them wins, and it was perhaps sent by
an edition which is still open. `ValuesKnown` says, of a job which has not `raced`:
the values to expect are those of the open edition once it has sent its REFRESH, of
the row otherwise (`Expected`); the last REFRESH of the list carries them
(`QueueCarries`); when there is none the heap holds them, unless the job runs, and
END will then read the row (`HeapHolds`); an addition of data which has not sent its
REFRESH yet will send these values (`AddsValues`). The theorem says more than the run
`system_periodic`, where no datum is added.

The other modules prove the safety properties of the run `components`, each
from the assumption on the constants of its module. Each has an inductive
invariant, a lemma per action, and a theorem per property:

| module | theorems | what the invariant adds to the properties |
|---|---|---|
| `NumberGeneration_proofs` | `RowAheadOfNumbers`, `NumbersNeverTwice` | `NumbersInv`: as long as nothing was overwritten, the row is ahead of every number given (`RowAhead`), and no copy is ahead of the clock (`Clocked`). A row which is not behind another one is ahead of the same numbers (`BeforeLater`), so a commit which does not overwrite gives a new number |
| `MassImport_proofs` | `ImportInvariant`, `NoLineLeftAside`, `OnceWithoutBlanks` | `ImportInv`: the lines which will be skipped were handled; a process is past the results, and has left a result for each line it has passed which is not blank; so a line handled `k` times needs `k - 1` blank lines before it |
| `BatchProcess_proofs` | `BatchInvariant`, `ChangedOnce`, `NobodyLeftOut` | `BatchInv`: a change leaves a result; what a process has still to treat, and did not know, has no result yet; what it has left behind was treated or was in the trash |
| `Page_proofs` | `DialogInvariant`, `SavedReported`, `AlwaysUsable`, `OutcomeImplemented` | `DialogInv`: what an answer says was done by the server; unless a listener was `taken`, POSTs in flight are listened to until one is reported, and a form which was saved, and whose answer is not lost, is reported or has its answer on the way. The refinement of `FormOutcome` has a step per action: each one maps to a step or to a stutter |
| | `LastQueryWins` | the timestamp is null or that of the last query, so an accepted answer is the last one |
| | `RemovedWereDiscarded` | a POST which is done is about a discarded item; an item of the last answer which is not discarded is displayed; an answer only speaks of notifications which were sent |
| | `FinishedForSure` | what is asked covers the jobs which wait and those whose START was refused, and an answer is never ahead of the rows: jobs do not wait again |
| | `BoxTypeCorrect`, `MonitorTypeCorrect` | the types alone; those of the other modules are part of the invariants above |
| | `StaleBricksAreReloaded`, `LoadingIsWaitedFor` | an answer of a reload is not ahead of the data (`AnswersPast`); a change is carried by its POST, then by the reload which has still to read it, then by the answer |

`Components_proofs.tla` brings them together: in the sum which TLC explores, a step is
one of the present component and changes nothing of the others (`OneStep`), so each
component behaves as its own specification says (`EachComponentBehaves`), and its
theorems hold of the sum: types (`ComponentsTypes`), safety properties and the
refinement of `FormOutcome` (`ComponentsHold`).

Left to TLC: liveness (`WaitingJobEnds`, `PlacesAreGiven`, `LoadingEnds`,
`TextIsAnswered`, `BoxCatchesUp`, `WatchedJobsEnd`), which rests on fairness and is
out of the prover's reach; it includes the fairness half of `JobLifecycle`.

## 6. What is abstracted

* PING/PONG is a guard (`PollRead`); the queue is the Redis one, and commands
  are parsed correctly.
* Jobs whose type is not registered, and the branches which only log, are left out.
* What a job computes is `Finish` (ok or error) or a set of dates.
* Database transactions are serial on a row, as `select_for_update()` makes them.
  The lock which `JobType.execute()` takes to write the result of a job
  (`creme_jobs/base.py:129-141`) is left out of `SystemJobs`: an edition may be open
  meanwhile in the model, which adds behaviours and hides none.
* `Reminders`: the setting of the minimum hour is constant; changing it does not
  refresh the job.
* The views of the server, seen from a page, are one step (two when they read and
  save without a lock); the data they give are versions, sets of ids or statuses.
* Bricks: sort orders, selections, menus and the saved state (collapsed, reduced)
  are left out. Dialogs: the HTML5 validation (a submit which it refuses does
  nothing), wizards, and dialogs which stay opened after a success.
* The counter of numbers may be edited by a user; this is left out, as it may
  give the same number again on purpose.

## 7. Plan

Done: `UserJobs` and `JobLifecycle`; `SystemJobs`; `Reminders`; `MassImport` and
`BatchProcess`; `NumberGeneration`; the components of a page; the proofs of their
safety, of the composition of the components and of both refinements. Next:

1. How many times a job may run when the scheduler is restarted or several pages
   poll: a bound by the number of stops and of polls, in the place of `OneShot`.
2. `MassImport` and `BatchProcess` composed with `UserJobs`, so that `importTwins`
   and `batchTwins` become consequences of `OneShot`.
3. `TrashCleaner` and `Deletor`: command rows, their job, and the views which
   create, edit and finish them.
4. Workflow engine: queue of events, conditions on several entities; named locks.
5. Recurrent generators and campaign e-mails: states of their rows across retries.
6. Other parts of the pages: cached queries of dynamic selects, the saved state of
   bricks, lists and their selection.
