-------------------------- MODULE SystemJobs_proofs --------------------------
(* Theorems about SystemJobs, for every value of its constants. *)
EXTENDS SystemJobs, SequenceTheorems, WellFoundedInduction, TLAPS

Before == {ss \in Nat \X Nat : ss[1] < ss[2]}

\* An agenda which is not empty has a first date.
LEMMA FirstDate ==
    ASSUME NEW S \in SUBSET Nat, S # {}
    PROVE  First(S) \in S /\ \A e \in S : First(S) <= e
<1>1. IsWellFoundedOn(Before, Nat)
  BY NatLessThanWellFounded DEF OpToRel, Before
<1>2. \E d \in S : \A e \in S : ~ (<<e, d>> \in Before)
  BY <1>1, WFMin, Zenon
<1>3. PICK d \in S : \A e \in S : ~ (<<e, d>> \in Before)
  BY <1>2
<1>4. ASSUME NEW e \in S PROVE d <= e
  <2>1. <<e, d>> \in Nat \X Nat /\ ~ (<<e, d>> \in Before)
    BY <1>3
  <2>2. ~ (e < d)
    BY <2>1 DEF Before
  <2> QED
    BY <2>2
<1> QED
  BY <1>4 DEF First

\* The loop of _next_wakeup() stops at the first date of the period which is not past.
LEMMA NextDateBounds ==
    ASSUME NEW ref \in Nat, NEW period \in Nat \ {0}, NEW n \in Nat
    PROVE  /\ NextDate(ref, period, n) \in Nat
           /\ NextDate(ref, period, n) >= n
           /\ NextDate(ref, period, n) < n + period \/ NextDate(ref, period, n) = ref
<1>1. CASE ref >= n
  BY <1>1 DEF NextDate
<1>2. CASE ref < n
  <2> DEFINE x == n - ref + period - 1
             q == x \div period
             r == x % period
  <2>1. x \in Nat /\ n = x + ref - period + 1
    BY <1>2
  <2> HIDE DEF x
  <2>2. q \in Nat /\ r \in 0..(period - 1) /\ x = period * q + r
    BY <2>1
  <2> HIDE DEF q, r
  <2>3. period * q \in Nat /\ r \in Nat
    BY <2>2
  <2> DEFINE m == period * q
  <2>4. m \in Nat /\ x = m + r /\ r < period
    BY <2>2, <2>3
  <2>5. NextDate(ref, period, n) = ref + m
    BY <1>2 DEF NextDate, x, q
  <2> HIDE DEF m
  <2> QED
    BY <1>2, <2>1, <2>3, <2>4, <2>5
<1> QED
  BY <1>1, <1>2

\* The values of a row.
LEMMA ConfType ==
    ASSUME NEW c \in AllConfs
    PROVE  /\ c.enabled \in BOOLEAN /\ c.ref \in Nat /\ c.period \in Nat \ {0}
           /\ Early <= c.period
<1>1. PICK j \in Jobs : c \in Confs(j)
  BY DEF AllConfs
<1>2. c \in [enabled : BOOLEAN, ref : RefsOf(j), period : PeriodsOf(j)]
  BY <1>1 DEF Confs
<1>3. RefsOf(j) \subseteq Nat /\ PeriodsOf(j) \subseteq Periods \cup {PseudoPeriod}
  BY SystemAssumption DEF RefsOf, PeriodsOf
<1> QED
  BY <1>2, <1>3, SystemAssumption

\* A job which is disabled waits for a far date; an enabled one for the next date of
\* its period, or earlier for the first date of its agenda.
LEMMA NextWakeupBounds ==
    ASSUME NEW j \in Jobs, agenda[j] \in SUBSET Nat, NEW c \in AllConfs,
           NEW ref \in Nat, NEW n \in Nat
    PROVE  /\ NextWakeup(j, c, ref, n) \in Nat
           /\ c.enabled => NextWakeup(j, c, ref, n) <= n + c.period \/ NextWakeup(j, c, ref, n) <= ref
           /\ c.enabled /\ j \in Pseudo => \A d \in agenda[j] : NextWakeup(j, c, ref, n) <= d
<1> DEFINE date == NextDate(ref, c.period, n)
<1>1. c.period \in Nat \ {0}
  BY ConfType
<1>2. date \in Nat /\ (date <= n + c.period \/ date <= ref)
  <2>1. /\ NextDate(ref, c.period, n) \in Nat
        /\ NextDate(ref, c.period, n) < n + c.period \/ NextDate(ref, c.period, n) = ref
    BY <1>1, NextDateBounds
  <2> HIDE DEF date
  <2>2. date \in Nat /\ (date < n + c.period \/ date = ref)
    BY <2>1 DEF date
  <2> QED
    BY <1>1, <2>2
<1>3. NextWakeup(j, c, ref, n) = IF ~c.enabled THEN Far
                                 ELSE IF j \in Pseudo /\ agenda[j] # {}
                                      THEN Smallest(date, First(agenda[j])) ELSE date
  BY DEF NextWakeup
<1> HIDE DEF date
<1>4. CASE ~c.enabled
  BY <1>3, <1>4, SystemAssumption
<1>5. CASE c.enabled /\ j \in Pseudo /\ agenda[j] # {}
  <2>1. First(agenda[j]) \in Nat /\ \A d \in agenda[j] : d \in Nat /\ First(agenda[j]) <= d
    BY <1>5, FirstDate
  <2>2. NextWakeup(j, c, ref, n) = Smallest(date, First(agenda[j]))
    BY <1>3, <1>5
  <2> QED
    BY <1>1, <1>2, <2>1, <2>2 DEF Smallest
<1>6. CASE c.enabled /\ ~(j \in Pseudo /\ agenda[j] # {})
  BY <1>1, <1>2, <1>3, <1>6
<1> QED
  BY <1>4, <1>5, <1>6

-----------------------------------------------------------------------------
(* Types.                                                                  *)

\* The push of a command keeps the list one of commands.
LEMMA PushType ==
    ASSUME queue \in Seq(Commands), lost \in Nat, NEW cmd \in Commands, Push(cmd) \/ Refuse
    PROVE  queue' \in Seq(Commands) /\ lost' \in Nat
<1>1. CASE Push(cmd)
  BY <1>1, AppendProperties DEF Push
<1>2. CASE Refuse
  BY <1>2 DEF Refuse
<1> QED
  BY <1>1, <1>2

\* REFRESH and END are commands the scheduler knows.
LEMMA CommandsType ==
    \A j \in Jobs : END(j) \in Commands /\ \A c \in AllConfs : REFRESH(j, c) \in Commands
  BY DEF END, REFRESH, Commands

\* The pop of the oldest command leaves a list of commands.
LEMMA NextCommandType ==
    ASSUME queue \in Seq(Commands), NEW c, NextCommand(c)
    PROVE  queue' \in Seq(Commands) /\ loop' = "top"
  BY HeadTailProperties DEF NextCommand

\* The transaction which edits a row.
LEMMA TypeEdit ==
    ASSUME TypeOK, \/ \E j \in Jobs : \E c \in Confs(j) : EditJob(j, c)
                   \/ CommitEdit \/ RollbackEdit \/ \E j \in Jobs : PollJob(j)
    PROVE  TypeOK'
<1> USE DEF TypeOK
<1>1. ASSUME NEW j \in Jobs, NEW c \in Confs(j), EditJob(j, c) PROVE TypeOK'
  <2>1. c \in AllConfs
    BY DEF AllConfs
  <2>2. queue' \in Seq(Commands) /\ lost' \in Nat
    BY <1>1, <2>1, PushType, CommandsType DEF EditJob
  <2>3. edit' \in Edits \cup {NoEdit} /\ raced' \subseteq Jobs /\ edits' \in Nat
    BY <1>1, <2>1 DEF EditJob, Edits
  <2>4. UNCHANGED <<clock, conf, ack, agenda, adding, sched, loop, waiting, wake, mem, starts,
                    proc, orphan, gone, missed, late, items, stops>>
    BY <1>1 DEF EditJob, schedVars, heapVars, procVars
  <2> QED
    BY <2>2, <2>3, <2>4
<1>2. CASE CommitEdit
  <2>1. edit \in Edits
    BY <1>2 DEF CommitEdit
  <2>2. edit.job \in Jobs /\ edit.conf \in AllConfs /\ edit.ack \in Nat
    BY <2>1 DEF Edits
  <2>3. conf' \in [Jobs -> AllConfs] /\ ack' \in [Jobs -> Nat] /\ edit' = NoEdit
    BY <1>2, <2>2 DEF CommitEdit
  <2>4. UNCHANGED <<clock, agenda, adding, queue, sched, loop, waiting, wake, mem, starts,
                    proc, orphan, gone, raced, missed, late, edits, items, stops, lost>>
    BY <1>2 DEF CommitEdit, schedVars, heapVars, procVars, history, bounds
  <2> QED
    BY <2>3, <2>4
<1>3. CASE RollbackEdit
  <2>1. edit.job \in Jobs
    BY <1>3 DEF RollbackEdit, Edits
  <2>2. raced' \subseteq Jobs /\ edit' = NoEdit
    BY <1>3, <2>1 DEF RollbackEdit
  <2>3. UNCHANGED <<clock, conf, ack, agenda, adding, queue, sched, loop, waiting, wake, mem, starts,
                    proc, orphan, gone, missed, late, edits, items, stops, lost>>
    BY <1>3 DEF RollbackEdit, schedVars, heapVars, procVars, bounds
  <2> QED
    BY <2>2, <2>3
<1>4. ASSUME NEW j \in Jobs, PollJob(j) PROVE TypeOK'
  <2>1. ack' \in [Jobs -> Nat] /\ raced' \subseteq Jobs
    BY <1>4 DEF PollJob
  <2>2. UNCHANGED <<clock, conf, edit, agenda, adding, queue, sched, loop, waiting, wake, mem, starts,
                    proc, orphan, gone, missed, late, edits, items, stops, lost>>
    BY <1>4 DEF PollJob, schedVars, heapVars, procVars, bounds
  <2> QED
    BY <2>1, <2>2
<1> QED
  BY <1>1, <1>2, <1>3, <1>4

\* The transaction which adds data.
LEMMA TypeItem ==
    ASSUME TypeOK, \/ \E j \in Jobs : \E d \in Delays : AddItem(j, d)
                   \/ SendItem \/ CommitItem \/ RollbackItem
    PROVE  TypeOK'
<1> USE DEF TypeOK
<1>1. ASSUME NEW j \in Jobs, NEW d \in Delays, AddItem(j, d) PROVE TypeOK'
  <2>1. clock + d \in Nat
    BY SystemAssumption
  <2>2. adding' \in Items /\ raced' \subseteq Jobs /\ items' \in Nat
    BY <1>1, <2>1 DEF AddItem, Items
  <2>3. UNCHANGED <<clock, conf, ack, edit, agenda, queue, sched, loop, waiting, wake, mem, starts,
                    proc, orphan, gone, missed, late, edits, stops, lost>>
    BY <1>1 DEF AddItem, schedVars, heapVars, procVars
  <2> QED
    BY <2>2, <2>3
<1>2. CASE SendItem
  <2>1. adding \in Items
    BY <1>2 DEF SendItem
  <2>2. adding.job \in Jobs /\ adding.conf \in AllConfs
    BY <2>1, SystemAssumption DEF Items
  <2>3. queue' \in Seq(Commands) /\ lost' \in Nat
    BY <1>2, <2>2, PushType, CommandsType DEF SendItem
  <2>4. adding' \in Items
    BY <1>2, <2>1 DEF SendItem, Items
  <2>5. UNCHANGED <<clock, conf, ack, edit, agenda, sched, loop, waiting, wake, mem, starts,
                    proc, orphan, gone, raced, missed, late, edits, items, stops>>
    BY <1>2 DEF SendItem, schedVars, heapVars, procVars, history
  <2> QED
    BY <2>3, <2>4, <2>5
<1>3. CASE CommitItem
  <2>1. adding \in Items
    BY <1>3 DEF CommitItem
  <2>2. adding.job \in Jobs /\ adding.due \in Nat
    BY <2>1, SystemAssumption DEF Items
  <2>3. agenda' \in [Jobs -> SUBSET Nat] /\ late' \in [Jobs -> SUBSET Nat] /\ adding' = NoItem
    BY <1>3, <2>2 DEF CommitItem
  <2>4. UNCHANGED <<clock, conf, ack, edit, queue, sched, loop, waiting, wake, mem, starts,
                    proc, orphan, gone, raced, missed, edits, items, stops, lost>>
    BY <1>3 DEF CommitItem, schedVars, heapVars, procVars, bounds
  <2> QED
    BY <2>3, <2>4
<1>4. CASE RollbackItem
  <2>1. adding' = NoItem
    BY <1>4 DEF RollbackItem
  <2>2. UNCHANGED <<clock, conf, ack, edit, agenda, queue, sched, loop, waiting, wake, mem, starts,
                    proc, orphan, gone, raced, missed, late, edits, items, stops, lost>>
    BY <1>4 DEF RollbackItem, schedVars, heapVars, procVars, history, bounds
  <2> QED
    BY <2>1, <2>2
<1> QED
  BY <1>1, <1>2, <1>3, <1>4

\* A date which misses an open transaction marks it.
LEMMA MissItemType ==
    ASSUME adding \in Items \cup {NoItem}, NEW js, MissItem(js)
    PROVE  adding' \in Items \cup {NoItem}
<1>1. CASE UNCHANGED adding
  BY <1>1
<1>2. CASE adding # NoItem /\ adding' = [adding EXCEPT !.late = TRUE]
  <2>1. adding \in Items
    BY <1>2
  <2> QED
    BY <1>2, <2>1 DEF Items
<1> QED
  BY <1>1, <1>2 DEF MissItem

\* The scheduler starts, stops, blocks on the queue, and starts a job.
LEMMA TypeScheduler ==
    ASSUME TypeOK, \/ SchedClear \/ RetrieveJobs \/ SchedStop \/ Block \/ Timeout \/ WaitReturns
                   \/ \E j \in Jobs : RunJob(j)
    PROVE  TypeOK'
<1> USE DEF TypeOK
<1>1. CASE SchedClear
  <2>1. queue' \in Seq(Commands) /\ sched' = "cleared"
    BY <1>1 DEF SchedClear
  <2> QED
    BY <1>1, <2>1 DEF SchedClear, dbVars, heapVars, procVars, history, bounds
<1>2. CASE RetrieveJobs
  <2>1. wake' \in [Jobs -> Nat \cup {None}]
    <3>1. \A j \in Jobs : conf[j] \in AllConfs /\ conf[j].ref \in Nat /\ agenda[j] \in SUBSET Nat
      BY ConfType
    <3>2. \A j \in Jobs : NextWakeup(j, conf[j], conf[j].ref, clock) \in Nat
      BY <3>1, NextWakeupBounds
    <3> QED
      BY <1>2, <3>2 DEF RetrieveJobs
  <2>2. raced' \subseteq Jobs
    <3>1. OpenEdit \subseteq Jobs
      BY DEF OpenEdit, Edits
    <3> QED
      BY <1>2, <3>1 DEF RetrieveJobs
  <2>3. adding' \in Items \cup {NoItem}
    BY <1>2, MissItemType DEF RetrieveJobs
  <2>4. /\ sched' = "up" /\ loop' = "top" /\ mem' = conf /\ missed' = {} /\ late' = [j \in Jobs |-> {}]
        /\ UNCHANGED <<clock, conf, ack, edit, agenda, queue, waiting, starts, proc, orphan, gone,
                       edits, items, stops, lost>>
    BY <1>2 DEF RetrieveJobs, procVars, bounds
  <2> QED
    BY <2>1, <2>2, <2>3, <2>4
<1>3. CASE SchedStop
  <2>1. stops' \in Nat /\ orphan' \subseteq Jobs /\ gone' \subseteq Jobs
    BY <1>3 DEF SchedStop
  <2>2. /\ sched' = "down" /\ loop' = "top" /\ waiting' = None
        /\ wake' = [j \in Jobs |-> None] /\ starts' = [j \in Jobs |-> None]
        /\ proc' = [j \in Jobs |-> "none"]
        /\ UNCHANGED <<clock, conf, ack, edit, agenda, adding, queue, mem, raced, missed, late,
                       edits, items, lost>>
    BY <1>3 DEF SchedStop, dbVars, history
  <2> QED
    BY <2>1, <2>2
<1>4. CASE Block \/ Timeout \/ WaitReturns
  <2>1. loop' \in {"top", "blocked"} /\ waiting' \in Jobs \cup {None}
    BY <1>4 DEF Block, Timeout, WaitReturns
  <2>2. UNCHANGED <<clock, conf, ack, edit, agenda, adding, queue, sched, wake, mem, starts, proc, orphan, gone,
                    raced, missed, late, edits, items, stops, lost>>
    BY <1>4 DEF Block, Timeout, WaitReturns, dbVars, heapVars, procVars, history, bounds
  <2> QED
    BY <2>1, <2>2
<1>5. ASSUME NEW j \in Jobs, RunJob(j) PROVE TypeOK'
  <2>1. /\ wake' \in [Jobs -> Nat \cup {None}] /\ starts' \in [Jobs -> Nat \cup {None}]
        /\ proc' \in [Jobs -> {"none", "run"}] /\ gone' \subseteq Jobs
    BY <1>5 DEF RunJob
  <2>2. UNCHANGED <<clock, conf, ack, edit, agenda, adding, queue, sched, loop, waiting, mem, orphan,
                    raced, missed, late, edits, items, stops, lost>>
    BY <1>5 DEF RunJob, dbVars, schedVars, history, bounds
  <2> QED
    BY <2>1, <2>2
<1> QED
  BY <1>1, <1>2, <1>3, <1>4, <1>5

\* REFRESH: the values it carries, and a date.
LEMMA TypeRefresh ==
    ASSUME TypeOK, NEW j \in Jobs, NEW c \in AllConfs, HandleRefresh(j, c)
    PROVE  TypeOK'
<1> USE DEF TypeOK
<1>1. queue' \in Seq(Commands) /\ loop' = "top"
  BY NextCommandType DEF HandleRefresh
<1>2. UNCHANGED <<clock, conf, ack, edit, agenda, adding, sched, waiting, starts, proc, orphan, gone, raced,
                  edits, items, stops, lost>>
  BY DEF HandleRefresh, dbVars, heapVars, procVars, history, bounds
<1>3. CASE UNCHANGED <<heapVars, history>>
  BY <1>1, <1>2, <1>3 DEF heapVars, history
<1>4. CASE /\ mem' = [mem EXCEPT ![j] = c]
           /\ wake' = [wake EXCEPT ![j] = Secured(j, c, NextWakeup(j, c, c.ref, clock))]
           /\ late' = [late EXCEPT ![j] = {}] /\ missed' = missed \ {j}
  <2>1. NextWakeup(j, c, c.ref, clock) \in Nat
    BY ConfType, NextWakeupBounds
  <2>2. Secured(j, c, NextWakeup(j, c, c.ref, clock)) \in Nat
    BY <2>1, SystemAssumption DEF Secured, Smallest
  <2>3. mem' \in [Jobs -> AllConfs] /\ late' \in [Jobs -> SUBSET Nat] /\ missed' \subseteq Jobs
    BY <1>4
  <2>4. wake' \in [Jobs -> Nat \cup {None}]
    BY <1>4, <2>2
  <2> QED
    BY <1>1, <1>2, <2>3, <2>4
<1> QED
  BY <1>3, <1>4 DEF HandleRefresh

\* END: the next date follows the one of the start.
LEMMA TypeEnd ==
    ASSUME TypeOK, NEW j \in Jobs, HandleEnd(j)
    PROVE  TypeOK'
<1> USE DEF TypeOK
<1>1. queue' \in Seq(Commands) /\ loop' = "top"
  BY NextCommandType DEF HandleEnd
<1>2. UNCHANGED <<clock, conf, ack, edit, agenda, sched, proc, orphan, gone, edits, items, stops, lost>>
  BY DEF HandleEnd, procVars, bounds
<1>3. CASE UNCHANGED <<adding, heapVars, waiting, history>>
  BY <1>1, <1>2, <1>3 DEF heapVars, history
<1>4. CASE /\ starts[j] # None
           /\ mem' = [mem EXCEPT ![j] = conf[j]]
           /\ wake' = [wake EXCEPT ![j] = NextWakeup(j, conf[j], starts[j], clock)]
           /\ starts' = [starts EXCEPT ![j] = None]
           /\ waiting' = j
           /\ ReadAtEnd(j)
  <2>1. NextWakeup(j, conf[j], starts[j], clock) \in Nat
    BY <1>4, NextWakeupBounds
  <2>2. /\ mem' \in [Jobs -> AllConfs] /\ starts' \in [Jobs -> Nat \cup {None}]
        /\ waiting' \in Jobs
    BY <1>4
  <2>3. wake' \in [Jobs -> Nat \cup {None}]
    BY <1>4, <2>1
  <2>4. raced' \subseteq Jobs /\ missed' \subseteq Jobs /\ late' \in [Jobs -> SUBSET Nat]
    BY <1>4 DEF ReadAtEnd
  <2>5. adding' \in Items \cup {NoItem}
    BY <1>4, MissItemType DEF ReadAtEnd
  <2> QED
    BY <1>1, <1>2, <2>2, <2>3, <2>4, <2>5
<1> QED
  BY <1>3, <1>4 DEF HandleEnd

\* A process handles data which are due, sends END unless it dies or the push is
\* refused, and touches nothing else.
LEMMA ProcessStep ==
    ASSUME TypeOK, NEW j \in Jobs, EndRun(j) \/ EndOrphan(j) \/ Kill(j)
    PROVE  /\ UNCHANGED <<clock, conf, ack, edit, adding, sched, loop, waiting, wake, mem, starts,
                          raced, missed, edits, items, stops>>
           /\ Push(END(j)) \/ Refuse \/ UNCHANGED <<queue, lost>>
           /\ \E due \in SUBSET Nat : Handle(j, due)
           /\ \A k \in Jobs : proc'[k] = "run" => proc[k] = "run"
           /\ orphan' \subseteq Jobs /\ gone \subseteq gone' /\ gone' \subseteq Jobs
           /\ proc' \in [Jobs -> {"none", "run"}]
<1>1. DueData(j) \in SUBSET Nat
  BY DEF DueData, TypeOK
<1>2. \E due \in SUBSET Nat : Handle(j, due)
  BY <1>1 DEF EndRun, EndOrphan, Kill
<1>3. UNCHANGED <<clock, conf, ack, edit, adding, sched, loop, waiting, wake, mem, starts,
                  raced, missed, edits, items, stops>>
  BY DEF EndRun, EndOrphan, Kill, schedVars, heapVars, bounds
<1>4. Push(END(j)) \/ Refuse \/ UNCHANGED <<queue, lost>>
  BY DEF EndRun, EndOrphan, Kill, bounds
<1>5. /\ orphan' \subseteq Jobs /\ gone \subseteq gone' /\ gone' \subseteq Jobs
      /\ proc' = proc \/ proc' = [proc EXCEPT ![j] = "none"]
  BY DEF EndRun, EndOrphan, Kill, TypeOK
<1>6. /\ \A k \in Jobs : proc'[k] = "run" => proc[k] = "run"
      /\ proc' \in [Jobs -> {"none", "run"}]
  BY <1>5 DEF TypeOK
<1> QED
  BY <1>2, <1>3, <1>4, <1>5, <1>6

\* Its steps keep the types.
LEMMA TypeProcess ==
    ASSUME TypeOK, NEW j \in Jobs, EndRun(j) \/ EndOrphan(j) \/ Kill(j)
    PROVE  TypeOK'
<1>1. queue' \in Seq(Commands) /\ lost' \in Nat
  BY ProcessStep, PushType, CommandsType DEF TypeOK
<1>2. PICK due \in SUBSET Nat : Handle(j, due)
  BY ProcessStep
<1>3. agenda' \in [Jobs -> SUBSET Nat] /\ late' \in [Jobs -> SUBSET Nat]
  BY <1>2 DEF Handle, TypeOK
<1> QED
  BY <1>1, <1>3, ProcessStep DEF TypeOK

\* Each step keeps the types.
LEMMA TypeNext == TypeOK /\ [Next]_vars => TypeOK'
<1> SUFFICES ASSUME TypeOK, [Next]_vars PROVE TypeOK'
  OBVIOUS
<1>1. CASE \/ \E j \in Jobs : \E c \in Confs(j) : EditJob(j, c)
           \/ CommitEdit \/ RollbackEdit \/ \E j \in Jobs : PollJob(j)
  BY <1>1, TypeEdit
<1>2. CASE \/ \E j \in Jobs : \E d \in Delays : AddItem(j, d)
           \/ SendItem \/ CommitItem \/ RollbackItem
  BY <1>2, TypeItem
<1>3. CASE \/ SchedClear \/ RetrieveJobs \/ SchedStop \/ Block \/ Timeout \/ WaitReturns
           \/ \E j \in Jobs : RunJob(j)
  BY <1>3, TypeScheduler
<1>4. ASSUME NEW j \in Jobs, NEW c \in Confs(j), HandleRefresh(j, c) PROVE TypeOK'
  <2>1. c \in AllConfs
    BY DEF AllConfs
  <2> QED
    BY <1>4, <2>1, TypeRefresh
<1>5. ASSUME NEW j \in Jobs, HandleEnd(j) PROVE TypeOK'
  BY <1>5, TypeEnd
<1>6. ASSUME NEW j \in Jobs, EndRun(j) \/ EndOrphan(j) \/ Kill(j) PROVE TypeOK'
  BY <1>6, TypeProcess
<1>7. CASE Tick
  <2>1. clock' \in Nat
    BY <1>7 DEF Tick, TypeOK
  <2> QED
    BY <1>7, <2>1 DEF Tick, TypeOK, dbVars, schedVars, heapVars, procVars, history, bounds
<1>8. CASE UNCHANGED vars
  BY <1>8 DEF vars, TypeOK, dbVars, schedVars, heapVars, procVars, history, bounds
<1> QED
  BY <1>1, <1>2, <1>3, <1>4, <1>5, <1>6, <1>7, <1>8 DEF Next

\* The state in which "populate" leaves the rows has the right types.
LEMMA TypeInit == Init => TypeOK
  BY SystemAssumption DEF Init, TypeOK

\* Every variable keeps its type, with any number of jobs, data, editions, refused
\* pushes and restarts: each date which is computed is a date.
THEOREM TypeCorrect == Spec => []TypeOK
  BY TypeInit, TypeNext, PTL DEF Spec
-----------------------------------------------------------------------------
(* The heap.                                                               *)

\* Nothing runs, and the scheduler, which is down, has started nothing.
LEMMA HeapInit == Init => HeapInv
  BY SystemAssumption DEF Init, HeapInv

\* The steps of the others: time passes, processes end.
LEMMA HeapFrame ==
    ASSUME TypeOK, TypeOK', HeapInv, UNCHANGED <<sched, waiting, wake, starts>>,
           clock <= clock', \A j \in Jobs : proc'[j] = "run" => proc[j] = "run"
    PROVE  HeapInv'
<1>1. \A j \in Jobs : proc'[j] \in {"none", "run"} /\ proc[j] \in {"none", "run"}
  BY DEF TypeOK
<1>2. sched' # "up" => waiting' = None /\ \A j \in Jobs : starts'[j] = None /\ proc'[j] = "none"
  BY <1>1 DEF HeapInv
<1>3. \A j \in Jobs : sched' = "up" => (starts'[j] = None <=> wake'[j] # None)
  BY DEF HeapInv
<1>4. \A j \in Jobs : proc'[j] = "run" /\ waiting' # j => starts'[j] # None
  BY DEF HeapInv
<1>5. ASSUME NEW j \in Jobs, starts'[j] # None PROVE starts'[j] <= clock' + Early
  <2>1. starts[j] \in Nat /\ starts[j] <= clock + Early
    BY <1>5 DEF HeapInv, TypeOK
  <2> QED
    BY <2>1, SystemAssumption DEF TypeOK
<1> QED
  BY <1>2, <1>3, <1>4, <1>5 DEF HeapInv

\* The start and the stop of the scheduler.
LEMMA HeapScheduler ==
    ASSUME TypeOK, TypeOK', HeapInv, SchedClear \/ RetrieveJobs \/ SchedStop
    PROVE  HeapInv'
<1>1. CASE SchedClear
  <2>1. /\ sched # "up" /\ sched' # "up"
        /\ UNCHANGED <<clock, waiting, wake, starts, proc>>
    BY <1>1 DEF SchedClear, heapVars, procVars
  <2> QED
    BY <2>1 DEF HeapInv
<1>2. CASE RetrieveJobs
  <2>1. sched # "up" /\ UNCHANGED <<clock, waiting, starts, proc>>
    BY <1>2 DEF RetrieveJobs, procVars
  <2>2. \A j \in Jobs : starts[j] = None /\ proc[j] = "none"
    BY <2>1 DEF HeapInv
  <2>3. \A j \in Jobs : wake'[j] # None
    <3>1. \A j \in Jobs : conf[j] \in AllConfs /\ conf[j].ref \in Nat /\ agenda[j] \in SUBSET Nat
      BY ConfType DEF TypeOK
    <3>2. \A j \in Jobs : NextWakeup(j, conf[j], conf[j].ref, clock) \in Nat
      BY <3>1, NextWakeupBounds DEF TypeOK
    <3> QED
      BY <1>2, <3>2, SystemAssumption DEF RetrieveJobs
  <2>4. sched' = "up"
    BY <1>2 DEF RetrieveJobs
  <2> QED
    BY <2>1, <2>2, <2>3, <2>4 DEF HeapInv
<1>3. CASE SchedStop
  <2>1. /\ sched' # "up" /\ waiting' = None
        /\ \A j \in Jobs : starts'[j] = None /\ proc'[j] = "none"
    BY <1>3 DEF SchedStop
  <2> QED
    BY <2>1 DEF HeapInv
<1> QED
  BY <1>1, <1>2, <1>3

\* The job which is popped from the heap goes to the starts, and its process runs.
LEMMA HeapRun ==
    ASSUME TypeOK, TypeOK', HeapInv, NEW j \in Jobs, RunJob(j)
    PROVE  HeapInv'
<1>1. /\ sched = "up" /\ waiting = None /\ wake[j] # None /\ wake[j] <= clock + Early
      /\ UNCHANGED <<clock, sched, waiting>>
  BY DEF RunJob, Ready, Due, schedVars
<1>2. /\ wake'[j] = None /\ starts'[j] = wake[j]
      /\ \A k \in Jobs \ {j} : wake'[k] = wake[k] /\ starts'[k] = starts[k] /\ proc'[k] = proc[k]
  BY DEF RunJob, TypeOK
<1>3. \A k \in Jobs : sched' = "up" => (starts'[k] = None <=> wake'[k] # None)
  BY <1>1, <1>2 DEF HeapInv
<1>4. \A k \in Jobs : proc'[k] = "run" /\ waiting' # k => starts'[k] # None
  BY <1>1, <1>2 DEF HeapInv
<1>5. \A k \in Jobs : starts'[k] # None => starts'[k] <= clock' + Early
  BY <1>1, <1>2 DEF HeapInv
<1> QED
  BY <1>1, <1>3, <1>4, <1>5 DEF HeapInv

\* REFRESH moves in the heap a job which is there.
LEMMA HeapRefresh ==
    ASSUME TypeOK, TypeOK', HeapInv, NEW j \in Jobs, NEW c \in AllConfs, HandleRefresh(j, c)
    PROVE  HeapInv'
<1>1. UNCHANGED <<clock, sched, waiting, starts, proc>>
  BY DEF HandleRefresh, heapVars, procVars
<1>2. CASE UNCHANGED heapVars
  <2>1. clock <= clock' /\ UNCHANGED <<sched, waiting, wake, starts, proc>>
    BY <1>1, <1>2 DEF heapVars, TypeOK
  <2> QED
    BY <2>1, HeapFrame
<1>3. CASE /\ starts[j] = None
           /\ wake' = [wake EXCEPT ![j] = Secured(j, c, NextWakeup(j, c, c.ref, clock))]
  <2>1. NextWakeup(j, c, c.ref, clock) \in Nat
    BY ConfType, NextWakeupBounds DEF TypeOK
  <2>2. Secured(j, c, NextWakeup(j, c, c.ref, clock)) # None
    <3>1. clock \in Nat /\ clock + Secure \in Nat
      BY SystemAssumption DEF TypeOK
    <3>2. Secured(j, c, NextWakeup(j, c, c.ref, clock)) \in Nat
      BY <2>1, <3>1 DEF Secured, Smallest
    <3> QED
      BY <3>2, SystemAssumption
  <2>3. wake'[j] # None /\ \A k \in Jobs \ {j} : wake'[k] = wake[k]
    BY <1>3, <2>2 DEF TypeOK
  <2>4. \A k \in Jobs : sched' = "up" => (starts'[k] = None <=> wake'[k] # None)
    BY <1>1, <1>3, <2>3 DEF HeapInv
  <2> QED
    BY <1>1, <2>4 DEF HeapInv
<1> QED
  BY <1>2, <1>3 DEF HandleRefresh

\* END puts the job in the heap again, and its process is waited for.
LEMMA HeapEnd ==
    ASSUME TypeOK, TypeOK', HeapInv, NEW j \in Jobs, HandleEnd(j)
    PROVE  HeapInv'
<1>1. /\ UNCHANGED <<clock, sched, proc>>
      /\ sched = "up" /\ waiting = None
  BY DEF HandleEnd, NextCommand, Ready, procVars
<1>2. CASE UNCHANGED <<heapVars, waiting>>
  <2>1. clock <= clock' /\ UNCHANGED <<sched, waiting, wake, starts, proc>>
    BY <1>1, <1>2 DEF heapVars, TypeOK
  <2> QED
    BY <2>1, HeapFrame
<1>3. CASE /\ starts[j] # None
           /\ wake' = [wake EXCEPT ![j] = NextWakeup(j, conf[j], starts[j], clock)]
           /\ starts' = [starts EXCEPT ![j] = None]
           /\ waiting' = j
  <2>1. NextWakeup(j, conf[j], starts[j], clock) \in Nat
    BY <1>3, NextWakeupBounds DEF TypeOK
  <2>2. /\ wake'[j] # None /\ starts'[j] = None
        /\ \A k \in Jobs \ {j} : wake'[k] = wake[k] /\ starts'[k] = starts[k]
    BY <1>3, <2>1, SystemAssumption DEF TypeOK
  <2>3. \A k \in Jobs : sched' = "up" => (starts'[k] = None <=> wake'[k] # None)
    BY <1>1, <2>2 DEF HeapInv
  <2>4. \A k \in Jobs : proc'[k] = "run" /\ waiting' # k => starts'[k] # None
    BY <1>1, <1>3, <2>2, SystemAssumption DEF HeapInv
  <2>5. \A k \in Jobs : starts'[k] # None => starts'[k] <= clock' + Early
    BY <1>1, <2>2 DEF HeapInv
  <2> QED
    BY <1>1, <2>3, <2>4, <2>5 DEF HeapInv
<1> QED
  BY <1>2, <1>3 DEF HandleEnd

\* Each step keeps the heap and the starts apart.
LEMMA HeapNext == TypeOK /\ TypeOK' /\ HeapInv /\ [Next]_vars => HeapInv'
<1> SUFFICES ASSUME TypeOK, TypeOK', HeapInv, [Next]_vars PROVE HeapInv'
  OBVIOUS
<1>0. clock \in Nat
  BY DEF TypeOK
<1>1. CASE \/ \E j \in Jobs : \E c \in Confs(j) : EditJob(j, c)
           \/ \E j \in Jobs : \E d \in Delays : AddItem(j, d)
           \/ CommitEdit \/ RollbackEdit \/ SendItem \/ CommitItem \/ RollbackItem
           \/ \E j \in Jobs : PollJob(j)
           \/ Block \/ Timeout
  <2>1. UNCHANGED <<clock, sched, waiting, wake, starts, proc>>
    BY <1>1 DEF EditJob, AddItem, CommitEdit, RollbackEdit, SendItem, CommitItem, RollbackItem, PollJob,
                Block, Timeout, schedVars, heapVars, procVars
  <2>2. clock <= clock'
    BY <1>0, <2>1
  <2> QED
    BY <2>1, <2>2, HeapFrame
<1>2. CASE SchedClear \/ RetrieveJobs \/ SchedStop
  BY <1>2, HeapScheduler
<1>3. ASSUME NEW j \in Jobs, RunJob(j) PROVE HeapInv'
  BY <1>3, HeapRun
<1>4. ASSUME NEW j \in Jobs, NEW c \in Confs(j), HandleRefresh(j, c) PROVE HeapInv'
  <2>1. c \in AllConfs
    BY DEF AllConfs
  <2> QED
    BY <1>4, <2>1, HeapRefresh
<1>5. ASSUME NEW j \in Jobs, HandleEnd(j) PROVE HeapInv'
  BY <1>5, HeapEnd
<1>6. CASE WaitReturns
  <2>1. /\ waiting # None /\ proc[waiting] = "none" /\ waiting' = None
        /\ UNCHANGED <<clock, sched, wake, starts, proc>>
    BY <1>6 DEF WaitReturns, heapVars, procVars
  <2>2. \A k \in Jobs : proc'[k] = "run" /\ waiting' # k => starts'[k] # None
    BY <2>1 DEF HeapInv
  <2> QED
    BY <2>1, <2>2 DEF HeapInv
<1>7. ASSUME NEW j \in Jobs, EndRun(j) \/ EndOrphan(j) \/ Kill(j) PROVE HeapInv'
  <2>1. UNCHANGED <<clock, sched, waiting, wake, starts>>
    BY <1>7, ProcessStep
  <2>2. \A k \in Jobs : proc'[k] = "run" => proc[k] = "run"
    BY <1>7, ProcessStep
  <2>3. clock <= clock'
    BY <1>0, <2>1
  <2> QED
    BY <2>1, <2>2, <2>3, HeapFrame
<1>8. CASE Tick
  <2>1. UNCHANGED <<sched, waiting, wake, starts, proc>> /\ clock' = clock + 1
    BY <1>8 DEF Tick, schedVars, heapVars, procVars
  <2>2. clock <= clock'
    BY <1>0, <2>1
  <2> QED
    BY <2>1, <2>2, HeapFrame
<1>9. CASE UNCHANGED vars
  <2>1. UNCHANGED <<clock, sched, waiting, wake, starts, proc>>
    BY <1>9 DEF vars, schedVars, heapVars, procVars
  <2>2. clock <= clock'
    BY <1>0, <2>1
  <2> QED
    BY <2>1, <2>2, HeapFrame
<1> QED
  BY <1>1, <1>2, <1>3, <1>4, <1>5, <1>6, <1>7, <1>8, <1>9 DEF Next

\* A job is in the heap or among the starts, never in both, whatever the orphans of
\* former schedulers send; only what the scheduler has spawned is waited for.
THEOREM HeapOrStarts == Spec => []HeapInv
  BY TypeInit, TypeNext, HeapInit, HeapNext, PTL DEF Spec

\* A job whose process runs is not in the heap, so it is not popped again: its start
\* changes only to be forgotten.
THEOREM OneProcess == Spec => NoOverlap
<1>1. TypeOK /\ HeapInv /\ [Next]_vars =>
        [\A j \in Jobs : proc[j] = "run" /\ starts[j] # starts'[j] => starts'[j] = None]_vars
  <2> SUFFICES ASSUME TypeOK, HeapInv, [Next]_vars, NEW j \in Jobs, proc[j] = "run", starts[j] # starts'[j]
               PROVE  starts'[j] = None
    BY DEF vars
  <2>1. CASE \/ \E k \in Jobs : \E c \in Confs(k) : EditJob(k, c) \/ HandleRefresh(k, c)
             \/ \E k \in Jobs : \E d \in Delays : AddItem(k, d)
             \/ CommitEdit \/ RollbackEdit \/ SendItem \/ CommitItem \/ RollbackItem
             \/ \E k \in Jobs : PollJob(k) \/ EndRun(k) \/ EndOrphan(k) \/ Kill(k)
             \/ SchedClear \/ RetrieveJobs \/ Block \/ Timeout \/ WaitReturns \/ Tick
             \/ UNCHANGED vars
    <3>1. UNCHANGED starts
      BY <2>1 DEF EditJob, HandleRefresh, AddItem, CommitEdit, RollbackEdit, SendItem, CommitItem,
                  RollbackItem, PollJob, EndRun, EndOrphan, Kill, SchedClear, RetrieveJobs, Block, Timeout,
                  WaitReturns, Tick, heapVars, vars
    <3> QED
      BY <3>1
  <2>2. ASSUME NEW k \in Jobs, RunJob(k) PROVE starts'[j] = None
    <3>1. sched = "up" /\ waiting = None /\ wake[k] # None
      BY <2>2 DEF RunJob, Ready, Due
    <3>2. starts[k] = None
      BY <3>1 DEF HeapInv
    <3>3. proc[k] # "run"
      BY <3>1, <3>2, SystemAssumption DEF HeapInv
    <3>4. starts'[j] = starts[j]
      BY <2>2, <3>3 DEF RunJob, TypeOK
    <3> QED
      BY <3>4
  <2>3. ASSUME NEW k \in Jobs, HandleEnd(k) PROVE starts'[j] = None
    BY <2>3 DEF HandleEnd, heapVars, TypeOK
  <2>4. CASE SchedStop
    BY <2>4 DEF SchedStop
  <2> QED
    BY <2>1, <2>2, <2>3, <2>4 DEF Next
<1> QED
  BY <1>1, TypeInit, TypeNext, HeapInit, HeapNext, PTL DEF Spec, NoOverlap
-----------------------------------------------------------------------------
(* The list of the commands.                                               *)

OnItsWay(cmd) == \E i \in 1..Len(queue) : queue[i] = cmd

\* A push keeps the commands which are in the list.
LEMMA PushKeeps ==
    ASSUME TypeOK, NEW cmd \in Commands, Push(cmd) \/ Refuse
    PROVE  /\ Len(queue') >= Len(queue)
           /\ \A i \in 1..Len(queue) : i \in 1..Len(queue') /\ queue'[i] = queue[i]
           /\ Push(cmd) => OnItsWay(cmd)'
<1>1. queue \in Seq(Commands) /\ lost \in Nat /\ Len(queue) \in Nat
  BY LenProperties DEF TypeOK
<1>2. CASE Push(cmd)
  <2>1. queue' = Append(queue, cmd) /\ lost' = lost
    BY <1>2 DEF Push
  <2>2. /\ Len(queue') = Len(queue) + 1
        /\ \A i \in 1..Len(queue) : queue'[i] = queue[i]
        /\ queue'[Len(queue) + 1] = cmd
    BY <1>1, <2>1, AppendProperties
  <2> QED
    BY <1>1, <1>2, <2>1, <2>2 DEF OnItsWay
<1>3. CASE Refuse
  <2>1. queue' = queue /\ lost' = lost + 1
    BY <1>3 DEF Refuse
  <2> QED
    BY <1>1, <2>1 DEF Push
<1> QED
  BY <1>2, <1>3

\* A pop removes one command only.
LEMMA PopKeeps ==
    ASSUME TypeOK, NEW cmd, NextCommand(cmd), NEW i \in 1..Len(queue), queue[i] # cmd
    PROVE  i - 1 \in 1..Len(queue') /\ queue'[i - 1] = queue[i]
<1>1. queue \in Seq(Commands) /\ queue # <<>> /\ Head(queue) = cmd /\ queue' = Tail(queue)
  BY DEF TypeOK, NextCommand
<1>2. /\ queue[1] = cmd /\ Len(queue') = Len(queue) - 1 /\ Len(queue) \in Nat
      /\ \A k \in 1..Len(queue') : queue'[k] = queue[k + 1]
  BY <1>1, HeadTailProperties, LenProperties
<1>3. i # 1
  BY <1>2
<1> QED
  BY <1>2, <1>3

\* A REFRESH stays in the list until the scheduler pops it.
LEMMA PushQueued ==
    ASSUME TypeOK, NEW cmd \in Commands, Push(cmd) \/ Refuse, NEW j \in Jobs, Queued(j)
    PROVE  Queued(j)'
  BY PushKeeps DEF Queued

\* A REFRESH which is pushed is in the list.
LEMMA PushedQueued ==
    ASSUME TypeOK, NEW cmd \in Commands, Push(cmd), cmd.type = "REFRESH"
    PROVE  Queued(cmd.job)'
  BY PushKeeps DEF Queued, OnItsWay

\* The pop of another command leaves it there.
LEMMA PopQueued ==
    ASSUME TypeOK, NEW cmd, NextCommand(cmd), NEW j \in Jobs, Queued(j),
           cmd.type # "REFRESH" \/ cmd.job # j
    PROVE  Queued(j)'
<1>1. PICK i \in 1..Len(queue) : queue[i].type = "REFRESH" /\ queue[i].job = j
  BY DEF Queued
<1>2. queue[i] # cmd
  BY <1>1
<1>3. i - 1 \in 1..Len(queue') /\ queue'[i - 1] = queue[i]
  BY <1>2, PopKeeps
<1> QED
  BY <1>1, <1>3 DEF Queued

-----------------------------------------------------------------------------
(* No job is forgotten.                                                    *)

\* When the scheduler starts, all the jobs are in the heap.
LEMMA KnownInit == Init => NeverForgotten
  BY DEF Init, NeverForgotten

\* Each step of the others, and of the scheduler, keeps track of each job.
LEMMA KnownNext ==
    TypeOK /\ TypeOK' /\ HeapInv /\ HeapInv' /\ NeverForgotten /\ [Next]_vars => NeverForgotten'
<1> SUFFICES ASSUME TypeOK, TypeOK', HeapInv, HeapInv', NeverForgotten, [Next]_vars,
                    NEW j \in Jobs, sched' = "up"
             PROVE  \/ wake'[j] # None
                    \/ starts'[j] # None /\ proc'[j] = "run"
                    \/ starts'[j] # None /\ OnItsWay(END(j))'
                    \/ starts'[j] # None /\ j \in gone'
  BY DEF NeverForgotten, OnItsWay
<1>1. wake'[j] # None \/ starts'[j] # None
  BY DEF HeapInv
<1> SUFFICES ASSUME starts'[j] # None
             PROVE  proc'[j] = "run" \/ OnItsWay(END(j))' \/ j \in gone'
  BY <1>1
<1>2. ASSUME sched = "up", starts[j] # None
      PROVE  proc[j] = "run" \/ OnItsWay(END(j)) \/ j \in gone
  BY <1>2 DEF NeverForgotten, HeapInv, OnItsWay
<1>3. END(j) \in Commands
  BY CommandsType
<1>4. ASSUME NEW cmd \in Commands, Push(cmd) \/ Refuse, OnItsWay(END(j)) PROVE OnItsWay(END(j))'
  BY <1>4, PushKeeps DEF OnItsWay
<1>5. ASSUME NEW cmd, NextCommand(cmd), cmd # END(j), OnItsWay(END(j)) PROVE OnItsWay(END(j))'
  <2>1. PICK i \in 1..Len(queue) : queue[i] = END(j)
    BY <1>5 DEF OnItsWay
  <2>2. i - 1 \in 1..Len(queue') /\ queue'[i - 1] = END(j)
    BY <1>5, <2>1, PopKeeps
  <2> QED
    BY <2>2 DEF OnItsWay
<1>6. CASE \/ CommitEdit \/ RollbackEdit \/ CommitItem \/ RollbackItem \/ Block \/ Timeout \/ WaitReturns
           \/ \E k \in Jobs : PollJob(k)
           \/ \E k \in Jobs : \E d \in Delays : AddItem(k, d)
           \/ Tick \/ UNCHANGED vars
  <2>1. UNCHANGED <<sched, starts, proc, gone, queue>>
    BY <1>6 DEF CommitEdit, RollbackEdit, CommitItem, RollbackItem, Block, Timeout, WaitReturns, PollJob,
                AddItem, Tick, vars, schedVars, heapVars, procVars, bounds
  <2> QED
    BY <1>2, <2>1 DEF OnItsWay
<1>7. ASSUME NEW k \in Jobs, NEW c \in Confs(k), EditJob(k, c)
      PROVE  proc'[j] = "run" \/ OnItsWay(END(j))' \/ j \in gone'
  <2>1. REFRESH(k, c) \in Commands /\ (Push(REFRESH(k, c)) \/ Refuse)
    BY <1>7, CommandsType DEF EditJob, AllConfs
  <2>2. UNCHANGED <<sched, starts, proc, gone>>
    BY <1>7, <2>1, PushKeeps DEF EditJob, schedVars, heapVars, procVars
  <2> QED
    BY <1>2, <1>4, <2>1, <2>2
<1>8. CASE SendItem
  <2>1. adding.job \in Jobs /\ adding.conf \in AllConfs
    BY <1>8, SystemAssumption DEF SendItem, TypeOK, Items
  <2>2. REFRESH(adding.job, adding.conf) \in Commands
        /\ (Push(REFRESH(adding.job, adding.conf)) \/ Refuse)
    BY <1>8, <2>1, CommandsType DEF SendItem
  <2>3. UNCHANGED <<sched, starts, proc, gone>>
    BY <1>8, <2>2, PushKeeps DEF SendItem, schedVars, heapVars, procVars
  <2> QED
    BY <1>2, <1>4, <2>2, <2>3
<1>9. CASE SchedClear \/ SchedStop
  BY <1>9 DEF SchedClear, SchedStop
<1>10. CASE RetrieveJobs
  <2>1. sched # "up" /\ starts' = starts
    BY <1>10 DEF RetrieveJobs
  <2> QED
    BY <2>1 DEF HeapInv
<1>11. ASSUME NEW k \in Jobs, RunJob(k) PROVE proc'[j] = "run" \/ OnItsWay(END(j))' \/ j \in gone'
  <2>1. UNCHANGED <<sched, queue>> /\ proc'[k] = "run"
    BY <1>11 DEF RunJob, schedVars, bounds, TypeOK
  <2>2. k # j => starts'[j] = starts[j] /\ proc'[j] = proc[j] /\ (j \in gone => j \in gone')
    BY <1>11 DEF RunJob, TypeOK
  <2> QED
    BY <1>2, <2>1, <2>2 DEF OnItsWay
<1>12. ASSUME NEW k \in Jobs, NEW c \in Confs(k), HandleRefresh(k, c)
       PROVE  proc'[j] = "run" \/ OnItsWay(END(j))' \/ j \in gone'
  <2>1. UNCHANGED <<sched, starts, proc, gone>> /\ NextCommand(REFRESH(k, c))
    BY <1>12 DEF HandleRefresh, heapVars, procVars, bounds
  <2>2. REFRESH(k, c) # END(j)
    BY DEF REFRESH, END
  <2> QED
    BY <1>2, <1>5, <2>1, <2>2
<1>13. ASSUME NEW k \in Jobs, HandleEnd(k) PROVE proc'[j] = "run" \/ OnItsWay(END(j))' \/ j \in gone'
  <2>1. UNCHANGED <<sched, proc, gone>> /\ NextCommand(END(k))
    BY <1>13 DEF HandleEnd, procVars, bounds
  <2>2. k # j => END(k) # END(j)
    BY DEF END
  <2>3. starts'[j] = starts[j] /\ k # j
    BY <1>13 DEF HandleEnd, heapVars, TypeOK
  <2> QED
    BY <1>2, <1>5, <2>1, <2>2, <2>3
<1>14. ASSUME NEW k \in Jobs, EndRun(k) \/ EndOrphan(k) \/ Kill(k)
       PROVE  proc'[j] = "run" \/ OnItsWay(END(j))' \/ j \in gone'
  <2>1. /\ END(k) \in Commands /\ (Push(END(k)) \/ Refuse \/ UNCHANGED queue)
        /\ UNCHANGED <<sched, starts>> /\ gone \subseteq gone'
    BY <1>14, CommandsType, ProcessStep
  <2>2. OnItsWay(END(j)) => OnItsWay(END(j))'
    BY <1>4, <2>1 DEF OnItsWay
  <2>3. proc[j] = "run" => proc'[j] = "run" \/ OnItsWay(END(j))' \/ j \in gone'
    <3>1. ASSUME Push(END(k)) PROVE OnItsWay(END(k))'
      BY <2>1, <3>1, PushKeeps
    <3>2. CASE k = j
      BY <1>14, <3>1, <3>2 DEF EndRun, EndOrphan, Kill
    <3>3. CASE k # j
      BY <1>14, <3>3 DEF EndRun, EndOrphan, Kill, TypeOK
    <3> QED
      BY <3>2, <3>3
  <2> QED
    BY <1>2, <2>1, <2>2, <2>3
<1> QED
  BY <1>6, <1>7, <1>8, <1>9, <1>10, <1>11, <1>12, <1>13, <1>14 DEF Next

\* For each job the scheduler waits for something which will come: its date, its
\* process or its END; unless this process is dead, and has sent no END.
THEOREM NoJobForgotten == Spec => []NeverForgotten
  BY TypeInit, TypeNext, HeapInit, HeapNext, KnownInit, KnownNext, PTL DEF Spec
-----------------------------------------------------------------------------
(* The next run is soon enough.                                            *)

\* The next dates which the scheduler computes: when it starts, ...
LEMMA DatesAtStart ==
    ASSUME TypeOK, RetrieveJobs, NEW j \in Jobs
    PROVE  /\ mem'[j] \in AllConfs /\ wake'[j] \in Nat
           /\ mem'[j].enabled => wake'[j] <= clock + mem'[j].period \/ wake'[j] <= mem'[j].ref
           /\ mem'[j].enabled /\ j \in Pseudo => \A d \in agenda[j] : wake'[j] <= d
<1>1. conf[j] \in AllConfs /\ conf[j].ref \in Nat /\ agenda[j] \in SUBSET Nat /\ clock \in Nat
  BY ConfType DEF TypeOK
<1>2. mem'[j] = conf[j] /\ wake'[j] = NextWakeup(j, conf[j], conf[j].ref, clock)
  BY DEF RetrieveJobs, TypeOK
<1> DEFINE date == NextWakeup(j, conf[j], conf[j].ref, clock)
<1>3. /\ date \in Nat
      /\ conf[j].enabled => date <= clock + conf[j].period \/ date <= conf[j].ref
      /\ conf[j].enabled /\ j \in Pseudo => \A d \in agenda[j] : date <= d
  BY <1>1, NextWakeupBounds
<1> HIDE DEF date
<1>4. wake'[j] = date
  BY <1>2 DEF date
<1> QED
  BY <1>1, <1>2, <1>3, <1>4

\* ... when it receives a REFRESH, ...
LEMMA DatesAtRefresh ==
    ASSUME TypeOK, NEW j \in Jobs, NEW c \in AllConfs, HandleRefresh(j, c), starts[j] = None
    PROVE  /\ mem'[j] = c /\ wake'[j] \in Nat
           /\ c.enabled => wake'[j] <= clock + c.period \/ wake'[j] <= c.ref
           /\ c.enabled /\ j \in Pseudo => wake'[j] <= clock + Secure
           /\ \A k \in Jobs \ {j} : mem'[k] = mem[k] /\ wake'[k] = wake[k]
<1> DEFINE date == NextWakeup(j, c, c.ref, clock)
<1>1. c.ref \in Nat /\ c.period \in Nat /\ agenda[j] \in SUBSET Nat /\ clock \in Nat
  BY ConfType DEF TypeOK
<1>2. date \in Nat /\ (c.enabled => date <= clock + c.period \/ date <= c.ref)
  BY <1>1, NextWakeupBounds
<1>3. mem' = [mem EXCEPT ![j] = c] /\ wake' = [wake EXCEPT ![j] = Secured(j, c, date)]
  BY DEF HandleRefresh
<1> HIDE DEF date
<1>4. /\ Secured(j, c, date) \in Nat /\ Secured(j, c, date) <= date
      /\ c.enabled /\ j \in Pseudo => Secured(j, c, date) <= clock + Secure
  BY <1>1, <1>2, SystemAssumption DEF Secured, Smallest
<1>5. mem'[j] = c /\ wake'[j] = Secured(j, c, date)
  BY <1>3 DEF TypeOK
<1>6. \A k \in Jobs \ {j} : mem'[k] = mem[k] /\ wake'[k] = wake[k]
  BY <1>3 DEF TypeOK
<1> QED
  BY <1>1, <1>2, <1>4, <1>5, <1>6

\* ... and when a job ends.
LEMMA DatesAtEnd ==
    ASSUME TypeOK, HeapInv, NEW j \in Jobs, HandleEnd(j), starts[j] # None
    PROVE  /\ mem'[j] \in AllConfs /\ wake'[j] \in Nat
           /\ mem'[j].enabled => wake'[j] <= clock + mem'[j].period
           /\ mem'[j].enabled /\ j \in Pseudo => \A d \in agenda[j] : wake'[j] <= d
           /\ \A k \in Jobs \ {j} : mem'[k] = mem[k] /\ wake'[k] = wake[k]
<1> DEFINE date == NextWakeup(j, conf[j], starts[j], clock)
<1>1. /\ conf[j] \in AllConfs /\ conf[j].period \in Nat /\ Early <= conf[j].period
      /\ agenda[j] \in SUBSET Nat /\ clock \in Nat
      /\ starts[j] \in Nat /\ starts[j] <= clock + Early
  BY ConfType DEF TypeOK, HeapInv
<1>2. /\ date \in Nat
      /\ conf[j].enabled => date <= clock + conf[j].period \/ date <= starts[j]
      /\ conf[j].enabled /\ j \in Pseudo => \A d \in agenda[j] : date <= d
  BY <1>1, NextWakeupBounds
<1>3. mem' = [mem EXCEPT ![j] = conf[j]] /\ wake' = [wake EXCEPT ![j] = date]
  BY DEF HandleEnd
<1> HIDE DEF date
<1>4. mem'[j] = conf[j] /\ wake'[j] = date
  BY <1>3 DEF TypeOK
<1>5. \A k \in Jobs \ {j} : mem'[k] = mem[k] /\ wake'[k] = wake[k]
  BY <1>3 DEF TypeOK
<1>6. conf[j].enabled => date <= clock + conf[j].period
  BY <1>1, <1>2, SystemAssumption
<1> QED
  BY <1>1, <1>2, <1>4, <1>5, <1>6

\* The other steps leave alone the job in the heap, or remove it.
LEMMA DatesFrame ==
    ASSUME TypeOK,
           \/ \E j \in Jobs : \E c \in Confs(j) : EditJob(j, c)
           \/ \E j \in Jobs : \E d \in Delays : AddItem(j, d)
           \/ CommitEdit \/ RollbackEdit \/ SendItem \/ CommitItem \/ RollbackItem
           \/ \E j \in Jobs : PollJob(j) \/ RunJob(j) \/ EndRun(j) \/ EndOrphan(j) \/ Kill(j)
           \/ Block \/ Timeout \/ WaitReturns \/ Tick
           \/ UNCHANGED vars
    PROVE  /\ clock' \in Nat /\ clock <= clock'
           /\ sched' = sched /\ mem' = mem
           /\ \A j \in Jobs : wake'[j] # None => wake'[j] = wake[j]
<1>1. ASSUME NEW j \in Jobs, RunJob(j)
      PROVE  /\ clock' = clock /\ sched' = sched /\ mem' = mem
             /\ \A k \in Jobs : wake'[k] # None => wake'[k] = wake[k]
  BY <1>1 DEF RunJob, schedVars, TypeOK
<1>2. CASE Tick
  <2>1. clock' = clock + 1 /\ UNCHANGED <<sched, mem, wake>>
    BY <1>2 DEF Tick, schedVars, heapVars
  <2> QED
    BY <2>1 DEF TypeOK
<1>3. CASE \/ \E j \in Jobs : \E c \in Confs(j) : EditJob(j, c)
           \/ \E j \in Jobs : \E d \in Delays : AddItem(j, d)
           \/ CommitEdit \/ RollbackEdit \/ SendItem \/ CommitItem \/ RollbackItem
           \/ \E j \in Jobs : PollJob(j) \/ EndRun(j) \/ EndOrphan(j) \/ Kill(j)
           \/ Block \/ Timeout \/ WaitReturns
           \/ UNCHANGED vars
  <2>1. UNCHANGED <<clock, sched, mem, wake>>
    BY <1>3 DEF EditJob, AddItem, CommitEdit, RollbackEdit, SendItem, CommitItem, RollbackItem, PollJob,
                EndRun, EndOrphan, Kill, Block, Timeout, WaitReturns, vars, schedVars, heapVars
  <2> QED
    BY <2>1 DEF TypeOK
<1> QED
  BY <1>1, <1>2, <1>3 DEF TypeOK

\* A start or an end of the scheduler, or a step which leaves alone the heap.
LEMMA PeriodNext == TypeOK /\ TypeOK' /\ HeapInv /\ RunsEveryPeriod /\ [Next]_vars => RunsEveryPeriod'
<1> SUFFICES ASSUME TypeOK, TypeOK', HeapInv, RunsEveryPeriod, [Next]_vars,
                    NEW j \in Jobs, sched' = "up", wake'[j] # None, mem'[j].enabled
             PROVE  wake'[j] <= clock' + mem'[j].period \/ wake'[j] <= mem'[j].ref
  BY DEF RunsEveryPeriod
<1>1. ASSUME sched' = sched, wake'[j] = wake[j], mem'[j] = mem[j], clock <= clock'
      PROVE  wake'[j] <= clock' + mem'[j].period \/ wake'[j] <= mem'[j].ref
  <2>1. /\ mem[j].period \in Nat /\ mem[j].ref \in Nat /\ clock \in Nat /\ clock' \in Nat
        /\ wake[j] \in Nat
    BY <1>1, ConfType DEF TypeOK
  <2>2. wake[j] <= clock + mem[j].period \/ wake[j] <= mem[j].ref
    BY <1>1 DEF RunsEveryPeriod
  <2> QED
    BY <1>1, <2>1, <2>2
<1>2. CASE SchedClear \/ SchedStop
  BY <1>2 DEF SchedClear, SchedStop
<1>3. CASE RetrieveJobs
  <2>1. clock' = clock
    BY <1>3 DEF RetrieveJobs
  <2> QED
    BY <1>3, <2>1, DatesAtStart
<1>4. ASSUME NEW k \in Jobs, NEW c \in Confs(k), HandleRefresh(k, c)
      PROVE  wake'[j] <= clock' + mem'[j].period \/ wake'[j] <= mem'[j].ref
  <2>1. c \in AllConfs
    BY DEF AllConfs
  <2>2. UNCHANGED <<clock, sched>> /\ clock <= clock'
    BY <1>4 DEF HandleRefresh, TypeOK
  <2>3. CASE starts[k] = None
    BY <1>1, <1>4, <2>1, <2>2, <2>3, DatesAtRefresh
  <2>4. CASE starts[k] # None
    <3>1. UNCHANGED <<wake, mem>>
      BY <1>4, <2>4 DEF HandleRefresh, heapVars
    <3> QED
      BY <1>1, <2>2, <3>1
  <2> QED
    BY <2>3, <2>4
<1>5. ASSUME NEW k \in Jobs, HandleEnd(k)
      PROVE  wake'[j] <= clock' + mem'[j].period \/ wake'[j] <= mem'[j].ref
  <2>1. UNCHANGED <<clock, sched>> /\ clock <= clock'
    BY <1>5 DEF HandleEnd, TypeOK
  <2>2. CASE starts[k] # None
    BY <1>1, <1>5, <2>1, <2>2, DatesAtEnd
  <2>3. CASE starts[k] = None
    <3>1. UNCHANGED <<wake, mem>>
      BY <1>5, <2>3 DEF HandleEnd, heapVars
    <3> QED
      BY <1>1, <2>1, <3>1
  <2> QED
    BY <2>2, <2>3
<1>6. CASE \/ \E k \in Jobs : \E c \in Confs(k) : EditJob(k, c)
           \/ \E k \in Jobs : \E d \in Delays : AddItem(k, d)
           \/ CommitEdit \/ RollbackEdit \/ SendItem \/ CommitItem \/ RollbackItem
           \/ \E k \in Jobs : PollJob(k) \/ RunJob(k) \/ EndRun(k) \/ EndOrphan(k) \/ Kill(k)
           \/ Block \/ Timeout \/ WaitReturns \/ Tick
           \/ UNCHANGED vars
  BY <1>1, <1>6, DatesFrame
<1> QED
  BY <1>2, <1>3, <1>4, <1>5, <1>6 DEF Next

\* At first nothing is in the heap.
LEMMA PeriodInit == Init => RunsEveryPeriod
  BY DEF Init, RunsEveryPeriod

\* Whatever is refused, missed or raced, an enabled job of the heap runs within its
\* period: a job which starts early does not push its next date further than that.
THEOREM NextRunInAPeriod == Spec => []RunsEveryPeriod
  BY TypeInit, TypeNext, HeapInit, HeapNext, PeriodInit, PeriodNext, PTL DEF Spec
-----------------------------------------------------------------------------
(* The agenda of the pseudo-periodic jobs.                                 *)

\* What AgendaInv says of one job in the heap: its data are served, and so will be
\* those of the transaction which is still open.
InHeap(j)     == sched = "up" /\ wake[j] # None /\ mem[j].enabled /\ ~Queued(j)
Served(j, d)  == wake[j] <= d \/ wake[j] <= clock + Secure
Pending(j)    == adding # NoItem /\ adding.sent /\ ~adding.late /\ adding.job = j
JobServed(j)  == InHeap(j) =>
                    /\ \A d \in agenda[j] \ late[j] : Served(j, d)
                    /\ Pending(j) => wake[j] <= clock + Secure

\* AgendaInv, job by job: only a pseudo-periodic one has pending data.
LEMMA ServedJobByJob == TypeOK => (AgendaInv <=> \A j \in Pseudo : JobServed(j))
<1> SUFFICES ASSUME TypeOK PROVE AgendaInv <=> \A j \in Pseudo : JobServed(j)
  OBVIOUS
<1>1. adding # NoItem => adding.job \in Pseudo
  BY DEF TypeOK, Items
<1> QED
  BY <1>1 DEF AgendaInv, AgendaServed, ItemServed, JobServed, InHeap, Served, Pending

\* The same in the next state.
LEMMA ServedJobByJobNext == TypeOK' => (AgendaInv' <=> \A j \in Pseudo : JobServed(j)')
<1> SUFFICES ASSUME TypeOK' PROVE AgendaInv' <=> \A j \in Pseudo : JobServed(j)'
  OBVIOUS
<1>1. adding' # NoItem => adding'.job \in Pseudo
  BY DEF TypeOK, Items
<1> QED
  BY <1>1 DEF AgendaInv, AgendaServed, ItemServed, JobServed, InHeap, Served, Pending

\* A step which neither computes a date for a job nor gives it data.
LEMMA ServedFrame ==
    ASSUME TypeOK, TypeOK', NEW j \in Pseudo, JobServed(j),
           sched' = "up" /\ wake'[j] # None => sched = "up" /\ wake'[j] = wake[j] /\ mem'[j] = mem[j],
           clock <= clock', Queued(j) => Queued(j)' \/ wake'[j] = None,
           \A d \in agenda'[j] \ late'[j] : d \in agenda[j] \ late[j] \/ Pending(j),
           Pending(j)' => Pending(j)
    PROVE  JobServed(j)'
<1> SUFFICES ASSUME InHeap(j)'
             PROVE  /\ \A d \in agenda'[j] \ late'[j] : wake'[j] <= d \/ wake'[j] <= clock' + Secure
                    /\ Pending(j)' => wake'[j] <= clock' + Secure
  BY DEF JobServed, Served
<1>1. InHeap(j) /\ wake'[j] = wake[j]
  BY DEF InHeap
<1>2. wake[j] \in Nat /\ clock \in Nat /\ clock' \in Nat /\ Secure \in Nat
  BY <1>1, SystemAssumption DEF InHeap, TypeOK
<1>3. ASSUME Pending(j) PROVE wake'[j] <= clock' + Secure
  <2>1. wake[j] <= clock + Secure
    BY <1>1, <1>3 DEF JobServed
  <2> QED
    BY <1>1, <1>2, <2>1
<1>4. ASSUME NEW d \in agenda'[j] \ late'[j], ~Pending(j)
      PROVE  wake'[j] <= d \/ wake'[j] <= clock' + Secure
  <2>1. wake[j] <= d \/ wake[j] <= clock + Secure
    BY <1>1, <1>4 DEF JobServed, Served
  <2> QED
    BY <1>1, <1>2, <2>1
<1> QED
  BY <1>3, <1>4

\* The transaction which edits a row: it may push a REFRESH.
LEMMA ServedEdit ==
    ASSUME TypeOK, TypeOK', NEW j \in Pseudo, JobServed(j),
           \/ \E k \in Jobs : \E c \in Confs(k) : EditJob(k, c)
           \/ CommitEdit \/ RollbackEdit \/ \E k \in Jobs : PollJob(k)
    PROVE  JobServed(j)'
<1>1. UNCHANGED <<clock, agenda, late, adding, sched, wake, mem>>
  BY DEF EditJob, CommitEdit, RollbackEdit, PollJob, schedVars, heapVars, history
<1>2. Queued(j) => Queued(j)'
  <2>1. ASSUME NEW k \in Jobs, NEW c \in Confs(k), EditJob(k, c), Queued(j) PROVE Queued(j)'
    <3>1. REFRESH(k, c) \in Commands /\ (Push(REFRESH(k, c)) \/ Refuse) /\ j \in Jobs
      BY <2>1, CommandsType, SystemAssumption DEF EditJob, AllConfs
    <3> QED
      BY <2>1, <3>1, PushQueued
  <2>2. CASE CommitEdit \/ RollbackEdit \/ \E k \in Jobs : PollJob(k)
    <3>1. UNCHANGED queue
      BY <2>2 DEF CommitEdit, RollbackEdit, PollJob
    <3> QED
      BY <3>1 DEF Queued
  <2> QED
    BY <2>1, <2>2
<1>3. clock <= clock' /\ (Pending(j)' => Pending(j))
  BY <1>1 DEF Pending, TypeOK
<1> QED
  BY <1>1, <1>2, <1>3, ServedFrame

\* The transaction which adds data: a REFRESH is in the list until it is handled.
LEMMA ServedItem ==
    ASSUME TypeOK, TypeOK', NEW j \in Pseudo, JobServed(j),
           \/ \E k \in Jobs : \E d \in Delays : AddItem(k, d)
           \/ SendItem \/ CommitItem \/ RollbackItem
    PROVE  JobServed(j)'
<1>1. UNCHANGED <<clock, sched, wake, mem>> /\ clock <= clock'
  BY DEF AddItem, SendItem, CommitItem, RollbackItem, schedVars, heapVars, TypeOK
<1>2. ASSUME NEW k \in Jobs, NEW d \in Delays, AddItem(k, d) PROVE JobServed(j)'
  <2>1. UNCHANGED <<agenda, late, queue>> /\ adding'.sent = FALSE
    BY <1>2 DEF AddItem
  <2> QED
    BY <1>1, <2>1, ServedFrame DEF Pending, Queued
<1>3. CASE SendItem
  <2>1. adding \in Items /\ adding.job \in Jobs /\ adding.conf \in AllConfs
    BY <1>3, SystemAssumption DEF SendItem, TypeOK, Items
  <2>2. REFRESH(adding.job, adding.conf) \in Commands
    BY <2>1, CommandsType
  <2>3. UNCHANGED <<agenda, late>>
    BY <1>3 DEF SendItem, history
  <2>4. CASE Push(REFRESH(adding.job, adding.conf)) /\ adding' = [adding EXCEPT !.sent = TRUE]
    <3>1. Queued(j) => Queued(j)'
      BY <2>2, <2>4, PushQueued, SystemAssumption
    <3>2. adding.job = j => Queued(j)'
      <4>1. /\ REFRESH(adding.job, adding.conf).type = "REFRESH"
            /\ REFRESH(adding.job, adding.conf).job = adding.job
        BY DEF REFRESH
      <4> QED
        BY <2>1, <2>2, <2>4, <4>1, PushedQueued
    <3>3. CASE adding.job = j
      BY <3>2, <3>3 DEF JobServed, InHeap
    <3>4. CASE adding.job # j
      <4>1. adding'.job # j
        BY <2>1, <2>4, <3>4 DEF Items
      <4> QED
        BY <1>1, <2>3, <3>1, <4>1, ServedFrame DEF Pending
    <3> QED
      BY <3>3, <3>4
  <2>5. CASE Refuse /\ adding' = [adding EXCEPT !.sent = TRUE, !.late = TRUE]
    <3>1. adding'.late /\ queue' = queue
      BY <2>1, <2>5 DEF Items, Refuse
    <3> QED
      BY <1>1, <2>3, <3>1, ServedFrame DEF Pending, Queued
  <2> QED
    BY <1>3, <2>4, <2>5 DEF SendItem
<1>4. CASE CommitItem
  <2>1. /\ adding # NoItem /\ adding.sent /\ adding' = NoItem
        /\ agenda' = [agenda EXCEPT ![adding.job] = @ \cup {adding.due}]
        /\ late' = IF adding.late THEN [late EXCEPT ![adding.job] = @ \cup {adding.due}] ELSE late
        /\ queue' = queue
    BY <1>4 DEF CommitItem
  <2>2. j \in Jobs /\ adding.late \in BOOLEAN
    BY <2>1, SystemAssumption DEF TypeOK, Items
  <2>3. \A d \in agenda'[j] \ late'[j] : d \in agenda[j] \ late[j] \/ Pending(j)
    BY <2>1, <2>2 DEF TypeOK, Pending
  <2> QED
    BY <1>1, <2>1, <2>3, ServedFrame DEF Pending, Queued
<1>5. CASE RollbackItem
  <2>1. adding' = NoItem /\ UNCHANGED <<agenda, late, queue>>
    BY <1>5 DEF RollbackItem, history
  <2> QED
    BY <1>1, <2>1, ServedFrame DEF Pending, Queued
<1> QED
  BY <1>2, <1>3, <1>4, <1>5
\* The scheduler waits or starts a job, and time passes.
LEMMA ServedQuiet ==
    ASSUME TypeOK, TypeOK', NEW j \in Pseudo, JobServed(j),
           Block \/ Timeout \/ WaitReturns \/ Tick \/ UNCHANGED vars \/ \E k \in Jobs : RunJob(k)
    PROVE  JobServed(j)'
<1>1. UNCHANGED <<agenda, late, adding, queue>>
  BY DEF Block, Timeout, WaitReturns, Tick, RunJob, vars, dbVars, history
<1>2. /\ clock <= clock' /\ sched' = sched /\ mem' = mem
      /\ \A k \in Jobs : wake'[k] # None => wake'[k] = wake[k]
  BY DatesFrame
<1>3. j \in Jobs
  BY SystemAssumption
<1> QED
  BY <1>1, <1>2, <1>3, ServedFrame DEF Queued, Pending

\* A process handles the data which are due.
LEMMA ServedProcess ==
    ASSUME TypeOK, TypeOK', NEW j \in Pseudo, JobServed(j),
           NEW k \in Jobs, EndRun(k) \/ EndOrphan(k) \/ Kill(k)
    PROVE  JobServed(j)'
<1>1. UNCHANGED <<clock, adding, sched, wake, mem>> /\ clock <= clock'
  <2>1. UNCHANGED <<clock, adding, sched, wake, mem>>
    BY ProcessStep
  <2> QED
    BY <2>1 DEF TypeOK
<1>2. END(k) \in Commands /\ (Push(END(k)) \/ Refuse \/ UNCHANGED queue)
  BY CommandsType, ProcessStep
<1>3. j \in Jobs
  BY SystemAssumption
<1>4. Queued(j) => Queued(j)'
  <2>1. CASE UNCHANGED queue
    BY <2>1 DEF Queued
  <2> QED
    BY <1>2, <1>3, <2>1, PushQueued
<1>5. agenda'[j] \ late'[j] \subseteq agenda[j] \ late[j]
  <2>1. PICK due \in SUBSET Nat : Handle(k, due)
    BY ProcessStep
  <2> QED
    BY <1>3, <2>1 DEF Handle, TypeOK
<1> QED
  BY <1>1, <1>4, <1>5, ServedFrame DEF Pending

\* The transaction whose data have not been seen is late.
LEMMA MissedIsLate ==
    ASSUME TypeOK, NEW js, MissItem(js), NEW j \in js
    PROVE  ~Pending(j)'
<1>1. CASE adding # NoItem /\ adding.sent /\ adding.job \in js
  <2>1. adding \in Items /\ adding' = [adding EXCEPT !.late = TRUE]
    BY <1>1 DEF MissItem, TypeOK
  <2>2. adding'.late = TRUE
    BY <2>1 DEF Items
  <2> QED
    BY <2>2 DEF Pending
<1>2. CASE ~(adding # NoItem /\ adding.sent /\ adding.job \in js)
  <2>1. adding' = adding
    BY <1>2 DEF MissItem
  <2> QED
    BY <1>2, <2>1 DEF Pending
<1> QED
  BY <1>1, <1>2

\* The transactions of other jobs are left alone.
LEMMA MissedOthers ==
    ASSUME TypeOK, NEW js, MissItem(js), NEW j, Pending(j)'
    PROVE  Pending(j)
<1>1. CASE adding' = adding
  BY <1>1 DEF Pending
<1>2. CASE adding # NoItem /\ adding' = [adding EXCEPT !.late = TRUE]
  <2>1. adding \in Items
    BY <1>2 DEF TypeOK
  <2>2. adding'.late = TRUE
    BY <1>2, <2>1 DEF Items
  <2> QED
    BY <2>2 DEF Pending
<1> QED
  BY <1>1, <1>2 DEF MissItem

\* A scheduler which starts reads all the data which are committed.
LEMMA ServedStart ==
    ASSUME TypeOK, TypeOK', NEW j \in Pseudo, SchedClear \/ SchedStop \/ RetrieveJobs
    PROVE  JobServed(j)'
<1>1. CASE SchedClear \/ SchedStop
  <2>1. sched' # "up"
    BY <1>1 DEF SchedClear, SchedStop
  <2> QED
    BY <2>1 DEF JobServed, InHeap
<1>2. CASE RetrieveJobs
  <2>1. /\ clock' = clock /\ agenda' = agenda /\ MissItem(Jobs)
    BY <1>2 DEF RetrieveJobs
  <2>2. j \in Jobs
    BY SystemAssumption
  <2>3. ~Pending(j)'
    BY <2>1, <2>2, MissedIsLate
  <2>4. mem'[j].enabled => \A d \in agenda'[j] : wake'[j] <= d
    BY <1>2, <2>1, <2>2, DatesAtStart
  <2> QED
    BY <2>3, <2>4 DEF JobServed, InHeap, Served
<1> QED
  BY <1>1, <1>2

\* A job which receives a REFRESH runs within the security delay.
LEMMA ServedRefresh ==
    ASSUME TypeOK, TypeOK', HeapInv, NEW j \in Pseudo, JobServed(j),
           NEW k \in Jobs, NEW c \in AllConfs, HandleRefresh(k, c)
    PROVE  JobServed(j)'
<1>1. /\ UNCHANGED <<clock, sched, agenda, adding>> /\ clock <= clock'
      /\ NextCommand(REFRESH(k, c)) /\ sched = "up" /\ j \in Jobs
  BY SystemAssumption DEF HandleRefresh, NextCommand, Ready, dbVars, TypeOK
<1>2. /\ REFRESH(k, c).type = "REFRESH" /\ REFRESH(k, c).job = k
  BY DEF REFRESH
<1>3. Pending(j)' => Pending(j)
  BY <1>1 DEF Pending
<1>4. k # j /\ Queued(j) => Queued(j)'
  BY <1>1, <1>2, PopQueued
<1>5. CASE starts[k] # None
  <2>1. UNCHANGED <<late, wake, mem>>
    BY <1>5 DEF HandleRefresh, heapVars, history
  <2>2. k = j => wake'[j] = None
    BY <1>1, <1>5, <2>1 DEF HeapInv
  <2> QED
    BY <1>1, <1>3, <1>4, <2>1, <2>2, ServedFrame
<1>6. CASE starts[k] = None /\ k = j
  <2>1. mem'[j].enabled => wake'[j] <= clock' + Secure
    BY <1>1, <1>6, DatesAtRefresh
  <2> QED
    BY <2>1 DEF JobServed, InHeap, Served
<1>7. CASE starts[k] = None /\ k # j
  <2>1. mem'[j] = mem[j] /\ wake'[j] = wake[j]
    BY <1>1, <1>7, DatesAtRefresh
  <2>2. late'[j] = late[j]
    BY <1>1, <1>7 DEF HandleRefresh, TypeOK
  <2> QED
    BY <1>1, <1>3, <1>4, <1>7, <2>1, <2>2, ServedFrame
<1> QED
  BY <1>5, <1>6, <1>7

\* A job which ends is given the first date of its committed data.
LEMMA ServedEnd ==
    ASSUME TypeOK, TypeOK', HeapInv, NEW j \in Pseudo, JobServed(j), NEW k \in Jobs, HandleEnd(k)
    PROVE  JobServed(j)'
<1>1. /\ UNCHANGED <<clock, sched, agenda>> /\ clock <= clock'
      /\ NextCommand(END(k)) /\ sched = "up" /\ j \in Jobs
  BY SystemAssumption DEF HandleEnd, NextCommand, Ready, TypeOK
<1>2. END(k).type # "REFRESH"
  BY DEF END
<1>3. Queued(j) => Queued(j)'
  BY <1>1, <1>2, PopQueued
<1>4. CASE starts[k] = None
  <2>1. UNCHANGED <<adding, late, wake, mem>>
    BY <1>4 DEF HandleEnd, heapVars, history
  <2> QED
    BY <1>1, <1>3, <2>1, ServedFrame DEF Pending
<1>5. CASE starts[k] # None /\ k = j
  <2>1. mem'[j].enabled => \A d \in agenda'[j] : wake'[j] <= d
    BY <1>1, <1>5, DatesAtEnd
  <2>2. ~Pending(j)'
    BY <1>5, MissedIsLate DEF HandleEnd, ReadAtEnd
  <2> QED
    BY <2>1, <2>2 DEF JobServed, InHeap, Served
<1>6. CASE starts[k] # None /\ k # j
  <2>1. mem'[j] = mem[j] /\ wake'[j] = wake[j]
    BY <1>1, <1>6, DatesAtEnd
  <2>2. late'[j] = late[j]
    BY <1>1, <1>6 DEF HandleEnd, ReadAtEnd, TypeOK
  <2>3. Pending(j)' => Pending(j)
    BY <1>6, MissedOthers DEF HandleEnd, ReadAtEnd
  <2> QED
    BY <1>1, <1>3, <2>1, <2>2, <2>3, ServedFrame
<1> QED
  BY <1>4, <1>5, <1>6

\* Each step serves the agenda of each job.
LEMMA ServedNext == TypeOK /\ TypeOK' /\ HeapInv /\ AgendaInv /\ [Next]_vars => AgendaInv'
<1> SUFFICES ASSUME TypeOK, TypeOK', HeapInv, AgendaInv, [Next]_vars, NEW j \in Pseudo
             PROVE  JobServed(j)'
  BY ServedJobByJobNext
<1>1. JobServed(j)
  BY ServedJobByJob
<1>2. CASE \/ \E k \in Jobs : \E c \in Confs(k) : EditJob(k, c)
           \/ CommitEdit \/ RollbackEdit \/ \E k \in Jobs : PollJob(k)
  BY <1>1, <1>2, ServedEdit
<1>3. CASE \/ \E k \in Jobs : \E d \in Delays : AddItem(k, d)
           \/ SendItem \/ CommitItem \/ RollbackItem
  BY <1>1, <1>3, ServedItem
<1>4. CASE Block \/ Timeout \/ WaitReturns \/ Tick \/ UNCHANGED vars \/ \E k \in Jobs : RunJob(k)
  BY <1>1, <1>4, ServedQuiet
<1>5. CASE SchedClear \/ SchedStop \/ RetrieveJobs
  BY <1>5, ServedStart
<1>6. ASSUME NEW k \in Jobs, NEW c \in Confs(k), HandleRefresh(k, c) PROVE JobServed(j)'
  <2>1. c \in AllConfs
    BY DEF AllConfs
  <2> QED
    BY <1>1, <1>6, <2>1, ServedRefresh
<1>7. ASSUME NEW k \in Jobs, HandleEnd(k) PROVE JobServed(j)'
  BY <1>1, <1>7, ServedEnd
<1>8. ASSUME NEW k \in Jobs, EndRun(k) \/ EndOrphan(k) \/ Kill(k) PROVE JobServed(j)'
  BY <1>1, <1>8, ServedProcess
<1> QED
  BY <1>2, <1>3, <1>4, <1>5, <1>6, <1>7, <1>8 DEF Next

\* At first there are no data.
LEMMA ServedInit == Init => AgendaInv
  BY DEF Init, AgendaInv, AgendaServed, ItemServed

\* The strengthened form: the data of the transaction still open are served too.
THEOREM AgendaAndItem == Spec => []AgendaInv
  BY TypeInit, TypeNext, HeapInit, HeapNext, ServedInit, ServedNext, PTL DEF Spec

\* Data which are committed in time make the job run at their date, or within the
\* security delay: the REFRESH sent before the commit is enough.
THEOREM DataServedInTime == Spec => []AgendaServed
<1>1. AgendaInv => AgendaServed
  BY DEF AgendaInv
<1> QED
  BY <1>1, AgendaAndItem, PTL

-----------------------------------------------------------------------------
(* The values of the jobs.                                                 *)

RefreshAt(i, j)   == queue[i].type = "REFRESH" /\ queue[i].job = j
LastRefresh(i, j) == RefreshAt(i, j) /\ \A k \in 1..Len(queue) : k > i => ~RefreshAt(k, j)

\* The values the scheduler has been told of: those of the open edition, or of the
\* row, unless the push which carried them was refused.
Expected(j, v) == IF IsEdited(j) THEN edit.ack = 0 /\ v = edit.conf
                  ELSE ack[j] = 0 /\ v = conf[j]

AddsValues(j)      == IsAdding(j) => ~IsEdited(j) /\ adding.conf = conf[j]
QueueCarries(j, v) == \A i \in 1..Len(queue) : LastRefresh(i, j) => queue[i].conf = v
HeapHolds(j, v)    ==
    sched = "up" /\ wake[j] # None /\ ~Queued(j) /\ j \notin missed => mem[j] = v
Known(j) == j \notin raced =>
    /\ AddsValues(j)
    /\ \A v \in AllConfs : Expected(j, v) => QueueCarries(j, v) /\ HeapHolds(j, v)

\* The inductive strengthening of MemoryFollowsRows: of a job which has not raced, the last
\* REFRESH of the list carries the expected values, and the heap holds them when the list
\* has none; the next REFRESH, of an addition, will carry them too.
ValuesKnown == \A j \in Jobs : Known(j)

\* The push of a REFRESH of the job makes it the last one; another push changes nothing.
LEMMA PushCarries ==
    ASSUME TypeOK, NEW cmd \in Commands, Push(cmd), NEW j \in Jobs, NEW v
    PROVE  /\ cmd.type = "REFRESH" /\ cmd.job = j =>
                Queued(j)' /\ (cmd.conf = v => QueueCarries(j, v)')
           /\ ~(cmd.type = "REFRESH" /\ cmd.job = j) =>
                (QueueCarries(j, v) => QueueCarries(j, v)')
<1>1. queue \in Seq(Commands) /\ queue' = Append(queue, cmd)
  BY DEF TypeOK, Push
<1>2. PICK n \in Nat : /\ Len(queue) = n /\ Len(queue') = n + 1
                       /\ \A i \in 1..n : queue'[i] = queue[i]
                       /\ queue'[n + 1] = cmd
  BY <1>1, AppendProperties, LenProperties
<1>3. CASE cmd.type = "REFRESH" /\ cmd.job = j
  <2>1. RefreshAt(n + 1, j)'
    BY <1>2, <1>3 DEF RefreshAt
  <2>2. \A i \in 1..Len(queue') : LastRefresh(i, j)' => i = n + 1
    BY <1>2, <2>1 DEF LastRefresh
  <2> QED
    BY <1>2, <1>3, <2>2, PushedQueued DEF QueueCarries
<1>4. CASE ~(cmd.type = "REFRESH" /\ cmd.job = j)
  <2>1. ~RefreshAt(n + 1, j)'
    BY <1>2, <1>4 DEF RefreshAt
  <2>2. \A i \in 1..n : RefreshAt(i, j)' <=> RefreshAt(i, j)
    BY <1>2 DEF RefreshAt
  <2>3. \A i \in 1..Len(queue') : LastRefresh(i, j)' => i \in 1..n /\ LastRefresh(i, j)
    BY <1>2, <2>1, <2>2 DEF LastRefresh
  <2> QED
    BY <1>2, <1>4, <2>3 DEF QueueCarries
<1> QED
  BY <1>3, <1>4

\* A pop keeps the last REFRESH of the job, unless it is the one which is popped.
LEMMA PopCarries ==
    ASSUME TypeOK, NEW cmd, NextCommand(cmd), NEW j \in Jobs, NEW v, QueueCarries(j, v)
    PROVE  /\ QueueCarries(j, v)'
           /\ cmd.type = "REFRESH" /\ cmd.job = j /\ ~Queued(j)' => cmd.conf = v
<1>1. queue \in Seq(Commands) /\ queue # <<>> /\ Head(queue) = cmd /\ queue' = Tail(queue)
  BY DEF TypeOK, NextCommand
<1>2. /\ queue[1] = cmd /\ Len(queue') = Len(queue) - 1 /\ Len(queue) \in Nat /\ Len(queue) > 0
      /\ \A k \in 1..Len(queue') : queue'[k] = queue[k + 1]
  BY <1>1, HeadTailProperties, LenProperties, EmptySeq
<1>3. \A k \in 1..Len(queue') : RefreshAt(k, j)' <=> RefreshAt(k + 1, j)
  BY <1>2 DEF RefreshAt
<1>4. ASSUME NEW i \in 1..Len(queue'), LastRefresh(i, j)' PROVE queue'[i].conf = v
  <2>1. i + 1 \in 1..Len(queue) /\ RefreshAt(i + 1, j)
    BY <1>2, <1>3, <1>4 DEF LastRefresh
  <2>2. ASSUME NEW k \in 1..Len(queue), k > i + 1 PROVE ~RefreshAt(k, j)
    <3>1. k - 1 \in 1..Len(queue') /\ k - 1 > i /\ (k - 1) + 1 = k
      BY <1>2, <2>2
    <3> HIDE <2>2
    <3> DEFINE m == k - 1
    <3>2. m \in 1..Len(queue') /\ m > i /\ m + 1 = k
      BY <3>1
    <3> HIDE DEF m
    <3>3. ~RefreshAt(m, j)'
      BY <1>4, <3>2 DEF LastRefresh
    <3> QED
      BY <1>3, <3>2, <3>3
  <2>3. LastRefresh(i + 1, j)
    BY <2>1, <2>2 DEF LastRefresh
  <2> QED
    BY <1>2, <2>1, <2>3 DEF QueueCarries
<1>5. ASSUME cmd.type = "REFRESH", cmd.job = j, ~Queued(j)' PROVE cmd.conf = v
  <2>1. \A k \in 1..Len(queue') : ~RefreshAt(k, j)'
    BY <1>5 DEF Queued, RefreshAt
  <2>2. ASSUME NEW k \in 1..Len(queue), k > 1 PROVE ~RefreshAt(k, j)
    <3> DEFINE m == k - 1
    <3>1. m \in 1..Len(queue') /\ m + 1 = k
      BY <1>2, <2>2
    <3> HIDE DEF m
    <3> QED
      BY <1>3, <2>1, <3>1
  <2>3. 1 \in 1..Len(queue) /\ LastRefresh(1, j)
    BY <1>2, <1>5, <2>2 DEF LastRefresh, RefreshAt
  <2> QED
    BY <1>2, <2>3 DEF QueueCarries
<1> QED
  BY <1>4, <1>5 DEF QueueCarries

\* A list which does not change carries the same values.
LEMMA SameCarries ==
    ASSUME UNCHANGED queue, NEW j \in Jobs
    PROVE  /\ Queued(j)' <=> Queued(j)
           /\ \A v : QueueCarries(j, v) => QueueCarries(j, v)'
  BY DEF Queued, QueueCarries, LastRefresh, RefreshAt

\* A step after which less is expected, and which keeps the list and the heap, knows the job.
LEMMA KnownFrame ==
    ASSUME NEW j \in Jobs, Known(j),
           j \notin raced' => j \notin raced,
           AddsValues(j) => AddsValues(j)',
           \A v \in AllConfs : Expected(j, v)' => Expected(j, v),
           \A v \in AllConfs : QueueCarries(j, v) => QueueCarries(j, v)',
           Queued(j) => Queued(j)',
           sched' = "up" => sched = "up",
           wake'[j] # None => wake[j] # None /\ mem'[j] = mem[j],
           j \in missed => j \in missed'
    PROVE  Known(j)'
<1> SUFFICES ASSUME j \notin raced'
             PROVE  /\ AddsValues(j)'
                    /\ \A v \in AllConfs : Expected(j, v)' => QueueCarries(j, v)' /\ HeapHolds(j, v)'
  BY DEF Known
<1>1. /\ AddsValues(j)
      /\ \A v \in AllConfs : Expected(j, v) => QueueCarries(j, v) /\ HeapHolds(j, v)
  BY DEF Known
<1>2. \A v \in AllConfs : HeapHolds(j, v) => HeapHolds(j, v)'
  BY DEF HeapHolds
<1> QED
  BY <1>1, <1>2

\* The views: an edition is expected as soon as its REFRESH is pushed, and its commit
\* or its rollback changes nothing to what is expected, or makes the job race.
LEMMA KnownEdit ==
    ASSUME TypeOK, NEW j \in Jobs, Known(j),
           \/ \E k \in Jobs : \E c \in Confs(k) : EditJob(k, c)
           \/ CommitEdit \/ RollbackEdit \/ \E k \in Jobs : PollJob(k)
    PROVE  Known(j)'
<1>1. /\ UNCHANGED <<adding, sched, wake, mem, missed>>
      /\ UNCHANGED conf \/ CommitEdit
  BY DEF EditJob, CommitEdit, RollbackEdit, PollJob, schedVars, heapVars, history
<1>n. None \notin Jobs /\ NoEdit.job = None
  BY SystemAssumption DEF NoEdit
<1>2. ASSUME NEW k \in Jobs, NEW c \in Confs(k), EditJob(k, c) PROVE Known(j)'
  <2>1. /\ edit = NoEdit /\ UNCHANGED <<conf, ack>> /\ ~IsEdited(j)
        /\ raced' = IF IsAdding(k) THEN raced \cup {k} ELSE raced
    BY <1>2, <1>n DEF EditJob, IsEdited
  <2>2. c \in AllConfs /\ REFRESH(k, c) \in Commands
    BY CommandsType DEF AllConfs
  <2>3. /\ REFRESH(k, c).type = "REFRESH" /\ REFRESH(k, c).job = k /\ REFRESH(k, c).conf = c
    BY DEF REFRESH
  <2>4. \/ Push(REFRESH(k, c)) /\ edit' = [job |-> k, conf |-> c, ack |-> 0]
        \/ Refuse /\ edit' = [job |-> k, conf |-> c, ack |-> 1]
    BY <1>2 DEF EditJob
  <2>5. CASE k # j
    <3>1. edit'.job = k
      BY <2>4
    <3>2. \A v \in AllConfs : QueueCarries(j, v) => QueueCarries(j, v)'
      BY <2>2, <2>3, <2>4, <2>5, PushCarries, SameCarries DEF Refuse
    <3>3. Queued(j) => Queued(j)'
      BY <2>2, <2>4, PushQueued
    <3>4. ~IsEdited(j)'
      BY <2>5, <3>1 DEF IsEdited
    <3> QED
      BY <1>1, <2>1, <3>2, <3>3, <3>4, KnownFrame DEF AddsValues, IsAdding, Expected
  <2>6. CASE k = j
    <3>1. edit'.job = j /\ edit'.conf = c /\ (Push(REFRESH(j, c)) \/ edit'.ack = 1)
      BY <2>4, <2>6
    <3>2. IsEdited(j)'
      BY <3>1 DEF IsEdited
    <3>3. j \notin raced' => ~IsAdding(j)'
      BY <1>1, <2>1, <2>6 DEF IsAdding
    <3>4. ASSUME NEW v \in AllConfs, Expected(j, v)'
          PROVE  QueueCarries(j, v)' /\ HeapHolds(j, v)'
      <4>1. edit'.ack = 0 /\ v = c
        BY <3>1, <3>2, <3>4 DEF Expected
      <4>2. Push(REFRESH(j, c))
        BY <3>1, <4>1
      <4>3. Queued(j)' /\ QueueCarries(j, v)'
        BY <2>2, <2>3, <2>6, <4>1, <4>2, PushCarries
      <4> QED
        BY <4>3 DEF HeapHolds
    <3> QED
      BY <3>3, <3>4 DEF Known, AddsValues
  <2> QED
    BY <2>5, <2>6
<1>3. CASE CommitEdit
  <2>1. /\ edit \in Edits /\ edit' = NoEdit /\ UNCHANGED <<queue, raced>>
        /\ conf' = [conf EXCEPT ![edit.job] = edit.conf]
        /\ ack' = [ack EXCEPT ![edit.job] = @ + edit.ack]
    BY <1>3 DEF CommitEdit, TypeOK, history
  <2>2. edit.job \in Jobs /\ edit.ack \in Nat /\ ack[j] \in Nat /\ ~IsEdited(j)'
    BY <1>n, <2>1 DEF Edits, TypeOK, IsEdited
  <2>3. \A v : Expected(j, v)' => Expected(j, v)
    BY <2>1, <2>2 DEF Expected, IsEdited, TypeOK
  <2>4. AddsValues(j) => AddsValues(j)'
    BY <1>1, <2>1, <2>2 DEF AddsValues, IsAdding, IsEdited, TypeOK
  <2> QED
    BY <1>1, <2>1, <2>3, <2>4, SameCarries, KnownFrame
<1>4. CASE RollbackEdit
  <2>1. /\ edit' = NoEdit /\ raced' = raced \cup {edit.job} /\ UNCHANGED <<conf, ack, queue>>
    BY <1>4 DEF RollbackEdit
  <2>2. CASE IsEdited(j)
    BY <2>1, <2>2 DEF IsEdited, Known
  <2>3. CASE ~IsEdited(j)
    <3>1. ~IsEdited(j)'
      BY <1>n, <2>1 DEF IsEdited
    <3> QED
      BY <1>1, <2>1, <2>3, <3>1, SameCarries, KnownFrame DEF Expected, AddsValues, IsAdding
  <2> QED
    BY <2>2, <2>3
<1>5. ASSUME NEW k \in Jobs, PollJob(k) PROVE Known(j)'
  <2>1. /\ ack' = [ack EXCEPT ![k] = 0] /\ raced' = raced \cup {k} /\ UNCHANGED <<conf, edit, queue>>
    BY <1>5 DEF PollJob
  <2>2. CASE k = j
    BY <2>1, <2>2 DEF Known
  <2>3. CASE k # j
    <3>1. ack'[j] = ack[j]
      BY <2>1, <2>3 DEF TypeOK
    <3> QED
      BY <1>1, <2>1, <3>1, SameCarries, KnownFrame DEF Expected, AddsValues, IsAdding, IsEdited
  <2> QED
    BY <2>2, <2>3
<1> QED
  BY <1>2, <1>3, <1>4, <1>5

\* The transaction which adds data: the REFRESH it sends carries the values of the row.
LEMMA KnownItem ==
    ASSUME TypeOK, NEW j \in Jobs, Known(j),
           \/ \E k \in Jobs : \E d \in Delays : AddItem(k, d)
           \/ SendItem \/ CommitItem \/ RollbackItem
    PROVE  Known(j)'
<1>1. UNCHANGED <<conf, ack, edit, sched, wake, mem, missed>>
  BY DEF AddItem, SendItem, CommitItem, RollbackItem, schedVars, heapVars, history
<1>2. \A v : Expected(j, v)' <=> Expected(j, v)
  BY <1>1 DEF Expected, IsEdited
<1>3. ASSUME NEW k \in Jobs, NEW d \in Delays, AddItem(k, d) PROVE Known(j)'
  <2>1. /\ adding'.job = k /\ adding'.conf = conf[k] /\ queue' = queue
        /\ raced' = IF IsEdited(k) THEN raced \cup {k} ELSE raced
    BY <1>3 DEF AddItem
  <2>2. CASE k = j /\ IsEdited(j)
    BY <2>1, <2>2 DEF Known
  <2>3. CASE ~(k = j /\ IsEdited(j))
    <3>1. AddsValues(j)'
      BY <1>1, <2>1, <2>3 DEF AddsValues, IsAdding, IsEdited
    <3> QED
      BY <1>1, <1>2, <2>1, <3>1, SameCarries, KnownFrame
  <2> QED
    BY <2>2, <2>3
<1>4. CASE SendItem
  <2>1. /\ adding \in Items /\ adding.job \in Jobs /\ adding.conf \in AllConfs /\ raced' = raced
    BY <1>4, SystemAssumption DEF SendItem, TypeOK, Items, history
  <2> DEFINE cmd == REFRESH(adding.job, adding.conf)
  <2>2. cmd \in Commands /\ cmd.type = "REFRESH" /\ cmd.job = adding.job /\ cmd.conf = adding.conf
    BY <2>1, CommandsType DEF REFRESH
  <2>3. /\ adding'.job = adding.job /\ adding'.conf = adding.conf
        /\ Push(cmd) \/ Refuse
    BY <1>4, <2>1 DEF SendItem, Items
  <2> HIDE DEF cmd
  <2>4. AddsValues(j) <=> AddsValues(j)'
    BY <1>1, <2>3 DEF AddsValues, IsAdding, IsEdited
  <2>5. Queued(j) => Queued(j)'
    BY <2>2, <2>3, PushQueued
  <2>6. CASE Refuse \/ adding.job # j
    <3>1. \A v : QueueCarries(j, v) => QueueCarries(j, v)'
      BY <2>2, <2>3, <2>6, PushCarries, SameCarries DEF Refuse
    <3> QED
      BY <1>1, <1>2, <2>1, <2>4, <2>5, <3>1, KnownFrame
  <2>7. CASE Push(cmd) /\ adding.job = j
    <3>1. SUFFICES ASSUME j \notin raced, NEW v \in AllConfs, Expected(j, v)
                   PROVE  QueueCarries(j, v)' /\ HeapHolds(j, v)'
      BY <1>2, <2>1, <2>4 DEF Known
    <3>2. v = adding.conf
      BY <2>7, <3>1 DEF Known, AddsValues, IsAdding, Expected
    <3>3. Queued(j)' /\ QueueCarries(j, v)'
      BY <2>2, <2>7, <3>2, PushCarries
    <3> QED
      BY <3>3 DEF HeapHolds
  <2> QED
    BY <2>3, <2>6, <2>7
<1>5. CASE CommitItem \/ RollbackItem
  <2>1. adding' = NoItem /\ UNCHANGED <<queue, raced>>
    BY <1>5 DEF CommitItem, RollbackItem, history
  <2>2. AddsValues(j)'
    BY <2>1, SystemAssumption DEF AddsValues, IsAdding, NoItem
  <2> QED
    BY <1>1, <1>2, <2>1, <2>2, SameCarries, KnownFrame
<1> QED
  BY <1>3, <1>4, <1>5

\* The transaction whose data are missed keeps its job and the values it has read.
LEMMA MissItemKeeps ==
    ASSUME TypeOK, NEW js, MissItem(js)
    PROVE  adding'.job = adding.job /\ adding'.conf = adding.conf
<1>1. CASE adding # NoItem /\ adding' = [adding EXCEPT !.late = TRUE]
  <2>1. adding \in Items
    BY <1>1 DEF TypeOK
  <2> QED
    BY <1>1, <2>1 DEF Items
<1> QED
  BY <1>1 DEF MissItem

\* The scheduler which reads the row of a job knows its committed values, and that an
\* open edition is not among them.
LEMMA KnownRead ==
    ASSUME TypeOK, NEW j \in Jobs, Known(j), UNCHANGED <<conf, ack, edit>>,
           adding'.job = adding.job, adding'.conf = adding.conf,
           mem'[j] = conf[j],
           \A v \in AllConfs : QueueCarries(j, v) => QueueCarries(j, v)',
           j \notin raced' => j \notin raced \/ ~(IsEdited(j) \/ Queued(j)' \/ IsAdding(j)),
           IsEdited(j) => j \in raced' \cup missed'
    PROVE  Known(j)'
<1> SUFFICES ASSUME j \notin raced'
             PROVE  /\ AddsValues(j)'
                    /\ \A v \in AllConfs : Expected(j, v)' => QueueCarries(j, v)' /\ HeapHolds(j, v)'
  BY DEF Known
<1>1. \A v : Expected(j, v)' <=> Expected(j, v)
  BY DEF Expected, IsEdited
<1>2. \A v \in AllConfs : Expected(j, v) => HeapHolds(j, v)'
  BY DEF Expected, HeapHolds
<1>3. CASE j \notin raced
  <2>1. AddsValues(j)'
    BY <1>3 DEF Known, AddsValues, IsAdding, IsEdited
  <2> QED
    BY <1>1, <1>2, <1>3, <2>1 DEF Known
<1>4. CASE ~(IsEdited(j) \/ Queued(j)' \/ IsAdding(j))
  <2>1. AddsValues(j)'
    BY <1>4 DEF AddsValues, IsAdding
  <2>2. \A v : QueueCarries(j, v)'
    BY <1>4 DEF QueueCarries, LastRefresh, RefreshAt, Queued
  <2> QED
    BY <1>1, <1>2, <2>1, <2>2
<1> QED
  BY <1>3, <1>4

\* The scheduler stops, boots, waits or starts a job.
LEMMA KnownScheduler ==
    ASSUME TypeOK, NEW j \in Jobs, Known(j),
           \/ SchedClear \/ RetrieveJobs \/ SchedStop
           \/ Block \/ Timeout \/ WaitReturns \/ Tick \/ UNCHANGED vars
           \/ \E k \in Jobs : RunJob(k)
    PROVE  Known(j)'
<1>1. CASE SchedClear
  <2>1. queue' = <<>> /\ sched' # "up" /\ UNCHANGED <<conf, ack, edit, adding, raced>>
    BY <1>1 DEF SchedClear, dbVars, history
  <2>2. \A v : QueueCarries(j, v)'
    BY <2>1 DEF QueueCarries
  <2> QED
    BY <2>1, <2>2 DEF Known, AddsValues, IsAdding, IsEdited, Expected, HeapHolds
<1>2. CASE RetrieveJobs
  <2>1. /\ UNCHANGED <<conf, ack, edit, queue>> /\ mem' = conf
        /\ raced' = OpenEdit \cup {k \in raced : Queued(k) \/ IsAdding(k)}
    BY <1>2 DEF RetrieveJobs
  <2>2. adding'.job = adding.job /\ adding'.conf = adding.conf
    BY <1>2, MissItemKeeps DEF RetrieveJobs
  <2>3. IsEdited(j) => j \in raced'
    BY <2>1, SystemAssumption DEF OpenEdit, IsEdited, NoEdit
  <2>4. j \notin raced' => j \notin raced \/ ~(Queued(j) \/ IsAdding(j))
    BY <2>1
  <2>5. /\ Queued(j)' <=> Queued(j)
        /\ \A v : QueueCarries(j, v) => QueueCarries(j, v)'
    BY <2>1, SameCarries
  <2>6. mem'[j] = conf[j]
    BY <2>1
  <2> QED
    BY <2>1, <2>2, <2>3, <2>4, <2>5, <2>6, KnownRead
<1>3. CASE SchedStop
  <2>1. sched' # "up" /\ UNCHANGED <<conf, ack, edit, adding, queue, raced>>
    BY <1>3 DEF SchedStop, dbVars, history
  <2>2. \A v : QueueCarries(j, v) => QueueCarries(j, v)'
    BY <2>1, SameCarries
  <2> QED
    BY <2>1, <2>2 DEF Known, AddsValues, IsAdding, IsEdited, Expected, HeapHolds
<1>4. CASE \/ Block \/ Timeout \/ WaitReturns \/ Tick \/ UNCHANGED vars
           \/ \E k \in Jobs : RunJob(k)
  <2>1. UNCHANGED <<conf, ack, edit, adding, queue, sched, mem, raced, missed>>
    BY <1>4 DEF Block, Timeout, WaitReturns, Tick, RunJob, vars, dbVars, schedVars, heapVars, history
  <2>2. wake'[j] # None => wake[j] # None
    BY <1>4, DatesFrame
  <2> QED
    BY <2>1, <2>2, SameCarries, KnownFrame DEF AddsValues, IsAdding, IsEdited, Expected
<1> QED
  BY <1>1, <1>2, <1>3, <1>4

\* The heap takes the values which a REFRESH carries; when it is the last one of the list,
\* they are the expected ones. A REFRESH which comes while the job runs is left to its END.
LEMMA KnownRefresh ==
    ASSUME TypeOK, HeapInv, NEW j \in Jobs, Known(j), NEW k \in Jobs, NEW c \in AllConfs,
           HandleRefresh(k, c)
    PROVE  Known(j)'
<1>1. /\ UNCHANGED <<conf, ack, edit, adding, sched, raced>> /\ sched = "up"
      /\ NextCommand(REFRESH(k, c))
  BY DEF HandleRefresh, NextCommand, Ready, dbVars, history
<1>2. REFRESH(k, c).type = "REFRESH" /\ REFRESH(k, c).job = k /\ REFRESH(k, c).conf = c
  BY DEF REFRESH
<1>3. \A v : QueueCarries(j, v) => QueueCarries(j, v)'
  BY <1>1, PopCarries
<1>4. /\ AddsValues(j) => AddsValues(j)'
      /\ \A v : Expected(j, v)' <=> Expected(j, v)
  BY <1>1 DEF AddsValues, IsAdding, IsEdited, Expected
<1>5. CASE k # j
  <2>1. Queued(j) => Queued(j)'
    BY <1>1, <1>2, <1>5, PopQueued
  <2>2. wake'[j] = wake[j] /\ mem'[j] = mem[j] /\ (j \in missed => j \in missed')
    BY <1>5 DEF HandleRefresh, heapVars, history, TypeOK
  <2> QED
    BY <1>1, <1>3, <1>4, <2>1, <2>2, KnownFrame
<1>6. CASE k = j
  <2>1. ASSUME NEW v \in AllConfs, QueueCarries(j, v) PROVE HeapHolds(j, v)'
    <3>1. ~Queued(j)' => c = v
      BY <1>1, <1>2, <1>6, <2>1, PopCarries
    <3>2. CASE starts[j] # None
      <4>1. wake'[j] = None
        BY <1>1, <1>6, <3>2 DEF HandleRefresh, heapVars, HeapInv
      <4> QED
        BY <4>1 DEF HeapHolds
    <3>3. CASE starts[j] = None
      <4>1. mem'[j] = c
        BY <1>6, <3>3, DatesAtRefresh
      <4> QED
        BY <3>1, <4>1 DEF HeapHolds
    <3> QED
      BY <3>2, <3>3
  <2> QED
    BY <1>1, <1>3, <1>4, <2>1 DEF Known
<1> QED
  BY <1>5, <1>6

\* At END the row is read again.
LEMMA KnownEnd ==
    ASSUME TypeOK, HeapInv, NEW j \in Jobs, Known(j), NEW k \in Jobs, HandleEnd(k)
    PROVE  Known(j)'
<1>1. UNCHANGED <<conf, ack, edit, sched>> /\ NextCommand(END(k))
  BY DEF HandleEnd
<1>2. END(k).type # "REFRESH"
  BY DEF END
<1>3. /\ \A v : QueueCarries(j, v) => QueueCarries(j, v)'
      /\ Queued(j) => Queued(j)'
  BY <1>1, <1>2, PopCarries, PopQueued
<1>4. \A v : Expected(j, v)' <=> Expected(j, v)
  BY <1>1 DEF Expected, IsEdited
<1>5. CASE starts[k] = None
  <2>1. UNCHANGED <<adding, wake, mem, raced, missed>>
    BY <1>5 DEF HandleEnd, heapVars, history
  <2>2. AddsValues(j) => AddsValues(j)'
    BY <1>1, <2>1 DEF AddsValues, IsAdding, IsEdited
  <2> QED
    BY <1>1, <1>3, <1>4, <2>1, <2>2, KnownFrame
<1>6. CASE starts[k] # None
  <2>1. /\ mem' = [mem EXCEPT ![k] = conf[k]]
        /\ raced' = IF IsEdited(k) \/ Queued(k) \/ IsAdding(k) THEN raced ELSE raced \ {k}
        /\ missed' = IF IsEdited(k) THEN missed \cup {k} ELSE missed \ {k}
        /\ MissItem({k})
    BY <1>6 DEF HandleEnd, ReadAtEnd
  <2>2. adding'.job = adding.job /\ adding'.conf = adding.conf
    BY <2>1, MissItemKeeps
  <2>3. CASE k = j
    <3>1. mem'[j] = conf[j]
      BY <2>1, <2>3 DEF TypeOK
    <3>2. ~Queued(j) => ~Queued(j)'
      <4>1. queue \in Seq(Commands) /\ queue # <<>> /\ queue' = Tail(queue)
        BY <1>1 DEF TypeOK, NextCommand
      <4>2. /\ Len(queue') = Len(queue) - 1 /\ Len(queue) \in Nat
            /\ \A i \in 1..Len(queue') : queue'[i] = queue[i + 1]
        BY <4>1, HeadTailProperties, LenProperties
      <4> QED
        BY <4>2 DEF Queued
    <3> QED
      BY <1>1, <1>3, <2>1, <2>2, <2>3, <3>1, <3>2, KnownRead
  <2>4. CASE k # j
    <3>1. /\ mem'[j] = mem[j] /\ wake'[j] = wake[j]
          /\ j \in missed => j \in missed'
          /\ j \in raced <=> j \in raced'
      BY <1>6, <2>1, <2>4, DatesAtEnd
    <3>2. AddsValues(j) => AddsValues(j)'
      BY <1>1, <2>2 DEF AddsValues, IsAdding, IsEdited
    <3> QED
      BY <1>1, <1>3, <1>4, <3>1, <3>2, KnownFrame
  <2> QED
    BY <2>3, <2>4
<1> QED
  BY <1>5, <1>6

\* A process only pushes END.
LEMMA KnownProcess ==
    ASSUME TypeOK, NEW j \in Jobs, Known(j), NEW k \in Jobs, EndRun(k) \/ EndOrphan(k) \/ Kill(k)
    PROVE  Known(j)'
<1>1. UNCHANGED <<conf, ack, edit, adding, sched, wake, mem, raced, missed>>
  BY ProcessStep
<1>2. /\ END(k) \in Commands /\ END(k).type # "REFRESH"
      /\ Push(END(k)) \/ Refuse \/ UNCHANGED queue
  BY CommandsType, ProcessStep DEF END
<1>3. /\ Queued(j) => Queued(j)'
      /\ \A v : QueueCarries(j, v) => QueueCarries(j, v)'
  BY <1>2, PushQueued, PushCarries, SameCarries DEF Refuse, Queued
<1> QED
  BY <1>1, <1>3, KnownFrame DEF AddsValues, IsAdding, IsEdited, Expected

\* Each step knows each job.
LEMMA KnownStep == TypeOK /\ HeapInv /\ ValuesKnown /\ [Next]_vars => ValuesKnown'
<1> SUFFICES ASSUME TypeOK, HeapInv, ValuesKnown, [Next]_vars, NEW j \in Jobs PROVE Known(j)'
  BY DEF ValuesKnown
<1>1. Known(j)
  BY DEF ValuesKnown
<1>2. ASSUME NEW k \in Jobs, NEW c \in Confs(k), HandleRefresh(k, c) PROVE Known(j)'
  <2>1. c \in AllConfs
    BY DEF AllConfs
  <2> QED
    BY <1>1, <1>2, <2>1, KnownRefresh
<1> QED
  BY <1>1, <1>2, KnownEdit, KnownItem, KnownScheduler, KnownEnd, KnownProcess DEF Next

\* At first the list is empty and the scheduler is down.
LEMMA ValuesInit == Init => ValuesKnown
  BY SystemAssumption
  DEF Init, ValuesKnown, Known, AddsValues, IsAdding, NoItem, QueueCarries, HeapHolds

\* The strengthened form, with any number of editions, additions of data, restarts and
\* refused pushes.
THEOREM ExpectedValues == Spec => []ValuesKnown
  BY TypeInit, TypeNext, HeapInit, HeapNext, ValuesInit, KnownStep, PTL DEF Spec

\* At rest the scheduler works with the values of the rows, unless one of the listed
\* races has happened.
THEOREM RowsAreFollowed == Spec => []MemoryFollowsRows
<1>1. TypeOK /\ ValuesKnown => MemoryFollowsRows
  <2> SUFFICES ASSUME TypeOK, ValuesKnown, NEW j \in Jobs, sched = "up", wake[j] # None,
                      ~IsEdited(j), ~Queued(j), ack[j] = 0, j \notin raced \cup missed
               PROVE  mem[j] = conf[j]
    BY DEF MemoryFollowsRows
  <2>1. conf[j] \in AllConfs /\ Expected(j, conf[j])
    BY DEF TypeOK, Expected
  <2> QED
    BY <2>1 DEF ValuesKnown, Known, HeapHolds
<1> QED
  BY <1>1, TypeCorrect, ExpectedValues, PTL
=============================================================================
