-------------------------- MODULE Reminders_proofs --------------------------
(* Theorems about Reminders, for every value of its constants. *)
EXTENDS Reminders, FiniteSetTheorems, WellFoundedInduction, TLAPS

Before == {ss \in Nat \X Nat : ss[1] < ss[2]}

\* A set of dates which is not empty has a first one.
LEMMA FirstDate ==
    ASSUME NEW S \in SUBSET Nat, S # {}
    PROVE  Smallest(S) \in S /\ \A e \in S : Smallest(S) <= e
<1>0. IsWellFoundedOn(Before, Nat)
  BY NatLessThanWellFounded DEF OpToRel, Before
<1>1. \E d \in S : \A e \in S : ~ (<<e, d>> \in Before)
  BY <1>0, WFMin, Zenon
<1>2. PICK d \in S : \A e \in S : ~ (<<e, d>> \in Before)
  BY <1>1
<1>3. ASSUME NEW e \in S PROVE d <= e
  <2>1. <<e, d>> \in Nat \X Nat /\ ~ (<<e, d>> \in Before)
    BY <1>2
  <2>2. ~ (e < d)
    BY <2>1 DEF Before
  <2> QED
    BY <2>2
<1> QED
  BY <1>3 DEF Smallest

-----------------------------------------------------------------------------
(* Dates.                                                                  *)

RowsType(rows) == rows \in [Items -> Rows \cup {NoRow}]

\* A date is in its day, at its time.
LEMMA DayAndHour ==
    ASSUME NEW d \in Int
    PROVE  /\ TimeOfDay(d) \in 0..(Day - 1)
           /\ d \div Day \in Int
           /\ d = Day * (d \div Day) + TimeOfDay(d)
           /\ d - TimeOfDay(d) = Day * (d \div Day)
  BY RemindersAssumption DEF TimeOfDay

\* The days follow one another as the dates do.
LEMMA DaysInOrder ==
    ASSUME NEW m \in Int, NEW t \in Int, m <= t
    PROVE  Day * (m \div Day) <= Day * (t \div Day)
<1> DEFINE a == m \div Day
           b == t \div Day
<1>1. a \in Int /\ b \in Int /\ Day \in Nat \ {0}
  BY DayAndHour, RemindersAssumption
<1>2. m >= Day * a /\ t < Day * b + Day
  BY DayAndHour, RemindersAssumption
<1> HIDE DEF a, b
<1>3. ASSUME a > b PROVE FALSE
  <2>1. a >= b + 1
    BY <1>1, <1>3
  <2>2. Day * a >= Day * (b + 1)
    BY <1>1, <2>1
  <2>3. Day * (b + 1) = Day * b + Day
    BY <1>1
  <2>4. Day * a \in Int /\ Day * b \in Int
    BY <1>1
  <2> QED
    BY <1>1, <1>2, <2>2, <2>3, <2>4
<1>4. a <= b
  BY <1>1, <1>3
<1>5. Day * a <= Day * b
  BY <1>1, <1>4
<1> QED
  BY <1>5 DEF a, b

\* When the minimum hour has begun at t, a date before t which is moved to the
\* minimum hour, where it keeps its minutes, is not after t or in the same hour.
LEMMA MinHourBegun ==
    ASSUME NEW m \in Int, NEW t \in Int, m <= t, TimeOfDay(t) >= MinHour, NEW i \in Todos
    PROVE  AtHour(m, MinHour) \in Int /\ SoonEnough(i, AtHour(m, MinHour), t)
<1>1. /\ m - TimeOfDay(m) = Day * (m \div Day) /\ t - TimeOfDay(t) = Day * (t \div Day)
      /\ TimeOfDay(m) \in 0..(Day - 1) /\ TimeOfDay(t) \in 0..(Day - 1)
  BY DayAndHour
<1>2. m - TimeOfDay(m) <= t - TimeOfDay(t)
  BY <1>1, DaysInOrder
<1>3. Day \in Nat \ {0} /\ MinHour \in Int /\ HourLen \in Nat \ {0}
  BY RemindersAssumption
<1> DEFINE d == TimeOfDay(m)
           e == TimeOfDay(t)
           minutes == d % HourLen
<1>4. d \in Int /\ e \in Int
  BY <1>1, <1>3
<1> HIDE DEF d, e
<1>5. minutes \in 0..(HourLen - 1)
  BY <1>3, <1>4
<1>6. minutes \in Int /\ minutes < HourLen
  BY <1>3, <1>5
<1>7. AtHour(m, MinHour) = m - d + MinHour + minutes
  BY DEF AtHour, d
<1> HIDE DEF minutes
<1>8. AtHour(m, MinHour) < MinHourEnd(t)
  <2>1. MinHourEnd(t) = t - e + MinHour + HourLen /\ m - d <= t - e
    BY <1>2 DEF MinHourEnd, d, e
  <2> QED
    BY <1>3, <1>4, <1>6, <1>7, <2>1
<1>9. InMinHour(t) \/ MinHourEnd(t) <= t
  BY <1>3, <1>4 DEF InMinHour, MinHourEnd, e
<1>10. AtHour(m, MinHour) \in Int /\ MinHourEnd(t) \in Int
  BY <1>3, <1>4, <1>6, <1>7 DEF MinHourEnd, e
<1> HIDE DEF d, e
<1>11. CASE InMinHour(t)
  BY <1>8, <1>10, <1>11 DEF SoonEnough
<1>12. CASE MinHourEnd(t) <= t
  BY <1>8, <1>10, <1>12 DEF SoonEnough
<1> QED
  BY <1>9, <1>10, <1>11, <1>12

\* An earlier date is soon enough too.
LEMMA SoonerEnough ==
    ASSUME NEW i, NEW d \in Int, NEW e \in Int, NEW t \in Int, d <= e, SoonEnough(i, e, t)
    PROVE  SoonEnough(i, d, t)
<1>1. CASE e <= t
  BY <1>1 DEF SoonEnough
<1>2. CASE i \in Todos /\ InMinHour(t) /\ e < MinHourEnd(t)
  <2>1. MinHourEnd(t) \in Int
    BY DayAndHour, RemindersAssumption DEF MinHourEnd
  <2> HIDE DEF MinHourEnd
  <2> QED
    BY <1>2, <2>1 DEF SoonEnough
<1> QED
  BY <1>1, <1>2 DEF SoonEnough

\* The first date of the period is a date.
LEMMA PeriodDateType ==
    ASSUME NEW d \in Int, NEW n \in Int
    PROVE  PeriodDate(d, n) \in Int
  BY RemindersAssumption DEF PeriodDate

\* What a reminder answers: no date, or one.
AtMostOneDate(A) == A = {} \/ \E a \in Int : A = {a}

\* The first of a date and of what two reminders answer.
LEMMA SmallestOfThree ==
    ASSUME NEW x \in Int, NEW A, NEW T, NEW S, S = {x} \cup A \cup T,
           AtMostOneDate(A), AtMostOneDate(T)
    PROVE  Smallest(S) \in Int /\ \A e \in A \cup T : Smallest(S) <= e
<1>1. \E d \in S : \A e \in S : d <= e
  <2>1. CASE A = {} /\ T = {}
    BY <2>1
  <2>2. CASE A = {} /\ \E b \in Int : T = {b}
    BY <2>2
  <2>3. CASE T = {} /\ \E a \in Int : A = {a}
    BY <2>3
  <2>4. ASSUME NEW a \in Int, NEW b \in Int, A = {a}, T = {b}
        PROVE  \E d \in S : \A e \in S : d <= e
    <3>1. S = {x, a, b}
      BY <2>4
    <3>2. \/ x <= a /\ x <= b
          \/ a <= x /\ a <= b
          \/ b <= x /\ b <= a
      OBVIOUS
    <3> QED
      BY <3>1, <3>2
  <2> QED
    BY <2>1, <2>2, <2>3, <2>4 DEF AtMostOneDate
<1>2. S \subseteq Int
  BY DEF AtMostOneDate
<1>3. Smallest(S) \in S /\ \A e \in S : Smallest(S) <= e
  BY <1>1 DEF Smallest
<1> QED
  BY <1>2, <1>3

\* A row which a reminder looks for has a date.
LEMMA RowDate ==
    ASSUME NEW rows, RowsType(rows), NEW i \in ToRemind(rows, Items)
    PROVE  rows[i] \in Rows /\ rows[i].date \in Nat
<1>1. rows[i] \in Rows
  BY DEF RowsType, ToRemind
<1>2. rows[i].date \in Dates
  BY <1>1 DEF Rows
<1> QED
  BY <1>1, <1>2, RemindersAssumption

\* The rows which a reminder looks for, and the date it answers: nothing when
\* there is no row, and never a date after the one of a row.
LEMMA AlertWakeupType ==
    ASSUME NEW rows, RowsType(rows)
    PROVE  /\ AlertWakeup(rows) = {} \/ \E a \in Int : AlertWakeup(rows) = {a}
           /\ \A i \in ToRemind(rows, Alerts) :
                 \E a \in AlertWakeup(rows) : a \in Int /\ a <= rows[i].date - AlertDelta
<1> DEFINE dates == {rows[i].date : i \in ToRemind(rows, Alerts)}
<1>1. dates \subseteq Nat
  BY RemindersAssumption DEF RowsType, ToRemind, Rows, NoRow, Items
<1>2. AlertDelta \in Nat
  BY RemindersAssumption
<1>3. AlertWakeup(rows) = IF dates = {} THEN {} ELSE {Smallest(dates) - AlertDelta}
  BY DEF AlertWakeup
<1>4. \A i \in ToRemind(rows, Alerts) : rows[i].date \in dates
  OBVIOUS
<1> HIDE DEF dates
<1>5. CASE dates = {}
  BY <1>3, <1>4, <1>5
<1>6. CASE dates # {}
  <2>1. Smallest(dates) \in Nat /\ \A e \in dates : Smallest(dates) <= e
    BY <1>1, <1>6, FirstDate
  <2>2. Smallest(dates) - AlertDelta \in Int
    BY <1>2, <2>1
  <2>3. AlertWakeup(rows) = {Smallest(dates) - AlertDelta}
    BY <1>3, <1>6
  <2>4. ASSUME NEW i \in ToRemind(rows, Alerts)
        PROVE  Smallest(dates) - AlertDelta <= rows[i].date - AlertDelta
    <3>1. rows[i].date \in Nat /\ Smallest(dates) <= rows[i].date
      BY <1>1, <1>4, <2>1
    <3> QED
      BY <1>2, <2>1, <3>1
  <2> QED
    BY <2>2, <2>3, <2>4
<1> QED
  BY <1>5, <1>6

\* The same for the todos: when it is late enough in the day, the answer is past,
\* but for the minutes.
LEMMA TodoWakeupType ==
    ASSUME NEW rows, RowsType(rows), NEW n \in Nat
    PROVE  /\ TodoWakeup(rows, n) = {} \/ \E b \in Int : TodoWakeup(rows, n) = {b}
           /\ \A i \in ToRemind(rows, Todos) : \A t \in Nat :
                 t >= n /\ rows[i].date <= t + Day /\ TimeOfDay(t) >= MinHour
                    => \E b \in TodoWakeup(rows, n) : b \in Int /\ SoonEnough(i, b, t)
<1> DEFINE dates  == {rows[i].date : i \in ToRemind(rows, Todos)}
           wakeup == Smallest(dates) - Day
           late   == Largest(wakeup, n)
<1>1. dates \subseteq Nat
  BY RemindersAssumption DEF RowsType, ToRemind, Rows, NoRow, Items
<1>2. Day \in Nat /\ MinHour \in Int
  BY RemindersAssumption
<1>3. TodoWakeup(rows, n) = IF dates = {} THEN {}
                            ELSE IF TimeOfDay(wakeup) < MinHour THEN {AtHour(late, MinHour)}
                            ELSE {wakeup}
  BY DEF TodoWakeup
<1>4. \A i \in ToRemind(rows, Todos) : rows[i].date \in dates
  OBVIOUS
<1>5. CASE dates = {}
  BY <1>3, <1>4, <1>5
<1>6. CASE dates # {}
  <2>1. Smallest(dates) \in Nat /\ \A e \in dates : Smallest(dates) <= e
    BY <1>1, <1>6, FirstDate
  <2>2. wakeup \in Int /\ late \in Int
    BY <1>2, <2>1 DEF Largest
  <2>3. AtHour(late, MinHour) \in Int
    BY <1>2, <2>2, DayAndHour, RemindersAssumption DEF AtHour, TimeOfDay
  <2>4. ASSUME NEW i \in ToRemind(rows, Todos), NEW t \in Nat,
               t >= n, rows[i].date <= t + Day, TimeOfDay(t) >= MinHour
        PROVE  SoonEnough(i, wakeup, t) /\ SoonEnough(i, AtHour(late, MinHour), t)
    <3>1. rows[i].date \in Nat /\ Smallest(dates) <= rows[i].date
      BY <1>1, <1>4, <2>1
    <3>2. wakeup <= t
      BY <1>2, <2>1, <2>4, <3>1
    <3>3. late <= t
      BY <2>4, <3>2 DEF Largest
    <3>4. i \in Todos
      BY DEF ToRemind
    <3>5. SoonEnough(i, wakeup, t)
      BY <3>2 DEF SoonEnough
    <3> HIDE DEF late
    <3> QED
      BY <2>2, <2>4, <3>3, <3>4, <3>5, MinHourBegun
  <2> HIDE DEF wakeup, late, dates
  <2> QED
    BY <1>3, <1>6, <2>2, <2>3, <2>4
<1> QED
  BY <1>5, <1>6

\* The date at which the scheduler wakes up is soon enough for each time at which
\* a row has to be reminded.
LEMMA NextWakeupInTime ==
    ASSUME NEW rows, RowsType(rows), NEW d \in Int, NEW n \in Nat
    PROVE  /\ NextWakeup(rows, d, n) \in Int
           /\ \A i \in ToRemind(rows, Alerts) : NextWakeup(rows, d, n) <= rows[i].date - AlertDelta
           /\ \A i \in ToRemind(rows, Todos) : \A t \in Nat :
                 t >= n /\ rows[i].date <= t + Day /\ TimeOfDay(t) >= MinHour
                    => SoonEnough(i, NextWakeup(rows, d, n), t)
<1> DEFINE A == AlertWakeup(rows)
           T == TodoWakeup(rows, n)
           w == NextWakeup(rows, d, n)
<1>1. w \in Int /\ \A e \in A \cup T : w <= e
  <2>1. PeriodDate(d, n) \in Int
    BY PeriodDateType
  <2>2. AtMostOneDate(A)
    BY AlertWakeupType DEF AtMostOneDate
  <2>3. AtMostOneDate(T)
    BY TodoWakeupType DEF AtMostOneDate
  <2> DEFINE P == PeriodDate(d, n)
             S == {P} \cup A \cup T
  <2>4. w = Smallest(S) /\ S = {P} \cup A \cup T /\ P \in Int
    BY <2>1 DEF NextWakeup
  <2> HIDE DEF A, T, P, S, w
  <2>5. Smallest(S) \in Int /\ \A e \in A \cup T : Smallest(S) <= e
    BY <2>2, <2>3, <2>4, SmallestOfThree
  <2> QED
    BY <2>4, <2>5
<1>2. ASSUME NEW i \in ToRemind(rows, Alerts) PROVE w <= rows[i].date - AlertDelta
  <2>1. PICK a \in A : a \in Int /\ a <= rows[i].date - AlertDelta
    BY AlertWakeupType
  <2>2. rows[i].date - AlertDelta \in Int
    <3>1. i \in ToRemind(rows, Items)
      BY DEF ToRemind, Items
    <3> QED
      BY <3>1, RowDate, RemindersAssumption
  <2> HIDE DEF A, T, w
  <2> QED
    BY <1>1, <2>1, <2>2
<1>3. ASSUME NEW i \in ToRemind(rows, Todos), NEW t \in Nat,
             t >= n, rows[i].date <= t + Day, TimeOfDay(t) >= MinHour
      PROVE  SoonEnough(i, w, t)
  <2>1. PICK b \in T : b \in Int /\ SoonEnough(i, b, t)
    BY <1>3, TodoWakeupType
  <2> HIDE DEF A, T, w
  <2> QED
    BY <1>1, <2>1, SoonerEnough
<1> QED
  BY <1>1, <1>2, <1>3

-----------------------------------------------------------------------------
(* Types.                                                                  *)

\* A job which runs has been started at a date, which END needs; a scheduler
\* which is stopped has forgotten its processes.
Started  == current # None => started \in Int
Stopped  == ~up => current = None /\ waiting = None
TypeInv  == TypeOK /\ Started /\ Stopped

ProcType == [Procs -> [at : Stages, batch : Batches] \cup {Dead}]

\* No instance is fetched, or those which are remindable, or one is done with.
LEMMA BatchType ==
    ASSUME TypeOK
    PROVE  /\ Empty \in Batches
           /\ \A S \in SUBSET Items : Batch(S) \in Batches
           /\ \A b \in Batches : \A i : [j \in DOMAIN b \ {i} |-> b[j]] \in Batches
<1>1. Empty \in Batches
  <2>1. Empty \in [{} -> Rows]
    BY DEF Empty
  <2> QED
    BY <2>1 DEF Batches
<1>2. ASSUME NEW S \in SUBSET Items PROVE Batch(S) \in Batches
  <2> DEFINE D == {j \in S : Remindable(j)}
  <2>1. D \in SUBSET Items
    OBVIOUS
  <2>2. \A i \in D : item[i] \in Rows
    BY RowDate DEF Remindable, TypeOK, RowsType
  <2>3. Batch(S) \in [D -> Rows]
    BY <2>2 DEF Batch
  <2> QED
    BY <2>1, <2>3 DEF Batches
<1>3. ASSUME NEW b \in Batches, NEW i PROVE [j \in DOMAIN b \ {i} |-> b[j]] \in Batches
  <2>1. PICK S \in SUBSET Items : b \in [S -> Rows]
    BY DEF Batches
  <2>2. [j \in DOMAIN b \ {i} |-> b[j]] \in [S \ {i} -> Rows] /\ S \ {i} \in SUBSET Items
    BY <2>1
  <2> QED
    BY <2>2 DEF Batches
<1> QED
  BY <1>1, <1>2, <1>3

\* A process goes from stage to stage, or dies.
LEMMA GoToType ==
    ASSUME proc \in ProcType, NEW p \in Procs, NEW s \in Stages, NEW b \in Batches, GoTo(p, s, b)
    PROVE  proc' \in ProcType
<1>1. [at |-> s, batch |-> b] \in [at : Stages, batch : Batches]
  OBVIOUS
<1> QED
  BY <1>1 DEF GoTo, ProcType

\* A view saves a row, and the job is refreshed.
LEMMA SaveType ==
    ASSUME TypeInv, NEW i \in Items, NEW row \in Rows, Save(i, row), edits' \in Nat
    PROVE  TypeInv'
<1>1. item' \in [Items -> Rows \cup {NoRow}]
  BY DEF Save, TypeInv, TypeOK
<1>2. wake' = wake \/ (up /\ current = None /\ wake' = clock)
  BY DEF Save, Refresh
<1>3. UNCHANGED <<clock, sent, up, current, started, waiting, proc, stops, kills>>
  BY DEF Save, Refresh
<1>4. wake' \in Int \cup {None} /\ (up' => (wake' = None <=> current' # None))
  BY <1>2, <1>3, RemindersAssumption DEF TypeInv, TypeOK
<1> QED
  BY <1>1, <1>3, <1>4 DEF TypeInv, TypeOK, Started, Stopped

\* The views keep the types.
LEMMA TypeViews ==
    ASSUME TypeInv, NEW i \in Items,
           (\E d \in Dates : Create(i, d) \/ Edit(i, d)) \/ Validate(i) \/ Delete(i)
    PROVE  TypeInv'
<1> USE DEF TypeInv, TypeOK
<1>1. ASSUME NEW d \in Dates, Create(i, d) PROVE TypeInv'
  <2>1. [date |-> d, done |-> FALSE, reminded |-> FALSE] \in Rows
    BY DEF Rows
  <2> QED
    BY <1>1, <2>1, SaveType DEF Create
<1>2. ASSUME NEW d \in Dates, Edit(i, d) PROVE TypeInv'
  <2>1. item[i] \in Rows /\ edits' \in Nat
    BY <1>2 DEF Edit, Edited
  <2>2. [item[i] EXCEPT !.date = d] \in Rows
    BY <2>1 DEF Rows
  <2> QED
    BY <1>2, <2>1, <2>2, SaveType DEF Edit
<1>3. CASE Validate(i)
  <2>1. item[i] \in Rows /\ edits' \in Nat
    BY <1>3 DEF Validate, Edited
  <2>2. [item[i] EXCEPT !.done = TRUE] \in Rows
    BY <2>1 DEF Rows
  <2> QED
    BY <1>3, <2>1, <2>2, SaveType DEF Validate
<1>4. CASE Delete(i)
  BY <1>4 DEF Delete, Edited, schedVars, Started, Stopped
<1> QED
  BY <1>1, <1>2, <1>3, <1>4

\* The scheduler keeps the types: next_wakeup() always gives it a date.
LEMMA TypeScheduler ==
    ASSUME TypeInv, SchedStop \/ SchedStart \/ \E p \in Procs : RunJob(p)
    PROVE  TypeInv'
<1> USE DEF TypeInv, TypeOK
<1>1. CASE SchedStop
  <2>1. /\ up' = FALSE /\ wake' = None /\ current' = None /\ started' = None /\ waiting' = None
        /\ UNCHANGED <<clock, item, sent, proc, edits, kills>>
        /\ stops' \in Nat
    BY <1>1 DEF SchedStop
  <2> QED
    BY <2>1 DEF Started, Stopped
<1>2. CASE SchedStart
  <2>1. wake' \in Int
    BY <1>2, NextWakeupInTime DEF SchedStart, RowsType
  <2>2. /\ UNCHANGED <<clock, item, sent, started, waiting, proc, edits, stops, kills>>
        /\ UNCHANGED current /\ up' = TRUE
    BY <1>2 DEF SchedStart, bounds
  <2>3. current = None
    BY <1>2 DEF SchedStart, Stopped
  <2> QED
    BY <2>1, <2>2, <2>3, RemindersAssumption DEF Started, Stopped
<1>3. ASSUME NEW p \in Procs, RunJob(p) PROVE TypeInv'
  <2>1. proc' \in ProcType
    <3>1. "fetch alerts" \in Stages
      BY DEF Stages
    <3> QED
      BY <1>3, <3>1, BatchType, GoToType DEF RunJob, GoTo, ProcType
  <2>2. wake \in Int
    BY <1>3 DEF RunJob, IsDue
  <2>3. /\ current' = p /\ started' = wake /\ wake' = None /\ waiting' = None
        /\ up /\ UNCHANGED <<clock, item, sent, up, edits, stops, kills>>
    BY <1>3 DEF RunJob, IsDue, bounds
  <2>4. p # None
    BY RemindersAssumption
  <2> QED
    BY <2>1, <2>2, <2>3, <2>4 DEF Started, Stopped, ProcType
<1> QED
  BY <1>1, <1>2, <1>3

\* A process keeps the types at each of its stages.
LEMMA TypeProcess ==
    ASSUME TypeInv, NEW p \in Procs,
           \/ FetchAlerts(p) \/ FetchTodos(p) \/ NextReminder(p) \/ Kill(p)
           \/ \E i \in Items : Remind(p, i)
    PROVE  TypeInv'
<1> USE DEF TypeInv, TypeOK
<1>0. /\ {"fetch todos", "send alerts", "send todos", "end"} \subseteq Stages
      /\ Alerts \in SUBSET Items /\ Todos \in SUBSET Items
  BY DEF Stages, Items
<1>1. CASE FetchAlerts(p) \/ FetchTodos(p) \/ NextReminder(p)
  <2>1. \E s \in Stages : \E b \in Batches : GoTo(p, s, b)
    BY <1>0, <1>1, BatchType DEF FetchAlerts, FetchTodos, NextReminder
  <2>2. proc' \in ProcType
    BY <2>1, GoToType DEF ProcType
  <2>3. UNCHANGED <<clock, item, sent, schedVars, bounds>>
    BY <1>1 DEF FetchAlerts, FetchTodos, NextReminder
  <2> QED
    BY <2>2, <2>3 DEF schedVars, bounds, Started, Stopped, ProcType
<1>2. CASE Kill(p)
  <2>1. proc' \in ProcType
    BY <1>2 DEF Kill, ProcType
  <2>2. UNCHANGED <<clock, item, sent, schedVars, edits, stops>> /\ kills' \in Nat
    BY <1>2 DEF Kill
  <2> QED
    BY <2>1, <2>2 DEF schedVars, Started, Stopped, ProcType
<1>3. ASSUME NEW i \in Items, Remind(p, i) PROVE TypeInv'
  <2>1. proc[p] \in [at : Stages, batch : Batches] /\ i \in DOMAIN proc[p].batch
    BY <1>3 DEF Remind, Dead, Empty
  <2>2. proc[p].batch[i] \in Rows
    BY <2>1 DEF Batches
  <2>3. [proc[p].batch[i] EXCEPT !.reminded = TRUE] \in Rows
    BY <2>2 DEF Rows
  <2>4. item' \in [Items -> Rows \cup {NoRow}]
    BY <1>3, <2>3 DEF Remind
  <2>5. proc' \in ProcType
    <3> DEFINE b == [j \in DOMAIN proc[p].batch \ {i} |-> proc[p].batch[j]]
    <3>1. b \in Batches
      BY <2>1, BatchType
    <3>2. proc' = [proc EXCEPT ![p].batch = b]
      BY <1>3 DEF Remind
    <3> HIDE DEF b
    <3>3. [proc[p] EXCEPT !.batch = b] \in [at : Stages, batch : Batches]
      BY <2>1, <3>1
    <3> QED
      BY <3>2, <3>3 DEF ProcType
  <2>6. sent' \in [Items -> Nat]
    BY <1>3 DEF Remind
  <2>7. UNCHANGED <<clock, schedVars, bounds>>
    BY <1>3 DEF Remind
  <2> QED
    BY <2>4, <2>5, <2>6, <2>7 DEF schedVars, bounds, Started, Stopped, ProcType
<1> QED
  BY <1>1, <1>2, <1>3

\* END gives the next date to a job which had been started.
LEMMA TypeEnd ==
    ASSUME TypeInv, NEW p \in Procs, End(p)
    PROVE  TypeInv'
<1> USE DEF TypeInv, TypeOK
<1>1. proc' \in ProcType
  BY DEF End, ProcType
<1>2. UNCHANGED <<clock, item, sent, up, edits, stops, kills>>
  BY DEF End, schedVars, bounds
<1>3. CASE UNCHANGED schedVars
  BY <1>1, <1>2, <1>3 DEF schedVars, Started, Stopped, ProcType
<1>4. CASE /\ current # None
           /\ wake' = NextWakeup(item, started, clock)
           /\ current' = None /\ started' = None /\ waiting' = current
  <2>1. wake' \in Int
    BY <1>4, NextWakeupInTime DEF Started, RowsType
  <2>2. up
    BY <1>4 DEF Stopped
  <2> QED
    BY <1>1, <1>2, <1>4, <2>1, <2>2, RemindersAssumption DEF Started, Stopped, ProcType
<1> QED
  BY <1>3, <1>4 DEF End

\* Each step keeps the types.
LEMMA TypeNext == TypeInv /\ [Next]_vars => TypeInv'
<1> SUFFICES ASSUME TypeInv, [Next]_vars PROVE TypeInv'
  OBVIOUS
<1>1. CASE Tick
  BY <1>1 DEF Tick, TypeInv, TypeOK, Started, Stopped, schedVars, bounds
<1>2. CASE UNCHANGED vars
  BY <1>2 DEF vars, TypeInv, TypeOK, Started, Stopped, schedVars, bounds
<1>3. ASSUME NEW i \in Items,
             (\E d \in Dates : Create(i, d) \/ Edit(i, d)) \/ Validate(i) \/ Delete(i)
      PROVE  TypeInv'
  BY <1>3, TypeViews
<1>4. CASE SchedStop \/ SchedStart \/ \E p \in Procs : RunJob(p)
  BY <1>4, TypeScheduler
<1>5. ASSUME NEW p \in Procs,
             \/ FetchAlerts(p) \/ FetchTodos(p) \/ NextReminder(p) \/ Kill(p)
             \/ \E i \in Items : Remind(p, i)
      PROVE  TypeInv'
  BY <1>5, TypeProcess
<1>6. ASSUME NEW p \in Procs, End(p) PROVE TypeInv'
  BY <1>6, TypeEnd
<1> QED
  BY <1>1, <1>2, <1>3, <1>4, <1>5, <1>6 DEF Next

\* When the scheduler starts for the first time there is no row.
LEMMA TypeInit == Init => TypeInv
<1> SUFFICES ASSUME Init PROVE TypeInv
  OBVIOUS
<1>1. item \in [Items -> Rows \cup {NoRow}]
  BY DEF Init
<1>2. wake \in Int
  BY <1>1, NextWakeupInTime DEF Init, RowsType
<1>3. /\ clock = 0 /\ sent = [i \in Items |-> 0] /\ up = TRUE
      /\ current = None /\ started = None /\ waiting = None
      /\ proc = [p \in Procs |-> Dead] /\ edits = 0 /\ stops = 0 /\ kills = 0
  BY DEF Init
<1> QED
  BY <1>1, <1>2, <1>3, RemindersAssumption DEF TypeInv, TypeOK, Started, Stopped

\* Every variable keeps its type, whatever the rows, the dates and the failures:
\* next_wakeup() always gives the scheduler a date, and END is only handled
\* with the date of the start.
THEOREM TypeCorrect == Spec => []TypeOK
<1>1. TypeInv => TypeOK
  BY DEF TypeInv
<1> QED
  BY <1>1, TypeInit, TypeNext, PTL DEF Spec

-----------------------------------------------------------------------------
(* Nothing is due while the job sleeps.                                    *)

\* The date which next_wakeup() gives is in time for every row.
LEMMA NextWakeupDue ==
    ASSUME TypeInv, NEW d \in Int
    PROVE  \A i \in Items : \A t \in clock..Horizon :
              DueAt(i, t) => SoonEnough(i, NextWakeup(item, d, clock), t)
<1> DEFINE w == NextWakeup(item, d, clock)
<1>1. SUFFICES ASSUME NEW i \in Items, NEW t \in clock..Horizon, DueAt(i, t)
               PROVE  SoonEnough(i, w, t)
  OBVIOUS
<1>2. RowsType(item) /\ clock \in Nat /\ t \in Nat /\ t >= clock
  BY RemindersAssumption DEF TypeInv, TypeOK, RowsType
<1>3. item[i].date \in Nat
  BY <1>1, <1>2, RowDate DEF DueAt
<1>4. w \in Int
  BY <1>2, NextWakeupInTime
<1>5. CASE i \in Todos
  <2>1. i \in ToRemind(item, Todos) /\ item[i].date <= t + Day /\ TimeOfDay(t) >= MinHour
    BY <1>1, <1>5 DEF DueAt, ToRemind
  <2> QED
    BY <1>2, <2>1, NextWakeupInTime
<1>6. CASE i \notin Todos
  <2>1. i \in ToRemind(item, Alerts) /\ item[i].date <= t + AlertDelta
    BY <1>1, <1>6 DEF DueAt, ToRemind, Items
  <2>2. w <= item[i].date - AlertDelta
    BY <1>2, <2>1, NextWakeupInTime
  <2> HIDE DEF w
  <2> QED
    BY <1>2, <1>3, <1>4, <2>1, <2>2, RemindersAssumption DEF SoonEnough
<1> QED
  BY <1>5, <1>6

\* A row which a step leaves alone, or makes useless to remind, needs no other date.
LEMMA DueKept ==
    ASSUME TypeInv, InTimeInv, UNCHANGED <<clock, wake, up, current>>,
           \A i \in Items : item'[i] = item[i] \/ i \notin ToRemind(item, Items)'
    PROVE  InTimeInv'
<1>1. \A i \in Items : \A t \in clock..Horizon : DueAt(i, t)' => DueAt(i, t)
  BY DEF DueAt, ToRemind
<1> QED
  BY <1>1 DEF InTimeInv

\* A view which saves a row to remind gives the job a date which is not in the future.
LEMMA InTimeSave ==
    ASSUME TypeInv, InTimeInv, NEW i \in Items, NEW row \in Rows, Save(i, row)
    PROVE  InTimeInv'
<1>1. UNCHANGED <<clock, up, current>> /\ \A k \in Items : k # i => item'[k] = item[k]
  BY DEF Save, Refresh, TypeInv, TypeOK
<1>2. item'[i] = row
  BY DEF Save, TypeInv, TypeOK
<1>3. CASE UNCHANGED wake /\ (row.done \/ row.reminded)
  <2>1. i \notin ToRemind(item, Items)'
    BY <1>2, <1>3 DEF ToRemind
  <2> QED
    BY <1>1, <1>3, <2>1, DueKept
<1>4. CASE up /\ current = None /\ wake' = clock
  <2>1. \A t \in clock'..Horizon : wake' <= t
    BY <1>1, <1>4, RemindersAssumption DEF TypeInv, TypeOK
  <2> QED
    BY <1>1, <2>1 DEF InTimeInv, SoonEnough
<1>5. CASE ~(up /\ current = None)
  BY <1>1, <1>5 DEF InTimeInv
<1> QED
  BY <1>3, <1>4, <1>5 DEF Save, Refresh

\* The invariant is preserved by each step.
LEMMA InTimeNext == TypeInv /\ InTimeInv /\ [Next]_vars => InTimeInv'
<1> SUFFICES ASSUME TypeInv, InTimeInv, [Next]_vars PROVE InTimeInv'
  OBVIOUS
<1> USE DEF TypeInv, TypeOK
<1>1. ASSUME NEW i \in Items, NEW d \in Dates, Create(i, d) PROVE InTimeInv'
  <2>1. [date |-> d, done |-> FALSE, reminded |-> FALSE] \in Rows
    BY DEF Rows
  <2> QED
    BY <1>1, <2>1, InTimeSave DEF Create
<1>2. ASSUME NEW i \in Items, NEW d \in Dates, Edit(i, d) PROVE InTimeInv'
  <2>1. item[i] \in Rows
    BY <1>2 DEF Edit, Edited
  <2>2. [item[i] EXCEPT !.date = d] \in Rows
    BY <2>1 DEF Rows
  <2> QED
    BY <1>2, <2>2, InTimeSave DEF Edit
<1>3. ASSUME NEW i \in Items, Validate(i) PROVE InTimeInv'
  <2>1. item[i] \in Rows
    BY <1>3 DEF Validate, Edited
  <2>2. [item[i] EXCEPT !.done = TRUE] \in Rows
    BY <2>1 DEF Rows
  <2> QED
    BY <1>3, <2>2, InTimeSave DEF Validate
<1>4. ASSUME NEW i \in Items, Delete(i) PROVE InTimeInv'
  <2>1. \A k \in Items : item'[k] = item[k] \/ item'[k] = NoRow
    BY <1>4 DEF Delete
  <2>2. UNCHANGED <<clock, wake, up, current>>
    BY <1>4 DEF Delete, schedVars
  <2>3. \A k \in Items : item'[k] = NoRow => k \notin ToRemind(item, Items)'
    BY DEF ToRemind
  <2> QED
    BY <2>1, <2>2, <2>3, DueKept
<1>5. CASE SchedStop \/ \E p \in Procs : RunJob(p)
  <2>1. ~up' \/ current' # None
    BY <1>5, RemindersAssumption DEF SchedStop, RunJob
  <2>2. UNCHANGED clock
    BY <1>5 DEF SchedStop, RunJob
  <2> QED
    BY <2>1, <2>2 DEF InTimeInv
<1>6. CASE SchedStart
  <2>1. UNCHANGED <<clock, item>> /\ wake' = NextWakeup(item, 0, clock)
    BY <1>6 DEF SchedStart
  <2>2. \A i \in Items : \A t \in clock..Horizon : DueAt(i, t) => SoonEnough(i, wake', t)
    BY <2>1, NextWakeupDue
  <2> HIDE DEF TypeInv
  <2> QED
    BY <2>1, <2>2 DEF InTimeInv, DueAt, ToRemind
<1>7. ASSUME NEW p \in Procs, FetchAlerts(p) \/ FetchTodos(p) \/ NextReminder(p) \/ Kill(p)
      PROVE  InTimeInv'
  <2>1. UNCHANGED <<clock, item, wake, up, current>>
    BY <1>7 DEF FetchAlerts, FetchTodos, NextReminder, Kill, schedVars
  <2> QED
    BY <2>1, DueKept
<1>8. ASSUME NEW p \in Procs, NEW i \in Items, Remind(p, i) PROVE InTimeInv'
  <2>1. UNCHANGED <<clock, wake, up, current>> /\ \A k \in Items : k # i => item'[k] = item[k]
    BY <1>8 DEF Remind, schedVars
  <2>2. proc[p].batch[i] \in Rows
    <3>1. proc[p] \in [at : Stages, batch : Batches] /\ i \in DOMAIN proc[p].batch
      BY <1>8 DEF Remind, Dead, Empty
    <3> QED
      BY <3>1 DEF Batches
  <2>3. item'[i] = [proc[p].batch[i] EXCEPT !.reminded = TRUE]
    BY <1>8 DEF Remind
  <2>4. item'[i].reminded
    BY <2>2, <2>3 DEF Rows
  <2>5. i \notin ToRemind(item, Items)'
    BY <2>4 DEF ToRemind
  <2> QED
    BY <2>1, <2>5, DueKept
<1>9. ASSUME NEW p \in Procs, End(p) PROVE InTimeInv'
  <2>1. CASE UNCHANGED schedVars
    BY <1>9, <2>1, DueKept DEF End, schedVars
  <2>2. CASE current # None /\ wake' = NextWakeup(item, started, clock)
    <3>1. UNCHANGED <<clock, item>>
      BY <1>9 DEF End
    <3>2. \A i \in Items : \A t \in clock..Horizon : DueAt(i, t) => SoonEnough(i, wake', t)
      BY <2>2, NextWakeupDue DEF Started
    <3> HIDE DEF TypeInv
    <3> QED
      BY <3>1, <3>2 DEF InTimeInv, DueAt, ToRemind
  <2> QED
    BY <1>9, <2>1, <2>2 DEF End
<1>10. CASE Tick
  <2>1. /\ clock' = clock + 1 /\ clock' <= Horizon
        /\ UNCHANGED <<item, wake, up, current>>
    BY <1>10, RemindersAssumption DEF Tick, schedVars
  <2>2. \A t \in clock'..Horizon : t \in clock..Horizon
    BY <2>1, RemindersAssumption
  <2> HIDE DEF TypeInv
  <2> QED
    BY <2>1, <2>2 DEF InTimeInv, DueAt, ToRemind
<1>11. CASE UNCHANGED vars
  BY <1>11, DueKept DEF vars, schedVars
<1> QED
  BY <1>1, <1>2, <1>3, <1>4, <1>5, <1>6, <1>7, <1>8, <1>9, <1>10, <1>11 DEF Next

\* The date of the job is soon enough for everything which the users have to be
\* reminded of, now and later, with any rows, delays, periods and minimum hour:
\* only a todo may wait, and not after the end of the minimum hour.
THEOREM InTime == Spec => []InTimeInv
<1>1. Init => InTimeInv
  BY RemindersAssumption DEF Init, InTimeInv, DueAt, ToRemind
<1> QED
  BY <1>1, TypeInit, TypeNext, InTimeNext, PTL DEF Spec

\* While the job sleeps there is nothing to remind, but todos in the first hour
\* at which they are reminded: they wait until its end at the latest.
THEOREM NothingForgotten == Spec => []NothingDueAsleep
<1>1. TypeInv /\ InTimeInv => NothingDueAsleep
  <2> SUFFICES ASSUME TypeInv, InTimeInv, up, current = None, wake > clock,
                      NEW i \in Items, Remindable(i), i \in Todos => HourIsOk
               PROVE  i \in Todos /\ InMinHour(clock) /\ wake < MinHourEnd(clock)
    BY DEF NothingDueAsleep
  <2>1. DueAt(i, clock)
    BY DEF DueAt, Remindable, HourIsOk
  <2>2. clock \in clock..Horizon
    BY RemindersAssumption DEF TypeInv, TypeOK, InTimeInv
  <2>3. SoonEnough(i, wake, clock)
    BY <2>1, <2>2 DEF InTimeInv
  <2>4. wake \in Int /\ clock \in Int
    BY DEF TypeInv, TypeOK
  <2> QED
    BY <2>3, <2>4 DEF SoonEnough
<1> QED
  BY <1>1, TypeInit, TypeNext, InTime, PTL DEF Spec

-----------------------------------------------------------------------------
(* A user is notified once.                                                *)

\* Sets of processes are finite, and a part counts no more than the whole.
LEMMA Smaller ==
    ASSUME NEW T \in SUBSET Procs, NEW S \in SUBSET T
    PROVE  Cardinality(S) \in Nat /\ Cardinality(T) \in Nat /\ Cardinality(S) <= Cardinality(T)
<1>1. IsFiniteSet(T)
  BY RemindersAssumption, FS_Subset
<1> QED
  BY <1>1, FS_Subset, FS_CardinalityType

\* A process which holds an instance is alive.
LEMMA HoldersAlive == \A i \in Items : Holders(i) \subseteq Alive
  BY DEF Holders, Alive, Dead, Empty

\* At most one process more than the scheduler has been stopped is alive.
LEMMA AliveBound ==
    ASSUME TypeInv, OnceInv
    PROVE  Cardinality(Alive) <= 1 + stops
<1>1. Alive \in SUBSET Procs
  BY DEF Alive
<1>2. IsFiniteSet(Alive) /\ IsFiniteSet(Alive \ {Mine})
  BY <1>1, RemindersAssumption, FS_Subset
<1>3. Cardinality((Alive \ {Mine}) \cup {Mine}) <= Cardinality(Alive \ {Mine}) + 1
  BY <1>2, FS_AddElement, FS_CardinalityType
<1>4. /\ Alive \subseteq (Alive \ {Mine}) \cup {Mine}
      /\ IsFiniteSet((Alive \ {Mine}) \cup {Mine})
  BY <1>2, FS_AddElement
<1>5. Cardinality(Alive) <= Cardinality((Alive \ {Mine}) \cup {Mine})
  BY <1>4, FS_Subset
<1>6. /\ Cardinality(Alive) \in Nat /\ Cardinality(Alive \ {Mine}) \in Nat
      /\ Cardinality((Alive \ {Mine}) \cup {Mine}) \in Nat
  BY <1>2, <1>4, FS_CardinalityType
<1> QED
  BY <1>3, <1>5, <1>6 DEF OnceInv, FewAlive, TypeInv, TypeOK

\* A step after which fewer processes live, and hold fewer instances.
LEMMA OnceFewer ==
    ASSUME TypeInv, OnceInv, stops' = stops, sent' = sent, Unsent',
           (Alive \ {Mine})' \subseteq Alive \ {Mine},
           \A i \in Items : Holders(i)' \subseteq Holders(i)
    PROVE  OnceInv'
<1>1. FewAlive'
  <2>1. Cardinality((Alive \ {Mine})') <= Cardinality(Alive \ {Mine})
        /\ Cardinality((Alive \ {Mine})') \in Nat /\ Cardinality(Alive \ {Mine}) \in Nat
    BY Smaller DEF Alive
  <2> QED
    BY <2>1 DEF OnceInv, FewAlive, TypeInv, TypeOK
<1>2. ASSUME NEW i \in Items PROVE (sent[i] + Cardinality(Holders(i)) <= 1 + stops)'
  <2>1. Cardinality(Holders(i)') <= Cardinality(Holders(i))
        /\ Cardinality(Holders(i)') \in Nat /\ Cardinality(Holders(i)) \in Nat
    BY Smaller DEF Holders
  <2>2. sent[i] + Cardinality(Holders(i)) <= 1 + stops /\ sent[i] \in Nat /\ stops \in Nat
    BY DEF OnceInv, FewHeld, TypeInv, TypeOK
  <2> QED
    BY <2>1, <2>2
<1> QED
  BY <1>1, <1>2 DEF OnceInv, FewHeld

\* The views do not touch the processes; only an item which has never been sent
\* is created, and an edition does not forget that a row has been reminded.
LEMMA OnceViews ==
    ASSUME TypeInv, OnceInv, NEW i \in Items,
           (\E d \in Dates : Create(i, d) \/ Edit(i, d)) \/ Validate(i) \/ Delete(i)
    PROVE  OnceInv'
<1> USE DEF TypeInv, TypeOK
<1>1. UNCHANGED <<sent, stops, proc, current, waiting>>
  BY DEF Create, Edit, Validate, Delete, Save, Refresh, schedVars
<1>2. /\ \A k \in Items : k # i => item'[k] = item[k]
      /\ item'[i] # NoRow /\ ~item'[i].reminded => sent[i] = 0
  <2>1. CASE \E d \in Dates : Create(i, d)
    BY <2>1 DEF Create, Save
  <2>2. ASSUME NEW d \in Dates, Edit(i, d)
        PROVE  /\ \A k \in Items : k # i => item'[k] = item[k]
               /\ item'[i] # NoRow /\ ~item'[i].reminded => sent[i] = 0
    <3>1. item[i] \in Rows /\ item[i] # NoRow
      BY <2>2 DEF Edit, Edited
    <3>2. item' = [item EXCEPT ![i] = [item[i] EXCEPT !.date = d]]
      BY <2>2 DEF Edit, Save
    <3>3. item'[i].reminded = item[i].reminded
      BY <3>1, <3>2 DEF Rows
    <3> QED
      BY <3>1, <3>2, <3>3 DEF OnceInv, Unsent
  <2>3. CASE Validate(i)
    <3>1. item[i] \in Rows /\ item[i] # NoRow
      BY <2>3 DEF Validate, Edited
    <3>2. item' = [item EXCEPT ![i] = [item[i] EXCEPT !.done = TRUE]]
      BY <2>3 DEF Validate, Save
    <3>3. item'[i].reminded = item[i].reminded
      BY <3>1, <3>2 DEF Rows
    <3> QED
      BY <3>1, <3>2, <3>3 DEF OnceInv, Unsent
  <2>4. CASE Delete(i)
    BY <2>4 DEF Delete
  <2> QED
    BY <2>1, <2>2, <2>3, <2>4
<1>3. Unsent'
  BY <1>1, <1>2 DEF OnceInv, Unsent
<1> HIDE DEF TypeInv
<1> QED
  BY <1>1, <1>3, OnceFewer DEF Alive, Mine, Holders

\* A process which fetches instances holds only those which have not been sent.
LEMMA OnceFetch ==
    ASSUME TypeInv, OnceInv, NEW p \in Procs, proc[p] # Dead,
           UNCHANGED <<item, sent, schedVars, bounds>>,
           NEW s, NEW S, GoTo(p, s, Batch(S)), S \subseteq Items
    PROVE  OnceInv'
<1>0. UNCHANGED <<current, waiting, stops>>
  BY DEF schedVars, bounds
<1>1. Unsent'
  BY DEF OnceInv, Unsent
<1>2. \A q \in Procs : q # p => proc'[q] = proc[q]
  BY DEF GoTo, TypeInv, TypeOK
<1>3. proc'[p].batch = Batch(S)
  <2>1. proc' = [proc EXCEPT ![p] = [at |-> s, batch |-> Batch(S)]]
    BY DEF GoTo
  <2>2. proc'[p] = [at |-> s, batch |-> Batch(S)]
    BY <2>1 DEF TypeInv, TypeOK
  <2> QED
    BY <2>2
<1>4. Alive' \subseteq Alive
  BY <1>2 DEF Alive
<1>5. FewAlive'
  <2>1. (Alive \ {Mine})' \subseteq Alive \ {Mine}
    BY <1>0, <1>4 DEF Mine
  <2>2. /\ Cardinality((Alive \ {Mine})') <= Cardinality(Alive \ {Mine})
        /\ Cardinality((Alive \ {Mine})') \in Nat /\ Cardinality(Alive \ {Mine}) \in Nat
    BY <2>1, Smaller DEF Alive
  <2> QED
    BY <1>0, <2>2 DEF OnceInv, FewAlive, TypeInv, TypeOK
<1>6. ASSUME NEW i \in Items PROVE (sent[i] + Cardinality(Holders(i)) <= 1 + stops)'
  <2>1. CASE i \in DOMAIN Batch(S)
    <3>1. item[i] # NoRow /\ ~item[i].reminded
      BY <2>1 DEF Batch, Remindable, ToRemind
    <3>2. sent[i] = 0
      BY <3>1 DEF OnceInv, Unsent
    <3>3. Holders(i)' \subseteq Alive
      BY <1>2, HoldersAlive DEF Holders, Alive
    <3>4. /\ Cardinality(Holders(i)') <= Cardinality(Alive)
          /\ Cardinality(Holders(i)') \in Nat /\ Cardinality(Alive) \in Nat
      BY <3>3, Smaller DEF Alive
    <3> QED
      BY <1>0, <3>2, <3>4, AliveBound DEF TypeInv, TypeOK
  <2>2. CASE i \notin DOMAIN Batch(S)
    <3>1. Holders(i)' \subseteq Holders(i)
      BY <1>2, <1>3, <2>2 DEF Holders
    <3>2. /\ Cardinality(Holders(i)') <= Cardinality(Holders(i))
          /\ Cardinality(Holders(i)') \in Nat /\ Cardinality(Holders(i)) \in Nat
      BY <3>1, Smaller DEF Holders
    <3>3. sent[i] + Cardinality(Holders(i)) <= 1 + stops /\ sent[i] \in Nat /\ stops \in Nat
      BY DEF OnceInv, FewHeld, TypeInv, TypeOK
    <3> QED
      BY <1>0, <3>2, <3>3
  <2> QED
    BY <2>1, <2>2
<1> QED
  BY <1>1, <1>5, <1>6 DEF OnceInv, FewHeld

\* A notification moves an instance from those which are held to those which are
\* sent, and saves it as reminded.
LEMMA OnceRemind ==
    ASSUME TypeInv, OnceInv, NEW p \in Procs, NEW i \in Items, Remind(p, i)
    PROVE  OnceInv'
<1> USE DEF TypeInv, TypeOK
<1>1. proc[p] \in [at : Stages, batch : Batches] /\ i \in DOMAIN proc[p].batch
  BY DEF Remind, Dead, Empty
<1> DEFINE b == [j \in DOMAIN proc[p].batch \ {i} |-> proc[p].batch[j]]
<1>2. proc' = [proc EXCEPT ![p].batch = b]
  BY DEF Remind
<1> HIDE DEF b
<1>3. proc'[p].batch = b /\ \A q \in Procs : q # p => proc'[q] = proc[q]
  BY <1>1, <1>2
<1>4. DOMAIN b = DOMAIN proc[p].batch \ {i}
  BY DEF b
<1>5. UNCHANGED <<current, waiting, stops>>
  BY DEF Remind, schedVars, bounds
<1>6. sent' = [sent EXCEPT ![i] = @ + 1]
  BY DEF Remind
<1>7. Unsent'
  <2>1. proc[p].batch[i] \in Rows
    BY <1>1 DEF Batches
  <2>2. item' = [item EXCEPT ![i] = [proc[p].batch[i] EXCEPT !.reminded = TRUE]]
    BY DEF Remind
  <2>3. item'[i].reminded /\ \A k \in Items : k # i => item'[k] = item[k]
    BY <2>1, <2>2 DEF Rows
  <2> QED
    BY <1>6, <2>3 DEF OnceInv, Unsent
<1>8. FewAlive'
  <2>1. (Alive \ {Mine})' \subseteq Alive \ {Mine}
    <3>1. proc[p] # Dead
      BY <1>1 DEF Dead, Empty
    <3> QED
      BY <1>3, <1>5, <3>1 DEF Alive, Mine
  <2>2. /\ Cardinality((Alive \ {Mine})') <= Cardinality(Alive \ {Mine})
        /\ Cardinality((Alive \ {Mine})') \in Nat /\ Cardinality(Alive \ {Mine}) \in Nat
    BY <2>1, Smaller DEF Alive
  <2> QED
    BY <1>5, <2>2 DEF OnceInv, FewAlive
<1>9. ASSUME NEW k \in Items PROVE (sent[k] + Cardinality(Holders(k)) <= 1 + stops)'
  <2>1. sent[k] + Cardinality(Holders(k)) <= 1 + stops /\ sent[k] \in Nat /\ stops \in Nat
    BY DEF OnceInv, FewHeld
  <2>2. CASE k = i
    <3>1. p \in Holders(i) /\ Holders(i)' = Holders(i) \ {p}
      BY <1>1, <1>3, <1>4 DEF Holders
    <3>2. IsFiniteSet(Holders(i))
      BY RemindersAssumption, FS_Subset DEF Holders
    <3>3. Cardinality(Holders(i)') = Cardinality(Holders(i)) - 1
      BY <3>1, <3>2, FS_RemoveElement
    <3>4. Cardinality(Holders(i)) \in Nat
      BY <3>2, FS_CardinalityType
    <3>5. sent'[i] = sent[i] + 1
      BY <1>6
    <3> QED
      BY <1>5, <2>1, <2>2, <3>3, <3>4, <3>5
  <2>3. CASE k # i
    <3>1. Holders(k)' = Holders(k) /\ sent'[k] = sent[k]
      BY <1>3, <1>4, <1>6, <2>3 DEF Holders
    <3> QED
      BY <1>5, <2>1, <3>1
  <2> QED
    BY <2>2, <2>3
<1> QED
  BY <1>7, <1>8, <1>9 DEF OnceInv, FewHeld

\* A process which is at some stage is alive.
LEMMA StageAlive ==
    ASSUME NEW p, NEW s \in Stages, At(p, s)
    PROVE  proc[p] # Dead
<1>1. Dead.at = "none"
  BY DEF Dead
<1> QED
  BY <1>1 DEF At, Stages

\* A process which holds nothing more, is killed, or ends; the scheduler waits for
\* the end of the process it had started.
LEMMA OnceEnd ==
    ASSUME TypeInv, OnceInv, NEW p \in Procs,
           NextReminder(p) \/ Kill(p) \/ End(p) \/ (FetchTodos(p) /\ ~HourIsOk)
    PROVE  OnceInv'
<1>1. UNCHANGED <<item, sent, stops>>
  BY DEF NextReminder, Kill, End, FetchTodos, bounds
<1>2. proc[p] # Dead
  BY StageAlive DEF NextReminder, Kill, End, FetchTodos, Sending, Stages
<1>3. proc'[p].batch = Empty /\ \A q \in Procs : q # p => proc'[q] = proc[q]
  <2>1. CASE \E s \in {"fetch todos", "end"} : GoTo(p, s, Empty)
    <3>1. PICK s \in {"fetch todos", "end"} : proc' = [proc EXCEPT ![p] = [at |-> s, batch |-> Empty]]
      BY <2>1 DEF GoTo
    <3>2. proc'[p] = [at |-> s, batch |-> Empty]
      BY <3>1 DEF TypeInv, TypeOK
    <3>3. [at |-> s, batch |-> Empty].batch = Empty
      OBVIOUS
    <3> QED
      BY <3>1, <3>2, <3>3 DEF TypeInv, TypeOK
  <2>2. CASE proc' = [proc EXCEPT ![p] = Dead]
    <3>1. proc'[p] = Dead
      BY <2>2 DEF TypeInv, TypeOK
    <3> QED
      BY <2>2, <3>1 DEF Dead
  <2> QED
    BY <2>1, <2>2 DEF NextReminder, Kill, End, FetchTodos
<1>4. Mine' = Mine
  BY RemindersAssumption DEF Mine, NextReminder, Kill, End, FetchTodos, schedVars
<1>5. (Alive \ {Mine})' \subseteq Alive \ {Mine}
  BY <1>2, <1>3, <1>4 DEF Alive
<1>6. \A i \in Items : Holders(i)' \subseteq Holders(i)
  BY <1>3 DEF Holders, Empty
<1>7. Unsent'
  BY <1>1 DEF OnceInv, Unsent
<1> QED
  BY <1>1, <1>5, <1>6, <1>7, OnceFewer

\* A process is started when the former one is dead.
LEMMA OnceRun ==
    ASSUME TypeInv, OnceInv, NEW p \in Procs, RunJob(p)
    PROVE  OnceInv'
<1>1. UNCHANGED <<item, sent, stops>> /\ Unsent'
  BY DEF RunJob, bounds, OnceInv, Unsent
<1>2. proc'[p].batch = Empty /\ \A q \in Procs : q # p => proc'[q] = proc[q]
  BY DEF RunJob, TypeInv, TypeOK
<1>3. Mine \notin Alive
  <2>1. current = None /\ (waiting = None \/ proc[waiting] = Dead)
    BY DEF RunJob, IsDue, Blocked
  <2> QED
    BY <2>1, RemindersAssumption DEF Mine, Alive
<1>4. Mine' = p
  BY RemindersAssumption DEF RunJob, Mine
<1>5. (Alive \ {Mine})' \subseteq Alive \ {Mine}
  BY <1>2, <1>3, <1>4 DEF Alive
<1>6. \A i \in Items : Holders(i)' \subseteq Holders(i)
  BY <1>2 DEF Holders, Empty
<1> QED
  BY <1>1, <1>5, <1>6, OnceFewer

\* A scheduler which stops leaves a process behind it.
LEMMA OnceStop ==
    ASSUME TypeInv, OnceInv, SchedStop
    PROVE  OnceInv'
<1>1. UNCHANGED <<item, sent, proc>> /\ stops' = stops + 1 /\ Mine' = None
  BY DEF SchedStop, Mine
<1>2. Alive' = Alive /\ \A i \in Items : Holders(i)' = Holders(i)
  BY <1>1 DEF Alive, Holders
<1>3. (Alive \ {Mine})' = Alive
  BY <1>1, <1>2, RemindersAssumption DEF Alive
<1>4. Cardinality(Alive) <= 1 + stops /\ stops \in Nat
  BY AliveBound DEF TypeInv, TypeOK
<1>5. FewAlive'
  BY <1>1, <1>3, <1>4 DEF FewAlive
<1>6. ASSUME NEW i \in Items PROVE (sent[i] + Cardinality(Holders(i)) <= 1 + stops)'
  <2>1. sent[i] + Cardinality(Holders(i)) <= 1 + stops /\ sent[i] \in Nat /\ stops \in Nat
    BY DEF OnceInv, FewHeld, TypeInv, TypeOK
  <2>2. Cardinality(Holders(i)) \in Nat
    BY Smaller DEF Holders
  <2> QED
    BY <1>1, <1>2, <2>1, <2>2
<1>7. Unsent'
  BY <1>1 DEF OnceInv, Unsent
<1> QED
  BY <1>5, <1>6, <1>7 DEF OnceInv, FewHeld

\* Each step preserves the invariant.
LEMMA OnceNext == TypeInv /\ OnceInv /\ [Next]_vars => OnceInv'
<1> SUFFICES ASSUME TypeInv, OnceInv, [Next]_vars PROVE OnceInv'
  OBVIOUS
<1>1. ASSUME NEW i \in Items,
             (\E d \in Dates : Create(i, d) \/ Edit(i, d)) \/ Validate(i) \/ Delete(i)
      PROVE  OnceInv'
  BY <1>1, OnceViews
<1>2. CASE SchedStop
  BY <1>2, OnceStop
<1>3. CASE SchedStart \/ Tick \/ UNCHANGED vars
  <2>1. UNCHANGED <<item, sent, stops, proc, current, waiting>>
    BY <1>3 DEF SchedStart, Tick, vars, schedVars, bounds
  <2>2. Unsent'
    BY <2>1 DEF OnceInv, Unsent
  <2> QED
    BY <2>1, <2>2, OnceFewer DEF Alive, Mine, Holders
<1>4. ASSUME NEW p \in Procs, RunJob(p) PROVE OnceInv'
  BY <1>4, OnceRun
<1>5. ASSUME NEW p \in Procs, FetchAlerts(p) \/ (FetchTodos(p) /\ HourIsOk) PROVE OnceInv'
  <2>1. Alerts \subseteq Items /\ Todos \subseteq Items
    BY DEF Items
  <2>2. proc[p] # Dead
    BY <1>5, StageAlive DEF FetchAlerts, FetchTodos, Stages
  <2> QED
    BY <1>5, <2>1, <2>2, OnceFetch DEF FetchAlerts, FetchTodos
<1>6. ASSUME NEW p \in Procs, NEW i \in Items, Remind(p, i) PROVE OnceInv'
  BY <1>6, OnceRemind
<1>7. ASSUME NEW p \in Procs,
             NextReminder(p) \/ Kill(p) \/ End(p) \/ (FetchTodos(p) /\ ~HourIsOk)
      PROVE  OnceInv'
  BY <1>7, OnceEnd
<1> QED
  BY <1>1, <1>2, <1>3, <1>4, <1>5, <1>6, <1>7 DEF Next

\* What makes the following theorem true, with any number of processes.
THEOREM Once == Spec => []OnceInv
<1>1. Init => OnceInv
  <2> SUFFICES ASSUME Init PROVE OnceInv
    OBVIOUS
  <2>1. Alive = {} /\ \A i \in Items : Holders(i) = {} /\ sent[i] = 0 /\ item[i] = NoRow
    BY DEF Init, Alive, Holders, Dead, Empty
  <2>2. Alive \ {Mine} = {} /\ Cardinality({}) = 0 /\ stops = 0
    BY <2>1, FS_EmptySet DEF Init
  <2>3. Unsent /\ FewAlive
    BY <2>1, <2>2 DEF Unsent, FewAlive
  <2>4. FewHeld
    <3> SUFFICES ASSUME NEW i \in Items PROVE sent[i] + Cardinality(Holders(i)) <= 1 + stops
      BY DEF FewHeld
    <3> QED
      BY <2>1, <2>2
  <2> QED
    BY <2>3, <2>4 DEF OnceInv
<1> QED
  BY <1>1, TypeInit, TypeNext, OnceNext, PTL DEF Spec

\* An item is notified once, and once more for each time the scheduler has been
\* stopped, whatever the users edit or delete while the processes run.
THEOREM OneNotification == Spec => []NotifiedOnce
<1>1. TypeInv /\ OnceInv => NotifiedOnce
  <2> SUFFICES ASSUME TypeInv, OnceInv, NEW i \in Items PROVE sent[i] <= 1 + stops
    BY DEF NotifiedOnce
  <2>1. Cardinality(Holders(i)) \in Nat
    BY Smaller DEF Holders
  <2> QED
    BY <2>1 DEF OnceInv, FewHeld, TypeInv, TypeOK
<1> QED
  BY <1>1, TypeInit, TypeNext, Once, PTL DEF Spec
=============================================================================
