-------------------------- MODULE BatchProcess_proofs --------------------------
(***************************************************************************)
(* Proofs about BatchProcess, for any number of entities, size of page,    *)
(* number of processes, of deaths and of moves to the trash.               *)
(***************************************************************************)
EXTENDS BatchProcess, TLAPS

\* Without a second process, at most one process lives.
SoleWorker == \A v, w \in Workers : Live(v) /\ Live(w) => v = w

\* A change leaves a result.
ChangesRecorded == \A e \in Ids : applied[e] <= (IF e \in recorded THEN 1 ELSE 0)

\* What a process has still to treat, and did not know as recorded when it has
\* begun, was not recorded since by itself.
AheadUnrecorded == \A w \in Workers : Live(w) =>
    /\ \A e \in worker[w].page : e < worker[w].next
    /\ \A e \in Ids : (e \in worker[w].page \/ e >= worker[w].next)
                        /\ e \notin worker[w].known => e \notin recorded

\* What a process has left behind was treated, or was in the trash.
BehindVisited == \A w \in Workers : Live(w) =>
    \A e \in Ids : e < worker[w].next =>
        e \in worker[w].page \/ e \in visited \/ e \in absent

BatchInv ==
    /\ BatchTypeOK /\ trash \subseteq absent
    /\ BehindVisited /\ NoneLeftOut
    /\ ~batchTwins => SoleWorker /\ ChangesRecorded /\ AheadUnrecorded

-----------------------------------------------------------------------------
\* A live process is a working one.
LEMMA LiveType ==
    ASSUME BatchTypeOK, NEW w \in Workers
    PROVE  /\ Live(w) => worker[w] \in Workings
           /\ Live(w) => /\ worker[w].known \subseteq Ids /\ worker[w].page \subseteq Ids
                         /\ worker[w].next \in 1..(LastId + 1)
<1>1. Live(w) => worker[w] \in Workings
  BY DEF BatchTypeOK, Live
<1> QED  BY <1>1 DEF Workings

\* The process which begins, or one which goes on, is live.
LEMMA WorkingIsLive ==
    ASSUME NEW k, NEW p, NEW n \in Nat \ {0}
    PROVE  [known |-> k, page |-> p, next |-> n] # NoWorker
<1>1. [known |-> k, page |-> p, next |-> n].next # NoWorker.next
  BY DEF NoWorker
<1> QED  BY <1>1

LEMMA BatchInvInit == ASSUME BatchInit PROVE BatchInv
<1>1. BatchTypeOK
  <2>1. batchTwins \in BOOLEAN
    BY Zenon DEF BatchInit
  <2>2. worker \in [Workers -> Workings \cup {NoWorker}] /\ applied \in [Ids -> Nat]
    BY DEF BatchInit
  <2> QED  BY <2>1, <2>2 DEF BatchInit, BatchTypeOK
<1>2. \A w \in Workers : ~Live(w)
  BY DEF BatchInit, Live
<1>3. SoleWorker /\ AheadUnrecorded /\ BehindVisited
  BY <1>2 DEF SoleWorker, AheadUnrecorded, BehindVisited
<1>4. ChangesRecorded
  BY DEF BatchInit, ChangesRecorded
<1>5. NoneLeftOut /\ trash \subseteq absent
  BY DEF BatchInit, NoneLeftOut
<1> QED  BY <1>1, <1>3, <1>4, <1>5 DEF BatchInv

-----------------------------------------------------------------------------
LEMMA StartBatchStep ==
    ASSUME BatchInv, NEW w \in Workers, StartBatch(w) PROVE BatchInv'
<1> DEFINE new == [known |-> recorded, page |-> {}, next |-> 1]
<1>0. /\ LastId \in Nat /\ worker' = [worker EXCEPT ![w] = new]
      /\ worker \in [Workers -> Workings \cup {NoWorker}] /\ recorded \subseteq Ids
      /\ UNCHANGED <<batchJob, recorded, applied, trash, deaths, moves, visited, absent>>
  BY BatchAssumption DEF BatchInv, BatchTypeOK, StartBatch
<1>1. new \in Workings
  BY <1>0 DEF Workings
<1>2. BatchTypeOK'
  <2>1. batchTwins' \in BOOLEAN
    BY DEF StartBatch
  <2>2. worker' \in [Workers -> Workings \cup {NoWorker}]
    BY <1>0, <1>1
  <2> QED  BY <2>1, <2>2, <1>0 DEF BatchInv, BatchTypeOK
<1>3. worker'[w] = new /\ \A v \in Workers : v # w => worker'[v] = worker[v]
  BY <1>0
<1>4. BehindVisited'
  <2>1. SUFFICES ASSUME NEW v \in Workers, Live(v)', NEW e \in Ids, e < worker'[v].next
                 PROVE  e \in worker'[v].page \/ e \in visited \/ e \in absent
    BY <1>0 DEF BehindVisited
  <2>2. CASE v = w
    BY <2>1, <2>2, <1>0, <1>3 DEF Ids
  <2>3. CASE v # w
    BY <2>1, <2>3, <1>3 DEF BatchInv, BehindVisited, Live
  <2> QED  BY <2>2, <2>3
<1>5. ASSUME ~batchTwins' PROVE SoleWorker' /\ ChangesRecorded' /\ AheadUnrecorded'
  <2>1. ~batchTwins /\ \A v \in Workers : ~Live(v)
    BY <1>5 DEF StartBatch
  <2>2. \A v \in Workers : Live(v)' => v = w
    BY <2>1, <1>3 DEF Live
  <2>3. AheadUnrecorded'
    <3>1. SUFFICES ASSUME NEW v \in Workers, Live(v)'
                   PROVE  /\ \A e \in worker'[v].page : e < worker'[v].next
                          /\ \A e \in Ids : e \notin worker'[v].known => e \notin recorded
      BY <1>0 DEF AheadUnrecorded
    <3>2. worker'[v] = new
      BY <2>2, <3>1, <1>3
    <3> QED  BY <3>2
  <2>4. ChangesRecorded'
    BY <2>1, <1>0 DEF BatchInv, ChangesRecorded
  <2> QED  BY <2>2, <2>3, <2>4 DEF SoleWorker
<1>6. NoneLeftOut' /\ trash' \subseteq absent'
  BY <1>0 DEF BatchInv, NoneLeftOut
<1> QED  BY <1>2, <1>4, <1>5, <1>6 DEF BatchInv

LEMMA LoadPageStep ==
    ASSUME BatchInv, NEW w \in Workers, LoadPage(w) PROVE BatchInv'
<1>0. /\ LastId \in Nat /\ worker \in [Workers -> Workings \cup {NoWorker}]
      /\ Live(w) /\ worker[w] \in Workings /\ worker[w].page = {}
      /\ worker[w].known \subseteq Ids /\ worker[w].next \in 1..(LastId + 1)
      /\ UNCHANGED <<batchJob, recorded, applied, trash, deaths, moves,
                     batchTwins, visited, absent>>
  BY BatchAssumption, LiveType DEF BatchInv, BatchTypeOK, LoadPage
<1>1. PICK n \in From(worker[w].next) \cup {LastId + 1} :
        worker' = [worker EXCEPT ![w] =
            [known |-> worker[w].known,
             page |-> {e \in From(worker[w].next) : e < n}, next |-> n]]
  BY DEF LoadPage
<1> DEFINE from == worker[w].next
           page == {e \in From(from) : e < n}
           new  == [known |-> worker[w].known, page |-> page, next |-> n]
<1>2. n \in from..(LastId + 1) /\ n \in 1..(LastId + 1) /\ page \subseteq Ids
  BY <1>0, <1>1 DEF From, Ids
<1>3. worker' = [worker EXCEPT ![w] = new] /\ new \in Workings
  BY <1>0, <1>1, <1>2 DEF Workings
<1>4. worker'[w] = new /\ \A v \in Workers : v # w => worker'[v] = worker[v]
  BY <1>0, <1>3
<1>5. BatchTypeOK'
  <2>1. worker' \in [Workers -> Workings \cup {NoWorker}]
    BY <1>0, <1>3
  <2> QED  BY <2>1, <1>0 DEF BatchInv, BatchTypeOK
<1>6. \A v \in Workers : Live(v)' => Live(v)
  BY <1>0, <1>4 DEF Live
<1>7. BehindVisited'
  <2>1. SUFFICES ASSUME NEW v \in Workers, Live(v)', NEW e \in Ids, e < worker'[v].next
                 PROVE  e \in worker'[v].page \/ e \in visited \/ e \in absent
    BY <1>0 DEF BehindVisited
  <2>2. CASE v # w
    BY <2>1, <2>2, <1>4, <1>6 DEF BatchInv, BehindVisited
  <2>3. CASE v = w /\ e < from
    BY <2>1, <2>3, <1>0 DEF BatchInv, BehindVisited
  <2>4. CASE v = w /\ e >= from
    BY <2>1, <2>4, <1>0, <1>4 DEF BatchInv, From
  <2> QED  BY <2>2, <2>3, <2>4, <1>0 DEF Ids
<1>8. ASSUME ~batchTwins PROVE SoleWorker' /\ ChangesRecorded' /\ AheadUnrecorded'
  <2>0. SoleWorker /\ ChangesRecorded /\ AheadUnrecorded
    BY <1>8 DEF BatchInv
  <2>1. SoleWorker' /\ ChangesRecorded'
    BY <2>0, <1>0, <1>6 DEF SoleWorker, ChangesRecorded
  <2>2. SUFFICES ASSUME NEW v \in Workers, Live(v)'
                 PROVE  /\ \A e \in worker'[v].page : e < worker'[v].next
                        /\ \A e \in Ids : (e \in worker'[v].page \/ e >= worker'[v].next)
                             /\ e \notin worker'[v].known => e \notin recorded
    BY <2>1, <1>0 DEF AheadUnrecorded
  <2>3. v = w
    BY <2>0, <2>2, <1>0, <1>6 DEF SoleWorker
  <2>4. \A e \in page : e < n
    OBVIOUS
  <2>5. ASSUME NEW e \in Ids, e \in page \/ e >= n, e \notin worker[w].known
        PROVE  e \notin recorded
    <3>1. e >= from
      BY <2>5, <1>0, <1>2 DEF From, Ids
    <3> QED  BY <3>1, <2>0, <2>5, <1>0 DEF AheadUnrecorded
  <2> QED  BY <2>3, <2>4, <2>5, <1>4
<1>9. NoneLeftOut' /\ trash' \subseteq absent'
  BY <1>0 DEF BatchInv, NoneLeftOut
<1> QED  BY <1>0, <1>5, <1>7, <1>8, <1>9 DEF BatchInv

LEMMA TreatStep ==
    ASSUME BatchInv, NEW w \in Workers, Treat(w) PROVE BatchInv'
<1>1. PICK e \in worker[w].page :
        /\ worker' = [worker EXCEPT ![w].page = @ \ {e}]
        /\ visited' = visited \cup {e}
        /\ \/ UNCHANGED <<recorded, applied>>
           \/ /\ e \notin worker[w].known
              /\ recorded' = recorded \cup {e}
              /\ applied' \in {applied, [applied EXCEPT ![e] = @ + 1]}
  BY DEF Treat
<1> DEFINE new == [worker[w] EXCEPT !.page = worker[w].page \ {e}]
<1>0. /\ LastId \in Nat /\ worker \in [Workers -> Workings \cup {NoWorker}]
      /\ Live(w) /\ worker[w] \in Workings /\ e \in Ids
      /\ worker[w].known \subseteq Ids /\ worker[w].page \subseteq Ids
      /\ worker[w].next \in 1..(LastId + 1)
      /\ worker' = [worker EXCEPT ![w] = new]
      /\ UNCHANGED <<batchJob, trash, deaths, moves, batchTwins, absent>>
  BY <1>1, BatchAssumption, LiveType DEF BatchInv, BatchTypeOK, Treat
<1>2. /\ new \in Workings /\ new.known = worker[w].known /\ new.next = worker[w].next
      /\ new.page = worker[w].page \ {e}
  BY <1>0 DEF Workings
<1>3. worker'[w] = new /\ \A v \in Workers : v # w => worker'[v] = worker[v]
  BY <1>0
<1>4. \A v \in Workers : Live(v)' => Live(v)
  BY <1>0, <1>3 DEF Live
<1>5. BatchTypeOK'
  <2>1. worker' \in [Workers -> Workings \cup {NoWorker}]
    BY <1>0, <1>2
  <2>2. applied' \in [Ids -> Nat]
    BY <1>0, <1>1 DEF BatchInv, BatchTypeOK
  <2>3. recorded' \subseteq Ids /\ visited' \subseteq Ids
    BY <1>0, <1>1 DEF BatchInv, BatchTypeOK
  <2> QED  BY <2>1, <2>2, <2>3, <1>0 DEF BatchInv, BatchTypeOK
<1>6. BehindVisited'
  <2>1. SUFFICES ASSUME NEW v \in Workers, Live(v)', NEW f \in Ids, f < worker'[v].next
                 PROVE  f \in worker'[v].page \/ f \in visited' \/ f \in absent
    BY <1>0 DEF BehindVisited
  <2>2. CASE v # w
    BY <1>1, <2>1, <2>2, <1>0, <1>3, <1>4 DEF BatchInv, BehindVisited
  <2>3. CASE v = w
    <3>1. f \in worker[w].page \/ f \in visited \/ f \in absent
      BY <2>1, <2>3, <1>0, <1>2, <1>3 DEF BatchInv, BehindVisited
    <3> QED  BY <1>1, <3>1, <2>3, <1>0, <1>2, <1>3
  <2> QED  BY <2>2, <2>3
<1>7. ASSUME ~batchTwins PROVE SoleWorker' /\ ChangesRecorded' /\ AheadUnrecorded'
  <2>0. SoleWorker /\ ChangesRecorded /\ AheadUnrecorded
    BY <1>7 DEF BatchInv
  <2>1. SoleWorker'
    BY <2>0, <1>4 DEF SoleWorker
  <2>2. CASE UNCHANGED <<recorded, applied>>
    <3>1. ChangesRecorded'
      BY <2>0, <2>2 DEF ChangesRecorded
    <3>2. SUFFICES ASSUME NEW v \in Workers, Live(v)'
                   PROVE  /\ \A f \in worker'[v].page : f < worker'[v].next
                          /\ \A f \in Ids : (f \in worker'[v].page \/ f >= worker'[v].next)
                               /\ f \notin worker'[v].known => f \notin recorded
      BY <2>1, <2>2, <3>1 DEF AheadUnrecorded
    <3>3. v = w
      BY <2>0, <3>2, <1>0, <1>4 DEF SoleWorker
    <3> QED  BY <3>3, <2>0, <1>0, <1>2, <1>3 DEF AheadUnrecorded
  <2>3. CASE /\ e \notin worker[w].known
             /\ recorded' = recorded \cup {e}
             /\ applied' = applied \/ applied' = [applied EXCEPT ![e] = @ + 1]
    <3>1. e \notin recorded
      BY <2>0, <2>3, <1>0, <1>1 DEF AheadUnrecorded
    <3>2. ChangesRecorded'
      <4>1. applied \in [Ids -> Nat]
        BY DEF BatchInv, BatchTypeOK
      <4>2. SUFFICES ASSUME NEW f \in Ids
                     PROVE  applied'[f] <= (IF f \in recorded' THEN 1 ELSE 0)
        BY DEF ChangesRecorded
      <4>3. applied[f] <= (IF f \in recorded THEN 1 ELSE 0) /\ applied[f] \in Nat
        BY <2>0, <4>1 DEF ChangesRecorded
      <4>4. CASE f = e
        BY <4>1, <4>3, <4>4, <3>1, <2>3, <1>1
      <4>5. CASE f # e
        BY <4>1, <4>3, <4>5, <2>3
      <4> QED  BY <4>4, <4>5
    <3>3. SUFFICES ASSUME NEW v \in Workers, Live(v)'
                   PROVE  /\ \A f \in worker'[v].page : f < worker'[v].next
                          /\ \A f \in Ids : (f \in worker'[v].page \/ f >= worker'[v].next)
                               /\ f \notin worker'[v].known => f \notin recorded'
      BY <2>1, <3>2 DEF AheadUnrecorded
    <3>4. v = w
      BY <2>0, <3>3, <1>0, <1>4 DEF SoleWorker
    <3>5. e < worker[w].next /\ \A f \in worker[w].page : f < worker[w].next
      BY <2>0, <1>0, <1>1 DEF AheadUnrecorded
    <3>6. ASSUME NEW f \in Ids, f \in new.page \/ f >= new.next, f \notin new.known
          PROVE  f \notin recorded'
      <4>1. f # e
        BY <3>5, <3>6, <1>0, <1>1, <1>2 DEF Ids
      <4>2. f \notin recorded
        BY <3>6, <2>0, <1>0, <1>2 DEF AheadUnrecorded
      <4> QED  BY <4>1, <4>2, <2>3
    <3> QED  BY <3>4, <3>5, <3>6, <1>2, <1>3
  <2> QED  BY <1>1, <2>2, <2>3, <1>0
<1>8. NoneLeftOut' /\ trash' \subseteq absent'
  BY <1>1, <1>0 DEF BatchInv, NoneLeftOut
<1> QED  BY <1>0, <1>5, <1>6, <1>7, <1>8 DEF BatchInv

LEMMA StopStep ==
    ASSUME BatchInv, NEW w \in Workers, worker' = [worker EXCEPT ![w] = NoWorker],
           UNCHANGED <<recorded, applied, trash, moves, batchTwins, visited, absent>>
    PROVE  /\ worker' \in [Workers -> Workings \cup {NoWorker}]
           /\ BehindVisited' /\ trash' \subseteq absent'
           /\ ~batchTwins' => SoleWorker' /\ ChangesRecorded' /\ AheadUnrecorded'
<1>0. worker \in [Workers -> Workings \cup {NoWorker}]
  BY DEF BatchInv, BatchTypeOK
<1>1. \A v \in Workers : Live(v)' => Live(v) /\ worker'[v] = worker[v]
  BY <1>0 DEF Live
<1>2. BehindVisited' /\ trash' \subseteq absent'
  BY <1>1 DEF BatchInv, BehindVisited
<1>3. ASSUME ~batchTwins PROVE SoleWorker' /\ ChangesRecorded' /\ AheadUnrecorded'
  BY <1>1, <1>3 DEF BatchInv, SoleWorker, ChangesRecorded, AheadUnrecorded
<1> QED  BY <1>0, <1>2, <1>3

LEMMA FinishBatchStep ==
    ASSUME BatchInv, NEW w \in Workers, FinishBatch(w) PROVE BatchInv'
<1>1. /\ worker' \in [Workers -> Workings \cup {NoWorker}]
      /\ BehindVisited' /\ trash' \subseteq absent'
      /\ ~batchTwins' => SoleWorker' /\ ChangesRecorded' /\ AheadUnrecorded'
  BY StopStep DEF FinishBatch
<1>2. BatchTypeOK'
  BY <1>1 DEF BatchInv, BatchTypeOK, FinishBatch
<1>3. Ids \subseteq visited \cup absent
  BY BatchAssumption DEF BatchInv, BehindVisited, FinishBatch, Ids
<1> QED  BY <1>1, <1>2, <1>3 DEF BatchInv, NoneLeftOut, FinishBatch

LEMMA KillBatchStep ==
    ASSUME BatchInv, NEW w \in Workers, KillBatch(w) PROVE BatchInv'
<1>1. /\ worker' \in [Workers -> Workings \cup {NoWorker}]
      /\ BehindVisited' /\ trash' \subseteq absent'
      /\ ~batchTwins' => SoleWorker' /\ ChangesRecorded' /\ AheadUnrecorded'
  BY StopStep DEF KillBatch
<1>2. BatchTypeOK'
  BY <1>1 DEF BatchInv, BatchTypeOK, KillBatch
<1> QED  BY <1>1, <1>2 DEF BatchInv, NoneLeftOut, KillBatch

LEMMA TrashStep ==
    ASSUME BatchInv, NEW e \in Ids, MoveToTrash(e) \/ RestoreEntity(e) PROVE BatchInv'
<1>1. /\ UNCHANGED <<batchJob, recorded, applied, worker, deaths, batchTwins, visited>>
      /\ trash' \subseteq absent' /\ absent \subseteq absent' /\ absent' \subseteq Ids
      /\ moves' \in Nat
  BY DEF BatchInv, BatchTypeOK, MoveToTrash, RestoreEntity
<1>2. BatchTypeOK'
  BY <1>1 DEF BatchInv, BatchTypeOK
<1>3. BehindVisited' /\ NoneLeftOut'
  BY <1>1 DEF BatchInv, BehindVisited, NoneLeftOut, Live
<1>4. ~batchTwins' => SoleWorker' /\ ChangesRecorded' /\ AheadUnrecorded'
  BY <1>1 DEF BatchInv, SoleWorker, ChangesRecorded, AheadUnrecorded, Live
<1> QED  BY <1>1, <1>2, <1>3, <1>4 DEF BatchInv

LEMMA BatchInvStep == ASSUME BatchInv, [BatchNext]_batchVars PROVE BatchInv'
<1>1. ASSUME NEW w \in Workers,
             \/ StartBatch(w) \/ LoadPage(w) \/ Treat(w) \/ FinishBatch(w) \/ KillBatch(w)
      PROVE  BatchInv'
  BY <1>1, StartBatchStep, LoadPageStep, TreatStep, FinishBatchStep, KillBatchStep
<1>2. ASSUME NEW e \in Ids, MoveToTrash(e) \/ RestoreEntity(e) PROVE BatchInv'
  BY <1>2, TrashStep
<1>3. CASE UNCHANGED batchVars
  BY <1>3 DEF batchVars, BatchInv, BatchTypeOK, SoleWorker, ChangesRecorded,
      AheadUnrecorded, BehindVisited, NoneLeftOut, Live
<1> QED  BY <1>1, <1>2, <1>3 DEF BatchNext

-----------------------------------------------------------------------------
\* The inductive invariant of the batch process holds.
THEOREM BatchInvariant == BatchSpec => []BatchInv
<1>1. BatchInit => BatchInv
  BY BatchInvInit
<1>2. BatchInv /\ [BatchNext]_batchVars => BatchInv'
  BY BatchInvStep
<1> QED  BY <1>1, <1>2, PTL DEF BatchSpec

\* An entity is changed once, however often the batch process is killed and
\* resumed, when no second process executes it (already_processed).
THEOREM ChangedOnce == BatchSpec => []AppliedOnce
<1>1. BatchInv => AppliedOnce
  <2>1. SUFFICES ASSUME BatchInv, ~batchTwins, NEW e \in Ids PROVE applied[e] <= 1
    BY DEF AppliedOnce
  <2>2. applied[e] <= (IF e \in recorded THEN 1 ELSE 0) /\ applied[e] \in Nat
    BY <2>1 DEF BatchInv, ChangesRecorded, BatchTypeOK
  <2> QED  BY <2>2
<1> QED  BY <1>1, BatchInvariant, PTL

\* The pages of the FlowPaginator leave no entity out, although the query changes
\* while they are read, except those which were in the trash.
THEOREM NobodyLeftOut == BatchSpec => []NoneLeftOut
<1>1. BatchInv => NoneLeftOut
  BY DEF BatchInv
<1> QED  BY <1>1, BatchInvariant, PTL
=============================================================================
