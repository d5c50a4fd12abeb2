----------------------------- MODULE BatchProcess -----------------------------
(***************************************************************************)
(* The job of a batch process: actions on the fields of entities, page by  *)
(* page. Each entity is locked and changed in its own transaction, with    *)
(* its result (EntityJobResult); a process which is started again ignores  *)
(* the entities which have a result. Users put entities in the trash, or   *)
(* take them from it, meanwhile.                                           *)
(***************************************************************************)
EXTENDS Naturals, FiniteSets

CONSTANTS
    LastId,         \* ids of the entities: 1..LastId
    PageSize,       \* per_page of the FlowPaginator
    Workers,        \* bound: processes of the job
    MaxDeaths,      \* bound: processes which die
    MaxTrashed      \* bound: entities moved to the trash

ASSUME BatchAssumption ==
    LastId \in Nat /\ PageSize \in Nat \ {0, 1} /\ {MaxDeaths, MaxTrashed} \subseteq Nat

Ids == 1..LastId

VARIABLES
    batchJob,       \* status of the job
    recorded,       \* entities which have a result
    applied,        \* for each entity, how many times it was changed
    trash,          \* entities with is_deleted
    worker,         \* the processes
    deaths, moves,
    batchTwins,     \* history: two processes lived at the same time
    visited, absent \* history: entities which were treated; which were in the trash

batchVars == <<batchJob, recorded, applied, trash, worker, deaths, moves,
               batchTwins, visited, absent>>

\* known: already_processed; page: what is left of the page; next: id of the
\* first entity of the next page, or LastId + 1.
Workings == [known : SUBSET Ids, page : SUBSET Ids, next : 1..(LastId + 1)]
NoWorker == [known |-> {}, page |-> {}, next |-> 0]

BatchTypeOK ==
    /\ batchJob \in {"wait", "ok"}
    /\ recorded \subseteq Ids /\ applied \in [Ids -> Nat] /\ trash \subseteq Ids
    /\ worker \in [Workers -> Workings \cup {NoWorker}]
    /\ deaths \in Nat /\ moves \in Nat /\ batchTwins \in BOOLEAN
    /\ visited \subseteq Ids /\ absent \subseteq Ids

BatchInit ==
    /\ batchJob = "wait" /\ recorded = {} /\ applied = [e \in Ids |-> 0]
    /\ trash = {} /\ worker = [w \in Workers |-> NoWorker]
    /\ deaths = 0 /\ moves = 0
    /\ batchTwins = FALSE /\ visited = {} /\ absent = {}

Live(w) == worker[w] # NoWorker

-----------------------------------------------------------------------------
\* Mutant: a process which resumes the job begins it again.
StartBatchAgain(w) ==
    /\ ~Live(w) /\ batchJob = "wait"
    /\ batchTwins' = (batchTwins \/ \E v \in Workers : Live(v))
    /\ worker' = [worker EXCEPT ![w] = [known |-> {}, page |-> {}, next |-> 1]]
    /\ UNCHANGED <<batchJob, recorded, applied, trash, deaths, moves, visited, absent>>

StartBatch(w) ==
    /\ ~Live(w) /\ batchJob = "wait"
    /\ batchTwins' = (batchTwins \/ \E v \in Workers : Live(v))
    /\ worker' = [worker EXCEPT ![w] = [known |-> recorded, page |-> {}, next |-> 1]]
    /\ UNCHANGED <<batchJob, recorded, applied, trash, deaths, moves, visited, absent>>

\* Mutant: the query of a page asks for strictly greater ids.
FromStrict(n) == {e \in Ids \ trash : e > n \/ n = 1}

\* The entities of the query from an id.
From(n) == {e \in Ids \ trash : e >= n}

\* FlowPaginator asks for one entity more than a page: the first of the next one.
LoadPage(w) ==
    /\ Live(w) /\ worker[w].page = {} /\ worker[w].next <= LastId
    /\ \E n \in From(worker[w].next) \cup {LastId + 1} :
        LET page == {e \in From(worker[w].next) : e < n}
        IN  /\ Cardinality(page) <= PageSize
            /\ n <= LastId => Cardinality(page) = PageSize
            /\ worker' = [worker EXCEPT ![w] =
                            [known |-> worker[w].known, page |-> page, next |-> n]]
    /\ UNCHANGED <<batchJob, recorded, applied, trash, deaths, moves,
                   batchTwins, visited, absent>>

\* The transaction of an entity: already processed, deleted or nothing to change
\* (no result), invalid (a result with messages), or saved with its result. It
\* may be in the trash now.
Treat(w) ==
    /\ Live(w)
    /\ \E e \in worker[w].page :
        /\ \A f \in worker[w].page : e <= f
        /\ worker' = [worker EXCEPT ![w].page = @ \ {e}]
        /\ visited' = visited \cup {e}
        /\ \/ UNCHANGED <<recorded, applied>>
           \/ /\ e \notin worker[w].known
              /\ recorded' = recorded \cup {e}
              /\ applied' \in {applied, [applied EXCEPT ![e] = @ + 1]}
    /\ UNCHANGED <<batchJob, trash, deaths, moves, batchTwins, absent>>

FinishBatch(w) ==
    /\ Live(w) /\ worker[w].page = {} /\ worker[w].next = LastId + 1
    /\ worker' = [worker EXCEPT ![w] = NoWorker]
    /\ batchJob' = "ok"
    /\ UNCHANGED <<recorded, applied, trash, deaths, moves, batchTwins, visited, absent>>

KillBatch(w) ==
    /\ Live(w) /\ deaths < MaxDeaths
    /\ worker' = [worker EXCEPT ![w] = NoWorker]
    /\ deaths' = deaths + 1
    /\ UNCHANGED <<batchJob, recorded, applied, trash, moves, batchTwins, visited, absent>>

MoveToTrash(e) ==
    /\ e \notin trash /\ moves < MaxTrashed
    /\ trash' = trash \cup {e} /\ absent' = absent \cup {e}
    /\ moves' = moves + 1
    /\ UNCHANGED <<batchJob, recorded, applied, worker, deaths, batchTwins, visited>>

RestoreEntity(e) ==
    /\ e \in trash
    /\ trash' = trash \ {e}
    /\ UNCHANGED <<batchJob, recorded, applied, worker, deaths, moves,
                   batchTwins, visited, absent>>

BatchNext ==
    \/ \E w \in Workers :
        StartBatch(w) \/ LoadPage(w) \/ Treat(w) \/ FinishBatch(w) \/ KillBatch(w)
    \/ \E e \in Ids : MoveToTrash(e) \/ RestoreEntity(e)

BatchSpec == BatchInit /\ [][BatchNext]_batchVars

-----------------------------------------------------------------------------
(* Properties *)

\* However often the process dies and the job is resumed, an entity is changed
\* once, as long as no second process executes the job at the same time (the
\* actions are not idempotent: adding a suffix, multiplying a number).
AppliedOnce == ~batchTwins => \A e \in Ids : applied[e] <= 1

\* When the job ends, each entity which has never been in the trash was treated,
\* by one process or another: pages neither overlap nor leave a gap, although
\* the query changes between two pages.
NoneLeftOut == batchJob = "ok" => Ids \subseteq visited \cup absent
=============================================================================
