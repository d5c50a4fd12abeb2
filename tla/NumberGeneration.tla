--------------------------- MODULE NumberGeneration ---------------------------
(***************************************************************************)
(* The numbers of billing documents: one NumberGeneratorItem (a row: the   *)
(* counter and the date of its last use) shared by requests and jobs.      *)
(*                                                                         *)
(* A button locks the row before it reads it. A creator (a creation form,  *)
(* a conversion, a mass import) numbers the documents in a signal, with a  *)
(* copy of the row which is read once, without lock, and stays in the      *)
(* cache of the request or of the job; its save() writes the whole row.    *)
(* Every number contains the period (month or year) of the counter.        *)
(***************************************************************************)
EXTENDS Naturals

CONSTANTS
    Docs,           \* the documents
    Buttons,        \* requests of NumberGeneration: one document each
    Target,
    Creators,       \* requests and jobs which create documents
    Creates,        \* the documents of each one
    ResetPeriod,    \* the counter is reset when the period changes
    MaxPeriods,     \* bound: periods
    MaxRollbacks,   \* bound: transactions which fail
    NoOne           \* no transaction holds the row

ASSUME NumbersAssumption ==
    /\ Target \in [Buttons -> Docs] /\ Creates \in [Creators -> SUBSET Docs]
    /\ ResetPeriod \in BOOLEAN /\ {MaxPeriods, MaxRollbacks} \subseteq Nat
    /\ NoOne \notin Buttons \cup Creators

VARIABLES
    today,          \* the present period
    item,           \* the committed row; period 0: the counter was never used
    number,         \* the committed number of each document
    button,         \* progress of a button, and the number it has seen
    cache,          \* copy of a creator
    tx,             \* the transaction which holds the row
    rollbacks,
    overwritten     \* history: a copy older than the row was written over it

numberVars == <<today, item, number, button, cache, tx, rollbacks, overwritten>>

Numbers == [period : Nat, k : Nat]
Items   == [period : Nat, counter : Nat]

None    == [period |-> 0, k |-> 0]
Unused  == [period |-> 0, counter |-> 1]
Idle    == [who |-> NoOne]

Transactions == [who : Buttons \cup Creators, doc : Docs, base : Items, day : Nat]

NumbersTypeOK ==
    /\ today \in Nat \ {0} /\ item \in Items /\ number \in [Docs -> Numbers]
    /\ button \in [Buttons -> {"idle", "free", "numbered", "end"}]
    /\ cache \in [Creators -> [loaded : BOOLEAN, item : Items]]
    /\ tx \in Transactions \cup {Idle}
    /\ rollbacks \in Nat /\ overwritten \in BOOLEAN

NumbersInit ==
    /\ today = 1 /\ item = Unused /\ number = [d \in Docs |-> None]
    /\ button = [b \in Buttons |-> "idle"]
    /\ cache = [c \in Creators |-> [loaded |-> FALSE, item |-> Unused]]
    /\ tx = Idle /\ rollbacks = 0 /\ overwritten = FALSE

-----------------------------------------------------------------------------
(* RegularNumberGenerator.perform() *)

\* The counter which is used on a day, from a row.
Counter(i, day) ==
    IF ResetPeriod /\ i.period # 0 /\ i.period # day THEN 1 ELSE i.counter

NumberOf(i, day) == [period |-> day, k |-> Counter(i, day)]

RowAfter(i, day) == [period |-> day, counter |-> Counter(i, day) + 1]

Perform(who, doc, i) ==
    tx' = [who |-> who, doc |-> doc, base |-> i, day |-> today]

-----------------------------------------------------------------------------
(* Buttons *)

\* The document is read before the row is locked.
ReadDoc(b) ==
    /\ button[b] = "idle"
    /\ button' = [button EXCEPT ![b] = IF number[Target[b]] = None THEN "free" ELSE "numbered"]
    /\ UNCHANGED <<today, item, number, cache, tx, rollbacks, overwritten>>

\* select_for_update(), then check_permissions() on the document as it was read.
LockItem(b) ==
    /\ button[b] \in {"free", "numbered"} /\ tx = Idle
    /\ button' = [button EXCEPT ![b] = "end"]
    /\ IF button[b] = "free" THEN Perform(b, Target[b], item) ELSE tx' = tx
    /\ UNCHANGED <<today, item, number, cache, rollbacks, overwritten>>

-----------------------------------------------------------------------------
(* Creators *)

\* get_for_instance(): the per-request cache is filled once.
LoadItem(c) ==
    /\ ~cache[c].loaded
    /\ cache' = [cache EXCEPT ![c] = [loaded |-> TRUE, item |-> item]]
    /\ UNCHANGED <<today, item, number, button, tx, rollbacks, overwritten>>

\* generate_number(): the copy is changed in memory, and its UPDATE waits for
\* the transaction which holds the row, then holds it until the commit.
SaveItem(c, d) ==
    /\ cache[c].loaded /\ tx = Idle
    /\ d \in Creates[c] /\ number[d] = None
    /\ Perform(c, d, cache[c].item)
    /\ cache' = [cache EXCEPT ![c].item = RowAfter(@, today)]
    /\ UNCHANGED <<today, item, number, button, rollbacks, overwritten>>

-----------------------------------------------------------------------------
(* Transactions *)

\* A row is behind another one: it was used before.
Behind(i, j) ==
    \/ i.period < j.period
    \/ i.period = j.period /\ i.counter < j.counter

\* Mutant: the row is not saved.
CommitForgets ==
    /\ tx # Idle
    /\ number' = [number EXCEPT ![tx.doc] = NumberOf(tx.base, tx.day)]
    /\ tx' = Idle
    /\ UNCHANGED <<today, item, button, cache, rollbacks, overwritten>>

CommitNumber ==
    /\ tx # Idle
    /\ number' = [number EXCEPT ![tx.doc] = NumberOf(tx.base, tx.day)]
    /\ item' = RowAfter(tx.base, tx.day)
    /\ overwritten' = (overwritten \/ Behind(tx.base, item))
    /\ tx' = Idle
    /\ UNCHANGED <<today, button, cache, rollbacks>>

\* The rest of the transaction fails. The copy of a creator stays changed.
Rollback ==
    /\ tx # Idle /\ rollbacks < MaxRollbacks
    /\ tx' = Idle /\ rollbacks' = rollbacks + 1
    /\ UNCHANGED <<today, item, number, button, cache, overwritten>>

NewPeriod ==
    /\ today < MaxPeriods
    /\ today' = today + 1
    /\ UNCHANGED <<item, number, button, cache, tx, rollbacks, overwritten>>

NumbersNext ==
    \/ \E b \in Buttons : ReadDoc(b) \/ LockItem(b)
    \/ \E c \in Creators : LoadItem(c)
    \/ \E c \in Creators : \E d \in Creates[c] : SaveItem(c, d)
    \/ CommitNumber \/ Rollback \/ NewPeriod

NumbersSpec == NumbersInit /\ [][NumbersNext]_numberVars

-----------------------------------------------------------------------------
(* Properties *)

\* The docstring of NumberGenerator asks for a lock "to avoid issue with
\* concurrent number generations": two documents never have the same number.
NumbersDistinct ==
    \A d, e \in Docs : d # e /\ number[d] # None => number[d] # number[e]

\* The lock of the row is enough for the buttons, and creators are harmless as
\* long as none of them writes a copy which is behind the row; rollbacks and
\* changes of period (with or without reset) never give a number twice.
DistinctUnlessOverwritten == ~overwritten => NumbersDistinct

\* check_permissions() of NumberGenerator: "This entity has already a number".
\* A document which has a number is not numbered again.
NumberKept ==
    [][\A d \in Docs : number[d] # None => number'[d] = number[d]]_numberVars
=============================================================================
