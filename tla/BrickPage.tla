------------------------------ MODULE BrickPage ------------------------------
(***************************************************************************)
(* The bricks of a page: what they display, and how they are reloaded.     *)
(*                                                                         *)
(* A brick displays data of some models (its dependencies). An action of a *)
(* brick sends a POST; when it succeeds the brick is refreshed: one query  *)
(* asks the server for this brick and for those which share a dependency,  *)
(* and its answer REPLACES their elements, whatever they have become       *)
(* meanwhile. Nothing is cancelled and nothing waits: POSTs and reloads    *)
(* are handled by the server, and answered, in any order.                  *)
(***************************************************************************)
EXTENDS Naturals, FiniteSets

CONSTANTS
    Bricks, Models,
    Deps,           \* the data-brick-deps of each brick
    Wildcards,      \* bricks whose dependencies contain '*'
    ReadOnly,       \* bricks which never change the data they display
    Async,          \* bricks whose action buttons are .is-async-action
    MaxActions,     \* bound: actions started by the user
    MaxPages,       \* bound: changes of page of a table
    MaxFails        \* bound: requests which fail

ASSUME BricksAssumption ==
    /\ Deps \in [Bricks -> SUBSET Models]
    /\ \A b \in Wildcards : b \in Bricks /\ Deps[b] = Models
    /\ {MaxActions, MaxPages, MaxFails} \subseteq Nat

VARIABLES
    version,    \* server: number of changes of the data of each model
    gen,        \* page: how many times the element of a brick was replaced
    loading,    \* page: class .is-loading of the present element
    shown,      \* page: versions displayed by the present element
    actions,    \* POSTs in flight: who sent them, and what the server did
    reloads,    \* reload queries in flight: their bricks, and the answer once served
    sent,       \* number of requests of each kind, and of failures
    lost        \* history: bricks for which a reload was lost, see Lose

brickVars == <<version, gen, loading, shown, actions, reloads, sent, lost>>

Versions == [Models -> Nat]
ActionRecords == [id : Nat, brick : Bricks, gen : Nat,
                  stage : {"sent", "done", "refused"}, wrote : SUBSET Models]
ReloadRecords == [id : Nat, bricks : SUBSET Bricks, gens : [Bricks -> Nat],
                  served : BOOLEAN, answer : Versions]

BrickTypeOK ==
    /\ version \in Versions /\ shown \in [Bricks -> Versions]
    /\ gen \in [Bricks -> Nat] /\ loading \in [Bricks -> BOOLEAN]
    /\ actions \subseteq ActionRecords /\ reloads \subseteq ReloadRecords
    /\ sent \in [{"actions", "pages", "reloads", "fails"} -> Nat]
    /\ lost \subseteq Bricks

BrickInit ==
    /\ version = [m \in Models |-> 0] /\ shown = [b \in Bricks |-> version]
    /\ gen = [b \in Bricks |-> 0] /\ loading = [b \in Bricks |-> FALSE]
    /\ actions = {} /\ reloads = {} /\ lost = {}
    /\ sent = [k \in {"actions", "pages", "reloads", "fails"} |-> 0]

Count(k) == sent' = [sent EXCEPT ![k] = @ + 1]

-----------------------------------------------------------------------------
(* The reload of a brick *)

\* Mutant: only the bricks with the same dependencies.
SameDeps(b, c) == Deps[b] = Deps[c]

Intersect(b, c) == b \in Wildcards \/ c \in Wildcards \/ Deps[b] \cap Deps[c] # {}

\* The bricks which are reloaded with b.
Collected(b) ==
    IF b \in ReadOnly \/ Deps[b] = {} THEN {b}
    ELSE {c \in Bricks : c = b \/ Intersect(b, c)}

\* Present elements among the bricks of a query.
Bound(r) == {b \in r.bricks : gen[b] = r.gens[b]}

StartReload(b, k) ==
    /\ reloads' = reloads \cup {[id |-> sent.reloads, bricks |-> Collected(b),
                                 gens |-> gen, served |-> FALSE, answer |-> version]}
    /\ sent' = [sent EXCEPT !.reloads = @ + 1, ![k] = @ + (IF k = "reloads" THEN 0 ELSE 1)]

Loading(bs, on) == loading' = [b \in Bricks |-> IF b \in bs THEN on ELSE loading[b]]

\* A page of a table: the pager does not look at the loading state.
ChangePage(b) ==
    /\ sent.pages < MaxPages
    /\ StartReload(b, "pages")
    /\ Loading(Collected(b), TRUE)
    /\ UNCHANGED <<version, gen, shown, actions, lost>>

\* The server renders the bricks of a query.
ServeReload(r) ==
    /\ ~r.served
    /\ reloads' = (reloads \ {r}) \cup {[r EXCEPT !.served = TRUE, !.answer = version]}
    /\ UNCHANGED <<version, gen, loading, shown, actions, sent, lost>>

Obsolete(b, vs) == \E m \in Deps[b] : vs[m] < shown[b][m]
UpToDate(b, vs) == \A m \in Deps[b] : vs[m] = version[m]

\* The elements are found by their id, so the last answer wins.
ReloadDone(r) ==
    /\ r.served
    /\ reloads' = reloads \ {r}
    /\ gen' = [b \in Bricks |-> IF b \in r.bricks THEN gen[b] + 1 ELSE gen[b]]
    /\ shown' = [b \in Bricks |-> IF b \in r.bricks THEN r.answer ELSE shown[b]]
    /\ Loading(r.bricks, FALSE)
    /\ lost' = (lost \ {b \in r.bricks : UpToDate(b, r.answer)})
               \cup {b \in r.bricks : Obsolete(b, r.answer)}
    /\ UNCHANGED <<version, actions, sent>>

\* Mutant: the loading state is only removed by onDone.
ReloadFailSilent(r) ==
    /\ sent.fails < MaxFails
    /\ reloads' = reloads \ {r}
    /\ lost' = lost \cup r.bricks
    /\ Count("fails")
    /\ UNCHANGED <<version, gen, loading, shown, actions>>

\* Only onComplete: the bricks keep their contents.
ReloadFail(r) ==
    /\ sent.fails < MaxFails
    /\ reloads' = reloads \ {r}
    /\ Loading(Bound(r), FALSE)
    /\ lost' = lost \cup r.bricks
    /\ Count("fails")
    /\ UNCHANGED <<version, gen, shown, actions>>

-----------------------------------------------------------------------------
(* The actions of a brick *)

\* A click on an action button which is not running.
StartAction(b) ==
    /\ ~loading[b]
    /\ sent.actions < MaxActions
    /\ actions' = actions \cup {[id |-> sent.actions, brick |-> b, gen |-> gen[b],
                                 stage |-> "sent", wrote |-> {}]}
    /\ Loading(IF b \in Async THEN {b} ELSE {}, TRUE)
    /\ Count("actions")
    /\ UNCHANGED <<version, gen, shown, reloads, lost>>

\* Brick.read_only: "the brick will never be used to change the instances of its
\* dependencies models".
Changeable(b) == IF b \in ReadOnly THEN {} ELSE Deps[b]

\* The server executes the POST: it changes data of the brick, or refuses.
ServeAction(a) ==
    /\ a.stage = "sent"
    /\ \E ms \in SUBSET Changeable(a.brick) :
        /\ version' = [m \in Models |-> version[m] + (IF m \in ms THEN 1 ELSE 0)]
        /\ \E stage \in {"done", "refused"} :
            /\ stage = "refused" => ms = {}
            /\ actions' = (actions \ {a}) \cup {[a EXCEPT !.stage = stage, !.wrote = ms]}
    /\ UNCHANGED <<gen, loading, shown, reloads, sent, lost>>

IsBound(a) == gen[a.brick] = a.gen

\* onDone: the brick is refreshed, then (is-async-action) its loading state is
\* removed although the reload is in flight. An element which has been replaced
\* meanwhile is not bound any more: refresh() does nothing.
ActionDone(a) ==
    /\ a.stage = "done"
    /\ actions' = actions \ {a}
    /\ IF IsBound(a)
       THEN /\ StartReload(a.brick, "reloads")
            /\ loading' = [b \in Bricks |->
                 IF b = a.brick /\ b \in Async THEN FALSE
                 ELSE IF b \in Collected(a.brick) THEN TRUE ELSE loading[b]]
            /\ lost' = lost
       ELSE /\ lost' = lost \cup Collected(a.brick)
            /\ UNCHANGED <<reloads, loading, sent>>
    /\ UNCHANGED <<version, gen, shown>>

\* onFail: an error dialog. The answer of a POST which was executed may be lost.
ActionFail(a) ==
    /\ a.stage = "refused" \/ sent.fails < MaxFails
    /\ actions' = actions \ {a}
    /\ Loading(IF IsBound(a) /\ a.brick \in Async THEN {a.brick} ELSE {}, FALSE)
    /\ IF a.stage = "refused"
       THEN UNCHANGED <<sent, lost>>
       ELSE Count("fails") /\ lost' = lost \cup Collected(a.brick)
    /\ UNCHANGED <<version, gen, shown, reloads>>

-----------------------------------------------------------------------------
\* The server and the network answer every request.
BrickAnswers ==
    \/ \E r \in reloads : ServeReload(r) \/ ReloadDone(r) \/ ReloadFail(r)
    \/ \E a \in actions : ServeAction(a) \/ ActionDone(a) \/ ActionFail(a)

BrickNext ==
    \/ \E b \in Bricks : ChangePage(b) \/ StartAction(b)
    \/ BrickAnswers

BrickSpec == BrickInit /\ [][BrickNext]_brickVars

BrickFairSpec == BrickSpec /\ WF_brickVars(BrickAnswers)

-----------------------------------------------------------------------------
(* Properties *)

\* A change which a brick must still display: its POST is not answered, or a
\* reload has still to read it, or has read it and is not answered.
Coming(b, m) ==
    \/ \E a \in actions : a.stage = "done" /\ m \in a.wrote /\ b \in Collected(a.brick)
    \/ \E r \in reloads : b \in r.bricks /\ (~r.served \/ r.answer[m] = version[m])

\* A brick which does not display the present data of its models will be
\* reloaded, unless a reload was lost: a request failed, a late answer has
\* replaced a newer one, or the brick had been replaced when its own action
\* was answered. Each change by an action of the page reaches every brick
\* which displays the same models (dependencies of bricks.js).
NoStaleBrick ==
    \A b \in Bricks \ lost : \A m \in Deps[b] : shown[b][m] = version[m] \/ Coming(b, m)

\* A brick in its loading state (its buttons do nothing) is waited for by a
\* query which will end this state: none is left when queries cross, fail, or
\* outlive the element they were started for.
LoadingHasCause ==
    \A b \in Bricks : loading[b] =>
        \/ \E r \in reloads : b \in Bound(r)
        \/ b \in Async /\ \E a \in actions : a.brick = b /\ IsBound(a)

\* Whatever is answered, and in which order, the loading state ends.
LoadingEnds == \A b \in Bricks : loading[b] ~> ~loading[b]
=============================================================================
