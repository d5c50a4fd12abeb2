---------------------------- MODULE NotificationBox ----------------------------
(***************************************************************************)
(* The box of notifications in the header of a page: it displays their     *)
(* number and the last ones, which a timer asks for again while the page   *)
(* is visible. A notification is discarded here or in another tab.         *)
(*                                                                         *)
(* Nothing is numbered nor cancelled: the answers of the timer and of the  *)
(* discards come in any order, each one changes the box as it is then.     *)
(***************************************************************************)
EXTENDS Integers, FiniteSets

CONSTANTS
    MaxNotifs,      \* bound: notifications, numbered in the order of their ids
    Limit,          \* LastWebNotifications.limit
    MaxFlying,      \* bound: fetches which are not answered
    MaxRequests,    \* bound: fetches and POSTs in flight at the same time
    MaxDiscards,    \* bound: POSTs of the box
    MaxBoxFails     \* bound: requests which fail

ASSUME BoxAssumption ==
    /\ {MaxNotifs, Limit, MaxFlying, MaxRequests, MaxDiscards, MaxBoxFails} \subseteq Nat
    /\ MaxNotifs # 0

Notifs == 1..MaxNotifs

VARIABLES
    sentNotifs,     \* server: number of notifications sent to the user
    undiscarded,    \* server: those which are not discarded
    visible,        \* the page is visible (document.hidden)
    fetches,        \* answers to come: the box they give, or Unserved
    discards,       \* POSTs in flight
    box,            \* what is displayed: counter, items, and the last answer
    boxDone         \* number of POSTs and of failures

boxVars == <<sentNotifs, undiscarded, visible, fetches, discards, box, boxDone>>

\* Answer of LastWebNotifications.
View(open) ==
    [count |-> Cardinality(open),
     items |-> {n \in open : Cardinality({k \in open : k > n}) < Limit}]

Unserved == [count |-> -1, items |-> {}]
Views    == [count : Int, items : SUBSET Notifs]
DiscardRecords == [id : Nat, notif : Notifs, bound : BOOLEAN,
                   stage : {"sent", "found", "done", "refused"}]

BoxTypeOK ==
    /\ sentNotifs \in 0..MaxNotifs /\ undiscarded \subseteq Notifs
    /\ visible \in BOOLEAN
    /\ fetches \in [1..MaxFlying -> [on : BOOLEAN, view : Views]]
    /\ discards \subseteq DiscardRecords
    /\ box \in [count : Int, items : SUBSET Notifs, last : SUBSET Notifs]
    /\ boxDone \in [posts : Nat, fails : Nat]

NoFetch == [on |-> FALSE, view |-> Unserved]

CanSend == Cardinality({f \in 1..MaxFlying : fetches[f].on}) + Cardinality(discards) < MaxRequests

BoxInit ==
    /\ sentNotifs = 1 /\ undiscarded = {1} /\ visible = TRUE
    /\ fetches = [f \in 1..MaxFlying |-> NoFetch] /\ discards = {}
    /\ box = [count |-> 1, items |-> {1}, last |-> {1}]
    /\ boxDone = [posts |-> 0, fails |-> 0]

-----------------------------------------------------------------------------
(* The server *)

SendNotif ==
    /\ sentNotifs < MaxNotifs
    /\ sentNotifs' = sentNotifs + 1
    /\ undiscarded' = undiscarded \cup {sentNotifs + 1}
    /\ UNCHANGED <<visible, fetches, discards, box, boxDone>>

\* Another tab, or the page of the notifications.
DiscardElsewhere(n) ==
    /\ n \in undiscarded
    /\ undiscarded' = undiscarded \ {n}
    /\ UNCHANGED <<sentNotifs, visible, fetches, discards, box, boxDone>>

ServeFetch(f) ==
    /\ fetches[f].on /\ fetches[f].view = Unserved
    /\ fetches' = [fetches EXCEPT ![f].view = View(undiscarded)]
    /\ UNCHANGED <<sentNotifs, undiscarded, visible, discards, box, boxDone>>

Move(d, stage) == discards' = (discards \ {d}) \cup {[d EXCEPT !.stage = stage]}

\* NotificationDiscarding reads the notification, without lock ...
FindNotif(d) ==
    /\ d.stage = "sent"
    /\ Move(d, IF d.notif \in undiscarded THEN "found" ELSE "refused")
    /\ UNCHANGED <<sentNotifs, undiscarded, visible, fetches, box, boxDone>>

\* ... then saves it.
SaveNotif(d) ==
    /\ d.stage = "found"
    /\ undiscarded' = undiscarded \ {d.notif}
    /\ Move(d, "done")
    /\ UNCHANGED <<sentNotifs, visible, fetches, box, boxDone>>

-----------------------------------------------------------------------------
(* The box *)

Toggle ==
    /\ visible' = ~visible
    /\ UNCHANGED <<sentNotifs, undiscarded, fetches, discards, box, boxDone>>

\* The timer of startFetch; nothing is sent while the page is hidden.
FetchItems(f) ==
    /\ visible /\ ~fetches[f].on /\ CanSend
    /\ fetches' = [fetches EXCEPT ![f].on = TRUE]
    /\ UNCHANGED <<sentNotifs, undiscarded, visible, discards, box, boxDone>>

\* The items are rendered again: the elements of the former clicks are gone.
RenderItems == discards' = {[d EXCEPT !.bound = FALSE] : d \in discards}

\* Mutant: only the items are updated.
UpdateItems(view) ==
    /\ box' = [count |-> box.count, items |-> view.items, last |-> view.items]
    /\ RenderItems

UpdateBox(view) ==
    /\ box' = [count |-> view.count, items |-> view.items, last |-> view.items]
    /\ RenderItems

FetchItemsDone(f) ==
    /\ fetches[f].view # Unserved
    /\ fetches' = [fetches EXCEPT ![f] = NoFetch]
    /\ UpdateBox(fetches[f].view)
    /\ UNCHANGED <<sentNotifs, undiscarded, visible, boxDone>>

\* A message is displayed, the items are kept.
FetchItemsFail(f) ==
    /\ fetches[f].on /\ boxDone.fails < MaxBoxFails
    /\ fetches' = [fetches EXCEPT ![f] = NoFetch]
    /\ boxDone' = [boxDone EXCEPT !.fails = @ + 1]
    /\ UNCHANGED <<sentNotifs, undiscarded, visible, discards, box>>

\* A click on the button of an item, as many times as the user likes.
DiscardItem(n) ==
    /\ n \in box.items /\ boxDone.posts < MaxDiscards /\ CanSend
    /\ discards' = discards \cup {[id |-> boxDone.posts, notif |-> n,
                                   bound |-> TRUE, stage |-> "sent"]}
    /\ boxDone' = [boxDone EXCEPT !.posts = @ + 1]
    /\ UNCHANGED <<sentNotifs, undiscarded, visible, fetches, box>>

\* The element of the click is removed; it may have been rendered again since.
Removed(d) ==
    [box EXCEPT !.items = IF d.bound THEN @ \ {d.notif} ELSE @,
                !.count = @ - 1]

DiscardDone(d) ==
    /\ d.stage = "done"
    /\ discards' = discards \ {d}
    /\ box' = Removed(d)
    /\ UNCHANGED <<sentNotifs, undiscarded, visible, fetches, boxDone>>

\* Mutant: the element is removed whatever is answered.
DiscardFailRemoves(d) ==
    /\ d.stage = "refused" \/ boxDone.fails < MaxBoxFails
    /\ discards' = discards \ {d}
    /\ box' = Removed(d)
    /\ boxDone' = [boxDone EXCEPT !.fails = @ + (IF d.stage = "refused" THEN 0 ELSE 1)]
    /\ UNCHANGED <<sentNotifs, undiscarded, visible, fetches>>

\* A dialog displays the error. The POST may have been executed or not.
DiscardFail(d) ==
    /\ d.stage = "refused" \/ boxDone.fails < MaxBoxFails
    /\ discards' = discards \ {d}
    /\ boxDone' = [boxDone EXCEPT !.fails = @ + (IF d.stage = "refused" THEN 0 ELSE 1)]
    /\ UNCHANGED <<sentNotifs, undiscarded, visible, fetches, box>>

-----------------------------------------------------------------------------
BoxNext ==
    \/ SendNotif \/ Toggle
    \/ \E n \in Notifs : DiscardElsewhere(n) \/ DiscardItem(n)
    \/ \E f \in 1..MaxFlying :
        FetchItems(f) \/ ServeFetch(f) \/ FetchItemsDone(f) \/ FetchItemsFail(f)
    \/ \E d \in discards :
        FindNotif(d) \/ SaveNotif(d) \/ DiscardDone(d) \/ DiscardFail(d)

BoxSpec == BoxInit /\ [][BoxNext]_boxVars

\* Fetches are served and answered, and the timer fires again and again; nothing
\* is asked of the POSTs.
BoxPolls == \E f \in 1..MaxFlying : FetchItems(f) \/ ServeFetch(f) \/ FetchItemsDone(f)

BoxFairSpec == BoxSpec /\ WF_boxVars(BoxPolls)

-----------------------------------------------------------------------------
(* Properties *)

\* An item of the last answer only disappears when the server has discarded it:
\* never because of a POST which was refused or lost, or of a click whose
\* element was rendered again.
RemovedIsDiscarded == box.last \ box.items \subseteq Notifs \ undiscarded

\* Whatever the order of the answers, double clicks which decrement the counter
\* twice, and failures, the box ends up displaying the notifications of the
\* server when the page stays visible.
BoxCatchesUp ==
    (<>[]visible) =>
        <>[]([count |-> box.count, items |-> box.items] = View(undiscarded))
=============================================================================
