----------------------------- MODULE Page_proofs -----------------------------
(***************************************************************************)
(* Proofs about what lives in a page: SearchBox, NotificationBox,          *)
(* JobsMonitor, BrickPage and FormDialog (which implements FormOutcome),   *)
(* for any bricks, models, jobs, notifications, and any number of requests *)
(* whose answers come in any order.                                        *)
(***************************************************************************)
EXTENDS BrickPage, FormDialog, SearchBox, NotificationBox, JobsMonitor, FiniteSetTheorems, TLAPS

(***************************************************************************)
(* SearchBox                                                               *)
(***************************************************************************)

\* The query which is waited for is the last one, and so is the one whose
\* results are announced.
SearchInv == SearchTypeOK /\ stamp \in {0, Last} /\ ResultsOfLastQuery

LEMMA SearchInvInit == ASSUME SearchInit PROVE SearchInv
<1>1. debounce \in BOOLEAN /\ panel \in BOOLEAN /\ gaveUp \in BOOLEAN
  BY Zenon DEF SearchInit
<1>2. Last = 0 /\ queries \in Seq(Nat)
  BY DEF SearchInit, Last
<1>3. text \in [n : Nat, long : BOOLEAN] /\ tries \in [{"fails", "hides"} -> Nat]
  BY DEF SearchInit
<1>4. SearchTypeOK
  BY <1>1, <1>2, <1>3 DEF SearchInit, SearchTypeOK
<1> QED  BY <1>2, <1>4 DEF SearchInit, SearchInv, ResultsOfLastQuery

LEMMA LastNat == ASSUME SearchTypeOK PROVE Last \in Nat
BY DEF SearchTypeOK, Last

LEMMA TypeStep == ASSUME SearchInv, Type PROVE SearchInv'
<1>1. text' \in [n : Nat, long : BOOLEAN]
  <2>1. PICK long \in BOOLEAN : text' = [n |-> text.n + 1, long |-> long]
    BY DEF Type
  <2> QED  BY <2>1 DEF SearchInv, SearchTypeOK
<1>2. UNCHANGED Last
  BY DEF Type, Last
<1> QED
  BY <1>1, <1>2 DEF SearchInv, SearchTypeOK, ResultsOfLastQuery, Type

LEMMA HideStep == ASSUME SearchInv, Hide PROVE SearchInv'
<1>1. UNCHANGED Last /\ Last \in Nat
  BY LastNat DEF Hide, Last, SearchInv
<1>2. tries' \in [{"fails", "hides"} -> Nat]
  BY DEF SearchInv, SearchTypeOK, Hide
<1>3. panel' \in BOOLEAN /\ gaveUp' \in BOOLEAN
  BY Zenon DEF Hide, CancelSearch
<1>4. SearchTypeOK'
  BY <1>1, <1>2, <1>3 DEF SearchInv, SearchTypeOK, Hide, CancelSearch
<1> QED
  BY <1>1, <1>4 DEF SearchInv, ResultsOfLastQuery, Hide, CancelSearch

LEMMA FireInputStep == ASSUME SearchInv, FireInput PROVE SearchInv'
<1>0. Last \in Nat
  BY LastNat DEF SearchInv
<1>1. CASE text.long
  <2>1. StartSearch
    BY <1>1 DEF FireInput
  <2>2. queries' \in Seq(Nat) /\ Last' = Last + 1
    BY <2>1 DEF StartSearch, Last, SearchInv, SearchTypeOK
  <2>3. /\ flying' \subseteq 1..(Last + 1) /\ stamp' = Last + 1 /\ items' \in 0..(Last + 1)
        /\ label' = "loading"
    BY <2>1, <1>0 DEF StartSearch, FireInput, SearchInv, SearchTypeOK
  <2>4. debounce' \in BOOLEAN /\ gaveUp' \in BOOLEAN
    BY <2>1, Zenon DEF FireInput, StartSearch
  <2>5. SearchTypeOK'
    BY <2>2, <2>3, <2>4, <1>0 DEF SearchInv, SearchTypeOK, FireInput
  <2> QED
    BY <2>2, <2>3, <2>5 DEF SearchInv, ResultsOfLastQuery
<1>2. CASE ~text.long
  <2>1. CancelSearch /\ UNCHANGED <<queries, flying>>
    BY <1>2 DEF FireInput
  <2>2. UNCHANGED Last
    BY <2>1 DEF Last
  <2>3. debounce' \in BOOLEAN /\ gaveUp' \in BOOLEAN
    BY <2>1, Zenon DEF FireInput, CancelSearch
  <2>4. SearchTypeOK'
    BY <2>1, <2>2, <2>3, <1>0 DEF SearchInv, SearchTypeOK, FireInput, CancelSearch
  <2> QED
    BY <2>1, <2>4 DEF SearchInv, ResultsOfLastQuery, CancelSearch
<1> QED  BY <1>1, <1>2

LEMMA SearchDoneStep ==
    ASSUME SearchInv, NEW q \in flying, SearchDone(q) PROVE SearchInv'
<1>0. Last \in Nat /\ UNCHANGED Last /\ q \in 1..Last /\ UNCHANGED stamp
  BY LastNat DEF SearchInv, SearchTypeOK, SearchDone, Last
<1>1. CASE Accepted(q)
  <2>1. stamp = Last /\ q = Last
    BY <1>0, <1>1 DEF SearchInv, Accepted
  <2>2. label' = "results" /\ items' \in {0, Last}
    BY <2>1, <1>1 DEF SearchDone
  <2> QED
    BY <2>1, <2>2, <1>0 DEF SearchInv, SearchTypeOK, ResultsOfLastQuery, SearchDone
<1>2. CASE ~Accepted(q)
  BY <1>0, <1>2 DEF SearchInv, SearchTypeOK, ResultsOfLastQuery, SearchDone
<1> QED  BY <1>1, <1>2

LEMMA SearchFailStep ==
    ASSUME SearchInv, NEW q \in flying, SearchFail(q) PROVE SearchInv'
<1>1. UNCHANGED Last /\ tries' \in [{"fails", "hides"} -> Nat]
  BY DEF SearchInv, SearchTypeOK, SearchFail, Last
<1> QED
  BY <1>1 DEF SearchInv, SearchTypeOK, ResultsOfLastQuery, SearchFail

LEMMA SearchInvStep == ASSUME SearchInv, [SearchNext]_searchVars PROVE SearchInv'
<1>1. CASE Type \/ Hide \/ FireInput
  BY <1>1, TypeStep, HideStep, FireInputStep
<1>2. ASSUME NEW q \in flying, SearchDone(q) \/ SearchFail(q) PROVE SearchInv'
  BY <1>2, SearchDoneStep, SearchFailStep
<1>3. CASE UNCHANGED searchVars
  BY <1>3 DEF searchVars, SearchInv, SearchTypeOK, ResultsOfLastQuery, Last
<1> QED  BY <1>1, <1>2, <1>3 DEF SearchNext, SearchProgress

\* Results are only announced for the last query, whatever the number of queries
\* in flight, of failures and the order of the answers (_startSearch).
THEOREM LastQueryWins == SearchSpec => []ResultsOfLastQuery
<1>1. SearchInit => SearchInv
  BY SearchInvInit
<1>2. SearchInv /\ [SearchNext]_searchVars => SearchInv'
  BY SearchInvStep
<1>3. SearchInv => ResultsOfLastQuery
  BY DEF SearchInv
<1> QED  BY <1>1, <1>2, <1>3, PTL DEF SearchSpec

(***************************************************************************)
(* NotificationBox                                                         *)
(***************************************************************************)

\* Whatever the box, a POST or an answer speaks of was sent to the user, and what
\* a POST has done is true: so the items which have disappeared were discarded.
BoxTypes ==
    /\ MaxNotifs \in Nat /\ sentNotifs \in 0..MaxNotifs
    /\ fetches \in [1..MaxFlying -> [on : BOOLEAN, view : Views]]
    /\ box \in [count : Int, items : SUBSET Notifs, last : SUBSET Notifs]
    /\ undiscarded \subseteq 1..sentNotifs
    /\ discards \subseteq DiscardRecords /\ boxDone \in [posts : Nat, fails : Nat]

PostsTrue == \A d \in discards :
    /\ d.notif \in 1..sentNotifs
    /\ d.stage = "done" => d.notif \notin undiscarded

AnswersSent == \A f \in 1..MaxFlying : fetches[f].view.items \subseteq 1..sentNotifs

BoxItems ==
    /\ box.items \subseteq 1..sentNotifs /\ box.last \subseteq 1..sentNotifs
    /\ box.last \cap undiscarded \subseteq box.items

BoxInv == BoxTypes /\ PostsTrue /\ AnswersSent /\ BoxItems

LEMMA BoxInvInit == ASSUME BoxInit PROVE BoxInv
<1>1. BoxTypes
  <2>1. NoFetch \in [on : BOOLEAN, view : Views]
    BY DEF NoFetch, Unserved, Views
  <2> QED  BY <2>1, BoxAssumption DEF BoxInit, BoxTypes, Notifs
<1>2. PostsTrue /\ BoxItems
  BY DEF BoxInit, PostsTrue, BoxItems
<1>3. AnswersSent
  BY DEF BoxInit, AnswersSent, NoFetch, Unserved
<1> QED  BY <1>1, <1>2, <1>3 DEF BoxInv

LEMMA SendNotifStep == ASSUME BoxInv, SendNotif PROVE BoxInv'
<1>1. sentNotifs \in Nat /\ sentNotifs' \in 0..MaxNotifs /\ 1..sentNotifs \subseteq 1..sentNotifs'
  BY DEF BoxInv, BoxTypes, SendNotif
<1>2. BoxTypes'
  BY <1>1 DEF BoxInv, BoxTypes, SendNotif
<1>3. PostsTrue' /\ AnswersSent' /\ BoxItems'
  <2>1. PostsTrue'
    BY <1>1 DEF BoxInv, PostsTrue, SendNotif
  <2>2. AnswersSent'
    BY <1>1 DEF BoxInv, AnswersSent, SendNotif
  <2>3. sentNotifs + 1 \notin 1..sentNotifs
    BY <1>1
  <2>4. BoxItems'
    BY <1>1, <2>3 DEF BoxInv, BoxItems, SendNotif
  <2> QED  BY <2>1, <2>2, <2>4
<1> QED  BY <1>2, <1>3 DEF BoxInv

LEMMA DiscardElsewhereStep ==
    ASSUME BoxInv, NEW n \in Notifs, DiscardElsewhere(n) PROVE BoxInv'
<1>1. BoxTypes'
  BY DEF BoxInv, BoxTypes, DiscardElsewhere
<1>2. PostsTrue'
  BY DEF BoxInv, PostsTrue, DiscardElsewhere
<1>3. AnswersSent' /\ BoxItems'
  BY DEF BoxInv, AnswersSent, BoxItems, DiscardElsewhere
<1> QED  BY <1>1, <1>2, <1>3 DEF BoxInv

LEMMA ToggleStep == ASSUME BoxInv, Toggle PROVE BoxInv'
BY DEF BoxInv, BoxTypes, PostsTrue, AnswersSent, BoxItems, Toggle

\* What a step of a fetch keeps when the box and the POSTs are not changed.
LEMMA FetchesOnly ==
    ASSUME BoxInv, UNCHANGED <<sentNotifs, undiscarded, discards, box>>,
           boxDone' \in [posts : Nat, fails : Nat],
           NEW f \in 1..MaxFlying, NEW record \in [on : BOOLEAN, view : Views],
           fetches' = [fetches EXCEPT ![f] = record],
           record.view.items \subseteq 1..sentNotifs
    PROVE  BoxInv'
<1>1. BoxTypes'
  BY DEF BoxInv, BoxTypes
<1>2. AnswersSent'
  BY DEF BoxInv, BoxTypes, AnswersSent
<1>3. PostsTrue' /\ BoxItems'
  BY DEF BoxInv, PostsTrue, BoxItems
<1> QED  BY <1>1, <1>2, <1>3 DEF BoxInv

LEMMA NoFetchRecord ==
    NoFetch \in [on : BOOLEAN, view : Views] /\ NoFetch.view.items = {}
BY DEF NoFetch, Unserved, Views

\* Updates of records, field by field.
LEMMA FetchUpdates ==
    ASSUME NEW V, NEW r \in [on : BOOLEAN, view : V], NEW x, NEW v
    PROVE  /\ [r EXCEPT !.on = x] = [on |-> x, view |-> r.view]
           /\ [r EXCEPT !.view = v] = [on |-> r.on, view |-> v]
OBVIOUS

LEMMA BoxUpdate ==
    ASSUME NEW S, NEW r \in [count : Int, items : S, last : S], NEW kept \in S
    PROVE  [r EXCEPT !.items = kept, !.count = @ - 1]
               = [count |-> r.count - 1, items |-> kept, last |-> r.last]
<1> DEFINE s == [r EXCEPT !.items = kept]
<1>1. s = [count |-> r.count, items |-> kept, last |-> r.last]
  OBVIOUS
<1>2. s.count = r.count
  BY <1>1
<1>3. [r EXCEPT !.items = kept, !.count = @ - 1] = [s EXCEPT !.count = r.count - 1]
  BY <1>2
<1> HIDE DEF s
<1>4. s = [count |-> r.count, items |-> kept, last |-> r.last]
  BY <1>1
<1>5. [s EXCEPT !.count = r.count - 1]
          = [count |-> r.count - 1, items |-> kept, last |-> r.last]
  BY <1>4
<1> QED  BY <1>3, <1>5

LEMMA FetchItemsStep ==
    ASSUME BoxInv, NEW f \in 1..MaxFlying, FetchItems(f) PROVE BoxInv'
<1> DEFINE record == [on |-> TRUE, view |-> fetches[f].view]
<1>1. fetches' = [fetches EXCEPT ![f] = record]
  <2>1. fetches[f] \in [on : BOOLEAN, view : Views]
    BY DEF BoxInv, BoxTypes
  <2>2. fetches' = [fetches EXCEPT ![f] = [fetches[f] EXCEPT !.on = TRUE]]
    BY DEF FetchItems
  <2>3. [fetches[f] EXCEPT !.on = TRUE] = record
    BY <2>1, FetchUpdates
  <2> QED  BY <2>2, <2>3
<1>2. record \in [on : BOOLEAN, view : Views] /\ record.view.items \subseteq 1..sentNotifs
  BY DEF BoxInv, BoxTypes, AnswersSent
<1> HIDE DEF record
<1>3. boxDone' \in [posts : Nat, fails : Nat]
  BY DEF BoxInv, BoxTypes, FetchItems
<1> QED  BY <1>1, <1>2, <1>3, FetchesOnly DEF FetchItems

LEMMA ServeFetchStep ==
    ASSUME BoxInv, NEW f \in 1..MaxFlying, ServeFetch(f) PROVE BoxInv'
<1> DEFINE record == [on |-> TRUE, view |-> View(undiscarded)]
<1>1. fetches' = [fetches EXCEPT ![f] = record]
  <2>1. fetches[f] \in [on : BOOLEAN, view : Views]
    BY DEF BoxInv, BoxTypes
  <2>2. fetches' = [fetches EXCEPT ![f] = [fetches[f] EXCEPT !.view = View(undiscarded)]]
    BY DEF ServeFetch
  <2>3. fetches[f].on = TRUE
    BY <2>1 DEF ServeFetch
  <2>4. [fetches[f] EXCEPT !.view = View(undiscarded)] = record
    BY <2>1, <2>3, FetchUpdates
  <2> QED  BY <2>2, <2>4
<1>2. undiscarded \subseteq Notifs /\ undiscarded \subseteq 1..sentNotifs
  BY DEF BoxInv, BoxTypes, Notifs
<1>3. Cardinality(undiscarded) \in Int
  <2>1. IsFiniteSet(1..sentNotifs)
    BY FS_Interval DEF BoxInv, BoxTypes
  <2>2. undiscarded \in SUBSET (1..sentNotifs)
    BY <1>2
  <2>3. IsFiniteSet(undiscarded)
    BY <2>1, <2>2, FS_Subset
  <2> QED  BY <2>3, FS_CardinalityType
<1>4. View(undiscarded).items \subseteq undiscarded
  BY DEF View
<1>5. View(undiscarded) \in Views
  BY <1>2, <1>3, <1>4 DEF View, Views
<1>6. record \in [on : BOOLEAN, view : Views] /\ record.view.items \subseteq 1..sentNotifs
  BY <1>2, <1>4, <1>5
<1> HIDE DEF record
<1>7. boxDone' \in [posts : Nat, fails : Nat]
  BY DEF BoxInv, BoxTypes, ServeFetch
<1> QED  BY <1>1, <1>6, <1>7, FetchesOnly DEF ServeFetch

LEMMA FetchItemsFailStep ==
    ASSUME BoxInv, NEW f \in 1..MaxFlying, FetchItemsFail(f) PROVE BoxInv'
<1>1. boxDone' \in [posts : Nat, fails : Nat]
  BY DEF BoxInv, BoxTypes, FetchItemsFail
<1> QED  BY <1>1, FetchesOnly, NoFetchRecord DEF FetchItemsFail

LEMMA FetchItemsDoneStep ==
    ASSUME BoxInv, NEW f \in 1..MaxFlying, FetchItemsDone(f) PROVE BoxInv'
<1> DEFINE view == fetches[f].view
<1>1. view \in Views /\ view.items \subseteq 1..sentNotifs
  BY DEF BoxInv, BoxTypes, AnswersSent
<1>2. box' = [count |-> view.count, items |-> view.items, last |-> view.items]
  BY DEF FetchItemsDone, UpdateBox
<1>20. \A e \in discards' : \E d \in discards :
         e \in DiscardRecords /\ e.notif = d.notif /\ e.stage = d.stage
  <2>1. ASSUME NEW d \in discards
        PROVE  [d EXCEPT !.bound = FALSE] \in DiscardRecords
               /\ [d EXCEPT !.bound = FALSE].notif = d.notif
               /\ [d EXCEPT !.bound = FALSE].stage = d.stage
    <3>1. d \in DiscardRecords
      BY DEF BoxInv, BoxTypes
    <3> QED  BY <3>1 DEF DiscardRecords
  <2>2. discards' = {[d EXCEPT !.bound = FALSE] : d \in discards}
    BY DEF FetchItemsDone, UpdateBox, RenderItems
  <2> QED  BY <2>1, <2>2
<1>3. BoxTypes'
  <2>1. discards' \subseteq DiscardRecords
    BY <1>20 DEF BoxInv, BoxTypes
  <2> QED  BY <2>1, <1>1, <1>2, NoFetchRecord DEF BoxInv, BoxTypes, FetchItemsDone, Views
<1>4. PostsTrue'
  BY <1>20 DEF BoxInv, PostsTrue, FetchItemsDone
<1>5. AnswersSent'
  BY NoFetchRecord DEF BoxInv, BoxTypes, AnswersSent, FetchItemsDone
<1>6. BoxItems'
  BY <1>1, <1>2 DEF FetchItemsDone, BoxItems
<1> QED  BY <1>3, <1>4, <1>5, <1>6 DEF BoxInv

LEMMA DiscardItemStep == ASSUME BoxInv, NEW n \in Notifs, DiscardItem(n) PROVE BoxInv'
<1>1. n \in 1..sentNotifs
  BY DEF BoxInv, BoxItems, DiscardItem
<1>2. BoxTypes'
  <2>1. [id |-> boxDone.posts, notif |-> n, bound |-> TRUE, stage |-> "sent"] \in DiscardRecords
    BY DEF BoxInv, BoxTypes, DiscardRecords
  <2>2. boxDone' \in [posts : Nat, fails : Nat]
    BY DEF BoxInv, BoxTypes, DiscardItem
  <2> QED  BY <2>1, <2>2 DEF BoxInv, BoxTypes, DiscardItem
<1>4. AnswersSent' /\ BoxItems'
  BY DEF BoxInv, AnswersSent, BoxItems, DiscardItem
<1>3. PostsTrue'
  BY <1>1 DEF BoxInv, PostsTrue, DiscardItem
<1> QED  BY <1>2, <1>3, <1>4 DEF BoxInv

LEMMA FindNotifStep == ASSUME BoxInv, NEW d \in discards, FindNotif(d) PROVE BoxInv'
<1> DEFINE stage == IF d.notif \in undiscarded THEN "found" ELSE "refused"
           moved == [d EXCEPT !.stage = stage]
<1>1. \A e \in discards' : e \in discards \/ e = moved
  BY DEF FindNotif, Move
<1>2. moved \in DiscardRecords /\ moved.notif = d.notif /\ moved.stage = stage
  BY DEF BoxInv, BoxTypes, DiscardRecords
<1>3. stage # "done" /\ UNCHANGED <<undiscarded, sentNotifs>>
  BY DEF FindNotif
<1> HIDE DEF moved, stage
<1>4. BoxTypes'
  BY <1>1, <1>2 DEF BoxInv, BoxTypes, FindNotif
<1>5. AnswersSent' /\ BoxItems'
  BY DEF BoxInv, AnswersSent, BoxItems, FindNotif
<1>6. PostsTrue'
  BY <1>1, <1>2, <1>3 DEF BoxInv, PostsTrue
<1> QED  BY <1>4, <1>5, <1>6 DEF BoxInv

LEMMA SaveNotifStep == ASSUME BoxInv, NEW d \in discards, SaveNotif(d) PROVE BoxInv'
<1> DEFINE moved == [d EXCEPT !.stage = "done"]
<1>1. \A e \in discards' : e \in discards \/ e = moved
  BY DEF SaveNotif, Move
<1>2. moved \in DiscardRecords /\ moved.notif = d.notif
  BY DEF BoxInv, BoxTypes, DiscardRecords
<1>3. undiscarded' = undiscarded \ {d.notif} /\ UNCHANGED sentNotifs
  BY DEF SaveNotif
<1> HIDE DEF moved
<1>4. BoxTypes'
  BY <1>1, <1>2, <1>3 DEF BoxInv, BoxTypes, SaveNotif
<1>5. AnswersSent' /\ BoxItems'
  BY <1>3 DEF BoxInv, AnswersSent, BoxItems, SaveNotif
<1>6. PostsTrue'
  BY <1>1, <1>2, <1>3 DEF BoxInv, PostsTrue
<1> QED  BY <1>4, <1>5, <1>6 DEF BoxInv

\* The item which is removed was discarded by the server.
LEMMA DiscardDoneStep == ASSUME BoxInv, NEW d \in discards, DiscardDone(d) PROVE BoxInv'
<1>1. UNCHANGED <<sentNotifs, undiscarded, fetches>> /\ discards' \subseteq discards
  BY DEF DiscardDone
<1>2. d.notif \notin undiscarded
  BY DEF BoxInv, PostsTrue, DiscardDone
<1>3. /\ box' \in [count : Int, items : SUBSET Notifs, last : SUBSET Notifs]
      /\ box'.last = box.last /\ box'.items \subseteq box.items
      /\ box.items \subseteq box'.items \cup {d.notif}
  <2>1. box \in [count : Int, items : SUBSET Notifs, last : SUBSET Notifs]
    BY DEF BoxInv, BoxTypes
  <2>2. /\ box' = Removed(d)
        /\ Removed(d) = [box EXCEPT !.items = IF d.bound THEN @ \ {d.notif} ELSE @,
                                     !.count = @ - 1]
    BY DEF DiscardDone, Removed
  <2>3. /\ box' \in [count : Int, items : SUBSET Notifs, last : SUBSET Notifs]
        /\ box'.last = box.last
        /\ box'.items = IF d.bound THEN box.items \ {d.notif} ELSE box.items
    <3> DEFINE kept == IF d.bound THEN box.items \ {d.notif} ELSE box.items
    <3>1. kept \in SUBSET Notifs /\ box' = [box EXCEPT !.items = kept, !.count = @ - 1]
      BY <2>1, <2>2
    <3> HIDE DEF kept
    <3>2. box' = [count |-> box.count - 1, items |-> kept, last |-> box.last]
      BY <2>1, <3>1, BoxUpdate
    <3>3. box.count - 1 \in Int /\ box.last \in SUBSET Notifs
      BY <2>1
    <3> QED  BY <3>1, <3>2, <3>3 DEF kept
  <2> QED  BY <2>3
<1>4. BoxTypes'
  BY <1>1, <1>3 DEF BoxInv, BoxTypes, DiscardDone
<1>5. PostsTrue' /\ AnswersSent'
  BY <1>1 DEF BoxInv, PostsTrue, AnswersSent
<1>6. BoxItems'
  BY <1>1, <1>2, <1>3 DEF BoxInv, BoxItems
<1> QED  BY <1>4, <1>5, <1>6 DEF BoxInv

LEMMA DiscardFailStep == ASSUME BoxInv, NEW d \in discards, DiscardFail(d) PROVE BoxInv'
<1>1. boxDone' \in [posts : Nat, fails : Nat] /\ discards' \subseteq discards
  BY DEF DiscardFail, BoxInv, BoxTypes
<1>2. BoxTypes'
  BY <1>1 DEF BoxInv, BoxTypes, DiscardFail
<1>3. PostsTrue' /\ AnswersSent' /\ BoxItems'
  BY <1>1 DEF BoxInv, PostsTrue, AnswersSent, BoxItems, DiscardFail
<1> QED  BY <1>2, <1>3 DEF BoxInv

LEMMA BoxInvStep == ASSUME BoxInv, [BoxNext]_boxVars PROVE BoxInv'
<1>1. CASE SendNotif \/ Toggle
  BY <1>1, SendNotifStep, ToggleStep
<1>2. ASSUME NEW n \in Notifs, DiscardElsewhere(n) \/ DiscardItem(n) PROVE BoxInv'
  BY <1>2, DiscardElsewhereStep, DiscardItemStep
<1>3. ASSUME NEW f \in 1..MaxFlying,
             FetchItems(f) \/ ServeFetch(f) \/ FetchItemsDone(f) \/ FetchItemsFail(f)
      PROVE  BoxInv'
  BY <1>3, FetchItemsStep, ServeFetchStep, FetchItemsDoneStep, FetchItemsFailStep
<1>4. ASSUME NEW d \in discards,
             FindNotif(d) \/ SaveNotif(d) \/ DiscardDone(d) \/ DiscardFail(d)
      PROVE  BoxInv'
  BY <1>4, FindNotifStep, SaveNotifStep, DiscardDoneStep, DiscardFailStep
<1>5. CASE UNCHANGED boxVars
  BY <1>5 DEF boxVars, BoxInv, BoxTypes, PostsTrue, AnswersSent, BoxItems
<1> QED  BY <1>1, <1>2, <1>3, <1>4, <1>5 DEF BoxNext

\* An item of the last answer only disappears once the server has discarded it,
\* whatever the number of clicks, of failures and the order of the answers
\* (NotificationBox of notification.js, NotificationDiscarding).
THEOREM RemovedWereDiscarded == BoxSpec => []RemovedIsDiscarded
<1>1. BoxInit => BoxInv
  BY BoxInvInit
<1>2. BoxInv /\ [BoxNext]_boxVars => BoxInv'
  BY BoxInvStep
<1>3. BoxInv => RemovedIsDiscarded
  BY DEF BoxInv, BoxTypes, BoxItems, RemovedIsDiscarded, Notifs
<1> QED  BY <1>1, <1>2, <1>3, PTL DEF BoxSpec

\* BoxInv says the types of all the variables but one.
LEMMA BoxTypesStep ==
    ASSUME BoxInv, BoxTypeOK, [BoxNext]_boxVars PROVE BoxTypeOK'
<1>1. BoxInv'
  BY BoxInvStep
<1>2. visible' \in BOOLEAN
  <2>1. UNCHANGED visible \/ Toggle
    BY DEF BoxNext, SendNotif, DiscardElsewhere, DiscardItem, FetchItems, ServeFetch,
           FetchItemsDone, FetchItemsFail, FindNotif, SaveNotif, DiscardDone, DiscardFail, boxVars
  <2> QED  BY <2>1 DEF Toggle, BoxTypeOK
<1>3. 1..sentNotifs' \subseteq Notifs
  BY <1>1 DEF BoxInv, BoxTypes, Notifs
<1> QED  BY <1>1, <1>2, <1>3 DEF BoxInv, BoxTypes, BoxTypeOK

\* The variables of the box keep their types, even when its counter gets wrong.
THEOREM BoxTypeCorrect == BoxSpec => []BoxTypeOK
<1>1. BoxInit => BoxInv
  BY BoxInvInit
<1>2. BoxInit => BoxTypeOK
  <2> SUFFICES ASSUME BoxInit PROVE BoxTypeOK
    OBVIOUS
  <2>1. BoxTypes
    BY BoxInvInit DEF BoxInv
  <2>2. undiscarded \subseteq Notifs
    BY <2>1 DEF BoxTypes, Notifs
  <2> QED  BY <2>1, <2>2 DEF BoxTypes, BoxTypeOK, BoxInit
<1>3. BoxInv /\ [BoxNext]_boxVars => BoxInv'
  BY BoxInvStep
<1>4. BoxInv /\ BoxTypeOK /\ [BoxNext]_boxVars => BoxTypeOK'
  BY BoxTypesStep
<1> QED  BY <1>1, <1>2, <1>3, <1>4, PTL DEF BoxSpec

(***************************************************************************)
(* JobsMonitor                                                             *)
(***************************************************************************)

Statuses == {"wait", "ok", "error", "gone"}

\* A status which is not "wait" stays so, and whatever the page or an answer says
\* of the end of a job, or of its START, is true.
RowsTrue ==
    /\ status \in [Jobs -> Statuses] /\ displayed \in [Jobs -> {"wait", "ok", "error"}]
    /\ \A j \in Jobs :
        /\ displayed[j] # "wait" => status[j] # "wait"
        /\ status[j] # "wait" => j \in started
        /\ j \notin ackErrors => j \in started

InfoTrue ==
    /\ asked \subseteq Jobs
    /\ \A i \in info.jobs :
        /\ i.job \in Jobs /\ i.status \in Statuses
        /\ i.status # "wait" => status[i.job] # "wait"
        /\ ~i.ack => i.job \in started

\* The jobs which may not be finished are asked, and the answer speaks of them.
AllAsked ==
    /\ monitor \in {"asking", "informed"} => Watched \subseteq asked
    /\ monitor = "informed" => \A j \in asked : \E i \in info.jobs : i.job = j

MonitorInv == RowsTrue /\ InfoTrue /\ AllAsked /\ FinishedIsTrue

LEMMA MonitorInvInit == ASSUME MonitorInit PROVE MonitorInv
<1>1. RowsTrue
  BY MonitorAssumption DEF MonitorInit, RowsTrue, Statuses
<1>2. InfoTrue /\ AllAsked /\ FinishedIsTrue
  BY DEF MonitorInit, InfoTrue, AllAsked, FinishedIsTrue, NoInfo
<1> QED  BY <1>1, <1>2 DEF MonitorInv

\* The rows of jobs change without the page.
LEMMA RowStep ==
    ASSUME MonitorInv, NEW j \in Jobs, ExecuteJob(j) \/ ClearRow(j) PROVE MonitorInv'
<1>1. /\ status' \in [Jobs -> Statuses] /\ status'[j] # "wait" /\ j \in started
      /\ \A k \in Jobs \ {j} : status'[k] = status[k]
      /\ UNCHANGED <<ackErrors, started, monitor, displayed, asked, info>>
  <2>1. CASE ExecuteJob(j)
    BY <2>1 DEF MonitorInv, RowsTrue, Statuses, ExecuteJob
  <2>2. CASE ClearRow(j)
    BY <2>2 DEF MonitorInv, RowsTrue, Statuses, ClearRow
  <2> QED  BY <2>1, <2>2
<1>2. RowsTrue'
  BY <1>1 DEF MonitorInv, RowsTrue
<1>3. InfoTrue'
  BY <1>1 DEF MonitorInv, InfoTrue
<1>4. AllAsked' /\ FinishedIsTrue'
  BY <1>1 DEF MonitorInv, AllAsked, Watched, FinishedIsTrue
<1> QED  BY <1>2, <1>3, <1>4 DEF MonitorInv

LEMMA ManagerStep == ASSUME MonitorInv, StopManager \/ RestartManager PROVE MonitorInv'
BY DEF MonitorInv, RowsTrue, InfoTrue, AllAsked, Watched, FinishedIsTrue, StopManager,
       RestartManager

LEMMA FetchInfoStep == ASSUME MonitorInv, FetchInfo PROVE MonitorInv'
<1>1. Watched \subseteq Jobs /\ Watched' = Watched
  BY DEF FetchInfo, Watched
<1>2. RowsTrue' /\ InfoTrue' /\ FinishedIsTrue'
  BY <1>1 DEF MonitorInv, RowsTrue, InfoTrue, FinishedIsTrue, FetchInfo
<1>3. AllAsked'
  BY <1>1 DEF AllAsked, FetchInfo
<1> QED  BY <1>2, <1>3 DEF MonitorInv

LEMMA ServeInfoStep == ASSUME MonitorInv, ServeInfo PROVE MonitorInv'
<1>1. /\ started \subseteq started'
      /\ \A j \in Jobs : j \notin ackErrors' => j \in started'
      /\ UNCHANGED <<status, displayed, asked>> /\ monitor' = "informed"
  BY DEF MonitorInv, RowsTrue, ServeInfo
<1>2. info'.jobs = {[job |-> j, status |-> status[j], ack |-> j \in ackErrors'] : j \in asked}
  BY DEF ServeInfo
<1> DEFINE Record(j) == [job |-> j, status |-> status[j], ack |-> j \in ackErrors']
<1>20. ASSUME NEW j \in Jobs
       PROVE  /\ Record(j).job = j /\ Record(j).status = status[j]
              /\ ~Record(j).ack => j \notin ackErrors'
  <2>1. Record(j).ack = (j \in ackErrors')
    BY Zenon
  <2> QED  BY <2>1
<1>21. info'.jobs = {Record(j) : j \in asked} /\ asked \subseteq Jobs
  BY <1>2 DEF MonitorInv, InfoTrue
<1> HIDE DEF Record
<1>3. RowsTrue'
  BY <1>1 DEF MonitorInv, RowsTrue
<1>4. InfoTrue'
  BY <1>1, <1>20, <1>21 DEF MonitorInv, RowsTrue, InfoTrue
<1>5. AllAsked'
  <2>1. \A j \in asked : \E i \in info'.jobs : i.job = j
    BY <1>20, <1>21
  <2>2. Watched' \subseteq asked'
    BY <1>1 DEF MonitorInv, AllAsked, Watched, ServeInfo
  <2> QED  BY <1>1, <2>1, <2>2 DEF AllAsked
<1>6. FinishedIsTrue'
  BY <1>1 DEF FinishedIsTrue
<1> QED  BY <1>3, <1>4, <1>5, <1>6 DEF MonitorInv

LEMMA InfoDoneStep == ASSUME MonitorInv, InfoDone PROVE MonitorInv'
<1> DEFINE Said(j) == CHOOSE i \in Known : i.job = j
<1>1. /\ UNCHANGED <<status, ackErrors, started>> /\ monitor' \in {"timer", "finished"}
      /\ asked' = {} /\ info'.jobs = {}
  BY DEF InfoDone, NoInfo
<1>2. \A j \in Jobs : (\E i \in Known : i.job = j) => Said(j) \in Known /\ Said(j).job = j
  OBVIOUS
<1>3. ASSUME NEW j \in Jobs
      PROVE  /\ displayed'[j] \in {"wait", "ok", "error"}
             /\ displayed'[j] # "wait" => status[j] # "wait"
  <2>1. CASE info.error \/ ~\E i \in Known : i.job = j
    BY <2>1 DEF InfoDone, MonitorInv, RowsTrue
  <2>2. CASE ~info.error /\ \E i \in Known : i.job = j
    <3>1. displayed'[j] = Said(j).status
      BY <2>2 DEF InfoDone
    <3>2. Said(j) \in info.jobs /\ Said(j).job = j /\ Said(j).status # "gone"
      BY <1>2, <2>2 DEF Known
    <3> HIDE DEF Said
    <3> QED  BY <3>1, <3>2 DEF MonitorInv, InfoTrue, Statuses
  <2> QED  BY <2>1, <2>2
<1>4. displayed' \in [Jobs -> {"wait", "ok", "error"}]
  <2>1. displayed' = [j \in Jobs |-> displayed'[j]]
    BY DEF InfoDone, MonitorInv, RowsTrue
  <2> QED  BY <2>1, <1>3
<1>5. RowsTrue'
  BY <1>1, <1>3, <1>4 DEF MonitorInv, RowsTrue
<1>6. InfoTrue' /\ AllAsked'
  BY <1>1 DEF InfoTrue, AllAsked
<1>7. FinishedIsTrue'
  <2> SUFFICES ASSUME monitor' = "finished", NEW j \in Jobs
               PROVE  status[j] # "wait"
    BY <1>1 DEF FinishedIsTrue, MonitorInv, RowsTrue
  <2>1. \A i \in Known : i.status # "wait"
    BY DEF InfoDone, NeedReload
  <2>2. CASE j \in Watched
    <3>1. PICK i \in info.jobs : i.job = j
      BY <2>2 DEF InfoDone, MonitorInv, AllAsked
    <3>2. i.status # "wait"
      BY <2>1 DEF Known
    <3> QED  BY <3>1, <3>2 DEF MonitorInv, InfoTrue
  <2>3. CASE j \notin Watched
    BY <2>3 DEF Watched, MonitorInv, RowsTrue
  <2> QED  BY <2>2, <2>3
<1> QED  BY <1>5, <1>6, <1>7 DEF MonitorInv

LEMMA InfoFailStep == ASSUME MonitorInv, InfoFail PROVE MonitorInv'
BY DEF MonitorInv, RowsTrue, InfoTrue, AllAsked, FinishedIsTrue, InfoFail, NoInfo

LEMMA MonitorInvStep == ASSUME MonitorInv, [MonitorNext]_monitorVars PROVE MonitorInv'
<1>1. ASSUME NEW j \in Jobs, ExecuteJob(j) \/ ClearRow(j) PROVE MonitorInv'
  BY <1>1, RowStep
<1>2. CASE StopManager \/ RestartManager
  BY <1>2, ManagerStep
<1>3. CASE MonitorStep
  BY <1>3, FetchInfoStep, ServeInfoStep, InfoDoneStep, InfoFailStep DEF MonitorStep
<1>4. CASE UNCHANGED monitorVars
  BY <1>4 DEF monitorVars, MonitorInv, RowsTrue, InfoTrue, AllAsked, Watched, FinishedIsTrue
<1> QED  BY <1>1, <1>2, <1>3, <1>4 DEF MonitorNext

\* The page only announces the end of its jobs when they are all finished, for any
\* jobs, outages of the job manager, lost STARTs and HTTP failures (jobs.js,
\* JobsInformation).
THEOREM FinishedForSure == MonitorSpec => []FinishedIsTrue
<1>1. MonitorInit => MonitorInv
  BY MonitorInvInit
<1>2. MonitorInv /\ [MonitorNext]_monitorVars => MonitorInv'
  BY MonitorInvStep
<1>3. MonitorInv => FinishedIsTrue
  BY DEF MonitorInv
<1> QED  BY <1>1, <1>2, <1>3, PTL DEF MonitorSpec

InfoRecords == [error : BOOLEAN,
                jobs : SUBSET [job : Jobs, ack : BOOLEAN, status : Statuses]]

\* The variables which MonitorInv does not speak of.
LEMMA MonitorTypesStep ==
    ASSUME MonitorInv, MonitorTypeOK, [MonitorNext]_monitorVars PROVE MonitorTypeOK'
<1>1. MonitorInv'
  BY MonitorInvStep
<1>2. /\ status' \in [Jobs -> Statuses] /\ displayed' \in [Jobs -> {"wait", "ok", "error"}]
      /\ asked' \subseteq Jobs
  BY <1>1 DEF MonitorInv, RowsTrue, InfoTrue
<1>3. ackErrors' \subseteq Jobs /\ started' \subseteq Jobs
  BY DEF MonitorTypeOK, MonitorNext, MonitorStep, ExecuteJob, ClearRow, StopManager, RestartManager,
         FetchInfo, ServeInfo, SentAgain, InfoDone, InfoFail, monitorVars
<1>4. manager' \in BOOLEAN
  <2>1. UNCHANGED manager \/ manager' = TRUE \/ manager' = FALSE
    BY DEF MonitorNext, MonitorStep, ExecuteJob, ClearRow, StopManager, RestartManager,
           FetchInfo, ServeInfo, InfoDone, InfoFail, monitorVars
  <2> QED  BY <2>1 DEF MonitorTypeOK
<1>5. monitor' \in {"timer", "asking", "informed", "finished", "stopped"}
  BY DEF MonitorTypeOK, MonitorNext, MonitorStep, ExecuteJob, ClearRow, StopManager, RestartManager,
         FetchInfo, ServeInfo, InfoDone, InfoFail, monitorVars
<1>6. troubles' \in [outages : Nat, fails : Nat]
  <2>1. \/ UNCHANGED troubles
        \/ troubles' = [troubles EXCEPT !.outages = @ + 1]
        \/ troubles' = [troubles EXCEPT !.fails = @ + 1]
    BY DEF MonitorNext, MonitorStep, ExecuteJob, ClearRow, StopManager, RestartManager,
           FetchInfo, ServeInfo, InfoDone, InfoFail, monitorVars
  <2> QED  BY <2>1 DEF MonitorTypeOK
<1>7. info' \in InfoRecords
  <2>1. NoInfo \in InfoRecords
    BY DEF NoInfo, InfoRecords
  <2>2. CASE ServeInfo
    <3>1. PICK gone : gone = ackErrors'
      OBVIOUS
    <3>2. info' = [error |-> ~manager,
                   jobs |-> {[job |-> j, status |-> status[j], ack |-> j \in gone] : j \in asked}]
      BY <2>2, <3>1 DEF ServeInfo
    <3>3. asked \subseteq Jobs /\ status \in [Jobs -> Statuses]
      BY DEF MonitorInv, RowsTrue, InfoTrue
    <3>4. \A j \in asked : [job |-> j, status |-> status[j], ack |-> j \in gone]
                                \in [job : Jobs, ack : BOOLEAN, status : Statuses]
      BY <3>3
    <3> DEFINE jobs == {[job |-> j, status |-> status[j], ack |-> j \in gone] : j \in asked}
    <3>5. jobs \subseteq [job : Jobs, ack : BOOLEAN, status : Statuses]
      BY <3>4
    <3> HIDE DEF jobs
    <3>6. info' = [error |-> ~manager, jobs |-> jobs]
      BY <3>2 DEF jobs
    <3>7. PICK silent \in BOOLEAN : silent = ~manager
      BY Zenon
    <3>8. info' = [error |-> silent, jobs |-> jobs]
      BY <3>6, <3>7, Zenon
    <3> QED  BY <3>5, <3>8 DEF InfoRecords
  <2>3. CASE ~ServeInfo
    <3>1. UNCHANGED info \/ info' = NoInfo
      BY <2>3 DEF MonitorNext, MonitorStep, ExecuteJob, ClearRow, StopManager, RestartManager,
             FetchInfo, InfoDone, InfoFail, monitorVars
    <3> QED  BY <2>1, <3>1 DEF MonitorTypeOK, InfoRecords, Statuses
  <2> QED  BY <2>2, <2>3
<1> QED
  BY <1>2, <1>3, <1>4, <1>5, <1>6, <1>7 DEF MonitorTypeOK, InfoRecords, Statuses

\* The variables of the monitor and its answers keep their types.
THEOREM MonitorTypeCorrect == MonitorSpec => []MonitorTypeOK
<1>1. MonitorInit => MonitorInv
  BY MonitorInvInit
<1>2. MonitorInit => MonitorTypeOK
  BY MonitorAssumption DEF MonitorInit, MonitorTypeOK, NoInfo
<1>3. MonitorInv /\ [MonitorNext]_monitorVars => MonitorInv'
  BY MonitorInvStep
<1>4. MonitorInv /\ MonitorTypeOK /\ [MonitorNext]_monitorVars => MonitorTypeOK'
  BY MonitorTypesStep
<1> QED  BY <1>1, <1>2, <1>3, <1>4, PTL DEF MonitorSpec

(***************************************************************************)
(* BrickPage                                                               *)
(***************************************************************************)

\* An answer never speaks of changes which are still to come.
AnswersPast == \A r \in reloads : \A m \in Models : r.answer[m] <= version[m]

BrickInv == BrickTypeOK /\ AnswersPast /\ NoStaleBrick /\ LoadingHasCause

LEMMA BrickInvInit == ASSUME BrickInit PROVE BrickInv
<1>1. version \in Versions /\ \A b \in Bricks : shown[b] = version
  BY DEF BrickInit, Versions
<1>2. BrickTypeOK
  <2>1. loading \in [Bricks -> BOOLEAN]
    BY Zenon DEF BrickInit
  <2> QED  BY <1>1, <2>1 DEF BrickInit, BrickTypeOK
<1>3. AnswersPast /\ NoStaleBrick
  BY <1>1 DEF BrickInit, AnswersPast, NoStaleBrick
<1>4. LoadingHasCause
  BY DEF BrickInit, LoadingHasCause
<1> QED  BY <1>2, <1>3, <1>4 DEF BrickInv

LEMMA CollectedBricks ==
    ASSUME NEW b \in Bricks PROVE Collected(b) \subseteq Bricks /\ b \in Collected(b)
BY DEF Collected

\* A change of a model of a brick concerns every brick which displays this model.
LEMMA Dependencies ==
    ASSUME NEW b \in Bricks, NEW c \in Bricks, NEW m \in Changeable(b) \cap Deps[c]
    PROVE  c \in Collected(b)
BY DEF Collected, Intersect, Changeable

LEMMA LoadingType ==
    ASSUME loading \in [Bricks -> BOOLEAN], NEW bs, NEW on \in BOOLEAN, Loading(bs, on)
    PROVE  /\ loading' \in [Bricks -> BOOLEAN]
           /\ \A b \in Bricks : loading'[b] = IF b \in bs THEN on ELSE loading[b]
BY DEF Loading

\* A new query: its record, and what it is the cause of.
LEMMA NewReload ==
    ASSUME BrickTypeOK, NEW b \in Bricks, NEW k \in {"reloads", "pages"}, StartReload(b, k)
    PROVE  \E s \in ReloadRecords :
              /\ reloads' = reloads \cup {s}
              /\ s.bricks = Collected(b) /\ s.gens = gen /\ s.answer = version /\ ~s.served
              /\ sent' \in [{"actions", "pages", "reloads", "fails"} -> Nat]
<1> DEFINE s == [id |-> sent.reloads, bricks |-> Collected(b),
                 gens |-> gen, served |-> FALSE, answer |-> version]
<1>1. s \in ReloadRecords
  BY CollectedBricks DEF BrickTypeOK, ReloadRecords
<1>2. ~s.served
  BY Zenon
<1>3. sent' \in [{"actions", "pages", "reloads", "fails"} -> Nat]
  BY DEF StartReload, BrickTypeOK
<1> QED  BY <1>1, <1>2, <1>3 DEF StartReload

LEMMA ChangePageStep == ASSUME BrickInv, NEW b \in Bricks, ChangePage(b) PROVE BrickInv'
<1>0. BrickTypeOK /\ UNCHANGED <<version, gen, shown, actions, lost>>
  BY DEF BrickInv, ChangePage
<1>1. PICK s \in ReloadRecords :
          /\ reloads' = reloads \cup {s}
          /\ s.bricks = Collected(b) /\ s.gens = gen /\ s.answer = version /\ ~s.served
          /\ sent' \in [{"actions", "pages", "reloads", "fails"} -> Nat]
  BY <1>0, NewReload DEF ChangePage
<1>2. /\ loading' \in [Bricks -> BOOLEAN]
      /\ \A c \in Bricks : loading'[c] = IF c \in Collected(b) THEN TRUE ELSE loading[c]
  BY <1>0, LoadingType DEF BrickTypeOK, ChangePage
<1>3. BrickTypeOK'
  BY <1>0, <1>1, <1>2 DEF BrickTypeOK
<1>4. AnswersPast'
  BY <1>0, <1>1 DEF BrickInv, AnswersPast, BrickTypeOK, Versions
<1>5. NoStaleBrick'
  BY <1>0, <1>1 DEF BrickInv, NoStaleBrick, Coming
<1>6. LoadingHasCause'
  <2> SUFFICES ASSUME NEW c \in Bricks, loading'[c]
               PROVE  \/ \E r \in reloads' : c \in Bound(r)'
                      \/ c \in Async /\ \E a \in actions' : a.brick = c /\ IsBound(a)'
    BY DEF LoadingHasCause
  <2>1. CASE c \in Collected(b)
    <3>1. s \in reloads' /\ c \in s.bricks /\ gen'[c] = s.gens[c]
      BY <2>1, <1>0, <1>1
    <3>2. c \in Bound(s)'
      BY <3>1 DEF Bound
    <3> QED  BY <3>1 DEF Bound
  <2>2. CASE c \notin Collected(b)
    <3>1. loading[c]
      BY <2>2, <1>2
    <3> QED  BY <3>1, <1>0, <1>1 DEF BrickInv, LoadingHasCause, Bound, IsBound
  <2> QED  BY <2>1, <2>2
<1> QED  BY <1>3, <1>4, <1>5, <1>6 DEF BrickInv

LEMMA ServeReloadStep == ASSUME BrickInv, NEW r \in reloads, ServeReload(r) PROVE BrickInv'
<1> DEFINE s == [r EXCEPT !.served = TRUE, !.answer = version]
<1>0. /\ BrickTypeOK /\ UNCHANGED <<version, gen, loading, shown, actions, sent, lost>>
      /\ reloads' = (reloads \ {r}) \cup {s} /\ version \in Versions /\ r \in ReloadRecords
  BY DEF BrickInv, BrickTypeOK, ServeReload
<1>10. s = [r EXCEPT !.served = TRUE, !.answer = version]
  OBVIOUS
<1> HIDE DEF s
<1>1. s \in ReloadRecords /\ s.bricks = r.bricks /\ s.gens = r.gens /\ s.answer = version
  BY <1>0, <1>10 DEF ReloadRecords
<1>2. BrickTypeOK'
  BY <1>0, <1>1 DEF BrickTypeOK
<1>3. AnswersPast'
  BY <1>0, <1>1 DEF BrickInv, AnswersPast, Versions
<1>4. NoStaleBrick'
  BY <1>0, <1>1 DEF BrickInv, NoStaleBrick, Coming
<1>5. LoadingHasCause'
  BY <1>0, <1>1 DEF BrickInv, LoadingHasCause, Bound, IsBound
<1> QED  BY <1>2, <1>3, <1>4, <1>5 DEF BrickInv

LEMMA ReloadDoneStep == ASSUME BrickInv, NEW r \in reloads, ReloadDone(r) PROVE BrickInv'
<1>0. /\ BrickTypeOK /\ UNCHANGED <<version, actions, sent>>
      /\ reloads' = reloads \ {r} /\ r \in ReloadRecords /\ r.served
  BY DEF BrickInv, BrickTypeOK, ReloadDone
<1>1. /\ loading' \in [Bricks -> BOOLEAN]
      /\ \A c \in Bricks : loading'[c] = IF c \in r.bricks THEN FALSE ELSE loading[c]
  BY <1>0, LoadingType DEF BrickTypeOK, ReloadDone
<1>2. /\ gen' \in [Bricks -> Nat] /\ shown' \in [Bricks -> Versions]
      /\ \A c \in Bricks : c \in r.bricks => shown'[c] = r.answer
      /\ \A c \in Bricks : c \notin r.bricks => shown'[c] = shown[c] /\ gen'[c] = gen[c]
  BY <1>0 DEF BrickTypeOK, ReloadRecords, ReloadDone
<1>3. BrickTypeOK'
  <2>1. lost' \subseteq Bricks
    BY <1>0 DEF BrickTypeOK, ReloadRecords, ReloadDone
  <2> QED  BY <2>1, <1>0, <1>1, <1>2 DEF BrickTypeOK
<1>4. AnswersPast'
  BY <1>0 DEF BrickInv, AnswersPast
<1>5. NoStaleBrick'
  <2> SUFFICES ASSUME NEW b \in Bricks \ lost', NEW m \in Deps[b]
               PROVE  shown'[b][m] = version[m] \/ Coming(b, m)'
    BY <1>0 DEF NoStaleBrick
  <2>0. m \in Models /\ r.answer \in Versions /\ shown[b] \in Versions /\ version \in Versions
    BY <1>0, BricksAssumption DEF BrickTypeOK, ReloadRecords
  <2>1. CASE b \in r.bricks
    <3>1. ~Obsolete(b, r.answer) /\ (b \notin lost \/ UpToDate(b, r.answer))
      BY <2>1 DEF ReloadDone
    <3>2. CASE UpToDate(b, r.answer)
      BY <3>2, <2>1, <1>2 DEF UpToDate
    <3>3. CASE b \notin lost
      <4>1. shown[b][m] = version[m] \/ Coming(b, m)
        BY <3>3 DEF BrickInv, NoStaleBrick
      <4>2. CASE shown[b][m] = version[m]
        <5>1. r.answer[m] >= shown[b][m]
          BY <3>1, <2>0 DEF Obsolete, Versions
        <5>2. r.answer[m] <= version[m]
          BY <2>0 DEF BrickInv, AnswersPast
        <5>3. r.answer[m] = version[m]
          BY <5>1, <5>2, <4>2, <2>0 DEF Versions
        <5> QED  BY <5>3, <2>1, <1>2
      <4>3. CASE Coming(b, m)
        BY <4>3, <1>0, <1>2, <2>1 DEF Coming
      <4> QED  BY <4>1, <4>2, <4>3
    <3> QED  BY <3>1, <3>2, <3>3
  <2>2. CASE b \notin r.bricks
    <3>1. b \notin lost
      BY <2>2 DEF ReloadDone
    <3> QED  BY <3>1, <2>2, <1>0, <1>2 DEF BrickInv, NoStaleBrick, Coming
  <2> QED  BY <2>1, <2>2
<1>6. LoadingHasCause'
  <2> SUFFICES ASSUME NEW c \in Bricks, loading'[c]
               PROVE  \/ \E q \in reloads' : c \in Bound(q)'
                      \/ c \in Async /\ \E a \in actions' : a.brick = c /\ IsBound(a)'
    BY DEF LoadingHasCause
  <2>1. c \notin r.bricks /\ loading[c] /\ gen'[c] = gen[c]
    BY <1>1, <1>2
  <2> QED  BY <2>1, <1>0 DEF BrickInv, LoadingHasCause, Bound, IsBound
<1> QED  BY <1>3, <1>4, <1>5, <1>6 DEF BrickInv

LEMMA FailCounted ==
    ASSUME BrickTypeOK, NEW k \in {"actions", "fails"}, Count(k)
    PROVE  sent' \in [{"actions", "pages", "reloads", "fails"} -> Nat]
BY DEF BrickTypeOK, Count

LEMMA ReloadFailStep == ASSUME BrickInv, NEW r \in reloads, ReloadFail(r) PROVE BrickInv'
<1>0. /\ BrickTypeOK /\ UNCHANGED <<version, gen, shown, actions>>
      /\ reloads' = reloads \ {r} /\ r \in ReloadRecords /\ lost' = lost \cup r.bricks
  BY DEF BrickInv, BrickTypeOK, ReloadFail
<1>1. /\ loading' \in [Bricks -> BOOLEAN]
      /\ \A c \in Bricks : loading'[c] = IF c \in Bound(r) THEN FALSE ELSE loading[c]
  BY <1>0, LoadingType DEF BrickTypeOK, ReloadFail
<1>2. BrickTypeOK'
  BY <1>0, <1>1, FailCounted DEF BrickTypeOK, ReloadRecords, ReloadFail
<1>3. AnswersPast' /\ NoStaleBrick'
  BY <1>0 DEF BrickInv, AnswersPast, NoStaleBrick, Coming
<1>4. LoadingHasCause'
  <2> SUFFICES ASSUME NEW c \in Bricks, loading'[c]
               PROVE  \/ \E q \in reloads' : c \in Bound(q)'
                      \/ c \in Async /\ \E a \in actions' : a.brick = c /\ IsBound(a)'
    BY DEF LoadingHasCause
  <2>1. c \notin Bound(r) /\ loading[c]
    BY <1>1
  <2> QED  BY <2>1, <1>0 DEF BrickInv, LoadingHasCause, Bound, IsBound
<1> QED  BY <1>2, <1>3, <1>4 DEF BrickInv

LEMMA StartActionStep == ASSUME BrickInv, NEW b \in Bricks, StartAction(b) PROVE BrickInv'
<1> DEFINE a == [id |-> sent.actions, brick |-> b, gen |-> gen[b],
                 stage |-> "sent", wrote |-> {}]
<1>0. /\ BrickTypeOK /\ UNCHANGED <<version, gen, shown, reloads, lost>>
      /\ actions' = actions \cup {a}
  BY DEF BrickInv, StartAction
<1>1. a \in ActionRecords /\ a.brick = b /\ a.gen = gen[b]
  BY <1>0 DEF BrickTypeOK, ActionRecords
<1> HIDE DEF a
<1>2. /\ loading' \in [Bricks -> BOOLEAN]
      /\ \A c \in Bricks : loading'[c] = IF c \in (IF b \in Async THEN {b} ELSE {})
                                       THEN TRUE ELSE loading[c]
  BY <1>0, LoadingType DEF BrickTypeOK, StartAction
<1>3. BrickTypeOK'
  BY <1>0, <1>1, <1>2, FailCounted DEF BrickTypeOK, StartAction
<1>4. AnswersPast' /\ NoStaleBrick'
  BY <1>0 DEF BrickInv, AnswersPast, NoStaleBrick, Coming
<1>5. LoadingHasCause'
  <2> SUFFICES ASSUME NEW c \in Bricks, loading'[c]
               PROVE  \/ \E q \in reloads' : c \in Bound(q)'
                      \/ c \in Async /\ \E d \in actions' : d.brick = c /\ IsBound(d)'
    BY DEF LoadingHasCause
  <2>1. CASE c = b /\ b \in Async
    BY <2>1, <1>0, <1>1 DEF IsBound
  <2>2. CASE ~(c = b /\ b \in Async)
    <3>1. loading[c]
      BY <2>2, <1>2
    <3> QED  BY <3>1, <1>0 DEF BrickInv, LoadingHasCause, Bound, IsBound
  <2> QED  BY <2>1, <2>2
<1> QED  BY <1>3, <1>4, <1>5 DEF BrickInv

LEMMA ServeActionStep == ASSUME BrickInv, NEW a \in actions, ServeAction(a) PROVE BrickInv'
<1>0. /\ BrickTypeOK /\ UNCHANGED <<gen, loading, shown, reloads, sent, lost>>
      /\ a \in ActionRecords /\ a.brick \in Bricks /\ a.stage = "sent"
  BY DEF BrickInv, BrickTypeOK, ActionRecords, ServeAction
<1>1. PICK ms \in SUBSET Changeable(a.brick), stage \in {"done", "refused"} :
          /\ version' = [m \in Models |-> version[m] + (IF m \in ms THEN 1 ELSE 0)]
          /\ stage = "refused" => ms = {}
          /\ actions' = (actions \ {a}) \cup {[a EXCEPT !.stage = stage, !.wrote = ms]}
  BY DEF ServeAction
<1> DEFINE s == [a EXCEPT !.stage = stage, !.wrote = ms]
<1>10. s = [a EXCEPT !.stage = stage, !.wrote = ms] /\ actions' = (actions \ {a}) \cup {s}
  BY <1>1
<1> HIDE DEF s
<1>2. ms \subseteq Models
  BY <1>0, <1>1, BricksAssumption DEF Changeable
<1>3. /\ s \in ActionRecords /\ s.brick = a.brick /\ s.gen = a.gen
      /\ s.stage = stage /\ s.wrote = ms
  BY <1>0, <1>2, <1>10 DEF ActionRecords
<1>4. /\ version' \in Versions
      /\ \A m \in Models : version[m] \in Nat /\ version'[m] \in Nat /\ version[m] <= version'[m]
      /\ \A m \in Models \ ms : version'[m] = version[m]
  <2>1. \A m \in Models : version[m] \in Nat
    BY <1>0 DEF BrickTypeOK, Versions
  <2> QED  BY <2>1, <1>1 DEF Versions
<1>5. BrickTypeOK'
  BY <1>0, <1>3, <1>4, <1>10 DEF BrickTypeOK
<1>6. AnswersPast'
  <2> SUFFICES ASSUME NEW r \in reloads, NEW m \in Models PROVE r.answer[m] <= version'[m]
    BY <1>0 DEF AnswersPast
  <2>1. r.answer[m] \in Nat /\ r.answer[m] <= version[m]
    BY <1>0 DEF BrickInv, AnswersPast, BrickTypeOK, ReloadRecords, Versions
  <2> QED  BY <2>1, <1>4
<1>7. NoStaleBrick'
  <2> SUFFICES ASSUME NEW b \in Bricks \ lost, NEW m \in Deps[b]
               PROVE  shown[b][m] = version'[m] \/ Coming(b, m)'
    BY <1>0 DEF NoStaleBrick
  <2>0. m \in Models
    BY BricksAssumption
  <2>1. CASE m \in ms
    <3>1. b \in Collected(a.brick)
      BY <2>1, <1>0, <1>1, Dependencies
    <3>2. stage = "done"
      BY <2>1, <1>1
    <3> QED  BY <2>1, <3>1, <3>2, <1>3, <1>10 DEF Coming
  <2>2. CASE m \notin ms
    <3>1. version'[m] = version[m]
      BY <2>0, <2>2, <1>4
    <3>2. shown[b][m] = version[m] \/ Coming(b, m)
      BY DEF BrickInv, NoStaleBrick
    <3>3. Coming(b, m) => Coming(b, m)'
      BY <3>1, <1>0, <1>10 DEF Coming
    <3> QED  BY <3>1, <3>2, <3>3
  <2> QED  BY <2>1, <2>2
<1>8. LoadingHasCause'
  <2> SUFFICES ASSUME NEW c \in Bricks, loading[c]
               PROVE  \/ \E q \in reloads : c \in Bound(q)
                      \/ c \in Async /\ \E d \in actions' : d.brick = c /\ gen[d.brick] = d.gen
    BY <1>0 DEF LoadingHasCause, Bound, IsBound
  <2>1. CASE \E q \in reloads : c \in Bound(q)
    BY <2>1
  <2>2. CASE c \in Async /\ \E d \in actions : d.brick = c /\ IsBound(d)
    <3>1. PICK d \in actions : d.brick = c /\ gen[d.brick] = d.gen
      BY <2>2 DEF IsBound
    <3>2. CASE d = a
      <4>1. s \in actions' /\ s.brick = c /\ gen[s.brick] = s.gen
        BY <3>1, <3>2, <1>3, <1>10
      <4> QED  BY <4>1, <2>2
    <3>3. CASE d # a
      BY <3>1, <3>3, <2>2, <1>10
    <3> QED  BY <3>2, <3>3
  <2> QED  BY <2>1, <2>2 DEF BrickInv, LoadingHasCause
<1> QED  BY <1>5, <1>6, <1>7, <1>8 DEF BrickInv

LEMMA ActionDoneStep == ASSUME BrickInv, NEW a \in actions, ActionDone(a) PROVE BrickInv'
<1>0. /\ BrickTypeOK /\ UNCHANGED <<version, gen, shown>>
      /\ a \in ActionRecords /\ a.brick \in Bricks /\ actions' = actions \ {a}
  BY DEF BrickInv, BrickTypeOK, ActionRecords, ActionDone
<1>1. CASE IsBound(a)
  <2>1. UNCHANGED lost /\ StartReload(a.brick, "reloads")
    BY <1>1 DEF ActionDone
  <2>2. PICK s \in ReloadRecords :
            /\ reloads' = reloads \cup {s}
            /\ s.bricks = Collected(a.brick) /\ s.gens = gen /\ s.answer = version /\ ~s.served
            /\ sent' \in [{"actions", "pages", "reloads", "fails"} -> Nat]
    BY <2>1, <1>0, NewReload
  <2>3. loading' = [b \in Bricks |->
                 IF b = a.brick /\ b \in Async THEN FALSE
                 ELSE IF b \in Collected(a.brick) THEN TRUE ELSE loading[b]]
    BY <1>1 DEF ActionDone
  <2>4. /\ loading' \in [Bricks -> BOOLEAN]
        /\ \A c \in Bricks : c = a.brick /\ c \in Async => loading'[c] = FALSE
        /\ \A c \in Bricks \ Collected(a.brick) : loading'[c] = loading[c]
    <3>1. a.brick \in Collected(a.brick)
      BY <1>0, CollectedBricks
    <3>2. loading \in [Bricks -> BOOLEAN]
      BY <1>0 DEF BrickTypeOK
    <3>3. ASSUME NEW c \in Bricks, c = a.brick, c \in Async PROVE loading'[c] = FALSE
      BY <2>3, <3>3
    <3>4. \A c \in Bricks \ Collected(a.brick) : loading'[c] = loading[c]
      BY <2>3, <3>1
    <3>5. ASSUME NEW c \in Bricks, c \in Collected(a.brick), ~(c = a.brick /\ c \in Async)
          PROVE  loading'[c] = TRUE
      BY <2>3, <3>5
    <3>6. \A c \in Bricks : loading'[c] \in BOOLEAN
      BY <3>2, <3>3, <3>4, <3>5
    <3>7. loading' = [c \in Bricks |-> loading'[c]]
      BY <2>3
    <3> QED  BY <3>3, <3>4, <3>6, <3>7
  <2>5. BrickTypeOK'
    BY <1>0, <2>1, <2>2, <2>4 DEF BrickTypeOK
  <2>6. AnswersPast'
    BY <1>0, <2>2 DEF BrickInv, AnswersPast, BrickTypeOK, Versions
  <2>7. NoStaleBrick'
    <3> SUFFICES ASSUME NEW b \in Bricks \ lost, NEW m \in Deps[b]
                 PROVE  shown[b][m] = version[m] \/ Coming(b, m)'
      BY <1>0, <2>1 DEF NoStaleBrick
    <3>1. CASE b \in Collected(a.brick)
      BY <3>1, <2>2 DEF Coming
    <3>2. CASE b \notin Collected(a.brick)
      BY <3>2, <1>0, <2>2 DEF BrickInv, NoStaleBrick, Coming
    <3> QED  BY <3>1, <3>2
  <2>8. LoadingHasCause'
    <3> SUFFICES ASSUME NEW c \in Bricks, loading'[c]
                 PROVE  \/ \E q \in reloads' : c \in Bound(q)'
                        \/ c \in Async /\ \E d \in actions' : d.brick = c /\ IsBound(d)'
      BY DEF LoadingHasCause
    <3>1. CASE c \in Collected(a.brick)
      <4>1. s \in reloads' /\ c \in s.bricks /\ gen'[c] = s.gens[c]
        BY <3>1, <1>0, <2>2
      <4> QED  BY <4>1 DEF Bound
    <3>2. CASE c \notin Collected(a.brick)
      <4>1. loading[c] /\ c # a.brick
        BY <3>2, <2>4, <1>0, CollectedBricks
      <4> QED  BY <4>1, <1>0, <2>2 DEF BrickInv, LoadingHasCause, Bound, IsBound
    <3> QED  BY <3>1, <3>2
  <2> QED  BY <2>5, <2>6, <2>7, <2>8 DEF BrickInv
<1>2. CASE ~IsBound(a)
  <2>1. lost' = lost \cup Collected(a.brick) /\ UNCHANGED <<reloads, loading, sent>>
    BY <1>2 DEF ActionDone
  <2>2. BrickTypeOK'
    BY <1>0, <2>1, CollectedBricks DEF BrickTypeOK
  <2>3. AnswersPast' /\ NoStaleBrick'
    BY <1>0, <2>1 DEF BrickInv, AnswersPast, NoStaleBrick, Coming
  <2>4. LoadingHasCause'
    BY <1>0, <1>2, <2>1 DEF BrickInv, LoadingHasCause, Bound, IsBound
  <2> QED  BY <2>2, <2>3, <2>4 DEF BrickInv
<1> QED  BY <1>1, <1>2

LEMMA ActionFailStep == ASSUME BrickInv, NEW a \in actions, ActionFail(a) PROVE BrickInv'
<1>0. /\ BrickTypeOK /\ UNCHANGED <<version, gen, shown, reloads>>
      /\ a \in ActionRecords /\ a.brick \in Bricks /\ actions' = actions \ {a}
  BY DEF BrickInv, BrickTypeOK, ActionRecords, ActionFail
<1> DEFINE bs == IF IsBound(a) /\ a.brick \in Async THEN {a.brick} ELSE {}
<1>10. Loading(bs, FALSE) /\ loading \in [Bricks -> BOOLEAN]
  BY <1>0 DEF ActionFail, BrickTypeOK
<1>11. \A c \in Bricks : c \in bs <=> IsBound(a) /\ a.brick = c /\ c \in Async
  OBVIOUS
<1> HIDE DEF bs
<1>1. /\ loading' \in [Bricks -> BOOLEAN]
      /\ \A c \in Bricks : loading'[c] = IF c \in bs THEN FALSE ELSE loading[c]
  BY <1>10, LoadingType
<1>2. /\ sent' \in [{"actions", "pages", "reloads", "fails"} -> Nat]
      /\ lost \subseteq lost' /\ lost' \subseteq Bricks
      /\ a.stage = "refused" \/ Collected(a.brick) \subseteq lost'
  BY <1>0, FailCounted, CollectedBricks DEF ActionFail, BrickTypeOK
<1>3. BrickTypeOK'
  BY <1>0, <1>1, <1>2 DEF BrickTypeOK
<1>4. AnswersPast'
  BY <1>0 DEF BrickInv, AnswersPast
<1>5. NoStaleBrick'
  BY <1>0, <1>2 DEF BrickInv, NoStaleBrick, Coming
<1>6. LoadingHasCause'
  <2> SUFFICES ASSUME NEW c \in Bricks, loading'[c]
               PROVE  \/ \E q \in reloads' : c \in Bound(q)'
                      \/ c \in Async /\ \E d \in actions' : d.brick = c /\ IsBound(d)'
    BY DEF LoadingHasCause
  <2>1. loading[c] /\ ~(IsBound(a) /\ a.brick = c /\ c \in Async)
    BY <1>1, <1>11
  <2> QED  BY <2>1, <1>0 DEF BrickInv, LoadingHasCause, Bound, IsBound
<1> QED  BY <1>3, <1>4, <1>5, <1>6 DEF BrickInv

LEMMA BrickInvStep == ASSUME BrickInv, [BrickNext]_brickVars PROVE BrickInv'
<1>1. ASSUME NEW b \in Bricks, ChangePage(b) \/ StartAction(b) PROVE BrickInv'
  BY <1>1, ChangePageStep, StartActionStep
<1>2. ASSUME NEW r \in reloads, ServeReload(r) \/ ReloadDone(r) \/ ReloadFail(r)
      PROVE  BrickInv'
  BY <1>2, ServeReloadStep, ReloadDoneStep, ReloadFailStep
<1>3. ASSUME NEW a \in actions, ServeAction(a) \/ ActionDone(a) \/ ActionFail(a)
      PROVE  BrickInv'
  BY <1>3, ServeActionStep, ActionDoneStep, ActionFailStep
<1>4. CASE UNCHANGED brickVars
  BY <1>4 DEF brickVars, BrickInv, BrickTypeOK, AnswersPast, NoStaleBrick, Coming,
              LoadingHasCause, Bound, IsBound
<1> QED  BY <1>1, <1>2, <1>3, <1>4 DEF BrickNext, BrickAnswers

\* For any bricks, models and dependencies, and any number of POSTs and queries
\* which cross or fail: a brick which displays old data will be reloaded, or a
\* reload was lost (Dependencies, Brick.refresh and BricksReloader of bricks.js).
THEOREM StaleBricksAreReloaded == BrickSpec => []NoStaleBrick
<1>1. BrickInit => BrickInv
  BY BrickInvInit
<1>2. BrickInv /\ [BrickNext]_brickVars => BrickInv'
  BY BrickInvStep
<1>3. BrickInv => NoStaleBrick
  BY DEF BrickInv
<1> QED  BY <1>1, <1>2, <1>3, PTL DEF BrickSpec

\* A brick in its loading state is waited for by a query which will end it
\* (BricksReloader.action, Brick.action of bricks.js).
THEOREM LoadingIsWaitedFor == BrickSpec => []LoadingHasCause
<1>1. BrickInit => BrickInv
  BY BrickInvInit
<1>2. BrickInv /\ [BrickNext]_brickVars => BrickInv'
  BY BrickInvStep
<1>3. BrickInv => LoadingHasCause
  BY DEF BrickInv
<1> QED  BY <1>1, <1>2, <1>3, PTL DEF BrickSpec

(***************************************************************************)
(* FormDialog                                                              *)
(***************************************************************************)

\* Nothing is in flight before the dialog is opened.
NothingBefore == outcome = "idle" => popup = "closed" /\ posts = {}

\* What an answer says has been done by the server.
AnswersTrue == \A p \in posts :
    /\ p.answer \in {"saved", "cut"} => count.saved > 0
    /\ p.answer = "failed" => count.fails > 0
    /\ p.answer = "cut" => count.cuts > 0

\* When no form with errors has taken the listener of another POST, the POSTs in
\* flight are listened to until one is reported, and what the server has saved,
\* and whose answer is not lost, is reported or about to be.
Listened == ~taken =>
    /\ posts # {} => bound["done"] > 0 \/ count.success > 0
    /\ count.saved > count.cuts =>
         count.success > 0 \/ \E p \in posts : p.answer = "saved"

\* As long as no request has failed, a form can be sent again, now or when an
\* answer comes.
SendOrListen == popup = "opened" /\ content = "form" /\ Failures = 0 =>
    \/ sendOn
    \/ posts # {} /\ bound["done"] > 0

\* A POST comes from the form which is displayed.
PostReady == popup = "opened" /\ posts # {} => content = "form"

DialogInv ==
    /\ DialogTypeOK /\ NothingBefore /\ PostReady
    /\ AnswersTrue /\ Listened /\ SendOrListen

Counts == {"posts", "fails", "cuts", "saved", "success", "close"}

LEMMA DialogInvInit == ASSUME DialogInit PROVE DialogInv
<1>1. DialogTypeOK
  <2>1. sendOn \in BOOLEAN /\ taken \in BOOLEAN
    BY Zenon DEF DialogInit
  <2>2. bound \in [{"done", "fail"} -> Nat]
    BY DEF DialogInit
  <2>3. count \in [{"posts", "fails", "cuts", "saved", "success", "close"} -> Nat]
    BY DEF DialogInit
  <2> QED  BY <2>1, <2>2, <2>3 DEF DialogInit, DialogTypeOK
<1>2. NothingBefore /\ PostReady /\ AnswersTrue /\ Listened /\ SendOrListen
  BY DEF DialogInit, NothingBefore, PostReady, AnswersTrue, Listened, SendOrListen
<1> QED  BY <1>1, <1>2 DEF DialogInv

\* No request has failed when none of both counts has changed.
LEMMA NoFailure ==
    ASSUME DialogTypeOK
    PROVE  Failures = 0 <=> count.fails = 0 /\ count.cuts = 0
<1>1. count.fails \in Nat /\ count.cuts \in Nat
  BY DEF DialogTypeOK
<1> QED  BY <1>1 DEF Failures

\* Add() changes one count.
LEMMA AddCount ==
    ASSUME DialogTypeOK, NEW k \in Counts, NEW n \in Nat, Add(k, n)
    PROVE  /\ count' \in [Counts -> Nat]
           /\ \A c \in Counts : count'[c] = IF c = k THEN count[c] + n ELSE count[c]
           /\ count'.posts = count'["posts"] /\ count'.cuts = count'["cuts"]
           /\ count'.fails = count'["fails"]
           /\ count'.saved = count'["saved"] /\ count'.success = count'["success"]
BY DEF DialogTypeOK, Add, Counts

LEMMA OpenPopupStep == ASSUME DialogInv, OpenPopup PROVE DialogInv'
<1>1. DialogTypeOK'
  BY DEF DialogInv, DialogTypeOK, OpenPopup
<1>2. NothingBefore' /\ PostReady' /\ AnswersTrue' /\ Listened' /\ SendOrListen'
  BY DEF DialogInv, NothingBefore, PostReady, AnswersTrue, Listened, SendOrListen, Failures, OpenPopup
<1> QED  BY <1>1, <1>2 DEF DialogInv

LEMMA FetchDoneStep == ASSUME DialogInv, FetchDone PROVE DialogInv'
<1>1. DialogTypeOK'
  <2>1. sendOn' \in BOOLEAN
    BY DEF FetchDone
  <2> QED  BY <2>1 DEF DialogInv, DialogTypeOK, FetchDone
<1>2. NothingBefore' /\ PostReady' /\ AnswersTrue' /\ Listened' /\ SendOrListen'
  BY DEF DialogInv, NothingBefore, PostReady, AnswersTrue, Listened, SendOrListen, Failures, FetchDone
<1> QED  BY <1>1, <1>2 DEF DialogInv

LEMMA FetchFailStep == ASSUME DialogInv, FetchFail PROVE DialogInv'
<1>0. /\ count' \in [Counts -> Nat] /\ count \in [Counts -> Nat]
      /\ count'.fails = count.fails + 1 /\ count'.cuts = count.cuts
      /\ count'.saved = count.saved /\ count'.success = count.success
  BY AddCount DEF DialogInv, DialogTypeOK, FetchFail, Counts
<1>1. DialogTypeOK'
  BY <1>0 DEF DialogInv, DialogTypeOK, FetchFail, Counts
<1>2. NothingBefore' /\ PostReady' /\ SendOrListen'
  BY DEF DialogInv, NothingBefore, PostReady, SendOrListen, FetchFail
<1>3. AnswersTrue' /\ Listened'
  BY <1>0 DEF DialogInv, AnswersTrue, Listened, FetchFail, Counts
<1> QED  BY <1>1, <1>2, <1>3 DEF DialogInv

LEMMA CloseStep == ASSUME DialogInv, Close PROVE DialogInv'
<1>0. /\ count' \in [Counts -> Nat]
      /\ count'.fails = count.fails /\ count'.cuts = count.cuts
      /\ count'.saved = count.saved /\ count'.success = count.success
  BY AddCount DEF DialogInv, Close, Counts, DialogTypeOK
<1>1. DialogTypeOK'
  <2>1. /\ outcome' \in {"idle", "run", "done", "cancel"}
        /\ content' \in {"empty", "fetching", "form", "error"}
    BY DEF DialogInv, DialogTypeOK, Close
  <2> QED  BY <1>0, <2>1 DEF DialogInv, DialogTypeOK, Close, Counts
<1>2. NothingBefore' /\ PostReady' /\ SendOrListen'
  BY DEF DialogInv, NothingBefore, PostReady, SendOrListen, Close
<1>3. AnswersTrue' /\ Listened'
  BY <1>0 DEF DialogInv, AnswersTrue, Listened, Close
<1> QED  BY <1>1, <1>2, <1>3 DEF DialogInv

LEMMA SubmitStep == ASSUME DialogInv, Submit PROVE DialogInv'
<1> DEFINE new == [id |-> count.posts, answer |-> "none"]
<1>0. /\ count' \in [Counts -> Nat] /\ count \in [Counts -> Nat]
      /\ count'.fails = count.fails /\ count'.cuts = count.cuts
      /\ count'.saved = count.saved /\ count'.success = count.success
      /\ bound' \in [{"done", "fail"} -> Nat] /\ bound'["done"] > 0
      /\ posts' = posts \cup {new} /\ new.answer = "none" /\ new \in [id : Nat, answer : Answers]
  <2>1. 1 \in Nat /\ "posts" \in Counts /\ Add("posts", 1)
    BY DEF Submit, Counts
  <2>2. /\ count' \in [Counts -> Nat] /\ count \in [Counts -> Nat]
        /\ count'.fails = count.fails /\ count'.cuts = count.cuts
        /\ count'.saved = count.saved /\ count'.success = count.success
    BY <2>1, AddCount DEF DialogInv, DialogTypeOK, Counts
  <2>3. bound' \in [{"done", "fail"} -> Nat] /\ bound'["done"] > 0
    BY DEF DialogInv, DialogTypeOK, Submit
  <2>4. count.posts \in Nat
    BY <2>2 DEF Counts
  <2> QED  BY <2>2, <2>3, <2>4 DEF Submit, Answers
<1>1. DialogTypeOK'
  <2>1. taken' \in BOOLEAN
    BY DEF DialogInv, DialogTypeOK, Submit
  <2>2. posts' \subseteq [id : Nat, answer : Answers]
    BY <1>0 DEF DialogInv, DialogTypeOK
  <2> QED  BY <1>0, <2>1, <2>2 DEF DialogInv, DialogTypeOK, Submit, Counts
<1>2. NothingBefore' /\ PostReady' /\ SendOrListen'
  BY <1>0 DEF DialogInv, NothingBefore, PostReady, SendOrListen, Submit
<1>3. AnswersTrue'
  BY <1>0 DEF DialogInv, AnswersTrue
<1>4. Listened'
  BY <1>0 DEF DialogInv, Listened, Submit
<1> QED  BY <1>1, <1>2, <1>3, <1>4 DEF DialogInv

LEMMA ServePostStep ==
    ASSUME DialogInv, NEW p \in posts, ServePost(p) PROVE DialogInv'
<1>1. PICK a \in Answers \ {"none"} :
        /\ posts' = (posts \ {p}) \cup {[p EXCEPT !.answer = a]}
        /\ count' = [count EXCEPT
                        !["saved"] = @ + (IF a \in {"saved", "cut"} THEN 1 ELSE 0),
                        !["cuts"]  = @ + (IF a = "cut" THEN 1 ELSE 0),
                        !["fails"] = @ + (IF a = "failed" THEN 1 ELSE 0)]
  BY DEF ServePost
<1> DEFINE served == [p EXCEPT !.answer = a]
<1>0. /\ count \in [Counts -> Nat] /\ count' \in [Counts -> Nat]
      /\ count'.saved = count.saved + (IF a \in {"saved", "cut"} THEN 1 ELSE 0)
      /\ count'.cuts = count.cuts + (IF a = "cut" THEN 1 ELSE 0)
      /\ count'.fails = count.fails + (IF a = "failed" THEN 1 ELSE 0)
      /\ count'.success = count.success
      /\ served \in [id : Nat, answer : Answers] /\ served.answer = a
      /\ p \in [id : Nat, answer : Answers]
  BY <1>1 DEF DialogInv, DialogTypeOK, Counts
<1>2. UNCHANGED <<outcome, popup, content, sendOn, bound, taken>>
  BY DEF ServePost
<1>3. DialogTypeOK'
  <2>1. posts' \subseteq [id : Nat, answer : Answers]
    BY <1>0, <1>1 DEF DialogInv, DialogTypeOK
  <2> QED  BY <2>1, <1>0, <1>2 DEF DialogInv, DialogTypeOK, Counts
<1>4. /\ count.saved \in Nat /\ count.cuts \in Nat /\ count.fails \in Nat
      /\ count'.saved >= count.saved /\ count'.cuts >= count.cuts
      /\ count'.fails >= count.fails
      /\ a \in {"saved", "cut"} => count'.saved > 0
      /\ a = "failed" => count'.fails > 0
      /\ a = "cut" => count'.cuts > 0
  BY <1>0 DEF Counts
<1>5. NothingBefore' /\ PostReady' /\ SendOrListen'
  <2>1. NothingBefore' /\ PostReady'
    BY <1>1, <1>2 DEF DialogInv, NothingBefore, PostReady
  <2>2. posts' # {} /\ posts # {}
    BY <1>1
  <2>3. Failures' = 0 => Failures = 0
    <3>1. count'.fails \in Nat /\ count'.cuts \in Nat
      BY <1>0 DEF Counts
    <3> QED  BY <3>1, <1>4 DEF Failures
  <2>4. SendOrListen'
    BY <2>2, <2>3, <1>2 DEF DialogInv, SendOrListen
  <2> QED  BY <2>1, <2>4
<1>6. AnswersTrue'
  <2>1. SUFFICES ASSUME NEW q \in posts'
                 PROVE  /\ q.answer \in {"saved", "cut"} => count'.saved > 0
                        /\ q.answer = "failed" => count'.fails > 0
                        /\ q.answer = "cut" => count'.cuts > 0
    BY DEF AnswersTrue
  <2>2. CASE q = served
    BY <2>2, <1>0, <1>4
  <2>3. CASE q \in posts
    <3>1. /\ q.answer \in {"saved", "cut"} => count.saved > 0
          /\ q.answer = "failed" => count.fails > 0
          /\ q.answer = "cut" => count.cuts > 0
      BY <2>3 DEF DialogInv, AnswersTrue
    <3>2. count'.saved \in Nat /\ count'.cuts \in Nat /\ count'.fails \in Nat
      BY <1>0 DEF Counts
    <3> QED  BY <3>1, <3>2, <1>4
  <2> QED  BY <2>1, <2>2, <2>3, <1>1
<1>7. ASSUME ~taken PROVE Listened'
  <2>1. /\ bound["done"] > 0 \/ count.success > 0
        /\ count.saved > count.cuts =>
             count.success > 0 \/ \E q \in posts : q.answer = "saved"
    BY <1>7 DEF DialogInv, Listened
  <2>2. ASSUME count'.saved > count'.cuts
        PROVE  count'.success > 0 \/ \E q \in posts' : q.answer = "saved"
    <3>1. CASE a = "saved"
      BY <3>1, <1>0, <1>1
    <3>2. CASE a # "saved"
      <4>1. count.saved > count.cuts
        BY <3>2, <2>2, <1>0, <1>4 DEF Answers
      <4>2. p.answer # "saved"
        BY DEF ServePost
      <4> QED  BY <4>1, <4>2, <2>1, <1>0, <1>1
    <3> QED  BY <3>1, <3>2
  <2> QED  BY <2>1, <2>2, <1>0, <1>2 DEF Listened
<1>8. Listened'
  BY <1>2, <1>7 DEF Listened
<1> QED  BY <1>3, <1>5, <1>6, <1>8 DEF DialogInv

\* The listeners of an answer are called, and unbound.
LEMMA Unbound ==
    ASSUME DialogTypeOK, NEW k \in {"done", "fail"}, bound' = [bound EXCEPT ![k] = 0]
    PROVE  /\ bound' \in [{"done", "fail"} -> Nat] /\ bound["done"] \in Nat
           /\ k = "fail" => bound'["done"] = bound["done"]
BY DEF DialogTypeOK

LEMMA PostSavedStep ==
    ASSUME DialogInv, NEW p \in posts, PostSaved(p) PROVE DialogInv'
<1>0. bound' \in [{"done", "fail"} -> Nat] /\ bound["done"] \in Nat
  BY Unbound DEF DialogInv, PostSaved
<1>1. /\ count' \in [Counts -> Nat] /\ count \in [Counts -> Nat]
      /\ count'.fails = count.fails /\ count'.cuts = count.cuts
      /\ count'.saved = count.saved /\ count'.success = count.success + bound["done"]
  BY <1>0, AddCount DEF DialogInv, DialogTypeOK, PostSaved, Counts
<1>2. posts' \subseteq posts /\ posts' = posts \ {p} /\ taken' = taken
  BY DEF PostSaved
<1>3. DialogTypeOK'
  <2>1. /\ outcome' \in {"idle", "run", "done", "cancel"}
        /\ popup' \in {"closed", "opened", "destroyed"}
        /\ content' \in {"empty", "fetching", "form", "error"}
    BY DEF DialogInv, DialogTypeOK, PostSaved
  <2>2. sendOn' \in BOOLEAN
    BY DEF DialogInv, DialogTypeOK, PostSaved
  <2> QED  BY <2>1, <2>2, <1>0, <1>1, <1>2 DEF DialogInv, DialogTypeOK, Counts
<1>4. NothingBefore' /\ PostReady'
  BY DEF DialogInv, NothingBefore, PostReady, PostSaved
<1>5. AnswersTrue'
  BY <1>1, <1>2 DEF DialogInv, AnswersTrue
<1>6. Listened'
  <2>1. SUFFICES ASSUME ~taken PROVE count'.success > 0
    BY <1>2 DEF Listened
  <2>2. bound["done"] > 0 \/ count.success > 0
    BY <2>1 DEF DialogInv, Listened
  <2>3. count.success \in Nat
    BY <1>1 DEF Counts
  <2> QED  BY <2>2, <2>3, <1>0, <1>1
<1>7. SendOrListen'
  <2>1. CASE bound["done"] > 0
    BY <2>1 DEF PostSaved, SendOrListen
  <2>2. CASE ~(bound["done"] > 0)
    BY <2>2, <1>1 DEF DialogInv, PostSaved, SendOrListen, Failures
  <2> QED  BY <2>1, <2>2
<1> QED  BY <1>3, <1>4, <1>5, <1>6, <1>7 DEF DialogInv

LEMMA PostInvalidStep ==
    ASSUME DialogInv, NEW p \in posts, PostInvalid(p) PROVE DialogInv'
<1>0. bound' \in [{"done", "fail"} -> Nat] /\ bound["done"] \in Nat
  BY Unbound DEF DialogInv, PostInvalid
<1>2. /\ posts' \subseteq posts /\ posts' = posts \ {p} /\ p.answer = "invalid"
      /\ UNCHANGED <<outcome, popup, count>> /\ taken' = (taken \/ posts # {p})
      /\ sendOn' = (popup = "opened" /\ (sendOn \/ bound["done"] > 0))
      /\ content' = "form"
  BY DEF PostInvalid
<1>3. DialogTypeOK'
  <2>1. sendOn' \in BOOLEAN /\ taken' \in BOOLEAN
    BY <1>2 DEF DialogInv, DialogTypeOK
  <2> QED  BY <2>1, <1>0, <1>2 DEF DialogInv, DialogTypeOK
<1>4. NothingBefore' /\ PostReady' /\ AnswersTrue'
  BY <1>2 DEF DialogInv, NothingBefore, PostReady, AnswersTrue
<1>5. Listened'
  <2>1. SUFFICES ASSUME ~taken, posts = {p}
                 PROVE  count.saved > count.cuts => count.success > 0
    BY <1>2 DEF Listened
  <2>2. \A q \in posts : q.answer # "saved"
    BY <2>1, <1>2
  <2> QED  BY <2>1, <2>2 DEF DialogInv, Listened
<1>6. SendOrListen'
  <2>1. SUFFICES ASSUME popup = "opened", Failures = 0 PROVE sendOn \/ bound["done"] > 0
    BY <1>2 DEF SendOrListen, Failures
  <2> QED  BY <2>1 DEF DialogInv, PostReady, SendOrListen
<1> QED  BY <1>3, <1>4, <1>5, <1>6 DEF DialogInv

LEMMA PostFailedStep ==
    ASSUME DialogInv, NEW p \in posts, PostFailed(p) PROVE DialogInv'
<1>0. /\ bound' \in [{"done", "fail"} -> Nat] /\ bound'["done"] = bound["done"]
  BY Unbound DEF DialogInv, PostFailed
<1>1. Failures # 0
  <2>1. DialogTypeOK /\ (count.fails > 0 \/ count.cuts > 0)
    BY DEF DialogInv, AnswersTrue, PostFailed
  <2> QED  BY <2>1, NoFailure
<1>2. /\ posts' \subseteq posts /\ posts' = posts \ {p}
      /\ UNCHANGED <<outcome, popup, content, count, taken>>
  BY DEF PostFailed
<1>3. DialogTypeOK'
  <2>1. sendOn' \in BOOLEAN
    BY DEF PostFailed
  <2> QED  BY <2>1, <1>0, <1>2 DEF DialogInv, DialogTypeOK
<1>4. NothingBefore' /\ PostReady' /\ AnswersTrue'
  BY <1>2 DEF DialogInv, NothingBefore, PostReady, AnswersTrue
<1>5. Listened'
  <2>1. p.answer # "saved"
    BY DEF PostFailed
  <2> QED  BY <2>1, <1>0, <1>2 DEF DialogInv, Listened
<1>6. SendOrListen'
  BY <1>1, <1>2 DEF SendOrListen, Failures
<1> QED  BY <1>3, <1>4, <1>5, <1>6 DEF DialogInv

LEMMA DialogStutter == ASSUME DialogInv, UNCHANGED dialogVars PROVE DialogInv'
BY DEF dialogVars, DialogInv, DialogTypeOK, NothingBefore, PostReady, AnswersTrue,
    Listened, SendOrListen, Failures

LEMMA DialogInvStep == ASSUME DialogInv, [DialogNext]_dialogVars PROVE DialogInv'
<1>1. CASE OpenPopup \/ Close \/ ClickSend \/ PressEnter
  BY <1>1, OpenPopupStep, CloseStep, SubmitStep DEF ClickSend, PressEnter
<1>2. CASE FetchDone \/ FetchFail
  BY <1>2, FetchDoneStep, FetchFailStep
<1>3. ASSUME NEW p \in posts, ServePost(p) \/ PostSaved(p) \/ PostInvalid(p) \/ PostFailed(p)
      PROVE  DialogInv'
  BY <1>3, ServePostStep, PostSavedStep, PostInvalidStep, PostFailedStep
<1>4. CASE UNCHANGED dialogVars
  BY <1>4, DialogStutter
<1> QED  BY <1>1, <1>2, <1>3, <1>4 DEF DialogNext, DialogAnswers

\* The inductive invariant of the dialog holds.
THEOREM DialogInvariant == DialogSpec => []DialogInv
<1>1. DialogInit => DialogInv
  BY DialogInvInit
<1>2. DialogInv /\ [DialogNext]_dialogVars => DialogInv'
  BY DialogInvStep
<1> QED  BY <1>1, <1>2, PTL DEF DialogSpec

\* A form which the server has saved, and whose answer was not lost, is reported by
\* a form-success: after a close, failures, lost answers and POSTs which crossed,
\* unless a form which came back with errors took the listener of another POST.
THEOREM SavedReported == DialogSpec => []SavedIsReported
<1>1. DialogInv => SavedIsReported
  BY DEF DialogInv, Listened, SavedIsReported
<1> QED  BY <1>1, DialogInvariant, PTL

\* The dialog never stays opened without a way to go on, whatever the number of
\* POSTs which the Enter key has sent.
THEOREM AlwaysUsable == DialogSpec => []FormUsable
<1>1. DialogInv => FormUsable
  BY DEF DialogInv, SendOrListen, FormUsable
<1> QED  BY <1>1, DialogInvariant, PTL

(* Refinement *)

LEMMA OutcomeInit == ASSUME DialogInit PROVE Outcome!Init
BY DEF DialogInit, Outcome!Init

\* Every step is one of FormOutcome, or changes nothing for it.
LEMMA OutcomeStep ==
    ASSUME DialogInv, DialogInv', [DialogNext]_dialogVars
    PROVE  [Outcome!Next]_<<outcome, count.saved > 0>>
<1> USE DEF Outcome!Next, Outcome!Start, Outcome!Accept, Outcome!Done, Outcome!Cancel
<1>0. count \in [Counts -> Nat]
  BY DEF DialogInv, DialogTypeOK, Counts
<1>1. CASE OpenPopup
  BY <1>1 DEF OpenPopup
<1>2. CASE Close
  <2>1. count'.saved = count.saved
    BY <1>2, AddCount DEF DialogInv, Close, Counts
  <2> QED  BY <2>1, <1>2 DEF Close
<1>3. CASE Submit
  <2>1. count'.saved = count.saved
    BY <1>3, AddCount DEF DialogInv, Submit, Counts
  <2> QED  BY <2>1, <1>3 DEF Submit
<1>4. CASE FetchDone
  BY <1>4 DEF FetchDone
<1>5. CASE FetchFail
  <2>1. count'.saved = count.saved
    BY <1>5, AddCount DEF DialogInv, FetchFail, Counts
  <2> QED  BY <2>1, <1>5 DEF FetchFail
<1>6. ASSUME NEW p \in posts, ServePost(p)
      PROVE  [Outcome!Next]_<<outcome, count.saved > 0>>
  <2>1. outcome' = outcome /\ outcome # "idle"
    BY <1>6 DEF DialogInv, NothingBefore, ServePost
  <2>2. count'.saved = count.saved \/ count'.saved > 0
    BY <1>0, <1>6 DEF ServePost, Counts
  <2> QED  BY <2>1, <2>2
<1>7. ASSUME NEW p \in posts, PostSaved(p)
      PROVE  [Outcome!Next]_<<outcome, count.saved > 0>>
  <2>1. count.saved > 0
    BY <1>7 DEF DialogInv, AnswersTrue, PostSaved
  <2>2. bound["done"] \in Nat
    BY DEF DialogInv, DialogTypeOK
  <2>3. count'.saved = count.saved
    BY <2>2, <1>7, AddCount DEF DialogInv, PostSaved, Counts
  <2>4. outcome' = outcome \/ (outcome = "run" /\ outcome' = "done")
    BY <1>7 DEF PostSaved
  <2> QED  BY <2>1, <2>3, <2>4
<1>8. ASSUME NEW p \in posts, PostInvalid(p) \/ PostFailed(p)
      PROVE  [Outcome!Next]_<<outcome, count.saved > 0>>
  BY <1>8 DEF PostInvalid, PostFailed
<1>9. CASE UNCHANGED dialogVars
  BY <1>9 DEF dialogVars
<1> QED
  BY <1>1, <1>2, <1>3, <1>4, <1>5, <1>6, <1>7, <1>8, <1>9
  DEF DialogNext, DialogAnswers, ClickSend, PressEnter

\* The dialog, its frame, its listeners and the action implement FormOutcome: one
\* end, "done" only for a form which the server has saved.
THEOREM OutcomeImplemented == DialogSpec => ImplementsFormOutcome
<1>1. DialogInit => Outcome!Init
  BY OutcomeInit
<1>2. DialogInv /\ DialogInv' /\ [DialogNext]_dialogVars
        => [Outcome!Next]_<<outcome, count.saved > 0>>
  BY OutcomeStep
<1> QED
  BY <1>1, <1>2, DialogInvariant, PTL DEF DialogSpec, ImplementsFormOutcome, Outcome!Spec
=============================================================================
