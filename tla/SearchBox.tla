------------------------------ MODULE SearchBox ------------------------------
(***************************************************************************)
(* The search box of the header: the user types, a debounced handler sends *)
(* a query, answers come in any order. Nothing is aborted: an answer is    *)
(* recognised as the last one by its timestamp, but a failure is not.      *)
(*                                                                         *)
(* Queries are numbered in the order in which they are sent, which is the  *)
(* order of their timestamps; texts in the order in which they are typed.  *)
(* Selection with the keys and navigation are left out.                    *)
(***************************************************************************)
EXTENDS Naturals, Sequences

CONSTANTS
    MaxTexts,           \* bound: changes of the input by the user
    MaxSearchFails,     \* bound: queries which fail
    MaxHides            \* bound: times the user leaves the box

ASSUME SearchAssumption == {MaxTexts, MaxSearchFails, MaxHides} \subseteq Nat

VARIABLES
    text,       \* the input: number of the text, and is it long enough?
    debounce,   \* the timer of _onInput is running
    panel,      \* the results are opened
    stamp,      \* _timestamp: the query which is waited for, 0 for null
    label,      \* the link above the results; "loading" is also the state
    items,      \* the query whose results are displayed, 0 if none
    queries,    \* function: the text of each query sent
    flying,     \* queries which are not answered
    tries,      \* number of failures and of hides
    gaveUp      \* history: since the last query was sent, the user left, the
                \* text became too short, or a query failed

searchVars ==
    <<text, debounce, panel, stamp, label, items, queries, flying, tries, gaveUp>>

Last == Len(queries)

SearchTypeOK ==
    /\ text \in [n : Nat, long : BOOLEAN]
    /\ debounce \in BOOLEAN /\ panel \in BOOLEAN /\ gaveUp \in BOOLEAN
    /\ label \in {"advanced", "loading", "results"}
    /\ queries \in Seq(Nat) /\ flying \subseteq 1..Last
    /\ stamp \in 0..Last /\ items \in 0..Last
    /\ tries \in [{"fails", "hides"} -> Nat]

SearchInit ==
    /\ text = [n |-> 0, long |-> FALSE]
    /\ debounce = FALSE /\ panel = FALSE /\ gaveUp = FALSE
    /\ label = "advanced" /\ items = 0 /\ stamp = 0
    /\ queries = <<>> /\ flying = {}
    /\ tries = [k \in {"fails", "hides"} |-> 0]

-----------------------------------------------------------------------------
(* The user *)

\* The focus opens the panel; each input starts the timer again.
Type ==
    /\ text.n < MaxTexts
    /\ \E long \in BOOLEAN : text' = [n |-> text.n + 1, long |-> long]
    /\ debounce' = TRUE
    /\ panel' = TRUE
    /\ UNCHANGED <<stamp, label, items, queries, flying, tries, gaveUp>>

\* _cancelSearch: the displayed items stay below the link.
CancelSearch == stamp' = 0 /\ label' = "advanced" /\ gaveUp' = TRUE

\* A click on the pane, or Escape when the box is not loading. The timer and
\* the queries go on.
Hide ==
    /\ panel /\ tries.hides < MaxHides
    /\ CancelSearch
    /\ panel' = FALSE
    /\ tries' = [tries EXCEPT !.hides = @ + 1]
    /\ UNCHANGED <<text, debounce, items, queries, flying>>

-----------------------------------------------------------------------------
(* Queries *)

\* Mutant: the state changes, but the former timestamp stays.
StartSearchKeepsStamp ==
    /\ queries' = Append(queries, text.n)
    /\ flying' = flying \cup {Last + 1}
    /\ stamp' = IF stamp = 0 THEN Last + 1 ELSE stamp
    /\ label' = "loading" /\ gaveUp' = FALSE

StartSearch ==
    /\ queries' = Append(queries, text.n)
    /\ flying' = flying \cup {Last + 1}
    /\ stamp' = Last + 1
    /\ label' = "loading" /\ gaveUp' = FALSE

\* The timer of _onInput fires, and reads the input as it is now.
FireInput ==
    /\ debounce
    /\ debounce' = FALSE
    /\ IF text.long THEN StartSearch ELSE CancelSearch /\ UNCHANGED <<queries, flying>>
    /\ UNCHANGED <<text, panel, items, tries>>

\* Mutant: the timestamp must be later.
AcceptedLater(q) == stamp # 0 /\ q > stamp

Accepted(q) == stamp # 0 /\ q >= stamp

\* onDone: the results of a former or cancelled query are ignored. A query may
\* find nothing: then the displayed items are removed.
SearchDone(q) ==
    /\ flying' = flying \ {q}
    /\ IF Accepted(q)
       THEN /\ label' = "results"
            /\ \E found \in BOOLEAN : items' = IF found THEN q ELSE 0
       ELSE UNCHANGED <<label, items>>
    /\ UNCHANGED <<text, debounce, panel, stamp, queries, tries, gaveUp>>

\* onFail of any query, even a former one: the box forgets that it loads.
SearchFail(q) ==
    /\ tries.fails < MaxSearchFails
    /\ tries' = [tries EXCEPT !.fails = @ + 1]
    /\ flying' = flying \ {q}
    /\ label' = "advanced" /\ gaveUp' = TRUE
    /\ UNCHANGED <<text, debounce, panel, stamp, items, queries>>

-----------------------------------------------------------------------------
SearchProgress ==
    \/ FireInput
    \/ \E q \in flying : SearchDone(q) \/ SearchFail(q)

SearchNext == Type \/ Hide \/ SearchProgress

SearchSpec == SearchInit /\ [][SearchNext]_searchVars

\* The timers fire, and queries are answered.
SearchFairSpec == SearchSpec /\ WF_searchVars(SearchProgress)

-----------------------------------------------------------------------------
(* Properties *)

\* Results are only announced for the last query sent: an answer which comes
\* after a newer query, after the user has left, or after the failure of
\* another, never takes its place, and what is displayed is never older.
ResultsOfLastQuery == label = "results" => stamp = Last /\ items \in {0, Last}

\* The box catches up with the user: when the text stops changing, it ends up
\* with the results of this text, unless the text is too short, or the user
\* left or a query failed since it was searched.
TextIsAnswered ==
    <>[](text.long /\ ~gaveUp /\ text.n > 0
            => label = "results" /\ queries[Last] = text.n)
=============================================================================
