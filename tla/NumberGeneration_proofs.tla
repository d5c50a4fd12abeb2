------------------------ MODULE NumberGeneration_proofs ------------------------
(***************************************************************************)
(* Proofs about NumberGeneration, for any documents, requests and periods. *)
(***************************************************************************)
EXTENDS NumberGeneration, TLAPS

\* A number which a row, or a row used since, cannot give again.
Before(n, i) == n.period < i.period \/ (n.period = i.period /\ n.k < i.counter)

\* No copy of the row is ahead of the clock.
Clocked ==
    /\ item.period <= today
    /\ \A c \in Creators : cache[c].item.period <= today
    /\ tx # Idle => tx.day \in 1..today /\ tx.base.period <= tx.day

\* As long as no former copy was written over the row, it is ahead of all the
\* numbers which were given.
RowAhead ==
    ~overwritten => \A d \in Docs : number[d] # None => Before(number[d], item)

NumbersInv == NumbersTypeOK /\ Clocked /\ RowAhead /\ DistinctUnlessOverwritten

\* A row which is not behind another one has left behind the same numbers.
LEMMA BeforeLater ==
    ASSUME NEW n \in Numbers, NEW i \in Items, NEW j \in Items,
           Before(n, i), ~Behind(j, i)
    PROVE  Before(n, j)
BY DEF Before, Behind, Numbers, Items

\* What a row gives on a day, when it is not ahead of this day: a number which
\* differs from those before the row, and a row after this number.
LEMMA NumberGiven ==
    ASSUME NEW i \in Items, NEW day \in Nat \ {0}, i.period <= day
    PROVE  /\ NumberOf(i, day) \in Numbers /\ RowAfter(i, day) \in Items
           /\ NumberOf(i, day) # None
           /\ RowAfter(i, day).period = day
           /\ Before(NumberOf(i, day), RowAfter(i, day))
           /\ \A n \in Numbers : Before(n, i) =>
                n # NumberOf(i, day) /\ Before(n, RowAfter(i, day))
<1>1. Counter(i, day) \in Nat
  BY DEF Counter, Items
<1>2. i.period = day => Counter(i, day) = i.counter
  BY DEF Counter
<1> QED
  BY <1>1, <1>2 DEF NumberOf, RowAfter, Before, Numbers, Items, None

LEMMA NumbersInvInit == ASSUME NumbersInit PROVE NumbersInv
<1>1. None \in Numbers /\ Unused \in Items /\ Unused.period = 0
  BY DEF None, Numbers, Unused, Items
<1>2. NumbersTypeOK
  <2>1. cache \in [Creators -> [loaded : BOOLEAN, item : Items]]
    BY <1>1 DEF NumbersInit
  <2>2. tx \in Transactions \cup {Idle}
    BY DEF NumbersInit
  <2>3. number \in [Docs -> Numbers] /\ item \in Items
    BY <1>1 DEF NumbersInit
  <2>4. button \in [Buttons -> {"idle", "free", "numbered", "end"}]
    BY DEF NumbersInit
  <2>5. today \in Nat \ {0} /\ rollbacks \in Nat
    BY DEF NumbersInit
  <2>6. overwritten \in BOOLEAN
    BY Zenon DEF NumbersInit
  <2> QED  BY <2>1, <2>2, <2>3, <2>4, <2>5, <2>6 DEF NumbersTypeOK
<1>3. Clocked
  BY <1>1 DEF NumbersInit, Clocked
<1>4. \A d \in Docs : number[d] = None
  BY DEF NumbersInit
<1>5. RowAhead /\ DistinctUnlessOverwritten
  BY <1>4 DEF RowAhead, DistinctUnlessOverwritten, NumbersDistinct
<1> QED  BY <1>2, <1>3, <1>5 DEF NumbersInv

\* The types of what a transaction begins with.
LEMMA TransactionType ==
    ASSUME NEW who \in Buttons \cup Creators, NEW d \in Docs, NEW i \in Items,
           today \in Nat \ {0}, i.period <= today, Perform(who, d, i)
    PROVE  /\ tx' \in Transactions /\ tx' # Idle
           /\ tx'.day \in 1..today /\ tx'.base.period <= tx'.day
<1>1. tx' \in Transactions
  BY DEF Perform, Transactions
<1>2. tx' # Idle
  BY NumbersAssumption DEF Perform, Idle
<1> QED
  BY <1>1, <1>2 DEF Perform

LEMMA ReadDocStep ==
    ASSUME NumbersInv, NEW b \in Buttons, ReadDoc(b) PROVE NumbersInv'
BY DEF NumbersInv, ReadDoc, NumbersTypeOK, Clocked, RowAhead,
    DistinctUnlessOverwritten, NumbersDistinct

LEMMA LockItemStep ==
    ASSUME NumbersInv, NEW b \in Buttons, LockItem(b) PROVE NumbersInv'
<1>0. Target[b] \in Docs /\ item \in Items /\ today \in Nat \ {0} /\ item.period <= today
  BY NumbersAssumption DEF NumbersInv, NumbersTypeOK, Clocked
<1>1. CASE button[b] = "free"
  <2>1. Perform(b, Target[b], item)
    BY <1>1 DEF LockItem
  <2>2. /\ tx' \in Transactions /\ tx' # Idle
        /\ tx'.day \in 1..today /\ tx'.base.period <= tx'.day
    BY <2>1, <1>0, TransactionType
  <2>3. NumbersTypeOK'
    BY <2>2 DEF NumbersInv, LockItem, NumbersTypeOK
  <2>4. Clocked'
    BY <2>2 DEF NumbersInv, LockItem, Clocked
  <2>5. RowAhead' /\ DistinctUnlessOverwritten'
    BY DEF NumbersInv, LockItem, RowAhead, DistinctUnlessOverwritten, NumbersDistinct
  <2> QED  BY <2>3, <2>4, <2>5 DEF NumbersInv
<1>2. CASE button[b] # "free"
  BY <1>2 DEF NumbersInv, LockItem, NumbersTypeOK, Clocked, RowAhead,
    DistinctUnlessOverwritten, NumbersDistinct
<1> QED  BY <1>1, <1>2

LEMMA LoadItemStep ==
    ASSUME NumbersInv, NEW c \in Creators, LoadItem(c) PROVE NumbersInv'
<1>1. NumbersTypeOK'
  BY DEF NumbersInv, LoadItem, NumbersTypeOK
<1>2. Clocked'
  BY DEF NumbersInv, LoadItem, NumbersTypeOK, Clocked
<1>3. RowAhead' /\ DistinctUnlessOverwritten'
  BY DEF NumbersInv, LoadItem, RowAhead, DistinctUnlessOverwritten, NumbersDistinct
<1> QED  BY <1>1, <1>2, <1>3 DEF NumbersInv

LEMMA SaveItemStep ==
    ASSUME NumbersInv, NEW c \in Creators, NEW d \in Creates[c], SaveItem(c, d)
    PROVE  NumbersInv'
<1> DEFINE i == cache[c].item
<1>0. d \in Docs /\ i \in Items /\ today \in Nat \ {0} /\ i.period <= today
  BY NumbersAssumption DEF NumbersInv, NumbersTypeOK, Clocked
<1>1. Perform(c, d, i)
  BY DEF SaveItem
<1>2. /\ tx' \in Transactions /\ tx' # Idle
      /\ tx'.day \in 1..today /\ tx'.base.period <= tx'.day
  BY <1>0, <1>1, TransactionType
<1>3. RowAfter(i, today) \in Items /\ RowAfter(i, today).period = today
  BY <1>0, NumberGiven
<1>4. /\ cache' \in [Creators -> [loaded : BOOLEAN, item : Items]]
      /\ \A k \in Creators : cache'[k].item = IF k = c THEN RowAfter(i, today) ELSE cache[k].item
  BY <1>3 DEF NumbersInv, NumbersTypeOK, SaveItem
<1>5. NumbersTypeOK'
  BY <1>2, <1>4 DEF NumbersInv, NumbersTypeOK, SaveItem
<1>6. Clocked'
  BY <1>0, <1>2, <1>3, <1>4 DEF NumbersInv, Clocked, SaveItem
<1>7. RowAhead' /\ DistinctUnlessOverwritten'
  BY DEF NumbersInv, SaveItem, RowAhead, DistinctUnlessOverwritten, NumbersDistinct
<1> QED  BY <1>5, <1>6, <1>7 DEF NumbersInv

LEMMA CommitNumberStep == ASSUME NumbersInv, CommitNumber PROVE NumbersInv'
<1> DEFINE new == NumberOf(tx.base, tx.day)
           row == RowAfter(tx.base, tx.day)
<1>0. /\ tx \in Transactions /\ tx.doc \in Docs /\ tx.base \in Items
      /\ tx.day \in Nat \ {0} /\ tx.base.period <= tx.day /\ tx.day <= today
  BY DEF NumbersInv, NumbersTypeOK, Clocked, CommitNumber, Transactions
<1>1. /\ new \in Numbers /\ row \in Items /\ new # None /\ row.period = tx.day
      /\ Before(new, row)
      /\ \A n \in Numbers : Before(n, tx.base) => n # new /\ Before(n, row)
  BY <1>0, NumberGiven
<1>2. /\ number \in [Docs -> Numbers] /\ item \in Items /\ item' = row
      /\ number' = [number EXCEPT ![tx.doc] = new] /\ tx' = Idle
      /\ overwritten \in BOOLEAN /\ overwritten' = (overwritten \/ Behind(tx.base, item))
  BY DEF NumbersInv, NumbersTypeOK, CommitNumber
<1>3. NumbersTypeOK'
  <2>1. overwritten' \in BOOLEAN
    BY <1>2
  <2>2. number' \in [Docs -> Numbers]
    BY <1>1, <1>2
  <2> QED  BY <2>1, <2>2, <1>1, <1>2 DEF NumbersInv, NumbersTypeOK, CommitNumber
<1>4. Clocked'
  BY <1>0, <1>1, <1>2 DEF NumbersInv, Clocked, CommitNumber
<1>5. ASSUME ~overwritten'
      PROVE  \A d \in Docs : number[d] # None => number[d] # new /\ Before(number[d], row)
  <2>1. ~overwritten /\ ~Behind(tx.base, item)
    BY <1>2, <1>5
  <2>2. SUFFICES ASSUME NEW d \in Docs, number[d] # None
                 PROVE  number[d] # new /\ Before(number[d], row)
    OBVIOUS
  <2>3. number[d] \in Numbers /\ Before(number[d], item)
    BY <2>1, <2>2, <1>2 DEF NumbersInv, RowAhead
  <2>4. Before(number[d], tx.base)
    BY <2>1, <2>3, <1>0, <1>2, BeforeLater
  <2> QED  BY <2>3, <2>4, <1>1
<1>6. RowAhead'
  <2>1. SUFFICES ASSUME ~overwritten', NEW d \in Docs, number'[d] # None
                 PROVE  Before(number'[d], row)
    BY <1>2 DEF RowAhead
  <2>2. CASE d = tx.doc
    BY <2>2, <1>0, <1>1, <1>2
  <2>3. CASE d # tx.doc
    BY <2>1, <2>3, <1>2, <1>5
  <2> QED  BY <2>2, <2>3
<1>7. DistinctUnlessOverwritten'
  <2>1. SUFFICES ASSUME ~overwritten', NEW d \in Docs, NEW e \in Docs,
                        d # e, number'[d] # None
                 PROVE  number'[d] # number'[e]
    BY DEF DistinctUnlessOverwritten, NumbersDistinct
  <2>2. ~overwritten /\ NumbersDistinct
    BY <2>1, <1>2 DEF NumbersInv, DistinctUnlessOverwritten
  <2>3. CASE d = tx.doc
    BY <2>1, <2>3, <1>1, <1>2, <1>5
  <2>4. CASE e = tx.doc
    BY <2>1, <2>4, <1>1, <1>2, <1>5
  <2>5. CASE d # tx.doc /\ e # tx.doc
    BY <2>1, <2>2, <2>5, <1>2 DEF NumbersDistinct
  <2> QED  BY <2>3, <2>4, <2>5
<1> QED  BY <1>3, <1>4, <1>6, <1>7 DEF NumbersInv

LEMMA RollbackStep == ASSUME NumbersInv, Rollback PROVE NumbersInv'
BY DEF NumbersInv, Rollback, NumbersTypeOK, Clocked, RowAhead,
    DistinctUnlessOverwritten, NumbersDistinct

LEMMA NewPeriodStep == ASSUME NumbersInv, NewPeriod PROVE NumbersInv'
<1>1. NumbersTypeOK'
  BY DEF NumbersInv, NewPeriod, NumbersTypeOK
<1>2. Clocked'
  <2>1. tx # Idle => tx \in Transactions
    BY DEF NumbersInv, NumbersTypeOK
  <2> QED  BY <2>1 DEF NumbersInv, NewPeriod, NumbersTypeOK, Clocked, Items, Transactions
<1>3. RowAhead' /\ DistinctUnlessOverwritten'
  BY DEF NumbersInv, NewPeriod, RowAhead, DistinctUnlessOverwritten, NumbersDistinct
<1> QED  BY <1>1, <1>2, <1>3 DEF NumbersInv

LEMMA NumbersStutter == ASSUME NumbersInv, UNCHANGED numberVars PROVE NumbersInv'
BY DEF NumbersInv, numberVars, NumbersTypeOK, Clocked, RowAhead,
    DistinctUnlessOverwritten, NumbersDistinct

LEMMA NumbersInvStep == ASSUME NumbersInv, [NumbersNext]_numberVars PROVE NumbersInv'
<1>1. ASSUME NEW b \in Buttons, ReadDoc(b) \/ LockItem(b) PROVE NumbersInv'
  BY <1>1, ReadDocStep, LockItemStep
<1>2. ASSUME NEW c \in Creators, LoadItem(c) PROVE NumbersInv'
  BY <1>2, LoadItemStep
<1>3. ASSUME NEW c \in Creators, NEW d \in Creates[c], SaveItem(c, d) PROVE NumbersInv'
  BY <1>3, SaveItemStep
<1>4. CASE CommitNumber \/ Rollback \/ NewPeriod
  BY <1>4, CommitNumberStep, RollbackStep, NewPeriodStep
<1>5. CASE UNCHANGED numberVars
  BY <1>5, NumbersStutter
<1> QED  BY <1>1, <1>2, <1>3, <1>4, <1>5 DEF NumbersNext

\* The inductive invariant of the numbers holds.
THEOREM RowAheadOfNumbers == NumbersSpec => []NumbersInv
<1>1. NumbersInit => NumbersInv
  BY NumbersInvInit
<1>2. NumbersInv /\ [NumbersNext]_numberVars => NumbersInv'
  BY NumbersInvStep
<1> QED  BY <1>1, <1>2, PTL DEF NumbersSpec

\* Buttons which lock the row, creators which do not, rollbacks and changes of
\* period never give a number twice, as long as no former copy of the row was
\* written over it (number_generation.py, signals.py of the billing).
THEOREM NumbersNeverTwice == NumbersSpec => []DistinctUnlessOverwritten
<1>1. NumbersInv => DistinctUnlessOverwritten
  BY DEF NumbersInv
<1> QED  BY <1>1, RowAheadOfNumbers, PTL
=============================================================================
