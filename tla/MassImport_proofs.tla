--------------------------- MODULE MassImport_proofs ---------------------------
(***************************************************************************)
(* Proofs about MassImport, for files of any length, with any blank lines, *)
(* and any number of processes and kills.                                  *)
(***************************************************************************)
EXTENDS MassImport, FiniteSetTheorems, TLAPS

\* The number of blank lines before a line.
BlanksBefore(n) == Cardinality({b \in Blanks : b < n})

\* Without a second process, at most one process lives.
Alone == \A i, k \in Importers : position[i] > 0 /\ position[k] > 0 => i = k

\* The lines which will be skipped by the next process have been handled, and
\* the results are never more than the lines.
SkippedHandled ==
    /\ results <= LastLine
    /\ \A l \in Lines \ Blanks : l <= results => handled[l] > 0

\* A process is beyond the results, and all the lines it has passed are handled.
\* There is a result for each of them, except the blank ones.
PassedHandled == \A i \in Importers : position[i] > 0 =>
    /\ results < position[i]
    /\ results >= position[i] - 1 - BlanksBefore(position[i])
    /\ \A l \in Lines \ Blanks : l < position[i] => handled[l] > 0

\* Each time a line was handled has left a result.
ResultsLeft == \A l \in Lines : handled[l] > 0 =>
    results + 1 >= l - BlanksBefore(l) + handled[l]

ImportInv ==
    /\ ImportTypeOK
    /\ ~importTwins => Alone /\ SkippedHandled /\ PassedHandled /\ ResultsLeft
    /\ NoLineMissed /\ RepeatedForBlanks

-----------------------------------------------------------------------------
LEMMA BlanksAreLines == LastLine \in Nat /\ \A b \in Blanks : b \in Int /\ b \in 1..LastLine
BY ImportAssumption

LEMMA BlanksFinite == ASSUME NEW n \in Int PROVE IsFiniteSet({b \in Blanks : b < n})
<1>1. IsFiniteSet(1..LastLine)
  BY ImportAssumption, FS_Interval
<1>2. {b \in Blanks : b < n} \in SUBSET (1..LastLine)
  BY ImportAssumption
<1> QED  BY <1>1, <1>2, FS_Subset

LEMMA BlanksNat == ASSUME NEW n \in Int PROVE BlanksBefore(n) \in Nat
BY BlanksFinite, FS_CardinalityType DEF BlanksBefore

LEMMA BlanksNext == ASSUME NEW n \in Int PROVE
    BlanksBefore(n + 1) = BlanksBefore(n) + (IF n \in Blanks THEN 1 ELSE 0)
<1> DEFINE S(k) == {b \in Blanks : b < k}
<1>0. \A b \in Blanks : b < n + 1 <=> b < n \/ b = n
  BY BlanksAreLines
<1>1. CASE n \in Blanks
  <2>1. S(n + 1) = S(n) \cup {n}
    BY <1>0, <1>1
  <2>2. n \notin S(n)
    BY BlanksAreLines
  <2>3. IsFiniteSet(S(n))
    BY BlanksFinite
  <2>4. Cardinality(S(n) \cup {n}) = Cardinality(S(n)) + 1
    BY <2>2, <2>3, FS_AddElement
  <2> QED  BY <2>1, <2>4, <1>1 DEF BlanksBefore
<1>2. CASE n \notin Blanks
  <2>1. S(n + 1) = S(n)
    BY <1>0, <1>2
  <2> QED  BY <2>1, <1>2, BlanksNat DEF BlanksBefore
<1> QED  BY <1>1, <1>2

LEMMA ImportInvInit == ASSUME ImportInit PROVE ImportInv
<1>1. ImportTypeOK
  <2>1. importTwins \in BOOLEAN
    BY Zenon DEF ImportInit
  <2>2. /\ handled \in [Lines -> Nat] /\ position \in [Importers -> 0..(LastLine + 1)]
        /\ importJob \in {"wait", "ok", "error"} /\ results \in Nat /\ importKills \in Nat
    BY ImportAssumption DEF ImportInit
  <2> QED  BY <2>1, <2>2 DEF ImportTypeOK
<1>2. Alone /\ PassedHandled
  BY DEF ImportInit, Alone, PassedHandled
<1>3. SkippedHandled
  BY ImportAssumption DEF ImportInit, SkippedHandled, Lines
<1>4. ResultsLeft
  BY DEF ImportInit, ResultsLeft
<1>5. NoLineMissed
  BY DEF ImportInit, NoLineMissed
<1>6. RepeatedForBlanks
  <2>1. \A l \in Lines : Cardinality({b \in Blanks : b < l}) \in Nat
    BY BlanksNat DEF Lines, BlanksBefore
  <2> QED  BY <2>1 DEF ImportInit, RepeatedForBlanks
<1> QED  BY <1>1, <1>2, <1>3, <1>4, <1>5, <1>6 DEF ImportInv

-----------------------------------------------------------------------------
LEMMA StartImportStep ==
    ASSUME ImportInv, NEW i \in Importers, StartImport(i) PROVE ImportInv'
<1>0. /\ LastLine \in Nat /\ results \in Nat /\ position \in [Importers -> 0..(LastLine + 1)]
      /\ UNCHANGED <<results, handled, importKills>>
      /\ importTwins \in BOOLEAN
  BY ImportAssumption DEF ImportInv, ImportTypeOK, StartImport
<1>1. ImportTypeOK'
  <2>1. importTwins' \in BOOLEAN
    BY DEF StartImport
  <2>2. position' \in [Importers -> 0..(LastLine + 1)] /\ importJob' \in {"wait", "ok", "error"}
    BY <1>0 DEF ImportInv, ImportTypeOK, StartImport, Skipped
  <2> QED  BY <2>1, <2>2, <1>0 DEF ImportInv, ImportTypeOK
<1>2. ASSUME ~importTwins'
      PROVE  /\ ~importTwins /\ \A k \in Importers : position[k] = 0
             /\ Alone /\ SkippedHandled /\ PassedHandled /\ ResultsLeft
             /\ position' = [position EXCEPT ![i] = results + 1] /\ importJob' = importJob
  <2>1. ~importTwins /\ ~\E k \in Importers : position[k] > 0
    BY <1>2 DEF StartImport
  <2>2. SkippedHandled /\ Alone /\ PassedHandled /\ ResultsLeft
    BY <2>1 DEF ImportInv
  <2> QED  BY <2>1, <2>2, <1>0 DEF StartImport, Skipped, SkippedHandled
<1>3. ASSUME ~importTwins' PROVE Alone' /\ SkippedHandled' /\ ResultsLeft'
  BY <1>0, <1>2, <1>3 DEF Alone, SkippedHandled, ResultsLeft
<1>4. ASSUME ~importTwins' PROVE PassedHandled'
  <2>1. \A k \in Importers : position'[k] > 0 => k = i /\ position'[k] = results + 1
    BY <1>0, <1>2, <1>4
  <2>2. BlanksBefore(results + 1) \in Nat
    BY <1>0, BlanksNat
  <2>3. \A l \in Lines \ Blanks : l < results + 1 => handled[l] > 0
    BY <1>0, <1>2, <1>4 DEF SkippedHandled, Lines
  <2> QED  BY <2>1, <2>2, <2>3, <1>0 DEF PassedHandled
<1>5. NoLineMissed' /\ RepeatedForBlanks'
  BY <1>0, <1>2 DEF ImportInv, NoLineMissed, RepeatedForBlanks
<1> QED  BY <1>1, <1>3, <1>4, <1>5 DEF ImportInv

LEMMA SkipBlankStep ==
    ASSUME ImportInv, NEW i \in Importers, SkipBlank(i) PROVE ImportInv'
<1>0. /\ LastLine \in Nat /\ results \in Nat /\ position \in [Importers -> 0..(LastLine + 1)]
      /\ position[i] \in Blanks /\ position[i] \in 1..LastLine
      /\ position' = [position EXCEPT ![i] = @ + 1]
      /\ UNCHANGED <<importJob, results, handled, importKills, importTwins>>
  BY ImportAssumption DEF ImportInv, ImportTypeOK, SkipBlank
<1>1. ImportTypeOK'
  BY <1>0 DEF ImportInv, ImportTypeOK
<1>2. ASSUME ~importTwins PROVE Alone' /\ SkippedHandled' /\ ResultsLeft'
  BY <1>0, <1>2 DEF ImportInv, Alone, SkippedHandled, ResultsLeft
<1>3. ASSUME ~importTwins PROVE PassedHandled'
  <2>1. PassedHandled /\ Alone
    BY <1>3 DEF ImportInv
  <2>2. BlanksBefore(position[i] + 1) = BlanksBefore(position[i]) + 1
    BY <1>0, BlanksNext
  <2>3. BlanksBefore(position[i]) \in Nat
    BY <1>0, BlanksNat
  <2>4. \A k \in Importers : position'[k] > 0 => k = i /\ position'[k] = position[i] + 1
    BY <2>1, <1>0 DEF Alone
  <2>5. /\ results < position[i] + 1
        /\ results >= position[i] + 1 - 1 - BlanksBefore(position[i] + 1)
    BY <2>1, <2>2, <2>3, <1>0 DEF PassedHandled
  <2>6. \A l \in Lines \ Blanks : l < position[i] + 1 => handled[l] > 0
    BY <2>1, <1>0 DEF PassedHandled, Lines
  <2> SUFFICES ASSUME NEW k \in Importers, position'[k] > 0
               PROVE  /\ results < position'[k]
                      /\ results >= position'[k] - 1 - BlanksBefore(position'[k])
                      /\ \A l \in Lines \ Blanks : l < position'[k] => handled[l] > 0
    BY <1>0 DEF PassedHandled
  <2>7. position'[k] = position[i] + 1
    BY <2>4
  <2>8. /\ results < position'[k]
        /\ results >= position'[k] - 1 - BlanksBefore(position'[k])
    <3>1. BlanksBefore(position'[k]) = BlanksBefore(position[i] + 1)
      BY <2>7
    <3>2. BlanksBefore(position[i] + 1) \in Int
      BY <1>0, BlanksNat
    <3> QED  BY <2>5, <2>7, <1>0, <3>1, <3>2
  <2>9. \A l \in Lines \ Blanks : l < position'[k] => handled[l] > 0
    BY <2>6, <2>7, Zenon
  <2> QED  BY <2>8, <2>9
<1>4. NoLineMissed' /\ RepeatedForBlanks'
  BY <1>0 DEF ImportInv, NoLineMissed, RepeatedForBlanks
<1> QED  BY <1>0, <1>1, <1>2, <1>3, <1>4 DEF ImportInv

LEMMA ImportLineStep ==
    ASSUME ImportInv, NEW i \in Importers, ImportLine(i) PROVE ImportInv'
<1> DEFINE n == position[i]
<1>0. /\ LastLine \in Nat /\ results \in Nat /\ position \in [Importers -> 0..(LastLine + 1)]
      /\ n \in Lines /\ n \notin Blanks /\ n \in 1..LastLine
      /\ handled \in [Lines -> Nat]
      /\ position' = [position EXCEPT ![i] = n + 1]
      /\ handled' = [handled EXCEPT ![n] = handled[n] + 1]
      /\ results' = results + 1
      /\ UNCHANGED <<importJob, importKills, importTwins>>
  BY ImportAssumption DEF ImportInv, ImportTypeOK, ImportLine, Lines
<1>1. ImportTypeOK'
  BY <1>0 DEF ImportInv, ImportTypeOK
<1>2. BlanksBefore(n + 1) = BlanksBefore(n) /\ BlanksBefore(n) \in Nat
  BY <1>0, BlanksNext, BlanksNat
<1>3. ASSUME ~importTwins
      PROVE  /\ Alone /\ SkippedHandled /\ ResultsLeft
             /\ results < n /\ results >= n - 1 - BlanksBefore(n)
             /\ \A l \in Lines \ Blanks : l < n => handled[l] > 0
  BY <1>0, <1>3 DEF ImportInv, PassedHandled
<1>4. \A l \in Lines : handled'[l] = IF l = n THEN handled[l] + 1 ELSE handled[l]
  BY <1>0
<1>5. ASSUME ~importTwins PROVE Alone' /\ SkippedHandled'
  <2>1. Alone'
    BY <1>0, <1>3, <1>5 DEF Alone
  <2>2. results + 1 <= LastLine
    BY <1>0, <1>3, <1>5
  <2>3. \A l \in Lines \ Blanks : l <= results + 1 => handled'[l] > 0
    BY <1>0, <1>3, <1>4, <1>5 DEF Lines
  <2> QED  BY <2>1, <2>2, <2>3, <1>0 DEF SkippedHandled
<1>6. ASSUME ~importTwins PROVE PassedHandled'
  <2>1. \A k \in Importers : position'[k] > 0 => k = i /\ position'[k] = n + 1
    BY <1>0, <1>3, <1>6 DEF Alone
  <2>2. results + 1 < n + 1 /\ results + 1 >= n + 1 - 1 - BlanksBefore(n + 1)
    BY <1>0, <1>2, <1>3, <1>6
  <2>3. \A l \in Lines \ Blanks : l < n + 1 => handled'[l] > 0
    BY <1>0, <1>3, <1>4, <1>6 DEF Lines
  <2> SUFFICES ASSUME NEW k \in Importers, position'[k] > 0
               PROVE  /\ results' < position'[k]
                      /\ results' >= position'[k] - 1 - BlanksBefore(position'[k])
                      /\ \A l \in Lines \ Blanks : l < position'[k] => handled'[l] > 0
    BY DEF PassedHandled
  <2>4. position'[k] = n + 1
    BY <2>1
  <2>5. /\ results + 1 < position'[k]
        /\ results + 1 >= position'[k] - 1 - BlanksBefore(position'[k])
    <3>1. BlanksBefore(position'[k]) = BlanksBefore(n + 1)
      BY <2>4
    <3>2. BlanksBefore(n + 1) \in Int
      BY <1>0, BlanksNat
    <3> QED  BY <2>2, <2>4, <1>0, <3>1, <3>2
  <2>6. \A l \in Lines \ Blanks : l < position'[k] => handled'[l] > 0
    BY <2>3, <2>4, Zenon
  <2> QED  BY <2>5, <2>6, <1>0
<1>7. ASSUME ~importTwins
      PROVE  /\ handled[n] <= BlanksBefore(n)
             /\ results + 2 >= n - BlanksBefore(n) + handled[n] + 1
  <2>1. CASE handled[n] = 0
    BY <2>1, <1>0, <1>2, <1>3, <1>7
  <2>2. CASE handled[n] > 0
    <3>1. results + 1 >= n - BlanksBefore(n) + handled[n]
      BY <2>2, <1>0, <1>3, <1>7 DEF ResultsLeft
    <3> QED  BY <3>1, <1>0, <1>2, <1>3, <1>7
  <2> QED  BY <2>1, <2>2, <1>0
<1>8. ASSUME ~importTwins PROVE ResultsLeft'
  <2>1. SUFFICES ASSUME NEW l \in Lines, handled'[l] > 0
                 PROVE  results + 2 >= l - BlanksBefore(l) + handled'[l]
    BY <1>0 DEF ResultsLeft
  <2>2. CASE l = n
    BY <2>2, <1>0, <1>2, <1>4, <1>7, <1>8
  <2>3. CASE l # n
    <3>1. results + 1 >= l - BlanksBefore(l) + handled[l] /\ handled'[l] = handled[l]
      BY <2>1, <2>3, <1>3, <1>4, <1>8 DEF ResultsLeft
    <3>2. l \in Int /\ handled[l] \in Nat
      BY <1>0 DEF Lines
    <3>3. BlanksBefore(l) \in Nat
      BY <3>2, BlanksNat
    <3> QED  BY <3>1, <3>2, <3>3, <1>0
  <2> QED  BY <2>2, <2>3
<1>9. NoLineMissed'
  BY <1>0, <1>4 DEF ImportInv, NoLineMissed
<1>10. RepeatedForBlanks'
  <2>1. SUFFICES ASSUME ~importTwins, NEW l \in Lines
                 PROVE  handled'[l] <= 1 + BlanksBefore(l)
    BY <1>0 DEF RepeatedForBlanks, BlanksBefore
  <2>2. CASE l = n
    BY <2>1, <2>2, <1>0, <1>2, <1>4, <1>7
  <2>3. CASE l # n
    BY <2>1, <2>3, <1>4 DEF ImportInv, RepeatedForBlanks, BlanksBefore
  <2> QED  BY <2>2, <2>3
<1> QED  BY <1>0, <1>1, <1>5, <1>6, <1>8, <1>9, <1>10 DEF ImportInv

LEMMA FinishImportStep ==
    ASSUME ImportInv, NEW i \in Importers, FinishImport(i) PROVE ImportInv'
<1>0. /\ LastLine \in Nat /\ results \in Nat /\ position \in [Importers -> 0..(LastLine + 1)]
      /\ position[i] = LastLine + 1 /\ importJob' = "ok"
      /\ position' = [position EXCEPT ![i] = 0]
      /\ UNCHANGED <<results, handled, importKills, importTwins>>
  BY ImportAssumption DEF ImportInv, ImportTypeOK, FinishImport
<1>1. ImportTypeOK'
  BY <1>0 DEF ImportInv, ImportTypeOK
<1>2. ASSUME ~importTwins PROVE Alone' /\ SkippedHandled' /\ PassedHandled' /\ ResultsLeft'
  BY <1>0, <1>2 DEF ImportInv, Alone, SkippedHandled, PassedHandled, ResultsLeft
<1>3. ASSUME ~importTwins PROVE \A l \in Lines \ Blanks : handled[l] > 0
  BY <1>0, <1>3 DEF ImportInv, PassedHandled, Lines
<1>4. NoLineMissed' /\ RepeatedForBlanks'
  BY <1>0, <1>3 DEF ImportInv, NoLineMissed, RepeatedForBlanks
<1> QED  BY <1>0, <1>1, <1>2, <1>4 DEF ImportInv

LEMMA KillImportStep ==
    ASSUME ImportInv, NEW i \in Importers, KillImport(i) PROVE ImportInv'
<1>0. /\ LastLine \in Nat /\ position \in [Importers -> 0..(LastLine + 1)]
      /\ importKills' \in Nat /\ position' = [position EXCEPT ![i] = 0]
      /\ UNCHANGED <<importJob, results, handled, importTwins>>
  BY ImportAssumption DEF ImportInv, ImportTypeOK, KillImport
<1>1. ImportTypeOK'
  BY <1>0 DEF ImportInv, ImportTypeOK
<1>2. ASSUME ~importTwins PROVE Alone' /\ SkippedHandled' /\ PassedHandled' /\ ResultsLeft'
  BY <1>0, <1>2 DEF ImportInv, Alone, SkippedHandled, PassedHandled, ResultsLeft
<1>3. NoLineMissed' /\ RepeatedForBlanks'
  BY <1>0 DEF ImportInv, NoLineMissed, RepeatedForBlanks
<1> QED  BY <1>0, <1>1, <1>2, <1>3 DEF ImportInv

LEMMA ImportInvStep == ASSUME ImportInv, [ImportNext]_importVars PROVE ImportInv'
<1>1. ASSUME NEW i \in Importers,
             \/ StartImport(i) \/ SkipBlank(i) \/ ImportLine(i)
             \/ FinishImport(i) \/ KillImport(i)
      PROVE  ImportInv'
  BY <1>1, StartImportStep, SkipBlankStep, ImportLineStep, FinishImportStep, KillImportStep
<1>2. CASE UNCHANGED importVars
  BY <1>2 DEF importVars, ImportInv, ImportTypeOK, Alone, SkippedHandled, PassedHandled,
      ResultsLeft, NoLineMissed, RepeatedForBlanks
<1> QED  BY <1>1, <1>2 DEF ImportNext

-----------------------------------------------------------------------------
\* The inductive invariant of the import holds.
THEOREM ImportInvariant == ImportSpec => []ImportInv
<1>1. ImportInit => ImportInv
  BY ImportInvInit
<1>2. ImportInv /\ [ImportNext]_importVars => ImportInv'
  BY ImportInvStep
<1> QED  BY <1>1, <1>2, PTL DEF ImportSpec

\* However often a mass import is killed and resumed, no line is left aside when
\* it ends, and it never runs out of lines (process() of forms/mass_import.py).
THEOREM NoLineLeftAside == ImportSpec => []NoLineMissed
<1>1. ImportInv => NoLineMissed
  BY DEF ImportInv
<1> QED  BY <1>1, ImportInvariant, PTL

\* A line is imported once more for each blank line before it, at most: without
\* blank lines a resumed import never imports a line again.
THEOREM OnceWithoutBlanks == ImportSpec => []RepeatedForBlanks
<1>1. ImportInv => RepeatedForBlanks
  BY DEF ImportInv
<1> QED  BY <1>1, ImportInvariant, PTL
=============================================================================
