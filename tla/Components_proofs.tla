--------------------------- MODULE Components_proofs ---------------------------
(***************************************************************************)
(* The components side by side keep what each one keeps alone: a step of   *)
(* ComponentsSpec is a step of one component and leaves the others alone,  *)
(* so ComponentsSpec implements each of them, and inherits its theorems.   *)
(***************************************************************************)
EXTENDS MCComponents, Page_proofs, NumberGeneration_proofs, MassImport_proofs, BatchProcess_proofs

\* A step of the whole is one of a single part; what is not this part stutters.
LEMMA OneStep ==
    ASSUME [ComponentsNext]_allVars
    PROVE  /\ [BrickNext]_brickVars /\ [DialogNext]_dialogVars /\ [SearchNext]_searchVars
           /\ [BoxNext]_boxVars /\ [MonitorNext]_monitorVars /\ [NumbersNext]_numberVars
           /\ [ImportNext]_importVars /\ [BatchNext]_batchVars
<1>1. CASE UNCHANGED allVars
  BY <1>1 DEF allVars
<1>2. CASE ComponentsNext
  BY <1>2 DEF ComponentsNext, Only
<1> QED  BY <1>1, <1>2

\* The components do not disturb each other: a behaviour of the whole is one of each.
THEOREM EachComponentBehaves ==
    ComponentsSpec => /\ BrickSpec /\ DialogSpec /\ SearchSpec /\ BoxSpec
                      /\ MonitorSpec /\ NumbersSpec /\ ImportSpec /\ BatchSpec
<1>1. ComponentsInit => /\ BrickInit /\ DialogInit /\ SearchInit /\ BoxInit
                        /\ MonitorInit /\ NumbersInit /\ ImportInit /\ BatchInit
  BY DEF ComponentsInit
<1>2. [ComponentsNext]_allVars =>
        /\ [BrickNext]_brickVars /\ [DialogNext]_dialogVars /\ [SearchNext]_searchVars
        /\ [BoxNext]_boxVars /\ [MonitorNext]_monitorVars /\ [NumbersNext]_numberVars
        /\ [ImportNext]_importVars /\ [BatchNext]_batchVars
  BY OneStep
<1>3. ComponentsSpec => ComponentsInit /\ [][ComponentsNext]_allVars
  BY PTL DEF ComponentsSpec
<1> QED
  BY <1>1, <1>2, <1>3, PTL
  DEF BrickSpec, DialogSpec, SearchSpec, BoxSpec, MonitorSpec, NumbersSpec, ImportSpec, BatchSpec

\* The pages, the numbering, the imports and the batches keep the types of their
\* variables, for any bricks, dialogs, notifications, jobs, documents, lines and
\* entities, and whatever the number of failures.
THEOREM ComponentsTypes == ComponentsSpec => []ComponentsTypeOK
<1>1. BrickSpec => []BrickTypeOK
  <2>1. BrickInit => BrickInv
    BY BrickInvInit
  <2>2. BrickInv /\ [BrickNext]_brickVars => BrickInv'
    BY BrickInvStep
  <2>3. BrickInv => BrickTypeOK
    BY DEF BrickInv
  <2> QED  BY <2>1, <2>2, <2>3, PTL DEF BrickSpec
<1>2. SearchSpec => []SearchTypeOK
  <2>1. SearchInit => SearchInv
    BY SearchInvInit
  <2>2. SearchInv /\ [SearchNext]_searchVars => SearchInv'
    BY SearchInvStep
  <2>3. SearchInv => SearchTypeOK
    BY DEF SearchInv
  <2> QED  BY <2>1, <2>2, <2>3, PTL DEF SearchSpec
<1>3. /\ DialogInv => DialogTypeOK
      /\ NumbersInv => NumbersTypeOK
      /\ ImportInv => ImportTypeOK
      /\ BatchInv => BatchTypeOK
  BY DEF DialogInv, NumbersInv, ImportInv, BatchInv
<1> QED
  BY <1>1, <1>2, <1>3, EachComponentBehaves, DialogInvariant, BoxTypeCorrect,
     MonitorTypeCorrect, RowAheadOfNumbers, ImportInvariant, BatchInvariant, PTL
  DEF ComponentsTypeOK

\* What the run of the components checks of each of them holds of all of them side
\* by side: no step of one can break what another one promises.
THEOREM ComponentsHold ==
    ComponentsSpec =>
        /\ []NoStaleBrick /\ []LoadingHasCause
        /\ []SavedIsReported /\ []FormUsable /\ ImplementsFormOutcome
        /\ []ResultsOfLastQuery /\ []RemovedIsDiscarded /\ []FinishedIsTrue
        /\ []DistinctUnlessOverwritten
        /\ []NoLineMissed /\ []RepeatedForBlanks
        /\ []AppliedOnce /\ []NoneLeftOut
BY EachComponentBehaves, StaleBricksAreReloaded, LoadingIsWaitedFor, SavedReported, AlwaysUsable,
   OutcomeImplemented, LastQueryWins, RemovedWereDiscarded, FinishedForSure, NumbersNeverTwice,
   NoLineLeftAside, OnceWithoutBlanks, ChangedOnce, NobodyLeftOut, PTL
=============================================================================
