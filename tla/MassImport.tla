------------------------------ MODULE MassImport ------------------------------
(***************************************************************************)
(* The job of a mass import: the lines of a file, each imported in its own *)
(* transaction, with a result (MassImportJobResult) per line. A process    *)
(* which is started again skips as many lines as there are results, among  *)
(* all the lines of the file, although blank lines have no result.         *)
(*                                                                         *)
(* A second process may execute the same job: see OneShot of UserJobs.     *)
(***************************************************************************)
EXTENDS Naturals, FiniteSets

CONSTANTS
    LastLine,       \* the lines (after the header) are numbered from 1
    Blanks,         \* lines of a CSV file without any cell
    Importers,      \* bound: processes of the job
    MaxKills        \* bound: processes which die

ASSUME ImportAssumption ==
    LastLine \in Nat /\ Blanks \subseteq 1..LastLine /\ MaxKills \in Nat

Lines == 1..LastLine

VARIABLES
    importJob,      \* status of the job
    results,        \* number of MassImportJobResult
    handled,        \* for each line, number of its results
    position,       \* next line of each process, 0 if there is no process
    importKills,
    importTwins     \* history: two processes lived at the same time

importVars == <<importJob, results, handled, position, importKills, importTwins>>

ImportTypeOK ==
    /\ importJob \in {"wait", "ok", "error"}
    /\ results \in Nat /\ handled \in [Lines -> Nat]
    /\ position \in [Importers -> 0..(LastLine + 1)]
    /\ importKills \in Nat /\ importTwins \in BOOLEAN

ImportInit ==
    /\ importJob = "wait" /\ results = 0 /\ handled = [l \in Lines |-> 0]
    /\ position = [i \in Importers |-> 0]
    /\ importKills = 0 /\ importTwins = FALSE

-----------------------------------------------------------------------------
\* Mutant: the process forgets the header, and skips a line more.
SkippedOneMore == results + 1

\* Mutant: a process always begins at the first line.
SkippedNothing == 0

\* for i in range(MassImportJobResult.objects.filter(job=job).count()): next(lines)
Skipped == results

\* Mutant: the end of the file is not noticed while results are skipped.
StartImportUnchecked(i) ==
    /\ position[i] = 0 /\ importJob = "wait"
    /\ importTwins' = (importTwins \/ \E k \in Importers : position[k] > 0)
    /\ position' = [position EXCEPT ![i] = Skipped + 1]
    /\ UNCHANGED <<importJob, results, handled, importKills>>

\* There may be less lines than results: next() raises StopIteration.
StartImport(i) ==
    /\ position[i] = 0 /\ importJob = "wait"
    /\ importTwins' = (importTwins \/ \E k \in Importers : position[k] > 0)
    /\ IF Skipped <= LastLine
       THEN position' = [position EXCEPT ![i] = Skipped + 1] /\ UNCHANGED importJob
       ELSE importJob' = "error" /\ UNCHANGED position
    /\ UNCHANGED <<results, handled, importKills>>

\* filter(None, lines)
SkipBlank(i) ==
    /\ position[i] \in Blanks
    /\ position' = [position EXCEPT ![i] = @ + 1]
    /\ UNCHANGED <<importJob, results, handled, importKills, importTwins>>

\* The instance and the result are saved in the same transaction. When it fails,
\* the result is saved alone, with the errors.
ImportLine(i) ==
    /\ position[i] \in Lines \ Blanks
    /\ position' = [position EXCEPT ![i] = @ + 1]
    /\ handled' = [handled EXCEPT ![position[i]] = @ + 1]
    /\ results' = results + 1
    /\ UNCHANGED <<importJob, importKills, importTwins>>

FinishImport(i) ==
    /\ position[i] = LastLine + 1
    /\ position' = [position EXCEPT ![i] = 0]
    /\ importJob' = "ok"
    /\ UNCHANGED <<results, handled, importKills, importTwins>>

KillImport(i) ==
    /\ position[i] > 0 /\ importKills < MaxKills
    /\ position' = [position EXCEPT ![i] = 0]
    /\ importKills' = importKills + 1
    /\ UNCHANGED <<importJob, results, handled, importTwins>>

ImportNext == \E i \in Importers :
    StartImport(i) \/ SkipBlank(i) \/ ImportLine(i) \/ FinishImport(i) \/ KillImport(i)

ImportSpec == ImportInit /\ [][ImportNext]_importVars

-----------------------------------------------------------------------------
(* Properties *)

\* test_resume (test_mass_import.py): a job which is interrupted, then executed
\* again, does not import its lines again.
LineImportedOnce == ~importTwins => \A l \in Lines : handled[l] <= 1

\* What does hold, however often the process dies and is started again, as long
\* as no other process executes the job: every line which is not blank has been
\* handled when the job ends well, and a resumed job never runs out of lines.
NoLineMissed ==
    ~importTwins =>
        /\ importJob # "error"
        /\ importJob = "ok" => \A l \in Lines \ Blanks : handled[l] > 0

\* A line is only handled again because of the blank lines before it, once for
\* each of them at most.
RepeatedForBlanks ==
    ~importTwins =>
        \A l \in Lines : handled[l] <= 1 + Cardinality({b \in Blanks : b < l})
=============================================================================
