---------------------------- MODULE RawRunLedger ----------------------------
(***************************************************************************)
(* db/src/raw-runs.ts and grades.ts: the statements a command runs on the  *)
(* raw run of one sample, each atomic in SQLite, and the Grades over it.   *)
(***************************************************************************)
EXTENDS Integers, FiniteSets

RawRunStatus == {"pending", "running", "completed", "runner_error", "timed_out"}

IsRawRunSealed(status) == status \in {"completed", "runner_error", "timed_out"}

\* The insert leaves an existing row alone.
CreateRawRun(row, sample) ==
    [row EXCEPT ![sample] = IF @ = "absent" THEN "pending" ELSE @]

\* Mutant: only a pending row starts.
StartRawRunOnce(row, sample) == row[sample] = "pending"

\* startRawRun returns at once for a running row and throws for a sealed one.
StartRawRun(row, sample) == ~IsRawRunSealed(row[sample])

\* UPDATE ... WHERE status = 'pending'; nothing looks at how many rows changed.
MarkRunning(row, sample) ==
    [row EXCEPT ![sample] = IF @ = "pending" THEN "running" ELSE @]

\* Mutant: whoever comes last seals.
SealRawRunAnyway(row, sample) == row[sample] # "absent"

\* sealRawRun throws unless the row is running when its transaction commits.
SealRawRun(row, sample) == row[sample] = "running"

\* createGrade and runGrade refuse any other run.
Gradable(row, sample) == row[sample] = "completed"

\* Grades are only ever added, once per snapshot.
CreateGrade(grades, sample, snapshot) ==
    [grades EXCEPT ![sample] = @ \cup {snapshot}]
=============================================================================
