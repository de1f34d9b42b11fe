------------------------------ MODULE EvalSuite ------------------------------
(***************************************************************************)
(* `j-rig suite' (cli/src/commands/suite.ts): plan the samples every cell  *)
(* still needs, run and grade them one by one, and keep an audit manifest  *)
(* that a later invocation resumes.  Each process is one invocation at a   *)
(* time; processes share the database and perhaps the output directory.    *)
(***************************************************************************)
EXTENDS Sampling, RawRunLedger, TLC

CONSTANTS Cell,          \* Task x Config x Model cells
          Process,       \* OS processes that run `j-rig suite'
          Dir,           \* output directories
          MaxSnapshot,   \* bound: how many editions the grader file has
          MaxFailures,   \* bound: harness executions that fail
          MaxThrows,     \* bound: exceptions inside a job
          World          \* the settings to consider

ThrowPlace == {"create", "start", "harness", "grade", "judge"}

(* A setting: the cells of the manifest in order, its target_n, the output *)
(* directory of each process that takes part, whether --regrade is given,  *)
(* how often the grader file may change, where exceptions may occur, and   *)
(* how many processes may die (a bound).                                   *)
IsWorld(w) ==
    /\ w.cells \in Seq(Cell) /\ Len(w.cells) > 0 /\ IsInjective(w.cells)
    /\ w.target \in Nat \ {0}
    /\ w.dir \in UNION {[P -> Dir] : P \in SUBSET Process \ {{}}}
    /\ w.regrade \in BOOLEAN
    /\ w.snapshots \in 1..MaxSnapshot
    /\ w.throws \subseteq ThrowPlace
    /\ w.kills \in Nat

ASSUME SuiteAssumption ==
    /\ MaxSnapshot \in Nat \ {0} /\ MaxFailures \in Nat /\ MaxThrows \in Nat
    /\ \A w \in World : IsWorld(w)

\* The largest index a plan can reach: a failed harness uses an index up, and
\* an exception before the row is created leaves a hole below.
MaxIndex == Max({w.target : w \in World}) + MaxFailures + MaxThrows - 1

Snapshot == 1..MaxSnapshot
Sample == [cell : Cell, index : 0..MaxIndex]

JobStatus == {"planned", "running", "completed", "runner_error", "timed_out", "failed"}
Ungraded == 0
Job == [sample : Sample, status : JobStatus, grade : Snapshot \cup {Ungraded}]

Absent == "absent"

VARIABLES
    world,     \* the setting, never changed
    grader,    \* edition of the grader file
    row,       \* per sample, the status of its raw run, or "absent"
    grades,    \* per sample, the grader snapshots it was graded with
    manifest,  \* per directory, the jobs of manifest.json; none without a file
    report,    \* per directory, report.json: its runs, and those graded
    pc,        \* per process, the place in runSuite
    jobs,      \* per process, audit.jobs in memory
    queue,     \* per process, positions of the jobs of this wave still to run
    wave,      \* per process, "recovery" or "topup"
    plan,      \* per process, the last plan read
    snapshot,  \* per process, the grader definition being graded with
    exit,      \* per process, its last exit code, "1" if killed; "none" while it runs
    failures, throws, kills   \* counters for the bounds

database == <<row, grades>>
disk == <<manifest, report>>
memory == <<jobs, queue, wave, plan, snapshot>>
bounds == <<failures, throws, kills>>
vars == <<world, grader, row, grades, manifest, report, pc, jobs, queue, wave, plan,
          snapshot, exit, failures, throws, kills>>

Init ==
    /\ world \in World
    /\ grader = 1
    /\ row = [s \in Sample |-> Absent] /\ grades = [s \in Sample |-> {}]
    /\ manifest = [d \in Dir |-> <<>>]
    /\ report = [d \in Dir |-> [runs |-> {}, graded |-> {}]]
    /\ pc = [p \in Process |-> "idle"] /\ exit = [p \in Process |-> "none"]
    /\ jobs = [p \in Process |-> <<>>] /\ queue = [p \in Process |-> <<>>]
    /\ wave = [p \in Process |-> "recovery"] /\ plan = [p \in Process |-> <<>>]
    /\ snapshot = [p \in Process |-> 1]
    /\ failures = 0 /\ throws = 0 /\ kills = 0

-----------------------------------------------------------------------------
(* Jobs. *)

Positions(list, Test(_)) ==
    Filter([i \in DOMAIN list |-> i], {i \in DOMAIN list : Test(list[i])})

SamplesOf(list) == {list[i].sample : i \in DOMAIN list}

\* Mutant: a job that was running when the process died is not recovered.
NeedsRecoveryPlanned(job) == job.status = "planned"

NeedsRecovery(job) ==
    \/ job.status \in {"planned", "running"}
    \/ job.status = "completed" /\ job.grade = Ungraded

\* The jobs of the plan that the audit does not have yet.
NewJobs(list, planned) ==
    LET fresh == Filter(planned, {k \in DOMAIN planned : planned[k] \notin SamplesOf(list)})
    IN  [k \in 1..Len(fresh) |->
            [sample |-> fresh[k], status |-> "planned", grade |-> Ungraded]]

\* A failed job whose sample is planned again is planned again.
Revived(list, planned) ==
    [i \in DOMAIN list |->
        IF list[i].status = "failed" /\ list[i].sample \in Range(planned)
        THEN [list[i] EXCEPT !.status = "planned"] ELSE list[i]]

AddPlannedJobs(list, planned) == Revived(list, planned) \o NewJobs(list, planned)

\* The positions in the list `all' that addPlannedJobs returns, in the order
\* of the plan.
AddedJobs(all, planned) ==
    LET at(s) == CHOOSE i \in DOMAIN all : all[i].sample = s
        due == Filter(planned, {k \in DOMAIN planned :
                                    all[at(planned[k])].status \in {"planned", "running"}})
    IN  [k \in 1..Len(due) |-> at(due[k])]

ReadPlan == PlanBalancedSamples(row, world.cells, world.target)

At(p, place) == pc[p] = place
Goto(p, place) == pc' = [pc EXCEPT ![p] = place]

Current(p) == Head(queue[p])
CurrentSample(p) == jobs[p][Current(p)].sample

\* The current job of p in memory gets a status and a grade.
SetJob(p, status, grade) ==
    jobs' = [jobs EXCEPT ![p][Current(p)].status = status, ![p][Current(p)].grade = grade]

-----------------------------------------------------------------------------
(* runSuite, from the start of a process to its exit. *)

Launch(p) ==
    /\ At(p, "idle")
    /\ Goto(p, "plan")
    /\ exit' = [exit EXCEPT ![p] = "none"]
    /\ UNCHANGED <<world, grader, database, disk, memory, bounds>>

PlanFirst(p) ==
    /\ At(p, "plan")
    /\ plan' = [plan EXCEPT ![p] = ReadPlan]
    /\ Goto(p, "open")
    /\ UNCHANGED <<world, grader, database, disk, jobs, queue, wave, snapshot, exit, bounds>>

(* The manifest of an earlier invocation, or a fresh audit; an audit       *)
(* without jobs takes those of the plan.  Then the jobs to recover.        *)
OpenAudit(p) ==
    LET found == manifest[world.dir[p]]
        list == IF found = <<>> THEN AddPlannedJobs(<<>>, plan[p]) ELSE found
    IN  /\ At(p, "open")
        /\ jobs' = [jobs EXCEPT ![p] = list]
        /\ queue' = [queue EXCEPT ![p] = Positions(list, NeedsRecovery)]
        /\ wave' = [wave EXCEPT ![p] = "recovery"]
        /\ plan' = [plan EXCEPT ![p] = <<>>]
        /\ Goto(p, "next")
        /\ UNCHANGED <<world, grader, database, disk, snapshot, exit, bounds>>

(* executeJob begins: the manifest says "running" before anything happens. *)
BeginJob(p) ==
    /\ At(p, "next") /\ queue[p] # <<>>
    /\ jobs' = [jobs EXCEPT ![p][Current(p)].status = "running"]
    /\ manifest' = [manifest EXCEPT ![world.dir[p]] = jobs'[p]]
    /\ Goto(p, "create")
    /\ UNCHANGED <<world, grader, database, report, queue, wave, plan, snapshot, exit, bounds>>

\* What executeJob makes of the raw run it got back, sealed now or before.
TakeOutcome(p, status) ==
    IF status = "completed"
    THEN Goto(p, "grade") /\ UNCHANGED jobs
    ELSE Goto(p, "write") /\ SetJob(p, status, Ungraded)

\* Mutant: a run that is already sealed is taken for graded.
CreateReusedIsGraded(p) ==
    LET s == CurrentSample(p) IN
    /\ At(p, "create")
    /\ s \in Sample
    /\ row' = CreateRawRun(row, s)
    /\ IF IsRawRunSealed(row[s]) THEN Goto(p, "write") /\ SetJob(p, row[s], grader)
                                 ELSE Goto(p, "start") /\ UNCHANGED jobs
    /\ UNCHANGED <<world, grader, grades, disk, queue, wave, plan, snapshot, exit, bounds>>

(* runGenericEval creates the row; a sealed one is reused as it is.        *)
Create(p) ==
    LET s == CurrentSample(p) IN
    /\ At(p, "create")
    /\ s \in Sample  \* bound: no index above MaxIndex
    /\ row' = CreateRawRun(row, s)
    /\ IF IsRawRunSealed(row[s]) THEN TakeOutcome(p, row[s])
                                 ELSE Goto(p, "start") /\ UNCHANGED jobs
    /\ UNCHANGED <<world, grader, grades, disk, queue, wave, plan, snapshot, exit, bounds>>

\* Whatever throws in executeJob makes the job "failed"; its grade stays.
FailJob(p) ==
    /\ Goto(p, "write")
    /\ jobs' = [jobs EXCEPT ![p][Current(p)].status = "failed"]

(* startRawRun looks, and marks a pending row in a second statement.       *)
Start(p) ==
    LET s == CurrentSample(p) IN
    /\ At(p, "start")
    /\ IF StartRawRun(row, s)
       THEN Goto(p, IF row[s] = "pending" THEN "mark" ELSE "harness") /\ UNCHANGED jobs
       ELSE FailJob(p)
    /\ UNCHANGED <<world, grader, database, disk, queue, wave, plan, snapshot, exit, bounds>>

Mark(p) ==
    /\ At(p, "mark")
    /\ row' = MarkRunning(row, CurrentSample(p))
    /\ Goto(p, "harness")
    /\ UNCHANGED <<world, grader, grades, disk, memory, exit, bounds>>

(* The harness ran; its result is sealed unless another process was first. *)
Seal(p, result) ==
    LET s == CurrentSample(p) IN
    /\ At(p, "harness")
    /\ failures' = failures + (IF result = "completed" THEN 0 ELSE 1)
    /\ failures' <= MaxFailures
    /\ IF SealRawRun(row, s)
       THEN row' = [row EXCEPT ![s] = result] /\ TakeOutcome(p, result)
       ELSE UNCHANGED row /\ FailJob(p)
    /\ UNCHANGED <<world, grader, grades, disk, queue, wave, plan, snapshot, exit, throws, kills>>

\* Mutant: grades of another snapshot are not looked at.
PolicyForbidsNothing(p, s) == FALSE

\* A grade by another snapshot of the grader stands in the way of --regrade unset.
PolicyForbids(p, s) == grades[s] # {} /\ ~world.regrade

(* runGrade loads the grader file again; the grades already there decide   *)
(* before the judge is asked.                                              *)
CheckGrades(p) ==
    LET s == CurrentSample(p) IN
    /\ At(p, "grade")
    /\ snapshot' = [snapshot EXCEPT ![p] = grader]
    /\ IF Gradable(row, s) /\ grader \in grades[s]
       THEN Goto(p, "write") /\ SetJob(p, "completed", grader)
       ELSE IF ~Gradable(row, s) \/ PolicyForbids(p, s)
       THEN FailJob(p)
       ELSE Goto(p, "judge") /\ UNCHANGED jobs
    /\ UNCHANGED <<world, grader, database, disk, queue, wave, plan, exit, bounds>>

(* The judge answered: the Grade is stored, unless it is there by now.     *)
StoreGrade(p) ==
    LET s == CurrentSample(p) IN
    /\ At(p, "judge")
    /\ IF Gradable(row, s)
       THEN /\ grades' = CreateGrade(grades, s, snapshot[p])
            /\ Goto(p, "write") /\ SetJob(p, "completed", snapshot[p])
       ELSE UNCHANGED grades /\ FailJob(p)
    /\ UNCHANGED <<world, grader, row, disk, queue, wave, plan, snapshot, exit, bounds>>

(* Definitions that cannot be read or differ from those of the row, a busy *)
(* database, a harness that cannot be spawned, a judge that fails.         *)
JobThrows(p) ==
    /\ pc[p] \in world.throws
    /\ throws < MaxThrows /\ throws' = throws + 1
    /\ FailJob(p)
    /\ UNCHANGED <<world, grader, database, disk, queue, wave, plan, snapshot, exit, failures,
                   kills>>

(* executeJob ends: the outcome reaches the manifest.                      *)
WriteJob(p) ==
    /\ At(p, "write")
    /\ manifest' = [manifest EXCEPT ![world.dir[p]] = jobs[p]]
    /\ queue' = [queue EXCEPT ![p] = Tail(@)]
    /\ Goto(p, "next")
    /\ UNCHANGED <<world, grader, database, report, jobs, wave, plan, snapshot, exit, bounds>>

(* The recovered jobs are done: plan again and add what is missing.        *)
TopUp(p) ==
    /\ At(p, "next") /\ queue[p] = <<>> /\ wave[p] = "recovery"
    /\ \E planned \in {ReadPlan} :
          /\ jobs' = [jobs EXCEPT ![p] = AddPlannedJobs(@, planned)]
          /\ queue' = [queue EXCEPT ![p] = AddedJobs(jobs'[p], planned)]
    /\ wave' = [wave EXCEPT ![p] = "topup"]
    /\ UNCHANGED <<world, grader, database, disk, pc, plan, snapshot, exit, bounds>>

(* The last plan tells what is still pending.                              *)
Summarise(p) ==
    /\ At(p, "next") /\ queue[p] = <<>> /\ wave[p] = "topup"
    /\ plan' = [plan EXCEPT ![p] = ReadPlan]
    /\ Goto(p, "report")
    /\ UNCHANGED <<world, grader, database, disk, jobs, queue, wave, snapshot, exit, bounds>>

Graded(list) == Filter(list, {i \in DOMAIN list : list[i].grade # Ungraded})

(* suiteReport: all runs of the audit, seen through the snapshot of the    *)
(* first graded job; no report without one.                                *)
WriteReport(p) ==
    LET graded == Graded(jobs[p])
        runs == SamplesOf(jobs[p])
    IN  /\ At(p, "report")
        /\ report' = IF graded = <<>> THEN report
                     ELSE [report EXCEPT ![world.dir[p]] =
                              [runs |-> runs,
                               graded |-> {s \in runs : graded[1].grade \in grades[s]}]]
        /\ Goto(p, "close")
        /\ UNCHANGED <<world, grader, database, manifest, memory, exit, bounds>>

\* What was in memory is gone with the process.
Forget(p) ==
    /\ jobs' = [jobs EXCEPT ![p] = <<>>] /\ queue' = [queue EXCEPT ![p] = <<>>]
    /\ plan' = [plan EXCEPT ![p] = <<>>] /\ wave' = [wave EXCEPT ![p] = "recovery"]
    /\ snapshot' = [snapshot EXCEPT ![p] = 1]

ExitCode(list, pending) ==
    IF pending # <<>> \/ \E i \in DOMAIN list : list[i].status = "failed" THEN "1" ELSE "0"

Close(p) ==
    /\ At(p, "close")
    /\ manifest' = [manifest EXCEPT ![world.dir[p]] = jobs[p]]
    /\ exit' = [exit EXCEPT ![p] = ExitCode(jobs[p], plan[p])]
    /\ Goto(p, "idle")
    /\ Forget(p)
    /\ UNCHANGED <<world, grader, database, report, bounds>>

(* The process is killed, or something outside executeJob throws: only the *)
(* database and the files stay.                                            *)
Kill(p) ==
    /\ ~At(p, "idle")
    /\ kills < world.kills /\ kills' = kills + 1
    /\ Goto(p, "idle")
    /\ exit' = [exit EXCEPT ![p] = "1"]
    /\ Forget(p)
    /\ UNCHANGED <<world, grader, database, disk, failures, throws>>

(* Someone edits the grader file between or during invocations.            *)
EditGrader ==
    /\ grader < world.snapshots
    /\ grader' = grader + 1
    /\ UNCHANGED <<world, database, disk, pc, memory, exit, bounds>>

Step(p) ==
    \/ PlanFirst(p) \/ OpenAudit(p) \/ BeginJob(p) \/ Create(p) \/ Start(p) \/ Mark(p)
    \/ \E result \in {"completed"} \cup HarnessFailure : Seal(p, result)
    \/ CheckGrades(p) \/ StoreGrade(p) \/ WriteJob(p) \/ TopUp(p) \/ Summarise(p)
    \/ WriteReport(p) \/ Close(p)

Next ==
    \/ \E p \in DOMAIN world.dir : Launch(p) \/ Step(p) \/ JobThrows(p) \/ Kill(p)
    \/ EditGrader

Spec == Init /\ [][Next]_vars

\* What goes on by itself: a running process, and starting again a suite that
\* did not exit 0.
Progress == \E p \in DOMAIN world.dir : Step(p) \/ (exit[p] # "0" /\ Launch(p))

FairSpec == Spec /\ WF_vars(Progress)

-----------------------------------------------------------------------------
Place == {"idle", "plan", "open", "next", "create", "start", "mark", "harness", "grade", "judge",
          "write", "report", "close"}

(* Types; in particular no plan asks for an index above MaxIndex.          *)
TypeOK ==
    /\ world \in World /\ grader \in Snapshot
    /\ row \in [Sample -> RawRunStatus \cup {Absent}]
    /\ grades \in [Sample -> SUBSET Snapshot]
    /\ \A d \in Dir : manifest[d] \in Seq(Job) /\ report[d].graded \subseteq report[d].runs
    /\ \A p \in Process :
          /\ pc[p] \in Place /\ wave[p] \in {"recovery", "topup"}
          /\ jobs[p] \in Seq(Job) /\ plan[p] \in Seq(Sample)
          /\ \A i \in DOMAIN queue[p] : queue[p][i] \in DOMAIN jobs[p]
          /\ snapshot[p] \in Snapshot /\ exit[p] \in {"none", "0", "1"}

Alone == \E p \in Process : DOMAIN world.dir = {p}

(* 036 "each planned/attempted raw Run id": a job the manifest calls       *)
(* completed has a completed run and the very Grade it names, whenever the *)
(* process died and whoever else wrote the manifest.                       *)
CompletedIsGraded ==
    \A d \in Dir : \A i \in DOMAIN manifest[d] :
        LET job == manifest[d][i] IN
        job.status = "completed" => /\ row[job.sample] = "completed"
                                    /\ job.grade \in grades[job.sample]

(* sampling/substrate.ts: a cell never gets more samples, completed or in  *)
(* flight, than the target, although each process plans from what it read  *)
(* earlier and another one may have filled the cell since.  Two processes  *)
(* keep to it as long as every job gets as far as its row: when the first  *)
(* job of one throws before that, its second leaves a gap, its next plan   *)
(* goes on above, and the other process still fills the gap.               *)
NeverOversampled ==
    Alone \/ "create" \notin world.throws =>
        \A c \in Cell : CompletedCount(row, c) + ActiveCount(row, c) <= world.target

(* suite.ts exit code: a suite that has its database for itself and exits  *)
(* 0 has a completed sample for every slot of every cell, each graded, and *)
(* its report counts them all unless the grader changed on the way.        *)
ExitZeroMeansDone ==
    Alone => \A p \in DOMAIN world.dir : exit[p] = "0" =>
        /\ \A k \in DOMAIN world.cells : CompletedCount(row, world.cells[k]) = world.target
        /\ \A s \in Sample : row[s] = "completed" =>
              /\ grades[s] # {}
              /\ world.snapshots = 1 => s \in report[world.dir[p]].graded

(* grade.ts --regrade: without the option a suite that has its database    *)
(* for itself never grades a run by two snapshots of the grader.           *)
RegradeIsAsked ==
    Alone /\ ~world.regrade => \A s \in Sample : Cardinality(grades[s]) <= 1

OutcomeOf(status) ==
    IF status = Absent THEN "none"
    ELSE IF status \in Reserved THEN "open"
    ELSE IF status = "completed" THEN "completed" ELSE "failed"

Outcome == [s \in Sample |-> OutcomeOf(row[s])]

Ledger == INSTANCE SampleLedger WITH
    Samples <- Sample, Snapshots <- Snapshot, outcome <- Outcome, graded <- grades

(* raw-runs.ts "seal a running row exactly once", grades.ts "never updates *)
(* the old one": whatever the processes do, the database implements the    *)
(* ledger.                                                                 *)
ImplementsLedger == Ledger!Spec

(* 036 "allowing target N to be reached": a suite that nothing throws in   *)
(* and whose grader file stays as it is reaches exit 0 if it is started    *)
(* again and again, whatever was killed or failed in the harness before.   *)
Quiet == Alone /\ world.throws = {} /\ world.snapshots = 1
SuiteFinishes == Quiet => <>(\E p \in DOMAIN world.dir : exit[p] = "0")

(* batch.ts:24 "which grades every run", CHANGELOG.md:180 "also grades     *)
(* every run": a completed run is graded sooner or later.                  *)
EveryRunIsGraded == \A s \in Sample : row[s] = "completed" ~> grades[s] # {}
=============================================================================
