------------------------------ MODULE EvalBatch ------------------------------
(***************************************************************************)
(* `j-rig eval-batch' (cli/src/commands/eval-batch.ts): one child `j-rig   *)
(* eval' per discovered skill, and reports and a manifest at the end.  A   *)
(* rerun with the same --batch-id works in the same output directory, so   *)
(* what an earlier attempt left there is still there.                      *)
(***************************************************************************)
EXTENDS Integers, Sequences

CONSTANTS Skills,    \* number of discovered skills
          Attempts   \* bound: how often the batch is started

ASSUME BatchAssumption == Skills \in Nat \ {0} /\ Attempts \in Nat \ {0}

VARIABLES
    attempt,     \* number of the current attempt, 0 before the first
    functional,  \* --no-functional was not given
    failFast,    \* --fail-fast was given
    entries,     \* status of each skill reached, in order
    left,        \* the loop has been left
    bundles,     \* per skill, the attempt that wrote its bundle file (0: none)
    reports,     \* the attempt that wrote report.json, .md and .html
    manifest,    \* the attempt that wrote manifest.json
    process      \* "alive", "killed" or the exit code

disk == <<bundles, reports, manifest>>
vars == <<attempt, functional, failFast, entries, left, disk, process>>

Skill == 1..Skills

Init ==
    /\ attempt = 0 /\ functional = TRUE /\ failFast = FALSE
    /\ entries = <<>> /\ left = TRUE
    /\ bundles = [s \in Skill |-> 0] /\ reports = 0 /\ manifest = 0
    /\ process = "0"

Start ==
    /\ process # "alive"
    /\ attempt < Attempts
    /\ attempt' = attempt + 1
    /\ functional' \in BOOLEAN /\ failFast' \in BOOLEAN
    /\ entries' = <<>> /\ left' = FALSE
    /\ process' = "alive"
    /\ UNCHANGED disk

Current == Len(entries) + 1

InLoop == process = "alive" /\ ~left /\ Current \in Skill

(* How a child ends: with exit code 0 it wrote its bundle exactly when it  *)
(* ran the functional layer; without that layer it never writes one.       *)
ChildMay(code, wrote) ==
    /\ code = "0" => (wrote <=> functional)
    /\ wrote => functional

RunChild(code, wrote) ==
    /\ ChildMay(code, wrote)
    /\ bundles' = IF wrote THEN [bundles EXCEPT ![Current] = attempt] ELSE bundles

ChildExit == {"0", "1", "2", "3", "signal"}

\* Mutant: an exit code of 0 is enough.
EntryStatusTrusting(code, bundle) == IF code = "0" THEN "completed" ELSE "failed"

\* The child's exit code and whether the bundle path exists afterwards.
EntryStatus(code, bundle) == IF code = "0" /\ bundle # 0 THEN "completed" ELSE "failed"

(* The child ran: the loop goes on whatever the entry's status is.         *)
EvalSkill ==
    /\ InLoop
    /\ \E code \in ChildExit, wrote \in BOOLEAN :
          /\ RunChild(code, wrote)
          /\ entries' = Append(entries, EntryStatus(code, bundles'[Current]))
    /\ UNCHANGED <<attempt, functional, failFast, left, reports, manifest, process>>

(* Anything else threw: before the child (no readable spec, no child       *)
(* process) or after it (its result cannot be written, its spec reloaded). *)
SkillThrows ==
    /\ InLoop
    /\ \/ UNCHANGED bundles
       \/ \E code \in ChildExit, wrote \in BOOLEAN : RunChild(code, wrote)
    /\ entries' = Append(entries, "failed")
    /\ left' = failFast
    /\ UNCHANGED <<attempt, functional, failFast, reports, manifest, process>>

LoopDone == process = "alive" /\ (left \/ Current \notin Skill)

WriteReports ==
    /\ LoopDone /\ reports # attempt
    /\ reports' = attempt
    /\ UNCHANGED <<attempt, functional, failFast, entries, left, bundles, manifest, process>>

AllCompleted == \A k \in DOMAIN entries : entries[k] = "completed"

\* Mutant: the manifest does not wait for the reports it points to.
WriteManifestEarly ==
    /\ LoopDone
    /\ manifest' = attempt
    /\ process' = IF AllCompleted THEN "0" ELSE "1"
    /\ UNCHANGED <<attempt, functional, failFast, entries, left, bundles, reports>>

(* The manifest comes last; the exit code says whether an entry failed.    *)
WriteManifest ==
    /\ LoopDone /\ reports = attempt
    /\ manifest' = attempt
    /\ process' = IF AllCompleted THEN "0" ELSE "1"
    /\ UNCHANGED <<attempt, functional, failFast, entries, left, bundles, reports>>

(* A signal, or a report that cannot be written.                           *)
Interrupt ==
    /\ process = "alive"
    /\ process' \in {"killed", "1"}
    /\ UNCHANGED <<attempt, functional, failFast, entries, left, disk>>

Over == process # "alive" /\ attempt = Attempts /\ UNCHANGED vars

Next == Start \/ EvalSkill \/ SkillThrows \/ WriteReports \/ WriteManifest \/ Interrupt \/ Over

Spec == Init /\ [][Next]_vars

-----------------------------------------------------------------------------

(* An exit code of 0 promises the whole batch: a manifest of this attempt, *)
(* every skill reached and completed, each with an Evidence Bundle, and    *)
(* with a bundle of this attempt when the functional layer ran, however    *)
(* earlier attempts in the same directory ended.                           *)
SuccessCoversEverySkill ==
    attempt > 0 /\ process = "0" =>
        /\ manifest = attempt
        /\ Len(entries) = Skills /\ AllCompleted
        /\ \A s \in Skill : bundles[s] # 0 /\ (functional => bundles[s] = attempt)

(* The manifest is never newer than the reports it lists, even when the    *)
(* process dies between the two writes.                                    *)
ReportsBeforeManifest == manifest <= reports

==============================================================================
