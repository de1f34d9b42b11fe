--------------------------- MODULE NightlyEvidence ---------------------------
(***************************************************************************)
(* The nightly workflow: run-roster.mjs evaluates every skill of the       *)
(* roster in a child `j-rig eval', emit-evidence.ts turns the summary into *)
(* one gate result per skill, cosign signs and verifies each bundle,       *)
(* assemble-manifest.ts joins them, flap-report.ts compares the verdicts   *)
(* with the manifest published before, and two uploads replace the two     *)
(* assets of the rolling release.  A job may fail, or be cancelled by the  *)
(* next one, between any two steps; its build directory is then lost.      *)
(***************************************************************************)
EXTENDS Integers, Sequences, FiniteSets

CONSTANTS Skills,     \* keys of roster.json
          MaxNights,  \* bound: jobs ever started
          Children    \* what a child eval can end with

\* An eval that exits 0 has a verdict for every model, and at least one model.
ASSUME ChildrenAssumption ==
    /\ MaxNights \in Nat
    /\ \A child \in Children :
          /\ child.stub \in BOOLEAN
          /\ child.decisions \in Seq({"pass", "fail", "advisory", "error"})
          /\ child.exit = 0 =>
                /\ child.decisions # <<>>
                /\ child.decisions \in Seq({"pass", "fail", "advisory"})

VARIABLES night,     \* jobs started so far
          job,       \* step the running job is at, "none" without a job
          roster,    \* skills of the job's roster
          provider,  \* "real" or "stub": the provider input of the job
          summary,   \* roster-summary.json: rows by skill, grows in the roster loop
          staged,    \* gate results written to build/evidence, by skill
          signed,    \* skills whose bundle has a verified signature
          previous,  \* build/previous-manifest.json, NoManifest when not fetched
          flap,      \* build/evidence/flap-report.json
          manifest,  \* the manifest asset of the release
          sidecar,   \* the flap-report asset of the release
          ran,       \* history: how the job's child eval of each skill ended
          behind,    \* history: `ran' of the job that published last
          archive    \* history: the last two manifests ever published

workspace == <<roster, provider, summary, staged, signed, previous, flap>>
release == <<manifest, sidecar>>
history == <<ran, behind, archive>>
nightly == <<night, job, workspace, release, history>>

Nothing == [s \in {} |-> s]
NoManifest == [night |-> 0, rows |-> Nothing]
NoReport == [night |-> 0, compared |-> FALSE, flipped |-> {}]

Extend(f, key, value) == [x \in DOMAIN f \cup {key} |-> IF x = key THEN value ELSE f[x]]

-----------------------------------------------------------------------------
(* The roster.  A child ends with its exit code and the decisions of the   *)
(* bundle it left, one per model: 0 every model judged, 2 an evaluator     *)
(* failure in some model, 3 the budget, 1 anything else.  The rows of the  *)
(* stub say so in their metadata.                                          *)

Errored(child) == \A i \in DOMAIN child.decisions : child.decisions[i] = "error"

\* infrastructureFailureReason: the CLI's own reason, if every row is an error.
ErrorReason(child) ==
    IF child.exit = 2 /\ child.decisions # <<>> /\ Errored(child)
    THEN "provider_failure" ELSE "none"

RosterRow(child) ==
    IF child.exit = 0
    THEN [status |-> "ok", decisions |-> child.decisions, reason |-> "none",
          stub |-> child.stub]
    ELSE [status |-> "error", decisions |-> <<>>, reason |-> ErrorReason(child),
          stub |-> FALSE]

StartNight ==
    /\ job = "none" /\ night < MaxNights
    /\ night' = night + 1 /\ job' = "roster"
    /\ roster' \in SUBSET Skills \ {{}}
    /\ provider' \in {"real", "stub"}
    /\ UNCHANGED <<summary, staged, signed, previous, flap, release, history>>

\* One turn of the roster loop: the child runs, fails or is timed out.
RunSkill(skill) ==
    /\ job = "roster" /\ skill \in roster \ DOMAIN summary
    /\ \E child \in Children :
          /\ child.stub <=> provider = "stub"
          /\ summary' = Extend(summary, skill, RosterRow(child))
          /\ ran' = Extend(ran, skill, child)
    /\ UNCHANGED <<night, job, roster, provider, staged, signed, previous, flap,
                   release, behind, archive>>

\* The job ends here; the next one starts from an empty build directory.
EndJob ==
    /\ job' = "none" /\ roster' = {} /\ provider' = "real"
    /\ summary' = Nothing /\ staged' = Nothing /\ signed' = {}
    /\ previous' = NoManifest /\ flap' = NoReport /\ ran' = Nothing

Fail == EndJob /\ UNCHANGED <<night, release, behind, archive>>

\* The summary is complete; a roster without one clean skill fails the job.
FinishRoster ==
    /\ job = "roster" /\ DOMAIN summary = roster
    /\ IF \A s \in roster : summary[s].status = "error"
       THEN Fail
       ELSE job' = "emit" /\ UNCHANGED <<night, workspace, release, history>>

-----------------------------------------------------------------------------
(* emit-evidence.ts.                                                       *)

InSeq(d, ds) == \E i \in DOMAIN ds : ds[i] = d

\* Mutant: one passing model is enough.
AggregateLeniently(ds) ==
    IF ds = <<>> \/ InSeq("error", ds) THEN "error"
    ELSE IF InSeq("pass", ds) THEN "pass"
    ELSE IF InSeq("fail", ds) THEN "fail" ELSE "advisory"

\* aggregateDecision: the worst decision wins, an unknown one is an error.
AggregateDecision(ds) ==
    IF ds = <<>> \/ InSeq("error", ds) THEN "error"
    ELSE IF InSeq("fail", ds) THEN "fail"
    ELSE IF InSeq("advisory", ds) THEN "advisory"
    ELSE IF \A i \in DOMAIN ds : ds[i] = "pass" THEN "pass" ELSE "error"

\* collectOutcomes: the gate outcome of one summary row.
OutcomeOf(row) ==
    IF row.status = "ok"
    THEN [decision |-> AggregateDecision(row.decisions), evaluated |-> TRUE, class |-> "none"]
    ELSE [decision |-> "error", evaluated |-> FALSE, class |-> row.reason]

\* statementReasons reads the statements of the clean rows, throws on stub rows.
Launders == \E s \in roster : summary[s].status = "ok" /\ summary[s].stub

\* Every outcome is collected and validated before the first file is written.
Emit ==
    /\ job = "emit"
    /\ IF Launders THEN Fail
       ELSE /\ staged' = [s \in roster |-> OutcomeOf(summary[s])]
            /\ job' = "sign"
            /\ UNCHANGED <<night, roster, provider, summary, signed, previous, flap,
                           release, history>>

\* cosign sign-blob and verify-blob over bundle-<i>.json, one bundle at a time.
Sign(skill) ==
    /\ job = "sign" /\ skill \in DOMAIN staged \ signed
    /\ signed' = signed \cup {skill}
    /\ UNCHANGED <<night, job, roster, provider, summary, staged, previous, flap,
                   release, history>>

FinishSigning ==
    /\ job = "sign" /\ signed = DOMAIN staged
    /\ job' = "assemble"
    /\ UNCHANGED <<night, workspace, release, history>>

\* assemble: every row of the skeleton needs its bundle and its signature.
Assemble ==
    /\ job = "assemble"
    /\ IF signed = DOMAIN staged
       THEN job' = "download" /\ UNCHANGED <<night, workspace, release, history>>
       ELSE Fail

Assembled == [night |-> night, rows |-> staged]

-----------------------------------------------------------------------------
(* flap-report.ts.                                                         *)

\* curl ... || true: the published manifest, or nothing.
Download ==
    /\ job = "download"
    /\ previous' \in {manifest, NoManifest}
    /\ job' = "flap"
    /\ UNCHANGED <<night, roster, provider, summary, staged, signed, flap,
                   release, history>>

\* Only a skill that both manifests have can flip.
Flipped(before, now) ==
    {s \in DOMAIN before \cap DOMAIN now : before[s].decision # now[s].decision}

\* buildFlapReport; without a previous manifest nothing is compared.
BuildFlapReport ==
    [night |-> night, compared |-> previous # NoManifest,
     flipped |-> IF previous = NoManifest THEN {} ELSE Flipped(previous.rows, staged)]

ReportFlaps ==
    /\ job = "flap"
    /\ flap' = BuildFlapReport
    /\ job' = "clobber"
    /\ UNCHANGED <<night, roster, provider, summary, staged, signed, previous,
                   release, history>>

-----------------------------------------------------------------------------
(* gh release upload --clobber deletes the old asset and uploads the new.  *)

DeleteManifest ==
    /\ job = "clobber"
    /\ manifest' = NoManifest /\ job' = "publish"
    /\ UNCHANGED <<night, workspace, sidecar, history>>

PublishManifest ==
    /\ job = "publish"
    /\ manifest' = Assembled
    /\ archive' = <<archive[2], Assembled>> /\ behind' = ran
    /\ job' = "clobber_sidecar"
    /\ UNCHANGED <<night, workspace, sidecar, ran>>

DeleteSidecar ==
    /\ job = "clobber_sidecar"
    /\ sidecar' = NoReport /\ job' = "publish_sidecar"
    /\ UNCHANGED <<night, workspace, manifest, history>>

PublishSidecar ==
    /\ job = "publish_sidecar"
    /\ sidecar' = flap
    /\ EndJob /\ UNCHANGED <<night, manifest, behind, archive>>

\* A step fails, the job times out, or the next run of the group cancels it.
Abort == job # "none" /\ Fail

NightlyInit ==
    /\ night = 0 /\ job = "none" /\ roster = {} /\ provider = "real"
    /\ summary = Nothing /\ staged = Nothing /\ signed = {}
    /\ previous = NoManifest /\ flap = NoReport
    /\ manifest = NoManifest /\ sidecar = NoReport
    /\ ran = Nothing /\ behind = Nothing /\ archive = <<NoManifest, NoManifest>>

NightlyNext ==
    \/ StartNight \/ FinishRoster \/ Emit \/ FinishSigning \/ Assemble
    \/ \E skill \in Skills : RunSkill(skill) \/ Sign(skill)
    \/ Download \/ ReportFlaps
    \/ DeleteManifest \/ PublishManifest \/ DeleteSidecar \/ PublishSidecar
    \/ Abort

-----------------------------------------------------------------------------
Passed(child) ==
    child.exit = 0 /\ \A i \in DOMAIN child.decisions : child.decisions[i] = "pass"

(* What is published is what the night measured: exactly one row for each  *)
(* skill of that night's roster, a pass exactly for the skills whose eval  *)
(* exited 0 with every model passing, an error exactly for those that did  *)
(* not exit 0, no evaluator reason for another failure, and never a        *)
(* verdict of the stub.                                                    *)
RowsAreEarned ==
    manifest # NoManifest =>
        /\ DOMAIN manifest.rows = DOMAIN behind
        /\ \E s \in DOMAIN behind : behind[s].exit = 0
        /\ \A s \in DOMAIN behind :
              LET row == manifest.rows[s]  child == behind[s] IN
              /\ row.decision = "pass" <=> Passed(child)
              /\ row.decision = "error" <=> child.exit # 0
              /\ row.class # "none" => child.exit = 2 /\ Errored(child)
              /\ child.exit = 0 => ~child.stub

(* The flap report names a flip exactly where two consecutive published    *)
(* manifests disagree, whatever jobs failed or were cancelled in between.  *)
FlipsAreReal ==
    sidecar.compared /\ sidecar.night = archive[2].night =>
        /\ archive[1] # NoManifest
        /\ LET before == archive[1].rows  now == archive[2].rows IN
           sidecar.flipped = {s \in Skills : /\ s \in DOMAIN before /\ s \in DOMAIN now
                                             /\ before[s].decision # now[s].decision}
==============================================================================
