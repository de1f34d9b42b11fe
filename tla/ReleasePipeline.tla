--------------------------- MODULE ReleasePipeline ---------------------------
(***************************************************************************)
(* `j-rig eval --emit-bundle' followed by the rollout gate: when the eval  *)
(* process is gone, whatever its exit code, the gate reads the bundle file *)
(* it left on disk and decides the release.                                *)
(***************************************************************************)
EXTENDS EvalRun, RolloutGate

CONSTANT Policies  \* rollout policies; the gate id of a model is its index

VARIABLES policy,  \* the policy the gate was called with
          release  \* its decision, "none" before the call

pipeline == <<vars, policy, release>>

\* composeStatement: the gate result of one run, from a real provider.
StatementOf(i) == Statement(i, gate[i], "real", "yes")

BundleRows == [k \in DOMAIN bundleFile |-> StatementOf(bundleFile[k])]

NoPolicy == DefaultPolicy({})

PipelineInit == Init /\ policy = NoPolicy /\ release = "none"

\* A missing file is an empty bundle.
DecideRollouts ==
    /\ exit # "alive"
    /\ release = "none"
    /\ policy' \in Policies
    /\ release' = DecideRelease(TRUE, BundleRows, policy')
    /\ UNCHANGED vars

PipelineNext ==
    \/ Next /\ UNCHANGED <<policy, release>>
    \/ DecideRollouts

PipelineSpec == PipelineInit /\ [][PipelineNext]_pipeline

-----------------------------------------------------------------------------
RequiresEveryModel == \A i \in Position : \E pattern \in policy.required : pattern = {i}

(* End to end, from the provider's answers to the release: a policy that   *)
(* names the gate of every model releases only what every model passed,    *)
(* with no call refused and nothing left unevaluated in any of them, also  *)
(* when the eval process stopped on its budget, threw or was killed.       *)
ReleaseIsEarned ==
    release = "allow" /\ RequiresEveryModel =>
        \A i \in Position :
            /\ gate[i] = "pass" /\ status[i] = "completed"
            /\ ~refused[i] /\ ~broken[i]

(* Whatever the policy requires, a release never goes out over a model     *)
(* that failed its gate or broke down on its infrastructure.               *)
NoReleaseOverFailure ==
    release = "allow" => \A i \in Position : gate[i] \notin {"fail", "error"}
==============================================================================
