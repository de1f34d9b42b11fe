----------------------------- MODULE RolloutGate -----------------------------
(***************************************************************************)
(* The consumer of an Evidence Bundle: decide() of rollout-gate/src.  A    *)
(* gate id is a value, and a required-gate pattern is the set of gate ids  *)
(* its anchored regular expression matches.                                *)
(***************************************************************************)
EXTENDS Sequences

(***************************************************************************)
(* A row after EvidenceStatementSchema: an invalid row keeps nothing but   *)
(* its invalidity.  `grounded' is metadata.ground_truth, "absent" when the *)
(* producer does not declare it; `provider' likewise.                      *)
(***************************************************************************)
Statement(gate, decision, provider, grounded) ==
    [valid |-> TRUE, gate |-> gate, decision |-> decision,
     provider |-> provider, grounded |-> grounded]

InvalidRow(gate) ==
    [valid |-> FALSE, gate |-> gate, decision |-> "absent",
     provider |-> "absent", grounded |-> "absent"]

\* Mutant: rows with an infrastructure error are tolerated by default.
DefaultPolicyFailOnly(required) ==
    [valid |-> TRUE, required |-> required, forbidDecisions |-> {"fail"},
     advisoryBlocks |-> FALSE, allowUnknown |-> TRUE, forbidProviders |-> {"stub"},
     requireGroundTruth |-> TRUE]

\* RolloutPolicySchema with its defaults: what a policy says when it is silent.
DefaultPolicy(required) ==
    [valid |-> TRUE, required |-> required, forbidDecisions |-> {"fail", "error"},
     advisoryBlocks |-> FALSE, allowUnknown |-> TRUE, forbidProviders |-> {"stub"},
     requireGroundTruth |-> TRUE]

\* patternToRegex: `*' matches any run of characters, all else literally.
MatchedBy(rows, pattern) ==
    {i \in DOMAIN rows : rows[i].valid /\ rows[i].gate \in pattern}

Known(policy, gate) == \E pattern \in policy.required : gate \in pattern

\* The per-row loop: whether a row contributes a blocking reason.
RowBlocks(row, policy) ==
    \/ ~row.valid
    \/ row.decision \in policy.forbidDecisions
    \/ row.decision = "advisory" /\ policy.advisoryBlocks
    \/ row.provider \in policy.forbidProviders
    \/ policy.requireGroundTruth /\ row.grounded = "no"
    \/ ~Known(policy, row.gate) /\ ~policy.allowUnknown

\* Mutant: a required gate needs one passing row, not only passing rows.
RequiredStatusAny(rows, pattern) ==
    IF MatchedBy(rows, pattern) = {} THEN "missing"
    ELSE IF \A i \in MatchedBy(rows, pattern) : rows[i].decision # "pass"
         THEN "not-passing" ELSE "pass"

RequiredStatus(rows, pattern) ==
    IF MatchedBy(rows, pattern) = {} THEN "missing"
    ELSE IF \E i \in MatchedBy(rows, pattern) : rows[i].decision # "pass"
         THEN "not-passing" ELSE "pass"

\* Mutant: the requirement is only looked at for gates that are present.
DecideReleaseOptional(wellFormed, rows, policy) ==
    IF /\ policy.valid /\ wellFormed /\ rows # <<>>
       /\ \A i \in DOMAIN rows : ~RowBlocks(rows[i], policy)
       /\ \A pattern \in policy.required : RequiredStatus(rows, pattern) # "not-passing"
    THEN "allow" ELSE "block"

\* decide(): `wellFormed' is a plain array or a json-array container.
DecideRelease(wellFormed, rows, policy) ==
    IF /\ policy.valid /\ wellFormed /\ rows # <<>>
       /\ \A i \in DOMAIN rows : ~RowBlocks(rows[i], policy)
       /\ \A pattern \in policy.required : RequiredStatus(rows, pattern) = "pass"
    THEN "allow" ELSE "block"
==============================================================================
