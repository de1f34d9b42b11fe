----------------------------- MODULE Governance -----------------------------
(***************************************************************************)
(* From judgment rows to a gate decision: score card, regressions,         *)
(* baseline comparison, rollout decision and promotion evidence            *)
(* (core/src/governance, core/src/evidence/skill-promotion.ts).            *)
(***************************************************************************)
EXTENDS Judging

Rollout == {"ship", "warn", "block", "obsolete_review"}
GateResult == {"pass", "fail", "advisory"}

(***************************************************************************)
(* min_blocker_agreement: a fraction <<num, den>>; <<0, 1>> stands for an  *)
(* absent threshold, below which no agreement can fall.                    *)
(***************************************************************************)
NoThreshold == <<0, 1>>

Unstable(row, threshold) ==
    /\ row.method = "judge"
    /\ row.samples >= 2
    /\ row.top * threshold[2] < threshold[1] * row.samples

ComputeScoreCard(rows, blockers, sacredRegressions, threshold) ==
    LET verdictIs(v)    == {i \in DOMAIN rows : rows[i].verdict = v}
        blockerFailures == {i \in verdictIs("no") : rows[i].criterion \in blockers}
        unstable        == {i \in blockerFailures : Unstable(rows[i], threshold)}
    IN [total    |-> Len(rows),
        passed   |-> Cardinality(verdictIs("yes")),
        failed   |-> Cardinality(verdictIs("no")),
        unsure   |-> Cardinality(verdictIs("unsure")),
        blockerFailures         |-> Cardinality(blockerFailures \ unstable),
        unstableBlockerFailures |-> Cardinality(unstable),
        sacredRegressions       |-> sacredRegressions]

\* Mutant: obsolescence is looked at before the blockers.
DecideRolloutObsoleteFirst(score, isObsolete) ==
    IF isObsolete THEN "obsolete_review"
    ELSE IF score.blockerFailures > 0 \/ score.sacredRegressions > 0 THEN "block"
    ELSE IF score.failed > 0 \/ score.unsure > 0 THEN "warn"
    ELSE "ship"

DecideRollout(score, isObsolete) ==
    IF score.blockerFailures > 0 \/ score.sacredRegressions > 0 THEN "block"
    ELSE IF isObsolete THEN "obsolete_review"
    ELSE IF score.failed > 0 \/ score.unsure > 0 THEN "warn"
    ELSE "ship"

(***************************************************************************)
(* A Map built from rows keyed by criterion_id alone: of several rows of   *)
(* one criterion (one per test case) the last one wins.                    *)
(***************************************************************************)
LastRowOf(rows, criterion) ==
    LET mine == {i \in DOMAIN rows : rows[i].criterion = criterion}
    IN  {rows[i] : i \in {k \in mine : \A j \in mine : j <= k}}

\* Mutant: only a "no" is a regression.
RegressionsToNo(previous, current) ==
    {i \in DOMAIN current :
        /\ current[i].verdict = "no"
        /\ \E prior \in LastRowOf(previous, current[i].criterion) : prior.verdict = "yes"}

\* detectRegressions: indices of current rows that were "yes" and are not now.
Regressions(previous, current) ==
    {i \in DOMAIN current :
        /\ current[i].verdict # "yes"
        /\ \E prior \in LastRowOf(previous, current[i].criterion) : prior.verdict = "yes"}

SacredRegressions(previous, current, sacred) ==
    {i \in Regressions(previous, current) : current[i].criterion \in sacred}

\* compareBaseline: the rows that have a naked counterpart, and those it adds to.
Compared(rows, naked) ==
    {i \in DOMAIN rows : LastRowOf(naked, rows[i].criterion) # {}}

AddsValue(rows, naked) ==
    {i \in Compared(rows, naked) :
        /\ rows[i].verdict = "yes"
        /\ \E base \in LastRowOf(naked, rows[i].criterion) : base.verdict # "yes"}

\* isObsoleteCandidate with its default threshold 0.8: fewer than one in five.
IsObsoleteCandidate(rows, naked) ==
    /\ Compared(rows, naked) # {}
    /\ 5 * Cardinality(AddsValue(rows, naked)) < Cardinality(Compared(rows, naked))

ThresholdPass(score) ==
    /\ score.total > 0
    /\ score.passed = score.total
    /\ score.failed = 0
    /\ score.unsure = 0
    /\ score.blockerFailures = 0

\* buildSkillPromotionEvidence: gate_decision.
GateDecision(score, rollout, regressionEnabled, regressionCount) ==
    IF rollout = "block" \/ score.sacredRegressions > 0 THEN "fail"
    ELSE IF rollout = "ship" /\ ThresholdPass(score)
            /\ regressionEnabled /\ regressionCount = 0
         THEN "pass"
         ELSE "advisory"

(***************************************************************************)
(* The whole fold of one model run.  `previous' is the sequence of rows of *)
(* --regression-baseline (regressionEnabled), `naked' the judgments of the *)
(* baseline pass (empty when it did not run).                              *)
(***************************************************************************)
RunGate(rows, naked, regressionEnabled, previous, blockers, sacred, threshold) ==
    LET regressions == IF regressionEnabled THEN Regressions(previous, rows) ELSE {}
        sacredOnes  == IF regressionEnabled
                       THEN SacredRegressions(previous, rows, sacred) ELSE {}
        score       == ComputeScoreCard(rows, blockers, Cardinality(sacredOnes), threshold)
        rollout     == DecideRollout(score, IsObsoleteCandidate(rows, naked))
    IN  GateDecision(score, rollout, regressionEnabled, Cardinality(regressions))
==============================================================================
