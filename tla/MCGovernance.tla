---------------------------- MODULE MCGovernance ----------------------------
(***************************************************************************)
(* From judge samples to the gate decision, checked over every combination *)
(* of the settled samples of a criterion "blocker", of the rows of a       *)
(* criterion "sacred" on two test cases, of the naked pass and of the      *)
(* previous release.  Once the gate has decided, a step evaluates the same *)
(* skill again with one sample or one judgment improved, so that           *)
(* neighbouring evaluations can be compared.                               *)
(***************************************************************************)
EXTENDS Governance

CONSTANT MaxSamples  \* bound: judge samples of the blocker criterion

ASSUME SamplesAssumption == MaxSamples \in Nat \ {0}

VARIABLES samples,   \* settled samples of "blocker"
          rows,      \* judgments of the run
          naked,     \* judgments of the baseline pass, or none
          previous,  \* judgments of the previous release
          enabled,   \* whether --regression-baseline hands them over
          decision   \* "none" before the gate has decided

Quorum == <<3, 4>>  \* min_blocker_agreement

SacredRow(case, verdict) == Judgment("sacred", case, "judge", verdict, 1, 1, FALSE)

RowsOf(first, second, votes) ==
    <<SacredRow(1, first), SacredRow(2, second), FoldSamples("blocker", 1, votes)>>

DecisionOf(now) ==
    RunGate(now, naked, enabled, previous, {"blocker"}, {"sacred"}, Quorum)

YesNo == {"yes", "no"}

Init ==
    /\ \E k \in 1..MaxSamples : samples \in [1..k -> SampleResult]
    /\ \E first, second \in Verdict : rows = RowsOf(first, second, samples)
    /\ naked = <<>> \/ \E first, third \in YesNo : naked = RowsOf(first, first, <<third>>)
    /\ \E first, second \in YesNo : previous = RowsOf(first, second, <<"yes">>)
    /\ enabled \in BOOLEAN
    /\ decision = "none"

vars == <<samples, rows, naked, previous, enabled, decision>>

Decide ==
    /\ decision = "none"
    /\ decision' = DecisionOf(rows)
    /\ UNCHANGED <<samples, rows, naked, previous, enabled>>

Better == {<<"no", "unsure">>, <<"no", "yes">>, <<"unsure", "yes">>}

\* One judgment of the sacred criterion improves.
Improve(k) ==
    /\ decision # "none"
    /\ rows[k].criterion = "sacred"
    /\ \E verdict \in Verdict :
          /\ <<rows[k].verdict, verdict>> \in Better
          /\ rows' = [rows EXCEPT ![k].verdict = verdict]
    /\ decision' = DecisionOf(rows')
    /\ UNCHANGED <<samples, naked, previous, enabled>>

\* One sample of the blocker answers "yes" instead of "no".
Convince(i) ==
    /\ decision # "none"
    /\ samples[i] = "no"
    /\ samples' = [samples EXCEPT ![i] = "yes"]
    /\ rows' = RowsOf(rows[1].verdict, rows[2].verdict, samples')
    /\ decision' = DecisionOf(rows')
    /\ UNCHANGED <<naked, previous, enabled>>

Done == decision # "none" /\ UNCHANGED vars

Next ==
    \/ Decide
    \/ \E k \in DOMAIN rows : Improve(k)
    \/ \E i \in DOMAIN samples : Convince(i)
    \/ Done

Spec == Init /\ [][Next]_vars

Vote == rows[3]

(* engine.ts "missing evidence must land in the quorum DENOMINATOR": a     *)
(* blocker stops a release only when the share of "no" among all samples,  *)
(* the failed ones included, reaches the quorum.                           *)
QuorumBlocks ==
    ComputeScoreCard(rows, {"blocker"}, 0, Quorum).blockerFailures > 0 =>
        \/ Len(samples) = 1
        \/ CountOf(samples, "no") * Quorum[2] >= Quorum[1] * Len(samples)

(* A sample that turns from "no" to "yes" never takes a "yes" away, and    *)
(* never produces a "no".                                                  *)
VoteIsMonotone ==
    [][/\ Vote.verdict = "yes" => Vote'.verdict = "yes"
       /\ Vote'.verdict = "no" => Vote.verdict = "no"]_vars

(* A test case of a sacred criterion that passed in the previous release   *)
(* and does not pass now, row against row.                                 *)
BrokenSacredCase(k) ==
    /\ rows[k].criterion = "sacred"
    /\ previous[k].verdict = "yes"
    /\ rows[k].verdict # "yes"

(* A better judgment never makes the decision worse, whatever the naked    *)
(* pass, the previous release and the noise of the judge.                  *)
Rank == [none |-> 0, fail |-> 0, advisory |-> 1, pass |-> 2]
GateIsMonotone == [][Rank[decision'] >= Rank[decision]]_vars

(* What the regression layer does promise: when the previous release has   *)
(* one verdict for a criterion on all its cases, no broken sacred case     *)
(* gets past the gate.                                                     *)
SacredBlocksWhenUniform ==
    enabled /\ previous[1].verdict = previous[2].verdict
            /\ (\E k \in DOMAIN rows : BrokenSacredCase(k))
        => decision \in {"none", "fail"}

=============================================================================
