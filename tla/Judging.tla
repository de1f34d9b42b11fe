------------------------------- MODULE Judging -------------------------------
(***************************************************************************)
(* How one criterion is judged on one observed outcome                     *)
(* (core/src/judgment/engine.ts).  A judge call answers with a verdict or  *)
(* throws; the fold turns the settled samples of one criterion into one    *)
(* judgment.  Sample sequences are indexed in dispatch order.              *)
(***************************************************************************)
EXTENDS Integers, Sequences, FiniteSets

Verdict == {"yes", "no", "unsure"}

\* What a settled judge call left behind; "error" is a rejected promise.
SampleResult == Verdict \cup {"error"}

CountOf(results, value) == Cardinality({i \in DOMAIN results : results[i] = value})

(***************************************************************************)
(* A judgment row.  `samples' and `top' stand for the fields samples and   *)
(* agreement = top / samples of the source; a row that has no such fields  *)
(* (deterministic, single call, dead judge) carries samples = 1.  `dead'   *)
(* is the presence of judge_error: the judge never ran for this criterion. *)
(***************************************************************************)
Judgment(criterion, case, method, verdict, samples, top, dead) ==
    [criterion |-> criterion, case |-> case, method |-> method,
     verdict |-> verdict, samples |-> samples, top |-> top, dead |-> dead]

\* judgeDeterministic: the check passed or it did not, never "unsure".
DeterministicJudgment(criterion, case, passed) ==
    Judgment(criterion, case, "deterministic", IF passed THEN "yes" ELSE "no", 1, 1, FALSE)

\* judgeError: no sample was answered.
JudgeError(criterion, case) == Judgment(criterion, case, "judge", "unsure", 1, 0, TRUE)

\* A sample that threw votes "unsure", so it stays in the denominator.
Ballots(results, verdict) ==
    CountOf(results, verdict) + (IF verdict = "unsure" THEN CountOf(results, "error") ELSE 0)

\* Mutant: Math.min for Math.max.
FewestBallots(results) ==
    CHOOSE n \in {Ballots(results, v) : v \in Verdict} :
        \A v \in Verdict : n <= Ballots(results, v)

TopBallots(results) ==
    CHOOSE n \in {Ballots(results, v) : v \in Verdict} :
        \A v \in Verdict : Ballots(results, v) <= n

Winners(results) == {v \in Verdict : Ballots(results, v) = TopBallots(results)}

\* The majority verdict; a tie between verdicts is "unsure".
MajorityVerdict(results) ==
    IF Cardinality(Winners(results)) = 1
    THEN CHOOSE v \in Verdict : v \in Winners(results)
    ELSE "unsure"

\* Mutant: failed samples leave the denominator.
FoldSamplesShrunk(criterion, case, results) ==
    LET Answered(result) == result # "error"
        ok == SelectSeq(results, Answered)
    IN  IF ok = <<>> THEN JudgeError(criterion, case)
        ELSE Judgment(criterion, case, "judge", MajorityVerdict(ok), Len(ok), TopBallots(ok),
                      FALSE)

\* judgeWithLLM, once every sample of the criterion has settled.
FoldSamples(criterion, case, results) ==
    IF \A i \in DOMAIN results : results[i] = "error" THEN JudgeError(criterion, case)
    ELSE IF Len(results) = 1
         THEN Judgment(criterion, case, "judge", results[1], 1, 1, FALSE)
         ELSE Judgment(criterion, case, "judge", MajorityVerdict(results),
                       Len(results), TopBallots(results), FALSE)

(***************************************************************************)
(* settleWithConcurrency: `pool' is the array of tasks of one criterion.   *)
(* A worker claims the lowest unclaimed index, so the tasks still "todo"   *)
(* are a suffix; at most `limit' (at least one, at most the number of      *)
(* tasks) are in flight, and Promise.all waits for every one of them.      *)
(***************************************************************************)
InFlight(pool) == {i \in DOMAIN pool : pool[i] = "flying"}
Unclaimed(pool) == {i \in DOMAIN pool : pool[i] = "todo"}

\* Mutant: every task starts at once.
WorkerCountUncapped(pool, limit) == Len(pool)

WorkerCount(pool, limit) ==
    LET wanted == IF limit < 1 THEN 1 ELSE limit
    IN  IF wanted < Len(pool) THEN wanted ELSE Len(pool)

CanClaim(pool, limit, i) ==
    /\ i \in Unclaimed(pool)
    /\ \A j \in Unclaimed(pool) : i <= j
    /\ Cardinality(InFlight(pool)) < WorkerCount(pool, limit)

\* Every task of a non-empty pool has settled.
PoolSettled(pool) == pool # <<>> /\ InFlight(pool) \cup Unclaimed(pool) = {}
==============================================================================
