----------------------------- MODULE RefinerGate -----------------------------
(***************************************************************************)
(* The acceptance gate of the Refiner, the two-axis decision over it, the  *)
(* cost meter, and one refinement run as cost.ts lays it out: ask the      *)
(* meter before an attempt, record the attempt after it, keep the version  *)
(* the gate accepts.  Values are integers in some unit, variances in its   *)
(* square; the test z * se <= diff is squared.                             *)
(***************************************************************************)
EXTENDS Integers, Sequences, FiniteSets, SequencesExt

CONSTANTS Dimension,    \* named dimensions besides `behavioral'
          Records,      \* score records the evaluator may return
          Costs,        \* tokens an attempt may cost
          Ceiling,      \* SATURATION_CEILING and 1, in the unit of the values
          ZNum, ZDen,   \* z(1 - alpha) squared, as a fraction
          Budgets,      \* budgets a run may have
          Uncapped      \* in place of a ceiling that is not given

Dim == [value : Int, variance : Nat, n : Nat]

ASSUME GateAssumption ==
    /\ \A record \in Records :
          /\ DOMAIN record = {"set", "behavioral", "dims"}
          /\ record.behavioral \in Dim
          /\ DOMAIN record.dims \subseteq Dimension
          /\ \A name \in DOMAIN record.dims : record.dims[name] \in Dim
    /\ Costs \subseteq Nat
    /\ Ceiling[1] \in Int /\ Ceiling[2] \in Int
    /\ Uncapped \notin Nat
    /\ ZNum \in Nat /\ ZDen \in Nat
    /\ \A b \in Budgets :
          /\ DOMAIN b = {"maxAttempts", "maxTokens"}
          /\ b.maxAttempts \in Nat \cup {Uncapped} /\ b.maxTokens \in Nat \cup {Uncapped}

-----------------------------------------------------------------------------
(* accept.ts                                                               *)

\* variance / n, as a fraction; no sample has no variance.
Spread(dim) == IF dim.n > 0 THEN <<dim.variance, dim.n>> ELSE <<0, 1>>

\* diff / standardError >= z; without error any difference is significant.
Significant(diff, a, b) ==
    LET va == Spread(a)
        vb == Spread(b)
    IN ZDen * diff * diff * va[2] * vb[2] >= ZNum * (va[1] * vb[2] + vb[1] * va[2])

IsSignificantImprovement(candidate, baseline) ==
    LET diff == candidate.value - baseline.value
    IN diff > 0 /\ Significant(diff, candidate, baseline)

IsSignificantRegression(candidate, baseline) ==
    LET diff == candidate.value - baseline.value
    IN diff < 0 /\ Significant(diff, candidate, baseline)

\* Mutant: a dimension the candidate no longer measures does not count.
RegressedForgivingly(baseline, candidate) ==
    {name \in DOMAIN baseline.dims :
        /\ name \in DOMAIN candidate.dims
        /\ IsSignificantRegression(candidate.dims[name], baseline.dims[name])}

\* Named dimensions that got worse, or are no longer measured.
RegressedDimensions(baseline, candidate) ==
    {name \in DOMAIN baseline.dims :
        \/ name \notin DOMAIN candidate.dims
        \/ IsSignificantRegression(candidate.dims[name], baseline.dims[name])}

IsSaturated(dim) == Ceiling[1] <= dim.value /\ dim.value <= Ceiling[2]

\* "accepted", or the reason of the rejection.
Accept(baseline, candidate) ==
    LET improved  == IsSignificantImprovement(candidate.behavioral, baseline.behavioral)
        regressed == RegressedDimensions(baseline, candidate) # {}
    IN CASE baseline.set # candidate.set -> "incomparable-records"
         [] baseline.set = candidate.set /\ improved /\ ~regressed -> "accepted"
         [] baseline.set = candidate.set /\ improved /\ regressed -> "pareto-incomparable"
         [] baseline.set = candidate.set /\ ~improved /\ regressed -> "regressed-named-dimension"
         [] OTHER -> IF IsSaturated(baseline.behavioral)
                     THEN "saturated-baseline" ELSE "no-behavioral-improvement"

\* decide.ts: the schema of the applied document is the second axis.
Decide(baseline, candidate, schemaValid) ==
    IF Accept(baseline, candidate) # "accepted" THEN "REJECT"
    ELSE IF schemaValid THEN "ACCEPT" ELSE "LOG_TO_SCHEMA_REVISION_CANDIDATES"

-----------------------------------------------------------------------------
(* cost.ts                                                                 *)

SpentTokens(log) == FoldSeq(LAMBDA attempt, sum : sum + attempt.tokens, 0, log)

CheckBudget(budget, log) ==
    IF budget.maxAttempts # Uncapped /\ Len(log) >= budget.maxAttempts
    THEN "attempt-ceiling-exceeded"
    ELSE IF budget.maxTokens # Uncapped /\ SpentTokens(log) >= budget.maxTokens
    THEN "token-ceiling-exceeded"
    ELSE "continue"

AcceptRollup(log) ==
    [totalTokens |-> SpentTokens(log), totalAttempts |-> Len(log),
     acceptedAttempts |-> Len(SelectSeq(log, LAMBDA attempt : attempt.outcome = "accepted"))]

-----------------------------------------------------------------------------
(* judge-version.ts and kernel-version.ts: when a baseline is superseded.  *)

IsBaselineSupersededByJudge(baseline, current) == baseline # current

\* A version is a triple of numbers; anything else counts as <<0, 0, 0>>.
CompareVersions(a, b) ==
    LET differ == {i \in 1..3 : a[i] # b[i]}
        first  == CHOOSE i \in differ : \A j \in differ : i <= j
    IN IF differ = {} THEN 0 ELSE IF a[first] > b[first] THEN 1 ELSE -1

IsBaselineSupersededByKernel(baseline, current) == CompareVersions(current, baseline) = 1

-----------------------------------------------------------------------------
VARIABLES heads,      \* the versions the run kept, in order
          attempts,   \* what the meter recorded
          revisions,  \* improvements the schema refused
          budget,
          phase       \* "check", "attempt", or the quarantine that ended the run

run == <<heads, attempts, revisions, budget, phase>>

Head0 == heads[Len(heads)]

RunInit ==
    /\ \E record \in Records : heads = <<record>>
    /\ attempts = <<>>
    /\ revisions = {}
    /\ budget \in Budgets
    /\ phase = "check"

AskMeter ==
    /\ phase = "check"
    /\ phase' = IF CheckBudget(budget, attempts) = "continue" THEN "attempt"
                ELSE CheckBudget(budget, attempts)
    /\ UNCHANGED <<heads, attempts, revisions, budget>>

\* One proposal, scored and decided; its cost counts whatever becomes of it.
Attempt(candidate, schemaValid, tokens) ==
    LET decision == Decide(Head0, candidate, schemaValid)
    IN /\ phase = "attempt"
       /\ attempts' = Append(attempts,
              [tokens |-> tokens,
               outcome |-> IF decision = "REJECT" THEN "rejected" ELSE "accepted"])
       /\ heads' = IF decision = "ACCEPT" THEN Append(heads, candidate) ELSE heads
       /\ revisions' = IF decision \in {"ACCEPT", "REJECT"} THEN revisions
                       ELSE revisions \cup {[baseline |-> Head0, candidate |-> candidate]}
       /\ phase' = "check"
       /\ UNCHANGED budget

RunNext ==
    \/ AskMeter
    \/ \E candidate \in Records, schemaValid \in BOOLEAN, tokens \in Costs :
          Attempt(candidate, schemaValid, tokens)

-----------------------------------------------------------------------------
Quarantined == {"attempt-ceiling-exceeded", "token-ceiling-exceeded"}

RunTypeOK ==
    /\ heads \in Seq(Records) /\ heads # <<>>
    /\ attempts \in Seq([tokens : Costs, outcome : {"accepted", "rejected"}])
    /\ revisions \subseteq [baseline : Records, candidate : Records]
    /\ budget \in Budgets
    /\ phase \in {"check", "attempt"} \cup Quarantined

Exact(name, i, j) ==
    \A k \in i..j : name \in DOMAIN heads[k].dims /\ heads[k].dims[name].variance = 0

(* A refinement never walks in a circle and never trades a guarantee away: *)
(* over any number of accepted edits the behavioral value only grows, on   *)
(* one eval set, what was measured stays measured, and a dimension without *)
(* variance never falls (accept.ts:17-23).                                 *)
LineageClimbs ==
    \A i, j \in 1..Len(heads) : i < j =>
        /\ heads[i].set = heads[j].set
        /\ heads[i].behavioral.value < heads[j].behavioral.value
        /\ DOMAIN heads[i].dims \subseteq DOMAIN heads[j].dims
        /\ \A name \in DOMAIN heads[i].dims :
              Exact(name, i, j) => heads[i].dims[name].value <= heads[j].dims[name].value

=============================================================================
