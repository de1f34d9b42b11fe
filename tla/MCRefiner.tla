------------------------------ MODULE MCRefiner ------------------------------
(***************************************************************************)
(* The Refiner on two texts: one command after the other, long enough for  *)
(* bootstrap, propose, apply and promote around a kill and an edit; two    *)
(* commands at a time; and, with nobody at the store, a refinement run.    *)
(* The pure parts of the core are checked on every small input.            *)
(***************************************************************************)
EXTENDS Refiner, SliceUtility

Setting(commands, crowd, kills, edits) ==
    [commands |-> commands, crowd |-> crowd, kills |-> kills, edits |-> edits]

Alone  == {Setting(3, 1, 1, 1)}
Crowd  == {Setting(2, 2, 1, 1)}
Nobody == Setting(0, 0, 0, 0)
All    == Alone \cup Crowd \cup {Nobody}

-----------------------------------------------------------------------------
(* Measured values 0..3 with and without variance, with and without a      *)
(* named dimension, on two eval sets.                                      *)
Measured(value, variance) == [value |-> value, variance |-> variance, n |-> 1]

Safe(dims) == [name \in Dimension |-> dims]

MCRecords ==
    {[set |-> "one", behavioral |-> Measured(b[1], b[2]), dims |-> d] :
        b \in {<<0, 1>>, <<2, 0>>, <<3, 0>>},
        d \in {Safe(Measured(1, 0)), Safe(Measured(2, 0)), Safe(Measured(2, 1))}}
    \cup {[set |-> "one", behavioral |-> Measured(2, 0), dims |-> <<>>],
          [set |-> "two", behavioral |-> Measured(3, 0), dims |-> <<>>]}

MCBudgets ==
    {[maxAttempts |-> 3, maxTokens |-> Uncapped], [maxAttempts |-> Uncapped, maxTokens |-> 2],
     [maxAttempts |-> 0, maxTokens |-> Uncapped]}

MCCeiling == <<3, 3>>

-----------------------------------------------------------------------------
RunOff ==
    /\ heads = <<>> /\ attempts = <<>> /\ revisions = {}
    /\ budget = CHOOSE b \in Budgets : TRUE
    /\ phase = "off"

MCInit ==
    /\ Init
    /\ IF left = Nobody THEN RunInit /\ skill = (CHOOSE text \in Text : TRUE) ELSE RunOff

MCNext == (Next /\ UNCHANGED run) \/ (RunNext /\ UNCHANGED vars)

MCSpec ==
    /\ MCInit /\ [][MCNext]_<<vars, run>>
    /\ \A p \in Process : WF_<<vars, run>>(Step(p) /\ UNCHANGED run)

-----------------------------------------------------------------------------
(* Edits of texts of up to four tokens.                                    *)

Edit == INSTANCE EditOps WITH MaxOps <- 2

Words(n) == UNION {[1..k -> {"a", "b", "$&"}] : k \in 0..n}

Operations ==
    [kind : {"add", "delete", "replace"}, anchor : UNION {[1..k -> {"a", "b"}] : k \in 0..2},
     content : Words(1)]

ASSUME EditsApply == \A text \in Words(4), op \in Operations : Edit!AppliesWell(text, op)

\* The two claims of the code that do not hold have a counterexample.
ASSUME ReplaceRewrites == \E text \in Words(2), op \in Operations : ~Edit!ReplaceIsLiteral(text, op)
ASSUME OverlapIsMissed ==
    \E text \in Words(3), op \in Operations : ~Edit!AmbiguityIsRefused(text, op)

ASSUME ProposalsAreBounded ==
    \A n \in 0..4 : \A ops \in [1..n -> {"ok", "also ok", "malformed"}] :
        LET kept == Edit!ParseProposalResponse(ops, {"ok", "also ok"})
        IN Len(kept) = Min({2, Cardinality({i \in 1..n : ops[i] # "malformed"})})

\* Two operations are one edit: both apply, the second to what the first left,
\* or none does; and an edit of another parent never applies.
ASSUME EditsAreAllOrNothing ==
    \A text \in Words(2), one, two \in Operations :
        LET half   == Edit!ApplyEdit(text, text, <<one>>)
            edited == Edit!ApplyEdit(text, text, <<one, two>>)
        IN /\ edited = IF half = Edit!Failed THEN Edit!Failed
                       ELSE Edit!ApplyEdit(half, half, <<two>>)
           /\ Edit!ApplyEdit(text, text \o <<"b">>, <<one, two>>) = Edit!Failed

\* Whatever is left out of the model's prompt did no worse than what is in it.
ASSUME WorstAreShown ==
    \A n \in 0..3 : \A values \in [1..n -> 0..2], k \in -1..4 :
        LET shown == Edit!SelectWorstRollouts(values, k)
            below(v, in) == Cardinality({i \in DOMAIN in : in[i] <= v})
        IN /\ Len(shown) = Min({Max({0, k}), n})
           /\ \A v \in 0..2 : below(v, shown) = Min({below(v, values), Len(shown)})

(* Texts of up to four lines, with nested headings and fences.             *)
Lines == {Heading(1, "a"), Heading(2, "a"), Heading(2, "b"), Fence, Plain("x"), Blank}

ASSUME TextsSlice == \A n \in 0..4 : \A lines \in [1..n -> Lines] : SlicesWell(lines)

(* Three blocks, every outcome of scorer and validator, every cap.         *)
ThreeBlocks ==
    <<[id |-> 1, type |-> "policy"], [id |-> 2, type |-> "example"], [id |-> 3, type |-> "body"]>>

ASSUME BlocksAreAccountedFor ==
    \A ablated \in [1..3 -> {Measured(v, 1) : v \in {0, 2, 4}}], valid \in [1..3 -> BOOLEAN],
       cap \in {-1, 0, 1, 5, Uncapped}, capped, allow \in BOOLEAN, power \in {1, 2},
       verified \in BOOLEAN, now \in {1, 2} :
        LET reasons == UngatedReasons([source |-> "harvested", refreshDueAt |-> {2}],
                                      verified, now, FALSE)
        IN ReportsWell(ThreeBlocks,
               ComputeSliceUtility(ThreeBlocks, capped, cap, reasons, allow,
                                   Measured(2, 1), ablated, valid, power))

(* Versions in order, and a baseline that only an older kernel supersedes. *)
Versions == [1..3 -> 0..1]

ASSUME VersionsAreOrdered ==
    \A a, b, c \in Versions :
        /\ CompareVersions(a, b) = -CompareVersions(b, a)
        /\ CompareVersions(a, b) >= 0 /\ CompareVersions(b, c) >= 0 => CompareVersions(a, c) >= 0
        /\ IsBaselineSupersededByKernel(a, b) => ~IsBaselineSupersededByKernel(b, a)
        /\ IsBaselineSupersededByJudge(a, b) <=> CompareVersions(a, b) # 0

Recorded == [tokens : {0, 1, 5}, outcome : {"accepted", "rejected"}]

\* What a run reports of two parts of its log is the sum of both.
ASSUME RollupAdds ==
    \A m, n \in 0..2 : \A first \in [1..m -> Recorded], second \in [1..n -> Recorded] :
        LET one == AcceptRollup(first)  two == AcceptRollup(second)
            both == AcceptRollup(first \o second)
        IN /\ \A part \in DOMAIN both : both[part] = one[part] + two[part]
           /\ both.acceptedAttempts <= both.totalAttempts

(* Usage of two tenants, with weights that halve.                          *)
Usage == INSTANCE AdoptionVerdict WITH
             Fading <- (0 :> 4) @@ (1 :> 2) @@ (2 :> 1), Share <- [ci |-> 10, plugin |-> 1],
             MinVolume <- 12, High <- 60, Low <- 20

Observation == [age : {-1, 0, 2}, tenant : {"a", "global"}, source : {"ci", "plugin"}, kept : {0, 1}]

ASSUME AdoptionIsJudged ==
    \A n \in 0..3 : \A seen \in [1..n -> Observation] : Usage!JudgesAdoption(seen)

Event == [meter : {"api_call", "session"}, verified : BOOLEAN, session : {"none", "s", "t"},
          age : {0}, tenant : {"a"}, source : {"ci", "plugin"}]

\* Nobody is called obsolete, or kept, on what was not verified.
ASSUME OnlyVerifiedUsageCounts ==
    \A events \in [1..2 -> Event], matches \in BOOLEAN :
        LET seen == Usage!ToObservations(events, {"t"}, [ci |-> "ci", plugin |-> "plugin"])
        IN Usage!ComputeAdoptionVerdict(matches, seen) # "hold" =>
               \E i \in 1..2 : events[i].verified /\ events[i].meter = "session"

Items(n) == UNION {[1..k -> [prompt : {"p", "q", "r"}]] : k \in 0..n}

ASSUME LeakageIsCounted == \A items, reference \in Items(3) : Usage!LeaksWell(items, reference)
ASSUME RatiosOverflow == \E items, reference \in Items(3) : ~Usage!RatioIsProportion(items, reference)

\* A set covers nothing exactly when it is empty or all of one type.
ASSUME CoverageSplits ==
    \A n \in 0..4 : \A items \in [1..n -> [type : {"p", "q", "r"}]] :
        /\ Usage!CoversNothing(items) <=>
              n = 0 \/ \E type \in Usage!Types(items) : Usage!CountOf(items, type) = n
        /\ MapThenSumSet(LAMBDA type : Usage!CountOf(items, type), Usage!Types(items)) = n

\* A result counts when it is the last of an adversarial item, and only then.
ASSUME AdversarialIsApart ==
    \A items \in [1..2 -> [id : {1, 2}, adversarial : BOOLEAN]],
       results \in [1..2 -> [id : {1, 2, 3}, passed : BOOLEAN]],
       late \in [id : {1, 2, 3}, passed : BOOLEAN] :
        LET before == Usage!AdversarialPassRate(items, results)
            after  == Usage!AdversarialPassRate(items, Append(results, late))
            hard   == {i \in 1..2 : items[i].adversarial /\ items[i].id = late.id}
        IN /\ before.passed <= before.total /\ after.total = before.total
           /\ hard = {} => after = before
           /\ late.passed => after.passed >= before.passed
           /\ ~late.passed => after.passed <= before.total - Cardinality(hard)

Prediction == [confidence : {0, 5, 9, 10, 50, 95, 100}, correct : {0, 100}]

ASSUME CalibrationIsBounded ==
    \A n \in 0..3 : \A predictions \in [1..n -> Prediction] : Usage!CalibratesWell(predictions)
=============================================================================
