--------------------------- MODULE AdoptionVerdict ---------------------------
(***************************************************************************)
(* Is a skill still used?  computeAdoptionVerdict() over observations that *)
(* fade with their age, and the quality metrics of an eval set.  Pure.     *)
(* Weights and rates are integers: `Fading[age]' is what remains of one    *)
(* observation, `Share' the part of it a source counts for.                *)
(***************************************************************************)
EXTENDS Integers, Sequences, FiniteSets, FiniteSetsExt, SequencesExt

CONSTANTS Fading,       \* age -> weight, falling
          Share,        \* [ci |-> full, plugin |-> less]
          MinVolume,    \* decayed weight below which a tenant does not count
          High, Low     \* rates, in percent

\* Events dated in the future are of today.
AgeOf(observation) == Max({0, observation.age})

WeightOf(observation) == Share[observation.source] * Fading[AgeOf(observation)]

Of(observations, tenant) == {i \in DOMAIN observations : observations[i].tenant = tenant}

Tenants(observations) == {observations[i].tenant : i \in DOMAIN observations}

Volume(observations, tenant) ==
    MapThenSumSet(LAMBDA i : WeightOf(observations[i]), Of(observations, tenant))

Kept(observations, tenant) ==
    MapThenSumSet(LAMBDA i : WeightOf(observations[i]) * observations[i].kept,
                  Of(observations, tenant))

\* Tenants that cleared the volume; "global" is a tenant like the others.
Counted(observations) ==
    {t \in Tenants(observations) : Volume(observations, t) >= MinVolume}

ClassifyAdoptionAxis(kept, weight) ==
    IF weight = 0 THEN "insufficient"
    ELSE IF 100 * kept >= High * weight THEN "high"
    ELSE IF 100 * kept <= Low * weight THEN "low"
    ELSE "inconclusive"

AdoptionAxis(observations) ==
    ClassifyAdoptionAxis(
        MapThenSumSet(LAMBDA t : Kept(observations, t), Counted(observations)),
        MapThenSumSet(LAMBDA t : Volume(observations, t), Counted(observations)))

JoinVerdict(baselineMatches, adoption) ==
    CASE adoption \in {"inconclusive", "insufficient"} -> "hold"
      [] adoption = "high" -> IF baselineMatches THEN "deprecate_review" ELSE "keep"
      [] adoption = "low"  -> IF baselineMatches THEN "obsolete_review" ELSE "watch"

ComputeAdoptionVerdict(baselineMatches, observations) ==
    JoinVerdict(baselineMatches, AdoptionAxis(observations))

\* Verified usage of the product; a thumbs-down on its session means dropped.
ToObservations(events, thumbedDown, sourceOf) ==
    LET usable(e) == e.meter # "api_call" /\ e.verified /\ e.session # "none"
        used == SelectSeq(events, usable)
    IN [i \in DOMAIN used |->
            [age |-> used[i].age, tenant |-> used[i].tenant, source |-> sourceOf[used[i].source],
             kept |-> IF used[i].session \in thumbedDown THEN 0 ELSE 1]]

Rank(axis) == CASE axis = "low" -> 0 [] axis = "inconclusive" -> 1 [] axis = "high" -> 2

(* The verdict is the one over the tenants that count, and says more than  *)
(* `hold' only when one does; if every tenant that counts is low (high),   *)
(* so is the whole; a drop never helps a skill; and an event that arrives  *)
(* late or early by a clock never weighs more than one of today.           *)
JudgesAdoption(observations) ==
    LET axis    == AdoptionAxis(observations)
        loud    == SelectSeq(observations, LAMBDA o : o.tenant \in Counted(observations))
        axisOf(t) == ClassifyAdoptionAxis(Kept(observations, t), Volume(observations, t))
        dropped(i) == [observations EXCEPT ![i].kept = 0]
    IN /\ AdoptionAxis(loud) = axis
       /\ axis = "insufficient" <=> Counted(observations) = {}
       /\ \A kind \in {"low", "high"} :
             Counted(observations) # {} /\ (\A t \in Counted(observations) : axisOf(t) = kind)
                 => axis = kind
       /\ axis # "insufficient" =>
             \A i \in DOMAIN observations : Rank(AdoptionAxis(dropped(i))) <= Rank(axis)
       /\ \A i \in DOMAIN observations :
             WeightOf(observations[i]) <= Share[observations[i].source] * Fading[0]

-----------------------------------------------------------------------------
(* eval-set-metrics.ts.  An item is [type, prompt, adversarial]; prompts   *)
(* are compared trimmed and in lower case.                                 *)

Types(items) == {items[i].type : i \in DOMAIN items}

\* The entropy itself is a real number: which sets score nothing is kept.
CoversNothing(items) == Cardinality(Types(items)) <= 1

CountOf(items, type) == Cardinality({i \in DOMAIN items : items[i].type = type})

\* Against itself a set leaks its repetitions; against another, whatever
\* prompt occurs there, as often as it occurs here.
LeakingIn(items, reference, itself) ==
    {i \in DOMAIN items :
        IF itself THEN \E j \in 1..(i - 1) : items[j].prompt = items[i].prompt
        ELSE \E j \in DOMAIN reference : reference[j].prompt = items[i].prompt}

OverlapRatio(items, reference, itself) ==
    IF items = <<>> \/ reference = <<>> THEN <<0, 1>>
    ELSE <<Cardinality(LeakingIn(items, reference, itself)), Min({Len(items), Len(reference)})>>

\* Predictions are [confidence, correct], in percent and 0 or 100; ten bins,
\* the last with its end.
BinOf(confidence) == Min({confidence \div 10, 9})

InBin(predictions, bin) == {i \in DOMAIN predictions : BinOf(predictions[i].confidence) = bin}

BrierSum(predictions) ==
    MapThenSumSet(LAMBDA i : (predictions[i].confidence - predictions[i].correct)
                             * (predictions[i].confidence - predictions[i].correct),
                  DOMAIN predictions)

\* count/n * |accuracy - confidence| is |sum of both differences| / n.
EceSum(predictions) ==
    MapThenSumSet(LAMBDA bin :
        LET gap == MapThenSumSet(
                      LAMBDA i : predictions[i].correct - predictions[i].confidence + 100,
                      InBin(predictions, bin)) - 100 * Cardinality(InBin(predictions, bin))
        IN IF gap < 0 THEN -gap ELSE gap,
        0..9)

\* Passed and total over the adversarial items; a rate only with one of them.
\* The last result of an item counts; an item without a result did not pass.
AdversarialPassRate(items, results) ==
    LET hard   == {i \in DOMAIN items : items[i].adversarial}
        last(i) == {k \in DOMAIN results : results[k].id = items[i].id}
        passed == {i \in hard : last(i) # {} /\ results[Max(last(i))].passed}
    IN [passed |-> Cardinality(passed), total |-> Cardinality(hard)]

(* Against itself a set leaks what it has beyond its distinct prompts, and *)
(* a set of distinct prompts leaks at most all of the smaller set.         *)
LeaksWell(items, reference) ==
    LET prompts  == {items[i].prompt : i \in DOMAIN items}
        self     == OverlapRatio(items, items, TRUE)
        other    == OverlapRatio(items, reference, FALSE)
    IN /\ items # <<>> => self[1] = Len(items) - Cardinality(prompts)
       /\ Cardinality(prompts) = Len(items) => other[1] <= other[2]

(* eval-set-metrics.ts:198 "1.0 = every item in the smaller set has a      *)
(* match": not an upper bound when a prompt is repeated.                   *)
RatioIsProportion(items, reference) ==
    OverlapRatio(items, reference, FALSE)[1] <= OverlapRatio(items, reference, FALSE)[2]

(* The calibration error never exceeds what a judge is wrong by in total,  *)
(* and a judge that is sure and right has neither error.                   *)
CalibratesWell(predictions) ==
    /\ EceSum(predictions) <=
          MapThenSumSet(LAMBDA i : LET gap == predictions[i].correct - predictions[i].confidence
                                   IN IF gap < 0 THEN -gap ELSE gap, DOMAIN predictions)
    /\ (\A i \in DOMAIN predictions : predictions[i].confidence = predictions[i].correct)
          <=> BrierSum(predictions) = 0
    /\ BrierSum(predictions) = 0 => EceSum(predictions) = 0
=============================================================================
