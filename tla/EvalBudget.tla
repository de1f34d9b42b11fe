----------------------------- MODULE EvalBudget -----------------------------
(***************************************************************************)
(* The limits of one `j-rig eval' invocation and the order in which they   *)
(* are tested (cli/src/providers/budget.ts).  A set of limits is a         *)
(* function whose domain is the names of the limits that are set.          *)
(***************************************************************************)
EXTENDS Integers

LimitName == {"max_usd", "max_tokens", "max_calls", "max_wall_ms"}

\* A partial assignment of limits, as the operator or the spec may give it.
IsLimits(f) == DOMAIN f \subseteq LimitName /\ f \in [DOMAIN f -> Nat \ {0}]

\* mergeBudgetLimits: the stricter of the spec's and the run's limit.
RunIsStricter(spec, run, name) ==
    /\ name \in DOMAIN run
    /\ name \in DOMAIN spec => run[name] < spec[name]

MergeLimits(spec, run) ==
    [name \in DOMAIN spec \cup DOMAIN run |->
        IF RunIsStricter(spec, run, name) THEN run[name] ELSE spec[name]]

(***************************************************************************)
(* What RunBudget.spent() reports: calls and tokens summed over every      *)
(* model's meter, whether a metered model has no rate on file, and the     *)
(* wall clock.  One token of a priced model costs one unit of max_usd.     *)
(***************************************************************************)
Spent(calls, tokens, unpriced, wall) ==
    [calls |-> calls, tokens |-> tokens, unpriced |-> unpriced, wall |-> wall]

Exhausts(limits, spent, name) ==
    /\ name \in DOMAIN limits
    /\ CASE name = "max_usd"     -> spent.unpriced \/ spent.tokens >= limits[name]
         [] name = "max_tokens"  -> spent.tokens >= limits[name]
         [] name = "max_calls"   -> spent.calls >= limits[name]
         [] name = "max_wall_ms" -> spent.wall >= limits[name]

NoStop == "none"

\* RunBudget.check(): the first exhausted limit in the source's order.
FirstExhausted(limits, spent) ==
    IF Exhausts(limits, spent, "max_usd") THEN "max_usd"
    ELSE IF Exhausts(limits, spent, "max_tokens") THEN "max_tokens"
    ELSE IF Exhausts(limits, spent, "max_calls") THEN "max_calls"
    ELSE IF Exhausts(limits, spent, "max_wall_ms") THEN "max_wall_ms"
    ELSE NoStop
=============================================================================
