------------------------------- MODULE EvalRun -------------------------------
(***************************************************************************)
(* One invocation of `j-rig eval' (cli/src/commands/eval.ts): for every    *)
(* model of --models a run row is created, routing is tested, the test     *)
(* cases are executed and judged, the same again without the skill when    *)
(* --baseline-check is given, and the judgments are folded into a gate     *)
(* decision.  Every provider call goes through the budget guard and the    *)
(* cost meter; the samples of one judge criterion run concurrently.        *)
(*                                                                         *)
(* JavaScript runs one callback at a time, so a step of the model is what  *)
(* happens between two awaits, split again wherever a database or file     *)
(* write could be the last thing the process does before it dies.          *)
(***************************************************************************)
EXTENDS Governance, EvalBudget, RunLifecycle

CONSTANTS
    N,             \* length of the --models list (distinct models)
    TriggerCases,  \* number of test cases with a trigger_expectation
    Cases,         \* number of functionally executed test cases
    Criteria,      \* the spec's criteria
    Applicable,    \* the criteria of each test case, in spec order
    Method,        \* "judge" or "deterministic", per criterion
    Blockers,      \* criteria (and "self-test") marked blocker
    Sacred,        \* criteria marked regression_critical
    Threshold,     \* min_blocker_agreement
    TokenCosts,    \* token usage one metered call may report
    Unpriced,      \* whether a metered model may have no rate on file
    WallBound,     \* bound: how far the wall clock is followed
    Invocations    \* the flags and spec settings to consider

Position == 1..N
EvalPhase == {"trigger", "execution", "judge"}
Pass == {"skill", "baseline"}
SelfTest == "self-test"

(***************************************************************************)
(* An invocation: which layers are requested, the verdict of the self-test *)
(* ("off" when it did not run), the --regression-baseline file ("off",     *)
(* "malformed", or the rows in it), the samples each criterion asks for,   *)
(* the sample concurrency (0: not set) and the two sources of limits.      *)
(***************************************************************************)
RegressionFile ==
    [kind : {"off", "malformed"}, rows : {<<>>}]
        \cup [kind : {"rows"}, rows : Seq([criterion : Criteria \cup {SelfTest}, verdict : Verdict])]

IsInvocation(v) ==
    /\ {v.trigger, v.functional, v.baseline, v.bundle} \subseteq BOOLEAN
    /\ v.selfTest \in {"off", "yes", "no"}
    /\ v.regression \in RegressionFile
    /\ v.samples \in [Criteria -> Nat \ {0}]
    /\ v.concurrency \in Nat
    /\ IsLimits(v.specLimits) /\ IsLimits(v.runLimits)

ASSUME EvalAssumption ==
    /\ N \in Nat \ {0}
    /\ TriggerCases \in Nat
    /\ Cases \in Nat
    /\ SelfTest \notin Criteria
    /\ Applicable \in [1..Cases -> Seq(Criteria)]
    /\ Method \in [Criteria -> {"judge", "deterministic"}]
    /\ Blockers \subseteq Criteria \cup {SelfTest}
    /\ Sacred \subseteq Criteria
    /\ TokenCosts \subseteq Nat
    /\ Unpriced \subseteq BOOLEAN
    /\ WallBound \in Nat
    /\ \A v \in Invocations : IsInvocation(v)

VARIABLES
    inv,        \* the invocation being served
    pc,         \* where the action handler stands
    model,      \* index of the model (and of its run row) being evaluated
    pass,       \* "skill", or "baseline" for the naked pass
    item,       \* index of the test case the current loop has reached
    crit,       \* index of its criterion the judging loop has reached
    pool,       \* the provider calls of the current await
    triggers,   \* triggerResults of this model: "ok" or "error"
    outcomes,   \* observed outcomes of each pass: "ok" or "error"
    judgments,  \* judgment rows of each pass
    phase,      \* costMeter.phase
    meter,      \* the EvalCostMeter of this model
    closed,     \* what RunBudget summed from the earlier models' meters
    stop,       \* RunBudget's latch
    wall,       \* elapsed wall time
    status,     \* the runs table
    reason,     \* its error_message: "none", "budget" or "infra"
    saved,      \* what each run has persisted
    gate,       \* the gate decision of each run ("none" until there is one)
    listing,    \* allResults, the row printed for each model
    bundle,     \* bundleRows: runs with a composed statement, in memory
    bundleFile, \* the Evidence Bundle on disk
    seen,       \* infrastructureFailureSeen and budgetStopSeen
    exit,       \* "alive", "killed" or the exit code
    \* History, read by the properties only.
    refused,    \* the guard refused a call of this run
    broken,     \* a call of this run failed so that something was not evaluated
    answered,   \* metered answers of the current model, by the phase that asked
    charged     \* metered answers of the whole invocation

ledger  == <<status, reason, saved>>
results == <<triggers, outcomes, judgments>>
spend   == <<phase, meter, closed, stop>>
output  == <<gate, listing, bundle, bundleFile, seen>>
history == <<refused, broken, answered, charged>>
cursor  == <<pc, model, pass, item, crit>>
vars    == <<inv, cursor, pool, results, spend, wall, ledger, output, exit, history>>

-----------------------------------------------------------------------------
(* The budget seen by this invocation. *)

RunLimits == MergeLimits(inv.specLimits, inv.runLimits)

NoCalls == [p \in EvalPhase |-> 0]
EmptyMeter == [calls |-> NoCalls, tokens |-> 0, unpriced |-> FALSE]
NothingClosed == [calls |-> 0, tokens |-> 0, unpriced |-> FALSE]

CallsOf(m) == m.calls["trigger"] + m.calls["execution"] + m.calls["judge"]

\* RunBudget.spent: the closed reports plus the current meter's.
SpentNow == Spent(closed.calls + CallsOf(meter), closed.tokens + meter.tokens,
                  closed.unpriced \/ meter.unpriced, wall)

\* RunBudget.check: the latch, or the first limit that is exhausted now.
BudgetCheck == IF stop # NoStop THEN stop ELSE FirstExhausted(RunLimits, SpentNow)

\* Mutant: every model starts from an empty budget.
AttachMeterForgetful == closed' = NothingClosed /\ meter' = EmptyMeter

\* RunBudget.attach: the previous model's meter is closed, a fresh one follows.
AttachMeter ==
    /\ closed' = [calls    |-> closed.calls + CallsOf(meter),
                  tokens   |-> closed.tokens + meter.tokens,
                  unpriced |-> closed.unpriced \/ meter.unpriced]
    /\ meter' = EmptyMeter

\* EvalCostMeter.record: a call counts for the phase the meter is in now.
RecordUsage(cost, unpriced) ==
    meter' = [calls    |-> [meter.calls EXCEPT ![phase] = @ + 1],
              tokens   |-> meter.tokens + cost,
              unpriced |-> meter.unpriced \/ unpriced]

-----------------------------------------------------------------------------
(* Infrastructure failures. *)

SomeError(results1) == \E i \in DOMAIN results1 : results1[i] = "error"
SomeDead(rows) == \E i \in DOMAIN rows : rows[i].dead

\* Mutant: a judge that never ran is not an infrastructure failure.
InfraFailureBlind == SomeError(triggers) \/ \E p \in Pass : SomeError(outcomes[p])

\* detectInfrastructureFailure over triggers, outcomes and judgments.
InfraFailure ==
    \/ SomeError(triggers)
    \/ \E p \in Pass : SomeError(outcomes[p]) \/ SomeDead(judgments[p])

-----------------------------------------------------------------------------
Init ==
    /\ inv \in Invocations
    /\ pc = "preflight" /\ model = 1 /\ pass = "skill" /\ item = 1 /\ crit = 1
    /\ pool = <<>>
    /\ triggers = <<>>
    /\ outcomes = [p \in Pass |-> <<>>]
    /\ judgments = [p \in Pass |-> <<>>]
    /\ phase = "trigger" /\ meter = EmptyMeter /\ closed = NothingClosed
    /\ stop = NoStop /\ wall = 0
    /\ status = [r \in Position |-> "absent"]
    /\ reason = [r \in Position |-> "none"]
    /\ saved = [r \in Position |-> {}]
    /\ gate = [r \in Position |-> "none"]
    /\ listing = [r \in Position |-> "none"]
    /\ bundle = <<>> /\ bundleFile = <<>>
    /\ seen = [infra |-> FALSE, budget |-> FALSE]
    /\ exit = "alive"
    /\ refused = [r \in Position |-> FALSE]
    /\ broken = [r \in Position |-> FALSE]
    /\ answered = NoCalls
    /\ charged = 0

\* The handler stands at `place' with no call outstanding.
At(place) == exit = "alive" /\ pc = place /\ pool = <<>>

Goto(place) == pc' = place

(* Flags, spec and package are validated before the first run exists.      *)
Preflight ==
    /\ At("preflight")
    /\ \/ Goto("create") /\ UNCHANGED exit
       \/ exit' = "1" /\ UNCHANGED pc
    /\ UNCHANGED <<inv, model, pass, item, crit, pool, results, spend, wall, ledger,
                   output, history>>

BeginRun ==
    /\ At("create")
    /\ CreateRun(status, status', model)
    /\ Goto("start")
    /\ UNCHANGED <<inv, model, pass, item, crit, pool, results, spend, wall, reason,
                   saved, output, exit, history>>

(* The run goes "running", and a fresh meter in phase "trigger" is         *)
(* attached to the budget, before the providers are resolved.              *)
StartRun ==
    /\ At("start")
    /\ TransitionRun(status, status', model, "running")
    /\ AttachMeter
    /\ phase' = "trigger"
    /\ triggers' = <<>>
    /\ outcomes' = [p \in Pass |-> <<>>]
    /\ judgments' = [p \in Pass |-> <<>>]
    /\ answered' = NoCalls
    /\ Goto("providers")
    /\ UNCHANGED <<inv, model, pass, item, crit, pool, stop, wall, reason, saved,
                   output, exit, refused, broken, charged>>

SelectProviders ==
    /\ At("providers")
    /\ item' = 1
    /\ Goto("trigger")
    /\ UNCHANGED <<inv, model, pass, crit, pool, results, spend, wall, ledger, output,
                   exit, history>>

-----------------------------------------------------------------------------
(* Provider calls.  `pool' holds the tasks of the current await: one task  *)
(* for a trigger or execution call, one per sample for a judge criterion.  *)

CriterionAt == Applicable[item][crit]

Limit == IF pc = "judge" /\ inv.concurrency > 0 THEN inv.concurrency ELSE Len(pool)

OpenCall(tasks) == pool' = [i \in 1..tasks |-> "todo"]

\* Mutant: the call goes out and the budget is checked afterwards.
IssueThenCheck(i) ==
    /\ exit = "alive"
    /\ CanClaim(pool, Limit, i)
    /\ stop' = BudgetCheck
    /\ pool' = [pool EXCEPT ![i] = "flying"]
    /\ refused' = [refused EXCEPT ![model] = @ \/ BudgetCheck # NoStop]
    /\ UNCHANGED <<inv, cursor, results, phase, meter, closed, wall, ledger, output,
                   exit, broken, answered, charged>>

(* A worker claims its next task and enters the guarded provider.  The     *)
(* guard either refuses, latching the reason, or lets the call go out.     *)
Issue(i) ==
    /\ exit = "alive"
    /\ CanClaim(pool, Limit, i)
    /\ stop' = BudgetCheck
    /\ pool' = [pool EXCEPT ![i] = IF BudgetCheck = NoStop THEN "flying" ELSE "error"]
    /\ refused' = [refused EXCEPT ![model] = @ \/ BudgetCheck # NoStop]
    /\ UNCHANGED <<inv, cursor, results, phase, meter, closed, wall, ledger, output,
                   exit, broken, answered, charged>>

ReplyTo(place) == IF place = "judge" THEN SampleResult ELSE {"ok", "error"}

PhaseOf(place) ==
    CASE place = "trigger" -> "trigger"
      [] place = "execute" -> "execution"
      [] place = "judge"   -> "judge"

(* A call comes back, in any order among those in flight.  Every worker    *)
(* has run up to its await before an answer is delivered.  Usage is        *)
(* recorded when the adapter reports it, for a call that then fails too.   *)
Answer(i) ==
    /\ exit = "alive"
    /\ i \in InFlight(pool)
    /\ \A j \in DOMAIN pool : ~CanClaim(pool, Limit, j)
    /\ \E reply \in ReplyTo(pc) : pool' = [pool EXCEPT ![i] = reply]
    /\ \/ /\ \E cost \in TokenCosts, unpriced \in Unpriced : RecordUsage(cost, unpriced)
          /\ answered' = [answered EXCEPT ![PhaseOf(pc)] = @ + 1]
          /\ charged' = charged + 1
       \/ UNCHANGED <<meter, answered, charged>>
    /\ UNCHANGED <<inv, cursor, results, phase, closed, stop, wall, ledger, output,
                   exit, refused, broken>>

NoteBroken(failed) == broken' = [broken EXCEPT ![model] = @ \/ failed]

-----------------------------------------------------------------------------
(* Trigger layer. *)

TriggerItems == IF inv.trigger THEN TriggerCases ELSE 0

OpenTrigger ==
    /\ At("trigger")
    /\ item <= TriggerItems
    /\ OpenCall(1)
    /\ UNCHANGED <<inv, cursor, results, spend, wall, ledger, output, exit, history>>

SettleTrigger ==
    /\ exit = "alive" /\ pc = "trigger" /\ PoolSettled(pool)
    /\ triggers' = Append(triggers, pool[1])
    /\ NoteBroken(pool[1] = "error")
    /\ item' = item + 1
    /\ pool' = <<>>
    /\ UNCHANGED <<inv, pc, model, pass, crit, outcomes, judgments, spend, wall, ledger,
                   output, exit, refused, answered, charged>>

(* The routing receipt is persisted even when the budget stopped the layer. *)
StoreTriggerEvidence ==
    /\ At("trigger")
    /\ item > TriggerItems
    /\ saved' = [saved EXCEPT ![model] = @ \cup {"trigger"}]
    /\ Goto("triggered")
    /\ UNCHANGED <<inv, model, pass, item, crit, pool, results, spend, wall, status,
                   reason, output, exit, history>>

\* Mutant: the loop runs one model too far.
NextModelOffByOne ==
    IF model <= N THEN Goto("create") /\ model' = model + 1
                  ELSE Goto("wrapup") /\ UNCHANGED model

NextModel ==
    IF model < N THEN Goto("create") /\ model' = model + 1
                 ELSE Goto("wrapup") /\ UNCHANGED model

\* Mutant: a budget stop goes on with the next model.
StopForBudgetAndGoOn ==
    /\ exit = "alive" /\ pool = <<>> /\ pc \in {"triggered", "judged", "compared"}
    /\ stop # NoStop
    /\ seen' = [seen EXCEPT !.budget = TRUE]
    /\ TransitionRun(status, status', model, "failed")
    /\ reason' = [reason EXCEPT ![model] = "budget"]
    /\ listing' = [listing EXCEPT ![model] = "budget_stop"]
    /\ NextModel
    /\ UNCHANGED <<inv, pass, item, crit, pool, results, spend, wall, saved, gate,
                   bundle, bundleFile, exit, history>>

(* stopForBudget, at the three places where the latch is looked at.        *)
StopForBudget ==
    /\ exit = "alive" /\ pool = <<>> /\ pc \in {"triggered", "judged", "compared"}
    /\ stop # NoStop
    /\ seen' = [seen EXCEPT !.budget = TRUE]
    /\ TransitionRun(status, status', model, "failed")
    /\ reason' = [reason EXCEPT ![model] = "budget"]
    /\ listing' = [listing EXCEPT ![model] = "budget_stop"]
    /\ Goto("wrapup")
    /\ UNCHANGED <<inv, model, pass, item, crit, pool, results, spend, wall, saved, gate,
                   bundle, bundleFile, exit, history>>

\* Mutant: a trigger-only run completes whatever the routing calls did.
FinishTriggerOnlyBlind ==
    /\ At("triggered")
    /\ stop = NoStop /\ ~inv.functional
    /\ TransitionRun(status, status', model, "completed")
    /\ listing' = [listing EXCEPT ![model] = "trigger_only"]
    /\ NextModel
    /\ UNCHANGED <<inv, pass, item, crit, pool, results, spend, wall, reason, saved, gate,
                   bundle, bundleFile, seen, exit, history>>

(* --no-functional: only routing is reported, no gate decision is made.    *)
FinishTriggerOnly ==
    /\ At("triggered")
    /\ stop = NoStop /\ ~inv.functional
    /\ LET failed == SomeError(triggers) IN
       /\ seen' = [seen EXCEPT !.infra = @ \/ failed]
       /\ TransitionRun(status, status', model, IF failed THEN "failed" ELSE "completed")
       /\ reason' = [reason EXCEPT ![model] = IF failed THEN "infra" ELSE "none"]
       /\ listing' = [listing EXCEPT ![model] = IF failed THEN "error" ELSE "trigger_only"]
    /\ NextModel
    /\ UNCHANGED <<inv, pass, item, crit, pool, results, spend, wall, saved, gate, bundle,
                   bundleFile, exit, history>>

-----------------------------------------------------------------------------
(* Functional layer, with the skill and (pass "baseline") without it. *)

StartFunctional ==
    /\ At("triggered")
    /\ stop = NoStop /\ inv.functional
    /\ phase' = "execution"
    /\ pass' = "skill" /\ item' = 1
    /\ Goto("execute")
    /\ UNCHANGED <<inv, model, crit, pool, results, meter, closed, stop, wall, ledger,
                   output, exit, history>>

OpenExecution ==
    /\ At("execute")
    /\ item <= Cases
    /\ OpenCall(1)
    /\ UNCHANGED <<inv, cursor, results, spend, wall, ledger, output, exit, history>>

SettleExecution ==
    /\ exit = "alive" /\ pc = "execute" /\ PoolSettled(pool)
    /\ outcomes' = [outcomes EXCEPT ![pass] = Append(@, pool[1])]
    /\ NoteBroken(pool[1] = "error")
    /\ item' = item + 1
    /\ pool' = <<>>
    /\ UNCHANGED <<inv, pc, model, pass, crit, triggers, judgments, spend, wall, ledger,
                   output, exit, refused, answered, charged>>

\* Mutant: the meter stays in the execution phase.
StartJudgingUnphased ==
    /\ At("execute")
    /\ item > Cases
    /\ item' = 1 /\ crit' = 1
    /\ Goto("judge")
    /\ UNCHANGED <<inv, model, pass, pool, results, spend, wall, ledger, output, exit,
                   history>>

StartJudging ==
    /\ At("execute")
    /\ item > Cases
    /\ phase' = "judge"
    /\ item' = 1 /\ crit' = 1
    /\ Goto("judge")
    /\ UNCHANGED <<inv, model, pass, pool, results, meter, closed, stop, wall, ledger,
                   output, exit, history>>

(* The skill pass looks at the latch before each outcome, the naked pass   *)
(* does not; neither looks at it between two criteria of an outcome.       *)
MustBreak == pass = "skill" /\ crit = 1 /\ stop # NoStop

InJudgeLoop == At("judge") /\ item <= Cases /\ ~MustBreak

\* Mutant: a failed execution is not skipped.
NextOutcomeStuck ==
    /\ InJudgeLoop
    /\ outcomes[pass][item] # "error" /\ crit > Len(Applicable[item])
    /\ item' = item + 1 /\ crit' = 1
    /\ UNCHANGED <<inv, pc, model, pass, pool, results, spend, wall, ledger, output, exit,
                   history>>

NextOutcome ==
    /\ InJudgeLoop
    /\ outcomes[pass][item] = "error" \/ crit > Len(Applicable[item])
    /\ item' = item + 1 /\ crit' = 1
    /\ UNCHANGED <<inv, pc, model, pass, pool, results, spend, wall, ledger, output, exit,
                   history>>

AtCriterion(method) ==
    /\ InJudgeLoop
    /\ outcomes[pass][item] # "error"
    /\ crit <= Len(Applicable[item])
    /\ Method[CriterionAt] = method

AddJudgment(row) ==
    /\ judgments' = [judgments EXCEPT ![pass] = Append(@, row)]
    /\ NoteBroken(row.dead)
    /\ crit' = crit + 1

JudgeDeterministic ==
    /\ AtCriterion("deterministic")
    /\ \E passed \in BOOLEAN : AddJudgment(DeterministicJudgment(CriterionAt, item, passed))
    /\ UNCHANGED <<inv, pc, model, pass, item, pool, triggers, outcomes, spend, wall, ledger,
                   output, exit, refused, answered, charged>>

AskJudge ==
    /\ AtCriterion("judge")
    /\ OpenCall(inv.samples[CriterionAt])
    /\ UNCHANGED <<inv, cursor, results, spend, wall, ledger, output, exit, history>>

SettleJudgment ==
    /\ exit = "alive" /\ pc = "judge" /\ PoolSettled(pool)
    /\ AddJudgment(FoldSamples(CriterionAt, item, pool))
    /\ pool' = <<>>
    /\ UNCHANGED <<inv, pc, model, pass, item, triggers, outcomes, spend, wall, ledger,
                   output, exit, refused, answered, charged>>

LeaveJudging ==
    /\ At("judge")
    /\ item > Cases \/ MustBreak
    /\ Goto(IF pass = "skill" THEN "judged" ELSE "compared")
    /\ UNCHANGED <<inv, model, pass, item, crit, pool, results, spend, wall, ledger, output,
                   exit, history>>

-----------------------------------------------------------------------------
(* Persisting and folding the judgments. *)

(* The self-test verdict joins the skill's judgments before they are       *)
(* stored; the rows and the summary are separate writes.                   *)
StoreResults ==
    /\ At("judged")
    /\ stop = NoStop
    /\ judgments' = IF inv.selfTest = "off" THEN judgments
                    ELSE [judgments EXCEPT !["skill"] =
                             Append(@, DeterministicJudgment(SelfTest, 0, inv.selfTest = "yes"))]
    /\ saved' = [saved EXCEPT ![model] = @ \cup {"results"}]
    /\ Goto("summarise")
    /\ UNCHANGED <<inv, model, pass, item, crit, pool, triggers, outcomes, spend, wall,
                   status, reason, output, exit, history>>

(* With --baseline-check the whole functional layer runs a second time.    *)
StoreSummary ==
    /\ At("summarise")
    /\ saved' = [saved EXCEPT ![model] = @ \cup {"summary"}]
    /\ IF inv.baseline
       THEN Goto("execute") /\ pass' = "baseline" /\ item' = 1 /\ phase' = "execution"
       ELSE Goto("compared") /\ UNCHANGED <<pass, item, phase>>
    /\ UNCHANGED <<inv, model, crit, pool, results, meter, closed, stop, wall, status,
                   reason, output, exit, history>>

RunVerdict ==
    IF InfraFailure THEN "error"
    ELSE RunGate(judgments["skill"], judgments["baseline"], inv.regression.kind = "rows",
                 inv.regression.rows, Blockers, Sacred, Threshold)

\* Mutant: a run with an infrastructure failure gets no bundle row.
ConcludeErrorsUnbundled ==
    /\ At("compared")
    /\ stop = NoStop
    /\ inv.regression.kind # "malformed"
    /\ gate' = [gate EXCEPT ![model] = RunVerdict]
    /\ listing' = [listing EXCEPT ![model] = IF InfraFailure THEN "error" ELSE "verdict"]
    /\ seen' = [seen EXCEPT !.infra = @ \/ InfraFailure]
    /\ bundle' = IF inv.bundle /\ ~InfraFailure THEN Append(bundle, model) ELSE bundle
    /\ TransitionRun(status, status', model, IF InfraFailure THEN "failed" ELSE "completed")
    /\ reason' = [reason EXCEPT ![model] = IF InfraFailure THEN "infra" ELSE "none"]
    /\ NextModel
    /\ UNCHANGED <<inv, pass, item, crit, pool, results, spend, wall, saved, bundleFile,
                   exit, history>>

(* The gate decision, the listing row, the in-memory bundle row and the    *)
(* terminal status.  A malformed --regression-baseline throws instead.     *)
Conclude ==
    /\ At("compared")
    /\ stop = NoStop
    /\ inv.regression.kind # "malformed"
    /\ gate' = [gate EXCEPT ![model] = RunVerdict]
    /\ listing' = [listing EXCEPT ![model] = IF InfraFailure THEN "error" ELSE "verdict"]
    /\ seen' = [seen EXCEPT !.infra = @ \/ InfraFailure]
    /\ bundle' = IF inv.bundle THEN Append(bundle, model) ELSE bundle
    /\ TransitionRun(status, status', model, IF InfraFailure THEN "failed" ELSE "completed")
    /\ reason' = [reason EXCEPT ![model] = IF InfraFailure THEN "infra" ELSE "none"]
    /\ NextModel
    /\ UNCHANGED <<inv, pass, item, crit, pool, results, spend, wall, saved, bundleFile,
                   exit, history>>

-----------------------------------------------------------------------------
(* After the loop over the models. *)

\* Mutant: a skipped model has no row in the listing.
WrapUpUnlisted ==
    /\ At("wrapup")
    /\ item' = 1
    /\ IF inv.bundle /\ bundle # <<>>
       THEN bundleFile' = bundle /\ Goto("record")
       ELSE Goto("exit") /\ UNCHANGED bundleFile
    /\ UNCHANGED <<inv, model, pass, crit, pool, results, spend, wall, ledger, gate, listing,
                   bundle, seen, exit, history>>

(* A budget stop gives every model without a row a "skipped" row; the      *)
(* bundle file is written when some run reached its statement.             *)
WrapUp ==
    /\ At("wrapup")
    /\ listing' = [r \in Position |->
                      IF seen.budget /\ listing[r] = "none" THEN "skipped" ELSE listing[r]]
    /\ item' = 1
    /\ IF inv.bundle /\ bundle # <<>>
       THEN bundleFile' = bundle /\ Goto("record")
       ELSE Goto("exit") /\ UNCHANGED bundleFile
    /\ UNCHANGED <<inv, model, pass, crit, pool, results, spend, wall, ledger, gate, bundle,
                   seen, exit, history>>

RecordBundle ==
    /\ At("record")
    /\ saved' = [saved EXCEPT ![bundle[item]] = @ \cup {"bundle"}]
    /\ item' = item + 1
    /\ IF item = Len(bundle) THEN Goto("exit") ELSE UNCHANGED pc
    /\ UNCHANGED <<inv, model, pass, crit, pool, results, spend, wall, status, reason,
                   output, exit, history>>

\* Mutant: an infrastructure failure wins over a budget stop.
ExitInfraFirst ==
    /\ At("exit")
    /\ exit' = IF seen.infra THEN "2" ELSE IF seen.budget THEN "3" ELSE "0"
    /\ UNCHANGED <<inv, cursor, pool, results, spend, wall, ledger, output, history>>

Exit ==
    /\ At("exit")
    /\ exit' = IF seen.budget THEN "3" ELSE IF seen.infra THEN "2" ELSE "0"
    /\ UNCHANGED <<inv, cursor, pool, results, spend, wall, ledger, output, history>>

-----------------------------------------------------------------------------
(* Anything but a provider call may throw (no key for a provider, a        *)
(* malformed baseline file, a failing write): the handler prints the error *)
(* and exits 1 on the spot.                                                *)
Throw ==
    /\ exit = "alive" /\ pool = <<>>
    /\ pc \notin {"preflight", "exit"}
    /\ exit' = "1"
    /\ UNCHANGED <<inv, cursor, pool, results, spend, wall, ledger, output, history>>

(* The process is killed (a signal, a lost machine).                       *)
Kill ==
    /\ exit = "alive"
    /\ exit' = "killed"
    /\ UNCHANGED <<inv, cursor, pool, results, spend, wall, ledger, output, history>>

(* Time passes; followed only while some call is outstanding and a wall    *)
(* limit is set, and up to WallBound.                                      *)
Tick ==
    /\ exit = "alive" /\ pool # <<>>
    /\ "max_wall_ms" \in DOMAIN RunLimits
    /\ wall < WallBound
    /\ wall' = wall + 1
    /\ UNCHANGED <<inv, cursor, pool, results, spend, ledger, output, exit, history>>

(* The process is gone.                                                    *)
Ended == exit # "alive" /\ UNCHANGED vars

Calling == \E i \in DOMAIN pool : Issue(i) \/ Answer(i)

Progress ==
    \/ Preflight \/ BeginRun \/ StartRun \/ SelectProviders
    \/ Calling
    \/ OpenTrigger \/ SettleTrigger \/ StoreTriggerEvidence \/ FinishTriggerOnly
    \/ StartFunctional \/ OpenExecution \/ SettleExecution
    \/ StartJudging \/ NextOutcome \/ JudgeDeterministic \/ AskJudge \/ SettleJudgment
    \/ LeaveJudging
    \/ StopForBudget \/ StoreResults \/ StoreSummary \/ Conclude
    \/ WrapUp \/ RecordBundle \/ Exit

Next == Progress \/ Throw \/ Kill \/ Tick \/ Ended

Spec == Init /\ [][Next]_vars

\* Mutant: the engine before its default, which passed a judge no timeout.
TimeLimitedNever(place) == FALSE

(* Does a call carry a time limit?  A judge call always does: the engine   *)
(* passes a timeout (120 s by default, also in place of an invalid one),   *)
(* the adapter aborts the request, and the rejected call is an "unsure"    *)
(* sample.  A routing call takes no timeout, the test cases are executed   *)
(* without timeout_ms, and the transport has no limit of its own.  (The    *)
(* claude-code adapter and the tool loop bring a limit; which adapter      *)
(* executes is not modelled, so none is counted on.)                       *)
TimeLimited(place) == place = "judge"

(* The handler awaits an answer that nothing in the code makes come.       *)
AwaitsWithoutLimit == InFlight(pool) # {} /\ ~TimeLimited(pc)

(***************************************************************************)
(* Fairness.  The handler's own steps are scheduled by the JavaScript      *)
(* event loop, and a call with a time limit ends.  Nothing is assumed of a *)
(* call without one: it may hang for ever.  A malformed baseline file      *)
(* always throws.                                                          *)
(***************************************************************************)
Fairness ==
    /\ WF_vars(Progress /\ ~AwaitsWithoutLimit)
    /\ WF_vars(Throw /\ pc = "compared" /\ inv.regression.kind = "malformed")

FairSpec == Spec /\ Fairness

-----------------------------------------------------------------------------
(* Properties. *)

Settled == {i \in Position : status[i] \in {"completed", "failed"}}
Stopped == {i \in Position : status[i] = "failed" /\ reason[i] = "budget"}

TaskState == SampleResult \cup {"todo", "flying", "ok"}

JudgmentRow ==
    [criterion : Criteria \cup {SelfTest}, case : Nat, method : {"judge", "deterministic"},
     verdict : Verdict, samples : Nat, top : Nat, dead : BOOLEAN]

Metered == [calls : [EvalPhase -> Nat], tokens : Nat, unpriced : BOOLEAN]

ControlTypeOK ==
    /\ inv \in Invocations
    /\ pc \in {"preflight", "create", "start", "providers", "trigger", "triggered",
               "execute", "judge", "judged", "summarise", "compared", "wrapup", "record",
               "exit"}
    /\ model \in Position /\ pass \in Pass /\ item \in Nat \ {0} /\ crit \in Nat \ {0}
    /\ exit \in {"alive", "killed", "0", "1", "2", "3"}

ResultsTypeOK ==
    /\ pool \in Seq(TaskState)
    /\ triggers \in Seq({"ok", "error"})
    /\ outcomes \in [Pass -> Seq({"ok", "error"})]
    /\ judgments \in [Pass -> Seq(JudgmentRow)]

SpendTypeOK ==
    /\ phase \in EvalPhase
    /\ meter \in Metered
    /\ closed \in [calls : Nat, tokens : Nat, unpriced : BOOLEAN]
    /\ stop \in LimitName \cup {NoStop}
    /\ wall \in Nat

LedgerTypeOK ==
    /\ status \in [Position -> RunStatus \cup {"absent"}]
    /\ reason \in [Position -> {"none", "budget", "infra"}]
    /\ saved \in [Position -> SUBSET {"trigger", "results", "summary", "bundle"}]

OutputTypeOK ==
    /\ gate \in [Position -> GateResult \cup {"none", "error"}]
    /\ listing \in [Position -> {"none", "verdict", "error", "trigger_only", "budget_stop",
                                 "skipped"}]
    /\ bundle \in Seq(Position)
    /\ bundleFile \in Seq(Position)
    /\ seen \in [infra : BOOLEAN, budget : BOOLEAN]

HistoryTypeOK ==
    /\ refused \in [Position -> BOOLEAN]
    /\ broken \in [Position -> BOOLEAN]
    /\ answered \in [EvalPhase -> Nat]
    /\ charged \in Nat

(* Types of the whole state: the shape of each variable in eval.ts.        *)
TypeOK ==
    /\ ControlTypeOK /\ ResultsTypeOK /\ SpendTypeOK
    /\ LedgerTypeOK /\ OutputTypeOK /\ HistoryTypeOK

(* budget.ts:14-17: whichever of the spec and the flag sets max_calls, the *)
(* whole invocation, not each model, overshoots it by at most the calls    *)
(* in flight when it was reached: one, or the concurrent samples of one    *)
(* judge criterion.  Calls still in flight are counted too.                *)
WorkersOf(c) ==
    IF inv.concurrency \in 1..inv.samples[c] THEN inv.concurrency ELSE inv.samples[c]

MayOvershoot(calls, limit) ==
    calls <= limit \/ \E c \in Criteria : calls < limit + WorkersOf(c)

OvershootBounded ==
    \A limits \in {inv.specLimits, inv.runLimits} :
        "max_calls" \in DOMAIN limits =>
            MayOvershoot(charged + Cardinality(InFlight(pool)), limits["max_calls"])

(* A guard that refused once refuses for the rest of the invocation, over  *)
(* every phase and every later model: the latch is never overwritten and   *)
(* no call goes out behind it.                                             *)
LatchIsFinal ==
    [][stop # NoStop => stop' = stop /\ InFlight(pool') \subseteq InFlight(pool)]_vars

(* No verdict without evidence: a pass, fail or advisory decision (what a  *)
(* bundle row and the rollout gate consume) is only ever given to a run in *)
(* which no call was refused and nothing requested went unevaluated.       *)
VerdictIsEarned ==
    \A i \in Position : gate[i] \in GateResult => ~refused[i] /\ ~broken[i]

(* A "completed" run row promises the evidence behind it: the routing      *)
(* receipt and, for a functional run, rows, summary and a decision.        *)
CompletedIsDocumented ==
    \A i \in Position : status[i] = "completed" =>
        /\ "trigger" \in saved[i]
        /\ inv.functional => {"results", "summary"} \subseteq saved[i] /\ gate[i] \in GateResult
        /\ ~broken[i]

(* Usage is attributed to the phase that asked for it, although record()   *)
(* reads the phase field only when the answer arrives.                     *)
PhaseAttribution == pc \notin {"create", "start"} => meter.calls = answered

(* The bundle on disk holds exactly the runs that got a decision, and only *)
(* those runs carry the artifact row that points at it.                    *)
BundleIsComplete ==
    /\ bundleFile # <<>> =>
          {bundleFile[k] : k \in DOMAIN bundleFile} = {i \in Position : gate[i] # "none"}
    /\ \A i \in Position : "bundle" \in saved[i] =>
          \E k \in DOMAIN bundleFile : bundleFile[k] = i

(* What a finished process left behind: every run is terminal, and the     *)
(* code says whether a budget stop (3), an infrastructure failure (2) or   *)
(* neither (0) happened.                                                   *)
ExitIsHonest ==
    exit \in {"0", "2", "3"} =>
        /\ \A i \in Position : status[i] = "absent" \/ i \in Settled
        /\ exit = "3" <=> \E i \in Position : refused[i]
        /\ exit = "0" => Settled = Position /\ \A i \in Position : ~broken[i]
        /\ exit = "2" => \E i \in Position : reason[i] = "infra"
        /\ inv.bundle /\ (\E i \in Position : gate[i] # "none") => bundleFile # <<>>

(* Every model has a row in the printed listing when the process ends      *)
(* normally, and the row agrees with the stored run.                       *)
ListingAgrees ==
    exit \in {"0", "2", "3"} =>
        \A i \in Position :
            /\ listing[i] = "budget_stop" <=> i \in Stopped
            /\ listing[i] = "skipped" <=> status[i] = "absent"
            /\ listing[i] = "error" <=> status[i] = "failed" /\ reason[i] = "infra"
            /\ listing[i] \in {"verdict", "trigger_only"} <=> status[i] = "completed"

(* The invocation ends, or hangs for ever in one routing call or in the    *)
(* execution of one test case: these calls have no time limit, and no      *)
(* other await, worker pool or loop of the handler can hold it.            *)
EndsUnlessUnanswered ==
    \/ <>(exit # "alive")
    \/ <>[](exit = "alive" /\ pc \in {"trigger", "execute"} /\ pool = <<"flying">>)

(* The invocation keeps the contract of EvalContract.                      *)
OutcomeOf(i) ==
    IF i \in Stopped THEN "stopped"
    ELSE CASE status[i] = "absent" ->
                (IF \E j \in Stopped : j < i THEN "skipped" ELSE "waiting")
           [] status[i] \in {"pending", "running"} -> "running"
           [] status[i] = "completed"             -> "verdict"
           [] OTHER                               -> "error"

Contract == INSTANCE EvalContract WITH outcome <- [i \in Position |-> OutcomeOf(i)],
                                       exit <- exit

ImplementsContract == Contract!ContractSpec

==============================================================================
