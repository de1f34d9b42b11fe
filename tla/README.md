# j-rig: a TLA+ model of the evaluation engine, its hosts and its evidence

j-rig evaluates a skill (a prompt package for an agent) against a spec of test
cases and criteria, on one or several models, and turns the judgments into an
Evidence Bundle that a rollout gate reads. A wrong release can come from far
away: a provider call refused by a budget in a layer nobody looks at, a judge
sample that failed, a file left by yesterday's run, a child process that ends in
a way nobody wrote a test for. These modules model that path, from a single
provider call, through the processes and transports below it, to the release
decision and the signed evidence of the night, and beside it the Refiner that
edits skills under the same engine. They check and prove what it promises.

## 1. The system

| Part (under `packages/`) | State it keeps | Operations | Talks to |
| --- | --- | --- | --- |
| `cli/commands/eval.ts` | local variables of one action handler: current model, outcomes, judgments, `bundleRows`, `allResults`, two flags | one pass over `--models` with trigger, functional, judge, baseline and summary layers; `stopForBudget`; wrap-up and exit | everything below |
| `cli/providers/budget.ts`, `cost-tracking.ts` | closed meters, current meter, latch; `phase` | `attach`, `check`, guard before a call, `record` after it | every provider call |
| `core/trigger`, `core/execution`, `core/judgment` | results of the current loop | run cases one by one; judge criteria, samples of one criterion concurrently | guarded providers |
| `core/governance`, `core/evidence` | none | score card, regressions, baseline, rollout and gate decision, statements | rows in memory |
| `db` (SQLite) | `runs`, criterion results, summaries, artifacts, raw runs, grades | create, transition, store; seal raw run; create grade | commands |
| `rollout-gate` | none | `decide(bundle, policy)` | the bundle file |
| `cli/commands/eval-batch.ts` | `entries`; output directory | one child `j-rig eval` per skill, reports, manifest | child processes, disk |
| `cli/commands/run.ts`, `grade.ts`, `suite.ts` | raw-run ledger, grades, suite audit file | run, seal, grade, resume | `db`, executable runner |
| `core/execution/executable-runner.ts` | one child process | spawn, time out, overflow, kill, settle once | OS |
| `cli/providers/minimax-plan.ts` | queue, next start, quota reading, circuit, one recovery | pace, read the quota, send, wait for a reset, retry once | HTTP |
| `cli/providers/claude-code.ts` | one agent process, stream parser, turn counter, timers | run a case, end it by turn budget, wall clock or the no-key rule | OS |
| `cli/execution/mcp-runtime.ts`, `tool-execution.ts` | tool servers, calls, observations | open, turn, call, report, close | OS, provider bridge |
| `cli/providers/*` adapters, `provider selection` | none | reply or throw to result, result to outcome, vote or routing; which backend | HTTP, environment |
| `refiner`, `refiner-core` | content-addressed store, best pointer, `log.jsonl` | bootstrap, score, propose, apply, promote; accept, decide, meter | disk, providers |
| `ci/emit-evidence`, `scripts`, `.github/workflows/nightly-skill-evals.yml` | build directory, two release assets | run the roster, emit, sign, assemble, compare, publish | child evals, cosign, GitHub |
| `cli/commands/emit-evidence.ts`, `emit-refiner-pass.ts` | none | compose, validate, sign, print | cosign |
| schemas, parsers, checks, optimizer, drift, intentional mapping, reports, `migrate`, `pr-comment`, other scripts | none that outlives a call | one pass each | |

How they interact: `eval.ts` wraps each provider in the cost meter and the
budget guard, so every call of every layer passes `RunBudget.check` before and
`EvalCostMeter.record` after. One meter exists per model, one budget per
invocation. The runs table is written as the run goes, the bundle file once at
the end, its artifact rows after that. The gate sees only the bundle file.

What is hard here:

- **Concurrency.** Up to `--sample-concurrency` judge calls are in flight while
  the budget knows only the calls that came back; answers arrive in any order.
- **Partial failure.** A call may be refused, fail with usage or fail without;
  some loops look at the latch, others do not.
- **Crash.** Anything but a provider call may throw, and the process may be
  killed, between any two writes.
- **Processes and time.** A child that ignores SIGTERM, leaves its group or
  holds the pipes; timers, exits, overflow and host signals race to settle it
  once. A quota reading ages while the request that read it waits.
- **Unreliable calls.** A tool call that was cut off may have had its effect; an
  aborted request may be in the queue, in a sleep or on the wire.
- **Stale state.** A rerun of a batch finds the files of the earlier attempt;
  maps keyed by criterion or by model name merge rows.
- **Ordering of decisions.** Block, obsolete, warn and ship; budget stop before
  infrastructure failure; missing before failing requirement.

What makes each part correct:

| Part | Properties |
| --- | --- |
| budget | the overshoot is bounded; the latch is final; usage goes to the phase that asked |
| eval | verdicts only on complete evidence; database, listing, bundle and exit code agree; it ends unless a call without a time limit is never answered; it implements the simple contract of a list of models |
| judging | failed samples stay in the denominator; the vote is monotone |
| governance | a better judgment never worsens the decision; sacred regressions block; noise neither blocks nor passes |
| rollout gate | fail closed: more evidence never lifts a block |
| batch | exit code 0 covers every skill; the manifest is the last write |
| raw runs, suite | seal once, grade once, a resume repeats nothing done and skips nothing undone |
| executable runner, claude-code | settles once; "completed" only over the whole output; no process of an interrupted host survives |
| MiniMax plan | one retry; no call against a reading that forbids it, too early or for nobody; every caller is told something |
| tool loop | the report covers every effect; the evidence of a completed case is accepted; no server survives; it ends |
| adapters, selection | nothing but a success becomes an answer; a named vendor is used or refused |
| refiner store | a growing ledger; the log never runs ahead of it; a document has an origin |
| refiner gate | accepted versions climb; edits are exact or refused |
| evidence emission | what is published was earned; what is signed is the artifact that was hashed |

## 2. The modules

```
EvalContract            what an invocation promises about its list of models
      ^ implemented by
EvalRun  <- Governance <- Judging      the eval handler
   |  \_ EvalBudget, RunLifecycle
   |
ReleasePipeline <- RolloutGate         eval, then the gate on the file it left
EvalBatch                              children, files, attempts

SampleLedger            what the raw-run store promises whoever writes to it
      ^ implemented by
EvalSuite  <- Sampling, RawRunLedger   resumable suites over one database

ProcessGroup  <- ExecutableRunner, ClaudeCodeRun      one child, two hosts
McpSession, ProviderAdapters  <- ToolLoop             a case with tools
PlanTransport, ToolLoop, ProviderSelection  <- MCProviders

RefinerLedger           what the Refiner's store promises
      ^ implemented by
Refiner                 the commands over the files
RefinerGate <- SliceUtility;  EditOps, AdoptionVerdict   the core, mostly pure

NightlyEvidence         the nightly workflow
EmitCommand -> RolloutGate            one row at a time in front of the gate

*_proofs                theorems (section 4)
MC*                     instances for TLC
```

**Judging** (`core/judgment/engine.ts`): the fold of the settled samples of one
criterion, and the worker pool of `settleWithConcurrency` as operators on a
sequence of task states ("todo", "flying", an answer or "error").

**Governance** (`core/governance/*.ts`, `core/evidence/skill-promotion.ts`):
judgment rows to score card, regressions, obsolescence, rollout and gate
decision. `LastRowOf` is JavaScript's `new Map(rows.map(...))`: the last row of
a key wins. Agreement is kept as a count, so the threshold comparison is exact.

**EvalBudget** (`cli/providers/budget.ts`): limits are functions from the names
that are set; merging takes the stricter one; `FirstExhausted` keeps the order
in which the source tests them. A token costs one unit of `max_usd`; a model
without a rate exhausts `max_usd` at once.

**RunLifecycle** (`db/src/lifecycle.ts`, `evidence.ts`): legal transitions.

**EvalRun** (`cli/commands/eval.ts` and the runners): one action per stretch
between two awaits, split where a write could be the last thing before the
process dies. `pc` names the place in the handler:

| `pc` | Code | Actions |
| --- | --- | --- |
| preflight | 840-915 | `Preflight` |
| create, start, providers | 983-1018 | `BeginRun`, `StartRun`, `SelectProviders` |
| trigger, triggered | 1082-1113 | `OpenTrigger`, `SettleTrigger`, `StoreTriggerEvidence`, then `StopForBudget`, `FinishTriggerOnly` or `StartFunctional` |
| execute | 1115-1151, 1415-1430 | `OpenExecution`, `SettleExecution`, `StartJudging` |
| judge | 1198-1310, 1430-1456 | `NextOutcome`, `JudgeDeterministic`, `AskJudge`, `SettleJudgment`, `LeaveJudging` |
| judged, summarise | 1312-1414 | `StoreResults`, `StoreSummary` (which starts the naked pass) |
| compared | 1459-1834 | `StopForBudget`, `Conclude` |
| wrapup, record, exit | 1936-2030 | `WrapUp`, `RecordBundle`, `Exit` |
| any call | budget.ts 225-287, cost-tracking.ts 275-331 | `Issue(i)`, `Answer(i)` |
| any | 2026-2032 | `Throw`, `Kill`, `Tick` |

`pool` holds the tasks of the current await: one task for a routing or execution
call, one per sample for a judge criterion. A call may answer or fail, with or
without reported usage. `refused`, `broken`, `answered` and `charged` are
history: no guard reads them.

**EvalContract**: the abstract specification. A list of models, evaluated one
after the other; a stop skips the rest; the exit code summarises. `EvalRun`
implements it under `OutcomeOf`.

**RolloutGate** (`rollout-gate/src/decide.ts`, `policy.ts`): `decide` as an
operator; a required-gate pattern is the set of gate ids it matches.

**ReleasePipeline**: `EvalRun` composed with the gate through the bundle file.
The policy is chosen when the gate is called.

**EvalBatch** (`cli/commands/eval-batch.ts`): attempts in one directory; for
each file, which attempt wrote it. A child is summarised by what `EvalRun`
allows: exit code 0 with a bundle exactly when the functional layer ran.

**Sampling** (`core/sampling/substrate.ts`): the plan of the samples every cell
still needs. The passes of the source become sequences: a cell open in one pass
was open in every earlier one, so the pass number is the count of samples
planned for it so far.

**RawRunLedger** (`db/raw-runs.ts`, `grades.ts`): each statement a command runs
on one raw run, as an operator; in SQLite each is atomic, two in a row are not.

**SampleLedger**: the abstract specification of that store. A sample is opened
once, sealed once, graded only over a completed run, and nothing is taken back.

**EvalSuite** (`cli/commands/suite.ts`, with `runGenericEval` and `runGrade`):
several processes over one database, each with its output directory or a shared
one. A row's status lives in `row`, `manifest` is `manifest.json` on disk, `jobs`
the same list in memory. One action per stretch between two statements that
another process, or a kill, may come between:

| `pc` | Code | Actions |
| --- | --- | --- |
| idle | suite.ts 706-753 | `Launch`, from `Close` or after a `Kill` |
| plan, open | suite.ts 611-645 | `PlanFirst`, `OpenAudit` |
| next | suite.ts 418-436, 511-520, 640-656 | `BeginJob`, `TopUp`, `Summarise` |
| create, start, mark | run.ts 90-119, raw-runs.ts 42-134 | `Create`, `Start`, `Mark` |
| harness | run.ts 120-123, raw-runs.ts 142-191 | `Seal(result)` |
| grade, judge | grade.ts 44-104, grades.ts 56-96 | `CheckGrades`, `StoreGrade` |
| write | suite.ts 301-306, 552 | `WriteJob` |
| report, close | suite.ts 555-608, 655-661, 745-747 | `WriteReport`, `Close` |
| any | suite.ts 548-552 and the OS | `JobThrows`, `Kill`, `EditGrader` |

**ProcessGroup**: what the system does with a detached child: a leader, and one
helper that may leave the group, hold the pipes and be deaf to SIGTERM. A signal
reaches who is in the group; an exit code is heard of only after the exit.

**ExecutableRunner** (`core/execution/executable-runner.ts:80-266`): one action
per callback: `TimeoutFires`, `KillFires`, `ForceFires`, `Overflow`,
`ErrorEvent`, `ExitEvent`, `CloseEvent`, `HostInterrupted`. `Finish` is
`finish()`; `guarded` says that the host's signal handlers are attached.

**ClaudeCodeRun** (`cli/providers/claude-code.ts`): the agent prints lines, the
parser keeps the init line, the turns and the verdict, `tail` is a line without
its newline. `WallFires`, `ClaudeKillFires`, `DrainFires`, `SpawnFails`,
`ClaudeClose` and `Data` are the callbacks; `FinalStop` is the classification of
a finished run, in the order of the source. The agent itself is external.

**PlanTransport** (`cli/providers/minimax-plan.ts`): `queue` holds the requests,
`send` the step of its head (quota read, sleep, first send, re-read, recovery
sleep, recheck, retry), one action per answer, throw or wake-up. `Tick` moves
the clocks, which saturate: only their order against the constants matters.

**McpSession**, **ToolLoop** (`mcp-runtime.ts`, `tool-execution.ts`,
`evidence.ts`): `loop` names what `executeWithTools` awaits; `effects` is what
the servers really did, which no code reads; `outcome` is what
`runFunctionalTests` stores. `ReasonToRefuse` judges a turn as a whole before
any of its calls goes out.

**ProviderAdapters**, **ProviderSelection**: operators. A delivery is a response
with a status and a body, or a throw; a body keeps what one adapter at least
tells apart. An environment is the state of every key and flag.

**Refiner** (`refiner/src/cli.ts`, `store.ts`, `score.ts`, `propose.ts`): several
processes over one directory, one action per system call of `put`, `setBest`
and their log events (`FindValue`, `OpenValue`, `WriteValue`, `LogValue`,
`CheckBest`, `OpenBest`, `WriteBest`, `LogBest`), the awaits `Ask` and `RunEval`,
and `Kill` and `EditSkill` between any two. An open truncates, so a file is
absent, torn or whole. **RefinerLedger** is its abstract specification.

**RefinerGate** (`refiner-core/src/accept.ts`, `decide.ts`, `cost.ts`): the
acceptance rule, the three-way decision and the meter. The loop around them is
the caller that `cost.ts:24-26` describes; the repository has no such loop yet.
**EditOps** (`apply.ts`, `strategies/`), **SliceUtility** (`eval-set.ts`,
`slice-utility.ts`) and **AdoptionVerdict** (`adoption.ts`, `eval-set-metrics.ts`)
are operators; their laws are `ASSUME`s of `MCRefiner`, evaluated on every small
input.

**NightlyEvidence** (the nightly workflow, `run-roster.mjs`, `emit-evidence.ts`,
`assemble-manifest.ts`, `flap-report.ts`): the job's steps, each of which may be
the last, the two assets of the rolling release, each deleted before it is
uploaded, and the children's results, of which `EvalRun` says what they can be.
`ChildrenAssumption` (a child that exits 0 has a verdict of every model, and at
least one) rests on `ExitIsHonest` and `BundleIsComplete`.

**EmitCommand** (`emit-evidence.ts`, `emit-refiner-pass.ts` of the CLI): one
invocation from its input to the exit code, and a CI job that appends what was
printed to a bundle and asks the gate after each row.

Operators named as mutants (`IssueThenCheck`, `FoldSamplesShrunk`, ...) are
plausible wrong versions of the definition that follows each of them. No
specification uses them; putting one in place of its definition must break the
property it is paired with in `PROJECT.json`.

## 3. The runs

| Run | Instance | Shows |
| --- | --- | --- |
| `eval_budget` | 2 models, 3 samples on 2 workers, calls/tokens/wall limits split between spec and flag; 980k states | types; overshoot within the calls in flight; latch final |
| `eval_layers` | 1 model, 2 cases (deterministic and judged, deterministic), 11 invocations over all flags; 990k states | verdicts earned; "completed" documented; phase attribution; pass means all yes; it ends, or hangs in a call without a time limit |
| `release_pipeline` | 2 models, 4 policies, 10 invocations; 1.05M states | bundle, listing, exit code and database agree; refinement of `EvalContract`; release earned |
| `gate_rows` | up to 4 samples and 2 more rows, 5 naked passes, 4 previous releases; 245k states | quorum, monotone vote and decision, sacred |
| `batch` | 3 skills, 3 attempts; 41k states | exit 0 covers every skill; manifest last |
| `suite` | 7 settings: one suite killed twice, failing, throwing anywhere, with an edited grader, with and without `--regrade`; two suites in one or two directories, one of them with exceptions; 227k states | the manifest claims nothing the database lacks; no cell oversampled by stale plans; exit 0 means done; one grader unless asked; refinement of `SampleLedger`; a resumed suite finishes |
| `harness` | both hosts, every child (deaf, gone, holding, exiting with any code), 2 turns; 71k states | completed means complete; the escalation reaches; nothing outlives its host; every child is settled |
| `providers` | 3 requests of 2 models over 6 answers, or one case with 2 servers, 3 turns, 2 calls and 23 bodies; 122k states; 11 laws of adapters and selection | plan respected, spent carefully; case accountable; everybody settles |
| `refiner` | 2 texts, 3 commands in a row or 2 at a time, a kill, an edit; runs over 11 score records and 3 budgets; 302k states; 17 laws of the pure core | events true; documents descend; the lineage climbs; refinement of `RefinerLedger`; the store settles |
| `emission` | 2 skills, 3 nights, 8 kinds of children; or 2 invocations of either command under 33 policies; 3.1M states | evidence honest; more rows never unblock |
| `suite_ungraded`, `non_verdict` | small | two disagreements with the documentation, section 5 |

Why the bounds are enough. Everything that couples models goes through the
budget, the flags, the bundle and the position in the list: two models have a
first, a last and a skipped one. Three samples on two workers have a call
waiting, two in flight and a refusal beside a call still open. Two cases give a
loop that breaks before its second item, skips a failed one and moves on. The
limits (2 to 9 calls, 3 tokens, one tick) are chosen so that they bite in each
phase, in the second model, and not at all. `WallBound` caps the clock, one tick
after which the wall limit of one is exhausted. Four samples are the first
number with a tie, a plurality below one half and the quorum 3/4 met exactly.
Three attempts give a killed one, a rerun and a rerun over a rerun.

In `suite`, a target of two gives a plan of more than one sample, a cell that is
half full, and an index that must not be given twice; two cells give a pass over
both. `MaxFailures` and `MaxThrows` (one each) allow one failed harness and one
exception in each setting. A failed harness uses up an index, an exception
before the row is created leaves a hole below the next one, and nothing else
does (a run left open keeps its slot and is resumed): no plan asks for an
index above `MaxIndex`.
`Create` has that bound in its guard.
`NeverOversampled` is claimed for a suite alone and for processes in which every
job gets as far as its row. Without that it is false of two processes: the first
job of one throws before its row exists (its definitions cannot be read), its
second opens index 1, its next plan goes on at index 2, and the other process,
from a plan it read before, still opens index 0. No text of the repository
promises more, so it is no finding; the shared setting lets everything else
throw. `RegradeIsAsked` is claimed for a suite alone too: the policy is checked
before the judge is awaited (`grade.ts:69`), and two processes with an edited
grader between them both store their grade.
`kills` of a setting bounds the deaths of processes: two, so that the resume of
a resume is covered. `MaxSnapshot` (two) is the number of editions of the grader
file, enough for one to change under a running suite.

In `harness`, `MaxTurns = 2` has a turn within the budget, the last one and one
too many. Leader and helper are deaf or not, and the helper is in the group or
outside, holding the pipes or not, in every combination.

In `providers`, three requests are one on the wire, one waiting behind it and
one of another model, whose quota is another reading. The constants keep the
order of the code's times (gap 1 s, reading 30 s, overload wait 30 s, recovery
70 s) and `PlanAssumption` states what is needed of it: a wait for a reset is
never shorter than the gap, because `minimax-plan.ts:183` adds the gap's second
to it. Two calls, three turns and six units of bytes make each limit bite first
in some case. The bodies hold an unknown tool, a repeated id, an empty id,
arguments that are no object, and finishes that contradict the calls.

In `refiner`, three commands are the shortest chain that ends in a promoted
candidate; two texts have a parent and a child. The records of the gate have
equal, higher and lower values, with and without variance, with a dimension
missing, and another eval set. In `emission`, three nights are a first manifest,
a second to compare with it and a third after a night that failed; two rows are
the least for which a later one could lift a block.

Deadlock is checked in every run but two: a finished process stutters by an
explicit action (`Ended`, `Over`, `Full`, `Done`, `Quiet`); a suite that ended
may be launched again. `providers` and `emission` really stop, when every
request is settled, the case is over, or the last night or invocation is.

Fairness (`FairSpec`, used for `EndsUnlessUnanswered`, `SuiteFinishes`, `EveryRunIsGraded`,
`EverySettles`, `StoreSettles` and `EverybodySettles` only). For `eval`, the handler's own steps are
run by the event loop, and a judge call ends: `judgeWithLLM` always passes a
timeout (120 s unless the spec sets another), the adapters abort the request on
it, and the rejection becomes an "unsure" sample. Nothing is assumed of a routing
call, which takes no timeout, or of the execution of a test case, to which `eval`
passes no `timeout_ms`; `transport.ts` has no limit of its own, and what `fetch`
limits by itself is not counted on here. So the fairness is that of `Progress`
outside these two awaits (`~AwaitsWithoutLimit`), and `EndsUnlessUnanswered` says
that an eval ends or hangs in exactly one of them; no budget helps, because
`max_wall_ms` is looked at only before a call.
A malformed regression file always throws. `Throw`, `Kill` and `Tick`
are not fair, and no strong fairness is used. For `suite`, weak fairness of
`Progress` says that a running process goes on (the runner has a time limit for
the harness, see `executable-runner.ts`, and a grade's judge call the timeout
above) and that a suite that did not exit 0 is started again, which is how the command is meant to be used. It says nothing
about which process goes on, so `SuiteFinishes` is claimed only for a suite that
has its database for itself, in which no job throws.

For `harness`, weak fairness of `Due`: the event loop delivers a timer that is
armed, an exit that happened and a close of free pipes. Nothing is assumed of
the child, nor of output, overflow or signals. For `refiner`, weak fairness of
each process's next step; kills and edits are free. For `providers`, weak
fairness of what the transport is owed (a sleep ends, a quota read has its own
limit of 10 s, a request ends in an answer or a throw, at the latest by the
limits of `fetch` itself), of the clock, of the loop's own steps, of its timer,
and of `Honoured`: once the signal fired, an operation that was handed it
rejects. A model and a tool server owe nothing: a case with tools ends over
services that never answer.

## 4. The proofs

`EvalRun_proofs` proves, for every number of models, cases, criteria and
samples and every set of limits (from `EvalAssumption` alone):

| Theorem | States |
| --- | --- |
| `TypeCorrect` | `Spec => []TypeOK` |
| `OvershootIsBounded` | `Spec => []OvershootBounded` |
| `LatchHolds` | `Spec => LatchIsFinal` |
| `VerdictsAreEarned` | `Spec => []VerdictIsEarned` |
| `JournalInvariant` | `Spec => []JournalInv`, the invariant of the next five |
| `CompletedRunsAreDocumented` | `Spec => []CompletedIsDocumented` |
| `ListingIsTrue` | `Spec => []ListingAgrees` |
| `ExitCodeIsHonest` | `Spec => []ExitIsHonest` |
| `BundleHoldsTheDecided` | `Spec => []BundleIsComplete` |
| `EvalKeepsItsContract` | `Spec => ImplementsContract`: the handler implements `EvalContract` |
| `UsageIsAttributed` | `Spec => []PhaseAttribution` |
| `ReleasesAreEarned` | `PipelineSpec => []ReleaseIsEarned` |
| `FailuresAreNotReleased` | `PipelineSpec => []NoReleaseOverFailure`, for policies that keep the default `forbid_decisions` |

`TypeOK` alone is not inductive: a routing result is typed only because the
pool at that place holds nothing but calls, and a judgment row only because its
criterion index is in range. `IInv` adds `PoolFits` (a pool is open only in the
three loops, one task in the first two, as many as the criterion's samples in
the third) and `ChargeFits` (the sum over the meters is the number of metered
answers). `NextIInv` is one lemma per group of variables, each with a step per
action that touches the group.

*Overshoot.* The guard compares answers, the property also counts calls in
flight. A claim happens below the limit and below the worker count
(`OpenGuard`, `ClaimFits`); every other step keeps or lowers the sum of the two
(`AnswerPool`, `QuietPools`). `MergedIsStricter` carries the bound from the
merged limit to each source.

*Latch.* Only `Issue` writes it; with the latch set `BudgetCheck` is the latch.

*Verdicts.* `EarnedInv` adds that a decision is given only when its run is left
(`DecidedIsLeft`), that a refusal leaves the latch set (`RefusedIsLatched`), and
that whatever broke in the current run is still visible in its results
(`BrokenIsSeen`): `Conclude` needs the first two to exclude refusals and the
last to exclude failures. `IInv` and `EarnedInv` were model-checked on the
instances of `eval_budget`, `eval_layers` and two models before they were proved.

*Journal.* What the code has written about one model depends on where the
handler stands, and the properties about the end of an invocation look at all
models at once. So `JournalInv` says it for every position: a model before the
current one is `Concluded` (completed, stopped by the budget or broken down,
with the reason, gate and listing row of exactly that end), the current one is
absent, pending, running or over as `pc` says (`PresentJournal`), a later one is
untouched, or listed as skipped once the loop was left for the budget
(`FutureJournal`). Around it: the latch is set exactly when the current run was
refused a call, and `seen.budget` exactly when the loop was left for it
(`LatchFits`); what is stored of the current run at each `pc` (`EvidenceFits`);
`seen.infra` is true of some past model (`SeenFits`); the bundle in memory and
on disk (`BundleFits`); the exit code (`ExitFits`). Five properties then
follow without another induction, and the step refinement of `EvalContract`
reads off the journal which abstract model an action closes. `JournalInv` was
model-checked on `eval_budget`, `eval_layers` and `release_pipeline` (3.3M
states) before it was proved.

*Phases.* `PhaseFits`: a phase only changes where no call is in flight.

*Release.* Everything known of the eval run is known when the gate reads the
file (`ReleaseInvariant`; the composition is handled by showing that
`PipelineSpec` implies `Spec`). `NoReleaseOverFailure` needs a hypothesis on the
policies: `policy.ts` lets an operator drop "fail" or "error" from
`forbid_decisions`, and a gate that nothing requires may then fail. The policies
of the run keep them.

`EvalBatch_proofs` (from `BatchAssumption`: any number of skills and attempts):

| Theorem | States |
| --- | --- |
| `SuccessIsComplete` | `Spec => []SuccessCoversEverySkill` |
| `ManifestComesLast` | `Spec => []ReportsBeforeManifest` |

`BatchInv` adds what the loop knows under way: an entry counted as completed has
a bundle, of this attempt if the functional layer ran (`EntriesAreBacked`), the
loop is only left early over a failed entry (`LeftOverFailure`), and manifest,
reports and attempt are ordered (`WrittenInOrder`), also after a kill.

`MCGovernance_proofs` (any number of samples; `SamplesAssumption`):

| Theorem | States |
| --- | --- |
| `BlockersNeedAQuorum` | `Spec => []QuorumBlocks` |
| `SacredCasesBlock` | `Spec => []SacredBlocksWhenUniform` |
| `TheVoteIsMonotone` | `Spec => VoteIsMonotone` |
| `TheGateIsMonotone` | `Spec => GateIsMonotone` |

The lemmas are about the operators of `Judging` and `Governance` and hold of any
rows, blockers, sacred criteria, previous release and quorum: `StableNo` (a
stable "no" has the quorum), `VoteImproves` (a fold over one more "yes" is no
worse), `ScoreCounts` and `GateSays` (the decision as conditions on counts and
sets), `BetterRowsBetterGate` (a better row moves each condition one way). The
theorems apply them to the rows that the module's votes produce.

`EvalSuite_proofs` proves, for every number of processes, directories, cells and
samples, whatever throws, fails or is killed (from `SuiteAssumption` alone):

| Theorem | States |
| --- | --- |
| `LedgerIsImplemented` | `Spec => ImplementsLedger`: the rows and Grades implement `SampleLedger` |
| `SuiteInvariant` | `Spec => []SuiteInv` |
| `ManifestsTellTheTruth` | `Spec => []CompletedIsGraded` |
| `NoSecondSnapshot` | `Spec => []RegradeIsAsked` |
| `TargetsAreKept` | `Spec => []NeverOversampled` |
| `ExitZeroIsHonest` | `Spec => []ExitZeroMeansDone` |

The invariant `LedgerInv` is a typing of what the refinement looks at: rows,
grades, the snapshots in memory and the grader file. No control state is
needed, because the store protects itself: `Create`, `Mark`, `Seal` and
`StoreGrade` are the only actions that write to it, and each tests the row in
the same statement. `RowChange` says when a change of one row is a step of the
ledger, `RowStep` and `GradeStep` apply it, `QuietStep` and `EditStep` show that
everything else leaves the database alone.

`SuiteInv` adds the audits. A list of jobs is `Honest` when each job it calls
completed has a completed run and the Grade it names; `AuditInv` says so of the
lists in memory as well as of the manifests, because a process writes its own
list over whatever is there, and another process may have read that file. The
refinement is what makes it inductive: a step of the ledger never takes a
completed run or a Grade back (`DatabaseGrows`), so a list stays honest whatever
the others do (`HonestStays`), and a process that dies leaves nothing to undo.
`RegradeInv`, for a suite alone, keeps the Grades of the run at the judge empty
from `CheckGrades` to `StoreGrade`; with two processes that is false, and the
property does not claim it.

The last two theorems rest on what a plan contains, and the plan is built with
folds: `Filter` (`Array.filter`, a recursive function in `Sampling`) and the
library's `FlattenSeq`. `Induct`, an induction over the natural numbers that
`WFMin` of the library gives for a set, proves what both return (`FilterKeeps`,
`FlattenGathers`): which elements, in which order, none twice. From it follow
`PlanIs` (for every open cell, pass by pass, the indices from the next one up to
what the target lacks) and what `addPlannedJobs` does to a list.

| Part of the invariant | Says |
| --- | --- |
| `SlotInv` | rows, audits and plans are about the samples of cells; a queue points into its list; a job being worked on has its row |
| `GapInv` | while every job gets as far as its row: the rows of a cell are its first indices, each below the target plus the cell's failed runs, and audits, plans and queues are in an order that leaves no gap |
| `AloneInv` | of a suite alone: the completed and open rows of a cell, with what the manifest, the list and the plan may still add, are at most the target; no sample is listed twice |
| `GradeInv` | no grade is of an edition the setting does not reach |
| `BookInv` | of a suite alone: every row is in the manifest, the list in memory covers the manifest, and a job listed as failed has the failed row |
| `DoneInv` | of a suite alone: an empty last plan means that every cell is full, and what is known by the time of the report, the close and the exit code |

`TargetsAreKept` has two halves with different reasons. Several processes share
no plan; what keeps them to the target is `GapInv`: two plans ask for the same
indices because both count the same failures, and an index is below the target
plus the failures, so that the rows of a cell that did not fail are no more than
the target. A suite alone may leave a gap, and there the sum of what is held and
what is still asked for is the invariant: a throw before the row only takes
something off it. `ExitZeroIsHonest` takes the same sum (a full cell has exactly
the target), the manifests (what is completed is graded) and `BookInv` (no row
the report could have missed).

`Refiner_proofs` (from `RefinerAssumption`: any processes, texts, dates and
bounds):

| Theorem | States |
| --- | --- |
| `StoreTyped` | `Spec => []TypeOK` |
| `EventsStayTrue` | `Spec => []EventsAreTrue` |
| `DocumentsDescend` | `Spec => []CandidatesDescend` |
| `StoreIsALedger` | `Spec => ImplementsLedger`: the files implement `RefinerLedger` |

`StoreInv` adds `JobReady` to the properties: what a command in memory already
knows of the disk at each place. A command about to write a value knows that the
values it names are there, and one past `OpenValue` or `CheckBest` that its own
value is. Since nothing leaves the store (`Grows`), what one process knows
survives the steps and the deaths of the others, and `References` of a value is
in the store when the value enters, which is the ledger's guard.

Of the Refiner's gate, in the same module (any records, costs, budgets and
significance level):
`RunTyped: RunSpec => []RunTypeOK` and `RefinementClimbs: RunSpec =>
[]LineageClimbs`. The acceptance rule compares neighbours only; `Above` is the
relation it establishes between two of them and composes along the lineage,
where an exact measurement makes every dip significant (`ExactIsSignificant`).

`Harness_proofs` (any bound on turns): `CompletionIsHonest`,
`EscalationAlwaysReaches`, `HostsLeaveNothing`, of the two hosts at once.
`RunnerInv` ties what the host believes to the group: what it heard is the
leader's code, a signal it sent is in `cause`, and once it armed the last timer
the group is empty. `ClaudeInv` does so for the agent: whatever classification
`FinalStop` gives was in the parsed stream.

`Providers_proofs` (from `PlanAssumption`: any requests, models, answers and
clocks in the right order): `PlanTyped`, `PlanIsKept: Spec => []PlanIsRespected`,
`PlanIsCareful: Spec => SpendsCarefully`. `HeadInv` says what each step of
`send()` knows of the calls made, the reading held and the time since the last
start; `RetryInv`, that the second call of a request and the one recovery are
the same thing; `pause + lull >= Gap`, that the gap is kept even across the
recovery's sleep, which is longer than it.

Of the tool loop, in the same module (from `LoopAssumption` and the adapters'
own definitions):
`CaseTyped: Spec => []ToolTypeOK` and `CasesAreAccountable: Spec =>
[]CaseIsAccountable`. `ReplyTyped` says what either adapter can hand the loop,
`ReasonTyped` what a turn that is not refused fulfils, `TurnIsNew` that its ids
are distinct and new. `CountInv` counts calls, ids at the servers, events and
observations as one number, `TodoInv` keeps the rest of the turn new, and
`ProgressInv` says that only the last call of a loop waiting for one is open.

`Emission_proofs` (any skills, nights, gates, policies; `ChildrenAssumption`):
`EvidenceStaysHonest: MCSpec => []EvidenceIsHonest` and `BlocksStand: MCSpec =>
AppendNeverUnblocks`. `JobInv` keeps the summary equal to the children's ends
and what is staged equal to what they earned, `FlapInv` orders the nights of the
two assets, so that a sidecar of the manifest's night was computed against the
manifest before it; `CommandInv` and `BundleInv` type the command and the rows.

All of these state their theorem of the very specification the runs check, but
for the Refiner's gate, whose `RunSpec` is the part of `MCRefiner` in which
nobody is at the store. The properties were model-checked before they were
proved.

Every invariant the runs check is proved. Out of the prover's reach, and so with
TLC for good: liveness under fairness (`EndsUnlessUnanswered`, `SuiteFinishes`,
`EverySettles`, `EverybodySettles`, `StoreSettles`), `ENABLED`, and what
recursive operators and the other folds compute for every input (the laws of the
pure modules, the size of an observation record, of which the proof of the tool
loop needs only that the code compares it).

## 5. Where the documentation and the code disagree

With a run:

1. `batch.ts:24` and `CHANGELOG.md:180`: `j-rig suite` grades every run. A job
   whose grading throws is "failed"; its run is completed, so no later plan asks
   for its sample and no recovery picks it up. It stays ungraded, and the suite
   exits 1 for good (`suite_ungraded`).
2. `MIGRATION.md:97-101` and `emit-evidence.ts:521-522`: a verifier must treat a
   "pass" row with skipped dimensions as a non-verdict. The rollout gate takes a
   row routed from NOT_APPLICABLE for the pass of a required gate
   (`non_verdict`).

Met while modelling, and noted without a run:

- `db/src/schema.ts:17-19`: "running" is "actively executing checks". When
  something throws inside the loop over the models (`eval.ts:2027`), the row
  stays "running". `README.md:95`, `:155`: a broken sacred case is rejected;
  previous rows are keyed by criterion (`regression.ts:19`), so a case can hide
  behind another. `--fail-fast` (`eval-batch.ts:471`, `:536`) stops only on an
  exception of the driver; a rerun without the functional layer takes the
  earlier attempt's bundle for its own (`:418`, `:441`).
- `core/src/schemas/criterion.ts:53` calls the verdict of several samples a
  majority; it is a plurality, and two of four votes decide.
- `engine.ts:46-49` and `openai-compatible.ts:868` say that execution calls were
  already bounded. `eval.ts:1123` and `:1382` pass no `timeout_ms`, so only the
  claude-code adapter and a case with tools, which bring limits of their own,
  are; a routing call has no limit at all (`openai-compatible.ts:697`,
  `anthropic-real.ts:430`).
- `executable-runner.ts:107-108`: descendants are cleaned up rather than orphaned
  after a timeout. `finish()` clears the timer of the SIGKILL (`:173`), so when
  the leader ends on SIGTERM and the pipes close, a helper deaf to SIGTERM stays,
  which is what `EscalationReaches` allows. `claude-code.ts` has no host signal
  handlers.
- `minimax-plan.ts:161-164`: a caller that aborts during the recovery leaves the
  circuit closed for the requests behind it.
- `refiner/src/providers.ts:16-20` calls its registry a byte-for-byte mirror; the
  order of automatic choice differs (`:147-153`, `openai-compatible.ts:262-276`),
  and on the generic endpoint `refine score` passes `--provider
  openai-compatible`, a name `eval` does not know (`score.ts:211`).
  `openai-compatible.ts:247-248`: never another vendor; with stubs allowed a
  named vendor without a key falls through to Anthropic. An explicit judge
  without a key throws only inside the loop over the models (`eval.ts:503`,
  `:998`), and `LLM_BASE_URL` makes execution and judge share an endpoint.
- `accept.ts:163` compares records whatever judge or kernel scored them, and
  several insignificant dips of a noisy dimension can add up (`:225`).
  `cost.ts` counts LOG_TO_SCHEMA attempts as accepted. `apply.ts`: `$&` in a
  replacement is expanded, and overlapping anchors are not seen as ambiguous
  (`:10-12`); `ReplaceRewrites` and `OverlapIsMissed` evaluate a counterexample.
  `eval-set-metrics.ts:198` is a ratio that can exceed one (`RatiosOverflow`).
  `adoption.ts:66-67`: an absent tenant is never pooled, yet the global bucket
  counts; a malformed date gives a NaN age (`:376`).
- `store.ts:98-107`, `:160-168`: after a kill a value may be torn or unlogged for
  good, and the pointer file empty; a torn value is taken for stored. `refiner`
  prints `store/<hash>` of the eval set, which is not its store address
  (`cli.ts:119`), and `score` measures whatever SKILL.md the child finds.
- `cli/src/commands/emit-evidence.ts`: the entry in the transparency log exists
  although the command exits 1 when the signature cannot be read or written
  (`:343-344`); the header (`:39-43`) gives exit 2 to a failed write of the
  output, the code to a cosign that cannot be started. `emit-refiner-pass` reads an empty numeric flag as 0 and an
  absent parent version as the root.

## 6. What is abstracted or left out

Prompts, observations, redaction, reasons, digests, durations and costs in
currency are data no property tells apart. Model names are positions, hence
distinct; in the code a repeated name overwrites its listing row. A batch of
criterion rows is stored in one step, although the code inserts row by row. The
contents of a bundle are its runs and their decisions. Of the suite, loading and
validating the manifest and the check that an audit belongs to it are left out
(both end the process before anything is written), `--serve` too, and so are
the fields nothing reads back (`reused`, `completed_at`, the summary, error
texts); artifacts of a raw run are data of its row. An exception outside a job
is a `Kill`: both leave the files and the database and exit without code 0. A failed call without
usage is not charged, as in the code. Components that are not modelled are
listed with their reasons in `PROJECT.json`: most are parsers, renderers and
validators without state.

Of the child hosts, the workspace, the environment and the run manifest are
data; of a child's helpers there is one, enough to be deaf, gone or holding. Of
the transports, request bodies, headers and usage. Time is relative and
saturates. Of the tool loop, redaction and the config parser; bytes are units.
Of the Refiner, hashing (a value is its address), the inverse normal and the
entropies, which are replaced by rational bounds; the value files are written by
one write, as `writeFileSync` does for values of this size. Of the nightly
workflow, checkout, caching and the signature mathematics: a bundle is signed or
the job ends; the transparency log is not modelled, and the artifact cannot change
between the hash (`emit-evidence.ts:279`) and cosign (`:327`). `FlipsAreReal`
speaks of a sidecar of the published manifest's own night: one that an
interrupted job left beside a newer manifest is a state of the model that no
property excludes, as `flap-report.json` does not name its night.

## 7. Plan

Done, in this order: contract, judging, governance, budget, lifecycle, eval;
rollout gate and pipeline; batch; sampling, raw runs and suite with its ledger;
the Refiner with its ledger and its core; the child hosts; the transports,
adapters, selection and tool loop; the emission of evidence; the proofs above.

Next:

1. **EvalRun** with row-by-row storage (`db/src/evidence.ts:100`), repeated model
   names, and the promotion evidence's own validation.
2. **EvalSuite** beside `j-rig run` and `j-rig batch` processes that write to the
   same database without an audit file.
3. The workspace of the claude-code adapter: what is copied in, and what is
   restored or removed however the case ends.
4. Optimizer, drift and intentional mapping as pure operators against a
   reference definition.
5. Proofs: the counts of `Sampling` over other writers (item 2), and the laws of
   the pure modules whose folds can be opened as the plan's were.
