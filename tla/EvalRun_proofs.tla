--------------------------- MODULE EvalRun_proofs ---------------------------
(***************************************************************************)
(* Proofs about one invocation of `j-rig eval' and the release decided on  *)
(* its bundle, for every number of models, cases, criteria and samples,    *)
(* and for every set of limits and policies.                               *)
(***************************************************************************)
EXTENDS ReleasePipeline, SequenceTheorems, FiniteSetTheorems, TLAPS

-----------------------------------------------------------------------------
(* Sequences. *)

(* The interval 1..k has k elements.                                       *)
LEMMA IntervalSize ==
    ASSUME NEW k \in Nat
    PROVE  IsFiniteSet(1..k) /\ Cardinality(1..k) = k
<1>1. 1 \in Int /\ k \in Int
  OBVIOUS
<1> QED
  BY <1>1, FS_Interval, SMT

(* A function over 1..n is a sequence of length n: OpenCall's task array.  *)
LEMMA TasksAreSeq ==
    ASSUME NEW S, NEW n \in Nat, NEW f \in [1..n -> S]
    PROVE  f \in Seq(S) /\ Len(f) = n /\ DOMAIN f = 1..n
<1>1. f \in Seq(S)
  BY SeqDef
<1>2. DOMAIN f = 1..n /\ f \in [1..Len(f) -> S] /\ Len(f) \in Nat
  BY <1>1, LenProperties
<1>3. 1..Len(f) = 1..n
  BY <1>2
<1>4. Len(f) \in Nat
  BY <1>2
<1>5. Cardinality(1..Len(f)) = Len(f)
  BY <1>4, IntervalSize
<1>6. Cardinality(1..n) = n
  BY IntervalSize
<1> QED
  BY <1>1, <1>2, <1>3, <1>5, <1>6

(* The tasks in flight are a finite set of positions of the pool.          *)
LEMMA InFlightFinite ==
    ASSUME NEW S, NEW p \in Seq(S)
    PROVE  /\ IsFiniteSet(InFlight(p))
           /\ Cardinality(InFlight(p)) \in Nat
           /\ Cardinality(InFlight(p)) <= Len(p)
           /\ InFlight(p) \subseteq 1..Len(p)
<1>1. Len(p) \in Nat /\ DOMAIN p = 1..Len(p)
  BY LenProperties
<1>2. IsFiniteSet(1..Len(p)) /\ Cardinality(1..Len(p)) = Len(p)
  BY <1>1, IntervalSize
<1>3. InFlight(p) \subseteq 1..Len(p)
  BY <1>1 DEF InFlight
<1>4. IsFiniteSet(InFlight(p)) /\ Cardinality(InFlight(p)) <= Len(p)
  BY <1>2, <1>3, FS_Subset
<1> QED
  BY <1>3, <1>4, FS_CardinalityType

-----------------------------------------------------------------------------
(* Judging. *)

(* The ballots of a verdict are a number of samples.                       *)
LEMMA CountIsNat ==
    ASSUME NEW p \in Seq(SampleResult), NEW v
    PROVE  CountOf(p, v) \in Nat
<1>1. Len(p) \in Nat /\ DOMAIN p = 1..Len(p)
  BY LenProperties
<1>2. IsFiniteSet(1..Len(p))
  BY <1>1, IntervalSize
<1>3. IsFiniteSet({i \in DOMAIN p : p[i] = v})
  BY <1>1, <1>2, FS_Subset
<1> QED
  BY <1>3, FS_CardinalityType DEF CountOf

(* The ballots cast for a verdict are a number.                            *)
LEMMA BallotsIsNat ==
    ASSUME NEW p \in Seq(SampleResult), NEW v \in Verdict
    PROVE  Ballots(p, v) \in Nat
  BY CountIsNat DEF Ballots

(* The winning number of ballots is one some verdict received.             *)
LEMMA TopBallotsIsNat ==
    ASSUME NEW p \in Seq(SampleResult)
    PROVE  TopBallots(p) \in Nat
<1> DEFINE B(v) == Ballots(p, v)
<1>1. \A v \in Verdict : B(v) \in Nat
  BY BallotsIsNat
<1>2. \E w \in Verdict : \A v \in Verdict : B(v) <= B(w)
  <2> HIDE DEF B
  <2>1. B("yes") \in Nat /\ B("no") \in Nat /\ B("unsure") \in Nat
    BY <1>1 DEF Verdict
  <2> QED
    BY <2>1, SMT DEF Verdict
<1>3. \E n \in {B(v) : v \in Verdict} : \A v \in Verdict : B(v) <= n
  BY <1>2
<1>4. TopBallots(p) \in {B(v) : v \in Verdict}
  BY <1>3 DEF TopBallots
<1> QED
  BY <1>1, <1>4

(* The winner of a vote is a verdict a judge can give, never "error".      *)
LEMMA MajorityIsVerdict ==
    ASSUME NEW p \in Seq(SampleResult)
    PROVE  MajorityVerdict(p) \in Verdict
<1>1. CASE Cardinality(Winners(p)) = 1
  <2>1. IsFiniteSet(Verdict)
    <3>1. IsFiniteSet({"yes"} \cup {"no"} \cup {"unsure"})
      BY FS_Singleton, FS_AddElement, ZenonT(60)
    <3> QED
      BY <3>1 DEF Verdict
  <2>2. Winners(p) \in SUBSET Verdict
    BY DEF Winners
  <2>3. IsFiniteSet(Winners(p))
    BY <2>1, <2>2, FS_Subset
  <2>4. \E x : Winners(p) = {x}
    BY <1>1, <2>3, FS_Singleton
  <2>5. \E v \in Verdict : v \in Winners(p)
    BY <2>2, <2>4
  <2> QED
    BY <1>1, <2>5 DEF MajorityVerdict
<1>2. CASE Cardinality(Winners(p)) # 1
  BY <1>2 DEF MajorityVerdict, Verdict
<1> QED
  BY <1>1, <1>2

(* The fold of the settled samples of one criterion is a judgment row.     *)
LEMMA FoldIsRow ==
    ASSUME NEW p \in Seq(SampleResult), p # <<>>,
           NEW c \in Criteria \cup {SelfTest}, NEW case \in Nat
    PROVE  FoldSamples(c, case, p) \in JudgmentRow
<1>1. Len(p) \in Nat /\ DOMAIN p = 1..Len(p)
  BY LenProperties
<1>2. CASE \A i \in DOMAIN p : p[i] = "error"
  BY <1>2 DEF FoldSamples, JudgeError, Judgment, JudgmentRow, Verdict
<1>3. CASE ~(\A i \in DOMAIN p : p[i] = "error") /\ Len(p) = 1
  <2>1. p[1] \in Verdict
    <3>1. 1 \in 1..Len(p)
      BY <1>3
    <3>2. p[1] \in SampleResult
      BY <3>1, ElementOfSeq
    <3>3. p[1] # "error"
      BY <1>1, <1>3
    <3> QED
      BY <3>2, <3>3 DEF SampleResult
  <2> QED
    BY <1>3, <2>1 DEF FoldSamples, Judgment, JudgmentRow
<1>4. CASE ~(\A i \in DOMAIN p : p[i] = "error") /\ Len(p) # 1
  BY <1>1, <1>4, MajorityIsVerdict, TopBallotsIsNat DEF FoldSamples, Judgment, JudgmentRow
<1> QED
  BY <1>2, <1>3, <1>4

(* What a deterministic check writes is a judgment row too.                *)
LEMMA DeterministicIsRow ==
    ASSUME NEW c \in Criteria \cup {SelfTest}, NEW case \in Nat, NEW passed \in BOOLEAN
    PROVE  DeterministicJudgment(c, case, passed) \in JudgmentRow
  BY DEF DeterministicJudgment, Judgment, JudgmentRow, Verdict

-----------------------------------------------------------------------------
(* The inductive invariant. *)

Calls == {"todo", "flying", "ok", "error"}
Votes == SampleResult \cup {"todo", "flying"}

\* A pool is open only inside the three loops that call a provider, and a
\* judge pool belongs to a criterion of the current case.
PoolFits ==
    /\ pc \notin {"trigger", "execute", "judge"} => pool = <<>>
    /\ pc \in {"trigger", "execute"} => pool \in Seq(Calls) /\ Len(pool) <= 1
    /\ pc = "judge" =>
          /\ pool \in Seq(Votes)
          /\ pool # <<>> =>
                /\ item \in 1..Cases /\ crit \in 1..Len(Applicable[item])
                /\ Len(pool) = inv.samples[CriterionAt]

\* The budget's own sum over the meters is the number of metered answers.
ChargeFits == charged = closed.calls + CallsOf(meter)

IInv == TypeOK /\ PoolFits /\ ChargeFits

-----------------------------------------------------------------------------
(* Types. *)

(* No step leaves the program counter, the indices or the latch untyped.   *)
LEMMA ControlStep ==
    ASSUME TypeOK, PoolFits, [Next]_vars
    PROVE  ControlTypeOK'
<1> USE EvalAssumption DEF TypeOK, ControlTypeOK, Position, Pass
<1>1. CASE Preflight \/ BeginRun \/ StartRun \/ SelectProviders
  BY <1>1 DEF Preflight, BeginRun, StartRun, SelectProviders, Goto
<1>2. CASE Calling
  BY <1>2 DEF Calling, Issue, Answer, cursor
<1>3. CASE OpenTrigger \/ SettleTrigger \/ StoreTriggerEvidence
  BY <1>3 DEF OpenTrigger, SettleTrigger, StoreTriggerEvidence, Goto, cursor
<1>4. CASE FinishTriggerOnly \/ StopForBudget \/ Conclude
  BY <1>4 DEF FinishTriggerOnly, StopForBudget, Conclude, NextModel, Goto
<1>5. CASE StartFunctional \/ OpenExecution \/ SettleExecution
  BY <1>5 DEF StartFunctional, OpenExecution, SettleExecution, Goto, cursor
<1>6. CASE StartJudging \/ NextOutcome \/ LeaveJudging
  BY <1>6 DEF StartJudging, NextOutcome, LeaveJudging, Goto
<1>7. CASE JudgeDeterministic \/ AskJudge \/ SettleJudgment
  BY <1>7 DEF JudgeDeterministic, AskJudge, SettleJudgment, AddJudgment, cursor
<1>8. CASE StoreResults \/ StoreSummary
  BY <1>8 DEF StoreResults, StoreSummary, Goto
<1>9. CASE WrapUp \/ RecordBundle \/ Exit
  BY <1>9 DEF WrapUp, RecordBundle, Exit, Goto, cursor
<1>10. CASE Throw \/ Kill \/ Tick \/ Ended \/ UNCHANGED vars
  BY <1>10 DEF Throw, Kill, Tick, Ended, vars, cursor
<1> QED
  BY <1>1, <1>2, <1>3, <1>4, <1>5, <1>6, <1>7, <1>8, <1>9, <1>10 DEF Next, Progress

(* Appending an element of the set keeps a sequence over it.               *)
LEMMA AppendInSeq ==
    ASSUME NEW S, NEW s \in Seq(S), NEW e \in S
    PROVE  Append(s, e) \in Seq(S)
  BY AppendProperties

(* Opening a pool: as many tasks as asked, none of them claimed.           *)
LEMMA OpenCallTasks ==
    ASSUME NEW n \in Nat, OpenCall(n)
    PROVE  /\ \A S : "todo" \in S => pool' \in Seq(S)
           /\ Len(pool') = n
           /\ InFlight(pool') = {}
<1> DEFINE f == [i \in 1..n |-> "todo"]
<1>1. pool' = f
  BY DEF OpenCall
<1>2. \A S : "todo" \in S => f \in [1..n -> S]
  OBVIOUS
<1>3. \A S : "todo" \in S => f \in Seq(S) /\ Len(f) = n
  BY <1>2, TasksAreSeq
<1>4. Len(f) = n
  BY <1>3
<1> QED
  BY <1>1, <1>3, <1>4 DEF InFlight

(* The answer of the single call of a routing or execution pool.           *)
LEMMA SingleReply ==
    ASSUME NEW p \in Seq(Calls), PoolSettled(p)
    PROVE  p[1] \in {"ok", "error"}
<1>1. Len(p) \in Nat \ {0} /\ DOMAIN p = 1..Len(p)
  BY EmptySeq, LenProperties DEF PoolSettled
<1>2. 1 \in 1..Len(p)
  BY <1>1
<1>3. p[1] \in Calls
  BY <1>2, ElementOfSeq
<1> QED
  BY <1>1, <1>2, <1>3 DEF PoolSettled, InFlight, Unclaimed, Calls

(* The votes of a settled judge pool are all sample results.               *)
LEMMA SettledVotes ==
    ASSUME NEW p \in Seq(Votes), PoolSettled(p)
    PROVE  p \in Seq(SampleResult) /\ p # <<>>
<1>1. Len(p) \in Nat /\ DOMAIN p = 1..Len(p) /\ p \in [1..Len(p) -> Votes]
  BY LenProperties
<1>2. \A i \in 1..Len(p) : p[i] \in SampleResult
  BY <1>1 DEF PoolSettled, InFlight, Unclaimed, Votes
<1>3. p \in [1..Len(p) -> SampleResult]
  BY <1>1, <1>2
<1> QED
  BY <1>1, <1>3, TasksAreSeq DEF PoolSettled

(* The criterion a judge pool belongs to is one of the spec's.             *)
LEMMA CriterionTyped ==
    ASSUME item \in 1..Cases, crit \in 1..Len(Applicable[item])
    PROVE  CriterionAt \in Criteria
<1>1. Applicable[item] \in Seq(Criteria)
  BY EvalAssumption
<1> QED
  BY <1>1, ElementOfSeq DEF CriterionAt

(* What a worker's claim does to the pool: its task is in flight, or it    *)
(* was refused and no further task is.                                     *)
LEMMA IssuePool ==
    ASSUME NEW S, pool \in Seq(S), {"flying", "error"} \subseteq S,
           NEW i \in DOMAIN pool, Issue(i)
    PROVE  /\ pool' \in Seq(S) /\ Len(pool') = Len(pool) /\ pool # <<>>
           /\ BudgetCheck = NoStop => InFlight(pool') = InFlight(pool) \cup {i}
           /\ BudgetCheck # NoStop => InFlight(pool') = InFlight(pool)
           /\ i \notin InFlight(pool)
<1> DEFINE e == IF BudgetCheck = NoStop THEN "flying" ELSE "error"
<1>1. Len(pool) \in Nat /\ DOMAIN pool = 1..Len(pool)
  BY LenProperties
<1>2. pool' = [pool EXCEPT ![i] = e] /\ pool[i] = "todo"
  BY DEF Issue, CanClaim, Unclaimed
<1>3. e \in S
  OBVIOUS
<1>4. pool' \in Seq(S) /\ Len(pool') = Len(pool)
  BY <1>1, <1>2, <1>3, ExceptSeq
<1>5. DOMAIN pool' = DOMAIN pool
  BY <1>2
<1>6. \A j \in DOMAIN pool : pool'[j] = IF j = i THEN e ELSE pool[j]
  BY <1>2
<1>7. pool # <<>>
  BY <1>1
<1> QED
  BY <1>2, <1>4, <1>5, <1>6, <1>7 DEF InFlight

(* An answer takes its task out of flight.                                 *)
LEMMA AnswerPool ==
    ASSUME NEW S, pool \in Seq(S), ReplyTo(pc) \subseteq S,
           NEW i \in DOMAIN pool, Answer(i)
    PROVE  /\ pool' \in Seq(S) /\ Len(pool') = Len(pool) /\ pool # <<>>
           /\ InFlight(pool') = InFlight(pool) \ {i}
           /\ i \in InFlight(pool)
<1>1. Len(pool) \in Nat /\ DOMAIN pool = 1..Len(pool)
  BY LenProperties
<1>2. PICK reply \in ReplyTo(pc) : pool' = [pool EXCEPT ![i] = reply]
  BY DEF Answer
<1>3. pool' \in Seq(S) /\ Len(pool') = Len(pool)
  BY <1>1, <1>2, ExceptSeq
<1>4. reply # "flying"
  BY DEF ReplyTo, SampleResult, Verdict
<1>5. \A j \in DOMAIN pool : pool'[j] = IF j = i THEN reply ELSE pool[j]
  BY <1>2
<1>6. i \in InFlight(pool)
  BY DEF Answer
<1>7. DOMAIN pool' = DOMAIN pool
  BY <1>2
<1>8. pool # <<>>
  BY <1>1
<1> QED
  BY <1>3, <1>4, <1>5, <1>6, <1>7, <1>8 DEF InFlight

(* Only a call leaves the pool non-empty, and only in the three loops.     *)
LEMMA CallingPlace ==
    ASSUME TypeOK, PoolFits, NEW i \in DOMAIN pool
    PROVE  pc \in {"trigger", "execute", "judge"} /\ pool # <<>>
<1>1. pool \in Seq(TaskState)
  BY DEF TypeOK, ResultsTypeOK
<1>2. Len(pool) \in Nat /\ DOMAIN pool = 1..Len(pool)
  BY <1>1, LenProperties
<1>3. pool # <<>>
  BY <1>2
<1> QED
  BY <1>3 DEF PoolFits

(* Every criterion asks for at least one sample; a concurrency is a number. *)
LEMMA SamplesTyped ==
    ASSUME TypeOK, NEW c \in Criteria
    PROVE  inv.samples[c] \in Nat \ {0} /\ inv.concurrency \in Nat
<1>1. IsInvocation(inv)
  BY EvalAssumption DEF TypeOK, ControlTypeOK
<1> QED
  BY <1>1 DEF IsInvocation

(* Inside AtCriterion the indices point at a criterion of a test case.     *)
LEMMA CritInRange ==
    ASSUME TypeOK, NEW method, AtCriterion(method)
    PROVE  item \in 1..Cases /\ crit \in 1..Len(Applicable[item])
<1>1. item \in 1..Cases
  BY EvalAssumption DEF AtCriterion, InJudgeLoop, TypeOK, ControlTypeOK
<1>2. Len(Applicable[item]) \in Nat
  BY <1>1, EvalAssumption, LenProperties
<1> QED
  BY <1>1, <1>2 DEF AtCriterion, TypeOK, ControlTypeOK

(* One more judgment row leaves the results well typed.                    *)
LEMMA JudgmentAdded ==
    ASSUME TypeOK, NEW row \in JudgmentRow, pool' = <<>> \/ pool' = pool,
           judgments' = [judgments EXCEPT ![pass] = Append(@, row)],
           triggers' = triggers, outcomes' = outcomes
    PROVE  ResultsTypeOK'
<1>1. pass \in Pass /\ judgments[pass] \in Seq(JudgmentRow)
  BY DEF TypeOK, ControlTypeOK, ResultsTypeOK
<1>2. Append(judgments[pass], row) \in Seq(JudgmentRow)
  BY <1>1, AppendInSeq
<1>3. judgments' \in [Pass -> Seq(JudgmentRow)]
  BY <1>1, <1>2 DEF TypeOK, ResultsTypeOK
<1> QED
  BY <1>3, EmptySeq DEF TypeOK, ResultsTypeOK

(* No step writes an ill-typed routing, execution or judgment row.         *)
LEMMA ResultsStep ==
    ASSUME TypeOK, PoolFits, [Next]_vars
    PROVE  ResultsTypeOK'
<1> USE DEF TypeOK, ResultsTypeOK
<1>1. CASE StartRun
  BY <1>1, EmptySeq DEF StartRun, At, AttachMeter, Pass
<1>2. ASSUME NEW i \in DOMAIN pool, Issue(i)
      PROVE  ResultsTypeOK'
  BY <1>2, IssuePool DEF Issue, results, TaskState, SampleResult
<1>3. ASSUME NEW i \in DOMAIN pool, Answer(i)
      PROVE  ResultsTypeOK'
  <2>1. ReplyTo(pc) \subseteq TaskState
    BY DEF ReplyTo, TaskState, SampleResult
  <2>2. pool' \in Seq(TaskState)
    BY <1>3, <2>1, AnswerPool
  <2> QED
    BY <1>3, <2>2 DEF Answer, results
<1>4. CASE OpenTrigger \/ OpenExecution
  BY <1>4, OpenCallTasks DEF OpenTrigger, OpenExecution, results, TaskState
<1>5. CASE AskJudge
  <2>1. inv.samples[CriterionAt] \in Nat
    BY <1>5, CritInRange, CriterionTyped, SamplesTyped DEF AskJudge
  <2> QED
    BY <1>5, <2>1, OpenCallTasks DEF AskJudge, results, TaskState
<1>6. CASE SettleTrigger
  BY <1>6, SingleReply, AppendInSeq, EmptySeq DEF SettleTrigger, PoolFits
<1>7. CASE SettleExecution
  BY <1>7, SingleReply, AppendInSeq, EmptySeq DEF SettleExecution, PoolFits, ControlTypeOK
<1>8. CASE SettleJudgment
  <2> DEFINE row == FoldSamples(CriterionAt, item, pool)
  <2>1. pool \in Seq(SampleResult) /\ pool # <<>>
    BY <1>8, SettledVotes DEF SettleJudgment, PoolFits
  <2>2. CriterionAt \in Criteria /\ item \in Nat
    BY <1>8, <2>1, CriterionTyped, EvalAssumption DEF SettleJudgment, PoolFits
  <2>3. row \in JudgmentRow
    BY <2>1, <2>2, FoldIsRow
  <2>4. judgments' = [judgments EXCEPT ![pass] = Append(@, row)]
        /\ pool' = <<>> /\ triggers' = triggers /\ outcomes' = outcomes
    BY <1>8 DEF SettleJudgment, AddJudgment
  <2> QED
    BY <2>3, <2>4, JudgmentAdded
<1>9. CASE JudgeDeterministic
  <2>1. PICK passed \in BOOLEAN :
            AddJudgment(DeterministicJudgment(CriterionAt, item, passed))
    BY <1>9 DEF JudgeDeterministic
  <2> DEFINE row == DeterministicJudgment(CriterionAt, item, passed)
  <2>2. CriterionAt \in Criteria /\ item \in Nat
    BY <1>9, CriterionTyped, CritInRange, EvalAssumption
    DEF JudgeDeterministic
  <2>3. row \in JudgmentRow
    BY <2>2, DeterministicIsRow
  <2>4. judgments' = [judgments EXCEPT ![pass] = Append(@, row)]
        /\ pool' = pool /\ triggers' = triggers /\ outcomes' = outcomes
    BY <1>9, <2>1 DEF JudgeDeterministic, AddJudgment
  <2> QED
    BY <2>3, <2>4, JudgmentAdded
<1>10. CASE StoreResults
  <2> DEFINE row == DeterministicJudgment(SelfTest, 0, inv.selfTest = "yes")
  <2>1. row \in JudgmentRow
    BY DeterministicIsRow
  <2> QED
    BY <1>10, <2>1, AppendInSeq DEF StoreResults, Pass
<1>11. CASE \/ Preflight \/ BeginRun \/ SelectProviders \/ StoreTriggerEvidence
            \/ FinishTriggerOnly \/ StopForBudget \/ StartFunctional \/ StartJudging
            \/ NextOutcome \/ LeaveJudging \/ StoreSummary \/ Conclude \/ WrapUp \/ RecordBundle
            \/ Exit \/ Throw \/ Kill \/ Tick \/ Ended \/ UNCHANGED vars
  BY <1>11 DEF Preflight, BeginRun, SelectProviders, StoreTriggerEvidence,
            FinishTriggerOnly, StopForBudget, StartFunctional, StartJudging,
            NextOutcome, LeaveJudging, StoreSummary, Conclude, WrapUp, RecordBundle,
            Exit, Throw, Kill, Tick, Ended, vars, results
<1> QED
  BY <1>1, <1>2, <1>3, <1>4, <1>5, <1>6, <1>7, <1>8, <1>9, <1>10, <1>11
  DEF Next, Progress, Calling

(* The calls of a meter are a number.                                      *)
LEMMA CallsIsNat ==
    ASSUME NEW m \in Metered
    PROVE  CallsOf(m) \in Nat
<1>1. m.calls \in [EvalPhase -> Nat]
  BY DEF Metered
<1>2. m.calls["trigger"] \in Nat /\ m.calls["execution"] \in Nat /\ m.calls["judge"] \in Nat
  BY <1>1 DEF EvalPhase
<1> QED
  BY <1>2 DEF CallsOf

(* A meter just attached has counted nothing.                              *)
LEMMA EmptyMeterTyped == EmptyMeter \in Metered /\ CallsOf(EmptyMeter) = 0
  BY DEF EmptyMeter, NoCalls, Metered, CallsOf, EvalPhase

(* The check that precedes a call answers a cap or nothing.                *)
LEMMA BudgetCheckTyped ==
    ASSUME TypeOK
    PROVE  BudgetCheck \in LimitName \cup {NoStop}
  BY DEF BudgetCheck, FirstExhausted, LimitName, TypeOK, SpendTypeOK

(* One more metered call, whatever phase it is charged to.                 *)
LEMMA RecordedUsage ==
    ASSUME TypeOK, NEW cost \in Nat, NEW unpriced \in BOOLEAN, RecordUsage(cost, unpriced)
    PROVE  meter' \in Metered /\ CallsOf(meter') = CallsOf(meter) + 1
<1>1. phase \in EvalPhase /\ meter.calls \in [EvalPhase -> Nat] /\ meter.tokens \in Nat
      /\ meter.unpriced \in BOOLEAN
  BY DEF TypeOK, SpendTypeOK, Metered
<1> DEFINE calls == [meter.calls EXCEPT ![phase] = @ + 1]
<1>2. meter' = [calls |-> calls, tokens |-> meter.tokens + cost,
                unpriced |-> meter.unpriced \/ unpriced]
  BY DEF RecordUsage
<1>3. calls \in [EvalPhase -> Nat]
  BY <1>1
<1>4. meter' \in Metered
  BY <1>1, <1>2, <1>3 DEF Metered
<1>5. calls["trigger"] + calls["execution"] + calls["judge"] = CallsOf(meter) + 1
  <2>1. meter.calls["trigger"] \in Nat /\ meter.calls["execution"] \in Nat
        /\ meter.calls["judge"] \in Nat
    BY <1>1 DEF EvalPhase
  <2>2. CASE phase = "trigger"
    BY <1>1, <2>1, <2>2 DEF CallsOf, EvalPhase
  <2>3. CASE phase = "execution"
    BY <1>1, <2>1, <2>3 DEF CallsOf, EvalPhase
  <2>4. CASE phase = "judge"
    BY <1>1, <2>1, <2>4 DEF CallsOf, EvalPhase
  <2> QED
    BY <1>1, <2>2, <2>3, <2>4 DEF EvalPhase
<1> QED
  BY <1>2, <1>4, <1>5 DEF CallsOf

(* No step spoils the meter, the clock or the pool of calls.               *)
LEMMA SpendStep ==
    ASSUME TypeOK, PoolFits, [Next]_vars
    PROVE  SpendTypeOK'
<1> USE DEF TypeOK, SpendTypeOK
<1>1. CASE StartRun
  <2>1. CallsOf(meter) \in Nat /\ meter.tokens \in Nat /\ meter.unpriced \in BOOLEAN
    BY CallsIsNat DEF Metered
  <2>2. closed' \in [calls : Nat, tokens : Nat, unpriced : BOOLEAN]
    BY <1>1, <2>1 DEF StartRun, AttachMeter
  <2> QED
    BY <1>1, <2>2, EmptyMeterTyped DEF StartRun, AttachMeter, EvalPhase
<1>2. ASSUME NEW i \in DOMAIN pool, Issue(i)
      PROVE  SpendTypeOK'
  BY <1>2, BudgetCheckTyped DEF Issue
<1>3. ASSUME NEW i \in DOMAIN pool, Answer(i)
      PROVE  SpendTypeOK'
  <2>1. meter' \in Metered
    <3>1. CASE meter' = meter
      BY <3>1
    <3>2. CASE \E cost \in TokenCosts, unpriced \in Unpriced : RecordUsage(cost, unpriced)
      BY <3>2, RecordedUsage, EvalAssumption
    <3> QED
      BY <1>3, <3>1, <3>2 DEF Answer
  <2> QED
    BY <1>3, <2>1 DEF Answer
<1>4. CASE StartFunctional \/ StartJudging \/ StoreSummary
  BY <1>4 DEF StartFunctional, StartJudging, StoreSummary, EvalPhase
<1>5. CASE Tick
  BY <1>5 DEF Tick, spend
<1>6. CASE \/ Preflight \/ BeginRun \/ SelectProviders \/ OpenTrigger \/ SettleTrigger
           \/ StoreTriggerEvidence \/ FinishTriggerOnly \/ StopForBudget \/ OpenExecution
           \/ SettleExecution \/ NextOutcome \/ JudgeDeterministic \/ AskJudge
           \/ SettleJudgment \/ LeaveJudging \/ StoreResults \/ Conclude \/ WrapUp
           \/ RecordBundle \/ Exit \/ Throw \/ Kill \/ Ended \/ UNCHANGED vars
  BY <1>6 DEF Preflight, BeginRun, SelectProviders, OpenTrigger, SettleTrigger,
           StoreTriggerEvidence, FinishTriggerOnly, StopForBudget, OpenExecution,
           SettleExecution, NextOutcome, JudgeDeterministic, AskJudge,
           SettleJudgment, LeaveJudging, StoreResults, Conclude, WrapUp,
           RecordBundle, Exit, Throw, Kill, Ended, vars, spend
<1> QED
  BY <1>1, <1>2, <1>3, <1>4, <1>5, <1>6 DEF Next, Progress, Calling

(* No step spoils the ledger record of the run.                            *)
LEMMA LedgerStep ==
    ASSUME TypeOK, PoolFits, [Next]_vars
    PROVE  LedgerTypeOK'
<1> USE DEF TypeOK, LedgerTypeOK, RunStatus
<1>1. CASE BeginRun \/ StartRun
  BY <1>1 DEF BeginRun, StartRun, CreateRun, TransitionRun
<1>2. CASE StoreTriggerEvidence \/ StoreResults \/ StoreSummary \/ RecordBundle
  BY <1>2 DEF StoreTriggerEvidence, StoreResults, StoreSummary, RecordBundle
<1>3. CASE FinishTriggerOnly \/ StopForBudget \/ Conclude
  BY <1>3 DEF FinishTriggerOnly, StopForBudget, Conclude, TransitionRun
<1>4. CASE \/ Preflight \/ SelectProviders \/ Calling \/ OpenTrigger \/ SettleTrigger
           \/ StartFunctional \/ OpenExecution \/ SettleExecution \/ StartJudging
           \/ NextOutcome \/ JudgeDeterministic \/ AskJudge \/ SettleJudgment
           \/ LeaveJudging \/ WrapUp \/ Exit \/ Throw \/ Kill \/ Tick \/ Ended
           \/ UNCHANGED vars
  BY <1>4 DEF Preflight, SelectProviders, Calling, Issue, Answer, OpenTrigger, SettleTrigger,
           StartFunctional, OpenExecution, SettleExecution, StartJudging,
           NextOutcome, JudgeDeterministic, AskJudge, SettleJudgment,
           LeaveJudging, WrapUp, Exit, Throw, Kill, Tick, Ended, vars, ledger
<1> QED
  BY <1>1, <1>2, <1>3, <1>4 DEF Next, Progress

(* The fold of a model run is one of the three gate decisions.             *)
LEMMA RunVerdictTyped == RunVerdict \in GateResult \cup {"error"}
  BY DEF RunVerdict, RunGate, GateDecision, GateResult

(* No step spoils the report, the exit code or the written rows.           *)
LEMMA OutputStep ==
    ASSUME TypeOK, PoolFits, [Next]_vars
    PROVE  OutputTypeOK'
<1> USE DEF TypeOK, OutputTypeOK
<1>1. CASE FinishTriggerOnly \/ StopForBudget
  BY <1>1 DEF FinishTriggerOnly, StopForBudget
<1>2. CASE Conclude
  <2>1. bundle' \in Seq(Position)
    BY <1>2, AppendInSeq DEF Conclude, ControlTypeOK
  <2>2. gate' \in [Position -> GateResult \cup {"none", "error"}]
    BY <1>2, RunVerdictTyped DEF Conclude
  <2>3. listing' \in [Position -> {"none", "verdict", "error", "trigger_only", "budget_stop",
                                   "skipped"}]
    BY <1>2 DEF Conclude
  <2>4. seen' \in [infra : BOOLEAN, budget : BOOLEAN]
    BY <1>2 DEF Conclude
  <2> QED
    BY <1>2, <2>1, <2>2, <2>3, <2>4 DEF Conclude
<1>3. CASE WrapUp
  BY <1>3 DEF WrapUp
<1>4. CASE \/ Preflight \/ BeginRun \/ StartRun \/ SelectProviders \/ Calling \/ OpenTrigger
           \/ SettleTrigger \/ StoreTriggerEvidence \/ StartFunctional \/ OpenExecution
           \/ SettleExecution \/ StartJudging \/ NextOutcome \/ JudgeDeterministic
           \/ AskJudge \/ SettleJudgment \/ LeaveJudging \/ StoreResults \/ StoreSummary
           \/ RecordBundle \/ Exit \/ Throw \/ Kill \/ Tick \/ Ended \/ UNCHANGED vars
  BY <1>4 DEF Preflight, BeginRun, StartRun, SelectProviders, Calling, Issue, Answer,
           OpenTrigger, SettleTrigger, StoreTriggerEvidence, StartFunctional, OpenExecution,
           SettleExecution, StartJudging, NextOutcome, JudgeDeterministic,
           AskJudge, SettleJudgment, LeaveJudging, StoreResults, StoreSummary,
           RecordBundle, Exit, Throw, Kill, Tick, Ended, vars, output
<1> QED
  BY <1>1, <1>2, <1>3, <1>4 DEF Next, Progress

(* No step spoils the auxiliary variables.                                 *)
LEMMA HistoryStep ==
    ASSUME TypeOK, PoolFits, [Next]_vars
    PROVE  HistoryTypeOK'
<1> USE DEF TypeOK, HistoryTypeOK
<1>1. CASE StartRun
  BY <1>1 DEF StartRun, NoCalls
<1>2. ASSUME NEW i \in DOMAIN pool, Issue(i) \/ Answer(i)
      PROVE  HistoryTypeOK'
  <2>1. CASE Issue(i)
    BY <2>1 DEF Issue
  <2>2. CASE Answer(i)
    <3>1. \/ UNCHANGED <<answered, charged>>
          \/ /\ answered' = [answered EXCEPT ![PhaseOf(pc)] = @ + 1]
             /\ charged' = charged + 1
      BY <2>2 DEF Answer
    <3>2. UNCHANGED <<refused, broken>>
      BY <2>2 DEF Answer
    <3>3. charged' \in Nat
      BY <3>1
    <3>4. answered' \in [EvalPhase -> Nat]
      <4> HIDE DEF TypeOK
      <4>1. answered \in [EvalPhase -> Nat]
        BY DEF TypeOK
      <4> QED
        BY <3>1, <4>1
    <3> QED
      BY <3>2, <3>3, <3>4
  <2> QED
    BY <1>2, <2>1, <2>2
<1>3. CASE SettleTrigger \/ SettleExecution
  BY <1>3 DEF SettleTrigger, SettleExecution, NoteBroken
<1>4. CASE JudgeDeterministic \/ SettleJudgment
  <2>1. (\E dead : NoteBroken(dead)) /\ UNCHANGED <<refused, answered, charged>>
    BY <1>4 DEF JudgeDeterministic, SettleJudgment, AddJudgment
  <2> QED
    BY <2>1 DEF NoteBroken
<1>5. CASE \/ Preflight \/ BeginRun \/ SelectProviders \/ OpenTrigger \/ StoreTriggerEvidence
           \/ FinishTriggerOnly \/ StopForBudget \/ StartFunctional \/ OpenExecution
           \/ StartJudging \/ NextOutcome \/ AskJudge \/ LeaveJudging \/ StoreResults
           \/ StoreSummary \/ Conclude \/ WrapUp \/ RecordBundle \/ Exit \/ Throw \/ Kill
           \/ Tick \/ Ended \/ UNCHANGED vars
  BY <1>5 DEF Preflight, BeginRun, SelectProviders, OpenTrigger, StoreTriggerEvidence,
           FinishTriggerOnly, StopForBudget, StartFunctional, OpenExecution,
           StartJudging, NextOutcome, AskJudge, LeaveJudging, StoreResults,
           StoreSummary, Conclude, WrapUp, RecordBundle, Exit, Throw, Kill,
           Tick, Ended, vars, history
<1> QED
  BY <1>1, <1>2, <1>3, <1>4, <1>5 DEF Next, Progress, Calling

-----------------------------------------------------------------------------
(* Pools and the budget's sum. *)

(* Whatever the place, an empty pool fits it.                              *)
LEMMA EmptyPoolFits ==
    ASSUME pool' = <<>>
    PROVE  PoolFits'
  BY EmptySeq DEF PoolFits

(* Every step leaves a pool that belongs to the loop it is in.             *)
LEMMA PoolStep ==
    ASSUME TypeOK, PoolFits, [Next]_vars
    PROVE  PoolFits'
<1>1. ASSUME NEW i \in DOMAIN pool, Issue(i)
      PROVE  PoolFits'
  <2>1. UNCHANGED <<pc, item, crit, inv>>
    BY <1>1 DEF Issue, cursor
  <2>2. CASE pc \in {"trigger", "execute"}
    BY <1>1, <2>1, <2>2, IssuePool DEF PoolFits, Calls
  <2>3. CASE pc = "judge"
    BY <1>1, <2>1, <2>3, IssuePool DEF PoolFits, Votes, SampleResult, CriterionAt
  <2> QED
    BY <2>2, <2>3, CallingPlace
<1>2. ASSUME NEW i \in DOMAIN pool, Answer(i)
      PROVE  PoolFits'
  <2>1. UNCHANGED <<pc, item, crit, inv>>
    BY <1>2 DEF Answer, cursor
  <2>2. CASE pc \in {"trigger", "execute"}
    BY <1>2, <2>1, <2>2, AnswerPool DEF PoolFits, Calls, ReplyTo
  <2>3. CASE pc = "judge"
    BY <1>2, <2>1, <2>3, AnswerPool DEF PoolFits, Votes, ReplyTo, CriterionAt
  <2> QED
    BY <2>2, <2>3, CallingPlace
<1>3. CASE OpenTrigger \/ OpenExecution
  <2>1. UNCHANGED pc /\ pc \in {"trigger", "execute"} /\ OpenCall(1)
    BY <1>3 DEF OpenTrigger, OpenExecution, At, cursor
  <2>2. pool' \in Seq(Calls) /\ Len(pool') = 1
    BY <2>1, OpenCallTasks DEF Calls
  <2> QED
    BY <2>1, <2>2 DEF PoolFits
<1>4. CASE AskJudge
  <2>1. UNCHANGED <<pc, item, crit, inv>> /\ pc = "judge" /\ OpenCall(inv.samples[CriterionAt])
    BY <1>4 DEF AskJudge, AtCriterion, InJudgeLoop, At, cursor
  <2>2. item \in 1..Cases /\ crit \in 1..Len(Applicable[item])
    BY <1>4, CritInRange DEF AskJudge
  <2>3. inv.samples[CriterionAt] \in Nat
    BY <2>2, CriterionTyped, SamplesTyped
  <2>4. pool' \in Seq(Votes) /\ Len(pool') = inv.samples[CriterionAt]
    BY <2>1, <2>3, OpenCallTasks DEF Votes
  <2> QED
    BY <2>1, <2>2, <2>4 DEF PoolFits, CriterionAt
<1>5. CASE SettleTrigger \/ SettleExecution \/ SettleJudgment
  BY <1>5, EmptyPoolFits DEF SettleTrigger, SettleExecution, SettleJudgment
<1>6. CASE \/ Preflight \/ BeginRun \/ StartRun \/ SelectProviders \/ StoreTriggerEvidence
           \/ FinishTriggerOnly \/ StopForBudget \/ StartFunctional \/ StartJudging
           \/ NextOutcome \/ JudgeDeterministic \/ LeaveJudging \/ StoreResults
           \/ StoreSummary \/ Conclude \/ WrapUp \/ RecordBundle \/ Exit \/ Throw
  BY <1>6, EmptyPoolFits
  DEF Preflight, BeginRun, StartRun, SelectProviders, StoreTriggerEvidence,
           FinishTriggerOnly, StopForBudget, StartFunctional, StartJudging,
           NextOutcome, JudgeDeterministic, LeaveJudging, StoreResults,
           StoreSummary, Conclude, WrapUp, RecordBundle, Exit, Throw,
           AtCriterion, InJudgeLoop, At
<1>7. CASE Kill \/ Tick \/ Ended \/ UNCHANGED vars
  BY <1>7 DEF Kill, Tick, Ended, vars, cursor, PoolFits, CriterionAt
<1> QED
  BY <1>1, <1>2, <1>3, <1>4, <1>5, <1>6, <1>7 DEF Next, Progress, Calling

(* Every step charges the pool to the phase of the loop it is in.          *)
LEMMA ChargeStep ==
    ASSUME TypeOK, ChargeFits, [Next]_vars
    PROVE  ChargeFits'
<1>0. CallsOf(meter) \in Nat /\ closed.calls \in Nat /\ charged \in Nat
  BY CallsIsNat DEF TypeOK, SpendTypeOK, HistoryTypeOK
<1>1. CASE StartRun
  <2>1. charged' = charged /\ meter' = EmptyMeter /\ closed'.calls = closed.calls + CallsOf(meter)
    BY <1>1 DEF StartRun, AttachMeter
  <2>2. CallsOf(meter') = 0
    BY <2>1, EmptyMeterTyped
  <2> QED
    BY <1>0, <2>1, <2>2 DEF ChargeFits
<1>2. ASSUME NEW i \in DOMAIN pool, Answer(i)
      PROVE  ChargeFits'
  <2>1. CASE UNCHANGED <<meter, charged>>
    BY <1>2, <2>1 DEF Answer, ChargeFits, CallsOf
  <2>2. CASE /\ \E cost \in TokenCosts, unpriced \in Unpriced : RecordUsage(cost, unpriced)
             /\ charged' = charged + 1
    <3>1. CallsOf(meter') = CallsOf(meter) + 1
      BY <2>2, RecordedUsage, EvalAssumption
    <3>2. closed' = closed
      BY <1>2 DEF Answer
    <3> QED
      BY <1>0, <2>2, <3>1, <3>2 DEF ChargeFits
  <2> QED
    BY <1>2, <2>1, <2>2 DEF Answer
<1>3. CASE \/ Preflight \/ BeginRun \/ SelectProviders \/ (\E i \in DOMAIN pool : Issue(i))
           \/ OpenTrigger \/ SettleTrigger \/ StoreTriggerEvidence \/ FinishTriggerOnly
           \/ StopForBudget \/ StartFunctional \/ OpenExecution \/ SettleExecution
           \/ StartJudging \/ NextOutcome \/ JudgeDeterministic \/ AskJudge \/ SettleJudgment
           \/ LeaveJudging \/ StoreResults \/ StoreSummary \/ Conclude \/ WrapUp
           \/ RecordBundle \/ Exit \/ Throw \/ Kill \/ Tick \/ Ended \/ UNCHANGED vars
  <2>1. UNCHANGED <<meter, closed, charged>>
    BY <1>3 DEF Preflight, BeginRun, SelectProviders, Issue, OpenTrigger, SettleTrigger,
           StoreTriggerEvidence, FinishTriggerOnly, StopForBudget, StartFunctional,
           OpenExecution, SettleExecution, StartJudging, NextOutcome, JudgeDeterministic,
           AskJudge, SettleJudgment, LeaveJudging, StoreResults, StoreSummary, Conclude,
           WrapUp, RecordBundle, Exit, Throw, Kill, Tick, Ended, vars, spend, history
  <2> QED
    BY <2>1 DEF ChargeFits, CallsOf
<1> QED
  BY <1>1, <1>2, <1>3 DEF Next, Progress, Calling

(* A run starts in the inductive invariant.                                *)
LEMMA InitIInv == Init => IInv
<1> SUFFICES ASSUME Init PROVE IInv
  OBVIOUS
<1> USE DEF Init
<1>1. ControlTypeOK
  BY EvalAssumption DEF ControlTypeOK, Position, Pass
<1>2. ResultsTypeOK
  BY EmptySeq DEF ResultsTypeOK
<1>3. SpendTypeOK
  BY EmptyMeterTyped DEF SpendTypeOK, EvalPhase, NothingClosed
<1>4. LedgerTypeOK
  BY DEF LedgerTypeOK
<1>5. OutputTypeOK
  BY EmptySeq DEF OutputTypeOK
<1>6. HistoryTypeOK
  BY DEF HistoryTypeOK, NoCalls
<1>7. PoolFits
  BY DEF PoolFits
<1>8. ChargeFits
  BY EmptyMeterTyped DEF ChargeFits, NothingClosed
<1> QED
  BY <1>1, <1>2, <1>3, <1>4, <1>5, <1>6, <1>7, <1>8 DEF IInv, TypeOK

(* Every step keeps the inductive invariant.                               *)
LEMMA NextIInv ==
    ASSUME IInv, [Next]_vars
    PROVE  IInv'
  BY ControlStep, ResultsStep, SpendStep, LedgerStep, OutputStep, HistoryStep, PoolStep,
     ChargeStep DEF IInv, TypeOK

(* Every variable of the handler keeps its shape, whatever fails.          *)
THEOREM IInvInvariant == Spec => []IInv
  BY InitIInv, NextIInv, PTL DEF Spec

(* TypeOK is invariant: the conjunct of IInv the model-checked runs state. *)
THEOREM TypeCorrect == Spec => []TypeOK
  BY IInvInvariant, PTL DEF IInv

-----------------------------------------------------------------------------
(* The budget. *)

(* budget.ts mergeBudgetLimits: the merged limit is at most either source. *)
LEMMA MergedIsStricter ==
    ASSUME NEW spec, NEW run, IsLimits(spec), IsLimits(run),
           NEW limits \in {spec, run}, NEW name \in DOMAIN limits
    PROVE  LET merged == MergeLimits(spec, run) IN
           /\ name \in DOMAIN merged
           /\ merged[name] \in Nat /\ limits[name] \in Nat
           /\ merged[name] <= limits[name]
<1>1. /\ name \in DOMAIN spec => spec[name] \in Nat
      /\ name \in DOMAIN run => run[name] \in Nat
  BY DEF IsLimits
<1>2. MergeLimits(spec, run)[name] = IF RunIsStricter(spec, run, name) THEN run[name]
                                                                      ELSE spec[name]
  BY DEF MergeLimits
<1>3. name \in DOMAIN MergeLimits(spec, run)
  BY DEF MergeLimits
<1> QED
  BY <1>1, <1>2, <1>3 DEF RunIsStricter

(* A guard that lets a call out has seen fewer calls than every max_calls. *)
LEMMA OpenGuard ==
    ASSUME IInv, BudgetCheck = NoStop,
           NEW limits \in {inv.specLimits, inv.runLimits}, "max_calls" \in DOMAIN limits
    PROVE  limits["max_calls"] \in Nat /\ charged < limits["max_calls"]
<1>1. IsLimits(inv.specLimits) /\ IsLimits(inv.runLimits)
  BY EvalAssumption DEF IInv, TypeOK, ControlTypeOK, IsInvocation
<1>2. /\ "max_calls" \in DOMAIN RunLimits
      /\ RunLimits["max_calls"] \in Nat /\ limits["max_calls"] \in Nat
      /\ RunLimits["max_calls"] <= limits["max_calls"]
  BY <1>1, MergedIsStricter DEF RunLimits
<1>3. FirstExhausted(RunLimits, SpentNow) = NoStop
  BY DEF BudgetCheck
<1>4. ~Exhausts(RunLimits, SpentNow, "max_calls")
  BY <1>3 DEF FirstExhausted, NoStop
<1>5. SpentNow.calls = charged
  BY DEF IInv, ChargeFits, SpentNow, Spent
<1>6. charged \in Nat
  BY DEF IInv, TypeOK, HistoryTypeOK
<1>7. ~(charged >= RunLimits["max_calls"])
  BY <1>2, <1>4, <1>5 DEF Exhausts
<1> QED
  BY <1>2, <1>6, <1>7

(* The sum of answers and calls in flight allowed by a limit.              *)
LEMMA WorkersTyped ==
    ASSUME IInv, NEW c \in Criteria
    PROVE  WorkersOf(c) \in Nat \ {0}
  BY SamplesTyped DEF WorkersOf, IInv

(* Fewer charged and running calls satisfy a bound that more of them do.   *)
LEMMA FewerCallsAllowed ==
    ASSUME IInv, NEW k \in Nat, NEW l \in Nat, NEW limit \in Nat,
           MayOvershoot(k, limit), l <= k
    PROVE  MayOvershoot(l, limit)
  BY WorkersTyped DEF MayOvershoot

(* The pool of a judge criterion never has more calls in flight than its   *)
(* workers, the other pools never more than one.                           *)
LEMMA ClaimFits ==
    ASSUME IInv, NEW i \in DOMAIN pool, CanClaim(pool, Limit, i)
    PROVE  \/ Cardinality(InFlight(pool)) < 1
           \/ \E c \in Criteria : Cardinality(InFlight(pool)) < WorkersOf(c)
<1>1. pool \in Seq(TaskState) /\ Len(pool) \in Nat /\ DOMAIN pool = 1..Len(pool)
      /\ Cardinality(InFlight(pool)) \in Nat
  BY LenProperties, InFlightFinite DEF IInv, TypeOK, ResultsTypeOK
<1>2. pc \in {"trigger", "execute", "judge"} /\ pool # <<>>
  BY CallingPlace DEF IInv
<1>3. Cardinality(InFlight(pool)) < WorkerCount(pool, Limit)
  BY DEF CanClaim
<1>4. CASE pc \in {"trigger", "execute"}
  <2>1. Len(pool) <= 1 /\ Limit = Len(pool)
    BY <1>4 DEF IInv, PoolFits, Limit
  <2> QED
    BY <1>1, <1>3, <2>1 DEF WorkerCount
<1>5. CASE pc = "judge"
  <2>1. CriterionAt \in Criteria /\ Len(pool) = inv.samples[CriterionAt]
    BY <1>2, <1>5, CriterionTyped DEF IInv, PoolFits
  <2>2. inv.samples[CriterionAt] \in Nat \ {0} /\ inv.concurrency \in Nat
    BY <2>1, SamplesTyped DEF IInv
  <2>3. WorkerCount(pool, Limit) = WorkersOf(CriterionAt)
    BY <1>5, <2>1, <2>2 DEF WorkerCount, WorkersOf, Limit
  <2> QED
    BY <1>3, <2>1, <2>3
<1> QED
  BY <1>2, <1>4, <1>5

(* Every step other than a worker's claim keeps or lowers the sum.         *)
LEMMA QuietPools ==
    ASSUME IInv, [Next]_vars, \A i \in DOMAIN pool : ~Issue(i) /\ ~Answer(i)
    PROVE  /\ UNCHANGED <<charged, inv>>
           /\ InFlight(pool') = InFlight(pool) \/ InFlight(pool') = {}
<1> DEFINE G == UNCHANGED <<charged, inv>>
               /\ (InFlight(pool') = InFlight(pool) \/ InFlight(pool') = {})
<1>0. InFlight(<<>>) = {}
  BY DEF InFlight
<1>1. CASE OpenTrigger \/ OpenExecution
  BY <1>1, OpenCallTasks DEF OpenTrigger, OpenExecution, history
<1>2. CASE AskJudge
  <2>1. inv.samples[CriterionAt] \in Nat
    BY <1>2, CritInRange, CriterionTyped, SamplesTyped DEF AskJudge, IInv
  <2> QED
    BY <1>2, <2>1, OpenCallTasks DEF AskJudge, history
<1>3. CASE SettleTrigger \/ SettleExecution \/ SettleJudgment
  BY <1>0, <1>3 DEF SettleTrigger, SettleExecution, SettleJudgment
<1>4. CASE \/ Preflight \/ BeginRun \/ StartRun \/ SelectProviders \/ StoreTriggerEvidence
           \/ FinishTriggerOnly \/ StopForBudget \/ StartFunctional \/ StartJudging
           \/ NextOutcome \/ JudgeDeterministic \/ LeaveJudging \/ StoreResults
           \/ StoreSummary \/ Conclude \/ WrapUp \/ RecordBundle \/ Exit \/ Throw \/ Kill
           \/ Tick \/ Ended \/ UNCHANGED vars
  BY <1>4 DEF Preflight, BeginRun, StartRun, SelectProviders, StoreTriggerEvidence,
           FinishTriggerOnly, StopForBudget, StartFunctional, StartJudging,
           NextOutcome, JudgeDeterministic, LeaveJudging, StoreResults,
           StoreSummary, Conclude, WrapUp, RecordBundle, Exit, Throw, Kill,
           Tick, Ended, vars, history
<1> QED
  BY <1>1, <1>2, <1>3, <1>4 DEF Next, Progress, Calling

(* A claim raises the sum by one, and only below every max_calls.          *)
LEMMA IssueOvershoot ==
    ASSUME IInv, OvershootBounded, NEW i \in DOMAIN pool, Issue(i)
    PROVE  OvershootBounded'
<1> DEFINE open == Cardinality(InFlight(pool))
<1>1. UNCHANGED <<charged, inv>>
  BY DEF Issue
<1>2. pool \in Seq(TaskState) /\ {"flying", "error"} \subseteq TaskState
  BY DEF IInv, TypeOK, ResultsTypeOK, TaskState, SampleResult
<1>3. IsFiniteSet(InFlight(pool)) /\ open \in Nat /\ charged \in Nat
  BY <1>2, InFlightFinite DEF IInv, TypeOK, HistoryTypeOK
<1>4. CASE BudgetCheck # NoStop
  <2>1. InFlight(pool') = InFlight(pool)
    BY <1>2, <1>4, IssuePool
  <2> QED
    BY <1>1, <2>1 DEF OvershootBounded, MayOvershoot, WorkersOf
<1>5. CASE BudgetCheck = NoStop
  <2>1. InFlight(pool') = InFlight(pool) \cup {i} /\ i \notin InFlight(pool)
    BY <1>2, <1>5, IssuePool
  <2>2. Cardinality(InFlight(pool')) = open + 1
    BY <1>3, <2>1, FS_AddElement
  <2>3. open < 1 \/ \E c \in Criteria : open < WorkersOf(c)
    BY ClaimFits DEF Issue
  <2>4. ASSUME NEW limits \in {inv.specLimits, inv.runLimits}, "max_calls" \in DOMAIN limits
        PROVE  MayOvershoot(charged + (open + 1), limits["max_calls"])
    <3>1. limits["max_calls"] \in Nat /\ charged < limits["max_calls"]
      BY <1>5, <2>4, OpenGuard
    <3>2. CASE open < 1
      BY <1>3, <3>1, <3>2 DEF MayOvershoot
    <3>3. ASSUME NEW c \in Criteria, open < WorkersOf(c)
          PROVE  charged + (open + 1) < limits["max_calls"] + WorkersOf(c)
      BY <1>3, <3>1, <3>3, WorkersTyped
    <3> QED
      BY <2>3, <3>2, <3>3 DEF MayOvershoot
  <2> QED
    BY <1>1, <2>2, <2>4 DEF OvershootBounded, MayOvershoot, WorkersOf
<1> QED
  BY <1>4, <1>5

(* A step that does not raise the sum keeps the bound.                     *)
LEMMA LowerSumKeepsBound ==
    ASSUME IInv, OvershootBounded, inv' = inv,
           charged' + Cardinality(InFlight(pool')) \in Nat,
           charged' + Cardinality(InFlight(pool')) <= charged + Cardinality(InFlight(pool))
    PROVE  OvershootBounded'
<1>1. pool \in Seq(TaskState) /\ charged \in Nat
  BY DEF IInv, TypeOK, ResultsTypeOK, HistoryTypeOK
<1>2. charged + Cardinality(InFlight(pool)) \in Nat
  BY <1>1, InFlightFinite
<1>3. ASSUME NEW limits \in {inv.specLimits, inv.runLimits}, "max_calls" \in DOMAIN limits
      PROVE  MayOvershoot(charged' + Cardinality(InFlight(pool')), limits["max_calls"])
  <2>1. limits["max_calls"] \in Nat
    BY <1>3, EvalAssumption DEF IInv, TypeOK, ControlTypeOK, IsInvocation, IsLimits
  <2>2. MayOvershoot(charged + Cardinality(InFlight(pool)), limits["max_calls"])
    BY <1>3 DEF OvershootBounded
  <2> QED
    BY <1>2, <2>1, <2>2, FewerCallsAllowed
<1> QED
  BY <1>3 DEF OvershootBounded, MayOvershoot, WorkersOf

(* An answer trades a call in flight for a charged one: the bound stands.  *)
LEMMA AnswerOvershoot ==
    ASSUME IInv, OvershootBounded, NEW i \in DOMAIN pool, Answer(i)
    PROVE  OvershootBounded'
<1>1. pool \in Seq(TaskState) /\ charged \in Nat
  BY DEF IInv, TypeOK, ResultsTypeOK, HistoryTypeOK
<1>2. ReplyTo(pc) \subseteq TaskState
  BY DEF ReplyTo, TaskState, SampleResult
<1>3. InFlight(pool') = InFlight(pool) \ {i} /\ i \in InFlight(pool)
  BY <1>1, <1>2, AnswerPool
<1>4. IsFiniteSet(InFlight(pool)) /\ Cardinality(InFlight(pool)) \in Nat
  BY <1>1, InFlightFinite
<1>5. /\ Cardinality(InFlight(pool')) = Cardinality(InFlight(pool)) - 1
      /\ Cardinality(InFlight(pool')) \in Nat
  <2>1. IsFiniteSet(InFlight(pool'))
    BY <1>3, <1>4, FS_RemoveElement
  <2> QED
    BY <1>3, <1>4, <2>1, FS_RemoveElement, FS_CardinalityType
<1>6. (charged' = charged \/ charged' = charged + 1) /\ inv' = inv
  BY DEF Answer
<1> QED
  BY <1>1, <1>4, <1>5, <1>6, LowerSumKeepsBound

(* A step that neither issues nor answers keeps the bound.                 *)
LEMMA QuietOvershoot ==
    ASSUME IInv, OvershootBounded, [Next]_vars, \A i \in DOMAIN pool : ~Issue(i) /\ ~Answer(i)
    PROVE  OvershootBounded'
<1>1. pool \in Seq(TaskState) /\ charged \in Nat
  BY DEF IInv, TypeOK, ResultsTypeOK, HistoryTypeOK
<1>2. Cardinality(InFlight(pool)) \in Nat
  BY <1>1, InFlightFinite
<1>3. /\ charged' = charged /\ inv' = inv
      /\ InFlight(pool') = InFlight(pool) \/ InFlight(pool') = {}
  BY QuietPools
<1>4. /\ Cardinality(InFlight(pool')) \in Nat
      /\ Cardinality(InFlight(pool')) <= Cardinality(InFlight(pool))
  BY <1>2, <1>3, FS_EmptySet
<1> QED
  BY <1>1, <1>2, <1>3, <1>4, LowerSumKeepsBound

(* budget.ts:14-17: for every number of models, cases, samples and workers *)
(* and every pair of max_calls, the invocation overshoots a max_calls by   *)
(* at most the calls that were in flight when it was reached.              *)
THEOREM OvershootIsBounded == Spec => []OvershootBounded
<1>1. Init => OvershootBounded
  <2> SUFFICES ASSUME Init PROVE OvershootBounded
    OBVIOUS
  <2>1. InFlight(pool) = {} /\ charged = 0 /\ inv \in Invocations
    BY DEF Init, InFlight
  <2>2. charged + Cardinality(InFlight(pool)) = 0
    BY <2>1, FS_EmptySet
  <2>3. ASSUME NEW limits \in {inv.specLimits, inv.runLimits}, "max_calls" \in DOMAIN limits
        PROVE  0 <= limits["max_calls"]
    BY <2>1, <2>3, EvalAssumption DEF IsInvocation, IsLimits
  <2> QED
    BY <2>2, <2>3 DEF OvershootBounded, MayOvershoot
<1>2. IInv /\ OvershootBounded /\ [Next]_vars => OvershootBounded'
  BY IssueOvershoot, AnswerOvershoot, QuietOvershoot
<1> QED
  BY <1>1, <1>2, IInvInvariant, PTL DEF Spec

-----------------------------------------------------------------------------
(* The latch. *)

LatchKept == stop # NoStop => stop' = stop /\ InFlight(pool') \subseteq InFlight(pool)

(* Only a claim touches the latch, and with the latch set it is refused.   *)
LEMMA LatchStep ==
    ASSUME IInv, [Next]_vars
    PROVE  LatchKept
<1>0. pool \in Seq(TaskState) /\ {"flying", "error"} \subseteq TaskState
      /\ ReplyTo(pc) \subseteq TaskState
  BY DEF IInv, TypeOK, ResultsTypeOK, TaskState, SampleResult, ReplyTo
<1>1. ASSUME NEW i \in DOMAIN pool, Issue(i)
      PROVE  LatchKept
  <2>1. stop # NoStop => BudgetCheck = stop
    BY DEF BudgetCheck
  <2> QED
    BY <1>0, <1>1, <2>1, IssuePool DEF Issue, LatchKept
<1>2. ASSUME NEW i \in DOMAIN pool, Answer(i)
      PROVE  LatchKept
  BY <1>0, <1>2, AnswerPool DEF Answer, LatchKept
<1>3. ASSUME \A i \in DOMAIN pool : ~Issue(i) /\ ~Answer(i)
      PROVE  LatchKept
  <2>1. InFlight(pool') \subseteq InFlight(pool)
    BY <1>3, QuietPools
  <2>2. stop' = stop
    BY <1>3 DEF Next, Progress, Calling, Preflight, BeginRun, StartRun, SelectProviders,
           OpenTrigger, SettleTrigger, StoreTriggerEvidence, FinishTriggerOnly,
           StopForBudget, StartFunctional, OpenExecution, SettleExecution, StartJudging,
           NextOutcome, JudgeDeterministic, AskJudge, SettleJudgment, LeaveJudging,
           StoreResults, StoreSummary, Conclude, WrapUp, RecordBundle, Exit, Throw, Kill,
           Tick, Ended, vars, spend
  <2> QED
    BY <2>1, <2>2 DEF LatchKept
<1> QED
  BY <1>1, <1>2, <1>3

(* budget.ts check(): once a limit is reached no later call of any phase   *)
(* or model goes out, and the reported reason never changes.               *)
THEOREM LatchHolds == Spec => LatchIsFinal
<1>1. IInv /\ [Next]_vars => [LatchKept]_vars
  BY LatchStep
<1> QED
  BY <1>1, IInvInvariant, PTL DEF Spec, LatchIsFinal, LatchKept

-----------------------------------------------------------------------------
(* Verdicts. *)

\* The places at which the current model is being evaluated.
Evaluating == {"providers", "trigger", "triggered", "execute", "judge", "judged", "summarise",
               "compared"}
Over == {"wrapup", "record", "exit"}

\* A decision is given when the run is left, never before.
DecidedIsLeft == \A i \in Position : gate[i] # "none" => i < model \/ pc \in Over

\* A refusal leaves the latch set, and later runs have refused nothing.
RefusedIsLatched == \A i \in Position : refused[i] => stop # NoStop /\ i <= model

\* What broke in the current run is still visible in its results.
BrokenIsSeen ==
    /\ \A i \in Position : broken[i] => i <= model
    /\ pc \in {"preflight", "create", "start"} => ~broken[model]
    /\ pc \in Evaluating => (broken[model] => InfraFailure)

EarnedInv == DecidedIsLeft /\ RefusedIsLatched /\ BrokenIsSeen /\ VerdictIsEarned

(* Appending keeps every element and adds one at the end.                  *)
LEMMA AppendedDomain ==
    ASSUME NEW S, NEW s \in Seq(S), NEW e \in S
    PROVE  LET t == Append(s, e) IN
           /\ \A i \in DOMAIN s : i \in DOMAIN t /\ t[i] = s[i]
           /\ Len(s) + 1 \in DOMAIN t /\ t[Len(s) + 1] = e
<1> DEFINE t == Append(s, e)
<1>1. t \in Seq(S) /\ Len(t) = Len(s) + 1 /\ t[Len(s) + 1] = e
      /\ \A i \in 1..Len(s) : t[i] = s[i]
  BY AppendProperties
<1>2. Len(s) \in Nat /\ DOMAIN s = 1..Len(s) /\ DOMAIN t = 1..Len(t)
  BY <1>1, LenProperties
<1> HIDE DEF t
<1>3. (\A i \in DOMAIN s : i \in DOMAIN t /\ t[i] = s[i])
      /\ Len(s) + 1 \in DOMAIN t /\ t[Len(s) + 1] = e
  BY <1>1, <1>2
<1> QED
  BY <1>3 DEF t

(* Rows that hold an error still do after one more is appended.            *)
LEMMA ErrorAppended ==
    ASSUME NEW s \in Seq({"ok", "error"}), NEW e \in {"ok", "error"},
           SomeError(s) \/ e = "error"
    PROVE  SomeError(Append(s, e))
  BY AppendedDomain DEF SomeError

(* Judgments that hold a dead sample still do after one more.              *)
LEMMA DeadAppended ==
    ASSUME NEW s \in Seq(JudgmentRow), NEW row \in JudgmentRow, SomeDead(s) \/ row.dead
    PROVE  SomeDead(Append(s, row))
  BY AppendedDomain DEF SomeDead

(* A position gets its gate when the loop leaves it, never before or after. *)
LEMMA DecidedStep ==
    ASSUME IInv, DecidedIsLeft, [Next]_vars
    PROVE  DecidedIsLeft'
<1> USE EvalAssumption DEF DecidedIsLeft, Over, Position
<1>0. model \in 1..N /\ gate \in [1..N -> GateResult \cup {"none", "error"}]
  BY DEF IInv, TypeOK, ControlTypeOK, OutputTypeOK
<1>1. CASE Conclude
  <2>1. pc = "compared"
    BY <1>1 DEF Conclude, At
  <2>2. \A i \in 1..N : gate'[i] # "none" => i < model \/ i = model
    BY <1>0, <1>1, <2>1 DEF Conclude
  <2>3. (model < N /\ model' = model + 1) \/ (pc' = "wrapup" /\ model' = model)
    BY <1>1 DEF Conclude, NextModel, Goto
  <2> QED
    BY <1>0, <2>2, <2>3
<1>2. CASE FinishTriggerOnly
  <2>1. gate' = gate /\ pc = "triggered"
    BY <1>2 DEF FinishTriggerOnly, At
  <2>2. (model < N /\ model' = model + 1) \/ (pc' = "wrapup" /\ model' = model)
    BY <1>2 DEF FinishTriggerOnly, NextModel, Goto
  <2> QED
    BY <1>0, <2>1, <2>2
<1>3. CASE StopForBudget \/ WrapUp \/ RecordBundle \/ Exit
  BY <1>0, <1>3 DEF StopForBudget, WrapUp, RecordBundle, Exit, At, Goto, output, cursor
<1>4. CASE Calling
  BY <1>4, CallingPlace DEF Calling, Issue, Answer, output, cursor, IInv
<1>5. CASE \/ Preflight \/ BeginRun \/ StartRun \/ SelectProviders \/ OpenTrigger
           \/ SettleTrigger \/ StoreTriggerEvidence \/ StartFunctional
  BY <1>5 DEF Preflight, BeginRun, StartRun, SelectProviders, OpenTrigger,
           SettleTrigger, StoreTriggerEvidence, StartFunctional, At, output, cursor
<1>6. CASE \/ OpenExecution \/ SettleExecution \/ StartJudging \/ NextOutcome
           \/ JudgeDeterministic \/ AskJudge \/ SettleJudgment \/ LeaveJudging
           \/ StoreResults \/ StoreSummary
  BY <1>6 DEF OpenExecution, SettleExecution, StartJudging, NextOutcome,
           JudgeDeterministic, AskJudge, SettleJudgment, LeaveJudging,
           StoreResults, StoreSummary, AtCriterion, InJudgeLoop, At, output, cursor
<1>7. CASE Throw \/ Kill \/ Tick \/ Ended \/ UNCHANGED vars
  BY <1>7 DEF Throw, Kill, Tick, Ended, vars, output, cursor
<1> QED
  BY <1>1, <1>2, <1>3, <1>4, <1>5, <1>6, <1>7 DEF Next, Progress

(* The loop over the models only goes forward.                             *)
LEMMA ModelStep ==
    ASSUME IInv, [Next]_vars
    PROVE  model' = model \/ model' = model + 1
  BY DEF Next, Progress, Calling, Issue, Answer, Preflight, BeginRun, StartRun, SelectProviders,
         OpenTrigger, SettleTrigger, StoreTriggerEvidence, FinishTriggerOnly,
         StopForBudget, StartFunctional, OpenExecution, SettleExecution, StartJudging,
         NextOutcome, JudgeDeterministic, AskJudge, SettleJudgment, LeaveJudging,
         StoreResults, StoreSummary, Conclude, WrapUp, RecordBundle, Exit, Throw, Kill,
         Tick, Ended, vars, cursor, NextModel

(* A refused call leaves the latch set for the rest of the run.            *)
LEMMA RefusedStep ==
    ASSUME IInv, RefusedIsLatched, [Next]_vars
    PROVE  RefusedIsLatched'
<1> USE DEF RefusedIsLatched
<1>0. /\ model \in 1..N /\ (model' = model \/ model' = model + 1)
      /\ refused \in [Position -> BOOLEAN] /\ Position \subseteq Nat
  BY ModelStep, EvalAssumption DEF IInv, TypeOK, ControlTypeOK, HistoryTypeOK, Position
<1>1. ASSUME NEW i \in DOMAIN pool, Issue(i)
      PROVE  RefusedIsLatched'
  <2>1. stop # NoStop => BudgetCheck = stop
    BY DEF BudgetCheck
  <2>2. /\ model' = model /\ stop' = BudgetCheck
        /\ refused' = [refused EXCEPT ![model] = @ \/ BudgetCheck # NoStop]
    BY <1>1 DEF Issue, cursor
  <2>3. \A j \in Position : refused'[j] => refused[j] \/ (j = model /\ BudgetCheck # NoStop)
    BY <1>0, <2>2
  <2> QED
    BY <1>0, <2>1, <2>2, <2>3
<1>2. ASSUME \A i \in DOMAIN pool : ~Issue(i)
      PROVE  RefusedIsLatched'
  <2>1. refused' = refused
    BY <1>2 DEF Next, Progress, Calling, Answer, Preflight, BeginRun, StartRun,
         SelectProviders, OpenTrigger, SettleTrigger, StoreTriggerEvidence, FinishTriggerOnly,
         StopForBudget, StartFunctional, OpenExecution, SettleExecution, StartJudging,
         NextOutcome, JudgeDeterministic, AskJudge, SettleJudgment, LeaveJudging,
         StoreResults, StoreSummary, Conclude, WrapUp, RecordBundle, Exit, Throw, Kill,
         Tick, Ended, vars, history
  <2>2. stop # NoStop => stop' = stop
    BY LatchStep DEF LatchKept
  <2> QED
    BY <1>0, <2>1, <2>2
<1> QED
  BY <1>1, <1>2

(* A failure joins what the run has already seen, and stays visible.       *)
LEMMA FailureNoted ==
    ASSUME IInv, BrokenIsSeen, NEW failed \in BOOLEAN, NoteBroken(failed),
           model' = model, pc \in Evaluating, pc' \in Evaluating,
           InfraFailure \/ failed => InfraFailure'
    PROVE  BrokenIsSeen'
<1>0. /\ model \in Position /\ Position \subseteq Nat
      /\ broken \in [Position -> BOOLEAN]
  BY DEF IInv, TypeOK, ControlTypeOK, HistoryTypeOK, Position
<1>1. broken' = [broken EXCEPT ![model] = @ \/ failed]
  BY DEF NoteBroken
<1>2. \A i \in Position : broken'[i] => broken[i] \/ (i = model /\ failed)
  BY <1>0, <1>1
<1>3. \A i \in Position : broken'[i] => i <= model'
  BY <1>0, <1>2 DEF BrokenIsSeen
<1>4. broken'[model'] => InfraFailure'
  BY <1>0, <1>2 DEF BrokenIsSeen
<1> QED
  BY <1>3, <1>4 DEF BrokenIsSeen, Evaluating

(* An infrastructure error stays visible in the rows of its position.      *)
LEMMA BrokenStep ==
    ASSUME IInv, BrokenIsSeen, [Next]_vars
    PROVE  BrokenIsSeen'
<1>0. /\ model \in 1..N /\ Position = 1..N /\ N \in Nat
      /\ broken \in [Position -> BOOLEAN]
      /\ triggers \in Seq({"ok", "error"})
      /\ outcomes \in [Pass -> Seq({"ok", "error"})]
      /\ judgments \in [Pass -> Seq(JudgmentRow)]
      /\ pass \in Pass
  BY EvalAssumption DEF IInv, TypeOK, ControlTypeOK, ResultsTypeOK, HistoryTypeOK, Position
<1>1. CASE SettleTrigger
  <2>1. /\ triggers' = Append(triggers, pool[1]) /\ UNCHANGED <<outcomes, judgments>>
        /\ NoteBroken(pool[1] = "error") /\ model' = model /\ pc' = pc /\ pc = "trigger"
    BY <1>1 DEF SettleTrigger
  <2>2. pool[1] \in {"ok", "error"}
    BY <1>1, SingleReply DEF SettleTrigger, IInv, PoolFits
  <2>3. SomeError(triggers) \/ pool[1] = "error" => SomeError(triggers')
    BY <1>0, <2>1, <2>2, ErrorAppended
  <2>4. InfraFailure \/ pool[1] = "error" => InfraFailure'
    BY <2>1, <2>3 DEF InfraFailure, SomeError, SomeDead
  <2> QED
    BY <2>1, <2>4, FailureNoted DEF Evaluating
<1>2. CASE SettleExecution
  <2>1. /\ outcomes' = [outcomes EXCEPT ![pass] = Append(@, pool[1])]
        /\ UNCHANGED <<triggers, judgments>>
        /\ NoteBroken(pool[1] = "error") /\ model' = model /\ pc' = pc /\ pc = "execute"
    BY <1>2 DEF SettleExecution
  <2>2. pool[1] \in {"ok", "error"}
    BY <1>2, SingleReply DEF SettleExecution, IInv, PoolFits
  <2>3. SomeError(outcomes[pass]) \/ pool[1] = "error" => SomeError(outcomes'[pass])
    BY <1>0, <2>1, <2>2, ErrorAppended
  <2>4. \A p \in Pass : p # pass => outcomes'[p] = outcomes[p]
    BY <1>0, <2>1
  <2>5. InfraFailure \/ pool[1] = "error" => InfraFailure'
    BY <1>0, <2>1, <2>3, <2>4 DEF InfraFailure, SomeError, SomeDead
  <2> QED
    BY <2>1, <2>5, FailureNoted DEF Evaluating
<1>3. ASSUME NEW row \in JudgmentRow, AddJudgment(row), UNCHANGED <<triggers, outcomes>>,
             model' = model, pc' = pc, pc = "judge"
      PROVE  BrokenIsSeen'
  <2>1. judgments' = [judgments EXCEPT ![pass] = Append(@, row)] /\ NoteBroken(row.dead)
    BY <1>3 DEF AddJudgment
  <2>2. SomeDead(judgments[pass]) \/ row.dead => SomeDead(judgments'[pass])
    BY <1>0, <2>1, DeadAppended
  <2>3. \A p \in Pass : p # pass => judgments'[p] = judgments[p]
    BY <1>0, <2>1
  <2>4. InfraFailure \/ row.dead => InfraFailure'
    BY <1>0, <1>3, <2>2, <2>3 DEF InfraFailure, SomeError, SomeDead
  <2>5. row.dead \in BOOLEAN
    BY DEF JudgmentRow
  <2> QED
    BY <1>3, <2>1, <2>4, <2>5, FailureNoted DEF Evaluating
<1>4. CASE SettleJudgment
  <2> DEFINE row == FoldSamples(CriterionAt, item, pool)
  <2>1. pool \in Seq(SampleResult) /\ pool # <<>>
    BY <1>4, SettledVotes DEF SettleJudgment, IInv, PoolFits
  <2>2. CriterionAt \in Criteria /\ item \in Nat
    BY <1>4, <2>1, CriterionTyped, EvalAssumption DEF SettleJudgment, IInv, PoolFits
  <2>3. row \in JudgmentRow
    BY <2>1, <2>2, FoldIsRow
  <2>4. /\ AddJudgment(row) /\ UNCHANGED <<triggers, outcomes>>
        /\ model' = model /\ pc' = pc /\ pc = "judge"
    BY <1>4 DEF SettleJudgment
  <2> HIDE DEF row
  <2> QED
    BY <1>3, <2>3, <2>4
<1>5. CASE JudgeDeterministic
  <2>1. PICK passed \in BOOLEAN :
            AddJudgment(DeterministicJudgment(CriterionAt, item, passed))
    BY <1>5 DEF JudgeDeterministic
  <2> DEFINE row == DeterministicJudgment(CriterionAt, item, passed)
  <2>2. CriterionAt \in Criteria /\ item \in Nat
    BY <1>5, CriterionTyped, CritInRange, EvalAssumption DEF JudgeDeterministic, IInv
  <2>3. row \in JudgmentRow
    BY <2>2, DeterministicIsRow
  <2>4. /\ UNCHANGED <<triggers, outcomes>> /\ model' = model /\ pc' = pc /\ pc = "judge"
    BY <1>5 DEF JudgeDeterministic, AtCriterion, InJudgeLoop, At
  <2>5. AddJudgment(row)
    BY <2>1
  <2> HIDE DEF row
  <2> QED
    BY <1>3, <2>3, <2>4, <2>5
<1>6. CASE StartRun
  BY <1>6 DEF StartRun, At, Goto, BrokenIsSeen, Evaluating
<1>7. CASE StoreResults
  <2> DEFINE row == DeterministicJudgment(SelfTest, 0, inv.selfTest = "yes")
  <2>1. /\ UNCHANGED <<triggers, outcomes, broken, model>>
        /\ pc = "judged" /\ pc' = "summarise"
        /\ judgments' = judgments
           \/ judgments' = [judgments EXCEPT !["skill"] = Append(@, row)]
    BY <1>7 DEF StoreResults, At, Goto, history
  <2>2. row \in JudgmentRow
    BY DeterministicIsRow
  <2> HIDE DEF row
  <2>3. \A p \in Pass : SomeDead(judgments[p]) => SomeDead(judgments'[p])
    BY <1>0, <2>1, <2>2, DeadAppended, ZenonT(60) DEF Pass
  <2>4. InfraFailure => InfraFailure'
    BY <2>1, <2>3 DEF InfraFailure, SomeError, SomeDead
  <2> QED
    BY <2>1, <2>4 DEF BrokenIsSeen, Evaluating
<1>8. CASE FinishTriggerOnly \/ Conclude
  <2>1. /\ broken' = broken
        /\ \/ model < N /\ model' = model + 1 /\ pc' = "create"
           \/ model' = model /\ pc' = "wrapup"
    BY <1>8 DEF FinishTriggerOnly, Conclude, NextModel, Goto, history
  <2> QED
    BY <1>0, <2>1 DEF BrokenIsSeen, Evaluating
<1>9. CASE Preflight \/ BeginRun \/ StopForBudget \/ WrapUp \/ RecordBundle \/ Exit
  <2>1. UNCHANGED <<broken, model>> /\ pc' \notin Evaluating
    BY <1>9 DEF Preflight, BeginRun, StopForBudget, WrapUp, RecordBundle, Exit, At, Goto,
                history, cursor, Evaluating
  <2>2. pc' \in {"preflight", "create", "start"} => pc \in {"preflight", "create", "start"}
    BY <1>9 DEF Preflight, BeginRun, StopForBudget, WrapUp, RecordBundle, Exit, At, Goto,
                history, cursor
  <2> QED
    BY <2>1, <2>2 DEF BrokenIsSeen
<1>10. CASE \/ SelectProviders \/ OpenTrigger \/ StoreTriggerEvidence \/ StartFunctional
            \/ OpenExecution \/ StartJudging \/ NextOutcome \/ AskJudge \/ LeaveJudging
            \/ StoreSummary
  <2>1. UNCHANGED <<broken, model, results>> /\ pc \in Evaluating /\ pc' \in Evaluating
    BY <1>10 DEF SelectProviders, OpenTrigger, StoreTriggerEvidence, StartFunctional,
            OpenExecution, StartJudging, NextOutcome, AskJudge, LeaveJudging, StoreSummary,
            AtCriterion, InJudgeLoop, At, Goto, Evaluating, history, cursor
  <2> QED
    BY <2>1 DEF BrokenIsSeen, InfraFailure, SomeError, SomeDead, results, Evaluating
<1>11. CASE Throw \/ Kill \/ Tick \/ Ended \/ UNCHANGED vars \/ \E i \in DOMAIN pool : Issue(i)
  <2>1. UNCHANGED <<broken, model, results, pc>>
    BY <1>11 DEF Throw, Kill, Tick, Ended, vars, Issue, history, cursor
  <2> QED
    BY <2>1 DEF BrokenIsSeen, InfraFailure, SomeError, SomeDead, results
<1>12. CASE \E i \in DOMAIN pool : Answer(i)
  <2>1. UNCHANGED <<broken, model, results, pc>>
    BY <1>12 DEF Answer, cursor
  <2> QED
    BY <2>1 DEF BrokenIsSeen, InfraFailure, SomeError, SomeDead, results
<1> QED
  BY <1>1, <1>2, <1>4, <1>5, <1>6, <1>7, <1>8, <1>9, <1>10, <1>11, <1>12
  DEF Next, Progress, Calling

(* A verdict is written only for a position with no refusal and no error.  *)
LEMMA EarnedStep ==
    ASSUME IInv, EarnedInv, [Next]_vars
    PROVE  VerdictIsEarned'
<1>0. /\ model \in Position /\ Position \subseteq Nat
      /\ broken \in [Position -> BOOLEAN] /\ refused \in [Position -> BOOLEAN]
      /\ gate \in [Position -> GateResult \cup {"none", "error"}]
  BY DEF IInv, TypeOK, ControlTypeOK, OutputTypeOK, HistoryTypeOK, Position
<1>1. CASE Conclude
  <2>1. /\ pc = "compared" /\ stop = NoStop /\ UNCHANGED <<refused, broken>>
        /\ gate' = [gate EXCEPT ![model] = RunVerdict]
    BY <1>1 DEF Conclude, At, history
  <2>2. ~refused[model]
    BY <1>0, <2>1 DEF EarnedInv, RefusedIsLatched
  <2>3. RunVerdict \in GateResult => ~InfraFailure
    BY DEF RunVerdict, GateResult
  <2>4. RunVerdict \in GateResult => ~broken[model]
    BY <2>1, <2>3 DEF EarnedInv, BrokenIsSeen, Evaluating
  <2>5. \A i \in Position : i # model => gate'[i] = gate[i]
    BY <1>0, <2>1
  <2>6. gate'[model] = RunVerdict
    BY <1>0, <2>1
  <2> QED
    BY <2>1, <2>2, <2>4, <2>5, <2>6 DEF EarnedInv, VerdictIsEarned
<1>2. ASSUME pc \in {"trigger", "execute", "judge"}, gate' = gate,
             \A i \in Position : i # model => refused'[i] = refused[i] /\ broken'[i] = broken[i]
      PROVE  VerdictIsEarned'
  <2>1. gate[model] = "none"
    BY <1>0, <1>2 DEF EarnedInv, DecidedIsLeft, Over
  <2> QED
    BY <1>2, <2>1 DEF EarnedInv, VerdictIsEarned, GateResult
<1>3. CASE Calling
  <2>1. PICK i \in DOMAIN pool : Issue(i) \/ Answer(i)
    BY <1>3 DEF Calling
  <2>2. pc \in {"trigger", "execute", "judge"}
    BY CallingPlace DEF IInv
  <2>3. gate' = gate /\ \A j \in Position : j # model =>
                            refused'[j] = refused[j] /\ broken'[j] = broken[j]
    BY <1>0, <2>1 DEF Issue, Answer, output
  <2> QED
    BY <1>2, <2>2, <2>3
<1>4. CASE SettleTrigger \/ SettleExecution \/ SettleJudgment \/ JudgeDeterministic
  <2>1. pc \in {"trigger", "execute", "judge"} /\ gate' = gate /\ refused' = refused
    BY <1>4 DEF SettleTrigger, SettleExecution, SettleJudgment, JudgeDeterministic,
                AtCriterion, InJudgeLoop, At, output
  <2>2. \E failed : NoteBroken(failed)
    BY <1>4 DEF SettleTrigger, SettleExecution, SettleJudgment, JudgeDeterministic, AddJudgment
  <2>3. \A j \in Position : j # model => broken'[j] = broken[j]
    BY <1>0, <2>2 DEF NoteBroken
  <2> QED
    BY <1>2, <2>1, <2>3
<1>5. CASE \/ Preflight \/ BeginRun \/ StartRun \/ SelectProviders \/ OpenTrigger
           \/ StoreTriggerEvidence \/ FinishTriggerOnly \/ StopForBudget \/ StartFunctional
           \/ OpenExecution \/ StartJudging \/ NextOutcome \/ AskJudge \/ LeaveJudging
           \/ StoreResults \/ StoreSummary \/ WrapUp \/ RecordBundle \/ Exit \/ Throw \/ Kill
           \/ Tick \/ Ended \/ UNCHANGED vars
  <2>1. UNCHANGED <<gate, refused, broken>>
    BY <1>5 DEF Preflight, BeginRun, StartRun, SelectProviders, OpenTrigger,
           StoreTriggerEvidence, FinishTriggerOnly, StopForBudget, StartFunctional,
           OpenExecution, StartJudging, NextOutcome, AskJudge, LeaveJudging,
           StoreResults, StoreSummary, WrapUp, RecordBundle, Exit, Throw, Kill,
           Tick, Ended, vars, output, history
  <2> QED
    BY <2>1 DEF EarnedInv, VerdictIsEarned
<1> QED
  BY <1>1, <1>3, <1>4, <1>5 DEF Next, Progress

(* At the start no run has been decided, refused or broken.                *)
LEMMA InitEarned == Init => EarnedInv
  BY EvalAssumption DEF Init, EarnedInv, DecidedIsLeft, RefusedIsLatched, BrokenIsSeen,
                        VerdictIsEarned, Evaluating, GateResult, Position

(* Every step keeps the decisions earned.                                  *)
LEMMA NextEarned == IInv /\ EarnedInv /\ [Next]_vars => EarnedInv'
  BY DecidedStep, RefusedStep, BrokenStep, EarnedStep DEF EarnedInv

(* A pass, fail or advisory decision is only given to a run in which no    *)
(* call was refused and nothing requested went unevaluated.                *)
THEOREM VerdictsAreEarned == Spec => []VerdictIsEarned
<1>1. EarnedInv => VerdictIsEarned
  BY DEF EarnedInv
<1> QED
  BY <1>1, InitEarned, NextEarned, IInvInvariant, PTL DEF Spec

-----------------------------------------------------------------------------
(* What every run looks like while the loop over the models goes on.       *)

\* Nothing is known of a run that has not begun, and nothing of it is stored.
Blank(i) ==
    /\ reason[i] = "none" /\ saved[i] = {} /\ gate[i] = "none"
    /\ ~refused[i] /\ ~broken[i]

Completed(i) ==
    /\ status[i] = "completed" /\ reason[i] = "none" /\ ~broken[i]
    /\ inv.functional => /\ listing[i] = "verdict" /\ gate[i] \in GateResult
                         /\ {"results", "summary"} \subseteq saved[i]
    /\ ~inv.functional => listing[i] = "trigger_only" /\ gate[i] = "none"

BrokeDown(i) ==
    /\ status[i] = "failed" /\ reason[i] = "infra" /\ listing[i] = "error"
    /\ gate[i] = IF inv.functional THEN "error" ELSE "none"

\* A run the loop has left without a budget stop.
Concluded(i) == ~refused[i] /\ "trigger" \in saved[i] /\ (Completed(i) \/ BrokeDown(i))

Running(i) ==
    status[i] = "running" /\ reason[i] = "none" /\ gate[i] = "none" /\ listing[i] = "none"

BudgetStopped(i) ==
    /\ status[i] = "failed" /\ reason[i] = "budget" /\ gate[i] = "none"
    /\ listing[i] = "budget_stop"

PastJournal == \A i \in Position : i < model => Concluded(i)

PresentJournal ==
    /\ pc \in {"preflight", "create"} =>
          status[model] = "absent" /\ Blank(model) /\ listing[model] = "none"
    /\ pc = "start" => status[model] = "pending" /\ Blank(model) /\ listing[model] = "none"
    /\ pc \in Evaluating => Running(model)
    /\ pc \in Over /\ seen.budget => BudgetStopped(model)
    /\ pc \in Over /\ ~seen.budget => model = N /\ Concluded(model)

FutureJournal ==
    \A i \in Position : i > model =>
        /\ status[i] = "absent" /\ Blank(i)
        /\ listing[i] = IF pc \in {"record", "exit"} /\ seen.budget THEN "skipped" ELSE "none"

Journal == PastJournal /\ PresentJournal /\ FutureJournal

\* The latch is set exactly when the current run was refused a call, and the
\* loop is left on account of it exactly then.
LatchFits ==
    /\ refused[model] <=> stop # NoStop
    /\ seen.budget <=> pc \in Over /\ stop # NoStop

\* What the current run has stored when the handler stands at pc.
EvidenceFits ==
    /\ pc \in Evaluating \ {"providers", "trigger"} => "trigger" \in saved[model]
    /\ pc \in {"execute", "judge", "judged", "summarise", "compared"} => inv.functional
    /\ pc = "summarise" => "results" \in saved[model]
    /\ pc = "compared" \/ (pc \in {"execute", "judge"} /\ pass = "baseline") =>
          {"results", "summary"} \subseteq saved[model]
    /\ pc \in {"providers", "trigger", "triggered"} =>
          \A p \in Pass : outcomes[p] = <<>> /\ judgments[p] = <<>>

SeenFits == seen.infra <=> \E i \in Position : reason[i] = "infra"

Bundled(rows) == {rows[k] : k \in DOMAIN rows}

\* In memory the bundle holds the decided runs; on disk it is absent or whole.
BundleFits ==
    /\ Bundled(bundle) = IF inv.bundle THEN {i \in Position : gate[i] # "none"} ELSE {}
    /\ bundleFile = IF pc \in {"record", "exit"} THEN bundle ELSE <<>>
    /\ pc = "record" => item \in 1..Len(bundle)
    /\ \A i \in Position :
          "bundle" \in saved[i] => pc \in {"record", "exit"} /\ i \in Bundled(bundle)

ExitFits ==
    exit \in {"0", "2", "3"} =>
        /\ pc = "exit"
        /\ exit = IF seen.budget THEN "3" ELSE IF seen.infra THEN "2" ELSE "0"

JournalInv ==
    Journal /\ LatchFits /\ EvidenceFits /\ SeenFits /\ BundleFits /\ ExitFits

(* The type facts the steps below need.                                    *)
LEMMA JournalTypes ==
    ASSUME IInv
    PROVE  /\ model \in Position /\ Position = 1..N /\ N \in Nat \ {0}
           /\ status \in [Position -> RunStatus \cup {"absent"}]
           /\ reason \in [Position -> {"none", "budget", "infra"}]
           /\ saved \in [Position -> SUBSET {"trigger", "results", "summary", "bundle"}]
           /\ gate \in [Position -> GateResult \cup {"none", "error"}]
           /\ listing \in [Position -> {"none", "verdict", "error", "trigger_only",
                                        "budget_stop", "skipped"}]
           /\ refused \in [Position -> BOOLEAN] /\ broken \in [Position -> BOOLEAN]
           /\ seen \in [infra : BOOLEAN, budget : BOOLEAN]
           /\ bundle \in Seq(Position)
           /\ outcomes \in [Pass -> Seq({"ok", "error"})]
           /\ judgments \in [Pass -> Seq(JudgmentRow)]
  BY EvalAssumption DEF IInv, TypeOK, ControlTypeOK, LedgerTypeOK, OutputTypeOK, HistoryTypeOK,
                        ResultsTypeOK, Position

(* A step inside the evaluation of one model, or one that moves nothing the *)
(* journal looks at.                                                       *)
LEMMA QuietJournal ==
    ASSUME IInv, Journal, UNCHANGED <<inv, model, status, reason, gate, listing, seen>>,
           \A i \in Position : i # model =>
               saved'[i] = saved[i] /\ refused'[i] = refused[i] /\ broken'[i] = broken[i],
           \/ pc \in Evaluating /\ pc' \in Evaluating
           \/ UNCHANGED <<pc, saved, refused, broken>>
    PROVE  Journal'
<1>0. model \in Nat /\ Position = 1..N /\ model \in Position /\ N \in Nat \ {0}
  BY JournalTypes
<1>1. PastJournal'
  BY <1>0 DEF Journal, PastJournal, Concluded, Completed, BrokeDown
<1>2. FutureJournal'
  BY <1>0 DEF Journal, FutureJournal, Blank, Evaluating
<1>3. PresentJournal'
  <2>1. CASE UNCHANGED <<pc, saved, refused, broken>>
    BY <2>1 DEF Journal, PresentJournal, Running, Concluded, Completed, BrokeDown,
                BudgetStopped, Blank
  <2>2. CASE pc \in Evaluating /\ pc' \in Evaluating
    BY <2>2 DEF Journal, PresentJournal, Running, Evaluating, Over
  <2> QED
    BY <2>1, <2>2
<1> QED
  BY <1>1, <1>2, <1>3 DEF Journal

(* When a run is left without a budget stop, it is concluded: it completed *)
(* with its evidence and nothing broken, or it is marked as broken.        *)
LEMMA LeftIsConcluded ==
    ASSUME IInv, EarnedInv, JournalInv, Conclude \/ FinishTriggerOnly, NEW i \in Position, i = model
    PROVE  Concluded(i)'
<1>0. /\ status \in [Position -> RunStatus \cup {"absent"}]
      /\ reason \in [Position -> {"none", "budget", "infra"}]
      /\ gate \in [Position -> GateResult \cup {"none", "error"}]
      /\ listing \in [Position -> {"none", "verdict", "error", "trigger_only",
                                   "budget_stop", "skipped"}]
  BY JournalTypes
<1>1. CASE Conclude
  <2>1. /\ pc = "compared" /\ stop = NoStop /\ UNCHANGED <<inv, saved, refused, broken>>
        /\ gate'[i] = RunVerdict
        /\ listing'[i] = IF InfraFailure THEN "error" ELSE "verdict"
        /\ status'[i] = IF InfraFailure THEN "failed" ELSE "completed"
        /\ reason'[i] = IF InfraFailure THEN "infra" ELSE "none"
    BY <1>0, <1>1 DEF Conclude, At, TransitionRun, history
  <2>2. ~refused[i] /\ inv.functional /\ {"trigger", "results", "summary"} \subseteq saved[i]
    BY <2>1 DEF JournalInv, LatchFits, EvidenceFits, Evaluating
  <2>3. broken[i] => InfraFailure
    BY <2>1 DEF EarnedInv, BrokenIsSeen, Evaluating
  <2>4. ~InfraFailure => RunVerdict \in GateResult
    BY DEF RunVerdict, RunGate, GateDecision, GateResult
  <2>5. InfraFailure => RunVerdict = "error"
    BY DEF RunVerdict
  <2> QED
    BY <2>1, <2>2, <2>3, <2>4, <2>5 DEF Concluded, Completed, BrokeDown, GateResult
<1>2. CASE FinishTriggerOnly
  <2>1. /\ pc = "triggered" /\ stop = NoStop /\ UNCHANGED <<inv, saved, refused, broken, gate>>
        /\ ~inv.functional
        /\ listing'[i] = IF SomeError(triggers) THEN "error" ELSE "trigger_only"
        /\ status'[i] = IF SomeError(triggers) THEN "failed" ELSE "completed"
        /\ reason'[i] = IF SomeError(triggers) THEN "infra" ELSE "none"
    BY <1>0, <1>2 DEF FinishTriggerOnly, At, TransitionRun, history
  <2>2. ~refused[i] /\ "trigger" \in saved[i] /\ gate[i] = "none"
    BY <2>1 DEF JournalInv, LatchFits, EvidenceFits, Evaluating, Journal, PresentJournal, Running
  <2>3. \A p \in Pass : ~SomeError(outcomes[p]) /\ ~SomeDead(judgments[p])
    BY <2>1 DEF JournalInv, EvidenceFits, SomeError, SomeDead
  <2>4. broken[i] => SomeError(triggers)
    BY <2>1, <2>3 DEF EarnedInv, BrokenIsSeen, Evaluating, InfraFailure
  <2> QED
    BY <2>1, <2>2, <2>4 DEF Concluded, Completed, BrokeDown
<1> QED
  BY <1>1, <1>2

(* The loop goes on to a run that has not begun, or it is over.            *)
LEMMA LeaveJournal ==
    ASSUME IInv, EarnedInv, JournalInv, Conclude \/ FinishTriggerOnly
    PROVE  Journal'
<1>0. model \in Nat /\ Position = 1..N /\ model \in Position /\ N \in Nat \ {0}
  BY JournalTypes
<1>1. /\ \/ model < N /\ model' = model + 1 /\ pc' = "create"
         \/ model = N /\ model' = model /\ pc' = "wrapup"
      /\ pc \notin Over /\ seen'.budget = seen.budget
      /\ UNCHANGED <<inv, saved, refused, broken>>
      /\ \A i \in Position : i # model =>
            /\ status'[i] = status[i] /\ reason'[i] = reason[i] /\ gate'[i] = gate[i]
            /\ listing'[i] = listing[i]
  BY <1>0, JournalTypes DEF Conclude, FinishTriggerOnly, NextModel, Goto, At, TransitionRun, Over,
                 history
<1>2. ~seen.budget
  BY <1>1 DEF JournalInv, LatchFits
<1>3. \A i \in Position : i <= model => Concluded(i)'
  <2>1. SUFFICES ASSUME NEW i \in Position, i <= model PROVE Concluded(i)'
    OBVIOUS
  <2>2. CASE i = model
    BY <2>2, LeftIsConcluded
  <2>3. CASE i < model
    BY <1>0, <1>1, <2>3 DEF JournalInv, Journal, PastJournal, Concluded, Completed, BrokeDown
  <2> QED
    BY <1>0, <2>1, <2>2, <2>3
<1>4. PastJournal'
  BY <1>0, <1>1, <1>3 DEF PastJournal
<1>5. \A i \in Position : i > model =>
          status'[i] = "absent" /\ Blank(i)' /\ listing'[i] = "none"
  BY <1>0, <1>1 DEF JournalInv, Journal, FutureJournal, Blank, Over
<1>6. FutureJournal'
  BY <1>0, <1>1, <1>5 DEF FutureJournal
<1>7. PresentJournal'
  <2>1. CASE model < N /\ model' = model + 1 /\ pc' = "create"
    <3>1. model + 1 \in Position /\ model + 1 > model
      BY <1>0, <2>1
    <3>2. status'[model'] = "absent" /\ Blank(model)' /\ listing'[model'] = "none"
      BY <1>5, <2>1, <3>1 DEF Blank
    <3> QED
      BY <2>1, <3>2 DEF PresentJournal, Evaluating, Over
  <2>2. CASE model = N /\ model' = model /\ pc' = "wrapup"
    <3>1. Concluded(model)'
      BY <1>0, <1>3, <2>2 DEF Concluded, Completed, BrokeDown
    <3> QED
      BY <1>1, <1>2, <2>2, <3>1 DEF PresentJournal, Evaluating, Over
  <2> QED
    BY <1>1, <2>1, <2>2
<1> QED
  BY <1>4, <1>6, <1>7 DEF Journal

(* The three steps before a run is evaluated, and the preflight's exit.    *)
LEMMA BeginJournal ==
    ASSUME IInv, JournalInv, Preflight \/ BeginRun \/ StartRun
    PROVE  Journal'
<1>0. model \in Nat /\ Position = 1..N /\ model \in Position /\ N \in Nat \ {0}
  BY JournalTypes
<1>1. /\ UNCHANGED <<inv, model, reason, saved, gate, listing, seen, refused, broken>>
      /\ pc' \notin Over /\ pc \notin Over
      /\ \A i \in Position : i # model => status'[i] = status[i]
  BY JournalTypes DEF Preflight, BeginRun, StartRun, At, Goto, CreateRun, TransitionRun, Over,
                      history, output, ledger
<1>2. PastJournal'
  BY <1>0, <1>1 DEF JournalInv, Journal, PastJournal, Concluded, Completed, BrokeDown
<1>3. FutureJournal'
  BY <1>0, <1>1 DEF JournalInv, Journal, FutureJournal, Blank, Over
<1>4. PresentJournal'
  <2>1. CASE Preflight
    BY <1>1, <2>1 DEF JournalInv, Journal, PresentJournal, Preflight, At, Goto, ledger, Blank,
                      Evaluating, Over
  <2>2. CASE BeginRun
    BY <1>0, <1>1, <2>2, JournalTypes DEF JournalInv, Journal, PresentJournal, BeginRun, At, Goto,
                      CreateRun, Blank, Evaluating, Over
  <2>3. CASE StartRun
    BY <1>0, <1>1, <2>3, JournalTypes DEF JournalInv, Journal, PresentJournal, StartRun, At, Goto,
                      TransitionRun, Blank, Evaluating, Over, Running
  <2> QED
    BY <2>1, <2>2, <2>3
<1> QED
  BY <1>2, <1>3, <1>4 DEF Journal

(* A budget stop leaves the loop where it stands.                          *)
LEMMA StopJournal ==
    ASSUME IInv, JournalInv, StopForBudget
    PROVE  Journal'
<1>0. model \in Nat /\ Position = 1..N /\ model \in Position /\ N \in Nat \ {0}
  BY JournalTypes
<1>1. /\ UNCHANGED <<inv, model, saved, gate, refused, broken>>
      /\ pc \in Evaluating /\ pc' = "wrapup" /\ seen'.budget = TRUE
      /\ status'[model] = "failed" /\ reason'[model] = "budget"
      /\ listing'[model] = "budget_stop"
      /\ \A i \in Position : i # model =>
             status'[i] = status[i] /\ reason'[i] = reason[i] /\ listing'[i] = listing[i]
  BY <1>0, JournalTypes DEF StopForBudget, Goto, TransitionRun, Evaluating, history
<1>2. PastJournal'
  BY <1>0, <1>1 DEF JournalInv, Journal, PastJournal, Concluded, Completed, BrokeDown
<1>3. FutureJournal'
  BY <1>0, <1>1 DEF JournalInv, Journal, FutureJournal, Blank, Evaluating
<1>4. PresentJournal'
  BY <1>0, <1>1 DEF JournalInv, Journal, PresentJournal, Running, Evaluating, Over, BudgetStopped
<1> QED
  BY <1>2, <1>3, <1>4 DEF Journal

(* After the loop: the skipped runs are listed, the decided ones get their *)
(* artifact row; nothing else of a run changes.                            *)
LEMMA WrapJournal ==
    ASSUME IInv, JournalInv, WrapUp \/ RecordBundle
    PROVE  Journal'
<1>0. model \in Nat /\ Position = 1..N /\ model \in Position /\ N \in Nat \ {0}
  BY JournalTypes
<1>1. /\ UNCHANGED <<inv, model, status, reason, gate, seen, refused, broken>>
      /\ pc \in Over /\ pc' \in {"record", "exit"}
  BY DEF WrapUp, RecordBundle, At, Goto, history, output, ledger, Over
<1>2. \A i \in Position :
          /\ saved[i] \subseteq saved'[i]
          /\ saved[i] = {} /\ gate[i] = "none" => saved'[i] = {}
          /\ listing[i] # "none" => listing'[i] = listing[i]
          /\ i > model => listing'[i] = IF seen.budget THEN "skipped" ELSE "none"
  <2>1. CASE WrapUp
    BY <1>0, <2>1 DEF WrapUp, ledger, JournalInv, Journal, FutureJournal, At
  <2>2. CASE RecordBundle
    <3>1. item \in 1..Len(bundle) /\ bundle \in Seq(Position)
      BY <2>2, JournalTypes DEF RecordBundle, At, JournalInv, BundleFits
    <3>2. bundle[item] \in Position /\ item \in DOMAIN bundle
      BY <3>1, ElementOfSeq, LenProperties
    <3>3. gate[bundle[item]] # "none"
      BY <3>2 DEF JournalInv, BundleFits, Bundled
    <3>4. listing' = listing /\ pc = "record"
          /\ saved' = [saved EXCEPT ![bundle[item]] = @ \cup {"bundle"}]
      BY <2>2 DEF RecordBundle, At, output
    <3> QED
      BY <1>0, <3>2, <3>3, <3>4, JournalTypes DEF JournalInv, Journal, FutureJournal
  <2> QED
    BY <2>1, <2>2
<1>3. PastJournal'
  BY <1>0, <1>1, <1>2 DEF JournalInv, Journal, PastJournal, Concluded, Completed, BrokeDown
<1>4. FutureJournal'
  BY <1>0, <1>1, <1>2 DEF JournalInv, Journal, FutureJournal, Blank
<1>5. PresentJournal'
  BY <1>0, <1>1, <1>2 DEF JournalInv, Journal, PresentJournal, Concluded, Completed, BrokeDown,
                          Evaluating, Over, BudgetStopped
<1> QED
  BY <1>3, <1>4, <1>5 DEF Journal

(* No step of the handler leaves a run in a state the journal rules out.   *)
LEMMA JournalStep ==
    ASSUME IInv, EarnedInv, JournalInv, [Next]_vars
    PROVE  Journal'
<1>0. model \in Nat /\ Position = 1..N /\ model \in Position /\ N \in Nat \ {0}
  BY JournalTypes
<1>1. CASE Calling
  <2>1. PICK i \in DOMAIN pool : Issue(i) \/ Answer(i)
    BY <1>1 DEF Calling
  <2>2. pc \in Evaluating
    BY CallingPlace DEF IInv, Evaluating
  <2> QED
    BY <2>1, <2>2, JournalTypes, QuietJournal
    DEF Issue, Answer, cursor, ledger, output, JournalInv
<1>2. CASE SettleTrigger \/ SettleExecution \/ JudgeDeterministic \/ SettleJudgment
  <2>1. PICK failed : NoteBroken(failed)
    BY <1>2 DEF SettleTrigger, SettleExecution, SettleJudgment, JudgeDeterministic, AddJudgment
  <2> QED
    BY <1>2, <2>1, JournalTypes, QuietJournal
    DEF SettleTrigger, SettleExecution, SettleJudgment, JudgeDeterministic, NoteBroken,
        AtCriterion, InJudgeLoop, At, ledger, output, JournalInv, Evaluating
<1>3. CASE \/ SelectProviders \/ OpenTrigger \/ StoreTriggerEvidence \/ StartFunctional
           \/ OpenExecution \/ StartJudging \/ NextOutcome \/ AskJudge \/ LeaveJudging
           \/ StoreResults \/ StoreSummary
  <2>1. /\ pc \in Evaluating /\ pc' \in Evaluating
        /\ UNCHANGED <<inv, model, status, reason, gate, listing, seen, refused, broken>>
    BY <1>3 DEF SelectProviders, OpenTrigger, StoreTriggerEvidence, StartFunctional,
           OpenExecution, StartJudging, NextOutcome, AskJudge, LeaveJudging,
           StoreResults, StoreSummary, AtCriterion, InJudgeLoop, At, Goto, cursor, ledger,
           output, history, Evaluating
  <2>2. saved' = saved \/ \E what : saved' = [saved EXCEPT ![model] = @ \cup what]
    BY <1>3 DEF SelectProviders, OpenTrigger, StoreTriggerEvidence, StartFunctional,
           OpenExecution, StartJudging, NextOutcome, AskJudge, LeaveJudging,
           StoreResults, StoreSummary, ledger
  <2> QED
    BY <2>1, <2>2, JournalTypes, QuietJournal DEF JournalInv
<1>4. CASE Exit \/ Throw \/ Kill \/ Tick \/ Ended \/ UNCHANGED vars
  BY <1>4, QuietJournal DEF Exit, Throw, Kill, Tick, Ended, vars, cursor, ledger, output,
                            history, JournalInv
<1> QED
  BY <1>1, <1>2, <1>3, <1>4, LeaveJournal, BeginJournal, StopJournal, WrapJournal
  DEF Next, Progress

(* The latch, the current run's refusals and the budget stop agree.        *)
LEMMA LatchFitsStep ==
    ASSUME IInv, JournalInv, [Next]_vars
    PROVE  LatchFits'
<1>0. /\ model \in Nat /\ Position = 1..N /\ model \in Position /\ N \in Nat \ {0}
      /\ refused \in [Position -> BOOLEAN] /\ seen \in [infra : BOOLEAN, budget : BOOLEAN]
  BY JournalTypes
<1>1. ASSUME NEW i \in DOMAIN pool, Issue(i)
      PROVE  LatchFits'
  <2>1. /\ stop' = BudgetCheck /\ UNCHANGED <<seen, pc, model>>
        /\ refused'[model] = (refused[model] \/ BudgetCheck # NoStop)
    BY <1>0, <1>1 DEF Issue, output, cursor
  <2>2. stop # NoStop => BudgetCheck # NoStop
    BY DEF BudgetCheck
  <2>3. pc \in Evaluating
    BY CallingPlace DEF IInv, Evaluating
  <2> QED
    BY <2>1, <2>2, <2>3 DEF JournalInv, LatchFits, Evaluating, Over
<1>2. ASSUME NEW i \in DOMAIN pool, Answer(i)
      PROVE  LatchFits'
  BY <1>2 DEF Answer, output, cursor, JournalInv, LatchFits
<1>3. CASE Conclude \/ FinishTriggerOnly
  <2>1. /\ stop = NoStop /\ UNCHANGED <<stop, refused>> /\ seen'.budget = seen.budget
        /\ pc \notin Over
        /\ model' = model \/ (model < N /\ model' = model + 1)
    <3>1. CASE Conclude
      BY <1>0, <3>1 DEF Conclude, NextModel, spend, history, At, Over
    <3>2. CASE FinishTriggerOnly
      BY <1>0, <3>2 DEF FinishTriggerOnly, NextModel, spend, history, At, Over
    <3> QED
      BY <1>3, <3>1, <3>2
  <2>2. ~refused[model] /\ ~seen.budget
    BY <2>1 DEF JournalInv, LatchFits
  <2>3. ~refused[model']
    BY <1>0, <2>1, <2>2 DEF JournalInv, Journal, FutureJournal, Blank
  <2> QED
    BY <2>1, <2>2, <2>3 DEF LatchFits
<1>4. CASE StopForBudget
  BY <1>0, <1>4 DEF StopForBudget, spend, history, Goto, JournalInv, LatchFits, Over
<1>5. CASE WrapUp \/ RecordBundle \/ Exit \/ Throw \/ Kill \/ Tick \/ Ended \/ UNCHANGED vars
  <2>1. /\ UNCHANGED <<stop, refused, seen, model>>
        /\ (pc \in Over /\ pc' \in Over) \/ pc' = pc
    BY <1>5 DEF WrapUp, RecordBundle, Exit, Throw, Kill, Tick, Ended, vars, At, Goto, Over, spend,
                history, output, cursor
  <2> QED
    BY <2>1 DEF JournalInv, LatchFits
<1>6. CASE \/ Preflight \/ BeginRun \/ StartRun \/ SelectProviders \/ OpenTrigger
           \/ SettleTrigger \/ StoreTriggerEvidence \/ StartFunctional
  BY <1>6 DEF Preflight, BeginRun, StartRun, SelectProviders, OpenTrigger, SettleTrigger,
           StoreTriggerEvidence, StartFunctional, At, Goto, Over, spend, history, output, cursor,
           JournalInv, LatchFits
<1>7. CASE \/ OpenExecution \/ SettleExecution \/ StartJudging \/ NextOutcome
           \/ JudgeDeterministic \/ AskJudge \/ SettleJudgment \/ LeaveJudging
           \/ StoreResults \/ StoreSummary
  BY <1>7 DEF OpenExecution, SettleExecution, StartJudging, NextOutcome, JudgeDeterministic,
           AskJudge, SettleJudgment, LeaveJudging, StoreResults, StoreSummary, AtCriterion,
           InJudgeLoop, At, Goto, Over, spend, history, output, cursor, JournalInv, LatchFits
<1> QED
  BY <1>1, <1>2, <1>3, <1>4, <1>5, <1>6, <1>7 DEF Next, Progress, Calling

(* The evidence of the current run is stored before the handler moves on.  *)
LEMMA EvidenceFitsStep ==
    ASSUME IInv, JournalInv, [Next]_vars
    PROVE  EvidenceFits'
<1>0. /\ model \in Position
      /\ saved \in [Position -> SUBSET {"trigger", "results", "summary", "bundle"}]
  BY JournalTypes
<1> USE DEF EvidenceFits, Evaluating
<1>1. CASE Calling
  <2>1. UNCHANGED <<inv, cursor, saved, outcomes, judgments>>
    BY <1>1 DEF Calling, Issue, Answer, ledger, results
  <2> QED
    BY <2>1 DEF JournalInv, cursor
<1>2. CASE Preflight \/ BeginRun \/ FinishTriggerOnly \/ Conclude \/ StopForBudget \/ WrapUp
           \/ RecordBundle
  <2>1. pc' \in {"preflight", "create", "start", "wrapup", "record", "exit"}
    BY <1>2 DEF Preflight, BeginRun, FinishTriggerOnly, Conclude, StopForBudget, WrapUp,
                RecordBundle, At, Goto, NextModel
  <2> QED
    BY <2>1
<1>3. CASE Exit \/ Throw \/ Kill \/ Tick \/ Ended \/ UNCHANGED vars
  BY <1>3 DEF Exit, Throw, Kill, Tick, Ended, vars, cursor, ledger, results, JournalInv
<1>4. CASE StartRun
  BY <1>4 DEF StartRun, At, Goto, Pass
<1>5. CASE SelectProviders \/ OpenTrigger \/ SettleTrigger \/ StoreTriggerEvidence
  BY <1>0, <1>5 DEF SelectProviders, OpenTrigger, SettleTrigger, StoreTriggerEvidence, At, Goto,
                cursor, ledger, results, JournalInv
<1>6. CASE \/ StartFunctional \/ OpenExecution \/ SettleExecution \/ StartJudging \/ NextOutcome
           \/ JudgeDeterministic \/ AskJudge \/ SettleJudgment
  <2>1. /\ UNCHANGED <<inv, model, saved>>
        /\ pc' \in {"execute", "judge"} /\ inv.functional
        /\ \/ pc \in {"execute", "judge"} /\ pass' = pass
           \/ pc = "triggered" /\ pass' = "skill"
    BY <1>6 DEF StartFunctional, OpenExecution, SettleExecution, StartJudging, NextOutcome,
           JudgeDeterministic, AskJudge, SettleJudgment, AtCriterion, InJudgeLoop, At, Goto,
           AddJudgment, cursor, ledger, JournalInv
  <2> QED
    BY <2>1 DEF JournalInv
<1>7. CASE LeaveJudging \/ StoreResults \/ StoreSummary
  <2>1. pass \in {"skill", "baseline"}
    BY DEF IInv, TypeOK, ControlTypeOK, Pass
  <2>2. CASE LeaveJudging
    BY <2>1, <2>2 DEF LeaveJudging, At, Goto, ledger, JournalInv
  <2>3. CASE StoreResults
    BY <1>0, <2>3 DEF StoreResults, At, Goto, JournalInv
  <2>4. CASE StoreSummary
    BY <1>0, <2>4 DEF StoreSummary, At, Goto, results, JournalInv
  <2> QED
    BY <1>7, <2>2, <2>3, <2>4
<1> QED
  BY <1>1, <1>2, <1>3, <1>4, <1>5, <1>6, <1>7 DEF Next, Progress

(* infrastructureFailureSeen is what the runs table says.                  *)
LEMMA SeenFitsStep ==
    ASSUME IInv, JournalInv, [Next]_vars
    PROVE  SeenFits'
<1>0. /\ model \in Position /\ reason \in [Position -> {"none", "budget", "infra"}]
      /\ seen \in [infra : BOOLEAN, budget : BOOLEAN]
  BY JournalTypes
<1>1. CASE Conclude \/ FinishTriggerOnly \/ StopForBudget
  <2>1. reason[model] = "none"
    BY <1>1 DEF Conclude, FinishTriggerOnly, StopForBudget, At, JournalInv, Journal,
                PresentJournal, Running, Evaluating
  <2>2. /\ seen'.infra = (seen.infra \/ reason'[model] = "infra")
        /\ \A i \in Position : i # model => reason'[i] = reason[i]
    <3>1. CASE Conclude
      <4>1. /\ seen'.infra = (seen.infra \/ InfraFailure)
            /\ reason' = [reason EXCEPT ![model] = IF InfraFailure THEN "infra" ELSE "none"]
        BY <1>0, <3>1 DEF Conclude
      <4> QED
        BY <1>0, <4>1
    <3>2. CASE FinishTriggerOnly
      <4>1. /\ seen'.infra = (seen.infra \/ SomeError(triggers))
            /\ reason' = [reason EXCEPT ![model] =
                             IF SomeError(triggers) THEN "infra" ELSE "none"]
        BY <1>0, <3>2 DEF FinishTriggerOnly
      <4> QED
        BY <1>0, <4>1
    <3>3. CASE StopForBudget
      BY <1>0, <3>3 DEF StopForBudget
    <3> QED
      BY <1>1, <3>1, <3>2, <3>3
  <2>3. reason' \in [Position -> {"none", "budget", "infra"}]
    BY LedgerStep DEF IInv, LedgerTypeOK
  <2> QED
    BY <1>0, <2>1, <2>2 DEF JournalInv, SeenFits
<1>2. CASE Calling
  BY <1>2 DEF Calling, Issue, Answer, ledger, output, JournalInv, SeenFits
<1>3. CASE \/ Preflight \/ BeginRun \/ StartRun \/ SelectProviders \/ OpenTrigger
           \/ SettleTrigger \/ StoreTriggerEvidence \/ StartFunctional \/ OpenExecution
           \/ SettleExecution \/ StartJudging \/ NextOutcome \/ JudgeDeterministic \/ AskJudge
           \/ SettleJudgment \/ LeaveJudging \/ StoreResults \/ StoreSummary \/ WrapUp
           \/ RecordBundle \/ Exit \/ Throw \/ Kill \/ Tick \/ Ended \/ UNCHANGED vars
  <2>1. UNCHANGED <<reason, seen>>
    BY <1>3 DEF Preflight, BeginRun, StartRun, SelectProviders, OpenTrigger,
           SettleTrigger, StoreTriggerEvidence, StartFunctional, OpenExecution,
           SettleExecution, StartJudging, NextOutcome, JudgeDeterministic, AskJudge,
           SettleJudgment, LeaveJudging, StoreResults, StoreSummary, WrapUp, RecordBundle,
           Exit, Throw, Kill, Tick, Ended, vars, ledger, output
  <2> QED
    BY <2>1 DEF JournalInv, SeenFits
<1> QED
  BY <1>1, <1>2, <1>3 DEF Next, Progress

(* The set of elements of a sequence after one more is appended.           *)
LEMMA BundledAppend ==
    ASSUME NEW S, NEW s \in Seq(S), NEW e \in S
    PROVE  Bundled(Append(s, e)) = Bundled(s) \cup {e}
<1> DEFINE t == Append(s, e)
<1>1. t \in Seq(S) /\ Len(t) = Len(s) + 1 /\ t[Len(s) + 1] = e
      /\ \A i \in 1..Len(s) : t[i] = s[i]
  BY AppendProperties
<1>2. Len(s) \in Nat /\ DOMAIN s = 1..Len(s) /\ DOMAIN t = 1..Len(t)
  BY <1>1, LenProperties
<1>3. DOMAIN t = DOMAIN s \cup {Len(s) + 1}
  BY <1>1, <1>2
<1> HIDE DEF t
<1>4. Bundled(t) = Bundled(s) \cup {e}
  BY <1>1, <1>2, <1>3 DEF Bundled
<1> QED
  BY <1>4 DEF t

(* The bundle follows the decisions, its file and its rows follow it.      *)
LEMMA BundleFitsStep ==
    ASSUME IInv, JournalInv, [Next]_vars
    PROVE  BundleFits'
<1>0. /\ model \in Position /\ bundle \in Seq(Position)
      /\ gate \in [Position -> GateResult \cup {"none", "error"}]
      /\ saved \in [Position -> SUBSET {"trigger", "results", "summary", "bundle"}]
      /\ Len(bundle) \in Nat /\ DOMAIN bundle = 1..Len(bundle) /\ item \in Nat
      /\ IsInvocation(inv)
  BY JournalTypes, LenProperties, EvalAssumption DEF IInv, TypeOK, ControlTypeOK
<1>1. CASE Conclude
  <2>1. /\ UNCHANGED <<inv, saved, bundleFile>> /\ gate' = [gate EXCEPT ![model] = RunVerdict]
        /\ bundle' = IF inv.bundle THEN Append(bundle, model) ELSE bundle
        /\ pc = "compared" /\ pc' \in {"create", "wrapup"}
    BY <1>1 DEF Conclude, At, NextModel, Goto
  <2>2. RunVerdict # "none"
    BY RunVerdictTyped DEF GateResult
  <2>3. {i \in Position : gate'[i] # "none"} = {i \in Position : gate[i] # "none"} \cup {model}
    BY <1>0, <2>1, <2>2
  <2>4. inv.bundle => Bundled(bundle') = Bundled(bundle) \cup {model}
    BY <1>0, <2>1, BundledAppend
  <2>5. Bundled(bundle') = IF inv'.bundle THEN {i \in Position : gate'[i] # "none"} ELSE {}
    BY <2>1, <2>3, <2>4 DEF JournalInv, BundleFits
  <2> QED
    BY <2>1, <2>5 DEF JournalInv, BundleFits
<1>2. CASE WrapUp
  <2>1. /\ UNCHANGED <<inv, saved, gate, bundle>> /\ item' = 1 /\ pc = "wrapup"
        /\ \/ bundleFile' = bundle /\ pc' = "record" /\ bundle # <<>>
           \/ bundleFile' = bundleFile /\ pc' = "exit" /\ (~inv.bundle \/ bundle = <<>>)
    BY <1>2 DEF WrapUp, At, Goto, ledger
  <2>2. bundle = <<>> <=> Len(bundle) = 0
    BY <1>0, EmptySeq
  <2>3. ~inv.bundle => bundle = <<>>
    <3>1. ~inv.bundle => DOMAIN bundle = {}
      BY DEF JournalInv, BundleFits, Bundled
    <3>2. Len(bundle) # 0 => 1 \in 1..Len(bundle)
      BY <1>0
    <3> QED
      BY <1>0, <2>2, <3>1, <3>2
  <2>4. bundleFile = <<>>
    BY <2>1 DEF JournalInv, BundleFits
  <2> QED
    BY <1>0, <2>1, <2>2, <2>3, <2>4 DEF JournalInv, BundleFits
<1>3. CASE RecordBundle
  <2>1. /\ UNCHANGED <<inv, gate, bundle, bundleFile>> /\ item' = item + 1 /\ pc = "record"
        /\ saved' = [saved EXCEPT ![bundle[item]] = @ \cup {"bundle"}]
        /\ \/ item = Len(bundle) /\ pc' = "exit"
           \/ item # Len(bundle) /\ pc' = "record"
    BY <1>3 DEF RecordBundle, At, Goto, output
  <2>2. item \in 1..Len(bundle)
    BY <2>1 DEF JournalInv, BundleFits
  <2>3. bundle[item] \in Bundled(bundle)
    BY <1>0, <2>2 DEF Bundled
  <2>4. \A i \in Position : "bundle" \in saved'[i] => i \in Bundled(bundle)
    BY <1>0, <2>1, <2>3 DEF JournalInv, BundleFits
  <2>5. Bundled(bundle') = IF inv'.bundle THEN {i \in Position : gate'[i] # "none"} ELSE {}
    BY <2>1 DEF JournalInv, BundleFits
  <2>6. pc' = "record" => item' \in 1..Len(bundle')
    <3>1. Len(bundle') = Len(bundle)
      BY <2>1
    <3>2. item # Len(bundle) => item + 1 \in 1..Len(bundle)
      <4>1. item \in Nat /\ Len(bundle) \in Nat
        BY <1>0
      <4> QED
        BY <2>2, <4>1
    <3> QED
      BY <2>1, <3>1, <3>2
  <2>7. bundleFile' = bundle'
    BY <2>1 DEF JournalInv, BundleFits
  <2> QED
    BY <2>1, <2>4, <2>5, <2>6, <2>7 DEF BundleFits
<1>4. ASSUME UNCHANGED <<inv, gate, bundle, bundleFile>>,
             \/ UNCHANGED <<pc, item, saved>>
             \/ /\ {pc, pc'} \cap {"record", "exit"} = {}
                /\ \/ saved' = saved
                   \/ \E what : saved' = [saved EXCEPT ![model] = @ \cup what] /\ "bundle" \notin what
      PROVE  BundleFits'
  <2>1. CASE UNCHANGED <<pc, item, saved>>
    BY <1>4, <2>1 DEF JournalInv, BundleFits, Bundled
  <2>2. CASE ~UNCHANGED <<pc, item, saved>>
    <3>1. \A i \in Position : "bundle" \in saved'[i] => "bundle" \in saved[i]
      BY <1>0, <1>4, <2>2
    <3>2. \A i \in Position : "bundle" \notin saved[i]
      BY <1>4, <2>2 DEF JournalInv, BundleFits
    <3>3. Bundled(bundle') = IF inv'.bundle THEN {i \in Position : gate'[i] # "none"} ELSE {}
      BY <1>4 DEF JournalInv, BundleFits
    <3>4. bundleFile' = <<>> /\ pc' \notin {"record", "exit"}
      BY <1>4, <2>2 DEF JournalInv, BundleFits
    <3> QED
      BY <3>1, <3>2, <3>3, <3>4 DEF BundleFits
  <2> QED
    BY <2>1, <2>2
<1>5. CASE Calling
  <2>1. UNCHANGED <<inv, gate, bundle, bundleFile, pc, item, saved>>
    BY <1>5 DEF Calling, Issue, Answer, cursor, ledger, output
  <2> QED
    BY <1>4, <2>1
<1>6. CASE Exit \/ Throw \/ Kill \/ Tick \/ Ended \/ UNCHANGED vars
  <2>1. UNCHANGED <<inv, gate, bundle, bundleFile, pc, item, saved>>
    BY <1>6 DEF Exit, Throw, Kill, Tick, Ended, vars, cursor, ledger, output
  <2> QED
    BY <1>4, <2>1
<1>7. CASE \/ Preflight \/ BeginRun \/ StartRun \/ SelectProviders \/ OpenTrigger
           \/ SettleTrigger \/ FinishTriggerOnly \/ StartFunctional \/ StopForBudget
  <2>1. /\ UNCHANGED <<inv, gate, bundle, bundleFile, saved>>
        /\ {pc, pc'} \cap {"record", "exit"} = {}
    BY <1>7 DEF Preflight, BeginRun, StartRun, SelectProviders, OpenTrigger, SettleTrigger,
           FinishTriggerOnly, StartFunctional, StopForBudget, NextModel, At, Goto, cursor, ledger,
           output
  <2> QED
    BY <1>4, <2>1
<1>8. CASE \/ OpenExecution \/ SettleExecution \/ StartJudging \/ NextOutcome
           \/ JudgeDeterministic \/ AskJudge \/ SettleJudgment \/ LeaveJudging
  <2>1. /\ UNCHANGED <<inv, gate, bundle, bundleFile, saved>>
        /\ {pc, pc'} \cap {"record", "exit"} = {}
    BY <1>8 DEF OpenExecution, SettleExecution, StartJudging, NextOutcome, JudgeDeterministic,
           AskJudge, SettleJudgment, LeaveJudging, AtCriterion, InJudgeLoop, At, Goto, cursor,
           ledger, output
  <2> QED
    BY <1>4, <2>1
<1>9. CASE StoreTriggerEvidence \/ StoreResults \/ StoreSummary
  <2>1. /\ UNCHANGED <<inv, gate, bundle, bundleFile>>
        /\ {pc, pc'} \cap {"record", "exit"} = {}
        /\ \E what \in SUBSET {"trigger", "results", "summary"} :
              saved' = [saved EXCEPT ![model] = @ \cup what]
    BY <1>9 DEF StoreTriggerEvidence, StoreResults, StoreSummary, At, Goto, output
  <2> QED
    BY <1>4, <2>1
<1> QED
  BY <1>1, <1>2, <1>3, <1>5, <1>6, <1>7, <1>8, <1>9 DEF Next, Progress

(* Only Exit gives an exit code other than 1, at the end of the handler.   *)
LEMMA ExitFitsStep ==
    ASSUME IInv, JournalInv, [Next]_vars
    PROVE  ExitFits'
<1>1. CASE exit # "alive"
  BY <1>1 DEF Next, Progress, Calling, Issue, Answer, Preflight, BeginRun, StartRun,
         SelectProviders, OpenTrigger, SettleTrigger, StoreTriggerEvidence, FinishTriggerOnly,
         StopForBudget, StartFunctional, OpenExecution, SettleExecution, StartJudging,
         NextOutcome, JudgeDeterministic, AskJudge, SettleJudgment, LeaveJudging,
         StoreResults, StoreSummary, Conclude, WrapUp, RecordBundle, Exit, Throw, Kill,
         Tick, Ended, vars, cursor, output, AtCriterion, InJudgeLoop, At, JournalInv, ExitFits
<1>2. CASE exit = "alive"
  BY <1>2 DEF Next, Progress, Calling, Issue, Answer, Preflight, BeginRun, StartRun,
         SelectProviders, OpenTrigger, SettleTrigger, StoreTriggerEvidence, FinishTriggerOnly,
         StopForBudget, StartFunctional, OpenExecution, SettleExecution, StartJudging,
         NextOutcome, JudgeDeterministic, AskJudge, SettleJudgment, LeaveJudging,
         StoreResults, StoreSummary, Conclude, WrapUp, RecordBundle, Exit, Throw, Kill,
         Tick, Ended, vars, cursor, output, AtCriterion, InJudgeLoop, At, JournalInv, ExitFits
<1> QED
  BY <1>1, <1>2 DEF IInv

(* Nothing has begun, nothing is stored, nothing was refused.              *)
LEMMA InitJournal == Init => JournalInv
<1> SUFFICES ASSUME Init PROVE JournalInv
  OBVIOUS
<1> USE DEF Init
<1>1. N \in Nat \ {0} /\ Position = 1..N
  BY EvalAssumption DEF Position
<1>2. Journal
  BY <1>1 DEF Journal, PastJournal, PresentJournal, FutureJournal, Blank, Evaluating, Over
<1>3. LatchFits /\ SeenFits /\ ExitFits
  BY <1>1 DEF LatchFits, SeenFits, ExitFits, Over
<1>4. EvidenceFits
  BY DEF EvidenceFits, Evaluating
<1>5. BundleFits
  BY DEF BundleFits, Bundled
<1> QED
  BY <1>2, <1>3, <1>4, <1>5 DEF JournalInv

(* The journal is an invariant, on top of the types and the earned verdicts. *)
THEOREM JournalInvariant == Spec => []JournalInv
<1>1. Init => EarnedInv
  BY InitEarned
<1>2. IInv /\ EarnedInv /\ [Next]_vars => EarnedInv'
  BY NextEarned
<1>3. IInv /\ EarnedInv /\ JournalInv /\ [Next]_vars => JournalInv'
  BY JournalStep, LatchFitsStep, EvidenceFitsStep, SeenFitsStep, BundleFitsStep, ExitFitsStep
  DEF JournalInv
<1> QED
  BY <1>1, <1>2, <1>3, InitJournal, IInvInvariant, PTL DEF Spec

(* A "completed" row has its routing receipt and, for a functional run,    *)
(* rows, summary and a decision, and nothing of it went unevaluated.       *)
THEOREM CompletedRunsAreDocumented == Spec => []CompletedIsDocumented
<1>1. IInv /\ JournalInv => CompletedIsDocumented
  <2> SUFFICES ASSUME IInv, JournalInv, NEW i \in Position, status[i] = "completed"
               PROVE  /\ "trigger" \in saved[i]
                      /\ inv.functional =>
                            {"results", "summary"} \subseteq saved[i] /\ gate[i] \in GateResult
                      /\ ~broken[i]
    BY DEF CompletedIsDocumented
  <2>1. model \in Nat /\ Position = 1..N /\ model \in Position /\ N \in Nat \ {0}
    BY JournalTypes
  <2>2. i < model \/ i = model \/ i > model
    BY <2>1
  <2>3. Concluded(i)
    BY <2>1, <2>2 DEF IInv, TypeOK, ControlTypeOK, JournalInv, Journal, PastJournal,
                PresentJournal, FutureJournal, Running, BudgetStopped, Evaluating, Over
  <2> QED
    BY <2>3 DEF Concluded, Completed, BrokeDown
<1> QED
  BY <1>1, IInvInvariant, JournalInvariant, PTL

\* The states a run can be in when the handler has reached its end.
LEMMA EndedRuns ==
    ASSUME IInv, JournalInv, pc = "exit", NEW i \in Position
    PROVE  \/ Concluded(i)
           \/ i = model /\ seen.budget /\ BudgetStopped(i)
           \/ i > model /\ seen.budget /\ status[i] = "absent" /\ Blank(i)
                 /\ listing[i] = "skipped"
<1>1. model \in Nat /\ Position = 1..N /\ model \in Position /\ N \in Nat \ {0}
  BY JournalTypes
<1>2. CASE i < model
  BY <1>2 DEF JournalInv, Journal, PastJournal
<1>3. CASE i = model
  BY <1>3 DEF JournalInv, Journal, PresentJournal, Over
<1>4. CASE i > model
  <2>1. seen.budget
    BY <1>1, <1>4 DEF JournalInv, Journal, PresentJournal, Over
  <2> QED
    BY <1>4, <2>1 DEF JournalInv, Journal, FutureJournal
<1> QED
  BY <1>1, <1>2, <1>3, <1>4

(* The printed listing has a row per model that agrees with the runs table. *)
THEOREM ListingIsTrue == Spec => []ListingAgrees
<1>1. IInv /\ JournalInv => ListingAgrees
  <2> SUFFICES ASSUME IInv, JournalInv, exit \in {"0", "2", "3"}, NEW i \in Position
               PROVE  /\ listing[i] = "budget_stop" <=> i \in Stopped
                      /\ listing[i] = "skipped" <=> status[i] = "absent"
                      /\ listing[i] = "error" <=> status[i] = "failed" /\ reason[i] = "infra"
                      /\ listing[i] \in {"verdict", "trigger_only"} <=> status[i] = "completed"
    BY DEF ListingAgrees
  <2>1. pc = "exit"
    BY DEF JournalInv, ExitFits
  <2>2. \/ Concluded(i) \/ BudgetStopped(i)
        \/ status[i] = "absent" /\ Blank(i) /\ listing[i] = "skipped"
    BY <2>1, EndedRuns
  <2> QED
    BY <2>2 DEF Concluded, Completed, BrokeDown, BudgetStopped, Blank, Stopped
<1> QED
  BY <1>1, IInvInvariant, JournalInvariant, PTL

(* The exit code tells a budget stop (3), an infrastructure failure (2) and *)
(* neither (0) apart, and no run is left open.                             *)
THEOREM ExitCodeIsHonest == Spec => []ExitIsHonest
<1>1. IInv /\ JournalInv => ExitIsHonest
  <2> SUFFICES ASSUME IInv, JournalInv, exit \in {"0", "2", "3"}
               PROVE  ExitIsHonest
    BY DEF ExitIsHonest
  <2>0. pc = "exit" /\ exit = IF seen.budget THEN "3" ELSE IF seen.infra THEN "2" ELSE "0"
    BY DEF JournalInv, ExitFits
  <2>1. model \in Position
    BY JournalTypes
  <2>2. \A i \in Position : status[i] = "absent" \/ i \in Settled
    BY <2>0, EndedRuns DEF Concluded, Completed, BrokeDown, BudgetStopped, Settled
  <2>3. exit = "3" <=> \E i \in Position : refused[i]
    <3>1. seen.budget <=> refused[model]
      BY <2>0 DEF JournalInv, LatchFits, Over
    <3>2. ~seen.budget => \A i \in Position : ~refused[i]
      BY <2>0, EndedRuns DEF Concluded
    <3> QED
      BY <2>0, <2>1, <3>1, <3>2
  <2>4. exit = "0" => Settled = Position /\ \A i \in Position : ~broken[i]
    <3> SUFFICES ASSUME exit = "0", NEW i \in Position PROVE i \in Settled /\ ~broken[i]
      BY DEF Settled
    <3>1. ~seen.budget /\ ~seen.infra
      BY <2>0
    <3>2. Concluded(i) /\ reason[i] # "infra"
      BY <2>0, <3>1, EndedRuns DEF JournalInv, SeenFits
    <3> QED
      BY <3>2 DEF Concluded, Completed, BrokeDown, Settled
  <2>5. exit = "2" => \E i \in Position : reason[i] = "infra"
    BY <2>0 DEF JournalInv, SeenFits
  <2>6. inv.bundle /\ (\E i \in Position : gate[i] # "none") => bundleFile # <<>>
    <3> SUFFICES ASSUME inv.bundle, NEW i \in Position, gate[i] # "none" PROVE bundleFile # <<>>
      OBVIOUS
    <3>1. i \in Bundled(bundle) /\ bundleFile = bundle
      BY <2>0 DEF JournalInv, BundleFits
    <3> QED
      BY <3>1, EmptySeq DEF Bundled
  <2> QED
    BY <2>2, <2>3, <2>4, <2>5, <2>6 DEF ExitIsHonest
<1> QED
  BY <1>1, IInvInvariant, JournalInvariant, PTL

(* The bundle file holds exactly the decided runs, also for a process that *)
(* was killed, and only they carry the artifact row that points at it.     *)
THEOREM BundleHoldsTheDecided == Spec => []BundleIsComplete
<1>1. IInv /\ JournalInv => BundleIsComplete
  <2> SUFFICES ASSUME IInv, JournalInv PROVE BundleIsComplete
    OBVIOUS
  <2>1. bundleFile # <<>> => bundleFile = bundle /\ inv.bundle
    <3>1. bundleFile # <<>> => bundleFile = bundle
      BY DEF JournalInv, BundleFits
    <3>2. bundle # <<>> => inv.bundle
      <4>1. bundle \in Seq(Position)
        BY JournalTypes
      <4>2. Len(bundle) \in Nat /\ DOMAIN bundle = 1..Len(bundle)
        BY <4>1, LenProperties
      <4>3. bundle # <<>> => 1 \in 1..Len(bundle)
        BY <4>1, <4>2, EmptySeq
      <4> QED
        BY <4>2, <4>3 DEF JournalInv, BundleFits, Bundled
    <3> QED
      BY <3>1, <3>2
  <2>2. bundleFile # <<>> =>
          {bundleFile[k] : k \in DOMAIN bundleFile} = {i \in Position : gate[i] # "none"}
    BY <2>1 DEF JournalInv, BundleFits, Bundled
  <2>3. ASSUME NEW i \in Position, "bundle" \in saved[i]
        PROVE  \E k \in DOMAIN bundleFile : bundleFile[k] = i
    BY <2>3 DEF JournalInv, BundleFits, Bundled
  <2> QED
    BY <2>2, <2>3 DEF BundleIsComplete
<1> QED
  BY <1>1, IInvInvariant, JournalInvariant, PTL

-----------------------------------------------------------------------------
(* Phases. *)

\* The meter's phase is the one of the loop the handler stands in.
PhaseFits ==
    /\ pc \in {"providers", "trigger", "triggered"} => phase = "trigger"
    /\ pc = "execute" => phase = "execution"
    /\ pc = "judge" => phase = "judge"
    /\ meter.calls = answered

(* The phase only changes where no call of the earlier phase is in flight, *)
(* so an answer is recorded for the phase that asked.                      *)
LEMMA PhaseStep ==
    ASSUME IInv, PhaseFits, [Next]_vars
    PROVE  PhaseFits'
<1> USE DEF PhaseFits
<1>1. ASSUME NEW i \in DOMAIN pool, Answer(i)
      PROVE  PhaseFits'
  <2>1. UNCHANGED <<pc, phase>>
    BY <1>1 DEF Answer, cursor
  <2>2. pc \in {"trigger", "execute", "judge"}
    BY CallingPlace DEF IInv
  <2>3. PhaseOf(pc) = phase
    BY <2>2 DEF PhaseOf
  <2>4. CASE UNCHANGED <<meter, answered, charged>>
    BY <2>1, <2>4
  <2>5. CASE ~UNCHANGED <<meter, answered, charged>>
    <3>1. PICK cost \in TokenCosts, unpriced \in Unpriced : RecordUsage(cost, unpriced)
      BY <1>1, <2>5 DEF Answer
    <3>2. answered' = [answered EXCEPT ![phase] = @ + 1]
      BY <1>1, <2>3, <2>5 DEF Answer
    <3>3. meter'.calls = [meter.calls EXCEPT ![phase] = @ + 1]
      BY <3>1 DEF RecordUsage
    <3> QED
      BY <2>1, <3>2, <3>3
  <2> QED
    BY <2>4, <2>5
<1>2. ASSUME NEW i \in DOMAIN pool, Issue(i)
      PROVE  PhaseFits'
  BY <1>2 DEF Issue, cursor
<1>3. CASE Preflight \/ BeginRun \/ FinishTriggerOnly \/ Conclude \/ StopForBudget \/ WrapUp
           \/ RecordBundle
  <2>1. /\ UNCHANGED <<meter, answered>>
        /\ pc' \in {"preflight", "create", "start", "wrapup", "record", "exit"}
    BY <1>3 DEF Preflight, BeginRun, FinishTriggerOnly, Conclude, StopForBudget, WrapUp,
                RecordBundle, At, Goto, NextModel, spend, history
  <2> QED
    BY <2>1
<1>4. CASE StartRun
  BY <1>4 DEF StartRun, At, Goto, AttachMeter, EmptyMeter
<1>5. CASE Exit \/ Throw \/ Kill \/ Tick \/ Ended \/ UNCHANGED vars
  BY <1>5 DEF Exit, Throw, Kill, Tick, Ended, vars, cursor, spend, history
<1>6. CASE \/ SelectProviders \/ OpenTrigger \/ SettleTrigger \/ StoreTriggerEvidence
           \/ StartFunctional \/ OpenExecution \/ SettleExecution \/ StartJudging
  BY <1>6 DEF SelectProviders, OpenTrigger, SettleTrigger, StoreTriggerEvidence, StartFunctional,
           OpenExecution, SettleExecution, StartJudging, At, Goto, cursor, spend, history
<1>7. CASE \/ NextOutcome \/ JudgeDeterministic \/ AskJudge \/ SettleJudgment \/ LeaveJudging
           \/ StoreResults \/ StoreSummary
  BY <1>7 DEF NextOutcome, JudgeDeterministic, AskJudge, SettleJudgment, LeaveJudging,
           StoreResults, StoreSummary, AtCriterion, InJudgeLoop, At, Goto, cursor, spend, history
<1> QED
  BY <1>1, <1>2, <1>3, <1>4, <1>5, <1>6, <1>7 DEF Next, Progress, Calling

(* Usage is attributed to the phase that asked for it.                     *)
THEOREM UsageIsAttributed == Spec => []PhaseAttribution
<1>1. Init => PhaseFits
  BY DEF Init, PhaseFits, EmptyMeter
<1>2. IInv /\ PhaseFits /\ [Next]_vars => PhaseFits'
  BY PhaseStep
<1>3. PhaseFits => PhaseAttribution
  BY DEF PhaseFits, PhaseAttribution
<1> QED
  BY <1>1, <1>2, <1>3, IInvInvariant, PTL DEF Spec

-----------------------------------------------------------------------------
(* The contract. *)

\* The abstract outcome of a run, read off the journal.
KnownOutcome(i) ==
    IF i > model THEN (IF seen.budget THEN "skipped" ELSE "waiting")
    ELSE IF i = model /\ pc \in {"preflight", "create"} THEN "waiting"
    ELSE IF i = model /\ pc \notin Over THEN "running"
    ELSE IF i = model /\ seen.budget THEN "stopped"
    ELSE IF status[i] = "completed" THEN "verdict" ELSE "error"

Outcomes == [i \in Position |-> OutcomeOf(i)]

(* The outcome EvalContract gives a run is the one the journal knows.      *)
LEMMA OutcomeIsKnown ==
    ASSUME IInv, JournalInv
    PROVE  \A i \in Position : OutcomeOf(i) = KnownOutcome(i)
<1>0. model \in Nat /\ Position = 1..N /\ model \in Position /\ N \in Nat \ {0}
  BY JournalTypes
<1>1. \A i \in Position : i < model => Concluded(i)
  BY DEF JournalInv, Journal, PastJournal
<1>2. \A i \in Position : i > model => status[i] = "absent"
  BY DEF JournalInv, Journal, FutureJournal
<1>3. \/ pc \in {"preflight", "create"} /\ status[model] = "absent"
      \/ pc = "start" /\ status[model] = "pending"
      \/ pc \in Evaluating /\ status[model] = "running"
      \/ pc \in Over /\ seen.budget /\ BudgetStopped(model)
      \/ pc \in Over /\ ~seen.budget /\ Concluded(model)
  <2>1. pc \in {"preflight", "create", "start"} \cup Evaluating \cup Over
    BY DEF IInv, TypeOK, ControlTypeOK, Evaluating, Over
  <2> QED
    BY <2>1 DEF JournalInv, Journal, PresentJournal, Running
<1>4. \A i \in Position : i \in Stopped <=> i = model /\ pc \in Over /\ seen.budget
  BY <1>0, <1>1, <1>2, <1>3 DEF Stopped, Concluded, Completed, BrokeDown, BudgetStopped,
                                Evaluating, Over
<1>5. seen.budget => pc \in Over
  BY DEF JournalInv, LatchFits
<1> SUFFICES ASSUME NEW i \in Position PROVE OutcomeOf(i) = KnownOutcome(i)
  OBVIOUS
<1>6. CASE i < model
  BY <1>0, <1>1, <1>4, <1>6 DEF OutcomeOf, KnownOutcome, Concluded, Completed, BrokeDown
<1>7. CASE i > model
  <2>1. (\E j \in Stopped : j < i) <=> seen.budget
    BY <1>0, <1>4, <1>5, <1>7 DEF Stopped
  <2> QED
    BY <1>0, <1>2, <1>4, <1>7, <2>1 DEF OutcomeOf, KnownOutcome
<1>8. CASE i = model
  <2>1. \A j \in Stopped : ~(j < i)
    BY <1>0, <1>4, <1>8 DEF Stopped
  <2> QED
    BY <1>0, <1>3, <1>4, <1>8, <2>1
    DEF OutcomeOf, KnownOutcome, Concluded, Completed, BrokeDown, Evaluating, Over
<1> QED
  BY <1>0, <1>6, <1>7, <1>8

LEMMA OutcomesAreKnown == IInv /\ JournalInv => Outcomes = [i \in Position |-> KnownOutcome(i)]
  BY OutcomeIsKnown DEF Outcomes

(* The same one step later.                                                *)
LEMMA OutcomesAreKnownNext ==
    (IInv /\ JournalInv)' => Outcomes' = [i \in Position |-> KnownOutcome(i)']
<1>1. (IInv /\ JournalInv => Outcomes = [i \in Position |-> KnownOutcome(i)])'
  BY OutcomesAreKnown, PTL
<1> QED
  BY <1>1 DEF Position

ContractStep == [Contract!ContractNext]_<<Outcomes, exit>>

(* Each step of the handler is a step of the contract or leaves it as it is. *)
LEMMA StepKeepsContract ==
    ASSUME IInv, JournalInv, IInv', JournalInv', [Next]_vars
    PROVE  ContractStep
<1> DEFINE out == [i \in Position |-> KnownOutcome(i)]
           out2 == [i \in Position |-> KnownOutcome(i)']
<1>0. /\ model \in Nat /\ Position = 1..N /\ model \in Position /\ N \in Nat \ {0}
      /\ status \in [Position -> RunStatus \cup {"absent"}]
      /\ seen \in [infra : BOOLEAN, budget : BOOLEAN]
  BY JournalTypes
<1>1. Outcomes = out /\ Outcomes' = out2
  BY OutcomesAreKnown, OutcomesAreKnownNext
<1>2. Contract!Position = Position
  BY DEF Contract!Position, Position
<1>3. seen.budget => pc \in Over
  BY DEF JournalInv, LatchFits
<1>4. \A i \in Position : i < model => out[i] \in Contract!Finished
  BY <1>0 DEF KnownOutcome, Contract!Finished
<1> USE DEF KnownOutcome
<1>5. CASE BeginRun
  <2>1. /\ pc = "create" /\ pc' = "start" /\ exit = "alive"
        /\ UNCHANGED <<model, seen, exit>>
        /\ \A i \in Position : i # model => status'[i] = status[i]
    BY <1>0, <1>5 DEF BeginRun, At, Goto, CreateRun, output
  <2>2. out[model] = "waiting" /\ out2[model] = "running"
    BY <1>0, <1>3, <2>1 DEF Over
  <2>3. \A i \in Position : i # model => out2[i] = out[i]
    BY <1>0, <2>1 DEF Over
  <2>4. out2 = [out EXCEPT ![model] = "running"]
    BY <2>2, <2>3
  <2>5. Contract!Begin(model)
    BY <1>0, <1>1, <1>2, <1>4, <2>1, <2>2, <2>4 DEF Contract!Begin, Outcomes
  <2> QED
    BY <1>0, <1>2, <2>5 DEF ContractStep, Contract!ContractNext
<1>6. CASE Conclude \/ FinishTriggerOnly
  <2>1. /\ pc \in {"compared", "triggered"} /\ exit = "alive" /\ exit' = exit
        /\ seen'.budget = seen.budget
        /\ \/ model < N /\ model' = model + 1 /\ pc' = "create"
           \/ model = N /\ model' = model /\ pc' = "wrapup"
        /\ \A i \in Position : i # model => status'[i] = status[i]
    <3>1. CASE Conclude
      BY <1>0, <3>1 DEF Conclude, At, NextModel, Goto, TransitionRun
    <3>2. CASE FinishTriggerOnly
      BY <1>0, <3>2 DEF FinishTriggerOnly, At, NextModel, Goto, TransitionRun
    <3> QED
      BY <1>6, <3>1, <3>2
  <2>2. out[model] = "running" /\ ~seen.budget /\ ~seen'.budget
    BY <1>0, <1>3, <2>1 DEF Over
  <2>3. out2[model] \in Contract!Finished
    BY <1>0, <2>1, <2>2 DEF Over, Contract!Finished
  <2>4. \A i \in Position : i # model => out2[i] = out[i]
    BY <1>0, <2>1, <2>2 DEF Over
  <2>5. out2 = [out EXCEPT ![model] = out2[model]]
    BY <2>4, ZenonT(60)
  <2>6. Contract!Settle(model)
    BY <1>1, <2>1, <2>2, <2>3, <2>5 DEF Contract!Settle, Outcomes
  <2> QED
    BY <1>0, <1>2, <2>6 DEF ContractStep, Contract!ContractNext
<1>7. CASE StopForBudget
  <2>1. /\ pc \in {"triggered", "judged", "compared"} /\ exit = "alive" /\ exit' = exit
        /\ seen'.budget = TRUE /\ model' = model /\ pc' = "wrapup"
        /\ \A i \in Position : i # model => status'[i] = status[i]
    BY <1>0, <1>7 DEF StopForBudget, Goto, TransitionRun
  <2>2. out[model] = "running"
    BY <1>0, <2>1 DEF Over
  <2>3. \A i \in Position : out2[i] = IF i < model THEN out[i]
                                     ELSE IF i = model THEN "stopped" ELSE "skipped"
    BY <1>0, <2>1 DEF Over
  <2>4. Contract!StopAll(model)
    BY <1>1, <1>2, <2>1, <2>2, <2>3 DEF Contract!StopAll, Outcomes
  <2> QED
    BY <1>0, <1>2, <2>4 DEF ContractStep, Contract!ContractNext
<1>8. CASE Exit
  <2>1. /\ pc = "exit" /\ exit = "alive" /\ UNCHANGED <<status, model, seen, pc>>
        /\ exit' = IF seen.budget THEN "3" ELSE IF seen.infra THEN "2" ELSE "0"
    BY <1>8 DEF Exit, At, cursor, ledger, output
  <2>2. out2 = out
    BY <2>1
  <2>3. \A i \in Position : out[i] \notin {"waiting", "running"}
    <3>1. ~seen.budget => model = N
      BY <2>1 DEF JournalInv, Journal, PresentJournal, Over
    <3> QED
      BY <1>0, <2>1, <3>1 DEF Over
  <2>4. (\E i \in Position : out[i] = "stopped") <=> seen.budget
    BY <1>0, <2>1 DEF Over
  <2>5. ~seen.budget => ((\E i \in Position : out[i] = "error") <=> seen.infra)
    <3> SUFFICES ASSUME ~seen.budget
                 PROVE  (\E i \in Position : out[i] = "error") <=> seen.infra
      OBVIOUS
    <3>1. \A i \in Position : Concluded(i) /\ i <= model
      BY <1>0, <2>1, EndedRuns DEF JournalInv, Journal, PresentJournal, Over
    <3>2. \A i \in Position : out[i] = "error" <=> reason[i] = "infra"
      BY <1>0, <2>1, <3>1 DEF Over, Concluded, Completed, BrokeDown
    <3> QED
      BY <3>2 DEF JournalInv, SeenFits
  <2>6. Contract!Finish
    BY <1>1, <1>2, <2>1, <2>2, <2>3, <2>4, <2>5 DEF Contract!Finish, Contract!ExitCode, Outcomes
  <2> QED
    BY <2>6 DEF ContractStep, Contract!ContractNext
<1>9. CASE Throw \/ Kill \/ (Preflight /\ exit' = "1")
  <2>1. exit = "alive" /\ exit' \in {"1", "killed"}
    BY <1>9 DEF Throw, Kill, Preflight, At
  <2>2. UNCHANGED <<status, model, seen>> /\ pc' = pc
    BY <1>9, <2>1 DEF Throw, Kill, Preflight, At, cursor, ledger, output
  <2>3. out2 = out
    BY <2>2
  <2>4. Contract!BreakOff
    BY <1>1, <2>1, <2>3 DEF Contract!BreakOff, Outcomes
  <2> QED
    BY <2>4 DEF ContractStep, Contract!ContractNext
<1>10. ASSUME UNCHANGED <<exit, status, seen, model>>,
              \/ pc' = pc
              \/ pc \in {"preflight", "create"} /\ pc' \in {"preflight", "create"}
              \/ {pc, pc'} \subseteq {"start"} \cup Evaluating
              \/ {pc, pc'} \subseteq Over
       PROVE  ContractStep
  <2>1. out2 = out
    BY <1>0, <1>10 DEF Evaluating, Over
  <2> QED
    BY <1>1, <1>10, <2>1 DEF ContractStep
<1>11. CASE StartRun
  <2>1. \A i \in Position : i # model => status'[i] = status[i]
    BY <1>0, <1>11 DEF StartRun, TransitionRun
  <2>2. UNCHANGED <<exit, seen, model>> /\ pc = "start" /\ pc' = "providers"
    BY <1>11 DEF StartRun, At, Goto, output
  <2>3. out2 = out
    BY <1>0, <2>1, <2>2 DEF Over
  <2> QED
    BY <1>1, <2>2, <2>3 DEF ContractStep
<1>12. CASE (Preflight /\ exit' # "1") \/ WrapUp \/ RecordBundle \/ Tick \/ Ended \/ UNCHANGED vars
  <2>1. /\ UNCHANGED <<exit, status, seen, model>>
        /\ \/ pc' = pc
           \/ pc \in {"preflight", "create"} /\ pc' \in {"preflight", "create"}
           \/ {pc, pc'} \subseteq Over
    BY <1>12 DEF Preflight, WrapUp, RecordBundle, Tick, Ended, vars, At, Goto, ledger, output,
                 cursor, Over
  <2> QED
    BY <1>10, <2>1
<1>13. CASE Calling
  <2>1. UNCHANGED <<exit, status, seen, model, pc>>
    BY <1>13 DEF Calling, Issue, Answer, ledger, output, cursor
  <2> QED
    BY <1>10, <2>1
<1>14. CASE \/ SelectProviders \/ OpenTrigger \/ SettleTrigger \/ StoreTriggerEvidence
            \/ StartFunctional \/ OpenExecution \/ SettleExecution \/ StartJudging
  <2>1. UNCHANGED <<exit, status, seen, model>> /\ {pc, pc'} \subseteq Evaluating
    BY <1>14 DEF SelectProviders, OpenTrigger, SettleTrigger, StoreTriggerEvidence,
           StartFunctional, OpenExecution, SettleExecution, StartJudging, At, Goto, ledger,
           output, cursor, Evaluating
  <2> QED
    BY <1>10, <2>1
<1>15. CASE \/ NextOutcome \/ JudgeDeterministic \/ AskJudge \/ SettleJudgment \/ LeaveJudging
            \/ StoreResults \/ StoreSummary
  <2>1. UNCHANGED <<exit, status, seen, model>> /\ {pc, pc'} \subseteq Evaluating
    BY <1>15 DEF NextOutcome, JudgeDeterministic, AskJudge, SettleJudgment, LeaveJudging,
           StoreResults, StoreSummary, AtCriterion, InJudgeLoop, At, Goto, ledger, output, cursor,
           Evaluating
  <2> QED
    BY <1>10, <2>1
<1> QED
  BY <1>5, <1>6, <1>7, <1>8, <1>9, <1>11, <1>12, <1>13, <1>14, <1>15 DEF Next, Progress

(* An invocation of `j-rig eval' keeps the contract of its model list: one *)
(* model after the other ends with a verdict, an error or the budget stop  *)
(* that skips all later ones, and the exit code says how they ended.       *)
THEOREM EvalKeepsItsContract == Spec => ImplementsContract
<1>1. Init => Contract!ContractInit
  <2> SUFFICES ASSUME Init PROVE Contract!ContractInit
    OBVIOUS
  <2>1. Stopped = {}
    BY DEF Init, Stopped
  <2>2. \A i \in Position : OutcomeOf(i) = "waiting"
    BY <2>1 DEF OutcomeOf, Init
  <2> QED
    BY <2>2 DEF Init, Contract!ContractInit, Contract!Position, Position
<1>2. /\ IInv /\ JournalInv /\ IInv' /\ JournalInv' /\ [Next]_vars
      => [Contract!ContractNext]_<<[i \in Position |-> OutcomeOf(i)], exit>>
  BY StepKeepsContract DEF ContractStep, Outcomes
<1> QED
  BY <1>1, <1>2, IInvInvariant, JournalInvariant, PTL
  DEF Spec, ImplementsContract, Contract!ContractSpec

-----------------------------------------------------------------------------
(* The release. *)

(* The pipeline runs the eval command unchanged.                           *)
LEMMA PipelineRunsEval == PipelineSpec => Spec
<1>1. PipelineInit => Init
  BY DEF PipelineInit
<1>2. [PipelineNext]_pipeline => [Next]_vars
  BY DEF PipelineNext, DecideRollouts, pipeline
<1> QED
  BY <1>1, <1>2, PTL DEF PipelineSpec, Spec

(* Nothing moves once the eval process is gone.                            *)
LEMMA GoneIsGone ==
    ASSUME [Next]_vars, exit # "alive", IInv, JournalInv
    PROVE  UNCHANGED <<exit, bundleFile, gate>>
  BY DEF Next, Progress, Calling, Issue, Answer, Preflight, BeginRun, StartRun,
         SelectProviders, OpenTrigger, SettleTrigger, StoreTriggerEvidence, FinishTriggerOnly,
         StopForBudget, StartFunctional, OpenExecution, SettleExecution, StartJudging,
         NextOutcome, JudgeDeterministic, AskJudge, SettleJudgment, LeaveJudging,
         StoreResults, StoreSummary, Conclude, WrapUp, RecordBundle, Exit, Throw, Kill,
         Tick, Ended, vars, output, AtCriterion, InJudgeLoop, At

\* A decision was taken on the bundle file that is still there.
ReleaseFits ==
    release # "none" =>
        /\ exit # "alive" /\ policy \in Policies
        /\ release = DecideRelease(TRUE, BundleRows, policy)

(* The gate decides once, after the eval process is gone.                  *)
LEMMA ReleaseStep ==
    ASSUME IInv, JournalInv, ReleaseFits, [PipelineNext]_pipeline
    PROVE  ReleaseFits'
<1>1. CASE DecideRollouts
  <2>1. UNCHANGED <<exit, bundleFile, gate>> /\ exit # "alive" /\ policy' \in Policies
    BY <1>1 DEF DecideRollouts, vars, output
  <2>2. BundleRows' = BundleRows
    BY <2>1 DEF BundleRows, StatementOf
  <2>3. release' = DecideRelease(TRUE, BundleRows, policy')
    BY <1>1 DEF DecideRollouts
  <2> QED
    BY <2>1, <2>2, <2>3 DEF ReleaseFits
<1>2. CASE [Next]_vars /\ UNCHANGED <<policy, release>>
  <2>1. CASE release = "none"
    BY <1>2, <2>1 DEF ReleaseFits
  <2>2. CASE release # "none"
    <3>1. UNCHANGED <<exit, bundleFile, gate>>
      BY <1>2, <2>2, GoneIsGone DEF ReleaseFits
    <3>2. BundleRows' = BundleRows
      BY <3>1 DEF BundleRows, StatementOf
    <3> QED
      BY <1>2, <3>1, <3>2 DEF ReleaseFits
  <2> QED
    BY <2>1, <2>2
<1> QED
  BY <1>1, <1>2 DEF PipelineNext, pipeline

ReleaseInv == IInv /\ JournalInv /\ BundleIsComplete /\ VerdictIsEarned /\ ReleaseFits

(* Everything known of the eval run is known when the gate decides.        *)
THEOREM ReleaseInvariant == PipelineSpec => []ReleaseInv
<1>1. PipelineSpec => [](IInv /\ JournalInv /\ BundleIsComplete /\ VerdictIsEarned)
  BY PipelineRunsEval, IInvInvariant, JournalInvariant, BundleHoldsTheDecided, VerdictsAreEarned,
     PTL
<1>2. PipelineInit => ReleaseFits
  BY DEF PipelineInit, ReleaseFits
<1>3. IInv /\ JournalInv /\ ReleaseFits /\ [PipelineNext]_pipeline => ReleaseFits'
  BY ReleaseStep
<1> QED
  BY <1>1, <1>2, <1>3, PTL DEF PipelineSpec, ReleaseInv

(* An allowed release read a bundle whose rows each pass the policy.       *)
LEMMA AllowedRows ==
    ASSUME ReleaseInv, release = "allow"
    PROVE  /\ policy \in Policies /\ bundleFile # <<>>
           /\ \A k \in DOMAIN bundleFile : gate[bundleFile[k]] \notin policy.forbidDecisions
           /\ \A pattern \in policy.required :
                 /\ \E k \in DOMAIN bundleFile : bundleFile[k] \in pattern
                 /\ \A k \in DOMAIN bundleFile :
                       bundleFile[k] \in pattern => gate[bundleFile[k]] = "pass"
<1>1. policy \in Policies /\ DecideRelease(TRUE, BundleRows, policy) = "allow"
  BY DEF ReleaseInv, ReleaseFits
<1>2. /\ BundleRows # <<>>
      /\ \A k \in DOMAIN BundleRows : ~RowBlocks(BundleRows[k], policy)
      /\ \A pattern \in policy.required : RequiredStatus(BundleRows, pattern) = "pass"
  BY <1>1 DEF DecideRelease
<1>3. /\ DOMAIN BundleRows = DOMAIN bundleFile
      /\ \A k \in DOMAIN bundleFile :
            /\ BundleRows[k].valid /\ BundleRows[k].gate = bundleFile[k]
            /\ BundleRows[k].decision = gate[bundleFile[k]]
  BY DEF BundleRows, StatementOf, Statement
<1>4. bundleFile # <<>>
  <2>1. bundleFile = <<>> => BundleRows = <<>>
    BY DEF BundleRows
  <2> QED
    BY <1>2, <2>1
<1>5. \A k \in DOMAIN bundleFile : gate[bundleFile[k]] \notin policy.forbidDecisions
  BY <1>2, <1>3 DEF RowBlocks
<1>6. ASSUME NEW pattern \in policy.required
      PROVE  /\ \E k \in DOMAIN bundleFile : bundleFile[k] \in pattern
             /\ \A k \in DOMAIN bundleFile :
                   bundleFile[k] \in pattern => gate[bundleFile[k]] = "pass"
  <2>1. /\ MatchedBy(BundleRows, pattern) # {}
        /\ \A k \in MatchedBy(BundleRows, pattern) : BundleRows[k].decision = "pass"
    BY <1>2, <1>6 DEF RequiredStatus
  <2>2. MatchedBy(BundleRows, pattern) = {k \in DOMAIN bundleFile : bundleFile[k] \in pattern}
    BY <1>3 DEF MatchedBy
  <2> QED
    BY <1>3, <2>1, <2>2
<1> QED
  BY <1>1, <1>4, <1>5, <1>6

(* A policy that names the gate of every model releases only what every    *)
(* model passed, with no call refused and nothing left unevaluated, also   *)
(* when the eval process stopped on its budget, threw or was killed.       *)
THEOREM ReleasesAreEarned == PipelineSpec => []ReleaseIsEarned
<1>1. ReleaseInv => ReleaseIsEarned
  <2> SUFFICES ASSUME ReleaseInv, release = "allow", RequiresEveryModel, NEW i \in Position
               PROVE  /\ gate[i] = "pass" /\ status[i] = "completed"
                      /\ ~refused[i] /\ ~broken[i]
    BY DEF ReleaseIsEarned
  <2>1. PICK pattern \in policy.required : pattern = {i}
    BY DEF RequiresEveryModel
  <2>2. PICK k \in DOMAIN bundleFile : bundleFile[k] \in pattern /\ gate[bundleFile[k]] = "pass"
    BY AllowedRows
  <2>3. gate[i] = "pass"
    BY <2>1, <2>2
  <2>4. ~refused[i] /\ ~broken[i]
    BY <2>3 DEF ReleaseInv, VerdictIsEarned, GateResult
  <2>5. Concluded(i)
    <3>1. model \in Nat /\ Position = 1..N /\ model \in Position /\ N \in Nat \ {0}
      BY JournalTypes DEF ReleaseInv
    <3>2. i < model \/ i = model \/ i > model
      BY <3>1
    <3> QED
      BY <2>3, <3>2 DEF ReleaseInv, JournalInv, Journal, PastJournal, PresentJournal,
             FutureJournal, Blank, Running, BudgetStopped, IInv, TypeOK, ControlTypeOK,
             Evaluating, Over
  <2>6. status[i] = "completed"
    BY <2>3, <2>5 DEF Concluded, Completed, BrokeDown
  <2> QED
    BY <2>3, <2>4, <2>6
<1> QED
  BY <1>1, ReleaseInvariant, PTL

(* Under policies that keep the default forbid_decisions, no release goes  *)
(* out over a model that failed its gate or broke down, whatever gates the *)
(* policy requires and however the eval process ended.                     *)
THEOREM FailuresAreNotReleased ==
    ASSUME \A p \in Policies : DefaultPolicy({}).forbidDecisions \subseteq p.forbidDecisions
    PROVE  PipelineSpec => []NoReleaseOverFailure
<1>1. ReleaseInv => NoReleaseOverFailure
  <2> SUFFICES ASSUME ReleaseInv, release = "allow", NEW i \in Position, gate[i] \in {"fail", "error"}
               PROVE  FALSE
    BY DEF NoReleaseOverFailure
  <2>1. policy \in Policies /\ bundleFile # <<>>
        /\ \A k \in DOMAIN bundleFile : gate[bundleFile[k]] \notin policy.forbidDecisions
    BY AllowedRows
  <2>2. {"fail", "error"} \subseteq policy.forbidDecisions
    BY <2>1 DEF DefaultPolicy
  <2>3. \E k \in DOMAIN bundleFile : bundleFile[k] = i
    BY <2>1 DEF ReleaseInv, BundleIsComplete
  <2> QED
    BY <2>1, <2>2, <2>3
<1> QED
  BY <1>1, ReleaseInvariant, PTL
=============================================================================
