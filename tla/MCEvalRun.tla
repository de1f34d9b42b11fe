------------------------------ MODULE MCEvalRun ------------------------------
(* Instances of EvalRun for TLC. *)
EXTENDS EvalRun

CONSTANTS judged, checked   \* two criteria: one asks a judge, one is deterministic

MCCriteria == {judged, checked}
MCMethod == [c \in MCCriteria |-> IF c = judged THEN "judge" ELSE "deterministic"]
MCBlockers == {judged}
MCSacred == {checked}
MCThreshold == <<2, 3>>

OneCase == <<<<judged>>>>
TwoCases == <<<<checked, judged>>, <<checked>>>>

NoLimits == [n \in {} |-> 0]
Only(name, value) == [n \in {name} |-> value]

NoFile == [kind |-> "off", rows |-> <<>>]
BadFile == [kind |-> "malformed", rows |-> <<>>]
GoodFile == [kind |-> "rows",
             rows |-> <<[criterion |-> judged, verdict |-> "yes"],
                        [criterion |-> checked, verdict |-> "yes"]>>]

Invoke(trigger, functional, baseline, emit, selfTest, regression, samples, concurrency,
       specLimits, runLimits) ==
    [trigger |-> trigger, functional |-> functional, baseline |-> baseline, bundle |-> emit,
     selfTest |-> selfTest, regression |-> regression,
     samples |-> [c \in MCCriteria |-> samples], concurrency |-> concurrency,
     specLimits |-> specLimits, runLimits |-> runLimits]

(* Budgets: every limit at small values, spec and flag disagreeing, three  *)
(* samples over two workers.                                               *)
BudgetInvocations ==
    {Invoke(TRUE, TRUE, FALSE, TRUE, "off", NoFile, 3, 2, pair[1], pair[2]) :
        pair \in {<<NoLimits, Only("max_calls", 2)>>,
                  <<Only("max_calls", 6), Only("max_calls", 9)>>,
                  <<Only("max_calls", 4), Only("max_tokens", 3)>>,
                  <<Only("max_wall_ms", 1), NoLimits>>}}

(* Layers: each flag on and off, self-test and regression file in every    *)
(* state that matters to the decision, a file that throws, and samples     *)
(* that queue behind one worker while the wall clock runs.                 *)
LayerInvocations ==
    {Invoke(FALSE, TRUE, baseline, TRUE, pair[1], pair[2], 1, 0, NoLimits, NoLimits) :
        baseline \in BOOLEAN,
        pair \in {<<"yes", GoodFile>>, <<"no", GoodFile>>, <<"off", NoFile>>}}
    \cup
    {Invoke(FALSE, TRUE, TRUE, TRUE, "off", GoodFile, 1, 0, NoLimits, Only("max_calls", 4)),
     Invoke(TRUE, FALSE, FALSE, TRUE, "off", NoFile, 1, 0, NoLimits, NoLimits),
     Invoke(TRUE, TRUE, FALSE, TRUE, "off", GoodFile, 1, 0, NoLimits, Only("max_calls", 4)),
     Invoke(FALSE, TRUE, FALSE, TRUE, "off", BadFile, 1, 0, NoLimits, NoLimits),
     Invoke(FALSE, TRUE, FALSE, FALSE, "off", NoFile, 2, 1, NoLimits, Only("max_wall_ms", 1))}

(* Models: a second model after the first, which may stop on the budget.   *)
ModelInvocations ==
    {Invoke(TRUE, functional, FALSE, TRUE, "off", GoodFile, 1, 0, NoLimits, limits) :
        functional \in BOOLEAN,
        limits \in {NoLimits, Only("max_calls", 3), Only("max_usd", 4)}}
==============================================================================
