\* Two models, one routing case, one test case, three judge samples on two workers.
CONSTANTS
    judged = judged
    checked = checked
    N = 2
    TriggerCases = 1
    Cases = 1
    Criteria <- MCCriteria
    Applicable <- OneCase
    Method <- MCMethod
    Blockers <- MCBlockers
    Sacred <- MCSacred
    Threshold <- MCThreshold
    TokenCosts = {1}
    Unpriced = {FALSE}
    WallBound = 1
    Invocations <- BudgetInvocations
SPECIFICATION Spec
INVARIANTS
    TypeOK
    OvershootBounded
PROPERTIES
    LatchIsFinal
