\* One model, every layer, two test cases with both kinds of criteria; the
\* handler ends unless a call without a time limit is never answered.
CONSTANTS
    judged = judged
    checked = checked
    N = 1
    TriggerCases = 1
    Cases = 2
    Criteria <- MCCriteria
    Applicable <- TwoCases
    Method <- MCMethod
    Blockers <- MCBlockers
    Sacred <- MCSacred
    Threshold <- MCThreshold
    TokenCosts = {1}
    Unpriced = {FALSE}
    WallBound = 1
    Invocations <- LayerInvocations
SPECIFICATION FairSpec
INVARIANTS
    VerdictIsEarned
    CompletedIsDocumented
    PhaseAttribution
PROPERTIES
    EndsUnlessUnanswered
