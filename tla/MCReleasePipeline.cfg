\* Two models, one routing case, one test case, one judge criterion, four policies.
CONSTANTS
    judged = judged
    checked = checked
    N = 2
    TriggerCases = 1
    Cases = 1
    Criteria <- MCCriteria
    Applicable <- OneCase
    Method <- MCMethod
    Blockers <- MCBlockers
    Sacred <- MCSacred
    Threshold <- MCThreshold
    TokenCosts = {1}
    Unpriced = {TRUE, FALSE}
    WallBound = 0
    Invocations <- PipelineInvocations
    Policies <- MCPolicies
SPECIFICATION PipelineSpec
INVARIANTS
    BundleIsComplete
    ExitIsHonest
    ListingAgrees
    ReleaseIsEarned
    NoReleaseOverFailure
PROPERTIES
    ImplementsContract
