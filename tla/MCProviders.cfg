SPECIFICATION FairSpec
CONSTANTS
    Server = {"s1", "s2"}
    Configured <- McConfigured
    Tool = {"echo"}
    CallId = {"c1", "c2", "c3"}
    Bodies <- McBodies
    MaxTurns = 3
    MaxCalls = 2
    MaxResult = 1
    MaxTotal = 6
    None = None
    Request <- McRequest
    ModelOf <- McModelOf
    Answers <- McAnswers
    Gap = 1
    Cache = 2
    Recovery = 3
    OverloadWait = 2
    Soon = 1
    Late = 4
INVARIANTS
    PlanIsRespected
    CaseIsAccountable
PROPERTIES
    SpendsCarefully
    EverybodySettles
CHECK_DEADLOCK FALSE
