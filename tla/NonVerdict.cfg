\* One gate and one invocation that reports it as not applicable.
CONSTANTS
    Skills = {s1}
    MaxNights = 1
    Children <- MCChildren
    Gates = {g1}
    Policies <- MCPolicies
    MaxCalls = 1
SPECIFICATION MCSpec
INVARIANT NonVerdictIsNotGreen
CHECK_DEADLOCK FALSE
