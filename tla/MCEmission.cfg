\* Three nights over a roster of one or two skills; two invocations of a job that
\* collects rows of two gates under every set of required patterns.
CONSTANTS
    Skills = {s1, s2}
    MaxNights = 3
    Children <- MCChildren
    Gates = {g1, g2}
    Policies <- MCPolicies
    MaxCalls = 2
SPECIFICATION MCSpec
INVARIANTS
    EvidenceIsHonest
PROPERTIES
    AppendNeverUnblocks
CHECK_DEADLOCK FALSE
