\* One throw of the judge: its run is never graded by a later invocation.
CONSTANTS
    c1 = c1
    c2 = c2
    p1 = p1
    p2 = p2
    d1 = d1
    d2 = d2
    Cell <- MCCell
    Process <- MCProcess
    Dir <- MCDir
    MaxSnapshot = 2
    MaxFailures = 1
    MaxThrows = 1
    World <- JudgeFailsOnce
SPECIFICATION FairSpec
PROPERTIES
    EveryRunIsGraded
