\* A suite interrupted and resumed alone, and two suites on one database.
CONSTANTS
    c1 = c1
    c2 = c2
    p1 = p1
    p2 = p2
    d1 = d1
    d2 = d2
    Cell <- MCCell
    Process <- MCProcess
    Dir <- MCDir
    MaxSnapshot = 2
    MaxFailures = 1
    MaxThrows = 1
    World <- ResumedWorlds
SPECIFICATION FairSpec
INVARIANTS
    CompletedIsGraded
    NeverOversampled
    ExitZeroMeansDone
    RegradeIsAsked
PROPERTIES
    ImplementsLedger
    SuiteFinishes
