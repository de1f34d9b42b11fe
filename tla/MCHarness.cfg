\* Every child of the two hosts; an agent's stream of up to two turns.
SPECIFICATION FairSpec
CONSTANT MaxTurns = 2
INVARIANTS
    CompletedIsHonest
    EscalationReaches
    NothingOutlivesTheHost
PROPERTY EverySettles
