SPECIFICATION MCSpec
CONSTANTS
    Process = {p1, p2}
    Text = {draft, revised}
    None = None
    Due = {due}
    Settings <- All
    Dimension = {"safety"}
    Records <- MCRecords
    Costs = {1, 2}
    Ceiling <- MCCeiling
    ZNum = 271
    ZDen = 100
    Budgets <- MCBudgets
    Uncapped = Uncapped
INVARIANTS EventsAreTrue CandidatesDescend LineageClimbs
PROPERTIES ImplementsLedger StoreSettles
