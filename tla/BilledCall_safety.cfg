SPECIFICATION Spec
CONSTANTS
    c1 = c1  c2 = c2  c3 = c3
    alice = alice  bob = bob  modelark = modelark
    NoCall = NoCall
    Calls = {c1, c2, c3}
    Principals = {alice, bob}
    Local = {bob}
    Owner <- TwoOwners
    Providers = {modelark}
    Provider <- OneProvider
    Amount <- Estimates
    MaxAmount = 2
    ProviderLimit = 1
    PrincipalLimit = 1
    RejectMode = TRUE
    DailyLimit = 2
    MaxAttempts = 2
    Outcomes <- HonestOutcomes
    LedgerMayFail = TRUE
    MayCrash = TRUE
    MaxDay = 1
    PruneAge = 1
INVARIANTS BilledWithinLimit AtMostOneAccepted SlotsConserved
PROPERTY ImplementsBudget
