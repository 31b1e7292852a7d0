SPECIFICATION FairSpec
CONSTANTS
    c1 = c1  c2 = c2  c3 = c3
    alice = alice  bob = bob  modelark = modelark
    NoCall = NoCall
    Calls = {c1, c2}
    Principals = {alice, bob}
    Local = {bob}
    Owner <- OneOwner
    Providers = {modelark}
    Provider <- OneProvider
    Amount <- Estimates
    MaxAmount = 2
    ProviderLimit = 1
    PrincipalLimit = 1
    RejectMode = TRUE
    DailyLimit = 2
    MaxAttempts = 2
    Outcomes = {"ok", "timeout", "client_error", "throttled"}
    LedgerMayFail = FALSE
    MayCrash = FALSE
    MaxDay = 3
    PruneAge = 1
PROPERTIES SettledOnce EveryCallEnds CancelledIsSettled
