SPECIFICATION AskSpec
CONSTANTS
    f1 = f1  f2 = f2
    Files = {f1, f2}
    MaxJsonRetry = 2
    MaxSends = 2
INVARIANT BilledAnswersAreKept
CHECK_DEADLOCK FALSE
