SPECIFICATION FairSpec
CONSTANTS
    v1 = v1  v2 = v2  v3 = v3
    NoResult = NoResult  NoError = NoError
    Variations = {v1, v2, v3}
    Kinds = {"seedream", "seedance", "audio"}
    Answers = {"url", "inline", "empty", "refused", "task", "rejected", "timeout", "server_error"}
    MaxConcurrent = 2
    StoreMayFail = TRUE
INVARIANTS SafeToRepeat ReceivedIsReturned
PROPERTY BatchEnds
CHECK_DEADLOCK FALSE
