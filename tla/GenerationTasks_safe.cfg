SPECIFICATION Spec
CONSTANTS
    alice = alice  bob = bob  root = root  Nobody = Nobody  NoCursor = NoCursor
    Tasks = {1, 2, 3}
    Principals = {alice, bob, root}
    Local = {root}
    Author <- Authors
    Filters = {"any", "queued"}
    Ends = {"succeeded"}
    PageSize = 1
    SliceSize = 2
    MaxSlices = 1
    Window = 1
    Retention = 0
    MaxAttempts = 2
    MaxNow = 1
    MaxChanges = 1
INVARIANTS ReturnedIsOwned NothingForeign ListingExact PollAnswersAll DeletesAsExpected
CHECK_DEADLOCK FALSE
