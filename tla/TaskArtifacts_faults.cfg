SPECIFICATION FairSpec
CONSTANTS
    p1 = p1  p2 = p2  p3 = p3
    t1 = t1  t2 = t2  video = video  frame = frame
    NoPoll = NoPoll  NoMemo = NoMemo  NoRow = NoRow
    Polls = {p1, p2, p3}
    Tasks = {t1, t2}
    Task <- TwoTasks
    Outputs = {video}
    Video = video
    Handlers = {"modelark", "vod", "vision_cv"}
    CacheTTL = 1
    ArtifactTTL = 2
    MaxRows = 1
    MaxTime = 0
    MayCancel = TRUE
    CacheMayFail = TRUE
    MayCrash = TRUE
INVARIANTS EntriesMatchPolls OncePerFlight
PROPERTY EveryPollEnds
