SPECIFICATION Spec
CONSTANTS
    p1 = p1  p2 = p2  p3 = p3
    t1 = t1  t2 = t2  video = video  frame = frame
    NoPoll = NoPoll  NoMemo = NoMemo  NoRow = NoRow
    Polls = {p1, p2, p3}
    Tasks = {t1}
    Task <- SameTask
    Outputs = {video, frame}
    Video = video
    Handlers = {"modelark", "vod", "vision_cv"}
    CacheTTL = 1
    ArtifactTTL = 5
    MaxRows = 1
    MaxTime = 6
    MayCancel = FALSE
    CacheMayFail = FALSE
    MayCrash = FALSE
INVARIANTS NoEarlyDuplicate ReturnedRefsExist
SYMMETRY PollSymmetry
