SPECIFICATION ServicesSpec
CONSTANTS
    x1 = x1  x2 = x2  x3 = x3  y1 = y1  y2 = y2  z1 = z1  z2 = z2
    c1 = c1  c2 = c2  s1 = s1  s2 = s2  g1 = g1  g2 = g2  a1 = a1  u1 = u1
    Nobody = Nobody  Absent = Absent  NoUser = NoUser  Gone = Gone
    Calls = {x1, x2}  Principals = {y1, y2}  Local = {y2}
    MaxTasks = 2  Slots = 1  MaxAttempts = 2
    AssetCalls = {c1, c2}  Servers = {s1, s2}  Subjects = {"hero"}
    Groups = {g1, g2}  Assets = {a1}  MaxSources = 2
    Keys = {z1, z2}  Uploads = {u1}  Remotes = {u1}  Tenants = {y1, y2}
    MaxItems = 2  BatchMax = 3  KeyRetention = 1  LastDay = 2
    Files = {z1, z2}  MaxJsonRetry = 2  MaxSends = 2
    MaxRounds = 3  MaxPolls = 2
    SlotCalls = {x1, x2, x3}  SlotOwners = {y1, y2}
    ProviderLimit = 3  PrincipalLimit = 1  Ttl = 2  LongestCall = 1  LastHour = 4
    Clients = {y1, y2}  MaxBuckets = 1  Capacity = 4  Whole = 2  LastTick = 5
    Rows = {z1, z2}  Values = {y1, y2}  MaxRestarts = 3
    Artists = {y1, y2}  VideoTasks = {u1}  Unsent = Unsent  DraftMaxAge = 1
    VideoModels = {"seedance_2_5", "seedance_2_5_premium", "seedance_2"}  DefaultVideo = "seedance_2"
    ImageModels = {"seedream_5_pro", "seedream_5_lite", "seedream_4x"}  DefaultImage = "seedream_5_pro"
    VideoMedia <- TriedMedia  Durations <- TriedDurations  ImageCounts = {0, 1, 11}
INVARIANTS FinalsRenderOwnDrafts BodiesFitTheirModel LostTasksAreFlagged OnlyCreatorsReach
    OneGroupPerServer NothingHidden KeysStayWithUploaders CallAddsUp OneTaskPerReservation
    AtMostTwicePrincipalLimit RateHolds NoRowLost
PROPERTY DeletesOnlyUnseen
SYMMETRY LibrarySymmetry
CHECK_DEADLOCK FALSE
