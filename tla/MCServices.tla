----------------------------- MODULE MCServices ------------------------------
(* The parts of the server that share neither state nor calls with one     *)
(* another, as one instance for TLC: a behaviour has one of them at work.  *)
EXTENDS MediaTasks, AssetLibrary, UploadedKeys, Understanding, Transcription,
        PrincipalSlots, HttpGate, StateMigration, GenerationRequests, TLC

CONSTANTS x1, x2, x3, y1, y2, z1, z2, c1, c2, s1, s2, g1, g2, a1, u1

\* Media at and beyond the limits of the families; lengths that are automatic,
\* too short for every model and too long for some.
TriedMedia == {NoMedia,
    [images |-> 1, frame |-> TRUE, videos |-> 0, audios |-> 0],
    [images |-> 10, frame |-> FALSE, videos |-> 1, audios |-> 0],
    [images |-> 0, frame |-> FALSE, videos |-> 4, audios |-> 0],
    [images |-> 0, frame |-> FALSE, videos |-> 0, audios |-> 1]}
TriedDurations == {-1, 3, 16}

VARIABLE part

allVars == <<vars, assetVars, keyVars, askVars, speechVars, slotVars, gateVars,
             migrationVars, requestVars, part>>

Parts == {"media", "assets", "keys", "ask", "speech", "slots", "gate", "migration", "requests"}

ServicesInit ==
    /\ part \in Parts
    /\ Init /\ AssetInit /\ KeyInit /\ AskInit /\ SpeechInit /\ SlotInit /\ GateInit
    /\ MigrationInit /\ RequestInit
    /\ part # "assets" => HeldGroups = {}
    /\ part # "migration" => table.current = NoTable

Rest(p) ==
    /\ part = p /\ UNCHANGED part
    /\ p # "media" => UNCHANGED vars
    /\ p # "assets" => UNCHANGED assetVars
    /\ p # "keys" => UNCHANGED keyVars
    /\ p # "ask" => UNCHANGED askVars
    /\ p # "speech" => UNCHANGED speechVars
    /\ p # "slots" => UNCHANGED slotVars
    /\ p # "gate" => UNCHANGED gateVars
    /\ p # "migration" => UNCHANGED migrationVars
    /\ p # "requests" => UNCHANGED requestVars

ServicesNext ==
    \/ Rest("media") /\ Next
    \/ Rest("assets") /\ AssetNext
    \/ Rest("keys") /\ KeyNext
    \/ Rest("ask") /\ AskNext
    \/ Rest("speech") /\ SpeechNext
    \/ Rest("slots") /\ SlotNext
    \/ Rest("gate") /\ GateNext
    \/ Rest("migration") /\ MigrationNext
    \/ Rest("requests") /\ RequestNext

ServicesSpec == ServicesInit /\ [][ServicesNext]_allVars

\* Only the values of the asset library occur in one part alone.
LibrarySymmetry ==
    Permutations(AssetCalls) \cup Permutations(Servers) \cup Permutations(Groups)
=============================================================================
