---------------------------- MODULE UploadedKeys -----------------------------
(***************************************************************************)
(* Uploaded objects and who may use them: media_upload puts files into the *)
(* object storage under fresh random keys, several at a time, and records  *)
(* the caller as their owner; media_presign, and ark_asset_create for its  *)
(* object_key sources, mint URLs for the keys a caller owns.  The rows are *)
(* pruned some days after their last use.                                  *)
(*                                                                         *)
(* The storage backend repeats nothing itself: call_with_retry does, and   *)
(* an upload is one step here that may fail with or without the object.    *)
(***************************************************************************)
EXTENDS Naturals, FiniteSets

CONSTANTS
    Keys,           \* bound: objects ever uploaded, each under its own key
    Uploads,        \* media_upload calls
    Remotes,        \* principals a token names; with none the server is local
    Tenants,
    MaxItems,       \* files of one call
    BatchMax,       \* MEDIA_UPLOAD_BATCH_MAX_BYTES
    KeyRetention,      \* days a row outlives its last use
    LastDay,
    NoUser

LocalUser == "local"
LocalServer == Remotes = {}
Users == IF LocalServer THEN {<<LocalUser, LocalUser>>} ELSE Remotes \X Tenants

ASSUME KeysAssumption ==
    /\ KeyRetention \in Nat
    /\ NoUser \notin Keys \cup Users /\ NoUser \notin [owner : Users, day : Nat]

VARIABLES
    row,        \* row[k]: [owner, day] of the ownership row, or Nobody
    object,     \* object[k]: the user whose upload put the object, or Nobody
    used,       \* used[k]: the day its owner was last given the key or a URL
    granted,    \* granted: <<key, user>> of the URLs minted on demand
    upload,     \* upload[u]: the call
    entry,      \* entry[u][i]: its file i
    today

keyVars == <<row, object, used, granted, upload, entry, today>>

ItemIds == 1..MaxItems

NoEntry == [pc |-> "none", size |-> 0, key |-> NoUser]

KeyInit ==
    /\ row = [k \in Keys |-> NoUser]
    /\ object = [k \in Keys |-> NoUser]
    /\ used = [k \in Keys |-> 0]
    /\ granted = {}
    /\ upload = [u \in Uploads |-> [pc |-> "idle", by |-> NoUser, width |-> 0]]
    /\ entry = [u \in Uploads |-> [i \in ItemIds |-> NoEntry]]
    /\ today = 0

Uploader(u) == upload[u].by
Set(u, i, e) == entry' = [entry EXCEPT ![u][i] = e]
Fresh == {k \in Keys : object[k] = NoUser /\ row[k] = NoUser
                       /\ \A u \in Uploads, i \in ItemIds : entry[u][i].key # k}
Busy(u) == {i \in ItemIds : entry[u][i].pc \in {"upload", "presign", "record"}}

-----------------------------------------------------------------------------
(* media_upload: files are checked one by one; a bad one becomes an error  *)
(* of its own, and the call is refused once the good ones are too large    *)
(* together.  size 0 stands for a file that does not pass.                 *)

Total(sizes, n) == IF n = 0 THEN 0 ELSE IF n = 1 THEN sizes[1] ELSE sizes[1] + sizes[2]

MediaUpload(u, p) ==
    /\ upload[u].pc = "idle"
    /\ \E n \in ItemIds, width \in 1..2, sizes \in [ItemIds -> 0..2] :
          LET total == Total(sizes, n) IN
          IF total > BatchMax
          THEN /\ upload' = [upload EXCEPT ![u].pc = "refused"]
               /\ UNCHANGED entry
          ELSE /\ upload' = [upload EXCEPT ![u] = [pc |-> "run", by |-> p, width |-> width]]
               /\ entry' = [entry EXCEPT ![u] = [i \in ItemIds |->
                     IF i > n THEN NoEntry
                     ELSE [pc |-> IF sizes[i] = 0 THEN "error" ELSE "ready",
                           size |-> sizes[i], key |-> NoUser]]]
    /\ UNCHANGED <<row, object, used, granted, today>>

\* A file takes a place of the call's semaphore and a new key.
StartItem(u, i) ==
    /\ upload[u].pc = "run" /\ entry[u][i].pc = "ready"
    /\ Cardinality(Busy(u)) < upload[u].width
    /\ \E k \in Fresh : Set(u, i, [entry[u][i] EXCEPT !.pc = "upload", !.key = k])
    /\ UNCHANGED <<row, object, used, granted, upload, today>>

\* A failed upload may have stored the object.
PutObject(u, i) ==
    LET e == entry[u][i] IN
    /\ e.pc = "upload"
    /\ \/ /\ object' = [object EXCEPT ![e.key] = Uploader(u)]
          /\ \E pc \in {"presign", "error"} : Set(u, i, [e EXCEPT !.pc = pc])
       \/ Set(u, i, [e EXCEPT !.pc = "error"]) /\ UNCHANGED object
    /\ UNCHANGED <<row, used, granted, upload, today>>

\* Without a retry.  The gateway of a call that has ended is closed.
PresignItem(u, i) ==
    LET e == entry[u][i] IN
    /\ e.pc = "presign"
    /\ \E pc \in IF upload[u].pc = "run" THEN {"record", "error"} ELSE {"error"} :
          Set(u, i, [e EXCEPT !.pc = pc])
    /\ UNCHANGED <<row, object, used, granted, upload, today>>

\* A database error is no error of the file: it ends the call, and the other
\* files go on without anybody to answer to.
RecordItem(u, i) ==
    LET e == entry[u][i] IN
    /\ e.pc = "record"
    /\ \/ /\ row' = [row EXCEPT ![e.key] = [owner |-> Uploader(u), day |-> today]]
          /\ used' = [used EXCEPT ![e.key] = today]
          /\ Set(u, i, [e EXCEPT !.pc = "done"])
          /\ UNCHANGED upload
       \/ /\ Set(u, i, [e EXCEPT !.pc = "error"])
          /\ upload' = [upload EXCEPT ![u].pc = IF @ = "run" THEN "crashed" ELSE @]
          /\ UNCHANGED <<row, used>>
    /\ UNCHANGED <<object, granted, today>>

\* Every file has its result.
AnswerUpload(u) ==
    /\ upload[u].pc = "run"
    /\ \A i \in ItemIds : entry[u][i].pc \in {"none", "done", "error"}
    /\ upload' = [upload EXCEPT ![u].pc = "answered"]
    /\ UNCHANGED <<row, object, used, granted, entry, today>>

\* Cancelling the call cancels its files; what a thread has begun completes.
CancelUpload(u) ==
    LET at(pc) == {entry[u][i].key : i \in {j \in ItemIds : entry[u][j].pc = pc}} IN
    /\ upload[u].pc = "run"
    /\ upload' = [upload EXCEPT ![u].pc = "cancelled"]
    /\ \E put \in SUBSET at("upload"), recorded \in SUBSET at("record") :
          /\ object' = [k \in Keys |-> IF k \in put THEN Uploader(u) ELSE object[k]]
          /\ row' = [k \in Keys |-> IF k \in recorded THEN [owner |-> Uploader(u), day |-> today]
                                    ELSE row[k]]
    /\ entry' = [entry EXCEPT ![u] = [i \in ItemIds |-> NoEntry]]
    /\ UNCHANGED <<used, granted, today>>

-----------------------------------------------------------------------------
(* require_owner, and the two tools that mint URLs with it.                *)

\* Variant: any tenant of the principal.
OwnsKeyInAnyTenant(k, p) ==
    IF row[k] = NoUser THEN LocalServer ELSE row[k].owner[1] = p[1]

\* A local server has no other users, and takes a key it does not know.
OwnsKey(k, p) == IF row[k] = NoUser THEN LocalServer ELSE row[k].owner = p

Touched(k) == IF row[k] = NoUser THEN row ELSE [row EXCEPT ![k].day = today]

\* One key of media_presign, or an object_key source of ark_asset_create: the
\* row is touched before the URL is made, which may fail.
PresignKey(k, p) ==
    /\ object[k] # NoUser /\ OwnsKey(k, p)
    /\ row' = Touched(k)
    /\ used' = IF row[k] = NoUser THEN used ELSE [used EXCEPT ![k] = today]
    /\ granted' \in {granted, granted \cup {<<k, p>>}}
    /\ UNCHANGED <<object, upload, entry, today>>

PruneKeys ==
    /\ \E k \in Keys : row[k] # NoUser /\ today - row[k].day > KeyRetention
    /\ row' = [k \in Keys |-> IF row[k] # NoUser /\ today - row[k].day > KeyRetention
                              THEN NoUser ELSE row[k]]
    /\ UNCHANGED <<object, used, granted, upload, entry, today>>

NextDay ==
    /\ today < LastDay
    /\ today' = today + 1
    /\ UNCHANGED <<row, object, used, granted, upload, entry>>

-----------------------------------------------------------------------------
KeyNext ==
    \/ \E u \in Uploads, p \in Users : MediaUpload(u, p)
    \/ \E u \in Uploads, i \in ItemIds :
          StartItem(u, i) \/ PutObject(u, i) \/ PresignItem(u, i) \/ RecordItem(u, i)
    \/ \E u \in Uploads : AnswerUpload(u) \/ CancelUpload(u)
    \/ \E k \in Keys, p \in Users : PresignKey(k, p)
    \/ PruneKeys \/ NextDay

KeySpec == KeyInit /\ [][KeyNext]_keyVars

-----------------------------------------------------------------------------
Returned(u) == {entry[u][i].key : i \in {j \in ItemIds : entry[u][j].pc = "done"}}

\* Whoever was given a URL on demand is the one who uploaded the object, in
\* the tenant he uploaded it for, across retention and lost records; and a key
\* that was returned, or used since, stays usable for him for the retention.
KeysStayWithUploaders ==
    /\ \A g \in granted : object[g[1]] = g[2]
    /\ \A u \in Uploads : upload[u].pc = "answered" =>
           \A k \in Returned(u) : today - used[k] <= KeyRetention => OwnsKey(k, upload[u].by)
=============================================================================
