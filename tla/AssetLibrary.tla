---------------------------- MODULE AssetLibrary -----------------------------
(***************************************************************************)
(* The private asset library: the ark_asset_* tools over the provider's    *)
(* groups and assets, and the checks the generation tools make on asset:// *)
(* references.  A subject stands for one AIGC group of a project, found by *)
(* listing or created under a lock of the server; files are added to a     *)
(* group one request at a time and polled; a group is deleted after a look *)
(* at what it holds.  Several servers work on one account.                 *)
(*                                                                         *)
(* Reads are repeated on a retryable error, and are one step here that may *)
(* fail.  A read that succeeds says what there is.  A request that changes *)
(* the library is sent once; the provider may still carry it out after its *)
(* caller has given up waiting for the answer, however much later.         *)
(***************************************************************************)
EXTENDS Naturals, FiniteSets

CONSTANTS
    AssetCalls,     \* tool calls, each made once
    Servers,        \* server processes
    Subjects,       \* names of groups
    Groups,         \* bound: groups the account has at one time; IDs come back
    Assets,         \* bound: assets the account has at one time; IDs come back
    MaxSources,     \* files of one ark_asset_create call
    Absent

AssetTypes == {"Image", "Audio"}

\* at: the server that made the group under this name, and by: the call; late:
\* after the call had given up.
GroupRecords == [name : Subjects \cup {Absent}, type : {"AIGC", "LivenessFace"},
                 at : Servers \cup {Absent}, by : AssetCalls \cup {Absent}, late : BOOLEAN]
\* after: the deletes that had looked into the group when the asset came.
AssetRecords == [group : Groups, type : AssetTypes, status : {"Processing", "Active", "Failed"},
                 by : AssetCalls, after : SUBSET AssetCalls]

ASSUME AssetAssumption ==
    /\ MaxSources \in Nat \ {0} /\ IsFiniteSet(Assets)
    /\ Absent \notin Groups \cup Subjects \cup Servers \cup AssetCalls
    /\ Absent \notin GroupRecords \cup AssetRecords

VARIABLES
    group,      \* group[g]: the provider's group, or Absent
    asset,      \* asset[a]: the provider's asset, or Absent
    holder,     \* holder[s][n]: the call in the critical section, or Absent
    asking,     \* asking[c]: what call c is doing
    late        \* requests given up that the provider may still carry out: the
                \* call, and how many of its sources were left

assetVars == <<group, asset, holder, asking, late>>

AssetIdle == [pc |-> "idle", op |-> "none", at |-> Absent, name |-> Absent, group |-> Absent,
              created |-> FALSE, left |-> 0, items |-> {}, doubts |-> 0, refs |-> {}, bad |-> {}, answer |-> "none"]

\* The account may already know a verified person.
PersonGroup == [name |-> Absent, type |-> "LivenessFace", at |-> Absent, by |-> Absent, late |-> FALSE]

AssetInit ==
    /\ group \in [Groups -> {Absent, PersonGroup}]
    /\ asset = [a \in Assets |-> Absent]
    /\ holder = [s \in Servers |-> [n \in Subjects |-> Absent]]
    /\ asking = [c \in AssetCalls |-> AssetIdle]
    /\ late = {}

Begin(c, r) == asking[c].pc = "idle" /\ asking' = [asking EXCEPT ![c] = r]
Proceed(c, l) == asking' = [asking EXCEPT ![c].pc = l]
Answer(c, a) ==
    asking' = [asking EXCEPT ![c].pc = "ended", ![c].answer = a, ![c].refs = {}, ![c].bad = {}]

Known(n) == {g \in Groups : group[g] # Absent /\ group[g].name = n /\ group[g].type = "AIGC"}
Holds(g) == {a \in Assets : asset[a] # Absent /\ asset[a].group = g}
HeldGroups == {g \in Groups : group[g] # Absent}
HeldAssets == {a \in Assets : asset[a] # Absent}

NewGroup(g, record) == group' = [group EXCEPT ![g] = record]

-----------------------------------------------------------------------------
(* Requests that change the library.                                       *)

\* The calls that are about to delete group g, or may still do so.
Dropping(g) ==
    {d \in AssetCalls : /\ asking[d].group = g
                        /\ \/ asking[d].pc = "drop"
                           \/ asking[d].op \in {"drop", "drop_all"} /\ <<d, 0>> \in late}

MakesGroup(c, g, landed) ==
    /\ asking[c].op \in {"ensure", "create"} /\ asking[c].pc \in {"make", "ended"}
    /\ asking[c].group = Absent
    /\ NewGroup(g, [name |-> asking[c].name, type |-> "AIGC", at |-> asking[c].at, by |-> c,
                    late |-> landed])
    /\ UNCHANGED asset

AddsFile(c, a) ==
    /\ asking[c].op = "create" /\ asking[c].group \in HeldGroups
    /\ \E type \in AssetTypes :
          asset' = [asset EXCEPT ![a] =
              [group |-> asking[c].group, type |-> type, status |-> "Processing", by |-> c,
               after |-> Dropping(asking[c].group)]]
    /\ UNCHANGED group

RemovesGroup(c) ==
    LET g == asking[c].group IN
    /\ asking[c].op \in {"drop", "drop_all"} /\ g \in HeldGroups
    /\ group' = [group EXCEPT ![g] = Absent]
    /\ asset' = [a \in Assets |-> IF a \in Holds(g) THEN Absent ELSE asset[a]]

RemovesAsset(c) ==
    /\ asking[c].op = "drop_asset"
    /\ asset' = [a \in Assets |-> IF a \in asking[c].items THEN Absent ELSE asset[a]]
    /\ UNCHANGED group

RenamesGroup(c) ==
    LET g == asking[c].group IN
    /\ asking[c].op = "rename" /\ g \in HeldGroups
    /\ group' = [group EXCEPT ![g].name = asking[c].name, ![g].at = Absent]
    /\ UNCHANGED asset

\* The provider carries out the request of c.
CarriesOut(c, landed) ==
    \/ \E g \in Groups \ HeldGroups : MakesGroup(c, g, landed)
    \/ \E a \in Assets \ HeldAssets : AddsFile(c, a)
    \/ RemovesGroup(c) \/ RemovesAsset(c) \/ RenamesGroup(c)

\* A file for a group that has no ID is never taken.
Sends(c) ==
    \/ asking[c].pc \in {"make", "drop", "drop_asset", "rename"}
    \/ asking[c].pc = "add" /\ asking[c].left > 0 /\ asking[c].group # Absent

\* Its answer is not waited for: it was carried out, will be, or never is.
GivesUp(c) ==
    \/ Sends(c) /\ CarriesOut(c, FALSE) /\ UNCHANGED late
    \/ UNCHANGED <<group, asset, late>>
    \/ Sends(c) /\ late' = late \cup {<<c, asking[c].left>>} /\ UNCHANGED <<group, asset>>

\* How a request fails, and what the gateway makes of it.  Throttling, a refusal
\* and a failed connection leave no doubt; a 5xx, a timeout, a broken connection
\* and a 2xx that is not JSON do.  A JSON success without an ID is a success
\* whose ID is the empty string ("nameless").
AssetReplies == {"ok", "nameless", "garbled", "refused", "throttled", "failed", "timeout", "broken",
                 "unsent"}
Failures == AssetReplies \ {"ok", "nameless"}

AssetAmbiguous(r) == r \in {"garbled", "timeout", "broken", "failed"}

Class(r) == IF AssetAmbiguous(r) THEN "ambiguous" ELSE "clean"

RequestFails(c, r) ==
    \/ r = "garbled" /\ Sends(c) /\ CarriesOut(c, FALSE) /\ UNCHANGED late
    \/ r \in {"failed", "timeout", "broken"} /\ GivesUp(c)
    \/ r \in {"refused", "throttled", "unsent"} /\ UNCHANGED <<group, asset, late>>

\* A request that was given up is carried out after all.
Lands(c, n) ==
    /\ <<c, n>> \in late
    /\ CarriesOut(c, TRUE)
    /\ late' = late \ {<<c, n>>}
    /\ UNCHANGED <<holder, asking>>

-----------------------------------------------------------------------------
(* Finding or making the group of a subject (resolve_subject_group).       *)

AssetGroupEnsure(c, s) ==
    /\ \E n \in Subjects : Begin(c, [AssetIdle EXCEPT !.pc = "lock", !.op = "ensure",
                                                      !.at = s, !.name = n])
    /\ UNCHANGED <<group, asset, holder, late>>

\* A source is a public URL or an uploaded object of the caller, and its type
\* is given or told by its name; any other call is refused before the first
\* request.
AssetCreate(c, s) ==
    /\ \E k \in 1..MaxSources :
       \/ \E n \in Subjects : Begin(c, [AssetIdle EXCEPT !.pc = "lock", !.op = "create",
                                                         !.at = s, !.name = n, !.left = k])
       \/ \E g \in HeldGroups : Begin(c, [AssetIdle EXCEPT !.pc = "add", !.op = "create",
                                                           !.at = s, !.group = g, !.left = k])
    /\ UNCHANGED <<group, asset, holder, late>>

\* Variant: nobody waits for the lock.
EnterUnlocked(c) ==
    /\ asking[c].pc = "lock"
    /\ holder' = [holder EXCEPT ![asking[c].at][asking[c].name] = c]
    /\ Proceed(c, "list")
    /\ UNCHANGED <<group, asset, late>>

Enter(c) ==
    /\ asking[c].pc = "lock"
    /\ holder[asking[c].at][asking[c].name] = Absent
    /\ holder' = [holder EXCEPT ![asking[c].at][asking[c].name] = c]
    /\ Proceed(c, "list")
    /\ UNCHANGED <<group, asset, late>>

Leave(c) == holder' = [holder EXCEPT ![asking[c].at][asking[c].name] = Absent]

Resolved(c, g, created) ==
    asking' = [asking EXCEPT
        ![c] = IF @.op = "ensure"
               THEN [@ EXCEPT !.group = g, !.created = created, !.pc = "ended", !.answer = "ok"]
               ELSE [@ EXCEPT !.group = g, !.created = created, !.pc = "add"]]

\* Two groups of one name are refused, and so is a scan of 20 pages that does
\* not end.
List(c) ==
    LET matches == Known(asking[c].name) IN
    /\ asking[c].pc = "list"
    /\ \/ matches = {} /\ Proceed(c, "make") /\ UNCHANGED holder
       \/ \E g \in matches : matches = {g} /\ Resolved(c, g, FALSE) /\ Leave(c)
       \/ Cardinality(matches) > 1 /\ Answer(c, "refused") /\ Leave(c)
       \/ Answer(c, "clean") /\ Leave(c)
    /\ UNCHANGED <<group, asset, late>>

\* The lock is given back whatever has become of the request.
CreateGroup(c) ==
    /\ asking[c].pc = "make"
    /\ \/ \E g \in Groups \ HeldGroups :
             /\ MakesGroup(c, g, FALSE) /\ UNCHANGED late
             /\ \E id \in {g, Absent} : Resolved(c, id, TRUE)
       \/ \E r \in Failures : RequestFails(c, r) /\ Answer(c, Class(r))
    /\ Leave(c)

-----------------------------------------------------------------------------
(* ark_asset_create: one request per source.  An error of the provider is  *)
(* reported for its source; an asset that got no ID has no URI, which ends *)
(* the whole call in a ValueError.                                         *)

Doubt(c, r) == IF AssetAmbiguous(r) THEN asking[c].doubts + 1 ELSE asking[c].doubts

\* Variant: the first source that fails ends the call.
CreateAssetOrStop(c) ==
    /\ asking[c].pc = "add" /\ asking[c].left > 0
    /\ \/ \E a \in Assets \ HeldAssets :
             /\ AddsFile(c, a) /\ UNCHANGED late
             /\ \/ asking' = [asking EXCEPT ![c].left = @ - 1, ![c].items = @ \cup {a}]
                \/ asking' = [asking EXCEPT ![c].pc = "ended", ![c].answer = "crashed", ![c].items = {}]
       \/ \E r \in Failures :
             /\ RequestFails(c, r)
             /\ asking' = [asking EXCEPT ![c].pc = "ended", ![c].answer = Class(r), ![c].items = {}]
    /\ UNCHANGED holder

CreateAsset(c) ==
    /\ asking[c].pc = "add" /\ asking[c].left > 0
    /\ \/ \E a \in Assets \ HeldAssets :
             /\ AddsFile(c, a) /\ UNCHANGED late
             /\ \/ asking' = [asking EXCEPT ![c].left = @ - 1, ![c].items = @ \cup {a}]
                \/ asking' = [asking EXCEPT ![c].pc = "ended", ![c].answer = "crashed", ![c].items = {}]
       \/ \E r \in Failures :
             /\ RequestFails(c, r)
             /\ asking' = [asking EXCEPT ![c].left = @ - 1, ![c].doubts = Doubt(c, r)]
    /\ UNCHANGED holder

\* The call polls what it made until all is settled or its time is up, and
\* answers with every item whatever the polls said.
WaitAssets(c) ==
    /\ asking[c].pc = "add" /\ asking[c].left = 0
    /\ Answer(c, "ok")
    /\ UNCHANGED <<group, asset, holder, late>>

-----------------------------------------------------------------------------
(* ark_asset_delete and ark_asset_update.                                  *)

AssetDelete(c, s) ==
    /\ \/ \E g \in HeldGroups, cascade \in BOOLEAN :
             Begin(c, [AssetIdle EXCEPT !.pc = IF cascade THEN "drop" ELSE "look", !.at = s,
                                        !.op = IF cascade THEN "drop_all" ELSE "drop", !.group = g])
       \/ \E a \in HeldAssets :
             Begin(c, [AssetIdle EXCEPT !.pc = "drop_asset", !.op = "drop_asset", !.at = s,
                                        !.items = {a}])
    /\ UNCHANGED <<group, asset, holder, late>>

\* ListAssets knows an asset only under its group's type.
ListAssets(g, type) == IF group[g].type = type THEN Holds(g) ELSE {}

\* Variant: every group is taken for a virtual portrait.
LookAsAigc(c) ==
    LET g == asking[c].group IN
    /\ asking[c].pc = "look"
    /\ \/ group[g] # Absent /\ ListAssets(g, "AIGC") = {} /\ Proceed(c, "drop")
       \/ Answer(c, "refused")
    /\ UNCHANGED <<group, asset, holder, late>>

Look(c) ==
    LET g == asking[c].group IN
    /\ asking[c].pc = "look"
    /\ \/ group[g] # Absent /\ ListAssets(g, group[g].type) = {} /\ Proceed(c, "drop")
       \/ Answer(c, "refused")
    /\ UNCHANGED <<group, asset, holder, late>>

DeleteGroup(c) ==
    /\ asking[c].pc = "drop"
    /\ \/ RemovesGroup(c) /\ UNCHANGED late /\ Answer(c, "ok")
       \/ \E r \in Failures : RequestFails(c, r) /\ Answer(c, Class(r))
    /\ UNCHANGED holder

DeleteAsset(c) ==
    /\ asking[c].pc = "drop_asset"
    /\ \/ RemovesAsset(c) /\ UNCHANGED late /\ Answer(c, "ok")
       \/ \E r \in Failures : RequestFails(c, r) /\ Answer(c, Class(r))
    /\ UNCHANGED holder

\* Renaming a group; the name of an asset is only a label.  The group is read
\* back, which may fail though the rename was done.
AssetUpdate(c, s) ==
    /\ \E g \in HeldGroups, n \in Subjects :
          Begin(c, [AssetIdle EXCEPT !.pc = "rename", !.op = "rename", !.at = s,
                                     !.group = g, !.name = n])
    /\ UNCHANGED <<group, asset, holder, late>>

Rename(c) ==
    /\ asking[c].pc = "rename"
    /\ \/ RenamesGroup(c) /\ UNCHANGED late /\ \E a \in {"ok", "clean"} : Answer(c, a)
       \/ \E r \in Failures : RequestFails(c, r) /\ Answer(c, Class(r))
    /\ UNCHANGED holder

-----------------------------------------------------------------------------
(* ark_asset_verification_start and _result: the group of a real person is *)
(* made by the provider once the person has passed.                        *)

VerificationStart(c, s) ==
    /\ \E pc \in {"verify", "ended"} :
          Begin(c, [AssetIdle EXCEPT !.pc = pc, !.op = "verify", !.at = s,
                                     !.answer = IF pc = "ended" THEN "refused" ELSE "none"])
    /\ UNCHANGED <<group, asset, holder, late>>

PersonPasses(c) ==
    /\ asking[c].pc = "verify" /\ asking[c].group = Absent
    /\ \E g \in Groups \ HeldGroups, n \in Subjects :
          /\ NewGroup(g, [PersonGroup EXCEPT !.name = n])
          /\ asking' = [asking EXCEPT ![c].group = g]
    /\ UNCHANGED <<asset, holder, late>>

\* Every error but 401 and 403 is polled again until the wait is over.
VerificationResult(c) ==
    /\ asking[c].pc = "verify"
    /\ \/ asking[c].group # Absent /\ Answer(c, "ok")
       \/ \E a \in {"pending", "clean"} : Answer(c, a)
    /\ UNCHANGED <<group, asset, holder, late>>

-----------------------------------------------------------------------------
(* The references of a generation request.  Seedance looks at them before  *)
(* it submits, and passes over those it cannot read (another account may   *)
(* have authorized them); Seedream and Seed Audio replace each by its URL. *)

UseAssets(c, s) ==
    /\ \E refs \in SUBSET HeldAssets \ {{}}, op \in {"seedance", "seedream"} :
          Begin(c, [AssetIdle EXCEPT !.pc = "check", !.op = op, !.at = s,
                                     !.refs = refs, !.left = Cardinality(refs)])
    /\ UNCHANGED <<group, asset, holder, late>>

Blocks(op, a) == IF op = "seedance" THEN asset[a].status \in {"Processing", "Failed"}
                 ELSE asset[a].status # "Active" \/ asset[a].type # "Image"

\* items: the references read and found good.
ReadAsset(c) ==
    /\ asking[c].pc = "check" /\ asking[c].left > 0
    /\ \E a \in asking[c].refs :
       \/ /\ asset[a] # Absent
          /\ asking' = [asking EXCEPT ![c].left = @ - 1, ![c].refs = @ \ {a},
                ![c].bad = IF Blocks(asking[c].op, a) THEN @ \cup {a} ELSE @,
                ![c].items = IF Blocks(asking[c].op, a) THEN @ ELSE @ \cup {a}]
       \/ IF asking[c].op = "seedance"
          THEN asking' = [asking EXCEPT ![c].left = @ - 1, ![c].refs = @ \ {a}]
          ELSE Answer(c, "refused")
    /\ UNCHANGED <<group, asset, holder, late>>

SubmitRequest(c) ==
    /\ asking[c].pc = "check" /\ asking[c].left = 0
    /\ Answer(c, IF asking[c].bad = {} THEN "submitted" ELSE "refused")
    /\ UNCHANGED <<group, asset, holder, late>>

-----------------------------------------------------------------------------
\* The call's task is cancelled: the lock is released, and a request in flight
\* is given up.
CancelCall(c) ==
    /\ asking[c].pc \notin {"idle", "ended"}
    /\ IF asking[c].pc \in {"list", "make"} THEN Leave(c) ELSE UNCHANGED holder
    /\ GivesUp(c)
    /\ Answer(c, "cancelled")

Process(a) ==
    /\ asset[a] # Absent /\ asset[a].status = "Processing"
    /\ \E st \in {"Active", "Failed"} : asset' = [asset EXCEPT ![a].status = st]
    /\ UNCHANGED <<group, holder, asking, late>>

-----------------------------------------------------------------------------
AssetNext ==
    \/ \E c \in AssetCalls, s \in Servers :
          \/ AssetGroupEnsure(c, s) \/ AssetCreate(c, s) \/ AssetDelete(c, s)
          \/ AssetUpdate(c, s) \/ VerificationStart(c, s) \/ UseAssets(c, s)
    \/ \E c \in AssetCalls :
          \/ Enter(c) \/ List(c) \/ CreateGroup(c) \/ CreateAsset(c) \/ WaitAssets(c)
          \/ Look(c) \/ DeleteGroup(c) \/ DeleteAsset(c) \/ Rename(c)
          \/ PersonPasses(c) \/ VerificationResult(c)
          \/ ReadAsset(c) \/ SubmitRequest(c) \/ CancelCall(c)
    \/ \E c \in AssetCalls, n \in 0..MaxSources : Lands(c, n)
    \/ \E a \in Assets : Process(a)

AssetSpec == AssetInit /\ [][AssetNext]_assetVars

-----------------------------------------------------------------------------
\* "Creation is serialized per server process" holds of requests that are waited
\* for: when the calls of one server have made two groups of one subject, one of
\* the two was made only after its call had given up waiting (the lock is released
\* at once) and had ended in doubt or been cancelled, whatever fails or is done by
\* other servers; a group renamed since does not count.
OneGroupPerServer ==
    \A g, h \in HeldGroups :
        group[g].at # Absent /\ group[g].at = group[h].at /\ group[g].name = group[h].name =>
            \/ g = h
            \/ \E i \in {g, h} :
                  group[i].late /\ asking[group[i].by].answer \in {"ambiguous", "cancelled"}

\* The step carries out the request of c to delete a group that must be empty.
Deletes(c) ==
    /\ asking[c].op = "drop"
    /\ \/ asking[c].pc = "drop" /\ asking'[c].pc = "ended"
       \/ <<c, 0>> \in late \ late'

\* A group deleted without cascade takes along only files that were added
\* after its delete had looked, also when the group is a verified person's and
\* when the provider deletes it long after the call has ended.
DeletesOnlyUnseen ==
    [][\A c \in AssetCalls : Deletes(c) =>
           \A a \in HeldAssets : asset'[a] = Absent => c \in asset[a].after]_assetVars

\* Whatever a create call leaves behind at the provider, now or later, is in its
\* answer or covered by an error that says it may have happened: no clean error
\* and no list of items hides an asset, and none a group, which the answer says
\* was created and names if the provider did.  The one exception is a call that
\* ends in a ValueError because an asset came back without an ID (asset_uri).
NothingHidden ==
    \A c \in AssetCalls :
        asking[c].pc = "ended" /\ asking[c].answer \in {"ok", "clean", "refused"} =>
            /\ Cardinality({a \in HeldAssets : asset[a].by = c} \ asking[c].items) <= asking[c].doubts
            /\ \A g \in HeldGroups : group[g].by = c =>
                  asking[c].created /\ asking[c].group \in {g, Absent}
=============================================================================
