--------------------------- MODULE TaskArtifacts ----------------------------
(***************************************************************************)
(* Keeping the outputs of finished provider tasks: overlapping polls of a  *)
(* task, the per-task single-flight lock with its memo                     *)
(* (TaskArtifactPersistenceLocks), the SQLite cache of references with its *)
(* TTL and size bound (SQLiteTaskArtifactCache), the filesystem store, and *)
(* the sweeper that deletes from both.                                     *)
(*                                                                         *)
(* A poll is one call of a get-task tool with persist_output.  Three tools *)
(* families share the lock and the cache but use them differently:         *)
(* persist_task_outputs ("modelark"), persist_vod_outputs ("vod") and      *)
(* _persist_video of OmniHuman ("vision_cv", no memo).                     *)
(***************************************************************************)
EXTENDS Integers, FiniteSets

CONSTANTS
    Polls,
    Tasks,
    Task,            \* Task[p]: the provider task that poll p asks about
    Outputs,         \* the output roles of a task
    Video,           \* the only output of an OmniHuman task
    Handlers,        \* the families whose tasks this model has
    CacheTTL,        \* lifetime of a cache row
    ArtifactTTL,     \* lifetime of a stored artifact (ARTIFACT_TTL)
    MaxRows,         \* max_size of the cache
    MaxTime,         \* bound: the clock stops there
    MayCancel,       \* TRUE: a poll may be cancelled
    CacheMayFail,    \* TRUE: SQLite may raise in get and set
    MayCrash,        \* TRUE: the process may die and be restarted
    NoPoll, NoMemo, NoRow

ASSUME TaskArtifactsAssumption ==
    /\ IsFiniteSet(Polls) /\ IsFiniteSet(Tasks) /\ IsFiniteSet(Outputs)
    /\ Task \in [Polls -> Tasks] /\ Video \in Outputs
    /\ Handlers \subseteq {"modelark", "vod", "vision_cv"}
    /\ CacheTTL \in Nat /\ ArtifactTTL \in Nat /\ MaxRows \in Nat \ {0} /\ MaxTime \in Nat
    /\ MayCancel \in BOOLEAN /\ CacheMayFail \in BOOLEAN /\ MayCrash \in BOOLEAN
    /\ NoPoll \notin Polls

VARIABLES
    handler,   \* handler[t]: the family of task t
    phase,     \* phase[p]: where the handler of p is suspended
    seen,      \* seen[p]: outputs for which the provider reported a URL
    tried,     \* tried[p]: outputs whose copy failed in this poll
    mine,      \* mine[p]: the durable references p works with
    stamp,     \* stamp[p]: created_at of the row p is writing
    users,     \* users[t]: polls registered in the lock entry of t
    holder,    \* holder[t]: the poll inside entry.lock, or NoPoll
    memo,      \* memo[t]: entry.artifacts, or NoMemo
    since,     \* since[t]: when the entry was created
    flight,    \* flight[t]: how many entries t has had
    cache,     \* cache[t]: the row of t, [refs, at], or NoRow
    late,      \* rows that threads of cancelled polls may still write
    store,     \* the artifacts in the store
    made,      \* every artifact that was ever stored
    now

pollVars  == <<phase, seen, tried, mine, stamp>>
entryVars == <<users, holder, memo, since, flight>>
diskVars  == <<cache, store, made>>
vars == <<handler, pollVars, entryVars, diskVars, late, now>>

Active == {"queued", "reading", "working", "writing"}
Ended  == {"done", "raised", "cancelled", "dead"}

\* A reference names one stored copy of one output.
Refs == [task : Tasks, output : Outputs, copy : Nat, flight : Nat, at : 0..MaxTime]
OutputsOf(refs) == {a.output : a \in refs}

-----------------------------------------------------------------------------
Init ==
    /\ handler \in [Tasks -> Handlers]
    /\ phase = [p \in Polls |-> "idle"]
    /\ seen = [p \in Polls |-> {}]
    /\ tried = [p \in Polls |-> {}]
    /\ mine = [p \in Polls |-> {}]
    /\ stamp = [p \in Polls |-> 0]
    /\ users = [t \in Tasks |-> {}]
    /\ holder = [t \in Tasks |-> NoPoll]
    /\ memo = [t \in Tasks |-> NoMemo]
    /\ since = [t \in Tasks |-> 0]
    /\ flight = [t \in Tasks |-> 0]
    /\ cache = [t \in Tasks |-> NoRow]
    /\ late = {}
    /\ store = {}
    /\ made = {}
    /\ now = 0

Goto(p, l) == phase' = [phase EXCEPT ![p] = l]

\* The handler of p ends without a result; its locals are gone.
Abort(p, l) ==
    /\ Goto(p, l)
    /\ seen' = [seen EXCEPT ![p] = {}]
    /\ tried' = [tried EXCEPT ![p] = {}]
    /\ mine' = [mine EXCEPT ![p] = {}]
    /\ stamp' = [stamp EXCEPT ![p] = 0]

-----------------------------------------------------------------------------
(* The single-flight entry (TaskArtifactPersistenceLocks.acquire).  The    *)
(* bodies under the registry lock have no await, so each is one step.      *)

\* A poll found its task finished, with the URLs of some outputs.
Register(p) ==
    LET t == Task[p] IN
    /\ phase[p] = "idle"
    /\ \E S \in IF handler[t] = "vision_cv" THEN {{Video}} ELSE (SUBSET Outputs) \ {{}} :
          seen' = [seen EXCEPT ![p] = S]
    /\ users' = [users EXCEPT ![t] = @ \cup {p}]
    /\ IF users[t] = {}
       THEN /\ since' = [since EXCEPT ![t] = now]
            /\ flight' = [flight EXCEPT ![t] = @ + 1]
       ELSE UNCHANGED <<since, flight>>
    /\ Goto(p, "queued")
    /\ UNCHANGED <<handler, tried, mine, stamp, holder, memo, diskVars, late, now>>

\* Mutant of Leave: the lock stays with a poll that has gone.
LeaveLocked(p) ==
    LET t == Task[p] IN
    /\ users' = [users EXCEPT ![t] = @ \ {p}]
    /\ memo' = [memo EXCEPT ![t] = IF users[t] = {p} THEN NoMemo ELSE @]
    /\ UNCHANGED <<holder, since, flight>>

\* The last poll to leave drops the entry and with it the memo.
Leave(p) ==
    LET t == Task[p] IN
    /\ users' = [users EXCEPT ![t] = @ \ {p}]
    /\ holder' = [holder EXCEPT ![t] = IF @ = p THEN NoPoll ELSE @]
    /\ memo' = [memo EXCEPT ![t] = IF users[t] = {p} THEN NoMemo ELSE @]
    /\ UNCHANGED <<since, flight>>

\* The references that a poll finds in the entry when it gets the lock.
Remembered(p) ==
    IF memo[Task[p]] = NoMemo \/ handler[Task[p]] = "vision_cv" THEN {} ELSE memo[Task[p]]

\* modelark trusts any memo, vod only a complete one, vision_cv none.
ReadsCache(p) ==
    CASE handler[Task[p]] = "modelark"  -> memo[Task[p]] = NoMemo
      [] handler[Task[p]] = "vod"       -> ~(seen[p] \subseteq OutputsOf(Remembered(p)))
      [] handler[Task[p]] = "vision_cv" -> TRUE

\* Mutant of Enter: the lock does not exclude anybody.
EnterUnlocked(p) ==
    /\ phase[p] = "queued"
    /\ holder' = [holder EXCEPT ![Task[p]] = p]
    /\ mine' = [mine EXCEPT ![p] = Remembered(p)]
    /\ Goto(p, IF ReadsCache(p) THEN "reading" ELSE "working")
    /\ UNCHANGED <<handler, seen, tried, stamp, users, memo, since, flight, diskVars, late, now>>

Enter(p) ==
    /\ phase[p] = "queued"
    /\ holder[Task[p]] = NoPoll
    /\ holder' = [holder EXCEPT ![Task[p]] = p]
    /\ mine' = [mine EXCEPT ![p] = Remembered(p)]
    /\ Goto(p, IF ReadsCache(p) THEN "reading" ELSE "working")
    /\ UNCHANGED <<handler, seen, tried, stamp, users, memo, since, flight, diskVars, late, now>>

-----------------------------------------------------------------------------
(* The cache.                                                              *)

\* Mutant of Fresh: a row is returned whatever its age.
FreshForEver(t) == IF cache[t] = NoRow THEN {} ELSE cache[t].refs

\* What get() returns; a row past its TTL is ignored.
Fresh(t) == IF cache[t] = NoRow \/ now - cache[t].at > CacheTTL THEN {} ELSE cache[t].refs

\* set(): upsert, then drop the oldest rows beyond the size bound.
WriteRow(t, refs, at) ==
    LET c    == [cache EXCEPT ![t] = [refs |-> refs, at |-> at]]
        rows == {u \in Tasks : c[u] # NoRow}
    IN  IF Cardinality(rows) <= MaxRows
        THEN cache' = c
        ELSE \E kept \in SUBSET rows :
                /\ Cardinality(kept) = MaxRows
                /\ \A u \in kept, v \in rows \ kept : c[u].at >= c[v].at
                /\ cache' = [u \in Tasks |-> IF u \in kept THEN c[u] ELSE NoRow]

\* The entry remembers what the poll knows; _persist_video has no memo.
Remember(p, refs) ==
    /\ mine' = [mine EXCEPT ![p] = refs]
    /\ memo' = IF handler[Task[p]] = "vision_cv" THEN memo
               ELSE [memo EXCEPT ![Task[p]] = refs]

ReadCache(p) ==
    /\ phase[p] = "reading"
    /\ Remember(p, mine[p] \cup {a \in Fresh(Task[p]) : a.output \notin OutputsOf(mine[p])})
    /\ Goto(p, "working")
    /\ UNCHANGED <<handler, seen, tried, stamp, users, holder, since, flight, diskVars, late, now>>

\* SQLite raises: _cached_artifacts goes on without the row, the others raise.
ReadFails(p) ==
    /\ CacheMayFail
    /\ phase[p] = "reading"
    /\ IF handler[Task[p]] = "vod"
       THEN /\ Remember(p, mine[p])
            /\ Goto(p, "working")
            /\ UNCHANGED <<seen, tried, stamp, users, holder, since, flight>>
       ELSE Leave(p) /\ Abort(p, "raised")
    /\ UNCHANGED <<handler, diskVars, late, now>>

-----------------------------------------------------------------------------
(* The loop over the outputs.                                              *)

\* Outputs still to be copied; the order of the roles makes no difference.
Todo(p) == seen[p] \ (OutputsOf(mine[p]) \cup tried[p])

Copies(t, o) == {a \in made : a.task = t /\ a.output = o}

NewCopy(t, o) ==
    [task |-> t, output |-> o, copy |-> Cardinality(Copies(t, o)), flight |-> flight[t], at |-> now]

\* Mutant of Persist: the entry is not told what was stored.
PersistUnremembered(p) ==
    /\ phase[p] = "working"
    /\ \E o \in Todo(p) :
          LET a == NewCopy(Task[p], o) IN
          /\ store' = store \cup {a}
          /\ made' = made \cup {a}
          /\ mine' = [mine EXCEPT ![p] = @ \cup {a}]
    /\ stamp' = [stamp EXCEPT ![p] = now]
    /\ Goto(p, "writing")
    /\ UNCHANGED <<handler, seen, tried, entryVars, cache, late, now>>

\* The download ends and the file is written: no await separates the write,
\* the update of the memo and the call of set().
Persist(p) ==
    /\ phase[p] = "working"
    /\ \E o \in Todo(p) :
          LET a == NewCopy(Task[p], o) IN
          /\ store' = store \cup {a}
          /\ made' = made \cup {a}
          /\ Remember(p, mine[p] \cup {a})
    /\ stamp' = [stamp EXCEPT ![p] = now]
    /\ Goto(p, "writing")
    /\ UNCHANGED <<handler, seen, tried, users, holder, since, flight, cache, late, now>>

\* The copy fails for good; the poll will return the provider's URL.
CopyFails(p) ==
    /\ phase[p] = "working"
    /\ \E o \in Todo(p) : tried' = [tried EXCEPT ![p] = @ \cup {o}]
    /\ UNCHANGED <<handler, phase, seen, mine, stamp, entryVars, diskVars, late, now>>

WriteCache(p) ==
    /\ phase[p] = "writing"
    /\ WriteRow(Task[p], mine[p], stamp[p])
    /\ Goto(p, "working")
    /\ UNCHANGED <<handler, seen, tried, mine, stamp, entryVars, store, made, late, now>>

\* SQLite raises: persist_vod_outputs goes on, the others raise.
WriteFails(p) ==
    /\ CacheMayFail
    /\ phase[p] = "writing"
    /\ IF handler[Task[p]] = "vod"
       THEN Goto(p, "working") /\ UNCHANGED <<seen, tried, mine, stamp, entryVars>>
       ELSE Leave(p) /\ Abort(p, "raised")
    /\ UNCHANGED <<handler, diskVars, late, now>>

Finish(p) ==
    /\ phase[p] = "working"
    /\ Todo(p) = {}
    /\ Leave(p)
    /\ Goto(p, "done")
    /\ UNCHANGED <<handler, seen, tried, mine, stamp, diskVars, late, now>>

-----------------------------------------------------------------------------
(* Cancellation, time, the sweeper, restarts.                              *)

\* Mutant of Cancel: a waiter that gives up stays registered.
CancelRegistered(p) ==
    /\ MayCancel
    /\ phase[p] \in Active
    /\ \/ UNCHANGED late
       \/ /\ phase[p] = "writing"
          /\ late' = late \cup {[task |-> Task[p], refs |-> mine[p], at |-> stamp[p]]}
    /\ IF phase[p] = "queued" THEN UNCHANGED entryVars
       ELSE /\ holder' = [holder EXCEPT ![Task[p]] = NoPoll]
            /\ UNCHANGED <<users, memo, since, flight>>
    /\ Abort(p, "cancelled")
    /\ UNCHANGED <<handler, diskVars, now>>

\* A thread that has begun to execute set() goes on without its poll.
Cancel(p) ==
    /\ MayCancel
    /\ phase[p] \in Active
    /\ \/ UNCHANGED late
       \/ /\ phase[p] = "writing"
          /\ late' = late \cup {[task |-> Task[p], refs |-> mine[p], at |-> stamp[p]]}
    /\ Leave(p)
    /\ Abort(p, "cancelled")
    /\ UNCHANGED <<handler, diskVars, now>>

LateWrite ==
    \E w \in late :
        /\ WriteRow(w.task, w.refs, w.at)
        /\ late' = late \ {w}
        /\ UNCHANGED <<handler, pollVars, entryVars, store, made, now>>

\* task_artifact_cache.prune_expired()
PruneCache ==
    LET old == {t \in Tasks : cache[t] # NoRow /\ cache[t].at < now - CacheTTL} IN
    /\ old # {}
    /\ cache' = [t \in Tasks |-> IF t \in old THEN NoRow ELSE cache[t]]
    /\ UNCHANGED <<handler, pollVars, entryVars, store, made, late, now>>

\* artifact_store.delete_expired()
DeleteExpired ==
    LET old == {a \in store : a.at + ArtifactTTL <= now} IN
    /\ old # {}
    /\ store' = store \ old
    /\ UNCHANGED <<handler, pollVars, entryVars, cache, made, late, now>>

\* One unit is a large part of the cache TTL (24 h by default), so a lock
\* entry and a late thread, which live for minutes, see the clock move once.
Tick ==
    /\ now < MaxTime
    /\ \A t \in Tasks : users[t] # {} => since[t] = now
    /\ \A w \in late : w.at = now
    /\ now' = now + 1
    /\ UNCHANGED <<handler, pollVars, entryVars, diskVars, late>>

\* The locks and the handlers are gone; cache and store are on disk.
Crash ==
    /\ MayCrash
    /\ \E p \in Polls : phase[p] \in Active
    /\ phase' = [p \in Polls |-> IF phase[p] \in Active THEN "dead" ELSE phase[p]]
    /\ seen' = [p \in Polls |-> IF phase[p] \in Active THEN {} ELSE seen[p]]
    /\ tried' = [p \in Polls |-> IF phase[p] \in Active THEN {} ELSE tried[p]]
    /\ mine' = [p \in Polls |-> IF phase[p] \in Active THEN {} ELSE mine[p]]
    /\ stamp' = [p \in Polls |-> IF phase[p] \in Active THEN 0 ELSE stamp[p]]
    /\ users' = [t \in Tasks |-> {}]
    /\ holder' = [t \in Tasks |-> NoPoll]
    /\ memo' = [t \in Tasks |-> NoMemo]
    /\ late' = {}
    /\ UNCHANGED <<handler, since, flight, diskVars, now>>

Terminated ==
    /\ \A p \in Polls : phase[p] \in Ended
    /\ UNCHANGED vars

Proceed(p) == ReadCache(p) \/ Persist(p) \/ CopyFails(p) \/ WriteCache(p) \/ Finish(p)

Next ==
    \/ \E p \in Polls : \/ Register(p) \/ Enter(p) \/ Proceed(p)
                        \/ ReadFails(p) \/ WriteFails(p) \/ Cancel(p)
    \/ LateWrite \/ PruneCache \/ DeleteExpired \/ Tick \/ Crash \/ Terminated

Spec == Init /\ [][Next]_vars

\* Downloads and threads end, and asyncio.Lock serves its waiters in turn.
FairSpec == Spec /\ \A p \in Polls : WF_vars(Proceed(p)) /\ SF_vars(Enter(p))

-----------------------------------------------------------------------------
Rows == [refs : SUBSET Refs, at : 0..MaxTime]

\* Registration and the single-flight lock agree with what the polls do: a
\* poll that has left, however it left, is neither registered nor a holder, so
\* an entry lives exactly as long as it has users.
EntriesMatchPolls ==
    \A t \in Tasks :
        /\ users[t] = {p \in Polls : Task[p] = t /\ phase[p] \in Active}
        /\ \A p \in users[t] : phase[p] \in {"reading", "working", "writing"}
               <=> holder[t] = p
        /\ users[t] = {} => memo[t] = NoMemo

\* Polls that overlap, through any chain of cancelled and failing ones, never
\* store the same output twice: the memo outlives the poll that wrote it as long
\* as the entry lives.  (_persist_video, without a memo, promises less.)
OncePerFlight ==
    \A a, b \in made :
        /\ handler[a.task] # "vision_cv"
        /\ a.task = b.task /\ a.output = b.output /\ a.flight = b.flight
        => a = b

\* A copy is repeated only when the cache row of the earlier one has outlived
\* its TTL.  This needs that no poll is cancelled, that SQLite does not fail,
\* that the cache has room and that the process does not die.
NoEarlyDuplicate ==
    \A a, b \in made :
        a.task = b.task /\ a.output = b.output /\ a.copy < b.copy
            => b.at - a.at > CacheTTL

\* The reference a poll would be given, from the memo or from the cache, names
\* an artifact that the sweeper has not deleted.
ReturnedRefsExist ==
    \A t \in Tasks :
        /\ memo[t] # NoMemo => memo[t] \subseteq store
        /\ Fresh(t) \subseteq store

\* Every poll comes to an end whatever is cancelled around it.
EveryPollEnds == \A p \in Polls : phase[p] = "queued" ~> phase[p] \in Ended
=============================================================================
