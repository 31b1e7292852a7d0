------------------------ MODULE TaskArtifacts_proofs ------------------------
(***************************************************************************)
(* Proofs about TaskArtifacts, for any polls, tasks, outputs and families. *)
(* With cancellation, SQLite errors and restarts or without: the           *)
(* single-flight entries agree with the polls, a flight stores each output *)
(* once, and a reference that a poll is given names an artifact that       *)
(* exists.  Without them: a copy is repeated only after the cache's TTL.   *)
(***************************************************************************)
EXTENDS TaskArtifacts, FiniteSetTheorems, TLAPS

Holding == {"reading", "working", "writing"}

Phases == {"idle"} \cup Active \cup Ended

TypeInv ==
    /\ handler \in [Tasks -> Handlers]
    /\ phase \in [Polls -> Phases]
    /\ seen \in [Polls -> SUBSET Outputs]
    /\ mine \in [Polls -> SUBSET Refs]
    /\ stamp \in [Polls -> 0..MaxTime]
    /\ users \in [Tasks -> SUBSET Polls]
    /\ holder \in [Tasks -> Polls \cup {NoPoll}]
    /\ memo \in [Tasks -> (SUBSET Refs) \cup {NoMemo}]
    /\ flight \in [Tasks -> Nat]
    /\ cache \in [Tasks -> Rows \cup {NoRow}]
    /\ late \subseteq [task : Tasks, refs : SUBSET Refs, at : 0..MaxTime]
    /\ made \subseteq Refs /\ IsFiniteSet(made)
    /\ now \in 0..MaxTime

\* The lock of a task is held by the one registered poll that is past it.
LockInv ==
    /\ \A t \in Tasks : users[t] = {p \in Polls : Task[p] = t /\ phase[p] \in Active}
    /\ \A t \in Tasks : holder[t] # NoPoll =>
          Task[holder[t]] = t /\ phase[holder[t]] \in Holding
    /\ \A p \in Polls : phase[p] \in Holding => holder[Task[p]] = p
    /\ \A t \in Tasks : users[t] = {} => memo[t] = NoMemo

\* While an entry lives, its memo has every copy of its flight, and the poll
\* inside the lock works with what the memo has.
MemoInv ==
    /\ \A p \in Polls : phase[p] \in Holding /\ handler[Task[p]] # "vision_cv"
          => mine[p] = Remembered(p)
    /\ \A a \in made : a.flight <= flight[a.task]
    /\ \A a \in made :
          /\ handler[a.task] # "vision_cv"
          /\ users[a.task] # {} /\ a.flight = flight[a.task]
          => memo[a.task] # NoMemo /\ a \in memo[a.task]
    /\ OncePerFlight

\* An upper bound on what n outputs can add to the age of a reference: each is
\* copied at the very end of the life of the row that has the ones before it.
Span(n) == n * (CacheTTL + 1)

Wide(refs) == Span(Cardinality(OutputsOf(refs)))

Within(refs, at) == \A a \in refs : at - a.at <= Wide(refs)

\* An entry with users sees the clock move once.
ClockInv ==
    /\ since \in [Tasks -> 0..MaxTime]
    /\ \A t \in Tasks : users[t] # {} => since[t] <= now /\ now <= since[t] + 1

KeptInv ==
    /\ store \subseteq made
    /\ \A a \in made : now < a.at + ArtifactTTL => a \in store

\* How old the references can be that a poll and its entry work with.
PollAge ==
    /\ \A p \in Polls : phase[p] \in Holding =>
          mine[p] \subseteq made /\ Within(mine[p], since[Task[p]] + 1)
    /\ \A p \in Polls : phase[p] = "writing" => Within(mine[p], stamp[p] + CacheTTL + 1)
    /\ \A t \in Tasks : memo[t] # NoMemo =>
          memo[t] \subseteq made /\ Within(memo[t], since[t] + 1)

\* How old they can be in a row, and in a row that a thread still writes.
RowAge ==
    /\ \A t \in Tasks : cache[t] # NoRow =>
          cache[t].refs \subseteq made /\ Within(cache[t].refs, cache[t].at + CacheTTL + 1)
    /\ \A w \in late : w.refs \subseteq made /\ Within(w.refs, w.at + CacheTTL + 1)

AgeInv == ClockInv /\ KeptInv /\ PollAge /\ RowAge

\* Every step of a poll is taken, and the cache has room for a row of each task.
Calm ==
    /\ ~MayCancel /\ ~CacheMayFail /\ ~MayCrash
    /\ Cardinality(Tasks) <= MaxRows /\ NoRow \notin Rows

\* A copy no older than a row that is still given back.
Young(a) == now - a.at <= CacheTTL

InRow(a) ==
    /\ cache[a.task] # NoRow
    /\ cache[a.task].at >= a.at
    /\ a.output \in OutputsOf(cache[a.task].refs)

InHand(a) == \E p \in Polls : Task[p] = a.task /\ phase[p] = "writing"

\* Whoever may copy an output next knows every young copy of it, or will find
\* it in the cache.
CoverInv ==
    /\ \A p \in Polls, a \in made :
          phase[p] \in {"working", "writing"} /\ a.task = Task[p] /\ Young(a)
              => a.output \in OutputsOf(mine[p])
    /\ \A a \in made : Young(a) /\ memo[a.task] # NoMemo => a.output \in OutputsOf(memo[a.task])
    /\ \A a \in made : Young(a) => InRow(a) \/ InHand(a)
    /\ \A t \in Tasks : handler[t] = "vision_cv" => memo[t] = NoMemo

\* Copies are counted, and the row that is written is no older than any of them.
CountInv ==
    /\ late = {}
    /\ \A p \in Polls : phase[p] = "queued" => seen[p] # {}
    /\ \A a \in made : a.at <= now /\ a.copy < Cardinality(Copies(a.task, a.output))
    /\ \A p \in Polls, a \in made : phase[p] = "writing" /\ a.task = Task[p] => a.at <= stamp[p]
    /\ NoEarlyDuplicate

-----------------------------------------------------------------------------
\* No poll has begun.
LEMMA InitType == Init => TypeInv
<1>. SUFFICES ASSUME Init PROVE TypeInv
    OBVIOUS
<1>1. IsFiniteSet({})
    BY FS_EmptySet
<1>2. 0 \in 0..MaxTime /\ 0 \in Nat
    BY TaskArtifactsAssumption
<1>3. /\ handler \in [Tasks -> Handlers] /\ phase \in [Polls -> Phases]
      /\ seen \in [Polls -> SUBSET Outputs] /\ mine \in [Polls -> SUBSET Refs]
    BY DEF Init, Phases
<1>4. /\ stamp \in [Polls -> 0..MaxTime] /\ users \in [Tasks -> SUBSET Polls]
      /\ holder \in [Tasks -> Polls \cup {NoPoll}]
      /\ memo \in [Tasks -> (SUBSET Refs) \cup {NoMemo}]
    BY <1>2 DEF Init
<1>5. /\ flight \in [Tasks -> Nat] /\ cache \in [Tasks -> Rows \cup {NoRow}]
      /\ late = {} /\ made = {} /\ now = 0
    BY <1>2 DEF Init
<1>. QED
    BY <1>1, <1>2, <1>3, <1>4, <1>5 DEF TypeInv

\* What a poll reads from the cache are references.
LEMMA FreshRefs ==
    ASSUME TypeInv, NEW t \in Tasks
    PROVE  Fresh(t) \in SUBSET Refs
BY DEF Fresh, TypeInv, Rows

\* A row that is written leaves a cache of rows.
LEMMA WriteRowType ==
    ASSUME TypeInv, NEW t \in Tasks, NEW refs \in SUBSET Refs, NEW at \in 0..MaxTime,
           WriteRow(t, refs, at)
    PROVE  cache' \in [Tasks -> Rows \cup {NoRow}]
<1>. DEFINE c == [cache EXCEPT ![t] = [refs |-> refs, at |-> at]]
            rows == {u \in Tasks : c[u] # NoRow}
<1>1. c \in [Tasks -> Rows \cup {NoRow}]
    BY DEF TypeInv, Rows
<1>2. CASE Cardinality(rows) <= MaxRows
    BY <1>1, <1>2 DEF WriteRow
<1>3. CASE ~(Cardinality(rows) <= MaxRows)
    <2>1. PICK kept \in SUBSET rows : cache' = [u \in Tasks |-> IF u \in kept THEN c[u] ELSE NoRow]
        BY <1>3 DEF WriteRow
    <2>. HIDE DEF c
    <2>. QED  BY <1>1, <2>1
<1>. QED  BY <1>2, <1>3

\* A new copy is a reference.
LEMMA NewCopyType ==
    ASSUME TypeInv, NEW t \in Tasks, NEW o \in Outputs
    PROVE  NewCopy(t, o) \in Refs
<1>1. IsFiniteSet(Copies(t, o))
    BY FS_Subset DEF TypeInv, Copies
<1>2. Cardinality(Copies(t, o)) \in Nat
    BY <1>1, FS_CardinalityType
<1>. QED
    BY <1>2 DEF NewCopy, Refs, TypeInv

\* What Leave and Abort do to the types.
LEMMA LeaveType ==
    ASSUME TypeInv, NEW p \in Polls, Leave(p)
    PROVE  /\ users' \in [Tasks -> SUBSET Polls]
           /\ holder' \in [Tasks -> Polls \cup {NoPoll}]
           /\ memo' \in [Tasks -> (SUBSET Refs) \cup {NoMemo}]
           /\ flight' \in [Tasks -> Nat]
BY DEF Leave, TypeInv

\* A poll that is cut lets go of everything it held.
LEMMA AbortType ==
    ASSUME TypeInv, NEW p \in Polls, NEW l \in Phases, Abort(p, l)
    PROVE  /\ phase' \in [Polls -> Phases]
           /\ seen' \in [Polls -> SUBSET Outputs]
           /\ mine' \in [Polls -> SUBSET Refs]
           /\ stamp' \in [Polls -> 0..MaxTime]
<1>. 0 \in 0..MaxTime
    BY TaskArtifactsAssumption
<1>. QED  BY DEF Abort, Goto, Phases, Active, Ended, TypeInv

\* A reference is remembered while its poll holds the key.
LEMMA RememberType ==
    ASSUME TypeInv, NEW p \in Polls, NEW refs \in SUBSET Refs, Remember(p, refs)
    PROVE  /\ mine' \in [Polls -> SUBSET Refs]
           /\ memo' \in [Tasks -> (SUBSET Refs) \cup {NoMemo}]
BY DEF Remember, TypeInv

\* Every step of a poll keeps the types.
LEMMA PollType ==
    ASSUME TypeInv, NEW p \in Polls,
           \/ Register(p) \/ Enter(p) \/ Proceed(p)
           \/ ReadFails(p) \/ WriteFails(p) \/ Cancel(p)
    PROVE  TypeInv'
<1>t. Task[p] \in Tasks
    BY TaskArtifactsAssumption
<1>1. CASE Register(p)
    <2>1. seen' \in [Polls -> SUBSET Outputs]
        BY <1>1, TaskArtifactsAssumption DEF Register, TypeInv
    <2>2. flight' \in [Tasks -> Nat]
        BY <1>1, <1>t DEF Register, TypeInv
    <2>3. users' \in [Tasks -> SUBSET Polls] /\ phase' \in [Polls -> Phases]
        BY <1>1, <1>t DEF Register, Goto, Phases, Active, Ended, TypeInv
    <2>. QED
        BY <1>1, <2>1, <2>2, <2>3 DEF Register, diskVars, TypeInv
<1>2. CASE Enter(p)
    <2>1. Remembered(p) \in SUBSET Refs
        BY <1>t DEF Remembered, TypeInv
    <2>. QED
        BY <1>2, <1>t, <2>1 DEF Enter, Goto, diskVars, Phases, Active, Ended, TypeInv
<1>3. CASE ReadCache(p)
    <2>. DEFINE refs == mine[p] \cup {a \in Fresh(Task[p]) : a.output \notin OutputsOf(mine[p])}
    <2>1. refs \in SUBSET Refs
        BY <1>t, FreshRefs DEF TypeInv
    <2>2. Remember(p, refs)
        BY <1>3 DEF ReadCache
    <2>. HIDE DEF refs
    <2>3. /\ mine' \in [Polls -> SUBSET Refs]
          /\ memo' \in [Tasks -> (SUBSET Refs) \cup {NoMemo}]
        BY <2>1, <2>2, RememberType
    <2>4. /\ phase' \in [Polls -> Phases]
          /\ UNCHANGED <<handler, seen, stamp, users, holder, flight, cache, store, made, late, now>>
        BY <1>3 DEF ReadCache, Goto, diskVars, Phases, Active, Ended, TypeInv
    <2>. QED  BY <2>3, <2>4 DEF TypeInv
<1>4. CASE Persist(p)
    <2>1. PICK o \in Todo(p) : Persist(p)!2!(o)
        BY <1>4, Zenon DEF Persist
    <2>. DEFINE a == NewCopy(Task[p], o)
    <2>2. a \in Refs
        BY <1>t, NewCopyType DEF Todo, TypeInv
    <2>. HIDE DEF a
    <2>3. made' = made \cup {a} /\ Remember(p, mine[p] \cup {a})
        BY <2>1 DEF a
    <2>4. mine[p] \cup {a} \in SUBSET Refs
        BY <2>2 DEF TypeInv
    <2>5. /\ mine' \in [Polls -> SUBSET Refs]
          /\ memo' \in [Tasks -> (SUBSET Refs) \cup {NoMemo}]
        BY <2>3, <2>4, RememberType
    <2>6. made' \subseteq Refs /\ IsFiniteSet(made')
        BY <2>2, <2>3, FS_AddElement DEF TypeInv
    <2>7. /\ phase' \in [Polls -> Phases] /\ stamp' \in [Polls -> 0..MaxTime]
          /\ UNCHANGED <<handler, seen, users, holder, flight, cache, late, now>>
        BY <1>4 DEF Persist, Goto, Phases, Active, Ended, TypeInv
    <2>. QED  BY <2>5, <2>6, <2>7 DEF TypeInv
<1>5. CASE CopyFails(p)
    BY <1>5 DEF CopyFails, entryVars, diskVars, TypeInv
<1>6. CASE WriteCache(p)
    <2>1. cache' \in [Tasks -> Rows \cup {NoRow}]
        BY <1>6, <1>t, WriteRowType DEF WriteCache, TypeInv
    <2>. QED
        BY <1>6, <2>1 DEF WriteCache, Goto, entryVars, Phases, Active, Ended, TypeInv
<1>7. CASE Finish(p)
    BY <1>7, LeaveType DEF Finish, Goto, diskVars, Phases, Active, Ended, TypeInv
<1>8. CASE ReadFails(p)
    <2>1. CASE handler[Task[p]] = "vod"
        <3>1. mine[p] \in SUBSET Refs
            BY DEF TypeInv
        <3>2. Remember(p, mine[p])
            BY <1>8, <2>1 DEF ReadFails
        <3>3. /\ mine' \in [Polls -> SUBSET Refs]
              /\ memo' \in [Tasks -> (SUBSET Refs) \cup {NoMemo}]
            BY <3>1, <3>2, RememberType
        <3>. QED
            BY <1>8, <2>1, <3>3 DEF ReadFails, Goto, diskVars, Phases, Active, Ended, TypeInv
    <2>2. CASE handler[Task[p]] # "vod"
        BY <1>8, <2>2, LeaveType, AbortType DEF Phases, Ended, ReadFails, diskVars, TypeInv
    <2>. QED  BY <2>1, <2>2
<1>9. CASE WriteFails(p)
    <2>1. CASE handler[Task[p]] = "vod"
        BY <1>9, <2>1 DEF WriteFails, Goto, entryVars, Phases, Active, Ended, diskVars, TypeInv
    <2>2. CASE handler[Task[p]] # "vod"
        BY <1>9, <2>2, LeaveType, AbortType DEF Phases, Ended, WriteFails, diskVars, TypeInv
    <2>. QED  BY <2>1, <2>2
<1>10. CASE Cancel(p)
    <2>1. late' \subseteq [task : Tasks, refs : SUBSET Refs, at : 0..MaxTime]
        BY <1>10, <1>t DEF Cancel, TypeInv
    <2>. QED
        BY <1>10, <2>1, LeaveType, AbortType DEF Phases, Ended, Cancel, diskVars, TypeInv
<1>. QED
    BY <1>1, <1>2, <1>3, <1>4, <1>5, <1>6, <1>7, <1>8, <1>9, <1>10 DEF Proceed

\* So does every other step.
LEMMA NextType == ASSUME TypeInv, [Next]_vars PROVE TypeInv'
<1>1. ASSUME NEW p \in Polls,
             \/ Register(p) \/ Enter(p) \/ Proceed(p)
             \/ ReadFails(p) \/ WriteFails(p) \/ Cancel(p)
      PROVE  TypeInv'
    BY <1>1, PollType
<1>2. CASE LateWrite
    <2>1. PICK w \in late : WriteRow(w.task, w.refs, w.at) /\ late' = late \ {w}
        BY <1>2 DEF LateWrite
    <2>2. w.task \in Tasks /\ w.refs \in SUBSET Refs /\ w.at \in 0..MaxTime
        BY DEF TypeInv
    <2>3. cache' \in [Tasks -> Rows \cup {NoRow}]
        BY <2>1, <2>2, WriteRowType
    <2>4. late' \subseteq late
        BY <2>1
    <2>. QED
        BY <1>2, <2>3, <2>4 DEF LateWrite, pollVars, entryVars, TypeInv
<1>3. CASE PruneCache
    BY <1>3 DEF PruneCache, pollVars, entryVars, TypeInv
<1>4. CASE DeleteExpired
    BY <1>4 DEF DeleteExpired, pollVars, entryVars, TypeInv
<1>5. CASE Tick
    BY <1>5, TaskArtifactsAssumption DEF Tick, pollVars, entryVars, diskVars, TypeInv
<1>6. CASE Crash
    <2>1. 0 \in 0..MaxTime
        BY TaskArtifactsAssumption
    <2>2. /\ phase' \in [Polls -> Phases] /\ seen' \in [Polls -> SUBSET Outputs]
          /\ mine' \in [Polls -> SUBSET Refs] /\ stamp' \in [Polls -> 0..MaxTime]
        BY <1>6, <2>1 DEF Crash, Phases, Active, Ended, TypeInv
    <2>. QED
        BY <1>6, <2>2 DEF Crash, diskVars, TypeInv
<1>7. CASE UNCHANGED vars
    BY <1>7 DEF vars, pollVars, entryVars, diskVars, TypeInv
<1>. QED
    BY <1>1, <1>2, <1>3, <1>4, <1>5, <1>6, <1>7 DEF Next, Terminated

-----------------------------------------------------------------------------
\* Nobody is registered or holds a lock.
LEMMA InitLock == Init => LockInv /\ MemoInv
<1>. SUFFICES ASSUME Init PROVE LockInv /\ MemoInv
    OBVIOUS
<1>1. /\ \A t \in Tasks : users[t] = {} /\ holder[t] = NoPoll /\ memo[t] = NoMemo
      /\ \A p \in Polls : phase[p] = "idle"
      /\ made = {}
    BY DEF Init
<1>2. Task \in [Polls -> Tasks]
    BY TaskArtifactsAssumption
<1>. QED
    BY <1>1, <1>2 DEF LockInv, MemoInv, OncePerFlight, Holding, Active

\* A poll that leaves, at the end or on the way, takes its place in the entry
\* and the lock with it, and the memo when it is the last.
LEMMA LeaveLock ==
    ASSUME TypeInv, LockInv, NEW p \in Polls, phase[p] \in Active,
           NEW l \in Ended, Leave(p), Goto(p, l)
    PROVE  LockInv'
<1>. DEFINE t == Task[p]
<1>1. t \in Tasks /\ Task \in [Polls -> Tasks] /\ NoPoll \notin Polls
    BY TaskArtifactsAssumption
<1>2. \A q \in Polls : phase'[q] = IF q = p THEN l ELSE phase[q]
    BY DEF Goto, TypeInv
<1>3. l \notin Active /\ l \notin Holding
    BY DEF Ended, Active, Holding
<1>4. \A u \in Tasks : users'[u] = IF u = t THEN users[u] \ {p} ELSE users[u]
    BY DEF Leave, TypeInv
<1>5. \A u \in Tasks : holder'[u] = IF u = t /\ holder[u] = p THEN NoPoll ELSE holder[u]
    BY <1>1 DEF Leave, TypeInv
<1>6. \A u \in Tasks : memo'[u] = IF u = t /\ users[u] = {p} THEN NoMemo ELSE memo[u]
    BY <1>1 DEF Leave, TypeInv
<1>7. \A u \in Tasks : users'[u] = {q \in Polls : Task[q] = u /\ phase'[q] \in Active}
    <2>. SUFFICES ASSUME NEW u \in Tasks
                  PROVE  users'[u] = {q \in Polls : Task[q] = u /\ phase'[q] \in Active}
        OBVIOUS
    <2>1. users[u] = {q \in Polls : Task[q] = u /\ phase[q] \in Active}
        BY DEF LockInv
    <2>2. CASE u = t
        BY <1>2, <1>3, <1>4, <2>1, <2>2
    <2>3. CASE u # t
        BY <1>2, <1>4, <2>1, <2>3
    <2>. QED  BY <2>2, <2>3
<1>8. ASSUME NEW u \in Tasks, holder'[u] # NoPoll
      PROVE  Task[holder'[u]] = u /\ phase'[holder'[u]] \in Holding
    <2>1. holder'[u] = holder[u] /\ holder[u] \in Polls
        BY <1>1, <1>5, <1>8 DEF TypeInv
    <2>2. Task[holder[u]] = u /\ phase[holder[u]] \in Holding
        BY <1>8, <2>1 DEF LockInv
    <2>3. holder[u] # p
        BY <1>1, <1>5, <1>8, <2>1, <2>2
    <2>. QED  BY <1>2, <2>1, <2>2, <2>3
<1>9. ASSUME NEW q \in Polls, phase'[q] \in Holding
      PROVE  holder'[Task[q]] = q
    <2>1. q # p /\ phase[q] \in Holding
        BY <1>2, <1>3, <1>9
    <2>2. holder[Task[q]] = q /\ Task[q] \in Tasks
        BY <1>1, <2>1 DEF LockInv
    <2>. QED  BY <1>5, <2>1, <2>2
<1>10. ASSUME NEW u \in Tasks, users'[u] = {} PROVE memo'[u] = NoMemo
    <2>1. users[u] = {} => memo[u] = NoMemo
        BY DEF LockInv
    <2>2. p \in users[t]
        BY <1>1 DEF LockInv
    <2>. QED  BY <1>4, <1>6, <1>10, <2>1, <2>2
<1>. QED  BY <1>7, <1>8, <1>9, <1>10 DEF LockInv

\* A poll that stays inside the lock leaves it as it is.
LEMMA StayLock ==
    ASSUME TypeInv, LockInv, NEW p \in Polls, phase[p] \in Holding, NEW l \in Holding,
           phase' = [phase EXCEPT ![p] = l], UNCHANGED <<users, holder>>,
           \A t \in Tasks : t # Task[p] => memo'[t] = memo[t]
    PROVE  LockInv'
<1>1. \A q \in Polls : phase'[q] = IF q = p THEN l ELSE phase[q]
    BY DEF TypeInv
<1>2. /\ \A q \in Polls : phase[q] \in Active <=> phase'[q] \in Active
      /\ \A q \in Polls : phase[q] \in Holding <=> phase'[q] \in Holding
    BY <1>1 DEF Active, Holding
<1>3. Task[p] \in Tasks /\ p \in users[Task[p]]
    BY TaskArtifactsAssumption DEF LockInv, Active, Holding
<1>4. \A t \in Tasks : users'[t] = {q \in Polls : Task[q] = t /\ phase'[q] \in Active}
    BY <1>2 DEF LockInv
<1>5. \A t \in Tasks : holder'[t] # NoPoll =>
          Task[holder'[t]] = t /\ phase'[holder'[t]] \in Holding
    BY <1>2 DEF LockInv, TypeInv
<1>6. \A q \in Polls : phase'[q] \in Holding => holder'[Task[q]] = q
    BY <1>2 DEF LockInv
<1>7. \A t \in Tasks : users'[t] = {} => memo'[t] = NoMemo
    BY <1>3 DEF LockInv
<1>. QED  BY <1>4, <1>5, <1>6, <1>7 DEF LockInv

\* Every step keeps registrations, holders and queues in agreement.
LEMMA NextLock == ASSUME TypeInv, LockInv, [Next]_vars PROVE LockInv'
<1>0. Task \in [Polls -> Tasks] /\ NoPoll \notin Polls
    BY TaskArtifactsAssumption
<1>1. ASSUME NEW p \in Polls, Register(p) PROVE LockInv'
    <2>. DEFINE t == Task[p]
    <2>1. \A q \in Polls : phase'[q] = IF q = p THEN "queued" ELSE phase[q]
        BY <1>1 DEF Register, Goto, TypeInv
    <2>2. \A u \in Tasks : users'[u] = IF u = t THEN users[u] \cup {p} ELSE users[u]
        BY <1>1 DEF Register, TypeInv
    <2>3. phase[p] = "idle" /\ UNCHANGED <<holder, memo>>
        BY <1>1 DEF Register
    <2>4. \A u \in Tasks : users'[u] = {q \in Polls : Task[q] = u /\ phase'[q] \in Active}
        <3>. SUFFICES ASSUME NEW u \in Tasks
                      PROVE  users'[u] = {q \in Polls : Task[q] = u /\ phase'[q] \in Active}
            OBVIOUS
        <3>1. users[u] = {q \in Polls : Task[q] = u /\ phase[q] \in Active}
            BY DEF LockInv
        <3>2. "queued" \in Active /\ "idle" \notin Active
            BY DEF Active
        <3>3. /\ phase'[p] \in Active /\ phase[p] \notin Active
              /\ \A q \in Polls : q # p => phase'[q] = phase[q]
            BY <2>1, <2>3, <3>2
        <3>4. CASE u = t
            <4>1. users'[u] = users[u] \cup {p}
                BY <2>2, <3>4
            <4>. QED  BY <3>1, <3>3, <3>4, <4>1
        <3>5. CASE u # t
            BY <2>2, <3>1, <3>3, <3>5
        <3>. QED  BY <3>4, <3>5
    <2>5. \A u \in Tasks : holder[u] # NoPoll => holder[u] \in Polls /\ holder[u] # p
        BY <2>3 DEF LockInv, Holding, TypeInv
    <2>. QED
        BY <1>0, <2>1, <2>2, <2>3, <2>4, <2>5 DEF LockInv, Holding
<1>2. ASSUME NEW p \in Polls, Enter(p) PROVE LockInv'
    <2>. DEFINE t == Task[p]
    <2>1. PICK l \in {"reading", "working"} : phase' = [phase EXCEPT ![p] = l]
        BY <1>2 DEF Enter, Goto
    <2>2. \A q \in Polls : phase'[q] = IF q = p THEN l ELSE phase[q]
        BY <2>1 DEF TypeInv
    <2>3. \A u \in Tasks : holder'[u] = IF u = t THEN p ELSE holder[u]
        BY <1>2 DEF Enter, TypeInv
    <2>4. phase[p] = "queued" /\ holder[t] = NoPoll /\ UNCHANGED <<users, memo>>
        BY <1>2 DEF Enter
    <2>5. \A q \in Polls : phase'[q] \in Active <=> phase[q] \in Active
        BY <2>2, <2>4 DEF Active
    <2>6. \A u \in Tasks : users'[u] = {q \in Polls : Task[q] = u /\ phase'[q] \in Active}
        BY <2>4, <2>5 DEF LockInv
    <2>7. ASSUME NEW u \in Tasks, holder'[u] # NoPoll
          PROVE  Task[holder'[u]] = u /\ phase'[holder'[u]] \in Holding
        <3>1. CASE u = t
            BY <2>2, <2>3, <3>1 DEF Holding
        <3>2. CASE u # t
            <4>1. Task[holder[u]] = u /\ phase[holder[u]] \in Holding /\ holder[u] \in Polls
                BY <2>3, <2>7, <3>2 DEF LockInv, TypeInv
            <4>. QED  BY <2>2, <2>3, <3>2, <4>1
        <3>. QED  BY <3>1, <3>2
    <2>8. ASSUME NEW q \in Polls, phase'[q] \in Holding PROVE holder'[Task[q]] = q
        <3>1. CASE q = p
            BY <1>0, <2>3, <3>1
        <3>2. CASE q # p
            <4>1. phase[q] \in Holding
                BY <2>2, <2>8, <3>2
            <4>2. holder[Task[q]] = q /\ Task[q] \in Tasks
                BY <1>0, <4>1 DEF LockInv
            <4>. QED  BY <1>0, <2>3, <2>4, <4>2
        <3>. QED  BY <3>1, <3>2
    <2>. QED
        BY <2>4, <2>6, <2>7, <2>8 DEF LockInv
<1>3. ASSUME NEW p \in Polls, ReadCache(p) \/ Persist(p) \/ CopyFails(p) \/ WriteCache(p)
      PROVE  LockInv'
    <2>1. phase[p] \in Holding /\ UNCHANGED <<users, holder>>
        BY <1>3 DEF ReadCache, Persist, CopyFails, WriteCache, entryVars, Holding
    <2>2. \A t \in Tasks : t # Task[p] => memo'[t] = memo[t]
        BY <1>3 DEF ReadCache, Persist, CopyFails, WriteCache, entryVars, Remember, TypeInv
    <2>3. \E l \in Holding : phase' = [phase EXCEPT ![p] = l]
        <3>1. CASE CopyFails(p)
            <4>1. phase = [phase EXCEPT ![p] = phase[p]]
                BY DEF TypeInv
            <4>2. phase' = phase
                BY <3>1 DEF CopyFails
            <4>. QED  BY <2>1, <4>1, <4>2
        <3>2. CASE ReadCache(p) \/ Persist(p) \/ WriteCache(p)
            BY <3>2 DEF ReadCache, Persist, WriteCache, Goto, Holding
        <3>. QED  BY <1>3, <3>1, <3>2
    <2>. QED  BY <2>1, <2>2, <2>3, StayLock
<1>4. ASSUME NEW p \in Polls, ReadFails(p) \/ WriteFails(p) PROVE LockInv'
    <2>1. phase[p] \in Holding /\ phase[p] \in Active
        BY <1>4 DEF ReadFails, WriteFails, Holding, Active
    <2>2. CASE handler[Task[p]] = "vod"
        <3>1. UNCHANGED <<users, holder>> /\ phase' = [phase EXCEPT ![p] = "working"]
            BY <1>4, <2>2 DEF ReadFails, WriteFails, entryVars, Goto
        <3>2. \A t \in Tasks : t # Task[p] => memo'[t] = memo[t]
            BY <1>4, <2>2 DEF ReadFails, WriteFails, entryVars, Remember, TypeInv
        <3>. QED  BY <2>1, <3>1, <3>2, StayLock DEF Holding
    <2>3. CASE handler[Task[p]] # "vod"
        BY <1>4, <2>1, <2>3, LeaveLock DEF ReadFails, WriteFails, Abort, Ended
    <2>. QED  BY <2>2, <2>3
<1>5. ASSUME NEW p \in Polls, Finish(p) PROVE LockInv'
    BY <1>5, LeaveLock DEF Finish, Active, Ended
<1>6. ASSUME NEW p \in Polls, Cancel(p) PROVE LockInv'
    BY <1>6, LeaveLock DEF Cancel, Abort, Ended
<1>7. CASE Crash
    <2>1. /\ \A p \in Polls : phase'[p] \notin Active
          /\ \A t \in Tasks : users'[t] = {} /\ holder'[t] = NoPoll /\ memo'[t] = NoMemo
        BY <1>7 DEF Crash, Active
    <2>. QED
        BY <1>0, <2>1 DEF LockInv, Active, Holding
<1>8. CASE UNCHANGED <<phase, users, holder, memo>>
    BY <1>8 DEF LockInv
<1>9. LateWrite \/ PruneCache \/ DeleteExpired \/ Tick \/ UNCHANGED vars
          => UNCHANGED <<phase, users, holder, memo>>
    BY DEF LateWrite, PruneCache, DeleteExpired, Tick, vars, pollVars, entryVars
<1>. QED
    BY <1>1, <1>2, <1>3, <1>4, <1>5, <1>6, <1>7, <1>8, <1>9 DEF Next, Proceed, Terminated

-----------------------------------------------------------------------------
\* A poll that ends stores nothing, and drops the memo only with the entry.
LEMMA LeaveMemo ==
    ASSUME TypeInv, LockInv, LockInv', MemoInv, NEW p \in Polls, phase[p] \in Active,
           NEW l \in Ended, Leave(p), Goto(p, l), UNCHANGED <<handler, made>>,
           \A q \in Polls : q # p => mine'[q] = mine[q]
    PROVE  MemoInv'
<1>. DEFINE t == Task[p]
<1>1. t \in Tasks /\ Task \in [Polls -> Tasks]
    BY TaskArtifactsAssumption
<1>2. \A q \in Polls : phase'[q] = IF q = p THEN l ELSE phase[q]
    BY DEF Goto, TypeInv
<1>3. l \notin Holding
    BY DEF Ended, Holding
<1>4. \A u \in Tasks : users'[u] = IF u = t THEN users[u] \ {p} ELSE users[u]
    BY DEF Leave, TypeInv
<1>5. \A u \in Tasks : memo'[u] = IF u = t /\ users[u] = {p} THEN NoMemo ELSE memo[u]
    BY <1>1 DEF Leave, TypeInv
<1>6. flight' = flight /\ handler' = handler /\ made' = made
    BY DEF Leave
<1>7. \A u \in Tasks : users'[u] # {} => users[u] # {} /\ memo'[u] = memo[u]
    BY <1>4, <1>5
<1>8. ASSUME NEW q \in Polls, phase'[q] \in Holding, handler'[Task[q]] # "vision_cv"
      PROVE  mine'[q] = Remembered(q)'
    <2>1. q # p /\ phase[q] \in Holding /\ mine'[q] = mine[q]
        BY <1>2, <1>3, <1>8
    <2>2. users'[Task[q]] # {}
        BY <1>1, <1>8 DEF LockInv, Holding, Active
    <2>3. memo'[Task[q]] = memo[Task[q]]
        BY <1>1, <1>7, <2>2
    <2>4. mine[q] = Remembered(q)
        BY <1>6, <1>8, <2>1 DEF MemoInv
    <2>. QED  BY <1>6, <2>1, <2>3, <2>4 DEF Remembered
<1>9. \A a \in made' : a.flight <= flight'[a.task]
    BY <1>6 DEF MemoInv
<1>10. ASSUME NEW a \in made', handler'[a.task] # "vision_cv",
              users'[a.task] # {}, a.flight = flight'[a.task]
       PROVE  memo'[a.task] # NoMemo /\ a \in memo'[a.task]
    <2>1. a \in made /\ a.task \in Tasks
        BY <1>6 DEF TypeInv, Refs
    <2>2. users[a.task] # {} /\ memo'[a.task] = memo[a.task]
        BY <1>7, <1>10, <2>1
    <2>. QED  BY <1>6, <1>10, <2>1, <2>2 DEF MemoInv
<1>11. OncePerFlight'
    BY <1>6 DEF MemoInv, OncePerFlight
<1>. QED  BY <1>8, <1>9, <1>10, <1>11 DEF MemoInv

\* A poll inside the lock tells the entry what it knows and what it adds; a copy
\* it adds is of an output of which it knows none.
LEMMA RememberMemo ==
    ASSUME NoMemo \notin SUBSET Refs,
           TypeInv, LockInv, MemoInv, NEW p \in Polls, phase[p] \in Holding,
           NEW refs \in SUBSET Refs, mine[p] \subseteq refs, Remember(p, refs),
           NEW l \in Holding, phase' = [phase EXCEPT ![p] = l],
           UNCHANGED <<handler, users, flight>>,
           made' \subseteq made \cup refs, made \subseteq made',
           \A a \in made' \ made :
               /\ a.task = Task[p] /\ a.flight = flight[Task[p]]
               /\ a.output \notin OutputsOf(mine[p])
               /\ \A b \in made' \ made : b = a
    PROVE  MemoInv'
<1>. DEFINE t == Task[p]
<1>1. t \in Tasks /\ Task \in [Polls -> Tasks]
    BY TaskArtifactsAssumption
<1>2. p \in users[t] /\ holder[t] = p
    BY <1>1 DEF LockInv, Holding, Active
<1>3. \A q \in Polls : mine'[q] = IF q = p THEN refs ELSE mine[q]
    BY DEF Remember, TypeInv
<1>4. \A u \in Tasks : memo'[u] = IF u = t /\ handler[t] # "vision_cv" THEN refs ELSE memo[u]
    BY DEF Remember, TypeInv
<1>5. \A q \in Polls : phase'[q] = IF q = p THEN l ELSE phase[q]
    BY DEF TypeInv
<1>6. ASSUME NEW q \in Polls, phase'[q] \in Holding, handler'[Task[q]] # "vision_cv"
      PROVE  mine'[q] = Remembered(q)'
    <2>1. CASE q = p
        BY <1>1, <1>3, <1>4, <1>6, <2>1 DEF Remembered
    <2>2. CASE q # p
        <3>1. phase[q] \in Holding /\ Task[q] # t
            BY <1>2, <1>5, <1>6, <2>2 DEF LockInv
        <3>2. memo'[Task[q]] = memo[Task[q]] /\ mine'[q] = mine[q]
            BY <1>1, <1>3, <1>4, <2>2, <3>1
        <3>3. mine[q] = Remembered(q)
            BY <1>6, <3>1 DEF MemoInv
        <3>. QED  BY <3>2, <3>3 DEF Remembered
    <2>. QED  BY <2>1, <2>2
<1>7. \A a \in made' : a.flight <= flight'[a.task]
    BY <1>1 DEF MemoInv, TypeInv
<1>8. \A a \in made : a \in Refs /\ a.task \in Tasks
    BY DEF TypeInv, Refs
<1>9. ASSUME handler[t] # "vision_cv", NEW a \in made, a.task = t, a.flight = flight[t]
      PROVE  a \in mine[p]
    <2>1. memo[t] # NoMemo /\ a \in memo[t]
        BY <1>2, <1>9 DEF MemoInv
    <2>2. mine[p] = Remembered(p)
        BY <1>9 DEF MemoInv
    <2>. QED  BY <1>9, <2>1, <2>2 DEF Remembered
<1>10. ASSUME NEW a \in made', handler'[a.task] # "vision_cv",
              users'[a.task] # {}, a.flight = flight'[a.task]
       PROVE  memo'[a.task] # NoMemo /\ a \in memo'[a.task]
    <2>1. CASE a \notin made
        BY <1>1, <1>4, <1>10, <2>1
    <2>2. CASE a \in made /\ a.task = t
        BY <1>1, <1>4, <1>9, <1>10, <2>2
    <2>3. CASE a \in made /\ a.task # t
        BY <1>4, <1>8, <1>10, <2>3 DEF MemoInv
    <2>. QED  BY <2>1, <2>2, <2>3
<1>11. OncePerFlight'
    <2>. SUFFICES ASSUME NEW a \in made', NEW b \in made', handler[a.task] # "vision_cv",
                         a.task = b.task, a.output = b.output, a.flight = b.flight
                  PROVE  a = b
        BY DEF OncePerFlight
    <2>1. CASE a \in made /\ b \in made
        BY <2>1 DEF MemoInv, OncePerFlight
    <2>2. CASE a \notin made /\ b \notin made
        BY <2>2
    <2>3. CASE a \in made /\ b \notin made
        BY <1>9, <2>3 DEF OutputsOf
    <2>4. CASE a \notin made /\ b \in made
        BY <1>9, <2>4 DEF OutputsOf
    <2>. QED  BY <2>1, <2>2, <2>3, <2>4
<1>. QED  BY <1>6, <1>7, <1>10, <1>11 DEF MemoInv

\* Steps that leave memo, working references and copies alone.
LEMMA QuietMemo ==
    ASSUME MemoInv, UNCHANGED <<handler, users, memo, flight, made>>,
           \A p \in Polls : phase'[p] \in Holding => phase[p] \in Holding /\ mine'[p] = mine[p]
    PROVE  MemoInv'
BY DEF MemoInv, OncePerFlight, Remembered

\* Every step keeps the memos those of the keys in use.
LEMMA NextMemo ==
    ASSUME NoMemo \notin SUBSET Refs, TypeInv, LockInv, LockInv', MemoInv, [Next]_vars
    PROVE  MemoInv'
<1>0. Task \in [Polls -> Tasks]
    BY TaskArtifactsAssumption
<1>1. ASSUME NEW p \in Polls, Register(p) PROVE MemoInv'
    <2>. DEFINE t == Task[p]
    <2>1. UNCHANGED <<handler, memo, made, mine>>
        BY <1>1 DEF Register, diskVars
    <2>2. \A q \in Polls : phase'[q] \in Holding => phase[q] \in Holding
        BY <1>1 DEF Register, Goto, Holding, TypeInv
    <2>3. \A a \in made : /\ a.task \in Tasks /\ a.flight \in Nat
                           /\ flight[a.task] \in Nat /\ a.flight <= flight[a.task]
        BY DEF MemoInv, TypeInv, Refs
    <2>4. \A u \in Tasks : u # t => flight'[u] = flight[u] /\ users'[u] = users[u]
        BY <1>1 DEF Register, TypeInv
    <2>5. IF users[t] = {} THEN flight'[t] = flight[t] + 1 ELSE flight'[t] = flight[t]
        BY <1>0, <1>1 DEF Register, TypeInv
    <2>6. \A a \in made : a.flight <= flight'[a.task]
        BY <2>3, <2>4, <2>5
    <2>7. ASSUME NEW a \in made, users'[a.task] # {}, a.flight = flight'[a.task]
          PROVE  users[a.task] # {} /\ a.flight = flight[a.task]
        <3>1. CASE a.task = t
            BY <2>3, <2>5, <2>7, <3>1
        <3>2. CASE a.task # t
            BY <2>3, <2>4, <2>7, <3>2
        <3>. QED  BY <3>1, <3>2
    <2>. QED
        BY <2>1, <2>2, <2>6, <2>7 DEF MemoInv, OncePerFlight, Remembered
<1>2. ASSUME NEW p \in Polls, Enter(p) PROVE MemoInv'
    <2>1. UNCHANGED <<handler, users, memo, flight, made>>
        BY <1>2 DEF Enter, diskVars
    <2>2. \A q \in Polls : /\ q # p /\ phase'[q] \in Holding => phase[q] \in Holding
                           /\ mine'[q] = IF q = p THEN Remembered(p) ELSE mine[q]
        BY <1>2 DEF Enter, Goto, TypeInv
    <2>. QED
        BY <2>1, <2>2 DEF MemoInv, OncePerFlight, Remembered
<1>3. ASSUME NEW p \in Polls, ReadCache(p) PROVE MemoInv'
    <2>. DEFINE refs == mine[p] \cup {a \in Fresh(Task[p]) : a.output \notin OutputsOf(mine[p])}
    <2>1. refs \in SUBSET Refs /\ mine[p] \subseteq refs
        BY <1>0, FreshRefs DEF TypeInv
    <2>2. /\ Remember(p, refs) /\ phase[p] \in Holding
          /\ phase' = [phase EXCEPT ![p] = "working"] /\ "working" \in Holding
          /\ UNCHANGED <<handler, users, flight, made>>
        BY <1>3 DEF ReadCache, Goto, Holding, diskVars
    <2>. HIDE DEF refs
    <2>. QED  BY <2>1, <2>2, RememberMemo
<1>4. ASSUME NEW p \in Polls, Persist(p) PROVE MemoInv'
    <2>1. PICK o \in Todo(p) : Persist(p)!2!(o)
        BY <1>4, Zenon DEF Persist
    <2>. DEFINE a == NewCopy(Task[p], o)
                refs == mine[p] \cup {a}
    <2>2. a \in Refs
        BY <1>0, NewCopyType DEF Todo, TypeInv
    <2>3. /\ a.task = Task[p] /\ a.flight = flight[Task[p]]
          /\ a.output \notin OutputsOf(mine[p])
        BY DEF NewCopy, Todo
    <2>. HIDE DEF a
    <2>4. made' = made \cup {a} /\ Remember(p, refs)
        BY <2>1 DEF a
    <2>5. refs \in SUBSET Refs /\ mine[p] \subseteq refs /\ a \in refs
        BY <2>2 DEF TypeInv
    <2>6. /\ phase[p] \in Holding /\ phase' = [phase EXCEPT ![p] = "writing"]
          /\ "writing" \in Holding /\ UNCHANGED <<handler, users, flight>>
        BY <1>4 DEF Persist, Goto, Holding
    <2>. HIDE DEF refs
    <2>7. /\ made' \subseteq made \cup refs /\ made \subseteq made'
          /\ \A b \in made' \ made : b = a
        BY <2>4, <2>5
    <2>. QED  BY <2>3, <2>4, <2>5, <2>6, <2>7, RememberMemo
<1>5. ASSUME NEW p \in Polls, CopyFails(p) \/ WriteCache(p) PROVE MemoInv'
    <2>1. UNCHANGED <<handler, users, memo, flight, made, mine>> /\ phase[p] \in Holding
        BY <1>5 DEF CopyFails, WriteCache, entryVars, diskVars, Holding
    <2>2. \A q \in Polls : q # p => phase'[q] = phase[q]
        BY <1>5 DEF CopyFails, WriteCache, Goto, TypeInv
    <2>. QED  BY <2>1, <2>2, QuietMemo
<1>6. ASSUME NEW p \in Polls, ReadFails(p) PROVE MemoInv'
    <2>1. phase[p] \in Holding /\ phase[p] \in Active /\ UNCHANGED <<handler, made>>
        BY <1>6 DEF ReadFails, diskVars, Holding, Active
    <2>2. CASE handler[Task[p]] = "vod"
        <3>1. /\ Remember(p, mine[p]) /\ phase' = [phase EXCEPT ![p] = "working"]
              /\ "working" \in Holding /\ UNCHANGED <<users, flight>>
            BY <1>6, <2>2 DEF ReadFails, Goto, Holding
        <3>2. mine[p] \in SUBSET Refs
            BY DEF TypeInv
        <3>. QED  BY <2>1, <3>1, <3>2, RememberMemo
    <2>3. CASE handler[Task[p]] # "vod"
        <3>1. Leave(p) /\ Goto(p, "raised") /\ "raised" \in Ended
            BY <1>6, <2>3 DEF ReadFails, Abort, Ended
        <3>2. \A q \in Polls : q # p => mine'[q] = mine[q]
            BY <1>6, <2>3 DEF ReadFails, Abort, TypeInv
        <3>. QED  BY <2>1, <3>1, <3>2, LeaveMemo
    <2>. QED  BY <2>2, <2>3
<1>7. ASSUME NEW p \in Polls, WriteFails(p) PROVE MemoInv'
    <2>1. phase[p] \in Holding /\ phase[p] \in Active /\ UNCHANGED <<handler, made>>
        BY <1>7 DEF WriteFails, diskVars, Holding, Active
    <2>2. CASE handler[Task[p]] = "vod"
        <3>1. UNCHANGED <<users, memo, flight, mine>>
            BY <1>7, <2>2 DEF WriteFails, entryVars
        <3>2. \A q \in Polls : q # p => phase'[q] = phase[q]
            BY <1>7, <2>2 DEF WriteFails, Goto, TypeInv
        <3>. QED  BY <2>1, <3>1, <3>2, QuietMemo
    <2>3. CASE handler[Task[p]] # "vod"
        <3>1. Leave(p) /\ Goto(p, "raised") /\ "raised" \in Ended
            BY <1>7, <2>3 DEF WriteFails, Abort, Ended
        <3>2. \A q \in Polls : q # p => mine'[q] = mine[q]
            BY <1>7, <2>3 DEF WriteFails, Abort, TypeInv
        <3>. QED  BY <2>1, <3>1, <3>2, LeaveMemo
    <2>. QED  BY <2>2, <2>3
<1>8. ASSUME NEW p \in Polls, Finish(p) PROVE MemoInv'
    BY <1>8, LeaveMemo DEF Finish, diskVars, Active, Ended
<1>9. ASSUME NEW p \in Polls, Cancel(p) PROVE MemoInv'
    <2>1. /\ Leave(p) /\ Goto(p, "cancelled") /\ "cancelled" \in Ended
          /\ phase[p] \in Active /\ UNCHANGED <<handler, made>>
        BY <1>9 DEF Cancel, Abort, diskVars, Ended
    <2>2. \A q \in Polls : q # p => mine'[q] = mine[q]
        BY <1>9 DEF Cancel, Abort, TypeInv
    <2>. QED  BY <2>1, <2>2, LeaveMemo
<1>10. CASE Crash
    <2>1. /\ \A p \in Polls : phase'[p] \notin Holding
          /\ \A t \in Tasks : users'[t] = {}
          /\ UNCHANGED <<handler, flight, made>>
        BY <1>10 DEF Crash, Active, Holding, diskVars
    <2>2. \A a \in made : a.task \in Tasks
        BY DEF TypeInv, Refs
    <2>. QED
        BY <2>1, <2>2 DEF MemoInv, OncePerFlight
<1>11. CASE LateWrite \/ PruneCache \/ DeleteExpired \/ Tick \/ UNCHANGED vars
    <2>1. UNCHANGED <<handler, users, memo, flight, made, phase, mine>>
        BY <1>11 DEF LateWrite, PruneCache, DeleteExpired, Tick, vars, pollVars, entryVars, diskVars
    <2>. QED  BY <2>1, QuietMemo
<1>. QED
    BY <1>1, <1>2, <1>3, <1>4, <1>5, <1>6, <1>7, <1>8, <1>9, <1>10, <1>11
    DEF Next, Proceed, Terminated

-----------------------------------------------------------------------------
\* What is known of the spans of two sets of references.
LEMMA WideMonotone ==
    ASSUME NEW r \in SUBSET Refs, NEW s \in SUBSET Refs, OutputsOf(r) \subseteq OutputsOf(s)
    PROVE  /\ Wide(r) \in Nat /\ Wide(s) \in Nat /\ Wide(r) <= Wide(s)
           /\ Wide(s) <= Span(Cardinality(Outputs))
<1>1. OutputsOf(s) \subseteq Outputs
    BY DEF OutputsOf, Refs
<1>2. IsFiniteSet(Outputs) /\ CacheTTL \in Nat
    BY TaskArtifactsAssumption
<1>. DEFINE i == Cardinality(OutputsOf(r))
            j == Cardinality(OutputsOf(s))
            k == Cardinality(Outputs)
<1>3. IsFiniteSet(OutputsOf(s)) /\ j <= k
    BY <1>1, <1>2, FS_Subset
<1>4. IsFiniteSet(OutputsOf(r)) /\ i <= j
    BY <1>3, FS_Subset
<1>5. i \in Nat /\ j \in Nat /\ k \in Nat
    BY <1>2, <1>3, <1>4, FS_CardinalityType
<1>. HIDE DEF i, j, k
<1>6. \A x, y \in Nat : x <= y => Span(x) \in Nat /\ Span(y) \in Nat /\ Span(x) <= Span(y)
    BY <1>2 DEF Span
<1>7. Span(i) \in Nat /\ Span(j) \in Nat /\ Span(i) <= Span(j) /\ Span(j) <= Span(k)
    BY <1>3, <1>4, <1>5, <1>6
<1>. QED  BY <1>7 DEF Wide, i, j, k

\* A copy of one more output adds the life of a row to the span.
LEMMA WideStep ==
    ASSUME NEW r \in SUBSET Refs, NEW a \in Refs, a.output \notin OutputsOf(r)
    PROVE  Wide(r \cup {a}) = Wide(r) + CacheTTL + 1
<1>1. OutputsOf(r \cup {a}) = OutputsOf(r) \cup {a.output}
    BY DEF OutputsOf
<1>2. IsFiniteSet(OutputsOf(r))
    BY TaskArtifactsAssumption, FS_Subset DEF OutputsOf, Refs
<1>. DEFINE n == Cardinality(OutputsOf(r))
<1>3. n \in Nat /\ Cardinality(OutputsOf(r \cup {a})) = n + 1
    BY <1>1, <1>2, FS_AddElement, FS_CardinalityType
<1>. HIDE DEF n
<1>4. (n + 1) * (CacheTTL + 1) = n * (CacheTTL + 1) + CacheTTL + 1
    BY <1>3, TaskArtifactsAssumption
<1>. QED  BY <1>3, <1>4 DEF Wide, Span, n

\* Reading and showing a bound on the age of references.
LEMMA WithinUse ==
    ASSUME NEW refs, NEW at, Within(refs, at), NEW a \in refs
    PROVE  at - a.at <= Wide(refs)
BY Zenon DEF Within

\* A row that is given back is not older than its TTL.
LEMMA WithinShow ==
    ASSUME NEW refs, NEW at, \A a \in refs : at - a.at <= Wide(refs)
    PROVE  Within(refs, at)
BY Zenon DEF Within

\* In the beginning there is no reference to be old.
LEMMA InitAge == Init => AgeInv
<1>. SUFFICES ASSUME Init PROVE AgeInv
    OBVIOUS
<1>1. 0 \in 0..MaxTime
    BY TaskArtifactsAssumption
<1>2. ClockInv /\ KeptInv
    BY <1>1 DEF Init, ClockInv, KeptInv
<1>3. PollAge /\ RowAge
    BY DEF Init, PollAge, RowAge, Holding
<1>. QED  BY <1>2, <1>3 DEF AgeInv

\* Steps that give no poll and no entry a new reference.
LEMMA QuietAge ==
    ASSUME PollAge, made \subseteq made',
           \A q \in Polls : phase'[q] \in Holding =>
               /\ phase[q] \in Holding /\ mine'[q] = mine[q]
               /\ since'[Task[q]] = since[Task[q]]
               /\ phase'[q] = "writing" => phase[q] = "writing" /\ stamp'[q] = stamp[q],
           \A t \in Tasks : memo'[t] # NoMemo => memo'[t] = memo[t] /\ since'[t] = since[t]
    PROVE  PollAge'
<1>1. ASSUME NEW q \in Polls, phase'[q] \in Holding
      PROVE  mine'[q] \subseteq made' /\ Within(mine'[q], since'[Task[q]] + 1)
    BY <1>1 DEF PollAge
<1>2. ASSUME NEW q \in Polls, phase'[q] = "writing"
      PROVE  Within(mine'[q], stamp'[q] + CacheTTL + 1)
    BY <1>2 DEF PollAge, Holding
<1>3. ASSUME NEW t \in Tasks, memo'[t] # NoMemo
      PROVE  memo'[t] \subseteq made' /\ Within(memo'[t], since'[t] + 1)
    BY <1>3 DEF PollAge
<1>. QED  BY <1>1, <1>2, <1>3 DEF PollAge

\* Steps that leave the clock, the store and the rows alone.
LEMMA QuietRows ==
    ASSUME KeptInv, RowAge, UNCHANGED <<cache, store, made, now>>, late' \subseteq late
    PROVE  KeptInv' /\ RowAge'
BY DEF KeptInv, RowAge

\* A poll that ends.
LEMMA LeaveAge ==
    ASSUME TypeInv, AgeInv, NEW p \in Polls, NEW l \in Ended, Leave(p), Goto(p, l),
           \A q \in Polls : q # p => mine'[q] = mine[q] /\ stamp'[q] = stamp[q],
           made' = made, now' = now
    PROVE  ClockInv' /\ PollAge'
<1>0. Task \in [Polls -> Tasks]
    BY TaskArtifactsAssumption
<1>1. \A q \in Polls : phase'[q] = IF q = p THEN l ELSE phase[q]
    BY DEF Goto, TypeInv
<1>2. l \notin Holding
    BY DEF Ended, Holding
<1>3. since' = since /\ \A t \in Tasks : users'[t] \subseteq users[t]
    BY <1>0 DEF Leave, TypeInv
<1>4. \A t \in Tasks : memo'[t] # NoMemo => memo'[t] = memo[t]
    BY <1>0 DEF Leave, TypeInv
<1>5. PollAge'
    BY <1>1, <1>2, <1>3, <1>4, QuietAge DEF AgeInv
<1>6. ClockInv'
    BY <1>3 DEF AgeInv, ClockInv
<1>. QED  BY <1>5, <1>6

\* A poll that works with other references from now on and tells its entry.
LEMMA RememberAge ==
    ASSUME TypeInv, PollAge, NEW p \in Polls, NEW refs \in SUBSET Refs, Remember(p, refs),
           refs \subseteq made', made \subseteq made',
           Within(refs, since[Task[p]] + 1), NEW l \in Holding,
           phase' = [phase EXCEPT ![p] = l], since' = since,
           \A q \in Polls : q # p => stamp'[q] = stamp[q],
           l = "writing" => Within(refs, stamp'[p] + CacheTTL + 1)
    PROVE  PollAge'
<1>1. \A q \in Polls : /\ phase'[q] = IF q = p THEN l ELSE phase[q]
                       /\ mine'[q] = IF q = p THEN refs ELSE mine[q]
    BY DEF Remember, TypeInv
<1>2. \A t \in Tasks : memo'[t] = IF t = Task[p] /\ handler[t] # "vision_cv" THEN refs ELSE memo[t]
    BY DEF Remember, TypeInv
<1>3. ASSUME NEW q \in Polls, phase'[q] \in Holding
      PROVE  mine'[q] \subseteq made' /\ Within(mine'[q], since'[Task[q]] + 1)
    BY <1>1, <1>3 DEF PollAge
<1>4. ASSUME NEW q \in Polls, phase'[q] = "writing"
      PROVE  Within(mine'[q], stamp'[q] + CacheTTL + 1)
    BY <1>1, <1>4 DEF PollAge
<1>5. ASSUME NEW t \in Tasks, memo'[t] # NoMemo
      PROVE  memo'[t] \subseteq made' /\ Within(memo'[t], since'[t] + 1)
    BY <1>2, <1>5 DEF PollAge
<1>. QED  BY <1>3, <1>4, <1>5 DEF PollAge

\* A row that is written.
LEMMA WriteRowAge ==
    ASSUME TypeInv, RowAge, NEW t \in Tasks, NEW refs \in SUBSET Refs, NEW at \in 0..MaxTime,
           WriteRow(t, refs, at), refs \subseteq made, made' = made, late' \subseteq late,
           Within(refs, at + CacheTTL + 1)
    PROVE  RowAge'
<1>. DEFINE row == [refs |-> refs, at |-> at]
            c == [cache EXCEPT ![t] = row]
            rows == {u \in Tasks : c[u] # NoRow}
<1>1. \A u \in Tasks : c[u] = IF u = t THEN row ELSE cache[u]
    BY DEF TypeInv
<1>2. \A u \in Tasks : cache'[u] # NoRow => cache'[u] = c[u]
    <2>1. CASE Cardinality(rows) <= MaxRows
        BY <2>1 DEF WriteRow
    <2>2. CASE ~(Cardinality(rows) <= MaxRows)
        <3>1. PICK kept \in SUBSET rows : cache' = [u \in Tasks |-> IF u \in kept THEN c[u] ELSE NoRow]
            BY <2>2 DEF WriteRow
        <3>. HIDE DEF c
        <3>. QED  BY <3>1
    <2>. QED  BY <2>1, <2>2
<1>. HIDE DEF c
<1>3. row.refs = refs /\ row.at = at
    OBVIOUS
<1>. HIDE DEF row
<1>4. ASSUME NEW u \in Tasks, cache'[u] # NoRow
      PROVE  /\ cache'[u].refs \subseteq made'
             /\ Within(cache'[u].refs, cache'[u].at + CacheTTL + 1)
    <2>1. CASE u = t
        BY <1>1, <1>2, <1>3, <1>4, <2>1
    <2>2. CASE u # t
        <3>1. cache'[u] = cache[u] /\ cache[u] # NoRow
            BY <1>1, <1>2, <1>4, <2>2
        <3>. QED  BY <3>1 DEF RowAge
    <2>. QED  BY <2>1, <2>2
<1>. QED  BY <1>4 DEF RowAge

\* Reading the cache: a row that is still given back was written at most
\* CacheTTL ago, and the entry was there already.
LEMMA ReadAge ==
    ASSUME TypeInv, LockInv, AgeInv, NEW p \in Polls, ReadCache(p)
    PROVE  PollAge'
<1>. DEFINE t == Task[p]
            new == {a \in Fresh(t) : a.output \notin OutputsOf(mine[p])}
            refs == mine[p] \cup new
<1>0. t \in Tasks /\ now \in Int /\ since[t] \in Int /\ CacheTTL \in Nat
    BY TaskArtifactsAssumption DEF TypeInv, AgeInv, ClockInv
<1>1. phase[p] \in Holding /\ mine[p] \in SUBSET Refs
    BY <1>0 DEF ReadCache, Holding, TypeInv
<1>2. users[t] # {} /\ since[t] <= now
    BY <1>0, <1>1 DEF LockInv, Holding, Active, AgeInv, ClockInv
<1>3. Fresh(t) \in SUBSET Refs
    BY <1>0, FreshRefs
<1>4. refs \in SUBSET Refs /\ \A a \in Refs : a.at \in Int
    BY <1>1, <1>3 DEF Refs
<1>5. Fresh(t) \subseteq made
    BY <1>0 DEF Fresh, AgeInv, RowAge
<1>6. mine[p] \subseteq made /\ Within(mine[p], since[t] + 1)
    BY <1>1 DEF AgeInv, PollAge
<1>7. ASSUME NEW a \in mine[p] PROVE (since[t] + 1) - a.at <= Wide(refs)
    <2>1. OutputsOf(mine[p]) \subseteq OutputsOf(refs)
        BY DEF OutputsOf
    <2>. HIDE DEF refs
    <2>2. Wide(mine[p]) \in Nat /\ Wide(refs) \in Nat /\ Wide(mine[p]) <= Wide(refs)
        BY <1>1, <1>4, <2>1, WideMonotone
    <2>3. (since[t] + 1) - a.at <= Wide(mine[p])
        BY <1>6, WithinUse, Zenon
    <2>4. a.at \in Int
        BY <1>1, <1>4
    <2>. QED  BY <1>0, <2>2, <2>3, <2>4
<1>8. ASSUME NEW a \in Fresh(t) PROVE (since[t] + 1) - a.at <= Wide(refs)
    <2>1. /\ cache[t] # NoRow /\ now - cache[t].at <= CacheTTL
          /\ Fresh(t) = cache[t].refs /\ cache[t].at \in Int
        BY <1>0, <1>8 DEF Fresh, TypeInv, Rows
    <2>2. Within(Fresh(t), cache[t].at + CacheTTL + 1)
        BY <1>0, <2>1 DEF AgeInv, RowAge
    <2>5. (cache[t].at + CacheTTL + 1) - a.at <= Wide(Fresh(t))
        BY <1>8, <2>2, WithinUse, Zenon
    <2>3. OutputsOf(Fresh(t)) \subseteq OutputsOf(refs)
        BY DEF OutputsOf
    <2>. HIDE DEF refs
    <2>4. /\ Wide(Fresh(t)) \in Nat /\ Wide(refs) \in Nat
          /\ Wide(Fresh(t)) <= Wide(refs) /\ a.at \in Int
        BY <1>3, <1>4, <1>8, <2>3, WideMonotone
    <2>. QED  BY <1>0, <1>2, <2>1, <2>5, <2>4
<1>9. Within(refs, since[t] + 1)
    <2>1. \A a \in refs : a \in mine[p] \/ a \in Fresh(t)
        OBVIOUS
    <2>. HIDE DEF refs
    <2>2. \A a \in refs : (since[t] + 1) - a.at <= Wide(refs)
        BY <1>7, <1>8, <2>1, Zenon
    <2>. QED  BY <2>2, WithinShow, Zenon
<1>10. refs \subseteq made
    BY <1>5, <1>6
<1>11. /\ Remember(p, refs) /\ phase' = [phase EXCEPT ![p] = "working"]
       /\ UNCHANGED <<stamp, since, made>> /\ "working" \in Holding
    BY <1>1 DEF ReadCache, Goto, Holding, diskVars
<1>. HIDE DEF refs
<1>. QED  BY <1>1, <1>4, <1>9, <1>10, <1>11, RememberAge DEF AgeInv

\* A copy is stored: it is new, and the others have one more output beside them.
LEMMA PersistAge ==
    ASSUME TypeInv, LockInv, AgeInv, NEW p \in Polls, Persist(p)
    PROVE  PollAge' /\ KeptInv'
<1>. DEFINE t == Task[p]
<1>0. t \in Tasks /\ now \in Int /\ since[t] \in Int /\ CacheTTL \in Nat
    BY TaskArtifactsAssumption DEF TypeInv, AgeInv, ClockInv
<1>1. phase[p] \in Holding /\ mine[p] \in SUBSET Refs
    BY <1>0 DEF Persist, Holding, TypeInv
<1>2. users[t] # {} /\ now <= since[t] + 1
    BY <1>0, <1>1 DEF LockInv, Holding, Active, AgeInv, ClockInv
<1>3. PICK o \in Todo(p) : Persist(p)!2!(o)
    BY Zenon DEF Persist
<1>. DEFINE a == NewCopy(t, o)
            refs == mine[p] \cup {a}
<1>4. a \in Refs
    BY <1>0, NewCopyType DEF Todo, TypeInv
<1>5. a.at = now /\ a.output \notin OutputsOf(mine[p])
    BY DEF NewCopy, Todo
<1>6. store' = store \cup {a} /\ made' = made \cup {a} /\ Remember(p, refs)
    BY <1>3
<1>. HIDE DEF a
<1>7. refs \in SUBSET Refs /\ \A b \in Refs : b.at \in Int
    BY <1>1, <1>4 DEF Refs
<1>8. mine[p] \subseteq made /\ Within(mine[p], since[t] + 1)
    BY <1>1 DEF AgeInv, PollAge
<1>9. Wide(mine[p]) \in Nat /\ Wide(refs) = Wide(mine[p]) + CacheTTL + 1
    BY <1>1, <1>4, <1>5, WideMonotone, WideStep
<1>10. refs \subseteq made' /\ made \subseteq made'
    BY <1>6, <1>8
<1>11. /\ UNCHANGED <<since, now>> /\ phase' = [phase EXCEPT ![p] = "writing"]
       /\ "writing" \in Holding /\ stamp' = [stamp EXCEPT ![p] = now]
    BY DEF Persist, Goto, Holding
<1>12. stamp'[p] = now /\ \A q \in Polls : q # p => stamp'[q] = stamp[q]
    BY <1>11 DEF TypeInv
<1>13. ASSUME NEW b \in refs
       PROVE  (since[t] + 1) - b.at <= Wide(refs) /\ (now + CacheTTL + 1) - b.at <= Wide(refs)
    <2>1. CASE b \in mine[p]
        <3>1. (since[t] + 1) - b.at <= Wide(mine[p])
            BY <1>8, <2>1, WithinUse, Zenon
        <3>2. b.at \in Int
            BY <1>1, <1>7, <2>1
        <3>. HIDE DEF refs
        <3>. QED  BY <1>0, <1>2, <1>9, <3>1, <3>2
    <2>2. CASE b = a
        <3>1. since[t] <= now
            BY <1>0, <1>2 DEF AgeInv, ClockInv
        <3>. HIDE DEF refs
        <3>. QED  BY <1>0, <1>5, <1>9, <2>2, <3>1
    <2>. QED  BY <2>1, <2>2
<1>. HIDE DEF refs
<1>14. Within(refs, since[t] + 1) /\ Within(refs, now + CacheTTL + 1)
    BY <1>13, WithinShow, Zenon
<1>15. PollAge'
    BY <1>1, <1>6, <1>7, <1>10, <1>11, <1>12, <1>14, RememberAge DEF AgeInv
<1>16. KeptInv'
    BY <1>6, <1>11 DEF AgeInv, KeptInv
<1>. QED  BY <1>15, <1>16

\* Every step keeps the ages of the references within their bounds.
LEMMA NextAge == ASSUME TypeInv, LockInv, LockInv', AgeInv, [Next]_vars PROVE AgeInv'
<1>0. Task \in [Polls -> Tasks]
    BY TaskArtifactsAssumption
<1>1. ASSUME NEW p \in Polls, Register(p) PROVE AgeInv'
    <2>. DEFINE t == Task[p]
    <2>1. /\ UNCHANGED <<memo, mine, stamp, cache, store, made, late, now>>
          /\ \A q \in Polls : phase'[q] \in Holding => phase[q] \in Holding /\ phase'[q] = phase[q]
        BY <1>1 DEF Register, Goto, Holding, TypeInv, diskVars
    <2>2. \A u \in Tasks : u # t => users'[u] = users[u]
        BY <1>1 DEF Register, TypeInv
    <2>3. since' = IF users[t] = {} THEN [since EXCEPT ![t] = now] ELSE since
        BY <1>1 DEF Register
    <2>4. /\ since' \in [Tasks -> 0..MaxTime]
          /\ \A u \in Tasks : IF u = t /\ users[t] = {} THEN since'[u] = now
                              ELSE since'[u] = since[u]
        BY <2>3 DEF AgeInv, ClockInv, TypeInv
    <2>5. ClockInv'
        <3>. SUFFICES ASSUME NEW u \in Tasks, users'[u] # {}
                      PROVE  since'[u] <= now /\ now <= since'[u] + 1
            BY <2>1, <2>4 DEF ClockInv
        <3>1. CASE u = t /\ users[t] = {}
            BY <2>4, <3>1 DEF TypeInv
        <3>2. CASE ~(u = t /\ users[t] = {})
            BY <2>2, <2>4, <3>2 DEF AgeInv, ClockInv
        <3>. QED  BY <3>1, <3>2
    <2>6. \A q \in Polls : phase[q] \in Holding => users[Task[q]] # {}
        BY <1>0 DEF LockInv, Holding, Active
    <2>7. \A u \in Tasks : memo[u] # NoMemo => users[u] # {}
        BY DEF LockInv
    <2>8. PollAge'
        BY <1>0, <2>1, <2>4, <2>6, <2>7, QuietAge DEF AgeInv
    <2>. QED  BY <2>1, <2>5, <2>8, QuietRows DEF AgeInv
<1>2. ASSUME NEW p \in Polls, Enter(p) PROVE AgeInv'
    <2>1. UNCHANGED <<users, memo, since, cache, store, made, late, now>>
        BY <1>2 DEF Enter, diskVars
    <2>2. \A q \in Polls : IF q = p THEN mine'[q] = Remembered(q) /\ phase'[q] # "writing"
                           ELSE /\ phase'[q] = phase[q] /\ mine'[q] = mine[q]
                                /\ stamp'[q] = stamp[q]
        BY <1>2 DEF Enter, Goto, TypeInv
    <2>3. ClockInv'
        BY <2>1 DEF AgeInv, ClockInv
    <2>4. Remembered(p) \subseteq made /\ Within(Remembered(p), since[Task[p]] + 1)
        BY <1>0 DEF Remembered, AgeInv, PollAge, Within
    <2>5. PollAge'
        BY <1>0, <2>1, <2>2, <2>4 DEF AgeInv, PollAge
    <2>. QED  BY <2>1, <2>3, <2>5, QuietRows DEF AgeInv
<1>3. ASSUME NEW p \in Polls, ReadCache(p) PROVE AgeInv'
    <2>1. UNCHANGED <<users, since, cache, store, made, late, now>>
        BY <1>3 DEF ReadCache, diskVars
    <2>2. ClockInv'
        BY <2>1 DEF AgeInv, ClockInv
    <2>. QED  BY <1>3, <2>1, <2>2, ReadAge, QuietRows DEF AgeInv
<1>4. ASSUME NEW p \in Polls, Persist(p) PROVE AgeInv'
    <2>1. UNCHANGED <<users, since, cache, late, now>> /\ made \subseteq made'
        BY <1>4 DEF Persist
    <2>2. ClockInv' /\ RowAge'
        BY <2>1 DEF AgeInv, ClockInv, RowAge
    <2>. QED  BY <1>4, <2>2, PersistAge DEF AgeInv
<1>5. ASSUME NEW p \in Polls, CopyFails(p) PROVE AgeInv'
    <2>1. UNCHANGED <<phase, mine, stamp, users, memo, since, cache, store, made, late, now>>
        BY <1>5 DEF CopyFails, entryVars, diskVars
    <2>2. ClockInv' /\ PollAge'
        BY <2>1 DEF AgeInv, ClockInv, PollAge
    <2>. QED  BY <2>1, <2>2, QuietRows DEF AgeInv
<1>6. ASSUME NEW p \in Polls, WriteCache(p) PROVE AgeInv'
    <2>1. UNCHANGED <<mine, stamp, users, memo, since, store, made, late, now>>
        BY <1>6 DEF WriteCache, entryVars
    <2>2. /\ WriteRow(Task[p], mine[p], stamp[p]) /\ phase[p] = "writing"
          /\ \A q \in Polls : IF q = p THEN phase'[q] = "working" ELSE phase'[q] = phase[q]
        BY <1>6 DEF WriteCache, Goto, TypeInv
    <2>3. phase[p] \in Holding /\ mine[p] \in SUBSET Refs /\ stamp[p] \in 0..MaxTime
        BY <2>2 DEF Holding, TypeInv
    <2>4. mine[p] \subseteq made /\ Within(mine[p], stamp[p] + CacheTTL + 1)
        BY <2>2, <2>3 DEF AgeInv, PollAge
    <2>5. RowAge'
        BY <1>0, <2>1, <2>2, <2>3, <2>4, WriteRowAge DEF AgeInv
    <2>6. PollAge'
        BY <2>1, <2>2, <2>3, QuietAge DEF AgeInv
    <2>7. ClockInv' /\ KeptInv'
        BY <2>1 DEF AgeInv, ClockInv, KeptInv
    <2>. QED  BY <2>5, <2>6, <2>7 DEF AgeInv
<1>7. ASSUME NEW p \in Polls, ReadFails(p) PROVE AgeInv'
    <2>1. /\ phase[p] \in Holding
          /\ UNCHANGED <<cache, store, made, late, now>>
        BY <1>7 DEF ReadFails, diskVars, Holding
    <2>2. CASE handler[Task[p]] = "vod"
        <3>1. /\ Remember(p, mine[p]) /\ phase' = [phase EXCEPT ![p] = "working"]
              /\ "working" \in Holding /\ UNCHANGED <<users, since, stamp>>
            BY <1>7, <2>2 DEF ReadFails, Goto, Holding
        <3>2. mine[p] \in SUBSET Refs /\ mine[p] \subseteq made /\ Within(mine[p], since[Task[p]] + 1)
            BY <2>1 DEF TypeInv, AgeInv, PollAge
        <3>3. PollAge'
            BY <2>1, <3>1, <3>2, RememberAge DEF AgeInv
        <3>4. ClockInv'
            BY <2>1, <3>1 DEF AgeInv, ClockInv
        <3>. QED  BY <2>1, <3>3, <3>4, QuietRows DEF AgeInv
    <2>3. CASE handler[Task[p]] # "vod"
        <3>1. Leave(p) /\ Goto(p, "raised") /\ "raised" \in Ended
            BY <1>7, <2>3 DEF ReadFails, Abort, Ended
        <3>2. \A q \in Polls : q # p => mine'[q] = mine[q] /\ stamp'[q] = stamp[q]
            BY <1>7, <2>3 DEF ReadFails, Abort, TypeInv
        <3>. QED  BY <2>1, <3>1, <3>2, LeaveAge, QuietRows DEF AgeInv
    <2>. QED  BY <2>2, <2>3
<1>8. ASSUME NEW p \in Polls, WriteFails(p) PROVE AgeInv'
    <2>1. /\ phase[p] \in Holding
          /\ UNCHANGED <<cache, store, made, late, now>>
        BY <1>8 DEF WriteFails, diskVars, Holding
    <2>2. CASE handler[Task[p]] = "vod"
        <3>1. UNCHANGED <<users, memo, since, mine, stamp>>
            BY <1>8, <2>2 DEF WriteFails, entryVars
        <3>2. \A q \in Polls : IF q = p THEN phase'[q] = "working" ELSE phase'[q] = phase[q]
            BY <1>8, <2>2 DEF WriteFails, Goto, TypeInv
        <3>3. PollAge'
            BY <2>1, <3>1, <3>2, QuietAge DEF AgeInv
        <3>4. ClockInv'
            BY <2>1, <3>1 DEF AgeInv, ClockInv
        <3>. QED  BY <2>1, <3>3, <3>4, QuietRows DEF AgeInv
    <2>3. CASE handler[Task[p]] # "vod"
        <3>1. Leave(p) /\ Goto(p, "raised") /\ "raised" \in Ended
            BY <1>8, <2>3 DEF WriteFails, Abort, Ended
        <3>2. \A q \in Polls : q # p => mine'[q] = mine[q] /\ stamp'[q] = stamp[q]
            BY <1>8, <2>3 DEF WriteFails, Abort, TypeInv
        <3>. QED  BY <2>1, <3>1, <3>2, LeaveAge, QuietRows DEF AgeInv
    <2>. QED  BY <2>2, <2>3
<1>9. ASSUME NEW p \in Polls, Finish(p) PROVE AgeInv'
    <2>1. /\ Leave(p) /\ Goto(p, "done") /\ "done" \in Ended
          /\ UNCHANGED <<mine, stamp, cache, store, made, late, now>>
        BY <1>9 DEF Finish, diskVars, Ended
    <2>. QED  BY <2>1, LeaveAge, QuietRows DEF AgeInv
<1>10. ASSUME NEW p \in Polls, Cancel(p) PROVE AgeInv'
    <2>1. /\ Leave(p) /\ Goto(p, "cancelled") /\ "cancelled" \in Ended
          /\ UNCHANGED <<cache, store, made, now>>
        BY <1>10 DEF Cancel, Abort, diskVars, Ended
    <2>2. \A q \in Polls : q # p => mine'[q] = mine[q] /\ stamp'[q] = stamp[q]
        BY <1>10 DEF Cancel, Abort, TypeInv
    <2>3. ClockInv' /\ PollAge'
        BY <2>1, <2>2, LeaveAge
    <2>4. \A w \in late' : \/ w \in late
                           \/ /\ phase[p] = "writing"
                              /\ w = [task |-> Task[p], refs |-> mine[p], at |-> stamp[p]]
        BY <1>10 DEF Cancel
    <2>5. phase[p] = "writing" => /\ mine[p] \subseteq made
                                  /\ Within(mine[p], stamp[p] + CacheTTL + 1)
        BY DEF AgeInv, PollAge, Holding
    <2>6. KeptInv' /\ RowAge'
        BY <2>1, <2>4, <2>5 DEF AgeInv, KeptInv, RowAge
    <2>. QED  BY <2>3, <2>6 DEF AgeInv
<1>11. CASE Crash
    <2>1. /\ \A p \in Polls : phase'[p] \notin Holding
          /\ \A t \in Tasks : users'[t] = {} /\ memo'[t] = NoMemo
          /\ late' = {} /\ UNCHANGED <<since, cache, store, made, now>>
        BY <1>11 DEF Crash, Active, Holding, diskVars
    <2>2. ClockInv' /\ PollAge'
        BY <2>1 DEF AgeInv, ClockInv, PollAge, Holding
    <2>. QED  BY <2>1, <2>2, QuietRows DEF AgeInv
<1>12. CASE LateWrite
    <2>1. PICK w \in late : WriteRow(w.task, w.refs, w.at) /\ late' = late \ {w}
        BY <1>12 DEF LateWrite
    <2>2. UNCHANGED <<phase, mine, stamp, users, memo, since, store, made, now>>
        BY <1>12 DEF LateWrite, pollVars, entryVars
    <2>3. w.task \in Tasks /\ w.refs \in SUBSET Refs /\ w.at \in 0..MaxTime
        BY DEF TypeInv
    <2>4. w.refs \subseteq made /\ Within(w.refs, w.at + CacheTTL + 1)
        BY DEF AgeInv, RowAge
    <2>5. RowAge'
        BY <2>1, <2>2, <2>3, <2>4, WriteRowAge DEF AgeInv
    <2>6. ClockInv' /\ KeptInv' /\ PollAge'
        BY <2>2 DEF AgeInv, ClockInv, KeptInv, PollAge
    <2>. QED  BY <2>5, <2>6 DEF AgeInv
<1>13. CASE PruneCache
    <2>1. UNCHANGED <<phase, mine, stamp, users, memo, since, store, made, late, now>>
        BY <1>13 DEF PruneCache, pollVars, entryVars
    <2>2. PICK old \in SUBSET Tasks : cache' = [t \in Tasks |-> IF t \in old THEN NoRow ELSE cache[t]]
        BY <1>13 DEF PruneCache
    <2>3. RowAge'
        BY <2>1, <2>2 DEF AgeInv, RowAge
    <2>4. ClockInv' /\ KeptInv' /\ PollAge'
        BY <2>1 DEF AgeInv, ClockInv, KeptInv, PollAge
    <2>. QED  BY <2>3, <2>4 DEF AgeInv
<1>14. CASE DeleteExpired
    <2>1. UNCHANGED <<phase, mine, stamp, users, memo, since, cache, made, late, now>>
        BY <1>14 DEF DeleteExpired, pollVars, entryVars
    <2>2. store' = store \ {a \in store : a.at + ArtifactTTL <= now}
        BY <1>14 DEF DeleteExpired
    <2>3. \A a \in made : now < a.at + ArtifactTTL => ~(a.at + ArtifactTTL <= now)
        BY TaskArtifactsAssumption DEF TypeInv, Refs
    <2>4. KeptInv'
        BY <2>1, <2>2, <2>3 DEF AgeInv, KeptInv
    <2>5. ClockInv' /\ PollAge' /\ RowAge'
        BY <2>1 DEF AgeInv, ClockInv, PollAge, RowAge
    <2>. QED  BY <2>4, <2>5 DEF AgeInv
<1>15. CASE Tick
    <2>1. /\ UNCHANGED <<phase, mine, stamp, users, memo, since, cache, store, made, late>>
          /\ now' = now + 1 /\ \A t \in Tasks : users[t] # {} => since[t] = now
        BY <1>15 DEF Tick, pollVars, entryVars, diskVars
    <2>2. ClockInv'
        BY <2>1 DEF AgeInv, ClockInv, TypeInv
    <2>3. \A a \in made : now' < a.at + ArtifactTTL => now < a.at + ArtifactTTL
        BY <2>1, TaskArtifactsAssumption DEF TypeInv, Refs
    <2>4. KeptInv'
        BY <2>1, <2>3 DEF AgeInv, KeptInv
    <2>5. PollAge' /\ RowAge'
        BY <2>1 DEF AgeInv, PollAge, RowAge
    <2>. QED  BY <2>2, <2>4, <2>5 DEF AgeInv
<1>16. CASE UNCHANGED vars
    <2>1. UNCHANGED <<phase, mine, stamp, users, memo, since, cache, store, made, late, now>>
        BY <1>16 DEF vars, pollVars, entryVars, diskVars
    <2>. QED  BY <2>1 DEF AgeInv, ClockInv, KeptInv, PollAge, RowAge
<1>. QED
    BY <1>1, <1>2, <1>3, <1>4, <1>5, <1>6, <1>7, <1>8, <1>9, <1>10, <1>11, <1>12, <1>13,
       <1>14, <1>15, <1>16
    DEF Next, Proceed, Terminated

\* The sweeper never deletes what the memo or a row that is still given back
\* names, whatever is cancelled, fails or crashes: the lifetime of an artifact
\* has to exceed what the outputs of a task can add to the age of a reference.
THEOREM ReturnedExist ==
    ASSUME ArtifactTTL > Span(Cardinality(Outputs))
    PROVE  Spec => []ReturnedRefsExist
<1>1. Init => TypeInv /\ LockInv /\ AgeInv
    BY InitType, InitLock, InitAge
<1>2. TypeInv /\ LockInv /\ AgeInv /\ [Next]_vars => (TypeInv /\ LockInv /\ AgeInv)'
    BY NextType, NextLock, NextAge
<1>3. TypeInv /\ LockInv /\ AgeInv => ReturnedRefsExist
    <2>. SUFFICES ASSUME TypeInv, LockInv, AgeInv, NEW t \in Tasks
                  PROVE  /\ memo[t] # NoMemo => memo[t] \subseteq store
                         /\ Fresh(t) \subseteq store
        BY DEF ReturnedRefsExist
    <2>1. /\ now \in Int /\ since[t] \in Int /\ CacheTTL \in Nat /\ ArtifactTTL \in Nat
          /\ \A a \in Refs : a.at \in Int
        BY TaskArtifactsAssumption DEF TypeInv, AgeInv, ClockInv, Refs
    <2>2. ASSUME NEW r \in SUBSET Refs, NEW a \in r, NEW at \in Int, at - a.at <= Wide(r),
                 r \subseteq made, now <= at
          PROVE  a \in store
        <3>1. Wide(r) \in Nat /\ Wide(r) <= Span(Cardinality(Outputs))
            BY WideMonotone
        <3>2. Span(Cardinality(Outputs)) \in Int
            BY <2>1, TaskArtifactsAssumption, FS_CardinalityType DEF Span
        <3>3. now < a.at + ArtifactTTL
            BY <2>1, <2>2, <3>1, <3>2
        <3>. QED  BY <2>2, <3>3 DEF AgeInv, KeptInv
    <2>3. ASSUME memo[t] # NoMemo, NEW a \in memo[t] PROVE a \in store
        <3>1. memo[t] \in SUBSET Refs /\ users[t] # {}
            BY <2>3 DEF TypeInv, LockInv
        <3>2. now <= since[t] + 1
            BY <3>1 DEF AgeInv, ClockInv
        <3>3. memo[t] \subseteq made /\ Within(memo[t], since[t] + 1)
            BY <2>3 DEF AgeInv, PollAge
        <3>4. (since[t] + 1) - a.at <= Wide(memo[t])
            BY <2>3, <3>3, WithinUse, Zenon
        <3>5. since[t] + 1 \in Int
            BY <2>1
        <3>. QED  BY <2>2, <2>3, <3>1, <3>2, <3>3, <3>4, <3>5
    <2>4. ASSUME NEW a \in Fresh(t) PROVE a \in store
        <3>1. /\ cache[t] # NoRow /\ now - cache[t].at <= CacheTTL
              /\ Fresh(t) = cache[t].refs /\ cache[t].at \in Int
            BY <2>1, <2>4 DEF Fresh, TypeInv, Rows
        <3>5. Fresh(t) \subseteq made /\ Within(Fresh(t), cache[t].at + CacheTTL + 1)
            BY <3>1 DEF AgeInv, RowAge
        <3>2. (cache[t].at + CacheTTL + 1) - a.at <= Wide(Fresh(t))
            BY <2>4, <3>5, WithinUse, Zenon
        <3>3. now <= cache[t].at + CacheTTL + 1 /\ cache[t].at + CacheTTL + 1 \in Int
            BY <2>1, <3>1
        <3>4. Fresh(t) \in SUBSET Refs
            BY FreshRefs
        <3>. QED  BY <2>2, <2>4, <3>2, <3>3, <3>4, <3>5
    <2>. QED  BY <2>3, <2>4
<1>. QED  BY <1>1, <1>2, <1>3, PTL DEF Spec

-----------------------------------------------------------------------------
\* With room for every task no row is dropped.
LEMMA WriteRowKeeps ==
    ASSUME Calm, TypeInv, NEW t \in Tasks, NEW refs, NEW at, WriteRow(t, refs, at)
    PROVE  cache' = [cache EXCEPT ![t] = [refs |-> refs, at |-> at]]
<1>. DEFINE c == [cache EXCEPT ![t] = [refs |-> refs, at |-> at]]
            rows == {u \in Tasks : c[u] # NoRow}
<1>1. IsFiniteSet(Tasks) /\ MaxRows \in Nat
    BY TaskArtifactsAssumption
<1>2. rows \subseteq Tasks
    OBVIOUS
<1>. HIDE DEF c
<1>3. IsFiniteSet(rows) /\ Cardinality(rows) <= Cardinality(Tasks)
    BY <1>1, <1>2, FS_Subset
<1>4. Cardinality(rows) \in Nat /\ Cardinality(Tasks) \in Nat
    BY <1>1, <1>3, FS_CardinalityType
<1>5. Cardinality(rows) <= MaxRows
    BY <1>1, <1>3, <1>4 DEF Calm
<1>. USE DEF c
<1>. QED  BY <1>5 DEF WriteRow

\* In the beginning nothing was copied.
LEMMA InitCover == Init => CountInv /\ CoverInv
<1>. SUFFICES ASSUME Init PROVE CountInv /\ CoverInv
    OBVIOUS
<1>1. /\ made = {} /\ late = {} /\ \A p \in Polls : phase[p] = "idle"
      /\ \A t \in Tasks : memo[t] = NoMemo
    BY DEF Init
<1>. QED  BY <1>1 DEF CountInv, CoverInv, NoEarlyDuplicate

\* Steps that make no copy and let no poll begin to work.
LEMMA QuietCover ==
    ASSUME CountInv, CoverInv, UNCHANGED <<handler, cache, made, now>>, late' = {},
           \A q \in Polls : phase'[q] = "queued" => seen'[q] # {},
           \A q \in Polls : phase'[q] \in {"working", "writing"} =>
               phase'[q] = phase[q] /\ mine'[q] = mine[q] /\ stamp'[q] = stamp[q],
           \A q \in Polls : phase[q] = "writing" => phase'[q] = "writing",
           \A t \in Tasks : memo'[t] # NoMemo => memo'[t] = memo[t],
           \A a \in made : a.task \in Tasks
    PROVE  CountInv' /\ CoverInv'
<1>1. \A a \in made : Young(a)' = Young(a) /\ InRow(a)' = InRow(a)
    BY DEF Young, InRow
<1>2. CountInv'
    BY DEF CountInv, NoEarlyDuplicate, Copies
<1>3. ASSUME NEW q \in Polls, NEW a \in made, phase'[q] \in {"working", "writing"},
             a.task = Task[q], Young(a)'
      PROVE  a.output \in OutputsOf(mine'[q])
    BY <1>1, <1>3 DEF CoverInv
<1>4. ASSUME NEW a \in made, Young(a)', memo'[a.task] # NoMemo
      PROVE  a.output \in OutputsOf(memo'[a.task])
    BY <1>1, <1>4 DEF CoverInv
<1>5. ASSUME NEW a \in made, Young(a)' PROVE InRow(a)' \/ InHand(a)'
    BY <1>1, <1>5 DEF CoverInv, InHand
<1>6. \A t \in Tasks : handler'[t] = "vision_cv" => memo'[t] = NoMemo
    BY DEF CoverInv
<1>. QED  BY <1>2, <1>3, <1>4, <1>5, <1>6 DEF CoverInv

\* What the cache gives back has every young copy, unless a poll is about to
\* write the row.
LEMMA FreshCovers ==
    ASSUME TypeInv, CoverInv, NEW a \in made, Young(a), ~InHand(a)
    PROVE  a.output \in OutputsOf(Fresh(a.task))
<1>1. InRow(a) /\ a \in Refs /\ a.task \in Tasks
    BY DEF CoverInv, TypeInv, Refs
<1>2. cache[a.task].at \in Int /\ a.at \in Int /\ now \in Int /\ CacheTTL \in Int
    BY <1>1, TaskArtifactsAssumption DEF InRow, TypeInv, Rows, Refs
<1>3. ~(now - cache[a.task].at > CacheTTL)
    BY <1>1, <1>2 DEF InRow, Young
<1>. QED  BY <1>1, <1>3 DEF Fresh, InRow

\* A poll goes past the cache only with a memo, which has every young copy.
LEMMA EnterCover ==
    ASSUME TypeInv, LockInv, CountInv, CoverInv, NEW p \in Polls, Enter(p)
    PROVE  CountInv' /\ CoverInv'
<1>. DEFINE t == Task[p]
<1>0. t \in Tasks /\ handler[t] \in {"modelark", "vod", "vision_cv"}
    BY TaskArtifactsAssumption DEF TypeInv
<1>1. UNCHANGED <<handler, seen, stamp, memo, cache, made, late, now>>
    BY DEF Enter, diskVars
<1>2. \A q \in Polls : IF q = p
          THEN /\ mine'[q] = Remembered(p) /\ phase[q] = "queued"
               /\ phase'[q] = IF ReadsCache(p) THEN "reading" ELSE "working"
          ELSE phase'[q] = phase[q] /\ mine'[q] = mine[q]
    BY DEF Enter, Goto, TypeInv
<1>3. CASE ReadsCache(p)
    <2>1. \A a \in made : a.task \in Tasks
        BY DEF TypeInv, Refs
    <2>2. late' = {} /\ \A q \in Polls : phase'[q] = "queued" => seen'[q] # {}
        BY <1>1, <1>2, <1>3 DEF CountInv
    <2>. QED  BY <1>1, <1>2, <1>3, <2>1, <2>2, QuietCover
<1>4. CASE ~ReadsCache(p)
    <2>1. seen[p] # {}
        BY <1>2 DEF CountInv
    <2>2. Remembered(p) = memo[t] /\ memo[t] # NoMemo
        <3>1. CASE handler[t] = "modelark"
            BY <1>4, <3>1 DEF ReadsCache, Remembered
        <3>2. CASE handler[t] = "vod"
            <4>1. seen[p] \subseteq OutputsOf(Remembered(p))
                BY <1>4, <3>2 DEF ReadsCache
            <4>2. Remembered(p) # {}
                BY <2>1, <4>1 DEF OutputsOf
            <4>. QED  BY <4>2 DEF Remembered
        <3>3. CASE handler[t] = "vision_cv"
            BY <1>4, <3>3 DEF ReadsCache
        <3>. QED  BY <1>0, <3>1, <3>2, <3>3
    <2>3. \A a \in made : Young(a)' = Young(a) /\ InRow(a)' = InRow(a)
        BY <1>1 DEF Young, InRow
    <2>4. CountInv'
        BY <1>1, <1>2, <1>4 DEF CountInv, NoEarlyDuplicate, Copies
    <2>5. ASSUME NEW q \in Polls, NEW a \in made, phase'[q] \in {"working", "writing"},
                 a.task = Task[q], Young(a)
          PROVE  a.output \in OutputsOf(mine'[q])
        BY <1>2, <2>2, <2>5 DEF CoverInv
    <2>6. \A a \in made : InHand(a) => InHand(a)'
        BY <1>2 DEF InHand
    <2>. QED  BY <1>1, <2>3, <2>4, <2>5, <2>6 DEF CoverInv
<1>. QED  BY <1>3, <1>4

\* A poll that has read the cache knows every young copy.
LEMMA ReadCover ==
    ASSUME TypeInv, LockInv, CountInv, CoverInv, NEW p \in Polls, ReadCache(p)
    PROVE  CountInv' /\ CoverInv'
<1>. DEFINE t == Task[p]
            new == {a \in Fresh(t) : a.output \notin OutputsOf(mine[p])}
            refs == mine[p] \cup new
<1>0. t \in Tasks
    BY TaskArtifactsAssumption
<1>1. UNCHANGED <<handler, seen, stamp, cache, made, late, now>>
    BY DEF ReadCache, diskVars
<1>2. \A q \in Polls : IF q = p
          THEN mine'[q] = refs /\ phase[q] = "reading" /\ phase'[q] = "working"
          ELSE phase'[q] = phase[q] /\ mine'[q] = mine[q]
    BY DEF ReadCache, Remember, Goto, TypeInv
<1>3. \A u \in Tasks : memo'[u] = IF u = t /\ handler[u] # "vision_cv" THEN refs ELSE memo[u]
    BY DEF ReadCache, Remember, TypeInv
<1>4. ASSUME NEW a \in made, a.task = t, Young(a) PROVE a.output \in OutputsOf(refs)
    <2>1. ~InHand(a)
        BY <1>2, <1>4 DEF InHand, LockInv, Holding
    <2>2. a.output \in OutputsOf(Fresh(t))
        BY <1>4, <2>1, FreshCovers
    <2>3. \A b \in Fresh(t) : b \in new \/ b.output \in OutputsOf(mine[p])
        OBVIOUS
    <2>. QED  BY <2>2, <2>3 DEF OutputsOf
<1>. HIDE DEF refs
<1>5. \A a \in made : Young(a)' = Young(a) /\ InRow(a)' = InRow(a)
    BY <1>1 DEF Young, InRow
<1>6. CountInv'
    BY <1>1, <1>2 DEF CountInv, NoEarlyDuplicate, Copies
<1>7. ASSUME NEW q \in Polls, NEW a \in made, phase'[q] \in {"working", "writing"},
             a.task = Task[q], Young(a)
      PROVE  a.output \in OutputsOf(mine'[q])
    BY <1>2, <1>4, <1>7 DEF CoverInv
<1>8. ASSUME NEW a \in made, Young(a), memo'[a.task] # NoMemo
      PROVE  a.output \in OutputsOf(memo'[a.task])
    BY <1>3, <1>4, <1>8 DEF CoverInv, TypeInv, Refs
<1>9. \A a \in made : InHand(a) => InHand(a)'
    BY <1>2 DEF InHand
<1>10. \A u \in Tasks : handler'[u] = "vision_cv" => memo'[u] = NoMemo
    BY <1>1, <1>3 DEF CoverInv
<1>. QED  BY <1>1, <1>5, <1>6, <1>7, <1>8, <1>9, <1>10 DEF CoverInv

\* The output that is copied has no young copy, or the poll would know of it.
LEMMA PersistCover ==
    ASSUME TypeInv, LockInv, CountInv, CoverInv, NEW p \in Polls, Persist(p)
    PROVE  CountInv' /\ CoverInv'
<1>. DEFINE t == Task[p]
<1>0. t \in Tasks /\ now \in Int /\ CacheTTL \in Nat /\ \A b \in made : b \in Refs
    BY TaskArtifactsAssumption DEF TypeInv
<1>1. PICK o \in Todo(p) : Persist(p)!2!(o)
    BY Zenon DEF Persist
<1>. DEFINE a == NewCopy(t, o)
            refs == mine[p] \cup {a}
            n == Cardinality(Copies(t, o))
<1>2. /\ a \in Refs /\ a.task = t /\ a.output = o /\ a.copy = n /\ a.at = now
      /\ o \notin OutputsOf(mine[p])
    BY <1>0, NewCopyType DEF NewCopy, Todo, TypeInv
<1>3. IsFiniteSet(Copies(t, o)) /\ n \in Nat
    BY FS_Subset, FS_CardinalityType DEF TypeInv, Copies
<1>4. made' = made \cup {a} /\ Remember(p, refs)
    BY <1>1
<1>. HIDE DEF a
<1>5. UNCHANGED <<handler, seen, cache, late, now>>
    BY DEF Persist
<1>6. /\ phase[p] = "working"
      /\ \A q \in Polls : IF q = p
            THEN mine'[q] = refs /\ phase'[q] = "writing" /\ stamp'[q] = now
            ELSE phase'[q] = phase[q] /\ mine'[q] = mine[q] /\ stamp'[q] = stamp[q]
    BY <1>4 DEF Persist, Remember, Goto, TypeInv
<1>7. \A u \in Tasks : memo'[u] = IF u = t /\ handler[u] # "vision_cv" THEN refs ELSE memo[u]
    BY <1>4 DEF Remember, TypeInv
<1>8. \A b \in made : b.task = t /\ b.output = o => ~Young(b) /\ b.copy < n
    BY <1>2, <1>6 DEF CoverInv, CountInv
<1>9. a \notin made
    BY <1>2, <1>3, <1>8
<1>10. ASSUME NEW b \in made'
       PROVE  b.at <= now /\ b.copy < Cardinality(Copies(b.task, b.output)')
    <2>1. Copies(t, o)' = Copies(t, o) \cup {a}
        BY <1>2, <1>4 DEF Copies
    <2>2. a \notin Copies(t, o)
        BY <1>9 DEF Copies
    <2>3. Cardinality(Copies(t, o)') = n + 1
        BY <1>3, <2>1, <2>2, FS_AddElement
    <2>4. CASE b = a
        BY <1>0, <1>2, <1>3, <2>3, <2>4
    <2>5. CASE b \in made /\ b.task = t /\ b.output = o
        <3>1. b.copy \in Nat
            BY <1>0, <2>5 DEF Refs
        <3>. QED  BY <1>3, <1>8, <2>3, <2>5, <3>1 DEF CountInv
    <2>6. CASE b \in made /\ ~(b.task = t /\ b.output = o)
        <3>1. Copies(b.task, b.output)' = Copies(b.task, b.output)
            BY <1>2, <1>4, <2>6 DEF Copies
        <3>. QED  BY <2>6, <3>1 DEF CountInv
    <2>. QED  BY <1>4, <2>4, <2>5, <2>6
<1>11. NoEarlyDuplicate'
    <2>. SUFFICES ASSUME NEW b \in made', NEW c \in made', b.task = c.task,
                         b.output = c.output, b.copy < c.copy
                  PROVE  c.at - b.at > CacheTTL
        BY DEF NoEarlyDuplicate
    <2>1. CASE b \in made /\ c \in made
        BY <2>1 DEF CountInv, NoEarlyDuplicate
    <2>2. CASE b \in made /\ c = a
        <3>1. ~Young(b) /\ b.at \in Int
            BY <1>0, <1>2, <1>8, <2>2 DEF Refs
        <3>. QED  BY <1>0, <1>2, <2>2, <3>1 DEF Young
    <2>3. CASE b = a /\ c \in made
        <3>1. c.copy < n /\ c.copy \in Nat
            BY <1>0, <1>2, <1>8, <2>3 DEF Refs
        <3>. QED  BY <1>2, <1>3, <2>3, <3>1
    <2>4. CASE b = a /\ c = a
        BY <1>2, <1>3, <2>4
    <2>. QED  BY <1>4, <2>1, <2>2, <2>3, <2>4
<1>12. \A q \in Polls : q # p /\ Task[q] = t => phase[q] \notin Holding
    BY <1>6 DEF LockInv, Holding
<1>13. \A b \in made : b.at <= now
    BY DEF CountInv
<1>14. \A q \in Polls, b \in made' : phase'[q] = "writing" /\ b.task = Task[q] => b.at <= stamp'[q]
    <2>. SUFFICES ASSUME NEW q \in Polls, NEW b \in made', phase'[q] = "writing", b.task = Task[q]
                  PROVE  b.at <= stamp'[q]
        OBVIOUS
    <2>1. CASE q = p
        BY <1>6, <1>10, <2>1
    <2>2. CASE q # p
        <3>1. phase[q] = "writing" /\ stamp'[q] = stamp[q] /\ Task[q] # t
            BY <1>6, <1>12, <2>2 DEF Holding
        <3>2. b \in made
            BY <1>2, <1>4, <3>1
        <3>. QED  BY <3>1, <3>2 DEF CountInv
    <2>. QED  BY <2>1, <2>2
<1>15. CountInv'
    <2>1. late' = {} /\ \A q \in Polls : phase'[q] = "queued" => seen'[q] # {}
        BY <1>5, <1>6 DEF CountInv
    <2>. QED  BY <1>5, <1>10, <1>11, <1>14, <2>1 DEF CountInv
<1>16. \A b : Young(b)' = Young(b) /\ InRow(b)' = InRow(b)
    BY <1>5 DEF Young, InRow
<1>17. OutputsOf(refs) = OutputsOf(mine[p]) \cup {o}
    BY <1>2 DEF OutputsOf
<1>. HIDE DEF refs
<1>18. ASSUME NEW q \in Polls, NEW b \in made', phase'[q] \in {"working", "writing"},
              b.task = Task[q], Young(b)
       PROVE  b.output \in OutputsOf(mine'[q])
    <2>1. CASE q = p /\ b \in made
        BY <1>6, <1>17, <1>18, <2>1 DEF CoverInv
    <2>2. CASE q = p /\ b = a
        BY <1>2, <1>6, <1>17, <2>2
    <2>3. CASE q # p
        <3>1. phase[q] = phase'[q] /\ mine'[q] = mine[q] /\ Task[q] # t
            BY <1>6, <1>12, <1>18, <2>3 DEF Holding
        <3>2. b \in made
            BY <1>2, <1>4, <1>18, <3>1
        <3>. QED  BY <1>18, <3>1, <3>2 DEF CoverInv
    <2>. QED  BY <1>4, <2>1, <2>2, <2>3
<1>19. ASSUME NEW b \in made', Young(b), memo'[b.task] # NoMemo
       PROVE  b.output \in OutputsOf(memo'[b.task])
    <2>1. b.task \in Tasks
        BY <1>0, <1>2, <1>4 DEF Refs
    <2>2. CASE b.task = t /\ handler[t] # "vision_cv"
        <3>1. memo'[b.task] = refs /\ phase'[p] = "writing" /\ mine'[p] = refs
            BY <1>6, <1>7, <2>1, <2>2
        <3>. QED  BY <1>18, <1>19, <2>2, <3>1
    <2>3. CASE b.task = t /\ handler[t] = "vision_cv"
        <3>1. memo'[t] = memo[t] /\ memo[t] # NoMemo
            BY <1>7, <1>19, <2>1, <2>3
        <3>. QED  BY <1>0, <2>3, <3>1 DEF CoverInv
    <2>4. CASE b.task # t
        BY <1>2, <1>4, <1>7, <1>19, <2>1, <2>4 DEF CoverInv
    <2>. QED  BY <2>2, <2>3, <2>4
<1>20. ASSUME NEW b \in made', Young(b) PROVE InRow(b) \/ InHand(b)'
    <2>1. CASE b.task = t
        BY <1>6, <2>1 DEF InHand
    <2>2. CASE b.task # t
        <3>1. b \in made
            BY <1>2, <1>4, <2>2
        <3>2. InHand(b) => InHand(b)'
            BY <1>6 DEF InHand
        <3>. QED  BY <1>20, <3>1, <3>2 DEF CoverInv
    <2>. QED  BY <2>1, <2>2
<1>21. \A u \in Tasks : handler'[u] = "vision_cv" => memo'[u] = NoMemo
    BY <1>5, <1>7 DEF CoverInv
<1>. QED  BY <1>15, <1>16, <1>18, <1>19, <1>20, <1>21 DEF CoverInv

\* The row that is written has every young copy of the task.
LEMMA WriteCover ==
    ASSUME Calm, TypeInv, LockInv, CountInv, CoverInv, NEW p \in Polls, WriteCache(p)
    PROVE  CountInv' /\ CoverInv'
<1>. DEFINE t == Task[p]
            row == [refs |-> mine[p], at |-> stamp[p]]
<1>0. t \in Tasks /\ mine[p] \in SUBSET Refs /\ stamp[p] \in 0..MaxTime
    BY TaskArtifactsAssumption DEF TypeInv
<1>1. UNCHANGED <<handler, seen, mine, stamp, memo, made, late, now>>
    BY DEF WriteCache, entryVars
<1>2. /\ phase[p] = "writing"
      /\ \A q \in Polls : IF q = p THEN phase'[q] = "working" ELSE phase'[q] = phase[q]
    BY DEF WriteCache, Goto, TypeInv
<1>3. cache' = [cache EXCEPT ![t] = row]
    BY <1>0, WriteRowKeeps DEF WriteCache
<1>4. \A u \in Tasks : cache'[u] = IF u = t THEN row ELSE cache[u]
    BY <1>3 DEF TypeInv
<1>5. row # NoRow /\ row.refs = mine[p] /\ row.at = stamp[p]
    BY <1>0 DEF Calm, Rows
<1>. HIDE DEF row
<1>6. \A a \in made : a.task \in Tasks /\ Young(a)' = Young(a)
    BY <1>1 DEF TypeInv, Refs, Young
<1>7. CountInv'
    BY <1>1, <1>2 DEF CountInv, NoEarlyDuplicate, Copies
<1>8. ASSUME NEW a \in made, Young(a) PROVE InRow(a)' \/ InHand(a)'
    <2>1. CASE a.task = t
        <3>1. a.at <= stamp[p] /\ a.output \in OutputsOf(mine[p])
            BY <1>2, <1>8, <2>1 DEF CountInv, CoverInv
        <3>2. cache'[a.task] = row
            BY <1>4, <1>6, <2>1
        <3>3. cache'[a.task] # NoRow /\ cache'[a.task].at >= a.at
            BY <1>0, <1>5, <3>1, <3>2 DEF TypeInv, Refs
        <3>. QED  BY <1>5, <3>1, <3>2, <3>3 DEF InRow
    <2>2. CASE a.task # t
        <3>1. InHand(a) => InHand(a)'
            BY <1>2, <2>2 DEF InHand
        <3>2. InRow(a) => InRow(a)'
            BY <1>4, <1>6, <2>2 DEF InRow
        <3>. QED  BY <1>8, <3>1, <3>2 DEF CoverInv
    <2>. QED  BY <2>1, <2>2
<1>. QED  BY <1>1, <1>2, <1>6, <1>7, <1>8 DEF CoverInv

\* The clock makes no copy young.
LEMMA TickCover == ASSUME TypeInv, CountInv, CoverInv, Tick PROVE CountInv' /\ CoverInv'
<1>1. UNCHANGED <<handler, phase, seen, mine, stamp, memo, cache, made, late>> /\ now' = now + 1
    BY DEF Tick, pollVars, entryVars, diskVars
<1>2. \A a \in made : a.at \in Int /\ now \in Int /\ CacheTTL \in Int
    BY TaskArtifactsAssumption DEF TypeInv, Refs
<1>3. \A a \in made : Young(a)' => Young(a)
    BY <1>1, <1>2 DEF Young
<1>4. \A a \in made : a.at <= now'
    BY <1>1, <1>2 DEF CountInv
<1>5. CountInv'
    BY <1>1, <1>4 DEF CountInv, NoEarlyDuplicate, Copies
<1>6. \A a \in made : InRow(a)' = InRow(a) /\ InHand(a)' = InHand(a)
    BY <1>1 DEF InRow, InHand
<1>. QED  BY <1>1, <1>3, <1>5, <1>6 DEF CoverInv

\* A row that is pruned has no young copy in it.
LEMMA PruneCover == ASSUME TypeInv, CountInv, CoverInv, PruneCache PROVE CountInv' /\ CoverInv'
<1>. DEFINE old == {t \in Tasks : cache[t] # NoRow /\ cache[t].at < now - CacheTTL}
<1>1. UNCHANGED <<handler, phase, seen, mine, stamp, memo, made, late, now>>
    BY DEF PruneCache, pollVars, entryVars
<1>2. \A t \in Tasks : cache'[t] = IF t \in old THEN NoRow ELSE cache[t]
    BY DEF PruneCache
<1>3. CountInv'
    BY <1>1 DEF CountInv, NoEarlyDuplicate, Copies
<1>4. \A a \in made : Young(a)' = Young(a) /\ InHand(a)' = InHand(a)
    BY <1>1 DEF Young, InHand
<1>5. ASSUME NEW a \in made, Young(a), InRow(a) PROVE InRow(a)'
    <2>1. a.task \in Tasks /\ a.at \in Int /\ now \in Int /\ CacheTTL \in Int
        BY TaskArtifactsAssumption DEF TypeInv, Refs
    <2>2. cache[a.task].at \in Int
        BY <1>5, <2>1 DEF InRow, TypeInv, Rows
    <2>3. a.task \notin old
        BY <1>5, <2>1, <2>2 DEF InRow, Young
    <2>. HIDE DEF old
    <2>. QED  BY <1>2, <1>5, <2>1, <2>3 DEF InRow
<1>. QED  BY <1>1, <1>3, <1>4, <1>5 DEF CoverInv

\* Every step leaves the young copies known.
LEMMA NextCover ==
    ASSUME Calm, TypeInv, LockInv, CountInv, CoverInv, [Next]_vars
    PROVE  CountInv' /\ CoverInv'
<1>0. late = {} /\ \A a \in made : a.task \in Tasks
    BY DEF CountInv, TypeInv, Refs
<1>1. ASSUME NEW p \in Polls, Register(p) PROVE CountInv' /\ CoverInv'
    <2>1. UNCHANGED <<handler, mine, stamp, memo, cache, made, late, now>>
        BY <1>1 DEF Register, diskVars
    <2>2. \A q \in Polls : IF q = p THEN phase[q] = "idle" /\ phase'[q] = "queued"
                           ELSE phase'[q] = phase[q] /\ seen'[q] = seen[q]
        BY <1>1 DEF Register, Goto, TypeInv
    <2>3. seen'[p] # {}
        <3>1. PICK S \in IF handler[Task[p]] = "vision_cv" THEN {{Video}}
                         ELSE (SUBSET Outputs) \ {{}} : seen' = [seen EXCEPT ![p] = S]
            BY <1>1 DEF Register
        <3>2. S # {}
            OBVIOUS
        <3>. QED  BY <3>1, <3>2 DEF TypeInv
    <2>4. \A q \in Polls : phase'[q] = "queued" => seen'[q] # {}
        BY <2>2, <2>3 DEF CountInv
    <2>. QED  BY <1>0, <2>1, <2>2, <2>4, QuietCover
<1>2. ASSUME NEW p \in Polls, CopyFails(p) PROVE CountInv' /\ CoverInv'
    <2>1. UNCHANGED <<handler, phase, seen, mine, stamp, memo, cache, made, late, now>>
        BY <1>2 DEF CopyFails, entryVars, diskVars
    <2>2. \A q \in Polls : phase'[q] = "queued" => seen'[q] # {}
        BY <2>1 DEF CountInv
    <2>. QED  BY <1>0, <2>1, <2>2, QuietCover
<1>3. ASSUME NEW p \in Polls, Finish(p) PROVE CountInv' /\ CoverInv'
    <2>1. UNCHANGED <<handler, seen, mine, stamp, cache, made, late, now>>
        BY <1>3 DEF Finish, diskVars
    <2>2. \A q \in Polls : IF q = p THEN phase[q] = "working" /\ phase'[q] = "done"
                           ELSE phase'[q] = phase[q]
        BY <1>3 DEF Finish, Goto, TypeInv
    <2>3. \A t \in Tasks : memo'[t] # NoMemo => memo'[t] = memo[t]
        BY <1>3 DEF Finish, Leave, TypeInv
    <2>4. \A q \in Polls : phase'[q] = "queued" => seen'[q] # {}
        BY <2>1, <2>2 DEF CountInv
    <2>. QED  BY <1>0, <2>1, <2>2, <2>3, <2>4, QuietCover
<1>4. CASE DeleteExpired \/ UNCHANGED vars
    <2>1. UNCHANGED <<handler, phase, seen, mine, stamp, memo, cache, made, late, now>>
        BY <1>4 DEF DeleteExpired, vars, pollVars, entryVars, diskVars
    <2>2. \A q \in Polls : phase'[q] = "queued" => seen'[q] # {}
        BY <2>1 DEF CountInv
    <2>. QED  BY <1>0, <2>1, <2>2, QuietCover
<1>5. /\ \A p \in Polls : ~Cancel(p) /\ ~ReadFails(p) /\ ~WriteFails(p)
      /\ ~Crash /\ ~LateWrite
    BY <1>0 DEF Calm, Cancel, ReadFails, WriteFails, Crash, LateWrite
<1>. QED
    BY <1>1, <1>2, <1>3, <1>4, <1>5, EnterCover, ReadCover, PersistCover, WriteCover,
       TickCover, PruneCover
    DEF Next, Proceed, Terminated

\* Without cancellation, SQLite errors and restarts, and with room in the cache,
\* an output is copied again only when the cache row of the earlier copy has
\* outlived its TTL: for any polls, tasks, outputs and families.
THEOREM NoDuplicates ==
    ASSUME Calm
    PROVE  Spec => []NoEarlyDuplicate
<1>1. Init => TypeInv /\ LockInv /\ CountInv /\ CoverInv
    BY InitType, InitLock, InitCover
<1>2. TypeInv /\ LockInv /\ CountInv /\ CoverInv /\ [Next]_vars
      => (TypeInv /\ LockInv /\ CountInv /\ CoverInv)'
    BY NextType, NextLock, NextCover
<1>3. CountInv => NoEarlyDuplicate
    BY DEF CountInv
<1>. QED  BY <1>1, <1>2, <1>3, PTL DEF Spec

-----------------------------------------------------------------------------
\* The invariant of the lock registry.
LEMMA LockHolds == Spec => [](TypeInv /\ LockInv)
<1>1. Init => TypeInv /\ LockInv
    BY InitType, InitLock
<1>2. TypeInv /\ LockInv /\ [Next]_vars => (TypeInv /\ LockInv)'
    BY NextType, NextLock
<1>. QED  BY <1>1, <1>2, PTL DEF Spec

\* TaskArtifactPersistenceLocks.acquire: a poll that has gone, finished, failed,
\* cancelled in the queue or inside the lock, or lost in a crash, has left
\* neither a registration nor a held lock, and the memo is dropped with the
\* last user; for any number of polls and tasks.
THEOREM EntriesAgree == Spec => []EntriesMatchPolls
<1>1. TypeInv /\ LockInv => EntriesMatchPolls
    <2>. SUFFICES ASSUME TypeInv, LockInv PROVE EntriesMatchPolls
        OBVIOUS
    <2>1. NoPoll \notin Polls
        BY TaskArtifactsAssumption
    <2>2. \A t \in Tasks : /\ users[t] = {p \in Polls : Task[p] = t /\ phase[p] \in Active}
                           /\ users[t] = {} => memo[t] = NoMemo
        BY DEF LockInv
    <2>3. ASSUME NEW t \in Tasks, NEW p \in users[t]
          PROVE  phase[p] \in Holding <=> holder[t] = p
        <3>1. p \in Polls /\ Task[p] = t
            BY <2>2
        <3>. QED  BY <2>1, <3>1 DEF LockInv
    <2>. QED  BY <2>2, <2>3 DEF EntriesMatchPolls, Holding
<1>. QED  BY <1>1, LockHolds, PTL

\* Polls that overlap store each output once, through any chain of failures and
\* cancellations; NoMemo has to be told from a set of references.
THEOREM StoredOncePerFlight ==
    ASSUME NoMemo \notin SUBSET Refs
    PROVE  Spec => []OncePerFlight
<1>1. Init => TypeInv /\ LockInv /\ MemoInv
    BY InitType, InitLock
<1>2. TypeInv /\ LockInv /\ MemoInv /\ [Next]_vars => (TypeInv /\ LockInv /\ MemoInv)'
    BY NextType, NextLock, NextMemo
<1>3. MemoInv => OncePerFlight
    BY DEF MemoInv
<1>. QED  BY <1>1, <1>2, <1>3, PTL DEF Spec
=============================================================================
