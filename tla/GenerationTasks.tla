-------------------------- MODULE GenerationTasks --------------------------
(***************************************************************************)
(* Asynchronous ModelArk tasks after their creation was billed: the        *)
(* ownership store (runtime.SQLiteTaskOwnershipStore) and the three tools   *)
(* that read it and the provider, gen_task_list with its keyset paging,    *)
(* gen_task_get, and gen_task_cancel_or_delete.                            *)
(*                                                                         *)
(* A behaviour has one session: a listing followed from its first cursor   *)
(* to its last, a poll, or a cancellation.  Around it tasks are created,   *)
(* run, end and are removed, rows are recorded and pruned, days pass.      *)
(***************************************************************************)
EXTENDS Integers, FiniteSets

CONSTANTS
    Tasks,          \* task IDs; their order is that of the IDs
    Principals,
    Local,          \* the principals of the local transport (is_local)
    Author,         \* Author[t]: who asks for t
    Filters,        \* values of the status filter in this model
    Ends,           \* the statuses that a task of this model ends in
    PageSize,       \* page_size
    SliceSize,      \* OWNED_SLICE_SIZE
    MaxSlices,      \* MAX_SLICES_PER_PAGE
    Window,         \* LIST_WINDOW, in days
    Retention,      \* STATE_PRUNE_MAX_AGE_DAYS
    MaxAttempts,    \* RetryPolicy.max_attempts
    MaxNow,         \* bound: the model covers days 0..MaxNow
    MaxChanges,     \* bound: so often a task changes by itself or a row is not written
    Nobody, NoCursor

Terminal  == {"succeeded", "failed", "expired", "cancelled"}
Deletable == {"succeeded", "failed", "expired"}

ASSUME GenerationTasksAssumption ==
    /\ Tasks \subseteq Nat /\ IsFiniteSet(Tasks)
    /\ Local \subseteq Principals /\ Nobody \notin Principals
    /\ NoCursor \notin [at : Nat, id : Tasks]
    /\ Author \in [Tasks -> Principals]
    /\ Filters \subseteq {"any", "queued", "running"} \cup Terminal
    /\ Ends \subseteq {"succeeded", "failed", "expired"}
    /\ {PageSize, SliceSize, MaxSlices, MaxAttempts} \subseteq Nat \ {0}
    /\ {Window, Retention, MaxNow, MaxChanges} \subseteq Nat

VARIABLES
    now,
    status,      \* status[t] at the provider; "none" before, "deleted" after
    born,        \* day the provider created t
    changes,     \* number of such changes so far
    creating,    \* creating[t]: what became of the call that created t
    owner,       \* owner[t]: principal of its task_ownership row, or Nobody
    recordedOn,  \* created_at of that row
    session,     \* what is being done, by whom, and the await it is in
    listing,     \* state of a listing
    seen,        \* seen[t]: how often the listing has returned t
    steady,      \* tasks that should have been listable ever since it began
    calm,        \* TRUE: no task has ceased to be listable since then
    poll,        \* state of a poll
    kill,        \* state of a cancel or delete call
    destroyed    \* every task it has cancelled or deleted, in which status

providerVars == <<status, born, changes>>
ownerVars    == <<owner, recordedOn>>
createVars   == <<providerVars, creating, ownerVars>>
callVars     == <<listing, seen, poll, kill, destroyed>>
vars == <<now, createVars, session, callVars, steady, calm>>

Idle == [does |-> "nothing", who |-> Nobody, pc |-> "idle"]

Init ==
    /\ now = 0
    /\ status = [t \in Tasks |-> "none"]
    /\ born = [t \in Tasks |-> 0]
    /\ changes = 0
    /\ creating = [t \in Tasks |-> "no"]
    /\ owner = [t \in Tasks |-> Nobody]
    /\ recordedOn = [t \in Tasks |-> 0]
    /\ session = Idle
    /\ listing = [filter |-> "any", cursor |-> NoCursor, before |-> NoCursor,
                  since |-> 0, slices |-> 0, rows |-> {}, page |-> {}, number |-> 1]
    /\ seen = [t \in Tasks |-> 0]
    /\ poll = [asked |-> {}, owned |-> {}, found |-> <<>>, refetch |-> {}, errors |-> {}]
    /\ kill = [task |-> 0, mode |-> "none", expected |-> "none", attempt |-> 0]
    /\ destroyed = {}
    /\ steady = {} /\ calm = TRUE

Goto(l) == session' = [session EXCEPT !.pc = l]

In(what, l) == session.does = what /\ session.pc = l

-----------------------------------------------------------------------------
(* The provider, as the tools see it.                                      *)

Exists(t) == status[t] \notin {"none", "deleted"}

Selects(filter, t) == filter \in {"any", status[t]}

\* GET /contents/generations/tasks returns the tasks of the last days.
Shown(filter) == {t \in Tasks : Exists(t) /\ Selects(filter, t) /\ born[t] >= now - Window}

Change(t, s) ==
    /\ changes < MaxChanges
    /\ changes' = changes + 1
    /\ status' = [status EXCEPT ![t] = s]
    /\ UNCHANGED <<now, born, creating, ownerVars, session, callVars>>

Progress(t) ==
    \/ status[t] = "queued" /\ \E s \in {"running"} \cup Ends : Change(t, s)
    \/ status[t] = "running" /\ \E s \in Ends : Change(t, s)

\* Removed from somewhere else: the console, another server.
Vanish(t) == status[t] \in Deletable /\ Change(t, "deleted")

Tick ==
    /\ now < MaxNow
    /\ now' = now + 1
    /\ UNCHANGED <<createVars, session, callVars>>

-----------------------------------------------------------------------------
(* Creation and the ownership store.                                       *)

\* The billed call is over: the provider has the task.
Create(t) ==
    /\ status[t] = "none"
    /\ status' = [status EXCEPT ![t] = "queued"]
    /\ born' = [born EXCEPT ![t] = now]
    /\ creating' = [creating EXCEPT ![t] = "recording"]
    /\ UNCHANGED <<now, changes, ownerVars, session, callVars>>

\* record(): the row is written.
Record(t) ==
    /\ creating[t] = "recording"
    /\ owner' = [owner EXCEPT ![t] = Author[t]]
    /\ recordedOn' = [recordedOn EXCEPT ![t] = now]
    /\ creating' = [creating EXCEPT ![t] = "returned"]
    /\ UNCHANGED <<now, providerVars, session, callVars>>

\* The provider's answer is lost, SQLite raises, the call is cancelled before its
\* thread starts, or the process dies; or it is cancelled, or dies, with the row written.
RecordFails(t) ==
    /\ creating[t] = "recording" /\ changes < MaxChanges
    /\ changes' = changes + 1
    /\ creating' = [creating EXCEPT ![t] = "lost"]
    /\ \/ UNCHANGED ownerVars
       \/ /\ owner' = [owner EXCEPT ![t] = Author[t]]
          /\ recordedOn' = [recordedOn EXCEPT ![t] = now]
    /\ UNCHANGED <<now, status, born, session, callVars>>

\* Mutant of Prune: a row goes on the last day it is to be kept.
PruneEarly ==
    LET old == {t \in Tasks : owner[t] # Nobody /\ recordedOn[t] <= now - Retention} IN
    /\ old # {}
    /\ owner' = [t \in Tasks |-> IF t \in old THEN Nobody ELSE owner[t]]
    /\ UNCHANGED <<now, providerVars, creating, recordedOn, session, callVars>>

\* prune(), run by the sweeper
Prune ==
    LET old == {t \in Tasks : owner[t] # Nobody /\ recordedOn[t] < now - Retention} IN
    /\ old # {}
    /\ owner' = [t \in Tasks |-> IF t \in old THEN Nobody ELSE owner[t]]
    /\ UNCHANGED <<now, providerVars, creating, recordedOn, session, callVars>>

\* Mutant of Permitted: what nobody owns is anybody's.
PermittedUnowned(p, t) == owner[t] \in {p, Nobody}

\* require_owner()
Permitted(p, t) == owner[t] = p \/ (owner[t] = Nobody /\ p \in Local)

-----------------------------------------------------------------------------
(* gen_task_list.                                                          *)

\* Newest first; (created_at, task_id) is the key.
Newer(t, u) ==
    \/ recordedOn[t] > recordedOn[u]
    \/ (recordedOn[t] = recordedOn[u] /\ t > u)

\* A cursor keeps its key when the row it was made of is gone.
Position(t) == [at |-> recordedOn[t], id |-> t]

\* Mutant of After: the ID does not break ties.
AfterWithoutId(t, cursor) == cursor = NoCursor \/ recordedOn[t] < cursor.at

After(t, cursor) ==
    \/ cursor = NoCursor
    \/ recordedOn[t] < cursor.at
    \/ (recordedOn[t] = cursor.at /\ t < cursor.id)

\* list_owned_tasks()
OwnedRows(p, since, cursor) ==
    {t \in Tasks : owner[t] = p /\ recordedOn[t] >= since /\ After(t, cursor)}

\* The first n of a set of rows.
FirstOf(rows, n) ==
    {t \in rows : Cardinality({u \in rows : Newer(u, t)}) < n}

OldestOf(rows) == CHOOSE t \in rows : \A u \in rows \ {t} : Newer(u, t)

\* What a listing of p may return.
Listable(p, filter) ==
    IF p \in Local THEN Shown(filter)
    ELSE {t \in Shown(filter) : owner[t] = p /\ recordedOn[t] >= now - Window}

ListStart(p) ==
    /\ session = Idle
    /\ session' = [does |-> "list", who |-> p, pc |-> IF p \in Local THEN "local" ELSE "page"]
    /\ \E f \in Filters : listing' = [listing EXCEPT !.filter = f]
    /\ UNCHANGED <<now, createVars, seen, poll, kill, destroyed>>

\* A call with the client's cursor begins.
PageStart ==
    /\ In("list", "page")
    /\ Goto("slice")
    /\ listing' = [listing EXCEPT !.since = now - Window, !.slices = 0,
                                  !.page = {}, !.before = listing.cursor]
    /\ UNCHANGED <<now, createVars, seen, poll, kill, destroyed>>

Return(tasks) == seen' = [t \in Tasks |-> seen[t] + IF t \in tasks THEN 1 ELSE 0]

ReadSlice ==
    LET rows == OwnedRows(session.who, listing.since, listing.before) IN
    /\ In("list", "slice")
    /\ IF rows = {}
       THEN Goto("end") /\ Return(listing.page) /\ UNCHANGED listing
       ELSE /\ Goto("fetch")
            /\ listing' = [listing EXCEPT !.rows = FirstOf(rows, SliceSize)]
            /\ UNCHANGED seen
    /\ UNCHANGED <<now, createVars, poll, kill, destroyed>>

\* A page that is full is continued after the last task it returned.
CursorOf(rows, taken) == Position(OldestOf(taken))

\* The provider's answer for the slice is worked through until the page is full.
\* (created_at of a row never changes, so the rows of the slice keep their order.)
FetchSlice ==
    LET rows  == listing.rows
        room  == PageSize - Cardinality(listing.page)
        found == rows \cap Shown(listing.filter)
        taken == FirstOf(found, room)
        page  == listing.page \cup taken
        last  == Position(OldestOf(rows))
    IN  /\ In("list", "fetch")
        /\ IF Cardinality(taken) = room
           THEN /\ Goto("page") /\ Return(page)
                /\ listing' = [listing EXCEPT !.cursor = CursorOf(rows, taken), !.rows = {}]
           ELSE IF Cardinality(rows) < SliceSize
           THEN Goto("end") /\ Return(page) /\ UNCHANGED listing
           ELSE IF listing.slices + 1 = MaxSlices
           THEN /\ Goto("page") /\ Return(page)
                /\ listing' = [listing EXCEPT !.cursor = last, !.rows = {}]
           ELSE /\ Goto("slice") /\ UNCHANGED seen
                /\ listing' = [listing EXCEPT !.page = page, !.before = last, !.rows = {},
                                              !.slices = @ + 1]
        /\ UNCHANGED <<now, createVars, poll, kill, destroyed>>

\* The call fails, what its page had is dropped, the client uses its cursor again.
FetchFails ==
    /\ In("list", "fetch")
    /\ Goto("page")
    /\ listing' = [listing EXCEPT !.rows = {}]
    /\ UNCHANGED <<now, createVars, seen, poll, kill, destroyed>>

\* _list_local: the provider's own pages, by number.
LocalPage ==
    LET shown == Shown(listing.filter)
        Rank(t) == Cardinality({u \in shown : born[u] > born[t] \/ (born[u] = born[t] /\ u > t)})
        page  == {t \in shown : /\ Rank(t) >= (listing.number - 1) * PageSize
                                /\ Rank(t) < listing.number * PageSize}
    IN  /\ In("list", "local")
        /\ Return(page)
        \* has_more, or whether the page is full when the provider does not say
        /\ \E more \in {Cardinality(shown) > listing.number * PageSize,
                        Cardinality(page) = PageSize} :
              IF more
              THEN listing' = [listing EXCEPT !.number = @ + 1] /\ UNCHANGED session
              ELSE Goto("end") /\ UNCHANGED listing
        /\ UNCHANGED <<now, createVars, poll, kill, destroyed>>

-----------------------------------------------------------------------------
(* gen_task_get.                                                           *)

PollStart(p, asked) ==
    /\ session = Idle
    /\ session' = [does |-> "poll", who |-> p, pc |-> "list"]
    /\ LET owned == {t \in asked : Permitted(p, t)} IN
       poll' = [poll EXCEPT !.asked = asked, !.owned = owned, !.errors = asked \ owned]
    /\ UNCHANGED <<now, createVars, listing, seen, kill, destroyed>>

\* Mutant of Unanswered: what the list does not have does not exist.
UnansweredIncomplete(found) ==
    {t \in DOMAIN found : found[t] = "succeeded"}

\* What must be fetched one by one: tasks the list lacks; of the succeeded ones
\* those that it shows without their outputs.
Unanswered(found) ==
    {t \in poll.owned : t \notin DOMAIN found \/ found[t] = "succeeded"}

\* _fetch_tasks: the list first.  Nothing is asked for no task.
PollList ==
    LET found == [t \in poll.owned \cap Shown("any") |-> status[t]] IN
    /\ In("poll", "list")
    /\ \E bare \in SUBSET Unanswered(found) :
          /\ Unanswered(found) \ DOMAIN found \subseteq bare
          /\ poll' = [poll EXCEPT !.found = found, !.refetch = bare]
    /\ Goto("fetch")
    /\ UNCHANGED <<now, createVars, listing, seen, kill, destroyed>>

PollListFails ==
    /\ In("poll", "list") /\ poll.owned # {}
    /\ Goto("failed")
    /\ UNCHANGED <<now, createVars, callVars>>

Without(f, t) == [u \in DOMAIN f \ {t} |-> f[u]]

\* One of the parallel get_task() calls ends.
Refetch(t) ==
    /\ In("poll", "fetch") /\ t \in poll.refetch
    /\ \/ /\ Exists(t)
          /\ poll' = [poll EXCEPT !.refetch = @ \ {t},
                                  !.found = [u \in DOMAIN @ \cup {t} |->
                                                IF u = t THEN status[t] ELSE @[u]]]
       \/ poll' = [poll EXCEPT !.refetch = @ \ {t}, !.found = Without(@, t), !.errors = @ \cup {t}]
    /\ UNCHANGED <<now, createVars, session, listing, seen, kill, destroyed>>

PollAnswer ==
    /\ In("poll", "fetch") /\ poll.refetch = {}
    /\ Goto("answered")
    /\ UNCHANGED <<now, createVars, callVars>>

AllTerminal == \A t \in DOMAIN poll.found : poll.found[t] \in Terminal

-----------------------------------------------------------------------------
(* gen_task_cancel_or_delete.                                              *)

\* The input model admits a cancel of "queued" and a delete of a finished task.
KillStart(p, t) ==
    /\ session = Idle
    /\ IF Permitted(p, t)
       THEN \E s \in {"queued"} \cup Deletable :
              /\ session' = [does |-> "kill", who |-> p, pc |-> "check"]
              /\ kill' = [task |-> t, expected |-> s, attempt |-> 0,
                          mode |-> IF s = "queued" THEN "cancel" ELSE "delete"]
       ELSE session' = [does |-> "kill", who |-> p, pc |-> "refused"] /\ UNCHANGED kill
    /\ UNCHANGED <<now, createVars, listing, seen, poll, destroyed>>

\* Mutant of AsExpected: any deletable status will do for a delete.
AsExpectedRoughly == IF kill.mode = "delete" THEN status[kill.task] # "running"
                     ELSE status[kill.task] = kill.expected

AsExpected == status[kill.task] = kill.expected

Check ==
    /\ In("kill", "check")
    /\ \/ /\ AsExpected
          /\ Goto("delete")
          /\ kill' = [kill EXCEPT !.attempt = 1]
       \/ /\ ~AsExpected
          /\ Goto("refused") /\ UNCHANGED kill
       \/ Goto("failed") /\ UNCHANGED kill
    /\ UNCHANGED <<now, createVars, listing, seen, poll, destroyed>>

\* DELETE reaches the provider, which cancels what is queued and deletes what has
\* ended; it refuses the rest.
Apply ==
    LET was == status[kill.task] IN
    /\ was \in {"queued"} \cup Deletable
    /\ status' = [status EXCEPT ![kill.task] = IF was = "queued" THEN "cancelled" ELSE "deleted"]
    /\ destroyed' = destroyed \cup
         {[task |-> kill.task, mode |-> kill.mode, expected |-> kill.expected, was |-> was]}

\* The request is repeated after an error that is retryable and not ambiguous; a
\* connection that breaks after the request counts as one.
MayRetry == kill.attempt < MaxAttempts

Delete ==
    /\ In("kill", "delete")
    /\ \/ Apply /\ Goto("done") /\ UNCHANGED kill
       \/ /\ Apply \/ UNCHANGED <<status, destroyed>>
          /\ \/ Goto("failed") /\ UNCHANGED kill
             \/ MayRetry /\ kill' = [kill EXCEPT !.attempt = @ + 1] /\ UNCHANGED session
    /\ UNCHANGED <<now, born, changes, creating, ownerVars, listing, seen, poll>>

-----------------------------------------------------------------------------
Over == session.pc \in {"end", "answered", "done", "refused", "failed"}

\* The model ends with the session.
World ==
    /\ ~Over
    /\ \/ Prune
       \/ Tick
       \/ \E t \in Tasks : \/ Create(t) \/ Record(t) \/ RecordFails(t)
                           \/ Progress(t) \/ Vanish(t)

ListStep == PageStart \/ ReadSlice \/ FetchSlice \/ LocalPage

PollStep == PollList \/ PollListFails \/ PollAnswer \/ \E t \in Tasks : Refetch(t)

\* A session is begun, as long as there is a task to speak of.
Begin == \E p \in Principals :
            \/ ListStart(p)
            \/ \E asked \in SUBSET Tasks \ {{}} : PollStart(p, asked)
            \/ \E t \in Tasks : KillStart(p, t)

Step == World \/ Begin \/ ListStep \/ FetchFails \/ PollStep \/ Check \/ Delete

\* What the listing is held against.
Current == Listable(session.who, listing.filter)

Witness ==
    IF session'.does # "list" THEN UNCHANGED <<steady, calm>>
    ELSE IF session.does # "list" THEN steady' = Current' /\ calm' = TRUE
    ELSE /\ steady' = steady \cap Current'
         /\ calm' = (calm /\ Current \subseteq Current')

Next == Step /\ Witness

Spec == Init /\ [][Next]_vars

-----------------------------------------------------------------------------
Statuses == {"none", "queued", "running", "deleted"} \cup Terminal
Cursors  == [at : 0..MaxNow, id : Tasks] \cup {NoCursor}

TypeOK ==
    /\ now \in 0..MaxNow
    /\ status \in [Tasks -> Statuses] /\ born \in [Tasks -> 0..MaxNow]
    /\ changes \in 0..MaxChanges
    /\ creating \in [Tasks -> {"no", "recording", "returned", "lost"}]
    /\ owner \in [Tasks -> Principals \cup {Nobody}] /\ recordedOn \in [Tasks -> 0..MaxNow]
    /\ session \in [does : {"nothing", "list", "poll", "kill"},
                    who : Principals \cup {Nobody},
                    pc : {"idle", "page", "slice", "fetch", "local", "end", "list", "answered",
                          "check", "delete", "done", "refused", "failed"}]
    /\ listing.cursor \in Cursors /\ listing.before \in Cursors
    /\ listing.rows \subseteq Tasks /\ listing.page \subseteq Tasks
    /\ Cardinality(listing.rows) <= SliceSize /\ Cardinality(listing.page) <= PageSize
    /\ listing.slices \in 0..MaxSlices - 1
    /\ seen \in [Tasks -> Nat]
    /\ poll.owned \subseteq poll.asked /\ poll.errors \subseteq poll.asked
    /\ poll.refetch \subseteq poll.owned
    /\ kill.attempt \in 0..MaxAttempts
    /\ steady \subseteq Tasks /\ calm \in BOOLEAN

Ended(what) == session.does = what /\ session.pc = "end"

\* A task whose creation was answered can be found by the principal that asked for
\* it, until retention removes its row.
ReturnedIsOwned ==
    \A t \in Tasks :
        creating[t] = "returned" /\ recordedOn[t] >= now - Retention => owner[t] = Author[t]

\* A remote principal never sees, lists, cancels or deletes what another asked for:
\* not even a task whose row was never written, or is gone.
NothingForeign ==
    session.who \in Principals \ Local =>
        \A t \in Tasks :
            \/ seen[t] > 0 \/ t \in DOMAIN poll.found \/ t \in {d.task : d \in destroyed}
            => Author[t] = session.who

\* Followed from cursor to cursor, a listing never returns a task twice, and at its
\* end it has returned every task that could be listed all the while, whatever is
\* created, ends or is removed in between and wherever pages and slices cut.  The
\* local transport pages by number: it may repeat a task, and misses none only while
\* nothing leaves the list.
ListingExact ==
    /\ session.who \in Principals \ Local => \A t \in Tasks : seen[t] <= 1
    /\ Ended("list") /\ (session.who \in Local => calm) => \A t \in steady : seen[t] > 0

\* Every task that was asked about is answered for, as found or as an error, and
\* all_terminal without errors is the truth: none of them will still change.
PollAnswersAll ==
    session.pc = "answered" =>
        /\ poll.asked = DOMAIN poll.found \cup poll.errors
        /\ DOMAIN poll.found \cap poll.errors = {}
        /\ AllTerminal /\ poll.errors = {} =>
              \A t \in poll.asked : status[t] \in Terminal \cup {"deleted"}

\* A delete only ever deletes a task in the status the caller expected, though the
\* task may change between the check and the request and the request is repeated.
DeletesAsExpected == \A d \in destroyed : d.mode = "delete" => d.was = d.expected
=============================================================================
