----------------------------- MODULE BilledCall -----------------------------
(***************************************************************************)
(* One server process, its budget ledger, its two layers of concurrency    *)
(* limits, and the billed provider calls that go through them             *)
(* (runtime.billed_provider_slot around providers.retry.call_with_retry).  *)
(*                                                                         *)
(* Every call is an asyncio task; pc[c] is the await it is suspended in.   *)
(* A ledger operation is a job of its own: it waits for the ledger's       *)
(* asyncio.Lock and then runs its SQL in a worker thread (_run_locked).    *)
(* Cancelling a task that awaits a job gives the lock back at once, but a  *)
(* thread that has started runs on: such a job runs with lock # c.         *)
(***************************************************************************)
EXTENDS Spending

CONSTANTS
    Principals,
    Local,           \* the principals of the local transport (is_local)
    Owner,           \* Owner[c]: the principal of call c
    Providers,
    Provider,        \* Provider[c]: the provider bucket call c goes to
    ProviderLimit,   \* PROVIDER_MAX_CONCURRENCY
    PrincipalLimit,  \* PRINCIPAL_MAX_CONCURRENCY
    RejectMode,      \* DAILY_BUDGET_USD is set (otherwise record-only)
    DailyLimit,      \* DAILY_BUDGET_USD, in units
    MaxAttempts,     \* RetryPolicy.max_attempts
    Outcomes,        \* the ways a provider request may end in this model
    LedgerMayFail,   \* TRUE: SQLite may raise (database is locked, disk full)
    MayCrash,        \* TRUE: the process may die and be restarted
    MaxDay,          \* bound: the model covers days 1..MaxDay
    PruneAge,        \* STATE_PRUNE_MAX_AGE_DAYS
    NoCall           \* the free ledger lock

\* What a create/generate request can come to, as the gateways classify it.
AllOutcomes == {"ok", "client_error", "throttled", "server_error", "timeout",
                "connect_error", "transport_error", "invalid_response"}

ASSUME BilledCallAssumption ==
    /\ Local \subseteq Principals
    /\ Owner \in [Calls -> Principals]
    /\ Provider \in [Calls -> Providers]
    /\ ProviderLimit \in Nat \ {0}
    /\ PrincipalLimit \in Nat \ {0}
    /\ RejectMode \in BOOLEAN
    /\ DailyLimit \in Nat
    /\ MaxAttempts \in Nat \ {0}
    /\ Outcomes \subseteq AllOutcomes
    /\ LedgerMayFail \in BOOLEAN
    /\ MayCrash \in BOOLEAN
    /\ MaxDay \in Nat \ {0}
    /\ PruneAge \in Nat \ {0}
    /\ NoCall \notin Calls

VARIABLES
    pc,             \* pc[c]: the await that the coroutine of c is suspended in
    op,             \* op[c]: the statement its ledger job executes
    at,             \* at[c]: how far that job is
    lock,           \* the call whose job holds BudgetLedger._lock, or NoCall
    row,            \* row[c]: status of the budget_reservations row of c
    day,            \* day[c]: its usage_date, fixed when reserve() is entered
    holding,        \* holding[c]: reserve() has returned the reservation to c
    providerFree,   \* value of the provider's semaphore
    principalFree,  \* value of the principal's semaphore
    attempt,        \* attempt[c]: which request of call_with_retry is the last
    accepted,       \* accepted[c]: requests of c the provider has acted on
    today           \* the UTC date

taskVars == <<pc, attempt, holding>>
jobVars  == <<op, at, lock>>
slotVars == <<providerFree, principalFree>>
vars == <<taskVars, jobVars, slotVars, row, day, accepted, today>>

\* The coroutine has ended: returned, raised, was cancelled, or its process died.
Ended == {"done", "failed", "rejected", "broken", "cancelled", "dead"}

\* The body of the slot runs: dispatched is TRUE in billed_provider_slot.
Dispatched == {"inflight", "backoff"}

PCs == {"idle", "reserve", "provider", "principal", "else", "except", "shield"}
          \cup Dispatched \cup Ended

Ops == {"none", "reserve", "commit", "release"}

\* The worker thread of a job has been started.
Running == {"select", "insert", "update"}

Rows == {"none", "reserved", "committed", "released", "pruned"}

-----------------------------------------------------------------------------
(* Classification of the outcomes: retryable and ambiguous_completion of   *)
(* the errors the gateway raises for a mutation, and whether the provider  *)
(* can have acted on the request.                                          *)

Retryable == {"throttled", "server_error", "connect_error", "transport_error"}
Ambiguous == {"server_error", "timeout"}

MayHaveActed(outcome) ==
    CASE outcome \in {"ok", "invalid_response"}                      -> {1}
      [] outcome \in {"server_error", "timeout", "transport_error"}  -> {0, 1}
      [] outcome \in {"client_error", "throttled", "connect_error"}  -> {0}

-----------------------------------------------------------------------------
Init ==
    /\ pc = [c \in Calls |-> "idle"]
    /\ op = [c \in Calls |-> "none"]
    /\ at = [c \in Calls |-> "idle"]
    /\ lock = NoCall
    /\ row = [c \in Calls |-> "none"]
    /\ day = [c \in Calls |-> 0]
    /\ holding = [c \in Calls |-> FALSE]
    /\ providerFree = [p \in Providers |-> ProviderLimit]
    /\ principalFree = [o \in Principals |-> PrincipalLimit]
    /\ attempt = [c \in Calls |-> 0]
    /\ accepted = [c \in Calls |-> 0]
    /\ today = 1

-----------------------------------------------------------------------------
(* The ledger and its jobs.                                                *)

\* What SELECT SUM(amount_usd) adds up for principal o on day d.
Counted(o, d) ==
    {c \in Calls : /\ Owner[c] = o
                   /\ day[c] = d
                   /\ row[c] \in {"reserved", "committed"}}

\* A job that runs statement o starts waiting for the ledger lock.
Enqueue(c, o) ==
    /\ op' = [op EXCEPT ![c] = o]
    /\ at' = [at EXCEPT ![c] = "queued"]

\* The job of c ends; `async with lock` is left if it is still inside.
EndJob(c) ==
    /\ op' = [op EXCEPT ![c] = "none"]
    /\ at' = [at EXCEPT ![c] = "idle"]
    /\ lock' = IF lock = c THEN NoCall ELSE lock

Goto(c, l) == pc' = [pc EXCEPT ![c] = l]

\* The lock is granted and the SQL handed to a thread.
LockLedger(c) ==
    /\ at[c] = "queued"
    /\ lock = NoCall
    /\ lock' = c
    /\ at' = [at EXCEPT ![c] = IF op[c] = "reserve" THEN "select" ELSE "update"]
    /\ UNCHANGED <<taskVars, op, slotVars, row, day, accepted, today>>

\* Mutant of SelectSum: the call's own estimate is forgotten in the comparison.
SelectSumWithoutOwn(c) ==
    /\ at[c] = "select"
    /\ IF RejectMode /\ Spend(Counted(Owner[c], day[c])) > DailyLimit
       THEN /\ EndJob(c)
            /\ IF pc[c] = "reserve" THEN Goto(c, "rejected") ELSE UNCHANGED pc
       ELSE /\ at' = [at EXCEPT ![c] = "insert"]
            /\ UNCHANGED <<op, lock, pc>>
    /\ UNCHANGED <<attempt, holding, slotVars, row, day, accepted, today>>

\* reserve(): the sum is read and compared with the limit ...
SelectSum(c) ==
    /\ at[c] = "select"
    /\ IF RejectMode /\ Spend(Counted(Owner[c], day[c])) + Amount[c] > DailyLimit
       THEN /\ EndJob(c)
            /\ IF pc[c] = "reserve" THEN Goto(c, "rejected") ELSE UNCHANGED pc
       ELSE /\ at' = [at EXCEPT ![c] = "insert"]
            /\ UNCHANGED <<op, lock, pc>>
    /\ UNCHANGED <<attempt, holding, slotVars, row, day, accepted, today>>

\* ... and the row inserted by a later statement of the same thread.
InsertRow(c) ==
    /\ at[c] = "insert"
    /\ row' = [row EXCEPT ![c] = "reserved"]
    /\ EndJob(c)
    /\ IF pc[c] = "reserve"
       THEN /\ Goto(c, "provider")
            /\ holding' = [holding EXCEPT ![c] = TRUE]
       ELSE UNCHANGED <<pc, holding>>
    /\ UNCHANGED <<attempt, slotVars, day, accepted, today>>

\* Mutant of UpdateRow: an upsert brings a row back that retention deleted.
UpsertRow(c) ==
    /\ at[c] = "update"
    /\ row' = [row EXCEPT ![c] = IF op[c] = "commit" THEN "committed" ELSE "released"]
    /\ EndJob(c)
    /\ CASE pc[c] = "else"   -> Goto(c, "done")
         [] pc[c] = "except" -> Goto(c, "failed")
         [] pc[c] = "shield" -> Goto(c, "cancelled")
         [] OTHER            -> UNCHANGED pc
    /\ UNCHANGED <<attempt, holding, slotVars, day, accepted, today>>

\* _set_status(); an UPDATE of a row that retention deleted changes nothing.
UpdateRow(c) ==
    /\ at[c] = "update"
    /\ row' = [row EXCEPT ![c] =
                  IF row[c] = "pruned" THEN "pruned"
                  ELSE IF op[c] = "commit" THEN "committed" ELSE "released"]
    /\ EndJob(c)
    /\ CASE pc[c] = "else"   -> Goto(c, "done")
         [] pc[c] = "except" -> Goto(c, "failed")
         [] pc[c] = "shield" -> Goto(c, "cancelled")
         [] OTHER            -> UNCHANGED pc
    /\ UNCHANGED <<attempt, holding, slotVars, day, accepted, today>>

\* SQLite raises: the statement has no effect, the error reaches the awaiting
\* coroutine, and only the cancellation handler suppresses it.
LedgerError(c) ==
    /\ LedgerMayFail
    /\ at[c] \in Running
    /\ EndJob(c)
    /\ CASE pc[c] \in {"reserve", "else", "except"} -> Goto(c, "broken")
         [] pc[c] = "shield"                        -> Goto(c, "cancelled")
         [] OTHER                                   -> UNCHANGED pc
    /\ UNCHANGED <<attempt, holding, slotVars, row, day, accepted, today>>

-----------------------------------------------------------------------------
(* billed_provider_slot, up to the yield.                                  *)

Reserve(c) ==
    /\ pc[c] = "idle"
    /\ Goto(c, "reserve")
    /\ day' = [day EXCEPT ![c] = today]
    /\ Enqueue(c, "reserve")
    /\ UNCHANGED <<lock, row, attempt, holding, slotVars, accepted, today>>

\* The provider's semaphore comes first, and is kept while the call waits for
\* the principal's; a local principal has no semaphore of its own.
AcquireProvider(c) ==
    /\ pc[c] = "provider"
    /\ providerFree[Provider[c]] > 0
    /\ providerFree' = [providerFree EXCEPT ![Provider[c]] = @ - 1]
    /\ IF Owner[c] \in Local
       THEN /\ Goto(c, "inflight")
            /\ attempt' = [attempt EXCEPT ![c] = 1]
       ELSE /\ Goto(c, "principal")
            /\ UNCHANGED attempt
    /\ UNCHANGED <<principalFree, jobVars, row, day, holding, accepted, today>>

AcquirePrincipal(c) ==
    /\ pc[c] = "principal"
    /\ principalFree[Owner[c]] > 0
    /\ principalFree' = [principalFree EXCEPT ![Owner[c]] = @ - 1]
    /\ Goto(c, "inflight")
    /\ attempt' = [attempt EXCEPT ![c] = 1]
    /\ UNCHANGED <<providerFree, jobVars, row, day, holding, accepted, today>>

-----------------------------------------------------------------------------
(* The body: call_with_retry around one provider request, and the way out. *)

\* Leave `async with acquire(...)`: both semaphores of a dispatched call are
\* released, and only then does a handler of the slot touch the ledger.
ReleaseSlots(c) ==
    /\ providerFree' = [providerFree EXCEPT ![Provider[c]] = @ + 1]
    /\ principalFree' = IF Owner[c] \in Local THEN principalFree
                        ELSE [principalFree EXCEPT ![Owner[c]] = @ + 1]

\* Mutant of CanRetry: the ambiguity of a failure is not looked at.
CanRetryAmbiguous(c, outcome) ==
    /\ outcome \in Retryable
    /\ attempt[c] < MaxAttempts

CanRetry(c, outcome) ==
    /\ outcome \in Retryable
    /\ outcome \notin Ambiguous
    /\ attempt[c] < MaxAttempts

\* Mutant of Settlement: only a success is charged.
SettlementOfSuccess(outcome) == IF outcome = "ok" THEN "commit" ELSE "release"

\* What the slot does with the reservation when its body ends this way.
Settlement(outcome) ==
    IF outcome = "ok" \/ outcome \in Ambiguous \cup {"timeout"}
    THEN "commit" ELSE "release"

\* The request in flight ends.
Respond(c) ==
    /\ pc[c] = "inflight"
    /\ \E outcome \in Outcomes :
          /\ \E n \in MayHaveActed(outcome) :
                accepted' = [accepted EXCEPT ![c] = @ + n]
          /\ IF CanRetry(c, outcome)
             THEN /\ Goto(c, "backoff")
                  /\ UNCHANGED <<op, at, slotVars>>
             ELSE /\ ReleaseSlots(c)
                  /\ Enqueue(c, Settlement(outcome))
                  /\ Goto(c, IF outcome = "ok" THEN "else" ELSE "except")
    /\ UNCHANGED <<lock, row, day, attempt, holding, today>>

\* sleep(delay) is over; the slot is kept during the sleep.
Retry(c) ==
    /\ pc[c] = "backoff"
    /\ Goto(c, "inflight")
    /\ attempt' = [attempt EXCEPT ![c] = @ + 1]
    /\ UNCHANGED <<jobVars, slotVars, row, day, holding, accepted, today>>

-----------------------------------------------------------------------------
(* Cancellation of the call's task, at each of its awaits.                 *)

\* A job abandoned by the coroutine awaiting it.  One still waiting for the
\* lock, or whose thread has not begun, never runs; a thread that has begun
\* cannot be stopped and goes on, without the lock.
AbandonJob(c) ==
    \/ /\ at[c] \in {"queued", "select", "update"}
       /\ EndJob(c)
    \/ /\ at[c] \in Running
       /\ lock' = NoCall
       /\ UNCHANGED <<op, at>>

\* reserve() is awaited outside the try statement.
CancelReserve(c) ==
    /\ pc[c] = "reserve"
    /\ AbandonJob(c)
    /\ Goto(c, "cancelled")
    /\ UNCHANGED <<attempt, holding, slotVars, row, day, accepted, today>>

\* Mutant of CancelWaiting: the provider slot is not given back.
CancelWaitingLeaks(c) ==
    /\ pc[c] \in {"provider", "principal"}
    /\ Enqueue(c, "release")
    /\ Goto(c, "shield")
    /\ UNCHANGED <<lock, slotVars, row, day, attempt, holding, accepted, today>>

\* Waiting for a slot: what has been acquired is released, the reservation too.
CancelWaiting(c) ==
    /\ pc[c] \in {"provider", "principal"}
    /\ IF pc[c] = "principal"
       THEN providerFree' = [providerFree EXCEPT ![Provider[c]] = @ + 1]
       ELSE UNCHANGED providerFree
    /\ Enqueue(c, "release")
    /\ Goto(c, "shield")
    /\ UNCHANGED <<lock, principalFree, row, day, attempt, holding, accepted, today>>

\* In the body: the request may or may not have reached the provider.
CancelDispatched(c) ==
    /\ pc[c] \in Dispatched
    /\ \E n \in IF pc[c] = "inflight" THEN {0, 1} ELSE {0} :
          accepted' = [accepted EXCEPT ![c] = @ + n]
    /\ ReleaseSlots(c)
    /\ Enqueue(c, "commit")
    /\ Goto(c, "shield")
    /\ UNCHANGED <<lock, row, day, attempt, holding, today>>

\* In the except and else clauses nothing shields the ledger call.
CancelSettling(c) ==
    /\ pc[c] \in {"else", "except"}
    /\ AbandonJob(c)
    /\ Goto(c, "cancelled")
    /\ UNCHANGED <<attempt, holding, slotVars, row, day, accepted, today>>

\* Mutant of CancelShielded: the ledger call is not shielded.
CancelUnshielded(c) ==
    /\ pc[c] = "shield"
    /\ AbandonJob(c)
    /\ Goto(c, "cancelled")
    /\ UNCHANGED <<attempt, holding, slotVars, row, day, accepted, today>>

\* Cancelled again while the shielded job is pending: the job goes on alone.
CancelShielded(c) ==
    /\ pc[c] = "shield"
    /\ Goto(c, "cancelled")
    /\ UNCHANGED <<attempt, holding, jobVars, slotVars, row, day, accepted, today>>

Cancel(c) == \/ CancelReserve(c) \/ CancelWaiting(c) \/ CancelDispatched(c)
             \/ CancelSettling(c) \/ CancelShielded(c)

-----------------------------------------------------------------------------
(* The environment: the sweeper, the calendar, the end of the process.     *)

\* budget_ledger.prune(); a ledger operation like any other, one statement.
Prune ==
    LET old == {c \in Calls : row[c] # "none" /\ day[c] < today - PruneAge} IN
    /\ lock = NoCall
    /\ \E c \in old : row[c] # "pruned"
    /\ row' = [c \in Calls |-> IF c \in old THEN "pruned" ELSE row[c]]
    /\ UNCHANGED <<taskVars, jobVars, slotVars, day, accepted, today>>

\* Midnight UTC.  No call stays inside the ledger for a whole day.
NextDay ==
    /\ today < MaxDay
    /\ \A c \in Calls : at[c] # "idle" => day[c] = today
    /\ today' = today + 1
    /\ UNCHANGED <<taskVars, jobVars, slotVars, row, day, accepted>>

\* The process dies: coroutines, threads, lock and semaphores are gone; a
\* request in flight may still be acted on; the rows are on disk.
Crash ==
    /\ MayCrash
    /\ \E c \in Calls : pc[c] \notin Ended \cup {"idle"} \/ at[c] # "idle"
    /\ \E hit \in SUBSET {c \in Calls : pc[c] = "inflight"} :
          accepted' = [c \in Calls |-> accepted[c] + IF c \in hit THEN 1 ELSE 0]
    /\ pc' = [c \in Calls |-> IF pc[c] \in Ended \cup {"idle"} THEN pc[c] ELSE "dead"]
    /\ op' = [c \in Calls |-> "none"]
    /\ at' = [c \in Calls |-> "idle"]
    /\ lock' = NoCall
    /\ providerFree' = [p \in Providers |-> ProviderLimit]
    /\ principalFree' = [o \in Principals |-> PrincipalLimit]
    /\ UNCHANGED <<row, day, attempt, holding, today>>

\* All calls are over and their jobs with them.
Terminated ==
    /\ \A c \in Calls : pc[c] \in Ended /\ at[c] = "idle"
    /\ UNCHANGED vars

\* A waiter that asyncio wakes: of the ledger lock or of a semaphore.
Grant(c) == LockLedger(c) \/ AcquireProvider(c) \/ AcquirePrincipal(c)

\* A step that a thread, the provider or a timer takes on its own.
Proceed(c) == SelectSum(c) \/ InsertRow(c) \/ UpdateRow(c) \/ Respond(c) \/ Retry(c)

Next ==
    \/ \E c \in Calls : Reserve(c) \/ Grant(c) \/ Proceed(c) \/ LedgerError(c) \/ Cancel(c)
    \/ Prune \/ NextDay \/ Crash \/ Terminated

Spec == Init /\ [][Next]_vars

\* Fairness.  The event loop resumes every ready coroutine and a started
\* thread finishes; httpx timeouts end every request and sleep() every backoff.
\* asyncio.Lock and asyncio.Semaphore wake their waiters first come, first
\* served, so a call that waits is not passed over for ever: strong fairness.
\* Nothing is assumed of cancellations, of crashes, or of the calendar.
Fairness == \A c \in Calls : WF_vars(Proceed(c)) /\ SF_vars(Grant(c))

FairSpec == Spec /\ Fairness

-----------------------------------------------------------------------------
TypeOK ==
    /\ pc \in [Calls -> PCs]
    /\ op \in [Calls -> Ops]
    /\ at \in [Calls -> {"idle", "queued"} \cup Running]
    /\ lock \in Calls \cup {NoCall}
    /\ row \in [Calls -> Rows]
    /\ day \in [Calls -> 0..MaxDay]
    /\ holding \in [Calls -> BOOLEAN]
    /\ providerFree \in [Providers -> Nat]
    /\ principalFree \in [Principals -> Nat]
    /\ attempt \in [Calls -> Nat]
    /\ accepted \in [Calls -> Nat]
    /\ today \in 1..MaxDay

\* Calls whose coroutine obtained its reservation and whose row still counts.
LiveCounted(o, d) == {c \in Counted(o, d) : holding[c]}

\* The reservations that calls actually work under never exceed the daily
\* limit of their principal: reserve()'s separate SELECT and INSERT are safe
\* against every interleaving, including the thread of a cancelled reserve()
\* that still runs after its lock was handed on, and against a restart.
WithinLimit ==
    RejectMode =>
        \A o \in Principals, d \in 1..MaxDay :
            Spend(LiveCounted(o, d)) <= DailyLimit

\* The same for the money itself: the calls of a day that the provider has
\* acted on cost their principal no more than the daily limit, as long as the
\* day is within the retention of the ledger (BudgetLedger.prune).
BilledWithinLimit ==
    RejectMode =>
        \A o \in Principals, d \in 1..MaxDay :
            d >= today - PruneAge =>
                Spend({c \in Calls : /\ Owner[c] = o
                                     /\ day[c] = d
                                     /\ accepted[c] > 0}) <= DailyLimit

\* One reservation pays for one request: call_with_retry never repeats a
\* request the provider has acted on.
AtMostOneAccepted == \A c \in Calls : accepted[c] <= 1

\* Who holds a provider slot, and who a principal slot.
ProviderHolders(p) ==
    {c \in Calls : Provider[c] = p /\ pc[c] \in Dispatched \cup {"principal"}}
PrincipalHolders(o) ==
    {c \in Calls : Owner[c] = o /\ o \notin Local /\ pc[c] \in Dispatched}

\* No path out of acquire() leaks or double-frees a slot: the value of every
\* semaphore is its limit less the calls inside, at every instant.
SlotsConserved ==
    /\ \A p \in Providers :
          providerFree[p] = ProviderLimit - Cardinality(ProviderHolders(p))
    /\ \A o \in Principals :
          principalFree[o] = PrincipalLimit - Cardinality(PrincipalHolders(o))

\* A settled row is final: no late thread, second cancellation or restart
\* charges a released estimate or gives back a charged one.
SettledOnce ==
    [][\A c \in Calls : row[c] \in {"committed", "released", "pruned"}
           => row'[c] \in {row[c], "pruned"}]_vars

\* Every call comes to an end: the order in which the two semaphores and the
\* ledger lock are taken admits no deadlock, and no cancellation keeps a slot.
EveryCallEnds == \A c \in Calls : pc[c] # "idle" ~> pc[c] \in Ended

\* A call cancelled while waiting for a slot or inside the body gets its
\* reservation settled, however often it is cancelled again meanwhile.
CancelledIsSettled ==
    \A c \in Calls :
        pc[c] = "shield" ~> row[c] \in {"committed", "released", "pruned"}

\* What the docstring of billed_provider_slot and runtime.md say: a cancelled
\* call never leaves a dangling reservation.
NoDanglingReservation ==
    \A c \in Calls :
        pc[c] = "cancelled" /\ at[c] = "idle" => row[c] # "reserved"

\* The ledger with its threads implements the atomic budget.  A row whose
\* reserve() was cancelled stands for no booking.
Budget == INSTANCE BudgetSpec WITH
    status   <- [c \in Calls |-> IF holding[c] THEN row[c] ELSE "none"],
    bookedOn <- [c \in Calls |-> IF holding[c] THEN day[c] ELSE 0]

ImplementsBudget == Budget!Spec
=============================================================================
