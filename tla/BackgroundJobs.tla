--------------------------- MODULE BackgroundJobs ---------------------------
(***************************************************************************)
(* Background jobs: submission by ark_job_submit or by a native task call, *)
(* ownership of the job id, execution by the Docket worker behind the      *)
(* replay guard, and the get/cancel requests of the owner and of others.   *)
(*                                                                         *)
(* The queue is external: it delivers a job at least once, to any worker   *)
(* slot, and again while an earlier delivery may still be running.  Both   *)
(* namespaces of SQLiteTaskOwnershipStore are modelled, "mcp" by owner and *)
(* "mcp-execution" by claim.                                               *)
(***************************************************************************)
EXTENDS Integers

CONSTANTS
    Jobs,            \* a submission and the job id the server makes for it
    Submitter,       \* Submitter[j]: the principal that submits j
    Principals,
    Requests,        \* ark_job_get, ark_job_cancel and tasks/* requests
    Workers,         \* slots of the worker
    Local,           \* TRUE: MCP_AUTH_MODE=local, everybody is one principal
    Durable,         \* TRUE: the queue survives the process (redis://)
    MaxAge,          \* STATE_PRUNE_MAX_AGE_DAYS
    DeliverySpan,    \* how long after its submission a job may be delivered
    MaxTime,         \* bound: the clock stops there
    MaxCrashes,      \* bound on crashes
    StoreMayFail,    \* TRUE: SQLite may raise in claim and require_owner
    NoRow, NoAsk

ASSUME BackgroundJobsAssumption ==
    /\ Submitter \in [Jobs -> Principals]
    /\ Local \in BOOLEAN /\ Durable \in BOOLEAN /\ StoreMayFail \in BOOLEAN
    /\ Local => \A p, q \in Principals : p = q
    /\ NoRow \notin [by : Principals, at : 0..MaxTime]
    /\ MaxAge \in Nat /\ DeliverySpan \in Nat /\ MaxTime \in Nat /\ MaxCrashes \in Nat

\* docs/security.md: "retained queue state must not outlive that history".  A
\* queue that does starts jobs again whose claims are pruned.
ASSUME RetentionAssumption == DeliverySpan <= MaxAge

VARIABLES
    mode,      \* mode[j]: "required" targets are guarded, "optional" ones are not
    submit,    \* submit[j]: where the handler of the submission is suspended
    born,      \* born[j]: when j was enqueued
    status,    \* status[j]: the job in the task backend
    exec,      \* exec[j][w]: the execution of j in slot w
    started,   \* started[j]: handlers of j begun: 0, 1, or 2 for several
    owner,     \* owner[j]: row ("mcp", j), or NoRow
    claim,     \* claim[j]: row ("mcp-execution", j), or NoRow
    ask,       \* ask[r]: a request, or NoAsk
    now,
    crashes

jobVars == <<submit, born>>
rowVars == <<owner, claim>>
vars == <<mode, jobVars, status, exec, started, rowVars, ask, now, crashes>>

Final == {"completed", "failed", "cancelled", "gone"}
Busy  == {"claiming", "won", "abandoned", "handling"}

-----------------------------------------------------------------------------
Init ==
    /\ mode \in [Jobs -> {"required", "optional"}]
    /\ submit = [j \in Jobs |-> "idle"]
    /\ born = [j \in Jobs |-> 0]
    /\ status = [j \in Jobs |-> "none"]
    /\ exec = [j \in Jobs |-> [w \in Workers |-> "free"]]
    /\ started = [j \in Jobs |-> 0]
    /\ owner = [j \in Jobs |-> NoRow]
    /\ claim = [j \in Jobs |-> NoRow]
    /\ ask = [r \in Requests |-> NoAsk]
    /\ now = 0
    /\ crashes = 0

\* INSERT ... ON CONFLICT DO NOTHING
Claimed(rows, j) ==
    [rows EXCEPT ![j] = IF @ = NoRow THEN [by |-> Submitter[j], at |-> now] ELSE @]

\* require_owner: in local mode an unknown job is everybody's.
Allowed(p, j) == IF owner[j] = NoRow THEN Local ELSE owner[j].by = p

\* The backend's cancellation; a job that has ended keeps its state.
Cancelled(j) == [status EXCEPT ![j] = IF @ \in {"queued", "working"} THEN "cancelled" ELSE @]

-----------------------------------------------------------------------------
(* Submission: enqueue, claim the id, verify the claim.                    *)

\* Unknown or unavailable target, missing scope, invalid arguments.
Refuse(j) ==
    /\ submit[j] = "idle"
    /\ submit' = [submit EXCEPT ![j] = "refused"]
    /\ UNCHANGED <<mode, born, status, exec, started, rowVars, ask, now, crashes>>

Enqueue(j) ==
    /\ submit[j] = "idle"
    /\ submit' = [submit EXCEPT ![j] = "enqueued"]
    /\ born' = [born EXCEPT ![j] = now]
    /\ status' = [status EXCEPT ![j] = "queued"]
    /\ UNCHANGED <<mode, exec, started, rowVars, ask, now, crashes>>

ClaimOwner(j) ==
    /\ submit[j] = "enqueued"
    /\ owner' = Claimed(owner, j)
    /\ submit' = [submit EXCEPT ![j] = "claimed"]
    /\ UNCHANGED <<mode, born, status, exec, started, claim, ask, now, crashes>>

\* Ids are the server's, so the claim is never another principal's; the code
\* cancels the job if it is.
VerifyOwner(j) ==
    /\ submit[j] = "claimed"
    /\ IF Allowed(Submitter[j], j)
       THEN submit' = [submit EXCEPT ![j] = "accepted"] /\ UNCHANGED status
       ELSE submit' = [submit EXCEPT ![j] = "rejected"] /\ status' = Cancelled(j)
    /\ UNCHANGED <<mode, born, exec, started, rowVars, ask, now, crashes>>

\* SQLite raises: the call fails, the job stays in the queue.
SubmitFails(j) ==
    /\ StoreMayFail
    /\ submit[j] \in {"enqueued", "claimed"}
    /\ submit' = [submit EXCEPT ![j] = "failed"]
    /\ UNCHANGED <<mode, born, status, exec, started, rowVars, ask, now, crashes>>

\* The client disconnects; the thread of claim() may have begun and goes on.
DropSubmit(j) ==
    /\ submit[j] \in {"enqueued", "claimed"}
    /\ submit' \in {[submit EXCEPT ![j] = "dropped"],
                    [submit EXCEPT ![j] = IF @ = "enqueued" THEN "abandoned" ELSE "dropped"]}
    /\ UNCHANGED <<mode, born, status, exec, started, rowVars, ask, now, crashes>>

LateOwner(j) ==
    /\ submit[j] = "abandoned"
    /\ owner' = Claimed(owner, j)
    /\ submit' = [submit EXCEPT ![j] = "dropped"]
    /\ UNCHANGED <<mode, born, status, exec, started, claim, ask, now, crashes>>

-----------------------------------------------------------------------------
(* Execution (guard_task_execution around the handler).                    *)

Put(j, w, l) == exec' = [exec EXCEPT ![j][w] = l]

\* An execution ends with s; the first end of a job is its state.
End(j, w, s) ==
    /\ Put(j, w, "free")
    /\ status' = [status EXCEPT ![j] = IF @ \in Final THEN @ ELSE s]

Begin(j, w) ==
    /\ Put(j, w, "handling")
    /\ started' = [started EXCEPT ![j] = IF @ = 0 THEN 1 ELSE 2]

\* Only required targets are wrapped by the guard.
Deliver(j, w) ==
    /\ status[j] \in {"queued", "working"}
    /\ exec[j][w] = "free"
    /\ now <= born[j] + DeliverySpan
    /\ status' = [status EXCEPT ![j] = "working"]
    /\ IF mode[j] = "required"
       THEN Put(j, w, "claiming") /\ UNCHANGED started
       ELSE Begin(j, w)
    /\ UNCHANGED <<mode, jobVars, rowVars, ask, now, crashes>>

\* Mutant of ClaimExecution: the claim always succeeds.
ClaimUpserts(j, w) ==
    /\ exec[j][w] = "claiming"
    /\ claim' = [claim EXCEPT ![j] = [by |-> Submitter[j], at |-> now]]
    /\ Put(j, w, "won")
    /\ UNCHANGED <<mode, jobVars, status, started, owner, ask, now, crashes>>

\* Mutant of ClaimExecution: an execution that loses waits for the winner.
ClaimWaits(j, w) ==
    /\ exec[j][w] = "claiming"
    /\ claim[j] = NoRow
    /\ claim' = Claimed(claim, j)
    /\ Put(j, w, "won")
    /\ UNCHANGED <<mode, jobVars, status, started, owner, ask, now, crashes>>

\* The thread inserts the row; an execution that finds one is refused.
ClaimExecution(j, w) ==
    /\ exec[j][w] = "claiming"
    /\ claim' = Claimed(claim, j)
    /\ IF claim[j] = NoRow
       THEN Put(j, w, "won") /\ UNCHANGED status
       ELSE End(j, w, "failed")
    /\ UNCHANGED <<mode, jobVars, started, owner, ask, now, crashes>>

\* claim() returns TRUE to the coroutine, which calls the handler.
Start(j, w) ==
    /\ exec[j][w] = "won"
    /\ Begin(j, w)
    /\ UNCHANGED <<mode, jobVars, status, rowVars, ask, now, crashes>>

Handled(j, w) ==
    /\ exec[j][w] = "handling"
    /\ \E s \in {"completed", "failed"} : End(j, w, s)
    /\ UNCHANGED <<mode, jobVars, started, rowVars, ask, now, crashes>>

ClaimFails(j, w) ==
    /\ StoreMayFail
    /\ exec[j][w] = "claiming"
    /\ End(j, w, "failed")
    /\ UNCHANGED <<mode, jobVars, started, rowVars, ask, now, crashes>>

\* The worker stops the executions of a cancelled job; a claim() whose thread
\* has begun goes on.
Interrupt(j, w) ==
    /\ status[j] = "cancelled"
    /\ \/ exec[j][w] \in {"claiming", "won", "handling"} /\ Put(j, w, "free")
       \/ exec[j][w] = "claiming" /\ Put(j, w, "abandoned")
    /\ UNCHANGED <<mode, jobVars, status, started, rowVars, ask, now, crashes>>

LateClaim(j, w) ==
    /\ exec[j][w] = "abandoned"
    /\ claim' = Claimed(claim, j)
    /\ Put(j, w, "free")
    /\ UNCHANGED <<mode, jobVars, status, started, owner, ask, now, crashes>>

\* The backend forgets a finished job after its result TTL.
Expire(j) ==
    /\ status[j] \in Final \ {"gone"}
    /\ \A w \in Workers : exec[j][w] = "free"
    /\ status' = [status EXCEPT ![j] = "gone"]
    /\ UNCHANGED <<mode, jobVars, exec, started, rowVars, ask, now, crashes>>

-----------------------------------------------------------------------------
(* Requests: check the owner, then ask the backend.                        *)

Ask(r) ==
    /\ ask[r] = NoAsk
    /\ \E p \in Principals, j \in Jobs, op \in {"get", "cancel"} :
          ask' = [ask EXCEPT ![r] = [by |-> p, job |-> j, op |-> op, phase |-> "asked"]]
    /\ UNCHANGED <<mode, jobVars, status, exec, started, rowVars, now, crashes>>

Reply(r, l) == ask' = [ask EXCEPT ![r].phase = l]

\* Mutant of RequireOwner: a job without a row is everybody's in every mode.
RequireKnownOwner(r) ==
    /\ ask[r] # NoAsk /\ ask[r].phase = "asked"
    /\ LET row == owner[ask[r].job] IN
       Reply(r, IF row # NoRow /\ row.by # ask[r].by THEN "unavailable" ELSE "checked")
    /\ UNCHANGED <<mode, jobVars, status, exec, started, rowVars, now, crashes>>

RequireOwner(r) ==
    /\ ask[r] # NoAsk /\ ask[r].phase = "asked"
    /\ Reply(r, IF Allowed(ask[r].by, ask[r].job) THEN "checked" ELSE "unavailable")
    /\ UNCHANGED <<mode, jobVars, status, exec, started, rowVars, now, crashes>>

\* A job the backend does not know gives the same answer as another's job.
Answer(r) ==
    /\ ask[r] # NoAsk /\ ask[r].phase = "checked"
    /\ IF status[ask[r].job] \in {"none", "gone"}
       THEN Reply(r, "unavailable") /\ UNCHANGED status
       ELSE /\ Reply(r, "answered")
            /\ status' = IF ask[r].op = "cancel" THEN Cancelled(ask[r].job) ELSE status
    /\ UNCHANGED <<mode, jobVars, exec, started, rowVars, now, crashes>>

-----------------------------------------------------------------------------
(* Time, retention, restarts.                                              *)

Kept(rows) ==
    [j \in Jobs |-> IF rows[j] # NoRow /\ rows[j].at < now - MaxAge THEN NoRow ELSE rows[j]]

\* ownership_store.prune(): one DELETE for all namespaces.
Prune ==
    /\ owner' = Kept(owner)
    /\ claim' = Kept(claim)
    /\ rowVars' # rowVars
    /\ UNCHANGED <<mode, jobVars, status, exec, started, ask, now, crashes>>

\* One unit is days: no claim, verification or request spans a tick.
Tick ==
    /\ now < MaxTime
    /\ \A j \in Jobs : submit[j] \notin {"enqueued", "claimed", "abandoned"}
    /\ \A j \in Jobs, w \in Workers : exec[j][w] \notin {"claiming", "won", "abandoned"}
    /\ \A r \in Requests : ask[r] # NoAsk => ask[r].phase \in {"answered", "unavailable"}
    /\ now' = now + 1
    /\ UNCHANGED <<mode, jobVars, status, exec, started, rowVars, ask, crashes>>

\* Coroutines and threads die; a memory:// queue dies with them.
Crash ==
    /\ crashes < MaxCrashes
    /\ crashes' = crashes + 1
    /\ submit' = [j \in Jobs |->
           IF submit[j] \in {"enqueued", "claimed", "abandoned"} THEN "dead" ELSE submit[j]]
    /\ exec' = [j \in Jobs |-> [w \in Workers |-> "free"]]
    /\ status' = [j \in Jobs |->
           IF Durable \/ status[j] = "none" THEN status[j] ELSE "gone"]
    /\ ask' = [r \in Requests |->
           IF ask[r] # NoAsk /\ ask[r].phase \in {"asked", "checked"}
           THEN [ask[r] EXCEPT !.phase = "dead"] ELSE ask[r]]
    /\ UNCHANGED <<mode, born, started, rowVars, now>>

SubmitStep(j) == ClaimOwner(j) \/ VerifyOwner(j) \/ LateOwner(j)
ExecStep(j, w) == ClaimExecution(j, w) \/ Start(j, w) \/ Handled(j, w) \/ LateClaim(j, w)

Next ==
    \/ \E j \in Jobs : \/ Refuse(j) \/ Enqueue(j) \/ SubmitStep(j)
                       \/ SubmitFails(j) \/ DropSubmit(j) \/ Expire(j)
    \/ \E j \in Jobs, w \in Workers :
          Deliver(j, w) \/ ExecStep(j, w) \/ ClaimFails(j, w) \/ Interrupt(j, w)
    \/ \E r \in Requests : Ask(r) \/ RequireOwner(r) \/ Answer(r)
    \/ Prune \/ Tick \/ Crash

Spec == Init /\ [][Next]_vars

\* The worker takes queued jobs and runs them to an end; the queue delivers a
\* job again when no execution of it is left.
FairSpec ==
    /\ Spec
    /\ \A j \in Jobs : WF_vars(\E w \in Workers :
          (\A v \in Workers : exec[j][v] = "free") /\ Deliver(j, w))
    /\ \A j \in Jobs, w \in Workers : WF_vars(ExecStep(j, w))

-----------------------------------------------------------------------------
Row == [by : Principals, at : 0..MaxTime]
Asks == [by : Principals, job : Jobs, op : {"get", "cancel"},
         phase : {"asked", "checked", "answered", "unavailable", "dead"}]

TypeOK ==
    /\ mode \in [Jobs -> {"required", "optional"}]
    /\ submit \in [Jobs -> {"idle", "refused", "enqueued", "claimed", "accepted", "rejected",
                            "failed", "dropped", "abandoned", "dead"}]
    /\ born \in [Jobs -> 0..MaxTime]
    /\ status \in [Jobs -> {"none", "queued", "working"} \cup Final]
    /\ exec \in [Jobs -> [Workers -> {"free"} \cup Busy]]
    /\ started \in [Jobs -> 0..2]
    /\ owner \in [Jobs -> Row \cup {NoRow}]
    /\ claim \in [Jobs -> Row \cup {NoRow}]
    /\ ask \in [Requests -> Asks \cup {NoAsk}]
    /\ now \in 0..MaxTime
    /\ crashes \in 0..MaxCrashes

\* The replay guard: however often a required job is delivered, also to slots
\* that run at the same time, before and after restarts, its handler begins at
\* most once.  It needs rows that outlive the deliveries of the job.
NoReplay == \A j \in Jobs : mode[j] = "required" => started[j] <= 1

\* With tokens, only the principal that submitted a job is ever told about it or
\* can cancel it, in every order of claim, request, restart and retention.
OnlyOwnerReaches ==
    ~Local => \A r \in Requests :
        ask[r] # NoAsk /\ ask[r].phase = "answered" => ask[r].by = Submitter[ask[r].job]

\* SPEC_BACKGROUND_JOBS: "If the claim fails, the new job is cancelled".
FailedClaimCancels ==
    \A j \in Jobs : submit[j] = "failed" => status[j] \in Final

\* Every job that was enqueued comes to an end, also when the process dies
\* between the execution claim and the handler: the next delivery fails it.  Only
\* a job that the queue stops delivering may stay where it is.
EveryJobEnds ==
    \A j \in Jobs : status[j] = "queued" ~> status[j] \in Final \/ now > born[j] + DeliverySpan
=============================================================================
