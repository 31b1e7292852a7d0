--------------------------- MODULE VariationBatch ---------------------------
(***************************************************************************)
(* One call of a tool with variations: run_variation_batch with its        *)
(* semaphore and its deadline, and the three factories that run in it,     *)
(* Seedream images, Seedance tasks and Seed Audio clips.                   *)
(*                                                                         *)
(* What a caller does with a failed variation depends on its error: one    *)
(* that is not ambiguous invites a retry.  The provider call is therefore  *)
(* followed by what the provider did, beside what the server knows of it.  *)
(* The budget ledger and the shared limiters are those of BilledCall; here *)
(* they are awaits that end, fail or are cancelled.                        *)
(***************************************************************************)
EXTENDS Integers, FiniteSets

CONSTANTS
    Variations,      \* the indices of the batch
    Kinds,           \* the factories this model has
    Answers,         \* what the provider calls of this model may come to
    MaxConcurrent,   \* size of the batch's own semaphore
    StoreMayFail,    \* TRUE: SQLite may raise in the ledger and in record()
    NoResult, NoError

\* The outputs: a provider URL with or without the bytes, the bytes alone, for
\* audio a URL alone, nothing, bytes that the media policy refuses.
Outputs  == {"url", "inline", "link", "empty", "refused"}
\* The errors call_with_retry ends with.  "malformed" is a 2xx answer whose body
\* cannot be read, "transport" a connection that broke after the request.
Failures == {"rejected", "throttled", "timeout", "server_error", "transport", "malformed"}

ASSUME VariationBatchAssumption ==
    /\ IsFiniteSet(Variations)
    /\ Kinds \subseteq {"seedream", "seedance", "audio"}
    /\ Answers \subseteq Outputs \cup Failures \cup {"task"}
    /\ MaxConcurrent \in Nat \ {0}
    /\ StoreMayFail \in BOOLEAN

VARIABLES
    kind,      \* the factory of this batch
    persist,   \* the request asks for the outputs to be stored
    batch,     \* where run_variation_batch is
    at,        \* at[v]: where the task of v is suspended
    phase,     \* progress.phase of v
    partial,   \* TRUE: progress.partial of v is set
    response,  \* response[v]: what the provider call gave, before it is settled
    result,    \* result[v]: the VariationResult, or NoResult
    acted,     \* acted[v]: the provider has generated for v
    doomed     \* tasks that were cancelled and have not seen it yet

taskVars == <<at, phase, partial, response, result>>
vars == <<kind, persist, batch, taskVars, acted, doomed>>

Done    == {"returned", "cancelled"}
Holding == {"reserving", "slot", "calling", "settling", "recording", "persisting", "unwinding"}

-----------------------------------------------------------------------------
(* Results.                                                                *)

Ok(what) == [output |-> what, error |-> NoError]

Failure(code, retryable, ambiguous, stage) ==
    [output |-> "none",
     error  |-> [code |-> code, retryable |-> retryable, ambiguous |-> ambiguous, phase |-> stage]]

\* Any exception that is neither a provider's nor the store's.
Unexpected == Failure("UNEXPECTED_ERROR", FALSE, FALSE, "unknown")

\* What a normalized provider error says of itself.
ProviderFailure(answer) ==
    CASE answer = "rejected"     -> Failure("PROVIDER_ERROR", FALSE, FALSE, "unknown")
      [] answer = "throttled"    -> Failure("PROVIDER_ERROR", TRUE, FALSE, "unknown")
      [] answer = "server_error" -> Failure("PROVIDER_ERROR", TRUE, TRUE, "unknown")
      [] answer = "timeout"      -> Failure("TIMEOUT", FALSE, TRUE, "unknown")
      [] answer = "transport"    -> Failure("PROVIDER_ERROR", TRUE, FALSE, "unknown")
      [] answer = "malformed"    -> IF kind = "seedance"
                                    THEN Failure("INVALID_RESPONSE", FALSE, FALSE, "unknown")
                                    ELSE Unexpected

\* persistence_variation_error
StorageFailure == Failure("STORAGE_FAILED", TRUE, FALSE, "persisting")

Init ==
    /\ kind \in Kinds
    /\ persist \in BOOLEAN
    /\ batch = "running"
    /\ at = [v \in Variations |-> "limiter"]
    /\ phase = [v \in Variations |-> "queued"]
    /\ partial = [v \in Variations |-> FALSE]
    /\ response = [v \in Variations |-> "none"]
    /\ result = [v \in Variations |-> NoResult]
    /\ acted = [v \in Variations |-> FALSE]
    /\ doomed = {}

Goto(v, l) == at' = [at EXCEPT ![v] = l]

Return(v, r) ==
    /\ Goto(v, "returned")
    /\ result' = [result EXCEPT ![v] = r]

Live(v, l) == at[v] = l /\ v \notin doomed

-----------------------------------------------------------------------------
(* One variation.                                                          *)

\* Seedance declares itself generating before it has a slot.
Enter(v) ==
    /\ Live(v, "limiter")
    /\ Cardinality({u \in Variations : at[u] \in Holding}) < MaxConcurrent
    /\ Goto(v, "reserving")
    /\ phase' = [phase EXCEPT ![v] = IF kind = "seedance" THEN "generating" ELSE @]
    /\ UNCHANGED <<kind, persist, batch, partial, response, result, acted, doomed>>

Reserved(v) ==
    /\ Live(v, "reserving")
    /\ Goto(v, "slot")
    /\ UNCHANGED <<kind, persist, batch, phase, partial, response, result, acted, doomed>>

\* Over budget (BudgetExceededError is a ValueError), or SQLite raises.
ReserveFails(v) ==
    /\ Live(v, "reserving")
    /\ Return(v, Unexpected)
    /\ UNCHANGED <<kind, persist, batch, phase, partial, response, acted, doomed>>

\* Mutant of GetSlot: the phase is set when the call has returned.
GetSlotQuietly(v) ==
    /\ Live(v, "slot")
    /\ Goto(v, "calling")
    /\ UNCHANGED <<kind, persist, batch, phase, partial, response, result, acted, doomed>>

GetSlot(v) ==
    /\ Live(v, "slot")
    /\ Goto(v, "calling")
    /\ phase' = [phase EXCEPT ![v] = "generating"]
    /\ UNCHANGED <<kind, persist, batch, partial, response, result, acted, doomed>>

\* The provider generates: before its answer, or without one.
Act(v) ==
    /\ at[v] = "calling" /\ ~acted[v]
    /\ acted' = [acted EXCEPT ![v] = TRUE]
    /\ UNCHANGED <<kind, persist, batch, taskVars, doomed>>

\* The answers that this factory can get, before and after the provider acted.
Possible(v) ==
    Answers \cap
        IF ~acted[v] THEN Failures \ {"malformed"}
        ELSE {"timeout", "server_error", "transport", "malformed"} \cup
                CASE kind = "seedream" -> Outputs \ {"link"}
                  [] kind = "seedance" -> {"task"}
                  [] kind = "audio"    -> Outputs

\* call_with_retry ends.
Answer(v) ==
    /\ Live(v, "calling")
    /\ \E answer \in Possible(v) : response' = [response EXCEPT ![v] = answer]
    /\ Goto(v, "settling")
    /\ UNCHANGED <<kind, persist, batch, phase, partial, result, acted, doomed>>

\* Mutant of Partial: nothing is kept before the image is stored.
PartialForgotten(v) == FALSE

\* An image's URL is kept before the image is stored.
Partial(v) == kind = "seedream" /\ response[v] = "url"

\* The bytes of an image or a clip, or an image's URL, go to the store.
ToStore(v) == persist /\ response[v] \in {"url", "inline", "refused"}

\* The reservation is committed or released, then the factory goes on.
Settled(v) ==
    /\ Live(v, "settling")
    /\ \/ /\ response[v] \in Failures
          /\ Return(v, ProviderFailure(response[v]))
          /\ UNCHANGED <<phase, partial>>
       \/ /\ response[v] = "task"
          /\ Goto(v, "recording")
          /\ UNCHANGED <<phase, partial, result>>
       \/ /\ response[v] \in Outputs
          /\ partial' = [partial EXCEPT ![v] = Partial(v)]
          /\ IF ToStore(v)
             THEN /\ Goto(v, "persisting")
                  /\ phase' = [phase EXCEPT ![v] = "persisting"]
                  /\ UNCHANGED result
             ELSE /\ Return(v, Ok(IF response[v] \in {"url", "link"} THEN "artifact" ELSE "none"))
                  /\ UNCHANGED phase
    /\ UNCHANGED <<kind, persist, batch, response, acted, doomed>>

\* The ledger raises: its error replaces whatever the provider said.
SettleFails(v) ==
    /\ StoreMayFail
    /\ Live(v, "settling")
    /\ Return(v, Unexpected)
    /\ UNCHANGED <<kind, persist, batch, phase, partial, response, acted, doomed>>

\* ownership_store.record()
Recorded(v) ==
    /\ Live(v, "recording")
    /\ Return(v, Ok("task"))
    /\ UNCHANGED <<kind, persist, batch, phase, partial, response, acted, doomed>>

RecordFails(v) ==
    /\ StoreMayFail
    /\ Live(v, "recording")
    /\ Return(v, Unexpected)
    /\ UNCHANGED <<kind, persist, batch, phase, partial, response, acted, doomed>>

\* Stored, or the provider's URL or the bytes themselves are returned instead.
Persisted(v) ==
    /\ Live(v, "persisting")
    /\ response[v] \in {"url", "inline"}
    /\ Return(v, Ok("artifact"))
    /\ UNCHANGED <<kind, persist, batch, phase, partial, response, acted, doomed>>

\* Bytes too large to be returned are lost, and so are those the policy refuses.
PersistFails(v) ==
    /\ Live(v, "persisting")
    /\ \/ response[v] = "inline"  /\ Return(v, StorageFailure)
       \/ response[v] = "refused" /\ Return(v, Unexpected)
    /\ UNCHANGED <<kind, persist, batch, phase, partial, response, acted, doomed>>

-----------------------------------------------------------------------------
(* Cancellation.                                                           *)

\* Mutant of Doom: what waits for the semaphore is forgotten.
DoomStarted(l) ==
    /\ batch' = l
    /\ doomed' = {v \in Variations : at[v] \notin Done \cup {"limiter"}}
    /\ UNCHANGED <<kind, persist, taskVars, acted>>

Doom(l) ==
    /\ batch' = l
    /\ doomed' = {v \in Variations : at[v] \notin Done}
    /\ UNCHANGED <<kind, persist, taskVars, acted>>

\* asyncio.wait() is over its timeout.
Deadline ==
    /\ batch = "running"
    /\ \E v \in Variations : at[v] \notin Done
    /\ Doom("cancelling")

\* The tool call itself is cancelled, in wait() or in gather().
Abort == batch \in {"running", "cancelling"} /\ Doom("aborting")

\* A task sees its cancellation; one in billed_provider_slot settles first,
\* unless it is already doing so: a second cancellation only ends the wait.
Cancelled(v) ==
    /\ v \in doomed
    /\ doomed' = doomed \ {v}
    /\ Goto(v, IF at[v] \in {"slot", "calling"} THEN "unwinding" ELSE "cancelled")
    /\ UNCHANGED <<kind, persist, batch, phase, partial, response, result, acted>>

Unwound(v) ==
    /\ Live(v, "unwinding")
    /\ Goto(v, "cancelled")
    /\ UNCHANGED <<kind, persist, batch, phase, partial, response, result, acted, doomed>>

-----------------------------------------------------------------------------
(* The end of the batch.                                                   *)

\* _deadline_error
DeadlineResult(v) ==
    IF phase[v] = "persisting" /\ partial[v] THEN Ok("artifact")
    ELSE IF phase[v] = "queued" THEN Failure("QUEUE_TIMEOUT", TRUE, FALSE, "queued")
    ELSE Failure("TIMEOUT", FALSE, TRUE, phase[v])

Ready == \A v \in Variations : at[v] \in Done

\* gather() is over: the tasks are classified, and the service is closed.
Summarise ==
    /\ Ready
    /\ \/ /\ batch \in {"running", "cancelling"}
          /\ batch' = "summarised"
          /\ result' = [v \in Variations |->
                          IF at[v] = "returned" THEN result[v] ELSE DeadlineResult(v)]
       \/ /\ batch = "aborting"
          /\ batch' = "aborted"
          /\ UNCHANGED result
    /\ UNCHANGED <<kind, persist, at, phase, partial, response, acted, doomed>>

\* Steps that the event loop and the ledger take on their own.
Own(v) == Enter(v) \/ Reserved(v) \/ Settled(v) \/ Recorded(v) \/ Cancelled(v) \/ Unwound(v)

Next ==
    \/ \E v \in Variations :
          \/ Own(v) \/ ReserveFails(v) \/ GetSlot(v) \/ Act(v) \/ Answer(v)
          \/ SettleFails(v) \/ RecordFails(v) \/ Persisted(v) \/ PersistFails(v)
    \/ Deadline \/ Abort \/ Summarise

Spec == Init /\ [][Next]_vars

\* Threads end and timers fire.  Slots, providers and downloads may hang.
FairSpec ==
    Spec /\ WF_vars(Deadline) /\ WF_vars(Summarise) /\ \A v \in Variations : WF_vars(Own(v))

-----------------------------------------------------------------------------
Results ==
    [output : {"none", "artifact", "task"},
     error  : [code : {"UNEXPECTED_ERROR", "PROVIDER_ERROR", "INVALID_RESPONSE", "TIMEOUT",
                       "QUEUE_TIMEOUT", "STORAGE_FAILED"},
               retryable : BOOLEAN, ambiguous : BOOLEAN,
               phase : {"queued", "generating", "persisting", "unknown"}] \cup {NoError}]

Refused(v) == batch = "summarised" /\ result[v].error # NoError

\* An error of a known kind that is not ambiguous, and does not say that only
\* storing failed, is the truth and stays it: the provider has not generated for that
\* variation and nothing of it runs on, so repeating it pays once.  Whatever the interleaving of slots, answers, the
\* deadline and errors of the state database.
SafeToRepeat ==
    \A v \in Variations :
        /\ Refused(v)
        /\ result[v].error.code # "UNEXPECTED_ERROR"
        /\ ~result[v].error.ambiguous /\ result[v].error.phase # "persisting"
        => ~acted[v] /\ (batch \in {"summarised", "aborted"} => at[v] \in Done)

\* An image that was being stored when the deadline, or a failing store, ended its
\* variation is returned by its provider URL if it has one: the paid image is not
\* lost.
ReceivedIsReturned ==
    \A v \in Variations :
        /\ batch = "summarised" /\ kind = "seedream"
        /\ phase[v] = "persisting" /\ response[v] = "url"
        => result[v].output = "artifact"

\* The batch ends although slots, provider and downloads may hang for ever.
BatchEnds == <>(batch \in {"summarised", "aborted"})
=============================================================================
