----------------------- MODULE VariationBatch_proofs -----------------------
(***************************************************************************)
(* Proof that an error of a variation that invites a repeat is true, for   *)
(* any number of variations and any size of the semaphore.  It ties what   *)
(* the server knows of a variation (where its task is, its phase, the      *)
(* answer it got) to what the provider has done.                           *)
(***************************************************************************)
EXTENDS VariationBatch, TLAPS

Places == {"limiter", "unwinding"} \cup Holding \cup Done

BatchType ==
    /\ kind \in Kinds
    /\ batch \in {"running", "cancelling", "aborting", "summarised", "aborted"}
    /\ at \in [Variations -> Places]
    /\ phase \in [Variations -> {"queued", "generating", "persisting"}]
    /\ response \in [Variations -> {"none"} \cup Answers]
    /\ result = [v \in Variations |-> result[v]]
    /\ acted \in [Variations -> BOOLEAN]

\* An error that may be repeated.
Invites(r) ==
    /\ r.error # NoError
    /\ r.error.code # "UNEXPECTED_ERROR"
    /\ ~r.error.ambiguous /\ r.error.phase # "persisting"

\* What the server can tell from where a variation is.
Known(v) ==
    /\ at[v] \in {"limiter", "reserving", "slot"} => ~acted[v]
    /\ at[v] = "calling" => phase[v] # "queued"
    /\ phase[v] = "queued" => ~acted[v]
    /\ at[v] = "settling" /\ response[v] \in {"rejected", "throttled"} => ~acted[v]
    /\ at[v] = "returned" /\ Invites(result[v]) => ~acted[v]
    /\ v \in doomed => at[v] \notin Done

BatchInv ==
    /\ BatchType
    /\ \A v \in Variations : Known(v)
    /\ batch \in {"summarised", "aborted"} => Ready
    /\ batch = "summarised" => \A v \in Variations : Invites(result[v]) => ~acted[v]

LEMMA InitBatch == Init => BatchInv
<1>. SUFFICES ASSUME Init PROVE BatchInv
    OBVIOUS
<1>1. BatchType
    BY DEF Init, BatchType, Places
<1>2. \A v \in Variations : Known(v)
    BY DEF Init, Known, Done
<1>. QED
    BY <1>1, <1>2 DEF Init, BatchInv

\* Results that are not of a kind to be repeated.
LEMMA Uninviting ==
    /\ ~Invites(Unexpected)
    /\ ~Invites(StorageFailure)
    /\ \A what : ~Invites(Ok(what))
    /\ \A stage : ~Invites(Failure("TIMEOUT", FALSE, TRUE, stage))
BY DEF Invites, Unexpected, StorageFailure, Failure, Ok

\* Of the answers, only a refusal by the provider is.
LEMMA InvitingAnswers ==
    ASSUME NEW answer \in Failures \ {"transport", "malformed"},
           Invites(ProviderFailure(answer))
    PROVE  answer \in {"rejected", "throttled"}
BY DEF Failures, ProviderFailure, Invites, Failure

\* A step of one variation that ends it with a result.
LEMMA ReturnKnown ==
    ASSUME BatchInv, NEW v \in Variations, at[v] \notin Done, v \notin doomed, NEW r, Return(v, r),
           Invites(r) => ~acted[v],
           UNCHANGED <<kind, batch, response, acted, doomed>>,
           phase' = phase
    PROVE  BatchInv'
<1>1. at' = [at EXCEPT ![v] = "returned"] /\ "returned" \in Done
    BY DEF Return, Goto, Done
<1>2. at \in [Variations -> Places] /\ result = [u \in Variations |-> result[u]]
    BY DEF BatchInv, BatchType
<1>3. \A u \in Variations : /\ at'[u] = IF u = v THEN "returned" ELSE at[u]
                            /\ result'[u] = IF u = v THEN r ELSE result[u]
    BY <1>1, <1>2 DEF Return
<1>4. BatchType'
    <2>1. at' \in [Variations -> Places]
        BY <1>1, <1>2 DEF Places
    <2>2. result' = [u \in Variations |-> result'[u]]
        BY <1>2 DEF Return
    <2>. QED  BY <2>1, <2>2 DEF BatchInv, BatchType
<1>5. \A u \in Variations : Known(u)'
    <2>. SUFFICES ASSUME NEW u \in Variations PROVE Known(u)'
        OBVIOUS
    <2>1. Known(u)
        BY DEF BatchInv
    <2>2. CASE u = v
        BY <1>3, <2>1, <2>2 DEF Known
    <2>3. CASE u # v
        BY <1>3, <2>1, <2>3 DEF Known
    <2>. QED  BY <2>2, <2>3
<1>6. batch \notin {"summarised", "aborted"}
    BY DEF BatchInv, Ready
<1>. QED
    BY <1>4, <1>5, <1>6 DEF BatchInv

\* A step of one variation that moves it on.
LEMMA MoveKnown ==
    ASSUME BatchInv, NEW v \in Variations, at[v] \notin Done,
           NEW l \in Places, at' = [at EXCEPT ![v] = l], BatchType',
           \A u \in Variations : u # v => /\ phase'[u] = phase[u] /\ response'[u] = response[u]
                                          /\ (u \in doomed' => u \in doomed),
           UNCHANGED <<kind, batch, result, acted>>,
           Known(v)'
    PROVE  BatchInv'
<1>1. \A u \in Variations : u # v => at'[u] = at[u]
    BY DEF BatchInv, BatchType
<1>2. ASSUME NEW u \in Variations, u # v PROVE Known(u)'
    <2>1. Known(u)
        BY DEF BatchInv
    <2>. QED  BY <1>1, <1>2, <2>1 DEF Known
<1>3. batch \notin {"summarised", "aborted"}
    BY DEF BatchInv, Ready
<1>. QED
    BY <1>2, <1>3 DEF BatchInv

LEMMA NextBatch ==
    ASSUME "transport" \notin Answers, "malformed" \notin Answers, BatchInv, [Next]_vars
    PROVE  BatchInv'
<1>t. BatchType
    BY DEF BatchInv
<1>1. ASSUME NEW v \in Variations,
             Enter(v) \/ Reserved(v) \/ GetSlot(v) \/ Answer(v) \/ Cancelled(v) \/ Unwound(v)
      PROVE  BatchInv'
    <2>1. at[v] \notin Done /\ Known(v) /\ UNCHANGED <<kind, batch, result, acted>>
        <3>1. v \in doomed => at[v] \notin Done
            BY DEF BatchInv, Known
        <3>. QED
            BY <1>1, <3>1 DEF BatchInv, Enter, Reserved, GetSlot, Answer, Cancelled, Unwound, Live, Done
    <2>2. PICK l \in Places : at' = [at EXCEPT ![v] = l]
        BY <1>1 DEF Enter, Reserved, GetSlot, Answer, Cancelled, Unwound, Goto, Places, Holding, Done
    <2>3. BatchType'
        <3>1. at' \in [Variations -> Places]
            BY <1>t, <2>2 DEF BatchType
        <3>2. phase' \in [Variations -> {"queued", "generating", "persisting"}]
            BY <1>1, <1>t DEF BatchType, Enter, Reserved, GetSlot, Answer, Cancelled, Unwound
        <3>3. response' \in [Variations -> {"none"} \cup Answers]
            BY <1>1, <1>t DEF BatchType, Enter, Reserved, GetSlot, Answer, Cancelled, Unwound, Possible
        <3>. QED  BY <1>t, <2>1, <3>1, <3>2, <3>3 DEF BatchType
    <2>4. \A u \in Variations : u # v => /\ phase'[u] = phase[u] /\ response'[u] = response[u]
                                         /\ (u \in doomed' => u \in doomed)
        BY <1>1, <1>t DEF BatchType, Enter, Reserved, GetSlot, Answer, Cancelled, Unwound
    <2>5. Known(v)'
        <3>. USE <1>t, <2>1 DEF BatchType, Known, Live, Goto, Done
        <3>1. CASE Enter(v)
            BY <3>1 DEF Enter
        <3>2. CASE Reserved(v)
            BY <3>2 DEF Reserved
        <3>3. CASE GetSlot(v)
            BY <3>3 DEF GetSlot
        <3>4. CASE Answer(v)
            <4>1. PICK answer \in Possible(v) : response' = [response EXCEPT ![v] = answer]
                BY <3>4 DEF Answer
            <4>2. answer \in {"rejected", "throttled"} => ~acted[v]
                <5>1. CASE acted[v]
                    <6>1. kind \in {"seedream", "seedance", "audio"}
                        BY VariationBatchAssumption
                    <6>. QED  BY <4>1, <5>1, <6>1 DEF Possible, Outputs
                <5>. QED  BY <5>1
            <4>3. response'[v] = answer /\ at'[v] = "settling"
                BY <3>4, <4>1 DEF Answer
            <4>4. phase' = phase /\ v \notin doomed'
                BY <3>4 DEF Answer
            <4>. QED  BY ONLY <2>1, <4>2, <4>3, <4>4 DEF Known, Done
        <3>5. CASE Cancelled(v)
            BY <3>5 DEF Cancelled
        <3>6. CASE Unwound(v)
            BY <3>6 DEF Unwound
        <3>. QED  BY <1>1, <3>1, <3>2, <3>3, <3>4, <3>5, <3>6
    <2>. QED  BY <2>1, <2>2, <2>3, <2>4, <2>5, MoveKnown
<1>2. ASSUME NEW v \in Variations, ReserveFails(v) \/ SettleFails(v) \/ RecordFails(v) PROVE BatchInv'
    BY <1>2, ReturnKnown, Uninviting DEF ReserveFails, SettleFails, RecordFails, Live, Done
<1>3. ASSUME NEW v \in Variations, Recorded(v) \/ Persisted(v) PROVE BatchInv'
    BY <1>3, ReturnKnown, Uninviting DEF Recorded, Persisted, Live, Done
<1>4. ASSUME NEW v \in Variations, PersistFails(v) PROVE BatchInv'
    BY <1>4, ReturnKnown, Uninviting DEF PersistFails, Live, Done
<1>5. ASSUME NEW v \in Variations, Act(v) PROVE BatchInv'
    <2>1. /\ at[v] = "calling" /\ phase[v] # "queued"
          /\ \A u \in Variations : u # v => acted'[u] = acted[u]
          /\ UNCHANGED <<kind, batch, at, phase, response, result, doomed>>
        BY <1>5, <1>t DEF Act, taskVars, BatchInv, Known, BatchType
    <2>2. acted' \in [Variations -> BOOLEAN]
        BY <1>5, <1>t DEF Act, BatchType
    <2>3. BatchType'
        BY ONLY <1>t, <2>1, <2>2 DEF BatchType
    <2>4. ASSUME NEW u \in Variations PROVE Known(u)'
        <3>1. Known(u)
            BY DEF BatchInv
        <3>. QED  BY <2>1, <3>1 DEF Known, Done
    <2>5. batch \notin {"summarised", "aborted"}
        BY <2>1 DEF BatchInv, Ready, Done
    <2>. QED  BY <2>1, <2>3, <2>4, <2>5 DEF BatchInv
<1>6. ASSUME NEW v \in Variations, Settled(v) PROVE BatchInv'
    <2>1. /\ at[v] = "settling" /\ at[v] \notin Done /\ v \notin doomed /\ Known(v)
          /\ UNCHANGED <<kind, batch, response, acted, doomed>>
        BY <1>6 DEF Settled, Live, Done, BatchInv
    <2>2. CASE response[v] \in Failures /\ Return(v, ProviderFailure(response[v])) /\ phase' = phase
        <3>1. response[v] \in Failures \ {"transport", "malformed"}
            BY <1>t, <2>2 DEF BatchType, Failures
        <3>2. Invites(ProviderFailure(response[v])) => ~acted[v]
            BY <2>1, <3>1, InvitingAnswers DEF Known
        <3>. QED  BY <2>1, <2>2, <3>2, ReturnKnown
    <2>3. ASSUME NEW l \in {"recording", "persisting"}, Goto(v, l), UNCHANGED result,
                 phase' \in {phase, [phase EXCEPT ![v] = "persisting"]}
          PROVE  BatchInv'
        <3>1. at' = [at EXCEPT ![v] = l] /\ l \in Places
            BY <2>3 DEF Goto, Places, Holding
        <3>2. phase' \in [Variations -> {"queued", "generating", "persisting"}]
            BY <1>t, <2>3 DEF BatchType
        <3>3. BatchType'
            BY <1>t, <2>1, <2>3, <3>1, <3>2 DEF BatchType
        <3>4. \A u \in Variations : u # v => phase'[u] = phase[u]
            BY <1>t, <2>3 DEF BatchType
        <3>5. phase'[v] \in {phase[v], "persisting"} /\ at'[v] = l
            BY <1>t, <2>3, <3>1 DEF BatchType
        <3>6. Known(v)'
            BY <2>1, <2>3, <3>5 DEF Known, Done
        <3>. QED  BY <2>1, <2>3, <3>1, <3>3, <3>4, <3>6, MoveKnown
    <2>4. ASSUME NEW what, Return(v, Ok(what)), phase' = phase PROVE BatchInv'
        BY <2>1, <2>4, ReturnKnown, Uninviting
    <2>. QED
        BY <1>6, <2>2, <2>3, <2>4 DEF Settled
<1>7. ASSUME NEW l \in {"cancelling", "aborting"}, Doom(l), batch \in {"running", "cancelling"}
      PROVE  BatchInv'
    <2>1. /\ UNCHANGED <<kind, at, phase, response, result, acted>>
          /\ \A v \in Variations : v \in doomed' => at[v] \notin Done
          /\ batch' = l
        BY <1>7 DEF Doom, taskVars
    <2>2. \A v \in Variations : Known(v)'
        BY <2>1 DEF BatchInv, Known
    <2>. QED
        BY <1>t, <2>1, <2>2 DEF BatchInv, BatchType
<1>8. CASE Deadline \/ Abort
    BY <1>7, <1>8 DEF Deadline, Abort
<1>9. CASE Summarise
    <2>1. Ready /\ UNCHANGED <<kind, at, phase, response, acted, doomed>>
        BY <1>9 DEF Summarise
    <2>2. /\ batch' \in {"summarised", "aborted"} /\ Ready'
          /\ result' = [v \in Variations |-> result'[v]]
          /\ \A v \in Variations : at[v] = "returned" => result'[v] = result[v]
        BY <1>9, <1>t, <2>1 DEF Summarise, Ready, BatchType
    <2>3. \A v \in Variations : Known(v)'
        BY <2>1, <2>2 DEF BatchInv, Known
    <2>4. ASSUME batch' = "summarised", NEW v \in Variations, Invites(result'[v]) PROVE ~acted[v]
        <3>1. Known(v)
            BY DEF BatchInv
        <3>2. result'[v] = IF at[v] = "returned" THEN result[v] ELSE DeadlineResult(v)
            BY <1>9, <2>4 DEF Summarise
        <3>3. CASE at[v] = "returned"
            BY <2>4, <3>1, <3>2, <3>3 DEF Known
        <3>4. CASE at[v] # "returned"
            <4>1. Invites(DeadlineResult(v))
                BY <2>4, <3>2, <3>4
            <4>2. phase[v] = "queued"
                BY <4>1, Uninviting DEF DeadlineResult
            <4>. QED  BY <3>1, <4>2 DEF Known
        <3>. QED  BY <3>3, <3>4
    <2>. QED
        BY <1>t, <2>1, <2>2, <2>3, <2>4 DEF BatchInv, BatchType
<1>10. CASE UNCHANGED vars
    BY <1>10 DEF vars, taskVars, BatchInv, BatchType, Known, Ready
<1>. QED
    BY <1>1, <1>2, <1>3, <1>4, <1>5, <1>6, <1>8, <1>9, <1>10 DEF Next, Own

\* run_variation_batch and its factories: an error that tells the caller the
\* variation may be asked for again is true, for any batch, with errors of the
\* state database, the deadline and cancellation in any order; as long as a
\* connection does not break after the request and no 2xx answer is unreadable.
THEOREM RepeatsPayOnce ==
    ASSUME "transport" \notin Answers, "malformed" \notin Answers
    PROVE  Spec => []SafeToRepeat
<1>1. Init => BatchInv
    BY InitBatch
<1>2. BatchInv /\ [Next]_vars => BatchInv'
    BY NextBatch
<1>3. BatchInv => SafeToRepeat
    BY DEF BatchInv, SafeToRepeat, Refused, Invites, Ready
<1>. QED  BY <1>1, <1>2, <1>3, PTL DEF Spec

-----------------------------------------------------------------------------
\* An image that was being stored has its URL in progress.partial, and a
\* variation is being stored at the end of its task only.
Kept(v) ==
    /\ phase[v] = "persisting" => at[v] \in {"persisting"} \cup Done
    /\ kind = "seedream" /\ phase[v] = "persisting" /\ response[v] = "url"
       => /\ partial[v] = TRUE
          /\ at[v] = "returned" => result[v].output = "artifact"

KeptInv ==
    /\ BatchInv
    /\ partial = [v \in Variations |-> partial[v]]
    /\ \A v \in Variations : Kept(v)
    /\ ReceivedIsReturned

LEMMA NextKept == ASSUME KeptInv, BatchInv', [Next]_vars PROVE KeptInv'
<1>t. BatchType /\ partial = [v \in Variations |-> partial[v]]
    BY DEF KeptInv, BatchInv
<1>1. ASSUME NEW v \in Variations,
             \/ Own(v) \/ ReserveFails(v) \/ GetSlot(v) \/ Act(v) \/ Answer(v)
             \/ SettleFails(v) \/ RecordFails(v) \/ Persisted(v) \/ PersistFails(v)
      PROVE  KeptInv'
    <2>1. /\ at[v] \notin Done /\ UNCHANGED <<kind, batch>>
          /\ \A u \in Variations : u # v =>
                /\ at'[u] = at[u] /\ phase'[u] = phase[u] /\ partial'[u] = partial[u]
                /\ response'[u] = response[u] /\ result'[u] = result[u]
        <3>1. v \in doomed => at[v] \notin Done
            BY DEF KeptInv, BatchInv, Known
        <3>2. CASE Own(v)
            BY <1>t, <3>1, <3>2 DEF BatchType, Own, Enter, Reserved, Settled, Recorded, Cancelled,
               Unwound, Live, Done, Goto, Return
        <3>3. CASE ReserveFails(v) \/ GetSlot(v) \/ Act(v) \/ Answer(v)
            BY <1>t, <3>3 DEF BatchType, ReserveFails, GetSlot, Act, Answer, Live, Done, Goto,
               Return, taskVars
        <3>4. CASE SettleFails(v) \/ RecordFails(v) \/ Persisted(v) \/ PersistFails(v)
            BY <1>t, <3>4 DEF BatchType, SettleFails, RecordFails, Persisted, PersistFails, Live,
               Done, Goto, Return
        <3>. QED  BY <1>1, <3>2, <3>3, <3>4
    <2>2. partial' = [u \in Variations |-> partial'[u]]
        <3>1. CASE partial' = partial
            BY <1>t, <3>1
        <3>2. CASE Settled(v)
            BY <1>t, <3>2 DEF Settled
        <3>. QED
            BY <1>1, <3>1, <3>2 DEF Own, Enter, Reserved, Recorded, Cancelled, Unwound, ReserveFails,
               GetSlot, Act, Answer, SettleFails, RecordFails, Persisted, PersistFails, taskVars
    <2>3. Kept(v)
        BY DEF KeptInv
    <2>4. Kept(v)'
        <3>. USE <1>t, <2>1, <2>3 DEF Kept, BatchType, Live, Goto, Return, Done
        <3>1. CASE Settled(v)
            <4>1. CASE Return(v, ProviderFailure(response[v])) /\ UNCHANGED <<phase, response, kind>>
                BY <3>1, <4>1 DEF Settled
            <4>2. CASE Goto(v, "recording") /\ UNCHANGED <<phase, response, kind>>
                BY <3>1, <4>2 DEF Settled
            <4>3. ASSUME partial' = [partial EXCEPT ![v] = Partial(v)], UNCHANGED <<response, kind>>,
                         Goto(v, "persisting")
                  PROVE  Kept(v)'
                <5>1. at'[v] = "persisting" /\ partial'[v] = Partial(v)
                    BY <4>3
                <5>. QED  BY <4>3, <5>1 DEF Partial
            <4>4. ASSUME NEW what, Return(v, Ok(what)), UNCHANGED <<phase, response, kind>>
                  PROVE  Kept(v)'
                BY <3>1, <4>4 DEF Settled
            <4>. QED
                BY <3>1, <4>1, <4>2, <4>3, <4>4 DEF Settled
        <3>2. CASE Enter(v)
            BY <3>2 DEF Enter
        <3>3. CASE Reserved(v) \/ Recorded(v) \/ Cancelled(v) \/ Unwound(v)
            BY <3>3 DEF Reserved, Recorded, Cancelled, Unwound
        <3>4. CASE ReserveFails(v) \/ GetSlot(v) \/ Act(v) \/ Answer(v) \/ SettleFails(v) \/ RecordFails(v)
            BY <3>4 DEF ReserveFails, GetSlot, Act, Answer, SettleFails, RecordFails, taskVars
        <3>5. CASE Persisted(v)
            BY <3>5 DEF Persisted, Ok
        <3>6. CASE PersistFails(v)
            BY <3>6 DEF PersistFails
        <3>. QED
            BY <1>1, <3>1, <3>2, <3>3, <3>4, <3>5, <3>6 DEF Own
    <2>5. ASSUME NEW u \in Variations, u # v PROVE Kept(u)'
        <3>1. Kept(u)
            BY DEF KeptInv
        <3>. QED  BY <2>1, <2>5, <3>1 DEF Kept
    <2>6. batch' # "summarised"
        BY <2>1 DEF KeptInv, BatchInv, Ready
    <2>. QED  BY <2>2, <2>4, <2>5, <2>6 DEF KeptInv, ReceivedIsReturned
<1>2. CASE Deadline \/ Abort
    <2>1. UNCHANGED <<kind, at, phase, partial, response, result>> /\ batch' # "summarised"
        BY <1>2 DEF Deadline, Abort, Doom, taskVars
    <2>. QED  BY <1>t, <2>1 DEF KeptInv, Kept, ReceivedIsReturned
<1>3. CASE Summarise
    <2>1. Ready /\ UNCHANGED <<kind, at, phase, partial, response>>
        BY <1>3 DEF Summarise
    <2>2. \A v \in Variations : at[v] = "returned" => result'[v] = result[v]
        BY <1>3, <1>t DEF Summarise, BatchType
    <2>3. \A v \in Variations : Kept(v)'
        BY <2>1, <2>2 DEF KeptInv, Kept
    <2>4. ASSUME NEW v \in Variations, batch' = "summarised", kind = "seedream",
                 phase[v] = "persisting", response[v] = "url"
          PROVE  result'[v].output = "artifact"
        <3>1. /\ partial[v] = TRUE
              /\ at[v] = "returned" => result[v].output = "artifact"
            BY <2>4 DEF KeptInv, Kept
        <3>2. result'[v] = IF at[v] = "returned" THEN result[v] ELSE DeadlineResult(v)
            BY <1>3, <2>4 DEF Summarise
        <3>3. DeadlineResult(v) = Ok("artifact")
            BY <2>4, <3>1 DEF DeadlineResult
        <3>. QED  BY <3>1, <3>2, <3>3 DEF Ok
    <2>. QED  BY <1>t, <2>1, <2>3, <2>4 DEF KeptInv, ReceivedIsReturned
<1>4. CASE UNCHANGED vars
    BY <1>4 DEF vars, taskVars, KeptInv, Kept, ReceivedIsReturned
<1>. QED
    BY <1>1, <1>2, <1>3, <1>4 DEF Next

\* _deadline_error and the factories: an image whose URL the provider gave, and
\* that was being stored when its variation was ended by the deadline or by a
\* store that failed, is returned; for any batch and any interleaving.  (The two
\* answers are left out as in RepeatsPayOnce, on whose invariant this one builds.)
THEOREM PaidImagesReturn ==
    ASSUME "transport" \notin Answers, "malformed" \notin Answers
    PROVE  Spec => []ReceivedIsReturned
<1>1. Init => KeptInv
    <2>. SUFFICES ASSUME Init PROVE KeptInv
        OBVIOUS
    <2>1. BatchInv
        BY InitBatch
    <2>. QED  BY <2>1 DEF Init, KeptInv, Kept, ReceivedIsReturned
<1>2. KeptInv /\ [Next]_vars => KeptInv'
    <2>1. KeptInv => BatchInv
        BY DEF KeptInv
    <2>. QED  BY <2>1, NextBatch, NextKept
<1>3. KeptInv => ReceivedIsReturned
    BY DEF KeptInv
<1>. QED  BY <1>1, <1>2, <1>3, PTL DEF Spec
=============================================================================
