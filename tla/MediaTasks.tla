----------------------------- MODULE MediaTasks -----------------------------
(***************************************************************************)
(* The tools that run an asynchronous media task: the five vod_* tools     *)
(* with vod_get_task, and the three omnihuman_* tools.  A create call      *)
(* checks its input, takes a provider slot, sends one request that is      *)
(* never repeated, classifies the answer, and records who owns the task.   *)
(* Polls and cancels go through the ownership record; the caller of a VOD  *)
(* poll also names the operation, and may name the wrong one.              *)
(*                                                                         *)
(* How overlapping polls share one copy of an output is the subject of     *)
(* TaskArtifacts; here keeping outputs is one step that any copy may miss. *)
(***************************************************************************)
EXTENDS MediaKitRequests, FiniteSets

CONSTANTS
    Calls,          \* tool calls, each made once
    Principals,
    Local,          \* the principals of the local profile (AuthContext.is_local)
    MaxTasks,       \* bound: tasks the providers can hold
    Slots,          \* concurrent submissions per provider
    MaxAttempts,    \* max_attempts of RetryPolicy
    Nobody

ASSUME MediaTasksAssumption ==
    /\ MaxTasks \in Nat /\ Slots \in Nat \ {0} /\ MaxAttempts \in Nat \ {0}
    /\ Nobody \notin Principals /\ Local \subseteq Principals

VARIABLES
    task,   \* task[t]: the provider's task t, or its absence
    owner,  \* owner[t]: the principal of the ownership row, or Nobody
    kept,   \* kept[t]: the outputs with a durable artifact
    call

vars == <<task, owner, kept, call>>

Tasks == 1..MaxTasks
NoTask == 0
VodKinds == {"enhance", "transcode", "separate_audio", "add_subtitles", "remove_subtitles"}
Kinds == VodKinds \cup {"omnihuman"}
Provider(k) == IF k \in VodKinds THEN "vod-mediakit" ELSE "vision-cv"

Exists(t) == task[t].state # "absent"
Ended(c) == call[c].pc = "ended"
By(c) == call[c].by

Init ==
    /\ task = [t \in Tasks |-> [kind |-> "none", made |-> Nobody, state |-> "absent", outputs |-> {}]]
    /\ owner = [t \in Tasks |-> Nobody]
    /\ kept = [t \in Tasks |-> {}]
    /\ call = [c \in Calls |-> [pc |-> "idle", op |-> "none", kind |-> "none", by |-> Nobody,
                                task |-> NoTask, unrecorded |-> FALSE, keep |-> FALSE, tries |-> 0,
                                answer |-> "none", got |-> {}]]

Goto(c, l) == call' = [call EXCEPT ![c].pc = l]
End(c, a) ==
    call' = [call EXCEPT ![c].pc = "ended", ![c].answer = a, ![c].keep = FALSE, ![c].tries = 0]

-----------------------------------------------------------------------------
(* Submitting.  A tool refuses what its input model refuses, and any URL   *)
(* that the URL policy does not take for public; what only the adapter's   *)
(* model refuses escapes as an exception.                                  *)

Outcome(inputOk, requestOk) ==
    IF ~inputOk THEN "refused" ELSE IF ~requestOk THEN "crashed" ELSE "none"

Submit(c, p, k, outcomes) ==
    /\ call[c].pc = "idle"
    /\ \E a \in outcomes \cup {"refused"} :
          call' = [call EXCEPT ![c] =
              IF a = "none"
              THEN [@ EXCEPT !.pc = "queued", !.op = "create", !.kind = k, !.by = p]
              ELSE [@ EXCEPT !.pc = "ended", !.answer = a]]
    /\ UNCHANGED <<task, owner, kept>>

EnhanceOutcomes == {Outcome(EnhanceInputOk(r), EnhanceRequestOk(r)) : r \in EnhanceInputs}
EnhanceVideo(c, p) == Submit(c, p, "enhance", EnhanceOutcomes)

TranscodeOutcomes ==
    {Outcome(TranscodeInputOk(r), TranscodeRequestOk(TranscodeDefaults(r))) : r \in TranscodeInputs}
TranscodeVideo(c, p) == Submit(c, p, "transcode", TranscodeOutcomes)

SeparateOutcomes == {Outcome(SeparateInputOk(r), SeparateRequestOk(r)) : r \in SeparateInputs}
SeparateAudio(c, p) == Submit(c, p, "separate_audio", SeparateOutcomes)

AddSubtitlesOutcomes ==
    {Outcome(AddSubtitlesInputOk(r), AddSubtitlesRequestOk(r)) : r \in AddSubtitlesInputs}
AddSubtitles(c, p) == Submit(c, p, "add_subtitles", AddSubtitlesOutcomes)

RemoveSubtitlesOutcomes ==
    {Outcome(RemoveSubtitlesInputOk(r), RemoveSubtitlesRequestOk(r)) : r \in RemoveSubtitlesInputs}
RemoveSubtitles(c, p) == Submit(c, p, "remove_subtitles", RemoveSubtitlesOutcomes)

\* resolve_media_ref accepts a public URL or a presignable artifact of the
\* caller with the right type, format and size; anything else is refused.
MediaRefs == [form : {"url", "artifact"}, presignable : BOOLEAN, mine : BOOLEAN, fits : BOOLEAN]
ResolvesMediaRef(r) == r.form = "url" \/ (r.presignable /\ r.mine /\ r.fits)

CreateOmniHuman(c, p) ==
    Submit(c, p, "omnihuman", {Outcome(ResolvesMediaRef(r), TRUE) : r \in MediaRefs})

Submitting(k) == {c \in Calls : call[c].pc = "sent" /\ Provider(call[c].kind) = Provider(k)}

Acquire(c) ==
    /\ call[c].pc = "queued"
    /\ Cardinality(Submitting(call[c].kind)) < Slots
    /\ Goto(c, "sent")
    /\ UNCHANGED <<task, owner, kept>>

-----------------------------------------------------------------------------
(* What a provider answers to a submission, whether it may have created    *)
(* the task, and how the adapters read the answer.                         *)
(*   ok       an accepted task       done     a finished output (enhance)  *)
(*   garbled  2xx, unreadable        denied   2xx, success is false        *)
(*   refused  4xx and 429            failed   5xx                          *)
(*   timeout  no answer in time      unsent   the connection failed        *)
(*   broken   the connection failed after the request was sent             *)

Replies(k) ==
    {"ok", "garbled", "denied", "refused", "failed", "timeout", "unsent", "broken"}
        \cup (IF k = "enhance" THEN {"done"} ELSE {})

Creates(reply) ==
    CASE reply \in {"ok", "done", "garbled"}        -> {TRUE}
      [] reply \in {"denied", "refused", "unsent"}  -> {FALSE}
      [] reply \in {"failed", "timeout", "broken"}  -> BOOLEAN

\* The gateway of MediaKit takes every 5xx for an unknown outcome.
VodHttpAmbiguous(reply) == reply = "failed"

Unsettled == {"timeout", "broken", "unsent"}

EnhanceAmbiguous(reply) == reply \in Unsettled \/ VodHttpAmbiguous(reply)

TranscodeAmbiguous(reply) == reply \in Unsettled \/ VodHttpAmbiguous(reply)

SeparateAmbiguous(reply) == reply \in Unsettled \/ VodHttpAmbiguous(reply)

\* Only the subtitle adapter and OmniHuman take a 2xx body they cannot read
\* for an unknown outcome.
SubtitleAmbiguous(reply) == reply \in Unsettled \cup {"garbled"} \/ VodHttpAmbiguous(reply)

\* Variant: a mutation that times out is read like a poll that times out.
VisionAmbiguousIfFailed(reply) == reply \in {"failed", "garbled"}

\* OmniHuman knows that a request which was never sent has no effect; a 5xx
\* that wraps a rejection of the request itself is a refusal.
VisionAmbiguous(reply) == reply \in {"failed", "timeout", "broken", "garbled"}

Ambiguous(k, reply) ==
    CASE k = "enhance"        -> EnhanceAmbiguous(reply)
      [] k = "transcode"      -> TranscodeAmbiguous(reply)
      [] k = "separate_audio" -> SeparateAmbiguous(reply)
      [] k \in {"add_subtitles", "remove_subtitles"} -> SubtitleAmbiguous(reply)
      [] k = "omnihuman"      -> VisionAmbiguous(reply)

\* The error a create tool returns (provider_error_result).
ErrorAnswer(k, reply) ==
    CASE Ambiguous(k, reply)                       -> "ambiguous"
      [] ~Ambiguous(k, reply) /\ reply = "garbled" -> "unreadable"
      [] ~Ambiguous(k, reply) /\ reply # "garbled" -> "clean"

NewTask(c, t, state, outputs) ==
    task' = [task EXCEPT ![t] = [kind |-> call[c].kind, made |-> c,
                                 state |-> state, outputs |-> outputs]]

Unmade == {t \in Tasks : ~Exists(t)}

\* A direct result is copied to the store if that works, and may come with a
\* task ID; that ID is returned but not recorded.
Received(c, reply) ==
    /\ call[c].pc = "sent"
    /\ \E created \in Creates(reply) :
       \E t \in IF created THEN {t \in Unmade : \A u \in Unmade : t <= u} ELSE {NoTask} :
          /\ IF created
             THEN NewTask(c, t, IF reply = "done" THEN "completed" ELSE "queued",
                          IF reply = "done" THEN {"video"} ELSE {})
             ELSE task' = task
          /\ \E copied \in IF reply = "done" THEN SUBSET {"video"} ELSE {{}} :
             call' = [call EXCEPT
                ![c].got = copied,
                ![c].task = IF reply \in {"ok", "done"} THEN t ELSE NoTask,
                ![c].pc = IF reply = "ok" THEN "record" ELSE "ended",
                ![c].answer = CASE reply = "ok"   -> "none"
                                [] reply = "done" -> "succeeded"
                                [] OTHER          -> ErrorAnswer(call[c].kind, reply)]
    /\ UNCHANGED <<owner, kept>>

Submitted(c) == \E reply \in Replies(call[c].kind) : Received(c, reply)

\* The ownership row is written after the slot is given back.  When SQLite
\* raises, or the call is cut off here, the call ends in an exception, and the
\* row may or may not be there.
Record(c) ==
    /\ call[c].pc = "record"
    /\ owner' = [owner EXCEPT ![call[c].task] = By(c)]
    /\ End(c, "accepted")
    /\ UNCHANGED <<task, kept>>

RecordFails(c) ==
    /\ call[c].pc = "record"
    /\ owner' \in {owner, [owner EXCEPT ![call[c].task] = By(c)]}
    /\ End(c, "crashed")
    /\ UNCHANGED <<task, kept>>

-----------------------------------------------------------------------------
(* Polling: vod_get_task with an operation, omnihuman_get_task without.    *)

\* Variant: any recorded task may be polled.
OwnsSomehow(p, k, t) == owner[t] # Nobody /\ Provider(task[t].kind) = Provider(k)

\* The ownership row of this provider must name the caller; a local principal
\* also reaches a task that has none.  A task of the other provider is told to
\* nobody: it has no row here, and this provider does not know it.
Owns(p, k, t) ==
    /\ Provider(task[t].kind) = Provider(k)
    /\ owner[t] = p \/ (owner[t] = Nobody /\ p \in Local)

\* Persisting needs a background call, exporting needs persisting.  The call
\* remembers, for what is said of it below, whether the task had no row.
Poll(c, p, k, t, keep, refused) ==
    /\ call[c].pc = "idle" /\ Exists(t)
    /\ call' = [call EXCEPT ![c] =
          IF refused \/ ~Owns(p, k, t) THEN [@ EXCEPT !.pc = "ended", !.answer = "refused"]
          ELSE [@ EXCEPT !.pc = "fetch", !.op = "poll", !.kind = k, !.by = p, !.task = t,
                         !.unrecorded = owner[t] = Nobody, !.keep = keep]]
    /\ UNCHANGED <<task, owner, kept>>

VodGetTask(c, p) ==
    \E k \in VodKinds, t \in Tasks, keep, export, background \in BOOLEAN :
        Poll(c, p, k, t, keep, (export /\ ~keep) \/ (keep /\ ~background))

OmniHumanGetTask(c, p) ==
    \E t \in Tasks, keep, export, background \in BOOLEAN :
        Poll(c, p, "omnihuman", t, keep, (export /\ ~keep) \/ (keep /\ ~background))

\* What the adapters make of the provider's view of task t.  Three check the
\* task type; the other two only miss the outputs they look for, once the
\* task has completed.
View(t) == IF task[t].state = "completed" THEN "outputs" ELSE "unfinished"

EnhanceView(t) == IF task[t].kind = "enhance" THEN View(t) ELSE "invalid"

TranscodeView(t) ==
    IF task[t].state = "completed" /\ "video" \notin task[t].outputs THEN "invalid" ELSE View(t)

SeparateView(t) ==
    IF task[t].state = "completed" /\ "video" \in task[t].outputs THEN "invalid" ELSE View(t)

SubtitlesView(k, t) == IF task[t].kind = k THEN View(t) ELSE "invalid"

OmniHumanView(t) == View(t)

Fetched(k, t) ==
    CASE k = "enhance"        -> EnhanceView(t)
      [] k = "transcode"      -> TranscodeView(t)
      [] k = "separate_audio" -> SeparateView(t)
      [] k \in {"add_subtitles", "remove_subtitles"} -> SubtitlesView(k, t)
      [] k = "omnihuman"      -> OmniHumanView(t)

\* A read is repeated when its error is retryable and not ambiguous.  The
\* MediaKit gateway calls every 5xx ambiguous, also that of a read.
Retryable(k, reply) ==
    CASE reply = "busy"    -> TRUE
      [] reply = "failed"  -> k = "omnihuman"
      [] reply = "broken"  -> TRUE
      [] reply = "garbled" -> FALSE

ReadFails(c) ==
    /\ call[c].pc = "fetch"
    /\ \E reply \in {"busy", "failed", "broken", "garbled"} :
          IF Retryable(call[c].kind, reply) /\ call[c].tries + 1 < MaxAttempts
          THEN call' = [call EXCEPT ![c].tries = @ + 1]
          ELSE End(c, "error")
    /\ UNCHANGED <<task, owner, kept>>

\* A wrong operation is told apart from a missing task only by the hint in
\* the message (operation_mismatch_error).
Read(c) ==
    LET view == Fetched(call[c].kind, call[c].task) IN
    /\ call[c].pc = "fetch"
    /\ IF view = "outputs" /\ call[c].keep THEN Goto(c, "keep")
       ELSE End(c, IF view = "invalid" THEN "error" ELSE view)
    /\ UNCHANGED <<task, owner, kept>>

\* The roles under which operation k finds the outputs of t.
Sources(k, t) ==
    IF k = "separate_audio" THEN task[t].outputs \cap {"voice", "background"} ELSE {"video"}

\* Every output that has no artifact is copied, and each copy may fail on
\* its own; an output with an artifact is answered from the cache.
KeepVodOutputs(c) ==
    LET t == call[c].task
        sources == Sources(call[c].kind, t)
    IN
    /\ call[c].pc = "keep" /\ call[c].kind \in VodKinds
    /\ \E copied \in SUBSET (sources \ kept[t]) :
          /\ kept' = [kept EXCEPT ![t] = @ \cup copied]
          /\ call' = [call EXCEPT ![c].pc = "ended", ![c].answer = "outputs", ![c].keep = FALSE,
                                  ![c].tries = 0, ![c].got = (kept[t] \cup copied) \cap sources]
    /\ UNCHANGED <<task, owner>>

\* Here the cache is read and written outside the handler's try block: when
\* SQLite raises, the poll does, before the copy or after it.
KeepVideo(c) ==
    LET t == call[c].task IN
    /\ call[c].pc = "keep" /\ call[c].kind = "omnihuman"
    /\ \/ \E copied \in SUBSET ({"video"} \ kept[t]) :
             /\ kept' = [kept EXCEPT ![t] = @ \cup copied]
             /\ call' = [call EXCEPT ![c].pc = "ended", ![c].answer = "outputs", ![c].keep = FALSE,
                                     ![c].tries = 0, ![c].got = kept[t] \cup copied]
       \/ kept' = kept /\ End(c, "crashed")
    /\ UNCHANGED <<task, owner>>

-----------------------------------------------------------------------------
(* omnihuman_cancel_task.  The provider cancels queued tasks only, and for *)
(* a few seconds may not know a new task.                                  *)

CancelTask(c, p) ==
    /\ call[c].pc = "idle"
    /\ \E t \in Tasks \ Unmade :
          call' = [call EXCEPT ![c] =
              IF Owns(p, "omnihuman", t)
              THEN [@ EXCEPT !.pc = "cancel", !.op = "cancel", !.kind = "omnihuman", !.by = p, !.task = t,
                             !.unrecorded = owner[t] = Nobody]
              ELSE [@ EXCEPT !.pc = "ended", !.answer = "refused"]]
    /\ UNCHANGED <<task, owner, kept>>

CancelAnswered(c) ==
    LET t == call[c].task IN
    /\ call[c].pc = "cancel"
    /\ IF task[t].state = "queued"
       THEN task' = [task EXCEPT ![t].state = "canceled"] /\ End(c, "canceled")
       ELSE task' = task /\ End(c, "not_canceled")
    /\ UNCHANGED <<owner, kept>>

CancelFails(c) ==
    LET t == call[c].task IN
    /\ call[c].pc = "cancel"
    /\ \E reply \in Replies("omnihuman") \ {"ok"}, applied \in BOOLEAN :
          /\ applied => reply \in {"garbled", "failed", "timeout", "broken"} /\ task[t].state = "queued"
          /\ task' = IF applied THEN [task EXCEPT ![t].state = "canceled"] ELSE task
          /\ End(c, ErrorAnswer("omnihuman", reply))
    /\ UNCHANGED <<owner, kept>>

-----------------------------------------------------------------------------
(* The providers run the tasks they hold.                                  *)

Runs(t) ==
    /\ task[t].state = "queued"
    /\ task' = [task EXCEPT ![t].state = "running"]
    /\ UNCHANGED <<owner, kept, call>>

Results(k) == IF k = "separate_audio" THEN (SUBSET {"voice", "background"}) \ {{}} ELSE {{"video"}}

Completes(t) ==
    /\ task[t].state = "running"
    /\ \E outputs \in Results(task[t].kind) :
          task' = [task EXCEPT ![t].state = "completed", ![t].outputs = outputs]
    /\ UNCHANGED <<owner, kept, call>>

Fails(t) ==
    /\ task[t].state = "running"
    /\ task' = [task EXCEPT ![t].state = "failed"]
    /\ UNCHANGED <<owner, kept, call>>

-----------------------------------------------------------------------------
Start(c, p) ==
    \/ EnhanceVideo(c, p) \/ TranscodeVideo(c, p) \/ SeparateAudio(c, p)
    \/ AddSubtitles(c, p) \/ RemoveSubtitles(c, p) \/ CreateOmniHuman(c, p)
    \/ VodGetTask(c, p) \/ OmniHumanGetTask(c, p) \/ CancelTask(c, p)

Step(c) ==
    \/ Acquire(c) \/ Submitted(c) \/ Record(c) \/ RecordFails(c)
    \/ ReadFails(c) \/ Read(c) \/ KeepVodOutputs(c) \/ KeepVideo(c)
    \/ CancelAnswered(c) \/ CancelFails(c)

Upstream(t) == Runs(t) \/ Completes(t) \/ Fails(t)

Next ==
    \/ \E c \in Calls, p \in Principals : Start(c, p)
    \/ \E c \in Calls : Step(c)
    \/ \E t \in Tasks : Upstream(t)

Spec == Init /\ [][Next]_vars

-----------------------------------------------------------------------------
(* What the tools promise.                                                 *)

\* A create call that ends having left a task at the provider returns it or says
\* that it may exist, with two exceptions: three adapters report a 2xx answer they
\* cannot read without that warning (EnhanceAmbiguous, TranscodeAmbiguous,
\* SeparateAmbiguous), and an exception while the row of an accepted task is
\* written loses its ID (ownership_store.record after the slot).
LostTasksAreFlagged ==
    \A t \in Tasks, c \in Calls :
        Exists(t) /\ task[t].made = c /\ Ended(c) =>
            \/ call[c].answer \in {"accepted", "succeeded"} /\ call[c].task = t
            \/ call[c].answer = "ambiguous"
            \/ /\ call[c].answer = "unreadable"
               /\ call[c].kind \in {"enhance", "transcode", "separate_audio"}
            \/ call[c].answer = "crashed" /\ call[c].task = t

\* Nobody is told the state or the outputs of a task, or cancels one, that
\* another principal's call created, but a local principal that asked when the
\* task had no row (require_owner); a task with an owner is its creator's.
OnlyCreatorsReach ==
    /\ \A t \in Tasks : owner[t] # Nobody => owner[t] = By(task[t].made)
    /\ \A c \in Calls :
          call[c].answer \in {"unfinished", "outputs", "canceled", "not_canceled"}
              => \/ By(c) = By(task[call[c].task].made)
                 \/ By(c) \in Local /\ call[c].unrecorded
=============================================================================
