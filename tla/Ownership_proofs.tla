--------------------------- MODULE Ownership_proofs ---------------------------
(***************************************************************************)
(* Proofs that what a caller made stays its own, for any principals, calls *)
(* and provider tasks, keys or assets, in the four modules that keep such  *)
(* records.  They share nothing with each other; each part below has an    *)
(* inductive invariant of its own.                                         *)
(*   MediaTasks          a task is reached by its creator only, and known  *)
(*                       to it or reported                                 *)
(*   UploadedKeys        a URL is signed for the uploader only             *)
(*   AssetLibrary        one group a subject, everything made accounted    *)
(*                       for, deletions that spare what they have seen     *)
(*   GenerationRequests  a body is valid for its model, a final render of  *)
(*                       its caller's own Draft                            *)
(***************************************************************************)
EXTENDS MediaTasks, UploadedKeys, AssetLibrary, GenerationRequests, FiniteSetTheorems, TLAPS

-----------------------------------------------------------------------------
(* MediaTasks.                                                             *)

Outputs == {"video", "voice", "background"}
TaskStates == {"absent", "queued", "running", "completed", "failed", "canceled"}
TaskRecords == [kind : Kinds \cup {"none"}, made : Calls \cup {Nobody}, state : TaskStates,
                outputs : SUBSET Outputs]
MediaPlaces == {"idle", "queued", "sent", "record", "fetch", "keep", "cancel", "ended"}
MediaAnswers == {"none", "refused", "crashed", "succeeded", "ambiguous", "unreadable", "clean",
                 "accepted", "error", "unfinished", "outputs", "canceled", "not_canceled"}
CallRecords == [pc : MediaPlaces, op : {"none", "create", "poll", "cancel"}, kind : Kinds \cup {"none"},
                by : Principals \cup {Nobody}, task : Tasks \cup {NoTask},
                unrecorded : BOOLEAN, keep : BOOLEAN,
                tries : Nat, answer : MediaAnswers, got : SUBSET Outputs]

\* What a call carries where it stands.
MediaOK(j) ==
    /\ j \in CallRecords
    /\ j.pc \notin {"idle", "ended"} => j.kind \in Kinds /\ j.by \in Principals
    /\ j.pc # "ended" => j.answer = "none"
    /\ j.pc \in {"queued", "sent", "record"} => j.op = "create"
    /\ j.pc \in {"record", "fetch", "keep", "cancel"} => j.task \in Tasks

MediaType ==
    /\ task \in [Tasks -> TaskRecords]
    /\ owner \in [Tasks -> Principals \cup {Nobody}]
    /\ kept \in [Tasks -> SUBSET Outputs]
    /\ call \in [Calls -> CallRecords]
    /\ \A c \in Calls : MediaOK(call[c])

Told == {"unfinished", "outputs", "canceled", "not_canceled"}

\* What a call that made t has answered.
Flagged(j, t) ==
    \/ j.answer \in {"accepted", "succeeded"} /\ j.task = t
    \/ j.answer = "ambiguous"
    \/ j.answer = "unreadable" /\ j.kind \in {"enhance", "transcode", "separate_audio"}
    \/ j.answer = "crashed" /\ j.task = t

\* The call that created t is about to record it, or has answered.
Creator(j, t) ==
    /\ j.op = "create" /\ j.by \in Principals
    /\ \/ j.pc = "record" /\ j.task = t
       \/ j.pc = "ended" /\ Flagged(j, t)

\* A task is recorded for its creator only, and reached through its record.
TaskInv ==
    \A t \in Tasks :
        IF Exists(t) THEN /\ task[t].made \in Calls /\ Creator(call[task[t].made], t)
                          /\ owner[t] \in {Nobody, By(task[t].made)}
        ELSE owner[t] = Nobody

ReachInv ==
    \A c \in Calls :
        /\ call[c].pc = "record" =>
              call[c].task \in Tasks /\ Exists(call[c].task) /\ task[call[c].task].made = c
        /\ call[c].pc \in {"fetch", "keep", "cancel"} \/ call[c].answer \in Told =>
              /\ call[c].task \in Tasks /\ Exists(call[c].task)
              /\ \/ By(c) = By(task[call[c].task].made)
                 \/ By(c) \in Local /\ call[c].unrecorded

-----------------------------------------------------------------------------
\* Nothing has been created.
LEMMA InitMedia == Init => MediaType /\ TaskInv /\ ReachInv
<1>. SUFFICES ASSUME Init PROVE MediaType /\ TaskInv /\ ReachInv
  OBVIOUS
<1>1. \A c \in Calls : MediaOK(call[c]) /\ call[c].pc = "idle" /\ call[c].answer = "none"
  BY DEF Init, MediaOK, CallRecords, MediaPlaces, MediaAnswers
<1>2. MediaType
  BY <1>1 DEF Init, MediaType, TaskRecords, TaskStates, MediaOK, CallRecords, MediaPlaces, MediaAnswers
<1>3. TaskInv
  BY DEF Init, TaskInv, Exists
<1>4. ReachInv
  BY <1>1 DEF ReachInv, Told
<1>. QED
  BY <1>2, <1>3, <1>4

\* A failed request is told as clean, ambiguous or unreadable.
LEMMA ErrorAnswers ==
    ASSUME NEW k \in Kinds, NEW reply
    PROVE  /\ ErrorAnswer(k, reply) \in {"ambiguous", "unreadable", "clean"}
           /\ reply \in {"garbled", "failed", "timeout", "broken"} =>
                 \/ ErrorAnswer(k, reply) = "ambiguous"
                 \/ /\ ErrorAnswer(k, reply) = "unreadable"
                    /\ k \in {"enhance", "transcode", "separate_audio"}
<1>. DEFINE unsure == Ambiguous(k, reply)
<1>2. reply \in {"failed", "timeout", "broken"} => unsure
  BY DEF Ambiguous, Kinds, VodKinds, EnhanceAmbiguous, TranscodeAmbiguous,
     SeparateAmbiguous, SubtitleAmbiguous, VisionAmbiguous, VodHttpAmbiguous, Unsettled
<1>3. reply = "garbled" /\ ~unsure => k \in {"enhance", "transcode", "separate_audio"}
  BY DEF Ambiguous, Kinds, VodKinds, SubtitleAmbiguous, VisionAmbiguous
<1>4. CASE unsure
  BY <1>4 DEF ErrorAnswer
<1>5. CASE ~unsure /\ reply = "garbled"
  BY <1>3, <1>5 DEF ErrorAnswer
<1>6. CASE ~unsure /\ reply # "garbled"
  BY <1>2, <1>6 DEF ErrorAnswer
<1>. QED
  BY <1>4, <1>5, <1>6

\* A new create call: refused, crashed on its input, or queued.
LEMMA SubmitOK ==
    ASSUME MediaType, NEW c \in Calls, NEW p \in Principals, NEW k \in Kinds,
           NEW outcomes, Submit(c, p, k, outcomes),
           \A a \in outcomes : a \in {"none", "refused", "crashed"}
    PROVE  \E j : /\ MediaOK(j) /\ call' = [call EXCEPT ![c] = j]
                  /\ j.pc \in {"queued", "ended"} /\ j.answer \notin Told
<1>1. call[c] \in CallRecords /\ MediaOK(call[c])
  BY DEF MediaType, MediaOK
<1>2. PICK a \in {"none", "refused", "crashed"} :
        call' = [call EXCEPT ![c] =
              IF a = "none"
              THEN [@ EXCEPT !.pc = "queued", !.op = "create", !.kind = k, !.by = p]
              ELSE [@ EXCEPT !.pc = "ended", !.answer = a]]
  BY DEF Submit
<1>3. CASE a = "none"
  <2>. DEFINE j == [call[c] EXCEPT !.pc = "queued", !.op = "create", !.kind = k, !.by = p]
  <2>1. call' = [call EXCEPT ![c] = j]
    BY <1>2, <1>3
  <2>2. MediaOK(j) /\ j.pc = "queued" /\ j.answer = "none"
    <3>1. j \in CallRecords
      BY <1>1 DEF CallRecords, MediaPlaces
    <3>2. call[c].pc = "idle"
      BY DEF Submit
    <3>3. call[c].answer = "none"
      BY <1>1, <3>2 DEF MediaOK
    <3>4. j.pc = "queued" /\ j.op = "create" /\ j.kind = k /\ j.by = p /\ j.answer = call[c].answer
      BY <1>1 DEF CallRecords
    <3>. QED
      BY <3>1, <3>3, <3>4 DEF MediaOK
  <2>. QED
    BY <2>1, <2>2 DEF Told
<1>4. CASE a # "none"
  <2>. DEFINE j == [call[c] EXCEPT !.pc = "ended", !.answer = a]
  <2>1. call' = [call EXCEPT ![c] = j]
    BY <1>2, <1>4
  <2>2. j \in CallRecords /\ j.pc = "ended" /\ j.answer = a
    BY <1>1 DEF CallRecords, MediaPlaces, MediaAnswers
  <2>3. MediaOK(j)
    BY <1>1, <2>2 DEF MediaOK
  <2>. QED
    BY <1>2, <2>1, <2>2, <2>3 DEF Told
<1>. QED
  BY <1>3, <1>4

\* Each create tool is a submission with outcomes of its own.
LEMMA CreateOK ==
    ASSUME MediaType, NEW c \in Calls, NEW p \in Principals,
           \/ EnhanceVideo(c, p) \/ TranscodeVideo(c, p) \/ SeparateAudio(c, p)
           \/ AddSubtitles(c, p) \/ RemoveSubtitles(c, p) \/ CreateOmniHuman(c, p)
    PROVE  /\ UNCHANGED <<task, owner, kept>>
           /\ \E j : /\ MediaOK(j) /\ call' = [call EXCEPT ![c] = j]
                     /\ j.pc \in {"queued", "ended"} /\ j.answer \notin Told
<1>1. \A a, b : Outcome(a, b) \in {"none", "refused", "crashed"}
  BY DEF Outcome
<1>2. \E k \in Kinds : \E outcomes : /\ Submit(c, p, k, outcomes)
                                     /\ \A a \in outcomes : a \in {"none", "refused", "crashed"}
  <2>1. CASE EnhanceVideo(c, p)
    BY <1>1, <2>1 DEF EnhanceVideo, EnhanceOutcomes, Kinds, VodKinds
  <2>2. CASE TranscodeVideo(c, p)
    BY <1>1, <2>2 DEF TranscodeVideo, TranscodeOutcomes, Kinds, VodKinds
  <2>3. CASE SeparateAudio(c, p)
    BY <1>1, <2>3 DEF SeparateAudio, SeparateOutcomes, Kinds, VodKinds
  <2>4. CASE AddSubtitles(c, p)
    BY <1>1, <2>4 DEF AddSubtitles, AddSubtitlesOutcomes, Kinds, VodKinds
  <2>5. CASE RemoveSubtitles(c, p)
    BY <1>1, <2>5 DEF RemoveSubtitles, RemoveSubtitlesOutcomes, Kinds, VodKinds
  <2>6. CASE CreateOmniHuman(c, p)
    BY <1>1, <2>6 DEF CreateOmniHuman, Kinds
  <2>. QED
    BY <2>1, <2>2, <2>3, <2>4, <2>5, <2>6
<1>3. UNCHANGED <<task, owner, kept>>
  BY <1>2 DEF Submit
<1>. QED
  BY <1>2, <1>3, SubmitOK

\* A poll or a cancel reaches a task only through the caller's own record.
LEMMA PollOK ==
    ASSUME MediaType, NEW c \in Calls, NEW p \in Principals,
           VodGetTask(c, p) \/ OmniHumanGetTask(c, p) \/ CancelTask(c, p)
    PROVE  /\ UNCHANGED <<task, owner, kept>>
           /\ \E j : /\ MediaOK(j) /\ call' = [call EXCEPT ![c] = j]
                     /\ \/ j.pc = "ended" /\ j.answer = "refused"
                        \/ /\ j.pc \in {"fetch", "cancel"} /\ j.answer = "none"
                           /\ j.task \in Tasks /\ Exists(j.task) /\ j.by \in Principals
                           /\ \/ owner[j.task] = j.by
                              \/ j.by \in Local /\ j.unrecorded
<1>1. call[c] \in CallRecords /\ MediaOK(call[c]) /\ call[c].pc = "idle"
  BY DEF MediaType, MediaOK, VodGetTask, OmniHumanGetTask, CancelTask, Poll
<1>2. UNCHANGED <<task, owner, kept>>
  BY DEF VodGetTask, OmniHumanGetTask, CancelTask, Poll
<1>. DEFINE refusal == [call[c] EXCEPT !.pc = "ended", !.answer = "refused"]
            fetch(k, t, keep) == [call[c] EXCEPT !.pc = "fetch", !.op = "poll", !.kind = k, !.by = p,
                                                 !.task = t, !.unrecorded = owner[t] = Nobody,
                                                 !.keep = keep]
            cancel(t) == [call[c] EXCEPT !.pc = "cancel", !.op = "cancel", !.kind = "omnihuman",
                                         !.by = p, !.task = t, !.unrecorded = owner[t] = Nobody]
            may(t) == owner[t] = p \/ (owner[t] = Nobody /\ p \in Local)
<1>3. \/ call' = [call EXCEPT ![c] = refusal]
      \/ \E k \in Kinds, t \in Tasks, keep \in BOOLEAN :
            Exists(t) /\ may(t) /\ call' = [call EXCEPT ![c] = fetch(k, t, keep)]
      \/ \E t \in Tasks : Exists(t) /\ may(t) /\ call' = [call EXCEPT ![c] = cancel(t)]
  <2>1. ASSUME NEW k \in Kinds, NEW t \in Tasks, NEW keep \in BOOLEAN,
               Exists(t), \/ call' = [call EXCEPT ![c] = refusal]
                          \/ may(t) /\ call' = [call EXCEPT ![c] = fetch(k, t, keep)]
        PROVE  \/ call' = [call EXCEPT ![c] = refusal]
               \/ \E k1 \in Kinds, t1 \in Tasks, keep1 \in BOOLEAN :
                     /\ Exists(t1) /\ may(t1)
                     /\ call' = [call EXCEPT ![c] = fetch(k1, t1, keep1)]
    <3>. HIDE DEF refusal, fetch, may
    <3>. QED
      BY <2>1
  <2>2. CASE VodGetTask(c, p)
    <3>1. PICK k \in VodKinds, t \in Tasks, keep \in BOOLEAN, export \in BOOLEAN, background \in BOOLEAN :
            Poll(c, p, k, t, keep, (export /\ ~keep) \/ (keep /\ ~background))
      BY <2>2, Zenon DEF VodGetTask
    <3>2. k \in Kinds
      BY DEF Kinds
    <3>3. Exists(t) /\ \/ call' = [call EXCEPT ![c] = refusal]
                       \/ may(t) /\ call' = [call EXCEPT ![c] = fetch(k, t, keep)]
      BY <3>1 DEF Poll, Owns
    <3>. HIDE DEF refusal, fetch, may
    <3>. QED
      BY <2>1, <3>2, <3>3
  <2>3. CASE OmniHumanGetTask(c, p)
    <3>1. PICK t \in Tasks, keep \in BOOLEAN, export \in BOOLEAN, background \in BOOLEAN :
            Poll(c, p, "omnihuman", t, keep, (export /\ ~keep) \/ (keep /\ ~background))
      BY <2>3, Zenon DEF OmniHumanGetTask
    <3>2. "omnihuman" \in Kinds
      BY DEF Kinds
    <3>3. Exists(t) /\ \/ call' = [call EXCEPT ![c] = refusal]
                       \/ may(t) /\ call' = [call EXCEPT ![c] = fetch("omnihuman", t, keep)]
      BY <3>1 DEF Poll, Owns
    <3>. HIDE DEF refusal, fetch, may
    <3>. QED
      BY <2>1, <3>2, <3>3
  <2>4. CASE CancelTask(c, p)
    BY <2>4 DEF CancelTask, Owns, Unmade
  <2>. QED
    BY <2>2, <2>3, <2>4
<1>4. MediaOK(refusal) /\ refusal.pc = "ended" /\ refusal.answer = "refused"
  <2>1. refusal \in CallRecords /\ refusal.pc = "ended" /\ refusal.answer = "refused"
    BY <1>1 DEF CallRecords, MediaPlaces, MediaAnswers
  <2>. QED
    BY <2>1 DEF MediaOK
<1>5. ASSUME NEW k \in Kinds, NEW t \in Tasks, NEW keep \in BOOLEAN
      PROVE  /\ MediaOK(fetch(k, t, keep)) /\ fetch(k, t, keep).pc = "fetch"
             /\ fetch(k, t, keep).answer = "none" /\ fetch(k, t, keep).task = t
             /\ fetch(k, t, keep).by = p
             /\ fetch(k, t, keep).unrecorded = (owner[t] = Nobody)
  <2>1. /\ fetch(k, t, keep) \in CallRecords /\ fetch(k, t, keep).pc = "fetch"
        /\ fetch(k, t, keep).answer = call[c].answer /\ fetch(k, t, keep).task = t
        /\ fetch(k, t, keep).by = p /\ fetch(k, t, keep).kind = k
        /\ fetch(k, t, keep).unrecorded = (owner[t] = Nobody)
    BY <1>1 DEF CallRecords, MediaPlaces
  <2>2. call[c].answer = "none"
    BY <1>1 DEF MediaOK
  <2>. QED
    BY <2>1, <2>2 DEF MediaOK
<1>6. ASSUME NEW t \in Tasks
      PROVE  /\ MediaOK(cancel(t)) /\ cancel(t).pc = "cancel"
             /\ cancel(t).answer = "none" /\ cancel(t).task = t /\ cancel(t).by = p
             /\ cancel(t).unrecorded = (owner[t] = Nobody)
  <2>1. /\ cancel(t) \in CallRecords /\ cancel(t).pc = "cancel"
        /\ cancel(t).answer = call[c].answer /\ cancel(t).task = t
        /\ cancel(t).by = p /\ cancel(t).kind = "omnihuman"
        /\ cancel(t).unrecorded = (owner[t] = Nobody)
    BY <1>1 DEF CallRecords, MediaPlaces, Kinds
  <2>2. call[c].answer = "none"
    BY <1>1 DEF MediaOK
  <2>. QED
    BY <2>1, <2>2 DEF MediaOK, Kinds
<1>. DEFINE Result(j) == /\ MediaOK(j) /\ call' = [call EXCEPT ![c] = j]
                         /\ \/ j.pc = "ended" /\ j.answer = "refused"
                            \/ /\ j.pc \in {"fetch", "cancel"} /\ j.answer = "none"
                               /\ j.task \in Tasks /\ Exists(j.task) /\ j.by \in Principals
                               /\ \/ owner[j.task] = j.by
                                  \/ j.by \in Local /\ j.unrecorded
<1>. HIDE DEF refusal, fetch, cancel
<1>7. CASE call' = [call EXCEPT ![c] = refusal]
  <2>1. Result(refusal)
    BY <1>4, <1>7
  <2>. QED
    BY <1>2, <2>1
<1>8. ASSUME NEW k \in Kinds, NEW t \in Tasks, NEW keep \in BOOLEAN, Exists(t), may(t),
             call' = [call EXCEPT ![c] = fetch(k, t, keep)]
      PROVE  \E j : Result(j)
  <2>. DEFINE j == fetch(k, t, keep)
  <2>2. /\ MediaOK(j) /\ j.pc = "fetch" /\ j.answer = "none" /\ j.task = t /\ j.by = p
        /\ j.unrecorded = (owner[t] = Nobody)
    BY <1>5
  <2>3. owner[t] = p \/ (p \in Local /\ j.unrecorded)
    BY <1>8, <2>2
  <2>. HIDE DEF j
  <2>1. Result(j)
    BY <1>8, <2>2, <2>3 DEF j
  <2>. QED
    BY <2>1
<1>9. ASSUME NEW t \in Tasks, Exists(t), may(t), call' = [call EXCEPT ![c] = cancel(t)]
      PROVE  \E j : Result(j)
  <2>1. Result(cancel(t))
    BY <1>6, <1>9
  <2>. QED
    BY <2>1
<1>. HIDE DEF may
<1>. QED
  BY <1>2, <1>3, <1>7, <1>8, <1>9

\* The steps of a call that touch neither the tasks nor their owners.
LEMMA QuietOK ==
    ASSUME MediaType, NEW c \in Calls,
           \/ Acquire(c) \/ ReadFails(c) \/ Read(c) \/ KeepVodOutputs(c) \/ KeepVideo(c)
    PROVE  /\ UNCHANGED <<task, owner>> /\ kept' \in [Tasks -> SUBSET Outputs]
           /\ \E j : /\ MediaOK(j) /\ call' = [call EXCEPT ![c] = j]
                     /\ j.by = call[c].by /\ j.task = call[c].task /\ j.op = call[c].op
                     /\ j.kind = call[c].kind /\ j.unrecorded = call[c].unrecorded
                     /\ j.pc # "record" /\ call[c].pc \in {"queued", "fetch", "keep"}
                     /\ call[c].pc = "queued" => j.pc = "sent" /\ j.answer = "none"
<1>. DEFINE k == call[c]
<1>1. /\ k \in CallRecords /\ MediaOK(k) /\ call \in [Calls -> CallRecords]
      /\ kept \in [Tasks -> SUBSET Outputs]
  BY DEF MediaType, MediaOK
<1>. DEFINE Result == \E j : /\ MediaOK(j) /\ call' = [call EXCEPT ![c] = j]
                             /\ j.by = k.by /\ j.task = k.task /\ j.op = k.op /\ j.kind = k.kind
                             /\ j.unrecorded = k.unrecorded
                             /\ j.pc # "record" /\ k.pc \in {"queued", "fetch", "keep"}
                             /\ k.pc = "queued" => j.pc = "sent" /\ j.answer = "none"
<1>2. ASSUME NEW a \in MediaAnswers, End(c, a), k.pc \in {"fetch", "keep"}
      PROVE  Result
  <2>. DEFINE j == [k EXCEPT !.pc = "ended", !.answer = a, !.keep = FALSE, !.tries = 0]
  <2>1. call' = [call EXCEPT ![c] = j]
    BY <1>2 DEF End
  <2>2. /\ j \in CallRecords /\ j.pc = "ended" /\ j.answer = a
        /\ j.by = k.by /\ j.task = k.task /\ j.op = k.op /\ j.kind = k.kind
        /\ j.unrecorded = k.unrecorded
    BY <1>1 DEF CallRecords, MediaPlaces
  <2>. QED
    BY <1>2, <2>1, <2>2 DEF MediaOK
<1>3. ASSUME NEW l \in {"sent", "keep"}, Goto(c, l),
             (k.pc = "queued" /\ l = "sent") \/ (k.pc = "fetch" /\ l = "keep")
      PROVE  Result
  <2>. DEFINE j == [k EXCEPT !.pc = l]
  <2>1. call' = [call EXCEPT ![c] = j]
    BY <1>3 DEF Goto
  <2>2. /\ j \in CallRecords /\ j.pc = l /\ j.answer = k.answer
        /\ j.by = k.by /\ j.task = k.task /\ j.op = k.op /\ j.kind = k.kind
        /\ j.unrecorded = k.unrecorded
    BY <1>1, <1>3 DEF CallRecords, MediaPlaces
  <2>. QED
    BY <1>1, <1>3, <2>1, <2>2 DEF MediaOK
<1>4. ASSUME NEW S \in SUBSET Outputs, k.pc = "keep",
             call' = [call EXCEPT ![c].pc = "ended", ![c].answer = "outputs", ![c].keep = FALSE,
                                  ![c].tries = 0, ![c].got = S]
      PROVE  Result
  <2>. DEFINE j == [k EXCEPT !.pc = "ended", !.answer = "outputs", !.keep = FALSE,
                             !.tries = 0, !.got = S]
  <2>1. call' = [call EXCEPT ![c] = j]
    BY <1>4
  <2>2. /\ j \in CallRecords /\ j.pc = "ended"
        /\ j.by = k.by /\ j.task = k.task /\ j.op = k.op /\ j.kind = k.kind
        /\ j.unrecorded = k.unrecorded
    BY <1>1 DEF CallRecords, MediaPlaces, MediaAnswers
  <2>. QED
    BY <1>4, <2>1, <2>2 DEF MediaOK
<1>5. CASE Acquire(c)
  BY <1>1, <1>3, <1>5 DEF Acquire
<1>6. CASE ReadFails(c)
  <2>1. CASE End(c, "error")
    BY <1>1, <1>2, <1>6, <2>1 DEF ReadFails, MediaAnswers
  <2>2. CASE call' = [call EXCEPT ![c].tries = @ + 1]
    <3>. DEFINE j == [k EXCEPT !.tries = k.tries + 1]
    <3>1. call' = [call EXCEPT ![c] = j] /\ k.pc = "fetch"
      BY <1>6, <2>2 DEF ReadFails
    <3>2. k.tries \in Nat
      BY <1>1 DEF CallRecords
    <3>3. k.tries + 1 \in Nat
      BY <3>2
    <3>4. /\ j \in CallRecords /\ j.pc = k.pc /\ j.answer = k.answer
          /\ j.by = k.by /\ j.task = k.task /\ j.op = k.op /\ j.kind = k.kind
          /\ j.unrecorded = k.unrecorded
      BY <1>1, <3>3 DEF CallRecords
    <3>5. Result
      BY <1>1, <3>1, <3>4 DEF MediaOK
    <3>. QED
      BY <1>1, <1>6, <3>5 DEF ReadFails
  <2>. QED
    BY <1>6, <2>1, <2>2 DEF ReadFails
<1>7. CASE Read(c)
  <2>1. k.pc = "fetch" /\ k.kind \in Kinds
    BY <1>1, <1>7 DEF Read, MediaOK
  <2>2. Fetched(k.kind, k.task) \in {"outputs", "unfinished", "invalid"}
    BY <2>1 DEF Fetched, Kinds, VodKinds, EnhanceView, TranscodeView, SeparateView, SubtitlesView,
               OmniHumanView, View
  <2>3. Goto(c, "keep") \/ \E a \in MediaAnswers : End(c, a)
    BY <1>7, <2>2 DEF Read, MediaAnswers
  <2>. QED
    BY <1>1, <1>2, <1>3, <1>7, <2>1, <2>3 DEF Read
<1>8. CASE KeepVodOutputs(c)
  <2>1. k.pc = "keep" /\ k.task \in Tasks \cup {NoTask}
    BY <1>1, <1>8 DEF KeepVodOutputs, CallRecords
  <2>2. Sources(k.kind, k.task) \subseteq Outputs
    BY DEF Sources, Outputs
  <2>3. PICK copied \in SUBSET (Sources(k.kind, k.task) \ kept[k.task]) :
          /\ kept' = [kept EXCEPT ![k.task] = @ \cup copied]
          /\ call' = [call EXCEPT ![c].pc = "ended", ![c].answer = "outputs", ![c].keep = FALSE,
                        ![c].tries = 0, ![c].got = (kept[k.task] \cup copied) \cap Sources(k.kind, k.task)]
    BY <1>8 DEF KeepVodOutputs
  <2>4. kept' \in [Tasks -> SUBSET Outputs]
    BY <1>1, <2>2, <2>3
  <2>5. (kept[k.task] \cup copied) \cap Sources(k.kind, k.task) \in SUBSET Outputs
    BY <2>2
  <2>. QED
    BY <1>4, <1>8, <2>1, <2>3, <2>4, <2>5 DEF KeepVodOutputs
<1>9. CASE KeepVideo(c)
  <2>1. k.pc = "keep" /\ UNCHANGED <<task, owner>>
    BY <1>9 DEF KeepVideo
  <2>2. CASE kept' = kept /\ End(c, "crashed")
    BY <1>1, <1>2, <2>1, <2>2 DEF MediaAnswers
  <2>3. CASE k.task \in Tasks /\ \E copied \in SUBSET ({"video"} \ kept[k.task]) :
             /\ kept' = [kept EXCEPT ![k.task] = @ \cup copied]
             /\ call' = [call EXCEPT ![c].pc = "ended", ![c].answer = "outputs", ![c].keep = FALSE,
                                     ![c].tries = 0, ![c].got = kept[k.task] \cup copied]
    <3>1. PICK copied \in SUBSET ({"video"} \ kept[k.task]) :
             /\ kept' = [kept EXCEPT ![k.task] = @ \cup copied]
             /\ call' = [call EXCEPT ![c].pc = "ended", ![c].answer = "outputs", ![c].keep = FALSE,
                                     ![c].tries = 0, ![c].got = kept[k.task] \cup copied]
      BY <2>3
    <3>2. kept[k.task] \cup copied \in SUBSET Outputs /\ copied \subseteq Outputs
      BY <1>1, <2>3 DEF Outputs
    <3>3. kept' \in [Tasks -> SUBSET Outputs]
      BY <1>1, <3>1, <3>2
    <3>. QED
      BY <1>4, <2>1, <3>1, <3>2, <3>3
  <2>4. k.task \in Tasks
    BY <1>1, <2>1 DEF MediaOK
  <2>. QED
    BY <1>9, <2>2, <2>3, <2>4 DEF KeepVideo
<1>. QED
  BY <1>5, <1>6, <1>7, <1>8, <1>9

\* Recording a task, and the answers to a cancel.
LEMMA EndOK ==
    ASSUME MediaType, NEW c \in Calls, NEW a \in MediaAnswers, End(c, a),
           call[c].pc \in {"record", "cancel"}
    PROVE  \E j : /\ MediaOK(j) /\ call' = [call EXCEPT ![c] = j]
                  /\ j.by = call[c].by /\ j.task = call[c].task /\ j.op = call[c].op
                  /\ j.kind = call[c].kind /\ j.unrecorded = call[c].unrecorded
                  /\ j.pc = "ended" /\ j.answer = a
<1>. DEFINE k == call[c]
            j == [k EXCEPT !.pc = "ended", !.answer = a, !.keep = FALSE, !.tries = 0]
<1>1. k \in CallRecords /\ MediaOK(k)
  BY DEF MediaType, MediaOK
<1>2. call' = [call EXCEPT ![c] = j]
  BY DEF End
<1>3. /\ j \in CallRecords /\ j.pc = "ended" /\ j.answer = a
      /\ j.by = k.by /\ j.task = k.task /\ j.op = k.op /\ j.kind = k.kind
      /\ j.unrecorded = k.unrecorded
  BY <1>1 DEF CallRecords, MediaPlaces
<1>. QED
  BY <1>2, <1>3 DEF MediaOK

\* The answer to a submission, with or without a new task.
LEMMA ReceivedOK ==
    ASSUME MediaType, NEW c \in Calls, Submitted(c)
    PROVE  \E j, t : 
              /\ MediaOK(j) /\ call' = [call EXCEPT ![c] = j] /\ call[c].pc = "sent"
              /\ j.by = call[c].by /\ j.answer \notin Told
              /\ UNCHANGED <<owner, kept>>
              /\ \/ task' = task /\ j.pc = "ended"
                 \/ /\ t \in Tasks /\ ~Exists(t) /\ Creator(j, t)
                    /\ j.pc = "record" => j.task = t
                    /\ \E r \in TaskRecords : /\ task' = [task EXCEPT ![t] = r]
                                              /\ r.made = c /\ r.state # "absent"
<1>. DEFINE k == call[c]
<1>1. k \in CallRecords /\ MediaOK(k) /\ k.pc = "sent"
  BY DEF MediaType, MediaOK, Submitted, Received
<1>2. k.kind \in Kinds /\ k.by \in Principals /\ k.op = "create" /\ k.answer = "none"
  BY <1>1 DEF MediaOK
<1>3. PICK reply \in Replies(k.kind) : Received(c, reply)
  BY DEF Submitted
<1>4. reply \in {"ok", "garbled", "denied", "refused", "failed", "timeout", "unsent", "broken", "done"}
  BY <1>3 DEF Replies
<1>. DEFINE End2 == IF reply = "ok" THEN "record" ELSE "ended"
            Ans == CASE reply = "ok"   -> "none"
                     [] reply = "done" -> "succeeded"
                     [] OTHER          -> ErrorAnswer(k.kind, reply)
            Tsk(t) == IF reply \in {"ok", "done"} THEN t ELSE NoTask
            Made(t) == [kind |-> k.kind, made |-> c,
                        state |-> IF reply = "done" THEN "completed" ELSE "queued",
                        outputs |-> IF reply = "done" THEN {"video"} ELSE {}]
            j(t, copied) == [k EXCEPT !.got = copied, !.task = Tsk(t), !.pc = End2, !.answer = Ans]
<1>51. PICK created \in Creates(reply) :
       \E t \in IF created THEN {t \in Unmade : \A u \in Unmade : t <= u} ELSE {NoTask} :
          /\ IF created
             THEN NewTask(c, t, IF reply = "done" THEN "completed" ELSE "queued",
                          IF reply = "done" THEN {"video"} ELSE {})
             ELSE task' = task
          /\ \E copied \in IF reply = "done" THEN SUBSET {"video"} ELSE {{}} :
             call' = [call EXCEPT
                ![c].got = copied,
                ![c].task = IF reply \in {"ok", "done"} THEN t ELSE NoTask,
                ![c].pc = IF reply = "ok" THEN "record" ELSE "ended",
                ![c].answer = CASE reply = "ok"   -> "none"
                                [] reply = "done" -> "succeeded"
                                [] OTHER          -> ErrorAnswer(call[c].kind, reply)]
  BY <1>3, Zenon DEF Received
<1>52. PICK t \in IF created THEN {t \in Unmade : \A u \in Unmade : t <= u} ELSE {NoTask} :
          /\ IF created
             THEN NewTask(c, t, IF reply = "done" THEN "completed" ELSE "queued",
                          IF reply = "done" THEN {"video"} ELSE {})
             ELSE task' = task
          /\ \E copied \in IF reply = "done" THEN SUBSET {"video"} ELSE {{}} :
             call' = [call EXCEPT
                ![c].got = copied, ![c].task = Tsk(t), ![c].pc = End2, ![c].answer = Ans]
  BY <1>51, Zenon
<1>53. PICK copied \in IF reply = "done" THEN SUBSET {"video"} ELSE {{}} :
             call' = [call EXCEPT
                ![c].got = copied, ![c].task = Tsk(t), ![c].pc = End2, ![c].answer = Ans]
  BY <1>52, Zenon
<1>5. /\ IF created THEN task' = [task EXCEPT ![t] = Made(t)] ELSE task' = task
      /\ call' = [call EXCEPT ![c] = j(t, copied)]
  <2>1. IF created THEN task' = [task EXCEPT ![t] = Made(t)] ELSE task' = task
    BY <1>52 DEF NewTask
  <2>. HIDE DEF Tsk, End2, Ans
  <2>2. call' = [call EXCEPT ![c] = j(t, copied)]
    BY <1>53
  <2>. QED
    BY <2>1, <2>2
<1>6. created \in BOOLEAN /\ (reply \in {"ok", "done", "garbled"} => created)
        /\ (reply \in {"denied", "refused", "unsent"} => ~created)
  BY <1>4 DEF Creates
<1>7. t \in Tasks \cup {NoTask} /\ (created => t \in Tasks /\ ~Exists(t))
  BY <1>6 DEF Unmade
<1>8. copied \in SUBSET Outputs
  BY DEF Outputs
<1>9. /\ Ans \in MediaAnswers /\ Ans \notin Told
      /\ reply \in {"garbled", "failed", "timeout", "broken"} =>
            \/ Ans = "ambiguous"
            \/ Ans = "unreadable" /\ k.kind \in {"enhance", "transcode", "separate_audio"}
      /\ reply = "ok" => Ans = "none"
      /\ reply = "done" => Ans = "succeeded"
  <2>1. CASE reply = "ok"
    BY <2>1 DEF MediaAnswers, Told
  <2>2. CASE reply = "done"
    BY <2>2 DEF MediaAnswers, Told
  <2>3. CASE reply \notin {"ok", "done"}
    <3>1. Ans = ErrorAnswer(k.kind, reply)
      BY <2>3
    <3>. QED
      BY <1>2, <2>3, <3>1, ErrorAnswers DEF MediaAnswers, Told
  <2>. QED
    BY <2>1, <2>2, <2>3
<1>10. Tsk(t) \in Tasks \cup {NoTask} /\ End2 \in {"record", "ended"}
         /\ (End2 = "record" <=> reply = "ok") /\ (reply \in {"ok", "done"} => Tsk(t) = t)
  BY <1>7
<1>. HIDE DEF Tsk, End2, Ans
<1>11. /\ j(t, copied) \in CallRecords /\ j(t, copied).pc = End2 /\ j(t, copied).answer = Ans
       /\ j(t, copied).task = Tsk(t) /\ j(t, copied).op = k.op /\ j(t, copied).by = k.by
       /\ j(t, copied).kind = k.kind
  BY <1>1, <1>8, <1>9, <1>10 DEF CallRecords, MediaPlaces
<1>12. MediaOK(j(t, copied))
  <2>. HIDE DEF j
  <2>. QED
    BY <1>2, <1>6, <1>7, <1>9, <1>10, <1>11 DEF MediaOK
<1>13. created => Creator(j(t, copied), t)
  <2>. HIDE DEF j
  <2>. QED
    BY <1>2, <1>4, <1>6, <1>9, <1>10, <1>11 DEF Creator, Flagged
<1>14. Made(t) \in TaskRecords /\ Made(t).made = c /\ Made(t).state # "absent"
  BY <1>2 DEF TaskRecords, TaskStates, Outputs
<1>15. UNCHANGED <<owner, kept>>
  BY <1>3 DEF Received
<1>16. ~created => reply # "ok"
  BY <1>6
<1>. HIDE DEF j, Made, k
<1>17. CASE created
  <2>1. \E r \in TaskRecords : /\ task' = [task EXCEPT ![t] = r]
                               /\ r.made = c /\ r.state # "absent"
    BY <1>5, <1>14, <1>17
  <2>2. /\ MediaOK(j(t, copied)) /\ call' = [call EXCEPT ![c] = j(t, copied)] /\ call[c].pc = "sent"
        /\ j(t, copied).by = call[c].by /\ j(t, copied).answer \notin Told
        /\ t \in Tasks /\ ~Exists(t) /\ Creator(j(t, copied), t)
        /\ j(t, copied).pc = "record" => j(t, copied).task = t
    BY <1>1, <1>5, <1>7, <1>9, <1>10, <1>11, <1>12, <1>13, <1>17 DEF k
  <2>. QED
    BY <1>15, <2>1, <2>2, Zenon
<1>18. CASE ~created
  BY <1>1, <1>5, <1>9, <1>10, <1>11, <1>12, <1>15, <1>16, <1>18 DEF k
<1>. QED
  BY <1>6, <1>17, <1>18

-----------------------------------------------------------------------------
\* A step that creates no task: who created what stays, a creator stays one,
\* and a call that is told about a task may be.
LEMMA Frame ==
    ASSUME MediaType, TaskInv, ReachInv, call' \in [Calls -> CallRecords],
           \A t \in Tasks : /\ (Exists(t) <=> task'[t].state # "absent")
                            /\ task'[t].made = task[t].made
                            /\ \/ owner'[t] = owner[t]
                               \/ Exists(t) /\ owner'[t] = By(task[t].made),
           \A d \in Calls :
              \/ call'[d] = call[d]
              \/ /\ \A t \in Tasks : Creator(call[d], t) => Creator(call'[d], t) /\ call'[d].by = call[d].by
                 /\ call'[d].pc # "record"
                 /\ call'[d].pc \in {"fetch", "keep", "cancel"} \/ call'[d].answer \in Told =>
                       /\ call'[d].task \in Tasks /\ Exists(call'[d].task)
                       /\ \/ call'[d].by = By(task[call'[d].task].made)
                          \/ call'[d].by \in Local /\ call'[d].unrecorded
    PROVE  TaskInv' /\ ReachInv'
<1>1. \A t \in Tasks : Exists(t)' <=> Exists(t)
  BY DEF Exists
<1>2. \A t \in Tasks : Exists(t) =>
         /\ task[t].made \in Calls /\ Creator(call[task[t].made], t) /\ Creator(call'[task[t].made], t)
         /\ call'[task[t].made].by = By(task[t].made)
  BY DEF TaskInv, By
<1>3. TaskInv'
  <2>. SUFFICES ASSUME NEW t \in Tasks
                PROVE  IF Exists(t)' THEN /\ task'[t].made \in Calls /\ Creator(call'[task'[t].made], t)
                                          /\ owner'[t] \in {Nobody, call'[task'[t].made].by}
                       ELSE owner'[t] = Nobody
    BY DEF TaskInv, By, Creator, Flagged
  <2>. QED
    BY <1>1, <1>2 DEF TaskInv
<1>4. ReachInv'
  <2>. SUFFICES ASSUME NEW d \in Calls
                PROVE  /\ call'[d].pc = "record" =>
                              /\ call'[d].task \in Tasks /\ Exists(call'[d].task)
                              /\ task'[call'[d].task].made = d
                       /\ call'[d].pc \in {"fetch", "keep", "cancel"} \/ call'[d].answer \in Told =>
                              /\ call'[d].task \in Tasks /\ Exists(call'[d].task)
                              /\ \/ call'[d].by = call'[task'[call'[d].task].made].by
                                 \/ call'[d].by \in Local /\ call'[d].unrecorded
    BY <1>1 DEF ReachInv, By, Exists
  <2>. QED
    BY <1>2 DEF ReachInv, By
<1>. QED
  BY <1>3, <1>4

\* A submission makes a task only of a call that will record or report it.
LEMMA CreateInv ==
    ASSUME MediaType, TaskInv, ReachInv, NEW c \in Calls, NEW t \in Tasks, NEW j, NEW r \in TaskRecords,
           call' = [call EXCEPT ![c] = j], MediaOK(j), call[c].pc = "sent",
           j.by = call[c].by, j.answer \notin Told, ~Exists(t), Creator(j, t),
           j.pc = "record" => j.task = t,
           task' = [task EXCEPT ![t] = r], r.made = c, r.state # "absent", owner' = owner
    PROVE  TaskInv' /\ ReachInv'
<1>1. \A u \in Tasks : u # t => (Exists(u)' <=> Exists(u)) /\ task'[u] = task[u]
  BY DEF MediaType, Exists
<1>2. Exists(t)' /\ task'[t].made = c
  BY DEF MediaType, Exists
<1>3. call'[c] = j /\ \A d \in Calls : d # c => call'[d] = call[d]
  BY DEF MediaType
<1>4. \A u \in Tasks : Exists(u) =>
         /\ task[u].made \in Calls /\ Creator(call[task[u].made], u)
         /\ owner[u] \in {Nobody, By(task[u].made)} /\ task[u].made # c
  BY DEF TaskInv, Creator
<1>5. owner[t] = Nobody
  BY DEF TaskInv
<1>6. TaskInv'
  <2>. SUFFICES ASSUME NEW u \in Tasks
                PROVE  IF Exists(u)' THEN /\ task'[u].made \in Calls /\ Creator(call'[task'[u].made], u)
                                          /\ owner'[u] \in {Nobody, call'[task'[u].made].by}
                       ELSE owner'[u] = Nobody
    BY DEF TaskInv, By, Creator, Flagged
  <2>1. CASE u = t
    BY <1>2, <1>3, <1>5, <2>1
  <2>2. CASE u # t
    BY <1>1, <1>3, <1>4, <2>2 DEF TaskInv, By
  <2>. QED
    BY <2>1, <2>2
<1>7. ReachInv'
  <2>. SUFFICES ASSUME NEW d \in Calls
                PROVE  /\ call'[d].pc = "record" =>
                              /\ call'[d].task \in Tasks /\ task'[call'[d].task].state # "absent"
                              /\ task'[call'[d].task].made = d
                       /\ call'[d].pc \in {"fetch", "keep", "cancel"} \/ call'[d].answer \in Told =>
                              /\ call'[d].task \in Tasks /\ task'[call'[d].task].state # "absent"
                              /\ \/ call'[d].by = call'[task'[call'[d].task].made].by
                                 \/ call'[d].by \in Local /\ call'[d].unrecorded
    BY DEF ReachInv, By, Exists
  <2>1. CASE d = c
    BY <1>2, <1>3, <2>1 DEF Creator, Exists
  <2>2. CASE d # c
    <3>1. call'[d] = call[d]
      BY <1>3, <2>2
    <3>2. call[d].task \in Tasks /\ Exists(call[d].task) =>
             task'[call[d].task].state # "absent" /\ task'[call[d].task] = task[call[d].task]
      BY <1>1 DEF Exists
    <3>3. \A u \in Tasks : Exists(u) => call'[task[u].made].by = call[task[u].made].by
      BY <1>3, <1>4
    <3>. QED
      BY <3>1, <3>2, <3>3 DEF ReachInv, By
  <2>. QED
    BY <2>1, <2>2
<1>. QED
  BY <1>6, <1>7

\* The provider works on, completes or fails a task by itself.
LEMMA UpstreamOK ==
    ASSUME MediaType, NEW t \in Tasks, Upstream(t)
    PROVE  /\ UNCHANGED <<owner, kept, call>> /\ Exists(t)
           /\ \E r \in TaskRecords : /\ task' = [task EXCEPT ![t] = r]
                                     /\ r.made = task[t].made /\ r.state # "absent"
<1>. DEFINE k == task[t]
<1>1. k \in TaskRecords
  BY DEF MediaType
<1>2. UNCHANGED <<owner, kept, call>> /\ k.state \in {"queued", "running"}
  BY DEF Upstream, Runs, Completes, Fails
<1>3. ASSUME NEW s \in TaskStates, NEW o \in SUBSET Outputs
      PROVE  /\ [k EXCEPT !.state = s, !.outputs = o] \in TaskRecords
             /\ [k EXCEPT !.state = s, !.outputs = o].made = k.made
             /\ [k EXCEPT !.state = s, !.outputs = o].state = s
  BY <1>1 DEF TaskRecords
<1>4. PICK s \in TaskStates \ {"absent"}, o \in SUBSET Outputs :
        task' = [task EXCEPT ![t] = [k EXCEPT !.state = s, !.outputs = o]]
  <2>1. k.outputs \in SUBSET Outputs
    BY <1>1 DEF TaskRecords
  <2>2. CASE Runs(t)
    <3>1. task' = [task EXCEPT ![t] = [k EXCEPT !.state = "running", !.outputs = k.outputs]]
      BY <1>1, <2>2 DEF Runs, TaskRecords
    <3>. QED
      BY <2>1, <3>1 DEF TaskStates
  <2>3. CASE Fails(t)
    <3>1. task' = [task EXCEPT ![t] = [k EXCEPT !.state = "failed", !.outputs = k.outputs]]
      BY <1>1, <2>3 DEF Fails, TaskRecords
    <3>. QED
      BY <2>1, <3>1 DEF TaskStates
  <2>4. CASE Completes(t)
    <3>1. PICK o \in Results(k.kind) :
            task' = [task EXCEPT ![t].state = "completed", ![t].outputs = o]
      BY <2>4 DEF Completes
    <3>2. o \in SUBSET Outputs
      BY DEF Results, Outputs
    <3>3. task' = [task EXCEPT ![t] = [k EXCEPT !.state = "completed", !.outputs = o]]
      BY <3>1
    <3>. QED
      BY <3>2, <3>3 DEF TaskStates
  <2>. QED
    BY <2>2, <2>3, <2>4 DEF Upstream
<1>. DEFINE r == [k EXCEPT !.state = s, !.outputs = o]
<1>5. task' = [task EXCEPT ![t] = r] /\ r \in TaskRecords /\ r.made = task[t].made /\ r.state # "absent"
  BY <1>3, <1>4
<1>6. Exists(t)
  BY <1>2 DEF Exists
<1>. HIDE DEF r
<1>. QED
  BY <1>2, <1>5, <1>6

\* A call is cancelled at its await.
LEMMA CancelOK ==
    ASSUME MediaType, NEW c \in Calls, CancelAnswered(c) \/ CancelFails(c)
    PROVE  /\ UNCHANGED <<owner, kept>> /\ call[c].pc = "cancel"
           /\ \E a \in MediaAnswers : End(c, a)
           /\ \/ task' = task
              \/ \E t \in Tasks, r \in TaskRecords :
                    /\ task' = [task EXCEPT ![t] = r] /\ Exists(t)
                    /\ r.made = task[t].made /\ r.state # "absent"
<1>. DEFINE t == call[c].task
            r == [task[t] EXCEPT !.state = "canceled"]
<1>1. UNCHANGED <<owner, kept>> /\ call[c].pc = "cancel"
  BY DEF CancelAnswered, CancelFails
<1>2. t \in Tasks
  BY <1>1 DEF MediaType, MediaOK
<1>3. \E a \in MediaAnswers : End(c, a)
  <2>1. CASE CancelAnswered(c)
    BY <2>1 DEF CancelAnswered, MediaAnswers
  <2>2. CASE CancelFails(c)
    <3>1. PICK reply : End(c, ErrorAnswer("omnihuman", reply))
      BY <2>2 DEF CancelFails
    <3>2. ErrorAnswer("omnihuman", reply) \in MediaAnswers
      BY ErrorAnswers DEF Kinds, MediaAnswers
    <3>. QED
      BY <3>1, <3>2
  <2>. QED
    BY <2>1, <2>2
<1>4. task' = task \/ (task' = [task EXCEPT ![t] = r] /\ task[t].state = "queued")
  BY DEF CancelAnswered, CancelFails
<1>5. r \in TaskRecords /\ r.made = task[t].made /\ r.state = "canceled"
  BY <1>2 DEF MediaType, TaskRecords, TaskStates
<1>. HIDE DEF r
<1>. QED
  BY <1>1, <1>2, <1>3, <1>4, <1>5 DEF Exists

-----------------------------------------------------------------------------
MediaInv == MediaType /\ TaskInv /\ ReachInv

\* A step of one call: its record moves, the tasks keep their creators.
LEMMA MediaCallStep ==
    ASSUME MediaInv, NEW c \in Calls, NEW j, MediaOK(j), call' = [call EXCEPT ![c] = j],
           task' \in [Tasks -> TaskRecords], kept' \in [Tasks -> SUBSET Outputs],
           owner' \in [Tasks -> Principals \cup {Nobody}],
           \A t \in Tasks : /\ (Exists(t) <=> task'[t].state # "absent")
                            /\ task'[t].made = task[t].made
                            /\ \/ owner'[t] = owner[t]
                               \/ Exists(t) /\ owner'[t] = By(task[t].made),
           \A t \in Tasks : Creator(call[c], t) => Creator(j, t) /\ j.by = call[c].by,
           j.pc # "record",
           j.pc \in {"fetch", "keep", "cancel"} \/ j.answer \in Told =>
                /\ j.task \in Tasks /\ Exists(j.task)
                /\ j.by = By(task[j.task].made) \/ (j.by \in Local /\ j.unrecorded)
    PROVE  MediaInv'
<1>1. j \in CallRecords
  BY DEF MediaOK
<1>2. call' \in [Calls -> CallRecords] /\ call'[c] = j /\ \A d \in Calls : d # c => call'[d] = call[d]
  BY <1>1 DEF MediaInv, MediaType
<1>3. \A d \in Calls : MediaOK(call'[d])
  BY <1>2 DEF MediaInv, MediaType
<1>4. MediaType'
  BY <1>2, <1>3 DEF MediaType, MediaOK
<1>5. TaskInv' /\ ReachInv'
  BY <1>2, Frame DEF MediaInv
<1>. QED
  BY <1>4, <1>5 DEF MediaInv

\* Every step keeps the invariant.
LEMMA NextMedia == MediaInv /\ [Next]_vars => MediaInv'
<1>. SUFFICES ASSUME MediaInv, [Next]_vars PROVE MediaInv'
  OBVIOUS
<1>. USE DEF MediaInv
<1>1. /\ task \in [Tasks -> TaskRecords] /\ kept \in [Tasks -> SUBSET Outputs]
      /\ owner \in [Tasks -> Principals \cup {Nobody}]
      /\ \A c \in Calls : MediaOK(call[c])
  BY DEF MediaType
<1>2. ASSUME NEW c \in Calls, NEW p \in Principals, Start(c, p)
      PROVE  MediaInv'
  <2>1. call[c].pc = "idle" /\ \A t \in Tasks : ~Creator(call[c], t)
    BY <1>2 DEF Start, EnhanceVideo, TranscodeVideo, SeparateAudio, AddSubtitles, RemoveSubtitles,
       CreateOmniHuman, Submit, VodGetTask, OmniHumanGetTask, Poll, CancelTask, Creator
  <2>2. CASE \/ EnhanceVideo(c, p) \/ TranscodeVideo(c, p) \/ SeparateAudio(c, p)
             \/ AddSubtitles(c, p) \/ RemoveSubtitles(c, p) \/ CreateOmniHuman(c, p)
    <3>1. UNCHANGED <<task, owner, kept>>
      BY <2>2, CreateOK
    <3>2. PICK j : /\ MediaOK(j) /\ call' = [call EXCEPT ![c] = j]
                   /\ j.pc \in {"queued", "ended"} /\ j.answer \notin Told
      BY <2>2, CreateOK
    <3>. QED
      BY <1>1, <2>1, <3>1, <3>2, MediaCallStep DEF Exists
  <2>3. CASE VodGetTask(c, p) \/ OmniHumanGetTask(c, p) \/ CancelTask(c, p)
    <3>1. UNCHANGED <<task, owner, kept>>
      BY <2>3, PollOK
    <3>2. PICK j : /\ MediaOK(j) /\ call' = [call EXCEPT ![c] = j]
                   /\ \/ j.pc = "ended" /\ j.answer = "refused"
                      \/ /\ j.pc \in {"fetch", "cancel"} /\ j.answer = "none"
                         /\ j.task \in Tasks /\ Exists(j.task) /\ j.by \in Principals
                         /\ owner[j.task] = j.by \/ (j.by \in Local /\ j.unrecorded)
      BY <2>3, PollOK
    <3>3. j.pc \in {"fetch", "keep", "cancel"} \/ j.answer \in Told =>
                /\ j.task \in Tasks /\ Exists(j.task)
                /\ j.by = By(task[j.task].made) \/ (j.by \in Local /\ j.unrecorded)
      BY <3>2, MediaTasksAssumption DEF TaskInv, Told
    <3>. QED
      BY <1>1, <2>1, <3>1, <3>2, <3>3, MediaCallStep DEF Exists
  <2>. QED
    BY <1>2, <2>2, <2>3 DEF Start
<1>3. ASSUME NEW c \in Calls, Step(c) PROVE MediaInv'
  <2>1. CASE Submitted(c)
    <3>1. PICK j, t :
              /\ MediaOK(j) /\ call' = [call EXCEPT ![c] = j] /\ call[c].pc = "sent"
              /\ j.by = call[c].by /\ j.answer \notin Told
              /\ UNCHANGED <<owner, kept>>
              /\ \/ task' = task /\ j.pc = "ended"
                 \/ /\ t \in Tasks /\ ~Exists(t) /\ Creator(j, t)
                    /\ j.pc = "record" => j.task = t
                    /\ \E r \in TaskRecords : /\ task' = [task EXCEPT ![t] = r]
                                              /\ r.made = c /\ r.state # "absent"
      BY <2>1, ReceivedOK
    <3>2. CASE task' = task /\ j.pc = "ended"
      <4>1. \A u \in Tasks : ~Creator(call[c], u)
        BY <3>1 DEF Creator
      <4>. QED
        BY <1>1, <3>1, <3>2, <4>1, MediaCallStep DEF Exists
    <3>3. ASSUME NEW r \in TaskRecords, t \in Tasks, ~Exists(t), Creator(j, t),
                 j.pc = "record" => j.task = t,
                 task' = [task EXCEPT ![t] = r], r.made = c, r.state # "absent"
          PROVE  MediaInv'
      <4>1. TaskInv' /\ ReachInv'
        BY <3>1, <3>3, CreateInv
      <4>2. MediaType'
        <5>1. j \in CallRecords
          BY <3>1 DEF MediaOK
        <5>2. call' \in [Calls -> CallRecords] /\ \A d \in Calls : MediaOK(call'[d])
          BY <3>1, <5>1 DEF MediaType
        <5>3. task' \in [Tasks -> TaskRecords]
          BY <1>1, <3>3
        <5>. QED
          BY <1>1, <3>1, <5>2, <5>3 DEF MediaType, MediaOK
      <4>. QED
        BY <4>1, <4>2
    <3>. QED
      BY <3>1, <3>2, <3>3
  <2>2. CASE \/ Acquire(c) \/ ReadFails(c) \/ Read(c)
             \/ KeepVodOutputs(c) \/ KeepVideo(c)
    <3>1. UNCHANGED <<task, owner>> /\ kept' \in [Tasks -> SUBSET Outputs]
      BY <2>2, QuietOK
    <3>2. PICK j : /\ MediaOK(j) /\ call' = [call EXCEPT ![c] = j]
                   /\ j.by = call[c].by /\ j.task = call[c].task /\ j.op = call[c].op
                   /\ j.kind = call[c].kind /\ j.unrecorded = call[c].unrecorded
                   /\ j.pc # "record" /\ call[c].pc \in {"queued", "fetch", "keep"}
                   /\ call[c].pc = "queued" => j.pc = "sent" /\ j.answer = "none"
      BY <2>2, QuietOK
    <3>3. j.pc \in {"fetch", "keep", "cancel"} \/ j.answer \in Told =>
                /\ j.task \in Tasks /\ Exists(j.task)
                /\ j.by = By(task[j.task].made) \/ (j.by \in Local /\ j.unrecorded)
      BY <3>2 DEF ReachInv, Told, By
    <3>4. \A t \in Tasks : ~Creator(call[c], t)
      BY <3>2 DEF Creator
    <3>. QED
      BY <1>1, <3>1, <3>2, <3>3, <3>4, MediaCallStep DEF Exists
  <2>3. CASE Record(c) \/ RecordFails(c)
    <3>1. /\ call[c].pc = "record" /\ UNCHANGED <<task, kept>>
          /\ owner' \in {owner, [owner EXCEPT ![call[c].task] = By(c)]}
      BY <2>3 DEF Record, RecordFails
    <3>11. PICK a \in {"accepted", "crashed"} : End(c, a)
      BY <2>3 DEF Record, RecordFails
    <3>2. /\ call[c].task \in Tasks /\ Exists(call[c].task) /\ task[call[c].task].made = c
          /\ By(c) \in Principals
      BY <1>1, <3>1 DEF ReachInv, MediaOK, By
    <3>3. PICK j : /\ MediaOK(j) /\ call' = [call EXCEPT ![c] = j]
                   /\ j.by = call[c].by /\ j.task = call[c].task /\ j.op = call[c].op
                   /\ j.kind = call[c].kind /\ j.pc = "ended" /\ j.answer = a
      BY <3>1, <3>11, EndOK DEF MediaAnswers
    <3>4. \A t \in Tasks : Creator(call[c], t) => Creator(j, t) /\ j.by = call[c].by
      BY <3>1, <3>11, <3>3 DEF Creator, Flagged
    <3>5. owner' \in [Tasks -> Principals \cup {Nobody}]
      BY <1>1, <3>1, <3>2
    <3>6. \A t \in Tasks : \/ owner'[t] = owner[t]
                           \/ Exists(t) /\ owner'[t] = By(task[t].made)
      BY <1>1, <3>1, <3>2
    <3>. QED
      BY <1>1, <3>1, <3>3, <3>4, <3>5, <3>6, MediaCallStep DEF Exists, Told
  <2>4. CASE CancelAnswered(c) \/ CancelFails(c)
    <3>1. UNCHANGED <<owner, kept>> /\ call[c].pc = "cancel"
      BY <2>4, CancelOK
    <3>2. PICK a \in MediaAnswers : End(c, a)
      BY <2>4, CancelOK
    <3>3. \/ task' = task
          \/ \E t \in Tasks, r \in TaskRecords :
                    /\ task' = [task EXCEPT ![t] = r] /\ Exists(t)
                    /\ r.made = task[t].made /\ r.state # "absent"
      BY <2>4, CancelOK
    <3>4. /\ task' \in [Tasks -> TaskRecords]
          /\ \A t \in Tasks : /\ (Exists(t) <=> task'[t].state # "absent")
                             /\ task'[t].made = task[t].made
      BY <1>1, <3>3 DEF Exists
    <3>5. PICK j : /\ MediaOK(j) /\ call' = [call EXCEPT ![c] = j]
                   /\ j.by = call[c].by /\ j.task = call[c].task /\ j.op = call[c].op
                   /\ j.kind = call[c].kind /\ j.unrecorded = call[c].unrecorded
                   /\ j.pc = "ended" /\ j.answer = a
      BY <3>1, <3>2, EndOK
    <3>6. \A t \in Tasks : ~Creator(call[c], t)
      BY <3>1 DEF Creator
    <3>7. /\ j.task \in Tasks /\ Exists(j.task)
          /\ j.by = By(task[j.task].made) \/ (j.by \in Local /\ j.unrecorded)
      BY <3>1, <3>5 DEF ReachInv, By
    <3>. QED
      BY <1>1, <3>1, <3>4, <3>5, <3>6, <3>7, MediaCallStep
  <2>. QED
    BY <1>3, <2>1, <2>2, <2>3, <2>4 DEF Step
<1>4. ASSUME NEW t \in Tasks, Upstream(t) PROVE MediaInv'
  <2>1. UNCHANGED <<owner, kept, call>> /\ Exists(t)
    BY <1>4, UpstreamOK
  <2>2. PICK r \in TaskRecords : /\ task' = [task EXCEPT ![t] = r]
                                /\ r.made = task[t].made /\ r.state # "absent"
    BY <1>4, UpstreamOK
  <2>3. /\ task' \in [Tasks -> TaskRecords]
        /\ \A u \in Tasks : /\ (Exists(u) <=> task'[u].state # "absent")
                           /\ task'[u].made = task[u].made
    BY <1>1, <2>1, <2>2 DEF Exists
  <2>4. MediaType'
    BY <1>1, <2>1, <2>3 DEF MediaType, MediaOK
  <2>5. TaskInv' /\ ReachInv'
    BY <2>1, <2>3, Frame DEF MediaType
  <2>. QED
    BY <2>4, <2>5
<1>5. CASE UNCHANGED vars
  BY <1>5 DEF vars, MediaType, MediaOK, TaskInv, ReachInv, Exists, By, Creator, Flagged
<1>. QED
  BY <1>2, <1>3, <1>4, <1>5 DEF Next

\* The inductive invariant of the VOD and OmniHuman tools.
THEOREM MediaInvariant == Spec => []MediaInv
<1>1. Init => MediaInv
  BY InitMedia DEF MediaInv
<1>. QED
  BY <1>1, NextMedia, PTL DEF Spec

\* For any calls, tasks and answers: a create call that ends having left a task
\* at the provider has returned it or said that it may exist, but for a success
\* that three parsers cannot read and an exception while its row is written.
THEOREM LostTasks == Spec => []LostTasksAreFlagged
<1>1. MediaInv => LostTasksAreFlagged
  <2>. SUFFICES ASSUME MediaInv, NEW t \in Tasks, NEW c \in Calls,
                       Exists(t), task[t].made = c, Ended(c)
                PROVE  Flagged(call[c], t)
    BY DEF LostTasksAreFlagged, Flagged
  <2>1. Creator(call[c], t)
    BY DEF MediaInv, TaskInv
  <2>. QED
    BY <2>1 DEF Creator, Ended
<1>. QED
  BY <1>1, MediaInvariant, PTL

\* require_owner lets only the principal who created a task poll or cancel it, or
\* a local one that asked while the task had no row, whatever is recorded, lost,
\* retried or repeated meanwhile.
THEOREM CreatorsReach == Spec => []OnlyCreatorsReach
<1>1. MediaInv => OnlyCreatorsReach
  <2>. SUFFICES ASSUME MediaInv PROVE OnlyCreatorsReach
    OBVIOUS
  <2>1. \A t \in Tasks : owner[t] # Nobody => owner[t] = By(task[t].made)
    BY DEF MediaInv, TaskInv
  <2>2. \A c \in Calls : call[c].answer \in Told =>
           By(c) = By(task[call[c].task].made) \/ (By(c) \in Local /\ call[c].unrecorded)
    BY DEF MediaInv, ReachInv
  <2>. QED
    BY <2>1, <2>2 DEF OnlyCreatorsReach, Told
<1>. QED
  BY <1>1, MediaInvariant, PTL

-----------------------------------------------------------------------------
(* UploadedKeys.                                                           *)

KeyPlaces == {"none", "ready", "error", "upload", "presign", "record", "done"}
UploadPlaces == {"idle", "run", "refused", "answered", "crashed", "cancelled"}
KeyRows == [owner : Users, day : Nat]
Entries == [pc : KeyPlaces, size : Nat, key : Keys \cup {NoUser}]
UploadRecords == [pc : UploadPlaces, by : Users \cup {NoUser}, width : Nat]

KeyType ==
    /\ row \in [Keys -> KeyRows \cup {NoUser}]
    /\ object \in [Keys -> Users \cup {NoUser}]
    /\ used \in [Keys -> Nat]
    /\ granted \subseteq Keys \X Users
    /\ upload \in [Uploads -> UploadRecords]
    /\ entry \in [Uploads -> [ItemIds -> Entries]]
    /\ today \in Nat

\* What is recorded of a key: the row names the user who put the object, and is
\* as recent as its last use.
RowInv ==
    \A k \in Keys :
        /\ used[k] <= today
        /\ row[k] # NoUser => row[k].owner = object[k] /\ used[k] <= row[k].day

\* A key belongs to one file.
SingleInv ==
    \A u, v \in Uploads, i, j \in ItemIds :
        entry[u][i].key = entry[v][j].key /\ entry[u][i].key # NoUser => u = v /\ i = j

\* What a file of call u has come to; its call has a user.
FileOK(u, e) ==
    /\ e.key # NoUser => Uploader(u) \in Users
    /\ e.pc \in {"upload", "presign", "record", "done"} => e.key # NoUser
    /\ e.pc = "upload" => object[e.key] = NoUser /\ row[e.key] = NoUser
    /\ e.pc \in {"presign", "record", "done"} => object[e.key] = Uploader(u)
    /\ e.pc = "done" => row[e.key] # NoUser \/ today - used[e.key] > KeyRetention

FileInv == \A u \in Uploads, i \in ItemIds : FileOK(u, entry[u][i])

CallInv == \A u \in Uploads : upload[u].pc \in {"run", "answered", "crashed"} => Uploader(u) \in Users

GrantInv == \A g \in granted : object[g[1]] = g[2]

KeyInv == KeyType /\ RowInv /\ SingleInv /\ FileInv /\ CallInv /\ GrantInv

-----------------------------------------------------------------------------
\* No key has been used.
LEMMA KeyInitOK == KeyInit => KeyInv
<1>. SUFFICES ASSUME KeyInit PROVE KeyInv
  OBVIOUS
<1>1. NoEntry \in Entries /\ NoEntry.pc = "none" /\ NoEntry.key = NoUser
  BY DEF NoEntry, Entries, KeyPlaces
<1>2. KeyType
  BY <1>1 DEF KeyInit, KeyType, UploadRecords, UploadPlaces
<1>3. RowInv /\ CallInv /\ GrantInv
  BY DEF KeyInit, RowInv, CallInv, GrantInv
<1>4. SingleInv /\ FileInv
  BY <1>1 DEF KeyInit, SingleInv, FileInv, FileOK
<1>. QED
  BY <1>2, <1>3, <1>4 DEF KeyInv

\* A step of file i of call u that leaves the other files alone.
LEMMA FileStep ==
    ASSUME KeyInv, NEW u \in Uploads, NEW i \in ItemIds, NEW e \in Entries, Set(u, i, e),
           e.key # NoUser,
           \/ e.key = entry[u][i].key
           \/ \A v \in Uploads, j \in ItemIds : entry[v][j].key # e.key,
           \A k \in Keys \ {e.key} : row'[k] = row[k] /\ object'[k] = object[k] /\ used'[k] = used[k],
           \A v \in Uploads : upload'[v].by = upload[v].by,
           today' = today,
           FileOK(u, e)'
    PROVE  entry' \in [Uploads -> [ItemIds -> Entries]] /\ SingleInv' /\ FileInv'
<1>1. entry \in [Uploads -> [ItemIds -> Entries]]
  BY DEF KeyInv, KeyType
<1>2. /\ entry' \in [Uploads -> [ItemIds -> Entries]] /\ entry'[u][i] = e
      /\ \A v \in Uploads, j \in ItemIds : v # u \/ j # i => entry'[v][j] = entry[v][j]
  BY <1>1 DEF Set
<1>3. \A v \in Uploads, j \in ItemIds : v # u \/ j # i => entry[v][j].key # e.key
  BY DEF KeyInv, SingleInv
<1>4. SingleInv'
  <2>. SUFFICES ASSUME NEW v \in Uploads, NEW w \in Uploads, NEW j \in ItemIds, NEW l \in ItemIds,
                       entry'[v][j].key = entry'[w][l].key, entry'[v][j].key # NoUser
                PROVE  v = w /\ j = l
    BY DEF SingleInv
  <2>. QED
    BY <1>2, <1>3 DEF KeyInv, SingleInv
<1>5. FileInv'
  <2>. SUFFICES ASSUME NEW v \in Uploads, NEW j \in ItemIds PROVE FileOK(v, entry[v][j])'
    BY DEF FileInv
  <2>1. CASE v = u /\ j = i
    BY <1>2, <2>1 DEF FileOK, Uploader
  <2>2. CASE v # u \/ j # i
    <3>0. PICK f : f = entry[v][j]
      OBVIOUS
    <3>1. entry'[v][j] = f /\ f.key # e.key /\ f.key \in Keys \cup {NoUser}
      BY <1>1, <1>2, <1>3, <2>2, <3>0 DEF Entries
    <3>2. FileOK(v, f)
      BY <3>0 DEF KeyInv, FileInv
    <3>3. f.key \in Keys => /\ row'[f.key] = row[f.key] /\ object'[f.key] = object[f.key]
                            /\ used'[f.key] = used[f.key]
      BY <3>1
    <3>4. FileOK(v, f)'
      BY <3>1, <3>2, <3>3 DEF FileOK, Uploader
    <3>. QED
      BY <3>1, <3>4 DEF FileOK, Uploader
  <2>. QED
    BY <2>1, <2>2
<1>. QED
  BY <1>2, <1>4, <1>5

\* An entry keeps its key and moves on.
LEMMA MovedEntry ==
    ASSUME NEW f \in Entries, NEW l \in KeyPlaces
    PROVE  /\ [f EXCEPT !.pc = l] \in Entries
           /\ [f EXCEPT !.pc = l].pc = l /\ [f EXCEPT !.pc = l].key = f.key
BY DEF Entries

\* A file gets a key nobody has.
LEMMA StartItemOK ==
    ASSUME KeyInv, NEW u \in Uploads, NEW i \in ItemIds, StartItem(u, i) PROVE KeyInv'
<1>. USE DEF KeyInv
<1>0. entry[u][i] \in Entries
  BY DEF KeyType
<1>1. PICK k \in Fresh : Set(u, i, [entry[u][i] EXCEPT !.pc = "upload", !.key = k])
  BY DEF StartItem
<1>2. /\ k \in Keys /\ object[k] = NoUser /\ row[k] = NoUser /\ k # NoUser
      /\ \A v \in Uploads, j \in ItemIds : entry[v][j].key # k
  BY KeysAssumption DEF Fresh
<1>3. UNCHANGED <<row, object, used, granted, upload, today>> /\ upload[u].pc = "run"
  BY DEF StartItem
<1>. DEFINE e == [entry[u][i] EXCEPT !.pc = "upload", !.key = k]
<1>4. e \in Entries /\ e.pc = "upload" /\ e.key = k
  BY <1>0, <1>2 DEF Entries, KeyPlaces
<1>5. Uploader(u) \in Users
  BY <1>3 DEF CallInv
<1>6. PICK f : f = e
  OBVIOUS
<1>7. FileOK(u, f)'
  BY <1>2, <1>3, <1>4, <1>5, <1>6 DEF FileOK, Uploader
<1>8. Set(u, i, f)
  BY <1>1, <1>6
<1>. HIDE DEF e, KeyInv
<1>9. entry' \in [Uploads -> [ItemIds -> Entries]] /\ SingleInv' /\ FileInv'
  BY <1>2, <1>3, <1>4, <1>6, <1>7, <1>8, FileStep
<1>. QED
  BY <1>3, <1>9 DEF KeyInv, KeyType, RowInv, CallInv, GrantInv, Uploader

\* The object is written, or not.
LEMMA PutObjectOK ==
    ASSUME KeyInv, NEW u \in Uploads, NEW i \in ItemIds, PutObject(u, i) PROVE KeyInv'
<1>1. PICK k : k = entry[u][i].key
  OBVIOUS
<1>2. /\ entry[u][i] \in Entries /\ entry[u][i].pc = "upload" /\ FileOK(u, entry[u][i])
      /\ object \in [Keys -> Users \cup {NoUser}]
  BY DEF KeyInv, KeyType, FileInv, PutObject
<1>3. k \in Keys /\ k # NoUser /\ object[k] = NoUser /\ row[k] = NoUser /\ Uploader(u) \in Users
  BY <1>1, <1>2 DEF FileOK, Entries
<1>4. UNCHANGED <<row, used, granted, upload, today>>
  BY DEF PutObject
<1>5. PICK l \in {"presign", "error"} :
        /\ Set(u, i, [entry[u][i] EXCEPT !.pc = l])
        /\ \/ object' = [object EXCEPT ![k] = Uploader(u)]
           \/ l = "error" /\ object' = object
  BY <1>1 DEF PutObject
<1>6. PICK e : e = [entry[u][i] EXCEPT !.pc = l]
  OBVIOUS
<1>7. e \in Entries /\ e.pc = l /\ e.key = k
  <2>1. l \in KeyPlaces
    BY DEF KeyPlaces
  <2>. QED
    BY <1>1, <1>2, <1>6, <2>1, MovedEntry
<1>8. /\ object' \in [Keys -> Users \cup {NoUser}]
      /\ \A m \in Keys \ {k} : object'[m] = object[m]
      /\ l = "presign" => object'[k] = Uploader(u)
  BY <1>2, <1>3, <1>5
<1>9. FileOK(u, e)'
  BY <1>3, <1>4, <1>5, <1>7, <1>8 DEF FileOK, Uploader
<1>10. entry' \in [Uploads -> [ItemIds -> Entries]] /\ SingleInv' /\ FileInv'
  BY <1>1, <1>3, <1>4, <1>5, <1>6, <1>7, <1>8, <1>9, FileStep
<1>11. RowInv' /\ CallInv'
  BY <1>3, <1>4, <1>8 DEF KeyInv, RowInv, CallInv, Uploader
<1>12. GrantInv'
  BY <1>3, <1>4, <1>8, KeysAssumption DEF KeyInv, KeyType, GrantInv
<1>. QED
  BY <1>4, <1>8, <1>10, <1>11, <1>12 DEF KeyInv, KeyType

\* The URL of a file that has been put.
LEMMA PresignItemOK ==
    ASSUME KeyInv, NEW u \in Uploads, NEW i \in ItemIds, PresignItem(u, i) PROVE KeyInv'
<1>1. /\ entry[u][i] \in Entries /\ entry[u][i].pc = "presign" /\ FileOK(u, entry[u][i])
  BY DEF KeyInv, KeyType, FileInv, PresignItem
<1>2. UNCHANGED <<row, object, used, granted, upload, today>>
  BY DEF PresignItem
<1>3. PICK l \in {"record", "error"} : Set(u, i, [entry[u][i] EXCEPT !.pc = l])
  BY DEF PresignItem
<1>4. PICK e : e = [entry[u][i] EXCEPT !.pc = l]
  OBVIOUS
<1>5. e \in Entries /\ e.pc = l /\ e.key = entry[u][i].key
  <2>1. l \in KeyPlaces
    BY DEF KeyPlaces
  <2>. QED
    BY <1>1, <1>4, <2>1, MovedEntry
<1>6. FileOK(u, e)' /\ e.key # NoUser
  BY <1>1, <1>2, <1>5 DEF FileOK, Uploader
<1>7. entry' \in [Uploads -> [ItemIds -> Entries]] /\ SingleInv' /\ FileInv'
  BY <1>2, <1>3, <1>4, <1>5, <1>6, FileStep
<1>. QED
  BY <1>2, <1>7 DEF KeyInv, KeyType, RowInv, CallInv, GrantInv, Uploader

\* The row is written with the user of the upload, or fails.
LEMMA RecordItemOK ==
    ASSUME KeyInv, NEW u \in Uploads, NEW i \in ItemIds, RecordItem(u, i) PROVE KeyInv'
<1>1. PICK k : k = entry[u][i].key
  OBVIOUS
<1>2. /\ entry[u][i] \in Entries /\ entry[u][i].pc = "record" /\ FileOK(u, entry[u][i])
      /\ row \in [Keys -> KeyRows \cup {NoUser}] /\ used \in [Keys -> Nat] /\ today \in Nat
      /\ upload \in [Uploads -> UploadRecords]
  BY DEF KeyInv, KeyType, FileInv, RecordItem
<1>3. k \in Keys /\ k # NoUser /\ object[k] = Uploader(u) /\ Uploader(u) \in Users
  BY <1>1, <1>2 DEF FileOK, Entries
<1>4. UNCHANGED <<object, granted, today>>
  BY DEF RecordItem
<1>. DEFINE r == [owner |-> Uploader(u), day |-> today]
<1>5. r \in KeyRows /\ r.owner = Uploader(u) /\ r.day = today /\ r # NoUser
  BY <1>2, <1>3, KeysAssumption DEF KeyRows
<1>6. PICK l \in {"done", "error"} :
        /\ Set(u, i, [entry[u][i] EXCEPT !.pc = l])
        /\ \/ /\ l = "done" /\ upload' = upload
              /\ row' = [row EXCEPT ![k] = r] /\ used' = [used EXCEPT ![k] = today]
           \/ /\ l = "error" /\ row' = row /\ used' = used
              /\ upload' = [upload EXCEPT ![u].pc = IF @ = "run" THEN "crashed" ELSE @]
  BY <1>1 DEF RecordItem
<1>7. PICK e : e = [entry[u][i] EXCEPT !.pc = l]
  OBVIOUS
<1>8. e \in Entries /\ e.pc = l /\ e.key = k
  <2>1. l \in KeyPlaces
    BY DEF KeyPlaces
  <2>. QED
    BY <1>1, <1>2, <1>7, <2>1, MovedEntry
<1>. HIDE DEF r
<1>9. /\ row' \in [Keys -> KeyRows \cup {NoUser}] /\ used' \in [Keys -> Nat]
      /\ \A m \in Keys \ {k} : row'[m] = row[m] /\ used'[m] = used[m]
      /\ l = "done" => row'[k] = r /\ used'[k] = today
      /\ l = "error" => row'[k] = row[k] /\ used'[k] = used[k]
  BY <1>2, <1>3, <1>5, <1>6
<1>10. /\ upload' \in [Uploads -> UploadRecords]
       /\ \A v \in Uploads : /\ upload'[v].by = upload[v].by
                             /\ upload'[v].pc = upload[v].pc \/ upload[v].pc = "run"
  <2>1. CASE upload' = upload
    BY <1>2, <2>1
  <2>2. CASE upload' = [upload EXCEPT ![u].pc = IF @ = "run" THEN "crashed" ELSE @]
    <3>1. PICK l2 \in UploadPlaces : /\ upload' = [upload EXCEPT ![u].pc = l2]
                                     /\ l2 = upload[u].pc \/ upload[u].pc = "run"
      BY <1>2, <2>2 DEF UploadRecords, UploadPlaces
    <3>. QED
      BY <1>2, <3>1 DEF UploadRecords
  <2>. QED
    BY <1>6, <2>1, <2>2
<1>11. FileOK(u, e)'
  BY <1>3, <1>4, <1>5, <1>6, <1>8, <1>9, <1>10 DEF FileOK, Uploader
<1>12. entry' \in [Uploads -> [ItemIds -> Entries]] /\ SingleInv' /\ FileInv'
  BY <1>1, <1>3, <1>4, <1>6, <1>7, <1>8, <1>9, <1>10, <1>11, FileStep
<1>13. RowInv'
  <2>. SUFFICES ASSUME NEW m \in Keys
                PROVE  /\ used'[m] <= today'
                       /\ row'[m] # NoUser => row'[m].owner = object'[m] /\ used'[m] <= row'[m].day
    BY DEF RowInv
  <2>1. CASE m = k /\ l = "done"
    BY <1>2, <1>3, <1>4, <1>5, <1>9, <2>1
  <2>2. CASE m # k \/ l = "error"
    BY <1>4, <1>6, <1>9, <2>2 DEF KeyInv, RowInv
  <2>. QED
    BY <1>6, <2>1, <2>2
<1>14. CallInv' /\ GrantInv'
  BY <1>4, <1>10 DEF KeyInv, CallInv, GrantInv, Uploader
<1>. QED
  BY <1>4, <1>9, <1>10, <1>12, <1>13, <1>14 DEF KeyInv, KeyType

-----------------------------------------------------------------------------
\* A step that touches neither the files nor the calls' users.
LEMMA QuietFiles ==
    ASSUME KeyInv, UNCHANGED entry, \A v \in Uploads : upload'[v].by = upload[v].by,
           UNCHANGED object,
           \A k \in Keys : /\ row[k] = NoUser => row'[k] = NoUser /\ used'[k] = used[k]
                           /\ row'[k] # NoUser \/ row[k] = NoUser \/ today' - used'[k] > KeyRetention,
           today \in Nat, today' \in Nat, today <= today'
    PROVE  SingleInv' /\ FileInv'
<1>1. SingleInv'
  BY DEF KeyInv, SingleInv
<1>2. FileInv'
  <2>. SUFFICES ASSUME NEW v \in Uploads, NEW j \in ItemIds PROVE FileOK(v, entry[v][j])'
    BY DEF FileInv
  <2>1. PICK f : f = entry[v][j]
    OBVIOUS
  <2>2. f \in Entries /\ FileOK(v, f)
    BY <2>1 DEF KeyInv, KeyType, FileInv
  <2>3. f.key # NoUser => f.key \in Keys /\ used[f.key] \in Nat
    BY <2>2 DEF Entries, KeyInv, KeyType
  <2>. DEFINE k == f.key
  <2>4. f.pc \in {"upload", "presign", "record", "done"} => k \in Keys
    BY <2>2, <2>3 DEF FileOK
  <2>5. f.pc = "done" => row'[k] # NoUser \/ today' - used'[k] > KeyRetention
    <3>1. SUFFICES ASSUME f.pc = "done", row'[k] = NoUser PROVE today' - used'[k] > KeyRetention
      OBVIOUS
    <3>2. CASE row[k] # NoUser
      BY <2>4, <3>1, <3>2
    <3>3. CASE row[k] = NoUser
      <4>1. today - used[k] > KeyRetention /\ used'[k] = used[k] /\ used[k] \in Nat
        BY <2>2, <2>3, <2>4, <3>1, <3>3 DEF FileOK
      <4>. QED
        BY <4>1, KeysAssumption
    <3>. QED
      BY <3>2, <3>3
  <2>6. FileOK(v, f)'
    BY <2>2, <2>4, <2>5 DEF FileOK, Uploader
  <2>. QED
    BY <2>1, <2>6
<1>. QED
  BY <1>1, <1>2

\* A new batch, whose files have no keys yet.
LEMMA MediaUploadOK ==
    ASSUME KeyInv, NEW u \in Uploads, NEW p \in Users, MediaUpload(u, p) PROVE KeyInv'
<1>1. /\ upload \in [Uploads -> UploadRecords] /\ entry \in [Uploads -> [ItemIds -> Entries]]
      /\ UNCHANGED <<row, object, used, granted, today>>
  BY DEF KeyInv, KeyType, MediaUpload
<1>2. CASE upload' = [upload EXCEPT ![u].pc = "refused"] /\ UNCHANGED entry
  <2>1. /\ upload' \in [Uploads -> UploadRecords]
        /\ \A v \in Uploads : /\ upload'[v].by = upload[v].by
                              /\ upload'[v].pc \in {upload[v].pc, "refused"}
    BY <1>1, <1>2 DEF UploadRecords, UploadPlaces
  <2>2. today \in Nat /\ today' = today
    BY <1>1 DEF KeyInv, KeyType
  <2>3. SingleInv' /\ FileInv'
    <3>1. \A k \in Keys : /\ row[k] = NoUser => row'[k] = NoUser /\ used'[k] = used[k]
                          /\ row'[k] # NoUser \/ row[k] = NoUser \/ today' - used'[k] > KeyRetention
      BY <1>1
    <3>. QED
      BY <1>1, <1>2, <2>1, <2>2, <3>1, QuietFiles
  <2>4. CallInv'
    BY <2>1 DEF KeyInv, CallInv, Uploader
  <2>5. RowInv' /\ GrantInv'
    BY <1>1 DEF KeyInv, RowInv, GrantInv
  <2>. QED
    BY <1>1, <1>2, <2>1, <2>3, <2>4, <2>5 DEF KeyInv, KeyType
<1>3. ASSUME NEW n \in ItemIds, NEW width \in 1..2, NEW sizes \in [ItemIds -> 0..2],
             upload' = [upload EXCEPT ![u] = [pc |-> "run", by |-> p, width |-> width]],
             entry' = [entry EXCEPT ![u] = [i \in ItemIds |->
                     IF i > n THEN NoEntry
                     ELSE [pc |-> IF sizes[i] = 0 THEN "error" ELSE "ready",
                           size |-> sizes[i], key |-> NoUser]]]
      PROVE  KeyInv'
  <2>1. [pc |-> "run", by |-> p, width |-> width] \in UploadRecords
    BY DEF UploadRecords, UploadPlaces
  <2>2. /\ upload' \in [Uploads -> UploadRecords]
        /\ Uploader(u)' = p /\ \A v \in Uploads : v # u => upload'[v] = upload[v]
    BY <1>1, <1>3, <2>1 DEF Uploader
  <2>3. \A i \in ItemIds : sizes[i] \in Nat
    OBVIOUS
  <2>4. /\ entry' \in [Uploads -> [ItemIds -> Entries]]
        /\ \A i \in ItemIds : entry'[u][i].key = NoUser /\ entry'[u][i].pc \in {"none", "error", "ready"}
        /\ \A v \in Uploads : v # u => entry'[v] = entry[v]
    <3>. DEFINE f == [i \in ItemIds |->
                     IF i > n THEN NoEntry
                     ELSE [pc |-> IF sizes[i] = 0 THEN "error" ELSE "ready",
                           size |-> sizes[i], key |-> NoUser]]
    <3>1. \A i \in ItemIds : /\ f[i] \in Entries /\ f[i].key = NoUser
                             /\ f[i].pc \in {"none", "error", "ready"}
      BY <2>3 DEF NoEntry, Entries, KeyPlaces
    <3>2. f \in [ItemIds -> Entries]
      BY <3>1
    <3>3. entry' = [entry EXCEPT ![u] = f]
      BY <1>3
    <3>. HIDE DEF f
    <3>. QED
      BY <1>1, <3>1, <3>2, <3>3
  <2>5. SingleInv'
    BY <2>4 DEF KeyInv, SingleInv
  <2>6. FileInv'
    <3>. SUFFICES ASSUME NEW v \in Uploads, NEW j \in ItemIds PROVE FileOK(v, entry[v][j])'
      BY DEF FileInv
    <3>1. CASE v = u
      BY <2>4, <3>1 DEF FileOK
    <3>2. CASE v # u
      <4>1. FileOK(v, entry[v][j])
        BY DEF KeyInv, FileInv
      <4>2. entry'[v][j] = entry[v][j] /\ upload'[v] = upload[v]
        BY <2>2, <2>4, <3>2
      <4>. QED
        BY <1>1, <4>1, <4>2 DEF FileOK, Uploader
    <3>. QED
      BY <3>1, <3>2
  <2>7. CallInv'
    BY <2>2 DEF KeyInv, CallInv, Uploader
  <2>8. RowInv' /\ GrantInv'
    BY <1>1 DEF KeyInv, RowInv, GrantInv
  <2>. QED
    BY <1>1, <2>2, <2>4, <2>5, <2>6, <2>7, <2>8 DEF KeyInv, KeyType
<1>. QED
  <2>1. PICK n \in ItemIds, width \in 1..2, sizes \in [ItemIds -> 0..2] :
          IF Total(sizes, n) > BatchMax
          THEN /\ upload' = [upload EXCEPT ![u].pc = "refused"]
               /\ UNCHANGED entry
          ELSE /\ upload' = [upload EXCEPT ![u] = [pc |-> "run", by |-> p, width |-> width]]
               /\ entry' = [entry EXCEPT ![u] = [i \in ItemIds |->
                     IF i > n THEN NoEntry
                     ELSE [pc |-> IF sizes[i] = 0 THEN "error" ELSE "ready",
                           size |-> sizes[i], key |-> NoUser]]]
    BY Zenon DEF MediaUpload
  <2>2. CASE Total(sizes, n) > BatchMax
    BY <1>2, <2>1, <2>2
  <2>3. CASE ~(Total(sizes, n) > BatchMax)
    BY <1>3, <2>1, <2>3
  <2>. QED
    BY <2>2, <2>3

\* The batch answers when its files are settled.
LEMMA AnswerUploadOK ==
    ASSUME KeyInv, NEW u \in Uploads, AnswerUpload(u) PROVE KeyInv'
<1>1. /\ upload \in [Uploads -> UploadRecords] /\ today \in Nat
      /\ UNCHANGED <<row, object, used, granted, entry, today>>
      /\ upload' = [upload EXCEPT ![u].pc = "answered"] /\ upload[u].pc = "run"
  BY DEF KeyInv, KeyType, AnswerUpload
<1>2. /\ upload' \in [Uploads -> UploadRecords]
      /\ \A v \in Uploads : /\ upload'[v].by = upload[v].by
                            /\ upload'[v].pc = upload[v].pc \/ upload[v].pc = "run"
  BY <1>1 DEF UploadRecords, UploadPlaces
<1>3. SingleInv' /\ FileInv'
  BY <1>1, <1>2, QuietFiles
<1>4. CallInv'
  BY <1>2 DEF KeyInv, CallInv, Uploader
<1>5. RowInv' /\ GrantInv'
  BY <1>1 DEF KeyInv, RowInv, GrantInv
<1>. QED
  BY <1>1, <1>2, <1>3, <1>4, <1>5 DEF KeyInv, KeyType

\* The batch is cancelled; files in flight end where they stand.
LEMMA CancelUploadOK ==
    ASSUME KeyInv, NEW u \in Uploads, CancelUpload(u) PROVE KeyInv'
<1>. DEFINE at(pc) == {entry[u][i].key : i \in {j \in ItemIds : entry[u][j].pc = pc}}
            r == [owner |-> Uploader(u), day |-> today]
<1>1. PICK put \in SUBSET at("upload"), recorded \in SUBSET at("record") :
          /\ object' = [k \in Keys |-> IF k \in put THEN Uploader(u) ELSE object[k]]
          /\ row' = [k \in Keys |-> IF k \in recorded THEN r ELSE row[k]]
  BY DEF CancelUpload
<1>2. /\ upload[u].pc = "run" /\ upload' = [upload EXCEPT ![u].pc = "cancelled"]
      /\ entry' = [entry EXCEPT ![u] = [i \in ItemIds |-> NoEntry]]
      /\ UNCHANGED <<used, granted, today>>
  BY DEF CancelUpload
<1>3. KeyType /\ Uploader(u) \in Users /\ today \in Nat
  BY <1>2 DEF KeyInv, CallInv, KeyType
<1>4. r \in KeyRows /\ r.owner = Uploader(u) /\ r.day = today /\ r # NoUser
  BY <1>3, KeysAssumption DEF KeyRows
<1>5. \A i \in ItemIds : FileOK(u, entry[u][i]) /\ entry[u][i] \in Entries
  BY <1>3 DEF KeyInv, FileInv, KeyType
<1>6. \A k \in put : /\ k \in Keys /\ object[k] = NoUser /\ row[k] = NoUser
                     /\ \E i \in ItemIds : entry[u][i].key = k
  BY <1>5 DEF FileOK, Entries
<1>7. \A k \in recorded : /\ k \in Keys /\ object[k] = Uploader(u)
                          /\ \E i \in ItemIds : entry[u][i].key = k
  BY <1>5 DEF FileOK, Entries
<1>. HIDE DEF at, r
<1>8. /\ \A k \in Keys \ put : object'[k] = object[k]
      /\ \A k \in put : object'[k] = Uploader(u)
      /\ \A k \in Keys \ recorded : row'[k] = row[k]
      /\ \A k \in recorded : row'[k] = r
      /\ object' \in [Keys -> Users \cup {NoUser}] /\ row' \in [Keys -> KeyRows \cup {NoUser}]
  <2>1. \A k \in Keys : object[k] \in Users \cup {NoUser} /\ row[k] \in KeyRows \cup {NoUser}
    BY <1>3 DEF KeyType
  <2>. QED
    BY <1>1, <1>3, <1>4, <1>6, <1>7, <2>1
<1>9. NoEntry \in Entries /\ NoEntry.key = NoUser /\ NoEntry.pc = "none"
  BY DEF NoEntry, Entries, KeyPlaces
<1>10. /\ entry' \in [Uploads -> [ItemIds -> Entries]]
       /\ \A i \in ItemIds : entry'[u][i] = NoEntry
       /\ \A v \in Uploads : v # u => entry'[v] = entry[v]
  BY <1>2, <1>3, <1>9 DEF KeyType
<1>11. /\ upload' \in [Uploads -> UploadRecords]
       /\ \A v \in Uploads : /\ upload'[v].by = upload[v].by
                             /\ upload'[v].pc = upload[v].pc \/ upload[v].pc = "run"
  BY <1>2, <1>3 DEF KeyType, UploadRecords, UploadPlaces
<1>12. SingleInv'
  BY <1>9, <1>10 DEF KeyInv, SingleInv
<1>13. FileInv'
  <2>. SUFFICES ASSUME NEW v \in Uploads, NEW j \in ItemIds PROVE FileOK(v, entry[v][j])'
    BY DEF FileInv
  <2>1. CASE v = u
    BY <1>9, <1>10, <2>1 DEF FileOK
  <2>2. CASE v # u
    <3>1. PICK f : f = entry[v][j]
      OBVIOUS
    <3>2. FileOK(v, f) /\ f \in Entries /\ entry'[v][j] = f
      BY <1>3, <1>10, <2>2, <3>1 DEF KeyInv, FileInv, KeyType
    <3>3. f.key # NoUser => f.key \notin put /\ f.key \notin recorded /\ f.key \in Keys
      BY <1>6, <1>7, <2>2, <3>1, <3>2 DEF KeyInv, SingleInv, Entries
    <3>4. f.key # NoUser => object'[f.key] = object[f.key] /\ row'[f.key] = row[f.key]
      BY <1>8, <3>3
    <3>. QED
      BY <1>2, <1>11, <3>2, <3>4 DEF FileOK, Uploader
  <2>. QED
    BY <2>1, <2>2
<1>14. CallInv'
  BY <1>11 DEF KeyInv, CallInv, Uploader
<1>15. RowInv'
  <2>. SUFFICES ASSUME NEW m \in Keys
                PROVE  /\ used'[m] <= today'
                       /\ row'[m] # NoUser => row'[m].owner = object'[m] /\ used'[m] <= row'[m].day
    BY DEF RowInv
  <2>0. used[m] <= today
    BY DEF KeyInv, RowInv
  <2>1. CASE m \in recorded
    <3>1. row'[m] = r
      BY <1>8, <2>1
    <3>2. object'[m] = Uploader(u)
      BY <1>7, <1>8, <2>1
    <3>. QED
      BY <1>2, <1>4, <2>0, <3>1, <3>2
  <2>2. CASE m \notin recorded
    <3>1. row'[m] = row[m]
      BY <1>8, <2>2
    <3>2. row[m] # NoUser => object'[m] = object[m]
      BY <1>6, <1>8
    <3>. QED
      BY <1>2, <2>0, <3>1, <3>2 DEF KeyInv, RowInv
  <2>. QED
    BY <2>1, <2>2
<1>16. GrantInv'
  <2>. SUFFICES ASSUME NEW g \in granted PROVE object'[g[1]] = g[2]
    BY <1>2 DEF GrantInv
  <2>1. g[1] \in Keys /\ g[2] \in Users /\ object[g[1]] = g[2]
    BY <1>3 DEF KeyInv, KeyType, GrantInv
  <2>. QED
    BY <1>6, <1>8, <2>1, KeysAssumption
<1>. QED
  BY <1>2, <1>3, <1>8, <1>10, <1>11, <1>12, <1>13, <1>14, <1>15, <1>16 DEF KeyInv, KeyType

\* A URL is for the user of the row or, without a row, for the only user.
LEMMA PresignKeyOK ==
    ASSUME KeyInv, NEW k \in Keys, NEW p \in Users, PresignKey(k, p) PROVE KeyInv'
<1>1. /\ object[k] # NoUser /\ OwnsKey(k, p) /\ UNCHANGED <<object, upload, entry, today>>
      /\ row' = Touched(k) /\ granted' \in {granted, granted \cup {<<k, p>>}}
      /\ used' = IF row[k] = NoUser THEN used ELSE [used EXCEPT ![k] = today]
  BY DEF PresignKey
<1>2. KeyType /\ today \in Nat
  BY DEF KeyInv, KeyType
<1>3. object[k] = p
  <2>1. CASE row[k] = NoUser
    <3>1. LocalServer /\ object[k] \in Users
      BY <1>1, <1>2, <2>1 DEF OwnsKey, KeyType
    <3>. QED
      BY <3>1 DEF Users
  <2>2. CASE row[k] # NoUser
    BY <1>1, <2>2 DEF OwnsKey, KeyInv, RowInv
  <2>. QED
    BY <2>1, <2>2
<1>4. \A m \in Keys : row[m] = NoUser => row'[m] = NoUser /\ used'[m] = used[m]
  BY <1>1, <1>2 DEF Touched, KeyType
<1>5. /\ row' \in [Keys -> KeyRows \cup {NoUser}] /\ used' \in [Keys -> Nat]
      /\ \A m \in Keys : row[m] # NoUser =>
            /\ row'[m] # NoUser /\ row'[m].owner = row[m].owner
            /\ \/ m = k /\ row'[m].day = today /\ used'[m] = today
               \/ m # k /\ row'[m] = row[m] /\ used'[m] = used[m]
  <2>1. CASE row[k] = NoUser
    BY <1>1, <1>2, <2>1 DEF Touched, KeyType
  <2>2. CASE row[k] # NoUser
    <3>. DEFINE r == [row[k] EXCEPT !.day = today]
    <3>0. row[k] \in KeyRows
      BY <1>2, <2>2 DEF KeyType
    <3>1. r \in KeyRows /\ r.owner = row[k].owner /\ r.day = today
      BY <1>2, <3>0 DEF KeyRows
    <3>2. row' = [row EXCEPT ![k] = r] /\ used' = [used EXCEPT ![k] = today]
      BY <1>1, <2>2, <3>1 DEF Touched
    <3>3. r # NoUser
      BY KeysAssumption, <3>1 DEF KeyRows
    <3>4. row \in [Keys -> KeyRows \cup {NoUser}] /\ used \in [Keys -> Nat]
      BY <1>2 DEF KeyType
    <3>. HIDE DEF r
    <3>. QED
      BY <1>2, <3>1, <3>2, <3>3, <3>4
  <2>. QED
    BY <2>1, <2>2
<1>6. SingleInv' /\ FileInv'
  BY <1>1, <1>2, <1>4, <1>5, QuietFiles
<1>7. RowInv'
  <2>. SUFFICES ASSUME NEW m \in Keys
                PROVE  /\ used'[m] <= today'
                       /\ row'[m] # NoUser => row'[m].owner = object'[m] /\ used'[m] <= row'[m].day
    BY DEF RowInv
  <2>0. /\ used[m] <= today
        /\ row[m] # NoUser => row[m].owner = object[m] /\ used[m] <= row[m].day
    BY DEF KeyInv, RowInv
  <2>1. CASE row[m] = NoUser
    BY <1>1, <1>4, <2>0, <2>1
  <2>2. CASE row[m] # NoUser /\ m = k
    BY <1>1, <1>2, <1>5, <2>0, <2>2
  <2>3. CASE row[m] # NoUser /\ m # k
    BY <1>1, <1>5, <2>0, <2>3
  <2>. QED
    BY <2>1, <2>2, <2>3
<1>8. GrantInv' /\ granted' \subseteq Keys \X Users
  <2>1. granted' \subseteq granted \cup {<<k, p>>} /\ granted \subseteq Keys \X Users
    BY <1>1, <1>2 DEF KeyType
  <2>. QED
    BY <1>1, <1>3, <2>1 DEF KeyInv, GrantInv
<1>9. CallInv'
  BY <1>1 DEF KeyInv, CallInv, Uploader
<1>. QED
  BY <1>1, <1>2, <1>5, <1>6, <1>7, <1>8, <1>9 DEF KeyInv, KeyType

\* Rows that were not used for KeyRetention days go.
LEMMA PruneKeysOK == ASSUME KeyInv, PruneKeys PROVE KeyInv'
<1>1. /\ row' = [k \in Keys |-> IF row[k] # NoUser /\ today - row[k].day > KeyRetention
                                THEN NoUser ELSE row[k]]
      /\ UNCHANGED <<object, used, granted, upload, entry, today>>
  BY DEF PruneKeys
<1>2. KeyType /\ today \in Nat
  BY DEF KeyInv, KeyType
<1>3. \A k \in Keys : /\ row'[k] \in {row[k], NoUser}
                      /\ row'[k] # NoUser \/ row[k] = NoUser \/ today - row[k].day > KeyRetention
  BY <1>1
<1>4. \A k \in Keys : row'[k] # NoUser \/ row[k] = NoUser \/ today - used[k] > KeyRetention
  <2>. SUFFICES ASSUME NEW k \in Keys, row[k] # NoUser, today - row[k].day > KeyRetention
                PROVE  today - used[k] > KeyRetention
    BY <1>3
  <2>1. used[k] <= row[k].day /\ used[k] \in Nat /\ row[k].day \in Nat
    BY <1>2 DEF KeyInv, RowInv, KeyType, KeyRows
  <2>. QED
    BY <1>2, <2>1, KeysAssumption
<1>5. row' \in [Keys -> KeyRows \cup {NoUser}]
  BY <1>1, <1>2 DEF KeyType
<1>6. SingleInv' /\ FileInv'
  BY <1>1, <1>2, <1>3, <1>4, QuietFiles
<1>7. RowInv' /\ GrantInv' /\ CallInv'
  BY <1>1, <1>3 DEF KeyInv, RowInv, GrantInv, CallInv, Uploader
<1>. QED
  BY <1>1, <1>2, <1>5, <1>6, <1>7 DEF KeyInv, KeyType

\* A day passes; a row ages with its key.
LEMMA NextDayOK == ASSUME KeyInv, NextDay PROVE KeyInv'
<1>1. today' = today + 1 /\ UNCHANGED <<row, object, used, granted, upload, entry>>
  BY DEF NextDay
<1>2. KeyType /\ today \in Nat /\ today' \in Nat /\ today <= today'
  BY <1>1 DEF KeyInv, KeyType
<1>3. SingleInv'
  BY <1>1 DEF KeyInv, SingleInv
<1>4. FileInv'
  <2>. SUFFICES ASSUME NEW v \in Uploads, NEW j \in ItemIds PROVE FileOK(v, entry[v][j])'
    BY DEF FileInv
  <2>1. PICK f : f = entry[v][j]
    OBVIOUS
  <2>2. FileOK(v, f) /\ (f.key # NoUser => used[f.key] \in Nat)
    BY <1>2, <2>1 DEF KeyInv, KeyType, FileInv, Entries
  <2>3. f.key # NoUser /\ today - used[f.key] > KeyRetention => today' - used[f.key] > KeyRetention
    BY <1>1, <1>2, <2>2, KeysAssumption
  <2>. QED
    BY <1>1, <2>1, <2>2, <2>3 DEF FileOK, Uploader
<1>5. RowInv'
  <2>. SUFFICES ASSUME NEW m \in Keys
                PROVE  /\ used[m] <= today'
                       /\ row[m] # NoUser => row[m].owner = object[m] /\ used[m] <= row[m].day
    BY <1>1 DEF RowInv
  <2>1. used[m] <= today /\ used[m] \in Nat
    BY <1>2 DEF KeyInv, RowInv, KeyType
  <2>. QED
    BY <1>2, <2>1 DEF KeyInv, RowInv
<1>6. GrantInv' /\ CallInv'
  BY <1>1 DEF KeyInv, GrantInv, CallInv, Uploader
<1>. QED
  BY <1>1, <1>2, <1>3, <1>4, <1>5, <1>6 DEF KeyInv, KeyType

-----------------------------------------------------------------------------
\* Every step keeps the invariant.
LEMMA KeyStep == KeyInv /\ [KeyNext]_keyVars => KeyInv'
<1>. SUFFICES ASSUME KeyInv, [KeyNext]_keyVars PROVE KeyInv'
  OBVIOUS
<1>1. CASE \E u \in Uploads, p \in Users : MediaUpload(u, p)
  BY <1>1, MediaUploadOK
<1>2. CASE \E u \in Uploads, i \in ItemIds :
             StartItem(u, i) \/ PutObject(u, i) \/ PresignItem(u, i) \/ RecordItem(u, i)
  BY <1>2, StartItemOK, PutObjectOK, PresignItemOK, RecordItemOK
<1>3. CASE \E u \in Uploads : AnswerUpload(u) \/ CancelUpload(u)
  BY <1>3, AnswerUploadOK, CancelUploadOK
<1>4. CASE \E k \in Keys, p \in Users : PresignKey(k, p)
  BY <1>4, PresignKeyOK
<1>5. CASE PruneKeys \/ NextDay
  BY <1>5, PruneKeysOK, NextDayOK
<1>6. CASE UNCHANGED keyVars
  BY <1>6 DEF keyVars, KeyInv, KeyType, RowInv, SingleInv, FileInv, FileOK, CallInv, GrantInv, Uploader
<1>. QED
  BY <1>1, <1>2, <1>3, <1>4, <1>5, <1>6 DEF KeyNext

\* The inductive invariant of uploaded keys.
THEOREM KeyInvariant == KeySpec => []KeyInv
  BY KeyInitOK, KeyStep, PTL DEF KeySpec

\* For any users, tenants, keys and days: a URL is signed only for the user who
\* put the object, and the keys an upload answered pass require_owner for its
\* user until they go unused for the retention, through concurrent uploads,
\* failed records and pruning.
THEOREM KeysStay == KeySpec => []KeysStayWithUploaders
<1>1. KeyInv => KeysStayWithUploaders
  <2>. SUFFICES ASSUME KeyInv PROVE KeysStayWithUploaders
    OBVIOUS
  <2>1. ASSUME NEW u \in Uploads, NEW k \in Returned(u), today - used[k] <= KeyRetention
        PROVE  OwnsKey(k, upload[u].by)
    <3>1. PICK i \in ItemIds : entry[u][i].pc = "done" /\ entry[u][i].key = k
      BY DEF Returned
    <3>2. FileOK(u, entry[u][i]) /\ entry[u][i] \in Entries
      BY DEF KeyInv, FileInv, KeyType
    <3>3. k \in Keys /\ object[k] = Uploader(u) /\ (row[k] # NoUser \/ today - used[k] > KeyRetention)
      BY <3>1, <3>2 DEF FileOK, Entries
    <3>4. used[k] \in Nat /\ today \in Nat
      BY <3>3 DEF KeyInv, KeyType
    <3>5. row[k] # NoUser
      BY <2>1, <3>3, <3>4, KeysAssumption
    <3>. QED
      BY <3>3, <3>5 DEF KeyInv, RowInv, OwnsKey, Uploader
  <2>. QED
    BY <2>1 DEF KeyInv, GrantInv, KeysStayWithUploaders
<1>. QED
  BY <1>1, KeyInvariant, PTL

-----------------------------------------------------------------------------
(* AssetLibrary.                                                           *)

AssetPlaces == {"idle", "lock", "list", "make", "add", "look", "drop", "drop_asset", "rename",
                "verify", "check", "ended"}
AssetOps == {"none", "ensure", "create", "drop", "drop_all", "drop_asset", "rename", "verify",
             "seedance", "seedream"}
AssetAnswers == {"none", "ok", "clean", "ambiguous", "refused", "cancelled", "pending", "submitted",
                 "crashed"}

Asks == [pc : AssetPlaces, op : AssetOps, at : Servers \cup {Absent}, name : Subjects \cup {Absent},
         group : Groups \cup {Absent}, created : BOOLEAN, left : Nat, items : SUBSET Assets,
         doubts : Nat, refs : SUBSET Assets, bad : SUBSET Assets, answer : AssetAnswers]

\* What a call carries where it stands.
AskOK(j) ==
    /\ j \in Asks
    /\ j.pc \in {"lock", "list", "make"} =>
          j.at \in Servers /\ j.name \in Subjects /\ j.op \in {"ensure", "create"} /\ j.group = Absent
    /\ j.pc = "add" => j.op = "create"
    /\ j.pc = "look" => j.op = "drop"
    /\ j.pc = "drop" => j.op \in {"drop", "drop_all"}
    /\ j.pc = "drop_asset" => j.op = "drop_asset"
    /\ j.pc = "verify" => j.op = "verify"
    /\ j.pc = "rename" => j.op = "rename" /\ j.name \in Subjects
    /\ j.pc \in {"look", "drop", "rename"} => j.group \in Groups
    /\ j.op \notin {"seedance", "seedream"} => j.left <= MaxSources
    /\ j.pc # "ended" => j.answer = "none"

AssetType ==
    /\ group \in [Groups -> GroupRecords \cup {Absent}]
    /\ asset \in [Assets -> AssetRecords \cup {Absent}]
    /\ holder \in [Servers -> [Subjects -> AssetCalls \cup {Absent}]]
    /\ asking \in [AssetCalls -> Asks]
    /\ \A c \in AssetCalls : AskOK(asking[c])
    /\ late \subseteq AssetCalls \X (0..MaxSources)

\* The critical section of a server and a subject has one call, which makes a
\* group only where it saw none; only a request given up can have made one since.
SectionInv ==
    /\ \A c \in AssetCalls :
          /\ asking[c].pc \in {"list", "make"} => holder[asking[c].at][asking[c].name] = c
          /\ asking[c].pc = "make" => \A g \in HeldGroups :
                group[g].at = asking[c].at /\ group[g].name = asking[c].name => group[g].late
    /\ \A g \in HeldGroups : group[g].at # Absent => group[g].type = "AIGC"

\* The requests of a call that the provider may still carry out.
Pending(c) == {n \in 0..MaxSources : <<c, n>> \in late}

\* Two groups of one server and subject were not both made while their calls
\* waited, and a call that stopped waiting said so.
LateInv ==
    /\ \A g, h \in HeldGroups :
          group[g].at # Absent /\ group[g].at = group[h].at /\ group[g].name = group[h].name =>
              g = h \/ group[g].late \/ group[h].late
    /\ \A g \in HeldGroups : group[g].late =>
          group[g].by \in AssetCalls /\ asking[group[g].by].answer \in {"ambiguous", "cancelled"}
    /\ \A c \in AssetCalls :
          Pending(c) # {} /\ asking[c].op \in {"ensure", "create"} /\ asking[c].group = Absent =>
              asking[c].answer \in {"ambiguous", "cancelled"}

\* A delete that has looked knows every file but those added since.
LookInv ==
    \A c \in AssetCalls, a \in HeldAssets :
        asking[c].op = "drop" /\ c \in Dropping(asset[a].group) => c \in asset[a].after

Made(c) == {a \in HeldAssets : asset[a].by = c}
GroupsBy(c) == {g \in HeldGroups : group[g].by = c}

\* What call c made or may make still is known to it or doubted, unless it ended
\* saying that it does not know.
MadeBy(c) ==
    /\ asking[c].pc \notin {"add", "ended"} => Made(c) = {} /\ GroupsBy(c) = {} /\ Pending(c) = {}
    /\ asking[c].pc = "add" => \A n \in Pending(c) : n > asking[c].left
    /\ asking[c].answer \notin {"ambiguous", "cancelled", "crashed"} =>
          /\ Cardinality(Made(c) \ asking[c].items) + Cardinality(Pending(c)) <= asking[c].doubts
          /\ \A g \in GroupsBy(c) : asking[c].created /\ asking[c].group \in {g, Absent}

MadeInv == \A c \in AssetCalls : MadeBy(c)

AssetInv == AssetType /\ SectionInv /\ LateInv /\ LookInv /\ MadeInv

-----------------------------------------------------------------------------
(* The ways a call goes on, with its record spelled out: every action of a *)
(* call is one of them.                                                    *)

Finished(k, a) == [k EXCEPT !.pc = "ended", !.answer = a, !.refs = {}, !.bad = {}]
Found(k, g, b) ==
    IF k.op = "ensure" THEN [k EXCEPT !.group = g, !.created = b, !.pc = "ended", !.answer = "ok"]
    ELSE [k EXCEPT !.group = g, !.created = b, !.pc = "add"]
Quiet == UNCHANGED <<group, asset, late>>
LeaveIf(c) == IF asking[c].pc \in {"list", "make"} THEN Leave(c) ELSE UNCHANGED holder

Begins(c, j) ==
    /\ asking[c].pc = "idle" /\ Quiet /\ UNCHANGED holder
    /\ AskOK(j) /\ j.pc \notin {"idle", "list", "make"} /\ (j.op = "drop" => j.pc = "look")
Enters(c, j) ==
    /\ asking[c].pc = "lock" /\ Quiet /\ holder[asking[c].at][asking[c].name] = Absent
    /\ holder' = [holder EXCEPT ![asking[c].at][asking[c].name] = c]
    /\ j = [asking[c] EXCEPT !.pc = "list"]
SeesNone(c, j) ==
    /\ asking[c].pc = "list" /\ Known(asking[c].name) = {} /\ Quiet /\ UNCHANGED holder
    /\ j = [asking[c] EXCEPT !.pc = "make"]
Finds(c, j) ==
    /\ asking[c].pc = "list" /\ Leave(c) /\ Quiet
    /\ \E g \in Groups : j = Found(asking[c], g, FALSE)
Makes(c, j) ==
    /\ asking[c].pc = "make" /\ Leave(c) /\ UNCHANGED late
    /\ \E g \in Groups \ HeldGroups :
          MakesGroup(c, g, FALSE) /\ \E id \in {g, Absent} : j = Found(asking[c], id, TRUE)
Adds(c, j) ==
    /\ asking[c].pc = "add" /\ asking[c].left > 0 /\ UNCHANGED <<late, holder>>
    /\ \E a \in Assets \ HeldAssets :
          /\ AddsFile(c, a)
          /\ \/ j = [asking[c] EXCEPT !.left = asking[c].left - 1, !.items = asking[c].items \cup {a}]
             \/ j = [asking[c] EXCEPT !.pc = "ended", !.answer = "crashed", !.items = {}]
Misses(c, j) ==
    /\ asking[c].pc = "add" /\ asking[c].left > 0 /\ UNCHANGED holder
    /\ \E r \in Failures :
          /\ RequestFails(c, r)
          /\ j = [asking[c] EXCEPT !.left = asking[c].left - 1, !.doubts = Doubt(c, r)]
Looks(c, j) ==
    /\ asking[c].pc = "look" /\ Holds(asking[c].group) = {} /\ Quiet /\ UNCHANGED holder
    /\ j = [asking[c] EXCEPT !.pc = "drop"]
Does(c, j) ==
    /\ asking[c].pc \in {"drop", "drop_asset", "rename"} /\ CarriesOut(c, FALSE)
    /\ UNCHANGED <<late, holder>>
    /\ \E a \in {"ok", "clean"} : j = Finished(asking[c], a)
Stops(c, j) ==
    /\ asking[c].pc \notin {"idle", "ended"} /\ LeaveIf(c) /\ GivesUp(c)
    /\ \E a \in {"ambiguous", "cancelled"} : j = Finished(asking[c], a)
Quits(c, j) ==
    /\ asking[c].pc \notin {"idle", "ended"} /\ LeaveIf(c) /\ Quiet
    /\ \E a \in {"ok", "clean", "refused", "pending", "submitted"} : j = Finished(asking[c], a)
Passes(c, j) ==
    /\ asking[c].pc = "verify" /\ UNCHANGED <<asset, holder, late>>
    /\ \E g \in Groups \ HeldGroups, n \in Subjects :
          NewGroup(g, [PersonGroup EXCEPT !.name = n]) /\ j = [asking[c] EXCEPT !.group = g]
Reads(c, j) ==
    /\ asking[c].pc = "check" /\ asking[c].left > 0 /\ Quiet /\ UNCHANGED holder
    /\ \E refs, bad, items \in SUBSET Assets :
          j = [asking[c] EXCEPT !.left = asking[c].left - 1, !.refs = refs, !.bad = bad, !.items = items]

Turn(c, j) ==
    \/ Begins(c, j) \/ Enters(c, j) \/ SeesNone(c, j) \/ Finds(c, j) \/ Makes(c, j) \/ Adds(c, j)
    \/ Misses(c, j) \/ Looks(c, j) \/ Does(c, j) \/ Stops(c, j) \/ Quits(c, j) \/ Passes(c, j)
    \/ Reads(c, j)

-----------------------------------------------------------------------------
\* An idle call carries nothing.
LEMMA IdleAsk == AskOK(AssetIdle)
  BY AssetAssumption DEF AskOK, Asks, AssetIdle, AssetPlaces, AssetOps, AssetAnswers

\* What a call of a tool does.
CallStep(c) ==
    \/ \E s \in Servers :
          \/ AssetGroupEnsure(c, s) \/ AssetCreate(c, s) \/ AssetDelete(c, s)
          \/ AssetUpdate(c, s) \/ VerificationStart(c, s) \/ UseAssets(c, s)
    \/ Enter(c) \/ List(c) \/ CreateGroup(c) \/ CreateAsset(c) \/ WaitAssets(c)
    \/ Look(c) \/ DeleteGroup(c) \/ DeleteAsset(c) \/ Rename(c)
    \/ PersonPasses(c) \/ VerificationResult(c)
    \/ ReadAsset(c) \/ SubmitRequest(c) \/ CancelCall(c)

\* Beginning a call.
LEMMA BeginTurn ==
    ASSUME AssetType, NEW c \in AssetCalls, NEW s \in Servers,
           \/ AssetGroupEnsure(c, s) \/ AssetCreate(c, s) \/ AssetDelete(c, s)
           \/ AssetUpdate(c, s) \/ VerificationStart(c, s) \/ UseAssets(c, s)
    PROVE  \E j : Begins(c, j) /\ asking' = [asking EXCEPT ![c] = j]
<1>. DEFINE Starts(j) == AskOK(j) /\ j.pc \notin {"idle", "list", "make"} /\ (j.op = "drop" => j.pc = "look")
            Result == \E j : Begins(c, j) /\ asking' = [asking EXCEPT ![c] = j]
<1>. USE DEF Begin
<1>. SUFFICES Result
  OBVIOUS
<1>0. ASSUME NEW j, Begin(c, j), Starts(j), UNCHANGED <<group, asset, holder, late>> PROVE Result
  BY <1>0 DEF Begins, Quiet
<1>u. UNCHANGED <<group, asset, holder, late>>
  BY DEF AssetGroupEnsure, AssetCreate, AssetDelete, AssetUpdate, VerificationStart, UseAssets
<1>m. MaxSources \in Nat /\ 0 <= MaxSources
  BY AssetAssumption
<1>. HIDE DEF Begin, Result
<1>. USE <1>m DEF AskOK, Asks, AssetIdle, AssetPlaces, AssetOps, AssetAnswers
<1>1. CASE AssetGroupEnsure(c, s)
  <2>1. PICK n \in Subjects : Begin(c, [AssetIdle EXCEPT !.pc = "lock", !.op = "ensure", !.at = s, !.name = n])
    BY <1>1 DEF AssetGroupEnsure
  <2>2. Starts([AssetIdle EXCEPT !.pc = "lock", !.op = "ensure", !.at = s, !.name = n])
    OBVIOUS
  <2>. HIDE DEF Starts, AssetIdle
  <2>. QED
    BY <1>0, <1>u, <2>1, <2>2, Zenon
<1>2. CASE AssetCreate(c, s)
  <2>1. PICK k \in 1..MaxSources :
          \/ \E n \in Subjects : Begin(c, [AssetIdle EXCEPT !.pc = "lock", !.op = "create", !.at = s,
                                                            !.name = n, !.left = k])
          \/ \E g \in HeldGroups : Begin(c, [AssetIdle EXCEPT !.pc = "add", !.op = "create", !.at = s,
                                                              !.group = g, !.left = k])
    BY <1>2, Zenon DEF AssetCreate
  <2>2. k \in Nat /\ k <= MaxSources
    OBVIOUS
  <2>3. ASSUME NEW n \in Subjects
        PROVE  Starts([AssetIdle EXCEPT !.pc = "lock", !.op = "create", !.at = s, !.name = n, !.left = k])
    BY <2>2
  <2>4. ASSUME NEW g \in Groups
        PROVE  Starts([AssetIdle EXCEPT !.pc = "add", !.op = "create", !.at = s, !.group = g, !.left = k])
    BY <2>2
  <2>5. HeldGroups \subseteq Groups
    BY DEF HeldGroups
  <2>. HIDE DEF Starts, AssetIdle
  <2>. QED
    BY <1>0, <1>u, <2>1, <2>3, <2>4, <2>5, Zenon
<1>3. CASE AssetDelete(c, s)
  <2>1. \/ \E g \in HeldGroups, cascade \in BOOLEAN :
             Begin(c, [AssetIdle EXCEPT !.pc = IF cascade THEN "drop" ELSE "look", !.at = s,
                                        !.op = IF cascade THEN "drop_all" ELSE "drop", !.group = g])
        \/ \E a \in HeldAssets : Begin(c, [AssetIdle EXCEPT !.pc = "drop_asset", !.op = "drop_asset",
                                                            !.at = s, !.items = {a}])
    BY <1>3, Zenon DEF AssetDelete
  <2>2. ASSUME NEW g \in Groups, NEW b \in BOOLEAN
        PROVE  Starts([AssetIdle EXCEPT !.pc = IF b THEN "drop" ELSE "look", !.at = s,
                                       !.op = IF b THEN "drop_all" ELSE "drop", !.group = g])
    OBVIOUS
  <2>3. ASSUME NEW a \in Assets
        PROVE  Starts([AssetIdle EXCEPT !.pc = "drop_asset", !.op = "drop_asset", !.at = s, !.items = {a}])
    OBVIOUS
  <2>4. HeldGroups \subseteq Groups /\ HeldAssets \subseteq Assets
    BY DEF HeldGroups, HeldAssets
  <2>. HIDE DEF Starts, AssetIdle
  <2>. QED
    BY <1>0, <1>u, <2>1, <2>2, <2>3, <2>4, Zenon
<1>4. CASE AssetUpdate(c, s)
  <2>1. PICK g \in Groups, n \in Subjects : Begin(c,
          [AssetIdle EXCEPT !.pc = "rename", !.op = "rename", !.at = s, !.group = g, !.name = n])
    BY <1>4 DEF AssetUpdate, HeldGroups
  <2>2. Starts([AssetIdle EXCEPT !.pc = "rename", !.op = "rename", !.at = s, !.group = g, !.name = n])
    OBVIOUS
  <2>. HIDE DEF Starts, AssetIdle
  <2>. QED
    BY <1>0, <1>u, <2>1, <2>2, Zenon
<1>5. CASE VerificationStart(c, s)
  <2>1. PICK pc \in {"verify", "ended"} : Begin(c,
          [AssetIdle EXCEPT !.pc = pc, !.op = "verify", !.at = s,
                            !.answer = IF pc = "ended" THEN "refused" ELSE "none"])
    BY <1>5 DEF VerificationStart
  <2>2. Starts([AssetIdle EXCEPT !.pc = pc, !.op = "verify", !.at = s,
                                !.answer = IF pc = "ended" THEN "refused" ELSE "none"])
    OBVIOUS
  <2>. HIDE DEF Starts, AssetIdle
  <2>. QED
    BY <1>0, <1>u, <2>1, <2>2, Zenon
<1>6. CASE UseAssets(c, s)
  <2>1. PICK refs \in SUBSET Assets, op \in {"seedance", "seedream"} : Begin(c,
          [AssetIdle EXCEPT !.pc = "check", !.op = op, !.at = s, !.refs = refs,
                            !.left = Cardinality(refs)])
    BY <1>6 DEF UseAssets, HeldAssets
  <2>2. Cardinality(refs) \in Nat
    BY AssetAssumption, FS_Subset, FS_CardinalityType
  <2>3. Starts([AssetIdle EXCEPT !.pc = "check", !.op = op, !.at = s, !.refs = refs,
                                !.left = Cardinality(refs)])
    BY <2>2
  <2>. HIDE DEF Starts, AssetIdle
  <2>. QED
    BY <1>0, <1>u, <2>1, <2>3, Zenon
<1>. QED
  BY <1>1, <1>2, <1>3, <1>4, <1>5, <1>6

\* A request that fails is given up with a doubt, or has done nothing.
LEMMA FailsClean ==
    ASSUME NEW c, NEW r \in Failures, RequestFails(c, r)
    PROVE  \/ Class(r) = "ambiguous" /\ GivesUp(c)
           \/ Class(r) = "clean" /\ Quiet
<1>1. CASE r = "garbled"
  <2>1. GivesUp(c)
    BY <1>1 DEF RequestFails, GivesUp
  <2>2. Class(r) = "ambiguous"
    BY <1>1 DEF Class, AssetAmbiguous
  <2>. QED
    BY <2>1, <2>2, Zenon
<1>2. CASE r \in {"failed", "timeout", "broken"}
  <2>1. GivesUp(c)
    BY <1>2 DEF RequestFails
  <2>2. Class(r) = "ambiguous"
    BY <1>2 DEF Class, AssetAmbiguous
  <2>. QED
    BY <2>1, <2>2, Zenon
<1>3. CASE r \in {"refused", "throttled", "unsent"}
  BY <1>3 DEF RequestFails, Class, AssetAmbiguous, Quiet
<1>. QED
  BY <1>1, <1>2, <1>3 DEF Failures, AssetReplies

\* Going on with a call.
LEMMA CallTurn ==
    ASSUME AssetType, NEW c \in AssetCalls, CallStep(c)
    PROVE  \E j : Turn(c, j) /\ asking' = [asking EXCEPT ![c] = j]
<1>. DEFINE k == asking[c]
            Result == \E j : Turn(c, j) /\ asking' = [asking EXCEPT ![c] = j]
<1>. SUFFICES Result
  OBVIOUS
<1>0. ASSUME NEW j, Turn(c, j), asking' = [asking EXCEPT ![c] = j] PROVE Result
  BY <1>0
<1>1. asking \in [AssetCalls -> Asks] /\ AskOK(k) /\ k \in Asks
  BY DEF AssetType, AskOK
<1>2. ASSUME NEW a, Answer(c, a) PROVE asking' = [asking EXCEPT ![c] = Finished(k, a)]
  BY <1>2 DEF Answer, Finished
<1>3. ASSUME NEW l, Proceed(c, l) PROVE asking' = [asking EXCEPT ![c] = [k EXCEPT !.pc = l]]
  BY <1>3 DEF Proceed
<1>4. ASSUME NEW g, NEW b, Resolved(c, g, b) PROVE asking' = [asking EXCEPT ![c] = Found(k, g, b)]
  BY <1>4 DEF Resolved, Found
<1>. HIDE DEF Result
<1>q. ASSUME NEW a \in {"ok", "clean", "refused", "pending", "submitted"}, Answer(c, a),
             k.pc \notin {"idle", "ended"}, LeaveIf(c), Quiet
      PROVE  Result
  <2>1. Quits(c, Finished(k, a))
    BY <1>q DEF Quits
  <2>. QED
    BY <1>0, <1>2, <1>q, <2>1 DEF Turn
<1>s. ASSUME NEW a \in {"ambiguous", "cancelled"}, Answer(c, a),
             k.pc \notin {"idle", "ended"}, LeaveIf(c), GivesUp(c)
      PROVE  Result
  <2>1. Stops(c, Finished(k, a))
    BY <1>s DEF Stops
  <2>. QED
    BY <1>0, <1>2, <1>s, <2>1 DEF Turn
<1>f. ASSUME NEW r \in Failures, RequestFails(c, r), Answer(c, Class(r)),
             k.pc \notin {"idle", "ended"}, LeaveIf(c)
      PROVE  Result
  <2>1. \/ Class(r) = "ambiguous" /\ GivesUp(c)
        \/ Class(r) = "clean" /\ Quiet
    BY <1>f, FailsClean
  <2>2. CASE Class(r) = "ambiguous" /\ GivesUp(c)
    BY <1>s, <1>f, <2>2
  <2>3. CASE Class(r) = "clean" /\ Quiet
    BY <1>q, <1>f, <2>3
  <2>. QED
    BY <2>1, <2>2, <2>3
<1>d. ASSUME NEW a \in {"ok", "clean"}, Answer(c, a), k.pc \in {"drop", "drop_asset", "rename"},
             CarriesOut(c, FALSE), UNCHANGED <<late, holder>>
      PROVE  Result
  <2>1. Does(c, Finished(k, a))
    BY <1>d DEF Does
  <2>. QED
    BY <1>0, <1>2, <1>d, <2>1 DEF Turn
<1>5. CASE \E s \in Servers :
             \/ AssetGroupEnsure(c, s) \/ AssetCreate(c, s) \/ AssetDelete(c, s)
             \/ AssetUpdate(c, s) \/ VerificationStart(c, s) \/ UseAssets(c, s)
  BY <1>0, <1>5, BeginTurn DEF Turn
<1>6. CASE Enter(c)
  <2>1. Enters(c, [k EXCEPT !.pc = "list"]) /\ Proceed(c, "list")
    BY <1>6 DEF Enter, Enters, Quiet
  <2>. QED
    BY <1>0, <1>3, <2>1 DEF Turn
<1>7. CASE List(c)
  <2>1. CASE Known(k.name) = {} /\ Proceed(c, "make") /\ UNCHANGED holder
    <3>1. SeesNone(c, [k EXCEPT !.pc = "make"])
      BY <1>7, <2>1 DEF List, SeesNone, Quiet
    <3>. QED
      BY <1>0, <1>3, <2>1, <3>1 DEF Turn
  <2>2. ASSUME NEW g \in Groups, Resolved(c, g, FALSE), Leave(c) PROVE Result
    <3>1. Finds(c, Found(k, g, FALSE))
      BY <1>7, <2>2 DEF List, Finds, Quiet
    <3>. QED
      BY <1>0, <1>4, <2>2, <3>1 DEF Turn
  <2>3. CASE (Answer(c, "refused") \/ Answer(c, "clean")) /\ Leave(c)
    BY <1>7, <1>q, <2>3 DEF List, LeaveIf, Quiet
  <2>4. Known(k.name) \subseteq Groups
    BY DEF Known
  <2>. QED
    BY <1>7, <2>1, <2>2, <2>3, <2>4 DEF List
<1>8. CASE CreateGroup(c)
  <2>0. k.pc = "make" /\ Leave(c) /\ LeaveIf(c)
    BY <1>8 DEF CreateGroup, LeaveIf
  <2>1. ASSUME NEW g \in Groups \ HeldGroups, MakesGroup(c, g, FALSE), UNCHANGED late,
               NEW id \in {g, Absent}, Resolved(c, id, TRUE)
        PROVE  Result
    <3>1. Makes(c, Found(k, id, TRUE))
      BY <2>0, <2>1 DEF Makes
    <3>. QED
      BY <1>0, <1>4, <2>1, <3>1 DEF Turn
  <2>2. ASSUME NEW r \in Failures, RequestFails(c, r), Answer(c, Class(r)) PROVE Result
    BY <1>f, <2>0, <2>2
  <2>. QED
    BY <1>8, <2>1, <2>2, Zenon DEF CreateGroup
<1>9. CASE CreateAsset(c)
  <2>0. k.pc = "add" /\ k.left > 0 /\ UNCHANGED holder
    BY <1>9 DEF CreateAsset
  <2>1. ASSUME NEW a \in Assets \ HeldAssets, AddsFile(c, a), UNCHANGED late, NEW j,
               asking' = [asking EXCEPT ![c] = j],
               \/ j = [k EXCEPT !.left = k.left - 1, !.items = k.items \cup {a}]
               \/ j = [k EXCEPT !.pc = "ended", !.answer = "crashed", !.items = {}]
        PROVE  Result
    <3>1. Adds(c, j)
      BY <2>0, <2>1 DEF Adds
    <3>. QED
      BY <1>0, <2>1, <3>1 DEF Turn
  <2>2. ASSUME NEW r \in Failures, RequestFails(c, r),
               asking' = [asking EXCEPT ![c].left = @ - 1, ![c].doubts = Doubt(c, r)]
        PROVE  Result
    <3>1. asking' = [asking EXCEPT ![c] = [k EXCEPT !.left = k.left - 1, !.doubts = Doubt(c, r)]]
      BY <2>2
    <3>2. Misses(c, [k EXCEPT !.left = k.left - 1, !.doubts = Doubt(c, r)])
      BY <2>0, <2>2 DEF Misses
    <3>. QED
      BY <1>0, <3>1, <3>2 DEF Turn
  <2>3. ASSUME NEW a \in Assets \ HeldAssets, AddsFile(c, a), UNCHANGED late,
               asking' = [asking EXCEPT ![c].left = @ - 1, ![c].items = @ \cup {a}]
        PROVE  Result
    <3>1. asking' = [asking EXCEPT ![c] = [k EXCEPT !.left = k.left - 1, !.items = k.items \cup {a}]]
      BY <2>3
    <3>. QED
      BY <2>1, <2>3, <3>1
  <2>4. ASSUME NEW a \in Assets \ HeldAssets, AddsFile(c, a), UNCHANGED late,
               asking' = [asking EXCEPT ![c].pc = "ended", ![c].answer = "crashed", ![c].items = {}]
        PROVE  Result
    <3>1. asking' = [asking EXCEPT ![c] = [k EXCEPT !.pc = "ended", !.answer = "crashed", !.items = {}]]
      BY <2>4
    <3>. QED
      BY <2>1, <2>4, <3>1
  <2>. QED
    BY <1>9, <2>2, <2>3, <2>4, Zenon DEF CreateAsset
<1>10. CASE Look(c)
  <2>1. CASE Answer(c, "refused")
    BY <1>10, <1>q, <2>1 DEF Look, LeaveIf, Quiet
  <2>2. CASE group[k.group] # Absent /\ ListAssets(k.group, group[k.group].type) = {} /\ Proceed(c, "drop")
    <3>1. Looks(c, [k EXCEPT !.pc = "drop"])
      BY <1>10, <2>2 DEF Look, Looks, Quiet, ListAssets
    <3>. QED
      BY <1>0, <1>3, <2>2, <3>1 DEF Turn
  <2>. QED
    BY <1>10, <2>1, <2>2 DEF Look
<1>11. CASE DeleteGroup(c) \/ DeleteAsset(c) \/ Rename(c)
  <2>0. /\ k.pc \in {"drop", "drop_asset", "rename"} /\ UNCHANGED holder /\ LeaveIf(c)
    BY <1>11 DEF DeleteGroup, DeleteAsset, Rename, LeaveIf
  <2>1. ASSUME NEW r \in Failures, RequestFails(c, r), Answer(c, Class(r)) PROVE Result
    BY <1>f, <2>0, <2>1
  <2>2. ASSUME NEW a \in {"ok", "clean"}, Answer(c, a), CarriesOut(c, FALSE), UNCHANGED late PROVE Result
    BY <1>d, <2>0, <2>2
  <2>3. RemovesGroup(c) \/ RemovesAsset(c) \/ RenamesGroup(c) => CarriesOut(c, FALSE)
    BY DEF CarriesOut
  <2>. QED
    BY <1>11, <2>1, <2>2, <2>3 DEF DeleteGroup, DeleteAsset, Rename
<1>12. CASE WaitAssets(c) \/ SubmitRequest(c)
  BY <1>12, <1>q DEF WaitAssets, SubmitRequest, LeaveIf, Quiet
<1>13. CASE VerificationResult(c)
  BY <1>13, <1>q DEF VerificationResult, LeaveIf, Quiet
<1>14. CASE CancelCall(c)
  BY <1>14, <1>s DEF CancelCall, LeaveIf
<1>15. CASE PersonPasses(c)
  <2>1. PICK g \in Groups \ HeldGroups, n \in Subjects :
            NewGroup(g, [PersonGroup EXCEPT !.name = n]) /\ asking' = [asking EXCEPT ![c].group = g]
    BY <1>15 DEF PersonPasses
  <2>2. asking' = [asking EXCEPT ![c] = [k EXCEPT !.group = g]]
    BY <2>1
  <2>3. Passes(c, [k EXCEPT !.group = g])
    BY <1>15, <2>1 DEF PersonPasses, Passes
  <2>. QED
    BY <1>0, <2>2, <2>3 DEF Turn
<1>16. CASE ReadAsset(c)
  <2>0. k.pc = "check" /\ k.left > 0 /\ Quiet /\ UNCHANGED holder
    BY <1>16 DEF ReadAsset, Quiet
  <2>1. PICK a \in k.refs :
          \/ asking' = [asking EXCEPT ![c].left = @ - 1, ![c].refs = @ \ {a},
                ![c].bad = IF Blocks(asking[c].op, a) THEN @ \cup {a} ELSE @,
                ![c].items = IF Blocks(asking[c].op, a) THEN @ ELSE @ \cup {a}]
          \/ asking' = [asking EXCEPT ![c].left = @ - 1, ![c].refs = @ \ {a}]
          \/ Answer(c, "refused")
    BY <1>16, Zenon DEF ReadAsset
  <2>2. /\ k.refs \in SUBSET Assets /\ k.bad \in SUBSET Assets /\ k.items \in SUBSET Assets
        /\ a \in Assets
    BY <1>1, <2>1 DEF Asks
  <2>3. ASSUME NEW refs \in SUBSET Assets, NEW bad \in SUBSET Assets, NEW items \in SUBSET Assets,
               asking' = [asking EXCEPT ![c] = [k EXCEPT !.left = k.left - 1, !.refs = refs,
                                                         !.bad = bad, !.items = items]]
        PROVE  Result
    <3>1. Reads(c, [k EXCEPT !.left = k.left - 1, !.refs = refs, !.bad = bad, !.items = items])
      BY <2>0, <2>3 DEF Reads
    <3>. QED
      BY <1>0, <2>3, <3>1 DEF Turn
  <2>4. CASE asking' = [asking EXCEPT ![c].left = @ - 1, ![c].refs = @ \ {a},
                ![c].bad = IF Blocks(asking[c].op, a) THEN @ \cup {a} ELSE @,
                ![c].items = IF Blocks(asking[c].op, a) THEN @ ELSE @ \cup {a}]
    <3>1. asking' = [asking EXCEPT ![c] = [k EXCEPT !.left = k.left - 1, !.refs = k.refs \ {a},
             !.bad = IF Blocks(k.op, a) THEN k.bad \cup {a} ELSE k.bad,
             !.items = IF Blocks(k.op, a) THEN k.items ELSE k.items \cup {a}]]
      BY <2>4
    <3>2. /\ (IF Blocks(k.op, a) THEN k.bad \cup {a} ELSE k.bad) \in SUBSET Assets
          /\ (IF Blocks(k.op, a) THEN k.items ELSE k.items \cup {a}) \in SUBSET Assets
          /\ k.refs \ {a} \in SUBSET Assets
      BY <2>2
    <3>. QED
      BY <2>3, <3>1, <3>2, Zenon
  <2>5. CASE asking' = [asking EXCEPT ![c].left = @ - 1, ![c].refs = @ \ {a}]
    <3>1. asking' = [asking EXCEPT ![c] = [k EXCEPT !.left = k.left - 1, !.refs = k.refs \ {a},
                                                    !.bad = k.bad, !.items = k.items]]
      BY <1>1, <2>5 DEF Asks
    <3>. QED
      BY <2>2, <2>3, <3>1
  <2>6. CASE Answer(c, "refused")
    BY <1>q, <2>0, <2>6 DEF LeaveIf
  <2>. QED
    BY <2>1, <2>4, <2>5, <2>6
<1>. QED
  BY <1>5, <1>6, <1>7, <1>8, <1>9, <1>10, <1>11, <1>12, <1>13, <1>14, <1>15, <1>16 DEF CallStep

-----------------------------------------------------------------------------
(* What a step does at the provider.                                       *)

GroupMade(c, b) ==
    [name |-> asking[c].name, type |-> "AIGC", at |-> asking[c].at, by |-> c, late |-> b]

\* Groups are left alone, removed or renamed, or appear as a person's.
KeptGroups ==
    \A g \in HeldGroups' :
        \/ /\ g \in HeldGroups /\ group'[g].by = group[g].by /\ group'[g].late = group[g].late
           /\ group'[g].at # Absent => group'[g] = group[g]
        \/ group'[g].by = Absent /\ group'[g].at = Absent /\ group'[g].late = FALSE

\* Files are left alone or removed, or their status changes.
KeptFiles ==
    \A a \in HeldAssets' :
        /\ a \in HeldAssets /\ asset'[a].group = asset[a].group
        /\ asset'[a].by = asset[a].by /\ asset'[a].after = asset[a].after

\* A group is made for a call.
LEMMA MakesOne ==
    ASSUME AssetType, NEW c \in AssetCalls, NEW g \in Groups \ HeldGroups, NEW b \in BOOLEAN,
           MakesGroup(c, g, b)
    PROVE  /\ group' \in [Groups -> GroupRecords \cup {Absent}] /\ asset' = asset
           /\ HeldGroups' = HeldGroups \cup {g} /\ \A h \in HeldGroups : group'[h] = group[h]
           /\ group'[g].name = asking[c].name /\ group'[g].type = "AIGC"
           /\ group'[g].at = asking[c].at /\ group'[g].by = c /\ group'[g].late = b
<1>1. GroupMade(c, b) \in GroupRecords
  <2>1. asking[c].name \in Subjects \cup {Absent} /\ asking[c].at \in Servers \cup {Absent}
    BY DEF AssetType, Asks
  <2>. QED
    BY <2>1 DEF GroupMade, GroupRecords
<1>2. GroupMade(c, b) # Absent
  BY <1>1, AssetAssumption
<1>3. group' = [group EXCEPT ![g] = GroupMade(c, b)] /\ asset' = asset
  BY DEF MakesGroup, NewGroup, GroupMade
<1>4. group'[g] = GroupMade(c, b)
  BY <1>3 DEF AssetType
<1>5. /\ group'[g].name = asking[c].name /\ group'[g].type = "AIGC"
      /\ group'[g].at = asking[c].at /\ group'[g].by = c /\ group'[g].late = b
  BY <1>4 DEF GroupMade
<1>. QED
  BY <1>1, <1>2, <1>3, <1>5 DEF AssetType, HeldGroups

\* A file is added for a call.
LEMMA AddsOne ==
    ASSUME AssetType, NEW c \in AssetCalls, NEW a \in Assets \ HeldAssets, AddsFile(c, a)
    PROVE  /\ asset' \in [Assets -> AssetRecords \cup {Absent}] /\ group' = group
           /\ HeldAssets' = HeldAssets \cup {a} /\ \A b \in HeldAssets : asset'[b] = asset[b]
           /\ asset'[a].by = c /\ asset'[a].group = asking[c].group
           /\ asset'[a].after = Dropping(asking[c].group)
<1>. DEFINE f(type) == [group |-> asking[c].group, type |-> type, status |-> "Processing", by |-> c,
                        after |-> Dropping(asking[c].group)]
<1>1. PICK type \in AssetTypes : asset' = [asset EXCEPT ![a] = f(type)]
  BY DEF AddsFile
<1>2. asking[c].group \in Groups /\ Dropping(asking[c].group) \in SUBSET AssetCalls /\ group' = group
  BY DEF AddsFile, HeldGroups, Dropping
<1>3. f(type) \in AssetRecords
  BY <1>2 DEF AssetRecords
<1>4. f(type) # Absent
  BY <1>3, AssetAssumption
<1>5. f(type).by = c /\ f(type).group = asking[c].group /\ f(type).after = Dropping(asking[c].group)
  OBVIOUS
<1>. HIDE DEF f
<1>. QED
  BY <1>1, <1>2, <1>3, <1>4, <1>5 DEF AssetType, HeldAssets

\* A request carried out makes one group, adds one file, or makes nothing.
LEMMA Carried ==
    ASSUME AssetType, NEW c \in AssetCalls, NEW b \in BOOLEAN, CarriesOut(c, b)
    PROVE  /\ group' \in [Groups -> GroupRecords \cup {Absent}]
           /\ asset' \in [Assets -> AssetRecords \cup {Absent}]
           /\ KeptGroups \/ \E g \in Groups \ HeldGroups : MakesGroup(c, g, b)
           /\ KeptFiles \/ \E a \in Assets \ HeldAssets : AddsFile(c, a)
<1>. DEFINE k == asking[c]
<1>a. asset' = asset => KeptFiles /\ asset' \in [Assets -> AssetRecords \cup {Absent}]
  BY DEF KeptFiles, HeldAssets, AssetType
<1>g. group' = group => KeptGroups /\ group' \in [Groups -> GroupRecords \cup {Absent}]
  BY DEF KeptGroups, HeldGroups, AssetType
<1>1. CASE \E g \in Groups \ HeldGroups : MakesGroup(c, g, b)
  BY <1>1, <1>a, MakesOne
<1>2. CASE \E a \in Assets \ HeldAssets : AddsFile(c, a)
  BY <1>2, <1>g, AddsOne
<1>3. CASE RemovesGroup(c)
  BY <1>3 DEF RemovesGroup, KeptGroups, KeptFiles, HeldGroups, HeldAssets, AssetType
<1>4. CASE RemovesAsset(c)
  BY <1>4, <1>g DEF RemovesAsset, KeptFiles, HeldAssets, AssetType
<1>5. CASE RenamesGroup(c)
  <2>1. /\ k.group \in Groups /\ group[k.group] # Absent /\ asset' = asset
        /\ group' = [group EXCEPT ![k.group].name = k.name, ![k.group].at = Absent]
    BY <1>5 DEF RenamesGroup, HeldGroups
  <2>2. group[k.group] \in GroupRecords /\ k.name \in Subjects \cup {Absent}
    BY <2>1 DEF AssetType, Asks
  <2>3. [group[k.group] EXCEPT !.name = k.name, !.at = Absent] \in GroupRecords
    BY <2>2 DEF GroupRecords
  <2>4. group' = [group EXCEPT ![k.group] = [group[k.group] EXCEPT !.name = k.name, !.at = Absent]]
    BY <2>1
  <2>5. group' \in [Groups -> GroupRecords \cup {Absent}]
    BY <2>3, <2>4 DEF AssetType
  <2>6. KeptGroups
    <3>1. \A g \in Groups \ {k.group} : group'[g] = group[g]
      BY <2>4 DEF AssetType
    <3>2. /\ group'[k.group].by = group[k.group].by /\ group'[k.group].late = group[k.group].late
          /\ group'[k.group].at = Absent
      BY <2>1, <2>2, <2>4 DEF AssetType, GroupRecords
    <3>. QED
      BY <2>1, <3>1, <3>2 DEF KeptGroups, HeldGroups
  <2>. QED
    BY <1>a, <2>1, <2>5, <2>6
<1>. QED
  BY <1>1, <1>2, <1>3, <1>4, <1>5 DEF CarriesOut

\* What a step of a call does at the provider: a group only from the critical
\* section, a file only for a create call, and at most one request left behind.
LEMMA TurnEffect ==
    ASSUME AssetType, NEW c \in AssetCalls, NEW j, Turn(c, j)
    PROVE  /\ group' \in [Groups -> GroupRecords \cup {Absent}]
           /\ asset' \in [Assets -> AssetRecords \cup {Absent}]
           /\ \/ KeptGroups
              \/ /\ Makes(c, j) \/ (Stops(c, j) /\ asking[c].pc = "make")
                 /\ \E g \in Groups \ HeldGroups : MakesGroup(c, g, FALSE)
           /\ \/ KeptFiles
              \/ /\ Adds(c, j) \/ Misses(c, j) \/ (Stops(c, j) /\ asking[c].pc = "add")
                 /\ \E a \in Assets \ HeldAssets : AddsFile(c, a)
           /\ \/ late' = late
              \/ /\ Misses(c, j) \/ Stops(c, j)
                 /\ Sends(c) /\ late' = late \cup {<<c, asking[c].left>>}
                 /\ UNCHANGED <<group, asset>>
<1>. DEFINE k == asking[c]
<1>0. AskOK(k) /\ asking \in [AssetCalls -> Asks]
  BY DEF AssetType
<1>a. asset' = asset => KeptFiles /\ asset' \in [Assets -> AssetRecords \cup {Absent}]
  BY DEF KeptFiles, HeldAssets, AssetType
<1>g. group' = group => KeptGroups /\ group' \in [Groups -> GroupRecords \cup {Absent}]
  BY DEF KeptGroups, HeldGroups, AssetType
<1>q. CASE Quiet
  BY <1>q, <1>a, <1>g DEF Quiet
<1>k. Sends(c) => k.pc \in {"make", "add", "drop", "drop_asset", "rename"}
  BY DEF Sends
<1>m. ASSUME NEW g, MakesGroup(c, g, FALSE), k.pc \in {"make", "add", "drop", "drop_asset", "rename"}
      PROVE  k.pc = "make"
  BY <1>m DEF MakesGroup
<1>f. ASSUME NEW a, AddsFile(c, a), k.pc \in {"make", "add", "drop", "drop_asset", "rename"}
      PROVE  k.pc = "add"
  BY <1>0, <1>f, AssetAssumption DEF AddsFile, AskOK, HeldGroups
<1>1. CASE Makes(c, j)
  <2>1. PICK g \in Groups \ HeldGroups : MakesGroup(c, g, FALSE) /\ late' = late
    BY <1>1 DEF Makes
  <2>2. group' \in [Groups -> GroupRecords \cup {Absent}] /\ asset' = asset
    BY <2>1, MakesOne
  <2>. QED
    BY <1>1, <1>a, <2>1, <2>2
<1>2. CASE Adds(c, j)
  <2>1. PICK a \in Assets \ HeldAssets : AddsFile(c, a) /\ late' = late
    BY <1>2 DEF Adds
  <2>2. asset' \in [Assets -> AssetRecords \cup {Absent}] /\ group' = group
    BY <2>1, AddsOne
  <2>. QED
    BY <1>2, <1>g, <2>1, <2>2
<1>c. ASSUME Sends(c), CarriesOut(c, FALSE), late' = late, Misses(c, j) \/ Stops(c, j) \/ Does(c, j)
      PROVE  /\ group' \in [Groups -> GroupRecords \cup {Absent}]
             /\ asset' \in [Assets -> AssetRecords \cup {Absent}]
             /\ \/ KeptGroups
                \/ k.pc = "make" /\ \E g \in Groups \ HeldGroups : MakesGroup(c, g, FALSE)
             /\ \/ KeptFiles
                \/ k.pc = "add" /\ \E a \in Assets \ HeldAssets : AddsFile(c, a)
  BY <1>c, <1>k, <1>m, <1>f, Carried
<1>3. CASE Misses(c, j)
  <2>1. PICK r \in Failures : RequestFails(c, r)
    BY <1>3 DEF Misses
  <2>2. \/ Sends(c) /\ CarriesOut(c, FALSE) /\ late' = late
        \/ Quiet
        \/ Sends(c) /\ late' = late \cup {<<c, k.left>>} /\ UNCHANGED <<group, asset>>
    BY <2>1 DEF RequestFails, GivesUp, Quiet
  <2>3. k.pc = "add"
    BY <1>3 DEF Misses
  <2>4. CASE Sends(c) /\ CarriesOut(c, FALSE) /\ late' = late
    BY <1>3, <1>c, <2>3, <2>4
  <2>5. CASE Sends(c) /\ late' = late \cup {<<c, k.left>>} /\ UNCHANGED <<group, asset>>
    BY <1>3, <1>a, <1>g, <2>5
  <2>. QED
    BY <1>q, <2>2, <2>4, <2>5
<1>4. CASE Stops(c, j)
  <2>2. \/ Sends(c) /\ CarriesOut(c, FALSE) /\ late' = late
        \/ Quiet
        \/ Sends(c) /\ late' = late \cup {<<c, k.left>>} /\ UNCHANGED <<group, asset>>
    BY <1>4 DEF Stops, GivesUp, Quiet
  <2>4. CASE Sends(c) /\ CarriesOut(c, FALSE) /\ late' = late
    BY <1>4, <1>c, <2>4
  <2>5. CASE Sends(c) /\ late' = late \cup {<<c, k.left>>} /\ UNCHANGED <<group, asset>>
    BY <1>4, <1>a, <1>g, <2>5
  <2>. QED
    BY <1>q, <2>2, <2>4, <2>5
<1>5. CASE Does(c, j)
  <2>1. Sends(c) /\ CarriesOut(c, FALSE) /\ late' = late /\ k.pc \in {"drop", "drop_asset", "rename"}
    BY <1>5 DEF Does, Sends
  <2>. QED
    BY <1>5, <1>c, <2>1
<1>6. CASE Passes(c, j)
  <2>1. PICK g \in Groups \ HeldGroups, n \in Subjects :
            group' = [group EXCEPT ![g] = [PersonGroup EXCEPT !.name = n]] /\ asset' = asset /\ late' = late
    BY <1>6 DEF Passes, NewGroup
  <2>2. [PersonGroup EXCEPT !.name = n] \in GroupRecords
    BY DEF PersonGroup, GroupRecords
  <2>3. /\ [PersonGroup EXCEPT !.name = n].by = Absent /\ [PersonGroup EXCEPT !.name = n].at = Absent
        /\ [PersonGroup EXCEPT !.name = n].late = FALSE
    BY DEF PersonGroup
  <2>4. group' \in [Groups -> GroupRecords \cup {Absent}] /\ KeptGroups
    BY <2>1, <2>2, <2>3 DEF KeptGroups, HeldGroups, AssetType
  <2>. QED
    BY <1>a, <2>1, <2>4
<1>7. CASE \/ Begins(c, j) \/ Enters(c, j) \/ SeesNone(c, j) \/ Finds(c, j) \/ Looks(c, j)
           \/ Quits(c, j) \/ Reads(c, j)
  BY <1>7, <1>q DEF Begins, Enters, SeesNone, Finds, Looks, Quits, Reads
<1>. QED
  BY <1>1, <1>2, <1>3, <1>4, <1>5, <1>6, <1>7 DEF Turn

\* Only a call's own request is left behind.
LEMMA TurnLate ==
    ASSUME AssetType, NEW c \in AssetCalls, NEW j, Turn(c, j), NEW d \in AssetCalls, d # c, NEW n
    PROVE  <<d, n>> \in late' <=> <<d, n>> \in late
<1>1. late' = late \/ late' = late \cup {<<c, asking[c].left>>}
  BY TurnEffect
<1>2. <<d, n>> # <<c, asking[c].left>>
  OBVIOUS
<1>. QED
  BY <1>1, <1>2

\* What a call carries after a step.
LEMMA TurnAsk ==
    ASSUME AssetType, NEW c \in AssetCalls, NEW j, Turn(c, j)
    PROVE  AskOK(j)
<1>. DEFINE k == asking[c]
<1>0. AskOK(k) /\ k \in Asks /\ k.left \in Nat /\ k.doubts \in Nat /\ MaxSources \in Nat
  BY AssetAssumption DEF AssetType, AskOK, Asks
<1>1. CASE Begins(c, j)
  BY <1>1 DEF Begins
<1>2. CASE Enters(c, j) \/ SeesNone(c, j) \/ Looks(c, j)
  BY <1>0, <1>2 DEF Enters, SeesNone, Looks, AskOK, Asks, AssetPlaces
<1>3. ASSUME NEW a \in AssetAnswers, j = Finished(k, a) PROVE AskOK(j)
  BY <1>0, <1>3 DEF Finished, AskOK, Asks, AssetPlaces
<1>4. CASE Does(c, j) \/ Stops(c, j) \/ Quits(c, j)
  <2>1. \E a \in AssetAnswers : j = Finished(k, a)
    BY <1>4 DEF Does, Stops, Quits, AssetAnswers
  <2>. QED
    BY <1>3, <2>1
<1>5. ASSUME NEW g \in Groups \cup {Absent}, NEW b \in BOOLEAN, j = Found(k, g, b),
             k.pc \in {"list", "make"}
      PROVE  AskOK(j)
  <2>1. CASE k.op = "ensure"
    BY <1>0, <1>5, <2>1 DEF Found, AskOK, Asks, AssetPlaces, AssetAnswers
  <2>2. CASE k.op # "ensure"
    BY <1>0, <1>5, <2>2 DEF Found, AskOK, Asks, AssetPlaces, AssetAnswers
  <2>. QED
    BY <2>1, <2>2
<1>6. CASE Finds(c, j) \/ Makes(c, j)
  BY <1>5, <1>6 DEF Finds, Makes
<1>7. CASE Adds(c, j)
  <2>0. k.left - 1 \in Nat /\ k.left - 1 <= k.left /\ k.pc = "add" /\ k.op = "create"
    BY <1>0, <1>7 DEF Adds, AskOK
  <2>1. PICK a \in Assets :
             \/ j = [k EXCEPT !.left = k.left - 1, !.items = k.items \cup {a}]
             \/ j = [k EXCEPT !.pc = "ended", !.answer = "crashed", !.items = {}]
    BY <1>7 DEF Adds
  <2>2. CASE j = [k EXCEPT !.left = k.left - 1, !.items = k.items \cup {a}]
    <3>1. j \in Asks
      BY <1>0, <2>0, <2>2 DEF Asks
    <3>2. /\ j.pc = "add" /\ j.op = "create" /\ j.group = k.group /\ j.answer = k.answer
          /\ j.left = k.left - 1
      BY <1>0, <2>0, <2>2 DEF Asks
    <3>. QED
      BY <1>0, <2>0, <3>1, <3>2 DEF AskOK
  <2>3. CASE j = [k EXCEPT !.pc = "ended", !.answer = "crashed", !.items = {}]
    BY <1>0, <2>3 DEF AskOK, Asks, AssetPlaces, AssetAnswers
  <2>. QED
    BY <2>1, <2>2, <2>3
<1>8. CASE Misses(c, j)
  <2>0. k.left - 1 \in Nat /\ k.left - 1 <= k.left /\ k.pc = "add" /\ k.op = "create"
    BY <1>0, <1>8 DEF Misses, AskOK
  <2>1. PICK d \in Nat : j = [k EXCEPT !.left = k.left - 1, !.doubts = d]
    <3>1. \A r : Doubt(c, r) \in Nat
      BY <1>0 DEF Doubt
    <3>. QED
      BY <1>8, <3>1 DEF Misses
  <2>2. j \in Asks
    BY <1>0, <2>0, <2>1 DEF Asks
  <2>3. /\ j.pc = "add" /\ j.op = "create" /\ j.group = k.group /\ j.answer = k.answer
        /\ j.left = k.left - 1
    BY <1>0, <2>0, <2>1 DEF Asks
  <2>. QED
    BY <1>0, <2>0, <2>2, <2>3 DEF AskOK
<1>9. CASE Passes(c, j)
  <2>1. PICK g \in Groups : j = [k EXCEPT !.group = g] /\ k.pc = "verify"
    BY <1>9 DEF Passes
  <2>. QED
    BY <1>0, <2>1 DEF AskOK, Asks
<1>10. CASE Reads(c, j)
  <2>0. k.left - 1 \in Nat /\ k.left - 1 <= k.left /\ k.pc = "check"
    BY <1>0, <1>10 DEF Reads
  <2>1. PICK refs \in SUBSET Assets, bad \in SUBSET Assets, items \in SUBSET Assets :
          j = [k EXCEPT !.left = k.left - 1, !.refs = refs, !.bad = bad, !.items = items]
    BY <1>10 DEF Reads
  <2>2. j \in Asks
    BY <1>0, <2>0, <2>1 DEF Asks
  <2>3. j.pc = "check" /\ j.op = k.op /\ j.answer = k.answer /\ j.left = k.left - 1
    BY <1>0, <2>0, <2>1 DEF Asks
  <2>. QED
    BY <1>0, <2>0, <2>2, <2>3 DEF AskOK
<1>. QED
  BY <1>1, <1>2, <1>4, <1>6, <1>7, <1>8, <1>9, <1>10 DEF Turn

\* The provider checks a file.
LEMMA ProcessFile ==
    ASSUME AssetType, NEW a \in Assets, Process(a)
    PROVE  /\ asset' \in [Assets -> AssetRecords \cup {Absent}] /\ KeptFiles
           /\ UNCHANGED <<group, holder, asking, late>> /\ HeldAssets' = HeldAssets
<1>1. PICK st \in {"Active", "Failed"} : asset' = [asset EXCEPT ![a].status = st]
  BY DEF Process
<1>2. asset[a] \in AssetRecords
  BY DEF AssetType, Process
<1>3. [asset[a] EXCEPT !.status = st] \in AssetRecords /\ Absent \notin AssetRecords
  BY <1>2, AssetAssumption DEF AssetRecords
<1>4. asset' = [asset EXCEPT ![a] = [asset[a] EXCEPT !.status = st]]
  BY <1>1
<1>5. /\ [asset[a] EXCEPT !.status = st].by = asset[a].by
      /\ [asset[a] EXCEPT !.status = st].group = asset[a].group
      /\ [asset[a] EXCEPT !.status = st].after = asset[a].after
  BY <1>2 DEF AssetRecords
<1>. QED
  BY <1>2, <1>3, <1>4, <1>5 DEF AssetType, KeptFiles, HeldAssets, Process

\* Every step of the library.
LEMMA AssetSteps ==
    ASSUME AssetType, [AssetNext]_assetVars
    PROVE  \/ UNCHANGED assetVars
           \/ \E a \in Assets : Process(a)
           \/ \E c \in AssetCalls, n \in 0..MaxSources : Lands(c, n)
           \/ \E c \in AssetCalls : CallStep(c) /\ Turn(c, asking'[c])
                 /\ asking' = [asking EXCEPT ![c] = asking'[c]]
<1>1. ASSUME NEW c \in AssetCalls, CallStep(c)
      PROVE  Turn(c, asking'[c]) /\ asking' = [asking EXCEPT ![c] = asking'[c]]
  <2>1. PICK j : Turn(c, j) /\ asking' = [asking EXCEPT ![c] = j]
    BY <1>1, CallTurn
  <2>2. asking'[c] = j
    BY <2>1 DEF AssetType
  <2>. QED
    BY <2>1, <2>2
<1>. QED
  BY <1>1 DEF AssetNext, CallStep

\* Every step keeps the types.
LEMMA NextAssetType == ASSUME AssetType, [AssetNext]_assetVars PROVE AssetType'
<1>1. CASE UNCHANGED assetVars
  BY <1>1 DEF AssetType, assetVars
<1>2. ASSUME NEW a \in Assets, Process(a) PROVE AssetType'
  BY <1>2, ProcessFile DEF AssetType
<1>3. ASSUME NEW c \in AssetCalls, NEW n \in 0..MaxSources, Lands(c, n) PROVE AssetType'
  <2>1. CarriesOut(c, TRUE) /\ late' \subseteq late /\ UNCHANGED <<holder, asking>>
    BY <1>3 DEF Lands
  <2>. QED
    BY <2>1, Carried DEF AssetType
<1>4. ASSUME NEW c \in AssetCalls, NEW j, Turn(c, j), asking' = [asking EXCEPT ![c] = j]
      PROVE  AssetType'
  <2>. DEFINE k == asking[c]
  <2>0. AskOK(k) /\ k \in Asks /\ holder \in [Servers -> [Subjects -> AssetCalls \cup {Absent}]]
    BY DEF AssetType, AskOK
  <2>1. AskOK(j) /\ j \in Asks
    BY <1>4, TurnAsk DEF AskOK
  <2>2. asking' \in [AssetCalls -> Asks] /\ \A d \in AssetCalls : AskOK(asking'[d])
    <3>1. asking'[c] = j /\ \A d \in AssetCalls \ {c} : asking'[d] = asking[d]
      BY <1>4 DEF AssetType
    <3>2. asking' \in [AssetCalls -> Asks]
      BY <1>4, <2>1 DEF AssetType
    <3>. QED
      BY <2>1, <3>1, <3>2 DEF AssetType
  <2>3. holder' \in [Servers -> [Subjects -> AssetCalls \cup {Absent}]]
    <3>1. ASSUME NEW s \in Servers, NEW n \in Subjects, NEW v \in AssetCalls \cup {Absent},
                 holder' = [holder EXCEPT ![s][n] = v]
          PROVE  holder' \in [Servers -> [Subjects -> AssetCalls \cup {Absent}]]
      BY <2>0, <3>1
    <3>2. ASSUME k.pc \in {"lock", "list", "make"} PROVE k.at \in Servers /\ k.name \in Subjects
      BY <2>0, <3>2 DEF AskOK
    <3>3. CASE holder' = holder
      BY <2>0, <3>3
    <3>4. CASE Enters(c, j)
      BY <3>1, <3>2, <3>4 DEF Enters
    <3>5. CASE Leave(c) /\ k.pc \in {"list", "make"}
      BY <3>1, <3>2, <3>5 DEF Leave
    <3>. QED
      BY <1>4, <3>3, <3>4, <3>5 DEF Turn, Begins, SeesNone, Finds, Makes, Adds, Misses, Looks, Does,
         Stops, Quits, Passes, Reads, LeaveIf
  <2>4. late' \subseteq AssetCalls \X (0..MaxSources)
    <3>1. Sends(c) => k.left \in 0..MaxSources
      <4>1. Sends(c) => k.op \notin {"seedance", "seedream"}
        BY <2>0 DEF Sends, AskOK
      <4>. QED
        BY <2>0, <4>1, AssetAssumption DEF AskOK, Asks
    <3>2. late' = late \/ (Sends(c) /\ late' = late \cup {<<c, k.left>>})
      BY <1>4, TurnEffect
    <3>3. late \subseteq AssetCalls \X (0..MaxSources)
      BY DEF AssetType
    <3>. HIDE DEF k
    <3>. QED
      BY <3>1, <3>2, <3>3
  <2>. QED
    BY <1>4, <2>2, <2>3, <2>4, TurnEffect DEF AssetType
<1>. QED
  BY <1>1, <1>2, <1>3, <1>4, AssetSteps

-----------------------------------------------------------------------------
\* Where a step leaves its call, and what it keeps of it.
LEMMA TurnPlace ==
    ASSUME AssetType, NEW c \in AssetCalls, NEW j, Turn(c, j)
    PROVE  /\ j.pc = "list" => Enters(c, j) /\ j.at = asking[c].at /\ j.name = asking[c].name
           /\ j.pc = "make" => SeesNone(c, j) /\ j.at = asking[c].at /\ j.name = asking[c].name
           /\ j.pc = "drop" /\ j.op = "drop" => Looks(c, j) /\ j.group = asking[c].group
           /\ j.pc \notin {"add", "ended"} => asking[c].pc \notin {"add", "ended"}
           /\ Makes(c, j) \/ Finds(c, j) => j.pc \in {"add", "ended"} /\ j.op = asking[c].op
           /\ Stops(c, j) \/ Quits(c, j) \/ Does(c, j) =>
                 j.pc = "ended" /\ j.op = asking[c].op /\ j.group = asking[c].group
           /\ asking[c].pc # "idle" => j.op = asking[c].op
           /\ asking[c].pc \notin {"idle", "list", "make", "verify"} => j.group = asking[c].group
           /\ asking[c].pc # "ended"
<1>. DEFINE k == asking[c]
<1>0. AskOK(k) /\ k \in Asks
  BY DEF AssetType, AskOK
<1>1. CASE Begins(c, j)
  BY <1>1 DEF Begins, Makes, Finds, Stops, Quits, Does
<1>2. CASE Enters(c, j) \/ SeesNone(c, j) \/ Looks(c, j)
  <2>1. \/ k.pc = "lock" /\ j = [k EXCEPT !.pc = "list"] /\ Enters(c, j)
        \/ k.pc = "list" /\ j = [k EXCEPT !.pc = "make"] /\ SeesNone(c, j)
        \/ k.pc = "look" /\ j = [k EXCEPT !.pc = "drop"] /\ Looks(c, j)
    BY <1>2 DEF Enters, SeesNone, Looks
  <2>2. j.op = k.op /\ j.at = k.at /\ j.name = k.name /\ j.group = k.group
    BY <1>0, <2>1 DEF Asks
  <2>3. \/ k.pc = "lock" /\ j.pc = "list" /\ Enters(c, j)
        \/ k.pc = "list" /\ j.pc = "make" /\ SeesNone(c, j)
        \/ k.pc = "look" /\ j.pc = "drop" /\ Looks(c, j)
    BY <1>0, <2>1 DEF Asks
  <2>4. ~Stops(c, j) /\ ~Quits(c, j) /\ ~Does(c, j)
    <3>1. ASSUME NEW a, j = Finished(k, a) PROVE FALSE
      BY <1>0, <2>3, <3>1 DEF Finished, Asks
    <3>. QED
      BY <3>1 DEF Stops, Quits, Does
  <2>5. ~Makes(c, j) /\ ~Finds(c, j)
    <3>1. ASSUME NEW g, NEW b, j = Found(k, g, b) PROVE FALSE
      BY <1>0, <2>3, <3>1 DEF Found, Asks
    <3>. QED
      BY <3>1 DEF Makes, Finds
  <2>. QED
    BY <2>2, <2>3, <2>4, <2>5
<1>3. CASE Finds(c, j) \/ Makes(c, j)
  <2>1. PICK g, b : j = Found(k, g, b) /\ k.pc \in {"list", "make"}
    BY <1>3 DEF Finds, Makes
  <2>2. j.pc \in {"add", "ended"} /\ j.op = k.op
    BY <1>0, <2>1 DEF Found, Asks
  <2>3. Stops(c, j) \/ Quits(c, j) \/ Does(c, j) => j.pc = "ended" /\ j.group = k.group
    <3>1. ASSUME NEW a, j = Finished(k, a) PROVE j.pc = "ended" /\ j.group = k.group
      BY <1>0, <3>1 DEF Finished, Asks
    <3>. QED
      BY <3>1 DEF Stops, Quits, Does
  <2>. QED
    BY <2>1, <2>2, <2>3
<1>4. CASE Stops(c, j) \/ Quits(c, j) \/ Does(c, j)
  <2>1. PICK a : j = Finished(k, a) /\ k.pc \notin {"idle", "ended"}
    BY <1>4 DEF Stops, Quits, Does
  <2>2. j.pc = "ended" /\ j.op = k.op /\ j.group = k.group
    BY <1>0, <2>1 DEF Finished, Asks
  <2>. QED
    BY <2>1, <2>2
<1>5. CASE Adds(c, j) \/ Misses(c, j)
  <2>1. /\ k.pc = "add"
        /\ \/ \E items : j = [k EXCEPT !.left = k.left - 1, !.items = items]
           \/ j = [k EXCEPT !.pc = "ended", !.answer = "crashed", !.items = {}]
           \/ \E d : j = [k EXCEPT !.left = k.left - 1, !.doubts = d]
    BY <1>5 DEF Adds, Misses
  <2>2. j.pc \in {"add", "ended"} /\ j.op = k.op /\ j.group = k.group
    BY <1>0, <2>1 DEF Asks
  <2>3. ~Makes(c, j) /\ ~Finds(c, j)
    BY <2>1 DEF Makes, Finds
  <2>4. Stops(c, j) \/ Quits(c, j) \/ Does(c, j) => j.pc = "ended"
    <3>1. ASSUME NEW a, j = Finished(k, a) PROVE j.pc = "ended"
      BY <1>0, <3>1 DEF Finished, Asks
    <3>. QED
      BY <3>1 DEF Stops, Quits, Does
  <2>. QED
    BY <2>1, <2>2, <2>3, <2>4
<1>6. CASE Passes(c, j) \/ Reads(c, j)
  <2>1. \/ k.pc = "verify" /\ \E g : j = [k EXCEPT !.group = g]
        \/ k.pc = "check" /\ \E refs, bad, items :
              j = [k EXCEPT !.left = k.left - 1, !.refs = refs, !.bad = bad, !.items = items]
    BY <1>6, Zenon DEF Passes, Reads
  <2>2. k.pc \in {"verify", "check"} /\ j.op = k.op /\ j.pc = k.pc /\ (k.pc = "check" => j.group = k.group)
    BY <1>0, <2>1 DEF Asks
  <2>3. ~Makes(c, j) /\ ~Finds(c, j)
    BY <2>2 DEF Makes, Finds
  <2>4. ~Stops(c, j) /\ ~Quits(c, j) /\ ~Does(c, j)
    <3>1. ASSUME NEW a, j = Finished(k, a) PROVE FALSE
      BY <1>0, <2>2, <3>1 DEF Finished, Asks
    <3>. QED
      BY <3>1 DEF Stops, Quits, Does
  <2>. QED
    BY <2>2, <2>3, <2>4
<1>. QED
  BY <1>1, <1>2, <1>3, <1>4, <1>5, <1>6 DEF Turn

-----------------------------------------------------------------------------
\* Nobody enters a section that is held, and what its holder saw stays true but
\* for requests given up.
LEMMA NextSection == ASSUME AssetType, AssetType', SectionInv, [AssetNext]_assetVars PROVE SectionInv'
<1>1. CASE UNCHANGED assetVars
  BY <1>1 DEF SectionInv, HeldGroups, assetVars
<1>2. ASSUME NEW a \in Assets, Process(a) PROVE SectionInv'
  BY <1>2, ProcessFile DEF SectionInv, HeldGroups
\* Groups that stay, are renamed or are a person's bind nobody.
<1>k. ASSUME KeptGroups, AssetType
      PROVE  \A g \in HeldGroups' : group'[g].at # Absent => g \in HeldGroups /\ group'[g] = group[g]
  BY <1>k DEF KeptGroups
<1>3. ASSUME NEW c \in AssetCalls, NEW n \in 0..MaxSources, Lands(c, n) PROVE SectionInv'
  <2>1. CarriesOut(c, TRUE) /\ UNCHANGED <<holder, asking>>
    BY <1>3 DEF Lands
  <2>2. CASE KeptGroups
    BY <1>k, <2>1, <2>2, AssetAssumption DEF SectionInv, AssetType, AskOK
  <2>3. ASSUME NEW g \in Groups \ HeldGroups, MakesGroup(c, g, TRUE) PROVE SectionInv'
    <3>1. /\ HeldGroups' = HeldGroups \cup {g} /\ \A h \in HeldGroups : group'[h] = group[h]
          /\ group'[g].late = TRUE /\ group'[g].type = "AIGC"
      BY <2>3, MakesOne
    <3>. QED
      BY <2>1, <3>1 DEF SectionInv
  <2>. QED
    BY <2>1, <2>2, <2>3, Carried
<1>4. ASSUME NEW c \in AssetCalls, NEW j, Turn(c, j), asking' = [asking EXCEPT ![c] = j]
      PROVE  SectionInv'
  <2>. DEFINE k == asking[c]
              Free(d) == asking[d].pc \in {"list", "make"} =>
                             /\ holder'[asking[d].at][asking[d].name] = d
  <2>0. asking'[c] = j /\ \A d \in AssetCalls \ {c} : asking'[d] = asking[d]
    BY <1>4 DEF AssetType
  <2>1. \A d \in AssetCalls : asking[d].pc \in {"lock", "list", "make"} =>
           asking[d].at \in Servers /\ asking[d].name \in Subjects
    BY DEF AssetType, AskOK
  <2>p. /\ j.pc = "list" => Enters(c, j) /\ j.at = k.at /\ j.name = k.name
        /\ j.pc = "make" => SeesNone(c, j) /\ j.at = k.at /\ j.name = k.name
        /\ Makes(c, j) => j.pc \in {"add", "ended"}
        /\ Stops(c, j) => j.pc = "ended"
    BY <1>4, TurnPlace
  \* The others keep their sections.
  <2>2. \A d \in AssetCalls \ {c} : asking[d].pc \in {"list", "make"} =>
           holder'[asking[d].at][asking[d].name] = d
    <3>1. CASE holder' = holder
      BY <3>1 DEF SectionInv
    <3>2. CASE Enters(c, j)
      BY <2>1, <3>2, AssetAssumption DEF Enters, SectionInv, AssetType
    <3>3. CASE k.pc \in {"list", "make"} /\ Leave(c)
      BY <2>1, <3>3 DEF Leave, SectionInv, AssetType
    <3>. QED
      BY <1>4, <3>1, <3>2, <3>3 DEF Turn, Begins, SeesNone, Finds, Makes, Adds, Misses, Looks, Does,
         Stops, Quits, Passes, Reads, LeaveIf
  <2>3. j.pc \in {"list", "make"} => holder'[j.at][j.name] = c
    <3>1. CASE j.pc = "list"
      BY <2>p, <2>1, <3>1 DEF Enters, AssetType
    <3>2. CASE j.pc = "make"
      BY <2>p, <3>2 DEF SeesNone, SectionInv
    <3>. QED
      BY <3>1, <3>2
  <2>4. \A d \in AssetCalls : asking'[d].pc \in {"list", "make"} =>
           holder'[asking'[d].at][asking'[d].name] = d
    BY <2>0, <2>2, <2>3
  \* What c itself saw.
  <2>5. j.pc = "make" => \A g \in HeldGroups' : group'[g].at = j.at => group'[g].name # j.name
    <3>. SUFFICES ASSUME j.pc = "make", NEW g \in HeldGroups', group'[g].at = j.at PROVE group'[g].name # j.name
      OBVIOUS
    <3>1. SeesNone(c, j) /\ j.at = k.at /\ j.name = k.name
      BY <2>p
    <3>2. Known(k.name) = {} /\ group' = group /\ HeldGroups' = HeldGroups /\ k.at \in Servers
      BY <2>1, <3>1 DEF SeesNone, Quiet, HeldGroups
    <3>. QED
      BY <3>1, <3>2, AssetAssumption DEF SectionInv, Known, HeldGroups
  <2>6. CASE KeptGroups
    <3>1. \A g \in HeldGroups' : group'[g].at # Absent => g \in HeldGroups /\ group'[g] = group[g]
      BY <1>k, <2>6
    <3>2. \A d \in AssetCalls \ {c} : asking[d].pc = "make" => asking[d].at # Absent
      BY <2>1, AssetAssumption
    <3>. QED
      BY <2>0, <2>4, <2>5, <3>1, <3>2 DEF SectionInv
  <2>7. ASSUME NEW g \in Groups \ HeldGroups, MakesGroup(c, g, FALSE), k.pc = "make",
               Makes(c, j) \/ Stops(c, j)
        PROVE  SectionInv'
    <3>1. /\ HeldGroups' = HeldGroups \cup {g} /\ \A h \in HeldGroups : group'[h] = group[h]
          /\ group'[g].at = k.at /\ group'[g].name = k.name /\ group'[g].type = "AIGC"
      BY <2>7, MakesOne
    <3>2. \A d \in AssetCalls \ {c} : asking[d].pc = "make" => asking[d].at # k.at \/ asking[d].name # k.name
      BY <2>7 DEF SectionInv
    <3>3. j.pc # "make"
      BY <2>7, <2>p
    <3>. QED
      BY <2>0, <2>4, <3>1, <3>2, <3>3 DEF SectionInv
  <2>8. Makes(c, j) => k.pc = "make"
    BY DEF Makes
  <2>. QED
    BY <1>4, <2>6, <2>7, <2>8, TurnEffect
<1>. QED
  BY <1>1, <1>2, <1>3, <1>4, AssetSteps

\* A second group of a subject is made only by a request whose call has ended in
\* doubt or been cancelled.
LEMMA NextLate == ASSUME AssetType, AssetType', SectionInv, LateInv, MadeInv, [AssetNext]_assetVars
                  PROVE  LateInv'
<1>. DEFINE Doubtful == {"ambiguous", "cancelled"}
<1>1. CASE UNCHANGED assetVars
  BY <1>1 DEF LateInv, HeldGroups, Pending, assetVars
<1>2. ASSUME NEW a \in Assets, Process(a) PROVE LateInv'
  BY <1>2, ProcessFile DEF LateInv, HeldGroups, Pending
<1>a. \A c \in AssetCalls : asking[c].answer \in Doubtful => asking[c].pc = "ended"
  BY DEF AssetType, AskOK
<1>g. ASSUME KeptGroups
      PROVE  /\ \A g, h \in HeldGroups' :
                   group'[g].at # Absent /\ group'[g].at = group'[h].at /\ group'[g].name = group'[h].name =>
                       g = h \/ group'[g].late \/ group'[h].late
             /\ \A g \in HeldGroups' : group'[g].late =>
                   group'[g].by \in AssetCalls /\ asking[group'[g].by].answer \in Doubtful
  BY <1>g DEF KeptGroups, LateInv
<1>3. ASSUME NEW c \in AssetCalls, NEW n \in 0..MaxSources, Lands(c, n) PROVE LateInv'
  <2>1. CarriesOut(c, TRUE) /\ UNCHANGED asking /\ <<c, n>> \in late /\ late' \subseteq late
    BY <1>3 DEF Lands
  <2>2. \A d \in AssetCalls : Pending(d)' \subseteq Pending(d)
    BY <2>1 DEF Pending
  <2>3. CASE KeptGroups
    BY <1>g, <2>1, <2>2, <2>3 DEF LateInv
  <2>4. ASSUME NEW g \in Groups \ HeldGroups, MakesGroup(c, g, TRUE) PROVE LateInv'
    <3>1. /\ HeldGroups' = HeldGroups \cup {g} /\ \A h \in HeldGroups : group'[h] = group[h]
          /\ group'[g].late = TRUE /\ group'[g].by = c
      BY <2>4, MakesOne
    <3>2. asking[c].answer \in Doubtful
      BY <2>1, <2>4 DEF MakesGroup, LateInv, Pending
    <3>. QED
      BY <2>1, <2>2, <3>1, <3>2 DEF LateInv
  <2>. QED
    BY <2>1, <2>3, <2>4, Carried
<1>4. ASSUME NEW c \in AssetCalls, NEW j, Turn(c, j), asking' = [asking EXCEPT ![c] = j]
      PROVE  LateInv'
  <2>. DEFINE k == asking[c]
  <2>0. asking'[c] = j /\ \A d \in AssetCalls \ {c} : asking'[d] = asking[d]
    BY <1>4 DEF AssetType
  <2>1. k.pc # "ended" /\ k.answer \notin Doubtful
    BY <1>4, <1>a, TurnPlace
  <2>2. \A d : asking[d].answer \in Doubtful /\ d \in AssetCalls => asking'[d].answer \in Doubtful
    BY <2>0, <2>1
  \* What is left to the provider.
  <2>3. \A d \in AssetCalls : Pending(d)' # {} /\ asking'[d].op \in {"ensure", "create"}
                              /\ asking'[d].group = Absent => asking'[d].answer \in Doubtful
    <3>1. ASSUME NEW d \in AssetCalls \ {c} PROVE Pending(d)' = Pending(d)
      BY <1>4, <3>1, TurnLate DEF Pending
    <3>2. ASSUME Pending(c)' # {}, j.op \in {"ensure", "create"}, j.group = Absent PROVE j.answer \in Doubtful
      <4>1. CASE Stops(c, j)
        <5>1. \E a \in Doubtful : j = Finished(k, a)
          BY <4>1 DEF Stops
        <5>. QED
          BY <5>1 DEF Finished, AssetType, Asks
      <4>2. CASE k.pc \notin {"add", "ended"} /\ ~Stops(c, j)
        <5>1. Pending(c) = {} /\ ~Misses(c, j)
          BY <4>2 DEF MadeInv, MadeBy, Misses
        <5>2. late' = late
          BY <1>4, <4>2, <5>1, TurnEffect
        <5>. QED
          BY <3>2, <5>1, <5>2 DEF Pending
      <4>3. CASE k.pc = "add" /\ ~Stops(c, j)
        <5>1. k.op = "create" /\ k.group = Absent
          BY <1>4, <3>2, <4>3, TurnPlace DEF AssetType, AskOK
        <5>2. late' = late
          BY <1>4, <4>3, <5>1, TurnEffect DEF Sends
        <5>3. Pending(c) # {}
          BY <3>2, <5>2 DEF Pending
        <5>. QED
          BY <2>1, <5>1, <5>3 DEF LateInv
      <4>. QED
        BY <2>1, <4>1, <4>2, <4>3
    <3>. QED
      BY <2>0, <3>1, <3>2 DEF LateInv
  <2>4. CASE KeptGroups
    BY <1>g, <2>2, <2>3, <2>4 DEF LateInv
  <2>5. ASSUME NEW g \in Groups \ HeldGroups, MakesGroup(c, g, FALSE), k.pc = "make" PROVE LateInv'
    <3>1. /\ HeldGroups' = HeldGroups \cup {g} /\ \A h \in HeldGroups : group'[h] = group[h]
          /\ group'[g].at = k.at /\ group'[g].name = k.name /\ group'[g].late = FALSE
      BY <2>5, MakesOne
    <3>2. \A h \in HeldGroups : group[h].at = k.at /\ group[h].name = k.name => group[h].late
      BY <2>5 DEF SectionInv
    <3>. QED
      BY <2>2, <2>3, <3>1, <3>2 DEF LateInv
  <2>8. Makes(c, j) => k.pc = "make"
    BY DEF Makes
  <2>. QED
    BY <1>4, <2>4, <2>5, <2>8, TurnEffect
<1>. QED
  BY <1>1, <1>2, <1>3, <1>4, AssetSteps

-----------------------------------------------------------------------------
\* What comes into a group after a look knows of it.
LEMMA NextLook == ASSUME AssetType, AssetType', LookInv, MadeInv, [AssetNext]_assetVars PROVE LookInv'
\* Whoever is to drop a group was so before, or has just found it empty.
<1>d. ASSUME NEW c \in AssetCalls, NEW j, Turn(c, j), asking' = [asking EXCEPT ![c] = j],
             NEW d \in AssetCalls, asking'[d].op = "drop", NEW g, d \in Dropping(g)'
      PROVE  \/ asking[d].op = "drop" /\ d \in Dropping(g)
             \/ Holds(g) = {} /\ Quiet
  <2>0. asking'[c] = j /\ \A e \in AssetCalls \ {c} : asking'[e] = asking[e]
    BY <1>d DEF AssetType
  <2>1. CASE d # c
    <3>1. <<d, 0>> \in late' => <<d, 0>> \in late
      BY <1>d, <2>1, TurnLate
    <3>. QED
      BY <1>d, <2>0, <2>1, <3>1 DEF Dropping
  <2>2. CASE d = c /\ j.pc = "drop"
    BY <1>d, <2>0, <2>2, TurnPlace DEF Looks, Dropping
  <2>3. CASE d = c /\ j.pc # "drop"
    <3>1. <<c, 0>> \in late' /\ j.group = g /\ j.op = "drop"
      BY <1>d, <2>0, <2>3 DEF Dropping
    <3>2. asking[c].pc # "idle"
      <4>1. ASSUME asking[c].pc = "idle" PROVE FALSE
        <5>1. late' = late
          BY <1>d, <4>1, TurnEffect DEF Misses, Stops
        <5>2. Pending(c) = {}
          BY <4>1 DEF MadeInv, MadeBy
        <5>. QED
          BY <3>1, <5>1, <5>2, AssetAssumption DEF Pending
      <4>. QED
        BY <4>1
    <3>3. asking[c].op = "drop" /\ asking[c].group = g
      <4>1. asking[c].op = "drop"
        BY <1>d, <3>1, <3>2, TurnPlace
      <4>2. asking[c].pc \notin {"list", "make", "verify"}
        BY <4>1 DEF AssetType, AskOK
      <4>. QED
        BY <1>d, <3>1, <3>2, <4>1, <4>2, TurnPlace
    <3>4. CASE <<c, 0>> \in late
      BY <2>3, <3>3, <3>4 DEF Dropping
    <3>5. CASE <<c, 0>> \notin late
      <4>1. Sends(c)
        BY <1>d, <3>1, <3>5, TurnEffect
      <4>2. asking[c].pc = "drop"
        BY <3>3, <4>1 DEF Sends, AssetType, AskOK
      <4>. QED
        BY <2>3, <3>3, <4>2 DEF Dropping
    <3>. QED
      BY <3>4, <3>5
  <2>. QED
    BY <2>1, <2>2, <2>3
\* A file that comes knows the calls that are to drop its group.
<1>f. ASSUME NEW c \in AssetCalls, KeptFiles \/ \E a \in Assets \ HeldAssets : AddsFile(c, a),
             NEW d \in AssetCalls, asking[d].op = "drop", NEW a \in HeldAssets', d \in Dropping(asset'[a].group)
      PROVE  d \in asset'[a].after
  <2>1. CASE KeptFiles
    BY <1>f, <2>1 DEF KeptFiles, LookInv
  <2>2. ASSUME NEW b \in Assets \ HeldAssets, AddsFile(c, b) PROVE d \in asset'[a].after
    <3>1. /\ HeldAssets' = HeldAssets \cup {b} /\ \A e \in HeldAssets : asset'[e] = asset[e]
          /\ asset'[b].group = asking[c].group /\ asset'[b].after = Dropping(asking[c].group)
      BY <2>2, AddsOne
    <3>2. CASE a = b
      BY <1>f, <3>1, <3>2
    <3>3. CASE a # b
      BY <1>f, <3>1, <3>3 DEF LookInv
    <3>. QED
      BY <3>2, <3>3
  <2>. QED
    BY <1>f, <2>1, <2>2
<1>1. CASE UNCHANGED assetVars
  BY <1>1 DEF LookInv, HeldAssets, Dropping, assetVars
<1>2. ASSUME NEW a \in Assets, Process(a) PROVE LookInv'
  BY <1>2, ProcessFile DEF LookInv, KeptFiles, Dropping
<1>3. ASSUME NEW c \in AssetCalls, NEW n \in 0..MaxSources, Lands(c, n) PROVE LookInv'
  <2>1. CarriesOut(c, TRUE) /\ UNCHANGED asking /\ late' \subseteq late
    BY <1>3 DEF Lands
  <2>2. \A g : Dropping(g)' \subseteq Dropping(g)
    BY <2>1 DEF Dropping
  <2>3. KeptFiles \/ \E a \in Assets \ HeldAssets : AddsFile(c, a)
    BY <2>1, Carried
  <2>. SUFFICES ASSUME NEW d \in AssetCalls, NEW a \in HeldAssets', asking'[d].op = "drop",
                       d \in Dropping(asset[a].group)'
                PROVE  d \in asset'[a].after
    BY DEF LookInv
  <2>4. d \in Dropping(asset'[a].group) /\ asking[d].op = "drop"
    BY <2>1 DEF Dropping
  <2>. QED
    BY <1>f, <2>3, <2>4
<1>4. ASSUME NEW c \in AssetCalls, NEW j, Turn(c, j), asking' = [asking EXCEPT ![c] = j]
      PROVE  LookInv'
  <2>. SUFFICES ASSUME NEW d \in AssetCalls, NEW a \in HeldAssets', asking'[d].op = "drop",
                       d \in Dropping(asset[a].group)'
                PROVE  d \in asset'[a].after
    BY DEF LookInv
  <2>1. PICK g : g = asset'[a].group
    OBVIOUS
  <2>2. d \in Dropping(g)'
    BY <2>1 DEF Dropping
  <2>3. \/ asking[d].op = "drop" /\ d \in Dropping(g)
        \/ Holds(g) = {} /\ Quiet
    BY <1>d, <1>4, <2>2
  <2>4. CASE Holds(g) = {} /\ Quiet
    BY <2>1, <2>4 DEF Holds, HeldAssets, Quiet
  <2>5. CASE asking[d].op = "drop" /\ d \in Dropping(g)
    <3>1. KeptFiles \/ \E b \in Assets \ HeldAssets : AddsFile(c, b)
      BY <1>4, TurnEffect
    <3>. QED
      BY <1>f, <2>1, <2>5, <3>1
  <2>. QED
    BY <2>3, <2>4, <2>5
<1>. QED
  BY <1>1, <1>2, <1>3, <1>4, AssetSteps

-----------------------------------------------------------------------------
(* The account of what a call made.                                        *)

\* Files and requests left behind are few, and counted together.
LEMMA Counts ==
    ASSUME NEW S \in SUBSET Assets, NEW P \in SUBSET (0..MaxSources)
    PROVE  /\ Cardinality(S) \in Nat /\ Cardinality(P) \in Nat
           /\ \A T \in SUBSET S : Cardinality(T) \in Nat /\ Cardinality(T) <= Cardinality(S)
           /\ \A Q \in SUBSET P : Cardinality(Q) \in Nat /\ Cardinality(Q) <= Cardinality(P)
           /\ \A a : Cardinality(S \cup {a}) <= Cardinality(S) + 1
           /\ \A n : Cardinality(P \cup {n}) <= Cardinality(P) + 1
           /\ \A n \in P : Cardinality(P \ {n}) = Cardinality(P) - 1
<1>1. IsFiniteSet(S) /\ Cardinality(S) \in Nat
  BY AssetAssumption, FS_Subset, FS_CardinalityType
<1>2. IsFiniteSet(P) /\ Cardinality(P) \in Nat
  <2>1. IsFiniteSet(0..MaxSources)
    BY AssetAssumption, FS_Interval
  <2>. QED
    BY <2>1, FS_Subset, FS_CardinalityType
<1>3. ASSUME NEW F, IsFiniteSet(F), NEW G \in SUBSET F
      PROVE  Cardinality(G) \in Nat /\ Cardinality(G) <= Cardinality(F)
  BY <1>3, FS_Subset, FS_CardinalityType
<1>4. ASSUME NEW F, IsFiniteSet(F), Cardinality(F) \in Nat, NEW x
      PROVE  Cardinality(F \cup {x}) <= Cardinality(F) + 1
  <2>1. Cardinality(F \cup {x}) = IF x \in F THEN Cardinality(F) ELSE Cardinality(F) + 1
    BY <1>4, FS_AddElement, Zenon
  <2>. QED
    BY <1>4, <2>1
<1>5. \A n \in P : Cardinality(P \ {n}) = Cardinality(P) - 1
  <2>1. \A n : Cardinality(P \ {n}) = IF n \in P THEN Cardinality(P) - 1 ELSE Cardinality(P)
    BY <1>2, FS_RemoveElement, Zenon
  <2>. QED
    BY <2>1
<1>. QED
  BY <1>1, <1>2, <1>3, <1>4, <1>5

LEMMA Sets ==
    ASSUME NEW c
    PROVE  /\ Made(c) \in SUBSET Assets /\ Pending(c) \in SUBSET (0..MaxSources)
           /\ Made(c)' \in SUBSET Assets /\ Pending(c)' \in SUBSET (0..MaxSources)
  BY DEF Made, Pending, HeldAssets

\* What is neither added nor made is not a call's.
LEMMA KeptMade ==
    ASSUME AssetType, NEW c \in AssetCalls
    PROVE  /\ KeptFiles => Made(c)' \subseteq Made(c)
           /\ KeptGroups => GroupsBy(c)' \subseteq GroupsBy(c)
           /\ late' \subseteq late => Pending(c)' \subseteq Pending(c)
           /\ \A d \in AssetCalls, a \in Assets \ HeldAssets : AddsFile(d, a) =>
                 Made(c)' \subseteq Made(c) \cup (IF c = d THEN {a} ELSE {})
           /\ \A d \in AssetCalls, g \in Groups \ HeldGroups, b \in BOOLEAN : MakesGroup(d, g, b) =>
                 GroupsBy(c)' \subseteq GroupsBy(c) \cup (IF c = d THEN {g} ELSE {})
<1>1. ASSUME KeptFiles PROVE Made(c)' \subseteq Made(c)
  BY <1>1 DEF KeptFiles, Made
<1>2. ASSUME KeptGroups PROVE GroupsBy(c)' \subseteq GroupsBy(c)
  BY <1>2, AssetAssumption DEF KeptGroups, GroupsBy
<1>3. ASSUME NEW d \in AssetCalls, NEW a \in Assets \ HeldAssets, AddsFile(d, a)
      PROVE  Made(c)' \subseteq Made(c) \cup (IF c = d THEN {a} ELSE {})
  BY <1>3, AddsOne DEF Made
<1>4. ASSUME NEW d \in AssetCalls, NEW g \in Groups \ HeldGroups, NEW b \in BOOLEAN, MakesGroup(d, g, b)
      PROVE  GroupsBy(c)' \subseteq GroupsBy(c) \cup (IF c = d THEN {g} ELSE {})
  BY <1>4, MakesOne DEF GroupsBy
<1>. QED
  BY <1>1, <1>2, <1>3, <1>4 DEF Pending

\* A call's account holds while it makes nothing and its record stays.
LEMMA AccountKept ==
    ASSUME AssetType, NEW c \in AssetCalls, MadeBy(c), Made(c)' \subseteq Made(c),
           GroupsBy(c)' \subseteq GroupsBy(c), Pending(c)' \subseteq Pending(c), asking'[c] = asking[c]
    PROVE  MadeBy(c)'
<1>1. asking[c].doubts \in Nat
  BY DEF AssetType, Asks
<1>2. Cardinality(Made(c)' \ asking[c].items) + Cardinality(Pending(c)')
        <= Cardinality(Made(c) \ asking[c].items) + Cardinality(Pending(c))
  <2>1. Made(c) \ asking[c].items \in SUBSET Assets /\ Pending(c) \in SUBSET (0..MaxSources)
    BY Sets
  <2>2. Made(c)' \ asking[c].items \in SUBSET (Made(c) \ asking[c].items) /\ Pending(c)' \in SUBSET Pending(c)
    OBVIOUS
  <2>. QED
    BY <2>1, <2>2, Counts
<1>3. /\ Cardinality(Made(c)' \ asking[c].items) \in Nat /\ Cardinality(Pending(c)') \in Nat
      /\ Cardinality(Made(c) \ asking[c].items) \in Nat /\ Cardinality(Pending(c)) \in Nat
  <2>1. /\ Made(c) \ asking[c].items \in SUBSET Assets /\ Pending(c) \in SUBSET (0..MaxSources)
        /\ Made(c)' \ asking[c].items \in SUBSET Assets /\ Pending(c)' \in SUBSET (0..MaxSources)
    BY Sets
  <2>. QED
    BY <2>1, Counts
<1>. QED
  BY <1>1, <1>2, <1>3 DEF MadeBy

\* A call that has made nothing hides nothing.
LEMMA NothingMade ==
    ASSUME AssetType', NEW c \in AssetCalls, Made(c)' = {}, GroupsBy(c)' = {}, Pending(c)' = {}
    PROVE  MadeBy(c)'
<1>1. Made(c)' \ asking'[c].items = {}
  OBVIOUS
<1>2. Cardinality(Made(c)' \ asking'[c].items) = 0 /\ Cardinality(Pending(c)') = 0
  BY <1>1, FS_EmptySet
<1>3. asking'[c].doubts \in Nat
  BY DEF AssetType, Asks
<1>. QED
  BY <1>2, <1>3 DEF MadeBy

\* A file that came with an ID is listed, one that came without ends the call.
LEMMA AddsMade ==
    ASSUME AssetType, AssetType', NEW c \in AssetCalls, MadeBy(c), Adds(c, asking'[c])
    PROVE  MadeBy(c)'
<1>. DEFINE k == asking[c]
            j == asking'[c]
<1>0. k \in Asks /\ k.left \in Nat /\ k.answer = "none" /\ k.doubts \in Nat /\ k.pc = "add"
  BY DEF Adds, AssetType, AskOK, Asks
<1>1. PICK a \in Assets \ HeldAssets :
          /\ AddsFile(c, a) /\ late' = late
          /\ \/ j = [k EXCEPT !.left = k.left - 1, !.items = k.items \cup {a}]
             \/ j = [k EXCEPT !.pc = "ended", !.answer = "crashed", !.items = {}]
  BY DEF Adds
<1>2. Made(c)' \subseteq Made(c) \cup {a} /\ GroupsBy(c)' = GroupsBy(c) /\ Pending(c)' = Pending(c)
  BY <1>1, KeptMade, AddsOne DEF GroupsBy, HeldGroups, Pending
<1>3. CASE j = [k EXCEPT !.pc = "ended", !.answer = "crashed", !.items = {}]
  <2>1. j.pc = "ended" /\ j.answer = "crashed"
    BY <1>0, <1>3 DEF Asks
  <2>. QED
    BY <2>1 DEF MadeBy
<1>4. CASE j = [k EXCEPT !.left = k.left - 1, !.items = k.items \cup {a}]
  <2>1. /\ j.pc = "add" /\ j.left = k.left - 1 /\ j.items = k.items \cup {a} /\ j.doubts = k.doubts
        /\ j.created = k.created /\ j.group = k.group
    BY <1>0, <1>4 DEF Asks
  <2>2. \A n \in Pending(c)' : n > j.left
    BY <1>0, <1>2, <2>1 DEF MadeBy, Pending
  <2>3. Made(c)' \ j.items \in SUBSET (Made(c) \ k.items)
    BY <1>2, <2>1
  <2>4. /\ Made(c) \ k.items \in SUBSET Assets /\ Pending(c) \in SUBSET (0..MaxSources)
    BY Sets
  <2>5. /\ Cardinality(Made(c)' \ j.items) <= Cardinality(Made(c) \ k.items)
        /\ Cardinality(Made(c)' \ j.items) \in Nat /\ Cardinality(Made(c) \ k.items) \in Nat
        /\ Cardinality(Pending(c)) \in Nat
    BY <2>3, <2>4, Counts
  <2>6. Cardinality(Made(c) \ k.items) + Cardinality(Pending(c)) <= k.doubts
    BY <1>0 DEF MadeBy
  <2>7. Cardinality(Made(c)' \ j.items) + Cardinality(Pending(c)') <= j.doubts
    BY <1>0, <1>2, <2>1, <2>5, <2>6
  <2>8. \A g \in GroupsBy(c)' : j.created /\ j.group \in {g, Absent}
    BY <1>0, <1>2, <2>1 DEF MadeBy
  <2>. QED
    BY <2>1, <2>2, <2>7, <2>8 DEF MadeBy
<1>. QED
  BY <1>1, <1>3, <1>4

\* A request that failed is doubted when it may have been carried out, or may be.
LEMMA MissesMade ==
    ASSUME AssetType, AssetType', NEW c \in AssetCalls, MadeBy(c), Misses(c, asking'[c])
    PROVE  MadeBy(c)'
<1>. DEFINE k == asking[c]
            j == asking'[c]
<1>0. k \in Asks /\ k.left \in Nat /\ k.left > 0 /\ k.answer = "none" /\ k.doubts \in Nat /\ k.pc = "add"
  BY DEF Misses, AssetType, AskOK, Asks
<1>1. PICK r \in Failures : RequestFails(c, r) /\ j = [k EXCEPT !.left = k.left - 1, !.doubts = Doubt(c, r)]
  BY DEF Misses
<1>2. /\ j.pc = "add" /\ j.left = k.left - 1 /\ j.items = k.items /\ j.doubts = Doubt(c, r)
      /\ j.created = k.created /\ j.group = k.group
  BY <1>0, <1>1 DEF Asks
<1>3. /\ Made(c) \ k.items \in SUBSET Assets /\ Pending(c) \in SUBSET (0..MaxSources)
      /\ Made(c)' \ k.items \in SUBSET Assets /\ Pending(c)' \in SUBSET (0..MaxSources)
  BY Sets
<1>4. /\ Cardinality(Made(c)' \ k.items) \in Nat /\ Cardinality(Made(c) \ k.items) \in Nat
      /\ Cardinality(Pending(c)) \in Nat /\ Cardinality(Pending(c)') \in Nat
  BY <1>3, Counts
<1>5. Cardinality(Made(c) \ k.items) + Cardinality(Pending(c)) <= k.doubts
  BY <1>0 DEF MadeBy
<1>6. \A n \in Pending(c) : n > k.left - 1 /\ n # k.left
  BY <1>0 DEF MadeBy, Pending
<1>q. Quiet => Made(c)' = Made(c) /\ GroupsBy(c)' = GroupsBy(c) /\ Pending(c)' = Pending(c)
  BY DEF Quiet, Made, GroupsBy, Pending, HeldAssets, HeldGroups
<1>7. /\ \A g \in GroupsBy(c)' : g \in GroupsBy(c)
      /\ \A n \in Pending(c)' : n > k.left - 1
      /\ Cardinality(Made(c)' \ k.items) + Cardinality(Pending(c)') <= Doubt(c, r)
  <2>1. \/ Class(r) = "ambiguous" /\ GivesUp(c)
        \/ Class(r) = "clean" /\ Quiet
    BY <1>1, FailsClean
  <2>2. CASE Quiet
    <3>1. Doubt(c, r) \in {k.doubts, k.doubts + 1}
      BY DEF Doubt
    <3>. QED
      BY <1>0, <1>4, <1>5, <1>6, <1>q, <2>2, <3>1
  <2>3. CASE Class(r) = "ambiguous" /\ GivesUp(c) /\ ~Quiet
    <3>0. Doubt(c, r) = k.doubts + 1
      BY <2>3 DEF Doubt, Class
    <3>1. \/ CarriesOut(c, FALSE) /\ late' = late
          \/ late' = late \cup {<<c, k.left>>} /\ UNCHANGED <<group, asset>>
      BY <2>3 DEF GivesUp, Quiet
    <3>2. CASE CarriesOut(c, FALSE) /\ late' = late
      <4>1. GroupsBy(c)' \subseteq GroupsBy(c) /\ Pending(c)' = Pending(c)
        <5>1. \A g : ~MakesGroup(c, g, FALSE)
          BY <1>0 DEF MakesGroup
        <5>. QED
          BY <3>2, <5>1, Carried, KeptMade DEF Pending
      <4>2. Cardinality(Made(c)' \ k.items) <= Cardinality(Made(c) \ k.items) + 1
        <5>1. CASE KeptFiles
          <6>1. Made(c)' \ k.items \in SUBSET (Made(c) \ k.items)
            BY <5>1, KeptMade
          <6>2. Cardinality(Made(c)' \ k.items) <= Cardinality(Made(c) \ k.items)
            BY <1>3, <6>1, Counts
          <6>. QED
            BY <1>4, <6>2
        <5>2. ASSUME NEW a \in Assets \ HeldAssets, AddsFile(c, a)
              PROVE  Cardinality(Made(c)' \ k.items) <= Cardinality(Made(c) \ k.items) + 1
          <6>1. Made(c)' \ k.items \in SUBSET ((Made(c) \ k.items) \cup {a})
            BY <5>2, KeptMade
          <6>2. (Made(c) \ k.items) \cup {a} \in SUBSET Assets
            BY <1>3
          <6>3. /\ Cardinality(Made(c)' \ k.items) <= Cardinality((Made(c) \ k.items) \cup {a})
                /\ Cardinality((Made(c) \ k.items) \cup {a}) \in Nat
            BY <1>3, <6>1, <6>2, Counts
          <6>4. Cardinality((Made(c) \ k.items) \cup {a}) <= Cardinality(Made(c) \ k.items) + 1
            BY <1>3, Counts
          <6>. QED
            BY <1>4, <6>3, <6>4
        <5>. QED
          BY <3>2, <5>1, <5>2, Carried
      <4>. QED
        BY <1>0, <1>4, <1>5, <1>6, <3>0, <4>1, <4>2
    <3>3. CASE late' = late \cup {<<c, k.left>>} /\ UNCHANGED <<group, asset>>
      <4>1. Made(c)' = Made(c) /\ GroupsBy(c)' = GroupsBy(c)
        BY <3>3 DEF Made, GroupsBy, HeldAssets, HeldGroups
      <4>2. Pending(c)' \in SUBSET (Pending(c) \cup {k.left})
        BY <3>3 DEF Pending
      <4>3. \A n \in Pending(c)' : n > k.left - 1
        BY <1>0, <1>6, <4>2
      <4>4. k.left \in 0..MaxSources
        BY <1>0, AssetAssumption DEF AssetType, AskOK
      <4>5. Cardinality(Pending(c)') <= Cardinality(Pending(c)) + 1
        <5>1. Pending(c) \cup {k.left} \in SUBSET (0..MaxSources)
          BY <1>3, <4>4
        <5>2. /\ Cardinality(Pending(c)') <= Cardinality(Pending(c) \cup {k.left})
              /\ Cardinality(Pending(c) \cup {k.left}) \in Nat
          BY <1>3, <4>2, <5>1, Counts
        <5>3. Cardinality(Pending(c) \cup {k.left}) <= Cardinality(Pending(c)) + 1
          BY <1>3, Counts
        <5>. QED
          BY <1>4, <5>2, <5>3
      <4>. QED
        BY <1>0, <1>4, <1>5, <3>0, <4>1, <4>3, <4>5
    <3>. QED
      BY <3>1, <3>2, <3>3
  <2>. QED
    BY <2>1, <2>2, <2>3
<1>8. \A g \in GroupsBy(c)' : j.created /\ j.group \in {g, Absent}
  BY <1>0, <1>2, <1>7 DEF MadeBy
<1>. QED
  BY <1>2, <1>7, <1>8 DEF MadeBy

\* Making or finding the group of a subject.
LEMMA MakesMade ==
    ASSUME AssetType, AssetType', NEW c \in AssetCalls, MadeBy(c), Makes(c, asking'[c])
    PROVE  MadeBy(c)'
<1>. DEFINE k == asking[c]
            j == asking'[c]
<1>0. k \in Asks /\ k.pc = "make" /\ Made(c) = {} /\ GroupsBy(c) = {} /\ Pending(c) = {}
  BY DEF Makes, AssetType, MadeBy
<1>a. PICK g \in Groups \ HeldGroups : /\ MakesGroup(c, g, FALSE) /\ late' = late
                                      /\ \E id \in {g, Absent} : j = Found(k, id, TRUE)
  BY DEF Makes
<1>1. PICK id \in {g, Absent} : j = Found(k, id, TRUE)
  BY <1>a
<1>2. Made(c)' = {} /\ GroupsBy(c)' \subseteq {g} /\ Pending(c)' = {}
  <2>1. asset' = asset
    BY <1>a, MakesOne
  <2>. QED
    BY <1>0, <1>a, <2>1, KeptMade DEF Made, HeldAssets, Pending
<1>3. j.pc \in {"add", "ended"} /\ j.created /\ j.group = id
  BY <1>0, <1>1 DEF Found, Asks
<1>4. Cardinality(Made(c)' \ j.items) = 0 /\ Cardinality(Pending(c)') = 0 /\ j.doubts \in Nat
  <2>1. Made(c)' \ j.items = {}
    BY <1>2
  <2>2. j.doubts \in Nat
    BY DEF AssetType, Asks
  <2>. QED
    BY <1>2, <2>1, <2>2, FS_EmptySet
<1>. QED
  BY <1>2, <1>3, <1>4 DEF MadeBy

\* Every step keeps the account of what calls made.
LEMMA NextMade == ASSUME AssetType, AssetType', LateInv, MadeInv, [AssetNext]_assetVars PROVE MadeInv'
<1>1. CASE UNCHANGED assetVars
  BY <1>1 DEF MadeInv, MadeBy, Made, GroupsBy, Pending, HeldAssets, HeldGroups, assetVars
<1>2. ASSUME NEW a \in Assets, Process(a) PROVE MadeInv'
  <2>1. KeptFiles /\ UNCHANGED <<group, asking, late>>
    BY <1>2, ProcessFile
  <2>2. \A c \in AssetCalls : /\ Made(c)' \subseteq Made(c)
                              /\ GroupsBy(c)' \subseteq GroupsBy(c) /\ Pending(c)' \subseteq Pending(c)
    BY <2>1, KeptMade DEF GroupsBy, HeldGroups
  <2>. QED
    BY <2>1, <2>2, AccountKept DEF MadeInv
<1>3. ASSUME NEW c \in AssetCalls, NEW n \in 0..MaxSources, Lands(c, n) PROVE MadeInv'
  <2>1. CarriesOut(c, TRUE) /\ asking' = asking /\ <<c, n>> \in late /\ late' = late \ {<<c, n>>}
    BY <1>3 DEF Lands
  <2>2. /\ KeptGroups \/ \E g \in Groups \ HeldGroups : MakesGroup(c, g, TRUE)
        /\ KeptFiles \/ \E a \in Assets \ HeldAssets : AddsFile(c, a)
    BY <2>1, Carried
  <2>3. \A d \in AssetCalls : Pending(d)' \subseteq Pending(d)
    BY <2>1 DEF Pending
  <2>4. ASSUME NEW d \in AssetCalls, d # c PROVE MadeBy(d)'
    <3>1. Made(d)' \subseteq Made(d) /\ GroupsBy(d)' \subseteq GroupsBy(d)
      BY <2>2, <2>4, KeptMade
    <3>. QED
      BY <2>1, <2>3, <3>1, AccountKept DEF MadeInv
  <2>5. MadeBy(c)'
    <3>. DEFINE k == asking[c]
    <3>0. MadeBy(c) /\ k.doubts \in Nat /\ n \in Pending(c)
      BY <2>1 DEF MadeInv, AssetType, Asks, Pending
    <3>1. k.pc \in {"add", "ended"}
      BY <3>0 DEF MadeBy
    <3>2. CASE k.answer \in {"ambiguous", "cancelled", "crashed"}
      BY <2>1, <2>3, <3>0, <3>1, <3>2 DEF MadeBy
    <3>3. CASE k.answer \notin {"ambiguous", "cancelled", "crashed"}
      <4>1. \A g : ~MakesGroup(c, g, TRUE)
        BY <3>0, <3>3 DEF MakesGroup, LateInv
      <4>2. GroupsBy(c)' \subseteq GroupsBy(c)
        BY <2>2, <4>1, KeptMade
      <4>3. CASE KeptFiles
        BY <2>1, <2>3, <3>0, <4>2, <4>3, KeptMade, AccountKept
      <4>4. ASSUME NEW a \in Assets \ HeldAssets, AddsFile(c, a) PROVE MadeBy(c)'
        <5>1. Made(c)' \ k.items \in SUBSET ((Made(c) \ k.items) \cup {a})
          BY <4>4, KeptMade
        <5>2. /\ Made(c) \ k.items \in SUBSET Assets /\ (Made(c) \ k.items) \cup {a} \in SUBSET Assets
              /\ Pending(c) \in SUBSET (0..MaxSources) /\ Made(c)' \ k.items \in SUBSET Assets
          BY Sets
        <5>3. Pending(c)' = Pending(c) \ {n}
          BY <2>1 DEF Pending
        <5>4. Cardinality(Pending(c)') = Cardinality(Pending(c)) - 1 /\ Cardinality(Pending(c)) \in Nat
          BY <3>0, <5>2, <5>3, Counts
        <5>5. /\ Cardinality(Made(c)' \ k.items) <= Cardinality((Made(c) \ k.items) \cup {a})
              /\ Cardinality((Made(c) \ k.items) \cup {a}) \in Nat
              /\ Cardinality(Made(c)' \ k.items) \in Nat /\ Cardinality(Made(c) \ k.items) \in Nat
          BY <5>1, <5>2, Counts
        <5>6. Cardinality((Made(c) \ k.items) \cup {a}) <= Cardinality(Made(c) \ k.items) + 1
          BY <5>2, Counts
        <5>7. Cardinality(Made(c) \ k.items) + Cardinality(Pending(c)) <= k.doubts
          BY <3>0, <3>3 DEF MadeBy
        <5>8. Cardinality(Made(c)' \ k.items) + Cardinality(Pending(c)') <= k.doubts
          BY <3>0, <5>4, <5>5, <5>6, <5>7
        <5>. QED
          BY <2>1, <2>3, <3>0, <3>1, <3>3, <4>2, <5>8 DEF MadeBy
      <4>. QED
        BY <2>2, <4>3, <4>4
    <3>. QED
      BY <3>2, <3>3
  <2>. QED
    BY <2>4, <2>5 DEF MadeInv
<1>4. ASSUME NEW c \in AssetCalls, Turn(c, asking'[c]), asking' = [asking EXCEPT ![c] = asking'[c]]
      PROVE  MadeInv'
  <2>. DEFINE k == asking[c]
              j == asking'[c]
  <2>0. MadeBy(c) /\ k \in Asks /\ k.pc # "ended"
    BY <1>4, TurnPlace DEF MadeInv, AssetType
  <2>1. ASSUME NEW d \in AssetCalls, d # c PROVE MadeBy(d)'
    <3>1. asking'[d] = asking[d] /\ Pending(d)' \subseteq Pending(d)
      BY <1>4, <2>1, TurnLate DEF AssetType, Pending
    <3>2. Made(d)' \subseteq Made(d)
      BY <1>4, <2>1, TurnEffect, KeptMade
    <3>3. GroupsBy(d)' \subseteq GroupsBy(d)
      BY <1>4, <2>1, TurnEffect, KeptMade
    <3>. QED
      BY <3>1, <3>2, <3>3, AccountKept DEF MadeInv
  <2>2. ASSUME k.pc # "add", ~Makes(c, j), ~Stops(c, j) PROVE MadeBy(c)'
    <3>1. ~Adds(c, j) /\ ~Misses(c, j)
      BY <2>2 DEF Adds, Misses
    <3>2. KeptFiles /\ KeptGroups /\ late' = late
      BY <1>4, <2>2, <3>1, TurnEffect
    <3>3. Made(c)' = {} /\ GroupsBy(c)' = {} /\ Pending(c)' = {}
      BY <2>0, <2>2, <3>2, KeptMade DEF MadeBy
    <3>. QED
      BY <3>3, NothingMade
  <2>3. CASE Stops(c, j)
    <3>1. PICK a \in {"ambiguous", "cancelled"} : j = Finished(k, a)
      BY <2>3 DEF Stops
    <3>2. j.pc = "ended" /\ j.answer = a
      BY <2>0, <3>1 DEF Finished, Asks
    <3>. QED
      <4>1. MadeBy(c)'
        BY <3>2 DEF MadeBy
      <4>. QED
        BY <2>1, <4>1 DEF MadeInv
  <2>4. CASE k.pc = "add" /\ Quits(c, j)
    <3>1. PICK a \in {"ok", "clean", "refused", "pending", "submitted"} : j = Finished(k, a)
      BY <2>4 DEF Quits
    <3>2. /\ j.pc = "ended" /\ j.items = k.items /\ j.doubts = k.doubts /\ j.created = k.created
          /\ j.group = k.group
      BY <2>0, <3>1 DEF Finished, Asks
    <3>3. Made(c)' = Made(c) /\ GroupsBy(c)' = GroupsBy(c) /\ Pending(c)' = Pending(c)
      BY <2>4 DEF Quits, Quiet, Made, GroupsBy, Pending, HeldAssets, HeldGroups
    <3>4. k.answer = "none"
      BY <2>4 DEF AssetType, AskOK
    <3>. QED
      <4>1. MadeBy(c)'
        BY <2>0, <3>2, <3>3, <3>4 DEF MadeBy
      <4>. QED
        BY <2>1, <4>1 DEF MadeInv
  <2>5. CASE k.pc = "add" /\ ~Stops(c, j) /\ ~Quits(c, j)
    <3>1. Adds(c, j) \/ Misses(c, j)
      BY <1>4, <2>5 DEF Turn, Begins, Enters, SeesNone, Finds, Makes, Looks, Does, Passes, Reads
    <3>2. MadeBy(c)'
      BY <2>0, <3>1, AddsMade, MissesMade
    <3>. QED
      BY <2>1, <3>2 DEF MadeInv
  <2>6. CASE Makes(c, j)
    BY <2>0, <2>1, <2>6, MakesMade DEF MadeInv
  <2>. QED
    BY <2>1, <2>2, <2>3, <2>4, <2>5, <2>6 DEF MadeInv
<1>. QED
  BY <1>1, <1>2, <1>3, <1>4, AssetSteps

-----------------------------------------------------------------------------
\* The first state satisfies the invariant: only groups of persons exist.
LEMMA InitAssets == AssetInit => AssetInv
<1>. SUFFICES ASSUME AssetInit PROVE AssetInv
  OBVIOUS
<1>1. AssetType
  <2>1. PersonGroup \in GroupRecords
    BY DEF PersonGroup, GroupRecords
  <2>2. AssetIdle \in Asks /\ AskOK(AssetIdle)
    BY IdleAsk DEF AskOK
  <2>. QED
    BY <2>1, <2>2 DEF AssetInit, AssetType
<1>2. \A c \in AssetCalls : /\ asking[c].pc = "idle" /\ asking[c].op = "none"
                            /\ asking[c].doubts = 0
  BY DEF AssetInit, AssetIdle
<1>3. \A g \in HeldGroups : group[g].at = Absent /\ group[g].by = Absent /\ group[g].late = FALSE
  BY AssetAssumption DEF AssetInit, HeldGroups, PersonGroup
<1>4. HeldAssets = {} /\ late = {}
  BY DEF AssetInit, HeldAssets
<1>5. \A c \in AssetCalls : Made(c) = {} /\ GroupsBy(c) = {} /\ Pending(c) = {}
  BY <1>3, <1>4, AssetAssumption DEF Made, GroupsBy, Pending
<1>6. SectionInv /\ LateInv /\ LookInv
  BY <1>2, <1>3, <1>4, <1>5, AssetAssumption DEF SectionInv, LateInv, LookInv
<1>7. MadeInv
  <2>1. \A c \in AssetCalls : Cardinality(Made(c) \ asking[c].items) = 0 /\ Cardinality(Pending(c)) = 0
    <3>1. \A c \in AssetCalls : Made(c) \ asking[c].items = {}
      BY <1>5
    <3>. QED
      BY <1>5, <3>1, FS_EmptySet
  <2>. QED
    BY <1>2, <1>5, <2>1 DEF MadeInv, MadeBy
<1>. QED
  BY <1>1, <1>6, <1>7 DEF AssetInv

\* Every step keeps the invariant.
LEMMA NextAssets == AssetInv /\ [AssetNext]_assetVars => AssetInv'
  BY NextAssetType, NextSection, NextLate, NextLook, NextMade DEF AssetInv

\* The inductive invariant of groups and assets.
LEMMA AssetsAlways == AssetSpec => []AssetInv
  BY InitAssets, NextAssets, PTL DEF AssetSpec

\* The per-server lock of resolve_subject_group keeps the calls of one server
\* from making two groups of one subject as long as they wait for their answers,
\* for any servers, calls and subjects, whatever is renamed or deleted meanwhile:
\* of two such groups one was made by the provider after its call had given up,
\* and that call said it does not know, or was cancelled.
THEOREM GroupsAreUnique == AssetSpec => []OneGroupPerServer
<1>1. AssetInv => OneGroupPerServer
  BY DEF AssetInv, LateInv, OneGroupPerServer
<1>. QED
  BY <1>1, AssetsAlways, PTL

\* No create call (ark_asset_create, ark_asset_group_ensure) denies what it
\* left at the provider, or what the provider does for it after it has ended:
\* every file is listed or covered by a doubt, every group said to be created,
\* whatever fails or comes back without an ID. A call that ends in the ValueError
\* of asset_uri is not covered.
THEOREM CreatesAreAccounted == AssetSpec => []NothingHidden
<1>1. AssetInv => NothingHidden
  <2>. SUFFICES ASSUME AssetInv, NEW c \in AssetCalls, asking[c].answer \in {"ok", "clean", "refused"}
                PROVE  /\ Cardinality({a \in HeldAssets : asset[a].by = c} \ asking[c].items) <= asking[c].doubts
                       /\ \A g \in HeldGroups : group[g].by = c =>
                             asking[c].created /\ asking[c].group \in {g, Absent}
    BY DEF NothingHidden
  <2>1. /\ Cardinality(Made(c) \ asking[c].items) + Cardinality(Pending(c)) <= asking[c].doubts
        /\ \A g \in GroupsBy(c) : asking[c].created /\ asking[c].group \in {g, Absent}
    BY DEF AssetInv, MadeInv, MadeBy
  <2>2. Made(c) \ asking[c].items \in SUBSET Assets /\ Pending(c) \in SUBSET (0..MaxSources)
    BY Sets
  <2>3. Cardinality(Made(c) \ asking[c].items) \in Nat /\ Cardinality(Pending(c)) \in Nat
    BY <2>2, Counts
  <2>4. asking[c].doubts \in Nat
    BY DEF AssetInv, AssetType, Asks
  <2>5. Cardinality(Made(c) \ asking[c].items) <= asking[c].doubts
    BY <2>1, <2>3, <2>4
  <2>. QED
    BY <2>1, <2>5 DEF Made, GroupsBy
<1>. QED
  BY <1>1, AssetsAlways, PTL

\* A group deleted without cascade (ark_asset_delete) takes along only files
\* that were added after its look, of any type of group, and also when the
\* provider deletes it after the call has given up.
THEOREM DeletesSpareSeen == AssetSpec => DeletesOnlyUnseen
<1>. DEFINE Spared == \A c \in AssetCalls : Deletes(c) =>
                          \A a \in HeldAssets : asset'[a] = Absent => c \in asset[a].after
<1>1. ASSUME AssetInv, AssetNext PROVE Spared
  <2>. SUFFICES ASSUME NEW c \in AssetCalls, Deletes(c), NEW a \in HeldAssets, asset'[a] = Absent
                PROVE  c \in asset[a].after
    OBVIOUS
  <2>0. AssetType /\ LookInv /\ asking[c].op = "drop" /\ asset[a] # Absent
    BY <1>1 DEF AssetInv, Deletes, HeldAssets
  <2>1. c \in Dropping(asking[c].group)
    BY <2>0 DEF Deletes, Dropping
  \* Whoever carries out c's request removes what its group holds.
  <2>2. ASSUME NEW b \in BOOLEAN, CarriesOut(c, b) PROVE c \in asset[a].after
    <3>1. RemovesGroup(c)
      BY <2>0, <2>2, AddsOne DEF CarriesOut, MakesGroup, AddsFile, RemovesAsset, RenamesGroup
    <3>2. asset[a].group = asking[c].group
      BY <2>0, <3>1 DEF RemovesGroup, Holds, HeldAssets
    <3>. QED
      BY <2>0, <2>1, <3>2 DEF LookInv
  <2>3. CASE \E b \in Assets : Process(b)
    BY <2>0, <2>3, ProcessFile DEF Deletes
  <2>4. ASSUME NEW d \in AssetCalls, NEW n \in 0..MaxSources, Lands(d, n) PROVE c \in asset[a].after
    <3>1. d = c
      BY <2>4 DEF Lands, Deletes
    <3>. QED
      BY <2>2, <2>4, <3>1 DEF Lands
  <2>5. ASSUME NEW d \in AssetCalls, Turn(d, asking'[d]), asking' = [asking EXCEPT ![d] = asking'[d]]
        PROVE  c \in asset[a].after
    <3>1. late \subseteq late'
      BY <2>0, <2>5, TurnEffect
    <3>2. asking[c].pc = "drop" /\ asking'[c].pc = "ended"
      BY <3>1 DEF Deletes
    <3>3. d = c
      BY <2>0, <2>5, <3>2 DEF AssetType
    <3>4. asset' # asset
      BY <2>0
    <3>5. CarriesOut(c, FALSE)
      BY <2>5, <3>2, <3>3, <3>4 DEF Turn, Begins, Enters, SeesNone, Finds, Makes, Adds, Misses, Looks,
         Does, Stops, Quits, Passes, Reads, Quiet, GivesUp
    <3>. QED
      BY <2>2, <3>5
  <2>6. CASE UNCHANGED assetVars
    BY <2>0, <2>6 DEF assetVars
  <2>7. [AssetNext]_assetVars
    BY <1>1
  <2>. QED
    BY <2>0, <2>3, <2>4, <2>5, <2>6, <2>7, AssetSteps
<1>2. AssetInv /\ [AssetNext]_assetVars => [Spared]_assetVars
  BY <1>1
<1>. QED
  BY <1>2, AssetsAlways, PTL DEF AssetSpec, DeletesOnlyUnseen

-----------------------------------------------------------------------------
(* GenerationRequests: the invariant says of the request that still waits  *)
(* for its slot, and of the one being sent, which Draft it renders.        *)

ProviderTasks == [owner : Artists, model : VideoModels, draft : BOOLEAN, age : Nat,
                  status : {"queued", "succeeded", "failed", "removed"}]

\* What a video body says of the Draft it names.
FitsDraft(b) ==
    b # Unsent /\ b.kind = "video" => \A t \in b.request.draftOf :
        /\ t \in VideoTasks /\ videoTask[t] # Unsent
        /\ b.owner = videoTask[t].owner /\ b.model = videoTask[t].model
        /\ videoTask[t].status \in {"succeeded", "removed"}
        /\ b.request.resolution = IF b.model = "seedance_2_5_premium" THEN {"4k"} ELSE {"1080p"}
        /\ ~Reused(b.request) /\ b.request.draft = {} /\ b.request.variations = 1
        /\ b.seen.draft \subseteq {TRUE} /\ b.seen.age \subseteq 0..DraftMaxAge

VideoBodyType(b) ==
    b # Unsent /\ b.kind = "video" => b.owner \in Artists /\ b.model \in VideoModels

RequestInv ==
    /\ videoTask \in [VideoTasks -> ProviderTasks \cup {Unsent}]
    /\ VideoBodyType(sent) /\ VideoBodyType(looked)
    /\ FitsDraft(sent) /\ FitsDraft(looked)

-----------------------------------------------------------------------------
(* The requests.                                                           *)

IsRequest(r) ==
    r = [model |-> r.model, draft |-> r.draft, draftOf |-> r.draftOf, resolution |-> r.resolution,
         ratio |-> r.ratio, duration |-> r.duration, taskType |-> r.taskType, media |-> r.media,
         prompt |-> r.prompt, variations |-> r.variations]

\* A request that is nothing but a reference to the Draft of `draftOf`.
Plain(r) == r.draft = {} /\ ~Reused(r) /\ r.variations = 1

\* The request that renders a Draft is its reference and the resolution.
LEMMA FinalRecords ==
    ASSUME NEW r \in FinalRequests
    PROVE  IsRequest(r) /\ \E t \in VideoTasks : r.draftOf = {t}
<1>. DEFINE plain == [model : Opt(VideoModels), draft : Opt(BOOLEAN), draftOf : Opt(VideoTasks) \ {{}},
                  resolution : Opt({"480p", "1080p", "4k"}), ratio : {{}}, duration : {{}},
                  taskType : {{}}, media : {NoMedia}, prompt : {FALSE}, variations : {1}]
<1>1. PICK p \in plain : \/ r = p \/ r = [p EXCEPT !.prompt = TRUE]
                         \/ r = [p EXCEPT !.ratio = {"adaptive"}] \/ r = [p EXCEPT !.variations = 2]
    BY DEF FinalRequests
<1>2. IsRequest(p)
    BY DEF IsRequest
<1>3. \E t \in VideoTasks : p.draftOf = {t}
    BY DEF Opt
<1>. HIDE DEF plain
<1>4. r.draftOf = p.draftOf
    BY <1>1, <1>2 DEF IsRequest
<1>5. IsRequest(r)
    BY <1>1, <1>2 DEF IsRequest
<1>. QED
    BY <1>3, <1>4, <1>5

\* Every video request is a record with these fields.
LEMMA VideoRecords ==
    ASSUME NEW q \in VideoRequests
    PROVE  IsRequest(WithDraftResolution(q)) /\ WithDraftResolution(q).draftOf = {}
<1>1. IsRequest(q) /\ q.draftOf = {}
    BY DEF VideoRequests, IsRequest
<1>. QED
    BY <1>1 DEF WithDraftResolution, IsRequest

\* What a body says of the request it is made of.
LEMMA BodyOfRequest ==
    ASSUME NEW o, NEW r, NEW seen, NEW b \in VideoBody(o, r, seen), IsRequest(r)
    PROVE  /\ b.kind = "video" /\ b.owner = o /\ b.seen = seen
           /\ b.model \in VideoModels
           /\ r.model # {} => b.model \in r.model
           /\ b.request \in WithFinalResolution(r, VideoCaps(b.model))
           /\ CheckVideoRequest(b.request, VideoCaps(b.model))
           /\ b.request.draftOf = r.draftOf
<1>1. PICK m \in ResolveExact(r.model, VideoModels, DefaultVideo) :
          \E q \in WithFinalResolution(r, VideoCaps(m)) :
              /\ CheckVideoRequest(q, VideoCaps(m))
              /\ b = [kind |-> "video", owner |-> o, model |-> m, request |-> q, seen |-> seen]
    BY Zenon DEF VideoBody
<1>2. PICK q \in WithFinalResolution(r, VideoCaps(m)) :
              /\ CheckVideoRequest(q, VideoCaps(m))
              /\ b = [kind |-> "video", owner |-> o, model |-> m, request |-> q, seen |-> seen]
    BY <1>1
<1>3. q.draftOf = r.draftOf
    BY DEF WithFinalResolution, IsRequest
<1>4. m \in VideoModels /\ (r.model # {} => m \in r.model)
    BY DEF ResolveExact, Or
<1>. QED
    BY <1>2, <1>3, <1>4

\* A plain request is sent to a model that makes Drafts, in its final resolution
\* and otherwise as it is.
LEMMA FinalBody ==
    ASSUME NEW o, NEW r, NEW seen, NEW b \in VideoBody(o, r, seen), IsRequest(r), Plain(r),
           r.draftOf # {}
    PROVE  /\ Plain(b.request)
           /\ b.request.resolution = IF b.model = "seedance_2_5_premium" THEN {"4k"} ELSE {"1080p"}
<1>. DEFINE final == VideoCaps(b.model).final
<1>1. /\ b.request \in WithFinalResolution(r, VideoCaps(b.model))
      /\ CheckVideoRequest(b.request, VideoCaps(b.model))
      /\ b.request.draftOf # {}
    BY BodyOfRequest
<1>2. b.model \in Seedance25
    BY <1>1 DEF CheckVideoRequest, VideoCaps
<1>3. final = IF b.model = "seedance_2_5_premium" THEN {"4k"} ELSE {"1080p"}
    BY <1>2 DEF VideoCaps
<1>4. b.request = [r EXCEPT !.resolution = final]
    BY <1>1, <1>3 DEF WithFinalResolution
<1>. HIDE DEF final
<1>5. Plain(b.request) /\ b.request.resolution = final
    BY <1>4 DEF IsRequest, Plain, Reused
<1>. QED
    BY <1>3, <1>5

-----------------------------------------------------------------------------
\* Nothing was sent.
LEMMA InitRequest == RequestInit => RequestInv
BY DEF RequestInit, RequestInv, VideoBodyType, FitsDraft

\* What the provider does to its tasks is no matter to a body that names one.
LEMMA DraftsKept ==
    ASSUME NEW b, FitsDraft(b),
           \A t \in VideoTasks : videoTask[t] # Unsent =>
               /\ videoTask'[t] # Unsent
               /\ videoTask'[t].owner = videoTask[t].owner
               /\ videoTask'[t].model = videoTask[t].model
               /\ videoTask[t].status \in {"succeeded", "removed"}
                     => videoTask'[t].status \in {"succeeded", "removed"}
    PROVE  b # Unsent /\ b.kind = "video" => \A t \in b.request.draftOf :
        /\ t \in VideoTasks /\ videoTask'[t] # Unsent
        /\ b.owner = videoTask'[t].owner /\ b.model = videoTask'[t].model
        /\ videoTask'[t].status \in {"succeeded", "removed"}
        /\ b.request.resolution = IF b.model = "seedance_2_5_premium" THEN {"4k"} ELSE {"1080p"}
        /\ ~Reused(b.request) /\ b.request.draft = {} /\ b.request.variations = 1
        /\ b.seen.draft \subseteq {TRUE} /\ b.seen.age \subseteq 0..DraftMaxAge
BY DEF FitsDraft

\* Every step keeps the invariant.
LEMMA NextRequest == RequestInv /\ [RequestNext]_requestVars => RequestInv'
<1>. SUFFICES ASSUME RequestInv, [RequestNext]_requestVars PROVE RequestInv'
    OBVIOUS
<1>1. ASSUME NEW o \in Artists, SeedanceCreateTask(o) PROVE RequestInv'
    <2>1. PICK q \in VideoRequests : sent' \in VideoBody(o, WithDraftResolution(q), {})
        BY <1>1 DEF SeedanceCreateTask
    <2>2. /\ sent'.owner = o /\ sent'.model \in VideoModels
          /\ sent'.request.draftOf = {}
        BY <2>1, VideoRecords, BodyOfRequest
    <2>3. UNCHANGED <<videoTask, looked>>
        BY <1>1 DEF SeedanceCreateTask
    <2>. QED
        BY <2>2, <2>3 DEF RequestInv, VideoBodyType, FitsDraft
<1>2. ASSUME NEW o \in Artists, SeedreamGenerateImage(o) PROVE RequestInv'
    <2>1. sent'.kind = "image"
        BY <1>2 DEF SeedreamGenerateImage, ImageBody
    <2>2. UNCHANGED <<videoTask, looked>>
        BY <1>2 DEF SeedreamGenerateImage
    <2>. QED
        BY <2>1, <2>2 DEF RequestInv, VideoBodyType, FitsDraft
<1>3. ASSUME NEW o \in Artists, RenderDraft(o) PROVE RequestInv'
    <2>1. PICK r \in FinalRequests : RenderDraft(o)!2!(r)
        BY <1>3, Zenon DEF RenderDraft
    <2>2. PICK t \in r.draftOf : RenderDraft(o)!2!(r)!(t)
        BY <2>1, Zenon
    <2>. DEFINE m == videoTask[t].model
                f == [r EXCEPT !.model = {m}]
    <2>3. PICK d \in {{}, {videoTask[t].draft}}, a \in {{}, {videoTask[t].age}} :
              /\ LoadDraftTask(o, t, [draft |-> d, age |-> a])
              /\ looked' \in VideoBody(o, f, [draft |-> d, age |-> a])
        BY <2>2
    <2>4. t \in VideoTasks /\ r.draftOf = {t} /\ videoTask[t] \in ProviderTasks
        BY <2>2, FinalRecords DEF RequestInv
    <2>5. IsRequest(r) /\ Plain(r)
        BY <2>2, FinalRecords DEF VideoInput, DraftMode, Plain
    <2>6. IsRequest(f) /\ Plain(f) /\ f.model = {m} /\ f.draftOf = {t}
        BY <2>4, <2>5 DEF IsRequest, Plain, Reused
    <2>. HIDE DEF f
    <2>7. /\ looked'.owner = o /\ looked'.seen = [draft |-> d, age |-> a]
          /\ looked'.model = m /\ m \in VideoModels /\ looked'.request.draftOf = {t}
        BY <2>3, <2>6, BodyOfRequest
    <2>8. /\ Plain(looked'.request)
          /\ looked'.request.resolution
                = IF looked'.model = "seedance_2_5_premium" THEN {"4k"} ELSE {"1080p"}
        BY <2>3, <2>6, FinalBody
    <2>9. /\ videoTask[t].owner = o /\ videoTask[t].status = "succeeded" /\ videoTask[t] # Unsent
          /\ FALSE \notin d /\ \A x \in a : x <= DraftMaxAge
        BY <2>2, <2>3 DEF LoadDraftTask
    <2>10. looked'.seen.draft \subseteq {TRUE}
        <3>1. videoTask[t].draft \in BOOLEAN
            BY <2>4 DEF ProviderTasks
        <3>2. d \subseteq {TRUE}
            BY ONLY <2>3, <2>9, <3>1, Zenon
        <3>3. looked'.seen.draft = d
            BY ONLY <2>7
        <3>. QED  BY ONLY <3>2, <3>3
    <2>11. looked'.seen.age \subseteq 0..DraftMaxAge
        <3>1. videoTask[t].age \in Nat
            BY <2>4 DEF ProviderTasks
        <3>2. \A x \in a : x \in Nat
            BY ONLY <2>3, <3>1
        <3>3. \A x \in a : x \in 0..DraftMaxAge
            BY ONLY <2>9, <3>2, RequestAssumption
        <3>4. looked'.seen.age = a
            BY ONLY <2>7
        <3>. QED  BY ONLY <3>3, <3>4
    <2>12. UNCHANGED <<videoTask, sent>>
        BY <1>3 DEF RenderDraft
    <2>13. FitsDraft(looked)'
        BY <2>4, <2>7, <2>8, <2>9, <2>10, <2>11, <2>12 DEF FitsDraft, Plain
    <2>. QED
        BY <2>7, <2>12, <2>13 DEF RequestInv, VideoBodyType, FitsDraft
<1>4. CASE SendFinal
    BY <1>4 DEF SendFinal, RequestInv, VideoBodyType, FitsDraft
<1>5. ASSUME UNCHANGED looked, sent' = Unsent,
             videoTask' \in [VideoTasks -> ProviderTasks \cup {Unsent}],
             \A t \in VideoTasks : videoTask[t] # Unsent =>
               /\ videoTask'[t] # Unsent
               /\ videoTask'[t].owner = videoTask[t].owner
               /\ videoTask'[t].model = videoTask[t].model
               /\ videoTask[t].status \in {"succeeded", "removed"}
                     => videoTask'[t].status \in {"succeeded", "removed"}
      PROVE RequestInv'
    <2>1. FitsDraft(looked)
        BY DEF RequestInv
    <2>2. FitsDraft(looked)'
        BY <1>5, <2>1, DraftsKept DEF FitsDraft
    <2>. QED
        BY <1>5, <2>2 DEF RequestInv, VideoBodyType, FitsDraft
<1>. USE RequestAssumption DEF ProviderTasks
<1>6. CASE Answered
    <2>1. CASE UNCHANGED videoTask
        BY <1>5, <1>6, <2>1 DEF Answered, RequestInv
    <2>2. CASE ~UNCHANGED videoTask
        <3>1. PICK t \in VideoTasks :
                  /\ sent.kind = "video" /\ sent # Unsent /\ videoTask[t] = Unsent
                  /\ videoTask' = [videoTask EXCEPT ![t] =
                        [owner |-> sent.owner, model |-> sent.model, status |-> "queued",
                         draft |-> sent.request.draft = {TRUE}, age |-> 0]]
            BY <1>6, <2>2 DEF Answered
        <3>2. [owner |-> sent.owner, model |-> sent.model, status |-> "queued",
               draft |-> sent.request.draft = {TRUE}, age |-> 0] \in ProviderTasks
            BY <3>1 DEF RequestInv, VideoBodyType
        <3>. QED
            BY <1>5, <1>6, <3>1, <3>2 DEF Answered, RequestInv
    <2>. QED  BY <2>1, <2>2
<1>7. ASSUME NEW t \in VideoTasks, TaskEnds(t) PROVE RequestInv'
    <2>1. PICK s \in {"succeeded", "failed"} : videoTask' = [videoTask EXCEPT ![t].status = s]
        BY <1>7 DEF TaskEnds
    <2>2. videoTask[t] \in ProviderTasks /\ videoTask[t].status = "queued"
        BY <1>7 DEF TaskEnds, RequestInv
    <2>3. [videoTask[t] EXCEPT !.status = s] \in ProviderTasks
        BY <2>2
    <2>. QED
        BY <1>5, <1>7, <2>1, <2>2, <2>3 DEF TaskEnds, RequestInv
<1>8. ASSUME NEW t \in VideoTasks, TaskRemoved(t) PROVE RequestInv'
    <2>1. videoTask' = [videoTask EXCEPT ![t].status = "removed"]
        BY <1>8 DEF TaskRemoved
    <2>2. videoTask[t] \in ProviderTasks
        BY <1>8 DEF TaskRemoved, RequestInv
    <2>3. [videoTask[t] EXCEPT !.status = "removed"] \in ProviderTasks
        BY <2>2
    <2>. QED
        BY <1>5, <1>8, <2>1, <2>2, <2>3 DEF TaskRemoved, RequestInv
<1>9. CASE DayPasses
    <2>1. videoTask' = [t \in VideoTasks |->
               IF videoTask[t] = Unsent THEN Unsent ELSE [videoTask[t] EXCEPT !.age = @ + 1]]
        BY <1>9 DEF DayPasses
    <2>2. \A t \in VideoTasks : videoTask[t] # Unsent =>
              videoTask[t] \in ProviderTasks /\ [videoTask[t] EXCEPT !.age = @ + 1] \in ProviderTasks
        BY DEF RequestInv
    <2>. QED
        BY <1>5, <1>9, <2>1, <2>2 DEF DayPasses, RequestInv
<1>10. CASE UNCHANGED requestVars
    BY <1>10 DEF requestVars, RequestInv, VideoBodyType, FitsDraft
<1>. QED
    BY <1>1, <1>2, <1>3, <1>4, <1>6, <1>7, <1>8, <1>9, <1>10 DEF RequestNext

\* For every set of callers, models and tasks: what renders a Draft is its
\* owner's, was read as a succeeded Draft within its window, and carries nothing
\* but the reference and the final resolution of the Draft's own model.
THEOREM FinalRendersAreOwn == RequestSpec => []FinalsRenderOwnDrafts
<1>1. RequestInv => FinalsRenderOwnDrafts
    BY DEF RequestInv, FitsDraft, FinalsRenderOwnDrafts
<1>. QED
    BY <1>1, InitRequest, NextRequest, PTL DEF RequestSpec

-----------------------------------------------------------------------------
(* What is sent fits its model: the checks say it of a request as its      *)
(* validators and defaults leave it, for every model that resolves.        *)

VideoFits(b) ==
    LET r == b.request IN
    b # Unsent /\ b.kind = "video" =>
        /\ r.draft = {TRUE} => b.model \in Seedance25 /\ r.resolution = {"480p"}
        /\ r.resolution = {"4k"} => b.model \in {"seedance_2", "seedance_2_5_premium"}
        /\ r.media.frame \/ r.taskType = {"edit"} => r.ratio \in {{}, {"adaptive"}}
        /\ r.taskType = {"edit"} => r.duration \in {{}, {-1}} /\ r.media.videos > 0
        /\ b.model \notin Seedance25 =>
               /\ \A d \in r.duration : d = -1 \/ d <= 15
               /\ r.media.audios > 0 => r.media.images + r.media.videos > 0
               /\ r.media.images <= 9 /\ r.media.videos <= 3 /\ r.taskType = {}
        /\ r.draftOf = {} => r.prompt \/ r.media # NoMedia

ImageFits(b) ==
    LET r == b.request IN
    b # Unsent /\ b.kind = "image" =>
        /\ r.background = {"transparent"} => /\ b.model = "seedream_5_pro" /\ r.images = 1
                                             /\ "jpeg" \notin r.format
                                             /\ r.form # "inline_jpeg"
        /\ r.maxImages = {2} => r.variations = 1 /\ b.model # "seedream_5_pro"
        /\ r.point => r.images \in 1..14
        /\ r.format = {"png"} => b.model # "seedream_4x"

BodiesInv ==
    /\ VideoFits(sent) /\ ImageFits(sent) /\ VideoFits(looked)
    /\ looked # Unsent => looked.kind = "video"

\* A request without a Draft is sent as it is.
LEMMA NewVideoFits ==
    ASSUME NEW o, NEW q \in VideoRequests, NEW r, r = WithDraftResolution(q), VideoInput(r),
           NEW b \in VideoBody(o, r, {})
    PROVE  VideoFits(b)
<1>1. /\ q.media \in VideoMedia /\ q.ratio \in Opt({"adaptive", "16:9"}) /\ q.draftOf = {}
      /\ q.taskType \in Opt({"reference", "edit"}) /\ q.variations \in {1, 2} /\ IsRequest(q)
  <2>1. {} \in Opt({"adaptive", "16:9"}) /\ {} \in Opt({"reference", "edit"})
    BY DEF Opt
  <2>. QED
    BY <2>1 DEF VideoRequests, IsRequest
<1>2. /\ r.media \in VideoMedia /\ r.ratio \in Opt({"adaptive", "16:9"}) /\ r.draftOf = {}
      /\ r.taskType \in Opt({"reference", "edit"})
  BY <1>1 DEF WithDraftResolution, IsRequest
<1>3. r.media.images \in Nat /\ r.media.videos \in Nat /\ r.media.audios \in Nat
  BY <1>2, RequestAssumption
<1>4. IsRequest(r)
  BY VideoRecords
<1>5. b.request = r /\ CheckVideoRequest(r, VideoCaps(b.model))
  <2>1. /\ b.request \in WithFinalResolution(r, VideoCaps(b.model))
        /\ CheckVideoRequest(b.request, VideoCaps(b.model))
    BY <1>4, BodyOfRequest
  <2>2. b.request = r
    BY <1>2, <2>1 DEF WithFinalResolution
  <2>. QED
    BY <2>1, <2>2
<1>6. r.draft = {TRUE} => b.model \in Seedance25 /\ r.resolution = {"480p"}
  BY <1>2, <1>5 DEF CheckVideoRequest, VideoCaps, VideoInput, DraftMode
<1>7. r.resolution = {"4k"} => b.model \in {"seedance_2", "seedance_2_5_premium"}
  <2>1. CASE r.draft = {TRUE}
    BY <1>6, <2>1
  <2>2. CASE r.draft # {TRUE}
    BY <1>5, <2>2 DEF CheckVideoRequest, VideoCaps
  <2>. QED
    BY <2>1, <2>2
<1>8. r.media.frame \/ r.taskType = {"edit"} => r.ratio \in {{}, {"adaptive"}}
  BY DEF VideoInput, TaskTypeConstraints, Fixed
<1>9. r.taskType = {"edit"} => r.duration \in {{}, {-1}} /\ r.media.videos > 0
  BY DEF VideoInput, TaskTypeConstraints
<1>10. ASSUME b.model \notin Seedance25
       PROVE  /\ \A d \in r.duration : d = -1 \/ d <= 15
              /\ r.media.audios > 0 => r.media.images + r.media.videos > 0
              /\ r.media.images <= 9 /\ r.media.videos <= 3 /\ r.taskType = {}
  <2>. DEFINE caps == VideoCaps(b.model)
  <2>1. /\ caps.images = 9 /\ caps.clips = 3 /\ caps.shortest = 4 /\ caps.longest = 15
        /\ ~caps.audioOnly /\ caps.taskTypes = {}
    <3>1. caps.images = 9 /\ caps.clips = 3 /\ caps.shortest = 4 /\ caps.longest = 15
      BY <1>10 DEF VideoCaps
    <3>2. ~caps.audioOnly
      BY <1>10 DEF VideoCaps
    <3>3. caps.taskTypes = {}
      BY <1>10 DEF VideoCaps
    <3>. QED
      BY <3>1, <3>2, <3>3
  <2>. HIDE DEF caps
  <2>2. CheckVideoRequest(r, caps)
    BY <1>5 DEF caps
  <2>3. r.media.audios > 0 => r.media.images # 0 \/ r.media.videos # 0
    BY <2>1, <2>2 DEF CheckVideoRequest
  <2>4. r.media.audios > 0 => r.media.images + r.media.videos > 0
    BY <1>3, <2>3
  <2>5. \A d \in r.duration : d = -1 \/ d <= 15
    BY <2>1, <2>2 DEF CheckVideoRequest
  <2>6. r.media.images <= 9 /\ r.media.videos <= 3 /\ r.taskType = {}
    BY <2>1, <2>2 DEF CheckVideoRequest
  <2>. QED
    BY <2>4, <2>5, <2>6
<1>11. r.prompt \/ r.media # NoMedia
  BY <1>2 DEF VideoInput, InputsPresent
<1>. QED
  BY <1>5, <1>6, <1>7, <1>8, <1>9, <1>10, <1>11 DEF VideoFits

\* A final render has no media, length or ratio of its own, and the resolution
\* of a model that makes Drafts.
LEMMA FinalFits ==
    ASSUME NEW o, NEW r, NEW seen, NEW b \in VideoBody(o, r, seen), IsRequest(r), Plain(r),
           r.draftOf # {}
    PROVE  VideoFits(b) /\ b.kind = "video"
<1>1. /\ Plain(b.request) /\ b.kind = "video" /\ b.request.draftOf # {}
      /\ b.request.resolution = IF b.model = "seedance_2_5_premium" THEN {"4k"} ELSE {"1080p"}
  BY FinalBody, BodyOfRequest
<1>2. b.request.resolution = {"4k"} => b.model = "seedance_2_5_premium"
  <2>1. {"4k"} # {"1080p"}
    OBVIOUS
  <2>. QED
    BY <1>1, <2>1
<1>3. /\ b.request.draft = {} /\ b.request.media = NoMedia /\ b.request.duration = {}
      /\ b.request.ratio = {} /\ b.request.taskType = {}
  BY <1>1 DEF Plain, Reused
<1>4. ~NoMedia.frame /\ NoMedia.images = 0 /\ NoMedia.videos = 0 /\ NoMedia.audios = 0
  BY DEF NoMedia
<1>. DEFINE q == b.request
<1>5. /\ q.draft = {} /\ q.draftOf # {} /\ ~q.media.frame /\ q.taskType = {} /\ q.duration = {}
      /\ q.ratio = {} /\ q.media.images = 0 /\ q.media.videos = 0 /\ q.media.audios = 0
      /\ (q.resolution = {"4k"} => b.model \in {"seedance_2", "seedance_2_5_premium"})
  BY <1>1, <1>2, <1>3, <1>4
<1>. HIDE DEF q
<1>6. q.draft # {TRUE} /\ q.taskType # {"edit"}
  BY <1>5
<1>7. b.model \notin Seedance25 =>
         /\ \A d \in q.duration : d = -1 \/ d <= 15
         /\ q.media.audios > 0 => q.media.images + q.media.videos > 0
         /\ q.media.images <= 9 /\ q.media.videos <= 3 /\ q.taskType = {}
  BY <1>5
<1>8. q.resolution = {"4k"} => b.model \in {"seedance_2", "seedance_2_5_premium"}
  BY <1>5
<1>9. q.draftOf # {} /\ ~q.media.frame
  BY <1>5
<1>10. q = b.request
  BY DEF q
<1>. QED
  BY ONLY <1>1, <1>6, <1>7, <1>8, <1>9, <1>10, Zenon DEF VideoFits

\* An image request is sent as it is but for the optimization.
LEMMA ImagesFit ==
    ASSUME NEW o, NEW r \in ImageRequests, ImageInput(r), NEW b \in ImageBody(o, r)
    PROVE  ImageFits(b) /\ b.kind = "image"
<1>1. PICK m : /\ CheckImageRequest(r, ImageCaps(m))
               /\ b = [kind |-> "image", owner |-> o, model |-> m,
                       request |-> [r EXCEPT !.optimization = Or(@, ImageCaps(m).optimization)]]
  BY DEF ImageBody
<1>. DEFINE q == b.request
<1>2. /\ b.kind = "image" /\ b.model = m
      /\ q.images = r.images /\ q.form = r.form /\ q.point = r.point /\ q.variations = r.variations
      /\ q.maxImages = r.maxImages /\ q.format = r.format /\ q.background = r.background
  BY <1>1 DEF ImageRequests
<1>. HIDE DEF q
<1>3. r.images \in Nat /\ r.variations \in {1, 2}
  BY RequestAssumption DEF ImageRequests
<1>4. ImageCaps(m).references \in {10, 14}
  BY DEF ImageCaps
<1>5. r.background = {"transparent"} => /\ m = "seedream_5_pro" /\ r.images = 1
                                        /\ "jpeg" \notin r.format
                                        /\ r.form # "inline_jpeg"
  <2>1. r.background = {"transparent"} => ~NonPngInline(r) /\ "jpeg" \notin r.format
    BY <1>1 DEF CheckImageRequest
  <2>2. r.background = {"transparent"} => m = "seedream_5_pro" /\ r.images = 1
    BY <1>1 DEF CheckImageRequest, ImageCaps
  <2>. QED
    BY <1>3, <2>1, <2>2 DEF NonPngInline
<1>6. r.maxImages = {2} => r.variations = 1 /\ m # "seedream_5_pro"
  <2>1. {2} # {} /\ {2} # {1}
    OBVIOUS
  <2>2. r.maxImages = {2} => m # "seedream_5_pro"
    BY <1>1, <2>1 DEF CheckImageRequest, ImageCaps
  <2>3. r.maxImages = {2} => ~(r.variations > 1)
    BY <2>1 DEF ImageInput
  <2>. QED
    BY <1>3, <2>2, <2>3
<1>7. r.point => r.images \in 1..14
  <2>1. r.images <= ImageCaps(m).references
    BY <1>1 DEF CheckImageRequest
  <2>2. r.point => r.images > 0
    BY DEF ImageInput
  <2>. QED
    BY <1>3, <1>4, <2>1, <2>2
<1>8. r.format = {"png"} => m # "seedream_4x"
  BY <1>1 DEF CheckImageRequest, ImageCaps
<1>. QED
  BY <1>2, <1>5, <1>6, <1>7, <1>8 DEF ImageFits, q

\* Every step keeps what was checked.
LEMMA NextBodies == BodiesInv /\ [RequestNext]_requestVars => BodiesInv'
<1>. SUFFICES ASSUME BodiesInv, [RequestNext]_requestVars PROVE BodiesInv'
  OBVIOUS
<1>1. ASSUME NEW o \in Artists, SeedanceCreateTask(o) PROVE BodiesInv'
  <2>1. PICK q \in VideoRequests :
            VideoInput(WithDraftResolution(q)) /\ sent' \in VideoBody(o, WithDraftResolution(q), {})
    BY <1>1 DEF SeedanceCreateTask
  <2>2. VideoFits(sent')
    BY <2>1, NewVideoFits
  <2>3. sent'.kind = "video"
    BY <2>1, VideoRecords, BodyOfRequest
  <2>4. looked' = looked
    BY <1>1 DEF SeedanceCreateTask
  <2>. QED
    BY <2>2, <2>3, <2>4 DEF BodiesInv, VideoFits, ImageFits
<1>2. ASSUME NEW o \in Artists, SeedreamGenerateImage(o) PROVE BodiesInv'
  <2>1. ImageFits(sent') /\ sent'.kind = "image"
    BY <1>2, ImagesFit DEF SeedreamGenerateImage
  <2>2. looked' = looked
    BY <1>2 DEF SeedreamGenerateImage
  <2>. QED
    BY <2>1, <2>2 DEF BodiesInv, VideoFits, ImageFits
<1>3. ASSUME NEW o \in Artists, RenderDraft(o) PROVE BodiesInv'
  <2>1. PICK r \in FinalRequests : RenderDraft(o)!2!(r)
    BY <1>3, Zenon DEF RenderDraft
  <2>2. PICK t \in r.draftOf : RenderDraft(o)!2!(r)!(t)
    BY <2>1, Zenon
  <2>. DEFINE f == [r EXCEPT !.model = {videoTask[t].model}]
  <2>3. PICK seen : looked' \in VideoBody(o, f, seen)
    BY <2>2
  <2>4. IsRequest(r) /\ Plain(r) /\ r.draftOf # {}
    BY <2>2, FinalRecords DEF VideoInput, DraftMode, Plain
  <2>5. IsRequest(f) /\ Plain(f) /\ f.draftOf # {}
    BY <2>4 DEF IsRequest, Plain, Reused
  <2>. HIDE DEF f
  <2>6. VideoFits(looked') /\ looked'.kind = "video"
    BY <2>3, <2>5, FinalFits
  <2>7. sent' = sent
    BY <1>3 DEF RenderDraft
  <2>8. VideoFits(sent)' /\ ImageFits(sent)'
    BY <2>7 DEF BodiesInv, VideoFits, ImageFits
  <2>9. VideoFits(looked)'
    BY <2>6 DEF VideoFits
  <2>. QED
    BY <2>6, <2>8, <2>9 DEF BodiesInv
<1>4. CASE SendFinal
  BY <1>4 DEF SendFinal, BodiesInv, VideoFits, ImageFits
<1>5. ASSUME UNCHANGED looked, sent' = sent \/ sent' = Unsent PROVE BodiesInv'
  <2>1. VideoFits(looked)'
    BY <1>5 DEF BodiesInv, VideoFits
  <2>2. VideoFits(sent)' /\ ImageFits(sent)'
    <3>1. CASE sent' = sent
      BY <3>1 DEF BodiesInv, VideoFits, ImageFits
    <3>2. CASE sent' = Unsent
      BY <3>2 DEF VideoFits, ImageFits
    <3>. QED
      BY <1>5, <3>1, <3>2
  <2>. QED
    BY <1>5, <2>1, <2>2 DEF BodiesInv
<1>6. CASE Answered \/ DayPasses
  BY <1>5, <1>6 DEF Answered, DayPasses
<1>7. ASSUME NEW t \in VideoTasks, TaskEnds(t) \/ TaskRemoved(t) PROVE BodiesInv'
  BY <1>5, <1>7 DEF TaskEnds, TaskRemoved
<1>8. CASE UNCHANGED requestVars
  BY <1>5, <1>8 DEF requestVars
<1>. QED
  BY <1>1, <1>2, <1>3, <1>4, <1>6, <1>7, <1>8 DEF RequestNext

\* For every set of models, media, lengths and counts: no combination of what a
\* caller leaves out and what validators and defaults fill in passes
\* check_video_request or check_image_request and is not valid for its model.
THEOREM BodiesFit == RequestSpec => []BodiesFitTheirModel
<1>1. RequestInit => BodiesInv
  BY DEF RequestInit, BodiesInv, VideoFits, ImageFits
<1>2. BodiesInv => BodiesFitTheirModel
  BY DEF BodiesInv, BodiesFitTheirModel, VideoFits, ImageFits
<1>. QED
  BY <1>1, <1>2, NextBodies, PTL DEF RequestSpec
=============================================================================
