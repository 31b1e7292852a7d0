---------------------------- MODULE Understanding ----------------------------
(***************************************************************************)
(* The understanding tools: seed_understand (images, video) and            *)
(* seed_audio_understand (audio, directly or through files uploaded to the *)
(* provider) share one loop that asks a model, checks a JSON answer and    *)
(* may ask again, each attempt under a reservation of its own.  An answer  *)
(* may be written to a file; uploaded files are deleted at the end.        *)
(*                                                                         *)
(* One call is followed.  What other calls do to it, using up the budget   *)
(* of the day, is a choice each time it reserves.                          *)
(***************************************************************************)
EXTENDS Naturals, FiniteSets

CONSTANTS
    Files,          \* bound: files the provider can be given
    MaxJsonRetry,   \* bound on json_retry; at most 2
    MaxSends        \* max_attempts of RetryPolicy

ASSUME UnderstandingAssumption == MaxJsonRetry \in 0..2 /\ MaxSends \in Nat \ {0}

VARIABLES
    query,      \* the call
    file,       \* file[f]: the provider's file f
    known,      \* the files the call uploaded (uploaded_ids)
    erased,     \* the files the call has asked the provider to delete
    billed      \* completions the provider has charged for

askVars == <<query, file, known, erased, billed>>

\* stray: a file known only by the id in an unreadable answer.  Two fields only
\* keep account: broken, the broken connections after which the call asked again,
\* and cut, that a cancellation came while files were being deleted.
NoQuery == [pc |-> "idle", audios |-> 0, delivery |-> "direct", retries |-> 0, json |-> FALSE,
            content |-> "full", save |-> FALSE, attempts |-> 0, sends |-> 0, answers |-> 0,
            answer |-> "none", reply |-> "none", fallback |-> FALSE,
            saved |-> FALSE, inline |-> FALSE, result |-> "none",
            stray |-> {}, broken |-> 0, cut |-> FALSE]

AskInit ==
    /\ query = NoQuery
    /\ file = [f \in Files |-> "none"]
    /\ known = {}
    /\ erased = {}
    /\ billed = 0

To(l) == query' = [query EXCEPT !.pc = l]
Finish(r) == query' = [query EXCEPT !.pc = "clean", !.result = r, !.reply = "none"]
CompletionFails(reply) == query' = [query EXCEPT !.pc = "failed", !.reply = reply]

-----------------------------------------------------------------------------
(* What the tools refuse: too many media parts, an effort or a format the  *)
(* model does not have, a schema that is no schema, Base64 audio of an     *)
(* unknown type, a save_to outside the output roots.                       *)

Formats == [type : {"text", "json_object", "json_schema"}, schema : {"none", "valid", "invalid"}]
FormatOk(f) == IF f.type = "json_schema" THEN f.schema = "valid" ELSE f.schema = "none"

Shapes == [content : {"full", "summary", "none"}, save : BOOLEAN, retries : 0..MaxJsonRetry]

Accept(shape, format, audios, delivery) ==
    query' = [NoQuery EXCEPT
        !.pc = IF delivery = "files_api" /\ audios > 0 THEN "upload" ELSE "reserve",
        !.audios = audios, !.delivery = delivery, !.retries = shape.retries,
        !.json = (format.type # "text"), !.content = shape.content, !.save = shape.save]

SeedUnderstand ==
    /\ query.pc = "idle"
    /\ \E shape \in Shapes, format \in Formats : FormatOk(format) /\ Accept(shape, format, 0, "direct")
    /\ UNCHANGED <<file, known, erased, billed>>

\* audios counts the URL sources; Base64 sources stay inline on every route.
SeedAudioUnderstand ==
    /\ query.pc = "idle"
    /\ \E shape \in Shapes, format \in Formats, n \in 0..Cardinality(Files),
          delivery \in {"auto", "direct", "files_api"} :
          FormatOk(format) /\ Accept(shape, format, n, delivery)
    /\ UNCHANGED <<file, known, erased, billed>>

-----------------------------------------------------------------------------
(* The Files API: each URL is uploaded and waited for in turn.  A failure  *)
(* ends the call, also on the fallback route.                              *)

Waiting == {f \in known : file[f] = "processing"}
AllActive == Cardinality({f \in known : file[f] = "active"}) = query.audios

\* The file of a success whose body is unreadable but for its id is discarded.
UploadUrl ==
    /\ query.pc = "upload" /\ Waiting = {} /\ ~AllActive
    /\ \/ \E f \in {g \in Files : file[g] = "none"} :
             /\ file' = [file EXCEPT ![f] = "processing"]
             /\ \/ known' = known \cup {f} /\ UNCHANGED query
                \/ /\ query' = [query EXCEPT !.pc = "discard", !.stray = {f}]
                   /\ UNCHANGED known
                \/ Finish("error") /\ UNCHANGED known
       \/ Finish("error") /\ UNCHANGED <<file, known>>
    /\ UNCHANGED <<erased, billed>>

\* The provider deletes any of the files it was asked to.
Delete(asked) ==
    /\ erased' = erased \cup asked
    /\ \E done \in SUBSET asked :
          file' = [f \in Files |-> IF f \in done THEN "gone" ELSE file[f]]

Discard ==
    /\ query.pc = "discard"
    /\ Delete(query.stray)
    /\ Finish("error")
    /\ UNCHANGED <<known, billed>>

\* wait_until_active: the file becomes active, or it fails, its time runs out
\* or a poll fails.
Retrieve ==
    /\ query.pc = "upload"
    /\ \E f \in Waiting :
       \/ file' = [file EXCEPT ![f] = "active"] /\ UNCHANGED query
       \/ file' \in {file, [file EXCEPT ![f] = "failed"]} /\ Finish("error")
    /\ UNCHANGED <<known, erased, billed>>

Uploaded ==
    /\ query.pc = "upload" /\ AllActive
    /\ To("reserve")
    /\ UNCHANGED <<file, known, erased, billed>>

-----------------------------------------------------------------------------
(* The completion loop of run_understanding.                               *)

\* BudgetExceededError is no ProviderError: nothing in the loop handles it.
Reserve ==
    /\ query.pc = "reserve"
    /\ \/ query' = [query EXCEPT !.pc = "send", !.attempts = @ + 1, !.sends = 0]
       \/ Finish("budget_exceeded")
    /\ UNCHANGED <<file, known, erased, billed>>

\* Variant: a timeout, retryable and not ambiguous by normalize_timeout, is
\* repeated like the rest (the default of RetryPolicy).
RepeatsTimeouts(reply) == reply \in {"busy", "unsent", "broken", "timeout"}

\* What call_with_retry repeats under RetryPolicy(retry_timeouts=False): an error
\* that is retryable and not ambiguous.  A completion is one of the mutations
\* whose 5xx (failed) is ambiguous; a transport error (broken) is not.
Repeats(reply) == reply \in {"busy", "unsent", "broken"}

Answers == {"good", "bad", "cut", "empty"}
Refusals == {"busy", "unsent", "broken", "failed", "timeout", "garbled", "no_audio", "refused"}

\* Replies that leave open whether the provider served, and charged, the request.
Unclear == {"broken", "failed", "timeout", "garbled"}

\* A 2xx body that is no JSON (garbled) is a ProviderError, one that is no
\* completion is not (malformed).
Send ==
    /\ query.pc = "send"
    /\ \/ \E a \in Answers :
             /\ a \in {"bad", "cut"} => query.json
             /\ billed' = billed + 1
             /\ query' = [query EXCEPT !.pc = "check", !.reply = a]
       \/ \E r \in Refusals :
             /\ r = "no_audio" => query.audios > 0
             /\ billed' \in IF r \in Unclear THEN {billed, billed + 1} ELSE {billed}
             /\ IF Repeats(r) /\ query.sends + 1 < MaxSends
                THEN query' = [query EXCEPT !.sends = @ + 1,
                                            !.broken = IF r = "broken" THEN @ + 1 ELSE @]
                ELSE CompletionFails(r)
       \/ Finish("malformed") /\ billed' = billed + 1
    /\ UNCHANGED <<file, known, erased>>

Fallback(reply) ==
    query.delivery = "auto" /\ query.audios > 0 /\ query.answer = "none" /\ ~query.fallback

\* The first failure of an auto delivery asks whether audio was rejected; a
\* failed repetition keeps the answer before it.
HandleFailure ==
    /\ query.pc = "failed"
    /\ query' = IF Fallback(query.reply) /\ query.reply = "no_audio"
                THEN [query EXCEPT !.pc = "upload", !.fallback = TRUE,
                                   !.attempts = @ - 1, !.reply = "none"]
                ELSE IF query.answer # "none"
                THEN [query EXCEPT !.pc = "save", !.result = "answer",
                                   !.attempts = @ - 1, !.reply = "none"]
                ELSE [query EXCEPT !.pc = "clean", !.result = "error", !.reply = "none"]
    /\ UNCHANGED <<file, known, erased, billed>>

\* The newest answer replaces the one before.  An answer that breaks its
\* format is asked for again, unless it was cut off or the retries are used.
CheckAnswer ==
    LET again == query.reply = "bad" /\ query.attempts <= query.retries IN
    /\ query.pc = "check"
    /\ query' = [query EXCEPT !.answers = @ + 1, !.reply = "none",
                    !.answer = query.reply,
                    !.pc = IF again THEN "reserve" ELSE "save",
                    !.result = IF again THEN @ ELSE "answer"]
    /\ UNCHANGED <<file, known, erased, billed>>

\* What cannot be written to the file is returned in full.
Save ==
    LET writes == query.save /\ query.answer \in Answers \ {"empty"} IN
    /\ query.pc = "save"
    /\ \E ok \in BOOLEAN :
          query' = [query EXCEPT !.pc = "clean", !.saved = writes /\ ok,
                                 !.inline = query.content = "full" \/ (writes /\ ~ok)]
    /\ UNCHANGED <<file, known, erased, billed>>

-----------------------------------------------------------------------------
\* finally: every uploaded file is asked to be deleted; that this may fail is
\* the provider's expiry to clean up.
Clean ==
    /\ query.pc = "clean"
    /\ Delete(known)
    /\ To("ended")
    /\ UNCHANGED <<known, billed>>

\* The call is cancelled at an await outside the deletes; a completion or an
\* upload in flight may be served all the same.
CancelQuery ==
    /\ query.pc \in {"upload", "reserve", "send", "check", "failed", "save", "clean"}
    /\ Finish("cancelled")
    /\ billed' \in IF query.pc = "send" THEN {billed, billed + 1} ELSE {billed}
    /\ \/ UNCHANGED file
       \/ /\ query.pc = "upload" /\ Waiting = {} /\ ~AllActive
          /\ \E f \in {g \in Files : file[g] = "none"} : file' = [file EXCEPT ![f] = "processing"]
    /\ UNCHANGED <<known, erased>>

\* The call is cancelled while it deletes: gather cancels the deletes with it,
\* and any of them may never have been sent.
CancelDeletes ==
    /\ \/ /\ query.pc = "discard"
          /\ query' = [query EXCEPT !.pc = "clean", !.result = "cancelled", !.cut = TRUE]
          /\ \E asked \in SUBSET query.stray : Delete(asked)
       \/ /\ query.pc = "clean" /\ known # {}
          /\ query' = [query EXCEPT !.pc = "ended", !.result = "cancelled", !.cut = TRUE]
          /\ \E asked \in SUBSET known : Delete(asked)
    /\ UNCHANGED <<known, billed>>

AskNext ==
    \/ SeedUnderstand \/ SeedAudioUnderstand
    \/ UploadUrl \/ Discard \/ Retrieve \/ Uploaded
    \/ Reserve \/ Send \/ HandleFailure \/ CheckAnswer \/ Save
    \/ Clean \/ CancelQuery \/ CancelDeletes

AskSpec == AskInit /\ [][AskNext]_askVars

-----------------------------------------------------------------------------
\* Whatever was throttled, failed, timed out, fell back, could not be saved or was
\* cancelled: the provider charged for at most the completions the call was asked
\* to make and one more for each broken connection after which it asked again;
\* every file whose id it was told has been asked to be deleted when it is over,
\* unless a cancellation came while files were being deleted; and an answer counts
\* the completions that answered and is in its file or in the result.
CallAddsUp ==
    /\ billed <= 1 + query.retries + query.broken
    /\ query.pc = "ended" /\ ~query.cut => known \cup query.stray \subseteq erased
    /\ query.pc = "ended" /\ query.result = "answer" =>
           /\ query.attempts = query.answers
           /\ query.save /\ query.answer \in Answers \ {"empty"} => query.saved \/ query.inline

\* "The previous attempt was billed and produced an answer: keep it instead of
\* losing it": a call that got an answer and was not cancelled returns one.
BilledAnswersAreKept ==
    query.pc = "ended" /\ query.answer # "none" => query.result \in {"answer", "cancelled"}
=============================================================================
