---------------------------- MODULE Transcription ----------------------------
(***************************************************************************)
(* speech_to_text: the audio is read, submitted under an id of the call    *)
(* and queried until it is done or the time for polling is over.  The      *)
(* retry policy wraps the whole of it, so an error of a query submits the  *)
(* audio once more.                                                        *)
(***************************************************************************)
EXTENDS Naturals, FiniteSets

CONSTANTS
    MaxRounds,  \* max_attempts of RetryPolicy
    MaxPolls    \* bound: queries within seed_speech_asr_poll_max_seconds

ASSUME SpeechAssumption == MaxRounds \in Nat \ {0} /\ MaxPolls \in Nat

VARIABLES
    asr,        \* asr[i]: the provider's task under id i
    speech,     \* the call
    reserved    \* its reservation: "none", "held", "committed", "released"

speechVars == <<asr, speech, reserved>>

\* An id for every round there could be, were it not made once.
AsrIds == 1..MaxRounds

SpeechInit ==
    /\ asr = [i \in AsrIds |-> "none"]
    /\ speech = [pc |-> "idle", round |-> 0, polls |-> 0, id |-> 0, result |-> "none"]
    /\ reserved = "none"

\* Exactly one source: a public URL that is fetched, Base64, or with stdio a
\* file; each at most 200 MB.
AudioSources == [url : BOOLEAN, data : BOOLEAN, file : BOOLEAN]
OneSource(a) == Cardinality({f \in DOMAIN a : a[f]}) = 1

SpeechToText ==
    /\ speech.pc = "idle"
    /\ \E a \in AudioSources, readable \in BOOLEAN :
          speech' = IF OneSource(a) /\ readable
                    THEN [speech EXCEPT !.pc = "reserve"]
                    ELSE [speech EXCEPT !.pc = "ended", !.result = "refused"]
    /\ UNCHANGED <<asr, reserved>>

ReserveSpeech ==
    /\ speech.pc = "reserve"
    /\ \/ reserved' = "held" /\ speech' = [speech EXCEPT !.pc = "submit", !.round = 1]
       \/ UNCHANGED reserved /\ speech' = [speech EXCEPT !.pc = "ended", !.result = "refused"]
    /\ UNCHANGED asr

\* Variant: transcribe makes an id when it is called.
IdOfRound == speech.round

\* client_request_id is made before the retries begin.
IdOfCall == 1

\* What an error does: it is repeated when it is retryable and leaves no
\* doubt, and otherwise ends the call.  A timeout and a doubt are paid for.
AsrRetryable(e) == e \in {"busy", "unsent", "broken", "query_timeout"}
PaidFor(e) == e \in {"failed", "submit_timeout", "query_timeout", "poll_timeout"}

SpeechError(e) ==
    IF AsrRetryable(e) /\ speech.round < MaxRounds
    THEN /\ speech' = [speech EXCEPT !.pc = "submit", !.round = @ + 1, !.polls = 0]
         /\ UNCHANGED reserved
    ELSE /\ speech' = [speech EXCEPT !.pc = "ended", !.result = "error"]
         /\ reserved' = IF PaidFor(e) THEN "committed" ELSE "released"

\* The provider knows a task by the id it was submitted with.
Accepted(i) == IF asr[i] = "none" THEN [asr EXCEPT ![i] = "running"] ELSE asr

SubmitSpeech ==
    LET i == IdOfCall IN
    /\ speech.pc = "submit"
    /\ \/ /\ asr' = Accepted(i)
          /\ speech' = [speech EXCEPT !.pc = "query", !.id = i]
          /\ UNCHANGED reserved
       \/ \E e \in {"failed", "submit_timeout", "broken"} : asr' \in {asr, Accepted(i)} /\ SpeechError(e)
       \/ \E e \in {"busy", "unsent", "refused"} : SpeechError(e) /\ UNCHANGED asr

QuerySpeech ==
    LET i == speech.id IN
    /\ speech.pc = "query"
    /\ UNCHANGED asr
    /\ \/ /\ asr[i] = "running"
          /\ IF speech.polls < MaxPolls
             THEN speech' = [speech EXCEPT !.polls = @ + 1] /\ UNCHANGED reserved
             ELSE SpeechError("poll_timeout")
       \/ /\ asr[i] = "done"
          /\ speech' = [speech EXCEPT !.pc = "ended", !.result = "text"]
          /\ reserved' = "committed"
       \/ asr[i] = "gone" /\ SpeechError("status")
       \/ \E e \in {"busy", "unsent", "broken", "query_timeout", "failed", "refused", "garbled"} :
             SpeechError(e)

AsrRuns(i) ==
    /\ asr[i] = "running"
    /\ asr' \in {[asr EXCEPT ![i] = "done"], [asr EXCEPT ![i] = "gone"]}
    /\ UNCHANGED <<speech, reserved>>

CancelSpeech ==
    /\ speech.pc \in {"reserve", "submit", "query"}
    /\ speech' = [speech EXCEPT !.pc = "ended", !.result = "cancelled"]
    /\ reserved' = IF reserved = "held" THEN "committed" ELSE reserved
    /\ asr' \in {asr} \cup (IF speech.pc = "submit" THEN {Accepted(IdOfCall)} ELSE {})

SpeechNext ==
    \/ SpeechToText \/ ReserveSpeech \/ SubmitSpeech \/ QuerySpeech \/ CancelSpeech
    \/ \E i \in AsrIds : AsrRuns(i)

SpeechSpec == SpeechInit /\ [][SpeechNext]_speechVars

-----------------------------------------------------------------------------
\* However often a call submits its audio, for one reservation the provider
\* runs one task.
OneTaskPerReservation == Cardinality({i \in AsrIds : asr[i] # "none"}) <= 1
=============================================================================
