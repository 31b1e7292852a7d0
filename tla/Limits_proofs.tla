---------------------------- MODULE Limits_proofs ----------------------------
(***************************************************************************)
(* Proofs about the small parts that bound or account for something, each  *)
(* with an inductive invariant of its own, for every value of the bounds:  *)
(*   Transcription   one transcription to a reservation                    *)
(*   PrincipalSlots  how far a forgotten semaphore lets a principal go     *)
(*   HttpGate        the rate of a client address                          *)
(*   Understanding   charges, uploads and answers of a call                *)
(*   StateMigration  no start loses a row                                  *)
(***************************************************************************)
EXTENDS PrincipalSlots, HttpGate, Transcription, Understanding, StateMigration,
        FiniteSetTheorems, TLAPS

-----------------------------------------------------------------------------
(* Transcription.                                                          *)

AsrStates == {"none", "running", "done", "gone"}
SpeechPlaces == {"idle", "reserve", "submit", "query", "ended"}
SpeechResults == {"none", "refused", "error", "text", "cancelled"}
SpeechRecords == [pc : SpeechPlaces, round : Nat, polls : Nat, id : {0, IdOfCall}, result : SpeechResults]

\* The audio is only ever submitted under the one id of the call.
SpeechInv ==
    /\ asr \in [AsrIds -> AsrStates] /\ speech \in SpeechRecords
    /\ speech.pc = "query" => speech.id = IdOfCall
    /\ \A i \in AsrIds : asr[i] # "none" => i = IdOfCall

\* A submit, repeated or not, is under the one id of the call.
LEMMA SpeechStep == SpeechInv /\ [SpeechNext]_speechVars => SpeechInv'
<1>. SUFFICES ASSUME SpeechInv, [SpeechNext]_speechVars PROVE SpeechInv'
  OBVIOUS
<1>. USE DEF SpeechInv
<1>1. IdOfCall = 1 /\ IdOfCall \in AsrIds
  BY SpeechAssumption DEF IdOfCall, AsrIds
<1>2. \A a : a \in {asr, Accepted(IdOfCall)} =>
         a \in [AsrIds -> AsrStates] /\ \A i \in AsrIds : a[i] # "none" => i = IdOfCall
  BY <1>1 DEF Accepted, AsrStates
<1>. DEFINE Fine(s) == s \in SpeechRecords /\ (s.pc = "query" => s.id = IdOfCall)
            At1(l) == [speech EXCEPT !.pc = l]
            Ended1(r) == [speech EXCEPT !.pc = "ended", !.result = r]
<1>21. \A r \in SpeechResults : Fine(Ended1(r))
  BY DEF SpeechRecords, SpeechPlaces
<1>3. ASSUME NEW e, SpeechError(e) PROVE Fine(speech')
  <2>1. CASE speech' = Ended1("error")
    BY <1>21, <2>1 DEF SpeechResults
  <2>2. CASE speech' = [speech EXCEPT !.pc = "submit", !.round = @ + 1, !.polls = 0]
    <3>1. speech.round \in Nat
      BY DEF SpeechRecords
    <3>2. speech.round + 1 \in Nat
      BY <3>1
    <3>. QED
      BY <2>2, <3>2 DEF SpeechRecords, SpeechPlaces
  <2>. QED
    BY <1>3, <2>1, <2>2 DEF SpeechError
<1>4. CASE SpeechToText \/ ReserveSpeech
  <2>1. UNCHANGED asr
    BY <1>4 DEF SpeechToText, ReserveSpeech
  <2>2. \/ speech' \in {At1("reserve"), Ended1("refused")}
        \/ speech' = [speech EXCEPT !.pc = "submit", !.round = 1]
    BY <1>4 DEF SpeechToText, ReserveSpeech
  <2>3. Fine(speech')
    <3>1. CASE speech' = At1("reserve")
      BY <3>1 DEF SpeechRecords, SpeechPlaces
    <3>2. CASE speech' = Ended1("refused")
      BY <1>21, <3>2 DEF SpeechResults
    <3>3. CASE speech' = [speech EXCEPT !.pc = "submit", !.round = 1]
      BY <3>3 DEF SpeechRecords, SpeechPlaces
    <3>. QED
      BY <2>2, <3>1, <3>2, <3>3
  <2>. QED
    BY <2>1, <2>3
<1>5. CASE SubmitSpeech
  <2>1. asr' \in {asr, Accepted(IdOfCall)}
    BY <1>5 DEF SubmitSpeech
  <2>2. Fine(speech')
    <3>1. CASE speech' = [speech EXCEPT !.pc = "query", !.id = IdOfCall]
      BY <3>1 DEF SpeechRecords, SpeechPlaces
    <3>2. CASE \E e : SpeechError(e)
      BY <1>3, <3>2
    <3>. HIDE DEF Fine
    <3>. QED
      BY <1>5, <3>1, <3>2 DEF SubmitSpeech
  <2>. QED
    BY <1>2, <2>1, <2>2
<1>6. CASE QuerySpeech
  <2>1. UNCHANGED asr
    BY <1>6 DEF QuerySpeech
  <2>2. Fine(speech')
    <3>1. CASE speech' = [speech EXCEPT !.polls = @ + 1]
      <4>1. speech.polls \in Nat
        BY DEF SpeechRecords
      <4>2. speech.polls + 1 \in Nat
        BY <4>1
      <4>. QED
        BY <3>1, <4>2 DEF SpeechRecords
    <3>2. CASE speech' = Ended1("text")
      BY <1>21, <3>2 DEF SpeechResults
    <3>3. CASE \E e : SpeechError(e)
      BY <1>3, <3>3
    <3>4. (\E e : SpeechError(e)) \/ speech' = Ended1("text") \/ speech' = [speech EXCEPT !.polls = @ + 1]
      BY <1>6, Zenon DEF QuerySpeech
    <3>. QED
      BY <3>1, <3>2, <3>3, <3>4
  <2>. QED
    BY <2>1, <2>2
<1>7. CASE CancelSpeech
  <2>1. asr' \in {asr, Accepted(IdOfCall)} /\ speech' = Ended1("cancelled")
    BY <1>7 DEF CancelSpeech
  <2>2. Fine(speech')
    BY <1>21, <2>1 DEF SpeechResults
  <2>. QED
    BY <1>2, <2>1, <2>2
<1>8. ASSUME NEW i \in AsrIds, AsrRuns(i) PROVE SpeechInv'
  BY <1>8 DEF AsrRuns, AsrStates
<1>9. CASE UNCHANGED speechVars
  BY <1>9 DEF speechVars
<1>. QED
  BY <1>4, <1>5, <1>6, <1>7, <1>8, <1>9 DEF SpeechNext

\* Under one reservation speech_to_text starts at most one transcription at the
\* provider, for any number of attempts, polls, lost answers and a cancellation.
THEOREM OneTask == SpeechSpec => []OneTaskPerReservation
<1>1. SpeechInit => SpeechInv
  BY DEF SpeechInit, SpeechInv, AsrStates, SpeechRecords, SpeechPlaces, SpeechResults
<1>2. SpeechInv => OneTaskPerReservation
  <2>. SUFFICES ASSUME SpeechInv PROVE OneTaskPerReservation
    OBVIOUS
  <2>. DEFINE S == {i \in AsrIds : asr[i] # "none"}
  <2>1. S \subseteq {IdOfCall}
    BY DEF SpeechInv
  <2>2. IsFiniteSet({IdOfCall}) /\ Cardinality({IdOfCall}) = 1
    BY FS_Singleton
  <2>3. Cardinality(S) <= 1
    BY <2>1, <2>2, FS_Subset
  <2>. QED
    BY <2>3 DEF OneTaskPerReservation
<1>. QED
  BY <1>1, <1>2, SpeechStep, PTL DEF SpeechSpec

-----------------------------------------------------------------------------
(* PrincipalSlots.                                                         *)

SlotRecords == [pc : {"idle", "provider", "principal", "running"}, by : SlotOwners \cup {"nobody"},
                number : Nat, at : Nat]
Semaphores == [number : Nat, at : Nat]

SlotType ==
    /\ cached \in [SlotOwners -> Semaphores]
    /\ made \in [SlotOwners -> Nat]
    /\ slot \in [SlotCalls -> SlotRecords]
    /\ hour \in Nat

\* A call looked its semaphore up not long ago: it is the one its principal has
\* now, or the one before, which was gone before the call's time was over.
CallOK(k) ==
    /\ k.by \in SlotOwners /\ k.number # 0 /\ k.at <= hour /\ hour - k.at <= LongestCall
    /\ \/ k.number = made[k.by] /\ k.at < cached[k.by].at + Ttl
       \/ k.number = made[k.by] - 1 /\ k.at < cached[k.by].at

Holders(p, n) == {x \in Running(p) : slot[x].number = n}

SlotInv ==
    /\ SlotType
    /\ \A p \in SlotOwners : cached[p].number = made[p] /\ cached[p].at <= hour
    /\ \A x \in SlotCalls : slot[x].pc # "idle" => CallOK(slot[x])
    /\ \A p \in SlotOwners, n \in Int : Cardinality(Holders(p, n)) <= PrincipalLimit

\* The calls that hold a semaphore can be counted.
LEMMA HoldersFinite ==
    ASSUME NEW p, NEW n
    PROVE  IsFiniteSet(Holders(p, n)) /\ Cardinality(Holders(p, n)) \in Nat
<1>1. Holders(p, n) \subseteq SlotCalls
  BY DEF Holders, Running, At
<1>. QED
  BY <1>1, SlotsAssumption, FS_Subset, FS_CardinalityType

\* Nobody calls.
LEMMA SlotInitOK == SlotInit => SlotInv
<1>. SUFFICES ASSUME SlotInit PROVE SlotInv
  OBVIOUS
<1>1. NoSemaphore \in Semaphores /\ NoCall \in SlotRecords /\ NoCall.pc = "idle"
  BY DEF NoSemaphore, NoCall, Semaphores, SlotRecords
<1>2. SlotType
  BY <1>1 DEF SlotInit, SlotType
<1>3. \A p \in SlotOwners, n \in Int : Cardinality(Holders(p, n)) <= PrincipalLimit
  <2>. SUFFICES ASSUME NEW p \in SlotOwners, NEW n \in Int
                PROVE  Cardinality(Holders(p, n)) <= PrincipalLimit
    OBVIOUS
  <2>1. Holders(p, n) = {}
    BY <1>1 DEF SlotInit, Holders, Running, At
  <2>2. Cardinality({}) = 0
    BY FS_EmptySet
  <2>. QED
    BY <2>1, <2>2, SlotsAssumption
<1>4. \A p \in SlotOwners : cached[p].number = made[p] /\ cached[p].at <= hour
  BY DEF SlotInit, NoSemaphore
<1>5. \A x \in SlotCalls : slot[x].pc = "idle"
  BY <1>1 DEF SlotInit
<1>. QED
  BY <1>2, <1>3, <1>4, <1>5 DEF SlotInv

\* A step that makes no call run.
LEMMA FewerHolders ==
    ASSUME SlotInv, slot \in [SlotCalls -> SlotRecords],
           \A x \in SlotCalls : slot'[x].pc = "running" => slot'[x] = slot[x]
    PROVE  (\A p \in SlotOwners, n \in Int : Cardinality(Holders(p, n)) <= PrincipalLimit)'
<1>. SUFFICES ASSUME NEW p \in SlotOwners, NEW n \in Int
              PROVE  (Cardinality(Holders(p, n)) <= PrincipalLimit)'
  OBVIOUS
<1>. DEFINE A == Holders(p, n)
            B == {x \in SlotCalls : slot'[x].pc = "running" /\ slot'[x].by = p /\ slot'[x].number = n}
<1>1. B \subseteq A
  BY DEF Holders, Running, At
<1>2. IsFiniteSet(A) /\ Cardinality(A) \in Nat
  BY HoldersFinite
<1>3. Cardinality(B) \in Nat /\ Cardinality(B) <= Cardinality(A)
  BY <1>1, <1>2, FS_Subset, FS_CardinalityType
<1>4. Cardinality(A) <= PrincipalLimit
  BY DEF SlotInv
<1>5. Cardinality(B) <= PrincipalLimit
  BY <1>2, <1>3, <1>4, SlotsAssumption
<1>6. Holders(p, n)' = B
  BY DEF Holders, Running, At
<1>. QED
  BY <1>5, <1>6

\* A call that looks its semaphore up gets the newest.
LEMMA PrincipalOK ==
    ASSUME SlotInv, NEW x \in SlotCalls, NEW p \in SlotOwners, Principal(x, p) PROVE SlotInv'
<1>1. SlotType /\ slot[x].pc = "idle" /\ hour' = hour /\ hour \in Nat /\ made[p] \in Nat
  BY DEF SlotInv, SlotType, Principal
<1>. DEFINE s == [number |-> made[p] + 1, at |-> hour]
            k == [pc |-> "provider", by |-> p, number |-> cached'[p].number, at |-> hour]
<1>2. slot' = [slot EXCEPT ![x] = k]
  BY DEF Principal
<1>3. \/ UNCHANGED <<cached, made>> /\ hour < cached[p].at + Ttl
      \/ /\ made' = [made EXCEPT ![p] = made[p] + 1] /\ cached' = [cached EXCEPT ![p] = s]
         /\ cached[p].number # 0 => hour >= cached[p].at + Ttl
  BY <1>1, SlotsAssumption DEF Principal, SlotType, Semaphores
<1>4. made[p] + 1 \in Nat
  BY <1>1
<1>5. s \in Semaphores /\ s.number = made[p] + 1 /\ s.at = hour
  BY <1>1, <1>4 DEF Semaphores
<1>. HIDE DEF s
<1>6. /\ cached' \in [SlotOwners -> Semaphores] /\ made' \in [SlotOwners -> Nat]
      /\ \A q \in SlotOwners : q # p => cached'[q] = cached[q] /\ made'[q] = made[q]
      /\ cached'[p].number = made'[p] /\ cached'[p].at <= hour /\ hour < cached'[p].at + Ttl
      /\ \/ cached'[p] = cached[p] /\ made'[p] = made[p]
         \/ /\ cached'[p].at = hour /\ made'[p] = made[p] + 1
            /\ cached[p].number # 0 => hour >= cached[p].at + Ttl
  <2>1. CASE UNCHANGED <<cached, made>> /\ hour < cached[p].at + Ttl
    BY <1>1, <2>1 DEF SlotInv, SlotType
  <2>2. CASE /\ made' = [made EXCEPT ![p] = made[p] + 1] /\ cached' = [cached EXCEPT ![p] = s]
             /\ cached[p].number # 0 => hour >= cached[p].at + Ttl
    <3>1. hour < hour + Ttl
      BY <1>1, SlotsAssumption
    <3>2. cached'[p] = s /\ made'[p] = made[p] + 1
      BY <1>1, <2>2 DEF SlotType
    <3>. QED
      BY <1>1, <1>4, <1>5, <2>2, <3>1, <3>2 DEF SlotType
  <2>. QED
    BY <1>3, <2>1, <2>2
<1>7. /\ k \in SlotRecords /\ k.pc = "provider" /\ k.by = p /\ k.number = made'[p] /\ k.at = hour
  BY <1>1, <1>6 DEF SlotRecords
<1>71. made'[p] # 0
  <2>1. cached[p].number = made[p] /\ (cached[p].number # 0 \/ made'[p] = made[p] + 1)
    BY <1>1, <1>3 DEF SlotInv, SlotType, Principal
  <2>. QED
    BY <1>1, <1>6, <2>1
<1>. HIDE DEF k
<1>8. /\ slot' \in [SlotCalls -> SlotRecords] /\ slot'[x] = k
      /\ \A y \in SlotCalls : y # x => slot'[y] = slot[y]
  BY <1>1, <1>2, <1>7 DEF SlotType
<1>9. ASSUME NEW y \in SlotCalls, slot'[y].pc # "idle" PROVE CallOK(slot[y])'
  <2>1. CASE y = x
    BY <1>1, <1>6, <1>7, <1>71, <1>8, <2>1, SlotsAssumption DEF CallOK
  <2>2. CASE y # x
    <3>1. PICK j : j = slot[y]
      OBVIOUS
    <3>2. CallOK(j) /\ j \in SlotRecords /\ slot'[y] = j
      BY <1>1, <1>8, <1>9, <2>2, <3>1 DEF SlotInv, SlotType
    <3>3. CASE made'[j.by] = made[j.by] /\ cached'[j.by] = cached[j.by]
      BY <1>1, <3>2, <3>3 DEF CallOK
    <3>4. CASE j.by = p /\ cached'[p].at = hour /\ made'[p] = made[p] + 1
      <4>1. /\ j.number # 0 /\ j.at <= hour /\ hour - j.at <= LongestCall /\ j.at \in Nat /\ j.number \in Nat
            /\ \/ j.number = made[p] /\ j.at < cached[p].at + Ttl
               \/ j.number = made[p] - 1 /\ j.at < cached[p].at
        BY <3>2, <3>4 DEF CallOK, SlotRecords
      <4>2. cached[p].at \in Nat /\ cached[p].number = made[p] /\ cached[p].at <= hour
        BY <1>1 DEF SlotInv, SlotType, Semaphores
      <4>3. cached[p].number # 0
        BY <1>1, <4>1, <4>2
      <4>4. hour >= cached[p].at + Ttl
        BY <1>1, <1>6, <3>4, <4>3
      <4>5. j.number = made[p] /\ j.at < hour
        BY <1>1, <4>1, <4>2, <4>4, SlotsAssumption
      <4>. QED
        BY <1>1, <3>2, <3>4, <4>1, <4>5 DEF CallOK
    <3>5. j.by \in SlotOwners
      BY <3>2 DEF CallOK
    <3>. QED
      BY <1>6, <3>3, <3>4, <3>5
  <2>. QED
    BY <2>1, <2>2
<1>10. (\A q \in SlotOwners, n \in Int : Cardinality(Holders(q, n)) <= PrincipalLimit)'
  <2>1. \A y \in SlotCalls : slot'[y].pc = "running" => slot'[y] = slot[y]
    BY <1>7, <1>8
  <2>. QED
    BY <1>1, <2>1, FewerHolders DEF SlotType
<1>11. \A q \in SlotOwners : cached'[q].number = made'[q] /\ cached'[q].at <= hour'
  BY <1>1, <1>6 DEF SlotInv
<1>. QED
  BY <1>1, <1>6, <1>8, <1>9, <1>10, <1>11 DEF SlotInv, SlotType

\* A call that moves on keeps its semaphore.
LEMMA SlotMoves ==
    ASSUME SlotInv, NEW x \in SlotCalls, NEW l \in {"principal", "running"}, slot[x].pc # "idle",
           slot' = [slot EXCEPT ![x].pc = l], UNCHANGED <<cached, made, hour>>
    PROVE  /\ SlotType' /\ \A y \in SlotCalls : slot'[y].pc # "idle" => CallOK(slot[y])'
           /\ \A y \in SlotCalls : y # x => slot'[y] = slot[y]
           /\ slot'[x].pc = l /\ slot'[x].by = slot[x].by /\ slot'[x].number = slot[x].number
<1>. DEFINE k == [slot[x] EXCEPT !.pc = l]
<1>1. slot[x] \in SlotRecords /\ slot \in [SlotCalls -> SlotRecords] /\ CallOK(slot[x])
  BY DEF SlotInv, SlotType
<1>2. /\ k \in SlotRecords /\ k.pc = l /\ k.by = slot[x].by /\ k.number = slot[x].number
      /\ k.at = slot[x].at
  BY <1>1 DEF SlotRecords
<1>3. slot' = [slot EXCEPT ![x] = k]
  OBVIOUS
<1>. HIDE DEF k
<1>4. /\ slot' \in [SlotCalls -> SlotRecords] /\ slot'[x] = k
      /\ \A y \in SlotCalls : y # x => slot'[y] = slot[y]
  BY <1>1, <1>2, <1>3
<1>5. \A y \in SlotCalls : slot'[y].pc # "idle" => CallOK(slot[y])'
  <2>. SUFFICES ASSUME NEW y \in SlotCalls, slot'[y].pc # "idle" PROVE CallOK(slot[y])'
    OBVIOUS
  <2>1. CASE y = x
    BY <1>1, <1>2, <1>4, <2>1 DEF CallOK
  <2>2. CASE y # x
    BY <1>4, <2>2 DEF CallOK, SlotInv
  <2>. QED
    BY <2>1, <2>2
<1>. QED
  BY <1>2, <1>4, <1>5 DEF SlotType, SlotInv

\* Every step keeps the invariant.
LEMMA SlotStep == SlotInv /\ [SlotNext]_slotVars => SlotInv'
<1>. SUFFICES ASSUME SlotInv, [SlotNext]_slotVars PROVE SlotInv'
  OBVIOUS
<1>0. slot \in [SlotCalls -> SlotRecords] /\ hour \in Nat
  BY DEF SlotInv, SlotType
<1>1. ASSUME NEW x \in SlotCalls, NEW p \in SlotOwners, Principal(x, p) PROVE SlotInv'
  BY <1>1, PrincipalOK
<1>2. ASSUME NEW x \in SlotCalls, TakeProvider(x) PROVE SlotInv'
  <2>1. /\ slot' = [slot EXCEPT ![x].pc = "principal"] /\ UNCHANGED <<cached, made, hour>>
        /\ slot[x].pc = "provider"
    BY <1>2 DEF TakeProvider
  <2>2. /\ SlotType' /\ \A y \in SlotCalls : slot'[y].pc # "idle" => CallOK(slot[y])'
        /\ \A y \in SlotCalls : y # x => slot'[y] = slot[y]
        /\ slot'[x].pc = "principal"
    BY <2>1, SlotMoves
  <2>3. (\A p \in SlotOwners, n \in Int : Cardinality(Holders(p, n)) <= PrincipalLimit)'
    BY <1>0, <2>2, FewerHolders
  <2>. QED
    BY <2>1, <2>2, <2>3 DEF SlotInv
<1>3. ASSUME NEW x \in SlotCalls, TakePrincipal(x) PROVE SlotInv'
  <2>1. /\ slot' = [slot EXCEPT ![x].pc = "running"] /\ UNCHANGED <<cached, made, hour>>
        /\ slot[x].pc = "principal"
        /\ Cardinality(Holders(slot[x].by, slot[x].number)) < PrincipalLimit
    BY <1>3 DEF TakePrincipal, PrincipalTaken, Holders
  <2>2. /\ SlotType' /\ \A y \in SlotCalls : slot'[y].pc # "idle" => CallOK(slot[y])'
        /\ \A y \in SlotCalls : y # x => slot'[y] = slot[y]
        /\ slot'[x].pc = "running" /\ slot'[x].by = slot[x].by /\ slot'[x].number = slot[x].number
    BY <2>1, SlotMoves
  <2>3. ASSUME NEW p \in SlotOwners, NEW n \in Int
        PROVE  (Cardinality(Holders(p, n)) <= PrincipalLimit)'
    <3>. DEFINE A == Holders(p, n)
                B == {y \in SlotCalls : slot'[y].pc = "running" /\ slot'[y].by = p /\ slot'[y].number = n}
    <3>1. Holders(p, n)' = B
      BY DEF Holders, Running, At
    <3>2. IsFiniteSet(A) /\ Cardinality(A) \in Nat /\ Cardinality(A) <= PrincipalLimit
      BY HoldersFinite DEF SlotInv
    <3>3. CASE slot[x].by = p /\ slot[x].number = n
      <4>1. B = A \cup {x} /\ x \notin A
        BY <2>1, <2>2, <3>3 DEF Holders, Running, At
      <4>2. Cardinality(A \cup {x}) = Cardinality(A) + 1
        BY <3>2, <4>1, FS_AddElement, Zenon
      <4>3. Cardinality(A) < PrincipalLimit
        BY <2>1, <3>3
      <4>4. Cardinality(B) <= PrincipalLimit
        BY <3>2, <4>1, <4>2, <4>3, SlotsAssumption
      <4>. QED
        BY <3>1, <4>4
    <3>4. CASE ~(slot[x].by = p /\ slot[x].number = n)
      <4>1. B = A
        BY <2>1, <2>2, <3>4 DEF Holders, Running, At
      <4>. QED
        BY <3>1, <3>2, <4>1
    <3>. QED
      BY <3>3, <3>4
  <2>. QED
    BY <2>1, <2>2, <2>3 DEF SlotInv
<1>4. ASSUME NEW x \in SlotCalls, LeaveSlots(x) PROVE SlotInv'
  <2>1. slot' = [slot EXCEPT ![x] = NoCall] /\ UNCHANGED <<cached, made, hour>>
    BY <1>4 DEF LeaveSlots
  <2>2. NoCall \in SlotRecords /\ NoCall.pc = "idle"
    BY DEF NoCall, SlotRecords
  <2>3. /\ slot' \in [SlotCalls -> SlotRecords]
        /\ \A y \in SlotCalls : slot'[y].pc # "idle" => slot'[y] = slot[y]
    BY <1>0, <2>1, <2>2
  <2>4. (\A p \in SlotOwners, n \in Int : Cardinality(Holders(p, n)) <= PrincipalLimit)'
    BY <1>0, <2>3, FewerHolders
  <2>5. \A y \in SlotCalls : slot'[y].pc # "idle" => CallOK(slot[y])'
    BY <2>1, <2>3 DEF CallOK, SlotInv
  <2>. QED
    BY <2>1, <2>3, <2>4, <2>5 DEF SlotInv, SlotType
<1>5. CASE NextHour
  <2>1. /\ UNCHANGED <<cached, made, slot>> /\ hour' = hour + 1 /\ hour' \in Nat
        /\ \A x \in SlotCalls : slot[x].pc # "idle" => hour - slot[x].at < LongestCall
    BY <1>0, <1>5 DEF NextHour
  <2>2. (\A p \in SlotOwners, n \in Int : Cardinality(Holders(p, n)) <= PrincipalLimit)'
    BY <1>0, <2>1, FewerHolders
  <2>3. ASSUME NEW x \in SlotCalls, slot[x].pc # "idle" PROVE CallOK(slot[x])'
    <3>1. CallOK(slot[x]) /\ slot[x].at \in Nat
      BY <1>0, <2>3 DEF SlotInv, SlotRecords
    <3>2. slot[x].at <= hour' /\ hour' - slot[x].at <= LongestCall
      BY <1>0, <2>1, <2>3, <3>1, SlotsAssumption DEF CallOK
    <3>. QED
      BY <2>1, <3>1, <3>2 DEF CallOK
  <2>4. \A p \in SlotOwners : cached[p].number = made[p] /\ cached[p].at <= hour'
    <3>. SUFFICES ASSUME NEW p \in SlotOwners PROVE cached[p].number = made[p] /\ cached[p].at <= hour'
      OBVIOUS
    <3>1. cached[p].at \in Nat /\ cached[p].at <= hour /\ cached[p].number = made[p]
      BY DEF SlotInv, SlotType, Semaphores
    <3>. QED
      BY <1>0, <2>1, <3>1
  <2>. QED
    BY <2>1, <2>2, <2>3, <2>4 DEF SlotInv, SlotType
<1>6. CASE UNCHANGED slotVars
  BY <1>6 DEF slotVars, SlotInv, SlotType, CallOK, Holders, Running, At
<1>. QED
  BY <1>1, <1>2, <1>3, <1>4, <1>5, <1>6 DEF SlotNext

\* For any calls, principals and limits: a principal has at most twice
\* principal_limit calls running at the provider, however its semaphore leaves the
\* TTL cache, as long as no call outlives the TTL (SlotsAssumption).
THEOREM TwiceAtMost == SlotSpec => []AtMostTwicePrincipalLimit
<1>1. SlotInv => AtMostTwicePrincipalLimit
  <2>. SUFFICES ASSUME SlotInv, NEW p \in SlotOwners PROVE Cardinality(Running(p)) <= 2 * PrincipalLimit
    BY DEF AtMostTwicePrincipalLimit
  <2>. DEFINE A == Holders(p, made[p])
              B == Holders(p, made[p] - 1)
  <2>0. made[p] \in Nat /\ made[p] - 1 \in Int
    BY DEF SlotInv, SlotType
  <2>1. Running(p) = A \cup B
    BY DEF Running, At, Holders, SlotInv, CallOK
  <2>2. IsFiniteSet(A) /\ IsFiniteSet(B) /\ Cardinality(A) \in Nat /\ Cardinality(B) \in Nat
    BY HoldersFinite
  <2>3. Cardinality(A) <= PrincipalLimit /\ Cardinality(B) <= PrincipalLimit
    BY <2>0 DEF SlotInv
  <2>4. IsFiniteSet(A \cap B) /\ Cardinality(A \cap B) \in Nat
    BY <2>2, FS_Intersection, FS_CardinalityType
  <2>5. Cardinality(A \cup B) = Cardinality(A) + Cardinality(B) - Cardinality(A \cap B)
    BY <2>2, FS_Union
  <2>. QED
    BY <2>1, <2>2, <2>3, <2>4, <2>5, SlotsAssumption
<1>. QED
  BY <1>1, SlotInitOK, SlotStep, PTL DEF SlotSpec

-----------------------------------------------------------------------------
(* HttpGate.                                                               *)

Buckets == [units : 0..Capacity, at : Nat] \cup {NoBucket}
Ticks == 0..LastTick

\* What client k could take now; a forgotten bucket is a full one.
Available(k) == IF bucket[k] = NoBucket THEN Capacity ELSE Least(Capacity, bucket[k].units + Elapsed(k))

GateType ==
    /\ bucket \in [Clients -> Buckets]
    /\ admitted \in [Clients -> [Ticks -> Nat]]
    /\ tick \in Ticks
    /\ \A k \in Clients : bucket[k] # NoBucket => bucket[k].at <= tick

\* Until now, what a client took and could still take is bounded by the rate.
CreditInv ==
    \A k \in Clients, a \in 0..tick :
        Whole * Requests(k, a, tick) + Available(k) <= Capacity + (tick - a)

GateInv == GateType /\ CreditInv /\ RateHolds

\* Nobody has asked.
LEMMA GateInitOK == GateInit => GateInv
<1>. SUFFICES ASSUME GateInit PROVE GateInv
  OBVIOUS
<1>1. GateType
  BY GateAssumption DEF GateInit, GateType, Buckets, Ticks
<1>2. \A k \in Clients, a \in 0..tick : Requests(k, a, tick) = 0 /\ a = 0
  BY GateAssumption DEF GateInit, Requests, Before
<1>3. \A k \in Clients : Available(k) = Capacity
  BY DEF GateInit, Available
<1>4. tick = 0 /\ Whole * 0 = 0
  BY GateAssumption DEF GateInit
<1>5. CreditInv
  BY <1>2, <1>3, <1>4, GateAssumption DEF CreditInv
<1>6. RateHolds
  <2>. SUFFICES ASSUME NEW k \in Clients, NEW a \in 0..tick, NEW b \in 0..tick
                PROVE  Whole * Requests(k, a, b) <= Capacity + (b - a)
    BY DEF RateHolds
  <2>1. b = tick
    BY <1>4
  <2>. QED
    BY <1>2, <1>4, <2>1, GateAssumption
<1>. QED
  BY <1>1, <1>5, <1>6 DEF GateInv

\* What a client could take is between nothing and the burst.
LEMMA AvailableType ==
    ASSUME GateType, NEW k \in Clients
    PROVE  /\ Available(k) \in 0..Capacity
           /\ bucket[k] # NoBucket => /\ bucket[k].units \in 0..Capacity /\ bucket[k].at \in Nat
                                      /\ Elapsed(k) \in Nat
BY GateAssumption DEF GateType, Buckets, Available, Least, Elapsed, Ticks

\* What the middleware counts for a client is what it could take.
LEMMA UnitsAreAvailable ==
    ASSUME GateType, NEW k \in Clients
    PROVE  /\ Units(k) = Available(k)
           /\ k \in Evicted => Available(k) = Capacity
<1>1. k \in Evicted => k \in Kept /\ RefilledAgain(k)
  BY DEF Evicted
<1>2. k \in Kept <=> bucket[k] # NoBucket
  BY DEF Kept
<1>3. k \in Kept /\ RefilledAgain(k) => Available(k) = Capacity
  <2>. SUFFICES ASSUME bucket[k] # NoBucket, RefilledAgain(k) PROVE Available(k) = Capacity
    BY <1>2
  <2>1. /\ bucket[k].units \in 0..Capacity /\ Elapsed(k) \in Nat
    BY AvailableType
  <2>. QED
    BY <2>1, GateAssumption DEF Available, Least, RefilledAgain
<1>. QED
  BY <1>1, <1>2, <1>3 DEF Units, Available

\* A request of client k: it takes what it pays for, nobody else gains.
LEMMA ChargeOK ==
    ASSUME GateInv, NEW k \in Clients, NEW u \in 0..Capacity, Charge(k, u), tick' = tick
    PROVE  /\ bucket' \in [Clients -> Buckets]
           /\ \A j \in Clients : bucket'[j] # NoBucket => bucket'[j].at <= tick
           /\ Available(k)' = u
           /\ \A j \in Clients : j # k => Available(j)' = Available(j)
<1>. DEFINE b == [units |-> u, at |-> tick]
<1>1. GateType /\ tick \in Nat
  BY DEF GateInv, GateType, Ticks
<1>2. b \in Buckets /\ b # NoBucket /\ b.units = u /\ b.at = tick
  BY <1>1, GateAssumption DEF Buckets, NoBucket
<1>3. bucket' = [j \in Clients |-> IF j = k THEN b ELSE IF j \in Evicted THEN NoBucket ELSE bucket[j]]
  BY DEF Charge
<1>. HIDE DEF b
<1>4. bucket'[k] = b /\ \A j \in Clients : j # k =>
          bucket'[j] = bucket[j] \/ (j \in Evicted /\ bucket'[j] = NoBucket)
  BY <1>3
<1>5. bucket' \in [Clients -> Buckets]
  BY <1>1, <1>2, <1>3 DEF GateType, Buckets
<1>6. \A j \in Clients : bucket'[j] # NoBucket => bucket'[j].at <= tick
  BY <1>1, <1>2, <1>4 DEF GateType
<1>7. Available(k)' = u
  BY <1>1, <1>2, <1>4, GateAssumption DEF Available, Least, Elapsed
<1>8. ASSUME NEW j \in Clients, j # k PROVE Available(j)' = Available(j)
  <2>1. CASE bucket'[j] = bucket[j]
    BY <2>1 DEF Available, Elapsed
  <2>2. CASE j \in Evicted /\ bucket'[j] = NoBucket
    BY <1>1, <2>2, UnitsAreAvailable DEF Available
  <2>. QED
    BY <1>4, <1>8, <2>1, <2>2
<1>. QED
  BY <1>5, <1>6, <1>7, <1>8

\* Requests are counted by natural numbers.
LEMMA CountType ==
    ASSUME GateType, NEW k \in Clients, NEW a \in 0..tick, NEW b \in 0..tick
    PROVE  admitted[k][b] \in Nat /\ Before(k, a) \in Nat /\ Requests(k, a, b) \in Int
<1>1. a \in Ticks /\ b \in Ticks /\ (a # 0 => a - 1 \in Ticks)
  BY GateAssumption DEF GateType, Ticks
<1>. QED
  BY <1>1 DEF GateType, Before, Requests

\* A request takes from what was available.
LEMMA AdmitOK == ASSUME GateInv, NEW k \in Clients, Admit(k) PROVE GateInv'
<1>1. GateType /\ tick \in Ticks /\ tick \in Nat /\ tick' = tick /\ admitted \in [Clients -> [Ticks -> Nat]]
  BY DEF GateInv, GateType, Admit, Ticks
<1>2. Units(k) = Available(k) /\ Available(k) \in 0..Capacity /\ Units(k) >= Whole
  BY <1>1, UnitsAreAvailable, AvailableType DEF Admit
<1>3. Charge(k, Units(k) - Whole) /\ Units(k) - Whole \in 0..Capacity
  BY <1>2, GateAssumption DEF Admit
<1>4. /\ bucket' \in [Clients -> Buckets]
      /\ \A j \in Clients : bucket'[j] # NoBucket => bucket'[j].at <= tick
      /\ Available(k)' = Available(k) - Whole
      /\ \A j \in Clients : j # k => Available(j)' = Available(j)
  BY <1>1, <1>2, <1>3, ChargeOK
<1>5. admitted[k][tick] \in Nat /\ admitted[k][tick] + 1 \in Nat
  BY <1>1
<1>6. /\ admitted' \in [Clients -> [Ticks -> Nat]]
      /\ admitted'[k][tick] = admitted[k][tick] + 1
      /\ \A j \in Clients, t \in Ticks : j # k \/ t # tick => admitted'[j][t] = admitted[j][t]
  <2>1. admitted' = [admitted EXCEPT ![k] = [admitted[k] EXCEPT ![tick] = admitted[k][tick] + 1]]
    BY DEF Admit
  <2>2. [admitted[k] EXCEPT ![tick] = admitted[k][tick] + 1] \in [Ticks -> Nat]
    BY <1>1, <1>5
  <2>. QED
    BY <1>1, <2>1, <2>2
<1>7. GateType'
  BY <1>1, <1>4, <1>6 DEF GateType
<1>8. \A j \in Clients, a \in 0..tick : Before(j, a)' = Before(j, a)
  BY <1>1, <1>6, GateAssumption DEF Before, Ticks
<1>9. ASSUME NEW j \in Clients, NEW a \in 0..tick
      PROVE  (Whole * Requests(j, a, tick) + Available(j) <= Capacity + (tick - a))'
  <2>1. Whole * Requests(j, a, tick) + Available(j) <= Capacity + (tick - a)
    BY <1>9 DEF GateInv, CreditInv
  <2>2. /\ admitted[j][tick] \in Nat /\ Before(j, a) \in Nat /\ Available(j) \in Nat /\ tick \in 0..tick
    BY <1>1, CountType, AvailableType
  <2>3. CASE j = k
    <3>1. Requests(j, a, tick)' = Requests(j, a, tick) + 1
      BY <1>1, <1>6, <1>8, <2>2, <2>3 DEF Requests
    <3>2. Whole * (Requests(j, a, tick) + 1) = Whole * Requests(j, a, tick) + Whole
      BY <2>2, GateAssumption DEF Requests
    <3>3. PICK w \in Int : w = Whole * Requests(j, a, tick)
      BY <2>2, GateAssumption DEF Requests
    <3>4. w + Whole + (Available(j) - Whole) <= Capacity + (tick - a)
      BY <1>1, <2>1, <2>2, <3>3, GateAssumption
    <3>. QED
      BY <1>1, <1>4, <2>3, <3>1, <3>2, <3>3, <3>4
  <2>4. CASE j # k
    <3>1. Requests(j, a, tick)' = Requests(j, a, tick)
      BY <1>1, <1>6, <1>8, <2>4 DEF Requests
    <3>. QED
      BY <1>1, <1>4, <2>1, <2>4, <3>1
  <2>. QED
    BY <2>3, <2>4
<1>10. CreditInv'
  BY <1>1, <1>9 DEF CreditInv
<1>11. RateHolds'
  <2>. SUFFICES ASSUME NEW j \in Clients, NEW a \in 0..tick, NEW b \in 0..tick, a <= b
                PROVE  (Whole * Requests(j, a, b) <= Capacity + (b - a))'
    BY <1>1 DEF RateHolds
  <2>1. CASE b = tick
    <3>1. Available(j)' \in 0..Capacity
      <4>1. Available(j) \in 0..Capacity /\ Available(k) - Whole \in 0..Capacity
        BY <1>1, <1>2, <1>3, AvailableType
      <4>. QED
        BY <1>4, <4>1
    <3>2. Before(j, a)' \in Nat /\ admitted'[j][tick] \in Nat
      BY <1>1, <1>6, <1>8, CountType
    <3>3. PICK w \in Int : w = Whole * Requests(j, a, tick)'
      BY <1>1, <3>2, GateAssumption DEF Requests
    <3>4. w + Available(j)' <= Capacity + (tick - a)
      BY <1>1, <1>9, <3>3
    <3>5. w <= Capacity + (tick - a)
      BY <1>1, <3>1, <3>3, <3>4, GateAssumption
    <3>. QED
      BY <1>1, <2>1, <3>3, <3>5
  <2>2. CASE b # tick
    <3>1. b \in Ticks
      BY <1>1, GateAssumption DEF Ticks
    <3>2. Requests(j, a, b)' = Requests(j, a, b)
      BY <1>6, <1>8, <2>2, <3>1 DEF Requests
    <3>. QED
      BY <1>1, <3>2 DEF GateInv, RateHolds
  <2>. QED
    BY <2>1, <2>2
<1>. QED
  BY <1>7, <1>10, <1>11 DEF GateInv

\* A refusal takes nothing.
LEMMA RejectOK == ASSUME GateInv, NEW k \in Clients, Reject(k) PROVE GateInv'
<1>1. GateType /\ UNCHANGED <<admitted, tick>>
  BY DEF GateInv, Reject
<1>2. Units(k) = Available(k) /\ Available(k) \in 0..Capacity /\ Charge(k, Units(k))
  BY <1>1, UnitsAreAvailable, AvailableType DEF Reject
<1>3. /\ bucket' \in [Clients -> Buckets]
      /\ \A j \in Clients : bucket'[j] # NoBucket => bucket'[j].at <= tick
      /\ \A j \in Clients : Available(j)' = Available(j)
  BY <1>1, <1>2, ChargeOK
<1>4. GateType'
  BY <1>1, <1>3 DEF GateType
<1>5. CreditInv'
  BY <1>1, <1>3 DEF GateInv, CreditInv, Requests, Before
<1>6. RateHolds'
  BY <1>1 DEF GateInv, RateHolds, Requests, Before
<1>. QED
  BY <1>4, <1>5, <1>6 DEF GateInv

\* A tick gives every client a unit more, and the rate a unit to the span.
LEMMA TickOK == ASSUME GateInv, NextTick PROVE GateInv'
<1>1. /\ GateType /\ tick \in Ticks /\ tick \in Nat /\ tick' = tick + 1 /\ UNCHANGED bucket
      /\ tick + 1 \in Ticks /\ admitted \in [Clients -> [Ticks -> Nat]]
      /\ admitted' = [k \in Clients |-> [admitted[k] EXCEPT ![tick + 1] = admitted[k][tick]]]
  BY GateAssumption DEF GateInv, GateType, NextTick, Ticks
<1>2. /\ admitted' \in [Clients -> [Ticks -> Nat]]
      /\ \A j \in Clients : /\ admitted'[j][tick + 1] = admitted[j][tick]
                            /\ \A t \in Ticks : t # tick + 1 => admitted'[j][t] = admitted[j][t]
  <2>1. \A j \in Clients : /\ [admitted[j] EXCEPT ![tick + 1] = admitted[j][tick]] \in [Ticks -> Nat]
                           /\ [admitted[j] EXCEPT ![tick + 1] = admitted[j][tick]][tick + 1] = admitted[j][tick]
                           /\ \A t \in Ticks : t # tick + 1 =>
                                [admitted[j] EXCEPT ![tick + 1] = admitted[j][tick]][t] = admitted[j][t]
    BY <1>1
  <2>. QED
    BY <1>1, <2>1
<1>3. GateType'
  <2>1. \A k \in Clients : bucket[k] # NoBucket => bucket[k].at <= tick + 1
    <3>. SUFFICES ASSUME NEW k \in Clients, bucket[k] # NoBucket PROVE bucket[k].at <= tick + 1
      OBVIOUS
    <3>1. bucket[k].at \in Nat /\ bucket[k].at <= tick
      BY <1>1, AvailableType DEF GateType
    <3>. QED
      BY <1>1, <3>1
  <2>. QED
    BY <1>1, <1>2, <2>1 DEF GateType
<1>4. \A j \in Clients, a \in 0..tick : Before(j, a)' = Before(j, a)
  BY <1>1, <1>2, GateAssumption DEF Before, Ticks
<1>5. \A j \in Clients : /\ Available(j)' \in 0..Capacity
                         /\ Available(j)' <= Available(j) + 1
  <2>. SUFFICES ASSUME NEW j \in Clients
                PROVE  Available(j)' \in 0..Capacity /\ Available(j)' <= Available(j) + 1
    OBVIOUS
  <2>1. CASE bucket[j] = NoBucket
    BY <1>1, <2>1, GateAssumption DEF Available
  <2>2. CASE bucket[j] # NoBucket
    <3>1. bucket[j].units \in 0..Capacity /\ bucket[j].at \in Nat /\ tick - bucket[j].at \in Nat
      BY <1>1, <2>2, AvailableType DEF Elapsed
    <3>2. PICK u \in Nat, d \in Nat : u = bucket[j].units /\ d = tick - bucket[j].at
      BY <3>1
    <3>3. Available(j) = IF Capacity <= u + d THEN Capacity ELSE u + d
      BY <2>2, <3>2 DEF Available, Elapsed, Least
    <3>4. Available(j)' = IF Capacity <= u + (d + 1) THEN Capacity ELSE u + (d + 1)
      <4>0. tick' = tick + 1 /\ bucket' = bucket /\ tick \in Nat
        BY <1>1
      <4>1. tick' - bucket'[j].at = d + 1
        BY <3>1, <3>2, <4>0
      <4>2. bucket'[j] # NoBucket /\ bucket'[j].units = u
        BY <2>2, <3>2, <4>0
      <4>. QED
        BY <4>1, <4>2 DEF Available, Elapsed, Least
    <3>. QED
      BY <3>1, <3>2, <3>3, <3>4, GateAssumption
  <2>. QED
    BY <2>1, <2>2
<1>6. CreditInv'
  <2>. SUFFICES ASSUME NEW j \in Clients, NEW a \in 0..(tick + 1)
                PROVE  Whole * Requests(j, a, tick)' + Available(j)' <= Capacity + (tick + 1 - a)
    BY <1>1 DEF CreditInv, Requests
  <2>1. CASE a = tick + 1
    <3>1. Requests(j, a, tick)' = 0
      <4>0. tick # tick + 1 /\ tick + 1 # 0 /\ (tick + 1) - 1 = tick /\ tick \in Ticks
        BY <1>1
      <4>1. Before(j, a)' = admitted[j][tick] /\ admitted[j][tick] \in Nat
        BY <1>1, <1>2, <2>1, <4>0 DEF Before
      <4>. QED
        BY <1>1, <1>2, <4>1 DEF Requests
    <3>. QED
      BY <1>1, <1>5, <2>1, <3>1, GateAssumption
  <2>2. CASE a # tick + 1
    <3>1. a \in 0..tick /\ tick \in 0..tick
      BY <1>1, <2>2
    <3>2. Requests(j, a, tick)' = Requests(j, a, tick)
      BY <1>1, <1>2, <1>4, <3>1 DEF Requests
    <3>3. PICK w \in Int : w = Whole * Requests(j, a, tick)
      BY <1>1, <3>1, CountType, GateAssumption
    <3>4. w + Available(j) <= Capacity + (tick - a) /\ Available(j) \in 0..Capacity
      BY <1>1, <3>1, <3>3, AvailableType DEF GateInv, CreditInv
    <3>5. w + Available(j)' <= Capacity + (tick + 1 - a)
      BY <1>1, <1>5, <3>3, <3>4, GateAssumption
    <3>. QED
      BY <3>2, <3>3, <3>5
  <2>. QED
    BY <2>1, <2>2
<1>7. RateHolds'
  <2>. SUFFICES ASSUME NEW j \in Clients, NEW a \in 0..(tick + 1), NEW b \in 0..(tick + 1), a <= b
                PROVE  Whole * Requests(j, a, b)' <= Capacity + (b - a)
    BY <1>1 DEF RateHolds
  <2>1. CASE b = tick + 1
    <3>1. a \in 0..tick' /\ b \in 0..tick' /\ GateType'
      BY <1>1, <1>3
    <3>2. Before(j, a)' \in Nat /\ admitted'[j][b] \in Nat
      BY <1>1, <1>2, <3>1, GateAssumption DEF Before, Ticks
    <3>3. PICK w \in Int : w = Whole * Requests(j, a, b)'
      BY <3>2, GateAssumption DEF Requests
    <3>4. w + Available(j)' <= Capacity + (b - a)
      BY <1>1, <1>6, <2>1, <3>1, <3>3 DEF CreditInv, Requests
    <3>. QED
      BY <1>1, <1>5, <3>3, <3>4, GateAssumption
  <2>2. CASE b # tick + 1
    <3>1. a \in 0..tick /\ b \in 0..tick /\ b \in Ticks
      BY <1>1, <2>2, GateAssumption DEF Ticks
    <3>2. Requests(j, a, b)' = Requests(j, a, b)
      BY <1>2, <1>4, <2>2, <3>1 DEF Requests
    <3>. QED
      BY <3>1, <3>2 DEF GateInv, RateHolds
  <2>. QED
    BY <2>1, <2>2
<1>. QED
  BY <1>3, <1>6, <1>7 DEF GateInv

\* Every step keeps the invariant.
LEMMA GateStep == GateInv /\ [GateNext]_gateVars => GateInv'
<1>. SUFFICES ASSUME GateInv, [GateNext]_gateVars PROVE GateInv'
  OBVIOUS
<1>1. CASE GateNext
  BY <1>1, AdmitOK, RejectOK, TickOK DEF GateNext
<1>2. CASE UNCHANGED gateVars
  BY <1>2 DEF gateVars, GateInv, GateType, CreditInv, RateHolds, Requests, Before, Available, Elapsed
<1>. QED
  BY <1>1, <1>2

\* For any clients, bursts and numbers of buckets: in no span of time does
\* RateLimitMiddleware let a client have more than the burst and what the rate
\* gives, whatever buckets are evicted.
THEOREM RateIsKept == GateSpec => []RateHolds
<1>1. GateInv => RateHolds
  BY DEF GateInv
<1>. QED
  BY <1>1, GateInitOK, GateStep, PTL DEF GateSpec

-----------------------------------------------------------------------------
(* Understanding.                                                          *)

Queries == [pc : {"idle", "upload", "discard", "reserve", "send", "failed", "check", "save", "clean", "ended"},
            audios : Nat, delivery : {"auto", "direct", "files_api"}, retries : Nat, json : BOOLEAN,
            content : {"full", "summary", "none"}, save : BOOLEAN, attempts : Nat, sends : Nat,
            answers : Nat, answer : Answers \cup {"none"}, reply : Answers \cup Refusals \cup {"none"},
            fallback : BOOLEAN, saved : BOOLEAN, inline : BOOLEAN,
            result : {"none", "answer", "error", "budget_exceeded", "malformed", "cancelled"},
            stray : SUBSET Files, broken : Nat, cut : BOOLEAN]

\* What was charged, answered and attempted, wherever the call stands: more than
\* one charge to an attempt is owed to a broken connection.
Counted(q, b) ==
    /\ q.pc = "idle" => b = 0
    /\ q.pc \in {"upload", "reserve"} =>
          b <= q.attempts + q.broken /\ q.attempts <= q.retries /\ q.answers = q.attempts
    /\ q.pc = "send" =>
          /\ b + 1 <= q.attempts + q.broken
          /\ q.attempts <= q.retries + 1 /\ q.answers + 1 = q.attempts
    /\ q.pc \in {"check", "failed"} =>
          /\ b <= q.attempts + q.broken
          /\ q.attempts <= q.retries + 1 /\ q.answers + 1 = q.attempts
    /\ q.pc = "check" => q.reply \in Answers
    /\ q.pc = "failed" /\ q.reply = "no_audio" => b + 1 <= q.attempts + q.broken
    /\ q.pc = "save" => q.attempts = q.answers
    /\ q.pc \in {"discard", "save", "clean", "ended"} => b <= q.retries + 1 + q.broken

\* An answer is in its file or in the result once it is saved.
Delivered(q) ==
    /\ q.pc = "save" <=> q.result = "answer" /\ q.pc \notin {"clean", "ended"}
    /\ q.pc \in {"clean", "ended"} /\ q.result = "answer" =>
          /\ q.attempts = q.answers
          /\ q.save /\ q.answer \in Answers \ {"empty"} => q.saved \/ q.inline

\* What the call was told of it has asked to be deleted, unless it was cut off: a
\* stray file at once, an uploaded one at the end.
Asked(q, k, e) ==
    /\ q.pc # "discard" /\ ~q.cut => q.stray \subseteq e
    /\ q.pc = "ended" /\ ~q.cut => k \subseteq e

\* The accounts a step leaves as they are.
SameAccounts(q) ==
    q.retries = query.retries /\ q.broken = query.broken /\ q.stray = query.stray /\ q.cut = query.cut

AskInv ==
    /\ query \in Queries /\ billed \in Nat
    /\ Counted(query, billed) /\ Delivered(query) /\ Asked(query, known, erased)

\* The call ends without an answer.
LEMMA FinishOK ==
    ASSUME AskInv, NEW r \in {"error", "budget_exceeded", "malformed", "cancelled"}, Finish(r),
           query.pc \in {"upload", "discard", "reserve", "send", "check", "failed", "save", "clean"},
           billed' \in {billed, billed + 1}, billed' = billed \/ query.pc = "send",
           erased \subseteq erased', query.pc = "discard" => query.stray \subseteq erased'
    PROVE  AskInv'
<1>. DEFINE q == [query EXCEPT !.pc = "clean", !.result = r, !.reply = "none"]
<1>1. q \in Queries /\ q.pc = "clean" /\ q.result = r /\ SameAccounts(q)
  BY DEF AskInv, Queries, SameAccounts
<1>2. /\ query.retries \in Nat /\ query.attempts \in Nat /\ query.broken \in Nat
      /\ billed \in Nat /\ billed' \in Nat
  BY DEF AskInv, Queries
<1>3. billed' <= query.retries + 1 + query.broken
  BY <1>2 DEF AskInv, Counted
<1>4. query' = q
  BY DEF Finish
<1>. HIDE DEF q
<1>5. Counted(q, billed') /\ Delivered(q)
  BY <1>1, <1>3 DEF Counted, Delivered, SameAccounts
<1>6. Asked(q, known', erased')
  BY <1>1 DEF AskInv, Asked, SameAccounts
<1>. QED
  BY <1>1, <1>2, <1>4, <1>5, <1>6 DEF AskInv

\* Every step of the loop keeps the account.
LEMMA AskStep == AskInv /\ [AskNext]_askVars => AskInv'
<1>. SUFFICES ASSUME AskInv, [AskNext]_askVars PROVE AskInv'
  OBVIOUS
<1>1. /\ query \in Queries /\ billed \in Nat /\ Counted(query, billed) /\ Delivered(query)
      /\ query.attempts \in Nat /\ query.answers \in Nat /\ query.sends \in Nat
      /\ query.retries \in Nat /\ query.broken \in Nat /\ query.stray \in SUBSET Files
  BY DEF AskInv, Queries
<1>2. ASSUME NEW q \in Queries, query' = q, NEW b \in Nat, billed' = b, Counted(q, b), Delivered(q),
             q.stray = query.stray, q.cut = query.cut, q.pc # "ended", query.pc # "discard",
             UNCHANGED erased
      PROVE  AskInv'
  <2>1. Asked(q, known', erased')
    BY <1>2 DEF AskInv, Asked
  <2>. QED
    BY <1>2, <2>1 DEF AskInv
<1>3. ASSUME NEW shape \in Shapes, NEW format \in Formats, NEW n \in Nat,
             NEW delivery \in {"auto", "direct", "files_api"}, Accept(shape, format, n, delivery),
             query.pc = "idle", UNCHANGED <<file, known, erased, billed>>
      PROVE  AskInv'
  <2>0. PICK j \in BOOLEAN : j = (format.type # "text")
    OBVIOUS
  <2>. DEFINE l == IF delivery = "files_api" /\ n > 0 THEN "upload" ELSE "reserve"
              q == [NoQuery EXCEPT
                      !.pc = l, !.audios = n, !.delivery = delivery, !.retries = shape.retries,
                      !.json = j, !.content = shape.content, !.save = shape.save]
  <2>1. query' = q
    BY <1>3, <2>0, Zenon DEF Accept
  <2>2. shape.retries \in Nat /\ shape.content \in {"full", "summary", "none"} /\ shape.save \in BOOLEAN
    BY UnderstandingAssumption DEF Shapes
  <2>3. l \in {"upload", "reserve"}
    OBVIOUS
  <2>. HIDE DEF l
  <2>4. /\ q \in Queries /\ q.pc = l /\ q.attempts = 0 /\ q.answers = 0 /\ q.retries = shape.retries
        /\ q.result = "none" /\ q.stray = {} /\ q.broken = 0
    <3>1. NoQuery \in Queries
      BY DEF NoQuery, Queries
    <3>2. q \in Queries
      BY <2>2, <2>3, <3>1 DEF Queries
    <3>3. q.pc = l /\ q.retries = shape.retries
      BY DEF NoQuery
    <3>4. q.attempts = 0 /\ q.answers = 0
      BY DEF NoQuery
    <3>5. q.result = "none" /\ q.stray = {} /\ q.broken = 0
      BY DEF NoQuery
    <3>. QED
      BY <3>2, <3>3, <3>4, <3>5
  <2>5. billed = 0 /\ billed' = 0
    BY <1>1, <1>3 DEF Counted
  <2>. HIDE DEF q
  <2>6. Counted(q, 0) /\ Delivered(q)
    BY <2>2, <2>3, <2>4 DEF Counted, Delivered
  <2>7. Asked(q, known', erased')
    BY <2>3, <2>4 DEF Asked
  <2>. QED
    BY <2>1, <2>4, <2>5, <2>6, <2>7 DEF AskInv
<1>4. CASE SeedUnderstand \/ SeedAudioUnderstand
  <2>1. query.pc = "idle" /\ UNCHANGED <<file, known, erased, billed>>
    BY <1>4 DEF SeedUnderstand, SeedAudioUnderstand
  <2>2. CASE SeedUnderstand
    <3>1. PICK shape \in Shapes, format \in Formats : Accept(shape, format, 0, "direct")
      BY <2>2, Zenon DEF SeedUnderstand
    <3>. QED
      BY <1>3, <2>1, <3>1
  <2>3. CASE SeedAudioUnderstand
    <3>1. PICK shape \in Shapes, format \in Formats, n \in 0..Cardinality(Files),
               delivery \in {"auto", "direct", "files_api"} : Accept(shape, format, n, delivery)
      BY <2>3, Zenon DEF SeedAudioUnderstand
    <3>2. n \in Nat
      OBVIOUS
    <3>. QED
      BY <1>3, <2>1, <3>1, <3>2
  <2>. QED
    BY <1>4, <2>2, <2>3
<1>5. CASE UploadUrl \/ Retrieve
  <2>1. /\ query.pc = "upload" /\ UNCHANGED <<erased, billed>>
        /\ \/ UNCHANGED query \/ Finish("error")
           \/ \E f \in Files : query' = [query EXCEPT !.pc = "discard", !.stray = {f}]
    BY <1>5 DEF UploadUrl, Retrieve
  <2>2. CASE Finish("error")
    BY <1>1, <2>1, <2>2, FinishOK
  <2>3. CASE UNCHANGED query
    BY <1>1, <1>2, <2>1, <2>3
  <2>4. ASSUME NEW f \in Files, query' = [query EXCEPT !.pc = "discard", !.stray = {f}] PROVE AskInv'
    <3>. DEFINE q == [query EXCEPT !.pc = "discard", !.stray = {f}]
    <3>1. /\ q \in Queries /\ q.pc = "discard" /\ q.retries = query.retries /\ q.broken = query.broken
          /\ q.result = query.result
      BY <1>1 DEF Queries
    <3>2. query' = q
      BY <2>4
    <3>. HIDE DEF q
    <3>3. Counted(q, billed)
      <4>1. billed <= query.attempts + query.broken /\ query.attempts <= query.retries
        BY <1>1, <2>1 DEF Counted
      <4>2. billed <= query.retries + 1 + query.broken
        BY <1>1, <4>1
      <4>. QED
        BY <3>1, <4>2 DEF Counted
    <3>4. Delivered(q) /\ Asked(q, known', erased')
      BY <1>1, <2>1, <3>1 DEF Delivered, Asked
    <3>. QED
      BY <1>1, <2>1, <3>1, <3>2, <3>3, <3>4 DEF AskInv
  <2>. QED
    BY <2>1, <2>2, <2>3, <2>4
<1>51. CASE Discard
  <2>1. query.pc = "discard" /\ Finish("error") /\ billed' = billed /\ erased' = erased \cup query.stray
    BY <1>51 DEF Discard, Delete
  <2>. QED
    BY <2>1, FinishOK
<1>6. CASE Uploaded
  <2>. DEFINE q == [query EXCEPT !.pc = "reserve"]
  <2>1. query' = q /\ query.pc = "upload" /\ billed' = billed /\ UNCHANGED erased
    BY <1>6 DEF Uploaded, To
  <2>2. /\ q \in Queries /\ q.pc = "reserve" /\ q.attempts = query.attempts /\ q.answers = query.answers
        /\ SameAccounts(q) /\ q.result = query.result
    BY <1>1 DEF Queries, SameAccounts
  <2>. HIDE DEF q
  <2>3. Counted(q, billed) /\ Delivered(q)
    BY <1>1, <2>1, <2>2 DEF Counted, Delivered, SameAccounts
  <2>. QED
    BY <1>1, <1>2, <2>1, <2>2, <2>3 DEF SameAccounts
<1>7. CASE Reserve
  <2>0. query.pc = "reserve" /\ billed' = billed /\ UNCHANGED erased
    BY <1>7 DEF Reserve
  <2>1. CASE Finish("budget_exceeded")
    BY <1>1, <2>0, <2>1, FinishOK
  <2>2. CASE query' = [query EXCEPT !.pc = "send", !.attempts = @ + 1, !.sends = 0]
    <3>. DEFINE q == [query EXCEPT !.pc = "send", !.attempts = query.attempts + 1, !.sends = 0]
    <3>1. query.attempts + 1 \in Nat
      BY <1>1
    <3>2. /\ q \in Queries /\ q.pc = "send" /\ q.attempts = query.attempts + 1
          /\ q.answers = query.answers /\ SameAccounts(q) /\ q.result = query.result
      BY <1>1, <3>1 DEF Queries, SameAccounts
    <3>3. query' = q
      BY <2>2
    <3>. HIDE DEF q
    <3>4. Counted(q, billed) /\ Delivered(q)
      BY <1>1, <2>0, <3>2 DEF Counted, Delivered, SameAccounts
    <3>. QED
      BY <1>1, <1>2, <2>0, <3>2, <3>3, <3>4 DEF SameAccounts
  <2>. QED
    BY <1>7, <2>1, <2>2 DEF Reserve
<1>8. CASE Send
  <2>1. \/ Finish("malformed") /\ billed' = billed + 1
        \/ \E a \in Answers : billed' = billed + 1 /\ query' = [query EXCEPT !.pc = "check", !.reply = a]
        \/ \E r \in Refusals :
             /\ billed' \in IF r \in Unclear THEN {billed, billed + 1} ELSE {billed}
             /\ IF Repeats(r) /\ query.sends + 1 < MaxSends
                THEN query' = [query EXCEPT !.sends = @ + 1,
                                            !.broken = IF r = "broken" THEN @ + 1 ELSE @]
                ELSE CompletionFails(r)
    BY <1>8, Zenon DEF Send
  <2>2. \A r : (IF r \in Unclear THEN {billed, billed + 1} ELSE {billed}) \subseteq {billed, billed + 1}
    OBVIOUS
  <2>3. billed' \in {billed, billed + 1}
    BY <2>1, <2>2
  <2>4. query.pc = "send" /\ UNCHANGED erased
    BY <1>8, Zenon DEF Send
  <2>5. query.pc = "send" /\ UNCHANGED erased /\ billed' \in {billed, billed + 1} /\ billed + 1 \in Nat
    BY <1>1, <2>3, <2>4
  <2>6. CASE Finish("malformed")
    BY <1>1, <2>5, <2>6, FinishOK
  <2>7. ASSUME NEW a \in Answers, billed' = billed + 1, query' = [query EXCEPT !.pc = "check", !.reply = a]
        PROVE  AskInv'
    <3>. DEFINE q == [query EXCEPT !.pc = "check", !.reply = a]
    <3>1. /\ q \in Queries /\ q.pc = "check" /\ q.attempts = query.attempts /\ q.reply = a
          /\ q.answers = query.answers /\ SameAccounts(q) /\ q.result = query.result
      BY <1>1 DEF Queries, SameAccounts
    <3>2. query' = q
      BY <2>7
    <3>. HIDE DEF q
    <3>3. Counted(q, billed + 1) /\ Delivered(q)
      BY <1>1, <2>5, <3>1 DEF Counted, Delivered, SameAccounts
    <3>. QED
      BY <1>2, <2>5, <2>7, <3>1, <3>2, <3>3 DEF SameAccounts
  <2>8. ASSUME NEW r \in Refusals, billed' = billed \/ r # "no_audio", CompletionFails(r)
        PROVE  AskInv'
    <3>. DEFINE q == [query EXCEPT !.pc = "failed", !.reply = r]
    <3>1. /\ q \in Queries /\ q.pc = "failed" /\ q.attempts = query.attempts /\ q.reply = r
          /\ q.answers = query.answers /\ SameAccounts(q) /\ q.result = query.result
      BY <1>1 DEF Queries, SameAccounts
    <3>2. query' = q
      BY <2>8 DEF CompletionFails
    <3>. HIDE DEF q
    <3>3. Counted(q, billed') /\ Delivered(q)
      BY <1>1, <2>5, <2>8, <3>1 DEF Counted, Delivered, SameAccounts
    <3>4. billed' \in Nat
      BY <1>1, <2>5
    <3>. QED
      BY <1>2, <2>5, <3>1, <3>2, <3>3, <3>4 DEF SameAccounts
  <2>9. ASSUME NEW n \in Nat, billed' <= billed + n, query' = [query EXCEPT !.sends = @ + 1, !.broken = @ + n]
        PROVE  AskInv'
    <3>. DEFINE q == [query EXCEPT !.sends = query.sends + 1, !.broken = query.broken + n]
    <3>1. query.sends + 1 \in Nat /\ query.broken + n \in Nat
      BY <1>1
    <3>2. /\ q \in Queries /\ q.pc = query.pc /\ q.attempts = query.attempts
          /\ q.answers = query.answers /\ q.retries = query.retries /\ q.result = query.result
          /\ q.broken = query.broken + n /\ q.stray = query.stray /\ q.cut = query.cut
      BY <1>1, <3>1 DEF Queries
    <3>3. query' = q
      BY <2>9
    <3>. HIDE DEF q
    <3>4. billed' \in Nat
      BY <1>1, <2>5
    <3>5. Counted(q, billed') /\ Delivered(q)
      BY <1>1, <2>5, <2>9, <3>2, <3>4 DEF Counted, Delivered
    <3>. QED
      BY <1>1, <1>2, <2>5, <3>2, <3>3, <3>4, <3>5
  <2>10. ASSUME NEW r \in Refusals, billed' \in IF r \in Unclear THEN {billed, billed + 1} ELSE {billed},
               IF Repeats(r) /\ query.sends + 1 < MaxSends
                THEN query' = [query EXCEPT !.sends = @ + 1,
                                            !.broken = IF r = "broken" THEN @ + 1 ELSE @]
                ELSE CompletionFails(r)
        PROVE  AskInv'
    <3>1. billed' = billed \/ r \in Unclear
      BY <2>10
    <3>2. CASE r = "broken" /\ query' = [query EXCEPT !.sends = @ + 1, !.broken = @ + 1]
      <4>1. billed' <= billed + 1
        BY <1>1, <2>5
      <4>. QED
        BY <2>9, <3>2, <4>1
    <3>3. CASE Repeats(r) /\ r # "broken" /\ query' = [query EXCEPT !.sends = @ + 1]
      <4>1. billed' <= billed + 0
        BY <1>1, <3>1, <3>3 DEF Repeats, Unclear
      <4>2. query' = [query EXCEPT !.sends = @ + 1, !.broken = @ + 0]
        <5>1. query.broken + 0 = query.broken /\ query = [query EXCEPT !.broken = query.broken]
          BY <1>1 DEF Queries
        <5>2. [query EXCEPT !.sends = @ + 1, !.broken = @ + 0] = [query EXCEPT !.sends = @ + 1]
          BY <1>1, <5>1 DEF Queries
        <5>. QED
          BY <3>3, <5>2
      <4>. QED
        BY <2>9, <4>1, <4>2
    <3>4. CASE CompletionFails(r)
      <4>1. billed' = billed \/ r # "no_audio"
        BY <3>1 DEF Unclear
      <4>. QED
        BY <2>8, <3>4, <4>1
    <3>5. \/ CompletionFails(r)
          \/ Repeats(r) /\ r # "broken" /\ query' = [query EXCEPT !.sends = @ + 1, !.broken = @]
          \/ r = "broken" /\ query' = [query EXCEPT !.sends = @ + 1, !.broken = @ + 1]
      BY <2>10
    <3>6. [query EXCEPT !.sends = @ + 1, !.broken = @] = [query EXCEPT !.sends = @ + 1]
      BY <1>1 DEF Queries
    <3>. QED
      BY <3>2, <3>3, <3>4, <3>5, <3>6
  <2>. QED
    BY <2>6, <2>7, <2>1, <2>10
<1>9. CASE HandleFailure
  <2>0. query.pc = "failed" /\ billed' = billed /\ UNCHANGED erased /\ query.attempts - 1 \in Nat
    BY <1>1, <1>9 DEF HandleFailure, Counted
  <2>1. CASE /\ query.reply = "no_audio"
             /\ query' = [query EXCEPT !.pc = "upload", !.fallback = TRUE,
                                       !.attempts = @ - 1, !.reply = "none"]
    <3>. DEFINE q == [query EXCEPT !.pc = "upload", !.fallback = TRUE,
                                   !.attempts = query.attempts - 1, !.reply = "none"]
    <3>1. /\ q \in Queries /\ q.pc = "upload" /\ q.attempts = query.attempts - 1
          /\ q.answers = query.answers /\ SameAccounts(q) /\ q.result = query.result
      BY <1>1, <2>0 DEF Queries, SameAccounts
    <3>2. query' = q
      BY <2>1
    <3>. HIDE DEF q
    <3>3. Counted(q, billed) /\ Delivered(q)
      BY <1>1, <2>0, <2>1, <3>1 DEF Counted, Delivered, SameAccounts
    <3>. QED
      BY <1>1, <1>2, <2>0, <3>1, <3>2, <3>3 DEF SameAccounts
  <2>2. CASE query' = [query EXCEPT !.pc = "save", !.result = "answer",
                                    !.attempts = @ - 1, !.reply = "none"]
    <3>. DEFINE q == [query EXCEPT !.pc = "save", !.result = "answer",
                                   !.attempts = query.attempts - 1, !.reply = "none"]
    <3>1. /\ q \in Queries /\ q.pc = "save" /\ q.attempts = query.attempts - 1
          /\ q.answers = query.answers /\ SameAccounts(q) /\ q.result = "answer"
      BY <1>1, <2>0 DEF Queries, SameAccounts
    <3>2. query' = q
      BY <2>2
    <3>. HIDE DEF q
    <3>3. Counted(q, billed) /\ Delivered(q)
      BY <1>1, <2>0, <3>1 DEF Counted, Delivered, SameAccounts
    <3>. QED
      BY <1>1, <1>2, <2>0, <3>1, <3>2, <3>3 DEF SameAccounts
  <2>3. CASE query' = [query EXCEPT !.pc = "clean", !.result = "error", !.reply = "none"]
    <3>. DEFINE q == [query EXCEPT !.pc = "clean", !.result = "error", !.reply = "none"]
    <3>1. q \in Queries /\ q.pc = "clean" /\ SameAccounts(q) /\ q.result = "error"
      BY <1>1 DEF Queries, SameAccounts
    <3>2. query' = q
      BY <2>3
    <3>. HIDE DEF q
    <3>3. Counted(q, billed) /\ Delivered(q)
      BY <1>1, <2>0, <3>1 DEF Counted, Delivered, SameAccounts
    <3>. QED
      BY <1>1, <1>2, <2>0, <3>1, <3>2, <3>3 DEF SameAccounts
  <2>. QED
    BY <1>9, <2>1, <2>2, <2>3 DEF HandleFailure
<1>10. CASE CheckAnswer
  <2>. DEFINE again == query.reply = "bad" /\ query.attempts <= query.retries
              l == IF again THEN "reserve" ELSE "save"
              r == IF again THEN query.result ELSE "answer"
              q == [query EXCEPT !.answers = query.answers + 1, !.reply = "none",
                    !.answer = query.reply, !.pc = l, !.result = r]
  <2>1. query.pc = "check" /\ billed' = billed /\ UNCHANGED erased /\ query' = q
    BY <1>10 DEF CheckAnswer
  <2>2. \/ again /\ l = "reserve" /\ r = query.result
        \/ l = "save" /\ r = "answer"
    OBVIOUS
  <2>3. query.answers + 1 \in Nat /\ query.reply \in Answers
    BY <1>1, <2>1 DEF Counted
  <2>4. r \in {"none", "answer", "error", "budget_exceeded", "malformed", "cancelled"}
    BY <1>1, <2>2 DEF Queries
  <2>5. l \in {"reserve", "save"}
    BY <2>2
  <2>. HIDE DEF l, r
  <2>6. /\ q \in Queries /\ q.pc = l /\ q.attempts = query.attempts
        /\ q.answers = query.answers + 1 /\ SameAccounts(q) /\ q.result = r
    BY <1>1, <2>3, <2>4, <2>5 DEF Queries, SameAccounts
  <2>. HIDE DEF q
  <2>7. Counted(q, billed) /\ Delivered(q)
    BY <1>1, <2>1, <2>2, <2>6 DEF Counted, Delivered, SameAccounts
  <2>. QED
    BY <1>1, <1>2, <2>1, <2>5, <2>6, <2>7 DEF SameAccounts
<1>11. CASE Save
  <2>. DEFINE writes == query.save /\ query.answer \in Answers \ {"empty"}
  <2>1. query.pc = "save" /\ billed' = billed /\ UNCHANGED erased
    BY <1>11 DEF Save
  <2>2. PICK ok \in BOOLEAN :
          query' = [query EXCEPT !.pc = "clean", !.saved = writes /\ ok,
                                 !.inline = query.content = "full" \/ (writes /\ ~ok)]
    BY <1>11, Zenon DEF Save
  <2>3. PICK s \in BOOLEAN, i \in BOOLEAN :
          s = (writes /\ ok) /\ i = (query.content = "full" \/ (writes /\ ~ok))
    <3>1. (writes /\ ok) \in BOOLEAN /\ (query.content = "full" \/ (writes /\ ~ok)) \in BOOLEAN
      OBVIOUS
    <3>. QED
      BY <3>1, Zenon
  <2>4. writes => s \/ i
    BY <2>3
  <2>. DEFINE q == [query EXCEPT !.pc = "clean", !.saved = s, !.inline = i]
  <2>5. query' = q
    BY <2>2, <2>3, Zenon
  <2>6. /\ q \in Queries /\ q.pc = "clean" /\ q.attempts = query.attempts
        /\ q.answers = query.answers /\ SameAccounts(q) /\ q.result = query.result
        /\ q.saved = s /\ q.inline = i /\ q.save = query.save /\ q.answer = query.answer
    BY <1>1 DEF Queries, SameAccounts
  <2>. HIDE DEF q
  <2>7. Counted(q, billed) /\ Delivered(q)
    BY <1>1, <2>1, <2>4, <2>6 DEF Counted, Delivered, SameAccounts
  <2>. QED
    BY <1>1, <1>2, <2>1, <2>5, <2>6, <2>7 DEF SameAccounts
<1>12. CASE Clean
  <2>. DEFINE q == [query EXCEPT !.pc = "ended"]
  <2>1. /\ query' = q /\ query.pc = "clean" /\ billed' = billed
        /\ known' = known /\ erased' = erased \cup known
    BY <1>12 DEF Clean, To, Delete
  <2>2. /\ q \in Queries /\ q.pc = "ended" /\ q.attempts = query.attempts /\ q.answers = query.answers
        /\ SameAccounts(q) /\ q.result = query.result /\ q.saved = query.saved
        /\ q.inline = query.inline /\ q.save = query.save /\ q.answer = query.answer
    BY <1>1 DEF Queries, SameAccounts
  <2>. HIDE DEF q
  <2>3. Counted(q, billed) /\ Delivered(q)
    BY <1>1, <2>1, <2>2 DEF Counted, Delivered, SameAccounts
  <2>4. Asked(q, known', erased')
    BY <2>1, <2>2 DEF AskInv, Asked, SameAccounts
  <2>. QED
    BY <1>1, <2>1, <2>2, <2>3, <2>4 DEF AskInv
<1>13. CASE CancelQuery
  <2>1. /\ query.pc \in {"upload", "reserve", "send", "check", "failed", "save", "clean"}
        /\ Finish("cancelled") /\ UNCHANGED erased
        /\ billed' \in {billed, billed + 1}
        /\ billed' = billed \/ query.pc = "send"
    BY <1>13 DEF CancelQuery
  <2>. QED
    BY <2>1, FinishOK
<1>131. CASE CancelDeletes
  <2>1. PICK l \in {"clean", "ended"} :
           query' = [query EXCEPT !.pc = l, !.result = "cancelled", !.cut = TRUE]
    BY <1>131 DEF CancelDeletes
  <2>. DEFINE q == [query EXCEPT !.pc = l, !.result = "cancelled", !.cut = TRUE]
  <2>2. query.pc \in {"discard", "clean"} /\ billed' = billed
    BY <1>131 DEF CancelDeletes
  <2>3. /\ q \in Queries /\ q.pc = l /\ q.result = "cancelled" /\ q.cut
        /\ q.retries = query.retries /\ q.broken = query.broken
    BY <1>1 DEF Queries
  <2>. HIDE DEF q
  <2>4. Counted(q, billed) /\ Delivered(q) /\ Asked(q, known', erased')
    BY <1>1, <2>2, <2>3 DEF Counted, Delivered, Asked
  <2>. QED
    BY <1>1, <2>1, <2>2, <2>3, <2>4 DEF AskInv, q
<1>14. CASE UNCHANGED askVars
  BY <1>1, <1>14 DEF AskInv, Counted, Delivered, Asked, askVars
<1>. QED
  BY <1>4, <1>5, <1>51, <1>6, <1>7, <1>8, <1>9, <1>10, <1>11, <1>12, <1>13, <1>131, <1>14 DEF AskNext

\* For any numbers of files, retries and attempts: the charges stay within the
\* completions asked for, the uploaded files are asked to be deleted, and an answer
\* is in its file or in the result (run_understanding).
THEOREM CallsAddUp == AskSpec => []CallAddsUp
<1>1. AskInit => AskInv
  <2>. SUFFICES ASSUME AskInit PROVE AskInv
    OBVIOUS
  <2>1. NoQuery \in Queries
    BY DEF NoQuery, Queries
  <2>. QED
    BY <2>1 DEF AskInit, AskInv, Counted, Delivered, Asked, NoQuery
<1>2. AskInv => CallAddsUp
  <2>. SUFFICES ASSUME AskInv PROVE CallAddsUp
    OBVIOUS
  <2>1. /\ query \in Queries /\ billed \in Nat
        /\ query.attempts \in Nat /\ query.retries \in Nat /\ query.broken \in Nat
    BY DEF AskInv, Queries
  <2>2. billed <= 1 + query.retries + query.broken
    BY <2>1 DEF AskInv, Counted, Queries
  <2>3. query.pc = "ended" /\ ~query.cut => known \cup query.stray \subseteq erased
    BY DEF AskInv, Asked
  <2>. QED
    BY <2>2, <2>3 DEF AskInv, CallAddsUp, Delivered
<1>. QED
  BY <1>1, <1>2, AskStep, PTL DEF AskSpec

-----------------------------------------------------------------------------
(* StateMigration.  What a start would make of the tables (Merged) is at   *)
(* all times what was recorded: each statement keeps it, the committed     *)
(* tables by themselves (Sound) and as the open transaction sees them      *)
(* (Stage).                                                                *)

\* The row that ends in the new table: a row of the table in use wins.
Merged(t, i) == IF t.current.rows[i] # Gone THEN t.current.rows[i] ELSE t.legacy.rows[i]

\* Tables a start may find: a table that is not there has no rows, and beside a
\* legacy table that waits to be copied the new one is empty.
Sound(t) ==
    /\ t \in Database
    /\ \A i \in Rows : Merged(t, i) = recorded[i]
    /\ ~IsTable(t.current) => \A i \in Rows : t.current.rows[i] = Gone
    /\ ~IsTable(t.legacy) => \A i \in Rows : t.legacy.rows[i] = Gone
    /\ t.current.keys = "new" /\ IsTable(t.legacy) => \A i \in Rows : t.current.rows[i] = Gone

\* The statement the server is at, and the tables it then sees.
Stage(t) ==
    /\ t \in Database
    /\ \A i \in Rows : Merged(t, i) = recorded[i]
    /\ ~IsTable(t.current) => \A i \in Rows : t.current.rows[i] = Gone
    /\ ~IsTable(t.legacy) => \A i \in Rows : t.legacy.rows[i] = Gone
    /\ server = "merge" => t.current.keys = "old" /\ IsTable(t.legacy)
    /\ server = "rename" => t.current.keys = "old" /\ ~IsTable(t.legacy)
    /\ server = "drop_old" => /\ IsTable(t.legacy)
                              /\ \A i \in Rows : t.legacy.rows[i] = recorded[i]
    /\ server = "create" =>
           /\ t.current.keys # "old"
           /\ IsTable(t.legacy) => \A i \in Rows : t.current.rows[i] = Gone
    /\ server = "copy" => /\ t.current.keys = "new"
                          /\ \A i \in Rows : t.current.rows[i] = Gone
    /\ server = "drop_legacy" => /\ t.current.keys = "new"
                                 /\ \A i \in Rows : t.current.rows[i] = recorded[i]
    /\ server \in {"commit", "up"} => t.current.keys = "new" /\ ~IsTable(t.legacy)

Servers == {"down", "merge", "drop_old", "rename", "create", "copy", "drop_legacy", "commit", "up"}

MigrationInv ==
    /\ recorded \in [Rows -> Values \cup {Gone}]
    /\ server \in Servers
    /\ pending \in Database \cup {Gone}
    /\ server \in {"down", "merge", "rename", "up"} => pending = Gone
    /\ Sound(table)
    /\ Stage(InSight)

\* The tables a first start may find.
LEMMA InitMigration == MigrationInit => MigrationInv
<1>. SUFFICES ASSUME MigrationInit PROVE MigrationInv
    OBVIOUS
<1>. USE MigrationAssumption DEF MigrationInit, NoTable, Old, Tables, Database
<1>1. table.current \in Tables /\ table.legacy = NoTable /\ table \in Database
    OBVIOUS
<1>2. table.current.keys \in {"none", "old"}
    OBVIOUS
<1>3. ~IsTable(table.current) => \A i \in Rows : table.current.rows[i] = Gone
    BY DEF IsTable
<1>. QED
    BY <1>1, <1>2, <1>3 DEF MigrationInv, Sound, Stage, Merged, IsTable, InSight, Servers

\* Every statement keeps what a start would make of the tables.
LEMMA NextMigration == MigrationInv /\ [MigrationNext]_migrationVars => MigrationInv'
<1>. SUFFICES ASSUME MigrationInv, [MigrationNext]_migrationVars PROVE MigrationInv'
    OBVIOUS
<1>. USE MigrationAssumption
         DEF MigrationInv, Sound, Stage, Merged, IsTable, InSight, ServerStep, Statement, Insert,
             Replaced, Empty, NoTable, Tables, Database, Servers
<1>1. CASE StartServer
    BY <1>1 DEF StartServer
<1>2. CASE RenameTable
    BY <1>2 DEF RenameTable
<1>3. CASE MergeIntoLegacy
    <2>1. /\ server = "merge" /\ server' = "drop_old" /\ pending = Gone
          /\ UNCHANGED <<table, recorded>>
          /\ pending' = [table EXCEPT !.legacy = Replaced(table.legacy, table.current)]
        BY <1>3 DEF MergeIntoLegacy
    <2>2. /\ IsTable(table.legacy)
          /\ table.legacy \in Tables /\ table.current \in Tables
        BY <2>1
    <2>3. /\ Replaced(table.legacy, table.current).keys = table.legacy.keys
          /\ Replaced(table.legacy, table.current) \in Tables
          /\ \A i \in Rows : Replaced(table.legacy, table.current).rows[i] = recorded[i]
        BY <2>2
    <2>4. /\ pending' \in Database /\ pending' # Gone
          /\ pending'.current = table.current
          /\ pending'.legacy = Replaced(table.legacy, table.current)
        BY <2>1, <2>2, <2>3
    <2>. QED
        BY <2>1, <2>2, <2>3, <2>4
<1>4. CASE DropOld
    BY <1>4 DEF DropOld
<1>5. CASE CreateTable
    BY <1>5 DEF CreateTable
<1>6. CASE Copy
    <2>. DEFINE t == InSight
    <2>1. /\ server = "copy" /\ server' = "drop_legacy"
          /\ UNCHANGED <<table, recorded>>
          /\ pending' = [t EXCEPT !.current = Replaced(t.current, t.legacy)]
        BY <1>6 DEF Copy
    <2>2. /\ t \in Database /\ t.current.keys = "new"
          /\ \A i \in Rows : t.current.rows[i] = Gone /\ t.legacy.rows[i] = recorded[i]
        BY <2>1
    <2>3. /\ Replaced(t.current, t.legacy).keys = "new"
          /\ Replaced(t.current, t.legacy) \in Tables
          /\ \A i \in Rows : Replaced(t.current, t.legacy).rows[i] = recorded[i]
        BY <2>2
    <2>. HIDE DEF t
    <2>4. /\ pending' \in Database /\ pending' # Gone
          /\ pending'.current = Replaced(t.current, t.legacy)
          /\ pending'.legacy = t.legacy
        BY <2>1, <2>2, <2>3
    <2>5. ~IsTable(t.legacy) => \A i \in Rows : t.legacy.rows[i] = Gone
        BY DEF t
    <2>. QED
        BY <2>1, <2>2, <2>3, <2>4, <2>5
<1>7. CASE DropLegacy
    BY <1>7 DEF DropLegacy
<1>8. CASE Commit
    BY <1>8 DEF Commit
<1>9. CASE RecordRow
    <2>1. PICK i \in Rows, v \in Values :
              /\ table' = [table EXCEPT !.current.rows[i] = v]
              /\ recorded' = [recorded EXCEPT ![i] = v]
        BY <1>9 DEF RecordRow
    <2>2. server = "up" /\ pending = Gone /\ UNCHANGED <<pending, server>>
        BY <1>9 DEF RecordRow
    <2>3. /\ table'.legacy = table.legacy
          /\ table'.current.keys = table.current.keys
          /\ table'.current.rows = [table.current.rows EXCEPT ![i] = v]
          /\ table' \in Database
        BY <2>1
    <2>. QED
        BY <2>1, <2>2, <2>3
<1>10. CASE CrashServer
    BY <1>10 DEF CrashServer
<1>11. CASE OldServer
    <2>1. PICK i \in Rows, v \in Values :
              /\ recorded[i] = Gone
              /\ table' = [table EXCEPT !.current.keys = "old", !.current.rows[i] = v]
              /\ recorded' = [recorded EXCEPT ![i] = v]
        BY <1>11 DEF OldServer
    <2>2. server = "down" /\ pending = Gone /\ UNCHANGED <<pending, server>>
        BY <1>11 DEF OldServer
    <2>3. /\ table'.legacy = table.legacy
          /\ table'.current.keys = "old"
          /\ table'.current.rows = [table.current.rows EXCEPT ![i] = v]
          /\ table' \in Database
        BY <2>1
    <2>. QED
        BY <2>1, <2>2, <2>3
<1>12. CASE UNCHANGED migrationVars
    BY <1>12 DEF migrationVars
<1>. QED
    BY <1>1, <1>2, <1>3, <1>4, <1>5, <1>6, <1>7, <1>8, <1>9, <1>10, <1>11, <1>12 DEF MigrationNext

\* Whatever the rows, and wherever starts of either release end early, a server
\* that is up has every row a server has recorded, as it was recorded last.
THEOREM MigrationLosesNothing == MigrationSpec => []NoRowLost
<1>1. MigrationInv => NoRowLost
    <2>. SUFFICES ASSUME MigrationInv, server = "up" PROVE table.current.rows = recorded
        BY DEF NoRowLost
    <2>1. \A i \in Rows : table.current.rows[i] = recorded[i]
        BY DEF MigrationInv, Stage, InSight, Merged
    <2>2. table.current.rows \in [Rows -> Values \cup {Gone}]
        BY DEF MigrationInv, Sound, Database, Tables
    <2>. QED
        BY <2>1, <2>2 DEF MigrationInv
<1>. QED
    BY <1>1, InitMigration, NextMigration, PTL DEF MigrationSpec
=============================================================================
