------------------------- MODULE BilledCall_proofs --------------------------
(***************************************************************************)
(* Proofs about BilledCall, for every set of calls, owners, estimates and  *)
(* limits.  The inductive invariant says how the await a call is in, its   *)
(* ledger job, the ledger lock and its row go together (JobInv), that the  *)
(* semaphores count the calls inside (SlotsConserved), and that a thread   *)
(* which has read the sum under the lock still has room for its own        *)
(* estimate when it inserts (Headroom).                                    *)
(***************************************************************************)
EXTENDS BilledCall, FiniteSetTheorems, TLAPS

(* What a set of calls costs: Spend is a natural number, it grows with the *)
(* set, and a new member adds its own amount.                              *)

(* The units of any set of calls are finite in number.                     *)
LEMMA UnitsFinite ==
    ASSUME NEW S \in SUBSET Calls
    PROVE  IsFiniteSet(Units(S))
<1>1. IsFiniteSet(S) /\ IsFiniteSet(1..MaxAmount)
    BY SpendingAssumption, FS_Subset, FS_Interval
<1>2. IsFiniteSet(S \X (1..MaxAmount))
    BY <1>1, FS_Product
<1>. QED
    BY <1>2, FS_Subset DEF Units

(* The sum the ledger computes is a natural number of units.               *)
LEMMA SpendType ==
    ASSUME NEW S \in SUBSET Calls
    PROVE  Spend(S) \in Nat
BY UnitsFinite, FS_CardinalityType DEF Spend

(* Fewer reservations never cost more.                                     *)
LEMMA SpendMonotonic ==
    ASSUME NEW T \in SUBSET Calls, NEW S \in SUBSET T
    PROVE  Spend(S) <= Spend(T)
<1>1. Units(S) \subseteq Units(T)
    BY DEF Units
<1>. QED
    BY <1>1, UnitsFinite, FS_Subset DEF Spend

(* One call owns exactly as many units as its estimate says.               *)
LEMMA UnitsOfOne ==
    ASSUME NEW c \in Calls
    PROVE  Cardinality(Units({c})) = Amount[c]
<1>. DEFINE f == [i \in 1..Amount[c] |-> <<c, i>>]
<1>1. Amount[c] \in Nat /\ Amount[c] <= MaxAmount /\ MaxAmount \in Nat
    BY SpendingAssumption
<1>2. \A i \in 1..Amount[c] : f[i] \in Units({c})
    BY <1>1 DEF Units
<1>3. \A u \in Units({c}) : \E i \in 1..Amount[c] : f[i] = u
    BY <1>1 DEF Units
<1>4. \A i, j \in 1..Amount[c] : f[i] = f[j] => i = j
    OBVIOUS
<1>5. f \in Bijection(1..Amount[c], Units({c}))
    BY <1>2, <1>3, <1>4 DEF Bijection, Injection, Surjection, IsInjective
<1>6. ExistsBijection(1..Amount[c], Units({c}))
    BY <1>5 DEF ExistsBijection
<1>. HIDE DEF f
<1>7. /\ IsFiniteSet(1..Amount[c])
      /\ Cardinality(1..Amount[c]) = IF 1 > Amount[c] THEN 0 ELSE Amount[c] - 1 + 1
    <2>1. 1 \in Int /\ Amount[c] \in Int
        BY <1>1
    <2>. QED
        BY ONLY <2>1, FS_Interval
<1>8. Cardinality(1..Amount[c]) = Amount[c]
    BY <1>1, <1>7
<1>. QED
    BY <1>6, <1>7, <1>8, FS_Bijection

(* One more reservation costs its own estimate more.                       *)
LEMMA SpendAdd ==
    ASSUME NEW S \in SUBSET Calls, NEW c \in Calls, c \notin S
    PROVE  Spend(S \cup {c}) = Spend(S) + Amount[c]
<1>1. Units(S \cup {c}) = Units(S) \cup Units({c})
    BY DEF Units
<1>2. Units(S) \cap Units({c}) = {}
    BY DEF Units
<1>3. IsFiniteSet(Units(S)) /\ IsFiniteSet(Units({c}))
    BY UnitsFinite
<1>4. Cardinality(Units(S) \cup Units({c}))
        = Cardinality(Units(S)) + Cardinality(Units({c})) - 0
    BY <1>2, <1>3, FS_Union, FS_EmptySet
<1>5. Cardinality(Units(S)) \in Nat /\ Amount[c] \in Nat
    BY <1>3, FS_CardinalityType, SpendingAssumption
<1>6. Cardinality(Units({c})) = Amount[c]
    BY UnitsOfOne
<1>7. Spend(S \cup {c}) = Cardinality(Units(S) \cup Units({c}))
    BY <1>1, Zenon DEF Spend
<1>8. Spend(S \cup {c}) = Cardinality(Units(S)) + Amount[c]
    BY <1>4, <1>5, <1>6, <1>7
<1>. QED
    BY <1>8 DEF Spend

-----------------------------------------------------------------------------

\* Who has a reservation object, who has a job, and what the row can be then.
JobInv ==
    /\ \A c \in Calls :
        /\ at[c] = "idle" <=> op[c] = "none"
        /\ at[c] \in {"select", "insert"} => op[c] = "reserve"
        /\ at[c] = "update" => op[c] \in {"commit", "release"}
        /\ pc[c] = "reserve" => op[c] = "reserve"
        /\ pc[c] \in {"else", "except", "shield"} => op[c] \in {"commit", "release"}
        /\ pc[c] \in {"reserve", "else", "except", "shield"} /\ at[c] # "queued"
              => lock = c
        /\ pc[c] \in {"idle", "provider", "principal", "inflight", "backoff"}
              => at[c] = "idle"
        /\ pc[c] \in {"provider", "principal", "inflight", "backoff"}
              => holding[c] /\ row[c] \in {"reserved", "pruned"}
        /\ pc[c] \in {"idle", "reserve"} => ~holding[c] /\ row[c] = "none"
        /\ op[c] = "reserve" => ~holding[c] /\ row[c] = "none"
        /\ op[c] \in {"commit", "release"}
              => holding[c] /\ row[c] \in {"reserved", "pruned"}
        /\ pc[c] = "principal" => Owner[c] \notin Local
        /\ pc[c] # "idle" => day[c] # 0
        /\ ~holding[c] => row[c] \in {"none", "reserved", "pruned"}
        /\ holding[c] => row[c] # "none"
    /\ lock \in Calls => at[lock] \in Running

\* The thread that holds the lock and has passed the check can still insert.
Headroom ==
    \A c \in Calls :
        RejectMode /\ lock = c /\ at[c] = "insert"
            => Spend(LiveCounted(Owner[c], day[c])) + Amount[c] <= DailyLimit

-----------------------------------------------------------------------------
(* The types of the variables are kept together with JobInv: an UPDATE has *)
(* a status to write only because its job is a commit or a release.        *)

LEMMA InitTypeJob == Init => TypeOK /\ JobInv
BY BilledCallAssumption DEF Init, TypeOK, JobInv, PCs, Ops, Rows, Running, Dispatched, Ended

LEMMA NextTypeJob == TypeOK /\ JobInv /\ [Next]_vars => TypeOK' /\ JobInv'
<1>. SUFFICES ASSUME TypeOK, JobInv, [Next]_vars
              PROVE  TypeOK' /\ JobInv'
    OBVIOUS
<1>. USE BilledCallAssumption
         DEF TypeOK, JobInv, PCs, Ops, Rows, Running, Dispatched, Ended,
             taskVars, jobVars, slotVars, Goto, Enqueue, EndJob
<1>1. ASSUME NEW c \in Calls, Reserve(c) PROVE TypeOK' /\ JobInv'
    BY <1>1 DEF Reserve
<1>2. ASSUME NEW c \in Calls, LockLedger(c) PROVE TypeOK' /\ JobInv'
    BY <1>2 DEF LockLedger
<1>3. ASSUME NEW c \in Calls, AcquireProvider(c) PROVE TypeOK' /\ JobInv'
    BY <1>3 DEF AcquireProvider
<1>4. ASSUME NEW c \in Calls, AcquirePrincipal(c) PROVE TypeOK' /\ JobInv'
    BY <1>4 DEF AcquirePrincipal
<1>5. ASSUME NEW c \in Calls, SelectSum(c) PROVE TypeOK' /\ JobInv'
    BY <1>5 DEF SelectSum
<1>6. ASSUME NEW c \in Calls, InsertRow(c) PROVE TypeOK' /\ JobInv'
    <2>1. CASE pc[c] = "reserve"
        <3>1. holding \in [Calls -> BOOLEAN]
            OBVIOUS
        <3>2. holding' = [holding EXCEPT ![c] = TRUE]
            BY <1>6, <2>1 DEF InsertRow
        <3>3. holding' \in [Calls -> BOOLEAN]
            BY ONLY <3>1, <3>2, Zenon
        <3>4. TypeOK'
            BY <1>6, <2>1, <3>3 DEF InsertRow
        <3>5. JobInv'
            BY <1>6, <2>1 DEF InsertRow
        <3>. QED  BY <3>4, <3>5
    <2>2. CASE pc[c] # "reserve"
        <3>1. TypeOK'
            BY <1>6, <2>2 DEF InsertRow
        <3>2. JobInv'
            BY <1>6, <2>2 DEF InsertRow
        <3>. QED  BY <3>1, <3>2
    <2>. QED  BY <2>1, <2>2
<1>7. ASSUME NEW c \in Calls, UpdateRow(c) PROVE TypeOK' /\ JobInv'
    BY <1>7 DEF UpdateRow
<1>8. ASSUME NEW c \in Calls, Respond(c) PROVE TypeOK' /\ JobInv'
    <2>1. PICK outcome \in Outcomes : Respond(c)!2!(outcome)
        BY <1>8 DEF Respond
    <2>2. PICK n \in MayHaveActed(outcome) : accepted' = [accepted EXCEPT ![c] = @ + n]
        BY <2>1
    <2>3. n \in Nat
        BY DEF MayHaveActed, AllOutcomes
    <2>4. CASE CanRetry(c, outcome)
        BY <1>8, <2>1, <2>2, <2>3, <2>4 DEF Respond
    <2>5. CASE ~CanRetry(c, outcome)
        <3>1. Settlement(outcome) \in {"commit", "release"}
            BY DEF Settlement
        <3>. QED
            BY <1>8, <2>1, <2>2, <2>3, <2>5, <3>1 DEF Respond, ReleaseSlots
    <2>. QED  BY <2>4, <2>5
<1>9. ASSUME NEW c \in Calls, Retry(c) PROVE TypeOK' /\ JobInv'
    BY <1>9 DEF Retry
<1>10. ASSUME NEW c \in Calls, LedgerError(c) PROVE TypeOK' /\ JobInv'
    BY <1>10 DEF LedgerError
<1>11. ASSUME NEW c \in Calls, CancelReserve(c) PROVE TypeOK' /\ JobInv'
    BY <1>11 DEF CancelReserve, AbandonJob
<1>12. ASSUME NEW c \in Calls, CancelWaiting(c) PROVE TypeOK' /\ JobInv'
    BY <1>12 DEF CancelWaiting
<1>13. ASSUME NEW c \in Calls, CancelDispatched(c) PROVE TypeOK' /\ JobInv'
    BY <1>13 DEF CancelDispatched, ReleaseSlots
<1>14. ASSUME NEW c \in Calls, CancelSettling(c) PROVE TypeOK' /\ JobInv'
    BY <1>14 DEF CancelSettling, AbandonJob
<1>15. ASSUME NEW c \in Calls, CancelShielded(c) PROVE TypeOK' /\ JobInv'
    BY <1>15 DEF CancelShielded
<1>16. CASE Prune
    BY <1>16 DEF Prune
<1>17. CASE NextDay
    BY <1>17 DEF NextDay
<1>18. CASE Crash
    BY <1>18 DEF Crash
<1>19. CASE UNCHANGED vars
    BY <1>19 DEF vars
<1>. QED
    BY <1>1, <1>2, <1>3, <1>4, <1>5, <1>6, <1>7, <1>8, <1>9, <1>10, <1>11, <1>12, <1>13, <1>14, <1>15, <1>16, <1>17, <1>18, <1>19
       DEF Next, Grant, Proceed, Cancel, Terminated

\* The variables keep their types in every behaviour of the server: a ledger
\* job always has a statement to run and a row only takes a defined status.
THEOREM TypeCorrect == Spec => []TypeOK
BY InitTypeJob, NextTypeJob, PTL DEF Spec

LEMMA JobsCorrect == Spec => [](TypeOK /\ JobInv)
BY InitTypeJob, NextTypeJob, PTL DEF Spec

-----------------------------------------------------------------------------
(* The semaphores count the calls inside.                                  *)

LEMMA HoldersFinite ==
    /\ \A p : IsFiniteSet(ProviderHolders(p)) /\ Cardinality(ProviderHolders(p)) \in Nat
    /\ \A o : IsFiniteSet(PrincipalHolders(o)) /\ Cardinality(PrincipalHolders(o)) \in Nat
<1>1. \A p : ProviderHolders(p) \in SUBSET Calls
    BY DEF ProviderHolders
<1>2. \A o : PrincipalHolders(o) \in SUBSET Calls
    BY DEF PrincipalHolders
<1>. QED
    BY <1>1, <1>2, SpendingAssumption, FS_Subset, FS_CardinalityType

\* Nobody enters or leaves.
LEMMA SlotsKept ==
    ASSUME SlotsConserved, UNCHANGED slotVars,
           \A c \in Calls : /\ pc'[c] \in Dispatched <=> pc[c] \in Dispatched
                            /\ pc'[c] = "principal" <=> pc[c] = "principal"
    PROVE  SlotsConserved'
<1>1. \A p \in Providers : ProviderHolders(p)' = ProviderHolders(p)
    BY DEF ProviderHolders
<1>2. \A o \in Principals : PrincipalHolders(o)' = PrincipalHolders(o)
    BY DEF PrincipalHolders
<1>. QED
    BY <1>1, <1>2 DEF SlotsConserved, slotVars

\* A provider slot is taken or given back by call c, and by no other.
LEMMA ProviderEnter ==
    ASSUME TypeOK, SlotsConserved, NEW c \in Calls,
           providerFree' = [providerFree EXCEPT ![Provider[c]] = @ - 1],
           c \notin ProviderHolders(Provider[c]),
           \A p \in Providers : ProviderHolders(p)' =
               IF p = Provider[c] THEN ProviderHolders(p) \cup {c} ELSE ProviderHolders(p)
    PROVE  \A p \in Providers :
               providerFree'[p] = ProviderLimit - Cardinality(ProviderHolders(p)')
<1>1. Cardinality(ProviderHolders(Provider[c]) \cup {c})
         = Cardinality(ProviderHolders(Provider[c])) + 1
    BY HoldersFinite, FS_AddElement
<1>2. \A p \in Providers : Cardinality(ProviderHolders(p)') =
          IF p = Provider[c] THEN Cardinality(ProviderHolders(p)) + 1
                             ELSE Cardinality(ProviderHolders(p))
    BY <1>1
<1>3. \A p \in Providers : providerFree'[p] =
          IF p = Provider[c] THEN providerFree[p] - 1 ELSE providerFree[p]
    BY DEF TypeOK
<1>4. \A p \in Providers : /\ providerFree[p] = ProviderLimit - Cardinality(ProviderHolders(p))
                          /\ Cardinality(ProviderHolders(p)) \in Nat
    BY HoldersFinite DEF SlotsConserved
<1>5. ProviderLimit \in Nat
    BY BilledCallAssumption
<1>. QED
    BY <1>2, <1>3, <1>4, <1>5

LEMMA ProviderLeave ==
    ASSUME TypeOK, SlotsConserved, NEW c \in Calls,
           providerFree' = [providerFree EXCEPT ![Provider[c]] = @ + 1],
           c \in ProviderHolders(Provider[c]),
           \A p \in Providers : ProviderHolders(p)' =
               IF p = Provider[c] THEN ProviderHolders(p) \ {c} ELSE ProviderHolders(p)
    PROVE  \A p \in Providers :
               providerFree'[p] = ProviderLimit - Cardinality(ProviderHolders(p)')
<1>1. Cardinality(ProviderHolders(Provider[c]) \ {c})
         = Cardinality(ProviderHolders(Provider[c])) - 1
    BY HoldersFinite, FS_RemoveElement
<1>2. \A p \in Providers : Cardinality(ProviderHolders(p)') =
          IF p = Provider[c] THEN Cardinality(ProviderHolders(p)) - 1
                             ELSE Cardinality(ProviderHolders(p))
    BY <1>1
<1>3. \A p \in Providers : providerFree'[p] =
          IF p = Provider[c] THEN providerFree[p] + 1 ELSE providerFree[p]
    BY DEF TypeOK
<1>4. \A p \in Providers : /\ providerFree[p] = ProviderLimit - Cardinality(ProviderHolders(p))
                          /\ Cardinality(ProviderHolders(p)) \in Nat
    BY HoldersFinite DEF SlotsConserved
<1>5. ProviderLimit \in Nat
    BY BilledCallAssumption
<1>. QED
    BY <1>2, <1>3, <1>4, <1>5

\* The same for the slot of a remote principal.
LEMMA PrincipalEnter ==
    ASSUME TypeOK, SlotsConserved, NEW c \in Calls,
           principalFree' = [principalFree EXCEPT ![Owner[c]] = @ - 1],
           c \notin PrincipalHolders(Owner[c]),
           \A o \in Principals : PrincipalHolders(o)' =
               IF o = Owner[c] THEN PrincipalHolders(o) \cup {c} ELSE PrincipalHolders(o)
    PROVE  \A o \in Principals :
               principalFree'[o] = PrincipalLimit - Cardinality(PrincipalHolders(o)')
<1>1. Cardinality(PrincipalHolders(Owner[c]) \cup {c})
         = Cardinality(PrincipalHolders(Owner[c])) + 1
    BY HoldersFinite, FS_AddElement
<1>2. \A o \in Principals : Cardinality(PrincipalHolders(o)') =
          IF o = Owner[c] THEN Cardinality(PrincipalHolders(o)) + 1
                          ELSE Cardinality(PrincipalHolders(o))
    BY <1>1
<1>3. \A o \in Principals : principalFree'[o] =
          IF o = Owner[c] THEN principalFree[o] - 1 ELSE principalFree[o]
    BY DEF TypeOK
<1>4. \A o \in Principals : /\ principalFree[o] = PrincipalLimit - Cardinality(PrincipalHolders(o))
                          /\ Cardinality(PrincipalHolders(o)) \in Nat
    BY HoldersFinite DEF SlotsConserved
<1>5. PrincipalLimit \in Nat
    BY BilledCallAssumption
<1>. QED
    BY <1>2, <1>3, <1>4, <1>5

LEMMA PrincipalLeave ==
    ASSUME TypeOK, SlotsConserved, NEW c \in Calls,
           principalFree' = [principalFree EXCEPT ![Owner[c]] = @ + 1],
           c \in PrincipalHolders(Owner[c]),
           \A o \in Principals : PrincipalHolders(o)' =
               IF o = Owner[c] THEN PrincipalHolders(o) \ {c} ELSE PrincipalHolders(o)
    PROVE  \A o \in Principals :
               principalFree'[o] = PrincipalLimit - Cardinality(PrincipalHolders(o)')
<1>1. Cardinality(PrincipalHolders(Owner[c]) \ {c})
         = Cardinality(PrincipalHolders(Owner[c])) - 1
    BY HoldersFinite, FS_RemoveElement
<1>2. \A o \in Principals : Cardinality(PrincipalHolders(o)') =
          IF o = Owner[c] THEN Cardinality(PrincipalHolders(o)) - 1
                          ELSE Cardinality(PrincipalHolders(o))
    BY <1>1
<1>3. \A o \in Principals : principalFree'[o] =
          IF o = Owner[c] THEN principalFree[o] + 1 ELSE principalFree[o]
    BY DEF TypeOK
<1>4. \A o \in Principals : /\ principalFree[o] = PrincipalLimit - Cardinality(PrincipalHolders(o))
                          /\ Cardinality(PrincipalHolders(o)) \in Nat
    BY HoldersFinite DEF SlotsConserved
<1>5. PrincipalLimit \in Nat
    BY BilledCallAssumption
<1>. QED
    BY <1>2, <1>3, <1>4, <1>5

\* The whole of ReleaseSlots: a dispatched call gives both slots back.
LEMMA LeaveSlots ==
    ASSUME TypeOK, SlotsConserved, NEW c \in Calls, NEW l,
           pc[c] \in Dispatched, l \notin Dispatched \cup {"principal"},
           pc' = [pc EXCEPT ![c] = l], ReleaseSlots(c)
    PROVE  SlotsConserved'
<1>1. /\ providerFree' = [providerFree EXCEPT ![Provider[c]] = @ + 1]
      /\ c \in ProviderHolders(Provider[c])
    BY DEF ReleaseSlots, ProviderHolders
<1>2. \A p \in Providers : ProviderHolders(p)' =
          IF p = Provider[c] THEN ProviderHolders(p) \ {c} ELSE ProviderHolders(p)
    BY DEF ProviderHolders, TypeOK
<1>3. \A p \in Providers :
          providerFree'[p] = ProviderLimit - Cardinality(ProviderHolders(p)')
    BY <1>1, <1>2, ProviderLeave
<1>4. CASE Owner[c] \in Local
    <2>1. \A o \in Principals : PrincipalHolders(o)' = PrincipalHolders(o)
        BY <1>4 DEF PrincipalHolders, TypeOK
    <2>. QED
        BY <1>3, <1>4, <2>1 DEF ReleaseSlots, SlotsConserved
<1>5. CASE Owner[c] \notin Local
    <2>1. /\ principalFree' = [principalFree EXCEPT ![Owner[c]] = @ + 1]
          /\ c \in PrincipalHolders(Owner[c])
        BY <1>5 DEF ReleaseSlots, PrincipalHolders
    <2>2. \A o \in Principals : PrincipalHolders(o)' =
              IF o = Owner[c] THEN PrincipalHolders(o) \ {c} ELSE PrincipalHolders(o)
        BY <1>5 DEF PrincipalHolders, TypeOK
    <2>. QED
        BY <1>3, <2>1, <2>2, PrincipalLeave DEF SlotsConserved
<1>. QED  BY <1>4, <1>5

\* All semaphores at their limit, nobody inside.
LEMMA EmptySlots ==
    /\ ProviderLimit = ProviderLimit - Cardinality({})
    /\ PrincipalLimit = PrincipalLimit - Cardinality({})
<1>1. Cardinality({}) = 0
    BY FS_EmptySet
<1>. QED
    BY <1>1, BilledCallAssumption

LEMMA InitSlots == Init => SlotsConserved
<1>. SUFFICES ASSUME Init PROVE SlotsConserved
    OBVIOUS
<1>1. \A p \in Providers : ProviderHolders(p) = {}
    BY DEF Init, ProviderHolders, Dispatched
<1>2. \A o \in Principals : PrincipalHolders(o) = {}
    BY DEF Init, PrincipalHolders, Dispatched
<1>. QED
    BY <1>1, <1>2, EmptySlots DEF Init, SlotsConserved

LEMMA NextSlots == TypeOK /\ JobInv /\ SlotsConserved /\ [Next]_vars => SlotsConserved'
<1>. SUFFICES ASSUME TypeOK, JobInv, SlotsConserved, [Next]_vars
              PROVE  SlotsConserved'
    OBVIOUS
<1>. USE DEF Goto, EndJob, Enqueue, taskVars, jobVars, slotVars
<1>1. ASSUME NEW c \in Calls, AcquireProvider(c) PROVE SlotsConserved'
    <2>1. /\ providerFree' = [providerFree EXCEPT ![Provider[c]] = @ - 1]
          /\ c \notin ProviderHolders(Provider[c])
        BY <1>1 DEF AcquireProvider, ProviderHolders, Dispatched
    <2>2. \A p \in Providers : ProviderHolders(p)' =
              IF p = Provider[c] THEN ProviderHolders(p) \cup {c} ELSE ProviderHolders(p)
        BY <1>1 DEF AcquireProvider, ProviderHolders, Dispatched, TypeOK
    <2>3. \A o \in Principals : PrincipalHolders(o)' = PrincipalHolders(o)
        BY <1>1 DEF AcquireProvider, PrincipalHolders, Dispatched, TypeOK
    <2>4. UNCHANGED principalFree
        BY <1>1 DEF AcquireProvider
    <2>. QED
        BY <2>1, <2>2, <2>3, <2>4, ProviderEnter DEF SlotsConserved
<1>2. ASSUME NEW c \in Calls, AcquirePrincipal(c) PROVE SlotsConserved'
    <2>1. /\ principalFree' = [principalFree EXCEPT ![Owner[c]] = @ - 1]
          /\ c \notin PrincipalHolders(Owner[c])
        BY <1>2 DEF AcquirePrincipal, PrincipalHolders, Dispatched
    <2>2. \A o \in Principals : PrincipalHolders(o)' =
              IF o = Owner[c] THEN PrincipalHolders(o) \cup {c} ELSE PrincipalHolders(o)
        BY <1>2 DEF AcquirePrincipal, PrincipalHolders, Dispatched, TypeOK, JobInv
    <2>3. \A p \in Providers : ProviderHolders(p)' = ProviderHolders(p)
        BY <1>2 DEF AcquirePrincipal, ProviderHolders, Dispatched, TypeOK
    <2>4. UNCHANGED providerFree
        BY <1>2 DEF AcquirePrincipal
    <2>. QED
        BY <2>1, <2>2, <2>3, <2>4, PrincipalEnter DEF SlotsConserved
<1>3. ASSUME NEW c \in Calls, Respond(c) PROVE SlotsConserved'
    <2>1. PICK outcome \in Outcomes : Respond(c)!2!(outcome)
        BY <1>3 DEF Respond
    <2>2. CASE CanRetry(c, outcome)
        BY <1>3, <2>1, <2>2, SlotsKept DEF Respond, TypeOK, Dispatched
    <2>3. CASE ~CanRetry(c, outcome)
        BY <1>3, <2>1, <2>3, LeaveSlots DEF Respond, TypeOK, Dispatched
    <2>. QED  BY <2>2, <2>3
<1>4. ASSUME NEW c \in Calls, CancelDispatched(c) PROVE SlotsConserved'
    <2>1. /\ pc[c] \in Dispatched
          /\ pc' = [pc EXCEPT ![c] = "shield"]
          /\ ReleaseSlots(c)
        BY <1>4 DEF CancelDispatched
    <2>2. "shield" \notin Dispatched \cup {"principal"}
        BY DEF Dispatched
    <2>. QED
        BY <2>1, <2>2, LeaveSlots
<1>5. ASSUME NEW c \in Calls, CancelWaiting(c) PROVE SlotsConserved'
    <2>1. CASE pc[c] = "provider"
        BY <1>5, <2>1, SlotsKept DEF CancelWaiting, TypeOK, Dispatched
    <2>2. CASE pc[c] = "principal"
        <3>1. /\ providerFree' = [providerFree EXCEPT ![Provider[c]] = @ + 1]
              /\ c \in ProviderHolders(Provider[c])
            BY <1>5, <2>2 DEF CancelWaiting, ProviderHolders
        <3>2. \A p \in Providers : ProviderHolders(p)' =
                  IF p = Provider[c] THEN ProviderHolders(p) \ {c} ELSE ProviderHolders(p)
            BY <1>5 DEF CancelWaiting, ProviderHolders, Dispatched, TypeOK
        <3>3. \A o \in Principals : PrincipalHolders(o)' = PrincipalHolders(o)
            BY <1>5, <2>2 DEF CancelWaiting, PrincipalHolders, Dispatched, TypeOK
        <3>4. UNCHANGED principalFree
            BY <1>5 DEF CancelWaiting
        <3>. QED
            BY <3>1, <3>2, <3>3, <3>4, ProviderLeave DEF SlotsConserved
    <2>. QED  BY <1>5, <2>1, <2>2 DEF CancelWaiting
<1>6. CASE Crash
    <2>1. \A p \in Providers : ProviderHolders(p)' = {}
        BY <1>6 DEF Crash, ProviderHolders, Dispatched, Ended
    <2>2. \A o \in Principals : PrincipalHolders(o)' = {}
        BY <1>6 DEF Crash, PrincipalHolders, Dispatched, Ended
    <2>. QED
        BY <1>6, <2>1, <2>2, EmptySlots DEF Crash, SlotsConserved
<1>7. ASSUME NEW c \in Calls,
             Reserve(c) \/ LockLedger(c) \/ Retry(c) \/ CancelReserve(c)
                \/ CancelSettling(c) \/ CancelShielded(c)
      PROVE  SlotsConserved'
    BY <1>7, SlotsKept DEF Reserve, LockLedger, Retry, CancelReserve, CancelSettling,
        CancelShielded, TypeOK, Dispatched
<1>8. ASSUME NEW c \in Calls,
             SelectSum(c) \/ InsertRow(c) \/ UpdateRow(c) \/ LedgerError(c)
      PROVE  SlotsConserved'
    <2>1. UNCHANGED slotVars
        BY <1>8 DEF SelectSum, InsertRow, UpdateRow, LedgerError
    <2>2. pc' = pc \/ \E l \in {"rejected", "provider", "done", "failed", "cancelled", "broken"} :
                          pc' = [pc EXCEPT ![c] = l]
        BY <1>8 DEF SelectSum, InsertRow, UpdateRow, LedgerError
    <2>3. pc' # pc => pc[c] \in {"reserve", "else", "except", "shield"}
        BY <1>8 DEF SelectSum, InsertRow, UpdateRow, LedgerError
    <2>. QED
        BY <2>1, <2>2, <2>3, SlotsKept DEF TypeOK, Dispatched
<1>9. CASE Prune \/ NextDay \/ UNCHANGED vars
    BY <1>9, SlotsKept DEF Prune, NextDay, vars
<1>. QED
    BY <1>1, <1>2, <1>3, <1>4, <1>5, <1>6, <1>7, <1>8, <1>9
       DEF Next, Grant, Proceed, Cancel, Terminated

\* No path through acquire() leaks a slot or frees one twice: at every instant
\* each semaphore is short of its limit by exactly the calls inside it.
THEOREM SlotsNeverLeak == Spec => []SlotsConserved
<1>1. Init => SlotsConserved
    BY InitSlots
<1>2. TypeOK /\ JobInv /\ SlotsConserved /\ [Next]_vars => SlotsConserved'
    BY NextSlots
<1>. QED
    BY <1>1, <1>2, JobsCorrect, PTL DEF Spec

-----------------------------------------------------------------------------
(* The daily limit.                                                        *)

LEMMA LiveSets ==
    \A o, d : /\ LiveCounted(o, d) \in SUBSET Calls
              /\ LiveCounted(o, d)' \in SUBSET Calls
              /\ Spend(LiveCounted(o, d)) \in Nat
              /\ Spend(LiveCounted(o, d)') \in Nat
<1>1. \A o, d : LiveCounted(o, d) \in SUBSET Calls /\ LiveCounted(o, d)' \in SUBSET Calls
    BY DEF LiveCounted, Counted
<1>. QED
    BY <1>1, SpendType

\* A step that counts nobody new and lets no thread pass the check.
LEMMA BudgetKept ==
    ASSUME TypeOK, TypeOK', Headroom, WithinLimit,
           \A o \in Principals, d \in 0..MaxDay : LiveCounted(o, d)' \subseteq LiveCounted(o, d),
           \A c \in Calls : lock' = c /\ at'[c] = "insert"
               => lock = c /\ at[c] = "insert" /\ day'[c] = day[c]
    PROVE  Headroom' /\ WithinLimit'
<1>1. \A o \in Principals, d \in 0..MaxDay :
          Spend(LiveCounted(o, d)') <= Spend(LiveCounted(o, d))
    <2>. SUFFICES ASSUME NEW o \in Principals, NEW d \in 0..MaxDay
                  PROVE  Spend(LiveCounted(o, d)') <= Spend(LiveCounted(o, d))
        OBVIOUS
    <2>1. LiveCounted(o, d) \in SUBSET Calls /\ LiveCounted(o, d)' \in SUBSET LiveCounted(o, d)
        BY LiveSets
    <2>. QED
        BY <2>1, SpendMonotonic
<1>2. WithinLimit'
    BY <1>1, LiveSets, BilledCallAssumption DEF WithinLimit
<1>3. Headroom'
    <2>. SUFFICES ASSUME NEW c \in Calls, RejectMode, lock' = c, at'[c] = "insert"
                  PROVE  (Spend(LiveCounted(Owner[c], day[c])) + Amount[c] <= DailyLimit)'
        BY DEF Headroom
    <2>1. /\ Spend(LiveCounted(Owner[c], day[c])) + Amount[c] <= DailyLimit
          /\ day'[c] = day[c]
        BY DEF Headroom
    <2>2. Owner[c] \in Principals /\ day[c] \in 0..MaxDay /\ Amount[c] \in Nat
        BY BilledCallAssumption, SpendingAssumption DEF TypeOK
    <2>3. LiveCounted(Owner[c], day[c])' \in SUBSET LiveCounted(Owner[c], day[c])
        BY <2>1, <2>2 DEF LiveCounted, Counted
    <2>4. /\ Spend(LiveCounted(Owner[c], day[c])') <= Spend(LiveCounted(Owner[c], day[c]))
          /\ Spend(LiveCounted(Owner[c], day[c])) \in Nat
        BY <2>3, LiveSets, SpendMonotonic
    <2>5. LiveCounted(Owner[c], day[c])' \in SUBSET Calls
        BY DEF LiveCounted, Counted
    <2>6. Spend(LiveCounted(Owner[c], day[c])') \in Nat
        BY <2>5, SpendType
    <2>7. Spend(LiveCounted(Owner[c], day[c])') + Amount[c] <= DailyLimit
        BY <2>1, <2>2, <2>4, <2>6, BilledCallAssumption
    <2>8. Spend(LiveCounted(Owner[c], day[c]))' = Spend(LiveCounted(Owner[c], day[c])')
        BY DEF Spend, Units
    <2>. QED
        BY <2>7, <2>8
<1>. QED
    BY <1>2, <1>3

LEMMA InitBudget == Init => Headroom /\ WithinLimit
<1>. SUFFICES ASSUME Init PROVE Headroom /\ WithinLimit
    OBVIOUS
<1>1. Headroom
    BY BilledCallAssumption DEF Init, Headroom
<1>2. \A o, d : Units(LiveCounted(o, d)) = {}
    BY DEF Init, LiveCounted, Counted, Units
<1>3. \A o, d : Spend(LiveCounted(o, d)) = 0
    BY <1>2, FS_EmptySet DEF Spend
<1>. QED
    BY <1>1, <1>3, BilledCallAssumption DEF WithinLimit

LEMMA NextBudget ==
    TypeOK /\ JobInv /\ Headroom /\ WithinLimit /\ [Next]_vars => Headroom' /\ WithinLimit'
<1>. SUFFICES ASSUME TypeOK, JobInv, Headroom, WithinLimit, [Next]_vars
              PROVE  Headroom' /\ WithinLimit'
    OBVIOUS
<1>0. TypeOK'
    BY NextTypeJob
<1>. USE DEF Goto, EndJob, Enqueue, taskVars, jobVars, slotVars, Running
<1>1. ASSUME NEW c \in Calls, SelectSum(c) PROVE Headroom' /\ WithinLimit'
    <2>1. UNCHANGED <<row, day, holding>>
        BY <1>1 DEF SelectSum
    <2>2. \A o, d : LiveCounted(o, d)' = LiveCounted(o, d)
        BY <2>1 DEF LiveCounted, Counted
    <2>3. CASE at'[c] # "insert"
        <3>1. \A b \in Calls : lock' = b /\ at'[b] = "insert" => lock = b /\ at[b] = "insert"
            BY <1>1, <2>3, BilledCallAssumption DEF SelectSum, TypeOK
        <3>. QED
            BY <1>0, <2>1, <2>2, <3>1, BudgetKept
    <2>4. CASE at'[c] = "insert"
        <3>1. /\ RejectMode => ~(Spend(Counted(Owner[c], day[c])) + Amount[c] > DailyLimit)
              /\ at' = [at EXCEPT ![c] = "insert"]
              /\ UNCHANGED lock
            BY <1>1, <2>4 DEF SelectSum, TypeOK
        <3>2. /\ LiveCounted(Owner[c], day[c]) \in SUBSET Counted(Owner[c], day[c])
              /\ Counted(Owner[c], day[c]) \in SUBSET Calls
            BY DEF LiveCounted, Counted
        <3>3. /\ Spend(LiveCounted(Owner[c], day[c])) <= Spend(Counted(Owner[c], day[c]))
              /\ Spend(Counted(Owner[c], day[c])) \in Nat
            BY <3>2, SpendMonotonic, SpendType
        <3>4. RejectMode => Spend(LiveCounted(Owner[c], day[c])) + Amount[c] <= DailyLimit
            BY <3>1, <3>3, LiveSets, SpendingAssumption, BilledCallAssumption
        <3>5. WithinLimit'
            BY <2>2 DEF WithinLimit
        <3>6. Headroom'
            BY <2>1, <2>2, <3>1, <3>4 DEF Headroom, TypeOK
        <3>. QED  BY <3>5, <3>6
    <2>. QED  BY <2>3, <2>4
<1>2. ASSUME NEW c \in Calls, InsertRow(c), pc[c] = "reserve" PROVE Headroom' /\ WithinLimit'
    <2>1. lock = c /\ at[c] = "insert"
        BY <1>2 DEF InsertRow, JobInv
    <2>2. lock' = NoCall
        BY <1>2, <2>1 DEF InsertRow
    <2>3. Headroom'
        BY <2>2, BilledCallAssumption DEF Headroom
    <2>4. /\ row' = [row EXCEPT ![c] = "reserved"]
          /\ holding' = [holding EXCEPT ![c] = TRUE]
          /\ UNCHANGED day
        BY <1>2 DEF InsertRow
    <2>5. c \notin LiveCounted(Owner[c], day[c])
        BY <1>2 DEF LiveCounted, JobInv
    <2>6. /\ \A b \in Calls : b # c => row'[b] = row[b] /\ holding'[b] = holding[b]
          /\ row'[c] = "reserved"
        BY <2>4 DEF TypeOK
    <2>7. holding'[c]
        <3>1. holding \in [Calls -> BOOLEAN]
            BY DEF TypeOK
        <3>. QED
            BY ONLY <2>4, <3>1, c \in Calls, Zenon
    <2>8. \A o \in Principals, d \in 1..MaxDay :
             LiveCounted(o, d)' = LiveCounted(o, d) \/ (o = Owner[c] /\ d = day[c])
        BY <2>4, <2>6, <2>7 DEF LiveCounted, Counted
    <2>9. LiveCounted(Owner[c], day[c]) \in SUBSET Calls
        BY LiveSets
    <2>10. Spend(LiveCounted(Owner[c], day[c]) \cup {c})
              = Spend(LiveCounted(Owner[c], day[c])) + Amount[c]
        BY <2>5, <2>9, SpendAdd
    <2>11. RejectMode => Spend(LiveCounted(Owner[c], day[c]) \cup {c}) <= DailyLimit
        BY <2>1, <2>10 DEF Headroom
    <2>12. WithinLimit'
        <3>. SUFFICES ASSUME RejectMode, NEW o \in Principals, NEW d \in 1..MaxDay
                      PROVE  Spend(LiveCounted(o, d)') <= DailyLimit
            BY DEF WithinLimit
        <3>1. CASE LiveCounted(o, d)' = LiveCounted(o, d)
            BY <3>1 DEF WithinLimit
        <3>2. CASE o = Owner[c] /\ d = day[c]
            <4>1. LiveCounted(o, d)' = LiveCounted(Owner[c], day[c]) \cup {c}
                BY <2>4, <2>6, <2>7, <3>2 DEF LiveCounted, Counted
            <4>. QED
                BY <2>11, <4>1
        <3>. QED  BY <2>8, <3>1, <3>2
    <2>. QED  BY <2>3, <2>12
<1>3. ASSUME NEW c \in Calls, InsertRow(c), pc[c] # "reserve" PROVE Headroom' /\ WithinLimit'
    <2>1. ~holding[c] /\ UNCHANGED <<holding, day>> /\ row' = [row EXCEPT ![c] = "reserved"]
        BY <1>3 DEF InsertRow, JobInv
    <2>2. \A o, d : LiveCounted(o, d)' \subseteq LiveCounted(o, d)
        BY <2>1 DEF LiveCounted, Counted, TypeOK
    <2>. QED
        BY <1>0, <1>3, <2>1, <2>2, BudgetKept, BilledCallAssumption DEF InsertRow, TypeOK
<1>4. ASSUME NEW c \in Calls, UpdateRow(c) PROVE Headroom' /\ WithinLimit'
    <2>1. /\ UNCHANGED <<holding, day>>
          /\ row[c] \in {"reserved", "pruned"}
          /\ row[c] = "pruned" => row'[c] = "pruned"
          /\ \A b \in Calls : b # c => row'[b] = row[b]
        <3>1. at[c] = "update" /\ op[c] \in {"commit", "release"}
            BY <1>4 DEF UpdateRow, JobInv
        <3>2. row[c] \in {"reserved", "pruned"}
            BY <3>1 DEF JobInv
        <3>3. PICK s : row' = [row EXCEPT ![c] = s]
            BY <1>4 DEF UpdateRow
        <3>4. row[c] = "pruned" => row' = [row EXCEPT ![c] = "pruned"]
            BY <1>4 DEF UpdateRow
        <3>5. UNCHANGED <<holding, day>>
            BY <1>4 DEF UpdateRow
        <3>6. row[c] = "pruned" => row'[c] = "pruned"
            BY <3>4 DEF TypeOK
        <3>7. \A b \in Calls : b # c => row'[b] = row[b]
            BY <3>3 DEF TypeOK
        <3>. QED
            BY <3>2, <3>5, <3>6, <3>7
    <2>2. \A o, d : LiveCounted(o, d)' \subseteq LiveCounted(o, d)
        BY <2>1 DEF LiveCounted, Counted, TypeOK
    <2>. QED
        BY <1>0, <1>4, <2>1, <2>2, BudgetKept, BilledCallAssumption DEF UpdateRow, TypeOK
<1>5. CASE Prune
    <2>1. /\ UNCHANGED <<holding, day, lock, at>>
          /\ \A b \in Calls : row'[b] \in {row[b], "pruned"}
        BY <1>5 DEF Prune
    <2>2. \A o, d : LiveCounted(o, d)' \subseteq LiveCounted(o, d)
        BY <2>1 DEF LiveCounted, Counted, TypeOK
    <2>. QED
        BY <1>0, <2>1, <2>2, BudgetKept
<1>6. ASSUME NEW c \in Calls, Reserve(c) PROVE Headroom' /\ WithinLimit'
    <2>1. /\ UNCHANGED <<holding, row, lock>>
          /\ day' = [day EXCEPT ![c] = today]
          /\ row[c] = "none"
          /\ at' = [at EXCEPT ![c] = "queued"]
        BY <1>6 DEF Reserve, JobInv
    <2>2. \A o, d : LiveCounted(o, d)' \subseteq LiveCounted(o, d)
        BY <2>1 DEF LiveCounted, Counted, TypeOK
    <2>. QED
        BY <1>0, <2>1, <2>2, BudgetKept DEF TypeOK
<1>7. ASSUME UNCHANGED <<row, day, holding>>,
             \A c \in Calls : lock' = c /\ at'[c] = "insert" => lock = c /\ at[c] = "insert"
      PROVE  Headroom' /\ WithinLimit'
    <2>1. \A o, d : LiveCounted(o, d)' = LiveCounted(o, d)
        BY <1>7 DEF LiveCounted, Counted
    <2>. QED
        BY <1>0, <1>7, <2>1, BudgetKept
<1>8. ASSUME NEW c \in Calls,
             \/ LockLedger(c) \/ AcquireProvider(c) \/ AcquirePrincipal(c) \/ Retry(c)
             \/ LedgerError(c) \/ Cancel(c)
      PROVE  /\ UNCHANGED <<row, day, holding>>
             /\ \A b \in Calls : lock' = b /\ at'[b] = "insert" => lock = b /\ at[b] = "insert"
    BY <1>8, BilledCallAssumption
       DEF LockLedger, AcquireProvider, AcquirePrincipal, Retry, LedgerError, Cancel,
           CancelReserve, CancelWaiting, CancelDispatched, CancelSettling, CancelShielded,
           AbandonJob, TypeOK
<1>9. ASSUME NEW c \in Calls, Respond(c)
      PROVE  /\ UNCHANGED <<row, day, holding>>
             /\ \A b \in Calls : lock' = b /\ at'[b] = "insert" => lock = b /\ at[b] = "insert"
    <2>1. UNCHANGED <<row, day, holding, lock>>
        BY <1>9 DEF Respond
    <2>2. UNCHANGED at \/ at' = [at EXCEPT ![c] = "queued"]
        BY <1>9 DEF Respond
    <2>. QED
        BY <2>1, <2>2 DEF TypeOK
<1>10. CASE NextDay \/ Crash \/ UNCHANGED vars
    BY <1>7, <1>10, BilledCallAssumption DEF NextDay, Crash, vars
<1>. QED
    BY <1>1, <1>2, <1>3, <1>4, <1>5, <1>6, <1>7, <1>8, <1>9, <1>10
       DEF Next, Grant, Proceed, Terminated

\* The reservations that calls work under stay within the daily limit of their
\* principal: reserve() reads the sum and inserts in two statements, a thread
\* outlives the cancellation of its call and the lock, and still no interleaving
\* of threads, no restart and no sweep lets two calls spend the same headroom.
THEOREM DailyLimitHolds == Spec => []WithinLimit
<1>1. Init => Headroom /\ WithinLimit
    BY InitBudget
<1>2. TypeOK /\ JobInv /\ Headroom /\ WithinLimit /\ [Next]_vars => Headroom' /\ WithinLimit'
    BY NextBudget
<1>. QED
    BY <1>1, <1>2, JobsCorrect, PTL DEF Spec

-----------------------------------------------------------------------------
(* What the provider has acted on is paid for.                             *)

\* Before a call leaves its body the provider has acted on nothing; what it has
\* acted on has one reservation, which is kept or charged, or older than the
\* retention of the ledger.
AcceptInv ==
    \A c \in Calls :
        /\ accepted[c] <= 1
        /\ pc[c] \in {"idle", "reserve", "provider", "principal", "inflight", "backoff"}
              => accepted[c] = 0
        /\ accepted[c] > 0 => /\ holding[c] /\ op[c] \in {"none", "commit"}
                              /\ row[c] \in {"reserved", "committed", "pruned"}
        /\ row[c] = "pruned" => day[c] < today - PruneAge

LEMMA InitAccept == Init => AcceptInv
BY DEF Init, AcceptInv

\* The assumption leaves the two answers out that are taken for a request the
\* provider has not acted on although it may have.
LEMMA NextAccept ==
    ASSUME "transport_error" \notin Outcomes, "invalid_response" \notin Outcomes,
           TypeOK, JobInv, AcceptInv, [Next]_vars
    PROVE  AcceptInv'
<1>. USE BilledCallAssumption
         DEF TypeOK, JobInv, AcceptInv, Running, Dispatched, Ended, Rows, Ops,
             taskVars, jobVars, slotVars, Goto, Enqueue, EndJob
<1>1. ASSUME NEW c \in Calls, Reserve(c) PROVE AcceptInv'
    BY <1>1 DEF Reserve
<1>2. ASSUME NEW c \in Calls, LockLedger(c) PROVE AcceptInv'
    BY <1>2 DEF LockLedger
<1>3. ASSUME NEW c \in Calls, AcquireProvider(c) PROVE AcceptInv'
    BY <1>3 DEF AcquireProvider
<1>4. ASSUME NEW c \in Calls, AcquirePrincipal(c) PROVE AcceptInv'
    BY <1>4 DEF AcquirePrincipal
<1>5. ASSUME NEW c \in Calls, SelectSum(c) PROVE AcceptInv'
    BY <1>5 DEF SelectSum
<1>6. ASSUME NEW c \in Calls, InsertRow(c) PROVE AcceptInv'
    <2>1. /\ ~holding[c] /\ row[c] = "none" /\ accepted[c] = 0
          /\ row' = [row EXCEPT ![c] = "reserved"]
          /\ op' = [op EXCEPT ![c] = "none"]
          /\ pc' = [pc EXCEPT ![c] = "provider"] \/ UNCHANGED pc
          /\ UNCHANGED <<day, accepted, today>>
        BY <1>6 DEF InsertRow
    <2>2. \A b \in Calls : b # c => holding'[b] = holding[b]
        BY <1>6 DEF InsertRow
    <2>. QED
        BY <2>1, <2>2
<1>7. ASSUME NEW c \in Calls, UpdateRow(c) PROVE AcceptInv'
    BY <1>7 DEF UpdateRow
<1>8. ASSUME NEW c \in Calls, Respond(c) PROVE AcceptInv'
    <2>1. PICK outcome \in Outcomes : Respond(c)!2!(outcome)
        BY <1>8 DEF Respond
    <2>2. PICK n \in MayHaveActed(outcome) : accepted' = [accepted EXCEPT ![c] = @ + n]
        BY <2>1
    <2>3. /\ outcome \in AllOutcomes
          /\ outcome \notin {"transport_error", "invalid_response"}
          /\ accepted[c] = 0 /\ holding[c] /\ row[c] \in {"reserved", "pruned"}
          /\ op[c] = "none" /\ pc[c] = "inflight"
        BY <1>8 DEF Respond
    <2>4. /\ n \in {0, 1}
          /\ n = 1 => outcome \in {"ok", "server_error", "timeout"}
        BY <2>3 DEF MayHaveActed, AllOutcomes
    <2>5. CASE CanRetry(c, outcome)
        <3>1. n = 0
            BY <2>4, <2>5 DEF CanRetry, Retryable, Ambiguous
        <3>. QED
            BY <1>8, <2>1, <2>2, <2>3, <2>5, <3>1 DEF Respond
    <2>6. CASE ~CanRetry(c, outcome)
        <3>1. n = 1 => Settlement(outcome) = "commit"
            BY <2>4 DEF Settlement, Ambiguous
        <3>2. /\ op' = [op EXCEPT ![c] = Settlement(outcome)]
              /\ pc' = [pc EXCEPT ![c] = "else"] \/ pc' = [pc EXCEPT ![c] = "except"]
              /\ UNCHANGED <<row, day, holding, today>>
            BY <1>8, <2>1, <2>6 DEF Respond
        <3>. QED
            BY <2>2, <2>3, <2>4, <3>1, <3>2
    <2>. QED  BY <2>5, <2>6
<1>9. ASSUME NEW c \in Calls, Retry(c) PROVE AcceptInv'
    BY <1>9 DEF Retry
<1>10. ASSUME NEW c \in Calls, LedgerError(c) PROVE AcceptInv'
    BY <1>10 DEF LedgerError
<1>11. ASSUME NEW c \in Calls, CancelReserve(c) PROVE AcceptInv'
    BY <1>11 DEF CancelReserve, AbandonJob
<1>12. ASSUME NEW c \in Calls, CancelWaiting(c) PROVE AcceptInv'
    BY <1>12 DEF CancelWaiting
<1>13. ASSUME NEW c \in Calls, CancelDispatched(c) PROVE AcceptInv'
    BY <1>13 DEF CancelDispatched
<1>14. ASSUME NEW c \in Calls, CancelSettling(c) PROVE AcceptInv'
    BY <1>14 DEF CancelSettling, AbandonJob
<1>15. ASSUME NEW c \in Calls, CancelShielded(c) PROVE AcceptInv'
    BY <1>15 DEF CancelShielded
<1>16. CASE Prune
    BY <1>16 DEF Prune
<1>17. CASE NextDay
    BY <1>17 DEF NextDay
<1>18. CASE Crash
    BY <1>18 DEF Crash
<1>19. CASE UNCHANGED vars
    BY <1>19 DEF vars
<1>. QED
    BY <1>1, <1>2, <1>3, <1>4, <1>5, <1>6, <1>7, <1>8, <1>9, <1>10, <1>11, <1>12, <1>13, <1>14, <1>15, <1>16, <1>17, <1>18, <1>19
       DEF Next, Grant, Proceed, Cancel, Terminated

LEMMA AcceptedPaid ==
    ASSUME "transport_error" \notin Outcomes, "invalid_response" \notin Outcomes
    PROVE  Spec => []AcceptInv
<1>1. TypeOK /\ JobInv /\ AcceptInv /\ [Next]_vars => AcceptInv'
    BY NextAccept
<1>. QED
    BY <1>1, InitAccept, JobsCorrect, PTL DEF Spec

\* One reservation pays for one request: if a broken connection and an unreadable
\* success are left aside (they are not taken for ambiguous), call_with_retry
\* repeats nothing the provider has acted on, whatever is cancelled or dies.
THEOREM OneRequestPerReservation ==
    ASSUME "transport_error" \notin Outcomes, "invalid_response" \notin Outcomes
    PROVE  Spec => []AtMostOneAccepted
<1>1. AcceptInv => AtMostOneAccepted
    BY DEF AcceptInv, AtMostOneAccepted
<1>. QED
    BY <1>1, AcceptedPaid, PTL

\* Under the same assumption the money a principal spends in a day, on whatever
\* the provider has acted on, stays within the daily limit: through retries,
\* cancellations of any await, ledger errors, crashes and retention.
THEOREM MoneyWithinLimit ==
    ASSUME "transport_error" \notin Outcomes, "invalid_response" \notin Outcomes
    PROVE  Spec => []BilledWithinLimit
<1>1. TypeOK /\ AcceptInv /\ WithinLimit => BilledWithinLimit
    <2>. SUFFICES ASSUME TypeOK, AcceptInv, WithinLimit, RejectMode,
                         NEW o \in Principals, NEW d \in 1..MaxDay, d >= today - PruneAge
                  PROVE  Spend({c \in Calls : Owner[c] = o /\ day[c] = d /\ accepted[c] > 0})
                             <= DailyLimit
        BY DEF BilledWithinLimit
    <2>. DEFINE S == {c \in Calls : Owner[c] = o /\ day[c] = d /\ accepted[c] > 0}
    <2>1. S \in SUBSET LiveCounted(o, d)
        BY BilledCallAssumption DEF AcceptInv, LiveCounted, Counted, TypeOK
    <2>2. /\ LiveCounted(o, d) \in SUBSET Calls
          /\ Spend(LiveCounted(o, d)) \in Nat
          /\ Spend(LiveCounted(o, d)) <= DailyLimit
        BY LiveSets DEF WithinLimit
    <2>3. S \in SUBSET Calls
        OBVIOUS
    <2>. HIDE DEF S
    <2>4. Spend(S) <= Spend(LiveCounted(o, d)) /\ Spend(S) \in Nat
        BY <2>1, <2>2, <2>3, SpendMonotonic, SpendType
    <2>5. Spend(S) <= DailyLimit
        BY <2>2, <2>4, BilledCallAssumption
    <2>. QED
        BY <2>5 DEF S
<1>. QED
    BY <1>1, AcceptedPaid, JobsCorrect, DailyLimitHolds, PTL

-----------------------------------------------------------------------------
(* A settled row is final.                                                 *)

LEMMA RowSteps ==
    ASSUME TypeOK, JobInv, [Next]_vars
    PROVE  \/ UNCHANGED row
           \/ \E c \in Calls : InsertRow(c) \/ UpdateRow(c)
           \/ Prune
BY DEF Next, Grant, Proceed, Cancel, Terminated, vars, Reserve, LockLedger, AcquireProvider,
       AcquirePrincipal, SelectSum, Respond, Retry, LedgerError, CancelReserve, CancelWaiting,
       CancelDispatched, CancelSettling, CancelShielded, NextDay, Crash

\* A settled row is final: whatever threads, cancellations, sweeps and restarts
\* do, a released estimate is not charged later nor a charged one given back.
THEOREM SettlementIsFinal == Spec => SettledOnce
<1>. DEFINE Final == \A c \in Calls : row[c] \in {"committed", "released", "pruned"}
                                          => row'[c] \in {row[c], "pruned"}
<1>1. TypeOK /\ JobInv /\ [Next]_vars => Final
    <2>. SUFFICES ASSUME TypeOK, JobInv, [Next]_vars PROVE Final
        OBVIOUS
    <2>1. CASE UNCHANGED row
        BY <2>1
    <2>2. ASSUME NEW c \in Calls, InsertRow(c) PROVE Final
        <3>1. row[c] = "none"
            BY <2>2 DEF InsertRow, JobInv
        <3>2. row' = [row EXCEPT ![c] = "reserved"]
            BY <2>2 DEF InsertRow
        <3>. QED
            BY <3>1, <3>2 DEF TypeOK
    <2>3. ASSUME NEW c \in Calls, UpdateRow(c) PROVE Final
        <3>1. row[c] \in {"reserved", "pruned"}
            BY <2>3 DEF UpdateRow, JobInv
        <3>2. PICK s : row' = [row EXCEPT ![c] = s]
            BY <2>3 DEF UpdateRow
        <3>3. row[c] = "pruned" => row' = [row EXCEPT ![c] = "pruned"]
            BY <2>3 DEF UpdateRow
        <3>. QED
            BY <3>1, <3>2, <3>3 DEF TypeOK
    <2>4. CASE Prune
        BY <2>4 DEF Prune
    <2>. QED
        BY <2>1, <2>2, <2>3, <2>4, RowSteps
<1>. QED
    BY <1>1, JobsCorrect, PTL DEF Spec, SettledOnce

-----------------------------------------------------------------------------
(* The ledger implements the atomic budget.                                *)

status   == [c \in Calls |-> IF holding[c] THEN row[c] ELSE "none"]
bookedOn == [c \in Calls |-> IF holding[c] THEN day[c] ELSE 0]

\* What the abstract budget adds up are the live reservations.
LEMMA AbstractCounted ==
    ASSUME NEW o \in Principals, NEW d \in 1..MaxDay
    PROVE  Budget!Counted(o, d) = LiveCounted(o, d)
BY DEF Budget!Counted, LiveCounted, Counted

LEMMA InitRefines == Init => Budget!Init
BY DEF Init, Budget!Init

LEMMA StepRefines ==
    TypeOK /\ JobInv /\ Headroom /\ [Next]_vars => [Budget!Next]_(Budget!vars)
<1>. SUFFICES ASSUME TypeOK, JobInv, Headroom, [Next]_vars
              PROVE  Budget!Next \/ UNCHANGED <<status, bookedOn>>
    BY DEF Budget!vars, status, bookedOn
<1>. USE DEF Goto, EndJob, Enqueue, taskVars, jobVars, slotVars
<1>1. ASSUME NEW c \in Calls, InsertRow(c), pc[c] = "reserve" PROVE Budget!Next
    <2>1. /\ lock = c /\ at[c] = "insert"
          /\ ~holding[c] /\ day[c] \in 1..MaxDay
        BY <1>1 DEF InsertRow, JobInv, TypeOK
    <2>2. /\ row' = [row EXCEPT ![c] = "reserved"]
          /\ holding' = [holding EXCEPT ![c] = TRUE]
          /\ UNCHANGED day
        BY <1>1 DEF InsertRow
    <2>3. \A b \in Calls : holding'[b] <=> holding[b] \/ b = c
        <3>1. holding \in [Calls -> BOOLEAN]
            BY DEF TypeOK
        <3>. QED
            BY ONLY <2>2, <3>1, Zenon
    <2>4. \A b \in Calls : row'[b] = IF b = c THEN "reserved" ELSE row[b]
        BY <2>2 DEF TypeOK
    <2>5. status[c] = "none"
        BY <2>1 DEF status
    <2>6. status' = [status EXCEPT ![c] = "reserved"]
        BY <2>3, <2>4 DEF status
    <2>7. bookedOn' = [bookedOn EXCEPT ![c] = day[c]]
        BY <2>2, <2>3 DEF bookedOn
    <2>8. RejectMode => Spend(Budget!Counted(Owner[c], day[c])) + Amount[c] <= DailyLimit
        BY <2>1, AbstractCounted, BilledCallAssumption DEF Headroom
    <2>9. PICK d \in 1..MaxDay : d = day[c]
        BY <2>1
    <2>10. Budget!Book(c, d)
        BY <2>5, <2>6, <2>7, <2>8, <2>9 DEF Budget!Book, status, bookedOn
    <2>. QED
        BY <2>10 DEF Budget!Next
<1>2. ASSUME NEW c \in Calls, InsertRow(c), pc[c] # "reserve"
      PROVE  UNCHANGED <<status, bookedOn>>
    <2>1. ~holding[c] /\ UNCHANGED <<holding, day>> /\ row' = [row EXCEPT ![c] = "reserved"]
        BY <1>2 DEF InsertRow, JobInv
    <2>. QED
        BY <2>1 DEF TypeOK, status, bookedOn
<1>3. ASSUME NEW c \in Calls, UpdateRow(c)
      PROVE  Budget!Next \/ UNCHANGED <<status, bookedOn>>
    <2>1. /\ holding[c] /\ row[c] \in {"reserved", "pruned"}
          /\ op[c] \in {"commit", "release"}
          /\ UNCHANGED <<holding, day>>
        BY <1>3 DEF UpdateRow, JobInv
    <2>2. UNCHANGED bookedOn
        BY <2>1 DEF bookedOn
    <2>3. CASE row[c] = "pruned"
        <3>1. row' = [row EXCEPT ![c] = "pruned"]
            BY <1>3, <2>3 DEF UpdateRow
        <3>2. row' = row
            BY <2>3, <3>1 DEF TypeOK
        <3>. QED
            BY <2>1, <2>2, <3>2 DEF status
    <2>4. CASE row[c] = "reserved"
        <3>1. PICK s \in {"committed", "released"} : row' = [row EXCEPT ![c] = s]
            BY <1>3, <2>4 DEF UpdateRow
        <3>2. status[c] = "reserved"
            BY <2>1, <2>4 DEF status
        <3>3. status' = [status EXCEPT ![c] = s]
            BY <2>1, <3>1 DEF status, TypeOK
        <3>4. Budget!Settle(c)
            BY <2>2, <3>2, <3>3 DEF Budget!Settle, status, bookedOn
        <3>. QED
            BY <3>4 DEF Budget!Next
    <2>. QED  BY <2>1, <2>3, <2>4
<1>4. CASE Prune
    <2>. DEFINE old == {c \in Calls : row[c] # "none" /\ day[c] < today - PruneAge}
                kept == {c \in old : holding[c]}
    <2>1. /\ row' = [c \in Calls |-> IF c \in old THEN "pruned" ELSE row[c]]
          /\ UNCHANGED <<holding, day>>
        BY <1>4 DEF Prune
    <2>2. UNCHANGED bookedOn
        BY <2>1 DEF bookedOn
    <2>3. status' = [c \in Calls |-> IF c \in kept THEN "pruned" ELSE status[c]]
        BY <2>1 DEF status
    <2>4. kept \in SUBSET {c \in Calls : status[c] # "none"}
        BY DEF status
    <2>. HIDE DEF kept
    <2>5. Budget!Forget
        BY <2>2, <2>3, <2>4 DEF Budget!Forget, status, bookedOn
    <2>. QED
        BY <2>5 DEF Budget!Next
<1>5. ASSUME NEW c \in Calls, Reserve(c) PROVE UNCHANGED <<status, bookedOn>>
    BY <1>5 DEF Reserve, JobInv, TypeOK, status, bookedOn
<1>6. CASE UNCHANGED <<row, day, holding>>
    BY <1>6 DEF status, bookedOn
<1>. QED
    BY <1>1, <1>2, <1>3, <1>4, <1>5, <1>6
       DEF Next, Grant, Proceed, Cancel, Terminated, vars, LockLedger, AcquireProvider,
           AcquirePrincipal, SelectSum, Respond, Retry, LedgerError, CancelReserve, CancelWaiting,
           CancelDispatched, CancelSettling, CancelShielded, NextDay, Crash

\* The ledger with its lock, its worker threads and its two statements behaves,
\* for the calls that hold a reservation, like the atomic budget of BudgetSpec:
\* no cancelled reserve(), late thread or restart is visible as more than a
\* booking that was never made.
THEOREM LedgerImplementsBudget == Spec => ImplementsBudget
<1>1. TypeOK /\ JobInv /\ Headroom /\ WithinLimit /\ [Next]_vars => Headroom' /\ WithinLimit'
    BY NextBudget
<1>2. Init => Headroom /\ WithinLimit
    BY InitBudget
<1>3. Init => Budget!Init
    BY InitRefines
<1>4. TypeOK /\ JobInv /\ Headroom /\ [Next]_vars => [Budget!Next]_(Budget!vars)
    BY StepRefines
<1>. QED
    BY <1>1, <1>2, <1>3, <1>4, JobsCorrect, PTL DEF Spec, ImplementsBudget, Budget!Spec
=============================================================================
