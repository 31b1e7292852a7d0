--------------------------- MODULE PrincipalSlots ---------------------------
(***************************************************************************)
(* How many calls of one principal ProviderLimiters lets run: each remote  *)
(* principal has a semaphore in a TTL cache.  Using it does not renew its  *)
(* place there, so a principal who keeps calling is given a new semaphore  *)
(* now and then, while calls under the old one go on.  (BilledCall has the *)
(* two semaphores of one such period, with their waiters.)                 *)
(***************************************************************************)
EXTENDS Integers, FiniteSets

CONSTANTS
    SlotCalls,
    SlotOwners,         \* remote principals, fewer than the cache has places
    ProviderLimit,
    PrincipalLimit,
    Ttl,                \* principal_ttl_seconds
    LongestCall,        \* bound: a call, its wait included, takes less than the TTL
    LastHour

ASSUME SlotsAssumption ==
    /\ IsFiniteSet(SlotCalls)
    /\ PrincipalLimit \in Nat /\ Ttl \in Nat \ {0} /\ LongestCall \in Nat /\ LongestCall <= Ttl

VARIABLES
    cached,     \* cached[p]: the semaphore p has in the cache
    made,       \* semaphores made for p
    slot,       \* slot[x]: call x
    hour

slotVars == <<cached, made, slot, hour>>

NoSemaphore == [number |-> 0, at |-> 0]
NoCall == [pc |-> "idle", by |-> "nobody", number |-> 0, at |-> 0]

SlotInit ==
    /\ cached = [p \in SlotOwners |-> NoSemaphore]
    /\ made = [p \in SlotOwners |-> 0]
    /\ slot = [x \in SlotCalls |-> NoCall]
    /\ hour = 0

At(l) == {x \in SlotCalls : slot[x].pc = l}
Running(p) == {x \in At("running") : slot[x].by = p}
ProviderTaken == Cardinality(At("principal") \cup At("running"))
PrincipalTaken(p, n) == Cardinality({x \in Running(p) : slot[x].number = n})

\* Variant: the cache is asked for a place of its own by every call.
PrincipalAnew(x, p) ==
    /\ slot[x].pc = "idle"
    /\ made' = [made EXCEPT ![p] = @ + 1]
    /\ cached' = [cached EXCEPT ![p] = [number |-> made[p] + 1, at |-> hour]]
    /\ slot' = [slot EXCEPT ![x] = [pc |-> "provider", by |-> p, number |-> made[p] + 1, at |-> hour]]
    /\ UNCHANGED hour

\* The semaphore is looked up before the call waits for anything.
Principal(x, p) ==
    /\ slot[x].pc = "idle"
    /\ IF cached[p].number # 0 /\ hour < cached[p].at + Ttl
       THEN UNCHANGED <<cached, made>>
       ELSE /\ made' = [made EXCEPT ![p] = @ + 1]
            /\ cached' = [cached EXCEPT ![p] = [number |-> made[p] + 1, at |-> hour]]
    /\ slot' = [slot EXCEPT ![x] = [pc |-> "provider", by |-> p,
                                    number |-> cached'[p].number, at |-> hour]]
    /\ UNCHANGED hour

TakeProvider(x) ==
    /\ slot[x].pc = "provider"
    /\ ProviderTaken < ProviderLimit
    /\ slot' = [slot EXCEPT ![x].pc = "principal"]
    /\ UNCHANGED <<cached, made, hour>>

\* The place of the provider is held during this wait.
TakePrincipal(x) ==
    /\ slot[x].pc = "principal"
    /\ PrincipalTaken(slot[x].by, slot[x].number) < PrincipalLimit
    /\ slot' = [slot EXCEPT ![x].pc = "running"]
    /\ UNCHANGED <<cached, made, hour>>

\* The call returns, fails or is cancelled, waiting or running.
LeaveSlots(x) ==
    /\ slot[x].pc # "idle"
    /\ slot' = [slot EXCEPT ![x] = NoCall]
    /\ UNCHANGED <<cached, made, hour>>

NextHour ==
    /\ hour < LastHour
    /\ \A x \in SlotCalls : slot[x].pc # "idle" => hour - slot[x].at < LongestCall
    /\ hour' = hour + 1
    /\ UNCHANGED <<cached, made, slot>>

SlotNext ==
    \/ \E x \in SlotCalls, p \in SlotOwners : Principal(x, p)
    \/ \E x \in SlotCalls : TakeProvider(x) \/ TakePrincipal(x) \/ LeaveSlots(x)
    \/ NextHour

SlotSpec == SlotInit /\ [][SlotNext]_slotVars

-----------------------------------------------------------------------------
\* Forgetting a semaphore that calls still hold lets a principal exceed
\* principal_limit, but never by more than once again, as long as no call
\* outlives the time a semaphore stays in the cache.
AtMostTwicePrincipalLimit ==
    \A p \in SlotOwners : Cardinality(Running(p)) <= 2 * PrincipalLimit
=============================================================================
