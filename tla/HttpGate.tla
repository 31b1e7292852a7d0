------------------------------ MODULE HttpGate ------------------------------
(***************************************************************************)
(* RateLimitMiddleware: every client address has a token bucket; when too  *)
(* many are kept, those that have refilled are forgotten, and a client     *)
(* without a bucket starts with a full one.  Tokens are counted in units,  *)
(* Whole to a request, and one unit comes back every tick.                 *)
(***************************************************************************)
EXTENDS Integers, FiniteSets

CONSTANTS
    Clients,
    MaxBuckets,     \* _MAX_BUCKETS
    Capacity,       \* burst, in units
    Whole,          \* units of one request
    LastTick

ASSUME GateAssumption == Capacity \in Nat /\ Whole \in Nat /\ LastTick \in Nat

VARIABLES
    bucket,     \* bucket[k]: the units left and when they were counted
    admitted,   \* admitted[k][t]: the requests of k let through until the end of tick t
    tick

gateVars == <<bucket, admitted, tick>>

NoBucket == [units |-> -1, at |-> 0]

GateInit ==
    /\ bucket = [k \in Clients |-> NoBucket]
    /\ admitted = [k \in Clients |-> [t \in 0..LastTick |-> 0]]
    /\ tick = 0

Least(a, b) == IF a <= b THEN a ELSE b
Kept == {k \in Clients : bucket[k] # NoBucket}
Elapsed(k) == tick - bucket[k].at

\* Variant: a bucket counts as refilled once a request would pass.
PassableAgain(k) == bucket[k].units + Elapsed(k) >= Whole

RefilledAgain(k) == bucket[k].units >= Capacity \/ Elapsed(k) >= Capacity - bucket[k].units

\* Run by the request that finds too many buckets, its own among them.
Evicted == IF Cardinality(Kept) > MaxBuckets THEN {k \in Kept : RefilledAgain(k)} ELSE {}

Units(k) ==
    IF k \in Kept \ Evicted THEN Least(Capacity, bucket[k].units + Elapsed(k)) ELSE Capacity

Charge(k, units) ==
    bucket' = [j \in Clients |-> IF j = k THEN [units |-> units, at |-> tick]
                                 ELSE IF j \in Evicted THEN NoBucket ELSE bucket[j]]

Admit(k) ==
    /\ Units(k) >= Whole
    /\ Charge(k, Units(k) - Whole)
    /\ admitted' = [admitted EXCEPT ![k][tick] = @ + 1]
    /\ UNCHANGED tick

\* 429 with Retry-After: the time until a whole token is back.
Reject(k) ==
    /\ Units(k) < Whole
    /\ Charge(k, Units(k))
    /\ UNCHANGED <<admitted, tick>>

NextTick ==
    /\ tick < LastTick /\ tick' = tick + 1
    /\ admitted' = [k \in Clients |-> [admitted[k] EXCEPT ![tick + 1] = admitted[k][tick]]]
    /\ UNCHANGED bucket

GateNext == NextTick \/ \E k \in Clients : Admit(k) \/ Reject(k)

GateSpec == GateInit /\ [][GateNext]_gateVars

-----------------------------------------------------------------------------
Before(k, a) == IF a = 0 THEN 0 ELSE admitted[k][a - 1]
Requests(k, a, b) == admitted[k][b] - Before(k, a)

\* In no span of time does a client get more than the burst and what the rate
\* gives for the span, whatever buckets are forgotten in between.
RateHolds ==
    \A k \in Clients : \A a, b \in 0..tick :
        a <= b => Whole * Requests(k, a, b) <= Capacity + (b - a)
=============================================================================
