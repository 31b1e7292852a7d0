------------------------------ MODULE Spending ------------------------------
(***************************************************************************)
(* How much a set of billed calls costs.  The ledger stores a REAL number  *)
(* of dollars per reservation and adds them up with SQL's SUM; here an     *)
(* amount is a whole number of indivisible units, and the total of a set   *)
(* of calls is the number of units its members own.  Written this way the  *)
(* total is the cardinality of a finite set, which both TLC and the proof  *)
(* system can reason about.                                                *)
(***************************************************************************)
EXTENDS Integers, FiniteSets

CONSTANTS
    Calls,        \* the billed calls, each of which reserves at most once
    Amount,       \* Amount[c]: the estimate of call c, in units
    MaxAmount     \* the largest estimate, a bound for enumeration only

ASSUME SpendingAssumption ==
    /\ IsFiniteSet(Calls)
    /\ MaxAmount \in Nat
    /\ Amount \in [Calls -> 0..MaxAmount]

\* The units owned by the calls of S.
Units(S) == {u \in S \X (1..MaxAmount) : u[2] <= Amount[u[1]]}

\* SUM(amount_usd) over the reservations of S.
Spend(S) == Cardinality(Units(S))
=============================================================================
