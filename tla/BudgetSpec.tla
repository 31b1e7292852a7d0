----------------------------- MODULE BudgetSpec -----------------------------
(***************************************************************************)
(* What the daily budget promises a principal, with no threads, locks or   *)
(* cancellation: a call books its whole estimate in one atomic step, only  *)
(* if that keeps the principal's total of the day within the limit, and    *)
(* the booking is settled at most once.                                    *)
(***************************************************************************)
EXTENDS Integers

CONSTANTS
    Calls,        \* the billed calls, each of which books at most once
    Amount,       \* Amount[c]: the estimate of call c
    Spend(_),     \* what a set of calls costs together
    Owner,        \* Owner[c]: the principal that pays for call c
    RejectMode,   \* TRUE when DAILY_BUDGET_USD is set; FALSE is record-only
    DailyLimit,
    MaxDay        \* last day of the model

VARIABLES
    status,       \* status[c]: how the booking of c stands
    bookedOn      \* bookedOn[c]: the UTC date it counts against, 0 before

vars == <<status, bookedOn>>

\* Calls of principal o whose booking counts against day d.
Counted(o, d) ==
    {c \in Calls : /\ Owner[c] = o
                   /\ bookedOn[c] = d
                   /\ status[c] \in {"reserved", "committed"}}

Init ==
    /\ status = [c \in Calls |-> "none"]
    /\ bookedOn = [c \in Calls |-> 0]

\* A booking is made only if it fits what is left of the day's limit.
Book(c, d) ==
    /\ status[c] = "none"
    /\ RejectMode => Spend(Counted(Owner[c], d)) + Amount[c] <= DailyLimit
    /\ status' = [status EXCEPT ![c] = "reserved"]
    /\ bookedOn' = [bookedOn EXCEPT ![c] = d]

\* The outcome of the provider call is known, or as known as it will be.
Settle(c) ==
    /\ status[c] = "reserved"
    /\ \E s \in {"committed", "released"} :
           status' = [status EXCEPT ![c] = s]
    /\ UNCHANGED bookedOn

\* Retention: a set of bookings is forgotten for good.
Forget ==
    /\ \E old \in SUBSET {c \in Calls : status[c] # "none"} :
           status' = [c \in Calls |-> IF c \in old THEN "pruned" ELSE status[c]]
    /\ UNCHANGED bookedOn

Next ==
    \/ \E c \in Calls : (\E d \in 1..MaxDay : Book(c, d)) \/ Settle(c)
    \/ Forget

Spec == Init /\ [][Next]_vars
=============================================================================
