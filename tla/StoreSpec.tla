------------------------------ MODULE StoreSpec ------------------------------
(***************************************************************************)
(* What the artifact store promises, with no files, shards, sweeps or      *)
(* crashes: an artifact comes to be in one step, for its owner and for a   *)
(* time; it goes in one step, for good, and not before that time; and what *)
(* a reader is given is, at the instant it is given, an artifact that is   *)
(* kept and is the reader's own.                                           *)
(***************************************************************************)
EXTENDS Integers

CONSTANTS
    Readers,
    Ids,
    Principals,
    Ttl,
    None

VARIABLES
    kept,       \* kept[i]: owner and expiry of artifact i, None before and after
    drawn,      \* the IDs that were ever given out
    given,      \* given[w]: the artifact reader w holds and for whom, or None
    clock

vars == <<kept, drawn, given, clock>>

Init ==
    /\ kept = [i \in Ids |-> None]
    /\ drawn = {}
    /\ given = [w \in Readers |-> None]
    /\ clock = 0

\* The lifetime begins when the call does, so part of it may be over.
Keep(i) ==
    /\ i \notin drawn
    /\ drawn' = drawn \cup {i}
    /\ \E p \in Principals, e \in 0..(clock + Ttl) :
           kept' = [kept EXCEPT ![i] = [owner |-> p, expires |-> e]]
    /\ UNCHANGED <<given, clock>>

Expire(i) ==
    /\ kept[i] # None /\ kept[i].expires <= clock
    /\ kept' = [kept EXCEPT ![i] = None]
    /\ UNCHANGED <<drawn, given, clock>>

Give(w, i) ==
    /\ given[w] = None /\ kept[i] # None
    /\ given' = [given EXCEPT ![w] = [id |-> i, to |-> kept[i].owner]]
    /\ UNCHANGED <<kept, drawn, clock>>

LetGo(w) ==
    /\ given' = [given EXCEPT ![w] = None]
    /\ UNCHANGED <<kept, drawn, clock>>

Tick ==
    /\ clock' = clock + 1
    /\ UNCHANGED <<kept, drawn, given>>

Next ==
    \/ \E i \in Ids : Keep(i) \/ Expire(i)
    \/ \E w \in Readers : LetGo(w) \/ \E i \in Ids : Give(w, i)
    \/ Tick

Spec == Init /\ [][Next]_vars
=============================================================================
