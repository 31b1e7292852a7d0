----------------------- MODULE GenerationTasks_proofs -----------------------
(***************************************************************************)
(* Proofs about GenerationTasks: what an answered creation guarantees, who *)
(* can reach a task, what a delete deletes, what a listing returns over    *)
(* all its pages, and what a poll answers, for any tasks, principals, page *)
(* and slice sizes.                                                        *)
(***************************************************************************)
EXTENDS GenerationTasks, FiniteSetTheorems, TLAPS

(* Rows.                                                                   *)

\* A row names the principal that asked for the task, and is there from the moment
\* the creation returns until it has aged out.
RowOK(t) ==
    /\ owner[t] \in {Author[t], Nobody}
    /\ creating[t] \in {"no", "recording"} => owner[t] = Nobody
    /\ status[t] = "none" => creating[t] = "no"
    /\ creating[t] = "returned" /\ recordedOn[t] >= now - Retention => owner[t] = Author[t]

StatusOK == status \in [Tasks -> Statuses]

RowInv ==
    /\ now \in Nat
    /\ StatusOK
    /\ recordedOn \in [Tasks -> Nat]
    /\ owner \in [Tasks -> Principals \cup {Nobody}]
    /\ creating \in [Tasks -> {"no", "recording", "returned", "lost"}]
    /\ \A t \in Tasks : RowOK(t)

\* Steps of sessions and of the provider leave the rows alone.
RowsKept ==
    /\ UNCHANGED <<now, recordedOn, owner, creating>>
    /\ StatusOK'
    /\ \A t \in Tasks : status'[t] = "none" => status[t] = "none"

\* The steps that do not.
RowStep ==
    \/ Prune \/ Tick
    \/ \E t \in Tasks : Create(t) \/ Record(t) \/ RecordFails(t)

\* A task that exists never becomes one that has not been created.
LEMMA ChangeKeeps ==
    ASSUME StatusOK, NEW t \in Tasks, NEW s \in Statuses \ {"none"}, Change(t, s)
    PROVE  RowsKept
  BY DEF Change, StatusOK, ownerVars, RowsKept

\* Every step is one of the store and the clock, or leaves the rows alone.
LEMMA RowsOrKept == StatusOK /\ [Next]_vars => RowStep \/ RowsKept
<1> SUFFICES ASSUME StatusOK, [Next]_vars PROVE RowStep \/ RowsKept
  OBVIOUS
<1>0. UNCHANGED <<now, createVars>> => RowsKept
  BY DEF createVars, providerVars, ownerVars, RowsKept, StatusOK
<1>1. CASE UNCHANGED vars
  BY <1>0, <1>1 DEF vars
<1>2. CASE World
  <2>1. ASSUME NEW t \in Tasks, Progress(t) PROVE RowsKept
    <3>1. PICK s \in {"running"} \cup Ends : Change(t, s)
      BY <2>1 DEF Progress
    <3>2. s \in Statuses \ {"none"}
      BY <3>1, GenerationTasksAssumption DEF Statuses, Terminal
    <3> QED BY <3>1, <3>2, ChangeKeeps
  <2>2. ASSUME NEW t \in Tasks, Vanish(t) PROVE RowsKept
    BY <2>2, ChangeKeeps DEF Vanish, Statuses
  <2> QED BY <1>2, <2>1, <2>2 DEF World, RowStep
<1>3. CASE Begin
  BY <1>0, <1>3 DEF Begin, ListStart, PollStart, KillStart
<1>4. CASE ListStep \/ FetchFails
  BY <1>0, <1>4 DEF ListStep, PageStart, ReadSlice, FetchSlice, LocalPage, FetchFails
<1>5. CASE PollStep
  BY <1>0, <1>5 DEF PollStep, PollList, PollListFails, PollAnswer, Refetch
<1>6. CASE Check
  BY <1>0, <1>6 DEF Check
<1>7. CASE Delete
  <2>1. CASE Apply
    BY <1>7, <2>1 DEF Delete, Apply, ownerVars, RowsKept, StatusOK, Statuses, Terminal
  <2>2. CASE UNCHANGED status
    BY <1>0, <1>7, <2>2 DEF Delete, createVars, providerVars
  <2> QED BY <1>7, <2>1, <2>2 DEF Delete
<1> QED
  BY <1>1, <1>2, <1>3, <1>4, <1>5, <1>6, <1>7 DEF Next, Step

\* Every step keeps the rows right.
LEMMA RowNext == RowInv /\ [Next]_vars => RowInv'
<1> USE GenerationTasksAssumption
<1> SUFFICES ASSUME RowInv, [Next]_vars PROVE RowInv'
  OBVIOUS
<1>1. CASE RowsKept
  BY <1>1 DEF RowInv, RowOK, RowsKept
<1>0. StatusOK
  BY DEF RowInv
<1>2. CASE Prune
  BY <1>2 DEF RowInv, RowOK, Prune, providerVars, StatusOK
<1>3. CASE Tick
  BY <1>3 DEF RowInv, RowOK, Tick, createVars, providerVars, ownerVars, StatusOK
<1>4. ASSUME NEW t \in Tasks, Create(t) PROVE RowInv'
  BY <1>4 DEF RowInv, RowOK, Create, ownerVars, StatusOK, Statuses
<1>5. ASSUME NEW t \in Tasks, Record(t) PROVE RowInv'
  <2>1. Author[t] \in Principals
    OBVIOUS
  <2>2. /\ now' \in Nat /\ StatusOK' /\ recordedOn' \in [Tasks -> Nat]
        /\ owner' \in [Tasks -> Principals \cup {Nobody}]
        /\ creating' \in [Tasks -> {"no", "recording", "returned", "lost"}]
    BY <1>5, <2>1 DEF RowInv, Record, providerVars, StatusOK
  <2>3. \A u \in Tasks : RowOK(u)'
    BY <1>5, <2>1 DEF RowInv, RowOK, Record, providerVars, StatusOK
  <2> QED BY <2>2, <2>3 DEF RowInv
<1>6. ASSUME NEW t \in Tasks, RecordFails(t) PROVE RowInv'
  <2>0. Author[t] \in Principals
    OBVIOUS
  <2>1. CASE UNCHANGED ownerVars
    BY <1>6, <2>1 DEF RowInv, RowOK, RecordFails, ownerVars, StatusOK
  <2>2. CASE owner' = [owner EXCEPT ![t] = Author[t]] /\ recordedOn' = [recordedOn EXCEPT ![t] = now]
    <3>1. /\ now' \in Nat /\ StatusOK' /\ recordedOn' \in [Tasks -> Nat]
          /\ owner' \in [Tasks -> Principals \cup {Nobody}]
          /\ creating' \in [Tasks -> {"no", "recording", "returned", "lost"}]
      BY <1>6, <2>0, <2>2 DEF RowInv, RecordFails, StatusOK
    <3>2. \A u \in Tasks : RowOK(u)'
      BY <1>6, <2>0, <2>2 DEF RowInv, RowOK, RecordFails, StatusOK
    <3> QED BY <3>1, <3>2 DEF RowInv
  <2> QED BY <1>6, <2>1, <2>2 DEF RecordFails
<1> QED
  BY <1>0, <1>1, <1>2, <1>3, <1>4, <1>5, <1>6, RowsOrKept DEF RowStep

\* The inductive invariant of the ownership store.
LEMMA RowsAlways == Spec => []RowInv
<1>1. Init => RowInv
  BY GenerationTasksAssumption DEF Init, RowInv, RowOK, StatusOK, Statuses
<1> QED
  BY <1>1, RowNext, PTL DEF Spec

\* A task whose creation was answered belongs to the principal that asked for it until
\* retention takes its row: record() precedes the answer on every path.
THEOREM AnsweredIsOwned == Spec => []ReturnedIsOwned
<1>1. RowInv => ReturnedIsOwned
  BY DEF RowInv, RowOK, ReturnedIsOwned
<1> QED
  BY <1>1, RowsAlways, PTL

-----------------------------------------------------------------------------
(* Separation of principals.  What a session has in its hands at any point *)
(* -- a slice it has read, a page it is filling, the tasks of a poll, the  *)
(* task it is about to delete -- was taken from rows of its own principal. *)

Held(t) ==
    \/ t \in listing.rows \/ t \in listing.page \/ seen[t] > 0
    \/ t \in poll.owned \/ t \in poll.refetch \/ t \in DOMAIN poll.found
    \/ session.does = "kill" /\ session.pc \in {"check", "delete"} /\ t = kill.task
    \/ \E d \in destroyed : d.task = t

Shapes ==
    /\ DOMAIN session = {"does", "who", "pc"}
    /\ {"rows", "page"} \subseteq DOMAIN listing
    /\ {"owned", "found", "refetch"} \subseteq DOMAIN poll
    /\ {"task", "attempt"} \subseteq DOMAIN kill
    /\ seen \in [Tasks -> Nat]

Remote(p) == p \in Principals \ Local

ReachInv ==
    /\ Shapes
    /\ session.who \in Principals \cup {Nobody}
    /\ session = Idle => \A t \in Tasks : ~Held(t)
    /\ Remote(session.who) => /\ session.pc # "local"
                              /\ \A t \in Tasks : Held(t) => Author[t] = session.who

\* What belongs to a principal by its row was asked for by it.
LEMMA RowTellsAuthor ==
    ASSUME RowInv, NEW p \in Principals, NEW t \in Tasks, owner[t] = p
    PROVE  Author[t] = p
  BY GenerationTasksAssumption DEF RowInv, RowOK

\* A step within a session: the principal stays, and what is new in its hands is its own.
Continues ==
    /\ session'.who = session.who /\ session'.pc # "local"
    /\ session' # Idle
    /\ \A t \in Tasks : Held(t)' => Held(t) \/ owner[t] = session.who

\* The session moves on, or stays where it is.
LEMMA Moves ==
    ASSUME Shapes, session.does # "nothing", NEW l, l # "local", Goto(l)
    PROVE  /\ session'.who = session.who /\ session'.does = session.does
           /\ session'.pc = l /\ session' # Idle
           /\ DOMAIN session' = {"does", "who", "pc"}
  BY DEF Goto, Shapes, Idle

\* What has been returned before stays returned.
LEMMA Returned ==
    ASSUME Shapes, NEW S, Return(S)
    PROVE  /\ seen' \in [Tasks -> Nat]
           /\ \A t \in Tasks : seen'[t] > 0 => seen[t] > 0 \/ t \in S
  BY DEF Return, Shapes

\* A listing takes up rows of its principal only.
LEMMA ListContinues ==
    ASSUME Shapes, session.pc # "local", session.does # "nothing", ListStep \/ FetchFails
    PROVE  Shapes' /\ Continues
<1>1. CASE PageStart
  BY <1>1 DEF PageStart, In, Goto, Shapes, Continues, Held, Idle
<1>2. CASE ReadSlice
  <2> DEFINE rows == OwnedRows(session.who, listing.since, listing.before)
  <2>1. UNCHANGED <<poll, kill, destroyed>> /\ session.does = "list"
    BY <1>2 DEF ReadSlice, In
  <2>2. CASE rows = {}
    <3>1. Goto("end") /\ Return(listing.page) /\ UNCHANGED listing
      BY <1>2, <2>2 DEF ReadSlice
    <3> QED BY <2>1, <3>1, Moves, Returned DEF Shapes, Continues, Held
  <2>3. CASE rows # {}
    <3>1. /\ Goto("fetch") /\ UNCHANGED seen
          /\ listing' = [listing EXCEPT !.rows = FirstOf(rows, SliceSize)]
      BY <1>2, <2>3 DEF ReadSlice
    <3>2. \A t \in FirstOf(rows, SliceSize) : owner[t] = session.who
      BY DEF FirstOf, OwnedRows
    <3>3. listing'.rows = FirstOf(rows, SliceSize) /\ listing'.page = listing.page
          /\ {"rows", "page"} \subseteq DOMAIN listing'
      BY <3>1 DEF Shapes
    <3>4. session'.who = session.who /\ session'.does = session.does /\ session'.pc = "fetch"
          /\ session' # Idle /\ DOMAIN session' = {"does", "who", "pc"}
      BY <3>1, Moves
    <3> HIDE DEF rows
    <3> QED BY <2>1, <3>1, <3>2, <3>3, <3>4 DEF Shapes, Continues, Held
  <2> QED BY <2>2, <2>3
<1>3. CASE FetchSlice
  <2> DEFINE room  == PageSize - Cardinality(listing.page)
             found == listing.rows \cap Shown(listing.filter)
             taken == FirstOf(found, room)
             page  == listing.page \cup taken
  <2>1. /\ UNCHANGED <<poll, kill, destroyed>> /\ session.does = "list"
        /\ \/ \E l \in {"page", "end"} : Goto(l) /\ Return(page)
           \/ Goto("slice") /\ UNCHANGED seen
        /\ \/ UNCHANGED listing
           \/ \E c : listing' = [listing EXCEPT !.cursor = c, !.rows = {}]
           \/ \E b, n : listing' = [listing EXCEPT !.page = page, !.before = b, !.rows = {},
                                                   !.slices = n]
    BY <1>3 DEF FetchSlice, In
  <2>2. taken \subseteq listing.rows
    BY DEF FirstOf
  <2>3. \A t \in page : t \in listing.page \/ t \in listing.rows
    BY <2>2
  <2> HIDE DEF page
  <2>4. /\ session'.who = session.who /\ session'.does = session.does /\ session' # Idle
        /\ session'.pc \in {"page", "end", "slice"} /\ DOMAIN session' = {"does", "who", "pc"}
    BY <2>1, Moves
  <2>5. /\ seen' \in [Tasks -> Nat]
        /\ \A t \in Tasks : seen'[t] > 0 => seen[t] > 0 \/ t \in page
    BY <2>1, Returned DEF Shapes
  <2>6. /\ {"rows", "page"} \subseteq DOMAIN listing'
        /\ listing'.rows \subseteq listing.rows
        /\ listing'.page \subseteq listing.page \cup page
    BY <2>1 DEF Shapes
  <2> QED BY <2>1, <2>3, <2>4, <2>5, <2>6 DEF Shapes, Continues, Held
<1>4. CASE LocalPage
  BY <1>4 DEF LocalPage, In
<1>5. CASE FetchFails
  BY <1>5 DEF FetchFails, In, Goto, Shapes, Continues, Held, Idle
<1> QED
  BY <1>1, <1>2, <1>3, <1>4, <1>5 DEF ListStep

\* A poll takes up tasks of its principal only.
LEMMA PollContinues ==
    ASSUME Shapes, session.pc # "local", session.does # "nothing", PollStep
    PROVE  Shapes' /\ Continues
<1>1. CASE PollList
  <2> DEFINE found == [t \in poll.owned \cap Shown("any") |-> status[t]]
  <2>1. PICK bare \in SUBSET Unanswered(found) : poll' = [poll EXCEPT !.found = found, !.refetch = bare]
    BY <1>1 DEF PollList
  <2>2. Goto("fetch") /\ session.does = "poll" /\ UNCHANGED <<listing, seen, kill, destroyed>>
    BY <1>1 DEF PollList, In
  <2>3. /\ session'.who = session.who /\ session'.does = session.does /\ session' # Idle
        /\ session'.pc = "fetch" /\ DOMAIN session' = {"does", "who", "pc"}
    BY <2>2, Moves
  <2>4. bare \subseteq poll.owned /\ DOMAIN found \subseteq poll.owned
    BY DEF Unanswered
  <2> HIDE DEF found
  <2>5. /\ {"owned", "found", "refetch"} \subseteq DOMAIN poll'
        /\ poll'.owned = poll.owned /\ poll'.found = found /\ poll'.refetch = bare
    BY <2>1 DEF Shapes
  <2> QED BY <2>2, <2>3, <2>4, <2>5 DEF Shapes, Continues, Held
<1>2. CASE PollListFails \/ PollAnswer
  BY <1>2 DEF PollListFails, PollAnswer, In, Goto, callVars, Shapes, Continues, Held, Idle
<1>3. ASSUME NEW t \in Tasks, Refetch(t) PROVE Shapes' /\ Continues
  <2>1. UNCHANGED <<session, listing, seen, kill, destroyed>> /\ t \in poll.refetch
    BY <1>3 DEF Refetch
  <2>2. /\ {"owned", "found", "refetch"} \subseteq DOMAIN poll'
        /\ poll'.owned = poll.owned /\ poll'.refetch \subseteq poll.refetch
        /\ DOMAIN poll'.found \subseteq DOMAIN poll.found \cup {t}
    <3>1. \E f : /\ DOMAIN f \subseteq DOMAIN poll.found \cup {t}
                 /\ \/ poll' = [poll EXCEPT !.refetch = @ \ {t}, !.found = f]
                    \/ poll' = [poll EXCEPT !.refetch = @ \ {t}, !.found = f, !.errors = @ \cup {t}]
      <4>1. DOMAIN Without(poll.found, t) \subseteq DOMAIN poll.found \cup {t}
        BY DEF Without
      <4> DEFINE g == [u \in DOMAIN poll.found \cup {t} |-> IF u = t THEN status[t] ELSE poll.found[u]]
      <4>2. DOMAIN g \subseteq DOMAIN poll.found \cup {t}
        OBVIOUS
      <4>3. \/ poll' = [poll EXCEPT !.refetch = @ \ {t}, !.found = g]
            \/ poll' = [poll EXCEPT !.refetch = @ \ {t}, !.found = Without(@, t), !.errors = @ \cup {t}]
        BY <1>3 DEF Refetch
      <4> HIDE DEF g
      <4> QED BY <4>1, <4>2, <4>3
    <3> QED BY <3>1 DEF Shapes
  <2> QED BY <2>1, <2>2 DEF Shapes, Continues, Held, Idle
<1> QED
  BY <1>1, <1>2, <1>3 DEF PollStep

\* A cancellation keeps to the task it began with.
LEMMA KillContinues ==
    ASSUME Shapes, session.pc # "local", session.does # "nothing", Check \/ Delete
    PROVE  Shapes' /\ Continues
<1>1. CASE Check
  BY <1>1 DEF Check, In, Goto, Shapes, Continues, Held, Idle
<1>2. CASE Delete
  BY <1>2 DEF Delete, Apply, In, Goto, Shapes, Continues, Held, Idle
<1> QED
  BY <1>1, <1>2

\* A session begins with nothing in its hands, and with what is its own.
LEMMA Begins ==
    ASSUME RowInv, ReachInv, Begin
    PROVE  ReachInv'
<1>1. PICK p \in Principals :
          \/ ListStart(p)
          \/ \E asked \in SUBSET Tasks \ {{}} : PollStart(p, asked)
          \/ \E t \in Tasks : KillStart(p, t)
  BY DEF Begin
<1>2. session = Idle /\ Shapes /\ \A t \in Tasks : ~Held(t)
  BY <1>1 DEF ListStart, PollStart, KillStart, ReachInv
<1>3. p # Nobody
  BY GenerationTasksAssumption
<1>4. SUFFICES /\ Shapes' /\ session'.who = p
               /\ Remote(p) => /\ session'.pc # "local"
                               /\ \A t \in Tasks : Held(t)' => owner[t] = p
  BY <1>3, RowTellsAuthor, RowsOrKept, GenerationTasksAssumption DEF ReachInv, Remote, Idle
<1>5. CASE ListStart(p)
  <2>1. PICK f \in Filters : listing' = [listing EXCEPT !.filter = f]
    BY <1>5 DEF ListStart
  <2>2. /\ {"rows", "page"} \subseteq DOMAIN listing'
        /\ listing'.rows = listing.rows /\ listing'.page = listing.page
    BY <1>2, <2>1 DEF Shapes
  <2>3. /\ session'.does = "list" /\ session'.who = p /\ DOMAIN session' = {"does", "who", "pc"}
        /\ Remote(p) => session'.pc # "local"
        /\ UNCHANGED <<seen, poll, kill, destroyed>>
    BY <1>5 DEF ListStart, Remote
  <2> QED BY <1>2, <2>2, <2>3 DEF Shapes, Held
<1>6. ASSUME NEW asked \in SUBSET Tasks, PollStart(p, asked)
      PROVE  /\ Shapes' /\ session'.who = p
             /\ Remote(p) => /\ session'.pc # "local"
                             /\ \A t \in Tasks : Held(t)' => owner[t] = p
  <2> DEFINE owned == {t \in asked : Permitted(p, t)}
  <2>1. poll' = [poll EXCEPT !.asked = asked, !.owned = owned, !.errors = asked \ owned]
    BY <1>6 DEF PollStart
  <2>2. \A t \in owned : Remote(p) => owner[t] = p
    BY DEF Permitted, Remote
  <2>3. /\ session'.does = "poll" /\ session'.who = p /\ DOMAIN session' = {"does", "who", "pc"}
        /\ session'.pc # "local"
        /\ UNCHANGED <<seen, listing, kill, destroyed>>
    BY <1>6 DEF PollStart
  <2> HIDE DEF owned
  <2>4. /\ {"owned", "found", "refetch"} \subseteq DOMAIN poll'
        /\ poll'.owned = owned /\ poll'.found = poll.found /\ poll'.refetch = poll.refetch
    BY <1>2, <2>1 DEF Shapes
  <2> QED BY <1>2, <2>2, <2>3, <2>4 DEF Shapes, Held
<1>7. ASSUME NEW t \in Tasks, KillStart(p, t)
      PROVE  /\ Shapes' /\ session'.who = p
             /\ Remote(p) => /\ session'.pc # "local"
                             /\ \A u \in Tasks : Held(u)' => owner[u] = p
  <2>1. /\ session'.who = p /\ DOMAIN session' = {"does", "who", "pc"} /\ session'.pc # "local"
        /\ UNCHANGED <<seen, listing, poll, destroyed>>
        /\ \/ Permitted(p, t) /\ kill'.task = t
           \/ session'.pc = "refused"
        /\ {"task", "attempt"} \subseteq DOMAIN kill'
    BY <1>2, <1>7 DEF KillStart, Shapes
  <2>2. Permitted(p, t) /\ Remote(p) => owner[t] = p
    BY DEF Permitted, Remote
  <2> QED BY <1>2, <2>1, <2>2 DEF Shapes, Held
<1> QED
  BY <1>1, <1>5, <1>6, <1>7

\* Every step keeps what is held to its principal.
LEMMA ReachNext == RowInv /\ ReachInv /\ [Next]_vars => ReachInv'
<1> SUFFICES ASSUME RowInv, ReachInv, [Next]_vars PROVE ReachInv'
  OBVIOUS
<1>1. ASSUME UNCHANGED <<session, callVars>> PROVE ReachInv'
  BY <1>1 DEF callVars, ReachInv, Shapes, Held, Idle, Remote
<1>2. CASE UNCHANGED vars
  BY <1>1, <1>2 DEF vars
<1>3. CASE World
  BY <1>1, <1>3 DEF World, Prune, Tick, Create, Record, RecordFails, Progress, Vanish, Change
<1>4. CASE Begin
  BY <1>4, Begins
<1>5. CASE ListStep \/ FetchFails \/ PollStep \/ Check \/ Delete
  <2>1. session.does # "nothing"
    BY <1>5 DEF ListStep, PageStart, ReadSlice, FetchSlice, LocalPage, FetchFails, PollStep, PollList,
                PollListFails, PollAnswer, Refetch, Check, Delete, In
  <2>2. Shapes
    BY DEF ReachInv
  <2>3. CASE session.pc # "local"
    <3>1. Shapes' /\ Continues
      BY <1>5, <2>1, <2>2, <2>3, ListContinues, PollContinues, KillContinues
    <3>2. ASSUME Remote(session.who), NEW t \in Tasks, owner[t] = session.who
          PROVE  Author[t] = session.who
      BY <3>2, RowTellsAuthor DEF Remote
    <3> QED BY <3>1, <3>2 DEF Continues, ReachInv, Remote
  <2>4. CASE session.pc = "local"
    <3>1. LocalPage
      BY <1>5, <2>4 DEF ListStep, PageStart, ReadSlice, FetchSlice, LocalPage, FetchFails, PollStep, PollList,
                PollListFails, PollAnswer, Refetch, Check, Delete, In
    <3>2. ~Remote(session.who)
      BY <2>4 DEF ReachInv
    <3>3. /\ \E S : Return(S)
          /\ \/ listing' = [listing EXCEPT !.number = @ + 1] /\ UNCHANGED session
             \/ Goto("end") /\ UNCHANGED listing
          /\ UNCHANGED <<poll, kill, destroyed>>
      BY <3>1 DEF LocalPage
    <3>4. session'.who = session.who /\ session' # Idle /\ DOMAIN session' = {"does", "who", "pc"}
      BY <2>1, <2>2, <3>3, Moves DEF Idle, Shapes
    <3>5. seen' \in [Tasks -> Nat]
      BY <2>2, <3>3, Returned
    <3>6. Shapes'
      BY <2>2, <3>3, <3>4, <3>5 DEF Shapes
    <3> QED BY <3>2, <3>4, <3>6 DEF ReachInv, Remote
  <2> QED BY <2>3, <2>4
<1> QED
  BY <1>2, <1>3, <1>4, <1>5 DEF Next, Step

\* The inductive invariant of separation.
LEMMA ReachAlways == Spec => [](RowInv /\ ReachInv)
<1>1. Init => RowInv
  BY GenerationTasksAssumption DEF Init, RowInv, RowOK, StatusOK, Statuses
<1>2. Init => ReachInv
  <2> SUFFICES ASSUME Init PROVE ReachInv
    OBVIOUS
  <2>1. Shapes
    BY DEF Init, Idle, Shapes
  <2>2. session = Idle /\ session.who = Nobody /\ session.does = "nothing"
    BY DEF Init, Idle
  <2>3. \A t \in Tasks : ~Held(t)
    BY <2>2 DEF Init, Held
  <2> QED BY <2>1, <2>2, <2>3, GenerationTasksAssumption DEF ReachInv, Remote
<1>3. RowInv /\ ReachInv /\ [Next]_vars => RowInv' /\ ReachInv'
  BY RowNext, ReachNext
<1> QED
  BY <1>1, <1>2, <1>3, PTL DEF Spec

\* A remote principal is never shown, and never cancels or deletes, a task that somebody
\* else asked for, in whatever order rows are written and pruned and pages are cut.
THEOREM PrincipalsSeparated == Spec => []NothingForeign
<1>1. ReachInv => NothingForeign
  BY DEF ReachInv, Held, Remote, NothingForeign
<1> QED
  BY <1>1, ReachAlways, PTL

-----------------------------------------------------------------------------
(* What a delete deletes.  Between the check and the last repetition of    *)
(* the request the task can only disappear: no provider step leads out of  *)
(* a deletable status but removal.                                         *)

Sound(d) == d.mode = "delete" => d.was = d.expected

KillInv ==
    /\ StatusOK /\ Shapes
    /\ {"task", "mode", "expected", "attempt"} \subseteq DOMAIN kill
    /\ \A d \in destroyed : Sound(d)
    /\ session.does = "kill" /\ session.pc \in {"check", "delete"} =>
          /\ kill.task \in Tasks
          /\ kill.mode = "delete" => kill.expected \in Deletable
    /\ session.does = "kill" /\ session.pc = "delete" /\ kill.mode = "delete" =>
          status[kill.task] \in {kill.expected, "deleted"}

\* Steps that leave the call and what it has done alone.
KillKept ==
    /\ StatusOK' /\ Shapes' /\ UNCHANGED <<kill, destroyed>>
    /\ session'.does = "kill" =>
          /\ session.does = "kill"
          /\ session'.pc \in {"check", "delete"} => session'.pc = session.pc
    /\ \A t \in Tasks : status[t] \in Deletable \cup {"deleted"} =>
          status'[t] \in {status[t], "deleted"}

\* A step that leaves the call alone keeps it sound.
LEMMA KeptKeeps == KillInv /\ KillKept => KillInv'
<1> SUFFICES ASSUME KillInv, KillKept PROVE KillInv'
  OBVIOUS
<1>1. /\ StatusOK' /\ Shapes' /\ {"task", "mode", "expected", "attempt"} \subseteq DOMAIN kill'
      /\ \A d \in destroyed' : Sound(d)
  BY DEF KillInv, KillKept
<1>2. session'.does = "kill" /\ session'.pc \in {"check", "delete"} =>
          /\ kill'.task \in Tasks
          /\ kill'.mode = "delete" => kill'.expected \in Deletable
  BY DEF KillInv, KillKept
<1>3. ASSUME session'.does = "kill", session'.pc = "delete", kill'.mode = "delete"
      PROVE  status'[kill'.task] \in {kill'.expected, "deleted"}
  <2>1. /\ kill.task \in Tasks /\ kill' = kill /\ kill.expected \in Deletable
        /\ status[kill.task] \in {kill.expected, "deleted"}
    BY <1>3 DEF KillInv, KillKept
  <2> QED BY <2>1 DEF KillKept
<1> QED
  BY <1>1, <1>2, <1>3 DEF KillInv

\* What the provider does by itself ends or removes a task.
LEMMA WorldKeepsStatus ==
    ASSUME StatusOK, World
    PROVE  /\ StatusOK'
           /\ \A t \in Tasks : status[t] \in Deletable \cup {"deleted"} =>
                  status'[t] \in {status[t], "deleted"}
<1>1. CASE UNCHANGED status
  BY <1>1 DEF StatusOK
<1>2. ASSUME NEW t \in Tasks, NEW s \in Statuses, Change(t, s),
             status[t] \in Deletable \cup {"deleted"} => s = "deleted"
      PROVE  /\ StatusOK'
             /\ \A u \in Tasks : status[u] \in Deletable \cup {"deleted"} =>
                    status'[u] \in {status[u], "deleted"}
  BY <1>2 DEF Change, StatusOK
<1>3. ASSUME NEW t \in Tasks, Create(t)
      PROVE  /\ StatusOK'
             /\ \A u \in Tasks : status[u] \in Deletable \cup {"deleted"} =>
                    status'[u] \in {status[u], "deleted"}
  BY <1>3 DEF Create, StatusOK, Statuses, Deletable
<1>4. ASSUME NEW t \in Tasks, Progress(t)
      PROVE  \E s \in Statuses : Change(t, s) /\ status[t] \notin Deletable \cup {"deleted"}
  BY <1>4, GenerationTasksAssumption DEF Progress, Statuses, Terminal, Deletable
<1>5. ASSUME NEW t \in Tasks, Vanish(t)
      PROVE  Change(t, "deleted") /\ "deleted" \in Statuses
  BY <1>5 DEF Vanish, Statuses
<1>6. Prune \/ Tick \/ (\E t \in Tasks : Record(t) \/ RecordFails(t)) => UNCHANGED status
  BY DEF Prune, Tick, Record, RecordFails, createVars, providerVars
<1> QED
  BY <1>1, <1>2, <1>3, <1>4, <1>5, <1>6 DEF World

\* What happens around a session does not touch it.
LEMMA WorldKeepsCall ==
    ASSUME World
    PROVE  UNCHANGED <<session, callVars>>
  BY DEF World, Prune, Tick, Create, Record, RecordFails, Progress, Vanish, Change

\* Every step keeps deletes sound.
LEMMA KillNext == RowInv /\ ReachInv /\ KillInv /\ [Next]_vars => KillInv'
<1> SUFFICES ASSUME RowInv, ReachInv, KillInv, [Next]_vars PROVE KillInv'
  OBVIOUS
<1>0. Shapes' /\ StatusOK /\ Shapes
  BY ReachNext DEF ReachInv, KillInv
<1>1. CASE UNCHANGED vars
  BY <1>0, <1>1, KeptKeeps DEF vars, createVars, providerVars, callVars, KillKept, StatusOK
<1>2. CASE World
  BY <1>0, <1>2, KeptKeeps, WorldKeepsStatus, WorldKeepsCall DEF callVars, KillKept
<1>3. ASSUME NEW p \in Principals,
             ListStart(p) \/ \E asked \in SUBSET Tasks : PollStart(p, asked)
      PROVE  KillInv'
  <2>1. session'.does # "kill" /\ UNCHANGED <<status, kill, destroyed>>
    <3>1. CASE ListStart(p)
      BY <3>1 DEF ListStart, createVars, providerVars
    <3>2. ASSUME NEW asked \in SUBSET Tasks, PollStart(p, asked)
          PROVE  session'.does # "kill" /\ UNCHANGED <<status, kill, destroyed>>
      BY <3>2 DEF PollStart, createVars, providerVars
    <3> QED BY <1>3, <3>1, <3>2
  <2> QED BY <1>0, <2>1, KeptKeeps DEF KillKept, StatusOK
<1>4. ASSUME NEW p \in Principals, NEW t \in Tasks, KillStart(p, t) PROVE KillInv'
  <2>1. UNCHANGED <<status, destroyed>>
    BY <1>4 DEF KillStart, createVars, providerVars
  <2>2. CASE session'.pc = "refused" /\ UNCHANGED kill
    BY <1>0, <2>1, <2>2 DEF KillInv, StatusOK
  <2>3. CASE ~(session'.pc = "refused" /\ UNCHANGED kill)
    <3>1. PICK s \in {"queued"} \cup Deletable :
             /\ session' = [does |-> "kill", who |-> p, pc |-> "check"]
             /\ kill' = [task |-> t, expected |-> s, attempt |-> 0,
                         mode |-> IF s = "queued" THEN "cancel" ELSE "delete"]
      BY <1>4, <2>3 DEF KillStart
    <3> QED BY <1>0, <2>1, <3>1 DEF KillInv, StatusOK
  <2> QED BY <2>2, <2>3
<1>5. CASE ListStep \/ FetchFails \/ PollStep
  <2>1. session.does # "kill" /\ session'.does = session.does /\ UNCHANGED <<status, kill, destroyed>>
    <3>1. session'.does = session.does
      BY <1>0, <1>5 DEF ListStep, PageStart, ReadSlice, FetchSlice, LocalPage, FetchFails, PollStep, PollList,
                PollListFails, PollAnswer, Refetch, Goto, Shapes
    <3> QED
      BY <1>5, <3>1 DEF ListStep, PageStart, ReadSlice, FetchSlice, LocalPage, FetchFails, PollStep, PollList,
                PollListFails, PollAnswer, Refetch, In, createVars, providerVars, callVars
  <2> QED BY <1>0, <2>1, KeptKeeps DEF KillKept, StatusOK
<1>6. CASE Check
  <2>1. /\ session.does = "kill" /\ session.pc = "check" /\ session'.does = "kill"
        /\ UNCHANGED <<status, destroyed>>
    BY <1>0, <1>6 DEF Check, In, Goto, Shapes, createVars, providerVars
  <2>2. CASE UNCHANGED kill /\ session'.pc \in {"refused", "failed"}
    BY <1>0, <2>1, <2>2 DEF KillInv, StatusOK
  <2>3. CASE AsExpected /\ kill' = [kill EXCEPT !.attempt = 1]
    <3>1. /\ kill'.task = kill.task /\ kill'.mode = kill.mode /\ kill'.expected = kill.expected
          /\ DOMAIN kill' = DOMAIN kill
      BY <2>3
    <3> QED BY <1>0, <2>1, <2>3, <3>1 DEF KillInv, AsExpected, StatusOK
  <2> QED BY <1>0, <1>6, <2>2, <2>3 DEF Check, Goto, Shapes
<1>7. CASE Delete
  <2>1. /\ session.does = "kill" /\ session.pc = "delete" /\ session'.does = "kill"
        /\ session'.pc \in {"done", "failed", "delete"}
        /\ Apply \/ UNCHANGED <<status, destroyed>>
    <3>1. /\ session.does = "kill" /\ session.pc = "delete"
          /\ Goto("done") \/ Goto("failed") \/ UNCHANGED session
          /\ Apply \/ UNCHANGED <<status, destroyed>>
      BY <1>7 DEF Delete, In
    <3> QED BY <1>0, <3>1, Moves
  <2>2. /\ kill'.task = kill.task /\ kill'.mode = kill.mode /\ kill'.expected = kill.expected
        /\ DOMAIN kill' = DOMAIN kill
    <3>1. UNCHANGED kill \/ \E n : kill' = [kill EXCEPT !.attempt = n]
      BY <1>7 DEF Delete
    <3>2. {"task", "mode", "expected", "attempt"} \subseteq DOMAIN kill
      BY DEF KillInv
    <3> QED BY <3>1, <3>2
  <2>3. /\ kill.task \in Tasks
        /\ kill.mode = "delete" => /\ kill.expected \in Deletable
                                   /\ status[kill.task] \in {kill.expected, "deleted"}
    BY <2>1 DEF KillInv
  <2>4. CASE UNCHANGED <<status, destroyed>>
    BY <1>0, <2>1, <2>2, <2>3, <2>4 DEF KillInv, StatusOK
  <2>5. CASE Apply
    <3>1. StatusOK'
      BY <1>0, <2>5 DEF Apply, StatusOK, Statuses, Terminal
    <3>2. kill.mode = "delete" => status[kill.task] = kill.expected /\ status'[kill.task] = "deleted"
      BY <1>0, <2>3, <2>5 DEF Apply, StatusOK, Deletable
    <3>3. \A d \in destroyed' : Sound(d)
      BY <2>5, <3>2 DEF Apply, KillInv, Sound
    <3> QED BY <1>0, <2>1, <2>2, <2>3, <3>1, <3>2, <3>3 DEF KillInv
  <2> QED BY <2>1, <2>4, <2>5
<1> QED
  BY <1>1, <1>2, <1>3, <1>4, <1>5, <1>6, <1>7 DEF Next, Step, Begin

\* A delete hits a task only in the status its caller expected, however the task changes
\* between check and request and however often the request is repeated.
THEOREM DeletesHitExpected == Spec => []DeletesAsExpected
<1>1. Init => KillInv
  BY DEF Init, Idle, KillInv, Shapes, StatusOK, Statuses
<1>2. KillInv => DeletesAsExpected
  BY DEF KillInv, Sound, DeletesAsExpected
<1> QED
  BY <1>1, <1>2, KillNext, ReachAlways, PTL DEF Spec

-----------------------------------------------------------------------------
(* The order of a finite set.  B[t] is the set of elements before t; the   *)
(* position of t is the number of them.                                    *)

Ordered(S, B) ==
    /\ IsFiniteSet(S) /\ B \in [S -> SUBSET S]
    /\ \A t \in S : t \notin B[t]
    /\ \A t \in S : \A u \in B[t] : B[u] \subseteq B[t]
    /\ \A t, u \in S : t # u => t \in B[u] \/ u \in B[t]

\* Positions are numbers below the size of the set, and increase along the order.
LEMMA Positions ==
    ASSUME NEW S, NEW B, Ordered(S, B), NEW t \in S
    PROVE  /\ Cardinality(S) \in Nat /\ Cardinality(B[t]) \in Nat
           /\ Cardinality(B[t]) < Cardinality(S)
           /\ \A u \in B[t] : Cardinality(B[u]) \in Nat /\ Cardinality(B[u]) < Cardinality(B[t])
<1>1. IsFiniteSet(S) /\ B[t] \subseteq S /\ t \notin B[t]
  BY DEF Ordered
<1>2. ASSUME NEW P, IsFiniteSet(P), NEW Q, Q \subseteq P, NEW x \in P, x \notin Q
      PROVE  Cardinality(P) \in Nat /\ Cardinality(Q) \in Nat /\ Cardinality(Q) < Cardinality(P)
  <2>1. IsFiniteSet(Q) /\ Cardinality(Q) <= Cardinality(P) /\ Cardinality(P) # Cardinality(Q)
    BY <1>2, FS_Subset
  <2>2. Cardinality(P) \in Nat /\ Cardinality(Q) \in Nat
    BY <1>2, <2>1, FS_CardinalityType
  <2> QED BY <2>1, <2>2
<1>3. IsFiniteSet(B[t])
  BY <1>1, FS_Subset
<1>4. ASSUME NEW u \in B[t] PROVE B[u] \subseteq B[t] /\ u \notin B[u]
  BY <1>1, <1>4 DEF Ordered
<1>5. /\ Cardinality(S) \in Nat /\ Cardinality(B[t]) \in Nat
      /\ Cardinality(B[t]) < Cardinality(S)
  BY <1>1, <1>2
<1>6. ASSUME NEW u \in B[t]
      PROVE  Cardinality(B[u]) \in Nat /\ Cardinality(B[u]) < Cardinality(B[t])
  BY <1>2, <1>3, <1>4
<1> QED
  BY <1>5, <1>6

\* Two elements never have the same position.
LEMMA PositionsDiffer ==
    ASSUME NEW S, NEW B, Ordered(S, B), NEW t \in S, NEW u \in S, t # u
    PROVE  Cardinality(B[t]) # Cardinality(B[u])
<1>1. t \in B[u] \/ u \in B[t]
  BY DEF Ordered
<1>2. CASE t \in B[u]
  BY <1>2, Positions
<1>3. CASE u \in B[t]
  BY <1>3, Positions
<1> QED
  BY <1>1, <1>2, <1>3

\* Every number below the size of the set is a position: by counting.
LEMMA PositionsOnto ==
    ASSUME NEW S, NEW B, Ordered(S, B), NEW k \in Nat, k < Cardinality(S)
    PROVE  \E t \in S : Cardinality(B[t]) = k
<1> DEFINE n == Cardinality(S)
           T == (0 .. (n - 1)) \ {k}
           f == [t \in S |-> Cardinality(B[t])]
<1>1. IsFiniteSet(S) /\ n \in Nat
  BY FS_CardinalityType DEF Ordered
<1>2. IsFiniteSet(0 .. (n - 1)) /\ Cardinality(0 .. (n - 1)) = n
  <2> HIDE DEF n
  <2>1. 0 \in Int /\ n - 1 \in Int /\ n - 1 - 0 + 1 = n /\ (0 > n - 1 => n = 0)
    BY <1>1
  <2>2. /\ IsFiniteSet(0 .. (n - 1))
        /\ Cardinality(0 .. (n - 1)) = IF 0 > n - 1 THEN 0 ELSE n - 1 - 0 + 1
    BY <2>1, FS_Interval
  <2> QED BY <2>1, <2>2
<1>3. k \in 0 .. (n - 1)
  BY <1>1
<1>4. IsFiniteSet(T) /\ Cardinality(T) = n - 1
  BY <1>2, <1>3, FS_RemoveElement
<1>5. SUFFICES ASSUME \A t \in S : Cardinality(B[t]) # k PROVE FALSE
  OBVIOUS
<1>6. \A t \in S : Cardinality(B[t]) \in T
  BY <1>1, <1>5, Positions
<1>7. f \in [S -> T]
  BY <1>6
<1>8. \E t, u \in S : t # u /\ f[t] = f[u]
  <2> HIDE DEF f, T
  <2>1. Cardinality(T) < Cardinality(S)
    BY <1>1, <1>4
  <2> QED BY <1>1, <1>4, <1>7, <2>1, FS_PigeonHole
<1> QED
  BY <1>8, PositionsDiffer

\* So many elements have a position below k.
LEMMA PositionsBelow ==
    ASSUME NEW S, NEW B, Ordered(S, B), NEW k \in Nat
    PROVE  LET first == {t \in S : Cardinality(B[t]) < k} IN
           /\ IsFiniteSet(first)
           /\ k <= Cardinality(S) => Cardinality(first) = k
           /\ k >= Cardinality(S) => first = S
<1> DEFINE first == {t \in S : Cardinality(B[t]) < k}
<1>1. IsFiniteSet(S) /\ Cardinality(S) \in Nat
  BY FS_CardinalityType DEF Ordered
<1>2. IsFiniteSet(first)
  BY <1>1, FS_Subset
<1>3. CASE k >= Cardinality(S)
  <2>1. first = S
    BY <1>1, <1>3, Positions
  <2> QED BY <1>1, <1>2, <1>3, <2>1
<1>4. CASE k < Cardinality(S)
  <2>1. PICK t \in S : Cardinality(B[t]) = k
    BY <1>4, PositionsOnto
  <2>2. B[t] \subseteq S
    BY DEF Ordered
  <2>3. ASSUME NEW u \in S PROVE u \in B[t] <=> Cardinality(B[u]) < k
    <3>1. u = t \/ u \in B[t] \/ t \in B[u]
      BY DEF Ordered
    <3>2. t \notin B[t] /\ Cardinality(B[u]) \in Nat
      BY Positions DEF Ordered
    <3>3. u \in B[t] => Cardinality(B[u]) < k
      BY <2>1, Positions
    <3>4. t \in B[u] => k < Cardinality(B[u])
      BY <2>1, Positions
    <3> QED BY <2>1, <3>1, <3>2, <3>3, <3>4
  <2>4. first = B[t]
    BY <2>2, <2>3
  <2> QED BY <1>1, <1>2, <1>4, <2>1, <2>4
<1> QED
  BY <1>1, <1>3, <1>4

-----------------------------------------------------------------------------
(* Slices, pages and cursors.                                              *)

NewerThan(rows) == [t \in rows |-> {u \in rows : Newer(u, t)}]

\* (created_at, task_id) orders any set of rows.
LEMMA RowsOrdered ==
    ASSUME recordedOn \in [Tasks -> Nat], NEW rows \in SUBSET Tasks
    PROVE  Ordered(rows, NewerThan(rows))
<1>1. IsFiniteSet(rows)
  BY GenerationTasksAssumption, FS_Subset
<1>2. \A t \in rows : t \in Nat /\ recordedOn[t] \in Nat
  BY GenerationTasksAssumption
<1>3. \A t \in rows : ~Newer(t, t)
  BY <1>2 DEF Newer
<1>4. \A t, u, v \in rows : Newer(u, t) /\ Newer(v, u) => Newer(v, t)
  BY <1>2 DEF Newer
<1>5. \A t, u \in rows : t # u => Newer(t, u) \/ Newer(u, t)
  BY <1>2 DEF Newer
<1> QED
  BY <1>1, <1>3, <1>4, <1>5 DEF Ordered, NewerThan

\* What a slice and a page are: the newest rows, as many as there is room for.
LEMMA FirstRows ==
    ASSUME recordedOn \in [Tasks -> Nat], NEW rows \in SUBSET Tasks, NEW n \in Nat
    PROVE  /\ FirstOf(rows, n) \subseteq rows
           /\ Cardinality(FirstOf(rows, n)) \in Nat
           /\ Cardinality(FirstOf(rows, n)) <= n
           /\ Cardinality(FirstOf(rows, n)) < n => FirstOf(rows, n) = rows
           /\ rows # {} /\ n > 0 => FirstOf(rows, n) # {}
           /\ \A t \in rows \ FirstOf(rows, n), u \in FirstOf(rows, n) : Newer(u, t)
<1> DEFINE B == NewerThan(rows)
           first == {t \in rows : Cardinality(B[t]) < n}
<1>1. Ordered(rows, B)
  BY RowsOrdered
<1>2. \A t \in rows : B[t] = {u \in rows : Newer(u, t)}
  BY DEF NewerThan
<1>3. FirstOf(rows, n) = first
  BY <1>2 DEF FirstOf
<1> HIDE DEF B
<1>4. /\ IsFiniteSet(first)
      /\ n <= Cardinality(rows) => Cardinality(first) = n
      /\ n >= Cardinality(rows) => first = rows
  BY <1>1, PositionsBelow
<1>5. IsFiniteSet(rows) /\ Cardinality(rows) \in Nat
  BY <1>1, FS_CardinalityType DEF Ordered
<1>6. rows # {} => Cardinality(rows) > 0
  BY <1>5, FS_EmptySet
<1>7. Cardinality({}) = 0
  BY FS_EmptySet
<1>8. ASSUME NEW t \in rows \ first, NEW u \in first PROVE Newer(u, t)
  <2>1. u # t /\ (t \in B[u] \/ u \in B[t])
    BY <1>1, <1>8 DEF Ordered
  <2>2. t \notin B[u]
    <3>1. Cardinality(B[t]) \in Nat /\ Cardinality(B[u]) \in Nat
      BY <1>1, <1>8, Positions
    <3>2. t \in B[u] => Cardinality(B[t]) < Cardinality(B[u])
      BY <1>1, <1>8, Positions
    <3> QED BY <1>8, <3>1, <3>2
  <2> QED BY <1>2, <1>8, <2>1, <2>2
<1>9. Cardinality(first) \in Nat
  BY <1>4, FS_CardinalityType
<1>10. first \subseteq rows
  OBVIOUS
<1> HIDE DEF first
<1> QED
  BY <1>3, <1>4, <1>5, <1>6, <1>7, <1>8, <1>9, <1>10

\* A slice has a last row.
LEMMA OldestRow ==
    ASSUME recordedOn \in [Tasks -> Nat], NEW rows \in SUBSET Tasks, rows # {}
    PROVE  /\ OldestOf(rows) \in rows
           /\ \A t \in rows \ {OldestOf(rows)} : Newer(t, OldestOf(rows))
<1> DEFINE B == NewerThan(rows)
           n == Cardinality(rows)
<1>1. Ordered(rows, B)
  BY RowsOrdered
<1>2. \A t \in rows : B[t] = {u \in rows : Newer(u, t)}
  BY DEF NewerThan
<1> HIDE DEF B
<1>3. IsFiniteSet(rows) /\ n \in Nat /\ n # 0
  BY <1>1, FS_CardinalityType, FS_EmptySet DEF Ordered
<1>4. PICK t \in rows : Cardinality(B[t]) = n - 1
  BY <1>1, <1>3, PositionsOnto
<1>5. \A u \in rows \ {t} : Newer(u, t)
  <2> SUFFICES ASSUME NEW u \in rows \ {t}, t \in B[u] PROVE FALSE
    BY <1>1, <1>2 DEF Ordered
  <2>1. /\ Cardinality(B[u]) \in Nat /\ Cardinality(B[u]) < n
        /\ Cardinality(B[t]) < Cardinality(B[u])
    BY <1>1, Positions
  <2> QED BY <1>3, <1>4, <2>1
<1> QED
  BY <1>5 DEF OldestOf

-----------------------------------------------------------------------------
(* A listing.  A row keeps its key from the moment its creation returns,   *)
(* so a cursor splits the rows for good: what the listing has returned is  *)
(* not after the cursor, what it still owes is.                            *)

Places == [at : Nat, id : Tasks] \cup {NoCursor}

ListType ==
    /\ listing \in [filter : Filters \cup {"any"}, cursor : Places, before : Places, since : Int,
                    slices : Nat, rows : SUBSET Tasks, page : SUBSET Tasks, number : Nat \ {0}]
    /\ born \in [Tasks -> Nat] /\ steady \subseteq Tasks
    /\ session.does # "list" =>
          listing.cursor = NoCursor /\ listing.number = 1 /\ \A t \in Tasks : seen[t] = 0
    /\ session.does = "list" =>
          /\ session.who \in Principals
          /\ session.who \in Local => session.pc \in {"local", "end"}
          /\ steady \subseteq Current

Keyed(t) == creating[t] \in {"returned", "lost"}

Paging == session.does = "list" /\ Remote(session.who)

\* Nothing is returned twice.
OnceInv ==
    /\ \A t \in Tasks : seen[t] <= 1 /\ (seen[t] > 0 => Keyed(t))
    /\ session.pc \in {"page", "slice", "fetch"} =>
          \A t \in Tasks : seen[t] > 0 => ~After(t, listing.cursor)
    /\ session.pc \in {"slice", "fetch"} =>
          /\ \A t \in Tasks : seen[t] > 0 => ~After(t, listing.before)
          /\ \A t \in listing.page : Keyed(t) /\ seen[t] = 0 /\ ~After(t, listing.before)
          /\ Cardinality(listing.page) < PageSize
    /\ session.pc = "fetch" =>
          /\ listing.rows # {}
          /\ \A t \in listing.rows : Keyed(t) /\ After(t, listing.before)

\* Nothing is left out.
AllInv ==
    /\ session.pc \in {"page", "slice", "fetch"} =>
          \A t \in steady : seen[t] > 0 \/ After(t, listing.cursor)
    /\ session.pc \in {"slice", "fetch"} =>
          /\ listing.since <= now - Window
          /\ \A t \in steady : seen[t] > 0 \/ t \in listing.page \/ After(t, listing.before)
    /\ session.pc = "fetch" =>
          \A t \in steady :
              \/ seen[t] > 0 \/ t \in listing.page \/ t \in listing.rows
              \/ /\ Cardinality(listing.rows) >= SliceSize
                 /\ \A u \in listing.rows : Newer(u, t)
    /\ session.pc = "end" => \A t \in steady : seen[t] > 0

\* The tasks before t on the provider's pages.
ShownBefore(t) ==
    {u \in Shown(listing.filter) : born[u] > born[t] \/ (born[u] = born[t] /\ u > t)}

\* The local transport has passed over nothing as long as nothing left the list.
LocalInv ==
    /\ session.pc = "local" =>
          \A t \in steady :
              seen[t] > 0 \/ Cardinality(ShownBefore(t)) >= (listing.number - 1) * PageSize
    /\ session.pc = "end" => \A t \in steady : seen[t] > 0

ListInv ==
    /\ ListType
    /\ Paging => OnceInv /\ AllInv
    /\ session.does = "list" /\ session.who \in Local /\ calm => LocalInv

\* What a session of a listing does with its place.
LEMMA ListMoves ==
    ASSUME Shapes, NEW l, Goto(l)
    PROVE  /\ session'.who = session.who /\ session'.does = session.does /\ session'.pc = l
           /\ session.does # "nothing" => session # Idle /\ session' # Idle
  BY DEF Goto, Shapes, Idle

\* After a cursor comes what is older than the row it was made of.
LEMMA AfterPosition ==
    ASSUME recordedOn \in [Tasks -> Nat], NEW u \in Tasks
    PROVE  /\ Position(u) \in Places /\ Position(u) # NoCursor
           /\ \A t \in Tasks : After(t, Position(u)) <=> Newer(u, t)
<1>1. Position(u) \in [at : Nat, id : Tasks]
  BY DEF Position
<1>2. Position(u) # NoCursor
  BY <1>1, GenerationTasksAssumption
<1>3. ASSUME NEW t \in Tasks PROVE After(t, Position(u)) <=> Newer(u, t)
  <2>1. /\ t \in Nat /\ u \in Nat /\ recordedOn[t] \in Nat /\ recordedOn[u] \in Nat
        /\ Position(u).at = recordedOn[u] /\ Position(u).id = u
    BY GenerationTasksAssumption DEF Position
  <2> QED BY <1>2, <2>1 DEF After, Newer
<1> QED
  BY <1>1, <1>2, <1>3 DEF Places

\* A cursor that is moved on to a row after it leaves less after it.
LEMMA AfterLess ==
    ASSUME recordedOn \in [Tasks -> Nat], NEW c \in Places, NEW u \in Tasks, After(u, c),
           NEW t \in Tasks, Newer(u, t)
    PROVE  After(t, c)
<1>1. /\ t \in Nat /\ u \in Nat /\ recordedOn[t] \in Nat /\ recordedOn[u] \in Nat
      /\ c # NoCursor => c.at \in Nat /\ c.id \in Nat
  BY GenerationTasksAssumption DEF Places
<1> QED
  BY <1>1 DEF After, Newer

\* Newer is an order.
LEMMA NewerOrder ==
    ASSUME recordedOn \in [Tasks -> Nat]
    PROVE  /\ \A t \in Tasks : ~Newer(t, t)
           /\ \A t, u \in Tasks : t # u => Newer(t, u) \/ Newer(u, t)
           /\ \A t, u, v \in Tasks : Newer(t, u) /\ Newer(u, v) => Newer(t, v)
<1>1. \A t \in Tasks : t \in Nat /\ recordedOn[t] \in Nat
  BY GenerationTasksAssumption
<1> QED
  BY <1>1 DEF Newer

\* Around the listing: a key that is given stays, what is steady only shrinks.
ListKept ==
    /\ UNCHANGED <<session, listing, seen>>
    /\ now' \in Nat /\ now <= now'
    /\ \A t \in Tasks : Keyed(t) => Keyed(t)' /\ recordedOn'[t] = recordedOn[t]
    /\ session.does = "list" => steady' \subseteq steady

\* What stays listable has a row with a key.
LEMMA SteadyKeyed ==
    ASSUME RowInv, ListType, Paging, NEW t \in steady
    PROVE  /\ t \in Tasks /\ Keyed(t) /\ owner[t] = session.who
           /\ recordedOn[t] >= now - Window /\ t \in Shown(listing.filter)
<1>1. t \in Tasks /\ t \in Current
  BY DEF ListType, Paging
<1>2. session.who \in Principals \ Local
  BY DEF Paging, Remote
<1>3. t \in Shown(listing.filter) /\ owner[t] = session.who /\ recordedOn[t] >= now - Window
  BY <1>1, <1>2 DEF Current, Listable
<1>4. owner[t] # Nobody
  BY <1>2, <1>3, GenerationTasksAssumption
<1> QED
  BY <1>1, <1>3, <1>4 DEF RowInv, RowOK, Keyed

\* What happens around a listing makes it return nothing twice.
LEMMA KeptOnce ==
    ASSUME RowInv, ListType, Paging, OnceInv, ListKept
    PROVE  OnceInv'
<1>1. \A t \in Tasks : Keyed(t) => recordedOn'[t] = recordedOn[t]
  BY DEF ListKept
<1>2. listing \in [filter : Filters \cup {"any"}, cursor : Places, before : Places, since : Int,
                    slices : Nat, rows : SUBSET Tasks, page : SUBSET Tasks, number : Nat \ {0}]
  BY DEF ListType
<1>3. listing.rows \subseteq Tasks /\ listing.page \subseteq Tasks
  BY <1>2
<1>4. session' = session /\ listing' = listing /\ seen' = seen
  BY DEF ListKept
<1>5. \A t \in Tasks : Keyed(t) => Keyed(t)'
  BY DEF ListKept
<1>6. \A t \in Tasks : seen'[t] <= 1 /\ (seen'[t] > 0 => Keyed(t)')
  BY <1>4, <1>5 DEF OnceInv
<1>7. ASSUME session'.pc \in {"page", "slice", "fetch"}, NEW t \in Tasks, seen'[t] > 0
      PROVE  ~After(t, listing.cursor)'
  <2>1. seen[t] > 0 /\ Keyed(t) /\ ~After(t, listing.cursor)
    BY <1>4, <1>7 DEF OnceInv
  <2> QED BY <1>1, <1>4, <2>1 DEF After
<1>8. ASSUME session'.pc \in {"slice", "fetch"}
      PROVE  /\ \A t \in Tasks : seen'[t] > 0 => ~After(t, listing.before)'
             /\ \A t \in listing'.page : Keyed(t)' /\ seen'[t] = 0 /\ ~After(t, listing.before)'
             /\ Cardinality(listing'.page) < PageSize
  <2>1. ASSUME NEW t \in Tasks, seen'[t] > 0 PROVE ~After(t, listing.before)'
    <3>1. seen[t] > 0 /\ Keyed(t) /\ ~After(t, listing.before)
      BY <1>4, <1>8, <2>1 DEF OnceInv
    <3> QED BY <1>1, <1>4, <3>1 DEF After
  <2>2. ASSUME NEW t \in listing'.page
        PROVE  Keyed(t)' /\ seen'[t] = 0 /\ ~After(t, listing.before)'
    <3>1. t \in Tasks /\ seen[t] = 0 /\ Keyed(t) /\ ~After(t, listing.before)
      BY <1>3, <1>4, <1>8, <2>2 DEF OnceInv
    <3> QED BY <1>1, <1>4, <1>5, <3>1 DEF After
  <2> QED BY <1>4, <1>8, <2>1, <2>2 DEF OnceInv
<1>9. ASSUME session'.pc = "fetch"
      PROVE  /\ listing'.rows # {}
             /\ \A t \in listing'.rows : Keyed(t)' /\ After(t, listing.before)'
  <2>1. listing.rows # {} /\ \A t \in listing.rows : Keyed(t) /\ After(t, listing.before)
    BY <1>4, <1>9 DEF OnceInv
  <2> QED BY <1>1, <1>3, <1>4, <1>5, <2>1 DEF After
<1> QED
  BY <1>6, <1>7, <1>8, <1>9 DEF OnceInv

\* What happens around a listing makes it pass over nothing.
LEMMA KeptAll ==
    ASSUME RowInv, ListType, Paging, OnceInv, AllInv, ListKept
    PROVE  AllInv'
<1>1. \A t \in Tasks : Keyed(t) => recordedOn'[t] = recordedOn[t]
  BY DEF ListKept
<1>3. session' = session /\ listing' = listing /\ seen' = seen /\ steady' \subseteq steady
  BY DEF ListKept, Paging
<1>4. \A t \in steady : t \in Tasks /\ Keyed(t)
  BY SteadyKeyed
<1>5. listing.rows \subseteq Tasks /\ listing.since \in Int
  BY DEF ListType
<1>6. ASSUME session'.pc \in {"page", "slice", "fetch"}, NEW t \in steady'
      PROVE  seen'[t] > 0 \/ After(t, listing.cursor)'
  <2>1. t \in Tasks /\ Keyed(t) /\ (seen[t] > 0 \/ After(t, listing.cursor))
    BY <1>3, <1>4, <1>6 DEF AllInv
  <2> QED BY <1>1, <1>3, <2>1 DEF After
<1>7. ASSUME session'.pc \in {"slice", "fetch"}
      PROVE  /\ listing'.since <= now' - Window
             /\ \A t \in steady' : seen'[t] > 0 \/ t \in listing'.page \/ After(t, listing.before)'
  <2>1. listing.since <= now - Window /\ now <= now' /\ now \in Nat /\ now' \in Nat /\ Window \in Nat
    BY <1>3, <1>7, GenerationTasksAssumption DEF AllInv, ListKept, RowInv
  <2>2. listing.since <= now' - Window
    BY <1>5, <2>1
  <2>3. ASSUME NEW t \in steady'
        PROVE  seen'[t] > 0 \/ t \in listing'.page \/ After(t, listing.before)'
    <3>1. /\ t \in Tasks /\ Keyed(t)
          /\ seen[t] > 0 \/ t \in listing.page \/ After(t, listing.before)
      BY <1>3, <1>4, <1>7, <2>3 DEF AllInv
    <3> QED BY <1>1, <1>3, <3>1 DEF After
  <2> QED BY <1>3, <2>2, <2>3
<1>8. ASSUME session'.pc = "fetch", NEW t \in steady'
      PROVE  \/ seen'[t] > 0 \/ t \in listing'.page \/ t \in listing'.rows
             \/ /\ Cardinality(listing'.rows) >= SliceSize
                /\ \A u \in listing'.rows : Newer(u, t)'
  <2>1. \A u \in listing.rows : u \in Tasks /\ Keyed(u)
    BY <1>3, <1>5, <1>8 DEF OnceInv
  <2>2. t \in steady /\ t \in Tasks /\ Keyed(t)
    BY <1>3, <1>4, <1>8
  <2>3. \/ seen[t] > 0 \/ t \in listing.page \/ t \in listing.rows
        \/ /\ Cardinality(listing.rows) >= SliceSize
           /\ \A u \in listing.rows : Newer(u, t)
    BY <1>3, <1>8, <2>2 DEF AllInv
  <2> QED BY <1>1, <1>3, <2>1, <2>2, <2>3 DEF Newer
<1>9. session'.pc = "end" => \A t \in steady' : seen'[t] > 0
  BY <1>3 DEF AllInv
<1> QED
  BY <1>6, <1>7, <1>8, <1>9 DEF AllInv

\* What is not after the old cursor is not after the new one.
LEMMA Behind ==
    ASSUME recordedOn \in [Tasks -> Nat], NEW c \in Places, NEW u \in Tasks, After(u, c),
           NEW t \in Tasks, ~After(t, c)
    PROVE  ~After(t, Position(u))
  BY AfterLess, AfterPosition

\* A cursor made of the last row of a set has the set behind it.
LEMMA BehindOldest ==
    ASSUME recordedOn \in [Tasks -> Nat], NEW rows \in SUBSET Tasks, NEW t \in rows
    PROVE  ~After(t, Position(OldestOf(rows)))
<1> DEFINE u == OldestOf(rows)
<1>1. u \in rows /\ (t = u \/ Newer(t, u))
  BY OldestRow
<1> HIDE DEF u
<1>2. ~Newer(u, t)
  BY <1>1, NewerOrder
<1> QED
  BY <1>1, <1>2, AfterPosition DEF u

\* What comes back counts once more.
LEMMA ReturnCounts ==
    ASSUME seen \in [Tasks -> Nat], NEW S, Return(S)
    PROVE  /\ \A t \in Tasks : seen'[t] = IF t \in S THEN seen[t] + 1 ELSE seen[t]
           /\ \A t \in Tasks : seen'[t] > 0 <=> seen[t] > 0 \/ t \in S
  BY DEF Return

\* A step of the listing itself.
ListMoved ==
    /\ UNCHANGED <<now, createVars>>
    /\ session'.does = "list" /\ session'.who = session.who
    /\ steady' \subseteq steady

\* A call takes up the client's cursor.
LEMMA PageStartPages ==
    ASSUME RowInv, ReachInv, ListType, Paging, OnceInv, AllInv, PageStart, ListMoved
    PROVE  OnceInv' /\ AllInv'
<1>1. session.pc = "page" /\ session'.pc = "slice" /\ UNCHANGED seen
  BY ListMoves DEF PageStart, In, ReachInv
<1>2. listing' = [listing EXCEPT !.since = now - Window, !.slices = 0,
                                 !.page = {}, !.before = listing.cursor]
  BY DEF PageStart
<1>3. /\ listing'.cursor = listing.cursor /\ listing'.before = listing.cursor
      /\ listing'.page = {} /\ listing'.since = now - Window
  BY <1>2 DEF ListType
<1>4. UNCHANGED <<now, recordedOn, creating>> /\ steady' \subseteq steady
  BY DEF ListMoved, createVars, ownerVars
<1>5. now - Window <= now - Window /\ Cardinality({}) < PageSize
  BY FS_EmptySet, GenerationTasksAssumption DEF RowInv
<1>6. OnceInv'
  BY <1>1, <1>3, <1>4, <1>5 DEF OnceInv, Keyed, After
<1>7. AllInv'
  BY <1>1, <1>3, <1>4, <1>5 DEF AllInv, After
<1> QED
  BY <1>6, <1>7

\* A page that failed is asked for again from the same cursor.
LEMMA FetchFailsPages ==
    ASSUME RowInv, ReachInv, ListType, Paging, OnceInv, AllInv, FetchFails, ListMoved
    PROVE  OnceInv' /\ AllInv'
<1>1. session.pc = "fetch" /\ session'.pc = "page" /\ UNCHANGED seen
  BY ListMoves DEF FetchFails, In, ReachInv
<1>2. listing'.cursor = listing.cursor
  BY DEF FetchFails, ListType
<1>3. UNCHANGED <<now, recordedOn, creating>> /\ steady' \subseteq steady
  BY DEF ListMoved, createVars, ownerVars
<1>4. OnceInv'
  BY <1>1, <1>2, <1>3 DEF OnceInv, Keyed, After
<1>5. AllInv'
  BY <1>1, <1>2, <1>3 DEF AllInv, After
<1> QED
  BY <1>4, <1>5

\* A slice: all that is owed and owned is among the rows after the slice's cursor.
LEMMA ReadSlicePages ==
    ASSUME RowInv, ReachInv, ListType, Paging, OnceInv, AllInv, ReadSlice, ListMoved
    PROVE  OnceInv' /\ AllInv'
<1> DEFINE rows == OwnedRows(session.who, listing.since, listing.before)
           first == FirstOf(rows, SliceSize)
<1>0. /\ session.who \in Principals /\ recordedOn \in [Tasks -> Nat] /\ seen \in [Tasks -> Nat]
      /\ now \in Nat /\ SliceSize \in Nat \ {0} /\ listing.since \in Int /\ Window \in Nat
  BY GenerationTasksAssumption DEF RowInv, ReachInv, Shapes, ListType, Paging, Remote
<1>1. UNCHANGED <<now, recordedOn, creating>> /\ steady' \subseteq steady
  BY DEF ListMoved, createVars, ownerVars
<1>2. session.pc = "slice" /\ rows \subseteq Tasks /\ listing.page \subseteq Tasks
  BY DEF ReadSlice, In, OwnedRows, ListType
<1>3. \A t \in rows : Keyed(t) /\ After(t, listing.before)
  BY <1>0, GenerationTasksAssumption DEF OwnedRows, RowInv, RowOK, Keyed
<1>4. ASSUME NEW t \in steady, After(t, listing.before) PROVE t \in rows
  <2>1. t \in Tasks /\ owner[t] = session.who /\ recordedOn[t] >= now - Window
    BY <1>4, SteadyKeyed
  <2>2. listing.since <= now - Window
    BY <1>2 DEF AllInv
  <2>3. recordedOn[t] >= listing.since
    BY <1>0, <2>1, <2>2
  <2> QED BY <1>4, <2>1, <2>3 DEF OwnedRows
<1>5. \A t \in steady : t \in Tasks
  BY SteadyKeyed
<1>6. CASE rows = {}
  <2>1. Goto("end") /\ Return(listing.page) /\ UNCHANGED listing
    BY <1>6 DEF ReadSlice
  <2>2. session'.pc = "end"
    BY <2>1, ListMoves DEF ReachInv
  <2>3. /\ \A t \in Tasks : seen'[t] = IF t \in listing.page THEN seen[t] + 1 ELSE seen[t]
        /\ \A t \in Tasks : seen'[t] > 0 <=> seen[t] > 0 \/ t \in listing.page
    BY <1>0, <2>1, ReturnCounts
  <2>4. \A t \in listing.page : t \in Tasks /\ seen[t] = 0 /\ Keyed(t)
    BY <1>2 DEF OnceInv
  <2>5. ASSUME NEW t \in Tasks PROVE seen'[t] <= 1 /\ (seen'[t] > 0 => Keyed(t)')
    BY <1>0, <1>1, <2>3, <2>4 DEF OnceInv, Keyed
  <2>6. ASSUME NEW t \in steady' PROVE seen'[t] > 0
    <3>1. seen[t] > 0 \/ t \in listing.page
      BY <1>1, <1>2, <1>4, <1>6, <2>6 DEF AllInv
    <3> QED BY <1>1, <1>5, <2>3, <2>6, <3>1
  <2> QED BY <2>2, <2>5, <2>6 DEF OnceInv, AllInv
<1>7. CASE rows # {}
  <2>1. /\ Goto("fetch") /\ UNCHANGED seen
        /\ listing' = [listing EXCEPT !.rows = first]
    BY <1>7 DEF ReadSlice
  <2>2. session'.pc = "fetch"
    BY <2>1, ListMoves DEF ReachInv
  <2>3. /\ first \subseteq rows /\ first # {} /\ Cardinality(first) \in Nat
        /\ Cardinality(first) < SliceSize => first = rows
        /\ \A t \in rows \ first, u \in first : Newer(u, t)
    BY <1>0, <1>2, <1>7, FirstRows
  <2> HIDE DEF first, rows
  <2>4. /\ listing'.rows = first /\ listing'.cursor = listing.cursor /\ listing'.page = listing.page
        /\ listing'.before = listing.before /\ listing'.since = listing.since
    BY <2>1 DEF ListType
  <2>5. OnceInv'
    BY <1>1, <1>2, <1>3, <2>1, <2>2, <2>3, <2>4 DEF OnceInv, Keyed, After
  <2>6. ASSUME NEW t \in steady'
        PROVE  \/ seen[t] > 0 \/ t \in listing.page \/ t \in first
               \/ Cardinality(first) >= SliceSize /\ \A u \in first : Newer(u, t)
    <3>1. seen[t] > 0 \/ t \in listing.page \/ t \in rows
      BY <1>1, <1>2, <1>4, <2>6 DEF AllInv
    <3>2. CASE t \in rows \ first
      <4>1. ~(Cardinality(first) < SliceSize)
        BY <2>3, <3>2
      <4> QED BY <1>0, <2>3, <3>2, <4>1
    <3> QED BY <3>1, <3>2
  <2>7. ASSUME NEW t \in steady'
        PROVE  /\ seen[t] > 0 \/ After(t, listing.cursor)
               /\ seen[t] > 0 \/ t \in listing.page \/ After(t, listing.before)
    BY <1>1, <1>2, <2>7 DEF AllInv
  <2>8. listing.since <= now - Window
    BY <1>2 DEF AllInv
  <2>9. AllInv'
    BY <1>1, <2>1, <2>2, <2>4, <2>6, <2>7, <2>8 DEF AllInv, After, Newer
  <2> QED BY <2>5, <2>9
<1> QED
  BY <1>6, <1>7

\* The provider's answer for a slice: a page is closed behind the last task taken,
\* or the slice is done with, and nothing that is owed is passed over.
LEMMA FetchSlicePages ==
    ASSUME RowInv, ReachInv, ListType, Paging, OnceInv, AllInv, FetchSlice, ListMoved
    PROVE  OnceInv' /\ AllInv'
<1> DEFINE rows  == listing.rows
           room  == PageSize - Cardinality(listing.page)
           found == rows \cap Shown(listing.filter)
           taken == FirstOf(found, room)
           page  == listing.page \cup taken
           last  == Position(OldestOf(rows))
           cut   == Position(OldestOf(taken))
<1>0. /\ recordedOn \in [Tasks -> Nat] /\ seen \in [Tasks -> Nat] /\ listing.before \in Places
      /\ SliceSize \in Nat \ {0} /\ PageSize \in Nat \ {0}
  BY GenerationTasksAssumption DEF RowInv, ReachInv, Shapes, ListType
<1>1. UNCHANGED <<now, recordedOn, creating>> /\ steady' \subseteq steady
  BY DEF ListMoved, createVars, ownerVars
<1>2. /\ session.pc = "fetch" /\ rows \subseteq Tasks /\ listing.page \subseteq Tasks
      /\ \A t \in steady : t \in Tasks
  BY SteadyKeyed DEF FetchSlice, In, ListType
<1>3. /\ rows # {} /\ \A t \in rows : Keyed(t) /\ After(t, listing.before)
      /\ \A t \in Tasks : seen[t] > 0 => ~After(t, listing.before)
      /\ \A t \in listing.page : Keyed(t) /\ seen[t] = 0 /\ ~After(t, listing.before)
      /\ Cardinality(listing.page) < PageSize
  BY <1>2 DEF OnceInv
<1>4. IsFiniteSet(listing.page) /\ Cardinality(listing.page) \in Nat /\ IsFiniteSet(rows)
  BY <1>2, GenerationTasksAssumption, FS_Subset, FS_CardinalityType
<1>5. room \in Nat \ {0}
  BY <1>0, <1>3, <1>4
<1> HIDE DEF rows, room
<1>6. found \subseteq rows /\ found \subseteq Tasks
  BY <1>2
<1> HIDE DEF found
<1>7. /\ taken \subseteq found /\ Cardinality(taken) \in Nat /\ Cardinality(taken) <= room
      /\ Cardinality(taken) < room => taken = found
      /\ \A t \in found \ taken, u \in taken : Newer(u, t)
  BY <1>0, <1>5, <1>6, FirstRows
<1>8. IsFiniteSet(taken)
  BY <1>4, <1>6, <1>7, FS_Subset
<1> HIDE DEF taken
<1>9. \A t \in taken : t \in Tasks /\ Keyed(t) /\ After(t, listing.before) /\ seen[t] = 0
  BY <1>0, <1>2, <1>3, <1>6, <1>7
<1>10. \A t \in page : t \in Tasks /\ Keyed(t) /\ seen[t] = 0
  BY <1>2, <1>3, <1>9
<1>11. ASSUME NEW t \in steady
       PROVE  \/ t \in Tasks /\ (seen[t] > 0 \/ t \in page)
              \/ /\ t \in Tasks /\ t \in found \ taken
              \/ /\ t \in Tasks /\ Cardinality(rows) >= SliceSize
                 /\ \A u \in rows : Newer(u, t)
  <2>1. t \in Tasks /\ t \in Shown(listing.filter)
    BY SteadyKeyed
  <2>2. \/ seen[t] > 0 \/ t \in listing.page \/ t \in rows
        \/ Cardinality(rows) >= SliceSize /\ \A u \in rows : Newer(u, t)
    BY <1>2 DEF AllInv, rows
  <2>3. t \in rows => t \in found
    BY <2>1 DEF found
  <2> QED BY <2>1, <2>2, <2>3
<1>12. ASSUME NEW S, Return(S), S = page
       PROVE  /\ \A t \in Tasks : seen'[t] > 0 <=> seen[t] > 0 \/ t \in page
              /\ \A t \in Tasks : seen'[t] <= 1 /\ (seen'[t] > 0 => Keyed(t)')
  <2>1. /\ \A t \in Tasks : seen'[t] = IF t \in page THEN seen[t] + 1 ELSE seen[t]
        /\ \A t \in Tasks : seen'[t] > 0 <=> seen[t] > 0 \/ t \in page
    BY <1>0, <1>12, ReturnCounts
  <2> HIDE DEF page
  <2> QED BY <1>0, <1>1, <1>10, <2>1 DEF OnceInv, Keyed
\* What is behind a cursor made of the last row of a set that comes after the old one.
<1>13. ASSUME NEW S \in SUBSET rows, S # {}, NEW t \in Tasks,
              t \in S \/ t \in listing.page \/ seen[t] > 0
       PROVE  ~After(t, Position(OldestOf(S)))
  <2>1. S \in SUBSET Tasks /\ OldestOf(S) \in S
    BY <1>0, <1>2, <1>13, OldestRow
  <2>2. OldestOf(S) \in Tasks /\ After(OldestOf(S), listing.before)
    BY <1>2, <1>3, <2>1
  <2>3. CASE t \in S
    BY <1>0, <2>1, <2>3, BehindOldest
  <2>4. CASE t \notin S
    <3>1. ~After(t, listing.before)
      BY <1>3, <1>13, <2>4
    <3> QED BY <1>0, <2>2, <3>1, Behind
  <2> QED BY <2>3, <2>4
<1>14. CASE Cardinality(taken) = room
  <2>1. /\ Goto("page") /\ Return(page)
        /\ listing' = [listing EXCEPT !.cursor = cut, !.rows = {}]
    BY <1>14 DEF FetchSlice, CursorOf, taken, found, room, rows
  <2>2. session'.pc = "page" /\ listing'.cursor = cut
    BY <2>1, ListMoves DEF ReachInv, ListType
  <2>3. /\ \A t \in Tasks : seen'[t] > 0 <=> seen[t] > 0 \/ t \in page
        /\ \A t \in Tasks : seen'[t] <= 1 /\ (seen'[t] > 0 => Keyed(t)')
    BY <1>12, <2>1
  <2>4. taken # {} /\ taken \in SUBSET rows /\ taken \in SUBSET Tasks
    BY <1>2, <1>5, <1>6, <1>7, <1>14, FS_EmptySet
  <2>5. OldestOf(taken) \in taken
    BY <1>0, <2>4, OldestRow
  <2>6. ASSUME NEW t \in Tasks, seen'[t] > 0 PROVE ~After(t, cut)
    BY <1>13, <2>3, <2>4, <2>6
  <2>7. ASSUME NEW t \in steady PROVE seen'[t] > 0 \/ After(t, cut)
    <3>1. CASE seen[t] > 0 \/ t \in page
      BY <1>2, <2>3, <2>7, <3>1
    <3>2. CASE ~(seen[t] > 0 \/ t \in page)
      <4>1. Newer(OldestOf(taken), t)
        BY <1>6, <1>7, <1>11, <2>4, <2>5, <2>7, <3>2
      <4> QED BY <1>0, <1>2, <2>4, <2>5, <2>7, <4>1, AfterPosition
    <3> QED BY <3>1, <3>2
  <2> HIDE DEF cut
  <2>8. OnceInv'
    BY <1>1, <2>2, <2>3, <2>6 DEF OnceInv, After
  <2>9. AllInv'
    BY <1>1, <2>2, <2>7 DEF AllInv, After
  <2> QED BY <2>8, <2>9
<1>15. ASSUME Cardinality(taken) # room
       PROVE  /\ Cardinality(page) < PageSize
              /\ \A t \in steady : t \in Tasks /\
                    \/ seen[t] > 0 \/ t \in page
                    \/ Cardinality(rows) >= SliceSize /\ \A u \in rows : Newer(u, t)
  <2>1. Cardinality(taken) < room /\ taken = found
    BY <1>5, <1>7, <1>15
  <2>2. Cardinality(page) = Cardinality(listing.page) + Cardinality(taken)
                            - Cardinality(listing.page \cap taken)
    BY <1>4, <1>8, FS_Union
  <2>3. Cardinality(listing.page \cap taken) \in Nat
    BY <1>4, FS_Intersection, FS_CardinalityType
  <2>4. Cardinality(page) < PageSize
    <3> HIDE DEF page
    <3>1. Cardinality(taken) < PageSize - Cardinality(listing.page)
      BY <2>1 DEF room
    <3> QED BY <1>0, <1>4, <1>7, <2>2, <2>3, <3>1
  <2> QED BY <1>11, <2>1, <2>4
<1>16. CASE Cardinality(taken) # room /\ Cardinality(rows) < SliceSize
  <2>1. Goto("end") /\ Return(page)
    BY <1>16 DEF FetchSlice, taken, found, room, rows
  <2>2. session'.pc = "end"
    BY <2>1, ListMoves DEF ReachInv
  <2>3. /\ \A t \in Tasks : seen'[t] > 0 <=> seen[t] > 0 \/ t \in page
        /\ \A t \in Tasks : seen'[t] <= 1 /\ (seen'[t] > 0 => Keyed(t)')
    BY <1>12, <2>1
  <2>4. Cardinality(rows) \in Nat
    BY <1>4, FS_CardinalityType
  <2>5. \A t \in steady : seen'[t] > 0
    <3> HIDE DEF page
    <3> QED BY <1>0, <1>15, <1>16, <2>3, <2>4
  <2> QED BY <1>1, <2>2, <2>3, <2>5 DEF OnceInv, AllInv
<1>17. CASE Cardinality(taken) # room /\ ~(Cardinality(rows) < SliceSize)
  <2>1. OldestOf(rows) \in rows
    BY <1>0, <1>2, <1>3, OldestRow
  <2>2. ASSUME NEW t \in steady PROVE seen[t] > 0 \/ t \in page \/ After(t, last)
    <3>1. CASE seen[t] > 0 \/ t \in page
      BY <3>1
    <3>2. CASE ~(seen[t] > 0 \/ t \in page)
      <4>1. t \in Tasks /\ Newer(OldestOf(rows), t)
        BY <1>15, <1>17, <2>1, <2>2, <3>2
      <4> QED BY <1>0, <1>2, <2>1, <4>1, AfterPosition
    <3> QED BY <3>1, <3>2
  <2>3. \A t \in Tasks : seen[t] > 0 \/ t \in page => ~After(t, last)
    BY <1>3, <1>6, <1>7, <1>13
  <2> HIDE DEF last
  <2>4. CASE listing.slices + 1 = MaxSlices
    <3>1. /\ Goto("page") /\ Return(page)
          /\ listing' = [listing EXCEPT !.cursor = last, !.rows = {}]
      BY <1>17, <2>4 DEF FetchSlice, taken, found, room, rows, last
    <3>2. session'.pc = "page" /\ listing'.cursor = last
      BY <3>1, ListMoves DEF ReachInv, ListType
    <3>3. /\ \A t \in Tasks : seen'[t] > 0 <=> seen[t] > 0 \/ t \in page
          /\ \A t \in Tasks : seen'[t] <= 1 /\ (seen'[t] > 0 => Keyed(t)')
      BY <1>12, <3>1
    <3> HIDE DEF page
    <3>4. OnceInv'
      BY <1>1, <2>3, <3>2, <3>3 DEF OnceInv, After
    <3>5. AllInv'
      BY <1>1, <1>2, <2>2, <3>2, <3>3 DEF AllInv, After
    <3> QED BY <3>4, <3>5
  <2>5. CASE listing.slices + 1 # MaxSlices
    <3>1. /\ Goto("slice") /\ UNCHANGED seen
          /\ listing' = [listing EXCEPT !.page = page, !.before = last, !.rows = {},
                                        !.slices = @ + 1]
      BY <1>17, <2>5 DEF FetchSlice, taken, found, room, rows, last
    <3> HIDE DEF page
    <3>2. /\ session'.pc = "slice" /\ listing'.cursor = listing.cursor /\ listing'.before = last
          /\ listing'.page = page /\ listing'.since = listing.since
      BY <3>1, ListMoves DEF ReachInv, ListType
    <3>3. Cardinality(page) < PageSize
      BY <1>15, <1>17
    <3>4. OnceInv'
      BY <1>1, <1>2, <1>10, <2>3, <3>1, <3>2, <3>3 DEF OnceInv, Keyed, After
    <3>5. AllInv'
      BY <1>1, <1>2, <2>2, <3>1, <3>2 DEF AllInv, After
    <3> QED BY <3>4, <3>5
  <2> QED BY <2>4, <2>5
<1> QED
  BY <1>14, <1>16, <1>17

-----------------------------------------------------------------------------
(* The state of a listing stays of its type.                               *)

ListingType ==
    listing \in [filter : Filters \cup {"any"}, cursor : Places, before : Places, since : Int,
                 slices : Nat, rows : SUBSET Tasks, page : SUBSET Tasks, number : Nat \ {0}]

\* What a listing is held against lies among the tasks that could be listed by now.
LEMMA WitnessTells ==
    ASSUME ListType, Next
    PROVE  /\ steady' \subseteq Tasks
           /\ session'.does = "list" => steady' \subseteq Current'
           /\ session.does = "list" /\ session'.does = "list" =>
                 /\ steady' = steady \cap Current'
                 /\ calm' => calm /\ Current \subseteq Current'
<1>1. Witness /\ steady \subseteq Tasks
  BY DEF Next, ListType
<1>2. Current' \subseteq Tasks
  BY DEF Current, Listable, Shown
<1> QED
  BY <1>1, <1>2 DEF Witness

\* The cursors a page leaves are made of rows.
LEMMA FetchSliceType ==
    ASSUME RowInv, ReachInv, ListType, OnceInv, FetchSlice
    PROVE  ListingType'
<1> DEFINE rows  == listing.rows
           room  == PageSize - Cardinality(listing.page)
           found == rows \cap Shown(listing.filter)
           taken == FirstOf(found, room)
           page  == listing.page \cup taken
<1>1. /\ recordedOn \in [Tasks -> Nat] /\ session.pc = "fetch" /\ PageSize \in Nat
      /\ rows \in SUBSET Tasks /\ listing.page \in SUBSET Tasks
  BY GenerationTasksAssumption DEF RowInv, FetchSlice, In, ListType
<1>2. /\ rows # {} /\ Cardinality(listing.page) < PageSize
  BY <1>1 DEF OnceInv
<1>3. Cardinality(listing.page) \in Nat
  BY <1>1, GenerationTasksAssumption, FS_Subset, FS_CardinalityType
<1>4. taken \in SUBSET Tasks
  BY <1>1 DEF FirstOf
<1>5. Position(OldestOf(rows)) \in Places
  BY <1>1, <1>2, OldestRow, AfterPosition
<1>6. Cardinality(taken) = room => Position(OldestOf(taken)) \in Places
  <2>1. Cardinality(taken) = room => taken # {}
    BY <1>1, <1>2, <1>3, FS_EmptySet
  <2> HIDE DEF taken
  <2> QED BY <1>1, <1>4, <2>1, OldestRow, AfterPosition
<1>7. page \in SUBSET Tasks
  BY <1>1, <1>4
<1>8. \/ UNCHANGED listing
      \/ \E c \in Places : listing' = [listing EXCEPT !.cursor = c, !.rows = {}]
      \/ listing' = [listing EXCEPT !.page = page, !.before = Position(OldestOf(rows)), !.rows = {},
                                    !.slices = @ + 1]
  BY <1>5, <1>6 DEF FetchSlice, CursorOf
<1> HIDE DEF page, rows
<1>9. ListingType
  BY DEF ListType, ListingType
<1>10. CASE UNCHANGED listing
  BY <1>9, <1>10 DEF ListingType
<1>11. ASSUME NEW c \in Places, listing' = [listing EXCEPT !.cursor = c, !.rows = {}]
       PROVE  ListingType'
  BY <1>9, <1>11 DEF ListingType
<1>12. ASSUME NEW c \in Places, NEW n \in Nat,
              listing' = [listing EXCEPT !.page = page, !.before = c, !.rows = {}, !.slices = n]
       PROVE  ListingType'
  BY <1>7, <1>9, <1>12 DEF ListingType
<1>13. CASE \E c \in Places : listing' = [listing EXCEPT !.cursor = c, !.rows = {}]
  BY <1>11, <1>13
<1>14. CASE listing' = [listing EXCEPT !.page = page, !.before = Position(OldestOf(rows)), !.rows = {},
                                       !.slices = @ + 1]
  <2>1. listing.slices + 1 \in Nat
    BY <1>9 DEF ListingType
  <2> QED BY <1>5, <1>12, <1>14, <2>1
<1> QED
  BY <1>8, <1>10, <1>13, <1>14

\* Only remote principals go by cursors, only local ones by numbers.
LEMMA ListStepType ==
    ASSUME RowInv, ReachInv, ListType, Paging => OnceInv, ListStep \/ FetchFails
    PROVE  /\ ListingType'
           /\ session.does = "list" /\ session'.does = "list" /\ session'.who = session.who
           /\ session.who \in Local => session'.pc \in {"local", "end"}
           /\ session.who \in Local => LocalPage
           /\ session.who \notin Local => ~LocalPage /\ Paging
           /\ UNCHANGED <<now, createVars>>
<1>0. /\ ListingType /\ Shapes /\ session.does = "list" /\ session.who \in Principals
      /\ session.who \in Local => session.pc \in {"local", "end"}
      /\ UNCHANGED <<now, createVars>>
  BY DEF ListType, ListingType, ReachInv, ListStep, PageStart, ReadSlice, FetchSlice, LocalPage, FetchFails, In
<1>1. session.who \notin Local => Paging /\ session.pc # "local"
  BY <1>0 DEF Paging, Remote, ReachInv
<1>2. CASE LocalPage
  <2>1. /\ session.pc = "local"
        /\ \/ listing' = [listing EXCEPT !.number = @ + 1] /\ UNCHANGED session
           \/ Goto("end") /\ UNCHANGED listing
    BY <1>2 DEF LocalPage, In
  <2>2. ListingType'
    BY <1>0, <2>1 DEF ListingType
  <2>3. session'.does = "list" /\ session'.who = session.who /\ session'.pc \in {"local", "end"}
    BY <1>0, <2>1, ListMoves
  <2> QED BY <1>0, <1>1, <1>2, <2>1, <2>2, <2>3
<1>3. CASE ~LocalPage
  <2>1. session.pc \in {"page", "slice", "fetch"} /\ Paging
    BY <1>0, <1>1, <1>3 DEF ListStep, PageStart, ReadSlice, FetchSlice, FetchFails, In
  <2>2. session'.does = "list" /\ session'.who = session.who
    BY <1>0, <1>3, ListMoves DEF ListStep, PageStart, ReadSlice, FetchSlice, FetchFails
  <2>3. ASSUME PageStart PROVE ListingType'
    <3>1. now - Window \in Int
      BY GenerationTasksAssumption DEF RowInv
    <3>2. listing' = [listing EXCEPT !.since = now - Window, !.slices = 0,
                                     !.page = {}, !.before = listing.cursor]
      BY <2>3 DEF PageStart
    <3> QED BY <1>0, <3>1, <3>2 DEF ListingType
  <2>4. ASSUME ReadSlice PROVE ListingType'
    <3> DEFINE first == FirstOf(OwnedRows(session.who, listing.since, listing.before), SliceSize)
    <3>1. first \in SUBSET Tasks
      BY DEF FirstOf, OwnedRows
    <3>2. UNCHANGED listing \/ listing' = [listing EXCEPT !.rows = first]
      BY <2>4 DEF ReadSlice
    <3> HIDE DEF first
    <3> QED BY <1>0, <3>1, <3>2 DEF ListingType
  <2>5. FetchSlice => ListingType'
    BY <2>1, FetchSliceType
  <2>6. FetchFails => ListingType'
    BY <1>0 DEF FetchFails, ListingType
  <2>7. ListingType'
    BY <1>3, <2>3, <2>4, <2>5, <2>6 DEF ListStep
  <2> QED BY <1>0, <1>1, <1>3, <2>1, <2>2, <2>7 DEF Paging, Remote
<1> QED
  BY <1>2, <1>3

\* Around a listing: a key that is given stays, a task keeps the day it was created on.
LEMMA WorldSpares ==
    ASSUME RowInv, ListType, Next, World
    PROVE  /\ ListKept /\ born' \in [Tasks -> Nat]
           /\ \A t \in Tasks : status[t] # "none" => status'[t] # "none" /\ born'[t] = born[t]
<1>1. UNCHANGED <<session, listing, seen>>
  BY WorldKeepsCall DEF callVars
<1>2. session.does = "list" => steady' \subseteq steady
  BY <1>1, WitnessTells
<1>3. /\ now \in Nat /\ recordedOn \in [Tasks -> Nat] /\ born \in [Tasks -> Nat]
      /\ creating \in [Tasks -> {"no", "recording", "returned", "lost"}]
      /\ \A t \in Tasks : status[t] = "none" => creating[t] = "no"
      /\ StatusOK
  BY DEF RowInv, RowOK, ListType
<1> DEFINE Spared == /\ now' \in Nat /\ now <= now'
                     /\ \A t \in Tasks : Keyed(t) => Keyed(t)' /\ recordedOn'[t] = recordedOn[t]
                     /\ born' \in [Tasks -> Nat]
                     /\ \A t \in Tasks : status[t] # "none" => status'[t] # "none" /\ born'[t] = born[t]
<1>4. ASSUME Prune PROVE Spared
  BY <1>3, <1>4 DEF Prune, providerVars, Keyed
<1>5. ASSUME Tick PROVE Spared
  BY <1>3, <1>5 DEF Tick, createVars, providerVars, ownerVars, Keyed
<1>6. ASSUME NEW t \in Tasks, Create(t) PROVE Spared
  BY <1>3, <1>6 DEF Create, ownerVars, Keyed, StatusOK
<1>7. ASSUME NEW t \in Tasks, Record(t) PROVE Spared
  BY <1>3, <1>7 DEF Record, providerVars, Keyed
<1>8. ASSUME NEW t \in Tasks, RecordFails(t) PROVE Spared
  BY <1>3, <1>8 DEF RecordFails, ownerVars, Keyed
<1>9. ASSUME NEW t \in Tasks, Progress(t) \/ Vanish(t) PROVE Spared
  <2>1. PICK s : s # "none" /\ Change(t, s)
    BY <1>9, GenerationTasksAssumption DEF Progress, Vanish
  <2> QED BY <1>3, <2>1 DEF Change, ownerVars, Keyed, StatusOK
<1> QED
  BY <1>1, <1>2, <1>4, <1>5, <1>6, <1>7, <1>8, <1>9 DEF World, ListKept

\* Polls and cancellations leave listings alone.
LEMMA OthersSpare ==
    ASSUME Shapes, PollStep \/ Check \/ Delete
    PROVE  /\ UNCHANGED <<listing, seen, now, born, creating, recordedOn>>
           /\ session.does \in {"poll", "kill"} /\ session'.does = session.does
<1>1. CASE PollStep
  <2>1. session'.does = session.does
    BY <1>1 DEF PollStep, PollList, PollListFails, PollAnswer, Refetch, Goto, Shapes
  <2> QED BY <1>1, <2>1 DEF PollStep, PollList, PollListFails, PollAnswer, Refetch, In, createVars,
                            providerVars, ownerVars, callVars
<1>2. CASE Check
  BY <1>2 DEF Check, In, Goto, Shapes, createVars, providerVars, ownerVars
<1>3. CASE Delete
  <2>1. session'.does = session.does
    BY <1>3 DEF Delete, Goto, Shapes
  <2> QED BY <1>3, <2>1 DEF Delete, In, ownerVars
<1> QED
  BY <1>1, <1>2, <1>3

\* A poll or a cancellation begins.
LEMMA OthersBegin ==
    ASSUME NEW p \in Principals,
           (\E asked \in SUBSET Tasks : PollStart(p, asked)) \/ \E t \in Tasks : KillStart(p, t)
    PROVE  /\ UNCHANGED <<listing, seen, now, born, creating, recordedOn>>
           /\ session.does # "list" /\ session'.does # "list"
<1>1. ASSUME NEW asked \in SUBSET Tasks, PollStart(p, asked)
      PROVE  /\ UNCHANGED <<listing, seen, now, createVars>>
             /\ session = Idle /\ session'.does = "poll"
  BY <1>1 DEF PollStart
<1>2. ASSUME NEW t \in Tasks, KillStart(p, t)
      PROVE  /\ UNCHANGED <<listing, seen, now, createVars>>
             /\ session = Idle /\ session'.does = "kill"
  BY <1>2 DEF KillStart
<1> QED
  BY <1>1, <1>2 DEF Idle, createVars, providerVars, ownerVars

\* A listing begins without a cursor.
LEMMA ListStartType ==
    ASSUME ListType, NEW p \in Principals, ListStart(p)
    PROVE  /\ ListingType' /\ UNCHANGED <<seen, now, born, creating, recordedOn>>
           /\ session'.does = "list" /\ session'.who = p
           /\ session'.pc = IF p \in Local THEN "local" ELSE "page"
           /\ listing'.cursor = listing.cursor /\ listing'.number = listing.number
           /\ session.does # "list"
<1>1. PICK f \in Filters : listing' = [listing EXCEPT !.filter = f]
  BY DEF ListStart
<1>2. ListingType
  BY DEF ListType, ListingType
<1>3. ListingType' /\ listing'.cursor = listing.cursor /\ listing'.number = listing.number
  BY <1>1, <1>2 DEF ListingType
<1> QED
  BY <1>3 DEF ListStart, Idle, createVars, providerVars, ownerVars

\* Every step keeps the types.
LEMMA ListTypeNext == RowInv /\ ReachInv /\ ListInv /\ [Next]_vars => ListType'
<1> SUFFICES ASSUME RowInv, ReachInv, ListInv, [Next]_vars PROVE ListType'
  OBVIOUS
<1>0. ListType /\ ListingType /\ Shapes
  BY DEF ListInv, ListType, ListingType, ReachInv
<1>1. CASE UNCHANGED vars
  BY <1>0, <1>1 DEF vars, createVars, providerVars, ownerVars, callVars, ListType, Current, Listable,
                    Shown, Exists, Selects
<1>2. ASSUME Next, ListingType', born' \in [Tasks -> Nat],
             session'.does # "list" =>
                /\ listing'.cursor = NoCursor /\ listing'.number = 1
                /\ \A t \in Tasks : seen'[t] = 0,
             session'.does = "list" => /\ session'.who \in Principals
                                       /\ session'.who \in Local => session'.pc \in {"local", "end"}
      PROVE  ListType'
  BY <1>0, <1>2, WitnessTells DEF ListType, ListingType
<1>3. CASE Next /\ World
  <2>1. UNCHANGED <<session, listing, seen>> /\ born' \in [Tasks -> Nat]
    BY <1>0, <1>3, WorldSpares DEF ListKept
  <2>2. ListingType'
    BY <1>0, <2>1 DEF ListingType
  <2> QED BY <1>0, <1>2, <1>3, <2>1, <2>2 DEF ListType
<1>4. CASE Next /\ Begin
  <2>1. ASSUME NEW p \in Principals, ListStart(p) PROVE ListType'
    BY <1>0, <1>2, <1>4, <2>1, ListStartType DEF ListType
  <2>2. ASSUME NEW p \in Principals,
               (\E asked \in SUBSET Tasks : PollStart(p, asked)) \/ \E t \in Tasks : KillStart(p, t)
        PROVE  ListType'
    <3>1. UNCHANGED <<listing, seen, born>> /\ session.does # "list" /\ session'.does # "list"
      BY <2>2, OthersBegin
    <3> QED BY <1>0, <1>2, <1>4, <3>1 DEF ListType, ListingType
  <2> QED BY <1>4, <2>1, <2>2 DEF Begin
<1>5. CASE Next /\ (ListStep \/ FetchFails)
  BY <1>0, <1>2, <1>5, ListStepType DEF ListInv, ListType, createVars, providerVars
<1>6. CASE Next /\ (PollStep \/ Check \/ Delete)
  <2>1. UNCHANGED <<listing, seen, born>> /\ session.does # "list" /\ session'.does # "list"
    BY <1>0, <1>6, OthersSpare
  <2> QED BY <1>0, <1>2, <1>6, <2>1 DEF ListType, ListingType
<1> QED
  BY <1>1, <1>3, <1>4, <1>5, <1>6 DEF Next, Step

\* Every step keeps a listing by cursors exact.
LEMMA PagingNext ==
    ASSUME RowInv, ReachInv, ListInv, [Next]_vars, Paging'
    PROVE  OnceInv' /\ AllInv'
<1>0. ListType /\ Shapes /\ (Paging => OnceInv /\ AllInv)
  BY DEF ListInv, ReachInv
<1>1. CASE UNCHANGED vars
  <2>1. Paging /\ ListKept
    BY <1>1 DEF vars, createVars, ownerVars, callVars, Paging, ListKept, Keyed, RowInv
  <2> QED BY <1>0, <2>1, KeptOnce, KeptAll
<1>2. CASE Next /\ World
  <2>1. ListKept
    BY <1>0, <1>2, WorldSpares
  <2>2. Paging
    BY <2>1 DEF ListKept, Paging
  <2> QED BY <1>0, <2>1, <2>2, KeptOnce, KeptAll
<1>3. ASSUME NEW p \in Principals, ListStart(p) PROVE OnceInv' /\ AllInv'
  <2>1. /\ seen' = seen /\ \A t \in Tasks : seen[t] = 0
        /\ session'.pc = "page" /\ listing'.cursor = NoCursor
    <3>1. /\ session.does # "list" /\ session'.who = p /\ seen' = seen
          /\ session'.pc = IF p \in Local THEN "local" ELSE "page"
          /\ listing'.cursor = listing.cursor
      BY <1>0, <1>3, ListStartType
    <3> QED BY <1>0, <3>1 DEF ListType, Paging, Remote
  <2>2. OnceInv'
    BY <2>1 DEF OnceInv
  <2>3. AllInv'
    BY <2>1 DEF AllInv, After
  <2> QED BY <2>2, <2>3
<1>4. CASE Next /\ (ListStep \/ FetchFails)
  <2>1. /\ session'.does = "list" /\ session'.who = session.who /\ session.does = "list"
        /\ UNCHANGED <<now, createVars>>
        /\ session.who \in Local => LocalPage
        /\ session.who \notin Local => ~LocalPage
    BY <1>0, <1>4, ListStepType
  <2>2. Paging /\ ~LocalPage
    BY <2>1 DEF Paging, Remote
  <2>3. ListMoved
    <3>1. steady' = steady \cap Current'
      BY <1>0, <1>4, <2>1, WitnessTells
    <3>2. steady' \subseteq steady
      BY <3>1
    <3> QED BY <2>1, <3>2 DEF ListMoved
  <2> QED BY <1>0, <1>4, <2>2, <2>3, PageStartPages, ReadSlicePages, FetchSlicePages, FetchFailsPages
             DEF ListStep
<1>5. CASE (PollStep \/ Check \/ Delete)
  BY <1>0, <1>5, OthersSpare DEF Paging
<1>6. ASSUME NEW p \in Principals,
             (\E asked \in SUBSET Tasks : PollStart(p, asked)) \/ \E t \in Tasks : KillStart(p, t)
      PROVE  FALSE
  BY <1>6, OthersBegin DEF Paging
<1> QED
  BY <1>1, <1>2, <1>3, <1>4, <1>5, <1>6 DEF Next, Step, Begin

-----------------------------------------------------------------------------
(* A listing of the local transport goes by page numbers.  While nothing   *)
(* leaves the list a task only ever moves to later pages.                  *)

Sooner(shown) ==
    [t \in shown |-> {u \in shown : born[u] > born[t] \/ (born[u] = born[t] /\ u > t)}]

\* (created_at, task_id) orders the provider's pages as well.
LEMMA ShownOrdered ==
    ASSUME born \in [Tasks -> Nat], NEW shown \in SUBSET Tasks
    PROVE  Ordered(shown, Sooner(shown))
<1>1. IsFiniteSet(shown)
  BY GenerationTasksAssumption, FS_Subset
<1>2. \A t \in shown : t \in Nat /\ born[t] \in Nat
  BY GenerationTasksAssumption
<1> QED
  BY <1>1, <1>2 DEF Ordered, Sooner

\* A page that is not full is the last one.
LEMMA ShortPageLast ==
    ASSUME NEW S, NEW B, Ordered(S, B), NEW lo \in Nat, NEW k \in Nat,
           LET page == {t \in S : Cardinality(B[t]) >= lo /\ Cardinality(B[t]) < lo + k} IN
           Cardinality(page) # k
    PROVE  \A t \in S : Cardinality(B[t]) < lo + k
<1> DEFINE low  == {t \in S : Cardinality(B[t]) < lo}
           high == {t \in S : Cardinality(B[t]) < lo + k}
           page == {t \in S : Cardinality(B[t]) >= lo /\ Cardinality(B[t]) < lo + k}
<1>0. \A t \in S : Cardinality(B[t]) \in Nat
  BY Positions
<1>1. IsFiniteSet(S) /\ Cardinality(S) \in Nat /\ lo + k \in Nat
  BY FS_CardinalityType DEF Ordered
<1>2. /\ IsFiniteSet(low) /\ (lo <= Cardinality(S) => Cardinality(low) = lo)
  BY PositionsBelow
<1>3. /\ IsFiniteSet(high) /\ (lo + k <= Cardinality(S) => Cardinality(high) = lo + k)
      /\ (lo + k >= Cardinality(S) => high = S)
  BY <1>1, PositionsBelow
<1>4. low \subseteq high /\ page = high \ low /\ high \cap low = low
  BY <1>0
<1>5. Cardinality(page) = Cardinality(high) - Cardinality(low)
  <2> HIDE DEF page, high, low
  <2>1. Cardinality(high \ low) = Cardinality(high) - Cardinality(high \cap low)
    BY <1>3, FS_Difference
  <2> QED BY <1>4, <2>1
<1> HIDE DEF low, page
<1>6. ~(lo + k <= Cardinality(S))
  <2> SUFFICES ASSUME lo + k <= Cardinality(S) PROVE FALSE
    OBVIOUS
  <2>1. lo <= Cardinality(S)
    BY <1>1
  <2>2. Cardinality(page) = k
    BY <1>2, <1>3, <1>5, <2>1
  <2> QED BY <2>2 DEF page
<1>7. high = S
  BY <1>1, <1>3, <1>6
<1> QED
  BY <1>7

\* A page begins where the one before it ends.
LEMMA PageEnds ==
    ASSUME NEW n \in Nat \ {0}, NEW k \in Nat
    PROVE  (n - 1) * k \in Nat /\ n * k = ((n - 1) * k) + k /\ ((n + 1) - 1) * k = n * k
<1> DEFINE m == n - 1
<1>1. m \in Nat /\ n = m + 1 /\ (n + 1) - 1 = n
  OBVIOUS
<1>2. ASSUME NEW a \in Nat PROVE a * k \in Nat /\ (a + 1) * k = (a * k) + k
  OBVIOUS
<1> HIDE DEF m
<1>3. m * k \in Nat /\ n * k = (m * k) + k
  BY <1>1, <1>2
<1> QED
  BY <1>1, <1>3 DEF m

\* Around a listing: as long as nothing leaves it, what is before a task stays before it.
LEMMA KeptLocal ==
    ASSUME ListType, session.does = "list", session.who \in Local, LocalInv,
           UNCHANGED <<session, listing, seen>>, steady' \subseteq steady,
           Current \subseteq Current',
           \A t \in Tasks : status[t] # "none" => born'[t] = born[t]
    PROVE  LocalInv'
<1>1. Shown(listing.filter) \subseteq Shown(listing.filter)'
  BY DEF Current, Listable
<1>2. \A t \in Shown(listing.filter) : t \in Tasks /\ born'[t] = born[t]
  BY DEF Shown, Exists
<1>3. \A t \in steady : t \in Shown(listing.filter)
  BY DEF ListType, Current, Listable
<1>4. ASSUME NEW t \in steady
      PROVE  /\ Cardinality(ShownBefore(t)) \in Nat /\ Cardinality(ShownBefore(t)') \in Nat
             /\ Cardinality(ShownBefore(t)) <= Cardinality(ShownBefore(t)')
  <2>1. ShownBefore(t) \subseteq ShownBefore(t)'
    BY <1>1, <1>2, <1>3, <1>4 DEF ShownBefore
  <2>2. ShownBefore(t)' \subseteq Tasks
    BY DEF ShownBefore, Shown
  <2>3. IsFiniteSet(ShownBefore(t)') /\ IsFiniteSet(ShownBefore(t))
    BY <2>1, <2>2, GenerationTasksAssumption, FS_Subset
  <2> QED BY <2>1, <2>3, FS_Subset, FS_CardinalityType
<1>5. (listing.number - 1) * PageSize \in Nat
  BY GenerationTasksAssumption, PageEnds DEF ListType
<1>6. ASSUME session'.pc = "local", NEW t \in steady'
      PROVE  seen'[t] > 0 \/ Cardinality(ShownBefore(t)') >= (listing'.number - 1) * PageSize
  <2>1. t \in steady /\ (seen[t] > 0 \/ Cardinality(ShownBefore(t)) >= (listing.number - 1) * PageSize)
    BY <1>6 DEF LocalInv
  <2> QED BY <1>4, <1>5, <2>1
<1>7. session'.pc = "end" => \A t \in steady' : seen'[t] > 0
  BY DEF LocalInv
<1> QED
  BY <1>6, <1>7 DEF LocalInv

\* A page by number: what is on it is returned, what is not comes later, and the page
\* that says there is no more is the last.
LEMMA LocalPageKeeps ==
    ASSUME ReachInv, ListType, session.who \in Local, LocalInv, LocalPage, steady' \subseteq steady
    PROVE  LocalInv'
<1> DEFINE shown == Shown(listing.filter)
           B     == Sooner(shown)
           lo    == (listing.number - 1) * PageSize
           page  == {t \in shown : /\ Cardinality(B[t]) >= lo
                                   /\ Cardinality(B[t]) < lo + PageSize}
<1>1. /\ Shapes /\ session.does = "list" /\ session.pc = "local" /\ listing.number \in Nat \ {0}
      /\ born \in [Tasks -> Nat] /\ seen \in [Tasks -> Nat] /\ PageSize \in Nat /\ shown \in SUBSET Tasks
      /\ ListingType
  BY GenerationTasksAssumption DEF LocalPage, In, ReachInv, Shapes, ListType, ListingType, Shown
<1>2. Ordered(shown, B)
  BY <1>1, ShownOrdered
<1>3. /\ lo \in Nat /\ listing.number * PageSize = lo + PageSize
      /\ ((listing.number + 1) - 1) * PageSize = lo + PageSize
  BY <1>1, PageEnds
<1>4. \A t \in shown : B[t] = ShownBefore(t)
  BY DEF Sooner, ShownBefore
<1>5. UNCHANGED <<now, status, born>>
  BY DEF LocalPage, createVars, providerVars
<1>6. \A t \in steady : t \in shown /\ t \in Tasks
  BY <1>1 DEF ListType, Current, Listable
<1>7. /\ Return(page)
      /\ \/ listing' = [listing EXCEPT !.number = @ + 1] /\ UNCHANGED session
         \/ /\ Goto("end") /\ UNCHANGED listing
            /\ ~(Cardinality(shown) > lo + PageSize) \/ Cardinality(page) # PageSize
  <2> DEFINE Rank(t) == Cardinality({u \in shown : born[u] > born[t] \/ (born[u] = born[t] /\ u > t)})
             paged   == {t \in shown : /\ Rank(t) >= (listing.number - 1) * PageSize
                                       /\ Rank(t) < listing.number * PageSize}
  <2>1. /\ Return(paged)
        /\ \E more \in {Cardinality(shown) > listing.number * PageSize, Cardinality(paged) = PageSize} :
              IF more
              THEN listing' = [listing EXCEPT !.number = @ + 1] /\ UNCHANGED session
              ELSE Goto("end") /\ UNCHANGED listing
    BY DEF LocalPage
  <2>2. \A t \in shown : Rank(t) = Cardinality(B[t])
    BY DEF Sooner
  <2> HIDE DEF Rank, B
  <2>3. paged = page
    BY <1>3, <2>2
  <2> HIDE DEF paged, page, lo, shown
  <2> QED BY <1>3, <2>1, <2>3
<1>8. \A t \in Tasks : seen'[t] > 0 <=> seen[t] > 0 \/ t \in page
  BY <1>1, <1>7, ReturnCounts
<1>9. \A t \in shown : Cardinality(B[t]) \in Nat /\ Cardinality(B[t]) < Cardinality(shown)
  BY <1>2, Positions
<1>10. \A t \in steady : seen[t] > 0 \/ Cardinality(B[t]) >= lo
  BY <1>1, <1>4, <1>6 DEF LocalInv
<1> HIDE DEF B, lo, shown
<1>11. CASE listing' = [listing EXCEPT !.number = @ + 1] /\ UNCHANGED session
  <2>1. listing'.number = listing.number + 1 /\ listing'.filter = listing.filter /\ session'.pc = "local"
    BY <1>1, <1>11 DEF ListingType
  <2>2. ASSUME NEW t \in steady PROVE ShownBefore(t)' = B[t]
    BY <1>4, <1>5, <1>6, <2>1, <2>2 DEF ShownBefore, Shown, Exists, Selects
  <2>3. ASSUME NEW t \in steady'
        PROVE  seen'[t] > 0 \/ Cardinality(ShownBefore(t)') >= (listing'.number - 1) * PageSize
    <3>1. /\ t \in steady /\ t \in shown /\ t \in Tasks /\ (seen[t] > 0 \/ Cardinality(B[t]) >= lo)
          /\ Cardinality(B[t]) \in Nat
      BY <1>6, <1>9, <1>10, <2>3
    <3>2. t \in page \/ Cardinality(B[t]) >= lo + PageSize \/ seen[t] > 0
      BY <1>1, <1>3, <3>1
    <3> QED BY <1>3, <1>8, <2>1, <2>2, <3>1, <3>2
  <2> QED BY <2>1, <2>3 DEF LocalInv
<1>12. CASE /\ Goto("end")
            /\ ~(Cardinality(shown) > lo + PageSize) \/ Cardinality(page) # PageSize
  <2>1. session'.pc = "end"
    BY <1>1, <1>12, ListMoves
  <2>2. Cardinality(page) # PageSize => \A t \in shown : Cardinality(B[t]) < lo + PageSize
    BY <1>1, <1>2, <1>3, ShortPageLast
  <2>3. IsFiniteSet(shown) /\ Cardinality(shown) \in Nat
    BY <1>2, FS_CardinalityType DEF Ordered
  <2>4. \A t \in shown : Cardinality(B[t]) < lo + PageSize
    <3>1. CASE Cardinality(page) # PageSize
      BY <2>2, <3>1
    <3>2. CASE ~(Cardinality(shown) > lo + PageSize)
      BY <1>1, <1>3, <1>9, <2>3, <3>2
    <3> QED BY <1>12, <3>1, <3>2
  <2>5. \A t \in steady' : seen'[t] > 0
    BY <1>6, <1>8, <1>10, <2>4
  <2> QED BY <2>1, <2>5 DEF LocalInv
<1> QED
  BY <1>7, <1>11, <1>12

\* Every step keeps a listing by numbers complete while nothing leaves it.
LEMMA LocalNext ==
    ASSUME RowInv, ReachInv, ListInv, [Next]_vars,
           session'.does = "list", session'.who \in Local, calm'
    PROVE  LocalInv'
<1>0. /\ ListType /\ Shapes
      /\ session.does = "list" /\ session.who \in Local /\ calm => LocalInv
  BY DEF ListInv, ReachInv
<1>1. CASE UNCHANGED vars
  <2>1. /\ UNCHANGED <<session, listing, seen, steady, now, status, born, owner, recordedOn>>
        /\ calm' = calm
    BY <1>1 DEF vars, createVars, providerVars, ownerVars, callVars
  <2>2. Current' = Current
    BY <2>1 DEF Current, Listable, Shown, Exists, Selects
  <2>3. LocalInv
    BY <1>0, <2>1
  <2> QED BY <1>0, <2>1, <2>2, <2>3, KeptLocal
<1>2. CASE Next /\ World
  <2>1. /\ UNCHANGED <<session, listing, seen>>
        /\ \A t \in Tasks : status[t] # "none" => born'[t] = born[t]
    BY <1>0, <1>2, WorldSpares DEF ListKept
  <2>2. steady' \subseteq steady /\ calm /\ Current \subseteq Current'
    BY <1>0, <1>2, <2>1, WitnessTells
  <2> QED BY <1>0, <2>1, <2>2, KeptLocal
<1>3. ASSUME NEW p \in Principals, ListStart(p) PROVE LocalInv'
  <2>1. /\ session'.pc = "local" /\ listing'.number = 1
    BY <1>0, <1>3, ListStartType DEF ListType
  <2>2. (1 - 1) * PageSize = 0
    BY GenerationTasksAssumption
  <2>3. ASSUME NEW t PROVE Cardinality(ShownBefore(t)') \in Nat
    <3>1. ShownBefore(t)' \subseteq Tasks
      BY DEF ShownBefore, Shown
    <3> QED BY <3>1, GenerationTasksAssumption, FS_Subset, FS_CardinalityType
  <2>4. \A t \in steady' : Cardinality(ShownBefore(t)') >= (listing'.number - 1) * PageSize
    BY <2>1, <2>2, <2>3
  <2> QED BY <2>1, <2>4 DEF LocalInv
<1>4. CASE Next /\ (ListStep \/ FetchFails)
  <2>1. /\ session'.who = session.who /\ session.does = "list" /\ LocalPage
    <3>1. Paging => OnceInv
      BY DEF ListInv
    <3> QED BY <1>0, <1>4, <3>1, ListStepType
  <2>2. steady' = steady \cap Current' /\ calm
    BY <1>0, <1>4, <2>1, WitnessTells
  <2>3. steady' \subseteq steady
    BY <2>2
  <2> QED BY <1>0, <2>1, <2>2, <2>3, LocalPageKeeps
<1>5. CASE PollStep \/ Check \/ Delete
  BY <1>0, <1>5, OthersSpare
<1>6. ASSUME NEW p \in Principals,
             (\E asked \in SUBSET Tasks : PollStart(p, asked)) \/ \E t \in Tasks : KillStart(p, t)
      PROVE  FALSE
  BY <1>6, OthersBegin
<1> QED
  BY <1>1, <1>2, <1>3, <1>4, <1>5, <1>6 DEF Next, Step, Begin

\* Every step keeps the invariant of listings.
LEMMA ListNext == RowInv /\ ReachInv /\ ListInv /\ [Next]_vars => ListInv'
  BY ListTypeNext, PagingNext, LocalNext DEF ListInv

\* Whatever is created, ends, is removed or is pruned while it is followed, a listing of a
\* remote principal returns no task twice and none that stayed listable is missing at its
\* end; one of the local transport misses none while nothing leaves its list.
THEOREM ListingsExact == Spec => []ListingExact
<1>1. Init => ListInv
  <2> SUFFICES ASSUME Init PROVE ListInv
    OBVIOUS
  <2>1. session.does = "nothing"
    BY DEF Init, Idle
  <2>2. ListType
    <3>1. listing \in [filter : Filters \cup {"any"}, cursor : Places, before : Places, since : Int,
                       slices : Nat, rows : SUBSET Tasks, page : SUBSET Tasks, number : Nat \ {0}]
      BY DEF Init, Places
    <3> QED BY <2>1, <3>1 DEF Init, ListType
  <2> QED BY <2>1, <2>2 DEF ListInv, Paging
<1>2. ReachInv /\ ListInv => ListingExact
  <2> SUFFICES ASSUME ReachInv, ListInv PROVE ListingExact
    OBVIOUS
  <2>1. ASSUME session.who \in Principals \ Local, NEW t \in Tasks PROVE seen[t] <= 1
    BY <2>1 DEF ListInv, ListType, Paging, Remote, OnceInv
  <2>2. ASSUME Ended("list"), session.who \in Local => calm, NEW t \in steady PROVE seen[t] > 0
    <3>1. session.does = "list" /\ session.pc = "end" /\ session.who \in Principals
      BY <2>2 DEF Ended, ListInv, ListType
    <3> QED BY <2>2, <3>1 DEF ListInv, Paging, Remote, AllInv, LocalInv
  <2> QED BY <2>1, <2>2 DEF ListingExact
<1> QED
  BY <1>1, <1>2, ListNext, ReachAlways, PTL DEF Spec

-----------------------------------------------------------------------------
(* A poll.  From the list to the last single answer every task that was    *)
(* asked about is found, an error or still being fetched, and of these only *)
(* found and being fetched can overlap.                                    *)

Ceased == Terminal \cup {"deleted"}

PollShape == DOMAIN poll = {"asked", "owned", "found", "refetch", "errors"}

Accounted ==
    /\ poll.refetch \subseteq poll.owned
    /\ poll.asked = DOMAIN poll.found \cup poll.errors \cup poll.refetch
    /\ poll.errors \cap (DOMAIN poll.found \cup poll.refetch) = {}
    /\ \A t \in DOMAIN poll.found : poll.found[t] \in Terminal => status[t] \in Ceased

PollInv ==
    /\ PollShape
    /\ session.pc = "answered" => session.does = "poll"
    /\ session.does = "poll" =>
          /\ poll.owned \subseteq poll.asked /\ poll.asked \subseteq Tasks
          /\ session.pc = "list" => poll.errors = poll.asked \ poll.owned
          /\ session.pc \in {"fetch", "answered"} => Accounted
          /\ session.pc = "answered" => poll.refetch = {}

\* A task that has ended stays ended, or is removed.
LEMMA WorldKeepsEnds ==
    ASSUME StatusOK, World
    PROVE  \A t \in Tasks : status[t] \in Ceased => status'[t] \in Ceased
<1> USE DEF Ceased, Terminal
<1>1. ASSUME NEW t \in Tasks, NEW s, Change(t, s), s \in Ceased \/ status[t] \notin Ceased
      PROVE  \A u \in Tasks : status[u] \in Ceased => status'[u] \in Ceased
  BY <1>1 DEF Change, StatusOK
<1>2. ASSUME NEW t \in Tasks, Create(t)
      PROVE  \A u \in Tasks : status[u] \in Ceased => status'[u] \in Ceased
  BY <1>2 DEF Create, StatusOK
<1>3. ASSUME NEW t \in Tasks, Progress(t) PROVE status[t] \notin Ceased /\ \E s : Change(t, s)
  BY <1>3 DEF Progress
<1>4. ASSUME NEW t \in Tasks, Vanish(t) PROVE Change(t, "deleted")
  BY <1>4 DEF Vanish
<1>5. Prune \/ Tick \/ (\E t \in Tasks : Record(t) \/ RecordFails(t)) => UNCHANGED status
  BY DEF Prune, Tick, Record, RecordFails, createVars, providerVars
<1> QED
  BY <1>1, <1>2, <1>3, <1>4, <1>5 DEF World

\* What waits goes on being accounted for.
LEMMA PollKept ==
    ASSUME PollInv, UNCHANGED <<session, poll>>,
           \A t \in Tasks : status[t] \in Ceased => status'[t] \in Ceased
    PROVE  PollInv'
<1>1. ASSUME session.does = "poll", Accounted PROVE Accounted'
  <2>1. DOMAIN poll.found \subseteq Tasks
    BY <1>1 DEF PollInv, Accounted
  <2> QED BY <1>1, <2>1 DEF Accounted
<1> QED
  BY <1>1 DEF PollInv, PollShape

\* What the list has is found, what it lacks is fetched.
LEMMA PollListed ==
    ASSUME PollInv, Shapes, PollList
    PROVE  PollInv'
<1> DEFINE found == [t \in poll.owned \cap Shown("any") |-> status[t]]
<1>1. /\ session.does = "poll" /\ session.pc = "list" /\ Goto("fetch") /\ UNCHANGED status
      /\ poll.owned \subseteq poll.asked /\ poll.asked \subseteq Tasks
      /\ poll.errors = poll.asked \ poll.owned
  BY DEF PollList, In, PollInv, createVars, providerVars
<1>2. PICK bare \in SUBSET Unanswered(found) :
          /\ Unanswered(found) \ DOMAIN found \subseteq bare
          /\ poll' = [poll EXCEPT !.found = found, !.refetch = bare]
  BY DEF PollList
<1>3. session'.does = "poll" /\ session'.pc = "fetch"
  BY <1>1, ListMoves
<1>4. DOMAIN found = poll.owned \cap Shown("any") /\ \A t \in DOMAIN found : found[t] = status[t]
  OBVIOUS
<1> HIDE DEF found
<1>5. bare \subseteq poll.owned /\ \A t \in poll.owned : t \in DOMAIN found \/ t \in bare
  BY <1>2 DEF Unanswered
<1>6. /\ PollShape' /\ poll'.asked = poll.asked /\ poll'.owned = poll.owned
      /\ poll'.errors = poll.errors /\ poll'.found = found /\ poll'.refetch = bare
  BY <1>2 DEF PollInv, PollShape
<1>7. Accounted'
  BY <1>1, <1>4, <1>5, <1>6 DEF Accounted, Ceased
<1> QED
  BY <1>1, <1>3, <1>6, <1>7 DEF PollInv

\* What comes back is found, what does not is an error.
LEMMA PollRefetched ==
    ASSUME PollInv, Shapes, NEW t \in Tasks, Refetch(t)
    PROVE  PollInv'
<1>1. /\ session.does = "poll" /\ session.pc = "fetch" /\ t \in poll.refetch
      /\ UNCHANGED <<session, status>> /\ Accounted /\ PollShape
      /\ poll.owned \subseteq poll.asked /\ poll.asked \subseteq Tasks
  BY DEF Refetch, In, PollInv, createVars, providerVars
<1> DEFINE g == [u \in DOMAIN poll.found \cup {t} |-> IF u = t THEN status[t] ELSE poll.found[u]]
           h == Without(poll.found, t)
<1>2. CASE poll' = [poll EXCEPT !.refetch = @ \ {t}, !.found = g]
  <2>1. /\ DOMAIN g = DOMAIN poll.found \cup {t} /\ g[t] = status[t]
        /\ \A u \in DOMAIN poll.found \ {t} : g[u] = poll.found[u]
    OBVIOUS
  <2> HIDE DEF g
  <2>2. /\ PollShape' /\ poll'.asked = poll.asked /\ poll'.owned = poll.owned
        /\ poll'.errors = poll.errors /\ poll'.found = g /\ poll'.refetch = poll.refetch \ {t}
    BY <1>1, <1>2 DEF PollShape
  <2>3. Accounted'
    BY <1>1, <2>1, <2>2 DEF Accounted, Ceased
  <2> QED BY <1>1, <2>2, <2>3 DEF PollInv
<1>3. CASE poll' = [poll EXCEPT !.refetch = @ \ {t}, !.found = h, !.errors = @ \cup {t}]
  <2>1. DOMAIN h = DOMAIN poll.found \ {t} /\ \A u \in DOMAIN h : h[u] = poll.found[u]
    BY DEF Without
  <2> HIDE DEF h
  <2>2. /\ PollShape' /\ poll'.asked = poll.asked /\ poll'.owned = poll.owned
        /\ poll'.errors = poll.errors \cup {t} /\ poll'.found = h
        /\ poll'.refetch = poll.refetch \ {t}
    BY <1>1, <1>3 DEF PollShape
  <2>3. Accounted'
    BY <1>1, <2>1, <2>2 DEF Accounted
  <2> QED BY <1>1, <2>2, <2>3 DEF PollInv
<1> QED
  BY <1>2, <1>3 DEF Refetch

\* Every step keeps the invariant of polls.
LEMMA PollNext == StatusOK /\ Shapes /\ PollInv /\ [Next]_vars => PollInv'
<1> SUFFICES ASSUME StatusOK, Shapes, PollInv, [Next]_vars PROVE PollInv'
  OBVIOUS
<1>1. CASE UNCHANGED vars
  BY <1>1, PollKept DEF vars, createVars, providerVars, callVars
<1>2. CASE World
  BY <1>2, PollKept, WorldKeepsEnds, WorldKeepsCall DEF callVars
<1>3. ASSUME NEW p \in Principals, ListStart(p) PROVE PollInv'
  <2>1. session'.does = "list" /\ session'.pc # "answered" /\ UNCHANGED poll
    BY <1>3 DEF ListStart
  <2> QED BY <2>1 DEF PollInv, PollShape
<1>4. ASSUME NEW p \in Principals, NEW asked \in SUBSET Tasks, PollStart(p, asked) PROVE PollInv'
  <2> DEFINE owned == {t \in asked : Permitted(p, t)}
  <2>1. /\ session'.does = "poll" /\ session'.pc = "list"
        /\ poll' = [poll EXCEPT !.asked = asked, !.owned = owned, !.errors = asked \ owned]
    BY <1>4 DEF PollStart
  <2>2. owned \subseteq asked
    OBVIOUS
  <2> HIDE DEF owned
  <2>3. PollShape' /\ poll'.asked = asked /\ poll'.owned = owned /\ poll'.errors = asked \ owned
    BY <2>1 DEF PollInv, PollShape
  <2> QED BY <2>1, <2>2, <2>3 DEF PollInv
<1>5. ASSUME NEW p \in Principals, NEW t \in Tasks, KillStart(p, t) PROVE PollInv'
  <2>1. session'.does = "kill" /\ session'.pc # "answered" /\ UNCHANGED poll
    BY <1>5 DEF KillStart
  <2> QED BY <2>1 DEF PollInv, PollShape
<1>6. CASE ListStep \/ FetchFails \/ Check \/ Delete
  <2>1. UNCHANGED poll /\ session.does \in {"list", "kill"}
    BY <1>6 DEF ListStep, PageStart, ReadSlice, FetchSlice, LocalPage, FetchFails, Check, Delete, In
  <2>2. \/ UNCHANGED session
        \/ \E l : l # "answered" /\ Goto(l)
    BY <1>6 DEF ListStep, PageStart, ReadSlice, FetchSlice, LocalPage, FetchFails, Check, Delete
  <2>3. session'.does = session.does /\ (session'.pc = session.pc \/ session'.pc # "answered")
    BY <2>2, ListMoves
  <2> QED BY <2>1, <2>3 DEF PollInv, PollShape
<1>7. CASE PollListFails \/ PollAnswer
  <2>1. /\ session.does = "poll" /\ UNCHANGED <<poll, status>>
        /\ \/ Goto("failed")
           \/ Goto("answered") /\ session.pc = "fetch" /\ poll.refetch = {}
    BY <1>7 DEF PollListFails, PollAnswer, In, callVars, createVars, providerVars
  <2>2. /\ session'.does = "poll"
        /\ \/ session'.pc = "failed"
           \/ session'.pc = "answered" /\ session.pc = "fetch" /\ poll.refetch = {}
    BY <2>1, ListMoves
  <2>3. Accounted => Accounted'
    BY <2>1 DEF Accounted
  <2> QED BY <2>1, <2>2, <2>3 DEF PollInv, PollShape
<1> QED
  BY <1>1, <1>2, <1>3, <1>4, <1>5, <1>6, <1>7, PollListed, PollRefetched DEF Next, Step, Begin, PollStep

\* A poll answers for every task it was asked about exactly once, and all_terminal without
\* an error means that every one of them has ended, however the list was incomplete and in
\* whatever order the single requests came back.
THEOREM PollsAnswerAll == Spec => []PollAnswersAll
<1>1. Init => PollInv
  BY DEF Init, Idle, PollInv, PollShape
<1>2. RowInv /\ ReachInv => StatusOK /\ Shapes
  BY DEF RowInv, ReachInv
<1>3. PollInv => PollAnswersAll
  BY DEF PollInv, Accounted, PollAnswersAll, AllTerminal, Ceased
<1> QED
  BY <1>1, <1>2, <1>3, PollNext, ReachAlways, PTL DEF Spec
=============================================================================
