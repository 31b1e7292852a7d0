--------------------------- MODULE StateMigration ---------------------------
(***************************************************************************)
(* _ensure_schema of the ownership store and of the artifact cache: tables *)
(* of releases that knew one provider are moved to keys that name the      *)
(* provider.  sqlite3 opens a transaction at the first INSERT only, so the *)
(* statements before it are committed one at a time; a crash may leave the *)
(* renamed table, or the renamed and the new one.  A server of the old     *)
(* release may run again after a crash, and makes its table anew.          *)
(***************************************************************************)
EXTENDS Naturals, FiniteSets

CONSTANTS
    Rows,           \* task ids
    Values,         \* what a row says: an owner, or the stored outputs
    MaxRestarts,
    Gone

Tables == [keys : {"none", "old", "new"}, rows : [Rows -> Values \cup {Gone}]]
Database == [current : Tables, legacy : Tables]

ASSUME MigrationAssumption == Gone \notin Values /\ Gone \notin Database

VARIABLES
    table,      \* the committed tables: current, legacy
    pending,    \* the tables as the open transaction sees them, or Gone
    server,     \* what the process does
    recorded,   \* recorded[i]: what a server last committed under task id i
    restarts

migrationVars == <<table, pending, server, recorded, restarts>>

Old == [keys : {"old"}, rows : [Rows -> Values \cup {Gone}]]
Empty(keys) == [keys |-> keys, rows |-> [i \in Rows |-> Gone]]
NoTable == [keys |-> "none", rows |-> [i \in Rows |-> Gone]]

\* A new installation, or one of the old release at rest.
MigrationInit ==
    /\ table \in [current : {NoTable} \cup Old, legacy : {NoTable}]
    /\ pending = Gone
    /\ server = "down"
    /\ recorded = table.current.rows
    /\ restarts = 0

IsTable(t) == t.keys # "none"
InSight == IF pending = Gone THEN table ELSE pending

\* DDL and queries outside a transaction are committed at once.
Statement(t) == IF pending = Gone THEN table' = t /\ UNCHANGED pending
                ELSE pending' = t /\ UNCHANGED table

\* INSERT opens the transaction.
Insert(t) == pending' = t /\ UNCHANGED table

\* INSERT OR REPLACE ... SELECT.
Replaced(into, from) ==
    [into EXCEPT !.rows = [i \in Rows |-> IF from.rows[i] # Gone THEN from.rows[i] ELSE @[i]]]

ServerStep(l) == server' = l /\ UNCHANGED <<recorded, restarts>>

StartServer ==
    /\ server = "down"
    /\ \/ table.current.keys = "old" /\ IsTable(table.legacy) /\ ServerStep("merge")
       \/ table.current.keys = "old" /\ ~IsTable(table.legacy) /\ ServerStep("rename")
       \/ table.current.keys # "old" /\ ServerStep("create")
    /\ UNCHANGED <<table, pending>>

RenameTable ==
    /\ server = "rename"
    /\ Statement([current |-> NoTable, legacy |-> table.current])
    /\ ServerStep("create")

MergeIntoLegacy ==
    /\ server = "merge"
    /\ Insert([InSight EXCEPT !.legacy = Replaced(@, InSight.current)])
    /\ ServerStep("drop_old")

DropOld ==
    /\ server = "drop_old"
    /\ Statement([InSight EXCEPT !.current = NoTable])
    /\ ServerStep("create")

CreateTable ==
    /\ server = "create"
    /\ Statement([InSight EXCEPT !.current = IF IsTable(@) THEN @ ELSE Empty("new")])
    /\ ServerStep(IF IsTable(InSight.legacy) THEN "copy" ELSE "commit")

\* Variant: the legacy table is dropped before its rows are copied.
CopyDropped ==
    /\ server = "copy"
    /\ Statement([InSight EXCEPT !.legacy = NoTable])
    /\ ServerStep("commit")

\* Every row of the legacy table is a task of ModelArk.
Copy ==
    /\ server = "copy"
    /\ Insert([InSight EXCEPT !.current = Replaced(@, InSight.legacy)])
    /\ ServerStep("drop_legacy")

DropLegacy ==
    /\ server = "drop_legacy"
    /\ Statement([InSight EXCEPT !.legacy = NoTable])
    /\ ServerStep("commit")

\* Leaving `with connection`.
Commit ==
    /\ server = "commit"
    /\ table' = InSight
    /\ pending' = Gone
    /\ ServerStep("up")

\* The running server records a task; INSERT OR REPLACE or a first record.
RecordRow ==
    /\ server = "up"
    /\ \E i \in Rows, v \in Values :
          /\ table' = [table EXCEPT !.current.rows[i] = v]
          /\ recorded' = [recorded EXCEPT ![i] = v]
    /\ UNCHANGED <<pending, server, restarts>>

\* The process dies, or a statement fails and the start with it: the open
\* transaction is rolled back.
CrashServer ==
    /\ server # "down" /\ restarts < MaxRestarts
    /\ server' = "down" /\ restarts' = restarts + 1
    /\ pending' = Gone
    /\ UNCHANGED <<table, recorded>>

\* The old release creates its table if there is none, and records tasks it
\* has just been given; it cannot use a table with the new keys.
OldServer ==
    /\ server = "down" /\ table.current.keys \in {"none", "old"}
    /\ \E i \in Rows, v \in Values :
          /\ recorded[i] = Gone
          /\ table' = [table EXCEPT !.current.keys = "old", !.current.rows[i] = v]
          /\ recorded' = [recorded EXCEPT ![i] = v]
    /\ UNCHANGED <<pending, server, restarts>>

MigrationNext ==
    \/ StartServer \/ RenameTable \/ MergeIntoLegacy \/ DropOld \/ CreateTable \/ Copy
    \/ DropLegacy \/ Commit \/ RecordRow \/ CrashServer \/ OldServer

MigrationSpec == MigrationInit /\ [][MigrationNext]_migrationVars

-----------------------------------------------------------------------------
\* Wherever starts of the migration were cut short, a server that is up knows
\* every row a server has recorded, as it was recorded last.
NoRowLost == server = "up" => table.current.rows = recorded
=============================================================================
