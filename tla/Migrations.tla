------------------------------ MODULE Migrations ------------------------------
(***************************************************************************)
(* apply_migrations (db/migrations.py) against one SQLite file: by the     *)
(* server at its boot (server/app.py) and by the commands bootstrap-admin  *)
(* and reset-passphrase (cli/main.py), which may run beside it, be killed  *)
(* at any point and be started again.                                      *)
(*                                                                         *)
(* The schema is the set of the tables, columns and indexes there are.  A  *)
(* step is what SQLite commits at once.  The driver opens a transaction    *)
(* before the first INSERT, UPDATE or DELETE and not before other          *)
(* statements, so CREATE TABLE and ALTER TABLE commit by themselves unless *)
(* one of those came before them in their migration.                       *)
(***************************************************************************)
EXTENDS Naturals

CONSTANTS
  Servers,    \* processes that boot the server
  Commands    \* processes of the command line

Procs == Servers \cup Commands

Current == 7   \* CURRENT_SCHEMA_VERSION

NoRow == 0     \* app_state has no row of the version

-----------------------------------------------------------------------------
(* Schemas and scripts *)

\* What the migration to v adds, the indexes aside.
Added ==
  [v \in 2..Current |->
     CASE v = 2 -> {"email", "emails"}
       [] v = 3 -> {"user_tokens"}
       [] v = 4 -> {}
       [] v = 5 -> {"admin_configs", "mcp_servers", "memory_entries"}
       [] v = 6 -> {"overrides"}
       [] v = 7 -> {"startup_error"}]

\* The first release's tables of users stand for all it had beside app_state.
Required(v) == {"app_state", "users"} \cup UNION {Added[w] : w \in 2..v}

Indexes(v) == IF v >= 5 THEN {"idx_servers", "idx_memory"} ELSE {}

Features == Required(Current) \cup Indexes(Current) \cup {"revoked"}

\* One statement or transaction: what it makes, what it is left out for when its
\* migration saw it before the first statement, and what it raises on when it is
\* there by then.
Statement(n, makes, unless, fails) ==
  [nr |-> n, makes |-> makes, unless |-> unless, fails |-> fails]

\* Mutant: the migration does not look for what it makes.
MakesAnyway(n, name, all) == Statement(n, all, {}, {name})

Makes(n, name, all) == Statement(n, all, {name}, {name})

\* ALTER TABLE users ADD COLUMN email asks nothing.
AlterUsers == Statement(1, {"email"}, {}, {"email"})

\* UPDATE opens a transaction, and the unique index joins it.
FillEmails == Statement(2, {"emails"}, {}, {})

\* CREATE INDEX IF NOT EXISTS.
Index(n, name) == Statement(n, {name}, {}, {})

\* create_all makes the indexes of the tables it makes.
IndexOf(n, name, table) == Statement(n, {name}, {table}, {name})

\* The scripts of the migrations by the version they start from; 0 is create_all,
\* which makes the tables of the current release.
Scripts ==
  [v \in 0..Current - 1 |->
     CASE v = 0 -> {Makes(1, "app_state", {"app_state"}),
                    Makes(2, "users", {"users", "email", "emails"}),
                    Makes(3, "user_tokens", {"user_tokens"}),
                    Makes(4, "admin_configs", {"admin_configs"}),
                    Makes(5, "mcp_servers", {"mcp_servers", "overrides", "startup_error"}),
                    IndexOf(6, "idx_servers", "mcp_servers"),
                    Makes(7, "memory_entries", {"memory_entries"}),
                    IndexOf(8, "idx_memory", "memory_entries")}
       [] v = 1 -> {AlterUsers, FillEmails}
       [] v = 2 -> {Makes(1, "user_tokens", {"user_tokens"})}
       [] v = 3 -> {}
       [] v = 4 -> {Makes(1, "admin_configs", {"admin_configs"}),
                    Makes(2, "mcp_servers", {"mcp_servers"}),
                    Index(3, "idx_servers"),
                    Makes(4, "memory_entries", {"memory_entries"}),
                    Index(5, "idx_memory")}
       [] v = 5 -> {Makes(1, "overrides", {"overrides"})}
       [] v = 6 -> {Makes(1, "startup_error", {"startup_error"})}]

Statements == UNION {Scripts[v] : v \in 0..Current - 1}

VARIABLES
  has,        \* the schema
  stored,     \* the row schema_version, or NoRow
  revoked,    \* whether token rows that were revoked are there
  pc,         \* pc[p]: where the process is
  at,         \* at[p]: the version its migration starts from; 0 is the fresh path
  todo,       \* todo[p]: the statements left of it
  drops,      \* drops[p]: whether it saw the column revoked
  met,        \* met[p]: whether another process ran during this boot
  misread     \* misread[p]: whether the read of the version failed in this boot

dbVars == <<has, stored, revoked>>
vars   == <<dbVars, pc, at, todo, drops, met, misread>>

Steps == {"down", "read", "look", "run", "stamp", "pin", "up",
          "newer", "clash", "locked", "unpinned"}

Active(p) == pc[p] \in {"read", "look", "run", "stamp", "pin"}

Running(p) == Active(p) \/ pc[p] = "up"

TypeOK ==
  /\ has \subseteq Features
  /\ stored \in 0..Current + 1
  /\ revoked \in BOOLEAN
  /\ pc \in [Procs -> Steps]
  /\ at \in [Procs -> 0..Current]
  /\ todo \in [Procs -> SUBSET Statements]
  /\ drops \in [Procs -> BOOLEAN]
  /\ met \in [Procs -> BOOLEAN]
  /\ misread \in [Procs -> BOOLEAN]
  /\ \A p \in Procs : pc[p] \in {"look", "run", "stamp"} => at[p] < Current

\* No database, one a release of this or an earlier version left, or one a newer
\* release did.  With version 3 the tokens have a column revoked, unless a later
\* release's migration made their table.
Init ==
  /\ \/ has = {} /\ stored = NoRow /\ revoked = FALSE
     \/ \E v \in 1..Current, column \in SUBSET {"revoked"} :
          /\ stored = v /\ revoked \in BOOLEAN
          /\ has = Required(v) \cup Indexes(v) \cup column
          /\ revoked => column # {}
          /\ column # {} => v = 3
     \/ has = Required(Current) \cup Indexes(Current) /\ stored = Current + 1 /\ revoked = FALSE
  /\ pc = [p \in Procs |-> "down"]
  /\ at = [p \in Procs |-> 0]
  /\ todo = [p \in Procs |-> {}]
  /\ drops = [p \in Procs |-> FALSE]
  /\ met = [p \in Procs |-> FALSE]
  /\ misread = [p \in Procs |-> FALSE]

-----------------------------------------------------------------------------
(* Actions *)

Goes(p, to) == pc' = [pc EXCEPT ![p] = to]

\* A process is started, for the first time or again.
Boot(p) ==
  /\ ~Running(p)
  /\ Goes(p, "read")
  /\ met' = [q \in Procs |-> IF q = p THEN \E r \in Procs \ {p} : Running(r)
                             ELSE met[q] \/ Active(q)]
  /\ misread' = [misread EXCEPT ![p] = FALSE]
  /\ UNCHANGED <<dbVars, at, todo, drops>>

\* It is killed, or stops when it is up.
Crash(p) ==
  /\ Running(p)
  /\ Goes(p, "down")
  /\ UNCHANGED <<dbVars, at, todo, drops, met, misread>>

\* The version decides the path: none is a fresh database.
ReadVersion(p) ==
  /\ pc[p] = "read"
  /\ Goes(p, IF stored = Current THEN "pin" ELSE IF stored > Current THEN "newer" ELSE "look")
  /\ at' = [at EXCEPT ![p] = IF stored <= Current THEN stored ELSE 0]
  /\ UNCHANGED <<dbVars, todo, drops, met, misread>>

\* Whatever the read raises is taken for a fresh database.
Misread(p) ==
  /\ pc[p] = "read"
  /\ Goes(p, "look")
  /\ at' = [at EXCEPT ![p] = 0]
  /\ misread' = [misread EXCEPT ![p] = TRUE]
  /\ UNCHANGED <<dbVars, todo, drops, met>>

\* The migration looks at the schema before its first statement.
Look(p) ==
  /\ pc[p] = "look"
  /\ todo' = [todo EXCEPT ![p] = {s \in Scripts[at[p]] : s.unless \cap has = {}}]
  /\ drops' = [drops EXCEPT ![p] = at[p] = 3 /\ "revoked" \in has]
  /\ Goes(p, "run")
  /\ UNCHANGED <<dbVars, at, met, misread>>

\* The next statement of the migration; one that makes what is there already raises.
Run(p) ==
  /\ pc[p] = "run"
  /\ \E s \in todo[p] :
       /\ \A t \in todo[p] : s.nr <= t.nr
       /\ IF s.fails \cap has # {}
            THEN Goes(p, "clash") /\ UNCHANGED <<has, todo>>
            ELSE /\ has' = has \cup s.makes
                 /\ todo' = [todo EXCEPT ![p] = @ \ {s}]
                 /\ UNCHANGED pc
  /\ UNCHANGED <<stored, revoked, at, drops, met, misread>>

\* Mutant: the column is dropped without the rows it marks.
DropColumnOnly(p) ==
  /\ pc[p] = "run" /\ drops[p]
  /\ IF "revoked" \in has
       THEN /\ has' = has \ {"revoked"}
            /\ drops' = [drops EXCEPT ![p] = FALSE]
            /\ UNCHANGED <<pc, revoked>>
       ELSE Goes(p, "clash") /\ UNCHANGED <<has, drops, revoked>>
  /\ UNCHANGED <<stored, at, todo, met, misread>>

\* DELETE opens a transaction, and DROP COLUMN joins it; the column another process
\* has dropped meanwhile makes the DELETE raise.
DropRevoked(p) ==
  /\ pc[p] = "run" /\ drops[p]
  /\ IF "revoked" \in has
       THEN /\ has' = has \ {"revoked"}
            /\ revoked' = FALSE
            /\ drops' = [drops EXCEPT ![p] = FALSE]
            /\ UNCHANGED pc
       ELSE Goes(p, "clash") /\ UNCHANGED <<has, drops, revoked>>
  /\ UNCHANGED <<stored, at, todo, met, misread>>

Applied(p) ==
  /\ pc[p] = "run" /\ todo[p] = {} /\ ~drops[p]
  /\ Goes(p, "stamp")
  /\ UNCHANGED <<dbVars, at, todo, drops, met, misread>>

\* Mutant: a migration stamps the current version instead of its own.
StampCurrent(p) ==
  /\ pc[p] = "stamp"
  /\ stored' = Current
  /\ at' = [at EXCEPT ![p] = @ + 1]
  /\ Goes(p, IF at[p] + 1 = Current THEN "pin" ELSE "look")
  /\ UNCHANGED <<has, revoked, todo, drops, met, misread>>

\* Mutant: the walk does not end with the current version.
StampOn(p) ==
  /\ pc[p] = "stamp"
  /\ stored' = at[p] + 1
  /\ at' = [at EXCEPT ![p] = @ + 1]
  /\ Goes(p, "look")
  /\ UNCHANGED <<has, revoked, todo, drops, met, misread>>

\* The fresh path inserts the row, which must not be there; a migration updates it.
Stamp(p) ==
  /\ pc[p] = "stamp"
  /\ \/ /\ at[p] = 0 /\ stored = NoRow
        /\ stored' = Current
        /\ Goes(p, "pin") /\ UNCHANGED at
     \/ /\ at[p] = 0 /\ stored # NoRow
        /\ Goes(p, "clash") /\ UNCHANGED <<stored, at>>
     \/ /\ at[p] # 0
        /\ stored' = at[p] + 1
        /\ at' = [at EXCEPT ![p] = @ + 1]
        /\ Goes(p, IF at[p] + 1 = Current THEN "pin" ELSE "look")
  /\ UNCHANGED <<has, revoked, todo, drops, met, misread>>

\* SQLite's lock is held by another process for longer than the driver waits.
Locked(p) ==
  /\ pc[p] \in {"look", "run", "stamp", "pin"} /\ \E q \in Procs \ {p} : Running(q)
  /\ Goes(p, "locked")
  /\ UNCHANGED <<dbVars, at, todo, drops, met, misread>>

\* The server asserts that the version is the current one; a command goes on.
Pin(p) ==
  /\ pc[p] = "pin"
  /\ Goes(p, IF p \in Servers /\ stored # Current THEN "unpinned" ELSE "up")
  /\ UNCHANGED <<dbVars, at, todo, drops, met, misread>>

Next ==
  \E p \in Procs :
    \/ Boot(p) \/ Crash(p) \/ ReadVersion(p) \/ Misread(p) \/ Look(p) \/ Run(p)
    \/ DropRevoked(p) \/ Applied(p) \/ Stamp(p) \/ Locked(p) \/ Pin(p)

Spec == Init /\ [][Next]_vars

(***************************************************************************)
(* Properties                                                              *)
(***************************************************************************)
\* The row never promises more than the schema has: with version v stored, every
\* table and column of v is there, the users have their addresses, and from the
\* fourth on no column revoked and no token it marked, whatever process
\* crashed between a step and its stamp, read nothing or stamped late.
SchemaMatchesVersion ==
  stored \in 1..Current =>
    /\ Required(stored) \subseteq has
    /\ stored >= 4 => "revoked" \notin has /\ ~revoked

\* A process that is up found or made the whole schema, also when the row was
\* stamped back to an earlier version under it.
UpOnCurrentSchema ==
  \A p \in Procs : pc[p] \in {"pin", "up"} =>
    Required(Current) \subseteq has /\ "revoked" \notin has /\ ~revoked

\* A boot that no other process ran beside and that could read the version fails
\* only on a database of a newer release, or on the e-mail column of a
\* first migration that was interrupted, which every later boot fails on as well.
LoneBootsFinish ==
  \A p \in Procs : ~met[p] /\ ~misread[p] =>
    /\ pc[p] \notin {"locked", "unpinned"}
    /\ pc[p] = "clash" => at[p] = 1 /\ "email" \in has
===============================================================================
