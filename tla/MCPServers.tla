------------------------------ MODULE MCPServers ------------------------------
(***************************************************************************)
(* The MCP control plane: the rows of mcp_servers (mcp/registry.py), the   *)
(* HTTP handlers that change them (server/routers/mcp.py, delete_user of   *)
(* server/routers/settings.py) and the boot that seeds and starts them     *)
(* (server/app.py).                                                        *)
(*                                                                         *)
(* The host is seen as HostView describes it: a server is down,            *)
(* launching or up, and a launch excludes every other one.  A handler is   *)
(* the code from one await to the next; the statement a call of the        *)
(* registry writes with is one step, and its earlier read may be stale.  A *)
(* request is used once, a row id once (uuid4).                            *)
(***************************************************************************)
EXTENDS FiniteSets

CONSTANTS
  Ids,        \* row ids
  Names,      \* server names
  Bundled,    \* names of the admin-scope bundles
  Slotted,    \* the bundles that require slots
  Users,      \* people; an admin is never deleted here
  Admins,     \* those with the admin capability
  Requests,   \* invocations of a handler
  None

\* owner None is owner_id NULL: a row of admin scope.
Specs == [name : Names, owner : Users \cup {None}]
Rows  == [spec : Specs, enabled : BOOLEAN, error : BOOLEAN]

ASSUME ServersAssumption ==
  /\ Slotted \subseteq Bundled /\ Bundled \subseteq Names
  /\ Admins \subseteq Users
  /\ None \notin Users \cup Ids \cup Rows

VARIABLES
  users,      \* the users that still exist
  row,        \* row[i]: the row with id i, None before and after its life
  used,       \* the ids that were ever given to a row
  host,       \* host[i]: what the host knows of server i
  req,        \* req[r]: operation, caller, row id and spec of request r
  pc,         \* pc[r]: where the handler of r is
  process,    \* where the server process is
  slots,      \* slots[n]: how the required slots of bundle n resolve, at this boot
  todo,       \* bundles still to seed, or ids still to start
  adrift      \* auxiliary: ids whose row may not tell what their server does: two
              \* requests met on them, their owner was deleted, or the write of the
              \* outcome failed

requests == <<req, pc>>
booting  == <<process, slots, todo>>
vars     == <<users, row, used, host, requests, booting, adrift>>

\* Of the answers only the 502 of a failed start is told apart.
Operations == {"register", "enable", "disable", "delete"}
Terminal   == {"idle", "ended", "bad_gateway"}
PCs        == Terminal \cup {"arrived", "read", "starting", "launching", "started", "failed",
                             "stopping", "flagging", "erasing"}

TypeOK ==
  /\ users \subseteq Users
  /\ row \in [Ids -> Rows \cup {None}]
  /\ used \subseteq Ids
  /\ host \in [Ids -> {"down", "launching", "up"}]
  /\ req \in [Requests -> [op : Operations, by : Users, id : Ids, spec : Specs] \cup {None}]
  /\ pc \in [Requests -> PCs]
  /\ process \in {"down", "seeding", "starting", "serving", "aborted"}
  /\ slots \in [Bundled -> {"filled", "missing", "sealed"}]
  /\ todo \subseteq Bundled \cup Ids
  /\ adrift \subseteq Ids

\* Before and after a boot: the slots are not looked at.
Unread == [n \in Bundled |-> "missing"]

Init ==
  /\ users = Users
  /\ row = [i \in Ids |-> None]
  /\ used = {}
  /\ host = [i \in Ids |-> "down"]
  /\ req = [r \in Requests |-> None]
  /\ pc = [r \in Requests |-> "idle"]
  /\ process = "down"
  /\ slots = Unread
  /\ todo = {}
  /\ adrift = {}

(***************************************************************************)
(* The registry                                                            *)
(***************************************************************************)
Exists(i) == row[i] # None

\* The unique index on (scope, owner_id, name) does not see NULL owners, and a
\* foreign key ties owner_id to a user.
Insertable(spec) ==
  spec.owner # None =>
    /\ spec.owner \in users
    /\ \A i \in Ids : Exists(i) => row[i].spec # spec

Insert(i, spec, enabled) ==
  /\ row' = [row EXCEPT ![i] = [spec |-> spec, enabled |-> enabled, error |-> FALSE]]
  /\ used' = used \cup {i}

\* Mutant: an upsert, which writes the row whether it is there or not.
UpsertRow(i, field, value) ==
  LET old == IF Exists(i) THEN row[i]
             ELSE [spec |-> CHOOSE s \in Specs : TRUE, enabled |-> TRUE, error |-> FALSE]
  IN row' = [row EXCEPT ![i] = [old EXCEPT ![field] = value]]

\* set_enabled and set_startup_error.
SetRow(i, field, value) ==
  row' = IF Exists(i) THEN [row EXCEPT ![i][field] = value] ELSE row

\* A writer whose row is gone does nothing, or fails (StaleDataError) when its
\* own read still saw the row; the error ends the request.
AfterWrite(i, next) == IF Exists(i) THEN {next} ELSE {next, "ended"}

(***************************************************************************)
(* Requests                                                                *)
(***************************************************************************)
InFlight(r) == pc[r] \notin Terminal

RequestsOn(i) == {r \in Requests : InFlight(r) /\ req[r].id = i}

Moves(r, from, to) ==
  /\ pc[r] = from
  /\ pc' = [pc EXCEPT ![r] = to]

CanView(u, i) == row[i].spec.owner \in {None, u}
CanMutate(u, i) == u \in Admins \/ row[i].spec.owner = u

\* A request of an existing user passes the session middleware.
Arrive(r, op, u, i, spec) ==
  /\ process = "serving"
  /\ u \in users
  /\ Moves(r, "idle", "arrived")
  /\ req' = [req EXCEPT ![r] = [op |-> op, by |-> u, id |-> i, spec |-> spec]]
  /\ adrift' = IF RequestsOn(i) = {} THEN adrift ELSE adrift \cup {i}
  /\ UNCHANGED <<users, row, used, host, booting>>

\* Only an admin registers with admin scope.
ArriveRegister(r, u, i, spec) ==
  /\ i \notin used /\ RequestsOn(i) = {}
  /\ spec.owner = u \/ (spec.owner = None /\ u \in Admins)
  /\ Arrive(r, "register", u, i, spec)

ArriveChange(r, op, u, i) ==
  /\ Exists(i)
  /\ Arrive(r, op, u, i, row[i].spec)

\* The row is refused by a constraint, or by a database that is locked.
InsertRow(r) ==
  LET spec == req[r].spec IN
  /\ pc[r] = "arrived" /\ req[r].op = "register"
  /\ \/ /\ Insertable(spec)
        /\ Moves(r, "arrived", "starting")
        /\ Insert(req[r].id, spec, TRUE)
     \/ /\ Moves(r, "arrived", "ended")
        /\ UNCHANGED <<row, used>>
  /\ UNCHANGED <<users, host, req, booting, adrift>>

\* registry.get, and what the handler decides from the row it read.
ReadRow(r) ==
  LET i == req[r].id
      allowed == Exists(i) /\ CanView(req[r].by, i) /\ CanMutate(req[r].by, i)
      bundle == Exists(i) /\ row[i].spec.owner = None /\ row[i].spec.name \in Bundled
  IN
  /\ pc[r] = "arrived" /\ req[r].op # "register"
  /\ Moves(r, "arrived",
           IF allowed /\ (req[r].op = "delete" => ~bundle) THEN "read" ELSE "ended")
  /\ UNCHANGED <<users, row, used, host, req, booting, adrift>>

\* A running server is not started again.
EnableRow(r) ==
  /\ pc[r] = "read" /\ req[r].op = "enable"
  /\ Moves(r, "read", IF host[req[r].id] = "up" THEN "flagging" ELSE "starting")
  /\ UNCHANGED <<users, row, used, host, req, booting, adrift>>

AfterStop(r) == IF req[r].op = "disable" THEN "flagging" ELSE "erasing"

\* The handle is popped before stop awaits the owner; without a handle there is
\* nothing to await.
StopServer(r) ==
  LET i == req[r].id IN
  /\ pc[r] = "read" /\ req[r].op \in {"disable", "delete"}
  /\ \/ /\ host[i] = "up"
        /\ Moves(r, "read", "stopping")
        /\ host' = [host EXCEPT ![i] = "down"]
     \/ /\ host[i] # "up"
        /\ Moves(r, "read", AfterStop(r))
        /\ UNCHANGED host
  /\ UNCHANGED <<users, row, used, req, booting, adrift>>

StopReturns(r) ==
  /\ Moves(r, "stopping", AfterStop(r))
  /\ UNCHANGED <<users, row, used, host, req, booting, adrift>>

\* The start lock of the id is free: nobody launches it.
Launch(r) ==
  LET i == req[r].id IN
  /\ Moves(r, "starting", "launching")
  /\ host[i] = "down"
  /\ host' = [host EXCEPT ![i] = "launching"]
  /\ UNCHANGED <<users, row, used, req, booting, adrift>>

\* Mutant: the guard looks at the launch in flight, not at the handle.
AlreadyLaunching(r) ==
  /\ Moves(r, "starting", "failed")
  /\ host[req[r].id] = "launching"
  /\ UNCHANGED <<users, row, used, host, req, booting, adrift>>

AlreadyRunning(r) ==
  /\ Moves(r, "starting", "failed")
  /\ host[req[r].id] = "up"
  /\ UNCHANGED <<users, row, used, host, req, booting, adrift>>

\* The launch ends: up, ServerStartupFailed, or an exception the handlers do not
\* catch (a slot value that cannot be decrypted), which leaves the row as it is.
LaunchEnds(r) ==
  LET i == req[r].id IN
  /\ \/ /\ Moves(r, "launching", IF req[r].op = "register" THEN "ended" ELSE "started")
        /\ host' = [host EXCEPT ![i] = "up"]
     \/ /\ \E next \in {"failed", "ended"} : Moves(r, "launching", next)
        /\ host' = [host EXCEPT ![i] = "down"]
  /\ UNCHANGED <<users, row, used, req, booting, adrift>>

\* Mutant: a registration that could not start leaves its row.
ReportFailure(r) ==
  /\ Moves(r, "failed", "bad_gateway")
  /\ SetRow(req[r].id, "error", TRUE)
  /\ UNCHANGED <<users, used, host, req, booting, adrift>>

\* register_server takes its row back, patch_server records the reason.
SettleFailure(r) ==
  LET i == req[r].id IN
  /\ Moves(r, "failed", "bad_gateway")
  /\ IF req[r].op = "register"
     THEN row' = [row EXCEPT ![i] = None]
     ELSE SetRow(i, "error", TRUE)
  /\ UNCHANGED <<users, used, host, req, booting, adrift>>

\* Mutant: the reason of an earlier failure stays.
KeepError(r) ==
  /\ Moves(r, "started", "flagging")
  /\ UNCHANGED <<users, row, used, host, req, booting, adrift>>

ClearError(r) ==
  /\ pc[r] = "started"
  /\ \E next \in AfterWrite(req[r].id, "flagging") : Moves(r, "started", next)
  /\ SetRow(req[r].id, "error", FALSE)
  /\ UNCHANGED <<users, used, host, req, booting, adrift>>

\* Mutant of SetFlag.
UpsertFlag(r) ==
  /\ Moves(r, "flagging", "ended")
  /\ UpsertRow(req[r].id, "enabled", req[r].op = "enable")
  /\ UNCHANGED <<users, used, host, req, booting, adrift>>

SetFlag(r) ==
  /\ Moves(r, "flagging", "ended")
  /\ SetRow(req[r].id, "enabled", req[r].op = "enable")
  /\ UNCHANGED <<users, used, host, req, booting, adrift>>

EraseRow(r) ==
  LET i == req[r].id IN
  /\ Moves(r, "erasing", "ended")
  /\ row' = [row EXCEPT ![i] = None]
  /\ UNCHANGED <<users, used, host, req, booting, adrift>>

\* The database refuses a write of a handler and the request ends with that; only
\* the reason of a failed start is written under suppress.  A server that is up
\* by then stays up.
WriteFails(r) ==
  LET i == req[r].id IN
  /\ pc[r] \in {"failed", "started", "flagging", "erasing"}
  /\ Moves(r, pc[r], IF pc[r] = "failed" /\ req[r].op = "enable" THEN "bad_gateway" ELSE "ended")
  /\ adrift' = IF host[i] = "up" THEN adrift \cup {i} ELSE adrift
  /\ UNCHANGED <<users, row, used, host, req, booting>>

\* Mutant: the entries go, not only the rows.
DropRows(u) ==
  /\ process = "serving"
  /\ u \in users \ Admins
  /\ users' = users \ {u}
  /\ row' = [i \in {j \in Ids : ~Exists(j) \/ row[j].spec.owner # u} |-> row[i]]
  /\ UNCHANGED <<used, host, requests, booting, adrift>>

\* delete_user: the rows of the user go by ON DELETE CASCADE, and the host is
\* not told.
DeleteUser(u) ==
  LET owned == {i \in Ids : Exists(i) /\ row[i].spec.owner = u} IN
  /\ process = "serving"
  /\ u \in users \ Admins
  /\ users' = users \ {u}
  /\ row' = [i \in Ids |-> IF i \in owned THEN None ELSE row[i]]
  /\ adrift' = adrift \cup owned
  /\ UNCHANGED <<used, host, requests, booting>>

(***************************************************************************)
(* Boot and shutdown                                                       *)
(***************************************************************************)
Boot ==
  /\ process = "down"
  /\ process' = "seeding"
  /\ \E read \in [Slotted -> {"filled", "missing", "sealed"}] :
       slots' = [n \in Bundled |-> IF n \in Slotted THEN read[n] ELSE "filled"]
  /\ todo' = Bundled
  /\ UNCHANGED <<users, row, used, host, requests, adrift>>

AdminRows(n) == {i \in Ids : Exists(i) /\ row[i].spec = [name |-> n, owner |-> None]}

\* find_admin_by_name finds nothing: register, which writes enabled = 1, and
\* then set_enabled when a slot is missing; the crash between the two leaves
\* the first write.  A register that raises is reported and skipped.
SeedNew(n, i) ==
  /\ n \in todo /\ slots[n] # "sealed" /\ AdminRows(n) = {}
  /\ i \notin used
  /\ \/ Insert(i, [name |-> n, owner |-> None], slots[n] = "filled") /\ process' = "seeding"
     \/ Insert(i, [name |-> n, owner |-> None], TRUE) /\ slots[n] = "missing" /\ process' = "down"
     \/ UNCHANGED <<row, used>> /\ process' = "seeding"
  /\ todo' = todo \ {n}
  /\ UNCHANGED <<users, host, requests, slots, adrift>>

\* Mutant: a bundle that has a row is left as it is.
SeedOnce(n) ==
  /\ n \in todo /\ slots[n] # "sealed"
  /\ Cardinality(AdminRows(n)) = 1
  /\ todo' = todo \ {n}
  /\ UNCHANGED <<users, row, used, host, requests, process, slots, adrift>>

\* The row of the bundle is reconciled, its enabled flag included.
SeedExisting(n) ==
  /\ n \in todo /\ slots[n] # "sealed"
  /\ \E i \in Ids : AdminRows(n) = {i} /\ SetRow(i, "enabled", slots[n] = "filled")
  /\ todo' = todo \ {n}
  /\ UNCHANGED <<users, used, host, requests, process, slots, adrift>>

\* Nothing catches what a sealed slot raises (its value does not decrypt), nor
\* scalar_one_or_none over two admin rows of one name.
SeedAborts(n) ==
  /\ n \in todo
  /\ slots[n] = "sealed" \/ Cardinality(AdminRows(n)) \notin {0, 1}
  /\ process' = "aborted"
  /\ UNCHANGED <<users, row, used, host, requests, slots, todo, adrift>>

Seeded ==
  /\ process = "seeding" /\ todo = {}
  /\ process' = "starting"
  /\ todo' = {i \in Ids : Exists(i) /\ row[i].enabled}
  /\ UNCHANGED <<users, row, used, host, requests, slots, adrift>>

\* One enabled server is started, and its outcome is recorded, whatever raised,
\* unless the database refuses the write: that is suppressed, and the row stays
\* as the last process left it.
BootStart(i) ==
  /\ process = "starting" /\ i \in todo
  /\ \E outcome \in {"up", "down"} :
       /\ host' = [host EXCEPT ![i] = outcome]
       /\ \/ SetRow(i, "error", outcome = "down") /\ UNCHANGED adrift
          \/ adrift' = adrift \cup {i} /\ UNCHANGED row
  /\ todo' = todo \ {i}
  /\ UNCHANGED <<users, used, requests, process, slots>>

Serve ==
  /\ process = "starting" /\ todo = {}
  /\ process' = "serving"
  /\ slots' = Unread
  /\ UNCHANGED <<users, row, used, host, requests, todo, adrift>>

\* A crash, or the end of a graceful shutdown: what was in memory is gone.
Exit ==
  /\ process # "down"
  /\ process' = "down"
  /\ todo' = {} /\ slots' = Unread
  /\ host' = [i \in Ids |-> "down"]
  /\ pc' = [r \in Requests |-> IF InFlight(r) THEN "ended" ELSE pc[r]]
  /\ adrift' = {}
  /\ UNCHANGED <<users, row, used, req>>

(***************************************************************************)
RequestStep(r) ==
  \/ InsertRow(r) \/ ReadRow(r) \/ EnableRow(r) \/ StopServer(r) \/ StopReturns(r)
  \/ Launch(r) \/ AlreadyRunning(r) \/ LaunchEnds(r) \/ SettleFailure(r)
  \/ ClearError(r) \/ SetFlag(r) \/ EraseRow(r) \/ WriteFails(r)

Arrival(r) ==
  \E u \in Users, i \in Ids :
    \/ \E spec \in Specs : ArriveRegister(r, u, i, spec)
    \/ \E op \in {"enable", "disable", "delete"} : ArriveChange(r, op, u, i)

BootStep ==
  \/ process = "seeding" /\ \E n \in Bundled, i \in Ids : SeedNew(n, i)
  \/ process = "seeding" /\ \E n \in Bundled : SeedExisting(n) \/ SeedAborts(n)
  \/ Seeded \/ (\E i \in Ids : BootStart(i)) \/ Serve

Next ==
  \/ \E r \in Requests : Arrival(r) \/ RequestStep(r)
  \/ \E u \in Users : DeleteUser(u)
  \/ Boot \/ BootStep \/ Exit

Spec == Init /\ [][Next]_vars

\* Handlers run until they return; that a launch and a close end is assumed of
\* the servers (MCPHost, StartTerminates and StopTerminates).
FairSpec == Spec /\ \A r \in Requests : WF_vars(RequestStep(r))

(***************************************************************************)
(* Properties                                                              *)
(***************************************************************************)
\* A registration answered with 502 has no row, whatever other requests did to
\* the row meanwhile ("so the user can retry without a stale enabled=1
\* registration blocking re-register on the same name").
FailedRegisterLeavesNoRow ==
  \A r \in Requests :
    pc[r] = "bad_gateway" /\ req[r].op = "register" => ~Exists(req[r].id)

\* A row that was deleted never comes back: the late writes of a request that
\* read it earlier find nothing (set_enabled and set_startup_error).
NoResurrection ==
  [][\A i \in used : ~Exists(i) => row'[i] = None]_vars

\* When a boot has started everything, whatever the last process left: a bundle
\* is enabled iff its slots resolve, only enabled rows are up, and a row whose
\* outcome could be written is up iff it is enabled and shows no error; a write
\* that fails spoils its own row only (_seed_admin_bundles, _start_enabled_servers).
BootReconciles ==
  process = "starting" /\ todo = {} =>
    \A i \in Ids :
      /\ \A n \in Bundled : i \in AdminRows(n) => (row[i].enabled <=> slots[n] = "filled")
      /\ host[i] = "up" => Exists(i) /\ row[i].enabled
      /\ i \notin adrift => (host[i] = "up" <=> Exists(i) /\ row[i].enabled /\ ~row[i].error)

\* Between requests a server that is up has a row that is enabled and shows no
\* error, unless two requests on it overlapped, its owner was deleted, or the
\* database refused to record that it is up: the handlers alone, each run to its
\* end, keep rows and processes together.
QuietServerHasItsRow ==
  process = "serving" =>
    \A i \in Ids \ adrift :
      host[i] = "up" /\ RequestsOn(i) = {} =>
        Exists(i) /\ row[i].enabled /\ ~row[i].error

\* Every request is answered, however many wait for the start lock of one
\* server, unless the process ends.
RequestsEnd == \A r \in Requests : InFlight(r) ~> ~InFlight(r)

\* "Last ServerStartupFailed.reason recorded against this row, or NULL when the
\* row last started cleanly" (db/schema.py:183) and "Idempotent w.r.t. the
\* handle registry: if already running, no-op" (server/routers/mcp.py:330): a
\* server that is up and that no request is changing shows no startup error.
RunningShowsNoError ==
  process = "serving" =>
    \A i \in Ids :
      host[i] = "up" /\ RequestsOn(i) = {} /\ Exists(i) => ~row[i].error

\* "seed failures must not block boot" (server/app.py:504).
SeedNeverBlocksBoot == process # "aborted"
==============================================================================
