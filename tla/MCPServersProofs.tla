--------------------------- MODULE MCPServersProofs ---------------------------
(***************************************************************************)
(* Theorems about MCPServers for any rows, names, users and requests.      *)
(*                                                                         *)
(* A request works on one id and changes the row and the launch of that id *)
(* only, so what is said of a request is disturbed by itself, by another   *)
(* request on its id, by the deletion of a user, or by the end of the      *)
(* process.  RequestInv says what holds whoever else is there, CalmInv     *)
(* what holds of a request that has its id for itself.                     *)
(***************************************************************************)
EXTENDS MCPServers, TLAPS

RequestRecords == [op : Operations, by : Users, id : Ids, spec : Specs]

\* A request that was made has its parameters.
RequestsMade == \A r \in Requests : pc[r] # "idle" => req[r] \in RequestRecords

\* An id without a history has no row and nothing runs.
FreshInv ==
  \A i \in Ids : i \notin used => row[i] = None /\ host[i] = "down"

Registers(r) == req[r].op = "register"

\* A request whose id has no row yet.
Waits(r) == pc[r] = "arrived" /\ Registers(r)

RequestInv(r) ==
  /\ InFlight(r) => process = "serving"
  /\ Waits(r) => req[r].id \notin used
  /\ (InFlight(r) \/ pc[r] = "bad_gateway") /\ ~Waits(r) => req[r].id \in used
  /\ pc[r] = "bad_gateway" /\ Registers(r) => ~Exists(req[r].id)
  /\ pc[r] \in {"read", "started", "stopping", "flagging", "erasing"} => ~Registers(r)
  /\ pc[r] \in {"starting", "launching", "failed"} => req[r].op \in {"register", "enable"}
  /\ pc[r] = "started" => req[r].op = "enable"
  /\ pc[r] = "flagging" => req[r].op \in {"enable", "disable"}

\* Two requests on one id have met: the row was there, and the id is adrift.
Apart(r, s) ==
  InFlight(r) /\ InFlight(s) /\ req[r].id = req[s].id /\ r # s =>
    ~Waits(r) /\ ~Waits(s) /\ req[r].id \in adrift

Good(i) == Exists(i) /\ row[i].enabled /\ ~row[i].error

Settled(i) == host[i] # "launching" /\ (host[i] = "up" => Good(i))

\* Row and host of the id of a request, by where its handler is.
Calm(r) ==
  LET i == req[r].id IN
  /\ pc[r] \in {"arrived", "read"} => Settled(i) /\ (Registers(r) \/ Exists(i))
  /\ pc[r] \in {"starting", "launching"} => Exists(i) /\ (Registers(r) => Good(i))
  /\ pc[r] = "launching" => host[i] = "launching"
  /\ pc[r] \in {"starting", "failed", "stopping", "erasing"} => host[i] = "down"
  /\ pc[r] = "started" => Exists(i) /\ host[i] = "up"
  /\ pc[r] = "flagging" =>
       IF req[r].op = "enable" THEN Exists(i) /\ ~row[i].error /\ host[i] = "up"
                               ELSE host[i] = "down"

CalmInv ==
  /\ \A r \in Requests : InFlight(r) /\ req[r].id \notin adrift => Calm(r)
  /\ process = "serving" =>
       \A i \in Ids \ adrift : RequestsOn(i) = {} => Settled(i)

ServingInv ==
  /\ FreshInv
  /\ \A r \in Requests : RequestInv(r)
  /\ \A r, s \in Requests : Apart(r, s)
  /\ CalmInv

\* The bundles seeded so far, and the servers started so far.
Reconciled(n) == \A i \in AdminRows(n) : row[i].enabled <=> slots[n] = "filled"

Started(i) ==
  /\ host[i] \in {"up", "down"}
  /\ host[i] = "up" => Exists(i) /\ row[i].enabled
  /\ i \notin adrift => (host[i] = "up" <=> Exists(i) /\ row[i].enabled /\ ~row[i].error)

BootInv ==
  /\ process \in {"down", "seeding", "aborted"} => \A i \in Ids : host[i] = "down"
  /\ process = "seeding" => \A n \in Bundled \ todo : Reconciled(n)
  /\ process = "starting" =>
       /\ \A n \in Bundled : Reconciled(n)
       /\ \A i \in Ids : IF i \in todo THEN Exists(i) /\ row[i].enabled /\ host[i] = "down"
                         ELSE Started(i)

Types == TypeOK /\ RequestsMade

-----------------------------------------------------------------------------
(* Types *)

\* The writes of the registry keep rows rows.
LEMMA SetRowType ==
  ASSUME TypeOK, NEW i \in Ids, NEW value \in BOOLEAN,
         SetRow(i, "enabled", value) \/ SetRow(i, "error", value)
  PROVE  /\ row' \in [Ids -> Rows \cup {None}]
         /\ \A j \in Ids : /\ j # i => row'[j] = row[j]
                           /\ row'[j] = None <=> row[j] = None
                           /\ row[j] # None => row'[j].spec = row[j].spec
<1>1. CASE row[i] = None
  BY <1>1 DEF TypeOK, SetRow, Exists
<1>2. CASE row[i] # None
  <2>1. row[i] \in Rows /\ None \notin Rows
    BY <1>2, ServersAssumption DEF TypeOK
  <2>2. CASE SetRow(i, "enabled", value)
    BY <1>2, <2>1, <2>2 DEF TypeOK, SetRow, Exists, Rows
  <2>3. CASE SetRow(i, "error", value)
    BY <1>2, <2>1, <2>3 DEF TypeOK, SetRow, Exists, Rows
  <2> QED
    BY <2>2, <2>3
<1> QED
  BY <1>1, <1>2

\* What a step of a request leaves alone, and what it may do to its id.
Touches(r) ==
  /\ InFlight(r)
  /\ \E to \in PCs \ {"idle", "arrived"} : pc' = [pc EXCEPT ![r] = to]
  /\ UNCHANGED <<users, req, booting>>
  /\ adrift \subseteq adrift' /\ adrift' \subseteq adrift \cup {req[r].id}
  /\ used' \in {used, used \cup {req[r].id}}
  /\ \A i \in Ids \ {req[r].id} : row'[i] = row[i] /\ host'[i] = host[i]
  /\ req[r].id \in used' \/ UNCHANGED <<row, host>>
  /\ \A i \in used : row[i] = None => row'[i] = None

\* Every step of a request keeps the types and touches its own id only.
LEMMA RequestTouches ==
  ASSUME Types, FreshInv, NEW r \in Requests, RequestInv(r), RequestStep(r)
  PROVE  Types' /\ Touches(r)
<1> DEFINE i == req[r].id
<1> USE DEF Moves, PCs, Terminal, InFlight
<1>1. pc[r] # "idle" /\ InFlight(r)
  BY DEF RequestStep, InsertRow, ReadRow, EnableRow, StopServer, StopReturns, Launch,
         AlreadyRunning, LaunchEnds, SettleFailure, ClearError, SetFlag, EraseRow, WriteFails
<1>2. req[r] \in RequestRecords /\ i \in Ids
  BY <1>1 DEF Types, RequestsMade, RequestRecords
<1>3. ~Waits(r) => i \in used
  BY <1>1 DEF RequestInv
<1> HIDE DEF i
<1> USE <1>1, <1>2
<1>10. CASE InsertRow(r)
  <2>1. CASE Insertable(req[r].spec) /\ Insert(i, req[r].spec, TRUE)
    <3>1. [spec |-> req[r].spec, enabled |-> TRUE, error |-> FALSE] \in Rows
      BY DEF RequestRecords, Rows
    <3>2. Types'
      BY <1>10, <2>1, <3>1 DEF Types, TypeOK, RequestsMade, InsertRow, Insert, booting
    <3>3. i \notin used
      BY <1>10 DEF RequestInv, Waits, Registers, InsertRow, i
    <3> QED
      BY <1>10, <2>1, <3>2, <3>3 DEF Types, TypeOK, InsertRow, Insert, booting, Touches, i
  <2>2. CASE UNCHANGED <<row, used>>
    BY <1>10, <2>2 DEF Types, TypeOK, RequestsMade, InsertRow, booting, Touches
  <2> QED
    BY <1>10, <2>1, <2>2 DEF InsertRow, i
<1>11. CASE ReadRow(r)
  BY <1>11, <1>3 DEF Types, TypeOK, RequestsMade, ReadRow, booting, Touches
<1>12. CASE EnableRow(r)
  BY <1>12, <1>3 DEF Types, TypeOK, RequestsMade, EnableRow, booting, Touches
<1>13. CASE StopServer(r)
  <2>1. i \in used
    BY <1>13, <1>3 DEF StopServer, Waits
  <2> QED
    BY <1>13, <2>1 DEF Types, TypeOK, RequestsMade, StopServer, AfterStop, booting, Touches, i
<1>14. CASE StopReturns(r)
  BY <1>14, <1>3 DEF Types, TypeOK, RequestsMade, StopReturns, AfterStop, booting, Touches
<1>15. CASE Launch(r)
  BY <1>15, <1>3 DEF Types, TypeOK, RequestsMade, Launch, booting, Touches, Waits, i
<1>16. CASE AlreadyRunning(r)
  BY <1>16 DEF Types, TypeOK, RequestsMade, AlreadyRunning, booting, Touches
<1>17. CASE LaunchEnds(r)
  <2>1. i \in used
    BY <1>17, <1>3 DEF LaunchEnds, Waits
  <2> QED
    BY <1>17, <2>1 DEF Types, TypeOK, RequestsMade, LaunchEnds, booting, Touches, i
<1>18. CASE SettleFailure(r)
  <2>1. i \in used
    BY <1>18, <1>3 DEF SettleFailure, Waits
  <2>2. CASE row' = [row EXCEPT ![i] = None]
    BY <1>18, <2>1, <2>2 DEF Types, TypeOK, RequestsMade, SettleFailure, booting, Touches, i
  <2>3. CASE SetRow(i, "error", TRUE)
    <3>1. /\ row' \in [Ids -> Rows \cup {None}]
          /\ \A j \in Ids : (j # i => row'[j] = row[j]) /\ (row'[j] = None <=> row[j] = None)
      BY <2>3, SetRowType DEF Types
    <3> QED
      BY <1>18, <2>1, <3>1 DEF Types, TypeOK, RequestsMade, SettleFailure, booting, Touches, i
  <2> QED
    BY <1>18, <2>2, <2>3 DEF SettleFailure, i
<1>19. CASE ClearError(r)
  <2>1. i \in used
    BY <1>19, <1>3 DEF ClearError, Waits
  <2>2. /\ row' \in [Ids -> Rows \cup {None}]
        /\ \A j \in Ids : (j # i => row'[j] = row[j]) /\ (row'[j] = None <=> row[j] = None)
    BY <1>19, SetRowType DEF Types, ClearError, i
  <2> QED
    BY <1>19, <2>1, <2>2 DEF Types, TypeOK, RequestsMade, ClearError, AfterWrite, booting, Touches, i
<1>20. CASE SetFlag(r)
  <2>1. i \in used
    BY <1>20, <1>3 DEF SetFlag, Waits
  <2>2. /\ row' \in [Ids -> Rows \cup {None}]
        /\ \A j \in Ids : (j # i => row'[j] = row[j]) /\ (row'[j] = None <=> row[j] = None)
    BY <1>20, SetRowType DEF Types, SetFlag, i
  <2> QED
    BY <1>20, <2>1, <2>2 DEF Types, TypeOK, RequestsMade, SetFlag, booting, Touches, i
<1>21. CASE EraseRow(r)
  <2>1. i \in used
    BY <1>21, <1>3 DEF EraseRow, Waits
  <2> QED
    BY <1>21, <2>1 DEF Types, TypeOK, RequestsMade, EraseRow, booting, Touches, i
<1>22. CASE WriteFails(r)
  <2>1. i \in used
    BY <1>22, <1>3 DEF WriteFails, Waits
  <2>2. adrift \subseteq adrift' /\ adrift' \subseteq adrift \cup {i} /\ adrift' \subseteq Ids
    BY <1>22 DEF WriteFails, Types, TypeOK, i
  <2>3. /\ pc' = [pc EXCEPT ![r] = IF pc[r] = "failed" /\ req[r].op = "enable" THEN "bad_gateway"
                                                                              ELSE "ended"]
        /\ UNCHANGED <<users, row, used, host, req, process, slots, todo>>
    BY <1>22 DEF WriteFails, booting
  <2>4. PICK to \in {"bad_gateway", "ended"} : pc' = [pc EXCEPT ![r] = to]
    BY <2>3
  <2> QED
    BY <2>1, <2>2, <2>3, <2>4 DEF Types, TypeOK, RequestsMade, booting, Touches, i
<1> QED
  BY <1>10, <1>11, <1>12, <1>13, <1>14, <1>15, <1>16, <1>17, <1>18, <1>19, <1>20, <1>21, <1>22
     DEF RequestStep

-----------------------------------------------------------------------------
(* Requests *)

\* What a step leaves of its own request and of the id the request has for itself.
OwnStep(r) ==
  /\ RequestInv(r)'
  /\ req[r].id \notin adrift' =>
       IF InFlight(r)' THEN Calm(r)' ELSE Settled(req[r].id)'

LEMMA OwnStepKept ==
  ASSUME Types, FreshInv, NEW r \in Requests, RequestInv(r),
         req[r].id \notin adrift => Calm(r), RequestStep(r), Types', Touches(r)
  PROVE  OwnStep(r)
<1> DEFINE i == req[r].id
<1> USE DEF Moves, PCs, Terminal, InFlight, Touches, booting
<1>1. pc[r] # "idle" /\ InFlight(r) /\ process = "serving" /\ process' = "serving"
  BY DEF RequestInv
<1>2. req[r] \in RequestRecords /\ i \in Ids /\ req'[r] = req[r]
  BY <1>1 DEF Types, RequestsMade, RequestRecords
<1>3. ~Waits(r) => i \in used
  BY <1>1 DEF RequestInv
<1>4. None \notin Rows /\ row \in [Ids -> Rows \cup {None}]
      /\ host \in [Ids -> {"down", "launching", "up"}] /\ pc \in [Requests -> PCs]
  BY ServersAssumption DEF Types, TypeOK
<1>5. pc[r] = "arrived" /\ Registers(r) => row[i] = None /\ host[i] = "down" /\ i \notin used
  BY <1>2 DEF FreshInv, RequestInv, Waits
<1> USE <1>1, <1>2, <1>3, <1>4 DEF OwnStep, RequestInv, Waits, Registers
<1>10. CASE InsertRow(r)
  <2>1. CASE Insertable(req[r].spec) /\ Insert(i, req[r].spec, TRUE) /\ pc' = [pc EXCEPT ![r] = "starting"]
    <3>1. [spec |-> req[r].spec, enabled |-> TRUE, error |-> FALSE] \in Rows
      BY DEF RequestRecords, Rows
    <3>2. Good(i)' /\ host'[i] = "down"
      BY <1>10, <1>5, <2>1, <3>1 DEF InsertRow, Insert, Good, Exists
    <3>3. i \in used'
      BY <2>1 DEF Insert
    <3> QED
      BY <1>10, <2>1, <3>2, <3>3 DEF InsertRow, Calm, Good
  <2>2. CASE pc' = [pc EXCEPT ![r] = "ended"] /\ UNCHANGED <<row, used>>
    BY <1>10, <1>5, <2>2 DEF InsertRow, Settled
  <2> QED
    BY <1>10, <2>1, <2>2 DEF InsertRow
<1>11. CASE ReadRow(r)
  BY <1>11 DEF ReadRow, Calm, Settled, Good, Exists
<1>12. CASE EnableRow(r)
  BY <1>12 DEF EnableRow, Calm, Settled, Good, Exists
<1>13. CASE StopServer(r)
  BY <1>13 DEF StopServer, AfterStop, Calm, Settled, Good, Exists
<1>14. CASE StopReturns(r)
  BY <1>14 DEF StopReturns, AfterStop, Calm, Settled, Good, Exists
<1>15. CASE Launch(r)
  BY <1>15 DEF Launch, Calm, Settled, Good, Exists
<1>16. CASE AlreadyRunning(r)
  BY <1>16 DEF AlreadyRunning, Calm, Settled, Good, Exists
<1>17. CASE LaunchEnds(r)
  BY <1>17 DEF LaunchEnds, Calm, Settled, Good, Exists
<1>18. CASE SettleFailure(r)
  <2>1. pc' = [pc EXCEPT ![r] = "bad_gateway"] /\ UNCHANGED host /\ pc[r] = "failed"
    BY <1>18 DEF SettleFailure
  <2>2. Registers(r) => row'[i] = None
    BY <1>18 DEF SettleFailure
  <2>3. i \in used'
    BY <2>1
  <2>4. i \notin adrift => Settled(i)'
    BY <2>1 DEF Calm, Settled
  <2> QED
    BY <2>1, <2>2, <2>3, <2>4 DEF Exists
<1>19. CASE ClearError(r)
  <2>1. /\ pc[r] = "started" /\ pc' \in {[pc EXCEPT ![r] = to] : to \in AfterWrite(i, "flagging")}
        /\ SetRow(i, "error", FALSE) /\ UNCHANGED host
    BY <1>19 DEF ClearError
  <2>2. i \in used'
    BY <2>1
  <2>3. CASE Exists(i)
    <3>1. pc' = [pc EXCEPT ![r] = "flagging"]
      BY <2>1, <2>3 DEF AfterWrite
    <3>2. Exists(i)' /\ ~row'[i].error
      <4>1. row[i] \in Rows
        BY <2>3 DEF Exists
      <4>2. row' = [row EXCEPT ![i]["error"] = FALSE]
        BY <2>1, <2>3 DEF SetRow
      <4>3. row'[i] = [row[i] EXCEPT !["error"] = FALSE]
        BY <4>2
      <4>4. row'[i] \in Rows /\ ~row'[i].error
        BY <4>1, <4>3 DEF Rows
      <4> QED
        BY <4>4 DEF Exists
    <3> QED
      BY <2>1, <2>2, <3>1, <3>2 DEF Calm, Settled
  <2>4. CASE ~Exists(i)
    <3>1. i \in adrift
      BY <2>1, <2>4 DEF Calm
    <3> QED
      BY <2>1, <2>2, <3>1 DEF AfterWrite
  <2> QED
    BY <2>3, <2>4
<1>20. CASE SetFlag(r)
  <2>1. /\ pc[r] = "flagging" /\ pc' = [pc EXCEPT ![r] = "ended"] /\ UNCHANGED host
        /\ SetRow(i, "enabled", req[r].op = "enable")
    BY <1>20 DEF SetFlag
  <2>2. i \notin adrift => Settled(i)'
    <3>1. CASE req[r].op = "enable" /\ i \notin adrift
      <4>1. Exists(i) /\ ~row[i].error /\ host[i] = "up" /\ row[i] \in Rows
        BY <2>1, <3>1 DEF Calm, Exists
      <4>2. row' = [row EXCEPT ![i]["enabled"] = TRUE]
        BY <2>1, <3>1, <4>1 DEF SetRow
      <4>3. row'[i] = [row[i] EXCEPT !["enabled"] = TRUE]
        BY <4>2
      <4>4. row'[i] \in Rows /\ row'[i].enabled /\ ~row'[i].error
        BY <4>1, <4>3 DEF Rows
      <4> QED
        BY <2>1, <4>1, <4>4 DEF Settled, Good, Exists
    <3>2. CASE req[r].op # "enable" /\ i \notin adrift
      BY <2>1, <3>2 DEF Calm, Settled
    <3> QED
      BY <3>1, <3>2
  <2> QED
    BY <2>1, <2>2
<1>21. CASE EraseRow(r)
  BY <1>21 DEF EraseRow, Calm, Settled, Good, Exists
<1>22. CASE WriteFails(r)
  <2>1. /\ pc[r] \in {"failed", "started", "flagging", "erasing"} /\ UNCHANGED <<row, used, host>>
        /\ pc'[r] \in {"bad_gateway", "ended"} /\ (pc'[r] = "bad_gateway" => ~Registers(r))
        /\ host[i] = "up" => i \in adrift'
    BY <1>22 DEF WriteFails
  <2>2. i \notin adrift' => Settled(i)'
    BY <2>1 DEF Calm, Settled
  <2> QED
    BY <2>1, <2>2
<1> QED
  BY <1>10, <1>11, <1>12, <1>13, <1>14, <1>15, <1>16, <1>17, <1>18, <1>19, <1>20, <1>21, <1>22
     DEF RequestStep

\* A step of a request keeps what is said of all requests.
LEMMA RequestKeepsServing ==
  ASSUME Types, ServingInv, NEW r \in Requests, RequestStep(r)
  PROVE  Types' /\ ServingInv' /\ Touches(r) /\ process = "serving"
<1>1. Types' /\ Touches(r)
  BY RequestTouches DEF ServingInv
<1>2. OwnStep(r)
  BY <1>1, OwnStepKept DEF ServingInv, CalmInv, Touches
<1>3. process = "serving" /\ process' = "serving"
  BY <1>1 DEF ServingInv, RequestInv, Touches, booting
<1>4. req[r].id \in Ids
  <2>1. pc[r] # "idle"
    BY <1>1 DEF Touches, InFlight, Terminal
  <2> QED
    BY <2>1 DEF Types, RequestsMade, RequestRecords
<1>5. PICK to \in PCs \ {"idle", "arrived"} : pc' = [pc EXCEPT ![r] = to]
  BY <1>1 DEF Touches
<1>6. \A s \in Requests : s # r => pc'[s] = pc[s] /\ req'[s] = req[s]
  BY <1>1, <1>5 DEF Types, TypeOK, Touches
<1>7. req' = req /\ pc'[r] # "arrived" /\ InFlight(r) /\ adrift \subseteq adrift'
  BY <1>1, <1>5 DEF Types, TypeOK, Touches
<1>8. \A s \in Requests : InFlight(s)' => InFlight(s)
  BY <1>6, <1>7 DEF InFlight
<1>9. \A s \in Requests : s # r /\ InFlight(s) /\ req[s].id = req[r].id =>
        req[s].id \in adrift /\ ~Waits(s)
  BY <1>7 DEF ServingInv, Apart
<1>10. FreshInv'
  BY <1>1, <1>4 DEF ServingInv, FreshInv, Touches
<1>11. ASSUME NEW s \in Requests
       PROVE  RequestInv(s)'
  <2>1. CASE s = r
    BY <1>2, <2>1 DEF OwnStep
  <2>2. CASE s # r
    <3>1. RequestInv(s)
      BY DEF ServingInv
    <3>2. Waits(s) => req[s].id \notin used' /\ process' = "serving"
      <4>1. Waits(s) => InFlight(s) /\ req[s].id \notin used
        BY <3>1 DEF RequestInv, Waits, InFlight, Terminal
      <4>2. Waits(s) => req[s].id # req[r].id
        BY <1>9, <2>2, <4>1
      <4>3. used' \in {used, used \cup {req[r].id}}
        BY <1>1 DEF Touches
      <4> QED
        BY <1>3, <4>1, <4>2, <4>3
    <3>3. used \subseteq used' /\ \A i \in used : row[i] = None => row'[i] = None
      BY <1>1 DEF Touches
    <3> QED
      BY <1>3, <1>6, <2>2, <3>1, <3>2, <3>3
         DEF RequestInv, Waits, Registers, InFlight, Exists
  <2> QED
    BY <2>1, <2>2
<1>12. ASSUME NEW s \in Requests, NEW t \in Requests
       PROVE  Apart(s, t)'
  <2>1. Apart(s, t)
    BY DEF ServingInv
  <2>2. (Waits(s)' => Waits(s)) /\ (Waits(t)' => Waits(t))
    BY <1>6, <1>7 DEF Waits, Registers
  <2> QED
    BY <1>7, <1>8, <2>1, <2>2 DEF Apart
<1>13. CalmInv'
  <2>1. ASSUME NEW s \in Requests, InFlight(s)', req'[s].id \notin adrift'
        PROVE  Calm(s)'
    <3>1. CASE s = r
      BY <1>2, <1>7, <2>1, <3>1 DEF OwnStep
    <3>2. CASE s # r
      <4>1. InFlight(s) /\ req[s].id \notin adrift /\ req[s].id # req[r].id
        <5>1. InFlight(s)
          BY <1>8, <2>1
        <5>2. req[s].id \notin adrift
          BY <1>7, <2>1
        <5> QED
          BY <1>9, <3>2, <5>1, <5>2
      <4>2. req[s].id \in Ids
        BY <4>1 DEF Types, RequestsMade, RequestRecords, InFlight, Terminal
      <4>3. row'[req[s].id] = row[req[s].id] /\ host'[req[s].id] = host[req[s].id]
        BY <1>1, <4>1, <4>2 DEF Touches
      <4> QED
        BY <1>6, <3>2, <4>1, <4>3 DEF ServingInv, CalmInv, Calm, Registers, Settled, Good, Exists
    <3> QED
      BY <3>1, <3>2
  <2>2. ASSUME NEW i \in Ids \ adrift', RequestsOn(i)' = {}
        PROVE  Settled(i)'
    <3>1. CASE i = req[r].id
      BY <1>2, <1>7, <2>2, <3>1 DEF OwnStep, RequestsOn
    <3>2. CASE i # req[r].id
      <4>1. RequestsOn(i) = {}
        BY <1>6, <1>7, <2>2, <3>2 DEF RequestsOn, InFlight
      <4>2. row'[i] = row[i] /\ host'[i] = host[i]
        BY <1>1, <3>2 DEF Touches
      <4> QED
        BY <1>3, <1>7, <4>1, <4>2 DEF ServingInv, CalmInv, Settled, Good, Exists
    <3> QED
      BY <3>1, <3>2
  <2> QED
    BY <2>1, <2>2 DEF CalmInv
<1> QED
  BY <1>1, <1>3, <1>10, <1>11, <1>12, <1>13 DEF ServingInv

\* A request that arrives on an id that nobody else works on finds it settled.
LEMMA ArrivalKeepsServing ==
  ASSUME Types, ServingInv, NEW r \in Requests, Arrival(r)
  PROVE  Types' /\ ServingInv' /\ UNCHANGED <<users, row, used, host, booting>>
<1>1. PICK op \in Operations, u \in Users, i \in Ids, spec \in Specs :
        /\ Arrive(r, op, u, i, spec)
        /\ op = "register" => i \notin used /\ RequestsOn(i) = {}
        /\ op # "register" => row[i] # None
  <2>1. PICK u \in Users, i \in Ids :
          \/ \E spec \in Specs : ArriveRegister(r, u, i, spec)
          \/ \E op \in {"enable", "disable", "delete"} : ArriveChange(r, op, u, i)
    BY DEF Arrival
  <2>2. CASE \E spec \in Specs : ArriveRegister(r, u, i, spec)
    BY <2>2 DEF ArriveRegister, Operations
  <2>3. CASE \E op \in {"enable", "disable", "delete"} : ArriveChange(r, op, u, i)
    <3>1. PICK op \in {"enable", "disable", "delete"} : ArriveChange(r, op, u, i)
      BY <2>3
    <3>2. row[i] \in Rows
      BY <3>1 DEF ArriveChange, Exists, Types, TypeOK
    <3>3. row[i].spec \in Specs
      BY <3>2 DEF Rows
    <3> QED
      BY <3>1, <3>3 DEF ArriveChange, Exists, Operations
  <2> QED
    BY <2>1, <2>2, <2>3
<1> DEFINE q == [op |-> op, by |-> u, id |-> i, spec |-> spec]
<1>2. q \in RequestRecords /\ q.id = i /\ q.op = op
  BY DEF RequestRecords
<1> HIDE DEF q
<1>3. /\ pc[r] = "idle" /\ process = "serving" /\ u \in users
      /\ pc' = [pc EXCEPT ![r] = "arrived"]
      /\ req' = [req EXCEPT ![r] = q]
      /\ adrift' = IF RequestsOn(i) = {} THEN adrift ELSE adrift \cup {i}
      /\ UNCHANGED <<users, row, used, host, booting>>
  BY <1>1 DEF Arrive, Moves, q
<1>4. Types'
  BY <1>2, <1>3 DEF Types, TypeOK, RequestsMade, RequestRecords, PCs, booting
<1>5. /\ pc'[r] = "arrived" /\ req'[r] = q /\ ~InFlight(r)
      /\ \A s \in Requests : s # r => pc'[s] = pc[s] /\ req'[s] = req[s]
      /\ adrift \subseteq adrift' /\ process' = "serving"
  BY <1>3 DEF Types, TypeOK, InFlight, Terminal, booting
<1>6. FreshInv'
  BY <1>3 DEF ServingInv, FreshInv
<1>7. ASSUME NEW s \in Requests
      PROVE  RequestInv(s)'
  <2>1. CASE s = r
    BY <1>1, <1>2, <1>3, <1>5, <1>6, <2>1
       DEF RequestInv, Waits, Registers, FreshInv, ServingInv
  <2>2. CASE s # r
    BY <1>3, <1>5, <2>2 DEF ServingInv, RequestInv, Waits, Registers, InFlight, Exists
  <2> QED
    BY <2>1, <2>2
<1>8. \A s \in Requests : s # r /\ InFlight(s)' /\ req'[s].id = i =>
        i \in adrift' /\ op # "register" /\ ~Waits(s)'
  <2> SUFFICES ASSUME NEW s \in Requests, s # r, InFlight(s)', req'[s].id = i
               PROVE  i \in adrift' /\ op # "register" /\ ~Waits(s)'
    OBVIOUS
  <2>1. InFlight(s) /\ req[s].id = i /\ (Waits(s)' => Waits(s))
    BY <1>5 DEF InFlight, Waits, Registers
  <2>2. s \in RequestsOn(i)
    BY <2>1 DEF RequestsOn
  <2>3. op # "register"
    BY <1>1, <2>2
  <2>4. ~Waits(s)
    BY <1>1, <2>1, <2>3 DEF ServingInv, RequestInv, FreshInv
  <2> QED
    BY <1>3, <2>1, <2>2, <2>3, <2>4
<1>9. ASSUME NEW s \in Requests, NEW t \in Requests
      PROVE  Apart(s, t)'
  <2>1. CASE s = r \/ t = r
    BY <1>2, <1>5, <1>8, <2>1 DEF Apart, Waits, Registers
  <2>2. CASE s # r /\ t # r
    BY <1>5, <2>2 DEF ServingInv, Apart, Waits, Registers, InFlight
  <2> QED
    BY <2>1, <2>2
<1>10. CalmInv'
  <2>1. ASSUME NEW s \in Requests, InFlight(s)', req'[s].id \notin adrift'
        PROVE  Calm(s)'
    <3>1. CASE s = r
      <4>1. RequestsOn(i) = {} /\ i \notin adrift
        BY <1>2, <1>3, <1>5, <2>1, <3>1
      <4>2. Settled(i)
        BY <1>3, <4>1 DEF ServingInv, CalmInv
      <4> QED
        BY <1>1, <1>2, <1>3, <1>5, <3>1, <4>2 DEF Calm, Settled, Good, Exists, Registers
    <3>2. CASE s # r
      <4>1. InFlight(s) /\ req[s].id \notin adrift
        BY <1>5, <2>1, <3>2 DEF InFlight
      <4> QED
        BY <1>3, <1>5, <3>2, <4>1 DEF ServingInv, CalmInv, Calm, Registers, Settled, Good, Exists
    <3> QED
      BY <3>1, <3>2
  <2>2. ASSUME NEW j \in Ids \ adrift', RequestsOn(j)' = {}
        PROVE  Settled(j)'
    <3>1. RequestsOn(j) = {}
      BY <1>5, <2>2 DEF RequestsOn, InFlight
    <3> QED
      BY <1>3, <1>5, <3>1 DEF ServingInv, CalmInv, Settled, Good, Exists
  <2> QED
    BY <2>1, <2>2 DEF CalmInv
<1> QED
  BY <1>3, <1>4, <1>6, <1>7, <1>9, <1>10 DEF ServingInv

\* The rows of a deleted user are adrift.
LEMMA DeletionKeepsServing ==
  ASSUME Types, ServingInv, NEW u \in Users, DeleteUser(u)
  PROVE  /\ Types' /\ ServingInv'
         /\ process = "serving" /\ UNCHANGED <<used, booting>>
         /\ \A i \in Ids : row[i] = None => row'[i] = None
<1>1. /\ process = "serving" /\ UNCHANGED <<used, host, requests, booting>>
      /\ users' = users \ {u} /\ adrift \subseteq adrift' /\ adrift' \subseteq Ids
      /\ row' \in [Ids -> Rows \cup {None}]
      /\ \A i \in Ids : row'[i] \in {row[i], None} /\ (i \notin adrift' => row'[i] = row[i])
  BY DEF DeleteUser, Types, TypeOK
<1>2. Types'
  BY <1>1 DEF Types, TypeOK, RequestsMade, requests, booting
<1>3. FreshInv'
  BY <1>1 DEF ServingInv, FreshInv
<1>4. /\ req' = req /\ pc' = pc /\ host' = host /\ used' = used /\ process' = process
      /\ \A s \in Requests : InFlight(s) => req[s].id \in Ids
      /\ \A s \in Requests : pc[s] = "bad_gateway" => req[s].id \in Ids
  BY <1>1 DEF requests, booting, Types, RequestsMade, RequestRecords, InFlight, Terminal
<1>5. ASSUME NEW s \in Requests
      PROVE  RequestInv(s)'
  BY <1>1, <1>4 DEF ServingInv, RequestInv, Waits, Registers, InFlight, Exists
<1>6. ASSUME NEW s \in Requests, NEW t \in Requests
      PROVE  Apart(s, t)'
  BY <1>1, <1>4 DEF ServingInv, Apart, Waits, Registers, InFlight
<1>7. CalmInv'
  <2>1. ASSUME NEW s \in Requests, InFlight(s)', req'[s].id \notin adrift'
        PROVE  Calm(s)'
    <3>1. InFlight(s) /\ req[s].id \notin adrift /\ row'[req[s].id] = row[req[s].id]
      BY <1>1, <1>4, <2>1 DEF InFlight
    <3> QED
      BY <1>1, <1>4, <3>1 DEF ServingInv, CalmInv, Calm, Registers, Settled, Good, Exists
  <2>2. ASSUME NEW i \in Ids \ adrift', RequestsOn(i)' = {}
        PROVE  Settled(i)'
    BY <1>1, <1>4, <2>2 DEF ServingInv, CalmInv, RequestsOn, InFlight, Settled, Good, Exists
  <2> QED
    BY <2>1, <2>2 DEF CalmInv
<1> QED
  BY <1>1, <1>2, <1>3, <1>5, <1>6, <1>7 DEF ServingInv

-----------------------------------------------------------------------------
(* Boot and shutdown *)

\* Outside of serving no request is under way.
LEMMA NobodyServed ==
  ASSUME ServingInv, process # "serving"
  PROVE  \A r \in Requests : ~InFlight(r)
BY DEF ServingInv, RequestInv

\* What the steps of a boot have in common: they erase nothing, give no row to an
\* id that had one, and start only what has a row.
Boots ==
  /\ process # "serving"
  /\ process' \in {"down", "seeding", "starting", "serving", "aborted"}
  /\ slots' \in [Bundled -> {"filled", "missing", "sealed"}]
  /\ todo' \subseteq Bundled \cup Ids
  /\ UNCHANGED <<users, requests>>
  /\ adrift \subseteq adrift' /\ adrift' \subseteq Ids
  /\ used \subseteq used' /\ used' \subseteq Ids
  /\ row' \in [Ids -> Rows \cup {None}]
  /\ \A i \in used : row[i] = None => row'[i] = None
  /\ host' \in [Ids -> {"down", "launching", "up"}]
  /\ \A i \in Ids \ used' : row'[i] = row[i] /\ host'[i] = host[i]

LEMMA BootStepEffect ==
  ASSUME Types, FreshInv, BootInv, Boot \/ BootStep
  PROVE  Boots
<1> USE DEF Types, TypeOK
<1>1. CASE Boot
  BY <1>1, ServersAssumption DEF Boot, Boots
<1>2. ASSUME NEW n \in Bundled, NEW i \in Ids, process = "seeding", SeedNew(n, i)
      PROVE  Boots
  <2>1. [name |-> n, owner |-> None] \in Specs
    BY ServersAssumption DEF Specs
  <2>2. \A b \in BOOLEAN : [spec |-> [name |-> n, owner |-> None], enabled |-> b, error |-> FALSE] \in Rows
    BY <2>1 DEF Rows
  <2>3. CASE UNCHANGED <<row, used>>
    BY <1>2, <2>3 DEF SeedNew, Boots
  <2>4. ASSUME NEW b \in BOOLEAN, Insert(i, [name |-> n, owner |-> None], b)
        PROVE  Boots
    <3>1. [spec |-> [name |-> n, owner |-> None], enabled |-> b, error |-> FALSE] \in Rows
      BY <2>2
    <3>2. /\ row' \in [Ids -> Rows \cup {None}] /\ used' = used \cup {i} /\ i \notin used
          /\ \A j \in Ids : j # i => row'[j] = row[j]
      BY <1>2, <2>4, <3>1 DEF SeedNew, Insert
    <3> QED
      BY <1>2, <3>2 DEF SeedNew, Boots
  <2> QED
    BY <1>2, <2>3, <2>4 DEF SeedNew
<1>3. ASSUME NEW n \in Bundled, process = "seeding", SeedExisting(n) \/ SeedAborts(n)
      PROVE  Boots
  <2>1. CASE SeedAborts(n)
    BY <1>3, <2>1 DEF SeedAborts, Boots
  <2>2. CASE SeedExisting(n)
    <3>1. PICK i \in Ids : AdminRows(n) = {i} /\ SetRow(i, "enabled", slots[n] = "filled")
      BY <2>2 DEF SeedExisting
    <3>2. Exists(i)
      BY <3>1 DEF AdminRows
    <3>3. /\ row' \in [Ids -> Rows \cup {None}]
          /\ \A j \in Ids : (j # i => row'[j] = row[j]) /\ (row'[j] = None <=> row[j] = None)
      BY <3>1, SetRowType
    <3>4. i \in used
      BY <3>2 DEF FreshInv, Exists
    <3> QED
      BY <1>3, <2>2, <3>3, <3>4 DEF SeedExisting, Boots
  <2> QED
    BY <1>3, <2>1, <2>2
<1>4. CASE Seeded
  BY <1>4 DEF Seeded, Boots
<1>5. ASSUME NEW i \in Ids, BootStart(i)
      PROVE  Boots
  <2>1. PICK outcome \in {"up", "down"} :
          /\ host' = [host EXCEPT ![i] = outcome]
          /\ \/ SetRow(i, "error", outcome = "down") /\ UNCHANGED adrift
             \/ adrift' = adrift \cup {i} /\ UNCHANGED row
    BY <1>5 DEF BootStart
  <2>2. /\ row' \in [Ids -> Rows \cup {None}]
        /\ \A j \in Ids : (j # i => row'[j] = row[j]) /\ (row'[j] = None <=> row[j] = None)
    BY <2>1, SetRowType
  <2>3. i \in used
    BY <1>5 DEF BootStart, BootInv, FreshInv, Exists
  <2> QED
    BY <1>5, <2>1, <2>2, <2>3 DEF BootStart, Boots
<1>6. CASE Serve
  BY <1>6 DEF Serve, Boots, Unread
<1> QED
  BY <1>1, <1>2, <1>3, <1>4, <1>5, <1>6 DEF BootStep

\* A boot, up to the first request.
LEMMA BootKeepsServing ==
  ASSUME Types, ServingInv, BootInv, Boots, Boot \/ BootStep
  PROVE  Types' /\ ServingInv'
<1>1. \A r \in Requests : ~InFlight(r)
  BY NobodyServed DEF Boots
<1>2. req' = req /\ pc' = pc
  BY DEF Boots, requests
<1>3. Types'
  BY <1>2 DEF Boots, Types, TypeOK, RequestsMade, requests
<1>4. FreshInv'
  BY DEF Boots, ServingInv, FreshInv, Types, TypeOK
<1>5. \A r \in Requests : ~InFlight(r)' /\ ~Waits(r)'
  BY <1>1, <1>2 DEF InFlight, Waits, Terminal
<1>6. ASSUME NEW r \in Requests
      PROVE  RequestInv(r)'
  <2>1. RequestInv(r) /\ pc[r] \in Terminal
    BY <1>1 DEF ServingInv, InFlight
  <2>2. used \subseteq used' /\ \A i \in used : row[i] = None => row'[i] = None
    BY DEF Boots
  <2> QED
    BY <1>2, <1>5, <2>1, <2>2 DEF RequestInv, Registers, Waits, InFlight, Exists, Terminal
<1>7. ASSUME NEW i \in Ids \ adrift', process' = "serving"
      PROVE  Settled(i)'
  <2>1. Serve
    BY <1>7 DEF Boots, Boot, BootStep, SeedNew, SeedExisting, SeedAborts, Seeded, BootStart
  <2>2. Started(i)
    BY <2>1 DEF Serve, BootInv
  <2> QED
    BY <2>1, <2>2 DEF Serve, Started, Settled, Good, Exists
<1>8. CalmInv'
  BY <1>5, <1>7 DEF CalmInv
<1> QED
  BY <1>3, <1>4, <1>5, <1>6, <1>8 DEF ServingInv, Apart

\* The end of the process ends every request.
LEMMA ExitKeepsServing ==
  ASSUME Types, ServingInv, Exit
  PROVE  Types' /\ ServingInv' /\ BootInv' /\ UNCHANGED <<row, used>>
<1>1. /\ process' = "down" /\ todo' = {} /\ slots' = Unread
      /\ host' = [i \in Ids |-> "down"] /\ adrift' = {}
      /\ users' = users /\ row' = row /\ used' = used /\ req' = req
      /\ pc' = [r \in Requests |-> IF InFlight(r) THEN "ended" ELSE pc[r]]
  BY DEF Exit
<1>2. Types'
  BY <1>1 DEF Types, TypeOK, RequestsMade, InFlight, Terminal, PCs, Unread
<1>3. \A r \in Requests : ~InFlight(r)' /\ pc'[r] \in {pc[r], "ended"}
  BY <1>1 DEF InFlight, Terminal
<1>4. FreshInv'
  BY <1>1 DEF ServingInv, FreshInv
<1>5. ASSUME NEW r \in Requests
      PROVE  RequestInv(r)'
  BY <1>1, <1>3 DEF ServingInv, RequestInv, Registers, Waits, InFlight, Exists, Terminal
<1>6. BootInv'
  BY <1>1 DEF BootInv
<1> QED
  BY <1>1, <1>2, <1>3, <1>4, <1>5, <1>6 DEF ServingInv, Apart, CalmInv

\* Seeding and starting advance one bundle and one server at a time.
LEMMA BootKeepsBoot ==
  ASSUME Types, ServingInv, BootInv, Boot \/ BootStep
  PROVE  BootInv'
<1> USE DEF Types, TypeOK
<1>1. CASE Boot
  BY <1>1 DEF Boot, BootInv
<1>2. ASSUME NEW n \in Bundled, NEW i \in Ids, process = "seeding", SeedNew(n, i)
      PROVE  BootInv'
  <2>1. process' \in {"seeding", "down"} /\ host' = host /\ todo' = todo \ {n} /\ slots' = slots
    BY <1>2 DEF SeedNew
  <2>2. CASE process' = "down"
    BY <1>2, <2>1, <2>2 DEF BootInv
  <2>3. ASSUME process' = "seeding", NEW m \in Bundled \ todo', NEW j \in AdminRows(m)'
        PROVE  row'[j].enabled <=> slots'[m] = "filled"
    <3>1. j \in Ids /\ row'[j] # None /\ row'[j].spec = [name |-> m, owner |-> None]
      BY <2>3 DEF AdminRows, Exists
    <3>2. CASE row'[j] = row[j]
      <4>1. j \in AdminRows(m)
        BY <3>1, <3>2 DEF AdminRows, Exists
      <4>2. m \notin todo
        BY <1>2, <2>1, <2>3, <4>1 DEF SeedNew
      <4> QED
        BY <1>2, <2>1, <2>3, <3>2, <4>1, <4>2 DEF BootInv, Reconciled
    <3>3. CASE row'[j] # row[j]
      <4>1. \/ Insert(i, [name |-> n, owner |-> None], slots[n] = "filled")
            \/ Insert(i, [name |-> n, owner |-> None], TRUE) /\ process' = "down"
        BY <1>2, <3>3 DEF SeedNew
      <4>2. row' = [row EXCEPT ![i] = [spec |-> [name |-> n, owner |-> None],
                                      enabled |-> slots[n] = "filled", error |-> FALSE]]
        BY <2>3, <4>1 DEF Insert
      <4>3. j = i
        BY <3>1, <3>3, <4>2
      <4>4. row'[j].spec = [name |-> n, owner |-> None] /\ (row'[j].enabled <=> slots[n] = "filled")
        BY <4>2, <4>3
      <4>5. m = n
        BY <3>1, <4>4
      <4> QED
        BY <2>1, <4>4, <4>5
    <3> QED
      BY <3>2, <3>3
  <2> QED
    BY <1>2, <2>1, <2>2, <2>3 DEF BootInv, Reconciled
<1>3. ASSUME NEW n \in Bundled, process = "seeding", SeedExisting(n)
      PROVE  BootInv'
  <2>1. PICK i \in Ids : AdminRows(n) = {i} /\ SetRow(i, "enabled", slots[n] = "filled")
    BY <1>3 DEF SeedExisting
  <2>2. /\ row' \in [Ids -> Rows \cup {None}]
        /\ \A j \in Ids : /\ j # i => row'[j] = row[j]
                          /\ row'[j] = None <=> row[j] = None
                          /\ row[j] # None => row'[j].spec = row[j].spec
    BY <2>1, SetRowType
  <2>3. host' = host /\ process' = process /\ slots' = slots /\ todo' = todo \ {n}
    BY <1>3 DEF SeedExisting
  <2>4. row[i] # None /\ row[i] \in Rows /\ row[i].spec = [name |-> n, owner |-> None]
    BY <2>1 DEF AdminRows, Exists
  <2>5. row'[i].enabled <=> slots[n] = "filled"
    <3>1. row'[i] = [row[i] EXCEPT !["enabled"] = (slots[n] = "filled")]
      BY <2>1, <2>4 DEF SetRow, Exists
    <3> QED
      BY <2>4, <3>1 DEF Rows
  <2>6. ASSUME NEW m \in Bundled \ todo', NEW j \in AdminRows(m)'
        PROVE  row'[j].enabled <=> slots'[m] = "filled"
    <3>1. j \in AdminRows(m)
      BY <2>2, <2>6 DEF AdminRows, Exists
    <3>2. CASE m = n
      BY <2>1, <2>3, <2>5, <3>1, <3>2
    <3>3. CASE m # n
      <4>1. j # i /\ j \in Ids
        BY <2>4, <3>1, <3>3 DEF AdminRows
      <4> QED
        BY <1>3, <2>2, <2>3, <2>6, <3>1, <3>3, <4>1 DEF BootInv, Reconciled
    <3> QED
      BY <3>2, <3>3
  <2> QED
    BY <1>3, <2>3, <2>6 DEF BootInv, Reconciled
<1>4. ASSUME NEW n \in Bundled, process = "seeding", SeedAborts(n)
      PROVE  BootInv'
  BY <1>4 DEF SeedAborts, BootInv
<1>5. CASE Seeded
  <2>1. \A n \in Bundled : Reconciled(n)'
    BY <1>5 DEF Seeded, BootInv, Reconciled, AdminRows, Exists
  <2>2. ASSUME NEW i \in Ids
        PROVE  IF i \in todo' THEN (Exists(i) /\ row[i].enabled /\ host[i] = "down")'
                              ELSE Started(i)'
    BY <1>5 DEF Seeded, BootInv, Started, Exists
  <2> QED
    BY <1>5, <2>1, <2>2 DEF Seeded, BootInv
<1>6. ASSUME NEW i \in Ids, BootStart(i)
      PROVE  BootInv'
  <2>1. PICK outcome \in {"up", "down"} :
          /\ host' = [host EXCEPT ![i] = outcome]
          /\ \/ SetRow(i, "error", outcome = "down") /\ UNCHANGED adrift
             \/ adrift' = adrift \cup {i} /\ UNCHANGED row
    BY <1>6 DEF BootStart
  <2>2. process = "starting" /\ i \in todo /\ process' = process /\ slots' = slots /\ todo' = todo \ {i}
    BY <1>6 DEF BootStart
  <2>3. row[i] # None /\ row[i] \in Rows /\ row[i].enabled
    BY <2>2 DEF BootInv, Exists
  <2>4. /\ row'[i] \in Rows /\ row'[i].spec = row[i].spec /\ row'[i].enabled
        /\ i \notin adrift' => (row'[i].error <=> outcome = "down")
        /\ \A j \in Ids : j # i => row'[j] = row[j]
    <3>1. CASE adrift' = adrift \cup {i} /\ UNCHANGED row
      BY <2>3, <3>1
    <3>2. CASE SetRow(i, "error", outcome = "down") /\ UNCHANGED adrift
      <4>1. row' = [row EXCEPT ![i]["error"] = (outcome = "down")]
        BY <2>3, <3>2 DEF SetRow, Exists
      <4>2. row'[i] = [row[i] EXCEPT !["error"] = (outcome = "down")]
        BY <4>1
      <4>3. /\ row'[i] \in Rows /\ row'[i].spec = row[i].spec /\ row'[i].enabled
            /\ row'[i].error <=> outcome = "down"
        BY <2>3, <4>2 DEF Rows
      <4> QED
        BY <4>1, <4>3
    <3> QED
      BY <2>1, <3>1, <3>2
  <2>5. row'[i] # None
    BY <2>4, ServersAssumption
  <2>6. ASSUME NEW m \in Bundled, NEW j \in AdminRows(m)'
        PROVE  row'[j].enabled <=> slots'[m] = "filled"
    <3>1. j \in AdminRows(m)
      BY <2>3, <2>4, <2>6 DEF AdminRows, Exists
    <3> QED
      BY <2>2, <2>3, <2>4, <2>6, <3>1 DEF BootInv, Reconciled, AdminRows
  <2>7. Started(i)'
    BY <2>1, <2>4, <2>5 DEF Started, Exists
  <2>8. ASSUME NEW j \in Ids, j # i
        PROVE  IF j \in todo' THEN (Exists(j) /\ row[j].enabled /\ host[j] = "down")'
                              ELSE Started(j)'
    <3>1. j \notin adrift' => j \notin adrift
      BY <2>1
    <3> QED
      BY <2>1, <2>2, <2>4, <2>8, <3>1 DEF BootInv, Started, Exists
  <2> QED
    BY <2>2, <2>6, <2>7, <2>8 DEF BootInv, Reconciled
<1>7. CASE Serve
  BY <1>7 DEF Serve, BootInv
<1> QED
  BY <1>1, <1>2, <1>3, <1>4, <1>5, <1>6, <1>7 DEF BootStep

-----------------------------------------------------------------------------
(* Theorems *)

IInv == Types /\ ServingInv /\ BootInv

LEMMA InitInv == Init => IInv
<1> SUFFICES ASSUME Init PROVE IInv
  OBVIOUS
<1>1. \A r \in Requests : pc[r] = "idle" /\ ~InFlight(r)
  BY DEF Init, InFlight, Terminal
<1>2. Types
  BY <1>1 DEF Init, Types, TypeOK, RequestsMade, PCs, Terminal, Unread
<1>3. FreshInv /\ BootInv
  BY DEF Init, FreshInv, BootInv
<1>4. \A r \in Requests : RequestInv(r)
  BY <1>1 DEF RequestInv, Waits
<1>5. CalmInv
  BY <1>1 DEF CalmInv, Init
<1> QED
  BY <1>1, <1>2, <1>3, <1>4, <1>5 DEF IInv, ServingInv, Apart

\* A step keeps the invariant and gives no row back to an id that had one.
LEMMA NextInv ==
  ASSUME IInv, [Next]_vars
  PROVE  IInv' /\ \A i \in used : row[i] = None => row'[i] = None
<1> USE DEF IInv
<1>1. ASSUME NEW r \in Requests, RequestStep(r)
      PROVE  IInv' /\ \A i \in used : row[i] = None => row'[i] = None
  <2>1. Types' /\ ServingInv' /\ Touches(r) /\ process = "serving"
    BY <1>1, RequestKeepsServing
  <2>2. BootInv'
    BY <2>1 DEF Touches, booting, BootInv
  <2> QED
    BY <2>1, <2>2 DEF Touches
<1>2. ASSUME NEW r \in Requests, Arrival(r)
      PROVE  IInv' /\ \A i \in used : row[i] = None => row'[i] = None
  <2>1. Types' /\ ServingInv' /\ UNCHANGED <<users, row, used, host, booting>>
    BY <1>2, ArrivalKeepsServing
  <2>2. BootInv'
    BY <1>2, <2>1 DEF Arrival, ArriveRegister, ArriveChange, Arrive, booting, BootInv
  <2> QED
    BY <2>1, <2>2
<1>3. ASSUME NEW u \in Users, DeleteUser(u)
      PROVE  IInv' /\ \A i \in used : row[i] = None => row'[i] = None
  <2>1. /\ Types' /\ ServingInv'
        /\ process = "serving" /\ UNCHANGED <<used, booting>>
        /\ \A i \in Ids : row[i] = None => row'[i] = None
    BY <1>3, DeletionKeepsServing
  <2>2. BootInv'
    BY <2>1 DEF booting, BootInv
  <2>3. used \subseteq Ids
    BY DEF Types, TypeOK
  <2> QED
    BY <2>1, <2>2, <2>3
<1>4. CASE Boot \/ BootStep
  <2>1. Boots
    BY <1>4, BootStepEffect DEF ServingInv
  <2> QED
    BY <1>4, <2>1, BootKeepsServing, BootKeepsBoot DEF Boots
<1>5. CASE Exit
  BY <1>5, ExitKeepsServing
<1>6. CASE UNCHANGED vars
  <2>1. /\ users' = users /\ row' = row /\ used' = used /\ host' = host /\ req' = req /\ pc' = pc
        /\ process' = process /\ slots' = slots /\ todo' = todo /\ adrift' = adrift
    BY <1>6 DEF vars, requests, booting
  <2>2. Types'
    BY <2>1 DEF Types, TypeOK, RequestsMade
  <2>3. ServingInv'
    BY <2>1 DEF ServingInv, FreshInv, RequestInv, Waits, Registers, InFlight, Exists, Apart,
                CalmInv, Calm, Settled, Good, RequestsOn
  <2>4. BootInv'
    BY <2>1 DEF BootInv, Reconciled, AdminRows, Started, Exists
  <2> QED
    BY <2>1, <2>2, <2>3, <2>4
<1> QED
  BY <1>1, <1>2, <1>3, <1>4, <1>5, <1>6 DEF Next

LEMMA Invariance == Spec => []IInv
<1>1. IInv /\ [Next]_vars => IInv'
  BY NextInv
<1> QED
  BY <1>1, InitInv, PTL DEF Spec

\* Every variable keeps its type, whatever requests, crashes and boots.
THEOREM TypeCorrect == Spec => []TypeOK
<1>1. IInv => TypeOK
  BY DEF IInv, Types
<1> QED
  BY <1>1, Invariance, PTL

\* A registration that was answered with 502 has left no row (SettleFailure), and no
\* later step brings one back.
THEOREM FailedRegisterLeavesNoRowAlways == Spec => []FailedRegisterLeavesNoRow
<1>1. IInv => FailedRegisterLeavesNoRow
  BY DEF IInv, ServingInv, RequestInv, Registers, FailedRegisterLeavesNoRow
<1> QED
  BY <1>1, Invariance, PTL

\* The late writes of set_enabled and set_startup_error find nothing.
THEOREM DeletedRowsStayDeleted == Spec => NoResurrection
<1>1. IInv /\ [Next]_vars => [\A i \in used : ~Exists(i) => row'[i] = None]_vars
  BY NextInv DEF Exists
<1> QED
  BY <1>1, Invariance, PTL DEF Spec, NoResurrection

\* A boot that gets through the seed has rows, slots and processes agree, but for the
\* errors that the database refused to take.
THEOREM BootsReconcile == Spec => []BootReconciles
<1>1. IInv => BootReconciles
  <2> SUFFICES ASSUME IInv, process = "starting", todo = {}, NEW i \in Ids
               PROVE  /\ \A n \in Bundled : i \in AdminRows(n) => (row[i].enabled <=> slots[n] = "filled")
                      /\ host[i] = "up" => Exists(i) /\ row[i].enabled
                      /\ i \notin adrift =>
                           (host[i] = "up" <=> Exists(i) /\ row[i].enabled /\ ~row[i].error)
    BY DEF BootReconciles
  <2>1. Started(i) /\ \A n \in Bundled : Reconciled(n)
    BY DEF IInv, BootInv
  <2> QED
    BY <2>1 DEF Started, Reconciled
<1> QED
  BY <1>1, Invariance, PTL

\* What nobody is changing, and is not adrift, is up only with a row that says so.
THEOREM QuietServersHaveTheirRows == Spec => []QuietServerHasItsRow
<1>1. IInv => QuietServerHasItsRow
  BY DEF IInv, ServingInv, CalmInv, Settled, Good, QuietServerHasItsRow
<1> QED
  BY <1>1, Invariance, PTL

(***************************************************************************)
(* The host and the handlers agree on who launches what.                   *)
(***************************************************************************)
Launches(r, i) == pc[r] = "launching" /\ req[r].id = i

\* What is being launched is launched by one request, which is still there to end
\* it: a start that waits for the lock of an id waits for that request.
OneLauncher ==
  \A i \in Ids :
    /\ host[i] = "launching" <=> \E r \in Requests : Launches(r, i)
    /\ \A r, s \in Requests : Launches(r, i) /\ Launches(s, i) => r = s

\* A step of a handler keeps host and handlers in agreement.
LEMMA RequestKeepsLauncher ==
  ASSUME IInv, OneLauncher, NEW r \in Requests, RequestStep(r)
  PROVE  OneLauncher'
<1>1. PICK j \in Ids :
        /\ Types /\ Touches(r) /\ j = req[r].id
        /\ req' = req /\ pc[r] # "idle"
        /\ \A s \in Requests \ {r} : pc'[s] = pc[s]
        /\ \A i \in Ids \ {j} : host'[i] = host[i]
  <2>1. Types /\ Touches(r) /\ pc[r] # "idle"
    BY RequestKeepsServing DEF IInv, Touches, InFlight, Terminal
  <2>2. req[r] \in RequestRecords
    BY <2>1 DEF Types, RequestsMade
  <2>. QED BY <2>1, <2>2 DEF Touches, RequestRecords, Types, TypeOK
<1>2. ASSUME NEW i \in Ids, i # j
      PROVE  /\ host'[i] = "launching" <=> \E s \in Requests : Launches(s, i)'
             /\ \A s, t \in Requests : Launches(s, i)' /\ Launches(t, i)' => s = t
  <2>1. \A s \in Requests : Launches(s, i)' <=> Launches(s, i)
    BY <1>1, <1>2 DEF Launches
  <2>. QED BY <1>1, <1>2, <2>1 DEF OneLauncher
<1>3. /\ host'[j] = "launching" <=> \E s \in Requests : Launches(s, j)'
      /\ \A s, t \in Requests : Launches(s, j)' /\ Launches(t, j)' => s = t
  <2>1. \A s \in Requests \ {r} : Launches(s, j)' <=> Launches(s, j)
    BY <1>1 DEF Launches
  <2>2. CASE Launch(r)
    <3>1. host[j] = "down" /\ host'[j] = "launching" /\ pc'[r] = "launching"
      BY <1>1, <2>2 DEF Launch, Moves, Types, TypeOK
    <3>2. \A s \in Requests : ~Launches(s, j) BY <1>1, <3>1 DEF OneLauncher
    <3>3. Launches(r, j)' BY <1>1, <3>1 DEF Launches
    <3>. QED BY <2>1, <3>1, <3>2, <3>3
  <2>3. CASE LaunchEnds(r)
    <3>1. pc[r] = "launching" /\ pc'[r] # "launching" /\ host'[j] # "launching"
      BY <1>1, <2>3 DEF LaunchEnds, Moves, Types, TypeOK
    <3>2. Launches(r, j) /\ ~Launches(r, j)' BY <1>1, <3>1 DEF Launches
    <3>3. \A s \in Requests \ {r} : ~Launches(s, j) BY <1>1, <3>2 DEF OneLauncher
    <3>. QED BY <2>1, <3>1, <3>2, <3>3
  <2>4. ASSUME pc[r] # "launching", pc'[r] # "launching",
               host'[j] = "launching" <=> host[j] = "launching"
        PROVE  /\ host'[j] = "launching" <=> \E s \in Requests : Launches(s, j)'
               /\ \A s, t \in Requests : Launches(s, j)' /\ Launches(t, j)' => s = t
    <3>1. ~Launches(r, j) /\ ~Launches(r, j)' BY <2>4 DEF Launches
    <3>. QED BY <1>1, <2>1, <2>4, <3>1 DEF OneLauncher
  <2>5. CASE StopServer(r)
    <3>1. pc[r] # "launching" /\ pc'[r] # "launching"
      BY <1>1, <2>5 DEF StopServer, Moves, AfterStop, Types, TypeOK
    <3>2. host'[j] = "launching" <=> host[j] = "launching"
      BY <1>1, <2>5 DEF StopServer, Types, TypeOK
    <3>. QED BY <2>4, <3>1, <3>2
  <2>6. CASE \/ InsertRow(r) \/ ReadRow(r) \/ EnableRow(r) \/ StopReturns(r) \/ AlreadyRunning(r)
             \/ SettleFailure(r) \/ ClearError(r) \/ SetFlag(r) \/ EraseRow(r) \/ WriteFails(r)
    <3>1. host' = host
      BY <2>6 DEF InsertRow, ReadRow, EnableRow, StopReturns, AlreadyRunning, SettleFailure,
                  ClearError, SetFlag, EraseRow, WriteFails
    <3>2. \E from, to \in PCs \ {"launching"} : Moves(r, from, to)
      BY <2>6 DEF InsertRow, ReadRow, EnableRow, StopReturns, AlreadyRunning, SettleFailure,
                  ClearError, SetFlag, EraseRow, WriteFails, AfterStop, AfterWrite, PCs, Terminal
    <3>3. pc[r] # "launching" /\ pc'[r] # "launching"
      BY <1>1, <3>2 DEF Moves, Types, TypeOK
    <3>. QED BY <2>4, <3>1, <3>3
  <2>. QED BY <2>2, <2>3, <2>5, <2>6 DEF RequestStep
<1>. QED BY <1>2, <1>3 DEF OneLauncher

\* Every step keeps host and handlers in agreement.
LEMMA LauncherKept ==
  ASSUME IInv, OneLauncher, [Next]_vars
  PROVE  OneLauncher'
<1>0. Types /\ ServingInv /\ BootInv BY DEF IInv
<1>1. ASSUME host' = host, \A r \in Requests, i \in Ids : Launches(r, i)' <=> Launches(r, i)
      PROVE  OneLauncher'
  BY <1>1 DEF OneLauncher
<1>2. ASSUME NEW r \in Requests, Arrival(r) PROVE OneLauncher'
  <2>1. host' = host BY <1>0, <1>2, ArrivalKeepsServing
  <2>2. /\ pc[r] = "idle" /\ pc'[r] = "arrived"
        /\ \A s \in Requests \ {r} : pc'[s] = pc[s] /\ req'[s] = req[s]
    BY <1>0, <1>2 DEF Arrival, ArriveRegister, ArriveChange, Arrive, Moves, Types, TypeOK
  <2>. QED BY <1>1, <2>1, <2>2 DEF Launches
<1>3. ASSUME NEW u \in Users, DeleteUser(u) PROVE OneLauncher'
  BY <1>1, <1>3 DEF DeleteUser, requests, Launches
<1>4. ASSUME \A r \in Requests : pc'[r] # "launching", \A i \in Ids : host'[i] # "launching"
      PROVE  OneLauncher'
  BY <1>4 DEF OneLauncher, Launches
<1>5. CASE Boot \/ BootStep
  <2>1. Boots BY <1>0, <1>5, BootStepEffect DEF ServingInv
  <2>2. \A r \in Requests : ~InFlight(r) BY <1>0, <2>1, NobodyServed DEF Boots
  <2>3. \A r \in Requests : pc'[r] # "launching"
    BY <2>1, <2>2 DEF Boots, requests, InFlight, Terminal
  <2>4. \A i \in Ids : host[i] # "launching"
    BY <2>2, <2>3 DEF OneLauncher, Launches, InFlight, Terminal
  <2>5. \A i \in Ids : host'[i] # "launching"
    BY <1>0, <1>5, <2>4
       DEF Boot, BootStep, SeedNew, SeedExisting, SeedAborts, Seeded, BootStart, Serve, Types, TypeOK
  <2>. QED BY <1>4, <2>3, <2>5
<1>6. CASE Exit
  BY <1>0, <1>4, <1>6 DEF Exit, InFlight, Terminal, Types, TypeOK
<1>7. CASE UNCHANGED vars
  BY <1>1, <1>7 DEF vars, requests, Launches
<1>. QED BY <1>2, <1>3, <1>5, <1>6, <1>7, RequestKeepsLauncher DEF Next

\* One request at most launches a server, and no launch is left behind by a handler
\* that ended: the lock of an id is always given back.
THEOREM LaunchesHaveTheirRequest == Spec => []OneLauncher
<1>1. Init => OneLauncher
  BY DEF Init, OneLauncher, Launches
<1>2. IInv /\ OneLauncher /\ [Next]_vars => OneLauncher'
  BY LauncherKept
<1>. QED BY <1>1, <1>2, Invariance, PTL DEF Spec

View == INSTANCE HostView WITH Servers <- Ids

\* While the process serves, the handlers change the host as HostView allows.
KeepsToTheView == [][process = "serving" /\ process' = "serving" => View!Next]_host

\* What the requests do to the host is what MCPHost does (HostImplementsView of
\* MCPHostProofs): they launch only what is down and stop only what is up.
THEOREM HandlersKeepToTheView == Spec => KeepsToTheView
<1>1. IInv /\ OneLauncher /\ [Next]_vars =>
        [process = "serving" /\ process' = "serving" => View!Next]_host
  <2> SUFFICES ASSUME IInv, OneLauncher, [Next]_vars, host' # host, process = "serving", process' = "serving"
               PROVE  View!Next
    OBVIOUS
  <2>0. Types /\ ServingInv /\ BootInv BY DEF IInv
  <2>1. PICK r \in Requests : RequestStep(r)
    <3>1. ~(\E r \in Requests : Arrival(r)) BY <2>0, ArrivalKeepsServing
    <3>2. ~(\E u \in Users : DeleteUser(u)) BY DEF DeleteUser
    <3>3. ~Boot /\ ~BootStep /\ ~Exit
      BY DEF Boot, BootStep, Seeded, BootStart, Serve, Exit
    <3>4. ~UNCHANGED vars BY DEF vars
    <3>. QED BY <3>1, <3>2, <3>3, <3>4 DEF Next
  <2>2. PICK i \in Ids : i = req[r].id
    <3>1. pc[r] # "idle"
      BY <2>0, <2>1, RequestKeepsServing DEF Touches, InFlight, Terminal
    <3>. QED BY <2>0, <3>1 DEF Types, RequestsMade, RequestRecords
  <2>3. CASE Launch(r)
    BY <2>2, <2>3 DEF Launch, View!Next, View!Launch
  <2>4. CASE LaunchEnds(r)
    <3>1. host[i] = "launching"
      BY <2>2, <2>4 DEF LaunchEnds, Moves, OneLauncher, Launches
    <3>2. \E outcome \in {"up", "down"} : host' = [host EXCEPT ![i] = outcome]
      BY <2>2, <2>4 DEF LaunchEnds
    <3>. QED BY <3>1, <3>2 DEF View!Next, View!LaunchEnds
  <2>5. CASE StopServer(r)
    BY <2>2, <2>5 DEF StopServer, View!Next, View!Stop
  <2>. QED
    BY <2>1, <2>3, <2>4, <2>5
       DEF RequestStep, InsertRow, ReadRow, EnableRow, StopReturns, AlreadyRunning, SettleFailure,
           ClearError, SetFlag, EraseRow, WriteFails
<1>. QED BY <1>1, Invariance, LaunchesHaveTheirRequest, PTL DEF Spec, KeepsToTheView
===============================================================================
