--------------------------- MODULE MigrationsProofs ---------------------------
(***************************************************************************)
(* Proofs about Migrations: for any number of servers and commands on one  *)
(* database, the four invariants of the run.                               *)
(*                                                                         *)
(* The argument of the schema: nothing but the column revoked is ever      *)
(* dropped, so what a process has made or seen stays; the statements left  *)
(* of its migration make what is missing of the version it will stamp; and *)
(* the fresh path can stamp only while there is no row, that is while      *)
(* every process is on the fresh path.                                     *)
(*                                                                         *)
(* The argument of a lone boot: nobody else moves, so the row is what it   *)
(* read or stamped, and what is left of its script is not there yet.  That *)
(* needs of the past that an index is never there without its table, since *)
(* create_all looks for the table alone.                                   *)
(***************************************************************************)
EXTENDS Migrations, TLAPS

\* What the migration from v leads to.
Target(v) == IF v = 0 THEN Required(Current) ELSE Required(v + 1)

LEMMA AddedValues ==
  /\ Added[2] = {"email", "emails"}
  /\ Added[3] = {"user_tokens"}
  /\ Added[4] = {}
  /\ Added[5] = {"admin_configs", "mcp_servers", "memory_entries"}
  /\ Added[6] = {"overrides"}
  /\ Added[7] = {"startup_error"}
BY DEF Added, Current

LEMMA RequiredGrows ==
  /\ Required(1) = {"app_state", "users"}
  /\ \A v \in 2..Current : Required(v) = Required(v - 1) \cup Added[v]
<1>1. Required(1) = {"app_state", "users"}
  BY DEF Required
<1>2. ASSUME NEW v \in 2..Current PROVE Required(v) = Required(v - 1) \cup Added[v]
  <2>1. 2..v = (2..(v - 1)) \cup {v} BY <1>2 DEF Current
  <2> QED BY <2>1 DEF Required
<1> QED BY <1>1, <1>2

LEMMA ScriptValues ==
  /\ Scripts[0] = {Makes(1, "app_state", {"app_state"}),
                   Makes(2, "users", {"users", "email", "emails"}),
                   Makes(3, "user_tokens", {"user_tokens"}),
                   Makes(4, "admin_configs", {"admin_configs"}),
                   Makes(5, "mcp_servers", {"mcp_servers", "overrides", "startup_error"}),
                   IndexOf(6, "idx_servers", "mcp_servers"),
                   Makes(7, "memory_entries", {"memory_entries"}),
                   IndexOf(8, "idx_memory", "memory_entries")}
  /\ Scripts[1] = {AlterUsers, FillEmails}
  /\ Scripts[2] = {Makes(1, "user_tokens", {"user_tokens"})}
  /\ Scripts[3] = {}
  /\ Scripts[4] = {Makes(1, "admin_configs", {"admin_configs"}),
                   Makes(2, "mcp_servers", {"mcp_servers"}),
                   Index(3, "idx_servers"),
                   Makes(4, "memory_entries", {"memory_entries"}),
                   Index(5, "idx_memory")}
  /\ Scripts[5] = {Makes(1, "overrides", {"overrides"})}
  /\ Scripts[6] = {Makes(1, "startup_error", {"startup_error"})}
BY DEF Scripts, Current

\* No statement makes the column revoked, and each makes features.
LEMMA StatementsMake ==
  \A s \in Statements : s.makes \subseteq Features /\ "revoked" \notin s.makes
<1> SUFFICES ASSUME NEW v \in 0..Current - 1, NEW s \in Scripts[v]
             PROVE  s.makes \subseteq Features /\ "revoked" \notin s.makes
  BY DEF Statements
<1>1. Required(7) = {"app_state", "users", "email", "emails", "user_tokens", "admin_configs",
                     "mcp_servers", "memory_entries", "overrides", "startup_error"}
  BY RequiredGrows, AddedValues DEF Current
<1>2. Features = Required(7) \cup {"idx_servers", "idx_memory", "revoked"}
  BY DEF Features, Indexes, Current
<1>3. v \in {0, 1, 2, 3, 4, 5, 6} BY DEF Current
<1>4. CASE v = 0 BY <1>1, <1>2, <1>4, ScriptValues DEF Makes, IndexOf, Statement
<1>5. CASE v \in {1, 2, 3} BY <1>1, <1>2, <1>5, ScriptValues DEF Makes, AlterUsers, FillEmails, Statement
<1>6. CASE v \in {4, 5, 6} BY <1>1, <1>2, <1>6, ScriptValues DEF Makes, Index, Statement
<1> QED BY <1>3, <1>4, <1>5, <1>6

-----------------------------------------------------------------------------
(* Types *)

THEOREM TypeCorrect == Spec => []TypeOK
<1>1. Init => TypeOK
  <2> SUFFICES ASSUME Init PROVE TypeOK
    OBVIOUS
  <2>1. \A v \in 1..Current : Required(v) \subseteq Required(Current) /\ Indexes(v) \subseteq Indexes(Current)
    BY DEF Required, Indexes, Current
  <2>2. has \subseteq Features
    BY <2>1 DEF Init, Features
  <2>3. stored \in 0..Current + 1
    BY DEF Init, NoRow, Current
  <2>4. revoked \in BOOLEAN
    BY DEF Init
  <2>5. /\ pc = [p \in Procs |-> "down"] /\ at = [p \in Procs |-> 0]
        /\ todo = [p \in Procs |-> {}] /\ drops = [p \in Procs |-> FALSE]
        /\ met = [p \in Procs |-> FALSE] /\ misread = [p \in Procs |-> FALSE]
    BY DEF Init
  <2> QED BY <2>2, <2>3, <2>4, <2>5 DEF TypeOK, Steps, Current
<1>2. TypeOK /\ [Next]_vars => TypeOK'
  <2> SUFFICES ASSUME TypeOK, [Next]_vars PROVE TypeOK'
    OBVIOUS
  <2>1. CASE UNCHANGED vars
    BY <2>1 DEF vars, dbVars, TypeOK
  <2>2. ASSUME NEW p \in Procs, Boot(p) PROVE TypeOK'
    BY <2>2 DEF Boot, Goes, TypeOK, dbVars, Steps, Active, Running
  <2>3. ASSUME NEW p \in Procs, Crash(p) PROVE TypeOK'
    BY <2>3 DEF Crash, Goes, TypeOK, dbVars, Steps
  <2>4. ASSUME NEW p \in Procs, ReadVersion(p) PROVE TypeOK'
    BY <2>4 DEF ReadVersion, Goes, TypeOK, dbVars, Steps, Current
  <2>5. ASSUME NEW p \in Procs, Misread(p) PROVE TypeOK'
    BY <2>5 DEF Misread, Goes, TypeOK, dbVars, Steps, Current
  <2>6. ASSUME NEW p \in Procs, Look(p) PROVE TypeOK'
    <3>1. at[p] \in 0..Current - 1 BY <2>6 DEF Look, TypeOK, Current
    <3>2. \A s \in Scripts[at[p]] : s \in Statements BY <3>1 DEF Statements
    <3> QED BY <2>6, <3>2 DEF Look, Goes, TypeOK, dbVars, Steps
  <2>7. ASSUME NEW p \in Procs, Run(p) PROVE TypeOK'
    <3>1. \A s \in todo[p] : s.makes \subseteq Features BY StatementsMake DEF TypeOK
    <3> QED BY <2>7, <3>1 DEF Run, Goes, TypeOK, Steps
  <2>8. ASSUME NEW p \in Procs, DropRevoked(p) PROVE TypeOK'
    BY <2>8 DEF DropRevoked, Goes, TypeOK, Steps
  <2>9. ASSUME NEW p \in Procs, Applied(p) PROVE TypeOK'
    BY <2>9 DEF Applied, Goes, TypeOK, dbVars, Steps
  <2>10. ASSUME NEW p \in Procs, Stamp(p) PROVE TypeOK'
    BY <2>10 DEF Stamp, Goes, TypeOK, Steps, Current, NoRow
  <2>11. ASSUME NEW p \in Procs, Locked(p) \/ Pin(p) PROVE TypeOK'
    BY <2>11 DEF Locked, Pin, Goes, TypeOK, dbVars, Steps
  <2> QED
    BY <2>1, <2>2, <2>3, <2>4, <2>5, <2>6, <2>7, <2>8, <2>9, <2>10, <2>11 DEF Next
<1> QED BY <1>1, <1>2, PTL DEF Spec

-----------------------------------------------------------------------------
(* The schema *)

\* What a version from the fourth on promises of the tokens.
Clean == "revoked" \notin has /\ ~revoked

Complete == Required(Current) \subseteq has /\ Clean

\* While the statements todo are left, those names are there or will be made.
Covers(names, statements) ==
  \A f \in names : f \in has \/ \E s \in statements : f \in s.makes

\* Without a row there is no column revoked, a table of the current release has its
\* columns, and no process migrates.
FreshInv ==
  stored = NoRow =>
    /\ Clean
    /\ "users" \in has => {"email", "emails"} \subseteq has
    /\ "mcp_servers" \in has => {"overrides", "startup_error"} \subseteq has
    /\ \A p \in Procs : pc[p] \in {"look", "run", "stamp"} => at[p] = 0

\* A process that migrates from v has the schema of v; the rest of its target is
\* made by what is left to do.
ProcInv(p) ==
  /\ pc[p] \in {"look", "run", "stamp"} /\ at[p] # 0 =>
       Required(at[p]) \subseteq has /\ (at[p] >= 4 => Clean)
  /\ pc[p] = "run" /\ (at[p] = 0 => stored = NoRow) =>
       /\ todo[p] \subseteq Scripts[at[p]]
       /\ Covers(Target(at[p]), todo[p])
       /\ at[p] = 3 /\ ~drops[p] => "revoked" \notin has
  /\ pc[p] = "stamp" /\ (at[p] = 0 => stored = NoRow) =>
       /\ Target(at[p]) \subseteq has
       /\ at[p] = 3 => "revoked" \notin has
  /\ pc[p] \in {"pin", "up"} => Complete

SchemaInv ==
  /\ revoked => "revoked" \in has
  /\ SchemaMatchesVersion
  /\ FreshInv
  /\ \A p \in Procs : ProcInv(p)

\* What no step undoes: nothing but the column revoked is dropped, and neither it nor
\* the absence of the row comes back.
Frame ==
  /\ has \ {"revoked"} \subseteq has'
  /\ "revoked" \in has' => "revoked" \in has
  /\ revoked' => revoked
  /\ stored' = NoRow => stored = NoRow

LEMMA RequiredValues ==
  /\ Required(7) = {"app_state", "users", "email", "emails", "user_tokens", "admin_configs",
                    "mcp_servers", "memory_entries", "overrides", "startup_error"}
  /\ \A v \in 1..Current : "revoked" \notin Required(v) /\ Required(v) \subseteq Required(7)
<1>1. Required(7) = {"app_state", "users", "email", "emails", "user_tokens", "admin_configs",
                     "mcp_servers", "memory_entries", "overrides", "startup_error"}
  BY RequiredGrows, AddedValues DEF Current
<1>2. \A v \in 1..Current : Required(v) \subseteq Required(7)
  BY DEF Required, Current
<1> QED BY <1>1, <1>2

LEMMA StepsKeepFrame == ASSUME TypeOK, [Next]_vars PROVE Frame
<1>1. ASSUME NEW p \in Procs, Run(p) PROVE Frame
  <2>1. \A s \in todo[p] : "revoked" \notin s.makes BY StatementsMake DEF TypeOK
  <2> QED BY <1>1, <2>1 DEF Run, Frame
<1>2. ASSUME NEW p \in Procs, DropRevoked(p) PROVE Frame
  BY <1>2 DEF DropRevoked, Frame
<1>3. ASSUME NEW p \in Procs, Stamp(p) PROVE Frame
  BY <1>3 DEF Stamp, Frame, TypeOK, NoRow, Current
<1>4. ASSUME UNCHANGED dbVars PROVE Frame
  BY <1>4 DEF dbVars, Frame
<1>5. ASSUME NEW p \in Procs, \/ Boot(p) \/ Crash(p) \/ ReadVersion(p) \/ Misread(p) \/ Look(p)
                             \/ Applied(p) \/ Locked(p) \/ Pin(p)
      PROVE  UNCHANGED dbVars
  BY <1>5 DEF Boot, Crash, ReadVersion, Misread, Look, Applied, Locked, Pin
<1> QED BY <1>1, <1>2, <1>3, <1>4, <1>5 DEF Next, vars

LEMMA CleanKept == ASSUME Frame, Clean PROVE Clean'
BY DEF Frame, Clean

\* What is required stays.
LEMMA RequiredKept ==
  ASSUME Frame, NEW v \in 1..Current, Required(v) \subseteq has PROVE Required(v) \subseteq has'
BY RequiredValues DEF Frame

LEMMA TargetValues ==
  \A v \in 0..Current - 1 : Target(v) = Required(IF v = 0 THEN 7 ELSE v + 1) /\ "revoked" \notin Target(v)
<1> SUFFICES ASSUME NEW v \in 0..Current - 1
             PROVE  Target(v) = Required(IF v = 0 THEN 7 ELSE v + 1) /\ "revoked" \notin Target(v)
  OBVIOUS
<1>1. CASE v = 0 BY <1>1, RequiredValues DEF Target, Current
<1>2. CASE v # 0
  <2>1. v + 1 \in 1..Current BY <1>2 DEF Current
  <2> QED BY <1>2, <2>1, RequiredValues DEF Target
<1> QED BY <1>1, <1>2

\* A process that does not move keeps what it relies on.
LEMMA OthersKept ==
  ASSUME TypeOK, Frame, NEW q \in Procs, ProcInv(q),
         pc'[q] = pc[q], at'[q] = at[q], todo'[q] = todo[q], drops'[q] = drops[q]
  PROVE  ProcInv(q)'
<1>1. ASSUME pc[q] \in {"look", "run", "stamp"}, at[q] # 0
      PROVE  Required(at[q]) \subseteq has' /\ (at[q] >= 4 => Clean')
  <2>1. at[q] \in 1..Current BY <1>1 DEF TypeOK, Current
  <2> QED BY <1>1, <2>1, RequiredKept, CleanKept DEF ProcInv
<1>2. ASSUME pc[q] = "run", at[q] = 0 => stored' = NoRow
      PROVE  /\ todo[q] \subseteq Scripts[at[q]]
             /\ Covers(Target(at[q]), todo[q])'
             /\ at[q] = 3 /\ ~drops[q] => "revoked" \notin has'
  <2>1. at[q] \in 0..Current - 1 BY <1>2 DEF TypeOK, Current
  <2>2. "revoked" \notin Target(at[q]) BY <2>1, TargetValues
  <2>3. at[q] = 0 => stored = NoRow BY <1>2 DEF Frame
  <2>4. Target(at[q])' = Target(at[q]) BY DEF Target, Required
  <2> QED BY <1>2, <2>2, <2>3, <2>4 DEF ProcInv, Frame, Covers
<1>3. ASSUME pc[q] = "stamp", at[q] = 0 => stored' = NoRow
      PROVE  Target(at[q]) \subseteq has' /\ (at[q] = 3 => "revoked" \notin has')
  <2>1. at[q] \in 0..Current - 1 BY <1>3 DEF TypeOK, Current
  <2>2. "revoked" \notin Target(at[q]) BY <2>1, TargetValues
  <2> QED BY <1>3, <2>2 DEF ProcInv, Frame
<1>4. ASSUME pc[q] \in {"pin", "up"} PROVE Complete'
  <2>1. Required(Current) \subseteq has' BY <1>4, RequiredKept DEF ProcInv, Complete, Current
  <2> QED BY <1>4, <2>1, CleanKept DEF ProcInv, Complete
<1> QED BY <1>1, <1>2, <1>3, <1>4 DEF ProcInv, Covers

\* What a migration does not leave to its statements is there.
LEMMA LookCovers ==
  ASSUME NEW v \in 0..Current - 1, v # 0 => Required(v) \subseteq has,
         v = 0 => /\ "users" \in has => {"email", "emails"} \subseteq has
                  /\ "mcp_servers" \in has => {"overrides", "startup_error"} \subseteq has
  PROVE  Covers(Target(v), {s \in Scripts[v] : s.unless \cap has = {}})
<1> DEFINE left == {s \in Scripts[v] : s.unless \cap has = {}}
<1>1. v \in {0, 1, 2, 3, 4, 5, 6} BY DEF Current
<1>2. v # 0 => Target(v) = Required(v) \cup Added[v + 1] BY <1>1, RequiredGrows DEF Target, Current
<1>3. ASSUME NEW n, NEW name, NEW all, Makes(n, name, all) \in Scripts[v], name \notin has
      PROVE  \A f \in all : \E s \in left : f \in s.makes
  <2>1. Makes(n, name, all) \in left BY <1>3 DEF Makes, Statement
  <2>2. Makes(n, name, all).makes = all BY DEF Makes, Statement
  <2> QED BY <2>1, <2>2
<1>4. CASE v = 0
  <2>1. Target(0) = Required(7) BY DEF Target, Current
  <2>2. Makes(1, "app_state", {"app_state"}) \in Scripts[v]
        /\ Makes(2, "users", {"users", "email", "emails"}) \in Scripts[v]
        /\ Makes(3, "user_tokens", {"user_tokens"}) \in Scripts[v]
        /\ Makes(4, "admin_configs", {"admin_configs"}) \in Scripts[v]
        /\ Makes(5, "mcp_servers", {"mcp_servers", "overrides", "startup_error"}) \in Scripts[v]
        /\ Makes(7, "memory_entries", {"memory_entries"}) \in Scripts[v]
    BY <1>4, ScriptValues
  <2> HIDE DEF left
  <2>3. "app_state" \in has \/ \E s \in left : "app_state" \in s.makes BY <1>3, <2>2
  <2>4. \A f \in {"users", "email", "emails"} : f \in has \/ \E s \in left : f \in s.makes
    BY <1>3, <1>4, <2>2
  <2>5. "user_tokens" \in has \/ \E s \in left : "user_tokens" \in s.makes BY <1>3, <2>2
  <2>6. "admin_configs" \in has \/ \E s \in left : "admin_configs" \in s.makes BY <1>3, <2>2
  <2>7. \A f \in {"mcp_servers", "overrides", "startup_error"} : f \in has \/ \E s \in left : f \in s.makes
    BY <1>3, <1>4, <2>2
  <2>8. "memory_entries" \in has \/ \E s \in left : "memory_entries" \in s.makes BY <1>3, <2>2
  <2>9. Covers(Target(0), left)
    BY <2>1, <2>3, <2>4, <2>5, <2>6, <2>7, <2>8, RequiredValues DEF Covers
  <2> QED BY <1>4, <2>9 DEF left
<1>5. CASE v = 1
  <2>1. AlterUsers \in left /\ FillEmails \in left
    BY <1>5, ScriptValues DEF AlterUsers, FillEmails, Statement
  <2>2. "email" \in AlterUsers.makes /\ "emails" \in FillEmails.makes
    BY DEF AlterUsers, FillEmails, Statement
  <2>3. Target(v) = Required(v) \cup {"email", "emails"} BY <1>2, <1>5, AddedValues
  <2> HIDE DEF left
  <2>4. Covers(Target(v), left) BY <1>5, <2>1, <2>2, <2>3 DEF Covers
  <2> QED BY <2>4 DEF left
<1>6. ASSUME NEW name, v # 0, Added[v + 1] = {name}, Makes(1, name, {name}) \in Scripts[v]
      PROVE  Covers(Target(v), left)
  <2> HIDE DEF left
  <2> QED BY <1>2, <1>3, <1>6 DEF Covers
<1>9. CASE v = 2
  BY <1>6, <1>9, AddedValues, ScriptValues
<1>10. CASE v = 5
  BY <1>6, <1>10, AddedValues, ScriptValues
<1>11. CASE v = 6
  BY <1>6, <1>11, AddedValues, ScriptValues
<1>7. CASE v = 3
  BY <1>2, <1>7, AddedValues DEF Covers
<1>8. CASE v = 4
  <2>1. Makes(1, "admin_configs", {"admin_configs"}) \in Scripts[v]
        /\ Makes(2, "mcp_servers", {"mcp_servers"}) \in Scripts[v]
        /\ Makes(4, "memory_entries", {"memory_entries"}) \in Scripts[v]
    BY <1>8, ScriptValues
  <2>2. Target(v) = Required(v) \cup {"admin_configs", "mcp_servers", "memory_entries"}
    BY <1>2, <1>8, AddedValues
  <2> HIDE DEF left
  <2>3. \A f \in {"admin_configs", "mcp_servers", "memory_entries"} : f \in has \/ \E s \in left : f \in s.makes
    BY <1>3, <2>1
  <2>4. Covers(Target(v), left) BY <1>8, <2>2, <2>3 DEF Covers
  <2> QED BY <2>4 DEF left
<1> QED BY <1>1, <1>4, <1>5, <1>7, <1>8, <1>9, <1>10, <1>11

\* The conjuncts of the row follow from the frame when the row stays.
LEMMA RowKept ==
  ASSUME TypeOK, Frame, stored' = stored, SchemaMatchesVersion PROVE SchemaMatchesVersion'
BY RequiredKept DEF SchemaMatchesVersion, Frame, Current

\* A row that is stamped promises what the process has made.
LEMMA StampHonest ==
  ASSUME TypeOK, SchemaInv, NEW p \in Procs, Stamp(p)
  PROVE  SchemaMatchesVersion' /\ (pc'[p] = "pin" => Complete')
<1> USE DEF Current
<1>1. ProcInv(p) /\ pc[p] = "stamp" /\ UNCHANGED <<has, revoked>> BY DEF SchemaInv, Stamp
<1>2. at[p] \in 0..6 BY <1>1 DEF TypeOK
<1>3. CASE at[p] = 0 /\ stored = NoRow
  <2>1. Required(7) \subseteq has BY <1>1, <1>3 DEF ProcInv, Target
  <2>2. Clean BY <1>3 DEF SchemaInv, FreshInv
  <2>3. stored' = 7 BY <1>3 DEF Stamp
  <2> QED BY <1>1, <2>1, <2>2, <2>3 DEF SchemaMatchesVersion, Complete, Clean
<1>4. CASE at[p] = 0 /\ stored # NoRow
  <2>1. stored' = stored /\ pc'[p] = "clash" BY <1>4 DEF Stamp, Goes, TypeOK
  <2> QED BY <1>1, <2>1 DEF SchemaMatchesVersion, SchemaInv
<1>5. CASE at[p] # 0
  <2>1. Required(at[p] + 1) \subseteq has BY <1>1, <1>5 DEF ProcInv, Target
  <2>2. at[p] + 1 >= 4 => Clean
    BY <1>1, <1>2, <1>5 DEF ProcInv, SchemaInv, Clean
  <2>3. stored' = at[p] + 1 BY <1>5 DEF Stamp
  <2>4. pc'[p] = "pin" => at[p] + 1 = 7 BY <1>1, <1>5 DEF Stamp, Goes, TypeOK
  <2> QED BY <1>1, <2>1, <2>2, <2>3, <2>4 DEF SchemaMatchesVersion, Complete, Clean
<1> QED BY <1>3, <1>4, <1>5

\* The process that moves keeps or reaches what it relies on.
LEMMA MoverKept ==
  ASSUME TypeOK, SchemaInv, Frame, NEW p \in Procs,
         \/ Boot(p) \/ Crash(p) \/ ReadVersion(p) \/ Misread(p) \/ Look(p) \/ Run(p)
         \/ DropRevoked(p) \/ Applied(p) \/ Stamp(p) \/ Locked(p) \/ Pin(p)
  PROVE  ProcInv(p)'
<1>0. ProcInv(p) /\ pc \in [Procs -> Steps] BY DEF SchemaInv, TypeOK
<1>1. CASE Boot(p) \/ Crash(p) \/ Locked(p)
  BY <1>0, <1>1 DEF Boot, Crash, Locked, Goes, ProcInv
<1>2. CASE ReadVersion(p)
  <2>1. stored \in 0..Current + 1 /\ at \in [Procs -> 0..Current] BY DEF TypeOK
  <2>2. SchemaMatchesVersion BY DEF SchemaInv
  <2>3. CASE stored = Current
    <3>1. Complete BY <2>2, <2>3 DEF SchemaMatchesVersion, Complete, Clean, Current
    <3> QED BY <1>0, <1>2, <2>3, <3>1 DEF ReadVersion, Goes, dbVars, ProcInv, Complete, Clean, Current
  <2>4. CASE stored > Current
    BY <1>0, <1>2, <2>1, <2>4 DEF ReadVersion, Goes, ProcInv, Current
  <2>5. CASE stored < Current
    <3>1. pc'[p] = "look" /\ at'[p] = stored BY <1>0, <1>2, <2>1, <2>5 DEF ReadVersion, Goes, Current
    <3>2. stored # 0 => Required(stored) \subseteq has /\ (stored >= 4 => Clean)
      BY <2>1, <2>2, <2>5 DEF SchemaMatchesVersion, Clean, Current
    <3> QED BY <1>2, <3>1, <3>2 DEF ReadVersion, dbVars, ProcInv, Clean
  <2> QED BY <2>1, <2>3, <2>4, <2>5 DEF Current
<1>3. CASE Misread(p)
  <2>1. pc'[p] = "look" /\ at'[p] = 0 BY <1>0, <1>3 DEF Misread, Goes, TypeOK
  <2> QED BY <2>1 DEF ProcInv
<1>4. CASE Look(p)
  <2> DEFINE v == at[p]
  <2>1. v \in 0..Current - 1 BY <1>4 DEF Look, TypeOK, Current
  <2>2. /\ pc[p] = "look" /\ pc'[p] = "run" /\ at'[p] = v /\ UNCHANGED dbVars
        /\ todo'[p] = {s \in Scripts[v] : s.unless \cap has = {}}
        /\ drops'[p] = (v = 3 /\ "revoked" \in has)
    BY <1>0, <1>4 DEF Look, Goes, TypeOK
  <2>3. v # 0 => Required(v) \subseteq has /\ (v >= 4 => Clean) BY <1>0, <2>2 DEF ProcInv
  <2>4. ASSUME v = 0 => stored = NoRow PROVE Covers(Target(v), todo'[p])
    <3>1. v = 0 => /\ "users" \in has => {"email", "emails"} \subseteq has
                   /\ "mcp_servers" \in has => {"overrides", "startup_error"} \subseteq has
      BY <2>4 DEF SchemaInv, FreshInv
    <3> QED BY <2>1, <2>2, <2>3, <3>1, LookCovers
  <2>5. todo'[p] \subseteq Scripts[v] BY <2>2
  <2> HIDE DEF v
  <2> QED BY <2>2, <2>3, <2>4, <2>5 DEF ProcInv, Covers, dbVars, Clean
<1>5. CASE Run(p)
  <2>1. PICK s \in todo[p] :
          IF s.fails \cap has # {}
            THEN Goes(p, "clash") /\ UNCHANGED <<has, todo>>
            ELSE /\ has' = has \cup s.makes
                 /\ todo' = [todo EXCEPT ![p] = @ \ {s}]
                 /\ UNCHANGED pc
    BY <1>5 DEF Run
  <2>2. CASE s.fails \cap has # {}
    BY <1>0, <2>1, <2>2 DEF Goes, ProcInv
  <2>3. CASE s.fails \cap has = {}
    <3>1. /\ pc[p] = "run" /\ UNCHANGED <<stored, revoked, pc, at, drops>>
          /\ has' = has \cup s.makes /\ todo'[p] = todo[p] \ {s}
      BY <1>5, <2>1, <2>3 DEF Run, TypeOK
    <3>2. "revoked" \notin s.makes BY StatementsMake DEF TypeOK
    <3>3. at[p] # 0 => Required(at[p]) \subseteq has' /\ (at[p] >= 4 => Clean')
      BY <1>0, <3>1, <3>2 DEF ProcInv, Clean
    <3>4. ASSUME at[p] = 0 => stored = NoRow
          PROVE  /\ todo'[p] \subseteq Scripts[at[p]]
                 /\ Covers(Target(at[p]), todo[p] \ {s})'
                 /\ at[p] = 3 /\ ~drops[p] => "revoked" \notin has'
      BY <1>0, <3>1, <3>2, <3>4 DEF ProcInv, Covers, Target
    <3> QED BY <3>1, <3>3, <3>4 DEF ProcInv, Covers
  <2> QED BY <2>2, <2>3
<1>6. CASE DropRevoked(p)
  <2>1. CASE "revoked" \notin has
    BY <1>0, <1>6, <2>1 DEF DropRevoked, Goes, ProcInv
  <2>2. CASE "revoked" \in has
    <3>1. /\ pc[p] = "run" /\ UNCHANGED <<stored, pc, at, todo>>
          /\ has' = has \ {"revoked"} /\ revoked' = FALSE
      BY <1>6, <2>2 DEF DropRevoked
    <3>2. at[p] \in 0..Current - 1 BY <3>1 DEF TypeOK, Current
    <3>3. at[p] # 0 => Required(at[p]) \subseteq has'
      BY <1>0, <3>1, <3>2, RequiredValues DEF ProcInv, Current
    <3>4. "revoked" \notin Target(at[p]) BY <3>2, TargetValues
    <3>5. ASSUME at[p] = 0 => stored = NoRow
          PROVE  todo[p] \subseteq Scripts[at[p]] /\ Covers(Target(at[p]), todo[p])'
      BY <1>0, <3>1, <3>4, <3>5 DEF ProcInv, Covers, Target
    <3> QED BY <3>1, <3>3, <3>5 DEF ProcInv, Covers, Clean
  <2> QED BY <2>1, <2>2
<1>7. CASE Applied(p)
  <2>1. /\ pc[p] = "run" /\ pc'[p] = "stamp" /\ todo[p] = {} /\ ~drops[p]
        /\ UNCHANGED <<dbVars, at>>
    BY <1>0, <1>7 DEF Applied, Goes
  <2> QED BY <1>0, <2>1 DEF ProcInv, Covers, dbVars, Clean, Target
<1>8. CASE Stamp(p)
  <2>1. pc'[p] = "pin" => Complete' BY <1>8, StampHonest
  <2>2. SchemaMatchesVersion' BY <1>8, StampHonest
  <2>3. pc'[p] \in {"pin", "look", "clash"} BY <1>0, <1>8 DEF Stamp, Goes
  <2>4. pc'[p] = "look" => /\ at'[p] = at[p] + 1 /\ stored' = at[p] + 1 /\ at[p] \in 1..Current - 1
    BY <1>0, <1>8 DEF Stamp, Goes, TypeOK, Current
  <2>5. pc'[p] = "look" => Required(at'[p]) \subseteq has' /\ (at'[p] >= 4 => Clean')
    BY <2>2, <2>4 DEF SchemaMatchesVersion, Clean, Current
  <2> QED BY <2>1, <2>3, <2>5 DEF ProcInv
<1>9. CASE Pin(p)
  <2>1. pc[p] = "pin" /\ pc'[p] \in {"up", "unpinned"} /\ UNCHANGED dbVars
    BY <1>0, <1>9 DEF Pin, Goes
  <2> QED BY <1>0, <2>1 DEF ProcInv, Complete, Clean, dbVars
<1> QED BY <1>1, <1>2, <1>3, <1>4, <1>5, <1>6, <1>7, <1>8, <1>9

LEMMA FreshKept ==
  ASSUME TypeOK, SchemaInv, Frame, [Next]_vars PROVE FreshInv'
<1> SUFFICES ASSUME stored' = NoRow PROVE FreshInv'
  BY DEF FreshInv
<1>1. stored = NoRow /\ FreshInv BY DEF Frame, SchemaInv
<1>2. Clean' BY <1>1, CleanKept DEF FreshInv
<1>3. ASSUME NEW p \in Procs, Run(p)
      PROVE  /\ "users" \in has' => {"email", "emails"} \subseteq has'
             /\ "mcp_servers" \in has' => {"overrides", "startup_error"} \subseteq has'
  <2>1. pc[p] = "run" /\ at[p] = 0 BY <1>1, <1>3 DEF Run, FreshInv
  <2>2. todo[p] \subseteq Scripts[0] BY <1>1, <2>1 DEF SchemaInv, ProcInv
  <2>3. PICK s \in todo[p] : has' = has \/ has' = has \cup s.makes BY <1>3 DEF Run
  <2>4. /\ "users" \in s.makes => {"email", "emails"} \subseteq s.makes
        /\ "mcp_servers" \in s.makes => {"overrides", "startup_error"} \subseteq s.makes
    BY <2>2, ScriptValues DEF Makes, IndexOf, Statement
  <2> QED BY <1>1, <2>3, <2>4 DEF FreshInv
<1>4. ASSUME has' = has \/ has' = has \ {"revoked"}
      PROVE  /\ "users" \in has' => {"email", "emails"} \subseteq has'
             /\ "mcp_servers" \in has' => {"overrides", "startup_error"} \subseteq has'
  BY <1>1, <1>4 DEF FreshInv
<1>5. (\E p \in Procs : Run(p)) \/ has' = has \/ has' = has \ {"revoked"}
  BY DEF Next, vars, dbVars, Boot, Crash, ReadVersion, Misread, Look, DropRevoked, Applied, Stamp,
         Locked, Pin
<1>6. ASSUME NEW q \in Procs, pc'[q] \in {"look", "run", "stamp"} PROVE at'[q] = 0
  <2>1. CASE UNCHANGED vars
    BY <1>1, <1>6, <2>1 DEF vars, FreshInv
  <2>2. ASSUME NEW p \in Procs, \/ Boot(p) \/ Crash(p) \/ Look(p) \/ Run(p) \/ DropRevoked(p)
                               \/ Applied(p) \/ Locked(p) \/ Pin(p)
        PROVE  at'[q] = 0
    <3>1. at' = at
      BY <2>2 DEF Boot, Crash, Look, Run, DropRevoked, Applied, Locked, Pin
    <3>2. pc[q] \in {"look", "run", "stamp"}
      BY <1>6, <2>2 DEF Boot, Crash, Look, Run, DropRevoked, Applied, Locked, Pin, Goes, TypeOK
    <3> QED BY <1>1, <3>1, <3>2 DEF FreshInv
  <2>3. ASSUME NEW p \in Procs, ReadVersion(p) \/ Misread(p) PROVE at'[q] = 0
    <3>1. CASE q = p
      BY <1>1, <2>3, <3>1 DEF ReadVersion, Misread, TypeOK, NoRow, Current
    <3>2. CASE q # p
      BY <1>1, <1>6, <2>3, <3>2 DEF ReadVersion, Misread, Goes, FreshInv, TypeOK
    <3> QED BY <3>1, <3>2
  <2>4. ASSUME NEW p \in Procs, Stamp(p) PROVE FALSE
    <3>1. at[p] = 0 BY <1>1, <2>4 DEF Stamp, FreshInv
    <3> QED BY <1>1, <2>4, <3>1 DEF Stamp, NoRow, Current
  <2> QED BY <2>1, <2>2, <2>3, <2>4 DEF Next
<1> QED BY <1>2, <1>3, <1>4, <1>5, <1>6 DEF FreshInv

LEMMA SchemaInvKept ==
  ASSUME TypeOK, SchemaInv, [Next]_vars PROVE SchemaInv'
<1>1. Frame BY StepsKeepFrame
<1>2. (revoked => "revoked" \in has)'
  <2>1. revoked => "revoked" \in has BY DEF SchemaInv
  <2>2. ASSUME NEW p \in Procs, DropRevoked(p) PROVE revoked' => "revoked" \in has'
    BY <2>1, <2>2 DEF DropRevoked
  <2>3. has \subseteq has' \/ \E p \in Procs : DropRevoked(p)
    BY DEF Next, vars, dbVars, Boot, Crash, ReadVersion, Misread, Look, Run, Applied, Stamp, Locked, Pin
  <2> QED BY <1>1, <2>1, <2>2, <2>3 DEF Frame
<1>3. SchemaMatchesVersion'
  <2>1. SchemaMatchesVersion BY DEF SchemaInv
  <2>2. (\E p \in Procs : Stamp(p)) \/ stored' = stored
    BY DEF Next, vars, dbVars, Boot, Crash, ReadVersion, Misread, Look, Run, DropRevoked, Applied,
           Locked, Pin
  <2> QED BY <1>1, <2>1, <2>2, RowKept, StampHonest
<1>4. FreshInv' BY <1>1, FreshKept
<1>5. ASSUME NEW q \in Procs PROVE ProcInv(q)'
  <2>1. ProcInv(q) BY DEF SchemaInv
  <2>2. CASE UNCHANGED vars
    BY <1>1, <2>1, <2>2, OthersKept DEF vars
  <2>3. ASSUME NEW p \in Procs,
               \/ Boot(p) \/ Crash(p) \/ ReadVersion(p) \/ Misread(p) \/ Look(p) \/ Run(p)
               \/ DropRevoked(p) \/ Applied(p) \/ Stamp(p) \/ Locked(p) \/ Pin(p)
        PROVE  ProcInv(q)'
    <3>1. CASE q = p BY <1>1, <2>3, <3>1, MoverKept
    <3>2. CASE q # p
      <4>1. pc'[q] = pc[q] /\ at'[q] = at[q] /\ todo'[q] = todo[q] /\ drops'[q] = drops[q]
        BY <2>3, <3>2 DEF Boot, Crash, ReadVersion, Misread, Look, Run, DropRevoked, Applied, Stamp,
                          Locked, Pin, Goes, TypeOK
      <4> QED BY <1>1, <2>1, <4>1, OthersKept
    <3> QED BY <3>1, <3>2
  <2> QED BY <2>2, <2>3 DEF Next
<1> QED BY <1>2, <1>3, <1>4, <1>5 DEF SchemaInv

LEMMA SchemaInvInitially == Init => SchemaInv
<1> SUFFICES ASSUME Init PROVE SchemaInv
  OBVIOUS
<1>1. \A p \in Procs : pc[p] = "down" BY DEF Init
<1>2. \A p \in Procs : ProcInv(p) BY <1>1 DEF ProcInv
<1>3. CASE has = {} /\ stored = NoRow /\ revoked = FALSE
  BY <1>1, <1>2, <1>3 DEF SchemaInv, FreshInv, SchemaMatchesVersion, Clean, NoRow, Current
<1>4. ASSUME NEW v \in 1..Current, NEW column \in SUBSET {"revoked"}, stored = v,
             has = Required(v) \cup Indexes(v) \cup column, revoked => column # {},
             column # {} => v = 3
      PROVE  SchemaInv
  <2>1. revoked => "revoked" \in has BY <1>4
  <2>2. "revoked" \notin Required(v) \cup Indexes(v) BY RequiredValues DEF Indexes
  <2>3. v >= 4 => "revoked" \notin has BY <1>4, <2>2
  <2> QED BY <1>2, <1>4, <2>1, <2>3 DEF SchemaInv, FreshInv, SchemaMatchesVersion, NoRow, Current
<1>5. CASE stored = Current + 1 /\ revoked = FALSE
  BY <1>2, <1>5 DEF SchemaInv, FreshInv, SchemaMatchesVersion, NoRow, Current
<1> QED BY <1>3, <1>4, <1>5 DEF Init

THEOREM SchemaInvariant == Spec => []SchemaInv
<1>1. TypeOK /\ SchemaInv /\ [Next]_vars => SchemaInv'
  BY SchemaInvKept
<1> QED BY <1>1, SchemaInvInitially, TypeCorrect, PTL DEF Spec

\* With a version stored, its schema is there.
THEOREM SchemaMatchesVersionAlways == Spec => []SchemaMatchesVersion
<1>1. SchemaInv => SchemaMatchesVersion BY DEF SchemaInv
<1> QED BY <1>1, SchemaInvariant, PTL

\* A process that is up has the current schema under it.
THEOREM UpOnCurrentSchemaAlways == Spec => []UpOnCurrentSchema
<1>1. SchemaInv => UpOnCurrentSchema
  BY DEF SchemaInv, ProcInv, Complete, Clean, UpOnCurrentSchema
<1> QED BY <1>1, SchemaInvariant, PTL
-----------------------------------------------------------------------------
(* A boot on its own *)

\* The indexes and the tables they are on.
Indexed == {<<"idx_servers", "mcp_servers">>, <<"idx_memory", "memory_entries">>}

MakesSome(f, statements) == \E s \in statements : f \in s.makes

\* An index is on a table that is there; a process that will make the index finds the
\* table or makes it first.  create_all tells from the table whether to make both.
IndexInv ==
  /\ \A x \in Indexed : x[1] \in has => x[2] \in has
  /\ \A p \in Procs : pc[p] = "run" =>
       /\ todo[p] \subseteq Scripts[at[p]]
       /\ \A x \in Indexed : MakesSome(x[1], todo[p]) => x[2] \in has \/ MakesSome(x[2], todo[p])

Lone(p) == ~met[p] /\ ~misread[p]

\* Nobody else runs beside a lone boot, so the row is what it read or stamped and
\* what it has still to make is not there.
LoneInv(p) ==
  /\ Active(p) => \A q \in Procs \ {p} : ~Running(q)
  /\ pc[p] \in {"look", "run", "stamp"} => stored = at[p]
  /\ pc[p] = "pin" => stored = Current
  /\ pc[p] = "run" /\ at[p] # 1 => \A s \in todo[p] : s.fails \cap has = {}
  /\ pc[p] = "run" /\ drops[p] => "revoked" \in has
  /\ pc[p] \notin {"locked", "unpinned"}
  /\ pc[p] = "clash" => at[p] = 1 /\ "email" \in has

\* The statements of one migration by the name each makes first; nothing is made by two.
Maker(f) ==
  [app_state |-> 1, users |-> 2, email |-> 2, emails |-> 2, user_tokens |-> 3, admin_configs |-> 4,
   mcp_servers |-> 5, overrides |-> 5, startup_error |-> 5, idx_servers |-> 6, memory_entries |-> 7,
   idx_memory |-> 8][f]

LEMMA IndexedValues ==
  \A x \in Indexed : \/ x[1] = "idx_servers" /\ x[2] = "mcp_servers"
                     \/ x[1] = "idx_memory" /\ x[2] = "memory_entries"
BY DEF Indexed

LEMMA StatementValues ==
  /\ \A n, name, all : /\ Makes(n, name, all).nr = n
                        /\ Makes(n, name, all).makes = all
                        /\ Makes(n, name, all).fails = {name}
                        /\ Makes(n, name, all).unless = {name}
  /\ \A n, name, table : /\ IndexOf(n, name, table).nr = n
                          /\ IndexOf(n, name, table).makes = {name}
  /\ \A n, name : /\ Index(n, name).nr = n
                   /\ Index(n, name).makes = {name}
                   /\ Index(n, name).fails = {}
  /\ AlterUsers.makes = {"email"} /\ AlterUsers.fails = {"email"}
  /\ FillEmails.makes = {"emails"} /\ FillEmails.fails = {}
BY DEF Makes, IndexOf, Index, AlterUsers, FillEmails, Statement

\* create_all: what is made tells the statement, and an index comes after its table.
LEMMA CreateAllShape ==
  ASSUME NEW s \in Scripts[0]
  PROVE  /\ s.fails \subseteq s.makes
         /\ \A t \in Scripts[0] : t.nr = s.nr => t = s
         /\ \A f \in s.makes : s.nr = Maker(f)
         /\ \/ s.fails \subseteq s.unless
            \/ \E x \in Indexed : s.fails = {x[1]} /\ s.unless = {x[2]}
<1>1. s.fails \subseteq s.makes
  BY ScriptValues DEF Makes, IndexOf, Statement
<1>2. ASSUME NEW t \in Scripts[0], t.nr = s.nr PROVE t = s
  BY <1>2, ScriptValues, StatementValues
<1>3. ASSUME NEW f \in s.makes PROVE s.nr = Maker(f)
  BY <1>3, ScriptValues DEF Makes, IndexOf, Statement, Maker
<1>4. \/ s.fails \subseteq s.unless
      \/ \E x \in Indexed : s.fails = {x[1]} /\ s.unless = {x[2]}
  <2>1. <<"idx_servers", "mcp_servers">> \in Indexed /\ <<"idx_memory", "memory_entries">> \in Indexed
    BY DEF Indexed
  <2>2. \/ s.fails \subseteq s.unless
        \/ s = IndexOf(6, "idx_servers", "mcp_servers")
        \/ s = IndexOf(8, "idx_memory", "memory_entries")
    BY ScriptValues DEF Makes, Statement
  <2>3. ASSUME NEW n, NEW x \in Indexed, s = IndexOf(n, x[1], x[2])
        PROVE  s.fails = {x[1]} /\ s.unless = {x[2]}
    BY <2>3 DEF IndexOf, Statement
  <2> QED BY <2>1, <2>2, <2>3
<1> QED BY <1>1, <1>2, <1>3, <1>4

\* The statements of one migration: none makes what another one raises on, an index
\* comes after its table, and only the e-mail column is made without a look.
LEMMA ScriptShape ==
  ASSUME NEW v \in 0..Current - 1, NEW s \in Scripts[v]
  PROVE  /\ \A t \in Scripts[v] : t # s => t.fails \cap s.makes = {}
         /\ \A x \in Indexed, t \in Scripts[v] :
              x[1] \in s.makes /\ x[2] \in t.makes => ~(s.nr <= t.nr)
         /\ v # 1 => \/ s.fails \subseteq s.unless
                     \/ \E x \in Indexed : s.fails = {x[1]} /\ s.unless = {x[2]}
         /\ v = 1 => s.fails \subseteq {"email"}
<1>1. v \in {0, 1, 2, 3, 4, 5, 6} BY DEF Current
<1>2. CASE v = 0
  <2>1. \A t \in Scripts[v] : t # s => t.fails \cap s.makes = {}
    BY <1>2, CreateAllShape
  <2>2. ASSUME NEW x \in Indexed, NEW t \in Scripts[v], x[1] \in s.makes, x[2] \in t.makes
        PROVE  ~(s.nr <= t.nr)
    <3>1. s.nr = Maker(x[1]) /\ t.nr = Maker(x[2]) BY <1>2, <2>2, CreateAllShape
    <3> QED BY <3>1, IndexedValues DEF Maker
  <2> QED BY <1>2, <2>1, <2>2, CreateAllShape
<1>3. CASE v = 4
  <2>1. \A t \in Scripts[v] : t # s => t.fails \cap s.makes = {}
    BY <1>3, ScriptValues, StatementValues
  <2>2. \A t \in Scripts[v] :
          /\ "idx_servers" \in s.makes /\ "mcp_servers" \in t.makes => s.nr = 3 /\ t.nr = 2
          /\ "idx_memory" \in s.makes /\ "memory_entries" \in t.makes => s.nr = 5 /\ t.nr = 4
    BY <1>3, ScriptValues DEF Makes, Index, Statement
  <2>3. s.fails \subseteq s.unless
    BY <1>3, ScriptValues DEF Makes, Index, Statement
  <2> QED BY <1>3, <2>1, <2>2, <2>3, IndexedValues
<1>4. CASE v \in {1, 2, 3, 5, 6}
  <2>1. \A t \in Scripts[v] : t # s => t.fails \cap s.makes = {}
    BY <1>4, ScriptValues, StatementValues
  <2>2. "idx_servers" \notin s.makes /\ "idx_memory" \notin s.makes
    BY <1>4, ScriptValues DEF Makes, AlterUsers, FillEmails, Statement
  <2>3. v # 1 => s.fails \subseteq s.unless
    BY <1>4, ScriptValues DEF Makes, Statement
  <2>4. v = 1 => s.fails \subseteq {"email"}
    BY <1>4, ScriptValues DEF AlterUsers, FillEmails, Statement
  <2> QED BY <2>1, <2>2, <2>3, <2>4, IndexedValues
<1> QED BY <1>1, <1>2, <1>3, <1>4

\* An index is made where its table is.
LEMMA IndexMeetsTable ==
  ASSUME NEW v \in 0..Current - 1, NEW x \in Indexed, MakesSome(x[1], Scripts[v])
  PROVE  \E t \in Scripts[v] : x[2] \in t.makes /\ t.unless \subseteq {x[2]}
<1>1. v \in {0, 1, 2, 3, 4, 5, 6} BY DEF Current
<1>2. ASSUME NEW n, NEW name, NEW all, name \in all, name = x[2], Makes(n, name, all) \in Scripts[v]
      PROVE  \E t \in Scripts[v] : x[2] \in t.makes /\ t.unless \subseteq {x[2]}
  <2>1. Makes(n, name, all).makes = all /\ Makes(n, name, all).unless = {name}
    BY DEF Makes, Statement
  <2> QED BY <1>2, <2>1
<1>3. CASE v = 0
  <2>1. /\ Makes(5, "mcp_servers", {"mcp_servers", "overrides", "startup_error"}) \in Scripts[v]
        /\ Makes(7, "memory_entries", {"memory_entries"}) \in Scripts[v]
    BY <1>3, ScriptValues
  <2> QED BY <1>2, <2>1, IndexedValues
<1>4. CASE v = 4
  <2>1. /\ Makes(2, "mcp_servers", {"mcp_servers"}) \in Scripts[v]
        /\ Makes(4, "memory_entries", {"memory_entries"}) \in Scripts[v]
    BY <1>4, ScriptValues
  <2> QED BY <1>2, <2>1, IndexedValues
<1>5. CASE v \in {1, 2, 3, 5, 6}
  <2>1. \A s \in Scripts[v] : "idx_servers" \notin s.makes /\ "idx_memory" \notin s.makes
    BY <1>5, ScriptValues DEF Makes, AlterUsers, FillEmails, Statement
  <2> QED BY <2>1, IndexedValues DEF MakesSome
<1> QED BY <1>1, <1>3, <1>4, <1>5

LEMMA IndexInvInitially == Init => IndexInv
<1> SUFFICES ASSUME Init PROVE IndexInv
  OBVIOUS
<1>1. \A p \in Procs : pc[p] = "down" BY DEF Init
<1>2. has = {} \/ \E v \in 1..Current, column \in SUBSET {"revoked"} :
                    has = Required(v) \cup Indexes(v) \cup column
  <2>1. 7 \in 1..Current /\ {} \in SUBSET {"revoked"} BY DEF Current
  <2>2. CASE has = Required(Current) \cup Indexes(Current)
    <3>1. has = Required(Current) \cup Indexes(Current) \cup {} BY <2>2
    <3> QED BY <2>1, <3>1 DEF Current
  <2>3. CASE has = {}
    BY <2>3
  <2>4. CASE \E v \in 1..Current, column \in SUBSET {"revoked"} :
               has = Required(v) \cup Indexes(v) \cup column
    BY <2>4
  <2> QED BY <2>2, <2>3, <2>4 DEF Init
<1>3. ASSUME NEW v \in 1..Current, NEW column \in SUBSET {"revoked"},
             has = Required(v) \cup Indexes(v) \cup column, NEW x \in Indexed, x[1] \in has
      PROVE  x[2] \in has
  <2>1. x[1] \in {"idx_servers", "idx_memory"} /\ x[2] \in Added[5]
    BY AddedValues DEF Indexed
  <2>2. x[1] \notin Required(v) BY <2>1, RequiredValues DEF Current
  <2>3. v >= 5 BY <1>3, <2>1, <2>2 DEF Indexes
  <2>4. Added[5] \subseteq Required(v) BY <2>3 DEF Required, Current
  <2> QED BY <1>3, <2>1, <2>4
<1> QED BY <1>1, <1>2, <1>3 DEF IndexInv

LEMMA IndexInvKept ==
  ASSUME TypeOK, IndexInv, [Next]_vars PROVE IndexInv'
<1>0. Frame /\ "mcp_servers" # "revoked" /\ "memory_entries" # "revoked" BY StepsKeepFrame
<1>1. \A x \in Indexed : x[2] \in has => x[2] \in has'
  BY <1>0 DEF Frame, Indexed
<1>2. ASSUME NEW x \in Indexed, x[1] \in has' PROVE x[2] \in has'
  <2>1. CASE x[1] \in has BY <1>1, <2>1 DEF IndexInv
  <2>2. ASSUME NEW p \in Procs, Run(p), x[1] \notin has PROVE x[2] \in has'
    <3>1. PICK s \in todo[p] : /\ \A t \in todo[p] : s.nr <= t.nr
                               /\ has' = has \/ has' = has \cup s.makes
      BY <2>2 DEF Run
    <3>2. pc[p] = "run" /\ x[1] \in s.makes BY <1>2, <2>2, <3>1 DEF Run
    <3>3. at[p] \in 0..Current - 1 BY <3>2 DEF TypeOK, Current
    <3>4. todo[p] \subseteq Scripts[at[p]] BY <3>2 DEF IndexInv
    <3>5. ~MakesSome(x[2], todo[p])
      BY <3>1, <3>2, <3>3, <3>4, ScriptShape DEF MakesSome
    <3>6. x[2] \in has BY <3>2, <3>5 DEF IndexInv, MakesSome
    <3> QED BY <1>1, <3>6
  <2>3. (\E p \in Procs : Run(p)) \/ has' \subseteq has
    BY DEF Next, vars, dbVars, Boot, Crash, ReadVersion, Misread, Look, DropRevoked, Applied, Stamp,
           Locked, Pin
  <2> QED BY <1>2, <2>1, <2>2, <2>3
<1>3. ASSUME NEW q \in Procs, pc'[q] = "run"
      PROVE  /\ todo'[q] \subseteq Scripts[at'[q]]
             /\ \A x \in Indexed : MakesSome(x[1], todo'[q]) => x[2] \in has' \/ MakesSome(x[2], todo'[q])
  <2>1. CASE pc[q] = "run" /\ todo'[q] = todo[q] /\ at'[q] = at[q]
    BY <1>1, <2>1 DEF IndexInv
  <2>2. CASE Look(q)
    <3>1. at[q] \in 0..Current - 1 BY <2>2 DEF Look, TypeOK, Current
    <3>2. at' = at /\ has' = has /\ todo'[q] = {s \in Scripts[at[q]] : s.unless \cap has = {}}
      BY <2>2 DEF Look, dbVars, TypeOK
    <3>3. ASSUME NEW x \in Indexed, MakesSome(x[1], todo'[q]), x[2] \notin has
          PROVE  MakesSome(x[2], todo'[q])
      <4>1. PICK t \in Scripts[at[q]] : x[2] \in t.makes /\ t.unless \subseteq {x[2]}
        BY <3>1, <3>2, <3>3, IndexMeetsTable DEF MakesSome
      <4> QED BY <3>2, <3>3, <4>1 DEF MakesSome
    <3> QED BY <3>2, <3>3
  <2>3. CASE Run(q)
    <3>1. PICK s \in todo[q] :
            IF s.fails \cap has # {}
              THEN Goes(q, "clash") /\ UNCHANGED <<has, todo>>
              ELSE /\ has' = has \cup s.makes
                   /\ todo' = [todo EXCEPT ![q] = @ \ {s}]
                   /\ UNCHANGED pc
      BY <2>3 DEF Run
    <3>2. pc[q] = "run" /\ at' = at /\ has' = has \cup s.makes /\ todo'[q] = todo[q] \ {s}
      BY <1>3, <2>3, <3>1 DEF Run, Goes, TypeOK
    <3>3. ASSUME NEW x \in Indexed, MakesSome(x[1], todo'[q])
          PROVE  x[2] \in has' \/ MakesSome(x[2], todo'[q])
      BY <3>2, <3>3 DEF IndexInv, MakesSome
    <3> QED BY <3>2, <3>3 DEF IndexInv
  <2>4. \/ pc[q] = "run" /\ todo'[q] = todo[q] /\ at'[q] = at[q]
        \/ Look(q) \/ Run(q)
    <3>1. CASE UNCHANGED vars BY <1>3, <3>1 DEF vars
    <3>2. ASSUME NEW p \in Procs, p # q,
                 \/ Boot(p) \/ Crash(p) \/ ReadVersion(p) \/ Misread(p) \/ Look(p) \/ Run(p)
                 \/ DropRevoked(p) \/ Applied(p) \/ Stamp(p) \/ Locked(p) \/ Pin(p)
          PROVE  pc[q] = "run" /\ todo'[q] = todo[q] /\ at'[q] = at[q]
      BY <1>3, <3>2 DEF Boot, Crash, ReadVersion, Misread, Look, Run, DropRevoked, Applied, Stamp,
                        Locked, Pin, Goes, TypeOK
    <3>3. CASE \/ Boot(q) \/ Crash(q) \/ ReadVersion(q) \/ Misread(q)
               \/ DropRevoked(q) \/ Applied(q) \/ Stamp(q) \/ Locked(q) \/ Pin(q)
      BY <1>3, <3>3 DEF Boot, Crash, ReadVersion, Misread, DropRevoked, Applied, Stamp,
                        Locked, Pin, Goes, TypeOK
    <3> QED BY <3>1, <3>2, <3>3 DEF Next
  <2> QED BY <2>1, <2>2, <2>3, <2>4
<1> QED BY <1>2, <1>3 DEF IndexInv

LEMMA LoneInvInitially == Init => \A p \in Procs : LoneInv(p)
BY DEF Init, LoneInv, Active, Running

\* A lone boot was lone a step before, unless it has just begun, with nobody else there.
LEMMA LoneBefore ==
  ASSUME TypeOK, [Next]_vars, NEW p \in Procs, Lone(p)', ~Boot(p)
  PROVE  Lone(p)
<1>1. ASSUME NEW q \in Procs, q # p, Boot(q) PROVE Lone(p)
  BY <1>1 DEF Boot, Lone, TypeOK
<1>2. ASSUME NEW q \in Procs, Misread(q) PROVE Lone(p)
  BY <1>2 DEF Misread, Lone, TypeOK
<1>3. CASE UNCHANGED <<met, misread>>
  BY <1>3 DEF Lone
<1> QED
  BY <1>1, <1>2, <1>3 DEF Next, vars, Crash, ReadVersion, Look, Run, DropRevoked, Applied, Stamp,
                          Locked, Pin

\* Beside a lone boot the others only begin, which ends its being alone, or rest.
LEMMA LoneOthers ==
  ASSUME TypeOK, NEW p \in Procs, NEW q \in Procs, p # q, Lone(p)', LoneInv(p),
         \/ Boot(q) \/ Crash(q) \/ ReadVersion(q) \/ Misread(q) \/ Look(q) \/ Run(q)
         \/ DropRevoked(q) \/ Applied(q) \/ Stamp(q) \/ Locked(q) \/ Pin(q),
         Frame
  PROVE  LoneInv(p)'
<1>1. pc'[p] = pc[p] /\ at'[p] = at[p] /\ todo'[p] = todo[p] /\ drops'[p] = drops[p]
  BY DEF Boot, Crash, ReadVersion, Misread, Look, Run, DropRevoked, Applied, Stamp, Locked, Pin,
         Goes, TypeOK
<1>2. CASE Active(p)
  <2>1. ~Running(q) BY <1>2 DEF LoneInv
  <2>2. Boot(q)
    BY <2>1 DEF Crash, ReadVersion, Misread, Look, Run, DropRevoked, Applied, Stamp, Locked, Pin,
                Running, Active
  <2>3. met'[p] BY <1>2, <2>2 DEF Boot
  <2> QED BY <2>3 DEF Lone
<1>3. CASE ~Active(p)
  <2>1. "email" \in has => "email" \in has' BY DEF Frame
  <2> QED BY <1>1, <1>3, <2>1 DEF LoneInv, Active
<1> QED BY <1>2, <1>3

\* The lone boot itself.
LEMMA LoneMover ==
  ASSUME TypeOK, IndexInv, SchemaInv, NEW p \in Procs, Lone(p)',
         \/ Boot(p)
         \/ /\ LoneInv(p)
            /\ \/ Crash(p) \/ ReadVersion(p) \/ Look(p) \/ Run(p)
               \/ DropRevoked(p) \/ Applied(p) \/ Stamp(p) \/ Locked(p) \/ Pin(p)
  PROVE  LoneInv(p)'
<1>0. pc \in [Procs -> Steps] /\ at \in [Procs -> 0..Current] /\ todo \in [Procs -> SUBSET Statements]
  BY DEF TypeOK
<1>1. CASE Boot(p)
  <2>1. met' = [q \in Procs |-> IF q = p THEN \E r \in Procs \ {p} : Running(r)
                               ELSE met[q] \/ Active(q)]
    BY <1>1 DEF Boot
  <2>2. met'[p] = (\E r \in Procs \ {p} : Running(r)) BY <2>1
  <2>3. \A q \in Procs \ {p} : ~Running(q) BY <2>2 DEF Lone
  <2>4. \A q \in Procs \ {p} : pc'[q] = pc[q] BY <1>0, <1>1 DEF Boot, Goes
  <2>5. \A q \in Procs \ {p} : ~Running(q)' BY <2>3, <2>4 DEF Running, Active
  <2>6. pc'[p] = "read" BY <1>0, <1>1 DEF Boot, Goes
  <2> QED BY <2>5, <2>6 DEF LoneInv
<1>2. ASSUME LoneInv(p), Active(p), \A q \in Procs : q # p => pc'[q] = pc[q]
      PROVE  \A q \in Procs \ {p} : ~Running(q)'
  <2>1. \A q \in Procs \ {p} : ~Running(q) BY <1>2 DEF LoneInv
  <2> QED BY <1>2, <2>1 DEF Running, Active
<1>3. CASE LoneInv(p) /\ Crash(p)
  <2>1. pc'[p] = "down" BY <1>0, <1>3 DEF Crash, Goes
  <2> QED BY <2>1 DEF LoneInv, Active
<1>4. CASE LoneInv(p) /\ ReadVersion(p)
  <2>1. \A q \in Procs \ {p} : ~Running(q)'
    BY <1>0, <1>2, <1>4 DEF ReadVersion, Goes, Active
  <2>2. stored' = stored /\ stored \in 0..Current + 1 BY <1>4 DEF ReadVersion, dbVars, TypeOK
  <2>3. \/ pc'[p] = "pin" /\ stored = Current
        \/ pc'[p] = "newer"
        \/ pc'[p] = "look" /\ stored < Current /\ at'[p] = stored
    BY <1>0, <1>4, <2>2 DEF ReadVersion, Goes, Current
  <2> QED BY <2>1, <2>2, <2>3 DEF LoneInv
<1>5. CASE LoneInv(p) /\ Look(p)
  <2>1. \A q \in Procs \ {p} : ~Running(q)'
    BY <1>0, <1>2, <1>5 DEF Look, Goes, Active
  <2>2. /\ pc[p] = "look" /\ pc'[p] = "run" /\ at' = at /\ stored' = stored /\ has' = has
        /\ todo'[p] = {s \in Scripts[at[p]] : s.unless \cap has = {}}
        /\ drops'[p] => "revoked" \in has
    BY <1>0, <1>5 DEF Look, Goes, dbVars, TypeOK
  <2>3. at[p] \in 0..Current - 1 BY <2>2 DEF TypeOK, Current
  <2>4. ASSUME at[p] # 1, NEW s \in todo'[p] PROVE s.fails \cap has = {}
    <3>1. s \in Scripts[at[p]] /\ s.unless \cap has = {} BY <2>2, <2>4
    <3>2. CASE s.fails \subseteq s.unless BY <3>1, <3>2
    <3>3. ASSUME NEW x \in Indexed, s.fails = {x[1]}, s.unless = {x[2]}
          PROVE  s.fails \cap has = {}
      BY <3>1, <3>3 DEF IndexInv
    <3> QED BY <2>3, <2>4, <3>1, <3>2, <3>3, ScriptShape
  <2> QED BY <2>1, <2>2, <2>4, <1>5 DEF LoneInv
<1>6. CASE LoneInv(p) /\ Run(p)
  <2>1. PICK s \in todo[p] :
          IF s.fails \cap has # {}
            THEN Goes(p, "clash") /\ UNCHANGED <<has, todo>>
            ELSE /\ has' = has \cup s.makes
                 /\ todo' = [todo EXCEPT ![p] = @ \ {s}]
                 /\ UNCHANGED pc
    BY <1>6 DEF Run
  <2>2. pc[p] = "run" /\ at' = at /\ stored' = stored /\ drops' = drops BY <1>6 DEF Run
  <2>3. at[p] \in 0..Current - 1 BY <2>2 DEF TypeOK, Current
  <2>4. todo[p] \subseteq Scripts[at[p]] BY <2>2 DEF IndexInv
  <2>5. \A q \in Procs \ {p} : ~Running(q)'
    BY <1>0, <1>2, <1>6, <2>1, <2>2 DEF Goes, Active
  <2>6. CASE s.fails \cap has # {}
    <3>1. pc'[p] = "clash" /\ has' = has BY <1>0, <2>1, <2>6 DEF Goes
    <3>2. at[p] = 1 BY <1>6, <2>1, <2>2, <2>6 DEF LoneInv
    <3>3. s.fails \subseteq {"email"} BY <2>3, <2>4, <3>2, ScriptShape
    <3>4. "email" \in has BY <2>6, <3>3
    <3> QED BY <2>2, <3>1, <3>2, <3>4, <2>5 DEF LoneInv
  <2>7. CASE s.fails \cap has = {}
    <3>1. pc' = pc /\ has' = has \cup s.makes /\ todo'[p] = todo[p] \ {s} BY <1>0, <2>1, <2>7
    <3>2. ASSUME at[p] # 1, NEW t \in todo[p] \ {s} PROVE t.fails \cap has' = {}
      <4>1. t.fails \cap has = {} BY <1>6, <2>2, <3>2 DEF LoneInv
      <4>2. t.fails \cap s.makes = {} BY <2>3, <2>4, <3>2, ScriptShape
      <4> QED BY <3>1, <4>1, <4>2
    <3> QED BY <1>6, <2>2, <2>5, <3>1, <3>2 DEF LoneInv
  <2> QED BY <2>6, <2>7
<1>7. CASE LoneInv(p) /\ DropRevoked(p)
  <2>1. pc[p] = "run" /\ drops[p] /\ "revoked" \in has BY <1>7 DEF DropRevoked, LoneInv
  <2>2. /\ has' = has \ {"revoked"} /\ drops'[p] = FALSE /\ pc' = pc
        /\ at' = at /\ todo' = todo /\ stored' = stored
    BY <1>7, <2>1 DEF DropRevoked, TypeOK
  <2>3. \A q \in Procs \ {p} : ~Running(q)'
    BY <1>2, <1>7, <2>1, <2>2 DEF Active
  <2> QED BY <1>7, <2>1, <2>2, <2>3 DEF LoneInv
<1>8. CASE LoneInv(p) /\ Applied(p)
  <2>1. \A q \in Procs \ {p} : ~Running(q)'
    BY <1>0, <1>2, <1>8 DEF Applied, Goes, Active
  <2>2. pc[p] = "run" /\ pc'[p] = "stamp" /\ at' = at /\ stored' = stored
    BY <1>0, <1>8 DEF Applied, Goes, dbVars
  <2> QED BY <1>8, <2>1, <2>2 DEF LoneInv
<1>9. CASE LoneInv(p) /\ Stamp(p)
  <2>1. \A q \in Procs \ {p} : ~Running(q)'
    BY <1>0, <1>2, <1>9 DEF Stamp, Goes, Active
  <2>2. pc[p] = "stamp" /\ stored = at[p] BY <1>9 DEF Stamp, LoneInv
  <2>3. CASE at[p] = 0
    <3>1. pc'[p] = "pin" /\ stored' = Current
      BY <1>0, <1>9, <2>2, <2>3 DEF Stamp, Goes, NoRow
    <3> QED BY <2>1, <3>1 DEF LoneInv
  <2>4. CASE at[p] # 0
    <3>1. /\ stored' = at[p] + 1 /\ at'[p] = at[p] + 1
          /\ pc'[p] = IF at[p] + 1 = Current THEN "pin" ELSE "look"
      BY <1>0, <1>9, <2>4 DEF Stamp, Goes
    <3> QED BY <2>1, <3>1 DEF LoneInv
  <2> QED BY <2>3, <2>4
<1>10. CASE LoneInv(p) /\ Locked(p)
  BY <1>10 DEF Locked, LoneInv, Active
<1>11. CASE LoneInv(p) /\ Pin(p)
  <2>1. stored = Current BY <1>11 DEF Pin, LoneInv
  <2>2. pc'[p] = "up" BY <1>0, <1>11, <2>1 DEF Pin, Goes
  <2> QED BY <2>2 DEF LoneInv, Active
<1> QED BY <1>1, <1>3, <1>4, <1>5, <1>6, <1>7, <1>8, <1>9, <1>10, <1>11

AloneInv == IndexInv /\ \A p \in Procs : Lone(p) => LoneInv(p)

LEMMA AloneInvKept ==
  ASSUME TypeOK, SchemaInv, AloneInv, [Next]_vars PROVE AloneInv'
<1>1. IndexInv' BY IndexInvKept DEF AloneInv
<1>2. ASSUME NEW p \in Procs, Lone(p)' PROVE LoneInv(p)'
  <2>1. CASE Boot(p) BY <1>2, <2>1, LoneMover DEF AloneInv
  <2>2. CASE ~Boot(p)
    <3>1. Lone(p) /\ LoneInv(p) BY <1>2, <2>2, LoneBefore DEF AloneInv
    <3>2. Frame BY StepsKeepFrame
    <3>3. CASE UNCHANGED vars
      BY <3>1, <3>3 DEF vars, dbVars, LoneInv, Active, Running
    <3>4. ASSUME NEW q \in Procs, q # p,
                 \/ Boot(q) \/ Crash(q) \/ ReadVersion(q) \/ Misread(q) \/ Look(q) \/ Run(q)
                 \/ DropRevoked(q) \/ Applied(q) \/ Stamp(q) \/ Locked(q) \/ Pin(q)
          PROVE  LoneInv(p)'
      BY <1>2, <3>1, <3>2, <3>4, LoneOthers
    <3>5. CASE \/ Crash(p) \/ ReadVersion(p) \/ Look(p) \/ Run(p)
               \/ DropRevoked(p) \/ Applied(p) \/ Stamp(p) \/ Locked(p) \/ Pin(p)
      BY <1>2, <3>1, <3>5, LoneMover DEF AloneInv
    <3>6. ~Misread(p) BY <1>2 DEF Misread, Lone, TypeOK
    <3> QED BY <2>2, <3>3, <3>4, <3>5, <3>6 DEF Next
  <2> QED BY <2>1, <2>2
<1> QED BY <1>1, <1>2 DEF AloneInv

\* A boot on its own that reads the version ends up, whatever crashed before it,
\* except on a newer release's database and on an interrupted first migration.
THEOREM LoneBootsFinishAlways == Spec => []LoneBootsFinish
<1>1. Init => AloneInv
  BY IndexInvInitially, LoneInvInitially DEF AloneInv
<1>2. TypeOK /\ SchemaInv /\ AloneInv /\ [Next]_vars => AloneInv'
  BY AloneInvKept
<1>3. AloneInv => LoneBootsFinish
  BY DEF AloneInv, Lone, LoneInv, LoneBootsFinish
<1> QED BY <1>1, <1>2, <1>3, TypeCorrect, SchemaInvariant, PTL DEF Spec
===============================================================================
