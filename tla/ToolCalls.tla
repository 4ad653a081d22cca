------------------------------ MODULE ToolCalls ------------------------------
(***************************************************************************)
(* Tool invocations from the dispatcher to the tool and back to the audit  *)
(* log: ToolDispatcher.invoke (mcp/dispatcher.py) with the part of the     *)
(* host it uses (tools_for, slot_values_for, call of mcp/host.py), a       *)
(* server of the code-execution bundle, restarted while it is called, and  *)
(* the credential its instances are started with                           *)
(* (server/routers/settings.py, security/slot_resolver.py).                *)
(*                                                                         *)
(* A request is a task; a step is the code between two awaits.  invoke has *)
(* no await from the look-up of the tool to the call, so its checks and    *)
(* the choice of the instance are one step.  An instance is what the host  *)
(* keeps in its handle: the tool as its server described it, and the slot  *)
(* value it was started with.  That the owner task of an instance serves    *)
(* one call after the other is a matter of MCPHost; here each runs at will. *)
(***************************************************************************)
EXTENDS AuditLog

CONSTANTS
  Invocations,   \* calls of invoke, by a stage or by the debug endpoint
  Puts,          \* requests that store the credential
  Deletes,       \* requests that delete it
  Clears,        \* administrators that clear the audit log, one request at a time
  Values,        \* values of the credential
  FromEnv,       \* the value in the environment of the process, or None
  Capabilities,
  Allowed,       \* the capabilities the allow list permits
  None

ASSUME ToolCallsAssumption ==
  /\ MaxSecond \in Nat
  /\ Allowed \subseteq Capabilities
  /\ FromEnv \in Values \cup {None}
  /\ None \notin Values
  /\ Invocations \cap (Puts \cup Deletes \cup Clears) = {}
  /\ Puts \cap (Deletes \cup Clears) = {} /\ Deletes \cap Clears = {}

Requests == Invocations \cup Puts \cup Deletes \cup Clears

Instances == [lists : BOOLEAN, caps : SUBSET Capabilities, secret : Values \cup {None}]

Outcomes == {"none", "ok", "refused", "invalid", "failed", "not_found", "forbidden",
             "not_running", "unsupported", "conflict", "unlogged", "abandoned"}

\* What the caller passed under a key of SECRET_KEYS, and under the others.
Arguments == [secret : SUBSET Values, ordinary : SUBSET Values]

\* The values an event shows: in the text of the result, in the arguments, and in
\* the reason of a refusal.
Payloads == [text : SUBSET Values, args : SUBSET Values, reason : SUBSET Values]

NoValues == [text |-> {}, args |-> {}, reason |-> {}]

Events == [by : Requests, kind : Outcomes, payload : Payloads]

VARIABLES
  pc,         \* pc[r]: where the task of r is
  outcome,    \* outcome[r]: what r ends with
  sent,       \* sent[i]: the instance the call of i was sent to, once it is
  args,       \* args[i]: the arguments it was sent with
  scrub,      \* scrub[i]: the slot values to redact, read before the call
  container,  \* container[i]: the docker container of i
  lost,       \* history: calls whose session died while their program ran
  stored,     \* the row of the credential
  found,      \* found[r]: r, a put or delete, read a row
  inst        \* the running instance

taskVars == <<pc, outcome, sent, args, scrub, container, lost, found>>
hostVars == <<stored, inst>>
vars     == <<taskVars, hostVars, auditVars>>

TypeOK ==
  /\ pc \in [Requests -> {"idle", "calling", "running", "writing", "emitting", "done"}]
  /\ outcome \in [Requests -> Outcomes]
  /\ sent \in [Invocations -> SUBSET Instances]
  /\ args \in [Invocations -> Arguments]
  /\ scrub \in [Invocations -> SUBSET (Values \cup {None})]
  /\ container \in [Invocations -> {"none", "running", "gone"}] /\ lost \subseteq Invocations
  /\ found \in [Puts \cup Deletes -> BOOLEAN]
  /\ stored \in Values \cup {None}
  /\ inst \subseteq Instances /\ \A x, y \in inst : x = y
  /\ second \in 0..MaxSecond
  /\ waiting \subseteq Events /\ log \subseteq Events
  /\ DOMAIN archive \subseteq 0..MaxSecond
  /\ \A t \in DOMAIN archive : archive[t] \subseteq Events
  /\ appended \subseteq Requests /\ unwritten \subseteq Requests

Init ==
  /\ AuditInit
  /\ pc = [r \in Requests |-> "idle"]
  /\ outcome = [r \in Requests |-> "none"]
  /\ sent = [i \in Invocations |-> {}]
  /\ args = [i \in Invocations |-> [secret |-> {}, ordinary |-> {}]]
  /\ scrub = [i \in Invocations |-> {}]
  /\ container = [i \in Invocations |-> "none"] /\ lost = {}
  /\ found = [r \in Puts \cup Deletes |-> FALSE]
  /\ stored = None /\ inst = {}

-----------------------------------------------------------------------------
(* Tasks and their events *)

Moves(r, from, to) ==
  /\ pc[r] = from
  /\ pc' = [pc EXCEPT ![r] = to]

\* r ends without an event.
Ends(r, from, how) ==
  /\ Moves(r, from, "done")
  /\ outcome' = [outcome EXCEPT ![r] = how]
  /\ UNCHANGED auditVars

\* r emits its event and waits for its handler.
Emits(r, from, how, payload) ==
  /\ Moves(r, from, "emitting")
  /\ outcome' = [outcome EXCEPT ![r] = how]
  /\ Emit([by |-> r, kind |-> how, payload |-> payload])
  /\ UNCHANGED <<second, log, archive, appended, unwritten>>

\* The handler has run: r returns or raises what it was about to.  An exception of
\* the handler takes the place of both.
Resume(r) ==
  /\ pc[r] = "emitting" /\ ~Pending(r)
  /\ pc' = [pc EXCEPT ![r] = "done"]
  /\ outcome' = IF r \in unwritten THEN [outcome EXCEPT ![r] = "unlogged"] ELSE outcome
  /\ UNCHANGED <<sent, args, scrub, container, lost, found, hostVars, auditVars>>

\* The task of an invocation is cancelled; its container is not.
Abandon(i) ==
  /\ pc[i] \in {"calling", "running", "emitting"}
  /\ pc' = [pc EXCEPT ![i] = "done"]
  /\ outcome' = [outcome EXCEPT ![i] = "abandoned"]
  /\ Withdraw(i)
  /\ UNCHANGED <<sent, args, scrub, container, lost, found, hostVars,
                 second, log, archive, appended, unwritten>>

-----------------------------------------------------------------------------
(* ToolDispatcher.invoke *)

\* The debug endpoint finds no server the caller may see, or none it may use.
TurnedAway(i) == \E how \in {"not_found", "forbidden"} : Ends(i, "idle", how)

NotRunning(i) == inst = {} /\ Ends(i, "idle", "not_running")

NotFound(i) ==
  \E x \in inst : ~x.lists /\ Ends(i, "idle", "not_found")

\* The tool must advertise the capability of the call, and the allow list must
\* permit it.
Admissible(x, c) == x.lists /\ c \in x.caps /\ c \in Allowed

Refuse(i, c) ==
  \E x \in inst : x.lists /\ ~Admissible(x, c) /\ Emits(i, "idle", "refused", NoValues)

\* redact_args masks what is under a secret key, and nothing else.
RedactArgs(a) == a.ordinary

\* jsonschema rejects the arguments.  Its message may quote any of them.
RejectArgs(i, c) ==
  \E x \in inst, a \in Arguments :
    /\ Admissible(x, c)
    /\ \E quoted \in SUBSET (a.secret \cup a.ordinary) :
         Emits(i, "idle", "invalid",
               [text |-> {}, args |-> RedactArgs(a), reason |-> quoted])

\* The slot values are read and the request is sent to the owner task of the
\* same handle.
Send(i, c) ==
  \E x \in inst, a \in Arguments :
    /\ Admissible(x, c)
    /\ Moves(i, "idle", "calling")
    /\ sent' = [sent EXCEPT ![i] = {x}]
    /\ args' = [args EXCEPT ![i] = a]
    /\ scrub' = [scrub EXCEPT ![i] = {x.secret}]
    /\ UNCHANGED <<outcome, auditVars>>

\* Each route to invoke: a stage names a capability; the debug endpoint takes the
\* first one the tool advertises, or one no tool has.
Invoke(i) ==
  /\ \/ /\ \/ TurnedAway(i) \/ NotRunning(i) \/ NotFound(i)
           \/ \E c \in Capabilities : Refuse(i, c) \/ RejectArgs(i, c)
        /\ UNCHANGED <<sent, args, scrub>>
     \/ \E c \in Capabilities : Send(i, c)
  /\ UNCHANGED <<container, lost, found, hostVars>>

\* What a tool may write: it knows the slot value of its instance and what it was
\* passed.
Texts(i) ==
  SUBSET (({x.secret : x \in sent[i]} \ {None}) \cup args[i].secret \cup args[i].ordinary)

\* Mutant: the values to redact are read after the call, from the instance that
\* runs then.
RedactLate(i, text) == text \ {x.secret : x \in inst}

\* redact_text with the values read before the call.
Redact(i, text) == text \ scrub[i]

\* The host's call returned a result: for mcp.tool.called its text is redacted by
\* the slot values and the arguments by their keys.
Called(i, text) ==
  Emits(i, pc[i], "ok",
        [text |-> Redact(i, text), args |-> RedactArgs(args[i]), reason |-> {}])

\* ToolExecutionFailed, whichever side raised: mcp.tool.error, and the exception.
Failed(i) ==
  Emits(i, pc[i], "failed", [text |-> {}, args |-> RedactArgs(args[i]), reason |-> {}])

-----------------------------------------------------------------------------
(* The tool: code.exec in a container, and what else a call can end with *)

\* docker is on the PATH and its daemon answers: the container starts.
RunContainer(i) ==
  /\ Moves(i, "calling", "running")
  /\ container' = [container EXCEPT ![i] = "running"]
  /\ UNCHANGED <<outcome, lost, auditVars>>

\* The program ended: its streams and exit code are the result, or an error
\* when the exit code is not 0 and its stderr looks like docker's.
ProgramEnds(i) ==
  /\ pc[i] = "running"
  /\ container' = [container EXCEPT ![i] = "gone"]
  /\ (\E text \in Texts(i) : Called(i, text)) \/ Failed(i)
  /\ UNCHANGED lost

\* Mutant: the timeout of the client is raised instead of answered.
RaiseTimeout(i) ==
  /\ pc[i] = "running"
  /\ Failed(i)
  /\ UNCHANGED <<container, lost>>

\* The host-side timeout kills the docker client, which leaves the container.
TimedOut(i) ==
  /\ pc[i] = "running"
  /\ \E text \in Texts(i) : Called(i, text)
  /\ UNCHANGED <<container, lost>>

\* The session of the server dies, with its process or without it: the owner task
\* replies with the exception or ends without a reply.  The container is docker's.
SessionDies(i) ==
  /\ pc[i] = "running"
  /\ Failed(i) \/ Ends(i, "running", "not_running")
  /\ lost' = lost \cup {i}
  /\ UNCHANGED container

\* No docker, no daemon, or any failure of another tool or of the session; a
\* stopped instance; a result with content the host does not know, which raises
\* past the dispatcher.
CallFails(i) ==
  /\ pc[i] = "calling"
  /\ Failed(i) \/ Ends(i, "calling", "not_running") \/ Ends(i, "calling", "unsupported")
  /\ UNCHANGED <<container, lost>>

Execute(i) ==
  /\ RunContainer(i) \/ ProgramEnds(i) \/ TimedOut(i) \/ SessionDies(i) \/ CallFails(i)
  /\ UNCHANGED <<sent, args, scrub, found, hostVars>>

\* A container whose call is over ends when its program does.
ContainerEnds(i) ==
  /\ pc[i] \notin {"calling", "running"} /\ container[i] = "running"
  /\ container' = [container EXCEPT ![i] = "gone"]
  /\ UNCHANGED <<pc, outcome, sent, args, scrub, lost, found, hostVars, auditVars>>

-----------------------------------------------------------------------------
(* The credential and the instances started with it *)

\* A put or delete looks for the row.
ReadSlot(r) ==
  /\ found' = [found EXCEPT ![r] = stored # None]
  /\ IF r \in Deletes /\ stored = None
       THEN Ends(r, "idle", "not_found")
       ELSE Moves(r, "idle", "writing") /\ UNCHANGED <<outcome, auditVars>>
  /\ UNCHANGED <<sent, args, scrub, container, lost, hostVars>>

\* The commit of a put: an update of a row that is gone, and an insert of a row
\* that has come, raise.
StoreSlot(r, v) ==
  /\ IF found[r] = (stored # None)
       THEN stored' = v /\ Emits(r, "writing", "ok", NoValues)
       ELSE Ends(r, "writing", "conflict") /\ UNCHANGED stored
  /\ UNCHANGED <<sent, args, scrub, container, lost, found, inst>>

\* The commit of a delete; a row that is gone is only warned about.
EraseSlot(r) ==
  /\ stored' = None
  /\ Emits(r, "writing", "ok", NoValues)
  /\ UNCHANGED <<sent, args, scrub, container, lost, found, inst>>

\* Mutant: a start does not ask whether an instance runs.
StartBeside(lists, caps) ==
  /\ inst' = inst \cup {[lists |-> lists, caps |-> caps,
                        secret |-> IF stored # None THEN stored ELSE FromEnv]}
  /\ UNCHANGED <<taskVars, stored, auditVars>>

\* A start resolves the slot, the row or else the environment, opens the session,
\* lists the tools and publishes the handle.  A change of the row meanwhile is as
\* one after it; the server may list the tool with other capabilities than its last
\* instance did, or not at all.
Start(lists, caps) ==
  /\ inst = {}
  /\ inst' = {[lists |-> lists, caps |-> caps,
               secret |-> IF stored # None THEN stored ELSE FromEnv]}
  /\ UNCHANGED <<taskVars, stored, auditVars>>

\* The handle is popped; calls already sent run on.
StopInstance ==
  /\ inst # {}
  /\ inst' = {}
  /\ UNCHANGED <<taskVars, stored, auditVars>>

\* An administrator clears the log, for the first time or again; the event of the
\* clear follows in the new one.  What came of the last one's event is forgotten.
ClearLog(r) ==
  /\ ArchiveLog
  /\ Moves(r, pc[r], "emitting") /\ pc[r] # "emitting"
  /\ outcome' = [outcome EXCEPT ![r] = "ok"]
  /\ Emit([by |-> r, kind |-> "ok", payload |-> NoValues])
  /\ appended' = appended \ {r} /\ unwritten' = unwritten \ {r}
  /\ UNCHANGED <<sent, args, scrub, container, lost, found, hostVars, second>>

Bus ==
  /\ \/ \E e \in waiting : WriteLine(e) \/ WriteFails(e)
     \/ Tick
  /\ UNCHANGED <<taskVars, hostVars>>

Next ==
  \/ \E i \in Invocations : Invoke(i) \/ Execute(i) \/ ContainerEnds(i) \/ Abandon(i)
  \/ \E r \in Puts \cup Deletes : ReadSlot(r)
  \/ \E r \in Puts, v \in Values : StoreSlot(r, v)
  \/ \E r \in Deletes : EraseSlot(r)
  \/ \E r \in Clears : ClearLog(r)
  \/ \E r \in Requests : Resume(r)
  \/ StopInstance
  \/ \E caps \in SUBSET Capabilities : Start(TRUE, caps)
  \/ Start(FALSE, {})
  \/ Bus

Spec == Init /\ [][Next]_vars

(***************************************************************************)
(* Properties                                                              *)
(***************************************************************************)
\* The slot value of the instance that served a call is on its line, in the log, in
\* an archive or on its way there, only where the caller passed it himself under a key
\* that is not secret; the text of the result never holds it, also when the
\* credential was replaced and the server restarted while the call was running, or
\* when the tool was passed the value and repeats it.  Of a call whose
\* arguments were rejected nothing is promised: nothing served it.
Scrubbed(lines) ==
  \A e \in lines : e.by \in Invocations => \A x \in sent[e.by] :
    /\ x.secret \notin e.payload.text \cup e.payload.reason
    /\ x.secret \in e.payload.args => x.secret \in args[e.by].ordinary

RecordsAreScrubbed ==
  Scrubbed(waiting) /\ Scrubbed(log) /\ \A t \in DOMAIN archive : Scrubbed(archive[t])

\* When a task ends with an outcome that has an event, the event was written before
\* its caller knows: nobody is told of an execution, or of its failure, that is not
\* on record.  A caller whose event could not be written is told so, whatever came
\* of the call.  The outcomes without an event are named; of those "not_running" may
\* have run the tool, and so may "unsupported" and "abandoned".
EndsOnRecord ==
  \A r \in Requests : pc[r] = "done" =>
    /\ outcome[r] \in {"ok", "refused", "invalid", "failed"} => r \in appended \ unwritten
    /\ outcome[r] = "unlogged" => r \in unwritten
    /\ outcome[r] \in {"not_found", "forbidden", "not_running", "unsupported", "conflict"}
         => r \notin appended \cup unwritten

\* What a clear in this second would replace.
Replaceable == UNION {Lines(archive[t]) : t \in DOMAIN archive \cap {second}}

\* What was written stays on disk, in the log or in an archive, however often the log
\* is cleared.  The code's exception is a second clear in the same second: it replaces
\* the archive of the first, and no other.
RecordsKept ==
  [][OnDisk \subseteq OnDisk' \cup Replaceable]_vars

\* A container that still runs when its call is over has one of three causes: the
\* tool answered, on its timeout (the answer is lost when it cannot be logged); the task
\* was cancelled; or the session died while the program ran.  No other failure that a
\* caller would try again leaves one behind.
LeftContainersHaveACause ==
  \A i \in Invocations \ lost :
    container[i] = "running" /\ pc[i] \notin {"calling", "running"}
      => outcome[i] \in {"ok", "unlogged", "abandoned"}
==============================================================================
