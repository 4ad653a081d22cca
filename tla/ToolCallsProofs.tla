--------------------------- MODULE ToolCallsProofs ---------------------------
(***************************************************************************)
(* Proofs about ToolCalls: for every set of requests, of values and of     *)
(* capabilities, and for every allow list, the safety properties of the    *)
(* run and the action property of the audit log.                       *)
(*                                                                         *)
(* Steps are first sorted by their effect on what an invariant speaks of,  *)
(* so that an invariant is proved once per effect and not once per action. *)
(***************************************************************************)
EXTENDS ToolCalls, TLAPS

Recorded   == {"ok", "refused", "invalid", "failed"}
Unrecorded == {"not_found", "forbidden", "not_running", "unsupported", "conflict"}
Early      == {"idle", "calling", "running", "writing"}

\* The parts of the state the record of a request is kept in.
recordVars == <<pc, outcome, waiting, appended, unwritten>>

\* r goes on without an event.
Continues(r) ==
  /\ pc[r] \in {"idle", "calling"}
  /\ \E to \in {"calling", "running", "writing"} : pc' = [pc EXCEPT ![r] = to]
  /\ UNCHANGED <<outcome, waiting, appended, unwritten>>

\* r ends without an event.
EndsSilently(r) ==
  /\ pc[r] \in Early
  /\ pc' = [pc EXCEPT ![r] = "done"]
  /\ \E how \in Unrecorded : outcome' = [outcome EXCEPT ![r] = how]
  /\ UNCHANGED <<waiting, appended, unwritten>>

\* r emits the event of its outcome.
EndsLoudly(r) ==
  /\ pc' = [pc EXCEPT ![r] = "emitting"]
  /\ \E how \in Recorded, payload \in Payloads :
       /\ outcome' = [outcome EXCEPT ![r] = how]
       /\ waiting' = waiting \cup {[by |-> r, kind |-> how, payload |-> payload]}
  /\ \/ UNCHANGED <<appended, unwritten>>
     \/ appended' = appended \ {r} /\ unwritten' = unwritten \ {r}

Returns(r) ==
  /\ pc[r] = "emitting" /\ ~Pending(r)
  /\ pc' = [pc EXCEPT ![r] = "done"]
  /\ outcome' = IF r \in unwritten THEN [outcome EXCEPT ![r] = "unlogged"] ELSE outcome
  /\ UNCHANGED <<waiting, appended, unwritten>>

Abandoned(r) ==
  /\ pc' = [pc EXCEPT ![r] = "done"]
  /\ outcome' = [outcome EXCEPT ![r] = "abandoned"]
  /\ waiting' = {e \in waiting : e.by # r}
  /\ UNCHANGED <<appended, unwritten>>

\* The handler of e runs, and writes its line or raises.
Handled(e) ==
  /\ e \in waiting
  /\ waiting' = waiting \ {e}
  /\ \/ appended' = appended \cup {e.by} /\ unwritten' = unwritten
     \/ unwritten' = unwritten \cup {e.by} /\ appended' = appended
  /\ UNCHANGED <<pc, outcome>>

RecordEffect ==
  \/ \E r \in Requests : \/ Continues(r) \/ EndsSilently(r) \/ EndsLoudly(r)
                         \/ Returns(r) \/ Abandoned(r)
  \/ \E e \in waiting : Handled(e)
  \/ UNCHANGED recordVars

\* The payload of a call's event holds values of the slots and of the arguments.
LEMMA PayloadsOfCalls ==
  ASSUME TypeOK, NEW i \in Invocations
  PROVE  /\ \A text \in Texts(i) :
              [text |-> Redact(i, text), args |-> RedactArgs(args[i]), reason |-> {}] \in Payloads
         /\ [text |-> {}, args |-> RedactArgs(args[i]), reason |-> {}] \in Payloads
<1>1. \A x \in sent[i] : x.secret \in Values \cup {None}
  BY DEF TypeOK, Instances
<1>2. args[i].secret \subseteq Values /\ args[i].ordinary \subseteq Values
  BY DEF TypeOK, Arguments
<1>3. \A text \in Texts(i) : Redact(i, text) \in SUBSET Values
  BY <1>1, <1>2 DEF Texts, Redact
<1> QED BY <1>2, <1>3 DEF Payloads, RedactArgs

\* An invocation that does not come to the tool ends without an event, or emits one
\* without a text.
LEMMA Refusals ==
  ASSUME NEW i \in Invocations, Invoke(i), \A c \in Capabilities : ~Send(i, c)
  PROVE  /\ UNCHANGED <<sent, args, scrub, container, lost, found, hostVars>>
         /\ \/ \E how \in Unrecorded : Ends(i, "idle", how)
            \/ \E how \in Recorded, payload \in Payloads :
                 payload.text = {} /\ Emits(i, "idle", how, payload)
<1>1. ASSUME NEW c \in Capabilities, Refuse(i, c)
      PROVE  \E how \in Recorded, payload \in Payloads :
               payload.text = {} /\ Emits(i, "idle", how, payload)
  <2>1. NoValues \in Payloads /\ NoValues.text = {} BY DEF NoValues, Payloads
  <2>2. Emits(i, "idle", "refused", NoValues) BY <1>1 DEF Refuse
  <2> QED BY <2>1, <2>2 DEF Recorded
<1>2. ASSUME NEW c \in Capabilities, RejectArgs(i, c)
      PROVE  \E how \in Recorded, payload \in Payloads :
               payload.text = {} /\ Emits(i, "idle", how, payload)
  <2>0. PICK a \in Arguments : \E quoted \in SUBSET (a.secret \cup a.ordinary) :
          Emits(i, "idle", "invalid",
                [text |-> {}, args |-> RedactArgs(a), reason |-> quoted])
    BY <1>2 DEF RejectArgs
  <2>1. PICK quoted \in SUBSET (a.secret \cup a.ordinary) :
          Emits(i, "idle", "invalid",
                [text |-> {}, args |-> RedactArgs(a), reason |-> quoted])
    BY <2>0
  <2>2. [text |-> {}, args |-> RedactArgs(a), reason |-> quoted] \in Payloads
    BY DEF Payloads, Arguments, RedactArgs
  <2> DEFINE payload == [text |-> {}, args |-> RedactArgs(a), reason |-> quoted]
  <2>3. payload.text = {} OBVIOUS
  <2> QED BY <2>1, <2>2, <2>3 DEF Recorded
<1>3. TurnedAway(i) \/ NotRunning(i) \/ NotFound(i)
        => \E how \in Unrecorded : Ends(i, "idle", how)
  BY DEF TurnedAway, NotRunning, NotFound, Unrecorded
<1> QED BY <1>1, <1>2, <1>3 DEF Invoke

\* A call that was sent starts its container, ends without an event, or with one
\* whose text is free of the values read before it.
LEMMA Executions ==
  ASSUME TypeOK, NEW i \in Invocations, Execute(i)
  PROVE  /\ UNCHANGED <<sent, args, scrub, found, hostVars>>
         /\ \/ RunContainer(i)
            \/ /\ pc[i] \in {"calling", "running"}
               /\ \/ \E how \in Unrecorded : Ends(i, pc[i], how)
                  \/ \E how \in Recorded, payload \in Payloads :
                       /\ payload.text \cap scrub[i] = {} /\ payload.reason = {}
                       /\ payload.args = args[i].ordinary
                       /\ Emits(i, pc[i], how, payload)
<1> DEFINE Loud == \E how \in Recorded, payload \in Payloads :
                     /\ payload.text \cap scrub[i] = {} /\ payload.reason = {}
                     /\ payload.args = args[i].ordinary
                     /\ Emits(i, pc[i], how, payload)
<1>1. ASSUME NEW text \in Texts(i), Called(i, text) PROVE Loud
  <2> DEFINE payload == [text |-> Redact(i, text), args |-> RedactArgs(args[i]), reason |-> {}]
  <2>1. payload \in Payloads BY PayloadsOfCalls
  <2>2. /\ payload.text \cap scrub[i] = {} /\ payload.reason = {}
        /\ payload.args = args[i].ordinary
    BY DEF Redact, RedactArgs
  <2>3. Emits(i, pc[i], "ok", payload) BY <1>1 DEF Called
  <2> HIDE DEF payload
  <2> QED BY <2>1, <2>2, <2>3 DEF Recorded
<1>2. ASSUME Failed(i) PROVE Loud
  <2> DEFINE payload == [text |-> {}, args |-> RedactArgs(args[i]), reason |-> {}]
  <2>1. payload \in Payloads BY PayloadsOfCalls
  <2>2. /\ payload.text \cap scrub[i] = {} /\ payload.reason = {}
        /\ payload.args = args[i].ordinary
    BY DEF RedactArgs
  <2>3. Emits(i, pc[i], "failed", payload) BY <1>2 DEF Failed
  <2> HIDE DEF payload
  <2> QED BY <2>1, <2>2, <2>3 DEF Recorded
<1> HIDE DEF Loud
<1>3. CASE ProgramEnds(i) \/ TimedOut(i)
  <2>1. Loud BY <1>1, <1>2, <1>3 DEF ProgramEnds, TimedOut
  <2> QED BY <1>3, <2>1 DEF Execute, ProgramEnds, TimedOut, Loud
<1>4. CASE SessionDies(i)
  <2>1. Loud \/ Ends(i, pc[i], "not_running") BY <1>2, <1>4 DEF SessionDies
  <2> QED BY <1>4, <2>1 DEF Execute, SessionDies, Loud, Unrecorded
<1>5. CASE CallFails(i)
  <2>1. Loud \/ Ends(i, pc[i], "not_running") \/ Ends(i, pc[i], "unsupported")
    BY <1>2, <1>5 DEF CallFails
  <2> QED BY <1>5, <2>1 DEF Execute, CallFails, Loud, Unrecorded
<1> QED BY <1>3, <1>4, <1>5 DEF Execute

\* Every step has one of the effects on the records.
LEMMA Effects == ASSUME TypeOK, [Next]_vars PROVE RecordEffect
<1> USE DEF Requests
<1>1. ASSUME NEW i \in Invocations, NEW from \in {"idle", "calling", "running"},
             NEW how \in Unrecorded, Ends(i, from, how)
      PROVE  RecordEffect
  <2>1. EndsSilently(i) BY <1>1 DEF Ends, Moves, EndsSilently, Early, auditVars
  <2> QED BY <2>1 DEF RecordEffect
<1>2. ASSUME NEW i \in Invocations, NEW from, NEW how \in Recorded, NEW payload \in Payloads,
             Emits(i, from, how, payload)
      PROVE  RecordEffect
  <2>1. EndsLoudly(i) BY <1>2 DEF Emits, Emit, Moves, EndsLoudly
  <2> QED BY <2>1 DEF RecordEffect
<1>3. ASSUME NEW i \in Invocations, Invoke(i) PROVE RecordEffect
  <2>1. ASSUME NEW c \in Capabilities, Send(i, c) PROVE RecordEffect
    <3>1. Continues(i) BY <2>1 DEF Send, Moves, Continues, auditVars
    <3> QED BY <3>1 DEF RecordEffect
  <2>2. CASE \A c \in Capabilities : ~Send(i, c)
    BY <1>1, <1>2, <1>3, <2>2, Refusals
  <2> QED BY <2>1, <2>2
<1>4. ASSUME NEW i \in Invocations, Execute(i) PROVE RecordEffect
  <2>1. CASE RunContainer(i)
    <3>1. Continues(i) BY <2>1 DEF RunContainer, Moves, Continues, auditVars
    <3> QED BY <3>1 DEF RecordEffect
  <2> QED BY <1>1, <1>2, <1>4, <2>1, Executions
<1>5. ASSUME NEW i \in Invocations, ContainerEnds(i) PROVE RecordEffect
  BY <1>5 DEF ContainerEnds, RecordEffect, recordVars, auditVars
<1>6. ASSUME NEW i \in Invocations, Abandon(i) PROVE RecordEffect
  <2>1. Abandoned(i) BY <1>6 DEF Abandon, Withdraw, Abandoned
  <2> QED BY <2>1 DEF RecordEffect
<1>7. ASSUME NEW r \in Puts \cup Deletes, ReadSlot(r) PROVE RecordEffect
  <2>1. Continues(r) \/ EndsSilently(r)
    BY <1>7 DEF ReadSlot, Ends, Moves, Continues, EndsSilently, Early, Unrecorded, auditVars
  <2> QED BY <2>1 DEF RecordEffect
<1>8. ASSUME NEW r \in Puts, NEW v \in Values, StoreSlot(r, v) PROVE RecordEffect
  <2>1. NoValues \in Payloads BY DEF NoValues, Payloads
  <2>2. EndsLoudly(r) \/ EndsSilently(r)
    BY <1>8, <2>1 DEF StoreSlot, Ends, Emits, Emit, Moves, EndsLoudly, EndsSilently, Early,
                Recorded, Unrecorded, auditVars
  <2> QED BY <2>2 DEF RecordEffect
<1>9. ASSUME NEW r \in Deletes, EraseSlot(r) PROVE RecordEffect
  <2>1. NoValues \in Payloads BY DEF NoValues, Payloads
  <2>2. EndsLoudly(r) BY <1>9, <2>1 DEF EraseSlot, Emits, Emit, Moves, EndsLoudly, Recorded
  <2> QED BY <2>2 DEF RecordEffect
<1>10. ASSUME NEW r \in Clears, ClearLog(r) PROVE RecordEffect
  <2>1. NoValues \in Payloads BY DEF NoValues, Payloads
  <2>2. EndsLoudly(r) BY <1>10, <2>1 DEF ClearLog, Emit, Moves, EndsLoudly, Recorded
  <2> QED BY <2>2 DEF RecordEffect
<1>11. ASSUME NEW r \in Requests, Resume(r) PROVE RecordEffect
  <2>1. Returns(r) BY <1>11 DEF Resume, Returns, auditVars
  <2> QED BY <2>1 DEF RecordEffect
<1>12. CASE StopInstance
  BY <1>12 DEF StopInstance, RecordEffect, recordVars, taskVars, auditVars
<1>13. ASSUME NEW l, NEW caps, Start(l, caps) PROVE RecordEffect
  BY <1>13 DEF Start, RecordEffect, recordVars, taskVars, auditVars
<1>14. CASE Bus
  <2>1. ASSUME NEW e \in waiting, WriteLine(e) \/ WriteFails(e) PROVE RecordEffect
    <3>1. Handled(e) BY <1>14, <2>1 DEF Bus, WriteLine, WriteFails, Handled, taskVars
    <3> QED BY <3>1 DEF RecordEffect
  <2>2. CASE Tick
    BY <1>14, <2>2 DEF Bus, Tick, RecordEffect, recordVars, taskVars
  <2> QED BY <1>14, <2>1, <2>2 DEF Bus
<1>15. CASE UNCHANGED vars
  BY <1>15 DEF vars, taskVars, auditVars, RecordEffect, recordVars
<1> QED
  BY <1>3, <1>4, <1>5, <1>6, <1>7, <1>8, <1>9, <1>10, <1>11, <1>12, <1>13, <1>14, <1>15 DEF Next

-----------------------------------------------------------------------------
(* Types *)

\* Every reachable state has its type; with it, at most one instance is published.
THEOREM TypeCorrect == Spec => []TypeOK
<1>1. Init => TypeOK
  BY ToolCallsAssumption DEF Init, AuditInit, TypeOK, Outcomes, Instances, Arguments
<1>2. TypeOK /\ [Next]_vars => TypeOK'
  <2> SUFFICES ASSUME TypeOK, [Next]_vars PROVE TypeOK'
    OBVIOUS
  <2> USE ToolCallsAssumption
  <2> USE DEF Requests, TypeOK, Outcomes
  <2>1. ASSUME NEW i \in Invocations, Invoke(i) PROVE TypeOK'
    <3>1. ASSUME NEW c \in Capabilities, Send(i, c) PROVE TypeOK'
      <4>1. PICK x \in inst, a \in Arguments :
              /\ sent' = [sent EXCEPT ![i] = {x}]
              /\ args' = [args EXCEPT ![i] = a]
              /\ scrub' = [scrub EXCEPT ![i] = {x.secret}]
        BY <3>1 DEF Send
      <4>2. x \in Instances /\ x.secret \in Values \cup {None} BY DEF Instances
      <4>3. /\ sent' \in [Invocations -> SUBSET Instances]
            /\ args' \in [Invocations -> Arguments]
            /\ scrub' \in [Invocations -> SUBSET (Values \cup {None})]
        BY <4>1, <4>2
      <4>4. UNCHANGED <<container, lost, found, hostVars>> BY <2>1 DEF Invoke
      <4> QED BY <3>1, <4>3, <4>4 DEF Send, Moves, auditVars, hostVars
    <3>2. CASE \A c \in Capabilities : ~Send(i, c)
      <4>1. UNCHANGED <<sent, args, scrub, container, lost, found, hostVars>>
        BY <2>1, <3>2, Refusals
      <4>2. CASE \E how \in Unrecorded : Ends(i, "idle", how)
        BY <4>1, <4>2 DEF Unrecorded, Ends, Moves, auditVars, hostVars
      <4>3. CASE \E how \in Recorded, payload \in Payloads : Emits(i, "idle", how, payload)
        BY <4>1, <4>3 DEF Recorded, Emits, Emit, Moves, hostVars, Events
      <4> QED BY <2>1, <3>2, <4>2, <4>3, Refusals
    <3> QED BY <3>1, <3>2
  <2>2. ASSUME NEW i \in Invocations, Execute(i) PROVE TypeOK'
    <3>1. UNCHANGED <<sent, args, scrub, found, hostVars>> BY <2>2 DEF Execute
    <3>2. /\ container' \in [Invocations -> {"none", "running", "gone"}]
          /\ lost' \subseteq Invocations
      BY <2>2 DEF Execute, RunContainer, ProgramEnds, TimedOut, SessionDies, CallFails
    <3>3. CASE RunContainer(i)
      BY <3>1, <3>2, <3>3 DEF RunContainer, Moves, auditVars, hostVars
    <3>4. CASE \E how \in Unrecorded : Ends(i, pc[i], how)
      BY <3>1, <3>2, <3>4 DEF Unrecorded, Ends, Moves, auditVars, hostVars
    <3>5. CASE \E how \in Recorded, payload \in Payloads : Emits(i, pc[i], how, payload)
      BY <3>1, <3>2, <3>5 DEF Recorded, Emits, Emit, Moves, hostVars, Events
    <3> QED BY <2>2, <3>3, <3>4, <3>5, Executions
  <2>3. ASSUME NEW i \in Invocations, ContainerEnds(i) PROVE TypeOK'
    BY <2>3 DEF ContainerEnds, auditVars, hostVars
  <2>4. ASSUME NEW i \in Invocations, Abandon(i) PROVE TypeOK'
    BY <2>4 DEF Abandon, Withdraw, hostVars
  <2>5. ASSUME NEW r \in Puts \cup Deletes, ReadSlot(r) PROVE TypeOK'
    BY <2>5 DEF ReadSlot, Ends, Moves, auditVars, hostVars
  <2>6. ASSUME NEW r \in Puts, NEW v \in Values, StoreSlot(r, v) PROVE TypeOK'
    <3>1. NoValues \in Payloads BY DEF NoValues, Payloads
    <3> QED BY <2>6, <3>1 DEF StoreSlot, Ends, Emits, Emit, Moves, auditVars, Events
  <2>7. ASSUME NEW r \in Deletes, EraseSlot(r) PROVE TypeOK'
    <3>1. NoValues \in Payloads BY DEF NoValues, Payloads
    <3> QED BY <2>7, <3>1 DEF EraseSlot, Emits, Emit, Moves, Events
  <2>8. ASSUME NEW r \in Clears, ClearLog(r) PROVE TypeOK'
    <3>1. archive' = archive \/ archive' = [t \in DOMAIN archive \cup {second} |->
                                              IF t = second THEN log ELSE archive[t]]
      BY <2>8 DEF ClearLog, ArchiveLog
    <3>2. /\ DOMAIN archive' \subseteq 0..MaxSecond
          /\ \A t \in DOMAIN archive' : archive'[t] \subseteq Events
      BY <3>1
    <3>3. waiting' \subseteq Events /\ log' \subseteq Events
      <4>1. NoValues \in Payloads BY DEF NoValues, Payloads
      <4> QED BY <2>8, <4>1 DEF ClearLog, ArchiveLog, Emit, Events
    <3> QED BY <2>8, <3>2, <3>3 DEF ClearLog, Moves, hostVars
  <2>9. ASSUME NEW r \in Requests, Resume(r) PROVE TypeOK'
    BY <2>9 DEF Resume, auditVars, hostVars
  <2>10. CASE StopInstance
    BY <2>10 DEF StopInstance, taskVars, auditVars
  <2>11. ASSUME NEW l \in BOOLEAN, NEW caps \in SUBSET Capabilities, Start(l, caps) PROVE TypeOK'
    BY <2>11 DEF Start, taskVars, auditVars, Instances
  <2>12. CASE Bus
    BY <2>12 DEF Bus, WriteLine, WriteFails, Tick, taskVars, hostVars, Events
  <2>13. CASE UNCHANGED vars
    BY <2>13 DEF vars, taskVars, hostVars, auditVars
  <2> QED
    BY <2>1, <2>2, <2>3, <2>4, <2>5, <2>6, <2>7, <2>8, <2>9, <2>10, <2>11, <2>12, <2>13 DEF Next
<1> QED BY <1>1, <1>2, PTL DEF Spec

-----------------------------------------------------------------------------
(* Records *)

\* A request that has not come to its event has none; one that waits for its
\* handler has an outcome with an event that is scheduled or was handled.
RecordInv ==
  /\ \A r \in Requests : pc[r] \in Early =>
       ~Pending(r) /\ r \notin appended \cup unwritten
  /\ \A r \in Requests : pc[r] = "emitting" =>
       outcome[r] \in Recorded /\ (~Pending(r) => r \in appended \cup unwritten)
  /\ \A r \in Requests : pc[r] = "done" => ~Pending(r)
  /\ EndsOnRecord

LEMMA RecordInvKept ==
  ASSUME TypeOK, RecordInv, [Next]_vars PROVE RecordInv'
<1> USE DEF RecordInv, EndsOnRecord, Pending, Recorded, Unrecorded, Early
<1>0. /\ pc \in [Requests -> {"idle", "calling", "running", "writing", "emitting", "done"}]
      /\ outcome \in [Requests -> Outcomes]
  BY DEF TypeOK
<1>1. ASSUME NEW r \in Requests, Continues(r) PROVE RecordInv'
  BY <1>0, <1>1 DEF Continues
<1>2. ASSUME NEW r \in Requests, EndsSilently(r) PROVE RecordInv'
  BY <1>0, <1>2 DEF EndsSilently
<1>3. ASSUME NEW r \in Requests, EndsLoudly(r) PROVE RecordInv'
  <2>1. PICK how \in Recorded, payload \in Payloads :
          /\ outcome' = [outcome EXCEPT ![r] = how]
          /\ waiting' = waiting \cup {[by |-> r, kind |-> how, payload |-> payload]}
    BY <1>3 DEF EndsLoudly
  <2> DEFINE e == [by |-> r, kind |-> how, payload |-> payload]
  <2>2. waiting' = waiting \cup {e} /\ e.by = r
    BY <2>1
  <2> HIDE DEF e
  <2>3. \A q \in Requests : Pending(q)' <=> Pending(q) \/ q = r
    BY <2>2
  <2> QED BY <1>0, <1>3, <2>1, <2>3 DEF EndsLoudly
<1>4. ASSUME NEW r \in Requests, Returns(r) PROVE RecordInv'
  BY <1>0, <1>4 DEF Returns
<1>5. ASSUME NEW r \in Requests, Abandoned(r) PROVE RecordInv'
  <2>1. ~Pending(r)' BY <1>5 DEF Abandoned
  <2>2. \A q \in Requests \ {r} : Pending(q)' <=> Pending(q) BY <1>5 DEF Abandoned
  <2> QED BY <1>0, <1>5, <2>1, <2>2 DEF Abandoned
<1>6. ASSUME NEW e \in waiting, Handled(e) PROVE RecordInv'
  <2>1. e.by \in Requests BY DEF TypeOK, Events
  <2>2. pc[e.by] = "emitting" BY <1>0, <2>1
  <2>3. e.by \in (appended \cup unwritten)' BY <1>6 DEF Handled
  <2>4. \A q \in Requests \ {e.by} : Pending(q)' <=> Pending(q) BY <1>6 DEF Handled
  <2>5. \A q \in Requests \ {e.by} : q \in (appended \cup unwritten)' <=> q \in appended \cup unwritten
    BY <1>6 DEF Handled
  <2> QED BY <1>0, <1>6, <2>1, <2>2, <2>3, <2>4, <2>5 DEF Handled
<1>7. CASE UNCHANGED recordVars
  BY <1>7 DEF recordVars
<1> QED BY <1>1, <1>2, <1>3, <1>4, <1>5, <1>6, <1>7, Effects DEF RecordEffect

\* A task that has ended has its event on record exactly when its outcome has one.
THEOREM EndsOnRecordAlways == Spec => []EndsOnRecord
<1>1. Init => RecordInv
  BY DEF Init, AuditInit, RecordInv, EndsOnRecord, Pending, Early
<1>2. TypeOK /\ RecordInv /\ [Next]_vars => RecordInv'
  BY RecordInvKept
<1>3. RecordInv => EndsOnRecord
  BY DEF RecordInv
<1> QED BY <1>1, <1>2, <1>3, TypeCorrect, PTL DEF Spec

-----------------------------------------------------------------------------
(* Redaction *)

\* The lines of the files, and the events on their way to one.
Files == waiting \cup log \cup UNION {archive[t] : t \in DOMAIN archive}

\* What a call redacts covers its instance's slot value; an event is that of a
\* request that has come to it; and it shows the value only as an argument.  The second
\* part is needed where a call is sent: it has no event yet that could hold the value.
ScrubInv ==
  /\ \A i \in Invocations : \A x \in sent[i] : x.secret \in scrub[i]
  /\ \A e \in Files : pc[e.by] \notin Early
  /\ \A i \in Invocations : pc[i] = "idle" => sent[i] = {}
  /\ Scrubbed(Files)

\* What a step does to the files: it sends a call, ends one with a redacted event,
\* emits the event of one that was not sent or of another request, or adds no line.
SendsCall == \E i \in Invocations, c \in Capabilities : Send(i, c) /\ UNCHANGED auditVars

EndsCall(i, payload) ==
  /\ payload.text \cap scrub[i] = {} /\ payload.reason = {}
  /\ payload.args = args[i].ordinary
  /\ \E how : Emits(i, pc[i], how, payload)
  /\ UNCHANGED <<sent, args, scrub>>

OtherEvent(r) ==
  /\ r \in Invocations => pc[r] = "idle"
  /\ pc' = [pc EXCEPT ![r] = "emitting"]
  /\ \E e : e.by = r /\ Files' \subseteq Files \cup {e}
  /\ UNCHANGED <<sent, args, scrub>>

NoEvent ==
  /\ Files' \subseteq Files
  /\ \A r \in Requests : (pc[r] \notin Early => pc'[r] \notin Early)
                         /\ (pc'[r] = "idle" => pc[r] = "idle")
  /\ UNCHANGED <<sent, args, scrub>>

FileEffect ==
  \/ SendsCall \/ NoEvent
  \/ \E i \in Invocations, payload \in Payloads : EndsCall(i, payload)
  \/ \E r \in Requests : OtherEvent(r)

LEMMA FilesOfEmit ==
  ASSUME NEW r, NEW from, NEW how, NEW payload, Emits(r, from, how, payload)
  PROVE  /\ pc' = [pc EXCEPT ![r] = "emitting"]
         /\ \E e : e.by = r /\ e.payload = payload /\ Files' = Files \cup {e}
<1> DEFINE e == [by |-> r, kind |-> how, payload |-> payload]
<1>1. e.by = r /\ e.payload = payload OBVIOUS
<1>2. waiting' = waiting \cup {e} /\ UNCHANGED <<log, archive>> BY DEF Emits, Emit
<1> HIDE DEF e
<1>3. Files' = Files \cup {e} BY <1>2 DEF Files
<1> QED BY <1>1, <1>3 DEF Emits, Moves

LEMMA FilesKept ==
  ASSUME UNCHANGED <<waiting, log, archive>> PROVE Files' = Files
BY DEF Files

LEMMA FileEffects ==
  ASSUME TypeOK, [Next]_vars PROVE FileEffect
<1>0. pc \in [Requests -> {"idle", "calling", "running", "writing", "emitting", "done"}]
  BY DEF TypeOK
<1> USE DEF Requests
<1>1. ASSUME NEW r \in Requests, NEW from \in Early, NEW how, Ends(r, from, how),
             UNCHANGED <<sent, args, scrub>>
      PROVE  NoEvent
  <2>1. Files' = Files BY <1>1, FilesKept DEF Ends, auditVars
  <2> QED BY <1>0, <1>1, <2>1 DEF Ends, Moves, NoEvent, Early
<1>2. ASSUME NEW r \in Requests, NEW from, NEW how, NEW payload, Emits(r, from, how, payload),
             r \in Invocations => from = "idle", UNCHANGED <<sent, args, scrub>>
      PROVE  OtherEvent(r)
  <2>1. pc[r] = from BY <1>2 DEF Emits, Moves
  <2> QED BY <1>2, <2>1, FilesOfEmit DEF OtherEvent
<1>3. ASSUME NEW i \in Invocations, Invoke(i) PROVE FileEffect
  <2>1. ASSUME NEW c \in Capabilities, Send(i, c) PROVE FileEffect
    BY <2>1 DEF Send, SendsCall, FileEffect
  <2>2. CASE \A c \in Capabilities : ~Send(i, c)
    <3>1. UNCHANGED <<sent, args, scrub>> BY <1>3, <2>2, Refusals
    <3>2. CASE \E how \in Unrecorded : Ends(i, "idle", how)
      BY <1>1, <3>1, <3>2 DEF FileEffect, Early
    <3>3. CASE \E how \in Recorded, payload \in Payloads : Emits(i, "idle", how, payload)
      BY <1>2, <3>1, <3>3 DEF FileEffect
    <3> QED BY <1>3, <2>2, <3>2, <3>3, Refusals
  <2> QED BY <2>1, <2>2
<1>4. ASSUME NEW i \in Invocations, Execute(i) PROVE FileEffect
  <2>1. UNCHANGED <<sent, args, scrub>> BY <1>4 DEF Execute
  <2>2. CASE RunContainer(i)
    <3>1. Files' = Files BY <2>2, FilesKept DEF RunContainer, auditVars
    <3> QED BY <1>0, <2>1, <2>2, <3>1 DEF RunContainer, Moves, NoEvent, FileEffect, Early
  <2>3. CASE \E how \in Unrecorded : pc[i] \in {"calling", "running"} /\ Ends(i, pc[i], how)
    BY <1>1, <2>1, <2>3 DEF FileEffect, Early
  <2>4. CASE \E how \in Recorded, payload \in Payloads :
               /\ payload.text \cap scrub[i] = {} /\ payload.reason = {}
               /\ payload.args = args[i].ordinary
               /\ Emits(i, pc[i], how, payload)
    BY <2>1, <2>4 DEF EndsCall, FileEffect
  <2> QED BY <1>4, <2>2, <2>3, <2>4, Executions
<1>5. ASSUME NEW i \in Invocations, ContainerEnds(i) PROVE FileEffect
  BY <1>5, FilesKept DEF ContainerEnds, auditVars, NoEvent, FileEffect
<1>6. ASSUME NEW i \in Invocations, Abandon(i) PROVE FileEffect
  <2>1. Files' \subseteq Files BY <1>6 DEF Abandon, Withdraw, Files
  <2> QED BY <1>0, <1>6, <2>1 DEF Abandon, NoEvent, FileEffect, Early
<1>7. ASSUME NEW r \in Puts \cup Deletes, ReadSlot(r) PROVE FileEffect
  <2>1. CASE Ends(r, "idle", "not_found")
    BY <1>1, <1>7, <2>1 DEF ReadSlot, FileEffect, Early
  <2>2. CASE Moves(r, "idle", "writing") /\ UNCHANGED auditVars
    BY <1>0, <1>7, <2>2, FilesKept DEF ReadSlot, Moves, auditVars, NoEvent, FileEffect, Early
  <2> QED BY <1>7, <2>1, <2>2 DEF ReadSlot
<1>8. ASSUME NEW r \in Puts, NEW v \in Values, StoreSlot(r, v) PROVE FileEffect
  <2>1. NoEvent \/ OtherEvent(r)
    BY <1>1, <1>2, <1>8, ToolCallsAssumption DEF StoreSlot, Early
  <2> QED BY <2>1 DEF FileEffect
<1>9. ASSUME NEW r \in Deletes, EraseSlot(r) PROVE FileEffect
  <2>1. OtherEvent(r) BY <1>2, <1>9, ToolCallsAssumption DEF EraseSlot
  <2> QED BY <2>1 DEF FileEffect
<1>10. ASSUME NEW r \in Clears, ClearLog(r) PROVE FileEffect
  <2> DEFINE e == [by |-> r, kind |-> "ok", payload |-> NoValues]
  <2>1. e.by = r /\ waiting' = waiting \cup {e} BY <1>10 DEF ClearLog, Emit
  <2> HIDE DEF e
  <2>2. ASSUME UNCHANGED <<log, archive>> PROVE Files' \subseteq Files \cup {e}
    BY <2>1, <2>2 DEF Files
  <2>3. ASSUME log' = {}, archive' = [t \in DOMAIN archive \cup {second} |->
                                       IF t = second THEN log ELSE archive[t]]
        PROVE  Files' \subseteq Files \cup {e}
    <3>1. \A t \in DOMAIN archive' : archive'[t] = log \/ (t \in DOMAIN archive /\ archive'[t] = archive[t])
      BY <2>3
    <3>2. UNION {archive'[t] : t \in DOMAIN archive'} \subseteq log \cup UNION {archive[t] : t \in DOMAIN archive}
      BY <3>1
    <3> QED BY <2>1, <2>3, <3>2 DEF Files
  <2>4. Files' \subseteq Files \cup {e} BY <1>10, <2>1, <2>2, <2>3 DEF ClearLog, ArchiveLog, Files
  <2>5. OtherEvent(r)
    BY <1>10, <2>1, <2>4, ToolCallsAssumption DEF ClearLog, Moves, OtherEvent
  <2> QED BY <2>5 DEF FileEffect
<1>11. ASSUME NEW r \in Requests, Resume(r) PROVE FileEffect
  BY <1>0, <1>11, FilesKept DEF Resume, auditVars, NoEvent, FileEffect, Early
<1>12. CASE StopInstance
  BY <1>12, FilesKept DEF StopInstance, taskVars, auditVars, NoEvent, FileEffect
<1>13. ASSUME NEW l, NEW caps, Start(l, caps) PROVE FileEffect
  BY <1>13, FilesKept DEF Start, taskVars, auditVars, NoEvent, FileEffect
<1>14. CASE Bus
  <2>1. Files' \subseteq Files BY <1>14 DEF Bus, WriteLine, WriteFails, Tick, Files
  <2> QED BY <1>14, <2>1 DEF Bus, taskVars, NoEvent, FileEffect
<1>15. CASE UNCHANGED vars
  BY <1>15, FilesKept DEF vars, taskVars, auditVars, NoEvent, FileEffect
<1> QED
  BY <1>3, <1>4, <1>5, <1>6, <1>7, <1>8, <1>9, <1>10, <1>11, <1>12, <1>13, <1>14, <1>15 DEF Next

LEMMA ScrubInvKept ==
  ASSUME TypeOK, ScrubInv, [Next]_vars PROVE ScrubInv'
<1>0. /\ pc \in [Requests -> {"idle", "calling", "running", "writing", "emitting", "done"}]
      /\ \A e \in Files : e.by \in Requests
  BY DEF TypeOK, Events, Files
<1> USE DEF ScrubInv, Scrubbed
<1>1. ASSUME NEW i \in Invocations, NEW c \in Capabilities, Send(i, c), UNCHANGED auditVars
      PROVE  ScrubInv'
  <2>1. PICK x \in inst, a \in Arguments :
          /\ sent' = [sent EXCEPT ![i] = {x}]
          /\ args' = [args EXCEPT ![i] = a]
          /\ scrub' = [scrub EXCEPT ![i] = {x.secret}]
    BY <1>1 DEF Send
  <2>2. /\ \A y \in sent'[i] : y.secret \in scrub'[i]
        /\ \A j \in Invocations \ {i} :
             sent'[j] = sent[j] /\ scrub'[j] = scrub[j] /\ args'[j] = args[j]
    BY <2>1 DEF TypeOK
  <2>3. pc[i] = "idle" /\ pc' = [pc EXCEPT ![i] = "calling"] BY <1>1 DEF Send, Moves
  <2>4. \A e \in Files : e.by # i BY <2>3 DEF Early
  <2>5. Files' = Files BY <1>1, FilesKept DEF auditVars
  <2> QED BY <1>0, <2>2, <2>3, <2>4, <2>5 DEF Requests
<1>2. ASSUME NEW i \in Invocations, NEW payload \in Payloads, EndsCall(i, payload) PROVE ScrubInv'
  <2>1. PICK e : e.by = i /\ e.payload = payload /\ Files' = Files \cup {e}
    BY <1>2, FilesOfEmit DEF EndsCall
  <2>2. pc' = [pc EXCEPT ![i] = "emitting"] BY <1>2, FilesOfEmit DEF EndsCall
  <2>3. /\ \A x \in sent[i] : x.secret \notin payload.text \cup payload.reason
        /\ payload.args = args[i].ordinary
    BY <1>2 DEF EndsCall
  <2> QED BY <1>0, <1>2, <2>1, <2>2, <2>3 DEF EndsCall, Early, Requests
<1>3. ASSUME NEW r \in Requests, OtherEvent(r) PROVE ScrubInv'
  <2>1. PICK e : e.by = r /\ Files' \subseteq Files \cup {e}
    BY <1>3 DEF OtherEvent
  <2>2. r \in Invocations => sent[r] = {} BY <1>3 DEF OtherEvent
  <2> QED BY <1>0, <1>3, <2>1, <2>2 DEF OtherEvent, Early
<1>4. CASE NoEvent
  BY <1>0, <1>4 DEF NoEvent, Requests
<1> QED BY <1>1, <1>2, <1>3, <1>4, FileEffects DEF FileEffect, SendsCall

\* No line, in the log or in an archive, holds the slot value of the instance that
\* served the call, except as an argument under an ordinary key.
THEOREM RecordsAreScrubbedAlways == Spec => []RecordsAreScrubbed
<1>1. Init => ScrubInv
  <2>1. Init => Files = {} BY DEF Init, AuditInit, Files
  <2> QED BY <2>1 DEF Init, ScrubInv, Scrubbed
<1>2. TypeOK /\ ScrubInv /\ [Next]_vars => ScrubInv'
  BY ScrubInvKept
<1>3. ScrubInv => RecordsAreScrubbed
  BY DEF ScrubInv, Scrubbed, Files, RecordsAreScrubbed
<1> QED BY <1>1, <1>2, <1>3, TypeCorrect, PTL DEF Spec

-----------------------------------------------------------------------------
(* Containers *)

\* The container of a call that has not started one is none, and one that runs
\* belongs to a call that runs, was answered or was cancelled, or whose session died.
ContainerInv ==
  /\ \A i \in Invocations : pc[i] \in {"idle", "calling"} => container[i] = "none"
  /\ \A i \in Invocations \ lost : container[i] = "running" /\ pc[i] # "running"
       => outcome[i] \in {"ok", "unlogged", "abandoned"}

\* A container that still runs when its call is over is that of an answered call, of a
\* cancelled one, or of one whose session died under it.
THEOREM LeftContainersAlways == Spec => []LeftContainersHaveACause
<1>1. Init => ContainerInv
  BY DEF Init, ContainerInv
<1>2. TypeOK /\ ContainerInv /\ [Next]_vars => ContainerInv'
  <2> SUFFICES ASSUME TypeOK, ContainerInv, [Next]_vars PROVE ContainerInv'
    OBVIOUS
  <2>0. /\ pc \in [Requests -> {"idle", "calling", "running", "writing", "emitting", "done"}]
        /\ outcome \in [Requests -> Outcomes]
        /\ container \in [Invocations -> {"none", "running", "gone"}]
        /\ \A r \in Puts \cup Deletes \cup Clears : r \notin Invocations
    BY ToolCallsAssumption DEF TypeOK
  <2> USE <2>0 DEF Requests, ContainerInv
  <2>1. ASSUME NEW i \in Invocations, Invoke(i) PROVE ContainerInv'
    <3>1. UNCHANGED <<container, lost>> BY <2>1 DEF Invoke
    <3>2. CASE \A c \in Capabilities : ~Send(i, c)
      <4>1. ASSUME NEW how, NEW to, Moves(i, "idle", to), outcome' = [outcome EXCEPT ![i] = how]
            PROVE  ContainerInv'
        BY <3>1, <4>1 DEF Moves
      <4>2. CASE \E how \in Unrecorded : Ends(i, "idle", how)
        BY <4>1, <4>2 DEF Ends
      <4>3. CASE \E how \in Recorded, payload \in Payloads : Emits(i, "idle", how, payload)
        BY <4>1, <4>3 DEF Emits
      <4> QED BY <2>1, <3>2, <4>2, <4>3, Refusals
    <3>3. ASSUME NEW c \in Capabilities, Send(i, c) PROVE ContainerInv'
      BY <3>1, <3>3 DEF Send, Moves
    <3> QED BY <3>2, <3>3
  <2>2. ASSUME NEW i \in Invocations, RunContainer(i) PROVE ContainerInv'
    BY <2>2 DEF RunContainer, Moves
  <2>3. ASSUME NEW i \in Invocations, ProgramEnds(i) PROVE ContainerInv'
    <3>1. PICK how : pc' = [pc EXCEPT ![i] = "emitting"] /\ outcome' = [outcome EXCEPT ![i] = how]
      BY <2>3 DEF ProgramEnds, Called, Failed, Emits, Moves
    <3> QED BY <2>3, <3>1 DEF ProgramEnds
  <2>4. ASSUME NEW i \in Invocations, TimedOut(i) PROVE ContainerInv'
    <3>1. pc' = [pc EXCEPT ![i] = "emitting"] /\ outcome' = [outcome EXCEPT ![i] = "ok"]
      BY <2>4 DEF TimedOut, Called, Emits, Moves
    <3> QED BY <2>4, <3>1 DEF TimedOut
  <2>5. ASSUME NEW i \in Invocations, CallFails(i) PROVE ContainerInv'
    <3>1. \E to : pc' = [pc EXCEPT ![i] = to]
      BY <2>5 DEF CallFails, Failed, Emits, Ends, Moves
    <3>2. \A j \in Invocations \ {i} : outcome'[j] = outcome[j]
      BY <2>5 DEF CallFails, Failed, Emits, Ends
    <3>3. UNCHANGED <<container, lost>> /\ container[i] = "none" /\ pc'[i] \in {"emitting", "done"}
      BY <2>5 DEF CallFails, Failed, Emits, Ends, Moves
    <3> QED BY <3>1, <3>2, <3>3
  <2>6. ASSUME NEW i \in Invocations, SessionDies(i) PROVE ContainerInv'
    <3>1. PICK to \in {"emitting", "done"}, how \in Outcomes :
            pc' = [pc EXCEPT ![i] = to] /\ outcome' = [outcome EXCEPT ![i] = how]
      BY <2>6 DEF SessionDies, Outcomes, Failed, Ends, Emits, Moves
    <3> QED BY <2>6, <3>1 DEF SessionDies
  <2>7. ASSUME NEW i \in Invocations, ContainerEnds(i) PROVE ContainerInv'
    BY <2>7 DEF ContainerEnds
  <2>8. ASSUME NEW i \in Invocations, Abandon(i) PROVE ContainerInv'
    BY <2>8 DEF Abandon
  <2>9. ASSUME NEW r \in Puts \cup Deletes \cup Clears,
               ReadSlot(r) \/ (\E v \in Values : StoreSlot(r, v)) \/ EraseSlot(r) \/ ClearLog(r)
        PROVE  ContainerInv'
    <3>1. UNCHANGED <<container, lost>> BY <2>9 DEF ReadSlot, StoreSlot, EraseSlot, ClearLog
    <3>2. \A i \in Invocations : pc'[i] = pc[i] /\ outcome'[i] = outcome[i]
      BY <2>9 DEF ReadSlot, StoreSlot, EraseSlot, ClearLog, Ends, Emits, Moves
    <3> QED BY <3>1, <3>2
  <2>10. ASSUME NEW r \in Requests, Resume(r) PROVE ContainerInv'
    BY <2>10 DEF Resume
  <2>11. CASE UNCHANGED taskVars
    BY <2>11 DEF taskVars
  <2>12. StopInstance \/ (\E l, caps : Start(l, caps)) \/ Bus \/ UNCHANGED vars => UNCHANGED taskVars
    BY DEF StopInstance, Start, Bus, vars
  <2> QED
    BY <2>1, <2>2, <2>3, <2>4, <2>5, <2>6, <2>7, <2>8, <2>9, <2>10, <2>11, <2>12
    DEF Next, Execute
<1>3. TypeOK /\ ContainerInv => LeftContainersHaveACause
  BY DEF ContainerInv, LeftContainersHaveACause
<1> QED BY <1>1, <1>2, <1>3, TypeCorrect, PTL DEF Spec

-----------------------------------------------------------------------------
(* The log *)

\* A line on disk stays there: the only loss is the rename over the archive of the same
\* second, and the lines of no other file are lost with it.
THEOREM RecordsKeptAlways == Spec => RecordsKept
<1>1. [Next]_vars => OnDisk \subseteq OnDisk' \cup Replaceable
  <2> SUFFICES ASSUME [Next]_vars PROVE OnDisk \subseteq OnDisk' \cup Replaceable
    OBVIOUS
  <2>1. CASE UNCHANGED archive /\ log \subseteq log'
    BY <2>1 DEF OnDisk, Lines
  <2>2. ASSUME NEW r \in Clears, ClearLog(r) PROVE OnDisk \subseteq OnDisk' \cup Replaceable
    <3>1. CASE UNCHANGED <<log, archive>>
      BY <3>1 DEF OnDisk
    <3>2. CASE log' = {} /\ archive' = [t \in DOMAIN archive \cup {second} |->
                                          IF t = second THEN log ELSE archive[t]]
      <4>1. second \in DOMAIN archive' /\ archive'[second] = log BY <3>2
      <4>2. \A t \in DOMAIN archive \ {second} : t \in DOMAIN archive' /\ archive'[t] = archive[t]
        BY <3>2
      <4>3. Lines(log) \subseteq OnDisk' BY <4>1 DEF OnDisk, Lines
      <4>4. \A t \in DOMAIN archive \ {second} : Lines(archive[t]) \subseteq OnDisk'
        BY <4>2 DEF OnDisk, Lines
      <4>5. second \in DOMAIN archive => Lines(archive[second]) \subseteq Replaceable
        BY DEF Replaceable
      <4> QED BY <4>3, <4>4, <4>5 DEF OnDisk
    <3> QED BY <2>2, <3>1, <3>2 DEF ClearLog, ArchiveLog
  <2>3. (UNCHANGED archive /\ log \subseteq log') \/ \E r \in Clears : ClearLog(r)
    <3>1. ASSUME NEW r, ReadSlot(r) \/ (\E v : StoreSlot(r, v)) \/ EraseSlot(r) \/ Resume(r)
          PROVE  UNCHANGED <<log, archive>>
      BY <3>1 DEF ReadSlot, StoreSlot, EraseSlot, Resume, Ends, Emits, auditVars
    <3>2. ASSUME NEW i, Invoke(i) PROVE UNCHANGED <<log, archive>>
      BY <3>2 DEF Invoke, TurnedAway, NotRunning, NotFound, Refuse, RejectArgs, Send, Ends, Emits, auditVars
    <3>3. ASSUME NEW i, Execute(i) \/ ContainerEnds(i) \/ Abandon(i) PROVE UNCHANGED <<log, archive>>
      BY <3>3 DEF Execute, RunContainer, ProgramEnds, TimedOut, SessionDies, CallFails, Called, Failed,
                  Ends, Emits, ContainerEnds, Abandon, auditVars
    <3>4. StopInstance \/ (\E l, caps : Start(l, caps)) \/ UNCHANGED vars => UNCHANGED <<log, archive>>
      BY DEF StopInstance, Start, vars, auditVars
    <3>5. Bus => UNCHANGED archive /\ log \subseteq log'
      BY DEF Bus, WriteLine, WriteFails, Tick
    <3> QED BY <3>1, <3>2, <3>3, <3>4, <3>5 DEF Next
  <2> QED BY <2>1, <2>2, <2>3
<1> QED BY <1>1, PTL DEF Spec, RecordsKept
==============================================================================
