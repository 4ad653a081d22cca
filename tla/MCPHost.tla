------------------------------- MODULE MCPHost -------------------------------
(***************************************************************************)
(* MCPHost of agentlabx/mcp/host.py: the live MCP servers of one process.  *)
(*                                                                         *)
(* Every start that passes the start lock spawns an owner task.  The owner *)
(* opens the transport, answers the requests of its stream one at a time   *)
(* and closes the transport.  stop pops the handle, sets the owner's stop  *)
(* event, closes the send end of its stream and awaits the owner.  A call  *)
(* puts a request into the stream of the handle it finds and waits on a    *)
(* result channel of its own.                                              *)
(*                                                                         *)
(* The event loop runs one task at a time between two awaits, so an action *)
(* is the code from one await to the next.  A start, a stop and a call are *)
(* each used once; an owner has the name of the start that spawned it.     *)
(***************************************************************************)
EXTENDS Naturals, Sequences

CONSTANTS
  Servers,   \* server ids
  Starts,    \* invocations of start, and the owner tasks they spawn
  Stops,     \* invocations of stop and of stop_all
  Calls,     \* invocations of call
  None,
  Faults     \* the failures of the transport that may happen

ASSUME HostAssumption ==
  /\ None \notin Starts \cup Servers \cup Calls
  /\ Faults \subseteq {"close_raises", "session_dies"}

VARIABLES
  handles,   \* handles[s]: the published owner of server s, _handles
  lock,      \* lock[s]: the start holding s's entry of _start_locks
  start,     \* start[i]: where start i is
  server,    \* server[i]: the server start i is for
  owner,     \* owner[i]: where the owner task of start i is
  ready,     \* ready[i]: the future on which start i waits for its owner
  stopSet,   \* stopSet[i]: owner i's stop event is set and call_send closed
  queue,     \* queue[i]: the requests buffered in owner i's stream
  current,   \* current[i]: the request owner i is running
  stop,      \* stop[k]: where stop k is
  target,    \* target[k]: the owner stop k popped last
  sweep,     \* sweep[k]: the servers stop_all k has still to stop
  call,      \* call[c]: where call c is
  sentTo     \* sentTo[c]: the owner call c sent its request to

lifecycle == <<handles, lock, start, server, owner, ready>>
streams   == <<queue, current, call, sentTo>>
stopping  == <<stop, target, sweep>>
vars      == <<lifecycle, stopSet, streams, stopping>>

StartStates == {"idle", "locking", "resolving", "awaiting", "published", "returned", "failed"}
OwnerStates == {"none", "opening", "rollback", "looping", "parked", "received", "calling",
                "closing", "done"}
StopStates  == {"idle", "sweeping", "awaiting", "done"}
CallStates  == {"idle", "waiting", "answered", "not_running", "refused", "abandoned"}

TypeOK ==
  /\ handles \in [Servers -> Starts \cup {None}]
  /\ lock \in [Servers -> Starts \cup {None}]
  /\ start \in [Starts -> StartStates]
  /\ server \in [Starts -> Servers \cup {None}]
  /\ owner \in [Starts -> OwnerStates]
  /\ ready \in [Starts -> {"pending", "ok", "failed"}]
  /\ stopSet \in [Starts -> BOOLEAN]
  /\ queue \in [Starts -> Seq(Calls)]
  /\ current \in [Starts -> Calls \cup {None}]
  /\ stop \in [Stops -> StopStates]
  /\ target \in [Stops -> Starts \cup {None}]
  /\ sweep \in [Stops -> SUBSET Servers]
  /\ call \in [Calls -> CallStates]
  /\ sentTo \in [Calls -> Starts \cup {None}]

Init ==
  /\ handles = [s \in Servers |-> None]
  /\ lock = [s \in Servers |-> None]
  /\ start = [i \in Starts |-> "idle"]
  /\ server = [i \in Starts |-> None]
  /\ owner = [i \in Starts |-> "none"]
  /\ ready = [i \in Starts |-> "pending"]
  /\ stopSet = [i \in Starts |-> FALSE]
  /\ queue = [i \in Starts |-> <<>>]
  /\ current = [i \in Starts |-> None]
  /\ stop = [k \in Stops |-> "idle"]
  /\ target = [k \in Stops |-> None]
  /\ sweep = [k \in Stops |-> {}]
  /\ call = [c \in Calls |-> "idle"]
  /\ sentTo = [c \in Calls |-> None]

(***************************************************************************)
(* start                                                                   *)
(***************************************************************************)
StartMoves(i, from, to) ==
  /\ start[i] = from
  /\ start' = [start EXCEPT ![i] = to]

BeginStart(i, s) ==
  /\ StartMoves(i, "idle", "locking")
  /\ server' = [server EXCEPT ![i] = s]
  /\ UNCHANGED <<handles, lock, owner, ready, stopSet, streams, stopping>>

\* The lock is free and the server runs: the lock is taken, the start raises
\* "already running" and the lock is released without an await in between.
StartAlreadyRunning(i) ==
  /\ StartMoves(i, "locking", "failed")
  /\ lock[server[i]] = None
  /\ handles[server[i]] # None
  /\ UNCHANGED <<handles, lock, server, owner, ready, stopSet, streams, stopping>>

\* Mutants of EnterStart: the lock is not taken into account; the guard on
\* _handles is dropped.
EnterStartUnlocked(i) ==
  /\ StartMoves(i, "locking", "resolving")
  /\ handles[server[i]] = None
  /\ lock' = [lock EXCEPT ![server[i]] = i]
  /\ UNCHANGED <<handles, server, owner, ready, stopSet, streams, stopping>>

EnterStartUnchecked(i) ==
  /\ StartMoves(i, "locking", "resolving")
  /\ lock[server[i]] = None
  /\ lock' = [lock EXCEPT ![server[i]] = i]
  /\ UNCHANGED <<handles, server, owner, ready, stopSet, streams, stopping>>

EnterStart(i) ==
  /\ StartMoves(i, "locking", "resolving")
  /\ lock[server[i]] = None
  /\ handles[server[i]] = None
  /\ lock' = [lock EXCEPT ![server[i]] = i]
  /\ UNCHANGED <<handles, server, owner, ready, stopSet, streams, stopping>>

Release(i) == lock' = [lock EXCEPT ![server[i]] = None]

\* Mutant: the exception escapes without releasing the lock.
ResolveFailsLocked(i) ==
  /\ StartMoves(i, "resolving", "failed")
  /\ UNCHANGED <<handles, lock, server, owner, ready, stopSet, streams, stopping>>

\* The slot resolver raises, for example on a ciphertext it cannot decrypt.
ResolveFails(i) ==
  /\ StartMoves(i, "resolving", "failed")
  /\ Release(i)
  /\ UNCHANGED <<handles, server, owner, ready, stopSet, streams, stopping>>

SpawnOwner(i) ==
  /\ StartMoves(i, "resolving", "awaiting")
  /\ owner' = [owner EXCEPT ![i] = "opening"]
  /\ UNCHANGED <<handles, lock, server, ready, stopSet, streams, stopping>>

Publish(i) ==
  /\ StartMoves(i, "awaiting", "published")
  /\ ready[i] = "ok"
  /\ handles' = [handles EXCEPT ![server[i]] = i]
  /\ UNCHANGED <<lock, server, owner, ready, stopSet, streams, stopping>>

\* The started event has been emitted: the lock is released on return.
StartReturns(i) ==
  /\ StartMoves(i, "published", "returned")
  /\ Release(i)
  /\ UNCHANGED <<handles, server, owner, ready, stopSet, streams, stopping>>

\* Mutant: start gives up on its owner instead of awaiting it.
StartGivesUp(i) ==
  /\ StartMoves(i, "awaiting", "failed")
  /\ Release(i)
  /\ UNCHANGED <<handles, server, owner, ready, stopSet, streams, stopping>>

StartRaises(i) ==
  /\ StartMoves(i, "awaiting", "failed")
  /\ ready[i] = "failed"
  /\ owner[i] = "done"
  /\ Release(i)
  /\ UNCHANGED <<handles, server, owner, ready, stopSet, streams, stopping>>

(***************************************************************************)
(* The owner task                                                          *)
(***************************************************************************)
OwnerMoves(i, from, to) ==
  /\ owner[i] = from
  /\ owner' = [owner EXCEPT ![i] = to]

Opened(i) ==
  /\ OwnerMoves(i, "opening", "looping")
  /\ ready' = [ready EXCEPT ![i] = "ok"]
  /\ UNCHANGED <<handles, lock, start, server, stopSet, streams, stopping>>

OpenFails(i) ==
  /\ OwnerMoves(i, "opening", "rollback")
  /\ UNCHANGED <<handles, lock, start, server, ready, stopSet, streams, stopping>>

RollBack(i) ==
  /\ OwnerMoves(i, "rollback", "done")
  /\ ready' = [ready EXCEPT ![i] = "failed"]
  /\ UNCHANGED <<handles, lock, start, server, stopSet, streams, stopping>>

\* Closing the half-open stack raises inside the except clause, before
\* ready.set_exception: the owner ends and the future stays pending.
RollBackRaises(i) ==
  /\ "close_raises" \in Faults
  /\ OwnerMoves(i, "rollback", "done")
  /\ UNCHANGED <<handles, lock, start, server, ready, stopSet, streams, stopping>>

\* Mutants of TakeRequest: the request stays in the stream; the rest of the
\* stream is taken for the request.
PeekRequest(i) ==
  /\ OwnerMoves(i, "looping", "received")
  /\ queue[i] # <<>>
  /\ current' = [current EXCEPT ![i] = Head(queue[i])]
  /\ UNCHANGED <<handles, lock, start, server, ready, stopSet, queue, call, sentTo, stopping>>

TakeRest(i) ==
  /\ OwnerMoves(i, "looping", "received")
  /\ queue[i] # <<>>
  /\ current' = [current EXCEPT ![i] = Tail(queue[i])]
  /\ queue' = [queue EXCEPT ![i] = <<>>]
  /\ UNCHANGED <<handles, lock, start, server, ready, stopSet, call, sentTo, stopping>>

\* The owner has found the stop event unset and is inside _receive_or_stop.
\* A buffered request is taken, unless the stop event wins the race.
TakeRequest(i) ==
  /\ OwnerMoves(i, "looping", "received")
  /\ queue[i] # <<>>
  /\ current' = [current EXCEPT ![i] = Head(queue[i])]
  /\ queue' = [queue EXCEPT ![i] = Tail(@)]
  /\ UNCHANGED <<handles, lock, start, server, ready, stopSet, call, sentTo, stopping>>

\* Mutant: the owner waits for the next send whatever is buffered.
ParkBlindly(i) ==
  /\ OwnerMoves(i, "looping", "parked")
  /\ UNCHANGED <<handles, lock, start, server, ready, stopSet, streams, stopping>>

\* Nothing is buffered: the owner waits, and the next send hands its request
\* over without the buffer.
Park(i) ==
  /\ OwnerMoves(i, "looping", "parked")
  /\ queue[i] = <<>>
  /\ UNCHANGED <<handles, lock, start, server, ready, stopSet, streams, stopping>>

\* A received request is run although the stop event may be set by now.
RunRequest(i) ==
  /\ OwnerMoves(i, "received", "calling")
  /\ UNCHANGED <<handles, lock, start, server, ready, stopSet, streams, stopping>>

\* What the waiting caller of the running request sees; a caller that has
\* gone does not notice.
ReplyCurrent(i, outcome) ==
  /\ call' = [c \in Calls |->
                IF c = current[i] /\ call[c] = "waiting" THEN outcome ELSE call[c]]
  /\ current' = [current EXCEPT ![i] = None]

\* The tool returned or failed; the loop tests the stop event before it
\* waits again.
FinishCall(i) ==
  /\ OwnerMoves(i, "calling", IF stopSet[i] THEN "closing" ELSE "looping")
  /\ ReplyCurrent(i, "answered")
  /\ UNCHANGED <<handles, lock, start, server, ready, stopSet, queue, sentTo, stopping>>

\* Mutant: the owner waits for a request only, not for the stop event.
ObserveStopBetweenCalls(i) ==
  /\ OwnerMoves(i, "looping", "closing")
  /\ stopSet[i]
  /\ UNCHANGED <<handles, lock, start, server, ready, stopSet, streams, stopping>>

\* The loop ends and the receive end is closed.  The drain that follows
\* raises ClosedResourceError at once, so the buffered requests stay.
ObserveStop(i) ==
  /\ \E from \in {"looping", "parked"} : OwnerMoves(i, from, "closing")
  /\ stopSet[i]
  /\ UNCHANGED <<handles, lock, start, server, ready, stopSet, streams, stopping>>

\* The task group of the SDK's session fails and cancels the owner.  The result
\* channel of a running request is closed, its caller sees EndOfStream; a
\* request that was received and not yet started is forgotten.
SessionDies(i) ==
  /\ "session_dies" \in Faults
  /\ \/ /\ \E from \in {"looping", "parked", "received"} : OwnerMoves(i, from, "closing")
        /\ current' = [current EXCEPT ![i] = None]
        /\ UNCHANGED call
     \/ /\ OwnerMoves(i, "calling", "closing")
        /\ ReplyCurrent(i, "not_running")
  /\ UNCHANGED <<handles, lock, start, server, ready, stopSet, queue, sentTo, stopping>>

CloseTransport(i) ==
  /\ OwnerMoves(i, "closing", "done")
  /\ UNCHANGED <<handles, lock, start, server, ready, stopSet, streams, stopping>>

(***************************************************************************)
(* stop and stop_all                                                       *)
(***************************************************************************)
StopMoves(k, from, to) ==
  /\ stop[k] = from
  /\ stop' = [stop EXCEPT ![k] = to]

\* Pop the handle, set the stop event and close the send end: no await.
Detach(k, s) ==
  /\ handles[s] # None
  /\ handles' = [handles EXCEPT ![s] = None]
  /\ stopSet' = [stopSet EXCEPT ![handles[s]] = TRUE]
  /\ target' = [target EXCEPT ![k] = handles[s]]
  /\ UNCHANGED <<lock, start, server, owner, ready, streams>>

StopServer(k, s) ==
  /\ StopMoves(k, "idle", "awaiting")
  /\ Detach(k, s)
  /\ UNCHANGED sweep

StopNotRunning(k, s) ==
  /\ StopMoves(k, "idle", "done")
  /\ handles[s] = None
  /\ UNCHANGED <<lifecycle, stopSet, streams, target, sweep>>

AfterOne(rest) == IF rest = {} THEN "done" ELSE "sweeping"

\* Mutant: stop does not await the owner task.
StopReturnsEarly(k) ==
  /\ StopMoves(k, "awaiting", AfterOne(sweep[k]))
  /\ UNCHANGED <<lifecycle, stopSet, streams, target, sweep>>

StopReturns(k) ==
  /\ StopMoves(k, "awaiting", AfterOne(sweep[k]))
  /\ owner[target[k]] = "done"
  /\ UNCHANGED <<lifecycle, stopSet, streams, target, sweep>>

BeginStopAll(k) ==
  LET running == {s \in Servers : handles[s] # None} IN
  /\ StopMoves(k, "idle", AfterOne(running))
  /\ sweep' = [sweep EXCEPT ![k] = running]
  /\ UNCHANGED <<lifecycle, stopSet, streams, target>>

SweepServer(k, s) ==
  /\ s \in sweep[k]
  /\ StopMoves(k, "sweeping", "awaiting")
  /\ sweep' = [sweep EXCEPT ![k] = @ \ {s}]
  /\ Detach(k, s)

\* Somebody else stopped s since the snapshot: ServerNotRunning, continue.
SweepSkips(k, s) ==
  /\ s \in sweep[k]
  /\ handles[s] = None
  /\ StopMoves(k, "sweeping", AfterOne(sweep[k] \ {s}))
  /\ sweep' = [sweep EXCEPT ![k] = @ \ {s}]
  /\ UNCHANGED <<lifecycle, stopSet, streams, target>>

(***************************************************************************)
(* call                                                                    *)
(***************************************************************************)
CallMoves(c, from, to) ==
  /\ call[c] = from
  /\ call' = [call EXCEPT ![c] = to]

\* The owner's receive end is open until its loop ends.
Receiving(i) == owner[i] \in {"looping", "parked", "received", "calling"}

\* The lookup of the handle and the send: no await in between, since the
\* stream is unbounded.
SendRequest(c, s) ==
  LET i == handles[s] IN
  /\ CallMoves(c, "idle", "waiting")
  /\ i # None
  /\ \/ /\ OwnerMoves(i, "parked", "received")
        /\ current' = [current EXCEPT ![i] = c]
        /\ UNCHANGED queue
     \/ /\ Receiving(i) /\ owner[i] # "parked"
        /\ queue' = [queue EXCEPT ![i] = Append(@, c)]
        /\ UNCHANGED <<owner, current>>
  /\ sentTo' = [sentTo EXCEPT ![c] = i]
  /\ UNCHANGED <<handles, lock, start, server, ready, stopSet, stopping>>

\* No handle, a handle without the tool, or a broken stream.
RefuseCall(c, s) ==
  /\ \/ handles[s] = None /\ CallMoves(c, "idle", "not_running")
     \/ handles[s] # None /\ CallMoves(c, "idle", "refused")
     \/ handles[s] # None /\ ~Receiving(handles[s]) /\ CallMoves(c, "idle", "not_running")
  /\ UNCHANGED <<lifecycle, stopSet, queue, current, sentTo, stopping>>

\* The caller is cancelled; its request stays where it is.
AbandonCall(c) ==
  /\ CallMoves(c, "waiting", "abandoned")
  /\ UNCHANGED <<lifecycle, stopSet, queue, current, sentTo, stopping>>

(***************************************************************************)
StartStep(i) ==
  \/ StartAlreadyRunning(i) \/ EnterStart(i) \/ ResolveFails(i) \/ SpawnOwner(i)
  \/ Publish(i) \/ StartReturns(i) \/ StartRaises(i)

OwnerStep(i) ==
  \/ Opened(i) \/ OpenFails(i) \/ RollBack(i)
  \/ TakeRequest(i) \/ Park(i) \/ RunRequest(i) \/ FinishCall(i)
  \/ ObserveStop(i) \/ CloseTransport(i)

Fault(i) == RollBackRaises(i) \/ SessionDies(i)

StopStep(k) ==
  \/ StopReturns(k)
  \/ \E s \in Servers : SweepServer(k, s) \/ SweepSkips(k, s)

Request ==
  \/ \E i \in Starts, s \in Servers : BeginStart(i, s)
  \/ \E k \in Stops, s \in Servers : StopServer(k, s) \/ StopNotRunning(k, s)
  \/ \E k \in Stops : BeginStopAll(k)
  \/ \E c \in Calls, s \in Servers : SendRequest(c, s) \/ RefuseCall(c, s)
  \/ \E c \in Calls : AbandonCall(c)

Next ==
  \/ Request
  \/ \E i \in Starts : StartStep(i) \/ OwnerStep(i) \/ Fault(i)
  \/ \E k \in Stops : StopStep(k)

Spec == Init /\ [][Next]_vars

\* The event loop runs every task that can run.  Starts are finitely many, so
\* the order in which asyncio.Lock wakes its waiters does not matter.  That a
\* transport opens or fails and that a tool returns is assumed of the servers;
\* that a session dies is not.
Fairness ==
  /\ \A i \in Starts : WF_vars(StartStep(i)) /\ WF_vars(OwnerStep(i))
  /\ \A k \in Stops : WF_vars(StopStep(k))

FairSpec == Spec /\ Fairness

(***************************************************************************)
(* Properties                                                              *)
(***************************************************************************)
\* The transport of owner i may be open.
Live(i) == owner[i] \notin {"none", "done"}

\* No subprocess or connection is forgotten: while a transport may be open, a
\* start awaits its owner, the handle is published so that stop can find it,
\* or a stop awaits the owner (start, stop and the comment on _start_locks).
NoOrphan ==
  \A i \in Starts : Live(i) =>
    \/ start[i] = "awaiting"
    \/ handles[server[i]] = i
    \/ \E k \in Stops : stop[k] = "awaiting" /\ target[k] = i

\* A start that raised has left no transport behind, whichever step failed
\* (the rollback of _owner_task and its order with the ready future).
FailedStartLeavesNothing ==
  \A i \in Starts : start[i] = "failed" => ~Live(i)

\* stop returns only after the owner it popped has closed its transport, and
\* stop_all moves on to the next server only then.
StopReleasesTransport ==
  \A k \in Stops :
    stop[k] \in {"sweeping", "done"} /\ target[k] # None => ~Live(target[k])

\* A request a caller waits for is in one place only, at the owner the caller
\* sent it to: none is lost while that owner receives, and none is run twice or
\* by another server's session (call, _receive_or_stop and _run_one_call).
RequestInOnePlace ==
  \A c \in Calls : call[c] = "waiting" /\ Receiving(sentTo[c]) =>
    \E n \in 0..Len(queue[sentTo[c]]) :
      \A i \in Starts :
        /\ current[i] = c <=> i = sentTo[c] /\ n = 0
        /\ \A m \in 1..Len(queue[i]) : queue[i][m] = c <=> i = sentTo[c] /\ n = m

\* The published owner of a server is never replaced by another one: the slot
\* becomes empty first, through stop (the race the _start_locks comment names).
NoOverwrite ==
  [][\A s \in Servers : handles[s] # None => handles'[s] \in {handles[s], None}]_vars

\* stop and stop_all come to an end when tools return: stop waits for the
\* running call only, never for the callers behind it.
StopTerminates ==
  \A k \in Stops : stop[k] \in {"awaiting", "sweeping"} ~> stop[k] = "done"

\* start returns or raises, however many starts of the server compete for its
\* lock and whichever step of the launch fails.
StartTerminates ==
  \A i \in Starts : start[i] = "locking" ~> start[i] \in {"returned", "failed"}

\* A request in the stream of an owner that is not stopped and does not die is
\* answered: the owner loop misses none.
ServedUnlessStopped ==
  \A c \in Calls :
    call[c] = "waiting" ~> call[c] # "waiting" \/ ~Receiving(sentTo[c])

\* "Fail-fast any requests that arrived after stop was signalled" (host.py:407)
\* and "drain any pending requests by failing them with ServerNotRunning, then
\* close the transport" (host.py:327): once the transport of an owner is
\* closed, no caller waits for it.
NoCallerStranded ==
  \A c \in Calls : call[c] = "waiting" => owner[sentTo[c]] # "done"

\* "On any failure the partially-built AsyncExitStack is rolled back before
\* re-raising" (host.py:216): a start does not wait for an owner that ended
\* without an answer.
StartNotStranded ==
  \A i \in Starts : start[i] = "awaiting" /\ owner[i] = "done" => ready[i] # "pending"

(***************************************************************************)
(* The host implements ServerLifecycle.                                    *)
(***************************************************************************)
PhaseOf(i) ==
  IF owner[i] = "none" THEN "absent"
  ELSE IF start[i] = "awaiting" THEN "starting"
  ELSE IF handles[server[i]] = i THEN "running"
  ELSE IF Live(i) THEN "stopping"
  ELSE "gone"

LaunchedFor(i) == IF owner[i] = "none" THEN None ELSE server[i]

Lifecycle == INSTANCE ServerLifecycle
  WITH Instances <- Starts,
       phase <- [i \in Starts |-> PhaseOf(i)],
       server <- [i \in Starts |-> LaunchedFor(i)]

\* Every step of the host is a step of the life of one server instance or none.
ImplementsLifecycle == Lifecycle!Spec
==============================================================================
