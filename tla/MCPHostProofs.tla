---------------------------- MODULE MCPHostProofs ----------------------------
(***************************************************************************)
(* Theorems about MCPHost for any sets of servers, starts, stops and calls *)
(* and any set of faults.                                                  *)
(***************************************************************************)
EXTENDS MCPHost, TLAPS

\* Every variable keeps its type, whatever the requests and faults.
THEOREM TypeCorrect == Spec => []TypeOK
<1>1. Init => TypeOK
  BY DEF Init, TypeOK, StartStates, OwnerStates, StopStates, CallStates
<1>2. TypeOK /\ [Next]_vars => TypeOK'
  <2> SUFFICES ASSUME TypeOK, [Next]_vars
               PROVE  TypeOK'
    OBVIOUS
  <2>1. CASE Request
    <3> USE DEF StopMoves, CallMoves
    <3>1. ASSUME NEW i \in Starts, NEW s \in Servers, BeginStart(i, s)
          PROVE  TypeOK'
      BY <3>1 DEF TypeOK, BeginStart, StartMoves, StartStates, streams, stopping
    <3>2. ASSUME NEW k \in Stops, NEW s \in Servers, StopServer(k, s)
          PROVE  TypeOK'
      BY <3>2 DEF TypeOK, StopServer, Detach, StopStates, streams
    <3>3. ASSUME NEW k \in Stops, NEW s \in Servers, StopNotRunning(k, s)
          PROVE  TypeOK'
      BY <3>3 DEF TypeOK, StopNotRunning, StopStates, lifecycle, streams
    <3>4. ASSUME NEW k \in Stops, BeginStopAll(k)
          PROVE  TypeOK'
      BY <3>4 DEF TypeOK, BeginStopAll, AfterOne, StopStates, lifecycle, streams
    <3>5. ASSUME NEW c \in Calls, NEW s \in Servers, SendRequest(c, s)
          PROVE  TypeOK'
      <4>1. handles[s] \in Starts
        BY <3>5 DEF TypeOK, SendRequest
      <4>2. CASE OwnerMoves(handles[s], "parked", "received")
        BY <3>5, <4>1, <4>2 DEF TypeOK, SendRequest, OwnerMoves, OwnerStates, CallStates, stopping
      <4>3. CASE owner[handles[s]] # "parked"
        <5>1. queue' = [queue EXCEPT ![handles[s]] = Append(@, c)]
          BY <3>5, <4>3 DEF TypeOK, SendRequest, OwnerMoves
        <5>2. queue' \in [Starts -> Seq(Calls)]
          BY <4>1, <5>1 DEF TypeOK
        <5> QED
          BY <3>5, <4>1, <4>3, <5>2 DEF TypeOK, SendRequest, OwnerMoves, CallStates, stopping
      <4> QED
        BY <3>5, <4>2, <4>3 DEF SendRequest
    <3>6. ASSUME NEW c \in Calls, NEW s \in Servers, RefuseCall(c, s)
          PROVE  TypeOK'
      BY <3>6 DEF TypeOK, RefuseCall, CallStates, lifecycle, stopping
    <3>7. ASSUME NEW c \in Calls, AbandonCall(c)
          PROVE  TypeOK'
      BY <3>7 DEF TypeOK, AbandonCall, CallStates, lifecycle, stopping
    <3> QED
      BY <2>1, <3>1, <3>2, <3>3, <3>4, <3>5, <3>6, <3>7 DEF Request
  <2>2. ASSUME NEW i \in Starts, StartStep(i)
        PROVE  TypeOK'
    <3> USE DEF StartMoves, StartStates, streams, stopping
    <3>1. CASE StartAlreadyRunning(i)
      BY <3>1 DEF TypeOK, StartAlreadyRunning
    <3>2. CASE EnterStart(i)
      BY <3>2 DEF TypeOK, EnterStart
    <3>3. CASE ResolveFails(i)
      BY <3>3 DEF TypeOK, ResolveFails, Release
    <3>4. CASE SpawnOwner(i)
      BY <3>4 DEF TypeOK, SpawnOwner, OwnerStates
    <3>5. CASE Publish(i)
      BY <3>5 DEF TypeOK, Publish
    <3>6. CASE StartReturns(i)
      BY <3>6 DEF TypeOK, StartReturns, Release
    <3>7. CASE StartRaises(i)
      BY <3>7 DEF TypeOK, StartRaises, Release
    <3> QED
      BY <2>2, <3>1, <3>2, <3>3, <3>4, <3>5, <3>6, <3>7 DEF StartStep
  <2>3. ASSUME NEW i \in Starts, OwnerStep(i) \/ Fault(i)
        PROVE  TypeOK'
    <3> USE DEF OwnerMoves, OwnerStates, streams, stopping
    <3>1. CASE TakeRequest(i)
      <4>1. Head(queue[i]) \in Calls /\ Tail(queue[i]) \in Seq(Calls)
        BY <3>1 DEF TypeOK, TakeRequest
      <4> QED
        BY <3>1, <4>1 DEF TypeOK, TakeRequest
    <3>2. CASE FinishCall(i)
      BY <3>2 DEF TypeOK, FinishCall, ReplyCurrent, CallStates
    <3>3. CASE SessionDies(i)
      <4>1. owner' = [owner EXCEPT ![i] = "closing"]
        BY <3>3 DEF SessionDies
      <4>2. current' = [current EXCEPT ![i] = None]
        BY <3>3 DEF SessionDies, ReplyCurrent
      <4>3. call' \in [Calls -> CallStates]
        BY <3>3 DEF TypeOK, SessionDies, ReplyCurrent, CallStates
      <4>4. UNCHANGED <<handles, lock, start, server, ready, stopSet, queue, sentTo, stop, target,
                        sweep>>
        BY <3>3 DEF SessionDies
      <4> QED
        BY <4>1, <4>2, <4>3, <4>4 DEF TypeOK
    <3>4. CASE Opened(i)
      BY <3>4 DEF TypeOK, Opened
    <3>5. CASE OpenFails(i)
      BY <3>5 DEF TypeOK, OpenFails
    <3>6. CASE RollBack(i)
      BY <3>6 DEF TypeOK, RollBack
    <3>7. CASE RollBackRaises(i)
      BY <3>7 DEF TypeOK, RollBackRaises
    <3>8. CASE Park(i)
      BY <3>8 DEF TypeOK, Park
    <3>9. CASE RunRequest(i)
      BY <3>9 DEF TypeOK, RunRequest
    <3>10. CASE ObserveStop(i)
      BY <3>10 DEF TypeOK, ObserveStop
    <3>11. CASE CloseTransport(i)
      BY <3>11 DEF TypeOK, CloseTransport
    <3> QED
      BY <2>3, <3>1, <3>2, <3>3, <3>4, <3>5, <3>6, <3>7, <3>8, <3>9, <3>10, <3>11 DEF OwnerStep, Fault
  <2>4. ASSUME NEW k \in Stops, StopStep(k)
        PROVE  TypeOK'
    <3> USE DEF AfterOne, StopMoves, StopStates, lifecycle, streams
    <3>1. CASE StopReturns(k)
      BY <3>1 DEF TypeOK, StopReturns
    <3>2. ASSUME NEW s \in Servers, SweepServer(k, s)
          PROVE  TypeOK'
      BY <3>2 DEF TypeOK, SweepServer, Detach
    <3>3. ASSUME NEW s \in Servers, SweepSkips(k, s)
          PROVE  TypeOK'
      BY <3>3 DEF TypeOK, SweepSkips
    <3> QED
      BY <2>4, <3>1, <3>2, <3>3 DEF StopStep
  <2>5. CASE UNCHANGED vars
    BY <2>5 DEF TypeOK, vars, lifecycle, streams, stopping
  <2> QED
    BY <2>1, <2>2, <2>3, <2>4, <2>5 DEF Next
<1> QED
  BY <1>1, <1>2, PTL DEF Spec

(***************************************************************************)
(* The inductive invariant.  A start that has checked _handles holds the   *)
(* lock of its server until it returns, so the handle it found empty stays *)
(* empty until it publishes its own; a stop awaits the owner it popped, and *)
(* only an owner that was published is popped.  Hence an owner is awaited  *)
(* by its start, published or awaited by a stop as long as it lives.       *)
(***************************************************************************)
\* A start between its check of _handles and its return.
Launching(i) == start[i] \in {"resolving", "awaiting", "published"}

\* A start whose owner has been published.
Launched(i) == start[i] \in {"published", "returned"}

LockInv ==
  \A i \in Starts :
    /\ start[i] # "idle" => server[i] \in Servers
    /\ Launching(i) => lock[server[i]] = i
    /\ start[i] \in {"resolving", "awaiting"} => handles[server[i]] = None

\* What the owner of a start can be doing.
OwnerInv ==
  \A i \in Starts :
    /\ start[i] \in {"idle", "locking", "resolving"} => owner[i] = "none"
    /\ start[i] = "failed" => owner[i] \in {"none", "done"}
    /\ start[i] = "awaiting" \/ Launched(i) => owner[i] # "none"

HandleInv ==
  \A s \in Servers : handles[s] # None => server[handles[s]] = s /\ Launched(handles[s])

StopInv ==
  \A k \in Stops :
    /\ target[k] # None => Launched(target[k])
    /\ stop[k] = "awaiting" => target[k] # None
    /\ stop[k] = "idle" => target[k] = None

IInv ==
  /\ LockInv
  /\ OwnerInv
  /\ HandleInv
  /\ StopInv
  /\ NoOrphan
  /\ StopReleasesTransport

\* A step that only moves live owners, or nothing IInv speaks of, preserves it.
LEMMA QuietStep ==
  ASSUME TypeOK, IInv,
         UNCHANGED <<handles, lock, start, server, stop, target>>,
         \A i \in Starts : owner'[i] = owner[i] \/ (Live(i) /\ owner'[i] # "none")
  PROVE  IInv'
<1> USE HostAssumption DEF IInv
<1>1. LockInv' /\ HandleInv' /\ StopInv'
  BY DEF LockInv, HandleInv, StopInv, Launching, Launched
<1>2. OwnerInv'
  BY DEF OwnerInv, Launched, Live
<1>3. \A i \in Starts : Live(i)' => Live(i)
  BY DEF Live
<1>4. NoOrphan'
  BY <1>3 DEF NoOrphan
<1>5. StopReleasesTransport'
  BY <1>3 DEF StopReleasesTransport, TypeOK
<1> QED
  BY <1>1, <1>2, <1>4, <1>5

\* A stop that only ends or moves on, and pops nothing, preserves IInv.
LEMMA StopMovesOn ==
  ASSUME TypeOK, IInv, NEW k \in Stops,
         UNCHANGED <<handles, lock, start, server, owner, target>>,
         stop[k] \in {"idle", "sweeping"} \/ (stop[k] = "awaiting" /\ owner[target[k]] = "done"),
         stop' = [stop EXCEPT ![k] = "sweeping"] \/ stop' = [stop EXCEPT ![k] = "done"]
  PROVE  IInv'
<1> USE HostAssumption DEF IInv
<1>1. LockInv' /\ HandleInv' /\ OwnerInv'
  BY DEF LockInv, HandleInv, OwnerInv, Launching, Launched
<1>2. \A j \in Stops : stop'[j] = stop[j] \/ (j = k /\ stop'[j] \in {"sweeping", "done"})
  BY DEF TypeOK
<1>3. StopInv'
  BY <1>2 DEF StopInv, Launched
<1>4. NoOrphan'
  BY <1>2 DEF NoOrphan, Live, TypeOK
<1>5. StopReleasesTransport'
  BY <1>2 DEF StopReleasesTransport, StopInv, Live, TypeOK
<1> QED
  BY <1>1, <1>3, <1>4, <1>5

\* Popping a handle hands its owner from _handles to the stop.
LEMMA DetachStep ==
  ASSUME TypeOK, IInv, NEW k \in Stops, NEW s \in Servers,
         Detach(k, s), stop[k] \in {"idle", "sweeping"},
         stop' = [stop EXCEPT ![k] = "awaiting"]
  PROVE  IInv'
<1> USE HostAssumption DEF IInv
<1> DEFINE o == handles[s]
<1>1. /\ o \in Starts /\ o # None /\ server[o] = s /\ Launched(o)
      /\ UNCHANGED <<lock, start, server, owner>>
      /\ handles' = [handles EXCEPT ![s] = None]
      /\ target' = [target EXCEPT ![k] = o]
  BY DEF Detach, TypeOK, HandleInv
<1> HIDE DEF o
<1>2. LockInv' /\ OwnerInv'
  BY <1>1 DEF LockInv, OwnerInv, Launching, Launched, TypeOK
<1>3. HandleInv'
  BY <1>1 DEF HandleInv, Launched, TypeOK
<1>4. StopInv'
  BY <1>1 DEF StopInv, Launched, TypeOK
<1>5. NoOrphan'
  <2> SUFFICES ASSUME NEW i \in Starts, Live(i)
               PROVE  \/ start[i] = "awaiting"
                      \/ handles'[server[i]] = i
                      \/ \E j \in Stops : stop'[j] = "awaiting" /\ target'[j] = i
    BY <1>1 DEF NoOrphan, Live
  <2>1. CASE i = o
    BY <1>1, <2>1 DEF TypeOK
  <2>2. CASE i # o
    <3>1. ASSUME handles[server[i]] = i
          PROVE  handles'[server[i]] = i
      BY <1>1, <2>2, <3>1 DEF TypeOK, o
    <3>2. ASSUME NEW j \in Stops, stop[j] = "awaiting", target[j] = i
          PROVE  stop'[j] = "awaiting" /\ target'[j] = i
      BY <1>1, <3>2 DEF TypeOK
    <3> QED
      BY <3>1, <3>2 DEF NoOrphan
  <2> QED
    BY <2>1, <2>2
<1>6. StopReleasesTransport'
  BY <1>1 DEF StopReleasesTransport, Live, TypeOK
<1> QED
  BY <1>2, <1>3, <1>4, <1>5, <1>6

\* A step of start preserves IInv.
LEMMA StartStepPreserves ==
  ASSUME TypeOK, IInv, NEW i \in Starts, StartStep(i)
  PROVE  IInv'
<1> USE HostAssumption DEF IInv, StartMoves
<1>1. CASE StartAlreadyRunning(i)
  <2>1. LockInv' /\ OwnerInv' /\ HandleInv' /\ StopInv'
    BY <1>1 DEF StartAlreadyRunning, LockInv, OwnerInv, HandleInv, StopInv, Launching, Launched,
                TypeOK, stopping
  <2>2. NoOrphan' /\ StopReleasesTransport'
    BY <1>1 DEF StartAlreadyRunning, NoOrphan, StopReleasesTransport, Live, TypeOK, stopping
  <2> QED
    BY <2>1, <2>2
<1>2. CASE EnterStart(i)
  <2>1. LockInv' /\ OwnerInv' /\ HandleInv' /\ StopInv'
    BY <1>2 DEF EnterStart, LockInv, OwnerInv, HandleInv, StopInv, Launching, Launched, TypeOK,
                stopping
  <2>2. NoOrphan' /\ StopReleasesTransport'
    BY <1>2 DEF EnterStart, NoOrphan, StopReleasesTransport, Live, TypeOK, stopping
  <2> QED
    BY <2>1, <2>2
<1>3. CASE ResolveFails(i)
  <2>1. LockInv' /\ OwnerInv' /\ HandleInv' /\ StopInv'
    BY <1>3 DEF ResolveFails, Release, LockInv, OwnerInv, HandleInv, StopInv, Launching, Launched,
                TypeOK, stopping
  <2>2. NoOrphan' /\ StopReleasesTransport'
    BY <1>3 DEF ResolveFails, NoOrphan, StopReleasesTransport, OwnerInv, Live, TypeOK, stopping
  <2> QED
    BY <2>1, <2>2
<1>4. CASE SpawnOwner(i)
  <2>1. LockInv' /\ OwnerInv' /\ HandleInv' /\ StopInv'
    BY <1>4 DEF SpawnOwner, LockInv, OwnerInv, HandleInv, StopInv, Launching, Launched, TypeOK,
                stopping
  <2>2. NoOrphan'
    BY <1>4 DEF SpawnOwner, NoOrphan, Live, TypeOK, stopping
  <2>3. StopReleasesTransport'
    \* The owners that stops have popped were published: i is none of them.
    BY <1>4 DEF SpawnOwner, StopReleasesTransport, StopInv, Launched, Live, TypeOK, stopping
  <2> QED
    BY <2>1, <2>2, <2>3
<1>5. CASE Publish(i)
  <2>1. LockInv'
    \* Another start between its check and its return holds another lock.
    BY <1>5 DEF Publish, LockInv, Launching, TypeOK
  <2>2. OwnerInv' /\ HandleInv' /\ StopInv'
    BY <1>5 DEF Publish, LockInv, OwnerInv, HandleInv, StopInv, Launching, Launched, TypeOK,
                stopping
  <2>3. NoOrphan'
    <3> SUFFICES ASSUME NEW j \in Starts, Live(j)
                 PROVE  \/ start'[j] = "awaiting"
                        \/ handles'[server[j]] = j
                        \/ \E k \in Stops : stop[k] = "awaiting" /\ target[k] = j
      BY <1>5 DEF Publish, NoOrphan, Live, stopping
    <3>1. handles[server[i]] = None /\ server[i] \in Servers
      BY <1>5 DEF Publish, LockInv
    <3>2. CASE j = i
      BY <1>5, <3>1, <3>2 DEF Publish, TypeOK
    <3>3. CASE j # i
      BY <1>5, <3>1, <3>3 DEF Publish, NoOrphan, TypeOK
    <3> QED
      BY <3>2, <3>3
  <2>4. StopReleasesTransport'
    BY <1>5 DEF Publish, StopReleasesTransport, Live, stopping
  <2> QED
    BY <2>1, <2>2, <2>3, <2>4
<1>6. CASE StartReturns(i)
  <2>1. LockInv' /\ OwnerInv' /\ HandleInv' /\ StopInv'
    BY <1>6 DEF StartReturns, Release, LockInv, OwnerInv, HandleInv, StopInv, Launching, Launched,
                TypeOK, stopping
  <2>2. NoOrphan' /\ StopReleasesTransport'
    BY <1>6 DEF StartReturns, NoOrphan, StopReleasesTransport, Live, TypeOK, stopping
  <2> QED
    BY <2>1, <2>2
<1>7. CASE StartRaises(i)
  <2>1. LockInv' /\ OwnerInv' /\ HandleInv' /\ StopInv'
    BY <1>7 DEF StartRaises, Release, LockInv, OwnerInv, HandleInv, StopInv, Launching, Launched,
                TypeOK, stopping
  <2>2. NoOrphan' /\ StopReleasesTransport'
    BY <1>7 DEF StartRaises, NoOrphan, StopReleasesTransport, Live, TypeOK, stopping
  <2> QED
    BY <2>1, <2>2
<1> QED
  BY <1>1, <1>2, <1>3, <1>4, <1>5, <1>6, <1>7 DEF StartStep

\* A step of an owner task, or a fault, preserves IInv.
LEMMA OwnerStepPreserves ==
  ASSUME TypeOK, IInv, NEW i \in Starts, OwnerStep(i) \/ Fault(i)
  PROVE  IInv'
<1>1. UNCHANGED <<handles, lock, start, server, stop, target>>
  BY DEF OwnerStep, Fault, Opened, OpenFails, RollBack, RollBackRaises, TakeRequest, Park,
         RunRequest, FinishCall, ObserveStop, SessionDies, CloseTransport, stopping
<1>2. \E from \in OwnerStates \ {"none", "done"}, to \in OwnerStates \ {"none"} :
        OwnerMoves(i, from, to)
  BY DEF OwnerStep, Fault, Opened, OpenFails, RollBack, RollBackRaises, TakeRequest, Park,
         RunRequest, FinishCall, ObserveStop, SessionDies, CloseTransport, OwnerStates
<1>3. \A j \in Starts : owner'[j] = owner[j] \/ (Live(j) /\ owner'[j] # "none")
  BY <1>2 DEF OwnerMoves, Live, TypeOK
<1> QED
  BY <1>1, <1>3, QuietStep

\* A step of stop or stop_all preserves IInv.
LEMMA StopStepPreserves ==
  ASSUME TypeOK, IInv, NEW k \in Stops, StopStep(k)
  PROVE  IInv'
<1>1. CASE StopReturns(k)
  BY <1>1, StopMovesOn DEF StopReturns, StopMoves, AfterOne, lifecycle
<1>2. ASSUME NEW s \in Servers, SweepServer(k, s)
      PROVE  IInv'
  BY <1>2, DetachStep DEF SweepServer, StopMoves
<1>3. ASSUME NEW s \in Servers, SweepSkips(k, s)
      PROVE  IInv'
  BY <1>3, StopMovesOn DEF SweepSkips, StopMoves, AfterOne, lifecycle
<1> QED
  BY <1>1, <1>2, <1>3 DEF StopStep

\* A new request, or a caller that gives up, preserves IInv.
LEMMA RequestPreserves ==
  ASSUME TypeOK, IInv, Request
  PROVE  IInv'
<1>1. ASSUME NEW i \in Starts, NEW s \in Servers, BeginStart(i, s)
      PROVE  IInv'
  <2> USE HostAssumption DEF IInv
  <2>1. LockInv' /\ OwnerInv' /\ HandleInv' /\ StopInv'
    BY <1>1 DEF BeginStart, StartMoves, LockInv, OwnerInv, HandleInv, StopInv, Launching,
                Launched, TypeOK, stopping
  <2>2. \A j \in Starts : Live(j)' => Live(j) /\ j # i
    BY <1>1 DEF BeginStart, StartMoves, OwnerInv, Live
  <2>3. NoOrphan' /\ StopReleasesTransport'
    BY <1>1, <2>2 DEF BeginStart, StartMoves, NoOrphan, StopReleasesTransport, TypeOK, stopping
  <2> QED
    BY <2>1, <2>3
<1>2. ASSUME NEW k \in Stops, NEW s \in Servers, StopServer(k, s)
      PROVE  IInv'
  BY <1>2, DetachStep DEF StopServer, StopMoves
<1>3. ASSUME NEW k \in Stops, NEW s \in Servers, StopNotRunning(k, s)
      PROVE  IInv'
  BY <1>3, StopMovesOn DEF StopNotRunning, StopMoves, lifecycle
<1>4. ASSUME NEW k \in Stops, BeginStopAll(k)
      PROVE  IInv'
  BY <1>4, StopMovesOn DEF BeginStopAll, StopMoves, AfterOne, lifecycle
<1>5. ASSUME NEW c \in Calls, NEW s \in Servers, SendRequest(c, s)
      PROVE  IInv'
  <2>1. \A j \in Starts : owner'[j] = owner[j] \/ (Live(j) /\ owner'[j] # "none")
    BY <1>5 DEF SendRequest, OwnerMoves, Live, TypeOK
  <2> QED
    BY <1>5, <2>1, QuietStep DEF SendRequest, stopping
<1>6. ASSUME NEW c \in Calls, NEW s \in Servers, RefuseCall(c, s)
      PROVE  IInv'
  BY <1>6, QuietStep DEF RefuseCall, lifecycle, stopping
<1>7. ASSUME NEW c \in Calls, AbandonCall(c)
      PROVE  IInv'
  BY <1>7, QuietStep DEF AbandonCall, lifecycle, stopping
<1> QED
  BY <1>1, <1>2, <1>3, <1>4, <1>5, <1>6, <1>7 DEF Request

\* The inductive invariant holds in every reachable state.
LEMMA Inductive == Spec => []IInv
<1>1. Init => IInv
  BY HostAssumption
     DEF Init, IInv, LockInv, OwnerInv, HandleInv, StopInv, NoOrphan, StopReleasesTransport,
         Launching, Launched, Live
<1>2. TypeOK /\ IInv /\ [Next]_vars => IInv'
  <2> SUFFICES ASSUME TypeOK, IInv, [Next]_vars
               PROVE  IInv'
    OBVIOUS
  <2>1. CASE UNCHANGED vars
    BY <2>1, QuietStep DEF vars, lifecycle, stopping
  <2> QED
    BY <2>1, RequestPreserves, StartStepPreserves, OwnerStepPreserves, StopStepPreserves DEF Next
<1> QED
  BY <1>1, <1>2, TypeCorrect, PTL DEF Spec

\* No launch is ever forgotten: a live owner is awaited by its start, published
\* under its server, or awaited by the stop that popped it.
THEOREM NoOrphanCorrect == Spec => []NoOrphan
BY Inductive, PTL DEF IInv

\* A stop that returned has closed the transport of the owner it popped.
THEOREM StopReleasesTransportCorrect == Spec => []StopReleasesTransport
BY Inductive, PTL DEF IInv

\* A start that raised has left no transport open.
THEOREM FailedStartLeavesNothingCorrect == Spec => []FailedStartLeavesNothing
<1>1. IInv => FailedStartLeavesNothing
  BY DEF IInv, OwnerInv, FailedStartLeavesNothing, Live
<1> QED
  BY <1>1, Inductive, PTL

\* The start lock does what its comment promises: no owner that is published
\* under a server is overwritten by another one.
THEOREM NoOverwriteCorrect == Spec => NoOverwrite
<1>1. TypeOK /\ IInv /\ [Next]_vars =>
        [\A s \in Servers : handles[s] # None => handles'[s] \in {handles[s], None}]_vars
  <2> SUFFICES ASSUME TypeOK, IInv, Next, NEW s \in Servers, handles[s] # None
               PROVE  handles'[s] \in {handles[s], None}
    OBVIOUS
  <2>1. CASE Request
    BY <2>1 DEF Request, BeginStart, StopServer, Detach, StopNotRunning, BeginStopAll,
                SendRequest, RefuseCall, AbandonCall, lifecycle, TypeOK
  <2>2. ASSUME NEW i \in Starts, StartStep(i)
        PROVE  handles'[s] \in {handles[s], None}
    <3>1. CASE Publish(i)
      \* i found its server's handle empty and has held the lock since.
      BY <3>1 DEF Publish, StartMoves, IInv, LockInv, TypeOK
    <3> QED
      BY <2>2, <3>1 DEF StartStep, StartAlreadyRunning, EnterStart, ResolveFails, SpawnOwner,
                        StartReturns, StartRaises
  <2>3. ASSUME NEW i \in Starts, OwnerStep(i) \/ Fault(i)
        PROVE  handles'[s] \in {handles[s], None}
    BY <2>3 DEF OwnerStep, Fault, Opened, OpenFails, RollBack, RollBackRaises, TakeRequest, Park,
                RunRequest, FinishCall, ObserveStop, SessionDies, CloseTransport
  <2>4. ASSUME NEW k \in Stops, StopStep(k)
        PROVE  handles'[s] \in {handles[s], None}
    BY <2>4 DEF StopStep, StopReturns, SweepServer, SweepSkips, Detach, lifecycle, TypeOK
  <2> QED
    BY <2>1, <2>2, <2>3, <2>4 DEF Next
<1> QED
  BY <1>1, TypeCorrect, Inductive, PTL DEF Spec, NoOverwrite

(***************************************************************************)
(* The host implements ServerLifecycle.                                    *)
(***************************************************************************)
\* A step in which no launch changes its phase or its server is a stutter.
LEMMA SamePhases ==
  ASSUME \A i \in Starts : PhaseOf(i)' = PhaseOf(i) /\ LaunchedFor(i)' = LaunchedFor(i)
  PROVE  UNCHANGED Lifecycle!lifecycleVars
BY DEF Lifecycle!lifecycleVars

\* A step in which only launch i changes its phase, and no launch its server.
LEMMA OnePhase ==
  ASSUME NEW i \in Starts, NEW p,
         PhaseOf(i)' = p,
         \A j \in Starts : LaunchedFor(j)' = LaunchedFor(j),
         \A j \in Starts \ {i} : PhaseOf(j)' = PhaseOf(j),
         \/ PhaseOf(i) = "starting" /\ p \in {"running", "gone"}
         \/ PhaseOf(i) = "running" /\ p \in {"stopping", "gone"}
         \/ PhaseOf(i) = "stopping" /\ p = "gone"
  PROVE  Lifecycle!Next
<1> DEFINE phase == [j \in Starts |-> PhaseOf(j)]
           for == [j \in Starts |-> LaunchedFor(j)]
<1>1. phase' = [phase EXCEPT ![i] = p]
  OBVIOUS
<1>2. for' = for
  OBVIOUS
<1>3. Lifecycle!Settle(i) \/ Lifecycle!Withdraw(i) \/ Lifecycle!Close(i)
  BY <1>1, <1>2 DEF Lifecycle!Settle, Lifecycle!Withdraw, Lifecycle!Close
<1> QED
  BY <1>3 DEF Lifecycle!Next

\* An owner that moves is still what it was, or has closed after its stop.
LEMMA OwnerMovesPhase ==
  ASSUME TypeOK, IInv, UNCHANGED <<handles, start, server>>, NEW i \in Starts,
         Live(i), owner'[i] # "none", \A j \in Starts \ {i} : owner'[j] = owner[j]
  PROVE  [Lifecycle!Next]_(Lifecycle!lifecycleVars)
<1>1. \A j \in Starts : LaunchedFor(j)' = LaunchedFor(j)
  BY DEF LaunchedFor, Live
<1>2. \A j \in Starts \ {i} : PhaseOf(j)' = PhaseOf(j)
  BY DEF PhaseOf, Live
<1>3. CASE PhaseOf(i)' = PhaseOf(i)
  BY <1>1, <1>2, <1>3, SamePhases
<1>4. CASE PhaseOf(i)' # PhaseOf(i)
  <2>1. PhaseOf(i) = "stopping" /\ PhaseOf(i)' = "gone"
    BY <1>4 DEF PhaseOf, Live
  <2> QED
    BY <1>1, <1>2, <2>1, OnePhase
<1> QED
  BY <1>3, <1>4

\* A popped owner is stopping, or gone if its session had died before.
LEMMA DetachPhase ==
  ASSUME TypeOK, IInv, NEW k \in Stops, NEW s \in Servers, Detach(k, s)
  PROVE  Lifecycle!Next
<1> USE HostAssumption
<1>1. PICK o \in Starts :
        /\ o = handles[s] /\ server[o] = s /\ start[o] # "awaiting" /\ owner[o] # "none"
        /\ UNCHANGED <<start, server, owner>>
        /\ handles' = [handles EXCEPT ![s] = None]
  <2>1. handles[s] \in Starts /\ Detach(k, s)
    BY DEF Detach, TypeOK
  <2>2. server[handles[s]] = s /\ Launched(handles[s])
    BY <2>1 DEF IInv, HandleInv
  <2>3. start[handles[s]] # "awaiting" /\ owner[handles[s]] # "none"
    BY <2>1, <2>2 DEF IInv, OwnerInv, Launched
  <2> QED
    BY <2>1, <2>2, <2>3 DEF Detach
<1>2. \A j \in Starts : LaunchedFor(j)' = LaunchedFor(j)
  BY <1>1 DEF LaunchedFor
<1>3. \A j \in Starts \ {o} : PhaseOf(j)' = PhaseOf(j)
  BY <1>1 DEF PhaseOf, Live, TypeOK
<1>4. PhaseOf(o) = "running" /\ PhaseOf(o)' \in {"stopping", "gone"}
  BY <1>1 DEF PhaseOf, Live, TypeOK
<1> QED
  BY <1>2, <1>3, <1>4, OnePhase

\* A launch begins, succeeds or fails; the other steps of start change nothing
\* that callers can tell.
LEMMA StartStepPhase ==
  ASSUME TypeOK, IInv, NEW i \in Starts, StartStep(i)
  PROVE  [Lifecycle!Next]_(Lifecycle!lifecycleVars)
<1> USE HostAssumption
<1>1. CASE SpawnOwner(i)
  <2>1. /\ start[i] = "resolving" /\ server[i] \in Servers /\ owner[i] = "none"
        /\ handles[server[i]] = None /\ lock[server[i]] = i
        /\ owner' = [owner EXCEPT ![i] = "opening"]
        /\ start' = [start EXCEPT ![i] = "awaiting"]
        /\ UNCHANGED <<handles, server>>
    BY <1>1 DEF SpawnOwner, StartMoves, IInv, LockInv, OwnerInv, Launching
  <2>2. \A j \in Starts : LaunchedFor(j) = server[i] => PhaseOf(j) \notin {"starting", "running"}
    BY <2>1 DEF LaunchedFor, PhaseOf, Live, IInv, LockInv, Launching
  <2>3. PhaseOf(i) = "absent" /\ PhaseOf(i)' = "starting" /\ LaunchedFor(i)' = server[i]
    BY <2>1 DEF PhaseOf, LaunchedFor, TypeOK
  <2>4. \A j \in Starts \ {i} : PhaseOf(j)' = PhaseOf(j) /\ LaunchedFor(j)' = LaunchedFor(j)
    BY <2>1 DEF PhaseOf, LaunchedFor, Live, TypeOK
  <2>5. Lifecycle!Begin(i, server[i])
    BY <2>2, <2>3, <2>4 DEF Lifecycle!Begin, Lifecycle!Current
  <2> QED
    BY <2>1, <2>5 DEF Lifecycle!Next
<1>2. CASE Publish(i)
  <2>1. /\ start[i] = "awaiting" /\ server[i] \in Servers /\ owner[i] # "none"
        /\ handles[server[i]] = None
        /\ handles' = [handles EXCEPT ![server[i]] = i]
        /\ start' = [start EXCEPT ![i] = "published"]
        /\ UNCHANGED <<owner, server>>
    BY <1>2 DEF Publish, StartMoves, IInv, LockInv, OwnerInv
  <2>2. PhaseOf(i) = "starting" /\ PhaseOf(i)' = "running"
    BY <2>1 DEF PhaseOf, TypeOK
  <2>3. \A j \in Starts : LaunchedFor(j)' = LaunchedFor(j)
    BY <2>1 DEF LaunchedFor
  <2>4. \A j \in Starts \ {i} : PhaseOf(j)' = PhaseOf(j)
    BY <2>1 DEF PhaseOf, Live, TypeOK
  <2> QED
    BY <2>2, <2>3, <2>4, OnePhase
<1>3. CASE StartRaises(i)
  <2>1. /\ start[i] = "awaiting" /\ server[i] \in Servers /\ owner[i] = "done"
        /\ handles[server[i]] = None
        /\ start' = [start EXCEPT ![i] = "failed"]
        /\ UNCHANGED <<handles, owner, server>>
    BY <1>3 DEF StartRaises, StartMoves, IInv, LockInv
  <2>2. PhaseOf(i) = "starting" /\ PhaseOf(i)' = "gone"
    BY <2>1 DEF PhaseOf, Live, TypeOK
  <2>3. \A j \in Starts : LaunchedFor(j)' = LaunchedFor(j)
    BY <2>1 DEF LaunchedFor
  <2>4. \A j \in Starts \ {i} : PhaseOf(j)' = PhaseOf(j)
    BY <2>1 DEF PhaseOf, Live, TypeOK
  <2> QED
    BY <2>2, <2>3, <2>4, OnePhase
<1>4. CASE StartAlreadyRunning(i) \/ EnterStart(i) \/ ResolveFails(i) \/ StartReturns(i)
  <2>1. /\ UNCHANGED <<handles, server, owner>>
        /\ start[i] # "awaiting" /\ start'[i] # "awaiting"
        /\ \A j \in Starts \ {i} : start'[j] = start[j]
    BY <1>4 DEF StartAlreadyRunning, EnterStart, ResolveFails, StartReturns, StartMoves, TypeOK
  <2> QED
    BY <2>1, SamePhases DEF PhaseOf, LaunchedFor, Live
<1> QED
  BY <1>1, <1>2, <1>3, <1>4 DEF StartStep

\* Seen from outside, the host is the abstract lifecycle: per server at most one
\* launch is starting or running, and each goes through its phases in order.
THEOREM HostImplementsLifecycle == Spec => ImplementsLifecycle
<1>1. Init => Lifecycle!Init
  BY DEF Init, Lifecycle!Init, PhaseOf, LaunchedFor
<1>2. TypeOK /\ IInv /\ [Next]_vars => [Lifecycle!Next]_(Lifecycle!lifecycleVars)
  <2> SUFFICES ASSUME TypeOK, IInv, [Next]_vars
               PROVE  [Lifecycle!Next]_(Lifecycle!lifecycleVars)
    OBVIOUS
  <2> DEFINE Stutter == UNCHANGED <<handles, start, server, owner>>
  <2>1. Stutter => UNCHANGED Lifecycle!lifecycleVars
    BY SamePhases DEF PhaseOf, LaunchedFor, Live
  <2>2. CASE Request
    <3>1. ASSUME NEW i \in Starts, NEW s \in Servers, BeginStart(i, s)
          PROVE  UNCHANGED Lifecycle!lifecycleVars
      <4>1. /\ start[i] = "idle" /\ start' = [start EXCEPT ![i] = "locking"]
            /\ server' = [server EXCEPT ![i] = s]
            /\ owner[i] = "none" /\ UNCHANGED <<handles, owner>>
        BY <3>1 DEF BeginStart, StartMoves, IInv, OwnerInv
      <4> QED
        BY <4>1, SamePhases DEF PhaseOf, LaunchedFor, Live, TypeOK
    <3>2. ASSUME NEW c \in Calls, NEW s \in Servers, SendRequest(c, s)
          PROVE  [Lifecycle!Next]_(Lifecycle!lifecycleVars)
      <4>1. CASE UNCHANGED owner
        BY <2>1, <3>2, <4>1 DEF SendRequest
      <4>2. CASE OwnerMoves(handles[s], "parked", "received")
        BY <3>2, <4>2, OwnerMovesPhase DEF SendRequest, OwnerMoves, Live, TypeOK
      <4> QED
        BY <3>2, <4>1, <4>2 DEF SendRequest
    <3>3. ASSUME NEW k \in Stops, NEW s \in Servers, StopServer(k, s)
          PROVE  Lifecycle!Next
      BY <3>3, DetachPhase DEF StopServer
    <3>4. ASSUME NEW k \in Stops, NEW s \in Servers, StopNotRunning(k, s) \/ BeginStopAll(k)
          PROVE  Stutter
      BY <3>4 DEF StopNotRunning, BeginStopAll, lifecycle
    <3>5. ASSUME NEW c \in Calls, NEW s \in Servers, RefuseCall(c, s) \/ AbandonCall(c)
          PROVE  Stutter
      BY <3>5 DEF RefuseCall, AbandonCall, lifecycle
    <3>6. CASE Servers = {}
      BY <2>2, <2>1, <3>6 DEF Request, BeginStopAll, AbandonCall, lifecycle
    <3> QED
      BY <2>2, <2>1, <3>1, <3>2, <3>3, <3>4, <3>5, <3>6 DEF Request
  <2>3. ASSUME NEW i \in Starts, OwnerStep(i) \/ Fault(i)
        PROVE  [Lifecycle!Next]_(Lifecycle!lifecycleVars)
    <3>1. UNCHANGED <<handles, start, server>>
      BY <2>3 DEF OwnerStep, Fault, Opened, OpenFails, RollBack, RollBackRaises, TakeRequest,
                  Park, RunRequest, FinishCall, ObserveStop, SessionDies, CloseTransport
    <3>2. \E from \in OwnerStates \ {"none", "done"}, to \in OwnerStates \ {"none"} :
            OwnerMoves(i, from, to)
      BY <2>3 DEF OwnerStep, Fault, Opened, OpenFails, RollBack, RollBackRaises, TakeRequest,
                  Park, RunRequest, FinishCall, ObserveStop, SessionDies, CloseTransport,
                  OwnerStates
    <3>3. Live(i) /\ owner'[i] # "none" /\ \A j \in Starts \ {i} : owner'[j] = owner[j]
      BY <3>2 DEF OwnerMoves, Live, TypeOK
    <3> QED
      BY <3>1, <3>3, OwnerMovesPhase
  <2>4. ASSUME NEW k \in Stops, StopStep(k)
        PROVE  [Lifecycle!Next]_(Lifecycle!lifecycleVars)
    <3>1. ASSUME NEW s \in Servers, SweepServer(k, s)
          PROVE  Lifecycle!Next
      BY <3>1, DetachPhase DEF SweepServer
    <3>2. CASE StopReturns(k) \/ \E s \in Servers : SweepSkips(k, s)
      BY <2>1, <3>2 DEF StopReturns, SweepSkips, lifecycle
    <3> QED
      BY <2>4, <3>1, <3>2 DEF StopStep
  <2>5. CASE UNCHANGED vars
    BY <2>1, <2>5 DEF vars, lifecycle
  <2> QED
    BY <2>2, <2>3, <2>4, <2>5, StartStepPhase DEF Next
<1> QED
  BY <1>1, <1>2, TypeCorrect, Inductive, PTL DEF Spec, ImplementsLifecycle, Lifecycle!Spec

\* What the lifecycle promises of the host: a server never has two launches that
\* are starting or running, so no caller can reach a second subprocess of it.
THEOREM HostOneCurrent == Spec => []Lifecycle!OneCurrent
<1>1. IInv => Lifecycle!OneCurrent
  <2> SUFFICES ASSUME IInv, NEW i \in Starts, NEW j \in Starts,
                      PhaseOf(i) \in {"starting", "running"},
                      PhaseOf(j) \in {"starting", "running"},
                      LaunchedFor(i) = LaunchedFor(j)
               PROVE  i = j
    BY DEF Lifecycle!OneCurrent
  <2>1. owner[i] # "none" /\ owner[j] # "none" /\ server[i] = server[j]
    BY DEF PhaseOf, LaunchedFor
  <2>2. ASSUME NEW x \in Starts, PhaseOf(x) \in {"starting", "running"}
        PROVE  \/ start[x] = "awaiting" /\ handles[server[x]] = None /\ lock[server[x]] = x
               \/ handles[server[x]] = x
    BY <2>2 DEF PhaseOf, IInv, LockInv, Launching
  <2> QED
    BY HostAssumption, <2>1, <2>2
<1> QED
  BY <1>1, Inductive, PTL
(***************************************************************************)
(* Requests in streams.  A request enters one stream, when it is sent, and *)
(* leaves its place when the owner takes it, answers it or dies with it;   *)
(* so what a place holds was sent there, and to no other.                  *)
(***************************************************************************)
Occurs(c, q) == \E m \in 1..Len(q) : q[m] = c

Distinct(q) == \A m, n \in 1..Len(q) : q[m] = q[n] => m = n

\* Taking the head of a sequence without repetitions leaves what is not the head.
LEMMA TailOccurs ==
  ASSUME NEW S, NEW q \in Seq(S), q # <<>>, Distinct(q)
  PROVE  /\ Head(q) \in S /\ Occurs(Head(q), q)
         /\ Distinct(Tail(q))
         /\ \A c \in S : Occurs(c, Tail(q)) <=> Occurs(c, q) /\ c # Head(q)
<1>1. /\ Len(q) \in Nat \ {0} /\ Head(q) = q[1] /\ q[1] \in S /\ Len(Tail(q)) = Len(q) - 1
      /\ \A m \in 1..Len(q) - 1 : Tail(q)[m] = q[m + 1]
  OBVIOUS
<1>2. 1 \in 1..Len(q) /\ \A m \in 1..Len(q) - 1 : m + 1 \in 1..Len(q) /\ m + 1 # 1
  BY <1>1
<1>3. Distinct(Tail(q))
  <2> SUFFICES ASSUME NEW m \in 1..Len(q) - 1, NEW n \in 1..Len(q) - 1, Tail(q)[m] = Tail(q)[n]
               PROVE  m = n
    BY <1>1 DEF Distinct
  <2>1. q[m + 1] = q[n + 1] BY <1>1
  <2>2. m + 1 = n + 1 BY <1>2, <2>1 DEF Distinct
  <2> QED BY <2>2
<1>4. ASSUME NEW c \in S, Occurs(c, Tail(q)) PROVE Occurs(c, q) /\ c # Head(q)
  <2>1. PICK m \in 1..Len(q) - 1 : q[m + 1] = c BY <1>1, <1>4 DEF Occurs
  <2>2. q[m + 1] # q[1] BY <1>2 DEF Distinct
  <2> QED BY <1>1, <1>2, <2>1, <2>2 DEF Occurs
<1>5. ASSUME NEW c \in S, Occurs(c, q), c # Head(q) PROVE Occurs(c, Tail(q))
  <2>1. PICK m \in 1..Len(q) : q[m] = c BY <1>5 DEF Occurs
  <2>2. m - 1 \in 1..Len(q) - 1 /\ (m - 1) + 1 = m BY <1>1, <1>5, <2>1
  <2>3. Tail(q)[m - 1] = c BY <1>1, <2>1, <2>2
  <2> QED BY <1>1, <2>2, <2>3 DEF Occurs
<1> QED BY <1>1, <1>2, <1>3, <1>4, <1>5 DEF Occurs

\* Appending what does not occur.
LEMMA AppendOccurs ==
  ASSUME NEW S, NEW q \in Seq(S), NEW d \in S, Distinct(q), ~Occurs(d, q)
  PROVE  /\ Distinct(Append(q, d))
         /\ \A c \in S : Occurs(c, Append(q, d)) <=> Occurs(c, q) \/ c = d
<1> DEFINE a == Append(q, d)
<1>1. /\ Len(q) \in Nat /\ Len(a) = Len(q) + 1 /\ a[Len(q) + 1] = d
      /\ \A m \in 1..Len(q) : a[m] = q[m]
  OBVIOUS
<1> HIDE DEF a
<1>2. \A m \in 1..Len(a) : m \in 1..Len(q) \/ m = Len(q) + 1
  BY <1>1
<1>3. Distinct(a)
  BY <1>1, <1>2 DEF Distinct, Occurs
<1>4. ASSUME NEW c \in S PROVE Occurs(c, a) <=> Occurs(c, q) \/ c = d
  <2>1. Len(q) + 1 \in 1..Len(a) /\ \A m \in 1..Len(q) : m \in 1..Len(a) BY <1>1
  <2> QED BY <1>1, <1>2, <2>1 DEF Occurs
<1> QED BY <1>3, <1>4 DEF a

\* The owner has opened its stream, which it does once.
Reached(i) == Receiving(i) \/ owner[i] \in {"closing", "done"}

Held(c, i) == current[i] = c \/ Occurs(c, queue[i])

\* What the place of a request and its caller say of each other.
PlaceInv(c, i) ==
  /\ Held(c, i) => call[c] # "idle" /\ sentTo[c] = i
  /\ current[i] = c => owner[i] \in {"received", "calling"} /\ ~Occurs(c, queue[i])
  /\ call[c] = "waiting" /\ sentTo[c] = i => Reached(i) /\ (Receiving(i) => Held(c, i))

StreamInv ==
  /\ \A i \in Starts : Distinct(queue[i])
  /\ \A c \in Calls : call[c] = "waiting" => sentTo[c] \in Starts
  /\ \A c \in Calls, i \in Starts : PlaceInv(c, i)

\* A step that sends and takes nothing: callers may be answered or give up, and an
\* owner lets go of a request nobody waits for any more, or stops receiving.
LEMMA StreamsKept ==
  ASSUME TypeOK, StreamInv, UNCHANGED <<queue, sentTo>>,
         \A c \in Calls : call'[c] = call[c] \/ call'[c] \notin {"idle", "waiting"},
         \A i \in Starts :
           /\ current'[i] \in {current[i], None}
           /\ current'[i] # None => owner'[i] \in {"received", "calling"}
           /\ Receiving(i)' => Receiving(i) \/ owner[i] = "opening"
           /\ Reached(i) => Reached(i)'
           /\ \A c \in Calls : call'[c] = "waiting" /\ Receiving(i)' /\ current[i] = c => current'[i] = c
  PROVE  StreamInv'
<1>1. ASSUME NEW c \in Calls, NEW i \in Starts PROVE PlaceInv(c, i)'
  <2>1. PlaceInv(c, i) /\ c # None BY HostAssumption DEF StreamInv
  <2>2. Held(c, i)' => Held(c, i) BY <2>1 DEF Held
  <2>3. (Held(c, i) => call[c] # "idle" /\ sentTo[c] = i)'
    BY <2>1, <2>2 DEF PlaceInv
  <2>4. (current[i] = c => owner[i] \in {"received", "calling"} /\ ~Occurs(c, queue[i]))'
    BY <2>1 DEF PlaceInv
  <2>5. (call[c] = "waiting" /\ sentTo[c] = i => Reached(i) /\ (Receiving(i) => Held(c, i)))'
    <3> SUFFICES ASSUME call'[c] = "waiting", sentTo[c] = i
                 PROVE  Reached(i)' /\ (Receiving(i)' => Held(c, i)')
      OBVIOUS
    <3>1. Reached(i) /\ (Receiving(i) => Held(c, i)) BY <2>1 DEF PlaceInv
    <3>2. Receiving(i)' => Receiving(i) BY <3>1 DEF Reached, Receiving
    <3> QED BY <3>1, <3>2 DEF Held
  <2> QED BY <2>3, <2>4, <2>5 DEF PlaceInv
<1>2. \A c \in Calls : call'[c] = "waiting" => sentTo[c] \in Starts
  BY DEF StreamInv
<1> QED BY <1>1, <1>2 DEF StreamInv

\* The owner takes the request at the head of its stream.
LEMMA TakeKeepsStreams ==
  ASSUME TypeOK, StreamInv, NEW i \in Starts, TakeRequest(i)
  PROVE  StreamInv'
<1>1. /\ owner[i] = "looping" /\ owner'[i] = "received"
      /\ queue[i] \in Seq(Calls) /\ queue[i] # <<>> /\ Distinct(queue[i])
      /\ current'[i] = Head(queue[i])
      /\ queue'[i] = Tail(queue[i])
      /\ UNCHANGED <<call, sentTo>>
      /\ \A j \in Starts \ {i} : queue'[j] = queue[j] /\ current'[j] = current[j] /\ owner'[j] = owner[j]
  BY DEF TakeRequest, OwnerMoves, TypeOK, StreamInv
<1>2. /\ Distinct(Tail(queue[i])) /\ Head(queue[i]) \in Calls /\ Occurs(Head(queue[i]), queue[i])
      /\ \A c \in Calls : Occurs(c, Tail(queue[i])) <=> Occurs(c, queue[i]) /\ c # Head(queue[i])
  BY <1>1, TailOccurs
<1>3. ASSUME NEW c \in Calls, NEW j \in Starts PROVE PlaceInv(c, j)'
  <2>1. PlaceInv(c, j) BY DEF StreamInv
  <2>2. CASE j # i
    BY <1>1, <2>1, <2>2 DEF PlaceInv, Held, Reached, Receiving
  <2>3. CASE j = i
    <3>1. current[i] # c BY <1>1, <2>1, <2>3 DEF PlaceInv
    <3>2. Held(c, i)' <=> Held(c, i) BY <1>1, <1>2, <3>1 DEF Held
    <3>3. (current[i] = c => owner[i] \in {"received", "calling"} /\ ~Occurs(c, queue[i]))'
      BY <1>1, <1>2
    <3>4. Receiving(i) /\ Receiving(i)' BY <1>1 DEF Receiving
    <3> QED BY <1>1, <2>1, <2>3, <3>2, <3>3, <3>4 DEF PlaceInv, Reached
  <2> QED BY <2>2, <2>3
<1>4. \A j \in Starts : Distinct(queue[j])' BY <1>1, <1>2 DEF StreamInv
<1> QED BY <1>1, <1>3, <1>4 DEF StreamInv

\* A new request is handed to a waiting owner or appended to its stream.
LEMMA SendKeepsStreams ==
  ASSUME TypeOK, StreamInv, NEW c \in Calls, NEW s \in Servers, SendRequest(c, s)
  PROVE  StreamInv'
<1>1. PICK i \in Starts : i = handles[s]
  BY DEF SendRequest, TypeOK
<1>2. /\ call[c] = "idle" /\ call'[c] = "waiting" /\ sentTo'[c] = i
      /\ \A d \in Calls \ {c} : call'[d] = call[d] /\ sentTo'[d] = sentTo[d]
  BY <1>1 DEF SendRequest, CallMoves, TypeOK
<1>3. \A j \in Starts \ {i} : queue'[j] = queue[j] /\ current'[j] = current[j] /\ owner'[j] = owner[j]
  BY <1>1 DEF SendRequest, OwnerMoves, TypeOK
<1>4. \/ /\ owner[i] = "parked" /\ owner'[i] = "received" /\ current'[i] = c /\ queue'[i] = queue[i]
      \/ /\ Receiving(i) /\ owner'[i] = owner[i] /\ current'[i] = current[i]
         /\ queue'[i] = Append(queue[i], c)
  BY <1>1 DEF SendRequest, OwnerMoves, TypeOK
<1>5. \A j \in Starts : ~Held(c, j) BY <1>2 DEF StreamInv, PlaceInv
<1>6. queue[i] \in Seq(Calls) /\ Distinct(queue[i]) /\ ~Occurs(c, queue[i])
  BY <1>5 DEF TypeOK, StreamInv, Held
<1>7. /\ Distinct(Append(queue[i], c))
      /\ \A d \in Calls : Occurs(d, Append(queue[i], c)) <=> Occurs(d, queue[i]) \/ d = c
  BY <1>6, AppendOccurs
<1>8. ASSUME NEW d \in Calls, NEW j \in Starts PROVE PlaceInv(d, j)'
  <2>1. PlaceInv(d, j) BY DEF StreamInv
  <2>2. CASE j # i
    <3>1. Held(d, j)' <=> Held(d, j) BY <1>3, <2>2 DEF Held
    <3>2. CASE d = c BY <1>2, <1>3, <1>5, <2>2, <3>1, <3>2 DEF PlaceInv, Held
    <3>3. CASE d # c
      BY <1>2, <1>3, <2>1, <2>2, <3>1, <3>3 DEF PlaceInv, Reached, Receiving
    <3> QED BY <3>2, <3>3
  <2>3. CASE j = i
    <3>1. Held(d, i)' <=> Held(d, i) \/ d = c
      <4>1. CASE owner[i] = "parked" /\ current'[i] = c /\ queue'[i] = queue[i]
        <5>1. current[i] # d BY <2>1, <2>3, <4>1 DEF PlaceInv
        <5> QED BY <4>1, <5>1 DEF Held
      <4>2. CASE current'[i] = current[i] /\ queue'[i] = Append(queue[i], c)
        BY <1>7, <4>2 DEF Held
      <4> QED BY <1>4, <4>1, <4>2
    <3>2. (current[i] = d => owner[i] \in {"received", "calling"} /\ ~Occurs(d, queue[i]))'
      BY <1>4, <1>5, <1>6, <1>7, <2>1, <2>3 DEF PlaceInv, Held
    <3>3. Receiving(i) /\ Receiving(i)' BY <1>4 DEF Receiving
    <3> QED BY <1>2, <2>1, <2>3, <3>1, <3>2, <3>3 DEF PlaceInv, Reached
  <2> QED BY <2>2, <2>3
<1>9. \A j \in Starts : Distinct(queue[j])'
  BY <1>3, <1>4, <1>6, <1>7 DEF StreamInv
<1>10. \A d \in Calls : call'[d] = "waiting" => sentTo'[d] \in Starts
  BY <1>2 DEF StreamInv
<1> QED BY <1>8, <1>9, <1>10 DEF StreamInv

LEMMA StreamInvKept ==
  ASSUME TypeOK, IInv, StreamInv, [Next]_vars
  PROVE  StreamInv'
<1>0. HostAssumption /\ \A i \in Starts : current[i] # None => owner[i] \in {"received", "calling"}
  BY HostAssumption DEF StreamInv, PlaceInv, TypeOK
<1>1. CASE UNCHANGED vars
  BY <1>0, <1>1, StreamsKept DEF vars, lifecycle, streams, Reached, Receiving
<1>2. ASSUME NEW c \in Calls, NEW s \in Servers, SendRequest(c, s) PROVE StreamInv'
  BY <1>2, SendKeepsStreams
<1>3. ASSUME NEW i \in Starts, TakeRequest(i) PROVE StreamInv'
  BY <1>3, TakeKeepsStreams
<1>4. ASSUME NEW c \in Calls, AbandonCall(c) \/ \E s \in Servers : RefuseCall(c, s) PROVE StreamInv'
  <2>1. UNCHANGED <<queue, sentTo, current, owner>>
    BY <1>4 DEF AbandonCall, RefuseCall, lifecycle
  <2>2. \A d \in Calls : call'[d] = call[d] \/ call'[d] \notin {"idle", "waiting"}
    BY <1>4 DEF AbandonCall, RefuseCall, CallMoves, TypeOK
  <2> QED BY <1>0, <2>1, <2>2, StreamsKept DEF Reached, Receiving
<1>5. ASSUME NEW i \in Starts, FinishCall(i) \/ SessionDies(i) PROVE StreamInv'
  <2>1. /\ UNCHANGED <<queue, sentTo>> /\ Receiving(i)
        /\ current'[i] = None /\ owner'[i] \in {"looping", "closing"}
        /\ \A j \in Starts \ {i} : current'[j] = current[j] /\ owner'[j] = owner[j]
    BY <1>5 DEF FinishCall, SessionDies, ReplyCurrent, OwnerMoves, Receiving, TypeOK
  <2>2. \A d \in Calls : call'[d] = call[d] \/ call'[d] \notin {"idle", "waiting"}
    BY <1>5 DEF FinishCall, SessionDies, ReplyCurrent
  <2>3. ASSUME NEW d \in Calls, call'[d] = "waiting", Receiving(i)', current[i] = d PROVE FALSE
    <3>1. FinishCall(i) BY <1>5, <2>3 DEF SessionDies, OwnerMoves, Receiving, TypeOK
    <3> QED BY <2>3, <3>1 DEF FinishCall, ReplyCurrent
  <2>4. \A j \in Starts : (Receiving(j)' => Receiving(j)) /\ (Reached(j) => Reached(j)')
    BY <2>1 DEF Reached, Receiving
  <2> QED BY <1>0, <2>1, <2>2, <2>3, <2>4, StreamsKept
<1>6. ASSUME UNCHANGED streams,
             NEW i \in Starts, NEW from \in OwnerStates, NEW to \in OwnerStates, OwnerMoves(i, from, to),
             \/ from \in {"none", "opening", "rollback"} /\ to # "parked"
             \/ from \in {"looping", "parked", "closing"} /\ to \in {"parked", "closing", "done"}
             \/ from = "received" /\ to = "calling",
             Receiving(i)' => from \notin {"none", "rollback", "closing"}
      PROVE  StreamInv'
  <2>1. owner[i] = from /\ owner'[i] = to /\ \A j \in Starts \ {i} : owner'[j] = owner[j]
    BY <1>6 DEF OwnerMoves, TypeOK
  <2>2. \A j \in Starts : (Receiving(j)' => Receiving(j) \/ owner[j] = "opening") /\ (Reached(j) => Reached(j)')
    BY <1>6, <2>1 DEF Reached, Receiving, OwnerStates
  <2>3. \A j \in Starts : current[j] # None => owner'[j] \in {"received", "calling"}
    BY <1>0, <1>6, <2>1
  <2> QED BY <1>6, <2>2, <2>3, StreamsKept DEF streams
<1>7. ASSUME NEW i \in Starts,
             \/ SpawnOwner(i) \/ Opened(i) \/ OpenFails(i) \/ RollBack(i) \/ RollBackRaises(i)
             \/ Park(i) \/ RunRequest(i) \/ ObserveStop(i) \/ CloseTransport(i)
      PROVE  StreamInv'
  <2>1. CASE SpawnOwner(i)
    <3>1. UNCHANGED streams /\ OwnerMoves(i, "none", "opening") /\ ~Receiving(i)'
      BY <2>1 DEF SpawnOwner, StartMoves, OwnerMoves, Receiving, IInv, OwnerInv, TypeOK
    <3> QED BY <1>6, <3>1 DEF OwnerStates
  <2>2. CASE Opened(i)
    BY <1>6, <2>2 DEF Opened, OwnerStates
  <2>3. CASE OpenFails(i) \/ RollBack(i) \/ RollBackRaises(i)
    <3>1. UNCHANGED streams /\ ~Receiving(i)'
      BY <2>3 DEF OpenFails, RollBack, RollBackRaises, OwnerMoves, Receiving, TypeOK
    <3> QED BY <1>6, <2>3, <3>1 DEF OpenFails, RollBack, RollBackRaises, OwnerStates
  <2>4. CASE Park(i) \/ RunRequest(i)
    BY <1>6, <2>4 DEF Park, RunRequest, OwnerStates
  <2>5. CASE ObserveStop(i) \/ CloseTransport(i)
    <3>1. UNCHANGED streams /\ ~Receiving(i)'
      BY <2>5 DEF ObserveStop, CloseTransport, OwnerMoves, Receiving, TypeOK
    <3> QED BY <1>6, <2>5, <3>1 DEF ObserveStop, CloseTransport, OwnerStates
  <2> QED BY <1>7, <2>1, <2>2, <2>3, <2>4, <2>5
<1>8. ASSUME UNCHANGED <<owner, streams>> PROVE StreamInv'
  BY <1>0, <1>8, StreamsKept DEF streams, Reached, Receiving
<1>9. CASE Request
  <2>1. ASSUME NEW i \in Starts, NEW s \in Servers, BeginStart(i, s) PROVE StreamInv'
    BY <1>8, <2>1 DEF BeginStart
  <2>2. ASSUME NEW k \in Stops, NEW s \in Servers, StopServer(k, s) \/ StopNotRunning(k, s)
        PROVE  StreamInv'
    BY <1>8, <2>2 DEF StopServer, StopNotRunning, Detach, lifecycle
  <2>3. ASSUME NEW k \in Stops, BeginStopAll(k) PROVE StreamInv'
    BY <1>8, <2>3 DEF BeginStopAll, lifecycle
  <2> QED BY <1>2, <1>4, <1>9, <2>1, <2>2, <2>3 DEF Request
<1>10. ASSUME NEW i \in Starts, StartStep(i) PROVE StreamInv'
  BY <1>7, <1>8, <1>10 DEF StartStep, StartAlreadyRunning, EnterStart, ResolveFails, Publish,
                           StartReturns, StartRaises
<1>11. ASSUME NEW i \in Starts, OwnerStep(i) \/ Fault(i) PROVE StreamInv'
  BY <1>3, <1>5, <1>7, <1>11 DEF OwnerStep, Fault
<1>12. ASSUME NEW k \in Stops, StopStep(k) PROVE StreamInv'
  BY <1>8, <1>12 DEF StopStep, StopReturns, SweepServer, SweepSkips, Detach, lifecycle
<1> QED
  BY <1>1, <1>9, <1>10, <1>11, <1>12 DEF Next

\* A waiting request is current or in the stream, once, at the owner it was sent to
\* and at no other, for any number of owners and calls.
THEOREM RequestInOnePlaceAlways == Spec => []RequestInOnePlace
<1>1. Init => StreamInv
  BY HostAssumption DEF Init, StreamInv, PlaceInv, Held, Occurs, Distinct
<1>2. TypeOK /\ IInv /\ StreamInv /\ [Next]_vars => StreamInv'
  BY StreamInvKept
<1>3. TypeOK /\ StreamInv => RequestInOnePlace
  <2> SUFFICES ASSUME TypeOK, StreamInv, NEW c \in Calls, call[c] = "waiting", Receiving(sentTo[c])
               PROVE  \E n \in 0..Len(queue[sentTo[c]]) :
                        \A i \in Starts :
                          /\ current[i] = c <=> i = sentTo[c] /\ n = 0
                          /\ \A m \in 1..Len(queue[i]) : queue[i][m] = c <=> i = sentTo[c] /\ n = m
    BY DEF RequestInOnePlace
  <2>1. PICK o \in Starts : o = sentTo[c] BY DEF StreamInv
  <2>2. Held(c, o) BY <2>1 DEF StreamInv, PlaceInv
  <2>3. \A i \in Starts : PlaceInv(c, i) /\ Distinct(queue[i]) BY DEF StreamInv
  <2>4. ASSUME NEW i \in Starts, NEW m \in 1..Len(queue[i]), queue[i][m] = c PROVE Occurs(c, queue[i])
    BY <2>4 DEF Occurs
  <2>5. \A i \in Starts : Len(queue[i]) \in Nat BY DEF TypeOK
  <2>6. CASE current[o] = c
    <3>1. 0 \in 0..Len(queue[o]) BY <2>5
    <3>2. ASSUME NEW i \in Starts
          PROVE  /\ current[i] = c <=> i = o /\ 0 = 0
                 /\ \A m \in 1..Len(queue[i]) : queue[i][m] = c <=> i = o /\ 0 = m
      <4>1. \A m \in 1..Len(queue[i]) : m # 0 BY <2>5
      <4>2. current[i] = c => i = o BY <2>1, <2>3 DEF PlaceInv, Held
      <4>3. \A m \in 1..Len(queue[i]) : queue[i][m] # c
        BY <2>1, <2>3, <2>4, <2>6 DEF PlaceInv, Held
      <4> QED BY <2>6, <4>1, <4>2, <4>3
    <3> QED BY <2>1, <3>1, <3>2
  <2>7. CASE current[o] # c
    <3>1. PICK n \in 1..Len(queue[o]) : queue[o][n] = c BY <2>2, <2>7 DEF Held, Occurs
    <3>2. n \in 0..Len(queue[o]) /\ n # 0 BY <2>5, <3>1
    <3>3. ASSUME NEW i \in Starts
          PROVE  /\ current[i] = c <=> i = o /\ n = 0
                 /\ \A m \in 1..Len(queue[i]) : queue[i][m] = c <=> i = o /\ n = m
      <4>1. current[i] # c BY <2>1, <2>3, <2>7 DEF PlaceInv, Held
      <4>2. \A m \in 1..Len(queue[i]) : queue[i][m] = c => i = o
        BY <2>1, <2>3, <2>4 DEF PlaceInv, Held
      <4>3. \A m \in 1..Len(queue[o]) : queue[o][m] = c => m = n BY <2>3, <3>1 DEF Distinct
      <4> QED BY <3>1, <3>2, <4>1, <4>2, <4>3
    <3> QED BY <2>1, <3>2, <3>3
  <2> QED BY <2>6, <2>7
<1> QED
  BY <1>1, <1>2, <1>3, TypeCorrect, Inductive, PTL DEF Spec

(***************************************************************************)
(* What liveness rests on.  That stop and start come to an end is checked  *)
(* by TLC under fairness; that nobody ever waits for something that cannot *)
(* come, and that a stopped owner only gets nearer its end, are safety.    *)
(***************************************************************************)
\* What the future of an owner says of it; only a close that raises inside the
\* rollback ends an owner and leaves it pending.
ReadyOf(i) ==
  /\ owner[i] \in {"none", "opening", "rollback"} => ready[i] = "pending"
  /\ Reached(i) /\ owner[i] # "done" => ready[i] = "ok"
  /\ owner[i] = "done" /\ ready[i] = "pending" => "close_raises" \in Faults
  /\ Launched(i) => ready[i] = "ok"

\* Only an owner that was published is stopped, and it is published no more.
StoppedOf(i) == stopSet[i] => Launched(i) /\ handles[server[i]] # i

ProgressInv ==
  /\ \A i \in Starts : ReadyOf(i) /\ StoppedOf(i)
  /\ \A k \in Stops : target[k] # None => stopSet[target[k]]
  /\ \A s \in Servers : lock[s] # None => Launching(lock[s]) /\ server[lock[s]] = s

\* A step of start, the first included, keeps what ProgressInv says.
LEMMA StartKeepsProgress ==
  ASSUME TypeOK, IInv, ProgressInv, NEW i \in Starts,
         StartStep(i) \/ \E s \in Servers : BeginStart(i, s)
  PROVE  ProgressInv'
<1> USE HostAssumption DEF StartMoves, streams, stopping
<1>1. UNCHANGED <<stopSet, target, ready>> /\ \A j \in Starts \ {i} : start'[j] = start[j]
        /\ owner'[j] = owner[j] /\ server'[j] = server[j]
  BY DEF StartStep, BeginStart, StartAlreadyRunning, EnterStart, ResolveFails, SpawnOwner, Publish,
         StartReturns, StartRaises, TypeOK
<1>2. ReadyOf(i)'
  BY DEF ProgressInv, ReadyOf, StartStep, BeginStart, StartAlreadyRunning, EnterStart,
     ResolveFails, SpawnOwner, Publish,
         StartReturns, StartRaises, TypeOK, Launched, Reached, Receiving, IInv, OwnerInv
<1>3. \A j \in Starts \ {i} : ReadyOf(j)'
  BY <1>1 DEF ProgressInv, ReadyOf, Launched, Reached, Receiving
<1>4. ASSUME NEW j \in Starts PROVE StoppedOf(j)'
  <2>1. StoppedOf(j) BY DEF ProgressInv
  <2>2. Launched(j) => Launched(j)' /\ server'[j] = server[j]
    BY <1>1 DEF StartStep, BeginStart, StartAlreadyRunning, EnterStart, ResolveFails, SpawnOwner,
                Publish, StartReturns, StartRaises, Launched, TypeOK
  <2>3. CASE Publish(i)
    <3>1. handles' = [handles EXCEPT ![server[i]] = i] /\ ~Launched(i)
      BY <2>3 DEF Publish, Launched
    <3> QED BY <1>1, <2>1, <2>2, <3>1 DEF StoppedOf, TypeOK
  <2>4. CASE UNCHANGED handles
    BY <1>1, <2>1, <2>2, <2>4 DEF StoppedOf
  <2> QED
    BY <2>3, <2>4
       DEF StartStep, BeginStart, StartAlreadyRunning, EnterStart, ResolveFails, SpawnOwner,
                      StartReturns, StartRaises
<1>5. ASSUME NEW s \in Servers, lock'[s] # None PROVE Launching(lock[s])' /\ server'[lock'[s]] = s
  <2>1. lock[s] # None => Launching(lock[s]) /\ server[lock[s]] = s /\ lock[s] \in Starts
    BY DEF ProgressInv, TypeOK
  <2>2. CASE StartAlreadyRunning(i) \/ (\E t \in Servers : BeginStart(i, t)) \/ SpawnOwner(i)
               \/ Publish(i)
    <3>1. UNCHANGED lock /\ (Launching(i) => Launching(i)' /\ server'[i] = server[i])
      BY <2>2 DEF StartAlreadyRunning, BeginStart, SpawnOwner, Publish, Launching, TypeOK
    <3> QED BY <1>1, <1>5, <2>1, <3>1 DEF Launching
  <2>3. CASE EnterStart(i)
    <3>1. /\ lock' = [lock EXCEPT ![server[i]] = i] /\ UNCHANGED server
          /\ ~Launching(i) /\ Launching(i)'
      BY <2>3 DEF EnterStart, Launching, TypeOK
    <3>2. CASE s = server[i] BY <3>1, <3>2 DEF TypeOK
    <3>3. CASE s # server[i] BY <1>1, <1>5, <2>1, <3>1, <3>3 DEF Launching, TypeOK
    <3> QED BY <3>2, <3>3
  <2>4. CASE ResolveFails(i) \/ StartReturns(i) \/ StartRaises(i)
    <3>1. lock' = [lock EXCEPT ![server[i]] = None] /\ UNCHANGED server
      BY <2>4 DEF ResolveFails, StartReturns, StartRaises, Release
    <3>2. s # server[i] /\ lock'[s] = lock[s] BY <1>5, <3>1 DEF TypeOK
    <3> QED BY <1>1, <1>5, <2>1, <3>1, <3>2 DEF Launching
  <2> QED BY <2>2, <2>3, <2>4 DEF StartStep
<1> QED BY <1>1, <1>2, <1>3, <1>4, <1>5 DEF ProgressInv

\* A step of an owner, or a fault, moves that owner and its future only.
LEMMA OwnerKeepsProgress ==
  ASSUME TypeOK, IInv, ProgressInv, NEW i \in Starts,
         OwnerStep(i) \/ Fault(i)
  PROVE  ProgressInv'
<1>1. UNCHANGED <<handles, lock, start, server, stopSet, target>>
  BY DEF OwnerStep, Fault, Opened, OpenFails, RollBack, RollBackRaises, TakeRequest, Park,
         RunRequest, FinishCall, ObserveStop, SessionDies, CloseTransport, stopping
<1>2. \A j \in Starts \ {i} : owner'[j] = owner[j] /\ ready'[j] = ready[j]
  BY DEF OwnerStep, Fault, Opened, OpenFails, RollBack, RollBackRaises, TakeRequest, Park,
         RunRequest, FinishCall, ObserveStop, SessionDies, CloseTransport, OwnerMoves, TypeOK
<1>3. ReadyOf(i)'
  <2>1. ReadyOf(i) BY DEF ProgressInv
  <2>2. CASE Opened(i)
    BY <2>1, <2>2 DEF ReadyOf, Reached, Receiving, Launched, Opened, OwnerMoves, TypeOK
  <2>3. CASE OpenFails(i) \/ RollBack(i) \/ RollBackRaises(i)
    BY <2>1, <2>3
       DEF ReadyOf, Reached, Receiving, Launched, OpenFails, RollBack, RollBackRaises, OwnerMoves,
           TypeOK
  <2>4. ASSUME UNCHANGED ready, Reached(i), owner[i] # "done", Reached(i)' PROVE ReadyOf(i)'
    BY <1>1, <2>1, <2>4 DEF ReadyOf, Reached, Receiving, Launched
  <2>5. CASE TakeRequest(i) \/ Park(i) \/ RunRequest(i) \/ FinishCall(i) \/ ObserveStop(i)
               \/ SessionDies(i) \/ CloseTransport(i)
    <3>1. UNCHANGED ready
      BY <2>5
         DEF TakeRequest, Park, RunRequest, FinishCall, ObserveStop, SessionDies, CloseTransport
    <3>2. Reached(i) /\ owner[i] # "done" /\ Reached(i)'
      BY <2>5
         DEF TakeRequest, Park, RunRequest, FinishCall, ObserveStop, SessionDies, CloseTransport,
             OwnerMoves, Reached, Receiving, TypeOK
    <3> QED BY <2>4, <3>1, <3>2
  <2> QED BY <2>2, <2>3, <2>5 DEF OwnerStep, Fault
<1>4. \A j \in Starts \ {i} : ReadyOf(j)'
  BY <1>1, <1>2 DEF ProgressInv, ReadyOf, Launched, Reached, Receiving
<1> QED BY <1>1, <1>3, <1>4 DEF ProgressInv, StoppedOf, Launched, Launching

\* A request that is handed over wakes a published owner and changes nothing else.
LEMMA SendKeepsProgress ==
  ASSUME TypeOK, ProgressInv, NEW c \in Calls, NEW s \in Servers, SendRequest(c, s)
  PROVE  ProgressInv'
<1>1. UNCHANGED <<handles, lock, start, server, stopSet, target, ready>>
  BY DEF SendRequest, stopping
<1>2. \A i \in Starts : owner'[i] = owner[i] \/ (owner[i] = "parked" /\ owner'[i] = "received")
  BY DEF SendRequest, OwnerMoves, TypeOK
<1>3. \A i \in Starts : ReadyOf(i)'
  BY <1>1, <1>2 DEF ProgressInv, ReadyOf, Launched, Reached, Receiving
<1> QED BY <1>1, <1>3 DEF ProgressInv, StoppedOf, Launched, Launching

\* Popping a handle sets the stop event of the owner it named.
LEMMA DetachKeepsProgress ==
  ASSUME TypeOK, IInv, ProgressInv, NEW k \in Stops, NEW s \in Servers, Detach(k, s)
  PROVE  ProgressInv'
<1>1. PICK o \in Starts : o = handles[s] BY DEF Detach, TypeOK
<1>2. /\ UNCHANGED <<lock, start, server, owner, ready>>
      /\ handles' = [handles EXCEPT ![s] = None]
      /\ stopSet' = [stopSet EXCEPT ![o] = TRUE]
      /\ target' = [target EXCEPT ![k] = o]
  BY <1>1 DEF Detach
<1>3. server[o] = s /\ Launched(o) /\ o # None
  BY <1>1, HostAssumption DEF IInv, HandleInv
<1>4. \A i \in Starts : ReadyOf(i)' BY <1>2 DEF ProgressInv, ReadyOf, Launched, Reached, Receiving
<1>5. ASSUME NEW i \in Starts, stopSet'[i] PROVE Launched(i)' /\ handles'[server'[i]] # i
  BY <1>2, <1>3, <1>5, HostAssumption DEF ProgressInv, StoppedOf, Launched, TypeOK, IInv, LockInv
<1>6. \A j \in Stops : target'[j] # None => stopSet'[target'[j]]
  BY <1>2 DEF ProgressInv, TypeOK
<1>7. \A t \in Servers : lock'[t] # None => Launching(lock[t])' /\ server'[lock'[t]] = t
  BY <1>2 DEF ProgressInv, Launching
<1> QED BY <1>4, <1>5, <1>6, <1>7 DEF ProgressInv, StoppedOf

\* Every step keeps what ProgressInv says.
LEMMA ProgressKept ==
  ASSUME TypeOK, IInv, ProgressInv, [Next]_vars
  PROVE  ProgressInv'
<1>1. ASSUME UNCHANGED <<lifecycle, stopSet, target>> PROVE ProgressInv'
  BY <1>1 DEF lifecycle, ProgressInv, ReadyOf, StoppedOf, Launched, Launching, Reached, Receiving
<1>2. CASE Request
  <2>1. ASSUME NEW i \in Starts, NEW s \in Servers, BeginStart(i, s) PROVE ProgressInv'
    BY <2>1, StartKeepsProgress
  <2>2. ASSUME NEW k \in Stops, NEW s \in Servers, StopServer(k, s) \/ StopNotRunning(k, s)
        PROVE  ProgressInv'
    BY <1>1, <2>2, DetachKeepsProgress DEF StopServer, StopNotRunning
  <2>3. ASSUME NEW k \in Stops, BeginStopAll(k) PROVE ProgressInv'
    BY <1>1, <2>3 DEF BeginStopAll
  <2>4. ASSUME NEW c \in Calls, NEW s \in Servers, SendRequest(c, s) \/ RefuseCall(c, s)
        PROVE  ProgressInv'
    BY <1>1, <2>4, SendKeepsProgress DEF RefuseCall, stopping
  <2>5. ASSUME NEW c \in Calls, AbandonCall(c) PROVE ProgressInv'
    BY <1>1, <2>5 DEF AbandonCall, stopping
  <2> QED BY <1>2, <2>1, <2>2, <2>3, <2>4, <2>5 DEF Request
<1>3. ASSUME NEW i \in Starts, StartStep(i) \/ OwnerStep(i) \/ Fault(i) PROVE ProgressInv'
  BY <1>3, StartKeepsProgress, OwnerKeepsProgress
<1>4. ASSUME NEW k \in Stops, StopStep(k) PROVE ProgressInv'
  BY <1>1, <1>4, DetachKeepsProgress DEF StopStep, StopReturns, SweepServer, SweepSkips
<1>5. CASE UNCHANGED vars
  BY <1>1, <1>5 DEF vars, stopping
<1> QED BY <1>2, <1>3, <1>4, <1>5 DEF Next

\* ProgressInv holds in every reachable state.
LEMMA ProgressInductive == Spec => []ProgressInv
<1>1. Init => ProgressInv
  BY HostAssumption DEF Init, ProgressInv, ReadyOf, StoppedOf, Launched, Reached, Receiving
<1>2. TypeOK /\ IInv /\ ProgressInv /\ [Next]_vars => ProgressInv'
  BY ProgressKept
<1> QED BY <1>1, <1>2, TypeCorrect, Inductive, PTL DEF Spec

\* A start that finds the lock taken waits for a start past its check; a start that
\* awaits its owner waits for one still opening or rolling back, or for an answer
\* already there, unless a close raised; a stop awaits an owner told to stop.
WaitsForWork ==
  /\ \A i \in Starts : start[i] = "locking" /\ lock[server[i]] # None => Launching(lock[server[i]])
  /\ \A i \in Starts : start[i] = "awaiting" =>
       \/ owner[i] \in {"opening", "rollback"}
       \/ ready[i] = "ok"
       \/ ready[i] = "failed" /\ owner[i] = "done"
       \/ "close_raises" \in Faults
  /\ \A k \in Stops : stop[k] = "awaiting" => stopSet[target[k]] /\ Reached(target[k])

\* Whoever waits waits for somebody who can go on, for any number of tasks: the
\* start lock, the ready future and the owner awaited by stop form no cycle.
THEOREM WaitersHaveWork == Spec => []WaitsForWork
<1>1. TypeOK /\ IInv /\ ProgressInv => WaitsForWork
  <2> SUFFICES ASSUME TypeOK, IInv, ProgressInv PROVE WaitsForWork
    OBVIOUS
  <2>1. ASSUME NEW i \in Starts, start[i] = "locking", lock[server[i]] # None
        PROVE  Launching(lock[server[i]])
    BY <2>1 DEF ProgressInv, IInv, LockInv
  <2>2. ASSUME NEW i \in Starts, start[i] = "awaiting"
        PROVE \/ owner[i] \in {"opening", "rollback"}
              \/ ready[i] = "ok"
              \/ ready[i] = "failed" /\ owner[i] = "done"
              \/ "close_raises" \in Faults
    <3>1. ReadyOf(i) /\ owner[i] # "none" BY <2>2 DEF ProgressInv, IInv, OwnerInv
    <3> QED BY <3>1 DEF ReadyOf, Reached, Receiving, TypeOK, OwnerStates
  <2>3. ASSUME NEW k \in Stops, stop[k] = "awaiting" PROVE stopSet[target[k]] /\ Reached(target[k])
    <3>1. PICK o \in Starts : o = target[k] BY <2>3 DEF IInv, StopInv, TypeOK
    <3>2. stopSet[o] /\ Launched(o) /\ ReadyOf(o)
      BY <2>3, <3>1, HostAssumption DEF ProgressInv, StoppedOf
    <3>3. owner[o] \notin {"none", "opening", "rollback"} BY <3>2 DEF ReadyOf
    <3> QED BY <3>1, <3>2, <3>3 DEF Reached, Receiving, TypeOK, OwnerStates
  <2> QED BY <2>1, <2>2, <2>3 DEF WaitsForWork
<1> QED BY <1>1, TypeCorrect, Inductive, ProgressInductive, PTL

\* How many steps an owner told to stop can still take at most.
Remaining(at) ==
  CASE at = "looping" -> 5 [] at \in {"parked", "received"} -> 4 [] at = "calling" -> 3
    [] at = "closing" -> 2 [] OTHER -> 1

\* Each step of an owner told to stop brings it nearer its end.
WindsDown ==
  [][\A i \in Starts : stopSet[i] /\ owner'[i] # owner[i] =>
       Remaining(owner'[i]) < Remaining(owner[i])]_vars

\* Once the stop event is set an owner runs at most one more request and no new one
\* reaches it: stop waits for a bounded number of its steps, however long the stream.
THEOREM StoppedOwnersWindDown == Spec => WindsDown
<1>1. TypeOK /\ IInv /\ ProgressInv /\ [Next]_vars =>
        [\A i \in Starts : stopSet[i] /\ owner'[i] # owner[i] =>
           Remaining(owner'[i]) < Remaining(owner[i])]_vars
  <2> SUFFICES ASSUME TypeOK, IInv, ProgressInv, Next,
                      NEW i \in Starts, stopSet[i], owner'[i] # owner[i]
               PROVE  Remaining(owner'[i]) < Remaining(owner[i])
    OBVIOUS
  <2>1. /\ Launched(i) /\ handles[server[i]] # i
        /\ owner[i] \in {"looping", "parked", "received", "calling", "closing", "done"}
    BY DEF ProgressInv, StoppedOf, ReadyOf, TypeOK, OwnerStates
  <2>2. CASE Request
    \* A new request goes to a published owner: i is not one.
    <3>1. ASSUME NEW c \in Calls, NEW s \in Servers, SendRequest(c, s) PROVE FALSE
      <4>1. handles[s] # i BY <2>1, HostAssumption DEF IInv, HandleInv
      <4> QED BY <3>1, <4>1 DEF SendRequest, OwnerMoves, TypeOK
    <3> QED
      BY <2>2, <3>1 DEF Request, BeginStart, StopServer, Detach, StopNotRunning, BeginStopAll,
                        RefuseCall, AbandonCall, lifecycle
  <2>3. ASSUME NEW j \in Starts, StartStep(j) PROVE FALSE
    BY <2>1, <2>3
       DEF StartStep, StartMoves, StartAlreadyRunning, EnterStart, ResolveFails, SpawnOwner,
                      Publish, StartReturns, StartRaises, Launched, TypeOK
  <2>4. ASSUME NEW j \in Starts, OwnerStep(j) \/ Fault(j)
        PROVE  Remaining(owner'[i]) < Remaining(owner[i])
    <3>1. j = i
      BY <2>4 DEF OwnerStep, Fault, Opened, OpenFails, RollBack, RollBackRaises, TakeRequest, Park,
                  RunRequest, FinishCall, ObserveStop, SessionDies, CloseTransport, OwnerMoves,
                  TypeOK
    <3>2. \/ owner[i] = "looping" /\ owner'[i] \in {"received", "parked", "closing"}
          \/ owner[i] \in {"parked", "received"} /\ owner'[i] \in {"calling", "closing"}
          \/ owner[i] = "calling" /\ owner'[i] = "closing"
          \/ owner[i] = "closing" /\ owner'[i] = "done"
      BY <2>1, <2>4, <3>1
         DEF OwnerStep, Fault, Opened, OpenFails, RollBack, RollBackRaises, TakeRequest, Park,
             RunRequest, FinishCall, ObserveStop, SessionDies, CloseTransport, OwnerMoves, TypeOK
    <3> QED BY <3>2 DEF Remaining
  <2>5. ASSUME NEW k \in Stops, StopStep(k) PROVE FALSE
    BY <2>5 DEF StopStep, StopReturns, SweepServer, SweepSkips, Detach, lifecycle
  <2> QED BY <2>2, <2>3, <2>4, <2>5 DEF Next
<1> QED BY <1>1, TypeCorrect, Inductive, ProgressInductive, PTL DEF Spec, WindsDown

(***************************************************************************)
(* The host implements HostView, the view MCPServers has of it.            *)
(***************************************************************************)
\* A launch is in progress from the check of _handles to the publication; what a
\* start does under its lock after that, callers cannot tell.
ViewOf(s) ==
  IF handles[s] # None THEN "up"
  ELSE IF lock[s] # None /\ start[lock[s]] \in {"resolving", "awaiting"} THEN "launching"
  ELSE "down"

View == INSTANCE HostView WITH host <- [s \in Servers |-> ViewOf(s)]

\* A step in which callers see at most server s change.
LEMMA OneView ==
  ASSUME NEW s \in Servers, NEW v,
         ViewOf(s)' = v,
         \A t \in Servers \ {s} : ViewOf(t)' = ViewOf(t),
         \/ v = ViewOf(s)
         \/ ViewOf(s) = "down" /\ v = "launching"
         \/ ViewOf(s) = "launching" /\ v \in {"up", "down"}
         \/ ViewOf(s) = "up" /\ v = "down"
  PROVE  View!Next \/ UNCHANGED [t \in Servers |-> ViewOf(t)]
<1> DEFINE host == [t \in Servers |-> ViewOf(t)]
<1>1. host' = [host EXCEPT ![s] = v]
  OBVIOUS
<1>2. CASE v = ViewOf(s)
  BY <1>1, <1>2
<1>3. CASE v # ViewOf(s)
  <2>1. View!Launch(s) \/ View!LaunchEnds(s) \/ View!Stop(s)
    BY <1>1, <1>3 DEF View!Launch, View!LaunchEnds, View!Stop
  <2>. QED BY <2>1 DEF View!Next
<1>. QED BY <1>2, <1>3

\* A step that touches neither handles nor locks nor a start that holds one.
LEMMA SameView ==
  ASSUME UNCHANGED <<handles, lock>>,
         \A s \in Servers : lock[s] # None => start'[lock[s]] = start[lock[s]]
  PROVE  UNCHANGED [s \in Servers |-> ViewOf(s)]
BY DEF ViewOf

\* A popped server is down: the start that published it may still hold the lock,
\* but no other start has begun a launch.
LEMMA DetachView ==
  ASSUME TypeOK, IInv, ProgressInv, NEW k \in Stops, NEW s \in Servers, Detach(k, s)
  PROVE  View!Next \/ UNCHANGED [t \in Servers |-> ViewOf(t)]
<1>1. /\ handles[s] # None /\ handles' = [handles EXCEPT ![s] = None]
      /\ UNCHANGED <<lock, start>>
  BY DEF Detach
<1>2. \A t \in Servers \ {s} : ViewOf(t)' = ViewOf(t)
  BY <1>1 DEF ViewOf, TypeOK
<1>3. lock[s] # None => start[lock[s]] \notin {"resolving", "awaiting"}
  BY <1>1 DEF ProgressInv, IInv, LockInv, TypeOK
<1>4. ViewOf(s) = "up" /\ ViewOf(s)' = "down"
  BY <1>1, <1>3, HostAssumption DEF ViewOf, TypeOK
<1>. QED BY <1>2, <1>4, OneView

\* A start under the lock launches its server, publishes it or gives up.
LEMMA StartView ==
  ASSUME TypeOK, IInv, ProgressInv, NEW i \in Starts, StartStep(i)
  PROVE  View!Next \/ UNCHANGED [t \in Servers |-> ViewOf(t)]
<1> USE HostAssumption DEF StartMoves
<1>1. CASE StartAlreadyRunning(i)
  <2>1. \A s \in Servers : lock[s] # i
    BY <1>1 DEF StartAlreadyRunning, ProgressInv, Launching
  <2>. QED BY <1>1, <2>1, SameView DEF StartAlreadyRunning, TypeOK
<1>2. CASE ~StartAlreadyRunning(i)
  <2>1. PICK s \in Servers : s = server[i]
    BY <1>2 DEF StartStep, EnterStart, ResolveFails, SpawnOwner, Publish, StartReturns, StartRaises,
                IInv, LockInv
  <2>2. /\ \A t \in Servers \ {s} : handles'[t] = handles[t] /\ lock'[t] = lock[t]
        /\ \A j \in Starts \ {i} : start'[j] = start[j]
    BY <1>2, <2>1 DEF StartStep, EnterStart, ResolveFails, SpawnOwner, Publish, StartReturns,
                      StartRaises, Release, TypeOK
  <2>3. \A t \in Servers \ {s} : lock[t] # i
    BY <2>1 DEF ProgressInv
  <2>4. ASSUME NEW t \in Servers \ {s} PROVE ViewOf(t)' = ViewOf(t)
    BY <2>2, <2>3 DEF ViewOf, TypeOK
  <2>5. CASE EnterStart(i)
    BY <2>1, <2>4, <2>5, OneView DEF EnterStart, ViewOf, TypeOK
  <2>6. CASE Publish(i)
    <3>1. ViewOf(s) = "launching" /\ ViewOf(s)' = "up"
      BY <2>1, <2>6 DEF Publish, ViewOf, IInv, LockInv, Launching, TypeOK
    <3>. QED BY <2>4, <3>1, OneView
  <2>7. CASE ResolveFails(i) \/ StartRaises(i)
    <3>1. ViewOf(s) = "launching" /\ ViewOf(s)' = "down"
      BY <2>1, <2>7 DEF ResolveFails, StartRaises, Release, ViewOf, IInv, LockInv, Launching, TypeOK
    <3>. QED BY <2>4, <3>1, OneView
  <2>8. CASE SpawnOwner(i) \/ StartReturns(i)
    <3>1. ViewOf(s)' = ViewOf(s)
      BY <2>1, <2>8
         DEF SpawnOwner, StartReturns, Release, ViewOf, IInv, LockInv, Launching, TypeOK
    <3>. QED BY <2>4, <3>1, OneView
  <2>. QED BY <1>2, <2>5, <2>6, <2>7, <2>8 DEF StartStep
<1>. QED BY <1>1, <1>2

\* What MCPServers takes of the host is what the host does: a server is down,
\* launching or up, one launch excludes the others, and it leaves up by stop only.
THEOREM HostImplementsView == Spec => View!Spec
<1>1. Init => View!Init
  BY DEF Init, View!Init, ViewOf
<1>2. TypeOK /\ IInv /\ ProgressInv /\ [Next]_vars =>
        [View!Next]_([s \in Servers |-> ViewOf(s)])
  <2> SUFFICES ASSUME TypeOK, IInv, ProgressInv, [Next]_vars
               PROVE  View!Next \/ UNCHANGED [s \in Servers |-> ViewOf(s)]
    OBVIOUS
  <2>1. ASSUME UNCHANGED <<handles, lock, start>>
        PROVE  UNCHANGED [s \in Servers |-> ViewOf(s)]
    BY <2>1, SameView
  <2>2. CASE Request
    <3>1. ASSUME NEW i \in Starts, NEW s \in Servers, BeginStart(i, s)
          PROVE  UNCHANGED [t \in Servers |-> ViewOf(t)]
      <4>1. \A t \in Servers : lock[t] # i
        BY <3>1, HostAssumption DEF BeginStart, StartMoves, ProgressInv, Launching
      <4>. QED BY <3>1, <4>1, SameView DEF BeginStart, StartMoves, TypeOK
    <3>2. ASSUME NEW k \in Stops, NEW s \in Servers, StopServer(k, s) \/ StopNotRunning(k, s)
          PROVE  View!Next \/ UNCHANGED [t \in Servers |-> ViewOf(t)]
      BY <2>1, <3>2, DetachView DEF StopServer, StopNotRunning, lifecycle
    <3>3. ASSUME NEW k \in Stops, BeginStopAll(k)
          PROVE  UNCHANGED [t \in Servers |-> ViewOf(t)]
      BY <2>1, <3>3 DEF BeginStopAll, lifecycle
    <3>4. ASSUME NEW c \in Calls, NEW s \in Servers, SendRequest(c, s) \/ RefuseCall(c, s)
          PROVE  UNCHANGED [t \in Servers |-> ViewOf(t)]
      BY <2>1, <3>4 DEF SendRequest, RefuseCall, lifecycle
    <3>5. ASSUME NEW c \in Calls, AbandonCall(c)
          PROVE  UNCHANGED [t \in Servers |-> ViewOf(t)]
      BY <2>1, <3>5 DEF AbandonCall, lifecycle
    <3>. QED BY <2>2, <3>1, <3>2, <3>3, <3>4, <3>5 DEF Request
  <2>3. ASSUME NEW i \in Starts, OwnerStep(i) \/ Fault(i)
        PROVE  UNCHANGED [s \in Servers |-> ViewOf(s)]
    BY <2>1, <2>3 DEF OwnerStep, Fault, Opened, OpenFails, RollBack, RollBackRaises, TakeRequest,
                      Park, RunRequest, FinishCall, ObserveStop, SessionDies, CloseTransport
  <2>4. ASSUME NEW k \in Stops, StopStep(k)
        PROVE  View!Next \/ UNCHANGED [s \in Servers |-> ViewOf(s)]
    BY <2>1, <2>4, DetachView DEF StopStep, StopReturns, SweepServer, SweepSkips, lifecycle
  <2>5. CASE UNCHANGED vars
    BY <2>1, <2>5 DEF vars, lifecycle
  <2>. QED BY <2>2, <2>3, <2>4, <2>5, StartView DEF Next
<1>. QED BY <1>1, <1>2, TypeCorrect, Inductive, ProgressInductive, PTL DEF Spec, View!Spec
==============================================================================
