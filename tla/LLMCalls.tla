------------------------------- MODULE LLMCalls -------------------------------
(***************************************************************************)
(* LLM calls of one project: TracedLLMProvider.complete                    *)
(* (llm/traced_provider.py) around BudgetTracker (llm/budget.py) and       *)
(* LiteLLMProvider.complete (llm/litellm_provider.py).                     *)
(*                                                                         *)
(* A caller is a task that makes one call after another; callers share the *)
(* tracker, and the process's environment under _env_lock.  The lock of  *)
(* the tracker is never held across an await, so a check and a record are  *)
(* part of the step they occur in.  Money is counted in units; the cap is  *)
(* a number (without a cap the check never refuses).                       *)
(***************************************************************************)
EXTENDS Naturals, FiniteSets, SequencesExt

CONSTANTS
  Callers,   \* the tasks that make calls
  EnvVars,   \* names of environment variables a provider may set
  Cap,       \* cap_usd
  MaxCost,   \* the most one call can cost
  None

ASSUME LLMAssumption ==
  /\ IsFiniteSet(Callers)
  /\ Cap \in Nat /\ MaxCost \in Nat
  /\ None \notin Callers \cup EnvVars

VARIABLES
  spent,     \* _spent_usd
  pc,        \* pc[c]: where the call of c is
  scope,     \* scope[c]: the variable the provider of c sets, None for none
  keyed,     \* keyed[c]: the provider of c has an API key
  waiters,   \* the tasks that hold _env_lock or wait for it, in order
  env,       \* env[v]: the caller whose key v holds, None for the value at start
  previous   \* previous[c]: what c found in its variable

callState == <<pc, scope, keyed>>
envState  == <<waiters, env, previous>>
vars      == <<spent, callState, envState>>

TypeOK ==
  /\ spent \in Nat
  /\ pc \in [Callers -> {"idle", "locking", "calling", "emitting"}]
  /\ scope \in [Callers -> EnvVars \cup {None}]
  /\ keyed \in [Callers -> BOOLEAN]
  /\ waiters \in Seq(Callers)
  /\ env \in [EnvVars -> Callers \cup {None}]
  /\ previous \in [Callers -> Callers \cup {None}]

Init ==
  /\ spent = 0
  /\ pc = [c \in Callers |-> "idle"]
  /\ scope = [c \in Callers |-> None]
  /\ keyed = [c \in Callers |-> FALSE]
  /\ waiters = <<>>
  /\ env = [v \in EnvVars |-> None]
  /\ previous = [c \in Callers |-> None]

Moves(c, from, to) ==
  /\ pc[c] = from
  /\ pc' = [pc EXCEPT ![c] = to]

\* Mutant: the check is left out of complete.
AdmitUnchecked(c, v, k) ==
  /\ Moves(c, "idle", IF v = None THEN "calling" ELSE "locking")
  /\ scope' = [scope EXCEPT ![c] = v]
  /\ keyed' = [keyed EXCEPT ![c] = k]
  /\ waiters' = IF v = None THEN waiters ELSE Append(waiters, c)
  /\ UNCHANGED <<spent, env, previous>>

\* The check before the call; the budget is exhausted only beyond the cap.  A
\* provider with an env_var joins the queue of _env_lock.
Admit(c, v, k) ==
  /\ spent <= Cap
  /\ Moves(c, "idle", IF v = None THEN "calling" ELSE "locking")
  /\ scope' = [scope EXCEPT ![c] = v]
  /\ keyed' = [keyed EXCEPT ![c] = k]
  /\ waiters' = IF v = None THEN waiters ELSE Append(waiters, c)
  /\ UNCHANGED <<spent, env, previous>>

\* Mutant: the lock is not waited for.
EnterEnvUnlocked(c) ==
  /\ Moves(c, "locking", "calling")
  /\ previous' = [previous EXCEPT ![c] = env[scope[c]]]
  /\ env' = IF keyed[c] THEN [env EXCEPT ![scope[c]] = c] ELSE env
  /\ UNCHANGED <<spent, scope, keyed, waiters>>

\* _env_lock is granted in order; _scoped_env sets the variable when there is a
\* key to set it to.
EnterEnv(c) ==
  /\ waiters # <<>> /\ Head(waiters) = c
  /\ Moves(c, "locking", "calling")
  /\ previous' = [previous EXCEPT ![c] = env[scope[c]]]
  /\ env' = IF keyed[c] THEN [env EXCEPT ![scope[c]] = c] ELSE env
  /\ UNCHANGED <<spent, scope, keyed, waiters>>

\* Mutants of LeaveEnv: the variable keeps the key; the release of the lock
\* forgets the waiting tasks.
LeaveEnvSet(c) ==
  /\ waiters' = IF scope[c] = None THEN waiters ELSE Tail(waiters)
  /\ UNCHANGED <<env, previous>>

LeaveEnvLast(c) ==
  /\ waiters' = IF scope[c] = None THEN waiters ELSE <<>>
  /\ env' = IF scope[c] # None /\ keyed[c] THEN [env EXCEPT ![scope[c]] = previous[c]] ELSE env
  /\ UNCHANGED previous

\* The finally clause of _scoped_env and the release of _env_lock.
LeaveEnv(c) ==
  /\ waiters' = IF scope[c] = None THEN waiters ELSE Tail(waiters)
  /\ env' = IF scope[c] # None /\ keyed[c] THEN [env EXCEPT ![scope[c]] = previous[c]] ELSE env
  /\ UNCHANGED previous

\* Mutant: the sign of the cost is wrong.
Refund(c, cost) ==
  /\ Moves(c, "calling", "emitting")
  /\ LeaveEnv(c)
  /\ spent' = spent - cost
  /\ UNCHANGED <<scope, keyed>>

\* The provider answered: its cost is recorded before the llm.called event.
Answer(c, cost) ==
  /\ Moves(c, "calling", "emitting")
  /\ LeaveEnv(c)
  /\ spent' = spent + cost
  /\ UNCHANGED <<scope, keyed>>

\* The provider or the reading of its response raised: llm.error, no cost.
Fail(c) ==
  /\ Moves(c, "calling", "emitting")
  /\ LeaveEnv(c)
  /\ UNCHANGED <<spent, scope, keyed>>

Emitted(c) ==
  /\ Moves(c, "emitting", "idle")
  /\ UNCHANGED <<spent, scope, keyed, envState>>

\* The task is cancelled: a waiter leaves the queue, a running call restores the
\* environment; neither an event nor a cost is recorded.
Cancel(c) ==
  /\ \/ /\ Moves(c, "locking", "idle")
        /\ \E n \in 1..Len(waiters) :
             waiters[n] = c /\ waiters' = RemoveAt(waiters, n)
        /\ UNCHANGED <<env, previous>>
     \/ /\ Moves(c, "calling", "idle")
        /\ LeaveEnv(c)
  /\ UNCHANGED <<spent, scope, keyed>>

CallStep(c) ==
  \/ EnterEnv(c)
  \/ (\E cost \in 0..MaxCost : Answer(c, cost)) \/ Fail(c)
  \/ Emitted(c)

Next ==
  \E c \in Callers :
    \/ \E v \in EnvVars \cup {None}, k \in BOOLEAN : Admit(c, v, k)
    \/ CallStep(c)
    \/ Cancel(c)

Spec == Init /\ [][Next]_vars

\* Every task that can run does; a provider answers or times out
\* (timeout_seconds).  Callers may or may not make another call.
FairSpec == Spec /\ \A c \in Callers : WF_vars(CallStep(c))

(***************************************************************************)
(* Properties                                                              *)
(***************************************************************************)
\* The check and the record are far apart, so callers admitted together can all
\* spend: the overrun is at most one call per caller, and it can be reached.
OverrunBounded == spent <= Cap + Cardinality(Callers) * MaxCost

\* A provider that runs under _env_lock finds its own key in its variable, or,
\* without a key, the value the process started with: never another caller's.
OwnKeyInScope ==
  \A c \in Callers :
    pc[c] = "calling" /\ scope[c] # None =>
      env[scope[c]] = IF keyed[c] THEN c ELSE None

\* When no call holds _env_lock the environment is what it was, whether calls
\* ended, failed or were cancelled.
EnvRestored ==
  (\A c \in Callers : pc[c] = "calling" => scope[c] = None) =>
    env = [v \in EnvVars |-> None]

\* A call that waits for _env_lock gets it, whatever the others do.
WaiterServed == \A c \in Callers : pc[c] = "locking" ~> pc[c] # "locking"
==============================================================================
