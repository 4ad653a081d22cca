---------------------------- MODULE LLMCallsProofs ----------------------------
(***************************************************************************)
(* Proofs about LLMCalls, for any number of callers and variables.  The    *)
(* overrun of the budget is a counting argument over the calls in flight;  *)
(* the environment needs the queue of _env_lock to hold each scoped call   *)
(* once, with only the first of them running.                              *)
(***************************************************************************)
EXTENDS LLMCalls, SequenceTheorems, FiniteSetTheorems, TLAPS

InFlight == {c \in Callers : pc[c] \in {"locking", "calling"}}

Scoped(c) == scope[c] # None /\ pc[c] \in {"locking", "calling"}

(***************************************************************************)
(* The inductive invariants.  SpendInv: beyond the cap what is spent and   *)
(* what the calls in flight may still spend stay within the bound.         *)
(* QueueInv: the queue holds the scoped calls, each once, and those behind *)
(* the first are waiting.  EnvInv: the call at the front, if it runs, has  *)
(* set its variable and remembers the initial value; otherwise the         *)
(* environment is the initial one.                                         *)
(***************************************************************************)
SpendInv ==
  spent > Cap =>
    spent + Cardinality(InFlight) * MaxCost <= Cap + Cardinality(Callers) * MaxCost

QueueInv ==
  /\ \A c \in Callers : Scoped(c) <=> \E n \in 1..Len(waiters) : waiters[n] = c
  /\ \A m, n \in 1..Len(waiters) : waiters[m] = waiters[n] => m = n
  /\ \A n \in 2..Len(waiters) : pc[waiters[n]] = "locking"
  /\ \A c \in Callers : pc[c] = "locking" => scope[c] # None

Expected(c) ==
  [v \in EnvVars |-> IF keyed[c] /\ v = scope[c] THEN c ELSE None]

EnvInv ==
  /\ EnvRestored
  /\ \A c \in Callers :
       pc[c] = "calling" /\ scope[c] # None => previous[c] = None /\ env = Expected(c)

(***************************************************************************)
(* Types                                                                   *)
(***************************************************************************)
\* Removing one element of a sequence: what is left, and where it came from.
LEMMA RemoveAtProperties ==
  ASSUME NEW S, NEW s \in Seq(S), NEW n \in 1..Len(s)
  PROVE  /\ RemoveAt(s, n) \in Seq(S)
         /\ Len(RemoveAt(s, n)) = Len(s) - 1
         /\ \A m \in 1..(Len(s) - 1) :
              RemoveAt(s, n)[m] = IF m < n THEN s[m] ELSE s[m + 1]
<1> DEFINE front == SubSeq(s, 1, n - 1)
           back == SubSeq(s, n + 1, Len(s))
<1>1. /\ front \in Seq(S)
      /\ Len(front) = n - 1
      /\ \A i \in 1..(n - 1) : front[i] = s[i]
  <2>1. CASE n = 1
    <3>1. front = << >>
      BY <2>1, SubSeqEmpty
    <3>. QED BY <3>1, <2>1
  <2>2. CASE n # 1
    BY <2>2, SubSeqProperties
  <2>. QED BY <2>1, <2>2
<1>2. /\ back \in Seq(S)
      /\ Len(back) = Len(s) - n
      /\ \A i \in 1..(Len(s) - n) : back[i] = s[n + i]
  <2>1. CASE n = Len(s)
    <3>1. back = << >>
      BY <2>1, SubSeqEmpty
    <3>. QED BY <3>1, <2>1
  <2>2. CASE n # Len(s)
    BY <2>2, SubSeqProperties
  <2>. QED BY <2>1, <2>2
<1>3. RemoveAt(s, n) = front \o back
  BY DEF RemoveAt
<1>. HIDE DEF front, back
<1>4. /\ front \o back \in Seq(S)
      /\ Len(front \o back) = Len(s) - 1
  <2>1. /\ front \o back \in Seq(S)
        /\ Len(front \o back) = Len(front) + Len(back)
    BY <1>1, <1>2, ConcatProperties
  <2>2. Len(s) \in Nat /\ n \in Nat
    OBVIOUS
  <2>. QED BY <1>1, <1>2, <2>1, <2>2
<1>5. ASSUME NEW m \in 1..(Len(s) - 1)
      PROVE  (front \o back)[m] = IF m < n THEN s[m] ELSE s[m + 1]
  <2>1. (front \o back)[m] = IF m <= n - 1 THEN front[m] ELSE back[m - (n - 1)]
    <3>1. \A i \in 1..(Len(front) + Len(back)) : (front \o back)[i] =
            IF i <= Len(front) THEN front[i] ELSE back[i - Len(front)]
      BY <1>1, <1>2, ConcatProperties
    <3>. QED BY <1>1, <1>2, <3>1
  <2>. QED BY <1>1, <1>2, <2>1
<1>. QED BY <1>3, <1>4, <1>5

LEMMA TailProperties ==
  ASSUME NEW S, NEW s \in Seq(S), s # << >>
  PROVE  /\ Tail(s) \in Seq(S)
         /\ Len(Tail(s)) = Len(s) - 1
         /\ \A n \in 1..(Len(s) - 1) : Tail(s)[n] = s[n + 1]
         /\ Head(s) = s[1]
  OBVIOUS

(***************************************************************************)
(* Types: previous[c] is read from the environment, so that a call that    *)
(* waits for the lock has a variable matters here already.                 *)
(***************************************************************************)
LEMMA TypeStep == TypeOK /\ QueueInv /\ [Next]_vars => TypeOK'
<1> SUFFICES ASSUME TypeOK, QueueInv, [Next]_vars PROVE TypeOK'
  OBVIOUS
<1>. USE LLMAssumption DEF TypeOK, Moves
<1>1. ASSUME NEW c \in Callers, NEW v \in EnvVars \cup {None}, NEW k \in BOOLEAN,
             Admit(c, v, k)
      PROVE  TypeOK'
  BY <1>1 DEF Admit
<1>2. ASSUME NEW c \in Callers, EnterEnv(c) PROVE TypeOK'
  <2>1. scope[c] \in EnvVars
    BY <1>2 DEF EnterEnv, QueueInv
  <2>. QED BY <1>2, <2>1 DEF EnterEnv
<1>3. ASSUME NEW c \in Callers, pc[c] = "calling", LeaveEnv(c)
      PROVE  waiters' \in Seq(Callers) /\ env' \in [EnvVars -> Callers \cup {None}]
             /\ previous' \in [Callers -> Callers \cup {None}]
  <2>1. scope[c] # None => waiters # << >>
    BY <1>3 DEF QueueInv, Scoped
  <2>2. waiters' \in Seq(Callers)
    BY <1>3, <2>1, TailProperties DEF LeaveEnv
  <2>3. env' \in [EnvVars -> Callers \cup {None}]
    BY <1>3 DEF LeaveEnv
  <2>. QED BY <1>3, <2>2, <2>3 DEF LeaveEnv
<1>4. ASSUME NEW c \in Callers, NEW cost \in 0..MaxCost, Answer(c, cost) PROVE TypeOK'
  BY <1>3, <1>4 DEF Answer
<1>5. ASSUME NEW c \in Callers, Fail(c) PROVE TypeOK'
  BY <1>3, <1>5 DEF Fail
<1>6. ASSUME NEW c \in Callers, Emitted(c) PROVE TypeOK'
  BY <1>6 DEF Emitted, envState
<1>7. ASSUME NEW c \in Callers, Cancel(c) PROVE TypeOK'
  <2>1. CASE pc[c] = "locking"
    <3>1. PICK n \in 1..Len(waiters) : waiters' = RemoveAt(waiters, n)
      BY <1>7, <2>1 DEF Cancel
    <3>2. waiters' \in Seq(Callers)
      BY <3>1, RemoveAtProperties
    <3>. QED BY <1>7, <2>1, <3>2 DEF Cancel
  <2>2. CASE pc[c] # "locking"
    <3>1. pc[c] = "calling" /\ LeaveEnv(c)
      BY <1>7, <2>2 DEF Cancel
    <3>. QED BY <1>3, <1>7, <2>2, <3>1 DEF Cancel
  <2>. QED BY <2>1, <2>2
<1>8. CASE UNCHANGED vars
  BY <1>8 DEF vars, callState, envState
<1>. QED BY <1>1, <1>2, <1>4, <1>5, <1>6, <1>7, <1>8 DEF Next, CallStep

(***************************************************************************)
(* The budget                                                              *)
(***************************************************************************)
\* The calls in flight are finitely many, at most one per caller.
LEMMA FlightCount ==
  TypeOK => /\ IsFiniteSet(InFlight)
            /\ Cardinality(InFlight) \in Nat
            /\ Cardinality(Callers) \in Nat
            /\ Cardinality(InFlight) <= Cardinality(Callers)
  BY LLMAssumption, FS_Subset, FS_CardinalityType DEF InFlight, TypeOK

LEMMA SpendStep == TypeOK /\ SpendInv /\ [Next]_vars => SpendInv'
<1> SUFFICES ASSUME TypeOK, SpendInv, [Next]_vars PROVE SpendInv'
  OBVIOUS
<1> DEFINE k == Cardinality(InFlight)
           n == Cardinality(Callers)
<1>. k \in Nat /\ n \in Nat /\ k <= n /\ IsFiniteSet(InFlight)
  BY FlightCount
\* A call leaves the calls in flight and spends at most MaxCost.
<1>1. ASSUME NEW c \in Callers, NEW cost \in 0..MaxCost,
             c \in InFlight, InFlight' = InFlight \ {c}, spent' = spent + cost
      PROVE  SpendInv'
  <2>1. Cardinality(InFlight') = k - 1 /\ k >= 1
    <3>1. Cardinality(InFlight \ {c}) = k - 1
      BY <1>1, FS_RemoveElement
    <3>2. k # 0
      BY <1>1, FS_EmptySet
    <3>. QED BY <1>1, <3>1, <3>2
  <2>. HIDE DEF k, n
  <2>2. (k - 1) * MaxCost + MaxCost = k * MaxCost
    BY <2>1, LLMAssumption
  <2>3. k * MaxCost <= n * MaxCost
    BY <2>1, LLMAssumption
  <2>4. /\ k * MaxCost \in Nat /\ n * MaxCost \in Nat
        /\ (k - 1) * MaxCost \in Nat
    BY <2>1, LLMAssumption
  <2>5. spent + cost + (k - 1) * MaxCost <= Cap + n * MaxCost
    <3>1. /\ spent \in Nat /\ cost \in Nat /\ cost <= MaxCost
          /\ Cap \in Nat /\ MaxCost \in Nat
      BY LLMAssumption DEF TypeOK
    <3>2. spent > Cap => spent + k * MaxCost <= Cap + n * MaxCost
      BY DEF SpendInv, k, n
    <3> DEFINE A == (k - 1) * MaxCost
               B == k * MaxCost
               C == n * MaxCost
    <3>3. A \in Nat /\ B \in Nat /\ C \in Nat /\ A + MaxCost = B /\ B <= C
      BY <2>2, <2>3, <2>4
    <3>4. spent > Cap => spent + B <= Cap + C
      BY <3>2
    <3>. HIDE DEF A, B, C
    <3>5. spent + cost + A <= Cap + C
      BY <3>1, <3>3, <3>4
    <3>. QED BY <3>5 DEF A, C
  <2>. QED BY <1>1, <2>1, <2>5 DEF SpendInv, n
<1>2. ASSUME NEW c \in Callers, NEW v \in EnvVars \cup {None}, NEW b \in BOOLEAN,
             Admit(c, v, b)
      PROVE  SpendInv'
  BY <1>2, LLMAssumption DEF Admit, SpendInv, TypeOK
<1>3. ASSUME spent' = spent, InFlight' = InFlight PROVE SpendInv'
  BY <1>3 DEF SpendInv
<1>4. ASSUME NEW c \in Callers, EnterEnv(c) PROVE SpendInv'
  <2>1. InFlight' = InFlight
    BY <1>4 DEF EnterEnv, Moves, InFlight, TypeOK
  <2>. QED BY <1>3, <1>4, <2>1 DEF EnterEnv
<1>5. ASSUME NEW c \in Callers, NEW cost \in 0..MaxCost, Answer(c, cost) PROVE SpendInv'
  <2>1. c \in InFlight /\ InFlight' = InFlight \ {c}
    BY <1>5 DEF Answer, Moves, InFlight, TypeOK
  <2>. QED BY <1>1, <1>5, <2>1 DEF Answer
<1>6. ASSUME NEW c \in Callers, Fail(c) PROVE SpendInv'
  <2>1. c \in InFlight /\ InFlight' = InFlight \ {c} /\ spent' = spent + 0
    BY <1>6 DEF Fail, Moves, InFlight, TypeOK
  <2>. QED BY <1>1, <2>1, LLMAssumption
<1>7. ASSUME NEW c \in Callers, Emitted(c) PROVE SpendInv'
  <2>1. InFlight' = InFlight
    BY <1>7 DEF Emitted, Moves, InFlight, TypeOK
  <2>. QED BY <1>3, <1>7, <2>1 DEF Emitted
<1>8. ASSUME NEW c \in Callers, Cancel(c) PROVE SpendInv'
  <2>1. c \in InFlight /\ InFlight' = InFlight \ {c} /\ spent' = spent + 0
    BY <1>8 DEF Cancel, Moves, InFlight, TypeOK
  <2>. QED BY <1>1, <2>1, LLMAssumption
<1>9. CASE UNCHANGED vars
  BY <1>3, <1>9 DEF vars, callState, InFlight
<1>. QED BY <1>2, <1>4, <1>5, <1>6, <1>7, <1>8, <1>9 DEF Next, CallStep

(***************************************************************************)
(* The queue of _env_lock                                                  *)
(***************************************************************************)
\* A scoped call that runs is the first in the queue, so there is one at most.
LEMMA RunnerIsFirst ==
  ASSUME TypeOK, QueueInv, NEW c \in Callers, pc[c] = "calling", scope[c] # None
  PROVE  /\ waiters # << >> /\ Len(waiters) \in Nat /\ Len(waiters) >= 1
         /\ waiters[1] = c
         /\ \A d \in Callers : pc[d] = "calling" /\ scope[d] # None => d = c
<1>1. Len(waiters) \in Nat
  BY DEF TypeOK
<1>2. ASSUME NEW d \in Callers, pc[d] = "calling", scope[d] # None
      PROVE  Len(waiters) >= 1 /\ waiters[1] = d
  <2>1. PICK n \in 1..Len(waiters) : waiters[n] = d
    BY <1>2 DEF QueueInv, Scoped
  <2>2. ~(n \in 2..Len(waiters))
    BY <1>2, <2>1 DEF QueueInv
  <2>3. n = 1
    BY <1>1, <2>2
  <2>. QED BY <1>1, <2>1, <2>3
<1>. QED BY <1>1, <1>2 DEF TypeOK

\* A call that ends takes the one place it had out of the queue.
LEMMA RemovalKeepsQueue ==
  ASSUME TypeOK, QueueInv, NEW c \in Callers, NEW to \in {"idle", "emitting"},
         NEW n \in 1..Len(waiters), waiters[n] = c,
         Len(waiters') = Len(waiters) - 1,
         \A m \in 1..(Len(waiters) - 1) :
           waiters'[m] = IF m < n THEN waiters[m] ELSE waiters[m + 1],
         pc' = [pc EXCEPT ![c] = to], scope' = scope
  PROVE  QueueInv'
<1>. DEFINE L == Len(waiters)
<1>1. L \in Nat /\ waiters \in [1..L -> Callers]
  BY DEF TypeOK
<1>2. \A d \in Callers : pc'[d] = IF d = c THEN to ELSE pc[d]
  BY DEF TypeOK
<1>3. \A d \in Callers : Scoped(d)' <=> Scoped(d) /\ d # c
  BY <1>2 DEF Scoped
<1>4. \A m \in 1..L : m # n => waiters[m] # c
  BY DEF QueueInv
<1>5. ASSUME NEW d \in Callers
      PROVE  (\E m \in 1..Len(waiters') : waiters'[m] = d)
               <=> (d # c /\ \E m \in 1..L : waiters[m] = d)
  <2>1. ASSUME NEW m \in 1..Len(waiters'), waiters'[m] = d
        PROVE  d # c /\ \E i \in 1..L : waiters[i] = d
    <3>1. CASE m < n
      BY <1>1, <1>4, <2>1, <3>1
    <3>2. CASE ~(m < n)
      <4>1. m + 1 \in 1..L /\ m + 1 # n /\ waiters[m + 1] = d
        BY <1>1, <2>1, <3>2
      <4>. QED BY <1>4, <4>1
    <3>. QED BY <3>1, <3>2
  <2>2. ASSUME NEW i \in 1..L, waiters[i] = d, d # c
        PROVE  \E m \in 1..Len(waiters') : waiters'[m] = d
    <3>1. CASE i < n
      <4>1. i \in 1..Len(waiters') /\ waiters'[i] = d
        BY <1>1, <2>2, <3>1
      <4>. QED BY <4>1
    <3>2. CASE i > n
      <4>1. i - 1 \in 1..Len(waiters') /\ ~(i - 1 < n) /\ (i - 1) + 1 = i
        BY <1>1, <3>2
      <4>2. waiters'[i - 1] = d
        BY <2>2, <4>1
      <4>. QED BY <4>1, <4>2
    <3>. QED BY <1>1, <2>2, <3>1, <3>2
  <2>. QED BY <2>1, <2>2
<1>6. \A d \in Callers : Scoped(d)' <=> \E m \in 1..Len(waiters') : waiters'[m] = d
  BY <1>3, <1>5 DEF QueueInv
<1>7. ASSUME NEW l \in 1..Len(waiters'), NEW m \in 1..Len(waiters'),
             waiters'[l] = waiters'[m]
      PROVE  l = m
  <2>1. PICK i \in 1..L : waiters'[l] = waiters[i] /\ i = IF l < n THEN l ELSE l + 1
    BY <1>1
  <2>2. PICK j \in 1..L : waiters'[m] = waiters[j] /\ j = IF m < n THEN m ELSE m + 1
    BY <1>1
  <2>3. i = j
    <3>1. \A x, y \in 1..L : waiters[x] = waiters[y] => x = y
      BY DEF QueueInv
    <3>2. waiters[i] = waiters[j]
      BY <1>7, <2>1, <2>2
    <3>. QED BY <3>1, <3>2
  <2>. QED BY <1>1, <2>1, <2>2, <2>3
<1>8. ASSUME NEW m \in 2..Len(waiters') PROVE pc'[waiters'[m]] = "locking"
  <2>1. PICK i \in 2..L : i # n /\ waiters'[m] = waiters[i]
    <3>1. CASE m < n
      BY <1>1, <3>1
    <3>2. CASE ~(m < n)
      <4>1. m + 1 \in 2..L /\ m + 1 # n /\ waiters'[m] = waiters[m + 1]
        BY <1>1, <3>2
      <4>. QED BY <4>1
    <3>. QED BY <3>1, <3>2
  <2>2. pc[waiters[i]] = "locking" /\ waiters[i] # c /\ waiters[i] \in Callers
    BY <1>1, <1>4, <2>1 DEF QueueInv
  <2>. QED BY <1>2, <2>1, <2>2
<1>9. \A d \in Callers : pc'[d] = "locking" => scope'[d] # None
  BY <1>2 DEF QueueInv
<1>. QED BY <1>6, <1>7, <1>8, <1>9 DEF QueueInv

LEMMA QueueStep == TypeOK /\ QueueInv /\ [Next]_vars => QueueInv'
<1> SUFFICES ASSUME TypeOK, QueueInv, [Next]_vars PROVE QueueInv'
  OBVIOUS
<1>0. Len(waiters) \in Nat
  BY DEF TypeOK
<1>1. ASSUME NEW c \in Callers, NEW v \in EnvVars \cup {None}, NEW k \in BOOLEAN,
             Admit(c, v, k)
      PROVE  QueueInv'
  <2>1. ~Scoped(c) /\ \A n \in 1..Len(waiters) : waiters[n] # c /\ waiters[n] \in Callers
    BY <1>1 DEF Admit, Moves, QueueInv, Scoped, TypeOK
  <2>2. \A d \in Callers : Scoped(d)' <=> (IF d = c THEN v # None ELSE Scoped(d))
    BY <1>1 DEF Admit, Moves, Scoped, TypeOK
  <2>3. \A d \in Callers : pc'[d] = "locking" => scope'[d] # None
    BY <1>1 DEF Admit, Moves, QueueInv, TypeOK
  <2>4. \A d \in Callers : d # c => pc'[d] = pc[d]
    BY <1>1 DEF Admit, Moves, TypeOK
  <2>5. CASE v = None
    <3>1. waiters' = waiters
      BY <1>1, <2>5 DEF Admit
    <3>2. \A d \in Callers : Scoped(d)' <=> \E n \in 1..Len(waiters) : waiters[n] = d
      BY <2>1, <2>2, <2>5 DEF QueueInv
    <3>3. \A n \in 2..Len(waiters) : pc'[waiters[n]] = "locking"
      BY <1>0, <2>1, <2>4 DEF QueueInv
    <3>. QED BY <2>3, <3>1, <3>2, <3>3 DEF QueueInv
  <2>6. CASE v # None
    <3>1. /\ Len(waiters') = Len(waiters) + 1
          /\ \A n \in 1..Len(waiters) : waiters'[n] = waiters[n]
          /\ waiters'[Len(waiters) + 1] = c
          /\ pc'[c] = "locking"
      BY <1>1, <2>6, AppendProperties DEF Admit, Moves, TypeOK
    <3>2. ASSUME NEW d \in Callers
          PROVE  Scoped(d)' <=> \E n \in 1..Len(waiters') : waiters'[n] = d
      <4>1. CASE d = c
        <5>1. Len(waiters) + 1 \in 1..Len(waiters')
          BY <1>0, <3>1
        <5>. QED BY <2>2, <2>6, <3>1, <4>1, <5>1
      <4>2. CASE d # c
        <5>1. (\E n \in 1..Len(waiters') : waiters'[n] = d)
                <=> \E n \in 1..Len(waiters) : waiters[n] = d
          BY <1>0, <3>1, <4>2
        <5>. QED BY <2>2, <4>2, <5>1 DEF QueueInv
      <4>. QED BY <4>1, <4>2
    <3>3. ASSUME NEW m \in 1..Len(waiters'), NEW n \in 1..Len(waiters'),
                 waiters'[m] = waiters'[n]
          PROVE  m = n
      <4>1. \A x, y \in 1..Len(waiters) : waiters[x] = waiters[y] => x = y
        BY DEF QueueInv
      <4>2. \A x \in 1..Len(waiters') : x \in 1..Len(waiters) \/ x = Len(waiters) + 1
        BY <1>0, <3>1
      <4>. QED BY <2>1, <3>1, <3>3, <4>1, <4>2
    <3>4. ASSUME NEW n \in 2..Len(waiters') PROVE pc'[waiters'[n]] = "locking"
      <4>1. CASE n = Len(waiters) + 1
        BY <3>1, <4>1
      <4>2. CASE n # Len(waiters) + 1
        <5>1. n \in 2..Len(waiters) /\ n \in 1..Len(waiters)
          BY <1>0, <3>1, <4>2
        <5>. QED BY <2>1, <2>4, <3>1, <5>1 DEF QueueInv
      <4>. QED BY <4>1, <4>2
    <3>. QED BY <2>3, <3>2, <3>3, <3>4 DEF QueueInv
  <2>. QED BY <2>5, <2>6
<1>2. ASSUME NEW c \in Callers, EnterEnv(c) PROVE QueueInv'
  <2>1. waiters' = waiters /\ waiters[1] = c /\ 1 \in 1..Len(waiters)
    BY <1>0, <1>2 DEF EnterEnv, TypeOK
  <2>2. \A d \in Callers : Scoped(d)' <=> Scoped(d)
    BY <1>2 DEF EnterEnv, Moves, Scoped, TypeOK
  <2>3. ASSUME NEW n \in 2..Len(waiters) PROVE pc'[waiters[n]] = "locking"
    <3>1. n \in 1..Len(waiters) /\ n # 1
      BY <1>0
    <3>2. waiters[n] # c /\ waiters[n] \in Callers
      BY <2>1, <3>1 DEF QueueInv, TypeOK
    <3>. QED BY <1>2, <3>2 DEF EnterEnv, Moves, QueueInv, TypeOK
  <2>4. \A d \in Callers : pc'[d] = "locking" => scope'[d] # None
    BY <1>2 DEF EnterEnv, Moves, QueueInv, TypeOK
  <2>. QED BY <2>1, <2>2, <2>3, <2>4 DEF QueueInv
<1>3. ASSUME NEW c \in Callers, NEW to \in {"idle", "emitting"},
             Moves(c, "calling", to), LeaveEnv(c), scope' = scope
      PROVE  QueueInv'
  <2>1. CASE scope[c] = None
    <3>1. waiters' = waiters /\ ~Scoped(c)
      BY <1>3, <2>1 DEF LeaveEnv, Scoped
    <3>2. \A d \in Callers : Scoped(d)' <=> Scoped(d)
      BY <1>3, <2>1 DEF Moves, Scoped, TypeOK
    <3>3. ASSUME NEW n \in 2..Len(waiters) PROVE pc'[waiters[n]] = "locking"
      <4>1. pc[waiters[n]] = "locking" /\ waiters[n] \in Callers
        BY <1>0 DEF QueueInv, TypeOK
      <4>. QED BY <1>3, <4>1 DEF Moves, TypeOK
    <3>4. \A d \in Callers : pc'[d] = "locking" => scope'[d] # None
      BY <1>3 DEF Moves, QueueInv, TypeOK
    <3>. QED BY <3>1, <3>2, <3>3, <3>4 DEF QueueInv
  <2>2. CASE scope[c] # None
    <3>1. waiters # << >> /\ Len(waiters) >= 1 /\ waiters[1] = c
      BY <1>3, <2>2, RunnerIsFirst DEF Moves
    <3>2. waiters' = Tail(waiters)
      BY <1>3, <2>2 DEF LeaveEnv
    <3>3. /\ Len(waiters') = Len(waiters) - 1
          /\ \A m \in 1..(Len(waiters) - 1) : waiters'[m] = waiters[m + 1]
      BY <3>1, <3>2, TailProperties DEF TypeOK
    <3>4. \A m \in 1..(Len(waiters) - 1) :
            waiters'[m] = IF m < 1 THEN waiters[m] ELSE waiters[m + 1]
      BY <1>0, <3>3
    <3>5. 1 \in 1..Len(waiters)
      BY <1>0, <3>1
    <3>. QED BY <1>3, <3>1, <3>3, <3>4, <3>5, RemovalKeepsQueue DEF Moves
  <2>. QED BY <2>1, <2>2
<1>4. ASSUME NEW c \in Callers, NEW cost \in 0..MaxCost, Answer(c, cost) PROVE QueueInv'
  BY <1>3, <1>4 DEF Answer
<1>5. ASSUME NEW c \in Callers, Fail(c) PROVE QueueInv'
  BY <1>3, <1>5 DEF Fail
<1>6. ASSUME NEW c \in Callers, Emitted(c) PROVE QueueInv'
  <2>1. waiters' = waiters /\ \A d \in Callers : Scoped(d)' <=> Scoped(d)
    BY <1>6 DEF Emitted, envState, Moves, Scoped, TypeOK
  <2>2. \A d \in Callers : pc[d] = "locking" <=> pc'[d] = "locking"
    BY <1>6 DEF Emitted, Moves, TypeOK
  <2>3. \A n \in 2..Len(waiters) : pc'[waiters[n]] = "locking"
    BY <1>0, <2>2 DEF QueueInv, TypeOK
  <2>4. \A d \in Callers : pc'[d] = "locking" => scope'[d] # None
    BY <1>6, <2>2 DEF Emitted, QueueInv
  <2>. QED BY <2>1, <2>3, <2>4 DEF QueueInv
<1>7. ASSUME NEW c \in Callers, Cancel(c) PROVE QueueInv'
  <2>1. CASE pc[c] = "locking"
    <3>1. PICK n \in 1..Len(waiters) :
            waiters[n] = c /\ waiters' = RemoveAt(waiters, n)
      BY <1>7, <2>1 DEF Cancel, Moves
    <3>2. /\ Len(waiters') = Len(waiters) - 1
          /\ \A m \in 1..(Len(waiters) - 1) :
               waiters'[m] = IF m < n THEN waiters[m] ELSE waiters[m + 1]
      BY <3>1, RemoveAtProperties DEF TypeOK
    <3>3. pc' = [pc EXCEPT ![c] = "idle"] /\ scope' = scope
      BY <1>7 DEF Cancel, Moves
    <3>. QED BY <3>1, <3>2, <3>3, RemovalKeepsQueue
  <2>2. CASE pc[c] # "locking"
    BY <1>3, <1>7, <2>2 DEF Cancel, Moves
  <2>. QED BY <2>1, <2>2
<1>8. CASE UNCHANGED vars
  BY <1>8 DEF vars, callState, envState, QueueInv, Scoped
<1>. QED BY <1>1, <1>2, <1>4, <1>5, <1>6, <1>7, <1>8 DEF Next, CallStep

(***************************************************************************)
(* The environment                                                         *)
(***************************************************************************)
\* What the environment is when no scoped call runs.
AtStart == [v \in EnvVars |-> None]

LEMMA EnvStep == TypeOK /\ QueueInv /\ EnvInv /\ [Next]_vars => EnvInv'
<1> SUFFICES ASSUME TypeOK, QueueInv, EnvInv, [Next]_vars PROVE EnvInv'
  OBVIOUS
\* A step that starts or ends no scoped call leaves the environment to the rest.
<1>1. ASSUME env' = env, previous' = previous,
             \A c \in Callers :
               /\ (pc'[c] = "calling" /\ scope'[c] # None)
                    <=> (pc[c] = "calling" /\ scope[c] # None)
               /\ pc[c] = "calling" => scope'[c] = scope[c] /\ keyed'[c] = keyed[c]
      PROVE  EnvInv'
  <2>1. EnvRestored'
    BY <1>1 DEF EnvInv, EnvRestored
  <2>2. ASSUME NEW c \in Callers, pc'[c] = "calling", scope'[c] # None
        PROVE  previous'[c] = None /\ env' = Expected(c)'
    <3>1. /\ pc[c] = "calling" /\ scope[c] # None
          /\ scope'[c] = scope[c] /\ keyed'[c] = keyed[c]
      BY <1>1, <2>2
    <3>2. Expected(c)' = Expected(c)
      BY <3>1 DEF Expected
    <3>. QED BY <1>1, <3>1, <3>2 DEF EnvInv
  <2>. QED BY <2>1, <2>2 DEF EnvInv
<1>2. ASSUME NEW c \in Callers, NEW v \in EnvVars \cup {None}, NEW k \in BOOLEAN,
             Admit(c, v, k)
      PROVE  EnvInv'
  <2>1. \A d \in Callers :
          /\ (pc'[d] = "calling" /\ scope'[d] # None)
               <=> (pc[d] = "calling" /\ scope[d] # None)
          /\ pc[d] = "calling" => scope'[d] = scope[d] /\ keyed'[d] = keyed[d]
    BY <1>2 DEF Admit, Moves, TypeOK
  <2>. QED BY <1>1, <1>2, <2>1 DEF Admit
<1>3. ASSUME NEW c \in Callers, EnterEnv(c) PROVE EnvInv'
  <2>1. pc[c] = "locking" /\ scope[c] # None /\ scope[c] \in EnvVars
    BY <1>3 DEF EnterEnv, Moves, QueueInv, TypeOK
  <2>2. waiters[1] = c
    BY <1>3 DEF EnterEnv, TypeOK
  <2>3. \A d \in Callers : ~(pc[d] = "calling" /\ scope[d] # None)
    BY <2>1, <2>2, RunnerIsFirst
  <2>4. env = AtStart
    BY <2>3 DEF EnvInv, EnvRestored, AtStart
  <2>5. /\ scope' = scope /\ keyed' = keyed
        /\ previous'[c] = env[scope[c]]
        /\ env' = IF keyed[c] THEN [env EXCEPT ![scope[c]] = c] ELSE env
    BY <1>3 DEF EnterEnv, TypeOK
  <2>6. \A d \in Callers : (pc'[d] = "calling" /\ scope'[d] # None) <=> d = c
    BY <1>3, <2>1, <2>3 DEF EnterEnv, Moves, TypeOK
  <2>7. previous'[c] = None
    BY <2>1, <2>4, <2>5 DEF AtStart
  <2>8. env' = Expected(c)'
    BY <2>1, <2>4, <2>5 DEF AtStart, Expected
  <2>9. EnvRestored'
    BY <2>6 DEF EnvRestored
  <2>. QED BY <2>6, <2>7, <2>8, <2>9 DEF EnvInv
<1>4. ASSUME NEW c \in Callers, NEW to \in {"idle", "emitting"},
             Moves(c, "calling", to), LeaveEnv(c), scope' = scope, keyed' = keyed
      PROVE  EnvInv'
  <2>1. CASE scope[c] = None
    <3>1. env' = env /\ previous' = previous
      BY <1>4, <2>1 DEF LeaveEnv
    <3>2. \A d \in Callers :
            (pc'[d] = "calling" /\ scope'[d] # None)
              <=> (pc[d] = "calling" /\ scope[d] # None)
      BY <1>4, <2>1 DEF Moves, TypeOK
    <3>. QED BY <1>1, <1>4, <3>1, <3>2
  <2>2. CASE scope[c] # None
    <3>1. previous[c] = None /\ env = Expected(c) /\ pc[c] = "calling"
      BY <1>4, <2>2 DEF EnvInv, Moves
    <3>2. \A d \in Callers : pc[d] = "calling" /\ scope[d] # None => d = c
      BY <2>2, <3>1, RunnerIsFirst
    <3>3. \A d \in Callers : ~(pc'[d] = "calling" /\ scope'[d] # None)
      BY <1>4, <3>2 DEF Moves, TypeOK
    <3>4. env' = IF keyed[c] THEN [env EXCEPT ![scope[c]] = previous[c]] ELSE env
      BY <1>4, <2>2 DEF LeaveEnv
    <3>5. env' = AtStart
      BY <2>2, <3>1, <3>4 DEF AtStart, Expected, TypeOK
    <3>. QED BY <3>3, <3>5 DEF EnvInv, EnvRestored, AtStart
  <2>. QED BY <2>1, <2>2
<1>5. ASSUME NEW c \in Callers, NEW cost \in 0..MaxCost, Answer(c, cost) PROVE EnvInv'
  BY <1>4, <1>5 DEF Answer
<1>6. ASSUME NEW c \in Callers, Fail(c) PROVE EnvInv'
  BY <1>4, <1>6 DEF Fail
<1>7. ASSUME NEW c \in Callers, Emitted(c) PROVE EnvInv'
  <2>1. \A d \in Callers : (pc'[d] = "calling") <=> (pc[d] = "calling")
    BY <1>7 DEF Emitted, Moves, TypeOK
  <2>. QED BY <1>1, <1>7, <2>1 DEF Emitted, envState
<1>8. ASSUME NEW c \in Callers, Cancel(c) PROVE EnvInv'
  <2>1. CASE pc[c] = "locking"
    <3>1. env' = env /\ previous' = previous
      BY <1>8, <2>1 DEF Cancel, Moves
    <3>2. \A d \in Callers : (pc'[d] = "calling") <=> (pc[d] = "calling")
      BY <1>8, <2>1 DEF Cancel, Moves, TypeOK
    <3>. QED BY <1>1, <1>8, <3>1, <3>2 DEF Cancel
  <2>2. CASE pc[c] # "locking"
    BY <1>4, <1>8, <2>2 DEF Cancel, Moves
  <2>. QED BY <2>1, <2>2
<1>9. CASE UNCHANGED vars
  BY <1>1, <1>9 DEF vars, callState, envState
<1>. QED BY <1>2, <1>3, <1>5, <1>6, <1>7, <1>8, <1>9 DEF Next, CallStep

(***************************************************************************)
(* The theorems                                                            *)
(***************************************************************************)
\* The inductive invariant behind the theorems below.
IInv == TypeOK /\ SpendInv /\ QueueInv /\ EnvInv

LEMMA Invariance == Spec => []IInv
<1>1. Init => IInv
  BY LLMAssumption
     DEF Init, IInv, TypeOK, SpendInv, QueueInv, Scoped, EnvInv, EnvRestored
<1>2. IInv /\ [Next]_vars => IInv'
  BY TypeStep, SpendStep, QueueStep, EnvStep DEF IInv
<1>. QED BY <1>1, <1>2, PTL DEF Spec

\* Every value the tracker, the queue and the environment take is one of its kind.
THEOREM TypeCorrect == Spec => []TypeOK
<1>1. IInv => TypeOK
  BY DEF IInv
<1>. QED BY <1>1, Invariance, PTL

\* However many calls pass the check before any of them is recorded, the cap is
\* overrun by one call per caller at most.
THEOREM SpendingIsBounded == Spec => []OverrunBounded
<1>1. IInv => OverrunBounded
  <2> SUFFICES ASSUME IInv PROVE OverrunBounded
    OBVIOUS
  <2> DEFINE A == Cardinality(InFlight) * MaxCost
             C == Cardinality(Callers) * MaxCost
  <2>1. A \in Nat /\ C \in Nat /\ spent \in Nat /\ Cap \in Nat
    BY FlightCount, LLMAssumption DEF IInv, TypeOK
  <2>2. spent > Cap => spent + A <= Cap + C
    BY DEF IInv, SpendInv
  <2>. HIDE DEF A, C
  <2>3. spent <= Cap + C
    BY <2>1, <2>2
  <2>. QED BY <2>3 DEF OverrunBounded, C
<1>. QED BY <1>1, Invariance, PTL

\* No provider that runs under _env_lock reads a key that is not its own.
THEOREM KeysStayApart == Spec => []OwnKeyInScope
<1>1. IInv => OwnKeyInScope
  BY DEF IInv, EnvInv, Expected, OwnKeyInScope, TypeOK
<1>. QED BY <1>1, Invariance, PTL

\* Whatever way the calls end, the environment is again what it was.
THEOREM EnvironmentComesBack == Spec => []EnvRestored
<1>1. IInv => EnvRestored
  BY DEF IInv, EnvInv
<1>. QED BY <1>1, Invariance, PTL

(***************************************************************************)
(* The order of the queue: what WaiterServed rests on besides fairness.    *)
(***************************************************************************)
\* c is ahead of d in the queue.
Ahead(c, d) ==
  \E m, n \in 1..Len(waiters) : m < n /\ waiters[m] = c /\ waiters[n] = d

\* A call that waits is in the queue, and the call at the front of the queue runs
\* under the lock or is the one it is granted to next.
FrontCanGo ==
  /\ \A c \in Callers : pc[c] = "locking" => \E n \in 1..Len(waiters) : waiters[n] = c
  /\ waiters # <<>> => Scoped(Head(waiters))

\* Nobody gets in front of a call that waits.
NobodyOvertakes ==
  [][\A c, d \in Callers :
       pc[c] = "locking" /\ Ahead(d, c)' => Ahead(d, c)]_vars

\* No wakeup of _env_lock is lost: a cancelled waiter and a call that fails leave a
\* queue whose front can go.
THEOREM QueueMovesOn == Spec => []FrontCanGo
<1>1. TypeOK /\ QueueInv => FrontCanGo
  <2> SUFFICES ASSUME TypeOK, QueueInv PROVE FrontCanGo
    OBVIOUS
  <2>1. ASSUME NEW c \in Callers, pc[c] = "locking"
        PROVE  \E n \in 1..Len(waiters) : waiters[n] = c
    BY <2>1 DEF QueueInv, Scoped
  <2>2. ASSUME waiters # <<>> PROVE Scoped(Head(waiters))
    <3>1. 1 \in 1..Len(waiters) /\ waiters[1] = Head(waiters) /\ waiters[1] \in Callers
      BY <2>2 DEF TypeOK
    <3>. QED BY <3>1 DEF QueueInv
  <2>. QED BY <2>1, <2>2 DEF FrontCanGo
<1>. QED BY <1>1, Invariance, PTL DEF IInv

\* Taking one place out of the queue leaves the order of the others.
LEMMA RemovalKeepsOrder ==
  ASSUME TypeOK, NEW n \in 1..Len(waiters),
         Len(waiters') = Len(waiters) - 1,
         \A m \in 1..(Len(waiters) - 1) :
           waiters'[m] = IF m < n THEN waiters[m] ELSE waiters[m + 1],
         NEW c, NEW d, Ahead(d, c)'
  PROVE  Ahead(d, c)
<1>0. Len(waiters) \in Nat BY DEF TypeOK
<1>1. PICK i, j \in 1..Len(waiters') : i < j /\ waiters'[i] = d /\ waiters'[j] = c
  BY DEF Ahead
<1>2. PICK k \in 1..Len(waiters) : waiters[k] = d /\ k = IF i < n THEN i ELSE i + 1
  BY <1>0, <1>1
<1>3. PICK l \in 1..Len(waiters) : waiters[l] = c /\ l = IF j < n THEN j ELSE j + 1
  BY <1>0, <1>1
<1>4. k < l BY <1>0, <1>1, <1>2, <1>3
<1>. QED BY <1>2, <1>3, <1>4 DEF Ahead

\* The queue is first in, first out for any number of callers, cancellations
\* included: a call waits for those that were there before it and for no other.
THEOREM FirstComeFirstServed == Spec => NobodyOvertakes
<1>1. TypeOK /\ QueueInv /\ [Next]_vars =>
        [\A c, d \in Callers : pc[c] = "locking" /\ Ahead(d, c)' => Ahead(d, c)]_vars
  <2> SUFFICES ASSUME TypeOK, QueueInv, Next,
                      NEW c \in Callers, NEW d \in Callers, pc[c] = "locking", Ahead(d, c)'
               PROVE  Ahead(d, c)
    OBVIOUS
  <2>0. Len(waiters) \in Nat BY DEF TypeOK
  <2>1. ASSUME waiters' = waiters PROVE Ahead(d, c)
    BY <2>1 DEF Ahead
  <2>2. PICK k \in 1..Len(waiters) : waiters[k] = c
    BY DEF QueueInv, Scoped
  <2>3. ASSUME NEW e \in Callers, NEW v \in EnvVars \cup {None}, NEW b \in BOOLEAN, Admit(e, v, b)
        PROVE  Ahead(d, c)
    <3>1. CASE v = None BY <2>1, <2>3, <3>1 DEF Admit
    <3>2. CASE v # None
      <4>1. /\ Len(waiters') = Len(waiters) + 1
            /\ waiters'[Len(waiters) + 1] = e
            /\ \A m \in 1..Len(waiters) : waiters'[m] = waiters[m]
        BY <2>3, <3>2 DEF Admit, TypeOK
      <4>2. e # c BY <2>3 DEF Admit, Moves
      <4>3. PICK i, j \in 1..Len(waiters') : i < j /\ waiters'[i] = d /\ waiters'[j] = c
        BY DEF Ahead
      <4>4. j # Len(waiters) + 1 BY <4>1, <4>2, <4>3
      <4>5. i \in 1..Len(waiters) /\ j \in 1..Len(waiters) BY <2>0, <4>1, <4>3, <4>4
      <4>. QED BY <4>1, <4>3, <4>5 DEF Ahead
    <3>. QED BY <3>1, <3>2
  <2>4. ASSUME NEW e \in Callers, pc[e] = "calling", LeaveEnv(e) PROVE Ahead(d, c)
    <3>1. CASE scope[e] = None BY <2>1, <2>4, <3>1 DEF LeaveEnv
    <3>2. CASE scope[e] # None
      <4>1. waiters # <<>> /\ 1 \in 1..Len(waiters)
        BY <2>4, <3>2, RunnerIsFirst
      <4>2. /\ Len(waiters') = Len(waiters) - 1
            /\ \A m \in 1..(Len(waiters) - 1) : waiters'[m] = waiters[m + 1]
        BY <2>4, <3>2, <4>1, TailProperties DEF LeaveEnv, TypeOK
      <4>3. \A m \in 1..(Len(waiters) - 1) :
              waiters'[m] = IF m < 1 THEN waiters[m] ELSE waiters[m + 1]
        BY <2>0, <4>2
      <4>. QED BY <4>1, <4>2, <4>3, RemovalKeepsOrder
    <3>. QED BY <3>1, <3>2
  <2>5. ASSUME NEW e \in Callers, CallStep(e) PROVE Ahead(d, c)
    BY <2>1, <2>4, <2>5 DEF CallStep, EnterEnv, Answer, Fail, Emitted, Moves, envState
  <2>6. ASSUME NEW e \in Callers, Cancel(e) PROVE Ahead(d, c)
    <3>1. CASE pc[e] = "locking"
      <4>1. PICK n \in 1..Len(waiters) : waiters' = RemoveAt(waiters, n)
        BY <2>6, <3>1 DEF Cancel, Moves
      <4>2. /\ Len(waiters') = Len(waiters) - 1
            /\ \A m \in 1..(Len(waiters) - 1) :
                 waiters'[m] = IF m < n THEN waiters[m] ELSE waiters[m + 1]
        BY <4>1, RemoveAtProperties DEF TypeOK
      <4>. QED BY <4>1, <4>2, RemovalKeepsOrder
    <3>2. CASE pc[e] # "locking" BY <2>4, <2>6, <3>2 DEF Cancel, Moves
    <3>. QED BY <3>1, <3>2
  <2>. QED BY <2>3, <2>5, <2>6 DEF Next
<1>. QED BY <1>1, Invariance, PTL DEF Spec, IInv, NobodyOvertakes
==============================================================================
