----------------------------- MODULE LoginLimiter -----------------------------
(***************************************************************************)
(* LoginRateLimiter (server/rate_limit.py) in the login handler of         *)
(* server/routers/auth.py, for one e-mail address: addresses share         *)
(* nothing.  check, record_failure and record_success each run under the   *)
(* limiter's lock without an await; between check and record the handler   *)
(* verifies the passphrase, and other attempts run.  Time is a counter.    *)
(***************************************************************************)
EXTENDS Naturals, FiniteSets, Sequences

CONSTANTS
  Attempts,     \* login handlers that run at the same time
  MaxFailures, Window, Lockout,
  MaxTime       \* bound on time

\* The defaults are 5 failures, 300 and 900 seconds.
ASSUME LimiterAssumption ==
  /\ IsFiniteSet(Attempts)
  /\ MaxFailures \in Nat \ {0}
  /\ Window \in Nat /\ Lockout \in Nat /\ MaxTime \in Nat
  /\ Window < Lockout

VARIABLES
  now,
  failures,     \* when attempts failed, oldest first
  lockedUntil,  \* locked_until
  verifying,    \* attempts between check and record
  history       \* auxiliary: the failures of the window since the last success

vars == <<now, failures, lockedUntil, verifying, history>>

Times == 0..MaxTime

TypeOK ==
  /\ now \in Times
  /\ failures \in Seq(Times) /\ Len(failures) < MaxFailures
  /\ lockedUntil \in 0..(MaxTime + Lockout)
  /\ verifying \subseteq Attempts
  /\ history \in Seq(Times)

Init ==
  /\ now = 0
  /\ failures = <<>> /\ lockedUntil = 0
  /\ verifying = {}
  /\ history = <<>>

\* The comprehension of record_failure: the failures of the window, in order.
Recent(times, at) ==
  LET kept[m \in 0..Len(times)] ==
        IF m = 0 THEN <<>>
        ELSE IF at - times[m] <= Window
               THEN Append(kept[m - 1], times[m])
               ELSE kept[m - 1]
  IN  kept[Len(times)]

Tick ==
  /\ now < MaxTime
  /\ now' = now + 1
  /\ history' = Recent(history, now + 1)
  /\ UNCHANGED <<failures, lockedUntil, verifying>>

\* Mutant: the lockout is not asked for.
CheckUnlocked(a) ==
  /\ a \notin verifying
  /\ verifying' = verifying \cup {a}
  /\ UNCHANGED <<now, failures, lockedUntil, history>>

\* check lets the attempt pass unless a lockout is in force.
Check(a) ==
  /\ a \notin verifying
  /\ lockedUntil <= now
  /\ verifying' = verifying \cup {a}
  /\ UNCHANGED <<now, failures, lockedUntil, history>>

\* Mutants: failures never age; a lockout keeps the failures that led to it.
RecordFailureEver(a) ==
  /\ a \in verifying
  /\ verifying' = verifying \ {a}
  /\ history' = Append(Recent(history, now), now)
  /\ IF Len(failures) + 1 >= MaxFailures
       THEN failures' = <<>> /\ lockedUntil' = now + Lockout
       ELSE failures' = Append(failures, now) /\ UNCHANGED lockedUntil
  /\ UNCHANGED now

RecordFailureKept(a) ==
  /\ a \in verifying
  /\ verifying' = verifying \ {a}
  /\ history' = Append(Recent(history, now), now)
  /\ LET kept == Append(Recent(failures, now), now)
     IN  /\ failures' = kept
         /\ lockedUntil' = IF Len(kept) >= MaxFailures THEN now + Lockout ELSE lockedUntil
  /\ UNCHANGED now

RecordFailure(a) ==
  /\ a \in verifying
  /\ verifying' = verifying \ {a}
  /\ history' = Append(Recent(history, now), now)
  /\ LET kept == Append(Recent(failures, now), now)
     IN  IF Len(kept) >= MaxFailures
           THEN failures' = <<>> /\ lockedUntil' = now + Lockout
           ELSE failures' = kept /\ UNCHANGED lockedUntil
  /\ UNCHANGED now

\* A success forgets the address, a lockout in force included.
RecordSuccess(a) ==
  /\ a \in verifying
  /\ verifying' = verifying \ {a}
  /\ failures' = <<>> /\ lockedUntil' = 0
  /\ history' = <<>>
  /\ UNCHANGED now

\* The handler fails for another reason than the passphrase.
Abandon(a) ==
  /\ a \in verifying
  /\ verifying' = verifying \ {a}
  /\ UNCHANGED <<now, failures, lockedUntil, history>>

\* The limiter lives in the process.
Restart ==
  /\ failures' = <<>> /\ lockedUntil' = 0
  /\ verifying' = {}
  /\ history' = <<>>
  /\ UNCHANGED now

Next ==
  \/ \E a \in Attempts : Check(a) \/ RecordFailure(a) \/ RecordSuccess(a) \/ Abandon(a)
  \/ Tick
  \/ Restart

Spec == Init /\ [][Next]_vars

\* Failures of one window are the limit and those of the attempts that were
\* under way when it was met, one of which met it: the overshoot that check
\* and record being apart allows.  A success or a restart starts anew.
FailuresBounded ==
  Len(Recent(history, now)) < MaxFailures + Cardinality(Attempts)

\* An address is locked only after the limit of failures within one window.
LockoutJustified ==
  [][lockedUntil' > lockedUntil => Len(Recent(history', now)) >= MaxFailures]_vars
=============================================================================
