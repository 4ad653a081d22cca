-------------------------- MODULE LoginLimiterProofs --------------------------
(***************************************************************************)
(* Theorems about LoginLimiter.  Recent is a recursive function over the   *)
(* list of failures, so its lemmas need induction over the list.  The      *)
(* library's induction theorems take an operator as a parameter, which the *)
(* provers cannot instantiate; here induction is a lemma about sets,       *)
(* derived from the well-foundedness of < on Nat (WFMin).                  *)
(***************************************************************************)
EXTENDS LoginLimiter, FiniteSetTheorems, TLAPS

-----------------------------------------------------------------------------
(* Induction over the naturals and over sequences, about sets.             *)

LessOnNat == {p \in Nat \X Nat : p[1] < p[2]}

LEMMA LessOnNatWellFounded == IsWellFoundedOn(LessOnNat, Nat)
BY NatLessThanWellFounded DEF OpToRel, LessOnNat

LEMMA NatInductionOnSet ==
  ASSUME NEW S, 0 \in S, \A n \in Nat : n \in S => n + 1 \in S
  PROVE  Nat \subseteq S
<1>1. SUFFICES ASSUME Nat \ S # {} PROVE FALSE
  OBVIOUS
<1>2. PICK x \in Nat \ S : \A y \in Nat \ S : ~(<<y, x>> \in LessOnNat)
  BY <1>1, LessOnNatWellFounded, WFMin
<1>3. x - 1 \in Nat /\ x - 1 \notin S
  OBVIOUS
<1>4. <<x - 1, x>> \in LessOnNat
  BY <1>3 DEF LessOnNat
<1> QED
  BY <1>2, <1>3, <1>4

\* A sequence that is not empty is the one without its last element and that.
LEMMA SplitLast ==
  ASSUME NEW S, NEW s \in Seq(S), Len(s) # 0
  PROVE  \E t \in Seq(S), x \in S : s = Append(t, x) /\ Len(t) = Len(s) - 1
<1> DEFINE t == [m \in 1..(Len(s) - 1) |-> s[m]]
<1>1. Len(s) - 1 \in Nat
  OBVIOUS
<1>2. t \in Seq(S) /\ Len(t) = Len(s) - 1
  BY <1>1
<1>3. s[Len(s)] \in S
  OBVIOUS
<1>4. \A m \in 1..(Len(s) - 1) : t[m] = s[m]
  OBVIOUS
<1> HIDE DEF t
<1>5. s = Append(t, s[Len(s)])
  BY <1>1, <1>2, <1>3, <1>4
<1> QED
  BY <1>2, <1>3, <1>5

LEMMA SeqOfSubset ==
  ASSUME NEW U, NEW S \in SUBSET U, NEW s \in Seq(S)
  PROVE  s \in Seq(U)
<1>1. Len(s) \in Nat /\ \A m \in 1..Len(s) : s[m] \in U
  OBVIOUS
<1>2. s = [m \in 1..Len(s) |-> s[m]]
  OBVIOUS
<1> QED
  BY <1>1, <1>2

LEMMA SeqInductionOnSet ==
  ASSUME NEW S, NEW T, <<>> \in T,
         \A s \in Seq(S), x \in S : s \in T => Append(s, x) \in T
  PROVE  Seq(S) \subseteq T
<1> DEFINE N == {n \in Nat : \A s \in Seq(S) : Len(s) = n => s \in T}
<1>1. 0 \in N
  OBVIOUS
<1>2. ASSUME NEW n \in Nat, n \in N PROVE n + 1 \in N
  <2>1. ASSUME NEW s \in Seq(S), Len(s) = n + 1 PROVE s \in T
    <3>1. PICK t \in Seq(S), x \in S : s = Append(t, x) /\ Len(t) = Len(s) - 1
      BY <2>1, SplitLast
    <3>2. t \in T
      BY <1>2, <2>1, <3>1
    <3> QED
      BY <3>1, <3>2
  <2> QED
    BY <2>1
<1>3. Nat \subseteq N
  <2> HIDE DEF N
  <2> QED
    BY <1>1, <1>2, NatInductionOnSet
<1> QED
  BY <1>3

-----------------------------------------------------------------------------
(* Recent: its function exists, and what it is of <<>> and of Append.      *)

\* One step of the function kept of Recent, for the function g.
KeptStep(times, at, g, m) ==
  IF m = 0 THEN <<>>
  ELSE IF at - times[m] <= Window
         THEN Append(g[m - 1], times[m])
         ELSE g[m - 1]

IsKept(times, at, g, n) == g = [m \in 0..n |-> KeptStep(times, at, g, m)]

LEMMA KeptExtends ==
  ASSUME NEW times, NEW at, NEW n \in Nat, NEW g, IsKept(times, at, g, n)
  PROVE  \E h : IsKept(times, at, h, n + 1)
<1> DEFINE v == IF at - times[n + 1] <= Window
                  THEN Append(g[n], times[n + 1]) ELSE g[n]
           h == [m \in 0..(n + 1) |-> IF m = n + 1 THEN v ELSE g[m]]
<1>1. \A m \in 0..n : g[m] = KeptStep(times, at, g, m)
  BY DEF IsKept
<1>2. \A m \in 0..n : h[m] = g[m]
  OBVIOUS
<1>3. h[n + 1] = v
  OBVIOUS
<1>4. h = [m \in 0..(n + 1) |-> h[m]]
  OBVIOUS
<1> HIDE DEF h
<1>5. \A m \in 0..(n + 1) : h[m] = KeptStep(times, at, h, m)
  <2> TAKE m \in 0..(n + 1)
  <2>1. CASE m = n + 1
    <3>1. m # 0 /\ m - 1 = n /\ h[m - 1] = g[n]
      BY <2>1, <1>2
    <3> QED
      BY <3>1, <1>3, <2>1 DEF KeptStep
  <2>2. CASE m = 0
    <3>1. m \in 0..n
      BY <2>2
    <3> QED
      BY <3>1, <1>1, <1>2, <2>2 DEF KeptStep
  <2>3. CASE m \in 1..n
    <3>1. m \in 0..n /\ m - 1 \in 0..n /\ m # 0
      BY <2>3
    <3> QED
      BY <3>1, <1>1, <1>2 DEF KeptStep
  <2> QED
    BY <2>1, <2>2, <2>3
<1>6. IsKept(times, at, h, n + 1)
  BY <1>4, <1>5 DEF IsKept
<1> QED
  BY <1>6

LEMMA KeptExists ==
  ASSUME NEW times, NEW at, NEW n \in Nat
  PROVE  \E h : IsKept(times, at, h, n)
<1> DEFINE N == {k \in Nat : \E h : IsKept(times, at, h, k)}
<1>1. 0 \in N
  <2>1. IsKept(times, at, [m \in 0..0 |-> <<>>], 0)
    BY DEF IsKept, KeptStep
  <2> QED
    BY <2>1
<1>2. \A k \in Nat : k \in N => k + 1 \in N
  BY KeptExtends
<1>3. Nat \subseteq N
  <2> HIDE DEF N
  <2> QED
    BY <1>1, <1>2, NatInductionOnSet
<1> QED
  BY <1>3

LEMMA RecentUnfolds ==
  ASSUME NEW times, Len(times) \in Nat, NEW at
  PROVE  \E g : IsKept(times, at, g, Len(times)) /\ Recent(times, at) = g[Len(times)]
<1> DEFINE g == CHOOSE h : IsKept(times, at, h, Len(times))
<1>1. IsKept(times, at, g, Len(times))
  BY KeptExists
<1>2. g = CHOOSE h : h = [m \in 0..Len(times) |->
                            IF m = 0 THEN <<>>
                            ELSE IF at - times[m] <= Window
                                   THEN Append(h[m - 1], times[m])
                                   ELSE h[m - 1]]
  BY DEF IsKept, KeptStep
<1>3. Recent(times, at) = g[Len(times)]
  BY <1>2 DEF Recent
<1> HIDE DEF g
<1> QED
  BY <1>1, <1>3

LEMMA RecentOfEmpty ==
  ASSUME NEW at
  PROVE  Recent(<<>>, at) = <<>>
<1>1. PICK g : IsKept(<<>>, at, g, Len(<<>>)) /\ Recent(<<>>, at) = g[Len(<<>>)]
  BY RecentUnfolds
<1>2. Len(<<>>) = 0 /\ 0 \in 0..0
  OBVIOUS
<1>3. g[0] = KeptStep(<<>>, at, g, 0)
  BY <1>1, <1>2 DEF IsKept
<1> QED
  BY <1>1, <1>2, <1>3 DEF KeptStep

\* The functions of a list and of the list with one more element agree.
LEMMA KeptAgree ==
  ASSUME NEW times \in Seq(Nat), NEW x \in Nat, NEW at,
         NEW g, IsKept(times, at, g, Len(times)),
         NEW h, IsKept(Append(times, x), at, h, Len(times) + 1)
  PROVE  h[Len(times)] = g[Len(times)]
<1> DEFINE N == {m \in Nat : m <= Len(times) => h[m] = g[m]}
           more == Append(times, x)
<1>1. \A m \in 0..Len(times) : g[m] = KeptStep(times, at, g, m)
  BY DEF IsKept
<1>2. \A m \in 0..(Len(times) + 1) : h[m] = KeptStep(more, at, h, m)
  BY DEF IsKept
<1>3. \A m \in 1..Len(times) : more[m] = times[m]
  OBVIOUS
<1> HIDE DEF more
<1>4. 0 \in N
  <2>1. 0 \in 0..Len(times) /\ 0 \in 0..(Len(times) + 1)
    OBVIOUS
  <2> QED
    BY <2>1, <1>1, <1>2 DEF KeptStep
<1>5. ASSUME NEW m \in Nat, m \in N PROVE m + 1 \in N
  <2>1. SUFFICES ASSUME m + 1 <= Len(times) PROVE h[m + 1] = g[m + 1]
    OBVIOUS
  <2>2. h[m] = g[m] /\ more[m + 1] = times[m + 1]
    BY <1>3, <1>5, <2>1
  <2>3. /\ m + 1 \in 0..Len(times) /\ m + 1 \in 0..(Len(times) + 1)
        /\ m + 1 # 0 /\ (m + 1) - 1 = m
    BY <2>1
  <2>4. g[m + 1] = KeptStep(times, at, g, m + 1) /\ h[m + 1] = KeptStep(more, at, h, m + 1)
    BY <1>1, <1>2, <2>3
  <2> QED
    BY <2>2, <2>3, <2>4 DEF KeptStep
<1>6. Nat \subseteq N
  <2> HIDE DEF N
  <2> QED
    BY <1>4, <1>5, NatInductionOnSet
<1>7. Len(times) \in Nat
  OBVIOUS
<1> QED
  BY <1>6, <1>7

LEMMA RecentOfAppend ==
  ASSUME NEW times \in Seq(Nat), NEW x \in Nat, NEW at
  PROVE  Recent(Append(times, x), at) =
           IF at - x <= Window THEN Append(Recent(times, at), x) ELSE Recent(times, at)
<1> DEFINE n == Len(times)
           more == Append(times, x)
<1>1. n \in Nat /\ Len(more) = n + 1 /\ more[n + 1] = x
  OBVIOUS
<1>2. PICK g : IsKept(times, at, g, n) /\ Recent(times, at) = g[n]
  BY <1>1, RecentUnfolds
<1>3. PICK h : IsKept(more, at, h, n + 1) /\ Recent(more, at) = h[n + 1]
  <2> HIDE DEF n, more
  <2> QED
    BY <1>1, RecentUnfolds
<1>4. h[n] = g[n]
  BY <1>2, <1>3, KeptAgree
<1> HIDE DEF n, more
<1>5. n + 1 \in 0..(n + 1) /\ n + 1 # 0 /\ (n + 1) - 1 = n
  BY <1>1
<1>6. h[n + 1] = KeptStep(more, at, h, n + 1)
  BY <1>3, <1>5 DEF IsKept
<1>7. Recent(more, at) = IF at - x <= Window THEN Append(Recent(times, at), x) ELSE Recent(times, at)
  BY <1>1, <1>2, <1>3, <1>4, <1>5, <1>6 DEF KeptStep
<1> QED
  BY <1>7 DEF more

-----------------------------------------------------------------------------
(* What Recent keeps, drops and preserves.                                 *)

LEMMA RecentType ==
  ASSUME NEW S \in SUBSET Nat, NEW times \in Seq(S), NEW at
  PROVE  Recent(times, at) \in Seq(S) /\ Len(Recent(times, at)) <= Len(times)
<1> DEFINE T == {t \in Seq(S) : /\ Recent(t, at) \in Seq(S)
                                /\ Len(Recent(t, at)) <= Len(t)}
<1>1. <<>> \in T
  <2>1. <<>> \in Seq(S) /\ Len(<<>>) = 0 /\ 0 <= 0
    OBVIOUS
  <2> QED
    BY <2>1, RecentOfEmpty
<1>2. ASSUME NEW t \in Seq(S), NEW x \in S, t \in T PROVE Append(t, x) \in T
  <2>1. t \in Seq(Nat) /\ x \in Nat
    BY SeqOfSubset
  <2>2. \/ Recent(Append(t, x), at) = Append(Recent(t, at), x)
        \/ Recent(Append(t, x), at) = Recent(t, at)
    BY <2>1, RecentOfAppend
  <2>3. /\ Append(t, x) \in Seq(S)
        /\ Len(Append(t, x)) = Len(t) + 1
        /\ Len(Append(Recent(t, at), x)) = Len(Recent(t, at)) + 1
        /\ Append(Recent(t, at), x) \in Seq(S)
    BY <1>2
  <2>4. Len(t) \in Nat /\ Len(Recent(t, at)) \in Nat /\ Len(Recent(t, at)) <= Len(t)
    BY <1>2
  <2>5. Len(Recent(Append(t, x), at)) <= Len(Append(t, x))
    BY <2>2, <2>3, <2>4
  <2> QED
    BY <1>2, <2>2, <2>3, <2>5
<1>3. Seq(S) \subseteq T
  <2> HIDE DEF T
  <2> QED
    BY <1>1, <1>2, SeqInductionOnSet
<1> QED
  BY <1>3

\* What is recent later is recent now.
LEMMA RecentOfRecent ==
  ASSUME NEW times \in Seq(Nat), NEW at \in Nat, NEW later \in Nat, at <= later
  PROVE  Recent(Recent(times, at), later) = Recent(times, later)
<1> DEFINE T == {t \in Seq(Nat) : Recent(Recent(t, at), later) = Recent(t, later)}
<1>1. <<>> \in T
  BY RecentOfEmpty
<1>2. ASSUME NEW t \in Seq(Nat), NEW x \in Nat, t \in T PROVE Append(t, x) \in T
  <2>1. Recent(t, at) \in Seq(Nat)
    BY RecentType
  <2>2. CASE at - x <= Window
    <3>1. Recent(Append(t, x), at) = Append(Recent(t, at), x)
      BY <2>2, RecentOfAppend
    <3>2. Recent(Append(Recent(t, at), x), later) =
            IF later - x <= Window THEN Append(Recent(Recent(t, at), later), x)
                                   ELSE Recent(Recent(t, at), later)
      BY <2>1, RecentOfAppend
    <3>3. Recent(Append(t, x), later) =
            IF later - x <= Window THEN Append(Recent(t, later), x)
                                   ELSE Recent(t, later)
      BY RecentOfAppend
    <3>4. Recent(Recent(t, at), later) = Recent(t, later)
      BY <1>2
    <3>5. Recent(Append(Recent(t, at), x), later) = Recent(Append(t, x), later)
      BY <3>2, <3>3, <3>4
    <3>6. Append(t, x) \in Seq(Nat)
      OBVIOUS
    <3> QED
      BY <3>1, <3>5, <3>6
  <2>3. CASE ~(at - x <= Window)
    <3>1. Recent(Append(t, x), at) = Recent(t, at)
      BY <2>3, RecentOfAppend
    <3>2. ~(later - x <= Window)
      BY <2>3, LimiterAssumption
    <3>3. Recent(Append(t, x), later) = Recent(t, later)
      BY <3>2, RecentOfAppend
    <3> QED
      BY <1>2, <3>1, <3>3
  <2> QED
    BY <2>2, <2>3
<1>3. Seq(Nat) \subseteq T
  <2> HIDE DEF T
  <2> QED
    BY <1>1, <1>2, SeqInductionOnSet
<1> QED
  BY <1>3

\* A list whose times are all out of the window has none that is recent.
LEMMA RecentOfOld ==
  ASSUME NEW S \in SUBSET Nat, NEW times \in Seq(S), NEW at \in Nat,
         \A x \in S : ~(at - x <= Window)
  PROVE  Recent(times, at) = <<>>
<1> DEFINE T == {t \in Seq(S) : Recent(t, at) = <<>>}
<1>1. <<>> \in T
  BY RecentOfEmpty
<1>2. ASSUME NEW t \in Seq(S), NEW x \in S, t \in T PROVE Append(t, x) \in T
  <2>1. t \in Seq(Nat) /\ x \in Nat
    BY SeqOfSubset
  <2>2. Recent(Append(t, x), at) = Recent(t, at)
    BY <2>1, RecentOfAppend
  <2> QED
    BY <1>2, <2>2
<1>3. Seq(S) \subseteq T
  <2> HIDE DEF T
  <2> QED
    BY <1>1, <1>2, SeqInductionOnSet
<1> QED
  BY <1>3

\* Time only takes away.
LEMMA RecentShrinks ==
  ASSUME NEW times \in Seq(Nat), NEW at \in Nat, NEW later \in Nat, at <= later
  PROVE  Len(Recent(times, later)) <= Len(Recent(times, at))
<1>1. Recent(times, at) \in Seq(Nat)
  BY RecentType
<1>2. Len(Recent(Recent(times, at), later)) <= Len(Recent(times, at))
  BY <1>1, RecentType
<1> QED
  BY <1>2, RecentOfRecent

\* What record_failure writes, seen later: the failures so far and the new one.
LEMMA RecentOfRecorded ==
  ASSUME NEW times \in Seq(Nat), NEW at \in Nat, NEW later \in Nat, at <= later
  PROVE  Recent(Append(Recent(times, at), at), later) =
           IF later - at <= Window THEN Append(Recent(times, later), at)
                                   ELSE Recent(times, later)
<1>1. Recent(times, at) \in Seq(Nat)
  BY RecentType
<1>2. Recent(Recent(times, at), later) = Recent(times, later)
  BY RecentOfRecent
<1> QED
  BY <1>1, <1>2, RecentOfAppend

\* A failure just recorded is in the window.
LEMMA RecordedIsRecent ==
  ASSUME NEW times \in Seq(Nat), NEW at \in Nat
  PROVE  /\ Recent(Append(Recent(times, at), at), at) = Append(Recent(times, at), at)
         /\ Len(Append(Recent(times, at), at)) = Len(Recent(times, at)) + 1
<1>1. Recent(times, at) \in Seq(Nat)
  BY RecentType
<1>2. at - at <= Window /\ at <= at
  BY LimiterAssumption
<1> QED
  BY <1>1, <1>2, RecentOfRecorded

-----------------------------------------------------------------------------
(* Type correctness.                                                       *)

LEMMA TimesAreNat == Times \in SUBSET Nat
BY LimiterAssumption DEF Times

LEMMA TypeInit == Init => TypeOK
<1>1. 0 \in Times /\ 0 \in 0..(MaxTime + Lockout) /\ <<>> \in Seq(Times) /\ Len(<<>>) = 0
  BY LimiterAssumption DEF Times
<1> QED
  BY <1>1, LimiterAssumption DEF Init, TypeOK

\* The list of failures after a failure that does not lock is one longer.
LEMMA RecordedType ==
  ASSUME NEW times \in Seq(Times), NEW at \in Times
  PROVE  Append(Recent(times, at), at) \in Seq(Times)
BY TimesAreNat, RecentType

LEMMA TypeStep == TypeOK /\ [Next]_vars => TypeOK'
<1> SUFFICES ASSUME TypeOK, [Next]_vars PROVE TypeOK'
  OBVIOUS
<1> USE DEF TypeOK
<1>0. <<>> \in Seq(Times) /\ Len(<<>>) = 0 /\ 0 \in 0..(MaxTime + Lockout) /\ 0 < MaxFailures
  BY LimiterAssumption
<1>1. ASSUME NEW a \in Attempts, Check(a) PROVE TypeOK'
  BY <1>1 DEF Check
<1>2. ASSUME NEW a \in Attempts, RecordFailure(a) PROVE TypeOK'
  <2> DEFINE kept == Append(Recent(failures, now), now)
  <2>1. kept \in Seq(Times) /\ history' \in Seq(Times)
    BY <1>2, RecordedType DEF RecordFailure
  <2>2. now' = now /\ verifying' \subseteq Attempts
    BY <1>2 DEF RecordFailure
  <2>3. CASE Len(kept) >= MaxFailures
    <3>1. failures' = <<>> /\ lockedUntil' = now + Lockout
      BY <1>2, <2>3 DEF RecordFailure
    <3>2. now + Lockout \in 0..(MaxTime + Lockout)
      BY LimiterAssumption DEF Times
    <3> QED
      BY <1>0, <2>1, <2>2, <3>1, <3>2
  <2>4. CASE ~(Len(kept) >= MaxFailures)
    <3>1. failures' = kept /\ lockedUntil' = lockedUntil
      BY <1>2, <2>4 DEF RecordFailure
    <3>2. Len(kept) \in Nat
      BY <2>1
    <3>3. Len(failures') < MaxFailures
      BY <2>4, <3>1, <3>2, LimiterAssumption
    <3> HIDE DEF kept
    <3> QED
      BY <2>1, <2>2, <3>1, <3>3
  <2> QED
    BY <2>3, <2>4
<1>3. ASSUME NEW a \in Attempts, RecordSuccess(a) PROVE TypeOK'
  BY <1>0, <1>3 DEF RecordSuccess
<1>4. ASSUME NEW a \in Attempts, Abandon(a) PROVE TypeOK'
  BY <1>4 DEF Abandon
<1>5. CASE Tick
  <2>1. now + 1 \in Times
    BY <1>5, LimiterAssumption DEF Tick, Times
  <2>2. Recent(history, now + 1) \in Seq(Times)
    BY TimesAreNat, RecentType
  <2> QED
    BY <1>5, <2>1, <2>2 DEF Tick
<1>6. CASE Restart
  BY <1>0, <1>6 DEF Restart
<1>7. CASE UNCHANGED vars
  BY <1>7 DEF vars
<1> QED
  BY <1>1, <1>2, <1>3, <1>4, <1>5, <1>6, <1>7 DEF Next

\* The limiter keeps its types; the list of failures stays shorter than the
\* limit, because the failure that meets it locks the address and clears it.
THEOREM TypeCorrect == Spec => []TypeOK
<1>1. TypeOK /\ [Next]_vars => TypeOK'
  BY TypeStep
<1> QED
  BY TypeInit, <1>1, PTL DEF Spec

-----------------------------------------------------------------------------
(* The inductive invariant behind FailuresBounded.                         *)

\* No failure is of a time to come.
FailuresPast == failures \in Seq(0..now) /\ history \in Seq(0..now)

\* From a time on when the failures that led to the lockout are out of the
\* window, the list holds the failures of the window: this is what the
\* assumption that a lockout outlasts the window gives.
ListIsHistory ==
  \A at \in Nat : at >= now /\ at + Lockout > lockedUntil + Window =>
                    Recent(history, at) = Recent(failures, at)

\* The list never holds more failures than the window.
ListWithinHistory ==
  \A at \in Nat : at >= now => Len(Recent(failures, at)) <= Len(Recent(history, at))

\* Every attempt under way may still fail.
RoomForVerifying ==
  Len(Recent(history, now)) + Cardinality(verifying) < MaxFailures + Cardinality(Attempts)

LimiterInv == FailuresPast /\ ListIsHistory /\ ListWithinHistory /\ RoomForVerifying

LEMMA VerifyingFinite ==
  ASSUME verifying \subseteq Attempts
  PROVE  /\ IsFiniteSet(verifying) /\ Cardinality(verifying) \in Nat
         /\ Cardinality(Attempts) \in Nat
         /\ Cardinality(verifying) <= Cardinality(Attempts)
BY LimiterAssumption, FS_Subset, FS_CardinalityType

LEMMA InvInit == Init => LimiterInv
<1> SUFFICES ASSUME Init PROVE LimiterInv
  OBVIOUS
<1>1. \A at : Recent(<<>>, at) = <<>>
  BY RecentOfEmpty
<1>2. failures = <<>> /\ history = <<>> /\ now = 0 /\ verifying = {} /\ lockedUntil = 0
  BY DEF Init
<1>3. FailuresPast
  BY <1>2 DEF FailuresPast
<1>4. ListIsHistory /\ ListWithinHistory
  BY <1>1, <1>2 DEF ListIsHistory, ListWithinHistory
<1>5. RoomForVerifying
  <2>1. Cardinality({}) = 0 /\ Cardinality(Attempts) \in Nat /\ Len(<<>>) = 0
    BY LimiterAssumption, FS_EmptySet, FS_CardinalityType
  <2> QED
    BY <1>1, <1>2, <2>1, LimiterAssumption DEF RoomForVerifying
<1> QED
  BY <1>3, <1>4, <1>5 DEF LimiterInv

\* The lengths the invariant compares are numbers.
LEMMA RecentLengths ==
  ASSUME TypeOK, NEW at
  PROVE  /\ Recent(failures, at) \in Seq(Nat) /\ Recent(history, at) \in Seq(Nat)
         /\ Len(Recent(failures, at)) \in Nat /\ Len(Recent(history, at)) \in Nat
         /\ Len(Recent(failures, at)) <= Len(failures)
         /\ failures \in Seq(Nat) /\ history \in Seq(Nat)
         /\ now \in Nat /\ lockedUntil \in Nat /\ Len(failures) \in Nat
<1>1. failures \in Seq(Nat) /\ history \in Seq(Nat) /\ now \in Nat /\ lockedUntil \in Nat
  <2>1. failures \in Seq(Times) /\ history \in Seq(Times)
    BY DEF TypeOK
  <2>2. failures \in Seq(Nat) /\ history \in Seq(Nat)
    BY <2>1, TimesAreNat, SeqOfSubset
  <2>3. now \in Nat /\ lockedUntil \in Nat
    BY LimiterAssumption DEF TypeOK, Times
  <2> QED
    BY <2>2, <2>3
<1>2. /\ Recent(failures, at) \in Seq(Nat) /\ Recent(history, at) \in Seq(Nat)
      /\ Len(Recent(failures, at)) <= Len(failures)
  BY <1>1, RecentType
<1> QED
  BY <1>1, <1>2

LEMMA InvCheck ==
  ASSUME TypeOK, LimiterInv, NEW a \in Attempts, Check(a)
  PROVE  LimiterInv'
<1>1. /\ now' = now /\ failures' = failures /\ history' = history
      /\ lockedUntil' = lockedUntil /\ lockedUntil <= now
      /\ verifying' \subseteq Attempts
  BY DEF Check, TypeOK
<1>2. FailuresPast' /\ ListIsHistory' /\ ListWithinHistory'
  BY <1>1 DEF LimiterInv, FailuresPast, ListIsHistory, ListWithinHistory
<1>3. now >= now /\ now + Lockout > lockedUntil + Window
  BY <1>1, RecentLengths, LimiterAssumption
<1>4. Recent(history, now) = Recent(failures, now)
  BY <1>3, RecentLengths DEF LimiterInv, ListIsHistory
<1>5. Len(Recent(history, now)) < MaxFailures
  BY <1>4, RecentLengths, LimiterAssumption DEF TypeOK
<1>6. /\ Cardinality(verifying') \in Nat /\ Cardinality(Attempts) \in Nat
      /\ Cardinality(verifying') <= Cardinality(Attempts)
  BY <1>1, LimiterAssumption, FS_Subset, FS_CardinalityType
<1>7. Len(Recent(history, now)) + Cardinality(verifying') < MaxFailures + Cardinality(Attempts)
  BY <1>5, <1>6, RecentLengths, LimiterAssumption
<1>8. RoomForVerifying'
  BY <1>1, <1>7 DEF RoomForVerifying
<1> QED
  BY <1>2, <1>8 DEF LimiterInv

LEMMA InvRecordFailure ==
  ASSUME TypeOK, LimiterInv, NEW a \in Attempts, RecordFailure(a)
  PROVE  LimiterInv'
<1> DEFINE kept == Append(Recent(failures, now), now)
           hist == Append(Recent(history, now), now)
<1>1. /\ now' = now /\ history' = hist /\ a \in verifying /\ verifying' = verifying \ {a}
  BY DEF RecordFailure
<1>2. /\ now \in Nat /\ failures \in Seq(Nat) /\ history \in Seq(Nat)
      /\ kept \in Seq(Nat) /\ hist \in Seq(Nat)
  BY RecentLengths
<1>3. kept \in Seq(0..now) /\ hist \in Seq(0..now)
  <2>1. 0..now \in SUBSET Nat /\ now \in 0..now
    BY <1>2
  <2>2. Recent(failures, now) \in Seq(0..now) /\ Recent(history, now) \in Seq(0..now)
    BY <2>1, RecentType DEF LimiterInv, FailuresPast
  <2> QED
    BY <2>1, <2>2
<1>4. \/ failures' = <<>> /\ lockedUntil' = now + Lockout
      \/ failures' = kept /\ lockedUntil' = lockedUntil
  BY DEF RecordFailure
<1>5. ASSUME NEW at \in Nat, at >= now
      PROVE  /\ Recent(hist, at) = IF at - now <= Window THEN Append(Recent(history, at), now)
                                                         ELSE Recent(history, at)
             /\ Recent(kept, at) = IF at - now <= Window THEN Append(Recent(failures, at), now)
                                                         ELSE Recent(failures, at)
  BY <1>2, <1>5, RecentOfRecorded
<1>6. Recent(hist, now) = hist /\ Len(hist) = Len(Recent(history, now)) + 1
  BY <1>2, RecordedIsRecent
<1> HIDE DEF kept, hist
<1>7. FailuresPast'
  <2>1. <<>> \in Seq(0..now)
    OBVIOUS
  <2>2. failures' \in Seq(0..now)
    BY <1>3, <1>4, <2>1
  <2>3. history' \in Seq(0..now)
    BY <1>1, <1>3
  <2> QED
    BY <1>1, <2>2, <2>3 DEF FailuresPast
<1>8. ASSUME NEW at \in Nat, at >= now, at + Lockout > lockedUntil' + Window
      PROVE  Recent(history', at) = Recent(failures', at)
  <2>1. CASE failures' = <<>> /\ lockedUntil' = now + Lockout
    <3>1. \A x \in 0..now : ~(at - x <= Window)
      BY <1>2, <1>8, <2>1, LimiterAssumption
    <3>2. 0..now \in SUBSET Nat
      BY <1>2
    <3>3. Recent(hist, at) = <<>>
      BY <1>3, <3>1, <3>2, RecentOfOld
    <3> QED
      BY <1>1, <2>1, <3>3, RecentOfEmpty
  <2>2. CASE failures' = kept /\ lockedUntil' = lockedUntil
    <3>1. Recent(history, at) = Recent(failures, at)
      BY <1>8, <2>2 DEF LimiterInv, ListIsHistory
    <3> QED
      BY <1>1, <1>5, <1>8, <2>2, <3>1
  <2> QED
    BY <1>4, <2>1, <2>2
<1>9. ASSUME NEW at \in Nat, at >= now
      PROVE  Len(Recent(failures', at)) <= Len(Recent(history', at))
  <2>1. CASE failures' = <<>>
    <3>1. Len(Recent(failures', at)) = 0
      BY <2>1, RecentOfEmpty
    <3>2. Len(Recent(hist, at)) \in Nat
      BY <1>2, RecentType
    <3> QED
      BY <1>1, <3>1, <3>2
  <2>2. CASE failures' = kept
    <3>1. Len(Recent(failures, at)) <= Len(Recent(history, at))
      BY <1>9 DEF LimiterInv, ListWithinHistory
    <3>2. /\ Recent(failures, at) \in Seq(Nat) /\ Recent(history, at) \in Seq(Nat)
          /\ Len(Recent(failures, at)) \in Nat /\ Len(Recent(history, at)) \in Nat
      BY RecentLengths
    <3>3. /\ Len(Append(Recent(failures, at), now)) = Len(Recent(failures, at)) + 1
          /\ Len(Append(Recent(history, at), now)) = Len(Recent(history, at)) + 1
      BY <1>2, <3>2
    <3>4. Len(Recent(kept, at)) <= Len(Recent(hist, at))
      BY <1>5, <1>9, <3>1, <3>2, <3>3
    <3> QED
      BY <1>1, <2>2, <3>4
  <2> QED
    BY <1>4, <2>1, <2>2
<1>10. ListIsHistory' /\ ListWithinHistory'
  BY <1>1, <1>8, <1>9 DEF ListIsHistory, ListWithinHistory
<1>11. RoomForVerifying'
  <2>1. Cardinality(verifying') = Cardinality(verifying) - 1
    BY <1>1, VerifyingFinite, FS_RemoveElement DEF TypeOK
  <2>2. Len(Recent(hist, now)) + (Cardinality(verifying) - 1) < MaxFailures + Cardinality(Attempts)
    BY <1>6, VerifyingFinite, RecentLengths, LimiterAssumption DEF LimiterInv, RoomForVerifying, TypeOK
  <2> QED
    BY <1>1, <2>1, <2>2 DEF RoomForVerifying
<1> QED
  BY <1>7, <1>10, <1>11 DEF LimiterInv

LEMMA InvTick ==
  ASSUME TypeOK, LimiterInv, Tick
  PROVE  LimiterInv'
<1> DEFINE next == now + 1
           hist == Recent(history, next)
<1>1. /\ now' = next /\ history' = hist /\ failures' = failures
      /\ lockedUntil' = lockedUntil /\ verifying' = verifying
  BY DEF Tick
<1>2. next \in Nat /\ now \in Nat /\ now <= next /\ failures \in Seq(Nat) /\ history \in Seq(Nat)
  BY RecentLengths
<1>3. 0..now \in SUBSET (0..next) /\ 0..now \in SUBSET Nat
  BY <1>2
<1>4. failures \in Seq(0..next) /\ hist \in Seq(0..next)
  <2>1. failures \in Seq(0..now) /\ hist \in Seq(0..now)
    BY <1>3, RecentType DEF LimiterInv, FailuresPast
  <2> HIDE DEF hist, next
  <2> QED
    BY <1>3, <2>1, SeqOfSubset
<1>5. ASSUME NEW at \in Nat, at >= next
      PROVE  Recent(hist, at) = Recent(history, at)
  BY <1>2, <1>5, RecentOfRecent
<1>6. ASSUME NEW at \in Nat, at >= next PROVE at >= now
  BY <1>2, <1>6
<1>7. Len(Recent(history, next)) <= Len(Recent(history, now)) /\ next >= next
  BY <1>2, RecentShrinks
<1> HIDE DEF next, hist
<1>8. FailuresPast'
  <2>1. failures' \in Seq(0..next) /\ history' \in Seq(0..next)
    BY <1>1, <1>4
  <2> QED
    BY <1>1, <2>1 DEF FailuresPast
<1>9. ASSUME NEW at \in Nat, at >= next, at + Lockout > lockedUntil + Window
      PROVE  Recent(hist, at) = Recent(failures, at)
  BY <1>5, <1>6, <1>9 DEF LimiterInv, ListIsHistory
<1>10. ASSUME NEW at \in Nat, at >= next
       PROVE  Len(Recent(failures, at)) <= Len(Recent(hist, at))
  BY <1>5, <1>6, <1>10 DEF LimiterInv, ListWithinHistory
<1>11. ListIsHistory' /\ ListWithinHistory'
  BY <1>1, <1>9, <1>10 DEF ListIsHistory, ListWithinHistory
<1>12. RoomForVerifying'
  <2>1. Recent(hist, next) = Recent(history, next)
    BY <1>2, <1>5, <1>7
  <2>2. Len(Recent(history, next)) + Cardinality(verifying) < MaxFailures + Cardinality(Attempts)
    <3>1. Len(Recent(history, next)) \in Nat /\ Len(Recent(history, now)) \in Nat
      BY RecentLengths
    <3> QED
      BY <1>7, <3>1, VerifyingFinite, LimiterAssumption DEF LimiterInv, RoomForVerifying, TypeOK
  <2> QED
    BY <1>1, <2>1, <2>2 DEF RoomForVerifying
<1> QED
  BY <1>8, <1>11, <1>12 DEF LimiterInv

\* A success or a restart forgets the failures, and with them the lockout.
LEMMA InvForgets ==
  ASSUME TypeOK, failures' = <<>>, history' = <<>>, lockedUntil' = 0, now' = now,
         verifying' \subseteq Attempts
  PROVE  LimiterInv'
<1>1. \A at : Recent(<<>>, at) = <<>>
  BY RecentOfEmpty
<1>2. now \in Nat /\ Len(<<>>) = 0
  BY RecentLengths
<1>3. FailuresPast'
  <2>1. failures' \in Seq(0..now') /\ history' \in Seq(0..now')
    OBVIOUS
  <2> QED
    BY <2>1 DEF FailuresPast
<1>4. ListIsHistory' /\ ListWithinHistory'
  BY <1>1, <1>2 DEF ListIsHistory, ListWithinHistory
<1>5. RoomForVerifying'
  <2>1. /\ Cardinality(verifying') \in Nat /\ Cardinality(Attempts) \in Nat
        /\ Cardinality(verifying') <= Cardinality(Attempts)
    BY LimiterAssumption, FS_Subset, FS_CardinalityType
  <2>2. 0 + Cardinality(verifying') < MaxFailures + Cardinality(Attempts)
    BY <2>1, LimiterAssumption
  <2> QED
    BY <1>1, <1>2, <2>2 DEF RoomForVerifying
<1> QED
  BY <1>3, <1>4, <1>5 DEF LimiterInv

LEMMA InvAbandon ==
  ASSUME TypeOK, LimiterInv, NEW a \in Attempts, Abandon(a)
  PROVE  LimiterInv'
<1>1. /\ now' = now /\ failures' = failures /\ history' = history
      /\ lockedUntil' = lockedUntil /\ a \in verifying /\ verifying' = verifying \ {a}
  BY DEF Abandon
<1>2. FailuresPast' /\ ListIsHistory' /\ ListWithinHistory'
  BY <1>1 DEF LimiterInv, FailuresPast, ListIsHistory, ListWithinHistory
<1>3. Cardinality(verifying') = Cardinality(verifying) - 1
  BY <1>1, VerifyingFinite, FS_RemoveElement DEF TypeOK
<1>4. Len(Recent(history, now)) + (Cardinality(verifying) - 1) < MaxFailures + Cardinality(Attempts)
  BY VerifyingFinite, RecentLengths, LimiterAssumption DEF LimiterInv, RoomForVerifying, TypeOK
<1>5. RoomForVerifying'
  BY <1>1, <1>3, <1>4 DEF RoomForVerifying
<1> QED
  BY <1>2, <1>5 DEF LimiterInv

LEMMA InvStep == TypeOK /\ LimiterInv /\ [Next]_vars => LimiterInv'
<1> SUFFICES ASSUME TypeOK, LimiterInv, [Next]_vars PROVE LimiterInv'
  OBVIOUS
<1>1. ASSUME NEW a \in Attempts, Check(a) PROVE LimiterInv'
  BY <1>1, InvCheck
<1>2. ASSUME NEW a \in Attempts, RecordFailure(a) PROVE LimiterInv'
  BY <1>2, InvRecordFailure
<1>3. ASSUME NEW a \in Attempts, RecordSuccess(a) PROVE LimiterInv'
  BY <1>3, InvForgets DEF RecordSuccess, TypeOK
<1>4. ASSUME NEW a \in Attempts, Abandon(a) PROVE LimiterInv'
  BY <1>4, InvAbandon
<1>5. CASE Tick
  BY <1>5, InvTick
<1>6. CASE Restart
  BY <1>6, InvForgets DEF Restart
<1>7. CASE UNCHANGED vars
  BY <1>7 DEF vars, LimiterInv, FailuresPast, ListIsHistory, ListWithinHistory, RoomForVerifying
<1> QED
  BY <1>1, <1>2, <1>3, <1>4, <1>5, <1>6, <1>7 DEF Next

LEMMA InvAlways == Spec => [](TypeOK /\ LimiterInv)
<1>1. Init => TypeOK /\ LimiterInv
  BY TypeInit, InvInit
<1>2. (TypeOK /\ LimiterInv) /\ [Next]_vars => (TypeOK /\ LimiterInv)'
  BY TypeStep, InvStep
<1> QED
  BY <1>1, <1>2, PTL DEF Spec

\* While no lockout is in force, the list record_failure keeps is, at the next
\* attempt, the failures of the window since the last success or restart: what
\* a lockout cleared from it has aged.
THEOREM ListIsTheWindow ==
  Spec => [](lockedUntil <= now => Recent(failures, now) = Recent(history, now))
<1>1. TypeOK /\ LimiterInv => (lockedUntil <= now => Recent(failures, now) = Recent(history, now))
  <2> SUFFICES ASSUME TypeOK, LimiterInv, lockedUntil <= now
               PROVE  Recent(failures, now) = Recent(history, now)
    OBVIOUS
  <2>1. now \in Nat /\ now >= now /\ now + Lockout > lockedUntil + Window
    BY RecentLengths, LimiterAssumption
  <2> QED
    BY <2>1 DEF LimiterInv, ListIsHistory
<1> QED
  BY <1>1, InvAlways, PTL

\* Failures of one window are fewer than the limit and the number of attempts
\* that may run at once together, for every limit, window and number of
\* attempts, if a lockout outlasts the window.
THEOREM FailuresBoundedAlways == Spec => []FailuresBounded
<1>1. TypeOK /\ LimiterInv => FailuresBounded
  <2> SUFFICES ASSUME TypeOK, LimiterInv PROVE FailuresBounded
    OBVIOUS
  <2> QED
    BY RecentLengths, VerifyingFinite, LimiterAssumption
       DEF LimiterInv, RoomForVerifying, FailuresBounded, TypeOK
<1> QED
  BY <1>1, InvAlways, PTL

\* An address is locked only after the limit of failures within one window.
THEOREM LockoutJustifiedAlways == Spec => LockoutJustified
<1>1. /\ TypeOK /\ LimiterInv
      /\ [Next]_vars
      => [lockedUntil' > lockedUntil => Len(Recent(history', now)) >= MaxFailures]_vars
  <2> SUFFICES ASSUME TypeOK, LimiterInv, Next, lockedUntil' > lockedUntil
               PROVE  Len(Recent(history', now)) >= MaxFailures
    OBVIOUS
  <2>1. lockedUntil \in Nat
    BY RecentLengths
  <2>2. PICK a \in Attempts : RecordFailure(a)
    BY <2>1 DEF Next, Check, RecordSuccess, Abandon, Tick, Restart
  <2> DEFINE kept == Append(Recent(failures, now), now)
             hist == Append(Recent(history, now), now)
  <2>3. Len(kept) >= MaxFailures /\ history' = hist
    BY <2>1, <2>2 DEF RecordFailure
  <2>4. Len(kept) = Len(Recent(failures, now)) + 1
    BY RecentLengths
  <2>5. Recent(hist, now) = hist /\ Len(hist) = Len(Recent(history, now)) + 1
    BY RecentLengths, RecordedIsRecent
  <2>6. Len(Recent(failures, now)) <= Len(Recent(history, now))
    BY RecentLengths DEF LimiterInv, ListWithinHistory
  <2>7. Len(Recent(hist, now)) >= MaxFailures
    BY <2>3, <2>4, <2>5, <2>6, RecentLengths, LimiterAssumption
  <2> QED
    BY <2>3, <2>7
<1> QED
  BY <1>1, InvAlways, PTL DEF Spec, LockoutJustified
=============================================================================
