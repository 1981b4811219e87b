-------------------------- MODULE RateLimiterProofs --------------------------
(***************************************************************************)
(* Theorems about RateLimiter for any limit, window and number of requests  *)
(* and faults.                                                              *)
(***************************************************************************)
EXTENDS RateLimiter, FiniteSetTheorems, WellFoundedInduction, TLAPS

-----------------------------------------------------------------------------
(* Type correctness.                                                        *)

\* A request that is admitted is counted in the tick it arrives in.
LEMMA AdmitType ==
  ASSUME recent \in [0..Window - 1 -> Nat], Admit
  PROVE  recent' \in [0..Window - 1 -> Nat]
BY LimitType DEF Admit

\* The types are an invariant.
LEMMA TypeNext == TypeOK /\ [Next]_vars => TypeOK'
<1> SUFFICES ASSUME TypeOK, [Next]_vars PROVE TypeOK'
  OBVIOUS
<1> USE LimitType, BoundsType DEF TypeOK
<1>1. CASE Tick
  <2>1. recent' \in [0..Window - 1 -> Nat]
    BY <1>1 DEF Tick
  <2>2. count' \in 0..MaxCount /\ ttl' \in 0..Window
    BY <1>1 DEF Tick
  <2>3. QED
    BY <1>1, <2>1, <2>2 DEF Tick
<1>2. CASE RedisLosesKeys
  BY <1>2 DEF RedisLosesKeys, Fault
<1>3. ASSUME NEW r \in Requests, Incr(r) PROVE TypeOK'
  <2>1. recent' \in [0..Window - 1 -> Nat]
    BY <1>3, AdmitType DEF Incr
  <2>2. pc' \in [Requests -> {"ready", "opening"}]
    BY <1>3 DEF Incr
  <2>3. QED
    BY <1>3, <2>1, <2>2 DEF Incr
<1>4. ASSUME NEW r \in Requests, Expire(r) PROVE TypeOK'
  BY <1>4, AdmitType DEF Expire, TTL
<1>5. ASSUME NEW r \in Requests, FailOpen(r) PROVE TypeOK'
  <2>1. recent' \in [0..Window - 1 -> Nat]
    BY <1>5, AdmitType DEF FailOpen
  <2>2. count' \in 0..MaxCount /\ ttl' \in 0..Window
    BY <1>5 DEF FailOpen, TTL
  <2>3. QED
    BY <1>5, <2>1, <2>2 DEF FailOpen, Fault
<1>6. ASSUME NEW r \in Requests, Die(r) PROVE TypeOK'
  BY <1>6 DEF Die, Fault
<1>7. CASE UNCHANGED vars
  BY <1>7 DEF vars
<1>8. QED
  BY <1>1, <1>2, <1>3, <1>4, <1>5, <1>6, <1>7 DEF Next

\* Every variable has its type: the counter, the TTL and the fault count stay
\* within their bounds, whatever fails between INCR and EXPIRE.
THEOREM TypeCorrect == Spec => []TypeOK
<1>1. Init => TypeOK
  BY LimitType, BoundsType DEF Init, TypeOK
<1>2. QED
  BY <1>1, TypeNext, PTL DEF Spec

-----------------------------------------------------------------------------
(* One opener per window.                                                   *)

\* As long as nothing has failed, a key without requests has no TTL, and a request
\* between INCR and EXPIRE is alone there, with its key counted and without a TTL.
OneOpener ==
  faults = 0 =>
    /\ count = 0 => ttl = 0
    /\ \A r \in Requests : pc[r] = "opening" => count > 0 /\ ttl = 0
    /\ \A r, q \in Requests : pc[r] = "opening" /\ pc[q] = "opening" => r = q

\* A step with a fault ends the claim.
LEMMA FaultEnds ==
  ASSUME TypeOK, Fault
  PROVE  OneOpener'
BY DEF Fault, OneOpener, TypeOK

\* OneOpener is inductive: only the INCR that finds no key opens a window, and a key
\* without a TTL does not go away before its opener has set one.
LEMMA OneOpenerNext == TypeOK /\ OneOpener /\ [Next]_vars => OneOpener'
<1> SUFFICES ASSUME TypeOK, OneOpener, [Next]_vars, faults' = 0 PROVE OneOpener'
  BY DEF OneOpener
<1>1. CASE Tick
  BY <1>1 DEF Tick, OneOpener, TypeOK
<1>2. CASE RedisLosesKeys
  BY <1>2, FaultEnds DEF RedisLosesKeys
<1>3. ASSUME NEW r \in Requests, Incr(r) PROVE OneOpener'
  <2>1. count' = count + 1 /\ count' > 0 /\ ttl' = ttl /\ faults = 0
    BY <1>3 DEF Incr, TypeOK
  <2>2. CASE Opens(count')
    <3>1. count = 0 /\ ttl = 0
      BY <2>1, <2>2 DEF Opens, OneOpener, TypeOK
    <3>2. \A q \in Requests : pc[q] # "opening"
      BY <2>1, <3>1 DEF OneOpener
    <3>3. pc' = [pc EXCEPT ![r] = "opening"]
      BY <1>3, <2>2 DEF Incr
    <3>4. \A q \in Requests : pc'[q] = "opening" => q = r
      BY <3>2, <3>3 DEF TypeOK
    <3>5. QED
      BY <2>1, <3>1, <3>4 DEF OneOpener
  <2>3. CASE ~Opens(count')
    <3>1. pc' = pc
      BY <1>3, <2>3 DEF Incr
    <3>2. QED
      BY <2>1, <3>1 DEF OneOpener
  <2>4. QED
    BY <2>2, <2>3
<1>4. ASSUME NEW r \in Requests, Expire(r) PROVE OneOpener'
  <2>1. pc[r] = "opening" /\ pc' = [pc EXCEPT ![r] = "ready"] /\ faults = 0
    BY <1>4 DEF Expire
  <2>2. \A q \in Requests : pc'[q] # "opening"
    BY <2>1 DEF OneOpener, TypeOK
  <2>3. count' = count /\ count > 0
    BY <1>4, <2>1 DEF Expire, OneOpener
  <2>4. QED
    BY <2>2, <2>3 DEF OneOpener, TypeOK
<1>5. ASSUME NEW r \in Requests, FailOpen(r) PROVE OneOpener'
  BY <1>5, FaultEnds DEF FailOpen
<1>6. ASSUME NEW r \in Requests, Die(r) PROVE OneOpener'
  BY <1>6, FaultEnds DEF Die
<1>7. CASE UNCHANGED vars
  BY <1>7 DEF vars, OneOpener
<1>8. QED
  BY <1>1, <1>2, <1>3, <1>4, <1>5, <1>6, <1>7 DEF Next

\* As long as nothing has failed, at most one request is between INCR and EXPIRE, and
\* its key is there without a TTL.
THEOREM OneOpenerHolds == Spec => []OneOpener
<1>1. Init => OneOpener
  BY DEF Init, OneOpener
<1>2. QED
  BY <1>1, TypeCorrect, OneOpenerNext, PTL DEF Spec

\* Only EXPIRE sets a TTL, and a key that has one is past its EXPIRE.
LEMMA WindowStep ==
  TypeOK /\ OneOpener /\ [Next]_vars => (faults = 0 /\ ttl > 0 => ttl' <= ttl)
<1> SUFFICES ASSUME TypeOK, OneOpener, [Next]_vars, faults = 0, ttl > 0
             PROVE  ttl' <= ttl
  OBVIOUS
<1>1. \A r \in Requests : pc[r] # "opening"
  BY DEF OneOpener
<1>2. CASE Tick
  BY <1>2 DEF Tick, TypeOK
<1>3. CASE RedisLosesKeys
  BY <1>3 DEF RedisLosesKeys, TypeOK
<1>4. ASSUME NEW r \in Requests, Incr(r) \/ Expire(r) \/ FailOpen(r) \/ Die(r)
      PROVE  ttl' = ttl
  BY <1>1, <1>4 DEF Incr, Expire, FailOpen, Die
<1>5. CASE UNCHANGED vars
  BY <1>5 DEF vars, TypeOK
<1>6. QED
  BY <1>2, <1>3, <1>4, <1>5 DEF Next, TypeOK

\* Requests that arrive in a window never extend it: EXPIRE is sent once per window
\* unless something has failed.
THEOREM WindowIsFixedHolds == Spec => WindowIsFixed
BY TypeCorrect, OneOpenerHolds, WindowStep, PTL DEF Spec, WindowIsFixed

-----------------------------------------------------------------------------
(* Running sums.                                                            *)

\* A set of natural numbers has a least element: induction without an operator.
LEMMA LeastElement ==
  ASSUME NEW T \in SUBSET Nat, T # {}
  PROVE  \E x \in T : \A y \in T : x <= y
<1>1. IsWellFoundedOn(OpToRel(<, Nat), Nat)
  BY NatLessThanWellFounded
<1>2. PICK x \in T : \A y \in T : <<y, x>> \notin OpToRel(<, Nat)
  BY <1>1, WFMin
<1>3. \A y \in T : ~(y < x)
  BY <1>2 DEF OpToRel
<1>4. QED
  BY <1>3

\* A property of the first n ticks is one of all: induction over the window.
LEMMA AllOfWindow ==
  ASSUME NEW G \in SUBSET (0..Window), 0 \in G,
         \A n \in 0..Window - 1 : n \in G => n + 1 \in G
  PROVE  G = 0..Window
<1> DEFINE B == (0..Window) \ G
<1> SUFFICES ASSUME B # {} PROVE FALSE
  OBVIOUS
<1>1. B \in SUBSET Nat
  BY LimitType
<1>2. PICK n \in B : \A m \in B : n <= m
  BY <1>1, LeastElement
<1>3. n # 0 /\ n \in 0..Window
  OBVIOUS
<1>4. n - 1 \in 0..Window - 1 /\ ~(n <= n - 1)
  BY <1>3, LimitType
<1>5. n - 1 \in G
  BY <1>2, <1>4, LimitType
<1>6. (n - 1) + 1 = n
  BY <1>3, LimitType
<1>7. n \in G
  BY <1>4, <1>5, <1>6
<1>8. QED
  BY <1>7

\* s holds the running sums of h up to n.
IsSum(s, h, n) ==
  /\ s \in [0..n -> Nat]
  /\ s[0] = 0
  /\ \A i \in 1..n : s[i] = s[i - 1] + h[i - 1]

\* The running sums of a history exist.
LEMMA SumsExist ==
  ASSUME NEW h \in [0..Window - 1 -> Nat]
  PROVE  \A n \in 0..Window : \E s : IsSum(s, h, n)
<1> DEFINE G == {n \in 0..Window : \E s : IsSum(s, h, n)}
<1>1. 0 \in G
  <2>1. IsSum([i \in 0..0 |-> 0], h, 0)
    BY DEF IsSum
  <2>2. QED
    BY <2>1, LimitType
<1>2. ASSUME NEW n \in 0..Window - 1, n \in G PROVE n + 1 \in G
  <2>1. PICK s : IsSum(s, h, n)
    BY <1>2
  <2> DEFINE t == [i \in 0..n + 1 |-> IF i = n + 1 THEN s[n] + h[n] ELSE s[i]]
  <2>2. n \in Nat /\ h[n] \in Nat /\ s \in [0..n -> Nat]
    BY <2>1, LimitType DEF IsSum
  <2>3. t \in [0..n + 1 -> Nat] /\ t[0] = 0
    BY <2>1, <2>2 DEF IsSum
  <2>4. ASSUME NEW i \in 1..n + 1 PROVE t[i] = t[i - 1] + h[i - 1]
    <3>1. CASE i = n + 1
      <4>1. i - 1 = n /\ n \in 0..n + 1 /\ n # n + 1 /\ i \in 0..n + 1
        BY <3>1, <2>2
      <4>2. t[i] = s[n] + h[n] /\ t[n] = s[n]
        BY <3>1, <4>1
      <4>3. QED
        BY <4>1, <4>2
    <3>2. CASE i # n + 1
      <4>1. i \in 1..n /\ i \in 0..n + 1 /\ i - 1 \in 0..n + 1 /\ i - 1 # n + 1
        BY <3>2, <2>2
      <4>2. t[i] = s[i] /\ t[i - 1] = s[i - 1]
        BY <3>2, <4>1
      <4>3. s[i] = s[i - 1] + h[i - 1]
        BY <2>1, <4>1 DEF IsSum
      <4>4. QED
        BY <4>2, <4>3
    <3>3. QED
      BY <3>1, <3>2
  <2>5. IsSum(t, h, n + 1)
    BY <2>3, <2>4 DEF IsSum
  <2>6. n + 1 \in 0..Window
    BY LimitType
  <2>7. QED
    BY <2>5, <2>6
<1>3. G = 0..Window
  <2> HIDE DEF G
  <2>1. G \in SUBSET (0..Window)
    BY DEF G
  <2>2. QED
    BY <1>1, <1>2, <2>1, AllOfWindow
<1>4. QED
  BY <1>3

\* Admitted is the running sums: its recursive definition has a solution.
LEMMA AdmittedSums ==
  ASSUME NEW h \in [0..Window - 1 -> Nat]
  PROVE  IsSum(Admitted(h), h, Window)
<1> DEFINE R(s) == s = [n \in 0..Window |-> IF n = 0 THEN 0 ELSE s[n - 1] + h[n - 1]]
<1>1. PICK s : IsSum(s, h, Window)
  BY SumsExist, LimitType
<1>2. R(s)
  BY <1>1, LimitType DEF IsSum
<1>3. Admitted(h) = CHOOSE t : R(t)
  BY DEF Admitted
<1>4. R(Admitted(h))
  BY <1>2, <1>3
<1>5. Admitted(h) = s
  <2> DEFINE a == Admitted(h)
             G == {n \in 0..Window : a[n] = s[n]}
  <2>1. a[0] = 0 /\ \A n \in 1..Window : a[n] = a[n - 1] + h[n - 1]
    <3> HIDE DEF a
    <3>1. R(a)
      BY <1>4 DEF a
    <3>2. QED
      BY <3>1, LimitType
  <2>2. 0 \in G
    BY <1>1, <2>1, LimitType DEF IsSum
  <2>3. ASSUME NEW n \in 0..Window - 1, n \in G PROVE n + 1 \in G
    <3>1. n + 1 \in 1..Window /\ (n + 1) - 1 = n /\ n + 1 \in 0..Window
      BY LimitType
    <3>2. a[n + 1] = a[n] + h[n]
      BY <2>1, <3>1
    <3>3. s[n + 1] = s[n] + h[n]
      BY <1>1, <3>1 DEF IsSum
    <3>4. QED
      BY <2>3, <3>1, <3>2, <3>3
  <2>4. G = 0..Window
    <3> HIDE DEF G
    <3>1. G \in SUBSET (0..Window)
      BY DEF G
    <3>2. QED
      BY <2>2, <2>3, <3>1, AllOfWindow
  <2>5. \A n \in 0..Window : a[n] = s[n]
    BY <2>4
  <2>6. a = [n \in 0..Window |-> a[n]]
    BY <1>4
  <2>7. s = [n \in 0..Window |-> s[n]]
    BY <1>1 DEF IsSum
  <2>8. QED
    BY <2>5, <2>6, <2>7
<1>6. QED
  BY <1>1, <1>5

\* An admission counts in every span that holds the current tick.
LEMMA AdmitSums ==
  ASSUME TypeOK, Admit
  PROVE  /\ Admitted(recent)[0] = 0 /\ Admitted(recent')[0] = 0
         /\ \A n \in 1..Window : Admitted(recent')[n] = Admitted(recent)[n] + 1
         /\ \A n \in 0..Window : Admitted(recent)[n] \in Nat /\ Admitted(recent')[n] \in Nat
<1>1. PICK h, k \in [0..Window - 1 -> Nat] : h = recent /\ k = recent'
  BY AdmitType DEF TypeOK
<1>2. k = [h EXCEPT ![0] = @ + 1]
  BY <1>1 DEF Admit
<1>3. PICK a, b : a = Admitted(h) /\ b = Admitted(k)
  OBVIOUS
<1>4. IsSum(a, h, Window) /\ IsSum(b, k, Window)
  BY <1>3, AdmittedSums
<1> DEFINE G == {n \in 0..Window : n = 0 \/ b[n] = a[n] + 1}
<1>5. 0 \in G
  BY LimitType
<1>6. ASSUME NEW n \in 0..Window - 1, n \in G PROVE n + 1 \in G
  <2>1. n + 1 \in 1..Window /\ (n + 1) - 1 = n /\ n \in 0..Window /\ n + 1 \in 0..Window
    BY LimitType
  <2>2. a[n + 1] = a[n] + h[n] /\ b[n + 1] = b[n] + k[n]
    BY <1>4, <2>1 DEF IsSum
  <2>3. a[n] \in Nat /\ b[n] \in Nat /\ h[n] \in Nat /\ k[n] \in Nat
    BY <1>4, <2>1 DEF IsSum
  <2>4. CASE n = 0
    BY <1>2, <1>4, <2>1, <2>2, <2>3, <2>4 DEF IsSum
  <2>5. CASE n # 0
    <3>1. k[n] = h[n]
      BY <1>2, <2>5
    <3>2. b[n] = a[n] + 1
      BY <1>6, <2>5
    <3>3. QED
      BY <2>1, <2>2, <2>3, <3>1, <3>2
  <2>6. QED
    BY <2>4, <2>5
<1>7. G = 0..Window
  <2> HIDE DEF G
  <2>1. G \in SUBSET (0..Window)
    BY DEF G
  <2>2. QED
    BY <1>5, <1>6, <2>1, AllOfWindow
<1>8. \A n \in 1..Window : b[n] = a[n] + 1
  BY <1>7, LimitType
<1>9. QED
  BY <1>1, <1>3, <1>4, <1>8 DEF IsSum

\* A tick moves every span on by one.
LEMMA TickSums ==
  ASSUME TypeOK, Tick
  PROVE  /\ \A n \in 0..Window - 1 : Admitted(recent')[n + 1] = Admitted(recent)[n]
         /\ Admitted(recent')[Window] <= Admitted(recent)[Window]
         /\ \A n \in 0..Window : Admitted(recent)[n] \in Nat /\ Admitted(recent')[n] \in Nat
<1>1. PICK h, k \in [0..Window - 1 -> Nat] : h = recent /\ k = recent'
  BY TypeNext DEF TypeOK, Next
<1>2. k[0] = 0 /\ \A i \in 1..Window - 1 : k[i] = h[i - 1]
  BY <1>1, LimitType DEF Tick
<1>3. PICK a, b : a = Admitted(h) /\ b = Admitted(k)
  OBVIOUS
<1>4. IsSum(a, h, Window) /\ IsSum(b, k, Window)
  BY <1>3, AdmittedSums
<1> DEFINE G == {n \in 0..Window : n + 1 \in 0..Window => b[n + 1] = a[n]}
<1>5. 0 \in G
  <2>1. 1 \in 1..Window /\ 1 - 1 = 0 /\ 0 \in 0..Window
    BY LimitType
  <2>2. b[1] = b[0] + k[0]
    BY <1>4, <2>1 DEF IsSum
  <2>3. QED
    BY <1>2, <1>4, <2>1, <2>2 DEF IsSum
<1>6. ASSUME NEW n \in 0..Window - 1, n \in G PROVE n + 1 \in G
  <2> SUFFICES ASSUME (n + 1) + 1 \in 0..Window PROVE b[(n + 1) + 1] = a[n + 1]
    BY LimitType
  <2>1. /\ n + 1 \in 1..Window /\ (n + 1) - 1 = n /\ n \in 0..Window /\ n + 1 \in 0..Window
        /\ (n + 1) + 1 \in 1..Window /\ ((n + 1) + 1) - 1 = n + 1 /\ n + 1 \in 1..Window - 1
    BY LimitType
  <2>2. a[n + 1] = a[n] + h[n]
    BY <1>4, <2>1 DEF IsSum
  <2>3. b[(n + 1) + 1] = b[n + 1] + k[n + 1]
    BY <1>4, <2>1 DEF IsSum
  <2>4. k[n + 1] = h[n]
    BY <1>2, <2>1
  <2>5. b[n + 1] = a[n]
    BY <1>6, <2>1
  <2>6. QED
    BY <2>2, <2>3, <2>4, <2>5
<1>7. G = 0..Window
  <2> HIDE DEF G
  <2>1. G \in SUBSET (0..Window)
    BY DEF G
  <2>2. QED
    BY <1>5, <1>6, <2>1, AllOfWindow
<1>8. ASSUME NEW n \in 0..Window - 1 PROVE b[n + 1] = a[n]
  <2>1. n \in 0..Window /\ n + 1 \in 0..Window
    BY LimitType
  <2>2. QED
    BY <1>7, <2>1
<1>9. b[Window] <= a[Window]
  <2>1. Window - 1 \in 0..Window - 1 /\ (Window - 1) + 1 = Window /\ Window \in 1..Window
    BY LimitType
  <2>2. b[Window] = a[Window - 1]
    BY <1>8, <2>1
  <2>3. a[Window] = a[Window - 1] + h[Window - 1]
    BY <1>4, <2>1 DEF IsSum
  <2>4. a[Window - 1] \in Nat /\ h[Window - 1] \in Nat
    BY <1>4, <2>1, LimitType DEF IsSum
  <2>5. QED
    BY <2>2, <2>3, <2>4
<1>10. QED
  BY <1>1, <1>3, <1>4, <1>8, <1>9 DEF IsSum

-----------------------------------------------------------------------------
(* The budget of a window.                                                  *)

\* The requests between INCR and EXPIRE: each will still be admitted.
Openers == {r \in Requests : pc[r] = "opening"}
Pending == Cardinality(Openers)

\* 1 while the key has no TTL yet.
Unlimited == IF count > 0 /\ ttl = 0 THEN 1 ELSE 0

\* The requests the key still admits by its count.
Room == IF count < MaxRequests THEN MaxRequests - count ELSE 0

\* Without a TTL there is one opener to set it; each fault may leave one more behind.
OpenersFit ==
  /\ IsFiniteSet(Openers)
  /\ count = 0 => ttl = 0
  /\ Pending <= faults + Unlimited

\* What was admitted in a span, and what is still promised, fits in two limits; in the
\* ticks since the last EXPIRE, in one.  Each fault adds one more.
BudgetFits ==
  /\ Admitted(recent)[Window] + Room + Pending <= 2 * MaxRequests + faults * MaxRequests
  /\ ttl > 0 => Admitted(recent)[Window - ttl] + Room + Pending
                  <= MaxRequests + faults * MaxRequests

\* The types of what BudgetFits adds up.
LEMMA BudgetType ==
  ASSUME TypeOK, OpenersFit
  PROVE  /\ Room \in 0..MaxRequests /\ Pending \in Nat /\ Unlimited \in 0..1
         /\ count > 0 => Room < MaxRequests
         /\ count = 0 => Room = MaxRequests /\ Unlimited = 0
         /\ faults \in Nat /\ faults * MaxRequests \in Nat /\ faults <= faults * MaxRequests
         /\ Window - ttl \in 0..Window /\ Window \in 1..Window
         /\ \A n \in 0..Window : Admitted(recent)[n] \in Nat
         /\ Admitted(recent)[0] = 0
<1>1. Room \in 0..MaxRequests /\ (count > 0 => Room < MaxRequests)
  BY LimitType, BoundsType DEF Room, TypeOK
<1>2. IsSum(Admitted(recent), recent, Window)
  BY AdmittedSums DEF TypeOK
<1>3. faults \in Nat /\ MaxRequests \in Nat /\ MaxRequests >= 1
  BY LimitType, BoundsType DEF TypeOK
<1>4. faults * MaxRequests \in Nat /\ faults <= faults * MaxRequests
  BY <1>3
<1>5. \A n \in 0..Window : Admitted(recent)[n] \in Nat
  BY <1>2 DEF IsSum
<1>6. Admitted(recent)[0] = 0
  BY <1>2 DEF IsSum
<1>7. Pending \in Nat
  BY FS_CardinalityType DEF OpenersFit, Pending
<1>8. QED
  BY <1>1, <1>3, <1>4, <1>5, <1>6, <1>7, LimitType, BoundsType DEF TypeOK, Room, Unlimited

\* A fault adds one limit to the budget.
LEMMA FaultBudget ==
  ASSUME TypeOK, Fault
  PROVE  /\ faults' = faults + 1
         /\ faults' * MaxRequests = faults * MaxRequests + MaxRequests
BY LimitType, BoundsType DEF TypeOK, Fault

\* A request that is no longer an opener.
LEMMA OpenerLeaves ==
  ASSUME TypeOK, OpenersFit, NEW r \in Requests, pc' = [pc EXCEPT ![r] = "ready"]
  PROVE  /\ IsFiniteSet(Openers')
         /\ Pending' = IF pc[r] = "opening" THEN Pending - 1 ELSE Pending
<1>1. Openers' = Openers \ {r}
  BY DEF Openers, TypeOK
<1>2. IsFiniteSet(Openers \ {r})
  BY FS_RemoveElement DEF OpenersFit
<1>3. Cardinality(Openers \ {r}) = IF r \in Openers THEN Cardinality(Openers) - 1
                                   ELSE Cardinality(Openers)
  BY FS_RemoveElement DEF OpenersFit
<1>4. r \in Openers <=> pc[r] = "opening"
  BY DEF Openers
<1>5. QED
  BY <1>1, <1>2, <1>3, <1>4 DEF Pending

\* A request whose INCR found no key.
LEMMA OpenerComes ==
  ASSUME TypeOK, OpenersFit, NEW r \in Requests, pc[r] = "ready",
         pc' = [pc EXCEPT ![r] = "opening"]
  PROVE  IsFiniteSet(Openers') /\ Pending' = Pending + 1
<1>1. Openers' = Openers \cup {r} /\ r \notin Openers
  BY DEF Openers, TypeOK
<1>2. IsFiniteSet(Openers \cup {r})
  BY FS_AddElement DEF OpenersFit
<1>3. Cardinality(Openers \cup {r}) = IF r \in Openers THEN Cardinality(Openers)
                                      ELSE Cardinality(Openers) + 1
  BY FS_AddElement DEF OpenersFit
<1>4. QED
  BY <1>1, <1>2, <1>3 DEF Pending

\* The openers stay when pc does.
LEMMA OpenersStay ==
  ASSUME OpenersFit, pc' = pc
  PROVE  IsFiniteSet(Openers') /\ Pending' = Pending
BY DEF Openers, OpenersFit, Pending

\* The two parts in terms of numbers: the step lemmas below only have to do sums.
BudgetInv == OpenersFit /\ BudgetFits

\* INCR moves a promise from the count to the opener, or keeps it by an admission.
LEMMA IncrBudget ==
  ASSUME TypeOK, BudgetInv, NEW r \in Requests, Incr(r)
  PROVE  BudgetInv'
<1> USE DEF BudgetInv
<1>1. /\ count' = count + 1 /\ ttl' = ttl /\ faults' = faults /\ count \in Nat /\ ttl \in Nat
      /\ (count' = 0 => ttl' = 0)
  BY DEF Incr, TypeOK
<1>2. TypeOK'
  BY TypeNext DEF Next
<1>3. MaxRequests \in Nat /\ MaxRequests >= 1
  BY LimitType
<1>4. CASE Opens(count')
  <2>1. count = 0 /\ ttl = 0
    BY <1>1, <1>4 DEF Opens, OpenersFit
  <2>2. pc[r] = "ready" /\ pc' = [pc EXCEPT ![r] = "opening"] /\ recent' = recent
    BY <1>4 DEF Incr
  <2>3. IsFiniteSet(Openers') /\ Pending' = Pending + 1
    BY <2>2, OpenerComes
  <2>4. Unlimited = 0 /\ Unlimited' = 1 /\ Room = MaxRequests /\ Room' = MaxRequests - 1
    BY <1>1, <1>3, <2>1 DEF Unlimited, Room
  <2>5. Pending \in Nat
    BY BudgetType
  <2>6. OpenersFit'
    BY <1>1, <2>1, <2>3, <2>4, <2>5, BudgetType DEF OpenersFit
  <2>7. BudgetFits'
    BY <1>1, <1>3, <2>1, <2>2, <2>3, <2>4, BudgetType DEF BudgetFits
  <2>8. QED
    BY <2>6, <2>7
<1>5. CASE ~Opens(count')
  <2>1. count > 0 /\ pc' = pc
    BY <1>1, <1>5 DEF Incr, Opens
  <2>2. IsFiniteSet(Openers') /\ Pending' = Pending /\ Unlimited' = Unlimited
    BY <1>1, <2>1, OpenersStay DEF Unlimited
  <2>3. OpenersFit'
    BY <1>1, <2>1, <2>2 DEF OpenersFit
  <2>4. CASE Over(count')
    <3>1. recent' = recent /\ Room' = 0
      <4>1. recent' = recent
        BY <1>5, <2>4 DEF Incr
      <4>2. count' > MaxRequests
        BY <2>4 DEF Over
      <4>3. Room' = 0
        BY <1>1, <1>3, <4>2 DEF Room
      <4>4. QED
        BY <4>1, <4>3
    <3>2. BudgetFits'
      BY <1>1, <1>3, <2>2, <3>1, BudgetType DEF BudgetFits
    <3>3. QED
      BY <2>3, <3>2
  <2>5. CASE ~Over(count')
    <3>1. Admit
      BY <1>5, <2>5 DEF Incr
    <3>2. Room = Room' + 1
      BY <1>1, <1>3, <2>5 DEF Over, Room
    <3>3. /\ Admitted(recent')[Window] = Admitted(recent)[Window] + 1
          /\ Admitted(recent')[Window - ttl] <= Admitted(recent)[Window - ttl] + 1
          /\ Admitted(recent')[Window - ttl] \in Nat /\ Admitted(recent')[Window] \in Nat
      BY <3>1, AdmitSums, BudgetType
    <3>4. BudgetFits'
      <4>1. Room \in Nat /\ Pending \in Nat /\ faults * MaxRequests \in Nat
        BY BudgetType
      <4>2. Admitted(recent)[Window] \in Nat /\ Admitted(recent)[Window - ttl] \in Nat
        BY BudgetType
      <4>3. Room' \in Nat
        BY <1>1, <1>3 DEF Room
      <4>4. /\ Admitted(recent')[Window] + Room' + Pending'
                 = Admitted(recent)[Window] + Room + Pending
            /\ Admitted(recent')[Window - ttl'] + Room' + Pending'
                 <= Admitted(recent)[Window - ttl] + Room + Pending
        BY <1>1, <2>2, <3>2, <3>3, <4>1, <4>2, <4>3
      <4>5. QED
        BY <1>1, <1>3, <2>2, <3>3, <4>1, <4>2, <4>3, <4>4 DEF BudgetFits
    <3>5. QED
      BY <2>3, <3>4
  <2>6. QED
    BY <2>4, <2>5
<1>6. QED
  BY <1>4, <1>5

\* EXPIRE admits its request out of the promise and starts the window's ticks anew.
LEMMA ExpireBudget ==
  ASSUME TypeOK, BudgetInv, NEW r \in Requests, Expire(r)
  PROVE  BudgetInv'
<1> USE DEF BudgetInv
<1>1. /\ pc[r] = "opening" /\ pc' = [pc EXCEPT ![r] = "ready"] /\ Admit
      /\ count' = count /\ faults' = faults /\ ttl' = IF count = 0 THEN 0 ELSE Window
  BY DEF Expire, TTL
<1>2. IsFiniteSet(Openers') /\ Pending' = Pending - 1
  BY <1>1, OpenerLeaves
<1>3. Room' = Room /\ Pending' \in Nat
  <2>1. IsFiniteSet(Openers')
    BY <1>2
  <2>2. Pending' \in Nat
    BY <2>1, FS_CardinalityType DEF Pending
  <2>3. QED
    BY <1>1, <2>2 DEF Room
<1>4. MaxRequests \in Nat /\ MaxRequests >= 1 /\ Window \in Nat /\ Window >= 1 /\ count \in Nat
  BY LimitType DEF TypeOK
<1>5. OpenersFit'
  <2>1. Unlimited' = 0
    BY <1>1, <1>4 DEF Unlimited
  <2>2. Pending <= faults + 1
    BY BudgetType DEF OpenersFit
  <2>3. QED
    BY <1>1, <1>2, <1>3, <2>1, <2>2, BudgetType DEF OpenersFit
<1>6. BudgetFits'
  <2>1. Admitted(recent')[Window] = Admitted(recent)[Window] + 1 /\ Admitted(recent')[0] = 0
    BY <1>1, AdmitSums, BudgetType
  <2>2. Admitted(recent')[Window] + Room' + Pending'
          <= 2 * MaxRequests + faults' * MaxRequests
    BY <1>1, <1>2, <1>3, <1>4, <2>1, BudgetType DEF BudgetFits
  <2>3. CASE count = 0
    BY <1>1, <2>2, <2>3 DEF BudgetFits
  <2>4. CASE count > 0
    <3>1. Window - ttl' = 0
      BY <1>1, <1>4, <2>4
    <3>2. Room + Pending' <= MaxRequests + faults * MaxRequests
      BY <1>2, <1>4, <2>4, BudgetType DEF OpenersFit
    <3>3. Admitted(recent')[Window - ttl'] + Room' + Pending' = Room + Pending'
      BY <1>3, <2>1, <3>1, BudgetType
    <3>4. QED
      BY <1>1, <2>2, <3>2, <3>3 DEF BudgetFits
  <2>5. QED
    BY <1>4, <2>3, <2>4
<1>7. QED
  BY <1>5, <1>6

\* A fault pays for the request it lets through, for an EXPIRE before its time and for
\* the opener it leaves behind.
LEMMA FailOpenBudget ==
  ASSUME TypeOK, BudgetInv, NEW r \in Requests, FailOpen(r)
  PROVE  BudgetInv'
<1> USE DEF BudgetInv
<1>1. /\ pc' = [pc EXCEPT ![r] = "ready"] /\ Admit
      /\ faults' = faults + 1
      /\ faults' * MaxRequests = faults * MaxRequests + MaxRequests
  BY FaultBudget DEF FailOpen
<1>2. /\ IsFiniteSet(Openers') /\ Pending' <= Pending /\ Pending' \in Nat
      /\ pc[r] = "opening" => Pending' = Pending - 1
  <2>1. IsFiniteSet(Openers')
    BY <1>1, OpenerLeaves
  <2>2. Pending' \in Nat
    BY <2>1, FS_CardinalityType DEF Pending
  <2>3. Pending' = IF pc[r] = "opening" THEN Pending - 1 ELSE Pending
    BY <1>1, OpenerLeaves
  <2>4. Pending \in Nat
    BY BudgetType
  <2>5. QED
    BY <2>1, <2>2, <2>3, <2>4
<1>3. MaxRequests \in Nat /\ MaxRequests >= 1 /\ Window \in Nat /\ Window >= 1 /\ count \in Nat
  BY LimitType DEF TypeOK
<1>4. /\ count <= count' /\ count' \in Nat /\ (count' = 0 => ttl' = 0)
      /\ \/ ttl' = ttl
         \/ pc[r] = "opening" /\ count > 0 /\ count' = count /\ ttl' = Window
  BY <1>3 DEF FailOpen, TTL, OpenersFit
<1>5. Room' <= Room /\ Room' \in Nat
  <2>1. count <= count' /\ count' \in Nat
    BY <1>4
  <2>2. CASE count' < MaxRequests
    <3>1. Room' = MaxRequests - count' /\ Room = MaxRequests - count
      BY <1>3, <2>1, <2>2 DEF Room
    <3>2. PICK m, c, d \in Nat : m = MaxRequests /\ c = count /\ d = count'
      BY <1>3, <2>1
    <3>3. c <= d
      BY <2>1, <3>2
    <3>4. d < m
      BY <2>2, <3>2
    <3>5. m - d \in Nat /\ m - d <= m - c
      BY <3>3, <3>4
    <3>6. QED
      BY <3>1, <3>2, <3>5
  <2>3. CASE ~(count' < MaxRequests)
    <3>1. Room' = 0
      BY <2>3 DEF Room
    <3>2. Room \in Nat
      BY BudgetType
    <3>3. QED
      BY <3>1, <3>2
  <2>4. QED
    BY <2>2, <2>3
<1>6. OpenersFit'
  <2>1. Unlimited <= Unlimited' + 1 /\ Unlimited' \in 0..1
    BY DEF Unlimited
  <2>2. Pending' <= faults' + Unlimited'
    BY <1>1, <1>2, <2>1, BudgetType DEF OpenersFit
  <2>3. QED
    BY <1>2, <1>4, <2>2 DEF OpenersFit
<1>7. BudgetFits'
  <2>1. /\ Admitted(recent')[Window] = Admitted(recent)[Window] + 1
        /\ Admitted(recent')[0] = 0
        /\ Admitted(recent')[Window - ttl] <= Admitted(recent)[Window - ttl] + 1
        /\ Admitted(recent')[Window - ttl] \in Nat /\ Admitted(recent')[Window] \in Nat
    BY <1>1, AdmitSums, BudgetType
  <2>2. Admitted(recent')[Window] + Room' + Pending'
          <= 2 * MaxRequests + faults' * MaxRequests
    BY <1>1, <1>2, <1>3, <1>5, <2>1, BudgetType DEF BudgetFits
  <2>3. CASE ttl' = ttl
    <3>1. ttl > 0 => Admitted(recent')[Window - ttl] + Room' + Pending'
                       <= MaxRequests + faults' * MaxRequests
      BY <1>1, <1>2, <1>3, <1>5, <2>1, BudgetType DEF BudgetFits
    <3>2. QED
      BY <2>2, <2>3, <3>1 DEF BudgetFits
  <2>4. CASE pc[r] = "opening" /\ count > 0 /\ count' = count /\ ttl' = Window
    <3>1. Window - ttl' = 0
      BY <1>3, <2>4
    <3>2. Room' + Pending' <= MaxRequests + faults' * MaxRequests
      <4>1. Room < MaxRequests /\ Pending' = Pending - 1 /\ Pending <= faults + 1
        BY <1>2, <2>4, BudgetType DEF OpenersFit
      <4>2. QED
        BY <1>1, <1>2, <1>3, <1>5, <4>1, BudgetType
    <3>3. Admitted(recent')[Window - ttl'] + Room' + Pending' = Room' + Pending'
      BY <1>2, <1>5, <2>1, <3>1
    <3>4. QED
      BY <2>2, <3>2, <3>3 DEF BudgetFits
  <2>5. QED
    BY <1>4, <2>3, <2>4
<1>8. QED
  BY <1>6, <1>7

\* A process that dies takes its promise with it.
LEMMA DieBudget ==
  ASSUME TypeOK, BudgetInv, NEW r \in Requests, Die(r)
  PROVE  BudgetInv'
<1> USE DEF BudgetInv
<1>1. /\ pc[r] = "opening" /\ pc' = [pc EXCEPT ![r] = "ready"]
      /\ count' = count /\ ttl' = ttl /\ recent' = recent /\ faults' = faults + 1
      /\ faults' * MaxRequests = faults * MaxRequests + MaxRequests
  BY FaultBudget DEF Die
<1>2. IsFiniteSet(Openers') /\ Pending' = Pending - 1
  BY <1>1, OpenerLeaves
<1>3. Room' = Room /\ Unlimited' = Unlimited
  BY <1>1 DEF Room, Unlimited
<1>4. MaxRequests \in Nat
  BY LimitType
<1>5. OpenersFit'
  BY <1>1, <1>2, <1>3, BudgetType DEF OpenersFit
<1>6. BudgetFits'
  BY <1>1, <1>2, <1>3, <1>4, BudgetType DEF BudgetFits
<1>7. QED
  BY <1>5, <1>6

\* A restart of Redis gives the count a new limit, and leaves at most one opener more
\* than there were faults before it.
LEMMA LossBudget ==
  ASSUME TypeOK, BudgetInv, RedisLosesKeys
  PROVE  BudgetInv'
<1> USE DEF BudgetInv
<1>1. /\ count' = 0 /\ ttl' = 0 /\ pc' = pc /\ recent' = recent /\ faults' = faults + 1
      /\ faults' * MaxRequests = faults * MaxRequests + MaxRequests
  BY FaultBudget DEF RedisLosesKeys
<1>2. IsFiniteSet(Openers') /\ Pending' = Pending
  BY <1>1, OpenersStay
<1>3. MaxRequests \in Nat /\ MaxRequests >= 1
  BY LimitType
<1>4. Room' = MaxRequests /\ Unlimited' = 0
  BY <1>1, <1>3 DEF Room, Unlimited
<1>5. OpenersFit'
  BY <1>1, <1>2, <1>4, BudgetType DEF OpenersFit
<1>6. BudgetFits'
  BY <1>1, <1>2, <1>3, <1>4, BudgetType DEF BudgetFits
<1>7. QED
  BY <1>5, <1>6

\* When the TTL ends, the last window's ticks hold one limit and what is still promised.
LEMMA TickBudget ==
  ASSUME TypeOK, BudgetInv, Tick
  PROVE  BudgetInv'
<1> USE DEF BudgetInv
<1>1. /\ ttl' = IF ttl = 0 THEN 0 ELSE ttl - 1
      /\ count' = IF ttl = 1 THEN 0 ELSE count
      /\ pc' = pc /\ faults' = faults
  BY DEF Tick
<1>2. IsFiniteSet(Openers') /\ Pending' = Pending
  BY <1>1, OpenersStay
<1>3. MaxRequests \in Nat /\ count \in Nat /\ ttl \in Nat /\ Window \in Nat /\ ttl <= Window
  BY LimitType DEF TypeOK
<1>4. Unlimited' = Unlimited
  BY <1>1, <1>3 DEF Unlimited
<1>5. OpenersFit'
  <2>1. count' = 0 => ttl' = 0
    BY <1>1, <1>3 DEF OpenersFit
  <2>2. QED
    BY <1>1, <1>2, <1>4, <2>1 DEF OpenersFit
<1>6. BudgetFits'
  <2>1. Admitted(recent')[Window] <= Admitted(recent)[Window] /\ Admitted(recent')[Window] \in Nat
    BY TickSums, BudgetType
  <2>2. CASE ttl = 0
    <3>1. ttl' = 0 /\ Room' = Room
      BY <1>1, <2>2 DEF Room
    <3>2. QED
      BY <1>1, <1>2, <1>3, <2>1, <3>1, BudgetType DEF BudgetFits
  <2>3. CASE ttl > 0
    <3>1. Window - ttl \in 0..Window - 1 /\ Window - ttl' = (Window - ttl) + 1
      BY <1>1, <1>3, <2>3
    <3>2. Admitted(recent')[Window - ttl'] = Admitted(recent)[Window - ttl]
      BY <3>1, TickSums
    <3>3. CASE ttl = 1
      <4>1. ttl' = 0 /\ Room' = MaxRequests /\ Window - ttl' = Window
        BY <1>1, <1>3, <3>3 DEF Room
      <4>2. Admitted(recent')[Window] = Admitted(recent)[Window - ttl]
        BY <3>2, <4>1
      <4>3. QED
        BY <1>1, <1>2, <1>3, <2>3, <4>1, <4>2, BudgetType DEF BudgetFits
    <3>4. CASE ttl # 1
      <4>1. Room' = Room
        BY <1>1, <3>4 DEF Room
      <4>2. QED
        BY <1>1, <1>2, <1>3, <2>1, <2>3, <3>2, <4>1, BudgetType DEF BudgetFits
    <3>5. QED
      BY <3>3, <3>4
  <2>4. QED
    BY <1>3, <2>2, <2>3
<1>7. QED
  BY <1>5, <1>6

\* The budget is kept by every step.
LEMMA BudgetNext == TypeOK /\ BudgetInv /\ [Next]_vars => BudgetInv'
<1> SUFFICES ASSUME TypeOK, BudgetInv, [Next]_vars PROVE BudgetInv'
  OBVIOUS
<1>1. CASE UNCHANGED vars
  BY <1>1 DEF vars, BudgetInv, OpenersFit, BudgetFits, Openers, Pending, Unlimited, Room
<1>2. QED
  BY <1>1, TickBudget, LossBudget, IncrBudget, ExpireBudget, FailOpenBudget, DieBudget DEF Next

\* The budget holds before the first request.
LEMMA BudgetInit == Init => BudgetInv
<1> SUFFICES ASSUME Init PROVE BudgetInv
  OBVIOUS
<1>1. Openers = {} /\ Unlimited = 0 /\ Room = MaxRequests
  BY LimitType DEF Init, Openers, Unlimited, Room
<1>2. IsFiniteSet(Openers) /\ Pending = 0
  BY <1>1, FS_EmptySet DEF Pending
<1>3. OpenersFit
  BY <1>1, <1>2 DEF Init, OpenersFit
<1>4. Admitted(recent)[Window] = 0
  <2>1. PICK h \in [0..Window - 1 -> Nat] : h = recent
    BY LimitType DEF Init
  <2>2. PICK a : a = Admitted(h)
    OBVIOUS
  <2>3. IsSum(a, h, Window)
    BY <2>2, AdmittedSums
  <2> DEFINE G == {n \in 0..Window : a[n] = 0}
  <2>4. 0 \in G
    BY <2>3, LimitType DEF IsSum
  <2>5. ASSUME NEW n \in 0..Window - 1, n \in G PROVE n + 1 \in G
    <3>1. n + 1 \in 1..Window /\ (n + 1) - 1 = n /\ n + 1 \in 0..Window /\ h[n] = 0
      BY <2>1, LimitType DEF Init
    <3>2. a[n + 1] = a[n] + h[n]
      BY <2>3, <3>1 DEF IsSum
    <3>3. QED
      BY <2>5, <3>1, <3>2
  <2>6. G = 0..Window
    <3> HIDE DEF G
    <3>1. G \in SUBSET (0..Window)
      BY DEF G
    <3>2. QED
      BY <2>4, <2>5, <3>1, AllOfWindow
  <2>7. Window \in G
    <3> HIDE DEF G
    <3>1. QED
      BY <2>6, LimitType
  <2>8. QED
    BY <2>1, <2>2, <2>7
<1>5. BudgetFits
  BY <1>1, <1>2, <1>4, LimitType DEF Init, BudgetFits
<1>6. QED
  BY <1>3, <1>5 DEF BudgetInv

\* The budget of the window implies the bound on admissions.
LEMMA BudgetBounds == TypeOK /\ BudgetInv => TwoWindowsAtMost
<1> SUFFICES ASSUME TypeOK, BudgetInv PROVE TwoWindowsAtMost
  OBVIOUS
<1>1. MaxRequests \in Nat /\ faults \in Nat
  BY LimitType, BoundsType DEF TypeOK
<1>2. (2 + faults) * MaxRequests = 2 * MaxRequests + faults * MaxRequests
  BY <1>1
<1>3. QED
  BY <1>1, <1>2, BudgetType DEF BudgetInv, BudgetFits, TwoWindowsAtMost

\* In any span of a window's length at most two limits' worth of requests is admitted,
\* and one more for each fault, however late any EXPIRE comes and whichever request's
\* it is.
THEOREM TwoWindowsAtMostHolds == Spec => []TwoWindowsAtMost
BY BudgetInit, TypeCorrect, BudgetNext, BudgetBounds, PTL DEF Spec

-----------------------------------------------------------------------------
(* The end of a block.                                                      *)

\* A key that counts and has no TTL is about to get one: the request that opened it has
\* yet to run EXPIRE.
TTLOnItsWay ==
  faults = 0 /\ count > 0 /\ ttl = 0 => \E r \in Requests : pc[r] = "opening"

\* What a tick does to a window, and a step that is no tick to the end of a window.
WindowRuns ==
  faults = 0 /\ count > 0 /\ ttl > 0 =>
    \/ UNCHANGED ttl /\ count' >= count
    \/ ttl' = ttl - 1 /\ count' = IF ttl' = 0 THEN 0 ELSE count
    \/ faults' > 0

\* EXPIRE follows INCR, and only a fault can come between them for good.
LEMMA TTLNext == TypeOK /\ TTLOnItsWay /\ [Next]_vars => TTLOnItsWay'
<1> SUFFICES ASSUME TypeOK, TTLOnItsWay, [Next]_vars, faults' = 0, count' > 0, ttl' = 0
             PROVE  \E r \in Requests : pc'[r] = "opening"
  BY DEF TTLOnItsWay
<1>0. /\ count \in Nat /\ ttl \in Nat /\ Window \in Nat \ {0} /\ MaxRequests \in Nat
      /\ faults \in Nat /\ pc \in [Requests -> {"ready", "opening"}]
  BY LimitType, BoundsType DEF TypeOK
<1>1. CASE Tick
  <2>1. count > 0 /\ ttl = 0 /\ faults = 0 /\ UNCHANGED pc
    BY <1>0, <1>1 DEF Tick
  <2>2. QED
    BY <2>1 DEF TTLOnItsWay
<1>2. ASSUME NEW r \in Requests, Incr(r) PROVE \E q \in Requests : pc'[q] = "opening"
  <2>1. CASE count = 0
    BY <1>0, <1>2, <2>1 DEF Incr, Opens
  <2>2. CASE count > 0
    <3>1. PICK q \in Requests : pc[q] = "opening"
      BY <1>2, <2>2 DEF Incr, TTLOnItsWay
    <3>2. pc'[q] = "opening"
      BY <1>0, <1>2, <3>1 DEF Incr
    <3>3. QED
      BY <3>2
  <2>3. QED
    BY <1>0, <2>1, <2>2
<1>3. ASSUME NEW r \in Requests, Expire(r) PROVE FALSE
  BY <1>0, <1>3 DEF Expire, TTL
<1>4. ASSUME Fault PROVE FALSE
  BY <1>0, <1>4 DEF Fault
<1>5. CASE UNCHANGED vars
  BY <1>5 DEF vars, TTLOnItsWay
<1>6. QED
  BY <1>1, <1>2, <1>3, <1>4, <1>5 DEF Next, RedisLosesKeys, FailOpen, Die

\* Once it has its TTL, the window runs down tick by tick, and the count ends with it.
LEMMA WindowStepRuns == TypeOK /\ OneOpener /\ [Next]_vars => WindowRuns
<1> SUFFICES ASSUME TypeOK, OneOpener, [Next]_vars, faults = 0, count > 0, ttl > 0, ~(faults' > 0)
             PROVE  \/ UNCHANGED ttl /\ count' >= count
                    \/ ttl' = ttl - 1 /\ count' = IF ttl' = 0 THEN 0 ELSE count
  BY DEF WindowRuns
<1>0. count \in Nat /\ ttl \in Nat /\ faults \in Nat
  BY LimitType, BoundsType DEF TypeOK
<1>1. CASE Tick
  BY <1>0, <1>1 DEF Tick
<1>2. ASSUME NEW r \in Requests, Incr(r) PROVE UNCHANGED ttl /\ count' >= count
  BY <1>0, <1>2 DEF Incr
<1>3. ASSUME NEW r \in Requests, Expire(r) PROVE FALSE
  BY <1>0, <1>3 DEF Expire, OneOpener
<1>4. ASSUME Fault PROVE FALSE
  BY <1>0, <1>4 DEF Fault
<1>5. CASE UNCHANGED vars
  BY <1>0, <1>5 DEF vars
<1>6. QED
  BY <1>1, <1>2, <1>3, <1>4, <1>5 DEF Next, RedisLosesKeys, FailOpen, Die

\* BlockEndsWithoutFaults without its fairness: unless something has failed, a block has
\* a TTL or the request that will set it (incr and expire of ratelimit.py), and a block
\* with a TTL has no way but down to its end.
THEOREM BlocksRunOut == Spec => [](TTLOnItsWay) /\ [][WindowRuns]_vars
<1>1. Init => TTLOnItsWay /\ OneOpener
  BY DEF Init, TTLOnItsWay, OneOpener
<1>2. Init => TypeOK
  BY LimitType, BoundsType DEF Init, TypeOK
<1>3. QED
  BY <1>1, <1>2, TypeNext, TTLNext, OneOpenerNext, WindowStepRuns, PTL DEF Spec
=============================================================================
