----------------------------- MODULE RateLimiter -----------------------------
(***************************************************************************)
(* The fixed-window limiter (app/core/ratelimit.py): one counter key of one *)
(* scope and address.  INCR and EXPIRE are two commands, so between them    *)
(* the key exists without a TTL, other requests count on it, and Redis or   *)
(* the process may fail.                                                    *)
(***************************************************************************)
EXTENDS Naturals

CONSTANTS Requests,    \* requests that may be in the limiter at once
          MaxRequests, \* max_requests
          Window,      \* window_seconds, in ticks
          MaxCount,    \* bound on the counter
          MaxFaults    \* bound on the faults of one behaviour

\* "max_requests or settings": a limit of 0 means the default.
ASSUME LimitType == MaxRequests \in Nat \ {0} /\ Window \in Nat \ {0}
ASSUME BoundsType == MaxCount \in Nat /\ MaxFaults \in Nat

VARIABLES
  count,   \* value of the key, 0 when there is none
  ttl,     \* ticks until the key expires, 0 when it has no TTL
  pc,      \* request -> "ready" or "opening": its INCR returned 1, EXPIRE comes next
  recent,  \* history: i -> requests admitted i ticks ago, for one window
  faults   \* number of faults so far, at most MaxFaults

vars == <<count, ttl, pc, recent, faults>>

Fault == faults < MaxFaults /\ faults' = faults + 1
Admit == recent' = [recent EXCEPT ![0] = @ + 1]

\* Mutants: one request too many; every admitted request sets the TTL anew; INCR is
\* taken to return the old value; a window one tick too long.
OverByMore(c) == c > MaxRequests + 1
OpensAlways(c) == c <= MaxRequests
OpensAtZero(c) == c = 0
LongTTL == Window + 1

\* What the value of INCR says, and the TTL that EXPIRE sets.
Over(c) == c > MaxRequests
Opens(c) == c = 1
TTL == Window

-----------------------------------------------------------------------------
Init ==
  /\ count = 0
  /\ ttl = 0
  /\ pc = [r \in Requests |-> "ready"]
  /\ recent = [i \in 0..Window - 1 |-> 0]
  /\ faults = 0

\* Time passes; Redis deletes the key when its TTL ends.
Tick ==
  /\ ttl' = IF ttl = 0 THEN 0 ELSE ttl - 1
  /\ count' = IF ttl = 1 THEN 0 ELSE count
  /\ recent' = [i \in 0..Window - 1 |-> IF i = 0 THEN 0 ELSE recent[i - 1]]
  /\ UNCHANGED <<pc, faults>>

\* INCR, and the answer unless the key is new.
Incr(r) ==
  /\ pc[r] = "ready"
  /\ count < MaxCount
  /\ count' = count + 1
  /\ IF Opens(count') THEN pc' = [pc EXCEPT ![r] = "opening"] /\ UNCHANGED recent
     ELSE UNCHANGED pc /\ IF Over(count') THEN UNCHANGED recent ELSE Admit
  /\ UNCHANGED <<ttl, faults>>

\* EXPIRE, a no-op when Redis has lost the key, then count = 1 is admitted.
Expire(r) ==
  /\ pc[r] = "opening"
  /\ pc' = [pc EXCEPT ![r] = "ready"]
  /\ ttl' = IF count = 0 THEN 0 ELSE TTL
  /\ Admit
  /\ UNCHANGED <<count, faults>>

\* Redis raises at INCR or at EXPIRE, before or after it has run the command: the
\* request is let through.
FailOpen(r) ==
  /\ Fault
  /\ pc' = [pc EXCEPT ![r] = "ready"]
  /\ \/ UNCHANGED <<count, ttl>>
     \/ pc[r] = "ready" /\ count < MaxCount /\ count' = count + 1 /\ UNCHANGED ttl
     \/ pc[r] = "opening" /\ count > 0 /\ ttl' = TTL /\ UNCHANGED count
  /\ Admit

\* The process dies between the two commands.
Die(r) ==
  /\ pc[r] = "opening"
  /\ Fault
  /\ pc' = [pc EXCEPT ![r] = "ready"]
  /\ UNCHANGED <<count, ttl, recent>>

\* A Redis restart without its data.
RedisLosesKeys ==
  /\ Fault
  /\ count' = 0
  /\ ttl' = 0
  /\ UNCHANGED <<pc, recent>>

Next ==
  \/ Tick
  \/ RedisLosesKeys
  \/ \E r \in Requests : Incr(r) \/ Expire(r) \/ FailOpen(r) \/ Die(r)

Spec == Init /\ [][Next]_vars

\* Time passes, and a handler's coroutine is resumed by its event loop.
FairSpec == Spec /\ WF_vars(Tick) /\ \A r \in Requests : WF_vars(Expire(r))

-----------------------------------------------------------------------------
(* Properties.                                                              *)

\* Every variable has its type.
TypeOK ==
  /\ count \in 0..MaxCount
  /\ ttl \in 0..Window
  /\ pc \in [Requests -> {"ready", "opening"}]
  /\ recent \in [0..Window - 1 -> Nat]
  /\ faults \in 0..MaxFaults

\* n -> the requests admitted in the last n ticks, as counted by a history.
Admitted(history) ==
  LET sum[n \in 0..Window] == IF n = 0 THEN 0 ELSE sum[n - 1] + history[n - 1] IN sum

\* In any span of a window's length at most two windows' worth of requests is
\* admitted, and one worth more for each fault, however late EXPIRE comes.
TwoWindowsAtMost == Admitted(recent)[Window] <= (2 + faults) * MaxRequests

\* Requests that arrive in a window never extend it, blocked ones included.
WindowIsFixed == [][faults = 0 /\ ttl > 0 => ttl' <= ttl]_vars

\* A client over the limit is admitted again when its window ends, unless Redis or
\* a process has failed.
BlockEndsWithoutFaults == count > MaxRequests ~> count = 0 \/ faults > 0

\* A client over the limit is admitted again, even if Redis has failed once.
BlockEnds == count > MaxRequests ~> count = 0
=============================================================================
