------------------------------ MODULE Sessions ------------------------------
(***************************************************************************)
(* Sessions (app/services/auth_service.py, app/core/deps.py): login issues  *)
(* an access and a refresh token, POST /auth/refresh rotates the refresh    *)
(* token, POST /auth/logout revokes it, every other route checks the access *)
(* token.  Whether a refresh token is revoked is kept twice: in             *)
(* refresh_tokens.revoked, written when the request's transaction commits,  *)
(* and in a Redis key blacklist:refresh:{jti}, written in the middle of the *)
(* request and not undone by a rollback.                                    *)
(***************************************************************************)
EXTENDS Naturals, FiniteSets

CONSTANTS Users,
          Tokens,          \* refresh tokens, named by jti
          Requests,        \* refresh and logout requests, and calls with an access token
          Lifetime,        \* refresh_token_days, in ticks
          AccessLifetime,  \* access_token_minutes, in ticks
          MaxTime,         \* bound on the clock
          MaxFaults,       \* bound on the faults of one behaviour
          None             \* no token, no user

ASSUME LifetimeType ==
  Lifetime \in Nat \ {0} /\ AccessLifetime \in Nat \ {0} /\ AccessLifetime <= Lifetime
ASSUME BoundsType == MaxTime \in Nat /\ MaxFaults \in Nat
ASSUME NoneIsFresh == None \notin Users \cup Tokens

VARIABLES
  now,        \* the clock
  active,     \* users whose is_active is true
  token,      \* jti -> committed refresh_tokens row
  blacklist,  \* jti -> time at which the key blacklist:refresh:{jti} expires, 0 for no key
  req,        \* request -> its progress and the values it holds
  dead,       \* history: tokens that were rotated or logged out
  signedOut,  \* history: tokens that were logged out
  orphaned,   \* history: tokens blacklisted by a request that then failed
  redisLost,  \* history: Redis has lost its keys
  faults      \* number of faults so far, at most MaxFaults

env == <<now, active>>
store == <<token, blacklist>>
history == <<dead, signedOut, orphaned, redisLost, faults>>
vars == <<env, store, req, history>>

Row == [status: {"absent", "valid", "revoked"}, user: Users \cup {None},
        expires: Nat, from: Tokens \cup {None}]
AbsentRow == [status |-> "absent", user |-> None, expires |-> 0, from |-> None]

Issued(t) == token[t].status # "absent"
Expired(t) == now >= token[t].expires
Blacklisted(t) == now < blacklist[t]

\* Mutants: the row is not consulted, nor whether the user is active.
NeverRevoked(t) == FALSE
AnyUser(t) == Issued(t)

Revoked(t) == token[t].status = "revoked"
ActiveUser(t) == token[t].user \in active

\* Mutants: a row without expires_at, a key that expires before the token.
NoExpiry == None
ShortTTL == Lifetime - 1

\* The access token issued together with t: nothing is stored of it.
AccessExpires(t) == token[t].expires - Lifetime + AccessLifetime
NewExpiry == now + Lifetime
TTL == Lifetime

\* Mutant: the old row is left as it was.
KeptRow(t) == token[t]

\* Mutant: logout blacklists the token without revoking its row.
NoUpdate(t) == FALSE

RevokedRow(t) == [token[t] EXCEPT !.status = "revoked"]

\* revoked = true is an UPDATE only when it was false.
Updates(t) == token[t].status = "valid"

\* Mutant: a failed request is never rolled back.
LockedUntilDone(t) == \E r \in Requests :
  req[r].t = t /\ req[r].pc \in {"flushed", "failed"} /\ req[r].updates

\* A request that flushed "revoked = true" holds the row's lock until it ends.
Locked(t) == \E r \in Requests : req[r].t = t /\ req[r].pc = "flushed" /\ req[r].updates

\* jtis are fresh uuids: no row and no open transaction has them.
Fresh == {t \in Tokens : ~Issued(t) /\ \A r \in Requests : req[r].new # t}

InFlight(r) ==
  req[r].pc \in {"begun", "loaded", "checked", "admitted", "blacklisted", "flushed"}

\* Tokens is the bound on jtis: nothing starts that would need one too many.
JtiLeft == Cardinality(Fresh) >
  Cardinality({r \in Requests : InFlight(r) /\ req[r].kind = "refresh" /\ req[r].new = None})

NewRequest == [pc |-> "ready", kind |-> "none", t |-> None, new |-> None, expires |-> 0,
               updates |-> FALSE, late |-> FALSE, ousted |-> FALSE]

Fault == faults < MaxFaults /\ faults' = faults + 1

-----------------------------------------------------------------------------
Init ==
  /\ now = 0
  /\ active = Users
  /\ token = [t \in Tokens |-> AbsentRow]
  /\ blacklist = [t \in Tokens |-> 0]
  /\ req = [r \in Requests |-> NewRequest]
  /\ dead = {}
  /\ signedOut = {}
  /\ orphaned = {}
  /\ redisLost = FALSE
  /\ faults = 0

Tick ==
  /\ now < MaxTime
  /\ now' = now + 1
  /\ UNCHANGED <<active, store, req, history>>

\* No route clears users.is_active: an administrator does, in the database.
DeactivateUser(u) ==
  /\ u \in active
  /\ active' = active \ {u}
  /\ UNCHANGED <<now, store, req, history>>

\* A Redis restart without its data.
RedisLosesKeys ==
  /\ Fault
  /\ blacklist' = [t \in Tokens |-> 0]
  /\ redisLost' = TRUE
  /\ UNCHANGED <<env, token, req, dead, signedOut, orphaned>>

NewRow(u, expires, from) ==
  [status |-> "valid", user |-> u, expires |-> expires, from |-> from]

\* POST /auth/login with the right password: one transaction.
Login(u, t) ==
  /\ u \in active
  /\ t \in Fresh
  /\ JtiLeft
  /\ token' = [token EXCEPT ![t] = NewRow(u, NewExpiry, None)]
  /\ UNCHANGED <<env, blacklist, req, history>>

-----------------------------------------------------------------------------
(* Steps of a request.                                                      *)

Advance(r, pc) == req' = [req EXCEPT ![r].pc = pc]

\* The answer: what the request held is gone with its session.
Deny(r) == req' = [req EXCEPT ![r] = [NewRequest EXCEPT !.pc = "denied"]]
Done(r) == req' = [req EXCEPT ![r] = [NewRequest EXCEPT
  !.pc = "done", !.kind = req[r].kind, !.late = req[r].late, !.ousted = req[r].ousted]]

\* The token's own expiry: of the refresh token, or of the access token issued with it.
JwtExpired(t, kind) == IF kind = "api" THEN now >= AccessExpires(t) ELSE Expired(t)

\* What comes after the end of its session: a refresh after the token was rotated or
\* logged out, a call after the logout.
Late(t, kind) == t \in IF kind = "api" THEN signedOut ELSE dead

\* The signature, type and exp of the JWT.
Begin(r, t, kind) ==
  /\ req[r].pc = "ready"
  /\ Issued(t)
  /\ kind = "refresh" => JtiLeft
  /\ IF JwtExpired(t, kind) THEN Deny(r)
     ELSE req' = [req EXCEPT ![r] = [NewRequest EXCEPT
            !.pc = "begun", !.kind = kind, !.t = t,
            !.late = Late(t, kind), !.ousted = token[t].user \notin active]]
  /\ UNCHANGED <<env, store, history>>

\* get_current_principal: no key blacklist:access:{jti} is ever written and a failing
\* Redis lets the call through, so the user's row decides.
Authorize(r) ==
  /\ req[r].kind = "api"
  /\ req[r].pc = "begun"
  /\ IF ActiveUser(req[r].t) THEN Done(r) ELSE Deny(r)
  /\ UNCHANGED <<env, store, history>>

\* The blacklist and the row, in that order: two awaits, the second decides.
RefreshCheckBlacklist(r) ==
  /\ req[r].kind = "refresh"
  /\ req[r].pc = "begun"
  /\ IF Blacklisted(req[r].t) THEN Deny(r) ELSE Advance(r, "loaded")
  /\ UNCHANGED <<env, store, history>>

RefreshCheckRow(r) ==
  /\ req[r].kind = "refresh"
  /\ req[r].pc = "loaded"
  /\ IF Revoked(req[r].t) THEN Deny(r)
     ELSE req' = [req EXCEPT ![r] = [@ EXCEPT !.pc = "checked", !.updates = TRUE]]
  /\ UNCHANGED <<env, store, history>>

\* The user's row.
RefreshCheckUser(r) ==
  /\ req[r].kind = "refresh"
  /\ req[r].pc = "checked"
  /\ IF ActiveUser(req[r].t) THEN Advance(r, "admitted") ELSE Deny(r)
  /\ UNCHANGED <<env, store, history>>

\* setex with a TTL of a whole lifetime, then the new tokens: jti n and its expires_at.
RefreshBlacklist(r, n) ==
  /\ req[r].kind = "refresh"
  /\ req[r].pc = "admitted"
  /\ n \in Fresh
  /\ blacklist' = [blacklist EXCEPT ![req[r].t] = now + TTL]
  /\ req' = [req EXCEPT ![r] = [@ EXCEPT !.pc = "blacklisted", !.new = n, !.expires = NewExpiry]]
  /\ UNCHANGED <<env, token, history>>

\* The flush: updates the old row, which may wait for its lock, and inserts the new one.
RefreshFlush(r) ==
  /\ req[r].kind = "refresh"
  /\ req[r].pc = "blacklisted"
  /\ ~Locked(req[r].t)
  /\ Advance(r, "flushed")
  /\ UNCHANGED <<env, store, history>>

RefreshCommit(r) ==
  LET t == req[r].t IN
  /\ req[r].kind = "refresh"
  /\ req[r].pc = "flushed"
  /\ Done(r)
  /\ token' = [token EXCEPT ![t] = RevokedRow(t),
                            ![req[r].new] = NewRow(token[t].user, req[r].expires, t)]
  /\ dead' = dead \cup {t}
  /\ UNCHANGED <<env, blacklist, signedOut, orphaned, redisLost, faults>>

LogoutLoad(r) ==
  /\ req[r].kind = "logout"
  /\ req[r].pc = "begun"
  /\ req' = [req EXCEPT ![r] = [@ EXCEPT !.pc = "checked", !.updates = Updates(req[r].t)]]
  /\ UNCHANGED <<env, store, history>>

LogoutBlacklist(r) ==
  /\ req[r].kind = "logout"
  /\ req[r].pc = "checked"
  /\ Advance(r, "blacklisted")
  /\ blacklist' = [blacklist EXCEPT ![req[r].t] = now + TTL]
  /\ UNCHANGED <<env, token, history>>

\* The flush of the audit row sends the UPDATE as well.
LogoutFlush(r) ==
  /\ req[r].kind = "logout"
  /\ req[r].pc = "blacklisted"
  /\ req[r].updates => ~Locked(req[r].t)
  /\ Advance(r, "flushed")
  /\ UNCHANGED <<env, store, history>>

LogoutCommit(r) ==
  LET t == req[r].t IN
  /\ req[r].kind = "logout"
  /\ req[r].pc = "flushed"
  /\ Done(r)
  /\ token' = [token EXCEPT ![t] = IF req[r].updates THEN RevokedRow(t) ELSE @]
  /\ dead' = dead \cup {t}
  /\ signedOut' = signedOut \cup {t}
  /\ UNCHANGED <<env, blacklist, orphaned, redisLost, faults>>

\* Redis or the database raises, or the process dies: the transaction is rolled
\* back, the blacklist key is not.
Fail(r) ==
  /\ InFlight(r)
  /\ Fault
  /\ req' = [req EXCEPT ![r] = [NewRequest EXCEPT
       !.pc = "failed", !.t = req[r].t, !.updates = req[r].updates]]
  /\ orphaned' = IF req[r].pc \in {"blacklisted", "flushed"} THEN orphaned \cup {req[r].t}
                 ELSE orphaned
  /\ UNCHANGED <<env, store, dead, signedOut, redisLost>>

Step(r) ==
  \/ Authorize(r)
  \/ RefreshCheckBlacklist(r)
  \/ RefreshCheckRow(r)
  \/ RefreshCheckUser(r)
  \/ \E n \in Tokens : RefreshBlacklist(r, n)
  \/ RefreshFlush(r)
  \/ RefreshCommit(r)
  \/ LogoutLoad(r)
  \/ LogoutBlacklist(r)
  \/ LogoutFlush(r)
  \/ LogoutCommit(r)

Next ==
  \/ Tick
  \/ RedisLosesKeys
  \/ \E u \in Users : DeactivateUser(u)
  \/ \E u \in Users, t \in Tokens : Login(u, t)
  \/ \E r \in Requests, t \in Tokens, kind \in {"refresh", "logout", "api"} : Begin(r, t, kind)
  \/ \E r \in Requests : Step(r) \/ Fail(r)

Spec == Init /\ [][Next]_vars

-----------------------------------------------------------------------------
(* Properties.                                                              *)

ReqType == [pc: {"ready", "begun", "loaded", "checked", "admitted", "blacklisted", "flushed",
                 "done", "denied", "failed"},
            kind: {"none", "refresh", "logout", "api"}, t: Tokens \cup {None},
            new: Tokens \cup {None}, expires: Nat, updates: BOOLEAN,
            late: BOOLEAN, ousted: BOOLEAN]

\* Every variable has its type.
TypeOK ==
  /\ now \in 0..MaxTime
  /\ active \subseteq Users
  /\ token \in [Tokens -> Row]
  /\ blacklist \in [Tokens -> Nat]
  /\ req \in [Requests -> ReqType]
  /\ dead \subseteq Tokens
  /\ signedOut \subseteq Tokens
  /\ orphaned \subseteq Tokens
  /\ redisLost \in BOOLEAN
  /\ faults \in 0..MaxFaults

\* A refresh that begins after the token was rotated or logged out is refused,
\* even if Redis has lost the blacklist in between.
RevokedTokenIsRefused ==
  \A r \in Requests : req[r].kind = "refresh" /\ req[r].late => req[r].pc # "done"

\* A deactivated user is out at once: neither tokens issued before nor a request
\* for new ones get through, whatever else is still in flight.
DeactivatedUserIsOut ==
  \A r \in Requests : req[r].kind \in {"refresh", "api"} /\ req[r].ousted => req[r].pc # "done"

\* A rotated token's predecessor is revoked, belongs to the same user and
\* expires no later than it.
PredecessorIsRevoked ==
  \A t \in Tokens : token[t].from # None =>
    LET p == token[token[t].from] IN
    p.status = "revoked" /\ p.user = token[t].user /\ p.expires <= token[t].expires

\* A revoked token that has not expired is on the blacklist, as long as Redis
\* keeps its keys: the TTL never runs out before the token does.
BlacklistCoversRevoked ==
  \A t \in Tokens :
    token[t].status = "revoked" /\ ~Expired(t) /\ ~redisLost => Blacklisted(t)

\* A token is blacklisted while its row is valid only during a request that will
\* revoke it, or after such a request failed.
OnlyFailuresOrphan ==
  \A t \in Tokens : token[t].status = "valid" /\ Blacklisted(t) =>
    \/ t \in orphaned
    \/ \E r \in Requests : req[r].t = t /\ req[r].pc \in {"blacklisted", "flushed"}

\* A refresh token has at most one successor: rotation makes the old token
\* unusable.
RotatedOnce ==
  \A s, t \in Tokens : token[s].from # None /\ token[s].from = token[t].from => s = t

\* A session that was logged out is over: no call is accepted any more with the access
\* token issued together with the refresh token that was logged out.
SignedOutIsOut ==
  \A r \in Requests : req[r].kind = "api" /\ req[r].late => req[r].pc # "done"

\* Requests never wait for each other in a circle: one of those in flight can go on.
SomeoneMoves == (\E r \in Requests : InFlight(r)) => \E r \in Requests : ENABLED Step(r)
=============================================================================
