--------------------------- MODULE SessionsProofs ---------------------------
(***************************************************************************)
(* Theorems about Sessions for any number of users, tokens, requests and    *)
(* faults, and any lifetimes.                                               *)
(***************************************************************************)
EXTENDS Sessions, FiniteSetTheorems, TLAPS

-----------------------------------------------------------------------------
(* Type correctness.                                                        *)

\* A request in flight holds a token that was issued.
HoldsItsToken ==
  \A r \in Requests : InFlight(r) =>
    /\ req[r].kind \in {"refresh", "logout", "api"}
    /\ req[r].t \in Tokens
    /\ Issued(req[r].t)

\* A rotation past its blacklist key has a jti for the new row, which no row has and no
\* other request.
HasItsJti ==
  \A r \in Requests :
    /\ req[r].kind = "refresh" /\ req[r].pc \in {"blacklisted", "flushed"} =>
         req[r].new \in Tokens
    /\ req[r].new # None =>
         /\ ~Issued(req[r].new)
         /\ \A q \in Requests : req[q].new = req[r].new => q = r

\* The rows of issued tokens have a user.
RowsAreOwned == \A t \in Tokens : Issued(t) => token[t].user \in Users

TypeInv == TypeOK /\ HoldsItsToken /\ HasItsJti /\ RowsAreOwned

\* A step changes the progress of this request alone.
OnlyMoves(r) ==
  /\ req' \in [Requests -> ReqType]
  /\ \A q \in Requests \ {r} : req'[q] = req[q]

\* The empty progress of a request is well typed.
LEMMA NewRequestType == NewRequest \in ReqType
BY DEF NewRequest, ReqType

\* A denied request holds nothing.
LEMMA DenyType ==
  ASSUME TypeOK, NEW r \in Requests, Deny(r)
  PROVE  /\ OnlyMoves(r)
         /\ req'[r].pc = "denied" /\ req'[r].kind = "none" /\ req'[r].new = None
         /\ req'[r].late = FALSE /\ req'[r].ousted = FALSE
BY NewRequestType DEF TypeOK, Deny, OnlyMoves, NewRequest, ReqType

\* A request that succeeded holds no token any more.
LEMMA DoneType ==
  ASSUME TypeOK, NEW r \in Requests, Done(r)
  PROVE  /\ OnlyMoves(r)
         /\ req'[r].pc = "done" /\ req'[r].new = None
         /\ req'[r].kind = req[r].kind /\ req'[r].late = req[r].late
         /\ req'[r].ousted = req[r].ousted
BY NewRequestType DEF TypeOK, Done, OnlyMoves, NewRequest, ReqType

\* A request that goes on keeps what it holds.
LEMMA AdvanceType ==
  ASSUME TypeOK, NEW r \in Requests, NEW pc \in {"loaded", "admitted", "blacklisted", "flushed"},
         Advance(r, pc)
  PROVE  /\ OnlyMoves(r)
         /\ req'[r].pc = pc
         /\ req'[r].kind = req[r].kind /\ req'[r].t = req[r].t /\ req'[r].new = req[r].new
         /\ req'[r].expires = req[r].expires /\ req'[r].updates = req[r].updates
         /\ req'[r].late = req[r].late /\ req'[r].ousted = req[r].ousted
BY DEF TypeOK, Advance, OnlyMoves, ReqType

\* So does one that has read the row, but for what it will write.
LEMMA CheckedType ==
  ASSUME TypeOK, NEW r \in Requests, NEW updates \in BOOLEAN,
         req' = [req EXCEPT ![r] = [@ EXCEPT !.pc = "checked", !.updates = updates]]
  PROVE  /\ OnlyMoves(r)
         /\ req'[r].pc = "checked" /\ req'[r].updates = updates
         /\ req'[r].kind = req[r].kind /\ req'[r].t = req[r].t /\ req'[r].new = req[r].new
         /\ req'[r].expires = req[r].expires
         /\ req'[r].late = req[r].late /\ req'[r].ousted = req[r].ousted
<1> DEFINE x == [req[r] EXCEPT !.pc = "checked", !.updates = updates]
<1>1. x \in ReqType /\ req' = [req EXCEPT ![r] = x]
  BY DEF TypeOK, ReqType
<1>2. /\ x.pc = "checked" /\ x.updates = updates
      /\ x.kind = req[r].kind /\ x.t = req[r].t /\ x.new = req[r].new
      /\ x.expires = req[r].expires /\ x.late = req[r].late /\ x.ousted = req[r].ousted
  BY DEF TypeOK, ReqType
<1> HIDE DEF x
<1>3. QED
  BY <1>1, <1>2 DEF TypeOK, OnlyMoves

\* A request that begins holds the token it was sent.
LEMMA BeginType ==
  ASSUME TypeOK, NEW r \in Requests, NEW t \in Tokens, NEW kind \in {"refresh", "logout", "api"},
         Begin(r, t, kind)
  PROVE  /\ OnlyMoves(r)
         /\ req'[r].new = None
         /\ \/ Deny(r)
            \/ /\ ~JwtExpired(t, kind)
               /\ req'[r].pc = "begun" /\ req'[r].kind = kind /\ req'[r].t = t
               /\ req'[r].late = Late(t, kind) /\ req'[r].ousted = (token[t].user \notin active)
<1> DEFINE late == Late(t, kind)
           ousted == token[t].user \notin active
           x == [NewRequest EXCEPT !.pc = "begun", !.kind = kind, !.t = t,
                                   !.late = late, !.ousted = ousted]
<1>1. late \in BOOLEAN /\ ousted \in BOOLEAN
  BY DEF Late
<1>2. CASE JwtExpired(t, kind)
  BY <1>2, DenyType DEF Begin
<1>3. CASE ~JwtExpired(t, kind)
  <2>1. req' = [req EXCEPT ![r] = x]
    BY <1>3 DEF Begin
  <2> HIDE DEF late, ousted
  <2>2. /\ x \in ReqType /\ x.new = None
        /\ x.pc = "begun" /\ x.kind = kind /\ x.t = t /\ x.late = late /\ x.ousted = ousted
    BY <1>1 DEF NewRequest, ReqType
  <2> HIDE DEF x
  <2>3. /\ OnlyMoves(r) /\ req'[r].new = None
        /\ req'[r].pc = "begun" /\ req'[r].kind = kind /\ req'[r].t = t
        /\ req'[r].late = late /\ req'[r].ousted = ousted
    BY <2>1, <2>2 DEF TypeOK, OnlyMoves
  <2>4. QED
    BY <1>3, <2>3 DEF late, ousted
<1>4. QED
  BY <1>2, <1>3

\* A rotation that has written its key holds the new jti.
LEMMA RotateType ==
  ASSUME TypeOK, NEW r \in Requests, NEW n \in Tokens, RefreshBlacklist(r, n)
  PROVE  /\ OnlyMoves(r)
         /\ req'[r].pc = "blacklisted" /\ req'[r].new = n /\ req'[r].expires = now + Lifetime
         /\ req'[r].kind = "refresh" /\ req'[r].t = req[r].t /\ req'[r].updates = req[r].updates
         /\ req'[r].late = req[r].late /\ req'[r].ousted = req[r].ousted
<1> DEFINE x == [req[r] EXCEPT !.pc = "blacklisted", !.new = n, !.expires = NewExpiry]
<1>1. NewExpiry = now + Lifetime /\ NewExpiry \in Nat
  BY LifetimeType DEF TypeOK, NewExpiry
<1>2. x \in ReqType /\ req' = [req EXCEPT ![r] = x] /\ req[r].kind = "refresh"
  BY <1>1 DEF RefreshBlacklist, TypeOK, ReqType
<1>3. /\ x.pc = "blacklisted" /\ x.new = n /\ x.expires = now + Lifetime
      /\ x.kind = req[r].kind /\ x.t = req[r].t /\ x.updates = req[r].updates
      /\ x.late = req[r].late /\ x.ousted = req[r].ousted
  BY <1>1 DEF TypeOK, ReqType
<1> HIDE DEF x
<1>4. QED
  BY <1>2, <1>3 DEF TypeOK, OnlyMoves

\* A request that fails holds a token at most for the record.
LEMMA FailType ==
  ASSUME TypeOK, NEW r \in Requests, Fail(r)
  PROVE  /\ OnlyMoves(r)
         /\ req'[r].pc = "failed" /\ req'[r].kind = "none" /\ req'[r].new = None
         /\ req'[r].late = FALSE /\ req'[r].ousted = FALSE
<1> DEFINE x == [NewRequest EXCEPT !.pc = "failed", !.t = req[r].t, !.updates = req[r].updates]
<1>1. /\ x \in ReqType /\ req' = [req EXCEPT ![r] = x]
      /\ x.pc = "failed" /\ x.kind = "none" /\ x.new = None /\ x.late = FALSE /\ x.ousted = FALSE
  BY DEF Fail, NewRequest, TypeOK, ReqType
<1> HIDE DEF x
<1>2. QED
  BY <1>1 DEF TypeOK, OnlyMoves

\* A row that is revoked stays a row.
LEMMA RevokedType ==
  ASSUME TypeOK, NEW t \in Tokens
  PROVE  /\ RevokedRow(t) \in Row
         /\ RevokedRow(t).status = "revoked" /\ RevokedRow(t).user = token[t].user
         /\ RevokedRow(t).expires = token[t].expires /\ RevokedRow(t).from = token[t].from
BY DEF TypeOK, RevokedRow, Row

\* A rotation commits the revoked row and the new one.
LEMMA RefreshRows ==
  ASSUME TypeInv, NEW r \in Requests, RefreshCommit(r)
  PROVE  LET t == req[r].t
             n == req[r].new
         IN /\ t \in Tokens /\ n \in Tokens /\ t # n /\ Issued(t) /\ ~Issued(n)
            /\ token' \in [Tokens -> Row]
            /\ token'[t] = RevokedRow(t)
            /\ token'[n] = NewRow(token[t].user, req[r].expires, t)
            /\ \A m \in Tokens \ {t, n} : token'[m] = token[m]
<1> DEFINE t == req[r].t
           n == req[r].new
           row == NewRow(token[t].user, req[r].expires, t)
<1>1. t \in Tokens /\ n \in Tokens /\ Issued(t) /\ ~Issued(n)
  BY NoneIsFresh DEF RefreshCommit, TypeInv, HoldsItsToken, HasItsJti, InFlight
<1>2. row \in Row
  BY <1>1 DEF NewRow, Row, TypeInv, TypeOK, ReqType, RowsAreOwned
<1>3. RevokedRow(t) \in Row
  BY <1>1, RevokedType DEF TypeInv
<1>4. token' = [token EXCEPT ![t] = RevokedRow(t), ![n] = row]
  BY DEF RefreshCommit
<1> HIDE DEF t, n, row
<1>5. token' \in [Tokens -> Row]
  BY <1>1, <1>2, <1>3, <1>4 DEF TypeInv, TypeOK
<1>6. /\ t # n /\ token'[t] = RevokedRow(t) /\ token'[n] = row
      /\ \A m \in Tokens \ {t, n} : token'[m] = token[m]
  BY <1>1, <1>4 DEF TypeInv, TypeOK
<1>7. QED
  BY <1>1, <1>5, <1>6 DEF t, n, row

\* A logout commits at most the revocation of the row.
LEMMA LogoutRows ==
  ASSUME TypeInv, NEW r \in Requests, LogoutCommit(r)
  PROVE  LET t == req[r].t IN
         /\ t \in Tokens /\ Issued(t)
         /\ token' \in [Tokens -> Row]
         /\ token'[t] = IF req[r].updates THEN RevokedRow(t) ELSE token[t]
         /\ \A m \in Tokens \ {t} : token'[m] = token[m]
<1>1. req[r].t \in Tokens /\ Issued(req[r].t)
  BY DEF LogoutCommit, TypeInv, HoldsItsToken, InFlight
<1>2. RevokedRow(req[r].t) \in Row
  BY <1>1, RevokedType DEF TypeInv
<1>3. QED
  BY <1>1, <1>2 DEF LogoutCommit, TypeInv, TypeOK

\* The initial state is well typed.
LEMMA TypeInit == Init => TypeInv
<1> SUFFICES ASSUME Init PROVE TypeInv
  OBVIOUS
<1>1. TypeOK
  <2>1. AbsentRow \in Row
    BY DEF AbsentRow, Row
  <2>2. now \in 0..MaxTime /\ faults \in 0..MaxFaults
    BY BoundsType DEF Init
  <2>3. /\ token \in [Tokens -> Row] /\ req \in [Requests -> ReqType]
        /\ blacklist \in [Tokens -> Nat]
    BY <2>1, NewRequestType DEF Init
  <2>4. dead \subseteq Tokens /\ signedOut \subseteq Tokens
    BY DEF Init
  <2>5. redisLost \in BOOLEAN /\ active \subseteq Users /\ orphaned \subseteq Tokens
    BY DEF Init
  <2>6. QED
    BY <2>2, <2>3, <2>4, <2>5 DEF TypeOK
<1>2. HoldsItsToken /\ HasItsJti /\ RowsAreOwned
  BY DEF Init, HoldsItsToken, HasItsJti, RowsAreOwned, NewRequest, InFlight, AbsentRow, Issued
<1>3. QED
  BY <1>1, <1>2 DEF TypeInv

\* A step of one request that takes back no row keeps what the requests hold.
LEMMA HeldAlone ==
  ASSUME TypeInv, NEW r \in Requests, OnlyMoves(r),
         \A t \in Tokens : Issued(t) => Issued(t)',
         \A t \in Tokens : Issued(t)' => Issued(t) \/ (t = req[r].new /\ req'[r].new = None),
         InFlight(r)' =>
           /\ req'[r].kind \in {"refresh", "logout", "api"}
           /\ req'[r].t \in Tokens /\ token'[req'[r].t].status # "absent",
         req'[r].kind = "refresh" /\ req'[r].pc \in {"blacklisted", "flushed"} =>
           req'[r].new \in Tokens,
         req'[r].new = None \/ req'[r].new = req[r].new \/ req'[r].new \in Fresh
  PROVE  HoldsItsToken' /\ HasItsJti'
<1> USE DEF TypeInv, OnlyMoves
<1>1. HoldsItsToken'
  BY DEF HoldsItsToken, InFlight, Issued
<1>2. ASSUME NEW q \in Requests, req'[q].new # None
      PROVE  /\ token'[req'[q].new].status = "absent"
             /\ \A p \in Requests : req'[p].new = req'[q].new => p = q
  <2>1. req'[q].new \in Tokens
    BY <1>2 DEF ReqType
  <2>2. CASE q = r
    BY <1>2, <2>1, <2>2 DEF HasItsJti, Fresh, Issued
  <2>3. CASE q # r
    <3>1. req'[q].new = req[q].new /\ ~Issued(req[q].new)
      BY <1>2, <2>3 DEF HasItsJti
    <3>2. \A p \in Requests : req[p].new = req[q].new => p = q
      BY <1>2, <3>1 DEF HasItsJti
    <3>3. req[r].new # req[q].new
      BY <2>3, <3>2
    <3>4. req'[r].new # req[q].new
      BY <1>2, <3>1, <3>3 DEF Fresh
    <3>5. QED
      BY <2>1, <2>3, <3>1, <3>2, <3>3, <3>4 DEF Issued
  <2>4. QED
    BY <2>2, <2>3
<1>3. HasItsJti'
  <2>1. \A q \in Requests : req'[q].kind = "refresh" /\ req'[q].pc \in {"blacklisted", "flushed"} =>
          req'[q].new \in Tokens
    BY DEF HasItsJti
  <2>2. QED
    BY <1>2, <2>1 DEF HasItsJti, Issued
<1>4. QED
  BY <1>1, <1>3

\* A step of one request that leaves the rows alone keeps them well typed.
LEMMA HeldQuiet ==
  ASSUME TypeInv, NEW r \in Requests, OnlyMoves(r), token' = token,
         InFlight(r)' =>
           \/ InFlight(r) /\ req'[r].kind = req[r].kind /\ req'[r].t = req[r].t
           \/ /\ req'[r].kind \in {"refresh", "logout", "api"}
              /\ req'[r].t \in Tokens /\ token[req'[r].t].status # "absent",
         req'[r].kind = "refresh" /\ req'[r].pc \in {"blacklisted", "flushed"} =>
           req'[r].new \in Tokens,
         req'[r].new = None \/ req'[r].new = req[r].new \/ req'[r].new \in Fresh
  PROVE  HoldsItsToken' /\ HasItsJti' /\ RowsAreOwned'
<1>1. \A t \in Tokens : Issued(t)' <=> Issued(t)
  BY DEF Issued
<1>2. InFlight(r)' => /\ req'[r].kind \in {"refresh", "logout", "api"}
                      /\ req'[r].t \in Tokens /\ token'[req'[r].t].status # "absent"
  BY DEF TypeInv, HoldsItsToken, Issued
<1>3. RowsAreOwned'
  BY <1>1 DEF TypeInv, RowsAreOwned
<1>4. QED
  BY <1>1, <1>2, <1>3, HeldAlone

\* Every step keeps the types.
LEMMA TypeNext == TypeInv /\ [Next]_vars => TypeInv'
<1> SUFFICES ASSUME TypeInv, [Next]_vars PROVE TypeInv'
  OBVIOUS
<1>0. TypeOK /\ HoldsItsToken /\ HasItsJti /\ RowsAreOwned
  BY DEF TypeInv
<1>1. ASSUME UNCHANGED <<token, req>>, TypeOK' PROVE TypeInv'
  BY <1>0, <1>1 DEF TypeInv, HoldsItsToken, HasItsJti, RowsAreOwned, InFlight, Issued
<1>2. CASE Tick
  <2>1. TypeOK'
    BY <1>0, <1>2, BoundsType DEF Tick, TypeOK, store, history
  <2>2. QED
    BY <1>1, <1>2, <2>1 DEF Tick, store
<1>3. CASE RedisLosesKeys
  <2>1. redisLost' \in BOOLEAN
    BY <1>3 DEF RedisLosesKeys
  <2>2. faults' \in 0..MaxFaults
    BY <1>0, <1>3, BoundsType DEF RedisLosesKeys, Fault, TypeOK
  <2>3. blacklist' \in [Tokens -> Nat]
    BY <1>3 DEF RedisLosesKeys
  <2>4. TypeOK'
    BY <1>0, <1>3, <2>1, <2>2, <2>3 DEF RedisLosesKeys, TypeOK, env
  <2>5. QED
    BY <1>1, <1>3, <2>4 DEF RedisLosesKeys
<1>4. ASSUME NEW u \in Users, DeactivateUser(u) PROVE TypeInv'
  <2>1. TypeOK'
    BY <1>0, <1>4 DEF DeactivateUser, TypeOK, store, history
  <2>2. QED
    BY <1>1, <1>4, <2>1 DEF DeactivateUser, store
<1>5. ASSUME NEW u \in Users, NEW t \in Tokens, Login(u, t) PROVE TypeInv'
  <2>1. NewRow(u, NewExpiry, None) \in Row /\ NewRow(u, NewExpiry, None).user = u
    BY <1>0, LifetimeType DEF NewRow, NewExpiry, Row, TypeOK
  <2>2. /\ t \in Fresh
        /\ token' = [token EXCEPT ![t] = NewRow(u, NewExpiry, None)]
        /\ UNCHANGED <<env, blacklist, req, history>>
    BY <1>5 DEF Login
  <2>3. TypeOK'
    BY <1>0, <2>1, <2>2 DEF TypeOK, env, history
  <2>4. \A m \in Tokens \ {t} : token'[m] = token[m]
    BY <1>0, <2>2 DEF TypeOK
  <2>5. token'[t].user = u /\ token'[t].status # "absent"
    BY <1>0, <2>1, <2>2 DEF TypeOK, NewRow
  <2>6. HoldsItsToken'
    BY <1>0, <2>2, <2>4, <2>5 DEF HoldsItsToken, InFlight, Issued
  <2>7. HasItsJti'
    <3>1. \A r \in Requests : req[r].new # t
      BY <2>2 DEF Fresh
    <3>2. \A r \in Requests : req[r].new # None => req[r].new \in Tokens
      BY <1>0 DEF TypeOK, ReqType
    <3>3. QED
      BY <1>0, <2>2, <2>4, <3>1, <3>2 DEF HasItsJti, Issued
  <2>8. RowsAreOwned'
    BY <1>0, <2>4, <2>5 DEF RowsAreOwned, Issued
  <2>9. QED
    BY <2>3, <2>6, <2>7, <2>8 DEF TypeInv
<1>6. ASSUME NEW r \in Requests, NEW t \in Tokens, NEW kind \in {"refresh", "logout", "api"},
             Begin(r, t, kind)
      PROVE  TypeInv'
  <2>1. UNCHANGED <<env, store, history>> /\ Issued(t)
    BY <1>6 DEF Begin
  <2>2. /\ OnlyMoves(r) /\ req'[r].new = None
        /\ InFlight(r)' => req'[r].kind = kind /\ req'[r].t = t
        /\ req'[r].pc \notin {"blacklisted", "flushed"}
    BY <1>0, <1>6, BeginType, DenyType DEF InFlight
  <2>3. TypeOK'
    BY <1>0, <2>1, <2>2 DEF TypeOK, OnlyMoves, env, store, history
  <2>4. HoldsItsToken' /\ HasItsJti' /\ RowsAreOwned'
    BY <2>1, <2>2, HeldQuiet DEF store, Issued
  <2>5. QED
    BY <2>3, <2>4 DEF TypeInv
<1>7. ASSUME NEW r \in Requests,
             Authorize(r) \/ RefreshCheckBlacklist(r) \/ RefreshCheckRow(r) \/ RefreshCheckUser(r)
             \/ RefreshFlush(r) \/ LogoutLoad(r) \/ LogoutFlush(r)
      PROVE  TypeInv'
  <2>1. UNCHANGED <<env, store, history>> /\ InFlight(r)
    BY <1>7
    DEF Authorize, RefreshCheckBlacklist, RefreshCheckRow, RefreshCheckUser, RefreshFlush,
        LogoutLoad, LogoutFlush, InFlight
  <2>2. /\ OnlyMoves(r)
        /\ req'[r].new = None \/ req'[r].new = req[r].new
        /\ InFlight(r)' => req'[r].kind = req[r].kind /\ req'[r].t = req[r].t
        /\ req'[r].kind = "refresh" /\ req'[r].pc \in {"blacklisted", "flushed"} =>
             req'[r].new \in Tokens
    <3>1. CASE Authorize(r)
      BY <1>0, <3>1, DoneType, DenyType DEF Authorize, InFlight
    <3>2. CASE RefreshCheckBlacklist(r)
      BY <1>0, <3>2, AdvanceType, DenyType DEF RefreshCheckBlacklist, InFlight
    <3>3. CASE RefreshCheckRow(r)
      BY <1>0, <3>3, CheckedType, DenyType DEF RefreshCheckRow, InFlight
    <3>4. CASE LogoutLoad(r)
      <4>1. Updates(req[r].t) \in BOOLEAN
        BY DEF Updates
      <4>2. QED
        BY <1>0, <3>4, <4>1, CheckedType DEF LogoutLoad
    <3>5. CASE LogoutFlush(r)
      BY <1>0, <3>5, AdvanceType DEF LogoutFlush
    <3>6. CASE RefreshCheckUser(r)
      BY <1>0, <3>6, AdvanceType, DenyType DEF RefreshCheckUser, InFlight
    <3>7. CASE RefreshFlush(r)
      <4>1. req[r].new \in Tokens
        BY <1>0, <3>7 DEF RefreshFlush, HasItsJti
      <4>2. QED
        BY <1>0, <3>7, <4>1, AdvanceType DEF RefreshFlush
    <3>8. QED
      BY <1>7, <3>1, <3>2, <3>3, <3>4, <3>5, <3>6, <3>7
  <2>3. TypeOK'
    BY <1>0, <2>1, <2>2 DEF TypeOK, OnlyMoves, env, store, history
  <2>4. HoldsItsToken' /\ HasItsJti' /\ RowsAreOwned'
    BY <2>1, <2>2, HeldQuiet DEF store
  <2>5. QED
    BY <2>3, <2>4 DEF TypeInv
<1>8. ASSUME NEW r \in Requests, LogoutBlacklist(r) PROVE TypeInv'
  <2>1. UNCHANGED <<env, token, history>> /\ InFlight(r) /\ req[r].kind = "logout"
    BY <1>8 DEF LogoutBlacklist, InFlight
  <2>2. blacklist' \in [Tokens -> Nat]
    <3>1. now + TTL \in Nat
      BY <1>0, LifetimeType, BoundsType DEF TypeOK, TTL
    <3>2. QED
      BY <1>0, <1>8, <3>1 DEF LogoutBlacklist, TypeOK
  <2>3. /\ OnlyMoves(r)
        /\ req'[r].new = req[r].new /\ req'[r].kind = req[r].kind /\ req'[r].t = req[r].t
    BY <1>0, <1>8, AdvanceType DEF LogoutBlacklist
  <2>4. TypeOK'
    BY <1>0, <2>1, <2>2, <2>3 DEF TypeOK, OnlyMoves, env, history
  <2>5. HoldsItsToken' /\ HasItsJti' /\ RowsAreOwned'
    BY <2>1, <2>3, HeldQuiet
  <2>6. QED
    BY <2>4, <2>5 DEF TypeInv
<1>9. ASSUME NEW r \in Requests, NEW n \in Tokens, RefreshBlacklist(r, n) PROVE TypeInv'
  <2>1. UNCHANGED <<env, token, history>> /\ InFlight(r) /\ n \in Fresh /\ req[r].kind = "refresh"
    BY <1>9 DEF RefreshBlacklist, InFlight
  <2>2. /\ OnlyMoves(r)
        /\ req'[r].new = n /\ req'[r].kind = "refresh" /\ req'[r].t = req[r].t
    BY <1>0, <1>9, RotateType
  <2>3. blacklist' \in [Tokens -> Nat]
    <3>1. now + TTL \in Nat
      BY <1>0, LifetimeType, BoundsType DEF TypeOK, TTL
    <3>2. QED
      BY <1>0, <1>9, <3>1 DEF RefreshBlacklist, TypeOK
  <2>4. TypeOK'
    BY <1>0, <2>1, <2>2, <2>3 DEF TypeOK, OnlyMoves, env, history
  <2>5. HoldsItsToken' /\ HasItsJti' /\ RowsAreOwned'
    BY <2>1, <2>2, HeldQuiet
  <2>6. QED
    BY <2>4, <2>5 DEF TypeInv
<1>10. ASSUME NEW r \in Requests, Fail(r) PROVE TypeInv'
  <2>1. UNCHANGED <<env, store, dead, signedOut, redisLost>>
    BY <1>10 DEF Fail
  <2>2. faults' \in 0..MaxFaults
    BY <1>0, <1>10, BoundsType DEF Fail, Fault, TypeOK
  <2>3. orphaned' \subseteq Tokens
    BY <1>0, <1>10 DEF Fail, TypeOK, HoldsItsToken
  <2>4. OnlyMoves(r) /\ req'[r].pc = "failed" /\ req'[r].new = None
    BY <1>0, <1>10, FailType
  <2>5. TypeOK'
    BY <1>0, <2>1, <2>2, <2>3, <2>4 DEF TypeOK, OnlyMoves, env, store
  <2>6. HoldsItsToken' /\ HasItsJti' /\ RowsAreOwned'
    BY <2>1, <2>4, HeldQuiet DEF store, InFlight
  <2>7. QED
    BY <2>5, <2>6 DEF TypeInv
<1>11. ASSUME NEW r \in Requests, RefreshCommit(r) PROVE TypeInv'
  <2> DEFINE t == req[r].t
             n == req[r].new
  <2>1. /\ t \in Tokens /\ n \in Tokens /\ t # n /\ Issued(t) /\ ~Issued(n)
        /\ token' \in [Tokens -> Row]
        /\ token'[t] = RevokedRow(t)
        /\ token'[n] = NewRow(token[t].user, req[r].expires, t)
        /\ \A m \in Tokens \ {t, n} : token'[m] = token[m]
    BY <1>11, RefreshRows
  <2>2. /\ Done(r) /\ dead' = dead \cup {t}
        /\ UNCHANGED <<env, blacklist, signedOut, orphaned, redisLost, faults>>
    BY <1>11 DEF RefreshCommit
  <2>3. OnlyMoves(r) /\ req'[r].pc = "done" /\ req'[r].new = None
    BY <1>0, <2>2, DoneType
  <2> HIDE DEF t
  <2>4. dead' \subseteq Tokens
    BY <1>0, <2>1, <2>2 DEF TypeOK
  <2>5. TypeOK'
    BY <1>0, <2>1, <2>2, <2>3, <2>4 DEF TypeOK, OnlyMoves, env
  <2>6. /\ token'[t].status = "revoked" /\ token'[t].user = token[t].user
        /\ token'[n].status = "valid" /\ token'[n].user = token[t].user
    BY <1>0, <2>1, RevokedType DEF NewRow
  <2>7. /\ \A m \in Tokens : Issued(m) => Issued(m)'
        /\ \A m \in Tokens : Issued(m)' => Issued(m) \/ m = n
    BY <2>1, <2>6 DEF Issued
  <2>8. HoldsItsToken' /\ HasItsJti'
    BY <2>3, <2>7, HeldAlone DEF InFlight
  <2>9. RowsAreOwned'
    BY <1>0, <2>1, <2>6 DEF RowsAreOwned, Issued
  <2>10. QED
    BY <2>5, <2>8, <2>9 DEF TypeInv
<1>12. ASSUME NEW r \in Requests, LogoutCommit(r) PROVE TypeInv'
  <2> DEFINE t == req[r].t
  <2>1. /\ t \in Tokens /\ Issued(t)
        /\ token' \in [Tokens -> Row]
        /\ token'[t] = IF req[r].updates THEN RevokedRow(t) ELSE token[t]
        /\ \A m \in Tokens \ {t} : token'[m] = token[m]
    BY <1>12, LogoutRows
  <2>2. /\ Done(r) /\ dead' = dead \cup {t} /\ signedOut' = signedOut \cup {t}
        /\ UNCHANGED <<env, blacklist, orphaned, redisLost, faults>>
    BY <1>12 DEF LogoutCommit
  <2>3. OnlyMoves(r) /\ req'[r].pc = "done" /\ req'[r].new = None
    BY <1>0, <2>2, DoneType
  <2> HIDE DEF t
  <2>4. dead' \subseteq Tokens /\ signedOut' \subseteq Tokens
    BY <1>0, <2>1, <2>2 DEF TypeOK
  <2>5. TypeOK'
    BY <1>0, <2>1, <2>2, <2>3, <2>4 DEF TypeOK, OnlyMoves, env
  <2>6. token'[t].status # "absent" /\ token'[t].user = token[t].user
    BY <1>0, <2>1, RevokedType DEF Issued
  <2>7. \A m \in Tokens : Issued(m)' <=> Issued(m)
    BY <2>1, <2>6 DEF Issued
  <2>8. HoldsItsToken' /\ HasItsJti'
    BY <2>3, <2>7, HeldAlone DEF InFlight
  <2>9. RowsAreOwned'
    BY <1>0, <2>1, <2>6, <2>7 DEF RowsAreOwned
  <2>10. QED
    BY <2>5, <2>8, <2>9 DEF TypeInv
<1>13. CASE UNCHANGED vars
  <2>1. TypeOK'
    BY <1>0, <1>13 DEF TypeOK, vars, env, store, history
  <2>2. QED
    BY <1>1, <1>13, <2>1 DEF vars, store
<1>14. QED
  BY <1>2, <1>3, <1>4, <1>5, <1>6, <1>7, <1>8, <1>9, <1>10, <1>11, <1>12, <1>13 DEF Next, Step

\* Every reachable state is well typed (the tables, keys and requests of the token
\* routes in auth_service.py).
THEOREM TypeCorrect == Spec => []TypeOK
<1>1. TypeInv => TypeOK
  BY DEF TypeInv
<1>2. QED
  BY <1>1, TypeInit, TypeNext, PTL DEF Spec

-----------------------------------------------------------------------------
(* What refuses a token, and until when.                                    *)

Fits(r) ==
  LET t == req[r].t IN
  \* The new row outlives the old one.
  /\ req[r].kind = "refresh" /\ req[r].pc \in {"blacklisted", "flushed"} =>
       token[t].expires <= req[r].expires /\ req[r].expires <= now + Lifetime
  \* A logout without an UPDATE found the row revoked.
  /\ req[r].kind = "logout" /\ req[r].pc \in {"checked", "blacklisted", "flushed"} =>
       req[r].updates \/ Revoked(t)
  \* A rotation that came late has not passed the check of the row.
  /\ req[r].kind = "refresh" /\ req[r].late =>
       req[r].pc \in {"begun", "loaded"} /\ Revoked(t)
  \* A request of a deactivated user has not passed the check of the user.
  /\ req[r].kind \in {"refresh", "api"} /\ req[r].ousted =>
       req[r].pc \in {"begun", "loaded", "checked"} /\ ~ActiveUser(t)
  \* The key a request has written lasts as long as its token.
  /\ req[r].pc \in {"blacklisted", "flushed"} /\ ~redisLost =>
       token[t].expires <= blacklist[t]

RowFits(t) ==
  /\ Issued(t) => token[t].expires <= now + Lifetime
  /\ ~Issued(t) => blacklist[t] = 0 /\ t \notin dead /\ token[t].from = None
  /\ t \in dead => Revoked(t)
  /\ Revoked(t) /\ ~redisLost => token[t].expires <= blacklist[t]
  /\ token[t].from # None =>
       LET p == token[token[t].from] IN
       p.status = "revoked" /\ p.user = token[t].user /\ p.expires <= token[t].expires

\* A request that has written the key of its token and not ended.
Blacklisting(r, t) == req[r].t = t /\ req[r].pc \in {"blacklisted", "flushed"}

\* A valid token has a key only by a request in flight or a failed one, expired or not.
KeysAreAccountedFor ==
  \A t \in Tokens : token[t].status = "valid" /\ blacklist[t] # 0 =>
    t \in orphaned \/ \E r \in Requests : Blacklisting(r, t)

RefusalInv ==
  /\ \A r \in Requests : Fits(r)
  /\ \A t \in Tokens : RowFits(t)
  /\ KeysAreAccountedFor

\* What a step does to the rows it finds and to what has been decided about them: it
\* revokes some, and keeps the rest as it was; a key lost is the work of Redis.
RowsLast ==
  /\ now' >= now
  /\ active' \subseteq active
  /\ redisLost => redisLost'
  /\ \A t \in Tokens : Issued(t) =>
       /\ token'[t].user = token[t].user /\ token'[t].expires = token[t].expires
       /\ token'[t].from = token[t].from
       /\ token'[t].status \in {token[t].status, "revoked"}
  /\ dead \subseteq dead' /\ signedOut \subseteq signedOut'
  /\ ~redisLost' => \A t \in Tokens : blacklist'[t] \in {blacklist[t], now + Lifetime}

\* No step takes a row back, revives it, or forgets that it was revoked.
LEMMA StepKeepsRows == TypeInv /\ [Next]_vars => RowsLast
<1> SUFFICES ASSUME TypeInv, [Next]_vars PROVE RowsLast
  OBVIOUS
<1>0. TypeOK /\ now \in Nat
  BY BoundsType DEF TypeInv, TypeOK
<1>1. ASSUME UNCHANGED <<token, dead, signedOut>>, now' >= now, active' \subseteq active,
             redisLost => redisLost',
             ~redisLost' => \A t \in Tokens : blacklist'[t] \in {blacklist[t], now + Lifetime}
      PROVE  RowsLast
  BY <1>1 DEF RowsLast
<1>2. CASE Tick
  BY <1>0, <1>1, <1>2 DEF Tick, store, history
<1>3. CASE RedisLosesKeys
  BY <1>0, <1>1, <1>3 DEF RedisLosesKeys, env
<1>4. ASSUME NEW u \in Users, DeactivateUser(u) PROVE RowsLast
  BY <1>0, <1>1, <1>4 DEF DeactivateUser, store, history
<1>5. ASSUME NEW u \in Users, NEW t \in Tokens, Login(u, t) PROVE RowsLast
  <2>1. ~Issued(t) /\ \A m \in Tokens \ {t} : token'[m] = token[m]
    BY <1>0, <1>5 DEF Login, Fresh, TypeOK
  <2>2. UNCHANGED <<env, blacklist, history>>
    BY <1>5 DEF Login
  <2>3. QED
    BY <1>0, <2>1, <2>2 DEF RowsLast, env, history
<1>6. ASSUME NEW r \in Requests, NEW t \in Tokens, NEW kind \in {"refresh", "logout", "api"},
             Begin(r, t, kind)
      PROVE  RowsLast
  BY <1>0, <1>1, <1>6 DEF Begin, env, store, history
<1>7. ASSUME NEW r \in Requests,
             Authorize(r) \/ RefreshCheckBlacklist(r) \/ RefreshCheckRow(r) \/ RefreshCheckUser(r)
             \/ RefreshFlush(r) \/ LogoutLoad(r) \/ LogoutFlush(r) \/ Fail(r)
      PROVE  RowsLast
  <2>1. UNCHANGED <<env, store, dead, signedOut, redisLost>>
    BY <1>7 DEF Authorize, RefreshCheckBlacklist, RefreshCheckRow, RefreshCheckUser, LogoutLoad,
                LogoutFlush, RefreshFlush, Fail, history
  <2>2. QED
    BY <1>0, <1>1, <2>1 DEF env, store
<1>8. ASSUME NEW r \in Requests, LogoutBlacklist(r) \/ \E n \in Tokens : RefreshBlacklist(r, n)
      PROVE  RowsLast
  <2>1. UNCHANGED <<env, token, history>>
    BY <1>8 DEF RefreshBlacklist, LogoutBlacklist
  <2>2. \A t \in Tokens : blacklist'[t] \in {blacklist[t], now + Lifetime}
    BY <1>0, <1>8 DEF RefreshBlacklist, LogoutBlacklist, TTL, TypeOK
  <2>3. QED
    BY <1>0, <1>1, <2>1, <2>2 DEF env, history
<1>9. ASSUME NEW r \in Requests, RefreshCommit(r) PROVE RowsLast
  <2> DEFINE t == req[r].t
             n == req[r].new
  <2>1. /\ t \in Tokens /\ ~Issued(n)
        /\ token'[t] = RevokedRow(t)
        /\ \A m \in Tokens \ {t, n} : token'[m] = token[m]
    BY <1>9, RefreshRows
  <2>2. dead' = dead \cup {t} /\ UNCHANGED <<env, blacklist, signedOut, redisLost>>
    BY <1>9 DEF RefreshCommit
  <2> HIDE DEF t, n
  <2>3. dead \subseteq dead' /\ signedOut \subseteq signedOut'
    BY <2>2
  <2>4. /\ token'[t].user = token[t].user /\ token'[t].expires = token[t].expires
        /\ token'[t].from = token[t].from /\ token'[t].status = "revoked"
    BY <1>0, <2>1, RevokedType
  <2>5. ASSUME NEW m \in Tokens, Issued(m)
        PROVE  /\ token'[m].user = token[m].user /\ token'[m].expires = token[m].expires
               /\ token'[m].from = token[m].from
               /\ token'[m].status \in {token[m].status, "revoked"}
    BY <2>1, <2>4, <2>5
  <2>6. QED
    BY <1>0, <2>2, <2>3, <2>5 DEF RowsLast, env
<1>10. ASSUME NEW r \in Requests, LogoutCommit(r) PROVE RowsLast
  <2> DEFINE t == req[r].t
  <2>1. /\ t \in Tokens
        /\ token'[t] = RevokedRow(t) \/ token'[t] = token[t]
        /\ \A m \in Tokens \ {t} : token'[m] = token[m]
    BY <1>10, LogoutRows
  <2>2. /\ dead' = dead \cup {t} /\ signedOut' = signedOut \cup {t}
        /\ UNCHANGED <<env, blacklist, redisLost>>
    BY <1>10 DEF LogoutCommit
  <2> HIDE DEF t
  <2>3. dead \subseteq dead' /\ signedOut \subseteq signedOut'
    BY <2>2
  <2>4. /\ token'[t].user = token[t].user /\ token'[t].expires = token[t].expires
        /\ token'[t].from = token[t].from /\ token'[t].status \in {token[t].status, "revoked"}
    BY <1>0, <2>1, RevokedType
  <2>5. QED
    BY <1>0, <2>1, <2>2, <2>3, <2>4 DEF RowsLast, env
<1>11. CASE UNCHANGED vars
  BY <1>0, <1>1, <1>11 DEF vars, env, store, history
<1>12. QED
  BY <1>2, <1>3, <1>4, <1>5, <1>6, <1>7, <1>8, <1>9, <1>10, <1>11 DEF Next, Step

\* What a request waits with stays true while it waits.
LEMMA FitsStays ==
  ASSUME TypeInv, TypeInv', RowsLast, NEW q \in Requests, req'[q] = req[q], Fits(q),
         \A t \in Tokens : RowFits(t)
  PROVE  Fits(q)'
<1>1. now \in Nat /\ now' \in Nat /\ Lifetime \in Nat
  BY LifetimeType, BoundsType DEF TypeInv, TypeOK
<1> DEFINE t == req[q].t
<1>2. CASE InFlight(q)
  <2>1. /\ t \in Tokens /\ Issued(t)
        /\ token[t].expires \in Nat /\ blacklist[t] \in Nat /\ blacklist'[t] \in Nat
        /\ req[q].expires \in Nat
    BY <1>2 DEF TypeInv, TypeOK, HoldsItsToken, Row, ReqType
  <2>2. /\ token'[t].user = token[t].user /\ token'[t].expires = token[t].expires
        /\ Revoked(t) => token'[t].status = "revoked"
        /\ token[t].expires <= now + Lifetime
        /\ ~redisLost' => ~redisLost /\ blacklist'[t] \in {blacklist[t], now + Lifetime}
        /\ active' \subseteq active /\ now' >= now
    BY <2>1 DEF RowsLast, RowFits, Revoked
  <2>3. /\ req[q].kind = "refresh" /\ req[q].pc \in {"blacklisted", "flushed"} =>
             token[t].expires <= req[q].expires /\ req[q].expires <= now' + Lifetime
        /\ req[q].pc \in {"blacklisted", "flushed"} /\ ~redisLost' =>
             token[t].expires <= blacklist'[t]
    BY <1>1, <2>1, <2>2 DEF Fits
  <2>4. /\ req[q].kind = "logout" /\ req[q].pc \in {"checked", "blacklisted", "flushed"} =>
             req[q].updates \/ token'[t].status = "revoked"
        /\ req[q].kind = "refresh" /\ req[q].late =>
             req[q].pc \in {"begun", "loaded"} /\ token'[t].status = "revoked"
        /\ req[q].kind \in {"refresh", "api"} /\ req[q].ousted =>
             req[q].pc \in {"begun", "loaded", "checked"} /\ token'[t].user \notin active'
    BY <2>2 DEF Fits, Revoked, ActiveUser
  <2>5. QED
    BY <2>2, <2>3, <2>4 DEF Fits, Revoked, ActiveUser
<1>3. CASE ~InFlight(q)
  BY <1>3 DEF Fits, InFlight
<1>4. QED
  BY <1>2, <1>3

\* What is known of a row stays true while nobody revokes it.
LEMMA RowStays ==
  ASSUME TypeInv, TypeInv', RowsLast, NEW t \in Tokens,
         token'[t] = token[t], t \in dead' => t \in dead,
         ~Issued(t) => blacklist'[t] = 0,
         \A m \in Tokens : RowFits(m)
  PROVE  RowFits(t)'
<1>1. now \in Nat /\ now' \in Nat /\ Lifetime \in Nat
  BY LifetimeType, BoundsType DEF TypeInv, TypeOK
<1>2. /\ token[t] \in Row /\ blacklist[t] \in Nat /\ blacklist'[t] \in Nat
      /\ token[t].from \in Tokens \cup {None} /\ token[t].expires \in Nat
  BY DEF TypeInv, TypeOK, Row
<1>3. /\ (Issued(t) => token[t].expires <= now + Lifetime)'
      /\ (~Issued(t) => blacklist[t] = 0 /\ t \notin dead /\ token[t].from = None)'
      /\ (t \in dead => Revoked(t))'
  BY <1>1, <1>2 DEF RowFits, RowsLast, Issued, Revoked
<1>4. (Revoked(t) /\ ~redisLost => token[t].expires <= blacklist[t])'
  <2>1. SUFFICES ASSUME Revoked(t), ~redisLost' PROVE token[t].expires <= blacklist'[t]
    BY DEF Revoked
  <2>2. token[t].expires <= blacklist[t] /\ token[t].expires <= now + Lifetime
    BY <2>1 DEF RowFits, Revoked, Issued, RowsLast
  <2>3. QED
    BY <2>1, <2>2 DEF RowsLast
<1>5. ASSUME token[t].from # None
      PROVE  /\ token'[token[t].from].status = "revoked"
             /\ token'[token[t].from].user = token[t].user
             /\ token'[token[t].from].expires <= token[t].expires
  BY <1>2, <1>5 DEF RowFits, RowsLast, Issued
<1>6. QED
  BY <1>3, <1>4, <1>5 DEF RowFits

\* Keys stay accounted for when one request moves, if it revokes its token or goes on
\* blacklisting it or fails.
LEMMA KeysStay ==
  ASSUME TypeInv, TypeInv', KeysAreAccountedFor, NEW r \in Requests, OnlyMoves(r),
         orphaned \subseteq orphaned',
         \A t \in Tokens : token'[t].status = "valid" => token[t].status = "valid" \/ blacklist'[t] = 0,
         \A t \in Tokens : Blacklisting(r, t) =>
           Blacklisting(r, t)' \/ t \in orphaned' \/ token'[t].status # "valid",
         \A t \in Tokens : blacklist'[t] # 0 => blacklist[t] # 0 \/ Blacklisting(r, t)'
  PROVE  KeysAreAccountedFor'
<1> SUFFICES ASSUME NEW t \in Tokens, token'[t].status = "valid", blacklist'[t] # 0,
                    t \notin orphaned'
             PROVE  \E q \in Requests : Blacklisting(q, t)'
  BY DEF KeysAreAccountedFor
<1>1. CASE Blacklisting(r, t)'
  BY <1>1
<1>2. CASE ~Blacklisting(r, t)'
  <2>1. PICK q \in Requests : Blacklisting(q, t)
    BY <1>2 DEF KeysAreAccountedFor
  <2>2. q # r
    BY <1>2, <2>1
  <2>3. Blacklisting(q, t)'
    BY <2>1, <2>2 DEF OnlyMoves, Blacklisting
  <2>4. QED
    BY <2>3
<1>3. QED
  BY <1>1, <1>2

\* The initial state satisfies the invariant.
LEMMA RefusalInit == Init => RefusalInv
BY DEF Init, RefusalInv, Fits, RowFits, KeysAreAccountedFor, NewRequest, AbsentRow, Issued, Revoked

\* A step of one request that leaves the rows and the keys alone keeps the invariant.
LEMMA QuietStep ==
  ASSUME TypeInv, TypeInv', RefusalInv, RowsLast, NEW r \in Requests, OnlyMoves(r), Fits(r)',
         UNCHANGED <<env, store, dead, redisLost>>, orphaned \subseteq orphaned',
         \A t \in Tokens : Blacklisting(r, t) => Blacklisting(r, t)' \/ t \in orphaned'
  PROVE  RefusalInv'
<1>1. \A q \in Requests : Fits(q)'
  BY FitsStays DEF RefusalInv, OnlyMoves
<1>2. \A t \in Tokens : RowFits(t)'
  BY RowStays DEF RefusalInv, RowFits, store
<1>3. KeysAreAccountedFor'
  BY KeysStay DEF RefusalInv, store
<1>4. QED
  BY <1>1, <1>2, <1>3 DEF RefusalInv

\* Every step keeps it.
LEMMA RefusalNext == TypeInv /\ TypeInv' /\ RefusalInv /\ [Next]_vars => RefusalInv'
<1> SUFFICES ASSUME TypeInv, TypeInv', RefusalInv, [Next]_vars PROVE RefusalInv'
  OBVIOUS
<1>0. /\ RowsLast /\ TypeOK
      /\ \A r \in Requests : Fits(r)
      /\ \A t \in Tokens : RowFits(t)
      /\ KeysAreAccountedFor
      /\ now \in Nat /\ Lifetime \in Nat
  BY StepKeepsRows, LifetimeType, BoundsType DEF RefusalInv, TypeInv, TypeOK
<1>1. ASSUME UNCHANGED <<token, req, dead, orphaned>>,
             \A t \in Tokens : blacklist'[t] \in {0, blacklist[t]}
      PROVE  RefusalInv'
  <2>1. \A q \in Requests : Fits(q)'
    BY <1>0, <1>1, FitsStays
  <2>2. \A t \in Tokens : RowFits(t)'
    BY <1>0, <1>1, RowStays DEF RowFits
  <2>3. KeysAreAccountedFor'
    BY <1>0, <1>1 DEF KeysAreAccountedFor, Blacklisting
  <2>4. QED
    BY <2>1, <2>2, <2>3 DEF RefusalInv
<1>2. CASE Tick
  BY <1>1, <1>2 DEF Tick, store, history
<1>3. CASE RedisLosesKeys
  BY <1>1, <1>3 DEF RedisLosesKeys
<1>4. ASSUME NEW u \in Users, DeactivateUser(u) PROVE RefusalInv'
  BY <1>1, <1>4 DEF DeactivateUser, store, history
<1>5. ASSUME NEW u \in Users, NEW t \in Tokens, Login(u, t) PROVE RefusalInv'
  <2>1. /\ ~Issued(t)
        /\ token' = [token EXCEPT ![t] = NewRow(u, NewExpiry, None)]
        /\ UNCHANGED <<env, blacklist, req, history>>
    BY <1>5 DEF Login, Fresh
  <2>2. /\ token'[t].status = "valid" /\ token'[t].expires = now + Lifetime
        /\ token'[t].from = None
        /\ \A m \in Tokens \ {t} : token'[m] = token[m]
    BY <1>0, <2>1 DEF NewRow, NewExpiry, TypeOK
  <2>3. \A q \in Requests : Fits(q)'
    BY <1>0, <2>1, FitsStays
  <2>4. blacklist[t] = 0 /\ t \notin dead
    BY <1>0, <2>1 DEF RowFits
  <2>5. RowFits(t)'
    BY <1>0, <2>1, <2>2, <2>4 DEF RowFits, Issued, Revoked, env, history
  <2>6. \A m \in Tokens \ {t} : RowFits(m)'
    BY <1>0, <2>1, <2>2, RowStays DEF RowFits, history
  <2>7. KeysAreAccountedFor'
    BY <1>0, <2>1, <2>2, <2>4 DEF KeysAreAccountedFor, Blacklisting, history
  <2>8. QED
    BY <2>3, <2>5, <2>6, <2>7 DEF RefusalInv
<1>6. ASSUME NEW r \in Requests, NEW t \in Tokens, NEW kind \in {"refresh", "logout", "api"},
             Begin(r, t, kind)
      PROVE  RefusalInv'
  <2>1. UNCHANGED <<env, store, history>> /\ Issued(t) /\ req[r].pc = "ready"
    BY <1>6 DEF Begin
  <2>2. /\ OnlyMoves(r)
        /\ \/ Deny(r)
           \/ /\ ~JwtExpired(t, kind)
              /\ req'[r].pc = "begun" /\ req'[r].kind = kind /\ req'[r].t = t
              /\ req'[r].late = Late(t, kind)
              /\ req'[r].ousted = (token[t].user \notin active)
    BY <1>0, <1>6, BeginType
  <2>3. Fits(r)'
    <3>1. CASE Deny(r)
      BY <1>0, <3>1, DenyType DEF Fits
    <3>2. CASE ~Deny(r)
      <4>1. kind = "refresh" /\ Late(t, kind) => Revoked(t)
        BY <1>0 DEF Late, RowFits
      <4>2. QED
        BY <2>1, <2>2, <3>2, <4>1 DEF Fits, Revoked, ActiveUser, env, store
    <3>3. QED
      BY <3>1, <3>2
  <2>4. QED
    BY <1>0, <2>1, <2>2, <2>3, QuietStep DEF history, Blacklisting
<1>7. ASSUME NEW r \in Requests, Authorize(r) PROVE RefusalInv'
  <2>1. UNCHANGED <<env, store, history>> /\ req[r].kind = "api" /\ req[r].pc = "begun"
    BY <1>7 DEF Authorize
  <2>2. OnlyMoves(r) /\ Fits(r)'
    <3>1. CASE Deny(r)
      BY <1>0, <3>1, DenyType DEF Fits
    <3>2. CASE ~Deny(r)
      <4>1. Done(r) /\ ActiveUser(req[r].t)
        BY <1>7, <3>2 DEF Authorize
      <4>2. ~req[r].ousted
        BY <1>0, <2>1, <4>1 DEF Fits
      <4>3. QED
        BY <1>0, <2>1, <4>1, <4>2, DoneType DEF Fits
    <3>3. QED
      BY <3>1, <3>2, <1>0, DenyType
  <2>3. QED
    BY <1>0, <2>1, <2>2, QuietStep DEF history, Blacklisting
<1>8. ASSUME NEW r \in Requests, RefreshCheckBlacklist(r) PROVE RefusalInv'
  <2>1. UNCHANGED <<env, store, history>> /\ req[r].kind = "refresh" /\ req[r].pc = "begun"
    BY <1>8 DEF RefreshCheckBlacklist
  <2>2. OnlyMoves(r) /\ Fits(r)'
    <3>1. CASE Deny(r)
      BY <1>0, <3>1, DenyType DEF Fits
    <3>2. CASE Advance(r, "loaded")
      BY <1>0, <2>1, <3>2, AdvanceType DEF Fits, Revoked, ActiveUser, env, store
    <3>3. QED
      BY <1>8, <3>1, <3>2 DEF RefreshCheckBlacklist
  <2>3. QED
    BY <1>0, <2>1, <2>2, QuietStep DEF history, Blacklisting
<1>9. ASSUME NEW r \in Requests, RefreshCheckRow(r) PROVE RefusalInv'
  <2>1. UNCHANGED <<env, store, history>> /\ req[r].kind = "refresh" /\ req[r].pc = "loaded"
    BY <1>9 DEF RefreshCheckRow
  <2>2. OnlyMoves(r) /\ Fits(r)'
    <3>1. CASE Deny(r)
      BY <1>0, <3>1, DenyType DEF Fits
    <3>2. CASE ~Deny(r)
      <4>1. /\ ~Revoked(req[r].t)
            /\ req' = [req EXCEPT ![r] = [@ EXCEPT !.pc = "checked", !.updates = TRUE]]
        BY <1>9, <3>2 DEF RefreshCheckRow
      <4>2. ~req[r].late
        BY <1>0, <2>1, <4>1 DEF Fits
      <4>3. /\ OnlyMoves(r)
            /\ req'[r].pc = "checked" /\ req'[r].kind = "refresh" /\ req'[r].t = req[r].t
            /\ req'[r].late = req[r].late /\ req'[r].ousted = req[r].ousted
        <5>1. TRUE \in BOOLEAN
          OBVIOUS
        <5>2. QED
          BY <1>0, <2>1, <4>1, <5>1, CheckedType
      <4>4. QED
        BY <1>0, <2>1, <4>2, <4>3 DEF Fits, ActiveUser, env, store
    <3>3. QED
      BY <3>1, <3>2, <1>0, DenyType
  <2>3. QED
    BY <1>0, <2>1, <2>2, QuietStep DEF history, Blacklisting
<1>10. ASSUME NEW r \in Requests, LogoutLoad(r) PROVE RefusalInv'
  <2>1. UNCHANGED <<env, store, history>> /\ req[r].kind = "logout" /\ req[r].pc = "begun"
    BY <1>10 DEF LogoutLoad
  <2>2. /\ Updates(req[r].t) \in BOOLEAN
        /\ ~Updates(req[r].t) => Revoked(req[r].t)
    BY <1>0, <2>1 DEF Updates, Revoked, TypeInv, TypeOK, Row, HoldsItsToken, InFlight, Issued
  <2>3. OnlyMoves(r) /\ Fits(r)'
    BY <1>0, <1>10, <2>1, <2>2, CheckedType DEF LogoutLoad, Fits, Revoked, store
  <2>4. QED
    BY <1>0, <2>1, <2>3, QuietStep DEF history, Blacklisting
<1>11. ASSUME NEW r \in Requests, LogoutBlacklist(r) \/ \E n \in Tokens : RefreshBlacklist(r, n)
       PROVE  RefusalInv'
  <2> DEFINE t == req[r].t
  <2>1. /\ UNCHANGED <<env, token, history>> /\ t \in Tokens /\ Issued(t)
        /\ \/ req[r].kind = "refresh" /\ req[r].pc = "admitted"
           \/ req[r].kind = "logout" /\ req[r].pc = "checked"
        /\ blacklist' = [blacklist EXCEPT ![t] = now + Lifetime]
    BY <1>11 DEF RefreshBlacklist, LogoutBlacklist, TypeInv, HoldsItsToken, InFlight, TTL
  <2>2. /\ OnlyMoves(r)
        /\ req'[r].pc = "blacklisted" /\ req'[r].kind = req[r].kind /\ req'[r].t = t
        /\ req'[r].updates = req[r].updates
        /\ req'[r].late = req[r].late /\ req'[r].ousted = req[r].ousted
        /\ req[r].kind = "refresh" => req'[r].expires = now + Lifetime
    <3>1. CASE LogoutBlacklist(r)
      BY <1>0, <3>1, AdvanceType DEF LogoutBlacklist
    <3>2. ASSUME NEW n \in Tokens, RefreshBlacklist(r, n)
          PROVE  /\ OnlyMoves(r)
                 /\ req'[r].pc = "blacklisted" /\ req'[r].kind = req[r].kind /\ req'[r].t = t
                 /\ req'[r].updates = req[r].updates
                 /\ req'[r].late = req[r].late /\ req'[r].ousted = req[r].ousted
                 /\ req'[r].expires = now + Lifetime
      BY <1>0, <3>2, RotateType DEF RefreshBlacklist
    <3>3. QED
      BY <1>11, <3>1, <3>2
  <2>3. blacklist'[t] = now + Lifetime /\ \A m \in Tokens \ {t} : blacklist'[m] = blacklist[m]
    BY <1>0, <2>1 DEF TypeOK
  <2>4. Fits(r)'
    <3>1. token[t].expires <= now + Lifetime
      BY <1>0, <2>1 DEF RowFits
    <3>2. ~(req[r].kind = "refresh" /\ (req[r].late \/ req[r].ousted))
      BY <1>0, <2>1 DEF Fits
    <3>3. req[r].kind = "logout" => req[r].updates \/ Revoked(t)
      BY <1>0, <2>1 DEF Fits
    <3>4. now + Lifetime <= now' + Lifetime
      BY <1>0, <2>1 DEF env
    <3>5. QED
      BY <2>1, <2>2, <2>3, <3>1, <3>2, <3>3, <3>4 DEF Fits, Revoked
  <2>5. \A q \in Requests : Fits(q)'
    BY <1>0, <2>2, <2>4, FitsStays DEF OnlyMoves
  <2>6. \A m \in Tokens : RowFits(m)'
    BY <1>0, <2>1, <2>3, RowStays DEF RowFits, history
  <2>7. KeysAreAccountedFor'
    <3>1. \A m \in Tokens : blacklist'[m] # 0 => blacklist[m] # 0 \/ Blacklisting(r, m)'
      BY <2>2, <2>3 DEF Blacklisting
    <3>2. \A m \in Tokens : ~Blacklisting(r, m)
      BY <2>1 DEF Blacklisting
    <3>3. QED
      BY <1>0, <2>1, <2>2, <3>1, <3>2, KeysStay DEF history
  <2>8. QED
    BY <2>5, <2>6, <2>7 DEF RefusalInv
<1>12. ASSUME NEW r \in Requests, RefreshCheckUser(r) \/ RefreshFlush(r) PROVE RefusalInv'
  <2>1. UNCHANGED <<env, store, history>> /\ req[r].kind = "refresh"
    BY <1>12 DEF RefreshCheckUser, RefreshFlush
  <2>2. CASE Deny(r) /\ req[r].pc = "checked"
    <3>1. OnlyMoves(r) /\ Fits(r)'
      BY <1>0, <2>2, DenyType DEF Fits
    <3>2. QED
      BY <1>0, <2>1, <2>2, <3>1, QuietStep DEF history, Blacklisting
  <2>3. CASE RefreshCheckUser(r) /\ ~Deny(r)
    <3>1. ActiveUser(req[r].t) /\ req[r].pc = "checked" /\ Advance(r, "admitted")
      BY <2>3 DEF RefreshCheckUser
    <3>2. ~req[r].late /\ ~req[r].ousted
      BY <1>0, <2>1, <3>1 DEF Fits
    <3>3. OnlyMoves(r) /\ Fits(r)'
      BY <1>0, <2>1, <3>1, <3>2, AdvanceType DEF Fits
    <3>4. QED
      BY <1>0, <2>1, <3>1, <3>3, QuietStep DEF history, Blacklisting
  <2>4. CASE RefreshFlush(r)
    <3>1. req[r].pc = "blacklisted" /\ Advance(r, "flushed")
      BY <2>4 DEF RefreshFlush
    <3>2. /\ OnlyMoves(r) /\ req'[r].pc = "flushed" /\ req'[r].kind = "refresh"
          /\ req'[r].t = req[r].t /\ req'[r].expires = req[r].expires
          /\ req'[r].late = req[r].late /\ req'[r].ousted = req[r].ousted
      BY <1>0, <2>1, <3>1, AdvanceType
    <3>3. Fits(r)'
      BY <1>0, <2>1, <3>1, <3>2 DEF Fits, env, store, history
    <3>4. QED
      BY <1>0, <2>1, <3>1, <3>2, <3>3, QuietStep DEF history, Blacklisting
  <2>5. QED
    BY <1>12, <2>2, <2>3, <2>4 DEF RefreshCheckUser
<1>13. ASSUME NEW r \in Requests, LogoutFlush(r) PROVE RefusalInv'
  <2>1. UNCHANGED <<env, store, history>> /\ req[r].kind = "logout" /\ req[r].pc = "blacklisted"
    BY <1>13 DEF LogoutFlush
  <2>2. OnlyMoves(r) /\ Fits(r)' /\ req'[r].pc = "flushed" /\ req'[r].t = req[r].t
    BY <1>0, <1>13, <2>1, AdvanceType DEF LogoutFlush, Fits, Revoked, store, history
  <2>3. QED
    BY <1>0, <2>1, <2>2, QuietStep DEF history, Blacklisting
<1>14. ASSUME NEW r \in Requests, Fail(r) PROVE RefusalInv'
  <2>1. /\ UNCHANGED <<env, store, dead, redisLost>>
        /\ orphaned \subseteq orphaned'
        /\ \A t \in Tokens : Blacklisting(r, t) => t \in orphaned'
    BY <1>14 DEF Fail, Blacklisting
  <2>2. OnlyMoves(r) /\ Fits(r)'
    BY <1>0, <1>14, FailType DEF Fits
  <2>3. QED
    BY <1>0, <2>1, <2>2, QuietStep
<1>15. ASSUME NEW r \in Requests, RefreshCommit(r) PROVE RefusalInv'
  <2>1. PICK t \in Tokens, n \in Tokens, e \in Nat :
        /\ t = req[r].t /\ n = req[r].new /\ e = req[r].expires
        /\ t # n /\ Issued(t) /\ ~Issued(n)
        /\ token'[t] = RevokedRow(t)
        /\ token'[n] = NewRow(token[t].user, e, t)
        /\ \A m \in Tokens \ {t, n} : token'[m] = token[m]
    BY <1>0, <1>15, RefreshRows DEF TypeOK, ReqType
  <2>2. /\ Done(r) /\ dead' = dead \cup {t}
        /\ UNCHANGED <<env, blacklist, signedOut, orphaned, redisLost, faults>>
        /\ req[r].kind = "refresh" /\ req[r].pc = "flushed"
    BY <1>15, <2>1 DEF RefreshCommit
  <2>3. /\ OnlyMoves(r) /\ req'[r].pc = "done" /\ req'[r].kind = "refresh"
        /\ req'[r].late = req[r].late /\ req'[r].ousted = req[r].ousted
    BY <1>0, <2>2, DoneType
  <2>4. /\ ~req[r].late /\ ~req[r].ousted
        /\ token[t].expires <= e /\ e <= now + Lifetime
        /\ ~redisLost => token[t].expires <= blacklist[t]
    BY <1>0, <2>1, <2>2 DEF Fits
  <2>5. \A q \in Requests : Fits(q)'
    <3>1. Fits(r)'
      BY <2>3, <2>4 DEF Fits
    <3>2. QED
      BY <1>0, <2>3, <3>1, FitsStays DEF OnlyMoves
  <2>6. Blacklisting(r, t) /\ \A m \in Tokens : Blacklisting(r, m) => m = t
    BY <2>1, <2>2 DEF Blacklisting
  <2>7. token[t].expires \in Nat /\ token[t].user \in Users
    BY <1>0, <2>1 DEF TypeInv, TypeOK, Row, RowsAreOwned
  <2>8. /\ token'[t].status = "revoked" /\ token'[t].user = token[t].user
        /\ token'[t].expires = token[t].expires /\ token'[t].from = token[t].from
        /\ token'[n].status = "valid" /\ token'[n].user = token[t].user
        /\ token'[n].expires = e /\ token'[n].from = t
    BY <1>0, <2>1, RevokedType DEF NewRow
  <2>9. \A m \in Tokens \ {t} : m \in dead' => m \in dead
    BY <2>2
  <2>10. blacklist[n] = 0 /\ n \notin dead /\ RowFits(t)
    BY <1>0, <2>1 DEF RowFits
  <2>11. \A m \in Tokens \ {t, n} : RowFits(m)'
    BY <1>0, <2>1, <2>2, <2>9, RowStays DEF RowFits
  <2>12. RowFits(t)'
    <3>1. token[t].expires <= now + Lifetime
      BY <2>1, <2>10 DEF RowFits
    <3>3. token[t].from # None => token[t].from \in Tokens /\ token[token[t].from].status = "revoked"
      BY <1>0, <2>1, <2>10 DEF RowFits, TypeOK, Row
    <3>4. ASSUME token[t].from # None
          PROVE  /\ token'[token[t].from].status = "revoked"
                 /\ token'[token[t].from].user = token[t].user
                 /\ token'[token[t].from].expires <= token[t].expires
      BY <1>0, <2>10, <3>3, <3>4 DEF RowFits, RowsLast, Issued
    <3>5. QED
      <4>1. /\ (Issued(t) => token[t].expires <= now + Lifetime)'
            /\ (~Issued(t) => blacklist[t] = 0 /\ t \notin dead /\ token[t].from = None)'
        BY <2>2, <2>8, <3>1 DEF Issued, env
      <4>2. /\ (t \in dead => Revoked(t))'
            /\ (Revoked(t) /\ ~redisLost => token[t].expires <= blacklist[t])'
        BY <2>2, <2>4, <2>8 DEF Revoked
      <4>3. QED
        BY <2>8, <3>4, <4>1, <4>2 DEF RowFits
  <2>13. RowFits(n)'
    <3>1. /\ token'[token'[n].from].status = "revoked"
          /\ token'[token'[n].from].user = token'[n].user
          /\ token'[token'[n].from].expires <= token'[n].expires
      BY <2>4, <2>7, <2>8
    <3>2. token'[n].expires <= now + Lifetime /\ n \notin dead'
      BY <2>1, <2>4, <2>8, <2>9, <2>10
    <3>3. QED
      <4>1. /\ (Issued(n) => token[n].expires <= now + Lifetime)'
            /\ (~Issued(n) => blacklist[n] = 0 /\ n \notin dead /\ token[n].from = None)'
        BY <2>2, <2>8, <3>2 DEF Issued, env
      <4>2. /\ (n \in dead => Revoked(n))'
            /\ (Revoked(n) /\ ~redisLost => token[n].expires <= blacklist[n])'
        BY <2>8, <3>2 DEF Revoked
      <4>3. QED
        BY <3>1, <4>1, <4>2 DEF RowFits
  <2>14. KeysAreAccountedFor'
    <3>1. \A m \in Tokens : token'[m].status = "valid" =>
            token[m].status = "valid" \/ blacklist'[m] = 0
      BY <2>1, <2>2, <2>8, <2>10
    <3>2. QED
      BY <1>0, <2>2, <2>3, <2>6, <2>8, <3>1, KeysStay
  <2>15. QED
    BY <2>5, <2>11, <2>12, <2>13, <2>14 DEF RefusalInv
<1>16. ASSUME NEW r \in Requests, LogoutCommit(r) PROVE RefusalInv'
  <2>1. PICK t \in Tokens :
        /\ t = req[r].t /\ Issued(t)
        /\ token'[t] = IF req[r].updates THEN RevokedRow(t) ELSE token[t]
        /\ \A m \in Tokens \ {t} : token'[m] = token[m]
    BY <1>16, LogoutRows
  <2>2. /\ Done(r) /\ dead' = dead \cup {t}
        /\ UNCHANGED <<env, blacklist, orphaned, redisLost, faults>>
        /\ req[r].kind = "logout" /\ req[r].pc = "flushed"
    BY <1>16, <2>1 DEF LogoutCommit
  <2>3. OnlyMoves(r) /\ req'[r].pc = "done" /\ req'[r].kind = "logout"
    BY <1>0, <2>2, DoneType
  <2>4. /\ req[r].updates \/ Revoked(t)
        /\ ~redisLost => token[t].expires <= blacklist[t]
    BY <1>0, <2>1, <2>2 DEF Fits
  <2>5. \A q \in Requests : Fits(q)'
    <3>1. Fits(r)'
      BY <2>3 DEF Fits
    <3>2. QED
      BY <1>0, <2>3, <3>1, FitsStays DEF OnlyMoves
  <2>6. Blacklisting(r, t) /\ \A m \in Tokens : Blacklisting(r, m) => m = t
    BY <2>1, <2>2 DEF Blacklisting
  <2>7. /\ token'[t].status = "revoked" /\ token'[t].user = token[t].user
        /\ token'[t].expires = token[t].expires /\ token'[t].from = token[t].from
    BY <1>0, <2>1, <2>4, RevokedType DEF Revoked
  <2>8. \A m \in Tokens \ {t} : m \in dead' => m \in dead
    BY <2>2
  <2>9. \A m \in Tokens \ {t} : RowFits(m)'
    BY <1>0, <2>1, <2>2, <2>8, RowStays DEF RowFits
  <2>10. RowFits(t)'
    <3>1. token[t].expires <= now + Lifetime
      BY <1>0, <2>1 DEF RowFits
    <3>3. token[t].from # None => token[t].from \in Tokens /\ token[token[t].from].status = "revoked"
      BY <1>0, <2>1 DEF RowFits, TypeOK, Row
    <3>4. ASSUME token[t].from # None
          PROVE  /\ token'[token[t].from].status = "revoked"
                 /\ token'[token[t].from].user = token[t].user
                 /\ token'[token[t].from].expires <= token[t].expires
      BY <1>0, <2>1, <3>3, <3>4 DEF RowFits, RowsLast, Issued
    <3>5. QED
      <4>1. /\ (Issued(t) => token[t].expires <= now + Lifetime)'
            /\ (~Issued(t) => blacklist[t] = 0 /\ t \notin dead /\ token[t].from = None)'
        BY <2>2, <2>7, <3>1 DEF Issued, env
      <4>2. /\ (t \in dead => Revoked(t))'
            /\ (Revoked(t) /\ ~redisLost => token[t].expires <= blacklist[t])'
        BY <2>2, <2>4, <2>7 DEF Revoked
      <4>3. QED
        BY <2>7, <3>4, <4>1, <4>2 DEF RowFits
  <2>11. KeysAreAccountedFor'
    <3>1. \A m \in Tokens : token'[m].status = "valid" => token[m].status = "valid"
      BY <2>1, <2>7
    <3>2. QED
      BY <1>0, <2>2, <2>3, <2>6, <2>7, <3>1, KeysStay
  <2>12. QED
    BY <2>5, <2>9, <2>10, <2>11 DEF RefusalInv
<1>17. CASE UNCHANGED vars
  BY <1>1, <1>17 DEF vars, store, history
<1>18. QED
  BY <1>2, <1>3, <1>4, <1>5, <1>6, <1>7, <1>8, <1>9, <1>10, <1>11, <1>12, <1>13, <1>14, <1>15,
     <1>16, <1>17 DEF Next, Step

\* So it holds of every reachable state.
LEMMA RefusalHolds == Spec => []RefusalInv
BY TypeInit, TypeNext, RefusalInit, RefusalNext, PTL DEF Spec

-----------------------------------------------------------------------------
(* The theorems.                                                            *)

\* A refresh that begins after its token was rotated or logged out is refused by the
\* row alone, whatever becomes of the Redis key (refresh_tokens and logout_user).
THEOREM RevokedTokenIsRefusedHolds == Spec => []RevokedTokenIsRefused
<1>1. RefusalInv => RevokedTokenIsRefused
  BY DEF RefusalInv, Fits, RevokedTokenIsRefused
<1>2. QED
  BY <1>1, RefusalHolds, PTL

\* No refresh and no call that begins after the user's deactivation succeeds.
THEOREM DeactivatedUserIsOutHolds == Spec => []DeactivatedUserIsOut
<1>1. RefusalInv => DeactivatedUserIsOut
  BY DEF RefusalInv, Fits, DeactivatedUserIsOut
<1>2. QED
  BY <1>1, RefusalHolds, PTL

\* A rotation revokes what it replaces, for the same user and no shorter a time.
THEOREM PredecessorIsRevokedHolds == Spec => []PredecessorIsRevoked
<1>1. RefusalInv => PredecessorIsRevoked
  BY DEF RefusalInv, RowFits, PredecessorIsRevoked
<1>2. QED
  BY <1>1, RefusalHolds, PTL

\* The key of a revoked token lasts as long as the token, while Redis keeps it.
THEOREM BlacklistCoversRevokedHolds == Spec => []BlacklistCoversRevoked
<1>1. TypeInv /\ RefusalInv => BlacklistCoversRevoked
  <2> SUFFICES ASSUME TypeInv, RefusalInv, NEW t \in Tokens,
                      token[t].status = "revoked", ~Expired(t), ~redisLost
               PROVE  Blacklisted(t)
    BY DEF BlacklistCoversRevoked
  <2>1. now \in Nat /\ token[t].expires \in Nat /\ blacklist[t] \in Nat
    BY BoundsType DEF TypeInv, TypeOK, Row
  <2>2. token[t].expires <= blacklist[t]
    BY DEF RefusalInv, RowFits, Revoked
  <2>3. QED
    BY <2>1, <2>2 DEF Expired, Blacklisted
<1>2. QED
  BY <1>1, TypeInit, TypeNext, RefusalHolds, PTL DEF Spec

\* A key without a revoked row is the mark of a request in flight or of a failed one.
THEOREM OnlyFailuresOrphanHolds == Spec => []OnlyFailuresOrphan
<1>1. TypeInv /\ RefusalInv => OnlyFailuresOrphan
  <2> SUFFICES ASSUME TypeInv, RefusalInv, NEW t \in Tokens,
                      token[t].status = "valid", Blacklisted(t)
               PROVE  \/ t \in orphaned
                      \/ \E r \in Requests : req[r].t = t /\ req[r].pc \in {"blacklisted", "flushed"}
    BY DEF OnlyFailuresOrphan
  <2>1. blacklist[t] # 0
    BY BoundsType DEF Blacklisted, TypeInv, TypeOK
  <2>2. QED
    BY <2>1 DEF RefusalInv, KeysAreAccountedFor, Blacklisting
<1>2. QED
  BY <1>1, TypeInit, TypeNext, RefusalHolds, PTL DEF Spec

\* A revocation is final, and so is its place in the histories; no route changes the
\* user, the expiry or the predecessor of a row.
THEOREM RowsLastAlways == Spec => [][RowsLast]_vars
BY TypeInit, TypeNext, StepKeepsRows, PTL DEF Spec

-----------------------------------------------------------------------------
(* No circle of waits.                                                      *)

\* The guards of Step, written out: what a request in flight waits for.
MayStep(r) ==
  \/ req[r].kind = "api" /\ req[r].pc = "begun"
  \/ req[r].kind = "refresh" /\ req[r].pc \in {"begun", "loaded", "checked", "flushed"}
  \/ req[r].kind = "refresh" /\ req[r].pc = "admitted" /\ Fresh # {}
  \/ req[r].kind = "refresh" /\ req[r].pc = "blacklisted" /\ ~Locked(req[r].t)
  \/ req[r].kind = "logout" /\ req[r].pc \in {"begun", "checked", "flushed"}
  \/ /\ req[r].kind = "logout" /\ req[r].pc = "blacklisted"
     /\ req[r].updates => ~Locked(req[r].t)

\* The rotations that will still need a jti.
Rotating == {r \in Requests : InFlight(r) /\ req[r].kind = "refresh" /\ req[r].new = None}

\* Each kind of request is only where its handler takes it.
OnItsWay(r) ==
  /\ req[r].new # None => req[r].pc \in {"blacklisted", "flushed"}
  /\ req[r].pc \in {"loaded", "admitted"} => req[r].kind = "refresh"
  /\ req[r].kind = "api" => req[r].pc \in {"begun", "done"}

JtisSuffice == IsFiniteSet(Rotating) /\ Cardinality(Rotating) <= Cardinality(Fresh)

WaitInv == (\A r \in Requests : OnItsWay(r)) /\ JtisSuffice

\* A step takes only the guards it needs.
LEMMA StepsMayStep == \A r \in Requests : Step(r) => MayStep(r)
BY DEF Step, MayStep, Authorize, RefreshCheckBlacklist, RefreshCheckRow, RefreshCheckUser,
       RefreshBlacklist, RefreshFlush, RefreshCommit, LogoutLoad, LogoutBlacklist, LogoutFlush, LogoutCommit

\* The jtis left are finitely many.
LEMMA FreshFinite ==
  ASSUME IsFiniteSet(Tokens)
  PROVE  IsFiniteSet(Fresh) /\ Cardinality(Fresh) \in Nat
BY FS_Subset, FS_CardinalityType DEF Fresh

\* As long as no jti is taken and no rotation begins, the jtis suffice.
LEMMA NoneTaken ==
  ASSUME IsFiniteSet(Tokens), JtisSuffice, Fresh \subseteq Fresh', Rotating' \subseteq Rotating
  PROVE  JtisSuffice'
<1>1. IsFiniteSet(Fresh') /\ Cardinality(Fresh') \in Nat
  BY FS_Subset, FS_CardinalityType DEF Fresh
<1>2. Cardinality(Fresh) \in Nat /\ Cardinality(Fresh) <= Cardinality(Fresh')
  BY <1>1, FreshFinite, FS_Subset
<1>3. /\ IsFiniteSet(Rotating') /\ Cardinality(Rotating') <= Cardinality(Rotating)
      /\ Cardinality(Rotating') \in Nat /\ Cardinality(Rotating) \in Nat
  BY FS_Subset, FS_CardinalityType DEF JtisSuffice
<1>4. QED
  BY <1>1, <1>2, <1>3 DEF JtisSuffice

\* A request that goes on or ends without a new row takes no jti.
LEMMA Goes ==
  ASSUME IsFiniteSet(Tokens), TypeInv, WaitInv, NEW r \in Requests, OnlyMoves(r), OnItsWay(r)',
         UNCHANGED token, req'[r].new \in {None, req[r].new},
         r \in Rotating' => r \in Rotating
  PROVE  WaitInv'
<1>1. \A q \in Requests : OnItsWay(q)'
  BY DEF WaitInv, OnItsWay, OnlyMoves
<1>2. Fresh \subseteq Fresh'
  BY NoneIsFresh DEF Fresh, Issued, OnlyMoves
<1>3. Rotating' \subseteq Rotating
  BY DEF Rotating, InFlight, OnlyMoves
<1>4. QED
  BY <1>1, <1>2, <1>3, NoneTaken DEF WaitInv

\* So does one that changes rows of tokens already issued, and its own new one.
LEMMA Ends ==
  ASSUME IsFiniteSet(Tokens), TypeInv, WaitInv, NEW r \in Requests, OnlyMoves(r), OnItsWay(r)',
         \A t \in Tokens : t # req[r].new /\ ~Issued(t) => ~Issued(t)',
         req'[r].new = None, req'[r].pc = "done"
  PROVE  WaitInv'
<1>1. \A q \in Requests : OnItsWay(q)'
  BY DEF WaitInv, OnItsWay, OnlyMoves
<1>2. Fresh \subseteq Fresh'
  BY NoneIsFresh DEF Fresh, OnlyMoves
<1>3. Rotating' \subseteq Rotating
  BY DEF Rotating, InFlight, OnlyMoves
<1>4. QED
  BY <1>1, <1>2, <1>3, NoneTaken DEF WaitInv

\* Nothing is in flight at first.
LEMMA WaitInit == IsFiniteSet(Tokens) /\ Init => WaitInv
<1> SUFFICES ASSUME IsFiniteSet(Tokens), Init PROVE WaitInv
  OBVIOUS
<1>1. Rotating = {}
  BY DEF Init, Rotating, InFlight, NewRequest
<1>2. IsFiniteSet(Rotating) /\ Cardinality(Rotating) = 0
  BY <1>1, FS_EmptySet
<1>3. \A r \in Requests : OnItsWay(r)
  BY DEF Init, OnItsWay, NewRequest
<1>4. QED
  BY <1>2, <1>3, FreshFinite DEF WaitInv, JtisSuffice

\* Every step keeps it: Login and a refresh begin only while a jti is left over.
LEMMA WaitNext ==
  ASSUME IsFiniteSet(Tokens), TypeInv, TypeInv', WaitInv, [Next]_vars
  PROVE  WaitInv'
<1>0. /\ TypeOK /\ HoldsItsToken /\ Cardinality(Fresh) \in Nat /\ Cardinality(Rotating) \in Nat
      /\ \A r \in Requests : OnItsWay(r)
  BY FreshFinite, FS_CardinalityType DEF TypeInv, WaitInv, JtisSuffice
<1>1. ASSUME UNCHANGED <<token, req>> PROVE WaitInv'
  BY <1>1 DEF WaitInv, OnItsWay, JtisSuffice, Rotating, InFlight, Fresh, Issued
<1>2. CASE Tick \/ RedisLosesKeys \/ UNCHANGED vars
  BY <1>1, <1>2 DEF Tick, RedisLosesKeys, vars, store
<1>3. ASSUME NEW u \in Users, DeactivateUser(u) PROVE WaitInv'
  BY <1>1, <1>3 DEF DeactivateUser, store
<1>4. ASSUME NEW u \in Users, NEW t \in Tokens, Login(u, t) PROVE WaitInv'
  <2>1. /\ t \in Fresh /\ JtiLeft /\ UNCHANGED req
        /\ token' = [token EXCEPT ![t] = NewRow(u, NewExpiry, None)]
    BY <1>4 DEF Login
  <2>2. Fresh' = Fresh \ {t}
    BY <1>0, <2>1 DEF Fresh, Issued, TypeOK, NewRow
  <2>3. Rotating' = Rotating
    BY <2>1 DEF Rotating, InFlight
  <2>4. Cardinality(Fresh') = Cardinality(Fresh) - 1
    BY <2>1, <2>2, FreshFinite, FS_RemoveElement
  <2>5. Cardinality(Rotating) < Cardinality(Fresh)
    BY <1>0, <2>1 DEF JtiLeft, Rotating
  <2>6. JtisSuffice'
    BY <1>0, <2>3, <2>4, <2>5 DEF JtisSuffice, WaitInv
  <2>7. QED
    BY <1>0, <2>1, <2>6 DEF WaitInv, OnItsWay
<1>5. ASSUME NEW r \in Requests, NEW t \in Tokens, NEW kind \in {"refresh", "logout", "api"},
             Begin(r, t, kind)
      PROVE  WaitInv'
  <2>1. OnlyMoves(r) /\ req'[r].new = None /\ UNCHANGED token /\ (kind = "refresh" => JtiLeft)
    BY <1>0, <1>5, BeginType DEF Begin, store
  <2>2. CASE Deny(r)
    <3>1. req'[r].pc = "denied" /\ req'[r].kind = "none"
      BY <1>0, <2>2, DenyType
    <3>2. QED
      BY <2>1, <3>1, Goes DEF OnItsWay, Rotating
  <2>3. CASE ~Deny(r)
    <3>1. req'[r].pc = "begun" /\ req'[r].kind = kind
      BY <1>0, <1>5, <2>3, BeginType
    <3>2. OnItsWay(r)'
      BY <2>1, <3>1 DEF OnItsWay
    <3>3. CASE kind # "refresh"
      BY <2>1, <3>1, <3>2, <3>3, Goes DEF Rotating
    <3>4. CASE kind = "refresh"
      <4>1. Fresh \subseteq Fresh'
        BY <2>1, NoneIsFresh DEF Fresh, Issued, OnlyMoves
      <4>2. Rotating' \subseteq Rotating \cup {r}
        BY <2>1 DEF Rotating, InFlight, OnlyMoves
      <4>3. Cardinality(Rotating) < Cardinality(Fresh)
        BY <1>0, <2>1, <3>4 DEF JtiLeft, Rotating
      <4>4. /\ IsFiniteSet(Rotating \cup {r})
            /\ Cardinality(Rotating \cup {r}) \in Nat
            /\ Cardinality(Rotating \cup {r}) <= Cardinality(Rotating) + 1
        <5>1. IsFiniteSet(Rotating)
          BY DEF WaitInv, JtisSuffice
        <5>2. /\ IsFiniteSet(Rotating \cup {r})
              /\ Cardinality(Rotating \cup {r}) =
                   IF r \in Rotating THEN Cardinality(Rotating) ELSE Cardinality(Rotating) + 1
          BY <5>1, FS_AddElement, Zenon
        <5>3. QED
          BY <1>0, <5>2
      <4>5. /\ IsFiniteSet(Rotating') /\ Cardinality(Rotating') \in Nat
            /\ Cardinality(Rotating') <= Cardinality(Rotating \cup {r})
        BY <4>2, <4>4, FS_Subset, FS_CardinalityType
      <4>6. IsFiniteSet(Fresh') /\ Cardinality(Fresh') \in Nat
        BY FS_Subset, FS_CardinalityType DEF Fresh
      <4>7. Cardinality(Fresh) <= Cardinality(Fresh')
        BY <4>1, <4>6, FS_Subset
      <4>8. JtisSuffice'
        BY <1>0, <4>3, <4>4, <4>5, <4>6, <4>7 DEF JtisSuffice
      <4>9. \A q \in Requests : OnItsWay(q)'
        BY <1>0, <2>1, <3>2 DEF OnItsWay, OnlyMoves
      <4>10. QED
        BY <4>8, <4>9 DEF WaitInv
    <3>5. QED
      BY <3>3, <3>4
  <2>4. QED
    BY <2>2, <2>3
<1>6. ASSUME NEW r \in Requests, Deny(r), UNCHANGED token PROVE WaitInv'
  BY <1>0, <1>6, DenyType, Goes DEF OnItsWay, Rotating
<1>7. ASSUME NEW r \in Requests, NEW pc \in {"loaded", "admitted", "blacklisted", "flushed"},
             Advance(r, pc), UNCHANGED token, InFlight(r),
             req[r].new = None \/ pc = "flushed",
             \/ req[r].kind = "refresh"
             \/ req[r].kind = "logout" /\ pc \notin {"loaded", "admitted"}
      PROVE  WaitInv'
  <2>1. /\ OnlyMoves(r) /\ req'[r].pc = pc
        /\ req'[r].kind = req[r].kind /\ req'[r].new = req[r].new
    BY <1>0, <1>7, AdvanceType
  <2>2. QED
    BY <1>7, <2>1, Goes DEF OnItsWay, Rotating
<1>8. ASSUME NEW r \in Requests, NEW updates \in BOOLEAN, UNCHANGED token, InFlight(r),
             req' = [req EXCEPT ![r] = [@ EXCEPT !.pc = "checked", !.updates = updates]],
             req[r].kind # "api", req[r].new = None
      PROVE  WaitInv'
  <2>1. /\ OnlyMoves(r) /\ req'[r].pc = "checked"
        /\ req'[r].kind = req[r].kind /\ req'[r].new = req[r].new
    BY <1>0, <1>8, CheckedType
  <2>2. QED
    BY <1>8, <2>1, Goes DEF OnItsWay, Rotating
<1>9. ASSUME NEW r \in Requests, Authorize(r) PROVE WaitInv'
  <2>1. UNCHANGED token /\ (Deny(r) \/ Done(r))
    BY <1>9 DEF Authorize, store
  <2>2. CASE Done(r)
    BY <1>0, <2>1, <2>2, DoneType, Ends DEF OnItsWay, Issued
  <2>3. QED
    BY <1>6, <2>1, <2>2
<1>10. ASSUME NEW r \in Requests,
              \/ RefreshCheckBlacklist(r) \/ RefreshCheckUser(r) \/ RefreshFlush(r)
              \/ LogoutBlacklist(r) \/ LogoutFlush(r)
       PROVE  WaitInv'
  <2>1. UNCHANGED token /\ InFlight(r)
    BY <1>0, <1>10 DEF RefreshCheckBlacklist, RefreshCheckUser, RefreshFlush, LogoutBlacklist,
                       LogoutFlush, store, InFlight
  <2>2. CASE RefreshCheckBlacklist(r) \/ RefreshCheckUser(r)
    <3>1. req[r].new = None
      BY <1>0, <2>2 DEF RefreshCheckBlacklist, RefreshCheckUser, OnItsWay
    <3>2. QED
      BY <1>6, <1>7, <2>1, <2>2, <3>1 DEF RefreshCheckBlacklist, RefreshCheckUser
  <2>3. CASE LogoutBlacklist(r)
    <3>1. req[r].new = None
      BY <1>0, <2>3 DEF LogoutBlacklist, OnItsWay
    <3>2. QED
      BY <1>7, <2>1, <2>3, <3>1 DEF LogoutBlacklist
  <2>4. CASE RefreshFlush(r) \/ LogoutFlush(r)
    BY <1>7, <2>1, <2>4 DEF RefreshFlush, LogoutFlush
  <2>5. QED
    BY <1>10, <2>2, <2>3, <2>4
<1>11. ASSUME NEW r \in Requests, RefreshCheckRow(r) \/ LogoutLoad(r) PROVE WaitInv'
  <2>1. UNCHANGED token /\ InFlight(r) /\ req[r].new = None /\ req[r].kind # "api"
    BY <1>0, <1>11 DEF RefreshCheckRow, LogoutLoad, store, InFlight, OnItsWay
  <2>2. QED
    BY <1>6, <1>8, <1>11, <2>1 DEF RefreshCheckRow, LogoutLoad, Updates
<1>12. ASSUME NEW r \in Requests, NEW n \in Tokens, RefreshBlacklist(r, n) PROVE WaitInv'
  <2>1. /\ OnlyMoves(r) /\ req'[r].pc = "blacklisted" /\ req'[r].new = n /\ req'[r].kind = "refresh"
    BY <1>0, <1>12, RotateType
  <2>2. /\ UNCHANGED token /\ n \in Fresh /\ r \in Rotating
    BY <1>0, <1>12 DEF RefreshBlacklist, Rotating, InFlight, OnItsWay
  <2>3. Rotating' = Rotating \ {r}
    BY <2>1, <2>2, NoneIsFresh DEF Rotating, InFlight, OnlyMoves
  <2>4. Fresh' = Fresh \ {n}
    <3>1. req[r].new = None
      BY <2>2 DEF Rotating
    <3>2. QED
      BY <2>1, <2>2, <3>1, NoneIsFresh DEF Fresh, Issued, OnlyMoves
  <2>5. IsFiniteSet(Rotating') /\ Cardinality(Rotating') = Cardinality(Rotating) - 1
    BY <2>2, <2>3, FS_RemoveElement DEF WaitInv, JtisSuffice
  <2>6. Cardinality(Fresh') = Cardinality(Fresh) - 1
    BY <2>2, <2>4, FreshFinite, FS_RemoveElement
  <2>7. JtisSuffice'
    BY <1>0, <2>5, <2>6 DEF JtisSuffice, WaitInv
  <2>8. \A q \in Requests : OnItsWay(q)'
    BY <1>0, <2>1 DEF OnItsWay, OnlyMoves
  <2>9. QED
    BY <2>7, <2>8 DEF WaitInv
<1>13. ASSUME NEW r \in Requests, RefreshCommit(r) PROVE WaitInv'
  <2>1. /\ Issued(req[r].t)
        /\ \A m \in Tokens \ {req[r].t, req[r].new} : token'[m] = token[m]
    BY <1>0, <1>13, RefreshRows DEF HoldsItsToken, RefreshCommit, InFlight
  <2>2. \A m \in Tokens : m # req[r].new /\ ~Issued(m) => ~Issued(m)'
    BY <2>1 DEF Issued
  <2>3. Done(r) /\ req[r].kind = "refresh"
    BY <1>13 DEF RefreshCommit
  <2>4. QED
    BY <1>0, <2>2, <2>3, DoneType, Ends DEF OnItsWay
<1>14. ASSUME NEW r \in Requests, LogoutCommit(r) PROVE WaitInv'
  <2>1. /\ Issued(req[r].t)
        /\ \A m \in Tokens \ {req[r].t} : token'[m] = token[m]
    BY <1>0, <1>14, LogoutRows DEF HoldsItsToken, LogoutCommit, InFlight
  <2>2. \A m \in Tokens : m # req[r].new /\ ~Issued(m) => ~Issued(m)'
    BY <2>1 DEF Issued
  <2>3. Done(r) /\ req[r].kind = "logout"
    BY <1>14 DEF LogoutCommit
  <2>4. QED
    BY <1>0, <2>2, <2>3, DoneType, Ends DEF OnItsWay
<1>15. ASSUME NEW r \in Requests, Fail(r) PROVE WaitInv'
  BY <1>0, <1>15, FailType, Goes DEF OnItsWay, Rotating, InFlight, Fail, store
<1>16. QED
  BY <1>2, <1>3, <1>4, <1>5, <1>9, <1>10, <1>11, <1>12, <1>13, <1>14, <1>15 DEF Next, Step

\* Requests never wait for each other in a circle, the guards of Step written out (none is
\* overlooked: StepsMayStep): the one wait is for the lock of a row, and who holds it waits
\* for nothing; a rotation finds a jti.
THEOREM OnlyLocksWait ==
  ASSUME IsFiniteSet(Tokens)
  PROVE  Spec => [](\A r \in Requests : InFlight(r) =>
                      \/ MayStep(r)
                      \/ \E q \in Requests : req[q].t = req[r].t /\ InFlight(q) /\ MayStep(q))
<1> DEFINE Goal == \A r \in Requests : InFlight(r) =>
                     \/ MayStep(r)
                     \/ \E q \in Requests : req[q].t = req[r].t /\ InFlight(q) /\ MayStep(q)
<1>1. TypeInv /\ WaitInv => Goal
  <2> SUFFICES ASSUME TypeInv, WaitInv, NEW r \in Requests, InFlight(r), ~MayStep(r)
               PROVE  \E q \in Requests : req[q].t = req[r].t /\ InFlight(q) /\ MayStep(q)
    OBVIOUS
  <2>1. /\ req[r].kind \in {"refresh", "logout", "api"} /\ OnItsWay(r)
    BY DEF TypeInv, HoldsItsToken, WaitInv
  <2>2. \/ req[r].kind = "refresh" /\ req[r].pc = "admitted" /\ Fresh = {}
        \/ req[r].pc = "blacklisted" /\ Locked(req[r].t)
    BY <2>1 DEF InFlight, OnItsWay, MayStep
  <2>3. ~(req[r].kind = "refresh" /\ req[r].pc = "admitted" /\ Fresh = {})
    <3> SUFFICES ASSUME req[r].kind = "refresh", req[r].pc = "admitted", Fresh = {} PROVE FALSE
      OBVIOUS
    <3>1. r \in Rotating
      BY <2>1 DEF Rotating, OnItsWay
    <3>2. Cardinality(Rotating) \in Nat /\ Cardinality(Rotating) # 0
      BY <3>1, FS_EmptySet, FS_CardinalityType DEF WaitInv, JtisSuffice
    <3>3. Cardinality(Fresh) = 0
      BY FS_EmptySet
    <3>4. QED
      BY <3>2, <3>3 DEF WaitInv, JtisSuffice
  <2>4. Locked(req[r].t)
    BY <2>2, <2>3
  <2>5. PICK q \in Requests : req[q].t = req[r].t /\ req[q].pc = "flushed"
    BY <2>4 DEF Locked
  <2>6. InFlight(q) /\ req[q].kind \in {"refresh", "logout", "api"} /\ OnItsWay(q)
    BY <2>5 DEF TypeInv, HoldsItsToken, WaitInv, InFlight
  <2>7. MayStep(q)
    BY <2>5, <2>6 DEF MayStep, OnItsWay
  <2>8. QED
    BY <2>5, <2>6, <2>7
<1> HIDE DEF Goal
<1>2. Init => WaitInv
  BY WaitInit
<1>3. TypeInv /\ TypeInv' /\ WaitInv /\ [Next]_vars => WaitInv'
  BY WaitNext
<1>4. Spec => []Goal
  BY <1>1, <1>2, <1>3, TypeInit, TypeNext, PTL DEF Spec
<1>5. QED
  BY <1>4 DEF Goal
=============================================================================
