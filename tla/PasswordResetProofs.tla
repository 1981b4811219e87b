------------------------- MODULE PasswordResetProofs -------------------------
(***************************************************************************)
(* Theorems about PasswordReset for any number of users, tokens, requests   *)
(* and faults.                                                              *)
(***************************************************************************)
EXTENDS PasswordReset, TLAPS

-----------------------------------------------------------------------------
(* Type correctness.                                                        *)

\* A confirmation in flight holds the one token it was sent.
HoldsItsToken ==
  \A r \in Requests : req[r].kind = "confirm" /\ InFlight(r) =>
    \E t \in Tokens : req[r].marks = {t}

\* A request that has made its token has an id for the new row, which no row has and no other
\* request.
HasItsId ==
  \A r \in Requests :
    /\ req[r].kind = "request" /\ req[r].pc \in {"issued", "flushed"} => req[r].new \in Tokens
    /\ req[r].new # None =>
         /\ token[req[r].new].status = "absent"
         /\ \A q \in Requests : req[q].new = req[r].new => q = r

\* A request in flight works for a user, and marks only that user's tokens.
HasItsUser ==
  \A r \in Requests : InFlight(r) =>
    req[r].user \in Users /\ req[r].marks \subseteq Owned(req[r].user)

\* The rows of existing tokens have a user, those of absent ones have none.
RowsAreOwned == \A t \in Tokens : token[t].user \in Users <=> token[t].status # "absent"

Held == HoldsItsToken /\ HasItsId /\ HasItsUser /\ RowsAreOwned
TypeInv == TypeOK /\ Held

\* The empty progress of a request is well typed.
LEMMA NewRequestType == NewRequest \in ReqType
BY DEF NewRequest, ReqType

\* The answer to a request keeps the types.
LEMMA EndType ==
  ASSUME TypeOK, NEW r \in Requests, NEW pc \in {"done", "failed"}, End(r, pc)
  PROVE  /\ req' \in [Requests -> ReqType]
         /\ \A q \in Requests \ {r} : req'[q] = req[q]
         /\ req'[r].pc = pc /\ req'[r].kind = req[r].kind /\ req'[r].late = req[r].late
         /\ req'[r].new = None
BY NewRequestType DEF TypeOK, End, NewRequest, ReqType

\* A row whose token is marked stays a row.
LEMMA SpentType ==
  ASSUME TypeOK, NEW t \in Tokens
  PROVE  /\ Spent(t) \in Row
         /\ Spent(t).status = "used" /\ Spent(t).user = token[t].user
         /\ Spent(t).expires = token[t].expires
BY DEF TypeOK, Spent, Row

\* The initial state is well typed.
LEMMA TypeInit == Init => TypeInv
<1> SUFFICES ASSUME Init PROVE TypeInv
  OBVIOUS
<1>1. TypeOK
  BY NewRequestType, BoundsType DEF Init, TypeOK, AbsentRow, Row
<1>2. Held
  BY NoneIsFresh DEF Init, Held, HoldsItsToken, HasItsId, HasItsUser, RowsAreOwned, NewRequest,
                     InFlight, AbsentRow
<1>3. QED
  BY <1>1, <1>2 DEF TypeInv

\* A step that leaves the rows alone, and of the requests changes one, keeps what the
\* others hold.
LEMMA HeldAlone ==
  ASSUME TypeInv, NEW r \in Requests, NEW x \in ReqType,
         req' = [req EXCEPT ![r] = x], token' = token,
         x.kind = "confirm" /\ x.pc \in {"loaded", "issued", "flushed", "updated"} =>
           \E t \in Tokens : x.marks = {t},
         x.kind = "request" /\ x.pc \in {"issued", "flushed"} => x.new \in Tokens,
         x.new # None => x.new = req[r].new \/ x.new \in Fresh,
         x.pc \in {"loaded", "issued", "flushed", "updated"} =>
           x.user \in Users /\ x.marks \subseteq Owned(x.user)
  PROVE  Held'
<1> USE DEF TypeInv, TypeOK, Held
<1>1. \A q \in Requests : req'[q] = IF q = r THEN x ELSE req[q]
  OBVIOUS
<1>2. HoldsItsToken'
  BY <1>1 DEF HoldsItsToken, InFlight
<1>3. HasItsId'
  BY <1>1 DEF HasItsId, Fresh
<1>4. HasItsUser'
  BY <1>1 DEF HasItsUser, InFlight, Owned
<1>5. RowsAreOwned'
  BY DEF RowsAreOwned
<1>6. QED
  BY <1>2, <1>3, <1>4, <1>5

\* Every step keeps the types.
LEMMA TypeNext == TypeInv /\ [Next]_vars => TypeInv'
<1> SUFFICES ASSUME TypeInv, [Next]_vars PROVE TypeInv'
  OBVIOUS
<1> USE DEF TypeInv
<1>1. CASE Tick
  <2>1. TypeOK'
    BY <1>1, BoundsType DEF Tick, TypeOK, history
  <2>2. Held'
    BY <1>1 DEF Tick, history, Held, HoldsItsToken, HasItsId, HasItsUser, InFlight, Owned,
                RowsAreOwned
  <2>3. QED
    BY <2>1, <2>2
<1>2. ASSUME NEW r \in Requests, NEW u \in Users, RequestLoad(r, u) PROVE TypeInv'
  <2> DEFINE x == [NewRequest EXCEPT !.pc = "loaded", !.kind = "request", !.user = u,
                                     !.marks = LiveOf(u), !.seen = Owned(u)]
  <2>1. LiveOf(u) \subseteq Owned(u) /\ Owned(u) \subseteq Tokens
    BY DEF LiveOf, Owned
  <2>2. /\ x \in ReqType
        /\ x.pc = "loaded" /\ x.kind = "request" /\ x.user = u /\ x.marks = LiveOf(u)
        /\ x.new = None
    BY <2>1 DEF NewRequest, ReqType
  <2>3. req' = [req EXCEPT ![r] = x] /\ UNCHANGED <<now, token, password, history>>
    BY <1>2 DEF RequestLoad
  <2> HIDE DEF x
  <2>4. TypeOK'
    BY <2>2, <2>3 DEF TypeOK, history
  <2>5. Held'
    BY <2>1, <2>2, <2>3, HeldAlone
  <2>6. QED
    BY <2>4, <2>5
<1>3. ASSUME NEW r \in Requests, NEW t \in Tokens, RequestIssue(r, t) PROVE TypeInv'
  <2> DEFINE x == [req[r] EXCEPT !.pc = "issued", !.new = t, !.expires = NewExpiry]
  <2>1. NewExpiry \in Nat
    BY LifetimeType, BoundsType DEF TypeOK, NewExpiry
  <2>2. /\ x \in ReqType
        /\ x.pc = "issued" /\ x.kind = "request" /\ x.new = t
        /\ x.user = req[r].user /\ x.marks = req[r].marks
    BY <1>3, <2>1 DEF RequestIssue, TypeOK, ReqType
  <2>3. req' = [req EXCEPT ![r] = x] /\ UNCHANGED <<now, token, password, history>> /\ t \in Fresh
    BY <1>3 DEF RequestIssue
  <2> HIDE DEF x
  <2>4. TypeOK'
    BY <2>2, <2>3 DEF TypeOK, history
  <2>5. req[r].user \in Users /\ req[r].marks \subseteq Owned(req[r].user)
    BY <1>3 DEF RequestIssue, Held, HasItsUser, InFlight
  <2>6. Held'
    BY <2>2, <2>3, <2>5, HeldAlone
  <2>7. QED
    BY <2>4, <2>6
<1>4. ASSUME NEW r \in Requests, RequestCommit(r) PROVE TypeInv'
  <2> DEFINE n == req[r].new
  <2>1. req[r].user \in Users /\ req[r].expires \in Nat /\ n \in Tokens /\ n # None
    BY <1>4, NoneIsFresh
    DEF RequestCommit, TypeOK, ReqType, Held, HasItsId, HasItsUser, InFlight
  <2>2. /\ token[n].status = "absent"
        /\ \A t \in req[r].marks : t \in Tokens /\ token[t].status # "absent"
    BY <1>4, <2>1
    DEF RequestCommit, Held, HasItsId, HasItsUser, RowsAreOwned, InFlight, Owned
  <2>3. End(r, "done")
    BY <1>4 DEF RequestCommit
  <2>4. /\ token' \in [Tokens -> Row]
        /\ \A t \in Tokens \ {n} : /\ token'[t].user = token[t].user
                                   /\ token'[t].status = "absent" <=> token[t].status = "absent"
        /\ token'[n].user \in Users /\ token'[n].status = "unused"
    <3>1. [status |-> "unused", user |-> req[r].user, expires |-> req[r].expires] \in Row
      BY <2>1 DEF Row
    <3>2. QED
      BY <1>4, <2>1, <2>2, <3>1, SpentType DEF RequestCommit, TypeOK
  <2>5. TypeOK'
    BY <1>4, <2>1, <2>3, <2>4, EndType DEF RequestCommit, TypeOK, ReqType
  <2>6. HoldsItsToken'
    BY <2>3, EndType DEF Held, HoldsItsToken, InFlight
  <2>7. HasItsId'
    <3>1. ASSUME NEW q \in Requests, req'[q].new # None
          PROVE  q # r /\ req'[q] = req[q] /\ req[q].new # n /\ req[q].new \in Tokens
      <4>1. q # r /\ req'[q] = req[q]
        BY <2>3, <3>1, EndType
      <4>2. req[q].new # n
        BY <2>1, <4>1, <3>1 DEF Held, HasItsId
      <4>3. req[q].new \in Tokens
        BY <4>1, <3>1 DEF TypeOK, ReqType
      <4>4. QED
        BY <4>1, <4>2, <4>3
    <3>2. QED
      BY <2>3, <2>4, <3>1, EndType DEF Held, HasItsId
  <2>8. HasItsUser' /\ RowsAreOwned'
    BY <2>1, <2>2, <2>3, <2>4, EndType DEF Held, HasItsUser, RowsAreOwned, InFlight, Owned
  <2>9. QED
    BY <2>5, <2>6, <2>7, <2>8 DEF Held
<1>5. ASSUME NEW r \in Requests, NEW t \in Tokens, ConfirmLoad(r, t) PROVE TypeInv'
  <2>1. token[t].user \in Users /\ {t} \subseteq Owned(token[t].user)
    BY <1>5 DEF ConfirmLoad, Held, RowsAreOwned, Owned
  <2>2. PICK x \in ReqType :
          /\ req' = [req EXCEPT ![r] = x]
          /\ x.kind = "confirm" /\ x.new = None
          /\ \/ x.pc = "loaded" /\ x.marks = {t} /\ x.user = token[t].user
             \/ x.pc = "denied"
    <3>1. DEFINE late == \E q \in Requests : <<t, q>> \in changes
                 held == [NewRequest EXCEPT !.pc = "loaded", !.kind = "confirm", !.marks = {t},
                                            !.user = token[t].user, !.late = late]
                 denied == [NewRequest EXCEPT !.pc = "denied", !.kind = "confirm", !.late = late]
    <3>2. late \in BOOLEAN
      OBVIOUS
    <3> HIDE DEF late
    <3>3. held \in ReqType /\ denied \in ReqType
      BY <2>1, <3>2 DEF NewRequest, ReqType
    <3>4. req' = [req EXCEPT ![r] = IF Live(t) THEN held ELSE denied]
      BY <1>5 DEF ConfirmLoad, late
    <3>5. /\ held.kind = "confirm" /\ held.pc = "loaded" /\ held.marks = {t}
          /\ held.user = token[t].user /\ held.new = None
          /\ denied.kind = "confirm" /\ denied.pc = "denied" /\ denied.new = None
      BY DEF NewRequest
    <3>6. CASE Live(t)
      BY <3>3, <3>4, <3>5, <3>6
    <3>7. CASE ~Live(t)
      BY <3>3, <3>4, <3>5, <3>7
    <3>8. QED
      BY <3>6, <3>7
  <2>3. UNCHANGED <<now, token, password, history>>
    BY <1>5 DEF ConfirmLoad
  <2>4. TypeOK'
    BY <2>2, <2>3 DEF TypeOK, history
  <2>5. Held'
    BY <2>1, <2>2, <2>3, HeldAlone
  <2>6. QED
    BY <2>4, <2>5
<1>6. ASSUME NEW r \in Requests, RequestFlush(r) \/ ConfirmFlush(r) \/ ConfirmUpdate(r)
      PROVE  TypeInv'
  <2>1. PICK pc \in {"flushed", "updated"} :
          /\ req' = [req EXCEPT ![r].pc = pc]
          /\ InFlight(r)
          /\ \/ req[r].kind = "confirm"
             \/ req[r].kind = "request" /\ req[r].pc = "issued"
          /\ UNCHANGED <<now, token, password, history>>
    BY <1>6 DEF RequestFlush, ConfirmFlush, ConfirmUpdate, InFlight
  <2> DEFINE x == [req[r] EXCEPT !.pc = pc]
  <2>2. /\ x \in ReqType
        /\ x.kind = req[r].kind /\ x.new = req[r].new
        /\ x.user = req[r].user /\ x.marks = req[r].marks
    BY <2>1 DEF TypeOK, ReqType
  <2>3. req' = [req EXCEPT ![r] = x]
    BY <2>1
  <2> HIDE DEF x
  <2>4. TypeOK'
    BY <2>1, <2>2, <2>3 DEF TypeOK, history
  <2>5. /\ req[r].user \in Users /\ req[r].marks \subseteq Owned(req[r].user)
        /\ req[r].kind = "confirm" => \E t \in Tokens : req[r].marks = {t}
        /\ req[r].kind = "request" => req[r].new \in Tokens
    BY <2>1 DEF Held, HasItsUser, HoldsItsToken, HasItsId
  <2>6. token' = token
    BY <2>1
  <2>7. Held'
    <3>1. x.kind = "confirm" => \E t \in Tokens : x.marks = {t}
      BY <2>2, <2>5
    <3>2. x.kind = "request" => x.new \in Tokens
      BY <2>2, <2>5
    <3>3. x.user \in Users /\ x.marks \subseteq Owned(x.user) /\ x.new = req[r].new
      BY <2>2, <2>5
    <3>4. QED
      BY <2>2, <2>3, <2>6, <3>1, <3>2, <3>3, HeldAlone
  <2>8. QED
    BY <2>4, <2>7
<1>7. ASSUME NEW r \in Requests, ConfirmCommit(r) PROVE TypeInv'
  <2>1. PICK t \in Tokens : req[r].marks = {t}
    BY <1>7 DEF ConfirmCommit, Held, HoldsItsToken, InFlight
  <2>2. (CHOOSE m \in req[r].marks : TRUE) = t
    BY <2>1
  <2>3. /\ End(r, "done")
        /\ token' = [token EXCEPT ![t] = Spent(t)]
        /\ password' = [password EXCEPT ![req[r].user] = t]
        /\ changes' = changes \cup {<<t, r>>}
        /\ UNCHANGED <<now, seen, faults>>
    BY <1>7, <2>2 DEF ConfirmCommit
  <2>4. token[t].status # "absent"
    BY <1>7, <2>1 DEF ConfirmCommit, Held, HasItsUser, RowsAreOwned, InFlight, Owned
  <2>5. /\ token' \in [Tokens -> Row]
        /\ \A m \in Tokens : /\ token'[m].user = token[m].user
                             /\ token'[m].status = "absent" <=> token[m].status = "absent"
    BY <2>3, <2>4, SpentType DEF TypeOK
  <2>6. TypeOK'
    <3>1. password' \in [Users -> Tokens \cup {None}]
      BY <2>3 DEF TypeOK
    <3>2. changes' \subseteq Tokens \X Requests
      <4>1. <<t, r>> \in Tokens \X Requests
        OBVIOUS
      <4>2. QED
        BY <2>3, <4>1 DEF TypeOK
    <3>3. req' \in [Requests -> ReqType]
      BY <2>3, EndType
    <3>4. QED
      BY <2>3, <2>5, <3>1, <3>2, <3>3 DEF TypeOK
  <2>7. HoldsItsToken'
    BY <2>3, EndType DEF Held, HoldsItsToken, InFlight
  <2>8. HasItsId'
    <3>1. ASSUME NEW q \in Requests, req'[q].new # None
          PROVE  q # r /\ req'[q] = req[q] /\ req[q].new \in Tokens
      BY <2>3, <3>1, EndType DEF TypeOK, ReqType
    <3>2. QED
      BY <2>3, <2>5, <3>1, EndType DEF Held, HasItsId
  <2>9. HasItsUser' /\ RowsAreOwned'
    BY <2>3, <2>5, EndType DEF Held, HasItsUser, RowsAreOwned, InFlight, Owned
  <2>10. QED
    BY <2>6, <2>7, <2>8, <2>9 DEF Held
<1>8. ASSUME NEW r \in Requests, Fail(r) PROVE TypeInv'
  <2>1. End(r, "failed") /\ token' = token
    BY <1>8 DEF Fail, RolledBack
  <2>2. TypeOK'
    BY <1>8, <2>1, EndType, BoundsType DEF Fail, Fault, TypeOK
  <2>3. HoldsItsToken' /\ HasItsUser' /\ RowsAreOwned'
    BY <2>1, EndType DEF Held, HoldsItsToken, HasItsUser, InFlight, Owned, RowsAreOwned
  <2>4. HasItsId'
    <3>1. ASSUME NEW q \in Requests, req'[q].new # None
          PROVE  q # r /\ req'[q] = req[q]
      BY <2>1, <3>1, EndType
    <3>2. QED
      BY <2>1, <3>1, EndType DEF Held, HasItsId
  <2>5. QED
    BY <2>2, <2>3, <2>4 DEF Held
<1>9. CASE UNCHANGED vars
  BY <1>9 DEF vars, history, TypeOK, Held, HoldsItsToken, HasItsId, HasItsUser, InFlight, Owned,
              RowsAreOwned
<1>10. QED
  BY <1>1, <1>2, <1>3, <1>4, <1>5, <1>6, <1>7, <1>8, <1>9 DEF Next, Step

\* Every reachable state is well typed (the tables and requests of password reset in
\* auth_service.py).
THEOREM TypeCorrect == Spec => []TypeOK
<1>1. TypeInv => TypeOK
  BY DEF TypeInv
<1>2. QED
  BY <1>1, TypeInit, TypeNext, PTL DEF Spec

\* So are the facts about the requests in flight that the proofs below rest on.
LEMMA TypeHolds == Spec => []TypeInv
BY TypeInit, TypeNext, PTL DEF Spec

-----------------------------------------------------------------------------
(* What the transactions know, and what their commits leave behind.         *)

\* A request for a token marks what it saw, except what nobody can use any more: it
\* read the tokens before it marks them, and others committed in between.
MarksEnough(r) ==
  req[r].kind = "request" /\ InFlight(r) =>
    /\ req[r].marks \subseteq req[r].seen
    /\ req[r].seen \subseteq Owned(req[r].user)
    /\ \A t \in req[r].seen : Live(t) => t \in req[r].marks
MarksWhatItSaw == \A r \in Requests : MarksEnough(r)

\* What the request for a token saw exists and cannot be used.
SeenAreSpent ==
  \A n \in Tokens :
    /\ token[n].status = "absent" => seen[n] = {}
    /\ \A t \in seen[n] : token[t].status # "absent" /\ ~Live(t)

\* A token that changed a password is marked.
ChangesAreMarked == \A t \in Tokens, r \in Requests :
  <<t, r>> \in changes => token[t].status = "used"

\* A confirmation that came late was denied at its lookup.
LateAreDenied == \A r \in Requests : req[r].late => req[r].pc = "denied"

UseInv ==
  MarksWhatItSaw /\ SeenAreSpent /\ ChangesAreMarked /\ LateAreDenied /\ SpentForAReason

\* What a step does to the rows it finds: it marks some, and keeps the rest as it was.
RowsLast ==
  /\ now' >= now
  /\ \A t \in Tokens : token[t].status # "absent" =>
       /\ token'[t].user = token[t].user /\ token'[t].expires = token[t].expires
       /\ token'[t].status \in {token[t].status, "used"}

\* No step takes a row back, revives it or gives it to another user.
LEMMA StepKeepsRows == TypeInv /\ [Next]_vars => RowsLast
<1> SUFFICES ASSUME TypeInv, [Next]_vars PROVE RowsLast
  OBVIOUS
<1> USE DEF TypeInv, RowsLast
<1>1. now' >= now
  <2>1. now' = now \/ now' = now + 1
    BY DEF Next, Step, vars, history, Tick, RequestLoad, RequestIssue, RequestFlush, RequestCommit,
           ConfirmLoad, ConfirmFlush, ConfirmUpdate, ConfirmCommit, Fail
  <2>2. QED
    BY <2>1 DEF TypeOK
<1>2. CASE token' = token
  BY <1>1, <1>2
<1>3. ASSUME NEW r \in Requests, RequestCommit(r) PROVE RowsLast
  <2>1. req[r].new \in Tokens /\ token[req[r].new].status = "absent"
    BY <1>3, NoneIsFresh DEF RequestCommit, Held, HasItsId
  <2>2. QED
    BY <1>1, <1>3, <2>1, SpentType DEF RequestCommit
<1>4. ASSUME NEW r \in Requests, ConfirmCommit(r) PROVE RowsLast
  <2>1. PICK t \in Tokens : req[r].marks = {t}
    BY <1>4 DEF ConfirmCommit, Held, HoldsItsToken, InFlight
  <2>2. token' = [token EXCEPT ![t] = Spent(t)]
    BY <1>4, <2>1 DEF ConfirmCommit
  <2>3. QED
    BY <1>1, <2>2, SpentType DEF TypeOK
<1>5. QED
  BY <1>2, <1>3, <1>4
  DEF Next, Step, vars, history, Tick, RequestLoad, RequestIssue, RequestFlush, ConfirmLoad, ConfirmFlush,
      ConfirmUpdate, Fail, RolledBack

\* What cannot be used is never usable again.
LEMMA DeadStaysDead ==
  ASSUME TypeInv, TypeInv', RowsLast, NEW t \in Tokens, token[t].status # "absent"
  PROVE  /\ token'[t].status # "absent"
         /\ Live(t)' => Live(t)
<1>1. token[t] \in Row /\ token'[t] \in Row /\ now \in Nat /\ now' \in Nat
  BY BoundsType DEF TypeInv, TypeOK
<1>2. QED
  BY <1>1 DEF RowsLast, Live, Row

\* The initial state satisfies it.
LEMMA UseInit == Init => UseInv
BY DEF Init, UseInv, MarksWhatItSaw, MarksEnough, SeenAreSpent, ChangesAreMarked, LateAreDenied,
       SpentForAReason, NewRequest, InFlight, AbsentRow

\* A step that commits nothing keeps what is committed.
LEMMA QuietStep ==
  ASSUME TypeInv, TypeInv', UseInv, RowsLast, token' = token,
         UNCHANGED <<password, changes, seen>>
  PROVE  SeenAreSpent' /\ ChangesAreMarked' /\ SpentForAReason'
<1>1. SeenAreSpent'
  BY DeadStaysDead DEF UseInv, SeenAreSpent, TypeInv, TypeOK
<1>2. QED
  BY <1>1 DEF UseInv, ChangesAreMarked, SpentForAReason

\* Of the requests whose progress a step leaves alone, those in flight still mark enough.
LEMMA OthersMark ==
  ASSUME TypeInv, TypeInv', MarksWhatItSaw, RowsLast, NEW q \in Requests, req'[q] = req[q]
  PROVE  MarksEnough(q)'
<1> SUFFICES ASSUME req[q].kind = "request", InFlight(q) PROVE MarksEnough(q)'
  BY DEF MarksEnough, InFlight
<1>1. /\ req[q].user \in Users
      /\ req[q].marks \subseteq req[q].seen /\ req[q].seen \subseteq Owned(req[q].user)
      /\ \A t \in req[q].seen : Live(t) => t \in req[q].marks
  BY DEF MarksWhatItSaw, MarksEnough, TypeInv, Held, HasItsUser
<1>2. \A t \in req[q].seen : /\ t \in Tokens /\ token[t].status # "absent"
                             /\ token[t].user = req[q].user
  BY <1>1 DEF TypeInv, Held, RowsAreOwned, Owned
<1>3. \A t \in req[q].seen : token'[t].user = req[q].user /\ (Live(t)' => Live(t))
  BY <1>2, DeadStaysDead DEF RowsLast
<1>4. QED
  BY <1>1, <1>2, <1>3 DEF Owned, MarksEnough

\* Nor need one that is answered, or that does not ask for a token.
LEMMA OnlyItMarks ==
  ASSUME TypeInv, TypeInv', MarksWhatItSaw, RowsLast, NEW r \in Requests,
         \A q \in Requests \ {r} : req'[q] = req[q],
         req'[r].kind # "request" \/ req'[r].pc \in {"done", "failed"}
  PROVE  MarksWhatItSaw'
<1>1. MarksEnough(r)'
  BY DEF MarksEnough, InFlight
<1>2. QED
  BY <1>1, OthersMark DEF MarksWhatItSaw

\* Every step keeps it.
LEMMA UseNext == TypeInv /\ TypeInv' /\ UseInv /\ [Next]_vars => UseInv'
<1> SUFFICES ASSUME TypeInv, TypeInv', UseInv, [Next]_vars PROVE UseInv'
  OBVIOUS
<1>0. RowsLast
  BY StepKeepsRows
<1>1. ASSUME token' = token, UNCHANGED <<password, req, history>> PROVE UseInv'
  <2>1. MarksWhatItSaw'
    BY <1>0, <1>1, OthersMark DEF MarksWhatItSaw, UseInv
  <2>2. QED
    BY <1>0, <1>1, <2>1, QuietStep DEF UseInv, LateAreDenied, history
<1>2. ASSUME NEW r \in Requests, NEW u \in Users, RequestLoad(r, u) PROVE UseInv'
  <2>1. /\ UNCHANGED <<now, token, password, changes, seen>>
        /\ req'[r].kind = "request" /\ req'[r].user = u /\ req'[r].late = FALSE
        /\ req'[r].marks = LiveOf(u) /\ req'[r].seen = Owned(u)
        /\ \A q \in Requests \ {r} : req'[q] = req[q]
    BY <1>2 DEF RequestLoad, NewRequest, history, TypeInv, TypeOK
  <2>2. MarksWhatItSaw'
    <3>1. MarksEnough(r)'
      BY <2>1 DEF MarksEnough, LiveOf, Owned, Live
    <3>2. QED
      BY <1>0, <2>1, <3>1, OthersMark DEF MarksWhatItSaw, UseInv
  <2>3. LateAreDenied'
    BY <2>1 DEF LateAreDenied, UseInv
  <2>4. QED
    BY <1>0, <2>1, <2>2, <2>3, QuietStep DEF UseInv
<1>3. ASSUME NEW r \in Requests, (\E t \in Tokens : RequestIssue(r, t)) \/ RequestFlush(r)
      PROVE  UseInv'
  <2>1. /\ UNCHANGED <<now, token, password, changes, seen>>
        /\ req[r].kind = "request" /\ InFlight(r)
        /\ req'[r].kind = "request" /\ req'[r].user = req[r].user /\ req'[r].late = req[r].late
        /\ req'[r].marks = req[r].marks /\ req'[r].seen = req[r].seen
        /\ \A q \in Requests \ {r} : req'[q] = req[q]
    <3>1. CASE RequestFlush(r)
      BY <3>1 DEF RequestFlush, history, InFlight, TypeInv, TypeOK, ReqType
    <3>2. ASSUME NEW t \in Tokens, RequestIssue(r, t)
          PROVE  /\ UNCHANGED <<now, token, password, changes, seen>>
                 /\ req[r].kind = "request" /\ InFlight(r)
                 /\ req'[r].kind = "request" /\ req'[r].user = req[r].user
                 /\ req'[r].late = req[r].late /\ req'[r].marks = req[r].marks
                 /\ req'[r].seen = req[r].seen
                 /\ \A q \in Requests \ {r} : req'[q] = req[q]
      BY <3>2 DEF RequestIssue, history, InFlight, TypeInv, TypeOK, ReqType
    <3>3. QED
      BY <1>3, <3>1, <3>2
  <2>2. MarksWhatItSaw'
    <3>1. MarksEnough(r)'
      BY <2>1 DEF UseInv, MarksWhatItSaw, MarksEnough, Owned, Live
    <3>2. QED
      BY <1>0, <2>1, <3>1, OthersMark DEF MarksWhatItSaw, UseInv
  <2>3. LateAreDenied'
    BY <2>1 DEF LateAreDenied, UseInv, InFlight
  <2>4. QED
    BY <1>0, <2>1, <2>2, <2>3, QuietStep DEF UseInv
<1>4. ASSUME NEW r \in Requests, RequestCommit(r) PROVE UseInv'
  <2> DEFINE n == req[r].new
             m == req[r].marks
  <2>1. /\ n \in Tokens /\ token[n].status = "absent" /\ InFlight(r) /\ req[r].kind = "request"
        /\ m \subseteq Tokens
    BY <1>4, NoneIsFresh
    DEF RequestCommit, TypeInv, TypeOK, ReqType, Held, HasItsId, InFlight
  <2>2. /\ m \subseteq req[r].seen /\ req[r].seen \subseteq Tokens
        /\ \A t \in req[r].seen : token[t].status # "absent" /\ (Live(t) => t \in m)
    BY <2>1
    DEF UseInv, MarksWhatItSaw, MarksEnough, Owned, TypeInv, Held, HasItsUser, RowsAreOwned
  <2>3. /\ End(r, "done")
        /\ seen' = [seen EXCEPT ![n] = req[r].seen]
        /\ UNCHANGED <<now, password, changes>>
    BY <1>4 DEF RequestCommit
  <2>4. /\ \A t \in m : token'[t].status = "used"
        /\ \A t \in Tokens \ m : t # n => token'[t] = token[t]
        /\ token'[n].status = "unused"
    BY <1>4, <2>1, <2>2, SpentType DEF RequestCommit, TypeInv
  <2>5. MarksWhatItSaw' /\ LateAreDenied'
    <3>1. MarksWhatItSaw'
      BY <1>0, <2>3, EndType, OnlyItMarks DEF UseInv, TypeInv
    <3>2. LateAreDenied'
      BY <2>1, <2>3, EndType DEF UseInv, LateAreDenied, InFlight, TypeInv
    <3>3. QED
      BY <3>1, <3>2
  <2>6. SeenAreSpent'
    <3>1. ASSUME NEW k \in Tokens, NEW t \in seen'[k]
          PROVE  t \in Tokens /\ token[t].status # "absent" /\ ~Live(t)'
      <4>1. CASE k = n
        <5>1. t \in req[r].seen
          BY <2>1, <2>3, <4>1 DEF TypeInv, TypeOK
        <5>2. CASE t \in m
          BY <2>2, <2>4, <5>1, <5>2 DEF Live
        <5>3. CASE t \notin m
          BY <1>0, <2>2, <5>1, <5>3, DeadStaysDead
        <5>4. QED
          BY <5>2, <5>3
      <4>2. CASE k # n
        <5>1. t \in seen[k] /\ t \in Tokens
          BY <2>1, <2>3, <4>2 DEF TypeInv, TypeOK
        <5>2. QED
          BY <1>0, <5>1, DeadStaysDead DEF UseInv, SeenAreSpent
      <4>3. QED
        BY <4>1, <4>2
    <3>2. \A k \in Tokens : token'[k].status = "absent" => seen'[k] = {}
      BY <2>1, <2>2, <2>3, <2>4 DEF UseInv, SeenAreSpent, TypeInv, TypeOK
    <3>3. QED
      BY <1>0, <3>1, <3>2, DeadStaysDead DEF SeenAreSpent
  <2>7. ChangesAreMarked'
    BY <1>0, <2>3 DEF UseInv, ChangesAreMarked, RowsLast
  <2>8. SpentForAReason'
    <3>1. ASSUME NEW t \in Tokens, token'[t].status = "used"
          PROVE  (\E k \in Tokens : t \in seen'[k]) \/ \E q \in Requests : <<t, q>> \in changes'
      <4>1. CASE t \in m
        BY <2>1, <2>2, <2>3, <4>1 DEF TypeInv, TypeOK
      <4>2. CASE t \notin m
        <5>1. token[t].status = "used"
          BY <2>4, <3>1, <4>2
        <5>2. (\E k \in Tokens : t \in seen[k]) \/ \E q \in Requests : <<t, q>> \in changes
          BY <5>1 DEF UseInv, SpentForAReason
        <5>3. \A k \in Tokens : t \in seen[k] => t \in seen'[k]
          BY <2>1, <2>3 DEF UseInv, SeenAreSpent, TypeInv, TypeOK
        <5>4. QED
          BY <2>3, <5>2, <5>3
      <4>3. QED
        BY <4>1, <4>2
    <3>2. ASSUME NEW u \in Users, password'[u] # None
          PROVE  token'[password'[u]].status = "used" /\ token'[password'[u]].user = u
      <4>1. /\ password[u] \in Tokens /\ password'[u] = password[u]
            /\ token[password[u]].status = "used" /\ token[password[u]].user = u
        BY <2>3, <3>2 DEF UseInv, SpentForAReason, TypeInv, TypeOK
      <4>2. QED
        BY <1>0, <4>1 DEF RowsLast
    <3>3. QED
      BY <3>1, <3>2 DEF SpentForAReason
  <2>9. QED
    BY <2>5, <2>6, <2>7, <2>8 DEF UseInv
<1>5. ASSUME NEW r \in Requests, NEW t \in Tokens, ConfirmLoad(r, t) PROVE UseInv'
  <2>1. /\ UNCHANGED <<now, token, password, changes, seen>>
        /\ req'[r].kind = "confirm"
        /\ \A q \in Requests \ {r} : req'[q] = req[q]
    BY <1>5 DEF ConfirmLoad, NewRequest, history, TypeInv, TypeOK
  <2>2. req'[r].pc = "denied" \/ (Live(t) /\ req'[r].late = \E q \in Requests : <<t, q>> \in changes)
    BY <1>5 DEF ConfirmLoad, NewRequest, TypeInv, TypeOK
  <2>3. LateAreDenied'
    <3>1. req'[r].late => req'[r].pc = "denied"
      BY <2>2 DEF UseInv, ChangesAreMarked, Live
    <3>2. QED
      BY <2>1, <3>1 DEF UseInv, LateAreDenied
  <2>4. MarksWhatItSaw'
    BY <1>0, <2>1, OnlyItMarks DEF UseInv
  <2>5. QED
    BY <1>0, <2>1, <2>3, <2>4, QuietStep DEF UseInv
<1>6. ASSUME NEW r \in Requests, ConfirmFlush(r) \/ ConfirmUpdate(r) PROVE UseInv'
  <2>1. /\ UNCHANGED <<now, token, password, changes, seen>>
        /\ InFlight(r) /\ req[r].kind = "confirm"
        /\ req'[r].kind = "confirm" /\ req'[r].late = req[r].late
        /\ \A q \in Requests \ {r} : req'[q] = req[q]
    BY <1>6 DEF ConfirmFlush, ConfirmUpdate, history, InFlight, TypeInv, TypeOK, ReqType
  <2>2. LateAreDenied'
    BY <2>1 DEF UseInv, LateAreDenied, InFlight
  <2>3. MarksWhatItSaw'
    BY <1>0, <2>1, OnlyItMarks DEF UseInv
  <2>4. QED
    BY <1>0, <2>1, <2>2, <2>3, QuietStep DEF UseInv
<1>7. ASSUME NEW r \in Requests, ConfirmCommit(r) PROVE UseInv'
  <2>1. PICK t \in Tokens : req[r].marks = {t}
    BY <1>7 DEF ConfirmCommit, TypeInv, Held, HoldsItsToken, InFlight
  <2>2. /\ InFlight(r) /\ End(r, "done")
        /\ token' = [token EXCEPT ![t] = Spent(t)]
        /\ password' = [password EXCEPT ![req[r].user] = t]
        /\ changes' = changes \cup {<<t, r>>}
        /\ seen' = seen
    BY <1>7, <2>1 DEF ConfirmCommit, InFlight
  <2>3. /\ token'[t].status = "used" /\ token'[t].user = req[r].user /\ req[r].user \in Users
        /\ token[t].status # "absent"
        /\ \A m \in Tokens \ {t} : token'[m] = token[m]
    BY <2>1, <2>2, SpentType
    DEF TypeInv, TypeOK, Held, HasItsUser, RowsAreOwned, Owned
  <2>4. MarksWhatItSaw' /\ LateAreDenied'
    <3>1. MarksWhatItSaw'
      BY <1>0, <2>2, EndType, OnlyItMarks DEF UseInv, TypeInv
    <3>2. LateAreDenied'
      BY <2>2, EndType DEF UseInv, LateAreDenied, InFlight, TypeInv
    <3>3. QED
      BY <3>1, <3>2
  <2>5. SeenAreSpent'
    BY <1>0, <2>2, <2>3, DeadStaysDead DEF UseInv, SeenAreSpent, TypeInv, TypeOK
  <2>6. ChangesAreMarked'
    BY <2>2, <2>3 DEF UseInv, ChangesAreMarked
  <2>7. SpentForAReason'
    <3>1. \A m \in Tokens : token'[m].status = "used" =>
            \/ \E k \in Tokens : m \in seen'[k]
            \/ \E q \in Requests : <<m, q>> \in changes'
      BY <2>2, <2>3 DEF UseInv, SpentForAReason
    <3>2. ASSUME NEW u \in Users, password'[u] # None
          PROVE  token'[password'[u]].status = "used" /\ token'[password'[u]].user = u
      <4>1. CASE u = req[r].user
        BY <2>2, <2>3, <4>1 DEF TypeInv, TypeOK
      <4>2. CASE u # req[r].user
        <5>1. /\ password[u] \in Tokens /\ password'[u] = password[u]
              /\ token[password[u]].status = "used" /\ token[password[u]].user = u
          BY <2>2, <3>2, <4>2 DEF UseInv, SpentForAReason, TypeInv, TypeOK
        <5>2. QED
          BY <1>0, <5>1 DEF RowsLast
      <4>3. QED
        BY <4>1, <4>2
    <3>3. QED
      BY <3>1, <3>2 DEF SpentForAReason
  <2>8. QED
    BY <2>4, <2>5, <2>6, <2>7 DEF UseInv
<1>8. ASSUME NEW r \in Requests, Fail(r) PROVE UseInv'
  <2>1. InFlight(r) /\ End(r, "failed") /\ token' = token /\ UNCHANGED <<password, changes, seen>>
    BY <1>8 DEF Fail, RolledBack
  <2>2. MarksWhatItSaw' /\ LateAreDenied'
    <3>1. MarksWhatItSaw'
      BY <1>0, <2>1, EndType, OnlyItMarks DEF UseInv, TypeInv
    <3>2. LateAreDenied'
      BY <2>1, EndType DEF UseInv, LateAreDenied, InFlight, TypeInv
    <3>3. QED
      BY <3>1, <3>2
  <2>3. QED
    BY <1>0, <2>1, <2>2, QuietStep DEF UseInv
<1>9. CASE Tick
  BY <1>1, <1>9 DEF Tick
<1>10. CASE UNCHANGED vars
  BY <1>1, <1>10 DEF vars
<1>11. QED
  BY <1>2, <1>3, <1>4, <1>5, <1>6, <1>7, <1>8, <1>9, <1>10 DEF Next, Step

\* So it holds of every reachable state.
LEMMA UseHolds == Spec => []UseInv
BY TypeInit, TypeNext, UseInit, UseNext, PTL DEF Spec

\* A confirmation that begins after its token has changed the password is refused, for
\* any number of confirmations of one token (the lookup of confirm_password_reset).
THEOREM UsedTokenIsRefusedHolds == Spec => []UsedTokenIsRefused
<1>1. UseInv => UsedTokenIsRefused
  BY DEF UseInv, LateAreDenied, UsedTokenIsRefused
<1>2. QED
  BY <1>1, UseHolds, PTL

\* A token is spent only by the transaction that made something of it, whatever fails
\* and rolls back, and the password in force came from a spent token of its user.
THEOREM SpentForAReasonHolds == Spec => []SpentForAReason
<1>1. UseInv => SpentForAReason
  BY DEF UseInv
<1>2. QED
  BY <1>1, UseHolds, PTL

\* Once the request for a new token has committed, no token its user had when it began
\* can be used, although it marked them from what it had read.
THEOREM OlderTokensAreSpentHolds == Spec => []OlderTokensAreSpent
<1>1. UseInv => OlderTokensAreSpent
  BY DEF UseInv, SeenAreSpent, OlderTokensAreSpent
<1>2. QED
  BY <1>1, UseHolds, PTL

\* Neither endpoint takes a row back, revives it, moves its expiry or gives it to
\* another user, failed and rolled-back requests included.
THEOREM RowsLastAlways == Spec => [][RowsLast]_vars
BY TypeInit, TypeNext, StepKeepsRows, PTL DEF Spec
=============================================================================
