---------------------------- MODULE PasswordReset ----------------------------
(***************************************************************************)
(* Password reset (app/services/auth_service.py): POST /auth/password/reset *)
(* marks a user's unused tokens and issues a new one; POST                  *)
(* /auth/password/reset/confirm looks the token up among the unused ones,   *)
(* marks it and sets the password.  Each is one transaction that reads      *)
(* first and writes later.                                                  *)
(***************************************************************************)
EXTENDS Naturals, FiniteSets

CONSTANTS Users,
          Tokens,      \* reset tokens, named by the row's id
          Requests,    \* requests of both kinds
          Lifetime,    \* password_reset_token_minutes, in ticks
          MaxTime,     \* bound on the clock
          MaxFaults,   \* bound on the faults of one behaviour
          None         \* no token, no user

ASSUME LifetimeType == Lifetime \in Nat \ {0}
ASSUME BoundsType == MaxTime \in Nat /\ MaxFaults \in Nat
ASSUME NoneIsFresh == None \notin Users \cup Tokens

VARIABLES
  now,       \* the clock
  token,     \* id -> committed password_reset_tokens row
  password,  \* user -> the token whose confirmation set the password, None at first
  req,       \* request -> its progress and the values it holds
  changes,   \* history: the pairs <<token, request>> of committed confirmations
  seen,      \* history: id -> tokens its user had when the request for it began
  faults     \* number of faults so far, at most MaxFaults

history == <<changes, seen, faults>>
vars == <<now, token, password, req, history>>

Row == [status: {"absent", "unused", "used"}, user: Users \cup {None}, expires: Nat]
AbsentRow == [status |-> "absent", user |-> None, expires |-> 0]

Owned(u) == {t \in Tokens : token[t].user = u}

\* Mutants: used tokens are not filtered out; only the first live token is marked.
Unexpired(t) == token[t].status # "absent" /\ now < token[t].expires
FirstOnly(u) == LET all == {t \in Owned(u) : Unexpired(t)}
                IN IF all = {} THEN {} ELSE {CHOOSE t \in all : TRUE}

Live(t) == token[t].status = "unused" /\ now < token[t].expires
LiveOf(u) == {t \in Owned(u) : Live(t)}

\* Mutant: a row without expires_at.
NoExpiry == None

NewExpiry == now + Lifetime
Spent(t) == [token[t] EXCEPT !.status = "used"]

\* Rows whose UPDATE a request has flushed are locked until it ends: the tokens it
\* marks, and the user whose password it sets.
Locked(t) == \E r \in Requests : t \in req[r].marks /\ req[r].pc \in {"flushed", "updated"}
UserLocked(u) == \E r \in Requests : req[r].user = u /\ req[r].pc = "updated"

Fresh == {t \in Tokens : token[t].status = "absent" /\ \A r \in Requests : req[r].new # t}

NewRequest == [pc |-> "ready", kind |-> "none", user |-> None, marks |-> {}, seen |-> {},
               new |-> None, expires |-> 0, late |-> FALSE]

Fault == faults < MaxFaults /\ faults' = faults + 1

InFlight(r) == req[r].pc \in {"loaded", "issued", "flushed", "updated"}

\* Mutant: the marks are committed on their own, before the rest.
MarksKept(r) == [t \in Tokens |-> IF t \in req[r].marks THEN Spent(t) ELSE token[t]]

\* get_session rolls back all a request has written.
RolledBack(r) == token

\* The answer: only what a confirmation was worth is kept, for the properties.
End(r, pc) == req' = [req EXCEPT ![r] = [NewRequest EXCEPT
  !.pc = pc, !.kind = req[r].kind, !.late = req[r].late]]

-----------------------------------------------------------------------------
Init ==
  /\ now = 0
  /\ token = [t \in Tokens |-> AbsentRow]
  /\ password = [u \in Users |-> None]
  /\ req = [r \in Requests |-> NewRequest]
  /\ changes = {}
  /\ seen = [t \in Tokens |-> {}]
  /\ faults = 0

Tick ==
  /\ now < MaxTime
  /\ now' = now + 1
  /\ UNCHANGED <<token, password, req, history>>

-----------------------------------------------------------------------------
(* request_password_reset.                                                  *)

\* The user and the user's live tokens; "used = true" stays in the session.
RequestLoad(r, u) ==
  /\ req[r].pc = "ready"
  /\ req' = [req EXCEPT ![r] = [NewRequest EXCEPT
       !.pc = "loaded", !.kind = "request", !.user = u,
       !.marks = LiveOf(u), !.seen = Owned(u)]]
  /\ UNCHANGED <<now, token, password, history>>

\* The new token: its id and its expires_at.
RequestIssue(r, t) ==
  /\ req[r].kind = "request"
  /\ req[r].pc = "loaded"
  /\ t \in Fresh
  /\ req' = [req EXCEPT ![r] = [@ EXCEPT !.pc = "issued", !.new = t, !.expires = NewExpiry]]
  /\ UNCHANGED <<now, token, password, history>>

\* The flush sends the UPDATEs, in primary key order, which may wait for the rows'
\* locks, and the INSERT.
RequestFlush(r) ==
  /\ req[r].kind = "request"
  /\ req[r].pc = "issued"
  /\ \A m \in req[r].marks : ~Locked(m)
  /\ req' = [req EXCEPT ![r].pc = "flushed"]
  /\ UNCHANGED <<now, token, password, history>>

RequestCommit(r) ==
  LET n == req[r].new IN
  /\ req[r].kind = "request"
  /\ req[r].pc = "flushed"
  /\ End(r, "done")
  /\ token' = [t \in Tokens |->
       CASE t \in req[r].marks -> Spent(t)
         [] t = n -> [status |-> "unused", user |-> req[r].user, expires |-> req[r].expires]
         [] OTHER -> token[t]]
  /\ seen' = [seen EXCEPT ![n] = req[r].seen]
  /\ UNCHANGED <<now, password, changes, faults>>

-----------------------------------------------------------------------------
(* confirm_password_reset.                                                  *)

\* The token is sought among the live ones; late records an earlier use.
ConfirmLoad(r, t) ==
  /\ req[r].pc = "ready"
  /\ token[t].status # "absent"
  /\ LET late == \E q \in Requests : <<t, q>> \in changes
     IN req' = [req EXCEPT ![r] =
          IF Live(t)
          THEN [NewRequest EXCEPT !.pc = "loaded", !.kind = "confirm", !.marks = {t},
                                  !.user = token[t].user, !.late = late]
          ELSE [NewRequest EXCEPT !.pc = "denied", !.kind = "confirm", !.late = late]]
  /\ UNCHANGED <<now, token, password, history>>

\* The SELECT of the user flushes "used = true" first.
ConfirmFlush(r) ==
  /\ req[r].kind = "confirm"
  /\ req[r].pc = "loaded"
  /\ \A t \in req[r].marks : ~Locked(t)
  /\ req' = [req EXCEPT ![r].pc = "flushed"]
  /\ UNCHANGED <<now, token, password, history>>

\* The flush of the audit row sends the new password hash.
ConfirmUpdate(r) ==
  /\ req[r].kind = "confirm"
  /\ req[r].pc = "flushed"
  /\ ~UserLocked(req[r].user)
  /\ req' = [req EXCEPT ![r].pc = "updated"]
  /\ UNCHANGED <<now, token, password, history>>

ConfirmCommit(r) ==
  LET t == CHOOSE m \in req[r].marks : TRUE IN
  /\ req[r].kind = "confirm"
  /\ req[r].pc = "updated"
  /\ End(r, "done")
  /\ token' = [token EXCEPT ![t] = Spent(t)]
  /\ password' = [password EXCEPT ![req[r].user] = t]
  /\ changes' = changes \cup {<<t, r>>}
  /\ UNCHANGED <<now, seen, faults>>

\* The database raises or the process dies: the transaction is rolled back.
Fail(r) ==
  /\ InFlight(r)
  /\ Fault
  /\ End(r, "failed")
  /\ token' = RolledBack(r)
  /\ UNCHANGED <<now, password, changes, seen>>

Step(r) ==
  \/ \E t \in Tokens : RequestIssue(r, t)
  \/ RequestFlush(r)
  \/ RequestCommit(r)
  \/ ConfirmFlush(r)
  \/ ConfirmUpdate(r)
  \/ ConfirmCommit(r)

Next ==
  \/ Tick
  \/ \E r \in Requests, u \in Users : RequestLoad(r, u)
  \/ \E r \in Requests, t \in Tokens : ConfirmLoad(r, t)
  \/ \E r \in Requests : Step(r) \/ Fail(r)

Spec == Init /\ [][Next]_vars

-----------------------------------------------------------------------------
(* Properties.                                                              *)

ReqType == [pc: {"ready", "loaded", "issued", "flushed", "updated", "done", "denied", "failed"},
            kind: {"none", "request", "confirm"}, user: Users \cup {None},
            marks: SUBSET Tokens, seen: SUBSET Tokens, new: Tokens \cup {None},
            expires: Nat, late: BOOLEAN]

\* Every variable has its type.
TypeOK ==
  /\ now \in 0..MaxTime
  /\ token \in [Tokens -> Row]
  /\ password \in [Users -> Tokens \cup {None}]
  /\ req \in [Requests -> ReqType]
  /\ changes \subseteq Tokens \X Requests
  /\ seen \in [Tokens -> SUBSET Tokens]
  /\ faults \in 0..MaxFaults

\* A confirmation that begins after its token has changed the password is refused.
UsedTokenIsRefused ==
  \A r \in Requests : req[r].kind = "confirm" /\ req[r].late => req[r].pc # "done"

\* A token is spent only for something: it changed its user's password, or a request
\* that knew it issued a newer one.  A failed request never costs the user a token.
\* And a password in force was paid for: with a token of its own user, now spent.
SpentForAReason ==
  /\ \A t \in Tokens : token[t].status = "used" =>
       \/ \E n \in Tokens : t \in seen[n]
       \/ \E r \in Requests : <<t, r>> \in changes
  /\ \A u \in Users : password[u] # None =>
       token[password[u]].status = "used" /\ token[password[u]].user = u

\* A new token makes every token unusable that its user had when it was asked for:
\* two are live together only when the requests for them overlapped.
OlderTokensAreSpent == \A n \in Tokens : \A t \in seen[n] : ~Live(t)

\* A token changes the password at most once: "Single-use reset tokens".
SingleUse == \A t \in Tokens : Cardinality({c \in changes : c[1] = t}) <= 1
=============================================================================
