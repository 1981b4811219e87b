------------------------------ MODULE Accounts ------------------------------
(***************************************************************************)
(* Accounts and the connections their requests use: register, login, client *)
(* token and both password reset routes (app/services/auth_service.py), the *)
(* creation of a webhook endpoint as a request of an authenticated account  *)
(* (app/core/deps.py, app/api/webhooks.py), and the seeds (app/core/seed.py). *)
(* A request keeps one pooled connection from its first SELECT to its commit *)
(* or rollback.  A refused one of the auth routes also writes an audit row, *)
(* through a second session and so a second connection, so that the row     *)
(* survives the rollback of the first.                                      *)
(***************************************************************************)
EXTENDS Integers, FiniteSets

CONSTANTS Emails, Clients,  \* users.email and service_clients.client_id
          Admin, Client,    \* SEED_ADMIN_EMAIL and SEED_CLIENT_ID, where they are set
          Requests,         \* requests to the API
          Seeders,          \* processes that run app.core.seed
          PoolSize,         \* connections of the API's pool, overflow included
          MaxFaults,        \* bound on the faults of one behaviour
          None              \* no name

ASSUME SeedsType == Admin \in Emails /\ Client \in Clients
ASSUME NamesAreDisjoint == Emails \cap Clients = {} /\ None \notin Emails \cup Clients
ASSUME ActorsType == IsFiniteSet(Requests) /\ Requests \cap Seeders = {}
ASSUME BoundsType == PoolSize \in Nat \ {0} /\ MaxFaults \in Nat

VARIABLES
  account,  \* name -> role of the committed row with it, "absent" when there is none
  req,      \* request or seeder -> its progress
  audit,    \* request -> what its committed audit row says, if it has one
  created,  \* history: pairs <<name, actor>> of committed inserts
  faults    \* number of faults so far, at most MaxFaults

vars == <<account, req, audit, created, faults>>

Names == Emails \cup Clients
Actors == Requests \cup Seeders
Kinds == {"register", "login", "token", "reset", "confirm", "endpoint"}

\* plan: the names a seed finds in its environment.
NewRequest == [pc |-> "ready", kind |-> "none", name |-> None, inserts |-> FALSE, plan |-> {}]

InFlight(r) ==
  req[r].pc \in {"waiting", "accepted", "written", "refusing", "auditing", "audited"}

\* Connections left: requests hold one from their SELECT on, "auditing" ones two.
Free ==
  PoolSize - Cardinality({r \in Requests : InFlight(r) /\ req[r].pc # "waiting"})
           - Cardinality({r \in Requests : req[r].pc = "auditing"})

\* Mutants: connections without limit; the index on the name is not unique.
Unlimited == TRUE
Unindexed(n) == FALSE

Available == Free > 0

\* The foreign key to users: a client's name is no user's id.
Owner(n) == n \in Emails /\ account[n] # "absent"

\* The unique indexes: an insert fails when a committed row has its name, and waits
\* for an open transaction that has inserted one.
Indexed(n) == account[n] # "absent"
Inserting(n) == \E q \in Actors : req[q].name = n /\ req[q].inserts /\ req[q].pc = "written"

Found(n) == account[n] # "absent"

Advance(r, pc) == req' = [req EXCEPT ![r].pc = pc]

\* The end of a request: its session, and what it held, are gone.
End(r, pc) == req' = [req EXCEPT ![r] = [NewRequest EXCEPT !.pc = pc]]

Fault == faults < MaxFaults /\ faults' = faults + 1

-----------------------------------------------------------------------------
Init ==
  /\ account = [n \in Names |-> "absent"]
  /\ req = [r \in Actors |-> NewRequest]
  /\ audit = [r \in Requests |-> "none"]
  /\ created = {}
  /\ faults = 0

\* A request arrives and asks the pool for a connection.  A confirmation carries a
\* reset token, no name; the bearer of an access token is a user or a client.
Begin(r, kind, n) ==
  /\ req[r].pc = "ready"
  /\ n \in CASE kind = "token"   -> Clients
             [] kind = "confirm" -> {None}
             [] kind = "endpoint" -> Names
             [] OTHER            -> Emails
  /\ req' = [req EXCEPT ![r] = [NewRequest EXCEPT !.pc = "waiting", !.kind = kind, !.name = n]]
  /\ UNCHANGED <<account, audit, created, faults>>

\* valid: the password, client secret or token is right and its owner active.
Accepts(r, valid) ==
  CASE req[r].kind = "register" -> ~Found(req[r].name)
    [] req[r].kind = "reset"    -> Found(req[r].name)
    [] req[r].kind = "confirm"  -> valid
    [] OTHER                    -> Found(req[r].name) /\ valid

\* The SELECT, on a connection it keeps, and the decision.  get_current_principal
\* answers 401 without an audit row.
Lookup(r, valid) ==
  /\ r \in Requests
  /\ req[r].pc = "waiting"
  /\ Available
  /\ IF Accepts(r, valid)
     THEN req' = [req EXCEPT ![r] = [@ EXCEPT !.pc = "accepted",
                                             !.inserts = (req[r].kind = "register")]]
     ELSE IF req[r].kind = "endpoint" THEN End(r, "denied") ELSE Advance(r, "refusing")
  /\ UNCHANGED <<account, audit, created, faults>>

\* The database raises an IntegrityError, which nobody catches.
Violates(r) ==
  \/ req[r].inserts /\ Indexed(req[r].name)
  \/ req[r].kind = "endpoint" /\ ~Owner(req[r].name)

\* Mutant: the audit row of an accepted request goes through a second session, too.
WriteAuditedApart(r) ==
  /\ req[r].pc = "accepted"
  /\ r \in Requests => Available
  /\ req[r].inserts => ~Inserting(req[r].name)
  /\ IF Violates(r) THEN End(r, "failed") ELSE Advance(r, "written")
  /\ audit' = [q \in Requests |-> IF q = r THEN "success" ELSE audit[q]]
  /\ UNCHANGED <<account, created, faults>>

\* Flushes of what an accepted request writes, its audit row included.  An insert may
\* have lost a race since the SELECT.
Write(r) ==
  /\ req[r].pc = "accepted"
  /\ req[r].inserts => ~Inserting(req[r].name)
  /\ IF Violates(r) THEN End(r, "failed") ELSE Advance(r, "written")
  /\ UNCHANGED <<account, audit, created, faults>>

Inserted(r) == IF req[r].inserts THEN {<<req[r].name, r>>} ELSE {}

Commit(r) ==
  /\ r \in Requests
  /\ req[r].pc = "written"
  /\ End(r, "done")
  /\ account' = [n \in Names |-> IF <<n, r>> \in Inserted(r) THEN "user" ELSE account[n]]
  /\ audit' = [audit EXCEPT ![r] = "success"]
  /\ created' = created \cup Inserted(r)
  /\ UNCHANGED faults

-----------------------------------------------------------------------------
(* A refusal: _log_audit without a session, then AuthError and the rollback. *)

\* Mutant: the audit row is added to the request's own session.
AuditOpenShared(r) ==
  /\ req[r].pc = "refusing"
  /\ Advance(r, "audited")
  /\ UNCHANGED <<account, audit, created, faults>>

\* The second session takes its connection and inserts the audit row.
AuditOpen(r) ==
  /\ req[r].pc = "refusing"
  /\ Available
  /\ Advance(r, "auditing")
  /\ UNCHANGED <<account, audit, created, faults>>

AuditCommit(r) ==
  /\ req[r].pc = "auditing"
  /\ Advance(r, "audited")
  /\ audit' = [audit EXCEPT ![r] = "refusal"]
  /\ UNCHANGED <<account, created, faults>>

\* 409, 401 or 400; a reset of an unknown address answers as if it were known.
Refuse(r) ==
  /\ req[r].pc = "audited"
  /\ End(r, "refused")
  /\ UNCHANGED <<account, audit, created, faults>>

-----------------------------------------------------------------------------
(* app.core.seed: the client, then the administrator, on a pool of its own.  *)

SeedGoesTo(s, plan, n) == req' = [req EXCEPT ![s] = [NewRequest EXCEPT
  !.pc = "waiting", !.kind = "seed", !.name = n, !.plan = plan]]
SeedEnds(s, plan, pc) == req' = [req EXCEPT ![s] = [NewRequest EXCEPT !.pc = pc, !.plan = plan]]

\* Of an administrator without address or password it makes nothing; a password that
\* is too short ends the process with an error.
SeedAdmin(s, plan) ==
  IF Admin \in plan THEN SeedGoesTo(s, plan, Admin) \/ SeedEnds(s, plan, "failed")
  ELSE SeedEnds(s, plan, "done")

\* The environment names the client and the administrator, one of them or neither.
SeedBegin(s, plan) ==
  /\ req[s].pc = "ready"
  /\ IF Client \in plan THEN SeedGoesTo(s, plan, Client) ELSE SeedAdmin(s, plan)
  /\ UNCHANGED <<account, audit, created, faults>>

SeedRole(n) == IF n \in Clients THEN "client" ELSE "admin"

\* Mutant: an account that exists is left as it is.
AlreadySeeded(n) == Found(n)

Seeded(n) == account[n] = SeedRole(n)

\* seed_client is done and seed_admin follows, or all is done.
NextSeed(s) ==
  IF req[s].name = Client THEN SeedAdmin(s, req[s].plan) ELSE SeedEnds(s, req[s].plan, "done")

\* The SELECT: create the row, promote the user, or nothing to do.
SeedLookup(s) ==
  /\ s \in Seeders
  /\ req[s].pc = "waiting"
  /\ IF Seeded(req[s].name) THEN NextSeed(s)
     ELSE req' = [req EXCEPT ![s] = [@ EXCEPT !.pc = "accepted",
                                             !.inserts = ~Found(req[s].name)]]
  /\ UNCHANGED <<account, audit, created, faults>>

SeedCommit(s) ==
  /\ s \in Seeders
  /\ req[s].pc = "written"
  /\ NextSeed(s)
  /\ account' = [account EXCEPT ![req[s].name] = SeedRole(req[s].name)]
  /\ created' = created \cup Inserted(s)
  /\ UNCHANGED <<audit, faults>>

-----------------------------------------------------------------------------
\* Mutant: only the first connection is waited for with a timeout.
PoolTimeoutOnce(r) ==
  /\ req[r].pc = "waiting"
  /\ ~Available
  /\ End(r, "failed")
  /\ UNCHANGED <<account, audit, created, faults>>

\* The pool gives up after its timeout: the request fails with a 500.
PoolTimeout(r) ==
  /\ req[r].pc \in {"waiting", "refusing"}
  /\ ~Available
  /\ End(r, "failed")
  /\ UNCHANGED <<account, audit, created, faults>>

\* The database raises or the process dies: what is open is rolled back.
Fail(r) ==
  /\ InFlight(r)
  /\ Fault
  /\ End(r, "failed")
  /\ UNCHANGED <<account, audit, created>>

Step(r) ==
  \/ \E valid \in BOOLEAN : Lookup(r, valid)
  \/ Write(r)
  \/ Commit(r)
  \/ AuditOpen(r)
  \/ AuditCommit(r)
  \/ Refuse(r)
  \/ SeedLookup(r)
  \/ SeedCommit(r)

Next ==
  \/ \E r \in Requests, kind \in Kinds, n \in Names \cup {None} : Begin(r, kind, n)
  \/ \E s \in Seeders, plan \in SUBSET {Client, Admin} : SeedBegin(s, plan)
  \/ \E r \in Requests : PoolTimeout(r)
  \/ \E r \in Actors : Step(r) \/ Fail(r)

Spec == Init /\ [][Next]_vars

\* A coroutine is resumed by its event loop; a wait for a connection ends with one or
\* with the pool's timeout.
FairSpec ==
  /\ Spec
  /\ \A r \in Requests : WF_vars(Step(r) \/ PoolTimeout(r))
  /\ \A s \in Seeders : WF_vars(Step(s))

-----------------------------------------------------------------------------
(* Properties.                                                              *)

ReqType ==
  [pc: {"ready", "waiting", "accepted", "written", "refusing", "auditing", "audited",
        "done", "refused", "denied", "failed"},
   kind: Kinds \cup {"none", "seed"}, name: Names \cup {None}, inserts: BOOLEAN,
   plan: SUBSET {Client, Admin}]

\* Every variable has its type, and the pool never lends more than it has.
TypeOK ==
  /\ account \in [Names -> {"absent", "user", "admin", "client"}]
  /\ req \in [Actors -> ReqType]
  /\ audit \in [Requests -> {"none", "success", "refusal"}]
  /\ created \subseteq Names \X Actors
  /\ faults \in 0..MaxFaults
  /\ Free \in 0..PoolSize

\* An address or client id gets one account, however many registrations and seeds
\* have found it free (register_user, seed_client and seed_admin select first).
OneAccountPerName == \A c, d \in created : c[1] = d[1] => c = d

\* The audit trail has a row for each refusal that was answered, although the
\* request's transaction was rolled back.
RefusalsAreAudited == \A r \in Requests : req[r].pc = "refused" => audit[r] = "refusal"

\* The audit trail is true: a success was committed with the account it created, a
\* refusal created nothing, whatever failed in between.
AuditIsTrue ==
  \A r \in Requests :
    /\ audit[r] = "success" <=> req[r].pc = "done"
    /\ audit[r] = "refusal" => \A n \in Names : <<n, r>> \notin created

\* Requests that wait for connections and inserts never wait for each other in a
\* circle, except when refused requests alone hold the whole pool.
OnlyRefusalsStall ==
  (\E r \in Actors : InFlight(r)) /\ (\A r \in Actors : ~ENABLED Step(r)) =>
    Cardinality({r \in Requests : req[r].pc = "refusing"}) = PoolSize

\* What a seed that has finished was told to create is there with its role, whoever
\* registered the address before, meanwhile or since.
SeededForGood ==
  \A s \in Seeders : req[s].pc = "done" => \A n \in req[s].plan : account[n] = SeedRole(n)

\* Every request and seed that has begun ends: they are finitely many, so in the end
\* none is in flight.
RequestsEnd == <>[](\A r \in Actors : ~InFlight(r))
=============================================================================
