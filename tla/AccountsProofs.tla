--------------------------- MODULE AccountsProofs ---------------------------
(***************************************************************************)
(* Theorems about Accounts for any number of names, requests, seeders,      *)
(* connections and faults.                                                  *)
(***************************************************************************)
EXTENDS Accounts, FiniteSetTheorems, TLAPS

-----------------------------------------------------------------------------
(* Type correctness.                                                        *)

\* The actors' kinds, and the names they work on.
Named(r) ==
  /\ req[r].kind = "register" => req[r].name \in Names
  /\ req[r].kind = "seed" => req[r].name \in req[r].plan
  /\ req[r].plan \subseteq {Client, Admin}
  /\ req[r].inserts => req[r].kind \in {"register", "seed"}
  /\ r \in Requests => req[r].kind # "seed"
  /\ r \in Seeders /\ req[r].pc \notin {"ready", "done", "failed"} =>
       req[r].kind = "seed" /\ req[r].pc \in {"waiting", "accepted", "written"}

\* The requests that hold a connection, and those that hold a second one.
Holders == {r \in Requests : InFlight(r) /\ req[r].pc # "waiting"}
Auditors == {r \in Requests : req[r].pc = "auditing"}

Typed ==
  /\ account \in [Names -> {"absent", "user", "admin", "client"}]
  /\ req \in [Actors -> ReqType]
  /\ audit \in [Requests -> {"none", "success", "refusal"}]
  /\ created \subseteq Names \X Actors
  /\ faults \in 0..MaxFaults

TypeInv == Typed /\ Free \in 0..PoolSize /\ \A r \in Actors : Named(r)

\* A step changes the progress of this actor alone.
OnlyMoves(r) ==
  /\ req' \in [Actors -> ReqType]
  /\ \A q \in Actors \ {r} : req'[q] = req[q]

\* The empty progress of a request is well typed.
LEMMA NewRequestType == NewRequest \in ReqType
BY DEF NewRequest, ReqType

\* The seeded names are names, apart from each other and with roles of their own.
LEMMA SeedNames ==
  /\ Admin \in Names /\ Client \in Names /\ Admin # Client
  /\ SeedRole(Admin) = "admin" /\ SeedRole(Client) = "client"
  /\ \A n \in Names : SeedRole(n) \in {"client", "admin"}
BY SeedsType, NamesAreDisjoint DEF Names, SeedRole

\* A request that goes on keeps what it holds.
LEMMA AdvanceType ==
  ASSUME Typed, NEW r \in Actors, NEW pc \in {"refusing", "auditing", "audited", "written"},
         Advance(r, pc)
  PROVE  /\ OnlyMoves(r)
         /\ req'[r].pc = pc /\ req'[r].kind = req[r].kind /\ req'[r].name = req[r].name
         /\ req'[r].inserts = req[r].inserts /\ req'[r].plan = req[r].plan
BY DEF Typed, Advance, OnlyMoves, ReqType

\* One that ends holds nothing.
LEMMA EndType ==
  ASSUME Typed, NEW r \in Actors, NEW pc \in {"done", "refused", "denied", "failed"}, End(r, pc)
  PROVE  /\ OnlyMoves(r)
         /\ req'[r].pc = pc /\ req'[r].kind = "none" /\ req'[r].name = None
         /\ req'[r].inserts = FALSE /\ req'[r].plan = {}
BY NewRequestType DEF Typed, End, OnlyMoves, NewRequest, ReqType

\* One that begins asks for a connection.
LEMMA BeginType ==
  ASSUME Typed, NEW r \in Actors, NEW kind \in Kinds, NEW n \in Names \cup {None},
         req' = [req EXCEPT ![r] = [NewRequest EXCEPT !.pc = "waiting", !.kind = kind, !.name = n]]
  PROVE  /\ OnlyMoves(r)
         /\ req'[r].pc = "waiting" /\ req'[r].kind = kind /\ req'[r].name = n
         /\ req'[r].inserts = FALSE /\ req'[r].plan = {}
BY NewRequestType DEF Typed, OnlyMoves, NewRequest, ReqType

\* A seed goes to one of the names it was told.
GoesTo(s, plan, n) ==
  /\ req'[s].pc = "waiting" /\ req'[s].kind = "seed" /\ req'[s].name = n
  /\ req'[s].inserts = FALSE /\ req'[s].plan = plan

\* Or it ends, and what it was told stays on record.
EndsIn(s, plan, pc) ==
  /\ req'[s].pc = pc /\ req'[s].kind = "none" /\ req'[s].inserts = FALSE
  /\ req'[s].plan = plan

LEMMA SeedGoesToType ==
  ASSUME Typed, NEW s \in Actors, NEW plan \in SUBSET {Client, Admin}, NEW n \in {Client, Admin},
         SeedGoesTo(s, plan, n)
  PROVE  OnlyMoves(s) /\ GoesTo(s, plan, n)
BY SeedNames DEF Typed, SeedGoesTo, OnlyMoves, GoesTo, NewRequest, ReqType

LEMMA SeedEndsType ==
  ASSUME Typed, NEW s \in Actors, NEW plan \in SUBSET {Client, Admin},
         NEW pc \in {"done", "failed"}, SeedEnds(s, plan, pc)
  PROVE  OnlyMoves(s) /\ EndsIn(s, plan, pc)
BY DEF Typed, SeedEnds, OnlyMoves, EndsIn, NewRequest, ReqType

\* The turn of the administrator, if the seed was told one.
LEMMA SeedAdminType ==
  ASSUME Typed, NEW s \in Actors, NEW plan \in SUBSET {Client, Admin}, SeedAdmin(s, plan)
  PROVE  /\ OnlyMoves(s)
         /\ \/ Admin \in plan /\ GoesTo(s, plan, Admin)
            \/ EndsIn(s, plan, "failed")
            \/ Admin \notin plan /\ EndsIn(s, plan, "done")
BY SeedGoesToType, SeedEndsType DEF SeedAdmin

\* A seed begins with the client, if it was told one.
LEMMA SeedBeginType ==
  ASSUME Typed, NEW s \in Actors, NEW plan \in SUBSET {Client, Admin}, SeedBegin(s, plan)
  PROVE  /\ OnlyMoves(s)
         /\ \/ Client \in plan /\ GoesTo(s, plan, Client)
            \/ Client \notin plan /\ Admin \in plan /\ GoesTo(s, plan, Admin)
            \/ EndsIn(s, plan, "failed")
            \/ plan = {} /\ EndsIn(s, plan, "done")
<1>1. CASE Client \in plan
  BY <1>1, SeedGoesToType DEF SeedBegin
<1>2. CASE Client \notin plan
  <2>1. SeedAdmin(s, plan)
    BY <1>2 DEF SeedBegin
  <2>2. Admin \notin plan => plan = {}
    BY <1>2
  <2>3. QED
    BY <1>2, <2>1, <2>2, SeedAdminType
<1>3. QED
  BY <1>1, <1>2

\* One that is accepted knows whether it inserts.
LEMMA AcceptType ==
  ASSUME Typed, NEW r \in Actors, NEW inserts \in BOOLEAN,
         req' = [req EXCEPT ![r] = [@ EXCEPT !.pc = "accepted", !.inserts = inserts]]
  PROVE  /\ OnlyMoves(r)
         /\ req'[r].pc = "accepted" /\ req'[r].inserts = inserts
         /\ req'[r].kind = req[r].kind /\ req'[r].name = req[r].name
         /\ req'[r].plan = req[r].plan
<1> DEFINE x == [req[r] EXCEPT !.pc = "accepted", !.inserts = inserts]
<1>1. /\ x \in ReqType /\ req' = [req EXCEPT ![r] = x]
      /\ x.pc = "accepted" /\ x.inserts = inserts
      /\ x.kind = req[r].kind /\ x.name = req[r].name /\ x.plan = req[r].plan
  BY DEF Typed, ReqType
<1> HIDE DEF x
<1>2. QED
  BY <1>1 DEF Typed, OnlyMoves

\* A seed goes on to the administrator, or it ends.
LEMMA NextSeedType ==
  ASSUME Typed, NEW s \in Actors, Named(s), NextSeed(s)
  PROVE  /\ OnlyMoves(s)
         /\ \/ /\ req[s].name = Client
               /\ \/ Admin \in req[s].plan /\ GoesTo(s, req[s].plan, Admin)
                  \/ EndsIn(s, req[s].plan, "failed")
                  \/ Admin \notin req[s].plan /\ EndsIn(s, req[s].plan, "done")
            \/ req[s].name # Client /\ EndsIn(s, req[s].plan, "done")
<1>1. req[s].plan \in SUBSET {Client, Admin}
  BY DEF Named
<1>2. QED
  BY <1>1, SeedAdminType, SeedEndsType DEF NextSeed

\* The connections in use, in terms of who uses them.
PoolInUse ==
  /\ IsFiniteSet(Holders) /\ IsFiniteSet(Auditors)
  /\ Cardinality(Holders) \in Nat /\ Cardinality(Auditors) \in Nat
  /\ Free = PoolSize - Cardinality(Holders) - Cardinality(Auditors)

LEMMA InUse == PoolInUse
<1>1. Holders \in SUBSET Requests /\ Auditors \in SUBSET Requests
  BY DEF Holders, Auditors
<1>2. IsFiniteSet(Holders) /\ IsFiniteSet(Auditors)
  BY <1>1, ActorsType, FS_Subset
<1>3. QED
  BY <1>2, FS_CardinalityType DEF PoolInUse, Free, Holders, Auditors

\* It is the same after a step.
LEMMA InUseNext == PoolInUse'
BY InUse, PTL

\* A step that takes no connection leaves the pool with no fewer.
LEMMA PoolGains ==
  ASSUME Free \in 0..PoolSize, Holders' \subseteq Holders, Auditors' \subseteq Auditors
  PROVE  Free' \in 0..PoolSize
<1>1. PoolInUse /\ PoolInUse'
  BY InUse, InUseNext
<1>2. Cardinality(Holders') <= Cardinality(Holders)
  BY <1>1, FS_Subset DEF PoolInUse
<1>3. Cardinality(Auditors') <= Cardinality(Auditors)
  BY <1>1, FS_Subset DEF PoolInUse
<1>4. QED
  BY <1>1, <1>2, <1>3, BoundsType DEF PoolInUse

\* A step that takes one connection has found one left.
LEMMA PoolLends ==
  ASSUME Free \in 0..PoolSize, Available, NEW r,
         \/ Holders' \subseteq Holders \cup {r} /\ Auditors' \subseteq Auditors
         \/ Holders' \subseteq Holders /\ Auditors' \subseteq Auditors \cup {r}
  PROVE  Free' \in 0..PoolSize
<1>1. PoolInUse /\ PoolInUse'
  BY InUse, InUseNext
<1>2. ASSUME NEW S, NEW T, IsFiniteSet(S), T \subseteq S \cup {r}
      PROVE  Cardinality(S) \in Nat /\ Cardinality(T) \in Nat /\ Cardinality(T) <= Cardinality(S) + 1
  <2>1. IsFiniteSet(S \cup {r}) /\ Cardinality(S \cup {r}) <= Cardinality(S) + 1
    <3>1. Cardinality(S) \in Nat
      BY <1>2, FS_CardinalityType
    <3>2. /\ IsFiniteSet(S \cup {r})
          /\ Cardinality(S \cup {r}) = IF r \in S THEN Cardinality(S) ELSE Cardinality(S) + 1
      BY <1>2, FS_AddElement
    <3>3. QED
      BY <3>1, <3>2
  <2>2. IsFiniteSet(T) /\ Cardinality(T) <= Cardinality(S \cup {r})
    BY <1>2, <2>1, FS_Subset
  <2>3. /\ Cardinality(S) \in Nat /\ Cardinality(T) \in Nat
        /\ Cardinality(S \cup {r}) \in Nat
    BY <1>2, <2>1, <2>2, FS_CardinalityType
  <2>4. QED
    BY <2>1, <2>2, <2>3
<1>3. CASE Holders' \subseteq Holders \cup {r} /\ Auditors' \subseteq Auditors
  <2>1. Cardinality(Holders') <= Cardinality(Holders) + 1
    BY <1>1, <1>2, <1>3 DEF PoolInUse
  <2>2. Cardinality(Auditors') <= Cardinality(Auditors)
    BY <1>1, <1>3, FS_Subset DEF PoolInUse
  <2>3. QED
    BY <1>1, <2>1, <2>2, BoundsType DEF PoolInUse, Available
<1>4. CASE Holders' \subseteq Holders /\ Auditors' \subseteq Auditors \cup {r}
  <2>1. Cardinality(Holders') <= Cardinality(Holders)
    BY <1>1, <1>4, FS_Subset DEF PoolInUse
  <2>2. Cardinality(Auditors') <= Cardinality(Auditors) + 1
    BY <1>1, <1>2, <1>4 DEF PoolInUse
  <2>3. QED
    BY <1>1, <2>1, <2>2, BoundsType DEF PoolInUse, Available
<1>5. QED
  BY <1>3, <1>4

\* A step of one actor takes a connection only if that actor has begun to hold one.
LEMMA PoolAlone ==
  ASSUME NEW r \in Actors, OnlyMoves(r)
  PROVE  /\ Holders' \subseteq Holders \cup {r} /\ Auditors' \subseteq Auditors \cup {r}
         /\ r \notin Holders' \/ r \in Holders => Holders' \subseteq Holders
         /\ r \notin Auditors' \/ r \in Auditors => Auditors' \subseteq Auditors
<1>1. \A q \in Requests : q # r => req'[q] = req[q]
  BY DEF OnlyMoves, Actors
<1>2. \A q \in Requests : q # r => (q \in Holders' => q \in Holders)
  BY <1>1 DEF Holders, InFlight
<1>3. \A q \in Requests : q # r => (q \in Auditors' => q \in Auditors)
  BY <1>1 DEF Auditors
<1>4. Holders' \subseteq Requests /\ Auditors' \subseteq Requests
  BY DEF Holders, Auditors
<1>5. QED
  BY <1>2, <1>3, <1>4

\* The initial state is well typed.
LEMMA TypeInit == Init => TypeInv
<1> SUFFICES ASSUME Init PROVE TypeInv
  OBVIOUS
<1>1. Typed
  <2>1. req \in [Actors -> ReqType]
    BY NewRequestType DEF Init
  <2>2. account \in [Names -> {"absent", "user", "admin", "client"}]
    BY DEF Init
  <2>3. QED
    BY <2>1, <2>2, BoundsType DEF Init, Typed
<1>2. \A r \in Actors : Named(r)
  BY DEF Init, Named, NewRequest
<1>3. Holders = {} /\ Auditors = {}
  BY DEF Init, Holders, Auditors, NewRequest, InFlight, Actors
<1>4. Free = PoolSize
  BY <1>3, FS_EmptySet, BoundsType DEF Free, Holders, Auditors
<1>5. QED
  BY <1>1, <1>2, <1>4, BoundsType DEF TypeInv

\* A step of one actor keeps the types when it keeps its own, writes what has a type, and
\* takes a connection only if one is left.
LEMMA TypeAlone ==
  ASSUME TypeInv, NEW r \in Actors, OnlyMoves(r), Named(r)',
         /\ account' \in [Names -> {"absent", "user", "admin", "client"}]
         /\ audit' \in [Requests -> {"none", "success", "refusal"}]
         /\ created' \subseteq Names \X Actors
         /\ faults' \in 0..MaxFaults,
         \/ /\ r \notin Holders' \/ r \in Holders
            /\ r \notin Auditors' \/ r \in Auditors
         \/ /\ Available
            /\ \/ r \notin Holders' \/ r \in Holders
               \/ r \notin Auditors' \/ r \in Auditors
  PROVE  TypeInv'
<1>1. Typed'
  BY DEF Typed, OnlyMoves
<1>2. \A q \in Actors : Named(q)'
  BY DEF TypeInv, Named, OnlyMoves
<1>3. Free' \in 0..PoolSize
  BY PoolAlone, PoolGains, PoolLends DEF TypeInv
<1>4. QED
  BY <1>1, <1>2, <1>3 DEF TypeInv

\* What a step on its way writes of the tables.
LEMMA TablesType ==
  ASSUME TypeInv, UNCHANGED <<account, audit, created>>, faults' = faults \/ Fault
  PROVE  /\ account' \in [Names -> {"absent", "user", "admin", "client"}]
         /\ audit' \in [Requests -> {"none", "success", "refusal"}]
         /\ created' \subseteq Names \X Actors
         /\ faults' \in 0..MaxFaults
BY BoundsType DEF TypeInv, Typed, Fault

\* Every step keeps the types.
LEMMA TypeNext == TypeInv /\ [Next]_vars => TypeInv'
<1> SUFFICES ASSUME TypeInv, [Next]_vars PROVE TypeInv'
  OBVIOUS
<1>0. Typed /\ \A r \in Actors : Named(r)
  BY DEF TypeInv
<1>1. ASSUME NEW r \in Requests, NEW kind \in Kinds, NEW n \in Names \cup {None}, Begin(r, kind, n)
      PROVE  TypeInv'
  <2>1. /\ req' = [req EXCEPT ![r] = [NewRequest EXCEPT !.pc = "waiting", !.kind = kind, !.name = n]]
        /\ UNCHANGED <<account, audit, created, faults>>
        /\ kind = "register" => n \in Names
        /\ r \in Actors /\ r \notin Seeders
    BY <1>1, ActorsType DEF Begin, Names, Actors
  <2>2. /\ OnlyMoves(r)
        /\ req'[r].pc = "waiting" /\ req'[r].kind = kind /\ req'[r].name = n
        /\ req'[r].inserts = FALSE /\ req'[r].plan = {}
    BY <1>0, <2>1, BeginType
  <2>3. Named(r)'
    BY <2>1, <2>2 DEF Named, Kinds
  <2>4. r \notin Holders' /\ r \notin Auditors'
    BY <2>2 DEF Holders, Auditors
  <2>5. QED
    BY <2>1, <2>2, <2>3, <2>4, TypeAlone, TablesType
<1>2. ASSUME NEW s \in Seeders, NEW plan \in SUBSET {Client, Admin}, SeedBegin(s, plan)
      PROVE  TypeInv'
  <2>1. /\ UNCHANGED <<account, audit, created, faults>>
        /\ s \in Actors /\ s \notin Requests
    BY <1>2, ActorsType DEF SeedBegin, Actors
  <2>2. /\ OnlyMoves(s)
        /\ \/ \E n \in plan : GoesTo(s, plan, n)
           \/ EndsIn(s, plan, "failed") \/ EndsIn(s, plan, "done")
    BY <1>0, <1>2, <2>1, SeedBeginType
  <2>3. Named(s)'
    BY <2>1, <2>2 DEF Named, GoesTo, EndsIn
  <2>4. s \notin Holders' /\ s \notin Auditors'
    BY <2>1 DEF Holders, Auditors
  <2>5. QED
    BY <2>1, <2>2, <2>3, <2>4, TypeAlone, TablesType
<1>3. ASSUME NEW r \in Actors, NEW pc \in {"done", "refused", "denied", "failed"}, End(r, pc),
             r \in Seeders => pc \in {"done", "failed"},
             /\ account' \in [Names -> {"absent", "user", "admin", "client"}]
                 /\ audit' \in [Requests -> {"none", "success", "refusal"}]
             /\ created' \subseteq Names \X Actors
             /\ faults' \in 0..MaxFaults
      PROVE  TypeInv'
  <2>1. /\ OnlyMoves(r) /\ req'[r].pc = pc /\ req'[r].kind = "none"
        /\ req'[r].inserts = FALSE /\ req'[r].plan = {}
    BY <1>0, <1>3, EndType
  <2>2. Named(r)'
    BY <1>3, <2>1 DEF Named
  <2>3. r \notin Holders' /\ r \notin Auditors'
    BY <2>1 DEF Holders, Auditors, InFlight
  <2>4. QED
    BY <1>3, <2>1, <2>2, <2>3, TypeAlone
<1>4. ASSUME NEW r \in Requests, PoolTimeout(r) PROVE TypeInv'
  <2>1. r \in Actors /\ r \notin Seeders
    BY ActorsType DEF Actors
  <2>2. QED
    BY <1>3, <1>4, <2>1, TablesType DEF PoolTimeout
<1>5. ASSUME NEW r \in Actors, Fail(r) PROVE TypeInv'
  BY <1>3, <1>5, TablesType DEF Fail
<1>6. ASSUME NEW r \in Actors, NEW valid \in BOOLEAN, Lookup(r, valid) PROVE TypeInv'
  <2>1. /\ r \in Requests /\ r \notin Seeders
        /\ req[r].pc = "waiting" /\ Available
        /\ UNCHANGED <<account, audit, created, faults>>
    BY <1>6, ActorsType DEF Lookup
  <2>2. CASE End(r, "denied")
    BY <1>3, <2>1, <2>2, TablesType
  <2>3. CASE Accepts(r, valid)
    <3>1. (req[r].kind = "register") \in BOOLEAN
      OBVIOUS
    <3>2. req' = [req EXCEPT ![r] = [@ EXCEPT !.pc = "accepted",
                                             !.inserts = (req[r].kind = "register")]]
      BY <1>6, <2>3 DEF Lookup
    <3>3. /\ OnlyMoves(r)
          /\ req'[r].pc = "accepted" /\ req'[r].inserts = (req[r].kind = "register")
          /\ req'[r].kind = req[r].kind /\ req'[r].name = req[r].name /\ req'[r].plan = req[r].plan
      BY <1>0, <3>1, <3>2, AcceptType
    <3>4. Named(r)'
      BY <1>0, <2>1, <3>3 DEF Named
    <3>5. r \notin Auditors'
      BY <3>3 DEF Auditors
    <3>6. QED
      BY <2>1, <3>3, <3>4, <3>5, TypeAlone, TablesType
  <2>4. CASE Advance(r, "refusing")
    <3>1. /\ OnlyMoves(r)
          /\ req'[r].pc = "refusing" /\ req'[r].kind = req[r].kind /\ req'[r].name = req[r].name
          /\ req'[r].inserts = req[r].inserts /\ req'[r].plan = req[r].plan
      BY <1>0, <2>4, AdvanceType
    <3>2. Named(r)'
      BY <1>0, <2>1, <3>1 DEF Named
    <3>3. r \notin Auditors'
      BY <3>1 DEF Auditors
    <3>4. QED
      BY <2>1, <3>1, <3>2, <3>3, TypeAlone, TablesType
  <2>5. QED
    BY <1>6, <2>2, <2>3, <2>4 DEF Lookup
<1>7. ASSUME NEW r \in Actors, Write(r) PROVE TypeInv'
  <2>1. req[r].pc = "accepted" /\ UNCHANGED <<account, audit, created, faults>>
    BY <1>7 DEF Write
  <2>2. CASE End(r, "failed")
    BY <1>3, <2>1, <2>2, TablesType
  <2>3. CASE Advance(r, "written")
    <3>1. /\ OnlyMoves(r)
          /\ req'[r].pc = "written" /\ req'[r].kind = req[r].kind /\ req'[r].name = req[r].name
          /\ req'[r].inserts = req[r].inserts /\ req'[r].plan = req[r].plan
      BY <1>0, <2>3, AdvanceType
    <3>2. Named(r)'
      BY <1>0, <2>1, <3>1 DEF Named
    <3>3. /\ r \notin Holders' \/ r \in Holders
          /\ r \notin Auditors'
      BY <2>1, <3>1 DEF Holders, Auditors, InFlight
    <3>4. QED
      BY <2>1, <3>1, <3>2, <3>3, TypeAlone, TablesType
  <2>4. QED
    BY <1>7, <2>2, <2>3 DEF Write
<1>8. ASSUME NEW r \in Actors, Commit(r) PROVE TypeInv'
  <2>1. /\ End(r, "done") /\ r \in Requests
        /\ account' = [n \in Names |-> IF <<n, r>> \in Inserted(r) THEN "user" ELSE account[n]]
        /\ audit' = [audit EXCEPT ![r] = "success"]
        /\ created' = created \cup Inserted(r)
        /\ faults' = faults
    BY <1>8 DEF Commit
  <2>2. account' \in [Names -> {"absent", "user", "admin", "client"}]
    BY <1>0, <2>1 DEF Typed
  <2>4. audit' \in [Requests -> {"none", "success", "refusal"}]
    BY <1>0, <2>1 DEF Typed
  <2>5. Inserted(r) \subseteq Names \X Actors
    BY <1>0, SeedNames DEF Inserted, Named
  <2>6. created' \subseteq Names \X Actors
    BY <1>0, <2>1, <2>5 DEF Typed
  <2>7. QED
    BY <1>0, <1>3, <2>1, <2>2, <2>4, <2>6 DEF Typed
<1>9. ASSUME NEW r \in Actors, AuditOpen(r) PROVE TypeInv'
  <2>1. /\ Advance(r, "auditing") /\ req[r].pc = "refusing" /\ Available
        /\ UNCHANGED <<account, audit, created, faults>>
    BY <1>9 DEF AuditOpen
  <2>2. /\ OnlyMoves(r)
        /\ req'[r].pc = "auditing" /\ req'[r].kind = req[r].kind /\ req'[r].name = req[r].name
        /\ req'[r].inserts = req[r].inserts /\ req'[r].plan = req[r].plan
    BY <1>0, <2>1, AdvanceType
  <2>3. Named(r)'
    BY <1>0, <2>1, <2>2 DEF Named
  <2>4. r \notin Holders' \/ r \in Holders
    BY <2>1 DEF Holders, InFlight
  <2>5. QED
    BY <2>1, <2>2, <2>3, <2>4, TypeAlone, TablesType
<1>10. ASSUME NEW r \in Actors, AuditCommit(r) PROVE TypeInv'
  <2>1. /\ Advance(r, "audited") /\ req[r].pc = "auditing"
        /\ audit' = [audit EXCEPT ![r] = "refusal"]
        /\ UNCHANGED <<account, created, faults>>
    BY <1>10 DEF AuditCommit
  <2>2. /\ OnlyMoves(r)
        /\ req'[r].pc = "audited" /\ req'[r].kind = req[r].kind /\ req'[r].name = req[r].name
        /\ req'[r].inserts = req[r].inserts /\ req'[r].plan = req[r].plan
    BY <1>0, <2>1, AdvanceType
  <2>3. Named(r)'
    BY <1>0, <2>1, <2>2 DEF Named
  <2>4. /\ r \notin Holders' \/ r \in Holders
        /\ r \notin Auditors'
    BY <2>1, <2>2 DEF Holders, Auditors, InFlight
  <2>5. audit' \in [Requests -> {"none", "success", "refusal"}]
    BY <1>0, <2>1 DEF Typed
  <2>6. QED
    BY <1>0, <2>1, <2>2, <2>3, <2>4, <2>5, TypeAlone DEF Typed
<1>11. ASSUME NEW r \in Actors, Refuse(r) PROVE TypeInv'
  <2>1. End(r, "refused") /\ UNCHANGED <<account, audit, created, faults>>
    BY <1>11 DEF Refuse
  <2>2. r \notin Seeders
    BY <1>0, <1>11 DEF Refuse, Named
  <2>3. QED
    BY <1>3, <2>1, <2>2, TablesType
<1>12. ASSUME NEW s \in Seeders, s \in Actors, NextSeed(s), req[s].kind = "seed",
              /\ account' \in [Names -> {"absent", "user", "admin", "client"}]
                   /\ audit' \in [Requests -> {"none", "success", "refusal"}]
              /\ created' \subseteq Names \X Actors
              /\ faults' \in 0..MaxFaults
       PROVE  TypeInv'
  <2>1. /\ OnlyMoves(s)
        /\ \/ Admin \in req[s].plan /\ GoesTo(s, req[s].plan, Admin)
           \/ EndsIn(s, req[s].plan, "failed") \/ EndsIn(s, req[s].plan, "done")
    BY <1>0, <1>12, NextSeedType
  <2>2. Named(s)'
    BY <1>0, <1>12, <2>1, ActorsType DEF Named, GoesTo, EndsIn
  <2>3. s \notin Holders' /\ s \notin Auditors'
    BY <1>12, ActorsType DEF Holders, Auditors
  <2>4. QED
    BY <1>12, <2>1, <2>2, <2>3, TypeAlone
<1>13. ASSUME NEW s \in Actors, SeedLookup(s) PROVE TypeInv'
  <2>1. /\ s \in Seeders /\ req[s].kind = "seed" /\ req[s].pc = "waiting"
        /\ UNCHANGED <<account, audit, created, faults>>
    BY <1>0, <1>13 DEF SeedLookup, Named
  <2>2. CASE NextSeed(s)
    BY <1>12, <2>1, <2>2, TablesType
  <2>3. CASE ~NextSeed(s)
    <3>1. /\ (~Found(req[s].name)) \in BOOLEAN
          /\ req' = [req EXCEPT ![s] = [@ EXCEPT !.pc = "accepted", !.inserts = ~Found(req[s].name)]]
      BY <1>13, <2>3 DEF SeedLookup, Found
    <3>2. /\ OnlyMoves(s)
          /\ req'[s].pc = "accepted"
          /\ req'[s].kind = req[s].kind /\ req'[s].name = req[s].name /\ req'[s].plan = req[s].plan
      BY <1>0, <3>1, AcceptType
    <3>3. Named(s)'
      BY <1>0, <2>1, <3>2 DEF Named
    <3>4. s \notin Holders' /\ s \notin Auditors'
      BY <2>1, ActorsType DEF Holders, Auditors
    <3>5. QED
      BY <2>1, <3>2, <3>3, <3>4, TypeAlone, TablesType
  <2>4. QED
    BY <2>2, <2>3
<1>14. ASSUME NEW s \in Actors, SeedCommit(s) PROVE TypeInv'
  <2>1. /\ s \in Seeders /\ req[s].kind = "seed" /\ NextSeed(s)
        /\ account' = [account EXCEPT ![req[s].name] = SeedRole(req[s].name)]
        /\ created' = created \cup Inserted(s)
        /\ UNCHANGED <<audit, faults>>
    BY <1>0, <1>14 DEF SeedCommit, Named
  <2>2. req[s].name \in Names
    BY <1>0, <2>1, SeedNames DEF Named
  <2>3. account' \in [Names -> {"absent", "user", "admin", "client"}]
    BY <1>0, <2>1, <2>2, SeedNames DEF Typed
  <2>4. Inserted(s) \subseteq Names \X Actors
    BY <2>2 DEF Inserted
  <2>5. created' \subseteq Names \X Actors
    BY <1>0, <2>1, <2>4 DEF Typed
  <2>6. QED
    BY <1>0, <1>12, <2>1, <2>3, <2>5 DEF Typed
<1>15. CASE UNCHANGED vars
  <2>1. Holders' = Holders /\ Auditors' = Auditors
    BY <1>15 DEF vars, Holders, Auditors, InFlight
  <2>2. Free' \in 0..PoolSize
    BY <2>1, PoolGains DEF TypeInv
  <2>3. QED
    BY <1>0, <1>15, <2>2 DEF vars, Typed, TypeInv, Named
<1>16. QED
  BY <1>1, <1>2, <1>4, <1>5, <1>6, <1>7, <1>8, <1>9, <1>10, <1>11, <1>13, <1>14, <1>15 DEF Next, Step

\* Every reachable state is well typed, and the API never uses more connections than its
\* pool has, however many requests need two (get_session and _log_audit).
THEOREM TypeCorrect == Spec => []TypeOK
<1>1. TypeInv => TypeOK
  BY DEF TypeInv, Typed, TypeOK
<1>2. QED
  BY <1>1, TypeInit, TypeNext, PTL DEF Spec

-----------------------------------------------------------------------------
(* What keeps the accounts apart and the audit trail true.                  *)

\* What an actor has read or written stays true until it ends.
Fits(r) ==
  LET n == req[r].name IN
  \* The row it inserts is new.
  /\ req[r].pc = "written" /\ req[r].inserts => account[n] = "absent"
  \* The row it promotes is there.
  /\ req[r].kind = "seed" /\ req[r].pc \in {"accepted", "written"} =>
       req[r].inserts \/ account[n] # "absent"
  \* The administrator is seeded after the client, and before the end all it was told.
  /\ req[r].kind = "seed" /\ n = Admin /\ Client \in req[r].plan => account[Client] = "client"
  /\ r \in Seeders /\ req[r].pc = "done" => \A m \in req[r].plan : account[m] = SeedRole(m)

Writing(r, n) == req[r].pc = "written" /\ req[r].inserts /\ req[r].name = n

\* The unique index lets one open transaction at a time insert a name.
OneWriter == \A n \in Names : \A r, q \in Actors : Writing(r, n) /\ Writing(q, n) => r = q

AuditFits(r) ==
  /\ audit[r] = "success" <=> req[r].pc = "done"
  /\ req[r].pc \in {"audited", "refused"} => audit[r] = "refusal"
  /\ audit[r] = "refusal" => req[r].pc \in {"audited", "refused", "failed"}

\* Who inserted a row, inserted one that is there to stay, alone.
CreatedFits ==
  \A n \in Names, r \in Actors : <<n, r>> \in created =>
    /\ account[n] # "absent"
    /\ r \in Requests => req[r].pc = "done"
    /\ \A q \in Actors : <<n, q>> \in created => q = r

AccountInv ==
  /\ \A r \in Actors : Fits(r)
  /\ \A r \in Requests : AuditFits(r)
  /\ OneWriter
  /\ CreatedFits

\* What a step does to the accounts and the audit trail: nothing is taken back.
AccountsLast ==
  /\ \A n \in Names : account[n] # "absent" =>
       \/ account'[n] = account[n]
       \/ n \in {Admin, Client} /\ account'[n] = SeedRole(n)
  /\ created \subseteq created'
  /\ \A r \in Requests : audit[r] # "none" => audit'[r] = audit[r]

\* The initial state satisfies the invariant.
LEMMA AccountInit == Init => AccountInv
<1> SUFFICES ASSUME Init PROVE AccountInv
  OBVIOUS
<1>1. \A r \in Actors : req[r] = NewRequest
  BY DEF Init
<1>2. \A r \in Requests : audit[r] = "none" /\ req[r] = NewRequest
  BY <1>1 DEF Init, Actors
<1>3. \A r \in Actors : Fits(r)
  BY <1>1 DEF Fits, NewRequest
<1>4. \A r \in Requests : AuditFits(r)
  BY <1>2 DEF AuditFits, NewRequest
<1>5. OneWriter /\ CreatedFits
  BY <1>1 DEF Init, OneWriter, Writing, CreatedFits, NewRequest
<1>6. QED
  BY <1>3, <1>4, <1>5 DEF AccountInv

\* What a request about to commit writes of the accounts: its own new row.
LEMMA CommitWrites ==
  ASSUME TypeInv, AccountInv, NEW r \in Requests, Commit(r)
  PROVE  /\ account' \in [Names -> {"absent", "user", "admin", "client"}]
         /\ \A n \in Names : Writing(r, n) => account[n] = "absent" /\ account'[n] = "user"
         /\ \A n \in Names : ~Writing(r, n) => account'[n] = account[n]
         /\ \A n \in Names, q \in Actors :
              <<n, q>> \in created' <=> <<n, q>> \in created \/ (q = r /\ Writing(r, n))
<1>1. /\ account' = [n \in Names |-> IF <<n, r>> \in Inserted(r) THEN "user" ELSE account[n]]
      /\ created' = created \cup Inserted(r)
      /\ req[r].pc = "written"
  BY DEF Commit
<1>2. r \in Actors /\ Fits(r)
  BY DEF Actors, AccountInv
<1>3. \A n \in Names, q \in Actors : <<n, q>> \in Inserted(r) <=> q = r /\ Writing(r, n)
  BY <1>1 DEF Inserted, Writing
<1>4. \A n \in Names : Writing(r, n) => account[n] = "absent"
  BY <1>2 DEF Fits, Writing
<1>5. QED
  BY <1>1, <1>2, <1>3, <1>4 DEF TypeInv, Typed

\* What a seeder about to commit writes of the accounts: the row of its name.
LEMMA SeedCommitWrites ==
  ASSUME TypeInv, AccountInv, NEW s \in Seeders, SeedCommit(s)
  PROVE  LET n == req[s].name IN
         /\ n \in {Admin, Client} /\ n \in Names /\ s \in Actors /\ s \notin Requests
         /\ req[s].kind = "seed"
         /\ account'[n] = SeedRole(n)
         /\ \A m \in Names \ {n} : account'[m] = account[m]
         /\ Writing(s, n) \/ account[n] # "absent"
         /\ Writing(s, n) => account[n] = "absent"
         /\ \A m \in Names, q \in Actors :
              <<m, q>> \in created' <=> <<m, q>> \in created \/ (q = s /\ Writing(s, m))
<1>1. /\ req[s].pc = "written" /\ s \in Actors /\ s \notin Requests
      /\ account' = [account EXCEPT ![req[s].name] = SeedRole(req[s].name)]
      /\ created' = created \cup Inserted(s)
  BY ActorsType DEF SeedCommit, Actors
<1>2. req[s].kind = "seed" /\ req[s].name \in {Admin, Client} /\ req[s].name \in Names
  BY <1>1, SeedNames DEF TypeInv, Named
<1>3. Fits(s)
  BY <1>1 DEF AccountInv
<1>4. \A m \in Names, q \in Actors : <<m, q>> \in Inserted(s) <=> q = s /\ Writing(s, m)
  BY <1>1 DEF Inserted, Writing
<1>5. /\ Writing(s, req[s].name) \/ account[req[s].name] # "absent"
      /\ Writing(s, req[s].name) => account[req[s].name] = "absent"
  BY <1>1, <1>2, <1>3 DEF Fits, Writing
<1>6. QED
  BY <1>1, <1>2, <1>4, <1>5 DEF TypeInv, Typed

\* No step takes back an account or what the audit trail says.
LEMMA StepKeepsAccounts == TypeInv /\ AccountInv /\ [Next]_vars => AccountsLast
<1> SUFFICES ASSUME TypeInv, AccountInv, [Next]_vars PROVE AccountsLast
  OBVIOUS
<1>1. CASE UNCHANGED <<account, audit, created>>
  BY <1>1 DEF AccountsLast
<1>2. ASSUME NEW r \in Actors, AuditCommit(r) PROVE AccountsLast
  <2>1. /\ req[r].pc = "auditing" /\ audit' = [audit EXCEPT ![r] = "refusal"]
        /\ UNCHANGED <<account, created>>
    BY <1>2 DEF AuditCommit
  <2>2. r \in Requests => audit[r] = "none"
    BY <2>1 DEF AccountInv, AuditFits, TypeInv, Typed
  <2>3. \A q \in Requests : audit[q] # "none" => audit'[q] = audit[q]
    BY <2>1, <2>2 DEF TypeInv, Typed
  <2>4. QED
    BY <2>1, <2>3 DEF AccountsLast
<1>3. ASSUME NEW r \in Requests, Commit(r) PROVE AccountsLast
  <2>1. audit[r] = "none"
    BY <1>3 DEF Commit, AccountInv, AuditFits, TypeInv, Typed
  <2>2. \A q \in Requests : audit[q] # "none" => audit'[q] = audit[q]
    BY <1>3, <2>1 DEF Commit, TypeInv, Typed
  <2>3. \A n \in Names : account[n] # "absent" => account'[n] = account[n]
    BY <1>3, CommitWrites
  <2>4. created \subseteq created'
    BY <1>3 DEF Commit
  <2>5. QED
    BY <2>2, <2>3, <2>4 DEF AccountsLast
<1>4. ASSUME NEW s \in Seeders, SeedCommit(s) PROVE AccountsLast
  <2>1. UNCHANGED audit /\ created \subseteq created'
    BY <1>4 DEF SeedCommit
  <2>2. QED
    BY <1>4, <2>1, SeedCommitWrites DEF AccountsLast
<1>5. QED
  BY <1>1, <1>2, <1>3, <1>4
  DEF Next, Step, vars, Begin, SeedBegin, PoolTimeout, Lookup, Write, Commit, AuditOpen, Refuse,
      SeedLookup, SeedCommit, Fail

\* What an actor waits with stays true while the others move.
LEMMA FitsStays ==
  ASSUME TypeInv, AccountsLast, NEW q \in Actors, req'[q] = req[q], Fits(q),
         \A n \in Names : Writing(q, n) => account'[n] = account[n]
  PROVE  Fits(q)'
<1> DEFINE n == req[q].name
<1>1. Named(q)
  BY DEF TypeInv
<1>2. \A m \in {Admin, Client} : account[m] = SeedRole(m) => account'[m] = SeedRole(m)
  BY SeedNames DEF AccountsLast
<1>3. n \in Names /\ account[n] # "absent" => account'[n] # "absent"
  BY SeedNames DEF AccountsLast
<1>4. req[q].pc = "written" /\ req[q].inserts => account'[n] = "absent"
  BY <1>1, SeedNames DEF Named, Fits, Writing
<1>5. req[q].kind = "seed" /\ req[q].pc \in {"accepted", "written"} =>
        req[q].inserts \/ account'[n] # "absent"
  BY <1>1, <1>3, SeedNames DEF Named, Fits
<1>6. /\ req[q].kind = "seed" /\ n = Admin /\ Client \in req[q].plan => account'[Client] = "client"
      /\ q \in Seeders /\ req[q].pc = "done" =>
           \A m \in req[q].plan : account'[m] = SeedRole(m)
  BY <1>1, <1>2, SeedNames DEF Named, Fits
<1>7. QED
  BY <1>4, <1>5, <1>6 DEF Fits

\* A step that writes no account keeps the invariant, if what it says of its own actor is
\* true and it inserts a name nobody else is inserting.
LEMMA QuietStep ==
  ASSUME TypeInv, AccountInv, AccountsLast, NEW r \in Actors, OnlyMoves(r),
         UNCHANGED <<account, created>>, Fits(r)',
         \A q \in Requests : q # r => audit'[q] = audit[q],
         r \in Requests => AuditFits(r)' /\ (req[r].pc = "done" => req'[r].pc = "done"),
         \A n \in Names : Writing(r, n)' => Writing(r, n) \/ ~Inserting(n)
  PROVE  AccountInv'
<1>1. \A q \in Actors : Fits(q)'
  BY FitsStays DEF AccountInv, OnlyMoves
<1>2. \A q \in Requests : AuditFits(q)'
  BY DEF AccountInv, AuditFits, OnlyMoves, Actors
<1>3. OneWriter'
  <2> SUFFICES ASSUME NEW n \in Names, NEW p \in Actors, NEW q \in Actors,
                      Writing(p, n)', Writing(q, n)'
               PROVE  p = q
    BY DEF OneWriter
  <2>1. \A a \in Actors \ {r} : Writing(a, n)' <=> Writing(a, n)
    BY DEF Writing, OnlyMoves
  <2>2. \A a \in Actors : Writing(a, n) => Inserting(n)
    BY DEF Writing, Inserting
  <2>3. QED
    BY <2>1, <2>2 DEF AccountInv, OneWriter
<1>4. CreatedFits'
  BY DEF AccountInv, CreatedFits, OnlyMoves
<1>5. QED
  BY <1>1, <1>2, <1>3, <1>4 DEF AccountInv

\* The same for a step that leaves the audit trail alone, too.
LEMMA QuieterStep ==
  ASSUME TypeInv, AccountInv, AccountsLast, NEW r \in Actors, OnlyMoves(r),
         UNCHANGED <<account, audit, created>>, Fits(r)',
         req[r].pc \notin {"done", "failed"},
         req'[r].pc # "done" \/ r \notin Requests,
         req'[r].pc \in {"audited", "refused"} => req[r].pc = "audited",
         req[r].pc \in {"audited", "refused"} => req'[r].pc \in {"refused", "failed"},
         \A n \in Names : Writing(r, n)' => Writing(r, n) \/ ~Inserting(n)
  PROVE  AccountInv'
<1>1. ASSUME r \in Requests PROVE AuditFits(r)'
  <2>1. AuditFits(r)
    BY <1>1 DEF AccountInv
  <2>2. audit'[r] = audit[r] /\ req'[r].pc # "done" /\ audit[r] # "success"
    BY <1>1, <2>1 DEF AuditFits
  <2>3. /\ audit[r] = "refusal" => req'[r].pc \in {"audited", "refused", "failed"}
        /\ req'[r].pc \in {"audited", "refused"} => audit[r] = "refusal"
    BY <1>1, <2>1 DEF AuditFits
  <2>4. QED
    BY <2>2, <2>3 DEF AuditFits
<1>2. QED
  BY <1>1, QuietStep

\* Every step keeps the invariant.
LEMMA AccountNext == TypeInv /\ TypeInv' /\ AccountInv /\ [Next]_vars => AccountInv'
<1> SUFFICES ASSUME TypeInv, TypeInv', AccountInv, [Next]_vars PROVE AccountInv'
  OBVIOUS
<1>0. /\ Typed /\ AccountsLast
      /\ \A r \in Actors : Named(r) /\ Fits(r)
      /\ \A r \in Requests : r \in Actors /\ r \notin Seeders
      /\ \A s \in Seeders : s \in Actors /\ s \notin Requests
  BY StepKeepsAccounts, ActorsType DEF TypeInv, AccountInv, Actors
<1>1. ASSUME NEW r \in Requests, NEW kind \in Kinds, NEW n \in Names \cup {None}, Begin(r, kind, n)
      PROVE  AccountInv'
  <2>1. /\ req' = [req EXCEPT ![r] = [NewRequest EXCEPT !.pc = "waiting", !.kind = kind, !.name = n]]
        /\ UNCHANGED <<account, audit, created>> /\ req[r].pc = "ready"
    BY <1>1 DEF Begin
  <2>2. OnlyMoves(r) /\ req'[r].pc = "waiting" /\ req'[r].kind = kind /\ kind # "seed"
    BY <1>0, <2>1, BeginType DEF Kinds
  <2>3. Fits(r)'
    BY <1>0, <2>2 DEF Fits
  <2>4. QED
    BY <1>0, <2>1, <2>2, <2>3, QuieterStep DEF Writing
<1>2. ASSUME NEW s \in Seeders, NEW plan \in SUBSET {Client, Admin}, SeedBegin(s, plan)
      PROVE  AccountInv'
  <2>1. /\ UNCHANGED <<account, audit, created>> /\ req[s].pc = "ready"
        /\ s \in Actors /\ s \notin Requests /\ Typed
    BY <1>0, <1>2 DEF SeedBegin
  <2>2. /\ OnlyMoves(s)
        /\ \/ Client \in plan /\ GoesTo(s, plan, Client)
           \/ Client \notin plan /\ Admin \in plan /\ GoesTo(s, plan, Admin)
           \/ EndsIn(s, plan, "failed")
           \/ plan = {} /\ EndsIn(s, plan, "done")
    BY <1>2, <2>1, SeedBeginType
  <2>3. Fits(s)'
    BY <2>2, SeedNames DEF Fits, GoesTo, EndsIn
  <2>4. req'[s].pc \in {"waiting", "failed", "done"}
    BY <2>2 DEF GoesTo, EndsIn
  <2>5. QED
    BY <1>0, <2>1, <2>2, <2>3, <2>4, QuieterStep DEF Writing
<1>3. ASSUME NEW r \in Actors, NEW pc \in {"refused", "denied", "failed"}, End(r, pc),
             UNCHANGED <<account, audit, created>>,
             req[r].pc \notin {"done", "failed"},
             pc = "refused" => req[r].pc = "audited",
             req[r].pc # "refused", req[r].pc = "audited" => pc # "denied"
      PROVE  AccountInv'
  <2>1. OnlyMoves(r) /\ req'[r].pc = pc /\ req'[r].kind = "none"
    BY <1>0, <1>3, EndType
  <2>2. Fits(r)'
    BY <1>3, <2>1 DEF Fits
  <2>3. QED
    BY <1>0, <1>3, <2>1, <2>2, QuieterStep DEF Writing
<1>4. ASSUME NEW r \in Requests, PoolTimeout(r) PROVE AccountInv'
  BY <1>0, <1>3, <1>4 DEF PoolTimeout
<1>5. ASSUME NEW r \in Actors, Fail(r) PROVE AccountInv'
  BY <1>3, <1>5 DEF Fail, InFlight
<1>6. ASSUME NEW r \in Actors, NEW valid \in BOOLEAN, Lookup(r, valid) PROVE AccountInv'
  <2>1. /\ r \in Requests /\ req[r].pc = "waiting" /\ req[r].kind # "seed"
        /\ UNCHANGED <<account, audit, created>>
    BY <1>0, <1>6 DEF Lookup, Named
  <2>2. CASE End(r, "denied")
    BY <1>3, <2>1, <2>2
  <2>3. CASE Accepts(r, valid)
    <3>1. /\ (req[r].kind = "register") \in BOOLEAN
          /\ req' = [req EXCEPT ![r] = [@ EXCEPT !.pc = "accepted",
                                                !.inserts = (req[r].kind = "register")]]
      BY <1>6, <2>3 DEF Lookup
    <3>2. OnlyMoves(r) /\ req'[r].pc = "accepted" /\ req'[r].kind = req[r].kind
      BY <1>0, <3>1, AcceptType
    <3>3. Fits(r)'
      BY <2>1, <3>2 DEF Fits
    <3>4. QED
      BY <1>0, <2>1, <3>2, <3>3, QuieterStep DEF Writing
  <2>4. CASE Advance(r, "refusing")
    <3>1. /\ OnlyMoves(r)
          /\ req'[r].pc = "refusing" /\ req'[r].kind = req[r].kind /\ req'[r].name = req[r].name
      BY <1>0, <2>4, AdvanceType
    <3>2. Fits(r)'
      BY <2>1, <3>1 DEF Fits
    <3>3. QED
      BY <1>0, <2>1, <3>1, <3>2, QuieterStep DEF Writing
  <2>5. QED
    BY <1>6, <2>2, <2>3, <2>4 DEF Lookup
<1>7. ASSUME NEW r \in Actors, Write(r) PROVE AccountInv'
  <2>1. /\ req[r].pc = "accepted" /\ UNCHANGED <<account, audit, created>>
        /\ req[r].inserts => ~Inserting(req[r].name)
    BY <1>7 DEF Write
  <2>2. CASE End(r, "failed")
    BY <1>3, <2>1, <2>2
  <2>3. CASE Advance(r, "written") /\ ~Violates(r)
    <3>1. /\ OnlyMoves(r)
          /\ req'[r].pc = "written" /\ req'[r].kind = req[r].kind /\ req'[r].name = req[r].name
          /\ req'[r].inserts = req[r].inserts /\ req'[r].plan = req[r].plan
      BY <1>0, <2>3, AdvanceType
    <3>2. Fits(r)'
      <4>1. req[r].inserts => account[req[r].name] = "absent"
        BY <2>3 DEF Violates, Indexed
      <4>2. Fits(r)
        BY <1>0
      <4>3. QED
        BY <2>1, <3>1, <4>1, <4>2 DEF Fits
    <3>3. \A n \in Names : Writing(r, n)' => ~Inserting(n)
      BY <2>1, <3>1 DEF Writing
    <3>4. QED
      BY <1>0, <2>1, <3>1, <3>2, <3>3, QuieterStep
  <2>4. QED
    BY <1>7, <2>2, <2>3 DEF Write
<1>8. ASSUME NEW r \in Actors, AuditOpen(r) PROVE AccountInv'
  <2>1. /\ Advance(r, "auditing") /\ req[r].pc = "refusing"
        /\ UNCHANGED <<account, audit, created>>
    BY <1>8 DEF AuditOpen
  <2>2. /\ OnlyMoves(r)
        /\ req'[r].pc = "auditing" /\ req'[r].kind = req[r].kind /\ req'[r].name = req[r].name
        /\ req'[r].plan = req[r].plan
    BY <1>0, <2>1, AdvanceType
  <2>3. Fits(r) /\ Named(r)
    BY <1>0
  <2>4. Fits(r)'
    BY <2>1, <2>2, <2>3 DEF Fits
  <2>5. QED
    BY <1>0, <2>1, <2>2, <2>4, QuieterStep DEF Writing
<1>9. ASSUME NEW r \in Actors, AuditCommit(r) PROVE AccountInv'
  <2>1. /\ Advance(r, "audited") /\ req[r].pc = "auditing"
        /\ audit' = [audit EXCEPT ![r] = "refusal"]
        /\ UNCHANGED <<account, created>>
    BY <1>9 DEF AuditCommit
  <2>2. /\ OnlyMoves(r)
        /\ req'[r].pc = "audited" /\ req'[r].kind = req[r].kind /\ req'[r].name = req[r].name
        /\ req'[r].plan = req[r].plan
    BY <1>0, <2>1, AdvanceType
  <2>3. Fits(r)
    BY <1>0
  <2>4. Fits(r)'
    BY <2>1, <2>2, <2>3 DEF Fits
  <2>5. /\ \A q \in Requests : q # r => audit'[q] = audit[q]
        /\ r \in Requests => audit'[r] = "refusal"
    BY <1>0, <2>1 DEF Typed
  <2>6. r \in Requests => AuditFits(r)'
    BY <2>2, <2>5 DEF AuditFits
  <2>7. QED
    BY <1>0, <2>1, <2>2, <2>4, <2>5, <2>6, QuietStep DEF Writing
<1>10. ASSUME NEW r \in Actors, Refuse(r) PROVE AccountInv'
  BY <1>3, <1>10 DEF Refuse
<1>11. ASSUME NEW s \in Actors, SeedLookup(s) PROVE AccountInv'
  <2>1. /\ s \in Seeders /\ s \notin Requests /\ Named(s)
        /\ req[s].kind = "seed" /\ req[s].pc = "waiting"
        /\ req[s].name \in req[s].plan /\ req[s].plan \subseteq {Client, Admin}
        /\ UNCHANGED <<account, audit, created>>
    BY <1>0, <1>11 DEF SeedLookup, Named
  <2>2. CASE NextSeed(s) /\ Seeded(req[s].name)
    <3>1. /\ OnlyMoves(s)
          /\ \/ /\ req[s].name = Client
                /\ \/ GoesTo(s, req[s].plan, Admin)
                   \/ EndsIn(s, req[s].plan, "failed")
                   \/ Admin \notin req[s].plan /\ EndsIn(s, req[s].plan, "done")
             \/ req[s].name = Admin /\ EndsIn(s, req[s].plan, "done")
      BY <1>0, <2>1, <2>2, NextSeedType
    <3>2. account[req[s].name] = SeedRole(req[s].name)
      BY <2>2 DEF Seeded
    <3>3. req[s].name = Admin /\ Client \in req[s].plan => account[Client] = "client"
      BY <1>0, <2>1 DEF Fits
    <3>4. Fits(s)'
      BY <2>1, <3>1, <3>2, <3>3, SeedNames DEF Fits, GoesTo, EndsIn
    <3>5. QED
      BY <1>0, <2>1, <3>1, <3>4, QuieterStep DEF Writing, GoesTo, EndsIn
  <2>3. CASE ~(NextSeed(s) /\ Seeded(req[s].name))
    <3>1. /\ (~Found(req[s].name)) \in BOOLEAN
          /\ req' = [req EXCEPT ![s] = [@ EXCEPT !.pc = "accepted", !.inserts = ~Found(req[s].name)]]
      BY <1>11, <2>3 DEF SeedLookup, Found
    <3>2. /\ OnlyMoves(s)
          /\ req'[s].pc = "accepted" /\ req'[s].inserts = (~Found(req[s].name))
          /\ req'[s].kind = req[s].kind /\ req'[s].name = req[s].name
          /\ req'[s].plan = req[s].plan
      BY <1>0, <3>1, AcceptType
    <3>3. req'[s].inserts \/ account[req[s].name] # "absent"
      BY <3>2 DEF Found
    <3>4. req[s].name = Admin /\ Client \in req[s].plan => account[Client] = "client"
      BY <1>0, <2>1 DEF Fits
    <3>5. Fits(s)'
      BY <2>1, <3>2, <3>3, <3>4 DEF Fits
    <3>6. QED
      BY <1>0, <2>1, <3>2, <3>5, QuieterStep DEF Writing
  <2>4. QED
    BY <2>2, <2>3
<1>12. ASSUME NEW r \in Requests, Commit(r) PROVE AccountInv'
  <2>1. /\ End(r, "done") /\ req[r].pc = "written"
        /\ audit' = [audit EXCEPT ![r] = "success"]
    BY <1>12 DEF Commit
  <2>2. OnlyMoves(r) /\ req'[r].pc = "done" /\ req'[r].kind = "none" /\ req'[r].inserts = FALSE
    BY <1>0, <2>1, EndType
  <2>3. /\ \A n \in Names : Writing(r, n) => account[n] = "absent" /\ account'[n] = "user"
        /\ \A n \in Names : ~Writing(r, n) => account'[n] = account[n]
        /\ \A n \in Names, q \in Actors :
             <<n, q>> \in created' <=> <<n, q>> \in created \/ (q = r /\ Writing(r, n))
    BY <1>12, CommitWrites
  <2>4. \A q \in Actors : Fits(q)'
    <3>1. Fits(r)'
      BY <1>0, <2>2 DEF Fits
    <3>2. ASSUME NEW q \in Actors, q # r PROVE Fits(q)'
      <4>1. \A n \in Names : Writing(q, n) => account'[n] = account[n]
        BY <1>0, <2>3, <3>2 DEF AccountInv, OneWriter
      <4>2. QED
        BY <1>0, <2>2, <3>2, <4>1, FitsStays DEF OnlyMoves
    <3>3. QED
      BY <3>1, <3>2
  <2>5. \A q \in Requests : AuditFits(q)'
    <3>1. audit'[r] = "success" /\ \A q \in Requests \ {r} : audit'[q] = audit[q]
      BY <1>0, <2>1 DEF Typed
    <3>2. QED
      BY <1>0, <2>2, <3>1 DEF AccountInv, AuditFits, OnlyMoves
  <2>6. OneWriter'
    BY <2>2 DEF AccountInv, OneWriter, Writing, OnlyMoves
  <2>7. CreatedFits'
    <3> SUFFICES ASSUME NEW n \in Names, NEW q \in Actors, <<n, q>> \in created'
                 PROVE  /\ account'[n] # "absent"
                        /\ q \in Requests => req'[q].pc = "done"
                        /\ \A p \in Actors : <<n, p>> \in created' => p = q
      BY DEF CreatedFits
    <3>1. CASE <<n, q>> \in created
      <4>1. account[n] # "absent" /\ ~Writing(r, n)
        BY <2>3, <3>1 DEF AccountInv, CreatedFits
      <4>2. q \in Requests => req'[q].pc = "done"
        BY <2>2, <3>1 DEF AccountInv, CreatedFits, OnlyMoves
      <4>3. QED
        BY <2>3, <3>1, <4>1, <4>2 DEF AccountInv, CreatedFits
    <3>2. CASE q = r /\ Writing(r, n)
      <4>1. account'[n] # "absent" /\ \A p \in Actors : <<n, p>> \notin created
        BY <2>3, <3>2 DEF AccountInv, CreatedFits
      <4>2. QED
        BY <2>2, <2>3, <3>2, <4>1
    <3>3. QED
      BY <2>3, <3>1, <3>2
  <2>8. QED
    BY <2>4, <2>5, <2>6, <2>7 DEF AccountInv
<1>13. ASSUME NEW s \in Seeders, SeedCommit(s) PROVE AccountInv'
  <2>1. PICK n \in {Admin, Client} :
          /\ n = req[s].name /\ n \in Names /\ s \in Actors /\ s \notin Requests
          /\ req[s].kind = "seed"
          /\ account'[n] = SeedRole(n)
          /\ \A m \in Names \ {n} : account'[m] = account[m]
          /\ Writing(s, n) \/ account[n] # "absent"
          /\ Writing(s, n) => account[n] = "absent"
          /\ \A m \in Names, q \in Actors :
               <<m, q>> \in created' <=> <<m, q>> \in created \/ (q = s /\ Writing(s, m))
    BY <1>13, SeedCommitWrites
  <2>2. NextSeed(s) /\ UNCHANGED audit /\ req[s].pc = "written"
    BY <1>13 DEF SeedCommit
  <2>3. /\ OnlyMoves(s)
        /\ \/ /\ n = Client
              /\ \/ GoesTo(s, req[s].plan, Admin)
                 \/ EndsIn(s, req[s].plan, "failed")
                 \/ Admin \notin req[s].plan /\ EndsIn(s, req[s].plan, "done")
           \/ n = Admin /\ EndsIn(s, req[s].plan, "done")
    BY <1>0, <2>1, <2>2, NextSeedType
  <2>4. \A q \in Actors : Fits(q)'
    <3>1. Fits(s)'
      <4>1. n = Admin /\ Client \in req[s].plan => account'[Client] = "client"
        BY <1>0, <2>1, SeedNames DEF Fits
      <4>2. req[s].plan \subseteq {Client, Admin}
        BY <1>0, <2>1 DEF Named
      <4>3. QED
        BY <2>1, <2>3, <4>1, <4>2, SeedNames DEF Fits, GoesTo, EndsIn
    <3>2. ASSUME NEW q \in Actors, q # s PROVE Fits(q)'
      <4>1. ASSUME Writing(q, n) PROVE FALSE
        <5>1. account[n] = "absent"
          BY <1>0, <4>1 DEF Fits, Writing
        <5>2. QED
          BY <2>1, <3>2, <4>1, <5>1 DEF AccountInv, OneWriter
      <4>2. \A m \in Names : Writing(q, m) => account'[m] = account[m]
        BY <2>1, <4>1
      <4>3. QED
        BY <1>0, <2>3, <3>2, <4>2, FitsStays DEF OnlyMoves
    <3>3. QED
      BY <3>1, <3>2
  <2>5. \A q \in Requests : AuditFits(q)'
    BY <1>0, <2>1, <2>2, <2>3 DEF AccountInv, AuditFits, OnlyMoves
  <2>6. OneWriter'
    BY <2>3 DEF AccountInv, OneWriter, Writing, OnlyMoves, GoesTo, EndsIn
  <2>7. account'[n] # "absent"
    BY <2>1, SeedNames
  <2>8. CreatedFits'
    <3> SUFFICES ASSUME NEW m \in Names, NEW q \in Actors, <<m, q>> \in created'
                 PROVE  /\ account'[m] # "absent"
                        /\ q \in Requests => req'[q].pc = "done"
                        /\ \A p \in Actors : <<m, p>> \in created' => p = q
      BY DEF CreatedFits
    <3>0. Writing(s, m) => m = n
      BY <2>1 DEF Writing
    <3>1. CASE <<m, q>> \in created
      <4>1. account[m] # "absent" /\ ~Writing(s, m)
        BY <2>1, <3>0, <3>1 DEF AccountInv, CreatedFits
      <4>2. account'[m] # "absent"
        BY <2>1, <2>7, <4>1
      <4>3. q \in Requests => req'[q].pc = "done"
        BY <2>1, <2>3, <3>1 DEF AccountInv, CreatedFits, OnlyMoves
      <4>4. QED
        BY <2>1, <3>1, <4>1, <4>2, <4>3 DEF AccountInv, CreatedFits
    <3>2. CASE q = s /\ Writing(s, m)
      <4>1. account'[m] # "absent" /\ \A p \in Actors : <<m, p>> \notin created
        BY <2>1, <2>7, <3>0, <3>2 DEF AccountInv, CreatedFits
      <4>2. QED
        BY <2>1, <3>2, <4>1
    <3>3. QED
      BY <2>1, <3>1, <3>2
  <2>9. QED
    BY <2>4, <2>5, <2>6, <2>8 DEF AccountInv
<1>14. CASE UNCHANGED vars
  <2>1. \A q \in Actors : Fits(q)'
    BY <1>0, <1>14, FitsStays DEF vars
  <2>2. QED
    BY <1>14, <2>1
    DEF vars, AccountInv, AuditFits, OneWriter, Writing, CreatedFits
<1>15. QED
  BY <1>0, <1>1, <1>2, <1>4, <1>5, <1>6, <1>7, <1>8, <1>9, <1>10, <1>11, <1>12, <1>13, <1>14
  DEF Next, Step, Commit, SeedCommit

\* So it holds of every reachable state.
LEMMA AccountHolds == Spec => [](TypeInv /\ AccountInv)
BY TypeInit, TypeNext, AccountInit, AccountNext, PTL DEF Spec

-----------------------------------------------------------------------------
(* The theorems.                                                            *)

\* One account per address and client id, however many transactions of register_user and
\* of the seeds have found the name free: the unique index makes the last one wait.
THEOREM OneAccountPerNameHolds == Spec => []OneAccountPerName
<1>1. TypeInv /\ AccountInv => OneAccountPerName
  <2> SUFFICES ASSUME TypeInv, AccountInv, NEW c \in created, NEW d \in created, c[1] = d[1]
               PROVE  c = d
    BY DEF OneAccountPerName
  <2>1. PICK n \in Names, r \in Actors, q \in Actors : c = <<n, r>> /\ d = <<n, q>>
    BY DEF TypeInv, Typed
  <2>2. r = q
    BY <2>1 DEF AccountInv, CreatedFits
  <2>3. QED
    BY <2>1, <2>2
<1>2. QED
  BY <1>1, AccountHolds, PTL

\* The audit row of an answered refusal outlives the rollback of its request.
THEOREM RefusalsAreAuditedHolds == Spec => []RefusalsAreAudited
<1>1. AccountInv => RefusalsAreAudited
  BY DEF AccountInv, AuditFits, RefusalsAreAudited
<1>2. QED
  BY <1>1, AccountHolds, PTL

\* An audited success was committed, and an audited refusal created nothing.
THEOREM AuditIsTrueHolds == Spec => []AuditIsTrue
<1>1. AccountInv => AuditIsTrue
  BY DEF AccountInv, AuditFits, CreatedFits, AuditIsTrue, Actors
<1>2. QED
  BY <1>1, AccountHolds, PTL

\* What a finished seed was told to create is there, with its role, and nobody takes it
\* back, other seeders and registrations of the administrator's address included.
THEOREM SeededForGoodHolds == Spec => []SeededForGood
<1>1. AccountInv => SeededForGood
  BY DEF AccountInv, Fits, SeededForGood, Actors
<1>2. QED
  BY <1>1, AccountHolds, PTL

\* No step takes back an account or an audit row, and no role but those of
\* the seeded names ever changes.
THEOREM AccountsLastAlways == Spec => [][AccountsLast]_vars
<1>1. TypeInv /\ AccountInv /\ [Next]_vars => AccountsLast
  BY StepKeepsAccounts
<1>2. QED
  BY <1>1, AccountHolds, PTL DEF Spec

-----------------------------------------------------------------------------
(* Who can wait for whom.                                                   *)

\* The guard of Step(r): a connection and another's insert are all it may wait for.
MayStep(r) ==
  \/ req[r].pc \in {"written", "auditing", "audited"}
  \/ req[r].pc = "accepted" /\ (req[r].inserts => ~Inserting(req[r].name))
  \/ req[r].pc = "waiting" /\ (r \in Requests => Available)
  \/ req[r].pc = "refusing" /\ Available

\* OnlyRefusalsStall without ENABLED.
OnlyRefusalsWait ==
  (\E r \in Actors : InFlight(r)) /\ (\A r \in Actors : ~MayStep(r)) =>
    Cardinality({r \in Requests : req[r].pc = "refusing"}) = PoolSize

\* MayStep leaves out no step the code could take.
LEMMA StepsMayStep == ASSUME NEW r \in Actors, Step(r) PROVE MayStep(r)
BY ActorsType DEF Step, Lookup, Write, Commit, AuditOpen, AuditCommit, Refuse, SeedLookup, SeedCommit,
       MayStep

\* With the pool as large as its loans, those who wait for a connection wait for
\* requests that hold one and ask for another: all of them are being refused.
LEMMA WaitersFillThePool == TypeInv => OnlyRefusalsWait
<1> SUFFICES ASSUME TypeInv, \E r \in Actors : InFlight(r), \A r \in Actors : ~MayStep(r)
             PROVE  Cardinality({r \in Requests : req[r].pc = "refusing"}) = PoolSize
  BY DEF OnlyRefusalsWait
\* Who has inserted goes on, so nobody waits for an insert.
<1>1. \A r \in Actors : req[r].pc \notin {"written", "auditing", "audited"}
  BY DEF MayStep
<1>2. \A r \in Actors : req[r].pc # "accepted"
  BY <1>1 DEF MayStep, Inserting
\* A seed waits for nothing else.
<1>3. \A s \in Seeders : ~InFlight(s)
  <2> SUFFICES ASSUME NEW s \in Seeders, InFlight(s) PROVE FALSE
    OBVIOUS
  <2>1. s \in Actors /\ s \notin Requests
    BY ActorsType DEF Actors
  <2>2. req[s].pc \in {"waiting", "accepted", "written"}
    BY <2>1 DEF TypeInv, Named, InFlight
  <2>3. QED
    BY <1>1, <1>2, <2>1, <2>2 DEF MayStep
<1>4. PICK r \in Requests : req[r].pc \in {"waiting", "refusing"}
  BY <1>1, <1>2, <1>3 DEF InFlight, Actors
<1>5. Free = 0
  <2>1. ~Available
    BY <1>4 DEF MayStep, Actors
  <2>2. QED
    BY <2>1, BoundsType DEF Available, TypeInv
<1>6. Holders = {q \in Requests : req[q].pc = "refusing"}
  BY <1>1, <1>2 DEF Holders, InFlight, Actors
<1>7. Cardinality(Auditors) = 0
  <2>1. Auditors = {}
    BY <1>1 DEF Auditors, Actors
  <2>2. QED
    BY <2>1, FS_EmptySet
<1>8. QED
  BY <1>5, <1>6, <1>7, InUse, BoundsType DEF PoolInUse

\* The only circle of waits the code can reach is a pool full of requests being refused
\* (_log_audit opens a second session, auth_service.py:49): whatever the number of
\* requests, seeds and connections, anything else in flight has a guard that holds.
THEOREM OnlyRefusalsWaitHolds == Spec => []OnlyRefusalsWait
BY TypeInit, TypeNext, WaitersFillThePool, PTL DEF Spec

-----------------------------------------------------------------------------
(* Nobody goes round in circles.                                            *)

\* The steps an actor may still take at most: a refusal has four, and a seed is at the
\* client first and then at the administrator.
StepsLeft(r) ==
  (CASE req[r].pc = "ready"                     -> 9
     [] req[r].pc = "waiting"                   -> 4
     [] req[r].pc = "refusing"                  -> 3
     [] req[r].pc \in {"accepted", "auditing"}  -> 2
     [] req[r].pc \in {"written", "audited"}    -> 1
     [] OTHER                                   -> 0)
  + IF req[r].kind = "seed" /\ req[r].name = Client THEN 4 ELSE 0

\* A step is the step of one actor, and brings it nearer to its end.
OneGoesOn == \E r \in Actors : OnlyMoves(r) /\ StepsLeft(r)' < StepsLeft(r)

\* The end of an actor.
LEMMA EndGoesOn ==
  ASSUME Typed, NEW r \in Actors, NEW pc \in {"done", "refused", "denied", "failed"}, End(r, pc),
         req[r].pc = "ready" \/ InFlight(r)
  PROVE  OneGoesOn
<1>1. OnlyMoves(r) /\ req'[r].pc = pc /\ req'[r].kind = "none"
  BY EndType
<1>2. StepsLeft(r)' = 0 /\ StepsLeft(r) > 0
  BY <1>1 DEF StepsLeft, InFlight
<1>3. QED
  BY <1>1, <1>2 DEF OneGoesOn

\* The end of a seed.
LEMMA SeedEndGoesOn ==
  ASSUME NEW s \in Actors, OnlyMoves(s), NEW plan, NEW pc \in {"done", "failed"},
         EndsIn(s, plan, pc), req[s].pc = "ready" \/ InFlight(s)
  PROVE  OneGoesOn
<1>1. StepsLeft(s)' = 0 /\ StepsLeft(s) > 0
  BY DEF StepsLeft, InFlight, EndsIn
<1>2. QED
  BY <1>1 DEF OneGoesOn

\* A seed that begins has nine steps left at most.
LEMMA SeedBeginGoesOn ==
  ASSUME NEW s \in Actors, OnlyMoves(s), NEW plan, NEW n, GoesTo(s, plan, n),
         req[s].pc = "ready"
  PROVE  OneGoesOn
<1>1. StepsLeft(s)' <= 8 /\ StepsLeft(s) >= 9 /\ StepsLeft(s)' \in Nat /\ StepsLeft(s) \in Nat
  BY DEF StepsLeft, GoesTo
<1>2. QED
  BY <1>1 DEF OneGoesOn

\* A seed that goes on to the administrator has the client behind it.
LEMMA SeedGoesOn ==
  ASSUME Typed, NEW s \in Actors, Named(s), s \in Seeders, NextSeed(s),
         req[s].pc \in {"waiting", "written"}
  PROVE  OneGoesOn
<1>1. req[s].kind = "seed" /\ InFlight(s)
  BY DEF Named, InFlight
<1>2. /\ OnlyMoves(s)
      /\ \/ req[s].name = Client /\ GoesTo(s, req[s].plan, Admin)
         \/ EndsIn(s, req[s].plan, "failed")
         \/ EndsIn(s, req[s].plan, "done")
  BY NextSeedType
<1>3. CASE req[s].name = Client /\ GoesTo(s, req[s].plan, Admin)
  <2>1. StepsLeft(s)' < StepsLeft(s)
    BY <1>1, <1>3, SeedNames DEF StepsLeft, GoesTo
  <2>2. QED
    BY <1>2, <2>1 DEF OneGoesOn
<1>4. CASE EndsIn(s, req[s].plan, "failed") \/ EndsIn(s, req[s].plan, "done")
  BY <1>1, <1>2, <1>4, SeedEndGoesOn
<1>5. QED
  BY <1>2, <1>3, <1>4

\* Every step of the system.
LEMMA StepGoesOn == TypeInv /\ Next => OneGoesOn
<1> SUFFICES ASSUME TypeInv, Next PROVE OneGoesOn
  OBVIOUS
<1>0. Typed /\ \A r \in Actors : Named(r)
  BY DEF TypeInv
<1>1. ASSUME NEW r \in Actors, req[r].pc = "ready",
             NEW kind \in Kinds, NEW n \in Names \cup {None},
             req' = [req EXCEPT ![r] = [NewRequest EXCEPT !.pc = "waiting", !.kind = kind, !.name = n]]
      PROVE  OneGoesOn
  <2>1. OnlyMoves(r) /\ req'[r].pc = "waiting"
    BY <1>0, <1>1, BeginType
  <2>2. StepsLeft(r)' <= 8 /\ StepsLeft(r) >= 9
    BY <1>1, <2>1 DEF StepsLeft
  <2>3. StepsLeft(r)' \in Nat /\ StepsLeft(r) \in Nat
    BY DEF StepsLeft
  <2>4. QED
    BY <2>1, <2>2, <2>3 DEF OneGoesOn
<1>2. ASSUME NEW r \in Requests, NEW kind \in Kinds, NEW n \in Names \cup {None}, Begin(r, kind, n)
      PROVE  OneGoesOn
  BY <1>1, <1>2 DEF Begin, Actors
<1>3. ASSUME NEW s \in Seeders, NEW plan \in SUBSET {Client, Admin}, SeedBegin(s, plan)
      PROVE  OneGoesOn
  <2>1. /\ s \in Actors /\ OnlyMoves(s) /\ req[s].pc = "ready"
        /\ \/ \E n \in plan : GoesTo(s, plan, n)
           \/ EndsIn(s, plan, "failed") \/ EndsIn(s, plan, "done")
    BY <1>0, <1>3, SeedBeginType DEF SeedBegin, Actors
  <2>2. QED
    BY <2>1, SeedBeginGoesOn, SeedEndGoesOn
<1>4. ASSUME NEW r \in Actors, Fail(r) \/ Refuse(r) \/ Commit(r) PROVE OneGoesOn
  BY <1>0, <1>4, EndGoesOn DEF Fail, Refuse, Commit, InFlight
<1>5. ASSUME NEW r \in Requests, PoolTimeout(r) PROVE OneGoesOn
  BY <1>0, <1>5, EndGoesOn DEF PoolTimeout, InFlight, Actors
<1>6. ASSUME NEW r \in Actors, NEW pc \in {"refusing", "auditing", "audited", "written"},
             Advance(r, pc),
             \/ req[r].pc = "waiting" /\ pc = "refusing"
             \/ req[r].pc = "refusing" /\ pc = "auditing"
             \/ req[r].pc = "auditing" /\ pc = "audited"
             \/ req[r].pc = "accepted" /\ pc = "written"
      PROVE  OneGoesOn
  <2>1. /\ OnlyMoves(r) /\ req'[r].pc = pc
        /\ req'[r].kind = req[r].kind /\ req'[r].name = req[r].name
    BY <1>0, <1>6, AdvanceType
  <2>2. StepsLeft(r)' < StepsLeft(r)
    BY <1>6, <2>1 DEF StepsLeft
  <2>3. QED
    BY <2>1, <2>2 DEF OneGoesOn
<1>7. ASSUME NEW r \in Actors, AuditOpen(r) \/ AuditCommit(r) PROVE OneGoesOn
  BY <1>6, <1>7 DEF AuditOpen, AuditCommit
<1>8. ASSUME NEW r \in Actors, NEW inserts \in BOOLEAN, req[r].pc = "waiting",
             req' = [req EXCEPT ![r] = [@ EXCEPT !.pc = "accepted", !.inserts = inserts]]
      PROVE  OneGoesOn
  <2>1. /\ OnlyMoves(r) /\ req'[r].pc = "accepted"
        /\ req'[r].kind = req[r].kind /\ req'[r].name = req[r].name
    BY <1>0, <1>8, AcceptType
  <2>2. StepsLeft(r)' < StepsLeft(r)
    BY <1>8, <2>1 DEF StepsLeft
  <2>3. QED
    BY <2>1, <2>2 DEF OneGoesOn
<1>9. ASSUME NEW r \in Actors, NEW valid \in BOOLEAN, Lookup(r, valid) PROVE OneGoesOn
  <2>1. CASE Accepts(r, valid)
    BY <1>8, <1>9, <2>1 DEF Lookup
  <2>2. CASE ~Accepts(r, valid)
    BY <1>0, <1>6, <1>9, <2>2, EndGoesOn DEF Lookup, InFlight
  <2>3. QED
    BY <2>1, <2>2
<1>10. ASSUME NEW r \in Actors, Write(r) PROVE OneGoesOn
  BY <1>0, <1>6, <1>10, EndGoesOn DEF Write, InFlight
<1>11. ASSUME NEW s \in Actors, SeedLookup(s) PROVE OneGoesOn
  <2>1. CASE Seeded(req[s].name)
    BY <1>0, <1>11, <2>1, SeedGoesOn DEF SeedLookup
  <2>2. CASE ~Seeded(req[s].name)
    BY <1>8, <1>11, <2>2 DEF SeedLookup, Found
  <2>3. QED
    BY <2>1, <2>2
<1>12. ASSUME NEW s \in Actors, SeedCommit(s) PROVE OneGoesOn
  BY <1>0, <1>12, SeedGoesOn DEF SeedCommit
<1>13. QED
  BY <1>2, <1>3, <1>4, <1>5, <1>7, <1>9, <1>10, <1>11, <1>12 DEF Next, Step

\* RequestsEnd without its fairness: no request and no seed ever goes back, so each takes
\* nine steps at most, faults, timeouts of the pool and the seeds' second turn included;
\* OnlyRefusalsWait says who may have to wait for the next.
THEOREM EveryStepGoesOn == Spec => [][OneGoesOn]_vars
BY TypeInit, TypeNext, StepGoesOn, PTL DEF Spec
=============================================================================
