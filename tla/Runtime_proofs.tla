---------------------------- MODULE Runtime_proofs -----------------------------
(***************************************************************************)
(* Proofs about what the processes share at run time, for every value of   *)
(* the constants: the lock of an account from the settings on, the jobs    *)
(* of one process, the bulkheads and circuit breakers in front of the      *)
(* providers, and the results a host brings to a search.                   *)
(***************************************************************************)
EXTENDS Deployment, LocalJobs, Backpressure, SearchFlow,
        WellFoundedInduction, FiniteSetTheorems, SequenceTheorems, TLAPS

(***************************************************************************)
(* The lock of an account.                                                 *)
(***************************************************************************)

DeployTypeOK ==
    /\ settings \in Settings
    /\ serving \subseteq Processes /\ uncounted \subseteq serving
    /\ inside \subseteq LockUsers /\ leaseless \subseteq inside
    /\ redisLock \in LockUsers \cup {Unlocked}
    /\ localLock \in [Processes -> LockUsers \cup {Unlocked}]

\* Who serves was accepted, and where the settings name one process the validator
\* counted no two.
ServingIsAccepted ==
    /\ serving # {} => Accepted(settings)
    /\ settings.workers = 1 => \A p, q \in serving \ uncounted : p = q

\* A request inside is of a process that serves, and has the key in Redis or
\* the lock in the memory of its process, unless its lease lapsed.
InsideHasTheLock ==
    \A u \in inside :
        /\ ProcessOf[u] \in serving
        /\ InRedis(settings, "locks") => u \in leaseless \/ redisLock = u
        /\ ~InRedis(settings, "locks") => localLock[ProcessOf[u]] = u

DeployIInv == DeployTypeOK /\ ServingIsAccepted /\ InsideHasTheLock

\* A set of at most one element.
LEMMA AtMostOne ==
    ASSUME NEW S, IsFiniteSet(S), Cardinality(S) <= 1, NEW p \in S, NEW q \in S
    PROVE  p = q
<1>1. Cardinality(S) \in Nat /\ Cardinality(S) # 0
  BY FS_CardinalityType, FS_EmptySet
<1>2. Cardinality(S) = 1
  BY <1>1
<1> QED BY <1>2, FS_Singleton

\* The initial state satisfies the inductive invariant of the lock.
LEMMA DeployInitEstablishes == DeployInit => DeployIInv
BY DEF DeployInit, DeployIInv, DeployTypeOK, ServingIsAccepted, InsideHasTheLock

\* Every step of the deployment keeps the inductive invariant of the lock.
LEMMA DeployStepPreserves == DeployIInv /\ [DeployNext]_deployVars => DeployIInv'
<1> SUFFICES ASSUME DeployIInv, [DeployNext]_deployVars PROVE DeployIInv'
  OBVIOUS
<1> USE DEF DeployIInv
<1>1. CASE \/ UNCHANGED deployVars
           \/ \E p \in Processes : Probe(p)
           \/ \E b \in {"redis", "postgres"} : BackendTurns(b)
           \/ \E failed \in {{}, {"bandit", "cross_encoder"}, {"publication_gate"}} : Doctor(failed)
  <2>1. UNCHANGED <<settings, serving, uncounted, redisLock, localLock, inside, leaseless>>
    BY <1>1 DEF deployVars, Probe, BackendTurns, Doctor
  <2> QED BY <2>1 DEF DeployTypeOK, ServingIsAccepted, InsideHasTheLock
<1>2. ASSUME NEW pod \in SUBSET Processes, Serve(pod) PROVE DeployIInv'
  <2>1. /\ Accepted(settings) /\ serving' = serving \cup pod /\ pod \cap serving = {}
        /\ uncounted' = IF Cardinality((serving \ uncounted) \cup pod) <= settings.workers
                        THEN uncounted ELSE uncounted \cup pod
        /\ UNCHANGED <<settings, redisLock, localLock, inside, leaseless>>
    BY <1>2 DEF Serve
  <2>2. DeployTypeOK' /\ InsideHasTheLock'
    BY <2>1 DEF DeployTypeOK, InsideHasTheLock
  <2>3. ASSUME settings.workers = 1, NEW p \in serving' \ uncounted', NEW q \in serving' \ uncounted'
        PROVE  p = q
    <3>1. CASE Cardinality((serving \ uncounted) \cup pod) <= 1
      <4>1. IsFiniteSet((serving \ uncounted) \cup pod)
        BY ProcessesCounted, FS_Subset DEF DeployTypeOK
      <4>2. p \in (serving \ uncounted) \cup pod /\ q \in (serving \ uncounted) \cup pod
        BY <2>1, <2>3, <3>1
      <4> QED BY <3>1, <4>1, <4>2, AtMostOne
    <3>2. CASE ~(Cardinality((serving \ uncounted) \cup pod) <= 1)
      BY <2>1, <2>3, <3>2 DEF ServingIsAccepted
    <3> QED BY <3>1, <3>2
  <2> QED BY <2>1, <2>2, <2>3 DEF ServingIsAccepted
<1>3. ASSUME NEW p \in Processes, StartHelper(p) PROVE DeployIInv'
  <2>1. /\ Accepted(settings) /\ serving' = serving \cup {p} /\ uncounted' = uncounted \cup {p}
        /\ UNCHANGED <<settings, redisLock, localLock, inside, leaseless>>
    BY <1>3 DEF StartHelper
  <2> QED BY <2>1 DEF DeployTypeOK, ServingIsAccepted, InsideHasTheLock
<1>4. ASSUME NEW w \in Processes, ProcessEnds(w) PROVE DeployIInv'
  <2>1. /\ serving' = serving \ {w} /\ uncounted' = uncounted \ {w}
        /\ localLock' = [localLock EXCEPT ![w] = Unlocked]
        /\ inside' = {u \in inside : ProcessOf[u] # w}
        /\ leaseless' = {u \in leaseless : ProcessOf[u] # w}
        /\ UNCHANGED <<settings, redisLock>>
    BY <1>4 DEF ProcessEnds
  <2>2. DeployTypeOK'
    BY <2>1 DEF DeployTypeOK
  <2>3. ServingIsAccepted'
    BY <2>1 DEF ServingIsAccepted
  <2>4. InsideHasTheLock'
    BY <2>1 DEF InsideHasTheLock, DeployTypeOK
  <2> QED BY <2>2, <2>3, <2>4
<1>5. ASSUME NEW u \in LockUsers, Take(u) PROVE DeployIInv'
  <2>1. /\ ProcessOf[u] \in serving /\ u \notin inside /\ inside' = inside \cup {u}
        /\ UNCHANGED <<settings, serving, uncounted, leaseless>>
    BY <1>5 DEF Take
  <2>2. ServingIsAccepted'
    BY <2>1 DEF ServingIsAccepted
  <2>3. CASE InRedis(settings, "locks")
    <3>1. redisLock = Unlocked /\ redisLock' = u /\ localLock' = localLock
      BY <1>5, <2>3 DEF Take
    <3>2. DeployTypeOK'
      BY <2>1, <3>1 DEF DeployTypeOK
    <3>3. InsideHasTheLock'
      BY <2>1, <2>3, <3>1, ProcessesServe DEF InsideHasTheLock, DeployTypeOK
    <3> QED BY <2>2, <3>2, <3>3
  <2>4. CASE ~InRedis(settings, "locks")
    <3>1. /\ localLock[ProcessOf[u]] = Unlocked /\ redisLock' = redisLock
          /\ localLock' = [localLock EXCEPT ![ProcessOf[u]] = u]
      BY <1>5, <2>4 DEF Take
    <3>2. DeployTypeOK'
      BY <2>1, <3>1, ProcessesServe DEF DeployTypeOK
    <3>3. InsideHasTheLock'
      BY <2>1, <2>4, <3>1, ProcessesServe DEF InsideHasTheLock, DeployTypeOK
    <3> QED BY <2>2, <3>2, <3>3
  <2> QED BY <2>3, <2>4
<1>6. ASSUME NEW u \in LockUsers, Release(u) PROVE DeployIInv'
  <2>1. /\ inside' = inside \ {u} /\ leaseless' = leaseless \ {u} /\ u \in inside
        /\ UNCHANGED <<settings, serving, uncounted>>
    BY <1>6 DEF Release
  <2>2. ServingIsAccepted'
    BY <2>1 DEF ServingIsAccepted
  <2>3. CASE InRedis(settings, "locks")
    <3>1. /\ localLock' = localLock
          /\ redisLock' = redisLock \/ (redisLock = u /\ redisLock' = Unlocked)
      BY <1>6, <2>3 DEF Release, KeyAfterRelease
    <3>2. DeployTypeOK'
      BY <2>1, <3>1 DEF DeployTypeOK
    <3>3. InsideHasTheLock'
      BY <2>1, <2>3, <3>1 DEF InsideHasTheLock, DeployTypeOK
    <3> QED BY <2>2, <3>2, <3>3
  <2>4. CASE ~InRedis(settings, "locks")
    <3>1. /\ redisLock' = redisLock
          /\ localLock' = [localLock EXCEPT ![ProcessOf[u]] = Unlocked]
      BY <1>6, <2>4 DEF Release
    <3>2. DeployTypeOK'
      BY <2>1, <3>1, ProcessesServe DEF DeployTypeOK
    <3>3. InsideHasTheLock'
      BY <2>1, <2>4, <3>1, ProcessesServe DEF InsideHasTheLock, DeployTypeOK
    <3> QED BY <2>2, <3>2, <3>3
  <2> QED BY <2>3, <2>4
<1>7. CASE LeaseLapses
  <2>1. /\ redisLock' = Unlocked /\ leaseless' = leaseless \cup ({redisLock} \cap inside)
        /\ UNCHANGED <<settings, serving, uncounted, localLock, inside>>
    BY <1>7 DEF LeaseLapses
  <2>2. DeployTypeOK' /\ ServingIsAccepted'
    BY <2>1 DEF DeployTypeOK, ServingIsAccepted
  <2>3. InsideHasTheLock'
    BY <2>1 DEF InsideHasTheLock
  <2> QED BY <2>2, <2>3
<1> QED BY <1>1, <1>2, <1>3, <1>4, <1>5, <1>6, <1>7 DEF DeployNext

\* The inductive invariant of the lock holds in every behaviour.
THEOREM DeployInvariance == DeploySpec => []DeployIInv
BY DeployInitEstablishes, DeployStepPreserves, PTL DEF DeploySpec

\* Settings that validation accepts for production put the lock in Redis or have
\* one process, when locks are on or a browser publishes.
LEMMA OneProcessOrRedis ==
    ASSUME DeployTypeOK, Accepted(settings), settings.production,
           Has(settings, "locks") \/ settings.adapter = "creator_studio",
           ~InRedis(settings, "locks")
    PROVE  settings.workers = 1
<1>1. settings.workers \in 1..MaxWorkers
  BY DEF DeployTypeOK, Settings, WorkerCounts
<1>2. settings.workers > 1 => settings.adapter # "creator_studio"
  BY DEF Accepted
<1>3. settings.workers > 1 /\ Has(settings, "locks") => Has(settings, "redis")
  BY DEF Accepted, AsksRedis
<1>4. ~(settings.workers > 1)
  BY <1>2, <1>3 DEF InRedis
<1> QED BY <1>1, <1>4, ProcessesCounted

\* Two requests are at once inside the lock of an account only if a lease lapsed, or
\* if the locks are local and two processes serve them; in a production deployment
\* with locks on or a browser publisher one of the two is then beyond the number
\* that the validator looked at (validate_production_security,
\* DistributedLockManager).  For any number of processes and requests.
THEOREM LocksHold == DeploySpec => []LocksHoldAcrossProcesses
<1>1. DeployIInv => LocksHoldAcrossProcesses
  <2> SUFFICES ASSUME DeployIInv, NEW u \in inside \ leaseless,
                      NEW v \in (inside \ leaseless) \ {u}
               PROVE  /\ ~InRedis(settings, "locks") /\ ProcessOf[u] # ProcessOf[v]
                      /\ settings.production
                         /\ (Has(settings, "locks") \/ settings.adapter = "creator_studio")
                         => {ProcessOf[u], ProcessOf[v]} \cap uncounted # {}
    BY DEF LocksHoldAcrossProcesses
  <2> USE DEF DeployIInv
  <2>1. ~InRedis(settings, "locks") /\ ProcessOf[u] # ProcessOf[v]
    BY DEF InsideHasTheLock
  <2>2. ProcessOf[u] \in serving /\ ProcessOf[v] \in serving /\ Accepted(settings)
    BY DEF InsideHasTheLock, ServingIsAccepted
  <2>3. ASSUME settings.production,
               Has(settings, "locks") \/ settings.adapter = "creator_studio"
        PROVE  {ProcessOf[u], ProcessOf[v]} \cap uncounted # {}
    <3>1. settings.workers = 1
      BY <2>1, <2>2, <2>3, OneProcessOrRedis
    <3> QED BY <2>1, <2>2, <3>1 DEF ServingIsAccepted
  <2> QED BY <2>1, <2>3
<1> QED BY <1>1, DeployInvariance, PTL

(***************************************************************************)
(* Bulkheads and circuit breakers.                                         *)
(***************************************************************************)

TenantBulkheads == {<<"tenant", t, n>> : t \in Tenants, n \in 1 .. Cardinality(Requests) + 1}
Fields == {"kind", "at", "bulkhead", "held", "want", "left", "probe"}

\* What a request holds and waits for, by where it is: the global bulkhead, then
\* the one of its tenant, then that of the operation and that of the provider,
\* neither of which is a tenant's.
Shape(q) ==
    \/ /\ q.at = "entering"
       /\ \/ q.held = <<>> /\ q.want = <<<<"api">>, q.bulkhead>>
          \/ q.held = <<<<"api">>>> /\ q.want = <<q.bulkhead>>
    \/ /\ q.at \in {"entering", "working"}
       /\ q.held = <<<<"api">>, q.bulkhead>> /\ q.want = <<>>
    \/ /\ q.at \in {"attempting", "calling", "resting"}
       /\ \E o, p : /\ o[1] # "tenant" /\ p[1] # "tenant"
                    /\ \/ q.held = <<<<"api">>, q.bulkhead>> /\ q.want = <<o, p>>
                       \/ q.held = <<<<"api">>, q.bulkhead, o>> /\ q.want = <<p>>
                       \/ q.held = <<<<"api">>, q.bulkhead, o, p>> /\ q.want = <<>>
    
RequestOK(q) ==
    \/ q = Gone
    \/ /\ DOMAIN q = Fields /\ q.bulkhead \in TenantBulkheads
       /\ q.kind \in {"generate", "rewrite", "search", "plain"}
       /\ Shape(q)
       /\ q.kind = "plain" => q.left = <<>> /\ q.at \in {"entering", "working"}
       /\ q.at \in {"calling", "resting"} => q.want = <<>>
       /\ q.probe => q.at = "calling"

RequestsOK == DOMAIN request = Requests /\ \A r \in Requests : RequestOK(request[r])

\* The pool has one bulkhead per tenant, that of the tenant's requests unless it
\* was dropped while one of them had it.
PoolOK ==
    /\ pool \in Seq(TenantBulkheads)
    /\ \A i, j \in DOMAIN pool : pool[i][2] = pool[j][2] => i = j
    /\ \A r \in Requests : request[r] # Gone /\ request[r].bulkhead[2] \notin split =>
           \E i \in DOMAIN pool : pool[i] = request[r].bulkhead

\* Who is in the bulkhead of a tenant.
Within(t) == {r \in Requests : Len(request[r].held) >= 2 /\ request[r].bulkhead[2] = t}
ShareOK == \A t \in Tenants : Cardinality(Within(t)) > TenantMax => t \in split

\* The probe slot of a breaker is taken by a probe that is under way.
CircuitOK ==
    /\ circuit \in [Candidates -> [state : {"CLOSED", "OPEN", "HALF_OPEN"}, failures : Nat,
                                   inflight : BOOLEAN, ripe : BOOLEAN]]
    /\ ProbeIsReal

PressureIInv == RequestsOK /\ PoolOK /\ ShareOK /\ CircuitOK

\* The initial state satisfies the inductive invariant of the bulkheads.
LEMMA PressureInitEstablishes == PressureInit => PressureIInv
<1> SUFFICES ASSUME PressureInit PROVE PressureIInv
  OBVIOUS
<1>1. RequestsOK
  BY DEF PressureInit, RequestsOK, RequestOK
<1>2. PoolOK
  BY DEF PressureInit, PoolOK
<1>3. ShareOK
  <2>1. \A t \in Tenants : Within(t) = {}
    BY DEF PressureInit, Within, Gone
  <2>2. TenantMax \in Nat
    BY PressureAssumption
  <2>3. \A t \in Tenants : Cardinality(Within(t)) = 0
    BY <2>1, FS_EmptySet
  <2> QED BY <2>2, <2>3 DEF ShareOK
<1>4. CircuitOK
  BY DEF PressureInit, CircuitOK, ProbeIsReal, Closed
<1> QED BY <1>1, <1>2, <1>3, <1>4 DEF PressureIInv

\* A bulkhead of a tenant says whose it is and has the tenants' limit.
LEMMA TenantBulkhead ==
    ASSUME NEW b \in TenantBulkheads
    PROVE  b[1] = "tenant" /\ b[2] \in Tenants /\ Limit(b) = TenantMax
BY DEF TenantBulkheads, Limit

\* What is in the place after the global bulkhead is the tenant's bulkhead, and no
\* other place holds one.
LEMMA PlacesOfTenants ==
    ASSUME NEW q, RequestOK(q)
    PROVE  /\ Len(q.held) \in Nat
           /\ Len(q.held) >= 2 => q.held[2] = q.bulkhead
           /\ \A i \in 1 .. 4 : i <= Len(q.held) /\ i # 2 => q.held[i][1] # "tenant"
           /\ q = Gone => Len(q.held) = 0
           /\ q # Gone => q.bulkhead \in TenantBulkheads
<1>1. CASE q = Gone
  <2>1. q.held = <<>>
    BY <1>1 DEF Gone
  <2>2. Len(q.held) = 0
    BY <2>1
  <2> QED BY <1>1, <2>2
<1>2. CASE q # Gone
  <2>1. q.bulkhead \in TenantBulkheads /\ Shape(q)
    BY <1>2 DEF RequestOK
  <2>2. PICK o, p : /\ o[1] # "tenant" /\ p[1] # "tenant"
                    /\ \/ q.held = <<>>
                       \/ q.held = <<<<"api">>>>
                       \/ q.held = <<<<"api">>, q.bulkhead>>
                       \/ q.held = <<<<"api">>, q.bulkhead, o>>
                       \/ q.held = <<<<"api">>, q.bulkhead, o, p>>
    <3>1. <<"api">>[1] # "tenant"
      OBVIOUS
    <3> QED BY <2>1, <3>1 DEF Shape
  <2>3. CASE q.held = <<>>
    BY <1>2, <2>1, <2>3
  <2>4. CASE q.held = <<<<"api">>>>
    BY <1>2, <2>1, <2>4
  <2>5. CASE q.held = <<<<"api">>, q.bulkhead>>
    BY <1>2, <2>1, <2>5
  <2>6. CASE q.held = <<<<"api">>, q.bulkhead, o>>
    BY <1>2, <2>1, <2>2, <2>6
  <2>7. CASE q.held = <<<<"api">>, q.bulkhead, o, p>>
    BY <1>2, <2>1, <2>2, <2>7
  <2> QED BY <2>2, <2>3, <2>4, <2>5, <2>6, <2>7
<1> QED BY <1>1, <1>2

\* The requests in a set are at most as many as the places taken of a bulkhead, if
\* each of them is in it.
LEMMA InsideAreCounted ==
    ASSUME RequestsOK, NEW b, NEW R \in SUBSET Requests,
           \A r \in R : Len(request[r].held) >= 2 /\ request[r].held[2] = b
    PROVE  Taken(b) \in Nat /\ Cardinality(R) <= Taken(b)
<1> DEFINE P == {place \in PlacesHeld : Held(place) = b}
<1> DEFINE f == [r \in R |-> <<r, 2>>]
<1>1. IsFiniteSet(Requests) /\ IsFiniteSet(1 .. 4)
  <2>1. 1 \in Int /\ 4 \in Int
    OBVIOUS
  <2> QED BY <2>1, PressureAssumption, FS_Interval
<1>2. IsFiniteSet(Requests \X (1 .. 4))
  BY <1>1, FS_Product
<1>3. P \subseteq Requests \X (1 .. 4)
  BY DEF PlacesHeld
<1>4. IsFiniteSet(P)
  BY <1>2, <1>3, FS_Subset
<1>5. \A r \in R : <<r, 2>> \in P
  BY DEF PlacesHeld, Held
<1>6. f \in Injection(R, P)
  BY <1>5 DEF Injection, IsInjective
<1> HIDE DEF P, f
<1>7. Cardinality(R) <= Cardinality(P)
  BY <1>4, <1>6, FS_Injection
<1>8. Cardinality(P) \in Nat
  BY <1>4, FS_CardinalityType
<1> QED BY <1>7, <1>8 DEF Taken, P

\* One request changes: the tenants keep their share if it is in no bulkhead it
\* was not in, or found room in one that has all requests of its tenant.
LEMMA ShareKept ==
    ASSUME RequestsOK, ShareOK, NEW r \in Requests, NEW q, RequestOK(q),
           request' = [request EXCEPT ![r] = q], split \subseteq split',
           \/ Len(q.held) < 2
           \/ Len(request[r].held) >= 2 /\ request[r].bulkhead = q.bulkhead
           \/ /\ ~Full(q.bulkhead)
              /\ q.bulkhead[2] \notin split' =>
                   \A s \in Requests : request[s] # Gone /\ request[s].bulkhead[2] = q.bulkhead[2]
                                       => request[s].bulkhead = q.bulkhead
    PROVE  ShareOK'
<1> SUFFICES ASSUME NEW t \in Tenants, t \notin split'
             PROVE  ~(Cardinality(Within(t)') > TenantMax)
  BY DEF ShareOK
<1>1. TenantMax \in Nat \ {0} /\ IsFiniteSet(Requests)
  BY PressureAssumption
<1>2. Within(t) \in SUBSET Requests /\ Within(t)' \in SUBSET Requests
  BY DEF Within
<1>3. /\ IsFiniteSet(Within(t)) /\ IsFiniteSet(Within(t)')
      /\ Cardinality(Within(t)) \in Nat /\ Cardinality(Within(t)') \in Nat
  BY <1>1, <1>2, FS_Subset, FS_CardinalityType
<1>4. ~(Cardinality(Within(t)) > TenantMax)
  BY DEF ShareOK
<1>5. \A s \in Requests : s # r => request'[s] = request[s]
  BY DEF RequestsOK
<1>6. request'[r] = q
  BY DEF RequestsOK
<1>7. Len(q.held) \in Nat /\ Len(request[r].held) \in Nat
  BY PlacesOfTenants DEF RequestsOK
<1>8. CASE Len(q.held) < 2 \/ (Len(request[r].held) >= 2 /\ request[r].bulkhead = q.bulkhead)
  <2>1. Within(t)' \subseteq Within(t)
    BY <1>5, <1>6, <1>7, <1>8 DEF Within
  <2>2. Cardinality(Within(t)') <= Cardinality(Within(t))
    BY <1>3, <2>1, FS_Subset
  <2> QED BY <1>1, <1>3, <1>4, <2>2
<1>9. CASE /\ ~Full(q.bulkhead)
           /\ q.bulkhead[2] \notin split' =>
                   \A s \in Requests : request[s] # Gone /\ request[s].bulkhead[2] = q.bulkhead[2]
                                       => request[s].bulkhead = q.bulkhead
           /\ Len(q.held) >= 2
  <2>1. CASE q.bulkhead[2] # t
    <3>1. Within(t)' \subseteq Within(t)
      BY <1>5, <1>6, <2>1 DEF Within
    <3>2. Cardinality(Within(t)') <= Cardinality(Within(t))
      BY <1>3, <3>1, FS_Subset
    <3> QED BY <1>1, <1>3, <1>4, <3>2
  <2>2. CASE q.bulkhead[2] = t
    <3>1. q # Gone /\ q.bulkhead \in TenantBulkheads
      BY <1>7, <1>9, PlacesOfTenants
    <3>2. Limit(q.bulkhead) = TenantMax
      BY <3>1, TenantBulkhead
    <3>3. \A s \in Within(t) : Len(request[s].held) >= 2 /\ request[s].held[2] = q.bulkhead
      <4> SUFFICES ASSUME NEW s \in Within(t)
                   PROVE  Len(request[s].held) >= 2 /\ request[s].held[2] = q.bulkhead
        OBVIOUS
      <4>1. s \in Requests /\ Len(request[s].held) >= 2 /\ request[s].bulkhead[2] = t
        BY DEF Within
      <4>2. RequestOK(request[s])
        BY <4>1 DEF RequestsOK
      <4>3. request[s] # Gone /\ request[s].held[2] = request[s].bulkhead
        BY <4>1, <4>2, PlacesOfTenants
      <4> QED BY <1>9, <2>2, <4>1, <4>3
    <3>4. Taken(q.bulkhead) \in Nat /\ Cardinality(Within(t)) <= Taken(q.bulkhead)
      BY <1>2, <3>3, InsideAreCounted
    <3>5. ~(Taken(q.bulkhead) >= TenantMax)
      BY <1>9, <3>2 DEF Full
    <3>6. Within(t)' \subseteq Within(t) \cup {r}
      BY <1>5 DEF Within
    <3>7. /\ IsFiniteSet(Within(t) \cup {r})
          /\ Cardinality(Within(t) \cup {r}) =
               IF r \in Within(t) THEN Cardinality(Within(t)) ELSE Cardinality(Within(t)) + 1
      BY <1>3, FS_AddElement
    <3>8. Cardinality(Within(t)') <= Cardinality(Within(t) \cup {r})
      BY <3>6, <3>7, FS_Subset
    <3>9. Cardinality(Within(t) \cup {r}) <= Cardinality(Within(t)) + 1
          /\ Cardinality(Within(t) \cup {r}) \in Nat
      BY <1>3, <3>7
    <3> QED BY <1>1, <1>3, <3>4, <3>5, <3>8, <3>9
  <2> QED BY <2>1, <2>2
<1> QED BY <1>7, <1>8, <1>9

\* The pool stays in order when a request changes and keeps its bulkhead or ends.
LEMMA PoolKept ==
    ASSUME RequestsOK, PoolOK, NEW r \in Requests, NEW q,
           request' = [request EXCEPT ![r] = q], UNCHANGED <<pool, split>>,
           q = Gone \/ (request[r] # Gone /\ q.bulkhead = request[r].bulkhead)
    PROVE  PoolOK'
<1>1. \A s \in Requests : s # r => request'[s] = request[s]
  BY DEF RequestsOK
<1>2. request'[r] = q
  BY DEF RequestsOK
<1>3. \A s \in Requests : request'[s] # Gone /\ request'[s].bulkhead[2] \notin split =>
           \E i \in DOMAIN pool : pool[i] = request'[s].bulkhead
  BY <1>1, <1>2 DEF PoolOK
<1> QED BY <1>3 DEF PoolOK

\* A step of one request that leaves the pool and its bulkhead, given what it does
\* to the breakers.
LEMMA RequestMoves ==
    ASSUME PressureIInv, NEW r \in Requests, NEW q, RequestOK(q), CircuitOK',
           request' = [request EXCEPT ![r] = q], UNCHANGED <<pool, split>>,
           q = Gone \/ (request[r] # Gone /\ q.bulkhead = request[r].bulkhead),
           \/ Len(q.held) < 2
           \/ Len(request[r].held) >= 2
           \/ ~Full(q.bulkhead)
    PROVE  PressureIInv'
<1> USE DEF PressureIInv
<1>1. \A s \in Requests : s # r => request'[s] = request[s]
  BY DEF RequestsOK
<1>2. request'[r] = q
  BY DEF RequestsOK
<1>3. RequestsOK'
  BY <1>1, <1>2 DEF RequestsOK
<1>4. PoolOK'
  BY PoolKept
<1>5. CircuitOK'
  OBVIOUS
<1>6. Len(q.held) \in Nat /\ Len(request[r].held) \in Nat
  BY PlacesOfTenants DEF RequestsOK
<1>7. CASE Len(q.held) < 2
  <2>1. ShareOK'
    BY <1>7, ShareKept
  <2> QED BY <1>3, <1>4, <1>5, <2>1
<1>8. CASE Len(q.held) >= 2
  <2>1. q # Gone
    BY <1>8, PlacesOfTenants
  <2>2. ASSUME q.bulkhead[2] \notin split',
               NEW s \in Requests, request[s] # Gone, request[s].bulkhead[2] = q.bulkhead[2]
        PROVE  request[s].bulkhead = q.bulkhead
    <3>1. request[r] # Gone /\ request[r].bulkhead = q.bulkhead
      BY <2>1
    <3>2. PICK i \in DOMAIN pool : pool[i] = q.bulkhead
      BY <2>2, <3>1 DEF PoolOK
    <3>3. PICK j \in DOMAIN pool : pool[j] = request[s].bulkhead
      BY <2>2 DEF PoolOK
    <3> QED BY <2>2, <3>2, <3>3 DEF PoolOK
  <2>3. \/ Len(request[r].held) >= 2 /\ request[r].bulkhead = q.bulkhead
        \/ ~Full(q.bulkhead)
    BY <1>6, <1>8, <2>1
  <2>4. ShareOK'
    BY <2>2, <2>3, ShareKept
  <2> QED BY <1>3, <1>4, <1>5, <2>4
<1> QED BY <1>6, <1>7, <1>8

\* Two bulkheads are entered as far as there is room, one after the other.
LEMMA TwoSlots ==
    ASSUME NEW h, NEW a, NEW b
    PROVE  \/ TakeSlot(h, <<a, b>>) = [held |-> h, want |-> <<a, b>>]
           \/ TakeSlot(h, <<a, b>>) = [held |-> Append(h, a), want |-> <<b>>]
           \/ TakeSlot(h, <<a, b>>) = [held |-> h \o <<a, b>>, want |-> <<>>] /\ ~Full(b)
<1>1. Head(<<a, b>>) = a /\ Tail(<<a, b>>) = <<b>> /\ Len(<<a, b>>) # 1
  OBVIOUS
<1>2. <<a, b>>[1] = a /\ <<a, b>>[2] = b
  OBVIOUS
<1> QED BY <1>1, <1>2 DEF TakeSlot

\* One bulkhead is entered if there is room.
LEMMA OneSlot ==
    ASSUME NEW h, NEW a
    PROVE  \/ TakeSlot(h, <<a>>) = [held |-> h, want |-> <<a>>]
           \/ TakeSlot(h, <<a>>) = [held |-> h \o <<a>>, want |-> <<>>] /\ ~Full(a)
<1>1. Head(<<a>>) = a /\ Len(<<a>>) = 1
  OBVIOUS
<1> QED BY <1>1 DEF TakeSlot

\* A short sequence is the tuple of its elements: of one, two, three, four.
LEMMA SingleIs ==
    ASSUME NEW S, NEW x \in Seq(S), Len(x) = 1 PROVE x = <<x[1]>>
<1> DEFINE y == <<x[1]>>
<1>1. \A i \in 1 .. 1 : i = 1
  OBVIOUS
<1>2. x[1] \in S
  OBVIOUS
<1>3. y \in Seq(S) /\ Len(y) = 1 /\ \A i \in 1 .. 1 : x[i] = y[i]
  BY <1>1, <1>2
<1> HIDE DEF y
<1>4. x = y
  BY <1>3, SeqEqual
<1> QED BY <1>4 DEF y

\* Two.
LEMMA PairIs ==
    ASSUME NEW S, NEW x \in Seq(S), Len(x) = 2 PROVE x = <<x[1], x[2]>>
<1> DEFINE y == <<x[1], x[2]>>
<1>1. \A i \in 1 .. 2 : i = 1 \/ i = 2
  OBVIOUS
<1>2. x[1] \in S /\ x[2] \in S
  OBVIOUS
<1>3. y \in Seq(S) /\ Len(y) = 2 /\ \A i \in 1 .. 2 : x[i] = y[i]
  BY <1>1, <1>2
<1> HIDE DEF y
<1>4. x = y
  BY <1>3, SeqEqual
<1> QED BY <1>4 DEF y

\* Three.
LEMMA TripleIs ==
    ASSUME NEW S, NEW x \in Seq(S), Len(x) = 3 PROVE x = <<x[1], x[2], x[3]>>
<1> DEFINE y == <<x[1], x[2], x[3]>>
<1>1. \A i \in 1 .. 3 : i = 1 \/ i = 2 \/ i = 3
  OBVIOUS
<1>2. x[1] \in S /\ x[2] \in S /\ x[3] \in S
  OBVIOUS
<1>3. y \in Seq(S) /\ Len(y) = 3 /\ \A i \in 1 .. 3 : x[i] = y[i]
  BY <1>1, <1>2
<1> HIDE DEF y
<1>4. x = y
  BY <1>3, SeqEqual
<1> QED BY <1>4 DEF y

\* Four.
LEMMA QuadrupleIs ==
    ASSUME NEW S, NEW x \in Seq(S), Len(x) = 4 PROVE x = <<x[1], x[2], x[3], x[4]>>
<1> DEFINE y == <<x[1], x[2], x[3], x[4]>>
<1>1. \A i \in 1 .. 4 : i = 1 \/ i = 2 \/ i = 3 \/ i = 4
  OBVIOUS
<1>2. x[1] \in S /\ x[2] \in S /\ x[3] \in S /\ x[4] \in S
  <2>1. \A i \in 1 .. 4 : x[i] \in S
    OBVIOUS
  <2> QED BY <2>1
<1>3. y \in Seq(S) /\ Len(y) = 4 /\ \A i \in 1 .. 4 : x[i] = y[i]
  BY <1>1, <1>2
<1> HIDE DEF y
<1>4. x = y
  BY <1>3, SeqEqual
<1> QED BY <1>4 DEF y

\* A third element.
LEMMA AppendToTwo ==
    ASSUME NEW a, NEW b, NEW c PROVE Append(<<a, b>>, c) = <<a, b, c>>
<1> DEFINE S == {a, b, c}
           x == Append(<<a, b>>, c)
<1>1. <<a, b>> \in Seq(S) /\ Len(<<a, b>>) = 2 /\ a \in S /\ b \in S /\ c \in S
  OBVIOUS
<1>2. <<a, b>>[1] = a /\ <<a, b>>[2] = b
  OBVIOUS
<1> HIDE DEF S
<1>3. x \in Seq(S) /\ Len(x) = 3
  BY <1>1
<1>4. x[1] = a /\ x[2] = b /\ x[3] = c
  BY <1>1, <1>2
<1> HIDE DEF x
<1>5. x = <<x[1], x[2], x[3]>>
  BY <1>3, TripleIs
<1> QED BY <1>4, <1>5 DEF x

\* One after another.
LEMMA OneAndOne ==
    ASSUME NEW a, NEW b PROVE <<a>> \o <<b>> = <<a, b>>
<1> DEFINE S == {a, b}
           x == <<a>> \o <<b>>
<1>1. <<a>> \in Seq(S) /\ Len(<<a>>) = 1 /\ <<b>> \in Seq(S) /\ Len(<<b>>) = 1 /\ a \in S /\ b \in S
  OBVIOUS
<1>2. <<a>>[1] = a /\ <<b>>[1] = b
  OBVIOUS
<1> HIDE DEF S
<1>3. x \in Seq(S) /\ Len(x) = 2
  BY <1>1, ConcatProperties
<1>4. x[1] = a /\ x[2] = b
  BY <1>1, <1>2, ConcatProperties
<1> HIDE DEF x
<1>5. x = <<x[1], x[2]>>
  BY <1>3, PairIs
<1> QED BY <1>4, <1>5 DEF x

\* Two after two.
LEMMA TwoAndTwo ==
    ASSUME NEW a, NEW b, NEW c, NEW d PROVE <<a, b>> \o <<c, d>> = <<a, b, c, d>>
<1> DEFINE S == {a, b, c, d}
           x == <<a, b>> \o <<c, d>>
<1>1. <<a, b>> \in Seq(S) /\ Len(<<a, b>>) = 2 /\ <<c, d>> \in Seq(S) /\ Len(<<c, d>>) = 2 /\ a \in S /\ b \in S /\ c \in S /\ d \in S
  OBVIOUS
<1>2. <<a, b>>[1] = a /\ <<a, b>>[2] = b /\ <<c, d>>[1] = c /\ <<c, d>>[2] = d
  OBVIOUS
<1> HIDE DEF S
<1>3. x \in Seq(S) /\ Len(x) = 4
  BY <1>1, ConcatProperties
<1>4. x[1] = a /\ x[2] = b /\ x[3] = c /\ x[4] = d
  BY <1>1, <1>2, ConcatProperties
<1> HIDE DEF x
<1>5. x = <<x[1], x[2], x[3], x[4]>>
  BY <1>3, QuadrupleIs
<1> QED BY <1>4, <1>5 DEF x

\* One after three.
LEMMA ThreeAndOne ==
    ASSUME NEW a, NEW b, NEW c, NEW d PROVE <<a, b, c>> \o <<d>> = <<a, b, c, d>>
<1> DEFINE S == {a, b, c, d}
           x == <<a, b, c>> \o <<d>>
<1>1. <<a, b, c>> \in Seq(S) /\ Len(<<a, b, c>>) = 3 /\ <<d>> \in Seq(S) /\ Len(<<d>>) = 1 /\ a \in S /\ b \in S /\ c \in S /\ d \in S
  OBVIOUS
<1>2. <<a, b, c>>[1] = a /\ <<a, b, c>>[2] = b /\ <<a, b, c>>[3] = c /\ <<d>>[1] = d
  OBVIOUS
<1> HIDE DEF S
<1>3. x \in Seq(S) /\ Len(x) = 4
  BY <1>1, ConcatProperties
<1>4. x[1] = a /\ x[2] = b /\ x[3] = c /\ x[4] = d
  BY <1>1, <1>2, ConcatProperties
<1> HIDE DEF x
<1>5. x = <<x[1], x[2], x[3], x[4]>>
  BY <1>3, QuadrupleIs
<1> QED BY <1>4, <1>5 DEF x

\* The first two of two, of three and of four.
LEMMA TwoOfTwo ==
    ASSUME NEW a, NEW b PROVE SubSeq(<<a, b>>, 1, 2) = <<a, b>>
<1> DEFINE S == {a, b}
           x == SubSeq(<<a, b>>, 1, 2)
<1>1. <<a, b>> \in Seq(S) /\ Len(<<a, b>>) = 2 /\ a \in S /\ b \in S
  OBVIOUS
<1>2. <<a, b>>[1] = a /\ <<a, b>>[2] = b
  OBVIOUS
<1> HIDE DEF S
<1>3. x \in Seq(S) /\ Len(x) = 2
  BY <1>1, SubSeqProperties
<1>4. x[1] = a /\ x[2] = b
  BY <1>1, <1>2, SubSeqProperties
<1> HIDE DEF x
<1>5. x = <<x[1], x[2]>>
  BY <1>3, PairIs
<1> QED BY <1>4, <1>5 DEF x

\* Of three.
LEMMA TwoOfThree ==
    ASSUME NEW a, NEW b, NEW c PROVE SubSeq(<<a, b, c>>, 1, 2) = <<a, b>>
<1> DEFINE S == {a, b, c}
           x == SubSeq(<<a, b, c>>, 1, 2)
<1>1. <<a, b, c>> \in Seq(S) /\ Len(<<a, b, c>>) = 3 /\ a \in S /\ b \in S /\ c \in S
  OBVIOUS
<1>2. <<a, b, c>>[1] = a /\ <<a, b, c>>[2] = b /\ <<a, b, c>>[3] = c
  OBVIOUS
<1> HIDE DEF S
<1>3. x \in Seq(S) /\ Len(x) = 2
  BY <1>1, SubSeqProperties
<1>4. x[1] = a /\ x[2] = b
  BY <1>1, <1>2, SubSeqProperties
<1> HIDE DEF x
<1>5. x = <<x[1], x[2]>>
  BY <1>3, PairIs
<1> QED BY <1>4, <1>5 DEF x

\* Of four.
LEMMA TwoOfFour ==
    ASSUME NEW a, NEW b, NEW c, NEW d PROVE SubSeq(<<a, b, c, d>>, 1, 2) = <<a, b>>
<1> DEFINE S == {a, b, c, d}
           x == SubSeq(<<a, b, c, d>>, 1, 2)
<1>1. <<a, b, c, d>> \in Seq(S) /\ Len(<<a, b, c, d>>) = 4 /\ a \in S /\ b \in S /\ c \in S /\ d \in S
  OBVIOUS
<1>2. <<a, b, c, d>>[1] = a /\ <<a, b, c, d>>[2] = b /\ <<a, b, c, d>>[3] = c /\ <<a, b, c, d>>[4] = d
  OBVIOUS
<1> HIDE DEF S
<1>3. x \in Seq(S) /\ Len(x) = 2
  BY <1>1, SubSeqProperties
<1>4. x[1] = a /\ x[2] = b
  BY <1>1, <1>2, SubSeqProperties
<1> HIDE DEF x
<1>5. x = <<x[1], x[2]>>
  BY <1>3, PairIs
<1> QED BY <1>4, <1>5 DEF x

\* How far the bulkheads of a request are entered: the first two by one who has none.
LEMMA EnterTwo ==
    ASSUME NEW a, NEW b
    PROVE  \/ TakeSlot(<<>>, <<a, b>>) = [held |-> <<>>, want |-> <<a, b>>]
           \/ TakeSlot(<<>>, <<a, b>>) = [held |-> <<a>>, want |-> <<b>>]
           \/ TakeSlot(<<>>, <<a, b>>) = [held |-> <<a, b>>, want |-> <<>>] /\ ~Full(b)
<1>1. Append(<<>>, a) = <<a>> /\ <<>> \o <<a, b>> = <<a, b>>
  OBVIOUS
<1> QED BY <1>1, TwoSlots

\* The second of them.
LEMMA EnterSecond ==
    ASSUME NEW a, NEW b
    PROVE  \/ TakeSlot(<<a>>, <<b>>) = [held |-> <<a>>, want |-> <<b>>]
           \/ TakeSlot(<<a>>, <<b>>) = [held |-> <<a, b>>, want |-> <<>>] /\ ~Full(b)
<1>1. <<a>> \o <<b>> = <<a, b>>
  BY OneAndOne
<1> QED BY <1>1, OneSlot

\* Those of its operation and of a provider, by one who has the first two.
LEMMA EnterFour ==
    ASSUME NEW a, NEW b, NEW o, NEW p
    PROVE  \/ TakeSlot(<<a, b>>, <<o, p>>) = [held |-> <<a, b>>, want |-> <<o, p>>]
           \/ TakeSlot(<<a, b>>, <<o, p>>) = [held |-> <<a, b, o>>, want |-> <<p>>]
           \/ TakeSlot(<<a, b>>, <<o, p>>) = [held |-> <<a, b, o, p>>, want |-> <<>>]
<1>1. Append(<<a, b>>, o) = <<a, b, o>>
  BY AppendToTwo
<1>2. <<a, b>> \o <<o, p>> = <<a, b, o, p>>
  BY TwoAndTwo
<1> QED BY <1>1, <1>2, TwoSlots

\* The provider's.
LEMMA EnterFourth ==
    ASSUME NEW a, NEW b, NEW o, NEW p
    PROVE  \/ TakeSlot(<<a, b, o>>, <<p>>) = [held |-> <<a, b, o>>, want |-> <<p>>]
           \/ TakeSlot(<<a, b, o>>, <<p>>) = [held |-> <<a, b, o, p>>, want |-> <<>>]
<1>1. <<a, b, o>> \o <<p>> = <<a, b, o, p>>
  BY ThreeAndOne
<1> QED BY <1>1, OneSlot

\* Who holds the global bulkhead or nothing holds less than two.
LEMMA ShortLengths == ASSUME NEW a PROVE Len(<<>>) < 2 /\ Len(<<a>>) < 2
OBVIOUS

\* Giving back the last two leaves the first two.
LEMMA LeaveTwo ==
    ASSUME NEW h, NEW a, NEW b, NEW o, NEW p,
           h = <<a, b>> \/ h = <<a, b, o>> \/ h = <<a, b, o, p>>
    PROVE  SubSeq(h, 1, 2) = <<a, b>> /\ Len(h) >= 2
<1>1. CASE h = <<a, b>>
  <2>1. SubSeq(<<a, b>>, 1, 2) = <<a, b>> /\ Len(<<a, b>>) = 2
    BY TwoOfTwo
  <2> QED BY <1>1, <2>1
<1>2. CASE h = <<a, b, o>>
  <2>1. SubSeq(<<a, b, o>>, 1, 2) = <<a, b>> /\ Len(<<a, b, o>>) = 3
    BY TwoOfThree
  <2> QED BY <1>2, <2>1
<1>3. CASE h = <<a, b, o, p>>
  <2>1. SubSeq(<<a, b, o, p>>, 1, 2) = <<a, b>> /\ Len(<<a, b, o, p>>) = 4
    BY TwoOfFour
  <2> QED BY <1>3, <2>1
<1> QED BY <1>1, <1>2, <1>3

\* A step of a request that is no probe leaves the breakers' slots as they are.
LEMMA CircuitKept ==
    ASSUME RequestsOK, CircuitOK, NEW r \in Requests, NEW q, ~request[r].probe,
           request' = [request EXCEPT ![r] = q], UNCHANGED <<circuit, leaked>>
    PROVE  CircuitOK'
<1>1. \A s \in Requests : s # r => request'[s] = request[s]
  BY DEF RequestsOK
<1> QED BY <1>1 DEF CircuitOK, ProbeIsReal

\* A request that is somewhere is none of those that are gone.
LEMMA Somewhere ==
    ASSUME RequestsOK, NEW r \in Requests, request[r].at # "off" \/ Waits(r)
    PROVE  /\ request[r] # Gone
           /\ DOMAIN request[r] = Fields /\ request[r].bulkhead \in TenantBulkheads
           /\ request[r].kind \in {"generate", "rewrite", "search", "plain"}
           /\ Shape(request[r])
           /\ request[r].kind = "plain" =>
                request[r].left = <<>> /\ request[r].at \in {"entering", "working"}
           /\ request[r].at \in {"calling", "resting"} => request[r].want = <<>>
           /\ request[r].probe => request[r].at = "calling"
<1>1. Gone.at = "off" /\ Gone.want = <<>>
  BY DEF Gone
<1> QED BY <1>1 DEF RequestsOK, RequestOK, Waits

\* The operation's and the provider's slot given back, the request holds the global
\* and its tenant's bulkhead again.
LEMMA BackToWork ==
    ASSUME RequestsOK, NEW r \in Requests, NEW left,
           request[r].at \in {"attempting", "calling", "resting"}
    PROVE  /\ RequestOK(Back(r, left)) /\ request[r] # Gone
           /\ Back(r, left).bulkhead = request[r].bulkhead
           /\ Len(request[r].held) >= 2
<1>1. /\ request[r] # Gone
      /\ DOMAIN request[r] = Fields /\ request[r].bulkhead \in TenantBulkheads
      /\ request[r].kind \in {"generate", "rewrite", "search"}
      /\ Shape(request[r])
  BY Somewhere
<1> DEFINE b == request[r].bulkhead
           h == request[r].held
<1>2. PICK o, p : \/ h = <<<<"api">>, b>> \/ h = <<<<"api">>, b, o>>
                  \/ h = <<<<"api">>, b, o, p>>
  BY <1>1 DEF Shape
<1>3. SubSeq(h, 1, 2) = <<<<"api">>, b>> /\ Len(h) >= 2
  <2> HIDE DEF b, h
  <2> QED BY <1>2, LeaveTwo
<1> DEFINE q == Back(r, left)
<1>4. /\ DOMAIN q = Fields /\ q.bulkhead = b /\ q.kind = request[r].kind
      /\ q.at = "working" /\ q.want = <<>> /\ q.probe = FALSE
      /\ q.held = SubSeq(h, 1, 2)
  BY <1>1 DEF Back, Fields
<1> HIDE DEF q
<1>5. Shape(q)
  BY <1>3, <1>4 DEF Shape
<1>6. RequestOK(q)
  BY <1>1, <1>4, <1>5 DEF RequestOK
<1> QED BY <1>1, <1>3, <1>4, <1>6 DEF q

\* A request that waits for an operation or a provider is attempting.
LEMMA WaitersAt ==
    ASSUME RequestsOK, NEW r \in Requests, Waits(r)
    PROVE  request[r].at \in {"entering", "attempting"}
BY Somewhere DEF Shape, Waits

\* Every step of a request preserves the inductive invariant: Handle.
LEMMA HandlePreserves ==
    ASSUME PressureIInv, NEW r \in Requests, Handle(r) PROVE PressureIInv'
<1> USE DEF PressureIInv
<1> DEFINE q == [request[r] EXCEPT !.at = "working"]
<1>1. /\ request[r].at = "entering" /\ ~Waits(r)
      /\ request' = [request EXCEPT ![r] = q] /\ UNCHANGED <<pool, circuit, split, leaked>>
  BY DEF Handle
<1>2. /\ request[r] # Gone /\ DOMAIN request[r] = Fields
      /\ request[r].bulkhead \in TenantBulkheads
      /\ request[r].kind \in {"generate", "rewrite", "search", "plain"}
      /\ Shape(request[r]) /\ ~request[r].probe
      /\ request[r].kind = "plain" => request[r].left = <<>>
  BY <1>1, Somewhere
<1>3. request[r].held = <<<<"api">>, request[r].bulkhead>> /\ request[r].want = <<>>
  BY <1>1, <1>2 DEF Shape, Waits
<1>4. /\ DOMAIN q = Fields /\ q.bulkhead = request[r].bulkhead /\ q.kind = request[r].kind
      /\ q.at = "working" /\ q.want = request[r].want /\ q.probe = request[r].probe
      /\ q.held = request[r].held /\ q.left = request[r].left
  BY <1>2 DEF Fields
<1> HIDE DEF q
<1>5. RequestOK(q)
  BY <1>2, <1>3, <1>4 DEF RequestOK, Shape
<1>6. CircuitOK'
  BY <1>1, <1>2, CircuitKept
<1>7. Len(request[r].held) >= 2
  BY <1>3
<1> QED BY <1>1, <1>2, <1>4, <1>5, <1>6, <1>7, RequestMoves

\* The attempt of a request is one of its operation and of a provider.
LEMMA AttemptPreserves ==
    ASSUME PressureIInv, NEW r \in Requests, Attempt(r) PROVE PressureIInv'
<1> USE DEF PressureIInv
<1> DEFINE o == Operation(request[r].kind)
           p == <<"provider", Head(request[r].left)>>
           b == request[r].bulkhead
           e == TakeSlot(request[r].held, <<o, p>>)
<1>1. /\ request[r].at = "working" /\ request[r].left # <<>>
      /\ UNCHANGED <<pool, circuit, split, leaked>>
      /\ \/ request' = [request EXCEPT ![r] = [@ EXCEPT !.at = "attempting",
                                                        !.held = e.held, !.want = e.want]]
         \/ request' = [request EXCEPT ![r] = [@ EXCEPT !.left = AfterRefusal(r)]]
  BY DEF Attempt
<1>2. /\ request[r] # Gone /\ DOMAIN request[r] = Fields /\ b \in TenantBulkheads
      /\ request[r].kind \in {"generate", "rewrite", "search"}
      /\ request[r].held = <<<<"api">>, b>> /\ request[r].want = <<>> /\ ~request[r].probe
  BY <1>1, Somewhere DEF Shape
<1>3. CASE request' = [request EXCEPT ![r] = [@ EXCEPT !.at = "attempting",
                                                       !.held = e.held, !.want = e.want]]
  <2> DEFINE q == [request[r] EXCEPT !.at = "attempting", !.held = e.held, !.want = e.want]
  <2>1. /\ DOMAIN q = Fields /\ q.bulkhead = b /\ q.kind = request[r].kind
        /\ q.at = "attempting" /\ q.want = e.want /\ q.probe = request[r].probe
        /\ q.held = e.held
    BY <1>2 DEF Fields
  <2>2. request' = [request EXCEPT ![r] = q]
    BY <1>3
  <2>3. o[1] # "tenant" /\ p[1] # "tenant"
    BY <1>2 DEF Operation
  <2> HIDE DEF q, o, p
  <2>4. \/ e.held = <<<<"api">>, b>> /\ e.want = <<o, p>>
        \/ e.held = <<<<"api">>, b, o>> /\ e.want = <<p>>
        \/ e.held = <<<<"api">>, b, o, p>> /\ e.want = <<>>
    <3> DEFINE g == <<"api">>
    <3>1. e = TakeSlot(<<g, b>>, <<o, p>>)
      BY <1>2
    <3> HIDE DEF g, b, e
    <3>2. \/ e = [held |-> <<g, b>>, want |-> <<o, p>>]
          \/ e = [held |-> <<g, b, o>>, want |-> <<p>>]
          \/ e = [held |-> <<g, b, o, p>>, want |-> <<>>]
      BY <3>1, EnterFour
    <3>3. \/ e.held = <<g, b>> /\ e.want = <<o, p>>
          \/ e.held = <<g, b, o>> /\ e.want = <<p>>
          \/ e.held = <<g, b, o, p>> /\ e.want = <<>>
      BY <3>2
    <3> QED BY <3>3 DEF g, b
  <2> HIDE DEF e
  <2>5. Shape(q)
    BY <2>1, <2>3, <2>4 DEF Shape
  <2>6. RequestOK(q)
    BY <1>2, <2>1, <2>5 DEF RequestOK
  <2>7. CircuitOK'
    BY <1>1, <1>2, <2>2, CircuitKept
  <2>8. Len(request[r].held) >= 2
    BY <1>2
  <2> QED BY <1>1, <1>2, <2>1, <2>2, <2>6, <2>7, <2>8, RequestMoves
<1>4. CASE request' = [request EXCEPT ![r] = [@ EXCEPT !.left = AfterRefusal(r)]]
  <2> DEFINE q == [request[r] EXCEPT !.left = AfterRefusal(r)]
  <2>1. /\ DOMAIN q = Fields /\ q.bulkhead = b /\ q.kind = request[r].kind
        /\ q.at = "working" /\ q.want = <<>> /\ q.probe = request[r].probe
        /\ q.held = request[r].held
    BY <1>1, <1>2 DEF Fields
  <2>2. request' = [request EXCEPT ![r] = q]
    BY <1>4
  <2> HIDE DEF q
  <2>3. RequestOK(q)
    BY <1>2, <2>1 DEF RequestOK, Shape
  <2>4. CircuitOK'
    BY <1>1, <1>2, <2>2, CircuitKept
  <2>5. Len(request[r].held) >= 2
    BY <1>2
  <2> QED BY <1>1, <1>2, <2>1, <2>2, <2>3, <2>4, <2>5, RequestMoves
<1> QED BY <1>1, <1>3, <1>4

\* Of a request that has nobody left to try: what it still holds is given back.
LEMMA GoneIsFine ==
    ASSUME PressureIInv, NEW r \in Requests, CircuitOK',
           request' = [request EXCEPT ![r] = Gone], UNCHANGED <<pool, split>>
    PROVE  PressureIInv'
<1>1. RequestOK(Gone)
  BY DEF RequestOK
<1>2. Len(Gone.held) < 2
  BY DEF Gone
<1> QED BY <1>1, <1>2, RequestMoves

\* A waiter that gives up leaves, or goes back to its handler.
LEMMA GivesUpPreserves ==
    ASSUME PressureIInv, NEW r \in Requests, NEW left, Waits(r),
           request' = [request EXCEPT ![r] = IF @.at = "entering" THEN Gone ELSE Back(r, left)],
           UNCHANGED <<pool, circuit, split, leaked>>
    PROVE  PressureIInv'
<1> USE DEF PressureIInv
<1>1. request[r].at \in {"entering", "attempting"} /\ ~request[r].probe
  BY WaitersAt, Somewhere
<1>2. CASE request[r].at = "entering"
  <2>1. request' = [request EXCEPT ![r] = Gone]
    BY <1>2
  <2>2. CircuitOK'
    BY <1>1, <2>1, CircuitKept
  <2> QED BY <2>1, <2>2, GoneIsFine
<1>3. CASE request[r].at = "attempting"
  <2> DEFINE q == Back(r, left)
  <2>1. request' = [request EXCEPT ![r] = q]
    BY <1>3
  <2>2. /\ RequestOK(q) /\ request[r] # Gone /\ q.bulkhead = request[r].bulkhead
        /\ Len(request[r].held) >= 2
    BY <1>3, BackToWork
  <2> HIDE DEF q
  <2>3. CircuitOK'
    BY <1>1, <2>1, CircuitKept
  <2> QED BY <2>1, <2>2, <2>3, RequestMoves
<1> QED BY <1>1, <1>2, <1>3

\* A waiter goes on to the next bulkhead, in the order of what it holds.
LEMMA ProceedPreserves ==
    ASSUME PressureIInv, NEW r \in Requests, Proceed(r) PROVE PressureIInv'
<1> USE DEF PressureIInv
<1> DEFINE b == request[r].bulkhead
           e == TakeSlot(request[r].held, request[r].want)
           q == [request[r] EXCEPT !.held = e.held, !.want = e.want]
<1>1. Waits(r) /\ UNCHANGED <<pool, circuit, split, leaked>>
  BY DEF Proceed
<1>2. \/ request' = [request EXCEPT ![r] = q]
      \/ request' = [request EXCEPT ![r] = IF @.at = "entering" THEN Gone
                                           ELSE Back(r, AfterRefusal(r))]
  BY DEF Proceed
<1>3. CASE request' = [request EXCEPT ![r] = IF @.at = "entering" THEN Gone
                                             ELSE Back(r, AfterRefusal(r))]
  BY <1>1, <1>3, GivesUpPreserves
<1>4. CASE request' = [request EXCEPT ![r] = q]
  <2>1. /\ request[r] # Gone /\ DOMAIN request[r] = Fields /\ b \in TenantBulkheads
        /\ request[r].kind \in {"generate", "rewrite", "search", "plain"}
        /\ request[r].kind = "plain" => request[r].left = <<>> /\ request[r].at = "entering"
        /\ Shape(request[r]) /\ ~request[r].probe
        /\ request[r].at \in {"entering", "attempting"}
    BY <1>1, Somewhere, WaitersAt
  <2>2. /\ DOMAIN q = Fields /\ q.bulkhead = b /\ q.kind = request[r].kind
        /\ q.at = request[r].at /\ q.want = e.want /\ q.probe = request[r].probe
        /\ q.held = e.held /\ q.left = request[r].left
    BY <2>1 DEF Fields
  <2> HIDE DEF q
  <2>3. CASE request[r].at = "entering"
    <3>1. \/ e.held = <<>> /\ e.want = <<<<"api">>, b>>
          \/ e.held = <<<<"api">>>> /\ e.want = <<b>>
          \/ e.held = <<<<"api">>, b>> /\ e.want = <<>> /\ ~Full(b)
      <4>1. \/ request[r].held = <<>> /\ request[r].want = <<<<"api">>, b>>
            \/ request[r].held = <<<<"api">>>> /\ request[r].want = <<b>>
        BY <1>1, <2>1, <2>3 DEF Shape, Waits
      <4> DEFINE g == <<"api">>
      <4>2. e = TakeSlot(<<>>, <<g, b>>) \/ e = TakeSlot(<<g>>, <<b>>)
        BY <4>1
      <4> HIDE DEF g, b, e
      <4>3. \/ e = [held |-> <<>>, want |-> <<g, b>>]
            \/ e = [held |-> <<g>>, want |-> <<b>>]
            \/ e = [held |-> <<g, b>>, want |-> <<>>] /\ ~Full(b)
        BY <4>2, EnterTwo, EnterSecond
      <4>4. \/ e.held = <<>> /\ e.want = <<g, b>>
            \/ e.held = <<g>> /\ e.want = <<b>>
            \/ e.held = <<g, b>> /\ e.want = <<>> /\ ~Full(b)
        BY <4>3
      <4> QED BY <4>4 DEF g, b
    <3> HIDE DEF e
    <3>2. Shape(q)
      BY <2>2, <2>3, <3>1 DEF Shape
    <3>3. RequestOK(q)
      BY <2>1, <2>2, <2>3, <3>2 DEF RequestOK
    <3>4. Len(q.held) < 2 \/ ~Full(q.bulkhead)
      BY <2>2, <3>1, ShortLengths
    <3>5. CircuitOK'
      BY <1>1, <1>4, <2>1, CircuitKept
    <3> QED BY <1>1, <1>4, <2>1, <2>2, <3>3, <3>4, <3>5, RequestMoves
  <2>4. CASE request[r].at = "attempting"
    <3>1. PICK o, p : /\ o[1] # "tenant" /\ p[1] # "tenant"
                      /\ \/ request[r].held = <<<<"api">>, b>> /\ request[r].want = <<o, p>>
                         \/ request[r].held = <<<<"api">>, b, o>> /\ request[r].want = <<p>>
      BY <1>1, <2>1, <2>4 DEF Shape, Waits
    <3>2. \/ e.held = <<<<"api">>, b>> /\ e.want = <<o, p>>
          \/ e.held = <<<<"api">>, b, o>> /\ e.want = <<p>>
          \/ e.held = <<<<"api">>, b, o, p>> /\ e.want = <<>>
      <4> DEFINE g == <<"api">>
      <4>1. e = TakeSlot(<<g, b>>, <<o, p>>) \/ e = TakeSlot(<<g, b, o>>, <<p>>)
        BY <3>1
      <4> HIDE DEF g, b, e
      <4>2. \/ e = [held |-> <<g, b>>, want |-> <<o, p>>]
            \/ e = [held |-> <<g, b, o>>, want |-> <<p>>]
            \/ e = [held |-> <<g, b, o, p>>, want |-> <<>>]
        <5>1. CASE e = TakeSlot(<<g, b>>, <<o, p>>)
          BY <5>1, EnterFour
        <5>2. CASE e = TakeSlot(<<g, b, o>>, <<p>>)
          BY <5>2, EnterFourth
        <5> QED BY <4>1, <5>1, <5>2
      <4>3. \/ e.held = <<g, b>> /\ e.want = <<o, p>>
            \/ e.held = <<g, b, o>> /\ e.want = <<p>>
            \/ e.held = <<g, b, o, p>> /\ e.want = <<>>
        BY <4>2
      <4> QED BY <4>3 DEF g, b
    <3> HIDE DEF e
    <3>3. Shape(q)
      BY <2>2, <2>4, <3>1, <3>2 DEF Shape
    <3>4. RequestOK(q)
      BY <2>1, <2>2, <2>4, <3>3 DEF RequestOK
    <3>5. Len(request[r].held) >= 2
      BY <3>1, LeaveTwo
    <3>6. CircuitOK'
      BY <1>1, <1>4, <2>1, CircuitKept
    <3> QED BY <1>1, <1>4, <2>1, <2>2, <3>4, <3>5, <3>6, RequestMoves
  <2> QED BY <2>1, <2>3, <2>4
<1> QED BY <1>2, <1>3, <1>4

\* A provider that is asked has its breaker's probe slot taken by who asks.
LEMMA AskPreserves ==
    ASSUME PressureIInv, NEW r \in Requests, Ask(r) PROVE PressureIInv'
<1> USE DEF PressureIInv
<1> DEFINE p == Head(request[r].left)
           c == circuit[p]
<1>1. request[r].at = "attempting" /\ ~Waits(r) /\ UNCHANGED <<pool, split, leaked>>
  BY DEF Ask
<1>2. /\ request[r] # Gone /\ DOMAIN request[r] = Fields
      /\ request[r].bulkhead \in TenantBulkheads
      /\ request[r].kind \in {"generate", "rewrite", "search"}
      /\ Shape(request[r]) /\ ~request[r].probe /\ request[r].want = <<>>
  BY <1>1, Somewhere DEF Waits
<1>3. CASE Refuses(c)
  <2> DEFINE q == Back(r, AfterRefusal(r))
  <2>1. request' = [request EXCEPT ![r] = q] /\ UNCHANGED circuit
    BY <1>3 DEF Ask
  <2>2. /\ RequestOK(q) /\ q.bulkhead = request[r].bulkhead /\ Len(request[r].held) >= 2
    BY <1>1, BackToWork
  <2> HIDE DEF q
  <2>3. CircuitOK'
    BY <1>1, <1>2, <2>1, CircuitKept
  <2> QED BY <1>1, <1>2, <2>1, <2>2, <2>3, RequestMoves
<1>4. CASE ~Refuses(c)
  <2> DEFINE q == [request[r] EXCEPT !.at = "calling", !.probe = c.state # "CLOSED"]
  <2>1. /\ request' = [request EXCEPT ![r] = q]
        /\ circuit' = IF c.state = "CLOSED" THEN circuit ELSE
                      [circuit EXCEPT ![p] = [@ EXCEPT !.state = "HALF_OPEN", !.inflight = TRUE]]
    BY <1>4 DEF Ask
  <2>2. /\ DOMAIN q = Fields /\ q.bulkhead = request[r].bulkhead /\ q.kind = request[r].kind
        /\ q.at = "calling" /\ q.want = <<>> /\ q.held = request[r].held
        /\ q.left = request[r].left /\ q.probe = (c.state # "CLOSED")
    BY <1>2 DEF Fields
  <2> HIDE DEF q
  <2>3. PICK o, z : /\ o[1] # "tenant" /\ z[1] # "tenant"
                    /\ request[r].held = <<<<"api">>, request[r].bulkhead, o, z>>
    BY <1>1, <1>2 DEF Shape
  <2>4. RequestOK(q)
    BY <1>2, <2>2, <2>3 DEF RequestOK, Shape
  <2>5. Len(request[r].held) >= 2
    BY <2>3
  <2>6. /\ \A s \in Requests : s # r => request'[s] = request[s]
        /\ request'[r] = q
    BY <2>1 DEF RequestsOK
  <2>7. /\ circuit' \in [Candidates -> [state : {"CLOSED", "OPEN", "HALF_OPEN"}, failures : Nat,
                                        inflight : BOOLEAN, ripe : BOOLEAN]]
        /\ \A x \in Candidates : x # p \/ c.state = "CLOSED" => circuit'[x] = circuit[x]
    BY <2>1 DEF CircuitOK
  <2>8. ProbeIsReal'
    <3> SUFFICES ASSUME NEW x \in Candidates, circuit'[x].inflight, x \notin leaked'
                 PROVE  \E s \in Requests : request'[s].probe /\ Head(request'[s].left) = x
      BY DEF ProbeIsReal
    <3>1. CASE x # p \/ c.state = "CLOSED"
      <4>1. circuit[x].inflight /\ x \notin leaked
        BY <1>1, <2>7, <3>1
      <4>2. PICK s \in Requests : request[s].probe /\ Head(request[s].left) = x
        BY <4>1 DEF CircuitOK, ProbeIsReal
      <4>3. s # r
        BY <1>2, <4>2
      <4> QED BY <2>6, <4>2, <4>3
    <3>2. CASE x = p /\ c.state # "CLOSED"
      BY <2>2, <2>6, <3>2
    <3> QED BY <3>1, <3>2
  <2>9. CircuitOK'
    BY <2>7, <2>8 DEF CircuitOK
  <2> QED BY <1>1, <1>2, <2>1, <2>2, <2>4, <2>5, <2>9, RequestMoves
<1> QED BY <1>3, <1>4

\* The end of a call, which empties its provider's probe slot and ends no other.
LEMMA CallEnds ==
    ASSUME PressureIInv, NEW r \in Requests, NEW q, NEW d, request[r].at = "calling",
           request' = [request EXCEPT ![r] = q], UNCHANGED <<pool, split, leaked>>,
           circuit' = [circuit EXCEPT ![Head(request[r].left)] = d],
           Head(request[r].left) \in Candidates =>
             d \in [state : {"CLOSED", "OPEN", "HALF_OPEN"}, failures : Nat,
                    inflight : {FALSE}, ripe : BOOLEAN],
           RequestOK(q), q.bulkhead = request[r].bulkhead
    PROVE  PressureIInv'
<1> USE DEF PressureIInv
<1> DEFINE p == Head(request[r].left)
<1>1. request[r] # Gone /\ Shape(request[r])
  BY Somewhere
<1>2. PICK o, z : \/ request[r].held = <<<<"api">>, request[r].bulkhead>>
                  \/ request[r].held = <<<<"api">>, request[r].bulkhead, o>>
                  \/ request[r].held = <<<<"api">>, request[r].bulkhead, o, z>>
  BY <1>1 DEF Shape
<1>3. Len(request[r].held) >= 2
  BY <1>2
<1>4. /\ \A s \in Requests : s # r => request'[s] = request[s]
      /\ request'[r] = q
  BY DEF RequestsOK
<1>5. /\ circuit' \in [Candidates -> [state : {"CLOSED", "OPEN", "HALF_OPEN"}, failures : Nat,
                                      inflight : BOOLEAN, ripe : BOOLEAN]]
      /\ \A x \in Candidates : x # p => circuit'[x] = circuit[x]
      /\ \A x \in Candidates : x = p => ~circuit'[x].inflight
  BY DEF CircuitOK
<1>6. ProbeIsReal'
  <2> SUFFICES ASSUME NEW x \in Candidates, circuit'[x].inflight, x \notin leaked'
               PROVE  \E s \in Requests : request'[s].probe /\ Head(request'[s].left) = x
    BY DEF ProbeIsReal
  <2>1. x # p /\ circuit[x].inflight /\ x \notin leaked
    BY <1>5
  <2>2. PICK s \in Requests : request[s].probe /\ Head(request[s].left) = x
    BY <2>1 DEF CircuitOK, ProbeIsReal
  <2> QED BY <1>4, <2>1, <2>2
<1>7. CircuitOK'
  BY <1>5, <1>6 DEF CircuitOK
<1> QED BY <1>1, <1>3, <1>7, RequestMoves

\* An answer closes the breaker.
LEMMA AnsweredPreserves ==
    ASSUME PressureIInv, NEW r \in Requests, Answered(r) PROVE PressureIInv'
<1> USE DEF PressureIInv
<1>1. /\ request[r].at = "calling" /\ UNCHANGED <<pool, split, leaked>>
      /\ circuit' = [circuit EXCEPT ![Head(request[r].left)] = Closed]
  BY DEF Answered
<1>2. PICK left : request' = [request EXCEPT ![r] = Back(r, left)]
  BY DEF Answered
<1>3. RequestOK(Back(r, left)) /\ Back(r, left).bulkhead = request[r].bulkhead
  BY <1>1, BackToWork
<1>4. Closed \in [state : {"CLOSED", "OPEN", "HALF_OPEN"}, failures : Nat,
                  inflight : {FALSE}, ripe : BOOLEAN]
  BY DEF Closed
<1> QED BY <1>1, <1>2, <1>3, <1>4, CallEnds

\* A failure counts, or opens the breaker, and never leaves the probe slot taken.
LEMMA FailedPreserves ==
    ASSUME PressureIInv, NEW r \in Requests, Failed(r) PROVE PressureIInv'
<1> USE DEF PressureIInv
<1> DEFINE p == Head(request[r].left)
           d == AfterFailure(circuit[p])
           rest == [request[r] EXCEPT !.at = "resting", !.probe = FALSE]
           back == Back(r, Tail(request[r].left))
           q == IF request[r].kind = "search" /\ Len(request[r].left) > 1 THEN rest ELSE back
<1>1. /\ request[r].at = "calling" /\ UNCHANGED <<pool, split, leaked>>
      /\ circuit' = [circuit EXCEPT ![p] = d]
      /\ request' = [request EXCEPT ![r] = q]
  BY DEF Failed
<1>2. ASSUME p \in Candidates
      PROVE  d \in [state : {"CLOSED", "OPEN", "HALF_OPEN"}, failures : Nat,
                    inflight : {FALSE}, ripe : BOOLEAN]
  <2>1. circuit[p] \in [state : {"CLOSED", "OPEN", "HALF_OPEN"}, failures : Nat,
                        inflight : BOOLEAN, ripe : BOOLEAN]
    BY <1>2 DEF CircuitOK
  <2> DEFINE c == circuit[p]
             n == IF c.failures < FailureThreshold THEN c.failures + 1 ELSE c.failures
  <2>2. n \in Nat
    BY <2>1, PressureAssumption
  <2>3. \/ d = [state |-> "OPEN", failures |-> n, inflight |-> FALSE, ripe |-> FALSE]
        \/ d = [c EXCEPT !.failures = n, !.inflight = FALSE]
    BY DEF AfterFailure
  <2> HIDE DEF n
  <2>4. CASE d = [state |-> "OPEN", failures |-> n, inflight |-> FALSE, ripe |-> FALSE]
    BY <2>2, <2>4
  <2>5. CASE d = [c EXCEPT !.failures = n, !.inflight = FALSE]
    BY <2>1, <2>2, <2>5
  <2> QED BY <2>3, <2>4, <2>5
<1>3. RequestOK(back) /\ back.bulkhead = request[r].bulkhead
  BY <1>1, BackToWork
<1>4. RequestOK(rest) /\ rest.bulkhead = request[r].bulkhead
  <2>1. /\ DOMAIN request[r] = Fields /\ request[r].bulkhead \in TenantBulkheads
        /\ request[r].kind \in {"generate", "rewrite", "search"} /\ Shape(request[r])
        /\ request[r].want = <<>>
    BY <1>1, Somewhere
  <2>2. /\ DOMAIN rest = Fields /\ rest.bulkhead = request[r].bulkhead
        /\ rest.kind = request[r].kind /\ rest.at = "resting" /\ rest.want = <<>>
        /\ rest.held = request[r].held /\ rest.probe = FALSE
    BY <2>1 DEF Fields
  <2> HIDE DEF rest
  <2>3. Shape(rest)
    BY <1>1, <2>1, <2>2 DEF Shape
  <2> QED BY <2>1, <2>2, <2>3 DEF RequestOK
<1> HIDE DEF d, rest, back
<1>5. RequestOK(q) /\ q.bulkhead = request[r].bulkhead
  BY <1>3, <1>4
<1> HIDE DEF q
<1> QED BY <1>1, <1>2, <1>5, CallEnds

\* Rested, Respond and CancelRequest.
LEMMA LeavingPreserves ==
    ASSUME PressureIInv, NEW r \in Requests, Rested(r) \/ Respond(r) \/ CancelRequest(r)
    PROVE  PressureIInv'
<1> USE DEF PressureIInv
<1>1. CASE Rested(r)
  <2> DEFINE q == Back(r, Tail(request[r].left))
  <2>1. /\ request[r].at = "resting" /\ request' = [request EXCEPT ![r] = q]
        /\ UNCHANGED <<pool, circuit, split, leaked>>
    BY <1>1 DEF Rested
  <2>2. /\ RequestOK(q) /\ q.bulkhead = request[r].bulkhead /\ request[r] # Gone
        /\ Len(request[r].held) >= 2
    BY <2>1, BackToWork
  <2>3. ~request[r].probe
    BY <2>1, Somewhere
  <2> HIDE DEF q
  <2>4. CircuitOK'
    BY <2>1, <2>3, CircuitKept
  <2> QED BY <2>1, <2>2, <2>4, RequestMoves
<1>2. CASE Respond(r)
  <2>1. /\ request[r].at = "working" /\ request' = [request EXCEPT ![r] = Gone]
        /\ UNCHANGED <<pool, circuit, split, leaked>>
    BY <1>2 DEF Respond
  <2>2. ~request[r].probe
    BY <2>1, Somewhere
  <2>3. CircuitOK'
    BY <2>1, <2>2, CircuitKept
  <2> QED BY <2>1, <2>3, GoneIsFine
<1>3. CASE CancelRequest(r)
  <2>1. /\ request' = [request EXCEPT ![r] = Gone] /\ UNCHANGED <<pool, circuit, split>>
        /\ leaked' = IF request[r].probe THEN leaked \cup {Head(request[r].left)} ELSE leaked
    BY <1>3 DEF CancelRequest
  <2>2. \A s \in Requests : s # r => request'[s] = request[s]
    BY <2>1 DEF RequestsOK
  <2>3. ProbeIsReal'
    BY <2>1, <2>2 DEF CircuitOK, ProbeIsReal
  <2>4. CircuitOK'
    BY <2>1, <2>3 DEF CircuitOK
  <2> QED BY <2>1, <2>4, GoneIsFine
<1> QED BY <1>1, <1>2, <1>3

\* Time passes for a breaker.
LEMMA TimePreserves ==
    ASSUME PressureIInv, NEW p \in Candidates, Ripen(p) \/ Prune(p)
    PROVE  PressureIInv'
<1> USE DEF PressureIInv
<1>1. UNCHANGED <<request, pool, split, leaked>>
  BY DEF Ripen, Prune
<1>2. /\ circuit' \in [Candidates -> [state : {"CLOSED", "OPEN", "HALF_OPEN"}, failures : Nat,
                                      inflight : BOOLEAN, ripe : BOOLEAN]]
      /\ \A x \in Candidates : circuit'[x].inflight = circuit[x].inflight
  <2>1. circuit[p] \in [state : {"CLOSED", "OPEN", "HALF_OPEN"}, failures : Nat,
                         inflight : BOOLEAN, ripe : BOOLEAN]
    BY DEF CircuitOK
  <2>2. CASE Ripen(p)
    BY <2>1, <2>2 DEF Ripen, CircuitOK
  <2>3. CASE Prune(p)
    <3> DEFINE c == [circuit[p] EXCEPT !.failures = @ - 1]
    <3>1. circuit' = [circuit EXCEPT ![p] = c] /\ circuit[p].failures > 0
      BY <2>3 DEF Prune
    <3>2. circuit[p].failures - 1 \in Nat
      BY <2>1, <3>1
    <3>3. /\ c \in [state : {"CLOSED", "OPEN", "HALF_OPEN"}, failures : Nat,
                     inflight : BOOLEAN, ripe : BOOLEAN]
          /\ c.inflight = circuit[p].inflight
      BY <2>1, <3>2
    <3> HIDE DEF c
    <3> QED BY <3>1, <3>3 DEF CircuitOK
  <2> QED BY <2>2, <2>3
<1>3. CircuitOK'
  BY <1>1, <1>2 DEF CircuitOK, ProbeIsReal
<1>4. RequestsOK' /\ PoolOK' /\ ShareOK'
  BY <1>1 DEF RequestsOK, PoolOK, ShareOK, Within
<1> QED BY <1>3, <1>4

\* A bounded nonempty set of naturals has a greatest element.
LEMMA GreatestNatural ==
    ASSUME NEW T \in SUBSET Nat, T # {}, NEW n \in Nat, \A y \in T : y <= n
    PROVE  \E x \in T : \A y \in T : y <= x
<1> DEFINE R == OpToRel(<, Nat)
           U == {n - y : y \in T}
<1>1. IsWellFoundedOn(R, Nat)
  BY NatLessThanWellFounded
<1>2. \A x, y \in Nat : x < y => <<x, y>> \in R
  BY DEF OpToRel
<1>3. U \subseteq Nat /\ U # {}
  <2>1. \A y \in T : n - y \in Nat
    OBVIOUS
  <2> QED BY <2>1
<1> HIDE DEF R
<1>4. PICK u \in U : \A v \in U : ~ (<<v, u>> \in R)
  <2> HIDE DEF U
  <2> QED BY <1>1, <1>3, WFMin
<1>5. PICK x \in T : u = n - x
  OBVIOUS
<1>6. ASSUME NEW y \in T PROVE y <= x
  <2>1. n - y \in U /\ n - y \in Nat /\ u \in Nat /\ x \in Nat /\ y \in Nat
    BY <1>3
  <2>2. ~ (n - y < u)
    BY <1>2, <1>4, <2>1
  <2> QED BY <1>5, <2>1, <2>2
<1> QED BY <1>6

\* _evict_idle never drops the bulkhead that get has just put at the young end.
LEMMA EvictionStops ==
    ASSUME NEW items \in Seq(TenantBulkheads), Len(items) > 0
    PROVE  Evicted(items) \in 0 .. Len(items) - 1
<1> DEFINE excess == Len(items) - MaxTracked
           can == {n \in 0 .. Len(items) : n <= excess /\ \A i \in 1 .. n :
                     Taken(items[i]) = 0 /\ Waiting(items[i]) = 0}
<1>1. MaxTracked \in Nat \ {0} /\ Len(items) \in Nat
  BY PressureAssumption
<1>2. CASE excess <= 0
  BY <1>1, <1>2 DEF Evicted
<1>3. CASE ~(excess <= 0)
  <2>1. Evicted(items) = CHOOSE n \in can : \A m \in can : m <= n
    BY <1>3 DEF Evicted
  <2>2. 0 \in can
    BY <1>1, <1>3
  <2>3. can \in SUBSET Nat /\ \A m \in can : m <= Len(items) /\ m <= excess
    BY <1>1
  <2> HIDE DEF can
  <2>4. \E n \in can : \A m \in can : m <= n
    BY <1>1, <2>2, <2>3, GreatestNatural
  <2>5. Evicted(items) \in can
    BY <2>1, <2>4
  <2>6. Evicted(items) \in Nat /\ Evicted(items) <= excess
    BY <2>3, <2>5
  <2> QED BY <1>1, <2>6
<1> QED BY <1>2, <1>3

\* What get does to the pool, and whose bulkheads it may drop.
LEMMA GetTenantKeeps ==
    ASSUME RequestsOK, PoolOK, NEW t \in Tenants, NEW b \in TenantBulkheads, b[2] = t,
           GetTenant(t, b)
    PROVE  /\ split \subseteq split'
           /\ pool' \in Seq(TenantBulkheads)
           /\ \A i, j \in DOMAIN pool' : pool'[i][2] = pool'[j][2] => i = j
           /\ \E i \in DOMAIN pool' : pool'[i] = b
           /\ \A s \in Requests : request[s] # Gone /\ request[s].bulkhead[2] \notin split' =>
                /\ \E i \in DOMAIN pool' : pool'[i] = request[s].bulkhead
                /\ request[s].bulkhead[2] = t => request[s].bulkhead = b
<1>1. CASE \E i \in DOMAIN pool : pool[i] = b /\ pool' = MovedToEnd(i) /\ UNCHANGED split
  <2>1. PICK i \in DOMAIN pool : pool[i] = b /\ pool' = MovedToEnd(i)
    BY <1>1
  <2> DEFINE n == Len(pool)
             from(k) == IF k < i THEN k ELSE IF k < n THEN k + 1 ELSE i
  <2>2. n \in Nat /\ DOMAIN pool = 1 .. n /\ i \in 1 .. n
    BY DEF PoolOK
  <2>3. \A k \in 1 .. n : from(k) \in 1 .. n
    <3> HIDE DEF n
    <3> QED BY <2>2
  <2>4. \A k, l \in 1 .. n : from(k) = from(l) => k = l
    <3> SUFFICES ASSUME NEW k \in 1 .. n, NEW l \in 1 .. n, from(k) = from(l) PROVE k = l
      OBVIOUS
    <3>1. k \in Nat /\ l \in Nat /\ k <= n /\ l <= n /\ i \in Nat /\ i <= n /\ n \in Nat
      BY <2>2
    <3>2. ASSUME NEW m \in Nat, m <= n
          PROVE  /\ m < i => from(m) = m
                 /\ ~(m < i) /\ m < n => from(m) = m + 1
                 /\ ~(m < i) /\ ~(m < n) => from(m) = i
      OBVIOUS
    <3>3. /\ k < i => from(k) = k
          /\ ~(k < i) /\ k < n => from(k) = k + 1
          /\ ~(k < i) /\ ~(k < n) => from(k) = i
      BY <3>1, <3>2
    <3>4. /\ l < i => from(l) = l
          /\ ~(l < i) /\ l < n => from(l) = l + 1
          /\ ~(l < i) /\ ~(l < n) => from(l) = i
      BY <3>1, <3>2
    <3> DEFINE x == from(k)
               y == from(l)
    <3>5. x = y
      OBVIOUS
    <3> HIDE DEF from, n
    <3> QED BY <3>3, <3>4, <3>1, <3>5
  <2>5. \A l \in 1 .. n : \E k \in 1 .. n : from(k) = l
    <3> SUFFICES ASSUME NEW l \in 1 .. n PROVE \E k \in 1 .. n : from(k) = l
      OBVIOUS
    <3>1. CASE l < i
      BY <2>2, <3>1
    <3>2. CASE l = i
      <4>1. ~(n < i) /\ ~(n < n)
        BY <2>2
      <4>2. from(n) = l
        BY <3>2, <4>1
      <4>3. n \in 1 .. n
        BY <2>2
      <4> QED BY <4>2, <4>3
    <3>3. CASE l > i
      <4>1. l - 1 \in 1 .. n /\ from(l - 1) = l
        BY <2>2, <3>3
      <4> QED BY <4>1
    <3> QED BY <2>2, <3>1, <3>2, <3>3
  <2>6. pool' = [k \in 1 .. n |-> pool[from(k)]]
    BY <2>1, <2>2 DEF MovedToEnd
  <2> HIDE DEF from
  <2>7. pool' \in Seq(TenantBulkheads) /\ DOMAIN pool' = 1 .. n
    <3>1. \A k \in 1 .. n : pool[from(k)] \in TenantBulkheads
      BY <2>2, <2>3 DEF PoolOK
    <3> HIDE DEF n
    <3> QED BY <2>2, <2>6, <3>1
  <2>8. \A k, l \in DOMAIN pool' : pool'[k][2] = pool'[l][2] => k = l
    BY <2>2, <2>3, <2>4, <2>6, <2>7 DEF PoolOK
  <2>9. \A k \in DOMAIN pool : \E l \in DOMAIN pool' : pool'[l] = pool[k]
    BY <2>2, <2>5, <2>6, <2>7
  <2>10. ASSUME NEW s \in Requests, request[s] # Gone, request[s].bulkhead[2] \notin split'
         PROVE  /\ \E k \in DOMAIN pool' : pool'[k] = request[s].bulkhead
                /\ request[s].bulkhead[2] = t => request[s].bulkhead = b
    <3>1. PICK j \in DOMAIN pool : pool[j] = request[s].bulkhead
      BY <1>1, <2>10 DEF PoolOK
    <3>2. request[s].bulkhead[2] = t => j = i
      BY <2>1, <3>1 DEF PoolOK
    <3> QED BY <2>1, <2>9, <3>1, <3>2
  <2> QED BY <1>1, <2>1, <2>7, <2>8, <2>9, <2>10
<1>2. CASE ~ \E i \in DOMAIN pool : pool[i] = b /\ pool' = MovedToEnd(i) /\ UNCHANGED split
  <2> DEFINE items == Append(pool, b)
             n == Evicted(items)
  <2>1. /\ \A i \in DOMAIN pool : pool[i][2] # t
        /\ pool' = SubSeq(items, n + 1, Len(items))
        /\ split' = split \cup {items[i][2] : i \in
                {k \in 1 .. n : \E r \in Requests : request[r].bulkhead = items[k]}}
    BY <1>2 DEF GetTenant
  <2> DEFINE m == Len(pool)
  <2>2. /\ m \in Nat /\ DOMAIN pool = 1 .. m
        /\ items \in Seq(TenantBulkheads) /\ Len(items) = m + 1
        /\ items[m + 1] = b /\ \A i \in 1 .. m : items[i] = pool[i]
    BY DEF PoolOK
  <2> HIDE DEF items
  <2>3. n \in 0 .. m
    BY <2>2, EvictionStops
  <2> HIDE DEF n, m
  <2>4. \A i \in n + 1 .. m + 1 : items[i] \in TenantBulkheads
    BY <2>2, <2>3
  <2>5. /\ pool' \in Seq(TenantBulkheads) /\ Len(pool') = m + 1 - n
        /\ \A i \in 1 .. m + 1 - n : pool'[i] = items[n + i]
    <3>1. pool' = SubSeq(items, n + 1, m + 1) /\ n + 1 \in Int /\ m + 1 \in Int
          /\ n + 1 <= m + 1 /\ (m + 1) - (n + 1) + 1 = m + 1 - n
          /\ \A i \in 1 .. m + 1 - n : (n + 1) + i - 1 = n + i
      BY <2>1, <2>2, <2>3
    <3> QED BY <2>4, <3>1, SubSeqProperties
  <2>6. DOMAIN pool' = 1 .. m + 1 - n
    BY <2>5
  <2>7. \A i, j \in 1 .. m + 1 : items[i][2] = items[j][2] => i = j
    BY <2>1, <2>2 DEF PoolOK
  <2>8. \A i, j \in DOMAIN pool' : pool'[i][2] = pool'[j][2] => i = j
    <3> SUFFICES ASSUME NEW i \in DOMAIN pool', NEW j \in DOMAIN pool',
                        pool'[i][2] = pool'[j][2]
                 PROVE  i = j
      OBVIOUS
    <3>1. n + i \in 1 .. m + 1 /\ n + j \in 1 .. m + 1 /\ i \in Nat /\ j \in Nat
      BY <2>2, <2>3, <2>6
    <3>2. n + i = n + j
      BY <2>5, <2>6, <2>7, <3>1
    <3> QED BY <2>3, <3>1, <3>2
  <2>9. pool'[m + 1 - n] = b /\ m + 1 - n \in DOMAIN pool'
    <3>1. m + 1 - n \in 1 .. m + 1 - n /\ n + (m + 1 - n) = m + 1
      BY <2>2, <2>3
    <3> QED BY <2>2, <2>5, <2>6, <3>1
  <2>10. ASSUME NEW s \in Requests, request[s] # Gone, request[s].bulkhead[2] \notin split'
         PROVE  /\ \E k \in DOMAIN pool' : pool'[k] = request[s].bulkhead
                /\ request[s].bulkhead[2] = t => request[s].bulkhead = b
    <3>1. PICK j \in DOMAIN pool : pool[j] = request[s].bulkhead
      BY <2>1, <2>10 DEF PoolOK
    <3>2. items[j] = request[s].bulkhead
      BY <2>2, <3>1
    <3>3. ~(j <= n)
      <4>1. j <= n => j \in 1 .. n
        BY <2>2, <2>3
      <4> QED BY <2>1, <2>10, <3>2, <4>1
    <3>4. j - n \in 1 .. m + 1 - n /\ n + (j - n) = j
      BY <2>2, <2>3, <3>3
    <3>5. pool'[j - n] = request[s].bulkhead
      BY <2>5, <3>2, <3>4
    <3> QED BY <2>1, <2>6, <3>1, <3>4, <3>5
  <2> QED BY <2>1, <2>5, <2>8, <2>9, <2>10
<1> QED BY <1>1, <1>2

\* An arrival enters as many of the two bulkheads as have room.
LEMMA ArrivePreserves ==
    ASSUME PressureIInv, NEW r \in Requests, NEW t \in Tenants,
           NEW k \in {"generate", "rewrite", "search", "plain"}, NEW p, Arrive(r, t, k, p)
    PROVE  PressureIInv'
<1> USE DEF PressureIInv
<1>1. PICK b \in {<<"tenant", t, n>> : n \in 1 .. Cardinality(Requests) + 1} :
         /\ GetTenant(t, b)
         /\ LET e == TakeSlot(<<>>, <<<<"api">>, b>>) IN
            request' = IF Saturated(e) THEN request ELSE
               [request EXCEPT ![r] = [Gone EXCEPT !.kind = k, !.at = "entering",
                   !.bulkhead = b, !.held = e.held, !.want = e.want, !.left = Todo(k, p)]]
  BY DEF Arrive
<1>2. request[r] = Gone /\ UNCHANGED <<circuit, leaked>>
  BY DEF Arrive
<1>3. b \in TenantBulkheads /\ b[2] = t
  BY DEF TenantBulkheads
<1>4. /\ split \subseteq split'
      /\ pool' \in Seq(TenantBulkheads)
      /\ \A i, j \in DOMAIN pool' : pool'[i][2] = pool'[j][2] => i = j
      /\ \E i \in DOMAIN pool' : pool'[i] = b
      /\ \A s \in Requests : request[s] # Gone /\ request[s].bulkhead[2] \notin split' =>
           /\ \E i \in DOMAIN pool' : pool'[i] = request[s].bulkhead
           /\ request[s].bulkhead[2] = t => request[s].bulkhead = b
  BY <1>1, <1>3, GetTenantKeeps
<1> DEFINE e == TakeSlot(<<>>, <<<<"api">>, b>>)
           q == [Gone EXCEPT !.kind = k, !.at = "entering", !.bulkhead = b,
                             !.held = e.held, !.want = e.want, !.left = Todo(k, p)]
<1>5. request' = request \/ request' = [request EXCEPT ![r] = q]
  BY <1>1
<1>6. CASE request' = request
  <2>1. PoolOK'
    BY <1>4, <1>6 DEF PoolOK
  <2>2. ShareOK'
    BY <1>4, <1>6 DEF ShareOK, Within
  <2>3. RequestsOK' /\ CircuitOK'
    BY <1>2, <1>6 DEF RequestsOK, CircuitOK, ProbeIsReal
  <2> QED BY <2>1, <2>2, <2>3
<1>7. CASE request' = [request EXCEPT ![r] = q]
  <2>1. /\ DOMAIN q = Fields /\ q.bulkhead = b /\ q.kind = k /\ q.at = "entering"
        /\ q.want = e.want /\ q.held = e.held /\ q.left = Todo(k, p) /\ q.probe = FALSE
    BY DEF Gone, Fields
  <2>2. k = "plain" => Todo(k, p) = <<>>
    BY DEF Todo
  <2>3. \/ e.held = <<>> /\ e.want = <<<<"api">>, b>>
        \/ e.held = <<<<"api">>>> /\ e.want = <<b>>
        \/ e.held = <<<<"api">>, b>> /\ e.want = <<>> /\ ~Full(b)
    <3> DEFINE g == <<"api">>
    <3>1. e = TakeSlot(<<>>, <<g, b>>)
      OBVIOUS
    <3> HIDE DEF g, e
    <3>2. \/ e = [held |-> <<>>, want |-> <<g, b>>]
          \/ e = [held |-> <<g>>, want |-> <<b>>]
          \/ e = [held |-> <<g, b>>, want |-> <<>>] /\ ~Full(b)
      BY <3>1, EnterTwo
    <3>3. \/ e.held = <<>> /\ e.want = <<g, b>>
          \/ e.held = <<g>> /\ e.want = <<b>>
          \/ e.held = <<g, b>> /\ e.want = <<>> /\ ~Full(b)
      BY <3>2
    <3> QED BY <3>3 DEF g
  <2> HIDE DEF e, q
  <2>4. RequestOK(q)
    BY <1>3, <2>1, <2>2, <2>3 DEF RequestOK, Shape
  <2>5. Len(q.held) < 2 \/ ~Full(q.bulkhead)
    BY <2>1, <2>3, ShortLengths
  <2>6. \A s \in Requests : request[s] # Gone /\ request[s].bulkhead[2] = q.bulkhead[2]
                            /\ q.bulkhead[2] \notin split' => request[s].bulkhead = q.bulkhead
    BY <1>3, <1>4, <2>1
  <2>7. ShareOK'
    BY <1>4, <1>7, <2>4, <2>5, <2>6, ShareKept
  <2>8. /\ \A s \in Requests : s # r => request'[s] = request[s]
        /\ request'[r] = q
    BY <1>7 DEF RequestsOK
  <2>9. RequestsOK'
    BY <1>7, <2>4, <2>8 DEF RequestsOK
  <2>10. \A s \in Requests : request'[s] # Gone /\ request'[s].bulkhead[2] \notin split' =>
            \E i \in DOMAIN pool' : pool'[i] = request'[s].bulkhead
    BY <1>4, <2>1, <2>8
  <2>11. PoolOK'
    BY <1>4, <2>10 DEF PoolOK
  <2>12. ~request[r].probe
    BY <1>2 DEF Gone
  <2>13. CircuitOK'
    BY <1>2, <1>7, <2>12, CircuitKept
  <2> QED BY <2>7, <2>9, <2>11, <2>13
<1> QED BY <1>5, <1>6, <1>7

\* Every step preserves the inductive invariant of the bulkheads.
LEMMA PressureStepPreserves ==
    ASSUME PressureIInv, [PressureNext]_pressureVars PROVE PressureIInv'
<1>1. ASSUME NEW r \in Requests, RequestStep(r) PROVE PressureIInv'
  BY <1>1, HandlePreserves, AttemptPreserves, AskPreserves, AnsweredPreserves,
     FailedPreserves, LeavingPreserves DEF RequestStep
<1>2. ASSUME NEW r \in Requests, Proceed(r) PROVE PressureIInv'
  BY <1>2, ProceedPreserves
<1>3. ASSUME NEW r \in Requests, WaitTimesOut(r) PROVE PressureIInv'
  BY <1>3, GivesUpPreserves DEF WaitTimesOut
<1>4. ASSUME NEW r \in Requests, CancelRequest(r) PROVE PressureIInv'
  BY <1>4, LeavingPreserves
<1>5. ASSUME NEW x \in Workload, NEW p \in Candidates, Arrive(x[1], x[2], x[3], p)
      PROVE  PressureIInv'
  <2>1. /\ x[1] \in Requests /\ x[2] \in Tenants
        /\ x[3] \in {"generate", "rewrite", "search", "plain"}
    BY PressureAssumption
  <2> QED BY <1>5, <2>1, ArrivePreserves
<1>6. ASSUME NEW p \in Candidates, Ripen(p) \/ Prune(p) PROVE PressureIInv'
  BY <1>6, TimePreserves
<1>7. CASE UNCHANGED pressureVars
  BY <1>7 DEF pressureVars, PressureIInv, RequestsOK, PoolOK, ShareOK, Within, CircuitOK,
              ProbeIsReal
<1> QED BY <1>1, <1>2, <1>3, <1>4, <1>5, <1>6, <1>7 DEF PressureNext

\* The inductive invariant of bulkheads and breakers holds in every behaviour.
THEOREM PressureInvariance == PressureSpec => []PressureIInv
BY PressureInitEstablishes, PressureStepPreserves, PTL DEF PressureSpec

\* The places a tenant has taken are those of the requests within its bulkhead.
LEMMA TenantPlaces ==
    ASSUME RequestsOK, NEW t \in Tenants
    PROVE  LET places == {place \in PlacesHeld : Held(place)[1] = "tenant" /\ Held(place)[2] = t}
           IN  Cardinality(places) \in Nat /\ Cardinality(places) <= Cardinality(Within(t))
               /\ Cardinality(Within(t)) \in Nat
<1> DEFINE P == {place \in PlacesHeld : Held(place)[1] = "tenant" /\ Held(place)[2] = t}
           f == [place \in P |-> place[1]]
<1>1. \A place \in P : /\ place = <<place[1], 2>> /\ place[1] \in Within(t)
  <2> SUFFICES ASSUME NEW place \in P
               PROVE  place = <<place[1], 2>> /\ place[1] \in Within(t)
    OBVIOUS
  <2>1. /\ place \in Requests \X (1 .. 4) /\ place[2] <= Len(request[place[1]].held)
        /\ request[place[1]].held[place[2]][1] = "tenant"
        /\ request[place[1]].held[place[2]][2] = t
    BY DEF PlacesHeld, Held
  <2>2. place[1] \in Requests /\ place[2] \in 1 .. 4 /\ place = <<place[1], place[2]>>
    BY <2>1
  <2>3. RequestOK(request[place[1]])
    BY <2>2 DEF RequestsOK
  <2>4. place[2] = 2
    BY <2>1, <2>2, <2>3, PlacesOfTenants
  <2>5. Len(request[place[1]].held) >= 2
        /\ request[place[1]].held[2] = request[place[1]].bulkhead
    BY <2>1, <2>3, <2>4, PlacesOfTenants
  <2> QED BY <2>1, <2>2, <2>4, <2>5 DEF Within
<1> HIDE DEF P
<1>2. f \in Injection(P, Within(t))
  BY <1>1 DEF Injection, IsInjective
<1>3. IsFiniteSet(Within(t))
  <2>1. Within(t) \subseteq Requests
    BY DEF Within
  <2> QED BY <2>1, PressureAssumption, FS_Subset
<1>4. IsFiniteSet(P) /\ Cardinality(P) <= Cardinality(Within(t))
  BY <1>2, <1>3, FS_Injection
<1>5. Cardinality(P) \in Nat /\ Cardinality(Within(t)) \in Nat
  BY <1>3, <1>4, FS_CardinalityType
<1> QED BY <1>4, <1>5 DEF P

\* A tenant has no more requests in its handlers than its share, however the pool
\* evicts and creates bulkheads, unless its bulkhead was evicted under a request
\* that had it and waited for the global one (KeyedBulkheadPool, _evict_idle).
THEOREM SharesHold == PressureSpec => []TenantShare
<1>1. PressureIInv => TenantShare
  <2> SUFFICES ASSUME PressureIInv, NEW t \in Tenants,
                      Cardinality({place \in PlacesHeld :
                          Held(place)[1] = "tenant" /\ Held(place)[2] = t}) > TenantMax
               PROVE  t \in split
    BY DEF TenantShare
  <2>1. Cardinality(Within(t)) > TenantMax
    BY TenantPlaces, PressureAssumption DEF PressureIInv
  <2> QED BY <2>1 DEF PressureIInv, ShareOK
<1> QED BY <1>1, PressureInvariance, PTL

\* A breaker's half-open slot is taken only by a request that probes the provider,
\* or was by one that was cancelled (before_call, record_success, record_failure).
THEOREM ProbesAreReal == PressureSpec => []ProbeIsReal
<1>1. PressureIInv => ProbeIsReal
  BY DEF PressureIInv, CircuitOK
<1> QED BY <1>1, PressureInvariance, PTL

(***************************************************************************)
(* Jobs of the single-process mode.                                        *)
(***************************************************************************)

OnWorker(j) == \E w \in LocalWorkers : worker[w].job = j

\* A worker has a job while it runs or ends one, and no job has two workers.
WorkersOK ==
    \A w \in LocalWorkers :
        /\ worker[w].task \in {"none", "gone"} <=> worker[w].job = NoJob
        /\ \A v \in LocalWorkers :
              worker[v].job = worker[w].job /\ worker[w].job # NoJob => v = w

\* A job has a runner only until a worker, a cancellation or the end of its put
\* takes it, and is promised to be cancelled only after that.
RunnersOK ==
    \A j \in LocalIds :
        /\ j \in runners => record[j] = "PENDING" /\ ~OnWorker(j) /\ j \notin promised
        /\ OnWorker(j) => record[j] \notin {"ABSENT", "PENDING"}
        /\ j \in promised => record[j] # "ABSENT"

\* A promised job is a task that was told to stop, or its record says so.
PromisesOK ==
    \A j \in promised :
        IF OnWorker(j)
        THEN \A w \in LocalWorkers :
                worker[w].job = j => worker[w].task \in {"cancelling", "cancelled"}
        ELSE record[j] \in {"CANCELLED", "FAILED"}

LocalIInv == LocalTypeOK /\ WorkersOK /\ RunnersOK /\ PromisesOK

\* The initial state satisfies the inductive invariant of the jobs.
LEMMA LocalInitEstablishes == LocalInit => LocalIInv
<1> SUFFICES ASSUME LocalInit PROVE LocalIInv
  OBVIOUS
<1>1. LocalTypeOK
  <2>1. <<>> \in Seq(LocalIds) /\ Len(<<>>) = 0
    OBVIOUS
  <2> QED BY <2>1, LocalAssumption DEF LocalInit, LocalTypeOK, LocalStatuses, Idle
<1>2. WorkersOK /\ RunnersOK /\ PromisesOK
  BY LocalAssumption DEF LocalInit, WorkersOK, RunnersOK, PromisesOK, OnWorker, Idle
<1> QED BY <1>1, <1>2 DEF LocalIInv

\* Steps of the broker and of the queue alone leave jobs as they are.
LEMMA JobsUntouched ==
    ASSUME LocalIInv, UNCHANGED <<record, runners, worker, promised>>, LocalTypeOK'
    PROVE  LocalIInv'
BY DEF LocalIInv, WorkersOK, RunnersOK, PromisesOK, OnWorker

\* What is at the head of the queue is a job, and the rest is no longer.
LEMMA HeadOfQueue ==
    ASSUME LocalTypeOK, queue # <<>>
    PROVE  /\ Head(queue) \in LocalIds /\ Tail(queue) \in Seq(LocalIds)
           /\ Len(Tail(queue)) <= QueueCapacity
BY LocalAssumption DEF LocalTypeOK

\* An entry put where there is room fits.
LEMMA PutFits ==
    ASSUME LocalTypeOK, NEW j \in LocalIds, ~QueueFull
    PROVE  Append(queue, j) \in Seq(LocalIds) /\ Len(Append(queue, j)) <= QueueCapacity
BY LocalAssumption DEF LocalTypeOK, QueueFull

\* Only one job's record and runner change: submit, the end of a put, cancel.
LEMMA OneJobChanges ==
    ASSUME LocalIInv, NEW j \in LocalIds, NEW status \in LocalStatuses,
           record' = [record EXCEPT ![j] = status], UNCHANGED worker,
           runners' \subseteq runners \cup {j}, promised' \subseteq promised \cup {j},
           promised \subseteq promised', LocalTypeOK',
           j \in runners' => status = "PENDING" /\ ~OnWorker(j) /\ j \notin promised',
           OnWorker(j) => status \notin {"ABSENT", "PENDING"} /\ promised' = promised,
           j \in promised' => status \in {"CANCELLED", "FAILED"}
    PROVE  LocalIInv'
<1> USE DEF LocalIInv
<1>1. \A i \in LocalIds : record'[i] = IF i = j THEN status ELSE record[i]
  BY DEF LocalTypeOK
<1>2. \A i : OnWorker(i)' <=> OnWorker(i)
  BY DEF OnWorker
<1>3. WorkersOK'
  BY DEF WorkersOK
<1>4. RunnersOK'
  BY <1>1, <1>2 DEF RunnersOK
<1>5. PromisesOK'
  BY <1>1, <1>2 DEF PromisesOK, LocalTypeOK
<1> QED BY <1>3, <1>4, <1>5

\* A worker takes a job that nobody has, and that nobody was promised the end of.
LEMMA StartJobPreserves ==
    ASSUME LocalIInv, NEW w \in LocalWorkers, StartJob(w) PROVE LocalIInv'
<1> USE DEF LocalIInv
<1> DEFINE j == Head(queue)
           busy == [job |-> j, task |-> "live"]
<1>1. /\ worker[w] = Idle /\ queue # <<>> /\ j \in runners
      /\ queue' = Tail(queue) /\ runners' = runners \ {j}
      /\ record' = [record EXCEPT ![j] = "RUNNING"]
      /\ worker' = [worker EXCEPT ![w] = busy]
      /\ UNCHANGED <<putting, flagged, phase, promised>>
  BY DEF StartJob
<1>2. /\ j \in LocalIds /\ Tail(queue) \in Seq(LocalIds) /\ Len(Tail(queue)) <= QueueCapacity
  BY <1>1, HeadOfQueue
<1> HIDE DEF j
<1>3. record[j] = "PENDING" /\ ~OnWorker(j) /\ j \notin promised /\ j # NoJob
  BY <1>1, <1>2, LocalAssumption DEF RunnersOK
<1>4. LocalTypeOK'
  BY <1>1, <1>2 DEF LocalTypeOK, LocalStatuses
<1>5. /\ \A i \in LocalIds : record'[i] = IF i = j THEN "RUNNING" ELSE record[i]
      /\ \A v \in LocalWorkers : worker'[v] = IF v = w THEN busy ELSE worker[v]
      /\ busy.job = j /\ busy.task = "live" /\ worker[w].job = NoJob
  BY <1>1 DEF LocalTypeOK, Idle
<1> HIDE DEF busy
<1>6. WorkersOK'
  BY <1>3, <1>5 DEF WorkersOK, OnWorker
<1>7. \A i \in LocalIds : OnWorker(i)' <=> OnWorker(i) \/ i = j
  BY <1>5, LocalAssumption DEF OnWorker
<1>8. RunnersOK'
  BY <1>1, <1>5, <1>7 DEF RunnersOK
<1>9. PromisesOK'
  <2> SUFFICES ASSUME NEW i \in promised'
               PROVE  IF OnWorker(i)'
                      THEN \A v \in LocalWorkers : worker'[v].job = i =>
                              worker'[v].task \in {"cancelling", "cancelled"}
                      ELSE record'[i] \in {"CANCELLED", "FAILED"}
    BY DEF PromisesOK, OnWorker
  <2>1. i \in promised /\ i # j /\ i \in LocalIds
    BY <1>1, <1>3 DEF LocalTypeOK
  <2> QED BY <1>5, <1>7, <2>1 DEF PromisesOK
<1> QED BY <1>4, <1>6, <1>8, <1>9

\* The task of a worker's job ends, or is told to.
LEMMA TaskChanges ==
    ASSUME LocalIInv, NEW w \in LocalWorkers, NEW task \in {"cancelling"} \cup Ends,
           worker[w].job # NoJob, worker' = [worker EXCEPT ![w].task = task],
           UNCHANGED <<record, queue, putting, runners, flagged, phase>>,
           \/ promised' = promised
           \/ promised' = promised \cup {worker[w].job} /\ task = "cancelling",
           worker[w].task \in {"cancelling", "cancelled"} => task \in {"cancelling", "cancelled"}
    PROVE  LocalIInv'
<1> USE DEF LocalIInv
<1> DEFINE busy == [worker[w] EXCEPT !.task = task]
<1>1. /\ worker[w] \in [job : LocalIds \cup {NoJob},
                        task : {"none", "live", "cancelling", "gone"} \cup Ends]
      /\ worker[w].job \in LocalIds
  BY DEF LocalTypeOK
<1>2. LocalTypeOK'
  BY <1>1 DEF LocalTypeOK
<1>3. /\ \A v \in LocalWorkers : worker'[v] = IF v = w THEN busy ELSE worker[v]
      /\ busy.job = worker[w].job /\ busy.task = task
  BY <1>1 DEF LocalTypeOK
<1> HIDE DEF busy
<1>4. \A i : OnWorker(i)' <=> OnWorker(i)
  BY <1>3 DEF OnWorker
<1>5. task # "none" /\ task # "gone"
  BY DEF Ends
<1>6. WorkersOK'
  BY <1>3, <1>5 DEF WorkersOK
<1>7. OnWorker(worker[w].job)
  BY DEF OnWorker
<1>8. record[worker[w].job] # "ABSENT" /\ worker[w].job \notin runners
  BY <1>1, <1>7 DEF RunnersOK
<1>9. RunnersOK'
  BY <1>4, <1>8 DEF RunnersOK
<1>10. PromisesOK'
  <2> SUFFICES ASSUME NEW i \in promised'
               PROVE  IF OnWorker(i)'
                      THEN \A v \in LocalWorkers : worker'[v].job = i =>
                              worker'[v].task \in {"cancelling", "cancelled"}
                      ELSE record'[i] \in {"CANCELLED", "FAILED"}
    BY DEF PromisesOK, OnWorker
  <2>1. CASE i \in promised
    <3>1. CASE OnWorker(i)
      <4>1. \A v \in LocalWorkers :
               worker[v].job = i => worker[v].task \in {"cancelling", "cancelled"}
        BY <2>1, <3>1 DEF PromisesOK
      <4> QED BY <1>3, <1>4, <3>1, <4>1
    <3>2. CASE ~OnWorker(i)
      <4>1. record[i] \in {"CANCELLED", "FAILED"}
        BY <2>1, <3>2 DEF PromisesOK
      <4> QED BY <1>4, <3>2, <4>1
    <3> QED BY <3>1, <3>2
  <2>2. CASE i \notin promised
    <3>1. i = worker[w].job /\ task = "cancelling"
      BY <2>2
    <3>2. \A v \in LocalWorkers : worker[v].job = i => v = w
      BY <3>1 DEF WorkersOK
    <3> QED BY <1>3, <1>4, <1>7, <3>1, <3>2
  <2> QED BY <2>1, <2>2
<1> QED BY <1>2, <1>6, <1>9, <1>10

\* The verdict on a promised job is that it was cancelled.
LEMMA SettlePreserves ==
    ASSUME LocalIInv, NEW w \in LocalWorkers, Settle(w) PROVE LocalIInv'
<1> USE DEF LocalIInv
<1> DEFINE j == worker[w].job
           end == worker[w].task
<1>1. /\ end \in Ends /\ record' = [record EXCEPT ![j] = Verdict(end)]
      /\ worker' = [worker EXCEPT ![w] = Idle]
      /\ UNCHANGED <<queue, putting, runners, flagged, phase, promised>>
  BY DEF Settle
<1>2. /\ j \in LocalIds
      /\ Verdict(end) \in {"COMPLETED", "FAILED", "CANCELLED"}
      /\ end = "cancelled" => Verdict(end) = "CANCELLED"
  BY <1>1, LocalAssumption DEF Ends, Verdict, LocalTypeOK, WorkersOK
<1>3. OnWorker(j)
  BY DEF OnWorker
<1>4. \A v \in LocalWorkers : worker[v].job = j => v = w
  BY <1>2, LocalAssumption DEF WorkersOK
<1>5. j \in promised => Verdict(end) = "CANCELLED"
  BY <1>1, <1>2, <1>3 DEF PromisesOK, Ends
<1>6. /\ \A i \in LocalIds : record'[i] = IF i = j THEN Verdict(end) ELSE record[i]
      /\ \A v \in LocalWorkers : worker'[v] = IF v = w THEN Idle ELSE worker[v]
      /\ Idle.job = NoJob /\ Idle.task = "none"
  BY <1>1 DEF LocalTypeOK, Idle
<1>7. LocalTypeOK'
  <2>1. Idle \in [job : LocalIds \cup {NoJob},
                  task : {"none", "live", "cancelling", "gone"} \cup Ends]
    BY DEF Idle
  <2>2. Verdict(end) \in LocalStatuses
    BY <1>2 DEF LocalStatuses
  <2> HIDE DEF j, end
  <2> QED BY <1>1, <2>1, <2>2 DEF LocalTypeOK
<1> HIDE DEF j, end
<1>8. WorkersOK'
  BY <1>6 DEF WorkersOK
<1>9. \A i \in LocalIds : OnWorker(i)' <=> OnWorker(i) /\ i # j
  <2> SUFFICES ASSUME NEW i \in LocalIds PROVE OnWorker(i)' <=> OnWorker(i) /\ i # j
    OBVIOUS
  <2>1. i # NoJob
    BY LocalAssumption
  <2>2. worker[w].job = j
    BY DEF j
  <2> QED BY <1>4, <1>6, <2>1, <2>2 DEF OnWorker
<1>10. RunnersOK'
  BY <1>1, <1>2, <1>3, <1>6, <1>9 DEF RunnersOK
<1>11. PromisesOK'
  <2> SUFFICES ASSUME NEW i \in promised'
               PROVE  IF OnWorker(i)'
                      THEN \A v \in LocalWorkers : worker'[v].job = i =>
                              worker'[v].task \in {"cancelling", "cancelled"}
                      ELSE record'[i] \in {"CANCELLED", "FAILED"}
    BY DEF PromisesOK, OnWorker
  <2>1. i \in promised /\ i \in LocalIds
    BY <1>1 DEF LocalTypeOK
  <2>2. i # NoJob
    BY <2>1, LocalAssumption
  <2> QED BY <1>5, <1>6, <1>9, <2>1, <2>2 DEF PromisesOK
<1> QED BY <1>7, <1>8, <1>10, <1>11

\* StopWorkers tells the running tasks to stop, and takes back what they ended as.
LEMMA StopWorkersPreserves ==
    ASSUME LocalIInv, StopWorkers PROVE LocalIInv'
<1> USE DEF LocalIInv
<1>1. UNCHANGED <<record, queue, putting, runners, flagged, promised>> /\ phase' = "gathering"
  BY DEF StopWorkers
<1>2. ASSUME NEW w \in LocalWorkers
      PROVE  /\ worker'[w] \in [job : LocalIds \cup {NoJob},
                                task : {"none", "live", "cancelling", "gone"} \cup Ends]
             /\ worker'[w].job = worker[w].job
             /\ worker[w].task = "none" => worker'[w].task = "gone"
             /\ worker[w].task = "gone" => worker'[w].task = "gone"
             /\ worker[w].task \notin {"none", "gone"} =>
                  worker'[w].task \in {"cancelling", "cancelled"}
  <2>1. worker[w] \in [job : LocalIds \cup {NoJob},
                       task : {"none", "live", "cancelling", "gone"} \cup Ends]
    BY DEF LocalTypeOK
  <2>2. worker'[w] = CASE worker[w].task = "none" -> [job |-> NoJob, task |-> "gone"]
                       [] worker[w].task = "live" -> [worker[w] EXCEPT !.task = "cancelling"]
                       [] worker[w].task \in Ends -> [worker[w] EXCEPT !.task = "cancelled"]
                       [] OTHER -> worker[w]
    BY DEF StopWorkers
  <2>3. worker[w].task = "none" => worker[w].job = NoJob
    BY DEF WorkersOK
  <2>4. CASE worker[w].task = "none"
    <3>1. worker'[w] = [job |-> NoJob, task |-> "gone"]
      BY <2>2, <2>4 DEF Ends
    <3> QED BY <2>3, <2>4, <3>1
  <2>5. CASE worker[w].task = "live"
    <3>1. worker'[w] = [worker[w] EXCEPT !.task = "cancelling"]
      BY <2>2, <2>5 DEF Ends
    <3> QED BY <2>1, <2>5, <3>1
  <2>6. CASE worker[w].task \in Ends
    <3>1. worker'[w] = [worker[w] EXCEPT !.task = "cancelled"]
      BY <2>2, <2>6 DEF Ends
    <3> QED BY <2>1, <2>6, <3>1 DEF Ends
  <2>7. CASE worker[w].task \in {"cancelling", "gone"}
    <3>1. worker'[w] = worker[w]
      BY <2>2, <2>7 DEF Ends
    <3> QED BY <2>1, <2>7, <3>1
  <2> QED BY <2>1, <2>4, <2>5, <2>6, <2>7
<1>3. LocalTypeOK'
  <2>1. DOMAIN worker' = LocalWorkers
        /\ worker' = [w \in LocalWorkers |-> worker'[w]]
    BY DEF StopWorkers
  <2> QED BY <1>1, <1>2, <2>1 DEF LocalTypeOK
<1>4. \A i : OnWorker(i)' <=> OnWorker(i)
  BY <1>2 DEF OnWorker
<1>5. WorkersOK'
  BY <1>2 DEF WorkersOK
<1>6. RunnersOK'
  BY <1>1, <1>4 DEF RunnersOK
<1>7. PromisesOK'
  <2> SUFFICES ASSUME NEW i \in promised
               PROVE  IF OnWorker(i)'
                      THEN \A v \in LocalWorkers : worker'[v].job = i =>
                              worker'[v].task \in {"cancelling", "cancelled"}
                      ELSE record'[i] \in {"CANCELLED", "FAILED"}
    BY <1>1 DEF PromisesOK, OnWorker
  <2>1. i # NoJob
    BY LocalAssumption DEF LocalTypeOK
  <2>2. \A v \in LocalWorkers : worker[v].job = i => worker[v].task \notin {"none", "gone"}
    BY <2>1 DEF WorkersOK
  <2> QED BY <1>1, <1>2, <1>4, <2>2 DEF PromisesOK
<1> QED BY <1>3, <1>5, <1>6, <1>7

\* Submissions, puts that end and cancellations of waiting jobs.
LEMMA WaitingJobPreserves ==
    ASSUME LocalIInv, NEW j \in LocalIds, SubmitJob(j) \/ PutTimesOut(j) \/ CancelPending(j)
    PROVE  LocalIInv'
<1> USE DEF LocalIInv
<1>1. CASE SubmitJob(j)
  <2>1. /\ record[j] = "ABSENT" /\ record' = [record EXCEPT ![j] = "PENDING"]
        /\ runners' = runners \cup {j} /\ UNCHANGED <<flagged, worker, phase, promised>>
        /\ IF QueueFull THEN putting' = putting \cup {j} /\ UNCHANGED queue
           ELSE queue' = Append(queue, j) /\ UNCHANGED putting
    BY <1>1 DEF SubmitJob
  <2>2. ~OnWorker(j) /\ j \notin promised
    BY <2>1 DEF RunnersOK
  <2>3. LocalTypeOK'
    <3>1. queue' \in Seq(LocalIds) /\ Len(queue') <= QueueCapacity /\ putting' \subseteq LocalIds
      BY <2>1, PutFits DEF LocalTypeOK
    <3> QED BY <2>1, <3>1 DEF LocalTypeOK, LocalStatuses
  <2>4. "PENDING" \in LocalStatuses
    BY DEF LocalStatuses
  <2> QED BY <2>1, <2>2, <2>3, <2>4, OneJobChanges
<1>2. CASE PutTimesOut(j)
  <2>1. /\ putting' = putting \ {j} /\ runners' = runners \ {j}
        /\ record' = [record EXCEPT ![j] = "FAILED"]
        /\ UNCHANGED <<queue, flagged, worker, phase, promised>>
    BY <1>2 DEF PutTimesOut
  <2>2. LocalTypeOK' /\ "FAILED" \in LocalStatuses
    BY <2>1 DEF LocalTypeOK, LocalStatuses
  <2> QED BY <2>1, <2>2, OneJobChanges
<1>3. CASE CancelPending(j)
  <2>1. /\ j \in runners /\ flagged' = flagged \cup {j} /\ runners' = runners \ {j}
        /\ record' = [record EXCEPT ![j] = "CANCELLED"] /\ promised' = promised \cup {j}
        /\ UNCHANGED <<queue, putting, worker, phase>>
    BY <1>3 DEF CancelPending
  <2>2. ~OnWorker(j)
    BY <2>1 DEF RunnersOK
  <2>3. LocalTypeOK' /\ "CANCELLED" \in LocalStatuses
    BY <2>1 DEF LocalTypeOK, LocalStatuses
  <2> QED BY <2>1, <2>2, <2>3, OneJobChanges
<1> QED BY <1>1, <1>2, <1>3

\* Every step preserves the inductive invariant of the jobs.
LEMMA LocalStepPreserves ==
    ASSUME LocalIInv, [LocalNext]_localVars PROVE LocalIInv'
<1> USE DEF LocalIInv
<1>1. ASSUME UNCHANGED jobState PROVE LocalIInv'
  <2>1. LocalTypeOK'
    BY <1>1 DEF jobState, LocalTypeOK
  <2> QED BY <1>1, <2>1, JobsUntouched DEF jobState
<1>2. ASSUME LazyClean PROVE LocalIInv'
  BY <1>1, <1>2 DEF LazyClean
<1>3. ASSUME NEW j \in LocalIds, Expire(j) PROVE LocalIInv'
  BY <1>1, <1>3 DEF Expire
<1>4. ASSUME NEW f \in Followers, Wake(f) \/ Deliver(f) \/ Disconnect(f) PROVE LocalIInv'
  <2>1. UNCHANGED jobState
    BY <1>4 DEF Wake, Deliver, Disconnect, Leave
  <2> QED BY <1>1, <2>1
<1>5. ASSUME NEW f \in Followers, NEW j \in LocalIds, NEW c, Follow(f, j, c) PROVE LocalIInv'
  BY <1>1, <1>5 DEF Follow
<1>6. ASSUME Shutdown \/ ShutdownEnds PROVE LocalIInv'
  <2>1. UNCHANGED <<record, queue, putting, runners, flagged, worker, promised>>
        /\ phase' \in {"draining", "down"}
    BY <1>6 DEF Shutdown, ShutdownEnds
  <2>2. LocalTypeOK'
    BY <2>1 DEF LocalTypeOK
  <2> QED BY <2>1, <2>2, JobsUntouched
<1>7. ASSUME NEW j \in LocalIds, PutLater(j) PROVE LocalIInv'
  <2>1. /\ ~QueueFull /\ queue' = Append(queue, j) /\ putting' = putting \ {j}
        /\ UNCHANGED <<record, runners, flagged, worker, phase, promised>>
    BY <1>7 DEF PutLater
  <2>2. LocalTypeOK'
    <3>1. queue' \in Seq(LocalIds) /\ Len(queue') <= QueueCapacity
      BY <2>1, PutFits
    <3> QED BY <2>1, <3>1 DEF LocalTypeOK
  <2> QED BY <2>1, <2>2, JobsUntouched
<1>8. ASSUME NEW w \in LocalWorkers, Drop(w) PROVE LocalIInv'
  <2>1. /\ queue # <<>> /\ queue' = Tail(queue) /\ flagged' = flagged \ {Head(queue)}
        /\ UNCHANGED <<record, putting, runners, worker, phase, promised>>
    BY <1>8 DEF Drop
  <2>2. LocalTypeOK'
    <3>1. queue' \in Seq(LocalIds) /\ Len(queue') <= QueueCapacity
      BY <2>1, HeadOfQueue
    <3> QED BY <2>1, <3>1 DEF LocalTypeOK
  <2> QED BY <2>1, <2>2, JobsUntouched
<1>9. ASSUME NEW w \in LocalWorkers, TaskEnds(w) PROVE LocalIInv'
  <2>1. PICK end \in Ends : /\ worker[w].task = "cancelling" => end = "cancelled"
                            /\ worker' = [worker EXCEPT ![w].task = end]
    BY <1>9 DEF TaskEnds
  <2>2. worker[w].task \in {"live", "cancelling"}
        /\ UNCHANGED <<record, queue, putting, runners, flagged, phase, promised>>
    BY <1>9 DEF TaskEnds
  <2>3. worker[w].job # NoJob
    BY <2>2 DEF WorkersOK
  <2> QED BY <2>1, <2>2, <2>3, TaskChanges
<1>10. ASSUME NEW j \in LocalIds, CancelRunning(j) PROVE LocalIInv'
  <2>1. PICK w \in LocalWorkers :
           /\ worker[w].job = j /\ worker' = [worker EXCEPT ![w].task = "cancelling"]
           /\ promised' = promised \cup {j}
           /\ UNCHANGED <<record, queue, putting, runners, flagged, phase>>
    BY <1>10 DEF CancelRunning
  <2>2. worker[w].job # NoJob
    BY <2>1, LocalAssumption
  <2> QED BY <2>1, <2>2, TaskChanges
<1>11. CASE UNCHANGED localVars
  BY <1>1, <1>11 DEF localVars, jobState
<1> QED BY <1>2, <1>3, <1>4, <1>5, <1>6, <1>7, <1>8, <1>9, <1>10, <1>11, StartJobPreserves,
           SettlePreserves, StopWorkersPreserves, WaitingJobPreserves DEF LocalNext

\* The inductive invariant of the jobs holds in every behaviour.
THEOREM LocalInvariance == LocalSpec => []LocalIInv
BY LocalInitEstablishes, LocalStepPreserves, PTL DEF LocalSpec

\* A job that cancel said is cancelled ends CANCELLED, or FAILED by the end of its
\* put, and until then is a task that was told to stop (JobService.cancel,
\* _worker, _execute, shutdown).
THEOREM PromisesAreKept == LocalSpec => []PromiseKept
<1>1. LocalIInv => PromiseKept
  BY DEF LocalIInv, PromisesOK, OnWorker, PromiseKept
<1> QED BY <1>1, LocalInvariance, PTL

(***************************************************************************)
(* Searches and what the host brings to them.                              *)
(***************************************************************************)

ProviderNames == LiveSet \cup WishedFor \cup {"client_web", "fixture", "authorized_import"}
Leading == {"gathering", "storing"}
Calls == [at : {"off", "done", "refused", "failed"} \cup Underway,
          kind : {"public", "web", "named", "import"}, names : SUBSET ProviderNames,
          variants : Nat, todo : SUBSET ProviderNames,
          origins : SUBSET (ProviderNames \cup Searches), leader : Searches \cup {Nobody}]
Entries == [key : (SUBSET ProviderNames) \X Nat, origins : SUBSET ProviderNames]

SearchTypeOK ==
    /\ search \in [Searches -> Calls]
    /\ met \in [Searches -> SUBSET Searches]
    /\ hostResults \in Searches \cup {Nobody}
    /\ nearCache \in Seq(Entries) /\ farCache \subseteq Entries

\* Only a call that has results or names client_web asks that provider, and only
\* who leads has found something.
CallOK(q) ==
    /\ q.at \in Underway => ("client_web" \in q.names <=> q.kind \in {"web", "named"})
    /\ q.at \in {"reading", "storing"} => "client_web" \notin q.names
    /\ q.at \notin Leading \cup {"done"} => q.origins = {}
    /\ q.at \in Leading => /\ q.todo \subseteq q.names
                           /\ "client_web" \notin q.names => q.origins \subseteq ProviderNames
CallsOK == \A c \in Searches : CallOK(search[c])

\* What a leader has found of the host's, and what it may find.
GatheredOK ==
    \A c \in Searches : search[c].at \in Leading =>
        \A o \in search[c].origins \cap Searches :
            o = c \/ o \in met[c] \/ search[c].kind = "named"
HostsOK ==
    \A c \in ActiveSearches : search[c].kind = "web" =>
        hostResults = c \/ hostResults \in met[c]

\* A follower has met its leader, if that one may find something of the host's, and
\* everybody whom its leader has met.
FollowersOK ==
    \A c \in Searches : search[c].at = "following" =>
        LET d == search[c].leader IN
        /\ d \in Searches /\ search[d].at \in Leading
        /\ search[d].names = search[c].names
        /\ search[d].kind # "import" /\ search[c].kind # "import"
        /\ met[d] \subseteq met[c] \cup {c}
        /\ Hosted(search[d]) => d \in met[c]

\* A call that has its report, from its own search or its leader's.
ReportsOK ==
    \A c \in Searches : search[c].at = "done" =>
        \A o \in search[c].origins \cap Searches :
            \/ o = c \/ o \in met[c]
            \/ \E d \in Sources(c) \cap Searches :
                  search[d].kind = "named" /\ search[d].at = "done"

SearchIInv == /\ SearchTypeOK /\ CallsOK /\ GatheredOK /\ HostsOK /\ FollowersOK /\ ReportsOK

\* No provider's name is a call's.
LEMMA NamesAreNoCalls == ProviderNames \cap Searches = {}
BY SearchAssumption DEF ProviderNames

\* A call that nobody made yet is one.
LEMMA UnbornIsACall ==
    /\ Unborn \in Calls /\ Unborn.at = "off" /\ Unborn.kind = "public" /\ Unborn.names = {}
    /\ Unborn.origins = {} /\ Unborn.leader = Nobody
BY DEF Unborn, Calls

\* The initial state satisfies the inductive invariant of the searches.
LEMMA SearchInitEstablishes == SearchInit => SearchIInv
<1> SUFFICES ASSUME SearchInit PROVE SearchIInv
  OBVIOUS
<1>1. \A c \in Searches : search[c] = Unborn
  BY DEF SearchInit
<1>2. SearchTypeOK
  <2>1. <<>> \in Seq(Entries)
    OBVIOUS
  <2> QED BY <2>1, UnbornIsACall DEF SearchInit, SearchTypeOK
<1>3. CallsOK
  BY <1>1, UnbornIsACall DEF CallsOK, CallOK, Underway, Leading
<1>4. GatheredOK /\ HostsOK /\ FollowersOK /\ ReportsOK
  BY <1>1, UnbornIsACall
     DEF GatheredOK, HostsOK, FollowersOK, ReportsOK, ActiveSearches, Underway, Leading
<1> QED BY <1>2, <1>3, <1>4 DEF SearchIInv

\* What the near cache holds without a key is what it held.
LEMMA WithoutKeeps ==
    ASSUME nearCache \in Seq(Entries), NEW k
    PROVE  Without(k) \in Seq(Entries)
<1>1. CASE NearHits(k) = {}
  BY <1>1 DEF Without
<1>2. CASE NearHits(k) # {}
  <2> DEFINE at == CHOOSE i \in NearHits(k) : TRUE
             n == Len(nearCache)
  <2>1. n \in Nat /\ DOMAIN nearCache = 1 .. n /\ at \in 1 .. n
    BY <1>2 DEF NearHits
  <2>2. Without(k) = [i \in 1 .. n - 1 |-> nearCache[IF i < at THEN i ELSE i + 1]]
    BY <1>2 DEF Without
  <2> HIDE DEF at
  <2>3. \A i \in 1 .. n - 1 : (IF i < at THEN i ELSE i + 1) \in 1 .. n
    <3> HIDE DEF n
    <3> QED BY <2>1
  <2>4. \A i \in 1 .. n : nearCache[i] \in Entries
    BY <2>1
  <2>5. n - 1 \in Nat
    <3> HIDE DEF n
    <3> QED BY <2>1
  <2>6. \A i \in 1 .. n - 1 : nearCache[IF i < at THEN i ELSE i + 1] \in Entries
    BY <2>3, <2>4
  <2> HIDE DEF n
  <2> QED BY <2>2, <2>5, <2>6
<1> QED BY <1>1, <1>2

\* What is put into it is what it holds then.
LEMMA PutKeeps ==
    ASSUME nearCache \in Seq(Entries), NEW e \in Entries
    PROVE  Put(e) \in Seq(Entries)
<1> DEFINE all == Append(Without(e.key), e)
<1>1. all \in Seq(Entries) /\ all # <<>>
  <2>1. Without(e.key) \in Seq(Entries)
    BY WithoutKeeps
  <2> QED BY <2>1
<1>2. Put(e) = IF Len(all) > CacheEntries THEN Tail(all) ELSE all
  BY DEF Put
<1> HIDE DEF all
<1> QED BY <1>1, <1>2

\* One call begins to lead, follows, or is done with what no host brought: who it
\* meets meets it.
LEMMA Enters ==
    ASSUME SearchIInv, NEW c \in Searches, NEW n \in Calls,
           search[c].at \in {"off", "reading"}, search' = [search EXCEPT ![c] = n],
           CallOK(n), n.at \notin {"off", "storing"},
           n.at \in {"gathering", "done"} => n.origins \subseteq ProviderNames,
           n.at = "following" =>
             /\ n.leader \in Searches /\ search[n.leader].at \in Leading
             /\ search[n.leader].names = n.names
             /\ search[n.leader].kind # "import" /\ n.kind # "import",
           Meetings(c, n) \/ (met' = met /\ ~Hosted(n) /\ n.at = "done"),
           search[c].at = "reading" => ~Hosted(n),
           hostResults' = hostResults \/ (hostResults' = c /\ Hosted(n)),
           n.kind = "web" /\ n.at \in Underway => hostResults' = c,
           nearCache' \in Seq(Entries), farCache' = farCache
    PROVE  SearchIInv'
<1> USE DEF SearchIInv
<1>1. /\ \A d \in Searches : d # c => search'[d] = search[d]
      /\ search'[c] = n
  BY DEF SearchTypeOK
<1>2. /\ met' \in [Searches -> SUBSET Searches]
      /\ \A d \in Searches : met[d] \subseteq met'[d]
      /\ \A d \in Searches : d # c => met'[d] \subseteq met[d] \cup {c}
      /\ \A d \in ActiveSearches : d # c /\ Hosted(n) => c \in met'[d]
      /\ \A d \in ActiveSearches : d # c /\ ~Hosted(n) => met'[d] = met[d]
      /\ n.at = "following" => /\ met[n.leader] \subseteq met'[c]
                               /\ \A e \in ActiveSearches : Hosted(search[e]) => e \in met'[c]
  <2>1. CASE Meetings(c, n)
    <3> DEFINE mine == met[c] \cup {e \in ActiveSearches : Hosted(search[e])} \cup
                       (IF n.at = "following" THEN met[n.leader] ELSE {})
    <3>1. c \in ActiveSearches => ~Hosted(n)
      BY DEF ActiveSearches, Underway
    <3>2. /\ DOMAIN met' = Searches /\ met'[c] = mine
          /\ \A d \in Searches : d # c =>
                met'[d] = IF d \in ActiveSearches /\ Hosted(n) THEN met[d] \cup {c} ELSE met[d]
      BY <2>1, <3>1 DEF Meetings
    <3>3. mine \subseteq Searches /\ met[c] \subseteq mine
      BY DEF SearchTypeOK, ActiveSearches
    <3>4. n.at = "following" => /\ met[n.leader] \subseteq mine
                                /\ \A e \in ActiveSearches : Hosted(search[e]) => e \in mine
      OBVIOUS
    <3> HIDE DEF mine
    <3>5. \A d \in Searches : met'[d] \subseteq Searches
      BY <3>2, <3>3 DEF SearchTypeOK
    <3>6. \A d \in ActiveSearches : d \in Searches
      BY DEF ActiveSearches
    <3>7. met' = [d \in Searches |-> met'[d]]
      BY <2>1 DEF Meetings
    <3> QED BY <3>2, <3>3, <3>4, <3>5, <3>6, <3>7
  <2>2. CASE met' = met /\ ~Hosted(n) /\ n.at = "done"
    BY <2>2 DEF SearchTypeOK
  <2> QED BY <2>1, <2>2
<1>3. SearchTypeOK'
  BY <1>2 DEF SearchTypeOK
<1>4. CallsOK'
  BY <1>1 DEF CallsOK
<1>5. GatheredOK'
  <2> SUFFICES ASSUME NEW d \in Searches, search'[d].at \in Leading,
                      NEW o \in search'[d].origins \cap Searches
               PROVE  o = d \/ o \in met'[d] \/ search'[d].kind = "named"
    BY DEF GatheredOK
  <2>1. d # c
    BY <1>1, NamesAreNoCalls DEF Leading
  <2> QED BY <1>1, <1>2, <2>1 DEF GatheredOK
<1>6. HostsOK'
  <2> SUFFICES ASSUME NEW d \in Searches, search'[d].at \in Underway, search'[d].kind = "web"
               PROVE  hostResults' = d \/ hostResults' \in met'[d]
    BY DEF HostsOK, ActiveSearches
  <2>1. CASE d = c
    BY <1>1, <2>1
  <2>2. CASE d # c
    <3>1. d \in ActiveSearches /\ search[d].kind = "web"
      BY <1>1, <2>2 DEF ActiveSearches
    <3> QED BY <1>2, <2>2, <3>1 DEF HostsOK
  <2> QED BY <2>1, <2>2
<1>7. FollowersOK'
  <2> SUFFICES ASSUME NEW d \in Searches, search'[d].at = "following"
               PROVE  LET e == search'[d].leader IN
                      /\ e \in Searches /\ search'[e].at \in Leading
                      /\ search'[e].names = search'[d].names
                      /\ search'[e].kind # "import" /\ search'[d].kind # "import"
                      /\ met'[e] \subseteq met'[d] \cup {d}
                      /\ Hosted(search'[e]) => e \in met'[d]
    BY DEF FollowersOK, Hosted
  <2> DEFINE e == search'[d].leader
  <2>1. CASE d = c
    <3>1. /\ e \in Searches /\ search[e].at \in Leading /\ search[e].names = n.names
          /\ search[e].kind # "import" /\ n.kind # "import" /\ e = n.leader
          /\ n.at = "following"
      BY <1>1, <2>1
    <3>2. e # c /\ e \in ActiveSearches
      BY <3>1 DEF Leading, ActiveSearches, Underway
    <3>3. search'[e] = search[e]
      BY <1>1, <3>1, <3>2
    <3>4. met[e] \subseteq met'[c] /\ (Hosted(search[e]) => e \in met'[c])
      BY <1>2, <3>1, <3>2
    <3>5. met'[e] \subseteq met[e] \cup {c}
      BY <1>2, <3>1, <3>2
    <3> QED BY <1>1, <2>1, <3>1, <3>3, <3>4, <3>5
  <2>2. CASE d # c
    <3>1. search'[d] = search[d] /\ search[d].at = "following"
      BY <1>1, <2>2
    <3>2. /\ e \in Searches /\ search[e].at \in Leading
          /\ search[e].names = search[d].names
          /\ search[e].kind # "import" /\ search[d].kind # "import"
          /\ met[e] \subseteq met[d] \cup {d}
          /\ Hosted(search[e]) => e \in met[d]
      BY <3>1 DEF FollowersOK
    <3>3. e # c /\ e \in ActiveSearches /\ d \in ActiveSearches
      BY <3>1, <3>2 DEF Leading, ActiveSearches, Underway
    <3>4. search'[e] = search[e]
      BY <1>1, <3>2, <3>3
    <3>5. met'[e] \subseteq met'[d] \cup {d}
      <4>1. CASE Hosted(n)
        BY <1>2, <2>2, <3>2, <3>3, <4>1
      <4>2. CASE ~Hosted(n)
        BY <1>2, <2>2, <3>2, <3>3, <4>2
      <4> QED BY <4>1, <4>2
    <3> HIDE DEF e
    <3>6. Hosted(search'[e]) => e \in met'[d]
      BY <1>2, <3>2, <3>4
    <3> QED BY <3>1, <3>2, <3>4, <3>5, <3>6 DEF e
  <2> QED BY <2>1, <2>2
<1>8. ReportsOK'
  <2> SUFFICES ASSUME NEW d \in Searches, search'[d].at = "done",
                      NEW o \in search'[d].origins \cap Searches
               PROVE  \/ o = d \/ o \in met'[d]
                      \/ \E e \in Sources(d)' \cap Searches :
                            search'[e].kind = "named" /\ search'[e].at = "done"
    BY DEF ReportsOK
  <2>1. d # c
    BY <1>1, NamesAreNoCalls
  <2>2. \/ o = d \/ o \in met[d]
        \/ \E e \in Sources(d) \cap Searches :
              search[e].kind = "named" /\ search[e].at = "done"
    BY <1>1, <2>1 DEF ReportsOK
  <2>3. ASSUME NEW e \in Sources(d) \cap Searches,
               search[e].kind = "named", search[e].at = "done"
        PROVE  /\ e \in Sources(d)' \cap Searches
               /\ search'[e].kind = "named" /\ search'[e].at = "done"
    BY <1>1, <2>1, <2>3 DEF Sources
  <2> QED BY <1>2, <2>2, <2>3
<1> QED BY <1>3, <1>4, <1>5, <1>6, <1>7, <1>8

\* Some calls that were under way come to their end, with all who follow them.
LEMMA CallsLeave ==
    ASSUME SearchIInv, NEW D \in SUBSET Searches,
           \A d \in D : search[d].at \in Underway,
           \A d \in Searches : search[d].at = "following" /\ search[d].leader \in D => d \in D,
           search' \in [Searches -> Calls],
           \A d \in Searches : d \notin D => search'[d] = search[d],
           \A d \in D : search'[d].at \in {"done", "failed"} /\ CallOK(search'[d]),
           \A d \in D : search'[d].at = "done" =>
              \A o \in search'[d].origins \cap Searches :
                 \/ o = d \/ o \in met[d]
                 \/ \E e \in Sources(d)' \cap Searches :
                       search'[e].kind = "named" /\ search'[e].at = "done",
           UNCHANGED <<met, hostResults>>,
           nearCache' \in Seq(Entries), farCache' \subseteq Entries
    PROVE  SearchIInv'
<1> USE DEF SearchIInv
<1>1. SearchTypeOK'
  BY DEF SearchTypeOK
<1>2. CallsOK'
  BY DEF CallsOK
<1>3. \A d \in Searches : search'[d].at \in Underway => d \notin D
  BY DEF Underway
<1>4. GatheredOK'
  BY <1>3 DEF GatheredOK, Leading, Underway
<1>5. HostsOK'
  BY <1>3 DEF HostsOK, ActiveSearches
<1>6. FollowersOK'
  <2> SUFFICES ASSUME NEW d \in Searches, search'[d].at = "following"
               PROVE  LET e == search'[d].leader IN
                      /\ e \in Searches /\ search'[e].at \in Leading
                      /\ search'[e].names = search'[d].names
                      /\ search'[e].kind # "import" /\ search'[d].kind # "import"
                      /\ met'[e] \subseteq met'[d] \cup {d}
                      /\ Hosted(search'[e]) => e \in met'[d]
    BY DEF FollowersOK, Hosted
  <2> DEFINE e == search'[d].leader
  <2>1. search'[d] = search[d] /\ search[d].at = "following" /\ d \notin D
    BY <1>3 DEF Underway
  <2>2. /\ e \in Searches /\ search[e].at \in Leading
        /\ search[e].names = search[d].names
        /\ search[e].kind # "import" /\ search[d].kind # "import"
        /\ met[e] \subseteq met[d] \cup {d}
        /\ Hosted(search[e]) => e \in met[d]
    BY <2>1 DEF FollowersOK
  <2>3. search'[e] = search[e]
    BY <2>1, <2>2
  <2> HIDE DEF e
  <2> QED BY <2>1, <2>2, <2>3 DEF e
<1>7. ReportsOK'
  <2> SUFFICES ASSUME NEW d \in Searches, search'[d].at = "done",
                      NEW o \in search'[d].origins \cap Searches
               PROVE  \/ o = d \/ o \in met'[d]
                      \/ \E e \in Sources(d)' \cap Searches :
                            search'[e].kind = "named" /\ search'[e].at = "done"
    BY DEF ReportsOK
  <2>1. CASE d \in D
    BY <2>1
  <2>2. CASE d \notin D
    <3>1. \/ o = d \/ o \in met[d]
          \/ \E e \in Sources(d) \cap Searches :
                search[e].kind = "named" /\ search[e].at = "done"
      BY <2>2 DEF ReportsOK
    <3>2. ASSUME NEW e \in Sources(d) \cap Searches,
                 search[e].kind = "named", search[e].at = "done"
          PROVE  /\ e \in Sources(d)' \cap Searches
                 /\ search'[e].kind = "named" /\ search'[e].at = "done"
      <4>1. e \notin D
        BY <3>2 DEF Underway
      <4> QED BY <2>2, <3>2, <4>1 DEF Sources
    <3> QED BY <3>1, <3>2
  <2> QED BY <2>1, <2>2
<1> QED BY <1>1, <1>2, <1>4, <1>5, <1>6, <1>7

\* A call that has its report keeps its kind.
LEMMA ReportIsACall ==
    ASSUME NEW q \in Calls, NEW o \in SUBSET (ProviderNames \cup Searches)
    PROVE  /\ Reported(q, o) \in Calls /\ Reported(q, o).at = "done"
           /\ Reported(q, o).kind = q.kind /\ Reported(q, o).origins = o
           /\ Reported(q, o).leader = q.leader
           /\ Reported(q, o).names = {}
BY DEF Reported, Calls, Unborn

\* A leader with its report: it and its followers are done.
LEMMA LeaderReports ==
    ASSUME SearchIInv, NEW c \in Searches, search[c].at \in Leading,
           NEW kept \in SUBSET search[c].origins,
           search' = Settled(c, [d \in Searches |-> Reported(search[d], kept)]),
           UNCHANGED <<met, hostResults>>,
           nearCache' \in Seq(Entries), farCache' \subseteq Entries
    PROVE  SearchIInv'
<1> USE DEF SearchIInv
<1> DEFINE D == {d \in Searches : d = c \/ (search[d].at = "following" /\ search[d].leader = c)}
<1>1. \A d \in D : search'[d] = Reported(search[d], kept)
  BY DEF Settled
<1>2. \A d \in Searches : d \notin D => search'[d] = search[d]
  BY DEF Settled
<1>3. \A d \in D : /\ search'[d] \in Calls /\ search'[d].at = "done"
                   /\ search'[d].kind = search[d].kind /\ search'[d].origins = kept
                   /\ search'[d].leader = search[d].leader
  <2> SUFFICES ASSUME NEW d \in D
               PROVE  /\ search'[d] \in Calls /\ search'[d].at = "done"
                      /\ search'[d].kind = search[d].kind /\ search'[d].origins = kept
                      /\ search'[d].leader = search[d].leader
    OBVIOUS
  <2>1. search[d] \in Calls /\ kept \subseteq ProviderNames \cup Searches
    BY DEF SearchTypeOK, Calls
  <2> QED BY <1>1, <2>1, ReportIsACall
<1>4. search' \in [Searches -> Calls]
  BY <1>2, <1>3 DEF SearchTypeOK, Settled
<1>5. \A d \in D : search[d].at \in Underway
  BY DEF Underway, Leading
<1>6. \A d \in Searches : search[d].at = "following" /\ search[d].leader \in D => d \in D
  <2> SUFFICES ASSUME NEW d \in Searches, search[d].at = "following", search[d].leader \in D
               PROVE  search[d].leader = c
    OBVIOUS
  <2>1. search[search[d].leader].at \in Leading
    BY DEF FollowersOK
  <2> QED BY <2>1 DEF Leading
<1>7. ASSUME NEW d \in D, NEW o \in kept \cap Searches
      PROVE  \/ o = d \/ o \in met[d]
             \/ \E e \in Sources(d)' \cap Searches :
                   search'[e].kind = "named" /\ search'[e].at = "done"
  <2>1. o = c \/ o \in met[c] \/ search[c].kind = "named"
    BY DEF GatheredOK
  <2>2. search'[c].kind = search[c].kind /\ search'[c].at = "done"
    BY <1>3
  <2>3. CASE d = c
    <3>1. d \in Sources(d)'
      BY DEF Sources
    <3> QED BY <2>1, <2>2, <2>3, <3>1
  <2>4. CASE d # c
    <3>1. search[d].at = "following" /\ search[d].leader = c
      BY <2>4
    <3>2. met[c] \subseteq met[d] \cup {d} /\ (Hosted(search[c]) => c \in met[d])
      BY <3>1 DEF FollowersOK
    <3>3. ~(search[c].origins \subseteq ProviderNames)
      BY NamesAreNoCalls
    <3>4. Hosted(search[c])
      BY <3>3 DEF CallsOK, CallOK, Hosted, Underway, Leading
    <3>5. c \in Sources(d)'
      BY <1>3, <3>1, SearchAssumption DEF Sources
    <3> QED BY <2>1, <2>2, <3>2, <3>4, <3>5
  <2> QED BY <2>3, <2>4
<1>8. \A d \in D : CallOK(search'[d])
  BY <1>3 DEF CallOK, Underway, Leading
<1> HIDE DEF D
<1>9. D \in SUBSET Searches
  BY DEF D
<1>10. \A d \in D : search'[d].at = "done" => \A o \in search'[d].origins \cap Searches :
             \/ o = d \/ o \in met[d]
             \/ \E e \in Sources(d)' \cap Searches :
                   search'[e].kind = "named" /\ search'[e].at = "done"
  BY <1>3, <1>7
<1>11. \A d \in D : search'[d].at \in {"done", "failed"} /\ CallOK(search'[d])
  BY <1>3, <1>8
<1> QED BY <1>2, <1>4, <1>5, <1>6, <1>9, <1>10, <1>11, CallsLeave

\* A call that breaks off, with its followers if it leads.
LEMMA CallBreaks ==
    ASSUME SearchIInv, NEW c \in Searches, search[c].at \in Underway, search' = Broken(c),
           UNCHANGED <<hostResults, nearCache, farCache, met>>
    PROVE  SearchIInv'
<1> USE DEF SearchIInv
<1> DEFINE failed == [Unborn EXCEPT !.at = "failed"]
           D == {d \in Searches : \/ d = c
                                  \/ /\ search[c].at \in Leading
                                     /\ search[d].at = "following" /\ search[d].leader = c}
<1>1. failed \in Calls /\ failed.at = "failed" /\ failed.origins = {}
  BY DEF Unborn, Calls
<1>2. \A d \in Searches : search'[d] = IF d \in D THEN failed ELSE search[d]
  <2>1. CASE search[c].at \in Leading
    BY <2>1 DEF Broken, Settled, Leading
  <2>2. CASE search[c].at \notin Leading
    BY <2>2 DEF Broken, Leading, SearchTypeOK
  <2> QED BY <2>1, <2>2
<1>3. DOMAIN search' = Searches /\ search' = [d \in Searches |-> search'[d]]
  <2>1. CASE search[c].at \in Leading
    BY <2>1 DEF Broken, Settled, Leading
  <2>2. CASE search[c].at \notin Leading
    BY <2>2 DEF Broken, Leading, SearchTypeOK
  <2> QED BY <2>1, <2>2
<1> HIDE DEF failed
<1>4. search' \in [Searches -> Calls]
  BY <1>1, <1>2, <1>3 DEF SearchTypeOK
<1>5. \A d \in D : search[d].at \in Underway
  BY DEF Underway
<1>6. \A d \in Searches : search[d].at = "following" /\ search[d].leader \in D => d \in D
  <2> SUFFICES ASSUME NEW d \in Searches, search[d].at = "following", search[d].leader \in D
               PROVE  search[c].at \in Leading /\ search[d].leader = c
    OBVIOUS
  <2>1. search[search[d].leader].at \in Leading
    BY DEF FollowersOK
  <2> QED BY <2>1 DEF Leading
<1>7. D \in SUBSET Searches /\ \A d \in Searches : d \notin D => search'[d] = search[d]
  BY <1>2
<1>8. \A d \in D : search'[d].at = "failed" /\ CallOK(search'[d])
  BY <1>1, <1>2 DEF CallOK, Underway, Leading
<1> HIDE DEF D
<1>9. nearCache' \in Seq(Entries) /\ farCache' \subseteq Entries
  BY DEF SearchTypeOK
<1> QED BY <1>4, <1>5, <1>6, <1>7, <1>8, <1>9, CallsLeave

\* What a leader's search brings, or its report before it is stored: nobody else
\* changes.
LEMMA LeaderChanges ==
    ASSUME SearchIInv, NEW c \in Searches, search[c].at \in Leading, NEW n \in Calls,
           n.at \in Leading, n.kind = search[c].kind, n.names = search[c].names,
           search' = [search EXCEPT ![c] = n], CallOK(n),
           \A o \in n.origins \cap Searches : o = c \/ o \in met[c] \/ n.kind = "named",
           UNCHANGED <<met, hostResults>>,
           nearCache' \in Seq(Entries), farCache' = farCache
    PROVE  SearchIInv'
<1> USE DEF SearchIInv
<1>1. /\ \A d \in Searches : d # c => search'[d] = search[d]
      /\ search'[c] = n
  BY DEF SearchTypeOK
<1>2. SearchTypeOK'
  BY DEF SearchTypeOK
<1>3. CallsOK'
  BY <1>1 DEF CallsOK
<1>4. GatheredOK'
  <2> SUFFICES ASSUME NEW d \in Searches, search'[d].at \in Leading,
                      NEW o \in search'[d].origins \cap Searches
               PROVE  o = d \/ o \in met[d] \/ search'[d].kind = "named"
    BY DEF GatheredOK
  <2>1. CASE d = c
    BY <1>1, <2>1
  <2>2. CASE d # c
    BY <1>1, <2>2 DEF GatheredOK
  <2> QED BY <2>1, <2>2
<1>5. HostsOK'
  <2> SUFFICES ASSUME NEW d \in Searches, search'[d].at \in Underway, search'[d].kind = "web"
               PROVE  hostResults = d \/ hostResults \in met[d]
    BY DEF HostsOK, ActiveSearches
  <2>1. search[d].kind = "web" /\ d \in ActiveSearches
    BY <1>1 DEF ActiveSearches, Leading, Underway
  <2> QED BY <2>1 DEF HostsOK
<1>6. FollowersOK'
  <2> SUFFICES ASSUME NEW d \in Searches, search'[d].at = "following"
               PROVE  LET e == search'[d].leader IN
                      /\ e \in Searches /\ search'[e].at \in Leading
                      /\ search'[e].names = search'[d].names
                      /\ search'[e].kind # "import" /\ search'[d].kind # "import"
                      /\ met'[e] \subseteq met'[d] \cup {d}
                      /\ Hosted(search'[e]) => e \in met'[d]
    BY DEF FollowersOK, Hosted
  <2> DEFINE e == search'[d].leader
  <2>1. search'[d] = search[d] /\ search[d].at = "following"
    BY <1>1 DEF Leading
  <2>2. /\ e \in Searches /\ search[e].at \in Leading
        /\ search[e].names = search[d].names
        /\ search[e].kind # "import" /\ search[d].kind # "import"
        /\ met[e] \subseteq met[d] \cup {d}
        /\ Hosted(search[e]) => e \in met[d]
    BY <2>1 DEF FollowersOK
  <2> HIDE DEF e
  <2>3. /\ search'[e].at \in Leading /\ search'[e].names = search[e].names
        /\ search'[e].kind = search[e].kind
    BY <1>1, <2>2
  <2> QED BY <2>1, <2>2, <2>3 DEF e, Hosted
<1>7. ReportsOK'
  <2> SUFFICES ASSUME NEW d \in Searches, search'[d].at = "done",
                      NEW o \in search'[d].origins \cap Searches
               PROVE  \/ o = d \/ o \in met'[d]
                      \/ \E e \in Sources(d)' \cap Searches :
                            search'[e].kind = "named" /\ search'[e].at = "done"
    BY DEF ReportsOK
  <2>1. d # c
    BY <1>1 DEF Leading
  <2>2. \/ o = d \/ o \in met[d]
        \/ \E e \in Sources(d) \cap Searches :
              search[e].kind = "named" /\ search[e].at = "done"
    BY <1>1, <2>1 DEF ReportsOK
  <2>3. ASSUME NEW e \in Sources(d) \cap Searches,
               search[e].kind = "named", search[e].at = "done"
        PROVE  /\ e \in Sources(d)' \cap Searches
               /\ search'[e].kind = "named" /\ search'[e].at = "done"
    <3>1. e # c
      BY <2>3 DEF Leading
    <3> QED BY <1>1, <2>1, <2>3, <3>1 DEF Sources
  <2> QED BY <2>2, <2>3
<1> QED BY <1>2, <1>3, <1>4, <1>5, <1>6, <1>7

\* A shard's answer keeps the inductive invariant: the registry's provider of host
\* results is asked by who has brought results or names it.
LEMMA ShardKeeps ==
    ASSUME SearchIInv, NEW c \in Searches, NEW p \in search[c].todo, Shard(c, p)
    PROVE  SearchIInv'
<1> USE DEF SearchIInv
<1> DEFINE found == IF p # "client_web" THEN {p} ELSE {hostResults} \ {Nobody}
<1>1. /\ search[c].at = "gathering"
      /\ UNCHANGED <<hostResults, remembered, nearCache, farCache, met>>
  BY DEF Shard
<1>2. PICK answer \in {found, {}} :
         search' = [search EXCEPT ![c].todo = @ \ {p}, ![c].origins = @ \cup answer]
  BY DEF Shard
<1> DEFINE n == [search[c] EXCEPT !.todo = @ \ {p}, !.origins = @ \cup answer]
<1>3. search[c] \in Calls /\ CallOK(search[c])
  BY DEF SearchTypeOK, CallsOK
<1>4. p \in search[c].names /\ p \in ProviderNames
  BY <1>1, <1>3 DEF CallOK, Leading, Calls
<1>5. /\ p # "client_web" => answer \subseteq {p}
      /\ p = "client_web" => answer \subseteq {hostResults} \cap Searches
  <2>1. answer \subseteq found
    BY <1>2
  <2> QED BY <2>1 DEF SearchTypeOK
<1>6. answer \subseteq ProviderNames \cup Searches
  BY <1>4, <1>5
<1> HIDE DEF found
<1>7. /\ n \in Calls /\ n.at = "gathering" /\ n.kind = search[c].kind
      /\ n.names = search[c].names /\ n.origins = search[c].origins \cup answer
      /\ n.todo = search[c].todo \ {p}
  BY <1>1, <1>3, <1>6 DEF Calls
<1>8. search' = [search EXCEPT ![c] = n]
  BY <1>2
<1> HIDE DEF n
<1>9. CallOK(n)
  BY <1>1, <1>3, <1>4, <1>5, <1>7 DEF CallOK, Underway, Leading
<1>10. \A o \in n.origins \cap Searches : o = c \/ o \in met[c] \/ n.kind = "named"
  <2> SUFFICES ASSUME NEW o \in n.origins \cap Searches
               PROVE  o = c \/ o \in met[c] \/ n.kind = "named"
    OBVIOUS
  <2>1. CASE o \in search[c].origins
    BY <1>1, <1>7, <2>1 DEF GatheredOK, Leading
  <2>2. CASE o \in answer
    <3>1. p = "client_web" /\ o = hostResults
      BY <1>4, <1>5, <2>2, NamesAreNoCalls
    <3>2. search[c].kind \in {"web", "named"} /\ c \in ActiveSearches
      BY <1>1, <1>3, <1>4, <3>1 DEF CallOK, Underway, ActiveSearches
    <3> QED BY <1>7, <3>1, <3>2 DEF HostsOK
  <2> QED BY <1>7, <2>1, <2>2
<1>11. nearCache' \in Seq(Entries) /\ farCache' = farCache /\ UNCHANGED <<met, hostResults>>
  BY <1>1 DEF SearchTypeOK
<1> QED BY <1>1, <1>7, <1>8, <1>9, <1>10, <1>11, LeaderChanges DEF Leading

\* The key of a call is one of an entry's.
LEMMA KeysAreKeys == \A q \in Calls : KeyOf(q) \in (SUBSET ProviderNames) \X Nat
BY DEF KeyOf, Calls

\* The end of a search keeps the inductive invariant: only what no host brought is
\* cached.
LEMMA FinishKeeps ==
    ASSUME SearchIInv, NEW c \in Searches, FinishSearch(c)
    PROVE  SearchIInv'
<1> USE DEF SearchIInv
<1>1. search[c].at = "gathering" /\ UNCHANGED <<hostResults, farCache, met>>
  BY DEF FinishSearch
<1>2. PICK kept \in Ranked(search[c].origins) :
         /\ nearCache' = IF Cacheable(search[c].names)
                         THEN Put([key |-> KeyOf(search[c]), origins |-> kept]) ELSE nearCache
         /\ search' = IF Cacheable(search[c].names) /\ SharedCache
                      THEN [search EXCEPT ![c].at = "storing", ![c].origins = kept]
                      ELSE Settled(c, [d \in Searches |-> Reported(search[d], kept)])
  BY DEF FinishSearch
<1>3. search[c] \in Calls /\ CallOK(search[c])
  BY DEF SearchTypeOK, CallsOK
<1>4. kept \in SUBSET search[c].origins
  BY DEF Ranked
<1>5. Cacheable(search[c].names) => kept \subseteq ProviderNames
  BY <1>1, <1>3, <1>4 DEF Cacheable, CallOK, Leading
<1>6. nearCache' \in Seq(Entries)
  <2>1. CASE Cacheable(search[c].names)
    <3> DEFINE e == [key |-> KeyOf(search[c]), origins |-> kept]
    <3>1. e \in Entries
      BY <1>3, <1>5, <2>1, KeysAreKeys DEF Entries
    <3> HIDE DEF e
    <3>2. Put(e) \in Seq(Entries)
      BY <3>1, PutKeeps DEF SearchTypeOK
    <3> QED BY <1>2, <2>1, <3>2 DEF e
  <2>2. CASE ~Cacheable(search[c].names)
    BY <1>2, <2>2 DEF SearchTypeOK
  <2> QED BY <2>1, <2>2
<1>7. CASE Cacheable(search[c].names) /\ SharedCache
  <2> DEFINE n == [search[c] EXCEPT !.at = "storing", !.origins = kept]
  <2>1. /\ n \in Calls /\ n.at = "storing" /\ n.kind = search[c].kind
        /\ n.names = search[c].names /\ n.origins = kept /\ n.todo = search[c].todo
    BY <1>3, <1>5, <1>7 DEF Calls, Underway
  <2>2. search' = [search EXCEPT ![c] = n]
    BY <1>2, <1>7
  <2> HIDE DEF n
  <2>3. CallOK(n)
    BY <1>1, <1>3, <1>5, <1>7, <2>1 DEF CallOK, Underway, Leading, Cacheable
  <2>4. \A o \in n.origins \cap Searches : o = c \/ o \in met[c] \/ n.kind = "named"
    BY <1>5, <1>7, <2>1, NamesAreNoCalls
  <2> QED BY <1>1, <1>6, <2>1, <2>2, <2>3, <2>4, LeaderChanges DEF Leading
<1>8. CASE ~(Cacheable(search[c].names) /\ SharedCache)
  <2>1. search' = Settled(c, [d \in Searches |-> Reported(search[d], kept)])
    BY <1>2, <1>8
  <2>2. farCache' \subseteq Entries /\ search[c].at \in Leading
    BY <1>1 DEF SearchTypeOK, Leading
  <2> QED BY <1>1, <1>4, <1>6, <2>1, <2>2, LeaderReports
<1> QED BY <1>7, <1>8

\* The names of a search are providers' names, and the host's results are asked
\* for alone.
LEMMA ResolvedNames ==
    ASSUME NEW wish \in Wishes, NEW found
    PROVE  /\ Resolve(wish, found) \in SUBSET ProviderNames
           /\ Usable(found) # {} => Resolve(wish, found) = {"client_web"}
<1>1. AutoNames \subseteq ProviderNames
  <2>1. \A j \in 1 .. NLive : LiveProviders[j] \in LiveSet
    BY SearchAssumption DEF NLive
  <2> QED BY <2>1 DEF AutoNames, ProviderNames
<1>2. {wish[i] : i \in DOMAIN wish} \subseteq ProviderNames
  BY DEF WishedFor, ProviderNames
<1>3. {"client_web"} \subseteq ProviderNames
  BY DEF ProviderNames
<1> QED BY <1>1, <1>2, <1>3 DEF Resolve

\* A plan has a number of variants.
LEMMA PlannedVariants == Plan.variants \in Nat
<1>1. CASE remembered = <<>>
  BY <1>1 DEF Plan
<1>2. CASE remembered # <<>>
  BY <1>2 DEF Plan
<1> QED BY <1>1, <1>2

\* A call that enters SingleFlight leads or follows a call with its names.
LEMMA JoinedIsACall ==
    ASSUME NEW q \in Calls
    PROVE  /\ Joined(q) \in Calls /\ Joined(q).at \in {"gathering", "following"}
           /\ Joined(q).kind = q.kind /\ Joined(q).names = q.names
           /\ Joined(q).origins = q.origins
           /\ Joined(q).at = "gathering" => Joined(q).todo = q.names
           /\ Joined(q).at = "following" =>
                /\ Joined(q).leader \in Searches /\ search[Joined(q).leader].at \in Leading
                /\ search[Joined(q).leader].names = Joined(q).names
                /\ search[Joined(q).leader].kind # "import" /\ q.kind # "import"
<1>1. CASE Leaders(q) = {}
  <2>1. Joined(q) = [q EXCEPT !.at = "gathering", !.todo = q.names]
    BY <1>1 DEF Joined
  <2> QED BY <2>1 DEF Calls, Underway
<1>2. CASE Leaders(q) # {}
  <2>1. PICK d \in Leaders(q) : Joined(q) = [q EXCEPT !.at = "following", !.leader = d]
    BY <1>2 DEF Joined
  <2>2. /\ d \in Searches /\ search[d].at \in Leading
        /\ search[d].kind # "import" /\ q.kind # "import" /\ KeyOf(search[d]) = KeyOf(q)
    BY DEF Leaders, Leading
  <2>3. search[d].names = q.names
    BY <2>2 DEF KeyOf
  <2>4. /\ Joined(q) \in Calls /\ Joined(q).at = "following" /\ Joined(q).leader = d
        /\ Joined(q).kind = q.kind /\ Joined(q).names = q.names
        /\ Joined(q).origins = q.origins
    BY <2>1, <2>2 DEF Calls, Underway
  <2> QED BY <2>2, <2>3, <2>4
<1> QED BY <1>1, <1>2

\* The beginning of a call keeps the inductive invariant.
LEMMA BeginKeeps ==
    ASSUME SearchIInv, NEW c \in Searches, NEW wish \in Wishes, NEW found \in Findings,
           NEW import \in BOOLEAN, Begin(c, wish, found, import)
    PROVE  SearchIInv'
<1> USE DEF SearchIInv
<1> DEFINE names == IF import THEN {"authorized_import"} ELSE Resolve(wish, found)
           own == Usable(found) # {}
           kind == IF import THEN "import"
                   ELSE IF own THEN "web"
                   ELSE IF "client_web" \in names THEN "named" ELSE "public"
           s == [Unborn EXCEPT !.kind = kind, !.names = names, !.variants = Plan.variants]
           hits == NearHits(KeyOf(s))
           hit == nearCache[CHOOSE i \in hits : TRUE]
           next == IF names = {} THEN [Unborn EXCEPT !.at = "refused"]
                   ELSE IF ~Cacheable(names) THEN Joined(s)
                   ELSE IF hits # {} THEN Reported(s, hit.origins)
                   ELSE IF SharedCache THEN [s EXCEPT !.at = "reading"] ELSE Joined(s)
<1>1. /\ search[c] = Unborn /\ (import => found = {})
      /\ search' = [search EXCEPT ![c] = next]
      /\ Meetings(c, next)
      /\ hostResults' = IF own /\ ~import THEN c ELSE hostResults
      /\ nearCache' = IF Cacheable(names) /\ hits # {} THEN Put(hit) ELSE nearCache
      /\ farCache' = farCache
  BY DEF Begin
<1>2. /\ names \in SUBSET ProviderNames
      /\ kind \in {"public", "web", "named", "import"}
      /\ "client_web" \in names <=> kind \in {"web", "named"}
      /\ own /\ ~import => names = {"client_web"}
      /\ kind = "web" <=> own /\ ~import
  <2>1. CASE import
    <3>1. "authorized_import" \in ProviderNames
      BY DEF ProviderNames
    <3> QED BY <2>1, <3>1
  <2>2. CASE ~import
    BY <2>2, ResolvedNames
  <2> QED BY <2>1, <2>2
<1>3. Plan.variants \in Nat
  BY PlannedVariants
<1> HIDE DEF names, own, kind
<1>4. /\ s \in Calls /\ s.at = "off" /\ s.kind = kind /\ s.names = names /\ s.origins = {}
  BY <1>2, <1>3 DEF Unborn, Calls
<1> HIDE DEF s
<1>5. hits # {} => hit \in Entries
  <2>1. ASSUME hits # {} PROVE hit \in Entries
    <3> DEFINE i == CHOOSE i \in hits : TRUE
    <3>1. i \in DOMAIN nearCache
      BY <2>1 DEF NearHits
    <3> HIDE DEF i
    <3>2. nearCache[i] \in Entries
      BY <3>1 DEF SearchTypeOK
    <3> QED BY <3>2 DEF i
  <2> QED BY <2>1
<1> HIDE DEF hits, hit
<1>6. nearCache' \in Seq(Entries)
  BY <1>1, <1>5, PutKeeps DEF SearchTypeOK
<1>7. /\ next \in Calls /\ next.at \in {"refused", "reading", "gathering", "following", "done"}
      /\ next.at \in Underway => next.kind = kind /\ next.names = names
      /\ next.at = "reading" => Cacheable(names)
      /\ next.at # "done" => next.origins = {}
      /\ next.at = "done" => next.origins \subseteq ProviderNames
      /\ next.at = "gathering" => next.todo = names
      /\ next.at = "following" =>
           /\ next.leader \in Searches /\ search[next.leader].at \in Leading
           /\ search[next.leader].names = next.names
           /\ search[next.leader].kind # "import" /\ next.kind # "import"
      /\ kind = "web" => next.kind = "web"
  <2>1. CASE names = {}
    <3>1. next = [Unborn EXCEPT !.at = "refused"]
      BY <2>1
    <3> HIDE DEF next
    <3>2. kind # "web"
      BY <1>2, <2>1
    <3> QED BY <3>1, <3>2 DEF Unborn, Calls, Underway
  <2>2. CASE next = Joined(s) /\ names # {}
    <3> HIDE DEF next
    <3> QED BY <1>4, <2>2, JoinedIsACall
  <2>3. CASE names # {} /\ Cacheable(names) /\ hits # {}
    <3>1. next = Reported(s, hit.origins)
      BY <2>3
    <3> HIDE DEF next
    <3>2. hit.origins \subseteq ProviderNames
      BY <1>5, <2>3 DEF Entries
    <3>3. /\ next \in Calls /\ next.at = "done" /\ next.kind = kind
          /\ next.origins = hit.origins
      BY <1>4, <3>1, <3>2, ReportIsACall
    <3> QED BY <3>2, <3>3 DEF Underway
  <2>4. CASE next = [s EXCEPT !.at = "reading"] /\ Cacheable(names)
    <3> HIDE DEF next
    <3> QED BY <1>4, <2>4 DEF Calls, Underway
  <2> QED BY <2>1, <2>2, <2>3, <2>4
<1> HIDE DEF next
<1>8. CallOK(next)
  BY <1>2, <1>7 DEF CallOK, Underway, Leading, Cacheable
<1>9. hostResults' = hostResults \/ (hostResults' = c /\ Hosted(next))
  BY <1>1, <1>2, <1>7 DEF Hosted
<1>10. next.kind = "web" /\ next.at \in Underway => hostResults' = c
  BY <1>1, <1>2, <1>7
<1>11. search[c].at = "off"
  BY <1>1 DEF Unborn
<1>12. /\ next.at \notin {"off", "storing"}
       /\ next.at \in {"gathering", "done"} => next.origins \subseteq ProviderNames
  BY <1>7
<1> QED BY <1>1, <1>6, <1>7, <1>8, <1>9, <1>10, <1>11, <1>12, Enters

\* Redis's answer keeps the inductive invariant.
LEMMA ReadKeeps ==
    ASSUME SearchIInv, NEW c \in Searches, ReadFar(c)
    PROVE  SearchIInv'
<1> USE DEF SearchIInv
<1> DEFINE s == search[c]
           hits == FarHits(KeyOf(s))
<1>1. s.at = "reading" /\ hostResults' = hostResults /\ farCache' = farCache
  BY DEF ReadFar
<1>2. s \in Calls /\ CallOK(s)
  BY DEF SearchTypeOK, CallsOK
<1>3. "client_web" \notin s.names /\ ~Hosted(s) /\ s.origins = {} /\ s.kind # "web"
  BY <1>1, <1>2 DEF CallOK, Hosted, Underway, Leading
<1>4. CASE hits = {}
  <2> DEFINE n == Joined(s)
  <2>1. search' = [search EXCEPT ![c] = n] /\ Meetings(c, n) /\ nearCache' = nearCache
    BY <1>4 DEF ReadFar
  <2>2. /\ n \in Calls /\ n.at \in {"gathering", "following"}
        /\ n.kind = s.kind /\ n.names = s.names /\ n.origins = {}
        /\ n.at = "gathering" => n.todo = s.names
        /\ n.at = "following" =>
             /\ n.leader \in Searches /\ search[n.leader].at \in Leading
             /\ search[n.leader].names = n.names
             /\ search[n.leader].kind # "import" /\ n.kind # "import"
    BY <1>2, <1>3, JoinedIsACall
  <2> HIDE DEF n
  <2>3. CallOK(n)
    BY <1>1, <1>2, <1>3, <2>2 DEF CallOK, Underway, Leading
  <2>4. ~Hosted(n) /\ n.kind # "web"
    BY <1>3, <2>2 DEF Hosted
  <2>5. nearCache' \in Seq(Entries)
    BY <2>1 DEF SearchTypeOK
  <2>6. /\ search[c].at \in {"off", "reading"} /\ n.at \notin {"off", "storing"}
        /\ n.at \in {"gathering", "done"} => n.origins \subseteq ProviderNames
    BY <1>1, <2>2
  <2> QED BY <1>1, <2>1, <2>2, <2>3, <2>4, <2>5, <2>6, Enters
<1>5. CASE hits # {}
  <2>1. PICK e \in hits : /\ search' = [search EXCEPT ![c] = Reported(s, e.origins)]
                          /\ nearCache' = Put(e) /\ met' = met
    BY <1>5 DEF ReadFar
  <2>2. e \in Entries /\ e.origins \subseteq ProviderNames
    BY DEF FarHits, SearchTypeOK, Entries
  <2> DEFINE n == Reported(s, e.origins)
  <2>3. /\ n \in Calls /\ n.at = "done" /\ n.kind = s.kind /\ n.origins = e.origins
    BY <1>2, <2>2, ReportIsACall
  <2>4. nearCache' \in Seq(Entries)
    BY <2>1, <2>2, PutKeeps DEF SearchTypeOK
  <2> HIDE DEF n
  <2>5. CallOK(n)
    BY <2>3 DEF CallOK, Underway, Leading
  <2>6. ~Hosted(n) /\ n.kind # "web"
    BY <1>3, <2>3 DEF Hosted
  <2>7. /\ search[c].at \in {"off", "reading"} /\ n.at \notin {"off", "storing", "following"}
        /\ n.at \in {"gathering", "done"} => n.origins \subseteq ProviderNames
    BY <1>1, <2>2, <2>3
  <2>8. search' = [search EXCEPT ![c] = n]
    BY <2>1 DEF n
  <2> QED BY <1>1, <2>1, <2>3, <2>4, <2>5, <2>6, <2>7, <2>8, Enters
<1> QED BY <1>4, <1>5

\* Every step of the searches keeps the inductive invariant.
LEMMA SearchStepKeeps == SearchIInv /\ [SearchNext]_searchVars => SearchIInv'
<1> SUFFICES ASSUME SearchIInv, [SearchNext]_searchVars PROVE SearchIInv'
  OBVIOUS
<1>1. ASSUME NEW c \in Searches, StoreFar(c) PROVE SearchIInv'
  <2>1. /\ search[c].at = "storing"
        /\ farCache' = (farCache \ FarHits(KeyOf(search[c]))) \cup
                       {[key |-> KeyOf(search[c]), origins |-> search[c].origins]}
        /\ search' = Settled(c, [d \in Searches |-> Reported(search[d], search[c].origins)])
        /\ UNCHANGED <<hostResults, remembered, nearCache, met>>
    BY <1>1 DEF StoreFar
  <2>2. search[c] \in Calls /\ search[c].origins \subseteq ProviderNames
    BY <2>1 DEF SearchIInv, SearchTypeOK, CallsOK, CallOK, Leading
  <2>3. farCache' \subseteq Entries /\ nearCache' \in Seq(Entries)
    BY <2>1, <2>2, KeysAreKeys DEF SearchIInv, SearchTypeOK, Entries
  <2> QED BY <2>1, <2>2, <2>3, LeaderReports DEF Leading
<1>2. ASSUME NEW c \in Searches, RedisFails(c) \/ CancelSearch(c) PROVE SearchIInv'
  BY <1>2, CallBreaks DEF RedisFails, CancelSearch, Underway
<1>3. ASSUME ExpireNear \/ ExpireFar \/ UNCHANGED searchVars PROVE SearchIInv'
  <2>1. UNCHANGED <<search, hostResults, met>>
    BY <1>3 DEF ExpireNear, ExpireFar, searchVars
  <2>2. nearCache' \in Seq(Entries) /\ farCache' \subseteq Entries
    BY <1>3, WithoutKeeps
       DEF ExpireNear, ExpireFar, searchVars, SearchIInv, SearchTypeOK
  <2> QED BY <2>1, <2>2 DEF SearchIInv, SearchTypeOK, CallsOK, CallOK, GatheredOK, HostsOK,
        ActiveSearches, FollowersOK, Hosted, ReportsOK, Sources
<1> QED BY <1>1, <1>2, <1>3, ReadKeeps, FinishKeeps, ShardKeeps, BeginKeeps
        DEF SearchNext, SearchStep

\* The inductive invariant of the searches, their caches and SingleFlight.
THEOREM SearchInvariance == SearchSpec => []SearchIInv
BY SearchInitEstablishes, SearchStepKeeps, PTL DEF SearchSpec

\* Results that the host brought reach the call they were brought with, calls that
\* were under way with it, and calls that named client_web or followed a leader
\* that had: no other call, through either cache or a leader
\* (ResearchService.search_hot_notes, SingleFlight.run).
THEOREM HostResultsAreNear == SearchSpec => []HostResultsStayNear
<1>1. SearchIInv => HostResultsStayNear
  <2> SUFFICES ASSUME SearchIInv, NEW c \in Searches, NEW o \in search[c].origins \cap Searches
               PROVE  \/ o = c \/ o \in met[c]
                      \/ \E d \in Sources(c) : search[d].kind = "named"
    BY DEF HostResultsStayNear
  <2>1. search[c].at \in Leading \cup {"done"}
    BY DEF SearchIInv, CallsOK, CallOK
  <2>2. CASE search[c].at \in Leading
    BY <2>2 DEF SearchIInv, GatheredOK, Sources
  <2>3. CASE search[c].at = "done"
    BY <2>3 DEF SearchIInv, ReportsOK
  <2> QED BY <2>1, <2>2, <2>3
<1> QED BY <1>1, SearchInvariance, PTL

================================================================================
