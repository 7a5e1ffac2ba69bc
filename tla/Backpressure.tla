---------------------------- MODULE Backpressure -----------------------------
(***************************************************************************)
(* What stands between a request and a model or search provider: the rate  *)
(* limit, the global and the per-tenant bulkhead of                        *)
(* HighConcurrencyMiddleware (api/middleware.py, core/concurrency.py), and *)
(* inside the handler the candidate loop of GenerationService.generate and *)
(* rewrite or the retry loop of ResearchService._search_one, which take a  *)
(* slot of the operation and of the provider and ask the provider's        *)
(* circuit breaker (core/resilience.py).  A step is the code between two   *)
(* awaits that suspend: an acquisition that finds room goes on at once.    *)
(***************************************************************************)
EXTENDS Naturals, Sequences, FiniteSets

CONSTANTS
    Requests,          \* concurrent requests
    Tenants,           \* tenants they belong to
    Providers,         \* configured providers, in the order of candidates()
    Workload,          \* the <<request, tenant, kind>> that may arrive; the
                       \* kinds are generate, rewrite, search and plain
    MaxInflight,       \* max_inflight_requests, of the bulkhead "api"
    OperationMax,      \* generation_concurrency and research_concurrency
    TenantMax,         \* per_tenant_concurrency
    ProviderMax,       \* per_provider_concurrency
    MaxWaiters,        \* max_queued_waiters and the per-key limits
    MaxTracked,        \* max_tracked_tenants
    FailureThreshold   \* circuit_breaker_failure_threshold

ASSUME PressureAssumption ==
    /\ \A n \in {MaxInflight, OperationMax, TenantMax, ProviderMax, MaxTracked,
                 FailureThreshold} : n \in Nat \ {0}
    /\ MaxWaiters \in Nat
    /\ IsFiniteSet(Requests)
    /\ Workload \subseteq Requests \X Tenants \X {"generate", "rewrite", "search", "plain"}

VARIABLES
    request,    \* every request
    pool,       \* KeyedBulkheadPool of tenants, least recently used first
    circuit,    \* the breaker of every provider
    split,      \* tenants whose bulkhead was dropped while a request had it
    leaked      \* providers a probe of which was cancelled

pressureVars == <<request, pool, circuit, split, leaked>>

Candidates == {Providers[i] : i \in DOMAIN Providers}
Closed == [state |-> "CLOSED", failures |-> 0, inflight |-> FALSE, ripe |-> FALSE]
Gone == [kind |-> "none", at |-> "off", bulkhead |-> <<>>, held |-> <<>>,
         want |-> <<>>, left |-> <<>>, probe |-> FALSE]

\* A bulkhead is a value: <<"api">>, <<"generation">>, <<"provider", p>>, or
\* <<"tenant", t, n>>, where n tells the objects of one tenant apart.
Limit(b) == CASE b[1] = "api" -> MaxInflight
              [] b[1] = "tenant" -> TenantMax
              [] b[1] = "provider" -> ProviderMax
              [] OTHER -> OperationMax

PlacesHeld == {place \in Requests \X (1 .. 4) : place[2] <= Len(request[place[1]].held)}
Held(place) == request[place[1]].held[place[2]]
Taken(b) == Cardinality({place \in PlacesHeld : Held(place) = b})
Waits(r) == request[r].want # <<>>
Waiting(b) == Cardinality({r \in Requests : Waits(r) /\ Head(request[r].want) = b})

\* Conditions of the code, each after the faulty variants the properties tell
\* it from: a limit that is passed by one.
FullOverLimit(b) == Taken(b) > Limit(b)
Full(b) == Taken(b) >= Limit(b)

\* Bulkhead.slot, one after the other: how far the bulkheads of w (one or two)
\* are entered at once by a request that holds h.
TakeSlot(h, w) ==
    IF Full(Head(w)) THEN [held |-> h, want |-> w]
    ELSE IF Len(w) = 1 THEN [held |-> h \o w, want |-> <<>>]
    ELSE IF Full(w[2]) THEN [held |-> Append(h, w[1]), want |-> Tail(w)]
    ELSE [held |-> h \o w, want |-> <<>>]
Saturated(e) == e.want # <<>> /\ Waiting(Head(e.want)) >= MaxWaiters

PressureInit ==
    /\ request = [r \in Requests |-> Gone]
    /\ pool = <<>>
    /\ circuit = [p \in Candidates |-> Closed]
    /\ split = {} /\ leaked = {}
-----------------------------------------------------------------------------
(* Admission. *)

Unused(t) == CHOOSE n \in 1 .. Cardinality(Requests) + 1 :
                /\ \A i \in DOMAIN pool : pool[i] # <<"tenant", t, n>>
                /\ \A r \in Requests : request[r].bulkhead # <<"tenant", t, n>>

\* _evict_idle drops from the old end, up to the first bulkhead in use.
Evicted(items) ==
    LET excess == Len(items) - MaxTracked
        idle(b) == Taken(b) = 0 /\ Waiting(b) = 0
        can == {n \in 0 .. Len(items) : n <= excess /\ \A i \in 1 .. n : idle(items[i])}
    IN  IF excess <= 0 THEN 0 ELSE CHOOSE n \in can : \A m \in can : m <= n

\* OrderedDict.move_to_end.
MovedToEnd(i) == [k \in DOMAIN pool |-> IF k < i THEN pool[k]
                                        ELSE IF k < Len(pool) THEN pool[k + 1] ELSE pool[i]]

\* KeyedBulkheadPool.get, whose result is b.
GetTenant(t, b) ==
    \/ /\ \E i \in DOMAIN pool : pool[i] = b /\ pool' = MovedToEnd(i)
       /\ UNCHANGED split
    \/ /\ \A i \in DOMAIN pool : pool[i][2] # t
       /\ b = <<"tenant", t, Unused(t)>>
       /\ LET items == Append(pool, b)  n == Evicted(items) IN
          /\ pool' = SubSeq(items, n + 1, Len(items))
          /\ split' = split \cup {items[i][2] : i \in
                {k \in 1 .. n : \E r \in Requests : request[r].bulkhead = items[k]}}

\* One provider that is retried once; the preferred one and the others; none.
Todo(k, p) == CASE k = "search" -> <<p, p>>
                [] k = "plain" -> <<>>
                [] OTHER -> <<p>> \o SelectSeq(Providers, LAMBDA q : q # p)

\* The rate limit lets the request pass; p is its preferred provider.
Arrive(r, t, k, p) ==
    /\ request[r] = Gone
    /\ \E b \in {<<"tenant", t, n>> : n \in 1 .. Cardinality(Requests) + 1} :
          /\ GetTenant(t, b)
          /\ LET e == TakeSlot(<<>>, <<<<"api">>, b>>) IN
             request' = IF Saturated(e) THEN request ELSE
                [request EXCEPT ![r] = [Gone EXCEPT !.kind = k, !.at = "entering",
                    !.bulkhead = b, !.held = e.held, !.want = e.want, !.left = Todo(k, p)]]
    /\ UNCHANGED <<circuit, leaked>>

Handle(r) ==
    /\ request[r].at = "entering" /\ ~Waits(r)
    /\ request' = [request EXCEPT ![r].at = "working"]
    /\ UNCHANGED <<pool, circuit, split, leaked>>
-----------------------------------------------------------------------------
(* The handler and its providers. *)

Operation(k) == CASE k = "generate" -> <<"generation">>
                  [] k = "search" -> <<"research">>
                  [] k = "rewrite" -> <<"api">>   \* operation_slot knows no "rewrite"

\* What is tried after an error that is not an answer of the provider: the
\* loops of generate and rewrite go on, _search_one lets it out.
\* The faulty variant asks the same provider again.
AfterRefusalSame(r) == request[r].left
AfterRefusal(r) == IF request[r].kind = "search" THEN <<>> ELSE Tail(request[r].left)

\* The operation's and the provider's slot are given back.
Back(r, left) == [request[r] EXCEPT !.at = "working", !.want = <<>>, !.probe = FALSE,
                                    !.held = SubSeq(@, 1, 2), !.left = left]

Attempt(r) ==
    LET p == Head(request[r].left)
        e == TakeSlot(request[r].held, <<Operation(request[r].kind), <<"provider", p>>>>)
    IN
    /\ request[r].at = "working" /\ request[r].left # <<>>
    /\ \/ /\ ~Saturated(e)
          /\ request' = [request EXCEPT ![r].at = "attempting", ![r].held = e.held,
                                        ![r].want = e.want]
       \/ request' = [request EXCEPT ![r].left = AfterRefusal(r)]  \* rate limited, saturated
    /\ UNCHANGED <<pool, circuit, split, leaked>>

\* A waiter finds room and goes on, into the next bulkhead or its queue.
Proceed(r) ==
    LET e == TakeSlot(request[r].held, request[r].want) IN
    /\ Waits(r) /\ ~Full(Head(request[r].want))
    /\ request' = [request EXCEPT ![r] =
         IF ~Saturated(e) THEN [@ EXCEPT !.held = e.held, !.want = e.want]
         ELSE IF @.at = "entering" THEN Gone ELSE Back(r, AfterRefusal(r))]
    /\ UNCHANGED <<pool, circuit, split, leaked>>

\* concurrency_wait_timeout_seconds pass.
WaitTimesOut(r) ==
    /\ Waits(r)
    /\ request' = [request EXCEPT ![r] =
         IF @.at = "entering" THEN Gone ELSE Back(r, AfterRefusal(r))]
    /\ UNCHANGED <<pool, circuit, split, leaked>>

Refuses(c) == \/ c.state = "OPEN" /\ ~c.ripe
              \/ c.state = "HALF_OPEN" /\ c.inflight

\* before_call.
Ask(r) ==
    LET p == Head(request[r].left)  c == circuit[p] IN
    /\ request[r].at = "attempting" /\ ~Waits(r)
    /\ IF Refuses(c) THEN
          /\ request' = [request EXCEPT ![r] = Back(r, AfterRefusal(r))]
          /\ UNCHANGED circuit
       ELSE
          /\ request' = [request EXCEPT ![r].at = "calling",
                                        ![r].probe = c.state # "CLOSED"]
          /\ circuit' = IF c.state = "CLOSED" THEN circuit ELSE
                [circuit EXCEPT ![p].state = "HALF_OPEN", ![p].inflight = TRUE]
    /\ UNCHANGED <<pool, split, leaked>>

\* record_success: an answer with data ends the request, an answer without
\* makes generate and rewrite try the next provider.
Answered(r) ==
    /\ request[r].at = "calling"
    /\ circuit' = [circuit EXCEPT ![Head(request[r].left)] = Closed]
    /\ \/ request' = [request EXCEPT ![r] = Back(r, <<>>)]
       \/ /\ request[r].kind # "search"
          /\ request' = [request EXCEPT ![r] = Back(r, Tail(request[r].left))]
    /\ UNCHANGED <<pool, split, leaked>>

\* The faulty variant keeps the slot of a half-open breaker's probe.
AfterFailureKeepsProbe(c) == [c EXCEPT !.state = "HALF_OPEN"]
AfterFailure(c) ==
    LET n == IF c.failures < FailureThreshold THEN c.failures + 1 ELSE c.failures IN
    IF c.state = "HALF_OPEN" \/ n >= FailureThreshold
    THEN [state |-> "OPEN", failures |-> n, inflight |-> FALSE, ripe |-> FALSE]
    ELSE [c EXCEPT !.failures = n, !.inflight = FALSE]

\* record_failure: _search_one sleeps before its retry with both slots in hand.
Failed(r) ==
    /\ request[r].at = "calling"
    /\ circuit' = [circuit EXCEPT ![Head(request[r].left)] = AfterFailure(@)]
    /\ request' = [request EXCEPT ![r] =
         IF @.kind = "search" /\ Len(@.left) > 1
         THEN [@ EXCEPT !.at = "resting", !.probe = FALSE]
         ELSE Back(r, Tail(@.left))]
    /\ UNCHANGED <<pool, split, leaked>>

Rested(r) ==
    /\ request[r].at = "resting"
    /\ request' = [request EXCEPT ![r] = Back(r, Tail(@.left))]
    /\ UNCHANGED <<pool, circuit, split, leaked>>

\* A result, the deterministic fallback or an error leaves the handler.
Respond(r) ==
    /\ request[r].at = "working" /\ request[r].left = <<>>
    /\ request' = [request EXCEPT ![r] = Gone]
    /\ UNCHANGED <<pool, circuit, split, leaked>>

\* The request's task is cancelled where it is suspended: nothing is recorded.
CancelRequest(r) ==
    /\ Waits(r) \/ request[r].at \in {"calling", "resting"}
    /\ request' = [request EXCEPT ![r] = Gone]
    /\ leaked' = IF request[r].probe THEN leaked \cup {Head(request[r].left)} ELSE leaked
    /\ UNCHANGED <<pool, circuit, split>>

\* recovery_seconds pass; failures leave the window.
Ripen(p) ==
    /\ circuit[p].state = "OPEN" /\ ~circuit[p].ripe
    /\ circuit' = [circuit EXCEPT ![p].ripe = TRUE]
    /\ UNCHANGED <<request, pool, split, leaked>>
Prune(p) ==
    /\ circuit[p].failures > 0
    /\ circuit' = [circuit EXCEPT ![p].failures = @ - 1]
    /\ UNCHANGED <<request, pool, split, leaked>>

RequestStep(r) == \/ Handle(r) \/ Attempt(r) \/ Ask(r) \/ Answered(r) \/ Failed(r)
                  \/ Rested(r) \/ Respond(r)

PressureNext ==
    \/ \E r \in Requests : RequestStep(r) \/ Proceed(r) \/ WaitTimesOut(r) \/ CancelRequest(r)
    \/ \E x \in Workload, p \in Candidates : Arrive(x[1], x[2], x[3], p)
    \/ \E p \in Candidates : Ripen(p) \/ Prune(p)

PressureSpec == PressureInit /\ [][PressureNext]_pressureVars

\* Handlers and providers answer, and the timer of a waiter fires.
PressureFairness ==
    \A r \in Requests : /\ WF_pressureVars(RequestStep(r))
                        /\ WF_pressureVars(WaitTimesOut(r))
-----------------------------------------------------------------------------
\* A tenant never has more requests in its handlers than its share, although
\* bulkheads are evicted and created again under load, unless its bulkhead
\* was evicted while a request of the tenant already had it and still waited
\* for the global one (KeyedBulkheadPool counts that one as idle).
TenantShare ==
    \A t \in Tenants :
        Cardinality({place \in PlacesHeld :
                        Held(place)[1] = "tenant" /\ Held(place)[2] = t}) > TenantMax
            => t \in split

\* The half-open slot of a breaker is taken only while a request probes the
\* provider: no failure, retry, empty answer, saturation or timeout leaves the
\* provider locked out.  (A cancelled probe does: see leaked.)
ProbeIsReal ==
    \A p \in Candidates :
        circuit[p].inflight =>
            \/ p \in leaked
            \/ \E r \in Requests : request[r].probe /\ Head(request[r].left) = p

\* Every admitted request leaves the middleware: nobody waits for ever for a
\* slot that somebody else holds while waiting for a second one.
EveryRequestEnds == \A r \in Requests : request[r].at # "off" ~> request[r].at = "off"
=============================================================================
