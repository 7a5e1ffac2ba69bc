----------------------------- MODULE PoolSharing -----------------------------
(***************************************************************************)
(* The connection pool that the stores of one process share                *)
(* (enterprise/postgres.py): a reference count per database and event      *)
(* loop, under a lock that is taken from a table and that the last close   *)
(* removes from it.  A step is the code between two awaits that suspend:   *)
(* the wait for the lock and the creation of a pool.                       *)
(***************************************************************************)
EXTENDS Naturals, Sequences, FiniteSets

CONSTANTS
    Stores,   \* EnterprisePostgresStore objects, one per service
    PoolCallers,  \* concurrent calls of their connect and close
    MaxReferences   \* bound: connects beyond this reference count wait

ASSUME PoolAssumption ==
    /\ IsFiniteSet(Stores) /\ IsFiniteSet(PoolCallers)
    /\ MaxReferences \in Nat

VARIABLES
    sharedPool,  \* _SHARED_POOLS of the key: <<>> or <<[pool, references]>>
    tableLock,   \* _SHARED_POOL_LOCKS of the key: <<>> or <<lock>>
    heldBy,      \* who creates a pool under a lock
    line,        \* who waits for a lock, in its order
    store,       \* the pool of every store, 0 for none
    caller,      \* what every call does
    openPools,   \* pools that are not closed
    disturbed    \* the lock left its table while calls waited for it, or a
                 \* store was closed twice at once

poolVars == <<sharedPool, tableLock, heldBy, line, store, caller, openPools, disturbed>>

Objects == 1 .. Cardinality(PoolCallers) + Cardinality(Stores) + 1
AtRest == [op |-> "none", store |-> "none", lock |-> 0]

\* Python makes a new object; one that nobody refers to may serve as it.
FreshLock == CHOOSE n \in Objects : /\ tableLock # <<n>>
                                    /\ \A c \in PoolCallers : caller[c].lock # n
FreshPool == CHOOSE n \in Objects : /\ \A s \in Stores : store[s] # n
                                    /\ \A i \in DOMAIN sharedPool : sharedPool[i].pool # n
LockOf == IF tableLock = <<>> THEN FreshLock ELSE tableLock[1]

PoolInit ==
    /\ sharedPool = <<>> /\ tableLock = <<>>
    /\ heldBy = [n \in Objects |-> {}]
    /\ line = [n \in Objects |-> <<>>]
    /\ store = [s \in Stores |-> 0]
    /\ caller = [c \in PoolCallers |-> AtRest]
    /\ openPools = {} /\ disturbed = FALSE

\* How many references are left after a close; the faulty variant forgets the
\* other stores.
ReferencesAfterLast(entry) == 0
ReferencesAfter(entry) == entry.references - 1

\* setdefault: a call puts the lock that it takes into the table.
TableWith(c, n) == IF caller[c] = AtRest THEN <<n>> ELSE tableLock

\* The body of connect under lock n, up to the creation of a pool.
Connected(c, s, n) ==
    IF sharedPool = <<>>
    THEN /\ heldBy' = [heldBy EXCEPT ![n] = {c}]
         /\ caller' = [caller EXCEPT ![c] = [op |-> "create", store |-> s, lock |-> n]]
         /\ tableLock' = TableWith(c, n)
         /\ UNCHANGED <<sharedPool, store, openPools, disturbed>>
    ELSE /\ sharedPool[1].references < MaxReferences
         /\ sharedPool' = <<[sharedPool[1] EXCEPT !.references = @ + 1]>>
         /\ store' = [store EXCEPT ![s] = sharedPool[1].pool]
         /\ caller' = [caller EXCEPT ![c] = AtRest]
         /\ tableLock' = TableWith(c, n)
         /\ UNCHANGED <<heldBy, openPools, disturbed>>

\* The body of close under its lock: the last one takes the entry and the lock
\* out of their tables, whoever waits for the lock.
Closed(c, s, n) ==
    /\ store' = [store EXCEPT ![s] = 0]
    /\ caller' = [caller EXCEPT ![c] = AtRest]
    /\ IF sharedPool # <<>> /\ ReferencesAfter(sharedPool[1]) = 0
       THEN /\ sharedPool' = <<>> /\ tableLock' = <<>>
            /\ openPools' = openPools \ {sharedPool[1].pool}
            /\ disturbed' = (disturbed \/ line'[n] # <<>>)
       ELSE /\ sharedPool' = IF sharedPool = <<>> THEN <<>> ELSE
                  <<[sharedPool[1] EXCEPT !.references = ReferencesAfter(sharedPool[1])]>>
            /\ tableLock' = TableWith(c, n)
            /\ UNCHANGED <<openPools, disturbed>>
    /\ UNCHANGED heldBy

Body(c, op, s, n) == IF op = "connect" THEN Connected(c, s, n) ELSE Closed(c, s, n)

\* connect of a store without a pool, close of a store with one.
PoolCall(c, op, s) ==
    LET n == LockOf IN
    /\ caller[c] = AtRest
    /\ (op = "connect") <=> (store[s] = 0)
    /\ IF heldBy[n] = {} /\ line[n] = <<>>
       THEN UNCHANGED line /\ Body(c, op, s, n)
       ELSE /\ line' = [line EXCEPT ![n] = Append(@, c)]
            /\ caller' = [caller EXCEPT ![c] = [op |-> op, store |-> s, lock |-> n]]
            /\ disturbed' = (disturbed \/ (op = "close" /\
                               \E d \in PoolCallers : caller[d].op = "close" /\ caller[d].store = s))
            /\ UNCHANGED <<sharedPool, tableLock, heldBy, store, openPools>>

\* The first in the line of a free lock goes on.
TakeTurn(c) ==
    LET me == caller[c]  n == me.lock IN
    /\ me.op \in {"connect", "close"}
    /\ heldBy[n] = {} /\ Head(line[n]) = c
    /\ line' = [line EXCEPT ![n] = Tail(@)]
    /\ Body(c, me.op, me.store, n)

\* create_pool returns, or raises.
PoolCreated(c) ==
    LET me == caller[c] IN
    /\ me.op = "create"
    /\ sharedPool' = <<[pool |-> FreshPool, references |-> 1]>>
    /\ openPools' = openPools \cup {FreshPool}
    /\ store' = [store EXCEPT ![me.store] = FreshPool]
    /\ heldBy' = [heldBy EXCEPT ![me.lock] = {}]
    /\ caller' = [caller EXCEPT ![c] = AtRest]
    /\ UNCHANGED <<tableLock, line, disturbed>>
CreationFails(c) ==
    /\ caller[c].op = "create"
    /\ heldBy' = [heldBy EXCEPT ![caller[c].lock] = {}]
    /\ caller' = [caller EXCEPT ![c] = AtRest]
    /\ UNCHANGED <<sharedPool, tableLock, line, store, openPools, disturbed>>

\* A call is cancelled while it waits in line.
LineWithout(c) ==
    LET l == line[caller[c].lock]  at == CHOOSE i \in DOMAIN l : l[i] = c IN
    [i \in 1 .. Len(l) - 1 |-> l[IF i < at THEN i ELSE i + 1]]
GiveUp(c) ==
    /\ caller[c].op \in {"connect", "close"}
    /\ line' = [line EXCEPT ![caller[c].lock] = LineWithout(c)]
    /\ caller' = [caller EXCEPT ![c] = AtRest]
    /\ UNCHANGED <<sharedPool, tableLock, heldBy, store, openPools, disturbed>>

PoolNext ==
    \E c \in PoolCallers :
        \/ TakeTurn(c) \/ PoolCreated(c) \/ CreationFails(c) \/ GiveUp(c)
        \/ \E s \in Stores, op \in {"connect", "close"} : PoolCall(c, op, s)

PoolSpec == PoolInit /\ [][PoolNext]_poolVars

\* A store that is connected has an open pool, the one its process shares, and
\* is counted: no order of connects, failures and closes closes a pool under
\* a store, as long as the lock is not taken from its table while others wait
\* for it and no store is closed twice at once.
PoolOutlivesItsStores ==
    ~disturbed =>
        LET connected == {s \in Stores : store[s] # 0} IN
        connected # {} =>
            /\ sharedPool # <<>> /\ sharedPool[1].references >= Cardinality(connected)
            /\ \A s \in connected : store[s] = sharedPool[1].pool /\ store[s] \in openPools
=============================================================================
