--------------------------------- MODULE Bandit ---------------------------------
(***************************************************************************)
(* The contextual bandit of the operations loop: LinUCBPolicy.update over  *)
(* SQLite (operations/experiments.py, repository.py) and                   *)
(* update_bandit_arm of the PostgreSQL store.                              *)
(*                                                                         *)
(* With SQLite an update runs without an await but its load and its save   *)
(* are two transactions, so that two processes interleave between them and *)
(* two tasks of one process do not.  With PostgreSQL it is one transaction *)
(* of two statements.  The matrix and the vector of an arm are abstracted  *)
(* to the set of rewards they have absorbed, a context to its dimension.   *)
(***************************************************************************)
EXTENDS Integers, FiniteSets

CONSTANTS
    Senders,     \* callers that report rewards
    ProcessOf,   \* the process each of them runs in
    Arms,        \* the arms of the policy
    Dims,        \* the dimensions of the contexts clients send
    MaxRewards,  \* bound of the instance
    NoArmRow     \* no row, no lock

ArmRows == [dim : Dims, rewards : SUBSET Nat]
Updates == [arm : Arms, dim : Dims, reward : Nat, row : ArmRows \cup {NoArmRow}]
ASSUME NoArmRowAssumption == NoArmRow \notin ArmRows \cup Updates \cup Senders

VARIABLES
    postgres,    \* whether the store is PostgreSQL
    arm,         \* the stored row of each arm
    armLock,     \* the sender whose transaction holds the lock of the row
    rewards,     \* rewards sent so far
    lost,        \* absorbed rewards that a later write left out, and by whom
    update       \* the update each sender is in the middle of, if any

banditVars == <<postgres, arm, armLock, rewards, lost, update>>

BanditInit ==
    /\ postgres \in BOOLEAN
    /\ arm = [a \in Arms |-> NoArmRow]
    /\ armLock = [a \in Arms |-> NoArmRow]
    /\ rewards = 0 /\ lost = {}
    /\ update = [c \in Senders |-> NoArmRow]

\* A synchronous update keeps the event loop of its process.
LoopFree(c) ==
    postgres \/ \A d \in Senders \ {c} :
                  ProcessOf[d] = ProcessOf[c] => update[d] = NoArmRow

\* SELECT ... FOR UPDATE waits for the lock of the row and takes it, when there
\* is a row; the SELECT of SQLite does neither.
LocksNothing(a) == FALSE
LocksOnRead(a) == postgres /\ arm[a] # NoArmRow

Read(c, a, dim) ==
    /\ rewards < MaxRewards
    /\ update[c] = NoArmRow /\ LoopFree(c)
    /\ LocksOnRead(a) => armLock[a] = NoArmRow
    /\ update' = [update EXCEPT ![c] = [arm |-> a, dim |-> dim,
                                        reward |-> rewards + 1, row |-> arm[a]]]
    /\ armLock' = IF LocksOnRead(a) THEN [armLock EXCEPT ![a] = c] ELSE armLock
    /\ rewards' = rewards + 1
    /\ UNCHANGED <<postgres, arm, lost>>

\* The transaction ends, and with it its lock.
Done(c) ==
    /\ update' = [update EXCEPT ![c] = NoArmRow]
    /\ armLock' = [a \in Arms |-> IF armLock[a] = c THEN NoArmRow ELSE armLock[a]]
    /\ UNCHANGED <<postgres, rewards>>

\* A context longer than the row is an error; a shorter one is refused by
\* PostgreSQL only, and by SQLite added to the first components.
Fits(u) ==
    u.row # NoArmRow =>
        IF postgres THEN u.dim = u.row.dim ELSE u.dim <= u.row.dim

Mismatch(c) ==
    /\ update[c] # NoArmRow /\ ~ Fits(update[c])
    /\ Done(c) /\ UNCHANGED <<arm, lost>>

\* The row that results: what was read and one reward more.
Absorbed(u) ==
    IF u.row = NoArmRow THEN [dim |-> u.dim, rewards |-> {u.reward}]
    ELSE [dim |-> u.row.dim, rewards |-> u.row.rewards \cup {u.reward}]

\* The whole row is written; the upsert waits for the lock of a row that has
\* appeared since the read, and then overwrites it.
Write(c) ==
    /\ update[c] # NoArmRow /\ Fits(update[c])
    /\ LET a == update[c].arm
           row == Absorbed(update[c])
       IN  /\ postgres => armLock[a] \in {c, NoArmRow}
           /\ arm' = [arm EXCEPT ![a] = row]
           /\ lost' = IF arm[a] = NoArmRow THEN lost
                      ELSE lost \cup {[reward |-> r, first |-> update[c].row = NoArmRow] :
                                        r \in arm[a].rewards \ row.rewards}
    /\ Done(c)

\* The process dies or the request is cancelled: the transaction is undone.
UpdateAbandoned(c) ==
    /\ update[c] # NoArmRow
    /\ Done(c) /\ UNCHANGED <<arm, lost>>

BanditNext ==
    \E c \in Senders :
        \/ \E a \in Arms, dim \in Dims : Read(c, a, dim)
        \/ Mismatch(c)
        \/ Write(c)
        \/ UpdateAbandoned(c)

BanditSpec == BanditInit /\ [][BanditNext]_banditVars

-----------------------------------------------------------------------------
\* With PostgreSQL an absorbed reward is only lost to a concurrent first update
\* of the arm, one that found no row to lock (enterprise/postgres.py,
\* update_bandit_arm).
RewardsOutliveUpdates == postgres => \A l \in lost : l.first
=============================================================================
