------------------------------- MODULE Identity -------------------------------
(***************************************************************************)
(* Who is let in: OIDC tokens checked against a cached key set             *)
(* (enterprise/identity.py), and the users an identity provider manages    *)
(* over SCIM in one JSON file (enterprise/scim.py,                         *)
(* enterprise/repository.py).                                              *)
(* Several processes serve requests.  A handler runs without an await, but *)
(* between its read of a user and its write another process may write: the *)
(* lock on the file encloses the write only.  Groups are left out: no SCIM *)
(* operation writes the groups of a user, and verify reads nothing else.   *)
(***************************************************************************)
EXTENDS Naturals, Sequences, FiniteSets

CONSTANTS
    UserIds,         \* ids that uuid4 gives to created users, each once
    UserNames,       \* userNames, which are the subjects of tokens
    ManagedRoles,    \* roles SCIM may give
    TokenClaims,     \* the sets of roles a token may claim
    SigningKeys,     \* key ids of the issuer
    Servers,         \* processes that serve SCIM requests
    Verifiers,       \* processes that check tokens, each with an OIDCVerifier
    MaxUsers,        \* policy.max_users of the tenant
    RequireManaged,  \* scim_require_managed_user
    NobodyYet        \* no user

ASSUME IdentityAssumption ==
    /\ RequireManaged \in BOOLEAN /\ MaxUsers \in Nat
    /\ NobodyYet \notin UserIds

VARIABLES
    users,      \* users.json, in the order of the file
    editing,    \* the SCIM handler of every process, between read and write
    published,  \* of every key: offered, withdrawn, or lapsed: withdrawn for longer than a TTL
    verifier,   \* [keys, old, discovery] of every process
    admitted,   \* the last principal that verify returned, or nobody
    standing,   \* what the last answered request said of every user
    staleWrite  \* a copy was saved over a row it was not read from

identityVars == <<users, editing, published, verifier, admitted, standing, staleWrite>>

NotEditing == [op |-> "none", row |-> [id |-> NobodyYet], copy |-> [id |-> NobodyYet]]
NoPrincipal == [id |-> NobodyYet, subject |-> "none", roles |-> {}, claims |-> {}, key |-> "none"]
Unprovisioned == [active |-> FALSE, roles |-> {}]
Rows == {users[i] : i \in DOMAIN users}
RowOf(id) == CHOOSE u \in Rows : u.id = id
Known(id) == \E u \in Rows : u.id = id
Named(name) == {i \in DOMAIN users : users[i].name = name}

IdentityInit ==
    /\ users = <<>>
    /\ editing = [p \in Servers |-> NotEditing]
    /\ published = [k \in SigningKeys |-> "offered"]
    /\ verifier = [p \in Verifiers |-> [keys |-> {}, old |-> FALSE, discovery |-> "none"]]
    /\ admitted = NoPrincipal
    /\ standing = [id \in UserIds |-> Unprovisioned]
    /\ staleWrite = FALSE
-----------------------------------------------------------------------------
(* SCIM. *)

\* POST /Users, up to its write: the name is free and the tenant has room.
BeginCreate(p, id, name, active, roles) ==
    LET u == [id |-> id, name |-> name, active |-> active, roles |-> roles] IN
    /\ editing[p] = NotEditing
    /\ ~Known(id) /\ standing[id] = Unprovisioned
    /\ \A q \in Servers : editing[q].copy.id # id
    /\ Named(name) = {} /\ Len(users) < MaxUsers
    /\ editing' = [editing EXCEPT ![p] = [op |-> "create", row |-> u, copy |-> u]]
    /\ UNCHANGED <<users, published, verifier, admitted, standing, staleWrite>>

\* What PUT makes of a row: what the body leaves out gets its default.
Replaced(u, name, active, roles) == [u EXCEPT !.name = name, !.active = active, !.roles = roles]

\* What PATCH makes of a row; the faulty variant takes the default of PUT.
PatchedByDefault(u, change) ==
    CASE change = "roles" -> {[u EXCEPT !.roles = r] : r \in SUBSET ManagedRoles}
      [] change = "deactivate" -> {[u EXCEPT !.active = FALSE]}
      [] OTHER -> {[u EXCEPT !.active = TRUE]}
Patched(u, change) ==
    CASE change = "roles" -> {[u EXCEPT !.roles = r] : r \in SUBSET ManagedRoles}
      [] change = "deactivate" -> {[u EXCEPT !.active = FALSE]}
      [] change = "activate" -> {[u EXCEPT !.active = TRUE]}
      [] change = "displayName" -> {u}

BeginReplace(p, id, name, active, roles) ==
    /\ editing[p] = NotEditing /\ Known(id)
    /\ editing' = [editing EXCEPT ![p] = [op |-> "replace", row |-> RowOf(id),
                       copy |-> Replaced(RowOf(id), name, active, roles)]]
    /\ UNCHANGED <<users, published, verifier, admitted, standing, staleWrite>>

BeginPatch(p, id, change) ==
    /\ editing[p] = NotEditing /\ Known(id)
    /\ \E u \in Patched(RowOf(id), change) :
          editing' = [editing EXCEPT ![p] = [op |-> change, row |-> RowOf(id), copy |-> u]]
    /\ UNCHANGED <<users, published, verifier, admitted, standing, staleWrite>>

\* What an administrator knows of a user after the answer to a request.
Said(op, u, before) ==
    CASE op \in {"create", "replace"} -> [active |-> u.active, roles |-> u.roles]
      [] op = "roles" -> [before EXCEPT !.roles = u.roles]
      [] op = "activate" -> [before EXCEPT !.active = TRUE]
      [] op = "deactivate" -> [before EXCEPT !.active = FALSE]
      [] OTHER -> before

\* save_user, under the lock: the row of the id is replaced; without one, the
\* user is appended, be it one that was deleted meanwhile.
SaveUser(p) ==
    LET me == editing[p]  u == me.copy IN
    /\ me.op # "none"
    /\ users' = IF Known(u.id) THEN [i \in DOMAIN users |-> IF users[i].id = u.id
                                                            THEN u ELSE users[i]]
                ELSE Append(users, u)
    /\ staleWrite' = (staleWrite \/ (me.op # "create" /\ me.row \notin Rows))
    /\ standing' = [standing EXCEPT ![u.id] = Said(me.op, u, @)]
    /\ editing' = [editing EXCEPT ![p] = NotEditing]
    /\ admitted' = NoPrincipal
    /\ UNCHANGED <<published, verifier>>

\* delete_user reads and writes under the lock; an id has one row.
DeleteUser(id) ==
    /\ \E at \in DOMAIN users :
          /\ users[at].id = id
          /\ users' = [i \in 1..(Len(users) - 1) |-> users[IF i < at THEN i ELSE i + 1]]
    /\ standing' = [standing EXCEPT ![id] = [active |-> FALSE, roles |-> {"deleted"}]]
    /\ admitted' = NoPrincipal
    /\ UNCHANGED <<editing, published, verifier, staleWrite>>
-----------------------------------------------------------------------------
(* The keys of the issuer and their cache. *)

Withdraw(k) ==
    /\ published[k] = "offered" /\ \E l \in SigningKeys \ {k} : published[l] = "offered"
    /\ published' = [published EXCEPT ![k] = "withdrawn"]
    /\ admitted' = NoPrincipal
    /\ UNCHANGED <<users, editing, verifier, standing, staleWrite>>

\* oidc_cache_ttl_seconds pass since the key was withdrawn: whatever cache has
\* it was filled before.
Lapse(k) ==
    /\ published[k] = "withdrawn"
    /\ \A p \in Verifiers : k \in verifier[p].keys => verifier[p].old
    /\ published' = [published EXCEPT ![k] = "lapsed"]
    /\ admitted' = NoPrincipal
    /\ UNCHANGED <<users, editing, verifier, standing, staleWrite>>

CacheAges(p) ==
    /\ \/ /\ verifier[p].keys # {} /\ ~verifier[p].old
          /\ verifier' = [verifier EXCEPT ![p].old = TRUE]
       \/ /\ verifier[p].discovery = "fresh"
          /\ verifier' = [verifier EXCEPT ![p].discovery = "old"]
    /\ UNCHANGED <<users, editing, published, admitted, standing, staleWrite>>

Offered == {k \in SigningKeys : published[k] = "offered"}

\* discovery: a document that is fetched empties the key cache.
Discovered(v) == IF v.discovery = "fresh" THEN v
                 ELSE [keys |-> {}, old |-> FALSE, discovery |-> "fresh"]

\* _load_jwks; the faulty variant serves what it has when the fetch fails.
Loads(v, force) == v.keys = {} \/ force \/ v.old
Loaded(v) == [v EXCEPT !.keys = Offered, !.old = FALSE]

\* What verify makes of the cache and whether it has the key: a result is
\* <<cache, found>>, one for every fetch that may fail.
LookupLenient(v, key) ==
    {<<v, key \in v.keys>>, <<Loaded(Discovered(v)), key \in Offered>>}
Lookup(v, key) ==
    LET d == Discovered(v) IN
    (IF v.discovery = "fresh" THEN {} ELSE {<<v, FALSE>>}) \cup
    (IF Loads(d, FALSE) THEN {<<d, FALSE>>, <<Loaded(d), key \in Offered>>}
     ELSE IF key \in d.keys THEN {<<d, TRUE>>}
     ELSE {<<d, FALSE>>, <<Loaded(d), key \in Offered>>})
-----------------------------------------------------------------------------
(* verify. *)

\* The managed user of a subject: the first row of the name.  (get_user by id
\* comes first; subjects are names here.)
Managed(subject) == IF Named(subject) = {} THEN NobodyYet
                    ELSE users[CHOOSE i \in Named(subject) :
                                 \A j \in Named(subject) : i <= j].id

\* scim_reject_inactive_users is on.
Barred(id) == IF id = NobodyYet THEN RequireManaged ELSE ~RowOf(id).active

\* A valid token of the subject, signed with key, claims roles.
Verify(p, subject, key, claims) ==
    LET id == Managed(subject) IN
    \E result \in Lookup(verifier[p], key) :
        /\ verifier' = [verifier EXCEPT ![p] = result[1]]
        /\ admitted' = IF result[2] /\ ~Barred(id)
                       THEN [id |-> id, subject |-> subject, claims |-> claims, key |-> key,
                             roles |-> claims \cup (IF id = NobodyYet THEN {}
                                                    ELSE RowOf(id).roles)]
                       ELSE NoPrincipal
        /\ UNCHANGED <<users, editing, published, standing, staleWrite>>

IdentityNext ==
    \/ \E p \in Servers :
          \/ SaveUser(p)
          \/ \E id \in UserIds, change \in {"roles", "activate", "deactivate", "displayName"} :
                BeginPatch(p, id, change)
          \/ \E id \in UserIds, name \in UserNames, active \in BOOLEAN,
                roles \in SUBSET ManagedRoles :
                BeginCreate(p, id, name, active, roles) \/ BeginReplace(p, id, name, active, roles)
    \/ \E p \in Verifiers :
          \/ CacheAges(p)
          \/ \E name \in UserNames, key \in SigningKeys, claims \in TokenClaims :
                Verify(p, name, key, claims)
    \/ \E id \in UserIds : DeleteUser(id)
    \/ \E k \in SigningKeys : Withdraw(k) \/ Lapse(k)

IdentitySpec == IdentityInit /\ [][IdentityNext]_identityVars
-----------------------------------------------------------------------------
(* Properties. *)

\* A principal is let in with the roles its token claims and those the last
\* answered SCIM request left its user, and only if that request left the user
\* active: a deactivation or a removal of roles takes effect at once and stays,
\* whatever other attributes are patched, as long as no process saves a copy
\* over a row that changed since it was read.
AdmittedAsProvisioned ==
    admitted.id # NobodyYet /\ ~staleWrite =>
        /\ standing[admitted.id].active
        /\ admitted.roles \subseteq admitted.claims \cup standing[admitted.id].roles

\* A token signed with a key that its issuer has withdrawn for longer than the
\* TTL of the cache is refused by every process, although fetches may fail and
\* the two documents age apart.
LapsedKeyIsRefused == admitted.key # "none" => published[admitted.key] # "lapsed"
=============================================================================
