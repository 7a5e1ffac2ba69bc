----------------------------- MODULE SearchFlow ------------------------------
(***************************************************************************)
(* ResearchService.search_hot_notes (research/service.py) as one process   *)
(* runs it for all its callers: the quality remembered for a query plans   *)
(* the next search of it, results brought by the host replace the search   *)
(* of the shared registry, reports of public providers are cached in the   *)
(* process and in Redis, and identical searches that overlap are collapsed *)
(* by SingleFlight (core/cache.py).  A step is the code between two awaits *)
(* that suspend: a Redis call, the shards of a search, a leader's result.  *)
(***************************************************************************)
EXTENDS Naturals, Sequences, FiniteSets

CONSTANTS
    Searches,        \* calls of search_hot_notes
    LiveProviders,            \* configured live providers, in LIVE_SEARCH_PROVIDERS' order
    Wishes,          \* the lists of providers a caller may ask for, <<>> for none
    Findings,        \* the sets of host results a caller may bring: note, spam, untitled
    Qualities,       \* the <<label, spread>> a report with results may be given
    CacheEntries,    \* cache_max_entries
    SharedCache,     \* redis_url is set and distributed_cache_enabled
    FixtureFallback, \* search_auto_fallback = "fixture"
    Nobody           \* no search

LiveSet == {LiveProviders[i] : i \in DOMAIN LiveProviders}
WishedFor == UNION {{wish[i] : i \in DOMAIN wish} : wish \in Wishes}

ASSUME SearchAssumption ==
    /\ CacheEntries \in Nat \ {0}
    /\ LiveProviders \in Seq(LiveSet)
    /\ SharedCache \in BOOLEAN /\ FixtureFallback \in BOOLEAN
    /\ Nobody \notin Searches
    /\ Searches \cap (LiveSet \cup WishedFor \cup {"client_web", "fixture", "authorized_import"}) = {}
    /\ Qualities \subseteq {"good", "fair", "poor"} \X {"low", "mid", "high"}
    /\ Findings \subseteq SUBSET {"note", "spam", "untitled"}

VARIABLES
    search,      \* every call
    hostResults, \* whose results the registry's client_web provider holds
    remembered,  \* SearchQualityMemory of the query: <<>> or <<quality>>
    nearCache,   \* LocalTTLCache, least recently used first
    farCache,    \* the cache entries in Redis
    met          \* the calls for client_web that a call was under way with

searchVars == <<search, hostResults, remembered, nearCache, farCache, met>>

Unborn == [at |-> "off", kind |-> "public", names |-> {}, variants |-> 0,
           todo |-> {}, origins |-> {}, leader |-> Nobody]
Underway == {"reading", "gathering", "storing", "following"}
ActiveSearches == {c \in Searches : search[c].at \in Underway}
-----------------------------------------------------------------------------
(* The plan of a search (research/search_memory.py, search/adaptive.py). *)

Sizes(n, low, high) == IF n < low THEN low ELSE IF n > high THEN high ELSE n
NLive == Len(LiveProviders)

\* _prioritize_providers: the place of the i-th provider when what the last search
\* did not use comes first, or the providers rotate.
Place(i, sources, multi) ==
    LET used == {j \in 1 .. NLive : LiveProviders[j] \in sources}
        fresh == (1 .. NLive) \ used
        before(S) == Cardinality({j \in S : j <= i})
    IN  IF ~multi THEN i
        ELSE IF fresh # {} THEN IF i \in fresh THEN before(fresh)
                                ELSE Cardinality(fresh) + before(used)
        ELSE IF i = 1 THEN NLive ELSE i - 1

\* plan_search_strategy.  A quality is [label, spread, sources]: label stands for
\* the label and the score's thresholds, spread tells a source diversity below 0.4
\* and below 0.5 from a higher one.
Plan ==
    IF remembered = <<>>
    THEN [variants |-> 6, most |-> Sizes(NLive, 1, NLive),
          place |-> [i \in 1 .. NLive |-> i]]
    ELSE LET old == remembered[1]
             poor == old.label \in {"poor", "empty"}
             fair == old.label = "fair"
             narrow == old.spread = "low"
             multi == poor \/ narrow \/ (fair /\ old.spread # "high")
             base == IF poor THEN 10 ELSE IF fair THEN 8 ELSE 5
             some == IF poor THEN NLive
                     ELSE IF ~fair THEN 1
                     ELSE IF multi THEN Sizes(NLive, 2, 3) ELSE Sizes(NLive, 1, 2)
         IN  [variants |-> IF narrow THEN base + 1 ELSE base,
              most |-> IF narrow /\ Sizes(NLive, 0, 3) > some
                       THEN Sizes(NLive, 0, 3) ELSE some,
              place |-> [i \in 1 .. NLive |-> Place(i, old.sources, multi)]]

\* normalize_web_results and filter_low_quality_web_results: what is left.
Usable(found) == found \ {"untitled", "spam"}

\* available_live_providers, ordered and cut by the plan; the fallback is the
\* fixture or, as the empty set says, a request to the host to search itself.
AutoNames ==
    IF NLive > 0 THEN {LiveProviders[i] : i \in {j \in 1 .. NLive : Plan.place[j] <= Plan.most}}
    ELSE IF FixtureFallback THEN {"fixture"} ELSE {}

\* resolve_provider_names.
Resolve(wish, found) ==
    LET named == {wish[i] : i \in DOMAIN wish} \ {"auto"}
        auto == wish = <<>> \/ \E i \in DOMAIN wish : wish[i] = "auto"
    IN  IF Usable(found) # {} THEN {"client_web"}
        ELSE IF ~auto THEN named
        ELSE IF AutoNames = {} THEN {} ELSE named \cup AutoNames

\* Inputs of one request are never cached; the faulty variant forgets one kind.
CacheableHosted(names) == names \cap {"authorized_import", "manual"} = {}
Cacheable(names) == names \cap {"authorized_import", "manual", "client_web"} = {}

\* The key of the cache and of SingleFlight holds the names and the number of
\* variants, not the host's results.
KeyOf(s) == <<s.names, s.variants>>
-----------------------------------------------------------------------------
(* The caches (core/cache.py). *)

NearHits(k) == {i \in DOMAIN nearCache : nearCache[i].key = k}
FarHits(k) == {e \in farCache : e.key = k}
Without(k) ==
    IF NearHits(k) = {} THEN nearCache
    ELSE LET at == CHOOSE i \in NearHits(k) : TRUE IN
         [i \in 1 .. Len(nearCache) - 1 |-> nearCache[IF i < at THEN i ELSE i + 1]]

\* LocalTTLCache.set: the entry becomes the newest, the oldest go.
Put(e) ==
    LET all == Append(Without(e.key), e) IN
    IF Len(all) > CacheEntries THEN Tail(all) ELSE all

ExpireNear == /\ nearCache # <<>>
              /\ \E i \in DOMAIN nearCache : nearCache' = Without(nearCache[i].key)
              /\ UNCHANGED <<search, hostResults, remembered, farCache, met>>
ExpireFar == /\ \E e \in farCache : farCache' = farCache \ {e}
             /\ UNCHANGED <<search, hostResults, remembered, nearCache, met>>

SearchInit ==
    /\ search = [c \in Searches |-> Unborn]
    /\ hostResults = Nobody
    /\ remembered = <<>> /\ nearCache = <<>> /\ farCache = {}
    /\ met = [c \in Searches |-> {}]
-----------------------------------------------------------------------------
(* A call. *)

\* SingleFlight.run: the first call of a key leads.  An authorized import has a
\* service, a registry and a SingleFlight of its own.
Leaders(s) == {d \in Searches : /\ search[d].at \in {"gathering", "storing"}
                                /\ search[d].kind # "import" /\ s.kind # "import"
                                /\ KeyOf(search[d]) = KeyOf(s)}
Joined(s) ==
    IF Leaders(s) = {} THEN [s EXCEPT !.at = "gathering", !.todo = s.names]
    ELSE [s EXCEPT !.at = "following", !.leader = CHOOSE d \in Leaders(s) : TRUE]

\* What is left of a call that has its report.
Reported(s, origins) ==
    [Unborn EXCEPT !.at = "done", !.kind = s.kind, !.leader = s.leader, !.origins = origins]

\* The calls c meets when it begins, or that its leader met before it came.
Hosted(s) == s.kind \in {"web", "named"}
Meetings(c, s) ==
    met' = [d \in Searches |->
              CASE d = c -> met[c] \cup {e \in ActiveSearches : Hosted(search[e])} \cup
                            (IF s.at = "following" THEN met[s.leader] ELSE {})
                [] d \in ActiveSearches /\ Hosted(s) -> met[d] \cup {c}
                [] OTHER -> met[d]]

\* Up to the first await: the plan, the registry, the names, the near cache,
\* and without a Redis lookup the entry into SingleFlight.
Begin(c, wish, found, import) ==
    LET names == IF import THEN {"authorized_import"} ELSE Resolve(wish, found)
        own == Usable(found) # {}
        kind == IF import THEN "import"
                ELSE IF own THEN "web"
                ELSE IF "client_web" \in names THEN "named" ELSE "public"
        s == [Unborn EXCEPT !.kind = kind, !.names = names, !.variants = Plan.variants]
        hits == NearHits(KeyOf(s))
        next == IF names = {} THEN [Unborn EXCEPT !.at = "refused"]
                ELSE IF ~Cacheable(names) THEN Joined(s)
                ELSE IF hits # {} THEN Reported(s, nearCache[CHOOSE i \in hits : TRUE].origins)
                ELSE IF SharedCache THEN [s EXCEPT !.at = "reading"] ELSE Joined(s)
    IN
    /\ search[c] = Unborn
    /\ import => found = {}
    /\ search' = [search EXCEPT ![c] = next]
    /\ Meetings(c, next)
    /\ hostResults' = IF own /\ ~import THEN c ELSE hostResults
    /\ nearCache' = IF Cacheable(names) /\ hits # {}
                    THEN Put(nearCache[CHOOSE i \in hits : TRUE]) ELSE nearCache
    /\ UNCHANGED <<remembered, farCache>>

\* Redis answers: a hit goes to the near cache, a miss into SingleFlight.
ReadFar(c) ==
    LET s == search[c]  hits == FarHits(KeyOf(s)) IN
    /\ s.at = "reading"
    /\ IF hits = {} THEN /\ search' = [search EXCEPT ![c] = Joined(s)]
                         /\ Meetings(c, Joined(s))
                         /\ UNCHANGED nearCache
       ELSE LET e == CHOOSE e \in hits : TRUE IN
            /\ search' = [search EXCEPT ![c] = Reported(s, e.origins)]
            /\ nearCache' = Put(e)
            /\ UNCHANGED met
    /\ UNCHANGED <<hostResults, remembered, farCache>>

\* A shard of _search_one looks its provider up, in a task of its own, and
\* answers or fails for good; a failure leaves the others' results.
Shard(c, p) ==
    LET found == IF p # "client_web" THEN {p} ELSE {hostResults} \ {Nobody}
    IN
    /\ search[c].at = "gathering" /\ p \in search[c].todo
    /\ \E answer \in {found, {}} :
          search' = [search EXCEPT ![c].todo = @ \ {p}, ![c].origins = @ \cup answer]
    /\ UNCHANGED <<hostResults, remembered, nearCache, farCache, met>>

\* Where the results of a ranked report come from: duplicates go, one stays.
Ranked(origins) == {kept \in SUBSET origins : origins # {} => kept # {}}

\* assess_search_quality: nothing is empty, other reports score by their notes.
Assessed(kept) ==
    IF kept = {} THEN {[label |-> "empty", spread |-> "high", sources |-> {}]}
    ELSE {[label |-> q[1], spread |-> q[2], sources |-> kept \cap LiveSet] : q \in Qualities}

\* The leader has its report or an exception; who followed it gets the same.
Settled(c, outcome) ==
    [d \in Searches |->
        IF d = c \/ (search[d].at = "following" /\ search[d].leader = c)
        THEN outcome[d] ELSE search[d]]

\* The rest of _compute_hot_notes: the quality is remembered, and the report is
\* put into the near cache before the write to Redis.
FinishSearch(c) ==
    LET s == search[c] IN
    /\ s.at = "gathering" /\ s.todo = {}
    /\ \E kept \in Ranked(s.origins) : \E quality \in Assessed(kept) :
          LET keep == Cacheable(s.names) IN
          /\ remembered' = <<quality>>
          /\ nearCache' = IF keep THEN Put([key |-> KeyOf(s), origins |-> kept])
                                  ELSE nearCache
          /\ search' = IF keep /\ SharedCache
                       THEN [search EXCEPT ![c].at = "storing", ![c].origins = kept]
                       ELSE Settled(c, [d \in Searches |-> Reported(search[d], kept)])
    /\ UNCHANGED <<hostResults, farCache, met>>

StoreFar(c) ==
    LET s == search[c] IN
    /\ s.at = "storing"
    /\ farCache' = (farCache \ FarHits(KeyOf(s))) \cup {[key |-> KeyOf(s), origins |-> s.origins]}
    /\ search' = Settled(c, [d \in Searches |-> Reported(search[d], s.origins)])
    /\ UNCHANGED <<hostResults, remembered, nearCache, met>>

\* What a call comes to when a Redis call raises or its task is cancelled: the
\* exception of a leader goes to its followers, that of a follower to nobody.
\* The faulty variant tells nobody.
BrokenAlone(c) == [search EXCEPT ![c] = [Unborn EXCEPT !.at = "failed"]]
Broken(c) == IF search[c].at \in {"gathering", "storing"}
             THEN Settled(c, [d \in Searches |-> [Unborn EXCEPT !.at = "failed"]])
             ELSE [search EXCEPT ![c] = [Unborn EXCEPT !.at = "failed"]]

RedisFails(c) ==
    /\ search[c].at \in {"reading", "storing"}
    /\ search' = Broken(c)
    /\ UNCHANGED <<hostResults, remembered, nearCache, farCache, met>>

CancelSearch(c) ==
    /\ search[c].at \in Underway
    /\ search' = Broken(c)
    /\ UNCHANGED <<hostResults, remembered, nearCache, farCache, met>>

SearchStep(c) == \/ ReadFar(c) \/ FinishSearch(c) \/ StoreFar(c)
                 \/ \E p \in search[c].todo : Shard(c, p)

SearchNext ==
    \/ \E c \in Searches : SearchStep(c) \/ RedisFails(c) \/ CancelSearch(c)
    \/ \E c \in Searches, wish \in Wishes, found \in Findings, import \in BOOLEAN :
          Begin(c, wish, found, import)
    \/ ExpireNear \/ ExpireFar

SearchSpec == SearchInit /\ [][SearchNext]_searchVars

\* Redis and the providers answer or time out, and tasks that can go on do.
SearchFairness == \A c \in Searches : WF_searchVars(SearchStep(c))
-----------------------------------------------------------------------------
(* Properties. *)

\* Whose search a call has its report from: its own or its leader's.
Sources(c) == {c} \cup ({search[c].leader} \ {Nobody})

\* Results that the host brought reach the call they were brought with, calls
\* that were under way together with it (they share the registry and, by a key
\* without the results, the leader), and calls that named client_web without
\* bringing anything or followed a leader that had: never any other call, through
\* either cache or SingleFlight.
HostResultsStayNear ==
    \A c \in Searches : \A o \in search[c].origins \cap Searches :
        \/ o = c
        \/ o \in met[c]
        \/ \E d \in Sources(c) : search[d].kind = "named"

\* Every call comes to an end, the followers of a leader that is cancelled or
\* fails included.
EverySearchEnds ==
    \A c \in Searches : search[c].at \in Underway ~> search[c].at \notin Underway
=============================================================================
