------------------------------ MODULE GoPlusCache ------------------------------
(***************************************************************************)
(* guardian/intelligence/goplus_client.py: the process-wide LRU cache of   *)
(* GoPlus answers, used by the worker threads of the API without a lock.   *)
(* Every operation on the OrderedDict is one step, as under CPython's      *)
(* interpreter lock; between two of them any other thread may run.         *)
(* An element of Lookups is a thread that calls get_token_security, again  *)
(* and again, on a chain that CHAIN_ID_MAP covers.                         *)
(***************************************************************************)
EXTENDS Integers, FiniteSets, Sequences, SequencesExt

CONSTANTS
    CacheKeys,        \* "chain_id:address"
    Lookups,
    CacheTTL,         \* CACHE_TTL_SECONDS
    MaxCacheEntries,  \* MAX_CACHE_ENTRIES
    Clearing,         \* whether anybody calls clear_cache; the service does not
    CacheMaxTime,     \* bound of the clock, for model checking
    NoData            \* Python's None

ASSUME CacheAssumption ==
    /\ CacheTTL \in Nat \ {0} /\ MaxCacheEntries \in Nat \ {0}
    /\ CacheMaxTime \in Nat /\ Clearing \in BOOLEAN /\ NoData \notin CacheKeys
    /\ IsFiniteSet(Lookups)

VARIABLES
    cache,       \* _cache, least recently used entry first
    cacheClock,  \* time.time()
    lookup       \* the progress and the local variables of each lookup

cacheVars == <<cache, cacheClock, lookup>>

\* What GoPlus said; `of` and `since` are history: about which key, and when it
\* came in or, for an answer out of the cache, when it was put there.
Answer == [of : CacheKeys, since : Nat, ok : BOOLEAN]
Entry == [key : CacheKeys, at : Nat, result : Answer]

LookupStages == {"ready", "read", "hit", "fetch", "fetched", "stored", "size", "pop",
                 "done", "raised"}

\* `began` and `squeezed` are history: when the lookup started, and whether
\* entries have been pushed out or cleared since.
Lookup == [at : LookupStages, key : CacheKeys \cup {NoData},
           cached : Entry \cup {NoData}, result : Answer \cup {NoData},
           began : Nat, squeezed : BOOLEAN]

CacheTypeOK ==
    /\ cache \in Seq(Entry)
    /\ \A m, n \in DOMAIN cache : cache[m].key = cache[n].key => m = n
    /\ cacheClock \in Nat
    /\ lookup \in [Lookups -> Lookup]

Idle == [at |-> "ready", key |-> NoData, cached |-> NoData, result |-> NoData,
         began |-> 0, squeezed |-> FALSE]

CacheInit ==
    /\ cache = <<>>
    /\ cacheClock = 0
    /\ lookup = [l \in Lookups |-> Idle]

-------------------------------------------------------------------------------
(* The OrderedDict *)

Has(k) == \E n \in DOMAIN cache : cache[n].key = k
Position(k) == CHOOSE n \in DOMAIN cache : cache[n].key = k
Get(k) == cache[Position(k)]
Others(k) == RemoveAt(cache, Position(k))

\* Mutant: a hit makes the entry young again.
MovedToEndRenewed(k) == Append(Others(k), [Get(k) EXCEPT !.at = cacheClock])

MovedToEnd(k) == Append(Others(k), Get(k))

\* Assigning to a key that is there keeps its place.
Assigned(k, e) ==
    IF Has(k) THEN [n \in DOMAIN cache |-> IF cache[n].key = k THEN e ELSE cache[n]]
    ELSE Append(cache, e)

At(l, stage) == lookup[l].at = stage
Goes(l, stage) == lookup' = [lookup EXCEPT ![l].at = stage]
Squeezed(f) == [l \in Lookups |-> [f[l] EXCEPT !.squeezed = @ \/ f[l].at # "ready"]]

-------------------------------------------------------------------------------
(* get_token_security *)

\* cached = _cache.get(cache_key)
Read(l, k) ==
    /\ At(l, "ready")
    /\ lookup' = [lookup EXCEPT ![l] =
            [@ EXCEPT !.at = IF Has(k) THEN "read" ELSE "fetch",
                      !.key = k, !.cached = IF Has(k) THEN Get(k) ELSE NoData,
                      !.began = cacheClock]]
    /\ UNCHANGED <<cache, cacheClock>>

\* Mutant: an outdated entry is dropped on the way.
CheckAgeAndDrop(l) ==
    LET fresh == cacheClock - lookup[l].cached.at < CacheTTL
    IN  /\ At(l, "read")
        /\ Goes(l, IF fresh THEN "hit" ELSE "fetch")
        /\ cache' = IF fresh \/ ~Has(lookup[l].key) THEN cache ELSE Others(lookup[l].key)
        /\ UNCHANGED cacheClock

CheckAge(l) ==
    /\ At(l, "read")
    /\ Goes(l, IF cacheClock - lookup[l].cached.at < CacheTTL THEN "hit" ELSE "fetch")
    /\ UNCHANGED <<cache, cacheClock>>

\* move_to_end raises KeyError when another thread has removed the entry;
\* what is returned was read before.
Hit(l) ==
    /\ At(l, "hit")
    /\ Has(lookup[l].key)
    /\ cache' = MovedToEnd(lookup[l].key)
    /\ lookup' = [lookup EXCEPT ![l].at = "done", ![l].result = lookup[l].cached.result]
    /\ UNCHANGED cacheClock

\* The request; any failure of it is an answer without data.
Fetch(l) ==
    /\ At(l, "fetch")
    /\ \E ok \in BOOLEAN : lookup' = [lookup EXCEPT
            ![l].at = "fetched",
            ![l].result = [of |-> lookup[l].key, since |-> cacheClock, ok |-> ok]]
    /\ UNCHANGED <<cache, cacheClock>>

\* A failure is remembered like an answer.
Store(l) ==
    /\ At(l, "fetched")
    /\ cache' = Assigned(lookup[l].key,
                         [key |-> lookup[l].key, at |-> cacheClock,
                          result |-> [lookup[l].result EXCEPT !.since = cacheClock]])
    /\ Goes(l, "stored")
    /\ UNCHANGED cacheClock

Touch(l) ==
    /\ At(l, "stored")
    /\ Has(lookup[l].key)
    /\ cache' = MovedToEnd(lookup[l].key)
    /\ Goes(l, "size")
    /\ UNCHANGED cacheClock

\* Mutant: the cache is cut back by one entry only when it is far too large.
CheckSizeLate(l) ==
    /\ At(l, "size")
    /\ Goes(l, IF Len(cache) > MaxCacheEntries + 1 THEN "pop" ELSE "done")
    /\ UNCHANGED <<cache, cacheClock>>

\* while len(_cache) > MAX_CACHE_ENTRIES
CheckSize(l) ==
    /\ At(l, "size")
    /\ Goes(l, IF Len(cache) > MaxCacheEntries THEN "pop" ELSE "done")
    /\ UNCHANGED <<cache, cacheClock>>

\* popitem(last=False)
Pop(l) ==
    /\ At(l, "pop")
    /\ cache # <<>>
    /\ cache' = Tail(cache)
    /\ lookup' = Squeezed([lookup EXCEPT ![l].at = "size"])
    /\ UNCHANGED cacheClock

\* KeyError, out of either move_to_end or out of popitem on an empty cache.
RaiseKeyError(l) ==
    /\ \/ (At(l, "hit") \/ At(l, "stored")) /\ ~Has(lookup[l].key)
       \/ At(l, "pop") /\ cache = <<>>
    /\ Goes(l, "raised")
    /\ UNCHANGED <<cache, cacheClock>>

Return(l) ==
    /\ lookup[l].at \in {"done", "raised"}
    /\ lookup' = [lookup EXCEPT ![l] = Idle]
    /\ UNCHANGED <<cache, cacheClock>>

ClearCache ==
    /\ Clearing
    /\ cache # <<>>
    /\ cache' = <<>>
    /\ lookup' = Squeezed(lookup)
    /\ UNCHANGED cacheClock

CacheTick ==
    /\ cacheClock < CacheMaxTime
    /\ cacheClock' = cacheClock + 1
    /\ UNCHANGED <<cache, lookup>>

GetTokenSecurity(l) ==
    \/ \E k \in CacheKeys : Read(l, k)
    \/ CheckAge(l)
    \/ Hit(l)
    \/ Fetch(l)
    \/ Store(l)
    \/ Touch(l)
    \/ CheckSize(l)
    \/ Pop(l)
    \/ RaiseKeyError(l)
    \/ Return(l)

CacheNext == ClearCache \/ CacheTick \/ \E l \in Lookups : GetTokenSecurity(l)

CacheSpec == CacheInit /\ [][CacheNext]_cacheVars

-------------------------------------------------------------------------------
(* Properties *)

\* What a lookup returns is about the address it asked for, and came in while
\* the lookup ran or was put into the cache less than CACHE_TTL_SECONDS before
\* it began, however often the entry has been hit in between
\* (goplus_client.py:82-85, 113-114).
AnswersAreFresh ==
    \A l \in Lookups : At(l, "done") =>
        LET r == lookup[l].result
        IN  r.of = lookup[l].key /\ lookup[l].began - r.since < CacheTTL

\* The bound against memory exhaustion (goplus_client.py:34-42) holds among
\* racing threads: what is over the limit is owed to lookups that are on
\* their way to cut it back, also when some of them raise.
CacheBounded ==
    Len(cache) <= MaxCacheEntries
        + Cardinality({l \in Lookups : lookup[l].at \in {"stored", "size", "pop"}})

\* The client "fails SOFT by design", its "whole contract is never raise"
\* (goplus_client.py:17-22, 107).  Of the lookups that found an entry, which may
\* be the oldest one: none ends in an exception.  The code breaks it
\* (goplus_client.py:84, 114), and the run goplus_raises shows how.
NeverRaises ==
    \A l \in Lookups : lookup[l].cached # NoData => ~At(l, "raised")

\* What does hold: a lookup raises only if entries were pushed out or the cache
\* was cleared while it ran (goplus_client.py:84, 115-117).
RaisesOnlyUnderPressure ==
    \A l \in Lookups : At(l, "raised") => lookup[l].squeezed
===============================================================================
