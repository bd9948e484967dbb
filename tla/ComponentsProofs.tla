---------------------------- MODULE ComponentsProofs ---------------------------
(***************************************************************************)
(* The four components of MCComponents, each for every value of its        *)
(* constants: the cache of GoPlus answers, the address lists, the search   *)
(* for a wallet's age and OAA attestation; and the four of them together.  *)
(***************************************************************************)
EXTENDS MCComponents, DataLemmas, SequenceTheorems

-------------------------------------------------------------------------------
(* GoPlusCache: the OrderedDict as a sequence of entries                      *)


KeysDiffer(s) == \A m, n \in DOMAIN s : s[m].key = s[n].key => m = n

\* t is s with its i-th entry moved to the end.
Moved(t, s, i) == t = Append(RemoveAt(s, i), s[i])

LEMMA MovedEntries ==
    ASSUME NEW s, NEW N, NEW i, NEW t,
           /\ N \in Nat /\ i \in 1 .. N /\ s \in Seq(Entry) /\ Len(s) = N
           /\ KeysDiffer(s) /\ Moved(t, s, i)
    PROVE  t \in Seq(Entry) /\ KeysDiffer(t) /\ Len(t) = N /\ Range(t) = Range(s)
<1>1. PICK u : u = RemoveAt(s, i)
  OBVIOUS
<1>2. /\ u \in Seq(Entry) /\ Len(u) = N - 1
      /\ \A n \in 1 .. N - 1 : u[n] = IF n < i THEN s[n] ELSE s[n + 1]
  <2>1. N \in Nat /\ i \in 1 .. N /\ s \in Seq(Entry) /\ Len(s) = N /\ u = RemoveAt(s, i)
    BY <1>1
  <2>2. Without(u, s, Entry, N, i)
    BY <2>1, WithoutOne
  <2> QED
    BY <2>2 DEF Without
<1>3. /\ s[i] \in Entry /\ DOMAIN s = 1 .. N /\ t = Append(u, s[i])
      /\ N \in Nat /\ i \in 1 .. N
  BY <1>1 DEF Moved
<1>4. /\ t \in Seq(Entry) /\ Len(t) = N /\ DOMAIN t = 1 .. N
      /\ t[N] = s[i] /\ \A n \in 1 .. N - 1 : t[n] = u[n]
  BY <1>2, <1>3
<1>5. \A n \in 1 .. N : \/ (n = N /\ t[n] = s[i])
                       \/ (n < N /\ n < i /\ t[n] = s[n])
                       \/ (n < N /\ n >= i /\ t[n] = s[n + 1])
  BY <1>2, <1>4
<1> DEFINE Comes(n, x) == \/ n = N /\ x = i
                          \/ n < N /\ n < i /\ x = n
                          \/ n < N /\ n >= i /\ x = n + 1
<1>6. ASSUME NEW n \in 1 .. N  PROVE \E x \in 1 .. N : t[n] = s[x] /\ Comes(n, x)
  <2>1. CASE n < N /\ n >= i
    <3>1. n + 1 \in 1 .. N /\ t[n] = s[n + 1]
      <4>1. n + 1 \in 1 .. N
        BY <1>3, <2>1
      <4>2. ~(n = N) /\ ~(n < i)
        BY <1>3, <2>1
      <4> QED
        BY <1>5, <4>1, <4>2
    <3> QED
      BY <2>1, <3>1
  <2> QED
    BY <1>5, <2>1
<1>7. KeysDiffer(t)
  <2> SUFFICES ASSUME NEW m \in 1 .. N, NEW n \in 1 .. N, t[m].key = t[n].key
               PROVE  m = n
    BY <1>4 DEF KeysDiffer
  <2>1. \A x, y \in 1 .. N : s[x].key = s[y].key => x = y
    BY <1>3 DEF KeysDiffer
  <2>2. PICK x \in 1 .. N : t[m] = s[x] /\ Comes(m, x)
    BY <1>6
  <2>3. PICK y \in 1 .. N : t[n] = s[y] /\ Comes(n, y)
    BY <1>6
  <2>4. x = y
    BY <2>1, <2>2, <2>3
  <2> QED
    BY <2>2, <2>3, <2>4 DEF Comes
<1>8. Range(t) = Range(s)
  <2>1. ASSUME NEW n \in 1 .. N  PROVE t[n] \in Range(s)
    BY <1>3, <1>6 DEF Range
  <2>2. ASSUME NEW m \in 1 .. N  PROVE s[m] \in Range(t)
    <3>1. CASE m = i
      <4>1. N \in DOMAIN t /\ t[N] = s[m]
        BY <1>4, <3>1
      <4> QED
        BY <4>1 DEF Range
    <3>2. CASE m < i
      <4>1. m \in DOMAIN t /\ t[m] = s[m]
        BY <1>2, <1>4, <3>2
      <4> QED
        BY <4>1 DEF Range
    <3>3. CASE m > i
      <4>1. m - 1 \in 1 .. N - 1 /\ ~(m - 1 < i) /\ (m - 1) + 1 = m
        BY <3>3
      <4>2. m - 1 \in DOMAIN t /\ t[m - 1] = s[m]
        BY <1>2, <1>4, <4>1
      <4> QED
        BY <4>2 DEF Range
    <3> QED
      BY <3>1, <3>2, <3>3
  <2> QED
    BY <1>3, <1>4, <2>1, <2>2 DEF Range
<1> QED
  BY <1>4, <1>7, <1>8

LEMMA TailEntries ==
    ASSUME NEW s, NEW t, s \in Seq(Entry) /\ KeysDiffer(s) /\ s # <<>> /\ t = Tail(s)
    PROVE  /\ t \in Seq(Entry) /\ KeysDiffer(t) /\ Len(t) = Len(s) - 1 /\ Len(s) \in Nat
           /\ s[1] \in Range(s) /\ Range(t) = Range(s) \ {s[1]}
<1>1. /\ Len(s) \in Nat \ {0} /\ t \in Seq(Entry) /\ Len(t) = Len(s) - 1
      /\ DOMAIN s = 1 .. Len(s) /\ DOMAIN t = 1 .. Len(s) - 1
      /\ \A n \in 1 .. Len(s) - 1 : t[n] = s[n + 1]
  OBVIOUS
<1>2. KeysDiffer(t)
  BY <1>1 DEF KeysDiffer
<1>3. Range(t) = Range(s) \ {s[1]}
  <2>1. ASSUME NEW n \in DOMAIN t  PROVE t[n] \in Range(s) \ {s[1]}
    BY <1>1 DEF KeysDiffer, Range
  <2>2. ASSUME NEW n \in DOMAIN s, s[n] # s[1]  PROVE s[n] \in Range(t)
    <3>1. n - 1 \in DOMAIN t /\ t[n - 1] = s[n]
      BY <1>1, <2>2
    <3> QED
      BY <3>1 DEF Range
  <2> QED
    BY <2>1, <2>2 DEF Range
<1> QED
  BY <1>1, <1>2, <1>3 DEF Range

LEMMA AppendedEntry ==
    ASSUME NEW s, NEW e, NEW t,
           s \in Seq(Entry) /\ KeysDiffer(s) /\ e \in Entry /\ t = Append(s, e)
             /\ \A x \in Range(s) : x.key # e.key
    PROVE  /\ t \in Seq(Entry) /\ KeysDiffer(t) /\ Len(t) = Len(s) + 1 /\ Len(s) \in Nat
           /\ Range(t) = Range(s) \cup {e}
<1>1. /\ Len(s) \in Nat /\ t \in Seq(Entry) /\ Len(t) = Len(s) + 1
      /\ DOMAIN s = 1 .. Len(s) /\ DOMAIN t = 1 .. Len(s) + 1
      /\ \A n \in 1 .. Len(s) : t[n] = s[n] /\ s[n] \in Range(s)
      /\ t[Len(s) + 1] = e
  BY DEF Range
<1>2. KeysDiffer(t)
  BY <1>1 DEF KeysDiffer
<1>3. Range(t) = Range(s) \cup {e}
  BY <1>1 DEF Range
<1> QED
  BY <1>1, <1>2, <1>3

LEMMA ReplacedEntry ==
    ASSUME NEW s, NEW e, NEW t,
           s \in Seq(Entry) /\ KeysDiffer(s) /\ e \in Entry
             /\ (\E x \in Range(s) : x.key = e.key)
             /\ t = [n \in DOMAIN s |-> IF s[n].key = e.key THEN e ELSE s[n]]
    PROVE  /\ t \in Seq(Entry) /\ KeysDiffer(t) /\ Len(t) = Len(s) /\ Len(s) \in Nat
           /\ Range(t) = {x \in Range(s) : x.key # e.key} \cup {e}
<1>1. /\ Len(s) \in Nat /\ DOMAIN s = 1 .. Len(s) /\ \A n \in 1 .. Len(s) : s[n] \in Entry
  OBVIOUS
<1>2. t \in [1 .. Len(s) -> Entry]
  BY <1>1
<1>3. t \in Seq(Entry) /\ Len(t) = Len(s)
  BY <1>1, <1>2, SeqDef, LenProperties
<1>4. KeysDiffer(t)
  BY <1>1 DEF KeysDiffer
<1>5. Range(t) = {x \in Range(s) : x.key # e.key} \cup {e}
  BY DEF Range
<1> QED
  BY <1>1, <1>3, <1>4, <1>5

-------------------------------------------------------------------------------
(* The invariant *)

\* Every entry is the answer about its key, of the time it was stored.
Stocked ==
    /\ cache \in Seq(Entry)
    /\ \A m, n \in DOMAIN cache : cache[m].key = cache[n].key => m = n
    /\ cacheClock \in Nat
    /\ \A n \in DOMAIN cache :
          /\ cache[n].result.of = cache[n].key
          /\ cache[n].result.since = cache[n].at
          /\ cache[n].at <= cacheClock

\* What a lookup holds in its local variables is true of its key, and it is
\* fresh enough as soon as the age has been checked.
HoldsTruth(l) ==
    LET x == lookup[l]
    IN  /\ x.at # "ready" => x.key \in CacheKeys /\ x.began <= cacheClock
        /\ x.at \in {"read", "hit"} =>
              /\ x.cached \in Entry
              /\ x.cached.result.of = x.key /\ x.cached.result.since = x.cached.at
        /\ x.at = "hit" => x.began - x.cached.at < CacheTTL
        /\ x.at \in {"fetched", "stored", "size", "pop"} =>
              x.result \in Answer /\ x.result.of = x.key /\ x.began <= x.result.since
        /\ x.at = "done" =>
              x.result.of = x.key /\ x.began - x.result.since < CacheTTL

\* What a lookup has seen in the cache is there, or was squeezed out.
SeesItsKey(l) ==
    LET x == lookup[l]
    IN  /\ x.at \in {"read", "hit", "stored"} => Has(x.key) \/ x.squeezed
        /\ x.at = "pop" => cache # <<>> \/ x.squeezed
        /\ x.at = "raised" => x.squeezed

\* The keys that a lookup has stored and not yet moved to the end, and the
\* lookups that are about to cut the cache back.
Owed == {k \in CacheKeys : Has(k) /\ \E l \in Lookups : At(l, "stored") /\ lookup[l].key = k}
Cutting == {l \in Lookups : lookup[l].at \in {"size", "pop"}}

\* Every entry over the limit is owed, or a lookup is about to cut it off.
Covered == Len(cache) <= MaxCacheEntries + Cardinality(Owed) + Cardinality(Cutting)

CacheInv ==
    /\ Stocked
    /\ lookup \in [Lookups -> Lookup]
    /\ \A l \in Lookups : HoldsTruth(l) /\ SeesItsKey(l)
    /\ Covered

-------------------------------------------------------------------------------
(* The operations on the cache *)

\* move_to_end keeps every entry.
LEMMA MoveKeepsEntries ==
    ASSUME Stocked, NEW k, Has(k), cache' = MovedToEnd(k), cacheClock' = cacheClock
    PROVE  /\ Stocked'
           /\ Len(cache') = Len(cache)
           /\ \A j : Has(j)' <=> Has(j)
<1>1. PICK s, t, N : s = cache /\ t = cache' /\ N = Len(cache)
  OBVIOUS
<1>2. s \in Seq(Entry) /\ Len(s) = N /\ N \in Nat /\ KeysDiffer(s) /\ DOMAIN s = 1 .. N
  BY <1>1 DEF Stocked, KeysDiffer
<1>3. PICK i : i = Position(k)
  OBVIOUS
<1>4. i \in 1 .. N
  BY <1>1, <1>2, <1>3 DEF Has, Position
<1>5. Moved(t, s, i)
  BY <1>1, <1>3 DEF MovedToEnd, Others, Get, Moved
<1>6. t \in Seq(Entry) /\ KeysDiffer(t) /\ Len(t) = N /\ Range(t) = Range(s)
  <2>1. /\ N \in Nat /\ i \in 1 .. N /\ s \in Seq(Entry) /\ Len(s) = N
        /\ KeysDiffer(s) /\ Moved(t, s, i)
    BY <1>2, <1>4, <1>5
  <2> QED
    BY <2>1, MovedEntries
<1>7. /\ \A n \in DOMAIN t : \E m \in DOMAIN s : t[n] = s[m]
      /\ \A m \in DOMAIN s : \E n \in DOMAIN t : t[n] = s[m]
  BY <1>6 DEF Range
<1>8. \A j : Has(j)' <=> Has(j)
  BY <1>1, <1>7 DEF Has
<1>9. Stocked'
  BY <1>1, <1>6, <1>7 DEF Stocked, KeysDiffer
<1> QED
  BY <1>1, <1>6, <1>8, <1>9

\* popitem takes away one key.
LEMMA PopRemovesOneKey ==
    ASSUME Stocked, cache # <<>>, cache' = Tail(cache), cacheClock' = cacheClock
    PROVE  /\ Stocked'
           /\ Len(cache') = Len(cache) - 1
           /\ \E k : \A j : Has(j)' <=> Has(j) /\ j # k
<1>1. PICK s, t : s = cache /\ t = cache'
  OBVIOUS
<1>2. s \in Seq(Entry) /\ KeysDiffer(s) /\ s # <<>> /\ t = Tail(s)
  BY <1>1 DEF Stocked, KeysDiffer
<1>3. /\ t \in Seq(Entry) /\ KeysDiffer(t) /\ Len(t) = Len(s) - 1
      /\ s[1] \in Range(s) /\ Range(t) = Range(s) \ {s[1]}
  BY <1>2, TailEntries
<1>4. /\ \A n \in DOMAIN t : \E m \in DOMAIN s : t[n] = s[m] /\ s[m] # s[1]
      /\ \A m \in DOMAIN s : s[m] # s[1] => \E n \in DOMAIN t : t[n] = s[m]
      /\ 1 \in DOMAIN s
  <2>1. 1 \in DOMAIN s
    BY <1>2
  <2> QED
    BY <1>3, <2>1 DEF Range
<1>5. \A m \in DOMAIN s : s[m] # s[1] <=> s[m].key # s[1].key
  BY <1>2, <1>4 DEF KeysDiffer
<1>6. \A j : Has(j)' <=> Has(j) /\ j # s[1].key
  <2>1. ASSUME NEW j  PROVE (\E n \in DOMAIN t : t[n].key = j)
                            <=> (\E n \in DOMAIN s : s[n].key = j) /\ j # s[1].key
    BY <1>4, <1>5
  <2> QED
    BY <1>1, <2>1 DEF Has
<1>7. Stocked'
  BY <1>1, <1>3, <1>4 DEF Stocked, KeysDiffer
<1> QED
  BY <1>1, <1>3, <1>6, <1>7

\* Assigning adds its key, and an entry only if the key was not there.
LEMMA AssignmentAddsItsKey ==
    ASSUME Stocked, NEW e \in Entry, NEW k,
           e.key = k, e.result.of = k, e.result.since = e.at, e.at <= cacheClock,
           cache' = Assigned(k, e), cacheClock' = cacheClock
    PROVE  /\ Stocked'
           /\ Len(cache') = IF Has(k) THEN Len(cache) ELSE Len(cache) + 1
           /\ \A j : Has(j)' <=> Has(j) \/ j = k
<1>1. PICK s, t : s = cache /\ t = cache'
  OBVIOUS
<1>2. s \in Seq(Entry) /\ KeysDiffer(s)
  BY <1>1 DEF Stocked, KeysDiffer
<1>3. CASE Has(k)
  <2>1. t = [n \in DOMAIN s |-> IF s[n].key = e.key THEN e ELSE s[n]]
    BY <1>1, <1>3 DEF Assigned
  <2>2. \E x \in Range(s) : x.key = e.key
    BY <1>1, <1>3 DEF Has, Range
  <2>3. /\ t \in Seq(Entry) /\ KeysDiffer(t) /\ Len(t) = Len(s)
        /\ Range(t) = {x \in Range(s) : x.key # e.key} \cup {e}
    BY <1>2, <2>1, <2>2, ReplacedEntry
  <2>4. DOMAIN t = DOMAIN s /\ \A n \in DOMAIN s : t[n] = IF s[n].key = k THEN e ELSE s[n]
    BY <2>1
  <2>5. \A j : Has(j)' <=> Has(j) \/ j = k
    BY <1>1, <1>3, <2>4 DEF Has
  <2>6. Stocked'
    BY <1>1, <2>3, <2>4 DEF Stocked, KeysDiffer
  <2> QED
    BY <1>1, <1>3, <2>3, <2>5, <2>6
<1>4. CASE ~Has(k)
  <2>1. t = Append(s, e)
    BY <1>1, <1>4 DEF Assigned
  <2>2. \A x \in Range(s) : x.key # e.key
    BY <1>1, <1>4 DEF Has, Range
  <2>3. /\ t \in Seq(Entry) /\ KeysDiffer(t) /\ Len(t) = Len(s) + 1 /\ Len(s) \in Nat
        /\ Range(t) = Range(s) \cup {e}
    BY <1>2, <2>1, <2>2, AppendedEntry
  <2>4. /\ \A n \in DOMAIN t : t[n] = e \/ \E m \in DOMAIN s : t[n] = s[m]
        /\ \A m \in DOMAIN s : \E n \in DOMAIN t : t[n] = s[m]
        /\ \E n \in DOMAIN t : t[n] = e
    BY <2>3 DEF Range
  <2>5. \A j : Has(j)' <=> Has(j) \/ j = k
    BY <1>1, <2>4 DEF Has
  <2>6. Stocked'
    BY <1>1, <2>3, <2>4 DEF Stocked, KeysDiffer
  <2> QED
    BY <1>1, <1>4, <2>3, <2>5, <2>6
<1> QED
  BY <1>3, <1>4

-------------------------------------------------------------------------------
(* The bound *)

OwedIn(c, f) ==
    {k \in CacheKeys : /\ \E n \in DOMAIN c : c[n].key = k
                       /\ \E l \in Lookups : f[l].at = "stored" /\ f[l].key = k}

\* No more keys are owed than there are lookups that owe one.
LEMMA OwedIsFinite ==
    ASSUME NEW c, NEW f \in [Lookups -> Lookup]
    PROVE  /\ IsFiniteSet(OwedIn(c, f))
           /\ Cardinality(OwedIn(c, f)) \in Nat
           /\ Cardinality(OwedIn(c, f)) <= Cardinality({l \in Lookups : f[l].at = "stored"})
<1> DEFINE S == {l \in Lookups : f[l].at = "stored"}
           g == [l \in S |-> f[l].key]
           T == {f[l].key : l \in S}
<1>1. IsFiniteSet(S) /\ Cardinality(S) \in Nat
  <2>1. S \in SUBSET Lookups
    OBVIOUS
  <2>2. IsFiniteSet(S)
    BY <2>1, FS_Subset, CacheAssumption
  <2> QED
    BY <2>2, FS_CardinalityType
<1>2. g \in Surjection(S, T)
  BY DEF Surjection
<1>3. OwedIn(c, f) \in SUBSET T
  BY DEF OwedIn
<1> HIDE DEF S, g, T
<1>4. IsFiniteSet(T) /\ Cardinality(T) <= Cardinality(S)
  BY <1>1, <1>2, FS_Surjection
<1>5. IsFiniteSet(OwedIn(c, f)) /\ Cardinality(OwedIn(c, f)) <= Cardinality(T)
  BY <1>3, <1>4, FS_Subset
<1>6. Cardinality(T) \in Nat /\ Cardinality(OwedIn(c, f)) \in Nat
  BY <1>4, <1>5, FS_CardinalityType
<1> QED
  BY <1>1, <1>4, <1>5, <1>6 DEF S

LEMMA MoreOwed ==
    ASSUME NEW A, NEW B, IsFiniteSet(B), A \subseteq B
    PROVE  /\ Cardinality(A) \in Nat /\ Cardinality(B) \in Nat
           /\ Cardinality(A) <= Cardinality(B)
<1>1. A \in SUBSET B
  OBVIOUS
<1>2. IsFiniteSet(A) /\ Cardinality(A) <= Cardinality(B)
  BY <1>1, FS_Subset
<1> QED
  BY <1>2, FS_CardinalityType

LEMMA OneMoreOwed ==
    ASSUME NEW A, NEW B, NEW x, IsFiniteSet(B), A \cup {x} \subseteq B, x \notin A
    PROVE  /\ Cardinality(A) \in Nat /\ Cardinality(B) \in Nat
           /\ Cardinality(A) + 1 <= Cardinality(B)
<1>1. A \in SUBSET B
  OBVIOUS
<1>2. IsFiniteSet(A)
  BY <1>1, FS_Subset
<1>3. IsFiniteSet(A \cup {x}) /\ Cardinality(A \cup {x}) = Cardinality(A) + 1
  BY <1>2, FS_AddElement
<1>4. Cardinality(A \cup {x}) <= Cardinality(B)
  BY MoreOwed
<1> QED
  BY <1>2, <1>3, <1>4, FS_CardinalityType

LEMMA OneLessOwed ==
    ASSUME NEW A, NEW B, NEW x, IsFiniteSet(B), A \subseteq B \cup {x}
    PROVE  /\ Cardinality(A) \in Nat /\ Cardinality(B) \in Nat
           /\ Cardinality(A) <= Cardinality(B) + 1
<1>1. /\ IsFiniteSet(B \cup {x}) /\ Cardinality(B) \in Nat
      /\ Cardinality(B \cup {x}) <= Cardinality(B) + 1
  BY FS_AddElement, FS_CardinalityType
<1>2. /\ Cardinality(A) \in Nat /\ Cardinality(B \cup {x}) \in Nat
      /\ Cardinality(A) <= Cardinality(B \cup {x})
  BY <1>1, MoreOwed
<1> QED
  BY <1>1, <1>2

LEMMA OwedNow ==
    ASSUME lookup \in [Lookups -> Lookup]
    PROVE  /\ IsFiniteSet(Owed) /\ IsFiniteSet(Cutting)
           /\ Cardinality(Owed) \in Nat /\ Cardinality(Cutting) \in Nat
<1>1. PICK c, f : c = cache /\ f = lookup
  OBVIOUS
<1>2. Owed = OwedIn(c, f)
  BY <1>1 DEF Owed, OwedIn, Has, At
<1>3. Cutting \in SUBSET Lookups
  BY DEF Cutting
<1>4. IsFiniteSet(Cutting)
  BY <1>3, FS_Subset, CacheAssumption
<1> QED
  BY <1>1, <1>2, <1>4, OwedIsFinite, FS_CardinalityType

LEMMA OwedNext ==
    ASSUME lookup' \in [Lookups -> Lookup]
    PROVE  /\ IsFiniteSet(Owed') /\ IsFiniteSet(Cutting')
           /\ Cardinality(Owed') \in Nat /\ Cardinality(Cutting') \in Nat
<1>1. PICK c, f : c = cache' /\ f = lookup'
  OBVIOUS
<1>2. Owed' = OwedIn(c, f)
  BY <1>1 DEF Owed, OwedIn, Has, At
<1>3. Cutting' \in SUBSET Lookups
  BY DEF Cutting
<1>4. IsFiniteSet(Cutting')
  BY <1>3, FS_Subset, CacheAssumption
<1> QED
  BY <1>1, <1>2, <1>4, OwedIsFinite, FS_CardinalityType

\* Covered, with the sizes named.
LEMMA CoveredBy ==
    ASSUME NEW a, NEW b, a = Cardinality(Owed'), b = Cardinality(Cutting'),
           Len(cache') <= MaxCacheEntries + a + b
    PROVE  Covered'
  BY DEF Covered

\* Nothing that covers an entry is lost.
LEMMA CoverStays ==
    ASSUME Stocked, Covered, lookup' \in [Lookups -> Lookup],
           Owed \subseteq Owed', Cutting \subseteq Cutting',
           Len(cache') = Len(cache)
    PROVE  Covered'
<1>1. PICK A, B, C, D : A = Owed /\ B = Owed' /\ C = Cutting /\ D = Cutting'
  OBVIOUS
<1>2. IsFiniteSet(B) /\ IsFiniteSet(D)
  BY <1>1, OwedNext
<1>3. /\ Cardinality(A) \in Nat /\ Cardinality(B) \in Nat
      /\ Cardinality(A) <= Cardinality(B)
  BY <1>1, <1>2, MoreOwed
<1>4. /\ Cardinality(C) \in Nat /\ Cardinality(D) \in Nat
      /\ Cardinality(C) <= Cardinality(D)
  BY <1>1, <1>2, MoreOwed
<1>5. Len(cache) \in Nat /\ MaxCacheEntries \in Nat
  BY CacheAssumption DEF Stocked
<1>6. Len(cache') <= MaxCacheEntries + Cardinality(B) + Cardinality(D)
  BY <1>1, <1>3, <1>4, <1>5 DEF Covered
<1> QED
  BY <1>1, <1>6 DEF Covered

\* A cache that is small enough needs no cover.
LEMMA SmallIsCovered ==
    ASSUME lookup' \in [Lookups -> Lookup],
           Len(cache') \in Nat, Len(cache') <= MaxCacheEntries
    PROVE  Covered'
<1>1. PICK B, D : B = Owed' /\ D = Cutting'
  OBVIOUS
<1>2. Cardinality(B) \in Nat /\ Cardinality(D) \in Nat
  BY <1>1, OwedNext
<1>3. Len(cache') <= MaxCacheEntries + Cardinality(B) + Cardinality(D)
  BY <1>2, CacheAssumption
<1> QED
  BY <1>1, <1>3 DEF Covered

\* The other lookups, when no key is lost.
LEMMA OthersStay ==
    ASSUME NEW l \in Lookups, HoldsTruth(l), SeesItsKey(l),
           lookup'[l] = lookup[l], cacheClock' = cacheClock,
           \A j : Has(j) => Has(j)', cache # <<>> => cache' # <<>>
    PROVE  HoldsTruth(l)' /\ SeesItsKey(l)'
  BY DEF HoldsTruth, SeesItsKey

LEMMA GetGives ==
    ASSUME Stocked, NEW k, Has(k)
    PROVE  /\ Get(k) \in Entry /\ Get(k).key = k
           /\ Get(k).result.of = k /\ Get(k).result.since = Get(k).at
<1>1. Position(k) \in DOMAIN cache /\ cache[Position(k)].key = k
  BY DEF Has, Position
<1>2. cache[Position(k)] \in Entry
  BY <1>1 DEF Stocked
<1> QED
  BY <1>1, <1>2 DEF Get, Stocked

-------------------------------------------------------------------------------
(* The invariant is kept *)

\* A step of one lookup that loses no key.
LEMMA OneLookupMoves ==
    ASSUME CacheInv, NEW l \in Lookups, NEW y \in Lookup,
           lookup' = [lookup EXCEPT ![l] = y], cacheClock' = cacheClock,
           Stocked', \A j : Has(j) => Has(j)', cache # <<>> => cache' # <<>>,
           HoldsTruth(l)', SeesItsKey(l)', Covered'
    PROVE  CacheInv'
<1>1. /\ lookup' \in [Lookups -> Lookup]
      /\ \A m \in Lookups \ {l} : lookup'[m] = lookup[m]
  BY DEF CacheInv
<1>2. \A m \in Lookups \ {l} : HoldsTruth(m)' /\ SeesItsKey(m)'
  BY <1>1, OthersStay DEF CacheInv
<1> QED
  BY <1>1, <1>2 DEF CacheInv

\* A step of one lookup that leaves the cache alone and owes what it owed.
LEMMA OneLookupLooks ==
    ASSUME CacheInv, NEW l \in Lookups, NEW y \in Lookup,
           lookup' = [lookup EXCEPT ![l] = y], cacheClock' = cacheClock, cache' = cache,
           lookup[l].at = "stored" => 
              \/ ~Has(lookup[l].key)
              \/ y.at = "stored" /\ y.key = lookup[l].key,
           lookup[l].at \in {"size", "pop"} => y.at \in {"size", "pop"},
           lookup'[l] = y => HoldsTruth(l)' /\ SeesItsKey(l)'
    PROVE  CacheInv'
<1>1. /\ lookup' \in [Lookups -> Lookup] /\ lookup'[l] = y
      /\ \A m \in Lookups \ {l} : lookup'[m] = lookup[m]
  BY DEF CacheInv
<1>2. Stocked' /\ \A j : Has(j)' <=> Has(j)
  BY DEF Stocked, Has, CacheInv
<1>3. Owed \subseteq Owed' /\ Cutting \subseteq Cutting'
  BY <1>1, <1>2 DEF At, Owed, Cutting
<1>4. Covered'
  BY <1>1, <1>3, CoverStays DEF CacheInv
<1> QED
  BY <1>1, <1>2, <1>4, OneLookupMoves

LEMMA ReadKeeps ==
    ASSUME CacheInv, NEW l \in Lookups, NEW k \in CacheKeys, Read(l, k)
    PROVE  CacheInv'
<1>1. PICK x \in Lookup : x = lookup[l]
  BY DEF CacheInv
<1>2. PICK g : g = IF Has(k) THEN Get(k) ELSE NoData
  OBVIOUS
<1>3. /\ g \in Entry \cup {NoData}
      /\ Has(k) => g \in Entry /\ g.result.of = k /\ g.result.since = g.at
  BY <1>2, GetGives DEF CacheInv
<1>4. PICK y : y = [x EXCEPT !.at = IF Has(k) THEN "read" ELSE "fetch",
                             !.key = k, !.cached = g, !.began = cacheClock]
  OBVIOUS
<1>5. /\ y \in Lookup /\ y.key = k /\ y.cached = g /\ y.began = cacheClock
      /\ y.at = IF Has(k) THEN "read" ELSE "fetch"
  BY <1>1, <1>3, <1>4 DEF Lookup, LookupStages, Stocked, CacheInv
<1>6. lookup' = [lookup EXCEPT ![l] = y] /\ cache' = cache /\ cacheClock' = cacheClock
  BY <1>1, <1>2, <1>4 DEF Read
<1>7. lookup'[l] = y => HoldsTruth(l)' /\ SeesItsKey(l)'
  BY <1>3, <1>5, <1>6 DEF HoldsTruth, SeesItsKey, Stocked, Has, CacheInv
<1>8. lookup[l].at = "ready"
  BY DEF Read, At
<1> QED
  BY <1>5, <1>6, <1>7, <1>8, OneLookupLooks

LEMMA CheckAgeKeeps ==
    ASSUME CacheInv, NEW l \in Lookups, CheckAge(l)
    PROVE  CacheInv'
<1>1. PICK x \in Lookup : x = lookup[l]
  BY DEF CacheInv
<1>2. PICK y : y = [x EXCEPT !.at = IF cacheClock - x.cached.at < CacheTTL THEN "hit"
                                    ELSE "fetch"]
  OBVIOUS
<1>3. /\ y \in Lookup /\ y.key = x.key /\ y.cached = x.cached /\ y.began = x.began
      /\ y.squeezed = x.squeezed /\ x.at = "read"
      /\ y.at = IF cacheClock - x.cached.at < CacheTTL THEN "hit" ELSE "fetch"
  BY <1>1, <1>2 DEF Lookup, LookupStages, CheckAge, At
<1>4. lookup' = [lookup EXCEPT ![l] = y] /\ cache' = cache /\ cacheClock' = cacheClock
  BY <1>1, <1>2 DEF CheckAge, Goes
<1>5. /\ x.cached \in Entry /\ x.key \in CacheKeys /\ x.began <= cacheClock
      /\ x.cached.result.of = x.key /\ x.cached.result.since = x.cached.at
      /\ Has(x.key) \/ x.squeezed
  BY <1>1, <1>3 DEF HoldsTruth, SeesItsKey, CacheInv
<1>6. y.at = "hit" => y.began - y.cached.at < CacheTTL
  BY <1>1, <1>3, <1>5, CacheAssumption DEF Entry, Lookup, Stocked, CacheInv
<1>7. lookup'[l] = y => HoldsTruth(l)' /\ SeesItsKey(l)'
  BY <1>3, <1>4, <1>5, <1>6 DEF HoldsTruth, SeesItsKey, Has
<1> QED
  BY <1>1, <1>3, <1>4, <1>7, OneLookupLooks

LEMMA HitKeeps ==
    ASSUME CacheInv, NEW l \in Lookups, Hit(l)
    PROVE  CacheInv'
<1>1. PICK x \in Lookup : x = lookup[l]
  BY DEF CacheInv
<1>2. PICK y : y = [x EXCEPT !.at = "done", !.result = x.cached.result]
  OBVIOUS
<1>3. /\ x.at = "hit" /\ Has(x.key) /\ x.key \in CacheKeys /\ x.cached \in Entry
      /\ x.began <= cacheClock /\ x.began - x.cached.at < CacheTTL
      /\ x.cached.result.of = x.key /\ x.cached.result.since = x.cached.at
  BY <1>1 DEF Hit, At, HoldsTruth, CacheInv
<1>4. /\ y \in Lookup /\ y.key = x.key /\ y.began = x.began /\ y.at = "done"
      /\ y.result = x.cached.result
  BY <1>1, <1>2, <1>3 DEF Lookup, LookupStages, Entry
<1>5. /\ lookup' = [lookup EXCEPT ![l] = y] /\ cache' = MovedToEnd(x.key)
      /\ cacheClock' = cacheClock
  BY <1>1, <1>2, <1>3 DEF Hit, CacheInv
<1>6. Stocked' /\ Len(cache') = Len(cache) /\ \A j : Has(j)' <=> Has(j)
  BY <1>3, <1>5, MoveKeepsEntries DEF CacheInv
<1>7. /\ lookup' \in [Lookups -> Lookup] /\ lookup'[l] = y
      /\ \A m \in Lookups \ {l} : lookup'[m] = lookup[m]
  BY <1>4, <1>5 DEF CacheInv
<1>8. HoldsTruth(l)' /\ SeesItsKey(l)'
  BY <1>3, <1>4, <1>5, <1>7 DEF HoldsTruth, SeesItsKey
<1>9. Owed \subseteq Owed' /\ Cutting \subseteq Cutting'
  BY <1>1, <1>3, <1>6, <1>7 DEF At, Owed, Cutting
<1>10. Covered'
  BY <1>6, <1>7, <1>9, CoverStays DEF CacheInv
<1>11. cache # <<>> => cache' # <<>>
  BY <1>6 DEF Stocked, CacheInv
<1> QED
  BY <1>4, <1>5, <1>6, <1>8, <1>10, <1>11, OneLookupMoves

LEMMA FetchKeeps ==
    ASSUME CacheInv, NEW l \in Lookups, Fetch(l)
    PROVE  CacheInv'
<1>1. PICK x \in Lookup : x = lookup[l]
  BY DEF CacheInv
<1>2. PICK ok \in BOOLEAN : lookup' = [lookup EXCEPT
            ![l].at = "fetched",
            ![l].result = [of |-> lookup[l].key, since |-> cacheClock, ok |-> ok]]
  BY DEF Fetch
<1>3. PICK r : r = [of |-> x.key, since |-> cacheClock, ok |-> ok]
  OBVIOUS
<1>4. PICK y : y = [x EXCEPT !.at = "fetched", !.result = r]
  OBVIOUS
<1>5. x.at = "fetch" /\ x.key \in CacheKeys /\ x.began <= cacheClock
  BY <1>1 DEF Fetch, At, HoldsTruth, CacheInv
<1>6. r \in Answer /\ r.of = x.key /\ r.since = cacheClock
  BY <1>2, <1>3, <1>5 DEF Answer, Stocked, CacheInv
<1>7. /\ y \in Lookup /\ y.key = x.key /\ y.began = x.began /\ y.at = "fetched"
      /\ y.result = r
  BY <1>1, <1>4, <1>6 DEF Lookup, LookupStages
<1>8. lookup' = [lookup EXCEPT ![l] = y] /\ cache' = cache /\ cacheClock' = cacheClock
  BY <1>1, <1>2, <1>3, <1>4 DEF Fetch, CacheInv
<1>9. lookup'[l] = y => HoldsTruth(l)' /\ SeesItsKey(l)'
  BY <1>5, <1>6, <1>7, <1>8 DEF HoldsTruth, SeesItsKey
<1> QED
  BY <1>1, <1>5, <1>7, <1>8, <1>9, OneLookupLooks

LEMMA StoreKeeps ==
    ASSUME CacheInv, NEW l \in Lookups, Store(l)
    PROVE  CacheInv'
<1>1. PICK x \in Lookup : x = lookup[l]
  BY DEF CacheInv
<1>2. /\ x.at = "fetched" /\ x.key \in CacheKeys /\ x.result \in Answer
      /\ x.result.of = x.key /\ x.began <= x.result.since /\ x.began <= cacheClock
  BY <1>1 DEF Store, At, HoldsTruth, CacheInv
<1>3. PICK e : e = [key |-> x.key, at |-> cacheClock,
                    result |-> [x.result EXCEPT !.since = cacheClock]]
  OBVIOUS
<1>4. /\ e \in Entry /\ e.key = x.key /\ e.at = cacheClock
      /\ e.result.of = x.key /\ e.result.since = e.at /\ e.at <= cacheClock
  BY <1>2, <1>3 DEF Entry, Answer, Stocked, CacheInv
<1>5. PICK y : y = [x EXCEPT !.at = "stored"]
  OBVIOUS
<1>6. /\ y \in Lookup /\ y.key = x.key /\ y.began = x.began /\ y.at = "stored"
      /\ y.result = x.result
  BY <1>1, <1>5 DEF Lookup, LookupStages
<1>7. /\ lookup' = [lookup EXCEPT ![l] = y] /\ cache' = Assigned(x.key, e)
      /\ cacheClock' = cacheClock
  BY <1>1, <1>3, <1>5 DEF Store, Goes
<1>8. /\ Stocked'
      /\ Len(cache') = IF Has(x.key) THEN Len(cache) ELSE Len(cache) + 1
      /\ \A j : Has(j)' <=> Has(j) \/ j = x.key
  BY <1>4, <1>7, AssignmentAddsItsKey DEF CacheInv
<1>9. /\ lookup' \in [Lookups -> Lookup] /\ lookup'[l] = y
      /\ \A m \in Lookups \ {l} : lookup'[m] = lookup[m]
  BY <1>6, <1>7 DEF CacheInv
<1>10. HoldsTruth(l)' /\ SeesItsKey(l)'
  BY <1>2, <1>6, <1>7, <1>8, <1>9 DEF HoldsTruth, SeesItsKey
<1>11. Owed \cup {x.key} \subseteq Owed' /\ Cutting \subseteq Cutting'
  BY <1>1, <1>2, <1>6, <1>8, <1>9 DEF At, Owed, Cutting
<1>12. Covered'
  <2>1. CASE Has(x.key)
    BY <1>8, <1>9, <1>11, <2>1, CoverStays DEF CacheInv
  <2>2. CASE ~Has(x.key)
    <3>1. PICK A, B, C, D : A = Owed /\ B = Owed' /\ C = Cutting /\ D = Cutting'
      OBVIOUS
    <3>2. x.key \notin A
      BY <2>2, <3>1 DEF Owed
    <3>3. IsFiniteSet(B) /\ IsFiniteSet(D)
      BY <1>9, <3>1, OwedNext
    <3>4. /\ Cardinality(A) \in Nat /\ Cardinality(B) \in Nat
          /\ Cardinality(A) + 1 <= Cardinality(B)
      BY <1>11, <3>1, <3>2, <3>3, OneMoreOwed
    <3>5. /\ Cardinality(C) \in Nat /\ Cardinality(D) \in Nat
          /\ Cardinality(C) <= Cardinality(D)
      BY <1>11, <3>1, <3>3, MoreOwed
    <3>6. Len(cache) \in Nat /\ MaxCacheEntries \in Nat /\ Len(cache') = Len(cache) + 1
      BY <1>8, <2>2, CacheAssumption DEF Stocked, CacheInv
    <3>7. Len(cache') <= MaxCacheEntries + Cardinality(B) + Cardinality(D)
      BY <3>1, <3>4, <3>5, <3>6 DEF Covered, CacheInv
    <3> QED
      BY <3>1, <3>7 DEF Covered
  <2> QED
    BY <2>1, <2>2
<1>13. cache # <<>> => cache' # <<>>
  BY <1>8 DEF Stocked, CacheInv
<1> QED
  BY <1>6, <1>7, <1>8, <1>10, <1>12, <1>13, OneLookupMoves

LEMMA TouchKeeps ==
    ASSUME CacheInv, NEW l \in Lookups, Touch(l)
    PROVE  CacheInv'
<1>1. PICK x \in Lookup : x = lookup[l]
  BY DEF CacheInv
<1>2. /\ x.at = "stored" /\ Has(x.key) /\ x.key \in CacheKeys /\ x.result \in Answer
      /\ x.result.of = x.key /\ x.began <= x.result.since /\ x.began <= cacheClock
  BY <1>1 DEF Touch, At, HoldsTruth, CacheInv
<1>3. PICK y : y = [x EXCEPT !.at = "size"]
  OBVIOUS
<1>4. /\ y \in Lookup /\ y.key = x.key /\ y.began = x.began /\ y.at = "size"
      /\ y.result = x.result
  BY <1>1, <1>3 DEF Lookup, LookupStages
<1>5. /\ lookup' = [lookup EXCEPT ![l] = y] /\ cache' = MovedToEnd(x.key)
      /\ cacheClock' = cacheClock
  BY <1>1, <1>3 DEF Touch, Goes
<1>6. Stocked' /\ Len(cache') = Len(cache) /\ \A j : Has(j)' <=> Has(j)
  BY <1>2, <1>5, MoveKeepsEntries DEF CacheInv
<1>7. /\ lookup' \in [Lookups -> Lookup] /\ lookup'[l] = y
      /\ \A m \in Lookups \ {l} : lookup'[m] = lookup[m]
  BY <1>4, <1>5 DEF CacheInv
<1>8. HoldsTruth(l)' /\ SeesItsKey(l)'
  BY <1>2, <1>4, <1>5, <1>7 DEF HoldsTruth, SeesItsKey
<1>9. Covered'
  <2>1. PICK A, B, C, D : A = Owed /\ B = Owed' /\ C = Cutting /\ D = Cutting'
    OBVIOUS
  <2>2. A \subseteq B \cup {x.key}
    BY <1>1, <1>6, <1>7, <2>1 DEF At, Owed
  <2>3. C \cup {l} \subseteq D /\ l \notin C
    BY <1>1, <1>2, <1>4, <1>7, <2>1 DEF Cutting
  <2>4. IsFiniteSet(B) /\ IsFiniteSet(D)
    BY <1>7, <2>1, OwedNext
  <2>5. /\ Cardinality(A) \in Nat /\ Cardinality(B) \in Nat
        /\ Cardinality(A) <= Cardinality(B) + 1
    BY <2>2, <2>4, OneLessOwed
  <2>6. /\ Cardinality(C) \in Nat /\ Cardinality(D) \in Nat
        /\ Cardinality(C) + 1 <= Cardinality(D)
    BY <2>3, <2>4, OneMoreOwed
  <2>7. Len(cache) \in Nat /\ MaxCacheEntries \in Nat
    BY CacheAssumption DEF Stocked, CacheInv
  <2>8. Len(cache') <= MaxCacheEntries + Cardinality(B) + Cardinality(D)
    BY <1>6, <2>1, <2>5, <2>6, <2>7 DEF Covered, CacheInv
  <2> QED
    BY <2>1, <2>8 DEF Covered
<1>10. cache # <<>> => cache' # <<>>
  BY <1>6 DEF Stocked, CacheInv
<1> QED
  BY <1>4, <1>5, <1>6, <1>8, <1>9, <1>10, OneLookupMoves

LEMMA CheckSizeKeeps ==
    ASSUME CacheInv, NEW l \in Lookups, CheckSize(l)
    PROVE  CacheInv'
<1>1. PICK x \in Lookup : x = lookup[l]
  BY DEF CacheInv
<1>2. /\ x.at = "size" /\ x.key \in CacheKeys /\ x.result \in Answer
      /\ x.result.of = x.key /\ x.began <= x.result.since /\ x.began <= cacheClock
  BY <1>1 DEF CheckSize, At, HoldsTruth, CacheInv
<1>3. PICK y : y = [x EXCEPT !.at = IF Len(cache) > MaxCacheEntries THEN "pop" ELSE "done"]
  OBVIOUS
<1>4. /\ y \in Lookup /\ y.key = x.key /\ y.began = x.began /\ y.result = x.result
      /\ y.at = IF Len(cache) > MaxCacheEntries THEN "pop" ELSE "done"
  BY <1>1, <1>3 DEF Lookup, LookupStages
<1>5. lookup' = [lookup EXCEPT ![l] = y] /\ cache' = cache /\ cacheClock' = cacheClock
  BY <1>1, <1>3 DEF CheckSize, Goes
<1>6. /\ lookup' \in [Lookups -> Lookup] /\ lookup'[l] = y
      /\ \A m \in Lookups \ {l} : lookup'[m] = lookup[m]
  BY <1>4, <1>5 DEF CacheInv
<1>7. Stocked' /\ \A j : Has(j)' <=> Has(j)
  BY <1>5 DEF Stocked, Has, CacheInv
<1>8. Len(cache) \in Nat /\ MaxCacheEntries \in Nat \ {0}
  BY CacheAssumption DEF Stocked, CacheInv
<1>9. y.at = "pop" => cache # <<>>
  BY <1>4, <1>8
<1>10. y.at = "done" => y.began - y.result.since < CacheTTL
  BY <1>1, <1>2, <1>4, CacheAssumption DEF Lookup, Answer
<1>11. HoldsTruth(l)' /\ SeesItsKey(l)'
  BY <1>2, <1>4, <1>5, <1>6, <1>9, <1>10 DEF HoldsTruth, SeesItsKey
<1>12. Covered'
  <2>1. CASE Len(cache) > MaxCacheEntries
    <3>1. Owed \subseteq Owed' /\ Cutting \subseteq Cutting'
      BY <1>1, <1>2, <1>4, <1>6, <1>7, <2>1 DEF At, Owed, Cutting
    <3> QED
      BY <1>5, <1>6, <3>1, CoverStays DEF CacheInv
  <2>2. CASE Len(cache) <= MaxCacheEntries
    BY <1>5, <1>6, <1>8, <2>2, SmallIsCovered
  <2> QED
    BY <1>8, <2>1, <2>2
<1> QED
  BY <1>4, <1>5, <1>7, <1>11, <1>12, OneLookupMoves

\* Whoever is on the way sees that entries were squeezed out.
LEMMA SqueezedSee ==
    ASSUME NEW m \in Lookups, NEW x, NEW y,
           x = lookup[m], y = lookup'[m], HoldsTruth(m), cacheClock' = cacheClock,
           y.key = x.key, y.cached = x.cached, y.result = x.result, y.began = x.began,
           y.at = x.at \/ (x.at = "pop" /\ y.at = "size"),
           y.at # "ready" => y.squeezed
    PROVE  HoldsTruth(m)' /\ SeesItsKey(m)'
<1>1. HoldsTruth(m)'
  BY DEF HoldsTruth
<1> QED
  BY <1>1 DEF SeesItsKey

LEMMA PopKeeps ==
    ASSUME CacheInv, NEW l \in Lookups, Pop(l)
    PROVE  CacheInv'
<1>1. /\ lookup[l].at = "pop" /\ cache # <<>> /\ cache' = Tail(cache)
      /\ cacheClock' = cacheClock
      /\ lookup' = Squeezed([lookup EXCEPT ![l].at = "size"])
      /\ lookup \in [Lookups -> Lookup]
  BY DEF Pop, At, CacheInv
<1>2. Stocked' /\ Len(cache') = Len(cache) - 1
  BY <1>1, PopRemovesOneKey DEF CacheInv
<1>3. PICK k : \A j : Has(j)' <=> Has(j) /\ j # k
  BY <1>1, PopRemovesOneKey DEF CacheInv
<1>4. ASSUME NEW m \in Lookups
      PROVE  /\ lookup'[m] \in Lookup
             /\ lookup'[m].at = IF m = l THEN "size" ELSE lookup[m].at
             /\ lookup'[m].key = lookup[m].key
             /\ HoldsTruth(m)' /\ SeesItsKey(m)'
  <2>1. PICK x \in Lookup : x = lookup[m]
    BY <1>1
  <2>2. PICK y : y = [x EXCEPT !.at = IF m = l THEN "size" ELSE x.at,
                               !.squeezed = x.squeezed \/ x.at # "ready"]
    OBVIOUS
  <2>3. lookup'[m] = y
    BY <1>1, <2>1, <2>2 DEF Squeezed, Lookup
  <2>4. /\ y \in Lookup /\ y.key = x.key /\ y.cached = x.cached /\ y.result = x.result
        /\ y.began = x.began /\ y.at = IF m = l THEN "size" ELSE x.at
        /\ y.at # "ready" => y.squeezed
    BY <1>1, <2>1, <2>2 DEF Lookup, LookupStages
  <2>5. HoldsTruth(m) /\ (y.at = x.at \/ (x.at = "pop" /\ y.at = "size"))
    BY <1>1, <2>1, <2>4 DEF CacheInv
  <2>6. HoldsTruth(m)' /\ SeesItsKey(m)'
    BY <1>1, <2>1, <2>3, <2>4, <2>5, SqueezedSee
  <2> QED
    BY <2>1, <2>3, <2>4, <2>6
<1>5. lookup' \in [Lookups -> Lookup]
  BY <1>1, <1>4 DEF Squeezed
<1>6. Covered'
  <2>1. PICK A, B, C, D : A = Owed /\ B = Owed' /\ C = Cutting /\ D = Cutting'
    OBVIOUS
  <2>2. A \subseteq B \cup {k}
    BY <1>1, <1>3, <1>4, <2>1 DEF At, Owed
  <2>3. C \subseteq D
    BY <1>4, <2>1 DEF Cutting
  <2>4. IsFiniteSet(B) /\ IsFiniteSet(D)
    BY <1>5, <2>1, OwedNext
  <2>5. /\ Cardinality(A) \in Nat /\ Cardinality(B) \in Nat
        /\ Cardinality(A) <= Cardinality(B) + 1
    BY <2>2, <2>4, OneLessOwed
  <2>6. /\ Cardinality(C) \in Nat /\ Cardinality(D) \in Nat
        /\ Cardinality(C) <= Cardinality(D)
    BY <2>3, <2>4, MoreOwed
  <2>7. Len(cache) \in Nat /\ MaxCacheEntries \in Nat
    BY CacheAssumption DEF Stocked, CacheInv
  <2>8. Len(cache') <= MaxCacheEntries + Cardinality(B) + Cardinality(D)
    BY <1>2, <2>1, <2>5, <2>6, <2>7 DEF Covered, CacheInv
  <2> QED
    BY <2>1, <2>8 DEF Covered
<1> QED
  BY <1>2, <1>4, <1>5, <1>6 DEF CacheInv

LEMMA RaiseKeeps ==
    ASSUME CacheInv, NEW l \in Lookups, RaiseKeyError(l)
    PROVE  CacheInv'
<1>1. PICK x \in Lookup : x = lookup[l]
  BY DEF CacheInv
<1>2. /\ \/ x.at \in {"hit", "stored"} /\ ~Has(x.key)
         \/ x.at = "pop" /\ cache = <<>>
      /\ x.key \in CacheKeys /\ x.began <= cacheClock /\ x.squeezed
  BY <1>1 DEF RaiseKeyError, At, HoldsTruth, SeesItsKey, CacheInv
<1>3. PICK y : y = [x EXCEPT !.at = "raised"]
  OBVIOUS
<1>4. /\ y \in Lookup /\ y.key = x.key /\ y.began = x.began /\ y.at = "raised"
      /\ y.squeezed = x.squeezed
  BY <1>1, <1>3 DEF Lookup, LookupStages
<1>5. lookup' = [lookup EXCEPT ![l] = y] /\ cache' = cache /\ cacheClock' = cacheClock
  BY <1>1, <1>3 DEF RaiseKeyError, Goes
<1>6. lookup'[l] = y => HoldsTruth(l)' /\ SeesItsKey(l)'
  BY <1>2, <1>4, <1>5 DEF HoldsTruth, SeesItsKey
<1>7. /\ lookup' \in [Lookups -> Lookup] /\ lookup'[l] = y
      /\ \A m \in Lookups \ {l} : lookup'[m] = lookup[m]
  BY <1>4, <1>5 DEF CacheInv
<1>8. Stocked' /\ \A j : Has(j)' <=> Has(j)
  BY <1>5 DEF Stocked, Has, CacheInv
<1>9. Covered'
  <2>1. CASE x.at = "pop"
    <3>1. Len(cache') = 0 /\ MaxCacheEntries \in Nat
      BY <1>2, <1>5, <2>1, CacheAssumption
    <3> QED
      BY <1>7, <3>1, SmallIsCovered
  <2>2. CASE x.at \in {"hit", "stored"}
    <3>1. Owed \subseteq Owed' /\ Cutting \subseteq Cutting'
      BY <1>1, <1>2, <1>7, <1>8, <2>2 DEF At, Owed, Cutting
    <3> QED
      BY <1>5, <1>7, <3>1, CoverStays DEF CacheInv
  <2> QED
    BY <1>2, <2>1, <2>2
<1> QED
  BY <1>4, <1>5, <1>6, <1>7, <1>8, <1>9, OneLookupMoves

LEMMA ReturnKeeps ==
    ASSUME CacheInv, NEW l \in Lookups, Return(l)
    PROVE  CacheInv'
<1>1. PICK y : y = Idle
  OBVIOUS
<1>2. y \in Lookup /\ y.at = "ready"
  BY <1>1 DEF Idle, Lookup, LookupStages
<1>3. /\ lookup' = [lookup EXCEPT ![l] = y] /\ cache' = cache /\ cacheClock' = cacheClock
      /\ lookup[l].at \in {"done", "raised"}
  BY <1>1 DEF Return
<1>4. lookup'[l] = y => HoldsTruth(l)' /\ SeesItsKey(l)'
  BY <1>2 DEF HoldsTruth, SeesItsKey
<1> QED
  BY <1>2, <1>3, <1>4, OneLookupLooks

LEMMA ClearKeeps ==
    ASSUME CacheInv, ClearCache
    PROVE  CacheInv'
<1>1. /\ cache' = <<>> /\ cacheClock' = cacheClock /\ lookup' = Squeezed(lookup)
      /\ lookup \in [Lookups -> Lookup]
  BY DEF ClearCache, CacheInv
<1>2. Stocked'
  BY <1>1 DEF Stocked, CacheInv
<1>3. ASSUME NEW m \in Lookups
      PROVE  lookup'[m] \in Lookup /\ HoldsTruth(m)' /\ SeesItsKey(m)'
  <2>1. PICK x \in Lookup : x = lookup[m]
    BY <1>1
  <2>2. PICK y : y = [x EXCEPT !.squeezed = x.squeezed \/ x.at # "ready"]
    OBVIOUS
  <2>3. lookup'[m] = y
    BY <1>1, <2>1, <2>2 DEF Squeezed, Lookup
  <2>4. /\ y \in Lookup /\ y.key = x.key /\ y.cached = x.cached /\ y.result = x.result
        /\ y.began = x.began /\ y.at = x.at
        /\ y.at # "ready" => y.squeezed
    BY <2>1, <2>2 DEF Lookup, LookupStages
  <2>5. HoldsTruth(m)
    BY DEF CacheInv
  <2>6. HoldsTruth(m)' /\ SeesItsKey(m)'
    BY <1>1, <2>1, <2>3, <2>4, <2>5, SqueezedSee
  <2> QED
    BY <2>3, <2>4, <2>6
<1>4. lookup' \in [Lookups -> Lookup]
  BY <1>1, <1>3 DEF Squeezed
<1>5. Covered'
  BY <1>1, <1>4, SmallIsCovered, CacheAssumption
<1> QED
  BY <1>2, <1>3, <1>4, <1>5 DEF CacheInv

LEMMA TickKeeps ==
    ASSUME CacheInv, CacheTick
    PROVE  CacheInv'
<1>1. /\ cache' = cache /\ lookup' = lookup /\ cacheClock' = cacheClock + 1
      /\ lookup \in [Lookups -> Lookup] /\ cacheClock \in Nat
  BY DEF CacheTick, CacheInv, Stocked
<1>2. Stocked' /\ \A j : Has(j)' <=> Has(j)
  <2>1. \A n \in DOMAIN cache : cache[n].at \in Nat
    <3>1. \A n \in DOMAIN cache : cache[n] \in Entry
      BY DEF CacheInv, Stocked
    <3> QED
      BY <3>1 DEF Entry
  <2> QED
    BY <1>1, <2>1 DEF CacheInv, Stocked, Has
<1>3. ASSUME NEW m \in Lookups  PROVE HoldsTruth(m)' /\ SeesItsKey(m)'
  <2>1. lookup[m].began \in Nat /\ HoldsTruth(m) /\ SeesItsKey(m)
    BY DEF Lookup, CacheInv
  <2> QED
    BY <1>1, <1>2, <2>1 DEF HoldsTruth, SeesItsKey
<1>4. Covered'
  BY <1>1, <1>2, CoverStays DEF CacheInv, Owed, Cutting, At
<1> QED
  BY <1>1, <1>2, <1>3, <1>4 DEF CacheInv

-------------------------------------------------------------------------------

LEMMA CacheInvInit == CacheInit => CacheInv
<1> SUFFICES ASSUME CacheInit  PROVE CacheInv
  OBVIOUS
<1>1. lookup \in [Lookups -> Lookup] /\ \A l \in Lookups : lookup[l].at = "ready"
  BY DEF CacheInit, Idle, Lookup, LookupStages
<1>2. Stocked
  BY DEF CacheInit, Stocked
<1>3. \A l \in Lookups : HoldsTruth(l) /\ SeesItsKey(l)
  BY <1>1 DEF HoldsTruth, SeesItsKey
<1>4. Covered
  <2>1. PICK a, b : a = Cardinality(Owed) /\ b = Cardinality(Cutting)
    OBVIOUS
  <2>2. a \in Nat /\ b \in Nat /\ Len(cache) = 0
    BY <1>1, <2>1, OwedNow DEF CacheInit
  <2> QED
    BY <2>1, <2>2, CacheAssumption DEF Covered
<1> QED
  BY <1>1, <1>2, <1>3, <1>4 DEF CacheInv

LEMMA CacheInvStep == CacheInv /\ [CacheNext]_cacheVars => CacheInv'
<1> SUFFICES ASSUME CacheInv, [CacheNext]_cacheVars  PROVE CacheInv'
  OBVIOUS
<1>1. CASE ClearCache
  BY <1>1, ClearKeeps
<1>2. CASE CacheTick
  BY <1>2, TickKeeps
<1>3. ASSUME NEW l \in Lookups, GetTokenSecurity(l)  PROVE CacheInv'
  <2>1. CASE \E k \in CacheKeys : Read(l, k)
    BY <2>1, ReadKeeps
  <2>2. CASE CheckAge(l)
    BY <2>2, CheckAgeKeeps
  <2>3. CASE Hit(l)
    BY <2>3, HitKeeps
  <2>4. CASE Fetch(l)
    BY <2>4, FetchKeeps
  <2>5. CASE Store(l)
    BY <2>5, StoreKeeps
  <2>6. CASE Touch(l)
    BY <2>6, TouchKeeps
  <2>7. CASE CheckSize(l)
    BY <2>7, CheckSizeKeeps
  <2>8. CASE Pop(l)
    BY <2>8, PopKeeps
  <2>9. CASE RaiseKeyError(l)
    BY <2>9, RaiseKeeps
  <2>10. CASE Return(l)
    BY <2>10, ReturnKeeps
  <2> QED
    BY <1>3, <2>1, <2>2, <2>3, <2>4, <2>5, <2>6, <2>7, <2>8, <2>9, <2>10
       DEF GetTokenSecurity
<1>4. CASE UNCHANGED cacheVars
  <2>1. cache' = cache /\ cacheClock' = cacheClock /\ lookup' = lookup
    BY <1>4 DEF cacheVars
  <2>2. /\ Stocked' /\ lookup' \in [Lookups -> Lookup]
        /\ \A l \in Lookups : HoldsTruth(l)' /\ SeesItsKey(l)'
    BY <2>1 DEF CacheInv, Stocked, HoldsTruth, SeesItsKey, Has
  <2>3. Covered'
    BY <2>1 DEF CacheInv, Covered, Owed, Cutting, Has, At
  <2> QED
    BY <2>2, <2>3 DEF CacheInv
<1> QED
  BY <1>1, <1>2, <1>3, <1>4 DEF CacheNext

\* What the invariant says of the cache: the four properties the run checks.
LEMMA CacheInvImplies ==
    CacheInv => CacheTypeOK /\ AnswersAreFresh /\ CacheBounded /\ RaisesOnlyUnderPressure
<1> SUFFICES ASSUME CacheInv
             PROVE  CacheTypeOK /\ AnswersAreFresh /\ CacheBounded /\ RaisesOnlyUnderPressure
  OBVIOUS
<1>1. CacheTypeOK
  BY DEF CacheInv, Stocked, CacheTypeOK
<1>2. AnswersAreFresh
  BY DEF CacheInv, HoldsTruth, AnswersAreFresh, At
<1>3. RaisesOnlyUnderPressure
  BY DEF CacheInv, SeesItsKey, RaisesOnlyUnderPressure, At
<1>4. CacheBounded
  <2>1. PICK A, S, C, U : /\ A = Owed /\ S = {l \in Lookups : lookup[l].at = "stored"}
                          /\ C = Cutting
                          /\ U = {l \in Lookups : lookup[l].at \in {"stored", "size", "pop"}}
    OBVIOUS
  <2>2. /\ Cardinality(A) \in Nat /\ Cardinality(A) <= Cardinality(S)
    <3>1. PICK c, f : c = cache /\ f = lookup
      OBVIOUS
    <3>2. A = OwedIn(c, f) /\ S = {l \in Lookups : f[l].at = "stored"}
      BY <2>1, <3>1 DEF Owed, OwedIn, Has, At
    <3>3. f \in [Lookups -> Lookup]
      BY <3>1 DEF CacheInv
    <3> QED
      BY <3>2, <3>3, OwedIsFinite
  <2>3. S \in SUBSET Lookups /\ C \in SUBSET Lookups
    BY <2>1 DEF Cutting
  <2>4. IsFiniteSet(S) /\ IsFiniteSet(C)
    BY <2>3, FS_Subset, CacheAssumption
  <2>5. U = S \cup C /\ S \cap C = {}
    BY <2>1 DEF Cutting
  <2>6. /\ Cardinality(U) = Cardinality(S) + Cardinality(C)
        /\ Cardinality(S) \in Nat /\ Cardinality(C) \in Nat
    <3>1. Cardinality(S \cup C) = Cardinality(S) + Cardinality(C) - Cardinality(S \cap C)
      BY <2>4, FS_Union
    <3>2. Cardinality(S \cap C) = 0
      BY <2>5, FS_EmptySet
    <3>3. Cardinality(S) \in Nat /\ Cardinality(C) \in Nat
      BY <2>4, FS_CardinalityType
    <3> QED
      BY <2>5, <3>1, <3>2, <3>3
  <2>7. Len(cache) \in Nat /\ MaxCacheEntries \in Nat
    BY CacheAssumption DEF CacheInv, Stocked
  <2>8. Len(cache) <= MaxCacheEntries + Cardinality(A) + Cardinality(C)
    BY <2>1 DEF CacheInv, Covered
  <2>9. Len(cache) <= MaxCacheEntries + Cardinality(U)
    BY <2>2, <2>6, <2>7, <2>8
  <2> QED
    BY <2>1, <2>9 DEF CacheBounded
<1> QED
  BY <1>1, <1>2, <1>3, <1>4

\* However the threads interleave and whatever they clear, time out or raise:
\* a lookup returns an answer about its own address, current less than the
\* time to live before it began (goplus_client.py:82-85, 113-114).
THEOREM AnswersStayFresh == CacheSpec => []AnswersAreFresh
  BY CacheInvInit, CacheInvStep, CacheInvImplies, PTL DEF CacheSpec

\* What the cache holds over its limit never exceeds the lookups that are on
\* their way to cut it back, also when some of them raise
\* (goplus_client.py:34-42, 118-121).
THEOREM CacheStaysBounded == CacheSpec => []CacheBounded
  BY CacheInvInit, CacheInvStep, CacheInvImplies, PTL DEF CacheSpec

\* A lookup raises only if entries were pushed out or cleared while it ran
\* (goplus_client.py:106-110).
THEOREM RaisesAreExcused == CacheSpec => []RaisesOnlyUnderPressure
  BY CacheInvInit, CacheInvStep, CacheInvImplies, PTL DEF CacheSpec

-------------------------------------------------------------------------------
(* AddressLists *)


\* What can be read from a complete file is what it last held.
FileHolds ==
    listFile.status = "complete" =>
        listFile.entries = lastKept /\ listFile.entries \in published

\* Nothing has left a running list but for the file or the operator.
NothingLost == \A l \in Lists : list[l].entries \subseteq lastKept \cup delisted

\* The script, once it has emptied the file, puts back all that is not marked
\* as delisted.
WritesBack ==
    refresher.at = "writing" =>
        lastKept \subseteq refresher.existing \cup refresher.fetched \cup delisted

ListInv == ListTypeOK /\ ServedWasPublished /\ FileHolds /\ NothingLost /\ WritesBack

\* A list that (re)loads has the entries of a complete file, or what it had.
LEMMA ReloadedList ==
    ASSUME ListInv, NEW l \in [up : BOOLEAN, loaded : BOOLEAN, entries : SUBSET Addresses],
           l.entries # {} => l.loaded,
           l.loaded => l.entries \in published,
           l.entries \subseteq lastKept \cup delisted
    PROVE  /\ Reloaded(l) \in [up : BOOLEAN, loaded : BOOLEAN, entries : SUBSET Addresses]
           /\ Reloaded(l).entries # {} => Reloaded(l).loaded
           /\ Reloaded(l).loaded => Reloaded(l).entries \in published
           /\ Reloaded(l).entries \subseteq lastKept \cup delisted
           /\ Reloaded(l).loaded => l.entries \ Reloaded(l).entries \subseteq delisted
<1>1. CASE listFile.status = "complete"
  BY <1>1 DEF Reloaded, ListInv, ListTypeOK, FileHolds, File
<1>2. CASE listFile.status # "complete"
  BY <1>2 DEF Reloaded
<1> QED
  BY <1>1, <1>2

LEMMA ListInitInv == ListInit => ListInv
<1> SUFFICES ASSUME ListInit PROVE ListInv
  OBVIOUS
<1>1. Missing \in File /\ NotStarted \in [up : BOOLEAN, loaded : BOOLEAN, entries : SUBSET Addresses]
  BY DEF Missing, File, NotStarted
<1>2. ListTypeOK
  BY <1>1, ListAssumption DEF ListInit, ListTypeOK, NotRunning, NotStarted
<1> QED
  BY <1>2 DEF ListInit, ListInv, ServedWasPublished, FileHolds, NothingLost, WritesBack,
              Missing, NotRunning, NotStarted

\* Both kinds of step that load a list, from what it has or from nothing.
LEMMA LoadStep ==
    ASSUME ListInv, NEW l \in Lists, NEW from, from = list[l] \/ from = NotStarted,
           list' = [list EXCEPT ![l] = Reloaded(from)],
           UNCHANGED <<listFile, source, refresher, edits, published, lastKept, delisted>>
    PROVE  /\ ListInv'
           /\ Reloaded(from).loaded => list[l].entries \ Reloaded(from).entries \subseteq delisted
<1> DEFINE AList == [up : BOOLEAN, loaded : BOOLEAN, entries : SUBSET Addresses]
<1>1. list \in [Lists -> AList]
  BY DEF ListInv, ListTypeOK
<1>2. /\ from \in AList /\ (from.entries # {} => from.loaded)
      /\ from.loaded => from.entries \in published
      /\ from.entries \subseteq lastKept \cup delisted
  <2>1. CASE from = list[l]
    BY <1>1, <2>1 DEF ListInv, ListTypeOK, ServedWasPublished, NothingLost
  <2>2. CASE from = NotStarted
    BY <2>2 DEF NotStarted
  <2> QED
    BY <2>1, <2>2
<1>3. /\ Reloaded(from) \in AList /\ (Reloaded(from).entries # {} => Reloaded(from).loaded)
      /\ Reloaded(from).loaded => Reloaded(from).entries \in published
      /\ Reloaded(from).entries \subseteq lastKept \cup delisted
      /\ Reloaded(from).loaded => from.entries \ Reloaded(from).entries \subseteq delisted
  BY <1>2, ReloadedList
<1>4. \A k \in Lists : list'[k] = IF k = l THEN Reloaded(from) ELSE list[k]
  BY <1>1
<1>5. ListTypeOK'
  <2>1. list' \in [Lists -> AList]
    BY <1>1, <1>3
  <2>2. \A k \in Lists : list'[k].entries # {} => list'[k].loaded
    BY <1>3, <1>4 DEF ListInv, ListTypeOK
  <2> QED
    BY <2>1, <2>2 DEF ListInv, ListTypeOK
<1>6. ServedWasPublished' /\ NothingLost'
  BY <1>3, <1>4 DEF ListInv, ServedWasPublished, NothingLost
<1>7. FileHolds' /\ WritesBack'
  BY DEF ListInv, FileHolds, WritesBack
<1>8. Reloaded(from).loaded => list[l].entries \ Reloaded(from).entries \subseteq delisted
  <2>1. CASE from = list[l]
    BY <1>3, <2>1
  <2>2. CASE from = NotStarted
    <3>1. Reloaded(from).loaded => Reloaded(from).entries = lastKept
      BY <2>2 DEF Reloaded, NotStarted, ListInv, FileHolds
    <3> QED
      BY <3>1 DEF ListInv, NothingLost
  <2> QED
    BY <2>1, <2>2
<1> QED
  BY <1>5, <1>6, <1>7, <1>8 DEF ListInv

LEMMA ListNextInv == ListInv /\ [ListNext]_listVars => ListInv'
<1> SUFFICES ASSUME ListInv, [ListNext]_listVars
             PROVE  ListInv'
  OBVIOUS
<1>1. ASSUME NEW l \in Lists, StartList(l) PROVE ListInv'
  BY <1>1, LoadStep DEF StartList
<1>2. ASSUME NEW l \in Lists, Reload(l) PROVE ListInv'
  <2>1. list' = [list EXCEPT ![l] = Reloaded(list[l])]
    BY <1>2 DEF Reload
  <2> QED
    BY <1>2, <2>1, LoadStep DEF Reload
<1> USE DEF ListInv, ListTypeOK, ServedWasPublished, FileHolds, NothingLost, WritesBack
<1>3. ASSUME NEW file \in {Missing, Torn} \cup {Complete(e) : e \in SUBSET Addresses},
             OperatorEdits(file)
      PROVE  ListInv'
  <2>1. file \in File
    BY DEF File, Missing, Torn, Complete
  <2>2. edits' \in 0 .. MaxEdits
    BY <1>3, ListAssumption DEF OperatorEdits
  <2>3. CASE file.status = "complete"
    BY <1>3, <2>1, <2>2, <2>3 DEF OperatorEdits, Holds, File
  <2>4. CASE file.status # "complete"
    BY <1>3, <2>1, <2>2, <2>4 DEF OperatorEdits
  <2> QED
    BY <2>3, <2>4
<1>4. ASSUME NEW addresses \in SUBSET Addresses, Publish(addresses) PROVE ListInv'
  BY <1>4 DEF Publish
<1>5. CASE FetchSource
  BY <1>5 DEF FetchSource, NotRunning
<1>6. CASE ReadExisting
  BY <1>6 DEF ReadExisting, NotRunning, File
<1>7. CASE Truncate
  BY <1>7 DEF Truncate, Torn, File
<1>8. CASE Write
  <2>1. Merged \subseteq Addresses /\ lastKept \subseteq Merged \cup delisted
    BY <1>8 DEF Write, Merged
  <2>2. listFile' = [status |-> "complete", entries |-> Merged] /\ listFile' \in File
    BY <1>8, <2>1 DEF Write, Complete, File
  <2>3. /\ published' = published \cup {Merged} /\ lastKept' = Merged
        /\ delisted' = delisted \ Merged
    BY <1>8 DEF Write, Holds
  <2>4. refresher' = NotRunning /\ UNCHANGED <<source, list, edits>>
    BY <1>8 DEF Write
  <2>5. ListTypeOK'
    BY <2>1, <2>2, <2>3, <2>4 DEF NotRunning
  <2>6. ServedWasPublished' /\ FileHolds' /\ NothingLost' /\ WritesBack'
    BY <2>1, <2>2, <2>3, <2>4 DEF NotRunning
  <2> QED
    BY <2>5, <2>6
<1>9. CASE RefresherEnds
  BY <1>9 DEF RefresherEnds, NotRunning
<1>10. CASE UNCHANGED listVars
  BY <1>10 DEF listVars
<1> QED
  BY <1>1, <1>2, <1>3, <1>4, <1>5, <1>6, <1>7, <1>8, <1>9, <1>10 DEF ListNext

\* A list always enforces, in full, a version the file has held, whatever
\* was being written or damaged when it was reloaded (blocklist.py:74-96).
THEOREM ListsServeWhatWasPublished == ListSpec => []ServedWasPublished
<1>1. ListInv => ServedWasPublished
  BY DEF ListInv
<1> QED
  BY ListInitInv, ListNextInv, <1>1, PTL DEF ListSpec

\* No reload or restart, at any point of a refresh, takes an address off a
\* running list that the operator has not removed (blocklist.py:34-44).
THEOREM NothingIsDelistedSilently == ListSpec => NoSilentDelisting
<1> DEFINE Keeps == \A l \in Lists : list[l].up /\ list'[l].loaded =>
                        list[l].entries \ list'[l].entries \subseteq delisted'
<1>1. ListInv /\ [ListNext]_listVars => [Keeps]_listVars
  <2> SUFFICES ASSUME ListInv, ListNext PROVE Keeps
    BY DEF ListInv
  <2>1. ASSUME NEW l \in Lists, StartList(l) PROVE Keeps
    <3>1. \A k \in Lists : list'[k] = IF k = l THEN Reloaded(NotStarted) ELSE list[k]
      BY <2>1 DEF StartList, ListInv, ListTypeOK
    <3>2. Reloaded(NotStarted).loaded
            => list[l].entries \ Reloaded(NotStarted).entries \subseteq delisted
      BY <2>1, LoadStep DEF StartList
    <3> QED
      BY <2>1, <3>1, <3>2 DEF StartList
  <2>2. ASSUME NEW l \in Lists, Reload(l) PROVE Keeps
    <3>1. list' = [list EXCEPT ![l] = Reloaded(list[l])]
      BY <2>2 DEF Reload
    <3>2. \A k \in Lists : list'[k] = IF k = l THEN Reloaded(list[l]) ELSE list[k]
      BY <3>1 DEF ListInv, ListTypeOK
    <3>3. Reloaded(list[l]).loaded
            => list[l].entries \ Reloaded(list[l]).entries \subseteq delisted
      BY <2>2, <3>1, LoadStep DEF Reload
    <3> QED
      BY <2>2, <3>2, <3>3 DEF Reload
  <2>3. CASE UNCHANGED list
    BY <2>3
  <2> QED
    BY <2>1, <2>2, <2>3 DEF ListNext, OperatorEdits, Publish, FetchSource, ReadExisting,
                           Truncate, Write, RefresherEnds
<1>2. ListInv /\ [ListNext]_listVars => ListInv'
  BY ListNextInv
<1> QED
  BY ListInitInv, <1>1, <1>2, PTL DEF ListSpec, NoSilentDelisting

-------------------------------------------------------------------------------
(* WalletAgeSearch *)

\* Before the search, nothing is known and no round is spent.
NothingKnown == probe \in {"profile", "head"} => rounds = 0 /\ age = NoAge

\* The upper end of the interval is a block at which the wallet was active, ...
UpperEndActive == probe \in {"search", "blocks"} => account[hi]

\* ... and what is answered is how long ago that was.
AnswerFromUpperEnd ==
    age # NoAge => probe = "done" /\ account[hi] /\ age = Days(hi)

\* A wallet that stays active was not so before the lower end.
InactiveBelow ==
    probe \in {"search", "blocks"} /\ ActiveForGood =>
        \A b \in 0 .. latest : b < lo => ~account[b]

\* The rounds that are left can tell the blocks of the interval apart, ...
EnoughRoundsLeft ==
    probe = "search" /\ latest < Reach[SearchCap] => hi - lo < Reach[SearchCap - rounds]

\* ... so that the search ends with one block.
OneBlockLeft == probe = "blocks" /\ latest < Reach[SearchCap] => lo = hi

\* What is answered was then the first active block.
FirstBlockAnswered ==
    age # NoAge /\ ActiveForGood /\ latest < Reach[SearchCap] =>
        \A b \in 0 .. latest : account[b] => hi <= b

AgeInv ==
    /\ AgeTypeOK /\ NothingKnown
    /\ UpperEndActive /\ AnswerFromUpperEnd
    /\ InactiveBelow /\ EnoughRoundsLeft /\ OneBlockLeft /\ FirstBlockAnswered

ReachesTo(f, N) == f = [n \in 0 .. N |-> IF n = 0 THEN 1 ELSE 2 * f[n - 1]]

\* The recursive definition of Reach has a solution.
LEMMA ReachExists ==
    ASSUME NEW N \in Nat
    PROVE  \E f : ReachesTo(f, N)
<1> DEFINE T == {m \in Nat : \E f : ReachesTo(f, m)}
<1>1. 0 \in T
  <2>1. PICK f : f = [n \in 0 .. 0 |-> 1]
    OBVIOUS
  <2>2. ReachesTo(f, 0)
    BY <2>1 DEF ReachesTo
  <2> QED
    BY <2>2
<1>2. ASSUME NEW m \in Nat, m \in T  PROVE m + 1 \in T
  <2>1. PICK f : ReachesTo(f, m)
    BY <1>2
  <2>2. PICK M \in Nat : M = m + 1
    OBVIOUS
  <2>3. PICK g : g = [n \in 0 .. M |-> IF n = 0 THEN 1 ELSE 2 * f[n - 1]]
    OBVIOUS
  <2>4. ASSUME NEW n \in 0 .. M, n # 0  PROVE g[n - 1] = f[n - 1]
    <3>1. n - 1 \in 0 .. m /\ n - 1 \in 0 .. M
      BY <2>2, <2>4
    <3>2. f[n - 1] = IF n - 1 = 0 THEN 1 ELSE 2 * f[n - 1 - 1]
      BY <2>1, <3>1 DEF ReachesTo
    <3> QED
      BY <2>3, <3>1, <3>2
  <2>5. ReachesTo(g, M)
    BY <2>3, <2>4 DEF ReachesTo
  <2> QED
    BY <2>2, <2>5
<1> HIDE DEF T
<1>3. \A m \in Nat : m \in T
  BY <1>1, <1>2, NatSetInduction
<1> QED
  BY <1>3 DEF T

\* A round doubles what the search can tell apart.
LEMMA ReachDoubles ==
    /\ Reach[0] = 1
    /\ \A n \in 0 .. SearchCap : Reach[n] \in Nat
    /\ \A n \in 0 .. SearchCap : n > 0 => Reach[n] = 2 * Reach[n - 1]
<1>1. SearchCap \in Nat
  BY AgeAssumption
<1>2. ReachesTo(Reach, SearchCap)
  <2>1. \E f : ReachesTo(f, SearchCap)
    BY <1>1, ReachExists
  <2>2. Reach = CHOOSE f : ReachesTo(f, SearchCap)
    BY DEF Reach, ReachesTo
  <2> HIDE DEF Reach
  <2> QED
    BY <2>1, <2>2
<1>3. \A n \in 0 .. SearchCap : Reach[n] = IF n = 0 THEN 1 ELSE 2 * Reach[n - 1]
  <2>1. PICK f : f = Reach
    OBVIOUS
  <2>2. f = [n \in 0 .. SearchCap |-> IF n = 0 THEN 1 ELSE 2 * f[n - 1]]
    BY <1>2, <2>1 DEF ReachesTo
  <2>3. \A n \in 0 .. SearchCap : f[n] = IF n = 0 THEN 1 ELSE 2 * f[n - 1]
    BY <2>2
  <2> QED
    BY <2>1, <2>3
<1> DEFINE T == {n \in Nat : n <= SearchCap => Reach[n] \in Nat}
<1>4. 0 \in T
  BY <1>1, <1>3
<1>5. ASSUME NEW n \in Nat, n \in T  PROVE n + 1 \in T
  <2>1. SUFFICES ASSUME n + 1 <= SearchCap  PROVE Reach[n + 1] \in Nat
    OBVIOUS
  <2>2. n + 1 \in 0 .. SearchCap /\ n + 1 # 0 /\ n + 1 - 1 = n
    BY <1>1, <2>1
  <2>3. Reach[n] \in Nat
    BY <1>1, <1>5, <2>1
  <2> QED
    BY <1>3, <2>2, <2>3
<1> HIDE DEF T
<1>6. \A n \in Nat : n \in T
  BY <1>4, <1>5, NatSetInduction
<1>7. \A n \in 0 .. SearchCap : Reach[n] \in Nat
  BY <1>1, <1>6 DEF T
<1> QED
  BY <1>1, <1>3, <1>7

LEMMA MidInside ==
    ASSUME NEW m \in Nat, NEW n \in Nat, m < n
    PROVE  /\ (m + n) \div 2 \in Nat
           /\ m <= (m + n) \div 2 /\ (m + n) \div 2 < n
OBVIOUS

LEMMA DaysAreNatural ==
    ASSUME AgeTypeOK
    PROVE  Days(hi) \in Nat
<1>1. Timestamp[latest] \in Nat /\ Timestamp[hi] \in Nat /\ Timestamp[hi] <= Timestamp[latest]
  BY AgeAssumption DEF AgeTypeOK, Blocks
<1>2. \A x \in Nat, d \in Nat \ {0} : x \div d \in Nat
  OBVIOUS
<1>3. Timestamp[latest] - Timestamp[hi] \in Nat
  BY <1>1
<1> QED
  BY <1>2, <1>3, AgeAssumption DEF Days

LEMMA LaterIsFewerDays ==
    ASSUME AgeTypeOK, NEW b \in 0 .. latest, hi <= b
    PROVE  Days(b) <= Days(hi)
<1>1. PICK x \in Nat, y \in Nat :
        x = Timestamp[latest] - Timestamp[b] /\ y = Timestamp[latest] - Timestamp[hi]
  <2>1. b \in 0 .. MaxBlock /\ hi \in 0 .. MaxBlock /\ latest \in 0 .. MaxBlock
    BY AgeAssumption DEF AgeTypeOK, Blocks
  <2> QED
    BY <2>1, AgeAssumption DEF AgeTypeOK
<1>2. x <= y
  <2>1. b \in 0 .. MaxBlock /\ hi \in 0 .. MaxBlock /\ latest \in 0 .. MaxBlock
    BY AgeAssumption DEF AgeTypeOK, Blocks
  <2>2. Timestamp[hi] <= Timestamp[b] /\ Timestamp[b] \in Nat /\ Timestamp[hi] \in Nat
        /\ Timestamp[latest] \in Nat
    BY <2>1, AgeAssumption
  <2> QED
    BY <1>1, <2>2
<1>3. \A d \in Nat \ {0} : x \div d <= y \div d
  BY <1>2
<1> QED
  BY <1>1, <1>3, AgeAssumption DEF Days

LEMMA AgeInitInv == AgeInit => AgeInv
  BY AgeAssumption DEF AgeInit, AgeInv, AgeTypeOK, UpperEndActive, AnswerFromUpperEnd, Blocks,
     NothingKnown, InactiveBelow, EnoughRoundsLeft, OneBlockLeft, FirstBlockAnswered

\* Steps that leave what is known of the interval alone.
LEMMA RoundKeepsTypes ==
    ASSUME AgeTypeOK, ProbeMid
    PROVE  AgeTypeOK' /\ Mid \in 0 .. latest /\ lo <= Mid /\ Mid < hi
<1> USE AgeAssumption DEF AgeTypeOK, Blocks
<1>1. /\ Mid \in Nat /\ lo <= Mid /\ Mid < hi
  BY MidInside DEF ProbeMid, Mid
<1>2. Mid \in Blocks /\ Mid <= latest
  BY <1>1
<1>3. CASE account[Mid]
  BY <1>1, <1>2, <1>3 DEF ProbeMid
<1>4. CASE ~account[Mid]
  BY <1>1, <1>2, <1>4 DEF ProbeMid
<1> QED
  BY <1>1, <1>2, <1>3, <1>4

\* A round halves the interval.
LEMMA RoundHalves ==
    ASSUME NEW m \in Nat, NEW n \in Nat, m < n, NEW r \in Nat, n - m < 2 * r
    PROVE  /\ (m + n) \div 2 - m < r
           /\ n - ((m + n) \div 2 + 1) < r
OBVIOUS

LEMMA AgeNextInv == AgeInv /\ [AgeNext]_ageVars => AgeInv'
<1> SUFFICES ASSUME AgeInv, [AgeNext]_ageVars
             PROVE  AgeInv'
  OBVIOUS
<1> USE AgeAssumption DEF AgeInv
<1>1. ASSUME UNCHANGED account, UNCHANGED latest  PROVE ActiveForGood' <=> ActiveForGood
  BY <1>1 DEF ActiveForGood
<1>2. ASSUME UNCHANGED <<account, latest, lo, hi, rounds, age>>, probe' = "done" \/ probe' = probe
      PROVE  AgeInv'
  <2>1. UNCHANGED <<account, latest, lo, hi, rounds, age>> /\ (ActiveForGood' <=> ActiveForGood)
    BY <1>1, <1>2
  <2>2. probe' \in {"profile", "head", "search", "blocks", "done"}
    BY <1>2 DEF AgeTypeOK
  <2>3. AgeTypeOK'
    BY <2>1, <2>2 DEF AgeTypeOK
  <2>4. NothingKnown' /\ UpperEndActive' /\ AnswerFromUpperEnd'
    BY <1>2, <2>1 DEF NothingKnown, UpperEndActive, AnswerFromUpperEnd, Days
  <2>5. InactiveBelow' /\ EnoughRoundsLeft' /\ OneBlockLeft' /\ FirstBlockAnswered'
    BY <1>2, <2>1 DEF InactiveBelow, EnoughRoundsLeft, OneBlockLeft, FirstBlockAnswered
  <2> QED
    BY <2>3, <2>4, <2>5
<1>3. CASE Profile
  <2>1. /\ UNCHANGED <<account, latest, lo, hi, rounds, age>> /\ probe = "profile"
        /\ probe' \in {"head", "done"} /\ (ActiveForGood' <=> ActiveForGood)
    BY <1>1, <1>3 DEF Profile
  <2> QED
    BY <2>1 DEF AgeTypeOK, NothingKnown, UpperEndActive, AnswerFromUpperEnd, Days,
                InactiveBelow, EnoughRoundsLeft, OneBlockLeft, FirstBlockAnswered
<1>4. CASE CheckHead
  <2>1. /\ UNCHANGED <<account, latest, rounds, age>> /\ lo' = 0 /\ hi' = latest
        /\ probe = "head" /\ probe' = IF account[latest] THEN "search" ELSE "done"
        /\ ActiveForGood' <=> ActiveForGood
    BY <1>1, <1>4 DEF CheckHead
  <2>2. rounds = 0 /\ age = NoAge
    BY <2>1 DEF NothingKnown
  <2>3. AgeTypeOK' /\ NothingKnown' /\ UpperEndActive' /\ AnswerFromUpperEnd'
    BY <2>1, <2>2 DEF AgeTypeOK, NothingKnown, UpperEndActive, AnswerFromUpperEnd, Blocks
  <2>4. InactiveBelow'
    BY <2>1 DEF InactiveBelow
  <2>5. EnoughRoundsLeft'
    <3>1. SearchCap - rounds' = SearchCap /\ hi' - lo' = latest /\ latest' = latest
      BY <2>1, <2>2 DEF AgeTypeOK, Blocks
    <3> QED
      BY <3>1 DEF EnoughRoundsLeft
  <2>6. OneBlockLeft' /\ FirstBlockAnswered'
    BY <2>1, <2>2 DEF OneBlockLeft, FirstBlockAnswered
  <2> QED
    BY <2>3, <2>4, <2>5, <2>6
<1>5. CASE ProbeMid
  <2>1. AgeTypeOK' /\ Mid \in 0 .. latest /\ lo <= Mid /\ Mid < hi
    BY <1>5, RoundKeepsTypes
  <2>2. /\ UNCHANGED <<account, latest, probe, age>> /\ probe = "search"
        /\ rounds' = rounds + 1 /\ rounds < SearchCap /\ lo < hi
        /\ ActiveForGood' <=> ActiveForGood
    BY <1>1, <1>5 DEF ProbeMid
  <2>3. NothingKnown' /\ UpperEndActive' /\ AnswerFromUpperEnd' /\ age = NoAge
    BY <1>5 DEF ProbeMid, NothingKnown, UpperEndActive, AnswerFromUpperEnd
  <2>4. InactiveBelow'
    <3>1. CASE account[Mid]
      BY <1>5, <2>2, <3>1 DEF ProbeMid, InactiveBelow
    <3>2. CASE ~account[Mid]
      <4>1. lo' = Mid + 1
        BY <1>5, <3>2 DEF ProbeMid
      <4>2. SUFFICES ASSUME ActiveForGood, NEW b \in 0 .. latest, b < Mid + 1
                     PROVE  ~account[b]
        BY <2>2, <4>1 DEF InactiveBelow
      <4>3. b <= Mid
        BY <2>1, <4>2 DEF AgeTypeOK, Blocks
      <4> QED
        BY <2>1, <3>2, <4>2, <4>3 DEF ActiveForGood
    <3> QED
      BY <3>1, <3>2
  <2>5. EnoughRoundsLeft'
    <3>1. SUFFICES ASSUME latest < Reach[SearchCap]
                   PROVE  hi' - lo' < Reach[SearchCap - rounds']
      BY <2>2 DEF EnoughRoundsLeft
    <3>2. PICK left \in 1 .. SearchCap : left = SearchCap - rounds /\ left - 1 = SearchCap - rounds'
      BY <2>2 DEF AgeTypeOK
    <3>3. PICK r \in Nat : r = Reach[left - 1] /\ Reach[left] = 2 * r
      BY <3>2, ReachDoubles
    <3>4. hi - lo < 2 * r /\ lo \in Nat /\ hi \in Nat
      BY <2>2, <3>1, <3>2, <3>3 DEF EnoughRoundsLeft, AgeTypeOK, Blocks
    <3>5. Mid - lo < r /\ hi - (Mid + 1) < r
      BY <2>2, <3>4, RoundHalves DEF Mid
    <3>6. (hi' = Mid /\ lo' = lo) \/ (lo' = Mid + 1 /\ hi' = hi)
      BY <1>5 DEF ProbeMid
    <3> QED
      BY <3>2, <3>3, <3>5, <3>6
  <2>6. OneBlockLeft' /\ FirstBlockAnswered'
    BY <2>2, <2>3 DEF OneBlockLeft, FirstBlockAnswered
  <2> QED
    BY <2>1, <2>3, <2>4, <2>5, <2>6
<1>6. CASE EndSearch
  <2>1. /\ UNCHANGED <<account, latest, lo, hi, rounds, age>> /\ probe = "search"
        /\ rounds = SearchCap \/ lo >= hi
        /\ probe' = "blocks" /\ (ActiveForGood' <=> ActiveForGood)
    BY <1>1, <1>6 DEF EndSearch
  <2>2. AgeTypeOK' /\ NothingKnown' /\ UpperEndActive' /\ AnswerFromUpperEnd'
    BY <2>1 DEF AgeTypeOK, NothingKnown, UpperEndActive, AnswerFromUpperEnd, Days
  <2>3. InactiveBelow' /\ EnoughRoundsLeft' /\ FirstBlockAnswered'
    BY <2>1 DEF InactiveBelow, EnoughRoundsLeft, FirstBlockAnswered
  <2>4. OneBlockLeft'
    <3>1. SUFFICES ASSUME latest < Reach[SearchCap]  PROVE lo = hi
      BY <2>1 DEF OneBlockLeft
    <3>2. lo \in Nat /\ hi \in Nat /\ lo <= hi
      BY DEF AgeTypeOK, Blocks
    <3>3. CASE rounds = SearchCap
      <4>1. SearchCap - rounds = 0
        BY <3>3
      <4>2. hi - lo < 1
        BY <2>1, <3>1, <4>1, ReachDoubles DEF EnoughRoundsLeft
      <4> QED
        BY <3>2, <4>2
    <3> QED
      BY <2>1, <3>2, <3>3
  <2> QED
    BY <2>2, <2>3, <2>4
<1>7. CASE ReadBlocks
  <2>1. /\ UNCHANGED <<account, latest, lo, hi, rounds>> /\ probe = "blocks"
        /\ probe' = "done" /\ age' = Days(hi) /\ (ActiveForGood' <=> ActiveForGood)
    BY <1>1, <1>7 DEF ReadBlocks
  <2>2. Days(hi) \in Nat
    BY DaysAreNatural
  <2>3. Days(hi)' = Days(hi)
    BY <2>1 DEF Days
  <2>4. AgeTypeOK' /\ NothingKnown' /\ UpperEndActive'
    BY <2>1, <2>2 DEF AgeTypeOK, NothingKnown, UpperEndActive
  <2>5. AnswerFromUpperEnd'
    BY <2>1, <2>3 DEF UpperEndActive, AnswerFromUpperEnd
  <2>6. InactiveBelow' /\ EnoughRoundsLeft' /\ OneBlockLeft'
    BY <2>1 DEF InactiveBelow, EnoughRoundsLeft, OneBlockLeft
  <2>7. FirstBlockAnswered'
    <3>1. SUFFICES ASSUME ActiveForGood, latest < Reach[SearchCap],
                          NEW b \in 0 .. latest, account[b]
                   PROVE  hi <= b
      BY <2>1 DEF FirstBlockAnswered
    <3>2. ~(b < lo) /\ lo = hi
      BY <2>1, <3>1 DEF InactiveBelow, OneBlockLeft
    <3> QED
      BY <3>1, <3>2 DEF AgeTypeOK, Blocks
  <2> QED
    BY <2>4, <2>5, <2>6, <2>7
<1>8. CASE NodeFails
  BY <1>2, <1>8 DEF NodeFails
<1>9. CASE UNCHANGED ageVars
  BY <1>2, <1>9 DEF ageVars
<1> QED
  BY <1>3, <1>4, <1>5, <1>6, <1>7, <1>8, <1>9 DEF AgeNext

\* The search stays inside the chain: the interval is never turned around,
\* and an age is a number of days or unknown (wallet/providers.py:161-175).
THEOREM SearchTypeCorrect == AgeSpec => []AgeTypeOK
<1>1. AgeInv => AgeTypeOK
  BY DEF AgeInv
<1> QED
  BY AgeInitInv, AgeNextInv, <1>1, PTL DEF AgeSpec

\* However activity comes and goes, wherever the capped search stops and
\* whichever call fails: a wallet is never said to be older than it is
\* (wallet/providers.py:77-84).
THEOREM WalletsAreNotAged == AgeSpec => []AgeNeverOverstated
<1>1. AgeInv => AgeNeverOverstated
  <2> SUFFICES ASSUME AgeInv, probe = "done", age # NoAge
               PROVE  \E b \in 0 .. latest : account[b] /\ age <= Days(b)
    BY DEF AgeNeverOverstated
  <2>1. hi \in 0 .. latest /\ account[hi] /\ age = Days(hi) /\ age \in Nat
    BY DEF AgeInv, AgeTypeOK, AnswerFromUpperEnd, Blocks
  <2> QED
    BY <2>1
<1> QED
  BY AgeInitInv, AgeNextInv, <1>1, PTL DEF AgeSpec

\* An age is exact, to the day, on every chain the rounds can cover, for a
\* wallet that stays active (wallet/providers.py:161-175).
THEOREM AgesAreExact == AgeSpec => []AgeIsExact
<1>1. AgeInv => AgeIsExact
  <2> SUFFICES ASSUME AgeInv, age # NoAge, ActiveForGood, latest < Reach[SearchCap],
                      NEW b \in 0 .. latest, account[b]
               PROVE  Days(b) <= age
    BY DEF AgeIsExact
  <2>1. hi <= b /\ age = Days(hi) /\ AgeTypeOK
    BY DEF AgeInv, FirstBlockAnswered, AnswerFromUpperEnd
  <2> QED
    BY <2>1, LaterIsFewerDays
<1> QED
  BY AgeInitInv, AgeNextInv, <1>1, PTL DEF AgeSpec

-------------------------------------------------------------------------------
(* OaaAttestation *)


\* A grant that has not been touched since a decision is still the one the
\* decision was made under.
UntouchedGrants ==
    \A i \in DOMAIN decision :
        ~decision[i].regranted => decision[i].under = granted[decision[i].agent]

SaysWhatWasDecided(t) ==
    /\ t.oaa_action \in DOMAIN decision
    /\ LET d == decision[t.oaa_action]
       IN  /\ d.agent = t.sub /\ d.outcome = t.oaa_decision
           /\ d.regranted \/ d.under = t.oaa_policy_ref

\* Every token, accepted or not.
TokensTrue ==
    /\ \A t \in tokens : SaysWhatWasDecided(t) /\ t.exp = t.iat + TokenTTL
    /\ \A v \in accepted : v.token \in tokens

OaaInv ==
    OaaTypeOK /\ UntouchedGrants /\ TokensTrue /\ AcceptedInTime

LEMMA OaaInitInv == OaaInit => OaaInv
  BY OaaAssumption DEF OaaInit, OaaInv, OaaTypeOK, UntouchedGrants, TokensTrue,
     AcceptedInTime, Capabilities

\* Changing or making decisions refutes no token that was handed out.
LEMMA OaaNextInv == OaaInv /\ [OaaNext]_oaaVars => OaaInv'
<1> SUFFICES ASSUME OaaInv, [OaaNext]_oaaVars
             PROVE  OaaInv'
  OBVIOUS
<1> USE DEF OaaInv
<1>1. ASSUME NEW a \in Subjects, NEW g \in Capabilities, Regrant(a, g)
      PROVE  OaaInv'
  <2>1. /\ DOMAIN decision' = DOMAIN decision
        /\ \A i \in DOMAIN decision :
              /\ decision'[i] \in OaaDecision
              /\ decision'[i].agent = decision[i].agent
              /\ decision'[i].outcome = decision[i].outcome
              /\ decision'[i].under = decision[i].under
              /\ decision'[i].regranted = (decision[i].regranted \/ decision[i].agent = a)
    BY <1>1 DEF Regrant, OaaTypeOK, OaaDecision
  <2>2. /\ granted' \in [Subjects -> Capabilities]
        /\ \A b \in Subjects \ {a} : granted'[b] = granted[b]
        /\ UNCHANGED <<oaaClock, tokens, accepted>>
    BY <1>1 DEF Regrant, OaaTypeOK
  <2>3. OaaTypeOK'
    BY <2>1, <2>2 DEF OaaTypeOK
  <2>4. UntouchedGrants'
    BY <2>1, <2>2 DEF UntouchedGrants, OaaTypeOK, OaaDecision
  <2>5. TokensTrue' /\ AcceptedInTime'
    BY <2>1, <2>2 DEF TokensTrue, SaysWhatWasDecided, AcceptedInTime
  <2> QED
    BY <2>3, <2>4, <2>5
<1>2. ASSUME NEW i \in Decided, NEW a \in Subjects, NEW outcome \in Outcomes,
             Decide(i, a, outcome)
      PROVE  OaaInv'
  <2>1. /\ DOMAIN decision' = DOMAIN decision \cup {i}
        /\ decision'[i] = [agent |-> a, outcome |-> outcome, under |-> granted[a],
                           regranted |-> FALSE]
        /\ \A j \in DOMAIN decision : decision'[j] = decision[j]
        /\ UNCHANGED <<oaaClock, granted, tokens, accepted>>
    BY <1>2 DEF Decide
  <2>2. decision'[i] \in OaaDecision
    BY <2>1 DEF OaaTypeOK, OaaDecision
  <2>3. OaaTypeOK'
    BY <2>1, <2>2 DEF OaaTypeOK
  <2>4. UntouchedGrants'
    BY <2>1 DEF UntouchedGrants
  <2>5. TokensTrue' /\ AcceptedInTime'
    BY <2>1 DEF TokensTrue, SaysWhatWasDecided, AcceptedInTime
  <2> QED
    BY <2>3, <2>4, <2>5
<1>3. ASSUME NEW i \in Decided, DecisionToOaaToken(i) PROVE OaaInv'
  <2> DEFINE t == [sub |-> decision[i].agent, iat |-> oaaClock, exp |-> oaaClock + TokenTTL,
                   oaa_decision |-> decision[i].outcome, oaa_action |-> i,
                   oaa_policy_ref |-> Fingerprint(decision[i].agent)]
  <2>1. /\ i \in DOMAIN decision /\ tokens' = tokens \cup {t}
        /\ UNCHANGED <<oaaClock, granted, decision, accepted>>
    BY <1>3 DEF DecisionToOaaToken
  <2>2. t \in Token
    BY <2>1, OaaAssumption DEF OaaTypeOK, OaaDecision, Token, Fingerprint
  <2>3. SaysWhatWasDecided(t) /\ t.exp = t.iat + TokenTTL
    BY <2>1 DEF SaysWhatWasDecided, UntouchedGrants, Fingerprint, OaaTypeOK, OaaDecision
  <2> HIDE DEF t
  <2>4. OaaTypeOK' /\ UntouchedGrants' /\ AcceptedInTime'
    BY <2>1, <2>2 DEF OaaTypeOK, UntouchedGrants, AcceptedInTime
  <2>5. TokensTrue'
    BY <2>1, <2>3 DEF TokensTrue, SaysWhatWasDecided
  <2> QED
    BY <2>4, <2>5
<1>4. ASSUME NEW t \in tokens, NEW skew \in -MaxSkew .. MaxSkew, Verify(t, oaaClock + skew)
      PROVE  OaaInv'
  <2>1. /\ accepted' = {[token |-> t, at |-> oaaClock]}
        /\ oaaClock + skew < t.exp
        /\ UNCHANGED <<oaaClock, granted, decision, tokens>>
    BY <1>4 DEF Verify
  <2>2. t \in Token /\ oaaClock \in Nat /\ t.exp = t.iat + TokenTTL
    BY DEF OaaTypeOK, TokensTrue
  <2>3. oaaClock - t.iat < TokenTTL + MaxSkew
    BY <2>1, <2>2, OaaAssumption DEF Token
  <2>4. OaaTypeOK' /\ UntouchedGrants' /\ TokensTrue'
    BY <2>1, <2>2 DEF OaaTypeOK, UntouchedGrants, TokensTrue, SaysWhatWasDecided
  <2>5. AcceptedInTime'
    BY <2>1, <2>3 DEF AcceptedInTime
  <2> QED
    BY <2>4, <2>5
<1>5. CASE OaaTick
  BY <1>5 DEF OaaTick, OaaTypeOK, UntouchedGrants, TokensTrue, SaysWhatWasDecided,
     AcceptedInTime
<1>6. CASE UNCHANGED oaaVars
  BY <1>6 DEF oaaVars, OaaTypeOK, UntouchedGrants, TokensTrue, SaysWhatWasDecided,
     AcceptedInTime
<1> QED
  BY <1>1, <1>2, <1>3, <1>4, <1>5, <1>6 DEF OaaNext

\* However grants change between deciding, issuing and verifying: an accepted
\* token names its decision, and the policy of it, unless the agent's grant
\* has changed since the decision (attestation.py:51-77).
THEOREM TokensSayWhatWasDecided == OaaSpec => []AttestedAsDecided
<1>1. OaaInv => AttestedAsDecided
  BY DEF OaaInv, TokensTrue, SaysWhatWasDecided, AttestedAsDecided
<1> QED
  BY OaaInitInv, OaaNextInv, <1>1, PTL DEF OaaSpec

\* No token is accepted longer than its lifetime and the verifier's skew after
\* it was issued (oaa.py:38-58, 73-89).
THEOREM TokensExpire == OaaSpec => []AcceptedInTime
<1>1. OaaInv => AcceptedInTime
  BY DEF OaaInv
<1> QED
  BY OaaInitInv, OaaNextInv, <1>1, PTL DEF OaaSpec

-------------------------------------------------------------------------------
(* The four components together *)

\* The types of all four components, whichever of them moves.
THEOREM ComponentsTypeCorrect == Spec => []TypeOK
<1> DEFINE Inv == CacheInv /\ ListInv /\ AgeInv /\ OaaInv
<1>1. Init => Inv
  BY CacheInvInit, ListInitInv, AgeInitInv, OaaInitInv DEF Init
<1>2. Inv /\ [Next]_<<component, cacheVars, listVars, ageVars, oaaVars>> => Inv'
  <2>1. Inv /\ [Next]_<<component, cacheVars, listVars, ageVars, oaaVars>>
          => /\ CacheInv /\ [CacheNext]_cacheVars
             /\ ListInv /\ [ListNext]_listVars
             /\ AgeInv /\ [AgeNext]_ageVars
             /\ OaaInv /\ [OaaNext]_oaaVars
    BY DEF Next
  <2> QED
    BY <2>1, CacheInvStep, ListNextInv, AgeNextInv, OaaNextInv
<1>3. Inv => TypeOK
  BY CacheInvImplies DEF TypeOK, ListInv, AgeInv, OaaInv
<1> QED
  BY <1>1, <1>2, <1>3, PTL DEF Spec
===============================================================================
