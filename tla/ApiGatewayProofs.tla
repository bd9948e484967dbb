--------------------------- MODULE ApiGatewayProofs ---------------------------
(***************************************************************************)
(* Proofs of the invariants of ApiGateway, for every set of requests, every*)
(* limit and window, and every bound of the table.                         *)
(*                                                                         *)
(* LimitPerWindow is not inductive: it speaks of the log, the limiter      *)
(* keeps a list of times.  GatewayInv says that the two agree.  Each time  *)
(* of a list stands for one admitted request (Stands), and none that still *)
(* counts is missing for an identity in the table (Complete) unless it came*)
(* back after a gap in which it could have been evicted.  That an eviction *)
(* leaves such a gap needs the table in the order of last use              *)
(* (InOrderOfUse), full when somebody is out of it, and everybody in it    *)
(* more recent (ForgottenForOthers).  The times of a list and the requests *)
(* they stand for are then counted one for one.                            *)
(***************************************************************************)
EXTENDS ApiGateway, DataLemmas

-------------------------------------------------------------------------------
(* The invariant *)

\* Of two requests m < n of one identity, so many others came in between that
\* it could have been evicted (Forgettable, for a log lg).
Far(lg, m, n) == Cardinality({lg[i].id : i \in m + 1 .. n - 1} \ {lg[m].id}) >= MaxTracked

\* m and n are requests of one identity, and none of it is between them.
NextTo(lg, m, n) ==
    /\ m \in DOMAIN lg /\ n \in DOMAIN lg /\ m < n
    /\ lg[m].id = lg[n].id
    /\ \A i \in m + 1 .. n - 1 : lg[i].id # lg[m].id

\* From its request i on, an identity came back before it could be evicted.
NoGap(lg, i) ==
    \A m, n \in DOMAIN lg :
        i <= m /\ lg[m].id = lg[i].id /\ NextTo(lg, m, n) => ~Far(lg, m, n)

\* The times of a bucket are those of admitted requests, h[k] that of the k-th.
Stands(h, lg, b, x) ==
    /\ h \in [DOMAIN b -> DOMAIN lg]
    /\ \A k, l \in DOMAIN b : k < l => h[k] < h[l]
    /\ \A k \in DOMAIN b :
          lg[h[k]].id = x /\ lg[h[k]].admitted /\ lg[h[k]].at = b[k]

\* None is missing that was admitted since t, unless there is a gap after it.
Complete(h, lg, b, x, t) ==
    \A i \in DOMAIN lg :
        lg[i].id = x /\ lg[i].admitted /\ lg[i].at >= t /\ NoGap(lg, i)
            => \E k \in DOMAIN b : h[k] = i

TimesAscend ==
    /\ \A m, n \in DOMAIN log : m <= n => log[m].at <= log[n].at
    /\ \A m \in DOMAIN log : log[m].at <= clock

\* The table is in the order of last use, ...
InOrderOfUse ==
    \A k, l \in DOMAIN order : k < l =>
        \A i \in DOMAIN log : log[i].id = order[k] =>
            \E j \in DOMAIN log : i < j /\ log[j].id = order[l]

\* ... and whoever is no longer in it has not come back since as many others did.
ForgottenForOthers ==
    \A i \in DOMAIN log : ~Contains(order, log[i].id) =>
        /\ Len(order) = MaxTracked
        /\ \A k \in DOMAIN order : \E j \in DOMAIN log : i < j /\ log[j].id = order[k]

Remembered ==
    \A x \in Identities :
        \E h \in [DOMAIN bucket[x] -> DOMAIN log] :
            /\ Stands(h, log, bucket[x], x)
            /\ Contains(order, x) => Complete(h, log, bucket[x], x, clock - Window)

GatewayInv ==
    /\ TypeOK /\ Bounded
    /\ TimesAscend /\ InOrderOfUse /\ ForgottenForOthers /\ Remembered
    /\ LimitPerWindow /\ RefusedOnlyWhenFull

-------------------------------------------------------------------------------
(* Longer logs *)

LogEntry == [id : Identities, at : 0 .. MaxTime, admitted : BOOLEAN]

\* new is the log old, of length N, with the request e.
Longer(new, old, N, e) ==
    /\ N \in Nat /\ DOMAIN old = 1 .. N /\ DOMAIN new = 1 .. N + 1
    /\ new[N + 1] = e /\ \A i \in 1 .. N : new[i] = old[i]

\* What was between two requests stays so.
LEMMA BetweenStays ==
    ASSUME NEW new, NEW old, NEW N, NEW e, Longer(new, old, N, e),
           NEW m \in 1 .. N, NEW n \in 1 .. N
    PROVE  /\ Far(new, m, n) <=> Far(old, m, n)
           /\ NextTo(new, m, n) <=> NextTo(old, m, n)
<1>1. N \in Nat /\ \A i \in 1 .. N : new[i] = old[i]
  BY DEF Longer
<1>2. \A i \in m + 1 .. n - 1 : i \in 1 .. N
  BY <1>1
<1>3. {new[i].id : i \in m + 1 .. n - 1} = {old[i].id : i \in m + 1 .. n - 1}
  BY <1>1, <1>2
<1>4. Far(new, m, n) <=> Far(old, m, n)
  BY <1>1, <1>3 DEF Far
<1>5. NextTo(new, m, n) <=> NextTo(old, m, n)
  <2>1. m \in DOMAIN old /\ n \in DOMAIN old /\ m \in DOMAIN new /\ n \in DOMAIN new
    BY <1>1 DEF Longer
  <2> QED
    BY <1>1, <1>2, <2>1 DEF NextTo
<1> QED
  BY <1>4, <1>5

\* Who has no gap in the longer log has none in the shorter.
LEMMA NoGapBefore ==
    ASSUME NEW new, NEW old, NEW N, NEW e, Longer(new, old, N, e),
           NEW i \in 1 .. N, NoGap(new, i)
    PROVE  NoGap(old, i)
<1>1. DOMAIN old = 1 .. N /\ N \in Nat /\ DOMAIN new = 1 .. N + 1
      /\ \A j \in 1 .. N : new[j] = old[j]
  BY DEF Longer
<1>2. SUFFICES ASSUME NEW m \in 1 .. N, NEW n \in 1 .. N,
                      i <= m, old[m].id = old[i].id, NextTo(old, m, n)
               PROVE  ~Far(old, m, n)
  BY <1>1 DEF NoGap
<1>3. NextTo(new, m, n) /\ m \in DOMAIN new /\ n \in DOMAIN new /\ new[m].id = new[i].id
  BY <1>1, <1>2, BetweenStays
<1>4. ~Far(new, m, n)
  BY <1>2, <1>3 DEF NoGap
<1> QED
  BY <1>4, BetweenStays

\* A full table in which everybody came in after m, and the identity of m is
\* not: so many others that m can be forgotten.
LEMMA FullTableIsFar ==
    ASSUME NEW new, NEW old, NEW N, NEW e, Longer(new, old, N, e),
           NEW keys \in Seq(Identities), IsInjective(keys), Len(keys) = MaxTracked,
           NEW m \in 1 .. N, ~Contains(keys, old[m].id),
           \A k \in DOMAIN keys : \E j \in 1 .. N : m < j /\ old[j].id = keys[k]
    PROVE  Far(new, m, N + 1)
<1> DEFINE others == {new[i].id : i \in m + 1 .. N + 1 - 1} \ {new[m].id}
           users == {keys[k] : k \in 1 .. MaxTracked}
           index == 1 .. MaxTracked
<1>1. N \in Nat /\ MaxTracked \in Nat /\ DOMAIN keys = index
      /\ \A j \in 1 .. N : new[j] = old[j]
  BY GatewayAssumption DEF Longer
<1>2. users \in SUBSET others
  <2>1. SUFFICES ASSUME NEW k \in index  PROVE keys[k] \in others
    OBVIOUS
  <2>2. PICK j \in 1 .. N : m < j /\ old[j].id = keys[k]
    BY <1>1
  <2>3. j \in m + 1 .. N + 1 - 1 /\ new[j].id = keys[k]
    BY <1>1, <2>2
  <2>4. keys[k] # new[m].id
    BY <1>1 DEF Contains
  <2> QED
    BY <2>3, <2>4
<1>3. IsFiniteSet(others)
  <2> DEFINE R == m + 1 .. N + 1 - 1
             ids == {new[i].id : i \in R}
             f == [i \in R |-> new[i].id]
  <2>1. IsFiniteSet(R)
    BY <1>1, FS_Interval
  <2>2. f \in Surjection(R, ids)
    BY DEF Surjection
  <2>3. others \in SUBSET ids
    OBVIOUS
  <2> HIDE DEF R, ids, f, others
  <2>4. IsFiniteSet(ids)
    BY <2>1, <2>2, FS_Surjection
  <2> QED
    BY <2>3, <2>4, FS_Subset
<1>4. keys \in Bijection(index, users)
  <2>1. \A k, l \in index : keys[k] = keys[l] => k = l
    BY <1>1 DEF IsInjective
  <2>2. keys \in [index -> users]
    BY <1>1
  <2> QED
    BY <1>1, <2>1, <2>2 DEF Bijection, Injection, Surjection
<1> HIDE DEF others, users
<1>5. IsFiniteSet(users) /\ Cardinality(users) = Cardinality(index)
  <2>1. IsFiniteSet(index)
    BY <1>1, FS_Interval
  <2>2. keys \in Surjection(index, users) /\ keys \in Injection(index, users)
    BY <1>4 DEF Bijection
  <2> HIDE DEF index
  <2> QED
    BY <2>1, <2>2, FS_Surjection
<1>6. Cardinality(index) = MaxTracked
  BY <1>1, FS_Interval
<1>7. Cardinality(users) <= Cardinality(others) /\ Cardinality(others) \in Nat
  BY <1>2, <1>3, FS_Subset, FS_CardinalityType
<1> QED
  BY <1>1, <1>5, <1>6, <1>7 DEF Far, others

\* If the identity of a new request is not in the table, all its earlier
\* requests have a gap after them.
LEMMA ReturnAfterGap ==
    ASSUME NEW new, NEW old, NEW N, NEW e, Longer(new, old, N, e),
           NEW keys \in Seq(Identities), IsInjective(keys), ~Contains(keys, e.id),
           \A i \in 1 .. N : ~Contains(keys, old[i].id) =>
               /\ Len(keys) = MaxTracked
               /\ \A k \in DOMAIN keys : \E j \in 1 .. N : i < j /\ old[j].id = keys[k],
           NEW i \in 1 .. N, old[i].id = e.id
    PROVE  ~NoGap(new, i)
<1>1. N \in Nat /\ \A j \in 1 .. N : new[j] = old[j]
  BY DEF Longer
<1> DEFINE own == {j \in 1 .. N : old[j].id = e.id}
<1>2. PICK m \in own : \A j \in own : j <= m
  <2>1. IsFiniteSet(own) /\ own \in SUBSET Int /\ own # {}
    <3>1. own \in SUBSET (1 .. N) /\ IsFiniteSet(1 .. N)
      BY <1>1, FS_Interval
    <3>2. own \in SUBSET Int /\ i \in own
      BY <1>1
    <3> HIDE DEF own
    <3> QED
      BY <3>1, <3>2, FS_Subset
  <2> HIDE DEF own
  <2> QED
    BY <2>1, GreatestElement
<1>3. m \in 1 .. N /\ old[m].id = e.id /\ i <= m
  BY <1>2
<1>4. Far(new, m, N + 1)
  <2>1. ~Contains(keys, old[m].id)
    BY <1>3
  <2> QED
    BY <1>3, <2>1, FullTableIsFar
<1>5. NextTo(new, m, N + 1)
  <2>1. \A j \in m + 1 .. N + 1 - 1 : new[j].id # e.id
    <3>1. SUFFICES ASSUME NEW j \in m + 1 .. N + 1 - 1  PROVE new[j].id # e.id
      OBVIOUS
    <3>2. j \in 1 .. N /\ ~(j <= m)
      BY <1>1, <1>3
    <3>3. j \notin own
      BY <1>2, <3>2
    <3> QED
      BY <1>1, <3>2, <3>3
  <2>2. new[N + 1] = e /\ DOMAIN new = 1 .. N + 1
    BY DEF Longer
  <2> QED
    BY <1>1, <1>3, <2>1, <2>2 DEF NextTo
<1>6. m \in DOMAIN new /\ N + 1 \in DOMAIN new /\ new[m].id = new[i].id
  BY <1>1, <1>3 DEF Longer
<1> QED
  BY <1>3, <1>4, <1>5, <1>6 DEF NoGap

-------------------------------------------------------------------------------
(* The OrderedDict of identities *)

\* new is old with x as the most recently used, whoever was evicted for it.
UsedLast(new, old, x) ==
    /\ new \in Seq(Identities) /\ IsInjective(new)
    /\ Len(new) <= MaxTracked /\ Contains(new, x)
    /\ \A k, l \in DOMAIN new : k < l =>
          /\ new[k] # x
          /\ \/ new[l] = x
             \/ \E m, n \in DOMAIN old : m < n /\ old[m] = new[k] /\ old[n] = new[l]
    /\ \A k \in DOMAIN new : new[k] = x \/ \E m \in DOMAIN old : old[m] = new[k]
    /\ Contains(old, x) => \A m \in DOMAIN old : Contains(new, old[m])
    /\ \A m \in DOMAIN old : ~Contains(new, old[m]) => m = 1 /\ Len(new) = MaxTracked
    /\ Len(old) = MaxTracked => Len(new) = MaxTracked

\* new is old with its i-th element at the end.
PutLast(new, old, i) == new = Append(RemoveAt(old, i), old[i])

\* move_to_end makes its key the most recently used.
LEMMA MovingIsUsing ==
    ASSUME NEW old, NEW new, NEW N, NEW i,
           /\ N \in Nat /\ i \in 1 .. N /\ old \in Seq(Identities) /\ Len(old) = N
           /\ IsInjective(old) /\ N <= MaxTracked /\ PutLast(new, old, i)
    PROVE  UsedLast(new, old, old[i]) /\ Len(new) = N
<1>1. PICK u : u = RemoveAt(old, i)
  OBVIOUS
<1>2. /\ u \in Seq(Identities) /\ Len(u) = N - 1
      /\ \A n \in 1 .. N - 1 : u[n] = IF n < i THEN old[n] ELSE old[n + 1]
  <2>1. N \in Nat /\ i \in 1 .. N /\ old \in Seq(Identities) /\ Len(old) = N /\ u = RemoveAt(old, i)
    BY <1>1
  <2>2. Without(u, old, Identities, N, i)
    BY <2>1, WithoutOne
  <2> QED
    BY <2>2 DEF Without
<1>3. PICK x \in Identities : x = old[i]
  OBVIOUS
<1>4. N \in Nat /\ i \in 1 .. N /\ DOMAIN old = 1 .. N /\ new = Append(u, x)
  BY <1>1, <1>3 DEF PutLast
<1>5. /\ new \in Seq(Identities) /\ Len(new) = N /\ DOMAIN new = 1 .. N
      /\ new[N] = x /\ \A n \in 1 .. N - 1 : new[n] = u[n]
  BY <1>2, <1>4
<1> DEFINE From(n) == IF n < i THEN n ELSE n + 1
<1>6. \A n \in 1 .. N - 1 : From(n) \in 1 .. N /\ From(n) # i /\ new[n] = old[From(n)]
  <2>1. SUFFICES ASSUME NEW n \in 1 .. N - 1
                 PROVE  From(n) \in 1 .. N /\ From(n) # i /\ new[n] = old[From(n)]
    OBVIOUS
  <2>2. CASE n < i
    <3>1. From(n) = n /\ n \in 1 .. N /\ n # i
      BY <1>4, <2>2
    <3>2. new[n] = old[n]
      BY <1>2, <1>5, <2>2
    <3> HIDE DEF From
    <3> QED
      BY <3>1, <3>2
  <2>3. CASE n >= i
    <3>1. ~(n < i) /\ From(n) = n + 1 /\ n + 1 \in 1 .. N /\ n + 1 # i
      BY <1>4, <2>3
    <3>2. new[n] = old[n + 1]
      BY <1>2, <1>5, <3>1
    <3> HIDE DEF From
    <3> QED
      BY <3>1, <3>2
  <2>4. n < i \/ n >= i
    BY <1>4
  <2> QED
    BY <2>2, <2>3, <2>4
<1>7. \A m, n \in 1 .. N - 1 : m < n => From(m) < From(n)
  BY <1>4
<1>8. \A m, n \in 1 .. N : old[m] = old[n] => m = n
  BY <1>4 DEF IsInjective
<1> HIDE DEF From
<1>9. \A n \in 1 .. N - 1 : new[n] # x
  BY <1>3, <1>4, <1>6, <1>8
<1>10. \A k, l \in DOMAIN new : k < l =>
          /\ new[k] # x
          /\ \/ new[l] = x
             \/ \E m, n \in DOMAIN old : m < n /\ old[m] = new[k] /\ old[n] = new[l]
  <2>1. SUFFICES ASSUME NEW k \in DOMAIN new, NEW l \in DOMAIN new, k < l
                 PROVE  /\ new[k] # x
                        /\ \/ new[l] = x
                           \/ \E m, n \in DOMAIN old :
                                 m < n /\ old[m] = new[k] /\ old[n] = new[l]
    OBVIOUS
  <2>2. k \in 1 .. N - 1 /\ l \in 1 .. N
    BY <1>4, <1>5, <2>1
  <2>3. CASE l = N
    BY <1>5, <1>9, <2>2, <2>3
  <2>4. CASE l # N
    <3>1. l \in 1 .. N - 1
      BY <1>4, <2>2, <2>4
    <3>2. /\ From(k) \in 1 .. N /\ From(l) \in 1 .. N /\ From(k) < From(l)
          /\ new[k] = old[From(k)] /\ new[l] = old[From(l)]
      BY <1>6, <1>7, <2>1, <2>2, <3>1
    <3> QED
      BY <1>4, <1>9, <2>2, <3>2
  <2> QED
    BY <2>3, <2>4
<1>11. IsInjective(new)
  <2>1. SUFFICES ASSUME NEW k \in 1 .. N, NEW l \in 1 .. N, k < l  PROVE new[k] # new[l]
    BY <1>4, <1>5 DEF IsInjective
  <2>2. \/ new[l] = x
        \/ \E m, n \in 1 .. N : m < n /\ old[m] = new[k] /\ old[n] = new[l]
    BY <1>4, <1>5, <1>10, <2>1
  <2> QED
    BY <1>5, <1>8, <1>10, <2>1, <2>2
<1>12. \A k \in DOMAIN new : new[k] = x \/ \E m \in DOMAIN old : old[m] = new[k]
  <2>1. \A k \in 1 .. N : k = N \/ k \in 1 .. N - 1
    BY <1>4
  <2> QED
    BY <1>4, <1>5, <1>6, <2>1
<1>13. \A m \in DOMAIN old : Contains(new, old[m])
  <2>1. SUFFICES ASSUME NEW m \in 1 .. N  PROVE \E n \in 1 .. N : new[n] = old[m]
    BY <1>4, <1>5 DEF Contains
  <2>2. CASE m = i
    BY <1>3, <1>4, <1>5, <2>2
  <2>3. CASE m < i
    <3>1. m \in 1 .. N - 1 /\ From(m) = m
      BY <1>4, <2>3 DEF From
    <3> QED
      BY <1>6, <3>1
  <2>4. CASE m > i
    <3>1. m - 1 \in 1 .. N - 1 /\ From(m - 1) = m
      BY <1>4, <2>4 DEF From
    <3> QED
      BY <1>6, <3>1
  <2>5. m < i \/ m = i \/ m > i
    BY <1>4
  <2> QED
    BY <2>2, <2>3, <2>4, <2>5
<1>14. Contains(new, x) /\ Len(new) <= MaxTracked /\ Len(new) = Len(old)
  BY <1>4, <1>5 DEF Contains
<1> QED
  BY <1>3, <1>5, <1>10, <1>11, <1>12, <1>13, <1>14 DEF UsedLast

\* So does a new key, with the eviction of the first if the table is full.
LEMMA AppendingIsUsing ==
    ASSUME NEW old, NEW new, NEW x, NEW N,
           /\ N \in Nat /\ old \in Seq(Identities) /\ Len(old) = N /\ x \in Identities
           /\ IsInjective(old) /\ N <= MaxTracked /\ ~Contains(old, x)
           /\ new = Kept(Append(old, x))
    PROVE  UsedLast(new, old, x)
<1>1. PICK u : u = Append(old, x)
  OBVIOUS
<1>2. /\ N \in Nat /\ DOMAIN old = 1 .. N /\ Len(u) = N + 1 /\ u \in Seq(Identities)
      /\ u[N + 1] = x /\ \A n \in 1 .. N : u[n] = old[n] /\ old[n] # x
  BY <1>1 DEF Contains
<1>3. \A m, n \in 1 .. N : old[m] = old[n] => m = n
  BY <1>2 DEF IsInjective
<1>4. MaxTracked \in Nat \ {0}
  BY GatewayAssumption
<1>5. CASE N < MaxTracked
  <2>1. new = SubSeq(u, 1, N + 1)
    BY <1>1, <1>2, <1>4, <1>5 DEF Kept
  <2>2. /\ new \in Seq(Identities) /\ Len(new) = N + 1 /\ DOMAIN new = 1 .. N + 1
        /\ \A n \in 1 .. N + 1 : new[n] = u[n]
    BY <1>2, <2>1
  <2>3. N + 1 \in 1 .. N + 1 /\ \A n \in 1 .. N + 1 : n = N + 1 \/ n \in 1 .. N
    BY <1>2
  <2>4. IsInjective(new)
    BY <1>2, <1>3, <2>2, <2>3 DEF IsInjective
  <2>5. \A k, l \in DOMAIN new : k < l =>
          /\ new[k] # x
          /\ \/ new[l] = x
             \/ \E m, n \in DOMAIN old : m < n /\ old[m] = new[k] /\ old[n] = new[l]
    BY <1>2, <2>2, <2>3
  <2>6. \A k \in DOMAIN new : new[k] = x \/ \E m \in DOMAIN old : old[m] = new[k]
    BY <1>2, <2>2, <2>3
  <2>7. Contains(new, x) /\ \A m \in DOMAIN old : Contains(new, old[m])
    <3>1. \A m \in 1 .. N : m \in 1 .. N + 1
      BY <1>2
    <3> QED
      BY <1>2, <2>2, <2>3, <3>1 DEF Contains
  <2>8. Len(new) <= MaxTracked /\ Len(old) # MaxTracked
    BY <1>2, <1>4, <1>5, <2>2
  <2> QED
    BY <2>2, <2>4, <2>5, <2>6, <2>7, <2>8 DEF UsedLast
<1>6. CASE N = MaxTracked
  <2>1. new = SubSeq(u, 2, N + 1)
    <3>1. Len(u) > MaxTracked /\ Len(u) - MaxTracked + 1 = 2
      BY <1>2, <1>4, <1>6
    <3>2. new = SubSeq(u, Len(u) - MaxTracked + 1, Len(u))
      BY <1>1, <3>1 DEF Kept
    <3> QED
      BY <1>2, <3>1, <3>2
  <2>2. /\ new \in Seq(Identities) /\ Len(new) = N /\ DOMAIN new = 1 .. N
        /\ \A n \in 1 .. N : new[n] = u[n + 1]
    BY <1>2, <2>1
  <2>3. /\ N \in 1 .. N /\ new[N] = x
        /\ \A n \in 1 .. N : n = N \/ (n \in 1 .. N - 1 /\ n + 1 \in 1 .. N)
    BY <1>2, <1>4, <1>6, <2>2
  <2>4. \A n \in 1 .. N - 1 : n + 1 \in 1 .. N /\ new[n] = old[n + 1] /\ new[n] # x
    BY <1>2, <2>2
  <2>5. IsInjective(new)
    <3>1. SUFFICES ASSUME NEW k \in 1 .. N, NEW l \in 1 .. N, new[k] = new[l]  PROVE k = l
      BY <2>2 DEF IsInjective
    <3>2. CASE k = N \/ l = N
      BY <2>3, <2>4, <3>1, <3>2
    <3>3. CASE k # N /\ l # N
      <4>1. k + 1 = l + 1
        BY <1>3, <2>3, <2>4, <3>1, <3>3
      <4> QED
        BY <1>2, <4>1
    <3> QED
      BY <3>2, <3>3
  <2>6. \A k, l \in DOMAIN new : k < l =>
          /\ new[k] # x
          /\ \/ new[l] = x
             \/ \E m, n \in DOMAIN old : m < n /\ old[m] = new[k] /\ old[n] = new[l]
    <3>1. SUFFICES ASSUME NEW k \in DOMAIN new, NEW l \in DOMAIN new, k < l
                   PROVE  /\ new[k] # x
                          /\ \/ new[l] = x
                             \/ \E m, n \in DOMAIN old :
                                   m < n /\ old[m] = new[k] /\ old[n] = new[l]
      OBVIOUS
    <3>2. k \in 1 .. N - 1 /\ l \in 1 .. N
      BY <1>2, <2>2, <3>1
    <3>3. CASE l = N
      BY <2>3, <2>4, <3>2, <3>3
    <3>4. CASE l # N
      <4>1. l \in 1 .. N - 1 /\ k + 1 < l + 1
        BY <1>2, <3>1, <3>2, <3>4
      <4> QED
        <5>1. /\ k + 1 \in DOMAIN old /\ l + 1 \in DOMAIN old /\ new[k] # x
              /\ old[k + 1] = new[k] /\ old[l + 1] = new[l]
          BY <1>2, <2>4, <3>2, <4>1
        <5> QED
          BY <4>1, <5>1
    <3> QED
      BY <3>3, <3>4
  <2>7. \A k \in DOMAIN new : new[k] = x \/ \E m \in DOMAIN old : old[m] = new[k]
    <3>1. SUFFICES ASSUME NEW k \in 1 .. N, k # N  PROVE \E m \in DOMAIN old : old[m] = new[k]
      BY <2>2, <2>3
    <3>2. k \in 1 .. N - 1
      BY <2>3, <3>1
    <3> QED
      BY <1>2, <2>4, <3>2
  <2>8. Contains(new, x) /\ Len(new) = MaxTracked
    BY <1>6, <2>2, <2>3 DEF Contains
  <2>9. \A m \in DOMAIN old : ~Contains(new, old[m]) => m = 1
    <3>1. SUFFICES ASSUME NEW m \in 1 .. N, m # 1  PROVE \E n \in 1 .. N : new[n] = old[m]
      BY <1>2, <2>2 DEF Contains
    <3>2. m - 1 \in 1 .. N - 1 /\ m - 1 \in 1 .. N /\ m - 1 + 1 = m
      BY <1>2, <3>1
    <3> QED
      BY <2>4, <3>2
  <2> QED
    BY <1>4, <2>2, <2>5, <2>6, <2>7, <2>8, <2>9 DEF UsedLast
<1> QED
  BY <1>2, <1>4, <1>5, <1>6

-------------------------------------------------------------------------------
(* The table of identities *)

\* What Refuse and Admit do to the table is a use of x.
LEMMA MoveUses ==
    ASSUME TypeOK, Bounded, NEW x \in Identities,
           \/ order' = MovedToEnd(x) /\ Contains(order, x)
           \/ order' = Kept(MovedToEnd(x))
    PROVE  UsedLast(order', order, x)
<1>1. PICK o, p, N : o = order /\ p = order' /\ N = Len(order)
  OBVIOUS
<1>2. /\ o \in Seq(Identities) /\ Len(o) = N /\ N \in Nat /\ IsInjective(o)
      /\ N <= MaxTracked /\ DOMAIN o = 1 .. N
  BY <1>1 DEF TypeOK, Bounded
<1>3. CASE Contains(order, x)
  <2>1. PICK i : i = Place(x)
    OBVIOUS
  <2>2. i \in 1 .. N /\ o[i] = x
    BY <1>1, <1>2, <1>3, <2>1 DEF Place, Contains
  <2>3. PICK q : q = MovedToEnd(x)
    OBVIOUS
  <2>4. PutLast(q, o, i)
    BY <1>1, <1>3, <2>1, <2>2, <2>3 DEF PutLast, MovedToEnd
  <2>5. /\ N \in Nat /\ i \in 1 .. N /\ o \in Seq(Identities) /\ Len(o) = N
        /\ IsInjective(o) /\ N <= MaxTracked /\ PutLast(q, o, i)
    BY <1>2, <2>2, <2>4
  <2>6. UsedLast(q, o, x) /\ Len(q) = N
    BY <2>2, <2>5, MovingIsUsing
  <2>7. Kept(q) = q
    <3>1. q \in Seq(Identities) /\ ~(Len(q) > MaxTracked)
      BY <1>2, <2>6, GatewayAssumption DEF UsedLast
    <3>2. SubSeq(q, 1, Len(q)) = q
      BY <3>1
    <3> QED
      BY <3>1, <3>2 DEF Kept
  <2> QED
    BY <1>1, <2>3, <2>6, <2>7
<1>4. CASE ~Contains(order, x)
  <2>1. p = Kept(Append(o, x))
    BY <1>1, <1>4 DEF MovedToEnd
  <2>2. /\ N \in Nat /\ o \in Seq(Identities) /\ Len(o) = N /\ x \in Identities
        /\ IsInjective(o) /\ N <= MaxTracked /\ ~Contains(o, x)
        /\ p = Kept(Append(o, x))
    BY <1>1, <1>2, <1>4, <2>1
  <2>3. UsedLast(p, o, x)
    BY <2>2, AppendingIsUsing
  <2> QED
    BY <1>1, <2>3
<1> QED
  BY <1>3, <1>4

\* A use, logged, keeps the order of the table and who is forgotten for whom.
LEMMA TableKept ==
    ASSUME TypeOK, InOrderOfUse, ForgottenForOthers, NEW N, NEW e,
           Longer(log', log, N, e), UsedLast(order', order, e.id)
    PROVE  InOrderOfUse' /\ ForgottenForOthers'
<1>1. PICK o, p, lg, lh, x : /\ o = order /\ p = order' /\ lg = log /\ lh = log' /\ x = e.id
  OBVIOUS
<1>2. /\ N \in Nat /\ DOMAIN lg = 1 .. N /\ DOMAIN lh = 1 .. N + 1 /\ lh[N + 1].id = x
      /\ \A i \in 1 .. N : lh[i] = lg[i]
  BY <1>1 DEF Longer
<1>3. /\ \A k, l \in DOMAIN p : k < l =>
            /\ p[k] # x
            /\ \/ p[l] = x
               \/ \E m, n \in DOMAIN o : m < n /\ o[m] = p[k] /\ o[n] = p[l]
      /\ \A k \in DOMAIN p : p[k] = x \/ \E m \in DOMAIN o : o[m] = p[k]
      /\ \A m \in DOMAIN o : ~Contains(p, o[m]) => m = 1 /\ Len(p) = MaxTracked
      /\ Len(o) = MaxTracked => Len(p) = MaxTracked
      /\ Contains(p, x)
  BY <1>1 DEF UsedLast
<1>4. \A k, l \in DOMAIN o : k < l =>
        \A i \in 1 .. N : lg[i].id = o[k] => \E j \in 1 .. N : i < j /\ lg[j].id = o[l]
  BY <1>1, <1>2 DEF InOrderOfUse
<1>5. \A i \in 1 .. N : ~Contains(o, lg[i].id) =>
        /\ Len(o) = MaxTracked
        /\ \A k \in DOMAIN o : \E j \in 1 .. N : i < j /\ lg[j].id = o[k]
  BY <1>1, <1>2 DEF ForgottenForOthers
<1>6. \A i \in 1 .. N + 1 : i = N + 1 \/ (i \in 1 .. N /\ i < N + 1 /\ lh[i].id = lg[i].id)
  BY <1>2
<1>7. \A j \in 1 .. N : j \in 1 .. N + 1
  BY <1>2
<1>8. InOrderOfUse'
  <2>1. SUFFICES ASSUME NEW k \in DOMAIN p, NEW l \in DOMAIN p, k < l,
                        NEW i \in 1 .. N + 1, lh[i].id = p[k]
                 PROVE  \E j \in 1 .. N + 1 : i < j /\ lh[j].id = p[l]
    BY <1>1, <1>2 DEF InOrderOfUse
  <2>2. i \in 1 .. N /\ i < N + 1 /\ lg[i].id = p[k]
    BY <1>2, <1>3, <1>6, <2>1
  <2>3. CASE p[l] = x
    BY <1>2, <2>2, <2>3
  <2>4. CASE p[l] # x
    <3>1. PICK m \in DOMAIN o, n \in DOMAIN o : m < n /\ o[m] = p[k] /\ o[n] = p[l]
      BY <1>3, <2>1, <2>4
    <3>2. PICK j \in 1 .. N : i < j /\ lg[j].id = p[l]
      BY <1>4, <2>2, <3>1
    <3> QED
      BY <1>2, <1>7, <3>2
  <2> QED
    BY <2>3, <2>4
<1>9. ForgottenForOthers'
  <2>1. SUFFICES ASSUME NEW i \in 1 .. N + 1, ~Contains(p, lh[i].id)
                 PROVE  /\ Len(p) = MaxTracked
                        /\ \A k \in DOMAIN p : \E j \in 1 .. N + 1 : i < j /\ lh[j].id = p[k]
    BY <1>1, <1>2 DEF ForgottenForOthers
  <2>2. i \in 1 .. N /\ i < N + 1 /\ lh[i].id = lg[i].id
    BY <1>2, <1>3, <1>6, <2>1
  <2>3. CASE ~Contains(o, lg[i].id)
    <3>1. Len(o) = MaxTracked /\ \A k \in DOMAIN o : \E j \in 1 .. N : i < j /\ lg[j].id = o[k]
      BY <1>5, <2>2, <2>3
    <3>2. ASSUME NEW k \in DOMAIN p  PROVE \E j \in 1 .. N + 1 : i < j /\ lh[j].id = p[k]
      <4>1. CASE p[k] = x
        BY <1>2, <2>2, <4>1
      <4>2. CASE p[k] # x
        <5>1. PICK m \in DOMAIN o : o[m] = p[k]
          BY <1>3, <4>2
        <5>2. PICK j \in 1 .. N : i < j /\ lg[j].id = p[k]
          BY <3>1, <5>1
        <5> QED
          BY <1>2, <1>7, <5>2
      <4> QED
        BY <4>1, <4>2
    <3> QED
      BY <1>3, <3>1, <3>2
  <2>4. CASE Contains(o, lg[i].id)
    <3>1. PICK m \in DOMAIN o : o[m] = lg[i].id
      <4>1. DOMAIN o = 1 .. Len(o)
        BY <1>1 DEF TypeOK
      <4> QED
        BY <2>4, <4>1 DEF Contains
    <3>2. m = 1 /\ Len(p) = MaxTracked
      BY <1>3, <2>1, <2>2, <3>1
    <3>3. ASSUME NEW k \in DOMAIN p  PROVE \E j \in 1 .. N + 1 : i < j /\ lh[j].id = p[k]
      <4>1. CASE p[k] = x
        BY <1>2, <2>2, <4>1
      <4>2. CASE p[k] # x
        <5>1. PICK n \in DOMAIN o : o[n] = p[k]
          BY <1>3, <4>2
        <5>2. n # 1
          <6>1. DOMAIN p = 1 .. Len(p)
            BY <1>1 DEF UsedLast
          <6>2. Contains(p, p[k])
            BY <6>1 DEF Contains
          <6> QED
            BY <2>1, <2>2, <3>1, <3>2, <5>1, <6>2
        <5>3. 1 \in DOMAIN o /\ 1 < n
          <6>1. DOMAIN o = 1 .. Len(o) /\ Len(o) \in Nat
            BY <1>1 DEF TypeOK
          <6> QED
            BY <3>1, <3>2, <5>1, <5>2, <6>1
        <5>4. PICK j \in 1 .. N : i < j /\ lg[j].id = p[k]
          BY <1>4, <2>2, <3>1, <3>2, <5>1, <5>3
        <5> QED
          BY <1>2, <1>7, <5>4
      <4> QED
        BY <4>1, <4>2
    <3> QED
      BY <3>2, <3>3
  <2> QED
    BY <2>3, <2>4
<1> QED
  BY <1>8, <1>9

-------------------------------------------------------------------------------
(* The buckets *)

Times == 0 .. MaxTime

\* c is b without its first d times.
Suffix(c, b, d) ==
    /\ b \in Seq(Times) /\ c \in Seq(Times)
    /\ d \in 0 .. Len(b) /\ Len(c) = Len(b) - d
    /\ \A k \in 1 .. Len(c) : c[k] = b[k + d]

\* Fresh drops the times before t, up to the first that is not.
DropsOld(b, d, t) ==
    /\ \A k \in 1 .. d : b[k] < t
    /\ d < Len(b) => b[d + 1] >= t

\* The while loop of dispatch ends, with a suffix that lacks old times only.
LEMMA FreshDropsOld ==
    ASSUME TypeOK, NEW x \in Identities
    PROVE  \E d \in Nat : /\ Suffix(Fresh(x), bucket[x], d)
                          /\ DropsOld(bucket[x], d, clock - Window)
<1>1. PICK b, L, t : b = bucket[x] /\ L = Len(b) /\ t = clock - Window
  OBVIOUS
<1>2. /\ b \in Seq(Times) /\ L \in Nat /\ t \in Int
      /\ \A k \in 1 .. L : b[k] \in Times
      /\ \A k \in Times : k \in Int
  BY <1>1, GatewayAssumption DEF TypeOK, Times
<1> DEFINE S == {n \in 0 .. L : \A k \in 1 .. n : b[k] < t}
<1>3. PICK d \in S : \A n \in S : n <= d
  <2>1. 0 \in S
    BY <1>2
  <2>2. S \in SUBSET (0 .. L) /\ S \in SUBSET Int /\ IsFiniteSet(0 .. L)
    BY <1>2, FS_Interval
  <2> HIDE DEF S
  <2>3. IsFiniteSet(S)
    BY <2>2, FS_Subset
  <2> QED
    BY <2>1, <2>2, <2>3, GreatestElement
<1>4. d < L => b[d + 1] >= t
  <2>1. SUFFICES ASSUME d < L, ~(b[d + 1] >= t)  PROVE FALSE
    OBVIOUS
  <2>2. d + 1 \in 1 .. L /\ d + 1 \in 0 .. L
    BY <1>2, <1>3, <2>1
  <2>3. b[d + 1] < t
    BY <1>2, <2>1, <2>2
  <2>4. \A k \in 1 .. d + 1 : k = d + 1 \/ k \in 1 .. d
    BY <1>2, <1>3
  <2>5. d + 1 \in S
    BY <1>3, <2>2, <2>3, <2>4
  <2>6. d \in Int /\ \A n \in S : n <= d
    BY <1>2, <1>3
  <2> HIDE DEF S
  <2>7. d + 1 <= d
    BY <2>5, <2>6
  <2> QED
    BY <2>6, <2>7
<1>5. PICK p : p = Pops(x)
  OBVIOUS
<1>6. p \in 0 .. L /\ (\A k \in 1 .. p : b[k] < t) /\ (p < L => b[p + 1] >= t)
  BY <1>1, <1>3, <1>4, <1>5 DEF Pops
<1>7. Fresh(x) = SubSeq(b, p + 1, L)
  BY <1>1, <1>5 DEF Fresh
<1>8. PICK c : c = Fresh(x)
  OBVIOUS
<1>9. c \in Seq(Times) /\ Len(c) = L - p /\ \A k \in 1 .. L - p : c[k] = b[k + p]
  BY <1>1, <1>2, <1>6, <1>7, <1>8
<1>10. Suffix(c, b, p) /\ DropsOld(b, p, t) /\ p \in Nat
  BY <1>1, <1>2, <1>6, <1>9 DEF Suffix, DropsOld
<1> QED
  BY <1>1, <1>8, <1>10

\* The log grows by e, and times of b before t are dropped.
Carried(lh, lg, N, e, b, c, d, x, h, t) ==
    /\ Longer(lh, lg, N, e) /\ Suffix(c, b, d) /\ Stands(h, lg, b, x)
    /\ t \in Int /\ \A k \in 1 .. d : b[k] < t

\* Complete, for the first N requests.
CompleteUpTo(h, lg, b, x, t, N) ==
    \A i \in 1 .. N :
        lg[i].id = x /\ lg[i].admitted /\ lg[i].at >= t /\ NoGap(lg, i)
            => \E k \in DOMAIN b : h[k] = i

\* The lists that are carried over still stand for what they stood for.
LEMMA StillStands ==
    ASSUME NEW lh, NEW lg, NEW N, NEW e, NEW b, NEW c, NEW d, NEW x, NEW h, NEW t,
           Carried(lh, lg, N, e, b, c, d, x, h, t)
    PROVE  \E g : /\ Stands(g, lh, c, x) /\ g \in [DOMAIN c -> 1 .. N]
                  /\ Complete(h, lg, b, x, t) => CompleteUpTo(g, lh, c, x, t, N)
<1> USE DEF Carried
<1>1. PICK L \in Nat, M \in Nat : L = Len(b) /\ M = Len(c)
  BY DEF Suffix
<1>2. /\ DOMAIN b = 1 .. L /\ DOMAIN c = 1 .. M /\ d \in 0 .. L /\ M = L - d
      /\ \A k \in 1 .. M : c[k] = b[k + d] /\ k + d \in 1 .. L
      /\ \A k \in 1 .. L : b[k] \in Int
  <2>1. /\ DOMAIN b = 1 .. L /\ DOMAIN c = 1 .. M /\ d \in 0 .. L /\ M = L - d
        /\ \A k \in 1 .. M : c[k] = b[k + d]
    BY <1>1 DEF Suffix
  <2>2. \A k \in 1 .. M : k + d \in 1 .. L
    BY <2>1
  <2>3. \A k \in 1 .. L : b[k] \in Times
    BY <1>1, <2>1 DEF Suffix
  <2>4. \A k \in 1 .. L : b[k] \in Int
    BY <2>3, GatewayAssumption DEF Times
  <2> QED
    BY <2>1, <2>2, <2>4
<1>3. /\ N \in Nat /\ DOMAIN lg = 1 .. N /\ DOMAIN lh = 1 .. N + 1
      /\ \A i \in 1 .. N : lh[i] = lg[i] /\ i \in 1 .. N + 1
  BY DEF Longer
<1>4. /\ h \in [1 .. L -> 1 .. N]
      /\ \A k, l \in 1 .. L : k < l => h[k] < h[l]
      /\ \A k \in 1 .. L : lg[h[k]].id = x /\ lg[h[k]].admitted /\ lg[h[k]].at = b[k]
  BY <1>2, <1>3 DEF Stands
<1>5. PICK g : g = [k \in 1 .. M |-> h[k + d]]
  OBVIOUS
<1>6. g \in [1 .. M -> 1 .. N] /\ \A k \in 1 .. M : g[k] = h[k + d]
  BY <1>2, <1>4, <1>5
<1>7. Stands(g, lh, c, x)
  <2>1. g \in [DOMAIN c -> DOMAIN lh]
    BY <1>2, <1>3, <1>6
  <2>2. \A k, l \in 1 .. M : k < l => g[k] < g[l]
    <3>1. \A k, l \in 1 .. M : k < l => k + d < l + d
      BY <1>2
    <3> QED
      BY <1>2, <1>4, <1>6, <3>1
  <2>3. \A k \in 1 .. M : lh[g[k]].id = x /\ lh[g[k]].admitted /\ lh[g[k]].at = c[k]
    <3>1. SUFFICES ASSUME NEW k \in 1 .. M
                   PROVE  lh[g[k]].id = x /\ lh[g[k]].admitted /\ lh[g[k]].at = c[k]
      OBVIOUS
    <3>2. PICK n \in 1 .. L : n = k + d
      BY <1>2
    <3>3. lh[g[k]] = lg[h[n]] /\ c[k] = b[n]
      BY <1>2, <1>3, <1>4, <1>6, <3>2
    <3> QED
      BY <1>4, <3>3
  <2> QED
    BY <1>2, <2>1, <2>2, <2>3 DEF Stands
<1>8. ASSUME Complete(h, lg, b, x, t), NEW i \in 1 .. N,
             lh[i].id = x, lh[i].admitted, lh[i].at >= t, NoGap(lh, i)
      PROVE  \E k \in DOMAIN c : g[k] = i
  <2>1. NoGap(lg, i)
    BY <1>8, NoGapBefore
  <2>2. PICK k \in 1 .. L : h[k] = i
    BY <1>2, <1>3, <1>8, <2>1 DEF Complete
  <2>3. b[k] >= t
    BY <1>3, <1>4, <1>8, <2>2
  <2>4. ~(k \in 1 .. d)
    BY <1>2, <2>2, <2>3
  <2>5. k - d \in 1 .. M /\ k - d + d = k
    BY <1>2, <2>2, <2>4
  <2> QED
    BY <1>2, <1>6, <2>2, <2>5
<1>9. Complete(h, lg, b, x, t) => CompleteUpTo(g, lh, c, x, t, N)
  BY <1>8 DEF CompleteUpTo
<1>10. g \in [DOMAIN c -> 1 .. N]
  BY <1>2, <1>6
<1> QED
  BY <1>7, <1>9, <1>10

\* A request that is not an admitted one of x.
LEMMA OthersRemembered ==
    ASSUME NEW lh, NEW lg, NEW N, NEW e, NEW b, NEW c, NEW d, NEW x, NEW h, NEW t,
           Carried(lh, lg, N, e, b, c, d, x, h, t) /\ (e.id # x \/ ~e.admitted)
    PROVE  \E g \in [DOMAIN c -> DOMAIN lh] :
             /\ Stands(g, lh, c, x)
             /\ Complete(h, lg, b, x, t) => Complete(g, lh, c, x, t)
<1>1. PICK g :
        /\ Stands(g, lh, c, x) /\ g \in [DOMAIN c -> 1 .. N]
        /\ Complete(h, lg, b, x, t) => CompleteUpTo(g, lh, c, x, t, N)
  BY StillStands
<1>2. /\ DOMAIN lh = 1 .. N + 1 /\ lh[N + 1] = e
      /\ \A i \in 1 .. N + 1 : i = N + 1 \/ i \in 1 .. N
  BY DEF Carried, Longer
<1>3. Complete(h, lg, b, x, t) => Complete(g, lh, c, x, t)
  BY <1>1, <1>2 DEF Complete, CompleteUpTo
<1> QED
  BY <1>1, <1>3 DEF Stands

\* An admitted request of x itself.
LEMMA OwnRemembered ==
    ASSUME NEW lh, NEW lg, NEW N, NEW e, NEW b, NEW c, NEW d, NEW x, NEW h, NEW t, NEW new,
           /\ Carried(lh, lg, N, e, b, c, d, x, h, t)
           /\ e.id = x /\ e.admitted /\ e.at \in Times /\ new = Append(c, e.at)
    PROVE  \E g \in [DOMAIN new -> DOMAIN lh] :
             /\ Stands(g, lh, new, x)
             /\ \/ Complete(h, lg, b, x, t)
                \/ \A i \in 1 .. N : lg[i].id = x => ~NoGap(lh, i)
                => Complete(g, lh, new, x, t)
<1>1. PICK f :
        /\ Stands(f, lh, c, x) /\ f \in [DOMAIN c -> 1 .. N]
        /\ Complete(h, lg, b, x, t) => CompleteUpTo(f, lh, c, x, t, N)
  BY StillStands
<1>2. PICK M \in Nat : M = Len(c) /\ DOMAIN c = 1 .. M /\ c \in Seq(Times)
  BY DEF Carried, Suffix
<1>3. /\ DOMAIN new = 1 .. M + 1 /\ new[M + 1] = e.at
      /\ \A k \in 1 .. M : new[k] = c[k]
  BY <1>2
<1>4. /\ N \in Nat /\ DOMAIN lh = 1 .. N + 1 /\ lh[N + 1] = e
      /\ \A i \in 1 .. N : lh[i] = lg[i] /\ i \in 1 .. N + 1 /\ i < N + 1
      /\ N + 1 \in 1 .. N + 1
      /\ \A i \in 1 .. N + 1 : i = N + 1 \/ i \in 1 .. N
  BY DEF Carried, Longer
<1>5. /\ \A k, l \in 1 .. M : k < l => f[k] < f[l]
      /\ \A k \in 1 .. M : lh[f[k]].id = x /\ lh[f[k]].admitted /\ lh[f[k]].at = c[k]
  BY <1>1, <1>2 DEF Stands
<1>6. PICK g : g = [k \in 1 .. M + 1 |-> IF k = M + 1 THEN N + 1 ELSE f[k]]
  OBVIOUS
<1>7. /\ \A k \in 1 .. M : k \in 1 .. M + 1 /\ k # M + 1 /\ k < M + 1
      /\ \A k \in 1 .. M + 1 : k = M + 1 \/ k \in 1 .. M
      /\ M + 1 \in 1 .. M + 1
  BY <1>2
<1>8. g[M + 1] = N + 1 /\ \A k \in 1 .. M : g[k] = f[k] /\ g[k] \in 1 .. N
  BY <1>1, <1>2, <1>6, <1>7
<1>9. g \in [DOMAIN new -> DOMAIN lh]
  <2>1. \A k \in 1 .. M + 1 : g[k] \in 1 .. N + 1
    BY <1>4, <1>7, <1>8
  <2> QED
    BY <1>3, <1>4, <1>6, <2>1
<1>10. Stands(g, lh, new, x)
  <2>1. \A k, l \in 1 .. M + 1 : k < l => g[k] < g[l]
    <3>1. SUFFICES ASSUME NEW k \in 1 .. M + 1, NEW l \in 1 .. M + 1, k < l
                   PROVE  g[k] < g[l]
      OBVIOUS
    <3>2. k \in 1 .. M
      BY <1>2, <3>1
    <3> QED
      BY <1>4, <1>5, <1>7, <1>8, <3>1, <3>2
  <2>2. ASSUME NEW k \in 1 .. M + 1
        PROVE  lh[g[k]].id = x /\ lh[g[k]].admitted /\ lh[g[k]].at = new[k]
    <3>1. CASE k = M + 1
      <4>1. lh[g[k]] = e /\ new[k] = e.at
        BY <1>3, <1>4, <1>8, <3>1
      <4> QED
        BY <4>1
    <3>2. CASE k \in 1 .. M
      <4>1. g[k] = f[k] /\ new[k] = c[k]
        BY <1>3, <1>8, <3>2
      <4> QED
        BY <1>5, <3>2, <4>1
    <3> QED
      BY <1>7, <3>1, <3>2
  <2> QED
    BY <1>3, <1>9, <2>1, <2>2 DEF Stands
<1>11. ASSUME \/ Complete(h, lg, b, x, t)
              \/ \A i \in 1 .. N : lg[i].id = x => ~NoGap(lh, i),
              NEW i \in 1 .. N + 1, lh[i].id = x, lh[i].admitted, lh[i].at >= t, NoGap(lh, i)
       PROVE  \E k \in 1 .. M + 1 : g[k] = i
  <2>1. CASE i = N + 1
    BY <1>7, <1>8, <2>1
  <2>2. CASE i \in 1 .. N
    <3>1. Complete(h, lg, b, x, t)
      BY <1>4, <1>11, <2>2
    <3>2. PICK k \in 1 .. M : f[k] = i
      BY <1>1, <1>2, <1>11, <2>2, <3>1 DEF CompleteUpTo
    <3> QED
      BY <1>7, <1>8, <3>2
  <2> QED
    BY <1>4, <2>1, <2>2
<1>12. \/ Complete(h, lg, b, x, t)
       \/ \A i \in 1 .. N : lg[i].id = x => ~NoGap(lh, i)
       => Complete(g, lh, new, x, t)
  BY <1>3, <1>4, <1>11 DEF Complete
<1> QED
  BY <1>9, <1>10, <1>12

-------------------------------------------------------------------------------
(* Counting *)

\* A bucket that misses nothing is as long as any set of requests it must hold.
LEMMA BucketCountsAll ==
    ASSUME NEW lg, NEW b, NEW x, NEW h, NEW t, NEW S,
           Stands(h, lg, b, x) /\ Complete(h, lg, b, x, t) /\ b \in Seq(Times),
           \A i \in S : /\ i \in DOMAIN lg /\ lg[i].id = x /\ lg[i].admitted
                        /\ lg[i].at >= t /\ NoGap(lg, i)
    PROVE  IsFiniteSet(S) /\ Cardinality(S) \in Nat /\ Cardinality(S) <= Len(b)
<1>1. PICK L \in Nat : L = Len(b) /\ DOMAIN b = 1 .. L
  OBVIOUS
<1> DEFINE I == 1 .. L
           H == {h[k] : k \in I}
<1>2. h \in Surjection(I, H)
  BY <1>1 DEF Stands, Surjection
<1>3. IsFiniteSet(I) /\ Cardinality(I) = L
  <2>1. IsFiniteSet(I) /\ Cardinality(I) = IF 1 > L THEN 0 ELSE L - 1 + 1
    BY FS_Interval
  <2> QED
    BY <2>1
<1>4. S \in SUBSET H
  BY <1>1 DEF Complete
<1> HIDE DEF I, H
<1>5. IsFiniteSet(H) /\ Cardinality(H) <= L
  BY <1>2, <1>3, FS_Surjection
<1>6. IsFiniteSet(S) /\ Cardinality(S) <= Cardinality(H)
  BY <1>4, <1>5, FS_Subset
<1>7. Cardinality(S) \in Nat /\ Cardinality(H) \in Nat
  BY <1>5, <1>6, FS_CardinalityType
<1> QED
  BY <1>1, <1>5, <1>6, <1>7

\* A set with a request for every time of a bucket is as large.
LEMMA BucketCountsOnce ==
    ASSUME NEW lg, NEW b, NEW x, NEW h, NEW S,
           Stands(h, lg, b, x) /\ b \in Seq(Times) /\ IsFiniteSet(S) /\ DOMAIN lg \in SUBSET Int,
           \A k \in DOMAIN b : h[k] \in S
    PROVE  Cardinality(S) \in Nat /\ Len(b) <= Cardinality(S)
<1>1. PICK L \in Nat : L = Len(b) /\ DOMAIN b = 1 .. L
  OBVIOUS
<1> DEFINE I == 1 .. L
<1>2. \A k, l \in I : h[k] = h[l] => k = l
  <2>1. SUFFICES ASSUME NEW k \in I, NEW l \in I, k < l  PROVE h[k] # h[l]
    BY <1>1
  <2>2. h[k] < h[l]
    BY <1>1, <2>1 DEF Stands
  <2>3. ~(h[k] < h[k])
    <3>1. h[k] \in Int
      BY <1>1 DEF Stands
    <3>2. \A v \in Int : ~(v < v)
      OBVIOUS
    <3> QED
      BY <3>1, <3>2
  <2> QED
    BY <2>2, <2>3
<1>3. h \in Injection(I, S)
  <2>1. h \in [I -> S]
    BY <1>1 DEF Stands
  <2> QED
    BY <1>2, <2>1 DEF Injection, IsInjective
<1>4. Cardinality(I) = L
  <2>1. Cardinality(I) = IF 1 > L THEN 0 ELSE L - 1 + 1
    BY FS_Interval
  <2> QED
    BY <2>1
<1> HIDE DEF I
<1> QED
  BY <1>1, <1>3, <1>4, FS_Injection, FS_CardinalityType

-------------------------------------------------------------------------------
(* The rate limit *)

\* LimitPerWindow and RefusedOnlyWhenFull, for a log lg.
LimitBetween(lg, limit, m, n) ==
    LET own == {i \in m .. n : lg[i].id = lg[m].id}
    IN  /\ m <= n /\ lg[n].id = lg[m].id
        /\ lg[n].at - lg[m].at <= Window
        /\ Cardinality({i \in m .. n : lg[i].id = lg[m].id /\ lg[i].admitted}) > limit
        => \E i, j \in own : i < j /\ own \cap i + 1 .. j - 1 = {} /\ Far(lg, i, j)

FullAt(lg, limit, n) ==
    ~lg[n].admitted =>
        Cardinality({i \in {j \in 1 .. n : lg[j].id = lg[n].id /\ lg[j].admitted} :
                         lg[n].at - lg[i].at <= Window})
            >= limit

\* The two properties, of the log as it is ...
LEMMA LimitsOfTheLog ==
    /\ LimitPerWindow <=> \A m, n \in DOMAIN log : LimitBetween(log, config.limit, m, n)
    /\ RefusedOnlyWhenFull <=> \A n \in DOMAIN log : FullAt(log, config.limit, n)
<1>1. LimitPerWindow <=> \A m, n \in DOMAIN log : LimitBetween(log, config.limit, m, n)
  BY Zenon DEF LimitPerWindow, LimitBetween, AdmittedIn, Forgettable, Far
<1>2. RefusedOnlyWhenFull <=> \A n \in DOMAIN log : FullAt(log, config.limit, n)
  BY Zenon DEF RefusedOnlyWhenFull, FullAt, AdmittedIn
<1> QED
  BY <1>1, <1>2

\* ... and as it will be.
LEMMA LimitsOfTheNextLog ==
    /\ LimitPerWindow' <=>
          \A m, n \in DOMAIN log' : LimitBetween(log', config'.limit, m, n)
    /\ RefusedOnlyWhenFull' <=> \A n \in DOMAIN log' : FullAt(log', config'.limit, n)
<1>1. LimitPerWindow' <=>
        \A m, n \in DOMAIN log' : LimitBetween(log', config'.limit, m, n)
  BY Zenon DEF LimitPerWindow, LimitBetween, AdmittedIn, Forgettable, Far
<1>2. RefusedOnlyWhenFull' <=> \A n \in DOMAIN log' : FullAt(log', config'.limit, n)
  BY Zenon DEF RefusedOnlyWhenFull, FullAt, AdmittedIn
<1> QED
  BY <1>1, <1>2

\* Nothing is claimed of two requests in reverse.
LEMMA BackwardPairs ==
    ASSUME NEW lg, NEW limit, NEW N \in Nat, NEW n \in 1 .. N
    PROVE  LimitBetween(lg, limit, N + 1, n)
<1>1. ~(N + 1 <= n)
  OBVIOUS
<1> QED
  BY Zenon, <1>1 DEF LimitBetween

\* What holds of the limits in a log holds in a longer one.
LEMMA LimitsStay ==
    ASSUME NEW new, NEW old, NEW N, NEW e, Longer(new, old, N, e), NEW limit,
           NEW m \in 1 .. N, NEW n \in 1 .. N
    PROVE  /\ LimitBetween(old, limit, m, n) => LimitBetween(new, limit, m, n)
           /\ FullAt(old, limit, n) => FullAt(new, limit, n)
<1>1. N \in Nat /\ \A i \in 1 .. N : new[i] = old[i]
  BY DEF Longer
<1>2. (\A i \in m .. n : i \in 1 .. N) /\ (\A i \in 1 .. n : i \in 1 .. N)
  BY <1>1
<1>3. ASSUME LimitBetween(old, limit, m, n)  PROVE LimitBetween(new, limit, m, n)
  <2>1. PICK own : own = {i \in m .. n : old[i].id = old[m].id}
    OBVIOUS
  <2>2. PICK own2 : own2 = {i \in m .. n : new[i].id = new[m].id}
    OBVIOUS
  <2>3. own2 = own /\ \A i \in own : i \in 1 .. N
    BY <1>1, <1>2, <2>1, <2>2
  <2>4. {i \in m .. n : new[i].id = new[m].id /\ new[i].admitted}
          = {i \in m .. n : old[i].id = old[m].id /\ old[i].admitted}
    BY <1>1, <1>2
  <2>5. SUFFICES ASSUME m <= n, new[n].id = new[m].id, new[n].at - new[m].at <= Window,
                        Cardinality({i \in m .. n : new[i].id = new[m].id /\ new[i].admitted})
                            > limit
                 PROVE  \E i, j \in own2 :
                            i < j /\ own2 \cap i + 1 .. j - 1 = {} /\ Far(new, i, j)
    BY Zenon, <2>2 DEF LimitBetween
  <2>6. old[n].id = old[m].id /\ old[n].at - old[m].at <= Window
    BY <1>1, <2>5
  <2>7. Cardinality({i \in m .. n : old[i].id = old[m].id /\ old[i].admitted}) > limit
    BY Zenon, <2>4, <2>5
  <2>8. PICK i \in own, j \in own : i < j /\ own \cap i + 1 .. j - 1 = {} /\ Far(old, i, j)
    BY Zenon, <1>3, <2>1, <2>5, <2>6, <2>7 DEF LimitBetween
  <2>9. Far(new, i, j)
    BY <2>3, <2>8, BetweenStays
  <2> QED
    BY <2>3, <2>8, <2>9
<1>4. ASSUME FullAt(old, limit, n)  PROVE FullAt(new, limit, n)
  <2>1. {i \in {j \in 1 .. n : new[j].id = new[n].id /\ new[j].admitted} :
             new[n].at - new[i].at <= Window}
          = {i \in {j \in 1 .. n : old[j].id = old[n].id /\ old[j].admitted} :
             old[n].at - old[i].at <= Window}
    BY <1>1, <1>2
  <2>2. new[n] = old[n]
    BY <1>1
  <2> QED
    BY Zenon, <1>4, <2>1, <2>2 DEF FullAt
<1> QED
  BY <1>3, <1>4

\* The times of a log are in Times, and ascend.
Ascending(lg, N) ==
    /\ \A m \in 1 .. N : lg[m].at \in Int
    /\ \A m, n \in 1 .. N : m <= n => lg[m].at <= lg[n].at

\* The limit up to a new request, if the bucket is complete after it.
LEMMA LimitToTheLast ==
    ASSUME NEW new, NEW N, NEW c, NEW g, NEW limit, NEW m \in 1 .. N + 1,
           /\ N \in Nat /\ DOMAIN new = 1 .. N + 1 /\ Ascending(new, N + 1)
           /\ Stands(g, new, c, new[N + 1].id) /\ c \in Seq(Times)
           /\ Complete(g, new, c, new[N + 1].id, new[N + 1].at - Window)
           /\ limit \in Int /\ Len(c) <= limit
    PROVE  LimitBetween(new, limit, m, N + 1)
<1>1. PICK x, t : x = new[N + 1].id /\ t = new[N + 1].at - Window
  OBVIOUS
<1> DEFINE own == {i \in m .. N + 1 : new[i].id = new[m].id}
           S == {i \in m .. N + 1 : new[i].id = new[m].id /\ new[i].admitted}
           Gap == \E i, j \in own : i < j /\ own \cap i + 1 .. j - 1 = {} /\ Far(new, i, j)
<1>2. SUFFICES ASSUME new[m].id = x, new[N + 1].at - new[m].at <= Window,
                      Cardinality(S) > limit, ~Gap
               PROVE  FALSE
  BY Zenon, <1>1 DEF LimitBetween
<1>3. \A i \in m .. N + 1 : i \in 1 .. N + 1 /\ m <= i
  OBVIOUS
<1>4. ASSUME NEW i \in m .. N + 1, new[i].id = x  PROVE NoGap(new, i)
  <2>1. SUFFICES ASSUME NEW p \in DOMAIN new, NEW q \in DOMAIN new,
                        i <= p, new[p].id = x, NextTo(new, p, q), Far(new, p, q)
                 PROVE  FALSE
    BY <1>4 DEF NoGap
  <2>2. p \in m .. N + 1 /\ q \in m .. N + 1 /\ p < q /\ new[q].id = x
        /\ \A k \in p + 1 .. q - 1 : new[k].id # x
    BY <1>3, <2>1 DEF NextTo
  <2>3. p \in own /\ q \in own
    BY <1>2, <2>1, <2>2
  <2>4. own \cap p + 1 .. q - 1 = {}
    BY <1>2, <2>2
  <2> HIDE DEF own
  <2> QED
    BY <1>2, <2>1, <2>2, <2>3, <2>4
<1>5. ASSUME NEW i \in m .. N + 1  PROVE new[i].at >= t
  <2>1. /\ new[m].at <= new[i].at /\ new[m].at \in Int /\ new[i].at \in Int
        /\ new[N + 1].at \in Int
    BY <1>3 DEF Ascending
  <2> QED
    BY <1>1, <1>2, <2>1, GatewayAssumption
<1>6. \A i \in S : /\ i \in DOMAIN new /\ new[i].id = x /\ new[i].admitted
                   /\ new[i].at >= t /\ NoGap(new, i)
  BY <1>2, <1>3, <1>4, <1>5
<1>7. Stands(g, new, c, x) /\ Complete(g, new, c, x, t) /\ c \in Seq(Times)
  BY <1>1
<1> HIDE DEF S
<1>8. Cardinality(S) \in Nat /\ Cardinality(S) <= Len(c)
  BY <1>6, <1>7, BucketCountsAll
<1> QED
  BY <1>2, <1>8

\* A refused request has a bucket full of recent ones before it.
LEMMA RefusedWhenFull ==
    ASSUME NEW new, NEW N, NEW c, NEW g, NEW limit,
           /\ N \in Nat /\ DOMAIN new = 1 .. N + 1 /\ Ascending(new, N + 1)
           /\ Stands(g, new, c, new[N + 1].id) /\ c \in Seq(Times)
           /\ c # <<>> => c[1] >= new[N + 1].at - Window
           /\ limit \in Int /\ Len(c) >= limit
    PROVE  FullAt(new, limit, N + 1)
<1>1. PICK L \in Nat : L = Len(c) /\ DOMAIN c = 1 .. L
  OBVIOUS
<1> DEFINE A == {j \in 1 .. N + 1 : new[j].id = new[N + 1].id /\ new[j].admitted}
           S == {i \in A : new[N + 1].at - new[i].at <= Window}
<1>2. \A k \in 1 .. L : g[k] \in S
  <2>1. SUFFICES ASSUME NEW k \in 1 .. L  PROVE g[k] \in S
    OBVIOUS
  <2>2. g[k] \in 1 .. N + 1 /\ g[1] \in 1 .. N + 1 /\ 1 \in 1 .. L
    BY <1>1 DEF Stands
  <2>3. g[k] \in A /\ new[g[1]].at = c[1]
    BY <1>1, <2>2 DEF Stands
  <2>4. g[1] <= g[k]
    <3>1. k = 1 \/ 1 < k
      BY <1>1
    <3>2. 1 < k => g[1] < g[k]
      BY <1>1, <2>2 DEF Stands
    <3> QED
      BY <2>2, <3>1, <3>2
  <2>5. new[g[1]].at <= new[g[k]].at /\ new[g[1]].at \in Int /\ new[g[k]].at \in Int
        /\ new[N + 1].at \in Int
    BY <2>2, <2>4 DEF Ascending
  <2>6. c[1] >= new[N + 1].at - Window
    BY <1>1
  <2>7. new[N + 1].at - new[g[k]].at <= Window
    BY <2>3, <2>5, <2>6, GatewayAssumption
  <2> QED
    BY <2>3, <2>7
<1>3. IsFiniteSet(S)
  <2>1. S \in SUBSET (1 .. N + 1) /\ IsFiniteSet(1 .. N + 1)
    BY FS_Interval
  <2> HIDE DEF S
  <2> QED
    BY <2>1, FS_Subset
<1>4. Cardinality(S) \in Nat /\ Len(c) <= Cardinality(S)
  <2> HIDE DEF S
  <2>1. Stands(g, new, c, new[N + 1].id) /\ c \in Seq(Times) /\ IsFiniteSet(S)
        /\ DOMAIN new \in SUBSET Int
    BY <1>3
  <2>2. \A k \in DOMAIN c : g[k] \in S
    BY <1>1, <1>2
  <2> QED
    BY <2>1, <2>2, BucketCountsOnce
<1>5. Cardinality(S) >= limit
  BY <1>1, <1>4
<1> QED
  BY Zenon, <1>5 DEF FullAt

-------------------------------------------------------------------------------
(* The steps *)

\* With empty counters, there is nothing to remember.
LEMMA InitInv == Init => GatewayInv
<1> SUFFICES ASSUME Init  PROVE GatewayInv
  OBVIOUS
<1> USE GatewayAssumption
<1>1. TypeOK
  <2>1. order \in Seq(Identities) /\ IsInjective(order)
    BY DEF Init, IsInjective
  <2>2. log \in Seq([id : Identities, at : 0 .. MaxTime, admitted : BOOLEAN])
    BY DEF Init
  <2>3. bucket \in [Identities -> Seq(0 .. MaxTime)] /\ clock \in 0 .. MaxTime
    BY DEF Init
  <2> QED
    BY <2>1, <2>2, <2>3 DEF TypeOK, Init
<1>2. Bounded
  BY DEF Bounded, Init
<1>3. PICK lg : lg = log /\ lg = <<>> /\ DOMAIN lg = {}
  BY DEF Init
<1>4. TimesAscend /\ InOrderOfUse /\ ForgottenForOthers
  BY <1>3 DEF TimesAscend, InOrderOfUse, ForgottenForOthers
<1>5. Remembered
  <2>1. SUFFICES ASSUME NEW x \in Identities
                 PROVE  \E h \in [DOMAIN bucket[x] -> DOMAIN log] :
                          /\ Stands(h, log, bucket[x], x)
                          /\ Contains(order, x) =>
                                Complete(h, log, bucket[x], x, clock - Window)
    BY Zenon DEF Remembered
  <2>2. PICK b : b = bucket[x] /\ b = <<>> /\ DOMAIN b = {}
    BY DEF Init
  <2>3. <<>> \in [DOMAIN b -> DOMAIN lg]
    BY <1>3, <2>2
  <2>4. Stands(<<>>, lg, b, x) /\ Complete(<<>>, lg, b, x, clock - Window)
    BY <1>3, <2>2, <2>3 DEF Stands, Complete
  <2> QED
    BY <1>3, <2>2, <2>3, <2>4
<1>6. LimitPerWindow /\ RefusedOnlyWhenFull
  BY <1>3, LimitsOfTheLog
<1> QED
  BY <1>1, <1>2, <1>4, <1>5, <1>6 DEF GatewayInv

\* The log after a request.
LEMMA SeenLogs ==
    ASSUME TypeOK, TimesAscend, NEW x \in Identities, NEW ok \in BOOLEAN, NEW N, NEW e,
           /\ N = Len(log) /\ e = [id |-> x, at |-> clock, admitted |-> ok]
           /\ log' = Append(log, e) /\ clock' = clock
    PROVE  /\ Longer(log', log, N, e) /\ Ascending(log', N + 1) /\ TimesAscend'
           /\ e \in LogEntry /\ log' \in Seq(LogEntry)
<1>1. PICK lg, lh, t : lg = log /\ lh = log' /\ t = clock
  OBVIOUS
<1>2. e \in LogEntry /\ lg \in Seq(LogEntry) /\ t \in 0 .. MaxTime
  BY <1>1 DEF TypeOK, LogEntry
<1>3. /\ N \in Nat /\ DOMAIN lg = 1 .. N /\ DOMAIN lh = 1 .. N + 1 /\ lh \in Seq(LogEntry)
      /\ lh[N + 1] = e /\ \A i \in 1 .. N : lh[i] = lg[i]
  BY <1>1, <1>2
<1>4. Longer(lh, lg, N, e)
  BY <1>3 DEF Longer
<1>5. /\ \A m, n \in 1 .. N : m <= n => lg[m].at <= lg[n].at
      /\ \A m \in 1 .. N : lg[m].at <= t
  BY <1>1, <1>3 DEF TimesAscend
<1>6. /\ \A i \in 1 .. N + 1 : i = N + 1 \/ (i \in 1 .. N /\ i < N + 1)
      /\ lh[N + 1].at = t /\ t \in Int /\ t <= t
  BY <1>1, <1>2, <1>3, GatewayAssumption
<1>7. \A m \in 1 .. N + 1 : lh[m].at <= t /\ lh[m].at \in Int
  <2>1. \A m \in 1 .. N + 1 : lh[m].at \in 0 .. MaxTime
    <3>1. \A m \in 1 .. N + 1 : lh[m] \in LogEntry
      BY <1>3
    <3> QED
      BY <3>1 DEF LogEntry
  <2> QED
    BY <1>3, <1>5, <1>6, <2>1, GatewayAssumption
<1>8. \A m, n \in 1 .. N + 1 : m <= n => lh[m].at <= lh[n].at
  <2>1. SUFFICES ASSUME NEW m \in 1 .. N + 1, NEW n \in 1 .. N + 1, m <= n
                 PROVE  lh[m].at <= lh[n].at
    OBVIOUS
  <2>2. CASE n = N + 1
    BY <1>6, <1>7, <2>2
  <2>3. CASE n # N + 1
    <3>1. m \in 1 .. N /\ n \in 1 .. N
      BY <1>3, <1>6, <2>1, <2>3
    <3> QED
      BY <1>3, <1>5, <2>1, <3>1
  <2> QED
    BY <2>2, <2>3
<1>9. Ascending(lh, N + 1)
  BY <1>7, <1>8 DEF Ascending
<1>10. TimesAscend'
  BY <1>1, <1>3, <1>7, <1>8 DEF TimesAscend
<1> QED
  BY <1>1, <1>2, <1>3, <1>4, <1>9, <1>10

\* What an identity has in the table stays true when another asks.
LEMMA BystandersRemembered ==
    ASSUME NEW lh, NEW lg, NEW N, NEW e, NEW b, NEW y, NEW h, NEW t,
           /\ Longer(lh, lg, N, e) /\ Stands(h, lg, b, y) /\ b \in Seq(Times)
           /\ t \in Int /\ e.id # y
    PROVE  \E g \in [DOMAIN b -> DOMAIN lh] :
             /\ Stands(g, lh, b, y)
             /\ Complete(h, lg, b, y, t) => Complete(g, lh, b, y, t)
<1>1. Suffix(b, b, 0) /\ \A k \in 1 .. 0 : b[k] < t
  BY DEF Suffix
<1>2. Carried(lh, lg, N, e, b, b, 0, y, h, t) /\ (e.id # y \/ ~e.admitted)
  BY <1>1 DEF Carried
<1> QED
  BY <1>2, OthersRemembered

\* What is remembered of x, for a log lg, a list b, and x in the table or not.
Recalled(h, lg, b, x, in, t) ==
    /\ h \in [DOMAIN b -> DOMAIN lg]
    /\ Stands(h, lg, b, x)
    /\ in => Complete(h, lg, b, x, t)

\* Remembered, said with Recalled.
LEMMA RememberedIsRecalled ==
    Remembered <=>
        \A x \in Identities : \E h :
            Recalled(h, log, bucket[x], x, Contains(order, x), clock - Window)
  BY Zenon DEF Remembered, Recalled

\* Who is in the table after a use of it.
LEMMA KeptInTable ==
    ASSUME NEW o \in Seq(Identities), NEW p, NEW x, UsedLast(p, o, x), NEW y
    PROVE  /\ Contains(p, y) => y = x \/ Contains(o, y)
           /\ Contains(o, x) => (Contains(o, y) => Contains(p, y))
<1>1. DOMAIN o = 1 .. Len(o) /\ DOMAIN p = 1 .. Len(p) /\ Contains(p, x)
  BY DEF UsedLast
<1>2. ASSUME Contains(p, y), y # x  PROVE Contains(o, y)
  <2>1. PICK k \in DOMAIN p : p[k] = y
    BY <1>1, <1>2 DEF Contains
  <2>2. PICK m \in DOMAIN o : o[m] = y
    BY <1>2, <2>1 DEF UsedLast
  <2> QED
    BY <1>1, <2>2 DEF Contains
<1>3. ASSUME Contains(o, x), Contains(o, y)  PROVE Contains(p, y)
  <2>1. PICK m \in DOMAIN o : o[m] = y
    BY <1>1, <1>3 DEF Contains
  <2> QED
    BY <1>3, <2>1 DEF UsedLast
<1> QED
  BY <1>2, <1>3

\* A refused request.
LEMMA RefuseKeepsInv ==
    ASSUME GatewayInv, NEW r \in Requests, Refuse(r)
    PROVE  GatewayInv'
<1> USE DEF GatewayInv
<1>a. PICK x \in Identities, ok \in BOOLEAN : x = Identity(r) /\ ok = FALSE
  BY DEF Identities
<1>1. PICK N, e, limit :
        /\ x = Identity(r) /\ ok = FALSE /\ N = Len(log) /\ limit = config.limit
        /\ e = [id |-> x, at |-> clock, admitted |-> ok]
  BY <1>a
<1>2. /\ limit > 0 /\ limit \in Int /\ Len(Fresh(x)) >= limit
      /\ order' = MovedToEnd(x)
      /\ bucket' = [bucket EXCEPT ![x] = Fresh(x)]
      /\ answer' = [request |-> r, on_behalf_of |-> {}, status |-> 429]
      /\ log' = Append(log, e) /\ clock' = clock /\ config' = config
  BY <1>1, GatewayAssumption DEF Refuse, Seen, TypeOK
<1>3. PICK lg, lh, t, b, c, o, p :
        /\ lg = log /\ lh = log' /\ t = clock - Window /\ b = bucket[x] /\ c = Fresh(x)
        /\ o = order /\ p = order'
  OBVIOUS
<1>4. t \in Int /\ b \in Seq(Times) /\ e.at - Window = t
  BY <1>1, <1>3, GatewayAssumption DEF TypeOK, Times
<1>5. /\ Longer(lh, lg, N, e) /\ Ascending(lh, N + 1) /\ TimesAscend'
      /\ e \in LogEntry /\ lh \in Seq(LogEntry)
  <2>1. /\ N = Len(log) /\ e = [id |-> x, at |-> clock, admitted |-> ok]
        /\ log' = Append(log, e) /\ clock' = clock
    BY <1>1, <1>2
  <2> QED
    BY <1>3, <2>1, SeenLogs
<1>6. /\ N \in Nat /\ DOMAIN lg = 1 .. N /\ DOMAIN lh = 1 .. N + 1 /\ lh[N + 1] = e
      /\ e.id = x /\ e.at = clock /\ ~e.admitted
  BY <1>1, <1>5 DEF Longer
<1>7. PICK d \in Nat : Suffix(c, b, d) /\ DropsOld(b, d, t)
  BY <1>3, FreshDropsOld
<1>8. /\ c \in Seq(Times) /\ Len(c) <= Len(b) /\ Len(c) \in Nat
      /\ Len(b) <= limit /\ Len(c) >= limit /\ b # <<>>
  <2>1. c \in Seq(Times) /\ Len(b) \in Nat /\ d \in 0 .. Len(b) /\ Len(c) = Len(b) - d
    BY <1>7 DEF Suffix
  <2>2. Len(b) <= limit /\ Len(c) >= limit
    BY <1>1, <1>2, <1>3 DEF Bounded
  <2> QED
    BY <1>2, <1>7, <2>1, <2>2
<1>9. Contains(order, x)
  BY <1>3, <1>8 DEF Bounded
<1>10. UsedLast(p, o, x)
  BY <1>2, <1>3, <1>9, MoveUses
<1>11. \A y \in Identities : Contains(o, y) <=> Contains(p, y)
  BY <1>3, <1>9, <1>10, KeptInTable DEF TypeOK
<1>12. \A y \in Identities : bucket'[y] = IF y = x THEN c ELSE bucket[y]
  BY <1>2, <1>3 DEF TypeOK
<1>13. TypeOK'
  <2>1. order' \in Seq(Identities) /\ IsInjective(order')
    BY <1>3, <1>10 DEF UsedLast
  <2>2. bucket' \in [Identities -> Seq(0 .. MaxTime)]
    BY <1>2, <1>3, <1>8 DEF TypeOK, Times
  <2>3. answer'.request \in Requests /\ answer'.status \in Statuses
    BY <1>2 DEF Statuses
  <2> QED
    BY <1>2, <1>3, <1>5, <2>1, <2>2, <2>3 DEF TypeOK, LogEntry
<1>14. Bounded'
  <2>1. Len(p) <= MaxTracked
    BY <1>10 DEF UsedLast
  <2>2. ASSUME NEW y \in Identities
        PROVE  /\ Len(bucket'[y]) <= limit
               /\ bucket'[y] # <<>> => Contains(p, y)
    <3>1. /\ Len(bucket[y]) <= limit
          /\ bucket[y] # <<>> => Contains(o, y)
      BY <1>1, <1>2, <1>3 DEF Bounded
    <3>2. CASE y = x
      <4>1. bucket'[y] = c
        BY <1>12, <3>2
      <4>2. Len(b) \in Nat
        BY <1>4
      <4> QED
        BY <1>2, <1>3, <1>8, <1>9, <1>11, <3>2, <4>1, <4>2
    <3>3. CASE y # x
      BY <1>11, <1>12, <3>1, <3>3
    <3> QED
      BY <3>2, <3>3
  <2> QED
    BY <1>1, <1>2, <1>3, <2>1, <2>2 DEF Bounded
<1>15. InOrderOfUse' /\ ForgottenForOthers'
  BY <1>3, <1>5, <1>6, <1>10, TableKept
<1>16. PICK h : Recalled(h, lg, b, x, TRUE, t)
  BY <1>3, <1>9, RememberedIsRecalled
<1>17. PICK g \in [DOMAIN c -> DOMAIN lh] :
         Stands(g, lh, c, x) /\ Complete(g, lh, c, x, t)
  <2>1. Carried(lh, lg, N, e, b, c, d, x, h, t) /\ (e.id # x \/ ~e.admitted)
    BY <1>4, <1>5, <1>6, <1>7, <1>16 DEF Carried, Recalled, DropsOld
  <2> QED
    BY <1>16, <2>1, OthersRemembered DEF Recalled
<1>18. Remembered'
  <2>1. SUFFICES ASSUME NEW y \in Identities
                 PROVE  \E f \in [DOMAIN bucket'[y] -> DOMAIN lh] :
                          /\ Stands(f, lh, bucket'[y], y)
                          /\ Contains(p, y) => Complete(f, lh, bucket'[y], y, t)
    BY <1>2, <1>3 DEF Remembered
  <2>2. CASE y = x
    BY <1>12, <1>17, <2>2
  <2>3. CASE y # x
    <3>1. PICK a, s : a = bucket[y] /\ s = Contains(o, y) /\ a \in Seq(Times)
      BY DEF TypeOK, Times
    <3>2. PICK f : Recalled(f, lg, a, y, s, t)
      BY <1>3, <3>1, RememberedIsRecalled
    <3>3. /\ Longer(lh, lg, N, e) /\ Stands(f, lg, a, y) /\ a \in Seq(Times)
          /\ t \in Int /\ e.id # y
      BY <1>4, <1>5, <1>6, <2>3, <3>1, <3>2 DEF Recalled
    <3>4. PICK f2 \in [DOMAIN a -> DOMAIN lh] :
            /\ Stands(f2, lh, a, y)
            /\ Complete(f, lg, a, y, t) => Complete(f2, lh, a, y, t)
      BY <3>3, BystandersRemembered
    <3> QED
      BY <1>11, <1>12, <2>3, <3>1, <3>2, <3>4 DEF Recalled
  <2> QED
    BY <2>2, <2>3
<1>19. LimitPerWindow' /\ RefusedOnlyWhenFull'
  <2>1. /\ \A m, n \in 1 .. N : LimitBetween(lg, limit, m, n)
        /\ \A n \in 1 .. N : FullAt(lg, limit, n)
    BY <1>1, <1>3, <1>6, LimitsOfTheLog
  <2>2. /\ \A m, n \in 1 .. N : LimitBetween(lh, limit, m, n)
        /\ \A n \in 1 .. N : FullAt(lh, limit, n)
    BY <1>5, <2>1, LimitsStay
  <2>3. FullAt(lh, limit, N + 1)
    <3>1. c # <<>> => c[1] >= lh[N + 1].at - Window
      <4>1. d < Len(b) => b[d + 1] >= t
        BY <1>7 DEF DropsOld
      <4>2. c # <<>> => 1 \in 1 .. Len(c) /\ c[1] = b[1 + d] /\ d < Len(b)
        BY <1>7, <1>8 DEF Suffix
      <4> QED
        BY <1>4, <1>6, <4>1, <4>2
    <3>2. /\ N \in Nat /\ DOMAIN lh = 1 .. N + 1 /\ Ascending(lh, N + 1)
          /\ Stands(g, lh, c, lh[N + 1].id) /\ c \in Seq(Times)
          /\ c # <<>> => c[1] >= lh[N + 1].at - Window
          /\ limit \in Int /\ Len(c) >= limit
      BY <1>2, <1>5, <1>6, <1>8, <1>17, <3>1
    <3> QED
      BY <3>2, RefusedWhenFull
  <2>4. \A m \in 1 .. N + 1 : LimitBetween(lh, limit, m, N + 1)
    <3>1. /\ N \in Nat /\ DOMAIN lh = 1 .. N + 1 /\ Ascending(lh, N + 1)
          /\ Stands(g, lh, c, lh[N + 1].id) /\ c \in Seq(Times)
          /\ Complete(g, lh, c, lh[N + 1].id, lh[N + 1].at - Window)
          /\ limit \in Int /\ Len(c) <= limit
      <4>1. Len(c) <= limit
        <5>1. Len(b) \in Nat
          BY <1>4
        <5> QED
          BY <1>2, <1>8, <5>1
      <4> QED
        BY <1>2, <1>4, <1>5, <1>6, <1>8, <1>17, <4>1
    <3> QED
      BY <3>1, LimitToTheLast
  <2>5. \A m, n \in 1 .. N + 1 : LimitBetween(lh, limit, m, n)
    <3>1. \A n \in 1 .. N : LimitBetween(lh, limit, N + 1, n)
      BY <1>6, BackwardPairs
    <3>2. \A n \in 1 .. N + 1 : n = N + 1 \/ n \in 1 .. N
      BY <1>6
    <3> QED
      BY <2>2, <2>4, <3>1, <3>2
  <2>6. \A n \in 1 .. N + 1 : FullAt(lh, limit, n)
    BY <1>6, <2>2, <2>3
  <2> QED
    BY <1>1, <1>2, <1>3, <1>6, <2>5, <2>6, LimitsOfTheNextLog
<1> QED
  BY <1>5, <1>13, <1>14, <1>15, <1>18, <1>19

\* An admitted request.
LEMMA AdmitKeepsInv ==
    ASSUME GatewayInv, NEW r \in Requests, Admit(r)
    PROVE  GatewayInv'
<1> USE DEF GatewayInv
<1>a. PICK x \in Identities, ok \in BOOLEAN : x = Identity(r) /\ ok = TRUE
  BY DEF Identities
<1>1. PICK N, e, limit :
        /\ x = Identity(r) /\ ok = TRUE /\ N = Len(log) /\ limit = config.limit
        /\ e = [id |-> x, at |-> clock, admitted |-> ok]
  BY <1>a
<1>2. PICK keys : keys = Kept(MovedToEnd(x))
  OBVIOUS
<1>3. /\ limit > 0 /\ limit \in Int /\ Len(Fresh(x)) < limit
      /\ order' = keys
      /\ bucket' = [y \in Identities |->
                       CASE ~Contains(keys, y) -> <<>>
                         [] y = x /\ Contains(keys, y) -> Append(Fresh(x), clock)
                         [] OTHER -> bucket[y]]
      /\ answer' = Served(r)
      /\ log' = Append(log, e) /\ clock' = clock /\ config' = config
  BY <1>1, <1>2, GatewayAssumption DEF Admit, Seen, TypeOK
<1>4. PICK lg, lh, t, b, c, o, new :
        /\ lg = log /\ lh = log' /\ t = clock - Window /\ b = bucket[x] /\ c = Fresh(x)
        /\ o = order /\ new = Append(c, clock)
  OBVIOUS
<1>5. t \in Int /\ b \in Seq(Times) /\ e.at - Window = t /\ clock \in Times
  BY <1>1, <1>4, GatewayAssumption DEF TypeOK, Times
<1>6. /\ Longer(lh, lg, N, e) /\ Ascending(lh, N + 1) /\ TimesAscend'
      /\ e \in LogEntry /\ lh \in Seq(LogEntry)
  <2>1. /\ N = Len(log) /\ e = [id |-> x, at |-> clock, admitted |-> ok]
        /\ log' = Append(log, e) /\ clock' = clock
    BY <1>1, <1>3
  <2> QED
    BY <1>4, <2>1, SeenLogs
<1>7. /\ N \in Nat /\ DOMAIN lg = 1 .. N /\ DOMAIN lh = 1 .. N + 1 /\ lh[N + 1] = e
      /\ e.id = x /\ e.at = clock /\ e.admitted
  BY <1>1, <1>6 DEF Longer
<1>8. PICK d \in Nat : Suffix(c, b, d) /\ DropsOld(b, d, t)
  BY <1>4, FreshDropsOld
<1>9. /\ c \in Seq(Times) /\ Len(c) \in Nat /\ new \in Seq(Times)
      /\ Len(new) = Len(c) + 1 /\ Len(new) <= limit
  <2>1. c \in Seq(Times) /\ Len(c) \in Nat
    BY <1>8 DEF Suffix
  <2> QED
    BY <1>3, <1>4, <1>5, <2>1
<1>10. UsedLast(keys, o, x)
  BY <1>2, <1>3, <1>4, MoveUses
<1>11. Contains(keys, x) /\ \A y \in Identities : Contains(keys, y) => y = x \/ Contains(o, y)
  <2>1. o \in Seq(Identities)
    BY <1>4 DEF TypeOK
  <2> QED
    BY <1>10, <2>1, KeptInTable DEF UsedLast
<1>12. /\ bucket'[x] = new
       /\ \A y \in Identities : ~Contains(keys, y) => bucket'[y] = <<>>
       /\ \A y \in Identities : Contains(keys, y) /\ y # x => bucket'[y] = bucket[y]
  BY <1>3, <1>4, <1>11
<1>13. TypeOK'
  <2>1. order' \in Seq(Identities) /\ IsInjective(order')
    BY <1>3, <1>10 DEF UsedLast
  <2>2. bucket' \in [Identities -> Seq(0 .. MaxTime)]
    <3>1. \A y \in Identities : bucket'[y] \in Seq(Times)
      <4>1. SUFFICES ASSUME NEW y \in Identities  PROVE bucket'[y] \in Seq(Times)
        OBVIOUS
      <4>2. bucket[y] \in Seq(Times)
        BY DEF TypeOK, Times
      <4>3. <<>> \in Seq(Times)
        OBVIOUS
      <4> QED
        BY <1>9, <1>12, <4>2, <4>3
    <3> QED
      BY <1>3, <3>1 DEF Times
  <2>3. answer'.request \in Requests /\ answer'.status \in Statuses
    BY <1>3 DEF Statuses, Served
  <2> QED
    BY <1>3, <1>4, <1>6, <2>1, <2>2, <2>3 DEF TypeOK, LogEntry
<1>14. Bounded'
  <2>1. Len(keys) <= MaxTracked
    BY <1>10 DEF UsedLast
  <2>2. ASSUME NEW y \in Identities
        PROVE  /\ Len(bucket'[y]) <= limit
               /\ bucket'[y] # <<>> => Contains(keys, y)
    <3>1. Len(bucket[y]) <= limit
      BY <1>1, <1>3 DEF Bounded
    <3>2. CASE y = x
      BY <1>9, <1>11, <1>12, <3>2
    <3>3. CASE y # x /\ Contains(keys, y)
      BY <1>12, <3>1, <3>3
    <3>4. CASE ~Contains(keys, y)
      <4>1. bucket'[y] = <<>> /\ Len(<<>>) = 0
        BY <1>12, <3>4
      <4> QED
        BY <1>3, <4>1
    <3> QED
      BY <3>2, <3>3, <3>4
  <2> QED
    BY <1>1, <1>3, <2>1, <2>2 DEF Bounded
<1>15. InOrderOfUse' /\ ForgottenForOthers'
  BY <1>3, <1>4, <1>6, <1>7, <1>10, TableKept
<1>16. PICK h : Recalled(h, lg, b, x, Contains(o, x), t)
  BY <1>4, RememberedIsRecalled
<1>17. \/ Complete(h, lg, b, x, t)
       \/ \A i \in 1 .. N : lg[i].id = x => ~NoGap(lh, i)
  <2>1. CASE Contains(o, x)
    BY <1>16, <2>1 DEF Recalled
  <2>2. CASE ~Contains(o, x)
    <3>1. \A i \in 1 .. N : ~Contains(o, lg[i].id) =>
            /\ Len(o) = MaxTracked
            /\ \A k \in DOMAIN o : \E j \in 1 .. N : i < j /\ lg[j].id = o[k]
      BY <1>4, <1>7 DEF ForgottenForOthers
    <3>2. o \in Seq(Identities) /\ IsInjective(o) /\ ~Contains(o, e.id)
      BY <1>4, <1>7, <2>2 DEF TypeOK
    <3>3. \A i \in 1 .. N : lg[i].id = e.id => ~NoGap(lh, i)
      BY <1>6, <3>1, <3>2, ReturnAfterGap
    <3> QED
      BY <1>7, <3>3
  <2> QED
    BY <2>1, <2>2
<1>18. PICK g \in [DOMAIN new -> DOMAIN lh] :
         Stands(g, lh, new, x) /\ Complete(g, lh, new, x, t)
  <2>1. /\ Carried(lh, lg, N, e, b, c, d, x, h, t)
        /\ e.id = x /\ e.admitted /\ e.at \in Times /\ new = Append(c, e.at)
    BY <1>4, <1>5, <1>6, <1>7, <1>8, <1>16 DEF Carried, Recalled, DropsOld
  <2> QED
    BY <1>17, <2>1, OwnRemembered
<1>19. Remembered'
  <2>1. SUFFICES ASSUME NEW y \in Identities
                 PROVE  \E f \in [DOMAIN bucket'[y] -> DOMAIN lh] :
                          /\ Stands(f, lh, bucket'[y], y)
                          /\ Contains(keys, y) => Complete(f, lh, bucket'[y], y, t)
    BY <1>3, <1>4 DEF Remembered
  <2>2. CASE y = x
    BY <1>12, <1>18, <2>2
  <2>3. CASE y # x /\ Contains(keys, y)
    <3>1. PICK a, s : a = bucket[y] /\ s = Contains(o, y) /\ a \in Seq(Times)
      BY DEF TypeOK, Times
    <3>2. PICK f : Recalled(f, lg, a, y, s, t)
      BY <1>4, <3>1, RememberedIsRecalled
    <3>3. /\ Longer(lh, lg, N, e) /\ Stands(f, lg, a, y) /\ a \in Seq(Times)
          /\ t \in Int /\ e.id # y
      BY <1>5, <1>6, <1>7, <2>3, <3>1, <3>2 DEF Recalled
    <3>4. PICK f2 \in [DOMAIN a -> DOMAIN lh] :
            /\ Stands(f2, lh, a, y)
            /\ Complete(f, lg, a, y, t) => Complete(f2, lh, a, y, t)
      BY <3>3, BystandersRemembered
    <3> QED
      BY <1>11, <1>12, <2>3, <3>1, <3>2, <3>4 DEF Recalled
  <2>4. CASE ~Contains(keys, y)
    <3>1. PICK a : a = bucket'[y] /\ a = <<>> /\ DOMAIN a = {}
      BY <1>12, <2>4
    <3>2. <<>> \in [DOMAIN a -> DOMAIN lh] /\ Stands(<<>>, lh, a, y)
      BY <3>1 DEF Stands
    <3> QED
      BY <2>4, <3>1, <3>2
  <2> QED
    BY <2>2, <2>3, <2>4
<1>20. LimitPerWindow' /\ RefusedOnlyWhenFull'
  <2>1. /\ \A m, n \in 1 .. N : LimitBetween(lg, limit, m, n)
        /\ \A n \in 1 .. N : FullAt(lg, limit, n)
    BY <1>1, <1>4, <1>7, LimitsOfTheLog
  <2>2. /\ \A m, n \in 1 .. N : LimitBetween(lh, limit, m, n)
        /\ \A n \in 1 .. N : FullAt(lh, limit, n)
    BY <1>6, <2>1, LimitsStay
  <2>3. FullAt(lh, limit, N + 1)
    BY Zenon, <1>7 DEF FullAt
  <2>4. \A m \in 1 .. N + 1 : LimitBetween(lh, limit, m, N + 1)
    <3>1. /\ N \in Nat /\ DOMAIN lh = 1 .. N + 1 /\ Ascending(lh, N + 1)
          /\ Stands(g, lh, new, lh[N + 1].id) /\ new \in Seq(Times)
          /\ Complete(g, lh, new, lh[N + 1].id, lh[N + 1].at - Window)
          /\ limit \in Int /\ Len(new) <= limit
      BY <1>3, <1>5, <1>6, <1>7, <1>9, <1>18
    <3> QED
      BY <3>1, LimitToTheLast
  <2>5. \A m, n \in 1 .. N + 1 : LimitBetween(lh, limit, m, n)
    <3>1. \A n \in 1 .. N : LimitBetween(lh, limit, N + 1, n)
      BY <1>7, BackwardPairs
    <3>2. \A n \in 1 .. N + 1 : n = N + 1 \/ n \in 1 .. N
      BY <1>7
    <3> QED
      BY <2>2, <2>4, <3>1, <3>2
  <2>6. \A n \in 1 .. N + 1 : FullAt(lh, limit, n)
    <3>1. \A n \in 1 .. N + 1 : n = N + 1 \/ n \in 1 .. N
      BY <1>7
    <3> QED
      BY <2>2, <2>3, <3>1
  <2> QED
    BY <1>1, <1>3, <1>4, <1>7, <2>5, <2>6, LimitsOfTheNextLog
<1> QED
  BY <1>6, <1>13, <1>14, <1>15, <1>19, <1>20

TypesOfTimes(lg) == \A i \in DOMAIN lg : lg[i].at \in Int

\* The other steps: the log is the same, or empty again.
LEMMA OtherStepsKeepInv ==
    ASSUME GatewayInv,
           \/ Tick \/ Restart \/ UNCHANGED vars
           \/ \E r \in Requests : PassUnlimited(r)
    PROVE  GatewayInv'
<1> USE DEF GatewayInv
<1>1. CASE Restart
  <2>1. /\ order' = <<>> /\ bucket' = [x \in Identities |-> <<>>]
        /\ log' = <<>> /\ answer' = None /\ config' = config /\ clock' = clock
    BY <1>1 DEF Restart
  <2>2. PICK lh, p : lh = log' /\ DOMAIN lh = {} /\ p = order' /\ DOMAIN p = {} /\ p = <<>>
                     /\ Len(p) = 0
    BY <2>1
  <2>3. TypeOK'
    <3>1. order' \in Seq(Identities) /\ IsInjective(order')
      BY <2>1 DEF IsInjective
    <3>2. log' \in Seq([id : Identities, at : 0 .. MaxTime, admitted : BOOLEAN])
      BY <2>1
    <3>3. bucket' \in [Identities -> Seq(0 .. MaxTime)]
      BY <2>1
    <3> QED
      BY <2>1, <3>1, <3>2, <3>3 DEF TypeOK
  <2>4. Bounded'
    <3>1. Len(p) <= MaxTracked /\ \A x \in Identities : bucket'[x] = <<>> /\ Len(bucket'[x]) = 0
      BY <2>1, <2>2, GatewayAssumption
    <3>2. config.limit \in Int
      BY GatewayAssumption DEF TypeOK
    <3> QED
      BY <2>1, <2>2, <3>1, <3>2 DEF Bounded
  <2>5. TimesAscend' /\ InOrderOfUse' /\ ForgottenForOthers'
    BY <2>2 DEF TimesAscend, InOrderOfUse, ForgottenForOthers
  <2>6. Remembered'
    <3>1. SUFFICES ASSUME NEW x \in Identities
                   PROVE  \E h \in [DOMAIN bucket'[x] -> DOMAIN lh] :
                            /\ Stands(h, lh, bucket'[x], x)
                            /\ Contains(p, x) =>
                                  Complete(h, lh, bucket'[x], x, clock' - Window)
      BY <2>2 DEF Remembered
    <3>2. PICK b : b = bucket'[x] /\ b = <<>> /\ DOMAIN b = {}
      BY <2>1
    <3>3. <<>> \in [DOMAIN b -> DOMAIN lh]
      BY <3>2
    <3>4. Stands(<<>>, lh, b, x) /\ Complete(<<>>, lh, b, x, clock' - Window)
      BY <2>2, <3>2, <3>3 DEF Stands, Complete
    <3> QED
      BY <3>2, <3>3, <3>4
  <2>7. LimitPerWindow' /\ RefusedOnlyWhenFull'
    BY <2>2, LimitsOfTheNextLog
  <2> QED
    BY <2>3, <2>4, <2>5, <2>6, <2>7
<1>2. CASE Tick \/ UNCHANGED vars \/ \E r \in Requests : PassUnlimited(r)
  <2>1. /\ config' = config /\ order' = order /\ bucket' = bucket /\ log' = log
        /\ clock' \in 0 .. MaxTime /\ clock' >= clock
        /\ \/ answer' = answer
           \/ \E r \in Requests : answer' = Served(r)
    BY <1>2, GatewayAssumption DEF Tick, PassUnlimited, vars, TypeOK
  <2>2. TypeOK'
    <3>1. answer' # None => answer'.request \in Requests /\ answer'.status \in Statuses
      BY <2>1 DEF TypeOK, Statuses, Served
    <3> QED
      BY <2>1, <3>1 DEF TypeOK
  <2>3. Bounded' /\ InOrderOfUse' /\ ForgottenForOthers'
    BY <2>1 DEF Bounded, InOrderOfUse, ForgottenForOthers
  <2>4. LimitPerWindow' /\ RefusedOnlyWhenFull'
    BY <2>1, LimitsOfTheLog, LimitsOfTheNextLog
  <2>a. PICK t \in Int, u \in Int : t = clock /\ u = clock'
    BY <2>1, GatewayAssumption DEF TypeOK
  <2>5. PICK lg : t = clock /\ u = clock' /\ lg = log
    BY <2>a
  <2>6. TypesOfTimes(lg)
    <3>1. lg \in Seq(LogEntry)
      BY <2>5 DEF TypeOK, LogEntry
    <3>2. \A i \in DOMAIN lg : lg[i] \in LogEntry
      BY <3>1
    <3> QED
      BY <3>2, GatewayAssumption DEF TypesOfTimes, LogEntry
  <2>7. TimesAscend'
    <3>1. SUFFICES ASSUME NEW m \in DOMAIN lg  PROVE lg[m].at <= u
      BY <2>1, <2>5 DEF TimesAscend
    <3>2. lg[m].at <= t /\ lg[m].at \in Int /\ t <= u
      BY <2>1, <2>5, <2>6, <3>1 DEF TimesAscend, TypesOfTimes
    <3> QED
      BY <3>2
  <2>8. Remembered'
    <3>1. SUFFICES ASSUME NEW x \in Identities
                   PROVE  \E h : Recalled(h, lg, bucket[x], x, Contains(order, x), u - Window)
      BY Zenon, <2>1, <2>5 DEF Remembered, Recalled
    <3>2. PICK b, s : b = bucket[x] /\ s = Contains(order, x)
      OBVIOUS
    <3>3. PICK h : Recalled(h, lg, b, x, s, t - Window)
      BY <2>5, <3>2, RememberedIsRecalled
    <3>4. ASSUME NEW i \in DOMAIN lg, lg[i].at >= u - Window  PROVE lg[i].at >= t - Window
      <4>1. lg[i].at \in Int
        BY <2>6 DEF TypesOfTimes
      <4> QED
        BY <2>1, <2>5, <3>4, <4>1, GatewayAssumption
    <3>5. Recalled(h, lg, b, x, s, u - Window)
      BY <3>3, <3>4 DEF Recalled, Complete
    <3> QED
      BY <3>2, <3>5
  <2> QED
    BY <2>2, <2>3, <2>4, <2>7, <2>8
<1> QED
  BY <1>1, <1>2

\* GatewayInv is inductive.
THEOREM GatewayInvariance == Spec => []GatewayInv
<1>1. GatewayInv /\ [Next]_vars => GatewayInv'
  BY RefuseKeepsInv, AdmitKeepsInv, OtherStepsKeepInv DEF Next, Dispatch
<1> QED
  BY InitInv, <1>1, PTL DEF Spec

-------------------------------------------------------------------------------
(* On whose behalf *)

\* Who is served with authentication on has shown a key, and not an empty one.
LEMMA ServedOnOwnBehalf ==
    ASSUME TypeOK, AuthEnabled, NEW r \in Requests,
           NEW a \in OnBehalfOf(r), a # ArcDemoAgent
    PROVE  /\ r.header # None
           /\ TokenOf[r.header] \notin {None, EmptyToken}
           /\ \/ TokenOf[r.header] = config.api_key
              \/ /\ a \in DOMAIN config.agent_api_keys
                 /\ TokenOf[r.header] = config.agent_api_keys[a]
<1>1. /\ config.api_key # EmptyToken
      /\ \A n \in DOMAIN config.agent_api_keys :
            config.agent_api_keys[n] \notin {EmptyToken, None}
  BY GatewayAssumption DEF TypeOK
<1>2. CASE r.endpoint \in {"decision", "history"}
  <2>1. a = r.agent /\ MayActAs(r.header, r.agent)
    BY <1>2 DEF OnBehalfOf
  <2>2. /\ r.header # None /\ TokenOf[r.header] # None
        /\ \/ IsMasterKey(TokenOf[r.header])
           \/ /\ a \in DOMAIN config.agent_api_keys
              /\ TokenOf[r.header] = config.agent_api_keys[a]
    BY <2>1 DEF MayActAs
  <2> QED
    BY <1>1, <2>2 DEF IsMasterKey
<1>3. CASE r.endpoint = "demo"
  <2>1. MayDemo(r.header)
    BY <1>3 DEF OnBehalfOf
  <2>2. r.header # None /\ IsMasterKey(TokenOf[r.header])
    BY <2>1 DEF MayDemo
  <2> QED
    BY <1>1, <2>2 DEF IsMasterKey
<1>4. r.endpoint \in {"decision", "history"} \/ r.endpoint = "demo"
  BY DEF OnBehalfOf
<1> QED
  BY <1>2, <1>3, <1>4

\* OnlyOnOwnBehalf: with authentication on, whoever gets an agent's history
\* read or written showed that agent's key or the master key (security.py
\* check_agent_bound_key, require_api_key; main.py's endpoints).
THEOREM ServiceIsOnOwnBehalf == Spec => []OnlyOnOwnBehalf
<1>1. Init => OnlyOnOwnBehalf
  BY DEF Init, OnlyOnOwnBehalf
<1>2. TypeOK /\ OnlyOnOwnBehalf /\ [Next]_vars => OnlyOnOwnBehalf'
  <2> SUFFICES ASSUME TypeOK, OnlyOnOwnBehalf, [Next]_vars  PROVE OnlyOnOwnBehalf'
    OBVIOUS
  <2>1. ASSUME NEW r \in Requests, answer' = Served(r), config' = config
        PROVE  OnlyOnOwnBehalf'
    <3>1. answer'.request = r /\ answer'.on_behalf_of = OnBehalfOf(r)
      BY <2>1 DEF Served
    <3>2. AuthEnabled' => AuthEnabled
      BY <2>1 DEF AuthEnabled
    <3> QED
      BY <2>1, <3>1, <3>2, ServedOnOwnBehalf DEF OnlyOnOwnBehalf
  <2>2. ASSUME NEW r \in Requests, Refuse(r)  PROVE OnlyOnOwnBehalf'
    BY <2>2 DEF Refuse, OnlyOnOwnBehalf
  <2>3. CASE Restart
    BY <2>3 DEF Restart, OnlyOnOwnBehalf
  <2>4. CASE Tick \/ UNCHANGED vars
    BY <2>4 DEF Tick, vars, OnlyOnOwnBehalf, AuthEnabled
  <2> QED
    BY <2>1, <2>2, <2>3, <2>4 DEF Next, Dispatch, PassUnlimited, Admit
<1>3. GatewayInv => TypeOK
  BY DEF GatewayInv
<1> QED
  BY <1>1, <1>2, <1>3, GatewayInvariance, PTL DEF Spec

-------------------------------------------------------------------------------
(* The properties of the limiter *)

\* TypeOK: the table, its lists and the answers stay well-formed.
THEOREM GatewayTypeCorrect == Spec => []TypeOK
<1>1. GatewayInv => TypeOK
  BY DEF GatewayInv
<1> QED
  BY <1>1, GatewayInvariance, PTL

\* LimitPerWindow: in one Window an identity gets at most `limit` requests
\* through, however the requests of others and the eviction of identities fall
\* in between, unless it stayed away while enough others to evict it came.
THEOREM LimitHolds == Spec => []LimitPerWindow
<1>1. GatewayInv => LimitPerWindow
  BY DEF GatewayInv
<1> QED
  BY <1>1, GatewayInvariance, PTL

\* RefusedOnlyWhenFull: whoever is refused had `limit` requests through in the
\* Window before, so refusals do not prolong the wait.
THEOREM RefusalsAreDue == Spec => []RefusedOnlyWhenFull
<1>1. GatewayInv => RefusedOnlyWhenFull
  BY DEF GatewayInv
<1> QED
  BY <1>1, GatewayInvariance, PTL

\* Bounded: the table of identities and each of its lists stay within bounds,
\* although a refused request returns before the eviction.
THEOREM TableStaysBounded == Spec => []Bounded
<1>1. GatewayInv => Bounded
  BY DEF GatewayInv
<1> QED
  BY <1>1, GatewayInvariance, PTL

===============================================================================
