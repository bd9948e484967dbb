------------------------------- MODULE DataLemmas -------------------------------
(***************************************************************************)
(* Facts about numbers, finite sets and sequences that several proofs need. *)
(* Induction is stated over SETS of numbers and of subsets: a proof by     *)
(* induction names the set of the values its claim holds for, and cites    *)
(* the lemma with that set.                                                *)
(***************************************************************************)
EXTENDS Integers, FiniteSets, Functions, Sequences, SequencesExt, FiniteSetTheorems,
        SequenceTheorems, WellFoundedInduction, TLAPS

\* A non-empty set of natural numbers has a least element.
LEMMA LeastNatural ==
    ASSUME NEW S \in SUBSET Nat, S # {}
    PROVE  \E x \in S : \A y \in S : x <= y
<1>1. PICK x \in S : \A y \in S : ~ (<<y, x>> \in OpToRel(<, Nat))
  BY WFMin, NatLessThanWellFounded
<1>2. \A y \in S : ~ (y < x)
  BY <1>1 DEF OpToRel
<1> QED
  BY <1>2

\* Induction on the natural numbers.
LEMMA NatSetInduction ==
    ASSUME NEW T, 0 \in T, \A n \in Nat : n \in T => n + 1 \in T
    PROVE  \A n \in Nat : n \in T
<1> SUFFICES ASSUME Nat \ T # {}  PROVE FALSE
  OBVIOUS
<1>1. PICK m \in Nat \ T : \A y \in Nat \ T : m <= y
  BY LeastNatural
<1>2. m - 1 \in Nat /\ m - 1 \in T
  BY <1>1
<1> QED
  BY <1>1, <1>2

\* Induction on the subsets of a finite set, from those with one element less.
LEMMA SmallerSubsetInduction ==
    ASSUME NEW S, IsFiniteSet(S), NEW T, {} \in T,
           \A s \in SUBSET S : s # {} /\ (\A x \in s : s \ {x} \in T) => s \in T
    PROVE  \A s \in SUBSET S : s \in T
<1> DEFINE Sized == {n \in Nat : \A s \in SUBSET S : Cardinality(s) = n => s \in T}
<1>1. \A s \in SUBSET S : IsFiniteSet(s) /\ Cardinality(s) \in Nat
  BY FS_Subset, FS_CardinalityType
<1>2. 0 \in Sized
  BY <1>1, FS_EmptySet
<1>3. ASSUME NEW n \in Nat, n \in Sized  PROVE n + 1 \in Sized
  <2> SUFFICES ASSUME NEW s \in SUBSET S, Cardinality(s) = n + 1  PROVE s \in T
    OBVIOUS
  <2>1. Cardinality({}) = 0
    BY FS_EmptySet
  <2>2. s # {}
    BY <2>1
  <2>3. \A x \in s : Cardinality(s \ {x}) = Cardinality(s) - 1
    BY <1>1, FS_RemoveElement
  <2>4. \A x \in s : s \ {x} \in T
    BY <1>3, <2>3, n + 1 - 1 = n
  <2> QED
    BY <2>2, <2>4
<1> HIDE DEF Sized
<1>4. \A n \in Nat : n \in Sized
  BY <1>2, <1>3, NatSetInduction
<1> QED
  BY <1>1, <1>4 DEF Sized

\* Induction on the subsets of a finite set, by adding one element.
LEMMA SubsetInduction ==
    ASSUME NEW S, IsFiniteSet(S), NEW T, {} \in T,
           \A s \in SUBSET S, x \in S : s \in T /\ x \notin s => s \cup {x} \in T
    PROVE  \A s \in SUBSET S : s \in T
<1>1. ASSUME NEW s \in SUBSET S, s # {}, \A x \in s : s \ {x} \in T  PROVE s \in T
  <2>1. PICK x : x \in s
    BY <1>1
  <2>2. s = (s \ {x}) \cup {x}
    BY <2>1
  <2> QED
    BY <1>1, <2>1, <2>2
<1> QED
  BY <1>1, SmallerSubsetInduction

\* A non-empty finite set of integers has a greatest element.
LEMMA GreatestElement ==
    ASSUME NEW S \in SUBSET Int, IsFiniteSet(S), S # {}
    PROVE  \E x \in S : \A y \in S : y <= x
<1> DEFINE Bounded == {s \in SUBSET S : s = {} \/ \E x \in s : \A y \in s : y <= x}
<1>1. {} \in Bounded
  OBVIOUS
<1>2. ASSUME NEW s \in SUBSET S, NEW x \in S, s \in Bounded, x \notin s
      PROVE  s \cup {x} \in Bounded
  <2>1. CASE s = {}
    <3>1. \A y \in s \cup {x} : y <= x
      BY <2>1
    <3> QED
      BY <3>1
  <2>2. CASE s # {}
    <3>1. PICK m \in s : \A y \in s : y <= m
      BY <1>2, <2>2
    <3>2. CASE x <= m
      <4>1. \A y \in s \cup {x} : y <= m
        BY <3>1, <3>2
      <4> QED
        BY <4>1
    <3>3. CASE ~ (x <= m)
      <4>1. \A y \in s \cup {x} : y <= x
        BY <3>1, <3>3
      <4> QED
        BY <4>1
    <3> QED
      BY <3>2, <3>3
  <2> QED
    BY <2>1, <2>2
<1> HIDE DEF Bounded
<1>3. \A s \in SUBSET S : s \in Bounded
  BY <1>1, <1>2, SubsetInduction
<1> QED
  BY <1>3 DEF Bounded

LEMMA OneMoreElement ==
    ASSUME NEW S, IsFiniteSet(S), NEW x
    PROVE  /\ Cardinality(S) \in Nat
           /\ IsFiniteSet(S \cup {x})
           /\ Cardinality(S \cup {x}) \in Nat
           /\ Cardinality(S \cup {x}) <= Cardinality(S) + 1
<1>1. Cardinality(S) \in Nat
  BY FS_CardinalityType
<1>2. /\ IsFiniteSet(S \cup {x})
      /\ Cardinality(S \cup {x}) = IF x \in S THEN Cardinality(S) ELSE Cardinality(S) + 1
  BY FS_AddElement
<1> QED
  BY <1>1, <1>2

-------------------------------------------------------------------------------
(* Sums: SumFunctionOnSet of the community modules adds the values of a      *)
(* function over a finite set, in an order it does not tell.                 *)

Chosen(s) == CHOOSE x \in s : TRUE

\* sum has the recursive equation of SumFunctionOnSet on every set in domain.
SumsUp(sum, fun, domain) ==
    sum = [s \in domain |-> IF s = {} THEN 0 ELSE fun[Chosen(s)] + sum[s \ {Chosen(s)}]]

\* The recursion is well founded: such a function exists ...
LEMMA SumExists ==
    ASSUME NEW fun, NEW S, IsFiniteSet(S)
    PROVE  \E sum : SumsUp(sum, fun, SUBSET S)
<1> DEFINE UpTo(n) == {s \in SUBSET S : Cardinality(s) <= n}
           T == {n \in Nat : \E sum : SumsUp(sum, fun, UpTo(n))}
<1>1. \A s \in SUBSET S :
          IsFiniteSet(s) /\ Cardinality(s) \in Nat /\ Cardinality(s) <= Cardinality(S)
  BY FS_Subset, FS_CardinalityType
<1>6. \A s \in SUBSET S : s # {} =>
          /\ s \ {Chosen(s)} \in SUBSET S /\ Cardinality(s) # 0
          /\ Cardinality(s \ {Chosen(s)}) = Cardinality(s) - 1
  <2> TAKE s \in SUBSET S
  <2>1. s # {} => Chosen(s) \in s
    BY DEF Chosen
  <2>2. s # {} => Cardinality(s) # 0
    BY <1>1, FS_EmptySet
  <2>3. s # {} => Cardinality(s \ {Chosen(s)}) = Cardinality(s) - 1
    BY <1>1, <2>1, FS_RemoveElement
  <2> QED
    BY <2>1, <2>2, <2>3
<1>2. 0 \in T
  <2> DEFINE sum == [s \in UpTo(0) |-> 0]
  <2>3. \A s \in UpTo(0) : s \in SUBSET S /\ Cardinality(s) = 0
    BY <1>1
  <2>1. \A s \in UpTo(0) : s = {}
    BY <1>6, <2>3
  <2>2. SumsUp(sum, fun, UpTo(0))
    BY <2>1 DEF SumsUp
  <2> QED
    BY <2>2
<1>3. ASSUME NEW n \in Nat, n \in T  PROVE n + 1 \in T
  <2>1. PICK sum : SumsUp(sum, fun, UpTo(n))
    BY <1>3
  <2> DEFINE next == [s \in UpTo(n + 1) |->
                        IF s = {} THEN 0 ELSE fun[Chosen(s)] + sum[s \ {Chosen(s)}]]
  <2>2. \A s \in UpTo(n) : s \in UpTo(n + 1) /\ next[s] = sum[s]
    <3> TAKE s \in UpTo(n)
    <3>1. Cardinality(s) <= n + 1
      BY <1>1
    <3>3. s \in UpTo(n + 1)
      BY <3>1
    <3>2. sum[s] = IF s = {} THEN 0 ELSE fun[Chosen(s)] + sum[s \ {Chosen(s)}]
      BY <2>1 DEF SumsUp
    <3> QED
      BY <3>3, <3>2
  <2>3. \A s \in UpTo(n + 1) : s # {} => s \ {Chosen(s)} \in UpTo(n)
    BY <1>1, <1>6
  <2>4. SumsUp(next, fun, UpTo(n + 1))
    BY <2>2, <2>3 DEF SumsUp
  <2> HIDE DEF next, UpTo
  <2>5. \E f : SumsUp(f, fun, UpTo(n + 1))
    BY <2>4
  <2> QED
    BY <2>5
<1>4. Cardinality(S) \in T
  <2> HIDE DEF T
  <2>1. \A n \in Nat : n \in T
    BY <1>2, <1>3, NatSetInduction
  <2> QED
    BY <2>1, FS_CardinalityType
<1>5. UpTo(Cardinality(S)) = SUBSET S
  BY <1>1
<1> QED
  BY <1>4, <1>5

\* ... and is unique, also when it is defined for a larger set.
LEMMA SumIsUnique ==
    ASSUME NEW fun, NEW S, NEW U, NEW f, NEW g, IsFiniteSet(S), U \in SUBSET S,
           SumsUp(f, fun, SUBSET S) /\ SumsUp(g, fun, SUBSET U)
    PROVE  f[U] = g[U]
<1> DEFINE T == {s \in SUBSET U : f[s] = g[s]}
<1>1. {} \in T
  BY DEF SumsUp
<1>2. ASSUME NEW s \in SUBSET U, s # {}, \A x \in s : s \ {x} \in T  PROVE s \in T
  <2>1. Chosen(s) \in s
    BY <1>2 DEF Chosen
  <2>2. f[s \ {Chosen(s)}] = g[s \ {Chosen(s)}]
    BY <1>2, <2>1
  <2>3. f[s] = fun[Chosen(s)] + f[s \ {Chosen(s)}]
    BY <1>2 DEF SumsUp
  <2>4. g[s] = fun[Chosen(s)] + g[s \ {Chosen(s)}]
    BY <1>2 DEF SumsUp
  <2> QED
    BY <2>2, <2>3, <2>4
<1>3. IsFiniteSet(U)
  BY FS_Subset
<1> HIDE DEF T
<1>4. \A s \in SUBSET U : s \in T
  BY <1>1, <1>2, <1>3, SmallerSubsetInduction
<1>5. U \in T
  BY <1>4
<1> QED
  BY <1>5 DEF T

\* So the sum over a set satisfies the equation.
LEMMA SumEquation ==
    ASSUME NEW fun, NEW S, IsFiniteSet(S)
    PROVE  SumFunctionOnSet(fun, S) =
             IF S = {} THEN 0
             ELSE fun[Chosen(S)] + SumFunctionOnSet(fun, S \ {Chosen(S)})
<1> DEFINE Sum(U) == CHOOSE sum : SumsUp(sum, fun, SUBSET U)
<1>1. ASSUME NEW U \in SUBSET S
      PROVE  SumsUp(Sum(U), fun, SUBSET U) /\ SumFunctionOnSet(fun, U) = Sum(U)[U]
  <2>1. \E sum : SumsUp(sum, fun, SUBSET U)
    BY SumExists, FS_Subset
  <2>2. SumsUp(Sum(U), fun, SUBSET U)
    BY <2>1
  <2>3. SumFunctionOnSet(fun, U) = Sum(U)[U]
    BY DEF SumFunctionOnSet, FoldFunctionOnSet, MapThenFoldSet, SumsUp, Chosen
  <2> QED
    BY <2>2, <2>3
<1> HIDE DEF Sum
<1>2. CASE S = {}
  BY <1>1, <1>2 DEF SumsUp
<1>3. CASE S # {}
  <2>1. Sum(S)[S] = fun[Chosen(S)] + Sum(S)[S \ {Chosen(S)}]
    BY <1>1, <1>3 DEF SumsUp
  <2>2. Sum(S)[S \ {Chosen(S)}] = Sum(S \ {Chosen(S)})[S \ {Chosen(S)}]
    <3>1. S \ {Chosen(S)} \in SUBSET S /\ S \in SUBSET S
      OBVIOUS
    <3>2. /\ SumsUp(Sum(S), fun, SUBSET S)
          /\ SumsUp(Sum(S \ {Chosen(S)}), fun, SUBSET (S \ {Chosen(S)}))
      BY <1>1, <3>1
    <3> DEFINE rest == S \ {Chosen(S)}
    <3> HIDE DEF rest
    <3>3. rest \in SUBSET S /\ SumsUp(Sum(S), fun, SUBSET S) /\ SumsUp(Sum(rest), fun, SUBSET rest)
      BY <3>1, <3>2 DEF rest
    <3>4. Sum(S)[rest] = Sum(rest)[rest]
      BY <3>3, SumIsUnique
    <3> QED
      BY <3>4 DEF rest
  <2> QED
    BY <1>1, <1>3, <2>1, <2>2
<1> QED
  BY <1>2, <1>3

LEMMA SumEmpty ==
    ASSUME NEW fun
    PROVE  SumFunctionOnSet(fun, {}) = 0
BY SumEquation, FS_EmptySet

LEMMA SumIsNatural ==
    ASSUME NEW fun, NEW S, IsFiniteSet(S), \A x \in S : fun[x] \in Nat
    PROVE  SumFunctionOnSet(fun, S) \in Nat
<1> DEFINE T == {s \in SUBSET S : SumFunctionOnSet(fun, s) \in Nat}
<1>1. {} \in T
  BY SumEmpty
<1>2. ASSUME NEW s \in SUBSET S, s # {}, \A x \in s : s \ {x} \in T  PROVE s \in T
  <2>1. Chosen(s) \in s /\ IsFiniteSet(s)
    BY <1>2, FS_Subset DEF Chosen
  <2>2. SumFunctionOnSet(fun, s) = fun[Chosen(s)] + SumFunctionOnSet(fun, s \ {Chosen(s)})
    BY <1>2, <2>1, SumEquation
  <2>3. SumFunctionOnSet(fun, s \ {Chosen(s)}) \in Nat /\ fun[Chosen(s)] \in Nat
    BY <1>2, <2>1
  <2> QED
    BY <2>2, <2>3
<1> HIDE DEF T
<1>5. \A s \in SUBSET S : s \in T
  BY <1>1, <1>2, SmallerSubsetInduction
<1>3. S \in T
  BY <1>5
<1> QED
  BY <1>3 DEF T

LEMMA SumIsInteger ==
    ASSUME NEW fun, NEW S, IsFiniteSet(S), \A x \in S : fun[x] \in Int
    PROVE  SumFunctionOnSet(fun, S) \in Int
<1> DEFINE T == {s \in SUBSET S : SumFunctionOnSet(fun, s) \in Int}
<1>1. {} \in T
  BY SumEmpty
<1>2. ASSUME NEW s \in SUBSET S, s # {}, \A x \in s : s \ {x} \in T  PROVE s \in T
  <2>1. Chosen(s) \in s /\ IsFiniteSet(s)
    BY <1>2, FS_Subset DEF Chosen
  <2>2. SumFunctionOnSet(fun, s) = fun[Chosen(s)] + SumFunctionOnSet(fun, s \ {Chosen(s)})
    BY <1>2, <2>1, SumEquation
  <2>3. SumFunctionOnSet(fun, s \ {Chosen(s)}) \in Int /\ fun[Chosen(s)] \in Int
    BY <1>2, <2>1
  <2> QED
    BY <2>2, <2>3
<1> HIDE DEF T
<1>3. \A s \in SUBSET S : s \in T
  BY <1>1, <1>2, SmallerSubsetInduction
<1>4. S \in T
  BY <1>3
<1> QED
  BY <1>4 DEF T

\* Any element may be counted first.
LEMMA SumRemove ==
    ASSUME NEW fun, NEW S, IsFiniteSet(S), \A x \in S : fun[x] \in Nat, NEW e \in S
    PROVE  SumFunctionOnSet(fun, S) = fun[e] + SumFunctionOnSet(fun, S \ {e})
<1> DEFINE Sum(s) == SumFunctionOnSet(fun, s)
           T == {s \in SUBSET S : \A x \in s : Sum(s) = fun[x] + Sum(s \ {x})}
<1>1. {} \in T
  OBVIOUS
<1>2. ASSUME NEW s \in SUBSET S, s # {}, \A x \in s : s \ {x} \in T  PROVE s \in T
  <2> DEFINE c == Chosen(s)
  <2>1. c \in s /\ IsFiniteSet(s)
    BY <1>2, FS_Subset DEF Chosen
  <2>2. Sum(s) = fun[c] + Sum(s \ {c})
    BY <1>2, <2>1, SumEquation
  <2> HIDE DEF c
  <2>3. ASSUME NEW x \in s, x # c  PROVE Sum(s) = fun[x] + Sum(s \ {x})
    <3>1. Sum(s \ {c}) = fun[x] + Sum((s \ {c}) \ {x})
      BY <1>2, <2>1, <2>3
    <3>2. Sum(s \ {x}) = fun[c] + Sum((s \ {x}) \ {c})
      BY <1>2, <2>1, <2>3
    <3>3. (s \ {c}) \ {x} = (s \ {x}) \ {c} /\ (s \ {c}) \ {x} \in SUBSET S
      OBVIOUS
    <3>4. IsFiniteSet((s \ {c}) \ {x})
      BY <3>3, FS_Subset
    <3>5. Sum((s \ {c}) \ {x}) \in Nat
      BY <3>3, <3>4, SumIsNatural
    <3>6. fun[c] \in Nat /\ fun[x] \in Nat
      BY <2>1
    <3> HIDE DEF Sum
    <3> QED
      BY <2>2, <3>1, <3>2, <3>3, <3>5, <3>6
  <2>4. \A x \in s : Sum(s) = fun[x] + Sum(s \ {x})
    BY <2>2, <2>3
  <2> QED
    BY <2>4
<1> HIDE DEF T
<1>5. \A s \in SUBSET S : s \in T
  BY <1>1, <1>2, SmallerSubsetInduction
<1>3. S \in T
  BY <1>5
<1> QED
  BY <1>3 DEF T

\* A sum is at most another one if its elements can be sent, each to one of its
\* own, to elements that count at least as much.
LEMMA SumAtMost ==
    ASSUME NEW f, NEW S, IsFiniteSet(S), \A x \in S : f[x] \in Nat,
           NEW g, NEW U, IsFiniteSet(U), \A y \in U : g[y] \in Nat,
           NEW to, \A x \in S : to[x] \in U /\ f[x] <= g[to[x]],
           \A x, y \in S : to[x] = to[y] => x = y
    PROVE  SumFunctionOnSet(f, S) <= SumFunctionOnSet(g, U)
<1> DEFINE T == {s \in SUBSET S :
                   \A u \in SUBSET U : (\A x \in s : to[x] \in u) =>
                      SumFunctionOnSet(f, s) <= SumFunctionOnSet(g, u)}
<1>1. {} \in T
  <2>1. \A u \in SUBSET U : SumFunctionOnSet(g, u) \in Nat
    BY SumIsNatural, FS_Subset
  <2> QED
    BY <2>1, SumEmpty
<1>2. ASSUME NEW s \in SUBSET S, s # {}, \A x \in s : s \ {x} \in T  PROVE s \in T
  <2> SUFFICES ASSUME NEW u \in SUBSET U, \A x \in s : to[x] \in u
               PROVE  SumFunctionOnSet(f, s) <= SumFunctionOnSet(g, u)
    OBVIOUS
  <2>1. PICK e : e \in s
    BY <1>2
  <2>2. IsFiniteSet(s) /\ IsFiniteSet(u) /\ IsFiniteSet(s \ {e}) /\ IsFiniteSet(u \ {to[e]})
    BY FS_Subset
  <2>3. SumFunctionOnSet(f, s) = f[e] + SumFunctionOnSet(f, s \ {e})
    BY <2>1, <2>2, SumRemove
  <2>4. SumFunctionOnSet(g, u) = g[to[e]] + SumFunctionOnSet(g, u \ {to[e]})
    BY <2>1, <2>2, SumRemove
  <2>5. \A x \in s \ {e} : to[x] \in u \ {to[e]}
    BY <2>1
  <2>6. SumFunctionOnSet(f, s \ {e}) <= SumFunctionOnSet(g, u \ {to[e]})
    BY <1>2, <2>1, <2>5
  <2>7. SumFunctionOnSet(f, s \ {e}) \in Nat /\ SumFunctionOnSet(g, u \ {to[e]}) \in Nat
    BY <2>2, SumIsNatural
  <2>8. f[e] \in Nat /\ g[to[e]] \in Nat /\ f[e] <= g[to[e]]
    BY <2>1
  <2> QED
    BY <2>3, <2>4, <2>6, <2>7, <2>8
<1> HIDE DEF T
<1>5. \A s \in SUBSET S : s \in T
  BY <1>1, <1>2, SmallerSubsetInduction
<1>3. S \in T
  BY <1>5
<1>4. \A x \in S : to[x] \in U
  OBVIOUS
<1> QED
  BY <1>3, <1>4 DEF T

-------------------------------------------------------------------------------
(* Sequences *)

\* u is s, a sequence over S of length N, without its i-th element.
Without(u, s, S, N, i) ==
    /\ u \in Seq(S) /\ Len(u) = N - 1
    /\ \A n \in 1 .. N - 1 : u[n] = IF n < i THEN s[n] ELSE s[n + 1]

\* RemoveAt of the community modules.
LEMMA WithoutOne ==
    ASSUME NEW S, NEW s, NEW N, NEW i, NEW u,
           N \in Nat /\ i \in 1 .. N /\ s \in Seq(S) /\ Len(s) = N /\ u = RemoveAt(s, i)
    PROVE  Without(u, s, S, N, i)
<1>0. PICK d \in Nat : d = i - 1
  OBVIOUS
<1>1. PICK before, after :
        before = SubSeq(s, 1, d) /\ after = SubSeq(s, i + 1, N) /\ d = i - 1
  BY <1>0
<1>2. /\ before \in Seq(S) /\ Len(before) = d /\ \A n \in 1 .. d : before[n] = s[n]
  BY <1>1
<1>3. /\ after \in Seq(S) /\ Len(after) = N - i
      /\ \A n \in 1 .. N - i : after[n] = s[n + i]
  BY <1>1
<1>4. u = before \o after
  BY <1>1 DEF RemoveAt
<1>5. u \in Seq(S) /\ Len(u) = N - 1
  BY <1>1, <1>2, <1>3, <1>4
<1>6. ASSUME NEW n \in 1 .. N - 1  PROVE u[n] = IF n < i THEN s[n] ELSE s[n + 1]
  <2>1. CASE n < i
    BY <1>1, <1>2, <1>3, <1>4, <2>1
  <2>2. CASE n >= i
    <3>1. PICK m \in 1 .. N - i : m = n - d
      BY <1>1, <2>2
    <3>2. u[n] = after[m]
      <4>1. n \in Len(before) + 1 .. Len(before) + Len(after) /\ n - Len(before) = m
        BY <1>0, <1>1, <1>2, <1>3, <2>2, <3>1
      <4> QED
        BY <1>2, <1>3, <1>4, <4>1, ConcatProperties
    <3>3. after[m] = s[n + 1]
      BY <1>0, <1>3, <3>1
    <3> QED
      BY <2>2, <3>2, <3>3
  <2> QED
    BY <2>1, <2>2
<1> QED
  BY <1>5, <1>6 DEF Without
===============================================================================
