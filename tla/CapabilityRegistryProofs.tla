----------------------- MODULE CapabilityRegistryProofs -----------------------
(* Proofs about CapabilityRegistry, for all values of its constants: its    *)
(* types with any backend, the charges and the daily limit over a storage    *)
(* backend, and the daily limit of the in-process list for one call at a     *)
(* time, which is all it holds for.                                          *)
EXTENDS CapabilityRegistry, DataLemmas, SequenceTheorems

-------------------------------------------------------------------------------
(* The inductive invariant.  TypeOK alone is not inductive: that a row is    *)
(* well formed rests on what a call has set by the stage it stands at.       *)

\* A call that looked up a grant holds its arguments, one that took a
\* timestamp keeps it.
ArgumentsHeld ==
    \A k \in Calls :
        /\ pc[k] \in {"looked_up", "checked", "stamped", "pruned", "assigned", "appended"} =>
              intent[k] \in Intents /\ cap[k] \in Capabilities
        /\ pc[k] \in {"stamped", "pruned", "assigned", "appended"} => now[k] \in Int
        /\ now[k] # None => intent[k] \in Intents
        /\ pc[k] \in {"ready", "looked_up", "checked"} => now[k] = None

\* Storage-backed calls never enter the steps of the in-process list.
NeverLocal == StorageBacked => \A k \in Calls : pc[k] \notin {"pruned", "assigned"}

\* A call that has not charged yet has no row.
BeforeCharge == {"ready", "looked_up", "checked", "stamped", "pruned", "assigned"}

Unwritten ==
    \A k \in Calls :
        pc[k] \in BeforeCharge =>
            \A a \in Agents : \A n \in DOMAIN spend[a] : spend[a][n].by # k

TInv == TypeOK /\ ArgumentsHeld /\ NeverLocal

IInv == TInv /\ Unwritten /\ ChargedOnce

-------------------------------------------------------------------------------
(* Type correctness *)

LEMMA RowsOfCalls ==
    ASSUME TInv, NEW k \in Calls, pc[k] \in {"stamped", "assigned"}
    PROVE  /\ SpendRow(k) \in Row
           /\ SpendRow(k).by = k
           /\ SpendRow(k) = [t |-> now[k], a |-> intent[k].amount, by |-> k]
           /\ intent[k] \in Intents
           /\ intent[k].agent_id \in Agents
<1>1. intent[k] \in Intents /\ now[k] \in Int
  BY DEF TInv, ArgumentsHeld
<1>2. QED
  BY <1>1, RegistryAssumption DEF SpendRow, Row

\* A log that is trimmed stays a log, of at most MaxRows rows.
LEMMA RetainedType ==
    ASSUME NEW log \in Seq(Row)
    PROVE  /\ Retained(log) \in Seq(Row)
           /\ Backend = "durable" => Len(Retained(log)) <= MaxRows
<1>1. Len(log) \in Nat /\ MaxRows \in Nat \ {0}
  BY RegistryAssumption
<1>2. CASE Backend = "durable" /\ Len(log) > MaxRows
  <2>1. \A i \in Len(log) - MaxRows + 1 .. Len(log) : log[i] \in Row
    BY <1>1, <1>2
  <2>2. /\ SubSeq(log, Len(log) - MaxRows + 1, Len(log)) \in Seq(Row)
        /\ Len(SubSeq(log, Len(log) - MaxRows + 1, Len(log))) = MaxRows
    BY <1>1, <1>2, <2>1, SubSeqProperties
  <2>3. QED
    BY <1>1, <1>2, <2>2 DEF Retained
<1>3. CASE ~(Backend = "durable" /\ Len(log) > MaxRows)
  BY <1>1, <1>3 DEF Retained
<1>4. QED
  BY <1>2, <1>3

\* An appended row is the last one.
LEMMA AppendedRow ==
    ASSUME NEW log \in Seq(Row), NEW row \in Row
    PROVE  /\ Append(log, row) \in Seq(Row)
           /\ DOMAIN Append(log, row) = DOMAIN log \cup {Len(log) + 1}
           /\ Len(log) + 1 \notin DOMAIN log
           /\ \A n \in DOMAIN log : Append(log, row)[n] = log[n]
           /\ Append(log, row)[Len(log) + 1] = row
OBVIOUS

\* The recursion over the rows of a list has a result, which satisfies its
\* equation.
LEMMA PrunedEquation ==
    ASSUME NEW log \in Seq(Row), NEW start
    PROVE  PrunedUpTo(log, start) = [n \in 0 .. Len(log) |->
                IF n = 0 THEN <<>>
                ELSE IF InWindow(log[n], start)
                THEN Append(PrunedUpTo(log, start)[n - 1], log[n])
                ELSE PrunedUpTo(log, start)[n - 1]]
<1> DEFINE Next1(f, m) == IF m = 0 THEN <<>>
                          ELSE IF InWindow(log[m], start) THEN Append(f[m - 1], log[m])
                          ELSE f[m - 1]
           Prunes(f, n) == f = [m \in 0 .. n |-> Next1(f, m)]
           T == {n \in Nat : \E f : Prunes(f, n)}
<1>1. 0 \in T
  <2> DEFINE f == [m \in 0 .. 0 |-> <<>>]
  <2>1. Prunes(f, 0)
    OBVIOUS
  <2>2. QED
    BY <2>1
<1>2. ASSUME NEW n \in Nat, n \in T  PROVE n + 1 \in T
  <2>1. PICK f : Prunes(f, n)
    BY <1>2
  <2> DEFINE g == [m \in 0 .. n + 1 |-> Next1(f, m)]
  <2> HIDE DEF Next1
  <2>2. \A m \in 0 .. n : f[m] = Next1(f, m)
    BY <2>1
  <2>3. g = [m \in 0 .. n + 1 |-> Next1(f, m)] /\ \A m \in 0 .. n + 1 : g[m] = Next1(f, m)
    OBVIOUS
  <2> HIDE DEF g
  <2>4. \A m \in 0 .. n : g[m] = f[m]
    BY <2>2, <2>3
  <2>5. \A m \in 0 .. n + 1 : m = 0 \/ m - 1 \in 0 .. n
    OBVIOUS
  <2>6. \A m \in 0 .. n + 1 : Next1(g, m) = Next1(f, m)
    <3>1. \A m \in 0 .. n + 1 : m = 0 \/ g[m - 1] = f[m - 1]
      BY <2>4, <2>5
    <3>2. QED
      BY <3>1 DEF Next1
  <2>7. Prunes(g, n + 1)
    BY <2>3, <2>6
  <2> HIDE DEF Prunes
  <2>8. QED
    BY <2>7
<1>3. Len(log) \in T
  <2> HIDE DEF T
  <2>1. \A n \in Nat : n \in T
    BY <1>1, <1>2, NatSetInduction
  <2>2. QED
    BY <2>1
<1>4. PICK f : Prunes(f, Len(log))
  BY <1>3
<1>5. PrunedUpTo(log, start) = CHOOSE g : Prunes(g, Len(log))
  BY DEF PrunedUpTo
<1> HIDE DEF Prunes
<1>6. Prunes(PrunedUpTo(log, start), Len(log))
  BY <1>4, <1>5
<1>7. QED
  BY <1>6 DEF Prunes

\* What pruning leaves of the first n rows: rows of the window, all of them,
\* and of a call with one row no second one.
PrunesTo(rows, log, start, n) ==
    /\ rows \in Seq(Row)
    /\ \A i \in DOMAIN rows : \E m \in 1 .. n : rows[i] = log[m] /\ InWindow(log[m], start)
    /\ \A m \in 1 .. n : InWindow(log[m], start) => \E i \in DOMAIN rows : rows[i] = log[m]
    /\ \A i, j \in DOMAIN rows :
          i # j => \E l, m \in 1 .. n : l # m /\ log[l] = rows[i] /\ log[m] = rows[j]

LEMMA PrunedRow ==
    ASSUME NEW log \in Seq(Row), NEW start, NEW n \in Nat, n + 1 <= Len(log),
           NEW rows, PrunesTo(rows, log, start, n)
    PROVE  PrunesTo(IF InWindow(log[n + 1], start) THEN Append(rows, log[n + 1]) ELSE rows,
                    log, start, n + 1)
<1>1. log[n + 1] \in Row /\ 1 .. n + 1 = 1 .. n \cup {n + 1} /\ n + 1 \notin 1 .. n
  OBVIOUS
<1>2. /\ rows \in Seq(Row)
      /\ \A i \in DOMAIN rows : \E m \in 1 .. n : rows[i] = log[m] /\ InWindow(log[m], start)
      /\ \A m \in 1 .. n : InWindow(log[m], start) => \E i \in DOMAIN rows : rows[i] = log[m]
      /\ \A i, j \in DOMAIN rows :
            i # j => \E l, m \in 1 .. n : l # m /\ log[l] = rows[i] /\ log[m] = rows[j]
  BY DEF PrunesTo
<1>3. CASE ~InWindow(log[n + 1], start)
  <2>1. \A i \in DOMAIN rows : \E m \in 1 .. n + 1 : rows[i] = log[m] /\ InWindow(log[m], start)
    BY <1>1, <1>2
  <2>2. \A m \in 1 .. n + 1 : InWindow(log[m], start) => \E i \in DOMAIN rows : rows[i] = log[m]
    BY <1>1, <1>2, <1>3
  <2>3. \A i, j \in DOMAIN rows :
            i # j => \E l, m \in 1 .. n + 1 : l # m /\ log[l] = rows[i] /\ log[m] = rows[j]
    BY <1>1, <1>2
  <2>4. PrunesTo(rows, log, start, n + 1)
    BY <1>2, <2>1, <2>2, <2>3 DEF PrunesTo
  <2>5. QED
    BY <1>3, <2>4
<1>4. CASE InWindow(log[n + 1], start)
  <2>1. PICK more : more = Append(rows, log[n + 1])
    OBVIOUS
  <2>2. /\ more \in Seq(Row) /\ DOMAIN more = DOMAIN rows \cup {Len(rows) + 1}
        /\ Len(rows) + 1 \notin DOMAIN rows
        /\ \A i \in DOMAIN rows : more[i] = rows[i]
        /\ more[Len(rows) + 1] = log[n + 1]
    BY <1>1, <1>2, <2>1, AppendedRow
  <2>3. \A i \in DOMAIN more : \E m \in 1 .. n + 1 : more[i] = log[m] /\ InWindow(log[m], start)
    <3>1. SUFFICES ASSUME NEW i \in DOMAIN more
                   PROVE  \E m \in 1 .. n + 1 : more[i] = log[m] /\ InWindow(log[m], start)
      OBVIOUS
    <3>2. CASE i \in DOMAIN rows
      <4>1. PICK m \in 1 .. n : rows[i] = log[m] /\ InWindow(log[m], start)
        BY <1>2, <3>2
      <4>2. m \in 1 .. n + 1 /\ more[i] = log[m]
        BY <1>1, <2>2, <3>2, <4>1
      <4>3. QED
        BY <4>1, <4>2
    <3>3. CASE i = Len(rows) + 1
      <4>1. n + 1 \in 1 .. n + 1 /\ more[i] = log[n + 1]
        BY <1>1, <2>2, <3>3
      <4>2. QED
        BY <1>4, <4>1
    <3>4. QED
      BY <2>2, <3>1, <3>2, <3>3
  <2>4. \A m \in 1 .. n + 1 : InWindow(log[m], start) => \E i \in DOMAIN more : more[i] = log[m]
    BY <1>1, <1>2, <2>2
  <2>5. \A i, j \in DOMAIN more :
           i # j => \E l, m \in 1 .. n + 1 : l # m /\ log[l] = more[i] /\ log[m] = more[j]
    <3>1. SUFFICES ASSUME NEW i \in DOMAIN more, NEW j \in DOMAIN more, i # j
                   PROVE  \E l, m \in 1 .. n + 1 : l # m /\ log[l] = more[i] /\ log[m] = more[j]
      OBVIOUS
    <3>2. CASE i \in DOMAIN rows /\ j \in DOMAIN rows
      <4>1. PICK l \in 1 .. n, m \in 1 .. n : l # m /\ log[l] = rows[i] /\ log[m] = rows[j]
        BY <1>2, <3>1, <3>2
      <4>2. l \in 1 .. n + 1 /\ m \in 1 .. n + 1 /\ log[l] = more[i] /\ log[m] = more[j]
        BY <1>1, <2>2, <3>2, <4>1
      <4>3. QED
        BY <4>1, <4>2
    <3>3. CASE i \in DOMAIN rows /\ j = Len(rows) + 1
      <4>1. PICK l \in 1 .. n : rows[i] = log[l]
        BY <1>2, <3>3
      <4>2. l # n + 1 /\ l \in 1 .. n + 1 /\ n + 1 \in 1 .. n + 1
        BY <1>1
      <4>3. log[l] = more[i] /\ log[n + 1] = more[j]
        BY <2>2, <3>3, <4>1
      <4>4. QED
        BY <4>2, <4>3
    <3>4. CASE i = Len(rows) + 1 /\ j \in DOMAIN rows
      <4>1. PICK l \in 1 .. n : rows[j] = log[l]
        BY <1>2, <3>4
      <4>2. l # n + 1 /\ l \in 1 .. n + 1 /\ n + 1 \in 1 .. n + 1
        BY <1>1
      <4>3. log[l] = more[j] /\ log[n + 1] = more[i]
        BY <2>2, <3>4, <4>1
      <4>4. QED
        BY <4>2, <4>3
    <3>5. QED
      BY <2>2, <3>1, <3>2, <3>3, <3>4
  <2>6. PrunesTo(more, log, start, n + 1)
    BY <2>2, <2>3, <2>4, <2>5 DEF PrunesTo
  <2>7. QED
    BY <1>4, <2>1, <2>6
<1>5. QED
  BY <1>3, <1>4

LEMMA PrunedRows ==
    ASSUME NEW log \in Seq(Row), NEW start
    PROVE  Pruned(log, start) \in Seq(Row) /\ PrunesTo(Pruned(log, start), log, start, Len(log))
<1> DEFINE f == PrunedUpTo(log, start)
           T == {n \in Nat : n <= Len(log) => PrunesTo(f[n], log, start, n)}
<1>1. f = [n \in 0 .. Len(log) |->
                IF n = 0 THEN <<>>
                ELSE IF InWindow(log[n], start) THEN Append(f[n - 1], log[n])
                ELSE f[n - 1]]
  BY PrunedEquation
<1> HIDE DEF f
<1>2. Len(log) \in Nat
  OBVIOUS
<1>3. f[0] = <<>>
  BY <1>1, <1>2
<1>4. 0 \in T
  <2>1. PICK none : none = <<>>
    OBVIOUS
  <2>2. none \in Seq(Row) /\ DOMAIN none = {}
    BY <2>1
  <2>3. \A m \in 1 .. 0 : FALSE
    OBVIOUS
  <2>4. PrunesTo(none, log, start, 0)
    BY <2>2, <2>3 DEF PrunesTo
  <2>5. QED
    BY <1>3, <2>1, <2>4
<1>5. ASSUME NEW n \in Nat, n \in T  PROVE n + 1 \in T
  <2>1. SUFFICES ASSUME n + 1 <= Len(log)  PROVE PrunesTo(f[n + 1], log, start, n + 1)
    OBVIOUS
  <2>2. PrunesTo(f[n], log, start, n)
    BY <1>2, <1>5, <2>1
  <2>3. n + 1 \in 0 .. Len(log) /\ n + 1 # 0 /\ (n + 1) - 1 = n
    BY <1>2, <2>1
  <2>5. f[n + 1] = IF InWindow(log[n + 1], start) THEN Append(f[(n + 1) - 1], log[n + 1])
                   ELSE f[(n + 1) - 1]
    BY <1>1, <2>3, Zenon
  <2>6. f[n + 1] = IF InWindow(log[n + 1], start) THEN Append(f[n], log[n + 1]) ELSE f[n]
    BY <2>3, <2>5
  <2>4. QED
    BY <2>1, <2>2, <2>6, PrunedRow
<1> HIDE DEF T
<1>6. \A n \in Nat : n \in T
  BY <1>4, <1>5, NatSetInduction
<1>7. PrunesTo(f[Len(log)], log, start, Len(log))
  BY <1>2, <1>6 DEF T
<1>8. QED
  BY <1>7 DEF Pruned, PrunesTo, f

LEMMA TInvInit == Init => TInv
BY RegistryAssumption DEF Init, TInv, TypeOK, ArgumentsHeld, NeverLocal, Stages

LEMMA TInvNext == TInv /\ [Next]_vars => TInv'
<1> SUFFICES ASSUME TInv, [Next]_vars PROVE TInv'
  OBVIOUS
<1> USE DEF TInv
<1>a. None \notin Int /\ None \notin Capabilities
  BY RegistryAssumption
<1>1. ASSUME NEW c \in Capabilities, Grant(c)
      PROVE  TInv'
  <2>1. c.agent_id \in Agents
    BY RegistryAssumption DEF Capability
  <2>2. QED
    BY <1>1, <2>1 DEF TypeOK, ArgumentsHeld, NeverLocal, Grant, callVars
<1>2. ASSUME NEW a \in Agents, Revoke(a)
      PROVE  TInv'
  BY <1>2 DEF TypeOK, ArgumentsHeld, NeverLocal, Revoke, callVars
<1>3. ASSUME NEW k \in Calls, NEW i \in Intents, Lookup(k, i)
      PROVE  TInv'
  <2>1. grants[i.agent_id] \in Capabilities \cup {None}
    BY RegistryAssumption DEF TypeOK
  <2>2. TypeOK'
    BY <1>3, <2>1 DEF TypeOK, Lookup, Stages
  <2>3. ArgumentsHeld' /\ NeverLocal'
    BY <1>3, <2>1, <1>a DEF TypeOK, ArgumentsHeld, NeverLocal, Lookup
  <2>4. QED
    BY <2>2, <2>3
<1>4. ASSUME NEW k \in Calls, CheckExpired(k)
      PROVE  TInv'
  BY <1>4 DEF TypeOK, ArgumentsHeld, NeverLocal, CheckExpired, Stages, Rules
<1>5. ASSUME NEW k \in Calls, CheckStatic(k)
      PROVE  TInv'
  <2>1. StaticViolations(intent[k], cap[k]) \subseteq Rules
    BY DEF StaticViolations
  <2>2. QED
    BY <1>5, <2>1 DEF TypeOK, ArgumentsHeld, NeverLocal, CheckStatic, Stages
<1>6. ASSUME NEW k \in Calls, Stamp(k)
      PROVE  TInv'
  BY <1>6, <1>a DEF TypeOK, ArgumentsHeld, NeverLocal, Stamp, Stages
<1>7. ASSUME NEW k \in Calls, StorageAppend(k)
      PROVE  TInv'
  <2>1. /\ intent[k].agent_id \in Agents
        /\ SpendRow(k) \in Row
    BY <1>7, RowsOfCalls DEF StorageAppend
  <2>2. Append(spend[intent[k].agent_id], SpendRow(k)) \in Seq(Row)
    BY <2>1 DEF TypeOK
  <2>3. Retained(Append(spend[intent[k].agent_id], SpendRow(k))) \in Seq(Row)
    BY <2>2, RetainedType
  <2>4. TypeOK'
    BY <1>7, <2>1, <2>3 DEF TypeOK, StorageAppend, Stages
  <2>5. ArgumentsHeld' /\ NeverLocal'
    BY <1>7 DEF TypeOK, ArgumentsHeld, NeverLocal, StorageAppend
  <2>6. QED
    BY <2>4, <2>5
<1>8. ASSUME NEW k \in Calls, LocalPrune(k)
      PROVE  TInv'
  <2>1. spend[intent[k].agent_id] \in Seq(Row)
    BY <1>8, RowsOfCalls DEF LocalPrune, TypeOK
  <2>2. Pruned(spend[intent[k].agent_id], WindowStart(k)) \in Seq(Row)
    BY <2>1, PrunedRows
  <2>3. QED
    BY <1>8, <2>2 DEF TypeOK, ArgumentsHeld, NeverLocal, LocalPrune, Stages
<1>14. ASSUME NEW k \in Calls, LocalAssign(k)
      PROVE  TInv'
  <2>1. intent[k].agent_id \in Agents /\ kept[k] \in Seq(Row)
    BY <1>14, RegistryAssumption DEF LocalAssign, TypeOK, ArgumentsHeld
  <2>2. TypeOK'
    BY <1>14, <2>1 DEF TypeOK, LocalAssign, Stages
  <2>3. ArgumentsHeld' /\ NeverLocal'
    BY <1>14 DEF TypeOK, ArgumentsHeld, NeverLocal, LocalAssign
  <2>4. QED
    BY <2>2, <2>3
<1>15. ASSUME NEW k \in Calls, LocalAppend(k)
      PROVE  TInv'
  <2>1. intent[k].agent_id \in Agents /\ SpendRow(k) \in Row
    BY <1>15, RowsOfCalls DEF LocalAppend
  <2>2. Append(spend[intent[k].agent_id], SpendRow(k)) \in Seq(Row)
    BY <2>1 DEF TypeOK
  <2>3. TypeOK'
    BY <1>15, <2>1, <2>2 DEF TypeOK, LocalAppend, Stages
  <2>4. ArgumentsHeld' /\ NeverLocal'
    BY <1>15 DEF TypeOK, ArgumentsHeld, NeverLocal, LocalAppend
  <2>5. QED
    BY <2>3, <2>4
<1>9. ASSUME NEW k \in Calls, SumToday(k)
      PROVE  TInv'
  BY <1>9 DEF TypeOK, ArgumentsHeld, NeverLocal, SumToday, Stages, Rules
<1>10. CASE Tick
  BY <1>10 DEF TypeOK, ArgumentsHeld, NeverLocal, Tick, callVars
<1>11. CASE Restart
  <2>1. TypeOK'
    BY <1>11 DEF TypeOK, Restart, Stages
  <2>2. ArgumentsHeld' /\ NeverLocal'
    BY <1>11 DEF TypeOK, ArgumentsHeld, NeverLocal, Restart
  <2>3. QED
    BY <2>1, <2>2
<1>12. CASE UNCHANGED vars
  BY <1>12 DEF TypeOK, ArgumentsHeld, NeverLocal, vars, callVars
<1>13. QED
  BY <1>1, <1>2, <1>3, <1>4, <1>5, <1>6, <1>7, <1>8, <1>9, <1>10, <1>11, <1>12, <1>14,
     <1>15 DEF Next, Evaluate

\* With any backend every reachable state of the registry is well typed: no
\* call reads a grant, an intent or a timestamp it does not have.
THEOREM TypeCorrect == Spec => []TypeOK
<1>1. TInv => TypeOK
  BY DEF TInv
<1>2. QED
  BY TInvInit, TInvNext, <1>1, PTL DEF Spec

-------------------------------------------------------------------------------
(* Every attempt is charged exactly once *)

\* Some row of the log is this one, and no other row is of this call.
HasOneRow(log, row) ==
    \E n \in DOMAIN log : log[n] = row /\ \A m \in DOMAIN log \ {n} : log[m].by # row.by

\* ChargedOnce, by the parts the proofs use.
Charged(k) ==
    pc[k] \in {"appended", "done"} /\ now[k] # None /\ ~forgotten[intent[k].agent_id]

LEMMA ChargedOnceParts ==
    ChargedOnce <=> \A k \in Calls :
                        Charged(k) => HasOneRow(spend[intent[k].agent_id], SpendRow(k))
BY DEF ChargedOnce, Charged, HasOneRow, SpendRow

\* A step that leaves the logs alone, and takes no call past the charging,
\* disturbs neither part of the invariant.
LEMMA LogsUntouched ==
    ASSUME TInv, Unwritten, ChargedOnce, TInv', spend' = spend,
           \A k \in Calls : Charged(k)' =>
               Charged(k) /\ intent'[k] = intent[k] /\ now'[k] = now[k],
           \A k \in Calls : pc'[k] \in BeforeCharge => pc[k] \in BeforeCharge
    PROVE  Unwritten' /\ ChargedOnce'
<1>1. Unwritten'
  BY DEF Unwritten
<1>2. ChargedOnce'
  <2>1. SUFFICES ASSUME NEW k \in Calls, Charged(k)'
                 PROVE  HasOneRow(spend[intent[k].agent_id], SpendRow(k))'
    BY ChargedOnceParts DEF ChargedOnce, Charged, HasOneRow, SpendRow
  <2>2. HasOneRow(spend[intent[k].agent_id], SpendRow(k))
    BY <2>1, ChargedOnceParts
  <2>3. QED
    BY <2>1, <2>2 DEF HasOneRow, SpendRow
<1>3. QED
  BY <1>1, <1>2

\* A trimmed log holds no call that the log did not hold.
LEMMA RetainedRows ==
    ASSUME NEW log \in Seq(Row), NEW n \in DOMAIN Retained(log)
    PROVE  \E m \in DOMAIN log : Retained(log)[n] = log[m]
<1>1. Len(log) \in Nat /\ MaxRows \in Nat \ {0}
  BY RegistryAssumption
<1>2. CASE Backend = "durable" /\ Len(log) > MaxRows
  <2> DEFINE first == Len(log) - MaxRows + 1
  <2>1. \A i \in first .. Len(log) : log[i] \in Row
    BY <1>1, <1>2
  <2>2. /\ Len(SubSeq(log, first, Len(log))) = MaxRows
        /\ SubSeq(log, first, Len(log)) \in Seq(Row)
        /\ \A i \in 1 .. Len(log) - first + 1 :
              SubSeq(log, first, Len(log))[i] = log[first + i - 1]
    BY <1>1, <1>2, <2>1, SubSeqProperties
  <2>3. Retained(log) = SubSeq(log, first, Len(log))
    BY <1>2 DEF Retained
  <2>4. n \in 1 .. MaxRows
    BY <2>2, <2>3
  <2>5. first + n - 1 \in DOMAIN log /\ Retained(log)[n] = log[first + n - 1]
    BY <1>1, <1>2, <2>2, <2>3, <2>4
  <2>6. QED
    BY <2>5
<1>3. CASE ~(Backend = "durable" /\ Len(log) > MaxRows)
  BY <1>3 DEF Retained
<1>4. QED
  BY <1>2, <1>3

\* The charge itself.
LEMMA StorageAppendCharges ==
    ASSUME IInv, TInv', NEW j \in Calls, StorageAppend(j)
    PROVE  Unwritten' /\ ChargedOnce'
<1> DEFINE a == intent[j].agent_id
           log == Append(spend[a], SpendRow(j))
<1>1. /\ a \in Agents /\ SpendRow(j) \in Row /\ SpendRow(j).by = j
      /\ spend[a] \in Seq(Row) /\ pc[j] = "stamped"
  BY RowsOfCalls DEF IInv, TInv, TypeOK, StorageAppend
<1>2. /\ log \in Seq(Row)
      /\ DOMAIN log = DOMAIN spend[a] \cup {Len(spend[a]) + 1}
      /\ Len(spend[a]) + 1 \notin DOMAIN spend[a]
      /\ \A n \in DOMAIN spend[a] : log[n] = spend[a][n]
      /\ log[Len(spend[a]) + 1] = SpendRow(j)
  BY <1>1, AppendedRow
<1>3. /\ spend'[a] = Retained(log)
      /\ \A b \in Agents \ {a} : spend'[b] = spend[b]
      /\ forgotten'[a] = (forgotten[a] \/ Retained(log) # log)
      /\ \A b \in Agents \ {a} : forgotten'[b] = forgotten[b]
      /\ \A k \in Calls \ {j} : pc'[k] = pc[k]
      /\ pc'[j] = "appended" /\ intent' = intent /\ now' = now
      /\ intent[j].agent_id = a
  BY <1>1 DEF StorageAppend, IInv, TInv, TypeOK
<1> HIDE DEF a, log
<1>4. \A k \in Calls : pc[k] \in BeforeCharge =>
          \A b \in Agents : \A n \in DOMAIN spend[b] : spend[b][n].by # k
  BY DEF IInv, Unwritten
<1>5. Unwritten'
  <2>1. SUFFICES ASSUME NEW k \in Calls, NEW b \in Agents, NEW n \in DOMAIN spend'[b],
                        pc'[k] \in BeforeCharge
                 PROVE  spend'[b][n].by # k
    BY DEF Unwritten
  <2>2. k # j /\ pc'[k] = pc[k]
    BY <1>3, <2>1 DEF BeforeCharge
  <2>3. CASE b = a
    <3>1. PICK m \in DOMAIN log : Retained(log)[n] = log[m]
      BY <1>2, <1>3, <2>1, <2>3, RetainedRows
    <3>2. log[m].by # k
      BY <1>1, <1>2, <1>4, <2>1, <2>2
    <3>3. QED
      BY <1>3, <2>3, <3>1, <3>2
  <2>4. CASE b # a
    BY <1>3, <1>4, <2>1, <2>2, <2>4
  <2>5. QED
    BY <2>3, <2>4
<1>6. ChargedOnce'
  <2>1. SUFFICES ASSUME NEW k \in Calls, Charged(k)'
                 PROVE  HasOneRow(spend'[intent[k].agent_id], SpendRow(k))
    BY <1>3 DEF ChargedOnce, Charged, HasOneRow, SpendRow
  <2>2. now[k] # None /\ intent[k].agent_id \in Agents
    BY <1>3, <2>1, RegistryAssumption DEF Charged, IInv, TInv, ArgumentsHeld
  <2>3. SpendRow(k).by = k
    BY DEF SpendRow
  <2>4. CASE k = j
    <3>1. Retained(log) = log
      BY <1>1, <1>3, <2>1, <2>4 DEF Charged
    <3>2. \A m \in DOMAIN log \ {Len(spend[a]) + 1} : log[m].by # j
      BY <1>1, <1>2, <1>4 DEF BeforeCharge
    <3>3. HasOneRow(log, SpendRow(j))
      BY <1>1, <1>2, <3>2 DEF HasOneRow
    <3>4. QED
      BY <1>3, <2>4, <3>1, <3>3
  <2>5. CASE k # j /\ intent[k].agent_id = a
    <3>1. Retained(log) = log /\ ~forgotten[a]
      BY <1>1, <1>3, <2>1, <2>5 DEF Charged
    <3>2. Charged(k)
      BY <1>3, <2>1, <2>5, <3>1 DEF Charged
    <3>3. PICK n \in DOMAIN spend[a] :
              /\ spend[a][n] = SpendRow(k)
              /\ \A m \in DOMAIN spend[a] \ {n} : spend[a][m].by # k
      BY <2>3, <2>5, <3>2, ChargedOnceParts DEF IInv, HasOneRow
    <3>4. n \in DOMAIN log /\ log[n] = SpendRow(k)
      BY <1>2, <3>3
    <3>5. \A m \in DOMAIN log \ {n} : log[m].by # k
      BY <1>1, <1>2, <2>5, <3>3
    <3>6. QED
      BY <1>3, <2>3, <2>5, <3>1, <3>4, <3>5 DEF HasOneRow
  <2>6. CASE k # j /\ intent[k].agent_id # a
    <3>1. Charged(k)
      BY <1>3, <2>1, <2>2, <2>6 DEF Charged
    <3>2. HasOneRow(spend[intent[k].agent_id], SpendRow(k))
      BY <3>1, ChargedOnceParts DEF IInv
    <3>3. QED
      BY <1>3, <2>2, <2>6, <3>2
  <2>7. QED
    BY <2>4, <2>5, <2>6
<1>7. QED
  BY <1>5, <1>6

\* A restart keeps a log or marks it as forgotten.
LEMMA RestartCharges ==
    ASSUME IInv, TInv', Restart, StorageBacked
    PROVE  Unwritten' /\ ChargedOnce'
<1>1. /\ pc' = [k \in Calls |-> IF pc[k] \in {"ready", "done"} THEN pc[k] ELSE "dead"]
      /\ intent' = intent /\ now' = now
      /\ forgotten' = [a \in Agents |-> forgotten[a] \/ spend'[a] # spend[a]]
      /\ spend' = spend \/ spend' = [a \in Agents |-> <<>>]
  BY DEF Restart
<1>2. Unwritten'
  BY <1>1 DEF IInv, Unwritten, BeforeCharge
<1>3. ChargedOnce'
  <2>1. SUFFICES ASSUME NEW k \in Calls, Charged(k)'
                 PROVE  HasOneRow(spend'[intent[k].agent_id], SpendRow(k))
    BY <1>1 DEF ChargedOnce, Charged, HasOneRow, SpendRow
  <2>2. intent[k].agent_id \in Agents
    BY <1>1, <2>1, RegistryAssumption DEF Charged, IInv, TInv, ArgumentsHeld
  <2>3. Charged(k) /\ spend'[intent[k].agent_id] = spend[intent[k].agent_id]
    BY <1>1, <2>1, <2>2 DEF Charged
  <2>4. QED
    BY <2>3, ChargedOnceParts DEF IInv
<1>4. QED
  BY <1>2, <1>3

LEMMA IInvInit == Init => IInv
<1> SUFFICES ASSUME Init PROVE IInv
  OBVIOUS
<1>1. TInv
  BY TInvInit
<1>2. Unwritten /\ ChargedOnce
  BY DEF Init, Unwritten, ChargedOnce
<1>3. QED
  BY <1>1, <1>2 DEF IInv

LEMMA IInvNext ==
    ASSUME StorageBacked
    PROVE  IInv /\ [Next]_vars => IInv'
<1> SUFFICES ASSUME IInv, [Next]_vars PROVE IInv'
  OBVIOUS
<1>0. TInv /\ TInv' /\ Unwritten /\ ChargedOnce
  BY TInvNext DEF IInv
<1>1. SUFFICES Unwritten' /\ ChargedOnce'
  BY <1>0 DEF IInv
<1>2. CASE (\E c \in Capabilities : Grant(c)) \/ (\E a \in Agents : Revoke(a))
           \/ Tick \/ UNCHANGED vars
  <2>1. UNCHANGED <<spend, callVars, forgotten>>
    BY <1>2 DEF Grant, Revoke, Tick, vars
  <2>2. QED
    BY <1>0, <2>1, LogsUntouched DEF callVars, Charged, BeforeCharge
<1>3. ASSUME NEW k \in Calls, NEW i \in Intents, Lookup(k, i)
      PROVE  Unwritten' /\ ChargedOnce'
  <2>1. /\ spend' = spend /\ now' = now /\ forgotten' = forgotten
        /\ \A j \in Calls \ {k} : pc'[j] = pc[j] /\ intent'[j] = intent[j]
        /\ pc[k] = "ready" /\ now[k] = None
    BY <1>0, <1>3 DEF Lookup, TInv, TypeOK, ArgumentsHeld
  <2>2. QED
    BY <1>0, <2>1, LogsUntouched DEF Charged, BeforeCharge
<1>4. ASSUME NEW k \in Calls, CheckExpired(k) \/ CheckStatic(k) \/ Stamp(k)
      PROVE  Unwritten' /\ ChargedOnce'
  <2>1. /\ spend' = spend /\ intent' = intent /\ forgotten' = forgotten
        /\ \A j \in Calls \ {k} : pc'[j] = pc[j] /\ now'[j] = now[j]
        /\ pc[k] \in {"looked_up", "checked"} /\ now[k] = None
        /\ \/ pc'[k] \in {"checked", "stamped"}
           \/ pc'[k] = "done" /\ now'[k] = None
    BY <1>0, <1>4 DEF CheckExpired, CheckStatic, Stamp, TInv, TypeOK, ArgumentsHeld
  <2>2. QED
    BY <1>0, <2>1, LogsUntouched DEF Charged, BeforeCharge
<1>5. ASSUME NEW k \in Calls, StorageAppend(k)
      PROVE  Unwritten' /\ ChargedOnce'
  BY <1>0, <1>5, StorageAppendCharges
<1>6. ASSUME NEW k \in Calls, LocalPrune(k) \/ LocalAssign(k) \/ LocalAppend(k)
      PROVE  Unwritten' /\ ChargedOnce'
  BY <1>0, <1>6 DEF TInv, NeverLocal, LocalPrune, LocalAssign, LocalAppend, StorageBacked
<1>7. ASSUME NEW k \in Calls, SumToday(k)
      PROVE  Unwritten' /\ ChargedOnce'
  <2>1. /\ spend' = spend /\ intent' = intent /\ forgotten' = forgotten /\ now' = now
        /\ \A j \in Calls \ {k} : pc'[j] = pc[j]
        /\ pc[k] = "appended" /\ pc'[k] = "done"
    BY <1>0, <1>7 DEF SumToday, TInv, TypeOK
  <2>2. QED
    BY <1>0, <2>1, LogsUntouched DEF Charged, BeforeCharge
<1>8. CASE Restart
  BY <1>0, <1>8, RestartCharges
<1>9. QED
  BY <1>2, <1>3, <1>4, <1>5, <1>6, <1>7, <1>8 DEF Next, Evaluate

\* With a storage backend an attempt that reached the daily limit is in the
\* log exactly once, with the amount it declared, whatever is granted,
\* revoked, restarted or evaluated around it, until a trim or a restart is
\* known to have cost rows.
THEOREM EveryAttemptIsChargedOnce == StorageBacked => (Spec => []ChargedOnce)
<1>1. SUFFICES ASSUME StorageBacked PROVE Spec => []ChargedOnce
  OBVIOUS
<1>2. IInv => ChargedOnce
  BY DEF IInv
<1>3. QED
  BY IInvInit, IInvNext, <1>2, <1>1, PTL DEF Spec

-------------------------------------------------------------------------------
(* A durable log only grows *)

\* Every trim was to MaxRows rows, so a log is never longer.
Trimmed == TInv /\ \A a \in Agents : Len(spend[a]) <= MaxRows

\* An append leaves the old log as a prefix, or drops its oldest row.
LEMMA AppendGrows ==
    ASSUME Backend = "durable", NEW s \in Seq(Row), Len(s) <= MaxRows, NEW row \in Row
    PROVE  \/ IsPrefix(s, Retained(Append(s, row)))
           \/ /\ Len(s) = MaxRows /\ Len(Retained(Append(s, row))) = MaxRows
              /\ SubSeq(Retained(Append(s, row)), 1, MaxRows - 1) = Tail(s)
<1> DEFINE log == Append(s, row)
<1>1. /\ MaxRows \in Nat \ {0} /\ Len(s) \in Nat
      /\ log \in Seq(Row) /\ Len(log) = Len(s) + 1
      /\ \A i \in 1 .. Len(s) : log[i] = s[i]
  BY RegistryAssumption
<1> HIDE DEF log
<1>2. CASE Len(s) < MaxRows
  <2>1. Retained(log) = log
    BY <1>1, <1>2 DEF Retained
  <2>2. SubSeq(log, 1, Len(s)) = SubSeq(s, 1, Len(s))
    BY <1>1
  <2>3. QED
    BY <1>1, <2>1, <2>2 DEF IsPrefix, log
<1>3. CASE Len(s) = MaxRows
  <2> DEFINE newest == SubSeq(log, 2, MaxRows + 1)
  <2>1. Retained(log) = newest
    BY <1>1, <1>3 DEF Retained
  <2>2. /\ newest \in Seq(Row) /\ Len(newest) = MaxRows
        /\ \A i \in 1 .. MaxRows : newest[i] = log[i + 1]
    BY <1>1, <1>3
  <2> HIDE DEF newest
  <2>3. /\ Tail(s) \in Seq(Row) /\ Len(Tail(s)) = MaxRows - 1
        /\ \A i \in 1 .. MaxRows - 1 : Tail(s)[i] = s[i + 1]
    BY <1>1, <1>3
  <2>4. /\ SubSeq(newest, 1, MaxRows - 1) \in Seq(Row)
        /\ Len(SubSeq(newest, 1, MaxRows - 1)) = MaxRows - 1
        /\ \A i \in 1 .. MaxRows - 1 : SubSeq(newest, 1, MaxRows - 1)[i] = newest[i]
    BY <1>1, <2>2
  <2>5. \A i \in 1 .. MaxRows - 1 : SubSeq(newest, 1, MaxRows - 1)[i] = Tail(s)[i]
    BY <1>1, <1>3, <2>2, <2>3, <2>4
  <2>6. SubSeq(newest, 1, MaxRows - 1) = Tail(s)
    BY <2>3, <2>4, <2>5, SeqEqual
  <2>7. QED
    BY <1>3, <2>1, <2>2, <2>6 DEF log
<1>4. QED
  BY <1>1, <1>2, <1>3

LEMMA TrimmedInit == Init => Trimmed
BY TInvInit, RegistryAssumption DEF Init, Trimmed

\* The one action that writes a durable log, and all the others.
LEMMA DurableWrites ==
    ASSUME Backend = "durable", TInv, [Next]_vars
    PROVE  \/ spend' = spend
           \/ \E k \in Calls :
                 /\ intent[k].agent_id \in Agents /\ SpendRow(k) \in Row
                 /\ spend' = [spend EXCEPT ![intent[k].agent_id] =
                                 Retained(Append(@, SpendRow(k)))]
<1>1. ASSUME NEW k \in Calls, Evaluate(k), spend' # spend
      PROVE  StorageAppend(k)
  BY <1>1 DEF Evaluate, Lookup, CheckExpired, CheckStatic, Stamp, SumToday, TInv,
              NeverLocal, StorageBacked, LocalPrune, LocalAssign, LocalAppend
<1>2. ASSUME NEW k \in Calls, StorageAppend(k)
      PROVE  /\ intent[k].agent_id \in Agents /\ SpendRow(k) \in Row
             /\ spend' = [spend EXCEPT ![intent[k].agent_id] =
                             Retained(Append(@, SpendRow(k)))]
  BY <1>2, RowsOfCalls DEF StorageAppend, TInv, TypeOK
<1>3. QED
  BY <1>1, <1>2 DEF Next, Grant, Revoke, Tick, Restart, vars

LEMMA TrimmedNext ==
    ASSUME Backend = "durable"
    PROVE  Trimmed /\ [Next]_vars => Trimmed' /\ LogGrows
<1> SUFFICES ASSUME Trimmed, [Next]_vars PROVE Trimmed' /\ LogGrows
  OBVIOUS
<1>1. TInv /\ TInv' /\ \A a \in Agents : spend[a] \in Seq(Row) /\ Len(spend[a]) <= MaxRows
  BY TInvNext DEF Trimmed, StorageBacked, TInv, TypeOK
<1>2. \A a \in Agents : IsPrefix(spend[a], spend[a])
  BY <1>1 DEF IsPrefix
<1>3. CASE spend' = spend
  BY <1>1, <1>2, <1>3 DEF Trimmed, LogGrows
<1>4. ASSUME NEW k \in Calls, intent[k].agent_id \in Agents, SpendRow(k) \in Row,
             spend' = [spend EXCEPT ![intent[k].agent_id] =
                          Retained(Append(@, SpendRow(k)))]
      PROVE  Trimmed' /\ LogGrows
  <2> DEFINE a == intent[k].agent_id
  <2>1. /\ spend'[a] = Retained(Append(spend[a], SpendRow(k)))
        /\ \A b \in Agents \ {a} : spend'[b] = spend[b]
    BY <1>1, <1>4 DEF TInv, TypeOK
  <2>2. Append(spend[a], SpendRow(k)) \in Seq(Row)
    BY <1>1, <1>4
  <2>3. Len(spend'[a]) <= MaxRows
    BY <2>1, <2>2, RetainedType
  <2>4. Trimmed'
    BY <1>1, <2>1, <2>3 DEF Trimmed
  <2>5. \/ IsPrefix(spend[a], spend'[a])
        \/ /\ Len(spend[a]) = MaxRows /\ Len(spend'[a]) = MaxRows
           /\ SubSeq(spend'[a], 1, MaxRows - 1) = Tail(spend[a])
    BY <1>1, <1>4, <2>1, AppendGrows
  <2>6. LogGrows
    BY <1>2, <2>1, <2>5 DEF LogGrows
  <2>7. QED
    BY <2>4, <2>6
<1>5. QED
  BY <1>1, <1>3, <1>4, DurableWrites

\* With a database no step of an operator, of a restart or of an evaluation
\* takes back a charge: a log grows at its end, and only the oldest row of a
\* full one goes.
THEOREM DurableLogOnlyGrows == Backend = "durable" => (Spec => LogOnlyGrows)
<1>1. SUFFICES ASSUME Backend = "durable" PROVE Spec => LogOnlyGrows
  OBVIOUS
<1>2. QED
  BY TrimmedInit, TrimmedNext, <1>1, PTL DEF Spec, LogOnlyGrows

-------------------------------------------------------------------------------
(* The daily limit *)

\* Only a grant with a daily limit gets a call to the spend log.
Metered == {"checked", "stamped", "pruned", "assigned", "appended"}

LimitKnown ==
    \A k \in Calls :
        pc[k] \in Metered => cap[k].max_daily_amount \in Nat

\* There is an end to the calls that have begun.
BegunAreFinite == IsFiniteSet({k \in Calls : pc[k] # "ready"})

\* A call about to add up its window finds the rows of all the attempts that
\* were charged in it.
WindowsFound ==
    \A k, j \in Calls :
        /\ pc[k] = "appended" /\ Charged(j)
        /\ intent[j].agent_id = intent[k].agent_id
        /\ InWindow(SpendRow(j), WindowStart(k))
        => HasOneRow(spend[intent[k].agent_id], SpendRow(j))

\* Beside these and WindowsFound, DailyLimit is inductive with any backend:
\* the last of the approved calls to add up its window found the rows of all
\* the others.
DInv == TInv /\ LimitKnown /\ BegunAreFinite /\ DailyLimit

\* A step that leaves the approved calls as they were, and brings no lost row
\* back, keeps the limit.
LEMMA ApprovedUntouched ==
    ASSUME DailyLimit,
           \A k \in Calls : Approved(k)' <=> Approved(k),
           \A k \in Calls : Approved(k) =>
               intent'[k] = intent[k] /\ cap'[k] = cap[k] /\ now'[k] = now[k],
           \A a \in Agents : forgotten[a] => forgotten'[a]
    PROVE  DailyLimit'
<1> SUFFICES ASSUME NEW a \in Agents, NEW start \in -Window .. MaxTime,
                    ~forgotten'[a], ApprovedIn(a, start)' # {}
             PROVE  \E k \in ApprovedIn(a, start)' :
                       SumFunction([j \in ApprovedIn(a, start)' |-> intent'[j].amount])
                           <= cap'[k].max_daily_amount
  BY DEF DailyLimit
<1>1. ApprovedIn(a, start)' = ApprovedIn(a, start)
  BY DEF ApprovedIn
<1>2. \A j \in ApprovedIn(a, start) :
          intent'[j] = intent[j] /\ cap'[j] = cap[j]
  BY DEF ApprovedIn
<1>3. [j \in ApprovedIn(a, start)' |-> intent'[j].amount]
          = [j \in ApprovedIn(a, start) |-> intent[j].amount]
  BY <1>1, <1>2
<1>4. PICK k \in ApprovedIn(a, start) :
          SumFunction([j \in ApprovedIn(a, start) |-> intent[j].amount])
              <= cap[k].max_daily_amount
  BY <1>1 DEF DailyLimit
<1> QED
  BY <1>1, <1>2, <1>3, <1>4

\* A call that adds up its window counts every attempt that was charged in it:
\* the sum of any charged attempts of its agent is at most its total.
LEMMA ChargedAreCounted ==
    ASSUME TInv, NEW k \in Calls,
           NEW S \in SUBSET Calls, IsFiniteSet(S),
           \A j \in S :
              /\ intent[j] \in Intents /\ intent[j].agent_id = intent[k].agent_id
              /\ InWindow(SpendRow(j), WindowStart(k))
              /\ HasOneRow(spend[intent[k].agent_id], SpendRow(j)),
           intent[k] \in Intents
    PROVE  /\ SumFunction([j \in S |-> intent[j].amount]) \in Nat
           /\ TotalToday(k) \in Nat
           /\ SumFunction([j \in S |-> intent[j].amount]) <= TotalToday(k)
<1> DEFINE log == spend[intent[k].agent_id]
           counted == Counted(k)
           f == [j \in S |-> intent[j].amount]
           g == [i \in counted |-> log[i].a]
           to == [j \in S |-> CHOOSE n \in DOMAIN log : log[n] = SpendRow(j)]
<1>1. intent[k].agent_id \in Agents /\ log \in Seq(Row)
  BY RegistryAssumption DEF TInv, TypeOK
<1>2. DOMAIN log = 1 .. Len(log) /\ Len(log) \in Nat /\ \A i \in DOMAIN log : log[i] \in Row
  BY <1>1
<1>3. counted \subseteq DOMAIN log /\ IsFiniteSet(counted)
  <2>1. counted \subseteq 1 .. Len(log)
    BY <1>2 DEF Counted
  <2>2. IsFiniteSet(1 .. Len(log))
    BY <1>2, FS_Interval
  <2> QED
    BY <1>2, <2>1, <2>2, FS_Subset
<1>4. \A i \in counted : g[i] \in Nat
  BY <1>2, <1>3 DEF Row
<1>5. \A j \in S : f[j] \in Nat
  BY RegistryAssumption
<1>6. \A j \in S : to[j] \in DOMAIN log /\ log[to[j]] = SpendRow(j)
  <2> TAKE j \in S
  <2>1. \E n \in DOMAIN log : log[n] = SpendRow(j)
    BY DEF HasOneRow
  <2> QED
    BY <2>1
<1>7. \A j \in S : to[j] \in counted
  BY <1>6 DEF Counted
<1>8. /\ \A j \in S : f[j] = intent[j].amount
      /\ \A i \in counted : g[i] = log[i].a
      /\ \A j \in S : SpendRow(j).a = intent[j].amount /\ SpendRow(j).by = j
  BY DEF SpendRow
<1>9. TotalToday(k) = SumFunctionOnSet(g, counted)
  BY DEF TotalToday, SumFunction
<1>10. SumFunction(f) = SumFunctionOnSet(f, S)
  BY DEF SumFunction
<1> HIDE DEF f, g, to, counted
<1>11. \A j \in S : to[j] \in counted /\ f[j] <= g[to[j]]
  <2> TAKE j \in S
  <2>1. g[to[j]] = f[j] /\ f[j] \in Nat
    BY <1>5, <1>6, <1>7, <1>8
  <2> QED
    BY <1>7, <2>1
<1>12. \A i, j \in S : to[i] = to[j] => i = j
  <2>1. \A j \in S : log[to[j]].by = j
    BY <1>6, <1>8
  <2> QED
    BY <2>1
<1>13. SumFunctionOnSet(f, S) \in Nat /\ SumFunctionOnSet(g, counted) \in Nat
  BY <1>3, <1>4, <1>5, SumIsNatural
<1>14. SumFunctionOnSet(f, S) <= SumFunctionOnSet(g, counted)
  BY <1>3, <1>4, <1>5, <1>11, <1>12, SumAtMost
<1>15. /\ SumFunction(f) \in Nat /\ TotalToday(k) \in Nat
       /\ SumFunction(f) <= TotalToday(k)
  BY <1>9, <1>10, <1>13, <1>14
<1> QED
  BY <1>15 DEF f

\* The step that approves: it was decided over the rows of everybody before.
LEMMA SumTodayLimits ==
    ASSUME DInv, WindowsFound, NEW k \in Calls, SumToday(k)
    PROVE  DailyLimit'
<1>1. /\ TInv /\ DailyLimit
      /\ pc[k] = "appended" /\ pc' = [pc EXCEPT ![k] = "done"]
      /\ intent' = intent /\ cap' = cap /\ now' = now /\ forgotten' = forgotten
      /\ violations' = [violations EXCEPT ![k] =
                          IF TotalToday(k) > cap[k].max_daily_amount
                          THEN @ \cup {"capability_daily_limit_exceeded"} ELSE @]
  BY DEF DInv, SumToday
<1>2. /\ intent[k] \in Intents /\ now[k] \in Int /\ now[k] # None
      /\ cap[k].max_daily_amount \in Nat
  BY <1>1, RegistryAssumption DEF TInv, ArgumentsHeld, DInv, LimitKnown, Metered
<1>3. \A j \in Calls \ {k} : pc'[j] = pc[j] /\ violations'[j] = violations[j]
  BY <1>1 DEF TInv, TypeOK
<1>4. pc'[k] = "done" /\ ~Approved(k)
  BY <1>1 DEF TInv, TypeOK, Approved
<1>5. CASE ~Approved(k)'
  <2>1. \A j \in Calls : Approved(j)' <=> Approved(j)
    BY <1>1, <1>3, <1>4, <1>5 DEF Approved
  <2> QED
    BY <1>1, <2>1, ApprovedUntouched
<1>6. CASE Approved(k)'
  <2>1. ~(TotalToday(k) > cap[k].max_daily_amount)
    BY <1>1, <1>6 DEF Approved, TInv, TypeOK
  <2>2. SUFFICES ASSUME NEW a \in Agents, NEW start \in -Window .. MaxTime,
                        ~forgotten[a], ApprovedIn(a, start)' # {}
                 PROVE  \E i \in ApprovedIn(a, start)' :
                           SumFunction([j \in ApprovedIn(a, start)' |-> intent[j].amount])
                               <= cap[i].max_daily_amount
    BY <1>1 DEF DailyLimit
  <2>3. PICK S : S = ApprovedIn(a, start)'
    OBVIOUS
  <2>4. CASE k \notin S
    <3>1. S = ApprovedIn(a, start)
      BY <1>1, <1>3, <2>3, <2>4, <1>4 DEF ApprovedIn, Approved
    <3> QED
      BY <1>1, <2>2, <2>3, <3>1 DEF DailyLimit
  <2>5. CASE k \in S
    <3>1. \A j \in S :
              /\ j \in Calls /\ now[j] # None /\ intent[j].agent_id = a
              /\ pc[j] \in {"appended", "done"}
              /\ start < now[j] /\ now[j] <= start + Window
      BY <1>1, <1>3, <2>3 DEF ApprovedIn, Approved
    <3>2. S \in SUBSET Calls /\ IsFiniteSet(S)
      <4>1. S \subseteq {j \in Calls : pc[j] # "ready"}
        BY <3>1
      <4> QED
        BY <4>1, FS_Subset DEF DInv, BegunAreFinite
    <3>3. \A j \in S : intent[j] \in Intents /\ now[j] \in Int
      BY <1>1, <3>1 DEF TInv, TypeOK, ArgumentsHeld
    <3>4. intent[k].agent_id = a
      BY <2>5, <3>1
    <3>5. \A j \in S : InWindow(SpendRow(j), WindowStart(k))
      <4> TAKE j \in S
      <4>1. now[j] \in Int /\ start < now[j]
        BY <3>1, <3>3
      <4>2. now[k] <= start + Window
        BY <2>5, <3>1
      <4>3. Window \in Int /\ start \in Int
        BY RegistryAssumption
      <4>4. now[j] > now[k] - Window
        BY <1>2, <4>1, <4>2, <4>3
      <4> QED
        BY <4>4 DEF InWindow, SpendRow, WindowStart
    <3>6. \A j \in S : HasOneRow(spend[a], SpendRow(j))
      BY <1>1, <2>2, <3>1, <3>4, <3>5 DEF Charged, WindowsFound
    <3>7. \A j \in S :
              /\ intent[j] \in Intents /\ intent[j].agent_id = intent[k].agent_id
              /\ InWindow(SpendRow(j), WindowStart(k))
              /\ HasOneRow(spend[intent[k].agent_id], SpendRow(j))
      BY <3>1, <3>3, <3>4, <3>5, <3>6
    <3>8. /\ SumFunction([j \in S |-> intent[j].amount]) \in Nat
          /\ TotalToday(k) \in Nat
          /\ SumFunction([j \in S |-> intent[j].amount]) <= TotalToday(k)
      BY <1>1, <1>2, <3>2, <3>7, ChargedAreCounted
    <3>9. SumFunction([j \in S |-> intent[j].amount]) <= cap[k].max_daily_amount
      BY <1>2, <2>1, <3>8
    <3> QED
      BY <2>3, <2>5, <3>9
  <2> QED
    BY <2>4, <2>5
<1> QED
  BY <1>5, <1>6

LEMMA LimitKnownNext ==
    ASSUME DInv, [Next]_vars
    PROVE  LimitKnown' /\ BegunAreFinite'
<1> DEFINE Begun == {k \in Calls : pc[k] # "ready"}
<1>1. TInv /\ LimitKnown /\ IsFiniteSet(Begun)
  BY DEF DInv, BegunAreFinite
<1>2. ASSUME NEW k \in Calls, NEW i \in Intents, Lookup(k, i)
      PROVE  LimitKnown' /\ BegunAreFinite'
  <2>1. \A j \in Calls \ {k} : pc'[j] = pc[j] /\ cap'[j] = cap[j]
    BY <1>1, <1>2 DEF Lookup, TInv, TypeOK
  <2>2. pc'[k] \in {"done", "looked_up"}
    BY <1>1, <1>2 DEF Lookup, TInv, TypeOK
  <2>3. LimitKnown'
    BY <1>1, <2>1, <2>2 DEF LimitKnown, Metered
  <2>4. Begun' = Begun \cup {k}
    BY <2>1, <2>2
  <2>5. IsFiniteSet(Begun \cup {k})
    BY <1>1, FS_AddElement
  <2> QED
    BY <2>3, <2>4, <2>5 DEF BegunAreFinite
<1>3. ASSUME NEW k \in Calls,
             \/ CheckExpired(k) \/ CheckStatic(k) \/ Stamp(k) \/ StorageAppend(k)
             \/ LocalPrune(k) \/ LocalAssign(k) \/ LocalAppend(k) \/ SumToday(k)
      PROVE  LimitKnown' /\ BegunAreFinite'
  <2>1. /\ cap' = cap /\ \A j \in Calls \ {k} : pc'[j] = pc[j]
        /\ pc[k] # "ready" /\ pc'[k] # "ready"
    BY <1>1, <1>3 DEF CheckExpired, CheckStatic, Stamp, StorageAppend, LocalPrune, LocalAssign,
                      LocalAppend, SumToday, TInv, TypeOK
  <2>2. Begun' = Begun
    BY <2>1
  <2>3. pc'[k] \in Metered => cap[k].max_daily_amount \in Nat
    <3>1. CASE CheckExpired(k)
      BY <1>1, <3>1 DEF CheckExpired, TInv, TypeOK, Metered
    <3>2. CASE CheckStatic(k)
      <4>1. cap[k] \in Capabilities
        BY <1>1, <3>2 DEF CheckStatic, TInv, ArgumentsHeld
      <4>2. cap[k].max_daily_amount \in Nat \cup {None}
        BY <4>1, RegistryAssumption DEF Capability
      <4>3. pc'[k] = IF cap[k].max_daily_amount = None THEN "done" ELSE "checked"
        BY <1>1, <3>2 DEF CheckStatic, TInv, TypeOK
      <4> QED
        BY <4>2, <4>3 DEF Metered
    <3>3. CASE Stamp(k)
      BY <1>1, <3>3 DEF Stamp, LimitKnown, Metered
    <3>4. CASE StorageAppend(k) \/ LocalPrune(k) \/ LocalAssign(k) \/ LocalAppend(k)
      BY <1>1, <3>4 DEF StorageAppend, LocalPrune, LocalAssign, LocalAppend, LimitKnown, Metered
    <3>5. CASE SumToday(k)
      BY <1>1, <3>5 DEF SumToday, TInv, TypeOK, Metered
    <3> QED
      BY <1>3, <3>1, <3>2, <3>3, <3>4, <3>5
  <2>4. LimitKnown'
    BY <1>1, <2>1, <2>3 DEF LimitKnown
  <2> QED
    BY <1>1, <2>2, <2>4 DEF BegunAreFinite
<1>5. CASE Restart
  <2>1. /\ pc' = [k \in Calls |-> IF pc[k] \in {"ready", "done"} THEN pc[k] ELSE "dead"]
        /\ cap' = cap
    BY <1>5 DEF Restart
  <2>2. Begun' = Begun
    BY <2>1
  <2>3. LimitKnown'
    BY <1>1, <2>1 DEF LimitKnown, Metered
  <2> QED
    BY <1>1, <2>2, <2>3 DEF BegunAreFinite
<1>6. CASE (\E c \in Capabilities : Grant(c)) \/ (\E a \in Agents : Revoke(a))
           \/ Tick \/ UNCHANGED vars
  <2>1. UNCHANGED callVars
    BY <1>6 DEF Grant, Revoke, Tick, vars
  <2> QED
    BY <1>1, <2>1 DEF callVars, LimitKnown, BegunAreFinite
<1> QED
  BY <1>2, <1>3, <1>5, <1>6 DEF Next, Evaluate

LEMMA DInvInit == Init => DInv
<1> SUFFICES ASSUME Init PROVE DInv
  OBVIOUS
<1>1. TInv /\ LimitKnown
  BY TInvInit DEF Init, LimitKnown, Metered
<1>2. {k \in Calls : pc[k] # "ready"} = {}
  BY DEF Init
<1>3. BegunAreFinite
  BY <1>2, FS_EmptySet DEF BegunAreFinite
<1>4. \A a \in Agents : \A start \in -Window .. MaxTime : ApprovedIn(a, start) = {}
  BY DEF Init, ApprovedIn, Approved
<1>5. DailyLimit
  BY <1>4 DEF DailyLimit
<1> QED
  BY <1>1, <1>3, <1>5 DEF DInv

LEMMA DInvNext == DInv /\ WindowsFound /\ [Next]_vars => DInv'
<1> SUFFICES ASSUME DInv, WindowsFound, [Next]_vars PROVE DInv'
  OBVIOUS
<1>1. TInv' /\ LimitKnown' /\ BegunAreFinite'
  BY TInvNext, LimitKnownNext DEF DInv
<1>2. TInv /\ DailyLimit
  BY DEF DInv
<1> SUFFICES DailyLimit'
  BY <1>1 DEF DInv
<1>3. ASSUME NEW k \in Calls, NEW i \in Intents, Lookup(k, i)
      PROVE  DailyLimit'
  <2>1. /\ \A j \in Calls \ {k} : /\ pc'[j] = pc[j] /\ intent'[j] = intent[j]
                                  /\ cap'[j] = cap[j]
        /\ now' = now /\ violations' = violations /\ forgotten' = forgotten
        /\ now[k] = None
    BY <1>2, <1>3 DEF Lookup, TInv, TypeOK, ArgumentsHeld
  <2>2. \A j \in Calls : Approved(j)' <=> Approved(j)
    BY <2>1 DEF Approved
  <2>3. ~Approved(k)
    BY <2>1 DEF Approved
  <2> QED
    BY <1>2, <2>1, <2>2, <2>3, ApprovedUntouched
<1>4. ASSUME NEW k \in Calls, CheckExpired(k) \/ CheckStatic(k)
      PROVE  DailyLimit'
  <2>1. /\ \A j \in Calls \ {k} : pc'[j] = pc[j] /\ violations'[j] = violations[j]
        /\ now' = now /\ intent' = intent /\ cap' = cap /\ forgotten' = forgotten
        /\ now[k] = None
    BY <1>2, <1>4 DEF CheckExpired, CheckStatic, TInv, TypeOK, ArgumentsHeld
  <2>2. \A j \in Calls : Approved(j)' <=> Approved(j)
    BY <2>1 DEF Approved
  <2> QED
    BY <1>2, <2>1, <2>2, ApprovedUntouched
<1>5. ASSUME NEW k \in Calls,
             \/ Stamp(k) \/ StorageAppend(k)
             \/ LocalPrune(k) \/ LocalAssign(k) \/ LocalAppend(k)
      PROVE  DailyLimit'
  <2>1. /\ \A j \in Calls \ {k} : pc'[j] = pc[j] /\ now'[j] = now[j]
        /\ violations' = violations /\ intent' = intent /\ cap' = cap
        /\ pc[k] # "done" /\ pc'[k] # "done"
    BY <1>2, <1>5 DEF Stamp, StorageAppend, LocalPrune, LocalAssign, LocalAppend, TInv, TypeOK
  <2>2. \A a \in Agents : forgotten[a] => forgotten'[a]
    BY <1>2, <1>5 DEF Stamp, StorageAppend, LocalPrune, LocalAssign, LocalAppend, TInv, TypeOK
  <2>3. \A j \in Calls : (Approved(j)' <=> Approved(j)) /\ (Approved(j) => j # k)
    BY <2>1 DEF Approved
  <2> QED
    BY <1>2, <2>1, <2>2, <2>3, ApprovedUntouched
<1>7. ASSUME NEW k \in Calls, SumToday(k)
      PROVE  DailyLimit'
  BY <1>7, SumTodayLimits
<1>8. CASE Restart
  <2>1. /\ pc' = [k \in Calls |-> IF pc[k] \in {"ready", "done"} THEN pc[k] ELSE "dead"]
        /\ intent' = intent /\ cap' = cap /\ now' = now /\ violations' = violations
        /\ forgotten' = [a \in Agents |-> forgotten[a] \/ spend'[a] # spend[a]]
    BY <1>8 DEF Restart
  <2>2. \A j \in Calls : Approved(j)' <=> Approved(j)
    BY <2>1 DEF Approved
  <2>3. \A a \in Agents : forgotten[a] => forgotten'[a]
    BY <2>1
  <2> QED
    BY <1>2, <2>1, <2>2, <2>3, ApprovedUntouched
<1>9. CASE (\E c \in Capabilities : Grant(c)) \/ (\E a \in Agents : Revoke(a))
           \/ Tick \/ UNCHANGED vars
  <2>1. UNCHANGED <<callVars, forgotten>>
    BY <1>9 DEF Grant, Revoke, Tick, vars
  <2>2. \A j \in Calls : Approved(j)' <=> Approved(j)
    BY <2>1 DEF Approved, callVars
  <2> QED
    BY <1>2, <2>1, <2>2, ApprovedUntouched DEF callVars
<1> QED
  BY <1>3, <1>4, <1>5, <1>7, <1>8, <1>9 DEF Next, Evaluate

\* A log that holds every charge holds those of the window.
LEMMA WholeLogFinds == IInv => WindowsFound
BY ChargedOnceParts DEF IInv, WindowsFound

-------------------------------------------------------------------------------
(* The in-process list, for one call at a time.  It drops rows, so          *)
(* ChargedOnce does not hold of it; what holds is that a dropped row has     *)
(* left the window of every call that can still count.                       *)

OneInFlight == \A j, k \in InFlight : j = k

\* No timestamp is ahead of the clock, which does not run backwards.
ClockAhead == \A k \in Calls : now[k] # None => now[k] <= clock

\* Nobody wrote the list between the pruning and the assignment.
KeptIsPruned ==
    \A k \in Calls :
        pc[k] = "pruned" => kept[k] = Pruned(spend[intent[k].agent_id], WindowStart(k))

\* The timestamp of a call is out of the window of the calls in flight, and of
\* those to come.
Left(j) ==
    /\ now[j] + Window <= clock
    /\ \A k \in InFlight : now[k] # None => now[j] + Window <= now[k]

ChargedOrLeft ==
    \A j \in Calls :
        Charged(j) => HasOneRow(spend[intent[j].agent_id], SpendRow(j)) \/ Left(j)

LInv ==
    /\ TInv /\ BegunAreFinite /\ OneInFlight
    /\ ClockAhead /\ KeptIsPruned /\ Unwritten /\ ChargedOrLeft

\* What an append, and what a pruning, do to the one row of a call.
LEMMA AppendKeepsRow ==
    ASSUME NEW log \in Seq(Row), NEW new \in Row, NEW row, row.by # new.by,
           HasOneRow(log, row)
    PROVE  HasOneRow(Append(log, new), row)
<1>1. PICK n \in DOMAIN log : log[n] = row /\ \A m \in DOMAIN log \ {n} : log[m].by # row.by
  BY DEF HasOneRow
<1>2. PICK more : more = Append(log, new)
  OBVIOUS
<1>3. /\ DOMAIN more = DOMAIN log \cup {Len(log) + 1} /\ Len(log) + 1 \notin DOMAIN log
      /\ \A m \in DOMAIN log : more[m] = log[m]
      /\ more[Len(log) + 1] = new
  BY <1>2, AppendedRow
<1>4. n \in DOMAIN more /\ more[n] = row /\ \A m \in DOMAIN more \ {n} : more[m].by # row.by
  BY <1>1, <1>3
<1>5. QED
  BY <1>2, <1>4 DEF HasOneRow

LEMMA AppendAddsRow ==
    ASSUME NEW log \in Seq(Row), NEW row \in Row, \A n \in DOMAIN log : log[n].by # row.by
    PROVE  HasOneRow(Append(log, row), row)
<1>1. PICK more : more = Append(log, row)
  OBVIOUS
<1>2. /\ DOMAIN more = DOMAIN log \cup {Len(log) + 1}
      /\ \A m \in DOMAIN log : more[m] = log[m]
      /\ more[Len(log) + 1] = row
  BY <1>1, AppendedRow
<1>3. /\ Len(log) + 1 \in DOMAIN more
      /\ \A m \in DOMAIN more \ {Len(log) + 1} : more[m].by # row.by
  BY <1>2
<1>4. QED
  BY <1>1, <1>2, <1>3 DEF HasOneRow

LEMMA PruneKeepsRow ==
    ASSUME NEW log \in Seq(Row), NEW start, NEW row, InWindow(row, start), HasOneRow(log, row)
    PROVE  HasOneRow(Pruned(log, start), row)
<1>1. PICK n \in DOMAIN log : log[n] = row /\ \A m \in DOMAIN log \ {n} : log[m].by # row.by
  BY DEF HasOneRow
<1>2. PICK rows : rows = Pruned(log, start)
  OBVIOUS
<1>3. /\ \A i \in DOMAIN rows : \E m \in 1 .. Len(log) : rows[i] = log[m] /\ InWindow(log[m], start)
      /\ \A m \in 1 .. Len(log) : InWindow(log[m], start) => \E i \in DOMAIN rows : rows[i] = log[m]
      /\ \A i, j \in DOMAIN rows :
            i # j => \E l, m \in 1 .. Len(log) : l # m /\ log[l] = rows[i] /\ log[m] = rows[j]
  <2>1. PrunesTo(rows, log, start, Len(log))
    BY <1>2, PrunedRows
  <2>2. QED
    BY <2>1 DEF PrunesTo
<1>4. DOMAIN log = 1 .. Len(log)
  OBVIOUS
<1>5. PICK i \in DOMAIN rows : rows[i] = row
  BY <1>1, <1>3, <1>4
<1>6. ASSUME NEW j \in DOMAIN rows, j # i  PROVE rows[j].by # row.by
  <2>1. PICK l \in 1 .. Len(log), m \in 1 .. Len(log) :
            l # m /\ log[l] = rows[i] /\ log[m] = rows[j]
    BY <1>3, <1>5, <1>6
  <2>2. l = n
    BY <1>1, <1>4, <1>5, <2>1
  <2>3. QED
    BY <1>1, <1>4, <2>1, <2>2
<1>7. QED
  BY <1>2, <1>5, <1>6 DEF HasOneRow

\* Every step of an evaluation but the first is a step of a call in flight,
\* and leaves the others where they are.
LEMMA OneMoves ==
    ASSUME TInv, ~StorageBacked, NEW k \in Calls, Evaluate(k)
    PROVE  /\ clock' = clock /\ forgotten' = forgotten
           /\ \A j \in Calls \ {k} : /\ pc'[j] = pc[j] /\ intent'[j] = intent[j]
                                     /\ now'[j] = now[j] /\ kept'[j] = kept[j]
           /\ k \in InFlight \/ \E i \in Intents : Lookup(k, i)
<1>1. CASE \E i \in Intents : Lookup(k, i)
  BY <1>1 DEF Lookup, TInv, TypeOK
<1>2. CASE CheckExpired(k) \/ CheckStatic(k) \/ Stamp(k) \/ SumToday(k)
  BY <1>2 DEF CheckExpired, CheckStatic, Stamp, SumToday, TInv, TypeOK, InFlight
<1>3. CASE LocalPrune(k) \/ LocalAssign(k) \/ LocalAppend(k)
  BY <1>3 DEF LocalPrune, LocalAssign, LocalAppend, TInv, TypeOK, InFlight
<1>4. QED
  BY <1>1, <1>2, <1>3 DEF Evaluate, StorageAppend

\* A call begins only when none is in flight.
LEMMA LookupAlone ==
    ASSUME BegunAreFinite, Threads = 1, NEW k \in Calls, NEW i \in Intents, Lookup(k, i)
    PROVE  InFlight = {}
<1>1. InFlight \subseteq {j \in Calls : pc[j] # "ready"}
  BY DEF InFlight
<1>2. IsFiniteSet(InFlight)
  BY <1>1, FS_Subset DEF BegunAreFinite
<1>3. Cardinality(InFlight) \in Nat /\ Cardinality(InFlight) < 1
  BY <1>2, FS_CardinalityType DEF Lookup
<1>4. Cardinality(InFlight) = 0
  BY <1>3
<1>5. QED
  BY <1>2, <1>4, FS_EmptySet

LEMMA OneInFlightNext ==
    ASSUME TInv, BegunAreFinite, OneInFlight, ~StorageBacked, Threads = 1, [Next]_vars
    PROVE  OneInFlight'
<1>1. ASSUME NEW k \in Calls, NEW i \in Intents, Lookup(k, i)
      PROVE  OneInFlight'
  <2>1. InFlight = {}
    BY <1>1, LookupAlone
  <2>2. \A j \in Calls \ {k} : pc'[j] = pc[j]
    BY <1>1 DEF Lookup, TInv, TypeOK
  <2>3. InFlight' \subseteq {k}
    BY <2>1, <2>2 DEF InFlight
  <2>4. QED
    BY <2>3 DEF OneInFlight
<1>2. ASSUME NEW k \in Calls, Evaluate(k), k \in InFlight
      PROVE  OneInFlight'
  <2>1. \A j \in Calls \ {k} : pc'[j] = pc[j]
    BY <1>2, OneMoves
  <2>2. InFlight' \subseteq InFlight
    BY <1>2, <2>1 DEF InFlight
  <2>3. QED
    BY <2>2 DEF OneInFlight
<1>3. CASE Restart
  <2>1. InFlight' = {}
    BY <1>3 DEF Restart, InFlight
  <2>2. QED
    BY <2>1 DEF OneInFlight
<1>4. CASE (\E c \in Capabilities : Grant(c)) \/ (\E a \in Agents : Revoke(a))
           \/ Tick \/ UNCHANGED vars
  <2>1. pc' = pc
    BY <1>4 DEF Grant, Revoke, Tick, vars, callVars
  <2>2. QED
    BY <2>1 DEF OneInFlight, InFlight
<1>5. QED
  BY <1>1, <1>2, <1>3, <1>4, OneMoves DEF Next

\* The pruned list stays the pruned list until it is assigned.
LEMMA KeptNext ==
    ASSUME TInv, TInv', BegunAreFinite, OneInFlight, KeptIsPruned,
           ~StorageBacked, Threads = 1, [Next]_vars
    PROVE  KeptIsPruned'
<1>1. SUFFICES ASSUME NEW j \in Calls, pc'[j] = "pruned"
               PROVE  kept'[j] = Pruned(spend'[intent'[j].agent_id], now'[j] - Window)
  BY DEF KeptIsPruned, WindowStart
<1>2. CASE pc[j] = "pruned" /\ kept'[j] = kept[j] /\ intent'[j] = intent[j]
           /\ now'[j] = now[j] /\ spend' = spend
  BY <1>2 DEF KeptIsPruned, WindowStart
<1>3. ASSUME NEW k \in Calls, Evaluate(k)
      PROVE  kept'[j] = Pruned(spend'[intent'[j].agent_id], now'[j] - Window)
  <2>1. CASE k = j
    <3>1. LocalPrune(j)
      BY <1>1, <1>3, <2>1 DEF Evaluate, Lookup, CheckExpired, CheckStatic, Stamp,
         StorageAppend, LocalAssign, LocalAppend, SumToday, TInv, TypeOK
    <3>2. QED
      BY <3>1 DEF LocalPrune, WindowStart, TInv, TypeOK
  <2>2. CASE k # j /\ k \in InFlight
    <3>1. pc[j] = "pruned"
      BY <1>1, <1>3, <2>2, OneMoves
    <3>2. j \in InFlight
      BY <3>1 DEF InFlight
    <3>3. QED
      BY <2>2, <3>2 DEF OneInFlight
  <2>3. CASE k # j /\ \E i \in Intents : Lookup(k, i)
    <3>1. spend' = spend
      BY <2>3 DEF Lookup
    <3>2. QED
      BY <1>1, <1>2, <1>3, <2>3, <3>1, OneMoves
  <2>4. QED
    BY <1>3, <2>1, <2>2, <2>3, OneMoves
<1>4. CASE Restart
  BY <1>1, <1>4 DEF Restart
<1>5. CASE (\E c \in Capabilities : Grant(c)) \/ (\E a \in Agents : Revoke(a))
           \/ Tick \/ UNCHANGED vars
  <2>1. UNCHANGED <<spend, callVars>>
    BY <1>5 DEF Grant, Revoke, Tick, vars
  <2>2. QED
    BY <1>1, <1>2, <2>1 DEF callVars
<1>6. QED
  BY <1>3, <1>4, <1>5 DEF Next

\* A timestamp stays behind the clock, and a call that has left the window
\* does not come back, whatever a step does that takes timestamps only from
\* the clock.
LEMMA TimePasses ==
    ASSUME TInv, TInv', ClockAhead, clock <= clock',
           \A k \in Calls : now'[k] # None =>
               now'[k] = now[k] \/ now'[k] = clock,
           \A k \in Calls : k \in InFlight' /\ now'[k] # None =>
               (k \in InFlight /\ now'[k] = now[k]) \/ now'[k] = clock
    PROVE  /\ ClockAhead'
           /\ \A j \in Calls : Left(j) /\ now[j] # None /\ now'[j] = now[j] => Left(j)'
<1>1. /\ clock \in Int /\ clock' \in Int /\ Window \in Int
      /\ \A k \in Calls : now[k] # None => now[k] \in Int
      /\ \A k \in Calls : now'[k] # None => now'[k] \in Int
  BY RegistryAssumption DEF TInv, TypeOK
<1>2. ClockAhead'
  BY <1>1 DEF ClockAhead
<1>3. ASSUME NEW j \in Calls, Left(j), now[j] # None, now'[j] = now[j]
      PROVE  Left(j)'
  <2>1. now[j] \in Int /\ now[j] + Window <= clock /\ now[j] + Window <= clock'
    BY <1>1, <1>3 DEF Left
  <2>2. \A k \in InFlight' : now'[k] # None => now[j] + Window <= now'[k]
    BY <1>3, <2>1 DEF Left, InFlight
  <2>3. QED
    BY <1>3, <2>1, <2>2 DEF Left
<1>4. QED
  BY <1>2, <1>3

\* A step that leaves the list alone, and takes no call past the charging,
\* keeps what is known of the charges.
LEMMA ListUntouched ==
    ASSUME TInv, Unwritten, ChargedOrLeft, spend' = spend,
           \A j \in Calls : Left(j) /\ now[j] # None /\ now'[j] = now[j] => Left(j)',
           \A k \in Calls : Charged(k)' =>
               Charged(k) /\ intent'[k] = intent[k] /\ now'[k] = now[k],
           \A k \in Calls : pc'[k] \in BeforeCharge => pc[k] \in BeforeCharge
    PROVE  Unwritten' /\ ChargedOrLeft'
<1>1. Unwritten'
  BY DEF Unwritten
<1>2. SUFFICES ASSUME NEW j \in Calls, Charged(j)'
               PROVE  (HasOneRow(spend[intent[j].agent_id], SpendRow(j)) \/ Left(j))'
  BY <1>1 DEF ChargedOrLeft
<1>3. Charged(j) /\ intent'[j] = intent[j] /\ now'[j] = now[j] /\ now[j] # None
  BY <1>2 DEF Charged
<1>4. CASE HasOneRow(spend[intent[j].agent_id], SpendRow(j))
  BY <1>3, <1>4 DEF HasOneRow, SpendRow
<1>5. CASE Left(j)
  BY <1>3, <1>5
<1>6. QED
  BY <1>3, <1>4, <1>5 DEF ChargedOrLeft

\* The assignment drops only rows that have left every window.
LEMMA AssignDrops ==
    ASSUME LInv, TInv', OneInFlight', NEW k \in Calls, LocalAssign(k),
           \A j \in Calls : Left(j) /\ now[j] # None /\ now'[j] = now[j] => Left(j)'
    PROVE  Unwritten' /\ ChargedOrLeft'
<1> DEFINE a == intent[k].agent_id
           log == spend[a]
           rows == Pruned(log, WindowStart(k))
<1>1. /\ pc[k] = "pruned" /\ pc'[k] = "assigned" /\ \A j \in Calls \ {k} : pc'[j] = pc[j]
      /\ intent' = intent /\ now' = now /\ forgotten' = forgotten /\ clock' = clock
      /\ a \in Agents /\ log \in Seq(Row)
      /\ spend'[a] = kept[k] /\ \A b \in Agents \ {a} : spend'[b] = spend[b]
      /\ now[k] \in Int /\ now[k] <= clock
  BY RegistryAssumption DEF LocalAssign, LInv, TInv, TypeOK, ArgumentsHeld, ClockAhead
<1>2. spend'[a] = rows
  BY <1>1 DEF LInv, KeptIsPruned
<1>3. \A i \in DOMAIN rows : \E m \in DOMAIN log : rows[i] = log[m]
  <2>1. PrunesTo(rows, log, WindowStart(k), Len(log))
    BY <1>1, PrunedRows
  <2> HIDE DEF rows
  <2>2. \A i \in DOMAIN rows : \E m \in 1 .. Len(log) : rows[i] = log[m]
    BY <2>1 DEF PrunesTo
  <2>3. QED
    BY <1>1, <2>2
<1>4. \A j \in Calls : pc[j] \in BeforeCharge =>
          \A b \in Agents : \A n \in DOMAIN spend[b] : spend[b][n].by # j
  BY DEF LInv, Unwritten
<1> HIDE DEF rows
<1>5. Unwritten'
  <2>1. SUFFICES ASSUME NEW j \in Calls, NEW b \in Agents, NEW n \in DOMAIN spend'[b],
                        pc'[j] \in BeforeCharge
                 PROVE  spend'[b][n].by # j
    BY DEF Unwritten
  <2>2. pc[j] \in BeforeCharge
    BY <1>1, <2>1 DEF BeforeCharge
  <2>3. CASE b = a
    <3>1. PICK m \in DOMAIN log : rows[n] = log[m]
      BY <1>2, <1>3, <2>1, <2>3
    <3>2. log[m].by # j
      BY <1>1, <1>4, <2>2
    <3>3. QED
      BY <1>2, <2>3, <3>1, <3>2
  <2>4. CASE b # a
    BY <1>1, <1>4, <2>1, <2>2, <2>4
  <2>5. QED
    BY <2>3, <2>4
<1>6. ASSUME NEW j \in Calls, Charged(j)'
      PROVE  (HasOneRow(spend[intent[j].agent_id], SpendRow(j)) \/ Left(j))'
  <2>1. /\ Charged(j) /\ intent'[j] = intent[j] /\ now'[j] = now[j] /\ now[j] # None
        /\ intent[j].agent_id \in Agents /\ now[j] \in Int
    BY <1>1, <1>6, RegistryAssumption DEF Charged, LInv, TInv, TypeOK, ArgumentsHeld
  <2>2. SpendRow(j)' = SpendRow(j) /\ SpendRow(j).t = now[j]
    BY <2>1 DEF SpendRow
  <2>3. CASE Left(j)
    BY <2>1, <2>3
  <2>4. CASE /\ HasOneRow(spend[intent[j].agent_id], SpendRow(j))
             /\ intent[j].agent_id # a
    <3>1. spend'[intent[j].agent_id] = spend[intent[j].agent_id]
      BY <1>1, <2>1, <2>4
    <3>2. HasOneRow(spend'[intent'[j].agent_id], SpendRow(j)')
      BY <2>1, <2>2, <2>4, <3>1
    <3>3. QED
      BY <3>2 DEF HasOneRow
  <2>5. CASE /\ HasOneRow(log, SpendRow(j)) /\ intent[j].agent_id = a
             /\ InWindow(SpendRow(j), WindowStart(k))
    <3>1. HasOneRow(rows, SpendRow(j))
      BY <1>1, <2>5, PruneKeepsRow DEF rows
    <3>2. HasOneRow(spend'[intent'[j].agent_id], SpendRow(j)')
      BY <1>2, <2>1, <2>2, <2>5, <3>1
    <3>3. QED
      BY <3>2 DEF HasOneRow
  <2>6. CASE ~InWindow(SpendRow(j), WindowStart(k))
    <3>1. Window \in Int /\ clock \in Int
      BY RegistryAssumption DEF LInv, TInv, TypeOK
    <3>2. ~(now[j] > now[k] - Window)
      BY <2>2, <2>6 DEF InWindow, WindowStart
    <3>3. now[j] + Window <= now[k] /\ now[j] + Window <= clock
      BY <1>1, <2>1, <3>1, <3>2
    <3>4. k \in InFlight'
      BY <1>1 DEF InFlight
    <3>5. \A i \in InFlight' : now[j] + Window <= now[i]
      BY <3>3, <3>4 DEF OneInFlight
    <3>6. Left(j)'
      BY <1>1, <3>3, <3>5 DEF Left
    <3>7. QED
      BY <3>6
  <2>7. HasOneRow(spend[intent[j].agent_id], SpendRow(j)) \/ Left(j)
    BY <2>1 DEF LInv, ChargedOrLeft
  <2>8. QED
    BY <2>3, <2>4, <2>5, <2>6, <2>7
<1>7. QED
  BY <1>5, <1>6 DEF ChargedOrLeft

\* The charge itself.
LEMMA LocalAppendCharges ==
    ASSUME LInv, TInv', NEW k \in Calls, LocalAppend(k),
           \A j \in Calls : Left(j) /\ now[j] # None /\ now'[j] = now[j] => Left(j)'
    PROVE  Unwritten' /\ ChargedOrLeft'
<1> DEFINE a == intent[k].agent_id
           log == spend[a]
           more == Append(log, SpendRow(k))
<1>1. /\ pc[k] = "assigned" /\ pc'[k] = "appended" /\ \A j \in Calls \ {k} : pc'[j] = pc[j]
      /\ intent' = intent /\ now' = now /\ forgotten' = forgotten
      /\ a \in Agents /\ log \in Seq(Row) /\ SpendRow(k) \in Row /\ SpendRow(k).by = k
      /\ spend'[a] = more /\ \A b \in Agents \ {a} : spend'[b] = spend[b]
  BY RowsOfCalls DEF LocalAppend, LInv, TInv, TypeOK
<1>2. /\ DOMAIN more = DOMAIN log \cup {Len(log) + 1}
      /\ \A n \in DOMAIN log : more[n] = log[n]
      /\ more[Len(log) + 1] = SpendRow(k)
  BY <1>1, AppendedRow
<1> HIDE DEF more
<1>3. \A j \in Calls : pc[j] \in BeforeCharge =>
          \A b \in Agents : \A n \in DOMAIN spend[b] : spend[b][n].by # j
  BY DEF LInv, Unwritten
<1>4. Unwritten'
  <2>1. SUFFICES ASSUME NEW j \in Calls, NEW b \in Agents, NEW n \in DOMAIN spend'[b],
                        pc'[j] \in BeforeCharge
                 PROVE  spend'[b][n].by # j
    BY DEF Unwritten
  <2>2. j # k /\ pc[j] \in BeforeCharge
    BY <1>1, <2>1 DEF BeforeCharge
  <2>3. CASE b = a
    BY <1>1, <1>2, <1>3, <2>1, <2>2, <2>3
  <2>4. CASE b # a
    BY <1>1, <1>3, <2>1, <2>2, <2>4
  <2>5. QED
    BY <2>3, <2>4
<1>5. ASSUME NEW j \in Calls, Charged(j)'
      PROVE  (HasOneRow(spend[intent[j].agent_id], SpendRow(j)) \/ Left(j))'
  <2>1. /\ intent'[j] = intent[j] /\ now'[j] = now[j] /\ now[j] # None
        /\ intent[j].agent_id \in Agents
    BY <1>1, <1>5, RegistryAssumption DEF Charged, LInv, TInv, ArgumentsHeld
  <2>2. SpendRow(j)' = SpendRow(j) /\ SpendRow(j).by = j
    BY <2>1 DEF SpendRow
  <2>3. CASE j = k
    <3>1. HasOneRow(more, SpendRow(k))
      <4>1. \A n \in DOMAIN log : log[n].by # SpendRow(k).by
        BY <1>1, <1>3 DEF BeforeCharge
      <4>2. QED
        BY <1>1, <4>1, AppendAddsRow DEF more
    <3>2. HasOneRow(spend'[intent'[j].agent_id], SpendRow(j)')
      BY <1>1, <2>1, <2>2, <2>3, <3>1
    <3>3. QED
      BY <3>2 DEF HasOneRow
  <2>4. CASE j # k
    <3>1. Charged(j)
      BY <1>1, <1>5, <2>4 DEF Charged
    <3>2. CASE Left(j)
      BY <2>1, <3>2
    <3>3. CASE HasOneRow(spend[intent[j].agent_id], SpendRow(j))
      <4>1. HasOneRow(spend'[intent[j].agent_id], SpendRow(j))
        <5>1. CASE intent[j].agent_id = a
          <6>1. SpendRow(j).by # SpendRow(k).by
            BY <1>1, <2>2, <2>4
          <6>2. HasOneRow(more, SpendRow(j))
            BY <1>1, <3>3, <5>1, <6>1, AppendKeepsRow DEF more
          <6>3. QED
            BY <1>1, <5>1, <6>2
        <5>2. CASE intent[j].agent_id # a
          BY <1>1, <2>1, <3>3, <5>2
        <5>3. QED
          BY <5>1, <5>2
      <4>2. HasOneRow(spend'[intent'[j].agent_id], SpendRow(j)')
        BY <2>1, <2>2, <4>1
      <4>3. QED
        BY <4>2 DEF HasOneRow
    <3>4. QED
      BY <3>1, <3>2, <3>3 DEF LInv, ChargedOrLeft
  <2>5. QED
    BY <2>3, <2>4
<1>6. QED
  BY <1>4, <1>5 DEF ChargedOrLeft

\* A restart loses the list, and says so.
LEMMA RestartForgets ==
    ASSUME LInv, TInv', Restart,
           \A j \in Calls : Left(j) /\ now[j] # None /\ now'[j] = now[j] => Left(j)'
    PROVE  Unwritten' /\ ChargedOrLeft'
<1>1. /\ pc' = [k \in Calls |-> IF pc[k] \in {"ready", "done"} THEN pc[k] ELSE "dead"]
      /\ intent' = intent /\ now' = now
      /\ forgotten' = [a \in Agents |-> forgotten[a] \/ spend'[a] # spend[a]]
      /\ spend' = spend \/ spend' = [a \in Agents |-> <<>>]
  BY DEF Restart
<1>2. Unwritten'
  BY <1>1 DEF LInv, Unwritten, BeforeCharge
<1>3. ASSUME NEW j \in Calls, Charged(j)'
      PROVE  (HasOneRow(spend[intent[j].agent_id], SpendRow(j)) \/ Left(j))'
  <2>1. intent[j].agent_id \in Agents /\ now[j] # None
    BY <1>1, <1>3, RegistryAssumption DEF Charged, LInv, TInv, ArgumentsHeld
  <2>2. Charged(j) /\ spend'[intent[j].agent_id] = spend[intent[j].agent_id]
    BY <1>1, <1>3, <2>1 DEF Charged
  <2>3. SpendRow(j)' = SpendRow(j)
    BY <1>1 DEF SpendRow
  <2>4. CASE HasOneRow(spend[intent[j].agent_id], SpendRow(j))
    <3>1. HasOneRow(spend'[intent'[j].agent_id], SpendRow(j)')
      BY <1>1, <2>2, <2>3, <2>4
    <3>2. QED
      BY <3>1 DEF HasOneRow
  <2>5. CASE Left(j)
    BY <1>1, <2>1, <2>5
  <2>6. QED
    BY <2>2, <2>4, <2>5 DEF LInv, ChargedOrLeft
<1>4. QED
  BY <1>2, <1>3 DEF ChargedOrLeft

LEMMA LInvInit == Init => LInv
<1> SUFFICES ASSUME Init PROVE LInv
  OBVIOUS
<1>1. TInv /\ BegunAreFinite
  BY TInvInit, DInvInit DEF DInv
<1>2. InFlight = {}
  BY DEF Init, InFlight
<1>3. OneInFlight /\ KeptIsPruned /\ ClockAhead
  BY <1>2 DEF Init, OneInFlight, KeptIsPruned, ClockAhead
<1>4. Unwritten /\ ChargedOrLeft
  BY DEF Init, Unwritten, ChargedOrLeft, Charged
<1>5. QED
  BY <1>1, <1>3, <1>4 DEF LInv

\* Where the timestamps of a step come from.
LEMMA TimestampsNext ==
    ASSUME LInv, TInv', ~StorageBacked, [Next]_vars
    PROVE  /\ ClockAhead'
           /\ \A j \in Calls : Left(j) /\ now[j] # None /\ now'[j] = now[j] => Left(j)'
<1>0. TInv /\ TInv' /\ ClockAhead /\ clock \in Int /\ clock <= clock
  BY DEF LInv, TInv, TypeOK
<1>1. CASE now' = now /\ InFlight' \subseteq InFlight /\ clock <= clock'
  <2>1. \A j \in Calls : now'[j] # None =>
              now'[j] = now[j] \/ now'[j] = clock
    BY <1>1
  <2>2. \A j \in Calls : j \in InFlight' /\ now'[j] # None =>
              (j \in InFlight /\ now'[j] = now[j]) \/ now'[j] = clock
    BY <1>1
  <2>3. QED
    BY <1>0, <1>1, <2>1, <2>2, TimePasses
<1>2. ASSUME NEW k \in Calls, NEW i \in Intents, Lookup(k, i)
      PROVE  /\ ClockAhead'
             /\ \A j \in Calls : Left(j) /\ now[j] # None /\ now'[j] = now[j] => Left(j)'
  <2>1. /\ now' = now /\ clock' = clock /\ now[k] = None
        /\ \A j \in Calls \ {k} : pc'[j] = pc[j]
    BY <1>0, <1>2 DEF Lookup, TInv, TypeOK, ArgumentsHeld
  <2>2. \A j \in Calls : now'[j] # None =>
              now'[j] = now[j] \/ now'[j] = clock
    BY <2>1
  <2>3. \A j \in Calls : j \in InFlight' /\ now'[j] # None =>
              (j \in InFlight /\ now'[j] = now[j]) \/ now'[j] = clock
    BY <2>1 DEF InFlight
  <2>4. clock <= clock'
    BY <1>0, <2>1
  <2>5. QED
    BY <1>0, <2>2, <2>3, <2>4, TimePasses
<1>3. ASSUME NEW k \in Calls, Stamp(k)
      PROVE  /\ ClockAhead'
             /\ \A j \in Calls : Left(j) /\ now[j] # None /\ now'[j] = now[j] => Left(j)'
  <2>1. /\ now'[k] = clock /\ now[k] = None /\ clock' = clock
        /\ \A j \in Calls \ {k} : pc'[j] = pc[j] /\ now'[j] = now[j]
    BY <1>0, <1>3 DEF Stamp, TInv, TypeOK, ArgumentsHeld
  <2>2. \A j \in Calls : now'[j] # None =>
              now'[j] = now[j] \/ now'[j] = clock
    BY <2>1
  <2>3. \A j \in Calls : j \in InFlight' /\ now'[j] # None =>
              (j \in InFlight /\ now'[j] = now[j]) \/ now'[j] = clock
    BY <2>1 DEF InFlight
  <2>4. clock <= clock'
    BY <1>0, <2>1
  <2>5. QED
    BY <1>0, <2>2, <2>3, <2>4, TimePasses
<1>4. ASSUME NEW k \in Calls, Evaluate(k),
             ~Stamp(k), ~\E i \in Intents : Lookup(k, i)
      PROVE  now' = now /\ InFlight' \subseteq InFlight /\ clock <= clock'
  <2>1. k \in InFlight /\ clock' = clock /\ \A j \in Calls \ {k} : pc'[j] = pc[j]
    BY <1>0, <1>4, OneMoves
  <2>2. now' = now
    BY <1>4 DEF Evaluate, CheckExpired, CheckStatic, StorageAppend, LocalPrune, LocalAssign,
                LocalAppend, SumToday
  <2>3. QED
    BY <1>0, <2>1, <2>2 DEF InFlight
<1>5. CASE Restart
  <2>1. now' = now /\ clock' = clock /\ InFlight' = {}
    BY <1>5 DEF Restart, InFlight
  <2>2. QED
    BY <1>0, <1>1, <2>1
<1>6. CASE (\E c \in Capabilities : Grant(c)) \/ (\E a \in Agents : Revoke(a))
           \/ Tick \/ UNCHANGED vars
  <2>1. UNCHANGED callVars /\ clock' \in {clock, clock + 1}
    BY <1>6 DEF Grant, Revoke, Tick, vars
  <2>2. now' = now /\ InFlight' = InFlight /\ clock <= clock'
    BY <1>0, <2>1 DEF callVars, InFlight
  <2>3. QED
    BY <1>1, <2>2
<1>7. QED
  BY <1>1, <1>2, <1>3, <1>4, <1>5, <1>6 DEF Next

LEMMA LInvNext ==
    ASSUME ~StorageBacked, Threads = 1
    PROVE  DInv /\ LInv /\ [Next]_vars => LInv'
<1> SUFFICES ASSUME DInv, LInv, [Next]_vars PROVE LInv'
  OBVIOUS
<1>1. TInv /\ BegunAreFinite /\ OneInFlight /\ KeptIsPruned /\ Unwritten /\ ChargedOrLeft
  BY DEF LInv
<1>2. TInv' /\ BegunAreFinite'
  BY <1>1, TInvNext, LimitKnownNext
<1>3. OneInFlight' /\ KeptIsPruned'
  BY <1>1, <1>2, OneInFlightNext, KeptNext
<1>4. /\ ClockAhead'
      /\ \A j \in Calls : Left(j) /\ now[j] # None /\ now'[j] = now[j] => Left(j)'
  BY <1>2, TimestampsNext
<1>5. SUFFICES Unwritten' /\ ChargedOrLeft'
  BY <1>2, <1>3, <1>4 DEF LInv
<1>6. ASSUME NEW k \in Calls, NEW i \in Intents, Lookup(k, i)
      PROVE  Unwritten' /\ ChargedOrLeft'
  <2>1. /\ spend' = spend /\ now' = now /\ forgotten' = forgotten
        /\ \A j \in Calls \ {k} : pc'[j] = pc[j] /\ intent'[j] = intent[j]
        /\ pc[k] = "ready" /\ now[k] = None
    BY <1>1, <1>6 DEF Lookup, TInv, TypeOK, ArgumentsHeld
  <2>2. QED
    BY <1>1, <1>4, <2>1, ListUntouched DEF Charged, BeforeCharge
<1>7. ASSUME NEW k \in Calls, CheckExpired(k) \/ CheckStatic(k) \/ Stamp(k)
      PROVE  Unwritten' /\ ChargedOrLeft'
  <2>1. /\ spend' = spend /\ intent' = intent /\ forgotten' = forgotten
        /\ \A j \in Calls \ {k} : pc'[j] = pc[j] /\ now'[j] = now[j]
        /\ pc[k] \in {"looked_up", "checked"} /\ now[k] = None
        /\ \/ pc'[k] \in {"checked", "stamped"}
           \/ pc'[k] = "done" /\ now'[k] = None
    BY <1>1, <1>7 DEF CheckExpired, CheckStatic, Stamp, TInv, TypeOK, ArgumentsHeld
  <2>2. QED
    BY <1>1, <1>4, <2>1, ListUntouched DEF Charged, BeforeCharge
<1>8. ASSUME NEW k \in Calls, LocalPrune(k) \/ SumToday(k)
      PROVE  Unwritten' /\ ChargedOrLeft'
  <2>1. /\ spend' = spend /\ intent' = intent /\ forgotten' = forgotten /\ now' = now
        /\ \A j \in Calls \ {k} : pc'[j] = pc[j]
        /\ \/ pc[k] = "stamped" /\ pc'[k] = "pruned"
           \/ pc[k] = "appended" /\ pc'[k] = "done"
    BY <1>1, <1>8 DEF LocalPrune, SumToday, TInv, TypeOK
  <2>2. QED
    BY <1>1, <1>4, <2>1, ListUntouched DEF Charged, BeforeCharge
<1>9. ASSUME NEW k \in Calls, LocalAssign(k)
      PROVE  Unwritten' /\ ChargedOrLeft'
  BY <1>2, <1>3, <1>4, <1>9, AssignDrops
<1>10. ASSUME NEW k \in Calls, LocalAppend(k)
       PROVE  Unwritten' /\ ChargedOrLeft'
  BY <1>2, <1>4, <1>10, LocalAppendCharges
<1>11. CASE Restart
  BY <1>2, <1>4, <1>11, RestartForgets
<1>12. CASE (\E c \in Capabilities : Grant(c)) \/ (\E a \in Agents : Revoke(a))
            \/ Tick \/ UNCHANGED vars
  <2>1. UNCHANGED <<spend, callVars, forgotten>>
    BY <1>12 DEF Grant, Revoke, Tick, vars
  <2>2. QED
    BY <1>1, <1>4, <2>1, ListUntouched DEF callVars, Charged, BeforeCharge
<1>13. QED
  BY <1>6, <1>7, <1>8, <1>9, <1>10, <1>11, <1>12 DEF Next, Evaluate, StorageAppend

\* What the list dropped was out of the window of the call that counts.
LEMMA ListFinds == LInv => WindowsFound
<1> SUFFICES ASSUME LInv, NEW k \in Calls, NEW j \in Calls,
                    pc[k] = "appended", Charged(j), intent[j].agent_id = intent[k].agent_id,
                    InWindow(SpendRow(j), WindowStart(k))
             PROVE  HasOneRow(spend[intent[k].agent_id], SpendRow(j))
  BY DEF WindowsFound
<1>1. k \in InFlight /\ now[k] \in Int /\ now[k] # None /\ now[j] \in Int /\ Window \in Int
  BY RegistryAssumption DEF InFlight, LInv, TInv, TypeOK, ArgumentsHeld, Charged
<1>2. now[j] > now[k] - Window
  BY DEF InWindow, SpendRow, WindowStart
<1>3. ~(now[j] + Window <= now[k])
  BY <1>1, <1>2
<1>4. ~Left(j)
  BY <1>1, <1>3 DEF Left
<1>5. QED
  BY <1>4 DEF LInv, ChargedOrLeft

\* With a storage backend, whatever runs at once, and with the in-process list
\* as long as one call is in flight at a time, the amounts approved for an agent
\* in any period of one window stay within a limit that one of the approvals was
\* decided under: for any number of agents, calls and grants, any window, and
\* whatever is restarted, revoked or granted in between.  For the in-process
\* list and two threads it is false.
THEOREM DailyLimitHolds == StorageBacked \/ Threads = 1 => (Spec => []DailyLimit)
<1>1. DInv => DailyLimit
  BY DEF DInv
<1>2. ASSUME StorageBacked PROVE Spec => []DailyLimit
  BY DInvInit, DInvNext, IInvInit, IInvNext, WholeLogFinds, <1>1, <1>2, PTL DEF Spec
<1>3. ASSUME ~StorageBacked, Threads = 1 PROVE Spec => []DailyLimit
  BY DInvInit, DInvNext, LInvInit, LInvNext, ListFinds, <1>1, <1>3, PTL DEF Spec
<1>4. QED
  BY <1>2, <1>3
===============================================================================
