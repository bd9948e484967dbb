----------------------- MODULE StorageTransactionsProofs ------------------------
(***************************************************************************)
(* What StorageTransactions guarantees for any number of connections, any  *)
(* max_rows_per_key and both backends: every append is one step of         *)
(* BoundedLog, and an engine goes on reading what it was told is stored.   *)
(***************************************************************************)
EXTENDS StorageTransactions, DataLemmas

Newer(ids, id) == {n \in ids : n > id}

\* The INSERT is done and the transaction not over.
Inserted(c) == at[c] \in {"trim", "lock", "commit"}

\* The DELETE has chosen its rows.
Choosing == {c \in Connections : at[c] \in {"lock", "commit"}}

TxTyping ==
    /\ backend \in {"sqlite", "postgres"}
    /\ rows \subseteq ever /\ ever \in SUBSET Nat /\ IsFiniteSet(ever)
    /\ nextId \in Nat
    /\ writer \in Connections \cup {None}
    /\ tx \in [Connections -> {"none", "open", "read", "write"}]
    /\ at \in [Connections -> {"idle", "insert", "trim", "lock", "commit"}]
    /\ row \in [Connections -> Nat]
    /\ targets \in [Connections -> SUBSET Nat]
    /\ gone \in [Connections -> SUBSET Nat]
    /\ snap \in [Connections -> SUBSET Nat]
    /\ seen \in [Connections -> SUBSET Nat]

\* A row that was stored and is not there any more has MaxRows newer ones.
DroppedHaveNewer ==
    \A id \in ever \ rows : Cardinality(Newer(ever, id)) >= MaxRows

\* So will the rows that a transaction is about to delete, its own included.
DeletedHaveNewer ==
    \A c \in Connections : \A id \in targets[c] \cup gone[c] :
        Cardinality(Newer(ever \cup {row[c]}, id)) >= MaxRows

ChosenBeforehand ==
    \A c \in Connections :
        /\ ~ Inserted(c) \/ at[c] = "trim" => targets[c] = {} /\ gone[c] = {}
        /\ targets[c] \subseteq ever \cup {row[c]}

\* A snapshot that a connection is stuck on holds what its engine was told.
SnapshotHolds ==
    \A c \in Connections :
        /\ seen[c] \subseteq ever
        /\ tx[c] = "read" =>
              /\ backend = "sqlite"
              /\ snap[c] \subseteq ever
              /\ \A id \in seen[c] :
                    id \in snap[c] \/ Cardinality(Newer(ever, id)) >= MaxRows

\* The id of an uncommitted row is nobody else's.
RowsAreFresh ==
    /\ \A c \in Connections : Inserted(c) => row[c] \notin ever
    /\ backend = "postgres" =>
          /\ \A id \in ever : id < nextId
          /\ \A c \in Connections : Inserted(c) => row[c] < nextId
          /\ \A c, d \in Connections :
                c # d /\ Inserted(c) /\ Inserted(d) => row[c] # row[d]

\* SQLite: who has inserted holds the write lock, and so trims exactly.
OneWriter ==
    backend = "sqlite" =>
        \A c \in Connections :
            /\ Inserted(c) => writer = c
            /\ at[c] = "commit" => gone[c] = Trimmed(c)

\* PostgreSQL: at the commit every chosen row is locked or already removed.
ChosenAreLocked ==
    backend = "postgres" =>
        \A c \in Connections :
            at[c] = "commit" => targets[c] \cap (rows \cup {row[c]}) \subseteq gone[c]

Remaining(c) == (rows \cup {row[c]}) \ targets[c]

Limit == MaxRows + Cardinality(Connections) - 1

\* PostgreSQL: why the excess is bounded.  Take the committed transaction that
\* chose its rows last: late are the transactions that had chosen before it
\* and are still running, and each of them may yet add a row.  older[c] are
\* those that had chosen before c and are still running.
ExcessBy(late, older) ==
    /\ late \subseteq Choosing
    /\ \A c \in Choosing : older[c] \subseteq Choosing \ {c}
    /\ \A c \in Choosing \ late : late \subseteq older[c]
    /\ \A c, d \in Choosing \ late :
          /\ c # d => c \in older[d] \/ d \in older[c]
          /\ d \in older[c] => older[d] \subseteq older[c]
    /\ Cardinality(rows) + Cardinality(late) <= Limit
    /\ \A c \in Choosing \ late :
          Cardinality(Remaining(c)) + Cardinality(older[c]) <= Limit

ExcessIsBounded ==
    backend = "postgres" =>
        \E late \in SUBSET Connections, older \in [Connections -> SUBSET Connections] :
            ExcessBy(late, older)

IInv ==
    /\ TxTyping
    /\ DroppedHaveNewer
    /\ DeletedHaveNewer
    /\ ChosenBeforehand
    /\ SnapshotHolds
    /\ RowsAreFresh
    /\ OneWriter
    /\ ChosenAreLocked
    /\ ExcessIsBounded

-------------------------------------------------------------------------------
(* Lemmas about sets of row ids *)

LEMMA LargerHasMoreNewer ==
    ASSUME NEW S, NEW T, IsFiniteSet(T), S \subseteq T, NEW id
    PROVE  /\ Cardinality(Newer(S, id)) \in Nat
           /\ Cardinality(Newer(T, id)) \in Nat
           /\ Cardinality(Newer(S, id)) <= Cardinality(Newer(T, id))
<1>1. /\ Newer(S, id) \in SUBSET Newer(T, id)
      /\ Newer(T, id) \in SUBSET T
  BY DEF Newer
<1>2. IsFiniteSet(Newer(T, id))
  BY <1>1, FS_Subset
<1>3. /\ IsFiniteSet(Newer(S, id))
      /\ Cardinality(Newer(S, id)) <= Cardinality(Newer(T, id))
  BY <1>1, <1>2, FS_Subset
<1> QED
  BY <1>2, <1>3, FS_CardinalityType

\* The SELECT with its LIMIT returns at most max_rows_per_key rows: otherwise
\* the oldest of them would have that many newer ones.
LEMMA KeptAtMost ==
    ASSUME NEW S \in SUBSET Nat, IsFiniteSet(S)
    PROVE  /\ IsFiniteSet(Kept(S))
           /\ Cardinality(Kept(S)) \in Nat
           /\ Cardinality(Kept(S)) <= MaxRows
<1> DEFINE K == Kept(S)
<1>1. K \in SUBSET S /\ IsFiniteSet(K) /\ Cardinality(K) \in Nat
  BY FS_Subset, FS_CardinalityType DEF Kept
<1>2. ASSUME Cardinality(K) > MaxRows  PROVE FALSE
  <2>1. K # {}
    BY <1>2, FS_EmptySet, TransactionAssumption
  <2>2. PICK m \in K : \A y \in K : m <= y
    BY <1>1, <2>1, LeastNatural
  <2>3. K \ {m} \subseteq Newer(S, m)
    <3>1. \A y \in K \ {m} : y \in S /\ y \in Nat /\ m \in Nat /\ m <= y /\ y # m
      BY <1>1, <2>2
    <3> QED
      BY <3>1 DEF Newer
  <2>4. Cardinality(K \ {m}) = Cardinality(K) - 1
    BY <1>1, <2>2, FS_RemoveElement
  <2>5. Newer(S, m) \in SUBSET S /\ IsFiniteSet(Newer(S, m))
    BY FS_Subset DEF Newer
  <2>6. Cardinality(K \ {m}) <= Cardinality(Newer(S, m))
    BY <2>3, <2>5, FS_Subset
  <2>7. Cardinality(Newer(S, m)) < MaxRows
    BY <2>2 DEF Kept, Newer
  <2>8. Cardinality(Newer(S, m)) \in Nat
    BY <2>5, FS_CardinalityType
  <2> QED
    BY <1>1, <1>2, <2>4, <2>6, <2>7, <2>8, TransactionAssumption
<1> QED
  BY <1>1, <1>2, TransactionAssumption

\* The next rowid is larger than every id in the table.
LEMMA NextRowIdIsFresh ==
    ASSUME ever \in SUBSET Nat, IsFiniteSet(ever)
    PROVE  NextRowId \in Nat /\ NextRowId \notin ever
<1> DEFINE S == ever \cup {0}
<1>1. S \in SUBSET Nat /\ IsFiniteSet(S) /\ S # {}
  BY FS_AddElement
<1>2. \E x \in S : \A y \in S : y <= x
  BY <1>1, GreatestElement
<1>3. Max(S) \in S /\ \A y \in S : y <= Max(S)
  BY <1>1, <1>2 DEF Max
<1> HIDE DEF S
<1>4. \A m \in Int : m \in S /\ (\A y \in S : y <= m) => m + 1 \notin S
  OBVIOUS
<1>5. Max(S) \in Nat
  BY <1>1, <1>3
<1>6. Max(S) + 1 \notin S
  BY <1>3, <1>4, <1>5
<1> QED
  BY <1>5, <1>6 DEF NextRowId, S

-------------------------------------------------------------------------------
(* Types *)

LEMMA TypingInit == Init => TxTyping
BY TransactionAssumption, FS_EmptySet DEF Init, TxTyping

LEMMA TypingNext == TxTyping /\ [Next]_vars => TxTyping'
<1> SUFFICES ASSUME TxTyping, [Next]_vars  PROVE TxTyping'
  OBVIOUS
<1> USE DEF TxTyping
<1>1. NextRowId \in Nat
  BY NextRowIdIsFresh
<1>2. ASSUME NEW c \in Connections  PROVE Trimmed(c) \subseteq Nat
  BY DEF Trimmed
<1>3. ASSUME NEW c \in Connections, Committed(c)
      PROVE  /\ rows' \subseteq ever' /\ ever' \in SUBSET Nat /\ IsFiniteSet(ever')
             /\ at' \in [Connections -> {"idle", "insert", "trim", "lock", "commit"}]
             /\ row' \in [Connections -> Nat]
             /\ targets' \in [Connections -> SUBSET Nat]
             /\ gone' \in [Connections -> SUBSET Nat]
  <2>1. IsFiniteSet(ever \cup {row[c]})
    BY FS_AddElement
  <2>2. ever' = ever \cup {row[c]} /\ rows' = (rows \cup {row[c]}) \ gone[c]
    BY <1>3 DEF Committed
  <2>3. rows' \subseteq ever' /\ ever' \in SUBSET Nat /\ IsFiniteSet(ever')
    BY <2>1, <2>2
  <2>4. Ended(c)
    BY <1>3 DEF Committed
  <2> QED
    BY <2>3, <2>4 DEF Ended
<1>4. CASE UNCHANGED vars
  BY <1>4 DEF vars, sqliteVars, callVars
<1>5. ASSUME NEW c \in Connections, SBegin(c) \/ PBegin(c) \/ SGet(c) \/ PGet(c)
      PROVE  TxTyping'
  <2>1. CASE SBegin(c)
    BY <2>1 DEF SBegin
  <2>2. CASE PBegin(c)
    BY <2>2 DEF PBegin, sqliteVars
  <2>3. CASE SGet(c)
    BY <2>3 DEF SGet, Visible, callVars
  <2>4. CASE PGet(c)
    BY <2>4 DEF PGet, sqliteVars, callVars
  <2> QED
    BY <1>5, <2>1, <2>2, <2>3, <2>4
<1>6. ASSUME NEW c \in Connections, SInsert(c) \/ PInsert(c)  PROVE TxTyping'
  <2>1. CASE SInsert(c)
    BY <2>1, <1>1 DEF SInsert
  <2>2. CASE PInsert(c)
    BY <2>2, <1>1 DEF PInsert, sqliteVars
  <2> QED
    BY <1>6, <2>1, <2>2
<1>7. ASSUME NEW c \in Connections, SBusy(c) \/ SFull(c) \/ PAbort(c) \/ Crash(c)
      PROVE  TxTyping'
  <2>1. CASE SBusy(c)
    BY <2>1 DEF SBusy, Ended, sqliteVars
  <2>2. CASE SFull(c)
    BY <2>2 DEF SFull, Ended, SRelease
  <2>3. CASE PAbort(c)
    BY <2>3 DEF PAbort, Ended, sqliteVars
  <2>4. CASE Crash(c)
    BY <2>4 DEF Crash, Ended
  <2> QED
    BY <1>7, <2>1, <2>2, <2>3, <2>4
<1>8. ASSUME NEW c \in Connections, STrim(c) \/ PTrim(c) \/ PLock(c)  PROVE TxTyping'
  <2>1. CASE STrim(c)
    BY <2>1, <1>2 DEF STrim, sqliteVars
  <2>2. CASE PTrim(c)
    BY <2>2, <1>2 DEF PTrim, sqliteVars
  <2>3. CASE PLock(c)
    BY <2>3, <1>2 DEF PLock, sqliteVars
  <2> QED
    BY <1>8, <2>1, <2>2, <2>3
<1>9. ASSUME NEW c \in Connections, SCommit(c) \/ PCommit(c) \/ PCommitLost(c)
      PROVE  TxTyping'
  BY <1>9, <1>3 DEF SCommit, PCommit, PCommitLost, SRelease, Acknowledged, sqliteVars
<1> QED
  BY <1>4, <1>5, <1>6, <1>7, <1>8, <1>9 DEF Next, Proceed

-------------------------------------------------------------------------------
(* What a commit finds and leaves *)

LEMMA TrimmedHaveNewer ==
    ASSUME TxTyping, NEW c \in Connections, NEW id \in Trimmed(c)
    PROVE  Cardinality(Newer(ever \cup {row[c]}, id)) >= MaxRows
<1> DEFINE visible == rows \cup {row[c]}
           all == ever \cup {row[c]}
<1>1. IsFiniteSet(all) /\ visible \subseteq all
  BY FS_AddElement DEF TxTyping
<1>2. Cardinality(Newer(visible, id)) \in Nat /\ Cardinality(Newer(all, id)) \in Nat
      /\ Cardinality(Newer(visible, id)) <= Cardinality(Newer(all, id))
  BY <1>1, LargerHasMoreNewer
<1>3. ~ (Cardinality(Newer(visible, id)) < MaxRows)
  BY DEF Trimmed, Kept, Newer
<1> QED
  BY <1>2, <1>3, TransactionAssumption

\* Only a commit changes what is stored, and it stores a row nobody had.
LEMMA CommitOrNot ==
    ASSUME IInv, [Next]_vars
    PROVE  \/ UNCHANGED <<backend, rows, ever>>
           \/ \E c \in Connections :
                /\ at[c] = "commit" /\ Committed(c)
                /\ row[c] \notin ever
                /\ UNCHANGED backend
<1>1. CASE UNCHANGED vars
  BY <1>1 DEF vars
<1>2. ASSUME NEW c \in Connections, SCommit(c) \/ PCommit(c) \/ PCommitLost(c)
      PROVE  at[c] = "commit" /\ Committed(c) /\ row[c] \notin ever /\ UNCHANGED backend
  BY <1>2 DEF SCommit, PCommit, PCommitLost, IInv, RowsAreFresh, Inserted
<1>3. ASSUME NEW c \in Connections,
             \/ SBegin(c) \/ PBegin(c) \/ SInsert(c) \/ PInsert(c) \/ SBusy(c)
             \/ STrim(c) \/ PTrim(c) \/ PLock(c) \/ SGet(c) \/ PGet(c)
             \/ SFull(c) \/ PAbort(c) \/ Crash(c)
      PROVE  UNCHANGED <<backend, rows, ever>>
  BY <1>3 DEF SBegin, PBegin, SInsert, PInsert, SBusy, STrim, PTrim, PLock, SGet, PGet,
              SFull, PAbort, Crash
<1> QED
  BY <1>1, <1>2, <1>3 DEF Next, Proceed

LEMMA EverGrows ==
    ASSUME IInv, [Next]_vars
    PROVE  ever \subseteq ever' /\ IsFiniteSet(ever')
<1>1. ever \subseteq ever'
  BY CommitOrNot DEF Committed
<1>2. IsFiniteSet(ever')
  BY TypingNext DEF TxTyping, IInv
<1> QED
  BY <1>1, <1>2

LEMMA DroppedNext ==
    ASSUME IInv, [Next]_vars
    PROVE  DroppedHaveNewer'
<1>1. CASE UNCHANGED <<backend, rows, ever>>
  BY <1>1 DEF IInv, DroppedHaveNewer, Newer
<1>2. ASSUME NEW c \in Connections, at[c] = "commit", Committed(c)
      PROVE  DroppedHaveNewer'
  <2>1. /\ ever' = ever \cup {row[c]}
        /\ rows' = (rows \cup {row[c]}) \ gone[c]
    BY <1>2 DEF Committed
  <2> SUFFICES ASSUME NEW id \in ever' \ rows'
               PROVE  Cardinality(Newer(ever', id)) >= MaxRows
    BY DEF DroppedHaveNewer, Newer
  <2>2. CASE id \in gone[c]
    BY <2>1, <2>2 DEF IInv, DeletedHaveNewer
  <2>3. CASE id \notin gone[c]
    <3>1. id \in ever \ rows
      BY <2>1, <2>3
    <3>2. Cardinality(Newer(ever, id)) >= MaxRows
      BY <3>1 DEF IInv, DroppedHaveNewer
    <3>3. /\ Cardinality(Newer(ever, id)) \in Nat /\ Cardinality(Newer(ever', id)) \in Nat
          /\ Cardinality(Newer(ever, id)) <= Cardinality(Newer(ever', id))
      BY EverGrows, LargerHasMoreNewer
    <3> QED
      BY <3>2, <3>3, TransactionAssumption
  <2> QED
    BY <2>2, <2>3
<1> QED
  BY <1>1, <1>2, CommitOrNot

\* Rows chosen for deletion stay old while the transaction goes on.
LEMMA ChosenStayOld ==
    ASSUME IInv, [Next]_vars, NEW c \in Connections,
           row'[c] = row[c], targets'[c] \cup gone'[c] \subseteq targets[c] \cup gone[c],
           NEW id \in targets'[c] \cup gone'[c]
    PROVE  Cardinality(Newer(ever' \cup {row'[c]}, id)) >= MaxRows
<1> DEFINE before == ever \cup {row[c]}
           after  == ever' \cup {row'[c]}
<1>1. before \subseteq after /\ IsFiniteSet(after)
  BY EverGrows, FS_AddElement
<1>2. /\ Cardinality(Newer(before, id)) \in Nat /\ Cardinality(Newer(after, id)) \in Nat
      /\ Cardinality(Newer(before, id)) <= Cardinality(Newer(after, id))
  BY <1>1, LargerHasMoreNewer
<1>3. Cardinality(Newer(before, id)) >= MaxRows
  BY DEF IInv, DeletedHaveNewer
<1> QED
  BY <1>2, <1>3, TransactionAssumption

LEMMA DeletedNext ==
    ASSUME IInv, [Next]_vars
    PROVE  DeletedHaveNewer'
<1> SUFFICES ASSUME NEW d \in Connections, NEW id \in targets'[d] \cup gone'[d]
             PROVE  Cardinality(Newer(ever' \cup {row'[d]}, id)) >= MaxRows
  BY DEF DeletedHaveNewer, Newer
<1> USE DEF TxTyping
<1>1. CASE /\ row'[d] = row[d]
           /\ targets'[d] \cup gone'[d] \subseteq targets[d] \cup gone[d]
  BY <1>1, ChosenStayOld
<1>2. CASE targets'[d] \cup gone'[d] = {}
  BY <1>2
<1>3. CASE STrim(d) \/ PTrim(d)
  <2>1. /\ targets[d] = {} /\ gone[d] = {}
        /\ targets'[d] \cup gone'[d] \subseteq Trimmed(d) /\ row' = row /\ ever' = ever
    BY <1>3 DEF STrim, PTrim, IInv, ChosenBeforehand
  <2> QED
    BY <2>1, TrimmedHaveNewer DEF IInv
<1>4. CASE UNCHANGED vars
  BY <1>1, <1>4 DEF vars, callVars
<1>5. ASSUME NEW c \in Connections,
             SBegin(c) \/ PBegin(c) \/ SGet(c) \/ PGet(c) \/ PLock(c)
      PROVE  /\ row'[d] = row[d]
             /\ targets'[d] \cup gone'[d] \subseteq targets[d] \cup gone[d]
  BY <1>5 DEF SBegin, PBegin, SGet, PGet, PLock, callVars, IInv
<1>6. ASSUME NEW c \in Connections, c = d, SInsert(c) \/ PInsert(c)
      PROVE  targets'[d] \cup gone'[d] = {}
  BY <1>6 DEF SInsert, PInsert, IInv, ChosenBeforehand, Inserted
<1>7. ASSUME NEW c \in Connections, c # d,
             SInsert(c) \/ PInsert(c) \/ STrim(c) \/ PTrim(c)
      PROVE  row'[d] = row[d] /\ targets'[d] = targets[d] /\ gone'[d] = gone[d]
  BY <1>7 DEF SInsert, PInsert, STrim, PTrim, IInv
<1>8. ASSUME NEW c \in Connections, Ended(c)
      PROVE  \/ c = d /\ targets'[d] \cup gone'[d] = {}
             \/ row'[d] = row[d] /\ targets'[d] = targets[d] /\ gone'[d] = gone[d]
  BY <1>8 DEF Ended, IInv
<1>9. ASSUME NEW c \in Connections,
             \/ SBusy(c) \/ SFull(c) \/ PAbort(c) \/ Crash(c)
             \/ SCommit(c) \/ PCommit(c) \/ PCommitLost(c)
      PROVE  Ended(c)
  BY <1>9 DEF SBusy, SFull, PAbort, Crash, SCommit, PCommit, PCommitLost, Committed
<1> QED
  BY <1>1, <1>2, <1>3, <1>4, <1>5, <1>6, <1>7, <1>8, <1>9 DEF Next, Proceed

LEMMA ChosenNext ==
    ASSUME IInv, [Next]_vars
    PROVE  ChosenBeforehand'
<1> SUFFICES ASSUME NEW d \in Connections
             PROVE  /\ ~ Inserted(d)' \/ at'[d] = "trim" => targets'[d] = {} /\ gone'[d] = {}
                    /\ targets'[d] \subseteq ever' \cup {row'[d]}
  BY DEF ChosenBeforehand
<1> USE DEF TxTyping, Inserted
<1>1. ever \subseteq ever'
  BY EverGrows
<1>2. /\ ~ Inserted(d) \/ at[d] = "trim" => targets[d] = {} /\ gone[d] = {}
      /\ targets[d] \subseteq ever \cup {row[d]}
  BY DEF IInv, ChosenBeforehand
<1>3. CASE UNCHANGED vars
  BY <1>2, <1>3 DEF vars, callVars
<1>4. ASSUME NEW c \in Connections, SBegin(c) \/ PBegin(c) \/ SGet(c) \/ PGet(c)
      PROVE  /\ UNCHANGED <<row, targets, gone>>
             /\ at'[d] = at[d] \/ (~ Inserted(d) /\ ~ Inserted(d)')
  BY <1>4 DEF SBegin, PBegin, SGet, PGet, callVars, IInv
<1>5. ASSUME NEW c \in Connections, SInsert(c) \/ PInsert(c)
      PROVE  /\ UNCHANGED <<targets, gone>>
             /\ c # d => at'[d] = at[d] /\ row'[d] = row[d]
             /\ c = d => at[d] = "insert" /\ at'[d] = "trim"
  BY <1>5 DEF SInsert, PInsert, IInv
<1>6. ASSUME NEW c \in Connections, STrim(c) \/ PTrim(c) \/ PLock(c)
      PROVE  /\ UNCHANGED row
             /\ c # d => at'[d] = at[d] /\ targets'[d] = targets[d] /\ gone'[d] = gone[d]
             /\ c = d => /\ at'[d] \in {"lock", "commit"}
                         /\ targets'[d] = targets[d] \/ targets'[d] = Trimmed(d)
  BY <1>6 DEF STrim, PTrim, PLock, IInv
<1>7. Trimmed(d) \subseteq ever \cup {row[d]}
  BY DEF Trimmed, IInv
<1>8. ASSUME NEW c \in Connections, Ended(c)
      PROVE  /\ c # d => /\ at'[d] = at[d] /\ row'[d] = row[d]
                         /\ targets'[d] = targets[d] /\ gone'[d] = gone[d]
             /\ c = d => targets'[d] = {} /\ gone'[d] = {}
  BY <1>8 DEF Ended, IInv
<1>9. ASSUME NEW c \in Connections,
             \/ SBusy(c) \/ SFull(c) \/ PAbort(c) \/ Crash(c)
             \/ SCommit(c) \/ PCommit(c) \/ PCommitLost(c)
      PROVE  Ended(c)
  BY <1>9 DEF SBusy, SFull, PAbort, Crash, SCommit, PCommit, PCommitLost, Committed
<1> QED
  BY <1>1, <1>2, <1>3, <1>4, <1>5, <1>6, <1>7, <1>8, <1>9 DEF Next, Proceed

\* The three ways in which a connection's snapshot and what its engine was
\* told can change.
SnapshotKind(c) ==
    \/ /\ tx[c] = "read" /\ snap'[c] = snap[c]
       /\ seen'[c] \subseteq seen[c] \cup snap[c]
    \/ /\ tx[c] = "open" /\ snap'[c] = rows
       /\ seen'[c] = seen[c] \cup rows /\ backend = "sqlite"
    \/ tx'[c] # "read" /\ seen'[c] \subseteq ever'

LEMMA SnapshotStep ==
    ASSUME IInv, [Next]_vars, NEW c \in Connections, SnapshotKind(c)
    PROVE  /\ seen'[c] \subseteq ever'
           /\ tx'[c] = "read" =>
                 /\ backend' = "sqlite"
                 /\ snap'[c] \subseteq ever'
                 /\ \A id \in seen'[c] :
                       id \in snap'[c] \/ Cardinality(Newer(ever', id)) >= MaxRows
<1>1. \A id : /\ Cardinality(Newer(ever, id)) \in Nat
              /\ Cardinality(Newer(ever', id)) \in Nat
              /\ Cardinality(Newer(ever, id)) <= Cardinality(Newer(ever', id))
  BY EverGrows, LargerHasMoreNewer
<1>2. seen[c] \subseteq ever /\ rows \subseteq ever /\ ever \subseteq ever'
  BY EverGrows DEF IInv, SnapshotHolds, TxTyping
<1>3. backend' = backend
  BY CommitOrNot
<1>4. CASE /\ tx[c] = "read" /\ snap'[c] = snap[c]
           /\ seen'[c] \subseteq seen[c] \cup snap[c]
  <2>1. /\ backend = "sqlite" /\ snap[c] \subseteq ever
        /\ \A id \in seen[c] : id \in snap[c] \/ Cardinality(Newer(ever, id)) >= MaxRows
    BY <1>4 DEF IInv, SnapshotHolds
  <2> QED
    BY <1>1, <1>2, <1>3, <1>4, <2>1, TransactionAssumption
<1>5. CASE /\ tx[c] = "open" /\ snap'[c] = rows
           /\ seen'[c] = seen[c] \cup rows /\ backend = "sqlite"
  <2>1. \A id \in ever \ rows : Cardinality(Newer(ever, id)) >= MaxRows
    BY DEF IInv, DroppedHaveNewer
  <2> QED
    BY <1>1, <1>2, <1>3, <1>5, <2>1, TransactionAssumption
<1>6. CASE tx'[c] # "read" /\ seen'[c] \subseteq ever'
  BY <1>6
<1> QED
  BY <1>4, <1>5, <1>6 DEF SnapshotKind

LEMMA SnapshotNext ==
    ASSUME IInv, [Next]_vars
    PROVE  SnapshotHolds'
<1> SUFFICES ASSUME NEW d \in Connections  PROVE SnapshotKind(d)
  BY SnapshotStep DEF SnapshotHolds, Newer
<1> USE DEF TxTyping, SnapshotKind
<1>1. /\ ever \subseteq ever' /\ seen[d] \subseteq ever /\ rows \subseteq ever
      /\ tx[d] = "read" => backend = "sqlite"
  BY EverGrows DEF IInv, SnapshotHolds
<1>2. CASE UNCHANGED <<snap, tx, seen>>
  BY <1>1, <1>2
<1>3. CASE UNCHANGED vars
  BY <1>2, <1>3 DEF vars, sqliteVars
<1>4. ASSUME NEW c \in Connections, SBegin(c)  PROVE SnapshotKind(d)
  BY <1>1, <1>4 DEF SBegin, IInv
<1>5. ASSUME NEW c \in Connections, SGet(c)  PROVE SnapshotKind(d)
  BY <1>1, <1>5 DEF SGet, Visible, IInv
<1>6. ASSUME NEW c \in Connections, PGet(c)  PROVE SnapshotKind(d)
  BY <1>1, <1>6 DEF PGet, sqliteVars, IInv
<1>7. ASSUME NEW c \in Connections, SInsert(c)  PROVE SnapshotKind(d)
  BY <1>1, <1>7 DEF SInsert, IInv
<1>8. ASSUME NEW c \in Connections,
             \/ SBusy(c) \/ STrim(c) \/ PBegin(c) \/ PInsert(c)
             \/ PTrim(c) \/ PLock(c) \/ PAbort(c) \/ PCommitLost(c)
      PROVE  UNCHANGED <<snap, tx, seen>>
  BY <1>8 DEF SBusy, STrim, PBegin, PInsert, PTrim, PLock, PAbort, PCommitLost, sqliteVars
<1>9. ASSUME NEW c \in Connections, SFull(c) \/ Crash(c)  PROVE SnapshotKind(d)
  BY <1>1, <1>9 DEF SFull, Crash, SRelease, IInv
<1>10. ASSUME NEW c \in Connections, SCommit(c)  PROVE SnapshotKind(d)
  BY <1>1, <1>10 DEF SCommit, SRelease, Acknowledged, Committed, IInv
<1>11. ASSUME NEW c \in Connections, PCommit(c)  PROVE SnapshotKind(d)
  BY <1>1, <1>11 DEF PCommit, Acknowledged, Committed, sqliteVars, IInv
<1> QED
  BY <1>2, <1>3, <1>4, <1>5, <1>6, <1>7, <1>8, <1>9, <1>10, <1>11 DEF Next, Proceed

LEMMA FreshNext ==
    ASSUME IInv, [Next]_vars
    PROVE  RowsAreFresh'
<1> USE DEF TxTyping, Inserted
<1>1. NextRowId \notin ever
  BY NextRowIdIsFresh DEF IInv
<1>2. \A c, d \in Connections :
         /\ Inserted(c) => row[c] \notin ever
         /\ backend = "sqlite" /\ Inserted(c) /\ Inserted(d) => c = d
         /\ backend = "postgres" =>
               /\ Inserted(c) => row[c] < nextId
               /\ c # d /\ Inserted(c) /\ Inserted(d) => row[c] # row[d]
  BY DEF IInv, RowsAreFresh, OneWriter
<1>3. backend = "postgres" => \A id \in ever : id < nextId
  BY DEF IInv, RowsAreFresh
<1>4. CASE UNCHANGED vars
  BY <1>4 DEF vars, callVars, IInv, RowsAreFresh
<1>5. ASSUME NEW c \in Connections,
             \/ SBegin(c) \/ PBegin(c) \/ SGet(c) \/ PGet(c)
             \/ STrim(c) \/ PTrim(c) \/ PLock(c)
      PROVE  /\ UNCHANGED <<backend, ever, nextId, row>>
             /\ \A d \in Connections : Inserted(d)' => Inserted(d)
  BY <1>5 DEF SBegin, PBegin, SGet, PGet, STrim, PTrim, PLock, callVars, IInv
<1>6. ASSUME NEW c \in Connections, SInsert(c)  PROVE RowsAreFresh'
  <2>1. /\ ever' = ever /\ backend' = backend /\ backend = "sqlite" /\ row'[c] = NextRowId
        /\ \A d \in Connections \ {c} : at'[d] = at[d] /\ row'[d] = row[d]
    BY <1>6 DEF SInsert, IInv
  <2> QED
    BY <1>1, <1>2, <2>1 DEF RowsAreFresh
<1>7. ASSUME NEW c \in Connections, PInsert(c)  PROVE RowsAreFresh'
  <2>1. /\ ever' = ever /\ backend' = backend /\ backend = "postgres"
        /\ row'[c] = nextId /\ nextId' = nextId + 1 /\ nextId \in Nat
        /\ \A d \in Connections \ {c} : at'[d] = at[d] /\ row'[d] = row[d]
        /\ row \in [Connections -> Nat] /\ ever \subseteq Nat
    BY <1>7 DEF PInsert, IInv
  <2> QED
    BY <1>2, <1>3, <2>1 DEF RowsAreFresh
<1>8. ASSUME NEW c \in Connections, SBusy(c) \/ SFull(c) \/ PAbort(c) \/ Crash(c)
      PROVE  /\ UNCHANGED <<backend, ever, nextId>>
             /\ \A d \in Connections : Inserted(d)' => Inserted(d) /\ row'[d] = row[d]
  BY <1>8 DEF SBusy, SFull, PAbort, Crash, Ended, IInv
<1>9. ASSUME NEW c \in Connections, SCommit(c) \/ PCommit(c) \/ PCommitLost(c)
      PROVE  /\ at[c] = "commit" /\ ever' = ever \cup {row[c]}
             /\ backend' = backend /\ nextId' = nextId
             /\ \A d \in Connections :
                   Inserted(d)' => d # c /\ Inserted(d) /\ row'[d] = row[d]
  BY <1>9 DEF SCommit, PCommit, PCommitLost, Committed, Ended, IInv
<1>10. ASSUME NEW c \in Connections, SCommit(c) \/ PCommit(c) \/ PCommitLost(c)
       PROVE  RowsAreFresh'
  <2>1. \A d \in Connections : Inserted(d)' => row[d] # row[c]
    BY <1>2, <1>9, <1>10 DEF SCommit, PCommit, PCommitLost
  <2> QED
    BY <1>2, <1>3, <1>9, <1>10, <2>1 DEF RowsAreFresh
<1> QED
  BY <1>2, <1>3, <1>4, <1>5, <1>6, <1>7, <1>8, <1>10 DEF Next, Proceed, RowsAreFresh

LEMMA WriterNext ==
    ASSUME IInv, [Next]_vars
    PROVE  OneWriter'
<1> SUFFICES ASSUME backend' = "sqlite", NEW d \in Connections
             PROVE  /\ Inserted(d)' => writer' = d
                    /\ at'[d] = "commit" => gone'[d] = Trimmed(d)'
  BY DEF OneWriter
<1> USE DEF TxTyping, Inserted, Trimmed, Kept
<1>1. backend = "sqlite"
  BY CommitOrNot
<1>2. \A c \in Connections :
         /\ Inserted(c) => writer = c
         /\ at[c] = "commit" => gone[c] = Trimmed(c)
  BY <1>1 DEF IInv, OneWriter
<1>3. CASE UNCHANGED vars
  BY <1>2, <1>3 DEF vars, sqliteVars, callVars
<1>4. ASSUME NEW c \in Connections, SBegin(c) \/ SGet(c)
      PROVE  /\ UNCHANGED <<rows, writer, row, gone>>
             /\ at'[d] = at[d] \/ at'[d] = "insert"
  BY <1>4 DEF SBegin, SGet, callVars, IInv
<1>5. ASSUME NEW c \in Connections, SInsert(c)
      PROVE  /\ ~ Inserted(d)
             /\ c = d => at'[d] = "trim" /\ writer' = d
             /\ c # d => at'[d] = at[d]
  BY <1>2, <1>5, TransactionAssumption DEF SInsert, IInv
<1>6. ASSUME NEW c \in Connections, STrim(c)
      PROVE  /\ UNCHANGED <<rows, writer, row>>
             /\ c = d => Inserted(d) /\ gone'[d] = Trimmed(d)
             /\ c # d => at'[d] = at[d] /\ gone'[d] = gone[d]
  BY <1>6 DEF STrim, sqliteVars, IInv
<1>7. ASSUME NEW c \in Connections, SBusy(c)
      PROVE  /\ UNCHANGED <<rows, writer>>
             /\ c = d => at'[d] = "idle"
             /\ c # d => at'[d] = at[d] /\ gone'[d] = gone[d] /\ row'[d] = row[d]
  BY <1>7 DEF SBusy, Ended, sqliteVars, IInv
<1>8. ASSUME NEW c \in Connections, SCommit(c) \/ SFull(c)
      PROVE  ~ Inserted(d)'
  BY <1>2, <1>8 DEF SCommit, SFull, Committed, Ended, IInv
<1>9. ASSUME NEW c \in Connections, Crash(c)
      PROVE  /\ rows' = rows
             /\ c = d => at'[d] = "idle"
             /\ c # d => /\ at'[d] = at[d] /\ gone'[d] = gone[d] /\ row'[d] = row[d]
                         /\ writer = d => writer' = d
  BY <1>9 DEF Crash, Ended, IInv
<1>10. ASSUME NEW c \in Connections
       PROVE  ~ (\/ PBegin(c) \/ PInsert(c) \/ PTrim(c) \/ PLock(c) \/ PCommit(c)
                 \/ PCommitLost(c) \/ PAbort(c) \/ PGet(c))
  BY <1>1 DEF PBegin, PInsert, PTrim, PLock, PCommit, PCommitLost, PAbort, PGet
<1>11. ASSUME NEW c \in Connections, SBegin(c) \/ SGet(c) \/ STrim(c) \/ SBusy(c) \/ Crash(c)
       PROVE  /\ Inserted(d)' => writer' = d
              /\ at'[d] = "commit" => gone'[d] = Trimmed(d)'
  BY <1>2, <1>4, <1>6, <1>7, <1>9, <1>11
<1> QED
  BY <1>3, <1>5, <1>8, <1>10, <1>11 DEF Next, Proceed

LEMMA LockedNext ==
    ASSUME IInv, [Next]_vars
    PROVE  ChosenAreLocked'
<1> SUFFICES ASSUME backend' = "postgres", NEW d \in Connections, at'[d] = "commit"
             PROVE  targets'[d] \cap (rows' \cup {row'[d]}) \subseteq gone'[d]
  BY DEF ChosenAreLocked
<1> USE DEF TxTyping, Inserted
<1>1. backend = "postgres"
  BY CommitOrNot
<1>2. at[d] = "commit" => targets[d] \cap (rows \cup {row[d]}) \subseteq gone[d]
  BY <1>1 DEF IInv, ChosenAreLocked
<1>3. CASE UNCHANGED vars
  BY <1>2, <1>3 DEF vars, callVars
<1>4. ASSUME NEW c \in Connections, PBegin(c) \/ PInsert(c) \/ PTrim(c) \/ PGet(c)
      PROVE  /\ at[d] = "commit" /\ rows' = rows /\ row'[d] = row[d]
             /\ targets'[d] = targets[d] /\ gone'[d] = gone[d]
  BY <1>4 DEF PBegin, PInsert, PTrim, PGet, callVars, IInv
<1>5. ASSUME NEW c \in Connections, PLock(c)
      PROVE  /\ rows' = rows /\ row' = row /\ targets' = targets
             /\ c # d => at[d] = "commit" /\ gone'[d] = gone[d]
             /\ c = d => gone'[d] = targets[d] \cap (rows \cup {row[d]})
  BY <1>5 DEF PLock, IInv
<1>6. ASSUME NEW c \in Connections, PAbort(c) \/ Crash(c)
      PROVE  /\ c # d /\ rows' = rows /\ at[d] = "commit" /\ row'[d] = row[d]
             /\ targets'[d] = targets[d] /\ gone'[d] = gone[d]
  BY <1>6 DEF PAbort, Crash, Ended, IInv
<1>7. ASSUME NEW c \in Connections, PCommit(c) \/ PCommitLost(c)
      PROVE  /\ c # d /\ at[c] = "commit" /\ at[d] = "commit" /\ row'[d] = row[d]
             /\ targets'[d] = targets[d] /\ gone'[d] = gone[d]
             /\ rows' \subseteq rows \cup {row[c]}
  BY <1>7 DEF PCommit, PCommitLost, Committed, Ended, IInv
<1>8. ASSUME NEW c \in Connections, PCommit(c) \/ PCommitLost(c)
      PROVE  row[c] \notin targets[d]
  BY <1>1, <1>7, <1>8 DEF IInv, RowsAreFresh, ChosenBeforehand
<1>9. ASSUME NEW c \in Connections
      PROVE  ~ (\/ SBegin(c) \/ SInsert(c) \/ STrim(c) \/ SBusy(c) \/ SCommit(c)
                \/ SFull(c) \/ SGet(c))
  BY <1>1 DEF SBegin, SInsert, STrim, SBusy, SCommit, SFull, SGet
<1>10. ASSUME NEW c \in Connections,
              \/ PBegin(c) \/ PInsert(c) \/ PTrim(c) \/ PGet(c) \/ PLock(c)
              \/ PAbort(c) \/ Crash(c) \/ PCommit(c) \/ PCommitLost(c)
       PROVE  targets'[d] \cap (rows' \cup {row'[d]}) \subseteq gone'[d]
  BY <1>2, <1>4, <1>5, <1>6, <1>7, <1>8, <1>10
<1> QED
  BY <1>3, <1>9, <1>10 DEF Next, Proceed

-------------------------------------------------------------------------------
(* PostgreSQL: the excess *)

LEMMA LimitType == Limit \in Nat /\ Cardinality(Connections) \in Nat /\ MaxRows <= Limit
BY TransactionAssumption, FS_CardinalityType, FS_EmptySet DEF Limit

LEMMA ConnectionSets ==
    ASSUME NEW S \in SUBSET Connections
    PROVE  IsFiniteSet(S) /\ Cardinality(S) \in Nat
BY TransactionAssumption, FS_Subset, FS_CardinalityType

LEMMA RowSets ==
    ASSUME TxTyping, NEW c \in Connections
    PROVE  /\ IsFiniteSet(rows) /\ Cardinality(rows) \in Nat
           /\ IsFiniteSet(Remaining(c)) /\ Cardinality(Remaining(c)) \in Nat
<1>1. IsFiniteSet(rows)
  BY FS_Subset DEF TxTyping
<1>2. IsFiniteSet(Remaining(c))
  BY <1>1, FS_AddElement, FS_Difference DEF Remaining
<1> QED
  BY <1>1, <1>2, FS_CardinalityType

\* The older transactions, once c is over, and the late ones, once c has
\* committed.
AllBut(older, c) == [d \in Connections |-> older[d] \ {c}]
LateAfter(c, late, older) == IF c \in late THEN late \ {c} ELSE older[c]

\* A connection's transaction is over, and it has stored nothing.
LEMMA ExcessEnded ==
    ASSUME TxTyping, NEW c \in Connections, Ended(c), rows' = rows,
           NEW late \in SUBSET Connections, NEW older \in [Connections -> SUBSET Connections],
           ExcessBy(late, older)
    PROVE  ExcessBy(late \ {c}, AllBut(older, c))'
<1> DEFINE left == AllBut(older, c)
<1> USE DEF AllBut
<1>1. Choosing' = Choosing \ {c}
  BY DEF Choosing, Ended, TxTyping
<1>2. \A d \in Choosing' : Remaining(d)' = Remaining(d) /\ d # c /\ d \in Connections
  BY <1>1 DEF Remaining, Ended, TxTyping, Choosing
<1>3. \A S \in SUBSET Connections :
         /\ Cardinality(S) \in Nat /\ Cardinality(S \ {c}) \in Nat
         /\ Cardinality(S \ {c}) <= Cardinality(S)
  BY ConnectionSets, FS_RemoveElement
<1>4. Cardinality(rows) \in Nat /\ \A d \in Connections : Cardinality(Remaining(d)) \in Nat
  BY RowSets
<1>5. /\ late \ {c} \subseteq Choosing'
      /\ \A d \in Choosing' : left[d] \subseteq Choosing' \ {d}
      /\ \A d \in Choosing' \ (late \ {c}) : late \ {c} \subseteq left[d]
  BY <1>1, <1>2 DEF ExcessBy
<1>6. \A a, b \in Choosing' \ (late \ {c}) :
          /\ a # b => a \in left[b] \/ b \in left[a]
          /\ b \in left[a] => left[b] \subseteq left[a]
  BY <1>1, <1>2 DEF ExcessBy
<1>7. Cardinality(rows') + Cardinality(late \ {c}) <= Limit
  <2>1. Cardinality(rows) + Cardinality(late) <= Limit
    BY DEF ExcessBy
  <2> QED
    BY <1>3, <1>4, <2>1, LimitType
<1>8. ASSUME NEW d \in Choosing' \ (late \ {c})
      PROVE  Cardinality(Remaining(d)') + Cardinality(left[d]) <= Limit
  <2>1. Cardinality(Remaining(d)) + Cardinality(older[d]) <= Limit
    BY <1>1, <1>2, <1>8 DEF ExcessBy
  <2>2. d \in Connections /\ older[d] \in SUBSET Connections
    BY <1>2
  <2> QED
    BY <1>2, <1>3, <1>4, <2>1, <2>2, LimitType
<1> QED
  BY <1>5, <1>6, <1>7, <1>8 DEF ExcessBy, Limit

\* A transaction commits.  If it had chosen its rows after every committed one,
\* what remains is what it chose not to delete, and the rows to come are those
\* of the transactions that had chosen before it.
LEMMA ExcessCommitted ==
    ASSUME IInv, backend = "postgres", NEW c \in Connections, at[c] = "commit", Committed(c),
           NEW late \in SUBSET Connections, NEW older \in [Connections -> SUBSET Connections],
           ExcessBy(late, older)
    PROVE  ExcessBy(LateAfter(c, late, older),
                    AllBut(older, c))'
<1> DEFINE left == AllBut(older, c)
           later == LateAfter(c, late, older)
<1> USE DEF TxTyping, AllBut, LateAfter
<1>1. Choosing' = Choosing \ {c} /\ c \in Choosing
  BY DEF Choosing, Committed, Ended, IInv
<1>2. \A d \in Choosing' :
         /\ d # c /\ d \in Connections /\ d \in Choosing
         /\ row'[d] = row[d] /\ targets'[d] = targets[d]
  BY <1>1 DEF Committed, Ended, Choosing, IInv
<1>3. rows' \subseteq Remaining(c) /\ rows' \subseteq rows \cup {row[c]}
  BY DEF Committed, Remaining, IInv, ChosenAreLocked
<1>4. /\ later \in SUBSET Connections
      /\ later \subseteq Choosing'
      /\ \A d \in Choosing' \ later : d \in Choosing \ late /\ c \in older[d]
  BY <1>1, <1>2 DEF ExcessBy
<1>5. /\ \A d \in Choosing' : left[d] \subseteq Choosing' \ {d}
      /\ \A d \in Choosing' \ later : later \subseteq left[d]
  <2>1. \A d \in Choosing' : left[d] \subseteq Choosing' \ {d}
    BY <1>1, <1>2 DEF ExcessBy
  <2>2. ASSUME NEW d \in Choosing' \ later  PROVE later \subseteq left[d]
    <3>1. CASE c \in late
      BY <1>1, <1>2, <1>4, <3>1 DEF ExcessBy
    <3>2. CASE c \notin late
      <4>1. older[c] \subseteq older[d]
        BY <1>1, <1>4, <3>2 DEF ExcessBy
      <4>2. c \notin older[c]
        BY <1>1 DEF ExcessBy
      <4> QED
        BY <1>2, <3>2, <4>1, <4>2
    <3> QED
      BY <3>1, <3>2
  <2> QED
    BY <2>1, <2>2
<1>6. \A a, b \in Choosing' \ later :
          /\ a # b => a \in left[b] \/ b \in left[a]
          /\ b \in left[a] => left[b] \subseteq left[a]
  BY <1>2, <1>4 DEF ExcessBy
<1>7. /\ IsFiniteSet(rows) /\ Cardinality(rows) \in Nat
      /\ \A d \in Connections :
            IsFiniteSet(Remaining(d)) /\ Cardinality(Remaining(d)) \in Nat
  BY RowSets DEF IInv
<1>8. Cardinality(rows') + Cardinality(later) <= Limit
  <2>1. CASE c \in late
    <3>1. Cardinality(rows) + Cardinality(late) <= Limit
      BY DEF ExcessBy
    <3>2. Cardinality(late \ {c}) = Cardinality(late) - 1 /\ Cardinality(late) \in Nat
      BY <2>1, ConnectionSets, FS_RemoveElement
    <3>3. /\ IsFiniteSet(rows \cup {row[c]})
          /\ Cardinality(rows \cup {row[c]}) <= Cardinality(rows) + 1
          /\ Cardinality(rows \cup {row[c]}) \in Nat
      BY <1>7, OneMoreElement
    <3>4. Cardinality(rows') <= Cardinality(rows \cup {row[c]}) /\ Cardinality(rows') \in Nat
      BY <1>3, <3>3, FS_Subset, FS_CardinalityType
    <3> QED
      BY <1>7, <2>1, <3>1, <3>2, <3>3, <3>4, LimitType
  <2>2. CASE c \notin late
    <3>1. Cardinality(Remaining(c)) + Cardinality(older[c]) <= Limit
      BY <1>1, <2>2 DEF ExcessBy
    <3>2. Cardinality(rows') <= Cardinality(Remaining(c)) /\ Cardinality(rows') \in Nat
      BY <1>3, <1>7, FS_Subset, FS_CardinalityType
    <3>3. Cardinality(older[c]) \in Nat
      BY ConnectionSets
    <3> QED
      BY <1>7, <2>2, <3>1, <3>2, <3>3, LimitType
  <2> QED
    BY <2>1, <2>2
<1>9. ASSUME NEW d \in Choosing' \ later
      PROVE  Cardinality(Remaining(d)') + Cardinality(left[d]) <= Limit
  <2>1. /\ d \in Connections /\ d # c /\ c \in older[d] /\ older[d] \in SUBSET Connections
        /\ Cardinality(Remaining(d)) + Cardinality(older[d]) <= Limit
    BY <1>2, <1>4 DEF ExcessBy
  <2>2. Cardinality(left[d]) = Cardinality(older[d]) - 1 /\ Cardinality(older[d]) \in Nat
    BY <2>1, ConnectionSets, FS_RemoveElement
  <2>3. Remaining(d)' \subseteq Remaining(d) \cup {row[c]}
    BY <1>2, <1>3 DEF Remaining
  <2>4. /\ IsFiniteSet(Remaining(d) \cup {row[c]})
        /\ Cardinality(Remaining(d) \cup {row[c]}) <= Cardinality(Remaining(d)) + 1
        /\ Cardinality(Remaining(d) \cup {row[c]}) \in Nat
        /\ Cardinality(Remaining(d)) \in Nat
    BY <1>7, <2>1, OneMoreElement
  <2>5. /\ Cardinality(Remaining(d)') <= Cardinality(Remaining(d) \cup {row[c]})
        /\ Cardinality(Remaining(d)') \in Nat
    BY <2>3, <2>4, FS_Subset, FS_CardinalityType
  <2> QED
    BY <2>1, <2>2, <2>4, <2>5, LimitType
<1> HIDE DEF later, left, LateAfter, AllBut
<1>10. ExcessBy(later, left)'
  BY <1>4, <1>5, <1>6, <1>8, <1>9 DEF ExcessBy, Limit
<1> QED
  BY <1>10 DEF later, left

\* A transaction chooses: it keeps max_rows_per_key rows at most, and can find
\* all other connections at work.
LEMMA ExcessChosen ==
    ASSUME TxTyping, NEW c \in Connections, PTrim(c),
           NEW late \in SUBSET Connections, NEW older \in [Connections -> SUBSET Connections],
           ExcessBy(late, older),
           NEW others \in SUBSET Connections, others = Choosing
    PROVE  ExcessBy(late, [older EXCEPT ![c] = others])'
<1> DEFINE next == [older EXCEPT ![c] = others]
<1>1. /\ rows' = rows /\ row' = row /\ targets' = [targets EXCEPT ![c] = Trimmed(c)]
      /\ c \notin Choosing /\ Choosing' = Choosing \cup {c}
      /\ Choosing \in SUBSET Connections
  BY DEF PTrim, Choosing, TxTyping
<1>2. /\ next \in [Connections -> SUBSET Connections]
      /\ next[c] = Choosing
      /\ \A d \in Choosing : next[d] = older[d] /\ d # c
  BY <1>1
<1>3. \A d \in Choosing : Remaining(d)' = Remaining(d)
  BY <1>1 DEF Remaining, TxTyping
<1>4. /\ late \subseteq Choosing'
      /\ \A d \in Choosing' : next[d] \subseteq Choosing' \ {d}
      /\ \A d \in Choosing' \ late : late \subseteq next[d]
  BY <1>1, <1>2 DEF ExcessBy
<1>5. \A a, b \in Choosing' \ late :
          /\ a # b => a \in next[b] \/ b \in next[a]
          /\ b \in next[a] => next[b] \subseteq next[a]
  BY <1>1, <1>2 DEF ExcessBy
<1>6. Cardinality(Remaining(c)') + Cardinality(next[c]) <= Limit
  <2>1. Remaining(c)' = Kept(rows \cup {row[c]})
    BY <1>1 DEF Remaining, Trimmed, Kept, TxTyping
  <2>2. rows \cup {row[c]} \in SUBSET Nat /\ IsFiniteSet(rows \cup {row[c]})
    BY RowSets, OneMoreElement DEF TxTyping
  <2>3. Cardinality(Remaining(c)') \in Nat /\ Cardinality(Remaining(c)') <= MaxRows
    BY <2>1, <2>2, KeptAtMost
  <2>4. Choosing \subseteq Connections \ {c}
    BY <1>1
  <2>5. /\ IsFiniteSet(Connections \ {c})
        /\ Cardinality(Connections \ {c}) = Cardinality(Connections) - 1
    BY FS_RemoveElement, TransactionAssumption
  <2>6. Cardinality(Choosing) <= Cardinality(Connections) - 1 /\ Cardinality(Choosing) \in Nat
    BY <2>4, <2>5, FS_Subset, FS_CardinalityType
  <2> QED
    BY <1>2, <2>3, <2>6, LimitType, TransactionAssumption DEF Limit
<1>7. \A d \in Choosing' \ late :
          Cardinality(Remaining(d)') + Cardinality(next[d]) <= Limit
  BY <1>1, <1>2, <1>3, <1>6 DEF ExcessBy
<1>8. Cardinality(rows') + Cardinality(late) <= Limit
  BY <1>1 DEF ExcessBy
<1> HIDE DEF next
<1>9. ExcessBy(late, next)'
  BY <1>4, <1>5, <1>7, <1>8 DEF ExcessBy, Limit
<1> QED
  BY <1>9 DEF next

\* Nothing the bound is about has changed.
LEMMA ExcessUnchanged ==
    ASSUME rows' = rows, Choosing' = Choosing,
           \A c \in Choosing : Remaining(c)' = Remaining(c),
           NEW late, NEW older, ExcessBy(late, older)
    PROVE  ExcessBy(late, older)'
BY DEF ExcessBy, Limit

LEMMA ExcessNext ==
    ASSUME IInv, [Next]_vars
    PROVE  ExcessIsBounded'
<1> SUFFICES ASSUME backend' = "postgres"
             PROVE  \E late \in SUBSET Connections,
                       older \in [Connections -> SUBSET Connections] : ExcessBy(late, older)'
  BY DEF ExcessIsBounded
<1>1. backend = "postgres" /\ TxTyping
  BY CommitOrNot DEF IInv
<1>2. PICK late \in SUBSET Connections, older \in [Connections -> SUBSET Connections] :
         ExcessBy(late, older)
  BY <1>1 DEF IInv, ExcessIsBounded
<1>0. PICK others \in SUBSET Connections : others = Choosing
  BY DEF Choosing
<1>3. ASSUME NEW c \in Connections
      PROVE  /\ late \ {c} \in SUBSET Connections
             /\ AllBut(older, c) \in [Connections -> SUBSET Connections]
             /\ [older EXCEPT ![c] = others] \in [Connections -> SUBSET Connections]
             /\ LateAfter(c, late, older) \in SUBSET Connections
  BY DEF Choosing, AllBut, LateAfter
<1>4. CASE UNCHANGED vars
  BY <1>2, <1>4, ExcessUnchanged DEF vars, callVars, Choosing, Remaining
<1>5. ASSUME NEW c \in Connections, PBegin(c) \/ PInsert(c) \/ PLock(c) \/ PGet(c)
      PROVE  /\ rows' = rows /\ Choosing' = Choosing
             /\ \A d \in Choosing : Remaining(d)' = Remaining(d)
  <2>1. CASE PBegin(c)
    BY <1>1, <2>1 DEF PBegin, Choosing, Remaining, TxTyping
  <2>2. CASE PInsert(c)
    BY <1>1, <2>2 DEF PInsert, Choosing, Remaining, TxTyping
  <2>3. CASE PLock(c)
    BY <1>1, <2>3 DEF PLock, Choosing, Remaining, TxTyping
  <2>4. CASE PGet(c)
    BY <1>1, <2>4 DEF PGet, callVars, Choosing, Remaining, TxTyping
  <2> QED
    BY <1>5, <2>1, <2>2, <2>3, <2>4
<1>6. ASSUME NEW c \in Connections, PAbort(c) \/ Crash(c)
      PROVE  Ended(c) /\ rows' = rows
  BY <1>6 DEF PAbort, Crash
<1>7. ASSUME NEW c \in Connections, PCommit(c) \/ PCommitLost(c)
      PROVE  at[c] = "commit" /\ Committed(c)
  BY <1>7 DEF PCommit, PCommitLost
<1>8. ASSUME NEW c \in Connections
      PROVE  ~ (\/ SBegin(c) \/ SInsert(c) \/ STrim(c) \/ SBusy(c) \/ SCommit(c)
                \/ SFull(c) \/ SGet(c))
  BY <1>1 DEF SBegin, SInsert, STrim, SBusy, SCommit, SFull, SGet
<1>9. ASSUME NEW c \in Connections, PBegin(c) \/ PInsert(c) \/ PLock(c) \/ PGet(c)
      PROVE  ExcessBy(late, older)'
  BY <1>2, <1>5, <1>9, ExcessUnchanged
<1>10. ASSUME NEW c \in Connections, PTrim(c)
       PROVE  ExcessBy(late, [older EXCEPT ![c] = others])'
  BY <1>1, <1>2, <1>10, <1>0, ExcessChosen
<1>11. ASSUME NEW c \in Connections, PAbort(c) \/ Crash(c)
       PROVE  ExcessBy(late \ {c}, AllBut(older, c))'
  BY <1>1, <1>2, <1>6, <1>11, ExcessEnded
<1>12. ASSUME NEW c \in Connections, PCommit(c) \/ PCommitLost(c)
       PROVE  ExcessBy(LateAfter(c, late, older),
                       AllBut(older, c))'
  BY <1>1, <1>2, <1>7, <1>12, ExcessCommitted
<1>13. ASSUME NEW c \in Connections,
              \/ PBegin(c) \/ PInsert(c) \/ PLock(c) \/ PGet(c) \/ PTrim(c)
              \/ PAbort(c) \/ Crash(c) \/ PCommit(c) \/ PCommitLost(c)
       PROVE  \E l \in SUBSET Connections, o \in [Connections -> SUBSET Connections] :
                 ExcessBy(l, o)'
  <2>1. CASE PBegin(c) \/ PInsert(c) \/ PLock(c) \/ PGet(c)
    BY <1>9, <2>1
  <2>2. CASE PTrim(c)
    <3>1. [older EXCEPT ![c] = others] \in [Connections -> SUBSET Connections]
      BY <1>3
    <3>2. ExcessBy(late, [older EXCEPT ![c] = others])'
      BY <1>10, <2>2
    <3> QED
      BY <3>1, <3>2
  <2>3. CASE PAbort(c) \/ Crash(c)
    BY <1>3, <1>11, <2>3
  <2>4. CASE PCommit(c) \/ PCommitLost(c)
    BY <1>3, <1>12, <2>4
  <2> QED
    BY <1>13, <2>1, <2>2, <2>3, <2>4
<1> QED
  BY <1>4, <1>8, <1>13 DEF Next, Proceed

-------------------------------------------------------------------------------
(* Theorems *)

LEMMA IInvInit == Init => IInv
<1> SUFFICES ASSUME Init  PROVE IInv
  OBVIOUS
<1>1. TxTyping
  BY TypingInit
<1>2. /\ DroppedHaveNewer /\ DeletedHaveNewer /\ ChosenBeforehand /\ SnapshotHolds
      /\ RowsAreFresh /\ OneWriter /\ ChosenAreLocked
  BY DEF Init, DroppedHaveNewer, DeletedHaveNewer, ChosenBeforehand, SnapshotHolds,
         RowsAreFresh, OneWriter, ChosenAreLocked, Inserted
<1>3. ExcessIsBounded
  <2> DEFINE none == [c \in Connections |-> {}]
  <2>1. Choosing = {} /\ rows = {}
    BY DEF Init, Choosing
  <2>2. ExcessBy({}, none)
    BY <2>1, FS_EmptySet, LimitType DEF ExcessBy
  <2>3. {} \in SUBSET Connections /\ none \in [Connections -> SUBSET Connections]
    OBVIOUS
  <2> QED
    BY <2>2, <2>3 DEF ExcessIsBounded
<1> QED
  BY <1>1, <1>2, <1>3 DEF IInv

LEMMA IInvNext == IInv /\ [Next]_vars => IInv'
<1> SUFFICES ASSUME IInv, [Next]_vars  PROVE IInv'
  OBVIOUS
<1>1. TxTyping'
  BY TypingNext DEF IInv
<1> QED
  BY <1>1, DroppedNext, DeletedNext, ChosenNext, SnapshotNext, FreshNext, WriterNext,
     LockedNext, ExcessNext DEF IInv

LEMMA Inductive == Spec => []IInv
BY IInvInit, IInvNext, PTL DEF Spec

\* However many engines share the database, and whatever fails between two
\* statements of append(): what an engine was told is stored - by its own
\* append or by a get - it goes on reading until max_rows_per_key newer rows
\* have been stored (sqlite_storage.py, postgres_storage.py).
THEOREM EnginesReadWhatTheyWereTold == Spec => []SessionGuarantee
<1>1. IInv => SessionGuarantee
  BY DEF IInv, SessionGuarantee, SnapshotHolds, DroppedHaveNewer, Visible, Newer
<1> QED
  BY <1>1, Inductive, PTL

\* BoundedLog counts with an instance of its own of the library's operator.
LEMMA SameCardinality == \A S : Log!Cardinality(S) = Cardinality(S)
BY DEF Log!Cardinality, Cardinality

LEMMA StepOfLog == IInv /\ IInv' /\ [Next]_vars => [Log!LogNext]_<<rows, ever, Slack>>
<1> SUFFICES ASSUME IInv, IInv', [Next]_vars  PROVE [Log!LogNext]_<<rows, ever, Slack>>
  OBVIOUS
<1>1. CASE UNCHANGED <<backend, rows, ever>>
  BY <1>1 DEF Slack
<1>2. ASSUME NEW c \in Connections, at[c] = "commit", Committed(c), row[c] \notin ever,
             UNCHANGED backend
      PROVE  Log!LogNext
  <2>1. /\ ever' = ever \cup {row[c]} /\ rows' = (rows \cup {row[c]}) \ gone[c]
    BY <1>2 DEF Committed
  <2>2. \A id \in ever' \ rows' : Cardinality({n \in ever' : n > id}) >= MaxRows
    BY DEF IInv, DroppedHaveNewer, Newer
  <2>3. Cardinality(rows') <= MaxRows + Slack
    <3>1. CASE backend = "sqlite"
      <4>1. rows' = Kept(rows \cup {row[c]})
        BY <1>2, <2>1, <3>1 DEF IInv, OneWriter, Trimmed, Kept
      <4>2. rows \cup {row[c]} \in SUBSET Nat /\ IsFiniteSet(rows \cup {row[c]})
        BY RowSets, OneMoreElement DEF IInv, TxTyping
      <4> QED
        BY <3>1, <4>1, <4>2, KeptAtMost, TransactionAssumption DEF Slack
    <3>2. CASE backend = "postgres"
      <4>1. PICK late \in SUBSET Connections, older \in [Connections -> SUBSET Connections] :
               ExcessBy(late, older)'
        BY <1>2, <3>2 DEF IInv, ExcessIsBounded
      <4>2. Cardinality(rows') + Cardinality(late) <= Limit
        BY <4>1 DEF ExcessBy, Limit
      <4>3. Cardinality(rows') \in Nat /\ Cardinality(late) \in Nat
        <5>1. IsFiniteSet(rows')
          BY FS_Subset DEF IInv, TxTyping
        <5> QED
          BY <5>1, FS_CardinalityType, ConnectionSets
      <4> QED
        BY <3>2, <4>2, <4>3, LimitType, TransactionAssumption DEF Slack, Limit
    <3> QED
      BY <3>1, <3>2 DEF IInv, TxTyping
  <2>4. Slack' = Slack
    BY <1>2 DEF Slack
  <2>5. Cardinality(rows') <= MaxRows + Slack /\ rows' \subseteq rows \cup {row[c]}
    BY <2>1, <2>3
  <2>6. Log!Store(row[c])
    BY <1>2, <2>1, <2>2, <2>4, <2>5, SameCardinality DEF Log!Store
  <2> QED
    BY <2>1, <2>6 DEF Log!LogNext
<1> QED
  BY <1>1, <1>2, CommitOrNot

\* For a fresh reader an append is one step: a row comes, and rows that have
\* max_rows_per_key newer ones go.  SQLite keeps exactly that many; PostgreSQL
\* at most one more for each of the other connections.
THEOREM AppendsAreOneStep == Spec => ImplementsLog
<1>1. Init => Log!LogInit
  BY LimitType, TransactionAssumption, FS_EmptySet, FS_CardinalityType DEF Init, Log!LogInit, Slack
<1> QED
  BY <1>1, Inductive, StepOfLog, PTL DEF ImplementsLog, Log!LogSpec, Spec
===============================================================================
