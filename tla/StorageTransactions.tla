-------------------------- MODULE StorageTransactions --------------------------
(***************************************************************************)
(* guardian/memory/sqlite_storage.py and postgres_storage.py: append and   *)
(* get for one key, statement by statement, on several connections to one  *)
(* database.                                                               *)
(*                                                                         *)
(*   "sqlite"    one connection per engine, guarded by a thread lock.  The *)
(*               API process alone has two engines on the same file, the   *)
(*               MCP server a third.                                       *)
(*   "postgres"  the connections of the pools of all replicas.             *)
(*                                                                         *)
(* The databases are external; what is modelled of them is SQLite in WAL   *)
(* mode under Python's implicit transactions, and READ COMMITTED.          *)
(***************************************************************************)
EXTENDS Integers, FiniteSets, FiniteSetsExt

CONSTANTS
    Connections,
    Backends,   \* a subset of {"sqlite", "postgres"}
    MaxRows,    \* max_rows_per_key
    MaxId,      \* bound on the ids handed out, for model checking
    None

ASSUME TransactionAssumption ==
    /\ IsFiniteSet(Connections) /\ Connections # {} /\ None \notin Connections
    /\ Backends \subseteq {"sqlite", "postgres"} /\ Backends # {}
    /\ MaxRows \in Nat \ {0} /\ MaxId \in Nat

VARIABLES
    backend,
    rows, ever,   \* ids of the committed rows, and of all ever committed
    nextId,       \* PostgreSQL's sequence
    writer,       \* the connection that holds SQLite's write lock, or None
    tx,           \* SQLite: "none", "open", "read" or "write", the transaction
                  \* a connection is in
    snap,         \* SQLite: the snapshot a reading transaction stays on
    at,           \* the statement an append has reached
    row,          \* the id of the row it inserted
    targets,      \* PostgreSQL: the rows its DELETE has chosen
    gone,         \* the rows it has deleted, and so locked, before the commit
    seen          \* history: what an engine was told to be stored

sqliteVars == <<writer, tx, snap>>
callVars == <<at, row, targets, gone>>
vars == <<backend, rows, ever, nextId, sqliteVars, callVars, seen>>

Init ==
    /\ backend \in Backends
    /\ rows = {} /\ ever = {} /\ nextId = 1 /\ writer = None
    /\ tx = [c \in Connections |-> "none"]
    /\ at = [c \in Connections |-> "idle"]
    /\ row = [c \in Connections |-> 0]
    /\ LET nothing == [c \in Connections |-> {}]
       IN  snap = nothing /\ targets = nothing /\ gone = nothing /\ seen = nothing

-------------------------------------------------------------------------------
(* What both backends have in common *)

\* Mutant: ORDER BY id ASC.
KeptOldest(visible) ==
    {id \in visible : Cardinality({n \in visible : n < id}) < MaxRows}

\* SELECT id ... ORDER BY id DESC LIMIT MaxRows
Kept(visible) == {id \in visible : Cardinality({n \in visible : n > id}) < MaxRows}

Trimmed(c) == LET visible == rows \cup {row[c]} IN visible \ Kept(visible)

Busy == {c \in Connections : at[c] # "idle"}

\* The call is over; a transaction that is still open is not its concern.
Ended(c) ==
    /\ at' = [at EXCEPT ![c] = "idle"]
    /\ row' = [row EXCEPT ![c] = 0]
    /\ targets' = [targets EXCEPT ![c] = {}]
    /\ gone' = [gone EXCEPT ![c] = {}]

Committed(c) ==
    /\ rows' = (rows \cup {row[c]}) \ gone[c]
    /\ ever' = ever \cup {row[c]}
    /\ Ended(c)

Acknowledged(c) == seen' = [seen EXCEPT ![c] = @ \cup {row[c]}]

-------------------------------------------------------------------------------
(* SQLite *)

NextRowId == Max(ever \cup {0}) + 1

\* execute("INSERT ...") begins a deferred transaction unless the connection
\* is in one already.
SBegin(c) ==
    /\ backend = "sqlite" /\ at[c] = "idle"
    /\ NextRowId + Cardinality(Busy) <= MaxId
    /\ tx' = [tx EXCEPT ![c] = IF @ = "none" THEN "open" ELSE @]
    /\ at' = [at EXCEPT ![c] = "insert"]
    /\ UNCHANGED <<backend, rows, ever, nextId, writer, snap, row, targets, gone, seen>>

\* A transaction that has read can write only if nobody committed since.
Current(c) == tx[c] = "read" => snap[c] = rows

SInsert(c) ==
    /\ backend = "sqlite" /\ at[c] = "insert"
    /\ writer = None /\ Current(c)
    /\ writer' = c
    /\ tx' = [tx EXCEPT ![c] = "write"]
    /\ snap' = [snap EXCEPT ![c] = {}]
    /\ row' = [row EXCEPT ![c] = NextRowId]
    /\ at' = [at EXCEPT ![c] = "trim"]
    /\ UNCHANGED <<backend, rows, ever, nextId, targets, gone, seen>>

\* "database is locked": at once on an outdated snapshot, otherwise when the
\* busy timeout runs out.  The exception leaves append(), and nobody rolls
\* back the transaction that SBegin opened.
SBusy(c) ==
    /\ backend = "sqlite" /\ at[c] = "insert"
    /\ writer # None \/ ~Current(c)
    /\ Ended(c)
    /\ UNCHANGED <<backend, rows, ever, nextId, sqliteVars, seen>>

STrim(c) ==
    /\ backend = "sqlite" /\ at[c] = "trim"
    /\ gone' = [gone EXCEPT ![c] = Trimmed(c)]
    /\ at' = [at EXCEPT ![c] = "commit"]
    /\ UNCHANGED <<backend, rows, ever, nextId, sqliteVars, row, targets, seen>>

SRelease(c) ==
    /\ writer' = None
    /\ tx' = [tx EXCEPT ![c] = "none"]
    /\ UNCHANGED snap

SCommit(c) ==
    /\ backend = "sqlite" /\ at[c] = "commit"
    /\ Committed(c)
    /\ Acknowledged(c)
    /\ SRelease(c)
    /\ UNCHANGED <<backend, nextId>>

\* Mutant: the error is swallowed and the caller told that the row is stored.
SFullSwallowed(c) ==
    /\ backend = "sqlite" /\ at[c] \in {"trim", "commit"}
    /\ Ended(c)
    /\ SRelease(c)
    /\ Acknowledged(c)
    /\ UNCHANGED <<backend, rows, ever, nextId>>

\* Disk full or an I/O error: SQLite rolls the transaction back itself.
SFull(c) ==
    /\ backend = "sqlite" /\ at[c] \in {"trim", "commit"}
    /\ Ended(c)
    /\ SRelease(c)
    /\ UNCHANGED <<backend, rows, ever, nextId, seen>>

\* What get() on this connection returns.
Visible(c) == IF tx[c] = "read" THEN snap[c] ELSE rows

\* A SELECT in an open transaction starts a snapshot that stays.
SGet(c) ==
    /\ backend = "sqlite" /\ at[c] = "idle"
    /\ tx' = [tx EXCEPT ![c] = IF @ = "open" THEN "read" ELSE @]
    /\ snap' = [snap EXCEPT ![c] = IF tx[c] = "open" THEN rows ELSE @]
    /\ seen' = [seen EXCEPT ![c] = @ \cup Visible(c)]
    /\ UNCHANGED <<backend, rows, ever, nextId, writer, callVars>>

-------------------------------------------------------------------------------
(* PostgreSQL *)

PBegin(c) ==
    /\ backend = "postgres" /\ at[c] = "idle"
    /\ nextId + Cardinality(Busy) <= MaxId
    /\ at' = [at EXCEPT ![c] = "insert"]
    /\ UNCHANGED <<backend, rows, ever, nextId, sqliteVars, row, targets, gone, seen>>

\* The id is taken from the sequence now and is not given back.
PInsert(c) ==
    /\ backend = "postgres" /\ at[c] = "insert"
    /\ row' = [row EXCEPT ![c] = nextId]
    /\ nextId' = nextId + 1
    /\ at' = [at EXCEPT ![c] = "trim"]
    /\ UNCHANGED <<backend, rows, ever, sqliteVars, targets, gone, seen>>

\* The DELETE chooses among the rows committed when it starts, and its own ...
PTrim(c) ==
    /\ backend = "postgres" /\ at[c] = "trim"
    /\ targets' = [targets EXCEPT ![c] = Trimmed(c)]
    /\ at' = [at EXCEPT ![c] = "lock"]
    /\ UNCHANGED <<backend, rows, ever, nextId, sqliteVars, row, gone, seen>>

\* ... waits for transactions that have deleted one of them, and passes over
\* what those removed.
PLock(c) ==
    /\ backend = "postgres" /\ at[c] = "lock"
    /\ \A d \in Connections \ {c} : gone[d] \cap targets[c] = {}
    /\ gone' = [gone EXCEPT ![c] = targets[c] \cap (rows \cup {row[c]})]
    /\ at' = [at EXCEPT ![c] = "commit"]
    /\ UNCHANGED <<backend, rows, ever, nextId, sqliteVars, row, targets, seen>>

PCommit(c) ==
    /\ backend = "postgres" /\ at[c] = "commit"
    /\ Committed(c)
    /\ Acknowledged(c)
    /\ UNCHANGED <<backend, nextId, sqliteVars>>

\* The connection breaks after the server has committed: append() raises.
PCommitLost(c) ==
    /\ backend = "postgres" /\ at[c] = "commit"
    /\ Committed(c)
    /\ UNCHANGED <<backend, nextId, sqliteVars, seen>>

\* Mutant: the connection goes back to the pool without a rollback.
PAbortNoRollback(c) ==
    /\ backend = "postgres" /\ at[c] # "idle"
    /\ at' = [at EXCEPT ![c] = "idle"]
    /\ UNCHANGED <<backend, rows, ever, nextId, sqliteVars, row, targets, gone, seen>>

\* Any statement fails (a deadlock, a timeout, a broken connection): leaving
\* `with self.pool.connection()` on an exception rolls back.
PAbort(c) ==
    /\ backend = "postgres" /\ at[c] # "idle"
    /\ Ended(c)
    /\ UNCHANGED <<backend, rows, ever, nextId, sqliteVars, seen>>

PGet(c) ==
    /\ backend = "postgres" /\ at[c] = "idle"
    /\ seen' = [seen EXCEPT ![c] = @ \cup rows]
    /\ UNCHANGED <<backend, rows, ever, nextId, sqliteVars, callVars>>

-------------------------------------------------------------------------------
\* The process dies; the database rolls back what it had not committed, and
\* the next process opens a new connection.
Crash(c) ==
    /\ Ended(c)
    /\ tx' = [tx EXCEPT ![c] = "none"]
    /\ snap' = [snap EXCEPT ![c] = {}]
    /\ writer' = IF writer = c THEN None ELSE writer
    /\ UNCHANGED <<backend, rows, ever, nextId, seen>>

\* What a call does by itself once it has begun.
Proceed(c) ==
    \/ SInsert(c)
    \/ SBusy(c)
    \/ STrim(c)
    \/ SCommit(c)
    \/ PInsert(c)
    \/ PTrim(c)
    \/ PLock(c)
    \/ PCommit(c)

Next == \E c \in Connections :
    \/ SBegin(c)
    \/ PBegin(c)
    \/ Proceed(c)
    \/ SGet(c)
    \/ PGet(c)
    \/ SFull(c)
    \/ PCommitLost(c)
    \/ PAbort(c)
    \/ Crash(c)

\* A thread that has begun a call runs on: the busy timeout is finite, and
\* PostgreSQL grants a row lock when its holder is done.  Nothing obliges a
\* caller to begin, or the environment to fail.
Spec == Init /\ [][Next]_vars /\ \A c \in Connections : WF_vars(Proceed(c))

-------------------------------------------------------------------------------
(* Properties *)

\* However the statements of concurrent appends interleave with failures and
\* crashes, an append is one step to every fresh reader: it adds its row
\* and drops only rows with max_rows_per_key newer ones.  With SQLite the
\* trimming is exact; PostgreSQL's transactions do not see each other's rows
\* and may leave one extra row for each of the other connections.
Slack == IF backend = "sqlite" THEN 0 ELSE Cardinality(Connections) - 1
Log == INSTANCE BoundedLog WITH slack <- Slack
ImplementsLog == Log!LogSpec

\* What an engine was once told is stored - by its own append or by a get -
\* it goes on reading, until max_rows_per_key newer rows have been stored:
\* also after an append that failed, after a crash, and on a connection left
\* inside a transaction.
SessionGuarantee ==
    \A c \in Connections : at[c] = "idle" =>
        \A id \in seen[c] :
            id \in Visible(c) \/ Cardinality({n \in ever : n > id}) >= MaxRows

\* No call waits for ever: write locks and row locks are given back on every
\* path, the failing ones included.
EveryCallEnds ==
    \A c \in Connections : at[c] # "idle" ~> at[c] = "idle"

-------------------------------------------------------------------------------
(* What the repository says and the code does not do *)

\* sqlite_storage.py:6-8 has several processes share the history by pointing
\* sqlite_path at one file, and :14-15 has SQLite serialize their writes: so a
\* read sees what any of them has stored.
ReadsAreCurrent ==
    \A c \in Connections : at[c] = "idle" => Visible(c) = rows
===============================================================================
