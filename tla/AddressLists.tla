------------------------------ MODULE AddressLists -----------------------------
(***************************************************************************)
(* guardian/intelligence/threat/blocklist.py, the deny and allow lists a   *)
(* process keeps of one file, and scripts/refresh_ofac_list.py, which adds *)
(* what its source publishes to that file, in place.  The operator may     *)
(* edit, damage or remove the file at any time but in the moment in which  *)
(* the script has it open for writing.  Addresses are in lower case.       *)
(***************************************************************************)
EXTENDS Integers, FiniteSets

CONSTANTS
    Addresses,
    Lists,     \* the AddressList objects of all processes
    MaxEdits   \* bound on the operator's edits, for model checking

ASSUME ListAssumption == MaxEdits \in Nat

VARIABLES
    listFile,   \* what a reader finds: missing, torn, or a set of entries
    source,     \* what the refresher's source publishes
    refresher,  \* the progress and the local variables of the script
    list,       \* the AddressList objects
    edits,      \* history: how many edits the operator has made
    published,  \* history: every set of entries the file has held
    lastKept,   \* history: the entries the file held when it was last complete
    delisted    \* history: addresses the operator removed, or whose listing by
                \* the operator the script has overwritten

listVars == <<listFile, source, refresher, list, edits, published, lastKept, delisted>>

File == [status : {"missing", "torn", "complete"}, entries : SUBSET Addresses]
Missing == [status |-> "missing", entries |-> {}]
Torn == [status |-> "torn", entries |-> {}]
Complete(entries) == [status |-> "complete", entries |-> entries]

NotRunning == [at |-> "idle", fetched |-> {}, existing |-> {}]
NotStarted == [up |-> FALSE, loaded |-> FALSE, entries |-> {}]

ListTypeOK ==
    /\ listFile \in File
    /\ source \subseteq Addresses
    /\ refresher \in [at : {"idle", "fetched", "read", "writing"},
                      fetched : SUBSET Addresses, existing : SUBSET Addresses]
    /\ list \in [Lists -> [up : BOOLEAN, loaded : BOOLEAN,
                                   entries : SUBSET Addresses]]
    /\ \A l \in Lists : list[l].entries # {} => list[l].loaded
    /\ edits \in 0 .. MaxEdits
    /\ published \subseteq SUBSET Addresses
    /\ lastKept \subseteq Addresses /\ delisted \subseteq Addresses

ListInit ==
    /\ listFile = Missing
    /\ source = {}
    /\ refresher = NotRunning
    /\ list = [l \in Lists |-> NotStarted]
    /\ edits = 0
    /\ published = {}
    /\ lastKept = {}
    /\ delisted = {}

-------------------------------------------------------------------------------
(* AddressList *)

\* Mutant: a file that cannot be parsed is an empty list.
ReloadedTornIsEmpty(l) ==
    CASE listFile.status = "complete" ->
            [up |-> TRUE, loaded |-> TRUE, entries |-> listFile.entries]
      [] listFile.status = "torn" -> [up |-> TRUE, loaded |-> l.loaded, entries |-> {}]
      [] OTHER -> [l EXCEPT !.up = TRUE]

\* Mutant: a successful load is not remembered as one.
ReloadedUnmarked(l) ==
    IF listFile.status = "complete"
    THEN [l EXCEPT !.up = TRUE, !.entries = listFile.entries]
    ELSE [l EXCEPT !.up = TRUE]

\* reload(): a list keeps what it has unless it can read all of the file;
\* before the first success that is nothing.  A prefix of a JSON object is
\* not JSON.
Reloaded(l) ==
    IF listFile.status = "complete"
    THEN [up |-> TRUE, loaded |-> TRUE, entries |-> listFile.entries]
    ELSE [l EXCEPT !.up = TRUE]

StartList(l) ==
    /\ list' = [list EXCEPT ![l] = Reloaded(NotStarted)]
    /\ UNCHANGED <<listFile, source, refresher, edits, published, lastKept, delisted>>

Reload(l) ==
    /\ list[l].up
    /\ list' = [list EXCEPT ![l] = Reloaded(@)]
    /\ UNCHANGED <<listFile, source, refresher, edits, published, lastKept, delisted>>

-------------------------------------------------------------------------------
(* The operator and the source *)

\* The file is complete again; what it held and `dropped` names is delisted.
Holds(entries, dropped) ==
    /\ published' = published \cup {entries}
    /\ lastKept' = entries
    /\ delisted' = (delisted \cup dropped) \ entries

OperatorEdits(file) ==
    /\ edits < MaxEdits
    /\ refresher.at # "writing"
    /\ listFile' = file
    /\ edits' = edits + 1
    /\ IF file.status = "complete"
       THEN Holds(file.entries, lastKept)
       ELSE /\ delisted' = delisted \cup (IF file.status = "missing" THEN lastKept ELSE {})
            /\ UNCHANGED <<published, lastKept>>
    /\ UNCHANGED <<source, refresher, list>>

Publish(addresses) ==
    /\ source # addresses
    /\ source' = addresses
    /\ UNCHANGED <<listFile, refresher, list, edits, published, lastKept, delisted>>

-------------------------------------------------------------------------------
(* refresh_ofac_list.py *)

\* A source that cannot be fetched ends the script, like a dry run.
FetchSource ==
    /\ refresher.at = "idle"
    /\ refresher' = [NotRunning EXCEPT !.at = "fetched", !.fetched = source]
    /\ UNCHANGED <<listFile, source, list, edits, published, lastKept, delisted>>

\* A file that is there and cannot be parsed ends the script.
ReadExisting ==
    /\ refresher.at = "fetched"
    /\ refresher' = IF listFile.status = "torn" THEN NotRunning
                    ELSE [refresher EXCEPT !.at = "read", !.existing = listFile.entries]
    /\ UNCHANGED <<listFile, source, list, edits, published, lastKept, delisted>>

\* Mutant: the file becomes what the source says.
MergedAsPublished == refresher.fetched

\* What the source no longer lists is kept.
Merged == refresher.existing \cup refresher.fetched

\* write_text opens the file for writing, which empties it, ...
Truncate ==
    /\ refresher.at = "read"
    /\ listFile' = Torn
    /\ refresher' = [refresher EXCEPT !.at = "writing"]
    /\ delisted' = delisted \cup (lastKept \ (refresher.existing \cup refresher.fetched))
    /\ UNCHANGED <<source, list, edits, published, lastKept>>

\* ... and writes it.
Write ==
    /\ refresher.at = "writing"
    /\ listFile' = Complete(Merged)
    /\ Holds(Merged, {})
    /\ refresher' = NotRunning
    /\ UNCHANGED <<source, list, edits>>

\* The script fails, is a dry run, or is killed; the file stays as it is.
RefresherEnds ==
    /\ refresher.at # "idle"
    /\ refresher' = NotRunning
    /\ UNCHANGED <<listFile, source, list, edits, published, lastKept, delisted>>

ListNext ==
    \/ \E l \in Lists : StartList(l) \/ Reload(l)
    \/ \E file \in {Missing, Torn} \cup {Complete(e) : e \in SUBSET Addresses} :
            OperatorEdits(file)
    \/ \E addresses \in SUBSET Addresses : Publish(addresses)
    \/ FetchSource
    \/ ReadExisting
    \/ Truncate
    \/ Write
    \/ RefresherEnds

ListSpec == ListInit /\ [][ListNext]_listVars

-------------------------------------------------------------------------------
(* Properties *)

\* A list enforces, in full, a version the file has held: never a part of one
\* that was being written or damaged (blocklist.py:34-44, 74-96).
ServedWasPublished ==
    \A l \in Lists : list[l].loaded => list[l].entries \in published

\* An address a running list blocks stays blocked through any number of
\* reloads, refreshes and failures, unless the operator took it out, or put
\* it in while the script ran between reading the file and writing it
\* (blocklist.py:34-44, refresh_ofac_list.py:79-89).
NoSilentDelisting ==
    [][\A l \in Lists : list[l].up /\ list'[l].loaded =>
            list[l].entries \ list'[l].entries \subseteq delisted']_listVars
===============================================================================
