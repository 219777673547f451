----------------------------- MODULE SqliteFile -----------------------------
(***************************************************************************)
(* One SQLite database file in WAL mode with synchronous = NORMAL, as the  *)
(* processes of the library use it.  SQLite is not part of the repository: *)
(* what is modelled is how its locks and snapshots behave under the calls  *)
(* that LibraryDatabase makes.                                             *)
(*                                                                         *)
(* A statement that has returned a row and is not yet finalized keeps its  *)
(* connection on a snapshot (view).  Once another connection commits, that *)
(* snapshot is behind and its connection cannot become the writer: BEGIN   *)
(* IMMEDIATE fails at once, busy timeout or not.  A commit is visible at   *)
(* once and durable at the next sync, so a power failure may lose the last *)
(* commits, but never a part of one.                                       *)
(***************************************************************************)
EXTENDS Integers, FiniteSets

CONSTANTS Process,  \* the processes, each with one connection
          None

ASSUME NoneAssumption == None \notin Process

VARIABLES current,  \* the database as of the last commit
          durable,  \* the database as of the last sync
          writer,   \* the connection in a write transaction, or None
          draft,    \* what that transaction has made of the database
          view,     \* the snapshot an unfinished SELECT holds, or None
          behind    \* the connections whose snapshot is not the last commit

fileVars == <<current, durable, writer, draft, view, behind>>

FileInit(db) == /\ current = db
                /\ durable = db
                /\ writer = None
                /\ draft = None
                /\ view = [p \in Process |-> None]
                /\ behind = {}

-----------------------------------------------------------------------------
\* The database in which a statement of p finds its rows.
Seen(p) == IF writer = p THEN draft
           ELSE IF view[p] # None THEN view[p] ELSE current

\* Variant: the statement is finalized before the next one.
KeepNothing(p) == UNCHANGED view

\* A SELECT has returned a row, and its statement stays.
KeepReading(p) == view' = [view EXCEPT ![p] = current]

\* The connections that are left behind by a commit of p.
Overtaken(p) == {q \in Process \ {p} : view[q] # None}

CanWrite(p) == writer = None /\ p \notin behind

\* BEGIN IMMEDIATE and the first change that the transaction makes.
BeginWith(p, db) == /\ CanWrite(p)
                    /\ writer' = p
                    /\ draft' = db
                    /\ UNCHANGED <<current, durable, view, behind>>

Begin(p) == BeginWith(p, current)

Edit(p, db) == /\ writer = p
               /\ draft' = db
               /\ UNCHANGED <<current, durable, writer, view, behind>>

\* COMMIT of what the transaction has written and db adds, and the end of all
\* statements of p.
CommitAs(p, db) == /\ writer = p
                   /\ current' = db
                   /\ writer' = None
                   /\ draft' = None
                   /\ view' = [view EXCEPT ![p] = None]
                   /\ behind' = (behind \cup Overtaken(p)) \ {p}
                   /\ UNCHANGED durable

\* A statement that writes outside a transaction.
Autocommit(p, db) == /\ CanWrite(p)
                     /\ current' = db
                     /\ behind' = behind \cup Overtaken(p)
                     /\ UNCHANGED <<durable, writer, draft, view>>

\* The connection of p ends its statements and its transaction: ROLLBACK, a
\* close, or the end of the process.
LetGo(p) == /\ writer' = IF writer = p THEN None ELSE writer
            /\ draft' = IF writer = p THEN None ELSE draft
            /\ view' = [view EXCEPT ![p] = None]
            /\ behind' = behind \ {p}
            /\ UNCHANGED <<current, durable>>

-----------------------------------------------------------------------------
Sync == /\ durable # current
        /\ durable' = current
        /\ UNCHANGED <<current, writer, draft, view, behind>>

PowerLoss == /\ current' = durable
             /\ writer' = None
             /\ draft' = None
             /\ view' = [p \in Process |-> None]
             /\ behind' = {}
             /\ UNCHANGED durable
=============================================================================
