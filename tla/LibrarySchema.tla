---------------------------- MODULE LibrarySchema ----------------------------
(****************************************************************************)
(* Opening the library database: LibraryDatabase::Impl's constructor with   *)
(* migrate().  Several processes open one file at the same time, each       *)
(* command of brknam-library being a process of its own; any of them may be *)
(* killed, and the machine may lose power.                                  *)
(*                                                                          *)
(* The version is read before the transaction that acts on it begins.  What *)
(* keeps two processes from applying one migration twice is that CREATE     *)
(* TABLE and ADD COLUMN fail when their object is already there.            *)
(****************************************************************************)
EXTENDS SqliteFile

CONSTANTS FirstVersions,  \* the versions a file found on disk may have
          NoRows,         \* what the tables of a new file hold
          OldRows         \* what those of an existing file hold

ASSUME VersionsAssumption == FirstVersions \subseteq Nat

VARIABLE conn  \* each process's connection: its pc, the version migrate knows

schemaVars == <<fileVars, conn>>

-----------------------------------------------------------------------------
CurrentSchemaVersion == 3

\* The objects of each version: the tables of version 1, the digest column,
\* and the saved searches.  A newer program may have added anything.
ObjectsOf(version) == (IF version >= 1 THEN {"assets"} ELSE {})
                      \cup (IF version >= 2 THEN {"content_sha256"} ELSE {})
                      \cup (IF version >= 3 THEN {"saved_searches"} ELSE {})

\* What one transaction of migrate leads to: everything for a new file, else
\* one version after the other.
NextVersion(version) == IF version = 0 THEN CurrentSchemaVersion ELSE version + 1

\* Variant: the migration from version 1 creates the saved searches as well.
CreatedAtOnce(version) == ObjectsOf(CurrentSchemaVersion) \ ObjectsOf(version)

\* The objects it creates.
Created(version) == ObjectsOf(NextVersion(version)) \ ObjectsOf(version)

FileOf(version) == [version |-> version,
                    objects |-> ObjectsOf(version),
                    rows    |-> IF version = 0 THEN NoRows ELSE OldRows]

SchemaInit == /\ \E version \in FirstVersions : FileInit(FileOf(version))
              /\ conn = [p \in Process |-> [pc |-> "closed", version |-> 0]]

GoTo(p, pc) == conn' = [conn EXCEPT ![p].pc = pc]

-----------------------------------------------------------------------------
\* sqlite3_open_v2, the pragmas, and the version migrate starts from.
Open(p) ==
    /\ conn[p].pc = "closed"
    /\ conn' = [conn EXCEPT ![p] = [pc |-> "checked", version |-> Seen(p).version]]
    /\ UNCHANGED fileVars

\* The file cannot be opened, or a pragma does not get its lock.
OpenFails(p) ==
    /\ conn[p].pc = "closed"
    /\ GoTo(p, "failed")
    /\ UNCHANGED fileVars

OpenCurrent(p) ==
    /\ conn[p].pc = "checked"
    /\ conn[p].version = CurrentSchemaVersion
    /\ GoTo(p, "ready")
    /\ UNCHANGED fileVars

\* The file was made by a newer version of the program.
RefuseNewer(p) ==
    /\ conn[p].pc = "checked"
    /\ conn[p].version > CurrentSchemaVersion
    /\ GoTo(p, "failed")
    /\ UNCHANGED fileVars

BeginMigration(p) ==
    /\ conn[p].pc = "checked"
    /\ conn[p].version < CurrentSchemaVersion
    /\ Begin(p)
    /\ GoTo(p, "migrating")

\* BEGIN IMMEDIATE gives up after five seconds.
MigrationTimeout(p) ==
    /\ conn[p].pc = "checked"
    /\ conn[p].version < CurrentSchemaVersion
    /\ ~CanWrite(p)
    /\ GoTo(p, "failed")
    /\ UNCHANGED fileVars

\* What a transaction does when an exception leaves its scope.
RollBack(p) == LetGo(p)

Applies(p) == Created(conn[p].version) \cap draft.objects = {}

Migrate(p) ==
    /\ conn[p].pc = "migrating"
    /\ Applies(p)
    /\ Edit(p, [draft EXCEPT !.objects = @ \cup Created(conn[p].version),
                             !.version = NextVersion(conn[p].version)])
    /\ GoTo(p, "migrated")

\* Variant: the transaction is tried again, with the version known.
MigrateAgain(p) ==
    /\ conn[p].pc = "migrating"
    /\ ~Applies(p)
    /\ RollBack(p)
    /\ GoTo(p, "checked")

\* An object is already there.
MigrateFails(p) ==
    /\ conn[p].pc = "migrating"
    /\ ~Applies(p)
    /\ RollBack(p)
    /\ GoTo(p, "failed")

\* Variant: migrate returns after the step from version 1.
CommitFirstMigration(p) ==
    /\ conn[p].pc = "migrated"
    /\ CommitAs(p, draft)
    /\ conn' = [conn EXCEPT ![p] =
                  [pc |-> "ready", version |-> NextVersion(@.version)]]

\* A file of version 1 goes on to version 3 in a second transaction.
CommitMigration(p) ==
    /\ conn[p].pc = "migrated"
    /\ CommitAs(p, draft)
    /\ conn' = [conn EXCEPT ![p] =
                  [pc |-> IF @.version = 1 THEN "checked" ELSE "ready",
                   version |-> NextVersion(@.version)]]

OpenStep(p) == \/ OpenCurrent(p) \/ RefuseNewer(p)
               \/ BeginMigration(p) \/ MigrationTimeout(p)
               \/ Migrate(p) \/ MigrateFails(p) \/ CommitMigration(p)

\* The process ends, after its command or after the exception it printed.
Close(p) ==
    /\ conn[p].pc \in {"ready", "failed"}
    /\ GoTo(p, "closed")
    /\ LetGo(p)

Kill(p) ==
    /\ conn[p].pc # "closed"
    /\ GoTo(p, "closed")
    /\ LetGo(p)

SchemaPowerLoss ==
    /\ PowerLoss
    /\ conn' = [p \in Process |-> [conn[p] EXCEPT !.pc = "closed"]]

-----------------------------------------------------------------------------
Migrating(p) == conn[p].pc \in {"migrating", "migrated"}

\* What may have been committed and come back.
Committed == {current, durable}

(* Whatever the file went through, its version tells which objects it has: *)
(* no migration is applied twice, half, or to a version it does not fit,   *)
(* with several processes in migrate at once, kills and power failures     *)
(* between its transactions.                                               *)
SchemaMatches == \A db \in Committed : db.objects = ObjectsOf(db.version)

(* A constructor that returns has found, or left, the schema that the other *)
(* operations expect.                                                       *)
ReadyIsCurrent ==
    \A p \in Process : conn[p].pc = "ready" => current.version = CurrentSchemaVersion

(* migrate fails for one of three reasons: a newer program wrote the file, *)
(* another process holds the write lock, or another process has migrated   *)
(* the file since this one read its version.                               *)
FailsForAReason ==
    [][\A p \in Process : conn[p].pc \in {"checked", "migrating"} /\ conn'[p].pc = "failed" =>
          \/ current.version > CurrentSchemaVersion
          \/ writer \notin {p, None}
          \/ current.version > conn[p].version]_schemaVars
=============================================================================
