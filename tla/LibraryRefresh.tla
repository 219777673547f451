--------------------------- MODULE LibraryRefresh ---------------------------
(*****************************************************************************)
(* The index of a library root and the files it describes: refresh_root with *)
(* the scanner's walk, ensure_sha256 and duplicate_group, while the user     *)
(* writes, deletes and renames files.  Each process is one command of        *)
(* brknam-library (index, hash or duplicates), makes one call and ends.      *)
(*                                                                           *)
(* Each look at the file system is a step of its own: the walk's look at an  *)
(* entry, the time of modification, the presence of move candidates, the     *)
(* bytes read to hash and to parse a file.  A path stands for what lies at   *)
(* one place below the root, in the order of the scan; its kind comes with   *)
(* its extension.  A file's content stands for its bytes, its digest and its *)
(* metadata.                                                                 *)
(*                                                                           *)
(* The time of modification is assumed to identify what was written: no two  *)
(* writes have the same one, and a file that has left a path does not come   *)
(* back to it.  Size and time are all that refresh_root compares.            *)
(*****************************************************************************)
EXTENDS SqliteFile, Sequences, SequencesExt

CONSTANTS Path,           \* 1..n, in the order in which a scan is stored
          WalkOrder,      \* the order in which the directory iterator gives them
          Kind,           \* the kind of asset that lies at a path
          Content,        \* what a file may hold
          SizeOf,         \* how large it is
          FirstPaths,     \* where files may lie at the beginning
          Command,        \* what each process may be: a set of commands
          Unreachable,    \* the sets of paths that may become unreadable at once
          MaxChanges      \* bound: changes of the file system

ASSUME PathAssumption == /\ IsFiniteSet(Path) /\ Path = 1..Cardinality(Path)
                         /\ FirstPaths \subseteq Path
                         /\ WalkOrder \in Seq(Path) /\ ToSet(WalkOrder) = Path
                         /\ IsInjective(WalkOrder)
ASSUME ChangesAssumption == MaxChanges \in Nat
ASSUME ProcessAssumption == IsFiniteSet(Process)

Generation == 0..(1 + Cardinality(Process))

Ticks == 1..(Cardinality(Path) + MaxChanges)

File == [content : Content, ticks : Ticks, left : SUBSET Path]

IndexRow == [path : Path, size : {SizeOf[c] : c \in Content}, ticks : Ticks,
             meta : Content \cup {None}, digest : Content \cup {None},
             seen : Nat, missing : BOOLEAN]

Database == [root : BOOLEAN, generation : Nat, rows : Seq(IndexRow)]

ASSUME NothingAssumption == None \notin File /\ None \notin Database

VARIABLES files,    \* what lies at each path: a file or None
          hidden,   \* the paths that cannot be read, as on an unmounted drive
          changes,  \* how often the file system has changed; the clock
          task      \* the call that each process is in

envVars == <<files, hidden, changes>>

vars == <<fileVars, envVars, task>>

-----------------------------------------------------------------------------
(* The file system.                                                        *)

Readable(path) == files[path] # None /\ path \notin hidden

\* Calls in progress are no longer quiet.
Disturbed(p) == IF task[p].pc \in {"new", "done"} THEN task[p] ELSE [task[p] EXCEPT !.quiet = FALSE]

\* The ticks of a file are the change that wrote it; the first files have those
\* below.  left has the paths it has been at.
FirstFile(path, content) == [content |-> content, ticks |-> path, left |-> {}]

NewFile(content) == [content |-> content, ticks |-> Cardinality(Path) + changes', left |-> {}]

Change == /\ changes < MaxChanges
          /\ changes' = changes + 1
          /\ task' = [p \in Process |-> Disturbed(p)]
          /\ UNCHANGED fileVars

Write(path, content) == /\ Change
                        /\ path \notin hidden
                        /\ files' = [files EXCEPT ![path] = NewFile(content)]
                        /\ UNCHANGED hidden

Delete(path) == /\ Change
                /\ Readable(path)
                /\ files' = [files EXCEPT ![path] = None]
                /\ UNCHANGED hidden

Rename(from, to) == /\ Change
                    /\ Readable(from)
                    /\ to \notin hidden \cup files[from].left \cup {from}
                    /\ files' = [files EXCEPT ![from] = None,
                                              ![to] = [files[from] EXCEPT !.left = @ \cup {from}]]
                    /\ UNCHANGED hidden

\* A drive is unmounted or mounted, a directory's permissions change.
Hide(paths) == /\ Change
               /\ hidden' = paths
               /\ paths # hidden
               /\ UNCHANGED files

Environment == \/ \E path \in Path, content \in Content : Write(path, content)
               \/ \E path \in Path : Delete(path)
               \/ \E from, to \in Path : Rename(from, to)
               \/ \E paths \in Unreachable : Hide(paths)

-----------------------------------------------------------------------------
(* The tables library_roots, with one root, and assets.  Rows are never    *)
(* deleted, so that ids count them.                                        *)

RowIds(db) == DOMAIN db.rows

\* UNIQUE(root_id, relative_path).
RowAt(db, path) == {id \in RowIds(db) : db.rows[id].path = path}

RowOf(path, size, ticks, meta, generation, digest) ==
    [path |-> path, size |-> size, ticks |-> ticks, meta |-> meta,
     seen |-> generation, missing |-> FALSE, digest |-> digest]

InOrder(paths) == {s \in [1..Cardinality(paths) -> paths] :
                      \A i, j \in DOMAIN s : i < j => s[i] < s[j]}

\* The index of a root in which the paths listed held files, those in hashed
\* with a known digest.
IndexOf(listed, held, hashed) ==
    [i \in DOMAIN listed |->
        LET path == listed[i]
        IN  RowOf(path, SizeOf[held[path]], FirstFile(path, held[path]).ticks, held[path], 1,
                  IF path \in hashed THEN held[path] ELSE None)]

New == [pc |-> "new", quiet |-> TRUE]

Done == [pc |-> "done", quiet |-> TRUE]

\* A root that has never been indexed, or one that was, and since when files
\* have been deleted.
Init == /\ \E held \in [FirstPaths -> Content \cup {None}], gone \in SUBSET FirstPaths :
              LET listed == {path \in FirstPaths : held[path] # None}
              IN  /\ gone \subseteq listed
                  /\ files = [path \in Path |-> IF path \in listed \ gone
                                                THEN FirstFile(path, held[path]) ELSE None]
                  /\ \/ FileInit([root |-> FALSE, generation |-> 0, rows |-> <<>>])
                     \/ \E hashed \in SUBSET listed, paths \in InOrder(listed) :
                           FileInit([root |-> TRUE, generation |-> 1,
                                     rows |-> IndexOf(paths, held, hashed)])
        /\ hidden = {}
        /\ changes = 0
        /\ task = [p \in Process |-> New]

-----------------------------------------------------------------------------
(* refresh_root.                                                           *)

At(p, pc) == task[p].pc = pc

Starts(p, command) == At(p, "new") /\ command \in Command[p]

Become(p, t) == task' = [task EXCEPT ![p] = t]

\* p becomes t with a commit, which disturbs the calls of the others.
BecomeDisturbing(p, t) ==
    task' = [q \in Process |-> IF q = p THEN t ELSE Disturbed(q)]

\* The call returns, or an exception leaves it: its transaction is rolled back
\* and its statements are finalized.
GiveUp(p) == /\ LetGo(p)
             /\ Become(p, Done)
             /\ UNCHANGED envVars

\* The command index first makes sure that the root is registered.
AddRoot(p) == /\ Starts(p, "index")
              /\ Autocommit(p, [current EXCEPT !.root = TRUE])
              /\ BecomeDisturbing(p, [New EXCEPT !.pc = "root"])
              /\ UNCHANGED envVars

AddRootFails(p) == /\ Starts(p, "index")
                   /\ ~CanWrite(p)
                   /\ GiveUp(p)

\* root_statement stays active until the end.  A root that is not there leaves
\* the index alone.
StartRefresh(p) ==
    /\ At(p, "root")
    /\ hidden # Path
    /\ KeepReading(p)
    /\ Become(p, [pc |-> "walk", quiet |-> TRUE, unvisited |-> WalkOrder, found |-> {},
                  generation |-> Seen(p).generation + 1])
    /\ UNCHANGED <<current, durable, writer, draft, behind, envVars>>

\* Library root is unavailable; existing index was preserved.
RootUnavailable(p) == /\ At(p, "root")
                      /\ hidden = Path
                      /\ GiveUp(p)

\* The iterator comes to where an entry is, or was: type and size are read.
Visit(p) ==
    /\ At(p, "walk")
    /\ task[p].unvisited # <<>>
    /\ LET path == Head(task[p].unvisited)
       IN  Become(p, [task[p] EXCEPT
                        !.unvisited = Tail(@),
                        !.found = IF Readable(path)
                                  THEN @ \cup {[path |-> path,
                                                size |-> SizeOf[files[path].content]]}
                                  ELSE @])
    /\ UNCHANGED <<fileVars, envVars>>

\* increment reports an error and is then at the end: an issue, and no more.
AbandonWalk(p) ==
    /\ At(p, "walk")
    /\ task[p].unvisited # <<>>
    /\ Become(p, [task[p] EXCEPT !.unvisited = <<>>, !.quiet = FALSE])
    /\ UNCHANGED <<fileVars, envVars>>

BeginStore(p) ==
    /\ At(p, "walk")
    /\ task[p].unvisited = <<>>
    /\ BeginWith(p, [current EXCEPT !.generation = task[p].generation])
    /\ Become(p, [pc |-> "next", quiet |-> task[p].quiet,
                  generation |-> task[p].generation,
                  queue |-> task[p].found])
    /\ UNCHANGED envVars

\* Another process has committed since the root's row was read, or holds the
\* lock: BEGIN IMMEDIATE fails.
StoreRefused(p) ==
    /\ At(p, "walk")
    /\ task[p].unvisited = <<>>
    /\ ~CanWrite(p)
    /\ GiveUp(p)

\* The scan is sorted by path.
FirstOf(queue) == CHOOSE file \in queue : \A other \in queue : file.path <= other.path

Scanned(p) == FirstOf(task[p].queue)

Rest(p) == task[p].queue \ {Scanned(p)}

\* Variant: a file that is back is left missing.
UnchangedOrBack(p, row) == /\ row.size = Scanned(p).size
                           /\ row.ticks = files[Scanned(p).path].ticks

Unchanged(p, row) == /\ row.size = Scanned(p).size
                     /\ row.ticks = files[Scanned(p).path].ticks
                     /\ ~row.missing

\* Variant: any row with the digest is taken for the file moved.
AllHashed(p) ==
    {id \in RowIds(draft) :
        LET row == draft.rows[id]
        IN  /\ row.path # Scanned(p).path
            /\ Kind[row.path] = Kind[Scanned(p).path]
            /\ row.size = Scanned(p).size
            /\ row.digest # None}

\* Rows with a digest whose file is gone, or was at the last refresh.
Candidates(p) ==
    {id \in RowIds(draft) :
        LET row == draft.rows[id]
        IN  /\ row.path # Scanned(p).path
            /\ Kind[row.path] = Kind[Scanned(p).path]
            /\ row.size = Scanned(p).size
            /\ row.digest # None
            /\ row.missing \/ ~Readable(row.path)}

\* A file found is looked at again: it has no row, a row that still fits it
\* (touch), or one that does not.
Examine(p) ==
    /\ At(p, "next")
    /\ task[p].queue # {}
    /\ Readable(Scanned(p).path)
    /\ LET ids == RowAt(draft, Scanned(p).path)
           fits == {id \in ids : Unchanged(p, draft.rows[id])}
       IN  \/ /\ fits # {}
              /\ Edit(p, [draft EXCEPT !.rows =
                            [id \in RowIds(draft) |->
                                IF id \in fits
                                THEN [@[id] EXCEPT !.seen = task[p].generation]
                                ELSE @[id]]])
              /\ Become(p, [task[p] EXCEPT !.queue = Rest(p)])
           \/ /\ fits = {}
              /\ Become(p, [pc |-> IF ids = {} /\ Candidates(p) # {} THEN "hash" ELSE "parse",
                            quiet |-> task[p].quiet,
                            generation |-> task[p].generation,
                            queue |-> task[p].queue,
                            ticks |-> files[Scanned(p).path].ticks,
                            candidates |-> IF ids = {} THEN Candidates(p) ELSE {},
                            digest |-> None])
              /\ UNCHANGED fileVars
    /\ UNCHANGED envVars

\* modified_ticks throws: the file has vanished since the walk.
ExamineFails(p) ==
    /\ At(p, "next")
    /\ task[p].queue # {}
    /\ ~Readable(Scanned(p).path)
    /\ GiveUp(p)

\* What a process reads of a file: its content, or None where it cannot.
ReadFile(path) == IF Readable(path) THEN files[path].content ELSE None

\* A candidate that cannot be read is an issue of the scan.
HashCandidate(p) ==
    /\ At(p, "hash")
    /\ Become(p, [task[p] EXCEPT !.pc = "parse", !.digest = ReadFile(Scanned(p).path)])
    /\ UNCHANGED <<fileVars, envVars>>

\* The candidate with the file's digest, when there is exactly one.
Matches(p) == IF task[p].digest = None THEN {}
              ELSE {id \in task[p].candidates : draft.rows[id].digest = task[p].digest}

Recovered(p) == IF Cardinality(Matches(p)) = 1 THEN Matches(p) ELSE {}

\* The file is parsed and its row written: recover keeps the id and the digest
\* of the row, upsert replaces or adds one.
StoreRow(p) ==
    /\ At(p, "parse")
    /\ LET digest(id) == IF id \in Recovered(p) THEN draft.rows[id].digest ELSE task[p].digest
           row(id)    == RowOf(Scanned(p).path, Scanned(p).size, task[p].ticks,
                               ReadFile(Scanned(p).path), task[p].generation, digest(id))
           target     == IF Recovered(p) # {} THEN Recovered(p)
                         ELSE IF RowAt(draft, Scanned(p).path) # {}
                         THEN RowAt(draft, Scanned(p).path)
                         ELSE {Len(draft.rows) + 1}
       IN  Edit(p, [draft EXCEPT !.rows =
                      [id \in RowIds(draft) \cup target |->
                          IF id \in target THEN row(id) ELSE @[id]]])
    /\ Become(p, [pc |-> "next", quiet |-> task[p].quiet,
                  generation |-> task[p].generation, queue |-> Rest(p)])
    /\ UNCHANGED envVars

\* mark_missing: what the scan has not seen is missing.
Unseen(row, generation) == row.seen # generation

FinishRefresh(p) ==
    /\ At(p, "next")
    /\ task[p].queue = {}
    /\ CommitAs(p, [draft EXCEPT !.rows =
                      [id \in RowIds(draft) |->
                          LET row == draft.rows[id]
                          IN  [row EXCEPT !.missing = @ \/ Unseen(row, task[p].generation)]]])
    /\ BecomeDisturbing(p, Done)
    /\ UNCHANGED envVars

Refresh(p) == \/ AddRoot(p) \/ AddRootFails(p)
              \/ StartRefresh(p) \/ RootUnavailable(p)
              \/ Visit(p)
              \/ AbandonWalk(p)
              \/ BeginStore(p)
              \/ StoreRefused(p)
              \/ Examine(p)
              \/ ExamineFails(p)
              \/ HashCandidate(p)
              \/ StoreRow(p)
              \/ FinishRefresh(p)

-----------------------------------------------------------------------------
(* ensure_sha256, on its own (group = None) or for duplicate_group.        *)

StartHash(p, id) ==
    /\ Starts(p, "hash")
    /\ id \in RowIds(Seen(p))
    /\ Become(p, [pc |-> "row", quiet |-> TRUE, asset |-> id, group |-> None])
    /\ UNCHANGED <<fileVars, envVars>>

\* duplicate_group looks the asset up itself before it is hashed.
StartGroup(p, id) ==
    /\ Starts(p, "duplicates")
    /\ id \in RowIds(Seen(p))
    /\ ~Seen(p).rows[id].missing
    /\ Become(p, [pc |-> "row", quiet |-> TRUE, asset |-> id,
                  group |-> [target |-> id, row |-> Seen(p).rows[id],
                             hash |-> None, left |-> {}]])
    /\ UNCHANGED <<fileVars, envVars>>

\* ensure_sha256 throws.  duplicate_group goes on without the candidate.
HashFails(p) ==
    IF task[p].group = None \/ task[p].group.hash = None
    THEN Become(p, Done)
    ELSE Become(p, [pc |-> "each", quiet |-> task[p].quiet, group |-> task[p].group])

\* It returns a hash: a candidate's is of no further use.
Hashed(p, hash) ==
    IF task[p].group = None THEN Done
    ELSE IF task[p].group.hash = None
    THEN [pc |-> "list", quiet |-> task[p].quiet, group |-> [task[p].group EXCEPT !.hash = hash]]
    ELSE [pc |-> "each", quiet |-> task[p].quiet, group |-> task[p].group]

LookUp(p) ==
    /\ At(p, "row")
    /\ LET row == Seen(p).rows[task[p].asset]
       IN  \/ row.missing /\ HashFails(p)
           \/ /\ ~row.missing
              /\ Become(p, [pc |-> "check", quiet |-> task[p].quiet, group |-> task[p].group,
                            asset |-> task[p].asset, row |-> row])
    /\ UNCHANGED <<fileVars, envVars>>

\* Size and time of a file are those of a row.
Fits(row) == /\ Readable(row.path)
             /\ SizeOf[files[row.path].content] = row.size
             /\ files[row.path].ticks = row.ticks

\* Variant: a known digest is returned without a look at the file.
CheckUnknown(p) ==
    /\ At(p, "check")
    /\ \/ task[p].row.digest = None /\ ~Fits(task[p].row) /\ HashFails(p)
       \/ /\ task[p].row.digest # None \/ Fits(task[p].row)
          /\ Become(p, IF task[p].row.digest # None THEN Hashed(p, task[p].row.digest)
                       ELSE [task[p] EXCEPT !.pc = "read"])
    /\ UNCHANGED <<fileVars, envVars>>

\* A file that is not what the row says is not hashed; a known digest is kept.
CheckAsset(p) ==
    /\ At(p, "check")
    /\ \/ ~Fits(task[p].row) /\ HashFails(p)
       \/ /\ Fits(task[p].row)
          /\ Become(p, IF task[p].row.digest # None THEN Hashed(p, task[p].row.digest)
                       ELSE [task[p] EXCEPT !.pc = "read"])
    /\ UNCHANGED <<fileVars, envVars>>

ReadAsset(p) ==
    /\ At(p, "read")
    /\ LET hash == ReadFile(task[p].row.path)
       IN  IF hash = None THEN HashFails(p)
           ELSE Become(p, [pc |-> "again", quiet |-> task[p].quiet, group |-> task[p].group,
                           asset |-> task[p].asset, row |-> task[p].row, hash |-> hash])
    /\ UNCHANGED <<fileVars, envVars>>

\* The file is as it was before it was read.
CheckAgain(p) ==
    /\ At(p, "again")
    /\ IF Fits(task[p].row) THEN Become(p, [task[p] EXCEPT !.pc = "update"])
       ELSE HashFails(p)
    /\ UNCHANGED <<fileVars, envVars>>

\* Variant: the digest is stored by id alone.
AnyRow(row, now) == ~now.missing

\* The row is still for the file that was hashed.
SameRow(row, now) == ~now.missing /\ now.size = row.size /\ now.ticks = row.ticks

StoreDigest(p) ==
    /\ At(p, "update")
    /\ SameRow(task[p].row, current.rows[task[p].asset])
    /\ Autocommit(p, [current EXCEPT !.rows[task[p].asset].digest = task[p].hash])
    /\ BecomeDisturbing(p, Hashed(p, task[p].hash))
    /\ UNCHANGED envVars

\* The row has changed, or the database is busy.
StoreDigestFails(p) ==
    /\ At(p, "update")
    /\ ~CanWrite(p) \/ ~SameRow(task[p].row, current.rows[task[p].asset])
    /\ IF task[p].group = None \/ task[p].group.hash = None THEN Become(p, Done)
       ELSE Become(p, [pc |-> "each", quiet |-> FALSE, group |-> task[p].group])
    /\ UNCHANGED <<fileVars, envVars>>

-----------------------------------------------------------------------------
(* The rest of duplicate_group.                                            *)

ListCandidates(p) ==
    /\ At(p, "list")
    /\ LET target == task[p].group.row
           listed == {id \in RowIds(Seen(p)) \ {task[p].group.target} :
                        LET row == Seen(p).rows[id]
                        IN  /\ ~row.missing
                            /\ Kind[row.path] = Kind[target.path]
                            /\ row.size = target.size}
       IN  Become(p, [pc |-> "each", quiet |-> task[p].quiet,
                      group |-> [task[p].group EXCEPT !.left = listed]])
    /\ UNCHANGED <<fileVars, envVars>>

NextCandidate(p) ==
    /\ At(p, "each")
    /\ task[p].group.left # {}
    /\ LET id == Min(task[p].group.left)
       IN  Become(p, [pc |-> "row", quiet |-> task[p].quiet, asset |-> id,
                      group |-> [task[p].group EXCEPT !.left = @ \ {id}]])
    /\ UNCHANGED <<fileVars, envVars>>

\* What shows the digest is reported, unless it is the asset alone.
CollectMatches(p) ==
    /\ At(p, "each")
    /\ task[p].group.left = {}
    /\ LET matches == {id \in RowIds(Seen(p)) : /\ ~Seen(p).rows[id].missing
                                                /\ Seen(p).rows[id].digest = task[p].group.hash}
       IN  Become(p, [pc |-> "answer", quiet |-> task[p].quiet, target |-> task[p].group.target,
                      members |-> IF Cardinality(matches) < 2 THEN {} ELSE matches])
    /\ UNCHANGED <<fileVars, envVars>>

Return(p) == /\ At(p, "answer")
             /\ Become(p, Done)
             /\ UNCHANGED <<fileVars, envVars>>

Hash(p) == \/ \E id \in 1..Cardinality(Path) : StartHash(p, id) \/ StartGroup(p, id)
           \/ LookUp(p)
           \/ CheckAsset(p)
           \/ ReadAsset(p)
           \/ CheckAgain(p)
           \/ StoreDigest(p)
           \/ StoreDigestFails(p)
           \/ ListCandidates(p)
           \/ NextCandidate(p)
           \/ CollectMatches(p)
           \/ Return(p)

-----------------------------------------------------------------------------
Kill(p) == task[p].pc \notin {"new", "done"} /\ GiveUp(p)

Next == \/ \E p \in Process : Refresh(p) \/ Hash(p) \/ Kill(p)
        \/ Environment

Spec == Init /\ [][Next]_vars

-----------------------------------------------------------------------------
TypeOK ==
    /\ files \in [Path -> File \cup {None}]
    /\ hidden \in Unreachable \cup {{}}
    /\ changes \in 0..MaxChanges
    /\ writer \in Process \cup {None}
    /\ (draft = None) = (writer = None)
    /\ behind \subseteq {p \in Process : view[p] # None}
    /\ current \in Database
    /\ current.generation \in Generation

(* No two rows have one path, whatever was moved, overwritten and moved back, *)
(* and no row was seen by a refresh that never ended.                         *)
OneRowPerPath ==
    \A id \in RowIds(current) :
        /\ RowAt(current, current.rows[id].path) = {id}
        /\ current.rows[id].seen <= current.generation

(* Where a file has the size and the time its row gives, its digest and its  *)
(* metadata are those of its content, or unknown: although they are read     *)
(* after size and time, while files change, and survive moves and refreshes. *)
RowsTellTheTruth ==
    \A row \in ToSet(current.rows) :
        Fits(row) => /\ row.digest \in {None, files[row.path].content}
                     /\ row.meta \in {None, files[row.path].content}

(* The index between any two steps of refreshes, hashes, kills and writers of *)
(* the files: one row for a path, and what a row that fits its file says of   *)
(* it is true.                                                                *)
IndexSound == TypeOK /\ OneRowPerPath /\ RowsTellTheTruth

Finishes(p) == At(p, "next") /\ current' # current /\ task'[p].pc = "done"
               /\ current'.generation = task[p].generation

(* A refresh during which no file changed leaves an index in which exactly *)
(* the readable files are present, each with its size and time.            *)
QuietRefreshIsExact ==
    [][\A p \in Process : Finishes(p) /\ task[p].quiet =>
          {path \in Path : Readable(path)}
          = {row.path : row \in {r \in ToSet(current'.rows) : ~r.missing /\ Fits(r)}}
          /\ \A row \in ToSet(current'.rows) : ~row.missing => Fits(row)]_vars

(* A row follows a file to another path only with a digest that is known, and *)
(* kept.  When nothing changed meanwhile, the row's own file was gone, now or *)
(* at the refresh before, the file at the new path has the row's digest, and  *)
(* no other row of its size whose file is gone has it too: a copy leaves the  *)
(* row alone.                                                                 *)
MovesAreProven ==
    [][\A p \in Process : Finishes(p) => \A id \in RowIds(current) :
          LET old == current.rows[id]
              new == current'.rows[id]
          IN  new.path # old.path =>
                 /\ old.digest # None
                 /\ new.digest = old.digest
                 /\ task[p].quiet =>
                       /\ old.missing \/ ~Readable(old.path)
                       /\ files[new.path].content = old.digest
                       /\ \A other \in RowIds(current) \ {id} :
                             ~ /\ current.rows[other].digest = old.digest
                               /\ Kind[current.rows[other].path] = Kind[new.path]
                               /\ current.rows[other].size = old.size
                               /\ ~Readable(current.rows[other].path)]_vars

(* Refreshes that overlap do not both count: each one that is stored has a  *)
(* number of its own, so that mark_missing tells its rows from those of any *)
(* other, and no commit loses a row.                                        *)
RefreshesAreSerial ==
    [][/\ RowIds(current) \subseteq RowIds(current')
       /\ \A p \in Process :
             Finishes(p) => current'.generation = current.generation + 1]_vars

Answered(p) == At(p, "answer") /\ task[p].quiet

(* What duplicate_group reports beside an asset is, as far as the files are as *)
(* the index says, identical to it, and nothing the index knows is left out.   *)
GroupIsSound ==
    \A p \in Process : Answered(p) =>
        LET target  == ReadFile(current.rows[task[p].target].path)
            fitting == {id \in RowIds(current) :
                          ~current.rows[id].missing /\ Fits(current.rows[id])}
            same    == {id \in fitting :
                          /\ files[current.rows[id].path].content = target
                          /\ Kind[current.rows[id].path]
                             = Kind[current.rows[task[p].target].path]}
        IN  /\ \A id \in task[p].members \cap fitting :
                  files[current.rows[id].path].content = target
            /\ Cardinality(same) > 1 => same \subseteq task[p].members

(* What the report is called, byte-identical files: those it names that can *)
(* be read have the same content, at least while nothing changes.           *)
DuplicatesAreIdentical ==
    \A p \in Process : Answered(p) =>
        \A id, other \in task[p].members :
            LET contents == {ReadFile(current.rows[i].path) : i \in {id, other}} \ {None}
            IN  Cardinality(contents) < 2
=============================================================================
