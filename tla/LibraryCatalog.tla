--------------------------- MODULE LibraryCatalog ---------------------------
(*****************************************************************************)
(* What the user adds to the library: tags on assets, and saved searches.    *)
(* A process opens the database, makes one call and ends, while others do    *)
(* the same.                                                                 *)
(*                                                                           *)
(* Tags live in four places that have to agree: the tags, the links between  *)
(* assets and tags, the text each asset keeps of its tags, and the words of  *)
(* the full-text index, which triggers copy from that text.  Names are equal *)
(* when they are equal without regard to case (Folded).                      *)
(*****************************************************************************)
EXTENDS LibrarySchema, Sequences, FiniteSetsExt, Functions

CONSTANTS Asset,       \* the assets a file may hold
          Name,        \* names of tags and of saved searches, none of them blank
          Folded,      \* what a name is compared by
          TagList,     \* the sequences of tags a caller passes
          Search,      \* what a saved search holds: the query and its options
          MaxEdits     \* bound: how many calls change the tables

ASSUME FoldedAssumption == \A n \in Name : Folded[n] \in Name
ASSUME CallsAssumption == TagList \subseteq Seq(Name) /\ MaxEdits \in Nat

VARIABLES call,   \* what replace_tags of each process is about, or None
          edits   \* how many changes have been committed

vars == <<schemaVars, call, edits>>

-----------------------------------------------------------------------------
SameName(m, n) == Folded[m] = Folded[n]

\* INTEGER PRIMARY KEY without AUTOINCREMENT: one more than the largest id.
NewId(rows) == 1 + Max({r.id : r \in rows} \cup {0})

\* The tables that replace_tags and the saved searches need.
Tables == [assets   : SUBSET Asset,
           tags     : SUBSET [id : Nat \ {0}, name : Name],
           links    : SUBSET [asset : Asset, tag : Nat \ {0}],
           searches : SUBSET [id : Nat \ {0}, name : Name, search : Search],
           text     : [Asset -> SUBSET Name],
           words    : [Asset -> SUBSET Name]]

EmptyRows == [assets |-> {}, tags |-> {}, links |-> {}, searches |-> {},
              text  |-> [a \in Asset |-> {}],
              words |-> [a \in Asset |-> {}]]

CatalogInit == /\ SchemaInit
               /\ call = [p \in Process |-> None]
               /\ edits = 0

Ready(p) == conn[p].pc = "ready"

\* A statement outside a transaction changes the tables.
Store(p, rows) ==
    /\ Ready(p)
    /\ edits < MaxEdits
    /\ Autocommit(p, [current EXCEPT !.rows = rows])
    /\ GoTo(p, "done")
    /\ edits' = edits + 1
    /\ UNCHANGED call

-----------------------------------------------------------------------------
(* Assets.  How refresh_root comes to insert one is the subject of         *)
(* LibraryRefresh; here only the trigger that gives it its words matters.  *)

\* Variant: the trigger does not list tags_text.
NotIndexed(rows, a) == rows

\* The trigger assets_fts_update, which runs when tags_text is assigned.
Indexed(rows, a) == [rows EXCEPT !.words[a] = {Folded[n] : n \in rows.text[a]}]

InsertAsset(p, a) ==
    /\ a \notin Seen(p).rows.assets
    /\ Store(p, [current.rows EXCEPT !.assets = @ \cup {a}])

-----------------------------------------------------------------------------
(* Saved searches.                                                         *)

\* ON CONFLICT(name) DO UPDATE: the row keeps its id and the name it had.
Upserted(searches, n, s) ==
    IF \E r \in searches : SameName(r.name, n)
    THEN {IF SameName(r.name, n) THEN [r EXCEPT !.search = s] ELSE r : r \in searches}
    ELSE searches \cup {[id |-> NewId(searches), name |-> n, search |-> s]}

SaveSearch(p, n, s) ==
    Store(p, [current.rows EXCEPT !.searches = Upserted(@, n, s)])

\* An id that is not there is an error that changes nothing.
RemoveSavedSearch(p, id) ==
    /\ \E r \in Seen(p).rows.searches : r.id = id
    /\ Store(p, [current.rows EXCEPT !.searches = {r \in @ : r.id # id}])

-----------------------------------------------------------------------------
(* replace_tags.                                                           *)

\* Variant: the new tags are added to the old ones.
StillLinked(rows, a) == rows

Unlinked(rows, a) == [rows EXCEPT !.links = {l \in @ : l.asset # a}]

TagNamed(tags, n) == CHOOSE t \in tags : SameName(t.name, n)

\* create_tag writes the name as it is given, which changes the case in which
\* every asset with this tag shows it, and link ignores a tag given twice.
Tagged(rows, a, n) ==
    LET known == \E t \in rows.tags : SameName(t.name, n)
        id    == IF known THEN TagNamed(rows.tags, n).id ELSE NewId(rows.tags)
    IN  [rows EXCEPT !.tags  = {t \in @ : t.id # id} \cup {[id |-> id, name |-> n]},
                     !.links = @ \cup {[asset |-> a, tag |-> id]}]

TagsOf(rows, a) == {t \in rows.tags : [asset |-> a, tag |-> t.id] \in rows.links}

WithText(rows, a) == [rows EXCEPT !.text[a] = {t.name : t \in TagsOf(rows, a)}]

\* Tags that no asset has any more are deleted.
WithoutOrphans(rows) ==
    [rows EXCEPT !.tags = {t \in @ : \E l \in rows.links : l.tag = t.id}]

BeginReplaceTags(p, a, tags) ==
    /\ Ready(p)
    /\ edits < MaxEdits
    /\ a \in Seen(p).rows.assets
    /\ BeginWith(p, [current EXCEPT !.rows = Unlinked(@, a)])
    /\ GoTo(p, "tagging")
    /\ call' = [call EXCEPT ![p] = [asset |-> a, tags |-> tags, left |-> tags]]
    /\ UNCHANGED edits

LinkTag(p) ==
    /\ conn[p].pc = "tagging"
    /\ call[p].left # <<>>
    /\ Edit(p, [draft EXCEPT !.rows = Tagged(@, call[p].asset, Head(call[p].left))])
    /\ call' = [call EXCEPT ![p].left = Tail(@)]
    /\ UNCHANGED <<conn, edits>>

CommitTags(p) ==
    /\ conn[p].pc = "tagging"
    /\ call[p].left = <<>>
    /\ CommitAs(p, [draft EXCEPT !.rows =
                      WithoutOrphans(Indexed(WithText(@, call[p].asset), call[p].asset))])
    /\ GoTo(p, "done")
    /\ call' = [call EXCEPT ![p] = None]
    /\ edits' = edits + 1

\* A statement that writes, or BEGIN IMMEDIATE, does not get the lock in time.
CallTimeout(p) ==
    /\ Ready(p)
    /\ ~CanWrite(p)
    /\ GoTo(p, "failed")
    /\ UNCHANGED <<fileVars, call, edits>>

-----------------------------------------------------------------------------
\* The call of p is over, and with it the process.
End(p) == /\ \/ Close(p)
             \/ /\ conn[p].pc = "done"
                /\ GoTo(p, "closed")
                /\ LetGo(p)
          /\ UNCHANGED <<call, edits>>

KillCommand(p) == /\ Kill(p)
                  /\ call' = [call EXCEPT ![p] = None]
                  /\ UNCHANGED edits

PowerFails == /\ SchemaPowerLoss
              /\ call' = [p \in Process |-> None]
              /\ UNCHANGED edits

Checkpoint == Sync /\ UNCHANGED <<conn, call, edits>>

Call(p) == \/ \E a \in Asset : InsertAsset(p, a)
           \/ \E n \in Name, s \in Search : SaveSearch(p, n, s)
           \/ \E id \in 1..MaxEdits : RemoveSavedSearch(p, id)
           \/ \E a \in Asset, tags \in TagList : BeginReplaceTags(p, a, tags)

Progress(p) == \/ OpenStep(p) /\ UNCHANGED <<call, edits>>
               \/ LinkTag(p)
               \/ CommitTags(p)
               \/ CallTimeout(p)
               \/ End(p)

Next == \/ \E p \in Process : \/ (Open(p) \/ OpenFails(p)) /\ UNCHANGED <<call, edits>>
                              \/ Call(p)
                              \/ Progress(p)
                              \/ KillCommand(p)
        \/ Checkpoint
        \/ PowerFails

Spec == CatalogInit /\ [][Next]_vars

\* A process that has been started runs; none has to be started.
FairSpec == Spec /\ \A p \in Process : WF_vars(Call(p) \/ Progress(p))

-----------------------------------------------------------------------------
TypeOK ==
    /\ writer \in Process \cup {None}
    /\ IF writer = None THEN draft = None ELSE draft.rows \in Tables
    /\ conn \in [Process -> [pc : {"closed", "checked", "migrating", "migrated", "ready",
                                   "tagging", "done", "failed"},
                             version : FirstVersions \cup 0..CurrentSchemaVersion]]
    /\ call \in [Process -> [asset : Asset, tags : TagList, left : Seq(Name)] \cup {None}]
    /\ edits \in 0..MaxEdits
    /\ \A db \in Committed : db.rows \in Tables

CommittedRows == {db.rows : db \in Committed}

(* The write lock belongs to a process that is inside a transaction and will *)
(* end it: no failure, kill or refused call leaves the library locked.       *)
LockIsInUse ==
    writer # None => Migrating(writer) \/ conn[writer].pc = "tagging"

(* The file as every process finds it, after kills, failures and races of   *)
(* two migrations: its tables are those of its version, a connection works  *)
(* on the newest version only, and nobody holds the lock without using it.  *)
SchemaSound == TypeOK /\ SchemaMatches /\ ReadyIsCurrent /\ LockIsInUse

\* An id or a name, in whatever case, belongs to one row.
Unique(named) == \A r, s \in named : r.id = s.id \/ SameName(r.name, s.name) => r = s

Consistent(rows) == /\ {l.asset : l \in rows.links} \subseteq rows.assets
                    /\ {l.tag : l \in rows.links} = {t.id : t \in rows.tags}
                    /\ Unique(rows.tags)
                    /\ Unique(rows.searches)

\* What an asset shows of its tags, apart from case.
FoldedTags(rows, a) == {Folded[t.name] : t \in TagsOf(rows, a)}

FindsTagged(rows) == \A a \in Asset : rows.words[a] = FoldedTags(rows, a)

\* A new file has empty tables, an existing one tables that the program wrote.
ASSUME RowsAssumption == /\ NoRows = EmptyRows
                         /\ OldRows \in Tables
                         /\ IsFiniteSet(OldRows.tags) /\ IsFiniteSet(OldRows.searches)
                         /\ Consistent(OldRows) /\ FindsTagged(OldRows)

(* Links join assets and tags that exist, every tag has an asset, and no two  *)
(* tags or saved searches have names that differ only in case or the same id. *)
CatalogConsistent == \A rows \in CommittedRows : Consistent(rows)

(* The full-text index, which only sees tags_text, finds an asset by a word *)
(* exactly when the asset has a tag of that name, although a tag's case is  *)
(* changed for all assets while the text of one is rewritten.               *)
SearchFindsTagged == \A rows \in CommittedRows : FindsTagged(rows)

(* The four places that hold a tag (tags, asset_tags, tags_text and the       *)
(* full-text index) say the same of every asset after every commit.           *)
TagsAgree == CatalogConsistent /\ SearchFindsTagged

(* Replacing the tags of one asset gives it the tags passed and takes none *)
(* from another, although they share tags that are renamed and deleted.    *)
ReplaceTouchesOne ==
    [][\A p \in Process :
          conn[p].pc = "tagging" /\ conn'[p].pc = "done" =>
              \A a \in Asset :
                  FoldedTags(current'.rows, a) =
                      IF a = call[p].asset THEN {Folded[n] : n \in Range(call[p].tags)}
                      ELSE FoldedTags(current.rows, a)]_vars

(* Saving under a name that is taken, in whatever case, changes what the    *)
(* search does and neither its id nor its name: no step gives a search that *)
(* stays another id.                                                        *)
SaveKeepsIdentity ==
    [][edits' > edits =>
          \A r \in current.rows.searches, s \in current'.rows.searches :
              SameName(r.name, s.name) => r.id = s.id /\ r.name = s.name]_vars

(* An edit changes what it was asked to change: the tags of one asset, or     *)
(* the search of that name, whose id callers keep.                            *)
EditsAreExact == ReplaceTouchesOne /\ SaveKeepsIdentity

(* A command that has been started comes to its end, however many others hold *)
(* the lock, are killed while they hold it, or migrate the file under it.     *)
CommandEnds == \A p \in Process : conn[p].pc # "closed" ~> conn[p].pc = "closed"
=============================================================================
