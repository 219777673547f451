------------------------ MODULE LibraryRefreshProofs ------------------------
(***************************************************************************)
(* The index of a root is sound, refreshes are serial, moves are proven,   *)
(* quiet refreshes exact and duplicate groups sound, for every number of   *)
(* processes and paths, every order in which a directory is read, and      *)
(* every sequence of changes to the files.  IndexInv holds whatever        *)
(* happens; StoriesInv and SearchesInv follow a refresh and a search for   *)
(* duplicates from one look at the files to the next.                      *)
(***************************************************************************)
EXTENDS LibraryRefresh, FiniteSetTheorems, SequenceTheorems, TLAPS

-----------------------------------------------------------------------------
(* What the variables hold.                                                 *)

Now == Cardinality(Path) + changes

Found == [path : Path, size : {SizeOf[c] : c \in Content}]

StoringPcs == {"next", "hash", "parse"}

RowPcs == {"check", "read", "again", "update"}

Group == [target : Nat, row : IndexRow, hash : Content \cup {None}, left : SUBSET Nat]

IdleTask == [pc : {"new", "root", "done"}, quiet : BOOLEAN]
WalkTask == [pc : {"walk"}, quiet : BOOLEAN, unvisited : Seq(Path), found : SUBSET Found,
             generation : Nat]
NextTask == [pc : {"next"}, quiet : BOOLEAN, generation : Nat, queue : SUBSET Found]
StoreTask == [pc : {"hash", "parse"}, quiet : BOOLEAN, generation : Nat,
              queue : SUBSET Found, ticks : Ticks, candidates : SUBSET Nat,
              digest : Content \cup {None}]
AssetTask == [pc : {"row"}, quiet : BOOLEAN, asset : Nat, group : Group \cup {None}]
CheckTask == [pc : {"check", "read"}, quiet : BOOLEAN, asset : Nat, group : Group \cup {None},
              row : IndexRow]
HashTask == [pc : {"again", "update"}, quiet : BOOLEAN, asset : Nat, group : Group \cup {None},
             row : IndexRow, hash : Content \ {None}]
GroupTask == [pc : {"list", "each"}, quiet : BOOLEAN, group : Group]
AnswerTask == [pc : {"answer"}, quiet : BOOLEAN, target : Nat, members : SUBSET Nat]

Task == IdleTask \cup WalkTask \cup NextTask \cup StoreTask \cup AssetTask \cup CheckTask
        \cup HashTask \cup GroupTask \cup AnswerTask

-----------------------------------------------------------------------------
(* What is known of the file that had these ticks.                          *)

\* It is at the path, or it has left it for good.
Here(path, ticks) ==
    \A q \in Path : files[q] # None /\ files[q].ticks = ticks =>
        q = path \/ path \in files[q].left

\* If it is at the path, this is its content.
Told(path, ticks, content) ==
    \A q \in Path : files[q] # None /\ files[q].ticks = ticks =>
        content \in {None, files[q].content} \/ path \in files[q].left

\* Wherever it is, this is its content.
Certain(ticks, content) ==
    \A q \in Path : files[q] # None /\ files[q].ticks = ticks => content = files[q].content

FilesInv ==
    /\ files \in [Path -> File \cup {None}]
    /\ hidden \in Unreachable \cup {{}}
    /\ changes \in 0..MaxChanges
    /\ \A q \in Path : files[q] # None => q \notin files[q].left /\ files[q].ticks <= Now
    /\ \A q, r \in Path : files[q] # None /\ files[r] # None /\ files[q].ticks = files[r].ticks
                              => q = r

RowInv(row) == /\ row.ticks <= Now
               /\ Told(row.path, row.ticks, row.digest)
               /\ Told(row.path, row.ticks, row.meta)

\* The tables are typed, no two rows have one path, none is newer than the root.
TableInv(db) ==
    /\ db \in Database
    /\ \A i, j \in DOMAIN db.rows : db.rows[i].path = db.rows[j].path => i = j
    /\ \A i \in DOMAIN db.rows : db.rows[i].seen <= db.generation /\ RowInv(db.rows[i])

DatabaseInv ==
    /\ TableInv(current)
    /\ writer \in Process \cup {None}
    /\ writer = None => draft = None
    /\ writer # None => /\ TableInv(draft)
                        /\ draft.generation = current.generation + 1
                        /\ RowIds(current) \subseteq RowIds(draft)
    /\ view \in [Process -> Database \cup {None}]
    /\ behind \subseteq {p \in Process : view[p] # None}
    /\ \A p \in Process : view[p] # None /\ p \notin behind => view[p] = current

TaskInv(p, t) ==
    /\ t \in Task
    /\ t.pc \in StoringPcs <=> writer = p
    /\ t.pc \notin StoringPcs \cup {"walk"} => view[p] = None
    /\ t.pc = "walk" => view[p] # None /\ t.generation = view[p].generation + 1
    /\ t.pc \in StoringPcs => t.generation = draft.generation
    /\ t.pc \in {"hash", "parse"} =>
           /\ t.queue # {}
           /\ t.ticks <= Now
           /\ Here(FirstOf(t.queue).path, t.ticks)
           /\ t.candidates \subseteq RowIds(draft)
           /\ t.candidates # {} => RowAt(draft, FirstOf(t.queue).path) = {}
           /\ Told(FirstOf(t.queue).path, t.ticks, t.digest)
    /\ t.pc \in {"row"} \cup RowPcs => t.asset \in RowIds(current)
    /\ t.pc \in {"row"} \cup RowPcs =>
           t.group = None \/ t.group.left \subseteq RowIds(current)
    /\ t.pc \in {"list", "each"} => t.group.left \subseteq RowIds(current)
    /\ t.pc \in RowPcs => t.row.ticks <= Now
    /\ t.pc \in {"read", "again"} => Here(t.row.path, t.row.ticks)
    /\ t.pc = "again" => Told(t.row.path, t.row.ticks, t.hash)
    /\ t.pc = "update" => Certain(t.row.ticks, t.hash)

TasksInv == /\ task \in [Process -> Task]
            /\ \A p \in Process : TaskInv(p, task[p])

\* Every refresh that has been stored has ended.
CountInv == current.generation <= 1 + Cardinality({p \in Process : task[p].pc = "done"})

IndexInv == FilesInv /\ DatabaseInv /\ TasksInv /\ CountInv

-----------------------------------------------------------------------------
(* Facts about the operators.                                               *)

LEMMA Sizes == Cardinality(Path) \in Nat /\ Path \subseteq Nat
<1>1. Cardinality(Path) \in Nat
  BY PathAssumption, FS_CardinalityType
<1>. QED BY <1>1, PathAssumption

LEMMA NowType ==
    ASSUME changes \in 0..MaxChanges
    PROVE  Now \in Nat /\ \A n \in 1..Now : n \in Ticks
<1>1. changes \in Nat /\ changes <= MaxChanges
  BY ChangesAssumption
<1>2. \A a, b, c \in Nat : b <= c => \A n \in 1..(a + b) : n \in 1..(a + c)
  OBVIOUS
<1>3. \A a, b \in Nat : a + b \in Nat
  OBVIOUS
<1>. QED BY <1>1, <1>2, <1>3, Sizes, ChangesAssumption DEF Now, Ticks

LEMMA LeastNat ==
    ASSUME NEW T \in SUBSET Nat, T # {}
    PROVE  \E n \in T : \A m \in T : n <= m
<1>1. \E n \in T : \A m \in T : ~(<<m, n>> \in OpToRel(<, Nat))
  BY NatLessThanWellFounded, WFMin
<1>2. \A m, n \in Nat : m < n => <<m, n>> \in OpToRel(<, Nat)
  BY Zenon DEF OpToRel
<1>3. \A m, n \in Nat : n <= m \/ m < n
  OBVIOUS
<1>. QED BY <1>1, <1>2, <1>3

\* The first of the files found is one of them.
LEMMA FirstIsFound ==
    ASSUME NEW Q \in SUBSET Found, Q # {}
    PROVE  FirstOf(Q) \in Q /\ FirstOf(Q) \in Found
<1>. DEFINE T == {f.path : f \in Q}
<1>1. T \in SUBSET Path /\ T # {}
  BY DEF Found
<1>2. PICK n \in T : \A m \in T : n <= m
  <2>. HIDE DEF T
  <2>1. T \in SUBSET Nat
    BY <1>1, Sizes
  <2>. QED BY <1>1, <2>1, LeastNat
<1>3. PICK f \in Q : f.path = n
  BY <1>2
<1>4. \A other \in Q : f.path <= other.path
  BY <1>2, <1>3
<1>. QED BY <1>3, <1>4 DEF FirstOf

\* The program counter says what a call remembers.
LEMMA TaskKinds ==
    ASSUME NEW t \in Task
    PROVE  /\ t.pc \in {"new", "root", "done"} => t \in IdleTask
           /\ t.pc = "walk" => t \in WalkTask
           /\ t.pc = "next" => t \in NextTask
           /\ t.pc \in {"hash", "parse"} => t \in StoreTask
           /\ t.pc = "row" => t \in AssetTask
           /\ t.pc \in {"check", "read"} => t \in CheckTask
           /\ t.pc \in {"again", "update"} => t \in HashTask
           /\ t.pc \in {"list", "each"} => t \in GroupTask
           /\ t.pc = "answer" => t \in AnswerTask
           /\ t.pc \in {"new", "root", "done", "walk", "row", "list", "each", "answer"}
                       \cup StoringPcs \cup RowPcs
BY DEF Task, IdleTask, WalkTask, NextTask, StoreTask, AssetTask, CheckTask, HashTask,
       GroupTask, AnswerTask, StoringPcs, RowPcs

\* Being disturbed changes nothing that the invariant is about.
LEMMA DisturbedKept ==
    ASSUME NEW p \in Process, TaskInv(p, task[p])
    PROVE  TaskInv(p, Disturbed(p)) /\ Disturbed(p).pc = task[p].pc
<1>. DEFINE t == task[p]
            d == [t EXCEPT !.quiet = FALSE]
<1>0. t \in Task
  BY DEF TaskInv
<1>. HIDE DEF t
<1>1. CASE t.pc \in {"new", "root", "done"}
  <2>1. d \in IdleTask /\ d.pc = t.pc
    BY <1>0, <1>1, TaskKinds DEF IdleTask
  <2>. QED BY <1>1, <2>1 DEF t, TaskInv, Task, Disturbed, StoringPcs, RowPcs
<1>2. CASE t.pc = "walk"
  <2>1. d \in WalkTask /\ d.pc = t.pc /\ d.generation = t.generation
    BY <1>0, <1>2, TaskKinds DEF WalkTask
  <2>. QED BY <1>2, <2>1 DEF t, TaskInv, Task, Disturbed, StoringPcs, RowPcs
<1>3. CASE t.pc = "next"
  <2>1. d \in NextTask /\ d.pc = t.pc /\ d.generation = t.generation
    BY <1>0, <1>3, TaskKinds DEF NextTask
  <2>. QED BY <1>3, <2>1 DEF t, TaskInv, Task, Disturbed, StoringPcs, RowPcs
<1>4. CASE t.pc \in {"hash", "parse"}
  <2>1. /\ d \in StoreTask /\ d.pc = t.pc /\ d.generation = t.generation
        /\ d.queue = t.queue /\ d.ticks = t.ticks /\ d.candidates = t.candidates
        /\ d.digest = t.digest
    BY <1>0, <1>4, TaskKinds DEF StoreTask
  <2>. QED BY <1>4, <2>1 DEF t, TaskInv, Task, Disturbed, StoringPcs, RowPcs
<1>5. CASE t.pc = "row"
  <2>1. d \in AssetTask /\ d.pc = t.pc /\ d.asset = t.asset /\ d.group = t.group
    BY <1>0, <1>5, TaskKinds DEF AssetTask
  <2>. QED BY <1>5, <2>1 DEF t, TaskInv, Task, Disturbed, StoringPcs, RowPcs
<1>6. CASE t.pc \in {"check", "read"}
  <2>1. /\ d \in CheckTask /\ d.pc = t.pc /\ d.asset = t.asset /\ d.group = t.group
        /\ d.row = t.row
    BY <1>0, <1>6, TaskKinds DEF CheckTask
  <2>. QED BY <1>6, <2>1 DEF t, TaskInv, Task, Disturbed, StoringPcs, RowPcs
<1>7. CASE t.pc \in {"again", "update"}
  <2>1. /\ d \in HashTask /\ d.pc = t.pc /\ d.asset = t.asset /\ d.group = t.group
        /\ d.row = t.row /\ d.hash = t.hash
    BY <1>0, <1>7, TaskKinds DEF HashTask
  <2>. QED BY <1>7, <2>1 DEF t, TaskInv, Task, Disturbed, StoringPcs, RowPcs
<1>8. CASE t.pc \in {"list", "each"}
  <2>1. d \in GroupTask /\ d.pc = t.pc /\ d.group = t.group
    BY <1>0, <1>8, TaskKinds DEF GroupTask
  <2>. QED BY <1>8, <2>1 DEF t, TaskInv, Task, Disturbed, StoringPcs, RowPcs
<1>9. CASE t.pc = "answer"
  <2>1. d \in AnswerTask /\ d.pc = t.pc
    BY <1>0, <1>9, TaskKinds DEF AnswerTask
  <2>. QED BY <1>9, <2>1 DEF t, TaskInv, Task, Disturbed, StoringPcs, RowPcs
<1>. QED BY <1>0, <1>1, <1>2, <1>3, <1>4, <1>5, <1>6, <1>7, <1>8, <1>9, TaskKinds
         DEF StoringPcs, RowPcs

-----------------------------------------------------------------------------
(* The file system.                                                         *)

\* Every file is a new one, or one that was there, at its path or from another.
Moved ==
    \A q \in Path : files'[q] # None =>
        \/ files'[q].ticks > Now
        \/ \E r \in Path : /\ files[r] # None
                           /\ files'[q].ticks = files[r].ticks
                           /\ files'[q].content = files[r].content
                           /\ \/ q = r /\ files'[q].left = files[r].left
                              \/ files'[q].left = files[r].left \cup {r}

LEMMA EnvironmentFiles ==
    ASSUME FilesInv, Environment
    PROVE  FilesInv' /\ Moved /\ Now' = Now + 1
<1>1. /\ changes \in Nat /\ changes' = changes + 1 /\ changes' \in 0..MaxChanges
      /\ Now \in Nat /\ Now' = Now + 1
  <2>1. changes \in 0..MaxChanges /\ changes < MaxChanges /\ changes' = changes + 1
    BY DEF FilesInv, Environment, Write, Delete, Rename, Hide, Change
  <2>2. Now \in Nat
    BY NowType DEF FilesInv
  <2>. QED BY <2>1, <2>2, ChangesAssumption, Sizes DEF Now
<1>2. Now + 1 \in Ticks /\ \A n \in Int : n <= Now => n < Now + 1 /\ n <= Now + 1
  <2>1. \A a, b, c \in Nat : b + 1 <= c => a + b + 1 \in 1..(a + c)
    OBVIOUS
  <2>2. changes + 1 <= MaxChanges
    BY <1>1
  <2>3. \A n \in Int : n <= Now => n < Now + 1 /\ n <= Now + 1
    BY <1>1
  <2>. QED BY <1>1, <2>1, <2>2, <2>3, Sizes, ChangesAssumption DEF Now, Ticks
<1>3. \A q \in Path : files[q] # None => /\ files[q] \in File
                                         /\ files[q].ticks \in Int
                                         /\ files[q].content \in Content
                                         /\ files[q].left \in SUBSET Path
  BY DEF FilesInv, File, Ticks
<1>4. ASSUME NEW path \in Path, NEW content \in Content, Write(path, content)
      PROVE  FilesInv' /\ Moved
  <2>. DEFINE new == [content |-> content, ticks |-> Now + 1, left |-> {}]
  <2>1. new \in File /\ new.ticks = Now + 1 /\ new.left = {}
    BY <1>2 DEF File
  <2>2. NewFile(content) = new
    <3>1. Cardinality(Path) + changes' = Now + 1
      BY <1>1, Sizes DEF Now
    <3>. QED BY <3>1 DEF NewFile
  <2>. HIDE DEF new
  <2>3. /\ files' = [files EXCEPT ![path] = new] /\ hidden' = hidden
    BY <1>4, <2>2 DEF Write
  <2>4. /\ files' \in [Path -> File \cup {None}]
        /\ \A q \in Path : files'[q] = IF q = path THEN new ELSE files[q]
    BY <2>1, <2>3 DEF FilesInv
  <2>5. Moved
    BY <1>1, <1>2, <1>3, <2>1, <2>4 DEF Moved
  <2>6. \A q \in Path : files'[q] # None => q \notin files'[q].left /\ files'[q].ticks <= Now'
    BY <1>1, <1>2, <1>3, <2>1, <2>4 DEF FilesInv
  <2>7. \A q \in Path : files[q] # None => files[q].ticks # Now + 1
    BY <1>1, <1>2, <1>3 DEF FilesInv
  <2>8. \A q, r \in Path : files'[q] # None /\ files'[r] # None
                              /\ files'[q].ticks = files'[r].ticks => q = r
    BY <2>1, <2>4, <2>7 DEF FilesInv
  <2>. QED BY <1>1, <2>3, <2>4, <2>5, <2>6, <2>8 DEF FilesInv
<1>5. ASSUME NEW path \in Path, Delete(path)
      PROVE  FilesInv' /\ Moved
  <2>1. /\ files' \in [Path -> File \cup {None}] /\ hidden' = hidden
        /\ \A q \in Path : files'[q] = IF q = path THEN None ELSE files[q]
    BY <1>5 DEF FilesInv, Delete
  <2>2. Moved
    BY <2>1 DEF Moved
  <2>3. \A q \in Path : files'[q] # None => q \notin files'[q].left /\ files'[q].ticks <= Now'
    BY <1>1, <1>2, <1>3, <2>1 DEF FilesInv
  <2>. QED BY <1>1, <2>1, <2>2, <2>3 DEF FilesInv
<1>6. ASSUME NEW from \in Path, NEW to \in Path, Rename(from, to)
      PROVE  FilesInv' /\ Moved
  <2>. DEFINE new == [files[from] EXCEPT !.left = @ \cup {from}]
  <2>1. /\ files[from] # None /\ to \notin files[from].left \cup {from}
        /\ files' = [files EXCEPT ![from] = None, ![to] = new] /\ hidden' = hidden
    BY <1>6 DEF Rename, Readable
  <2>2. /\ new \in File /\ new.content = files[from].content
        /\ new.ticks = files[from].ticks /\ new.left = files[from].left \cup {from}
    BY <1>3, <2>1 DEF File
  <2>. HIDE DEF new
  <2>3. /\ files' \in [Path -> File \cup {None}]
        /\ \A q \in Path : files'[q] = IF q = from THEN None
                                       ELSE IF q = to THEN new ELSE files[q]
    BY <2>1, <2>2 DEF FilesInv
  <2>4. Moved
    BY <2>1, <2>2, <2>3 DEF Moved
  <2>5. \A q \in Path : files'[q] # None => q \notin files'[q].left /\ files'[q].ticks <= Now'
    BY <1>1, <1>2, <1>3, <2>1, <2>2, <2>3 DEF FilesInv
  <2>6. \A q, r \in Path : files'[q] # None /\ files'[r] # None
                              /\ files'[q].ticks = files'[r].ticks => q = r
    BY <2>1, <2>2, <2>3 DEF FilesInv
  <2>. QED BY <1>1, <2>1, <2>3, <2>4, <2>5, <2>6 DEF FilesInv
<1>7. ASSUME NEW paths \in Unreachable, Hide(paths)
      PROVE  FilesInv' /\ Moved
  <2>1. files' = files /\ hidden' \in Unreachable
    BY <1>7 DEF Hide
  <2>2. Moved
    BY <2>1 DEF Moved
  <2>3. \A q \in Path : files'[q] # None => q \notin files'[q].left /\ files'[q].ticks <= Now'
    BY <1>1, <1>2, <1>3, <2>1 DEF FilesInv
  <2>. QED BY <1>1, <2>1, <2>2, <2>3 DEF FilesInv
<1>. QED BY <1>1, <1>4, <1>5, <1>6, <1>7 DEF Environment

\* What is known of ticks that have been given stays known.
LEMMA KnowledgeKept ==
    ASSUME FilesInv, Moved, NEW path, NEW ticks \in Int, ticks <= Now, NEW content
    PROVE  /\ Here(path, ticks) => Here(path, ticks)'
           /\ Told(path, ticks, content) => Told(path, ticks, content)'
           /\ Certain(ticks, content) => Certain(ticks, content)'
<1>1. Now \in Nat
  BY NowType DEF FilesInv
<1>2. ASSUME NEW q \in Path, files'[q] # None, files'[q].ticks = ticks
      PROVE  \E r \in Path : /\ files[r] # None
                             /\ files[r].ticks = ticks
                             /\ files'[q].content = files[r].content
                             /\ \/ q = r /\ files'[q].left = files[r].left
                                \/ files'[q].left = files[r].left \cup {r}
  BY <1>1, <1>2 DEF Moved
<1>3. ASSUME Here(path, ticks) PROVE Here(path, ticks)'
  BY <1>2, <1>3 DEF Here
<1>4. ASSUME Told(path, ticks, content) PROVE Told(path, ticks, content)'
  BY <1>2, <1>4 DEF Told
<1>5. ASSUME Certain(ticks, content) PROVE Certain(ticks, content)'
  BY <1>2, <1>5 DEF Certain
<1>. QED BY <1>3, <1>4, <1>5

LEMMA TableKept ==
    ASSUME FilesInv, Moved, Now' = Now + 1, NEW db, TableInv(db)
    PROVE  TableInv(db)'
<1>1. Now \in Nat
  BY NowType DEF FilesInv
<1>2. \A n \in Int : n <= Now => n <= Now'
  BY <1>1
<1>3. ASSUME NEW i \in DOMAIN db.rows
      PROVE  RowInv(db.rows[i])'
  <2>1. RowInv(db.rows[i])
    BY DEF TableInv
  <2>2. db.rows[i].ticks \in Int
    <3>1. db.rows \in Seq(IndexRow)
      BY DEF TableInv, Database
    <3>2. db.rows[i] \in IndexRow
      BY <3>1, ElementOfSeq, LenProperties
    <3>. QED BY <3>2 DEF IndexRow, Ticks
  <2>. QED BY <1>2, <2>1, <2>2, KnowledgeKept DEF RowInv
<1>. QED BY <1>3 DEF TableInv

LEMMA TaskKept ==
    ASSUME FilesInv, Moved, Now' = Now + 1, UNCHANGED fileVars,
           NEW p \in Process, NEW t, TaskInv(p, t)
    PROVE  TaskInv(p, t)'
<1>1. Now \in Nat
  BY NowType DEF FilesInv
<1>2. \A n \in Int : n <= Now => n <= Now'
  BY <1>1
<1>3. t \in Task
  BY DEF TaskInv
<1>4. ASSUME t.pc \in {"hash", "parse"}
      PROVE  /\ t.ticks <= Now'
             /\ Here(FirstOf(t.queue).path, t.ticks)'
             /\ Told(FirstOf(t.queue).path, t.ticks, t.digest)'
  <2>1. t.ticks \in Int
    BY <1>3, <1>4, TaskKinds DEF StoreTask, Ticks
  <2>. QED BY <1>2, <1>4, <2>1, KnowledgeKept DEF TaskInv
<1>5. ASSUME t.pc \in RowPcs
      PROVE  /\ t.row.ticks <= Now'
             /\ Here(t.row.path, t.row.ticks) => Here(t.row.path, t.row.ticks)'
             /\ Told(t.row.path, t.row.ticks, t.hash) => Told(t.row.path, t.row.ticks, t.hash)'
             /\ Certain(t.row.ticks, t.hash) => Certain(t.row.ticks, t.hash)'
  <2>1. t.row \in IndexRow
    BY <1>3, <1>5, TaskKinds DEF CheckTask, HashTask, RowPcs
  <2>2. t.row.ticks \in Int
    BY <2>1 DEF IndexRow, Ticks
  <2>. QED BY <1>2, <1>5, <2>2, KnowledgeKept DEF TaskInv
<1>6. UNCHANGED <<current, writer, draft, view>>
  BY DEF fileVars
<1>. QED BY <1>4, <1>5, <1>6 DEF TaskInv, RowIds, RowAt, RowPcs

-----------------------------------------------------------------------------
(* Calls that have ended.                                                   *)

Ended == {p \in Process : task[p].pc = "done"}

LEMMA EndedFinite ==
    /\ IsFiniteSet(Ended) /\ Cardinality(Ended) \in Nat
    /\ IsFiniteSet(Ended') /\ Cardinality(Ended') \in Nat
<1>1. Ended \in SUBSET Process /\ Ended' \in SUBSET Process
  BY DEF Ended
<1>2. IsFiniteSet(Ended) /\ IsFiniteSet(Ended')
  BY <1>1, ProcessAssumption, FS_Subset
<1>. QED BY <1>2, FS_CardinalityType

\* Calls that end stay ended.
LEMMA CountKept ==
    ASSUME CountInv, current.generation \in Nat,
           UNCHANGED current.generation, Ended \subseteq Ended'
    PROVE  CountInv'
<1>1. Cardinality(Ended) <= Cardinality(Ended')
  BY EndedFinite, FS_Subset
<1>2. \A a, b, c \in Nat : a <= 1 + b /\ b <= c => a <= 1 + c
  OBVIOUS
<1>. QED BY <1>1, <1>2, EndedFinite DEF CountInv, Ended

LEMMA TaskNow ==
    ASSUME NEW p, NEW t, t = task'[p], TaskInv(p, t)'
    PROVE  TaskInv(p, task[p])'
BY DEF TaskInv, Here, Told, Certain

LEMMA EnvironmentStep ==
    ASSUME IndexInv, Environment
    PROVE  IndexInv'
<1>1. /\ UNCHANGED fileVars
      /\ task' = [q \in Process |-> Disturbed(q)]
  BY DEF Environment, Write, Delete, Rename, Hide, Change
<1>2. FilesInv' /\ Moved /\ Now' = Now + 1
  BY EnvironmentFiles DEF IndexInv
<1>3. DatabaseInv'
  <2>1. UNCHANGED <<current, writer, draft, view, behind>>
    BY <1>1 DEF fileVars
  <2>2. \A db : TableInv(db) => TableInv(db)'
    BY <1>2, TableKept DEF IndexInv
  <2>3. TableInv(current)'
    <3>1. TableInv(current) => \E db : db = current /\ TableInv(db)'
      BY <2>2
    <3>. QED BY <2>1, <3>1 DEF IndexInv, DatabaseInv, TableInv, RowInv, Told
  <2>4. writer # None => TableInv(draft)'
    <3>1. TableInv(draft) => \E db : db = draft /\ TableInv(db)'
      BY <2>2
    <3>. QED BY <2>1, <3>1 DEF IndexInv, DatabaseInv, TableInv, RowInv, Told
  <2>. QED BY <2>1, <2>3, <2>4 DEF IndexInv, DatabaseInv, RowIds
<1>4. TasksInv'
  <2>1. ASSUME NEW q \in Process
        PROVE  TaskInv(q, task[q])' /\ task'[q] \in Task
    <3>1. PICK t : t = task'[q]
      OBVIOUS
    <3>2. TaskInv(q, t)
      <4>1. TaskInv(q, Disturbed(q))
        BY DisturbedKept DEF IndexInv, TasksInv
      <4>. QED BY <1>1, <3>1, <4>1
    <3>3. TaskInv(q, t)'
      BY <1>1, <1>2, <3>2, TaskKept DEF IndexInv
    <3>. QED BY <3>1, <3>2, <3>3, TaskNow DEF TaskInv
  <2>. QED BY <1>1, <2>1 DEF TasksInv
<1>5. CountInv'
  <2>1. \A q \in Process : task'[q].pc = task[q].pc
    BY <1>1, DisturbedKept DEF IndexInv, TasksInv
  <2>2. Ended \subseteq Ended'
    BY <2>1 DEF Ended
  <2>3. current' = current /\ current.generation \in Nat
    BY <1>1 DEF fileVars, IndexInv, DatabaseInv, TableInv, Database
  <2>. QED BY <2>2, <2>3, CountKept DEF IndexInv
<1>. QED BY <1>2, <1>3, <1>4, <1>5 DEF IndexInv

-----------------------------------------------------------------------------
(* The steps of one process.                                                *)

\* A call does not notice what the others do to the database.
LEMMA OtherKept ==
    ASSUME UNCHANGED envVars, NEW q \in Process, NEW t, TaskInv(q, t),
           writer' = q <=> writer = q, view'[q] = view[q],
           RowIds(current) \subseteq RowIds(current'),
           writer = q => draft' = draft
    PROVE  TaskInv(q, t)'
<1>1. files' = files /\ Now' = Now
  BY DEF envVars, Now
<1>2. \A path, ticks, content : /\ Here(path, ticks) => Here(path, ticks)'
                                /\ Told(path, ticks, content) => Told(path, ticks, content)'
                                /\ Certain(ticks, content) => Certain(ticks, content)'
  BY <1>1 DEF Here, Told, Certain
<1>3. t.pc \in StoringPcs => draft' = draft
  BY DEF TaskInv
<1>. QED BY <1>1, <1>2, <1>3 DEF TaskInv, RowAt, RowIds, StoringPcs

\* A step of p that writes at most its own transaction.
LEMMA ProcessStep ==
    ASSUME IndexInv, UNCHANGED envVars, NEW p \in Process, NEW t, TaskInv(p, t)',
           \/ Become(p, t)
           \/ BecomeDisturbing(p, t),
           DatabaseInv', task[p].pc # "done",
           \A q \in Process \ {p} : /\ writer' = q <=> writer = q
                                    /\ view'[q] = view[q]
                                    /\ writer = q => draft' = draft,
           RowIds(current) \subseteq RowIds(current'),
           UNCHANGED current.generation \/ (t.pc = "done"
               /\ current'.generation = current.generation + 1)
    PROVE  IndexInv'
<1>1. task \in [Process -> Task] /\ \A q \in Process : TaskInv(q, task[q])
  BY DEF IndexInv, TasksInv
<1>2. /\ DOMAIN task' = Process /\ task'[p] = t
      /\ task' = [q \in Process |-> task'[q]]
      /\ \A q \in Process \ {p} : task'[q] \in {task[q], Disturbed(q)}
  BY <1>1 DEF Become, BecomeDisturbing
<1>3. FilesInv'
  <2>1. UNCHANGED <<files, hidden, changes>> /\ Now' = Now
    BY DEF envVars, Now
  <2>. QED BY <2>1 DEF IndexInv, FilesInv
<1>4. \A q \in Process \ {p} : \A u : TaskInv(q, u) => TaskInv(q, u)'
  BY OtherKept
<1>5. ASSUME NEW q \in Process
      PROVE  TaskInv(q, task[q])' /\ task'[q] \in Task
  <2>1. PICK u : u = task'[q]
    OBVIOUS
  <2>2. TaskInv(q, u)'
    <3>1. CASE q = p
      BY <1>2, <2>1, <3>1
    <3>2. CASE q # p
      <4>1. TaskInv(q, task[q]) /\ TaskInv(q, Disturbed(q))
        BY <1>1, DisturbedKept
      <4>2. TaskInv(q, u)
        BY <1>2, <2>1, <3>2, <4>1
      <4>. QED BY <1>4, <3>2, <4>2
    <3>. QED BY <3>1, <3>2
  <2>. QED BY <2>1, <2>2, TaskNow DEF TaskInv
<1>6. TasksInv'
  BY <1>2, <1>5 DEF TasksInv
<1>7. CountInv'
  <2>1. \A q \in Process \ {p} : task'[q].pc = task[q].pc
    BY <1>1, <1>2, DisturbedKept
  <2>2. Ended \subseteq Ended' /\ p \notin Ended
    BY <2>1 DEF Ended
  <2>3. current.generation \in Nat
    BY DEF IndexInv, DatabaseInv, TableInv, Database
  <2>4. CASE UNCHANGED current.generation
    BY <2>2, <2>3, <2>4, CountKept DEF IndexInv
  <2>5. CASE t.pc = "done" /\ current'.generation = current.generation + 1
    <3>1. Ended' = Ended \cup {p}
      BY <1>2, <2>1, <2>5 DEF Ended
    <3>2. Cardinality(Ended') = Cardinality(Ended) + 1
      BY <2>2, <3>1, EndedFinite, FS_AddElement
    <3>3. current.generation <= 1 + Cardinality(Ended)
      BY DEF IndexInv, CountInv, Ended
    <3>4. current'.generation <= 1 + Cardinality(Ended')
      BY <2>3, <2>5, <3>2, <3>3, EndedFinite
    <3>. QED BY <3>4 DEF CountInv, Ended
  <2>. QED BY <2>4, <2>5
<1>. QED BY <1>3, <1>6, <1>7 DEF IndexInv

\* A step of p that leaves the database alone.
LEMMA ThoughtStep ==
    ASSUME IndexInv, UNCHANGED <<fileVars, envVars>>, NEW p \in Process, NEW t,
           TaskInv(p, t), Become(p, t), task[p].pc # "done"
    PROVE  IndexInv'
<1>1. UNCHANGED envVars /\ UNCHANGED <<current, writer, draft, view, behind>>
  BY DEF fileVars
<1>2. TaskInv(p, t)'
  BY <1>1, OtherKept DEF RowIds
<1>3. DatabaseInv'
  <2>1. UNCHANGED <<files, changes>> /\ Now' = Now
    BY DEF envVars, Now
  <2>. QED BY <1>1, <2>1 DEF IndexInv, DatabaseInv, TableInv, RowInv, Told, RowIds
<1>. QED BY <1>1, <1>2, <1>3, ProcessStep DEF RowIds

-----------------------------------------------------------------------------
(* ensure_sha256 and duplicate_group.                                       *)

LEMMA TableTyped ==
    ASSUME NEW db, TableInv(db)
    PROVE  /\ db.rows \in Seq(IndexRow)
           /\ Len(db.rows) \in Nat
           /\ DOMAIN db.rows = 1..Len(db.rows)
           /\ \A i \in DOMAIN db.rows : i \in Nat /\ db.rows[i] \in IndexRow
<1>1. db.rows \in Seq(IndexRow)
  BY DEF TableInv, Database
<1>2. Len(db.rows) \in Nat /\ DOMAIN db.rows = 1..Len(db.rows)
  BY <1>1, LenProperties
<1>3. \A i \in 1..Len(db.rows) : db.rows[i] \in IndexRow
  BY <1>1, ElementOfSeq
<1>. QED BY <1>1, <1>2, <1>3

\* Outside of a refresh a call sees what has been committed.
LEMMA ReaderSees ==
    ASSUME IndexInv, NEW p \in Process, task[p].pc \notin StoringPcs \cup {"walk"}
    PROVE  /\ Seen(p) = current /\ writer # p /\ view[p] = None /\ p \notin behind
           /\ task[p] \in Task /\ TaskInv(p, task[p])
           /\ TableInv(current) /\ RowIds(current) \subseteq Nat
<1>1. TaskInv(p, task[p]) /\ task[p] \in Task /\ TableInv(current)
  BY DEF IndexInv, TasksInv, DatabaseInv
<1>2. writer # p /\ view[p] = None
  BY <1>1 DEF TaskInv
<1>3. p \notin behind
  BY <1>2 DEF IndexInv, DatabaseInv
<1>. QED BY <1>1, <1>2, <1>3, TableTyped DEF Seen, RowIds

LEMMA DoneTask ==
    ASSUME NEW p \in Process, writer # p, view[p] = None
    PROVE  TaskInv(p, Done)
<1>1. Done \in Task /\ Done.pc = "done"
  BY DEF Done, Task, IdleTask
<1>. QED BY <1>1 DEF TaskInv, StoringPcs, RowPcs

LEMMA EachTask ==
    ASSUME NEW p \in Process, writer # p, view[p] = None, NEW pc \in {"list", "each"},
           NEW quiet \in BOOLEAN, NEW group \in Group, group.left \subseteq RowIds(current)
    PROVE  TaskInv(p, [pc |-> pc, quiet |-> quiet, group |-> group])
<1>. DEFINE t == [pc |-> pc, quiet |-> quiet, group |-> group]
<1>1. t \in GroupTask /\ t.pc = pc /\ t.group = group
  BY DEF GroupTask
<1>2. TaskInv(p, t)
  <2>. HIDE DEF t
  <2>. QED BY <1>1 DEF TaskInv, Task, StoringPcs, RowPcs
<1>. QED BY <1>2

LEMMA AssetTaskIs ==
    ASSUME NEW p \in Process, writer # p, view[p] = None, NEW quiet \in BOOLEAN,
           NEW asset \in RowIds(current), asset \in Nat,
           NEW group \in Group \cup {None},
           group = None \/ group.left \subseteq RowIds(current)
    PROVE  TaskInv(p, [pc |-> "row", quiet |-> quiet, asset |-> asset, group |-> group])
<1>. DEFINE t == [pc |-> "row", quiet |-> quiet, asset |-> asset, group |-> group]
<1>1. t \in AssetTask /\ t.pc = "row" /\ t.asset = asset /\ t.group = group
  BY DEF AssetTask
<1>2. TaskInv(p, t)
  <2>. HIDE DEF t
  <2>. QED BY <1>1 DEF TaskInv, Task, StoringPcs, RowPcs
<1>. QED BY <1>2

\* What a call in ensure_sha256 remembers, and what it may become.
LEMMA AssetCall ==
    ASSUME IndexInv, NEW p \in Process, task[p].pc \in {"row"} \cup RowPcs
    PROVE  /\ task[p].quiet \in BOOLEAN
           /\ task[p].asset \in RowIds(current)
           /\ task[p].group \in Group \cup {None}
           /\ task[p].group = None \/ task[p].group.left \subseteq RowIds(current)
           /\ task[p].pc \in RowPcs => task[p].row \in IndexRow /\ task[p].row.ticks <= Now
<1>1. TaskInv(p, task[p]) /\ task[p] \in Task
  BY DEF IndexInv, TasksInv
<1>2. CASE task[p].pc = "row"
  <2>1. task[p] \in AssetTask
    BY <1>1, <1>2, TaskKinds
  <2>. QED BY <1>1, <1>2, <2>1 DEF TaskInv, AssetTask, RowPcs
<1>3. CASE task[p].pc \in {"check", "read"}
  <2>1. task[p] \in CheckTask
    BY <1>1, <1>3, TaskKinds
  <2>. QED BY <1>1, <1>3, <2>1 DEF TaskInv, CheckTask, RowPcs
<1>4. CASE task[p].pc \in {"again", "update"}
  <2>1. task[p] \in HashTask
    BY <1>1, <1>4, TaskKinds
  <2>. QED BY <1>1, <1>4, <2>1 DEF TaskInv, HashTask, RowPcs
<1>. QED BY <1>2, <1>3, <1>4 DEF RowPcs

LEMMA AfterHash ==
    ASSUME IndexInv, NEW p \in Process, task[p].pc \in {"row"} \cup RowPcs
    PROVE  /\ TaskInv(p, Done)
           /\ \A quiet \in BOOLEAN : task[p].group # None =>
                  TaskInv(p, [pc |-> "each", quiet |-> quiet, group |-> task[p].group])
           /\ \A hash \in Content : TaskInv(p, Hashed(p, hash))
<1>1. writer # p /\ view[p] = None
  BY ReaderSees DEF StoringPcs, RowPcs
<1>2. /\ task[p].group \in Group \cup {None} /\ task[p].quiet \in BOOLEAN
      /\ task[p].group # None => task[p].group.left \subseteq RowIds(current)
  BY AssetCall
<1>3. TaskInv(p, Done)
  BY <1>1, DoneTask
<1>4. ASSUME NEW quiet \in BOOLEAN, task[p].group # None
      PROVE  TaskInv(p, [pc |-> "each", quiet |-> quiet, group |-> task[p].group])
  BY <1>1, <1>2, <1>4, EachTask
<1>5. ASSUME NEW hash \in Content
      PROVE  TaskInv(p, Hashed(p, hash))
  <2>1. CASE task[p].group = None
    BY <1>3, <2>1 DEF Hashed
  <2>2. CASE task[p].group # None /\ task[p].group.hash = None
    <3>. DEFINE g == [task[p].group EXCEPT !.hash = hash]
    <3>1. g \in Group /\ g.left = task[p].group.left
      BY <1>2, <2>2 DEF Group
    <3>. HIDE DEF g
    <3>2. TaskInv(p, [pc |-> "list", quiet |-> task[p].quiet, group |-> g])
      BY <1>1, <1>2, <2>2, <3>1, EachTask
    <3>3. Hashed(p, hash) = [pc |-> "list", quiet |-> task[p].quiet, group |-> g]
      BY <2>2 DEF Hashed, g
    <3>. QED BY <3>2, <3>3
  <2>3. CASE task[p].group # None /\ task[p].group.hash # None
    BY <1>2, <1>4, <2>3 DEF Hashed
  <2>. QED BY <2>1, <2>2, <2>3
<1>. QED BY <1>3, <1>4, <1>5

LEMMA HashFailsStep ==
    ASSUME IndexInv, NEW p \in Process, task[p].pc \in {"row"} \cup RowPcs, HashFails(p),
           UNCHANGED <<fileVars, envVars>>
    PROVE  IndexInv'
<1>1. task[p].quiet \in BOOLEAN /\ task[p].pc # "done"
  BY AssetCall DEF RowPcs
<1>2. CASE task[p].group = None \/ task[p].group.hash = None
  BY <1>1, <1>2, AfterHash, ThoughtStep DEF HashFails
<1>3. CASE ~(task[p].group = None \/ task[p].group.hash = None)
  BY <1>1, <1>3, AfterHash, ThoughtStep DEF HashFails
<1>. QED BY <1>2, <1>3

LEMMA StartStep ==
    ASSUME IndexInv, NEW p \in Process, NEW id, StartHash(p, id) \/ StartGroup(p, id)
    PROVE  IndexInv'
<1>1. task[p].pc = "new"
  BY DEF StartHash, StartGroup, Starts, At
<1>2. /\ Seen(p) = current /\ writer # p /\ view[p] = None
      /\ TableInv(current) /\ RowIds(current) \subseteq Nat
  BY <1>1, ReaderSees DEF StoringPcs
<1>3. id \in RowIds(current) /\ id \in Nat /\ current.rows[id] \in IndexRow
  BY <1>2, TableTyped DEF StartHash, StartGroup, RowIds
<1>. DEFINE g == [target |-> id, row |-> current.rows[id], hash |-> None, left |-> {}]
            t(group) == [pc |-> "row", quiet |-> TRUE, asset |-> id, group |-> group]
<1>4. g \in Group /\ g.left = {}
  BY <1>3 DEF Group
<1>5. TaskInv(p, t(None)) /\ TaskInv(p, t(g))
  <2>. HIDE DEF g
  <2>. QED BY <1>2, <1>3, <1>4, AssetTaskIs
<1>6. /\ Become(p, t(None)) \/ Become(p, t(g))
      /\ UNCHANGED <<fileVars, envVars>>
  BY <1>2 DEF StartHash, StartGroup
<1>. HIDE DEF t, g
<1>. QED BY <1>1, <1>5, <1>6, ThoughtStep

LEMMA LookUpStep ==
    ASSUME IndexInv, NEW p \in Process, LookUp(p)
    PROVE  IndexInv'
<1>1. task[p].pc = "row" /\ UNCHANGED <<fileVars, envVars>>
  BY DEF LookUp, At
<1>2. Seen(p) = current /\ writer # p /\ view[p] = None /\ TableInv(current)
  BY <1>1, ReaderSees DEF StoringPcs
<1>3. /\ task[p].quiet \in BOOLEAN
      /\ task[p].asset \in RowIds(current) /\ task[p].asset \in Nat
      /\ task[p].group \in Group \cup {None}
      /\ task[p].group = None \/ task[p].group.left \subseteq RowIds(current)
  BY <1>1, <1>2, AssetCall, TableTyped DEF RowIds
<1>. DEFINE row == current.rows[task[p].asset]
            t == [pc |-> "check", quiet |-> task[p].quiet, group |-> task[p].group,
                  asset |-> task[p].asset, row |-> row]
<1>4. row \in IndexRow /\ row.ticks <= Now
  BY <1>2, <1>3, TableTyped DEF TableInv, RowInv, RowIds
<1>5. CASE HashFails(p)
  BY <1>1, <1>5, HashFailsStep
<1>6. CASE Become(p, t)
  <2>1. /\ t \in CheckTask /\ t.pc = "check" /\ t.asset = task[p].asset
        /\ t.group = task[p].group /\ t.row = row
    BY <1>3, <1>4 DEF CheckTask
  <2>. HIDE DEF t, row
  <2>2. TaskInv(p, t)
    BY <1>2, <1>3, <1>4, <2>1 DEF TaskInv, Task, StoringPcs, RowPcs
  <2>. QED BY <1>1, <1>6, <2>2, ThoughtStep
<1>. QED BY <1>2, <1>5, <1>6 DEF LookUp

\* A row that fits its file: the file is here, and no other has these ticks.
LEMMA FittingRow ==
    ASSUME FilesInv, NEW row \in IndexRow, Fits(row)
    PROVE  /\ row.path \in Path /\ files[row.path] # None
           /\ files[row.path].ticks = row.ticks
           /\ row.path \notin files[row.path].left
           /\ \A q \in Path : files[q] # None /\ files[q].ticks = row.ticks => q = row.path
BY DEF FilesInv, IndexRow, Fits, Readable

LEMMA CheckAssetStep ==
    ASSUME IndexInv, NEW p \in Process, CheckAsset(p)
    PROVE  IndexInv'
<1>1. task[p].pc = "check" /\ UNCHANGED <<fileVars, envVars>>
  BY DEF CheckAsset, At
<1>2. TaskInv(p, task[p]) /\ task[p] \in CheckTask /\ task[p].row \in IndexRow
  BY <1>1, TaskKinds DEF IndexInv, TasksInv, CheckTask
<1>3. CASE HashFails(p)
  BY <1>1, <1>3, HashFailsStep DEF RowPcs
<1>4. CASE task[p].row.digest # None /\ Become(p, Hashed(p, task[p].row.digest))
  <2>1. task[p].row.digest \in Content
    BY <1>2, <1>4 DEF IndexRow
  <2>. QED BY <1>1, <1>4, <2>1, AfterHash, ThoughtStep DEF RowPcs
<1>5. CASE Fits(task[p].row) /\ Become(p, [task[p] EXCEPT !.pc = "read"])
  <2>. DEFINE t == [task[p] EXCEPT !.pc = "read"]
  <2>1. /\ t \in CheckTask /\ t.pc = "read" /\ t.asset = task[p].asset
        /\ t.group = task[p].group /\ t.row = task[p].row
    BY <1>2 DEF CheckTask
  <2>2. Here(task[p].row.path, task[p].row.ticks)
    BY <1>2, <1>5, FittingRow DEF Here, IndexInv
  <2>3. Become(p, t)
    BY <1>5
  <2>. HIDE DEF t
  <2>4. TaskInv(p, t)
    BY <1>1, <1>2, <2>1, <2>2 DEF TaskInv, Task, StoringPcs, RowPcs
  <2>. QED BY <1>1, <2>3, <2>4, ThoughtStep
<1>. QED BY <1>3, <1>4, <1>5 DEF CheckAsset

LEMMA ReadAssetStep ==
    ASSUME IndexInv, NEW p \in Process, ReadAsset(p)
    PROVE  IndexInv'
<1>1. task[p].pc = "read" /\ UNCHANGED <<fileVars, envVars>>
  BY DEF ReadAsset, At
<1>2. TaskInv(p, task[p]) /\ task[p] \in CheckTask /\ task[p].row \in IndexRow
  BY <1>1, TaskKinds DEF IndexInv, TasksInv, CheckTask
<1>. DEFINE row == task[p].row
            hash == ReadFile(row.path)
            t == [pc |-> "again", quiet |-> task[p].quiet, group |-> task[p].group,
                  asset |-> task[p].asset, row |-> row, hash |-> hash]
<1>3. CASE HashFails(p)
  BY <1>1, <1>3, HashFailsStep DEF RowPcs
<1>4. CASE hash # None /\ Become(p, t)
  <2>1. /\ row.path \in Path /\ files[row.path] # None
        /\ hash = files[row.path].content /\ hash \in Content
    BY <1>2, <1>4 DEF ReadFile, Readable, IndexRow, IndexInv, FilesInv, File
  <2>2. Here(row.path, row.ticks)
    BY <1>1, <1>2 DEF TaskInv
  <2>3. Told(row.path, row.ticks, hash)
    BY <2>1, <2>2 DEF Here, Told
  <2>4. /\ t \in HashTask /\ t.pc = "again" /\ t.asset = task[p].asset
        /\ t.group = task[p].group /\ t.row = row /\ t.hash = hash
    BY <1>2, <1>4, <2>1 DEF CheckTask, HashTask
  <2>. HIDE DEF t, hash
  <2>5. TaskInv(p, t)
    BY <1>1, <1>2, <2>2, <2>3, <2>4 DEF TaskInv, Task, StoringPcs, RowPcs
  <2>. QED BY <1>1, <1>4, <2>5, ThoughtStep
<1>. QED BY <1>3, <1>4 DEF ReadAsset

LEMMA CheckAgainStep ==
    ASSUME IndexInv, NEW p \in Process, CheckAgain(p)
    PROVE  IndexInv'
<1>1. task[p].pc = "again" /\ UNCHANGED <<fileVars, envVars>>
  BY DEF CheckAgain, At
<1>2. TaskInv(p, task[p]) /\ task[p] \in HashTask /\ task[p].row \in IndexRow
  BY <1>1, TaskKinds DEF IndexInv, TasksInv, HashTask
<1>. DEFINE row == task[p].row
            t == [task[p] EXCEPT !.pc = "update"]
<1>3. CASE HashFails(p)
  BY <1>1, <1>3, HashFailsStep DEF RowPcs
<1>4. CASE Fits(row) /\ Become(p, t)
  <2>1. Told(row.path, row.ticks, task[p].hash)
    BY <1>1, <1>2 DEF TaskInv
  <2>2. task[p].hash # None
    BY <1>2 DEF HashTask
  <2>3. Certain(row.ticks, task[p].hash)
    <3>1. /\ row.path \in Path /\ files[row.path] # None
          /\ files[row.path].ticks = row.ticks
          /\ row.path \notin files[row.path].left
          /\ \A q \in Path : files[q] # None /\ files[q].ticks = row.ticks => q = row.path
      BY <1>2, <1>4, FittingRow DEF IndexInv
    <3>. QED BY <2>1, <2>2, <3>1 DEF Told, Certain
  <2>4. /\ t \in HashTask /\ t.pc = "update" /\ t.asset = task[p].asset
        /\ t.group = task[p].group /\ t.row = row /\ t.hash = task[p].hash
    BY <1>2 DEF HashTask
  <2>. HIDE DEF t
  <2>5. TaskInv(p, t)
    BY <1>1, <1>2, <2>3, <2>4 DEF TaskInv, Task, StoringPcs, RowPcs
  <2>. QED BY <1>1, <1>4, <2>5, ThoughtStep
<1>. QED BY <1>3, <1>4 DEF CheckAgain

LEMMA StoreDigestFailsStep ==
    ASSUME IndexInv, NEW p \in Process, StoreDigestFails(p)
    PROVE  IndexInv'
<1>1. task[p].pc = "update" /\ UNCHANGED <<fileVars, envVars>>
  BY DEF StoreDigestFails, At
<1>2. CASE task[p].group = None \/ task[p].group.hash = None
  BY <1>1, <1>2, AfterHash, ThoughtStep DEF StoreDigestFails, RowPcs
<1>3. CASE ~(task[p].group = None \/ task[p].group.hash = None)
  BY <1>1, <1>3, AfterHash, ThoughtStep DEF StoreDigestFails, RowPcs
<1>. QED BY <1>2, <1>3

\* The rest of duplicate_group.
LEMMA GroupStep ==
    ASSUME IndexInv, NEW p \in Process,
           ListCandidates(p) \/ NextCandidate(p) \/ CollectMatches(p)
    PROVE  IndexInv'
<1>1. task[p].pc \in {"list", "each"} /\ UNCHANGED <<fileVars, envVars>>
  BY DEF ListCandidates, NextCandidate, CollectMatches, At
<1>2. /\ Seen(p) = current /\ writer # p /\ view[p] = None
      /\ TaskInv(p, task[p]) /\ RowIds(current) \subseteq Nat
  BY <1>1, ReaderSees DEF StoringPcs
<1>3. /\ task[p] \in GroupTask /\ task[p].group \in Group /\ task[p].quiet \in BOOLEAN
      /\ task[p].group.left \subseteq RowIds(current)
  BY <1>1, <1>2, TaskKinds DEF TaskInv, GroupTask
<1>. DEFINE with(left) == [task[p].group EXCEPT !.left = left]
<1>4. ASSUME NEW left \in SUBSET RowIds(current)
      PROVE  with(left) \in Group /\ with(left).left = left
  BY <1>2, <1>3 DEF Group
<1>. HIDE DEF with
<1>5. CASE ListCandidates(p)
  <2>1. PICK left \in SUBSET RowIds(current) :
            Become(p, [pc |-> "each", quiet |-> task[p].quiet, group |-> with(left)])
    BY <1>2, <1>5 DEF ListCandidates, with
  <2>2. TaskInv(p, [pc |-> "each", quiet |-> task[p].quiet, group |-> with(left)])
    BY <1>2, <1>3, <1>4, EachTask
  <2>. QED BY <1>1, <2>1, <2>2, ThoughtStep
<1>6. CASE NextCandidate(p)
  <2>. DEFINE id == Min(task[p].group.left)
              left == task[p].group.left \ {id}
  <2>1. id \in task[p].group.left
    <3>1. task[p].group.left # {} /\ task[p].group.left \in SUBSET Nat
      BY <1>2, <1>3, <1>6 DEF NextCandidate
    <3>2. \E n \in task[p].group.left : \A m \in task[p].group.left : n <= m
      BY <3>1, LeastNat
    <3>. QED BY <3>2 DEF Min
  <2>2. Become(p, [pc |-> "row", quiet |-> task[p].quiet, asset |-> id,
                   group |-> with(left)])
    BY <1>6 DEF NextCandidate, with
  <2>. HIDE DEF id
  <2>3. id \in RowIds(current) /\ id \in Nat /\ left \in SUBSET RowIds(current)
    BY <1>2, <1>3, <2>1
  <2>. HIDE DEF left
  <2>4. with(left) \in Group \cup {None} /\ with(left).left \subseteq RowIds(current)
    BY <1>4, <2>3
  <2>5. TaskInv(p, [pc |-> "row", quiet |-> task[p].quiet, asset |-> id,
                    group |-> with(left)])
    BY <1>2, <1>3, <2>3, <2>4, AssetTaskIs
  <2>. QED BY <1>1, <2>2, <2>5, ThoughtStep
<1>7. CASE CollectMatches(p)
  <2>1. PICK members \in SUBSET Nat :
            Become(p, [pc |-> "answer", quiet |-> task[p].quiet,
                       target |-> task[p].group.target, members |-> members])
    <3>1. {} \in SUBSET Nat
      OBVIOUS
    <3>. QED BY <1>2, <1>7, <3>1 DEF CollectMatches
  <2>. DEFINE t == [pc |-> "answer", quiet |-> task[p].quiet,
                    target |-> task[p].group.target, members |-> members]
  <2>2. t \in AnswerTask /\ t.pc = "answer"
    BY <1>3 DEF Group, AnswerTask
  <2>. HIDE DEF t
  <2>3. TaskInv(p, t)
    BY <1>2, <2>2 DEF TaskInv, Task, StoringPcs, RowPcs
  <2>4. Become(p, t)
    BY <2>1 DEF t
  <2>. QED BY <1>1, <2>3, <2>4, ThoughtStep
<1>. QED BY <1>5, <1>6, <1>7

LEMMA ReturnStep ==
    ASSUME IndexInv, NEW p \in Process, Return(p)
    PROVE  IndexInv'
<1>1. task[p].pc = "answer" /\ UNCHANGED <<fileVars, envVars>> /\ Become(p, Done)
  BY DEF Return, At
<1>2. writer # p /\ view[p] = None
  BY <1>1, ReaderSees DEF StoringPcs
<1>. QED BY <1>1, <1>2, DoneTask, ThoughtStep

\* A statement on its own: who is reading is left behind.
LEMMA AutocommitStep ==
    ASSUME IndexInv, UNCHANGED envVars, NEW p \in Process, view[p] = None,
           NEW db, TableInv(db), Autocommit(p, db), db.generation = current.generation,
           RowIds(current) \subseteq RowIds(db),
           NEW t, TaskInv(p, t), BecomeDisturbing(p, t), task[p].pc # "done"
    PROVE  IndexInv'
<1>1. /\ writer = None /\ current' = db /\ behind' = behind \cup Overtaken(p)
      /\ UNCHANGED <<writer, draft, view>>
  BY DEF Autocommit, CanWrite
<1>2. UNCHANGED <<files, changes>> /\ Now' = Now
  BY DEF envVars, Now
<1>3. DatabaseInv'
  <2>1. TableInv(current)'
    BY <1>1, <1>2 DEF TableInv, RowInv, Told
  <2>2. \A q \in Process : view'[q] # None /\ q \notin behind' => view'[q] = current'
    BY <1>1 DEF Overtaken
  <2>3. behind' \subseteq {q \in Process : view'[q] # None}
    BY <1>1 DEF Overtaken, IndexInv, DatabaseInv
  <2>. QED BY <1>1, <2>1, <2>2, <2>3 DEF IndexInv, DatabaseInv
<1>4. TaskInv(p, t)'
  BY <1>1, OtherKept DEF RowIds
<1>. QED BY <1>1, <1>3, <1>4, ProcessStep DEF RowIds

LEMMA StoreDigestStep ==
    ASSUME IndexInv, NEW p \in Process, StoreDigest(p)
    PROVE  IndexInv'
<1>1. task[p].pc = "update" /\ UNCHANGED envVars
  BY DEF StoreDigest, At
<1>2. TaskInv(p, task[p]) /\ task[p] \in HashTask
  BY <1>1, TaskKinds DEF IndexInv, TasksInv
<1>3. view[p] = None /\ TableInv(current)
  BY <1>1, ReaderSees DEF StoringPcs
<1>. DEFINE id == task[p].asset
            hash == task[p].hash
            row == current.rows[id]
            new == [row EXCEPT !.digest = hash]
            db == [current EXCEPT !.rows[id].digest = hash]
<1>4. hash \in Content /\ Certain(task[p].row.ticks, hash) /\ id \in RowIds(current)
  BY <1>1, <1>2 DEF HashTask, TaskInv, RowPcs
<1>5. row.ticks = task[p].row.ticks /\ Autocommit(p, db) /\ BecomeDisturbing(p, Hashed(p, hash))
  BY DEF StoreDigest, SameRow
<1>6. /\ row \in IndexRow /\ RowInv(row) /\ current.rows \in Seq(IndexRow)
      /\ Len(current.rows) \in Nat /\ DOMAIN current.rows = 1..Len(current.rows)
  BY <1>3, <1>4, TableTyped DEF TableInv, RowIds
<1>7. /\ new \in IndexRow /\ new.path = row.path /\ new.ticks = row.ticks
      /\ new.seen = row.seen /\ new.meta = row.meta /\ new.digest = hash
  BY <1>4, <1>6 DEF IndexRow
<1>8. /\ db \in Database /\ db.generation = current.generation
      /\ db.rows = [current.rows EXCEPT ![id] = new]
  <2>1. /\ [current.rows EXCEPT ![id] = new] \in Seq(IndexRow)
    BY <1>4, <1>6, <1>7, ExceptSeq DEF RowIds
  <2>2. /\ db = [current EXCEPT !.rows = [current.rows EXCEPT ![id] = new]]
    OBVIOUS
  <2>. HIDE DEF db, new
  <2>. QED BY <1>3, <2>1, <2>2 DEF TableInv, Database
<1>. HIDE DEF db, new
<1>9. /\ DOMAIN db.rows = DOMAIN current.rows
      /\ \A i \in DOMAIN current.rows : db.rows[i] = IF i = id THEN new ELSE current.rows[i]
  BY <1>6, <1>8
<1>10. RowInv(new)
  BY <1>4, <1>5, <1>6, <1>7 DEF RowInv, Told, Certain
<1>11. TableInv(db)
  BY <1>3, <1>7, <1>8, <1>9, <1>10 DEF TableInv
<1>12. TaskInv(p, Hashed(p, hash))
  BY <1>1, <1>4, AfterHash DEF RowPcs
<1>. HIDE DEF hash
<1>. QED BY <1>1, <1>3, <1>5, <1>8, <1>9, <1>11, <1>12, AutocommitStep DEF RowIds


-----------------------------------------------------------------------------
(* refresh_root before its transaction.                                     *)

LEMMA AddRootStep ==
    ASSUME IndexInv, NEW p \in Process, AddRoot(p)
    PROVE  IndexInv'
<1>1. task[p].pc = "new" /\ UNCHANGED envVars
  BY DEF AddRoot, Starts, At
<1>2. writer # p /\ view[p] = None /\ TableInv(current)
  BY <1>1, ReaderSees DEF StoringPcs
<1>. DEFINE db == [current EXCEPT !.root = TRUE]
            t == [New EXCEPT !.pc = "root"]
<1>3. Autocommit(p, db) /\ BecomeDisturbing(p, t)
  BY DEF AddRoot
<1>4. /\ db \in Database /\ db.rows = current.rows /\ db.generation = current.generation
  BY <1>2 DEF TableInv, Database
<1>5. t \in IdleTask /\ t.pc = "root"
  BY DEF New, IdleTask
<1>. HIDE DEF db, t
<1>6. TableInv(db)
  BY <1>2, <1>4 DEF TableInv
<1>7. TaskInv(p, t)
  BY <1>2, <1>5 DEF TaskInv, Task, StoringPcs, RowPcs
<1>. QED BY <1>1, <1>2, <1>3, <1>4, <1>6, <1>7, AutocommitStep DEF RowIds

\* A call that ends leaves the index as it was before its transaction.
LEMMA GiveUpStep ==
    ASSUME IndexInv, NEW p \in Process, GiveUp(p), task[p].pc # "done"
    PROVE  IndexInv'
<1>1. /\ UNCHANGED envVars /\ Become(p, Done) /\ current' = current
      /\ view' = [view EXCEPT ![p] = None] /\ behind' = behind \ {p}
      /\ writer' = IF writer = p THEN None ELSE writer
      /\ draft' = IF writer = p THEN None ELSE draft
  BY DEF GiveUp, LetGo
<1>2. DatabaseInv
  BY DEF IndexInv
<1>3. UNCHANGED <<files, changes>> /\ Now' = Now
  BY <1>1 DEF envVars, Now
<1>4. p # None
  BY NoneAssumption
<1>5. \A q \in Process : view'[q] = IF q = p THEN None ELSE view[q]
  BY <1>1, <1>2 DEF DatabaseInv
<1>6. DatabaseInv'
  <2>1. TableInv(current)' /\ (writer' # None => TableInv(draft)')
    BY <1>1, <1>2, <1>3 DEF DatabaseInv, TableInv, RowInv, Told
  <2>2. view' \in [Process -> Database \cup {None}]
    BY <1>1, <1>2 DEF DatabaseInv
  <2>3. behind' \subseteq {q \in Process : view'[q] # None}
    BY <1>1, <1>2, <1>5 DEF DatabaseInv
  <2>4. \A q \in Process : view'[q] # None /\ q \notin behind' => view'[q] = current'
    BY <1>1, <1>2, <1>5 DEF DatabaseInv
  <2>. QED BY <1>1, <1>2, <2>1, <2>2, <2>3, <2>4 DEF DatabaseInv, RowIds
<1>7. TaskInv(p, Done)'
  <2>1. Done \in Task /\ Done.pc = "done"
    BY DEF Done, Task, IdleTask
  <2>. QED BY <1>1, <1>4, <1>5, <2>1 DEF TaskInv, StoringPcs, RowPcs
<1>8. \A q \in Process \ {p} : /\ writer' = q <=> writer = q
                               /\ view'[q] = view[q]
                               /\ writer = q => draft' = draft
  BY <1>1, <1>5, NoneAssumption
<1>. QED BY <1>1, <1>6, <1>7, <1>8, ProcessStep DEF RowIds

LEMMA StartRefreshStep ==
    ASSUME IndexInv, NEW p \in Process, StartRefresh(p)
    PROVE  IndexInv'
<1>1. task[p].pc = "root"
  BY DEF StartRefresh, At
<1>2. /\ Seen(p) = current /\ writer # p /\ p \notin behind /\ TableInv(current)
  BY <1>1, ReaderSees DEF StoringPcs
<1>. DEFINE t == [pc |-> "walk", quiet |-> TRUE, unvisited |-> WalkOrder, found |-> {},
                  generation |-> current.generation + 1]
<1>3. /\ UNCHANGED <<current, writer, draft, behind, envVars>> /\ Become(p, t)
      /\ view' = [view EXCEPT ![p] = current]
  BY <1>2 DEF StartRefresh, KeepReading
<1>4. DatabaseInv /\ current \in Database /\ current # None
  BY <1>2, NothingAssumption DEF IndexInv, TableInv
<1>5. \A q \in Process : view'[q] = IF q = p THEN current ELSE view[q]
  BY <1>3, <1>4 DEF DatabaseInv
<1>6. UNCHANGED <<files, changes>> /\ Now' = Now
  BY <1>3 DEF envVars, Now
<1>7. DatabaseInv'
  <2>1. TableInv(current)' /\ (writer' # None => TableInv(draft)')
    BY <1>3, <1>4, <1>6 DEF DatabaseInv, TableInv, RowInv, Told
  <2>2. view' \in [Process -> Database \cup {None}]
    BY <1>3, <1>4 DEF DatabaseInv
  <2>3. behind' \subseteq {q \in Process : view'[q] # None}
    BY <1>2, <1>3, <1>4, <1>5 DEF DatabaseInv
  <2>4. \A q \in Process : view'[q] # None /\ q \notin behind' => view'[q] = current'
    BY <1>3, <1>4, <1>5 DEF DatabaseInv
  <2>. QED BY <1>3, <1>4, <2>1, <2>2, <2>3, <2>4 DEF DatabaseInv, RowIds
<1>8. PICK u : u = t
  OBVIOUS
<1>9. u \in WalkTask /\ u.pc = "walk" /\ u.generation = current.generation + 1
  BY <1>4, <1>8, PathAssumption DEF WalkTask, Database
<1>10. Become(p, u)
  BY <1>3, <1>8
<1>. HIDE DEF t
<1>11. TaskInv(p, u)'
  BY <1>2, <1>3, <1>4, <1>5, <1>9 DEF TaskInv, Task, StoringPcs, RowPcs
<1>. QED BY <1>1, <1>3, <1>5, <1>7, <1>10, <1>11, ProcessStep DEF RowIds

LEMMA WalkStep ==
    ASSUME IndexInv, NEW p \in Process, Visit(p) \/ AbandonWalk(p)
    PROVE  IndexInv'
<1>1. /\ task[p].pc = "walk" /\ UNCHANGED <<fileVars, envVars>>
      /\ task[p].unvisited # <<>>
  BY DEF Visit, AbandonWalk, At
<1>2. TaskInv(p, task[p]) /\ task[p] \in WalkTask /\ FilesInv
  BY <1>1, TaskKinds DEF IndexInv, TasksInv
<1>3. ASSUME NEW t \in WalkTask, t.pc = "walk", t.generation = task[p].generation,
             Become(p, t)
      PROVE  IndexInv'
  <2>1. TaskInv(p, t)
    BY <1>1, <1>2, <1>3 DEF TaskInv, Task, StoringPcs, RowPcs
  <2>. QED BY <1>1, <1>3, <2>1, ThoughtStep
<1>4. CASE AbandonWalk(p)
  <2>. DEFINE t == [task[p] EXCEPT !.unvisited = <<>>, !.quiet = FALSE]
  <2>0. <<>> \in Seq(Path)
    BY EmptySeq
  <2>1. t \in WalkTask /\ t.pc = "walk" /\ t.generation = task[p].generation
    BY <1>1, <1>2, <2>0 DEF WalkTask
  <2>2. Become(p, t)
    BY <1>4 DEF AbandonWalk
  <2>. HIDE DEF t
  <2>. QED BY <1>3, <2>1, <2>2
<1>5. CASE Visit(p)
  <2>. DEFINE path == Head(task[p].unvisited)
              entry == [path |-> path, size |-> SizeOf[files[path].content]]
              found == IF Readable(path) THEN task[p].found \cup {entry} ELSE task[p].found
              t == [task[p] EXCEPT !.unvisited = Tail(@), !.found = found]
  <2>1. /\ path \in Path /\ Tail(task[p].unvisited) \in Seq(Path)
    BY <1>1, <1>2, HeadTailProperties DEF WalkTask
  <2>2. Readable(path) => entry \in Found
    <3>1. Readable(path) => files[path].content \in Content
      BY <1>2, <2>1 DEF FilesInv, File, Readable
    <3>. QED BY <2>1, <3>1 DEF Found
  <2>. HIDE DEF entry
  <2>3. found \in SUBSET Found
    BY <1>2, <2>2 DEF WalkTask
  <2>4. Become(p, t)
    BY <1>5 DEF Visit, entry
  <2>. HIDE DEF found, path
  <2>5. t \in WalkTask /\ t.pc = "walk" /\ t.generation = task[p].generation
    BY <1>1, <1>2, <2>1, <2>3 DEF WalkTask
  <2>. HIDE DEF t
  <2>. QED BY <1>3, <2>4, <2>5
<1>. QED BY <1>4, <1>5

LEMMA BeginStoreStep ==
    ASSUME IndexInv, NEW p \in Process, BeginStore(p)
    PROVE  IndexInv'
<1>1. task[p].pc = "walk" /\ UNCHANGED envVars
  BY DEF BeginStore, At
<1>2. /\ TaskInv(p, task[p]) /\ task[p] \in WalkTask /\ DatabaseInv
      /\ TableInv(current) /\ current \in Database
  BY <1>1, TaskKinds DEF IndexInv, TasksInv, DatabaseInv, TableInv
<1>. DEFINE g == task[p].generation
            db == [current EXCEPT !.generation = g]
            t == [pc |-> "next", quiet |-> task[p].quiet, generation |-> g,
                  queue |-> task[p].found]
<1>3. /\ writer = None /\ p \notin behind /\ writer' = p /\ draft' = db
      /\ UNCHANGED <<current, view, behind>> /\ Become(p, t)
  BY DEF BeginStore, BeginWith, CanWrite
<1>4. g = current.generation + 1 /\ current.generation \in Nat
  BY <1>1, <1>2, <1>3 DEF TaskInv, DatabaseInv, Database
<1>5. db \in Database /\ db.rows = current.rows /\ db.generation = g
  BY <1>2, <1>4 DEF Database
<1>0. PICK u : u = t
  OBVIOUS
<1>6. u \in NextTask /\ u.pc = "next" /\ u.generation = g /\ Become(p, u)
  BY <1>0, <1>2, <1>3 DEF WalkTask, NextTask
<1>. HIDE DEF db, t, g
<1>7. UNCHANGED <<files, changes>> /\ Now' = Now
  BY <1>1 DEF envVars, Now
<1>8. TableInv(db)
  <2>1. \A i \in DOMAIN current.rows : current.rows[i].seen \in Nat
    BY <1>2, TableTyped DEF IndexRow
  <2>2. \A n \in Nat : n <= current.generation => n <= g
    BY <1>4
  <2>. QED BY <1>2, <1>5, <2>1, <2>2 DEF TableInv
<1>9. DatabaseInv'
  <2>1. TableInv(current)' /\ TableInv(draft)'
    BY <1>2, <1>3, <1>7, <1>8 DEF TableInv, RowInv, Told
  <2>. QED BY <1>2, <1>3, <1>4, <1>5, <2>1, NoneAssumption DEF DatabaseInv, RowIds
<1>10. TaskInv(p, u)'
  BY <1>3, <1>5, <1>6 DEF TaskInv, Task, StoringPcs, RowPcs
<1>11. \A q \in Process \ {p} : /\ writer' = q <=> writer = q
                                /\ view'[q] = view[q]
                                /\ writer = q => draft' = draft
  BY <1>3, NoneAssumption
<1>. QED BY <1>1, <1>3, <1>6, <1>9, <1>10, <1>11, ProcessStep DEF RowIds

-----------------------------------------------------------------------------
(* refresh_root's transaction.                                              *)

\* What holds of a call in its transaction.
LEMMA StoringCall ==
    ASSUME IndexInv, NEW p \in Process, task[p].pc \in StoringPcs
    PROVE  /\ TaskInv(p, task[p]) /\ task[p] \in Task /\ FilesInv
           /\ writer = p /\ p # None /\ TableInv(draft)
           /\ task[p].quiet \in BOOLEAN
           /\ task[p].generation \in Nat /\ task[p].generation = draft.generation
           /\ draft.generation = current.generation + 1
           /\ RowIds(current) \subseteq RowIds(draft)
           /\ task[p].queue \in SUBSET Found
<1>1. TaskInv(p, task[p]) /\ task[p] \in Task
  BY DEF IndexInv, TasksInv
<1>2. /\ task[p].queue \in SUBSET Found /\ task[p].generation \in Nat
      /\ task[p].quiet \in BOOLEAN
  <2>1. CASE task[p].pc = "next"
    BY <1>1, <2>1, TaskKinds DEF NextTask
  <2>2. CASE task[p].pc \in {"hash", "parse"}
    BY <1>1, <2>2, TaskKinds DEF StoreTask
  <2>. QED BY <2>1, <2>2 DEF StoringPcs
<1>3. writer = p /\ p # None
  BY <1>1, NoneAssumption DEF TaskInv
<1>. QED BY <1>1, <1>2, <1>3 DEF IndexInv, DatabaseInv, TaskInv

\* The transaction goes on with other tables.
LEMMA EditStep ==
    ASSUME IndexInv, UNCHANGED envVars, NEW p \in Process, task[p].pc \in StoringPcs,
           NEW db, Edit(p, db), TableInv(db), db.generation = draft.generation,
           RowIds(draft) \subseteq RowIds(db),
           NEW t \in NextTask, t.generation = task[p].generation, Become(p, t)
    PROVE  IndexInv'
<1>1. /\ writer = p /\ p # None /\ task[p].generation = draft.generation /\ DatabaseInv
      /\ draft.generation = current.generation + 1
      /\ RowIds(current) \subseteq RowIds(draft)
  BY StoringCall DEF IndexInv
<1>2. draft' = db /\ UNCHANGED <<current, writer, view, behind>>
  BY DEF Edit
<1>3. UNCHANGED <<files, changes>> /\ Now' = Now
  BY DEF envVars, Now
<1>4. DatabaseInv'
  <2>1. TableInv(current)' /\ TableInv(draft)'
    BY <1>1, <1>2, <1>3 DEF DatabaseInv, TableInv, RowInv, Told
  <2>. QED BY <1>1, <1>2, <2>1 DEF DatabaseInv, RowIds
<1>5. TaskInv(p, t)'
  <2>1. t.pc = "next"
    BY DEF NextTask
  <2>. QED BY <1>1, <1>2, <2>1 DEF TaskInv, Task, StoringPcs, RowPcs
<1>6. \A q \in Process \ {p} : /\ writer' = q <=> writer = q
                               /\ view'[q] = view[q]
                               /\ writer = q => draft' = draft
  BY <1>1, <1>2
<1>7. task[p].pc # "done"
  BY DEF StoringPcs
<1>. QED BY <1>2, <1>4, <1>5, <1>6, <1>7, ProcessStep DEF RowIds

\* Tables with other rows.
LEMMA WithRows ==
    ASSUME NEW db, TableInv(db), NEW n \in Nat, NEW rows \in [1..n -> IndexRow],
           \A i, j \in 1..n : rows[i].path = rows[j].path => i = j,
           \A i \in 1..n : rows[i].seen <= db.generation /\ RowInv(rows[i])
    PROVE  /\ TableInv([db EXCEPT !.rows = rows])
           /\ [db EXCEPT !.rows = rows].generation = db.generation
           /\ RowIds([db EXCEPT !.rows = rows]) = 1..n
           /\ [db EXCEPT !.rows = rows].rows = rows
<1>. DEFINE d == [db EXCEPT !.rows = rows]
<1>1. rows \in Seq(IndexRow) /\ DOMAIN rows = 1..n
  BY SeqDef
<1>2. d \in Database /\ d.rows = rows /\ d.generation = db.generation
  BY <1>1 DEF TableInv, Database
<1>3. TableInv(d) /\ RowIds(d) = 1..n
  <2>. HIDE DEF d
  <2>. QED BY <1>1, <1>2 DEF TableInv, RowIds
<1>. QED BY <1>2, <1>3

Written(db, k, new) == [db EXCEPT !.rows = [i \in RowIds(db) \cup {k} |->
                                              IF i \in {k} THEN new ELSE db.rows[i]]]

LEMMA WrittenRows ==
    ASSUME NEW db, TableInv(db), NEW k, NEW new
    PROVE  /\ RowIds(Written(db, k, new)) = RowIds(db) \cup {k}
           /\ \A i \in RowIds(db) \cup {k} :
                  Written(db, k, new).rows[i] = IF i = k THEN new ELSE db.rows[i]
BY DEF Written, TableInv, Database, RowIds

\* One row is written, at a path that no other row has.
LEMMA RowWritten ==
    ASSUME NEW db, TableInv(db), NEW k \in RowIds(db) \cup {Len(db.rows) + 1},
           NEW new \in IndexRow, new.seen <= db.generation, RowInv(new),
           \A i \in RowIds(db) : db.rows[i].path = new.path => i = k
    PROVE  /\ TableInv(Written(db, k, new))
           /\ Written(db, k, new).generation = db.generation
           /\ RowIds(db) \subseteq RowIds(Written(db, k, new))
<1>. DEFINE rows == [i \in RowIds(db) \cup {k} |-> IF i \in {k} THEN new ELSE db.rows[i]]
<1>1. /\ Len(db.rows) \in Nat /\ RowIds(db) = 1..Len(db.rows)
      /\ \A i \in RowIds(db) : db.rows[i] \in IndexRow
  BY TableTyped DEF RowIds
<1>2. PICK n \in Nat : RowIds(db) \cup {k} = 1..n
  <2>1. CASE k \in RowIds(db)
    BY <1>1, <2>1
  <2>2. CASE k = Len(db.rows) + 1
    <3>1. \A m \in Nat : (1..m) \cup {m + 1} = 1..(m + 1) /\ m + 1 \in Nat
      OBVIOUS
    <3>. QED BY <1>1, <2>2, <3>1
  <2>. QED BY <2>1, <2>2
<1>3. rows \in [1..n -> IndexRow]
  BY <1>1, <1>2
<1>4. \A i \in 1..n : rows[i] = IF i = k THEN new ELSE db.rows[i]
  BY <1>2
<1>5. \A i \in 1..n : i # k => i \in RowIds(db)
  BY <1>2
<1>6. Written(db, k, new) = [db EXCEPT !.rows = rows]
  BY DEF Written
<1>. HIDE DEF rows
<1>7. \A i, j \in 1..n : rows[i].path = rows[j].path => i = j
  BY <1>4, <1>5 DEF TableInv, RowIds
<1>8. \A i \in 1..n : rows[i].seen <= db.generation /\ RowInv(rows[i])
  BY <1>4, <1>5 DEF TableInv, RowIds
<1>9. PICK e : e = [db EXCEPT !.rows = rows]
  OBVIOUS
<1>10. TableInv(e) /\ e.generation = db.generation /\ RowIds(e) = 1..n
  BY <1>3, <1>7, <1>8, <1>9, WithRows
<1>. QED BY <1>2, <1>6, <1>9, <1>10

\* The first of the queue.
LEMMA ScannedFile ==
    ASSUME IndexInv, NEW p \in Process, task[p].pc \in StoringPcs, task[p].queue # {}
    PROVE  /\ Scanned(p) = FirstOf(task[p].queue)
           /\ Scanned(p).path \in Path /\ Scanned(p).size \in {SizeOf[c] : c \in Content}
           /\ Rest(p) \in SUBSET Found
           /\ files[Scanned(p).path] # None =>
                  /\ files[Scanned(p).path] \in File
                  /\ files[Scanned(p).path].ticks <= Now
                  /\ Here(Scanned(p).path, files[Scanned(p).path].ticks)
<1>1. task[p].queue \in SUBSET Found /\ FilesInv
  BY StoringCall
<1>2. Scanned(p) \in Found
  BY <1>1, FirstIsFound DEF Scanned
<1>3. Scanned(p).path \in Path /\ Scanned(p).size \in {SizeOf[c] : c \in Content}
  BY <1>2 DEF Found
<1>4. \A q \in Path : files[q] # None => /\ files[q] \in File /\ files[q].ticks <= Now
                                         /\ Here(q, files[q].ticks)
  BY <1>1 DEF FilesInv, Here
<1>. QED BY <1>1, <1>3, <1>4 DEF Scanned, Rest

LEMMA ExamineStep ==
    ASSUME IndexInv, NEW p \in Process, Examine(p)
    PROVE  IndexInv'
<1>1. /\ task[p].pc = "next" /\ task[p].pc \in StoringPcs /\ task[p].queue # {}
      /\ UNCHANGED envVars /\ files[Scanned(p).path] # None
  BY DEF Examine, At, StoringPcs, Readable
<1>2. /\ TaskInv(p, task[p]) /\ task[p] \in NextTask
      /\ writer = p /\ TableInv(draft) /\ task[p].quiet \in BOOLEAN
      /\ task[p].generation \in Nat /\ task[p].generation = draft.generation
      /\ task[p].queue \in SUBSET Found
  BY <1>1, StoringCall, TaskKinds
<1>3. /\ Scanned(p) = FirstOf(task[p].queue) /\ Scanned(p).path \in Path
      /\ Rest(p) \in SUBSET Found /\ files[Scanned(p).path] \in File
      /\ files[Scanned(p).path].ticks <= Now
      /\ Here(Scanned(p).path, files[Scanned(p).path].ticks)
  BY <1>1, ScannedFile
<1>. DEFINE path == Scanned(p).path
            ids == RowAt(draft, path)
            fits == {id \in ids : Unchanged(p, draft.rows[id])}
            rows == [id \in RowIds(draft) |->
                        IF id \in fits
                        THEN [draft.rows[id] EXCEPT !.seen = task[p].generation]
                        ELSE draft.rows[id]]
            touched == [draft EXCEPT !.rows = rows]
            t == [pc |-> IF ids = {} /\ Candidates(p) # {} THEN "hash" ELSE "parse",
                  quiet |-> task[p].quiet,
                  generation |-> task[p].generation,
                  queue |-> task[p].queue,
                  ticks |-> files[path].ticks,
                  candidates |-> IF ids = {} THEN Candidates(p) ELSE {},
                  digest |-> None]
<1>4. \/ Edit(p, touched) /\ Become(p, [task[p] EXCEPT !.queue = Rest(p)])
      \/ Become(p, t) /\ UNCHANGED fileVars
  BY DEF Examine
<1>5. CASE Edit(p, touched) /\ Become(p, [task[p] EXCEPT !.queue = Rest(p)])
  <2>1. PICK n \in Nat : RowIds(draft) = 1..n
    BY <1>2, TableTyped DEF RowIds
  <2>2. \A i \in 1..n : draft.rows[i] \in IndexRow
    BY <1>2, <2>1, TableTyped DEF RowIds
  <2>3. \A i \in 1..n : /\ rows[i] \in IndexRow /\ rows[i].path = draft.rows[i].path
                        /\ rows[i].ticks = draft.rows[i].ticks
                        /\ rows[i].digest = draft.rows[i].digest
                        /\ rows[i].meta = draft.rows[i].meta
                        /\ rows[i].seen \in {draft.rows[i].seen, draft.generation}
    <3>. HIDE DEF fits
    <3>. QED BY <1>2, <2>1, <2>2 DEF IndexRow
  <2>4. rows \in [1..n -> IndexRow]
    BY <2>1, <2>3
  <2>. HIDE DEF rows
  <2>5. \A i, j \in 1..n : rows[i].path = rows[j].path => i = j
    BY <1>2, <2>1, <2>3 DEF TableInv, RowIds
  <2>6. \A i \in 1..n : rows[i].seen <= draft.generation /\ RowInv(rows[i])
    BY <1>2, <2>1, <2>3 DEF TableInv, RowIds, RowInv
  <2>7. /\ TableInv(touched) /\ touched.generation = draft.generation
        /\ RowIds(touched) = RowIds(draft)
    BY <1>2, <2>1, <2>4, <2>5, <2>6, WithRows
  <2>8. PICK u : u = [task[p] EXCEPT !.queue = Rest(p)]
    OBVIOUS
  <2>9. u \in NextTask /\ u.generation = task[p].generation
    BY <1>2, <1>3, <2>8 DEF NextTask
  <2>10. PICK db : db = touched
    OBVIOUS
  <2>. HIDE DEF touched
  <2>. QED BY <1>1, <1>5, <2>7, <2>8, <2>9, <2>10, EditStep
<1>6. CASE Become(p, t) /\ UNCHANGED fileVars
  <2>1. Candidates(p) \subseteq RowIds(draft) /\ RowIds(draft) \subseteq Nat
    BY <1>2, TableTyped DEF Candidates, RowIds
  <2>2. PICK pc \in {"hash", "parse"}, candidates \in SUBSET RowIds(draft) :
            /\ candidates # {} => ids = {}
            /\ t = [pc |-> pc, quiet |-> task[p].quiet, generation |-> task[p].generation,
                    queue |-> task[p].queue, ticks |-> files[path].ticks,
                    candidates |-> candidates, digest |-> None]
    <3>. DEFINE pcIs == IF ids = {} /\ Candidates(p) # {} THEN "hash" ELSE "parse"
                known == IF ids = {} THEN Candidates(p) ELSE {}
    <3>1. pcIs \in {"hash", "parse"} /\ known \in SUBSET RowIds(draft)
      BY <2>1
    <3>2. known # {} => ids = {}
      OBVIOUS
    <3>3. t = [pc |-> pcIs, quiet |-> task[p].quiet, generation |-> task[p].generation,
               queue |-> task[p].queue, ticks |-> files[path].ticks,
               candidates |-> known, digest |-> None]
      OBVIOUS
    <3>. HIDE DEF pcIs, known, ids, t
    <3>. QED BY <3>1, <3>2, <3>3
  <2>3. PICK u : u = t
    OBVIOUS
  <2>4. Become(p, u)
    BY <1>6, <2>3
  <2>. HIDE DEF t
  <2>7. files[path].ticks \in Ticks
    BY <1>3 DEF File
  <2>8. /\ u \in StoreTask /\ u.pc \in {"hash", "parse"}
        /\ u.generation = task[p].generation /\ u.queue = task[p].queue
        /\ u.ticks = files[path].ticks /\ u.candidates = candidates
        /\ u.digest = None
    BY <1>2, <2>1, <2>2, <2>3, <2>7 DEF StoreTask
  <2>5. Told(path, u.ticks, None)
    BY DEF Told
  <2>6. TaskInv(p, u)
    BY <1>1, <1>2, <1>3, <2>2, <2>5, <2>8 DEF TaskInv, Task, StoringPcs, RowPcs
  <2>. QED BY <1>1, <1>6, <2>4, <2>6, ThoughtStep
<1>. QED BY <1>4, <1>5, <1>6

\* What is read of a file that is here is what its ticks tell.
LEMMA ReadTells ==
    ASSUME FilesInv, NEW path \in Path, NEW ticks, Here(path, ticks)
    PROVE  /\ Told(path, ticks, ReadFile(path))
           /\ ReadFile(path) \in Content \cup {None}
BY DEF FilesInv, File, Here, Told, ReadFile, Readable

LEMMA HashCandidateStep ==
    ASSUME IndexInv, NEW p \in Process, HashCandidate(p)
    PROVE  IndexInv'
<1>1. /\ task[p].pc = "hash" /\ task[p].pc \in StoringPcs
      /\ UNCHANGED <<fileVars, envVars>>
  BY DEF HashCandidate, At, StoringPcs
<1>2. /\ TaskInv(p, task[p]) /\ task[p] \in StoreTask /\ FilesInv
  BY <1>1, StoringCall, TaskKinds
<1>3. task[p].queue # {} /\ Here(FirstOf(task[p].queue).path, task[p].ticks)
  BY <1>1, <1>2 DEF TaskInv
<1>4. Scanned(p) = FirstOf(task[p].queue) /\ Scanned(p).path \in Path
  BY <1>1, <1>3, ScannedFile
<1>5. PICK digest \in Content \cup {None} :
          /\ digest = ReadFile(Scanned(p).path)
          /\ Told(Scanned(p).path, task[p].ticks, digest)
  BY <1>2, <1>3, <1>4, ReadTells
<1>6. PICK t : t = [task[p] EXCEPT !.pc = "parse", !.digest = digest]
  OBVIOUS
<1>7. /\ t \in StoreTask /\ t.pc = "parse" /\ t.generation = task[p].generation
      /\ t.queue = task[p].queue /\ t.ticks = task[p].ticks
      /\ t.candidates = task[p].candidates /\ t.digest = digest
  BY <1>2, <1>6 DEF StoreTask
<1>8. Become(p, t)
  BY <1>5, <1>6 DEF HashCandidate
<1>9. TaskInv(p, t)
  BY <1>1, <1>2, <1>4, <1>5, <1>7 DEF TaskInv, Task, StoringPcs, RowPcs
<1>. QED BY <1>1, <1>8, <1>9, ThoughtStep

\* The row that StoreRow writes: one, and no other has the path.
StoreAt(p) == IF Recovered(p) # {} THEN Recovered(p)
              ELSE IF RowAt(draft, Scanned(p).path) # {}
              THEN RowAt(draft, Scanned(p).path)
              ELSE {Len(draft.rows) + 1}

LEMMA StoreTarget ==
    ASSUME IndexInv, NEW p \in Process, task[p].pc = "parse"
    PROVE  \E k \in RowIds(draft) \cup {Len(draft.rows) + 1} :
               /\ StoreAt(p) = {k}
               /\ \A i \in RowIds(draft) : draft.rows[i].path = Scanned(p).path => i = k
               /\ k \in Recovered(p) => draft.rows[k].digest = task[p].digest
<1>1. task[p].pc \in StoringPcs
  BY DEF StoringPcs
<1>2. TaskInv(p, task[p]) /\ TableInv(draft) /\ RowIds(draft) \subseteq Nat
  BY <1>1, StoringCall, TableTyped DEF RowIds
<1>3. /\ task[p].candidates \subseteq RowIds(draft)
      /\ task[p].candidates # {} => RowAt(draft, Scanned(p).path) = {}
  BY <1>2 DEF TaskInv, Scanned
<1>4. \A i, j \in RowIds(draft) : draft.rows[i].path = draft.rows[j].path => i = j
  BY <1>2 DEF TableInv, RowIds
<1>5. \A i \in Recovered(p) : i \in task[p].candidates /\ draft.rows[i].digest = task[p].digest
  BY DEF Recovered, Matches
<1>6. CASE Recovered(p) # {}
  <2>1. Recovered(p) = Matches(p) /\ Cardinality(Matches(p)) = 1
    BY <1>6 DEF Recovered
  <2>2. IsFiniteSet(Matches(p))
    <3>1. Matches(p) \in SUBSET RowIds(draft)
      BY <1>3 DEF Matches
    <3>2. IsFiniteSet(RowIds(draft))
      BY <1>2, TableTyped, FS_Interval DEF RowIds
    <3>. QED BY <3>1, <3>2, FS_Subset
  <2>3. \E k : Matches(p) = {k}
    BY <2>1, <2>2, FS_Singleton
  <2>4. PICK k : Recovered(p) = {k}
    BY <2>1, <2>3
  <2>5. k \in RowIds(draft) /\ RowAt(draft, Scanned(p).path) = {}
    BY <1>3, <1>5, <2>4
  <2>. QED BY <1>5, <1>6, <2>4, <2>5 DEF RowAt, StoreAt
<1>7. CASE Recovered(p) = {} /\ RowAt(draft, Scanned(p).path) # {}
  <2>1. PICK k \in RowIds(draft) : k \in RowAt(draft, Scanned(p).path)
    BY <1>7 DEF RowAt
  <2>2. RowAt(draft, Scanned(p).path) = {k}
    BY <1>4, <2>1 DEF RowAt
  <2>. QED BY <1>4, <1>7, <2>1, <2>2 DEF RowAt, StoreAt
<1>8. CASE Recovered(p) = {} /\ RowAt(draft, Scanned(p).path) = {}
  BY <1>8 DEF RowAt, StoreAt
<1>. QED BY <1>6, <1>7, <1>8

LEMMA StoreRowWrites ==
    ASSUME IndexInv, NEW p \in Process, StoreRow(p)
    PROVE  \E k \in RowIds(draft) \cup {Len(draft.rows) + 1} : \E new :
               /\ StoreAt(p) = {k}
               /\ \A i \in RowIds(draft) : draft.rows[i].path = Scanned(p).path => i = k
               /\ k \in Recovered(p) => draft.rows[k].digest = task[p].digest
               /\ new = RowOf(Scanned(p).path, Scanned(p).size, task[p].ticks,
                              ReadFile(Scanned(p).path), task[p].generation, task[p].digest)
               /\ Edit(p, Written(draft, k, new))
<1>1. task[p].pc = "parse"
  BY DEF StoreRow, At
<1>. DEFINE digest(id) == IF id \in Recovered(p) THEN draft.rows[id].digest
                          ELSE task[p].digest
            row(id)    == RowOf(Scanned(p).path, Scanned(p).size, task[p].ticks,
                                ReadFile(Scanned(p).path), task[p].generation, digest(id))
            after(T)   == [draft EXCEPT !.rows =
                             [id \in RowIds(draft) \cup T |->
                                 IF id \in T THEN row(id) ELSE draft.rows[id]]]
<1>2. Edit(p, after(StoreAt(p)))
  BY DEF StoreRow, StoreAt
<1>3. PICK k \in RowIds(draft) \cup {Len(draft.rows) + 1} :
               /\ StoreAt(p) = {k}
               /\ \A i \in RowIds(draft) : draft.rows[i].path = Scanned(p).path => i = k
               /\ k \in Recovered(p) => draft.rows[k].digest = task[p].digest
  BY <1>1, StoreTarget
<1>4. PICK new : new = row(k)
  OBVIOUS
<1>5. digest(k) = task[p].digest
  BY <1>3
<1>6. Written(draft, k, new) = after({k})
  <2>1. \A i \in {k} : row(i) = new
    BY <1>4
  <2>. HIDE DEF row
  <2>. QED BY <2>1 DEF Written
<1>. HIDE DEF after, digest
<1>. QED BY <1>2, <1>3, <1>4, <1>5, <1>6

LEMMA StoreRowStep ==
    ASSUME IndexInv, NEW p \in Process, StoreRow(p)
    PROVE  IndexInv'
<1>1. /\ task[p].pc = "parse" /\ task[p].pc \in StoringPcs /\ UNCHANGED envVars
  BY DEF StoreRow, At, StoringPcs
<1>2. /\ TaskInv(p, task[p]) /\ task[p] \in StoreTask /\ FilesInv /\ TableInv(draft)
      /\ task[p].quiet \in BOOLEAN /\ task[p].generation \in Nat
      /\ task[p].generation = draft.generation
  BY <1>1, StoringCall, TaskKinds
<1>3. /\ task[p].queue # {} /\ task[p].ticks <= Now /\ task[p].ticks \in Ticks
      /\ Here(FirstOf(task[p].queue).path, task[p].ticks)
      /\ Told(FirstOf(task[p].queue).path, task[p].ticks, task[p].digest)
      /\ task[p].digest \in Content \cup {None}
  BY <1>1, <1>2 DEF TaskInv, StoreTask
<1>4. /\ Scanned(p) = FirstOf(task[p].queue) /\ Scanned(p).path \in Path
      /\ Scanned(p).size \in {SizeOf[c] : c \in Content} /\ Rest(p) \in SUBSET Found
  BY <1>1, <1>3, ScannedFile
<1>5. PICK meta \in Content \cup {None} :
          /\ meta = ReadFile(Scanned(p).path)
          /\ Told(Scanned(p).path, task[p].ticks, meta)
  BY <1>2, <1>3, <1>4, ReadTells
<1>0. PICK k \in RowIds(draft) \cup {Len(draft.rows) + 1} : \E new :
          /\ \A i \in RowIds(draft) : draft.rows[i].path = Scanned(p).path => i = k
          /\ new = RowOf(Scanned(p).path, Scanned(p).size, task[p].ticks,
                         ReadFile(Scanned(p).path), task[p].generation, task[p].digest)
          /\ Edit(p, Written(draft, k, new))
  BY StoreRowWrites
<1>6. PICK new :
          /\ \A i \in RowIds(draft) : draft.rows[i].path = Scanned(p).path => i = k
          /\ new = RowOf(Scanned(p).path, Scanned(p).size, task[p].ticks,
                         ReadFile(Scanned(p).path), task[p].generation, task[p].digest)
          /\ Edit(p, Written(draft, k, new))
  BY <1>0
<1>7. /\ new \in IndexRow /\ new.path = Scanned(p).path /\ new.ticks = task[p].ticks
      /\ new.digest = task[p].digest /\ new.meta = meta /\ new.seen = draft.generation
  BY <1>2, <1>3, <1>4, <1>5, <1>6 DEF RowOf, IndexRow
<1>8. RowInv(new)
  BY <1>3, <1>4, <1>5, <1>7 DEF RowInv
<1>9. draft.generation \in Nat /\ new.seen <= draft.generation
  BY <1>2, <1>7
<1>10. \A i \in RowIds(draft) : draft.rows[i].path = new.path => i = k
  BY <1>6, <1>7
<1>11. PICK db : db = Written(draft, k, new)
  OBVIOUS
<1>12. /\ TableInv(db) /\ db.generation = draft.generation
       /\ RowIds(draft) \subseteq RowIds(db)
  BY <1>2, <1>6, <1>7, <1>8, <1>9, <1>10, <1>11, RowWritten
<1>13. PICK t : t = [pc |-> "next", quiet |-> task[p].quiet,
                     generation |-> task[p].generation, queue |-> Rest(p)]
  OBVIOUS
<1>14. t \in NextTask /\ t.generation = task[p].generation /\ Become(p, t)
  BY <1>2, <1>4, <1>13 DEF NextTask, StoreRow
<1>. QED BY <1>1, <1>6, <1>11, <1>12, <1>14, EditStep

LEMMA FinishRefreshStep ==
    ASSUME IndexInv, NEW p \in Process, FinishRefresh(p)
    PROVE  /\ IndexInv'
           /\ current'.generation = current.generation + 1
           /\ RowIds(current) \subseteq RowIds(current')
<1>1. task[p].pc \in StoringPcs /\ UNCHANGED envVars /\ task[p].pc # "done"
  BY DEF FinishRefresh, At, StoringPcs
<1>2. /\ writer = p /\ p # None /\ TableInv(draft)
      /\ draft.generation = current.generation + 1
      /\ RowIds(current) \subseteq RowIds(draft) /\ DatabaseInv
  BY <1>1, StoringCall DEF IndexInv
<1>. DEFINE rows == [id \in RowIds(draft) |->
                       [draft.rows[id] EXCEPT
                          !.missing = @ \/ Unseen(draft.rows[id], task[p].generation)]]
            db == [draft EXCEPT !.rows = rows]
<1>3. CommitAs(p, db) /\ BecomeDisturbing(p, Done)
  BY DEF FinishRefresh
<1>4. PICK n \in Nat : RowIds(draft) = 1..n
  BY <1>2, TableTyped DEF RowIds
<1>5. \A i \in 1..n : draft.rows[i] \in IndexRow
  BY <1>2, <1>4, TableTyped DEF RowIds
<1>6. \A i \in 1..n : /\ rows[i] \in IndexRow /\ rows[i].path = draft.rows[i].path
                      /\ rows[i].ticks = draft.rows[i].ticks
                      /\ rows[i].digest = draft.rows[i].digest
                      /\ rows[i].meta = draft.rows[i].meta
                      /\ rows[i].seen = draft.rows[i].seen
  BY <1>4, <1>5 DEF IndexRow, Unseen
<1>7. rows \in [1..n -> IndexRow]
  BY <1>4, <1>6
<1>. HIDE DEF rows
<1>8. /\ \A i, j \in 1..n : rows[i].path = rows[j].path => i = j
      /\ \A i \in 1..n : rows[i].seen <= draft.generation /\ RowInv(rows[i])
  BY <1>2, <1>4, <1>6 DEF TableInv, RowIds, RowInv
<1>9. /\ TableInv(db) /\ db.generation = draft.generation
      /\ RowIds(db) = RowIds(draft)
  BY <1>2, <1>4, <1>7, <1>8, WithRows
<1>. HIDE DEF db
<1>10. /\ current' = db /\ writer' = None /\ draft' = None
       /\ view' = [view EXCEPT ![p] = None]
       /\ behind' = (behind \cup Overtaken(p)) \ {p}
  BY <1>3 DEF CommitAs
<1>11. UNCHANGED <<files, changes>> /\ Now' = Now
  BY <1>1 DEF envVars, Now
<1>12. \A q \in Process : view'[q] = IF q = p THEN None ELSE view[q]
  BY <1>2, <1>10 DEF DatabaseInv
<1>13. DatabaseInv'
  <2>1. TableInv(current)'
    BY <1>9, <1>10, <1>11 DEF TableInv, RowInv, Told
  <2>2. view' \in [Process -> Database \cup {None}]
    BY <1>2, <1>10 DEF DatabaseInv
  <2>3. behind' \subseteq {q \in Process : view'[q] # None}
    BY <1>2, <1>10, <1>12 DEF DatabaseInv, Overtaken
  <2>4. \A q \in Process : view'[q] # None => q \in behind'
    BY <1>10, <1>12 DEF Overtaken
  <2>. QED BY <1>10, <2>1, <2>2, <2>3, <2>4 DEF DatabaseInv
<1>14. TaskInv(p, Done)'
  <2>1. Done \in Task /\ Done.pc = "done"
    BY DEF Done, Task, IdleTask
  <2>. QED BY <1>2, <1>10, <1>12, <2>1 DEF TaskInv, StoringPcs, RowPcs
<1>15. /\ current'.generation = current.generation + 1
       /\ RowIds(current) \subseteq RowIds(current')
  BY <1>2, <1>9, <1>10 DEF RowIds
<1>16. \A q \in Process \ {p} : /\ writer' = q <=> writer = q
                                /\ view'[q] = view[q]
                                /\ writer = q => draft' = draft
  BY <1>2, <1>10, <1>12, NoneAssumption
<1>17. IndexInv'
  <2>1. Done.pc = "done"
    BY DEF Done
  <2>. QED BY <1>1, <1>3, <1>13, <1>14, <1>15, <1>16, <2>1, ProcessStep
<1>. QED BY <1>15, <1>17

-----------------------------------------------------------------------------
(* Every step.                                                              *)

LEMMA RefreshStep ==
    ASSUME IndexInv, NEW p \in Process, Refresh(p)
    PROVE  IndexInv'
<1>1. CASE AddRoot(p)
  BY <1>1, AddRootStep
<1>2. CASE AddRootFails(p)
  BY <1>2, GiveUpStep DEF AddRootFails, Starts, At
<1>3. CASE StartRefresh(p)
  BY <1>3, StartRefreshStep
<1>4. CASE RootUnavailable(p)
  BY <1>4, GiveUpStep DEF RootUnavailable, At
<1>5. CASE Visit(p) \/ AbandonWalk(p)
  BY <1>5, WalkStep
<1>6. CASE BeginStore(p)
  BY <1>6, BeginStoreStep
<1>7. CASE StoreRefused(p)
  BY <1>7, GiveUpStep DEF StoreRefused, At
<1>8. CASE Examine(p)
  BY <1>8, ExamineStep
<1>9. CASE ExamineFails(p)
  BY <1>9, GiveUpStep DEF ExamineFails, At
<1>10. CASE HashCandidate(p)
  BY <1>10, HashCandidateStep
<1>11. CASE StoreRow(p)
  BY <1>11, StoreRowStep
<1>12. CASE FinishRefresh(p)
  BY <1>12, FinishRefreshStep
<1>. QED BY <1>1, <1>2, <1>3, <1>4, <1>5, <1>6, <1>7, <1>8, <1>9, <1>10, <1>11, <1>12
         DEF Refresh

LEMMA HashStep ==
    ASSUME IndexInv, NEW p \in Process, Hash(p)
    PROVE  IndexInv'
<1>1. CASE \E id \in 1..Cardinality(Path) : StartHash(p, id) \/ StartGroup(p, id)
  BY <1>1, StartStep
<1>2. CASE LookUp(p)
  BY <1>2, LookUpStep
<1>3. CASE CheckAsset(p)
  BY <1>3, CheckAssetStep
<1>4. CASE ReadAsset(p)
  BY <1>4, ReadAssetStep
<1>5. CASE CheckAgain(p)
  BY <1>5, CheckAgainStep
<1>6. CASE StoreDigest(p)
  BY <1>6, StoreDigestStep
<1>7. CASE StoreDigestFails(p)
  BY <1>7, StoreDigestFailsStep
<1>8. CASE ListCandidates(p) \/ NextCandidate(p) \/ CollectMatches(p)
  BY <1>8, GroupStep
<1>9. CASE Return(p)
  BY <1>9, ReturnStep
<1>. QED BY <1>1, <1>2, <1>3, <1>4, <1>5, <1>6, <1>7, <1>8, <1>9 DEF Hash

LEMMA StutterStep ==
    ASSUME IndexInv, UNCHANGED vars
    PROVE  IndexInv'
<1>1. /\ UNCHANGED <<current, writer, draft, view, behind, files, hidden, changes, task>>
      /\ Now' = Now
  BY DEF vars, fileVars, envVars, Now
<1>2. FilesInv' /\ DatabaseInv' /\ CountInv'
  BY <1>1 DEF IndexInv, FilesInv, DatabaseInv, TableInv, RowInv, Told, RowIds, CountInv
<1>3. TasksInv'
  BY <1>1 DEF IndexInv, TasksInv, TaskInv, Here, Told, Certain, RowIds, RowAt
<1>. QED BY <1>2, <1>3 DEF IndexInv

LEMMA IndexStep ==
    ASSUME IndexInv, [Next]_vars
    PROVE  IndexInv'
<1>1. CASE Environment
  BY <1>1, EnvironmentStep
<1>2. ASSUME NEW p \in Process, Refresh(p)
      PROVE  IndexInv'
  BY <1>2, RefreshStep
<1>3. ASSUME NEW p \in Process, Hash(p)
      PROVE  IndexInv'
  BY <1>3, HashStep
<1>4. ASSUME NEW p \in Process, Kill(p)
      PROVE  IndexInv'
  BY <1>4, GiveUpStep DEF Kill
<1>5. CASE UNCHANGED vars
  BY <1>5, StutterStep
<1>. QED BY <1>1, <1>2, <1>3, <1>4, <1>5 DEF Next

\* An index whose rows are those of the first files.
LEMMA FirstIndex ==
    ASSUME FilesInv, NEW held \in [FirstPaths -> Content \cup {None}],
           NEW listed, listed = {path \in FirstPaths : held[path] # None},
           \A q \in Path : files[q] # None =>
               q \in listed /\ files[q].ticks = q /\ files[q].content = held[q],
           Cardinality(Path) <= Now,
           NEW hashed \in SUBSET listed, NEW paths \in InOrder(listed)
    PROVE  TableInv([root |-> TRUE, generation |-> 1,
                     rows |-> IndexOf(paths, held, hashed)])
<1>. DEFINE n == Cardinality(listed)
            rows == IndexOf(paths, held, hashed)
            db == [root |-> TRUE, generation |-> 1, rows |-> rows]
<1>1. listed \subseteq Path /\ \A q \in listed : held[q] \in Content
  BY PathAssumption
<1>2. n \in Nat
  BY <1>1, PathAssumption, FS_Subset, FS_CardinalityType
<1>3. /\ paths \in [1..n -> listed]
      /\ \A i, j \in 1..n : i < j => paths[i] < paths[j]
  BY DEF InOrder
<1>. HIDE DEF n
<1>4. \A i, j \in 1..n : paths[i] = paths[j] => i = j
  <2>1. \A i \in 1..n : paths[i] \in Nat
    BY <1>1, <1>3, Sizes
  <2>. QED BY <1>2, <1>3, <2>1
<1>5. /\ DOMAIN rows = 1..n
      /\ \A i \in 1..n :
             rows[i] = RowOf(paths[i], SizeOf[held[paths[i]]], paths[i], held[paths[i]], 1,
                             IF paths[i] \in hashed THEN held[paths[i]] ELSE None)
  BY <1>3 DEF IndexOf, FirstFile
<1>. HIDE DEF rows
<1>6. ASSUME NEW i \in 1..n
      PROVE  /\ rows[i] \in IndexRow /\ rows[i].path = paths[i] /\ rows[i].seen = 1
             /\ RowInv(rows[i])
  <2>. DEFINE path == paths[i]
              content == held[path]
              digest == IF path \in hashed THEN content ELSE None
  <2>1. path \in listed /\ path \in Path /\ content \in Content
    BY <1>1, <1>3
  <2>2. path \in Ticks /\ path <= Now
    <3>1. \A a, b, c \in Nat : a \in 1..b => a \in 1..(b + c)
      OBVIOUS
    <3>2. path \in 1..Cardinality(Path)
      BY <2>1, PathAssumption
    <3>3. Now \in Nat
      BY NowType DEF FilesInv
    <3>4. \A a, b, c \in Nat : a \in 1..b /\ b <= c => a <= c
      OBVIOUS
    <3>. QED BY <2>1, <3>1, <3>2, <3>3, <3>4, Sizes, ChangesAssumption DEF Ticks
  <2>3. digest \in {content, None}
    OBVIOUS
  <2>4. rows[i] = RowOf(path, SizeOf[content], path, content, 1, digest)
    BY <1>5
  <2>. HIDE DEF digest, content, path
  <2>5. /\ rows[i] \in IndexRow /\ rows[i].path = path /\ rows[i].ticks = path
        /\ rows[i].seen = 1 /\ rows[i].digest = digest /\ rows[i].meta = content
    BY <2>1, <2>2, <2>3, <2>4 DEF RowOf, IndexRow
  <2>6. Told(path, path, content) /\ Told(path, path, digest)
    BY <2>3 DEF Told, content
  <2>. QED BY <2>2, <2>5, <2>6 DEF RowInv, path
<1>7. rows \in Seq(IndexRow)
  <2>1. \E m \in Nat : rows \in [1..m -> IndexRow]
    <3>1. rows = [i \in 1..n |-> rows[i]]
      BY <1>5 DEF rows, IndexOf
    <3>. QED BY <1>2, <1>6, <3>1
  <2>. QED BY <2>1, SeqDef
<1>8. db \in Database /\ db.rows = rows /\ db.generation = 1
  BY <1>7 DEF Database
<1>. HIDE DEF db
<1>9. TableInv(db)
  BY <1>4, <1>5, <1>6, <1>8 DEF TableInv
<1>. QED BY <1>9 DEF db, rows

LEMMA IndexInitially == Init => IndexInv
<1>. SUFFICES ASSUME Init PROVE IndexInv
  OBVIOUS
<1>1. PICK held \in [FirstPaths -> Content \cup {None}], gone \in SUBSET FirstPaths :
          LET listed == {path \in FirstPaths : held[path] # None}
          IN  /\ gone \subseteq listed
              /\ files = [path \in Path |-> IF path \in listed \ gone
                                            THEN FirstFile(path, held[path]) ELSE None]
              /\ \/ FileInit([root |-> FALSE, generation |-> 0, rows |-> <<>>])
                 \/ \E hashed \in SUBSET listed, paths \in InOrder(listed) :
                       FileInit([root |-> TRUE, generation |-> 1,
                                 rows |-> IndexOf(paths, held, hashed)])
  BY Zenon DEF Init
<1>2. PICK listed : listed = {path \in FirstPaths : held[path] # None}
  OBVIOUS
<1>3. hidden = {} /\ changes = 0 /\ task = [p \in Process |-> New]
  BY DEF Init
<1>4. \A q \in Path : files[q] # None =>
          /\ q \in listed /\ files[q] = FirstFile(q, held[q]) /\ held[q] \in Content
          /\ files[q].ticks = q /\ files[q].content = held[q] /\ files[q].left = {}
  BY <1>1, <1>2 DEF FirstFile
<1>5. \A q \in Path : q \in Ticks /\ q <= Cardinality(Path)
  <2>1. \A a, b, c \in Nat : a \in 1..b => a \in 1..(b + c) /\ a <= b
    OBVIOUS
  <2>. QED BY <2>1, Sizes, PathAssumption, ChangesAssumption DEF Ticks
<1>6. Now = Cardinality(Path)
  BY <1>3, Sizes DEF Now
<1>7. FilesInv
  <2>1. files \in [Path -> File \cup {None}]
    <3>1. \A q \in Path : files[q] \in File \cup {None}
      <4>1. \A q \in Path, content \in Content : FirstFile(q, content) \in File
        BY <1>5 DEF FirstFile, File
      <4>. QED BY <1>4, <4>1
    <3>. QED BY <1>1, <3>1
  <2>. QED BY <1>3, <1>4, <1>5, <1>6, <2>1, ChangesAssumption DEF FilesInv
<1>8. PICK db : FileInit(db) /\ TableInv(db) /\ db.generation \in {0, 1}
  <2>1. CASE FileInit([root |-> FALSE, generation |-> 0, rows |-> <<>>])
    <3>. DEFINE db == [root |-> FALSE, generation |-> 0, rows |-> <<>>]
    <3>1. <<>> \in Seq(IndexRow) /\ DOMAIN <<>> = {}
      BY EmptySeq
    <3>2. TableInv(db)
      BY <3>1 DEF TableInv, Database
    <3>. QED BY <2>1, <3>2
  <2>2. CASE \E hashed \in SUBSET listed, paths \in InOrder(listed) :
                 FileInit([root |-> TRUE, generation |-> 1,
                           rows |-> IndexOf(paths, held, hashed)])
    <3>1. PICK hashed \in SUBSET listed, paths \in InOrder(listed) :
              FileInit([root |-> TRUE, generation |-> 1,
                        rows |-> IndexOf(paths, held, hashed)])
      BY <2>2
    <3>2. Cardinality(Path) <= Now
      BY <1>6, Sizes
    <3>3. TableInv([root |-> TRUE, generation |-> 1,
                    rows |-> IndexOf(paths, held, hashed)])
      BY <1>2, <1>4, <1>7, <3>2, FirstIndex
    <3>. QED BY <3>1, <3>3
  <2>. QED BY <1>1, <1>2, <2>1, <2>2
<1>9. current = db /\ writer = None /\ draft = None /\ behind = {}
      /\ view = [p \in Process |-> None]
  BY <1>8 DEF FileInit
<1>10. DatabaseInv
  BY <1>8, <1>9 DEF DatabaseInv
<1>11. TasksInv
  <2>1. New \in Task /\ New.pc = "new"
    BY DEF New, Task, IdleTask
  <2>2. \A p \in Process : TaskInv(p, New)
    BY <1>9, <2>1, NoneAssumption DEF TaskInv, StoringPcs, RowPcs
  <2>. QED BY <1>3, <2>1, <2>2 DEF TasksInv
<1>12. CountInv
  <2>1. \A n \in Nat : 0 <= 1 + n /\ 1 <= 1 + n
    OBVIOUS
  <2>2. Cardinality(Ended) \in Nat
    BY EndedFinite
  <2>. QED BY <1>8, <1>9, <2>1, <2>2 DEF CountInv, Ended
<1>. QED BY <1>7, <1>10, <1>11, <1>12 DEF IndexInv

LEMMA IndexInvariant == Spec => []IndexInv
BY IndexInitially, IndexStep, PTL DEF Spec

-----------------------------------------------------------------------------
(* What the invariant says.                                                 *)

LEMMA SoundIndex == IndexInv => IndexSound
<1>. SUFFICES ASSUME IndexInv PROVE IndexSound
  OBVIOUS
<1>1. FilesInv /\ DatabaseInv /\ TableInv(current) /\ current \in Database
  BY DEF IndexInv, DatabaseInv, TableInv
<1>2. current.generation \in Generation
  <2>1. Cardinality(Ended) <= Cardinality(Process)
    BY ProcessAssumption, FS_Subset DEF Ended
  <2>2. Cardinality(Process) \in Nat
    BY ProcessAssumption, FS_CardinalityType
  <2>3. current.generation \in Nat /\ current.generation <= 1 + Cardinality(Ended)
    BY <1>1 DEF Database, IndexInv, CountInv, Ended
  <2>4. \A g, a, b \in Nat : g <= 1 + a /\ a <= b => g \in 0..(1 + b)
    OBVIOUS
  <2>. QED BY <2>1, <2>2, <2>3, <2>4, EndedFinite DEF Generation
<1>3. TypeOK
  <2>1. draft = None <=> writer = None
    BY <1>1, NothingAssumption DEF DatabaseInv, TableInv
  <2>. QED BY <1>1, <1>2, <2>1 DEF TypeOK, FilesInv, DatabaseInv
<1>4. OneRowPerPath
  BY <1>1 DEF OneRowPerPath, RowAt, RowIds, TableInv
<1>5. RowsTellTheTruth
  <2>1. ASSUME NEW row \in ToSet(current.rows), Fits(row)
        PROVE  /\ row.digest \in {None, files[row.path].content}
               /\ row.meta \in {None, files[row.path].content}
    <3>1. PICK id \in DOMAIN current.rows : row = current.rows[id]
      BY DEF ToSet
    <3>2. row \in IndexRow /\ RowInv(row)
      BY <1>1, <3>1, TableTyped DEF TableInv
    <3>3. /\ row.path \in Path /\ files[row.path] # None
          /\ files[row.path].ticks = row.ticks /\ row.path \notin files[row.path].left
      BY <1>1, <2>1, <3>2, FittingRow
    <3>. QED BY <3>2, <3>3 DEF RowInv, Told
  <2>. QED BY <2>1 DEF RowsTellTheTruth
<1>. QED BY <1>3, <1>4, <1>5 DEF IndexSound

(* Whatever refreshes, hashes, kills and writers of files do between any two  *)
(* looks of each other: no two rows of the index have one path, and where a   *)
(* file has the size and the time of its row, the row's digest and metadata   *)
(* are those of its content, or unknown.                                      *)
THEOREM IndexIsSound == Spec => []IndexSound
BY IndexInvariant, SoundIndex, PTL

\* No step loses a row.
LEMMA RowsKept ==
    ASSUME IndexInv, [Next]_vars
    PROVE  RowIds(current) \subseteq RowIds(current')
<1>1. ASSUME NEW p \in Process, AddRoot(p)
      PROVE  RowIds(current) \subseteq RowIds(current')
  <2>1. current' = [current EXCEPT !.root = TRUE] /\ current \in Database
    BY <1>1 DEF AddRoot, Autocommit, IndexInv, DatabaseInv, TableInv
  <2>. QED BY <2>1 DEF Database, RowIds
<1>2. ASSUME NEW p \in Process, StoreDigest(p)
      PROVE  RowIds(current) \subseteq RowIds(current')
  <2>1. /\ current' = [current EXCEPT !.rows[task[p].asset].digest = task[p].hash]
        /\ current \in Database
    BY <1>2 DEF StoreDigest, Autocommit, IndexInv, DatabaseInv, TableInv
  <2>. QED BY <2>1 DEF Database, RowIds
<1>3. ASSUME NEW p \in Process, FinishRefresh(p)
      PROVE  RowIds(current) \subseteq RowIds(current')
  BY <1>3, FinishRefreshStep
<1>4. ASSUME NEW p \in Process, Refresh(p), ~AddRoot(p), ~FinishRefresh(p)
      PROVE  current' = current
  BY <1>4 DEF Refresh, AddRootFails, StartRefresh, RootUnavailable, Visit, AbandonWalk,
              BeginStore, BeginWith, StoreRefused, Examine, ExamineFails, HashCandidate,
              StoreRow, Edit, GiveUp, LetGo, fileVars
<1>5. ASSUME NEW p \in Process, Hash(p), ~StoreDigest(p)
      PROVE  current' = current
  BY <1>5 DEF Hash, StartHash, StartGroup, LookUp, CheckAsset, ReadAsset, CheckAgain,
              StoreDigestFails, ListCandidates, NextCandidate, CollectMatches, Return, fileVars
<1>6. ASSUME NEW p \in Process, Kill(p)
      PROVE  current' = current
  BY <1>6 DEF Kill, GiveUp, LetGo
<1>7. CASE Environment
  BY <1>7 DEF Environment, Write, Delete, Rename, Hide, Change, fileVars, RowIds
<1>8. CASE UNCHANGED vars
  BY <1>8 DEF vars, fileVars, RowIds
<1>. QED BY <1>1, <1>2, <1>3, <1>4, <1>5, <1>6, <1>7, <1>8 DEF Next, RowIds

(* A refresh that is stored counts one more than the index it was stored in,  *)
(* however many overlapped with it, and no commit of any call loses a row:    *)
(* BEGIN IMMEDIATE fails once the row of the root that was read is behind.    *)
THEOREM RefreshesCount == Spec => RefreshesAreSerial
<1>1. ASSUME IndexInv, [Next]_vars
      PROVE  /\ RowIds(current) \subseteq RowIds(current')
             /\ \A p \in Process :
                   Finishes(p) => current'.generation = current.generation + 1
  <2>1. RowIds(current) \subseteq RowIds(current')
    BY <1>1, RowsKept
  <2>2. ASSUME NEW p \in Process, Finishes(p)
        PROVE  current'.generation = current.generation + 1
    <3>1. task[p].pc \in StoringPcs /\ current'.generation = task[p].generation
      BY <2>2 DEF Finishes, At, StoringPcs
    <3>. QED BY <1>1, <3>1, StoringCall
  <2>. QED BY <2>1, <2>2
<1>. QED BY <1>1, IndexInvariant, PTL DEF Spec, RefreshesAreSerial

-----------------------------------------------------------------------------
(* The story of a refresh: what its walk and its transaction have done.     *)

\* The rows that may be where a file found was before.
Origins(file) ==
    {id \in RowIds(draft) :
        LET row == draft.rows[id]
        IN  /\ row.path # file.path
            /\ Kind[row.path] = Kind[file.path]
            /\ row.size = file.size
            /\ row.digest # None
            /\ row.missing \/ ~Readable(row.path)}

\* What was seen of a file is so.
StillThere(f) == Readable(f.path) /\ f.size = SizeOf[files[f.path].content]

DistinctPaths(S) == \A f, g \in S : f.path = g.path => f = g

\* A walk finds each path at most once; a quiet one misses none.
WalkStory(t) ==
    /\ \A i, j \in DOMAIN t.unvisited : t.unvisited[i] = t.unvisited[j] => i = j
    /\ \A i \in DOMAIN t.unvisited, f \in t.found : t.unvisited[i] # f.path
    /\ DistinctPaths(t.found)
    /\ t.quiet => /\ \A f \in t.found : StillThere(f)
                  /\ \A path \in Path : Readable(path) =>
                        \/ \E i \in DOMAIN t.unvisited : t.unvisited[i] = path
                        \/ \E f \in t.found : f.path = path

\* The row has been written or touched by the transaction.
Stored(t, id) == draft.rows[id].seen = t.generation

\* The row is as it was before the transaction.
Untouched(id) == id \in RowIds(current) /\ draft.rows[id] = current.rows[id]

HasMoved(id) == draft.rows[id].path # current.rows[id].path

\* What a transaction does to rows that were there before it.
KeptStory(t) ==
    \A id \in RowIds(current) :
        /\ HasMoved(id) => /\ current.rows[id].digest # None
                           /\ draft.rows[id].digest = current.rows[id].digest
                           /\ \A f \in t.queue : f.path # draft.rows[id].path
        /\ draft.rows[id].digest \in {None, current.rows[id].digest}

\* Each readable file is in the queue or has a row that is stored.
QuietStory(t) ==
    /\ \A f \in t.queue : StillThere(f)
    /\ \A path \in Path : Readable(path) =>
          \/ \E f \in t.queue : f.path = path
          \/ \E id \in RowIds(draft) : draft.rows[id].path = path /\ Stored(t, id)
    /\ \A id \in RowIds(draft) :
          IF Stored(t, id) THEN ~draft.rows[id].missing /\ Fits(draft.rows[id])
          ELSE Untouched(id)

\* The row is for a file that is gone, which another row may be taken for.
Rival(id, other) ==
    /\ current.rows[other].digest = current.rows[id].digest
    /\ Kind[current.rows[other].path] = Kind[current.rows[id].path]
    /\ current.rows[other].size = current.rows[id].size
    /\ \/ Untouched(other) /\ current.rows[other].missing
       \/ ~Readable(current.rows[other].path)

MoveStory(t) ==
    \A id \in RowIds(current) : HasMoved(id) =>
        /\ current.rows[id].missing \/ ~Readable(current.rows[id].path)
        /\ files[draft.rows[id].path].content = current.rows[id].digest
        /\ Kind[draft.rows[id].path] = Kind[current.rows[id].path]
        /\ \A other \in RowIds(current) \ {id} : ~Rival(id, other)

\* The file whose row is to be written.
ParseStory(t) ==
    /\ \A id \in t.candidates : draft.rows[id].digest # None
    /\ t.digest # None => t.candidates # {}
    /\ t.pc = "hash" => t.digest = None /\ t.candidates # {}
    /\ t.quiet =>
          /\ t.ticks = files[FirstOf(t.queue).path].ticks
          /\ t.candidates # {} => t.candidates = Origins(FirstOf(t.queue))
          /\ t.digest \in {None, files[FirstOf(t.queue).path].content}

Story(t) ==
    /\ t.pc = "walk" => WalkStory(t)
    /\ t.pc \in StoringPcs => /\ DistinctPaths(t.queue)
                              /\ KeptStory(t)
                              /\ t.quiet => QuietStory(t) /\ MoveStory(t)
    /\ t.pc \in {"hash", "parse"} => ParseStory(t)

StoriesInv == \A p \in Process : Story(task[p])

\* Neither other processes' reads nor writes elsewhere change a story.
LEMMA StoryKept ==
    ASSUME NEW t, Story(t), UNCHANGED <<files, hidden>>,
           t.pc \in StoringPcs => UNCHANGED <<current, draft>>
    PROVE  Story(t)'
<1>1. CASE t.pc \in StoringPcs
  <2>1. UNCHANGED <<files, hidden, current, draft>>
    BY <1>1
  <2>2. KeptStory(t) => KeptStory(t)'
    BY <2>1 DEF KeptStory, HasMoved, RowIds
  <2>3. QuietStory(t) => QuietStory(t)'
    BY <2>1 DEF QuietStory, StillThere, Readable, Stored, Fits, Untouched, RowIds
  <2>4. MoveStory(t) => MoveStory(t)'
    BY <2>1 DEF MoveStory, HasMoved, Rival, Untouched, Readable, RowIds
  <2>5. ParseStory(t) => ParseStory(t)'
    BY <2>1 DEF ParseStory, Origins, Readable, RowIds
  <2>. QED BY <1>1, <2>2, <2>3, <2>4, <2>5 DEF Story, StoringPcs
<1>2. CASE t.pc = "walk"
  <2>1. WalkStory(t) => WalkStory(t)'
    BY DEF WalkStory, StillThere, Readable
  <2>. QED BY <1>2, <2>1 DEF Story, StoringPcs
<1>3. CASE t.pc \notin StoringPcs \cup {"walk"}
  BY <1>3 DEF Story, StoringPcs
<1>. QED BY <1>1, <1>2, <1>3

\* A call that is disturbed has no more to remember than before.
LEMMA DisturbedFields ==
    ASSUME NEW p \in Process, task[p] \in Task
    PROVE  /\ Disturbed(p).pc = task[p].pc
           /\ task[p].pc \in StoringPcs \cup {"walk"} => ~Disturbed(p).quiet
           /\ task[p].pc = "walk" => /\ Disturbed(p).unvisited = task[p].unvisited
                                     /\ Disturbed(p).found = task[p].found
           /\ task[p].pc \in StoringPcs => Disturbed(p).queue = task[p].queue
           /\ task[p].pc \in {"hash", "parse"} =>
                  /\ Disturbed(p).candidates = task[p].candidates
                  /\ Disturbed(p).digest = task[p].digest
<1>. DEFINE t == task[p]
            d == [t EXCEPT !.quiet = FALSE]
<1>1. t \in Task /\ Disturbed(p) = IF t.pc \in {"new", "done"} THEN t ELSE d
  BY DEF Disturbed
<1>. HIDE DEF t
<1>2. CASE t.pc = "walk"
  <2>1. /\ d.pc = t.pc /\ d.quiet = FALSE /\ d.unvisited = t.unvisited
        /\ d.found = t.found
    BY <1>1, <1>2, TaskKinds DEF WalkTask
  <2>. HIDE DEF d
  <2>. QED BY <1>1, <1>2, <2>1 DEF t, StoringPcs
<1>3. CASE t.pc = "next"
  <2>1. d.pc = t.pc /\ d.quiet = FALSE /\ d.queue = t.queue
    BY <1>1, <1>3, TaskKinds DEF NextTask
  <2>. HIDE DEF d
  <2>. QED BY <1>1, <1>3, <2>1 DEF t, StoringPcs
<1>4. CASE t.pc \in {"hash", "parse"}
  <2>1. /\ d.pc = t.pc /\ d.quiet = FALSE /\ d.queue = t.queue
        /\ d.candidates = t.candidates /\ d.digest = t.digest
    BY <1>1, <1>4, TaskKinds DEF StoreTask
  <2>. HIDE DEF d
  <2>. QED BY <1>1, <1>4, <2>1 DEF t, StoringPcs
<1>5. CASE t.pc \notin StoringPcs \cup {"walk"}
  <2>1. d.pc = t.pc
    BY <1>1, <1>5, TaskKinds DEF IdleTask, AssetTask, CheckTask, HashTask, GroupTask,
                                  AnswerTask, RowPcs, StoringPcs
  <2>. HIDE DEF d
  <2>. QED BY <1>1, <1>5, <2>1 DEF t, StoringPcs
<1>. QED BY <1>2, <1>3, <1>4, <1>5 DEF StoringPcs

\* Whatever happens to the files, only a quiet call has a story about them.
LEMMA StoryDisturbed ==
    ASSUME NEW p \in Process, task[p] \in Task, Story(task[p]),
           task[p].pc \in StoringPcs => UNCHANGED <<current, draft>>,
           NEW u, u = Disturbed(p)
    PROVE  Story(u)'
<1>1. CASE task[p].pc = "walk"
  <2>1. /\ u.pc = "walk" /\ ~u.quiet /\ u.unvisited = task[p].unvisited
        /\ u.found = task[p].found /\ WalkStory(task[p])
    BY <1>1, DisturbedFields DEF Story
  <2>2. WalkStory(u)'
    BY <2>1 DEF WalkStory
  <2>. QED BY <2>1, <2>2 DEF Story, StoringPcs
<1>2. CASE task[p].pc \in StoringPcs
  <2>1. /\ u.pc = task[p].pc /\ ~u.quiet /\ u.queue = task[p].queue
        /\ UNCHANGED <<current, draft>> /\ KeptStory(task[p]) /\ DistinctPaths(task[p].queue)
    BY <1>2, DisturbedFields DEF Story
  <2>2. KeptStory(u)' /\ DistinctPaths(u.queue)
    BY <2>1 DEF KeptStory, HasMoved, RowIds
  <2>3. u.pc \in {"hash", "parse"} => ParseStory(u)'
    <3>1. u.pc \in {"hash", "parse"} => /\ ParseStory(task[p])
                                        /\ u.candidates = task[p].candidates
                                        /\ u.digest = task[p].digest
      BY <1>2, <2>1, DisturbedFields DEF Story
    <3>. QED BY <2>1, <3>1 DEF ParseStory
  <2>. QED BY <1>2, <2>1, <2>2, <2>3 DEF Story, StoringPcs
<1>3. CASE task[p].pc \notin StoringPcs \cup {"walk"}
  BY <1>3, DisturbedFields DEF Story, StoringPcs
<1>. QED BY <1>1, <1>2, <1>3

LEMMA StoryNow ==
    ASSUME NEW p, NEW t, t = task'[p], Story(t)'
    PROVE  Story(task[p])'
BY DEF Story, WalkStory, KeptStory, QuietStory, MoveStory, ParseStory, Stored, Origins

\* A step of p: the others' stories are kept.
LEMMA StoriesStep ==
    ASSUME StoriesInv, IndexInv, UNCHANGED envVars, NEW p \in Process, Story(task[p])',
           \A q \in Process \ {p} : /\ task'[q] \in {task[q], Disturbed(q)}
                                    /\ writer = q => UNCHANGED <<current, draft>>
    PROVE  StoriesInv'
<1>1. ASSUME NEW q \in Process
      PROVE  Story(task[q])'
  <2>1. CASE q = p
    BY <2>1
  <2>2. CASE q # p
    <3>1. PICK u : u = task'[q]
      OBVIOUS
    <3>2. /\ Story(task[q]) /\ task[q] \in Task
          /\ task[q].pc \in StoringPcs => UNCHANGED <<current, draft>>
      BY <2>2 DEF StoriesInv, IndexInv, TasksInv, TaskInv
    <3>3. UNCHANGED <<files, hidden>>
      BY DEF envVars
    <3>4. CASE u = Disturbed(q)
      BY <3>1, <3>2, <3>4, StoryDisturbed, StoryNow
    <3>5. CASE u = task[q]
      <4>1. Story(u) /\ (u.pc \in StoringPcs => UNCHANGED <<current, draft>>)
        BY <3>2, <3>5
      <4>2. Story(u)'
        BY <3>3, <4>1, StoryKept
      <4>. QED BY <3>1, <4>2, StoryNow
    <3>. QED BY <2>2, <3>1, <3>4, <3>5
  <2>. QED BY <2>1, <2>2
<1>. QED BY <1>1 DEF StoriesInv

LEMMA StoriesEnvironment ==
    ASSUME StoriesInv, IndexInv, Environment
    PROVE  StoriesInv'
<1>1. /\ UNCHANGED fileVars
      /\ task' = [q \in Process |-> Disturbed(q)]
  BY DEF Environment, Write, Delete, Rename, Hide, Change
<1>2. ASSUME NEW q \in Process
      PROVE  Story(task[q])'
  <2>1. PICK u : u = task'[q] /\ u = Disturbed(q)
    BY <1>1
  <2>2. Story(task[q]) /\ task[q] \in Task /\ UNCHANGED <<current, draft>>
    BY <1>1 DEF StoriesInv, IndexInv, TasksInv, fileVars
  <2>. QED BY <2>1, <2>2, StoryDisturbed, StoryNow
<1>. QED BY <1>2 DEF StoriesInv

\* Outside of a refresh there is no story.
LEMMA NoStory ==
    ASSUME IndexInv', NEW p \in Process, writer' # p, view'[p] = None
    PROVE  Story(task[p])'
BY DEF IndexInv, TasksInv, TaskInv, Story, StoringPcs

\* How the tasks of the others change.
LEMMA OtherTasks ==
    ASSUME IndexInv, NEW p \in Process, NEW t, Become(p, t) \/ BecomeDisturbing(p, t)
    PROVE  /\ task'[p] = t
           /\ \A q \in Process \ {p} : task'[q] \in {task[q], Disturbed(q)}
BY DEF IndexInv, TasksInv, Become, BecomeDisturbing

-----------------------------------------------------------------------------
(* The stories of the steps.                                                *)

\* Steps outside of a refresh.
LEMMA OutsideStories ==
    ASSUME StoriesInv, IndexInv, IndexInv', NEW p \in Process, Hash(p) \/ AddRoot(p)
    PROVE  StoriesInv'
<1>1. task[p].pc \notin StoringPcs \cup {"walk"}
  BY DEF Hash, AddRoot, StartHash, StartGroup, Starts, LookUp, CheckAsset, ReadAsset,
         CheckAgain, StoreDigest, StoreDigestFails, ListCandidates, NextCandidate,
         CollectMatches, Return, At, StoringPcs
<1>2. writer # p /\ view[p] = None
  BY <1>1, ReaderSees
<1>3. \/ UNCHANGED <<fileVars, envVars>> /\ \E t : Become(p, t)
      \/ /\ UNCHANGED envVars /\ \E t : BecomeDisturbing(p, t)
         /\ \E db : Autocommit(p, db)
  <2>1. CASE AddRoot(p)
    BY <2>1 DEF AddRoot
  <2>2. CASE StoreDigest(p)
    BY <2>2 DEF StoreDigest
  <2>3. CASE Hash(p) /\ ~StoreDigest(p)
    BY <2>3 DEF Hash, StartHash, StartGroup, LookUp, CheckAsset, ReadAsset,
                CheckAgain, StoreDigestFails, ListCandidates, NextCandidate,
                CollectMatches, Return, HashFails
  <2>. QED BY <2>1, <2>2, <2>3
<1>4. /\ UNCHANGED envVars /\ writer' = writer /\ view' = view
      /\ \A q \in Process : writer = q => UNCHANGED <<current, draft>>
  BY <1>3, NoneAssumption DEF fileVars, Autocommit, CanWrite
<1>5. \A q \in Process \ {p} : task'[q] \in {task[q], Disturbed(q)}
  BY <1>3, OtherTasks
<1>6. Story(task[p])'
  BY <1>2, <1>4, NoStory
<1>. QED BY <1>4, <1>5, <1>6, StoriesStep

\* A call ends.
LEMMA EndStories ==
    ASSUME StoriesInv, IndexInv, IndexInv', NEW p \in Process, GiveUp(p) \/ FinishRefresh(p)
    PROVE  StoriesInv'
<1>1. DatabaseInv
  BY DEF IndexInv
<1>2. /\ UNCHANGED envVars
      /\ (Become(p, Done) \/ BecomeDisturbing(p, Done))
      /\ writer' # p /\ view'[p] = None
      /\ \A q \in Process \ {p} : writer = q => UNCHANGED <<current, draft>>
  BY <1>1, NoneAssumption DEF GiveUp, LetGo, FinishRefresh, CommitAs, DatabaseInv
<1>3. \A q \in Process \ {p} : task'[q] \in {task[q], Disturbed(q)}
  BY <1>2, OtherTasks
<1>4. Story(task[p])'
  BY <1>2, NoStory
<1>. QED BY <1>2, <1>3, <1>4, StoriesStep

\* A step that leaves the tables alone.
LEMMA ThoughtStories ==
    ASSUME StoriesInv, IndexInv, UNCHANGED <<current, draft, envVars>>, NEW p \in Process,
           NEW t, Become(p, t), Story(t)
    PROVE  StoriesInv'
<1>1. task'[p] = t /\ \A q \in Process \ {p} : task'[q] \in {task[q], Disturbed(q)}
  BY OtherTasks
<1>2. Story(t)'
  BY StoryKept DEF envVars
<1>3. PICK u : u = task'[p]
  OBVIOUS
<1>4. Story(u)'
  BY <1>1, <1>2, <1>3
<1>5. Story(task[p])'
  BY <1>3, <1>4, StoryNow
<1>. QED BY <1>1, <1>5, StoriesStep

LEMMA StartRefreshStories ==
    ASSUME StoriesInv, IndexInv, NEW p \in Process, StartRefresh(p)
    PROVE  StoriesInv'
<1>1. PICK g : Become(p, [pc |-> "walk", quiet |-> TRUE, unvisited |-> WalkOrder,
                          found |-> {}, generation |-> g])
  BY DEF StartRefresh
<1>2. UNCHANGED <<current, draft, envVars>>
  BY DEF StartRefresh
<1>3. PICK t : t = [pc |-> "walk", quiet |-> TRUE, unvisited |-> WalkOrder,
                    found |-> {}, generation |-> g]
  OBVIOUS
<1>4. t.pc = "walk" /\ t.unvisited = WalkOrder /\ t.found = {}
  BY <1>3
<1>5. \A path \in Path : \E i \in DOMAIN WalkOrder : WalkOrder[i] = path
  BY PathAssumption DEF ToSet
<1>6. WalkStory(t)
  BY <1>4, <1>5, PathAssumption DEF WalkStory, DistinctPaths, IsInjective
<1>7. Story(t)
  BY <1>4, <1>6 DEF Story, StoringPcs
<1>. QED BY <1>1, <1>2, <1>3, <1>7, ThoughtStories

LEMMA AbandonStories ==
    ASSUME StoriesInv, IndexInv, NEW p \in Process, AbandonWalk(p)
    PROVE  StoriesInv'
<1>1. /\ task[p].pc = "walk" /\ UNCHANGED <<current, draft, envVars>>
      /\ task[p] \in Task /\ WalkStory(task[p])
  BY DEF AbandonWalk, At, fileVars, IndexInv, TasksInv, StoriesInv, Story
<1>2. task[p] \in WalkTask
  BY <1>1, TaskKinds
<1>3. PICK t : t = [task[p] EXCEPT !.unvisited = <<>>, !.quiet = FALSE]
  OBVIOUS
<1>4. /\ t.pc = "walk" /\ t.unvisited = <<>> /\ t.found = task[p].found /\ ~t.quiet
      /\ Become(p, t)
  BY <1>1, <1>2, <1>3 DEF WalkTask, AbandonWalk
<1>5. WalkStory(t)
  BY <1>1, <1>4 DEF WalkStory
<1>6. Story(t)
  BY <1>4, <1>5 DEF Story, StoringPcs
<1>. QED BY <1>1, <1>4, <1>6, ThoughtStories

LEMMA VisitStories ==
    ASSUME StoriesInv, IndexInv, NEW p \in Process, Visit(p)
    PROVE  StoriesInv'
<1>1. /\ task[p].pc = "walk" /\ UNCHANGED <<current, draft, envVars>>
      /\ task[p] \in Task /\ WalkStory(task[p]) /\ task[p].unvisited # <<>>
  BY DEF Visit, At, fileVars, IndexInv, TasksInv, StoriesInv, Story
<1>2. task[p] \in WalkTask /\ task[p].unvisited \in Seq(Path) /\ task[p].quiet \in BOOLEAN
  BY <1>1, TaskKinds DEF WalkTask
<1>. DEFINE s == task[p].unvisited
            path == Head(s)
            entry == [path |-> path, size |-> SizeOf[files[path].content]]
<1>3. PICK found : found = IF Readable(path) THEN task[p].found \cup {entry}
                           ELSE task[p].found
  OBVIOUS
<1>4. PICK t : t = [task[p] EXCEPT !.unvisited = Tail(@), !.found = found]
  OBVIOUS
<1>5. /\ t.pc = "walk" /\ t.unvisited = Tail(s) /\ t.found = found
      /\ t.quiet = task[p].quiet
  BY <1>1, <1>2, <1>4 DEF WalkTask
<1>6. Become(p, t)
  BY <1>3, <1>4 DEF Visit
<1>7. /\ path \in Path /\ path = s[1] /\ 1 \in DOMAIN s
      /\ \A i \in DOMAIN Tail(s) : i + 1 \in DOMAIN s /\ i + 1 # 1 /\ Tail(s)[i] = s[i + 1]
      /\ \A i \in DOMAIN s : i # 1 => \E j \in DOMAIN Tail(s) : s[i] = Tail(s)[j]
      /\ \A i, j \in DOMAIN Tail(s) : i + 1 = j + 1 => i = j
  <2>1. /\ s \in Seq(Path) /\ Len(s) \in Nat /\ DOMAIN s = 1..Len(s) /\ s # <<>>
        /\ Tail(s) \in Seq(Path) /\ path \in Path
        /\ Len(Tail(s)) = Len(s) - 1
        /\ \A i \in 1..Len(Tail(s)) : Tail(s)[i] = s[i + 1]
    BY <1>1, <1>2, HeadTailProperties, LenProperties
  <2>2. DOMAIN Tail(s) = 1..(Len(s) - 1)
    BY <2>1, LenProperties
  <2>3. Len(s) # 0
    BY <2>1, EmptySeq
  <2>4. path = s[1]
    OBVIOUS
  <2>. HIDE DEF s, path
  <2>5. \A i \in 1..Len(s) : i # 1 => i - 1 \in 1..(Len(s) - 1) /\ (i - 1) + 1 = i
    BY <2>1
  <2>6. \A i \in DOMAIN s : i # 1 => \E j \in DOMAIN Tail(s) : s[i] = Tail(s)[j]
    BY <2>1, <2>2, <2>5
  <2>. QED BY <2>1, <2>2, <2>3, <2>4, <2>6
<1>. HIDE DEF s, path
<1>8. entry.path = path
  OBVIOUS
<1>9. Readable(path) => StillThere(entry)
  BY DEF StillThere
<1>. HIDE DEF entry
<1>10. \A f \in found : f \in task[p].found \/ (f = entry /\ Readable(path))
  BY <1>3
<1>11. /\ \A i, j \in DOMAIN s : s[i] = s[j] => i = j
       /\ \A i \in DOMAIN s, f \in task[p].found : s[i] # f.path
       /\ DistinctPaths(task[p].found)
       /\ task[p].quiet => /\ \A f \in task[p].found : StillThere(f)
                           /\ \A x \in Path : Readable(x) =>
                                 \/ \E i \in DOMAIN s : s[i] = x
                                 \/ \E f \in task[p].found : f.path = x
  BY <1>1 DEF WalkStory, s
<1>12. \A i, j \in DOMAIN Tail(s) : Tail(s)[i] = Tail(s)[j] => i = j
  BY <1>7, <1>11
<1>13. \A i \in DOMAIN Tail(s), f \in found : Tail(s)[i] # f.path
  BY <1>7, <1>8, <1>10, <1>11
<1>14. DistinctPaths(found)
  BY <1>7, <1>8, <1>10, <1>11 DEF DistinctPaths
<1>15. task[p].quiet => \A f \in found : StillThere(f)
  BY <1>9, <1>10, <1>11
<1>16. ASSUME task[p].quiet, NEW x \in Path, Readable(x)
       PROVE  (\E i \in DOMAIN Tail(s) : Tail(s)[i] = x) \/ (\E f \in found : f.path = x)
  <2>1. CASE x = path
    BY <1>3, <1>8, <1>16, <2>1
  <2>2. CASE x # path
    BY <1>3, <1>7, <1>11, <1>16, <2>2
  <2>. QED BY <2>1, <2>2
<1>17. WalkStory(t)
  BY <1>5, <1>12, <1>13, <1>14, <1>15, <1>16 DEF WalkStory
<1>18. Story(t)
  BY <1>5, <1>17 DEF Story, StoringPcs
<1>. QED BY <1>1, <1>6, <1>18, ThoughtStories

LEMMA BeginStories ==
    ASSUME StoriesInv, IndexInv, IndexInv', NEW p \in Process, BeginStore(p)
    PROVE  StoriesInv'
<1>1. /\ task[p].pc = "walk" /\ UNCHANGED <<current, envVars>> /\ task[p].unvisited = <<>>
      /\ task[p] \in Task /\ WalkStory(task[p]) /\ writer = None
      /\ draft' = [current EXCEPT !.generation = task[p].generation]
      /\ writer' = p /\ TableInv(current)
  BY DEF BeginStore, BeginWith, CanWrite, At, IndexInv, TasksInv, StoriesInv, Story,
         DatabaseInv
<1>2. task[p] \in WalkTask /\ task[p].quiet \in BOOLEAN
  BY <1>1, TaskKinds DEF WalkTask
<1>3. PICK t : t = [pc |-> "next", quiet |-> task[p].quiet,
                    generation |-> task[p].generation, queue |-> task[p].found]
  OBVIOUS
<1>4. /\ t.pc = "next" /\ t.quiet = task[p].quiet /\ t.generation = task[p].generation
      /\ t.queue = task[p].found /\ Become(p, t)
  BY <1>3 DEF BeginStore
<1>5. task'[p] = t /\ \A q \in Process \ {p} : task'[q] \in {task[q], Disturbed(q)}
  BY <1>4, OtherTasks
<1>6. draft'.rows = current.rows /\ RowIds(draft)' = RowIds(current)
  BY <1>1 DEF TableInv, Database, RowIds
<1>7. \A id \in RowIds(current) : current.rows[id].seen # t.generation
  <2>1. t.generation = current.generation + 1
    <3>1. draft'.generation = current'.generation + 1
      BY <1>1, NoneAssumption DEF IndexInv, DatabaseInv
    <3>. QED BY <1>1, <1>4, <3>1 DEF TableInv, Database
  <2>2. \A id \in RowIds(current) : /\ current.rows[id].seen <= current.generation
                                    /\ current.rows[id].seen \in Nat
    BY <1>1, TableTyped DEF TableInv, RowIds, IndexRow
  <2>3. current.generation \in Nat
    BY <1>1 DEF TableInv, Database
  <2>. QED BY <2>1, <2>2, <2>3
<1>8. UNCHANGED <<files, hidden>>
  BY <1>1 DEF envVars
<1>9. KeptStory(t)'
  BY <1>1, <1>6 DEF KeptStory, HasMoved, RowIds
<1>10. t.quiet => QuietStory(t)'
  <2>1. ASSUME t.quiet
        PROVE  /\ \A f \in t.queue : StillThere(f)
               /\ \A path \in Path : Readable(path) => \E f \in t.queue : f.path = path
    BY <1>1, <1>4, <2>1, EmptySeq DEF WalkStory
  <2>. QED BY <1>1, <1>6, <1>7, <1>8, <2>1
           DEF QuietStory, Stored, Untouched, StillThere, Readable, RowIds
<1>11. MoveStory(t)'
  BY <1>1, <1>6 DEF MoveStory, HasMoved, RowIds
<1>12. DistinctPaths(t.queue)
  BY <1>1, <1>4 DEF WalkStory
<1>13. Story(t)'
  BY <1>4, <1>9, <1>10, <1>11, <1>12 DEF Story, StoringPcs
<1>14. PICK u : u = task'[p]
  OBVIOUS
<1>15. Story(u)'
  BY <1>5, <1>13, <1>14
<1>16. Story(task[p])'
  BY <1>14, <1>15, StoryNow
<1>17. \A q \in Process : writer # q
  BY <1>1, NoneAssumption
<1>. QED BY <1>1, <1>5, <1>16, <1>17, StoriesStep

\* Rows that were there before a transaction are not marked as its own.
LEMMA NotYetStored ==
    ASSUME IndexInv, NEW p \in Process, task[p].pc \in StoringPcs,
           NEW id \in RowIds(current)
    PROVE  current.rows[id].seen # task[p].generation
<1>1. task[p].generation = current.generation + 1
  BY StoringCall
<1>2. current.generation \in Nat /\ current.rows[id].seen \in Nat
  BY TableTyped DEF IndexInv, DatabaseInv, TableInv, Database, RowIds, IndexRow
<1>3. current.rows[id].seen <= current.generation
  BY DEF IndexInv, DatabaseInv, TableInv, RowIds
<1>. QED BY <1>1, <1>2, <1>3

\* One row is written for the first file of the queue: a row that has its path, a
\* new one, or one that moves there for a reason.
LEMMA WriteStories ==
    ASSUME StoriesInv, IndexInv, UNCHANGED <<current, envVars>>, NEW p \in Process,
           task[p].pc \in StoringPcs, task[p].queue # {}, NEW k, NEW new,
           RowIds(draft)' = RowIds(draft) \cup {k},
           \A i \in RowIds(draft) \cup {k} :
               draft'.rows[i] = IF i = k THEN new ELSE draft.rows[i],
           new.path = Scanned(p).path, new.seen = task[p].generation,
           task[p].quiet => ~new.missing /\ Fits(new),
           k \in RowIds(draft) => new.digest \in {None, draft.rows[k].digest},
           k \in RowIds(draft) /\ draft.rows[k].path # Scanned(p).path =>
               /\ new.digest # None
               /\ task[p].quiet =>
                      /\ Untouched(k)
                      /\ draft.rows[k].missing \/ ~Readable(draft.rows[k].path)
                      /\ files[Scanned(p).path].content = draft.rows[k].digest
                      /\ Kind[Scanned(p).path] = Kind[draft.rows[k].path]
                      /\ \A other \in RowIds(current) \ {k} : ~Rival(k, other),
           NEW t \in NextTask, t.quiet = task[p].quiet,
           t.generation = task[p].generation, t.queue = Rest(p), Become(p, t)
    PROVE  StoriesInv'
<1>1. /\ Scanned(p) \in task[p].queue /\ t.queue = task[p].queue \ {Scanned(p)}
      /\ task[p].queue \in SUBSET Found
  BY StoringCall, FirstIsFound DEF Scanned, Rest
<1>2. /\ RowIds(current) \subseteq RowIds(draft) /\ writer = p
      /\ \A id \in RowIds(current) : current.rows[id].seen # task[p].generation
  BY StoringCall, NotYetStored
<1>3. /\ DistinctPaths(task[p].queue) /\ KeptStory(task[p])
      /\ task[p].quiet => QuietStory(task[p]) /\ MoveStory(task[p])
  BY DEF StoriesInv, Story
<1>4. UNCHANGED <<files, hidden>>
  BY DEF envVars
<1>5. \A id \in RowIds(current) : k = id /\ HasMoved(id)' =>
          draft.rows[k].path # Scanned(p).path
  BY <1>1, <1>2, <1>3 DEF KeptStory, HasMoved
<1>6. \A id \in RowIds(current) : id # k =>
          /\ draft'.rows[id] = draft.rows[id]
          /\ HasMoved(id)' <=> HasMoved(id)
          /\ Untouched(id)' <=> Untouched(id)
  BY <1>2 DEF HasMoved, Untouched, RowIds
<1>7. \A f \in t.queue : f \in task[p].queue /\ f.path # Scanned(p).path
  BY <1>1, <1>3 DEF DistinctPaths
<1>8. DistinctPaths(t.queue)
  BY <1>1, <1>3 DEF DistinctPaths
<1>9. KeptStory(t)'
  <2>1. ASSUME NEW id \in RowIds(current)
        PROVE  /\ HasMoved(id)' => /\ current.rows[id].digest # None
                                   /\ draft'.rows[id].digest = current.rows[id].digest
                                   /\ \A f \in t.queue : f.path # draft'.rows[id].path
               /\ draft'.rows[id].digest \in {None, current.rows[id].digest}
    <3>1. CASE id = k
      <4>1. k \in RowIds(draft) /\ draft'.rows[k] = new
        BY <1>2, <3>1
      <4>2. new.digest \in {None, current.rows[k].digest}
        BY <1>3, <3>1, <4>1 DEF KeptStory
      <4>3. HasMoved(k)' => new.digest # None
        BY <1>5, <3>1, <4>1
      <4>. QED BY <1>7, <3>1, <4>1, <4>2, <4>3
    <3>2. CASE id # k
      BY <1>3, <1>6, <1>7, <3>2 DEF KeptStory
    <3>. QED BY <3>1, <3>2
  <2>. QED BY <2>1 DEF KeptStory, RowIds
<1>10. ASSUME t.quiet
       PROVE  QuietStory(t)'
  <2>1. QuietStory(task[p])
    BY <1>3, <1>10
  <2>2. \A f \in t.queue : StillThere(f)'
    BY <1>4, <1>7, <2>1 DEF QuietStory, StillThere, Readable
  <2>3. ASSUME NEW path \in Path, Readable(path)
        PROVE  \/ \E f \in t.queue : f.path = path
               \/ \E id \in RowIds(draft)' : draft'.rows[id].path = path /\ Stored(t, id)'
    <3>1. CASE path = Scanned(p).path
      BY <3>1 DEF Stored
    <3>2. CASE path # Scanned(p).path /\ \E f \in task[p].queue : f.path = path
      BY <1>1, <3>2
    <3>3. ASSUME path # Scanned(p).path,
                 NEW id \in RowIds(draft), draft.rows[id].path = path, Stored(task[p], id)
          PROVE  \E i \in RowIds(draft)' : draft'.rows[i].path = path /\ Stored(t, i)'
      <4>1. CASE id = k
        <5>1. Untouched(k)
          BY <1>10, <3>3, <4>1
        <5>. QED BY <1>2, <3>3, <4>1, <5>1 DEF Untouched, Stored
      <4>2. CASE id # k
        BY <3>3, <4>2 DEF Stored
      <4>. QED BY <4>1, <4>2
    <3>. QED BY <2>1, <2>3, <3>1, <3>2, <3>3 DEF QuietStory
  <2>4. ASSUME NEW id \in RowIds(draft)'
        PROVE  IF Stored(t, id)' THEN ~draft'.rows[id].missing /\ Fits(draft'.rows[id])
               ELSE Untouched(id)'
    <3>1. CASE id = k
      BY <1>10, <3>1 DEF Stored
    <3>2. CASE id # k
      <4>1. id \in RowIds(draft) /\ draft'.rows[id] = draft.rows[id]
        BY <3>2
      <4>2. Untouched(id) => Untouched(id)'
        BY <4>1 DEF Untouched, RowIds
      <4>. QED BY <2>1, <4>1, <4>2 DEF QuietStory, Stored
    <3>. QED BY <3>1, <3>2
  <2>. QED BY <1>4, <2>2, <2>3, <2>4 DEF QuietStory, Readable, Fits
<1>11. ASSUME t.quiet
       PROVE  MoveStory(t)'
  <2>1. MoveStory(task[p])
    BY <1>3, <1>11
  <2>2. \A id, other \in RowIds(current) : Rival(id, other)' => Rival(id, other)
    <3>1. \A other \in RowIds(current) : Untouched(other)' => Untouched(other)
      <4>1. ~Untouched(k)'
        BY <1>2 DEF Untouched, RowIds
      <4>. QED BY <1>6, <4>1
    <3>. QED BY <1>4, <3>1 DEF Rival, Readable
  <2>3. ASSUME NEW id \in RowIds(current), HasMoved(id)'
        PROVE  /\ current.rows[id].missing \/ ~Readable(current.rows[id].path)
               /\ files[draft'.rows[id].path].content = current.rows[id].digest
               /\ Kind[draft'.rows[id].path] = Kind[current.rows[id].path]
               /\ \A other \in RowIds(current) \ {id} : ~Rival(id, other)
    <3>1. CASE id = k
      <4>1. k \in RowIds(draft) /\ draft.rows[k].path # Scanned(p).path /\ draft'.rows[k] = new
        BY <1>2, <1>5, <2>3, <3>1
      <4>2. draft.rows[k] = current.rows[k]
        BY <1>11, <4>1 DEF Untouched
      <4>. QED BY <1>11, <3>1, <4>1, <4>2
    <3>2. CASE id # k
      BY <1>6, <2>1, <2>3, <3>2 DEF MoveStory
    <3>. QED BY <3>1, <3>2
  <2>. QED BY <1>4, <2>2, <2>3 DEF MoveStory, Readable, RowIds
<1>12. Story(t)'
  <2>1. t.pc = "next"
    BY DEF NextTask
  <2>. QED BY <1>8, <1>9, <1>10, <1>11, <2>1 DEF Story, StoringPcs
<1>13. task'[p] = t /\ \A q \in Process \ {p} : task'[q] \in {task[q], Disturbed(q)}
  BY OtherTasks
<1>14. PICK u : u = task'[p]
  OBVIOUS
<1>15. Story(u)'
  BY <1>12, <1>13, <1>14
<1>16. Story(task[p])'
  BY <1>14, <1>15, StoryNow
<1>. QED BY <1>2, <1>13, <1>16, StoriesStep

LEMMA ExamineStories ==
    ASSUME StoriesInv, IndexInv, NEW p \in Process, Examine(p)
    PROVE  StoriesInv'
<1>1. /\ task[p].pc = "next" /\ task[p].pc \in StoringPcs /\ task[p].queue # {}
      /\ UNCHANGED envVars /\ Readable(Scanned(p).path)
  BY DEF Examine, At, StoringPcs
<1>2. /\ task[p] \in NextTask /\ task[p].quiet \in BOOLEAN
      /\ writer = p /\ TableInv(draft)
      /\ Scanned(p) = FirstOf(task[p].queue) /\ Scanned(p) \in task[p].queue
      /\ Rest(p) \in SUBSET Found /\ task[p].queue \in SUBSET Found
  BY <1>1, StoringCall, ScannedFile, TaskKinds, FirstIsFound
<1>3. /\ DistinctPaths(task[p].queue) /\ KeptStory(task[p])
      /\ task[p].quiet => QuietStory(task[p]) /\ MoveStory(task[p])
  BY <1>1 DEF StoriesInv, Story
<1>. DEFINE path == Scanned(p).path
            ids == RowAt(draft, path)
            fits == {id \in ids : Unchanged(p, draft.rows[id])}
            rows == [id \in RowIds(draft) |->
                        IF id \in fits
                        THEN [draft.rows[id] EXCEPT !.seen = task[p].generation]
                        ELSE draft.rows[id]]
            touched == [draft EXCEPT !.rows = rows]
            t == [pc |-> IF ids = {} /\ Candidates(p) # {} THEN "hash" ELSE "parse",
                  quiet |-> task[p].quiet,
                  generation |-> task[p].generation,
                  queue |-> task[p].queue,
                  ticks |-> files[path].ticks,
                  candidates |-> IF ids = {} THEN Candidates(p) ELSE {},
                  digest |-> None]
<1>4. \/ /\ Edit(p, touched) /\ Become(p, [task[p] EXCEPT !.queue = Rest(p)])
         /\ fits # {}
      \/ Become(p, t) /\ UNCHANGED fileVars
  BY DEF Examine
<1>5. CASE /\ Edit(p, touched) /\ Become(p, [task[p] EXCEPT !.queue = Rest(p)])
           /\ fits # {}
  <2>1. PICK k \in RowIds(draft) : k \in fits
    BY <1>5 DEF RowAt
  <2>2. \A i, j \in RowIds(draft) : draft.rows[i].path = draft.rows[j].path => i = j
    BY <1>2 DEF TableInv, RowIds
  <2>3. \A i \in RowIds(draft) : i \in fits <=> i = k
    BY <2>1, <2>2 DEF RowAt
  <2>4. /\ draft.rows[k].path = path /\ draft.rows[k].size = Scanned(p).size
        /\ draft.rows[k].ticks = files[path].ticks /\ ~draft.rows[k].missing
    BY <2>1 DEF RowAt, Unchanged
  <2>5. PICK new : new = [draft.rows[k] EXCEPT !.seen = task[p].generation]
    OBVIOUS
  <2>6. draft.rows[k] \in IndexRow
    BY <1>2, <2>1, TableTyped DEF RowIds
  <2>7. /\ new.path = path /\ new.size = Scanned(p).size /\ new.ticks = files[path].ticks
        /\ ~new.missing /\ new.seen = task[p].generation
        /\ new.digest = draft.rows[k].digest
    BY <2>4, <2>5, <2>6 DEF IndexRow
  <2>8. /\ draft' = touched /\ UNCHANGED current
    BY <1>5 DEF Edit
  <2>9. draft'.rows = rows
    BY <1>2, <2>8 DEF TableInv, Database
  <2>. HIDE DEF fits
  <2>10. /\ RowIds(draft)' = RowIds(draft) \cup {k}
         /\ \A i \in RowIds(draft) \cup {k} :
                draft'.rows[i] = IF i = k THEN new ELSE draft.rows[i]
    BY <2>1, <2>3, <2>5, <2>9 DEF RowIds
  <2>11. task[p].quiet => Fits(new)
    BY <1>1, <1>2, <1>3, <2>7 DEF Fits, QuietStory, StillThere
  <2>12. PICK u : u = [task[p] EXCEPT !.queue = Rest(p)]
    OBVIOUS
  <2>13. /\ u \in NextTask /\ u.generation = task[p].generation /\ u.quiet = task[p].quiet
         /\ u.queue = Rest(p) /\ Become(p, u)
    BY <1>2, <1>5, <2>12 DEF NextTask
  <2>14. k \in RowIds(draft) => new.digest \in {None, draft.rows[k].digest}
    BY <2>7
  <2>15. ~(k \in RowIds(draft) /\ draft.rows[k].path # Scanned(p).path)
    BY <2>4
  <2>. HIDE DEF rows, touched, path
  <2>16. new.path = Scanned(p).path
    BY <2>7 DEF path
  <2>. QED BY <1>1, <2>7, <2>8, <2>10, <2>11, <2>13, <2>14, <2>15, <2>16, WriteStories
<1>6. CASE Become(p, t) /\ UNCHANGED fileVars
  <2>1. PICK u : u = t
    OBVIOUS
  <2>2. /\ u.pc \in {"hash", "parse"} /\ u.quiet = task[p].quiet
        /\ u.generation = task[p].generation /\ u.queue = task[p].queue
        /\ u.ticks = files[path].ticks /\ u.candidates \in {{}, Candidates(p)}
        /\ u.pc = "hash" => u.candidates # {}
        /\ u.digest = None
    BY <2>1
  <2>3. Become(p, u) /\ UNCHANGED <<current, draft, envVars>>
    BY <1>1, <1>6, <2>1 DEF fileVars
  <2>. HIDE DEF t, ids
  <2>4. Candidates(p) = Origins(FirstOf(u.queue))
    BY <1>2, <2>2 DEF Candidates, Origins
  <2>5. ParseStory(u)
    <3>1. \A id \in u.candidates : draft.rows[id].digest # None
      BY <2>2 DEF Candidates
    <3>. QED BY <1>2, <2>2, <2>4, <3>1 DEF ParseStory
  <2>6. KeptStory(u)
    BY <1>3, <2>2 DEF KeptStory
  <2>7. u.quiet => QuietStory(u) /\ MoveStory(u)
    BY <1>3, <2>2 DEF QuietStory, MoveStory, Stored
  <2>8. Story(u)
    BY <1>3, <2>2, <2>5, <2>6, <2>7 DEF Story, StoringPcs
  <2>. QED BY <2>3, <2>8, ThoughtStories
<1>. QED BY <1>4, <1>5, <1>6

LEMMA HashCandidateStories ==
    ASSUME StoriesInv, IndexInv, NEW p \in Process, HashCandidate(p)
    PROVE  StoriesInv'
<1>1. /\ task[p].pc = "hash" /\ task[p].pc \in StoringPcs
      /\ UNCHANGED <<current, draft, envVars>>
  BY DEF HashCandidate, At, StoringPcs, fileVars
<1>2. /\ TaskInv(p, task[p]) /\ task[p] \in StoreTask
  BY <1>1, StoringCall, TaskKinds
<1>3. /\ DistinctPaths(task[p].queue) /\ KeptStory(task[p]) /\ ParseStory(task[p])
      /\ task[p].quiet => QuietStory(task[p]) /\ MoveStory(task[p])
  BY <1>1 DEF StoriesInv, Story
<1>4. Scanned(p) = FirstOf(task[p].queue)
  BY DEF Scanned
<1>5. PICK t : t = [task[p] EXCEPT !.pc = "parse", !.digest = ReadFile(Scanned(p).path)]
  OBVIOUS
<1>6. /\ t.pc = "parse" /\ t.quiet = task[p].quiet /\ t.generation = task[p].generation
      /\ t.queue = task[p].queue /\ t.ticks = task[p].ticks
      /\ t.candidates = task[p].candidates
      /\ t.digest \in {None, files[FirstOf(t.queue).path].content}
  BY <1>2, <1>4, <1>5 DEF StoreTask, ReadFile
<1>7. Become(p, t)
  BY <1>5 DEF HashCandidate
<1>8. t.candidates # {}
  BY <1>1, <1>3, <1>6 DEF ParseStory
<1>9. ParseStory(t)
  BY <1>3, <1>6, <1>8 DEF ParseStory
<1>10. KeptStory(t)
  BY <1>3, <1>6 DEF KeptStory
<1>11. t.quiet => QuietStory(t) /\ MoveStory(t)
  BY <1>3, <1>6 DEF QuietStory, MoveStory, Stored
<1>12. Story(t)
  BY <1>3, <1>6, <1>9, <1>10, <1>11 DEF Story, StoringPcs
<1>. QED BY <1>1, <1>7, <1>12, ThoughtStories

\* The row that a quiet refresh takes for a file has no rival.
LEMMA NoRival ==
    ASSUME StoriesInv, IndexInv, NEW p \in Process, task[p].pc = "parse", task[p].quiet,
           NEW k, Recovered(p) = {k}
    PROVE  /\ Untouched(k) /\ k \in RowIds(draft)
           /\ draft.rows[k].missing \/ ~Readable(draft.rows[k].path)
           /\ files[Scanned(p).path].content = draft.rows[k].digest
           /\ Kind[Scanned(p).path] = Kind[draft.rows[k].path]
           /\ \A other \in RowIds(current) \ {k} : ~Rival(k, other)
<1>1. task[p].pc \in StoringPcs /\ Scanned(p) = FirstOf(task[p].queue)
  BY DEF StoringPcs, Scanned
<1>2. TaskInv(p, task[p]) /\ RowIds(current) \subseteq RowIds(draft)
  BY <1>1, StoringCall
<1>3. ParseStory(task[p]) /\ QuietStory(task[p]) /\ MoveStory(task[p])
  BY <1>1 DEF StoriesInv, Story
<1>4. Matches(p) = {k} /\ k \in task[p].candidates /\ task[p].digest # None
      /\ draft.rows[k].digest = task[p].digest
  BY DEF Recovered, Matches
<1>5. /\ task[p].candidates = Origins(Scanned(p))
      /\ RowAt(draft, Scanned(p).path) = {}
      /\ files[Scanned(p).path].content = task[p].digest
  BY <1>1, <1>2, <1>3, <1>4 DEF ParseStory, TaskInv
<1>6. /\ k \in RowIds(draft) /\ Kind[draft.rows[k].path] = Kind[Scanned(p).path]
      /\ draft.rows[k].size = Scanned(p).size
      /\ draft.rows[k].missing \/ ~Readable(draft.rows[k].path)
  BY <1>4, <1>5 DEF Origins
<1>7. Untouched(k)
  BY <1>3, <1>6 DEF QuietStory, Fits
<1>8. draft.rows[k] = current.rows[k] /\ k \in RowIds(current)
  BY <1>7 DEF Untouched
<1>9. ASSUME NEW other \in RowIds(current) \ {k}, Rival(k, other)
      PROVE  FALSE
  <2>1. /\ current.rows[other].digest = task[p].digest
        /\ Kind[current.rows[other].path] = Kind[Scanned(p).path]
        /\ current.rows[other].size = Scanned(p).size
        /\ \/ Untouched(other) /\ current.rows[other].missing
           \/ ~Readable(current.rows[other].path)
    BY <1>4, <1>6, <1>8, <1>9 DEF Rival
  <2>2. CASE Untouched(other)
    <3>1. draft.rows[other] = current.rows[other] /\ other \in RowIds(draft)
      BY <1>2, <2>2 DEF Untouched
    <3>2. draft.rows[other].path # Scanned(p).path
      BY <1>5, <3>1 DEF RowAt
    <3>3. other \in Origins(Scanned(p))
      BY <1>4, <2>1, <3>1, <3>2 DEF Origins
    <3>4. other \in Matches(p)
      BY <1>4, <1>5, <2>1, <3>1, <3>3 DEF Matches
    <3>. QED BY <1>4, <3>4
  <2>3. CASE ~Untouched(other)
    <3>1. Readable(draft.rows[other].path)
      BY <1>2, <1>3, <2>3 DEF QuietStory, Fits
    <3>2. HasMoved(other)
      BY <2>1, <2>3, <3>1 DEF HasMoved
    <3>3. ~Rival(other, k)
      BY <1>3, <1>8, <3>2 DEF MoveStory
    <3>. QED BY <1>4, <1>6, <1>7, <1>8, <2>1, <3>3 DEF Rival
  <2>. QED BY <2>2, <2>3
<1>. QED BY <1>4, <1>5, <1>6, <1>7, <1>9

LEMMA StoreRowStories ==
    ASSUME StoriesInv, IndexInv, NEW p \in Process, StoreRow(p)
    PROVE  StoriesInv'
<1>1. /\ task[p].pc = "parse" /\ task[p].pc \in StoringPcs /\ UNCHANGED envVars
  BY DEF StoreRow, At, StoringPcs
<1>2. /\ TaskInv(p, task[p]) /\ task[p] \in StoreTask /\ TableInv(draft)
      /\ task[p].quiet \in BOOLEAN /\ task[p].generation \in Nat
      /\ task[p].queue # {} /\ task[p].queue \in SUBSET Found
  BY <1>1, StoringCall, TaskKinds DEF TaskInv
<1>3. /\ Scanned(p) = FirstOf(task[p].queue) /\ Scanned(p) \in task[p].queue
      /\ Rest(p) \in SUBSET Found
  BY <1>1, <1>2, ScannedFile, FirstIsFound
<1>4. /\ ParseStory(task[p])
      /\ task[p].quiet => QuietStory(task[p])
  BY <1>1 DEF StoriesInv, Story
<1>5. PICK k \in RowIds(draft) \cup {Len(draft.rows) + 1} : \E new :
          /\ StoreAt(p) = {k}
          /\ k \in Recovered(p) => draft.rows[k].digest = task[p].digest
          /\ new = RowOf(Scanned(p).path, Scanned(p).size, task[p].ticks,
                         ReadFile(Scanned(p).path), task[p].generation, task[p].digest)
          /\ Edit(p, Written(draft, k, new))
  BY StoreRowWrites
<1>6. PICK new :
          /\ StoreAt(p) = {k}
          /\ k \in Recovered(p) => draft.rows[k].digest = task[p].digest
          /\ new = RowOf(Scanned(p).path, Scanned(p).size, task[p].ticks,
                         ReadFile(Scanned(p).path), task[p].generation, task[p].digest)
          /\ Edit(p, Written(draft, k, new))
  BY <1>5
<1>7. /\ new.path = Scanned(p).path /\ new.size = Scanned(p).size
      /\ new.ticks = task[p].ticks /\ new.seen = task[p].generation /\ ~new.missing
      /\ new.digest = task[p].digest
  BY <1>6 DEF RowOf
<1>8. draft' = Written(draft, k, new) /\ UNCHANGED current
  BY <1>6 DEF Edit
<1>9. PICK db : db = Written(draft, k, new)
  OBVIOUS
<1>10. /\ RowIds(db) = RowIds(draft) \cup {k}
       /\ \A i \in RowIds(draft) \cup {k} :
              db.rows[i] = IF i = k THEN new ELSE draft.rows[i]
  BY <1>2, <1>9, WrittenRows
<1>11. /\ RowIds(draft)' = RowIds(draft) \cup {k}
       /\ \A i \in RowIds(draft) \cup {k} :
              draft'.rows[i] = IF i = k THEN new ELSE draft.rows[i]
  BY <1>8, <1>9, <1>10 DEF RowIds
<1>12. task[p].quiet => ~new.missing /\ Fits(new)
  BY <1>3, <1>4, <1>7 DEF Fits, QuietStory, StillThere, ParseStory
<1>13. /\ k \in RowIds(draft) => new.digest \in {None, draft.rows[k].digest}
       /\ k \in RowIds(draft) /\ draft.rows[k].path # Scanned(p).path =>
             /\ new.digest # None
             /\ task[p].quiet =>
                   /\ Untouched(k)
                   /\ draft.rows[k].missing \/ ~Readable(draft.rows[k].path)
                   /\ files[Scanned(p).path].content = draft.rows[k].digest
                   /\ Kind[Scanned(p).path] = Kind[draft.rows[k].path]
                   /\ \A other \in RowIds(current) \ {k} : ~Rival(k, other)
  <2>1. CASE Recovered(p) # {}
    <3>1. Recovered(p) = {k}
      BY <1>6, <2>1 DEF StoreAt
    <3>2. new.digest = draft.rows[k].digest /\ new.digest # None
      BY <1>6, <1>7, <3>1 DEF Recovered, Matches
    <3>3. task[p].quiet =>
             /\ Untouched(k)
             /\ draft.rows[k].missing \/ ~Readable(draft.rows[k].path)
             /\ files[Scanned(p).path].content = draft.rows[k].digest
             /\ Kind[Scanned(p).path] = Kind[draft.rows[k].path]
             /\ \A other \in RowIds(current) \ {k} : ~Rival(k, other)
      BY <1>1, <3>1, NoRival
    <3>. QED BY <3>2, <3>3
  <2>2. CASE Recovered(p) = {} /\ RowAt(draft, Scanned(p).path) # {}
    <3>1. k \in RowAt(draft, Scanned(p).path)
      BY <1>6, <2>2 DEF StoreAt
    <3>2. task[p].candidates = {}
      BY <1>1, <1>2, <1>3, <2>2 DEF TaskInv
    <3>3. new.digest = None
      BY <1>4, <1>7, <3>2 DEF ParseStory
    <3>. QED BY <3>1, <3>3 DEF RowAt
  <2>3. CASE Recovered(p) = {} /\ RowAt(draft, Scanned(p).path) = {}
    <3>1. k = Len(draft.rows) + 1
      BY <1>6, <2>3 DEF StoreAt
    <3>2. RowIds(draft) = 1..Len(draft.rows) /\ Len(draft.rows) \in Nat
      BY <1>2, TableTyped DEF RowIds
    <3>3. k \notin RowIds(draft)
      BY <3>1, <3>2
    <3>. QED BY <3>3
  <2>. QED BY <2>1, <2>2, <2>3
<1>14. PICK t : t = [pc |-> "next", quiet |-> task[p].quiet,
                     generation |-> task[p].generation, queue |-> Rest(p)]
  OBVIOUS
<1>15. /\ t \in NextTask /\ t.quiet = task[p].quiet /\ t.generation = task[p].generation
       /\ t.queue = Rest(p) /\ Become(p, t)
  BY <1>2, <1>3, <1>14 DEF NextTask, StoreRow
<1>. QED BY <1>1, <1>2, <1>7, <1>8, <1>11, <1>12, <1>13, <1>15, WriteStories

-----------------------------------------------------------------------------
(* Every step has its story, and what the stories come to.                  *)

LEMMA StoriesNext ==
    ASSUME IndexInv, StoriesInv, [Next]_vars
    PROVE  StoriesInv'
<1>1. IndexInv'
  BY IndexStep
<1>2. CASE Environment
  BY <1>2, StoriesEnvironment
<1>3. ASSUME NEW p \in Process, Hash(p) \/ AddRoot(p)
      PROVE  StoriesInv'
  BY <1>1, <1>3, OutsideStories
<1>4. ASSUME NEW p \in Process,
             \/ AddRootFails(p) \/ RootUnavailable(p) \/ StoreRefused(p)
             \/ ExamineFails(p) \/ Kill(p) \/ FinishRefresh(p)
      PROVE  StoriesInv'
  <2>1. GiveUp(p) \/ FinishRefresh(p)
    BY <1>4 DEF AddRootFails, RootUnavailable, StoreRefused, ExamineFails, Kill
  <2>. QED BY <1>1, <2>1, EndStories
<1>5. ASSUME NEW p \in Process,
             \/ StartRefresh(p) \/ Visit(p) \/ AbandonWalk(p) \/ BeginStore(p)
             \/ Examine(p) \/ HashCandidate(p) \/ StoreRow(p)
      PROVE  StoriesInv'
  BY <1>1, <1>5, StartRefreshStories, VisitStories, AbandonStories, BeginStories,
     ExamineStories, HashCandidateStories, StoreRowStories
<1>6. CASE UNCHANGED vars
  <2>1. ASSUME NEW q \in Process
        PROVE  Story(task[q])'
    <3>1. PICK u : u = task[q]
      OBVIOUS
    <3>2. Story(u) /\ UNCHANGED <<files, hidden, current, draft>> /\ u = task'[q]
      BY <1>6, <3>1 DEF StoriesInv, vars, envVars, fileVars
    <3>3. Story(u)'
      BY <3>2, StoryKept
    <3>. QED BY <3>2, <3>3, StoryNow
  <2>. QED BY <2>1 DEF StoriesInv
<1>. QED BY <1>2, <1>3, <1>4, <1>5, <1>6 DEF Next, Refresh

LEMMA StoriesInvariant == Spec => []StoriesInv
<1>1. Init => StoriesInv
  BY DEF Init, StoriesInv, New, Story, StoringPcs
<1>2. IndexInv /\ StoriesInv /\ [Next]_vars => StoriesInv'
  BY StoriesNext
<1>. QED BY <1>1, <1>2, IndexInvariant, PTL DEF Spec

\* What changes the index when a refresh is at its end is that end.
LEMMA FinishingStep ==
    ASSUME IndexInv, [Next]_vars, NEW p \in Process, Finishes(p)
    PROVE  FinishRefresh(p)
<1>1. writer = p /\ p # None /\ current' # current
  BY StoringCall DEF Finishes, At, StoringPcs
<1>2. ~Environment /\ ~UNCHANGED vars
  BY <1>1 DEF Environment, Write, Delete, Rename, Hide, Change, fileVars, vars
<1>3. \A q \in Process : ~Kill(q)
  BY <1>1 DEF Kill, GiveUp, LetGo
<1>4. \A q \in Process : ~Hash(q)
  BY <1>1 DEF Hash, StartHash, StartGroup, LookUp, CheckAsset, ReadAsset, CheckAgain,
              StoreDigest, Autocommit, CanWrite, StoreDigestFails, ListCandidates,
              NextCandidate, CollectMatches, Return, fileVars
<1>5. \A q \in Process : Refresh(q) => FinishRefresh(q)
  BY <1>1 DEF Refresh, AddRoot, Autocommit, CanWrite, AddRootFails, StartRefresh,
              RootUnavailable, Visit, AbandonWalk, BeginStore, BeginWith, StoreRefused,
              Examine, ExamineFails, HashCandidate, StoreRow, Edit, GiveUp, LetGo, fileVars
<1>6. \A q \in Process : FinishRefresh(q) => q = p
  BY <1>1 DEF FinishRefresh, CommitAs
<1>. QED BY <1>2, <1>3, <1>4, <1>5, <1>6 DEF Next

\* The rows that a refresh leaves are those of its draft, the unseen missing.
LEMMA RowsLeft ==
    ASSUME IndexInv, StoriesInv, NEW p \in Process, FinishRefresh(p)
    PROVE  /\ task[p].queue = {}
           /\ KeptStory(task[p])
           /\ task[p].quiet => QuietStory(task[p]) /\ MoveStory(task[p])
           /\ RowIds(current) \subseteq RowIds(draft)
           /\ RowIds(current') = RowIds(draft)
           /\ \A id \in RowIds(draft) :
                 LET row == current'.rows[id]
                 IN  /\ row.path = draft.rows[id].path
                     /\ row.size = draft.rows[id].size
                     /\ row.ticks = draft.rows[id].ticks
                     /\ row.digest = draft.rows[id].digest
                     /\ row.missing <=> draft.rows[id].missing \/ ~Stored(task[p], id)
<1>1. task[p].pc \in StoringPcs /\ task[p].queue = {}
  BY DEF FinishRefresh, At, StoringPcs
<1>2. TableInv(draft) /\ RowIds(current) \subseteq RowIds(draft)
  BY <1>1, StoringCall
<1>3. /\ KeptStory(task[p])
      /\ task[p].quiet => QuietStory(task[p]) /\ MoveStory(task[p])
  BY <1>1 DEF StoriesInv, Story
<1>. DEFINE rows == [id \in RowIds(draft) |->
                       [draft.rows[id] EXCEPT
                          !.missing = @ \/ Unseen(draft.rows[id], task[p].generation)]]
<1>4. current' = [draft EXCEPT !.rows = rows]
  BY DEF FinishRefresh, CommitAs
<1>5. current'.rows = rows
  BY <1>2, <1>4 DEF TableInv, Database
<1>6. ASSUME NEW id \in RowIds(draft)
      PROVE  LET row == rows[id]
             IN  /\ row.path = draft.rows[id].path
                 /\ row.size = draft.rows[id].size
                 /\ row.ticks = draft.rows[id].ticks
                 /\ row.digest = draft.rows[id].digest
                 /\ row.missing <=> draft.rows[id].missing \/ ~Stored(task[p], id)
  <2>1. draft.rows[id] \in IndexRow
    BY <1>2, TableTyped DEF RowIds
  <2>. QED BY <2>1 DEF IndexRow, Unseen, Stored
<1>7. DOMAIN rows = RowIds(draft)
  OBVIOUS
<1>. HIDE DEF rows
<1>. QED BY <1>1, <1>2, <1>3, <1>5, <1>6, <1>7 DEF RowIds

(* However often the files of an index are moved, a row follows a file to     *)
(* another path only with a known digest, which it keeps.  When nothing       *)
(* changed meanwhile, the row's own file was gone, the file at the new path   *)
(* has the row's digest, and no other row whose file is gone competed for it. *)
THEOREM MovesHaveProof == Spec => MovesAreProven
<1>. DEFINE Proven(p) ==
       Finishes(p) => \A id \in RowIds(current) :
          LET old == current.rows[id]
              new == current'.rows[id]
          IN  new.path # old.path =>
                 /\ old.digest # None
                 /\ new.digest = old.digest
                 /\ task[p].quiet =>
                       /\ old.missing \/ ~Readable(old.path)
                       /\ files[new.path].content = old.digest
                       /\ \A other \in RowIds(current) \ {id} :
                             ~ /\ current.rows[other].digest = old.digest
                               /\ Kind[current.rows[other].path] = Kind[new.path]
                               /\ current.rows[other].size = old.size
                               /\ ~Readable(current.rows[other].path)
<1>1. ASSUME IndexInv, StoriesInv, [Next]_vars, NEW p \in Process, Finishes(p),
             NEW id \in RowIds(current), current'.rows[id].path # current.rows[id].path
      PROVE  LET old == current.rows[id]
                 new == current'.rows[id]
             IN  /\ old.digest # None
                 /\ new.digest = old.digest
                 /\ task[p].quiet =>
                       /\ old.missing \/ ~Readable(old.path)
                       /\ files[new.path].content = old.digest
                       /\ \A other \in RowIds(current) \ {id} :
                             ~ /\ current.rows[other].digest = old.digest
                               /\ Kind[current.rows[other].path] = Kind[new.path]
                               /\ current.rows[other].size = old.size
                               /\ ~Readable(current.rows[other].path)
  <2>1. FinishRefresh(p)
    BY <1>1, FinishingStep
  <2>2. /\ current'.rows[id].path = draft.rows[id].path
        /\ current'.rows[id].digest = draft.rows[id].digest
        /\ KeptStory(task[p])
        /\ task[p].quiet => MoveStory(task[p])
    BY <1>1, <2>1, RowsLeft
  <2>3. HasMoved(id)
    BY <1>1, <2>2 DEF HasMoved
  <2>4. /\ current.rows[id].digest # None
        /\ draft.rows[id].digest = current.rows[id].digest
    BY <2>2, <2>3 DEF KeptStory
  <2>5. ASSUME task[p].quiet
        PROVE  /\ current.rows[id].missing \/ ~Readable(current.rows[id].path)
               /\ files[draft.rows[id].path].content = current.rows[id].digest
               /\ Kind[draft.rows[id].path] = Kind[current.rows[id].path]
               /\ \A other \in RowIds(current) \ {id} : ~Rival(id, other)
    BY <2>2, <2>3, <2>5 DEF MoveStory
  <2>. QED BY <2>2, <2>4, <2>5 DEF Rival
<1>2. ASSUME IndexInv, StoriesInv, [Next]_vars
      PROVE  \A p \in Process : Proven(p)
  BY <1>1, <1>2
<1>3. IndexInv /\ StoriesInv /\ [Next]_vars => [\A p \in Process : Proven(p)]_vars
  BY <1>2
<1>. QED BY <1>3, IndexInvariant, StoriesInvariant, PTL DEF Spec, MovesAreProven

(* A refresh during which no file changed and nobody else committed leaves    *)
(* the readable files present, each with its size and time, and only those:   *)
(* the walk missed none, each was stored or its row touched, and mark_missing *)
(* told these rows from all others by their generation.                       *)
THEOREM QuietRefreshesAreExact == Spec => QuietRefreshIsExact
<1>. DEFINE Exact(p) ==
       Finishes(p) /\ task[p].quiet =>
          {path \in Path : Readable(path)}
          = {row.path : row \in {r \in ToSet(current'.rows) : ~r.missing /\ Fits(r)}}
          /\ \A row \in ToSet(current'.rows) : ~row.missing => Fits(row)
<1>1. ASSUME IndexInv, StoriesInv, [Next]_vars, NEW p \in Process, Finishes(p),
             task[p].quiet
      PROVE  /\ {path \in Path : Readable(path)}
                = {row.path : row \in {r \in ToSet(current'.rows) : ~r.missing /\ Fits(r)}}
             /\ \A row \in ToSet(current'.rows) : ~row.missing => Fits(row)
  <2>1. FinishRefresh(p)
    BY <1>1, FinishingStep
  <2>2. task[p].queue = {} /\ QuietStory(task[p]) /\ RowIds(current') = RowIds(draft)
    BY <1>1, <2>1, RowsLeft
  <2>3. \A id \in RowIds(draft) :
           LET row == current'.rows[id]
           IN  /\ row.path = draft.rows[id].path
               /\ row.size = draft.rows[id].size
               /\ row.ticks = draft.rows[id].ticks
               /\ row.missing <=> draft.rows[id].missing \/ ~Stored(task[p], id)
    BY <2>1, <1>1, RowsLeft
  <2>4. \A id \in RowIds(draft) : Stored(task[p], id) =>
           ~current'.rows[id].missing /\ Fits(current'.rows[id])
    BY <2>2, <2>3 DEF QuietStory, Fits
  <2>5. \A id \in RowIds(draft) :
           ~current'.rows[id].missing => Fits(current'.rows[id])
    BY <2>3, <2>4
  <2>6. \A row \in ToSet(current'.rows) : ~row.missing => Fits(row)
    BY <2>2, <2>5 DEF ToSet, RowIds
  <2>7. ASSUME NEW path \in Path, Readable(path)
        PROVE  \E row \in ToSet(current'.rows) :
                  row.path = path /\ ~row.missing /\ Fits(row)
    <3>1. PICK id \in RowIds(draft) : draft.rows[id].path = path /\ Stored(task[p], id)
      BY <2>2, <2>7 DEF QuietStory
    <3>2. current'.rows[id] \in ToSet(current'.rows)
      BY <2>2 DEF ToSet, RowIds
    <3>. QED BY <2>3, <2>4, <3>1, <3>2
  <2>8. ASSUME NEW row \in ToSet(current'.rows), Fits(row)
        PROVE  row.path \in Path /\ Readable(row.path)
    <3>1. TableInv(current)'
      BY <1>1, IndexStep DEF IndexInv, DatabaseInv
    <3>2. PICK i \in DOMAIN current'.rows : row = current'.rows[i]
      BY DEF ToSet
    <3>3. row \in IndexRow
      BY <3>1, <3>2, TableTyped DEF TableInv, Database
    <3>. QED BY <2>8, <3>3 DEF Fits, IndexRow
  <2>. QED BY <2>6, <2>7, <2>8
<1>2. ASSUME IndexInv, StoriesInv, [Next]_vars
      PROVE  \A p \in Process : Exact(p)
  BY <1>1, <1>2
<1>3. IndexInv /\ StoriesInv /\ [Next]_vars => [\A p \in Process : Exact(p)]_vars
  BY <1>2
<1>. QED BY <1>3, IndexInvariant, StoriesInvariant, PTL DEF Spec, QuietRefreshIsExact

-----------------------------------------------------------------------------
(* The story of a search for duplicates, as long as nothing else happens.   *)

AssetPcs == {"row"} \cup RowPcs

\* The file is as its row says, whose digest is known.
FoundHash(hash, row) == /\ hash # None /\ Fits(row) /\ row.digest = hash
                        /\ files[row.path].content = hash

\* The row's file has other bytes, as far as it is as the row says, or its
\* digest is known.
Settled(hash, row) ==
    ~row.missing /\ Fits(row) /\ files[row.path].content = hash => row.digest = hash

\* The rows like the target's are settled, but for these.
SettledBut(ids, hash, target) ==
    \A id \in RowIds(current) \ ids :
        LET row == current.rows[id]
        IN  Kind[row.path] = Kind[target.path] /\ row.size = target.size
                => Settled(hash, row)

\* The row that a call of ensure_sha256 has read, and what it found of the file.
AssetStory(t) ==
    /\ t.pc \in RowPcs => t.row = current.rows[t.asset] /\ ~t.row.missing
    /\ t.pc \in {"read", "again", "update"} => Fits(t.row) /\ t.row.digest = None
    /\ t.pc \in {"again", "update"} => t.hash = files[t.row.path].content

\* The target is being hashed, or is and the others follow.
GroupStory(t, g, asset) ==
    /\ g.target \in RowIds(current)
    /\ g.row.path = current.rows[g.target].path
    /\ g.row.size = current.rows[g.target].size
    /\ IF g.hash = None THEN t.pc \in AssetPcs /\ t.asset = g.target
       ELSE /\ FoundHash(g.hash, current.rows[g.target])
            /\ t.pc # "list" => SettledBut(g.left \cup asset, g.hash, g.row)

\* The answer has every row with the target's digest.
AnswerStory(t) ==
    LET target == current.rows[t.target]
        same   == {id \in RowIds(current) : /\ ~current.rows[id].missing
                                            /\ current.rows[id].digest = target.digest}
    IN  /\ t.target \in RowIds(current)
        /\ FoundHash(target.digest, target)
        /\ SettledBut({}, target.digest, target)
        /\ t.members = IF Cardinality(same) < 2 THEN {} ELSE same

SearchStory(t) ==
    t.quiet =>
        /\ t.pc \in AssetPcs => AssetStory(t)
        /\ t.pc \in AssetPcs /\ t.group # None => GroupStory(t, t.group, {t.asset})
        /\ t.pc \in {"list", "each"} => GroupStory(t, t.group, {})
        /\ t.pc = "answer" => AnswerStory(t)

SearchesInv == \A p \in Process : SearchStory(task[p])

SearchPcs == AssetPcs \cup {"list", "each", "answer"}

LEMMA SearchKept ==
    ASSUME NEW t, SearchStory(t), UNCHANGED <<files, hidden, current>>
    PROVE  SearchStory(t)'
<1>1. AssetStory(t) => AssetStory(t)'
  BY DEF AssetStory, Fits, Readable
<1>2. \A hash, row : FoundHash(hash, row) => FoundHash(hash, row)'
  BY DEF FoundHash, Fits, Readable
<1>3. \A ids, hash, target : SettledBut(ids, hash, target) => SettledBut(ids, hash, target)'
  BY DEF SettledBut, Settled, Fits, Readable, RowIds
<1>4. \A g, asset : GroupStory(t, g, asset) => GroupStory(t, g, asset)'
  BY <1>2, <1>3 DEF GroupStory, RowIds
<1>5. AnswerStory(t) => AnswerStory(t)'
  BY <1>2, <1>3 DEF AnswerStory, RowIds
<1>. QED BY <1>1, <1>4, <1>5 DEF SearchStory

LEMMA SearchDisturbed ==
    ASSUME NEW p \in Process, task[p] \in Task, NEW u, u = Disturbed(p)
    PROVE  SearchStory(u)'
<1>. DEFINE t == task[p]
            d == [t EXCEPT !.quiet = FALSE]
<1>1. t \in Task /\ u.pc = t.pc /\ u = IF t.pc \in {"new", "done"} THEN t ELSE d
  BY DisturbedFields DEF Disturbed
<1>2. t.pc \in SearchPcs => d.quiet = FALSE
  BY <1>1, TaskKinds DEF AssetTask, CheckTask, HashTask, GroupTask, AnswerTask, SearchPcs,
                         AssetPcs, RowPcs
<1>. HIDE DEF t, d
<1>3. t.pc \in SearchPcs => t.pc \notin {"new", "done"}
  BY DEF SearchPcs, AssetPcs, RowPcs
<1>. QED BY <1>1, <1>2, <1>3 DEF SearchStory, SearchPcs

LEMMA SearchNow ==
    ASSUME NEW p, NEW t, t = task'[p], SearchStory(t)'
    PROVE  SearchStory(task[p])'
BY DEF SearchStory, AssetStory, GroupStory, AnswerStory

LEMMA SearchesStep ==
    ASSUME SearchesInv, IndexInv, NEW p \in Process, SearchStory(task[p])',
           \A q \in Process \ {p} :
              \/ task'[q] = Disturbed(q)
              \/ task'[q] = task[q] /\ UNCHANGED <<files, hidden, current>>
    PROVE  SearchesInv'
<1>1. ASSUME NEW q \in Process
      PROVE  SearchStory(task[q])'
  <2>1. CASE q = p
    BY <2>1
  <2>2. CASE q # p
    <3>1. PICK u : u = task'[q]
      OBVIOUS
    <3>2. SearchStory(task[q]) /\ task[q] \in Task
      BY DEF SearchesInv, IndexInv, TasksInv
    <3>3. CASE u = Disturbed(q)
      BY <3>1, <3>2, <3>3, SearchDisturbed, SearchNow
    <3>4. CASE u = task[q] /\ UNCHANGED <<files, hidden, current>>
      <4>1. SearchStory(u)
        BY <3>2, <3>4
      <4>2. SearchStory(u)'
        BY <3>4, <4>1, SearchKept
      <4>. QED BY <3>1, <4>2, SearchNow
    <3>. QED BY <2>2, <3>1, <3>3, <3>4
  <2>. QED BY <2>1, <2>2
<1>. QED BY <1>1 DEF SearchesInv

\* A step that leaves files and index alone.
LEMMA SearchThought ==
    ASSUME SearchesInv, IndexInv, UNCHANGED <<files, hidden, current>>, NEW p \in Process,
           NEW t, Become(p, t), SearchStory(t)
    PROVE  SearchesInv'
<1>1. task'[p] = t /\ \A q \in Process \ {p} : task'[q] = task[q]
  BY DEF IndexInv, TasksInv, Become
<1>2. SearchStory(t)'
  BY SearchKept
<1>3. PICK u : u = task'[p]
  OBVIOUS
<1>4. SearchStory(u)'
  BY <1>1, <1>2, <1>3
<1>5. SearchStory(task[p])'
  BY <1>3, <1>4, SearchNow
<1>. QED BY <1>1, <1>5, SearchesStep

\* A step that ends elsewhere.
LEMMA SearchElsewhere ==
    ASSUME SearchesInv, IndexInv, UNCHANGED envVars, NEW p \in Process,
           task'[p].pc \notin SearchPcs,
           NEW t, \/ BecomeDisturbing(p, t)
                  \/ Become(p, t) /\ UNCHANGED current
    PROVE  SearchesInv'
<1>1. SearchStory(task[p])'
  BY DEF SearchStory, SearchPcs
<1>2. \A q \in Process \ {p} :
         \/ task'[q] = Disturbed(q)
         \/ task'[q] = task[q] /\ UNCHANGED <<files, hidden, current>>
  BY DEF Become, BecomeDisturbing, IndexInv, TasksInv, envVars
<1>. QED BY <1>1, <1>2, SearchesStep

LEMMA SearchesEnvironment ==
    ASSUME SearchesInv, IndexInv, Environment
    PROVE  SearchesInv'
<1>1. task' = [q \in Process |-> Disturbed(q)]
  BY DEF Environment, Write, Delete, Rename, Hide, Change
<1>2. ASSUME NEW q \in Process
      PROVE  SearchStory(task[q])'
  <2>1. PICK u : u = task'[q] /\ u = Disturbed(q)
    BY <1>1
  <2>2. task[q] \in Task
    BY DEF IndexInv, TasksInv
  <2>. QED BY <2>1, <2>2, SearchDisturbed, SearchNow
<1>. QED BY <1>2 DEF SearchesInv

LEMMA RefreshSearches ==
    ASSUME SearchesInv, IndexInv, IndexInv', NEW p \in Process, Refresh(p) \/ Kill(p)
    PROVE  SearchesInv'
<1>1. TaskInv(p, task[p])
  BY DEF IndexInv, TasksInv
<1>2. /\ task'[p].pc \in StoringPcs <=> writer' = p
      /\ task'[p].pc \notin StoringPcs \cup {"walk"} => view'[p] = None
  BY DEF IndexInv, TasksInv, TaskInv
<1>3. ASSUME NEW t, t.pc \notin SearchPcs, UNCHANGED envVars,
             BecomeDisturbing(p, t) \/ (Become(p, t) /\ UNCHANGED current)
      PROVE  SearchesInv'
  <2>1. task'[p] = t
    BY <1>3, OtherTasks
  <2>. QED BY <1>3, <2>1, SearchElsewhere
<1>4. ASSUME UNCHANGED <<current, envVars>>, NEW t, Become(p, t),
             task'[p].pc \in StoringPcs \cup {"walk"}
      PROVE  SearchesInv'
  BY <1>4, SearchElsewhere DEF StoringPcs, SearchPcs, AssetPcs, RowPcs
<1>5. CASE AddRoot(p)
  <2>1. PICK t : t = [New EXCEPT !.pc = "root"]
    OBVIOUS
  <2>2. t.pc = "root" /\ BecomeDisturbing(p, t) /\ UNCHANGED envVars
    BY <1>5, <2>1 DEF AddRoot, New
  <2>. QED BY <1>3, <2>2 DEF SearchPcs, AssetPcs, RowPcs
<1>6. CASE FinishRefresh(p) \/ GiveUp(p)
  <2>1. /\ UNCHANGED envVars
        /\ BecomeDisturbing(p, Done) \/ (Become(p, Done) /\ UNCHANGED current)
    BY <1>6 DEF FinishRefresh, GiveUp, LetGo
  <2>2. PICK t : t = Done
    OBVIOUS
  <2>3. t.pc = "done"
    BY <2>2 DEF Done
  <2>. QED BY <1>3, <2>1, <2>2, <2>3 DEF SearchPcs, AssetPcs, RowPcs
<1>7. CASE StartRefresh(p)
  <2>1. PICK t : t.pc = "walk" /\ Become(p, t) /\ UNCHANGED <<current, envVars>>
    BY <1>7 DEF StartRefresh
  <2>. QED BY <1>3, <2>1 DEF SearchPcs, AssetPcs, RowPcs
<1>8. CASE Visit(p) \/ AbandonWalk(p)
  <2>1. task[p].pc = "walk" /\ UNCHANGED <<fileVars, envVars>> /\ \E t : Become(p, t)
    BY <1>8 DEF Visit, AbandonWalk, At
  <2>2. view'[p] # None
    BY <1>1, <2>1 DEF TaskInv, fileVars
  <2>. QED BY <1>2, <1>4, <2>1, <2>2 DEF fileVars
<1>9. CASE BeginStore(p)
  BY <1>2, <1>4, <1>9 DEF BeginStore, BeginWith
<1>10. CASE Examine(p) \/ HashCandidate(p) \/ StoreRow(p)
  <2>1. /\ task[p].pc \in StoringPcs /\ UNCHANGED <<current, writer, envVars>>
        /\ \E t : Become(p, t)
    BY <1>10 DEF Examine, HashCandidate, StoreRow, Edit, fileVars, At, StoringPcs
  <2>. QED BY <1>1, <1>2, <1>4, <2>1 DEF TaskInv
<1>. QED BY <1>5, <1>6, <1>7, <1>8, <1>9, <1>10
         DEF Refresh, Kill, AddRootFails, RootUnavailable, StoreRefused, ExamineFails

-----------------------------------------------------------------------------
(* The steps of a search.                                                   *)

\* What a call that looks at an asset has.
LEMMA SearchCall ==
    ASSUME SearchesInv, IndexInv, NEW p \in Process, task[p].pc \in SearchPcs
    PROVE  /\ SearchStory(task[p]) /\ TaskInv(p, task[p]) /\ task[p] \in Task
           /\ Seen(p) = current /\ TableInv(current) /\ FilesInv
           /\ task[p].pc \in AssetPcs =>
                  /\ task[p].asset \in RowIds(current)
                  /\ task[p].group \in Group \cup {None}
           /\ task[p].pc \in {"list", "each"} => task[p].group \in Group
<1>1. task[p].pc \notin StoringPcs \cup {"walk"}
  BY DEF SearchPcs, AssetPcs, RowPcs, StoringPcs
<1>2. task[p].pc \in AssetPcs => task[p].group \in Group \cup {None}
  BY AssetCall DEF AssetPcs
<1>3. TaskInv(p, task[p]) /\ task[p] \in Task /\ Seen(p) = current /\ TableInv(current)
  BY <1>1, ReaderSees
<1>4. task[p].pc \in {"list", "each"} => task[p].group \in Group
  BY <1>3, TaskKinds DEF GroupTask
<1>. QED BY <1>2, <1>3, <1>4 DEF SearchesInv, IndexInv, TaskInv, AssetPcs

LEMMA IdleSearch ==
    ASSUME NEW t, t.pc \notin SearchPcs \/ ~t.quiet
    PROVE  SearchStory(t)
BY DEF SearchStory, SearchPcs

\* ensure_sha256 fails for an asset that is settled.
LEMMA FailedSearch ==
    ASSUME SearchesInv, IndexInv, UNCHANGED <<fileVars, envVars>>, NEW p \in Process,
           task[p].pc \in AssetPcs, HashFails(p),
           task[p].quiet /\ task[p].group # None /\ task[p].group.hash # None =>
               Settled(task[p].group.hash, current.rows[task[p].asset])
    PROVE  SearchesInv'
<1>0. UNCHANGED <<files, hidden, current>>
  BY DEF fileVars, envVars
<1>1. CASE task[p].group = None \/ task[p].group.hash = None
  <2>1. PICK t : t = Done
    OBVIOUS
  <2>2. Become(p, t) /\ t.pc = "done"
    BY <1>1, <2>1 DEF HashFails, Done
  <2>. QED BY <1>0, <2>2, IdleSearch, SearchThought DEF SearchPcs, AssetPcs, RowPcs
<1>2. CASE ~(task[p].group = None \/ task[p].group.hash = None)
  <2>1. PICK g : g = task[p].group
    OBVIOUS
  <2>2. PICK t : t = [pc |-> "each", quiet |-> task[p].quiet, group |-> g]
    OBVIOUS
  <2>3. Become(p, t) /\ t.pc = "each" /\ t.quiet = task[p].quiet /\ t.group = g
    BY <1>2, <2>1, <2>2 DEF HashFails
  <2>4. t.quiet => GroupStory(task[p], g, {task[p].asset})
    BY <1>2, <2>1, <2>3, SearchCall DEF SearchStory, SearchPcs
  <2>5. t.quiet => GroupStory(t, g, {})
    <3>1. SettledBut(g.left \cup {task[p].asset}, g.hash, g.row)
             /\ Settled(g.hash, current.rows[task[p].asset])
          => SettledBut(g.left \cup {}, g.hash, g.row)
      BY DEF SettledBut
    <3>2. task[p].pc # "list"
      BY DEF AssetPcs, RowPcs
    <3>. QED BY <1>2, <2>1, <2>3, <2>4, <3>1, <3>2 DEF GroupStory
  <2>6. SearchStory(t)
    BY <2>3, <2>5 DEF SearchStory, AssetPcs, RowPcs
  <2>. QED BY <1>0, <2>3, <2>6, SearchThought
<1>. QED BY <1>1, <1>2

\* ensure_sha256 returns the digest of the file.
LEMMA HashedStory ==
    ASSUME NEW u, u.pc \in AssetPcs, u.group \in Group \cup {None}, NEW hash, NEW t,
           t = IF u.group = None THEN Done
               ELSE IF u.group.hash = None
               THEN [pc |-> "list", quiet |-> u.quiet,
                     group |-> [u.group EXCEPT !.hash = hash]]
               ELSE [pc |-> "each", quiet |-> u.quiet, group |-> u.group],
           u.quiet /\ u.group # None => GroupStory(u, u.group, {u.asset})',
           u.quiet => FoundHash(hash, current.rows[u.asset])'
    PROVE  SearchStory(t)'
<1>1. CASE u.group = None
  <2>1. t.pc = "done"
    BY <1>1 DEF Done
  <2>. QED BY <2>1 DEF SearchStory, AssetPcs, RowPcs
<1>2. CASE u.group # None /\ u.group.hash = None
  <2>1. PICK g : g = [u.group EXCEPT !.hash = hash]
    OBVIOUS
  <2>2. /\ g.target = u.group.target /\ g.row = u.group.row /\ g.hash = hash
        /\ g.left = u.group.left
    BY <1>2, <2>1 DEF Group
  <2>3. t.pc = "list" /\ t.quiet = u.quiet /\ t.group = g
    BY <1>2, <2>1
  <2>4. u.quiet => GroupStory(t, g, {})'
    BY <1>2, <2>2, <2>3 DEF GroupStory, FoundHash
  <2>. QED BY <2>3, <2>4 DEF SearchStory, AssetPcs, RowPcs
<1>3. CASE u.group # None /\ u.group.hash # None
  <2>1. PICK g : g = u.group
    OBVIOUS
  <2>2. t.pc = "each" /\ t.quiet = u.quiet /\ t.group = g
    BY <1>3, <2>1
  <2>3. u.quiet => Settled(g.hash, current.rows[u.asset])'
    BY DEF FoundHash, Settled
  <2>4. /\ SettledBut(g.left \cup {u.asset}, g.hash, g.row)'
        /\ Settled(g.hash, current.rows[u.asset])'
        => SettledBut(g.left \cup {}, g.hash, g.row)'
    BY DEF SettledBut
  <2>5. u.pc # "list"
    BY DEF AssetPcs, RowPcs
  <2>6. u.quiet => GroupStory(t, g, {})'
    BY <1>3, <2>1, <2>2, <2>3, <2>4, <2>5 DEF GroupStory
  <2>. QED BY <2>2, <2>6 DEF SearchStory, AssetPcs, RowPcs
<1>. QED BY <1>1, <1>2, <1>3

LEMMA StartSearch ==
    ASSUME SearchesInv, IndexInv, NEW p \in Process, NEW id,
           StartHash(p, id) \/ StartGroup(p, id)
    PROVE  SearchesInv'
<1>1. task[p].pc = "new" /\ UNCHANGED <<files, hidden, current>>
  BY DEF StartHash, StartGroup, Starts, At, fileVars, envVars
<1>2. Seen(p) = current
  BY <1>1, ReaderSees DEF StoringPcs
<1>3. CASE StartHash(p, id)
  <2>1. PICK t : t = [pc |-> "row", quiet |-> TRUE, asset |-> id, group |-> None]
    OBVIOUS
  <2>2. Become(p, t) /\ t.pc = "row" /\ t.group = None
    BY <1>3, <2>1 DEF StartHash
  <2>3. SearchStory(t)
    BY <2>2 DEF SearchStory, AssetStory, AssetPcs, RowPcs
  <2>. QED BY <1>1, <2>2, <2>3, SearchThought
<1>4. CASE StartGroup(p, id)
  <2>1. PICK g : g = [target |-> id, row |-> Seen(p).rows[id], hash |-> None, left |-> {}]
    OBVIOUS
  <2>2. PICK t : t = [pc |-> "row", quiet |-> TRUE, asset |-> id, group |-> g]
    OBVIOUS
  <2>3. /\ Become(p, t) /\ t.pc = "row" /\ t.group = g /\ t.asset = id
        /\ id \in RowIds(current)
    BY <1>2, <1>4, <2>1, <2>2 DEF StartGroup
  <2>4. GroupStory(t, g, {id})
    BY <1>2, <2>1, <2>3 DEF GroupStory, AssetPcs
  <2>5. SearchStory(t)
    BY <2>3, <2>4 DEF SearchStory, AssetStory, AssetPcs, RowPcs
  <2>. QED BY <1>1, <2>3, <2>5, SearchThought
<1>. QED BY <1>3, <1>4

LEMMA LookUpSearch ==
    ASSUME SearchesInv, IndexInv, NEW p \in Process, LookUp(p)
    PROVE  SearchesInv'
<1>1. /\ task[p].pc = "row" /\ task[p].pc \in AssetPcs /\ task[p].pc \in SearchPcs
      /\ UNCHANGED <<fileVars, envVars>> /\ UNCHANGED <<files, hidden, current>>
  BY DEF LookUp, At, fileVars, envVars, SearchPcs, AssetPcs
<1>2. SearchStory(task[p]) /\ Seen(p) = current
  BY <1>1, SearchCall
<1>3. CASE current.rows[task[p].asset].missing /\ HashFails(p)
  BY <1>1, <1>3, FailedSearch DEF Settled
<1>4. CASE /\ ~current.rows[task[p].asset].missing
           /\ Become(p, [pc |-> "check", quiet |-> task[p].quiet, group |-> task[p].group,
                         asset |-> task[p].asset, row |-> current.rows[task[p].asset]])
  <2>1. PICK t : t = [pc |-> "check", quiet |-> task[p].quiet, group |-> task[p].group,
                      asset |-> task[p].asset, row |-> current.rows[task[p].asset]]
    OBVIOUS
  <2>2. /\ Become(p, t) /\ t.pc = "check" /\ t.quiet = task[p].quiet
        /\ t.group = task[p].group /\ t.asset = task[p].asset
        /\ t.row = current.rows[task[p].asset]
    BY <1>4, <2>1
  <2>3. AssetStory(t)
    BY <1>4, <2>2 DEF AssetStory
  <2>4. t.quiet /\ t.group # None => GroupStory(t, t.group, {t.asset})
    BY <1>1, <1>2, <2>2 DEF SearchStory, GroupStory, AssetPcs, RowPcs
  <2>5. SearchStory(t)
    BY <2>2, <2>3, <2>4 DEF SearchStory, AssetPcs, RowPcs
  <2>. QED BY <1>1, <2>2, <2>5, SearchThought
<1>. QED BY <1>2, <1>3, <1>4 DEF LookUp

\* The next place of the same call, with the same story of its group.
LEMMA SameAsset ==
    ASSUME NEW t, NEW u, SearchStory(u), u.pc \in RowPcs, t.pc \in RowPcs,
           t.quiet = u.quiet, t.group = u.group, t.asset = u.asset,
           t.quiet => AssetStory(t)
    PROVE  SearchStory(t)
<1>1. t.quiet /\ t.group # None => GroupStory(t, t.group, {t.asset})
  BY DEF SearchStory, GroupStory, AssetPcs, RowPcs
<1>. QED BY <1>1 DEF SearchStory, AssetPcs, RowPcs

LEMMA CheckAssetSearch ==
    ASSUME SearchesInv, IndexInv, NEW p \in Process, CheckAsset(p)
    PROVE  SearchesInv'
<1>1. /\ task[p].pc = "check" /\ task[p].pc \in RowPcs /\ task[p].pc \in AssetPcs
      /\ task[p].pc \in SearchPcs
      /\ UNCHANGED <<fileVars, envVars>> /\ UNCHANGED <<files, hidden, current>>
  BY DEF CheckAsset, At, fileVars, envVars, SearchPcs, AssetPcs, RowPcs
<1>2. /\ SearchStory(task[p]) /\ task[p] \in CheckTask
      /\ task[p].asset \in RowIds(current) /\ task[p].group \in Group \cup {None}
  BY <1>1, SearchCall, TaskKinds
<1>3. task[p].quiet => /\ task[p].row = current.rows[task[p].asset] /\ ~task[p].row.missing
  BY <1>1, <1>2 DEF SearchStory, AssetStory
<1>4. CASE ~Fits(task[p].row) /\ HashFails(p)
  BY <1>1, <1>3, <1>4, FailedSearch DEF Settled
<1>5. CASE /\ Fits(task[p].row) /\ task[p].row.digest # None
           /\ Become(p, Hashed(p, task[p].row.digest))
  <2>1. PICK u : u = task[p]
    OBVIOUS
  <2>2. PICK hash : hash = task[p].row.digest
    OBVIOUS
  <2>3. PICK t : t = Hashed(p, hash)
    OBVIOUS
  <2>4. t = IF u.group = None THEN Done
            ELSE IF u.group.hash = None
            THEN [pc |-> "list", quiet |-> u.quiet,
                  group |-> [u.group EXCEPT !.hash = hash]]
            ELSE [pc |-> "each", quiet |-> u.quiet, group |-> u.group]
    BY <2>1, <2>3 DEF Hashed
  <2>5. SearchStory(u)'
    BY <1>1, <1>2, <2>1, SearchKept
  <2>6. u.quiet /\ u.group # None => GroupStory(u, u.group, {u.asset})'
    BY <1>1, <2>1, <2>5 DEF SearchStory
  <2>7. u.quiet => FoundHash(hash, current.rows[u.asset])'
    <3>1. RowsTellTheTruth
      BY SoundIndex DEF IndexSound
    <3>2. current.rows[task[p].asset] \in ToSet(current.rows)
      BY <1>2 DEF ToSet, RowIds
    <3>3. u.quiet => FoundHash(hash, current.rows[u.asset])
      BY <1>3, <1>5, <2>1, <2>2, <3>1, <3>2 DEF RowsTellTheTruth, FoundHash
    <3>. QED BY <1>1, <3>3 DEF FoundHash, Fits, Readable
  <2>8. SearchStory(t)'
    BY <1>1, <1>2, <2>1, <2>4, <2>6, <2>7, HashedStory
  <2>9. /\ task'[p] = t
        /\ \A q \in Process \ {p} : task'[q] = task[q]
    BY <1>5, <2>2, <2>3 DEF IndexInv, TasksInv, Become
  <2>10. PICK v : v = task'[p]
    OBVIOUS
  <2>11. SearchStory(v)'
    BY <2>8, <2>9, <2>10
  <2>12. SearchStory(task[p])'
    BY <2>10, <2>11, SearchNow
  <2>. QED BY <1>1, <2>9, <2>12, SearchesStep
<1>6. CASE /\ Fits(task[p].row) /\ task[p].row.digest = None
           /\ Become(p, [task[p] EXCEPT !.pc = "read"])
  <2>1. PICK t : t = [task[p] EXCEPT !.pc = "read"]
    OBVIOUS
  <2>2. /\ Become(p, t) /\ t.pc = "read" /\ t.quiet = task[p].quiet
        /\ t.group = task[p].group /\ t.asset = task[p].asset /\ t.row = task[p].row
    BY <1>2, <1>6, <2>1 DEF CheckTask
  <2>3. t.quiet => AssetStory(t)
    BY <1>3, <1>6, <2>2 DEF AssetStory
  <2>4. SearchStory(t)
    BY <1>1, <1>2, <2>2, <2>3, SameAsset DEF RowPcs
  <2>. QED BY <1>1, <2>2, <2>4, SearchThought
<1>. QED BY <1>4, <1>5, <1>6 DEF CheckAsset

LEMMA ReadAssetSearch ==
    ASSUME SearchesInv, IndexInv, NEW p \in Process, ReadAsset(p)
    PROVE  SearchesInv'
<1>1. /\ task[p].pc = "read" /\ task[p].pc \in RowPcs /\ task[p].pc \in AssetPcs
      /\ task[p].pc \in SearchPcs
      /\ UNCHANGED <<fileVars, envVars>> /\ UNCHANGED <<files, hidden, current>>
  BY DEF ReadAsset, At, fileVars, envVars, SearchPcs, AssetPcs, RowPcs
<1>2. SearchStory(task[p])
  BY <1>1, SearchCall
<1>3. task[p].quiet => /\ task[p].row = current.rows[task[p].asset] /\ ~task[p].row.missing
                       /\ Fits(task[p].row) /\ task[p].row.digest = None
  BY <1>1, <1>2 DEF SearchStory, AssetStory
<1>4. PICK hash : hash = ReadFile(task[p].row.path)
  OBVIOUS
<1>5. task[p].quiet => hash = files[task[p].row.path].content
  BY <1>3, <1>4 DEF ReadFile, Fits
<1>6. CASE hash = None /\ HashFails(p)
  BY <1>1, <1>3, <1>5, <1>6, FailedSearch DEF Settled
<1>7. CASE /\ hash # None
           /\ Become(p, [pc |-> "again", quiet |-> task[p].quiet, group |-> task[p].group,
                         asset |-> task[p].asset, row |-> task[p].row, hash |-> hash])
  <2>1. PICK t : t = [pc |-> "again", quiet |-> task[p].quiet, group |-> task[p].group,
                      asset |-> task[p].asset, row |-> task[p].row, hash |-> hash]
    OBVIOUS
  <2>2. /\ Become(p, t) /\ t.pc = "again" /\ t.quiet = task[p].quiet
        /\ t.group = task[p].group /\ t.asset = task[p].asset /\ t.row = task[p].row
        /\ t.hash = hash
    BY <1>7, <2>1
  <2>3. t.quiet => AssetStory(t)
    BY <1>3, <1>5, <2>2 DEF AssetStory
  <2>4. SearchStory(t)
    BY <1>1, <1>2, <2>2, <2>3, SameAsset DEF RowPcs
  <2>. QED BY <1>1, <2>2, <2>4, SearchThought
<1>. QED BY <1>4, <1>6, <1>7 DEF ReadAsset

LEMMA CheckAgainSearch ==
    ASSUME SearchesInv, IndexInv, NEW p \in Process, CheckAgain(p)
    PROVE  SearchesInv'
<1>1. /\ task[p].pc = "again" /\ task[p].pc \in RowPcs /\ task[p].pc \in AssetPcs
      /\ task[p].pc \in SearchPcs
      /\ UNCHANGED <<fileVars, envVars>> /\ UNCHANGED <<files, hidden, current>>
  BY DEF CheckAgain, At, fileVars, envVars, SearchPcs, AssetPcs, RowPcs
<1>2. SearchStory(task[p]) /\ task[p] \in HashTask
  BY <1>1, SearchCall, TaskKinds
<1>3. task[p].quiet => AssetStory(task[p]) /\ Fits(task[p].row)
  BY <1>1, <1>2 DEF SearchStory, AssetStory
<1>4. CASE ~Fits(task[p].row) /\ HashFails(p)
  BY <1>1, <1>3, <1>4, FailedSearch
<1>5. CASE Become(p, [task[p] EXCEPT !.pc = "update"])
  <2>1. PICK t : t = [task[p] EXCEPT !.pc = "update"]
    OBVIOUS
  <2>2. /\ Become(p, t) /\ t.pc = "update" /\ t.quiet = task[p].quiet
        /\ t.group = task[p].group /\ t.asset = task[p].asset /\ t.row = task[p].row
        /\ t.hash = task[p].hash
    BY <1>2, <1>5, <2>1 DEF HashTask
  <2>3. t.quiet => AssetStory(t)
    BY <1>1, <1>3, <2>2 DEF AssetStory, RowPcs
  <2>4. SearchStory(t)
    BY <1>1, <1>2, <2>2, <2>3, SameAsset DEF RowPcs
  <2>. QED BY <1>1, <2>2, <2>4, SearchThought
<1>. QED BY <1>4, <1>5 DEF CheckAgain

LEMMA StoreDigestSearch ==
    ASSUME SearchesInv, IndexInv, NEW p \in Process, StoreDigest(p)
    PROVE  SearchesInv'
<1>1. /\ task[p].pc = "update" /\ task[p].pc \in RowPcs /\ task[p].pc \in AssetPcs
      /\ task[p].pc \in SearchPcs /\ UNCHANGED envVars /\ UNCHANGED <<files, hidden>>
  BY DEF StoreDigest, At, envVars, SearchPcs, AssetPcs, RowPcs
<1>2. /\ SearchStory(task[p]) /\ task[p] \in HashTask /\ TableInv(current)
      /\ task[p].asset \in RowIds(current) /\ task[p].group \in Group \cup {None}
  BY <1>1, SearchCall, TaskKinds
<1>3. PICK u : u = task[p]
  OBVIOUS
<1>4. PICK id : id = u.asset
  OBVIOUS
<1>5. PICK hash : hash = u.hash
  OBVIOUS
<1>6. hash # None /\ id \in RowIds(current) /\ u.pc = "update"
  BY <1>1, <1>2, <1>3, <1>4, <1>5 DEF HashTask
<1>7. u.quiet => /\ u.row = current.rows[id] /\ ~u.row.missing /\ Fits(u.row)
                 /\ u.row.digest = None /\ hash = files[u.row.path].content
  BY <1>1, <1>2, <1>3, <1>4, <1>5 DEF SearchStory, AssetStory
<1>8. PICK new : new = [current.rows[id] EXCEPT !.digest = hash]
  OBVIOUS
<1>9. current.rows[id] \in IndexRow
  BY <1>2, <1>6, TableTyped DEF RowIds
<1>10. /\ new.path = current.rows[id].path /\ new.size = current.rows[id].size
       /\ new.ticks = current.rows[id].ticks /\ new.missing = current.rows[id].missing
       /\ new.digest = hash
  BY <1>8, <1>9 DEF IndexRow
<1>11. current'.rows = [current.rows EXCEPT ![id] = new]
  <2>1. current' = [current EXCEPT !.rows[id].digest = hash]
    BY <1>3, <1>4, <1>5 DEF StoreDigest, Autocommit
  <2>2. current' = [current EXCEPT !.rows = [current.rows EXCEPT ![id] = new]]
    BY <1>8, <2>1
  <2>. QED BY <1>2, <2>2 DEF TableInv, Database
<1>12. /\ RowIds(current)' = RowIds(current)
       /\ \A i \in RowIds(current) :
             current'.rows[i] = IF i = id THEN new ELSE current.rows[i]
  <2>1. \A i \in DOMAIN current.rows : [current.rows EXCEPT ![id] = new][i]
           = IF i = id THEN new ELSE current.rows[i]
    OBVIOUS
  <2>. QED BY <1>11, <2>1 DEF RowIds
<1>13. u.quiet => FoundHash(hash, current.rows[u.asset])'
  BY <1>1, <1>4, <1>6, <1>7, <1>10, <1>12 DEF FoundHash, Fits, Readable
<1>14. u.quiet /\ u.group # None => GroupStory(u, u.group, {u.asset})'
  <2>1. SUFFICES ASSUME u.quiet, u.group # None
                 PROVE  GroupStory(u, u.group, {u.asset})'
    OBVIOUS
  <2>2. GroupStory(u, u.group, {id})
    BY <1>1, <1>2, <1>3, <1>4, <2>1 DEF SearchStory
  <2>3. CASE u.group.hash = None
    BY <1>10, <1>12, <2>2, <2>3 DEF GroupStory
  <2>4. CASE u.group.hash # None
    <3>1. /\ u.group.target \in RowIds(current)
          /\ FoundHash(u.group.hash, current.rows[u.group.target])
          /\ SettledBut(u.group.left \cup {id}, u.group.hash, u.group.row)
      BY <1>6, <2>2, <2>4 DEF GroupStory
    <3>2. u.group.target # id
      BY <1>7, <2>1, <2>4, <3>1 DEF FoundHash
    <3>3. FoundHash(u.group.hash, current.rows[u.group.target])'
      BY <1>1, <1>12, <3>1, <3>2 DEF FoundHash, Fits, Readable
    <3>4. SettledBut(u.group.left \cup {id}, u.group.hash, u.group.row)'
      BY <1>1, <1>12, <3>1 DEF SettledBut, Settled, Fits, Readable, RowIds
    <3>. QED BY <1>4, <1>12, <2>2, <2>4, <3>1, <3>2, <3>3, <3>4 DEF GroupStory
  <2>. QED BY <2>3, <2>4
<1>15. PICK t : t = Hashed(p, hash)
  OBVIOUS
<1>16. t = IF u.group = None THEN Done
           ELSE IF u.group.hash = None
           THEN [pc |-> "list", quiet |-> u.quiet,
                 group |-> [u.group EXCEPT !.hash = hash]]
           ELSE [pc |-> "each", quiet |-> u.quiet, group |-> u.group]
  BY <1>3, <1>15 DEF Hashed
<1>17. SearchStory(t)'
  BY <1>1, <1>2, <1>3, <1>13, <1>14, <1>16, HashedStory
<1>18. task'[p] = t /\ \A q \in Process \ {p} : task'[q] = Disturbed(q)
  BY <1>3, <1>5, <1>15 DEF StoreDigest, BecomeDisturbing
<1>19. PICK v : v = task'[p]
  OBVIOUS
<1>20. SearchStory(v)'
  BY <1>17, <1>18, <1>19
<1>21. SearchStory(task[p])'
  BY <1>19, <1>20, SearchNow
<1>. QED BY <1>18, <1>21, SearchesStep

LEMMA StoreDigestFailsSearch ==
    ASSUME SearchesInv, IndexInv, NEW p \in Process, StoreDigestFails(p)
    PROVE  SearchesInv'
<1>1. UNCHANGED <<files, hidden, current>>
  BY DEF StoreDigestFails, fileVars, envVars
<1>2. PICK t : /\ Become(p, t)
               /\ t = Done \/ t = [pc |-> "each", quiet |-> FALSE, group |-> task[p].group]
  BY DEF StoreDigestFails
<1>3. t.pc = "done" \/ ~t.quiet
  BY <1>2 DEF Done
<1>4. SearchStory(t)
  BY <1>3, IdleSearch DEF SearchPcs, AssetPcs, RowPcs
<1>. QED BY <1>1, <1>2, <1>4, SearchThought

\* The rest of duplicate_group.
LEMMA GroupSearch ==
    ASSUME SearchesInv, IndexInv, NEW p \in Process,
           ListCandidates(p) \/ NextCandidate(p) \/ CollectMatches(p)
    PROVE  SearchesInv'
<1>1. /\ task[p].pc \in {"list", "each"} /\ task[p].pc \in SearchPcs
      /\ UNCHANGED <<files, hidden, current>>
  BY DEF ListCandidates, NextCandidate, CollectMatches, At, fileVars, envVars, SearchPcs
<1>2. /\ SearchStory(task[p]) /\ Seen(p) = current /\ task[p].group \in Group
  BY <1>1, SearchCall
<1>3. PICK g : g = task[p].group
  OBVIOUS
<1>4. task[p].quiet =>
         /\ g.target \in RowIds(current) /\ g.hash # None
         /\ g.row.path = current.rows[g.target].path
         /\ g.row.size = current.rows[g.target].size
         /\ FoundHash(g.hash, current.rows[g.target])
         /\ task[p].pc = "each" => SettledBut(g.left, g.hash, g.row)
  <2>1. task[p].quiet => GroupStory(task[p], g, {})
    BY <1>1, <1>2, <1>3 DEF SearchStory
  <2>2. task[p].pc \notin AssetPcs
    BY <1>1 DEF AssetPcs, RowPcs
  <2>3. g.left \cup {} = g.left
    OBVIOUS
  <2>. QED BY <1>1, <2>1, <2>2, <2>3 DEF GroupStory
<1>5. ASSUME NEW left, NEW h, h = [g EXCEPT !.left = left]
      PROVE  h.target = g.target /\ h.row = g.row /\ h.hash = g.hash /\ h.left = left
  BY <1>2, <1>3, <1>5 DEF Group
<1>6. CASE ListCandidates(p)
  <2>1. PICK listed : listed = {id \in RowIds(current) \ {g.target} :
                                  LET row == current.rows[id]
                                  IN  /\ ~row.missing
                                      /\ Kind[row.path] = Kind[g.row.path]
                                      /\ row.size = g.row.size}
    OBVIOUS
  <2>2. PICK h : h = [g EXCEPT !.left = listed]
    OBVIOUS
  <2>3. h.target = g.target /\ h.row = g.row /\ h.hash = g.hash /\ h.left = listed
    BY <1>5, <2>2
  <2>4. PICK t : t = [pc |-> "each", quiet |-> task[p].quiet, group |-> h]
    OBVIOUS
  <2>5. Become(p, t)
    BY <1>2, <1>3, <1>6, <2>1, <2>2, <2>4 DEF ListCandidates
  <2>6. t.pc = "each" /\ t.quiet = task[p].quiet /\ t.group = h
    BY <2>4
  <2>7. t.quiet => SettledBut(listed \cup {}, g.hash, g.row)
    <3>1. t.quiet => Settled(g.hash, current.rows[g.target])
      BY <1>4, <2>6 DEF FoundHash, Settled
    <3>. QED BY <2>1, <2>6, <3>1 DEF SettledBut, Settled
  <2>8. t.quiet => GroupStory(t, h, {})
    BY <1>4, <2>3, <2>6, <2>7 DEF GroupStory
  <2>9. SearchStory(t)
    BY <2>6, <2>8 DEF SearchStory, AssetPcs, RowPcs
  <2>. QED BY <1>1, <2>5, <2>9, SearchThought
<1>7. CASE NextCandidate(p)
  <2>1. PICK id : id = Min(g.left)
    OBVIOUS
  <2>2. PICK h : h = [g EXCEPT !.left = g.left \ {id}]
    OBVIOUS
  <2>3. h.target = g.target /\ h.row = g.row /\ h.hash = g.hash /\ h.left = g.left \ {id}
    BY <1>5, <2>2
  <2>4. PICK t : t = [pc |-> "row", quiet |-> task[p].quiet, asset |-> id, group |-> h]
    OBVIOUS
  <2>5. Become(p, t) /\ task[p].pc = "each"
    BY <1>3, <1>7, <2>1, <2>2, <2>4 DEF NextCandidate, At
  <2>6. t.pc = "row" /\ t.quiet = task[p].quiet /\ t.group = h /\ t.asset = id
    BY <2>4
  <2>7. t.quiet => SettledBut(h.left \cup {id}, g.hash, g.row)
    BY <1>4, <2>3, <2>5, <2>6 DEF SettledBut
  <2>8. t.quiet => GroupStory(t, h, {id})
    BY <1>4, <2>3, <2>6, <2>7 DEF GroupStory
  <2>9. SearchStory(t)
    BY <2>6, <2>8 DEF SearchStory, AssetStory, AssetPcs, RowPcs
  <2>. QED BY <1>1, <2>5, <2>9, SearchThought
<1>8. CASE CollectMatches(p)
  <2>1. PICK same : same = {id \in RowIds(current) :
                               /\ ~current.rows[id].missing
                               /\ current.rows[id].digest = g.hash}
    OBVIOUS
  <2>2. PICK t : t = [pc |-> "answer", quiet |-> task[p].quiet, target |-> g.target,
                      members |-> IF Cardinality(same) < 2 THEN {} ELSE same]
    OBVIOUS
  <2>3. Become(p, t) /\ task[p].pc = "each" /\ g.left = {}
    BY <1>2, <1>3, <1>8, <2>1, <2>2 DEF CollectMatches, At
  <2>4. /\ t.pc = "answer" /\ t.quiet = task[p].quiet /\ t.target = g.target
        /\ t.members = IF Cardinality(same) < 2 THEN {} ELSE same
    BY <2>2
  <2>5. t.quiet => current.rows[g.target].digest = g.hash
    BY <1>4, <2>4 DEF FoundHash
  <2>6. t.quiet => SettledBut({}, g.hash, current.rows[g.target])
    BY <1>4, <2>3, <2>4 DEF SettledBut
  <2>7. t.quiet => AnswerStory(t)
    BY <1>4, <2>1, <2>4, <2>5, <2>6 DEF AnswerStory
  <2>8. SearchStory(t)
    BY <2>4, <2>7 DEF SearchStory, AssetPcs, RowPcs
  <2>. QED BY <1>1, <2>3, <2>8, SearchThought
<1>. QED BY <1>6, <1>7, <1>8

LEMMA SearchesNext ==
    ASSUME IndexInv, SearchesInv, [Next]_vars
    PROVE  SearchesInv'
<1>1. IndexInv'
  BY IndexStep
<1>2. CASE Environment
  BY <1>2, SearchesEnvironment
<1>3. ASSUME NEW p \in Process, Refresh(p) \/ Kill(p)
      PROVE  SearchesInv'
  BY <1>1, <1>3, RefreshSearches
<1>4. ASSUME NEW p \in Process, Return(p)
      PROVE  SearchesInv'
  <2>1. PICK t : t = Done
    OBVIOUS
  <2>2. /\ Become(p, t) /\ t.pc = "done" /\ UNCHANGED <<files, hidden, current>>
    BY <1>4, <2>1 DEF Return, Done, fileVars, envVars
  <2>. QED BY <2>2, IdleSearch, SearchThought DEF SearchPcs, AssetPcs, RowPcs
<1>5. ASSUME NEW p \in Process, Hash(p)
      PROVE  SearchesInv'
  BY <1>4, <1>5, StartSearch, LookUpSearch, CheckAssetSearch, ReadAssetSearch,
     CheckAgainSearch, StoreDigestSearch, StoreDigestFailsSearch, GroupSearch DEF Hash
<1>6. CASE UNCHANGED vars
  <2>1. ASSUME NEW q \in Process
        PROVE  SearchStory(task[q])'
    <3>1. PICK u : u = task[q]
      OBVIOUS
    <3>2. SearchStory(u) /\ UNCHANGED <<files, hidden, current>> /\ u = task'[q]
      BY <1>6, <3>1 DEF SearchesInv, vars, envVars, fileVars
    <3>3. SearchStory(u)'
      BY <3>2, SearchKept
    <3>. QED BY <3>2, <3>3, SearchNow
  <2>. QED BY <2>1 DEF SearchesInv
<1>. QED BY <1>2, <1>3, <1>5, <1>6 DEF Next

LEMMA SearchesInvariant == Spec => []SearchesInv
<1>1. Init => SearchesInv
  BY DEF Init, SearchesInv, New, SearchStory, AssetPcs, RowPcs
<1>2. IndexInv /\ SearchesInv /\ [Next]_vars => SearchesInv'
  BY SearchesNext
<1>. QED BY <1>1, <1>2, IndexInvariant, PTL DEF Spec

(* As long as nothing else happens during it, a search for duplicates is      *)
(* exact in both directions: what it names and the file system still shows as *)
(* the index has it holds the target's bytes, and every such file is named,   *)
(* although digests are looked up, found and stored one after the other.      *)
THEOREM GroupsAreSound == Spec => []GroupIsSound
<1>1. ASSUME IndexInv, SearchesInv
      PROVE  GroupIsSound
  <2>. SUFFICES ASSUME NEW p \in Process, Answered(p)
                PROVE  LET target  == ReadFile(current.rows[task[p].target].path)
                           fitting == {id \in RowIds(current) :
                                         ~current.rows[id].missing /\ Fits(current.rows[id])}
                           same    == {id \in fitting :
                                         /\ files[current.rows[id].path].content = target
                                         /\ Kind[current.rows[id].path]
                                            = Kind[current.rows[task[p].target].path]}
                       IN  /\ \A id \in task[p].members \cap fitting :
                                 files[current.rows[id].path].content = target
                           /\ Cardinality(same) > 1 => same \subseteq task[p].members
    BY DEF GroupIsSound
  <2>. DEFINE row == current.rows[task[p].target]
              target  == ReadFile(row.path)
              fitting == {id \in RowIds(current) :
                            ~current.rows[id].missing /\ Fits(current.rows[id])}
              same    == {id \in fitting :
                            /\ files[current.rows[id].path].content = target
                            /\ Kind[current.rows[id].path]
                               = Kind[row.path]}
              named   == {id \in RowIds(current) : /\ ~current.rows[id].missing
                                                   /\ current.rows[id].digest = row.digest}
  <2>1. AnswerStory(task[p])
    BY <1>1 DEF Answered, At, SearchesInv, SearchStory
  <2>2. /\ FoundHash(row.digest, row) /\ SettledBut({}, row.digest, row)
        /\ task[p].members = IF Cardinality(named) < 2 THEN {} ELSE named
    BY <2>1 DEF AnswerStory
  <2>3. /\ target = row.digest /\ row.digest # None
        /\ files[row.path].content = row.digest /\ SizeOf[row.digest] = row.size
    <3>. HIDE DEF row
    <3>1. FoundHash(row.digest, row)
      BY <2>2
    <3>2. Readable(row.path)
      BY <3>1 DEF FoundHash, Fits
    <3>. QED BY <3>1, <3>2 DEF FoundHash, ReadFile, Fits
  <2>4. ASSUME NEW id \in task[p].members \cap fitting
        PROVE  files[current.rows[id].path].content = target
    <3>1. current.rows[id].digest = row.digest /\ Fits(current.rows[id])
      BY <2>2, <2>4
    <3>2. current.rows[id] \in ToSet(current.rows)
      BY <2>4 DEF ToSet, RowIds
    <3>3. RowsTellTheTruth
      BY <1>1, SoundIndex DEF IndexSound
    <3>. QED BY <2>3, <3>1, <3>2, <3>3 DEF RowsTellTheTruth
  <2>5. same \subseteq named
    <3>1. ASSUME NEW id \in same
          PROVE  id \in named
      <4>1. /\ id \in RowIds(current) /\ ~current.rows[id].missing
            /\ Fits(current.rows[id])
            /\ files[current.rows[id].path].content = row.digest
            /\ Kind[current.rows[id].path] = Kind[row.path]
        BY <2>3
      <4>2. current.rows[id].size = row.size
        BY <2>3, <4>1 DEF Fits
      <4>. HIDE DEF row
      <4>3. Settled(row.digest, current.rows[id])
        BY <2>2, <4>1, <4>2 DEF SettledBut
      <4>4. current.rows[id].digest = row.digest
        BY <4>1, <4>3 DEF Settled
      <4>. QED BY <4>1, <4>4
    <3>. QED BY <3>1
  <2>6. IsFiniteSet(named) /\ Cardinality(named) \in Nat
    <3>1. PICK n \in Nat : RowIds(current) = 1..n
      BY <1>1, TableTyped DEF IndexInv, DatabaseInv, RowIds
    <3>2. IsFiniteSet(RowIds(current))
      BY <3>1, FS_Interval
    <3>3. named \subseteq RowIds(current)
      OBVIOUS
    <3>. HIDE DEF named
    <3>. QED BY <3>2, <3>3, FS_Subset, FS_CardinalityType
  <2>7. Cardinality(same) > 1 => same \subseteq task[p].members
    <3>. HIDE DEF same, named, row
    <3>1. Cardinality(same) <= Cardinality(named) /\ Cardinality(same) \in Nat
      BY <2>5, <2>6, FS_Subset, FS_CardinalityType
    <3>2. \A a, b \in Nat : a <= b /\ a > 1 => ~(b < 2)
      OBVIOUS
    <3>. QED BY <2>2, <2>5, <2>6, <3>1, <3>2
  <2>. QED BY <2>4, <2>7
<1>. QED BY <1>1, IndexInvariant, SearchesInvariant, PTL
=============================================================================
