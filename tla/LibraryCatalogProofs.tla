------------------------ MODULE LibraryCatalogProofs ------------------------
(***************************************************************************)
(* The library file is sound, tags agree wherever they are kept and edits   *)
(* are exact, for every number of processes, every set of names and assets  *)
(* and every tags a file may have held before.                              *)
(***************************************************************************)
EXTENDS LibraryCatalog, FiniteSetTheorems, SequenceTheorems, TLAPS

-----------------------------------------------------------------------------
(* Ids are bounded, so that there is one more than the largest.            *)

Bounded(named) == \E m \in Nat : \A r \in named : r.id <= m

LEMMA LeastNat ==
    ASSUME NEW T \in SUBSET Nat, T # {}
    PROVE  \E n \in T : \A m \in T : n <= m
<1>1. \E n \in T : \A m \in T : ~(<<m, n>> \in OpToRel(<, Nat))
  BY NatLessThanWellFounded, WFMin
<1>2. \A m, n \in Nat : m < n => <<m, n>> \in OpToRel(<, Nat)
  BY Zenon DEF OpToRel
<1>3. \A m, n \in Nat : n <= m \/ m < n OBVIOUS
<1> QED BY <1>1, <1>2, <1>3

LEMMA LargestNat ==
    ASSUME NEW T \in SUBSET Nat, T # {}, NEW b \in Nat, \A n \in T : n <= b
    PROVE  \E n \in T : \A m \in T : n >= m
<1> DEFINE D == {b - n : n \in T}
<1>1. D \subseteq Nat OBVIOUS
<1>2. D # {} OBVIOUS
<1> HIDE DEF D
<1>3. PICK d \in D : \A e \in D : d <= e BY <1>1, <1>2, LeastNat
<1> USE DEF D
<1>4. PICK n \in T : d = b - n BY <1>3
<1>5. \A m \in T : b - n <= b - m BY <1>3, <1>4
<1> QED BY <1>4, <1>5

LEMMA FiniteIsBounded ==
    ASSUME NEW S, IsFiniteSet(S), \A r \in S : r.id \in Nat
    PROVE  Bounded(S)
<1> DEFINE n == Cardinality(S)
<1>0. n \in Nat /\ ExistsBijection(1..n, S) BY FS_CardinalityType
<1>1. PICK f \in [1..n -> S] : \A r \in S : \E i \in 1..n : f[i] = r
  BY <1>0 DEF ExistsBijection, Bijection, Surjection, Injection
<1> HIDE DEF n
<1> DEFINE Fails == {k \in 0..n : ~\E m \in Nat : \A i \in 1..k : f[i].id <= m}
<1>2. Fails = {}
  <2> SUFFICES ASSUME Fails # {} PROVE FALSE OBVIOUS
  <2>1. Fails \subseteq Nat BY <1>0
  <2>2. PICK k \in Fails : \A j \in Fails : k <= j
    <3> HIDE DEF Fails
    <3> QED BY <2>1, LeastNat
  <2>3. k # 0 OBVIOUS
  <2>4. k \in 1..n /\ k - 1 \in 0..n BY <1>0, <2>3
  <2>5. PICK m \in Nat : \A i \in 1..(k - 1) : f[i].id <= m
    <3>1. k - 1 \notin Fails
      <4> HIDE DEF Fails
      <4>1. ~(k <= k - 1) BY <2>4
      <4> QED BY <2>2, <4>1
    <3> QED BY <2>4, <3>1
  <2>6. f[k].id \in Nat BY <1>1, <2>4
  <2>7. \A x, y, z \in Nat : y + z \in Nat /\ (x <= y \/ x = z => x <= y + z)
    OBVIOUS
  <2>8. \A i \in 1..k : f[i].id <= m + f[k].id
    <3>1. \A i \in 1..k : i \in 1..n /\ (i \in 1..(k - 1) \/ i = k)
      BY ONLY <1>0, <2>4
    <3>2. \A i \in 1..n : f[i].id \in Nat BY <1>1
    <3> QED BY <2>5, <2>6, <2>7, <3>1, <3>2
  <2>9. m + f[k].id \in Nat BY <2>6, <2>7
  <2> QED BY <2>4, <2>8, <2>9
<1>3. n \in 0..n BY <1>0
<1>4. PICK m \in Nat : \A i \in 1..n : f[i].id <= m BY <1>2, <1>3
<1> QED BY <1>1, <1>4 DEF Bounded

LEMMA NewIdIsLarger ==
    ASSUME NEW S, \A r \in S : r.id \in Nat, Bounded(S)
    PROVE  NewId(S) \in Nat \ {0} /\ \A r \in S : r.id < NewId(S)
<1> DEFINE T == {r.id : r \in S} \cup {0}
<1>1. PICK b \in Nat : \A r \in S : r.id <= b BY DEF Bounded
<1>2. T \in SUBSET Nat /\ T # {} /\ \A n \in T : n <= b BY <1>1
<1>3. NewId(S) = 1 + Max(T) BY DEF NewId
<1>4. \A r \in S : r.id \in T OBVIOUS
<1> HIDE DEF T
<1>5. \E n \in T : \A m \in T : n >= m BY <1>2, LargestNat
<1>6. Max(T) \in T /\ \A m \in T : Max(T) >= m BY <1>5 DEF Max
<1>7. Max(T) \in Nat BY <1>2, <1>6
<1> QED BY <1>3, <1>4, <1>6, <1>7

-----------------------------------------------------------------------------
(* What the calls make of the tables.                                      *)

\* The tables within replace_tags: a tag may have lost its last asset.
Linked(rows) == /\ rows \in Tables
                /\ \A l \in rows.links : /\ l.asset \in rows.assets
                                         /\ \E t \in rows.tags : t.id = l.tag
                /\ Unique(rows.tags) /\ Bounded(rows.tags)
                /\ Unique(rows.searches) /\ Bounded(rows.searches)

\* The tables between two calls.
Sound(rows) == Linked(rows) /\ Consistent(rows) /\ FindsTagged(rows)

LEMMA ConsistentIsLinked ==
    ASSUME NEW rows \in Tables, Consistent(rows), Bounded(rows.tags), Bounded(rows.searches)
    PROVE  Linked(rows)
<1>1. ASSUME NEW l \in rows.links
      PROVE  l.asset \in rows.assets /\ \E t \in rows.tags : t.id = l.tag
  <2>1. l.asset \in rows.assets BY DEF Consistent
  <2>2. l.tag \in {t.id : t \in rows.tags} BY DEF Consistent
  <2> QED BY <2>1, <2>2
<1> QED BY <1>1 DEF Consistent, Linked

LEMMA FirstRowsAreSound == Sound(NoRows) /\ Sound(OldRows)
<1>1. NoRows \in Tables /\ Consistent(NoRows) /\ FindsTagged(NoRows)
  BY RowsAssumption DEF EmptyRows, Tables, Consistent, Unique, FindsTagged, FoldedTags, TagsOf
<1>2. Bounded(NoRows.tags) /\ Bounded(NoRows.searches)
  <2>1. NoRows.tags = {} /\ NoRows.searches = {} BY RowsAssumption DEF EmptyRows
  <2> QED BY <2>1 DEF Bounded
<1>3. Bounded(OldRows.tags) /\ Bounded(OldRows.searches)
  BY RowsAssumption, FiniteIsBounded DEF Tables
<1> QED BY <1>1, <1>2, <1>3, RowsAssumption, ConsistentIsLinked DEF Sound

LEMMA InsertIsSound ==
    ASSUME NEW rows, Sound(rows), NEW a \in Asset
    PROVE  Sound([rows EXCEPT !.assets = @ \cup {a}])
BY DEF Sound, Linked, Tables, Consistent, FindsTagged, FoldedTags, TagsOf

\* Saving a search leaves ids and names unique, and those there were as they were.
LEMMA UpsertedSearches ==
    ASSUME NEW rows, Linked(rows), NEW n \in Name, NEW q \in Search
    PROVE  LET new == Upserted(rows.searches, n, q)
           IN  /\ new \subseteq [id : Nat \ {0}, name : Name, search : Search]
               /\ Unique(new) /\ Bounded(new)
               /\ \A r \in rows.searches, t \in new :
                     SameName(r.name, t.name) => r.id = t.id /\ r.name = t.name
<1> DEFINE old == rows.searches
           new == Upserted(old, n, q)
<1>1. /\ old \subseteq [id : Nat \ {0}, name : Name, search : Search]
      /\ Unique(old) /\ Bounded(old)
  BY DEF Linked, Tables
<1> HIDE DEF old
<1>2. CASE \E r \in old : SameName(r.name, n)
  <2>1. new = {IF SameName(r.name, n) THEN [r EXCEPT !.search = q] ELSE r : r \in old}
    BY <1>2 DEF Upserted
  <2> HIDE DEF new
  <2>2. \A t \in new : \E r \in old : t.id = r.id /\ t.name = r.name
                                      /\ t.search = IF SameName(r.name, n) THEN q ELSE r.search
    BY <1>1, <2>1
  <2>3. new \subseteq [id : Nat \ {0}, name : Name, search : Search]
    BY <1>1, <2>1
  <2>4. Unique(new) BY <1>1, <2>2, <2>3 DEF Unique, SameName
  <2>5. Bounded(new) BY <1>1, <2>2 DEF Bounded
  <2>6. \A r \in old, t \in new :
            SameName(r.name, t.name) => r.id = t.id /\ r.name = t.name
    BY <1>1, <2>2 DEF Unique
  <2> QED BY <2>3, <2>4, <2>5, <2>6 DEF old, new
<1>3. CASE ~\E r \in old : SameName(r.name, n)
  <2>1. new = old \cup {[id |-> NewId(old), name |-> n, search |-> q]}
    BY <1>3 DEF Upserted
  <2> HIDE DEF new
  <2>2. NewId(old) \in Nat \ {0} /\ \A r \in old : r.id < NewId(old)
    BY <1>1, NewIdIsLarger
  <2>3. new \subseteq [id : Nat \ {0}, name : Name, search : Search]
    BY <1>1, <2>1, <2>2
  <2>4. \A r \in old : r.id # NewId(old) BY <1>1, <2>2
  <2>5. Unique(new) BY <1>1, <1>3, <2>1, <2>4 DEF Unique, SameName
  <2>6. Bounded(new)
    <3>1. \A r \in new : r.id <= NewId(old) BY <1>1, <2>1, <2>2
    <3> QED BY <2>2, <3>1 DEF Bounded
  <2>7. \A r \in old, t \in new :
            SameName(r.name, t.name) => r.id = t.id /\ r.name = t.name
    BY <1>1, <1>3, <2>1 DEF Unique
  <2> QED BY <2>3, <2>5, <2>6, <2>7 DEF old, new
<1> QED BY <1>2, <1>3

\* Only the searches change, to others that are sound.
LEMMA NewSearchesAreSound ==
    ASSUME NEW rows, Sound(rows), NEW searches,
           searches \subseteq [id : Nat \ {0}, name : Name, search : Search],
           Unique(searches), Bounded(searches)
    PROVE  Sound([rows EXCEPT !.searches = searches])
BY DEF Sound, Linked, Tables, Consistent, FindsTagged, FoldedTags, TagsOf

LEMMA UnlinkedRows ==
    ASSUME NEW rows, Sound(rows), NEW a \in Asset
    PROVE  /\ Linked(Unlinked(rows, a))
           /\ FoldedTags(Unlinked(rows, a), a) = {}
           /\ \A b \in Asset : b # a => FoldedTags(Unlinked(rows, a), b) = FoldedTags(rows, b)
<1>1. Linked(Unlinked(rows, a)) BY DEF Sound, Linked, Tables, Unlinked
<1>2. TagsOf(Unlinked(rows, a), a) = {}
  BY DEF Sound, Linked, Tables, Unlinked, TagsOf
<1>3. \A b \in Asset : b # a => TagsOf(Unlinked(rows, a), b) = TagsOf(rows, b)
  BY DEF Sound, Linked, Tables, Unlinked, TagsOf
<1> QED BY <1>1, <1>2, <1>3 DEF FoldedTags

\* create_tag and link give the asset one more tag, known or new, and leave what
\* other assets show as it was, apart from case.
LEMMA TaggedRows ==
    ASSUME NEW rows, Linked(rows), NEW a \in rows.assets, NEW n \in Name
    PROVE  LET new == Tagged(rows, a, n)
           IN  /\ Linked(new)
               /\ new.assets = rows.assets /\ new.searches = rows.searches
               /\ new.text = rows.text /\ new.words = rows.words
               /\ FoldedTags(new, a) = FoldedTags(rows, a) \cup {Folded[n]}
               /\ \A b \in Asset : b # a => FoldedTags(new, b) = FoldedTags(rows, b)
<1> DEFINE known == \E t \in rows.tags : SameName(t.name, n)
           id    == IF known THEN TagNamed(rows.tags, n).id ELSE NewId(rows.tags)
           tag   == [id |-> id, name |-> n]
           new   == Tagged(rows, a, n)
<1>1. /\ rows \in Tables /\ a \in Asset
      /\ rows.tags \subseteq [id : Nat \ {0}, name : Name]
      /\ Unique(rows.tags) /\ Bounded(rows.tags)
      /\ \A l \in rows.links : \E t \in rows.tags : t.id = l.tag
  BY DEF Linked, Tables
<1>2. new = [rows EXCEPT !.tags  = {t \in @ : t.id # id} \cup {tag},
                         !.links = @ \cup {[asset |-> a, tag |-> id]}]
  BY DEF Tagged
<1>3. /\ id \in Nat \ {0}
      /\ \A t \in rows.tags : t.id = id <=> SameName(t.name, n)
      /\ ~known => \A t \in rows.tags : t.id < id
  <2>1. CASE known
    <3>1. TagNamed(rows.tags, n) \in rows.tags /\ SameName(TagNamed(rows.tags, n).name, n)
      BY <2>1 DEF TagNamed
    <3>2. id = TagNamed(rows.tags, n).id BY <2>1
    <3> HIDE DEF id, known
    <3>3. \A t \in rows.tags : t.id = id <=> SameName(t.name, n)
      BY <1>1, <3>1, <3>2 DEF Unique, SameName
    <3> QED BY <1>1, <2>1, <3>1, <3>2, <3>3
  <2>2. CASE ~known
    <3>1. id = NewId(rows.tags) /\ \A t \in rows.tags : ~SameName(t.name, n) BY <2>2
    <3>2. id \in Nat \ {0} /\ \A t \in rows.tags : t.id < id
      BY <1>1, <3>1, NewIdIsLarger
    <3> HIDE DEF id, known
    <3>3. \A t \in rows.tags : t.id # id BY <1>1, <3>2
    <3> QED BY <3>1, <3>2, <3>3
  <2> QED BY <2>1, <2>2
<1> HIDE DEF known, id
<1>4. /\ new \in Tables
      /\ new.assets = rows.assets /\ new.searches = rows.searches
      /\ new.text = rows.text /\ new.words = rows.words
      /\ new.tags = {t \in rows.tags : t.id # id} \cup {tag}
      /\ new.links = rows.links \cup {[asset |-> a, tag |-> id]}
  <2>1. tag \in [id : Nat \ {0}, name : Name] /\ tag.id = id BY <1>3
  <2>2. [asset |-> a, tag |-> id] \in [asset : Asset, tag : Nat \ {0}] BY <1>1, <1>3
  <2> HIDE DEF new, tag
  <2>3. /\ new.assets = rows.assets /\ new.searches = rows.searches
        /\ new.text = rows.text /\ new.words = rows.words
        /\ new.tags = {t \in rows.tags : t.id # id} \cup {tag}
        /\ new.links = rows.links \cup {[asset |-> a, tag |-> id]}
    BY <1>1, <1>2 DEF Tables
  <2>4. /\ new.tags \subseteq [id : Nat \ {0}, name : Name]
        /\ new.links \subseteq [asset : Asset, tag : Nat \ {0}]
    BY <1>1, <2>1, <2>2, <2>3 DEF Tables
  <2>5. new \in Tables BY <1>1, <1>2, <2>3, <2>4 DEF Tables
  <2> QED BY <2>3, <2>5 DEF tag
<1> HIDE DEF new
<1>5. Unique(new.tags)
  <2>1. \A t \in rows.tags : t.id # id => ~SameName(t.name, n) BY <1>3
  <2> QED BY <1>1, <1>4, <2>1 DEF Unique, SameName
<1>6. Bounded(new.tags)
  <2>1. PICK m \in Nat : \A t \in rows.tags : t.id <= m BY <1>1 DEF Bounded
  <2>2. m + id \in Nat /\ id <= m + id BY <1>3
  <2>3. \A t \in rows.tags : t.id <= m + id BY <1>1, <1>3, <2>1
  <2>4. \A t \in new.tags : t.id <= m + id BY <1>4, <2>2, <2>3
  <2> QED BY <2>2, <2>4 DEF Bounded
<1>7. \A l \in new.links : l.asset \in new.assets /\ \E t \in new.tags : t.id = l.tag
  <2>1. \A l \in rows.links : l.asset \in rows.assets BY DEF Linked
  <2>2. tag \in new.tags /\ tag.id = id BY <1>4
  <2> HIDE DEF tag
  <2>3. ASSUME NEW l \in rows.links PROVE \E t \in new.tags : t.id = l.tag
    <3>1. PICK t \in rows.tags : t.id = l.tag BY <1>1
    <3>2. t.id # id => t \in new.tags BY <1>4, <3>1
    <3> QED BY <2>2, <3>1, <3>2
  <2> DEFINE k == [asset |-> a, tag |-> id]
  <2>4. k.asset \in new.assets /\ k.tag = tag.id BY <1>4, <2>2
  <2>5. \A l \in new.links : l \in rows.links \/ l = k BY <1>4
  <2> HIDE DEF k
  <2> QED BY <1>4, <2>1, <2>2, <2>3, <2>4, <2>5
<1>8. Linked(new)
  BY <1>4, <1>5, <1>6, <1>7 DEF Linked
\* What a tag that was known is called now, is the same apart from case.
<1>9. ASSUME NEW b \in Asset, NEW t \in TagsOf(rows, b)
      PROVE  \E u \in TagsOf(new, b) : Folded[u.name] = Folded[t.name]
  <2>1. t \in rows.tags /\ [asset |-> b, tag |-> t.id] \in new.links
    BY <1>4 DEF TagsOf
  <2>2. CASE t.id = id
    BY <1>3, <1>4, <2>1, <2>2 DEF TagsOf, SameName
  <2>3. CASE t.id # id
    BY <1>4, <2>1, <2>3 DEF TagsOf
  <2> QED BY <2>2, <2>3
<1>10. ASSUME NEW b \in Asset, NEW u \in TagsOf(new, b), b # a \/ u.id # id
       PROVE  \E t \in TagsOf(rows, b) : Folded[t.name] = Folded[u.name]
  <2>1. u \in new.tags /\ [asset |-> b, tag |-> u.id] \in rows.links
    BY <1>4, <1>10 DEF TagsOf
  <2>2. PICK t \in rows.tags : t.id = u.id BY <1>1, <2>1
  <2>3. t \in TagsOf(rows, b) BY <2>1, <2>2 DEF TagsOf
  <2>4. Folded[t.name] = Folded[u.name]
    BY <1>1, <1>3, <1>4, <2>1, <2>2 DEF Unique, SameName
  <2> QED BY <2>3, <2>4
<1>11. tag \in TagsOf(new, a) /\ \A u \in TagsOf(new, a) : u.id = id => Folded[u.name] = Folded[n]
  BY <1>4 DEF TagsOf
<1>12. FoldedTags(new, a) = FoldedTags(rows, a) \cup {Folded[n]}
  BY <1>1, <1>9, <1>10, <1>11 DEF FoldedTags
<1>13. \A b \in Asset : b # a => FoldedTags(new, b) = FoldedTags(rows, b)
  BY <1>9, <1>10 DEF FoldedTags
<1> QED BY <1>4, <1>8, <1>12, <1>13 DEF new

\* The end of replace_tags makes them sound again.
LEMMA FinishedRows ==
    ASSUME NEW rows, Linked(rows), NEW a \in Asset,
           \A b \in Asset : b # a => rows.words[b] = FoldedTags(rows, b)
    PROVE  LET new == WithoutOrphans(Indexed(WithText(rows, a), a))
           IN  /\ Sound(new)
               /\ new.searches = rows.searches
               /\ \A b \in Asset : FoldedTags(new, b) = FoldedTags(rows, b)
<1> DEFINE names == {t.name : t \in TagsOf(rows, a)}
           new   == WithoutOrphans(Indexed(WithText(rows, a), a))
<1>1. rows \in Tables /\ names \subseteq Name
  BY DEF Linked, Tables, TagsOf
<1>2. {Folded[n] : n \in names} = FoldedTags(rows, a) BY DEF FoldedTags
<1>3. FoldedTags(rows, a) \subseteq Name
  BY <1>1, <1>2, FoldedAssumption
<1>4. WithText(rows, a) = [rows EXCEPT !.text[a] = names] BY DEF WithText
<1> HIDE DEF names
<1>5. Indexed(WithText(rows, a), a)
        = [rows EXCEPT !.text[a] = names, !.words[a] = FoldedTags(rows, a)]
  BY <1>1, <1>2, <1>4 DEF Indexed, Tables
<1>6. /\ new \in Tables
      /\ new.assets = rows.assets /\ new.searches = rows.searches
      /\ new.links = rows.links
      /\ new.tags = {t \in rows.tags : \E l \in rows.links : l.tag = t.id}
      /\ new.words = [rows.words EXCEPT ![a] = FoldedTags(rows, a)]
  <2> DEFINE mid == [rows EXCEPT !.text[a] = names, !.words[a] = FoldedTags(rows, a)]
  <2>1. new = [mid EXCEPT !.tags = {t \in @ : \E l \in mid.links : l.tag = t.id}]
    BY <1>5 DEF WithoutOrphans
  <2>2. /\ mid.assets = rows.assets /\ mid.searches = rows.searches
        /\ mid.links = rows.links /\ mid.tags = rows.tags
        /\ mid.words = [rows.words EXCEPT ![a] = FoldedTags(rows, a)]
        /\ mid.text = [rows.text EXCEPT ![a] = names]
    BY <1>1 DEF Tables
  <2>3. mid.words \in [Asset -> SUBSET Name] /\ mid.text \in [Asset -> SUBSET Name]
    BY <1>1, <1>3, <2>2 DEF Tables
  <2>4. mid \in Tables BY <1>1, <2>2, <2>3 DEF Tables
  <2> HIDE DEF mid, new
  <2>5. new \in Tables BY <2>1, <2>4 DEF Tables
  <2>6. /\ new.assets = rows.assets /\ new.searches = rows.searches
        /\ new.links = rows.links
        /\ new.tags = {t \in rows.tags : \E l \in rows.links : l.tag = t.id}
        /\ new.words = [rows.words EXCEPT ![a] = FoldedTags(rows, a)]
    BY <2>1, <2>2, <2>4 DEF Tables
  <2> QED BY <2>5, <2>6
<1> HIDE DEF new
<1>7. \A b \in Asset : TagsOf(new, b) = TagsOf(rows, b)
  BY <1>6 DEF TagsOf
<1>8. \A b \in Asset : FoldedTags(new, b) = FoldedTags(rows, b)
  BY <1>7 DEF FoldedTags
<1>9. FindsTagged(new)
  BY <1>1, <1>6, <1>8 DEF FindsTagged, Tables
<1>10. Linked(new)
  BY <1>6 DEF Linked, Unique, Bounded
<1>11. Consistent(new)
  BY <1>6, <1>10 DEF Linked, Consistent
<1> QED BY <1>6, <1>8, <1>9, <1>10, <1>11 DEF Sound, new

-----------------------------------------------------------------------------
(* The invariant: what is on disk is sound; the writer is the one process    *)
(* that is inside a transaction; what a process knows of the version is no   *)
(* newer than the file; and a draft is as far from the file as its           *)
(* transaction has come.                                                     *)

Versions == FirstVersions \cup 0..CurrentSchemaVersion

Db == [version : Versions,
       objects : SUBSET {"assets", "content_sha256", "saved_searches"},
       rows    : Tables]

FileSound(db) == db \in Db /\ db.objects = ObjectsOf(db.version) /\ Sound(db.rows)

FilesInv == /\ view = [p \in Process |-> None] /\ behind = {}
            /\ FileSound(current) /\ FileSound(durable)
            /\ writer \in Process \cup {None}
            /\ writer = None => draft = None

CallsInv ==
    /\ conn \in [Process -> [pc : {"closed", "checked", "migrating", "migrated", "ready",
                                   "tagging", "done", "failed"},
                             version : Versions]]
    /\ call \in [Process -> [asset : Asset, tags : TagList, left : Seq(Name)] \cup {None}]
    /\ edits \in 0..MaxEdits

Migrated(p) == /\ draft \in Db
               /\ draft.version = NextVersion(conn[p].version)
               /\ draft.objects = ObjectsOf(draft.version)
               /\ draft.rows = current.rows

FoldedList(tags) == {Folded[n] : n \in Range(tags)}

\* So far, asset a has the tags of the call but those left, and no other asset
\* shows anything else than before.
Retagged(rows, old, c) ==
    /\ c \in [asset : Asset, tags : TagList, left : Seq(Name)]
    /\ Linked(rows)
    /\ c.asset \in rows.assets
    /\ rows.searches = old.searches
    /\ FoldedTags(rows, c.asset) \cup FoldedList(c.left) = FoldedList(c.tags)
    /\ \A b \in Asset : b # c.asset => /\ rows.words[b] = FoldedTags(rows, b)
                                       /\ FoldedTags(rows, b) = FoldedTags(old, b)

Tagging(p) == /\ draft \in Db
              /\ draft.version = CurrentSchemaVersion
              /\ draft.objects = ObjectsOf(CurrentSchemaVersion)
              /\ Retagged(draft.rows, current.rows, call[p])

Working(p) ==
    LET pc      == conn[p].pc
        version == conn[p].version
    IN  /\ writer = p <=> pc \in {"migrating", "migrated", "tagging"}
        /\ pc \in {"checked", "migrating", "migrated"} => version <= current.version
        /\ pc = "checked" /\ version >= CurrentSchemaVersion => version = current.version
        /\ pc = "migrating" => version < CurrentSchemaVersion /\ draft = current
        /\ pc = "migrated" => /\ version < CurrentSchemaVersion
                              /\ version = current.version
                              /\ Migrated(p)
        /\ pc \in {"ready", "tagging"} => current.version = CurrentSchemaVersion
        /\ pc = "tagging" => Tagging(p) /\ edits < MaxEdits

LibraryInv == FilesInv /\ CallsInv /\ \A p \in Process : Working(p)

-----------------------------------------------------------------------------
(* Versions and their objects.                                             *)

LEMMA VersionsAreNat == Versions \subseteq Nat
BY VersionsAssumption DEF Versions, CurrentSchemaVersion

LEMMA NextVersionFacts ==
    ASSUME NEW v \in Nat, v < CurrentSchemaVersion
    PROVE  /\ NextVersion(v) \in Versions /\ v < NextVersion(v)
           /\ NextVersion(v) <= CurrentSchemaVersion
           /\ ObjectsOf(v) \cup Created(v) = ObjectsOf(NextVersion(v))
           /\ v # 1 => NextVersion(v) = CurrentSchemaVersion
<1>1. v \in {0, 1, 2} BY DEF CurrentSchemaVersion
<1> QED BY <1>1 DEF NextVersion, Versions, CurrentSchemaVersion, ObjectsOf, Created

\* A migration fits the version it is for, and no later one.
LEMMA CreatedOnce ==
    ASSUME NEW v \in Nat, NEW w \in Nat, v < CurrentSchemaVersion, v <= w
    PROVE  Created(v) \cap ObjectsOf(w) = {} <=> v = w
<1>1. v \in {0, 1, 2} BY DEF CurrentSchemaVersion
<1>2. CASE v = 0 BY <1>2 DEF NextVersion, CurrentSchemaVersion, ObjectsOf, Created
<1>3. CASE v = 1 BY <1>3 DEF NextVersion, CurrentSchemaVersion, ObjectsOf, Created
<1>4. CASE v = 2 BY <1>4 DEF NextVersion, CurrentSchemaVersion, ObjectsOf, Created
<1> QED BY <1>1, <1>2, <1>3, <1>4

LEMMA ObjectsType ==
    \A v : ObjectsOf(v) \subseteq {"assets", "content_sha256", "saved_searches"}
BY DEF ObjectsOf

-----------------------------------------------------------------------------
(* The steps.                                                              *)

LEMMA LibraryInvInit == CatalogInit => LibraryInv
<1> SUFFICES ASSUME CatalogInit PROVE LibraryInv OBVIOUS
<1>1. PICK v \in FirstVersions : FileInit(FileOf(v)) BY DEF CatalogInit, SchemaInit
<1>2. FileOf(v) \in Db /\ FileSound(FileOf(v))
  <2>1. Sound(FileOf(v).rows) /\ FileOf(v).rows \in Tables
    BY FirstRowsAreSound DEF FileOf, Sound, Linked
  <2> QED BY <2>1, ObjectsType DEF FileOf, FileSound, Db, Versions
<1>3. FilesInv BY <1>1, <1>2 DEF FileInit, FilesInv
<1>4. CallsInv
  BY CallsAssumption DEF CatalogInit, SchemaInit, CallsInv, Versions, CurrentSchemaVersion
<1>5. \A p \in Process : Working(p)
  BY <1>1, NoneAssumption DEF FileInit, CatalogInit, SchemaInit, Working
<1> QED BY <1>3, <1>4, <1>5 DEF LibraryInv

\* A step of another process is none to one that holds the lock, and takes no
\* version back.
LEMMA OthersKeepWorking ==
    ASSUME NEW q \in Process, Working(q), conn[q].version \in Versions,
           conn'[q] = conn[q], call'[q] = call[q],
           writer' = q <=> writer = q,
           writer = q => draft' = draft /\ current' = current /\ edits' = edits,
           current.version \in Nat, current'.version \in Nat,
           current.version <= current'.version,
           current.version >= CurrentSchemaVersion => current'.version = current.version
    PROVE  Working(q)'
<1>1. conn[q].version \in Nat BY VersionsAreNat
<1>2. Migrated(q) /\ writer = q => Migrated(q)' BY DEF Migrated
<1>3. Tagging(q) /\ writer = q => Tagging(q)' BY DEF Tagging
<1>4. CurrentSchemaVersion \in Nat BY DEF CurrentSchemaVersion
<1> QED BY <1>1, <1>2, <1>3, <1>4 DEF Working

\* A step of p preserves the invariant when p itself is well and the lock of
\* another process is respected.
LEMMA StepOf ==
    ASSUME NEW p \in Process, LibraryInv, FilesInv', CallsInv', Working(p)',
           \A q \in Process \ {p} :
              /\ conn'[q] = conn[q] /\ call'[q] = call[q]
              /\ writer' = q <=> writer = q
              /\ writer = q => draft' = draft /\ current' = current /\ edits' = edits,
           current.version <= current'.version,
           current.version >= CurrentSchemaVersion => current'.version = current.version
    PROVE  LibraryInv'
<1>1. current.version \in Nat /\ current'.version \in Nat
  BY VersionsAreNat DEF LibraryInv, FilesInv, FileSound, Db
<1>2. ASSUME NEW q \in Process, q # p PROVE Working(q)'
  <2>1. Working(q) /\ conn[q].version \in Versions BY DEF LibraryInv, CallsInv
  <2> QED BY <1>1, <1>2, <2>1, OthersKeepWorking
<1> QED BY <1>2 DEF LibraryInv

\* Steps that leave the file alone.
LEMMA QuietStep ==
    ASSUME NEW p \in Process, LibraryInv, UNCHANGED <<fileVars, call, edits>>,
           \/ Open(p) \/ OpenFails(p) \/ OpenCurrent(p) \/ RefuseNewer(p)
           \/ MigrationTimeout(p) \/ CallTimeout(p)
    PROVE  LibraryInv'
<1>1. FilesInv' BY DEF LibraryInv, FilesInv, fileVars, FileSound
<1>2. current.version \in Versions BY DEF LibraryInv, FilesInv, FileSound, Db
<1>3. Working(p) /\ Seen(p) = IF writer = p THEN draft ELSE current
  BY DEF LibraryInv, FilesInv, Seen
<1>4. current.version <= current.version
  <2>1. current.version \in Nat BY <1>2, VersionsAreNat
  <2> QED BY <2>1
<1>5. CallsInv'
  BY <1>2, <1>3 DEF LibraryInv, CallsInv, Open, OpenFails, OpenCurrent, RefuseNewer,
     MigrationTimeout, CallTimeout, GoTo, Ready, Working
<1>6. Working(p)'
  <2>1. /\ conn'[p].pc \in {"checked", "ready", "failed"}
        /\ conn'[p].pc = "checked" => /\ conn'[p].version = current.version
                                      /\ current.version <= current.version
        /\ conn'[p].pc = "ready" => current.version = CurrentSchemaVersion
    <3>1. CASE Open(p)
      <4>1. conn'[p] = [pc |-> "checked", version |-> current.version]
        BY <1>3, <3>1 DEF Open, Working, LibraryInv, CallsInv
      <4> QED BY <1>4, <4>1
    <3>2. CASE OpenCurrent(p)
      <4>1. conn'[p].pc = "ready" /\ conn[p].version = CurrentSchemaVersion
        BY <3>2 DEF OpenCurrent, GoTo, LibraryInv, CallsInv
      <4>2. CurrentSchemaVersion >= CurrentSchemaVersion BY DEF CurrentSchemaVersion
      <4> QED BY <1>3, <3>2, <4>1, <4>2 DEF OpenCurrent, Working
    <3>3. CASE OpenFails(p) \/ RefuseNewer(p) \/ MigrationTimeout(p) \/ CallTimeout(p)
      BY <3>3 DEF OpenFails, RefuseNewer, MigrationTimeout, CallTimeout, GoTo, LibraryInv,
                  CallsInv
    <3> QED BY <3>1, <3>2, <3>3
  <2>2. conn[p].pc \in {"closed", "checked", "ready"}
    BY DEF Open, OpenFails, OpenCurrent, RefuseNewer, MigrationTimeout, CallTimeout, Ready
  <2> QED BY <1>3, <2>1, <2>2 DEF fileVars, Working
<1>7. \A q \in Process \ {p} : conn'[q] = conn[q]
  BY DEF Open, OpenFails, OpenCurrent, RefuseNewer, MigrationTimeout, CallTimeout, GoTo,
         LibraryInv, CallsInv
<1> QED BY <1>1, <1>5, <1>6, <1>7, <1>4, StepOf DEF fileVars

\* Steps that end the transaction of p, if it has one.
LEMMA LettingGo ==
    ASSUME NEW p \in Process, LibraryInv, LetGo(p), UNCHANGED edits,
           NEW pc \in {"closed", "failed"}, GoTo(p, pc),
           call' = call \/ call' = [call EXCEPT ![p] = None]
    PROVE  LibraryInv'
<1>1. /\ current' = current /\ durable' = durable /\ view' = view /\ behind' = behind
      /\ writer' = IF writer = p THEN None ELSE writer
      /\ draft' = IF writer = p THEN None ELSE draft
  BY DEF LibraryInv, FilesInv, LetGo
<1>2. FilesInv' BY <1>1 DEF LibraryInv, FilesInv, FileSound
<1>3. /\ conn' = [conn EXCEPT ![p].pc = pc] /\ conn'[p].pc = pc
      /\ \A q \in Process \ {p} : conn'[q] = conn[q] /\ call'[q] = call[q]
  BY DEF GoTo, LibraryInv, CallsInv
<1>4. CallsInv' BY <1>3 DEF LibraryInv, CallsInv
<1>5. Working(p)' BY <1>1, <1>3, NoneAssumption DEF Working
<1>6. \A q \in Process \ {p} : /\ writer' = q <=> writer = q
                               /\ writer = q => draft' = draft /\ current' = current
                                                /\ edits' = edits
  BY <1>1, NoneAssumption
<1>7. current.version <= current'.version
  <2>1. current.version \in Nat BY VersionsAreNat DEF LibraryInv, FilesInv, FileSound, Db
  <2> QED BY <1>1, <2>1
<1> QED BY <1>1, <1>2, <1>3, <1>4, <1>5, <1>6, <1>7, StepOf

LEMMA EndingStep ==
    ASSUME NEW p \in Process, LibraryInv,
           \/ MigrateFails(p) /\ UNCHANGED <<call, edits>>
           \/ End(p)
           \/ KillCommand(p)
    PROVE  LibraryInv'
BY LettingGo DEF MigrateFails, RollBack, End, Close, KillCommand, Kill

\* A process gets the lock, and with it a draft.
LEMMA Beginning ==
    ASSUME NEW p \in Process, LibraryInv, NEW db, BeginWith(p, db)
    PROVE  /\ FilesInv' /\ current' = current /\ current.version <= current'.version
           /\ writer' = p /\ draft' = db
           /\ \A q \in Process \ {p} : writer # q /\ writer' # q
<1>1. /\ current' = current /\ durable' = durable /\ view' = view /\ behind' = behind
      /\ writer = None /\ writer' = p /\ draft' = db
  BY DEF BeginWith, CanWrite
<1>2. FilesInv' BY <1>1, NoneAssumption DEF LibraryInv, FilesInv, FileSound
<1>3. current.version \in Nat BY VersionsAreNat DEF LibraryInv, FilesInv, FileSound, Db
<1>4. \A q \in Process : q # None BY NoneAssumption
<1> QED BY <1>1, <1>2, <1>3, <1>4

LEMMA BeginMigrationInv ==
    ASSUME NEW p \in Process, LibraryInv, BeginMigration(p), UNCHANGED <<call, edits>>
    PROVE  LibraryInv'
<1>1. BeginWith(p, current) BY DEF BeginMigration, Begin
<1>2. /\ conn' = [conn EXCEPT ![p].pc = "migrating"] /\ conn'[p].pc = "migrating"
      /\ conn'[p].version = conn[p].version
      /\ \A q \in Process \ {p} : conn'[q] = conn[q]
  BY DEF BeginMigration, GoTo, LibraryInv, CallsInv
<1>3. CallsInv' BY <1>2 DEF LibraryInv, CallsInv
<1>4. Working(p)'
  BY <1>1, <1>2, Beginning DEF LibraryInv, Working, BeginMigration
<1> QED BY <1>1, <1>2, <1>3, <1>4, Beginning, StepOf

LEMMA MigrateInv ==
    ASSUME NEW p \in Process, LibraryInv, Migrate(p), UNCHANGED <<call, edits>>
    PROVE  LibraryInv'
<1> DEFINE v == conn[p].version
<1>1. /\ writer = p /\ writer' = p /\ current' = current /\ durable' = durable
      /\ view' = view /\ behind' = behind
      /\ draft' = [draft EXCEPT !.objects = @ \cup Created(v), !.version = NextVersion(v)]
  BY DEF Migrate, Edit
<1>2. /\ conn' = [conn EXCEPT ![p].pc = "migrated"] /\ conn'[p].pc = "migrated"
      /\ conn'[p].version = v
      /\ \A q \in Process \ {p} : conn'[q] = conn[q]
  BY DEF Migrate, GoTo, LibraryInv, CallsInv
<1>3. FilesInv' BY <1>1, NoneAssumption DEF LibraryInv, FilesInv, FileSound
<1>4. CallsInv' BY <1>2 DEF LibraryInv, CallsInv
<1>5. /\ draft = current /\ v < CurrentSchemaVersion /\ v <= current.version
      /\ v \in Nat /\ current.version \in Nat
      /\ current \in Db /\ current.objects = ObjectsOf(current.version)
  BY VersionsAreNat
     DEF Migrate, LibraryInv, CallsInv, FilesInv, FileSound, Db, Working
<1>6. v = current.version BY <1>5, CreatedOnce DEF Migrate, Applies
<1>7. Migrated(p)'
  <2>1. /\ draft'.version = NextVersion(v) /\ draft'.rows = current.rows
        /\ draft'.objects = ObjectsOf(NextVersion(v))
    BY <1>1, <1>5, <1>6, NextVersionFacts DEF Db
  <2>2. draft' \in Db
    BY <1>1, <1>5, <2>1, NextVersionFacts, ObjectsType DEF Db
  <2> QED BY <1>1, <1>2, <2>1, <2>2 DEF Migrated
<1>8. Working(p)' BY <1>1, <1>2, <1>5, <1>6, <1>7 DEF Working
<1>9. current.version <= current'.version BY <1>1, <1>5
<1>10. \A q \in Process \ {p} : writer # q /\ writer' # q BY <1>1
<1> QED BY <1>1, <1>2, <1>3, <1>4, <1>8, <1>9, <1>10, StepOf

\* What a commit of p leads to, when what it commits is sound.
LEMMA Committing ==
    ASSUME NEW p \in Process, LibraryInv, NEW db, CommitAs(p, db), FileSound(db),
           current.version <= db.version
    PROVE  /\ FilesInv' /\ current' = db /\ writer' = None
           /\ \A q \in Process \ {p} : writer # q /\ writer' # q
<1>1. /\ writer = p /\ writer' = None /\ draft' = None /\ current' = db
      /\ durable' = durable /\ view' = view /\ behind' = behind
  BY DEF CommitAs, LibraryInv, FilesInv, Overtaken
<1>2. FilesInv' BY <1>1 DEF LibraryInv, FilesInv, FileSound
<1> QED BY <1>1, <1>2, NoneAssumption

LEMMA CommitMigrationInv ==
    ASSUME NEW p \in Process, LibraryInv, CommitMigration(p), UNCHANGED <<call, edits>>
    PROVE  LibraryInv'
<1> DEFINE v == conn[p].version
<1>1. /\ Migrated(p) /\ v < CurrentSchemaVersion /\ v = current.version /\ v \in Nat
      /\ writer = p
  BY VersionsAreNat DEF CommitMigration, LibraryInv, CallsInv, Working
<1>2. CommitAs(p, draft) /\ FileSound(draft)
  BY <1>1 DEF CommitMigration, Migrated, LibraryInv, FilesInv, FileSound
<1>3. /\ draft.version = NextVersion(v) /\ v < NextVersion(v) /\ NextVersion(v) \in Versions
      /\ NextVersion(v) <= CurrentSchemaVersion
      /\ v # 1 => NextVersion(v) = CurrentSchemaVersion
  BY <1>1, NextVersionFacts DEF Migrated
<1>4. NextVersion(v) \in Nat /\ CurrentSchemaVersion \in Nat
  BY <1>3, VersionsAreNat DEF CurrentSchemaVersion
<1>5. current.version <= draft.version BY <1>1, <1>3, <1>4
<1>6. /\ FilesInv' /\ current' = draft /\ writer' = None
      /\ \A q \in Process \ {p} : writer # q /\ writer' # q
  BY <1>2, <1>5, Committing
<1>7. /\ conn'[p] = [pc |-> IF v = 1 THEN "checked" ELSE "ready", version |-> NextVersion(v)]
      /\ \A q \in Process \ {p} : conn'[q] = conn[q]
  BY DEF CommitMigration, LibraryInv, CallsInv
<1>8. CallsInv' BY <1>3, <1>7 DEF CommitMigration, LibraryInv, CallsInv
<1>9. Working(p)'
  <2>1. NextVersion(v) <= NextVersion(v) BY <1>4
  <2> QED BY <1>3, <1>6, <1>7, <2>1, NoneAssumption DEF Working
<1>10. ~(current.version >= CurrentSchemaVersion) BY <1>1, <1>4
<1> QED BY <1>5, <1>6, <1>7, <1>8, <1>9, <1>10, StepOf

\* A statement that changes the tables in a transaction of its own.
LEMMA Storing ==
    ASSUME NEW p \in Process, LibraryInv, NEW rows, Store(p, rows), Sound(rows)
    PROVE  LibraryInv' /\ current'.rows = rows
<1>1. /\ writer = None /\ writer' = None /\ draft' = draft /\ durable' = durable
      /\ view' = view /\ behind' = behind
      /\ current' = [current EXCEPT !.rows = rows]
  BY DEF Store, Autocommit, CanWrite, LibraryInv, FilesInv, Overtaken
<1>2. /\ current'.version = current.version /\ current'.rows = rows
      /\ FileSound(current')
  BY <1>1 DEF LibraryInv, FilesInv, FileSound, Db, Sound, Linked
<1>3. FilesInv' BY <1>1, <1>2 DEF LibraryInv, FilesInv, FileSound
<1>4. /\ conn' = [conn EXCEPT ![p].pc = "done"] /\ conn'[p].pc = "done"
      /\ \A q \in Process \ {p} : conn'[q] = conn[q]
  BY DEF Store, GoTo, LibraryInv, CallsInv
<1>5. CallsInv'
  <2>1. edits' \in 0..MaxEdits
    BY CallsAssumption DEF Store, LibraryInv, CallsInv
  <2> QED BY <1>4, <2>1 DEF Store, LibraryInv, CallsInv
<1>6. Working(p)' BY <1>1, <1>4, NoneAssumption DEF Working
<1>7. current.version <= current'.version
  <2>1. current.version \in Nat BY VersionsAreNat DEF LibraryInv, FilesInv, FileSound, Db
  <2> QED BY <1>2, <2>1
<1>8. \A q \in Process \ {p} : writer # q /\ writer' # q BY <1>1, NoneAssumption
<1> QED BY <1>2, <1>3, <1>4, <1>5, <1>6, <1>7, <1>8, StepOf DEF Store

LEMMA CurrentIsSound ==
    ASSUME LibraryInv
    PROVE  /\ Sound(current.rows) /\ current.rows \in Tables /\ Linked(current.rows)
           /\ \A p \in Process : Ready(p) => Seen(p) = current
BY DEF LibraryInv, FilesInv, FileSound, Sound, Linked, Working, Ready, Seen

LEMMA InsertAssetInv ==
    ASSUME NEW p \in Process, LibraryInv, NEW a \in Asset, InsertAsset(p, a)
    PROVE  LibraryInv' /\ current'.rows.searches = current.rows.searches
<1>1. Sound([current.rows EXCEPT !.assets = @ \cup {a}])
  BY CurrentIsSound, InsertIsSound
<1>2. LibraryInv' /\ current'.rows = [current.rows EXCEPT !.assets = @ \cup {a}]
  BY <1>1, Storing DEF InsertAsset
<1> QED BY <1>2, CurrentIsSound DEF Tables

LEMMA SaveSearchInv ==
    ASSUME NEW p \in Process, LibraryInv, NEW n \in Name, NEW q \in Search,
           SaveSearch(p, n, q)
    PROVE  /\ LibraryInv'
           /\ current'.rows.searches = Upserted(current.rows.searches, n, q)
<1> DEFINE new == Upserted(current.rows.searches, n, q)
<1>1. /\ new \subseteq [id : Nat \ {0}, name : Name, search : Search]
      /\ Unique(new) /\ Bounded(new)
  BY CurrentIsSound, UpsertedSearches
<1>2. Sound([current.rows EXCEPT !.searches = new])
  <2> HIDE DEF new
  <2> QED BY <1>1, CurrentIsSound, NewSearchesAreSound
<1>3. LibraryInv' /\ current'.rows = [current.rows EXCEPT !.searches = new]
  BY <1>2, Storing DEF SaveSearch
<1> HIDE DEF new
<1>4. current'.rows.searches = new BY <1>3, CurrentIsSound DEF Tables
<1> QED BY <1>3, <1>4 DEF new

LEMMA RemoveSavedSearchInv ==
    ASSUME NEW p \in Process, LibraryInv, NEW id, RemoveSavedSearch(p, id)
    PROVE  LibraryInv' /\ current'.rows.searches \subseteq current.rows.searches
<1> DEFINE new == {r \in current.rows.searches : r.id # id}
<1>1. /\ new \subseteq [id : Nat \ {0}, name : Name, search : Search]
      /\ Unique(new) /\ Bounded(new) /\ new \subseteq current.rows.searches
  BY CurrentIsSound DEF Linked, Tables, Unique, Bounded
<1>2. Store(p, [current.rows EXCEPT !.searches = new]) BY DEF RemoveSavedSearch
<1> HIDE DEF new
<1>3. Sound([current.rows EXCEPT !.searches = new])
  BY <1>1, CurrentIsSound, NewSearchesAreSound
<1>4. LibraryInv' /\ current'.rows = [current.rows EXCEPT !.searches = new]
  BY <1>2, <1>3, Storing
<1>5. current'.rows.searches = new BY <1>4, CurrentIsSound DEF Tables
<1> QED BY <1>1, <1>4, <1>5

-----------------------------------------------------------------------------
(* replace_tags.                                                           *)

LEMMA ListOfTags ==
    ASSUME NEW s \in Seq(Name)
    PROVE  /\ s = <<>> => FoldedList(s) = {}
           /\ s # <<>> => /\ Head(s) \in Name /\ Tail(s) \in Seq(Name)
                          /\ FoldedList(s) = {Folded[Head(s)]} \cup FoldedList(Tail(s))
<1>1. s = <<>> => Range(s) = {} BY DEF Range
<1>2. ASSUME s # <<>>
      PROVE  /\ Head(s) \in Name /\ Tail(s) \in Seq(Name)
             /\ Range(s) = {Head(s)} \cup Range(Tail(s))
  <2>1. /\ Head(s) \in Name /\ Tail(s) \in Seq(Name) /\ Head(s) = s[1]
        /\ Len(Tail(s)) = Len(s) - 1
        /\ \A i \in 1..Len(Tail(s)) : Tail(s)[i] = s[i + 1]
    BY <1>2, HeadTailProperties
  <2>2. DOMAIN s = 1..Len(s) /\ DOMAIN Tail(s) = 1..(Len(s) - 1) /\ Len(s) \in Nat \ {0}
    BY <1>2, <2>1, LenProperties, EmptySeq
  <2>3. \A i \in 2..Len(s) : i - 1 \in 1..(Len(s) - 1) /\ Tail(s)[i - 1] = s[i]
    BY <2>1, <2>2
  <2>4. \A i \in 1..Len(s) : i = 1 \/ i \in 2..Len(s) BY <2>2
  <2>5. \A i \in 1..(Len(s) - 1) : i + 1 \in 1..Len(s) BY <2>2
  <2>6. 1 \in 1..Len(s) BY <2>2
  <2>7. Range(s) \subseteq {Head(s)} \cup Range(Tail(s))
    <3>1. ASSUME NEW i \in 1..Len(s) PROVE s[i] \in {Head(s)} \cup Range(Tail(s))
      BY <2>1, <2>2, <2>3, <2>4 DEF Range
    <3> QED BY <2>2, <3>1 DEF Range
  <2>8. {Head(s)} \cup Range(Tail(s)) \subseteq Range(s)
    BY <2>1, <2>2, <2>5, <2>6 DEF Range
  <2> QED BY <2>1, <2>7, <2>8
<1> QED BY <1>1, <1>2 DEF FoldedList

LEMMA BeginReplaceTagsInv ==
    ASSUME NEW p \in Process, LibraryInv, NEW a \in Asset, NEW tags \in TagList,
           BeginReplaceTags(p, a, tags)
    PROVE  LibraryInv' /\ current' = current
<1> DEFINE db == [current EXCEPT !.rows = Unlinked(@, a)]
           c  == [asset |-> a, tags |-> tags, left |-> tags]
<1>1. BeginWith(p, db) BY DEF BeginReplaceTags
<1>2. /\ conn' = [conn EXCEPT ![p].pc = "tagging"] /\ conn'[p].pc = "tagging"
      /\ conn'[p].version = conn[p].version
      /\ \A q \in Process \ {p} : conn'[q] = conn[q]
  BY DEF BeginReplaceTags, GoTo, LibraryInv, CallsInv
<1>3. c \in [asset : Asset, tags : TagList, left : Seq(Name)] BY CallsAssumption
<1>4. call'[p] = c /\ \A q \in Process \ {p} : call'[q] = call[q]
  BY DEF BeginReplaceTags, LibraryInv, CallsInv
<1>5. CallsInv' BY <1>2, <1>3 DEF BeginReplaceTags, LibraryInv, CallsInv
<1>6. /\ current.version = CurrentSchemaVersion /\ a \in current.rows.assets
      /\ current \in Db /\ current.objects = ObjectsOf(CurrentSchemaVersion)
  BY CurrentIsSound
     DEF BeginReplaceTags, Ready, LibraryInv, Working, FilesInv, FileSound
<1>7. Linked(Unlinked(current.rows, a)) BY CurrentIsSound, UnlinkedRows
<1>8. db \in Db /\ db.rows = Unlinked(current.rows, a)
      /\ db.version = CurrentSchemaVersion /\ db.objects = ObjectsOf(CurrentSchemaVersion)
  BY <1>6, <1>7 DEF Db, Linked
<1>9. /\ Unlinked(current.rows, a).searches = current.rows.searches
      /\ Unlinked(current.rows, a).words = current.rows.words
      /\ Unlinked(current.rows, a).assets = current.rows.assets
  BY CurrentIsSound DEF Unlinked, Tables
<1>10. Retagged(Unlinked(current.rows, a), current.rows, c)
  BY <1>3, <1>6, <1>7, <1>9, CurrentIsSound, UnlinkedRows DEF Retagged, Sound, FindsTagged
<1> HIDE DEF db, c
<1>11. /\ FilesInv' /\ current' = current /\ current.version <= current'.version
       /\ writer' = p /\ draft' = db
       /\ \A q \in Process \ {p} : writer # q /\ writer' # q
  BY <1>1, Beginning
<1>12. Tagging(p)' BY <1>4, <1>8, <1>10, <1>11 DEF Tagging
<1>13. edits' < MaxEdits BY DEF BeginReplaceTags
<1>14. Working(p)' BY <1>2, <1>6, <1>11, <1>12, <1>13 DEF Working
<1> QED BY <1>2, <1>4, <1>5, <1>11, <1>14, StepOf

LEMMA LinkTagInv ==
    ASSUME NEW p \in Process, LibraryInv, LinkTag(p)
    PROVE  LibraryInv' /\ current' = current
<1> DEFINE c   == call[p]
           n   == Head(c.left)
           new == Tagged(draft.rows, c.asset, n)
           d   == [c EXCEPT !.left = Tail(@)]
<1>1. /\ writer = p /\ writer' = p /\ current' = current /\ durable' = durable
      /\ view' = view /\ behind' = behind
      /\ draft' = [draft EXCEPT !.rows = new]
  BY DEF LinkTag, Edit
<1>2. conn' = conn /\ edits' = edits /\ conn[p].pc = "tagging" /\ c.left # <<>>
  BY DEF LinkTag
<1>3. /\ draft \in Db /\ draft.version = CurrentSchemaVersion
      /\ draft.objects = ObjectsOf(CurrentSchemaVersion)
      /\ Retagged(draft.rows, current.rows, c)
      /\ current.version = CurrentSchemaVersion /\ edits < MaxEdits
  BY <1>2 DEF LibraryInv, Working, Tagging
<1>4. /\ call'[p] = d /\ \A q \in Process \ {p} : call'[q] = call[q]
      /\ call' = [call EXCEPT ![p] = d]
  BY DEF LinkTag, LibraryInv, CallsInv
<1>5. /\ c \in [asset : Asset, tags : TagList, left : Seq(Name)]
      /\ n \in Name /\ Tail(c.left) \in Seq(Name)
      /\ FoldedList(c.left) = {Folded[n]} \cup FoldedList(Tail(c.left))
  BY <1>2, <1>3, ListOfTags DEF Retagged
<1>6. /\ d \in [asset : Asset, tags : TagList, left : Seq(Name)]
      /\ d.asset = c.asset /\ d.tags = c.tags /\ d.left = Tail(c.left)
  BY <1>5
<1>7. /\ Linked(new) /\ new.assets = draft.rows.assets
      /\ new.searches = draft.rows.searches /\ new.words = draft.rows.words
      /\ FoldedTags(new, c.asset) = FoldedTags(draft.rows, c.asset) \cup {Folded[n]}
      /\ \A b \in Asset : b # c.asset => FoldedTags(new, b) = FoldedTags(draft.rows, b)
  BY <1>3, <1>5, TaggedRows DEF Retagged
<1> HIDE DEF new, d, c, n
<1>8. Retagged(new, current.rows, d)
  BY <1>3, <1>5, <1>6, <1>7 DEF Retagged
<1>9. draft' \in Db /\ draft'.rows = new /\ draft'.version = CurrentSchemaVersion
      /\ draft'.objects = ObjectsOf(CurrentSchemaVersion)
  BY <1>1, <1>3, <1>7 DEF Db, Linked
<1>10. Tagging(p)' BY <1>1, <1>4, <1>8, <1>9 DEF Tagging
<1>11. FilesInv' BY <1>1, NoneAssumption DEF LibraryInv, FilesInv, FileSound
<1>12. CallsInv' BY <1>2, <1>4, <1>6 DEF LibraryInv, CallsInv
<1>13. Working(p)' BY <1>1, <1>2, <1>3, <1>10 DEF Working
<1>14. current.version <= current'.version BY <1>1, <1>3 DEF CurrentSchemaVersion
<1>15. \A q \in Process \ {p} : writer # q /\ writer' # q BY <1>1
<1> QED BY <1>1, <1>2, <1>4, <1>11, <1>12, <1>13, <1>14, <1>15, StepOf

LEMMA CommitTagsInv ==
    ASSUME NEW p \in Process, LibraryInv, CommitTags(p)
    PROVE  /\ LibraryInv'
           /\ current'.rows.searches = current.rows.searches
           /\ \A b \in Asset :
                 FoldedTags(current'.rows, b) = IF b = call[p].asset THEN FoldedList(call[p].tags)
                                                ELSE FoldedTags(current.rows, b)
<1> DEFINE a   == call[p].asset
           new == WithoutOrphans(Indexed(WithText(draft.rows, a), a))
           db  == [draft EXCEPT !.rows = new]
<1>1. conn[p].pc = "tagging" /\ call[p].left = <<>> /\ CommitAs(p, db)
      /\ conn' = [conn EXCEPT ![p].pc = "done"] /\ call' = [call EXCEPT ![p] = None]
  BY DEF CommitTags, GoTo
<1>2. /\ draft \in Db /\ draft.version = CurrentSchemaVersion
      /\ draft.objects = ObjectsOf(CurrentSchemaVersion)
      /\ Retagged(draft.rows, current.rows, call[p])
      /\ current.version = CurrentSchemaVersion /\ edits < MaxEdits
  BY <1>1 DEF LibraryInv, Working, Tagging
<1>3. /\ Linked(draft.rows) /\ a \in Asset
      /\ \A b \in Asset : b # a => /\ draft.rows.words[b] = FoldedTags(draft.rows, b)
                                   /\ FoldedTags(draft.rows, b) = FoldedTags(current.rows, b)
      /\ FoldedTags(draft.rows, a) = FoldedList(call[p].tags)
      /\ draft.rows.searches = current.rows.searches
  BY <1>1, <1>2, ListOfTags DEF Retagged
<1>4. /\ Sound(new) /\ new.searches = current.rows.searches
      /\ \A b \in Asset : FoldedTags(new, b) = FoldedTags(draft.rows, b)
  BY <1>3, FinishedRows
<1> HIDE DEF new
<1>5. /\ FileSound(db) /\ db.rows = new /\ db.version = CurrentSchemaVersion
  BY <1>2, <1>4 DEF FileSound, Db, Sound, Linked
<1> HIDE DEF db
<1>6. current.version <= db.version BY <1>2, <1>5 DEF CurrentSchemaVersion
<1>7. /\ FilesInv' /\ current' = db /\ writer' = None
      /\ \A q \in Process \ {p} : writer # q /\ writer' # q
  BY <1>1, <1>5, <1>6, Committing
<1>8. /\ conn'[p].pc = "done"
      /\ \A q \in Process \ {p} : conn'[q] = conn[q] /\ call'[q] = call[q]
  BY <1>1 DEF LibraryInv, CallsInv
<1>9. CallsInv'
  <2>1. edits' \in 0..MaxEdits BY <1>2, CallsAssumption DEF CommitTags, LibraryInv, CallsInv
  <2> QED BY <1>1, <2>1 DEF LibraryInv, CallsInv
<1>10. Working(p)' BY <1>7, <1>8, NoneAssumption DEF Working
<1>11. LibraryInv'
  BY <1>2, <1>5, <1>6, <1>7, <1>8, <1>9, <1>10, StepOf
<1> QED BY <1>3, <1>4, <1>5, <1>7, <1>11

-----------------------------------------------------------------------------
(* The file's own steps.                                                   *)

LEMMA CheckpointInv == ASSUME LibraryInv, Checkpoint PROVE LibraryInv'
<1>1. /\ current' = current /\ durable' = current /\ writer' = writer /\ draft' = draft
      /\ view' = view /\ behind' = behind /\ conn' = conn /\ call' = call /\ edits' = edits
  BY DEF Checkpoint, Sync
<1>2. FilesInv' BY <1>1 DEF LibraryInv, FilesInv, FileSound
<1>3. CallsInv' BY <1>1 DEF LibraryInv, CallsInv
<1>4. \A p \in Process : Working(p)'
  BY <1>1 DEF LibraryInv, Working, Migrated, Tagging
<1> QED BY <1>2, <1>3, <1>4 DEF LibraryInv

LEMMA PowerFailsInv == ASSUME LibraryInv, PowerFails PROVE LibraryInv'
<1>1. /\ current' = durable /\ durable' = durable /\ writer' = None /\ draft' = None
      /\ view' = [p \in Process |-> None] /\ behind' = {}
      /\ conn' = [p \in Process |-> [conn[p] EXCEPT !.pc = "closed"]]
      /\ call' = [p \in Process |-> None] /\ edits' = edits
  BY DEF PowerFails, SchemaPowerLoss, PowerLoss
<1>2. FilesInv' BY <1>1 DEF LibraryInv, FilesInv, FileSound
<1>3. \A p \in Process : conn'[p].pc = "closed" /\ conn'[p].version = conn[p].version
  BY <1>1 DEF LibraryInv, CallsInv
<1>4. CallsInv' BY <1>1 DEF LibraryInv, CallsInv
<1>5. \A p \in Process : Working(p)' BY <1>1, <1>3, NoneAssumption DEF Working
<1> QED BY <1>2, <1>4, <1>5 DEF LibraryInv

LEMMA LibraryInvNext == LibraryInv /\ [Next]_vars => LibraryInv'
<1> SUFFICES ASSUME LibraryInv, [Next]_vars PROVE LibraryInv' OBVIOUS
<1>1. ASSUME NEW p \in Process, (Open(p) \/ OpenFails(p)) /\ UNCHANGED <<call, edits>>
      PROVE  LibraryInv'
  <2>1. UNCHANGED fileVars BY <1>1 DEF Open, OpenFails
  <2> QED BY <1>1, <2>1, QuietStep
<1>2. ASSUME NEW p \in Process, Call(p) PROVE LibraryInv'
  BY <1>2, InsertAssetInv, SaveSearchInv, RemoveSavedSearchInv, BeginReplaceTagsInv
     DEF Call
<1>3. ASSUME NEW p \in Process, Progress(p) PROVE LibraryInv'
  <2>1. CASE OpenStep(p) /\ UNCHANGED <<call, edits>>
    <3>1. CASE OpenCurrent(p) \/ RefuseNewer(p) \/ MigrationTimeout(p)
      <4>1. UNCHANGED fileVars BY <3>1 DEF OpenCurrent, RefuseNewer, MigrationTimeout
      <4> QED BY <2>1, <3>1, <4>1, QuietStep
    <3> QED BY <2>1, <3>1, BeginMigrationInv, MigrateInv, EndingStep, CommitMigrationInv
            DEF OpenStep
  <2>2. CASE CallTimeout(p)
    BY <2>2, QuietStep DEF CallTimeout
  <2> QED BY <1>3, <2>1, <2>2, LinkTagInv, CommitTagsInv, EndingStep DEF Progress
<1>4. ASSUME NEW p \in Process, KillCommand(p) PROVE LibraryInv'
  BY <1>4, EndingStep
<1>5. CASE UNCHANGED vars
  BY <1>5 DEF vars, schemaVars, fileVars, LibraryInv, FilesInv, FileSound, CallsInv, Working,
              Migrated, Tagging
<1> QED BY <1>1, <1>2, <1>3, <1>4, <1>5, CheckpointInv, PowerFailsInv DEF Next

LEMMA LibraryInvariant == Spec => []LibraryInv
BY LibraryInvInit, LibraryInvNext, PTL DEF Spec

-----------------------------------------------------------------------------
(* What follows.                                                           *)

LEMMA InvSchemaSound == LibraryInv => SchemaSound
<1> SUFFICES ASSUME LibraryInv PROVE SchemaSound OBVIOUS
<1>1. SchemaMatches BY DEF LibraryInv, FilesInv, FileSound, SchemaMatches, Committed
<1>2. ReadyIsCurrent BY DEF LibraryInv, Working, ReadyIsCurrent
<1>3. LockIsInUse
  BY NoneAssumption DEF LibraryInv, FilesInv, Working, LockIsInUse, Migrating
<1>4. \A db \in Committed : db.rows \in Tables
  BY DEF LibraryInv, FilesInv, FileSound, Db, Committed
<1>5. writer # None => draft.rows \in Tables
  <2> SUFFICES ASSUME writer # None PROVE draft.rows \in Tables OBVIOUS
  <2>1. writer \in Process /\ Working(writer) BY DEF LibraryInv, FilesInv
  <2>2. current \in Db BY DEF LibraryInv, FilesInv, FileSound
  <2> QED BY <2>1, <2>2 DEF Working, Migrated, Tagging, Db
<1>6. TypeOK
  BY <1>4, <1>5 DEF LibraryInv, FilesInv, CallsInv, TypeOK, Versions
<1> QED BY <1>1, <1>2, <1>3, <1>6 DEF SchemaSound

LEMMA InvTagsAgree == LibraryInv => TagsAgree
BY DEF LibraryInv, FilesInv, FileSound, Sound, TagsAgree, CatalogConsistent,
       SearchFindsTagged, CommittedRows, Committed

(* However many processes open, migrate and edit one library file, and       *)
(* wherever they are killed or the power fails, the file's version tells what *)
(* objects it has, a constructor that returns has found the newest version,  *)
(* and the write lock belongs to a process that will give it back.           *)
THEOREM SchemaIsSound == Spec => []SchemaSound
BY LibraryInvariant, InvSchemaSound, PTL

(* After every commit the tags, their links, the text of each asset and the  *)
(* full-text index say the same, for any names and any way of folding case,  *)
(* and whatever tags an existing file came with.                             *)
THEOREM TagsAlwaysAgree == Spec => []TagsAgree
BY LibraryInvariant, InvTagsAgree, PTL

\* A constructor that fails has found a newer file, the lock taken, or a file
\* that was migrated since.
FailureStep == \A p \in Process :
    conn[p].pc \in {"checked", "migrating"} /\ conn'[p].pc = "failed" =>
        \/ current.version > CurrentSchemaVersion
        \/ writer \notin {p, None}
        \/ current.version > conn[p].version

LEMMA StepFailsForAReason ==
    ASSUME LibraryInv, [Next]_vars PROVE [FailureStep]_schemaVars
<1> SUFFICES ASSUME NEW p \in Process, conn[p].pc \in {"checked", "migrating"},
                    conn'[p].pc = "failed"
             PROVE  \/ current.version > CurrentSchemaVersion
                    \/ writer \notin {p, None}
                    \/ current.version > conn[p].version
  BY DEF FailureStep
<1>1. /\ conn[p].version \in Nat /\ current.version \in Nat /\ CurrentSchemaVersion \in Nat
      /\ Working(p) /\ conn[p].version <= current.version
      /\ current \in Db /\ current.objects = ObjectsOf(current.version)
      /\ behind = {} /\ (conn[p].pc = "checked" => writer # p)
  BY VersionsAreNat
     DEF LibraryInv, FilesInv, CallsInv, FileSound, Db, Working, CurrentSchemaVersion
\* Only a step of p itself leads there.
<1>2. RefuseNewer(p) \/ MigrationTimeout(p) \/ MigrateFails(p)
  <2>1. conn[p].pc # "failed" /\ conn' # conn OBVIOUS
  <2>2. ASSUME NEW q \in Process, (Open(q) \/ OpenFails(q)) PROVE FALSE
    <3>1. conn' = [conn EXCEPT ![q] = conn'[q]] /\ conn[q].pc = "closed"
      BY <2>2 DEF Open, OpenFails, GoTo, LibraryInv, CallsInv
    <3> QED BY <3>1 DEF LibraryInv, CallsInv
  <2>3. ASSUME NEW q \in Process, Call(q) PROVE FALSE
    <3>1. conn[q].pc = "ready" /\ \E pc \in {"done", "tagging"} : GoTo(q, pc)
      BY <2>3 DEF Call, InsertAsset, SaveSearch, RemoveSavedSearch, Store, BeginReplaceTags,
                  Ready
    <3> QED BY <3>1 DEF GoTo, LibraryInv, CallsInv
  <2>4. ASSUME NEW q \in Process, End(q) \/ KillCommand(q) PROVE FALSE
    <3>1. GoTo(q, "closed")
      BY <2>4 DEF End, Close, KillCommand, Kill
    <3> QED BY <3>1 DEF GoTo, LibraryInv, CallsInv
  <2>5. ASSUME NEW q \in Process, LinkTag(q) \/ CommitTags(q) \/ CallTimeout(q) PROVE FALSE
    <3>1. conn[q].pc \in {"ready", "tagging"}
          /\ (conn' = conn \/ \E pc \in {"done", "failed"} : GoTo(q, pc))
      BY <2>5 DEF LinkTag, CommitTags, CallTimeout, Ready
    <3> QED BY <2>1, <3>1 DEF GoTo, LibraryInv, CallsInv
  <2>6. ASSUME NEW q \in Process,
               OpenCurrent(q) \/ BeginMigration(q) \/ Migrate(q) \/ CommitMigration(q)
        PROVE  FALSE
    <3>1. CASE CommitMigration(q)
      <4>1. conn' = [conn EXCEPT ![q] = conn'[q]] /\ conn'[q].pc \in {"checked", "ready"}
        BY <3>1 DEF CommitMigration, LibraryInv, CallsInv
      <4> QED BY <4>1 DEF LibraryInv, CallsInv
    <3>2. CASE OpenCurrent(q) \/ BeginMigration(q) \/ Migrate(q)
      <4>1. \E pc \in {"ready", "migrating", "migrated"} : GoTo(q, pc)
        BY <3>2 DEF OpenCurrent, BeginMigration, Migrate
      <4> QED BY <4>1 DEF GoTo, LibraryInv, CallsInv
    <3> QED BY <2>6, <3>1, <3>2
  <2>7. ASSUME NEW q \in Process, RefuseNewer(q) \/ MigrationTimeout(q) \/ MigrateFails(q)
        PROVE  q = p
    <3>1. GoTo(q, "failed") BY <2>7 DEF RefuseNewer, MigrationTimeout, MigrateFails
    <3> QED BY <3>1 DEF GoTo, LibraryInv, CallsInv
  <2>8. ~Checkpoint /\ ~PowerFails /\ ~UNCHANGED vars
    BY <2>1 DEF Checkpoint, PowerFails, SchemaPowerLoss, vars, schemaVars, LibraryInv, CallsInv
  <2> QED
    BY <2>2, <2>3, <2>4, <2>5, <2>6, <2>7, <2>8 DEF Next, Progress, OpenStep
<1>3. CASE RefuseNewer(p)
  BY <1>1, <1>3 DEF RefuseNewer
<1>4. CASE MigrationTimeout(p)
  BY <1>1, <1>4 DEF MigrationTimeout, CanWrite, LibraryInv, FilesInv, Working
<1>5. CASE MigrateFails(p)
  <2>1. conn[p].version < CurrentSchemaVersion /\ draft = current
    BY <1>1, <1>5 DEF MigrateFails, Working
  <2>2. Created(conn[p].version) \cap ObjectsOf(current.version) # {}
    BY <1>1, <1>5, <2>1 DEF MigrateFails, Applies
  <2>3. conn[p].version # current.version BY <1>1, <2>1, <2>2, CreatedOnce
  <2> QED BY <1>1, <2>3
<1> QED BY <1>2, <1>3, <1>4, <1>5

\* Replacing the tags of one asset is what ends a call of replace_tags.
ReplaceStep == \A p \in Process :
    conn[p].pc = "tagging" /\ conn'[p].pc = "done" =>
        \A a \in Asset :
            FoldedTags(current'.rows, a) =
                IF a = call[p].asset THEN {Folded[n] : n \in Range(call[p].tags)}
                ELSE FoldedTags(current.rows, a)

LEMMA ReplaceIsExact ==
    ASSUME LibraryInv, [Next]_vars PROVE [ReplaceStep]_vars
<1> SUFFICES ASSUME NEW p \in Process, conn[p].pc = "tagging", conn'[p].pc = "done"
             PROVE  CommitTags(p)
  BY CommitTagsInv DEF ReplaceStep, FoldedList
<1>1. conn' # conn OBVIOUS
<1>2. ASSUME NEW q \in Process, Progress(q), ~CommitTags(q) PROVE FALSE
  <2>1. CASE OpenStep(q)
    <3>1. CASE CommitMigration(q)
      <4>1. conn' = [conn EXCEPT ![q] = conn'[q]] /\ conn'[q].pc \in {"checked", "ready"}
        BY <3>1 DEF CommitMigration, LibraryInv, CallsInv
      <4> QED BY <4>1 DEF LibraryInv, CallsInv
    <3>2. CASE ~CommitMigration(q)
      <4>1. \E pc \in {"ready", "failed", "migrating", "migrated"} : GoTo(q, pc)
        BY <2>1, <3>2 DEF OpenStep, OpenCurrent, RefuseNewer, BeginMigration,
           MigrationTimeout, Migrate, MigrateFails
      <4> QED BY <4>1 DEF GoTo, LibraryInv, CallsInv
    <3> QED BY <3>1, <3>2
  <2>2. CASE LinkTag(q) \/ CallTimeout(q) \/ End(q)
    <3>1. conn' = conn \/ \E pc \in {"failed", "closed"} : GoTo(q, pc)
      BY <2>2 DEF LinkTag, CallTimeout, End, Close
    <3> QED BY <1>1, <3>1 DEF GoTo, LibraryInv, CallsInv
  <2> QED BY <1>2, <2>1, <2>2 DEF Progress
<1>3. ASSUME NEW q \in Process, CommitTags(q) PROVE q = p
  BY <1>3 DEF CommitTags, GoTo, LibraryInv, CallsInv
<1>4. ASSUME NEW q \in Process, Call(q) PROVE FALSE
  <2>1. conn[q].pc = "ready" /\ \E pc \in {"done", "tagging"} : GoTo(q, pc)
    BY <1>4 DEF Call, InsertAsset, SaveSearch, RemoveSavedSearch, Store, BeginReplaceTags,
                Ready
  <2> QED BY <2>1 DEF GoTo, LibraryInv, CallsInv
<1>5. ASSUME NEW q \in Process, Open(q) \/ OpenFails(q) \/ KillCommand(q) PROVE FALSE
  <2>1. /\ conn' = [conn EXCEPT ![q] = conn'[q]]
        /\ conn'[q].pc \in {"checked", "failed", "closed"}
    BY <1>5 DEF Open, OpenFails, KillCommand, Kill, GoTo, LibraryInv, CallsInv
  <2> QED BY <2>1 DEF LibraryInv, CallsInv
<1>6. ~Checkpoint /\ ~PowerFails /\ ~UNCHANGED vars
  BY <1>1 DEF Checkpoint, PowerFails, SchemaPowerLoss, vars, schemaVars, LibraryInv, CallsInv
<1> QED BY <1>2, <1>3, <1>4, <1>5, <1>6 DEF Next

\* An edit gives no search that stays another id or name.
SaveStep ==
    edits' > edits =>
        \A r \in current.rows.searches, s \in current'.rows.searches :
            SameName(r.name, s.name) => r.id = s.id /\ r.name = s.name

LEMMA SaveIsExact ==
    ASSUME LibraryInv, [Next]_vars PROVE [SaveStep]_vars
<1> SUFFICES ASSUME edits' > edits
             PROVE  \A r \in current.rows.searches, s \in current'.rows.searches :
                       SameName(r.name, s.name) => r.id = s.id /\ r.name = s.name
  BY DEF SaveStep
<1> DEFINE Kept == \A r \in current.rows.searches, s \in current'.rows.searches :
                      SameName(r.name, s.name) => r.id = s.id /\ r.name = s.name
<1>1. edits' # edits BY DEF LibraryInv, CallsInv
<1>2. current'.rows.searches \subseteq current.rows.searches => Kept
  BY CurrentIsSound DEF Linked, Unique
<1>3. ASSUME NEW p \in Process, Call(p) PROVE Kept
  <2>1. ASSUME NEW n \in Name, NEW q \in Search, SaveSearch(p, n, q) PROVE Kept
    BY <2>1, SaveSearchInv, UpsertedSearches, CurrentIsSound
  <2>2. ASSUME NEW a \in Asset, InsertAsset(p, a) PROVE Kept
    BY <1>2, <2>2, InsertAssetInv
  <2>3. ASSUME NEW id \in 1..MaxEdits, RemoveSavedSearch(p, id) PROVE Kept
    BY <1>2, <2>3, RemoveSavedSearchInv
  <2>4. ASSUME NEW a \in Asset, NEW tags \in TagList, BeginReplaceTags(p, a, tags)
        PROVE  Kept
    BY <1>2, <2>4, BeginReplaceTagsInv
  <2> HIDE DEF Kept
  <2> QED BY <1>3, <2>1, <2>2, <2>3, <2>4 DEF Call
<1>4. ASSUME NEW p \in Process, CommitTags(p) PROVE Kept
  BY <1>2, <1>4, CommitTagsInv
<1>5. ASSUME NEW p \in Process, Progress(p), ~CommitTags(p) PROVE FALSE
  BY <1>1, <1>5 DEF Progress, LinkTag, CallTimeout, End
<1>6. /\ ~Checkpoint /\ ~PowerFails /\ ~UNCHANGED vars
      /\ \A p \in Process : ~KillCommand(p)
  BY <1>1 DEF Checkpoint, PowerFails, KillCommand, vars
<1> HIDE DEF Kept
<1>7. Kept BY <1>1, <1>3, <1>4, <1>5, <1>6 DEF Next
<1> QED BY <1>7 DEF Kept

(* A process that cannot open the library has one of three reasons: the file *)
(* is newer than the program, another process writes to it, or another       *)
(* process has migrated it since this one read its version.                  *)
THEOREM OpeningFailsForAReason == Spec => FailsForAReason
<1>1. LibraryInv /\ [Next]_vars => [FailureStep]_schemaVars BY StepFailsForAReason
<1> QED BY <1>1, LibraryInvariant, PTL DEF Spec, FailsForAReason, FailureStep

(* replace_tags gives its asset the tags passed and no other asset a change, *)
(* and saving a search keeps id and name of the one it replaces, whatever    *)
(* names differ only in case, and whichever tags assets share.               *)
THEOREM CallsAreExact == Spec => EditsAreExact
<1>1. LibraryInv /\ [Next]_vars => [ReplaceStep]_vars BY ReplaceIsExact
<1>2. LibraryInv /\ [Next]_vars => [SaveStep]_vars BY SaveIsExact
<1>3. Spec => ReplaceTouchesOne
  BY <1>1, LibraryInvariant, PTL DEF Spec, ReplaceTouchesOne, ReplaceStep
<1>4. Spec => SaveKeepsIdentity
  BY <1>2, LibraryInvariant, PTL DEF Spec, SaveKeepsIdentity, SaveStep
<1> QED BY <1>3, <1>4 DEF EditsAreExact

=============================================================================
