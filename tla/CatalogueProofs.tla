-------------------------- MODULE CatalogueProofs --------------------------
(***************************************************************************)
(* IInv of Catalogue is inductive.  A step changes one run: it decides     *)
(* something (DecisionKeeps), flushes one row under its lock (ApplyKeeps), *)
(* or ends with or without a commit (EndKeeps).  The argument about rows   *)
(* is in FlushedIsSound: what a run merges into can only have grown since  *)
(* it looked, and if it has a version more, the new one is taken.          *)
(***************************************************************************)
EXTENDS Catalogue, Sequences, FiniteSetTheorems, TLAPS

(***************************************************************************)
(* Rows.                                                                   *)
(***************************************************************************)
\* A version keeps what its record says, the reference in its comparison form.
LEMMA SnapshotFields ==
  ASSUME NEW rec \in Records
  PROVE  /\ Snapshot(rec) \in Snapshots /\ Snapshot(rec).docs = rec.docs
         /\ \A f \in Recorded : Snapshot(rec)[f] = Value(rec, f)
  BY DEF Snapshots, Snapshot, Recorded, Value

\* The comparison form of a reference is missing only with the reference itself.
LEMMA KeyOfReference ==
  ASSUME NEW ref
  PROVE  RefKey(ref) = None <=> ref = None
  BY DEF RefKey, Norm

LEMMA RowFields ==
  ASSUME NEW row \in Row
  PROVE  /\ row.version \in 0..MaxVersion /\ row.version \in Nat
         /\ row.versions \in SUBSET ((1..MaxVersion) \X Snapshots)
  BY BoundsAssumption DEF Row

\* An absent tender is a sound row that does not exist.
LEMMA AbsentIsSound == Absent \in Row /\ Sound(Absent) /\ ~Exists(Absent)
<1>1. Absent \in Row
  BY BoundsAssumption DEF Absent, Row
<1>2. 1..0 = {}
  OBVIOUS
<1>3. \A f \in Recorded : Value(Absent, f) = None
  BY DEF Recorded, Value, Absent, RefKey, Norm
<1> QED
  BY <1>1, <1>2, <1>3, FS_EmptySet DEF Absent, Sound, Numbered, ToldBy, Exists

\* What persist_tender creates is sound: it holds its first version.
LEMMA CreatedIsSound ==
  ASSUME NEW s \in Sources, NEW rec \in Records
  PROVE  /\ Created(s, rec) \in Row /\ Sound(Created(s, rec)) /\ Exists(Created(s, rec))
         /\ Created(s, rec).source = s
<1> DEFINE new == Created(s, rec)
<1>1. rec.ref \in References \cup {None} /\ rec.title \in Titles
  BY DEF References, Titles
<1>2. /\ Norm(rec.ref) \in {Norm(n) : n \in References} \cup {None}
      /\ Fingerprint(rec) \in Fingerprints /\ Hash(rec) \in Hashes
  BY <1>1 DEF Norm, Fingerprints, Hashes
<1>3. /\ rec.ext \in {x.ext : x \in Records} /\ rec.closing \in {x.closing : x \in Records}
      /\ rec.text \in {x.text : x \in Records} /\ rec.docs \in SUBSET UNION {x.docs : x \in Records}
      /\ rec.address \in {x.address : x \in Records}
  OBVIOUS
<1>4. 1 \in 0..MaxVersion /\ {<<1, Snapshot(rec)>>} \in SUBSET ((1..MaxVersion) \X Snapshots)
  BY BoundsAssumption, SnapshotFields
<1>5. new \in Row
  BY <1>1, <1>2, <1>3, <1>4 DEF Created, Row
<1>6. /\ new.version = 1 /\ new.versions = {<<1, Snapshot(rec)>>} /\ new.norm = Norm(rec.ref)
      /\ new.ref = rec.ref /\ new.title = rec.title /\ new.closing = rec.closing
      /\ new.text = rec.text /\ new.docs = rec.docs /\ new.source = s
  BY DEF Created
<1>7. {v[1] : v \in new.versions} = 1..new.version
  BY <1>6
<1>8. IsFiniteSet(new.versions) /\ Cardinality(new.versions) = 1
  BY <1>6, FS_Singleton
<1>9. ASSUME NEW f \in Recorded
      PROVE  ToldBy(new, f)
  <2>1. Value(new, f) = Snapshot(rec)[f]
    BY <1>6, SnapshotFields DEF Recorded, Value
  <2>2. CASE Snapshot(rec)[f] = None
    BY <2>1, <2>2, <1>6 DEF ToldBy
  <2>3. CASE Snapshot(rec)[f] # None
    BY <2>1, <2>3, <1>6 DEF ToldBy, LastToKnow
  <2> QED
    BY <2>2, <2>3
<1>10. new.docs = UNION {v[2].docs : v \in new.versions}
  BY <1>6, SnapshotFields
<1> QED
  BY <1>5, <1>6, <1>7, <1>8, <1>9, <1>10 DEF Sound, Numbered, Exists

(***************************************************************************)
(* Updated and Flushed, column by column.                                  *)
(***************************************************************************)
LEMMA UpdatedByColumn ==
  ASSUME NEW row \in Row, NEW rec \in Records
  PROVE  LET new == Updated(row, rec) IN
         /\ new.source = row.source /\ new.norm = row.norm /\ new.ext = row.ext
         /\ new.hash = Hash(rec) /\ new.print \in {row.print, Fingerprint(rec)}
         /\ new.docs = row.docs \cup rec.docs
         /\ \A f \in Tracked : new[f] = IF f \in ChangedFields(row, rec) THEN rec[f] ELSE row[f]
         /\ new.version = IF Changed(row, rec) THEN row.version + 1 ELSE row.version
         /\ new.versions = IF Changed(row, rec) THEN row.versions \cup {<<row.version + 1, Snapshot(rec)>>}
                           ELSE row.versions
<1>1. CASE ~Changed(row, rec)
  <2>1. Updated(row, rec) = [row EXCEPT !.hash = Hash(rec)]
    BY <1>1 DEF Updated
  <2>2. ChangedFields(row, rec) = {} /\ row.docs = row.docs \cup rec.docs
    BY <1>1 DEF Changed
  <2> QED
    BY <1>1, <2>1, <2>2 DEF Row, Tracked
<1>2. CASE Changed(row, rec)
  <2> DEFINE value(f) == IF f \in ChangedFields(row, rec) THEN rec[f] ELSE row[f]
  <2>1. Updated(row, rec) =
           [row EXCEPT !.ref = value("ref"), !.title = value("title"),
                       !.closing = value("closing"), !.text = value("text"),
                       !.address = value("address"),
                       !.docs = @ \cup rec.docs, !.print = Fingerprint(rec),
                       !.hash = Hash(rec), !.version = @ + 1,
                       !.versions = @ \cup {<<row.version + 1, Snapshot(rec)>>}]
    BY <1>2 DEF Updated
  <2> HIDE DEF value
  <2>2. \A f \in Tracked : Updated(row, rec)[f] = value(f)
    BY <2>1 DEF Row, Tracked
  <2>3. /\ Updated(row, rec).source = row.source /\ Updated(row, rec).norm = row.norm
        /\ Updated(row, rec).ext = row.ext /\ Updated(row, rec).hash = Hash(rec)
        /\ Updated(row, rec).print = Fingerprint(rec)
        /\ Updated(row, rec).docs = row.docs \cup rec.docs
        /\ Updated(row, rec).version = row.version + 1
        /\ Updated(row, rec).versions = row.versions \cup {<<row.version + 1, Snapshot(rec)>>}
    BY <2>1 DEF Row
  <2> QED
    BY <1>2, <2>2, <2>3 DEF value
<1> QED
  BY <1>1, <1>2

\* A flush writes the columns its run changed over what others committed since.
LEMMA FlushedByColumn ==
  ASSUME NEW current \in Row, NEW seen \in Row, NEW rec \in Records, seen.version < MaxVersion
  PROVE  LET new == Flushed(current, seen, Updated(seen, rec)) IN
         /\ new \in Row
         /\ new.source = current.source /\ new.norm = current.norm
         /\ new.docs = current.docs \cup (rec.docs \ seen.docs)
         /\ \A f \in Tracked : new[f] = IF f \in ChangedFields(seen, rec) THEN rec[f] ELSE current[f]
         /\ new.version = IF Changed(seen, rec) THEN seen.version + 1 ELSE current.version
         /\ new.versions = current.versions \cup
               IF Changed(seen, rec) THEN {<<seen.version + 1, Snapshot(rec)>>} \ seen.versions ELSE {}
<1> DEFINE upd == Updated(seen, rec)
<1>1. /\ upd.source = seen.source /\ upd.norm = seen.norm /\ upd.ext = seen.ext
      /\ upd.hash = Hash(rec) /\ upd.print \in {seen.print, Fingerprint(rec)}
      /\ upd.docs = seen.docs \cup rec.docs
      /\ \A f \in Tracked : upd[f] = IF f \in ChangedFields(seen, rec) THEN rec[f] ELSE seen[f]
      /\ upd.version = IF Changed(seen, rec) THEN seen.version + 1 ELSE seen.version
      /\ upd.versions = IF Changed(seen, rec) THEN seen.versions \cup {<<seen.version + 1, Snapshot(rec)>>}
                        ELSE seen.versions
  BY UpdatedByColumn
<1>2. \A f \in Tracked : upd[f] = IF f \in ChangedFields(seen, rec) THEN rec[f] ELSE seen[f]
  BY <1>1
<1> HIDE DEF upd
<1> DEFINE value(c) == IF upd[c] = seen[c] THEN current[c] ELSE upd[c]
           added(c) == current[c] \cup (upd[c] \ seen[c])
           new == [source |-> value("source"), ref |-> value("ref"), norm |-> value("norm"),
                   ext |-> value("ext"), title |-> value("title"), closing |-> value("closing"),
                   text |-> value("text"), address |-> value("address"),
                   docs |-> added("docs"), print |-> value("print"),
                   hash |-> value("hash"), version |-> value("version"),
                   versions |-> added("versions")]
<1>3. Flushed(current, seen, upd) = new
  BY DEF Flushed
<1>4. \A f \in Tracked : value(f) = IF f \in ChangedFields(seen, rec) THEN rec[f] ELSE current[f]
  BY <1>2 DEF ChangedFields
<1>5. /\ value("source") = current.source /\ value("norm") = current.norm
      /\ value("ext") = current.ext
  BY <1>1
<1>6. value("version") = IF Changed(seen, rec) THEN seen.version + 1 ELSE current.version
  BY <1>1, RowFields
<1>7. added("versions") = current.versions \cup
         IF Changed(seen, rec) THEN {<<seen.version + 1, Snapshot(rec)>>} \ seen.versions ELSE {}
  BY <1>1
<1>8. /\ added("docs") = current.docs \cup (rec.docs \ seen.docs)
      /\ value("hash") \in Hashes \cup {None}
      /\ value("print") \in Fingerprints \cup {None}
      /\ added("docs") \in SUBSET UNION {x.docs : x \in Records}
  <2>1. Hash(rec) \in Hashes /\ Fingerprint(rec) \in Fingerprints
    BY DEF Hashes, Fingerprints
  <2>2. rec.docs \subseteq UNION {x.docs : x \in Records}
    OBVIOUS
  <2>3. /\ current.hash \in Hashes \cup {None} /\ current.print \in Fingerprints \cup {None}
        /\ current.docs \in SUBSET UNION {x.docs : x \in Records}
    BY DEF Row
  <2>4. added("docs") = current.docs \cup (rec.docs \ seen.docs)
    BY <1>1
  <2> QED
    BY <1>1, <2>1, <2>2, <2>3, <2>4
<1>9. /\ value("version") \in 0..MaxVersion
      /\ added("versions") \in SUBSET ((1..MaxVersion) \X Snapshots)
  <2>1. seen.version + 1 \in 1..MaxVersion
    BY RowFields, BoundsAssumption
  <2> QED
    BY <2>1, <1>6, <1>7, RowFields, SnapshotFields
<1>10. /\ value("ref") \in References \cup {None} /\ value("title") \in Titles \cup {None}
       /\ value("closing") \in {x.closing : x \in Records} \cup {None}
       /\ value("text") \in {x.text : x \in Records} \cup {None}
       /\ value("address") \in {x.address : x \in Records} \cup {None}
  <2>1. rec.ref \in References \cup {None} /\ rec.title \in Titles
    BY DEF References, Titles
  <2>2. {"ref", "title", "closing", "text", "address"} \subseteq Tracked
    BY DEF Tracked
  <2>3. /\ value("ref") \in {rec.ref, current.ref} /\ value("title") \in {rec.title, current.title}
        /\ value("closing") \in {rec.closing, current.closing}
        /\ value("text") \in {rec.text, current.text}
        /\ value("address") \in {rec.address, current.address}
    BY <1>4, <2>2
  <2>4. /\ current.ref \in References \cup {None} /\ current.title \in Titles \cup {None}
        /\ current.closing \in {x.closing : x \in Records} \cup {None}
        /\ current.text \in {x.text : x \in Records} \cup {None}
        /\ current.address \in {x.address : x \in Records} \cup {None}
    BY DEF Row
  <2> QED
    BY <2>1, <2>3, <2>4
<1>11. /\ value("source") \in Sources \cup {None}
       /\ value("norm") \in {Norm(n) : n \in References} \cup {None}
       /\ value("ext") \in {x.ext : x \in Records} \cup {None}
  BY <1>5 DEF Row
<1> HIDE DEF value, added
<1>12. new \in Row
  BY <1>8, <1>9, <1>10, <1>11 DEF Row
<1>13. \A f \in Tracked : new[f] = value(f)
  BY DEF Tracked
<1> QED
  BY <1>3, <1>12, <1>13, <1>4, <1>5, <1>6, <1>7, <1>8 DEF upd

\* A version is written only if its number is free: the row had not moved on.
LEMMA FlushedIsSound ==
  ASSUME NEW current \in Row, NEW seen \in Row, NEW rec \in Records,
         Sound(current), Sound(seen), Exists(seen), seen.version < MaxVersion,
         Follows(seen, current), Fits(rec, seen),
         Changed(seen, rec) => \A v \in current.versions : v[1] # seen.version + 1
  PROVE  LET new == Flushed(current, seen, Updated(seen, rec)) IN
         new \in Row /\ Sound(new) /\ Exists(new) /\ Follows(current, new)
<1> DEFINE new == Flushed(current, seen, Updated(seen, rec))
<1>1. /\ new \in Row
      /\ new.source = current.source /\ new.norm = current.norm
      /\ new.docs = current.docs \cup (rec.docs \ seen.docs)
      /\ \A f \in Tracked : new[f] = IF f \in ChangedFields(seen, rec) THEN rec[f] ELSE current[f]
      /\ new.version = IF Changed(seen, rec) THEN seen.version + 1 ELSE current.version
      /\ new.versions = current.versions \cup
            IF Changed(seen, rec) THEN {<<seen.version + 1, Snapshot(rec)>>} \ seen.versions ELSE {}
  BY FlushedByColumn
<1> HIDE DEF new
<1>2. /\ seen.version \in Nat /\ current.version \in Nat /\ seen.version > 0
      /\ current.version >= seen.version
  BY RowFields DEF Exists, Follows
<1>3. new.norm # None /\ Norm(new.ref) # None => Norm(new.ref) = new.norm
  <2>1. current.norm = seen.norm
    BY DEF Follows
  <2>2. new.ref = IF "ref" \in ChangedFields(seen, rec) THEN rec.ref ELSE current.ref
    BY <1>1 DEF Tracked
  <2> QED
    BY <1>1, <2>1, <2>2 DEF Fits, Sound
<1>4. CASE ~Changed(seen, rec)
  <2>1. /\ new.version = current.version /\ new.versions = current.versions
        /\ \A f \in Tracked : new[f] = current[f]
    BY <1>1, <1>4 DEF Changed
  <2>2. new.docs = current.docs
    BY <1>1, <1>4 DEF Changed
  <2>2a. \A f \in Recorded : ToldBy(new, f)
    <3>1. \A f \in Recorded : Value(new, f) = Value(current, f)
      BY <2>1 DEF Value, Recorded, Tracked
    <3> QED
      BY <2>1, <3>1 DEF Sound, ToldBy, LastToKnow
  <2>2b. Sound(new)
    BY <2>1, <2>2, <2>2a, <1>3 DEF Sound, Numbered
  <2>3. Exists(new) /\ Follows(current, new)
    BY <2>1, <1>1, <1>2 DEF Exists, Follows
  <2> QED
    BY <1>1, <2>2b, <2>3 DEF new
<1>5. CASE Changed(seen, rec)
  <2> DEFINE pair == <<seen.version + 1, Snapshot(rec)>>
  <2>1. current.version = seen.version
    <3>1. seen.version + 1 \notin 1..current.version
      BY <1>5 DEF Sound, Numbered
    <3> QED
      BY <3>1, <1>2
  <2>0. pair[1] = seen.version + 1 /\ pair[2] = Snapshot(rec)
    OBVIOUS
  <2>2. pair \notin seen.versions /\ pair \notin current.versions
    <3>1. pair \notin current.versions
      BY <1>5, <2>0
    <3> QED
      BY <3>1 DEF Follows
  <2> HIDE DEF pair
  <2>3. new.version = seen.version + 1 /\ new.versions = current.versions \cup {pair}
    BY <1>1, <1>5, <2>2 DEF pair
  <2>4. {v[1] : v \in new.versions} = 1..new.version
    <3>1. {v[1] : v \in new.versions} = {v[1] : v \in current.versions} \cup {seen.version + 1}
      BY <2>0, <2>3
    <3>2. {v[1] : v \in current.versions} = 1..seen.version
      BY <2>1 DEF Sound, Numbered
    <3>3. 1..(seen.version + 1) = (1..seen.version) \cup {seen.version + 1}
      BY <1>2
    <3> QED
      BY <3>1, <3>2, <3>3, <2>3
  <2>5. IsFiniteSet(new.versions) /\ Cardinality(new.versions) = new.version
    <3>1. IsFiniteSet(current.versions) /\ Cardinality(current.versions) = current.version
      BY DEF Sound, Numbered
    <3>2. /\ IsFiniteSet(current.versions \cup {pair})
          /\ Cardinality(current.versions \cup {pair}) = Cardinality(current.versions) + 1
      BY <2>2, <3>1, FS_AddElement
    <3> QED
      BY <2>1, <2>3, <3>1, <3>2
  <2>6. ASSUME NEW f \in Recorded
        PROVE  ToldBy(new, f)
    <3>1. ToldBy(current, f) /\ current[f] = seen[f] /\ f \in Tracked
      BY <2>1, <1>2 DEF Sound, Follows, Recorded, Tracked
    <3>1a. Snapshot(rec)[f] = Value(rec, f) /\ (Value(rec, f) = None <=> rec[f] = None)
      BY SnapshotFields, KeyOfReference DEF Value
    <3>2. \A w \in new.versions : w \in current.versions \/ w = pair
      BY <2>3
    <3>3. \A w \in new.versions : ~(w[1] > pair[1])
      <4>1. \A w \in current.versions : w[1] \in 1..seen.version
        BY <2>1 DEF Sound, Numbered
      <4> QED
        BY <4>1, <3>2, <2>0, <1>2
    <3>4. CASE rec[f] # None
      <4>1. Value(new, f) = Value(rec, f)
        <5>1. new[f] = rec[f]
          BY <3>1, <3>4, <1>1 DEF ChangedFields
        <5> QED
          BY <5>1 DEF Value
      <4>2. LastToKnow(new, f, pair)
        BY <2>0, <3>1a, <3>3, <3>4 DEF LastToKnow
      <4> QED
        BY <4>1, <4>2, <3>1a, <2>0, <2>3 DEF ToldBy
    <3>5. CASE rec[f] = None
      <4>1. Value(new, f) = Value(current, f)
        <5>1. new[f] = current[f]
          BY <3>1, <3>5, <1>1 DEF ChangedFields
        <5> QED
          BY <5>1 DEF Value
      <4>2. CASE Value(current, f) = None /\ \A v \in current.versions : v[2][f] = None
        BY <4>1, <4>2, <3>1a, <3>2, <3>5, <2>0 DEF ToldBy
      <4>3. ASSUME NEW v \in current.versions, LastToKnow(current, f, v),
                   Value(current, f) = v[2][f]
            PROVE  ToldBy(new, f)
        <5>1. LastToKnow(new, f, v)
          BY <4>3, <3>1a, <3>2, <3>5, <2>0 DEF LastToKnow
        <5> QED
          BY <5>1, <4>1, <4>3, <2>3 DEF ToldBy
      <4> QED
        BY <3>1, <4>2, <4>3 DEF ToldBy
    <3> QED
      BY <3>4, <3>5
  <2>6a. new.docs = UNION {v[2].docs : v \in new.versions}
    <3>1. /\ seen.docs = UNION {v[2].docs : v \in seen.versions}
          /\ current.docs = UNION {v[2].docs : v \in current.versions}
      BY DEF Sound
    <3>2. seen.docs \subseteq current.docs
      BY <3>1 DEF Follows
    <3>3. new.docs = current.docs \cup rec.docs
      BY <1>1, <3>2
    <3>4. {v[2].docs : v \in new.versions} = {v[2].docs : v \in current.versions} \cup {rec.docs}
      BY <2>0, <2>3, SnapshotFields
    <3> QED
      BY <3>1, <3>3, <3>4
  <2>7. Sound(new)
    BY <2>4, <2>5, <2>6, <2>6a, <1>3 DEF Sound, Numbered
  <2>8. Exists(new) /\ Follows(current, new)
    <3>1. new.version > current.version /\ current.versions \subseteq new.versions
      BY <2>1, <2>3, <1>2
    <3>2. \A f \in Tracked : new[f] # current[f] => new[f] # None
      BY <1>1 DEF ChangedFields
    <3> QED
      BY <3>1, <3>2, <1>1, <1>2 DEF Exists, Follows
  <2> QED
    BY <1>1, <2>7, <2>8 DEF new
<1> QED
  BY <1>4, <1>5

\* What a committed row may become, it may become in several steps.
LEMMA FollowsIsPreorder ==
  ASSUME NEW a \in Row, NEW b \in Row, NEW c \in Row
  PROVE  Follows(a, a) /\ (Follows(a, b) /\ Follows(b, c) => Follows(a, c))
<1>1. a.version \in Nat /\ b.version \in Nat /\ c.version \in Nat
  BY RowFields
<1>2. Follows(a, a)
  BY <1>1 DEF Follows
<1>3. ASSUME Follows(a, b), Follows(b, c), Exists(a)
      PROVE  /\ c.version >= a.version /\ a.versions \subseteq c.versions
             /\ c.source = a.source /\ c.norm = a.norm
             /\ \A f \in Tracked : c[f] # a[f] => c.version > a.version /\ c[f] # None
  <2>1. Exists(b)
    BY <1>1, <1>3 DEF Follows, Exists
  <2>2. /\ b.version >= a.version /\ a.versions \subseteq b.versions
        /\ b.source = a.source /\ b.norm = a.norm
        /\ \A f \in Tracked : b[f] # a[f] => b.version > a.version /\ b[f] # None
    BY <1>3 DEF Follows
  <2>3. /\ c.version >= b.version /\ b.versions \subseteq c.versions
        /\ c.source = b.source /\ c.norm = b.norm
        /\ \A f \in Tracked : c[f] # b[f] => c.version > b.version /\ c[f] # None
    BY <1>3, <2>1 DEF Follows
  <2> QED
    BY <1>1, <2>2, <2>3
<1> QED
  BY <1>2, <1>3 DEF Follows

(***************************************************************************)
(* What a run sees, and what the deduplicator may find in it.              *)
(***************************************************************************)
LEMMA ViewIsSound ==
  ASSUME IInv, NEW r \in Runs
  PROVE  /\ View(r) \in [Ids -> Row]
         /\ \A i \in Ids : /\ rows[i] \in Row /\ own[r][i] \in Row
                           /\ View(r)[i] = IF Holds(r, i) THEN own[r][i] ELSE rows[i]
                           /\ Sound(View(r)[i]) /\ Follows(rows[i], View(r)[i])
<1>1. \A i \in Ids : rows[i] \in Row /\ own[r][i] \in Row
  BY DEF IInv, TypeOK
<1>2. \A i \in Ids : View(r)[i] = IF Holds(r, i) THEN own[r][i] ELSE rows[i]
  BY DEF View
<1>3. View(r) \in [Ids -> Row]
  BY <1>1 DEF View
<1>4. ASSUME NEW i \in Ids
      PROVE  Sound(View(r)[i]) /\ Follows(rows[i], View(r)[i])
  <2>1. Follows(rows[i], rows[i])
    BY <1>1, FollowsIsPreorder
  <2>2. Sound(rows[i]) /\ Sound(own[r][i]) /\ (Holds(r, i) => Follows(rows[i], own[r][i]))
    BY DEF IInv, RowsAreSound, HeldRowsFollow
  <2> QED
    BY <1>2, <2>1, <2>2
<1> QED
  BY <1>1, <1>2, <1>3, <1>4

\* What is merged belongs to an issuer of the source and has no other reference,
\* whichever layer found it.
LEMMA FoundStands ==
  ASSUME NEW v \in [Ids -> Row], \A i \in Ids : Sound(v[i]),
         NEW s \in Sources, NEW rec \in Records,
         NEW found \in Found(v, s, rec), found.act = "update"
  PROVE  /\ found.id \in Ids /\ Exists(v[found.id])
         /\ Fits(rec, v[found.id]) /\ SameIssuer(s, v[found.id])
<1> DEFINE Good(x) == /\ x.act \in {"create", "update"}
                      /\ x.act = "update" =>
                           /\ x.id \in Ids /\ Exists(v[x.id])
                           /\ Fits(rec, v[x.id]) /\ SameIssuer(s, v[x.id])
<1>0. /\ Good(New)
      /\ \A i \in Ids : Exists(v[i]) /\ Fits(rec, v[i]) /\ SameIssuer(s, v[i]) => Good(Merge(i))
  BY DEF New, Merge
<1>1. \A i \in Layer1(v, s, rec) : Good(Merge(i))
  <2> SUFFICES ASSUME NEW i \in Layer1(v, s, rec)
               PROVE  i \in Ids /\ Exists(v[i]) /\ Fits(rec, v[i]) /\ SameIssuer(s, v[i])
    BY <1>0
  <2>1. i \in Ids /\ Exists(v[i]) /\ SameIssuer(s, v[i])
    BY DEF Layer1, SameScope, SameIssuer
  <2>2. v[i].norm = RefKey(rec.ref) \/ v[i].ref = rec.ref
    BY DEF Layer1
  <2>3. v[i].norm # None /\ Norm(v[i].ref) # None => Norm(v[i].ref) = v[i].norm
    BY <2>1 DEF Sound
  <2> QED
    BY <2>1, <2>2, <2>3 DEF Fits, RefKey
<1>2. \A i \in Ids : ~Conflicts(v, i, rec) => Fits(rec, v[i])
  BY DEF Conflicts, Fits
<1>3. \A x \in Fuzzy(v, s, rec) : Good(x)
  <2> SUFFICES ASSUME NEW x \in Fuzzy(v, s, rec), x # New PROVE Good(x)
    BY <1>0
  <2>1. PICK i \in Best(v, Layer4(v, s, rec), rec) : x = Merge(i)
    BY DEF Fuzzy
  <2>2. i \in Layer4(v, s, rec)
    BY DEF Best
  <2>3. i \in Ids /\ Exists(v[i]) /\ v[i].source = s
    BY <2>2 DEF Layer4
  <2>4. Fits(rec, v[i])
    BY <2>2 DEF Layer4, Fits
  <2> QED
    BY <1>0, <2>1, <2>3, <2>4 DEF SameIssuer
<1>4. \A x \in ByPrint(v, s, rec) : Good(x)
  <2> SUFFICES ASSUME NEW x \in ByPrint(v, s, rec), x # New, x \notin Fuzzy(v, s, rec)
               PROVE  Good(x)
    BY <1>0, <1>3
  <2>1. PICK i \in Layer3(v, rec) : ~Conflicts(v, i, rec) /\ MergesPrint(v, s, i) /\ x = Merge(i)
    BY DEF ByPrint
  <2>2. i \in Ids /\ Exists(v[i])
    BY DEF Layer3
  <2> QED
    BY <1>0, <1>2, <2>1, <2>2 DEF MergesPrint, SameIssuer
<1>5. \A x \in ByHash(v, s, rec) : Good(x)
  <2> SUFFICES ASSUME NEW x \in ByHash(v, s, rec), x \notin ByPrint(v, s, rec) PROVE Good(x)
    BY <1>4
  <2>1. PICK i \in Layer2(v, s, rec) : ~Conflicts(v, i, rec) /\ x = Merge(i)
    BY DEF ByHash
  <2>2. i \in Ids /\ Exists(v[i]) /\ v[i].source = s
    BY DEF Layer2
  <2> QED
    BY <1>0, <1>2, <2>1, <2>2 DEF SameIssuer
<1>6. Good(found)
  BY <1>1, <1>4, <1>5 DEF Found
<1> QED
  BY <1>6

(***************************************************************************)
(* The initial state, and the kinds of steps.                              *)
(***************************************************************************)
LEMMA IdleIsRun == NoChoice \in Choice /\ IdleRun \in Run
<1>1. NoChoice \in Choice
  BY AbsentIsSound DEF NoChoice, Choice
<1> QED
  BY <1>1, BoundsAssumption DEF IdleRun, Run

\* The empty catalogue is sound.
LEMMA InitIsSound == Init => IInv
<1> SUFFICES ASSUME Init PROVE IInv
  OBVIOUS
<1>1. TypeOK
  BY IdleIsRun, AbsentIsSound DEF Init, TypeOK
<1>2. \A r \in Runs, i \in Ids : ~Holds(r, i)
  BY AbsentIsSound DEF Init, Holds
<1>3. RowsAreSound
  BY AbsentIsSound DEF Init, RowsAreSound
<1>4. ChoicesStand
  BY DEF Init, ChoicesStand, IdleRun, NoChoice
<1> QED
  BY <1>1, <1>2, <1>3, <1>4 DEF IInv, LocksExclude, HeldRowsFollow

\* A run decides something, begins or gives up; nothing is written.
LEMMA DecisionKeeps ==
  ASSUME IInv, NEW r \in Runs, NEW x \in Run,
         run' = [run EXCEPT ![r] = x], UNCHANGED <<rows, own>>,
         (\E i \in Ids : Holds(r, i)) => x.at \in {"open", "decided"} /\ x.source = run[r].source,
         x.at \in {"open", "decided"} => x.source \in Sources,
         x.choice.act # "none" <=> x.at = "decided",
         x.at = "decided" =>
            /\ x.choice.id \in Ids /\ x.choice.rec \in Records
            /\ \A q \in Runs \ {r} : run[q].choice.act = "create" => run[q].choice.id # x.choice.id,
         x.choice.act = "update" =>
            /\ Exists(x.choice.seen) /\ Sound(x.choice.seen) /\ x.choice.seen.version < MaxVersion
            /\ Follows(x.choice.seen, View(r)[x.choice.id])
            /\ Fits(x.choice.rec, x.choice.seen) /\ SameIssuer(x.source, x.choice.seen),
         x.choice.act = "create" =>
            /\ ~Exists(rows[x.choice.id])
            /\ \A q \in Runs :
                  /\ ~Holds(q, x.choice.id)
                  /\ q # r /\ run[q].at = "decided" => run[q].choice.id # x.choice.id
  PROVE  IInv'
<1>1. run'[r] = x /\ \A q \in Runs : q # r => run'[q] = run[q]
  BY DEF IInv, TypeOK
<1>2. \A q \in Runs, i \in Ids : Holds(q, i)' = Holds(q, i)
  BY DEF Holds
<1>3. \A q \in Runs : View(q)' = View(q)
  BY DEF View, Holds
<1>4. TypeOK'
  BY DEF IInv, TypeOK
<1>5. RowsAreSound' /\ LocksExclude'
  BY <1>2 DEF IInv, RowsAreSound, LocksExclude
<1>6. HeldRowsFollow'
  <2> SUFFICES ASSUME NEW q \in Runs, NEW i \in Ids, Holds(q, i)
               PROVE  /\ run'[q].at \in {"open", "decided"}
                      /\ SameIssuer(run'[q].source, own[q][i])
                      /\ Follows(rows[i], own[q][i])
    BY <1>2 DEF HeldRowsFollow
  <2>1. /\ run[q].at \in {"open", "decided"}
        /\ SameIssuer(run[q].source, own[q][i])
        /\ Follows(rows[i], own[q][i])
    BY DEF IInv, HeldRowsFollow
  <2> QED
    BY <1>1, <2>1
<1>7. ChoicesStand'
  <2> SUFFICES ASSUME NEW q \in Runs
               PROVE  /\ run'[q].at \in {"open", "decided"} => run'[q].source \in Sources
                      /\ run'[q].choice.act # "none" <=> run'[q].at = "decided"
                      /\ run'[q].at = "decided" => /\ run'[q].choice.id \in Ids
                                                   /\ run'[q].choice.rec \in Records
                      /\ run'[q].choice.act = "update" => MergeStands(q)'
                      /\ run'[q].choice.act = "create" => CreationStands(q)'
    BY DEF ChoicesStand
  <2>1. CASE q = r
    <3>1. x.choice.act = "update" => MergeStands(r)'
      BY <1>1, <1>3 DEF MergeStands
    <3>2. x.choice.act = "create" => CreationStands(r)'
      BY <1>1, <1>2 DEF CreationStands
    <3> QED
      BY <1>1, <2>1, <3>1, <3>2
  <2>2. CASE q # r
    <3>1. /\ run[q].at \in {"open", "decided"} => run[q].source \in Sources
          /\ run[q].choice.act # "none" <=> run[q].at = "decided"
          /\ run[q].at = "decided" => run[q].choice.id \in Ids /\ run[q].choice.rec \in Records
          /\ run[q].choice.act = "update" => MergeStands(q)
          /\ run[q].choice.act = "create" => CreationStands(q)
      BY DEF IInv, ChoicesStand
    <3>2. MergeStands(q) => MergeStands(q)'
      BY <1>1, <1>3, <2>2 DEF MergeStands
    <3>3. ASSUME run[q].choice.act = "create" PROVE CreationStands(q)'
      <4>1. \A p \in Runs : p # q /\ run'[p].at = "decided" => run'[p].choice.id # run[q].choice.id
        BY <1>1, <2>2, <3>1, <3>3 DEF CreationStands
      <4>2. run[q].choice.id \in Ids
        BY <3>1, <3>3
      <4> QED
        BY <1>1, <1>2, <2>2, <3>1, <3>3, <4>1, <4>2 DEF CreationStands
    <3> QED
      BY <1>1, <2>2, <3>1, <3>2, <3>3
  <2> QED
    BY <2>1, <2>2
<1> QED
  BY <1>4, <1>5, <1>6, <1>7 DEF IInv

\* A run writes a row it may write, and locks it.
LEMMA ApplyKeeps ==
  ASSUME IInv, NEW r \in Runs, run[r].at = "decided", NEW new \in Row, Sound(new), Exists(new),
         own' = [own EXCEPT ![r][run[r].choice.id] = new],
         run' = [run EXCEPT ![r].at = "open", ![r].choice = NoChoice], UNCHANGED rows,
         SameIssuer(run[r].source, new), Follows(rows[run[r].choice.id], new),
         \A q \in Runs \ {r} : ~Holds(q, run[r].choice.id)
  PROVE  IInv'
<1> DEFINE id == run[r].choice.id
<1>1. id \in Ids /\ run[r].source \in Sources
  BY DEF IInv, ChoicesStand
<1>2. own[r] \in [Ids -> Row] /\ run[r] \in Run
  BY DEF IInv, TypeOK
<1>3. /\ own' \in [Runs -> [Ids -> Row]]
      /\ \A q \in Runs, i \in Ids : own'[q][i] = IF q = r /\ i = id THEN new ELSE own[q][i]
  BY <1>1, <1>2 DEF IInv, TypeOK
<1>4. /\ run'[r] \in Run /\ run'[r].at = "open" /\ run'[r].choice = NoChoice
      /\ run'[r].source = run[r].source
      /\ \A q \in Runs : q # r => run'[q] = run[q]
      /\ run' \in [Runs -> Run]
  <2>1. [run[r] EXCEPT !.at = "open", !.choice = NoChoice] \in Run
    BY <1>2, IdleIsRun DEF Run
  <2>2. run'[r] = [run[r] EXCEPT !.at = "open", !.choice = NoChoice]
    BY DEF IInv, TypeOK
  <2>3. run' = [run EXCEPT ![r] = [run[r] EXCEPT !.at = "open", !.choice = NoChoice]]
    BY DEF IInv, TypeOK
  <2> QED
    BY <1>2, <2>1, <2>2, <2>3 DEF IInv, TypeOK, Run
<1>5. \A q \in Runs, i \in Ids : Holds(q, i)' <=> Holds(q, i) \/ (q = r /\ i = id)
  <2> SUFFICES ASSUME NEW q \in Runs, NEW i \in Ids
               PROVE  Exists(own'[q][i]) <=> Exists(own[q][i]) \/ (q = r /\ i = id)
    BY DEF Holds
  <2> QED
    BY <1>3
<1>6. TypeOK'
  BY <1>3, <1>4 DEF IInv, TypeOK
<1>7. RowsAreSound'
  BY <1>3 DEF IInv, RowsAreSound
<1>8. LocksExclude'
  BY <1>5 DEF IInv, LocksExclude
<1>9. HeldRowsFollow'
  <2> SUFFICES ASSUME NEW q \in Runs, NEW i \in Ids, Holds(q, i)'
               PROVE  /\ run'[q].at \in {"open", "decided"}
                      /\ SameIssuer(run'[q].source, own'[q][i])
                      /\ Follows(rows[i], own'[q][i])
    BY DEF HeldRowsFollow
  <2>1. CASE q = r /\ i = id
    BY <2>1, <1>3, <1>4
  <2>2. CASE ~(q = r /\ i = id)
    BY <2>2, <1>3, <1>4, <1>5 DEF IInv, HeldRowsFollow
  <2> QED
    BY <2>1, <2>2
<1>10. ChoicesStand'
  <2> SUFFICES ASSUME NEW q \in Runs
               PROVE  /\ run'[q].at \in {"open", "decided"} => run'[q].source \in Sources
                      /\ run'[q].choice.act # "none" <=> run'[q].at = "decided"
                      /\ run'[q].at = "decided" => /\ run'[q].choice.id \in Ids
                                                   /\ run'[q].choice.rec \in Records
                      /\ run'[q].choice.act = "update" => MergeStands(q)'
                      /\ run'[q].choice.act = "create" => CreationStands(q)'
    BY DEF ChoicesStand
  <2>1. CASE q = r
    BY <2>1, <1>1, <1>4 DEF NoChoice
  <2>2. CASE q # r
    <3>1. /\ run[q].at \in {"open", "decided"} => run[q].source \in Sources
          /\ run[q].choice.act # "none" <=> run[q].at = "decided"
          /\ run[q].at = "decided" => run[q].choice.id \in Ids /\ run[q].choice.rec \in Records
          /\ run[q].choice.act = "update" => MergeStands(q)
          /\ run[q].choice.act = "create" => CreationStands(q)
      BY DEF IInv, ChoicesStand
    <3>2. \A i \in Ids : View(q)'[i] = View(q)[i]
      BY <1>3, <1>5, <2>2 DEF View
    <3>3. ASSUME run[q].choice.act = "update" PROVE MergeStands(q)'
      BY <1>4, <2>2, <3>1, <3>2, <3>3 DEF MergeStands
    <3>4. ASSUME run[q].choice.act = "create" PROVE CreationStands(q)'
      <4>1. id # run[q].choice.id
        BY <2>2, <3>1, <3>4 DEF CreationStands
      <4>2. \A p \in Runs : ~Holds(p, run[q].choice.id)'
        BY <4>1, <1>4, <1>5, <2>2, <3>1, <3>4 DEF CreationStands, Holds
      <4>3. \A p \in Runs : p # q /\ run'[p].at = "decided" => run'[p].choice.id # run[q].choice.id
        BY <1>4, <2>2, <3>1, <3>4 DEF CreationStands
      <4> QED
        BY <1>4, <2>2, <3>1, <3>4, <4>2, <4>3 DEF CreationStands
    <3> QED
      BY <1>4, <2>2, <3>1, <3>3, <3>4
  <2> QED
    BY <2>1, <2>2
<1> QED
  BY <1>6, <1>7, <1>8, <1>9, <1>10 DEF IInv

\* A run ends, with its rows committed or not.
LEMMA EndKeeps ==
  ASSUME IInv, NEW r \in Runs, NEW x \in Run, x.at \in {"idle", "poisoned"}, x.choice = NoChoice,
         run' = [run EXCEPT ![r] = x],
         own' = [own EXCEPT ![r] = [i \in Ids |-> Absent]],
         rows' \in {rows, View(r)}
  PROVE  IInv'
<1>1. run'[r] = x /\ run' \in [Runs -> Run] /\ \A q \in Runs : q # r => run'[q] = run[q]
  BY DEF IInv, TypeOK
<1>2. /\ own' \in [Runs -> [Ids -> Row]]
      /\ \A q \in Runs, i \in Ids : own'[q][i] = IF q = r THEN Absent ELSE own[q][i]
  BY AbsentIsSound DEF IInv, TypeOK
<1>3. \A q \in Runs, i \in Ids : Holds(q, i)' <=> q # r /\ Holds(q, i)
  <2> SUFFICES ASSUME NEW q \in Runs, NEW i \in Ids
               PROVE  Exists(own'[q][i]) <=> q # r /\ Exists(own[q][i])
    BY DEF Holds
  <2> QED
    BY <1>2, AbsentIsSound
<1>4. /\ rows' \in [Ids -> Row]
      /\ \A i \in Ids : /\ Sound(rows'[i]) /\ Follows(rows[i], rows'[i])
                        /\ ~Holds(r, i) => rows'[i] = rows[i]
  <2>1. CASE rows' = View(r)
    BY <2>1, ViewIsSound
  <2>2. CASE rows' = rows
    <3>1. \A i \in Ids : Follows(rows[i], rows[i])
      BY FollowsIsPreorder DEF IInv, TypeOK
    <3> QED
      BY <2>2, <3>1 DEF IInv, TypeOK, RowsAreSound
  <2> QED
    BY <2>1, <2>2
<1>5. TypeOK'
  BY <1>1, <1>2, <1>4 DEF TypeOK
<1>6. RowsAreSound'
  BY <1>2, <1>4, AbsentIsSound DEF IInv, RowsAreSound
<1>7. LocksExclude'
  BY <1>3 DEF IInv, LocksExclude
<1>8. \A q \in Runs, i \in Ids : q # r /\ Holds(q, i) => rows'[i] = rows[i]
  BY <1>4 DEF IInv, LocksExclude
<1>9. HeldRowsFollow'
  <2> SUFFICES ASSUME NEW q \in Runs, NEW i \in Ids, q # r, Holds(q, i)
               PROVE  /\ run'[q].at \in {"open", "decided"}
                      /\ SameIssuer(run'[q].source, own'[q][i])
                      /\ Follows(rows'[i], own'[q][i])
    BY <1>3 DEF HeldRowsFollow
  <2>1. /\ run[q].at \in {"open", "decided"}
        /\ SameIssuer(run[q].source, own[q][i])
        /\ Follows(rows[i], own[q][i])
    BY DEF IInv, HeldRowsFollow
  <2> QED
    BY <2>1, <1>1, <1>2, <1>8
<1>10. ChoicesStand'
  <2> SUFFICES ASSUME NEW q \in Runs
               PROVE  /\ run'[q].at \in {"open", "decided"} => run'[q].source \in Sources
                      /\ run'[q].choice.act # "none" <=> run'[q].at = "decided"
                      /\ run'[q].at = "decided" => /\ run'[q].choice.id \in Ids
                                                   /\ run'[q].choice.rec \in Records
                      /\ run'[q].choice.act = "update" => MergeStands(q)'
                      /\ run'[q].choice.act = "create" => CreationStands(q)'
    BY DEF ChoicesStand
  <2>1. CASE q = r
    BY <2>1, <1>1 DEF NoChoice
  <2>2. CASE q # r
    <3>1. /\ run[q].at \in {"open", "decided"} => run[q].source \in Sources
          /\ run[q].choice.act # "none" <=> run[q].at = "decided"
          /\ run[q].at = "decided" => run[q].choice.id \in Ids /\ run[q].choice.rec \in Records
          /\ run[q].choice.act = "update" => MergeStands(q)
          /\ run[q].choice.act = "create" => CreationStands(q)
      BY DEF IInv, ChoicesStand
    <3>2. ASSUME run[q].choice.act = "update" PROVE MergeStands(q)'
      <4> DEFINE id == run[q].choice.id
                 seen == run[q].choice.seen
      <4>1. id \in Ids /\ seen \in Row
        BY <3>1, <3>2 DEF IInv, TypeOK, Run, Choice
      <4>2. Follows(seen, View(q)[id])
        BY <3>1, <3>2 DEF MergeStands
      <4>3. /\ View(q)[id] \in Row /\ rows[id] \in Row
            /\ View(q)[id] = IF Holds(q, id) THEN own[q][id] ELSE rows[id]
        BY <4>1, ViewIsSound
      <4>4. View(q)'[id] = IF Holds(q, id) THEN own[q][id] ELSE rows'[id]
        BY <4>1, <1>2, <1>3, <2>2 DEF View
      <4>5. Follows(seen, View(q)'[id])
        <5>1. rows'[id] \in Row /\ Follows(rows[id], rows'[id])
          BY <4>1, <1>4
        <5> HIDE DEF id, seen
        <5>2. CASE Holds(q, id)
          BY <4>2, <4>3, <4>4, <5>2
        <5>3. CASE ~Holds(q, id)
          BY <4>1, <4>2, <4>3, <4>4, <5>1, <5>3, FollowsIsPreorder, Zenon
        <5> QED
          BY <5>2, <5>3
      <4> QED
        BY <4>5, <1>1, <2>2, <3>1, <3>2 DEF MergeStands
    <3>3. ASSUME run[q].choice.act = "create" PROVE CreationStands(q)'
      <4>1. run[q].choice.id \in Ids
        BY <3>1, <3>3
      <4>2. rows'[run[q].choice.id] = rows[run[q].choice.id]
        BY <4>1, <1>4, <3>1, <3>3 DEF CreationStands
      <4>3. \A p \in Runs : ~Holds(p, run[q].choice.id)'
        BY <4>1, <1>1, <1>3, <2>2, <3>1, <3>3 DEF CreationStands, Holds
      <4>4. \A p \in Runs : p # q /\ run'[p].at = "decided" => run'[p].choice.id # run[q].choice.id
        BY <1>1, <2>2, <3>1, <3>3 DEF CreationStands
      <4> QED
        BY <1>1, <2>2, <3>1, <3>3, <4>2, <4>3, <4>4 DEF CreationStands
    <3> QED
      BY <1>1, <2>2, <3>1, <3>2, <3>3
  <2> QED
    BY <2>1, <2>2
<1> QED
  BY <1>5, <1>6, <1>7, <1>9, <1>10 DEF IInv

(***************************************************************************)
(* Every action is one of these steps.                                     *)
(***************************************************************************)
LEMMA DecideKeeps ==
  ASSUME IInv, NEW r \in Runs, NEW rec \in Records, Decide(r, rec)
  PROVE  IInv'
<1>1. /\ run[r] \in Run /\ run[r].at = "open" /\ run[r].items \in 0..MaxItems
      /\ run[r].items < MaxItems /\ run[r].source \in Sources
      /\ run \in [Runs -> Run]
  BY DEF IInv, TypeOK, ChoicesStand, Decide, MoreItems, Run
<1> DEFINE next(c) == [run[r] EXCEPT !.at = "decided", !.items = @ + 1, !.choice = c]
<1>2. ASSUME NEW c \in Choice
      PROVE  /\ next(c) \in Run
             /\ next(c).at = "decided" /\ next(c).choice = c /\ next(c).source = run[r].source
             /\ [run EXCEPT ![r].at = "decided", ![r].items = @ + 1, ![r].choice = c]
                   = [run EXCEPT ![r] = next(c)]
  <2>1. run[r].items + 1 \in 0..MaxItems
    BY <1>1, BoundsAssumption
  <2>2. next(c) \in Run
    BY <1>1, <2>1 DEF Run
  <2>3. next(c).at = "decided" /\ next(c).choice = c /\ next(c).source = run[r].source
    BY <1>1 DEF Run
  <2>4. [run EXCEPT ![r].at = "decided", ![r].items = @ + 1, ![r].choice = c]
          = [run EXCEPT ![r] = next(c)]
    BY <1>1 DEF Run
  <2> QED
    BY <2>2, <2>3, <2>4
<1>3. UNCHANGED <<rows, own>>
  BY DEF Decide
<1>4. /\ View(r) \in [Ids -> Row] /\ \A i \in Ids : Sound(View(r)[i])
  BY ViewIsSound
<1> HIDE DEF next
<1>5. PICK found \in Found(View(r), run[r].source, rec) :
         \/ /\ found.act = "update"
            /\ View(r)[found.id].version < MaxVersion
            /\ run' = [run EXCEPT ![r].at = "decided", ![r].items = @ + 1,
                         ![r].choice = [act |-> "update", id |-> found.id,
                                        seen |-> View(r)[found.id], rec |-> rec]]
         \/ /\ found.act = "create"
            /\ \E i \in Ids :
                 /\ FreeId(i)
                 /\ run' = [run EXCEPT ![r].at = "decided", ![r].items = @ + 1,
                              ![r].choice = [act |-> "create", id |-> i,
                                             seen |-> Absent, rec |-> rec]]
  BY DEF Decide
<1>6. CASE found.act = "update"
  <2> DEFINE c == [act |-> "update", id |-> found.id, seen |-> View(r)[found.id], rec |-> rec]
  <2>1. /\ found.id \in Ids /\ Exists(View(r)[found.id])
        /\ Fits(rec, View(r)[found.id]) /\ SameIssuer(run[r].source, View(r)[found.id])
    BY <1>1, <1>4, <1>6, FoundStands
  <2>2. c \in Choice /\ Follows(c.seen, c.seen)
    BY <1>4, <2>1, FollowsIsPreorder DEF Choice
  <2>3. c.seen.version < MaxVersion /\ run' = [run EXCEPT ![r] = next(c)]
    BY <1>2, <1>5, <1>6, <2>2
  <2>4. \A q \in Runs : run[q].choice.act = "create" => run[q].choice.id # found.id
    BY <2>1, <1>4 DEF IInv, ChoicesStand, CreationStands, View
  <2> DEFINE x == next(c)
  <2>4a. c.act = "update" /\ c.id = found.id /\ c.rec = rec /\ c.seen = View(r)[found.id]
    OBVIOUS
  <2> HIDE DEF c
  <2>5. /\ x \in Run /\ x.at = "decided" /\ x.source = run[r].source
        /\ x.choice.act = "update" /\ x.choice.id = found.id /\ x.choice.rec = rec
        /\ x.choice.seen = View(r)[found.id]
    BY <1>2, <2>2, <2>4a
  <2>6. run' = [run EXCEPT ![r] = x]
    BY <2>3
  <2>7. /\ Exists(x.choice.seen) /\ Sound(x.choice.seen) /\ x.choice.seen.version < MaxVersion
        /\ Follows(x.choice.seen, View(r)[x.choice.id])
        /\ Fits(x.choice.rec, x.choice.seen) /\ SameIssuer(x.source, x.choice.seen)
    BY <1>4, <2>1, <2>2, <2>3, <2>5, <2>4a
  <2>8. /\ x.choice.id \in Ids /\ x.choice.rec \in Records
        /\ \A q \in Runs \ {r} : run[q].choice.act = "create" => run[q].choice.id # x.choice.id
    BY <2>1, <2>4, <2>5
  <2> HIDE DEF x
  <2>9. x.source \in Sources
    BY <1>1, <2>5
  <2> QED
    BY <1>3, <2>5, <2>6, <2>7, <2>8, <2>9, DecisionKeeps
<1>7. CASE found.act = "create"
  <2>1. PICK i \in Ids :
           /\ FreeId(i)
           /\ run' = [run EXCEPT ![r].at = "decided", ![r].items = @ + 1,
                        ![r].choice = [act |-> "create", id |-> i, seen |-> Absent, rec |-> rec]]
    BY <1>5, <1>7
  <2> DEFINE c == [act |-> "create", id |-> i, seen |-> Absent, rec |-> rec]
  <2>2. c \in Choice
    BY AbsentIsSound DEF Choice
  <2>3. run' = [run EXCEPT ![r] = next(c)]
    BY <1>2, <2>1, <2>2
  <2>4. ~Exists(rows[i]) /\ \A q \in Runs : ~Holds(q, i) /\ run[q].choice.id # i
    BY <2>1 DEF FreeId
  <2> DEFINE x == next(c)
  <2>4a. c.act = "create" /\ c.id = i /\ c.rec = rec
    OBVIOUS
  <2> HIDE DEF c
  <2>5. /\ x \in Run /\ x.at = "decided" /\ x.source = run[r].source
        /\ x.choice.act = "create" /\ x.choice.id = i /\ x.choice.rec = rec
    BY <1>2, <2>2, <2>4a
  <2>6. run' = [run EXCEPT ![r] = x]
    BY <2>3
  <2> HIDE DEF x
  <2>7. /\ x.choice.id \in Ids /\ x.choice.rec \in Records
        /\ \A q \in Runs \ {r} : run[q].choice.act = "create" => run[q].choice.id # x.choice.id
        /\ ~Exists(rows[x.choice.id])
        /\ \A q \in Runs :
              /\ ~Holds(q, x.choice.id)
              /\ q # r /\ run[q].at = "decided" => run[q].choice.id # x.choice.id
    BY <2>4, <2>5
  <2>8. x.source \in Sources
    BY <1>1, <2>5
  <2> QED
    BY <1>3, <2>5, <2>6, <2>7, <2>8, DecisionKeeps
<1> QED
  BY <1>5, <1>6, <1>7

\* What a run writes is sound, grows out of the row it sees and stays with its
\* issuer.
LEMMA WrittenIsSound ==
  ASSUME IInv, NEW r \in Runs, run[r].at = "decided", ~VersionTaken(r)
  PROVE  /\ Written(r) \in Row /\ Sound(Written(r)) /\ Exists(Written(r))
         /\ Follows(rows[run[r].choice.id], Written(r))
         /\ SameIssuer(run[r].source, Written(r))
<1> DEFINE c == run[r].choice
           current == View(r)[c.id]
<1>1. /\ c \in Choice /\ c.id \in Ids /\ c.rec \in Records /\ run[r].source \in Sources
      /\ c.act \in {"create", "update"}
      /\ c.act = "update" => MergeStands(r)
      /\ c.act = "create" => CreationStands(r)
  BY DEF IInv, TypeOK, Run, Choice, ChoicesStand
<1>2. CASE c.act = "create"
  <2>1. Written(r) = Created(run[r].source, c.rec)
    BY <1>2 DEF Written
  <2>2. ~Exists(rows[c.id])
    BY <1>1, <1>2 DEF CreationStands
  <2> QED
    BY <1>1, <2>1, <2>2, CreatedIsSound DEF Follows, SameIssuer
<1>3. CASE c.act = "update"
  <2>1. Written(r) = Flushed(current, c.seen, Updated(c.seen, c.rec))
    BY <1>3 DEF Written
  <2>2. /\ current \in Row /\ rows[c.id] \in Row /\ c.seen \in Row
        /\ Sound(current) /\ Follows(rows[c.id], current)
    BY <1>1, ViewIsSound DEF Choice
  <2>3. /\ Exists(c.seen) /\ Sound(c.seen) /\ c.seen.version < MaxVersion
        /\ Follows(c.seen, current) /\ Fits(c.rec, c.seen) /\ SameIssuer(run[r].source, c.seen)
    BY <1>1, <1>3 DEF MergeStands
  <2>4. Changed(c.seen, c.rec) => \A v \in current.versions : v[1] # c.seen.version + 1
    BY <1>3 DEF VersionTaken
  <2> HIDE DEF current, c
  <2>5. Written(r) \in Row /\ Sound(Written(r)) /\ Exists(Written(r)) /\ Follows(current, Written(r))
    BY <1>1, <2>1, <2>2, <2>3, <2>4, FlushedIsSound
  <2>6. Written(r).source = c.seen.source
    <3>1. Written(r).source = current.source
      BY <1>1, <2>1, <2>2, <2>3, FlushedByColumn
    <3> QED
      BY <3>1, <2>3 DEF Follows
  <2>7. Follows(rows[c.id], Written(r))
    BY <2>2, <2>5, FollowsIsPreorder
  <2> QED
    BY <2>3, <2>5, <2>6, <2>7 DEF SameIssuer, c
<1> QED
  BY <1>1, <1>2, <1>3

\* No step of a run disturbs the invariant.
LEMMA StepKeeps ==
  ASSUME IInv, NEW r \in Runs,
         \/ \E s \in Sources : Begin(r, s)
         \/ \E rec \in Records : Decide(r, rec)
         \/ Apply(r)
         \/ FlushFails(r)
         \/ DeadlockVictim(r)
         \/ Crash(r)
         \/ Commit(r)
         \/ Lost(r)
  PROVE  IInv'
<1>0. run[r] \in Run /\ run \in [Runs -> Run]
  BY DEF IInv, TypeOK
<1>1. ASSUME NEW s \in Sources, Begin(r, s) PROVE IInv'
  <2> DEFINE x == [IdleRun EXCEPT !.at = "open", !.source = s]
  <2>1. x \in Run /\ x.at = "open" /\ x.source = s /\ x.choice = NoChoice
    BY IdleIsRun DEF IdleRun, Run
  <2>2. run' = [run EXCEPT ![r] = x] /\ UNCHANGED <<rows, own>> /\ run[r].at = "idle"
    BY <1>1 DEF Begin
  <2>3. \A i \in Ids : ~Holds(r, i)
    BY <2>2 DEF IInv, HeldRowsFollow
  <2>4. x.choice.act = "none"
    BY <2>1 DEF NoChoice
  <2> HIDE DEF x
  <2> QED
    BY <2>1, <2>2, <2>3, <2>4, DecisionKeeps
<1>2. ASSUME NEW rec \in Records, Decide(r, rec) PROVE IInv'
  BY <1>2, DecideKeeps
<1>3. CASE Apply(r)
  <2>1. /\ run[r].at = "decided" /\ ~Blocked(r) /\ ~VersionTaken(r)
        /\ own' = [own EXCEPT ![r][run[r].choice.id] = Written(r)]
        /\ run' = [run EXCEPT ![r].at = "open", ![r].choice = NoChoice]
        /\ UNCHANGED rows
    BY <1>3 DEF Apply, Violates
  <2>2. \A q \in Runs \ {r} : ~Holds(q, run[r].choice.id)
    <3>1. run[r].choice.act \in {"create", "update"}
      BY <1>0, <2>1 DEF IInv, ChoicesStand, Run, Choice
    <3>2. CASE run[r].choice.act = "update"
      BY <2>1, <3>2 DEF Blocked, WaitsFor
    <3>3. CASE run[r].choice.act = "create"
      BY <2>1, <3>3 DEF IInv, ChoicesStand, CreationStands
    <3> QED
      BY <3>1, <3>2, <3>3
  <2> QED
    BY <2>1, <2>2, WrittenIsSound, ApplyKeeps
<1>4. CASE FlushFails(r) \/ DeadlockVictim(r)
  <2> DEFINE x == [run[r] EXCEPT !.at = "poisoned", !.choice = NoChoice]
  <2>1. x \in Run /\ x.at = "poisoned" /\ x.choice = NoChoice
    BY <1>0, IdleIsRun DEF Run
  <2>2. /\ run' = [run EXCEPT ![r] = x]
        /\ own' = [own EXCEPT ![r] = [i \in Ids |-> Absent]] /\ rows' = rows
    BY <1>0, <1>4 DEF FlushFails, DeadlockVictim
  <2> HIDE DEF x
  <2> QED
    BY <2>1, <2>2, EndKeeps
<1>5. CASE Crash(r)
  <2>1. run' = [run EXCEPT ![r] = IdleRun] /\ UNCHANGED <<rows, own>> /\ run[r].at = "poisoned"
    BY <1>5 DEF Crash
  <2>2. \A i \in Ids : ~Holds(r, i)
    BY <2>1 DEF IInv, HeldRowsFollow
  <2> QED
    BY <2>1, <2>2, IdleIsRun, DecisionKeeps DEF IdleRun, NoChoice
<1>6. CASE Commit(r) \/ Lost(r)
  <2>1. /\ run' = [run EXCEPT ![r] = IdleRun]
        /\ own' = [own EXCEPT ![r] = [i \in Ids |-> Absent]] /\ rows' \in {rows, View(r)}
    BY <1>6 DEF Commit, Lost
  <2>2. IdleRun.at = "idle" /\ IdleRun.choice = NoChoice
    BY DEF IdleRun
  <2> QED
    BY <2>1, <2>2, IdleIsRun, EndKeeps
<1> QED
  BY <1>1, <1>2, <1>3, <1>4, <1>5, <1>6

(***************************************************************************)
(* IInv is an invariant, and with it the promises of the catalogue.        *)
(***************************************************************************)
THEOREM Invariance == Spec => []IInv
<1>1. IInv /\ [Next]_vars => IInv'
  <2> SUFFICES ASSUME IInv, [Next]_vars PROVE IInv'
    OBVIOUS
  <2>1. CASE UNCHANGED vars
    BY <2>1 DEF vars, IInv, TypeOK, RowsAreSound, LocksExclude, HeldRowsFollow, ChoicesStand,
                MergeStands, CreationStands, Holds, View
  <2>2. CASE Next
    BY <2>2, StepKeeps DEF Next
  <2> QED
    BY <2>1, <2>2
<1> QED
  BY <1>1, InitIsSound, PTL DEF Spec

\* Rows, runs and their copies keep their types: no update exceeds the versions
\* it was allowed, and a merge writes values of records only.
THEOREM TypeCorrect == Spec => []TypeOK
<1>1. IInv => TypeOK
  BY DEF IInv
<1> QED
  BY <1>1, Invariance, PTL

\* However runs overlap, conflict and fail, the version history of a committed
\* row has neither gap nor fork and ends in the row (VersionService and the
\* constraint on (opportunity_id, version)).
THEOREM HistoriesAreComplete == Spec => []HistoryIsComplete
<1>1. IInv => HistoryIsComplete
  BY DEF IInv, RowsAreSound, Sound, HistoryIsComplete
<1> QED
  BY <1>1, Invariance, PTL

\* No layer of the deduplicator, even on a stale copy, merges a record with
\* another published reference into a row that stores a normalised one.
THEOREM ReferencesMatch == Spec => []ReferenceMatchesNorm
<1>1. IInv => ReferenceMatchesNorm
  BY DEF IInv, RowsAreSound, Sound, ReferenceMatchesNorm
<1> QED
  BY <1>1, Invariance, PTL

\* A run that commits has written to rows of its own source or municipality only,
\* whichever layer found them (Deduplicator).
THEOREM IssuersStayApart == Spec => IssuersNeverMix
<1> DEFINE A == \A r \in Runs, i \in Ids :
                   Exists(rows[i]) /\ run[r].at = "open" /\ run'[r].at = "idle"
                      /\ rows'[i] # rows[i] =>
                     \/ rows[i].source = run[r].source
                     \/ Muni[run[r].source] # None /\ Muni[rows[i].source] = Muni[run[r].source]
<1>1. IInv /\ [Next]_vars => [A]_vars
  <2> SUFFICES ASSUME IInv, Next, NEW r \in Runs, NEW i \in Ids,
                      Exists(rows[i]), run[r].at = "open", run'[r].at = "idle", rows'[i] # rows[i]
               PROVE  SameIssuer(run[r].source, rows[i])
    BY DEF SameIssuer
  <2>1. PICK q \in Runs : Commit(q)
    BY DEF Next, Begin, Decide, Apply, FlushFails, DeadlockVictim, Crash, Commit, Lost
  <2>2. q = r
    <3>1. run' = [run EXCEPT ![q] = IdleRun] /\ run \in [Runs -> Run]
      BY <2>1 DEF Commit, IInv, TypeOK
    <3> QED
      BY <3>1
  <2>3. rows'[i] = View(r)[i]
    BY <2>1, <2>2 DEF Commit
  <2>4. Holds(r, i)
    BY <2>3, ViewIsSound
  <2> QED
    BY <2>4 DEF IInv, HeldRowsFollow, Follows, SameIssuer
<1> QED
  BY <1>1, Invariance, PTL DEF Spec, IssuersNeverMix

(***************************************************************************)
(* The refinement of TenderHistory.                                        *)
(***************************************************************************)

\* A number of a sound row is the number of one version only.
LEMMA OneOfEach ==
  ASSUME NEW row \in Row, Numbered(row),
         NEW v \in row.versions, NEW w \in row.versions, v[1] = w[1]
  PROVE  v = w
<1> DEFINE S == row.versions
           T == 1..row.version
           f == [x \in S |-> x[1]]
<1>1. IsFiniteSet(S) /\ Cardinality(S) = row.version /\ row.version \in Nat /\ {x[1] : x \in S} = T
  BY RowFields DEF Numbered
<1>2. Cardinality(T) = row.version
  BY <1>1, FS_Interval
<1>3. f \in Surjection(S, T)
  <2>1. f \in [S -> T]
    BY <1>1
  <2>2. \A y \in T : \E x \in S : f[x] = y
    BY <1>1
  <2> QED
    BY <2>1, <2>2 DEF Surjection
<1>4. f \in Injection(S, T)
  BY <1>1, <1>2, <1>3, FS_SurjSameCardinalityImpliesInj
<1> QED
  BY <1>4 DEF Injection, IsInjective

\* The history of a sound row holds the record of every version in its place.
LEMMA HistoryOf ==
  ASSUME NEW row \in Row, Numbered(row)
  PROVE  /\ History(row) \in Seq(Snapshots) /\ Len(History(row)) = row.version
         /\ DOMAIN History(row) = 1..row.version
         /\ \A v \in row.versions : v[1] \in 1..row.version /\ History(row)[v[1]] = v[2]
         /\ \A n \in 1..row.version : \E v \in row.versions : v[1] = n /\ History(row)[n] = v[2]
<1>1. row.version \in Nat /\ row.versions \subseteq (1..MaxVersion) \X Snapshots
  BY RowFields
<1>2. ASSUME NEW n \in 1..row.version
      PROVE  \E v \in row.versions : v[1] = n /\ History(row)[n] = v[2]
  <2>1. \E v \in row.versions : v[1] = n
    BY DEF Numbered
  <2> QED
    BY <2>1 DEF History
<1>3. ASSUME NEW v \in row.versions
      PROVE  v[1] \in 1..row.version /\ History(row)[v[1]] = v[2]
  <2>1. v[1] \in 1..row.version
    BY DEF Numbered
  <2>2. PICK w \in row.versions : w[1] = v[1] /\ History(row)[v[1]] = w[2]
    BY <1>2, <2>1
  <2> QED
    BY <2>1, <2>2, OneOfEach
<1>4. DOMAIN History(row) = 1..row.version
  BY DEF History
<1>5. \A n \in 1..row.version : History(row)[n] \in Snapshots
  BY <1>1, <1>2
<1>6. History(row) \in [1..row.version -> Snapshots]
  BY <1>5 DEF History
<1>7. History(row) \in Seq(Snapshots) /\ Len(History(row)) = row.version
  BY <1>1, <1>6
<1> QED
  BY <1>2, <1>3, <1>4, <1>7

\* A sound row shows what its history tells.
LEMMA ShownIsTold ==
  ASSUME NEW row \in Row, Sound(row)
  PROVE  Published!Shown(History(row)) =
            [fields |-> [f \in Recorded |-> Value(row, f)], docs |-> row.docs]
<1> DEFINE h == History(row)
<1>1. /\ DOMAIN h = 1..row.version /\ row.version \in Nat
      /\ \A v \in row.versions : v[1] \in 1..row.version /\ h[v[1]] = v[2]
      /\ \A n \in 1..row.version : \E v \in row.versions : v[1] = n /\ h[n] = v[2]
  BY HistoryOf, RowFields DEF Sound
<1> HIDE DEF h
<1>2. ASSUME NEW f \in Recorded
      PROVE  Published!Told(h, f) = Value(row, f)
  <2> DEFINE known == {n \in DOMAIN h : h[n][f] # None}
  <2>1. Published!Told(h, f) =
           IF known = {} THEN None ELSE h[CHOOSE n \in known : \A m \in known : m <= n][f]
    BY DEF Published!Told
  <2>2. CASE Value(row, f) = None /\ \A v \in row.versions : v[2][f] = None
    <3>1. known = {}
      BY <1>1, <2>2
    <3> QED
      BY <2>1, <2>2, <3>1
  <2>3. ASSUME NEW v \in row.versions, LastToKnow(row, f, v), Value(row, f) = v[2][f]
        PROVE  Published!Told(h, f) = Value(row, f)
    <3>1. v[1] \in known /\ h[v[1]] = v[2]
      BY <1>1, <2>3 DEF LastToKnow
    <3>2. \A m \in known : m <= v[1]
      <4>1. SUFFICES ASSUME NEW m \in known, m > v[1] PROVE FALSE
        BY <1>1, <3>1
      <4>2. PICK w \in row.versions : w[1] = m /\ h[m] = w[2]
        BY <1>1
      <4> QED
        BY <4>1, <4>2, <2>3 DEF LastToKnow
    <3> DEFINE last == CHOOSE n \in known : \A m \in known : m <= n
    <3>3. last \in known /\ \A m \in known : m <= last
      BY <3>1, <3>2
    <3> HIDE DEF last
    <3>4. last = v[1]
      BY <1>1, <3>1, <3>2, <3>3
    <3>5. Published!Told(h, f) = h[last][f]
      BY <2>1, <3>1 DEF last
    <3> QED
      BY <3>1, <3>4, <3>5, <2>3
  <2> QED
    BY <2>2, <2>3 DEF Sound, ToldBy
<1>3. UNION {h[n].docs : n \in DOMAIN h} = row.docs
  <2>1. {h[n].docs : n \in DOMAIN h} = {v[2].docs : v \in row.versions}
    BY <1>1
  <2> QED
    BY <2>1 DEF Sound
<1> QED
  BY <1>2, <1>3 DEF Published!Shown, h

\* A tender nobody has published has no history.
LEMMA NoHistory ==
  ASSUME NEW row \in Row, Numbered(row)
  PROVE  History(row) = <<>> <=> ~Exists(row)
<1>1. Len(History(row)) = row.version /\ History(row) \in Seq(Snapshots) /\ row.version \in Nat
  BY HistoryOf, RowFields
<1> QED
  BY <1>1 DEF Exists

\* What grows out of a row has a longer history that begins like the row's.
LEMMA HistoryGrows ==
  ASSUME NEW old \in Row, NEW new \in Row, Numbered(old), Numbered(new), Follows(old, new)
  PROVE  Published!Extends(History(old), History(new))
<1>1. /\ DOMAIN History(old) = 1..old.version /\ Len(History(old)) = old.version
      /\ Len(History(new)) = new.version /\ old.version \in Nat /\ new.version \in Nat
      /\ \A n \in 1..old.version : \E v \in old.versions : v[1] = n /\ History(old)[n] = v[2]
      /\ \A v \in new.versions : History(new)[v[1]] = v[2]
  BY HistoryOf, RowFields
<1>2. CASE Exists(old)
  <2>1. new.version >= old.version /\ old.versions \subseteq new.versions
    BY <1>2 DEF Follows
  <2>2. \A n \in 1..old.version : History(new)[n] = History(old)[n]
    BY <1>1, <2>1
  <2> QED
    BY <1>1, <2>1, <2>2 DEF Published!Extends
<1>3. CASE ~Exists(old)
  <2>1. old.version = 0
    BY <1>1, <1>3 DEF Exists
  <2> QED
    BY <1>1, <2>1 DEF Published!Extends
<1> QED
  BY <1>2, <1>3

LEMMA HistoryInit == Init => Published!Init
<1> SUFFICES ASSUME Init PROVE Published!Init
  OBVIOUS
<1>1. \A i \in Ids : rows[i] = Absent
  BY DEF Init
<1>2. History(Absent) = <<>> /\ Absent.source = None
  BY AbsentIsSound, NoHistory DEF Sound, Absent
<1>3. Published!Shown(<<>>) = [fields |-> [f \in Recorded |-> Value(Absent, f)], docs |-> Absent.docs]
  BY <1>2, AbsentIsSound, ShownIsTold
<1> QED
  BY <1>1, <1>2, <1>3 DEF Published!Init

\* A commit publishes for the source of its run, and nothing else does.
LEMMA CommitPublishes ==
  ASSUME IInv, NEW r \in Runs, Commit(r), NEW s \in Sources, s = run[r].source
  PROVE  Published!Publish(s)
<1>1. /\ rows' = View(r)
      /\ rows \in [Ids -> Row] /\ rows' \in [Ids -> Row]
  BY ViewIsSound DEF Commit, IInv, TypeOK
<1>2. ASSUME NEW i \in Ids
      PROVE  /\ rows[i] \in Row /\ Sound(rows[i]) /\ Numbered(rows[i])
             /\ rows'[i] \in Row /\ Sound(rows'[i]) /\ Numbered(rows'[i])
             /\ Follows(rows[i], rows'[i])
  BY <1>1, ViewIsSound DEF IInv, RowsAreSound, Sound
<1>3. ASSUME NEW i \in Ids
      PROVE  /\ History(rows'[i]) \in Seq(Snapshots)
             /\ rows'[i].source \in Sources \cup {None}
             /\ Published!Shown(History(rows'[i])) =
                   [fields |-> [f \in Recorded |-> Value(rows'[i], f)], docs |-> rows'[i].docs]
             /\ Published!Extends(History(rows[i]), History(rows'[i]))
  BY <1>2, HistoryOf, ShownIsTold, HistoryGrows DEF Row
<1>4. ASSUME NEW i \in Ids
      PROVE  /\ History(rows[i]) # <<>> => rows'[i].source = rows[i].source
             /\ IF History(rows'[i]) = History(rows[i]) THEN rows'[i].source = rows[i].source
                ELSE Published!Akin(s, rows'[i].source)
  <2>1. History(rows[i]) # <<>> => rows'[i].source = rows[i].source
    BY <1>2, NoHistory DEF Follows
  <2>2. CASE rows'[i] = rows[i]
    BY <2>2
  <2>3. CASE rows'[i] # rows[i]
    <3>1. Holds(r, i) /\ rows'[i] = own[r][i]
      BY <1>1, <2>3, ViewIsSound
    <3>2. Exists(rows'[i]) /\ SameIssuer(s, rows'[i])
      BY <3>1 DEF IInv, HeldRowsFollow, Holds
    <3>3. History(rows'[i]) # <<>>
      BY <1>2, <3>2, NoHistory
    <3> QED
      BY <2>1, <3>2, <3>3 DEF SameIssuer, Published!Akin
  <2> QED
    BY <2>1, <2>2, <2>3
<1> QED
  BY <1>3, <1>4 DEF Published!Publish

\* To its readers the catalogue is a TenderHistory: every commit is a publication
\* of one issuer, every other step a stutter.
THEOREM CatalogueIsAHistory == Spec => HistorySpec
<1>1. IInv /\ [Next]_vars => [Published!Next]_(Published!historyVars)
  <2> SUFFICES ASSUME IInv, [Next]_vars, rows' # rows PROVE Published!Next
    BY DEF Published!historyVars
  <2>1. PICK r \in Runs : Commit(r)
    BY DEF Next, vars, Begin, Decide, Apply, FlushFails, DeadlockVictim, Crash, Lost
  <2>2. PICK s \in Sources : s = run[r].source
    BY <2>1 DEF Commit, IInv, ChoicesStand
  <2>3. Published!Publish(s)
    BY <2>1, <2>2, CommitPublishes
  <2> QED
    BY <2>3 DEF Published!Next
<1> QED
  BY <1>1, HistoryInit, Invariance, PTL DEF Spec, HistorySpec, Published!Spec
=============================================================================
