------------------------ MODULE DocumentStoreProofs ------------------------
(***************************************************************************)
(* IInv of DocumentStore is inductive.  A step puts something else into    *)
(* one batch's hands (WorkKeeps), or flushes one row under its lock        *)
(* (RowKeeps), or ends one batch with or without a commit (EndKeeps); what *)
(* the other batches have read can only have grown.  The argument about    *)
(* rows is in FlushedIsSound: numbers are 1..n, a batch that read 1..k     *)
(* flushes k+1 <= n+1, and there are no more numbers than contents.        *)
(***************************************************************************)
EXTENDS DocumentStore, FiniteSetTheorems, TLAPS

(***************************************************************************)
(* Rows.                                                                   *)
(***************************************************************************)
LEMMA KnownAreFinite ==
  ASSUME NEW row \in Row
  PROVE  /\ Known(row) \subseteq Contents
         /\ IsFiniteSet(Known(row))
         /\ Cardinality(Known(row)) \in Nat
         /\ Cardinality(Contents) \in Nat
         /\ Cardinality(Known(row)) <= Cardinality(Contents)
         /\ \A c \in Contents \ Known(row) : Cardinality(Known(row)) + 1 <= Cardinality(Contents)
<1>1. Known(row) \subseteq Contents
  BY DEF Known, Row
<1>2. IsFiniteSet(Known(row)) /\ Cardinality(Known(row)) <= Cardinality(Contents)
  BY <1>1, FS_Subset, ContentsAssumption
<1>3. Cardinality(Known(row)) \in Nat /\ Cardinality(Contents) \in Nat
  BY <1>2, FS_CardinalityType, ContentsAssumption
<1>4. ASSUME NEW c \in Contents \ Known(row)
      PROVE  Cardinality(Known(row)) + 1 <= Cardinality(Contents)
  <2>1. Cardinality(Known(row) \cup {c}) = Cardinality(Known(row)) + 1
    BY <1>2, FS_AddElement
  <2>2. Cardinality(Known(row) \cup {c}) <= Cardinality(Contents)
    BY <1>1, FS_Subset, ContentsAssumption
  <2> QED
    BY <2>1, <2>2
<1> QED
  BY <1>1, <1>2, <1>3, <1>4

\* The number a new content gets is the next one.
LEMMA NumberIsNext ==
  ASSUME NEW row \in Row, Sound(row), NEW c \in Contents \ Known(row)
  PROVE  NextNumber(row) \in Numbers /\ 1..(NextNumber(row) - 1) \subseteq Used(row)
<1>1. PICK n \in Numbers \cup {0} : Used(row) = 1..n
  BY DEF Sound, WellRecorded
<1>2. n \in Nat /\ n <= Cardinality(Known(row))
  BY <1>1, KnownAreFinite DEF Sound, Numbers
<1>3. NextNumber(row) = n + 1
  <2> DEFINE P(k) == k \in Used(row) \cup {0} /\ \A m \in Used(row) \cup {0} : m <= k
  <2>1. P(n) /\ \A k : P(k) => k = n
    BY <1>1, <1>2
  <2>2. n = CHOOSE k \in Used(row) \cup {0} : \A m \in Used(row) \cup {0} : m <= k
    BY <2>1
  <2> QED
    BY <2>2, <1>2 DEF NextNumber
<1>4. n + 1 <= Cardinality(Contents) /\ Cardinality(Contents) \in Nat
  BY <1>2, KnownAreFinite
<1> QED
  BY <1>1, <1>2, <1>3, <1>4 DEF Numbers

\* What Flush writes over a row, when x is the batch, is sound.
LEMMA FlushedIsSound ==
  ASSUME NEW row \in Row, Sound(row), NEW x \in Batch, x.content \in Contents,
         1..(x.number - 1) \subseteq Used(row),
         x.fresh => x.content \notin Known(row),
         ~x.fresh => x.number = 1 /\ x.content \in Known(row),
         x.text \in Contents => x.text = x.content
  PROVE  /\ Flushed(row, x) \in Row
         /\ Sound(Flushed(row, x))
         /\ row.versions \subseteq Flushed(row, x).versions
         /\ Flushed(row, x).sha = x.content
<1> PICK new : new = Flushed(row, x)
  OBVIOUS
<1>1. /\ row.versions \in SUBSET (Numbers \X Contents)
      /\ x.number \in Numbers /\ x.fresh \in BOOLEAN
      /\ x.text \in Contents \cup {"torn", None}
  BY DEF Row, Batch
<1>2. /\ new \in Row
      /\ new.down = TRUE
      /\ new.sha = x.content
      /\ new.version = IF x.number = 1 THEN row.version ELSE x.number
      /\ new.versions = IF x.fresh THEN row.versions \cup {<<x.number, x.content>>} ELSE row.versions
      /\ new.text = IF x.text \in {None, x.seen} THEN row.text ELSE x.text
  <2> DEFINE version == IF x.number = 1 THEN row.version ELSE x.number
             versions == IF x.fresh THEN row.versions \cup {<<x.number, x.content>>} ELSE row.versions
             text == IF x.text \in {None, x.seen} THEN row.text ELSE x.text
  <2>1. new = [row EXCEPT !.down = TRUE, !.sha = x.content, !.version = version,
                          !.versions = versions, !.text = text]
    BY DEF Flushed
  <2>2. version \in Numbers /\ versions \in SUBSET (Numbers \X Contents)
        /\ text \in Contents \cup {"torn", None}
    BY <1>1 DEF Row
  <2> HIDE DEF version, versions, text
  <2>3. /\ new \in Row /\ new.down = TRUE /\ new.sha = x.content /\ new.version = version
        /\ new.versions = versions /\ new.text = text
    BY <2>1, <2>2 DEF Row
  <2> QED
    BY <2>3 DEF version, versions, text
<1>3. PICK n \in Numbers \cup {0} : Used(row) = 1..n
  BY DEF Sound, WellRecorded
<1>4. /\ n \in Nat /\ Cardinality(Contents) \in Nat /\ x.number \in Nat /\ x.number > 0
      /\ Cardinality(Known(row)) \in Nat
      /\ n <= Cardinality(Known(row)) /\ x.number <= n + 1
  <2>1. n \in Nat /\ x.number \in Nat /\ x.number > 0 /\ Cardinality(Contents) \in Nat
    BY <1>1, KnownAreFinite DEF Numbers
  <2>2. n <= Cardinality(Known(row))
    BY <1>3, <2>1, KnownAreFinite DEF Sound
  <2>3. x.number - 1 <= n
    BY <1>3, <2>1
  <2> QED
    BY <2>1, <2>2, <2>3, KnownAreFinite
<1>5. CASE x.fresh
  <2>1. Used(new) = Used(row) \cup {x.number} /\ Known(new) = Known(row) \cup {x.content}
    <3> DEFINE pair == <<x.number, x.content>>
    <3>1. new.versions = row.versions \cup {pair}
      BY <1>2, <1>5
    <3>0. pair[1] = x.number /\ pair[2] = x.content
      OBVIOUS
    <3> HIDE DEF pair
    <3>2. Used(new) = Used(row) \cup {x.number}
      BY <3>0, <3>1 DEF Used
    <3>3. Known(new) = Known(row) \cup {x.content}
      BY <3>0, <3>1 DEF Known
    <3> QED
      BY <3>2, <3>3
  <2>2. Cardinality(Known(new)) = Cardinality(Known(row)) + 1
    BY <2>1, <1>5, KnownAreFinite, FS_AddElement
  <2>3. \E k \in Numbers \cup {0} : Used(new) = 1..k
    <3>1. CASE x.number <= n
      BY <3>1, <2>1, <1>3, <1>4
    <3>2. CASE x.number = n + 1
      <4>1. Used(new) = 1..x.number
        BY <3>2, <2>1, <1>3, <1>4
      <4> QED
        BY <4>1, <1>1
    <3>3. x.number <= n \/ x.number = n + 1
      BY <1>4
    <3> QED
      BY <3>1, <3>2, <3>3
  <2>4. \A k \in Used(new) : k <= Cardinality(Known(new))
    BY <2>1, <2>2, <1>3, <1>4
  <2>5. new.sha \in Known(new) /\ new.version \in Used(new)
    <3>1. CASE x.number = 1
      <4>1. row.version = 1 \/ row.version \in Used(row)
        BY DEF Sound, WellRecorded
      <4> QED
        BY <4>1, <3>1, <2>1, <1>2
    <3>2. CASE x.number # 1
      BY <3>2, <2>1, <1>2
    <3> QED
      BY <3>1, <3>2
  <2>6. new.text \in Contents => new.text \in Known(new)
    BY <2>1, <1>2 DEF Sound, WellRecorded
  <2> QED
    BY <2>3, <2>4, <2>5, <2>6, <1>2, <1>5 DEF Sound, WellRecorded
<1>6. CASE ~x.fresh
  <2>1. Used(new) = Used(row) /\ Known(new) = Known(row)
    BY <1>2, <1>6 DEF Used, Known
  <2>2. row.versions # {}
    BY <1>6 DEF Known
  <2>3. row.down = TRUE /\ row.version \in Used(row)
    BY <2>2 DEF Sound, WellRecorded, Row
  <2>4. new.sha \in Known(new) /\ new.version \in Used(new)
    BY <2>1, <2>3, <1>2, <1>6
  <2>5. new.text \in Contents => new.text \in Known(new)
    BY <2>1, <1>2, <1>6 DEF Sound, WellRecorded
  <2> QED
    BY <2>1, <2>4, <2>5, <1>2, <1>3, <1>6 DEF Sound, WellRecorded
<1> QED
  BY <1>1, <1>2, <1>5, <1>6

(***************************************************************************)
(* Initial states.                                                         *)
(***************************************************************************)
LEMMA OneIsANumber == 1 \in Numbers
<1>1. Cardinality(Contents) \in Nat /\ Cardinality(Contents) # 0
  BY FS_CardinalityType, FS_EmptySet, ContentsAssumption
<1> QED
  BY <1>1 DEF Numbers

\* A worker without a batch is one of the batches.
LEMMA IdleIsBatch == Idle \in Batch
  BY OneIsANumber DEF Idle, Batch, Failure

\* A document that was only discovered is a sound row.
LEMMA DiscoveredIsSound == Discovered \in Row /\ Sound(Discovered)
<1>1. Discovered \in Row
  BY OneIsANumber DEF Discovered, Row, Failure
<1>2. Used(Discovered) = {} /\ Known(Discovered) = {}
  BY DEF Discovered, Used, Known
<1>3. {} = 1..0
  OBVIOUS
<1>4. Discovered.down = FALSE /\ Discovered.version = 1 /\ Discovered.versions = {}
      /\ Discovered.text = None
  BY DEF Discovered
<1> QED
  BY <1>1, <1>2, <1>3, <1>4, NoneAssumption DEF Sound, WellRecorded

\* The empty store is sound.
LEMMA InitIsSound == Init => IInv
<1> SUFFICES ASSUME Init PROVE IInv
  OBVIOUS
<1>1. TypeOK
  BY DiscoveredIsSound, IdleIsBatch, BoundAssumption DEF Init, TypeOK, Nothing
<1>2. RowsAreSound /\ LocksExclude
  BY DiscoveredIsSound DEF Init, RowsAreSound, LocksExclude, Holds, Nothing
<1>3. KeysExist
  BY DEF Init, KeysExist, Holds, Nothing, Discovered, Idle
<1>4. DecisionsStand /\ PartialBlobsAreExplained
  BY NoneAssumption DEF Init, DecisionsStand, Stands, Idle, PartialBlobsAreExplained
<1> QED
  BY <1>1, <1>2, <1>3, <1>4 DEF IInv

(***************************************************************************)
(* Steps.                                                                  *)
(***************************************************************************)
LEMMA ViewIsSound ==
  ASSUME IInv, NEW b \in Batches, NEW d \in Documents
  PROVE  /\ View(b, d) \in Row /\ Sound(View(b, d))
         /\ docs[d].versions \subseteq View(b, d).versions
         /\ View(b, d).down => blobs[View(b, d).sha] # "absent"
<1>1. CASE Holds(b, d)
  BY <1>1 DEF IInv, TypeOK, RowsAreSound, KeysExist, View, Holds
<1>2. CASE ~Holds(b, d)
  BY <1>2 DEF IInv, TypeOK, RowsAreSound, KeysExist, View
<1> QED
  BY <1>1, <1>2

\* All of IInv but the last conjunct.
Kept == TypeOK /\ RowsAreSound /\ KeysExist /\ LocksExclude /\ DecisionsStand

\* A step that flushes nothing and puts n into the hands of b.
LEMMA WorkKeeps ==
  ASSUME IInv, NEW b \in Batches, NEW n \in Batch, Stands(b, n),
         batch' = [batch EXCEPT ![b] = n],
         UNCHANGED <<docs, own>>,
         blobs' \in [Contents -> {"absent", "partial", "whole"}],
         \A c \in Contents : blobs[c] # "absent" => blobs'[c] # "absent",
         n.at \in {"stored", "flushing"} /\ n.doc \in Documents => blobs'[n.content] # "absent",
         broken' \subseteq Contents, losses' = losses
  PROVE  Kept'
<1>1. TypeOK'
  BY DEF IInv, TypeOK
<1>2. RowsAreSound' /\ LocksExclude'
  BY DEF IInv, RowsAreSound, LocksExclude, Holds
<1>3. KeysExist'
  <2>1. \A d \in Documents : docs[d].down => docs[d].sha \in Contents
    BY DEF IInv, TypeOK, Row, RowsAreSound, Sound, WellRecorded, Known
  <2>2. \A q \in Batches, d \in Documents : Holds(q, d) /\ own[q][d].down => own[q][d].sha \in Contents
    BY DEF IInv, TypeOK, Row, RowsAreSound, Sound, WellRecorded, Known, Holds
  <2>3. \A q \in Batches : batch[q].doc \in Documents => batch[q].content \in Contents
    BY DEF IInv, DecisionsStand, Stands
  <2>4. \A d \in Documents : docs'[d].down => blobs'[docs'[d].sha] # "absent"
    BY <2>1 DEF IInv, KeysExist
  <2>5. \A q \in Batches, d \in Documents : Holds(q, d)' /\ own'[q][d].down => blobs'[own'[q][d].sha] # "absent"
    BY <2>2 DEF IInv, KeysExist, Holds
  <2>6. \A q \in Batches : batch'[q].at \in {"stored", "flushing"} /\ batch'[q].doc \in Documents =>
           blobs'[batch'[q].content] # "absent"
    BY <2>3 DEF IInv, KeysExist, TypeOK
  <2> QED
    BY <2>4, <2>5, <2>6 DEF KeysExist
<1>4. DecisionsStand'
  <2>1. \A q \in Batches : batch'[q] = IF q = b THEN n ELSE batch[q]
    BY DEF IInv, TypeOK
  <2>2. \A q \in Batches, d \in Documents : View(q, d)' = View(q, d)
    BY DEF View, Holds
  <2> QED
    BY <2>1, <2>2 DEF IInv, DecisionsStand, Stands
<1> QED
  BY <1>1, <1>2, <1>3, <1>4 DEF Kept

\* A step of b that flushes row r of d under its lock.
LEMMA RowKeeps ==
  ASSUME IInv, NEW b \in Batches, NEW d \in Documents, Free(b, d),
         NEW n \in Batch, Stands(b, n),
         n.at \in {"stored", "flushing"} /\ n.doc \in Documents => blobs[n.content] # "absent",
         NEW r \in Row, Sound(r), View(b, d).versions \subseteq r.versions,
         r.down => blobs[r.sha] # "absent",
         own' = [own EXCEPT ![b][d] = r],
         batch' = [batch EXCEPT ![b] = n],
         UNCHANGED <<docs, blobs, broken, losses>>
  PROVE  Kept'
<1>1. \A q \in Batches, e \in Documents : own'[q][e] = IF q = b /\ e = d THEN r ELSE own[q][e]
  BY DEF IInv, TypeOK
<1>2. \A q \in Batches : batch'[q] = IF q = b THEN n ELSE batch[q]
  BY DEF IInv, TypeOK
<1>3. TypeOK'
  <2>1. own' \in [Batches -> [Documents -> Row \cup {None}]]
    BY <1>1 DEF IInv, TypeOK
  <2>2. batch' \in [Batches -> Batch]
    BY DEF IInv, TypeOK
  <2> QED
    BY <2>1, <2>2 DEF IInv, TypeOK
<1>4. RowsAreSound'
  BY <1>1, ViewIsSound DEF IInv, RowsAreSound, Holds
<1>5. KeysExist'
  BY <1>1, <1>2 DEF IInv, KeysExist, Holds
<1>6. LocksExclude'
  BY <1>1 DEF IInv, LocksExclude, Holds, Free
<1>7. DecisionsStand'
  <2>1. \A q \in Batches \ {b}, e \in Documents : View(q, e)' = View(q, e)
    BY <1>1 DEF View, Holds
  <2>2. \A q \in Batches \ {b} : Stands(q, batch[q])'
    BY <1>2, <2>1 DEF IInv, DecisionsStand, Stands
  <2>3. \A e \in Documents : View(b, e).versions \subseteq View(b, e)'.versions
    BY <1>1, NoRowAssumption DEF View, Holds
  <2>4. \A e \in Documents :
           Used(View(b, e)) \subseteq Used(View(b, e)') /\ Known(View(b, e)) \subseteq Known(View(b, e)')
    BY <2>3 DEF Used, Known
  <2>5. Stands(b, batch[b])'
    BY <1>2, <2>4 DEF Stands
  <2> QED
    BY <2>2, <2>5 DEF DecisionsStand
<1> QED
  BY <1>3, <1>4, <1>5, <1>6, <1>7 DEF Kept

\* A step that ends b and either commits all it has flushed or nothing.
LEMMA EndKeeps ==
  ASSUME IInv, NEW b \in Batches, Ends(b),
         docs' = docs \/ docs' = [d \in Documents |-> View(b, d)],
         blobs' = blobs, broken' \subseteq Contents, losses' \in 0..MaxLosses
  PROVE  Kept'
<1>1. \A q \in Batches : own'[q] = IF q = b THEN Nothing ELSE own[q]
  BY DEF IInv, TypeOK, Ends
<1>2. \A q \in Batches : batch'[q] = IF q = b THEN Idle ELSE batch[q]
  BY DEF IInv, TypeOK, Ends
<1>3. \A d \in Documents : docs'[d] = docs[d] \/ (Holds(b, d) /\ docs'[d] = own[b][d])
  BY DEF View
<1>4. \A d \in Documents : /\ docs'[d] \in Row /\ Sound(docs'[d])
                           /\ docs[d].versions \subseteq docs'[d].versions
                           /\ docs'[d].down => blobs[docs'[d].sha] # "absent"
  BY <1>3, ViewIsSound DEF IInv, TypeOK, RowsAreSound, KeysExist, Holds
<1>5. \A q \in Batches, d \in Documents :
         Holds(q, d)' => q # b /\ Holds(q, d) /\ own'[q][d] = own[q][d] /\ docs'[d] = docs[d]
  BY <1>1, <1>3 DEF Holds, Nothing, IInv, LocksExclude
<1>6. TypeOK'
  <2>1. docs' \in [Documents -> Row]
    BY <1>4 DEF IInv, TypeOK
  <2>2. own' \in [Batches -> [Documents -> Row \cup {None}]]
    BY DEF IInv, TypeOK, Ends, Nothing
  <2>3. batch' \in [Batches -> Batch]
    BY IdleIsBatch DEF IInv, TypeOK, Ends
  <2> QED
    BY <2>1, <2>2, <2>3 DEF IInv, TypeOK
<1>7. RowsAreSound'
  <2>1. \A d \in Documents : Sound(docs[d])'
    BY <1>4
  <2>2. \A q \in Batches, d \in Documents : Holds(q, d)' =>
           Sound(own'[q][d]) /\ docs'[d].versions \subseteq own'[q][d].versions
    BY <1>5 DEF IInv, RowsAreSound
  <2> QED
    BY <2>1, <2>2 DEF RowsAreSound
<1>8. KeysExist'
  <2>1. \A q \in Batches, d \in Documents : Holds(q, d)' /\ own'[q][d].down => blobs'[own'[q][d].sha] # "absent"
    BY <1>5 DEF IInv, KeysExist
  <2>2. \A q \in Batches : batch'[q].at \in {"stored", "flushing"} /\ batch'[q].doc \in Documents =>
           blobs'[batch'[q].content] # "absent"
    BY <1>2 DEF IInv, KeysExist, Idle
  <2> QED
    BY <1>4, <2>1, <2>2 DEF KeysExist
<1>9. LocksExclude'
  BY <1>5 DEF IInv, LocksExclude
<1>10. DecisionsStand'
  <2>1. \A q \in Batches \ {b}, d \in Documents : View(q, d).versions \subseteq View(q, d)'.versions
    <3>1. ASSUME NEW q \in Batches \ {b}, NEW d \in Documents, Holds(q, d)
          PROVE  View(q, d)' = View(q, d)
      BY <3>1, <1>1 DEF View, Holds
    <3>2. ASSUME NEW q \in Batches \ {b}, NEW d \in Documents, ~Holds(q, d)
          PROVE  View(q, d) = docs[d] /\ View(q, d)' = docs'[d]
      BY <3>2, <1>1 DEF View, Holds
    <3> QED
      BY <3>1, <3>2, <1>4
  <2>2. \A q \in Batches \ {b}, d \in Documents :
           Used(View(q, d)) \subseteq Used(View(q, d)') /\ Known(View(q, d)) \subseteq Known(View(q, d)')
    BY <2>1 DEF Used, Known
  <2>3. \A q \in Batches \ {b} : Stands(q, batch[q])'
    BY <1>2, <2>2 DEF IInv, DecisionsStand, Stands
  <2>4. Stands(b, batch[b])'
    BY <1>2, NoneAssumption DEF Stands, Idle
  <2> QED
    BY <2>3, <2>4 DEF DecisionsStand
<1> QED
  BY <1>6, <1>7, <1>8, <1>9, <1>10 DEF Kept

\* What b has in hand has its type, and so does the batch that goes on to the
\* next document.
LEMMA BatchIsBatch ==
  ASSUME IInv, NEW b \in Batches
  PROVE  /\ batch[b] \in Batch
         /\ Stands(b, batch[b])
         /\ batch[b].at \in {"stored", "flushing"} /\ batch[b].doc \in Documents =>
               blobs[batch[b].content] # "absent"
  BY DEF IInv, TypeOK, DecisionsStand, KeysExist

\* A document that fails is dropped from its batch, and what stands is kept.
LEMMA FailsKeeps ==
  ASSUME IInv, NEW b \in Batches, NEW d \in Documents, NEW kind \in Failures,
         Fails(b, d, kind), UNCHANGED <<docs, blobs, own, losses>>, broken' \subseteq Contents
  PROVE  Kept'
<1> DEFINE failed == [batch[b].failed EXCEPT ![d] = kind]
           n == [Idle EXCEPT !.at = "next", !.todo = batch[b].todo \ {d}, !.failed = failed]
<1>1. failed \in [Documents -> Failure]
  BY BatchIsBatch DEF Batch, Failure
<1> HIDE DEF failed
<1>2. n \in Batch /\ n.at = "next" /\ n.doc = None /\ n.todo = batch[b].todo \ {d} /\ n.failed = failed
  BY <1>1, IdleIsBatch, BatchIsBatch DEF Idle, Batch
<1>3. batch' = [batch EXCEPT ![b] = n]
  BY DEF Fails, failed
<1> HIDE DEF n
<1>4. Stands(b, n)
  <2>1. \A e \in batch[b].todo \ {d} : failed[e] = "none"
    BY BatchIsBatch DEF Stands, Batch, failed
  <2> QED
    BY <1>2, <2>1, NoneAssumption DEF Stands
<1> QED
  BY <1>2, <1>3, <1>4, WorkKeeps DEF IInv, TypeOK

\* The steps of a batch, and its death, keep IInv up to its last conjunct.
LEMMA StepKeeps ==
  ASSUME IInv, NEW b \in Batches, Work(b) \/ Lost(b)
  PROVE  Kept'
<1> USE DEF vars
<1>1. CASE Begin(b)
  <2> DEFINE n == [Idle EXCEPT !.at = "next", !.todo = Oldest(Limit)]
  <2>1. n \in Batch /\ n.at = "next" /\ n.doc = None /\ n.todo \subseteq Documents
        /\ n.failed = [d \in Documents |-> "none"]
    BY IdleIsBatch DEF Idle, Batch, Oldest
  <2>2. Stands(b, n)
    BY <2>1, NoneAssumption DEF Stands
  <2>3. batch' = [batch EXCEPT ![b] = n] /\ UNCHANGED <<docs, blobs, own, broken, losses>>
    BY <1>1 DEF Begin
  <2> HIDE DEF n
  <2> QED
    BY <2>1, <2>2, <2>3, WorkKeeps DEF IInv, TypeOK
<1>2. CASE NothingPending(b)
  BY <1>2 DEF NothingPending, IInv, Kept, TypeOK, RowsAreSound, KeysExist, LocksExclude,
             DecisionsStand, Stands, Holds, View
<1>3. ASSUME NEW d \in Documents, NEW kind \in Failures, DownloadFails(b, d, kind)
      PROVE  Kept'
  BY <1>3, FailsKeeps DEF DownloadFails, IInv, TypeOK
<1>4. ASSUME NEW d \in Documents, NEW c \in Contents, Download(b, d, c)
      PROVE  Kept'
  <2> DEFINE at == IF blobs[c] = "absent" THEN "opening" ELSE "stored"
             n == [batch[b] EXCEPT !.at = at, !.doc = d, !.content = c]
  <2>1. at \in {"opening", "stored"} /\ (at = "stored" => blobs[c] # "absent")
    OBVIOUS
  <2>2. batch' = [batch EXCEPT ![b] = n] /\ UNCHANGED <<docs, blobs, own, broken, losses>>
    BY <1>4 DEF Download, IInv, TypeOK
  <2> HIDE DEF at
  <2>3. n \in Batch /\ n.at = at /\ n.doc = d /\ n.content = c
        /\ n.todo = batch[b].todo /\ n.failed = batch[b].failed
    BY <2>1, BatchIsBatch DEF Batch
  <2> HIDE DEF n
  <2>4. Stands(b, n)
    BY <1>4, <2>1, <2>3, BatchIsBatch DEF Stands, Download, IsNext
  <2> QED
    BY <2>1, <2>2, <2>3, <2>4, WorkKeeps DEF IInv, TypeOK
<1>5. CASE OpenBlob(b)
  <2> DEFINE n == [batch[b] EXCEPT !.at = "writing"]
  <2>1. batch[b].at = "opening" /\ batch[b].doc \in Documents /\ batch[b].content \in Contents
    BY <1>5, BatchIsBatch DEF OpenBlob, Stands
  <2>2. n \in Batch /\ n.at = "writing" /\ n.doc = batch[b].doc /\ n.content = batch[b].content
        /\ n.todo = batch[b].todo /\ n.failed = batch[b].failed
    BY BatchIsBatch DEF Batch
  <2>3. batch' = [batch EXCEPT ![b] = n] /\ UNCHANGED <<docs, own, broken, losses>>
        /\ blobs' = [blobs EXCEPT ![batch[b].content] = "partial"]
    BY <1>5 DEF OpenBlob, IInv, TypeOK
  <2> HIDE DEF n
  <2>4. Stands(b, n)
    BY <2>1, <2>2, BatchIsBatch DEF Stands
  <2> QED
    BY <2>1, <2>2, <2>3, <2>4, WorkKeeps DEF IInv, TypeOK
<1>6. CASE CloseBlob(b)
  <2> DEFINE n == [batch[b] EXCEPT !.at = "stored"]
  <2>1. batch[b].at = "writing" /\ batch[b].doc \in Documents /\ batch[b].content \in Contents
    BY <1>6, BatchIsBatch DEF CloseBlob, Stands
  <2>2. n \in Batch /\ n.at = "stored" /\ n.doc = batch[b].doc /\ n.content = batch[b].content
        /\ n.todo = batch[b].todo /\ n.failed = batch[b].failed
    BY BatchIsBatch DEF Batch
  <2>3. batch' = [batch EXCEPT ![b] = n] /\ UNCHANGED <<docs, own, broken, losses>>
        /\ \E s \in {"partial", "whole"} : blobs' = [blobs EXCEPT ![batch[b].content] = s]
    BY <1>6 DEF CloseBlob, IInv, TypeOK
  <2> HIDE DEF n
  <2>4. Stands(b, n)
    BY <2>1, <2>2, BatchIsBatch DEF Stands
  <2>5. /\ blobs' \in [Contents -> {"absent", "partial", "whole"}]
        /\ blobs'[n.content] # "absent"
        /\ \A c \in Contents : blobs[c] # "absent" => blobs'[c] # "absent"
    BY <2>1, <2>2, <2>3 DEF IInv, TypeOK
  <2> QED
    BY <2>2, <2>3, <2>4, <2>5, WorkKeeps DEF IInv, TypeOK
<1>7. CASE BreakBlob(b)
  <2>1. batch[b].at = "writing" /\ batch[b].doc \in Documents /\ batch[b].content \in Contents
    BY <1>7, BatchIsBatch DEF BreakBlob, Stands
  <2>2. broken' \subseteq Contents
    BY <2>1, <1>7 DEF BreakBlob, IInv, TypeOK
  <2> QED
    BY <1>7, <2>1, <2>2, FailsKeeps, FailuresAssumption DEF BreakBlob
<1>8. ASSUME NEW d \in Documents, FlushError(b, d)
      PROVE  Kept'
  <2> DEFINE failed == [batch[b].failed EXCEPT ![d] = "none"]
             n == [batch[b] EXCEPT !.at = AfterWriting(b, d), !.failed = failed, !.queued = FALSE]
             r == [View(b, d) EXCEPT !.error = batch[b].failed[d]]
  <2>1. failed \in [Documents -> Failure] /\ batch[b].failed[d] \in Failure
    BY BatchIsBatch DEF Batch, Failure
  <2>2. batch' = [batch EXCEPT ![b] = n] /\ own' = [own EXCEPT ![b][d] = r]
    BY <1>8 DEF FlushError, IInv, TypeOK
  <2> HIDE DEF failed
  <2>3. /\ n \in Batch /\ n.at = AfterWriting(b, d) /\ n.doc = batch[b].doc
        /\ n.content = batch[b].content /\ n.fresh = batch[b].fresh /\ n.number = batch[b].number
        /\ n.text = batch[b].text /\ n.todo = batch[b].todo /\ n.failed = failed
    BY <2>1, BatchIsBatch DEF Batch, AfterWriting
  <2> HIDE DEF n
  <2>4. \/ n.at = "next" /\ n.doc = None
        \/ n.at = "flushing" /\ (n.doc \in Documents => batch[b].at = "flushing")
    <3>1. batch[b].doc \in Documents => batch[b].doc # d
      BY <1>8, BatchIsBatch DEF FlushError, InMemory, Stands
    <3>2. n.at = "next" => n.doc = None
      <4>1. d \in Unflushed(b) /\ (n.at = "next" => Unflushed(b) = {d})
        BY <1>8, <2>3 DEF AfterWriting, FlushError, Writes
      <4>2. batch[b].doc # None => batch[b].doc \in Documents /\ batch[b].doc \in Unflushed(b)
        BY BatchIsBatch DEF Unflushed, Batch
      <4> QED
        BY <4>1, <4>2, <3>1, <2>3
    <3>3. batch[b].doc \in Documents => batch[b].at = "flushing"
      BY <1>8, BatchIsBatch, NoneAssumption DEF FlushError, Writes, Flushing, Stands
    <3> QED
      BY <2>3, <3>2, <3>3 DEF AfterWriting
  <2>11. \A e \in batch[b].todo : failed[e] = "none"
    BY BatchIsBatch DEF Stands, Batch, failed
  <2>5. Stands(b, n)
    BY <2>3, <2>4, <2>11, BatchIsBatch, NoneAssumption DEF Stands
  <2>6. /\ r \in Row /\ r.down = View(b, d).down /\ r.sha = View(b, d).sha
        /\ r.version = View(b, d).version /\ r.versions = View(b, d).versions
        /\ r.text = View(b, d).text
    BY <2>1, ViewIsSound DEF Row
  <2> HIDE DEF r
  <2>7. Sound(r)
    BY <2>6, ViewIsSound DEF Sound, WellRecorded, Used, Known
  <2>8. View(b, d).versions \subseteq r.versions /\ (r.down => blobs[r.sha] # "absent")
    BY <2>6, ViewIsSound
  <2>9. Free(b, d) /\ UNCHANGED <<docs, blobs, broken, losses>>
    BY <1>8 DEF FlushError
  <2>10. n.at \in {"stored", "flushing"} /\ n.doc \in Documents => blobs[n.content] # "absent"
    BY <2>3, <2>4, BatchIsBatch
  <2> QED
    BY <2>2, <2>3, <2>5, <2>6, <2>7, <2>8, <2>9, <2>10, RowKeeps
<1>9. CASE LookUp(b)
  <2> DEFINE d == batch[b].doc
             c == batch[b].content
             row == View(b, d)
             fresh == c \notin Known(row)
             number == IF fresh THEN NextNumber(row) ELSE 1
  <2>1. d \in Documents /\ c \in Contents /\ blobs[c] # "absent" /\ row \in Row
    BY <1>9, BatchIsBatch, ViewIsSound DEF LookUp, Stands
  <2>2. number \in Numbers /\ 1..(number - 1) \subseteq Used(row)
    BY <2>1, ViewIsSound, NumberIsNext, OneIsANumber
  <2>3. fresh \in BOOLEAN /\ (~fresh => number = 1) /\ (~fresh => c \in Known(row))
    OBVIOUS
  <2>4. PICK text \in {None, c, "torn"} :
           batch' = [batch EXCEPT ![b] = [batch[b] EXCEPT !.at = "flushing", !.fresh = fresh,
                                            !.seen = row.text, !.text = text, !.number = number]]
    BY <1>9 DEF LookUp
  <2> DEFINE n == [batch[b] EXCEPT !.at = "flushing", !.fresh = fresh, !.seen = row.text,
                                   !.text = text, !.number = number]
  <2>5. row.text \in Contents \cup {"torn", None}
    BY <2>1 DEF Row
  <2> HIDE DEF fresh, number, row
  <2>6. n \in Batch /\ n.at = "flushing" /\ n.doc = d /\ n.content = c /\ n.fresh = fresh
        /\ n.text = text /\ n.number = number /\ n.todo = batch[b].todo /\ n.failed = batch[b].failed
    BY <2>1, <2>2, <2>3, <2>5, BatchIsBatch DEF Batch
  <2> HIDE DEF n
  <2>7. Stands(b, n)
    BY <2>1, <2>2, <2>3, <2>6, BatchIsBatch, NoneAssumption DEF Stands, row
  <2>8. UNCHANGED <<docs, blobs, own, broken, losses>>
    BY <1>9 DEF LookUp
  <2>9. batch' = [batch EXCEPT ![b] = n]
    BY <2>4 DEF n
  <2> QED
    BY <2>1, <2>6, <2>7, <2>8, <2>9, WorkKeeps DEF IInv, TypeOK
<1>10. CASE Flush(b)
  <2> DEFINE d == batch[b].doc
             x == batch[b]
             r == Flushed(View(b, d), x)
             n == [Idle EXCEPT !.at = AfterWriting(b, d), !.todo = x.todo \ {d}, !.failed = x.failed]
  <2>1. d \in Documents
    BY <1>10, BatchIsBatch DEF Flush, Writes, Unflushed, InMemory, Batch
  <2>2. x \in Batch /\ x.at = "flushing" /\ Stands(b, x) /\ x.content \in Contents
        /\ blobs[x.content] # "absent"
    BY <1>10, <2>1, BatchIsBatch, NoneAssumption DEF Flush, Writes, Flushing, Stands
  <2>3. /\ r \in Row /\ Sound(r) /\ View(b, d).versions \subseteq r.versions
        /\ r.sha = x.content
    <3>1. x.fresh => x.content \notin Known(View(b, d))
      BY <1>10 DEF Flush, Conflict
    <3>2. /\ 1..(x.number - 1) \subseteq Used(View(b, d))
          /\ ~x.fresh => x.number = 1 /\ x.content \in Known(View(b, d))
          /\ x.text \in Contents => x.text = x.content
      BY <2>1, <2>2 DEF Stands
    <3> QED
      BY <2>1, <2>2, <3>1, <3>2, ViewIsSound, FlushedIsSound
  <2>4. own' = [own EXCEPT ![b][d] = r] /\ batch' = [batch EXCEPT ![b] = n]
        /\ Free(b, d) /\ UNCHANGED <<docs, blobs, broken, losses>>
    BY <1>10 DEF Flush
  <2>5. n \in Batch /\ n.at \in {"next", "flushing"} /\ n.doc = None
        /\ n.todo = x.todo \ {d} /\ n.failed = x.failed
    <3>1. AfterWriting(b, d) \in {"next", "flushing"}
      BY DEF AfterWriting
    <3>2. x.todo \ {d} \in SUBSET Documents /\ x.failed \in [Documents -> Failure]
      BY BatchIsBatch DEF Batch
    <3> QED
      BY <3>1, <3>2, IdleIsBatch DEF Idle, Batch
  <2> HIDE DEF n, r
  <2>6. Stands(b, n)
    BY <2>2, <2>5, NoneAssumption DEF Stands
  <2> QED
    BY <2>1, <2>2, <2>3, <2>4, <2>5, <2>6, NoneAssumption, RowKeeps
<1>15. ASSUME NEW d \in Documents, Wait(b, d)
       PROVE  Kept'
  <2> DEFINE n == [batch[b] EXCEPT !.queued = TRUE]
  <2>1. /\ n \in Batch /\ n.at = batch[b].at /\ n.doc = batch[b].doc
        /\ n.content = batch[b].content /\ n.fresh = batch[b].fresh /\ n.number = batch[b].number
        /\ n.text = batch[b].text /\ n.todo = batch[b].todo /\ n.failed = batch[b].failed
    BY BatchIsBatch DEF Batch
  <2>2. batch' = [batch EXCEPT ![b] = n] /\ UNCHANGED <<docs, blobs, own, broken, losses>>
    BY <1>15 DEF Wait
  <2> HIDE DEF n
  <2>3. Stands(b, n)
    BY <2>1, BatchIsBatch DEF Stands
  <2> QED
    BY <2>1, <2>2, <2>3, BatchIsBatch, WorkKeeps DEF IInv, TypeOK
<1>11. CASE FlushFails(b)
  BY <1>11, EndKeeps DEF FlushFails, IInv, TypeOK
<1>12. CASE DeadlockVictim(b)
  BY <1>12, EndKeeps DEF DeadlockVictim, IInv, TypeOK
<1>13. CASE Commit(b)
  BY <1>13, EndKeeps DEF Commit, IInv, TypeOK
<1>14. CASE Lost(b)
  <2>1. batch[b].at = "writing" => batch[b].content \in Contents
    BY BatchIsBatch DEF Stands
  <2>2. broken' \subseteq Contents /\ losses' \in 0..MaxLosses
    BY <1>14, <2>1, BoundAssumption DEF Lost, IInv, TypeOK
  <2> QED
    BY <1>14, <2>2, EndKeeps DEF Lost
<1> QED
  BY <1>1, <1>2, <1>3, <1>4, <1>5, <1>6, <1>7, <1>8, <1>9, <1>10, <1>11, <1>12, <1>13, <1>14, <1>15 DEF Work

\* A blob becomes partial only by being opened, and whoever stops writing one
\* that is partial leaves it broken.
LEMMA StepExplains ==
  ASSUME IInv, NEW b \in Batches, Work(b) \/ Lost(b)
  PROVE  PartialBlobsAreExplained'
<1> DEFINE Fills(q, c) == batch[q].at = "writing" /\ batch[q].content = c
<1>1. \A q \in Batches \ {b} : batch'[q] = batch[q]
  BY DEF IInv, TypeOK, Work, Lost, Begin, NothingPending, vars, DownloadFails, Fails, Download, OpenBlob,
         CloseBlob, BreakBlob, Wait, FlushError, LookUp, Flush, FlushFails, DeadlockVictim, Commit, Ends
<1>2. \A q \in Batches \ {b}, c \in Contents : Fills(q, c) => Fills(q, c)'
  BY <1>1
<1>3. broken \subseteq broken'
  BY DEF Work, Lost, Begin, NothingPending, vars, DownloadFails, Download, OpenBlob,
         CloseBlob, BreakBlob, Wait, FlushError, LookUp, Flush, FlushFails, DeadlockVictim, Commit
<1>4. ASSUME blobs' = blobs, \A c \in Contents : Fills(b, c) => c \in broken'
      PROVE  PartialBlobsAreExplained'
  BY <1>2, <1>3, <1>4 DEF IInv, PartialBlobsAreExplained
<1>5. CASE batch[b].at # "writing" /\ ~OpenBlob(b)
  <2>1. blobs' = blobs
    BY <1>5 DEF Work, Lost, Begin, NothingPending, vars, DownloadFails, Download, OpenBlob,
         CloseBlob, BreakBlob, Wait, FlushError, LookUp, Flush, FlushFails, DeadlockVictim, Commit
  <2> QED
    BY <2>1, <1>4, <1>5
<1>6. CASE OpenBlob(b)
  <2>1. (\A e \in {batch[b].content} : Fills(b, e)') /\ blobs' = [blobs EXCEPT ![batch[b].content] = "partial"]
    BY <1>6, BatchIsBatch DEF OpenBlob, IInv, TypeOK, Batch
  <2>2. \A c \in Contents \ {batch[b].content} : blobs'[c] = blobs[c] /\ ~Fills(b, c)
    BY <1>6, <2>1 DEF OpenBlob, IInv, TypeOK
  <2>3. \A e \in Contents : blobs[e] = "partial" => e \in broken \/ \E q \in Batches : Fills(q, e)
    BY DEF IInv, PartialBlobsAreExplained
  <2> HIDE DEF Fills
  <2>4. \A e \in Contents : blobs'[e] = "partial" => e \in broken' \/ \E q \in Batches : Fills(q, e)'
    BY <2>1, <2>2, <2>3, <1>2, <1>3
  <2> QED
    BY <2>4 DEF PartialBlobsAreExplained, Fills
<1>7. CASE CloseBlob(b)
  <2> DEFINE c == batch[b].content
  <2>1. c \in Contents
    BY <1>7, BatchIsBatch DEF CloseBlob, Stands
  <2>2. \A e \in Contents \ {c} : blobs'[e] = blobs[e] /\ ~Fills(b, e)
    BY <1>7 DEF CloseBlob, IInv, TypeOK
  <2>3. blobs'[c] = "partial" => c \in broken \/ \E q \in Batches \ {b} : Fills(q, c)
    BY <1>7, <2>1 DEF CloseBlob, Contested, IInv, TypeOK
  <2>4. \A e \in Contents : blobs[e] = "partial" => e \in broken \/ \E q \in Batches : Fills(q, e)
    BY DEF IInv, PartialBlobsAreExplained
  <2> HIDE DEF Fills, c
  <2>5. \A e \in Contents : blobs'[e] = "partial" => e \in broken' \/ \E q \in Batches : Fills(q, e)'
    BY <2>2, <2>3, <2>4, <1>2, <1>3
  <2> QED
    BY <2>5 DEF PartialBlobsAreExplained, Fills
<1>8. CASE batch[b].at = "writing" /\ ~CloseBlob(b)
  <2>1. BreakBlob(b) \/ Lost(b)
    <3>1. \A d : ~Writes(b, d)
      BY <1>8 DEF Writes, Flushing
    <3>2. ~OpenBlob(b) /\ ~LookUp(b) /\ ~Commit(b) /\ ~Begin(b) /\ ~NothingPending(b)
      BY <1>8 DEF OpenBlob, LookUp, Commit, Begin, NothingPending
    <3>3. /\ \A d \in Documents, kind \in Failures : ~DownloadFails(b, d, kind)
          /\ \A d \in Documents, c \in Contents : ~Download(b, d, c)
      BY <1>8 DEF DownloadFails, Download, IsNext
    <3>4. ~Flush(b) /\ ~FlushFails(b) /\ \A d \in Documents : ~Wait(b, d) /\ ~FlushError(b, d)
      BY <3>1 DEF Flush, FlushFails, Wait, FlushError
    <3>5. ~DeadlockVictim(b)
      BY <3>1 DEF DeadlockVictim, WaitsFor
    <3> QED
      BY <1>8, <3>2, <3>3, <3>4, <3>5 DEF Work
  <2>2. blobs' = blobs /\ broken' = broken \cup {batch[b].content}
    BY <1>8, <2>1 DEF BreakBlob, Lost
  <2> QED
    BY <2>2, <1>4
<1> QED
  BY <1>5, <1>6, <1>7, <1>8

(***************************************************************************)
(* IInv is an invariant, and with it the promises of the store.            *)
(***************************************************************************)
THEOREM Invariance == Spec => []IInv
<1>1. IInv /\ [Next]_vars => IInv'
  <2> SUFFICES ASSUME IInv, [Next]_vars PROVE IInv'
    OBVIOUS
  <2>1. CASE UNCHANGED vars
    BY <2>1 DEF vars, IInv, TypeOK, RowsAreSound, KeysExist, LocksExclude, DecisionsStand, Stands,
                PartialBlobsAreExplained, Holds, View
  <2>2. ASSUME NEW b \in Batches, Work(b) \/ Lost(b)
        PROVE  IInv'
    BY <2>2, StepKeeps, StepExplains DEF Kept, IInv
  <2> QED
    BY <2>1, <2>2 DEF Next
<1> QED
  BY <1>1, InitIsSound, PTL DEF Spec

\* Rows, batches and blobs keep their types, whatever overlaps: no version
\* number exceeds the number of contents a document has had.
THEOREM TypeCorrect == Spec => []TypeOK
<1>1. IInv => TypeOK
  BY DEF IInv
<1> QED
  BY <1>1, Invariance, PTL

\* However batches overlap and their column-wise writes mix
\* (download_document), a downloaded document names one of its versions,
\* numbers leave no gap and the text is that of a version.
THEOREM DocumentsNameTheirVersions == Spec => []RecordsNameVersions
<1>1. IInv => RecordsNameVersions
  BY DEF IInv, RowsAreSound, Sound, RecordsNameVersions
<1> QED
  BY <1>1, Invariance, PTL

\* A missing or damaged blob of a downloaded document (open_write) is always
\* the work of somebody who is still writing it or broke off.
THEOREM DownloadedBlobsAreWhole == Spec => []BlobsAreWhole
<1>1. IInv => BlobsAreWhole
  <2> SUFFICES ASSUME IInv, NEW d \in Documents, docs[d].down
               PROVE  \/ blobs[docs[d].sha] = "whole"
                      \/ docs[d].sha \in broken
                      \/ \E b \in Batches : batch[b].at = "writing" /\ batch[b].content = docs[d].sha
    BY DEF BlobsAreWhole
  <2>1. docs[d].sha \in Contents
    BY DEF IInv, TypeOK, Row, RowsAreSound, Sound, WellRecorded, Known
  <2>2. blobs[docs[d].sha] \in {"partial", "whole"}
    BY <2>1 DEF IInv, TypeOK, KeysExist
  <2> QED
    BY <2>1, <2>2 DEF IInv, PartialBlobsAreExplained
<1> QED
  BY <1>1, Invariance, PTL
=============================================================================
