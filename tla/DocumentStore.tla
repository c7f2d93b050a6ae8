--------------------------- MODULE DocumentStore ---------------------------
(***************************************************************************)
(* Documents: links registered by the pipeline, downloaded by the cron     *)
(* task process_documents, stored under the hash of their bytes.  A batch  *)
(* is one database transaction over up to Limit pending documents; it      *)
(* writes blobs into a volume shared by all workers, outside of any        *)
(* transaction.  A tick does not look for a batch that is still open, so   *)
(* batches overlap, wait for each other's row locks and die half-way.      *)
(***************************************************************************)
EXTENDS Integers, FiniteSets

CONSTANTS
    Documents,   \* documents rows, all of them registered
    Batches,     \* process_documents executions that may be open at once
    Contents,    \* what the bytes of a download may be: a digest and a format
    Site,        \* contents a URL serves, one or the other at a time
    Rank,        \* order of created_at
    Key,         \* order of primary keys
    Limit,       \* limit of pending_downloads
    Failures,    \* how a download may fail: "transient" or "permanent"
    Refused,     \* downloads that the columns cannot hold: an ETag of more than
                 \* 200 characters, a file name of more than 400
    MaxLosses,   \* batches that die (a bound)
    None

ASSUME SiteAssumption == Site \in [Documents -> SUBSET Contents]
ASSUME OrderAssumption ==
    /\ Rank \in [Documents -> Nat] /\ Key \in [Documents -> Nat]
    /\ \A d, e \in Documents : Rank[d] = Rank[e] \/ Key[d] = Key[e] => d = e
ASSUME ContentsAssumption == IsFiniteSet(Contents) /\ Contents # {}
ASSUME FailuresAssumption == "transient" \in Failures /\ Failures \subseteq {"transient", "permanent"}
ASSUME RefusedAssumption == Refused \subseteq Documents \X Contents
ASSUME BoundAssumption == Limit \in Nat \ {0} /\ MaxLosses \in Nat
ASSUME NoneAssumption == None \notin Contents \cup Documents /\ "torn" \notin Contents

VARIABLES
    docs,     \* committed documents with their versions and text
    blobs,    \* the storage key of every content
    batch,    \* open batches
    own,      \* per batch: the rows it has flushed and not committed (and locked)
    broken,   \* history: contents whose writing broke off
    losses    \* batches lost so far

vars == <<docs, blobs, batch, own, broken, losses>>

----------------------------------------------------------------------------
(* Types.                                                                  *)

Failure == {"none"} \cup Failures

Numbers == 1..Cardinality(Contents)

\* `versions' holds document_versions rows, `text' what the document_text row
\* was extracted from.
Row == [down     : BOOLEAN,
        error    : Failure,
        sha      : Contents \cup {None},
        version  : Numbers,
        versions : SUBSET (Numbers \X Contents),
        text     : Contents \cup {"torn", None}]

ASSUME NoRowAssumption == None \notin Row

Discovered == [down |-> FALSE, error |-> "none", sha |-> None, version |-> 1,
               versions |-> {}, text |-> None]

\* `doc' is the document at hand, `failed' holds errors in memory, `seen' is
\* the text row found and `text' the text to be written, `queued' says that the
\* session waits for a row lock.
Batch == [at      : {"idle", "next", "opening", "writing", "stored", "flushing"},
          todo    : SUBSET Documents,
          doc     : Documents \cup {None},
          failed  : [Documents -> Failure],
          content : Contents \cup {None},
          fresh   : BOOLEAN,
          number  : Numbers,
          seen    : Contents \cup {"torn", None},
          text    : Contents \cup {"torn", None},
          queued  : BOOLEAN]

Idle == [at |-> "idle", todo |-> {}, doc |-> None, failed |-> [d \in Documents |-> "none"],
         content |-> None, fresh |-> FALSE, number |-> 1, seen |-> None, text |-> None,
         queued |-> FALSE]

Nothing == [d \in Documents |-> None]

TypeOK ==
    /\ docs \in [Documents -> Row]
    /\ blobs \in [Contents -> {"absent", "partial", "whole"}]
    /\ batch \in [Batches -> Batch]
    /\ own \in [Batches -> [Documents -> Row \cup {None}]]
    /\ broken \subseteq Contents
    /\ losses \in 0..MaxLosses

Init ==
    /\ docs = [d \in Documents |-> Discovered]
    /\ blobs = [c \in Contents |-> "absent"]
    /\ batch = [b \in Batches |-> Idle]
    /\ own = [b \in Batches |-> Nothing]
    /\ broken = {}
    /\ losses = 0

----------------------------------------------------------------------------
(* Rows and locks.                                                         *)

Holds(b, d) == own[b][d] # None

\* What a statement of batch b reads.
View(b, d) == IF Holds(b, d) THEN own[b][d] ELSE docs[d]

IsPending(d) == ~docs[d].down /\ docs[d].error = "none"

\* pending_downloads: the oldest ones.
Oldest(n) ==
    {d \in Documents :
        /\ IsPending(d)
        /\ Cardinality({e \in Documents : IsPending(e) /\ Rank[e] < Rank[d]}) < n}

IsNext(b, d) ==
    /\ batch[b].at = "next"
    /\ d \in batch[b].todo
    /\ \A e \in batch[b].todo : Rank[d] <= Rank[e]

InMemory(b) == {d \in Documents : batch[b].failed[d] # "none"}

\* The session does not autoflush: it writes what it has in memory when a
\* document is finished or the scope ends, row by row in the order of keys.
Flushing(b) == batch[b].at = "flushing" \/ (batch[b].at = "next" /\ batch[b].todo = {})

Unflushed(b) == InMemory(b) \cup ({batch[b].doc} \ {None})

Writes(b, d) ==
    /\ Flushing(b)
    /\ d \in Unflushed(b)
    /\ \A e \in Unflushed(b) : Key[d] <= Key[e]

\* PostgreSQL gives a row that becomes free to somebody who waits for it.
Free(b, d) ==
    \A q \in Batches \ {b} :
        ~Holds(q, d) /\ (batch[q].queued /\ Writes(q, d) => batch[b].queued)

AfterWriting(b, d) == IF Unflushed(b) = {d} THEN "next" ELSE "flushing"

\* The end of a batch that did not commit.
Ends(b) ==
    /\ batch' = [batch EXCEPT ![b] = Idle]
    /\ own' = [own EXCEPT ![b] = Nothing]

----------------------------------------------------------------------------
(* process_documents.                                                      *)

Begin(b) ==
    /\ batch[b].at = "idle"
    /\ Oldest(Limit) # {}
    /\ batch' = [batch EXCEPT ![b] = [Idle EXCEPT !.at = "next", !.todo = Oldest(Limit)]]
    /\ UNCHANGED <<docs, blobs, own, broken, losses>>

\* Returns without doing anything.
NothingPending(b) ==
    /\ batch[b].at = "idle"
    /\ Oldest(Limit) = {}
    /\ UNCHANGED vars

Fails_NotRecorded(b, d, kind) ==
    batch' = [batch EXCEPT ![b] = [Idle EXCEPT !.at = "next", !.todo = batch[b].todo \ {d},
                                               !.failed = batch[b].failed]]

\* Document d is left with an error, whatever the error is.
Fails(b, d, kind) ==
    batch' = [batch EXCEPT ![b] = [Idle EXCEPT !.at = "next", !.todo = batch[b].todo \ {d},
                                               !.failed = [batch[b].failed EXCEPT ![d] = kind]]]

\* The site, the URL or the bytes are refused.
DownloadFails(b, d, kind) ==
    /\ IsNext(b, d)
    /\ Fails(b, d, kind)
    /\ UNCHANGED <<docs, blobs, own, broken, losses>>

\* The bytes are in a temporary file and hashed; is their key there?
Download(b, d, c) ==
    /\ IsNext(b, d)
    /\ c \in Site[d]
    /\ batch' = [batch EXCEPT ![b].at = IF blobs[c] = "absent" THEN "opening" ELSE "stored",
                              ![b].doc = d, ![b].content = c]
    /\ UNCHANGED <<docs, blobs, own, broken, losses>>

\* Somebody else writes content c, or did not finish: what b writes may have a
\* hole where the other one truncated the file.
Contested(b, c) ==
    c \in broken \/ \E q \in Batches \ {b} : batch[q].at = "writing" /\ batch[q].content = c

OpenBlob_InBackground(b) ==
    /\ batch[b].at = "opening"
    /\ blobs' = [blobs EXCEPT ![batch[b].content] = "partial"]
    /\ batch' = [batch EXCEPT ![b].at = "stored"]
    /\ UNCHANGED <<docs, own, broken, losses>>

\* open_write truncates the file.
OpenBlob(b) ==
    /\ batch[b].at = "opening"
    /\ blobs' = [blobs EXCEPT ![batch[b].content] = "partial"]
    /\ batch' = [batch EXCEPT ![b].at = "writing"]
    /\ UNCHANGED <<docs, own, broken, losses>>

CloseBlob(b) ==
    LET c == batch[b].content
    IN  /\ batch[b].at = "writing"
        /\ \E s \in IF Contested(b, c) THEN {"partial", "whole"} ELSE {"whole"} :
              blobs' = [blobs EXCEPT ![c] = s]
        /\ batch' = [batch EXCEPT ![b].at = "stored"]
        /\ UNCHANGED <<docs, own, broken, losses>>

\* The volume is full: the exception is recorded like that of a download.
BreakBlob(b) ==
    /\ batch[b].at = "writing"
    /\ broken' = broken \cup {batch[b].content}
    /\ Fails(b, batch[b].doc, "transient")
    /\ UNCHANGED <<docs, blobs, own, losses>>

\* Somebody else has written the row and not yet committed.
Wait(b, d) ==
    /\ Writes(b, d)
    /\ ~batch[b].queued
    /\ \E q \in Batches \ {b} : Holds(q, d)
    /\ batch' = [batch EXCEPT ![b] = [batch[b] EXCEPT !.queued = TRUE]]
    /\ UNCHANGED <<docs, blobs, own, broken, losses>>

\* The UPDATE of a document that failed earlier in the batch.
FlushError(b, d) ==
    /\ Writes(b, d)
    /\ d \in InMemory(b)
    /\ Free(b, d)
    /\ own' = [own EXCEPT ![b][d] = [View(b, d) EXCEPT !.error = batch[b].failed[d]]]
    /\ batch' = [batch EXCEPT ![b] = [batch[b] EXCEPT !.at = AfterWriting(b, d), !.failed[d] = "none",
                                               !.queued = FALSE]]
    /\ UNCHANGED <<docs, blobs, broken, losses>>

Used(row) == {v[1] : v \in row.versions}
Known(row) == {v[2] : v \in row.versions}

NextNumber_StartsAtTwo(row) ==
    1 + CHOOSE n \in Used(row) \cup {1} : \A m \in Used(row) \cup {1} : m <= n

NextNumber(row) ==
    1 + CHOOSE n \in Used(row) \cup {0} : \A m \in Used(row) \cup {0} : m <= n

\* The versions and the text row are read; text is extracted from the blob, if
\* that works, when the content is new.
LookUp(b) ==
    LET row == View(b, batch[b].doc)
        c == batch[b].content
        fresh == c \notin Known(row)
    IN  /\ batch[b].at = "stored"
        /\ \E text \in {None} \cup (IF fresh THEN {IF blobs[c] = "whole" THEN c ELSE "torn"} ELSE {}) :
              batch' = [batch EXCEPT ![b] =
                          [batch[b] EXCEPT !.at = "flushing", !.fresh = fresh, !.seen = row.text,
                                           !.text = text,
                                           !.number = IF fresh THEN NextNumber(row) ELSE 1]]
        /\ UNCHANGED <<docs, blobs, own, broken, losses>>

\* uq_document_versions_document_sha256 or uq_document_text_document_id.
Conflict(b) ==
    LET x == batch[b]
    IN  \/ x.fresh /\ x.content \in Known(View(b, x.doc))
        \/ x.text # None /\ x.seen = None /\ View(b, x.doc).text # None

\* The database does not take the values of the document at hand, whenever asked.
Refuses(b) == <<batch[b].doc, batch[b].content>> \in Refused

\* Every batch loaded current_version 1 and no error, so these two columns, like
\* the text, are written only with another value.
Flushed(row, x) ==
    [row EXCEPT !.down = TRUE, !.sha = x.content,
                !.version = IF x.number = 1 THEN @ ELSE x.number,
                !.versions = IF x.fresh THEN @ \cup {<<x.number, x.content>>} ELSE @,
                !.text = IF x.text \in {None, x.seen} THEN @ ELSE x.text]

\* The UPDATE of the document at hand waits for the row, the INSERTs follow.
Flush(b) ==
    LET d == batch[b].doc
    IN  /\ Writes(b, d)
        /\ Free(b, d)
        /\ ~Conflict(b) /\ ~Refuses(b)
        /\ own' = [own EXCEPT ![b][d] = Flushed(View(b, d), batch[b])]
        /\ batch' = [batch EXCEPT ![b] = [Idle EXCEPT !.at = AfterWriting(b, d),
                                                      !.todo = batch[b].todo \ {d},
                                                      !.failed = batch[b].failed]]
        /\ UNCHANGED <<docs, blobs, broken, losses>>

\* IntegrityError or DataError: the handler that isolates a document needs
\* document.id, which the rolled back session cannot load; the exception ends
\* the batch, and no error is recorded.
FlushFails(b) ==
    /\ Writes(b, batch[b].doc)
    /\ Free(b, batch[b].doc)
    /\ Conflict(b) \/ Refuses(b)
    /\ Ends(b)
    /\ UNCHANGED <<docs, blobs, broken, losses>>

WaitsFor(b, q) == batch[b].queued /\ q # b /\ \E d \in Documents : Writes(b, d) /\ Holds(q, d)

\* PostgreSQL fails one of the batches that wait for each other in a circle.
DeadlockVictim(b) ==
    /\ \E circle \in SUBSET Batches :
          /\ b \in circle
          /\ \A q \in circle : /\ \E p \in circle : WaitsFor(q, p)
                               /\ \E p \in circle : WaitsFor(p, q)
    /\ Ends(b)
    /\ UNCHANGED <<docs, blobs, broken, losses>>

Commit(b) ==
    /\ batch[b].at = "next"
    /\ batch[b].todo = {}
    /\ InMemory(b) = {}
    /\ docs' = [d \in Documents |-> View(b, d)]
    /\ Ends(b)
    /\ UNCHANGED <<blobs, broken, losses>>

\* job_timeout expires, the worker dies or the database goes away.
Lost(b) ==
    /\ batch[b].at # "idle"
    /\ losses < MaxLosses
    /\ losses' = losses + 1
    /\ broken' = IF batch[b].at = "writing" THEN broken \cup {batch[b].content} ELSE broken
    /\ Ends(b)
    /\ UNCHANGED <<docs, blobs>>

Work(b) ==
    \/ Begin(b)
    \/ NothingPending(b)
    \/ \E d \in Documents, kind \in Failures : DownloadFails(b, d, kind)
    \/ \E d \in Documents, c \in Contents : Download(b, d, c)
    \/ OpenBlob(b)
    \/ CloseBlob(b)
    \/ BreakBlob(b)
    \/ \E d \in Documents : Wait(b, d) \/ FlushError(b, d)
    \/ LookUp(b)
    \/ Flush(b)
    \/ FlushFails(b)
    \/ DeadlockVictim(b)
    \/ Commit(b)

Next == \E b \in Batches : Work(b) \/ Lost(b)

Spec == Init /\ [][Next]_vars

\* Ticks come every five minutes, a worker goes on with its task and PostgreSQL
\* resolves deadlocks.  Only MaxLosses batches die.
Fairness == \A b \in Batches : WF_vars(Work(b))

FairSpec == Spec /\ Fairness

----------------------------------------------------------------------------
(* What the store promises.                                                *)

WellRecorded(row) ==
    /\ row.down => row.sha \in Known(row) /\ row.version \in Used(row)
    /\ \E n \in Numbers \cup {0} : Used(row) = 1..n
    /\ row.text \in Contents => row.text \in Known(row)

\* However batches overlap and their column-wise writes mix, a downloaded
\* document names one of its versions, version numbers leave no gap, and its
\* text was extracted from one of its versions.
RecordsNameVersions == \A d \in Documents : WellRecorded(docs[d])

\* The key of a downloaded document holds its bytes, unless somebody is still
\* writing them or a write of them once broke off.
BlobsAreWhole ==
    \A d \in Documents : docs[d].down =>
        \/ blobs[docs[d].sha] = "whole"
        \/ docs[d].sha \in broken
        \/ \E b \in Batches : batch[b].at = "writing" /\ batch[b].content = docs[d].sha

\* The backlog drains: no document stays pending for ever although batches
\* conflict, deadlock and die, unless batches keep meeting a download that the
\* database refuses.
BacklogDrains ==
    <>[](\A b \in Batches : ~Refuses(b)) =>
        \A d \in Documents : IsPending(d) ~> ~IsPending(d)

\* docs/DOCUMENTS.md:44 says that failures never raise, that the error is recorded
\* on the document and that the batch continues: a document that a batch has in
\* hand does not stay pending.
FailuresAreRecorded ==
    \A d \in Documents : (\E b \in Batches : batch[b].doc = d) ~> ~IsPending(d)

----------------------------------------------------------------------------
(* The inductive invariant behind these promises (DocumentStoreProofs).    *)

\* A row is well recorded, has no more numbers than contents and is untouched
\* until it is downloaded.
Sound(row) ==
    /\ WellRecorded(row)
    /\ \A n \in Used(row) : n <= Cardinality(Known(row))
    /\ ~row.down => row.version = 1 /\ row.versions = {}

RowsAreSound ==
    /\ \A d \in Documents : Sound(docs[d])
    /\ \A b \in Batches, d \in Documents : Holds(b, d) =>
          Sound(own[b][d]) /\ docs[d].versions \subseteq own[b][d].versions

\* The key of a downloaded document exists, also before its batch commits, and
\* so does the key of a content that was stored.
KeysExist ==
    /\ \A d \in Documents : docs[d].down => blobs[docs[d].sha] # "absent"
    /\ \A b \in Batches, d \in Documents : Holds(b, d) /\ own[b][d].down =>
          blobs[own[b][d].sha] # "absent"
    /\ \A b \in Batches : batch[b].at \in {"stored", "flushing"} /\ batch[b].doc \in Documents =>
          blobs[batch[b].content] # "absent"

LocksExclude ==
    \A b, q \in Batches, d \in Documents : Holds(b, d) /\ Holds(q, d) => b = q

\* What x has in hand, and what it has read of the versions, still holds when
\* batch b flushes it.
Stands(b, x) ==
    /\ x.at \in {"opening", "writing", "stored"} => x.doc \in Documents
    /\ x.at = "next" => x.doc = None
    /\ \A d \in x.todo : x.failed[d] = "none"
    /\ x.doc \in Documents =>
          /\ x.doc \in x.todo
          /\ x.content \in Contents
          /\ x.at = "flushing" =>
                /\ 1..(x.number - 1) \subseteq Used(View(b, x.doc))
                /\ ~x.fresh => x.number = 1 /\ x.content \in Known(View(b, x.doc))
                /\ x.text \in Contents => x.text = x.content

DecisionsStand == \A b \in Batches : Stands(b, batch[b])

\* A partial blob is being written, or its writing broke off.
PartialBlobsAreExplained ==
    \A c \in Contents : blobs[c] = "partial" =>
        c \in broken \/ \E b \in Batches : batch[b].at = "writing" /\ batch[b].content = c

IInv ==
    /\ TypeOK
    /\ RowsAreSound
    /\ KeysExist
    /\ LocksExclude
    /\ DecisionsStand
    /\ PartialBlobsAreExplained
=============================================================================
