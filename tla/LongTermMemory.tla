-------------------------- MODULE LongTermMemory --------------------------
(***************************************************************************)
(* The structured memory of a Workspace: canonical records with evidence,  *)
(* supersession and compensation (memory/structured.py), the search index  *)
(* that follows them through durable jobs, the semantic projection         *)
(* (memory/embeddings.py), recall (memory/retrieval.py), the profile file  *)
(* generated from the records and the one-way import of a legacy file.     *)
(*                                                                         *)
(* memory.sqlite3 and index.sqlite3 are separate databases: a transaction  *)
(* covers one of them, and a process may die between two.  The Gateway     *)
(* and the CLI open the same store, each with an index worker of its own.  *)
(* A record is named by its content: memory_id hashes scope, kind and      *)
(* content.  One scope is modelled.                                        *)
(***************************************************************************)
EXTENDS Naturals, FiniteSets, SequencesExt

CONSTANTS
    LmIds,       \* contents, and so records, of the scope
    LmLegacy,    \* the statements of the legacy file
    LmRefs,      \* source references of producers
    LmWorkers,   \* processes with an index worker
    PinLimit,    \* active pinned records of a scope (10 in the code)
    MaxLmWrites, \* bound: writes and compensations
    MaxLmEdits,  \* bound: hand edits of the profile
    MaxLmDeaths  \* bound: deaths of a process

ASSUME LmAssumption == /\ LmLegacy \subseteq LmIds /\ IsFiniteSet(LmIds)
                       /\ {PinLimit, MaxLmWrites, MaxLmEdits, MaxLmDeaths} \subseteq Nat

VARIABLES
    lmRecord,   \* memory_records with the sources of memory_evidence
    lmQueue,    \* memory_index_jobs not ready, oldest first: <<id, revision>>
    lmIndex,    \* memory_index: [rev, status]; memory_fts holds the active ones
    lmWork,     \* what each worker has claimed and read
    lmEmbed,    \* memory_embedding_jobs not ready, oldest first
    lmEmbedded, \* memory_embedding_jobs ready
    lmVector,   \* records with a row in memory_embeddings
    lmEmbWork,  \* the job the embedding worker awaits the provider for
    lmAsked,    \* the semantic candidates of a recall in progress
    lmRecalled, \* what the last recall selected
    lmDirty,    \* a projection job is open
    lmDigest,   \* memory_projection_state.content_hash: {} or {content}
    lmProfile,  \* the profile file: [by, of]
    lmEdited,   \* history: the hand edit made to a projected profile
    lmMigration,\* memory_migrations: status and statements still to import
    lmStale,    \* history: records indexed by two workers at once or lost with the index
    lmWrites, lmEdits, lmDeaths

lmIndexVars == <<lmIndex, lmWork, lmStale>>
lmVectorVars == <<lmEmbed, lmEmbedded, lmVector, lmEmbWork>>
lmRecallVars == <<lmAsked, lmRecalled>>
lmFileVars == <<lmDigest, lmProfile, lmEdited, lmEdits>>
lmVars == <<lmRecord, lmQueue, lmIndexVars, lmVectorVars, lmRecallVars, lmDirty, lmFileVars,
            lmMigration, lmWrites, lmDeaths>>

NoRow == [status |-> "none", rev |-> 0, single |-> FALSE, pinned |-> FALSE, by |-> "none",
          primary |-> "none", refs |-> {}, at |-> 0]
NoIndexRow == [rev |-> 0, status |-> "none"]
NoClaim == [stage |-> "idle", job |-> <<>>, row |-> NoIndexRow]
Known(records) == {i \in DOMAIN records : records[i].status # "none"}
LmActive(records) == {i \in DOMAIN records : records[i].status = "active"}

-----------------------------------------------------------------------------
(* Canonical records.                                                      *)

\* MemoryWriteRequest: replacing needs SINGLE cardinality and a subject; trusted is a
\* source and a confidence that may replace.  One subject is modelled.
LmRequests(ids, refs) ==
    {q \in [id : ids, ref : refs, single : BOOLEAN, replace : BOOLEAN, trusted : BOOLEAN, pinned : BOOLEAN] :
        q.replace => q.single}

\* The active single record of the subject, the latest when there are several.
Prior(records, q) ==
    LET singles == {i \in LmActive(records) : records[i].single} IN
    IF q.replace THEN {i \in singles : \A j \in singles : records[j].at <= records[i].at} ELSE {}

PinAllowed(records, q) ==
    q.pinned => Cardinality({i \in LmActive(records) : records[i].pinned}) < PinLimit

\* A duplicate only gains evidence, whatever its status.
WithEvidence(records, q) == [records EXCEPT ![q.id].refs = @ \cup {q.ref}]

\* A new record supersedes the prior one when it may, else both are conflicted.
WithRecord(records, q) ==
    LET prior == Prior(records, q)
        row == [status |-> IF prior # {} /\ ~q.trusted THEN "conflicted" ELSE "active",
                rev |-> 1, single |-> q.single, pinned |-> q.pinned, by |-> "none",
                primary |-> q.ref, refs |-> {q.ref}, at |-> Cardinality(Known(records)) + 1] IN
    [i \in DOMAIN records |->
        IF i = q.id THEN row
        ELSE IF i \in prior
        THEN [records[i] EXCEPT !.status = IF q.trusted THEN "superseded" ELSE "conflicted",
                                !.by = IF q.trusted THEN q.id ELSE @, !.rev = @ + 1]
        ELSE records[i]]

IsDuplicate(records, q) == q.id \in Known(records)
Written(records, q) == IF IsDuplicate(records, q) THEN WithEvidence(records, q) ELSE WithRecord(records, q)
Accepts(records, q) == IsDuplicate(records, q) \/ PinAllowed(records, q)

\* compensate_source: the active records of the producer lose their only evidence.
Compensated(records, ref) ==
    [i \in DOMAIN records |->
        IF records[i].status = "active" /\ records[i].primary = ref /\ records[i].refs \subseteq {ref}
        THEN [records[i] EXCEPT !.status = "tombstoned", !.rev = @ + 1]
        ELSE records[i]]

\* _enqueue: one index job per new revision, in the order of the transaction's rows,
\* and a projection job.  Jobs created in one transaction share their time stamp.
Changed(old, new) == {i \in DOMAIN new : new[i].rev # old[i].rev}
Orders(ids) == {s \in [1 .. Cardinality(ids) -> ids] : ids = {s[n] : n \in DOMAIN s}}
JobsOf(records, s) == [n \in DOMAIN s |-> <<s[n], records[s[n]].rev>>]
Enqueues(old, new) ==
    /\ \E s \in Orders(Changed(old, new)) : lmQueue' = lmQueue \o JobsOf(new, s)
    /\ lmDirty' = (lmDirty \/ Changed(old, new) # {})

\* A job becomes ready; one that is ready already does so again.
Closed(jobs, job, left) ==
    \/ \E n \in DOMAIN jobs : jobs[n] = job /\ left = RemoveAt(jobs, n)
    \/ (\A n \in DOMAIN jobs : jobs[n] # job) /\ left = jobs

Writes(new) ==
    /\ lmWrites < MaxLmWrites
    /\ lmWrites' = lmWrites + 1
    /\ lmRecord' = new
    /\ Enqueues(lmRecord, new)
    /\ UNCHANGED <<lmIndexVars, lmVectorVars, lmRecallVars, lmFileVars, lmMigration, lmDeaths>>

LmWrite(q) == Accepts(lmRecord, q) /\ Writes(Written(lmRecord, q))
LmCompensate(ref) == Writes(Compensated(lmRecord, ref))

-----------------------------------------------------------------------------
(* MemoryIndexWorker.reconcile: claim and read, write the index, close.    *)

\* The oldest job that is not ready, and the record as it is now, in one transaction.
Claim(w) ==
    /\ lmWork[w].stage = "idle" /\ lmQueue # <<>>
    /\ LET job == Head(lmQueue)  row == lmRecord[job[1]] IN
       lmWork' = [lmWork EXCEPT ![w] = [stage |-> "claimed", job |-> job,
                                        row |-> [rev |-> row.rev, status |-> row.status]]]
    /\ UNCHANGED <<lmRecord, lmQueue, lmIndex, lmStale, lmVectorVars, lmRecallVars, lmDirty,
                   lmFileVars, lmMigration, lmWrites, lmDeaths>>

\* The row of the index and, for an active record, its full text entry.
Index(w) ==
    /\ lmWork[w].stage = "claimed"
    /\ LET id == lmWork[w].job[1] IN
       /\ lmIndex' = [lmIndex EXCEPT ![id] = lmWork[w].row]
       /\ lmStale' = lmStale \cup {id : x \in {v \in LmWorkers \ {w} :
                                       lmWork[v].stage # "idle" /\ lmWork[v].job[1] = id}}
    /\ lmWork' = [lmWork EXCEPT ![w].stage = "indexed"]
    /\ UNCHANGED <<lmRecord, lmQueue, lmVectorVars, lmRecallVars, lmDirty, lmFileVars, lmMigration,
                   lmWrites, lmDeaths>>

\* The job is ready; a job another worker closed already is closed again.
MarkReady(w) ==
    /\ lmWork[w].stage = "indexed"
    /\ Closed(lmQueue, lmWork[w].job, lmQueue')
    /\ lmWork' = [lmWork EXCEPT ![w] = NoClaim]
    /\ UNCHANGED <<lmRecord, lmIndex, lmStale, lmVectorVars, lmRecallVars, lmDirty, lmFileVars,
                   lmMigration, lmWrites, lmDeaths>>

\* The index cannot be written: the job is failed, still the oldest, and reconcile stops.
IndexFails(w) ==
    /\ lmWork[w].stage = "claimed"
    /\ lmDeaths < MaxLmDeaths /\ lmDeaths' = lmDeaths + 1
    /\ lmWork' = [lmWork EXCEPT ![w] = NoClaim]
    /\ UNCHANGED <<lmRecord, lmQueue, lmIndex, lmStale, lmVectorVars, lmRecallVars, lmDirty,
                   lmFileVars, lmMigration, lmWrites>>

\* initialize: an index that cannot be read is deleted with its vectors and rebuilt.
\* rebuild inserts a job per record, which is ignored where the revision has one already,
\* ready or not: records and vectors whose jobs are ready do not come back.
Rebuild ==
    /\ lmDeaths < MaxLmDeaths /\ lmDeaths' = lmDeaths + 1
    /\ lmIndex' = [i \in LmIds |-> NoIndexRow]
    /\ lmVector' = {}
    /\ lmWork' = [w \in LmWorkers |-> NoClaim]
    /\ lmStale' = lmStale \cup Known(lmRecord)
    /\ UNCHANGED <<lmRecord, lmQueue, lmEmbed, lmEmbedded, lmEmbWork, lmRecallVars, lmDirty, lmFileVars,
                   lmMigration, lmWrites>>

-----------------------------------------------------------------------------
(* MemoryEmbeddingWorker: one task in the Gateway.                         *)

\* ensure_embedding_jobs: a job for every active record at its revision, once.
Unqueued == {i \in LmActive(lmRecord) :
                <<i, lmRecord[i].rev>> \notin lmEmbedded \cup {lmEmbed[n] : n \in DOMAIN lmEmbed}}
Materialize ==
    /\ lmEmbWork = <<>> /\ Unqueued # {}
    /\ \E s \in Orders(Unqueued) : lmEmbed' = lmEmbed \o JobsOf(lmRecord, s)
    /\ UNCHANGED <<lmRecord, lmQueue, lmIndexVars, lmEmbedded, lmVector, lmEmbWork, lmRecallVars,
                   lmDirty, lmFileVars, lmMigration, lmWrites, lmDeaths>>

\* A job whose record has moved on raises: failed, and still the oldest.
Matches(job) == lmRecord[job[1]].rev = job[2]
EmbedClaim ==
    /\ lmEmbWork = <<>> /\ lmEmbed # <<>> /\ Unqueued = {}
    /\ Matches(Head(lmEmbed))
    /\ lmEmbWork' = Head(lmEmbed)
    /\ UNCHANGED <<lmRecord, lmQueue, lmIndexVars, lmEmbed, lmEmbedded, lmVector, lmRecallVars,
                   lmDirty, lmFileVars, lmMigration, lmWrites, lmDeaths>>

EmbedDone ==
    /\ lmEmbWork # <<>>
    /\ lmVector' = lmVector \cup {lmEmbWork[1]}
    /\ lmEmbedded' = lmEmbedded \cup {lmEmbWork}
    /\ Closed(lmEmbed, lmEmbWork, lmEmbed')
    /\ lmEmbWork' = <<>>
    /\ UNCHANGED <<lmRecord, lmQueue, lmIndexVars, lmRecallVars, lmDirty, lmFileVars, lmMigration,
                   lmWrites, lmDeaths>>
EmbedFails ==
    /\ lmEmbWork # <<>>
    /\ lmEmbWork' = <<>>
    /\ UNCHANGED <<lmRecord, lmQueue, lmIndexVars, lmEmbed, lmEmbedded, lmVector, lmRecallVars,
                   lmDirty, lmFileVars, lmMigration, lmWrites, lmDeaths>>

-----------------------------------------------------------------------------
(* Recall.                                                                 *)

\* semantic(): a vector joined with its index row, whatever the row's status.
Semantic == {i \in lmVector : lmIndex[i].status # "none"}
\* lexical(): the full text index.
Lexical == {i \in LmIds : lmIndex[i].status = "active"}
\* The query matches any subset of the contents.
RecallStarts ==
    /\ lmAsked = {}
    /\ lmAsked' \in (SUBSET Semantic) \ {{}}
    /\ UNCHANGED <<lmRecord, lmQueue, lmIndexVars, lmVectorVars, lmRecalled, lmDirty, lmFileVars,
                   lmMigration, lmWrites, lmDeaths>>

\* Slip: what the index says is taken for what is known.
FromIndex(matching) == lmAsked \cup (Lexical \cap matching)

\* _retrieve: the canonical active records that the semantic or the full text index
\* names, or that share a term with the query, and the pinned ones.
Candidates(matching) ==
    {i \in LmActive(lmRecord) : lmRecord[i].pinned
                                \/ i \in lmAsked \cup (Lexical \cap matching) \cup matching}
Recall(matching) ==
    /\ lmRecalled' = Candidates(matching)
    /\ lmAsked' = {}
    /\ UNCHANGED <<lmRecord, lmQueue, lmIndexVars, lmVectorVars, lmDirty, lmFileVars, lmMigration,
                   lmWrites, lmDeaths>>

-----------------------------------------------------------------------------
(* MemoryProfileProjector.                                                 *)

Rendered == [by |-> "projector", of |-> LmActive(lmRecord)]
\* current_hash is neither the last projection nor the one to write.  The check needs
\* an earlier projection: the first one takes the file whatever it holds.
Drifted == lmDigest # {} /\ lmProfile \notin (lmDigest \cup {Rendered})

\* Slip: no drift check.
ProjectAnyway ==
    /\ lmDirty
    /\ lmProfile' = Rendered
    /\ UNCHANGED <<lmRecord, lmQueue, lmIndexVars, lmVectorVars, lmRecallVars, lmDirty, lmDigest,
                   lmEdited, lmEdits, lmMigration, lmWrites, lmDeaths>>

\* reconcile: a drifted file is left alone and the job stays failed.
Project ==
    /\ lmDirty /\ ~Drifted
    /\ lmProfile' = Rendered
    /\ UNCHANGED <<lmRecord, lmQueue, lmIndexVars, lmVectorVars, lmRecallVars, lmDirty, lmDigest,
                   lmEdited, lmEdits, lmMigration, lmWrites, lmDeaths>>

\* The job is ready and the state has the digest of what was rendered.  Dying before
\* this leaves the job open and the file equal to the next digest.
Projected ==
    /\ lmDirty /\ lmProfile = Rendered
    /\ lmDigest' = {Rendered}
    /\ lmDirty' = FALSE
    /\ UNCHANGED <<lmRecord, lmQueue, lmIndexVars, lmVectorVars, lmRecallVars, lmProfile, lmEdited,
                   lmEdits, lmMigration, lmWrites, lmDeaths>>

\* The user, or the managed section of a Dream, changes the file.
HandEdit ==
    /\ lmEdits < MaxLmEdits
    /\ lmEdits' = lmEdits + 1
    /\ lmProfile' = [by |-> "hand", of |-> {}]
    /\ lmEdited' = (lmEdited \/ lmDigest # {})
    /\ UNCHANGED <<lmRecord, lmQueue, lmIndexVars, lmVectorVars, lmRecallVars, lmDirty, lmDigest,
                   lmMigration, lmWrites, lmDeaths>>

-----------------------------------------------------------------------------
(* LegacyMemoryMigrator: begin, one write per statement, complete.         *)

\* _begin: a completed path is skipped, and so is a generated file.
MigrationBegins ==
    /\ lmMigration.status \in {"none", "failed"}
    /\ lmMigration' = [status |-> "running", left |-> LmLegacy]
    /\ UNCHANGED <<lmRecord, lmQueue, lmIndexVars, lmVectorVars, lmRecallVars, lmDirty, lmFileVars,
                   lmWrites, lmDeaths>>
\* _migrate_markdown: the next statement; a known one is counted as deduplicated.
MigrateStatement ==
    /\ lmMigration.status = "running"
    /\ \E i \in lmMigration.left :
       LET q == [id |-> i, ref |-> << "legacy", 0 >>, single |-> FALSE, replace |-> FALSE,
                 trusted |-> FALSE, pinned |-> FALSE] IN
       /\ lmRecord' = Written(lmRecord, q)
       /\ Enqueues(lmRecord, Written(lmRecord, q))
       /\ lmMigration' = [lmMigration EXCEPT !.left = @ \ {i}]
    /\ UNCHANGED <<lmIndexVars, lmVectorVars, lmRecallVars, lmFileVars, lmWrites, lmDeaths>>
MigrationCompletes ==
    /\ lmMigration.status = "running" /\ lmMigration.left = {}
    /\ lmMigration' = [lmMigration EXCEPT !.status = "completed"]
    /\ UNCHANGED <<lmRecord, lmQueue, lmIndexVars, lmVectorVars, lmRecallVars, lmDirty, lmFileVars,
                   lmWrites, lmDeaths>>
\* _run_source: the import raises, its record is failed and the next start retries it.
MigrationFails ==
    /\ lmMigration.status = "running"
    /\ lmDeaths < MaxLmDeaths /\ lmDeaths' = lmDeaths + 1
    /\ lmMigration' = [lmMigration EXCEPT !.status = "failed"]
    /\ UNCHANGED <<lmRecord, lmQueue, lmIndexVars, lmVectorVars, lmRecallVars, lmDirty, lmFileVars,
                   lmWrites>>

-----------------------------------------------------------------------------
\* A process dies: what its workers had read is gone, an import is begun again.
LmDies(w) ==
    /\ lmDeaths < MaxLmDeaths /\ lmDeaths' = lmDeaths + 1
    /\ lmWork' = [lmWork EXCEPT ![w] = NoClaim]
    /\ lmEmbWork' = <<>>
    /\ lmAsked' = {}
    /\ lmMigration' = IF lmMigration.status = "running"
                      THEN [status |-> "none", left |-> LmLegacy] ELSE lmMigration
    /\ UNCHANGED <<lmRecord, lmQueue, lmIndex, lmStale, lmEmbed, lmEmbedded, lmVector, lmRecalled,
                   lmDirty, lmFileVars, lmWrites>>

LmInit ==
    /\ lmRecord = [i \in LmIds |-> NoRow]
    /\ lmQueue = <<>>
    /\ lmIndex = [i \in LmIds |-> NoIndexRow]
    /\ lmWork = [w \in LmWorkers |-> NoClaim]
    /\ lmEmbed = <<>> /\ lmEmbedded = {} /\ lmVector = {} /\ lmEmbWork = <<>>
    /\ lmAsked = {} /\ lmRecalled = {}
    /\ lmDirty = FALSE /\ lmDigest = {}
    /\ lmProfile = [by |-> "hand", of |-> {}] /\ lmEdited = FALSE
    /\ lmMigration = [status |-> "none", left |-> LmLegacy]
    /\ lmStale = {} /\ lmWrites = 0 /\ lmEdits = 0 /\ lmDeaths = 0

LmWriting == \/ \E q \in LmRequests(LmIds, LmRefs) : LmWrite(q)
             \/ \E r \in LmRefs : LmCompensate(r)
LmIndexing == \/ \E w \in LmWorkers : Claim(w) \/ Index(w) \/ MarkReady(w) \/ IndexFails(w) \/ LmDies(w)
              \/ Rebuild \/ Materialize \/ EmbedClaim \/ EmbedDone \/ EmbedFails
              \/ RecallStarts
              \/ \E matching \in SUBSET LmIds : Recall(matching)
LmProjecting == \/ Project \/ Projected \/ HandEdit
                \/ MigrationBegins \/ MigrateStatement \/ MigrationCompletes \/ MigrationFails
                \/ \E w \in LmWorkers : LmDies(w)

LmNext == LmWriting \/ LmIndexing \/ LmProjecting

LmSpec == LmInit /\ [][LmNext]_lmVars

-----------------------------------------------------------------------------
LmTypeOK ==
    /\ \A i \in LmIds : lmRecord[i].status \in
          {"none", "active", "superseded", "conflicted", "tombstoned"}
    /\ \A w \in LmWorkers : lmWork[w].stage \in {"idle", "claimed", "indexed"}
    /\ lmVector \subseteq LmIds /\ lmRecalled \subseteq LmIds
    /\ lmMigration.status \in {"none", "running", "completed", "failed"}

\* Recall never shows what is no longer active (retrieval.py, _retrieve: the index is
\* read before, and lags behind, the canonical records it names).
RecallIsActive == [][lmRecalled' \subseteq lmRecalled \cup LmActive(lmRecord)]_lmRecalled

\* Once no job is open the index has the last revision of every record, whatever died
\* in between (structured.py, reconcile: "Idempotent bridge from canonical jobs"),
\* except for a record that two processes indexed at once and after a lost index.
IndexCatchesUp ==
    lmQueue = <<>> => \A i \in Known(lmRecord) \ lmStale :
        \/ lmIndex[i] = [rev |-> lmRecord[i].rev, status |-> lmRecord[i].status]
        \/ \E w \in LmWorkers : lmWork[w].stage # "idle" /\ lmWork[w].job[1] = i

\* A hand edit of a projected profile is never overwritten (structured.py, reconcile:
\* the drift check, across a death between the file and its state).
EditKept == lmEdited => lmProfile.by = "hand"

\* A completed import has imported every statement, whatever died on the way
\* (structured.py, _run_source: "no imported canonical facts are ... silently skipped").
ImportIsWhole == lmMigration.status = "completed" => LmLegacy \subseteq Known(lmRecord)

\* What is derived from the canonical records, index and profile, and what they were
\* imported from agree with them.
MemorySound == LmTypeOK /\ IndexCatchesUp /\ EditKept /\ ImportIsWhole
=============================================================================
