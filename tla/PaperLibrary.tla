--------------------------- MODULE PaperLibrary ---------------------------
(***************************************************************************)
(* The paper library of a Workspace: the Reference database with its       *)
(* search documents, embedding jobs and vectors (reference/store.py,       *)
(* service.py), the embedding worker (reference/embeddings.py), the PDF    *)
(* import, trash and summary files (gateway/paper_web.py) and the summary  *)
(* and inline question workflow of the Gateway.  Everything runs in the    *)
(* event loop: steps interleave where the code awaits, and the process     *)
(* may die between two writes.  The text of a document is a number that    *)
(* also stands for its hash.                                               *)
(***************************************************************************)
EXTENDS Naturals, FiniteSets

CONSTANTS
    PlPapers,     \* papers
    PlTexts,      \* versions of a paper's title and abstract
    PlRuns,       \* summary Runs, 1 .. n
    MaxAttempts,  \* attempts of an embedding job (5 in the code)
    MaxPlOps,     \* bound: requests
    MaxPlDeaths   \* bound: deaths of the process

ASSUME PlAssumption == {MaxAttempts, MaxPlOps, MaxPlDeaths} \subseteq Nat

VARIABLES
    plPaper,   \* papers rows: status, text, deadline and summary state of the metadata
    plFile,    \* files of the paper's directory: subset of {"pdf", "summary"}
    plDoc,     \* search_documents: content_hash per <<paper, entity>>
    plVector,  \* embeddings: [hash, of], the text the vector was made of
    plJob,     \* embedding_jobs: [hash, status, attempts]
    plWork,    \* the job the worker awaits the provider for
    plTask,    \* papers with a scheduling task of start_paper_summary, and its step
    plRun,     \* summary Runs: status and paper
    plPurge,   \* the paper whose directory purge_expired_papers has removed
    plSaved,   \* the Run whose summary.md is written and not yet marked
    plQueue,   \* documents written and not yet queued, and whether to force it
    plStale,   \* history: documents left with an open job for another text
    plCut,     \* history: papers whose purge a death cut short
    plOps, plDeaths

plVars == <<plPaper, plFile, plDoc, plVector, plJob, plWork, plTask, plRun, plPurge,
            plSaved, plQueue, plStale, plCut, plOps, plDeaths>>

Entities == {"paper", "passage"}
Docs == PlPapers \X Entities
NoDoc == 0
NoVector == [hash |-> 0, of |-> 0]
NoJob == [hash |-> 0, status |-> "none", attempts |-> 0]
NoQueue == [docs |-> {}, force |-> FALSE]
NoWork == [doc |-> <<>>, hash |-> 0, of |-> 0, attempts |-> 0]
NoPaper == [status |-> "none", text |-> 0, pdf |-> FALSE, expiry |-> "none", summary |-> "missing", run |-> 0]
NoRun == [status |-> "none", paper |-> {}]
DocsOf(p) == {d \in Docs : d[1] = p /\ plDoc[d] # NoDoc}
Live(p) == plPaper[p].status \in {"active", "archived"}
\* _find_paper_id: same identifier, or same title and year, is the same paper.
FindPaper(p) == Live(p)
\* paper_by_file_hash: the file is known by its hash, whether or not it is still there.
HasPdf(p) == plPaper[p].pdf
JobOpen(d) == plJob[d].status \in {"pending", "running"}
\* summary: without a mark it goes by the file.
SummaryStatus(p) == IF plPaper[p].summary = "missing" /\ "summary" \in plFile[p] THEN "completed"
                    ELSE plPaper[p].summary
\* The ON DELETE CASCADE of the schema.
Cascade(rows, p, none) == [d \in Docs |-> IF d[1] = p THEN none ELSE rows[d]]
\* _run: one job at a time, under _job_lock.
WorkerFree == plWork = NoWork
\* What runs without an await in between: no other step of the process falls into it.
Turn == plPurge = {} /\ plSaved = 0 /\ plQueue = NoQueue
PlAsks == Turn /\ plOps < MaxPlOps /\ plOps' = plOps + 1
\* paper_web_for_project: expired papers are purged before anything else.
PurgedFirst == \A p \in PlPapers : ~(plPaper[p].status = "archived" /\ plPaper[p].expiry = "passed")
StaysQueueing == UNCHANGED <<plPurge, plSaved, plCut, plDeaths>>
Stays == UNCHANGED plQueue /\ StaysQueueing

-----------------------------------------------------------------------------
(* Documents and their jobs.                                               *)

\* queue_embedding, a transaction for each document: nothing when the stored vector has
\* the hash of the document, even if a job for another hash is open.
Current(d, force) == ~force /\ plVector[d].hash = plDoc[d]
QueueDocument(d) ==
    /\ d \in plQueue.docs
    /\ plQueue' = IF plQueue.docs = {d} THEN NoQueue ELSE [plQueue EXCEPT !.docs = @ \ {d}]
    /\ plJob' = IF Current(d, plQueue.force) THEN plJob
                ELSE [plJob EXCEPT ![d] = [hash |-> plDoc[d], status |-> "pending", attempts |-> 0]]
    /\ plStale' = IF Current(d, plQueue.force) /\ JobOpen(d) THEN plStale \cup {d} ELSE plStale
    /\ UNCHANGED <<plPaper, plFile, plDoc, plVector, plWork, plTask, plRun, plOps>> /\ StaysQueueing

\* upsert_paper with its identifiers, authors and tags: an existing paper gets the new
\* text and metadata, without mark and expiry, every document of it is written again in
\* the same transaction, and then they are queued.
UpsertPaper(p, text) ==
    /\ PlAsks /\ plPaper[p].status # "purged"
    /\ plPaper' = [plPaper EXCEPT ![p] =
                     IF FindPaper(p) THEN [@ EXCEPT !.text = text, !.expiry = "none", !.summary = "missing", !.run = 0]
                     ELSE [NoPaper EXCEPT !.status = "active", !.text = text]]
    /\ LET docs == DocsOf(p) \cup {<<p, "paper">>} IN
       /\ plDoc' = [d \in Docs |-> IF d \in docs THEN text ELSE plDoc[d]]
       /\ plQueue' = [docs |-> docs, force |-> FALSE]
    /\ UNCHANGED <<plFile, plVector, plJob, plWork, plTask, plRun, plStale>> /\ StaysQueueing

\* add_passage, add_citation_example: a new document of the paper.
AddPassage(p) ==
    /\ PlAsks /\ Live(p)
    /\ plDoc[<<p, "passage">>] = NoDoc
    /\ plDoc' = [plDoc EXCEPT ![<<p, "passage">>] = plPaper[p].text]
    /\ plQueue' = [docs |-> {<<p, "passage">>}, force |-> FALSE]
    /\ UNCHANGED <<plPaper, plFile, plVector, plJob, plWork, plTask, plRun, plStale>> /\ StaysQueueing

\* reembed: every document again, whatever its vector.
Reembed(p) ==
    /\ PlAsks /\ Live(p) /\ DocsOf(p) # {}
    /\ plQueue' = [docs |-> DocsOf(p), force |-> TRUE]
    /\ UNCHANGED <<plPaper, plFile, plDoc, plVector, plJob, plWork, plTask, plRun, plStale>> /\ StaysQueueing

\* claim_embedding_job, then search_document without an await in between.
ClaimJob(d) ==
    /\ Turn /\ WorkerFree /\ plJob[d].status = "pending"
    /\ plJob' = [plJob EXCEPT ![d].status = "running"]
    /\ plWork' = [doc |-> d, hash |-> plJob[d].hash, of |-> plDoc[d], attempts |-> plJob[d].attempts]
    /\ UNCHANGED <<plPaper, plFile, plDoc, plVector, plTask, plRun, plStale, plOps>> /\ Stays

\* The rows of a deleted paper's documents are gone with it.
JobExists == Turn /\ ~WorkerFree /\ plJob[plWork.doc] # NoJob

\* Slip: the hash is read again after the await.
CompleteWithNewHash ==
    /\ JobExists
    /\ plVector' = [plVector EXCEPT ![plWork.doc] = [hash |-> plDoc[plWork.doc], of |-> plWork.of]]
    /\ plJob' = [plJob EXCEPT ![plWork.doc].status = "completed"]
    /\ plWork' = NoWork
    /\ UNCHANGED <<plPaper, plFile, plDoc, plTask, plRun, plStale, plOps>> /\ Stays

\* complete_embedding: the vector with the hash of the job, and the job is completed.
CompleteEmbedding ==
    /\ JobExists
    /\ plVector' = [plVector EXCEPT ![plWork.doc] = [hash |-> plWork.hash, of |-> plWork.of]]
    /\ plJob' = [plJob EXCEPT ![plWork.doc].status = "completed"]
    /\ plWork' = NoWork
    /\ UNCHANGED <<plPaper, plFile, plDoc, plTask, plRun, plStale, plOps>> /\ Stays

\* fail_embedding, from the attempts the job had when it was claimed.  The INSERT of
\* complete_embedding fails the same way for a deleted document, with no job to update.
FailEmbedding ==
    /\ Turn /\ ~WorkerFree
    /\ plJob' = IF JobExists
                THEN [plJob EXCEPT ![plWork.doc].attempts = plWork.attempts + 1,
                                   ![plWork.doc].status =
                                     IF plWork.attempts + 1 >= MaxAttempts THEN "failed" ELSE "pending"]
                ELSE plJob
    /\ plWork' = NoWork
    /\ UNCHANGED <<plPaper, plFile, plDoc, plVector, plTask, plRun, plStale, plOps>> /\ Stays

\* documents_for_embeddings: what semantic search ranks.
Served == {d \in Docs : /\ plDoc[d] # NoDoc /\ plPaper[d[1]].status = "active"
                        /\ plVector[d] # NoVector /\ plVector[d].hash = plDoc[d]}

-----------------------------------------------------------------------------
(* Files: import, trash, restore and purge.                                *)

\* import_pdf: a known file brings its paper back and takes the expiry away.
ImportPdf(p) ==
    /\ PlAsks /\ PurgedFirst /\ plPaper[p].status # "purged"
    /\ IF Live(p)
       THEN /\ HasPdf(p)
            /\ plPaper' = [plPaper EXCEPT ![p].status = "active",
                               ![p].expiry = IF plPaper[p].status = "archived" THEN "none" ELSE @]
            /\ UNCHANGED <<plFile, plDoc>>
       ELSE /\ plPaper' = [plPaper EXCEPT ![p] = [NoPaper EXCEPT !.status = "active", !.text = 1, !.pdf = TRUE]]
            /\ plDoc' = [plDoc EXCEPT ![<<p, "paper">>] = 1]
            /\ plFile' = [plFile EXCEPT ![p] = @ \cup {"pdf"}]
    /\ UNCHANGED <<plVector, plJob, plWork, plTask, plRun, plStale>> /\ Stays

\* archive(True) and archive(False) of PATCH and of the tool: the metadata is left alone.
Archive(p, status) ==
    /\ PlAsks /\ Live(p)
    /\ plPaper' = [plPaper EXCEPT ![p].status = status]
    /\ UNCHANGED <<plFile, plDoc, plVector, plJob, plWork, plTask, plRun, plStale>> /\ Stays

\* trash_paper; the retention window passes at some later time.
TrashPaper(p) ==
    /\ PlAsks /\ PurgedFirst /\ Live(p)
    /\ plPaper' = [plPaper EXCEPT ![p].status = "archived", ![p].expiry = "set"]
    /\ UNCHANGED <<plFile, plDoc, plVector, plJob, plWork, plTask, plRun, plStale>> /\ Stays

WindowPasses(p) ==
    /\ plPaper[p].expiry = "set"
    /\ plPaper' = [plPaper EXCEPT ![p].expiry = "passed"]
    /\ UNCHANGED <<plFile, plDoc, plVector, plJob, plWork, plTask, plRun, plStale, plOps>> /\ Stays

\* purge_expired_papers: the directory first, then the row with all that depends on it.
PurgeFiles(p) ==
    /\ Turn
    /\ plPaper[p].status = "archived" /\ plPaper[p].expiry = "passed"
    /\ plFile' = [plFile EXCEPT ![p] = {}]
    /\ plPurge' = {p}
    /\ UNCHANGED <<plPaper, plDoc, plVector, plJob, plWork, plTask, plRun, plSaved, plQueue, plStale, plCut, plOps, plDeaths>>

\* delete_paper and its cascades.
DeletePaper(p) ==
    /\ p \in plPurge
    /\ plPaper' = [plPaper EXCEPT ![p] = [NoPaper EXCEPT !.status = "purged"]]
    /\ plDoc' = Cascade(plDoc, p, NoDoc)
    /\ plVector' = Cascade(plVector, p, NoVector)
    /\ plJob' = Cascade(plJob, p, NoJob)
    /\ plPurge' = {}
    /\ UNCHANGED <<plFile, plWork, plTask, plRun, plSaved, plQueue, plStale, plCut, plOps, plDeaths>>

-----------------------------------------------------------------------------
(* Summaries.                                                              *)

MarkSummary(p, status, r) == plPaper' = [plPaper EXCEPT ![p].summary = status, ![p].run = r]

\* paper_summary, before every use: a queued summary without task, or one whose Run
\* ended, is settled.
Abandoned(p) == plPaper[p].summary = "queued" /\ plPaper[p].run = 0 /\ plTask[p] = "none"
EndedRun(p) == plPaper[p].summary \in {"queued", "running"} /\ plPaper[p].run # 0
               /\ plRun[plPaper[p].run].status = "failed"
ReadSummary(p) ==
    /\ Turn /\ PurgedFirst /\ Live(p)
    /\ Abandoned(p) \/ EndedRun(p)
    /\ MarkSummary(p, "failed", plPaper[p].run)
    /\ UNCHANGED <<plFile, plDoc, plVector, plJob, plWork, plTask, plRun, plStale, plOps>> /\ Stays

\* queue_paper_summary after an import.
QueueSummary(p) ==
    /\ PlAsks /\ PurgedFirst /\ Live(p) /\ ~Abandoned(p) /\ ~EndedRun(p)
    /\ SummaryStatus(p) \notin {"queued", "running", "completed"}
    /\ plTask[p] = "none"
    /\ MarkSummary(p, "queued", 0)
    /\ plTask' = [plTask EXCEPT ![p] = "extract"]
    /\ UNCHANGED <<plFile, plDoc, plVector, plJob, plWork, plRun, plStale>> /\ Stays

\* start_paper_summary of the task or of POST: it awaits the text of the PDF...
StartSummary(p) ==
    /\ PlAsks /\ PurgedFirst /\ Live(p) /\ HasPdf(p) /\ plTask[p] = "none"
    /\ ~(plPaper[p].summary = "running" \/ (plPaper[p].summary = "queued" /\ plPaper[p].run # 0))
    /\ plTask' = [plTask EXCEPT ![p] = "extract"]
    /\ UNCHANGED <<plPaper, plFile, plDoc, plVector, plJob, plWork, plRun, plStale>> /\ Stays

\* ... and starts a Run, which is marked as running once it exists.
CreateSummaryRun(p, r) ==
    /\ plTask[p] = "extract" /\ Turn
    /\ plRun[r].status = "none" /\ \A q \in 1 .. r - 1 : plRun[q].status # "none"
    /\ plRun' = [plRun EXCEPT ![r] = [status |-> "live", paper |-> {p}]]
    /\ plTask' = [plTask EXCEPT ![p] = "mark"]
    /\ UNCHANGED <<plPaper, plFile, plDoc, plVector, plJob, plWork, plStale, plOps>> /\ Stays

MarkRunning(p, r) ==
    /\ plTask[p] = "mark" /\ plRun[r].paper = {p} /\ \A q \in r + 1 .. PlRuns : plRun[q].paper # {p}
    /\ Turn
    /\ IF Live(p) THEN MarkSummary(p, "running", r) ELSE UNCHANGED plPaper
    /\ plTask' = [plTask EXCEPT ![p] = "none"]
    /\ UNCHANGED <<plFile, plDoc, plVector, plJob, plWork, plRun, plStale, plOps>> /\ Stays

\* No text in the PDF, or start_run raises: the request ends with a failed mark.
SummaryStartFails(p) ==
    /\ plTask[p] = "extract" /\ Turn
    /\ IF Live(p) THEN MarkSummary(p, "failed", 0) ELSE UNCHANGED plPaper
    /\ plTask' = [plTask EXCEPT ![p] = "none"]
    /\ UNCHANGED <<plFile, plDoc, plVector, plJob, plWork, plRun, plStale, plOps>> /\ Stays

RunFails(r) ==
    /\ plRun[r].status = "live" /\ Turn
    /\ plRun' = [plRun EXCEPT ![r].status = "failed"]
    /\ UNCHANGED <<plPaper, plFile, plDoc, plVector, plJob, plWork, plTask, plStale, plOps>> /\ Stays

\* _settle_read_artifacts and paper_summary for a completed Run: write_summary puts
\* the file in place and then marks it.
SaveSummary(r) ==
    /\ plRun[r].status = "live" /\ Turn /\ PurgedFirst
    /\ plRun' = [plRun EXCEPT ![r].status = "completed"]
    /\ plFile' = [p \in PlPapers |-> IF p \in plRun[r].paper THEN plFile[p] \cup {"summary"} ELSE plFile[p]]
    /\ plSaved' = r
    /\ UNCHANGED <<plPaper, plDoc, plVector, plJob, plWork, plTask, plStale, plPurge, plQueue, plCut, plOps, plDeaths>>

\* mark_summary; a purged paper raises and the file stays behind.
MarkCompleted ==
    /\ plSaved # 0
    /\ plPaper' = [p \in PlPapers |-> IF p \in plRun[plSaved].paper /\ Live(p)
                                      THEN [plPaper[p] EXCEPT !.summary = "completed", !.run = plSaved]
                                      ELSE plPaper[p]]
    /\ plSaved' = 0
    /\ UNCHANGED <<plFile, plDoc, plVector, plJob, plWork, plTask, plRun, plPurge, plQueue, plStale, plCut, plOps, plDeaths>>

\* A restart: initialize() of the store gives running jobs back; tasks are gone.  A
\* Run that completed is settled again by the next read.
PlDies ==
    /\ plDeaths < MaxPlDeaths
    /\ plDeaths' = plDeaths + 1
    /\ plJob' = [d \in Docs |-> IF plJob[d].status = "running" THEN [plJob[d] EXCEPT !.status = "pending"]
                                ELSE plJob[d]]
    /\ plWork' = NoWork /\ plPurge' = {} /\ plSaved' = 0 /\ plQueue' = NoQueue
    /\ plCut' = plCut \cup plPurge
    /\ plStale' = plStale \cup {d \in plQueue.docs : ~plQueue.force /\ JobOpen(d)}
    /\ plTask' = [p \in PlPapers |-> "none"]
    /\ plRun' = IF plSaved = 0 THEN plRun ELSE [plRun EXCEPT ![plSaved].status = "live"]
    /\ UNCHANGED <<plPaper, plFile, plDoc, plVector, plOps>>

PlInit ==
    /\ plPaper = [p \in PlPapers |-> NoPaper] /\ plFile = [p \in PlPapers |-> {}]
    /\ plDoc = [d \in Docs |-> NoDoc] /\ plVector = [d \in Docs |-> NoVector]
    /\ plJob = [d \in Docs |-> NoJob] /\ plWork = NoWork
    /\ plTask = [p \in PlPapers |-> "none"] /\ plRun = [r \in 1 .. PlRuns |-> NoRun]
    /\ plPurge = {} /\ plSaved = 0 /\ plQueue = NoQueue /\ plStale = {} /\ plCut = {} /\ plOps = 0 /\ plDeaths = 0

PlDocuments ==
    \/ \E p \in PlPapers : AddPassage(p) \/ Reembed(p) \/ \E t \in PlTexts : UpsertPaper(p, t)
    \/ \E d \in Docs : QueueDocument(d) \/ ClaimJob(d)
    \/ CompleteEmbedding \/ FailEmbedding
PlFiles ==
    \E p \in PlPapers : \/ ImportPdf(p) \/ TrashPaper(p) \/ WindowPasses(p) \/ PurgeFiles(p) \/ DeletePaper(p)
                        \/ \E s \in {"active", "archived"} : Archive(p, s)
PlSummaries ==
    \/ \E p \in PlPapers : \/ ReadSummary(p) \/ QueueSummary(p) \/ StartSummary(p) \/ SummaryStartFails(p)
                           \/ \E r \in 1 .. PlRuns : CreateSummaryRun(p, r) \/ MarkRunning(p, r)
    \/ \E r \in 1 .. PlRuns : RunFails(r) \/ SaveSummary(r)
    \/ MarkCompleted
PlNext == PlDocuments \/ PlFiles \/ PlSummaries \/ PlDies
PlSpec == PlInit /\ [][PlNext]_plVars

-----------------------------------------------------------------------------
(* Semantic search ranks a document only by a vector of the text it has     *)
(* now, however changes of the text interleave with the worker's request.   *)
(* The exceptions are the documents left with an open job for another text, *)
(* which then stores the vector of one text under the hash of the other:    *)
(* queue_embedding leaves the job alone when the text came back to the one  *)
(* of the stored vector, and a death between the transaction that writes    *)
(* the text and the one that queues it leaves the job of the old text.      *)
VectorMatchesText == \A d \in Served \ plStale : plVector[d].of = plDoc[d]

(* A summary marked as completed has its file, unless the paper is marked   *)
(* for expiry: neither a death nor two Runs for one paper separate them.    *)
(* The exception is a paper whose directory was removed when the process    *)
(* died in its purge: brought back by a PATCH, put into the trash again and *)
(* imported again it is active, with its mark and without its files.        *)
SummaryPresent ==
    \A p \in PlPapers \ plCut : plPaper[p].summary = "completed" /\ plPaper[p].expiry = "none"
                                  => "summary" \in plFile[p]

\* What the library derives from a paper, its vectors and its summary, belongs to the paper.
LibrarySound == VectorMatchesText /\ SummaryPresent
=============================================================================
