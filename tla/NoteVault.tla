----------------------------- MODULE NoteVault -----------------------------
(***************************************************************************)
(* The Markdown notes of a Workspace (gateway/note_store.py).  Files are   *)
(* the source of truth, SQLite rows index them, an overwritten body goes   *)
(* to a revision and a deleted node to the trash.  The handlers of the     *)
(* HTTP API run one at a time in the event loop; the watcher thread        *)
(* rebuilds the index under _index_lock, which they do not hold while they *)
(* write; an external editor changes files at any moment; the process may  *)
(* die between two writes.                                                 *)
(***************************************************************************)
EXTENDS Naturals, Sequences, FiniteSets

CONSTANTS
    NvNames,      \* file names of notes
    NvFolders,    \* names of folders, all at the top of the vault
    KeptRevisions, \* _snapshot_revision keeps so many of a note: 50
    MaxBodies,    \* bound: bodies written, by the API or an editor
    MaxNvOps,     \* bound: writing operations of the API
    MaxNvEdits,   \* bound: changes by an external editor
    MaxNvDeaths   \* bound: deaths of the process

\* The name tells a note, which ends in .md, from a folder.
ASSUME NvAssumption == /\ NvNames \cap NvFolders = {} /\ KeptRevisions \in Nat \ {0}
                       /\ {MaxBodies, MaxNvOps, MaxNvEdits, MaxNvDeaths} \subseteq Nat

VARIABLES
    nvDisk,    \* notes_root: path -> [id, body]
    nvRows,    \* note_nodes: set of [id, path]
    nvSeen,    \* _last_disk_signature
    nvScan,    \* a rebuild that has read the files: who, rows found
    nvRevs,    \* revisions/<id>/: set of [id, body, at]
    nvTrash,   \* directories under trash/: tid -> [path, nodes]
    nvTrashed, \* note_trash rows
    nvQueued,  \* watcher events wait for the timer
    nvOp,      \* the API handler in progress
    nvBodies, nvOps, nvEdits, nvDeaths,
    nvKeep     \* history: bodies no editor removed and no newer revisions pushed out

nvVars == <<nvDisk, nvRows, nvSeen, nvScan, nvRevs, nvTrash, nvTrashed, nvQueued,
            nvOp, nvBodies, nvOps, nvEdits, nvDeaths, nvKeep>>
nvCounts == <<nvBodies, nvOps, nvEdits, nvDeaths>>

NotePaths == {<<n>> : n \in NvNames} \cup {<<d, n>> : d \in NvFolders, n \in NvNames}
FolderPaths == {<<d>> : d \in NvFolders}
Nowhere == <<>>
NoNoteId == <<>>
Unsigned == [known |-> FALSE, disk |-> <<>>]
NoScan == [who |-> "none", rows |-> {}]
NoOp == [kind |-> "none", step |-> "none", id |-> NoNoteId, path |-> Nowhere, from |-> Nowhere, tid |-> 0, body |-> 0]
FolderOf(p) == SubSeq(p, 1, Len(p) - 1)
InTree(q, p) == Len(q) >= Len(p) /\ SubSeq(q, 1, Len(p)) = p
Rebase(q, from, to) == to \o SubSeq(q, Len(from) + 1, Len(q))
HasParent(p) == FolderOf(p) = Nowhere \/ FolderOf(p) \in DOMAIN nvDisk
Idle == nvOp = NoOp /\ nvScan.who # "api"
Started == Idle /\ nvOps < MaxNvOps /\ nvOps' = nvOps + 1

\* _require: the row of a node.
RowsOf(id) == {r \in nvRows : r.id = id}
PathOf(id) == (CHOOSE r \in nvRows : r.id = id).path

\* _unique_path: the wanted name, or a numbered one when it is taken.
UniquePath(dir, kind, p) ==
    /\ p \in IF kind = "note" THEN NotePaths ELSE FolderPaths
    /\ FolderOf(p) = dir
    /\ p \notin DOMAIN nvDisk

\* _disk_signature: paths, times and sizes, which tell two contents apart.
DiskSignature == [known |-> TRUE, disk |-> nvDisk]

\* _reindex_locked, reading: a folder's id is the hash of its path, a note's
\* the id in its frontmatter unless another file already has it.
Indexed(disk) ==
    LET First(p) == disk[p].id # NoNoteId
                    /\ p = CHOOSE q \in DOMAIN disk : q \in NotePaths /\ disk[q].id = disk[p].id
    IN  {[id |-> IF p \in NotePaths /\ First(p) THEN disk[p].id ELSE p, path |-> p] : p \in DOMAIN disk}

\* _parse_frontmatter, _serialize_frontmatter: the id of a note is in the file.
Document(id, body) == [id |-> id, body |-> body]

\* Bytes somewhere under the Workspace.
Stored == {nvDisk[p].body : p \in DOMAIN nvDisk} \cup {r.body : r \in nvRevs}
          \cup UNION {{nvTrash[t].nodes[p].body : p \in DOMAIN nvTrash[t].nodes} : t \in DOMAIN nvTrash}

PutFile(p, doc) == nvDisk' = [q \in DOMAIN nvDisk \cup {p} |-> IF q = p THEN doc ELSE nvDisk[q]]
TakeTree(p) == [q \in {q \in DOMAIN nvDisk : InTree(q, p)} |-> nvDisk[q]]
Without(p) == [q \in {q \in DOMAIN nvDisk : ~InTree(q, p)} |-> nvDisk[q]]
Relocated(from, to) ==
    LET moved == {q \in DOMAIN nvDisk : InTree(q, from)}
        old(q) == IF InTree(q, to) THEN Rebase(q, to, from) ELSE q
    IN  [q \in (DOMAIN nvDisk \ moved) \cup {Rebase(r, from, to) : r \in moved} |-> nvDisk[old(q)]]

-----------------------------------------------------------------------------
(* The rebuild of the index.                                               *)

ScanBegins(who) ==
    /\ nvScan = NoScan
    /\ nvScan' = [who |-> who, rows |-> Indexed(nvDisk)]

\* _reindex_locked, writing: all rows are replaced; the signature is taken afterwards.
ReindexCommits ==
    /\ nvScan # NoScan
    /\ nvRows' = nvScan.rows
    /\ nvSeen' = DiskSignature
    /\ nvScan' = NoScan
    /\ UNCHANGED <<nvDisk, nvRevs, nvTrash, nvTrashed, nvQueued, nvOp, nvKeep, nvCounts>>

\* _queue_watcher_path: an event of the file system starts the timer.
QueueWatcher ==
    /\ ~nvQueued /\ nvSeen # DiskSignature
    /\ nvQueued' = TRUE
    /\ UNCHANGED <<nvDisk, nvRows, nvSeen, nvScan, nvRevs, nvTrash, nvTrashed, nvOp, nvKeep, nvCounts>>

\* _flush_watcher: nothing to do when the signature is the remembered one.
FlushWatcher ==
    /\ nvQueued
    /\ nvQueued' = FALSE
    /\ IF nvSeen = DiskSignature THEN UNCHANGED nvScan ELSE ScanBegins("watcher")
    /\ UNCHANGED <<nvDisk, nvRows, nvSeen, nvRevs, nvTrash, nvTrashed, nvOp, nvKeep, nvCounts>>

\* _sync_index_from_disk, before every list and get; also the reindex endpoint.
SyncIndex ==
    /\ Idle /\ nvSeen # DiskSignature
    /\ ScanBegins("api")
    /\ UNCHANGED <<nvDisk, nvRows, nvSeen, nvRevs, nvTrash, nvTrashed, nvQueued, nvOp, nvKeep, nvCounts>>

\* _remember_disk_signature ends create, update, move, delete and restore_revision.
RememberSignature ==
    /\ nvOp.step = "remember" /\ nvScan = NoScan
    /\ nvSeen' = DiskSignature
    /\ nvOp' = NoOp
    /\ UNCHANGED <<nvDisk, nvRows, nvScan, nvRevs, nvTrash, nvTrashed, nvQueued, nvKeep, nvCounts>>

-----------------------------------------------------------------------------
(* Operations of the API.                                                  *)

\* create(): the row first, then the folder or the file.
CreateRow(kind, p) ==
    /\ Started
    /\ FolderOf(p) = Nowhere \/ \E r \in nvRows : r.path = FolderOf(p)
    /\ UniquePath(FolderOf(p), kind, p)
    /\ nvRows' = nvRows \cup {[id |-> <<"uuid", nvOps'>>, path |-> p]}
    /\ nvOp' = [NoOp EXCEPT !.kind = kind, !.step = IF kind = "note" THEN "write" ELSE "mkdir",
                            !.id = <<"uuid", nvOps'>>, !.path = p, !.body = nvBodies + 1]
    /\ nvBodies < MaxBodies
    /\ nvBodies' = IF kind = "note" THEN nvBodies + 1 ELSE nvBodies
    /\ UNCHANGED <<nvDisk, nvSeen, nvScan, nvRevs, nvTrash, nvTrashed, nvQueued, nvEdits, nvDeaths, nvKeep>>

\* initialize_structure(): the missing folders, one create() after the other.
InitializeStructure(p) == CreateRow("folder", p)

\* mkdir(parents=True, exist_ok=False)
MakeFolder ==
    /\ nvOp.step = "mkdir"
    /\ IF nvOp.path \in DOMAIN nvDisk
       THEN nvOp' = NoOp /\ UNCHANGED nvDisk
       ELSE /\ PutFile(nvOp.path, Document(NoNoteId, 0))
            /\ nvOp' = [nvOp EXCEPT !.step = "remember"]
    /\ UNCHANGED <<nvRows, nvSeen, nvScan, nvRevs, nvTrash, nvTrashed, nvQueued, nvKeep, nvCounts>>

\* update() without a change of name goes straight to the body.
UpdateBody(id) ==
    /\ Started /\ RowsOf(id) # {} /\ PathOf(id) \in NotePaths
    /\ nvBodies < MaxBodies /\ nvBodies' = nvBodies + 1
    /\ nvOp' = [NoOp EXCEPT !.kind = "update", !.step = "snapshot", !.id = id, !.body = nvBodies']
    /\ UNCHANGED <<nvDisk, nvRows, nvSeen, nvScan, nvRevs, nvTrash, nvTrashed, nvQueued, nvEdits, nvDeaths, nvKeep>>

\* A note has a revision with this body.
Revised(id, body) == \E r \in nvRevs : r.id = id /\ r.body = body

\* restore_revision(): get() has synchronised the index.
RestoreRevision(id, body) ==
    /\ Started /\ nvSeen = DiskSignature
    /\ RowsOf(id) # {} /\ PathOf(id) \in NotePaths
    /\ Revised(id, body)
    /\ nvOp' = [NoOp EXCEPT !.kind = "revert", !.step = "snapshot", !.id = id, !.body = body]
    /\ UNCHANGED <<nvDisk, nvRows, nvSeen, nvScan, nvRevs, nvTrash, nvTrashed, nvQueued,
                   nvBodies, nvEdits, nvDeaths, nvKeep>>

\* _rename_path of update(), and move(): os.replace comes before the rows; a
\* missing source raises.  A note's body is written again afterwards.
Relocate(id, to) ==
    /\ Started /\ RowsOf(id) # {}
    /\ LET from == PathOf(id) IN
       /\ from \in DOMAIN nvDisk
       /\ HasParent(to)
       /\ UniquePath(FolderOf(to), IF from \in NotePaths THEN "note" ELSE "folder", to)
       /\ nvDisk' = Relocated(from, to)
       /\ nvOp' = [NoOp EXCEPT !.kind = "move", !.step = "rows", !.id = id, !.from = from, !.path = to,
                               !.body = nvDisk[from].body]
    /\ UNCHANGED <<nvRows, nvSeen, nvScan, nvRevs, nvTrash, nvTrashed, nvQueued, nvKeep, nvBodies, nvEdits, nvDeaths>>

\* _replace_path_prefix, from the path of the row read before.
ReplacePrefix ==
    /\ nvOp.step = "rows"
    /\ nvRows' = {[id |-> r.id, path |-> IF InTree(r.path, nvOp.from)
                                        THEN Rebase(r.path, nvOp.from, nvOp.path) ELSE r.path] : r \in nvRows}
    /\ nvOp' = [nvOp EXCEPT !.step = IF nvOp.path \in NotePaths THEN "snapshot" ELSE "remember"]
    /\ UNCHANGED <<nvDisk, nvSeen, nvScan, nvRevs, nvTrash, nvTrashed, nvQueued, nvKeep, nvCounts>>

\* The revisions of a note that are behind the newest ones.
Stale(revs, id) ==
    {r \in revs : r.id = id /\ Cardinality({s \in revs : s.id = id /\ s.at > r.at}) >= KeptRevisions}

\* A file with the same bytes is not saved again; the same body may come with
\* another frontmatter.  Only the newest revisions stay.
SaveRevision(id, body) ==
    \E saved \in {nvRevs \cup {[id |-> id, body |-> body, at |-> nvOps]}}
                 \cup (IF Revised(id, body) THEN {nvRevs} ELSE {}) :
        /\ nvRevs' = saved \ Stale(saved, id)
        /\ nvKeep' = nvKeep \ ({r.body : r \in Stale(saved, id)} \ {r.body : r \in nvRevs'})

\* _snapshot_revision: the file the row names now.
SnapshotRevision ==
    /\ nvOp.step = "snapshot"
    /\ IF RowsOf(nvOp.id) = {} THEN nvOp' = NoOp /\ UNCHANGED <<nvRevs, nvKeep>>
       ELSE LET p == PathOf(nvOp.id) IN
            /\ IF p \in DOMAIN nvDisk THEN SaveRevision(nvOp.id, nvDisk[p].body)
               ELSE UNCHANGED <<nvRevs, nvKeep>>
            /\ nvOp' = [nvOp EXCEPT !.step = "write", !.path = p]
    /\ UNCHANGED <<nvDisk, nvRows, nvSeen, nvScan, nvTrash, nvTrashed, nvQueued, nvCounts>>

\* _write_body: a temporary file and os.replace; create() finds its path in the
\* row, which a rebuild may have dropped, and a folder that is gone raises.
WriteBody ==
    /\ nvOp.step = "write"
    /\ IF HasParent(nvOp.path) /\ (nvOp.kind = "note" => RowsOf(nvOp.id) # {})
       THEN /\ PutFile(nvOp.path, Document(nvOp.id, nvOp.body))
            /\ nvKeep' = nvKeep \cup {nvOp.body}
            /\ nvOp' = [nvOp EXCEPT !.step = "remember"]
       ELSE nvOp' = NoOp /\ UNCHANGED <<nvDisk, nvKeep>>
    /\ UNCHANGED <<nvRows, nvSeen, nvScan, nvRevs, nvTrash, nvTrashed, nvQueued, nvCounts>>

\* delete(): the node moves to the trash before its rows change.
DeleteNode(id) ==
    /\ Started /\ RowsOf(id) # {}
    /\ PathOf(id) \in DOMAIN nvDisk
    /\ LET tid == nvOps'
           p == PathOf(id)
       IN  /\ nvTrash' = [t \in DOMAIN nvTrash \cup {tid} |->
                            IF t = tid THEN [path |-> p, nodes |-> TakeTree(p)] ELSE nvTrash[t]]
           /\ nvDisk' = Without(p)
           /\ nvOp' = [NoOp EXCEPT !.kind = "delete", !.step = "trash", !.id = id, !.path = p, !.tid = tid]
    /\ UNCHANGED <<nvRows, nvSeen, nvScan, nvRevs, nvTrashed, nvQueued, nvKeep, nvBodies, nvEdits, nvDeaths>>

DropTrash(tid) == nvTrash' = [t \in DOMAIN nvTrash \ {tid} |-> nvTrash[t]]

\* The trash row and the deletion of the node, its children with it, commit together.
TrashRow ==
    /\ nvOp.step = "trash"
    /\ nvTrashed' = nvTrashed \cup {nvOp.tid}
    /\ nvRows' = {r \in nvRows : ~InTree(r.path, nvOp.path)}
    /\ nvOp' = [nvOp EXCEPT !.step = "remember"]
    /\ UNCHANGED <<nvDisk, nvSeen, nvScan, nvRevs, nvTrash, nvQueued, nvKeep, nvCounts>>

\* Slip: the trash directory is removed with the node in it.
DeleteFailsAway ==
    /\ nvOp.step = "trash"
    /\ DropTrash(nvOp.tid)
    /\ nvOp' = NoOp
    /\ UNCHANGED <<nvDisk, nvRows, nvSeen, nvScan, nvRevs, nvTrashed, nvQueued, nvKeep, nvCounts>>

\* The folder a node goes to is made when it is missing.
WithParent(p) == DOMAIN nvDisk \cup (IF FolderOf(p) = Nowhere THEN {} ELSE {FolderOf(p)})
NodeAt(q) == IF q \in DOMAIN nvDisk THEN nvDisk[q] ELSE Document(NoNoteId, 0)

\* delete(), except branch: the node goes back before its trash directory is removed.
DeleteFails ==
    /\ nvOp.step = "trash"
    /\ LET back == nvTrash[nvOp.tid].nodes IN
       nvDisk' = [q \in WithParent(nvOp.path) \cup DOMAIN back |->
                    IF q \in DOMAIN back THEN back[q] ELSE NodeAt(q)]
    /\ DropTrash(nvOp.tid)
    /\ nvOp' = NoOp
    /\ UNCHANGED <<nvRows, nvSeen, nvScan, nvRevs, nvTrashed, nvQueued, nvKeep, nvCounts>>

\* restore_trash(): to the original path, or a free one beside it.
RestoreTrash(tid, to) ==
    /\ Started /\ tid \in nvTrashed /\ tid \in DOMAIN nvTrash
    /\ LET t == nvTrash[tid] IN
       /\ to \notin DOMAIN nvDisk
       /\ \/ to = t.path
          \/ /\ t.path \in DOMAIN nvDisk
             /\ UniquePath(FolderOf(t.path), IF t.path \in NotePaths THEN "note" ELSE "folder", to)
       /\ nvDisk' = [q \in WithParent(to) \cup {Rebase(r, t.path, to) : r \in DOMAIN t.nodes} |->
                        IF InTree(q, to) THEN t.nodes[Rebase(q, to, t.path)] ELSE NodeAt(q)]
    /\ DropTrash(tid)
    /\ nvOp' = [NoOp EXCEPT !.kind = "restore", !.step = "untrash", !.tid = tid]
    /\ UNCHANGED <<nvRows, nvSeen, nvScan, nvRevs, nvTrashed, nvQueued, nvKeep, nvBodies, nvEdits, nvDeaths>>

\* The trash row goes, then the rebuild.
Untrash ==
    /\ nvOp.step = "untrash"
    /\ ScanBegins("api")
    /\ nvTrashed' = nvTrashed \ {nvOp.tid}
    /\ nvOp' = NoOp
    /\ UNCHANGED <<nvDisk, nvRows, nvSeen, nvRevs, nvTrash, nvQueued, nvKeep, nvCounts>>

-----------------------------------------------------------------------------
(* An editor outside, and a death of the process.                          *)

\* The editor saves a note of its own, over what it read, or removes a file.  What
\* it drops, and what it saves between the snapshot and os.replace, is not kept.
EditorSaves(p) ==
    /\ nvEdits < MaxNvEdits /\ nvBodies < MaxBodies
    /\ HasParent(p)
    /\ nvEdits' = nvEdits + 1 /\ nvBodies' = nvBodies + 1
    /\ PutFile(p, Document(IF p \in DOMAIN nvDisk THEN nvDisk[p].id ELSE NoNoteId, nvBodies'))
    /\ LET old == IF p \in DOMAIN nvDisk THEN {nvDisk[p].body} ELSE {}
           InWindow == \/ nvOp.step = "write" /\ nvOp.path = p
                       \/ nvOp.step = "trash" /\ InTree(p, nvOp.path)
       IN  nvKeep' = (nvKeep \ old) \cup (IF InWindow THEN {} ELSE {nvBodies'})
    /\ UNCHANGED <<nvRows, nvSeen, nvScan, nvRevs, nvTrash, nvTrashed, nvQueued, nvOp, nvOps, nvDeaths>>

EditorRemoves(p) ==
    /\ nvEdits < MaxNvEdits
    /\ p \in DOMAIN nvDisk
    /\ nvEdits' = nvEdits + 1
    /\ nvDisk' = Without(p)
    /\ nvKeep' = nvKeep \ {nvDisk[q].body : q \in {q \in DOMAIN nvDisk : InTree(q, p)}}
    /\ UNCHANGED <<nvRows, nvSeen, nvScan, nvRevs, nvTrash, nvTrashed, nvQueued, nvOp, nvBodies, nvOps, nvDeaths>>

\* _initialize after a death rebuilds the index only when it is empty; the first
\* list or get finds no signature.
NvDies ==
    /\ nvDeaths < MaxNvDeaths
    /\ nvDeaths' = nvDeaths + 1
    /\ nvOp' = NoOp /\ nvScan' = NoScan /\ nvSeen' = Unsigned /\ nvQueued' = FALSE
    /\ nvRows' = IF nvRows = {} THEN Indexed(nvDisk) ELSE nvRows
    /\ UNCHANGED <<nvDisk, nvRevs, nvTrash, nvTrashed, nvBodies, nvOps, nvEdits, nvKeep>>

NvInit ==
    /\ nvDisk = <<>> /\ nvRows = {} /\ nvSeen = DiskSignature /\ nvScan = NoScan
    /\ nvRevs = {} /\ nvTrash = <<>> /\ nvTrashed = {}
    /\ nvQueued = FALSE /\ nvOp = NoOp
    /\ nvBodies = 0 /\ nvOps = 0 /\ nvEdits = 0 /\ nvDeaths = 0
    /\ nvKeep = {}

NvIndex == ReindexCommits \/ QueueWatcher \/ FlushWatcher \/ SyncIndex \/ RememberSignature
NvWrites ==
    \/ \E p \in NotePaths : CreateRow("note", p)
    \/ \E p \in FolderPaths : InitializeStructure(p)
    \/ MakeFolder
    \/ \E r \in nvRows : UpdateBody(r.id) \/ \E b \in 1 .. MaxBodies : RestoreRevision(r.id, b)
    \/ \E r \in nvRows, p \in NotePaths \cup FolderPaths : Relocate(r.id, p)
    \/ ReplacePrefix \/ SnapshotRevision \/ WriteBody
NvTrashing ==
    \/ \E r \in nvRows : DeleteNode(r.id)
    \/ TrashRow \/ DeleteFails
    \/ \E t \in nvTrashed, p \in NotePaths \cup FolderPaths : RestoreTrash(t, p)
    \/ Untrash
NvOutside ==
    \/ \E p \in NotePaths : EditorSaves(p)
    \/ \E p \in NotePaths \cup FolderPaths : EditorRemoves(p)
    \/ NvDies

NvNext == NvIndex \/ NvWrites \/ NvTrashing \/ NvOutside
NvSpec == NvInit /\ [][NvNext]_nvVars

-----------------------------------------------------------------------------
(* A body that was in a note file, that no editor replaced or removed and   *)
(* that is not behind the newest revisions of its note is still under the   *)
(* Workspace: in a note, in a revision or in the trash, whatever rows the   *)
(* index has at the time and wherever the process died.                     *)
BodyKept == nvKeep \subseteq Stored
=============================================================================
