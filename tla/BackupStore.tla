---------------------------- MODULE BackupStore ----------------------------
(***************************************************************************)
(* The content-addressed store of backups (backup/object_store.py,         *)
(* backup/snapshot.py) and the completion, listing and retention of        *)
(* snapshots in backup/service.py.  A backup in the Gateway stores its     *)
(* objects, publishes the manifest, verifies it and is recorded in the     *)
(* index; `backup prune` of the command line runs in a process of its own. *)
(***************************************************************************)
EXTENDS Naturals, FiniteSets

CONSTANTS
    Objects,        \* contents of files, by hash
    LastBackup,     \* bound: backups 1 .. LastBackup, by age
    MaxPrunes,      \* bound: retention passes
    MaxStoreDeaths  \* bound: deaths of the Gateway

ASSUME StoAssumption == {LastBackup, MaxPrunes, MaxStoreDeaths} \subseteq Nat

VARIABLES
    objects,    \* object files in the store
    content,    \* objects each snapshot consists of
    manifests,  \* manifest files
    index,      \* index.json: the recorded backups
    phase,      \* phase of each operation
    stored,     \* objects the Gateway put for the active operation
    prune,      \* a retention pass: who runs it, what it keeps
    prunes, sdeaths,
    raced       \* history: backups begun under a retention pass of another process

stoVars == <<objects, content, manifests, index, phase, stored, prune, prunes, sdeaths, raced>>

Backups == 1 .. LastBackup
Active == {b \in Backups : phase[b] \in {"storing", "verifying"}}
NoPrune == [who |-> "none", keep |-> {}]
ReferencedBy(bs) == UNION {content[b] : b \in bs}

\* create(): one active operation; the Gateway's own retention pass is over before it.
StoreBegin(b, objs) ==
    /\ Active = {} /\ prune.who # "gateway"
    /\ phase[b] = "none"
    /\ \A a \in 1 .. b - 1 : phase[a] # "none"
    /\ content' = [content EXCEPT ![b] = objs]
    /\ phase' = [phase EXCEPT ![b] = "storing"]
    /\ stored' = {}
    /\ raced' = IF prune.who = "none" THEN raced ELSE raced \cup {b}
    /\ UNCHANGED <<objects, manifests, index, prune, prunes, sdeaths>>

\* put(): an object that exists is reused.
PutObject(b, o) ==
    /\ phase[b] = "storing"
    /\ o \in content[b] \ stored
    /\ objects' = objects \cup {o}
    /\ stored' = stored \cup {o}
    /\ UNCHANGED <<content, manifests, index, phase, prune, prunes, sdeaths, raced>>

\* write_manifest, then VERIFYING.
PublishManifest(b) ==
    /\ phase[b] = "storing"
    /\ stored = content[b]
    /\ manifests' = manifests \cup {b}
    /\ phase' = [phase EXCEPT ![b] = "verifying"]
    /\ UNCHANGED <<objects, content, index, stored, prune, prunes, sdeaths, raced>>

\* _verify_snapshot_manifest reads every object back.
Verified(b) == b \in manifests /\ content[b] \subseteq objects

\* _verify_and_complete: recorded, then COMPLETED; the manifest of a failed one stays.
CompleteOrFail(b) ==
    /\ phase[b] = "verifying"
    /\ phase' = [phase EXCEPT ![b] = IF Verified(b) THEN "completed" ELSE "failed"]
    /\ index' = IF Verified(b) THEN (index \cap manifests) \cup manifests ELSE index
    /\ UNCHANGED <<objects, content, manifests, stored, prune, prunes, sdeaths, raced>>

\* A member changed, an identity conflict, an I/O error.
StoreFails(b) ==
    /\ b \in Active
    /\ phase' = [phase EXCEPT ![b] = "failed"]
    /\ UNCHANGED <<objects, content, manifests, index, stored, prune, prunes, sdeaths, raced>>

\* After a restart the staged snapshot is stored again from its beginning, or given up.
StoreDies ==
    /\ sdeaths < MaxStoreDeaths
    /\ sdeaths' = sdeaths + 1
    /\ stored' = {}
    /\ prune' = IF prune.who = "gateway" THEN NoPrune ELSE prune
    /\ UNCHANGED <<objects, content, manifests, index, phase, prunes, raced>>

------------------------------------------------------------------------------
(* apply_retention                                                           *)

\* Slip: an active operation does not stop it.
PruneBeginAnyTime(who, oldest) ==
    /\ prune.who = "none" /\ prunes < MaxPrunes
    /\ prunes' = prunes + 1
    /\ LET keep == {b \in manifests : b > oldest} IN
       /\ manifests' = keep
       /\ prune' = [who |-> who, keep |-> keep]
    /\ UNCHANGED <<objects, content, index, phase, stored, sdeaths, raced>>

\* Everything listed that is too old, or too much, goes, the oldest first; a manifest the index does
\* not know is listed as well.
PruneBegin(who, oldest) ==
    /\ Active = {}
    /\ prune.who = "none" /\ prunes < MaxPrunes
    /\ prunes' = prunes + 1
    /\ LET keep == {b \in manifests : b > oldest} IN
       /\ manifests' = keep
       /\ prune' = [who |-> who, keep |-> keep]
    /\ UNCHANGED <<objects, content, index, phase, stored, sdeaths, raced>>

\* _collect_unreferenced_objects: what the kept manifests do not name.
CollectObject(o) ==
    /\ prune.who # "none"
    /\ o \in objects \ ReferencedBy(prune.keep)
    /\ objects' = objects \ {o}
    /\ UNCHANGED <<content, manifests, index, phase, stored, prune, prunes, sdeaths, raced>>

PruneEnd ==
    /\ prune.who # "none"
    /\ index' = prune.keep
    /\ prune' = NoPrune
    /\ UNCHANGED <<objects, content, manifests, phase, stored, prunes, sdeaths, raced>>

------------------------------------------------------------------------------
StoInit ==
    /\ objects = {} /\ manifests = {} /\ index = {}
    /\ content = [b \in Backups |-> {}]
    /\ phase = [b \in Backups |-> "none"]
    /\ stored = {} /\ prune = NoPrune /\ prunes = 0 /\ sdeaths = 0 /\ raced = {}

StoNext ==
    \/ \E b \in Backups, objs \in SUBSET Objects : StoreBegin(b, objs)
    \/ \E b \in Backups, o \in Objects : PutObject(b, o)
    \/ \E b \in Backups : PublishManifest(b)
    \/ \E b \in Backups : CompleteOrFail(b)
    \/ \E b \in Backups : StoreFails(b)
    \/ StoreDies
    \/ \E who \in {"gateway", "cli"}, oldest \in 0 .. LastBackup : PruneBegin(who, oldest)
    \/ \E o \in Objects : CollectObject(o)
    \/ PruneEnd

StoSpec == StoInit /\ [][StoNext]_stoVars

------------------------------------------------------------------------------
StoTypeOK ==
    /\ objects \subseteq Objects
    /\ content \in [Backups -> SUBSET Objects]
    /\ manifests \subseteq Backups /\ index \subseteq Backups
    /\ phase \in [Backups -> {"none", "storing", "verifying", "completed", "failed"}]

\* A completed backup that is still listed can be restored: all its objects are there, although
\* backups share objects, failed ones leave some behind and retention collects them; unless it was
\* begun while `backup prune` of another process had chosen what to keep.
CompletedRestorable ==
    \A b \in manifests \ raced : phase[b] = "completed" => content[b] \subseteq objects

\* The object store keeps what the manifests promise.
BackupsSound == StoTypeOK /\ CompletedRestorable
=============================================================================
