--------------------------- MODULE ExtensionHooks ---------------------------
(***************************************************************************)
(* Extension hooks: the loader's catalogue (Agent/extensions.py), the      *)
(* grants and the health of a hook source (gateway/state_controller.py),   *)
(* and the callback each Runtime runs around them (Agent/hook.py).         *)
(* Several Runtimes call one hook at the same time: the quarantine is read *)
(* before the handler is awaited and its outcome is recorded after it.     *)
(***************************************************************************)
EXTENDS Naturals, Sequences, FiniteSets

CONSTANTS
    XhRuns,         \* Runtimes, each with its own trace
    XhLawful,       \* sources the loader accepts; all have the same hook name
    XhRejected,     \* sources it refuses
    XhDirs,         \* stage directories a Generation may have: two files in order
    MaxXhCalls,     \* bound: callbacks begun
    MaxXhAdmin,     \* bound: grants, revokes and re-enables
    MaxXhReloads,   \* bound: reloads of the catalogue
    MaxXhFaults     \* bound: outcomes that could not be recorded

XhSources == XhLawful \union XhRejected
NoSource == "no source"

ASSUME XhAssumption ==
    /\ NoSource \notin XhSources
    /\ XhDirs \subseteq [1..2 -> XhSources \union {NoSource}]
NoTrace == [source |-> NoSource, version |-> 0, modify |-> FALSE, invoke |-> FALSE, contract |-> 0]
NoCall == [st |-> "idle", patch |-> FALSE, did |-> {}, since |-> 0, outcome |-> "success"]

VARIABLES
    xhDir,          \* the stage directory of the active Generation, in file order
    xhContract,     \* the contract hash of the tool in that Generation
    xhGrants,       \* extension_capability_grants of a source, by grant_version
    xhHealth,       \* extension_hook_runtime_state: streak, status, revision
    xhAudit,        \* extension_hook_audit of a source: runtime outcomes and re-enables
    xhTrace,        \* the ExtensionTraceSnapshot of an open Runtime
    xhCall,         \* the callback a Runtime is in and what its handler did
    xhSeen,         \* the revision the administrator read
    xhCalls, xhAdmin, xhReloads, xhFaults

xhVars == << xhDir, xhContract, xhGrants, xhHealth, xhAudit, xhTrace, xhCall, xhSeen,
             xhCalls, xhAdmin, xhReloads, xhFaults >>
xhBounds == << xhCalls, xhAdmin, xhReloads, xhFaults >>

XhOutcomes == {"success", "exception", "policy_denial", "contract_violation", "quarantined"}
XhRows == [decision : {"grant", "revoke"}, modify : BOOLEAN, invoke : BOOLEAN, contract : Nat]
XhTypeOK ==
    /\ xhDir \in [1..2 -> XhSources \union {NoSource}]
    /\ xhContract \in Nat
    /\ xhGrants \in [XhLawful -> Seq(XhRows)]
    /\ xhHealth \in [XhLawful -> [streak : Nat, status : {"active", "quarantined"}, revision : Nat]]
    /\ xhAudit \in [XhLawful -> Seq({"success", "exception", "reenable"})]
    /\ xhTrace \in [XhRuns -> [source : XhLawful \union {NoSource}, version : Nat,
                               modify : BOOLEAN, invoke : BOOLEAN, contract : Nat]]
    /\ xhCall \in [XhRuns -> [st : {"idle", "running", "reporting"}, patch : BOOLEAN,
                              did : SUBSET {"patch", "tool"}, since : Nat, outcome : XhOutcomes]]
    /\ xhSeen \in Nat

XhInit ==
    /\ xhDir \in {<<s, NoSource>> : s \in XhLawful}
    /\ xhContract = 1
    /\ xhGrants = [s \in XhLawful |-> << >>]
    /\ xhHealth = [s \in XhLawful |-> [streak |-> 0, status |-> "active", revision |-> 0]]
    /\ xhAudit = [s \in XhLawful |-> << >>]
    /\ xhTrace = [r \in XhRuns |-> NoTrace]
    /\ xhCall = [r \in XhRuns |-> NoCall]
    /\ xhSeen = 0
    /\ xhCalls = 0 /\ xhAdmin = 0 /\ xhReloads = 0 /\ xhFaults = 0

-----------------------------------------------------------------------------
(* The catalogue.                                                          *)

\* A file is loaded or put among the rejections; of two files with one
\* EXTENSION_NAME the first in file order is kept.
Loadable(f) == xhDir[f] \in XhLawful
ScanStage ==
    IF Loadable(1) THEN xhDir[1] ELSE IF Loadable(2) THEN xhDir[2] ELSE NoSource

\* Another Generation becomes active: other files, perhaps other tools.
ActivateCatalog(d, c) ==
    /\ xhReloads < MaxXhReloads
    /\ xhDir' = d /\ xhContract' = c
    /\ xhReloads' = xhReloads + 1
    /\ UNCHANGED << xhGrants, xhHealth, xhAudit, xhTrace, xhCall, xhSeen, xhCalls, xhAdmin, xhFaults >>

-----------------------------------------------------------------------------
(* The administrator.                                                      *)

CreateGrant(s, row) ==
    /\ xhAdmin < MaxXhAdmin
    /\ xhGrants' = [xhGrants EXCEPT ![s] = Append(@, row)]
    /\ xhAdmin' = xhAdmin + 1
    /\ UNCHANGED << xhDir, xhContract, xhHealth, xhAudit, xhTrace, xhCall, xhSeen, xhCalls, xhReloads, xhFaults >>

\* Only a module of the active catalogue is granted anything, and a tool
\* only under the contract hash the tool has now.
GrantExtension(m, t) ==
    /\ ScanStage # NoSource
    /\ CreateGrant(ScanStage, [decision |-> "grant", modify |-> m, invoke |-> t,
                               contract |-> IF t THEN xhContract ELSE 0])

RevokeExtension ==
    /\ ScanStage # NoSource
    /\ CreateGrant(ScanStage, [decision |-> "revoke", modify |-> FALSE, invoke |-> FALSE, contract |-> 0])

ReadStatus ==
    /\ ScanStage # NoSource
    /\ xhSeen' = xhHealth[ScanStage].revision
    /\ UNCHANGED << xhDir, xhContract, xhGrants, xhHealth, xhAudit, xhTrace, xhCall, xhBounds >>

\* No row yet is a KeyError, a revision that moved on is a conflict.
ReenableExtension ==
    LET s == ScanStage IN
    /\ xhAdmin < MaxXhAdmin
    /\ s # NoSource
    /\ xhHealth[s].revision > 0 /\ xhHealth[s].revision = xhSeen
    /\ xhHealth' = [xhHealth EXCEPT ![s] = [streak |-> 0, status |-> "active", revision |-> @.revision + 1]]
    /\ xhAudit' = [xhAudit EXCEPT ![s] = Append(@, "reenable")]
    /\ xhAdmin' = xhAdmin + 1
    /\ UNCHANGED << xhDir, xhContract, xhGrants, xhTrace, xhCall, xhSeen, xhCalls, xhReloads, xhFaults >>

-----------------------------------------------------------------------------
(* A Runtime opens and closes its trace.                                   *)

NoGrant == [decision |-> "revoke", modify |-> FALSE, invoke |-> FALSE, contract |-> 0]

\* The newest row decides.
ResolveGrant(s) == IF xhGrants[s] = << >> THEN NoGrant ELSE xhGrants[s][Len(xhGrants[s])]

\* The capabilities are fixed for the trace; a tool is usable only while its
\* contract is the one that was granted.
TraceSnapshot(s) ==
    LET g == ResolveGrant(s)
        granted == g.decision = "grant"
    IN [source |-> s, version |-> IF granted THEN Len(xhGrants[s]) ELSE 0,
        modify |-> granted /\ g.modify,
        invoke |-> granted /\ g.invoke /\ g.contract = xhContract,
        contract |-> xhContract]

OpenTrace(r) ==
    /\ xhTrace[r] = NoTrace /\ ScanStage # NoSource
    /\ xhTrace' = [xhTrace EXCEPT ![r] = TraceSnapshot(ScanStage)]
    /\ UNCHANGED << xhDir, xhContract, xhGrants, xhHealth, xhAudit, xhCall, xhSeen, xhBounds >>

CloseTrace(r) ==
    /\ xhTrace[r] # NoTrace /\ xhCall[r] = NoCall
    /\ xhTrace' = [xhTrace EXCEPT ![r] = NoTrace]
    /\ UNCHANGED << xhDir, xhContract, xhGrants, xhHealth, xhAudit, xhCall, xhSeen, xhBounds >>

-----------------------------------------------------------------------------
(* The callback of an extension.                                           *)

IsQuarantined(s) == xhHealth[s].status = "quarantined"

\* A quarantined source raises before its handler is called.
CallbackStarts(r) ==
    LET s == xhTrace[r].source IN
    /\ s # NoSource /\ xhCall[r] = NoCall /\ xhCalls < MaxXhCalls
    /\ xhCall' = [xhCall EXCEPT ![r] =
                    IF IsQuarantined(s) THEN [NoCall EXCEPT !.st = "reporting", !.outcome = "quarantined"]
                    ELSE [NoCall EXCEPT !.st = "running", !.since = Len(xhAudit[s])]]
    /\ xhCalls' = xhCalls + 1
    /\ UNCHANGED << xhDir, xhContract, xhGrants, xhHealth, xhAudit, xhTrace, xhSeen, xhAdmin, xhReloads, xhFaults >>

Ends(r, outcome) == [xhCall EXCEPT ![r] = [@ EXCEPT !.st = "reporting", !.outcome = outcome]]

\* replace_model_messages and the like: the patch waits in the buffer.
ReplaceRequest(r) ==
    /\ xhCall[r].st = "running" /\ ~xhCall[r].patch
    /\ xhCall' = IF xhTrace[r].modify THEN [xhCall EXCEPT ![r].patch = TRUE] ELSE Ends(r, "policy_denial")
    /\ UNCHANGED << xhDir, xhContract, xhGrants, xhHealth, xhAudit, xhTrace, xhSeen, xhBounds >>

\* The decision is audited first; the registry refuses what is not in the
\* authorization, and asks nobody for what is.
InvokeTool(r) ==
    /\ xhCall[r].st = "running"
    /\ xhCall' = IF xhTrace[r].invoke THEN [xhCall EXCEPT ![r].did = @ \union {"tool"}]
                 ELSE Ends(r, "policy_denial")
    /\ UNCHANGED << xhDir, xhContract, xhGrants, xhHealth, xhAudit, xhTrace, xhSeen, xhBounds >>

\* The buffer is committed once the handler has returned; a patch the point
\* does not allow changes nothing.
CommitBuffer(r) ==
    /\ xhCall[r].st = "running"
    /\ xhCall' \in {[Ends(r, "success") EXCEPT ![r].did = IF xhCall[r].patch THEN @ \union {"patch"} ELSE @]}
                  \union (IF xhCall[r].patch THEN {Ends(r, "contract_violation")} ELSE {})
    /\ UNCHANGED << xhDir, xhContract, xhGrants, xhHealth, xhAudit, xhTrace, xhSeen, xhBounds >>

\* HookExecutor turns what the handler raised, or its timeout, into an
\* outcome that counts as a runtime failure; the buffer is dropped.
HandlerFails(r) ==
    /\ xhCall[r].st = "running"
    /\ xhCall' = Ends(r, "exception")
    /\ UNCHANGED << xhDir, xhContract, xhGrants, xhHealth, xhAudit, xhTrace, xhSeen, xhBounds >>

\* A cancelled Run leaves the executor without an outcome.
RunCancelled(r) ==
    /\ xhCall[r].st # "idle"
    /\ xhCall' = [xhCall EXCEPT ![r] = NoCall]
    /\ UNCHANGED << xhDir, xhContract, xhGrants, xhHealth, xhAudit, xhTrace, xhSeen, xhBounds >>

\* Slip: a late success of another Runtime lifts the quarantine.
OutcomeHeals(h, outcome) ==
    LET streak == IF outcome = "success" THEN 0
                  ELSE IF outcome = "exception" THEN h.streak + 1 ELSE h.streak
    IN [streak |-> streak, status |-> IF streak >= 3 THEN "quarantined" ELSE "active",
        revision |-> h.revision + 1]

\* Three runtime failures in a row quarantine the source; a success ends the
\* row of failures and lifts nothing.
RecordedHealth(h, outcome) ==
    LET streak == IF outcome = "success" THEN 0
                  ELSE IF outcome = "exception" THEN h.streak + 1 ELSE h.streak
        failed == outcome = "exception"
    IN [streak |-> streak, status |-> IF failed /\ streak >= 3 THEN "quarantined" ELSE h.status,
        revision |-> h.revision + 1]

RecordOutcome(r) ==
    LET s == xhTrace[r].source IN
    /\ xhCall[r].st = "reporting"
    /\ xhHealth' = [xhHealth EXCEPT ![s] = RecordedHealth(@, xhCall[r].outcome)]
    /\ xhAudit' = [xhAudit EXCEPT ![s] =
                    IF xhCall[r].outcome \in {"success", "exception"} THEN Append(@, xhCall[r].outcome) ELSE @]
    /\ xhCall' = [xhCall EXCEPT ![r] = NoCall]
    /\ UNCHANGED << xhDir, xhContract, xhGrants, xhTrace, xhSeen, xhBounds >>

\* The database refuses: an isolated hook swallows that too.
ReporterFails(r) ==
    /\ xhFaults < MaxXhFaults /\ xhCall[r].st = "reporting"
    /\ xhCall' = [xhCall EXCEPT ![r] = NoCall]
    /\ xhFaults' = xhFaults + 1
    /\ UNCHANGED << xhDir, xhContract, xhGrants, xhHealth, xhAudit, xhTrace, xhSeen, xhCalls, xhAdmin, xhReloads >>

XhGranting ==
    \/ \E d \in XhDirs, c \in 1..2 : ActivateCatalog(d, c)
    \/ \E m, t \in BOOLEAN : GrantExtension(m, t)
    \/ RevokeExtension

XhEnabling == ReadStatus \/ ReenableExtension

XhRuntime(r) ==
    \/ OpenTrace(r) \/ CloseTrace(r)
    \/ CallbackStarts(r)
    \/ ReplaceRequest(r) \/ InvokeTool(r)
    \/ CommitBuffer(r) \/ HandlerFails(r) \/ RunCancelled(r)
    \/ RecordOutcome(r) \/ ReporterFails(r)

XhNext == XhGranting \/ XhEnabling \/ \E r \in XhRuns : XhRuntime(r)

XhSpec == XhInit /\ [][XhNext]_xhVars

-----------------------------------------------------------------------------
(* Properties.                                                             *)

\* Three failures of the audit with no success among them.
FailedInARow(log) ==
    \E i, j, k \in DOMAIN log :
        /\ i < j /\ j < k
        /\ \A n \in {i, j, k} : log[n] = "exception"
        /\ \A n \in i..k : log[n] # "success"

SinceReenabled(log) ==
    LET lifts == {n \in DOMAIN log : log[n] = "reenable"} \union {0}
    IN SubSeq(log, (CHOOSE n \in lifts : \A k \in lifts : k <= n) + 1, Len(log))

(***************************************************************************)
(* A handler is called only if the audit up to then holds no three failures *)
(* in a row since an administrator re-enabled the source, whatever the     *)
(* calls of other Runtimes that were in flight reported afterwards         *)
(* (record_extension_hook_outcome, extension_hook_is_quarantined).         *)
(***************************************************************************)
QuarantineHolds ==
    \A r \in XhRuns : xhCall[r].st = "running" =>
        ~FailedInARow(SinceReenabled(SubSeq(xhAudit[xhTrace[r].source], 1, xhCall[r].since)))

(***************************************************************************)
(* Whatever a handler did, a patched request or a tool that ran, rests on  *)
(* the row of the grant its trace was opened with: that row grants it and  *)
(* names the contract the tool has in that Runtime, although grants,       *)
(* revokes and reloads go on while the trace is open (_snapshot,           *)
(* resolve_extension_grant).                                               *)
(***************************************************************************)
PowerIsGranted ==
    \A r \in XhRuns : xhCall[r].did # {} =>
        /\ xhTrace[r].version > 0
        /\ LET row == xhGrants[xhTrace[r].source][xhTrace[r].version] IN
           /\ row.decision = "grant"
           /\ "patch" \in xhCall[r].did => row.modify
           /\ "tool" \in xhCall[r].did => row.invoke /\ row.contract = xhTrace[r].contract

\* No handler is called past its quarantine and none does what it was not granted.
HooksSound == XhTypeOK /\ QuarantineHolds /\ PowerIsGranted
=============================================================================
