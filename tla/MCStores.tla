------------------------------ MODULE MCStores ------------------------------
(***************************************************************************)
(* The components that keep files and rows beside the Run ledger, each     *)
(* explored on its own from one initial state: they share no state, so a   *)
(* behaviour of the composition is one of each component.                  *)
(***************************************************************************)
EXTENDS Restore, BackupStore, SessionLog, NoteVault, PaperLibrary, DreamMemory

CONSTANT Foci   \* the components to explore

VARIABLE focus

\* Grouped so that a component leaves the others' groups alone.
rstAll == << rstVars, stoVars >>
fileAll == << slVars, nvVars, plVars >>
memoryAll == << dmVars, lmVars >>

TwoWorkspaces == << "w1", "w2" >>
UserRefs == {<< "user", 0 >>}

Init ==
    /\ focus \in Foci
    /\ RstInit /\ StoInit /\ SlInit /\ NvInit /\ PlInit /\ LmInit /\ DmInit
    /\ focus # "session" => slDisk.entry = << >>

OfRestore == focus = "restore" /\ RstNext /\ UNCHANGED << stoVars, fileAll, memoryAll >>
OfBackupStore == focus = "backups" /\ StoNext /\ UNCHANGED << rstVars, fileAll, memoryAll >>
OfSession == focus = "session" /\ SlNext /\ UNCHANGED << rstAll, nvVars, plVars, memoryAll >>
OfVault == focus = "notes" /\ NvNext /\ UNCHANGED << rstAll, slVars, plVars, memoryAll >>
OfLibrary == focus = "papers" /\ PlNext /\ UNCHANGED << rstAll, slVars, nvVars, memoryAll >>
OfIndex == focus = "memory" /\ (LmWriting \/ LmIndexing) /\ UNCHANGED << rstAll, fileAll, dmVars >>
OfProfile == focus = "profile" /\ (LmWriting \/ LmProjecting) /\ UNCHANGED << rstAll, fileAll, dmVars >>
OfDream == focus = "dream" /\ DmNext /\ UNCHANGED << rstAll, fileAll >>

Next ==
    /\ UNCHANGED focus
    /\ \/ OfRestore \/ OfBackupStore \/ OfSession \/ OfVault \/ OfLibrary
       \/ OfIndex \/ OfProfile \/ OfDream

vars == << focus, rstAll, fileAll, memoryAll >>
Spec == Init /\ [][Next]_vars

\* Past a race the README lists as a deviation nothing more is claimed.
Undisturbed == ~slHurt
=============================================================================
