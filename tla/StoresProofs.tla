---------------------------- MODULE StoresProofs ----------------------------
(***************************************************************************)
(* Theorems about the stores beside the ledger, one section per component. *)
(* Each section states the inductive invariant its properties need, shows  *)
(* that every action keeps it and concludes for the specification.         *)
(***************************************************************************)
EXTENDS Restore, BackupStore, PaperLibrary, DreamMemory, FiniteSetTheorems,
        SequenceTheorems, TLAPS

-----------------------------------------------------------------------------
(* BackupStore: the object store keeps what its manifests promise.         *)

(* A retention pass has chosen what to keep: whatever is stored beside it   *)
(* was begun under it, and every other manifest is among the kept ones.     *)
PrunePasses ==
    /\ prune.keep \subseteq Backups
    /\ prune.who # "none" => /\ Active \subseteq raced
                             /\ manifests \ raced \subseteq prune.keep

StoInv == StoTypeOK /\ prune \in [who : {"none", "gateway", "cli"}, keep : SUBSET Backups]
          /\ PrunePasses /\ CompletedRestorable

LEMMA StoInitial == StoInit => StoInv
  BY DEF StoInit, StoInv, StoTypeOK, PrunePasses, CompletedRestorable, NoPrune

LEMMA StoStep == StoInv /\ [StoNext]_stoVars => StoInv'
<1> SUFFICES ASSUME StoInv, [StoNext]_stoVars PROVE StoInv'
  OBVIOUS
<1> USE DEF StoInv, StoTypeOK, PrunePasses, CompletedRestorable, Active
<1>1. ASSUME NEW b \in Backups, NEW objs \in SUBSET Objects, StoreBegin(b, objs) PROVE StoInv'
  BY <1>1 DEF StoreBegin
<1>2. ASSUME NEW b \in Backups, NEW o \in Objects, PutObject(b, o) PROVE StoInv'
  BY <1>2 DEF PutObject
<1>3. ASSUME NEW b \in Backups, PublishManifest(b) PROVE StoInv'
  BY <1>3 DEF PublishManifest
<1>4. ASSUME NEW b \in Backups, CompleteOrFail(b) PROVE StoInv'
  BY <1>4 DEF CompleteOrFail, Verified
<1>5. ASSUME NEW b \in Backups, StoreFails(b) PROVE StoInv'
  BY <1>5 DEF StoreFails
<1>6. CASE StoreDies
  BY <1>6 DEF StoreDies, NoPrune
<1>7. ASSUME NEW who \in {"gateway", "cli"}, NEW oldest \in 0 .. LastBackup, PruneBegin(who, oldest)
      PROVE  StoInv'
  BY <1>7 DEF PruneBegin
<1>8. ASSUME NEW o \in Objects, CollectObject(o) PROVE StoInv'
  BY <1>8 DEF CollectObject, ReferencedBy
<1>9. CASE PruneEnd
  BY <1>9 DEF PruneEnd, NoPrune
<1>10. CASE UNCHANGED stoVars
  BY <1>10 DEF stoVars
<1> QED
  BY <1>1, <1>2, <1>3, <1>4, <1>5, <1>6, <1>7, <1>8, <1>9, <1>10 DEF StoNext

(* For any number of backups, objects, retention passes and deaths: a       *)
(* completed backup that is listed has all its objects (object_store.py,    *)
(* service.py, apply_retention and _collect_unreferenced_objects).          *)
THEOREM BackupsRestorable == StoSpec => []BackupsSound
<1>1. StoInv => BackupsSound
  BY DEF StoInv, BackupsSound
<1> QED
  BY StoInitial, StoStep, <1>1, PTL DEF StoSpec
-----------------------------------------------------------------------------
(* Restore: the home survives every order of failures, deaths, recoveries   *)
(* and rollbacks.                                                           *)

Forward == {"extract", "rescue", "old", "new", "next", "validate", "unfence"}
Backward == {"quarantine", "restore-old", "rolled-back"}
HomeMoves == {<< "live", "rollback" >>, << "staged", "live" >>, << "live", "failed" >>, << "rollback", "live" >>}

(* The rename under way has not happened yet.                               *)
Pending == move.step \in {"intent", "rename"}
IsMove(m, root, from, to) == m.root = root /\ m.from = from /\ m.to = to

Intents == [root : Roots, from : Slots, to : Slots, what : {"old", "new"}, retry : BOOLEAN]
Moves == [step : {"intent", "rename", "commit"}, root : Roots, from : Slots, to : Slots, retry : BOOLEAN]

RstTypes ==
    /\ RstTypeOK
    /\ fence \in BOOLEAN /\ torn \in BOOLEAN /\ unsafe \in BOOLEAN
    /\ at \in DOMAIN Order
    /\ begun \in Nat /\ rdeaths \in Nat
    /\ restored \subseteq Roots \ {"home"}
    /\ pc \in Forward \cup Backward \cup {"idle", "reconcile", "ws-install"}
    /\ intents \subseteq Intents
    /\ \A i \in intents : << i.from, i.to >> \in HomeMoves
    /\ \/ move = NoMove
       \/ /\ move \in Moves
          /\ << move.from, move.to >> \in HomeMoves

(* Who holds the lock is where its program is, under the fence or not.      *)
RstHolders ==
    /\ holder = "none" <=> pc = "idle"
    /\ holder = "workspace" <=> pc = "ws-install"
    /\ holder = "recover" <=> pc = "reconcile"
    /\ pc \in Forward => holder = "restore"
    /\ holder \in {"restore", "recover", "rollback"} => fence
    /\ holder = "workspace" => ~fence /\ Order[at] # "home"
    /\ gw = "up" => ~fence /\ holder # "workspace"
    /\ pc \in {"extract", "rescue"} => at = 1
    /\ pc \in {"validate", "unfence"} => at = Len(Order)
    /\ pc = "unfence" => jstate = "COMMITTED"

(* Which rename each step of the program has begun.                         *)
RstMoves ==
    /\ Pending => tree[move.root][move.from] # "none"
    /\ move # NoMove => pc \in {"new", "next", "restore-old", "rolled-back", "reconcile"}
    /\ move # NoMove /\ pc = "new" => IsMove(move, Order[at], "live", "rollback")
    /\ move # NoMove /\ pc = "next" => IsMove(move, Order[at], "staged", "live")
    /\ move # NoMove /\ pc = "restore-old" => IsMove(move, "home", "live", "failed")
    /\ move # NoMove /\ pc = "rolled-back" => IsMove(move, "home", "rollback", "live")
    /\ move # NoMove /\ pc = "reconcile" =>
          \E i \in intents : IsMove(i, move.root, move.from, move.to)
    /\ pc \in {"rescue", "old"} /\ at = 1 => tree["home"].staged = "new"
    /\ pc = "new" => tree[Order[at]].staged = "new"
    /\ pc = "next" /\ Pending => tree[Order[at]].staged = "new"

(* The home is never gone, and in place wherever the program relies on it.  *)
HomeInPlace ==
    LET h == tree["home"] IN
    /\ h.live # "none" \/ h.rollback # "none"
    /\ ~fence => h.live # "none"
    /\ jstate = "COMMITTED" => pc \in {"idle", "unfence", "ws-install"} /\ h.live # "none"
    /\ pc = "next" /\ at = 1 /\ ~Pending => h.live # "none"
    /\ pc \in {"old", "new", "next"} /\ at > 1 => h.live # "none"
    /\ pc \in {"validate", "unfence"} => h.live # "none"
    /\ pc = "rolled-back" /\ ~Pending => h.live # "none" /\ h.rollback = "none"

(* A home that is to be quarantined, and is not yet, has its old one aside. *)
QuarantineSafe ==
    LET h == tree["home"] IN
    /\ fence
    /\ h.failed = "none"
    /\ \/ \E i \in intents : IsMove(i, "home", "live", "failed")
       \/ Pending /\ IsMove(move, "home", "live", "failed")
    => h.live # "none" /\ h.rollback # "none"

(* Through the first restore the old home has only two places.              *)
FirstRestore ==
    LET h == tree["home"] IN
    begun <= 1 =>
        /\ h.rollback \in {"none", "old"}
        /\ \A i \in intents : IsMove(i, "home", "live", "rollback") => i.what = "old"
        /\ Pending /\ IsMove(move, "home", "live", "rollback") => h.live = "old"
        /\ pc \in {"extract", "rescue", "old"} /\ at = 1 => h.live = "old" /\ h.rollback = "none"
        /\ fence \/ jstate # "COMMITTED" => h.live = "old" \/ h.rollback = "old"
        /\ ~fence /\ jstate # "COMMITTED" => h.live = "old"
        /\ begun = 0 => /\ jstate = "none" /\ holder = "none" /\ ~fence /\ ~unsafe
                        /\ \A r \in Roots : tree[r].live = "old" /\ tree[r].rollback = "none"

Placed(r, live, rollback) == tree[r].live = live /\ tree[r].rollback = rollback

(* Without a death, the roots before the one in hand are new, the ones      *)
(* behind it old, and the list names exactly the workspaces begun.          *)
StraightForward ==
    /\ \A k \in DOMAIN Order : k < at => Placed(Order[k], "new", "old")
    /\ \A k \in DOMAIN Order : k > at => Placed(Order[k], "old", "none")
    /\ pc \in {"extract", "rescue", "old"} \/ (pc = "new" /\ Pending) => Placed(Order[at], "old", "none")
    /\ (pc = "new" /\ ~Pending) \/ (pc = "next" /\ Pending) => Placed(Order[at], "none", "old")
    /\ (pc = "next" /\ ~Pending) \/ pc \in {"validate", "unfence"} => Placed(Order[at], "new", "old")
    /\ restored = {Order[k] : k \in 2 .. (IF pc \in {"extract", "rescue", "old"} THEN at - 1 ELSE at)}
    /\ ~unsafe

StraightRestore ==
    begun <= 1 /\ rdeaths = 0 =>
        /\ holder \in {"none", "restore", "workspace"}
        /\ fence <=> holder = "restore"
        /\ holder = "workspace" => jstate = "none"
        /\ pc \in Forward => StraightForward
        /\ pc \in Backward /\ ~unsafe => \A r \in Roots \ {"home"} : tree[r].live = "old"
        /\ holder = "none" /\ ~unsafe =>
              \/ jstate = "COMMITTED" /\ \A r \in Roots : tree[r].live = "new"
              \/ jstate = "ROLLED_BACK" /\ \A r \in Roots : tree[r].live = "old"
              \/ jstate = "none"

RstInv == RstTypes /\ RstHolders /\ RstMoves /\ HomeInPlace /\ QuarantineSafe /\ FirstRestore /\ StraightRestore
(* The order of the roots: the home first, every workspace once.            *)
LEMMA OrderOfRoots ==
    /\ Len(Order) \in Nat \ {0} /\ DOMAIN Order = 1 .. Len(Order)
    /\ Order[1] = "home"
    /\ \A i, j \in DOMAIN Order : Order[i] = Order[j] => i = j
    /\ \A i \in DOMAIN Order : Order[i] \in Roots
    /\ "home" \in Roots
    /\ \A r \in Roots : \E i \in DOMAIN Order : r = Order[i]
    /\ \A k \in DOMAIN Workspaces : Workspaces[k] \in Roots \ {"home"}
<1>1. Workspaces \in Seq(STRING \ {"home"}) /\ Len(Workspaces) \in Nat /\ DOMAIN Workspaces = 1 .. Len(Workspaces)
  BY RstAssumption
<1>2. Len(Order) = Len(Workspaces) + 1 /\ DOMAIN Order = 1 .. Len(Workspaces) + 1
  BY <1>1 DEF Order
<1>3. Order[1] = "home" /\ \A k \in DOMAIN Workspaces : Order[k + 1] = Workspaces[k]
  BY <1>1, <1>2 DEF Order
<1>4. \A k \in DOMAIN Order : k # 1 => k - 1 \in DOMAIN Workspaces /\ Order[k] = Workspaces[k - 1]
  BY <1>1, <1>2, <1>3
<1>5. \A k \in DOMAIN Workspaces : Workspaces[k] # "home"
  BY <1>1
<1>6. \A i, j \in DOMAIN Order : Order[i] = Order[j] => i = j
  BY <1>1, <1>2, <1>3, <1>4, <1>5, RstAssumption
<1>7. \A k \in DOMAIN Workspaces : Workspaces[k] \in Roots
  BY <1>1, <1>2, <1>3 DEF Roots
<1> QED
  BY <1>1, <1>2, <1>3, <1>5, <1>6, <1>7 DEF Roots

(* Undoing a workspace whose old directory is aside puts it back.           *)
LEMMA UndoneIsOld ==
  ASSUME tree \in [Roots -> [Slots -> {"none", "old", "new"}]], NEW r \in Roots
  PROVE  /\ Undone(r) \in [Slots -> {"none", "old", "new"}]
         /\ tree[r].rollback # "none" => Undone(r).live = tree[r].rollback
<1> USE DEF Slots
<1> DEFINE t == IF tree[r].live # "none" THEN Renamed(r, "live", "failed")[r] ELSE tree[r]
<1>1. t \in [Slots -> {"none", "old", "new"}] /\ t.rollback = tree[r].rollback
  BY DEF Renamed
<1>2. Undone(r) = IF t.rollback # "none" THEN [t EXCEPT !.live = t.rollback, !.rollback = "none"] ELSE t
  BY DEF Undone
<1> HIDE DEF t
<1> QED
  BY <1>1, <1>2

LEMMA RstInitial == RstInit => RstInv
<1> SUFFICES ASSUME RstInit PROVE RstInv
  OBVIOUS
<1> USE OrderOfRoots DEF RstInit, Pending, NoMove, Slots, Forward, Backward
<1>1. RstTypes
  <2>1. RstTypeOK
    BY DEF RstTypeOK
  <2>2. fence \in BOOLEAN /\ torn \in BOOLEAN /\ unsafe \in BOOLEAN
    OBVIOUS
  <2>3. at \in DOMAIN Order /\ begun \in Nat /\ rdeaths \in Nat /\ restored \subseteq Roots \ {"home"}
    OBVIOUS
  <2> QED
    BY <2>1, <2>2, <2>3 DEF RstTypes
<1>2. RstHolders /\ RstMoves
  BY DEF RstHolders, RstMoves
<1>3. HomeInPlace /\ QuarantineSafe
  BY DEF HomeInPlace, QuarantineSafe
<1>4. FirstRestore /\ StraightRestore
  BY DEF FirstRestore, StraightRestore
<1> QED
  BY <1>1, <1>2, <1>3, <1>4 DEF RstInv

LEMMA RstRenameIntent == RstInv /\ RenameIntent => RstInv'
<1> SUFFICES ASSUME RstInv, RenameIntent PROVE RstInv'
  OBVIOUS
<1> USE OrderOfRoots DEF RenameIntent, RstInv, RstTypes, RstTypeOK, RstHolders, RstMoves, Pending, NoMove, Ready, IsMove, Slots, Forward, Backward, HomeMoves, Moves, Intents, journalVars, outsideVars, Begin, Put, Renamed
<1>1. RstTypes'
  <2>1. RstTypeOK'
    OBVIOUS
  <2>2. (fence \in BOOLEAN /\ torn \in BOOLEAN /\ unsafe \in BOOLEAN)'
    OBVIOUS
  <2>3. (at \in DOMAIN Order /\ begun \in Nat /\ rdeaths \in Nat /\ restored \subseteq Roots \ {"home"})'
    OBVIOUS
  <2>4. (intents \subseteq Intents /\ \A i \in intents : << i.from, i.to >> \in HomeMoves)'
    BY DEF Intents
  <2>5. (move = NoMove \/ (move \in Moves /\ << move.from, move.to >> \in HomeMoves))'
    BY DEF Moves
  <2> QED
    BY <2>1, <2>2, <2>3, <2>4, <2>5
<1>2. RstHolders'
  OBVIOUS
<1>3. RstMoves'
  OBVIOUS
<1>4. HomeInPlace'
  BY DEF HomeInPlace, QuarantineSafe
<1>5. QuarantineSafe'
  BY DEF QuarantineSafe, HomeInPlace
<1>6. FirstRestore'
  BY DEF FirstRestore, HomeInPlace, QuarantineSafe
<1>7. StraightRestore'
  BY SMTT(30) DEF StraightRestore, StraightForward, FirstRestore, HomeInPlace,
     Placed
<1> QED
  BY <1>1, <1>2, <1>3, <1>4, <1>5, <1>6, <1>7

LEMMA RstRenameMove == RstInv /\ RenameMove => RstInv'
<1> SUFFICES ASSUME RstInv, RenameMove PROVE RstInv'
  OBVIOUS
<1> USE OrderOfRoots DEF RenameMove, RstInv, RstTypes, RstTypeOK, RstHolders, RstMoves, Pending, NoMove, Ready, IsMove, Slots, Forward, Backward, HomeMoves, Moves, Intents, journalVars, outsideVars, Begin, Put, Renamed
<1>1. RstTypes'
  OBVIOUS
<1>2. RstHolders'
  OBVIOUS
<1>3. RstMoves'
  OBVIOUS
<1>4. HomeInPlace'
  BY DEF HomeInPlace, QuarantineSafe
<1>5. QuarantineSafe'
  BY DEF QuarantineSafe, HomeInPlace
<1>6. FirstRestore'
  BY DEF FirstRestore, HomeInPlace, QuarantineSafe
<1>7. StraightRestore'
  <2> SUFFICES ASSUME begun <= 1, rdeaths = 0 PROVE StraightRestore'
    BY DEF StraightRestore
  <2>1. holder = "restore" /\ fence
    BY DEF StraightRestore
  <2>2. CASE pc \in {"new", "next"}
    <3>1. StraightForward /\ move.root = Order[at]
      BY <2>2 DEF StraightRestore
    <3>2. \A k \in DOMAIN Order : k # at => Order[k] # Order[at] /\ tree'[Order[k]] = tree[Order[k]]
      BY <3>1
    <3>3. pc = "new" => Placed(Order[at], "none", "old")'
      BY <3>1 DEF StraightForward, Placed
    <3>4. pc = "next" => Placed(Order[at], "new", "old")'
      BY SMTT(30), <3>1 DEF StraightForward, Placed
    <3>5. CASE pc = "new"
      <4>1. Placed(Order[at], "none", "old")'
        BY <3>3, <3>5
      <4>2. ~Pending' /\ UNCHANGED <<at, pc, restored, unsafe>>
        BY <3>5
      <4>3. \A k \in DOMAIN Order : k < at => Placed(Order[k], "new", "old")'
        BY <3>1, <3>2 DEF StraightForward, Placed
      <4>4. \A k \in DOMAIN Order : k > at => Placed(Order[k], "old", "none")'
        BY <3>1, <3>2 DEF StraightForward, Placed
      <4>5. restored = {Order[k] : k \in 2 .. at} /\ ~unsafe
        BY <3>5, <3>1 DEF StraightForward
      <4>6. StraightForward'
        <5> HIDE DEF RenameMove, RstInv, RstTypes, RstTypeOK, RstHolders, RstMoves, Ready, Moves, Pending
        <5> QED
          BY <3>5, <4>1, <4>2, <4>3, <4>4, <4>5 DEF StraightForward
      <4> QED
        BY <2>1, <3>5, <4>6 DEF StraightRestore
    <3>6. CASE pc = "next"
      <4>1. Placed(Order[at], "new", "old")'
        BY <3>4, <3>6
      <4>2. ~Pending' /\ UNCHANGED <<at, pc, restored, unsafe>>
        BY <3>6
      <4>3. \A k \in DOMAIN Order : k < at => Placed(Order[k], "new", "old")'
        BY <3>1, <3>2 DEF StraightForward, Placed
      <4>4. \A k \in DOMAIN Order : k > at => Placed(Order[k], "old", "none")'
        BY <3>1, <3>2 DEF StraightForward, Placed
      <4>5. restored = {Order[k] : k \in 2 .. at} /\ ~unsafe
        BY <3>6, <3>1 DEF StraightForward
      <4>6. StraightForward'
        <5> HIDE DEF RenameMove, RstInv, RstTypes, RstTypeOK, RstHolders, RstMoves, Ready, Moves, Pending
        <5> QED
          BY <3>6, <4>1, <4>2, <4>3, <4>4, <4>5 DEF StraightForward
      <4> QED
        BY <2>1, <3>6, <4>6 DEF StraightRestore
    <3> QED
      BY <2>2, <3>5, <3>6
  <2>3. CASE pc \in {"restore-old", "rolled-back"}
    <3>1. \A r \in Roots \ {"home"} : tree'[r] = tree[r]
      BY <2>3
    <3> QED
      BY <2>1, <2>3, <3>1 DEF StraightRestore
  <2> QED
    BY SMTT(30), <2>1, <2>2, <2>3
<1> QED
  BY <1>1, <1>2, <1>3, <1>4, <1>5, <1>6, <1>7

LEMMA RstRenameCommit == RstInv /\ RenameCommit => RstInv'
<1> SUFFICES ASSUME RstInv, RenameCommit PROVE RstInv'
  OBVIOUS
<1> USE OrderOfRoots DEF RenameCommit, RstInv, RstTypes, RstTypeOK, RstHolders, RstMoves, Pending, NoMove, Ready, IsMove, Slots, Forward, Backward, HomeMoves, Moves, Intents, journalVars, outsideVars, Begin, Put, Renamed
<1>1. RstTypes'
  OBVIOUS
<1>2. RstHolders'
  OBVIOUS
<1>3. RstMoves'
  OBVIOUS
<1>4. HomeInPlace'
  BY DEF HomeInPlace, QuarantineSafe
<1>5. QuarantineSafe'
  BY DEF QuarantineSafe, HomeInPlace
<1>6. FirstRestore'
  BY DEF FirstRestore, HomeInPlace, QuarantineSafe
<1>7. StraightRestore'
  BY SMTT(30) DEF StraightRestore, StraightForward, FirstRestore, HomeInPlace,
     Placed
<1> QED
  BY <1>1, <1>2, <1>3, <1>4, <1>5, <1>6, <1>7

LEMMA RstRestoreBegin == RstInv /\ RestoreBegin => RstInv'
<1> SUFFICES ASSUME RstInv, RestoreBegin PROVE RstInv'
  OBVIOUS
<1> USE OrderOfRoots DEF RestoreBegin, RstInv, RstTypes, RstTypeOK, RstHolders, RstMoves, Pending, NoMove, Ready, IsMove, Slots, Forward, Backward, HomeMoves, Moves, Intents, journalVars, outsideVars, Begin, Put, Renamed
<1>1. RstTypes'
  <2>1. RstTypeOK'
    OBVIOUS
  <2>2. (fence \in BOOLEAN /\ torn \in BOOLEAN /\ unsafe \in BOOLEAN)'
    OBVIOUS
  <2>3. (at \in DOMAIN Order /\ begun \in Nat /\ rdeaths \in Nat /\ restored \subseteq Roots \ {"home"})'
    OBVIOUS
  <2>4. (intents \subseteq Intents /\ \A i \in intents : << i.from, i.to >> \in HomeMoves)'
    BY DEF Intents
  <2>5. (move = NoMove \/ (move \in Moves /\ << move.from, move.to >> \in HomeMoves))'
    BY DEF Moves
  <2> QED
    BY <2>1, <2>2, <2>3, <2>4, <2>5
<1>2. RstHolders'
  OBVIOUS
<1>3. RstMoves'
  OBVIOUS
<1>4. HomeInPlace'
  BY DEF HomeInPlace, QuarantineSafe
<1>5. QuarantineSafe'
  BY DEF QuarantineSafe, HomeInPlace
<1>6. FirstRestore'
  BY DEF FirstRestore, HomeInPlace, QuarantineSafe
<1>7. StraightRestore'
  BY DEF StraightRestore, StraightForward, FirstRestore, HomeInPlace, Placed
<1> QED
  BY <1>1, <1>2, <1>3, <1>4, <1>5, <1>6, <1>7

LEMMA RstExtract == RstInv /\ Extract => RstInv'
<1> SUFFICES ASSUME RstInv, Extract PROVE RstInv'
  OBVIOUS
<1> USE OrderOfRoots DEF Extract, RstInv, RstTypes, RstTypeOK, RstHolders, RstMoves, Pending, NoMove, Ready, IsMove, Slots, Forward, Backward, HomeMoves, Moves, Intents, journalVars, outsideVars, Begin, Put, Renamed
<1>1. RstTypes'
  OBVIOUS
<1>2. RstHolders'
  OBVIOUS
<1>3. RstMoves'
  OBVIOUS
<1>4. HomeInPlace'
  BY DEF HomeInPlace, QuarantineSafe
<1>5. QuarantineSafe'
  BY DEF QuarantineSafe, HomeInPlace
<1>6. FirstRestore'
  BY DEF FirstRestore, HomeInPlace, QuarantineSafe
<1>7. StraightRestore'
  BY DEF StraightRestore, StraightForward, FirstRestore, HomeInPlace, Placed
<1> QED
  BY <1>1, <1>2, <1>3, <1>4, <1>5, <1>6, <1>7

LEMMA RstRescue == RstInv /\ Rescue => RstInv'
<1> SUFFICES ASSUME RstInv, Rescue PROVE RstInv'
  OBVIOUS
<1> USE OrderOfRoots DEF Rescue, RstInv, RstTypes, RstTypeOK, RstHolders, RstMoves, Pending, NoMove, Ready, IsMove, Slots, Forward, Backward, HomeMoves, Moves, Intents, journalVars, outsideVars, Begin, Put, Renamed
<1>1. RstTypes'
  OBVIOUS
<1>2. RstHolders'
  OBVIOUS
<1>3. RstMoves'
  OBVIOUS
<1>4. HomeInPlace'
  BY DEF HomeInPlace, QuarantineSafe
<1>5. QuarantineSafe'
  BY DEF QuarantineSafe, HomeInPlace
<1>6. FirstRestore'
  BY DEF FirstRestore, HomeInPlace, QuarantineSafe
<1>7. StraightRestore'
  BY DEF StraightRestore, StraightForward, FirstRestore, HomeInPlace, Placed
<1> QED
  BY <1>1, <1>2, <1>3, <1>4, <1>5, <1>6, <1>7

LEMMA RootAt ==
  ASSUME RstInv
  PROVE  /\ at \in DOMAIN Order /\ Order[at] \in Roots
         /\ at # 1 => Order[at] \in Roots \ {"home"}
<1>1. at \in DOMAIN Order
  BY DEF RstInv, RstTypes
<1>2. 1 \in DOMAIN Order /\ Order[1] = "home"
  BY OrderOfRoots
<1>3. Order[at] = "home" => at = 1
  BY <1>1, <1>2, OrderOfRoots
<1>4. Order[at] \in Roots
  BY <1>1, OrderOfRoots
<1> QED
  BY <1>1, <1>3, <1>4

LEMMA MoveOldTypes ==
  ASSUME RstInv, MoveOld
  PROVE  RstTypeOK' /\ restored' \subseteq Roots \ {"home"}
<1>1. /\ tree \in [Roots -> [Slots -> {"none", "old", "new"}]]
      /\ restored \subseteq Roots \ {"home"}
  BY DEF RstInv, RstTypes, RstTypeOK
<1>2. PICK r \in Roots : r = Order[at]
  BY RootAt
<1>3. CASE at = 1
  BY <1>1, <1>3 DEF MoveOld, RstInv, RstTypes, RstTypeOK, journalVars, outsideVars
<1>4. CASE at # 1
  <2>1. tree' = [tree EXCEPT ![r]["staged"] = "new"] /\ restored' = restored \cup {r}
    BY <1>2, <1>4 DEF MoveOld, Put
  <2>2. tree' \in [Roots -> [Slots -> {"none", "old", "new"}]]
    BY <1>1, <2>1 DEF Slots
  <2>3. r # "home"
    BY <1>2, <1>4, RootAt
  <2>4. restored' \subseteq Roots \ {"home"}
    BY <1>1, <2>1, <2>3
  <2>5. UNCHANGED << commits, intents, holder, gw, gate >>
    BY DEF MoveOld, journalVars, outsideVars
  <2> QED
    BY <2>2, <2>4, <2>5 DEF RstInv, RstTypes, RstTypeOK
<1> QED
  BY <1>3, <1>4

LEMMA RstMoveOld == RstInv /\ MoveOld => RstInv'
<1> SUFFICES ASSUME RstInv, MoveOld PROVE RstInv'
  OBVIOUS
<1>a. RstTypeOK' /\ restored' \subseteq Roots \ {"home"}
  BY MoveOldTypes
<1> USE OrderOfRoots DEF MoveOld, RstInv, RstTypes, RstTypeOK, RstHolders, RstMoves, Pending, NoMove, Ready, IsMove, Slots, Forward, Backward, HomeMoves, Moves, Intents, journalVars, outsideVars, Begin, Put, Renamed
<1>1. RstTypes'
  <2>1. RstTypeOK'
    BY <1>a
  <2>2. (fence \in BOOLEAN /\ torn \in BOOLEAN /\ unsafe \in BOOLEAN)'
    OBVIOUS
  <2>3. (at \in DOMAIN Order /\ begun \in Nat /\ rdeaths \in Nat /\ restored \subseteq Roots \ {"home"})'
    BY <1>a
  <2>4. (intents \subseteq Intents /\ \A i \in intents : << i.from, i.to >> \in HomeMoves)'
    BY DEF Intents
  <2>5. (move = NoMove \/ (move \in Moves /\ << move.from, move.to >> \in HomeMoves))'
    <3>1. CASE tree[Order[at]].live # "none"
      <4>1. move' = [step |-> "intent", root |-> Order[at], from |-> "live", to |-> "rollback", retry |-> FALSE]
        BY <3>1
      <4> QED
        BY <4>1 DEF Moves
    <3>2. CASE ~(tree[Order[at]].live # "none")
      BY <3>2 DEF Moves
    <3> QED
      BY <3>1, <3>2
  <2> QED
    BY <2>1, <2>2, <2>3, <2>4, <2>5
<1>2. RstHolders'
  OBVIOUS
<1>3. RstMoves'
  OBVIOUS
<1>4. HomeInPlace'
  BY DEF HomeInPlace, QuarantineSafe
<1>5. QuarantineSafe'
  BY DEF QuarantineSafe, HomeInPlace
<1>6. FirstRestore'
  BY SMTT(90) DEF FirstRestore, HomeInPlace, QuarantineSafe
<1>7. StraightRestore'
  <2> SUFFICES ASSUME begun <= 1, rdeaths = 0 PROVE StraightRestore'
    BY DEF StraightRestore
  <2>1. \A r \in Roots : tree'[r].live = tree[r].live /\ tree'[r].rollback = tree[r].rollback
    OBVIOUS
  <2>2. StraightForward /\ Placed(Order[at], "old", "none")
    BY DEF StraightRestore, StraightForward
  <2>3. Pending'
    BY <2>2 DEF Placed
  <2>4. restored' = {Order[k] : k \in 2 .. at}
    <3>1. restored = {Order[k] : k \in 2 .. (at - 1)}
      BY <2>2 DEF StraightForward
    <3>2. CASE at = 1
      BY <3>1, <3>2
    <3>3. CASE at # 1
      BY <3>1, <3>3
    <3> QED
      BY <3>2, <3>3
  <2>5. \A k \in DOMAIN Order : \A l, b : Placed(Order[k], l, b) => Placed(Order[k], l, b)'
    BY <2>1 DEF Placed
  <2>6. StraightForward'
    BY <2>2, <2>3, <2>4, <2>5 DEF StraightForward
  <2> QED
    BY <2>6 DEF StraightRestore
<1> QED
  BY <1>1, <1>2, <1>3, <1>4, <1>5, <1>6, <1>7

LEMMA RstMoveNew == RstInv /\ MoveNew => RstInv'
<1> SUFFICES ASSUME RstInv, MoveNew PROVE RstInv'
  OBVIOUS
<1> USE OrderOfRoots DEF MoveNew, RstInv, RstTypes, RstTypeOK, RstHolders, RstMoves, Pending, NoMove, Ready, IsMove, Slots, Forward, Backward, HomeMoves, Moves, Intents, journalVars, outsideVars, Begin, Put, Renamed
<1>1. RstTypes'
  OBVIOUS
<1>2. RstHolders'
  OBVIOUS
<1>3. RstMoves'
  OBVIOUS
<1>4. HomeInPlace'
  BY DEF HomeInPlace, QuarantineSafe
<1>5. QuarantineSafe'
  BY DEF QuarantineSafe, HomeInPlace
<1>6. FirstRestore'
  BY DEF FirstRestore, HomeInPlace, QuarantineSafe
<1>7. StraightRestore'
  BY DEF StraightRestore, StraightForward, FirstRestore, HomeInPlace, Placed
<1> QED
  BY <1>1, <1>2, <1>3, <1>4, <1>5, <1>6, <1>7

LEMMA RstNextRoot == RstInv /\ NextRoot => RstInv'
<1> SUFFICES ASSUME RstInv, NextRoot PROVE RstInv'
  OBVIOUS
<1> USE OrderOfRoots DEF NextRoot, RstInv, RstTypes, RstTypeOK, RstHolders, RstMoves, Pending, NoMove, Ready, IsMove, Slots, Forward, Backward, HomeMoves, Moves, Intents, journalVars, outsideVars, Begin, Put, Renamed
<1>1. RstTypes'
  OBVIOUS
<1>2. RstHolders'
  OBVIOUS
<1>3. RstMoves'
  OBVIOUS
<1>4. HomeInPlace'
  BY DEF HomeInPlace, QuarantineSafe
<1>5. QuarantineSafe'
  BY DEF QuarantineSafe, HomeInPlace
<1>6. FirstRestore'
  BY DEF FirstRestore, HomeInPlace, QuarantineSafe
<1>7. StraightRestore'
  <2> SUFFICES ASSUME begun <= 1, rdeaths = 0 PROVE StraightRestore'
    BY DEF StraightRestore
  <2>1. StraightForward /\ Placed(Order[at], "new", "old")
    BY DEF StraightRestore, StraightForward
  <2>2. restored = {Order[k] : k \in 2 .. at} /\ ~unsafe
    BY <2>1 DEF StraightForward
  <2>3. StraightForward'
    <3>1. CASE at < Len(Order)
      <4>1. at' = at + 1 /\ pc' = "old" /\ at' - 1 = at /\ at + 1 \in DOMAIN Order
        <5>1. at \in Nat /\ at >= 1 /\ at' = at + 1 /\ pc' = "old"
          BY <3>1
        <5> QED
          BY <3>1, <5>1
      <4>2. \A k \in DOMAIN Order : k < at + 1 => Placed(Order[k], "new", "old")
        BY <2>1 DEF StraightForward
      <4>3. \A k \in DOMAIN Order : k >= at + 1 => Placed(Order[k], "old", "none")
        BY <2>1 DEF StraightForward
      <4> QED
        BY <2>2, <4>1, <4>2, <4>3 DEF StraightForward, Placed
    <3>2. CASE ~(at < Len(Order))
      BY <2>1, <2>2, <3>2 DEF StraightForward, Placed
    <3> QED
      BY <3>1, <3>2
  <2> QED
    BY <2>3 DEF StraightRestore
<1> QED
  BY <1>1, <1>2, <1>3, <1>4, <1>5, <1>6, <1>7

LEMMA RstValidateArchive == RstInv /\ ValidateArchive => RstInv'
<1> SUFFICES ASSUME RstInv, ValidateArchive PROVE RstInv'
  OBVIOUS
<1> USE OrderOfRoots DEF ValidateArchive, RstInv, RstTypes, RstTypeOK, RstHolders, RstMoves, Pending, NoMove, Ready, IsMove, Slots, Forward, Backward, HomeMoves, Moves, Intents, journalVars, outsideVars, Begin, Put, Renamed
<1>1. RstTypes'
  OBVIOUS
<1>2. RstHolders'
  OBVIOUS
<1>3. RstMoves'
  OBVIOUS
<1>4. HomeInPlace'
  BY DEF HomeInPlace, QuarantineSafe
<1>5. QuarantineSafe'
  BY DEF QuarantineSafe, HomeInPlace
<1>6. FirstRestore'
  BY DEF FirstRestore, HomeInPlace, QuarantineSafe
<1>7. StraightRestore'
  BY DEF StraightRestore, StraightForward, FirstRestore, HomeInPlace, Placed
<1> QED
  BY <1>1, <1>2, <1>3, <1>4, <1>5, <1>6, <1>7

LEMMA RstUnfence == RstInv /\ Unfence => RstInv'
<1> SUFFICES ASSUME RstInv, Unfence PROVE RstInv'
  OBVIOUS
<1> USE OrderOfRoots DEF Unfence, RstInv, RstTypes, RstTypeOK, RstHolders, RstMoves, Pending, NoMove, Ready, IsMove, Slots, Forward, Backward, HomeMoves, Moves, Intents, journalVars, outsideVars, Begin, Put, Renamed
<1>1. RstTypes'
  OBVIOUS
<1>2. RstHolders'
  OBVIOUS
<1>3. RstMoves'
  OBVIOUS
<1>4. HomeInPlace'
  BY DEF HomeInPlace, QuarantineSafe
<1>5. QuarantineSafe'
  BY DEF QuarantineSafe, HomeInPlace
<1>6. FirstRestore'
  BY DEF FirstRestore, HomeInPlace, QuarantineSafe
<1>7. StraightRestore'
  BY DEF StraightRestore, StraightForward, FirstRestore, HomeInPlace, Placed
<1> QED
  BY <1>1, <1>2, <1>3, <1>4, <1>5, <1>6, <1>7

LEMMA RstStepFails == RstInv /\ StepFails => RstInv'
<1> SUFFICES ASSUME RstInv, StepFails PROVE RstInv'
  OBVIOUS
<1> USE OrderOfRoots DEF StepFails, RstInv, RstTypes, RstTypeOK, RstHolders, RstMoves, Pending, NoMove, Ready, IsMove, Slots, Forward, Backward, HomeMoves, Moves, Intents, journalVars, outsideVars, Begin, Put, Renamed
<1>1. RstTypes'
  <2>1. RstTypeOK'
    <3>1. \A r \in Roots : Undone(r) \in [Slots -> {"none", "old", "new"}]
      BY UndoneIsOld
    <3> QED
      BY <3>1
  <2>2. (fence \in BOOLEAN /\ torn \in BOOLEAN /\ unsafe \in BOOLEAN)'
    OBVIOUS
  <2>3. (at \in DOMAIN Order /\ begun \in Nat /\ rdeaths \in Nat /\ restored \subseteq Roots \ {"home"})'
    OBVIOUS
  <2>4. (intents \subseteq Intents /\ \A i \in intents : << i.from, i.to >> \in HomeMoves)'
    BY DEF Intents
  <2>5. (move = NoMove \/ (move \in Moves /\ << move.from, move.to >> \in HomeMoves))'
    BY DEF Moves
  <2> QED
    BY <2>1, <2>2, <2>3, <2>4, <2>5
<1>2. RstHolders'
  OBVIOUS
<1>3. RstMoves'
  OBVIOUS
<1>4. HomeInPlace'
  BY DEF HomeInPlace, QuarantineSafe
<1>5. QuarantineSafe'
  BY DEF QuarantineSafe, HomeInPlace
<1>6. FirstRestore'
  BY DEF FirstRestore, HomeInPlace, QuarantineSafe
<1>7. StraightRestore'
  <2> SUFFICES ASSUME begun <= 1, rdeaths = 0, ~unsafe' PROVE StraightRestore'
    BY DEF StraightRestore
  <2>1. StraightForward
    BY DEF StraightRestore
  <2>2. ASSUME NEW k \in DOMAIN Order, k # 1
        PROVE  tree'[Order[k]].live = "old"
    <3>1. CASE Order[k] \in restored
      <4>1. k \in 2 .. at
        BY <2>1, <3>1 DEF StraightForward
      <4>2. tree'[Order[k]] = Undone(Order[k])
        BY <3>1
      <4>3. ~(tree[Order[k]].rollback = "none" /\ tree[Order[k]].live = "old")
        BY <3>1
      <4>4. tree[Order[k]].rollback = "old"
        <5>1. CASE k < at
          BY <2>1, <5>1 DEF StraightForward, Placed
        <5>2. CASE k = at
          BY <2>1, <4>3, <5>2 DEF StraightForward, Placed
        <5> QED
          BY <4>1, <5>1, <5>2
      <4> QED
        <5>1. Order[k] \in Roots /\ tree \in [Roots -> [Slots -> {"none", "old", "new"}]]
          OBVIOUS
        <5>2. Undone(Order[k]).live = "old"
          BY ONLY <4>4, <5>1, UndoneIsOld
        <5> QED
          BY <4>2, <5>2
    <3>2. CASE Order[k] \notin restored
      <4>1. tree'[Order[k]] = tree[Order[k]]
        BY <3>2
      <4>2. k > at \/ (k = at /\ pc = "old")
        <5>1. restored = {Order[j] : j \in 2 .. (IF pc \in {"extract", "rescue", "old"} THEN at - 1 ELSE at)}
          BY <2>1 DEF StraightForward
        <5>2. k \in Nat /\ k >= 2 /\ at \in Nat
          BY <2>2
        <5>3. CASE pc \in {"extract", "rescue", "old"}
          <6>1. k \notin 2 .. (at - 1)
            BY <3>2, <5>1, <5>3
          <6>2. at # 1 => pc = "old"
            BY <5>3
          <6>3. k >= at
            BY ONLY <5>2, <6>1
          <6> QED
            BY <5>2, <6>2, <6>3
        <5>4. CASE pc \notin {"extract", "rescue", "old"}
          <6>1. k \notin 2 .. at
            BY <3>2, <5>1, <5>4
          <6>2. k > at
            BY ONLY <5>2, <6>1
          <6> QED
            BY <6>2
        <5> QED
          BY <5>3, <5>4
      <4> QED
        BY <2>1, <4>1, <4>2 DEF StraightForward, Placed
    <3> QED
      BY <3>1, <3>2
  <2>3. ASSUME NEW r \in Roots \ {"home"} PROVE tree'[r].live = "old"
    <3>1. PICK k \in DOMAIN Order : r = Order[k]
      OBVIOUS
    <3>2. k # 1
      BY <3>1
    <3> QED
      BY <2>2, <3>1, <3>2
  <2> QED
    BY <2>3 DEF StraightRestore
<1> QED
  BY <1>1, <1>2, <1>3, <1>4, <1>5, <1>6, <1>7

LEMMA RstQuarantine == RstInv /\ Quarantine => RstInv'
<1> SUFFICES ASSUME RstInv, Quarantine PROVE RstInv'
  OBVIOUS
<1> USE OrderOfRoots DEF Quarantine, RstInv, RstTypes, RstTypeOK, RstHolders, RstMoves, Pending, NoMove, Ready, IsMove, Slots, Forward, Backward, HomeMoves, Moves, Intents, journalVars, outsideVars, Begin, Put, Renamed
<1>1. RstTypes'
  <2>1. RstTypeOK'
    OBVIOUS
  <2>2. (fence \in BOOLEAN /\ torn \in BOOLEAN /\ unsafe \in BOOLEAN)'
    OBVIOUS
  <2>3. (at \in DOMAIN Order /\ begun \in Nat /\ rdeaths \in Nat /\ restored \subseteq Roots \ {"home"})'
    OBVIOUS
  <2>4. (intents \subseteq Intents /\ \A i \in intents : << i.from, i.to >> \in HomeMoves)'
    BY DEF Intents
  <2>5. (move = NoMove \/ (move \in Moves /\ << move.from, move.to >> \in HomeMoves))'
    <3>1. CASE tree["home"].rollback # "none" /\ tree["home"].live # "none"
      <4>1. move' = [step |-> "intent", root |-> "home", from |-> "live", to |-> "failed", retry |-> FALSE]
        BY <3>1
      <4> QED
        BY <4>1 DEF Moves
    <3>2. CASE ~(tree["home"].rollback # "none" /\ tree["home"].live # "none")
      BY <3>2 DEF Moves
    <3> QED
      BY <3>1, <3>2
  <2> QED
    BY <2>1, <2>2, <2>3, <2>4, <2>5
<1>2. RstHolders'
  OBVIOUS
<1>3. RstMoves'
  OBVIOUS
<1>4. HomeInPlace'
  BY DEF HomeInPlace, QuarantineSafe
<1>5. QuarantineSafe'
  BY DEF QuarantineSafe, HomeInPlace
<1>6. FirstRestore'
  BY DEF FirstRestore, HomeInPlace, QuarantineSafe
<1>7. StraightRestore'
  BY DEF StraightRestore, StraightForward, FirstRestore, HomeInPlace, Placed
<1> QED
  BY <1>1, <1>2, <1>3, <1>4, <1>5, <1>6, <1>7

LEMMA RstRestoreOld == RstInv /\ RestoreOld => RstInv'
<1> SUFFICES ASSUME RstInv, RestoreOld PROVE RstInv'
  OBVIOUS
<1> USE OrderOfRoots DEF RestoreOld, RstInv, RstTypes, RstTypeOK, RstHolders, RstMoves, Pending, NoMove, Ready, IsMove, Slots, Forward, Backward, HomeMoves, Moves, Intents, journalVars, outsideVars, Begin, Put, Renamed
<1>1. RstTypes'
  <2>1. RstTypeOK'
    OBVIOUS
  <2>2. (fence \in BOOLEAN /\ torn \in BOOLEAN /\ unsafe \in BOOLEAN)'
    OBVIOUS
  <2>3. (at \in DOMAIN Order /\ begun \in Nat /\ rdeaths \in Nat /\ restored \subseteq Roots \ {"home"})'
    OBVIOUS
  <2>4. (intents \subseteq Intents /\ \A i \in intents : << i.from, i.to >> \in HomeMoves)'
    BY DEF Intents
  <2>5. (move = NoMove \/ (move \in Moves /\ << move.from, move.to >> \in HomeMoves))'
    <3>1. CASE tree["home"].rollback # "none"
      <4>1. move' = [step |-> "intent", root |-> "home", from |-> "rollback", to |-> "live", retry |-> FALSE]
        BY <3>1
      <4> QED
        BY <4>1 DEF Moves
    <3>2. CASE ~(tree["home"].rollback # "none")
      BY <3>2 DEF Moves
    <3> QED
      BY <3>1, <3>2
  <2> QED
    BY <2>1, <2>2, <2>3, <2>4, <2>5
<1>2. RstHolders'
  OBVIOUS
<1>3. RstMoves'
  OBVIOUS
<1>4. HomeInPlace'
  BY DEF HomeInPlace, QuarantineSafe
<1>5. QuarantineSafe'
  BY DEF QuarantineSafe, HomeInPlace
<1>6. FirstRestore'
  BY DEF FirstRestore, HomeInPlace, QuarantineSafe
<1>7. StraightRestore'
  BY DEF StraightRestore, StraightForward, FirstRestore, HomeInPlace, Placed
<1> QED
  BY <1>1, <1>2, <1>3, <1>4, <1>5, <1>6, <1>7

LEMMA RstHomeRolledBack == RstInv /\ HomeRolledBack => RstInv'
<1> SUFFICES ASSUME RstInv, HomeRolledBack PROVE RstInv'
  OBVIOUS
<1> USE OrderOfRoots DEF HomeRolledBack, RstInv, RstTypes, RstTypeOK, RstHolders, RstMoves, Pending, NoMove, Ready, IsMove, Slots, Forward, Backward, HomeMoves, Moves, Intents, journalVars, outsideVars, Begin, Put, Renamed
<1>1. RstTypes'
  OBVIOUS
<1>2. RstHolders'
  OBVIOUS
<1>3. RstMoves'
  OBVIOUS
<1>4. HomeInPlace'
  BY DEF HomeInPlace, QuarantineSafe
<1>5. QuarantineSafe'
  BY DEF QuarantineSafe, HomeInPlace
<1>6. FirstRestore'
  BY DEF FirstRestore, HomeInPlace, QuarantineSafe
<1>7. StraightRestore'
  BY DEF StraightRestore, StraightForward, FirstRestore, HomeInPlace, Placed
<1> QED
  BY <1>1, <1>2, <1>3, <1>4, <1>5, <1>6, <1>7

LEMMA RstOperatorRollback == RstInv /\ OperatorRollback => RstInv'
<1> SUFFICES ASSUME RstInv, OperatorRollback PROVE RstInv'
  OBVIOUS
<1> USE OrderOfRoots DEF OperatorRollback, RstInv, RstTypes, RstTypeOK, RstHolders, RstMoves, Pending, NoMove, Ready, IsMove, Slots, Forward, Backward, HomeMoves, Moves, Intents, journalVars, outsideVars, Begin, Put, Renamed
<1>1. RstTypes'
  OBVIOUS
<1>2. RstHolders'
  OBVIOUS
<1>3. RstMoves'
  OBVIOUS
<1>4. HomeInPlace'
  BY DEF HomeInPlace, QuarantineSafe
<1>5. QuarantineSafe'
  BY DEF QuarantineSafe, HomeInPlace
<1>6. FirstRestore'
  BY DEF FirstRestore, HomeInPlace, QuarantineSafe
<1>7. StraightRestore'
  BY DEF StraightRestore, StraightForward, FirstRestore, HomeInPlace, Placed
<1> QED
  BY <1>1, <1>2, <1>3, <1>4, <1>5, <1>6, <1>7

LEMMA RstOperatorRecover == RstInv /\ OperatorRecover => RstInv'
<1> SUFFICES ASSUME RstInv, OperatorRecover PROVE RstInv'
  OBVIOUS
<1> USE OrderOfRoots DEF OperatorRecover, RstInv, RstTypes, RstTypeOK, RstHolders, RstMoves, Pending, NoMove, Ready, IsMove, Slots, Forward, Backward, HomeMoves, Moves, Intents, journalVars, outsideVars, Begin, Put, Renamed
<1>1. RstTypes'
  OBVIOUS
<1>2. RstHolders'
  OBVIOUS
<1>3. RstMoves'
  OBVIOUS
<1>4. HomeInPlace'
  BY DEF HomeInPlace, QuarantineSafe
<1>5. QuarantineSafe'
  BY DEF QuarantineSafe, HomeInPlace
<1>6. FirstRestore'
  BY DEF FirstRestore, HomeInPlace, QuarantineSafe
<1>7. StraightRestore'
  BY DEF StraightRestore, StraightForward, FirstRestore, HomeInPlace, Placed
<1> QED
  BY <1>1, <1>2, <1>3, <1>4, <1>5, <1>6, <1>7

LEMMA RstReconciled == RstInv /\ Reconciled => RstInv'
<1> SUFFICES ASSUME RstInv, Reconciled PROVE RstInv'
  OBVIOUS
<1> USE OrderOfRoots DEF Reconciled, RstInv, RstTypes, RstTypeOK, RstHolders, RstMoves, Pending, NoMove, Ready, IsMove, Slots, Forward, Backward, HomeMoves, Moves, Intents, journalVars, outsideVars, Begin, Put, Renamed
<1>1. RstTypes'
  OBVIOUS
<1>2. RstHolders'
  OBVIOUS
<1>3. RstMoves'
  OBVIOUS
<1>4. HomeInPlace'
  BY DEF HomeInPlace, QuarantineSafe
<1>5. QuarantineSafe'
  BY DEF QuarantineSafe, HomeInPlace
<1>6. FirstRestore'
  BY DEF FirstRestore, HomeInPlace, QuarantineSafe
<1>7. StraightRestore'
  BY DEF StraightRestore, StraightForward, FirstRestore, HomeInPlace, Placed
<1> QED
  BY <1>1, <1>2, <1>3, <1>4, <1>5, <1>6, <1>7

LEMMA RstRestoreDies == RstInv /\ RestoreDies => RstInv'
<1> SUFFICES ASSUME RstInv, RestoreDies PROVE RstInv'
  OBVIOUS
<1> USE OrderOfRoots DEF RestoreDies, RstInv, RstTypes, RstTypeOK, RstHolders, RstMoves, Pending, NoMove, Ready, IsMove, Slots, Forward, Backward, HomeMoves, Moves, Intents, journalVars, outsideVars, Begin, Put, Renamed
<1>1. RstTypes'
  OBVIOUS
<1>2. RstHolders'
  OBVIOUS
<1>3. RstMoves'
  OBVIOUS
<1>4. HomeInPlace'
  BY DEF HomeInPlace, QuarantineSafe
<1>5. QuarantineSafe'
  BY DEF QuarantineSafe, HomeInPlace
<1>6. FirstRestore'
  BY DEF FirstRestore, HomeInPlace, QuarantineSafe
<1>7. StraightRestore'
  BY DEF StraightRestore, StraightForward, FirstRestore, HomeInPlace, Placed
<1> QED
  BY <1>1, <1>2, <1>3, <1>4, <1>5, <1>6, <1>7

LEMMA RstGatewayStarts == RstInv /\ GatewayStarts => RstInv'
<1> SUFFICES ASSUME RstInv, GatewayStarts PROVE RstInv'
  OBVIOUS
<1> USE OrderOfRoots DEF GatewayStarts, RstInv, RstTypes, RstTypeOK, RstHolders, RstMoves, Pending, NoMove, Ready, IsMove, Slots, Forward, Backward, HomeMoves, Moves, Intents, journalVars, outsideVars, Begin, Put, Renamed
<1>1. RstTypes'
  OBVIOUS
<1>2. RstHolders'
  OBVIOUS
<1>3. RstMoves'
  OBVIOUS
<1>4. HomeInPlace'
  BY DEF HomeInPlace, QuarantineSafe
<1>5. QuarantineSafe'
  BY DEF QuarantineSafe, HomeInPlace
<1>6. FirstRestore'
  BY DEF FirstRestore, HomeInPlace, QuarantineSafe
<1>7. StraightRestore'
  BY DEF StraightRestore, StraightForward, FirstRestore, HomeInPlace, Placed
<1> QED
  BY <1>1, <1>2, <1>3, <1>4, <1>5, <1>6, <1>7

LEMMA RstGatewayStops == RstInv /\ GatewayStops => RstInv'
<1> SUFFICES ASSUME RstInv, GatewayStops PROVE RstInv'
  OBVIOUS
<1> USE OrderOfRoots DEF GatewayStops, RstInv, RstTypes, RstTypeOK, RstHolders, RstMoves, Pending, NoMove, Ready, IsMove, Slots, Forward, Backward, HomeMoves, Moves, Intents, journalVars, outsideVars, Begin, Put, Renamed
<1>1. RstTypes'
  OBVIOUS
<1>2. RstHolders'
  OBVIOUS
<1>3. RstMoves'
  OBVIOUS
<1>4. HomeInPlace'
  BY DEF HomeInPlace, QuarantineSafe
<1>5. QuarantineSafe'
  BY DEF QuarantineSafe, HomeInPlace
<1>6. FirstRestore'
  BY DEF FirstRestore, HomeInPlace, QuarantineSafe
<1>7. StraightRestore'
  BY DEF StraightRestore, StraightForward, FirstRestore, HomeInPlace, Placed
<1> QED
  BY <1>1, <1>2, <1>3, <1>4, <1>5, <1>6, <1>7

LEMMA RstGatewayResumes == RstInv /\ GatewayResumes => RstInv'
<1> SUFFICES ASSUME RstInv, GatewayResumes PROVE RstInv'
  OBVIOUS
<1> USE OrderOfRoots DEF GatewayResumes, RstInv, RstTypes, RstTypeOK, RstHolders, RstMoves, Pending, NoMove, Ready, IsMove, Slots, Forward, Backward, HomeMoves, Moves, Intents, journalVars, outsideVars, Begin, Put, Renamed
<1>1. RstTypes'
  OBVIOUS
<1>2. RstHolders'
  OBVIOUS
<1>3. RstMoves'
  OBVIOUS
<1>4. HomeInPlace'
  BY DEF HomeInPlace, QuarantineSafe
<1>5. QuarantineSafe'
  BY DEF QuarantineSafe, HomeInPlace
<1>6. FirstRestore'
  BY DEF FirstRestore, HomeInPlace, QuarantineSafe
<1>7. StraightRestore'
  BY DEF StraightRestore, StraightForward, FirstRestore, HomeInPlace, Placed
<1> QED
  BY <1>1, <1>2, <1>3, <1>4, <1>5, <1>6, <1>7

LEMMA RstReconcileOne == RstInv /\ (\E i \in intents : ReconcileOne(i)) => RstInv'
<1> SUFFICES ASSUME RstInv, NEW i \in intents, ReconcileOne(i) PROVE RstInv'
  OBVIOUS
<1> USE OrderOfRoots DEF ReconcileOne, RstInv, RstTypes, RstTypeOK, RstHolders, RstMoves, Pending, NoMove, Ready, IsMove, Slots, Forward, Backward, HomeMoves, Moves, Intents, journalVars, outsideVars, Begin, Put, Renamed, Done, Undoable
<1>1. RstTypes'
  <2>1. RstTypeOK'
    OBVIOUS
  <2>2. (fence \in BOOLEAN /\ torn \in BOOLEAN /\ unsafe \in BOOLEAN)'
    OBVIOUS
  <2>3. (at \in DOMAIN Order /\ begun \in Nat /\ rdeaths \in Nat /\ restored \subseteq Roots \ {"home"})'
    OBVIOUS
  <2>4. (intents \subseteq Intents /\ \A j \in intents : << j.from, j.to >> \in HomeMoves)'
    BY DEF Intents
  <2>5. (move = NoMove \/ (move \in Moves /\ << move.from, move.to >> \in HomeMoves))'
    <3>1. i \in Intents /\ << i.from, i.to >> \in HomeMoves
      OBVIOUS
    <3>2. [step |-> "intent", root |-> i.root, from |-> i.from, to |-> i.to, retry |-> TRUE] \in Moves
      BY <3>1 DEF Intents, Moves
    <3>3. CASE UNCHANGED move
      BY <3>3
    <3>4. CASE Begin(i.root, i.from, i.to, TRUE)
      BY <3>1, <3>2, <3>4
    <3> QED
      BY <3>3, <3>4
  <2> QED
    BY <2>1, <2>2, <2>3, <2>4, <2>5
<1>2. RstHolders'
  OBVIOUS
<1>3. RstMoves'
  BY SMTT(30)
<1>4. HomeInPlace'
  BY DEF HomeInPlace, QuarantineSafe
<1>5. QuarantineSafe'
  BY DEF QuarantineSafe, HomeInPlace
<1>6. FirstRestore'
  BY DEF FirstRestore, HomeInPlace, QuarantineSafe
<1>7. StraightRestore'
  BY DEF StraightRestore, StraightForward, FirstRestore, HomeInPlace, Placed
<1> QED
  BY <1>1, <1>2, <1>3, <1>4, <1>5, <1>6, <1>7

LEMMA RstWorkspaceBegin == RstInv /\ (\E k \in DOMAIN Workspaces : WorkspaceBegin(Workspaces[k])) => RstInv'
<1> SUFFICES ASSUME RstInv, NEW k \in DOMAIN Workspaces, WorkspaceBegin(Workspaces[k]) PROVE RstInv'
  OBVIOUS
<1> USE OrderOfRoots DEF WorkspaceBegin, RstInv, RstTypes, RstTypeOK, RstHolders, RstMoves, Pending, NoMove, Ready, IsMove, Slots, Forward, Backward, HomeMoves, Moves, Intents, journalVars, outsideVars, Begin, Put, Renamed, Done, Undoable
<1>1. RstTypes'
  OBVIOUS
<1>2. RstHolders'
  OBVIOUS
<1>3. RstMoves'
  OBVIOUS
<1>4. HomeInPlace'
  BY DEF HomeInPlace, QuarantineSafe
<1>5. QuarantineSafe'
  BY DEF QuarantineSafe, HomeInPlace
<1>6. FirstRestore'
  BY DEF FirstRestore, HomeInPlace, QuarantineSafe
<1>7. StraightRestore'
  BY DEF StraightRestore, StraightForward, FirstRestore, HomeInPlace, Placed
<1> QED
  BY <1>1, <1>2, <1>3, <1>4, <1>5, <1>6, <1>7

LEMMA RstWorkspaceInstall == RstInv /\ (\E ok \in BOOLEAN : WorkspaceInstall(ok)) => RstInv'
<1> SUFFICES ASSUME RstInv, NEW ok \in BOOLEAN, WorkspaceInstall(ok) PROVE RstInv'
  OBVIOUS
<1> USE OrderOfRoots DEF WorkspaceInstall, RstInv, RstTypes, RstTypeOK, RstHolders, RstMoves, Pending, NoMove, Ready, IsMove, Slots, Forward, Backward, HomeMoves, Moves, Intents, journalVars, outsideVars, Begin, Put, Renamed, Done, Undoable
<1>1. RstTypes'
  <2>1. RstTypeOK'
    <3>1. Order[at] \in Roots
      OBVIOUS
    <3>2. CASE ok
      BY <3>1, <3>2
    <3>3. CASE ~ok
      <4>1. tree' = [tree EXCEPT ![Order[at]].live = tree[Order[at]].rollback, ![Order[at]].staged = "none",
                                 ![Order[at]].rollback = "none"]
        BY <3>3
      <4>2. tree[Order[at]].rollback \in {"none", "old", "new"}
        BY ONLY <3>1, RstInv DEF RstInv, RstTypes, RstTypeOK, Slots
      <4>3. tree' \in [Roots -> [Slots -> {"none", "old", "new"}]]
        BY ONLY <3>1, <4>1, <4>2, RstInv DEF RstInv, RstTypes, RstTypeOK, Slots
      <4> QED
        BY <4>3
    <3> QED
      BY <3>2, <3>3
  <2>2. (fence \in BOOLEAN /\ torn \in BOOLEAN /\ unsafe \in BOOLEAN)'
    OBVIOUS
  <2>3. (at \in DOMAIN Order /\ begun \in Nat /\ rdeaths \in Nat /\ restored \subseteq Roots \ {"home"})'
    OBVIOUS
  <2>4. (intents \subseteq Intents /\ \A j \in intents : << j.from, j.to >> \in HomeMoves)'
    BY DEF Intents
  <2>5. (move = NoMove \/ (move \in Moves /\ << move.from, move.to >> \in HomeMoves))'
    BY DEF Moves
  <2> QED
    BY <2>1, <2>2, <2>3, <2>4, <2>5
<1>2. RstHolders'
  OBVIOUS
<1>3. RstMoves'
  OBVIOUS
<1>4. HomeInPlace'
  BY DEF HomeInPlace, QuarantineSafe
<1>5. QuarantineSafe'
  BY DEF QuarantineSafe, HomeInPlace
<1>6. FirstRestore'
  BY SMTT(90) DEF FirstRestore, HomeInPlace, QuarantineSafe
<1>7. StraightRestore'
  BY DEF StraightRestore, StraightForward, FirstRestore, HomeInPlace, Placed
<1> QED
  BY <1>1, <1>2, <1>3, <1>4, <1>5, <1>6, <1>7

LEMMA RstStutter == RstInv /\ UNCHANGED rstVars => RstInv'
  BY DEF RstInv, RstTypes, RstTypeOK, RstHolders, RstMoves, HomeInPlace,
     QuarantineSafe,
     FirstRestore, StraightRestore,
         StraightForward, Placed, Pending, rstVars

LEMMA RstStep == RstInv /\ [RstNext]_rstVars => RstInv'
  BY RstRenameIntent, RstRenameMove, RstRenameCommit, RstRestoreBegin, RstExtract,
     RstRescue,
     RstMoveOld, RstMoveNew, RstNextRoot,
     RstValidateArchive, RstUnfence, RstStepFails, RstQuarantine, RstRestoreOld,
     RstHomeRolledBack, RstOperatorRollback, RstOperatorRecover,
     RstReconcileOne, RstReconciled, RstWorkspaceBegin, RstWorkspaceInstall,
     RstRestoreDies,
     RstGatewayStarts, RstGatewayStops, RstGatewayResumes, RstStutter
  DEF RstNext

(* For any list of workspaces, any number of restores and any number of     *)
(* deaths of the process that restores: the old home is kept until the      *)
(* journal says COMMITTED, a Gateway that runs has a whole home, and a      *)
(* restore without a death took all roots or none (restore.py).             *)
THEOREM HomeSurvivesRestore == RstSpec => []RestoreSound
<1>1. RstInv => RestoreSound
  BY DEF RstInv, RstTypes, RestoreSound, OldHomeKept, GatewayHasHome, AllOrNothing,
     RstHolders,
     HomeInPlace,
         FirstRestore, StraightRestore
<1> QED
  BY RstInitial, RstStep, <1>1, PTL DEF RstSpec

-----------------------------------------------------------------------------
(* The paper library.                                                        *)

PlHashes == PlTexts \union {0, 1}
PlRow == [status : {"none", "active", "archived", "purged"}, text : PlHashes, pdf : BOOLEAN,
          expiry : {"none", "set", "passed"},
          summary : {"missing", "queued", "running", "completed", "failed"},
          run : Nat]
PlJobRow == [hash : PlHashes, status : {"none", "pending", "running", "completed", "failed"}, attempts : Nat]
PlClaim == [doc : Docs, hash : PlHashes, of : PlHashes, attempts : Nat]

PlTypes ==
  /\ plPaper \in [PlPapers -> PlRow]
  /\ plFile \in [PlPapers -> SUBSET {"pdf", "summary"}]
  /\ plDoc \in [Docs -> PlHashes]
  /\ plVector \in [Docs -> [hash : PlHashes, of : PlHashes]]
  /\ plJob \in [Docs -> PlJobRow]
  /\ plWork \in PlClaim \union {NoWork}
  /\ plRun \in [1 .. PlRuns -> [status : {"none", "live", "completed", "failed"}, paper : SUBSET PlPapers]]
  /\ plQueue \in [docs : SUBSET Docs, force : BOOLEAN]
  /\ plSaved \in Nat /\ (plSaved # 0 => plSaved \in 1 .. PlRuns)

\* The documents of a paper have its text, and what is no paper has none.
PlTextual ==
  \A p \in PlPapers : \A d \in Docs : d[1] = p =>
    IF Live(p) THEN plDoc[d] # NoDoc => plDoc[d] = plPaper[p].text
               ELSE plDoc[d] = NoDoc /\ plJob[d] = NoJob

\* Documents whose text is written and not yet queued.
PlUnqueued == IF plQueue.force THEN {} ELSE plQueue.docs

\* Nothing else is in the middle of its turn while documents are queued.
PlQueued ==
  plQueue.docs # {} => plPurge = {} /\ plSaved = 0 /\ \A d \in plQueue.docs : Live(d[1])

\* An open job, the claim of the worker and a stored vector are of one text each.
PlHashed ==
  /\ \A d \in Docs \ plStale :
       /\ JobOpen(d) /\ d \notin PlUnqueued => plJob[d].hash = plDoc[d]
       /\ plVector[d].of = plVector[d].hash
  /\ plWork # NoWork =>
       /\ plWork.doc \notin plStale => plWork.of = plWork.hash
       /\ plJob[plWork.doc] # NoJob => JobOpen(plWork.doc)

\* Files go with an expired paper only, and a summary is marked after its file.
PlKept ==
  /\ \A p \in PlPapers \ plCut : plPaper[p].summary = "completed" /\ p \notin plPurge => "summary" \in plFile[p]
  /\ \A p \in PlPapers : p \in plPurge => plPaper[p].status = "archived" /\ plPaper[p].expiry = "passed"
  /\ \A p, q \in plPurge : p = q
  /\ plSaved # 0 => plPurge = {} /\ \A p \in plRun[plSaved].paper : "summary" \in plFile[p]

PlInv == PlTypes /\ PlTextual /\ PlQueued /\ PlHashed /\ PlKept

-----------------------------------------------------------------------------
\* A paper as it is read off the invariant.
LEMMA PlRows ==
  ASSUME PlInv, NEW p \in PlPapers
  PROVE  /\ plPaper[p] \in PlRow /\ plFile[p] \subseteq {"pdf", "summary"}
         /\ plPaper[p].status \in {"none", "active", "archived", "purged"}
         /\ plPaper[p].text \in PlHashes /\ plPaper[p].run \in Nat
         /\ plPaper[p].summary \in {"missing", "queued", "running", "completed", "failed"}
         /\ plPaper[p].expiry \in {"none", "set", "passed"}
         /\ NoPaper \in PlRow
  BY DEF PlInv, PlTypes, PlRow, NoPaper, PlHashes

\* The documents are left alone, and no paper comes, goes or changes its text.
LEMMA PlDocsAside ==
  ASSUME PlInv, UNCHANGED << plDoc, plVector, plJob, plWork, plQueue, plStale >>,
         \A p \in PlPapers : (Live(p)' <=> Live(p)) /\ plPaper'[p].text = plPaper[p].text
  PROVE  PlTextual' /\ PlHashed'
<1>1. PlTextual'
  BY DEF PlInv, PlTextual
<1>2. PlHashed'
  BY DEF PlInv, PlHashed, PlUnqueued, JobOpen
<1> QED BY <1>1, <1>2

\* Nothing is being queued.
LEMMA PlQueueAside == ASSUME plQueue' = NoQueue PROVE PlQueued'
  BY DEF PlQueued, NoQueue

\* Files, Runs and marks are left alone.
LEMMA PlFilesAside ==
  ASSUME PlInv, UNCHANGED << plFile, plRun, plSaved, plPurge, plCut >>,
         \A p \in PlPapers : plPaper'[p].summary = "completed" => plPaper[p].summary = "completed",
         \A p \in plPurge : plPaper'[p] = plPaper[p]
  PROVE  PlKept'
  BY DEF PlInv, PlKept

LEMMA PlInitial == PlInit => PlInv
<1> SUFFICES ASSUME PlInit PROVE PlInv
  OBVIOUS
<1>1. PlTypes
  BY DEF PlInit, PlTypes, PlRow, NoPaper, PlHashes, NoDoc, NoVector, NoJob,
     PlJobRow, NoRun, NoQueue
<1>2. PlTextual
  BY DEF PlInit, PlTextual, Live, NoPaper
<1>3. PlHashed
  BY DEF PlInit, PlHashed, NoJob, NoVector, JobOpen
<1>4. PlKept
  BY DEF PlInit, PlKept, NoPaper
<1>5. PlQueued
  BY DEF PlInit, PlQueued, NoQueue
<1> QED BY <1>1, <1>2, <1>3, <1>4, <1>5 DEF PlInv

\* queue_embedding: the job of one document gets its text, or stays as it is.
LEMMA PlQueueKeeps == PlInv /\ (\E d \in Docs : QueueDocument(d)) => PlInv'
<1> SUFFICES ASSUME PlInv, NEW d \in Docs, QueueDocument(d) PROVE PlInv'
  OBVIOUS
<1> DEFINE current == Current(d, plQueue.force)
<1>1. /\ d \in plQueue.docs
      /\ plQueue' = IF plQueue.docs = {d} THEN NoQueue ELSE [plQueue EXCEPT !.docs = @ \ {d}]
      /\ plJob' = IF current THEN plJob
                  ELSE [plJob EXCEPT ![d] = [hash |-> plDoc[d], status |-> "pending", attempts |-> 0]]
      /\ plStale' = IF current /\ JobOpen(d) THEN plStale \cup {d} ELSE plStale
      /\ current => ~plQueue.force /\ plVector[d].hash = plDoc[d]
      /\ UNCHANGED << plPaper, plFile, plDoc, plVector, plWork, plTask, plRun, plPurge, plSaved, plCut >>
  BY DEF QueueDocument, StaysQueueing, Current
<1> HIDE DEF current
<1>2. /\ plQueue \in [docs : SUBSET Docs, force : BOOLEAN] /\ plDoc[d] \in PlHashes
      /\ plPurge = {} /\ plSaved = 0 /\ \A e \in plQueue.docs : Live(e[1])
  BY <1>1 DEF PlInv, PlTypes, PlQueued
<1>3. /\ plQueue' \in [docs : SUBSET Docs, force : BOOLEAN]
      /\ plQueue'.docs = plQueue.docs \ {d}
      /\ plQueue'.docs # {} => plQueue'.force = plQueue.force
  BY <1>1, <1>2 DEF NoQueue
<1>4. /\ plJob' \in [Docs -> PlJobRow]
      /\ \A e \in Docs : e # d => plJob'[e] = plJob[e]
      /\ current => plJob'[d] = plJob[d]
      /\ ~current => plJob'[d].hash = plDoc[d] /\ plJob'[d].status = "pending"
  <2>1. [hash |-> plDoc[d], status |-> "pending", attempts |-> 0] \in PlJobRow
    BY <1>2 DEF PlJobRow
  <2> QED BY <1>1, <2>1 DEF PlInv, PlTypes
<1>5. PlTypes'
  BY <1>1, <1>3, <1>4 DEF PlInv, PlTypes
<1>6. PlTextual'
  <2>1. Live(d[1])
    BY <1>1, <1>2
  <2> QED BY <1>1, <1>4, <2>1 DEF PlInv, PlTextual, Live
<1>7. PlQueued'
  BY <1>1, <1>2, <1>3 DEF PlQueued, Live
<1>8. PlHashed'
  <2>1. ASSUME NEW e \in Docs \ plStale'
        PROVE  /\ JobOpen(e)' /\ e \notin PlUnqueued' => plJob'[e].hash = plDoc[e]
               /\ plVector[e].of = plVector[e].hash
    <3>1. e \notin plStale
      BY <1>1
    <3>2. CASE e # d
      <4>1. e \in PlUnqueued => e \in PlUnqueued'
        BY <1>3, <3>2 DEF PlUnqueued
      <4> QED BY <1>4, <3>1, <3>2, <4>1 DEF PlInv, PlHashed, JobOpen
    <3>3. CASE e = d
      <4>1. CASE current
        <5>1. ~JobOpen(d)'
          BY <1>1, <1>4, <3>3, <4>1 DEF JobOpen
        <5> QED BY <3>1, <3>3, <5>1 DEF PlInv, PlHashed
      <4>2. CASE ~current
        BY <1>4, <3>1, <3>3, <4>2 DEF PlInv, PlHashed
      <4> QED BY <4>1, <4>2
    <3> QED BY <3>2, <3>3
  <2>2. ASSUME plWork # NoWork
        PROVE  /\ plWork.doc \notin plStale' => plWork.of = plWork.hash
               /\ plJob'[plWork.doc] # NoJob => JobOpen(plWork.doc)'
    <3>1. plWork.doc \in Docs
      BY <2>2 DEF PlInv, PlTypes, PlClaim
    <3>2. plWork.doc \notin plStale' => plWork.of = plWork.hash
      BY <1>1, <2>2 DEF PlInv, PlHashed
    <3>3. plJob[plWork.doc] # NoJob => JobOpen(plWork.doc)
      BY <2>2 DEF PlInv, PlHashed
    <3>4. plJob'[plWork.doc] = plJob[plWork.doc] \/ plJob'[plWork.doc].status = "pending"
      BY <1>4, <3>1
    <3> QED BY <1>1, <3>2, <3>3, <3>4 DEF JobOpen
  <2> QED BY <1>1, <2>1, <2>2 DEF PlHashed
<1>9. PlKept'
  BY <1>1, PlFilesAside
<1> QED BY <1>5, <1>6, <1>7, <1>8, <1>9 DEF PlInv

\* The rows are written, and the documents wait to be queued.
LEMMA PlWrittenKeeps ==
  ASSUME PlInv, Turn, NEW docs \in SUBSET Docs, NEW force \in BOOLEAN, plQueue' = [docs |-> docs, force |-> force],
         UNCHANGED << plVector, plJob, plWork, plStale >>,
         \A d \in Docs : d \notin docs \/ force => plDoc'[d] = plDoc[d]
  PROVE  PlHashed'
<1>1. PlUnqueued = {}
  BY DEF Turn, NoQueue, PlUnqueued
<1>2. PlUnqueued' = IF force THEN {} ELSE docs
  BY DEF PlUnqueued
<1>3. \A d \in Docs \ plStale : JobOpen(d) /\ d \notin PlUnqueued' => plJob[d].hash = plDoc'[d]
  BY <1>1, <1>2 DEF PlInv, PlHashed
<1> QED BY <1>3 DEF PlInv, PlHashed, JobOpen

LEMMA PlUpsertKeeps == PlInv /\ (\E p \in PlPapers, t \in PlTexts : UpsertPaper(p, t)) => PlInv'
<1> SUFFICES ASSUME PlInv, NEW p \in PlPapers, NEW t \in PlTexts, UpsertPaper(p, t) PROVE PlInv'
  OBVIOUS
<1>1. PICK docs : /\ docs = DocsOf(p) \cup {<<p, "paper">>}
                  /\ plDoc' = [d \in Docs |-> IF d \in docs THEN t ELSE plDoc[d]]
                  /\ plQueue' = [docs |-> docs, force |-> FALSE]
  BY DEF UpsertPaper
<1>2. PICK row : /\ row = IF Live(p) THEN [plPaper[p] EXCEPT !.text = t, !.expiry = "none", !.summary = "missing", !.run = 0]
                         ELSE [NoPaper EXCEPT !.status = "active", !.text = t]
                 /\ plPaper' = [plPaper EXCEPT ![p] = row]
  BY DEF UpsertPaper, FindPaper
<1>3. /\ Turn /\ plPurge = {} /\ plSaved = 0
      /\ UNCHANGED << plFile, plVector, plJob, plWork, plTask, plRun, plStale, plPurge, plSaved, plCut >>
  BY DEF UpsertPaper, PlAsks, StaysQueueing, Turn
<1>4. t \in PlHashes /\ plPaper[p] \in PlRow /\ NoPaper \in PlRow
  BY PlRows DEF PlHashes
<1>5. row \in PlRow /\ row.text = t /\ row.status \in {"active", "archived"} /\ row.summary = "missing"
  <2>1. CASE Live(p)
    BY <1>2, <1>4, <2>1 DEF PlRow, Live
  <2>2. CASE ~ Live(p)
    BY <1>2, <1>4, <2>2 DEF PlRow, NoPaper
  <2> QED BY <2>1, <2>2
<1>6. /\ plPaper' \in [PlPapers -> PlRow] /\ plPaper'[p] = row
      /\ \A q \in PlPapers : q # p => plPaper'[q] = plPaper[q]
  BY <1>2, <1>5 DEF PlInv, PlTypes
<1>7. docs \in SUBSET Docs /\ (\A d \in docs : d[1] = p)
  BY <1>1 DEF DocsOf, Docs, Entities
<1>8. \A d \in Docs : plDoc'[d] = IF d \in docs THEN t ELSE plDoc[d]
  BY <1>1
<1>9. PlTypes'
  BY <1>1, <1>3, <1>4, <1>6, <1>7 DEF PlInv, PlTypes
<1>10. PlTextual'
  <2> SUFFICES ASSUME NEW q \in PlPapers, NEW d \in Docs, d[1] = q
               PROVE  IF Live(q)' THEN plDoc'[d] # NoDoc => plDoc'[d] = plPaper'[q].text
                                  ELSE plDoc'[d] = NoDoc /\ plJob'[d] = NoJob
    BY DEF PlTextual
  <2>1. CASE q = p
    <3>1. Live(q)'
      BY <1>5, <1>6, <2>1 DEF Live
    <3>2. d \in docs \/ plDoc[d] = NoDoc
      BY <1>1, <2>1 DEF DocsOf
    <3> QED BY <1>5, <1>6, <1>8, <2>1, <3>1, <3>2
  <2>2. CASE q # p
    <3>1. d \notin docs /\ plDoc'[d] = plDoc[d] /\ plJob'[d] = plJob[d] /\ plPaper'[q] = plPaper[q]
      BY <1>3, <1>6, <1>7, <1>8, <2>2
    <3> QED BY <3>1 DEF PlInv, PlTextual, Live
  <2> QED BY <2>1, <2>2
<1>11. PlQueued'
  BY <1>1, <1>3, <1>5, <1>6, <1>7 DEF PlQueued, Live
<1>12. PlHashed'
  BY <1>1, <1>3, <1>7, <1>8, PlWrittenKeeps
<1>13. PlKept'
  BY <1>3, <1>5, <1>6, PlFilesAside
<1> QED BY <1>9, <1>10, <1>11, <1>12, <1>13 DEF PlInv

\* A new document with the text of its paper, or every document of it again.
LEMMA PlPassageKeeps == PlInv /\ (\E p \in PlPapers : AddPassage(p) \/ Reembed(p)) => PlInv'
<1> SUFFICES ASSUME PlInv, NEW p \in PlPapers, AddPassage(p) \/ Reembed(p) PROVE PlInv'
  OBVIOUS
<1>1. /\ Live(p) /\ Turn /\ plPurge = {} /\ plSaved = 0
      /\ UNCHANGED << plPaper, plFile, plVector, plJob, plWork, plTask, plRun, plStale, plPurge, plSaved, plCut >>
  BY DEF AddPassage, Reembed, PlAsks, StaysQueueing, Turn
<1>2. plPaper[p].text \in PlHashes
  BY PlRows
<1>3. PICK docs \in SUBSET Docs, force \in BOOLEAN :
        /\ plQueue' = [docs |-> docs, force |-> force]
        /\ \A d \in docs : d[1] = p
        /\ plDoc' \in [Docs -> PlHashes]
        /\ \A d \in Docs : plDoc'[d] = plDoc[d] \/ (~force /\ d \in docs /\ plDoc'[d] = plPaper[p].text)
  <2>1. CASE AddPassage(p)
    <3>1. PICK d : d = <<p, "passage">>
      OBVIOUS
    <3>2. d \in Docs /\ d[1] = p
      BY <3>1 DEF Docs, Entities
    <3>3. plDoc' = [plDoc EXCEPT ![d] = plPaper[p].text] /\ plQueue' = [docs |-> {d}, force |-> FALSE]
      BY <2>1, <3>1 DEF AddPassage
    <3>4. /\ plDoc' \in [Docs -> PlHashes]
          /\ \A e \in Docs : plDoc'[e] = plDoc[e] \/ (~FALSE /\ e \in {d} /\ plDoc'[e] = plPaper[p].text)
      BY <1>2, <3>2, <3>3 DEF PlInv, PlTypes
    <3>5. {d} \in SUBSET Docs /\ FALSE \in BOOLEAN /\ \A e \in {d} : e[1] = p
      BY <3>2
    <3> QED BY <3>3, <3>4, <3>5
  <2>2. CASE Reembed(p)
    <3>1. plDoc' = plDoc /\ plQueue' = [docs |-> DocsOf(p), force |-> TRUE]
      BY <2>2 DEF Reembed
    <3>2. DocsOf(p) \in SUBSET Docs /\ (\A d \in DocsOf(p) : d[1] = p)
      BY DEF DocsOf
    <3>3. plDoc' \in [Docs -> PlHashes]
      BY <3>1 DEF PlInv, PlTypes
    <3> QED BY <3>1, <3>2, <3>3
  <2> QED BY <2>1, <2>2
<1>4. PlTypes'
  BY <1>1, <1>3 DEF PlInv, PlTypes
<1>5. PlTextual'
  <2> SUFFICES ASSUME NEW q \in PlPapers, NEW d \in Docs, d[1] = q
               PROVE  IF Live(q) THEN plDoc'[d] # NoDoc => plDoc'[d] = plPaper[q].text
                                 ELSE plDoc'[d] = NoDoc /\ plJob[d] = NoJob
    BY <1>1 DEF PlTextual, Live
  <2>1. CASE plDoc'[d] = plDoc[d]
    BY <2>1 DEF PlInv, PlTextual
  <2>2. CASE d \in docs /\ plDoc'[d] = plPaper[p].text
    BY <1>1, <1>3, <2>2
  <2> QED BY <1>3, <2>1, <2>2
<1>6. PlQueued'
  BY <1>1, <1>3 DEF PlQueued, Live
<1>7. PlHashed'
  BY <1>1, <1>3, PlWrittenKeeps
<1>8. PlKept'
  BY <1>1, PlFilesAside
<1> QED BY <1>4, <1>5, <1>6, <1>7, <1>8 DEF PlInv

\* The worker claims a job, and stores or fails the one it has.
LEMMA PlClaimKeeps == PlInv /\ (\E d \in Docs : ClaimJob(d)) => PlInv'
<1> SUFFICES ASSUME PlInv, NEW d \in Docs, ClaimJob(d) PROVE PlInv'
  OBVIOUS
<1>1. /\ plJob[d].status = "pending" /\ plJob' = [plJob EXCEPT ![d].status = "running"]
      /\ plWork' = [doc |-> d, hash |-> plJob[d].hash, of |-> plDoc[d], attempts |-> plJob[d].attempts]
      /\ plQueue = NoQueue /\ plQueue' = NoQueue /\ PlUnqueued = {} /\ PlUnqueued' = {}
      /\ UNCHANGED << plPaper, plFile, plDoc, plVector, plTask, plRun, plStale, plPurge, plSaved, plCut >>
  BY DEF ClaimJob, Stays, StaysQueueing, Turn, PlUnqueued, NoQueue
<1>2. plJob[d] \in PlJobRow /\ plDoc[d] \in PlHashes
  BY DEF PlInv, PlTypes
<1>3. /\ plJob' \in [Docs -> PlJobRow] /\ plJob'[d].status = "running" /\ plJob'[d].hash = plJob[d].hash
      /\ \A e \in Docs : e # d => plJob'[e] = plJob[e]
  BY <1>1, <1>2 DEF PlInv, PlTypes, PlJobRow
<1>4. plWork' \in PlClaim
  BY <1>1, <1>2 DEF PlJobRow, PlClaim
<1>5. PlTypes'
  BY <1>1, <1>3, <1>4 DEF PlInv, PlTypes
<1>6. PlTextual'
  BY <1>1, <1>3 DEF PlInv, PlTextual, Live, NoJob
<1>7. PlHashed'
  <2>1. d \notin plStale => plJob[d].hash = plDoc[d]
    BY <1>1 DEF PlInv, PlHashed, JobOpen
  <2>2. ASSUME NEW e \in Docs \ plStale
        PROVE  /\ JobOpen(e)' => plJob'[e].hash = plDoc[e]
               /\ plVector[e].of = plVector[e].hash
    BY <1>1, <1>3, <2>1 DEF PlInv, PlHashed, JobOpen
  <2> QED BY <1>1, <1>3, <2>1, <2>2 DEF PlHashed, JobOpen
<1>8. PlKept'
  BY <1>1, PlFilesAside
<1>9. PlQueued'
  BY <1>1, PlQueueAside
<1> QED BY <1>5, <1>6, <1>7, <1>8, <1>9 DEF PlInv

LEMMA PlCompleteKeeps == PlInv /\ CompleteEmbedding => PlInv'
<1> SUFFICES ASSUME PlInv, CompleteEmbedding PROVE PlInv'
  OBVIOUS
<1>1. PICK w \in PlClaim : plWork = w
  BY DEF CompleteEmbedding, JobExists, WorkerFree, PlInv, PlTypes
<1>2. /\ plVector' = [plVector EXCEPT ![w.doc] = [hash |-> w.hash, of |-> w.of]]
      /\ plJob' = [plJob EXCEPT ![w.doc].status = "completed"] /\ plWork' = NoWork
      /\ plJob[w.doc] # NoJob /\ plWork # NoWork
      /\ plQueue = NoQueue /\ plQueue' = NoQueue /\ PlUnqueued = {} /\ PlUnqueued' = {}
      /\ UNCHANGED << plPaper, plFile, plDoc, plTask, plRun, plStale, plPurge, plSaved, plCut >>
  BY <1>1 DEF CompleteEmbedding, Stays, StaysQueueing, JobExists, WorkerFree, Turn, PlUnqueued, NoQueue
<1>3. w.doc \in Docs /\ w.hash \in PlHashes /\ w.of \in PlHashes /\ plJob[w.doc] \in PlJobRow
  BY <1>1 DEF PlClaim, PlInv, PlTypes
<1>4. /\ plJob' \in [Docs -> PlJobRow] /\ plJob'[w.doc].status = "completed"
      /\ \A e \in Docs : e # w.doc => plJob'[e] = plJob[e]
  BY <1>2, <1>3 DEF PlInv, PlTypes, PlJobRow
<1>5. PlTypes'
  BY <1>2, <1>3, <1>4 DEF PlInv, PlTypes
<1>6. PlTextual'
  BY <1>2, <1>3, <1>4 DEF PlInv, PlTextual, Live
<1>7. PlHashed'
  <2>1. w.doc \notin plStale => w.of = w.hash
    BY <1>1, <1>2 DEF PlInv, PlHashed
  <2>2. ASSUME NEW e \in Docs \ plStale
        PROVE  /\ JobOpen(e)' => plJob'[e].hash = plDoc[e]
               /\ plVector'[e].of = plVector'[e].hash
    <3>1. CASE e = w.doc
      BY <1>2, <1>3, <1>4, <2>1, <3>1 DEF PlInv, PlTypes, JobOpen
    <3>2. CASE e # w.doc
      <4>1. plJob'[e] = plJob[e] /\ plVector'[e] = plVector[e]
        BY <1>2, <1>3, <1>4, <3>2 DEF PlInv, PlTypes
      <4> QED BY <1>2, <4>1 DEF PlInv, PlHashed, JobOpen
    <3> QED BY <3>1, <3>2
  <2> QED BY <1>2, <2>2 DEF PlHashed
<1>8. PlKept'
  BY <1>2, PlFilesAside
<1>9. PlQueued'
  BY <1>2, PlQueueAside
<1> QED BY <1>5, <1>6, <1>7, <1>8, <1>9 DEF PlInv

LEMMA PlFailKeeps == PlInv /\ FailEmbedding => PlInv'
<1> SUFFICES ASSUME PlInv, FailEmbedding PROVE PlInv'
  OBVIOUS
<1>1. PICK w \in PlClaim : plWork = w
  BY DEF FailEmbedding, WorkerFree, PlInv, PlTypes
<1>2. /\ plWork # NoWork /\ plWork' = NoWork
      /\ plQueue = NoQueue /\ plQueue' = NoQueue /\ PlUnqueued = {} /\ PlUnqueued' = {}
      /\ UNCHANGED << plPaper, plFile, plDoc, plVector, plTask, plRun, plStale, plPurge, plSaved, plCut >>
  BY DEF FailEmbedding, Stays, StaysQueueing, WorkerFree, Turn, PlUnqueued, NoQueue
<1>3. \/ plJob' = plJob
      \/ /\ plJob[w.doc] # NoJob
         /\ \E s \in {"failed", "pending"} :
              plJob' = [plJob EXCEPT ![w.doc].attempts = w.attempts + 1,
              ![w.doc].status = s]
  BY <1>1 DEF FailEmbedding, JobExists, WorkerFree, Turn
<1>4. w.doc \in Docs /\ w.attempts \in Nat
  BY <1>1 DEF PlClaim, PlInv, PlTypes
<1>5. plJob' \in [Docs -> PlJobRow]
  <2>1. CASE plJob' = plJob
    BY <2>1 DEF PlInv, PlTypes
  <2>2. ASSUME NEW s \in {"failed", "pending"},
               plJob' = [plJob EXCEPT ![w.doc].attempts = w.attempts + 1,
               ![w.doc].status = s]
        PROVE  plJob' \in [Docs -> PlJobRow]
    <3>1. PICK row : row = [plJob[w.doc] EXCEPT !.attempts = w.attempts + 1, !.status = s]
      OBVIOUS
    <3>2. plJob[w.doc] \in PlJobRow /\ w.attempts + 1 \in Nat
      BY <1>4 DEF PlInv, PlTypes
    <3>3. row \in PlJobRow
      BY <3>1, <3>2 DEF PlJobRow
    <3>4. plJob' = [plJob EXCEPT ![w.doc] = row]
      <4>1. plJob \in [Docs -> PlJobRow]
        BY DEF PlInv, PlTypes
      <4> HIDE DEF PlJobRow
      <4> QED BY <1>4, <2>2, <3>1, <4>1
    <3> QED BY <1>4, <3>3, <3>4 DEF PlInv, PlTypes
  <2> QED BY <1>3, <2>1, <2>2
<1>10. \A e \in Docs : \/ plJob'[e] = plJob[e]
                       \/ e = w.doc /\ plJob[e] # NoJob /\ plJob'[e].hash = plJob[e].hash
  BY <1>3, <1>4 DEF PlInv, PlTypes, PlJobRow
<1>6. PlTypes'
  BY <1>2, <1>5 DEF PlInv, PlTypes
<1>7. PlTextual'
  BY <1>2, <1>10 DEF PlInv, PlTextual, Live
<1>8. PlHashed'
  <2>1. plJob[w.doc] # NoJob => JobOpen(w.doc)
    BY <1>1, <1>2 DEF PlInv, PlHashed
  <2> QED BY <1>2, <1>10, <2>1 DEF PlInv, PlHashed, JobOpen
<1>9. PlKept'
  BY <1>2, PlFilesAside
<1>11. PlQueued'
  BY <1>2, PlQueueAside
<1> QED BY <1>6, <1>7, <1>8, <1>9, <1>11 DEF PlInv

-----------------------------------------------------------------------------
\* A new file of a paper nobody knows makes it a paper with one document.
LEMMA PlImportKeeps == PlInv /\ (\E p \in PlPapers : ImportPdf(p)) => PlInv'
<1> SUFFICES ASSUME PlInv, NEW p \in PlPapers, ImportPdf(p) PROVE PlInv'
  OBVIOUS
<1>1. /\ plPaper[p].status # "purged" /\ plPurge = {} /\ plSaved = 0
      /\ plQueue = NoQueue /\ plQueue' = NoQueue /\ PlUnqueued = {} /\ PlUnqueued' = {}
      /\ UNCHANGED << plVector, plJob, plWork, plTask, plRun, plStale, plPurge, plSaved, plCut >>
      /\ ~ (plPaper[p].status = "archived" /\ plPaper[p].expiry = "passed")
  BY DEF ImportPdf, PlAsks, Stays, StaysQueueing, PurgedFirst, Turn, PlUnqueued, NoQueue
<1>2. plPaper[p] \in PlRow /\ NoPaper \in PlRow
  BY PlRows
<1>5. PlQueued'
  BY <1>1, PlQueueAside
<1>3. CASE Live(p)
  <2>1. PICK e \in {"none", plPaper[p].expiry} :
          plPaper' = [plPaper EXCEPT ![p].status = "active", ![p].expiry = e]
    BY <1>3, Zenon DEF ImportPdf
  <2>2. UNCHANGED << plFile, plDoc >>
    BY <1>3 DEF ImportPdf
  <2>3. e \in {"none", "set", "passed"}
    BY <2>1, PlRows
  <2>4. /\ plPaper' \in [PlPapers -> PlRow]
        /\ plPaper'[p].status = "active" /\ plPaper'[p].text = plPaper[p].text
        /\ plPaper'[p].summary = plPaper[p].summary
        /\ \A q \in PlPapers : q # p => plPaper'[q] = plPaper[q]
    BY <1>2, <2>1, <2>3 DEF PlInv, PlTypes, PlRow
  <2>5. PlTypes'
    BY <1>1, <2>2, <2>4 DEF PlInv, PlTypes
  <2>6. PlTextual' /\ PlHashed'
    <3>1. \A q \in PlPapers : (Live(q)' <=> Live(q)) /\ plPaper'[q].text = plPaper[q].text
      BY <1>3, <2>4 DEF Live
    <3> QED BY <1>1, <2>2, <3>1, PlDocsAside
  <2>7. PlKept'
    BY <1>1, <2>2, <2>4, PlFilesAside
  <2> QED BY <1>5, <2>5, <2>6, <2>7 DEF PlInv
<1>4. CASE ~ Live(p)
  <2>1. /\ plPaper' = [plPaper EXCEPT ![p] = [NoPaper EXCEPT !.status = "active", !.text = 1, !.pdf = TRUE]]
        /\ plDoc' = [plDoc EXCEPT ![<<p, "paper">>] = 1]
        /\ plFile' = [plFile EXCEPT ![p] = @ \cup {"pdf"}]
    BY <1>4 DEF ImportPdf
  <2>2. <<p, "paper">> \in Docs /\ 1 \in PlHashes
    BY DEF Docs, Entities, PlHashes
  <2>3. PICK row : row = [NoPaper EXCEPT !.status = "active", !.text = 1, !.pdf = TRUE]
    OBVIOUS
  <2>12. row \in PlRow /\ row.status = "active" /\ row.text = 1 /\ row.summary = "missing"
    BY <1>2, <2>2, <2>3 DEF PlRow, NoPaper
  <2>4. /\ plPaper' \in [PlPapers -> PlRow]
        /\ plPaper'[p].status = "active" /\ plPaper'[p].text = 1 /\ plPaper'[p].summary = "missing"
        /\ \A q \in PlPapers : q # p => plPaper'[q] = plPaper[q]
    BY <2>1, <2>3, <2>12 DEF PlInv, PlTypes
  <2>5. /\ plDoc' \in [Docs -> PlHashes]
        /\ \A d \in Docs : plDoc'[d] = IF d = <<p, "paper">> THEN 1 ELSE plDoc[d]
    BY <2>1, <2>2 DEF PlInv, PlTypes
  <2>6. /\ plFile' \in [PlPapers -> SUBSET {"pdf", "summary"}]
        /\ \A q \in PlPapers : plFile[q] \subseteq plFile'[q]
    BY <2>1 DEF PlInv, PlTypes
  <2>7. \A d \in Docs : d[1] = p => plDoc[d] = NoDoc /\ plJob[d] = NoJob
    BY <1>4 DEF PlInv, PlTextual
  <2>8. PlTypes'
    BY <1>1, <2>4, <2>5, <2>6 DEF PlInv, PlTypes
  <2>9. PlTextual'
    BY <1>1, <2>4, <2>5, <2>7 DEF PlInv, PlTextual, Live
  <2>10. PlHashed'
    <3>1. <<p, "paper">>[1] = p
      OBVIOUS
    <3>2. ~JobOpen(<<p, "paper">>)
      BY <2>2, <2>7, <3>1 DEF NoJob, JobOpen
    <3> QED BY <1>1, <2>5, <3>2 DEF PlInv, PlHashed, JobOpen
  <2>11. PlKept'
    BY <1>1, <2>4, <2>6 DEF PlInv, PlKept
  <2> QED BY <1>5, <2>8, <2>9, <2>10, <2>11 DEF PlInv
<1> QED BY <1>3, <1>4

\* The row of a paper changes, but neither whether it is there nor its text.
LEMMA PlRowKeeps ==
  ASSUME PlInv, NEW p \in PlPapers, p \notin plPurge, NEW row \in PlRow,
         plPaper' = [plPaper EXCEPT ![p] = row],
         row.text = plPaper[p].text,
         Live(p) <=> row.status \in {"active", "archived"},
         row.summary = "completed" => plPaper[p].summary = "completed",
         UNCHANGED << plFile, plDoc, plVector, plJob, plWork, plRun, plStale,
         plPurge, plSaved, plQueue, plCut >>
  PROVE  PlInv'
<1>1. /\ plPaper' \in [PlPapers -> PlRow] /\ plPaper'[p] = row
      /\ \A q \in PlPapers : q # p => plPaper'[q] = plPaper[q]
  BY DEF PlInv, PlTypes
<1>2. PlTypes'
  BY <1>1 DEF PlInv, PlTypes
<1>3. \A q \in PlPapers : (Live(q)' <=> Live(q)) /\ plPaper'[q].text = plPaper[q].text
  BY <1>1 DEF Live
<1>4. PlTextual' /\ PlHashed'
  BY <1>3, PlDocsAside
<1>5. \A q \in plPurge : plPaper'[q] = plPaper[q]
  <2>1. \A q \in plPurge : q \in PlPapers \/ plPaper'[q] = plPaper[q]
    BY DEF PlInv, PlTypes
  <2> QED BY <1>1, <2>1
<1>6. PlKept'
  BY <1>1, <1>5, PlFilesAside
<1>7. PlQueued'
  BY <1>3 DEF PlInv, PlTypes, PlQueued, Docs
<1> QED BY <1>2, <1>4, <1>6, <1>7 DEF PlInv

LEMMA PlTrashKeeps ==
  PlInv /\ (\E p \in PlPapers : TrashPaper(p) \/ WindowPasses(p) \/ \E s \in {"active", "archived"} : Archive(p, s))
    => PlInv'
<1> SUFFICES ASSUME PlInv, NEW p \in PlPapers,
                    TrashPaper(p) \/ WindowPasses(p) \/ \E s \in {"active",
                    "archived"} : Archive(p, s)
             PROVE  PlInv'
  OBVIOUS
<1>1. UNCHANGED << plFile, plDoc, plVector, plJob, plWork, plRun, plStale, plPurge, plSaved, plQueue, plCut >>
  BY DEF TrashPaper, WindowPasses, Archive, Stays, StaysQueueing
<1>2. PICK row : /\ plPaper' = [plPaper EXCEPT ![p] = row]
                 /\ \/ /\ row = [plPaper[p] EXCEPT !.status = "archived", !.expiry = "set"]
                       /\ Live(p) /\ plPurge = {}
                    \/ /\ row = [plPaper[p] EXCEPT !.expiry = "passed"]
                       /\ plPaper[p].expiry = "set"
                    \/ /\ \E s \in {"active", "archived"} : row = [plPaper[p] EXCEPT !.status = s]
                       /\ Live(p) /\ plPurge = {}
  <2>1. CASE TrashPaper(p)
    BY <2>1 DEF TrashPaper, PlAsks, Turn
  <2>2. CASE WindowPasses(p)
    BY <2>2 DEF WindowPasses
  <2>3. CASE \E s \in {"active", "archived"} : Archive(p, s)
    BY <2>3 DEF Archive, PlAsks, Turn
  <2> QED BY <2>1, <2>2, <2>3
<1>3. row \in PlRow /\ row.text = plPaper[p].text /\ row.summary = plPaper[p].summary
      /\ (Live(p) <=> row.status \in {"active", "archived"})
  BY <1>2, PlRows DEF PlRow, Live
<1>4. p \notin plPurge
  BY <1>2 DEF PlInv, PlKept
<1> QED BY <1>1, <1>2, <1>3, <1>4, PlRowKeeps

\* The directory goes, and then the row with all that depends on it.
LEMMA PlPurgeKeeps == PlInv /\ (\E p \in PlPapers : PurgeFiles(p)) => PlInv'
<1> SUFFICES ASSUME PlInv, NEW p \in PlPapers, PurgeFiles(p) PROVE PlInv'
  OBVIOUS
<1>1. /\ plQueue = NoQueue /\ plQueue' = NoQueue
      /\ plPurge = {} /\ plSaved = 0 /\ plPaper[p].status = "archived" /\ plPaper[p].expiry = "passed"
      /\ plFile' = [plFile EXCEPT ![p] = {}] /\ plPurge' = {p}
      /\ UNCHANGED << plPaper, plDoc, plVector, plJob, plWork, plTask, plRun, plSaved, plStale, plCut >>
  BY DEF PurgeFiles, Turn
<1>2. PlTypes'
  BY <1>1 DEF PlInv, PlTypes
<1>3. PlTextual' /\ PlHashed'
  BY <1>1, PlDocsAside DEF Live
<1>4. PlKept'
  <2>1. \A q \in PlPapers : q # p => plFile'[q] = plFile[q]
    BY <1>1 DEF PlInv, PlTypes
  <2> QED BY <1>1, <2>1 DEF PlInv, PlKept
<1>5. PlQueued'
  BY <1>1, PlQueueAside
<1> QED BY <1>2, <1>3, <1>4, <1>5 DEF PlInv

LEMMA PlDeleteKeeps == PlInv /\ (\E p \in PlPapers : DeletePaper(p)) => PlInv'
<1> SUFFICES ASSUME PlInv, NEW p \in PlPapers, DeletePaper(p) PROVE PlInv'
  OBVIOUS
<1>1. /\ p \in plPurge /\ plPaper' = [plPaper EXCEPT ![p] = [NoPaper EXCEPT !.status = "purged"]]
      /\ plDoc' = [d \in Docs |-> IF d[1] = p THEN NoDoc ELSE plDoc[d]]
      /\ plVector' = [d \in Docs |-> IF d[1] = p THEN NoVector ELSE plVector[d]]
      /\ plJob' = [d \in Docs |-> IF d[1] = p THEN NoJob ELSE plJob[d]]
      /\ plPurge' = {}
      /\ UNCHANGED << plFile, plWork, plTask, plRun, plSaved, plQueue, plStale, plCut >>
  BY DEF DeletePaper, Cascade
<1>2. PICK row \in PlRow : row = [NoPaper EXCEPT !.status = "purged"] /\ row.status = "purged"
                           /\ row.summary = "missing"
  <2>1. [NoPaper EXCEPT !.status = "purged"] \in PlRow
    BY PlRows DEF PlRow
  <2> QED BY <2>1 DEF NoPaper
<1>3. /\ plPaper' \in [PlPapers -> PlRow] /\ plPaper'[p] = row
      /\ \A q \in PlPapers : q # p => plPaper'[q] = plPaper[q]
  BY <1>1, <1>2 DEF PlInv, PlTypes
<1>4. /\ plDoc' \in [Docs -> PlHashes] /\ plJob' \in [Docs -> PlJobRow]
      /\ plVector' \in [Docs -> [hash : PlHashes, of : PlHashes]]
  BY <1>1 DEF PlInv, PlTypes, PlHashes, NoDoc, NoVector, NoJob, PlJobRow
<1>5. PlTypes'
  BY <1>1, <1>3, <1>4 DEF PlInv, PlTypes
<1>6. PlTextual'
  <2> HIDE DEF Docs, NoJob, NoDoc
  <2> QED BY <1>1, <1>2, <1>3 DEF PlInv, PlTextual, Live
<1>7. PlHashed'
  <2>1. ASSUME NEW d \in Docs \ plStale
        PROVE  /\ JobOpen(d)' /\ d \notin PlUnqueued' => plJob'[d].hash = plDoc'[d]
               /\ plVector'[d].of = plVector'[d].hash
    <3>1. CASE d[1] = p
      BY <1>1, <3>1 DEF NoJob, NoVector, JobOpen
    <3>2. CASE d[1] # p
      <4>1. plJob'[d] = plJob[d] /\ plDoc'[d] = plDoc[d] /\ plVector'[d] = plVector[d]
        BY <1>1, <3>2
      <4> QED BY <1>1, <4>1 DEF PlInv, PlHashed, JobOpen, PlUnqueued
    <3> QED BY <3>1, <3>2
  <2>2. plWork # NoWork => plWork.doc \in Docs
    BY DEF PlInv, PlTypes, PlClaim
  <2>3. plWork # NoWork /\ plJob'[plWork.doc] # NoJob => JobOpen(plWork.doc)'
    BY <1>1, <2>2 DEF PlInv, PlHashed, JobOpen
  <2> QED BY <1>1, <2>1, <2>3 DEF PlInv, PlHashed
<1>8. PlKept'
  <2>1. plSaved = 0
    BY <1>1 DEF PlInv, PlKept
  <2>2. \A q \in PlPapers : q # p /\ plPaper[q].summary = "completed" /\ q \notin plCut => "summary" \in plFile[q]
    <3> SUFFICES ASSUME NEW q \in PlPapers, q # p, plPaper[q].summary = "completed", q \notin plCut
                 PROVE "summary" \in plFile[q]
      OBVIOUS
    <3>1. q \notin plPurge
      BY <1>1 DEF PlInv, PlKept
    <3> QED BY <3>1 DEF PlInv, PlKept
  <2> QED BY <1>1, <1>2, <1>3, <2>1, <2>2 DEF PlKept
<1>9. PlQueued'
  BY <1>1 DEF PlInv, PlQueued
<1> QED BY <1>5, <1>6, <1>7, <1>8, <1>9 DEF PlInv

-----------------------------------------------------------------------------
\* A summary is read, queued, begun, marked as running or given up.
LEMMA PlSummaryKeeps ==
  PlInv /\ (\E p \in PlPapers : \/ ReadSummary(p) \/ QueueSummary(p) \/ StartSummary(p) \/ SummaryStartFails(p)
                                \/ \E r \in 1 .. PlRuns : MarkRunning(p, r)) => PlInv'
<1> SUFFICES ASSUME PlInv, NEW p \in PlPapers,
                    \/ ReadSummary(p) \/ QueueSummary(p) \/ StartSummary(p) \/ SummaryStartFails(p)
                    \/ \E r \in 1 .. PlRuns : MarkRunning(p, r)
             PROVE  PlInv'
  OBVIOUS
<1>1. /\ UNCHANGED << plFile, plDoc, plVector, plJob, plWork, plRun, plStale, plPurge, plSaved, plQueue, plCut >>
      /\ plPurge = {}
  BY DEF ReadSummary, QueueSummary, StartSummary, SummaryStartFails, MarkRunning,
     Stays, StaysQueueing, PlAsks, Turn
<1>2. plPaper[p] \in PlRow /\ plPaper[p].run \in Nat
  BY PlRows
<1>3. PICK row \in PlRow : /\ plPaper' = [plPaper EXCEPT ![p] = row]
                           /\ row.text = plPaper[p].text /\ row.status = plPaper[p].status
                           /\ (row.summary = "completed" => plPaper[p].summary = "completed")
  <2>1. ASSUME NEW s \in {"queued", "running", "failed"}, NEW r \in Nat, MarkSummary(p, s, r)
        PROVE  \E row \in PlRow : /\ plPaper' = [plPaper EXCEPT ![p] = row]
                           /\ row.text = plPaper[p].text /\ row.status = plPaper[p].status
                           /\ (row.summary = "completed" => plPaper[p].summary = "completed")
    <3>1. PICK row : row = [plPaper[p] EXCEPT !.summary = s, !.run = r]
      OBVIOUS
    <3>2. row \in PlRow /\ row.text = plPaper[p].text /\ row.status = plPaper[p].status /\ row.summary = s
      BY <1>2, <2>1, <3>1 DEF PlRow
    <3>3. plPaper' = [plPaper EXCEPT ![p] = row]
      BY <2>1, <3>1 DEF MarkSummary
    <3> QED BY <2>1, <3>2, <3>3
  <2>2. CASE UNCHANGED plPaper
    <3>1. plPaper' = [plPaper EXCEPT ![p] = plPaper[p]]
      BY <2>2 DEF PlInv, PlTypes
    <3> QED BY <1>2, <3>1
  <2>3. \/ UNCHANGED plPaper
        \/ \E s \in {"queued", "running", "failed"}, r \in Nat : MarkSummary(p, s, r)
    <3> HIDE DEF MarkSummary
    <3>1. ASSUME NEW r \in 1 .. PlRuns, MarkRunning(p, r) PROVE MarkSummary(p, "running", r) \/ UNCHANGED plPaper
      BY <3>1 DEF MarkRunning
    <3>2. \A r \in 1 .. PlRuns : r \in Nat
      OBVIOUS
    <3>3. 0 \in Nat
      OBVIOUS
    <3>4. \/ MarkSummary(p, "failed", plPaper[p].run) \/ MarkSummary(p, "queued", 0)
          \/ MarkSummary(p, "failed", 0) \/ UNCHANGED plPaper
          \/ \E r \in 1 .. PlRuns : MarkSummary(p, "running", r)
      BY <3>1 DEF ReadSummary, QueueSummary, StartSummary, SummaryStartFails
    <3> QED BY <1>2, <3>2, <3>3, <3>4
  <2> QED BY <2>1, <2>2, <2>3
<1> QED BY <1>1, <1>3, PlRowKeeps DEF Live

LEMMA PlRunKeeps ==
  PlInv /\ (\E r \in 1 .. PlRuns : RunFails(r) \/ \E p \in PlPapers : CreateSummaryRun(p, r)) => PlInv'
<1> SUFFICES ASSUME PlInv, NEW r \in 1 .. PlRuns, RunFails(r) \/ \E p \in PlPapers : CreateSummaryRun(p, r)
             PROVE  PlInv'
  OBVIOUS
<1>1. /\ UNCHANGED << plPaper, plFile, plDoc, plVector, plJob, plWork, plStale, plPurge, plSaved, plQueue, plCut >>
      /\ plQueue = NoQueue /\ plPurge = {} /\ plSaved = 0
  BY DEF RunFails, CreateSummaryRun, Stays, StaysQueueing, Turn
<1>2. plRun' \in [1 .. PlRuns -> [status : {"none", "live", "completed", "failed"}, paper : SUBSET PlPapers]]
  BY DEF RunFails, CreateSummaryRun, PlInv, PlTypes
<1>3. PlTypes'
  BY <1>1, <1>2 DEF PlInv, PlTypes
<1>4. PlTextual' /\ PlHashed'
  BY <1>1, PlDocsAside DEF Live
<1>5. PlKept'
  BY <1>1 DEF PlInv, PlKept
<1>6. PlQueued'
  BY <1>1, PlQueueAside
<1> QED BY <1>3, <1>4, <1>5, <1>6 DEF PlInv

\* The file is in place before the mark.
LEMMA PlSaveKeeps == PlInv /\ (\E r \in 1 .. PlRuns : SaveSummary(r)) => PlInv'
<1> SUFFICES ASSUME PlInv, NEW r \in 1 .. PlRuns, SaveSummary(r) PROVE PlInv'
  OBVIOUS
<1>1. /\ plRun' = [plRun EXCEPT ![r].status = "completed"]
      /\ plFile' = [p \in PlPapers |-> IF p \in plRun[r].paper THEN plFile[p] \cup {"summary"} ELSE plFile[p]]
      /\ plSaved' = r /\ plPurge = {} /\ plSaved = 0
      /\ UNCHANGED << plPaper, plDoc, plVector, plJob, plWork, plStale, plPurge, plQueue, plCut >>
      /\ plQueue = NoQueue
  BY DEF SaveSummary, Turn
<1>2. /\ plRun' \in [1 .. PlRuns -> [status : {"none", "live", "completed", "failed"}, paper : SUBSET PlPapers]]
      /\ plRun'[r].paper = plRun[r].paper /\ plRun[r].paper \subseteq PlPapers
  BY <1>1 DEF PlInv, PlTypes
<1>3. plFile' \in [PlPapers -> SUBSET {"pdf", "summary"}] /\ (\A p \in PlPapers : plFile[p] \subseteq plFile'[p])
  BY <1>1 DEF PlInv, PlTypes
<1>4. PlTypes'
  BY <1>1, <1>2, <1>3 DEF PlInv, PlTypes
<1>5. PlTextual' /\ PlHashed'
  BY <1>1, PlDocsAside DEF Live
<1>6. \A p \in plRun'[r].paper : "summary" \in plFile'[p]
  BY <1>1, <1>2
<1>7. PlKept'
  BY <1>1, <1>3, <1>6 DEF PlInv, PlKept
<1>8. PlQueued'
  BY <1>1, PlQueueAside
<1> QED BY <1>4, <1>5, <1>7, <1>8 DEF PlInv

LEMMA PlMarkKeeps == PlInv /\ MarkCompleted => PlInv'
<1> SUFFICES ASSUME PlInv, MarkCompleted PROVE PlInv'
  OBVIOUS
<1>1. /\ plSaved # 0 /\ plSaved' = 0
      /\ plPaper' = [p \in PlPapers |-> IF p \in plRun[plSaved].paper /\ Live(p)
                                        THEN [plPaper[p] EXCEPT !.summary = "completed", !.run = plSaved]
                                        ELSE plPaper[p]]
      /\ UNCHANGED << plFile, plDoc, plVector, plJob, plWork, plRun, plPurge, plQueue, plStale, plCut >>
  BY DEF MarkCompleted
<1>2. plSaved \in 1 .. PlRuns /\ plSaved \in Nat /\ plPurge = {}
      /\ (\A p \in plRun[plSaved].paper : "summary" \in plFile[p])
  BY <1>1 DEF PlInv, PlTypes, PlKept
<1>3. ASSUME NEW p \in PlPapers
      PROVE  /\ plPaper'[p] \in PlRow
             /\ plPaper'[p].text = plPaper[p].text /\ plPaper'[p].status = plPaper[p].status
             /\ plPaper'[p].expiry = plPaper[p].expiry
             /\ plPaper'[p].summary = "completed" =>
                  plPaper[p].summary = "completed" \/ "summary" \in plFile[p]
  <2>1. plPaper[p] \in PlRow
    BY PlRows
  <2>2. CASE p \in plRun[plSaved].paper /\ Live(p)
    <3>1. PICK row : row = [plPaper[p] EXCEPT !.summary = "completed", !.run = plSaved]
      OBVIOUS
    <3>2. plPaper'[p] = row
      BY <1>1, <2>2, <3>1
    <3>3. /\ row \in PlRow /\ row.text = plPaper[p].text /\ row.status = plPaper[p].status
          /\ row.expiry = plPaper[p].expiry
      BY <1>2, <2>1, <3>1 DEF PlRow
    <3>4. "summary" \in plFile[p]
      BY <1>2, <2>2
    <3> QED BY <3>2, <3>3, <3>4
  <2>3. CASE ~ (p \in plRun[plSaved].paper /\ Live(p))
    BY <1>1, <2>1, <2>3
  <2> QED BY <2>2, <2>3
<1>4. plPaper' \in [PlPapers -> PlRow]
  BY <1>1, <1>3
<1>5. PlTypes'
  BY <1>1, <1>4 DEF PlInv, PlTypes
<1>6. PlTextual' /\ PlHashed'
  BY <1>1, <1>3, PlDocsAside DEF Live
<1>7. PlKept'
  BY <1>1, <1>2, <1>3 DEF PlInv, PlKept
<1>8. PlQueued'
  BY <1>1 DEF PlInv, PlQueued
<1> QED BY <1>5, <1>6, <1>7, <1>8 DEF PlInv

LEMMA PlDeathKeeps == PlInv /\ PlDies => PlInv'
<1> SUFFICES ASSUME PlInv, PlDies PROVE PlInv'
  OBVIOUS
<1>1. /\ plJob' = [d \in Docs |-> IF plJob[d].status = "running" THEN [plJob[d] EXCEPT !.status = "pending"]
                                  ELSE plJob[d]]
      /\ plWork' = NoWork /\ plPurge' = {} /\ plSaved' = 0 /\ plQueue' = NoQueue /\ plCut' = plCut \cup plPurge
      /\ plRun' = IF plSaved = 0 THEN plRun ELSE [plRun EXCEPT ![plSaved].status = "live"]
      /\ plStale' = plStale \cup {d \in plQueue.docs : ~plQueue.force /\ JobOpen(d)}
      /\ UNCHANGED << plPaper, plFile, plDoc, plVector >>
  BY DEF PlDies
<1>2. /\ plJob' \in [Docs -> PlJobRow]
      /\ \A d \in Docs : \/ plJob'[d] = plJob[d]
                         \/ plJob[d].status = "running" /\ plJob'[d].hash = plJob[d].hash
  <2>1. ASSUME NEW d \in Docs
        PROVE  /\ plJob'[d] \in PlJobRow
               /\ \/ plJob'[d] = plJob[d]
                  \/ plJob[d].status = "running" /\ plJob'[d].hash = plJob[d].hash
    <3>1. PICK row \in PlJobRow : row = plJob[d]
      BY DEF PlInv, PlTypes
    <3>2. plJob'[d] = IF row.status = "running" THEN [row EXCEPT !.status = "pending"] ELSE row
      BY <1>1, <3>1
    <3> QED BY <3>1, <3>2 DEF PlJobRow
  <2>2. DOMAIN plJob' = Docs /\ plJob' = [d \in Docs |-> plJob'[d]]
    BY <1>1
  <2> QED BY <2>1, <2>2
<1>3. plRun' \in [1 .. PlRuns -> [status : {"none", "live", "completed", "failed"}, paper : SUBSET PlPapers]]
  BY <1>1 DEF PlInv, PlTypes
<1>4. PlTypes'
  BY <1>1, <1>2, <1>3 DEF PlInv, PlTypes, NoQueue
<1>5. PlTextual'
  BY <1>1, <1>2 DEF PlInv, PlTextual, Live, NoJob
<1>6. PlHashed'
  <2>1. \A d \in Docs \ plStale' : JobOpen(d)' => JobOpen(d) /\ d \notin PlUnqueued
    BY <1>1, <1>2 DEF JobOpen, PlUnqueued
  <2> QED BY <1>1, <1>2, <2>1 DEF PlInv, PlHashed
<1>7. PlKept'
  BY <1>1 DEF PlInv, PlKept
<1>8. PlQueued'
  BY <1>1, PlQueueAside
<1> QED BY <1>4, <1>5, <1>6, <1>7, <1>8 DEF PlInv

LEMMA PlStep == PlInv /\ [PlNext]_plVars => PlInv'
<1>1. PlInv /\ UNCHANGED plVars => PlInv'
  BY DEF plVars, PlInv, PlTypes, PlTextual, PlQueued, PlHashed, PlKept, Live, PlUnqueued, JobOpen
<1>2. PlInv /\ PlDocuments => PlInv'
  BY PlQueueKeeps, PlUpsertKeeps, PlPassageKeeps, PlClaimKeeps, PlCompleteKeeps,
     PlFailKeeps DEF PlDocuments
<1>3. PlInv /\ PlFiles => PlInv'
  BY PlImportKeeps, PlTrashKeeps, PlPurgeKeeps, PlDeleteKeeps DEF PlFiles
<1>4. PlInv /\ PlSummaries => PlInv'
  BY PlSummaryKeeps, PlRunKeeps, PlSaveKeeps, PlMarkKeeps DEF PlSummaries
<1> QED BY <1>1, <1>2, <1>3, <1>4, PlDeathKeeps DEF PlNext

(* The paper library of reference/store.py, reference/embeddings.py and      *)
(* gateway/paper_web.py: semantic search ranks a document by a vector of its *)
(* present text, and a summary marked as completed has its file, for every   *)
(* interleaving of requests, worker, summary Runs, purges and deaths and     *)
(* with the two exceptions the properties name.                              *)
THEOREM LibraryKept == PlSpec => []LibrarySound
<1>1. PlInv => LibrarySound
  <2> SUFFICES ASSUME PlInv PROVE VectorMatchesText /\ SummaryPresent
    BY DEF LibrarySound
  <2>1. VectorMatchesText
    BY DEF PlInv, PlHashed, VectorMatchesText, Served
  <2>2. SummaryPresent
    BY DEF PlInv, PlKept, SummaryPresent
  <2> QED BY <2>1, <2>2
<1> HIDE DEF PlInv
<1> QED BY <1>1, PlInitial, PlStep, PTL DEF PlSpec

-----------------------------------------------------------------------------
(* Structured memory: records, index, profile and import.                    *)

LmStatus == {"none", "active", "superseded", "conflicted", "tombstoned"}
LmJob == LmIds \X Nat
LmAnyRef == LmRefs \union {"none", << "legacy", 0 >>} \union ({"dream"} \X Nat)
LmRow == [status : LmStatus, rev : Nat, single : BOOLEAN, pinned : BOOLEAN, by : LmIds \union {"none"},
          primary : LmAnyRef, refs : SUBSET LmAnyRef, at : Nat]
LmSeen == [rev : Nat, status : LmStatus]

LmTypes ==
  /\ lmRecord \in [LmIds -> LmRow]
  /\ \A i \in LmIds : lmRecord[i].status = "none" <=> lmRecord[i].rev = 0
  /\ lmQueue \in Seq(LmJob)
  /\ lmIndex \in [LmIds -> LmSeen]
  /\ lmWork \in [LmWorkers -> [stage : {"idle", "claimed", "indexed"}, job : LmJob \union {<< >>}, row : LmSeen]]
  /\ \A w \in LmWorkers : lmWork[w].stage # "idle" => lmWork[w].job \in LmJob
  /\ lmEmbed \in Seq(LmJob) /\ lmEmbWork \in LmJob \union {<< >>}
  /\ lmVector \subseteq LmIds /\ lmRecalled \subseteq LmIds
  /\ lmMigration \in [status : {"none", "running", "completed", "failed"}, left : SUBSET LmLegacy]

\* The row of the index that is up to date.
Cur(i) == [rev |-> lmRecord[i].rev, status |-> lmRecord[i].status]
Queued(i) == \E n \in 1..Len(lmQueue) : lmQueue[n] = << i, lmRecord[i].rev >>
Of(w, i) == lmWork[w].stage # "idle" /\ lmWork[w].job[1] = i

\* Jobs are of revisions that have been.
LmJobsBehind ==
  \A n \in 1..Len(lmQueue) : lmQueue[n][2] <= lmRecord[lmQueue[n][1]].rev /\ lmQueue[n][1] \in Known(lmRecord)

\* A record is indexed as it is, or a job for its revision is open.
LmIndexed == \A i \in Known(lmRecord) \ lmStale : Queued(i) \/ lmIndex[i] = Cur(i)

\* What a worker has read is no older than its job, and as the record is unless another job is open.
LmRead ==
  \A i \in LmIds, w \in LmWorkers : Of(w, i) =>
    /\ i \in Known(lmRecord)
    /\ lmWork[w].job[2] <= lmWork[w].row.rev /\ lmWork[w].row.rev <= lmRecord[i].rev
    /\ lmWork[w].row.rev = lmRecord[i].rev => lmWork[w].row.status = lmRecord[i].status
    /\ i \notin lmStale => Queued(i) \/ lmWork[w].row = Cur(i)

\* What a worker has indexed is what the index holds, and no worker has read an older record.
LmWrote ==
  \A i \in LmIds \ lmStale, w \in LmWorkers : Of(w, i) /\ lmWork[w].stage = "indexed" =>
    /\ lmIndex[i] = lmWork[w].row
    /\ \A v \in LmWorkers : v # w /\ Of(v, i) => lmWork[w].row.rev <= lmWork[v].row.rev

\* A hand edit stands against the digest of a projection.
LmFile ==
  /\ \A d \in lmDigest : d.by = "projector"
  /\ lmEdited => lmDigest # {} /\ lmProfile.by = "hand"

LmImport ==
  /\ LmLegacy \ lmMigration.left \subseteq Known(lmRecord)
  /\ lmMigration.status = "completed" => lmMigration.left = {}

LmIndexInv == LmJobsBehind /\ LmIndexed /\ LmRead /\ LmWrote
LmInv == LmTypes /\ LmIndexInv /\ LmFile /\ LmImport

-----------------------------------------------------------------------------
\* A job that becomes ready leaves the others where they are.
LEMMA LmCloses ==
  ASSUME NEW S, NEW q \in Seq(S), NEW job, NEW left, Closed(q, job, left)
  PROVE  /\ left \in Seq(S)
         /\ \A n \in 1..Len(left) : \E m \in 1..Len(q) : left[n] = q[m]
         /\ \A m \in 1..Len(q) : q[m] # job => \E n \in 1..Len(left) : left[n] = q[m]
<1>1. Len(q) \in Nat /\ DOMAIN q = 1..Len(q)
  OBVIOUS
<1>2. CASE left = q
  BY <1>1, <1>2
<1>3. ASSUME NEW k \in 1..Len(q), q[k] = job, left = RemoveAt(q, k)
      PROVE  /\ left \in Seq(S)
             /\ \A n \in 1..Len(left) : \E m \in 1..Len(q) : left[n] = q[m]
             /\ \A m \in 1..Len(q) : q[m] # job => \E n \in 1..Len(left) : left[n] = q[m]
  <2>1. PICK a, b : a = SubSeq(q, 1, k - 1) /\ b = SubSeq(q, k + 1, Len(q)) /\ left = a \o b
    BY <1>3 DEF RemoveAt
  <2>2. a \in Seq(S) /\ Len(a) = k - 1 /\ (\A n \in 1..k - 1 : a[n] = q[n])
    BY <1>1, <2>1
  <2>3. b \in Seq(S) /\ Len(b) = Len(q) - k /\ (\A n \in 1..Len(q) - k : b[n] = q[n + k])
    <3>1. k + 1 \in Int /\ Len(q) \in Int /\ (\A n \in k + 1..Len(q) : q[n] \in S)
      BY <1>1
    <3>2. /\ b \in Seq(S) /\ Len(b) = IF k + 1 <= Len(q) THEN Len(q) - (k + 1) + 1 ELSE 0
          /\ \A n \in 1..Len(q) - (k + 1) + 1 : b[n] = q[k + 1 + n - 1]
      BY <2>1, <3>1, SubSeqProperties
    <3>3. Len(b) = Len(q) - k
      <4>1. PICK l \in Nat : l = Len(q)
        BY <1>1
      <4>2. Len(b) = IF k + 1 <= l THEN l - (k + 1) + 1 ELSE 0
        BY <3>2, <4>1
      <4>3. k \in 1..l
        BY <4>1
      <4> QED BY <4>1, <4>2, <4>3
    <3>4. ASSUME NEW n \in 1..Len(q) - k PROVE b[n] = q[n + k]
      <4>1. n \in 1..Len(q) - (k + 1) + 1 /\ k + 1 + n - 1 = n + k
        BY <1>1
      <4> QED BY <3>2, <4>1
    <3> QED BY <3>2, <3>3, <3>4
  <2>7. /\ left \in Seq(S) /\ Len(left) = Len(a) + Len(b)
        /\ \A n \in 1..Len(a) + Len(b) : left[n] = IF n <= Len(a) THEN a[n] ELSE b[n - Len(a)]
      <3>1. /\ a \o b \in Seq(S) /\ Len(a \o b) = Len(a) + Len(b)
            /\ \A j \in 1 .. Len(a) + Len(b) : (a \o b)[j] = IF j <= Len(a) THEN a[j] ELSE b[j - Len(a)]
        BY <2>2, <2>3, ConcatProperties, Zenon
      <3> QED BY <3>1, <2>1, Zenon
  <2>8. Len(left) = Len(q) - 1
    BY <1>1, <2>2, <2>3, <2>7
  <2>9. ASSUME NEW n \in 1..k - 1 PROVE left[n] = q[n]
    <3>1. n \in 1..Len(a) + Len(b) /\ n <= Len(a)
      BY <1>1, <2>2, <2>3
    <3> QED BY <2>2, <2>7, <3>1
  <2>10. ASSUME NEW n \in k..Len(q) - 1 PROVE left[n] = q[n + 1]
    <3>1. n \in 1..Len(a) + Len(b) /\ ~ (n <= Len(a)) /\ n - Len(a) \in 1..Len(q) - k
          /\ (n - Len(a)) + k = n + 1
      BY <1>1, <2>2, <2>3
    <3> QED BY <2>3, <2>7, <3>1
  <2>4. /\ left \in Seq(S) /\ Len(left) = Len(q) - 1
        /\ \A n \in 1..k - 1 : left[n] = q[n]
        /\ \A n \in k..Len(q) - 1 : left[n] = q[n + 1]
    BY <2>7, <2>8, <2>9, <2>10
  <2>5. \A n \in 1..Len(left) : \E m \in 1..Len(q) : left[n] = q[m]
    <3> SUFFICES ASSUME NEW n \in 1..Len(left) PROVE \E m \in 1..Len(q) : left[n] = q[m]
      OBVIOUS
    <3>1. CASE n \in 1..k - 1
      BY <1>1, <2>4, <3>1
    <3>2. CASE n \in k..Len(q) - 1
      <4>1. n + 1 \in 1..Len(q)
        BY <1>1, <3>2
      <4> QED BY <2>4, <3>2, <4>1
    <3> QED BY <1>1, <2>4, <3>1, <3>2
  <2>6. \A m \in 1..Len(q) : q[m] # job => \E n \in 1..Len(left) : left[n] = q[m]
    <3> SUFFICES ASSUME NEW m \in 1..Len(q), q[m] # job PROVE \E n \in 1..Len(left) : left[n] = q[m]
      OBVIOUS
    <3>1. CASE m \in 1..k - 1
      BY <1>1, <2>4, <3>1
    <3>2. CASE m \in k + 1..Len(q)
      <4>1. m - 1 \in k..Len(q) - 1 /\ m - 1 \in 1..Len(left) /\ (m - 1) + 1 = m
        BY <1>1, <2>4, <3>2
      <4> QED BY <2>4, <4>1
    <3> QED BY <1>1, <1>3, <3>1, <3>2
  <2> QED BY <2>4, <2>5, <2>6
<1> QED BY <1>1, <1>2, <1>3 DEF Closed

\* The jobs of changed records, behind the queue.
LEMMA LmOrders ==
  ASSUME NEW ids \in SUBSET LmIds, NEW records \in [LmIds -> LmRow],
  NEW queue \in Seq(LmJob),
         NEW s \in Orders(ids)
  PROVE  \E longer \in Seq(LmJob) :
           /\ longer = queue \o JobsOf(records, s)
           /\ \A n \in 1..Len(queue) : n \in 1..Len(longer) /\ longer[n] = queue[n]
           /\ \A n \in 1..Len(longer) : (\E m \in 1..Len(queue) : longer[n] = queue[m])
                                        \/ (\E i \in ids : longer[n] = << i, records[i].rev >>)
           /\ \A i \in ids : \E n \in 1..Len(longer) : longer[n] = << i, records[i].rev >>
<1>0. PICK longer : longer = queue \o JobsOf(records, s)
  OBVIOUS
<1>1. Cardinality(ids) \in Nat
  BY LmAssumption, FS_Subset, FS_CardinalityType
<1>2. PICK len \in Nat : len = Cardinality(ids)
  BY <1>1
<1>3. s \in [1..len -> ids] /\ DOMAIN s = 1..len /\ (\A i \in ids : \E n \in 1..len : i = s[n])
  BY <1>2 DEF Orders
<1>4. PICK jobs : jobs = [n \in 1..len |-> << s[n], records[s[n]].rev >>]
  OBVIOUS
<1>5. longer = queue \o jobs
  BY <1>0, <1>3, <1>4 DEF JobsOf
<1>6. jobs \in Seq(LmJob) /\ Len(jobs) = len /\ (\A n \in 1..len : jobs[n] = << s[n], records[s[n]].rev >>)
  <2>1. ASSUME NEW n \in 1..len PROVE << s[n], records[s[n]].rev >> \in LmJob
    <3>1. s[n] \in LmIds
      BY <1>3
    <3> QED BY <3>1 DEF LmJob, LmRow
  <2> QED BY <1>4, <2>1
<1>7. /\ longer \in Seq(LmJob) /\ Len(longer) = Len(queue) + len /\ Len(queue) \in Nat
      /\ \A n \in 1..Len(queue) : longer[n] = queue[n]
      /\ \A n \in 1..len : longer[Len(queue) + n] = jobs[n]
  <2>1. /\ longer \in Seq(LmJob) /\ Len(longer) = Len(queue) + Len(jobs)
        /\ \A n \in 1..Len(queue) + Len(jobs) :
             longer[n] = IF n <= Len(queue) THEN queue[n] ELSE jobs[n - Len(queue)]
      <3>1. /\ queue \o jobs \in Seq(LmJob) /\ Len(queue \o jobs) = Len(queue) + Len(jobs)
            /\ \A j \in 1 .. Len(queue) + Len(jobs) : (queue \o jobs)[j] = IF j <= Len(queue) THEN queue[j] ELSE jobs[j - Len(queue)]
        BY <1>6, ConcatProperties, Zenon
      <3> QED BY <3>1, <1>5, Zenon
  <2>2. Len(queue) \in Nat
    OBVIOUS
  <2>3. ASSUME NEW n \in 1..len PROVE longer[Len(queue) + n] = jobs[n]
    <3>1. /\ Len(queue) + n \in 1..Len(queue) + Len(jobs) /\ ~ (Len(queue) + n <= Len(queue))
          /\ Len(queue) + n - Len(queue) = n
      BY <1>6, <2>2
    <3> QED BY <2>1, <3>1
  <2>4. ASSUME NEW n \in 1..Len(queue) PROVE longer[n] = queue[n]
    BY <1>6, <2>1, <2>2
  <2> QED BY <1>6, <2>1, <2>2, <2>3, <2>4
<1>8. \A i \in ids : \E n \in 1..Len(longer) : longer[n] = << i, records[i].rev >>
  <2> SUFFICES ASSUME NEW i \in ids PROVE \E n \in 1..Len(longer) : longer[n] = << i, records[i].rev >>
    OBVIOUS
  <2>1. PICK n \in 1..len : i = s[n]
    BY <1>3
  <2>2. Len(queue) + n \in 1..Len(longer)
    BY <1>7
  <2> QED BY <1>6, <1>7, <2>1, <2>2
<1>9. ASSUME NEW n \in 1..Len(longer)
      PROVE  (\E m \in 1..Len(queue) : longer[n] = queue[m]) \/ (\E i \in ids : longer[n] = << i, records[i].rev >>)
  <2>1. CASE n \in 1..Len(queue)
    BY <1>7, <2>1
  <2>2. CASE n > Len(queue)
    <3>1. PICK k \in 1..len : n = Len(queue) + k
      <4>1. n - Len(queue) \in 1..len /\ n = Len(queue) + (n - Len(queue))
        BY <1>7, <2>2
      <4> QED BY <4>1
    <3>2. s[k] \in ids /\ longer[n] = << s[k], records[s[k]].rev >>
      BY <1>3, <1>6, <1>7, <3>1
    <3> QED BY <3>2
  <2> QED BY <1>7, <2>1, <2>2
<1>10. \A n \in 1..Len(queue) : n \in 1..Len(longer)
  BY <1>7
<1> QED BY <1>0, <1>7, <1>8, <1>9, <1>10

\* Records only move on: to later revisions, and a status changes with the revision.
MovesOn(new) ==
  /\ new \in [LmIds -> LmRow]
  /\ \A i \in LmIds : new[i].status = "none" <=> new[i].rev = 0
  /\ \A i \in LmIds : /\ lmRecord[i].rev <= new[i].rev
                      /\ new[i].rev = lmRecord[i].rev => new[i].status = lmRecord[i].status

LEMMA LmRows ==
  ASSUME LmTypes, NEW i \in LmIds
  PROVE  /\ lmRecord[i] \in LmRow /\ lmRecord[i].rev \in Nat /\ lmRecord[i].status \in LmStatus
         /\ (lmRecord[i].status = "none" <=> lmRecord[i].rev = 0)
         /\ DOMAIN lmRecord = LmIds
  BY DEF LmTypes, LmRow

\* What a change of a row makes of it.
LEMMA LmFields ==
  ASSUME NEW r \in LmRow
  PROVE  /\ r.rev \in Nat /\ r.rev + 1 \in Nat /\ r.status \in LmStatus
         /\ r.by \in LmIds \union {"none"} /\ r.refs \in SUBSET LmAnyRef
<1> HIDE DEF LmStatus, LmAnyRef
<1>1. /\ r.rev \in Nat /\ r.status \in LmStatus
      /\ r.by \in LmIds \union {"none"} /\ r.refs \in SUBSET LmAnyRef
  BY DEF LmRow
<1> QED BY <1>1

LEMMA LmWritten ==
  ASSUME LmTypes, NEW q, q.id \in LmIds, q.ref \in LmAnyRef, q.single \in BOOLEAN,
  q.pinned \in BOOLEAN
  PROVE  MovesOn(Written(lmRecord, q)) /\ q.id \in Known(Written(lmRecord, q))
<1>1. DOMAIN lmRecord = LmIds
  BY DEF LmTypes
<1>2. CASE q.id \in Known(lmRecord)
  <2>1. PICK new : new = [lmRecord EXCEPT ![q.id].refs = @ \cup {q.ref}]
    OBVIOUS
  <2>2. Written(lmRecord, q) = new
    BY <1>2, <2>1 DEF Written, IsDuplicate, WithEvidence
  <2>3. PICK row : row = [lmRecord[q.id] EXCEPT !.refs = lmRecord[q.id].refs \cup {q.ref}]
    OBVIOUS
  <2>4. row \in LmRow /\ row.rev = lmRecord[q.id].rev /\ row.status = lmRecord[q.id].status
    BY <2>3, LmRows DEF LmRow
  <2>5. new = [lmRecord EXCEPT ![q.id] = row]
    BY <2>1, <2>3
  <2>6. new \in [LmIds -> LmRow] /\ new[q.id] = row /\ (\A i \in LmIds : i # q.id => new[i] = lmRecord[i])
    BY <2>4, <2>5 DEF LmTypes
  <2>7. MovesOn(new)
    BY <2>4, <2>6, LmRows DEF MovesOn
  <2>8. q.id \in Known(new)
    BY <1>2, <2>4, <2>6 DEF Known
  <2> QED BY <2>2, <2>7, <2>8
<1>3. CASE q.id \notin Known(lmRecord)
  <2>9. PICK prior : prior = Prior(lmRecord, q)
    OBVIOUS
  <2>10. PICK row :
          row = [status |-> IF prior # {} /\ ~q.trusted THEN "conflicted" ELSE "active",
                 rev |-> 1, single |-> q.single, pinned |-> q.pinned, by |-> "none",
                 primary |-> q.ref, refs |-> {q.ref},
                 at |-> Cardinality(Known(lmRecord)) + 1]
    OBVIOUS
  <2>11. PICK new :
          new = [i \in LmIds |->
                   IF i = q.id THEN row
                   ELSE IF i \in prior
                   THEN [lmRecord[i] EXCEPT !.status = IF q.trusted THEN "superseded" ELSE "conflicted",
                                            !.by = IF q.trusted THEN q.id ELSE @, !.rev = @ + 1]
                   ELSE lmRecord[i]]
    OBVIOUS
  <2>1. Written(lmRecord, q) = new
    BY <1>1, <1>3, <2>9, <2>10, <2>11 DEF Written, IsDuplicate, WithRecord
  <2>2. Cardinality(Known(lmRecord)) \in Nat
    <3>1. Known(lmRecord) \in SUBSET LmIds
      BY <1>1 DEF Known
    <3> QED BY <3>1, LmAssumption, FS_Subset, FS_CardinalityType
  <2>3. row \in LmRow /\ row.rev = 1 /\ row.status \in {"active", "conflicted"}
    <3>1. PICK st \in {"active", "conflicted"} : st = IF prior # {} /\ ~q.trusted THEN "conflicted" ELSE "active"
      OBVIOUS
    <3>2. PICK time \in Nat : time = Cardinality(Known(lmRecord)) + 1
      BY <2>2
    <3>3. row = [status |-> st, rev |-> 1, single |-> q.single, pinned |-> q.pinned, by |-> "none",
                 primary |-> q.ref, refs |-> {q.ref}, at |-> time]
      BY <2>10, <3>1, <3>2
    <3>4. PICK single \in BOOLEAN, pinned \in BOOLEAN, refs \in SUBSET LmAnyRef :
            single = q.single /\ pinned = q.pinned /\ refs = {q.ref}
      OBVIOUS
    <3>5. row = [status |-> st, rev |-> 1, single |-> single, pinned |-> pinned, by |-> "none",
                 primary |-> q.ref, refs |-> refs, at |-> time]
      BY <3>3, <3>4
    <3> HIDE DEF LmAnyRef
    <3> QED BY <3>5 DEF LmRow, LmStatus
  <2>4. lmRecord[q.id].status = "none" /\ lmRecord[q.id].rev = 0
    BY <1>3, LmRows DEF Known
  <2>5. \A i \in prior : i \in LmIds /\ lmRecord[i].status = "active"
    BY <1>1, <2>9 DEF Prior, LmActive
  <2>6. ASSUME NEW i \in LmIds
        PROVE  /\ new[i] \in LmRow /\ (new[i].status = "none" <=> new[i].rev = 0)
               /\ lmRecord[i].rev <= new[i].rev
               /\ (new[i].rev = lmRecord[i].rev => new[i].status = lmRecord[i].status)
    <3>4. PICK r \in LmRow : /\ r = lmRecord[i] /\ r.rev \in Nat /\ (r.status = "none" <=> r.rev = 0)
      BY LmRows
    <3>1. CASE i = q.id
      <4>1. new[i] = row
        BY <2>11, <3>1
      <4> QED BY <2>3, <2>4, <3>1, <4>1
    <3>2. CASE i # q.id /\ i \in prior
      <4>1. PICK st \in {"superseded", "conflicted"} : st = IF q.trusted THEN "superseded" ELSE "conflicted"
        OBVIOUS
      <4>2. PICK who \in LmIds \union {"none"} : who = IF q.trusted THEN q.id ELSE r.by
        BY LmFields
      <4>3. new[i] = [r EXCEPT !.status = st, !.by = who, !.rev = r.rev + 1]
        BY <2>11, <3>2, <3>4, <4>1, <4>2
      <4>4. st \in LmStatus
        BY DEF LmStatus
      <4>5. new[i] \in LmRow /\ new[i].status = st /\ new[i].rev = r.rev + 1
        <5>1. PICK next : next = [r EXCEPT !.status = st, !.by = who, !.rev = r.rev + 1]
          OBVIOUS
        <5>2. next \in LmRow /\ next.status = st /\ next.rev = r.rev + 1
          BY <4>4, <5>1, LmFields DEF LmRow
        <5> QED BY <4>3, <5>1, <5>2
      <4> QED BY <3>4, <4>5
    <3>3. CASE i # q.id /\ i \notin prior
      <4>1. new[i] = r
        BY <2>11, <3>3, <3>4
      <4> QED BY <3>4, <4>1
    <3> QED BY <3>1, <3>2, <3>3
  <2>7. MovesOn(new)
    BY <2>6, <2>11 DEF MovesOn
  <2>8. q.id \in Known(new)
    BY <2>3, <2>11 DEF Known
  <2> QED BY <2>1, <2>7, <2>8
<1> QED BY <1>2, <1>3

LEMMA LmCompensated == ASSUME LmTypes, NEW ref PROVE MovesOn(Compensated(lmRecord, ref))
<1>1. DOMAIN lmRecord = LmIds
  BY DEF LmTypes
<1>2. PICK new : new = [i \in LmIds |->
        IF lmRecord[i].status = "active" /\ lmRecord[i].primary = ref /\ lmRecord[i].refs \subseteq {ref}
        THEN [lmRecord[i] EXCEPT !.status = "tombstoned", !.rev = @ + 1]
        ELSE lmRecord[i]]
  OBVIOUS
<1>3. Compensated(lmRecord, ref) = new
  BY <1>1, <1>2 DEF Compensated
<1>4. ASSUME NEW i \in LmIds
      PROVE  /\ new[i] \in LmRow /\ (new[i].status = "none" <=> new[i].rev = 0)
             /\ lmRecord[i].rev <= new[i].rev
             /\ (new[i].rev = lmRecord[i].rev => new[i].status = lmRecord[i].status)
  <2>1. CASE new[i] = lmRecord[i]
    BY <2>1, LmRows
  <2>2. CASE new[i] = [lmRecord[i] EXCEPT !.status = "tombstoned", !.rev = lmRecord[i].rev + 1]
    <3>1. PICK r \in LmRow : r = lmRecord[i]
      BY LmRows
    <3>2. new[i] \in LmRow /\ new[i].status = "tombstoned" /\ new[i].rev = r.rev + 1
      <4>1. "tombstoned" \in LmStatus /\ new[i] = [r EXCEPT !.status = "tombstoned", !.rev = r.rev + 1]
        BY <2>2, <3>1 DEF LmStatus
      <4>2. PICK row : row = [r EXCEPT !.status = "tombstoned", !.rev = r.rev + 1]
        OBVIOUS
      <4>3. row \in LmRow /\ row.status = "tombstoned" /\ row.rev = r.rev + 1
        BY <4>1, <4>2, LmFields DEF LmRow
      <4> QED BY <4>1, <4>2, <4>3
    <3> QED BY <3>1, <3>2, LmRows
  <2> QED BY <1>2, <2>1, <2>2
<1>5. MovesOn(new)
  BY <1>2, <1>4 DEF MovesOn
<1> QED BY <1>3, <1>5

\* Every changed record has a job for its new revision, in the transaction that changes it.
LEMMA LmEnqueued ==
  ASSUME LmTypes, LmIndexInv, NEW new, MovesOn(new), lmRecord' = new,
  Enqueues(lmRecord, new),
         UNCHANGED << lmIndex, lmWork, lmStale >>
  PROVE  /\ LmIndexInv' /\ lmQueue' \in Seq(LmJob) /\ Known(lmRecord) \subseteq Known(new)
<1>1. PICK ids \in SUBSET LmIds : /\ ids = {i \in LmIds : new[i].rev # lmRecord[i].rev}
                                  /\ ids = Changed(lmRecord, new)
  <2>1. DOMAIN new = LmIds
    BY DEF MovesOn
  <2> QED BY <2>1 DEF Changed
<1>2. PICK s \in Orders(ids) : lmQueue' = lmQueue \o JobsOf(new, s)
  BY <1>1 DEF Enqueues
<1>3. new \in [LmIds -> LmRow] /\ lmQueue \in Seq(LmJob) /\ Len(lmQueue) \in Nat
  BY DEF MovesOn, LmTypes
<1>4. /\ lmQueue' \in Seq(LmJob)
      /\ \A n \in 1..Len(lmQueue) : n \in 1..Len(lmQueue') /\ lmQueue'[n] = lmQueue[n]
      /\ \A n \in 1..Len(lmQueue') : (\E m \in 1..Len(lmQueue) : lmQueue'[n] = lmQueue[m])
                                      \/ (\E i \in ids : lmQueue'[n] = << i, new[i].rev >>)
      /\ \A i \in ids : \E n \in 1..Len(lmQueue') : lmQueue'[n] = << i, new[i].rev >>
  <2>1. PICK longer \in Seq(LmJob) :
           /\ longer = lmQueue \o JobsOf(new, s)
           /\ \A n \in 1..Len(lmQueue) : n \in 1..Len(longer) /\ longer[n] = lmQueue[n]
           /\ \A n \in 1..Len(longer) : (\E m \in 1..Len(lmQueue) : longer[n] = lmQueue[m])
                                        \/ (\E i \in ids : longer[n] = << i, new[i].rev >>)
           /\ \A i \in ids : \E n \in 1..Len(longer) : longer[n] = << i, new[i].rev >>
    <3>1. new \in [LmIds -> LmRow]
      BY <1>3
    <3>2. lmQueue \in Seq(LmJob)
      BY <1>3
    <3> QED BY <3>1, <3>2, LmOrders, Zenon
  <2>2. lmQueue' = longer
    BY <1>2, <2>1, Zenon
  <2> QED BY <2>1, <2>2, Zenon
<1>5. ASSUME NEW i \in LmIds
      PROVE  /\ new[i].rev \in Nat /\ lmRecord[i].rev \in Nat /\ lmRecord[i].rev <= new[i].rev
             /\ (new[i].rev = lmRecord[i].rev => new[i].status = lmRecord[i].status)
             /\ (i \notin ids <=> new[i].rev = lmRecord[i].rev)
             /\ (i \in Known(lmRecord) <=> lmRecord[i].rev # 0) /\ (i \in Known(new) <=> new[i].rev # 0)
  <2>1. new[i] \in LmRow /\ lmRecord[i] \in LmRow /\ DOMAIN new = LmIds /\ DOMAIN lmRecord = LmIds
    BY <1>3, LmRows
  <2> QED BY <1>1, <2>1, LmFields DEF MovesOn, Known, LmTypes
<1>6. \A i \in LmIds : i \in Known(lmRecord) => i \in Known(new)
  BY <1>5
<1>7. \A i \in LmIds : Queued(i) => Queued(i)' 
  <2> SUFFICES ASSUME NEW i \in LmIds, Queued(i) PROVE Queued(i)'
    OBVIOUS
  <2>1. CASE i \in ids
    BY <1>4, <2>1 DEF Queued
  <2>2. CASE i \notin ids
    BY <1>4, <1>5, <2>2 DEF Queued
  <2> QED BY <2>1, <2>2
<1>8. \A i \in LmIds : i \in ids => Queued(i)'
  BY <1>4 DEF Queued
<1>9. \A i \in LmIds : i \notin ids => Cur(i)' = Cur(i)
  BY <1>5 DEF Cur
<1>10. \A i : i \in Known(lmRecord) \/ i \in Known(new) => i \in LmIds
  BY <1>3, LmRows DEF Known, LmTypes
<1>11. LmJobsBehind'
  <2> SUFFICES ASSUME NEW n \in 1..Len(lmQueue')
               PROVE  lmQueue'[n][2] <= new[lmQueue'[n][1]].rev /\ lmQueue'[n][1] \in Known(new)
    BY DEF LmJobsBehind
  <2>1. CASE \E m \in 1..Len(lmQueue) : lmQueue'[n] = lmQueue[m]
    <3>1. PICK m \in 1..Len(lmQueue) : lmQueue'[n] = lmQueue[m]
      BY <2>1
    <3>2. /\ lmQueue[m][2] <= lmRecord[lmQueue[m][1]].rev /\ lmQueue[m][1] \in Known(lmRecord)
      BY DEF LmIndexInv, LmJobsBehind
    <3>3. lmQueue[m] \in LmJob
      BY <1>3
    <3>4. lmQueue[m][1] \in LmIds /\ lmQueue[m][2] \in Nat
      BY <3>3 DEF LmJob
    <3> QED BY <1>5, <1>6, <3>1, <3>2, <3>4
  <2>2. CASE \E i \in ids : lmQueue'[n] = << i, new[i].rev >>
    <3>1. PICK i \in ids : lmQueue'[n] = << i, new[i].rev >>
      BY <2>2
    <3>2. i \in LmIds /\ new[i].rev # 0
      BY <1>5
    <3> QED BY <1>5, <3>1, <3>2
  <2> QED BY <1>4, <2>1, <2>2
<1>12. LmIndexed'
  BY <1>5, <1>7, <1>8, <1>9, <1>10 DEF LmIndexInv, LmIndexed
<1>13. LmRead'
  <2> SUFFICES ASSUME NEW i \in LmIds, NEW w \in LmWorkers, Of(w, i)
               PROVE  /\ i \in Known(new)
                      /\ lmWork[w].job[2] <= lmWork[w].row.rev /\ lmWork[w].row.rev <= new[i].rev
                      /\ (lmWork[w].row.rev = new[i].rev => lmWork[w].row.status = new[i].status)
                      /\ (i \notin lmStale => Queued(i)' \/ lmWork[w].row = Cur(i)')
    BY DEF LmRead, Of
  <2>1. /\ i \in Known(lmRecord)
        /\ lmWork[w].job[2] <= lmWork[w].row.rev /\ lmWork[w].row.rev <= lmRecord[i].rev
        /\ (lmWork[w].row.rev = lmRecord[i].rev => lmWork[w].row.status = lmRecord[i].status)
        /\ (i \notin lmStale => Queued(i) \/ lmWork[w].row = Cur(i))
    BY DEF LmIndexInv, LmRead
  <2>2. lmWork[w].row.rev \in Nat
    BY DEF LmTypes, LmSeen
  <2>3. lmWork[w].row.rev <= new[i].rev
    BY <1>5, <2>1, <2>2
  <2>4. lmWork[w].row.rev = new[i].rev => lmWork[w].row.status = new[i].status
    BY <1>5, <2>1, <2>2
  <2>5. i \notin lmStale => Queued(i)' \/ lmWork[w].row = Cur(i)'
    BY <1>7, <1>8, <1>9, <2>1
  <2> QED BY <1>6, <2>1, <2>3, <2>4, <2>5
<1>14. LmWrote'
  BY DEF LmIndexInv, LmWrote, Of
<1> QED BY <1>4, <1>6, <1>10, <1>11, <1>12, <1>13, <1>14 DEF LmIndexInv

LEMMA LmInitial == LmInit => LmInv
<1> SUFFICES ASSUME LmInit PROVE LmInv
  OBVIOUS
<1>1. NoRow \in LmRow /\ NoRow.status = "none" /\ NoRow.rev = 0
  BY DEF NoRow, LmRow, LmStatus, LmAnyRef
<1>2. NoIndexRow \in LmSeen /\ << >> \in Seq(LmJob) /\ Len(<< >>) = 0
  BY DEF NoIndexRow, LmSeen, LmStatus
<1>3. NoClaim \in [stage : {"idle", "claimed", "indexed"}, job : LmJob \union {<< >>}, row : LmSeen]
      /\ NoClaim.stage = "idle"
  BY <1>2 DEF NoClaim
<1>4. LmTypes
  BY <1>1, <1>2, <1>3 DEF LmInit, LmTypes
<1>5. Known(lmRecord) = {}
  BY <1>1 DEF LmInit, Known
<1>6. LmIndexInv
  BY <1>2, <1>3, <1>5 DEF LmInit, LmIndexInv, LmJobsBehind, LmIndexed, LmRead,
     LmWrote, Of
<1>7. LmFile /\ LmImport
  BY DEF LmInit, LmFile, LmImport
<1> QED BY <1>4, <1>6, <1>7 DEF LmInv

\* A transaction on the records.
LEMMA LmRecordsKeep ==
  ASSUME LmInv, NEW new, MovesOn(new), lmRecord' = new, Enqueues(lmRecord, new),
         UNCHANGED << lmIndexVars, lmVectorVars, lmRecallVars, lmFileVars >>,
         lmMigration' \in [status : {"none", "running", "completed", "failed"},
         left : SUBSET LmLegacy],
         LmLegacy \ lmMigration'.left \subseteq Known(lmRecord) \cup Known(new),
         lmMigration'.status = "completed" => lmMigration'.left = {}
  PROVE  LmInv'
<1>1. LmIndexInv' /\ lmQueue' \in Seq(LmJob) /\ Known(lmRecord) \subseteq Known(new)
  BY LmEnqueued DEF LmInv, lmIndexVars
<1>2. UNCHANGED << lmIndex, lmWork, lmEmbed, lmEmbWork, lmVector, lmRecalled, lmDigest, lmEdited, lmProfile >>
  BY DEF lmIndexVars, lmVectorVars, lmRecallVars, lmFileVars
<1>3. LmTypes'
  BY <1>1, <1>2 DEF LmInv, LmTypes, MovesOn
<1>4. LmFile'
  BY <1>2 DEF LmInv, LmFile
<1>5. LmImport'
  BY <1>1 DEF LmImport
<1> QED BY <1>1, <1>3, <1>4, <1>5 DEF LmInv

LEMMA LmWriteKeeps == LmInv /\ LmWriting => LmInv'
<1> SUFFICES ASSUME LmInv, LmWriting PROVE LmInv'
  OBVIOUS
<1>1. LmTypes /\ LmImport
  BY DEF LmInv
<1>2. ASSUME NEW new, MovesOn(new), Writes(new) PROVE LmInv'
  <2>1. /\ lmRecord' = new /\ Enqueues(lmRecord, new) /\ lmMigration' = lmMigration
        /\ UNCHANGED << lmIndexVars, lmVectorVars, lmRecallVars, lmFileVars >>
    BY <1>2 DEF Writes
  <2> QED BY <1>1, <1>2, <2>1, LmRecordsKeep DEF LmTypes, LmImport
<1>3. ASSUME NEW q \in LmRequests(LmIds, LmRefs), LmWrite(q) PROVE LmInv'
  <2>1. q.id \in LmIds /\ q.ref \in LmAnyRef /\ q.single \in BOOLEAN /\ q.pinned \in BOOLEAN
    BY DEF LmRequests, LmAnyRef
  <2>2. MovesOn(Written(lmRecord, q))
    BY <1>1, <2>1, LmWritten
  <2>3. Writes(Written(lmRecord, q))
    BY <1>3 DEF LmWrite
  <2> QED BY <1>2, <2>2, <2>3
<1>4. ASSUME NEW r \in LmRefs, LmCompensate(r) PROVE LmInv'
  <2>1. MovesOn(Compensated(lmRecord, r)) /\ Writes(Compensated(lmRecord, r))
    BY <1>1, <1>4, LmCompensated DEF LmCompensate
  <2> QED BY <1>2, <2>1
<1> QED BY <1>3, <1>4 DEF LmWriting

LEMMA LmMigrateKeeps == LmInv /\ MigrateStatement => LmInv'
<1> SUFFICES ASSUME LmInv, MigrateStatement PROVE LmInv'
  OBVIOUS
<1>1. PICK i \in lmMigration.left :
        LET q == [id |-> i, ref |-> << "legacy", 0 >>, single |-> FALSE, replace |-> FALSE,
                  trusted |-> FALSE, pinned |-> FALSE] IN
        /\ lmRecord' = Written(lmRecord, q) /\ Enqueues(lmRecord, Written(lmRecord, q))
        /\ lmMigration' = [lmMigration EXCEPT !.left = lmMigration.left \ {i}]
  BY DEF MigrateStatement
<1>9. PICK q : q = [id |-> i, ref |-> << "legacy", 0 >>, single |-> FALSE, replace |-> FALSE,
                    trusted |-> FALSE, pinned |-> FALSE]
  OBVIOUS
<1>10. lmRecord' = Written(lmRecord, q) /\ Enqueues(lmRecord, Written(lmRecord, q))
  BY <1>1, <1>9
<1>2. /\ lmMigration.status = "running"
      /\ UNCHANGED << lmIndexVars, lmVectorVars, lmRecallVars, lmFileVars >>
  BY DEF MigrateStatement
<1>3. LmTypes /\ LmImport /\ lmMigration.left \subseteq LmLegacy /\ LmLegacy \subseteq LmIds
  BY LmAssumption DEF LmInv, LmTypes
<1>4. q.id = i /\ i \in LmIds /\ q.ref \in LmAnyRef /\ q.single \in BOOLEAN /\ q.pinned \in BOOLEAN
  BY <1>3, <1>9 DEF LmAnyRef
<1>5. PICK new : new = Written(lmRecord, q)
  OBVIOUS
<1>6. MovesOn(new) /\ i \in Known(new)
  BY <1>3, <1>4, <1>5, LmWritten
<1>7. /\ lmMigration' \in [status : {"none", "running", "completed", "failed"}, left : SUBSET LmLegacy]
      /\ lmMigration'.status = "running" /\ lmMigration'.left = lmMigration.left \ {i}
  BY <1>1, <1>2, <1>3 DEF LmTypes
<1>8. LmLegacy \ lmMigration'.left \subseteq Known(lmRecord) \cup Known(new)
  BY <1>3, <1>6, <1>7 DEF LmImport
<1> QED BY <1>2, <1>5, <1>6, <1>7, <1>8, <1>10, LmRecordsKeep

-----------------------------------------------------------------------------
\* What a worker does changes neither the records nor what is derived for recall and for the profile.
LEMMA LmWorkerKeeps ==
  ASSUME LmInv, UNCHANGED << lmRecord, lmEmbed, lmRecalled, lmFileVars,
  lmMigration >>,
         lmEmbWork' \in LmJob \union {<< >>}, lmVector' \subseteq LmIds,
         lmQueue' \in Seq(LmJob), lmIndex' \in [LmIds -> LmSeen],
         lmWork' \in [LmWorkers -> [stage : {"idle", "claimed", "indexed"},
         job : LmJob \union {<< >>}, row : LmSeen]],
         \A w \in LmWorkers : lmWork'[w].stage # "idle" => lmWork'[w].job \in LmJob,
         LmIndexInv'
  PROVE  LmInv'
<1>1. LmTypes'
  BY DEF LmInv, LmTypes
<1>2. LmFile' /\ LmImport'
  BY DEF LmInv, LmFile, LmImport, lmFileVars, Known
<1> QED BY <1>1, <1>2 DEF LmInv

LEMMA LmSeqFacts ==
  ASSUME LmInv
  PROVE  /\ lmQueue \in Seq(LmJob) /\ Len(lmQueue) \in Nat
         /\ \A n \in 1..Len(lmQueue) : /\ lmQueue[n] \in LmJob /\ lmQueue[n][1] \in LmIds /\ lmQueue[n][2] \in Nat
                                       /\ lmQueue[n] = << lmQueue[n][1], lmQueue[n][2] >>
<1>1. lmQueue \in Seq(LmJob) /\ Len(lmQueue) \in Nat
  BY DEF LmInv, LmTypes
<1>2. ASSUME NEW n \in 1..Len(lmQueue) PROVE lmQueue[n] \in LmJob
  BY <1>1
<1> QED BY <1>1, <1>2 DEF LmJob

LEMMA LmClaimKeeps == LmInv /\ (\E w \in LmWorkers : Claim(w)) => LmInv'
<1> SUFFICES ASSUME LmInv, NEW w \in LmWorkers, Claim(w) PROVE LmInv'
  OBVIOUS
<1>1. PICK job, seen : /\ job = Head(lmQueue)
                       /\ seen = [rev |-> lmRecord[job[1]].rev, status |-> lmRecord[job[1]].status]
  OBVIOUS
<1>2. /\ lmWork[w].stage = "idle" /\ lmQueue # << >>
      /\ lmWork' = [lmWork EXCEPT ![w] = [stage |-> "claimed", job |-> job, row |-> seen]]
      /\ UNCHANGED << lmRecord, lmQueue, lmIndex, lmStale, lmEmbed, lmEmbWork, lmVector, lmRecalled,
                      lmFileVars, lmMigration >>
  BY <1>1 DEF Claim, lmVectorVars, lmRecallVars
<1>3. 1 \in 1..Len(lmQueue) /\ job = lmQueue[1]
  BY <1>1, <1>2, LmSeqFacts
<1>4. job \in LmJob /\ job[1] \in LmIds /\ job[2] \in Nat
  BY <1>3, LmSeqFacts
<1>5. job[2] <= lmRecord[job[1]].rev /\ job[1] \in Known(lmRecord)
  BY <1>3 DEF LmInv, LmIndexInv, LmJobsBehind
<1>6. lmRecord[job[1]].rev \in Nat /\ lmRecord[job[1]].status \in LmStatus
  BY <1>4, LmRows DEF LmInv
<1>7. seen = Cur(job[1]) /\ seen \in LmSeen /\ seen.rev = lmRecord[job[1]].rev
      /\ seen.status = lmRecord[job[1]].status
  BY <1>1, <1>6 DEF Cur, LmSeen
<1>8. PICK claim : claim = [stage |-> "claimed", job |-> job, row |-> seen]
  OBVIOUS
<1>9. /\ lmWork' \in [LmWorkers -> [stage : {"idle", "claimed", "indexed"}, job : LmJob \union {<< >>}, row : LmSeen]]
      /\ lmWork'[w].stage = "claimed" /\ lmWork'[w].job = job /\ lmWork'[w].row = seen
      /\ \A v \in LmWorkers : v # w => lmWork'[v] = lmWork[v]
  BY <1>2, <1>4, <1>7, <1>8 DEF LmInv, LmTypes
<1>10. \A v \in LmWorkers : lmWork'[v].stage # "idle" => lmWork'[v].job \in LmJob
  BY <1>4, <1>9 DEF LmInv, LmTypes
<1>11. \A i : (Queued(i)' <=> Queued(i)) /\ Cur(i)' = Cur(i)
  BY <1>2 DEF Queued, Cur
<1>12. LmJobsBehind' /\ LmIndexed'
  BY <1>2, <1>11 DEF LmInv, LmIndexInv, LmJobsBehind, LmIndexed
<1>13. LmRead'
  <2> SUFFICES ASSUME NEW i \in LmIds, NEW v \in LmWorkers, Of(v, i)'
               PROVE  /\ i \in Known(lmRecord)
                      /\ lmWork'[v].job[2] <= lmWork'[v].row.rev /\ lmWork'[v].row.rev <= lmRecord[i].rev
                      /\ (lmWork'[v].row.rev = lmRecord[i].rev => lmWork'[v].row.status = lmRecord[i].status)
                      /\ (i \notin lmStale => Queued(i) \/ lmWork'[v].row = Cur(i))
    BY <1>2, <1>11 DEF LmRead
  <2>1. CASE v = w
    <3>1. i = job[1]
      BY <1>9, <2>1 DEF Of
    <3> QED BY <1>5, <1>6, <1>7, <1>9, <2>1, <3>1
  <2>2. CASE v # w
    <3>1. lmWork'[v] = lmWork[v] /\ Of(v, i)
      BY <1>9, <2>2 DEF Of
    <3> QED BY <3>1 DEF LmInv, LmIndexInv, LmRead
  <2> QED BY <2>1, <2>2
<1>14. LmWrote'
  <2> SUFFICES ASSUME NEW i \in LmIds \ lmStale, NEW u \in LmWorkers, Of(u, i)', lmWork'[u].stage = "indexed"
               PROVE  /\ lmIndex[i] = lmWork'[u].row
                      /\ \A v \in LmWorkers : v # u /\ Of(v, i)' => lmWork'[u].row.rev <= lmWork'[v].row.rev
    BY <1>2 DEF LmWrote
  <2>1. u # w /\ lmWork'[u] = lmWork[u] /\ Of(u, i)
    BY <1>9 DEF Of
  <2>2. lmIndex[i] = lmWork[u].row /\ lmWork[u].row.rev <= lmRecord[i].rev
    BY <2>1 DEF LmInv, LmIndexInv, LmWrote, LmRead
  <2>3. ASSUME NEW v \in LmWorkers, v # u, Of(v, i)' PROVE lmWork'[u].row.rev <= lmWork'[v].row.rev
    <3>1. CASE v = w
      <4>1. i = job[1]
        BY <1>9, <2>3, <3>1 DEF Of
      <4> QED BY <1>7, <1>9, <2>1, <2>2, <3>1, <4>1
    <3>2. CASE v # w
      <4>1. lmWork'[v] = lmWork[v] /\ Of(v, i)
        BY <1>9, <2>3, <3>2 DEF Of
      <4> QED BY <2>1, <2>3, <4>1 DEF LmInv, LmIndexInv, LmWrote
    <3> QED BY <3>1, <3>2
  <2> QED BY <2>1, <2>2, <2>3
<1>15. LmIndexInv'
  BY <1>12, <1>13, <1>14 DEF LmIndexInv
<1>16. lmEmbWork \in LmJob \union {<< >>} /\ lmVector \subseteq LmIds /\ lmIndex \in [LmIds -> LmSeen]
       /\ lmQueue \in Seq(LmJob)
  BY DEF LmInv, LmTypes
<1> QED BY <1>2, <1>9, <1>10, <1>15, <1>16, LmWorkerKeeps

LEMMA LmIndexKeeps == LmInv /\ (\E w \in LmWorkers : Index(w)) => LmInv'
<1> SUFFICES ASSUME LmInv, NEW w \in LmWorkers, Index(w) PROVE LmInv'
  OBVIOUS
<1>1. PICK id : id = lmWork[w].job[1]
  OBVIOUS
<1>2. /\ lmWork[w].stage = "claimed"
      /\ lmIndex' = [lmIndex EXCEPT ![id] = lmWork[w].row]
      /\ lmStale' = lmStale \cup {id : x \in {v \in LmWorkers \ {w} :
                                       lmWork[v].stage # "idle" /\ lmWork[v].job[1] = id}}
      /\ lmWork' = [lmWork EXCEPT ![w].stage = "indexed"]
      /\ UNCHANGED << lmRecord, lmQueue, lmEmbed, lmEmbWork, lmVector, lmRecalled, lmFileVars, lmMigration >>
  BY <1>1 DEF Index, lmVectorVars, lmRecallVars
<1>3. id \in LmIds /\ Of(w, id) /\ lmWork[w].row \in LmSeen
  <2>1. lmWork[w].job \in LmJob
    BY <1>2 DEF LmInv, LmTypes
  <2> QED BY <1>1, <1>2, <2>1 DEF LmInv, LmTypes, LmJob, Of
<1>4. /\ lmWork' \in [LmWorkers -> [stage : {"idle", "claimed", "indexed"}, job : LmJob \union {<< >>}, row : LmSeen]]
      /\ lmWork'[w].stage = "indexed" /\ lmWork'[w].job = lmWork[w].job /\ lmWork'[w].row = lmWork[w].row
      /\ \A v \in LmWorkers : v # w => lmWork'[v] = lmWork[v]
  BY <1>2 DEF LmInv, LmTypes
<1>5. \A v \in LmWorkers : lmWork'[v].stage # "idle" => lmWork'[v].job \in LmJob
  BY <1>2, <1>4 DEF LmInv, LmTypes
<1>6. \A v \in LmWorkers, i \in LmIds : Of(v, i)' <=> Of(v, i)
  BY <1>2, <1>4 DEF Of
<1>7. /\ lmIndex' \in [LmIds -> LmSeen] /\ lmIndex'[id] = lmWork[w].row
      /\ \A i \in LmIds : i # id => lmIndex'[i] = lmIndex[i]
  BY <1>2, <1>3 DEF LmInv, LmTypes
<1>8. /\ \A i : i \notin lmStale' => i \notin lmStale
      /\ id \notin lmStale' => \A v \in LmWorkers : v # w => ~ Of(v, id)
  BY <1>2 DEF Of
<1>9. \A i : (Queued(i)' <=> Queued(i)) /\ Cur(i)' = Cur(i)
  BY <1>2 DEF Queued, Cur
<1>10. /\ id \in Known(lmRecord)
       /\ id \notin lmStale => Queued(id) \/ lmWork[w].row = Cur(id)
  BY <1>3 DEF LmInv, LmIndexInv, LmRead
<1>11. LmJobsBehind'
  BY <1>2 DEF LmInv, LmIndexInv, LmJobsBehind
<1>12. LmIndexed'
  <2> SUFFICES ASSUME NEW i \in Known(lmRecord), i \notin lmStale' PROVE Queued(i) \/ lmIndex'[i] = Cur(i)
    BY <1>2, <1>9 DEF LmIndexed
  <2>1. i \in LmIds
    BY LmRows DEF Known, LmInv, LmTypes
  <2>2. CASE i = id
    BY <1>7, <1>8, <1>10, <2>2
  <2>3. CASE i # id
    BY <1>7, <1>8, <2>1, <2>3 DEF LmInv, LmIndexInv, LmIndexed
  <2> QED BY <2>2, <2>3
<1>13. LmRead'
  <2> SUFFICES ASSUME NEW i \in LmIds, NEW v \in LmWorkers, Of(v, i)
               PROVE  /\ i \in Known(lmRecord)
                      /\ lmWork'[v].job[2] <= lmWork'[v].row.rev /\ lmWork'[v].row.rev <= lmRecord[i].rev
                      /\ (lmWork'[v].row.rev = lmRecord[i].rev => lmWork'[v].row.status = lmRecord[i].status)
                      /\ (i \notin lmStale' => Queued(i) \/ lmWork'[v].row = Cur(i))
    BY <1>2, <1>6, <1>9 DEF LmRead
  <2>1. lmWork'[v].job = lmWork[v].job /\ lmWork'[v].row = lmWork[v].row
    BY <1>4
  <2> QED BY <1>8, <2>1 DEF LmInv, LmIndexInv, LmRead
<1>14. LmWrote'
  <2> SUFFICES ASSUME NEW i \in LmIds, i \notin lmStale', NEW u \in LmWorkers, Of(u, i), lmWork'[u].stage = "indexed"
               PROVE  /\ lmIndex'[i] = lmWork'[u].row
                      /\ \A v \in LmWorkers : v # u /\ Of(v, i) => lmWork'[u].row.rev <= lmWork'[v].row.rev
    BY <1>6 DEF LmWrote
  <2>1. CASE i = id
    <3>1. u = w
      BY <1>8, <2>1
    <3> QED BY <1>4, <1>7, <1>8, <2>1, <3>1
  <2>2. CASE i # id
    <3>1. u # w /\ lmWork'[u] = lmWork[u]
      BY <1>1, <1>4, <2>2 DEF Of
    <3>2. \A v \in LmWorkers : lmWork'[v].row = lmWork[v].row
      BY <1>4
    <3>3. lmIndex'[i] = lmIndex[i] /\ i \notin lmStale
      BY <1>7, <1>8, <2>2
    <3> QED BY <3>1, <3>2, <3>3 DEF LmInv, LmIndexInv, LmWrote
  <2> QED BY <2>1, <2>2
<1>15. LmIndexInv'
  BY <1>11, <1>12, <1>13, <1>14 DEF LmIndexInv
<1>16. lmEmbWork \in LmJob \union {<< >>} /\ lmVector \subseteq LmIds /\ lmQueue \in Seq(LmJob)
  BY DEF LmInv, LmTypes
<1> QED BY <1>2, <1>4, <1>5, <1>7, <1>15, <1>16, LmWorkerKeeps

LEMMA LmReadyKeeps == LmInv /\ (\E w \in LmWorkers : MarkReady(w)) => LmInv'
<1> SUFFICES ASSUME LmInv, NEW w \in LmWorkers, MarkReady(w) PROVE LmInv'
  OBVIOUS
<1>1. PICK job : job = lmWork[w].job
  OBVIOUS
<1>2. /\ lmWork[w].stage = "indexed" /\ Closed(lmQueue, job, lmQueue')
      /\ lmWork' = [lmWork EXCEPT ![w] = NoClaim]
      /\ UNCHANGED << lmRecord, lmIndex, lmStale, lmEmbed, lmEmbWork, lmVector, lmRecalled, lmFileVars, lmMigration >>
  BY <1>1 DEF MarkReady, lmVectorVars, lmRecallVars
<1>3. /\ lmQueue' \in Seq(LmJob)
      /\ \A n \in 1..Len(lmQueue') : \E m \in 1..Len(lmQueue) : lmQueue'[n] = lmQueue[m]
      /\ \A m \in 1..Len(lmQueue) : lmQueue[m] # job => \E n \in 1..Len(lmQueue') : lmQueue'[n] = lmQueue[m]
  <2>1. lmQueue \in Seq(LmJob)
    BY LmSeqFacts
  <2>2. Closed(lmQueue, job, lmQueue')
    BY <1>2
  <2> QED BY <2>1, <2>2, LmCloses
<1>4. /\ lmWork' \in [LmWorkers -> [stage : {"idle", "claimed", "indexed"}, job : LmJob \union {<< >>}, row : LmSeen]]
      /\ lmWork'[w].stage = "idle" /\ (\A v \in LmWorkers : v # w => lmWork'[v] = lmWork[v])
      /\ \A v \in LmWorkers : lmWork'[v].stage # "idle" => lmWork'[v].job \in LmJob
  <2>1. NoClaim \in [stage : {"idle", "claimed", "indexed"}, job : LmJob \union {<< >>}, row : LmSeen]
        /\ NoClaim.stage = "idle"
    BY DEF NoClaim, NoIndexRow, LmSeen, LmStatus
  <2> QED BY <1>2, <2>1 DEF LmInv, LmTypes
<1>5. job \in LmJob /\ job[1] \in LmIds /\ job[2] \in Nat /\ Of(w, job[1])
  <2>1. job \in LmJob
    BY <1>1, <1>2 DEF LmInv, LmTypes
  <2> QED BY <1>1, <1>2, <2>1 DEF LmJob, Of
<1>6. \A v \in LmWorkers, i \in LmIds : Of(v, i)' => v # w /\ Of(v, i) /\ lmWork'[v] = lmWork[v]
  BY <1>4 DEF Of
<1>7. \A i \in LmIds : /\ lmRecord[i].rev \in Nat
                       /\ \A v \in LmWorkers : lmWork[v].row.rev \in Nat /\ lmWork[v].row \in LmSeen
  BY LmRows DEF LmInv, LmTypes, LmSeen
<1>8. \A i : Cur(i)' = Cur(i)
  BY <1>2 DEF Cur
\* A record whose job is closed is indexed as it is, and read so by every other worker.
<1>9. ASSUME NEW i \in LmIds \ lmStale, Queued(i), ~ Queued(i)'
      PROVE  /\ lmIndex[i] = Cur(i)
             /\ \A v \in LmWorkers : v # w /\ Of(v, i) => lmWork[v].row = Cur(i)
  <2>1. PICK m \in 1..Len(lmQueue) : lmQueue[m] = << i, lmRecord[i].rev >>
    BY <1>9 DEF Queued
  <2>2. lmQueue[m] = job
    BY <1>2, <1>3, <1>9, <2>1 DEF Queued
  <2>3. job[1] = i /\ job[2] = lmRecord[i].rev
    BY <2>1, <2>2
  <2>4. /\ job[2] <= lmWork[w].row.rev /\ lmWork[w].row.rev <= lmRecord[i].rev
        /\ (lmWork[w].row.rev = lmRecord[i].rev => lmWork[w].row.status = lmRecord[i].status)
    BY <1>1, <1>5, <2>3 DEF LmInv, LmIndexInv, LmRead
  <2>5. lmWork[w].row.rev = lmRecord[i].rev
    BY <1>7, <2>3, <2>4
  <2>6. \A v \in LmWorkers : lmWork[v].row = [rev |-> lmWork[v].row.rev, status |-> lmWork[v].row.status]
    BY <1>7, <1>9 DEF LmSeen
  <2>7. lmWork[w].row = Cur(i)
    BY <2>4, <2>5, <2>6 DEF Cur
  <2>8. lmIndex[i] = lmWork[w].row
    BY <1>2, <1>5, <2>3 DEF LmInv, LmIndexInv, LmWrote
  <2>9. ASSUME NEW v \in LmWorkers, v # w, Of(v, i) PROVE lmWork[v].row = Cur(i)
    <3>1. lmWork[w].row.rev <= lmWork[v].row.rev
      BY <1>2, <1>5, <2>3, <2>9 DEF LmInv, LmIndexInv, LmWrote
    <3>2. /\ lmWork[v].row.rev <= lmRecord[i].rev
          /\ (lmWork[v].row.rev = lmRecord[i].rev => lmWork[v].row.status = lmRecord[i].status)
      BY <2>9 DEF LmInv, LmIndexInv, LmRead
    <3>3. lmWork[v].row.rev = lmRecord[i].rev
      BY <1>7, <2>5, <3>1, <3>2
    <3> QED BY <2>6, <3>2, <3>3 DEF Cur
  <2> QED BY <2>7, <2>8, <2>9
<1>10. LmJobsBehind'
  BY <1>2, <1>3 DEF LmInv, LmIndexInv, LmJobsBehind
<1>11. LmIndexed'
  <2>1. ASSUME NEW i \in Known(lmRecord) \ lmStale PROVE Queued(i)' \/ lmIndex[i] = Cur(i)
    <3>1. i \in LmIds
      BY DEF Known, LmInv, LmTypes
    <3>2. Queued(i) \/ lmIndex[i] = Cur(i)
      BY DEF LmInv, LmIndexInv, LmIndexed
    <3> QED BY <1>9, <3>1, <3>2
  <2> QED BY <1>2, <1>8, <2>1 DEF LmIndexed
<1>12. LmRead'
  <2> SUFFICES ASSUME NEW i \in LmIds, NEW v \in LmWorkers, Of(v, i)'
               PROVE  /\ i \in Known(lmRecord)
                      /\ lmWork'[v].job[2] <= lmWork'[v].row.rev /\ lmWork'[v].row.rev <= lmRecord[i].rev
                      /\ (lmWork'[v].row.rev = lmRecord[i].rev => lmWork'[v].row.status = lmRecord[i].status)
                      /\ (i \notin lmStale => Queued(i)' \/ lmWork'[v].row = Cur(i))
    BY <1>2, <1>8 DEF LmRead
  <2>1. v # w /\ Of(v, i) /\ lmWork'[v] = lmWork[v]
    BY <1>6
  <2>2. /\ i \in Known(lmRecord)
        /\ lmWork[v].job[2] <= lmWork[v].row.rev /\ lmWork[v].row.rev <= lmRecord[i].rev
        /\ (lmWork[v].row.rev = lmRecord[i].rev => lmWork[v].row.status = lmRecord[i].status)
        /\ (i \notin lmStale => Queued(i) \/ lmWork[v].row = Cur(i))
    BY <2>1 DEF LmInv, LmIndexInv, LmRead
  <2> QED BY <1>9, <2>1, <2>2
<1>13. LmWrote'
  BY <1>2, <1>6 DEF LmInv, LmIndexInv, LmWrote
<1>14. LmIndexInv'
  BY <1>10, <1>11, <1>12, <1>13 DEF LmIndexInv
<1>15. lmEmbWork \in LmJob \union {<< >>} /\ lmVector \subseteq LmIds /\ lmIndex \in [LmIds -> LmSeen]
  BY DEF LmInv, LmTypes
<1> QED BY <1>2, <1>3, <1>4, <1>14, <1>15, LmWorkerKeeps

\* A worker gives its claim up: the write fails, or its process dies.
LEMMA LmDropKeeps ==
  ASSUME LmInv, NEW w \in LmWorkers, lmWork' = [lmWork EXCEPT ![w] = NoClaim],
         UNCHANGED << lmRecord, lmQueue, lmIndex, lmStale >>
  PROVE  /\ LmIndexInv'
         /\ lmWork' \in [LmWorkers -> [stage : {"idle", "claimed", "indexed"}, job : LmJob \union {<< >>}, row : LmSeen]]
         /\ \A v \in LmWorkers : lmWork'[v].stage # "idle" => lmWork'[v].job \in LmJob
<1>1. /\ lmWork' \in [LmWorkers -> [stage : {"idle", "claimed", "indexed"}, job : LmJob \union {<< >>}, row : LmSeen]]
      /\ lmWork'[w].stage = "idle" /\ (\A v \in LmWorkers : v # w => lmWork'[v] = lmWork[v])
      /\ \A v \in LmWorkers : lmWork'[v].stage # "idle" => lmWork'[v].job \in LmJob
  <2>1. NoClaim \in [stage : {"idle", "claimed", "indexed"}, job : LmJob \union {<< >>}, row : LmSeen]
        /\ NoClaim.stage = "idle"
    BY DEF NoClaim, NoIndexRow, LmSeen, LmStatus
  <2> QED BY <2>1 DEF LmInv, LmTypes
<1>2. \A v \in LmWorkers, i \in LmIds : Of(v, i)' => Of(v, i) /\ lmWork'[v] = lmWork[v]
  BY <1>1 DEF Of
<1>3. \A i : (Queued(i)' <=> Queued(i)) /\ Cur(i)' = Cur(i)
  BY DEF Queued, Cur
<1>4. LmJobsBehind' /\ LmIndexed'
  BY <1>3 DEF LmInv, LmIndexInv, LmJobsBehind, LmIndexed
<1>5. LmRead'
  BY <1>2, <1>3 DEF LmInv, LmIndexInv, LmRead
<1>6. LmWrote'
  BY <1>2 DEF LmInv, LmIndexInv, LmWrote
<1> QED BY <1>1, <1>4, <1>5, <1>6 DEF LmIndexInv

LEMMA LmFailKeeps == LmInv /\ (\E w \in LmWorkers : IndexFails(w)) => LmInv'
<1> SUFFICES ASSUME LmInv, NEW w \in LmWorkers, IndexFails(w) PROVE LmInv'
  OBVIOUS
<1>1. /\ lmWork' = [lmWork EXCEPT ![w] = NoClaim]
      /\ UNCHANGED << lmRecord, lmQueue, lmIndex, lmStale, lmEmbed, lmEmbWork, lmVector, lmRecalled, lmFileVars,
                      lmMigration >>
  BY DEF IndexFails, lmVectorVars, lmRecallVars
<1>2. lmEmbWork \in LmJob \union {<< >>} /\ lmVector \subseteq LmIds /\ lmIndex \in [LmIds -> LmSeen]
      /\ lmQueue \in Seq(LmJob)
  BY DEF LmInv, LmTypes
<1> QED BY <1>1, <1>2, LmDropKeeps, LmWorkerKeeps

LEMMA LmRebuildKeeps == LmInv /\ Rebuild => LmInv'
<1> SUFFICES ASSUME LmInv, Rebuild PROVE LmInv'
  OBVIOUS
<1>1. /\ lmIndex' = [i \in LmIds |-> NoIndexRow] /\ lmVector' = {}
      /\ lmWork' = [v \in LmWorkers |-> NoClaim] /\ lmStale' = lmStale \cup Known(lmRecord)
      /\ UNCHANGED << lmRecord, lmQueue, lmEmbed, lmEmbWork, lmRecalled, lmFileVars, lmMigration >>
  BY DEF Rebuild, lmRecallVars
<1>2. /\ NoClaim \in [stage : {"idle", "claimed", "indexed"}, job : LmJob \union {<< >>}, row : LmSeen]
      /\ NoClaim.stage = "idle" /\ NoIndexRow \in LmSeen
  BY DEF NoClaim, NoIndexRow, LmSeen, LmStatus
<1>3. LmIndexInv'
  BY <1>1, <1>2 DEF LmInv, LmIndexInv, LmJobsBehind, LmIndexed, LmRead, LmWrote, Of
<1>4. lmEmbWork \in LmJob \union {<< >>} /\ lmQueue \in Seq(LmJob)
  BY DEF LmInv, LmTypes
<1> QED BY <1>1, <1>2, <1>3, <1>4, LmWorkerKeeps

-----------------------------------------------------------------------------
\* Nothing of the records and of the index is touched.
LEMMA LmAsideKeeps ==
  ASSUME LmInv, UNCHANGED << lmRecord, lmQueue, lmIndex, lmWork, lmStale >>,
         lmEmbed' \in Seq(LmJob), lmEmbWork' \in LmJob \union {<< >>},
         lmVector' \subseteq LmIds,
         lmRecalled' \subseteq LmIds,
         lmMigration' \in [status : {"none", "running", "completed", "failed"},
         left : SUBSET LmLegacy],
         LmFile', LmImport'
  PROVE  LmInv'
<1>1. LmTypes'
  BY DEF LmInv, LmTypes
<1>2. (\A i : (Queued(i)' <=> Queued(i)) /\ Cur(i)' = Cur(i)) /\ (\A w, i : Of(w, i)' <=> Of(w, i))
  BY DEF Queued, Cur, Of
<1>3. LmIndexInv'
  BY <1>2 DEF LmInv, LmIndexInv, LmJobsBehind, LmIndexed, LmRead, LmWrote
<1> QED BY <1>1, <1>3 DEF LmInv

LEMMA LmAsideFacts ==
  ASSUME LmInv
  PROVE  /\ lmEmbed \in Seq(LmJob) /\ lmEmbWork \in LmJob \union {<< >>} /\ lmVector \subseteq LmIds
         /\ lmRecalled \subseteq LmIds /\ lmRecord \in [LmIds -> LmRow] /\ DOMAIN lmRecord = LmIds
         /\ lmMigration \in [status : {"none", "running", "completed", "failed"}, left : SUBSET LmLegacy]
  BY DEF LmInv, LmTypes

\* Embedding and recall.
LEMMA LmRecallKeeps ==
  LmInv /\ (\/ Materialize \/ EmbedClaim \/ EmbedDone \/ EmbedFails \/ RecallStarts
            \/ \E matching \in SUBSET LmIds : Recall(matching)) => LmInv'
<1> SUFFICES ASSUME LmInv, \/ Materialize \/ EmbedClaim \/ EmbedDone \/ EmbedFails \/ RecallStarts
                           \/ \E matching \in SUBSET LmIds : Recall(matching)
             PROVE  LmInv'
  OBVIOUS
<1>1. /\ UNCHANGED << lmRecord, lmQueue, lmIndex, lmWork, lmStale >> /\ lmMigration' = lmMigration
      /\ UNCHANGED << lmDigest, lmProfile, lmEdited >>
  BY DEF Materialize, EmbedClaim, EmbedDone, EmbedFails, RecallStarts, Recall,
     lmIndexVars, lmFileVars
<1>2. LmFile' /\ LmImport'
  BY <1>1 DEF LmInv, LmFile, LmImport, Known
<1>3. CASE Materialize
  <2>1. PICK s \in Orders(Unqueued) : lmEmbed' = lmEmbed \o JobsOf(lmRecord, s)
    BY <1>3 DEF Materialize
  <2>2. Unqueued \in SUBSET LmIds
    BY LmAsideFacts DEF Unqueued, LmActive
  <2>3. PICK longer \in Seq(LmJob) :
           /\ longer = lmEmbed \o JobsOf(lmRecord, s)
           /\ \A n \in 1..Len(lmEmbed) : n \in 1..Len(longer) /\ longer[n] = lmEmbed[n]
           /\ \A n \in 1..Len(longer) : (\E m \in 1..Len(lmEmbed) : longer[n] = lmEmbed[m])
                                        \/ (\E i \in Unqueued : longer[n] = << i, lmRecord[i].rev >>)
           /\ \A i \in Unqueued : \E n \in 1..Len(longer) : longer[n] = << i, lmRecord[i].rev >>
    <3>1. lmRecord \in [LmIds -> LmRow]
      BY LmAsideFacts
    <3>2. lmEmbed \in Seq(LmJob)
      BY LmAsideFacts
    <3> QED BY <2>2, <3>1, <3>2, LmOrders, Zenon
  <2>4. lmEmbed' \in Seq(LmJob)
    BY <2>1, <2>3, Zenon
  <2> QED BY <1>1, <1>2, <1>3, <2>4, LmAsideFacts, LmAsideKeeps DEF Materialize, lmRecallVars
<1>4. CASE EmbedClaim
  <2>1. Len(lmEmbed) \in Nat /\ 1 \in 1..Len(lmEmbed) /\ lmEmbWork' = lmEmbed[1]
    BY <1>4, LmAsideFacts DEF EmbedClaim
  <2>2. lmEmbWork' \in LmJob
    BY <2>1, LmAsideFacts
  <2> QED BY <1>1, <1>2, <1>4, <2>2, LmAsideFacts, LmAsideKeeps DEF EmbedClaim, lmRecallVars
<1>5. CASE EmbedDone
  <2>1. lmEmbWork \in LmJob /\ Closed(lmEmbed, lmEmbWork, lmEmbed')
    BY <1>5, LmAsideFacts DEF EmbedDone
  <2>2. lmEmbed' \in Seq(LmJob)
    BY <2>1, LmAsideFacts, LmCloses
  <2>3. lmVector' \subseteq LmIds
    BY <1>5, <2>1, LmAsideFacts DEF EmbedDone, LmJob
  <2> QED BY <1>1, <1>2, <1>5, <2>2, <2>3, LmAsideFacts, LmAsideKeeps DEF EmbedDone, lmRecallVars
<1>6. CASE EmbedFails
  BY <1>1, <1>2, <1>6, LmAsideFacts, LmAsideKeeps DEF EmbedFails, lmRecallVars
<1>7. CASE RecallStarts
  BY <1>1, <1>2, <1>7, LmAsideFacts, LmAsideKeeps DEF RecallStarts, lmVectorVars
<1>8. CASE \E matching \in SUBSET LmIds : Recall(matching)
  <2>1. PICK matching \in SUBSET LmIds : Recall(matching)
    BY <1>8
  <2>2. lmRecalled' \subseteq LmIds
    BY <2>1, LmAsideFacts DEF Recall, Candidates, LmActive
  <2> QED BY <1>1, <1>2, <2>1, <2>2, LmAsideFacts, LmAsideKeeps DEF Recall, lmVectorVars
<1> QED BY <1>3, <1>4, <1>5, <1>6, <1>7, <1>8

\* The profile file and the digest of what was projected.
LEMMA LmFileKeeps == LmInv /\ (Project \/ Projected \/ HandEdit) => LmInv'
<1> SUFFICES ASSUME LmInv, Project \/ Projected \/ HandEdit PROVE LmInv'
  OBVIOUS
<1>1. /\ UNCHANGED << lmRecord, lmQueue, lmIndex, lmWork, lmStale >> /\ lmMigration' = lmMigration
      /\ UNCHANGED << lmEmbed, lmEmbWork, lmVector, lmRecalled >>
  BY DEF Project, Projected, HandEdit, lmIndexVars, lmVectorVars, lmRecallVars
<1>2. LmImport'
  BY <1>1 DEF LmInv, LmImport, Known
<1>3. Rendered.by = "projector"
  BY DEF Rendered
<1>4. (\A d \in lmDigest : d.by = "projector") /\ (lmEdited => lmDigest # {} /\ lmProfile.by = "hand")
  BY DEF LmInv, LmFile
<1>5. LmFile'
  <2>1. CASE Project
    <3>1. ~ lmEdited
      BY <1>3, <1>4, <2>1 DEF Project, Drifted
    <3> QED BY <1>4, <2>1, <3>1 DEF Project, LmFile
  <2>2. CASE Projected
    <3>1. ~ lmEdited
      BY <1>3, <1>4, <2>2 DEF Projected
    <3> QED BY <1>3, <2>2, <3>1 DEF Projected, LmFile
  <2>3. CASE HandEdit
    BY <1>4, <2>3 DEF HandEdit, LmFile
  <2> QED BY <2>1, <2>2, <2>3
<1> QED BY <1>1, <1>2, <1>5, LmAsideFacts, LmAsideKeeps

\* The import begins, completes or fails.
LEMMA LmImportKeeps == LmInv /\ (MigrationBegins \/ MigrationCompletes \/ MigrationFails) => LmInv'
<1> SUFFICES ASSUME LmInv, MigrationBegins \/ MigrationCompletes \/ MigrationFails PROVE LmInv'
  OBVIOUS
<1>1. /\ UNCHANGED << lmRecord, lmQueue, lmIndex, lmWork, lmStale >>
      /\ UNCHANGED << lmEmbed, lmEmbWork, lmVector, lmRecalled, lmDigest, lmProfile, lmEdited >>
  BY DEF MigrationBegins, MigrationCompletes, MigrationFails, lmIndexVars,
     lmVectorVars, lmRecallVars, lmFileVars
<1>2. LmFile'
  BY <1>1 DEF LmInv, LmFile
<1>3. lmMigration' \in [status : {"none", "running", "completed", "failed"}, left : SUBSET LmLegacy]
  BY LmAsideFacts DEF MigrationBegins, MigrationCompletes, MigrationFails
<1>4. LmImport'
  BY <1>1, LmAsideFacts DEF MigrationBegins, MigrationCompletes, MigrationFails,
     LmInv, LmImport, Known
<1> QED BY <1>1, <1>2, <1>3, <1>4, LmAsideFacts, LmAsideKeeps

LEMMA LmDeathKeeps == LmInv /\ (\E w \in LmWorkers : LmDies(w)) => LmInv'
<1> SUFFICES ASSUME LmInv, NEW w \in LmWorkers, LmDies(w) PROVE LmInv'
  OBVIOUS
<1>1. /\ lmWork' = [lmWork EXCEPT ![w] = NoClaim] /\ lmEmbWork' = << >>
      /\ lmMigration' = IF lmMigration.status = "running"
                        THEN [status |-> "none", left |-> LmLegacy] ELSE lmMigration
      /\ UNCHANGED << lmRecord, lmQueue, lmIndex, lmStale, lmEmbed, lmVector, lmRecalled, lmDigest, lmProfile, lmEdited >>
  BY DEF LmDies, lmFileVars
<1>2. /\ LmIndexInv'
      /\ lmWork' \in [LmWorkers -> [stage : {"idle", "claimed", "indexed"}, job : LmJob \union {<< >>}, row : LmSeen]]
      /\ \A v \in LmWorkers : lmWork'[v].stage # "idle" => lmWork'[v].job \in LmJob
  BY <1>1, LmDropKeeps
<1>3. lmMigration' \in [status : {"none", "running", "completed", "failed"}, left : SUBSET LmLegacy]
  BY <1>1, LmAsideFacts
<1>4. LmTypes'
  BY <1>1, <1>2, <1>3 DEF LmInv, LmTypes
<1>5. LmFile'
  BY <1>1 DEF LmInv, LmFile
<1>6. LmImport'
  BY <1>1, LmAsideFacts DEF LmInv, LmImport, Known
<1> QED BY <1>2, <1>4, <1>5, <1>6 DEF LmInv

LEMMA LmStep == LmInv /\ [LmNext]_lmVars => LmInv'
<1>1. LmInv /\ UNCHANGED lmVars => LmInv'
  <2> SUFFICES ASSUME LmInv, UNCHANGED lmVars PROVE LmInv'
    OBVIOUS
  <2>1. /\ UNCHANGED << lmRecord, lmQueue, lmIndex, lmWork, lmStale, lmEmbed, lmEmbWork, lmVector, lmRecalled >>
        /\ UNCHANGED << lmDigest, lmProfile, lmEdited, lmMigration >>
    BY DEF lmVars, lmIndexVars, lmVectorVars, lmRecallVars, lmFileVars
  <2>2. LmFile' /\ LmImport'
    BY <2>1 DEF LmInv, LmFile, LmImport, Known
  <2> QED BY <2>1, <2>2, LmAsideFacts, LmAsideKeeps
<1>2. LmInv /\ LmIndexing => LmInv'
  BY LmClaimKeeps, LmIndexKeeps, LmReadyKeeps, LmFailKeeps, LmDeathKeeps,
     LmRebuildKeeps, LmRecallKeeps DEF LmIndexing
<1>3. LmInv /\ LmProjecting => LmInv'
  BY LmFileKeeps, LmImportKeeps, LmMigrateKeeps, LmDeathKeeps DEF LmProjecting
<1> QED BY <1>1, <1>2, <1>3, LmWriteKeeps DEF LmNext

LEMMA LmSoundNow == LmInv => MemorySound
<1> SUFFICES ASSUME LmInv PROVE MemorySound
  OBVIOUS
<1>1. LmTypeOK
  <2>1. \A i \in LmIds : lmRecord[i].status \in LmStatus
    BY LmRows DEF LmInv
  <2> QED BY <2>1, LmAsideFacts DEF LmInv, LmTypes, LmTypeOK, LmStatus
<1>2. IndexCatchesUp
  <2> SUFFICES ASSUME lmQueue = << >>, NEW i \in Known(lmRecord) \ lmStale
               PROVE  lmIndex[i] = [rev |-> lmRecord[i].rev,
               status |-> lmRecord[i].status]
    BY DEF IndexCatchesUp
  <2>1. Len(lmQueue) = 0
    OBVIOUS
  <2>2. ~ Queued(i)
    BY <2>1 DEF Queued
  <2> QED BY <2>2 DEF LmInv, LmIndexInv, LmIndexed, Cur
<1>3. EditKept
  BY DEF LmInv, LmFile, EditKept
<1>4. ImportIsWhole
  BY DEF LmInv, LmImport, ImportIsWhole
<1> QED BY <1>1, <1>2, <1>3, <1>4 DEF MemorySound

(* The structured memory of memory/structured.py: once no job is open the    *)
(* index has the last revision of every record, a hand edit of a projected   *)
(* profile stands, and a completed import is whole, for any number of        *)
(* records, writers, index workers and deaths.                               *)
THEOREM MemoryAlwaysSound == LmSpec => []MemorySound
<1> HIDE DEF LmInv
<1> QED BY LmInitial, LmStep, LmSoundNow, PTL DEF LmSpec

(* memory/retrieval.py, _retrieve: however far the indexes lag behind, what  *)
(* a recall selects is active in the canonical records.                      *)
THEOREM RecallOnlyActive == LmSpec => RecallIsActive
<1>1. [LmNext]_lmVars => [lmRecalled' \subseteq lmRecalled \cup LmActive(lmRecord)]_lmRecalled
  <2> SUFFICES ASSUME [LmNext]_lmVars, lmRecalled' # lmRecalled
               PROVE  lmRecalled' \subseteq lmRecalled \cup LmActive(lmRecord)
    OBVIOUS
  <2>1. PICK matching \in SUBSET LmIds : Recall(matching)
    BY DEF LmNext, LmWriting, LmIndexing, LmProjecting, LmWrite, LmCompensate,
       Writes, Claim, Index, MarkReady,
           IndexFails, LmDies, Rebuild, Materialize, EmbedClaim, EmbedDone,
           EmbedFails, RecallStarts, Project,
           Projected, HandEdit, MigrationBegins, MigrateStatement,
           MigrationCompletes, MigrationFails,
           lmVars, lmRecallVars
  <2> QED BY <2>1 DEF Recall, Candidates
<1> QED BY <1>1, PTL DEF LmSpec, RecallIsActive

-----------------------------------------------------------------------------
(* The Dream: its files, backups and facts.                                  *)

DmStatus == {"none", "noop", "failed", "completed"}
GwStatus == {"none", "running", "succeeded", "failed", "cancelled", "interrupted"}
DmRunIds == 1..MaxDreams
DmStates == [done : SUBSET DmEvidence, runs : Seq(DmRunIds), completed : Int, attempted : Int, status : DmStatus]
DmIds == LmIds \X DmRunIds
DmEntries == [id : DmIds, fact : LmIds, status : {"active", "superseded"}, run : DmRunIds, ev : SUBSET DmEvidence]
DmProfs == [hand : Nat, managed : SUBSET LmIds]
DmSnaps == [state : DmStates, mem : SUBSET DmEntries, prof : DmProfs]
DmCands == [op : {"insert", "update", "supersede"}, facts : {s \in SUBSET LmIds : s # {}}, old : DmIds \cup {<< >>}]
           \cup {NoCandidate}
DmJobs == [run : 0..MaxDreams, first : Int, cutoff : Int, fresh : SUBSET DmEvidence, hand : Nat, tries : 0..2,
           candidate : DmCands, todo : SUBSET LmIds]

\* Where a Dream is: before its entries are written, before its state is, in its commit,
\* under its transaction file, in a rollback.
BeforeMem == {"facts", "memories"}
BeforeState == BeforeMem \cup {"state"}
Committing == BeforeState \cup {"unlink"}
Marked == Committing \cup {"undo", "restore"}
Rolling == {"rollback_memories", "rollback_facts"}

DmTypes ==
  /\ dmDay \in Int /\ dmHand \in Nat /\ dmRuns \in 0..MaxDreams
  /\ dmState \in DmStates /\ dmMem \in SUBSET DmEntries /\ dmProf \in DmProfs
  /\ dmBackup \in [DmRunIds -> SUBSET DmSnaps]
  /\ dmTxn \subseteq DmRunIds
  /\ dmPc \in {"idle", "model", "fail", "ensure"} \cup Marked \cup Rolling
  /\ dmJob \in DmJobs
  /\ dmFed \in [DmRunIds -> SUBSET DmEvidence]

\* What the Gateway says of the runs: those to come, the running one, one that a death left.
DmGws ==
  /\ dmGw \in [DmRunIds -> GwStatus]
  /\ \A r \in DmRunIds : r > dmRuns => dmGw[r] = "none"
  /\ dmPc \in {"model", "fail"} \cup Marked => dmGw[dmJob.run] = "running"
  /\ dmPc = "ensure" => \A r \in dmTxn : dmGw[r] = "interrupted"
Won == {r \in DmRunIds : dmGw[r] = "succeeded"}

RunsOf(runs) == {runs[n] : n \in 1..Len(runs)}

\* What the step of the running Dream says of the transaction and the backup.
DmPlace ==
  /\ dmPc \in {"model", "fail"} \cup Marked => dmJob.run = dmRuns /\ dmRuns # 0
  /\ dmPc \in Marked => /\ dmTxn = {dmJob.run} /\ dmBackup[dmJob.run] # {}
                        /\ \A snap \in dmBackup[dmJob.run] :
                              RunsOf(dmState.runs) \subseteq RunsOf(snap.state.runs) \cup {dmJob.run}
  /\ dmPc \in {"idle", "model", "fail"} \cup Rolling => dmTxn = {}
  /\ dmPc \in BeforeMem => Valid(dmJob.candidate)
  /\ dmPc = "facts" => dmJob.todo \subseteq dmJob.candidate.facts
  /\ dmPc \in BeforeState \cup {"fail"} => \A snap \in dmBackup[dmJob.run] : snap.state = dmState
  /\ dmPc = "unlink" => \A snap \in dmBackup[dmJob.run] :
        RunsOf(dmState.runs) = RunsOf(snap.state.runs) \cup {dmJob.run}
  /\ dmPc \in {"undo", "restore", "fail"} => "failed_commit" \in dmHurt
  /\ dmPc \in Rolling => dmJob.run \in DmRunIds
  /\ dmPc = "rollback_memories" => \A snap \in dmBackup[dmJob.run] : snap.state = dmState
  /\ dmPc = "ensure" => \A r \in dmTxn : \A snap \in dmBackup[r] :
        RunsOf(dmState.runs) \subseteq RunsOf(snap.state.runs) \cup {r}

\* Runs are numbered as they begin; a backup lists only earlier ones, and there is one of a run.
DmOrder ==
  /\ \A x \in RunsOf(dmState.runs) : x <= dmRuns /\ (dmPc \in {"model", "fail"} \cup BeforeState => x < dmRuns)
  /\ \A r \in DmRunIds : dmBackup[r] # {} => r <= dmRuns
  /\ \A r \in DmRunIds : \A a, b \in dmBackup[r] : a = b
  /\ \A r \in DmRunIds : \A snap \in dmBackup[r] : \A x \in RunsOf(snap.state.runs) : x < r

\* The backup of the last run lists the runs before it.
Linked(runs, backup) ==
  Len(runs) # 0 => \A snap \in backup[runs[Len(runs)]] :
    RunsOf(runs) = RunsOf(snap.state.runs) \cup {runs[Len(runs)]}
DmChain ==
  /\ Linked(dmState.runs, dmBackup)
  /\ \A r \in DmRunIds : \A snap \in dmBackup[r] : Linked(snap.state.runs, dmBackup)

\* The entries come from runs that count, and the profile has the active ones.
Drawn(mem, runs, done) == \A m \in mem : m.run \in runs /\ m.ev \subseteq done
Entries(mem, state, prof, won) ==
  Drawn(mem, RunsOf(state.runs) \cap won, state.done) /\ prof.managed = ActiveFacts(mem)
EntriesNow == Entries(dmMem, dmState, dmProf, Won)

\* So it is in every backup, and at rest; in a commit as far as it got.
DmFiles ==
  dmHurt \subseteq {"died_in_commit", "failed_commit"} =>
    /\ \A r \in DmRunIds : \A snap \in dmBackup[r] : Entries(snap.mem, snap.state, snap.prof, Won)
    /\ dmPc \in {"idle", "model", "facts", "fail", "rollback_facts"} => EntriesNow
    /\ dmPc = "ensure" /\ dmTxn = {} => EntriesNow
    /\ dmPc = "memories" => /\ Drawn(dmMem, RunsOf(dmState.runs) \cap Won, dmState.done)
                            /\ dmProf.managed = ActiveFacts(NewMem)
    /\ dmPc = "state" =>
          /\ Drawn(dmMem, (RunsOf(dmState.runs) \cap Won) \cup {dmJob.run}, dmState.done \cup dmJob.fresh)
          /\ dmProf.managed = ActiveFacts(dmMem)
    /\ dmPc = "unlink" =>
          /\ Drawn(dmMem, (RunsOf(dmState.runs) \cap Won) \cup {dmJob.run}, dmState.done)
          /\ dmProf.managed = ActiveFacts(dmMem)

\* The processed evidence is what the listed runs consumed.
Fed(done, runs, fed) == \A e \in DmEvidence : e \in done <=> \E r \in RunsOf(runs) : e \in fed[r]
DmFeeds ==
  dmHurt \subseteq {"died_in_commit"} =>
    /\ \A r \in DmRunIds : \A snap \in dmBackup[r] : Fed(snap.state.done, snap.state.runs, dmFed)
    /\ dmPc \in {"idle", "model", "facts", "memories", "state", "rollback_facts"} =>
          Fed(dmState.done, dmState.runs, dmFed)
    /\ dmPc = "ensure" /\ dmTxn = {} => Fed(dmState.done, dmState.runs, dmFed)
    /\ dmPc = "unlink" => Fed(dmState.done, dmState.runs, [dmFed EXCEPT ![dmJob.run] = dmJob.fresh])

\* A fact only one run vouches for: the run counts, or is writing it or taking it back.
DmFacts ==
  dmHurt \subseteq {"failed_commit"} =>
    \A i \in LmActive(lmRecord), r \in DmRunIds :
      lmRecord[i].refs = {DreamRef(r)} =>
        \/ r \in RunsOf(dmState.runs) \cap Won
        \/ r = dmJob.run /\ (dmPc \in Rolling \/ (dmPc \in Committing \cup {"undo"} /\ Wrote))

\* The first source of a record is among its evidence.
DmPrimary == \A i \in LmIds : lmRecord[i].status # "none" => lmRecord[i].primary \in lmRecord[i].refs

DmInv == DmTypes /\ DmGws /\ DmPlace /\ DmOrder /\ DmChain /\ DmFiles /\ DmFeeds /\ DmFacts /\ DmPrimary /\ LmInv

-----------------------------------------------------------------------------
LEMMA DmAppend ==
  ASSUME NEW s \in Seq(DmRunIds), NEW r \in DmRunIds
  PROVE  /\ Append(s, r) \in Seq(DmRunIds) /\ Len(Append(s, r)) # 0
         /\ Append(s, r)[Len(Append(s, r))] = r
         /\ RunsOf(Append(s, r)) = RunsOf(s) \cup {r}
<1>1. PICK t : t = Append(s, r)
  OBVIOUS
<1>2. /\ t \in Seq(DmRunIds) /\ Len(t) = Len(s) + 1 /\ Len(s) \in Nat /\ t[Len(s) + 1] = r
      /\ \A n \in 1..Len(s) : t[n] = s[n]
  BY <1>1
<1>3. RunsOf(t) = RunsOf(s) \cup {r}
  BY <1>2 DEF RunsOf
<1> QED BY <1>1, <1>2, <1>3

LEMMA DmRunsIn ==
  ASSUME NEW s \in Seq(DmRunIds)
  PROVE  RunsOf(s) \subseteq DmRunIds /\ (Len(s) # 0 => s[Len(s)] \in RunsOf(s))
BY DEF RunsOf

\* The fields of what a backup holds.
LEMMA DmSnapFields ==
  ASSUME NEW snap \in DmSnaps
  PROVE  /\ snap.state \in DmStates /\ snap.mem \in SUBSET DmEntries /\ snap.prof \in DmProfs
         /\ snap.state.runs \in Seq(DmRunIds) /\ snap.state.done \in SUBSET DmEvidence
BY DEF DmSnaps, DmStates

\* A step that leaves structured memory alone.
LEMMA DmMemoryKept ==
  ASSUME LmInv, DmPrimary, UNCHANGED lmKept
  PROVE  LmInv' /\ DmPrimary' /\ lmRecord' = lmRecord
<1>1. UNCHANGED lmVars
  BY DEF lmKept, lmOthers, lmVars, lmIndexVars, lmVectorVars, lmRecallVars,
     lmFileVars
<1>2. lmRecord' = lmRecord
  BY DEF lmKept
<1> HIDE DEF LmInv
<1> QED BY <1>1, <1>2, LmStep DEF DmPrimary

\* A transaction of a Dream on structured memory.
LEMMA DmMemoryWritten ==
  ASSUME LmInv, NEW new, MovesOn(new), lmRecord' = new, Enqueues(lmRecord, new),
  UNCHANGED lmOthers
  PROVE  LmInv'
<1>1. /\ UNCHANGED << lmIndexVars, lmVectorVars, lmRecallVars, lmFileVars >>
      /\ lmMigration' = lmMigration
  BY DEF lmOthers
<1>2. /\ lmMigration' \in [status : {"none", "running", "completed", "failed"}, left : SUBSET LmLegacy]
      /\ LmLegacy \ lmMigration'.left \subseteq Known(lmRecord) \cup Known(new)
      /\ lmMigration'.status = "completed" => lmMigration'.left = {}
  BY <1>1 DEF LmInv, LmTypes, LmImport
<1> QED BY <1>1, <1>2, LmRecordsKeep


\* Candidates applied to the entries.
DmApplying(mem, new, run, fresh) ==
  \A x \in new : x \in mem \/ (x.run = run /\ (x.ev \subseteq fresh \/ \E m \in mem : x.ev \subseteq m.ev \cup fresh))

LEMMA DmApplied ==
  ASSUME NEW mem \in SUBSET DmEntries, NEW c \in DmCands, NEW run \in DmRunIds,
  NEW fresh \in SUBSET DmEvidence,
         c.op \in {"update", "supersede"} => \E m \in mem : m.id = c.old
  PROVE  Applied(mem, c, run, fresh) \in SUBSET DmEntries /\ DmApplying(mem, Applied(mem, c, run, fresh), run, fresh)
<1> DEFINE new == Applied(mem, c, run, fresh)
<1>1. CASE c.op = "none"
  <2>1. new = mem
    BY <1>1 DEF Applied
  <2> QED BY <2>1 DEF DmApplying
<1> SUFFICES ASSUME c.op # "none" PROVE new \in SUBSET DmEntries /\ DmApplying(mem, new, run, fresh)
  BY <1>1
<1>2. c.facts \in SUBSET LmIds /\ c.facts # {} /\ c.op \in {"insert", "update", "supersede"}
  <2>1. c # NoCandidate
    BY DEF NoCandidate
  <2>2. c \in [op : {"insert", "update", "supersede"}, facts : {s \in SUBSET LmIds : s # {}}, old : DmIds \cup {<< >>}]
    BY <2>1 DEF DmCands
  <2> QED BY <2>2
<1>3. ASSUME NEW f \in LmIds, NEW e, e = DreamEntry(f, run, fresh)
      PROVE  e \in DmEntries /\ e.run = run /\ e.ev = fresh
  BY <1>3 DEF DreamEntry, DmEntries, DmIds
<1>4. FactOf(c) \in LmIds
  BY <1>2 DEF FactOf
<1>5. CASE c.op = "insert"
  <2>1. PICK again : again = {Duplicate(mem, f) : f \in c.facts \cap ActiveFacts(mem)}
    OBVIOUS
  <2>2. again \subseteq mem
    <3> SUFFICES ASSUME NEW f \in ActiveFacts(mem) PROVE Duplicate(mem, f) \in mem
      BY <2>1
    <3>1. \E m \in mem : m.status = "active" /\ m.fact = f
      BY DEF ActiveFacts
    <3> QED BY <3>1 DEF Duplicate
  <2>3. PICK renewed : renewed = {[m EXCEPT !.ev = m.ev \cup fresh, !.run = run] : m \in again}
    OBVIOUS
  <2>4. PICK added : added = {DreamEntry(f, run, fresh) : f \in c.facts \ ActiveFacts(mem)}
    OBVIOUS
  <2>5. new = (mem \ again) \cup renewed \cup added
    BY <1>5, <2>1, <2>3, <2>4 DEF Applied
  <2>6. ASSUME NEW x \in renewed
        PROVE  x \in DmEntries /\ x.run = run /\ \E m \in mem : x.ev \subseteq m.ev \cup fresh
    <3>1. PICK m \in mem : x = [m EXCEPT !.ev = m.ev \cup fresh, !.run = run]
      BY <2>2, <2>3
    <3>2. m \in DmEntries
      OBVIOUS
    <3>3. x \in DmEntries /\ x.run = run /\ x.ev = m.ev \cup fresh
      BY <3>1, <3>2 DEF DmEntries
    <3> QED BY <3>3
  <2>7. ASSUME NEW x \in added PROVE x \in DmEntries /\ x.run = run /\ x.ev = fresh
    <3>1. PICK f \in LmIds : x = DreamEntry(f, run, fresh)
      BY <1>2, <2>4
    <3> QED BY <1>3, <3>1
  <2> HIDE DEF new
  <2> QED BY <2>5, <2>6, <2>7 DEF DmApplying
<1>7. CASE c.op = "update"
  <2>1. PICK d \in mem : d = CHOOSE m \in mem : m.id = c.old
    BY <1>7
  <2>2. PICK n : n = [d EXCEPT !.fact = FactOf(c), !.ev = d.ev \cup fresh, !.run = run]
    OBVIOUS
  <2>3. n \in DmEntries /\ n.run = run /\ n.ev = d.ev \cup fresh
    BY <1>4, <2>1, <2>2 DEF DmEntries
  <2>4. new = (mem \ {d}) \cup {n}
    BY <1>7, <2>1, <2>2 DEF Applied
  <2> HIDE DEF new
  <2> QED BY <2>1, <2>3, <2>4 DEF DmApplying
<1>8. CASE c.op = "supersede"
  <2>1. PICK d \in mem : d = CHOOSE m \in mem : m.id = c.old
    BY <1>8
  <2>2. PICK n : n = [d EXCEPT !.status = "superseded", !.run = run]
    OBVIOUS
  <2>3. n \in DmEntries /\ n.run = run /\ n.ev = d.ev
    BY <2>1, <2>2 DEF DmEntries
  <2>4. PICK e : e = DreamEntry(FactOf(c), run, fresh)
    OBVIOUS
  <2>5. e \in DmEntries /\ e.run = run /\ e.ev = fresh
    BY <1>3, <1>4, <2>4
  <2>6. new = (mem \ {d}) \cup {n, e}
    BY <1>8, <2>1, <2>2, <2>4 DEF Applied
  <2> HIDE DEF new
  <2> QED BY <2>1, <2>3, <2>5, <2>6 DEF DmApplying
<1> QED BY <1>2, <1>5, <1>7, <1>8

LEMMA DmNewMem ==
  ASSUME DmTypes, DmPlace, dmPc \in BeforeMem
  PROVE  /\ NewMem \in SUBSET DmEntries /\ ActiveFacts(NewMem) \in SUBSET LmIds
         /\ DmApplying(dmMem, NewMem, dmJob.run, dmJob.fresh)
<1>1. /\ dmMem \in SUBSET DmEntries /\ dmJob.candidate \in DmCands /\ dmJob.fresh \in SUBSET DmEvidence
      /\ dmJob.run \in DmRunIds /\ Valid(dmJob.candidate)
  BY DmAssumption DEF DmTypes, DmPlace, DmJobs, DmRunIds, BeforeMem, BeforeState,
     Committing, Marked
<1>2. NewMem \in SUBSET DmEntries /\ DmApplying(dmMem, NewMem, dmJob.run, dmJob.fresh)
  BY <1>1, DmApplied DEF Valid, NewMem
<1> HIDE DEF NewMem
<1>3. ActiveFacts(NewMem) \in SUBSET LmIds
  BY <1>2 DEF ActiveFacts, DmEntries
<1> QED BY <1>2, <1>3

\* A run that consumed its evidence joins those that count.
LEMMA DmFedMore ==
  ASSUME NEW done \in SUBSET DmEvidence, NEW runs, NEW longer,
  NEW fed \in [DmRunIds -> SUBSET DmEvidence],
         NEW run \in DmRunIds, NEW fresh \in SUBSET DmEvidence, NEW more,
         RunsOf(runs) \subseteq DmRunIds, run \notin RunsOf(runs), Fed(done, runs,
         fed),
         RunsOf(longer) = RunsOf(runs) \cup {run},
         more = [fed EXCEPT ![run] = fresh]
  PROVE  Fed(done \cup fresh, longer, more)
<1>1. more[run] = fresh /\ \A r \in RunsOf(runs) : more[r] = fed[r]
  OBVIOUS
<1> QED BY <1>1 DEF Fed

LEMMA DmDrawnMore ==
  ASSUME NEW mem, NEW new, NEW runs, NEW done, NEW run, NEW fresh, Drawn(mem, runs, done),
         DmApplying(mem, new, run, fresh)
  PROVE  Drawn(new, runs \cup {run}, done \cup fresh)
BY DEF Drawn, DmApplying

\* Entries stay right when more runs count.
LEMMA DmEntriesGrow ==
  ASSUME NEW mem, NEW state, NEW prof, NEW won, NEW more, won \subseteq more, Entries(mem, state, prof, won)
  PROVE  Entries(mem, state, prof, more)
BY DEF Entries, Drawn

\* The end of a run that did not count takes no run from those that count.
LEMMA DmGwMoves ==
  ASSUME dmGw \in [DmRunIds -> GwStatus], NEW run \in DmRunIds, NEW s \in GwStatus, dmGw[run] # "succeeded",
         dmGw' = [dmGw EXCEPT ![run] = s]
  PROVE  /\ dmGw' \in [DmRunIds -> GwStatus] /\ dmGw'[run] = s
         /\ \A r \in DmRunIds : r # run => dmGw'[r] = dmGw[r]
         /\ Won \subseteq Won' /\ Won' \subseteq Won \cup {run}
BY DEF Won

LEMMA DmAdvanceCursorKeeps == DmInv /\ AdvanceCursor => DmInv'
<1> SUFFICES ASSUME DmInv, AdvanceCursor PROVE DmInv'
  OBVIOUS
<1>1. /\ DmTypes /\ DmGws /\ DmPlace /\ DmOrder /\ DmChain
      /\ DmFiles /\ DmFeeds /\ DmFacts /\ DmPrimary /\ LmInv
  BY DEF DmInv
<1>2. /\ dmPc = "idle"
      /\ UNCHANGED << dmMem, dmProf, dmBackup, dmFed, dmHurt, dmRuns, dmHand >>
      /\ UNCHANGED << dmPc, dmJob, dmTxn, dmDay, dmGw >>
  BY DEF AdvanceCursor, DmRest, DmIdle, dmFiles, dmBounds, dmVars, DmFault, Rolling
<1>f1. dmState' \in DmStates /\ dmState'.done = dmState.done /\ dmState'.runs = dmState.runs
  <2>1. PICK n, a : /\ n = MaxOf(dmState.completed, Due) /\ a = Due
                    /\ dmState' = [dmState EXCEPT !.completed = n, !.attempted = a, !.status = "noop"]
    BY DEF AdvanceCursor
  <2>2. dmState \in DmStates /\ a \in Int /\ n \in Int
    BY <1>1, <2>1 DEF Due, MaxOf, DmTypes, DmStates
  <2> QED BY <2>1, <2>2 DEF DmStatus, DmStates
<1>3. LmInv' /\ DmPrimary' /\ lmRecord' = lmRecord
  <2>1. UNCHANGED lmKept
    BY DEF AdvanceCursor
  <2> QED BY <1>1, <2>1, DmMemoryKept
<1>4. DmTypes'
  BY <1>1, <1>2, <1>f1, DmAssumption DEF DmTypes, Marked, Committing, BeforeState,
     BeforeMem, Rolling
<1>g. DmGws' /\ Won' = Won /\ Won \subseteq Won'
  BY <1>1, <1>2, <1>f1 DEF DmGws, Won, DmPlace, Marked, Committing, BeforeState,
     BeforeMem, Rolling
<1>5. DmPlace'
  BY <1>1, <1>2, <1>f1, <1>4, <1>g, DmAssumption DEF DmTypes, DmRunIds,
     DmPlace, Valid, Marked, Committing, BeforeState,
     BeforeMem, Rolling
<1>6. DmOrder'
  BY <1>1, <1>2, <1>f1, <1>4, <1>g, DmAssumption DEF DmTypes, DmRunIds,
     DmOrder, DmPlace, Marked, Committing, BeforeState,
     BeforeMem, Rolling
<1>7. DmChain'
  BY <1>1, <1>2, <1>f1, <1>4, <1>g, DmAssumption DEF DmTypes, DmRunIds,
     DmChain, DmPlace, Marked, Committing, BeforeState,
     BeforeMem, Rolling
<1>8. DmFiles'
  BY <1>1, <1>2, <1>f1, <1>4, <1>g, DmAssumption DEF DmTypes, DmRunIds,
     DmFiles, DmPlace, EntriesNow, Entries, Marked, Committing, BeforeState,
     BeforeMem, Rolling
<1>9. DmFeeds'
  BY <1>1, <1>2, <1>f1, <1>4, <1>g, DmAssumption DEF DmTypes, DmRunIds,
     DmFeeds, DmPlace, Marked, Committing, BeforeState,
     BeforeMem, Rolling
<1>10. DmFacts'
  BY <1>1, <1>2, <1>f1, <1>4, <1>g, DmAssumption, <1>3 DEF DmTypes, DmRunIds,
     DmFacts, DmPlace, Wrote, Marked, Committing, BeforeState,
     BeforeMem, Rolling
<1> QED BY <1>3, <1>4, <1>5, <1>6, <1>7, <1>8, <1>9, <1>10, <1>g DEF DmInv

LEMMA DmNoopKeeps == DmInv /\ (\E d \in 1 .. dmDay : DreamNoop(d)) => DmInv'
<1> SUFFICES ASSUME DmInv, (\E d \in 1 .. dmDay : DreamNoop(d)) PROVE DmInv'
  OBVIOUS
<1>1. /\ DmTypes /\ DmGws /\ DmPlace /\ DmOrder /\ DmChain
      /\ DmFiles /\ DmFeeds /\ DmFacts /\ DmPrimary /\ LmInv
  BY DEF DmInv
<1>2. /\ dmPc = "idle"
      /\ UNCHANGED << dmMem, dmProf, dmBackup, dmFed, dmHurt, dmHand, dmPc, dmJob, dmTxn, dmDay >>
      /\ dmRuns' = dmRuns + 1
      /\ dmRuns < MaxDreams
      /\ dmGw' = [dmGw EXCEPT ![dmRuns + 1] = "succeeded"]
  BY DEF DreamNoop, DmRest, DmIdle, dmFiles, dmBounds, dmVars, DmFault, Rolling
<1>f1. dmState' \in DmStates /\ dmState'.done = dmState.done /\ dmState'.runs = dmState.runs
  <2>1. PICK n, a : /\ a \in 1 .. dmDay /\ n = MaxOf(dmState.completed, a)
                    /\ dmState' = [dmState EXCEPT !.completed = n, !.attempted = a, !.status = "noop"]
    BY DEF DreamNoop
  <2>2. dmState \in DmStates /\ a \in Int /\ n \in Int
    BY <1>1, <2>1 DEF Due, MaxOf, DmTypes, DmStates
  <2> QED BY <2>1, <2>2 DEF DmStatus, DmStates
<1>f2. /\ dmRuns \in Nat /\ \A x \in RunsOf(dmState.runs) : x \in Nat
  <2>1. dmState.runs \in Seq(DmRunIds) /\ dmRuns \in Nat
    BY <1>1, DmAssumption DEF DmTypes, DmStates
  <2> QED BY <2>1, DmRunsIn DEF DmRunIds
<1>3. LmInv' /\ DmPrimary' /\ lmRecord' = lmRecord
  <2>1. UNCHANGED lmKept
    BY DEF DreamNoop
  <2> QED BY <1>1, <2>1, DmMemoryKept
<1>4. DmTypes'
  BY <1>1, <1>2, <1>f1, <1>f2, DmAssumption DEF DmTypes, Marked, Committing, BeforeState,
     BeforeMem, Rolling
<1>w. dmRuns + 1 \in DmRunIds /\ dmGw[dmRuns + 1] # "succeeded" /\ dmGw' = [dmGw EXCEPT ![dmRuns + 1] = "succeeded"]
  BY <1>1, <1>2, <1>f2, DmAssumption DEF DmGws, DmPlace, DmTypes, DmRunIds, Marked, Committing, BeforeState,
     BeforeMem, Rolling
<1>g. DmGws' /\ Won \subseteq Won'
  <2>1. /\ dmGw' \in [DmRunIds -> GwStatus] /\ dmGw'[dmRuns + 1] = "succeeded"
        /\ \A r \in DmRunIds : r # dmRuns + 1 => dmGw'[r] = dmGw[r]
        /\ Won \subseteq Won'
    BY <1>1, <1>w, DmGwMoves DEF DmGws, GwStatus
  <2> QED BY <1>1, <1>1, <1>2, <1>f2, <2>1, DmAssumption DEF DmGws, DmTypes, DmPlace, DmRunIds, Marked, Committing, BeforeState,
     BeforeMem, Rolling
<1>5. DmPlace'
  BY <1>1, <1>2, <1>f1, <1>f2, <1>4, <1>g, DmAssumption DEF DmTypes, DmRunIds,
     DmPlace, Valid, Marked, Committing, BeforeState,
     BeforeMem, Rolling
<1>6. DmOrder'
  <2>1. \A x \in RunsOf(dmState.runs) : x <= dmRuns + 1
    BY <1>1, <1>f2 DEF DmOrder
  <2>2. \A r \in DmRunIds : dmBackup[r] # {} => r <= dmRuns + 1
    BY <1>1, <1>f2 DEF DmOrder, DmRunIds
  <2>3. dmPc' \notin {"model", "fail"} \cup BeforeState
    BY <1>2 DEF BeforeState, BeforeMem
  <2> QED BY <1>1, <1>2, <1>f1, <2>1, <2>2, <2>3 DEF DmOrder
<1>7. DmChain'
  BY <1>1, <1>2, <1>f1, <1>f2, <1>4, <1>g, DmAssumption DEF DmTypes, DmRunIds,
     DmChain, DmPlace, Marked, Committing, BeforeState,
     BeforeMem, Rolling
<1>8. DmFiles'
  <2> SUFFICES ASSUME dmHurt' \subseteq {"died_in_commit", "failed_commit"} PROVE DmFiles'
    BY DEF DmFiles
  <2>1. dmHurt \subseteq {"died_in_commit", "failed_commit"}
    BY <1>2
  <2>2. \A r \in DmRunIds : \A snap \in dmBackup[r] : Entries(snap.mem, snap.state, snap.prof, Won')
    BY <1>1, <1>g, <2>1, DmEntriesGrow DEF DmFiles
  <2>3. EntriesNow'
    <3>1. EntriesNow
      BY <1>1, <1>2, <2>1 DEF DmFiles
    <3> QED BY <1>2, <1>f1, <1>f2, <1>g, <3>1 DEF EntriesNow, Entries, Drawn
  <2> QED BY <1>2, <2>2, <2>3 DEF DmFiles
<1>9. DmFeeds'
  BY <1>1, <1>2, <1>f1, <1>f2, <1>4, <1>g, DmAssumption DEF DmTypes, DmRunIds,
     DmFeeds, DmPlace, Marked, Committing, BeforeState,
     BeforeMem, Rolling
<1>10. DmFacts'
  BY <1>1, <1>2, <1>f1, <1>f2, <1>4, <1>g, DmAssumption, <1>3 DEF DmTypes, DmRunIds,
     DmFacts, DmPlace, Wrote, Marked, Committing, BeforeState,
     BeforeMem, Rolling
<1> QED BY <1>3, <1>4, <1>5, <1>6, <1>7, <1>8, <1>9, <1>10, <1>g DEF DmInv

LEMMA DmBeginsKeeps == DmInv /\ (\E first \in Int, cutoff \in Int : DmIdle /\ Begins(first, cutoff)) => DmInv'
<1> SUFFICES ASSUME DmInv, (\E first \in Int, cutoff \in Int : DmIdle /\ Begins(first, cutoff)) PROVE DmInv'
  OBVIOUS
<1>1. /\ DmTypes /\ DmGws /\ DmPlace /\ DmOrder /\ DmChain
      /\ DmFiles /\ DmFeeds /\ DmFacts /\ DmPrimary /\ LmInv
  BY DEF DmInv
<1>2. /\ dmPc = "idle"
      /\ UNCHANGED << dmState, dmMem, dmProf, dmBackup, dmFed, dmHurt, dmHand, dmTxn, dmDay >>
      /\ dmRuns' = dmRuns + 1
      /\ dmRuns < MaxDreams
      /\ dmPc' = "model"
      /\ dmGw' = [dmGw EXCEPT ![dmRuns + 1] = "running"]
  BY DEF Begins, DmRest, DmIdle, dmFiles, dmBounds, dmVars, DmFault, Rolling
<1>f1. dmJob' \in DmJobs /\ dmJob'.run = dmRuns + 1
  <2>1. NoCandidate \in DmCands
    BY DEF DmCands
  <2>2. PICK first \in Int, cutoff \in Int :
          dmJob' = [NoDream EXCEPT !.run = dmRuns + 1, !.first = first, !.cutoff = cutoff,
                                   !.fresh = Fresh(first, cutoff), !.hand = dmProf.hand]
    BY DEF Begins
  <2>3. dmProf.hand \in Nat /\ dmRuns \in 0..MaxDreams /\ dmRuns + 1 \in 0..MaxDreams
    BY <1>1, <1>2, DmAssumption DEF DmTypes, DmProfs
  <2>4. PICK f, h, r : /\ f = Fresh(first, cutoff) /\ h = dmProf.hand /\ r = dmRuns + 1
                       /\ f \in SUBSET DmEvidence /\ h \in Nat /\ r \in 0..MaxDreams
    BY <2>3 DEF Fresh
  <2>5. dmJob' = [run |-> r, first |-> first, cutoff |-> cutoff, fresh |-> f, hand |-> h, tries |-> 0,
                  candidate |-> NoCandidate, todo |-> {}]
    BY <2>2, <2>4 DEF NoDream
  <2>6. first \in Int /\ cutoff \in Int
    BY <2>2
  <2>7. PICK j : j = [run |-> r, first |-> first, cutoff |-> cutoff, fresh |-> f, hand |-> h, tries |-> 0,
                      candidate |-> NoCandidate, todo |-> {}]
    OBVIOUS
  <2>8. j \in DmJobs
    BY <2>1, <2>4, <2>6, <2>7 DEF DmJobs
  <2> QED BY <2>4, <2>5, <2>7, <2>8
<1>f2. /\ dmRuns \in Nat /\ \A x \in RunsOf(dmState.runs) : x \in Nat
  <2>1. dmState.runs \in Seq(DmRunIds) /\ dmRuns \in Nat
    BY <1>1, DmAssumption DEF DmTypes, DmStates
  <2> QED BY <2>1, DmRunsIn DEF DmRunIds
<1>3. LmInv' /\ DmPrimary' /\ lmRecord' = lmRecord
  <2>1. UNCHANGED lmKept
    BY DEF Begins
  <2> QED BY <1>1, <2>1, DmMemoryKept
<1>4. DmTypes'
  BY <1>1, <1>2, <1>f1, <1>f2, DmAssumption DEF DmTypes, Marked, Committing, BeforeState,
     BeforeMem, Rolling
<1>w. dmRuns + 1 \in DmRunIds /\ dmGw[dmRuns + 1] # "succeeded" /\ dmGw' = [dmGw EXCEPT ![dmRuns + 1] = "running"]
  BY <1>1, <1>2, <1>f1, <1>f2, DmAssumption DEF DmGws, DmPlace, DmTypes, DmRunIds, Marked, Committing, BeforeState,
     BeforeMem, Rolling
<1>g. DmGws' /\ Won \subseteq Won'
  <2>1. /\ dmGw' \in [DmRunIds -> GwStatus] /\ dmGw'[dmRuns + 1] = "running"
        /\ \A r \in DmRunIds : r # dmRuns + 1 => dmGw'[r] = dmGw[r]
        /\ Won \subseteq Won'
    BY <1>1, <1>w, DmGwMoves DEF DmGws, GwStatus
  <2> QED BY <1>1, <1>1, <1>2, <1>f1, <1>f2, <2>1, DmAssumption DEF DmGws, DmTypes, DmPlace, DmRunIds, Marked, Committing, BeforeState,
     BeforeMem, Rolling
<1>5. DmPlace'
  BY <1>1, <1>2, <1>f1, <1>f2, <1>4, <1>g, DmAssumption DEF DmTypes, DmRunIds,
     DmPlace, Valid, Marked, Committing, BeforeState,
     BeforeMem, Rolling
<1>6. DmOrder'
  BY <1>1, <1>2, <1>f1, <1>f2, <1>4, <1>g, DmAssumption DEF DmTypes, DmRunIds,
     DmOrder, DmPlace, Marked, Committing, BeforeState,
     BeforeMem, Rolling
<1>7. DmChain'
  BY <1>1, <1>2, <1>f1, <1>f2, <1>4, <1>g, DmAssumption DEF DmTypes, DmRunIds,
     DmChain, DmPlace, Marked, Committing, BeforeState,
     BeforeMem, Rolling
<1>8. DmFiles'
  <2> SUFFICES ASSUME dmHurt' \subseteq {"died_in_commit", "failed_commit"} PROVE DmFiles'
    BY DEF DmFiles
  <2>1. dmHurt \subseteq {"died_in_commit", "failed_commit"}
    BY <1>2
  <2>2. \A r \in DmRunIds : \A snap \in dmBackup[r] : Entries(snap.mem, snap.state, snap.prof, Won')
    BY <1>1, <1>g, <2>1, DmEntriesGrow DEF DmFiles
  <2>3. EntriesNow'
    <3>1. EntriesNow
      BY <1>1, <1>2, <2>1 DEF DmFiles
    <3> QED BY <1>2, <1>f1, <1>f2, <1>g, <3>1 DEF EntriesNow, Entries, Drawn
  <2> QED BY <1>2, <2>2, <2>3 DEF DmFiles
<1>9. DmFeeds'
  BY <1>1, <1>2, <1>f1, <1>f2, <1>4, <1>g, DmAssumption DEF DmTypes, DmRunIds,
     DmFeeds, DmPlace, Marked, Committing, BeforeState,
     BeforeMem, Rolling
<1>10. DmFacts'
  BY <1>1, <1>2, <1>f1, <1>f2, <1>4, <1>g, DmAssumption, <1>3 DEF DmTypes, DmRunIds,
     DmFacts, DmPlace, Wrote, Marked, Committing, BeforeState,
     BeforeMem, Rolling
<1> QED BY <1>3, <1>4, <1>5, <1>6, <1>7, <1>8, <1>9, <1>10, <1>g DEF DmInv

LEMMA DmPrepareKeeps == DmInv /\ (\E c \in DmCandidates : Prepare(c)) => DmInv'
<1> SUFFICES ASSUME DmInv, (\E c \in DmCandidates : Prepare(c)) PROVE DmInv'
  OBVIOUS
<1>1. /\ DmTypes /\ DmGws /\ DmPlace /\ DmOrder /\ DmChain
      /\ DmFiles /\ DmFeeds /\ DmFacts /\ DmPrimary /\ LmInv
  BY DEF DmInv
<1>2. /\ dmPc = "model"
      /\ UNCHANGED << dmState, dmMem, dmProf, dmFed, dmHurt, dmHand, dmDay, dmRuns, dmGw >>
      /\ dmPc' = "facts"
      /\ dmTxn' = dmTxn \cup {dmJob.run}
      /\ dmBackup' = [dmBackup EXCEPT ![dmJob.run] = {Snapshot}]
  BY DEF Prepare, DmRest, DmIdle, dmFiles, dmBounds, dmVars, DmFault, Rolling
<1>f1. /\ dmJob' \in DmJobs /\ dmJob'.run = dmJob.run /\ Valid(dmJob'.candidate)
       /\ dmJob'.todo = dmJob'.candidate.facts
  <2>1. PICK c \in DmCandidates : dmJob' = [dmJob EXCEPT !.candidate = c, !.todo = c.facts] /\ Valid(c)
    BY DEF Prepare
  <2>2. c \in DmCands /\ c.facts \in SUBSET LmIds
    <3>1. CASE c = NoCandidate
      BY <3>1 DEF DmCands, NoCandidate
    <3>2. CASE c \in [op : {"insert"}, facts : {s \in SUBSET LmIds : s # {}}, old : {<<>>}]
      BY <3>2 DEF DmCands
    <3>3. CASE c \in [op : {"update", "supersede"}, facts : {{f} : f \in LmIds}, old : {m.id : m \in dmMem}]
      <4>1. PICK f \in LmIds, m \in dmMem : c.facts = {f} /\ c.old = m.id /\ c.op \in {"update", "supersede"}
        BY <3>3
      <4>2. m.id \in DmIds
        BY <1>1, <4>1 DEF DmTypes, DmEntries
      <4>3. c.facts \in {s \in SUBSET LmIds : s # {}} /\ c.old \in DmIds \cup {<<>>}
        BY <4>1, <4>2
      <4>4. c = [op |-> c.op, facts |-> c.facts, old |-> c.old]
        BY <3>3
      <4>5. c \in [op : {"insert", "update", "supersede"}, facts : {s \in SUBSET LmIds : s # {}}, old : DmIds \cup {<< >>}]
        BY <4>1, <4>3, <4>4
      <4> QED BY <4>3, <4>5 DEF DmCands
    <3> QED BY <2>1, <3>1, <3>2, <3>3 DEF DmCandidates
  <2>3. dmJob \in DmJobs
    BY <1>1 DEF DmTypes
  <2>4. /\ dmJob' \in DmJobs /\ dmJob'.run = dmJob.run /\ dmJob'.candidate = c
        /\ dmJob'.todo = c.facts
    BY <2>1, <2>2, <2>3 DEF DmJobs
  <2> QED BY <2>1, <2>4
<1>f2. dmJob.run = dmRuns /\ dmJob.run \in DmRunIds
  BY <1>1, <1>2, DmAssumption DEF DmPlace, DmTypes, DmRunIds
<1>f3. PICK snap \in DmSnaps : snap = Snapshot /\ snap.state = dmState /\ snap.mem = dmMem /\ snap.prof = dmProf
  <2>1. PICK s, m, p : /\ s = dmState /\ m = dmMem /\ p = dmProf
                       /\ s \in DmStates /\ m \in SUBSET DmEntries /\ p \in DmProfs
    BY <1>1 DEF DmTypes
  <2>2. PICK snap : snap = [state |-> s, mem |-> m, prof |-> p]
    OBVIOUS
  <2>3. snap \in DmSnaps /\ snap.state = s /\ snap.mem = m /\ snap.prof = p
    BY <2>1, <2>2 DEF DmSnaps
  <2> QED BY <2>1, <2>2, <2>3 DEF Snapshot
<1>f4. /\ dmBackup' \in [DmRunIds -> SUBSET DmSnaps] /\ dmBackup'[dmJob.run] = {snap}
       /\ \A r \in DmRunIds : r # dmJob.run => dmBackup'[r] = dmBackup[r]
  BY <1>1, <1>2, <1>f2, <1>f3 DEF DmTypes
<1>3. LmInv' /\ DmPrimary' /\ lmRecord' = lmRecord
  <2>1. UNCHANGED lmKept
    BY DEF Prepare
  <2> QED BY <1>1, <2>1, DmMemoryKept
<1>4. DmTypes'
  BY <1>1, <1>2, <1>f1, <1>f2, <1>f3, <1>f4, DmAssumption DEF DmTypes, Marked, Committing, BeforeState,
     BeforeMem, Rolling
<1>g. DmGws' /\ Won' = Won /\ Won \subseteq Won'
  BY <1>1, <1>2, <1>f1, <1>f2, <1>f3, <1>f4 DEF DmGws, Won, DmPlace, Marked, Committing, BeforeState,
     BeforeMem, Rolling
<1>5. DmPlace'
  <2>1. Valid(dmJob.candidate)'
    BY <1>2, <1>f1 DEF Valid
  <2> QED BY <1>1, <1>2, <1>f1, <1>f2, <1>f4, <1>f3, <2>1, DmAssumption DEF DmTypes, DmPlace, Marked, Committing, BeforeState,
     BeforeMem, Rolling
<1>6. DmOrder'
  BY <1>1, <1>2, <1>f1, <1>f2, <1>f3, <1>f4, <1>4, <1>g, DmAssumption DEF DmTypes, DmRunIds,
     DmOrder, DmPlace, Marked, Committing, BeforeState,
     BeforeMem, Rolling
<1>7. DmChain'
  <2>1. \A runs \in Seq(DmRunIds) : (Linked(runs, dmBackup) /\ \A x \in RunsOf(runs) : x < dmJob.run) => Linked(runs, dmBackup')
    <3> SUFFICES ASSUME NEW runs \in Seq(DmRunIds), Linked(runs, dmBackup), \A x \in RunsOf(runs) : x < dmJob.run,
                        Len(runs) # 0
                 PROVE  \A snp \in dmBackup'[runs[Len(runs)]] :
                          RunsOf(runs) = RunsOf(snp.state.runs) \cup {runs[Len(runs)]}
      BY DEF Linked
    <3>1. runs[Len(runs)] \in DmRunIds /\ runs[Len(runs)] # dmJob.run
      BY <1>f2, DmRunsIn DEF DmRunIds
    <3> QED BY <1>f4, <3>1 DEF Linked
  <2>2. dmState.runs \in Seq(DmRunIds) /\ \A x \in RunsOf(dmState.runs) : x < dmJob.run
    BY <1>1, <1>2, <1>f2 DEF DmTypes, DmStates, DmOrder
  <2>3. Linked(dmState.runs, dmBackup')
    BY <1>1, <2>1, <2>2 DEF DmChain
  <2>4. ASSUME NEW r \in DmRunIds, NEW snp \in dmBackup[r]
        PROVE  Linked(snp.state.runs, dmBackup')
    <3>1. snp.state.runs \in Seq(DmRunIds) /\ Linked(snp.state.runs, dmBackup)
      BY <1>1, DmSnapFields DEF DmTypes, DmChain
    <3>2. r <= dmJob.run /\ \A x \in RunsOf(snp.state.runs) : x < r
      BY <1>1, <1>f2 DEF DmOrder
    <3>3. \A x \in RunsOf(snp.state.runs) : x < dmJob.run
      BY <1>f2, <3>1, <3>2, DmRunsIn DEF DmRunIds
    <3> QED BY <2>1, <3>1, <3>3
  <2>5. ASSUME NEW r \in DmRunIds, NEW snp \in dmBackup'[r] PROVE Linked(snp.state.runs, dmBackup')
    BY <1>f3, <1>f4, <2>3, <2>4, <2>5
  <2> QED BY <1>2, <2>3, <2>5 DEF DmChain
<1>8. DmFiles'
  <2> SUFFICES ASSUME dmHurt \subseteq {"died_in_commit", "failed_commit"} PROVE DmFiles'
    BY <1>2 DEF DmFiles
  <2>1. EntriesNow
    BY <1>1, <1>2 DEF DmFiles
  <2>2. Entries(snap.mem, snap.state, snap.prof, Won)
    BY <1>f3, <2>1 DEF EntriesNow
  <2>3. ASSUME NEW r \in DmRunIds, NEW snp \in dmBackup'[r]
        PROVE  Entries(snp.mem, snp.state, snp.prof, Won)
    BY <1>1, <1>f4, <2>2, <2>3 DEF DmFiles
  <2> QED BY <1>2, <1>g, <2>1, <2>3 DEF DmFiles, EntriesNow
<1>9. DmFeeds'
  BY <1>1, <1>2, <1>f1, <1>f2, <1>f3, <1>f4, <1>4, <1>g, DmAssumption DEF DmTypes, DmRunIds,
     DmFeeds, DmPlace, Marked, Committing, BeforeState,
     BeforeMem, Rolling
<1>10. DmFacts'
  BY <1>1, <1>2, <1>f1, <1>f2, <1>f3, <1>f4, <1>4, <1>g, DmAssumption, <1>3 DEF DmTypes, DmRunIds,
     DmFacts, DmPlace, Wrote, Marked, Committing, BeforeState,
     BeforeMem, Rolling
<1> QED BY <1>3, <1>4, <1>5, <1>6, <1>7, <1>8, <1>9, <1>10, <1>g DEF DmInv

LEMMA DmInvalidKeeps == DmInv /\ AnswerInvalid => DmInv'
<1> SUFFICES ASSUME DmInv, AnswerInvalid PROVE DmInv'
  OBVIOUS
<1>1. /\ DmTypes /\ DmGws /\ DmPlace /\ DmOrder /\ DmChain
      /\ DmFiles /\ DmFeeds /\ DmFacts /\ DmPrimary /\ LmInv
  BY DEF DmInv
<1>2. /\ dmPc = "model"
      /\ UNCHANGED << dmMem, dmProf, dmBackup, dmFed, dmHurt, dmRuns, dmHand >>
      /\ UNCHANGED << dmState, dmPc, dmTxn, dmDay, dmGw >>
  BY DEF AnswerInvalid, DmRest, DmIdle, dmFiles, dmBounds, dmVars, DmFault, Rolling
<1>f1. dmJob' \in DmJobs /\ dmJob'.run = dmJob.run
  <2>1. PICK t \in 0..2 : dmJob' = [dmJob EXCEPT !.tries = t]
    BY <1>1 DEF AnswerInvalid, DmTypes, DmJobs
  <2> QED BY <1>1, <2>1 DEF DmTypes, DmJobs
<1>3. LmInv' /\ DmPrimary' /\ lmRecord' = lmRecord
  <2>1. UNCHANGED lmKept
    BY DEF AnswerInvalid
  <2> QED BY <1>1, <2>1, DmMemoryKept
<1>4. DmTypes'
  BY <1>1, <1>2, <1>f1, DmAssumption DEF DmTypes, Marked, Committing, BeforeState,
     BeforeMem, Rolling
<1>g. DmGws' /\ Won' = Won /\ Won \subseteq Won'
  BY <1>1, <1>2, <1>f1 DEF DmGws, Won, DmPlace, Marked, Committing, BeforeState,
     BeforeMem, Rolling
<1>5. DmPlace'
  BY <1>1, <1>2, <1>f1, <1>4, <1>g, DmAssumption DEF DmTypes, DmRunIds,
     DmPlace, Valid, Marked, Committing, BeforeState,
     BeforeMem, Rolling
<1>6. DmOrder'
  BY <1>1, <1>2, <1>f1, <1>4, <1>g, DmAssumption DEF DmTypes, DmRunIds,
     DmOrder, DmPlace, Marked, Committing, BeforeState,
     BeforeMem, Rolling
<1>7. DmChain'
  BY <1>1, <1>2, <1>f1, <1>4, <1>g, DmAssumption DEF DmTypes, DmRunIds,
     DmChain, DmPlace, Marked, Committing, BeforeState,
     BeforeMem, Rolling
<1>8. DmFiles'
  BY <1>1, <1>2, <1>f1, <1>4, <1>g, DmAssumption DEF DmTypes, DmRunIds,
     DmFiles, DmPlace, EntriesNow, Entries, Marked, Committing, BeforeState,
     BeforeMem, Rolling
<1>9. DmFeeds'
  BY <1>1, <1>2, <1>f1, <1>4, <1>g, DmAssumption DEF DmTypes, DmRunIds,
     DmFeeds, DmPlace, Marked, Committing, BeforeState,
     BeforeMem, Rolling
<1>10. DmFacts'
  BY <1>1, <1>2, <1>f1, <1>4, <1>g, DmAssumption, <1>3 DEF DmTypes, DmRunIds,
     DmFacts, DmPlace, Wrote, Marked, Committing, BeforeState,
     BeforeMem, Rolling
<1> QED BY <1>3, <1>4, <1>5, <1>6, <1>7, <1>8, <1>9, <1>10, <1>g DEF DmInv

LEMMA DmFailedKeeps == DmInv /\ (dmPc = "model" /\ DreamFailed) => DmInv'
<1> SUFFICES ASSUME DmInv, (dmPc = "model" /\ DreamFailed) PROVE DmInv'
  OBVIOUS
<1>1. /\ DmTypes /\ DmGws /\ DmPlace /\ DmOrder /\ DmChain
      /\ DmFiles /\ DmFeeds /\ DmFacts /\ DmPrimary /\ LmInv
  BY DEF DmInv
<1>2. /\ dmPc = "model"
      /\ dmPc' = "idle"
      /\ dmJob' = NoDream
      /\ UNCHANGED << dmMem, dmProf, dmBackup, dmFed, dmHurt, dmRuns, dmHand >>
      /\ UNCHANGED << dmTxn, dmDay >>
      /\ dmGw' = [dmGw EXCEPT ![dmJob.run] = "failed"]
  BY DEF DreamFailed, DmRest, DmIdle, dmFiles, dmBounds, dmVars, DmFault, Rolling
<1>f1. dmJob' = NoDream /\ dmJob' \in DmJobs
  <2>1. NoCandidate \in DmCands
    BY DEF DmCands
  <2> QED BY <1>2, <2>1, DmAssumption DEF NoDream, DmJobs
<1>f2. dmState' \in DmStates /\ dmState'.done = dmState.done /\ dmState'.runs = dmState.runs
  <2>1. PICK a \in Int : dmState' = [dmState EXCEPT !.status = "failed", !.attempted = a]
    BY <1>1 DEF DreamFailed, FailedState, DmTypes, DmJobs
  <2> QED BY <1>1, <2>1 DEF DmTypes, DmStates, DmStatus
<1>3. LmInv' /\ DmPrimary' /\ lmRecord' = lmRecord
  <2>1. UNCHANGED lmKept
    BY DEF DreamFailed
  <2> QED BY <1>1, <2>1, DmMemoryKept
<1>4. DmTypes'
  BY <1>1, <1>2, <1>f1, <1>f2, DmAssumption DEF DmTypes, Marked, Committing, BeforeState,
     BeforeMem, Rolling
<1>w. dmJob.run \in DmRunIds /\ dmGw[dmJob.run] # "succeeded" /\ dmGw' = [dmGw EXCEPT ![dmJob.run] = "failed"]
  BY <1>1, <1>2, DmAssumption DEF DmGws, DmPlace, DmTypes, DmRunIds, Marked, Committing, BeforeState,
     BeforeMem, Rolling
<1>g. DmGws' /\ Won \subseteq Won'
  <2>1. /\ dmGw' \in [DmRunIds -> GwStatus] /\ dmGw'[dmJob.run] = "failed"
        /\ \A r \in DmRunIds : r # dmJob.run => dmGw'[r] = dmGw[r]
        /\ Won \subseteq Won'
    BY <1>1, <1>w, DmGwMoves DEF DmGws, GwStatus
  <2> QED BY <1>1, <1>1, <1>2, <2>1, DmAssumption DEF DmGws, DmTypes, DmPlace, DmRunIds, Marked, Committing, BeforeState,
     BeforeMem, Rolling
<1>5. DmPlace'
  BY <1>1, <1>2, <1>f1, <1>f2, <1>4, <1>g, DmAssumption DEF DmTypes, DmRunIds,
     DmPlace, Valid, Marked, Committing, BeforeState,
     BeforeMem, Rolling
<1>6. DmOrder'
  BY <1>1, <1>2, <1>f1, <1>f2, <1>4, <1>g, DmAssumption DEF DmTypes, DmRunIds,
     DmOrder, DmPlace, Marked, Committing, BeforeState,
     BeforeMem, Rolling
<1>7. DmChain'
  BY <1>1, <1>2, <1>f1, <1>f2, <1>4, <1>g, DmAssumption DEF DmTypes, DmRunIds,
     DmChain, DmPlace, Marked, Committing, BeforeState,
     BeforeMem, Rolling
<1>8. DmFiles'
  <2> SUFFICES ASSUME dmHurt' \subseteq {"died_in_commit", "failed_commit"} PROVE DmFiles'
    BY DEF DmFiles
  <2>1. dmHurt \subseteq {"died_in_commit", "failed_commit"}
    BY <1>2
  <2>2. \A r \in DmRunIds : \A snap \in dmBackup[r] : Entries(snap.mem, snap.state, snap.prof, Won')
    BY <1>1, <1>g, <2>1, DmEntriesGrow DEF DmFiles
  <2>3. EntriesNow'
    <3>1. EntriesNow
      BY <1>1, <1>2, <2>1 DEF DmFiles
    <3> QED BY <1>2, <1>f1, <1>f2, <1>g, <3>1 DEF EntriesNow, Entries, Drawn
  <2> QED BY <1>2, <2>2, <2>3 DEF DmFiles
<1>9. DmFeeds'
  BY <1>1, <1>2, <1>f1, <1>f2, <1>4, <1>g, DmAssumption DEF DmTypes, DmRunIds,
     DmFeeds, DmPlace, Marked, Committing, BeforeState,
     BeforeMem, Rolling
<1>10. DmFacts'
  BY <1>1, <1>2, <1>f1, <1>f2, <1>4, <1>g, DmAssumption, <1>3 DEF DmTypes, DmRunIds,
     DmFacts, DmPlace, Wrote, Marked, Committing, BeforeState,
     BeforeMem, Rolling
<1> QED BY <1>3, <1>4, <1>5, <1>6, <1>7, <1>8, <1>9, <1>10, <1>g DEF DmInv

LEMMA DmPauseKeeps == DmInv /\ Pause => DmInv'
<1> SUFFICES ASSUME DmInv, Pause PROVE DmInv'
  OBVIOUS
<1>1. /\ DmTypes /\ DmGws /\ DmPlace /\ DmOrder /\ DmChain
      /\ DmFiles /\ DmFeeds /\ DmFacts /\ DmPrimary /\ LmInv
  BY DEF DmInv
<1>2. /\ dmPc \in {"idle", "model"}
      /\ dmPc' = "idle"
      /\ dmJob' = NoDream
      /\ UNCHANGED << dmMem, dmProf, dmBackup, dmFed, dmHurt, dmRuns, dmHand >>
      /\ UNCHANGED << dmState, dmTxn, dmDay >>
      /\ dmGw' = IF dmPc = "model" THEN [dmGw EXCEPT ![dmJob.run] = "cancelled"] ELSE dmGw
  BY DEF Pause, DmRest, DmIdle, dmFiles, dmBounds, dmVars, DmFault, Rolling
<1>f1. dmJob' = NoDream /\ dmJob' \in DmJobs
  <2>1. NoCandidate \in DmCands
    BY DEF DmCands
  <2> QED BY <1>2, <2>1, DmAssumption DEF NoDream, DmJobs
<1>3. LmInv' /\ DmPrimary' /\ lmRecord' = lmRecord
  <2>1. UNCHANGED lmKept
    BY DEF Pause
  <2> QED BY <1>1, <2>1, DmMemoryKept
<1>4. DmTypes'
  BY <1>1, <1>2, <1>f1, DmAssumption DEF DmTypes, Marked, Committing, BeforeState,
     BeforeMem, Rolling
<1>g. DmGws' /\ Won \subseteq Won'
  <2>1. CASE dmPc = "idle"
    <3>1. dmGw' = dmGw
      BY <1>2, <2>1
    <3> QED BY <1>1, <1>2, <3>1 DEF DmGws, Won, Marked, Committing, BeforeState,
     BeforeMem, Rolling
  <2>2. CASE dmPc = "model"
    <3>1. dmJob.run \in DmRunIds /\ dmGw[dmJob.run] = "running" /\ dmJob.run = dmRuns
      BY <1>1, <2>2, DmAssumption DEF DmGws, DmPlace, DmTypes, DmRunIds
    <3>2. /\ dmGw' \in [DmRunIds -> GwStatus] /\ \A r \in DmRunIds : r # dmJob.run => dmGw'[r] = dmGw[r]
          /\ Won \subseteq Won'
      BY <1>1, <1>2, <2>2, <3>1, DmGwMoves DEF DmGws, GwStatus
    <3> QED BY <1>1, <1>2, <3>1, <3>2, DmAssumption DEF DmGws, DmTypes, DmRunIds, Marked, Committing, BeforeState,
     BeforeMem, Rolling
  <2> QED BY <1>2, <2>1, <2>2
<1>5. DmPlace'
  BY <1>1, <1>2, <1>f1, <1>4, <1>g, DmAssumption DEF DmTypes, DmRunIds,
     DmPlace, Valid, Marked, Committing, BeforeState,
     BeforeMem, Rolling
<1>6. DmOrder'
  BY <1>1, <1>2, <1>f1, <1>4, <1>g, DmAssumption DEF DmTypes, DmRunIds,
     DmOrder, DmPlace, Marked, Committing, BeforeState,
     BeforeMem, Rolling
<1>7. DmChain'
  BY <1>1, <1>2, <1>f1, <1>4, <1>g, DmAssumption DEF DmTypes, DmRunIds,
     DmChain, DmPlace, Marked, Committing, BeforeState,
     BeforeMem, Rolling
<1>8. DmFiles'
  <2> SUFFICES ASSUME dmHurt' \subseteq {"died_in_commit", "failed_commit"} PROVE DmFiles'
    BY DEF DmFiles
  <2>1. dmHurt \subseteq {"died_in_commit", "failed_commit"}
    BY <1>2
  <2>2. \A r \in DmRunIds : \A snap \in dmBackup[r] : Entries(snap.mem, snap.state, snap.prof, Won')
    BY <1>1, <1>g, <2>1, DmEntriesGrow DEF DmFiles
  <2>3. EntriesNow'
    <3>1. EntriesNow
      BY <1>1, <1>2, <2>1 DEF DmFiles
    <3> QED BY <1>2, <1>f1, <1>g, <3>1 DEF EntriesNow, Entries, Drawn
  <2> QED BY <1>2, <2>2, <2>3 DEF DmFiles
<1>9. DmFeeds'
  BY <1>1, <1>2, <1>f1, <1>4, <1>g, DmAssumption DEF DmTypes, DmRunIds,
     DmFeeds, DmPlace, Marked, Committing, BeforeState,
     BeforeMem, Rolling
<1>10. DmFacts'
  BY <1>1, <1>2, <1>f1, <1>4, <1>g, DmAssumption, <1>3 DEF DmTypes, DmRunIds,
     DmFacts, DmPlace, Wrote, Marked, Committing, BeforeState,
     BeforeMem, Rolling
<1> QED BY <1>3, <1>4, <1>5, <1>6, <1>7, <1>8, <1>9, <1>10, <1>g DEF DmInv

LEMMA DmResumeKeeps == DmInv /\ DreamResume => DmInv'
<1> SUFFICES ASSUME DmInv, DreamResume PROVE DmInv'
  OBVIOUS
<1>1. /\ DmTypes /\ DmGws /\ DmPlace /\ DmOrder /\ DmChain
      /\ DmFiles /\ DmFeeds /\ DmFacts /\ DmPrimary /\ LmInv
  BY DEF DmInv
<1>2. /\ UNCHANGED << dmMem, dmProf, dmBackup, dmFed, dmHurt, dmRuns, dmHand >>
      /\ UNCHANGED << dmState, dmTxn, dmDay, dmPc, dmJob, dmGw >>
  BY DEF DreamResume, DmRest, DmIdle, dmFiles, dmBounds, dmVars, DmFault, Rolling
<1>f1. NewMem' = NewMem
  BY <1>2 DEF NewMem
<1>3. LmInv' /\ DmPrimary' /\ lmRecord' = lmRecord
  <2>1. UNCHANGED lmKept
    BY DEF DreamResume
  <2> QED BY <1>1, <2>1, DmMemoryKept
<1>4. DmTypes'
  BY <1>1, <1>2, <1>f1, DmAssumption DEF DmTypes, Marked, Committing, BeforeState,
     BeforeMem, Rolling
<1>g. DmGws' /\ Won' = Won /\ Won \subseteq Won'
  BY <1>1, <1>2, <1>f1 DEF DmGws, Won, DmPlace, Marked, Committing, BeforeState,
     BeforeMem, Rolling
<1>5. DmPlace'
  BY <1>1, <1>2, <1>f1, <1>4, <1>g, DmAssumption DEF DmTypes, DmRunIds,
     DmPlace, Valid, Marked, Committing, BeforeState,
     BeforeMem, Rolling
<1>6. DmOrder'
  BY <1>1, <1>2, <1>f1, <1>4, <1>g, DmAssumption DEF DmTypes, DmRunIds,
     DmOrder, DmPlace, Marked, Committing, BeforeState,
     BeforeMem, Rolling
<1>7. DmChain'
  BY <1>1, <1>2, <1>f1, <1>4, <1>g, DmAssumption DEF DmTypes, DmRunIds,
     DmChain, DmPlace, Marked, Committing, BeforeState,
     BeforeMem, Rolling
<1>8. DmFiles'
  BY <1>1, <1>2, <1>f1, <1>4, <1>g, DmAssumption DEF DmTypes, DmRunIds,
     DmFiles, DmPlace, EntriesNow, Entries, Marked, Committing, BeforeState,
     BeforeMem, Rolling
<1>9. DmFeeds'
  BY <1>1, <1>2, <1>f1, <1>4, <1>g, DmAssumption DEF DmTypes, DmRunIds,
     DmFeeds, DmPlace, Marked, Committing, BeforeState,
     BeforeMem, Rolling
<1>10. DmFacts'
  BY <1>1, <1>2, <1>f1, <1>4, <1>g, DmAssumption, <1>3 DEF DmTypes, DmRunIds,
     DmFacts, DmPlace, Wrote, Marked, Committing, BeforeState,
     BeforeMem, Rolling
<1> QED BY <1>3, <1>4, <1>5, <1>6, <1>7, <1>8, <1>9, <1>10, <1>g DEF DmInv

LEMMA DmSaysKeeps == DmInv /\ (\E e \in DmEvidence : Says(e)) => DmInv'
<1> SUFFICES ASSUME DmInv, (\E e \in DmEvidence : Says(e)) PROVE DmInv'
  OBVIOUS
<1>1. /\ DmTypes /\ DmGws /\ DmPlace /\ DmOrder /\ DmChain
      /\ DmFiles /\ DmFeeds /\ DmFacts /\ DmPrimary /\ LmInv
  BY DEF DmInv
<1>2. /\ UNCHANGED << dmMem, dmProf, dmBackup, dmFed, dmHurt, dmRuns, dmHand >>
      /\ UNCHANGED << dmState, dmTxn, dmDay, dmPc, dmJob, dmGw >>
  BY DEF Says, DmRest, DmIdle, dmFiles, dmBounds, dmVars, DmFault, Rolling
<1>f1. NewMem' = NewMem
  BY <1>2 DEF NewMem
<1>3. LmInv' /\ DmPrimary' /\ lmRecord' = lmRecord
  <2>1. UNCHANGED lmKept
    BY DEF Says
  <2> QED BY <1>1, <2>1, DmMemoryKept
<1>4. DmTypes'
  BY <1>1, <1>2, <1>f1, DmAssumption DEF DmTypes, Marked, Committing, BeforeState,
     BeforeMem, Rolling
<1>g. DmGws' /\ Won' = Won /\ Won \subseteq Won'
  BY <1>1, <1>2, <1>f1 DEF DmGws, Won, DmPlace, Marked, Committing, BeforeState,
     BeforeMem, Rolling
<1>5. DmPlace'
  BY <1>1, <1>2, <1>f1, <1>4, <1>g, DmAssumption DEF DmTypes, DmRunIds,
     DmPlace, Valid, Marked, Committing, BeforeState,
     BeforeMem, Rolling
<1>6. DmOrder'
  BY <1>1, <1>2, <1>f1, <1>4, <1>g, DmAssumption DEF DmTypes, DmRunIds,
     DmOrder, DmPlace, Marked, Committing, BeforeState,
     BeforeMem, Rolling
<1>7. DmChain'
  BY <1>1, <1>2, <1>f1, <1>4, <1>g, DmAssumption DEF DmTypes, DmRunIds,
     DmChain, DmPlace, Marked, Committing, BeforeState,
     BeforeMem, Rolling
<1>8. DmFiles'
  BY <1>1, <1>2, <1>f1, <1>4, <1>g, DmAssumption DEF DmTypes, DmRunIds,
     DmFiles, DmPlace, EntriesNow, Entries, Marked, Committing, BeforeState,
     BeforeMem, Rolling
<1>9. DmFeeds'
  BY <1>1, <1>2, <1>f1, <1>4, <1>g, DmAssumption DEF DmTypes, DmRunIds,
     DmFeeds, DmPlace, Marked, Committing, BeforeState,
     BeforeMem, Rolling
<1>10. DmFacts'
  BY <1>1, <1>2, <1>f1, <1>4, <1>g, DmAssumption, <1>3 DEF DmTypes, DmRunIds,
     DmFacts, DmPlace, Wrote, Marked, Committing, BeforeState,
     BeforeMem, Rolling
<1> QED BY <1>3, <1>4, <1>5, <1>6, <1>7, <1>8, <1>9, <1>10, <1>g DEF DmInv

LEMMA DmNextDayKeeps == DmInv /\ NextDay => DmInv'
<1> SUFFICES ASSUME DmInv, NextDay PROVE DmInv'
  OBVIOUS
<1>1. /\ DmTypes /\ DmGws /\ DmPlace /\ DmOrder /\ DmChain
      /\ DmFiles /\ DmFeeds /\ DmFacts /\ DmPrimary /\ LmInv
  BY DEF DmInv
<1>2. /\ UNCHANGED << dmMem, dmProf, dmBackup, dmFed, dmHurt, dmRuns, dmHand >>
      /\ UNCHANGED << dmState, dmTxn, dmPc, dmJob, dmGw >>
      /\ dmDay' = dmDay + 1
  BY DEF NextDay, DmRest, DmIdle, dmFiles, dmBounds, dmVars, DmFault, Rolling
<1>f1. NewMem' = NewMem
  BY <1>2 DEF NewMem
<1>3. LmInv' /\ DmPrimary' /\ lmRecord' = lmRecord
  <2>1. UNCHANGED lmKept
    BY DEF NextDay
  <2> QED BY <1>1, <2>1, DmMemoryKept
<1>4. DmTypes'
  BY <1>1, <1>2, <1>f1, DmAssumption DEF DmTypes, Marked, Committing, BeforeState,
     BeforeMem, Rolling
<1>g. DmGws' /\ Won' = Won /\ Won \subseteq Won'
  BY <1>1, <1>2, <1>f1 DEF DmGws, Won, DmPlace, Marked, Committing, BeforeState,
     BeforeMem, Rolling
<1>5. DmPlace'
  BY <1>1, <1>2, <1>f1, <1>4, <1>g, DmAssumption DEF DmTypes, DmRunIds,
     DmPlace, Valid, Marked, Committing, BeforeState,
     BeforeMem, Rolling
<1>6. DmOrder'
  BY <1>1, <1>2, <1>f1, <1>4, <1>g, DmAssumption DEF DmTypes, DmRunIds,
     DmOrder, DmPlace, Marked, Committing, BeforeState,
     BeforeMem, Rolling
<1>7. DmChain'
  BY <1>1, <1>2, <1>f1, <1>4, <1>g, DmAssumption DEF DmTypes, DmRunIds,
     DmChain, DmPlace, Marked, Committing, BeforeState,
     BeforeMem, Rolling
<1>8. DmFiles'
  BY <1>1, <1>2, <1>f1, <1>4, <1>g, DmAssumption DEF DmTypes, DmRunIds,
     DmFiles, DmPlace, EntriesNow, Entries, Marked, Committing, BeforeState,
     BeforeMem, Rolling
<1>9. DmFeeds'
  BY <1>1, <1>2, <1>f1, <1>4, <1>g, DmAssumption DEF DmTypes, DmRunIds,
     DmFeeds, DmPlace, Marked, Committing, BeforeState,
     BeforeMem, Rolling
<1>10. DmFacts'
  BY <1>1, <1>2, <1>f1, <1>4, <1>g, DmAssumption, <1>3 DEF DmTypes, DmRunIds,
     DmFacts, DmPlace, Wrote, Marked, Committing, BeforeState,
     BeforeMem, Rolling
<1> QED BY <1>3, <1>4, <1>5, <1>6, <1>7, <1>8, <1>9, <1>10, <1>g DEF DmInv

LEMMA DmEditsKeeps == DmInv /\ EditsProfile => DmInv'
<1> SUFFICES ASSUME DmInv, EditsProfile PROVE DmInv'
  OBVIOUS
<1>1. /\ DmTypes /\ DmGws /\ DmPlace /\ DmOrder /\ DmChain
      /\ DmFiles /\ DmFeeds /\ DmFacts /\ DmPrimary /\ LmInv
  BY DEF DmInv
<1>2. /\ UNCHANGED << dmState, dmMem, dmBackup, dmFed, dmHurt, dmRuns, dmTxn, dmPc, dmJob, dmDay, dmGw >>
      /\ dmHand' = dmHand + 1
  BY DEF EditsProfile, DmRest, DmIdle, dmFiles, dmBounds, dmVars, DmFault, Rolling
<1>f1. dmProf' \in DmProfs /\ dmProf'.managed = dmProf.managed
  <2>1. PICK h \in Nat : dmProf' = [dmProf EXCEPT !.hand = h]
    BY <1>1 DEF EditsProfile, DmTypes
  <2> QED BY <1>1, <2>1 DEF DmTypes, DmProfs
<1>f2. NewMem' = NewMem
  BY <1>2 DEF NewMem
<1>3. LmInv' /\ DmPrimary' /\ lmRecord' = lmRecord
  <2>1. UNCHANGED lmKept
    BY DEF EditsProfile
  <2> QED BY <1>1, <2>1, DmMemoryKept
<1>4. DmTypes'
  BY <1>1, <1>2, <1>f1, <1>f2, DmAssumption DEF DmTypes, Marked, Committing, BeforeState,
     BeforeMem, Rolling
<1>g. DmGws' /\ Won' = Won /\ Won \subseteq Won'
  BY <1>1, <1>2, <1>f1, <1>f2 DEF DmGws, Won, DmPlace, Marked, Committing, BeforeState,
     BeforeMem, Rolling
<1>5. DmPlace'
  BY <1>1, <1>2, <1>f1, <1>f2, <1>4, <1>g, DmAssumption DEF DmTypes, DmRunIds,
     DmPlace, Valid, Marked, Committing, BeforeState,
     BeforeMem, Rolling
<1>6. DmOrder'
  BY <1>1, <1>2, <1>f1, <1>f2, <1>4, <1>g, DmAssumption DEF DmTypes, DmRunIds,
     DmOrder, DmPlace, Marked, Committing, BeforeState,
     BeforeMem, Rolling
<1>7. DmChain'
  BY <1>1, <1>2, <1>f1, <1>f2, <1>4, <1>g, DmAssumption DEF DmTypes, DmRunIds,
     DmChain, DmPlace, Marked, Committing, BeforeState,
     BeforeMem, Rolling
<1>8. DmFiles'
  BY <1>1, <1>2, <1>f1, <1>f2, <1>4, <1>g, DmAssumption DEF DmTypes, DmRunIds,
     DmFiles, DmPlace, EntriesNow, Entries, Marked, Committing, BeforeState,
     BeforeMem, Rolling
<1>9. DmFeeds'
  BY <1>1, <1>2, <1>f1, <1>f2, <1>4, <1>g, DmAssumption DEF DmTypes, DmRunIds,
     DmFeeds, DmPlace, Marked, Committing, BeforeState,
     BeforeMem, Rolling
<1>10. DmFacts'
  BY <1>1, <1>2, <1>f1, <1>f2, <1>4, <1>g, DmAssumption, <1>3 DEF DmTypes, DmRunIds,
     DmFacts, DmPlace, Wrote, Marked, Committing, BeforeState,
     BeforeMem, Rolling
<1> QED BY <1>3, <1>4, <1>5, <1>6, <1>7, <1>8, <1>9, <1>10, <1>g DEF DmInv

LEMMA DmCommitProfileKeeps == DmInv /\ CommitProfile => DmInv'
<1> SUFFICES ASSUME DmInv, CommitProfile PROVE DmInv'
  OBVIOUS
<1>1. /\ DmTypes /\ DmGws /\ DmPlace /\ DmOrder /\ DmChain
      /\ DmFiles /\ DmFeeds /\ DmFacts /\ DmPrimary /\ LmInv
  BY DEF DmInv
<1>2. /\ dmPc = "facts"
      /\ dmPc' = "memories"
      /\ UNCHANGED << dmState, dmMem, dmBackup, dmFed, dmHurt, dmRuns, dmTxn, dmJob, dmDay, dmHand, dmGw >>
  BY DEF CommitProfile, DmRest, DmIdle, dmFiles, dmBounds, dmVars, DmFault, Rolling
<1>f1. dmProf' \in DmProfs /\ dmProf'.managed = ActiveFacts(NewMem)
  <2>1. PICK h, m : h = dmJob.hand /\ m = ActiveFacts(NewMem) /\ dmProf' = [hand |-> h, managed |-> m]
    BY DEF CommitProfile
  <2>2. h \in Nat /\ m \in SUBSET LmIds
    BY <1>1, <1>2, <2>1, DmNewMem DEF DmTypes, DmJobs, BeforeMem
  <2> QED BY <2>1, <2>2 DEF DmProfs
<1>f2. NewMem' = NewMem
  BY <1>2 DEF NewMem
<1>3. LmInv' /\ DmPrimary' /\ lmRecord' = lmRecord
  <2>1. UNCHANGED lmKept
    BY DEF CommitProfile
  <2> QED BY <1>1, <2>1, DmMemoryKept
<1>4. DmTypes'
  BY <1>1, <1>2, <1>f1, <1>f2, DmAssumption DEF DmTypes, Marked, Committing, BeforeState,
     BeforeMem, Rolling
<1>g. DmGws' /\ Won' = Won /\ Won \subseteq Won'
  BY <1>1, <1>2, <1>f1, <1>f2 DEF DmGws, Won, DmPlace, Marked, Committing, BeforeState,
     BeforeMem, Rolling
<1>5. DmPlace'
  BY <1>1, <1>2, <1>f1, <1>f2, <1>4, <1>g, DmAssumption DEF DmTypes, DmRunIds,
     DmPlace, Valid, Marked, Committing, BeforeState,
     BeforeMem, Rolling
<1>6. DmOrder'
  BY <1>1, <1>2, <1>f1, <1>f2, <1>4, <1>g, DmAssumption DEF DmTypes, DmRunIds,
     DmOrder, DmPlace, Marked, Committing, BeforeState,
     BeforeMem, Rolling
<1>7. DmChain'
  BY <1>1, <1>2, <1>f1, <1>f2, <1>4, <1>g, DmAssumption DEF DmTypes, DmRunIds,
     DmChain, DmPlace, Marked, Committing, BeforeState,
     BeforeMem, Rolling
<1>8. DmFiles'
  <2>1. ActiveFacts(NewMem)' = ActiveFacts(NewMem)
    BY <1>f2 DEF ActiveFacts
  <2> QED BY <1>1, <1>2, <1>f1, <1>g, <2>1 DEF DmFiles, EntriesNow, Entries
<1>9. DmFeeds'
  BY <1>1, <1>2, <1>f1, <1>f2, <1>4, <1>g, DmAssumption DEF DmTypes, DmRunIds,
     DmFeeds, DmPlace, Marked, Committing, BeforeState,
     BeforeMem, Rolling
<1>10. DmFacts'
  BY <1>1, <1>2, <1>f1, <1>f2, <1>4, <1>g, DmAssumption, <1>3 DEF DmTypes, DmRunIds,
     DmFacts, DmPlace, Wrote, Marked, Committing, BeforeState,
     BeforeMem, Rolling
<1> QED BY <1>3, <1>4, <1>5, <1>6, <1>7, <1>8, <1>9, <1>10, <1>g DEF DmInv

LEMMA DmCommitMemoriesKeeps == DmInv /\ CommitMemories => DmInv'
<1> SUFFICES ASSUME DmInv, CommitMemories PROVE DmInv'
  OBVIOUS
<1>1. /\ DmTypes /\ DmGws /\ DmPlace /\ DmOrder /\ DmChain
      /\ DmFiles /\ DmFeeds /\ DmFacts /\ DmPrimary /\ LmInv
  BY DEF DmInv
<1>2. /\ dmPc = "memories"
      /\ dmPc' = "state"
      /\ UNCHANGED << dmState, dmProf, dmBackup, dmFed, dmHurt, dmRuns, dmTxn, dmJob, dmDay, dmHand, dmGw >>
      /\ dmMem' = NewMem
  BY DEF CommitMemories, DmRest, DmIdle, dmFiles, dmBounds, dmVars, DmFault, Rolling
<1>f1. dmMem' \in SUBSET DmEntries /\ DmApplying(dmMem, dmMem', dmJob.run, dmJob.fresh)
  BY <1>1, <1>2, DmNewMem DEF BeforeMem
<1>3. LmInv' /\ DmPrimary' /\ lmRecord' = lmRecord
  <2>1. UNCHANGED lmKept
    BY DEF CommitMemories
  <2> QED BY <1>1, <2>1, DmMemoryKept
<1>4. DmTypes'
  BY <1>1, <1>2, <1>f1, DmAssumption DEF DmTypes, Marked, Committing, BeforeState,
     BeforeMem, Rolling
<1>g. DmGws' /\ Won' = Won /\ Won \subseteq Won'
  BY <1>1, <1>2, <1>f1 DEF DmGws, Won, DmPlace, Marked, Committing, BeforeState,
     BeforeMem, Rolling
<1>5. DmPlace'
  BY <1>1, <1>2, <1>f1, <1>4, <1>g, DmAssumption DEF DmTypes, DmRunIds,
     DmPlace, Valid, Marked, Committing, BeforeState,
     BeforeMem, Rolling
<1>6. DmOrder'
  BY <1>1, <1>2, <1>f1, <1>4, <1>g, DmAssumption DEF DmTypes, DmRunIds,
     DmOrder, DmPlace, Marked, Committing, BeforeState,
     BeforeMem, Rolling
<1>7. DmChain'
  BY <1>1, <1>2, <1>f1, <1>4, <1>g, DmAssumption DEF DmTypes, DmRunIds,
     DmChain, DmPlace, Marked, Committing, BeforeState,
     BeforeMem, Rolling
<1>8. DmFiles'
  <2> SUFFICES ASSUME dmHurt \subseteq {"died_in_commit", "failed_commit"} PROVE DmFiles'
    BY <1>2 DEF DmFiles
  <2>1. Drawn(dmMem, RunsOf(dmState.runs) \cap Won, dmState.done) /\ dmProf.managed = ActiveFacts(NewMem)
    BY <1>1, <1>2 DEF DmFiles
  <2>2. Drawn(dmMem', (RunsOf(dmState.runs) \cap Won) \cup {dmJob.run}, dmState.done \cup dmJob.fresh)
    BY <1>f1, <2>1, DmDrawnMore
  <2>3. ActiveFacts(dmMem)' = ActiveFacts(NewMem)
    BY <1>2 DEF ActiveFacts
  <2> QED BY <1>1, <1>2, <1>g, <2>1, <2>2, <2>3 DEF DmFiles
<1>9. DmFeeds'
  BY <1>1, <1>2, <1>f1, <1>4, <1>g, DmAssumption DEF DmTypes, DmRunIds,
     DmFeeds, DmPlace, Marked, Committing, BeforeState,
     BeforeMem, Rolling
<1>10. DmFacts'
  BY <1>1, <1>2, <1>f1, <1>4, <1>g, DmAssumption, <1>3 DEF DmTypes, DmRunIds,
     DmFacts, DmPlace, Wrote, Marked, Committing, BeforeState,
     BeforeMem, Rolling
<1> QED BY <1>3, <1>4, <1>5, <1>6, <1>7, <1>8, <1>9, <1>10, <1>g DEF DmInv

LEMMA DmCommitStateKeeps == DmInv /\ CommitState => DmInv'
<1> SUFFICES ASSUME DmInv, CommitState PROVE DmInv'
  OBVIOUS
<1>1. /\ DmTypes /\ DmGws /\ DmPlace /\ DmOrder /\ DmChain
      /\ DmFiles /\ DmFeeds /\ DmFacts /\ DmPrimary /\ LmInv
  BY DEF DmInv
<1>2. /\ dmPc = "state"
      /\ dmPc' = "unlink"
      /\ UNCHANGED << dmMem, dmProf, dmBackup, dmFed, dmHurt, dmRuns, dmTxn, dmJob, dmDay, dmHand, dmGw >>
  BY DEF CommitState, DmRest, DmIdle, dmFiles, dmBounds, dmVars, DmFault, Rolling
<1>f1. dmJob.run = dmRuns /\ dmJob.run \in DmRunIds /\ dmJob.fresh \in SUBSET DmEvidence
  BY <1>1, <1>2, DmAssumption DEF DmPlace, DmTypes, DmRunIds, DmJobs, Marked, Committing,
     BeforeState, BeforeMem, Rolling
<1>f2. /\ dmState.runs \in Seq(DmRunIds) /\ dmState.done \in SUBSET DmEvidence
       /\ \A x \in RunsOf(dmState.runs) : x < dmJob.run
  BY <1>1, <1>2, <1>f1 DEF DmTypes, DmStates, DmOrder, Marked, Committing, BeforeState,
     BeforeMem, Rolling
<1>f3. PICK longer : longer = Append(dmState.runs, dmJob.run)
  OBVIOUS
<1>f4. /\ longer \in Seq(DmRunIds) /\ Len(longer) # 0 /\ longer[Len(longer)] = dmJob.run
       /\ RunsOf(longer) = RunsOf(dmState.runs) \cup {dmJob.run}
  BY <1>f1, <1>f2, <1>f3, DmAppend
<1>f5. dmState' \in DmStates /\ dmState'.done = dmState.done \cup dmJob.fresh /\ dmState'.runs = longer
  <2>1. PICK n, a : /\ n \in Int /\ a \in Int
                    /\ dmState' = [done |-> dmState.done \cup dmJob.fresh, runs |-> longer, completed |-> n,
                                   attempted |-> a, status |-> "completed"]
    BY <1>1, <1>f3 DEF CommitState, Consumed, MaxOf, DmTypes, DmStates, DmJobs
  <2> QED BY <1>1, <1>f1, <1>f2, <1>f4, <2>1 DEF DmStates, DmStatus
<1>f6. \A x \in RunsOf(longer) : x <= dmRuns
  BY <1>1, <1>f1, <1>f2, <1>f4, DmRunsIn DEF DmTypes, DmRunIds
<1>3. LmInv' /\ DmPrimary' /\ lmRecord' = lmRecord
  <2>1. UNCHANGED lmKept
    BY DEF CommitState
  <2> QED BY <1>1, <2>1, DmMemoryKept
<1>4. DmTypes'
  BY <1>1, <1>2, <1>f1, <1>f2, <1>f3, <1>f4, <1>f5, <1>f6, DmAssumption DEF DmTypes, Marked, Committing, BeforeState,
     BeforeMem, Rolling
<1>g. DmGws' /\ Won' = Won /\ Won \subseteq Won'
  BY <1>1, <1>2, <1>f1, <1>f2, <1>f3, <1>f4, <1>f5, <1>f6 DEF DmGws, Won, DmPlace, Marked, Committing, BeforeState,
     BeforeMem, Rolling
<1>5. DmPlace'
  BY <1>1, <1>2, <1>f1, <1>f2, <1>f3, <1>f4, <1>f5, <1>f6, <1>4, <1>g, DmAssumption DEF DmTypes, DmRunIds,
     DmPlace, Valid, Marked, Committing, BeforeState,
     BeforeMem, Rolling
<1>6. DmOrder'
  BY <1>1, <1>2, <1>f1, <1>f2, <1>f3, <1>f4, <1>f5, <1>f6, <1>4, <1>g, DmAssumption DEF DmTypes, DmRunIds,
     DmOrder, DmPlace, Marked, Committing, BeforeState,
     BeforeMem, Rolling
<1>7. DmChain'
  <2>1. Linked(longer, dmBackup)
    BY <1>1, <1>2, <1>f4 DEF Linked, DmPlace, BeforeState, BeforeMem
  <2> QED BY <1>1, <1>2, <1>f5, <2>1 DEF DmChain
<1>8. DmFiles'
  <2> SUFFICES ASSUME dmHurt \subseteq {"died_in_commit", "failed_commit"} PROVE DmFiles'
    BY <1>2 DEF DmFiles
  <2>1. /\ Drawn(dmMem, (RunsOf(dmState.runs) \cap Won) \cup {dmJob.run}, dmState.done \cup dmJob.fresh)
        /\ dmProf.managed = ActiveFacts(dmMem)
    BY <1>1, <1>2 DEF DmFiles
  <2>2. Drawn(dmMem, (RunsOf(longer) \cap Won) \cup {dmJob.run}, dmState.done \cup dmJob.fresh)
    BY <1>f4, <2>1 DEF Drawn
  <2> QED BY <1>1, <1>2, <1>f5, <1>g, <2>1, <2>2 DEF DmFiles
<1>9. DmFeeds'
  <2> SUFFICES ASSUME dmHurt \subseteq {"died_in_commit"} PROVE DmFeeds'
    BY <1>2 DEF DmFeeds
  <2>1. Fed(dmState.done, dmState.runs, dmFed)
    BY <1>1, <1>2 DEF DmFeeds
  <2>2. PICK more : more = [dmFed EXCEPT ![dmJob.run] = dmJob.fresh]
    OBVIOUS
  <2>3. Fed(dmState.done \cup dmJob.fresh, longer, more)
    <3>1. dmFed \in [DmRunIds -> SUBSET DmEvidence] /\ RunsOf(dmState.runs) \subseteq DmRunIds
      BY <1>1, <1>f2, DmRunsIn DEF DmTypes
    <3>2. dmJob.run \notin RunsOf(dmState.runs)
      BY <1>f1, <1>f2 DEF DmRunIds
    <3> QED BY <1>f1, <1>f2, <1>f4, <2>1, <2>2, <3>1, <3>2, DmFedMore
  <2> QED BY <1>1, <1>2, <1>f4, <1>f5, <2>1, <2>2, <2>3 DEF DmFeeds
<1>10. DmFacts'
  <2> SUFFICES ASSUME dmHurt \subseteq {"failed_commit"}, NEW i \in LmActive(lmRecord), NEW r \in DmRunIds,
                      lmRecord[i].refs = {DreamRef(r)}
               PROVE  r \in RunsOf(longer) \cap Won \/ (r = dmJob.run /\ Wrote)
    BY <1>2, <1>3, <1>f5, <1>g DEF DmFacts, Committing, Wrote
  <2>1. r \in RunsOf(dmState.runs) \cap Won \/ (r = dmJob.run /\ Wrote)
    BY <1>1, <1>2 DEF DmFacts, Committing, Rolling
  <2> QED BY <1>f4, <2>1
<1> QED BY <1>3, <1>4, <1>5, <1>6, <1>7, <1>8, <1>9, <1>10, <1>g DEF DmInv

LEMMA DmCommitEndsKeeps == DmInv /\ CommitEnds => DmInv'
<1> SUFFICES ASSUME DmInv, CommitEnds PROVE DmInv'
  OBVIOUS
<1>1. /\ DmTypes /\ DmGws /\ DmPlace /\ DmOrder /\ DmChain
      /\ DmFiles /\ DmFeeds /\ DmFacts /\ DmPrimary /\ LmInv
  BY DEF DmInv
<1>2. /\ dmPc = "unlink"
      /\ dmPc' = "idle"
      /\ dmJob' = NoDream
      /\ UNCHANGED << dmState, dmMem, dmProf, dmBackup, dmHurt, dmRuns, dmDay, dmHand >>
      /\ dmTxn' = dmTxn \ {dmJob.run}
      /\ dmFed' = [dmFed EXCEPT ![dmJob.run] = dmJob.fresh]
      /\ dmGw' = [dmGw EXCEPT ![dmJob.run] = "succeeded"]
  BY DEF CommitEnds, DmRest, DmIdle, dmFiles, dmBounds, dmVars, DmFault, Rolling
<1>f1. dmJob' = NoDream /\ dmJob' \in DmJobs
  <2>1. NoCandidate \in DmCands
    BY DEF DmCands
  <2> QED BY <1>2, <2>1, DmAssumption DEF NoDream, DmJobs
<1>f2. dmJob.run = dmRuns /\ dmJob.run \in DmRunIds /\ dmJob.fresh \in SUBSET DmEvidence
  BY <1>1, <1>2, DmAssumption DEF DmPlace, DmTypes, DmRunIds, DmJobs, Marked, Committing, BeforeState,
     BeforeMem, Rolling
<1>f3. dmFed' \in [DmRunIds -> SUBSET DmEvidence] /\ dmTxn' = {} /\ dmJob.run \in RunsOf(dmState.runs)
  BY <1>1, <1>2, <1>f2 DEF DmTypes, DmPlace, Marked, Committing, BeforeState,
     BeforeMem, Rolling
<1>3. LmInv' /\ DmPrimary' /\ lmRecord' = lmRecord
  <2>1. UNCHANGED lmKept
    BY DEF CommitEnds
  <2> QED BY <1>1, <2>1, DmMemoryKept
<1>4. DmTypes'
  BY <1>1, <1>2, <1>f1, <1>f2, <1>f3, DmAssumption DEF DmTypes, Marked, Committing, BeforeState,
     BeforeMem, Rolling
<1>w. dmJob.run \in DmRunIds /\ dmGw[dmJob.run] # "succeeded" /\ dmGw' = [dmGw EXCEPT ![dmJob.run] = "succeeded"]
  BY <1>1, <1>2, <1>f2, <1>f3, DmAssumption DEF DmGws, DmPlace, DmTypes, DmRunIds, Marked, Committing, BeforeState,
     BeforeMem, Rolling
<1>g. DmGws' /\ Won \subseteq Won'
  <2>1. /\ dmGw' \in [DmRunIds -> GwStatus] /\ dmGw'[dmJob.run] = "succeeded"
        /\ \A r \in DmRunIds : r # dmJob.run => dmGw'[r] = dmGw[r]
        /\ Won \subseteq Won'
    BY <1>1, <1>w, DmGwMoves DEF DmGws, GwStatus
  <2> QED BY <1>1, <1>1, <1>2, <1>f2, <1>f3, <2>1, DmAssumption DEF DmGws, DmTypes, DmPlace, DmRunIds, Marked, Committing, BeforeState,
     BeforeMem, Rolling
<1>5. DmPlace'
  BY <1>1, <1>2, <1>f1, <1>f2, <1>f3, <1>4, <1>g, DmAssumption DEF DmTypes, DmRunIds,
     DmPlace, Valid, Marked, Committing, BeforeState,
     BeforeMem, Rolling
<1>6. DmOrder'
  BY <1>1, <1>2, <1>f1, <1>f2, <1>f3, <1>4, <1>g, DmAssumption DEF DmTypes, DmRunIds,
     DmOrder, DmPlace, Marked, Committing, BeforeState,
     BeforeMem, Rolling
<1>7. DmChain'
  BY <1>1, <1>2, <1>f1, <1>f2, <1>f3, <1>4, <1>g, DmAssumption DEF DmTypes, DmRunIds,
     DmChain, DmPlace, Marked, Committing, BeforeState,
     BeforeMem, Rolling
<1>8. DmFiles'
  <2> SUFFICES ASSUME dmHurt \subseteq {"died_in_commit", "failed_commit"} PROVE DmFiles'
    BY <1>2 DEF DmFiles
  <2>1. \A r \in DmRunIds : \A snap \in dmBackup[r] : Entries(snap.mem, snap.state, snap.prof, Won')
    BY <1>1, <1>g, DmEntriesGrow DEF DmFiles
  <2>2. /\ Drawn(dmMem, (RunsOf(dmState.runs) \cap Won) \cup {dmJob.run}, dmState.done)
        /\ dmProf.managed = ActiveFacts(dmMem)
    BY <1>1, <1>2 DEF DmFiles
  <2>3. dmJob.run \in Won'
    BY <1>w, <1>f2, <1>1 DEF Won, DmGws
  <2>4. Drawn(dmMem, RunsOf(dmState.runs) \cap Won', dmState.done)
    BY <1>f3, <1>g, <2>2, <2>3 DEF Drawn
  <2>5. EntriesNow'
    BY <1>2, <2>2, <2>4 DEF EntriesNow, Entries
  <2> QED BY <1>2, <2>1, <2>5 DEF DmFiles
<1>9. DmFeeds'
  <2> SUFFICES ASSUME dmHurt \subseteq {"died_in_commit"} PROVE DmFeeds'
    BY <1>2 DEF DmFeeds
  <2>1. Fed(dmState.done, dmState.runs, dmFed')
    BY <1>1, <1>2 DEF DmFeeds
  <2>2. ASSUME NEW r \in DmRunIds, NEW snap \in dmBackup[r]
        PROVE  Fed(snap.state.done, snap.state.runs, dmFed')
    <3>1. snap.state.runs \in Seq(DmRunIds)
      BY <1>1, DmSnapFields DEF DmTypes
    <3>2. r <= dmRuns /\ \A x \in RunsOf(snap.state.runs) : x < r
      BY <1>1 DEF DmOrder
    <3>3. RunsOf(snap.state.runs) \subseteq DmRunIds /\ dmJob.run \notin RunsOf(snap.state.runs)
      BY <1>f2, <3>1, <3>2, DmRunsIn DEF DmRunIds
    <3>4. Fed(snap.state.done, snap.state.runs, dmFed)
      BY <1>1 DEF DmFeeds
    <3>5. dmFed \in [DmRunIds -> SUBSET DmEvidence]
      BY <1>1 DEF DmTypes
    <3>6. PICK more : more = [dmFed EXCEPT ![dmJob.run] = dmJob.fresh]
      OBVIOUS
    <3>7. PICK done, runs : done = snap.state.done /\ runs = snap.state.runs
      OBVIOUS
    <3>8. RunsOf(runs) \subseteq DmRunIds /\ dmJob.run \notin RunsOf(runs) /\ Fed(done, runs, dmFed)
      BY <3>3, <3>4, <3>7
    <3>9. \A x \in RunsOf(runs) : more[x] = dmFed[x]
      BY <3>5, <3>6, <3>8
    <3>10. Fed(done, runs, more)
      BY <3>8, <3>9 DEF Fed
    <3> QED BY <1>2, <3>6, <3>7, <3>10
  <2> QED BY <1>2, <2>1, <2>2 DEF DmFeeds
<1>10. DmFacts'
  <2> SUFFICES ASSUME dmHurt \subseteq {"failed_commit"}, NEW i \in LmActive(lmRecord), NEW r \in DmRunIds,
                      lmRecord[i].refs = {DreamRef(r)}
               PROVE  r \in RunsOf(dmState.runs) \cap Won'
    BY <1>2, <1>3 DEF DmFacts
  <2>1. r \in RunsOf(dmState.runs) \cap Won \/ r = dmJob.run
    BY <1>1 DEF DmFacts
  <2>2. dmJob.run \in Won'
    BY <1>w, <1>f2, <1>1 DEF Won, DmGws
  <2> QED BY <1>f3, <1>g, <2>1, <2>2
<1> QED BY <1>3, <1>4, <1>5, <1>6, <1>7, <1>8, <1>9, <1>10, <1>g DEF DmInv

\* Compensation takes no evidence away, and leaves nothing active that only ref vouches for.
LEMMA DmTakenBack ==
  ASSUME LmTypes, DmPrimary, NEW ref, NEW new, new = Compensated(lmRecord, ref)
  PROVE  /\ DOMAIN new = LmIds
         /\ \A i \in LmIds : /\ new[i].status # "none" => new[i].primary \in new[i].refs
                             /\ new[i].status = "active" => /\ lmRecord[i].status = "active"
                                                            /\ new[i].refs = lmRecord[i].refs
                                                            /\ new[i].refs # {ref}
<1>1. DOMAIN lmRecord = LmIds
  BY DEF LmTypes
<1>2. DOMAIN new = LmIds
  BY <1>1 DEF Compensated
<1>3. ASSUME NEW i \in LmIds
      PROVE  /\ new[i].status # "none" => new[i].primary \in new[i].refs
             /\ new[i].status = "active" => /\ lmRecord[i].status = "active" /\ new[i].refs = lmRecord[i].refs
                                            /\ new[i].refs # {ref}
  <2>1. lmRecord[i] \in LmRow /\ (lmRecord[i].status # "none" => lmRecord[i].primary \in lmRecord[i].refs)
    BY LmRows DEF DmPrimary
  <2>2. CASE lmRecord[i].status = "active" /\ lmRecord[i].primary = ref /\ lmRecord[i].refs \subseteq {ref}
    <3>1. new[i] = [lmRecord[i] EXCEPT !.status = "tombstoned", !.rev = @ + 1]
      BY <1>1, <2>2 DEF Compensated
    <3>2. PICK row : row = [lmRecord[i] EXCEPT !.status = "tombstoned", !.rev = @ + 1]
      OBVIOUS
    <3>3. row.status = "tombstoned" /\ row.primary = lmRecord[i].primary /\ row.refs = lmRecord[i].refs
      BY <2>1, <3>2 DEF LmRow
    <3> QED BY <2>1, <2>2, <3>1, <3>2, <3>3
  <2>3. CASE ~(lmRecord[i].status = "active" /\ lmRecord[i].primary = ref /\ lmRecord[i].refs \subseteq {ref})
    <3>1. new[i] = lmRecord[i]
      BY <1>1, <2>3 DEF Compensated
    <3> QED BY <2>1, <2>3, <3>1
  <2> QED BY <2>2, <2>3
<1> QED BY <1>2, <1>3

\* A write of a Dream adds its own reference and no other.
LEMMA DmWritten ==
  ASSUME LmTypes, DmPrimary, NEW q, q.id \in LmIds, q.replace = FALSE, NEW new,
  new = Written(lmRecord, q)
  PROVE  /\ DOMAIN new = LmIds
         /\ \A i \in LmIds : /\ new[i].status # "none" => new[i].primary \in new[i].refs
                             /\ new[i].status = "active" =>
                                   \/ lmRecord[i].status = "active" /\ new[i].refs = lmRecord[i].refs
                                   \/ q.ref \in new[i].refs
<1>1. DOMAIN lmRecord = LmIds
  BY DEF LmTypes
<1>2. \A i \in LmIds : lmRecord[i] \in LmRow /\ (lmRecord[i].status # "none" => lmRecord[i].primary \in lmRecord[i].refs)
  BY LmRows DEF DmPrimary
<1>3. CASE q.id \in Known(lmRecord)
  <2>1. PICK row : row = [lmRecord[q.id] EXCEPT !.refs = lmRecord[q.id].refs \cup {q.ref}]
    OBVIOUS
  <2>2. row.status = lmRecord[q.id].status /\ row.primary = lmRecord[q.id].primary
        /\ row.refs = lmRecord[q.id].refs \cup {q.ref}
    BY <1>2, <2>1 DEF LmRow
  <2>3. new = [lmRecord EXCEPT ![q.id] = row]
    BY <1>3, <2>1 DEF Written, IsDuplicate, WithEvidence
  <2>4. DOMAIN new = LmIds /\ new[q.id] = row /\ \A i \in LmIds : i # q.id => new[i] = lmRecord[i]
    BY <1>1, <2>3
  <2> QED BY <1>2, <2>2, <2>4
<1>4. CASE q.id \notin Known(lmRecord)
  <2>1. Prior(lmRecord, q) = {}
    BY DEF Prior
  <2>2. PICK row : row = [status |-> "active",
                rev |-> 1, single |-> q.single, pinned |-> q.pinned, by |-> "none",
                primary |-> q.ref, refs |-> {q.ref},
                at |-> Cardinality(Known(lmRecord)) + 1]
    OBVIOUS
  <2>3. new = [i \in LmIds |-> IF i = q.id THEN row ELSE lmRecord[i]]
    BY <1>1, <1>4, <2>1, <2>2 DEF Written, IsDuplicate, WithRecord
  <2>4. DOMAIN new = LmIds /\ new[q.id] = row /\ \A i \in LmIds : i # q.id => new[i] = lmRecord[i]
    BY <2>3
  <2>5. row.status = "active" /\ row.primary = q.ref /\ row.refs = {q.ref}
    BY <2>2
  <2> QED BY <1>2, <2>4, <2>5
<1> QED BY <1>3, <1>4

LEMMA DmCommitFactKeeps == DmInv /\ (\E f \in LmIds : CommitFact(f)) => DmInv'
<1> SUFFICES ASSUME DmInv, (\E f \in LmIds : CommitFact(f)) PROVE DmInv'
  OBVIOUS
<1>1. /\ DmTypes /\ DmGws /\ DmPlace /\ DmOrder /\ DmChain
      /\ DmFiles /\ DmFeeds /\ DmFacts /\ DmPrimary /\ LmInv
  BY DEF DmInv
<1>2. /\ dmPc = "facts"
      /\ UNCHANGED << dmState, dmMem, dmProf, dmBackup, dmFed, dmHurt, dmRuns, dmTxn, dmPc, dmDay, dmHand, dmGw >>
  BY DEF CommitFact, DmRest, DmIdle, dmFiles, dmBounds, dmVars, DmFault, Rolling
<1>f1. PICK f \in LmIds : f \in dmJob.todo /\ CommitFact(f)
  BY DEF CommitFact
<1>f2. PICK q : q = DreamWrite(f, dmJob.run)
  OBVIOUS
<1>f3. /\ q.id = f /\ q.ref = DreamRef(dmJob.run) /\ q.replace = FALSE
       /\ q.single = FALSE /\ q.pinned = FALSE
  BY <1>f2 DEF DreamWrite
<1>f4. PICK new : /\ new = Written(lmRecord, q)
                  /\ lmRecord' = new /\ Enqueues(lmRecord, new) /\ UNCHANGED lmOthers
  BY <1>f1, <1>f2 DEF CommitFact
<1>f5. LmTypes
  BY <1>1 DEF LmInv
<1>f6. dmJob.run \in DmRunIds /\ dmJob \in DmJobs /\ dmJob.todo \in SUBSET LmIds
  BY <1>1, <1>2, DmAssumption DEF DmPlace, DmTypes, DmRunIds, DmJobs, Marked,
     Committing, BeforeState, BeforeMem
<1>f7. MovesOn(new) /\ DOMAIN new = LmIds
  <2>1. q.id \in LmIds /\ q.ref \in LmAnyRef
    BY <1>f1, <1>f3, <1>f6 DEF LmAnyRef, DreamRef, DmRunIds
  <2> QED BY <1>f3, <1>f4, <1>f5, <2>1, LmWritten DEF MovesOn
<1>f8. \A i \in LmIds : /\ new[i].status # "none" => new[i].primary \in new[i].refs
                        /\ new[i].status = "active" =>
                                \/ lmRecord[i].status = "active" /\ new[i].refs = lmRecord[i].refs
                                \/ DreamRef(dmJob.run) \in new[i].refs
  BY <1>1, <1>f1, <1>f3, <1>f4, <1>f5, DmWritten
<1>f9. /\ dmJob' \in DmJobs /\ dmJob'.run = dmJob.run /\ dmJob'.candidate = dmJob.candidate
       /\ dmJob'.fresh = dmJob.fresh /\ dmJob'.todo = dmJob.todo \ {f}
  <2>1. dmJob' = [dmJob EXCEPT !.todo = dmJob.todo \ {f}]
    BY <1>f1 DEF CommitFact
  <2> QED BY <1>f6, <2>1 DEF DmJobs
<1>f10. NewMem' = NewMem
  BY <1>2, <1>f9 DEF NewMem
<1>3. LmInv' /\ DmPrimary'
  <2>1. LmInv'
    BY <1>1, <1>f4, <1>f7, DmMemoryWritten
  <2>2. DmPrimary'
    BY <1>f4, <1>f8 DEF DmPrimary
  <2> QED BY <2>1, <2>2
<1>4. DmTypes'
  BY <1>1, <1>2, <1>f1, <1>f2, <1>f3, <1>f4, <1>f5, <1>f6, <1>f7, <1>f8, <1>f9, <1>f10, DmAssumption DEF DmTypes, Marked, Committing, BeforeState,
     BeforeMem, Rolling
<1>g. DmGws' /\ Won' = Won /\ Won \subseteq Won'
  BY <1>1, <1>2, <1>f1, <1>f2, <1>f3, <1>f4, <1>f5, <1>f6, <1>f7, <1>f8, <1>f9, <1>f10 DEF DmGws, Won, DmPlace, Marked, Committing, BeforeState,
     BeforeMem, Rolling
<1>5. DmPlace'
  BY <1>1, <1>2, <1>f1, <1>f2, <1>f3, <1>f4, <1>f5, <1>f6, <1>f7, <1>f8, <1>f9, <1>f10, <1>4, <1>g, DmAssumption DEF DmTypes, DmRunIds,
     DmPlace, Valid, Marked, Committing, BeforeState,
     BeforeMem, Rolling
<1>6. DmOrder'
  BY <1>1, <1>2, <1>f1, <1>f2, <1>f3, <1>f4, <1>f5, <1>f6, <1>f7, <1>f8, <1>f9, <1>f10, <1>4, <1>g, DmAssumption DEF DmTypes, DmRunIds,
     DmOrder, DmPlace, Marked, Committing, BeforeState,
     BeforeMem, Rolling
<1>7. DmChain'
  BY <1>1, <1>2, <1>f1, <1>f2, <1>f3, <1>f4, <1>f5, <1>f6, <1>f7, <1>f8, <1>f9, <1>f10, <1>4, <1>g, DmAssumption DEF DmTypes, DmRunIds,
     DmChain, DmPlace, Marked, Committing, BeforeState,
     BeforeMem, Rolling
<1>8. DmFiles'
  BY <1>1, <1>2, <1>f1, <1>f2, <1>f3, <1>f4, <1>f5, <1>f6, <1>f7, <1>f8, <1>f9, <1>f10, <1>4, <1>g, DmAssumption DEF DmTypes, DmRunIds,
     DmFiles, DmPlace, EntriesNow, Entries, Marked, Committing, BeforeState,
     BeforeMem, Rolling
<1>9. DmFeeds'
  BY <1>1, <1>2, <1>f1, <1>f2, <1>f3, <1>f4, <1>f5, <1>f6, <1>f7, <1>f8, <1>f9, <1>f10, <1>4, <1>g, DmAssumption DEF DmTypes, DmRunIds,
     DmFeeds, DmPlace, Marked, Committing, BeforeState,
     BeforeMem, Rolling
<1>10. DmFacts'
  <2>1. Wrote'
    BY <1>1, <1>2, <1>f1, <1>f9 DEF Wrote, DmPlace
  <2> SUFFICES ASSUME dmHurt \subseteq {"failed_commit"}, NEW i \in LmActive(new), NEW r \in DmRunIds,
                      new[i].refs = {DreamRef(r)}, r # dmJob.run
               PROVE  r \in RunsOf(dmState.runs) \cap Won
    BY <1>2, <1>f4, <1>f9, <1>g, <2>1 DEF DmFacts, Committing, BeforeState, BeforeMem
  <2>2. i \in LmIds /\ new[i].status = "active"
    BY <1>f7 DEF LmActive
  <2>3. DreamRef(dmJob.run) \notin new[i].refs
    BY DEF DreamRef
  <2>4. lmRecord[i].status = "active" /\ lmRecord[i].refs = {DreamRef(r)}
    BY <1>f8, <2>2, <2>3
  <2>5. i \in LmActive(lmRecord)
    BY <1>f5, <2>2, <2>4 DEF LmActive, LmTypes
  <2> QED BY <1>1, <2>4, <2>5 DEF DmFacts
<1> QED BY <1>3, <1>4, <1>5, <1>6, <1>7, <1>8, <1>9, <1>10, <1>g DEF DmInv

LEMMA DmCommitFailsKeeps == DmInv /\ CommitFails => DmInv'
<1> SUFFICES ASSUME DmInv, CommitFails PROVE DmInv'
  OBVIOUS
<1>1. /\ DmTypes /\ DmGws /\ DmPlace /\ DmOrder /\ DmChain
      /\ DmFiles /\ DmFeeds /\ DmFacts /\ DmPrimary /\ LmInv
  BY DEF DmInv
<1>2. /\ dmPc \in Committing
      /\ dmPc' = "undo"
      /\ dmHurt' = dmHurt \cup {"failed_commit"}
      /\ UNCHANGED << dmState, dmMem, dmProf, dmBackup, dmFed, dmRuns, dmTxn, dmJob, dmDay, dmHand, dmGw >>
  BY DEF CommitFails, DmRest, dmFiles, DmFault, Committing, BeforeState, BeforeMem
<1>3. LmInv' /\ DmPrimary' /\ lmRecord' = lmRecord
  <2>1. UNCHANGED lmKept
    BY DEF CommitFails
  <2> QED BY <1>1, <2>1, DmMemoryKept
<1>4. DmTypes'
  BY <1>1, <1>2, DmAssumption DEF DmTypes, Marked, Committing, BeforeState,
     BeforeMem, Rolling
<1>g. DmGws' /\ Won' = Won /\ Won \subseteq Won'
  BY <1>1, <1>2 DEF DmGws, Won, DmPlace, Marked, Committing, BeforeState,
     BeforeMem, Rolling
<1>5. DmPlace'
  BY <1>1, <1>2, <1>4, <1>g, DmAssumption DEF DmTypes, DmRunIds,
     DmPlace, Valid, Marked, Committing, BeforeState,
     BeforeMem, Rolling
<1>6. DmOrder'
  BY <1>1, <1>2, <1>4, <1>g, DmAssumption DEF DmTypes, DmRunIds,
     DmOrder, DmPlace, Marked, Committing, BeforeState,
     BeforeMem, Rolling
<1>7. DmChain'
  BY <1>1, <1>2, <1>4, <1>g, DmAssumption DEF DmTypes, DmRunIds,
     DmChain, DmPlace, Marked, Committing, BeforeState,
     BeforeMem, Rolling
<1>8. DmFiles'
  BY <1>1, <1>2, <1>4, <1>g, DmAssumption DEF DmTypes, DmRunIds,
     DmFiles, DmPlace, EntriesNow, Entries, Marked, Committing, BeforeState,
     BeforeMem, Rolling
<1>9. DmFeeds'
  BY <1>1, <1>2, <1>4, <1>g, DmAssumption DEF DmTypes, DmRunIds,
     DmFeeds, DmPlace, Marked, Committing, BeforeState,
     BeforeMem, Rolling
<1>10. DmFacts'
  BY <1>1, <1>2, <1>4, <1>g, DmAssumption, <1>3 DEF DmTypes, DmRunIds,
     DmFacts, DmPlace, Wrote, Marked, Committing, BeforeState,
     BeforeMem, Rolling
<1> QED BY <1>3, <1>4, <1>5, <1>6, <1>7, <1>8, <1>9, <1>10, <1>g DEF DmInv

LEMMA DmUndoFactsKeeps == DmInv /\ UndoFacts => DmInv'
<1> SUFFICES ASSUME DmInv, UndoFacts PROVE DmInv'
  OBVIOUS
<1>1. /\ DmTypes /\ DmGws /\ DmPlace /\ DmOrder /\ DmChain
      /\ DmFiles /\ DmFeeds /\ DmFacts /\ DmPrimary /\ LmInv
  BY DEF DmInv
<1>2. /\ dmPc = "undo"
      /\ dmPc' = "restore"
      /\ UNCHANGED << dmState, dmMem, dmProf, dmBackup, dmFed, dmHurt, dmRuns, dmTxn, dmJob, dmDay, dmHand, dmGw >>
  BY DEF UndoFacts, DmRest, DmIdle, dmFiles, dmBounds, dmVars, DmFault, Rolling
<1>f1. PICK new : new = Compensated(lmRecord, DreamRef(dmJob.run)) /\ lmRecord' = new /\ Enqueues(lmRecord, new)
        /\ UNCHANGED lmOthers
  BY DEF UndoFacts
<1>f2. LmTypes
  BY <1>1 DEF LmInv
<1>3. LmInv' /\ DmPrimary'
  <2>1. MovesOn(new)
    BY <1>f1, <1>f2, LmCompensated
  <2>2. LmInv'
    BY <1>1, <1>f1, <2>1, DmMemoryWritten
  <2>3. DmPrimary'
    BY <1>1, <1>f1, <1>f2, DmTakenBack DEF DmPrimary
  <2> QED BY <2>2, <2>3
<1>4. DmTypes'
  BY <1>1, <1>2, <1>f1, <1>f2, DmAssumption DEF DmTypes, Marked, Committing, BeforeState,
     BeforeMem, Rolling
<1>g. DmGws' /\ Won' = Won /\ Won \subseteq Won'
  BY <1>1, <1>2, <1>f1, <1>f2 DEF DmGws, Won, DmPlace, Marked, Committing, BeforeState,
     BeforeMem, Rolling
<1>5. DmPlace'
  BY <1>1, <1>2, <1>f1, <1>f2, <1>4, <1>g, DmAssumption DEF DmTypes, DmRunIds,
     DmPlace, Valid, Marked, Committing, BeforeState,
     BeforeMem, Rolling
<1>6. DmOrder'
  BY <1>1, <1>2, <1>f1, <1>f2, <1>4, <1>g, DmAssumption DEF DmTypes, DmRunIds,
     DmOrder, DmPlace, Marked, Committing, BeforeState,
     BeforeMem, Rolling
<1>7. DmChain'
  BY <1>1, <1>2, <1>f1, <1>f2, <1>4, <1>g, DmAssumption DEF DmTypes, DmRunIds,
     DmChain, DmPlace, Marked, Committing, BeforeState,
     BeforeMem, Rolling
<1>8. DmFiles'
  BY <1>1, <1>2, <1>f1, <1>f2, <1>4, <1>g, DmAssumption DEF DmTypes, DmRunIds,
     DmFiles, DmPlace, EntriesNow, Entries, Marked, Committing, BeforeState,
     BeforeMem, Rolling
<1>9. DmFeeds'
  BY <1>1, <1>2, <1>f1, <1>f2, <1>4, <1>g, DmAssumption DEF DmTypes, DmRunIds,
     DmFeeds, DmPlace, Marked, Committing, BeforeState,
     BeforeMem, Rolling
<1>10. DmFacts'
  <2> SUFFICES ASSUME dmHurt \subseteq {"failed_commit"}, NEW i \in LmActive(new), NEW r \in DmRunIds,
                      new[i].refs = {DreamRef(r)}
               PROVE  r \in RunsOf(dmState.runs) \cap Won
    BY <1>2, <1>f1, <1>g DEF DmFacts
  <2>1. /\ i \in LmIds /\ lmRecord[i].status = "active" /\ lmRecord[i].refs = {DreamRef(r)}
        /\ new[i].refs # {DreamRef(dmJob.run)}
    BY <1>1, <1>f1, <1>f2, DmTakenBack DEF LmActive
  <2>2. i \in LmActive(lmRecord)
    BY <1>f2, <2>1 DEF LmActive, LmTypes
  <2>3. r \in RunsOf(dmState.runs) \cap Won \/ r = dmJob.run
    BY <1>1, <2>1, <2>2 DEF DmFacts
  <2>4. r # dmJob.run
    BY <2>1
  <2> QED BY <2>3, <2>4
<1> QED BY <1>3, <1>4, <1>5, <1>6, <1>7, <1>8, <1>9, <1>10, <1>g DEF DmInv

LEMMA DmUndoFilesKeeps == DmInv /\ UndoFiles => DmInv'
<1> SUFFICES ASSUME DmInv, UndoFiles PROVE DmInv'
  OBVIOUS
<1>1. /\ DmTypes /\ DmGws /\ DmPlace /\ DmOrder /\ DmChain
      /\ DmFiles /\ DmFeeds /\ DmFacts /\ DmPrimary /\ LmInv
  BY DEF DmInv
<1>2. /\ dmPc = "restore"
      /\ dmPc' = "fail"
      /\ dmTxn' = dmTxn \ {dmJob.run}
      /\ UNCHANGED << dmBackup, dmFed, dmHurt, dmRuns, dmJob, dmDay, dmHand, dmGw >>
  BY DEF UndoFiles, DmRest, DmIdle, dmFiles, dmBounds, dmVars, DmFault, Rolling
<1>f1. dmJob.run = dmRuns /\ dmJob.run \in DmRunIds /\ dmJob.fresh \in SUBSET DmEvidence
  BY <1>1, <1>2, DmAssumption DEF DmPlace, DmTypes, DmRunIds, DmJobs, Marked, Committing, BeforeState,
     BeforeMem, Rolling
<1>f2. PICK snap \in dmBackup[dmJob.run] : dmState' = snap.state /\ dmMem' = snap.mem /\ dmProf' = snap.prof
  BY DEF UndoFiles
<1>f3. snap \in DmSnaps
  BY <1>1, <1>f1, <1>f2 DEF DmTypes
<1>f4. /\ snap.state.runs \in Seq(DmRunIds) /\ snap.state \in DmStates
       /\ snap.mem \in SUBSET DmEntries /\ snap.prof \in DmProfs
       /\ \A snp \in dmBackup[dmJob.run] : snp = snap
       /\ \A x \in RunsOf(snap.state.runs) : x < dmJob.run
  BY <1>1, <1>f1, <1>f2, <1>f3, DmSnapFields DEF DmOrder
<1>f5. /\ dmTxn' = {} /\ "failed_commit" \in dmHurt
       /\ RunsOf(dmState.runs) \subseteq RunsOf(snap.state.runs) \cup {dmJob.run}
  BY <1>1, <1>2, <1>f2 DEF DmPlace, Marked
<1>f6. \A x \in RunsOf(snap.state.runs) : x \in Nat
  BY <1>f4, DmRunsIn DEF DmRunIds
<1>3. LmInv' /\ DmPrimary' /\ lmRecord' = lmRecord
  <2>1. UNCHANGED lmKept
    BY DEF UndoFiles
  <2> QED BY <1>1, <2>1, DmMemoryKept
<1>4. DmTypes'
  BY <1>1, <1>2, <1>f1, <1>f2, <1>f3, <1>f4, <1>f5, <1>f6, DmAssumption DEF DmTypes, Marked, Committing, BeforeState,
     BeforeMem, Rolling
<1>g. DmGws' /\ Won' = Won /\ Won \subseteq Won'
  BY <1>1, <1>2, <1>f1, <1>f2, <1>f3, <1>f4, <1>f5, <1>f6 DEF DmGws, Won, DmPlace, Marked, Committing, BeforeState,
     BeforeMem, Rolling
<1>5. DmPlace'
  BY <1>1, <1>2, <1>f1, <1>f2, <1>f3, <1>f4, <1>f5, <1>f6, <1>4, <1>g, DmAssumption DEF DmTypes, DmRunIds,
     DmPlace, Valid, Marked, Committing, BeforeState,
     BeforeMem, Rolling
<1>6. DmOrder'
  BY <1>1, <1>2, <1>f1, <1>f2, <1>f3, <1>f4, <1>f5, <1>f6, <1>4, <1>g, DmAssumption DEF DmTypes, DmRunIds,
     DmOrder, DmPlace, Marked, Committing, BeforeState,
     BeforeMem, Rolling
<1>7. DmChain'
  BY <1>1, <1>2, <1>f1, <1>f2, <1>f3, <1>f4, <1>f5, <1>f6, <1>4, <1>g, DmAssumption DEF DmTypes, DmRunIds,
     DmChain, DmPlace, Marked, Committing, BeforeState,
     BeforeMem, Rolling
<1>8. DmFiles'
  BY <1>1, <1>2, <1>f1, <1>f2, <1>f3, <1>f4, <1>f5, <1>f6, <1>4, <1>g, DmAssumption DEF DmTypes, DmRunIds,
     DmFiles, DmPlace, EntriesNow, Entries, Marked, Committing, BeforeState,
     BeforeMem, Rolling
<1>9. DmFeeds'
  BY <1>1, <1>2, <1>f1, <1>f2, <1>f3, <1>f4, <1>f5, <1>f6, <1>4, <1>g, DmAssumption DEF DmTypes, DmRunIds,
     DmFeeds, DmPlace, Marked, Committing, BeforeState,
     BeforeMem, Rolling
<1>10. DmFacts'
  <2> SUFFICES ASSUME dmHurt \subseteq {"failed_commit"}, NEW i \in LmActive(lmRecord), NEW r \in DmRunIds,
                      lmRecord[i].refs = {DreamRef(r)}
               PROVE  r \in RunsOf(snap.state.runs) \cap Won
    BY <1>2, <1>3, <1>f2, <1>g DEF DmFacts
  <2>1. r \in RunsOf(dmState.runs) \cap Won
    BY <1>1, <1>2 DEF DmFacts, Committing, BeforeState, BeforeMem, Rolling
  <2>2. dmJob.run \notin Won
    BY <1>1, <1>2 DEF DmGws, Won, Marked
  <2> QED BY <1>f5, <2>1, <2>2
<1> QED BY <1>3, <1>4, <1>5, <1>6, <1>7, <1>8, <1>9, <1>10, <1>g DEF DmInv

LEMMA DmCommitFailedKeeps == DmInv /\ CommitFailed => DmInv'
<1> SUFFICES ASSUME DmInv, CommitFailed PROVE DmInv'
  OBVIOUS
<1>1. /\ DmTypes /\ DmGws /\ DmPlace /\ DmOrder /\ DmChain
      /\ DmFiles /\ DmFeeds /\ DmFacts /\ DmPrimary /\ LmInv
  BY DEF DmInv
<1>2. /\ dmPc = "fail"
      /\ dmPc' = "idle"
      /\ dmJob' = NoDream
      /\ UNCHANGED << dmMem, dmProf, dmBackup, dmFed, dmHurt, dmRuns, dmTxn, dmDay, dmHand >>
      /\ dmGw' = [dmGw EXCEPT ![dmJob.run] = "failed"]
  BY DEF CommitFailed, DmRest, DmIdle, dmFiles, dmBounds, dmVars, DmFault, Rolling
<1>f1. dmJob' = NoDream /\ dmJob' \in DmJobs
  <2>1. NoCandidate \in DmCands
    BY DEF DmCands
  <2> QED BY <1>2, <2>1, DmAssumption DEF NoDream, DmJobs
<1>f2. dmJob.run = dmRuns /\ dmJob.run \in DmRunIds /\ dmJob.fresh \in SUBSET DmEvidence
  BY <1>1, <1>2, DmAssumption DEF DmPlace, DmTypes, DmRunIds, DmJobs, Marked, Committing, BeforeState,
     BeforeMem, Rolling
<1>f3. /\ dmState.runs \in Seq(DmRunIds) /\ dmState.done \in SUBSET DmEvidence
       /\ \A x \in RunsOf(dmState.runs) : x < dmJob.run
  BY <1>1, <1>2, <1>f2 DEF DmTypes, DmStates, DmOrder
<1>f4. PICK longer : longer = Append(dmState.runs, dmJob.run)
  OBVIOUS
<1>f5. /\ longer \in Seq(DmRunIds) /\ Len(longer) # 0 /\ longer[Len(longer)] = dmJob.run
       /\ RunsOf(longer) = RunsOf(dmState.runs) \cup {dmJob.run}
  BY <1>f2, <1>f3, <1>f4, DmAppend
<1>f6. dmState' \in DmStates /\ dmState'.runs = longer /\ dmState'.done = dmState.done \cup dmJob.fresh
  <2>1. PICK d, n, a, b : /\ d = dmState.done \cup dmJob.fresh /\ n = MaxOf(dmState.completed, dmJob.cutoff)
                          /\ a = dmJob.cutoff /\ b = dmJob.cutoff
    OBVIOUS
  <2>2. n \in Int /\ a \in Int /\ b \in Int /\ d \in SUBSET DmEvidence
    BY <1>1, <1>f2, <1>f3, <2>1 DEF MaxOf, DmTypes, DmStates, DmJobs
  <2>3. PICK c : c = [done |-> d, runs |-> longer, completed |-> n, attempted |-> a, status |-> "completed"]
    OBVIOUS
  <2>4. dmState' = [c EXCEPT !.status = "failed", !.attempted = b]
    BY <1>f4, <2>1, <2>3 DEF CommitFailed, FailedState, Consumed
  <2>5. c \in DmStates /\ c.runs = longer /\ c.done = d
    BY <1>f5, <2>2, <2>3 DEF DmStates, DmStatus
  <2> QED BY <2>1, <2>2, <2>4, <2>5 DEF DmStates, DmStatus
<1>f7. \A x \in RunsOf(longer) : x <= dmRuns
  BY <1>1, <1>f2, <1>f3, <1>f5, DmRunsIn DEF DmTypes, DmRunIds
<1>f8. "failed_commit" \in dmHurt /\ \A snap \in dmBackup[dmJob.run] : snap.state = dmState
  BY <1>1, <1>2 DEF DmPlace
<1>3. LmInv' /\ DmPrimary' /\ lmRecord' = lmRecord
  <2>1. UNCHANGED lmKept
    BY DEF CommitFailed
  <2> QED BY <1>1, <2>1, DmMemoryKept
<1>4. DmTypes'
  BY <1>1, <1>2, <1>f1, <1>f2, <1>f3, <1>f4, <1>f5, <1>f6, <1>f7, <1>f8, DmAssumption DEF DmTypes, Marked, Committing, BeforeState,
     BeforeMem, Rolling
<1>w. dmJob.run \in DmRunIds /\ dmGw[dmJob.run] # "succeeded" /\ dmGw' = [dmGw EXCEPT ![dmJob.run] = "failed"]
  BY <1>1, <1>2, <1>f2, DmAssumption DEF DmGws, DmPlace, DmTypes, DmRunIds, Marked, Committing, BeforeState,
     BeforeMem, Rolling
<1>g. DmGws' /\ Won \subseteq Won'
  <2>1. /\ dmGw' \in [DmRunIds -> GwStatus] /\ dmGw'[dmJob.run] = "failed"
        /\ \A r \in DmRunIds : r # dmJob.run => dmGw'[r] = dmGw[r]
        /\ Won \subseteq Won'
    BY <1>1, <1>w, DmGwMoves DEF DmGws, GwStatus
  <2> QED BY <1>1, <1>1, <1>2, <1>f2, <2>1, DmAssumption DEF DmGws, DmTypes, DmPlace, DmRunIds, Marked, Committing, BeforeState,
     BeforeMem, Rolling
<1>5. DmPlace'
  BY <1>1, <1>2, <1>f1, <1>f2, <1>f3, <1>f4, <1>f5, <1>f6, <1>f7, <1>f8, <1>4, <1>g, DmAssumption DEF DmTypes, DmRunIds,
     DmPlace, Valid, Marked, Committing, BeforeState,
     BeforeMem, Rolling
<1>6. DmOrder'
  BY <1>1, <1>2, <1>f1, <1>f2, <1>f3, <1>f4, <1>f5, <1>f6, <1>f7, <1>f8, <1>4, <1>g, DmAssumption DEF DmTypes, DmRunIds,
     DmOrder, DmPlace, Marked, Committing, BeforeState,
     BeforeMem, Rolling
<1>7. DmChain'
  <2>1. Linked(longer, dmBackup)
    BY <1>f5, <1>f8 DEF Linked
  <2> QED BY <1>1, <1>2, <1>f6, <2>1 DEF DmChain
<1>8. DmFiles'
  <2> SUFFICES ASSUME dmHurt' \subseteq {"died_in_commit", "failed_commit"} PROVE DmFiles'
    BY DEF DmFiles
  <2>1. dmHurt \subseteq {"died_in_commit", "failed_commit"}
    BY <1>2
  <2>2. \A r \in DmRunIds : \A snap \in dmBackup[r] : Entries(snap.mem, snap.state, snap.prof, Won')
    BY <1>1, <1>g, <2>1, DmEntriesGrow DEF DmFiles
  <2>3. EntriesNow'
    <3>1. EntriesNow
      BY <1>1, <1>2, <2>1 DEF DmFiles
    <3> QED BY <1>2, <1>f5, <1>f6, <1>g, <3>1 DEF EntriesNow, Entries, Drawn
  <2> QED BY <1>2, <2>2, <2>3 DEF DmFiles
<1>9. DmFeeds'
  BY <1>1, <1>2, <1>f1, <1>f2, <1>f3, <1>f4, <1>f5, <1>f6, <1>f7, <1>f8, <1>4, <1>g, DmAssumption DEF DmTypes, DmRunIds,
     DmFeeds, DmPlace, Marked, Committing, BeforeState,
     BeforeMem, Rolling
<1>10. DmFacts'
  BY <1>1, <1>2, <1>f1, <1>f2, <1>f3, <1>f4, <1>f5, <1>f6, <1>f7, <1>f8, <1>4, <1>g, DmAssumption, <1>3 DEF DmTypes, DmRunIds,
     DmFacts, DmPlace, Wrote, Marked, Committing, BeforeState,
     BeforeMem, Rolling
<1> QED BY <1>3, <1>4, <1>5, <1>6, <1>7, <1>8, <1>9, <1>10, <1>g DEF DmInv

LEMMA DmRollbackBeginsKeeps == DmInv /\ RollbackBegins => DmInv'
<1> SUFFICES ASSUME DmInv, RollbackBegins PROVE DmInv'
  OBVIOUS
<1>1. /\ DmTypes /\ DmGws /\ DmPlace /\ DmOrder /\ DmChain
      /\ DmFiles /\ DmFeeds /\ DmFacts /\ DmPrimary /\ LmInv
  BY DEF DmInv
<1>2. /\ dmPc = "idle"
      /\ dmPc' = "rollback_memories"
      /\ UNCHANGED << dmMem, dmProf, dmBackup, dmTxn, dmFed, dmHurt, dmRuns, dmDay, dmHand, dmGw >>
  BY DEF RollbackBegins, DmRest, DmIdle, dmFiles, dmBounds, dmVars, DmFault, Rolling
<1>f1. PICK last : last = LastRun
  OBVIOUS
<1>f2. /\ dmState.runs \in Seq(DmRunIds) /\ Len(dmState.runs) # 0 /\ last = dmState.runs[Len(dmState.runs)]
       /\ last \in RunsOf(dmState.runs) /\ last \in DmRunIds
  <2>1. dmState.runs \in Seq(DmRunIds) /\ dmState.runs # << >>
    BY <1>1 DEF RollbackBegins, DmTypes, DmStates
  <2>2. Len(dmState.runs) # 0
    BY <2>1, EmptySeq
  <2> QED BY <1>f1, <2>1, <2>2, DmRunsIn DEF LastRun
<1>f3. dmJob' \in DmJobs /\ dmJob'.run = last
  <2>1. NoCandidate \in DmCands
    BY DEF DmCands
  <2>2. dmJob' = [NoDream EXCEPT !.run = last]
    BY <1>f1 DEF RollbackBegins
  <2>3. dmJob' = [run |-> last, first |-> 0, cutoff |-> 0, fresh |-> {}, hand |-> 0, tries |-> 0,
                  candidate |-> NoCandidate, todo |-> {}]
    BY <2>2 DEF NoDream
  <2> QED BY <1>f2, <2>1, <2>3, DmAssumption DEF DmJobs, DmRunIds
<1>f4. PICK snap \in dmBackup[last] : dmState' = snap.state
  BY <1>f1 DEF RollbackBegins
<1>f5. snap \in DmSnaps /\ snap.state \in DmStates /\ snap.state.runs \in Seq(DmRunIds)
  BY <1>1, <1>f2, DmSnapFields DEF DmTypes
<1>f6. \A snp \in dmBackup[last] : snp = snap
  BY <1>1, <1>f2 DEF DmOrder
<1>f7. RunsOf(dmState.runs) = RunsOf(snap.state.runs) \cup {last}
  BY <1>1, <1>f2 DEF DmChain, Linked
<1>f8. \A x \in RunsOf(snap.state.runs) : x <= dmRuns
  BY <1>1, <1>f7 DEF DmOrder
<1>3. LmInv' /\ DmPrimary' /\ lmRecord' = lmRecord
  <2>1. UNCHANGED lmKept
    BY DEF RollbackBegins
  <2> QED BY <1>1, <2>1, DmMemoryKept
<1>4. DmTypes'
  BY <1>1, <1>2, <1>f1, <1>f2, <1>f3, <1>f4, <1>f5, <1>f6, <1>f7, <1>f8, DmAssumption DEF DmTypes, Marked, Committing, BeforeState,
     BeforeMem, Rolling
<1>g. DmGws' /\ Won' = Won /\ Won \subseteq Won'
  BY <1>1, <1>2, <1>f1, <1>f2, <1>f3, <1>f4, <1>f5, <1>f6, <1>f7, <1>f8 DEF DmGws, Won, DmPlace, Marked, Committing, BeforeState,
     BeforeMem, Rolling
<1>5. DmPlace'
  <2>1. dmTxn' = {} /\ dmPc' \notin {"model", "fail", "unlink", "undo", "restore"} \cup BeforeState \cup Marked
    BY <1>1, <1>2 DEF DmPlace, Marked, Committing, BeforeState, BeforeMem
  <2>2. dmJob'.run = last /\ last \in DmRunIds /\ \A snp \in dmBackup'[last] : snp.state = dmState'
    BY <1>2, <1>f2, <1>f3, <1>f4, <1>f6
  <2> QED BY <1>2, <2>1, <2>2 DEF DmPlace, BeforeState
<1>6. DmOrder'
  BY <1>1, <1>2, <1>f1, <1>f2, <1>f3, <1>f4, <1>f5, <1>f6, <1>f7, <1>f8, <1>4, <1>g, DmAssumption DEF DmTypes, DmRunIds,
     DmOrder, DmPlace, Marked, Committing, BeforeState,
     BeforeMem, Rolling
<1>7. DmChain'
  BY <1>1, <1>2, <1>f1, <1>f2, <1>f3, <1>f4, <1>f5, <1>f6, <1>f7, <1>f8, <1>4, <1>g, DmAssumption DEF DmTypes, DmRunIds,
     DmChain, DmPlace, Marked, Committing, BeforeState,
     BeforeMem, Rolling
<1>8. DmFiles'
  BY <1>1, <1>2, <1>f1, <1>f2, <1>f3, <1>f4, <1>f5, <1>f6, <1>f7, <1>f8, <1>4, <1>g, DmAssumption DEF DmTypes, DmRunIds,
     DmFiles, DmPlace, EntriesNow, Entries, Marked, Committing, BeforeState,
     BeforeMem, Rolling
<1>9. DmFeeds'
  BY <1>1, <1>2, <1>f1, <1>f2, <1>f3, <1>f4, <1>f5, <1>f6, <1>f7, <1>f8, <1>4, <1>g, DmAssumption DEF DmTypes, DmRunIds,
     DmFeeds, DmPlace, Marked, Committing, BeforeState,
     BeforeMem, Rolling
<1>10. DmFacts'
  BY <1>1, <1>2, <1>f1, <1>f2, <1>f3, <1>f4, <1>f5, <1>f6, <1>f7, <1>f8, <1>4, <1>g, DmAssumption, <1>3 DEF DmTypes, DmRunIds,
     DmFacts, DmPlace, Wrote, Marked, Committing, BeforeState,
     BeforeMem, Rolling
<1> QED BY <1>3, <1>4, <1>5, <1>6, <1>7, <1>8, <1>9, <1>10, <1>g DEF DmInv

LEMMA DmRollbackMemoriesKeeps == DmInv /\ RollbackMemories => DmInv'
<1> SUFFICES ASSUME DmInv, RollbackMemories PROVE DmInv'
  OBVIOUS
<1>1. /\ DmTypes /\ DmGws /\ DmPlace /\ DmOrder /\ DmChain
      /\ DmFiles /\ DmFeeds /\ DmFacts /\ DmPrimary /\ LmInv
  BY DEF DmInv
<1>2. /\ dmPc = "rollback_memories"
      /\ dmPc' = "rollback_facts"
      /\ UNCHANGED << dmState, dmBackup, dmTxn, dmJob, dmFed, dmHurt, dmRuns, dmDay, dmHand, dmGw >>
  BY DEF RollbackMemories, DmRest, DmIdle, dmFiles, dmBounds, dmVars, DmFault, Rolling
<1>f1. PICK snap \in dmBackup[dmJob.run] : dmMem' = snap.mem /\ dmProf' = snap.prof
  BY DEF RollbackMemories
<1>f2. dmJob.run \in DmRunIds /\ snap.state = dmState
  BY <1>1, <1>2 DEF DmPlace, Rolling
<1>f3. snap \in DmSnaps /\ snap.mem \in SUBSET DmEntries /\ snap.prof \in DmProfs
  BY <1>1, <1>f2, DmSnapFields DEF DmTypes
<1>3. LmInv' /\ DmPrimary' /\ lmRecord' = lmRecord
  <2>1. UNCHANGED lmKept
    BY DEF RollbackMemories
  <2> QED BY <1>1, <2>1, DmMemoryKept
<1>4. DmTypes'
  BY <1>1, <1>2, <1>f1, <1>f2, <1>f3, DmAssumption DEF DmTypes, Marked, Committing, BeforeState,
     BeforeMem, Rolling
<1>g. DmGws' /\ Won' = Won /\ Won \subseteq Won'
  BY <1>1, <1>2, <1>f1, <1>f2, <1>f3 DEF DmGws, Won, DmPlace, Marked, Committing, BeforeState,
     BeforeMem, Rolling
<1>5. DmPlace'
  BY <1>1, <1>2, <1>f1, <1>f2, <1>f3, <1>4, <1>g, DmAssumption DEF DmTypes, DmRunIds,
     DmPlace, Valid, Marked, Committing, BeforeState,
     BeforeMem, Rolling
<1>6. DmOrder'
  BY <1>1, <1>2, <1>f1, <1>f2, <1>f3, <1>4, <1>g, DmAssumption DEF DmTypes, DmRunIds,
     DmOrder, DmPlace, Marked, Committing, BeforeState,
     BeforeMem, Rolling
<1>7. DmChain'
  BY <1>1, <1>2, <1>f1, <1>f2, <1>f3, <1>4, <1>g, DmAssumption DEF DmTypes, DmRunIds,
     DmChain, DmPlace, Marked, Committing, BeforeState,
     BeforeMem, Rolling
<1>8. DmFiles'
  BY <1>1, <1>2, <1>f1, <1>f2, <1>f3, <1>4, <1>g, DmAssumption DEF DmTypes, DmRunIds,
     DmFiles, DmPlace, EntriesNow, Entries, Marked, Committing, BeforeState,
     BeforeMem, Rolling
<1>9. DmFeeds'
  BY <1>1, <1>2, <1>f1, <1>f2, <1>f3, <1>4, <1>g, DmAssumption DEF DmTypes, DmRunIds,
     DmFeeds, DmPlace, Marked, Committing, BeforeState,
     BeforeMem, Rolling
<1>10. DmFacts'
  BY <1>1, <1>2, <1>f1, <1>f2, <1>f3, <1>4, <1>g, DmAssumption, <1>3 DEF DmTypes, DmRunIds,
     DmFacts, DmPlace, Wrote, Marked, Committing, BeforeState,
     BeforeMem, Rolling
<1> QED BY <1>3, <1>4, <1>5, <1>6, <1>7, <1>8, <1>9, <1>10, <1>g DEF DmInv

LEMMA DmRollbackFactsKeeps == DmInv /\ RollbackFacts => DmInv'
<1> SUFFICES ASSUME DmInv, RollbackFacts PROVE DmInv'
  OBVIOUS
<1>1. /\ DmTypes /\ DmGws /\ DmPlace /\ DmOrder /\ DmChain
      /\ DmFiles /\ DmFeeds /\ DmFacts /\ DmPrimary /\ LmInv
  BY DEF DmInv
<1>2. /\ dmPc = "rollback_facts"
      /\ dmPc' = "idle"
      /\ dmJob' = NoDream
      /\ UNCHANGED << dmState, dmMem, dmProf, dmBackup, dmTxn, dmFed, dmHurt, dmRuns, dmDay, dmHand, dmGw >>
  BY DEF RollbackFacts, DmRest, DmIdle, dmFiles, dmBounds, dmVars, DmFault, Rolling
<1>f1. dmJob' = NoDream /\ dmJob' \in DmJobs
  <2>1. NoCandidate \in DmCands
    BY DEF DmCands
  <2> QED BY <1>2, <2>1, DmAssumption DEF NoDream, DmJobs
<1>f2. PICK new : new = Compensated(lmRecord, DreamRef(dmJob.run)) /\ lmRecord' = new /\ Enqueues(lmRecord, new)
        /\ UNCHANGED lmOthers
  BY DEF RollbackFacts
<1>f3. LmTypes
  BY <1>1 DEF LmInv
<1>3. LmInv' /\ DmPrimary'
  <2>1. MovesOn(new)
    BY <1>f2, <1>f3, LmCompensated
  <2>2. LmInv'
    BY <1>1, <1>f2, <2>1, DmMemoryWritten
  <2>3. DmPrimary'
    BY <1>1, <1>f2, <1>f3, DmTakenBack DEF DmPrimary
  <2> QED BY <2>2, <2>3
<1>4. DmTypes'
  BY <1>1, <1>2, <1>f1, <1>f2, <1>f3, DmAssumption DEF DmTypes, Marked, Committing, BeforeState,
     BeforeMem, Rolling
<1>g. DmGws' /\ Won' = Won /\ Won \subseteq Won'
  BY <1>1, <1>2, <1>f1, <1>f2, <1>f3 DEF DmGws, Won, DmPlace, Marked, Committing, BeforeState,
     BeforeMem, Rolling
<1>5. DmPlace'
  BY <1>1, <1>2, <1>f1, <1>f2, <1>f3, <1>4, <1>g, DmAssumption DEF DmTypes, DmRunIds,
     DmPlace, Valid, Marked, Committing, BeforeState,
     BeforeMem, Rolling
<1>6. DmOrder'
  BY <1>1, <1>2, <1>f1, <1>f2, <1>f3, <1>4, <1>g, DmAssumption DEF DmTypes, DmRunIds,
     DmOrder, DmPlace, Marked, Committing, BeforeState,
     BeforeMem, Rolling
<1>7. DmChain'
  BY <1>1, <1>2, <1>f1, <1>f2, <1>f3, <1>4, <1>g, DmAssumption DEF DmTypes, DmRunIds,
     DmChain, DmPlace, Marked, Committing, BeforeState,
     BeforeMem, Rolling
<1>8. DmFiles'
  BY <1>1, <1>2, <1>f1, <1>f2, <1>f3, <1>4, <1>g, DmAssumption DEF DmTypes, DmRunIds,
     DmFiles, DmPlace, EntriesNow, Entries, Marked, Committing, BeforeState,
     BeforeMem, Rolling
<1>9. DmFeeds'
  BY <1>1, <1>2, <1>f1, <1>f2, <1>f3, <1>4, <1>g, DmAssumption DEF DmTypes, DmRunIds,
     DmFeeds, DmPlace, Marked, Committing, BeforeState,
     BeforeMem, Rolling
<1>10. DmFacts'
  <2> SUFFICES ASSUME dmHurt \subseteq {"failed_commit"}, NEW i \in LmActive(new), NEW r \in DmRunIds,
                      new[i].refs = {DreamRef(r)}
               PROVE  r \in RunsOf(dmState.runs) \cap Won
    BY <1>2, <1>f2, <1>g DEF DmFacts
  <2>1. /\ i \in LmIds /\ lmRecord[i].status = "active" /\ lmRecord[i].refs = {DreamRef(r)}
        /\ new[i].refs # {DreamRef(dmJob.run)}
    BY <1>1, <1>f2, <1>f3, DmTakenBack DEF LmActive
  <2>2. i \in LmActive(lmRecord)
    BY <1>f3, <2>1 DEF LmActive, LmTypes
  <2>3. r \in RunsOf(dmState.runs) \cap Won \/ r = dmJob.run
    BY <1>1, <2>1, <2>2 DEF DmFacts
  <2>4. r # dmJob.run
    BY <2>1
  <2> QED BY <2>3, <2>4
<1> QED BY <1>3, <1>4, <1>5, <1>6, <1>7, <1>8, <1>9, <1>10, <1>g DEF DmInv

LEMMA DmDiesKeeps == DmInv /\ DreamDies => DmInv'
<1> SUFFICES ASSUME DmInv, DreamDies PROVE DmInv'
  OBVIOUS
<1>1. /\ DmTypes /\ DmGws /\ DmPlace /\ DmOrder /\ DmChain
      /\ DmFiles /\ DmFeeds /\ DmFacts /\ DmPrimary /\ LmInv
  BY DEF DmInv
<1>2. /\ dmPc \notin {"idle", "ensure"}
      /\ dmPc' = "ensure"
      /\ dmJob' = NoDream
      /\ UNCHANGED << dmState, dmMem, dmProf, dmBackup, dmTxn, dmFed, dmRuns, dmDay, dmHand >>
      /\ dmHurt \subseteq dmHurt'
      /\ dmPc \in Rolling => "died_in_rollback" \in dmHurt'
      /\ dmPc \in Committing \cup {"undo"} /\ Wrote => "died_in_commit" \in dmHurt'
      /\ dmGw' = [dmGw EXCEPT ![dmJob.run] = IF dmGw[dmJob.run] = "running" THEN "interrupted" ELSE dmGw[dmJob.run]]
  BY DEF DreamDies, DmRest, DmIdle, dmFiles, dmBounds, dmVars, DmFault, Rolling,
     Committing, BeforeState, BeforeMem
<1>f1. dmJob' = NoDream /\ dmJob' \in DmJobs
  <2>1. NoCandidate \in DmCands
    BY DEF DmCands
  <2> QED BY <1>2, <2>1, DmAssumption DEF NoDream, DmJobs
<1>3. LmInv' /\ DmPrimary' /\ lmRecord' = lmRecord
  <2>1. UNCHANGED lmKept
    BY DEF DreamDies
  <2> QED BY <1>1, <2>1, DmMemoryKept
<1>4. DmTypes'
  BY <1>1, <1>2, <1>f1, DmAssumption DEF DmTypes, Marked, Committing, BeforeState,
     BeforeMem, Rolling
<1>g. DmGws' /\ Won \subseteq Won'
  <2>1. PICK s : s = IF dmGw[dmJob.run] = "running" THEN "interrupted" ELSE dmGw[dmJob.run]
    OBVIOUS
  <2>2. dmJob.run \in DmRunIds
    BY <1>1, <1>2, DmAssumption DEF DmTypes, DmPlace, DmRunIds, Marked, Committing, BeforeState,
     BeforeMem, Rolling
  <2>3. /\ dmGw' \in [DmRunIds -> GwStatus] /\ dmGw'[dmJob.run] = s
        /\ \A r \in DmRunIds : r # dmJob.run => dmGw'[r] = dmGw[r]
    BY <1>1, <1>2, <2>1, <2>2 DEF DmGws, GwStatus
  <2>4. Won \subseteq Won'
    BY <2>1, <2>3 DEF Won
  <2>5. dmPc \in {"model", "fail"} \cup Marked => dmJob.run = dmRuns /\ s = "interrupted"
    BY <1>1, <2>1 DEF DmGws, DmPlace
  <2>6. dmPc \in Rolling => \A r \in DmRunIds : r > dmRuns => dmGw'[r] = "none"
    BY <1>1, <2>1, <2>3 DEF DmGws
  <2>7. dmPc \notin Marked => dmTxn = {}
    BY <1>1, <1>2 DEF DmPlace, DmTypes
  <2>8. dmPc \notin Rolling => dmPc \in {"model", "fail"} \cup Marked
    BY <1>1, <1>2 DEF DmTypes
  <2>9. \A r \in DmRunIds : r > dmRuns => dmGw'[r] = "none"
    BY <1>1, <2>3, <2>5, <2>6, <2>8, DmAssumption DEF DmGws, DmTypes, DmRunIds
  <2>10. dmPc \in Marked => dmTxn = {dmJob.run}
    BY <1>1 DEF DmPlace
  <2>11. \A r \in dmTxn : dmGw'[r] = "interrupted"
    BY <2>3, <2>5, <2>7, <2>10
  <2>12. dmPc' \notin {"model", "fail"} \cup Marked
    BY <1>2 DEF Marked, Committing, BeforeState,
     BeforeMem, Rolling
  <2> QED BY <1>2, <2>3, <2>4, <2>9, <2>11, <2>12 DEF DmGws
<1>5. DmPlace'
  BY <1>1, <1>2, <1>f1, <1>4, <1>g, DmAssumption DEF DmTypes, DmRunIds,
     DmPlace, Valid, Marked, Committing, BeforeState,
     BeforeMem, Rolling
<1>6. DmOrder'
  BY <1>1, <1>2, <1>f1, <1>4, <1>g, DmAssumption DEF DmTypes, DmRunIds,
     DmOrder, DmPlace, Marked, Committing, BeforeState,
     BeforeMem, Rolling
<1>7. DmChain'
  BY <1>1, <1>2, <1>f1, <1>4, <1>g, DmAssumption DEF DmTypes, DmRunIds,
     DmChain, DmPlace, Marked, Committing, BeforeState,
     BeforeMem, Rolling
<1>8. DmFiles'
  <2> SUFFICES ASSUME dmHurt' \subseteq {"died_in_commit", "failed_commit"} PROVE DmFiles'
    BY DEF DmFiles
  <2>1. dmHurt \subseteq {"died_in_commit", "failed_commit"} /\ dmPc \notin Rolling
    BY <1>2
  <2>2. \A r \in DmRunIds : \A snap \in dmBackup[r] : Entries(snap.mem, snap.state, snap.prof, Won')
    BY <1>1, <1>g, <2>1, DmEntriesGrow DEF DmFiles
  <2>3. dmTxn = {} => EntriesNow'
    <3> SUFFICES ASSUME dmTxn = {} PROVE EntriesNow'
      OBVIOUS
    <3>1. dmPc \in {"model", "fail"}
      BY <1>1, <1>2, <2>1 DEF DmTypes, DmPlace
    <3>2. EntriesNow
      BY <1>1, <2>1, <3>1 DEF DmFiles
    <3> QED BY <1>2, <1>g, <3>2, DmEntriesGrow DEF EntriesNow
  <2> QED BY <1>2, <2>2, <2>3 DEF DmFiles
<1>9. DmFeeds'
  BY <1>1, <1>2, <1>f1, <1>4, <1>g, DmAssumption DEF DmTypes, DmRunIds,
     DmFeeds, DmPlace, Marked, Committing, BeforeState,
     BeforeMem, Rolling
<1>10. DmFacts'
  BY <1>1, <1>2, <1>f1, <1>4, <1>g, DmAssumption, <1>3 DEF DmTypes, DmRunIds,
     DmFacts, DmPlace, Wrote, Marked, Committing, BeforeState,
     BeforeMem, Rolling
<1> QED BY <1>3, <1>4, <1>5, <1>6, <1>7, <1>8, <1>9, <1>10, <1>g DEF DmInv

LEMMA DmEnsureKeeps == DmInv /\ Ensure => DmInv'
<1> SUFFICES ASSUME DmInv, Ensure PROVE DmInv'
  OBVIOUS
<1>1. /\ DmTypes /\ DmGws /\ DmPlace /\ DmOrder /\ DmChain
      /\ DmFiles /\ DmFeeds /\ DmFacts /\ DmPrimary /\ LmInv
  BY DEF DmInv
<1>2. /\ dmPc = "ensure"
      /\ dmPc' = "idle"
      /\ dmTxn' = {}
      /\ UNCHANGED << dmBackup, dmJob, dmFed, dmHurt, dmRuns, dmDay, dmHand, dmGw >>
  BY DEF Ensure, DmRest, DmIdle, dmFiles, dmBounds, dmVars, DmFault
<1>f1. \/ dmTxn = {} /\ UNCHANGED << dmState, dmMem, dmProf >>
       \/ \E r \in dmTxn : \E snap \in dmBackup[r] : dmState' = snap.state /\ dmMem' = snap.mem /\ dmProf' = snap.prof
  BY DEF Ensure, dmFiles
<1>3. LmInv' /\ DmPrimary' /\ lmRecord' = lmRecord
  <2>1. UNCHANGED lmKept
    BY DEF Ensure
  <2> QED BY <1>1, <2>1, DmMemoryKept
<1>g. DmGws' /\ Won' = Won
  BY <1>1, <1>2 DEF DmGws, Won, Marked, Committing, BeforeState,
     BeforeMem, Rolling
<1>4. CASE dmTxn = {} /\ UNCHANGED << dmState, dmMem, dmProf >>
  <2>1. DmTypes'
    BY <1>1, <1>2, <1>4 DEF DmTypes
  <2>2. DmPlace' /\ DmOrder' /\ DmChain'
    BY <1>1, <1>2, <1>4, DmAssumption DEF DmPlace, DmOrder, DmChain, DmTypes,
       Marked, Committing, BeforeState, BeforeMem, Rolling
  <2>3. DmFiles'
    BY <1>1, <1>2, <1>4, <1>g DEF DmFiles, EntriesNow
  <2>5. DmFeeds'
    BY <1>1, <1>2, <1>4 DEF DmFeeds
  <2>4. DmFacts'
    BY <1>1, <1>2, <1>3, <1>4, <1>g DEF DmFacts, Marked, Committing, BeforeState, BeforeMem,
       Rolling
  <2> QED BY <1>3, <1>g, <2>1, <2>2, <2>3, <2>4, <2>5 DEF DmInv
<1>5. ASSUME NEW r \in dmTxn, NEW snap \in dmBackup[r], dmState' = snap.state, dmMem' = snap.mem, dmProf' = snap.prof
      PROVE  DmInv'
  <2>1. r \in DmRunIds /\ snap \in DmSnaps
    BY <1>1 DEF DmTypes
  <2>2. /\ snap.state \in DmStates /\ snap.mem \in SUBSET DmEntries /\ snap.prof \in DmProfs
        /\ snap.state.runs \in Seq(DmRunIds)
    BY <2>1, DmSnapFields
  <2>3. DmTypes'
    BY <1>1, <1>2, <1>5, <2>2 DEF DmTypes
  <2>4. \A x \in RunsOf(snap.state.runs) : x <= dmRuns
    <3>1. r <= dmRuns /\ \A x \in RunsOf(snap.state.runs) : x < r
      BY <1>1, <2>1 DEF DmOrder
    <3>2. RunsOf(snap.state.runs) \subseteq DmRunIds /\ dmRuns \in Nat /\ r \in Nat
      BY <1>1, <2>1, <2>2, DmRunsIn, DmAssumption DEF DmTypes, DmRunIds
    <3> QED BY <3>1, <3>2 DEF DmRunIds
  <2>5. DmPlace'
    BY <1>1, <1>2, <1>5 DEF DmPlace, Marked, Committing, BeforeState, BeforeMem, Rolling
  <2>6. DmOrder' /\ DmChain'
    BY <1>1, <1>2, <1>5, <2>1, <2>4 DEF DmOrder, DmChain, Marked, Committing, BeforeState,
       BeforeMem, Rolling
  <2>7. DmFiles'
    BY <1>1, <1>2, <1>5, <1>g, <2>1 DEF DmFiles, EntriesNow
  <2>9. DmFeeds'
    BY <1>1, <1>2, <1>5, <2>1 DEF DmFeeds
  <2>8. DmFacts'
    <3> SUFFICES ASSUME dmHurt \subseteq {"failed_commit"}, NEW i \in LmActive(lmRecord), NEW d \in DmRunIds,
                        lmRecord[i].refs = {DreamRef(d)}
                 PROVE  d \in RunsOf(snap.state.runs) \cap Won
      BY <1>2, <1>3, <1>5, <1>g DEF DmFacts
    <3>1. d \in RunsOf(dmState.runs) \cap Won
      BY <1>1, <1>2 DEF DmFacts, Committing, BeforeState, BeforeMem, Rolling
    <3>2. RunsOf(dmState.runs) \subseteq RunsOf(snap.state.runs) \cup {r} /\ r \notin Won
      BY <1>1, <1>2, <1>5 DEF DmPlace, DmGws, Won
    <3> QED BY <3>1, <3>2
  <2> QED BY <1>3, <1>g, <2>3, <2>5, <2>6, <2>7, <2>8, <2>9 DEF DmInv
<1> QED BY <1>f1, <1>4, <1>5


LEMMA DmInitial == LmInit /\ DmInit => DmInv
<1> SUFFICES ASSUME LmInit, DmInit PROVE DmInv
  OBVIOUS
<1>1. LmInv /\ DmPrimary
  BY LmInitial DEF LmInit, NoRow, DmPrimary
<1>2. PICK s : s = [done |-> {}, runs |-> << >>, completed |-> 0, attempted |-> 0, status |-> "none"]
  OBVIOUS
<1>3. s \in DmStates /\ s.done = {} /\ s.runs = << >> /\ Len(s.runs) = 0 /\ RunsOf(s.runs) = {}
  BY <1>2 DEF DmStates, DmStatus, RunsOf
<1>4. PICK p : p = [hand |-> 0, managed |-> {}]
  OBVIOUS
<1>5. p \in DmProfs /\ p.managed = {}
  BY <1>4 DEF DmProfs
<1>6. NoDream \in DmJobs
  <2>1. NoCandidate \in DmCands
    BY DEF DmCands
  <2> QED BY <2>1, DmAssumption DEF NoDream, DmJobs
<1>7. /\ dmState = s /\ dmProf = p /\ dmMem = {} /\ dmPc = "idle" /\ dmJob = NoDream /\ dmRuns = 0 /\ dmTxn = {}
      /\ dmDay = 1 /\ dmHand = 0 /\ dmHurt = {} /\ dmBackup = [r \in DmRunIds |-> {}] /\ dmFed = [r \in DmRunIds |-> {}]
  BY <1>2, <1>4 DEF DmInit, DmRunIds
<1>8. DmTypes
  BY <1>3, <1>5, <1>6, <1>7, DmAssumption DEF DmTypes, DmRunIds
<1>9. DmPlace /\ DmOrder
  BY <1>3, <1>7 DEF DmPlace, DmOrder, Marked, Committing, BeforeState, BeforeMem, Rolling
<1>10. DmChain
  BY <1>3, <1>7 DEF DmChain, Linked
<1>11. DmFiles /\ DmFeeds
  BY <1>3, <1>5, <1>7 DEF DmFiles, DmFeeds, EntriesNow, Entries, Fed, Drawn, ActiveFacts
<1>13. DmGws
  BY <1>7 DEF DmInit, DmGws, GwStatus, DmRunIds, Marked, Committing, BeforeState, BeforeMem
<1>12. DmFacts
  <2>1. LmActive(lmRecord) = {}
    BY DEF LmInit, NoRow, LmActive
  <2> QED BY <2>1 DEF DmFacts
<1> QED BY <1>1, <1>8, <1>9, <1>10, <1>11, <1>12, <1>13 DEF DmInv

LEMMA DmStep == DmInv /\ [DmNext]_<<dmVars, lmVars>> => DmInv'
<1> SUFFICES ASSUME DmInv, [DmNext]_<<dmVars, lmVars>> PROVE DmInv'
  OBVIOUS
<1>1. CASE UNCHANGED <<dmVars, lmVars>>
  <2>1. /\ UNCHANGED << dmState, dmMem, dmProf, dmBackup, dmFed, dmHurt, dmRuns, dmHand, dmTxn, dmDay, dmPc, dmJob, dmGw >>
        /\ UNCHANGED lmKept
    BY <1>1 DEF dmVars, dmFiles, dmBounds, lmKept, lmOthers, lmVars, lmIndexVars,
       lmVectorVars, lmRecallVars, lmFileVars
  <2>2. LmInv' /\ DmPrimary' /\ lmRecord' = lmRecord
    BY <2>1, DmMemoryKept DEF DmInv
  <2>3. NewMem' = NewMem /\ Won' = Won /\ (Wrote' <=> Wrote)
    BY <2>1 DEF NewMem, Won, Wrote
  <2>4. DmTypes' /\ DmGws' /\ DmPlace' /\ DmOrder' /\ DmChain'
    BY <2>1 DEF DmInv, DmTypes, DmGws, DmPlace, DmOrder, DmChain, Valid
  <2>5. DmFiles'
    BY <2>1, <2>3 DEF DmInv, DmFiles, EntriesNow
  <2>6. DmFeeds' /\ DmFacts'
    BY <2>1, <2>2, <2>3 DEF DmInv, DmFeeds, DmFacts
  <2> QED BY <2>2, <2>4, <2>5, <2>6 DEF DmInv
<1>2. CASE Tick
  <2>1. DmIdle /\ Begins(1, Due) /\ Due \in Int
    BY <1>2 DEF Tick, Due, DmInv, DmTypes
  <2> QED BY <2>1, DmBeginsKeeps
<1>3. CASE \E d \in 1 .. dmDay : DreamDay(d)
  <2>1. PICK d \in Int : DmIdle /\ Begins(d, d)
    BY <1>3 DEF DreamDay, DmInv, DmTypes
  <2> QED BY <2>1, DmBeginsKeeps
<1>4. CASE AnswersFail \/ DreamTimesOut
  BY <1>4, DmFailedKeeps DEF AnswersFail, DreamTimesOut
<1> QED
  BY <1>1, <1>2, <1>3, <1>4, DmAdvanceCursorKeeps, DmNoopKeeps, DmPrepareKeeps,
     DmInvalidKeeps, DmPauseKeeps, DmResumeKeeps,
     DmSaysKeeps, DmNextDayKeeps, DmEditsKeeps, DmCommitFactKeeps,
     DmCommitProfileKeeps, DmCommitMemoriesKeeps,
     DmCommitStateKeeps, DmCommitEndsKeeps, DmCommitFailsKeeps, DmUndoFactsKeeps,
     DmUndoFilesKeeps, DmCommitFailedKeeps,
     DmRollbackBeginsKeeps, DmRollbackMemoriesKeeps,
     DmRollbackFactsKeeps, DmDiesKeeps, DmEnsureKeeps
  DEF DmNext

LEMMA DmSoundNow == DmInv => DreamSound
<1> SUFFICES ASSUME DmInv PROVE DreamSound
  OBVIOUS
<1>1. DmTypes /\ DmFiles /\ DmFeeds /\ DmFacts
  BY DEF DmInv
<1>2. DmTypeOK
  BY <1>1 DEF DmTypes, DmTypeOK, DmStates, DmRunIds, Marked, Committing, BeforeState,
     BeforeMem, Rolling
<1>3. dmState.runs \in Seq(DmRunIds) /\ dmState.done \in SUBSET DmEvidence
  BY <1>1 DEF DmTypes, DmStates
<1>4. /\ SuccessfulRuns = RunsOf(dmState.runs) /\ RunsOf(dmState.runs) \subseteq DmRunIds
      /\ CountedRuns = RunsOf(dmState.runs) \cap Won
  <2>1. SuccessfulRuns = RunsOf(dmState.runs) /\ RunsOf(dmState.runs) \subseteq DmRunIds
    BY <1>3, DmRunsIn DEF SuccessfulRuns, RunsOf
  <2> QED BY <2>1 DEF CountedRuns, Won
<1>5. DmIdle /\ dmHurt \subseteq {"died_in_commit", "failed_commit"} => EntriesAgree
  BY <1>1, <1>4 DEF DmIdle, DmFiles, EntriesNow, Entries, Drawn, EntriesAgree
<1>6. ASSUME DmIdle, dmHurt \subseteq {"died_in_commit"} PROVE EvidenceAgrees
  <2>1. \A e \in DmEvidence : e \in dmState.done <=> \E r \in RunsOf(dmState.runs) : e \in dmFed[r]
    BY <1>1, <1>6 DEF DmIdle, DmFeeds, Fed
  <2>2. \A r \in RunsOf(dmState.runs) : dmFed[r] \subseteq DmEvidence
    BY <1>1, <1>4 DEF DmTypes
  <2> QED BY <1>3, <1>4, <2>1, <2>2 DEF EvidenceAgrees
<1>7. FactsFollowRuns
  <2>1. "idle" \notin Committing \cup {"undo"} \cup Rolling
    BY DEF Rolling, Committing, BeforeState, BeforeMem
  <2> QED BY <1>1, <1>4, <2>1 DEF DmFacts, FactsFollowRuns, DmIdle, DmRunIds
<1> QED BY <1>2, <1>5, <1>6, <1>7 DEF DreamSound, DreamFilesAgree

(* dream/service.py: whenever no Dream runs, the entries and the managed      *)
(* section agree and come from runs that count, the processed evidence is     *)
(* what runs consumed, and a fact that only one run vouches for is recalled   *)
(* only while that run counts - not when its commit failed between two facts  *)
(* or files, however the undoing was interrupted; for any number of Dreams,   *)
(* failures, deaths and rollbacks, with the exceptions the properties name;   *)
(* structured memory stays sound under the Dream's writes.                    *)
THEOREM DreamAlwaysSound == DmSpec => [](DreamSound /\ MemorySound)
<1>1. DmInv => DreamSound /\ MemorySound
  BY DmSoundNow, LmSoundNow DEF DmInv
<1> HIDE DEF DmInv
<1> QED BY <1>1, DmInitial, DmStep, PTL DEF DmSpec
=============================================================================
