---------------------------- MODULE DepTracking ----------------------------
(***************************************************************************)
(* Dependency snapshots and the undo of a deploy's package transaction:    *)
(* deploy.sh takes a snapshot before and after it installs prerequisites,  *)
(* and brackets the install to learn which dnf/yum transaction it made;    *)
(* the relay lists the snapshots and, for an admin, starts the root unit   *)
(* edy-rdp-depcheck-rollback, which decides for itself what to undo.       *)
(*                                                                         *)
(* Anybody else on the host may run the package manager at any time        *)
(* between two steps, a deploy may stop anywhere, and the clock may be set *)
(* back.  A transaction's id is its place in `history`, and its entry the  *)
(* id it undoes, or 0; the package manager's own lock makes it one step.   *)
(***************************************************************************)
EXTENDS PackageInventory

CONSTANTS
  Managers,     \* what detect_pm may find on this host
  Inventories,  \* the inventories the host may have
  MaxTx,        \* bound: transactions
  MaxDeploys,   \* bound: deploys and snapshots by hand
  MaxClock      \* bound: seconds

Native == {"dnf", "yum"}

ASSUME BoundsAssumption == MaxTx \in Nat /\ MaxDeploys \in Nat /\ MaxClock \in Nat \ {0}

(* Inventories list packages: a name, an architecture and a version.       *)
ASSUME InventoriesAssumption ==
  \A i \in Inventories :
    /\ Len(i) \in Nat /\ DOMAIN i = 1..Len(i)
    /\ \A n \in DOMAIN i :
         /\ i[n] = [name    |-> i[n].name,
                    arch    |-> i[n].arch,
                    version |-> i[n].version]
         /\ i[n].name # None /\ i[n].version.number \in DottedNumber

(* What a snapshot may list: a query that fails lists nothing.             *)
Listings == Inventories \cup {<<>>}

VARIABLES
  pm,        \* detect_pm() on this host
  inv,       \* what is installed
  history,   \* the transactions of dnf/yum history
  clock,     \* now, in seconds
  files,     \* dep-history/: time stamp -> snapshot, None: no such file
  deploy,    \* the deploy.sh (or snapshot by hand) that runs
  unit,      \* the rollback unit
  deploys,   \* how many there have been
  bracketed, \* history: transactions made inside some deploy's bracket
  newest,    \* history: the snapshot written last, while the clock runs on
  setBack    \* history: the clock has been set back

hostVars  == <<pm, inv, history, clock, deploys>>
ghostVars == <<bracketed, newest, setBack>>
vars == <<hostVars, files, deploy, unit, ghostVars>>

Stamps == 1..MaxClock
TxIds  == 1..MaxTx
Labels == {"before", "after", "none"}

Transactions == 0..MaxTx
Snapshot == [label : Labels, tx : TxIds \cup {None}, inv : Listings,
             noncompliant : Nat, changed : BOOLEAN, summary : BOOLEAN]

ASSUME NoneIsNothing ==
  None \notin Int /\ None \notin Listings /\ None \notin Snapshot

NoDeploy == [pc |-> "idle", label |-> "none", seen |-> None,
             stamp |-> None, before |-> None, tx |-> None]
NoUnit   == [pc |-> "idle", tx |-> None]

Init ==
  /\ pm \in Managers /\ inv \in Inventories
  /\ history = <<>> /\ clock = 1 /\ deploys = 0
  /\ files = [s \in Stamps |-> None]
  /\ deploy = NoDeploy /\ unit = NoUnit
  /\ bracketed = {} /\ newest = None /\ setBack = FALSE

-----------------------------------------------------------------------------
(* The package manager (external). *)

InBracket == deploy.pc \in {"install", "installed"}

(* One transaction: on dnf/yum it gets the next id. *)
Transact(of, new) ==
  /\ Len(history) < MaxTx
  /\ inv' = new
  /\ IF pm \in Native
     THEN /\ history' = Append(history, of)
          /\ bracketed' = IF InBracket THEN bracketed \cup {Len(history')}
                                       ELSE bracketed
     ELSE UNCHANGED <<history, bracketed>>
  /\ UNCHANGED <<pm, clock, deploys, newest, setBack>>

(* An operator, or unattended upgrades. *)
OtherTransaction ==
  /\ \E new \in Inventories \ {inv} : Transact(0, new)
  /\ UNCHANGED <<files, deploy, unit>>

ClockTicks ==
  /\ clock < MaxClock
  /\ clock' = clock + 1
  /\ UNCHANGED <<pm, inv, history, deploys, files, deploy, unit, ghostVars>>

ClockSetBack ==
  /\ \E c \in Stamps : c < clock /\ clock' = c
  /\ setBack' = TRUE /\ newest' = None
  /\ UNCHANGED <<pm, inv, history, deploys, files, deploy, unit, bracketed>>

-----------------------------------------------------------------------------
(* The snapshot directory as its readers see it. *)

OnDisk == {s \in Stamps : files[s] # None}

(* The JSON files of the directory, by name.  A companion sorts after its  *)
(* snapshot: "<stamp>.json" < "<stamp>.summary.json".                      *)
JsonFiles == {<<s, "json">> : s \in OnDisk} \cup
             {<<s, "summary">> : s \in {t \in OnDisk : files[t].summary}}
Sorts(f, g) ==
  \/ f[1] > g[1]
  \/ f[1] = g[1] /\ (f[2] = "summary" \/ g[2] = "json")

LatestSnapshot_AnyFile ==
  IF JsonFiles = {} THEN None
  ELSE LET f == CHOOSE f \in JsonFiles : \A g \in JsonFiles : Sorts(f, g)
       IN IF f[2] = "json" THEN f[1] ELSE None

(* load_snapshot(dir, "latest"): the greatest name, companions left out. *)
LatestSnapshot ==
  LET full == {f \in JsonFiles : f[2] = "json"} IN
  IF full = {} THEN None
  ELSE (CHOOSE f \in full : \A g \in full : Sorts(f, g))[1]

ListSnapshots_CompanionsOnly == {s \in OnDisk : files[s].summary}

(* list_snapshots(): each snapshot is listed from its companion or, where  *)
(* that is missing, from its own summary.                                  *)
ListSnapshots == OnDisk

(* DepCheck.status(): the first of the list, newest first. *)
PanelShows ==
  IF ListSnapshots = {} THEN None
  ELSE CHOOSE s \in ListSnapshots : \A t \in ListSnapshots : t <= s

-----------------------------------------------------------------------------
(* edy-rdp-depsnapshot snapshot, run by deploy.sh. *)

AfterSnapshot ==
  IF deploy.label = "before" THEN [deploy EXCEPT !.pc = "deps", !.seen = None,
                                                 !.stamp = None]
                             ELSE NoDeploy

(* deploy.sh gets to its first snapshot, or an operator takes one by hand. *)
StartDeploy ==
  /\ deploy.pc = "idle" /\ deploys < MaxDeploys
  /\ deploys' = deploys + 1
  /\ \E l \in {"before", "none"} : deploy' = [NoDeploy EXCEPT !.pc = "gather", !.label = l]
  /\ UNCHANGED <<pm, inv, history, clock, files, unit, ghostVars>>

(* gather_inventory and build_tracked. *)
Gather ==
  /\ deploy.pc = "gather"
  /\ \E found \in {inv, <<>>} : deploy' = [deploy EXCEPT !.pc = "write", !.seen = found]
  /\ UNCHANGED <<hostVars, files, unit, ghostVars>>

AttributableTx_Baseline(label, tx) ==
  IF pm \in Native THEN Len(history) ELSE None

(* attributable_transaction_id: what this deploy's own bracket saw. *)
AttributableTx(label, tx) ==
  IF pm \in Native /\ label = "after" THEN tx ELSE None

(* The previous snapshot is loaded, the time taken and the full file       *)
(* written; a file of the same second is replaced.                         *)
WriteSnapshot ==
  /\ deploy.pc = "write"
  /\ LET prev == LatestSnapshot IN
       files' = [files EXCEPT ![clock] =
         [label        |-> deploy.label,
          tx           |-> AttributableTx(deploy.label, deploy.tx),
          inv          |-> deploy.seen,
          noncompliant |-> Noncompliant(deploy.seen),
          changed      |-> prev = None \/ Differs(files[prev].inv, deploy.seen),
          summary      |-> files[clock] # None /\ files[clock].summary]]
  /\ newest' = IF setBack THEN None ELSE clock
  /\ deploy' = [deploy EXCEPT !.pc = "summary", !.stamp = clock]
  /\ UNCHANGED <<hostVars, unit, bracketed, setBack>>

(* Its companion follows. *)
WriteSummary ==
  /\ deploy.pc = "summary"
  /\ files' = [files EXCEPT ![deploy.stamp].summary = TRUE]
  /\ deploy' = AfterSnapshot
  /\ UNCHANGED <<hostVars, unit, ghostVars>>

(* Best-effort: a snapshot that fails half-way fails no deploy. *)
SnapshotFails ==
  /\ deploy.pc \in {"gather", "write", "summary"}
  /\ deploy' = AfterSnapshot
  /\ UNCHANGED <<hostVars, files, unit, ghostVars>>

-----------------------------------------------------------------------------
(* deploy.sh's install_deps. *)

Read_Unchecked == {Len(history), 0}

(* depsnapshot_current_tx: the newest transaction id, 0 for none; or the   *)
(* query failed.  (Not a dnf/yum host: no id.)                             *)
Read == {IF pm \in Native THEN Len(history) ELSE 0, None}

(* No --with-deps, or nothing is missing.  The rest of the deploy, up to   *)
(* its second snapshot, touches nothing of this.                           *)
NoDeps ==
  /\ deploy.pc = "deps"
  /\ deploy' = [deploy EXCEPT !.pc = "gather", !.label = "after"]
  /\ UNCHANGED <<hostVars, files, unit, ghostVars>>

ReadBefore ==
  /\ deploy.pc = "deps"
  /\ \E t \in Read : deploy' = [deploy EXCEPT !.pc = "install", !.before = t]
  /\ UNCHANGED <<hostVars, files, unit, ghostVars>>

(* The install command makes one transaction, or finds nothing to do. *)
Install ==
  /\ deploy.pc = "install"
  /\ deploy' = [deploy EXCEPT !.pc = "installed"]
  /\ \/ \E new \in Inventories \ {inv} : Transact(0, new)
     \/ UNCHANGED <<hostVars, ghostVars>>
  /\ UNCHANGED <<files, unit>>

(* The second reading; the bracket is closed, and believed only if both    *)
(* readings succeeded and differ.                                          *)
ReadAfter ==
  /\ deploy.pc = "installed"
  /\ \E t \in Read :
       deploy' = [deploy EXCEPT
         !.pc = "gather", !.label = "after", !.before = None,
         !.tx = IF /\ deploy.before # None /\ t # None
                   /\ t # 0 /\ t # deploy.before THEN t ELSE None]
  /\ UNCHANGED <<hostVars, files, unit, ghostVars>>

(* A failed step (die, set -e) or a kill; the bracket is a shell variable. *)
DeployAborts ==
  /\ deploy.pc # "idle"
  /\ deploy' = NoDeploy
  /\ UNCHANGED <<hostVars, files, unit, ghostVars>>

-----------------------------------------------------------------------------
(* The relay: op deps-rollback of an admin who typed the hostname. *)

(* DepCheck.rollback(): without a snapshot nothing is started; otherwise   *)
(* `systemctl start` of the unit, which joins a run under way.             *)
RequestRollback ==
  /\ ListSnapshots # {}
  /\ unit.pc = "idle" /\ unit' = [NoUnit EXCEPT !.pc = "choose"]
  /\ UNCHANGED <<hostVars, files, deploy, ghostVars>>

-----------------------------------------------------------------------------
(* The unit: edy-rdp-depsnapshot rollback, one run at a time. *)

(* The exit code only selects the message for the admin.                   *)
UnitExits == unit' = NoUnit

(* What the latest snapshot offers to undo: nothing unless it is the       *)
(* "after" snapshot of a deploy and has a transaction.                     *)
Recorded ==
  IF LatestSnapshot # None /\ files[LatestSnapshot].label = "after"
  THEN files[LatestSnapshot].tx ELSE None

Choose ==
  /\ unit.pc = "choose"
  /\ \/ pm \notin Native /\ UnitExits
     \/ Recorded = None /\ UnitExits
     \/ /\ pm \in Native /\ Recorded # None
        /\ unit' = [pc |-> "verify", tx |-> Recorded]
  /\ UNCHANGED <<hostVars, files, deploy, ghostVars>>

Verify_Skipped ==
  /\ unit.pc = "verify"
  /\ unit' = [unit EXCEPT !.pc = "undo"]
  /\ UNCHANGED <<hostVars, files, deploy, ghostVars>>

(* Only the newest transaction is undone: current id = recorded id. *)
Verify ==
  /\ unit.pc = "verify"
  /\ \E t \in Read :
       IF t = unit.tx THEN unit' = [unit EXCEPT !.pc = "undo"]
                      ELSE UnitExits
  /\ UNCHANGED <<hostVars, files, deploy, ghostVars>>

(* `dnf history undo`; which packages that leaves is dnf's business.       *)
Undo ==
  /\ unit.pc = "undo"
  /\ \E new \in Inventories : Transact(unit.tx, new)
  /\ UnitExits
  /\ UNCHANGED <<files, deploy>>

(* It fails, or is killed after ten minutes, having changed nothing or     *)
(* something; in the latter case it is in the history as well.             *)
UndoFails ==
  /\ unit.pc = "undo"
  /\ \/ UNCHANGED <<hostVars, ghostVars>>
     \/ \E new \in Inventories : Transact(0, new)
  /\ UnitExits
  /\ UNCHANGED <<files, deploy>>

-----------------------------------------------------------------------------
TakeSnapshot == Gather \/ WriteSnapshot \/ WriteSummary \/ SnapshotFails
InstallDeps  == NoDeps \/ ReadBefore \/ Install \/ ReadAfter
Deploy == StartDeploy \/ TakeSnapshot \/ InstallDeps \/ DeployAborts
Unit   == Choose \/ Verify \/ Undo \/ UndoFails

Next == Deploy \/ RequestRollback \/ Unit \/ OtherTransaction \/ ClockTicks \/ ClockSetBack

Spec == Init /\ [][Next]_vars

-----------------------------------------------------------------------------
(* Properties *)

Deploys == [pc : {"idle", "gather", "write", "summary", "deps", "install", "installed"},
            label : Labels, seen : Listings \cup {None}, stamp : Stamps \cup {None},
            before : 0..MaxTx \cup {None}, tx : TxIds \cup {None}]
Units   == [pc : {"idle", "choose", "verify", "undo"}, tx : TxIds \cup {None}]

(* Every variable stays in its domain; the history has no more than MaxTx  *)
(* entries.                                                                *)
TypeOK ==
  /\ pm \in Managers /\ inv \in Inventories /\ clock \in Stamps
  /\ deploys \in 0..MaxDeploys
  /\ history \in Seq(Transactions) /\ Len(history) <= MaxTx
  /\ files \in [Stamps -> Snapshot \cup {None}]
  /\ deploy \in Deploys /\ unit \in Units
  /\ bracketed \subseteq TxIds /\ newest \in Stamps \cup {None}
  /\ setBack \in BOOLEAN

Undone == {history[i] : i \in DOMAIN history} \ {0}

(* A rollback only ever undoes a transaction that was made while some      *)
(* deploy's install command was bracketed (attributable_transaction_id:    *)
(* misattributing an unrelated transaction is not safe), whatever failed   *)
(* readings, aborted deploys, snapshots by hand and foreign transactions   *)
(* come between that install and the rollback.                             *)
UndoneWasBracketed == Undone \subseteq bracketed

(* No transaction is undone twice, however often the rollback is asked     *)
(* for: an undo is itself the newest transaction (cmd_rollback's check     *)
(* against the current id).                                                *)
NeverUndoneTwice ==
  \A i, j \in DOMAIN history :
    history[i] # 0 /\ history[i] = history[j] => i = j

(* While the clock only runs forward, "latest" is the snapshot written     *)
(* last, also in the moment before its companion is there (load_snapshot). *)
LatestIsLastWritten == ~setBack => LatestSnapshot = newest

(* What the panel shows as the latest snapshot is the one the rollback     *)
(* would go by (list_snapshots against load_snapshot).                     *)
PanelAgrees == PanelShows = LatestSnapshot

(* Every snapshot on disk counts as noncompliant exactly the requirements  *)
(* of which no candidate is installed, or whose first installed candidate  *)
(* has, where it is listed last, a number that is too low (build_tracked,  *)
(* version_ge), whatever the lengths and digits of the two.                *)
Satisfied(i, r) ==
  \E n \in DOMAIN i :
    /\ i[n].name = DistroPkg(i, r) /\ \A m \in DOMAIN i : i[m].name = i[n].name => m <= n
    /\ i[n].version.number # <<>>
    /\ WorthAsMuch(i[n].version.number, Minimum[r])

Outdated == [i \in Listings |-> Cardinality({r \in Required : ~Satisfied(i, r)})]

CountsTheOutdated == \A s \in OnDisk : files[s].noncompliant = Outdated[files[s].inv]

Packages(i)   == {i[n] : n \in DOMAIN i}
UniqueKeys(i) ==
  \A m, n \in DOMAIN i : i[m].name = i[n].name /\ i[m].arch = i[n].arch => m = n

(* A snapshot whose summary says nothing has changed lists the packages of *)
(* the snapshot written before it, whoever changed what in between; as     *)
(* long as the clock runs forward and no package is installed in several   *)
(* versions at once (cmd_snapshot, diff_snapshots).                        *)
SummaryTellsChange ==
  [][/\ deploy.pc = "write" /\ deploy'.pc = "summary"
     /\ newest # None /\ newest' # None
     /\ ~files'[newest'].changed
     /\ UniqueKeys(files[newest].inv) /\ UniqueKeys(files'[newest'].inv)
     => Packages(files[newest].inv) = Packages(files'[newest'].inv)]_vars
=============================================================================
