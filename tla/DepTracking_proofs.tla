------------------------ MODULE DepTracking_proofs ------------------------
(***************************************************************************)
(* Proofs about DepTracking, for any inventories, requirements and number  *)
(* of transactions and snapshots: what a rollback undoes was bracketed,    *)
(* nothing is undone twice, and everybody who asks for the latest snapshot *)
(* gets the one written last.                                              *)
(***************************************************************************)
EXTENDS DepTracking, PackageInventory_proofs, FiniteSetTheorems

-----------------------------------------------------------------------------
(* The latest snapshot is the one with the greatest stamp. *)

(* Of some snapshots one was written at the latest time.                   *)
LEMMA LastOf ==
  ASSUME NEW S \in SUBSET Stamps, S # {}
  PROVE  \E s \in S : \A t \in S : t <= s
<1>1. S \in SUBSET Nat /\ MaxClock \in Nat /\ \A s \in S : s <= MaxClock
  BY BoundsAssumption DEF Stamps
<1> QED
  BY <1>1, GreatestOf

LEMMA LatestIsGreatest ==
  /\ OnDisk = {} => LatestSnapshot = None
  /\ OnDisk # {} => /\ LatestSnapshot \in OnDisk
                    /\ \A t \in OnDisk : t <= LatestSnapshot
<1> DEFINE full == {f \in JsonFiles : f[2] = "json"}
           Greatest(f) == \A g \in full : Sorts(f, g)
<1>1. full = {<<s, "json">> : s \in OnDisk}
  BY DEF JsonFiles
<1>2. CASE OnDisk = {}
  BY <1>1, <1>2 DEF LatestSnapshot
<1>3. CASE OnDisk # {}
  <2>1. PICK s \in OnDisk : \A t \in OnDisk : t <= s
    BY <1>3, LastOf DEF OnDisk
  <2>2. <<s, "json">> \in full /\ Greatest(<<s, "json">>)
    <3>1. ASSUME NEW t \in OnDisk PROVE Sorts(<<s, "json">>, <<t, "json">>)
      BY <2>1, BoundsAssumption DEF Sorts, OnDisk, Stamps
    <3> QED
      BY <1>1, <3>1
  <2> DEFINE f == CHOOSE f \in full : Greatest(f)
  <2>3. f \in full /\ Greatest(f)
    BY <2>2
  <2>4. LatestSnapshot = f[1]
    BY <2>2 DEF LatestSnapshot
  <2>5. PICK l \in OnDisk : f = <<l, "json">>
    BY <2>3, <1>1
  <2>6. ASSUME NEW t \in OnDisk PROVE t <= l
    <3>1. Sorts(<<l, "json">>, <<t, "json">>)
      BY <2>3, <2>5, <1>1
    <3> QED
      BY <3>1, BoundsAssumption DEF Sorts, OnDisk, Stamps
  <2> QED
    BY <2>4, <2>5, <2>6, <1>3, <<l, "json">>[1] = l
<1> QED
  BY <1>2, <1>3

(* The panel's list and the scripts' search agree. *)
LEMMA PanelAgreesAlways == PanelAgrees
<1>1. CASE OnDisk = {}
  BY <1>1, LatestIsGreatest DEF PanelAgrees, PanelShows, ListSnapshots
<1>2. CASE OnDisk # {}
  <2>1. /\ PanelShows \in OnDisk
        /\ \A t \in OnDisk : t <= PanelShows
    BY <1>2, LatestIsGreatest DEF PanelShows, ListSnapshots
  <2> QED
    BY <1>2, <2>1, LatestIsGreatest, BoundsAssumption DEF PanelAgrees, OnDisk, Stamps
<1> QED
  BY <1>1, <1>2

-----------------------------------------------------------------------------
(* Types. *)

(* The local variables a place reads have been set. *)
Set ==
  /\ deploy.pc = "write" => deploy.seen \in Listings
  /\ deploy.pc = "summary" => deploy.stamp \in Stamps /\ files[deploy.stamp] # None
  /\ unit.pc \in {"verify", "undo"} => unit.tx \in TxIds

Shaped == TypeOK /\ Set

LEMMA CountIsNat == ASSUME NEW i PROVE Noncompliant(i) \in Nat
BY RequirementsAssumption, FS_Subset, FS_CardinalityType,
   {r \in Required : ~Compliant(i, r)} \subseteq Required DEF Noncompliant

LEMMA RecordedIsTx == Shaped => Recorded \in TxIds \cup {None}
<1> SUFFICES ASSUME Shaped, Recorded # None PROVE Recorded \in TxIds
  OBVIOUS
<1>1. LatestSnapshot # None /\ Recorded = files[LatestSnapshot].tx
  BY DEF Recorded
<1>2. LatestSnapshot \in OnDisk
  BY <1>1, LatestIsGreatest
<1> QED
  BY <1>1, <1>2 DEF OnDisk, Shaped, TypeOK, Snapshot

LEMMA TransactTypes ==
  ASSUME Shaped, NEW of \in Transactions, NEW new \in Inventories, Transact(of, new)
  PROVE  /\ pm' \in Managers /\ inv' \in Inventories /\ clock' \in Stamps
         /\ deploys' \in 0..MaxDeploys
         /\ history' \in Seq(Transactions) /\ Len(history') <= MaxTx
         /\ bracketed' \subseteq TxIds /\ newest' \in Stamps \cup {None}
         /\ setBack' \in BOOLEAN
<1> USE BoundsAssumption DEF Shaped, TypeOK, Transact
<1>1. CASE pm \in Native
  <2>1. history' = Append(history, of) /\ history \in Seq(Transactions)
    BY <1>1
  <2>2. history' \in Seq(Transactions) /\ Len(history') = Len(history) + 1
    BY <2>1
  <2>3. Len(history') <= MaxTx /\ Len(history') \in TxIds
    BY <2>2 DEF TxIds
  <2> QED
    BY <1>1, <2>2, <2>3
<1>2. CASE pm \notin Native
  BY <1>2
<1> QED
  BY <1>1, <1>2

LEMMA ReadIsTx == Shaped => Read \subseteq 0..MaxTx \cup {None}
BY BoundsAssumption DEF Shaped, TypeOK, Read

LEMMA NoDeployTypes == NoDeploy \in Deploys /\ NoUnit \in Units
BY DEF NoDeploy, NoUnit, Deploys, Units, Labels

LEMMA ShapedInit == Init => Shaped
<1> SUFFICES ASSUME Init PROVE Shaped
  OBVIOUS
<1>1. deploy \in Deploys /\ unit \in Units /\ Set
  BY NoDeployTypes DEF Init, Set, NoDeploy, NoUnit
<1>2. history \in Seq(Transactions) /\ Len(history) <= MaxTx
  BY BoundsAssumption DEF Init
<1>3. files \in [Stamps -> Snapshot \cup {None}]
  BY DEF Init
<1>4. clock \in Stamps /\ deploys \in 0..MaxDeploys
  BY BoundsAssumption DEF Init, Stamps
<1> QED
  BY <1>1, <1>2, <1>3, <1>4 DEF Init, Shaped, TypeOK

LEMMA ShapedStep == Shaped /\ [Next]_vars => Shaped'
<1> SUFFICES ASSUME Shaped, [Next]_vars PROVE Shaped'
  OBVIOUS
<1> USE BoundsAssumption, NoneIsNothing
<1> USE DEF Shaped, Set, Deploys, Units, NoDeploy, NoUnit, Labels, hostVars, ghostVars
<1>1. CASE StartDeploy
  <2>1. PICK l \in Labels : deploy' = [NoDeploy EXCEPT !.pc = "gather", !.label = l]
    BY <1>1 DEF StartDeploy
  <2>2. deploy' \in Deploys /\ deploy'.pc = "gather"
    BY <2>1, NoDeployTypes
  <2>3. deploys' \in 0..MaxDeploys
    BY <1>1 DEF StartDeploy, TypeOK
  <2> QED
    BY <1>1, <2>2, <2>3 DEF StartDeploy, TypeOK
<1>2. CASE Gather
  <2>1. PICK found \in Listings : deploy' = [deploy EXCEPT !.pc = "write", !.seen = found]
    BY <1>2 DEF Gather, TypeOK, Listings
  <2>2. deploy' \in Deploys /\ deploy'.pc = "write" /\ deploy'.seen \in Listings
    BY <2>1 DEF TypeOK
  <2> QED
    BY <1>2, <2>2 DEF Gather, TypeOK
<1>3. CASE WriteSnapshot
  <2> DEFINE tx == AttributableTx(deploy.label, deploy.tx)
             count == Noncompliant(deploy.seen)
             changed == LatestSnapshot = None \/
                        Differs(files[LatestSnapshot].inv, deploy.seen)
             summary == files[clock] # None /\ files[clock].summary
             new == [label |-> deploy.label, tx |-> tx, inv |-> deploy.seen,
                     noncompliant |-> count, changed |-> changed, summary |-> summary]
  <2>1. new \in Snapshot /\ new # None
    <3>1. deploy.label \in Labels /\ deploy.seen \in Listings
      BY <1>3 DEF WriteSnapshot, TypeOK
    <3>2. tx \in TxIds \cup {None}
      BY DEF TypeOK, AttributableTx
    <3>3. summary \in BOOLEAN /\ changed \in BOOLEAN
      OBVIOUS
    <3>4. count \in Nat
      BY CountIsNat
    <3> HIDE DEF tx, count, changed, summary
    <3>5. new \in Snapshot
      BY <3>1, <3>2, <3>3, <3>4 DEF Snapshot
    <3> QED
      BY <3>5
  <2>2. files' = [files EXCEPT ![clock] = new]
    BY <1>3 DEF WriteSnapshot
  <2> HIDE DEF new
  <2>3. /\ files' \in [Stamps -> Snapshot \cup {None}]
        /\ clock \in Stamps /\ files'[clock] # None
    BY <2>1, <2>2 DEF TypeOK
  <2>4. deploy' = [deploy EXCEPT !.pc = "summary", !.stamp = clock]
    BY <1>3 DEF WriteSnapshot
  <2>5. deploy' \in Deploys /\ deploy'.pc = "summary" /\ deploy'.stamp = clock
    BY <2>3, <2>4 DEF TypeOK
  <2>6. newest' \in Stamps \cup {None}
    BY <1>3 DEF WriteSnapshot, TypeOK
  <2> QED
    BY <1>3, <2>3, <2>5, <2>6 DEF WriteSnapshot, TypeOK
<1>4. CASE WriteSummary
  <2>1. AfterSnapshot \in Deploys /\ AfterSnapshot.pc \in {"deps", "idle"}
    BY NoDeployTypes DEF AfterSnapshot, TypeOK
  <2>2. /\ files[deploy.stamp] \in Snapshot
        /\ files' = [files EXCEPT ![deploy.stamp] = [files[deploy.stamp] EXCEPT !.summary = TRUE]]
    BY <1>4 DEF WriteSummary, TypeOK
  <2>3. files' \in [Stamps -> Snapshot \cup {None}]
    BY <2>2 DEF TypeOK, Snapshot
  <2> QED
    BY <1>4, <2>1, <2>3 DEF WriteSummary, TypeOK
<1>5. CASE SnapshotFails
  BY <1>5 DEF SnapshotFails, AfterSnapshot, TypeOK
<1>6. CASE NoDeps
  BY <1>6 DEF NoDeps, TypeOK
<1>7. CASE ReadBefore
  <2>1. PICK t \in 0..MaxTx \cup {None} :
             deploy' = [deploy EXCEPT !.pc = "install", !.before = t]
    BY <1>7, ReadIsTx DEF ReadBefore
  <2>2. deploy' \in Deploys /\ deploy'.pc = "install"
    BY <2>1 DEF TypeOK
  <2> QED
    BY <1>7, <2>2 DEF ReadBefore, TypeOK
<1>8. CASE Install
  <2>1. CASE UNCHANGED <<hostVars, ghostVars>>
    BY <1>8, <2>1 DEF Install, TypeOK
  <2>2. CASE \E new \in Inventories \ {inv} : Transact(0, new)
    <3>1. deploy' \in Deploys /\ deploy'.pc = "installed"
      BY <1>8 DEF Install, TypeOK
    <3>2. PICK new \in Inventories : Transact(0, new)
      BY <2>2
    <3>3. 0 \in Transactions
      BY DEF Transactions
    <3> QED
      BY <1>8, <3>1, <3>2, <3>3, TransactTypes DEF Install, TypeOK
  <2> QED
    BY <1>8, <2>1, <2>2 DEF Install
<1>9. CASE ReadAfter
  <2>1. PICK t \in 0..MaxTx \cup {None} :
             deploy' = [deploy EXCEPT
               !.pc = "gather", !.label = "after", !.before = None,
               !.tx = IF /\ deploy.before # None /\ t # None
                         /\ t # 0 /\ t # deploy.before THEN t ELSE None]
    BY <1>9, ReadIsTx DEF ReadAfter
  <2>2. deploy' \in Deploys /\ deploy'.pc = "gather"
    <3> DEFINE tx == IF /\ deploy.before # None /\ t # None
                        /\ t # 0 /\ t # deploy.before THEN t ELSE None
    <3>1. tx \in TxIds \cup {None}
      BY <2>1 DEF TxIds
    <3> QED
      BY <2>1, <3>1 DEF TypeOK
  <2> QED
    BY <1>9, <2>2 DEF ReadAfter, TypeOK
<1>10. CASE DeployAborts
  BY <1>10 DEF DeployAborts, TypeOK
<1>11. CASE RequestRollback
  BY <1>11 DEF RequestRollback, TypeOK
<1>12. CASE Choose
  BY <1>12, RecordedIsTx DEF Choose, UnitExits, TypeOK
<1>13. CASE Verify
  BY <1>13 DEF Verify, UnitExits, TypeOK
<1>14. CASE Undo
  <2>1. unit.tx \in Transactions
    BY <1>14 DEF Undo, TxIds, Transactions
  <2> QED
    BY <1>14, <2>1, TransactTypes DEF Undo, UnitExits, TypeOK
<1>15. CASE UndoFails
  <2>1. CASE UNCHANGED <<hostVars, ghostVars>>
    BY <1>15, <2>1 DEF UndoFails, UnitExits, TypeOK
  <2>2. CASE \E new \in Inventories : Transact(0, new)
    <3>1. PICK new \in Inventories : Transact(0, new)
      BY <2>2
    <3>2. 0 \in Transactions
      BY DEF Transactions
    <3> QED
      BY <1>15, <3>1, <3>2, TransactTypes DEF UndoFails, UnitExits, TypeOK
  <2> QED
    BY <1>15, <2>1, <2>2 DEF UndoFails
<1>16. CASE OtherTransaction
  BY <1>16, TransactTypes DEF OtherTransaction, TypeOK, Transactions
<1>17. CASE ClockTicks
  BY <1>17 DEF ClockTicks, TypeOK, Stamps
<1>18. CASE ClockSetBack
  BY <1>18 DEF ClockSetBack, TypeOK
<1>19. CASE UNCHANGED vars
  BY <1>19 DEF vars, TypeOK
<1> QED
  BY <1>1, <1>2, <1>3, <1>4, <1>5, <1>6, <1>7, <1>8, <1>9, <1>10, <1>11, <1>12,
     <1>13, <1>14, <1>15, <1>16, <1>17, <1>18, <1>19
     DEF Next, Deploy, TakeSnapshot, InstallDeps, Unit

LEMMA ShapedHolds == Spec => []Shaped
BY ShapedInit, ShapedStep, PTL DEF Spec

(* TypeOK: whatever fails, aborts or is set back, every variable keeps its *)
(* type.                                                                   *)
THEOREM TypesHold == Spec => []TypeOK
BY ShapedHolds, PTL DEF Shaped

-----------------------------------------------------------------------------
(* What a rollback may undo. *)

(* Since a successful first reading, every transaction has been bracketed. *)
BracketOpen ==
  InBracket /\ deploy.before # None /\ pm \in Native =>
    /\ deploy.before <= Len(history)
    /\ \A t \in TxIds : deploy.before < t /\ t <= Len(history) => t \in bracketed

(* Every id that waits somewhere to be undone was bracketed. *)
Attributed ==
  /\ bracketed \subseteq 1..Len(history)
  /\ deploy.tx # None => deploy.tx \in bracketed
  /\ \A s \in OnDisk : files[s].tx # None => files[s].tx \in bracketed
  /\ unit.tx # None => unit.tx \in bracketed

(* An undo comes after what it undoes, and the unit's is not yet undone. *)
UndoneEarlier ==
  /\ \A i \in DOMAIN history : history[i] # 0 => history[i] < i
  /\ unit.pc = "undo" => unit.tx \notin Undone

UndoInv == BracketOpen /\ Attributed /\ UndoneEarlier /\ UndoneWasBracketed /\ NeverUndoneTwice

LEMMA RecordedAttributed == Shaped /\ Attributed => Recorded = None \/ Recorded \in bracketed
<1> SUFFICES ASSUME Attributed, Recorded # None PROVE Recorded \in bracketed
  OBVIOUS
<1>1. LatestSnapshot # None /\ Recorded = files[LatestSnapshot].tx
  BY DEF Recorded
<1>2. LatestSnapshot \in OnDisk
  BY <1>1, LatestIsGreatest
<1> QED
  BY <1>1, <1>2 DEF Attributed

(* A transaction that undoes nothing disturbs nothing. *)
LEMMA TransactKeeps ==
  ASSUME Shaped, UndoInv, NEW new \in Inventories, Transact(0, new)
  PROVE  /\ bracketed \subseteq bracketed'
         /\ bracketed' \subseteq 1..Len(history')
         /\ InBracket /\ pm \in Native => Len(history') \in bracketed'
         /\ Len(history') \in {Len(history), Len(history) + 1}
         /\ pm \notin Native => history' = history
         /\ \A i \in DOMAIN history' : history'[i] # 0 => i \in DOMAIN history /\ history'[i] = history[i]
         /\ Undone' = Undone
<1> USE DEF Shaped, TypeOK, Transact, UndoInv, Attributed
<1>1. CASE pm \in Native
  <2>1. history' = Append(history, 0) /\ history \in Seq(Transactions)
    BY <1>1
  <2>2. /\ Len(history') = Len(history) + 1 /\ DOMAIN history' = 1..Len(history')
        /\ DOMAIN history = 1..Len(history) /\ Len(history) \in Nat
        /\ \A i \in DOMAIN history : history'[i] = history[i]
        /\ history'[Len(history')] = 0
    BY <2>1, history \in Seq(Transactions), 0 \in Nat DEF Transactions
  <2>3. \A i \in DOMAIN history' : history'[i] # 0 => i \in DOMAIN history /\ history'[i] = history[i]
    BY <2>2
  <2>4. Undone' = Undone
    BY <2>2, <2>3 DEF Undone
  <2>5. bracketed' \subseteq 1..Len(history')
    <3>1. bracketed' \subseteq bracketed \cup {Len(history')}
      BY <1>1
    <3>2. 1..Len(history) \subseteq 1..Len(history') /\ Len(history') \in 1..Len(history')
      BY <2>2
    <3> QED
      BY <3>1, <3>2
  <2> QED
    BY <1>1, <2>2, <2>3, <2>4, <2>5
<1>2. CASE pm \notin Native
  BY <1>2 DEF Undone
<1> QED
  BY <1>1, <1>2

LEMMA UndoInvInit == Init => UndoInv
BY DEF Init, UndoInv, BracketOpen, Attributed, UndoneEarlier, UndoneWasBracketed, NeverUndoneTwice,
       Undone, OnDisk, InBracket, NoDeploy, NoUnit

(* A step that makes no transaction leaves what was undone alone. *)
LEMMA QuietStep ==
  ASSUME Shaped, UndoInv, UNCHANGED <<pm, history, bracketed>>,
         unit'.pc = "undo" => unit' = unit \/ unit'.tx = Len(history),
         BracketOpen', Attributed'
  PROVE  UndoInv'
<1>1. Undone' = Undone /\ UndoneWasBracketed' /\ NeverUndoneTwice'
  BY DEF UndoInv, Undone, UndoneWasBracketed, NeverUndoneTwice
<1>2. ASSUME unit'.tx = Len(history), unit'.tx \in Undone PROVE FALSE
  <2>1. PICK i \in DOMAIN history : history[i] = Len(history) /\ history[i] # 0
    BY <1>2 DEF Undone
  <2>2. history[i] < i /\ i <= Len(history) /\ i \in Nat
    BY <2>1 DEF UndoInv, UndoneEarlier, Shaped, TypeOK
  <2> QED
    BY <2>1, <2>2
<1>3. UndoneEarlier'
  BY <1>1, <1>2 DEF UndoInv, UndoneEarlier
<1> QED
  BY <1>1, <1>3 DEF UndoInv

(* Nor does one that undoes nothing, whoever makes it. *)
LEMMA ForeignStep ==
  ASSUME Shaped, UndoInv, NEW new \in Inventories, Transact(0, new), files' = files,
         deploy'.before = deploy.before, deploy'.tx = deploy.tx, InBracket' = InBracket,
         unit' \in {unit, NoUnit}
  PROVE  UndoInv'
<1>1. BracketOpen'
  <2> SUFFICES ASSUME InBracket, deploy.before # None, pm \in Native
               PROVE  /\ deploy.before <= Len(history')
                      /\ \A t \in TxIds : deploy.before < t /\ t <= Len(history') => t \in bracketed'
    BY DEF BracketOpen, Transact
  <2>1. deploy.before \in Int /\ Len(history) \in Nat
    BY DEF Shaped, TypeOK, Deploys
  <2> QED
    BY <2>1, TransactKeeps DEF UndoInv, BracketOpen, TxIds
<1>2. Attributed'
  <2>1. OnDisk' = OnDisk /\ unit'.tx \in {unit.tx, None}
    BY DEF OnDisk, NoUnit
  <2>2. bracketed \subseteq bracketed' /\ bracketed' \subseteq 1..Len(history')
    BY TransactKeeps
  <2> QED
    BY <2>1, <2>2 DEF UndoInv, Attributed
<1>3. UndoneWasBracketed'
  BY TransactKeeps DEF UndoInv, UndoneWasBracketed
<1>4. NeverUndoneTwice'
  BY TransactKeeps DEF UndoInv, NeverUndoneTwice
<1>5. UndoneEarlier'
  BY TransactKeeps DEF UndoInv, UndoneEarlier, NoUnit
<1> QED
  BY <1>1, <1>2, <1>3, <1>4, <1>5 DEF UndoInv

LEMMA UndoInvStep == Shaped /\ UndoInv /\ [Next]_vars => UndoInv'
<1> SUFFICES ASSUME Shaped, UndoInv, [Next]_vars PROVE UndoInv'
  OBVIOUS
<1> USE BoundsAssumption, NoneIsNothing
<1> USE DEF NoDeploy, NoUnit, hostVars, ghostVars, InBracket
(* The deploy and the relay, as long as they make no transaction. *)
<1>1. CASE StartDeploy \/ Gather \/ NoDeps \/ DeployAborts
  <2>1. BracketOpen' /\ Attributed'
    <3>1. deploy'.pc \notin {"install", "installed"} /\ deploy'.tx \in {deploy.tx, None}
      <4>1. CASE StartDeploy
        <5>1. PICK l : deploy' = [NoDeploy EXCEPT !.pc = "gather", !.label = l]
          BY <4>1 DEF StartDeploy
        <5> QED
          BY <5>1
      <4>2. CASE Gather \/ NoDeps
        BY <4>2 DEF Gather, NoDeps, Shaped, TypeOK, Deploys
      <4>3. CASE DeployAborts
        BY <4>3 DEF DeployAborts
      <4> QED
        BY <1>1, <4>1, <4>2, <4>3
    <3>2. UNCHANGED <<files, bracketed, history, unit>>
      BY <1>1 DEF StartDeploy, Gather, NoDeps, DeployAborts
    <3>3. BracketOpen'
      BY <3>1 DEF BracketOpen
    <3>4. OnDisk' = OnDisk
      BY <3>2 DEF OnDisk
    <3>5. Attributed'
      BY <3>1, <3>2, <3>4 DEF UndoInv, Attributed
    <3> QED
      BY <3>3, <3>5
  <2>9. UNCHANGED <<pm, history, bracketed, unit>>
    BY <1>1 DEF StartDeploy, Gather, NoDeps, DeployAborts
  <2> QED
    BY <2>1, <2>9, QuietStep
<1>2. CASE WriteSnapshot
  <2>1. Attributed'
    <3>1. AttributableTx(deploy.label, deploy.tx) \in bracketed \cup {None}
      BY DEF AttributableTx, UndoInv, Attributed
    <3>2. clock \in Stamps /\ files'[clock].tx = AttributableTx(deploy.label, deploy.tx)
      BY <1>2 DEF WriteSnapshot, Shaped, TypeOK
    <3>3. ASSUME NEW s \in OnDisk', s # clock PROVE s \in OnDisk /\ files'[s] = files[s]
      BY <1>2, <3>3 DEF WriteSnapshot, OnDisk, Shaped, TypeOK
    <3>4. ASSUME NEW s \in OnDisk', files'[s].tx # None PROVE files'[s].tx \in bracketed'
      BY <1>2, <3>1, <3>2, <3>3, <3>4 DEF WriteSnapshot, UndoInv, Attributed
    <3>5. deploy'.tx = deploy.tx
      BY <1>2 DEF WriteSnapshot, Shaped, TypeOK, Deploys
    <3> QED
      BY <1>2, <3>4, <3>5 DEF WriteSnapshot, UndoInv, Attributed
  <2>2. BracketOpen'
    BY <1>2 DEF WriteSnapshot, BracketOpen, Shaped, TypeOK, Deploys
  <2>9. UNCHANGED <<pm, history, bracketed, unit>>
    BY <1>2 DEF WriteSnapshot
  <2> QED
    BY <2>1, <2>2, <2>9, QuietStep
<1>3. CASE WriteSummary \/ SnapshotFails
  <2>1. AfterSnapshot.tx \in {deploy.tx, None} /\ AfterSnapshot.pc \in {"deps", "idle"}
    BY DEF AfterSnapshot, Shaped, TypeOK, Deploys
  <2>2. ASSUME NEW s \in OnDisk' PROVE s \in OnDisk /\ files'[s].tx = files[s].tx
    BY <1>3 DEF WriteSummary, SnapshotFails, OnDisk, Shaped, TypeOK, Set, Snapshot
  <2>3. BracketOpen' /\ Attributed'
    BY <1>3, <2>1, <2>2 DEF WriteSummary, SnapshotFails, BracketOpen, UndoInv, Attributed
  <2>9. UNCHANGED <<pm, history, bracketed, unit>>
    BY <1>3 DEF WriteSummary, SnapshotFails
  <2> QED
    BY <2>3, <2>9, QuietStep
<1>4. CASE ReadBefore
  <2>1. PICK t \in Read : deploy' = [deploy EXCEPT !.pc = "install", !.before = t]
    BY <1>4 DEF ReadBefore
  <2>2. deploy'.before = t /\ deploy'.tx = deploy.tx
    BY <2>1 DEF Shaped, TypeOK, Deploys
  <2>3. BracketOpen'
    BY <1>4, <2>2 DEF ReadBefore, Read, BracketOpen, TxIds, Shaped, TypeOK
  <2>4. Attributed'
    BY <1>4, <2>2 DEF ReadBefore, UndoInv, Attributed, OnDisk
  <2>9. UNCHANGED <<pm, history, bracketed, unit>>
    BY <1>4 DEF ReadBefore
  <2> QED
    BY <2>3, <2>4, <2>9, QuietStep
<1>5. CASE ReadAfter
  <2>1. PICK t \in Read :
             deploy' = [deploy EXCEPT
               !.pc = "gather", !.label = "after", !.before = None,
               !.tx = IF /\ deploy.before # None /\ t # None
                         /\ t # 0 /\ t # deploy.before THEN t ELSE None]
    BY <1>5 DEF ReadAfter
  <2>2. deploy'.tx # None => deploy'.tx \in bracketed
    <3> SUFFICES ASSUME deploy.before # None, t # None, t # 0, t # deploy.before
                 PROVE  t \in bracketed
      BY <2>1 DEF Shaped, TypeOK, Deploys
    <3>1. pm \in Native /\ t = Len(history)
      BY DEF Read
    <3>2. deploy.before <= Len(history)
      BY <3>1, <1>5 DEF ReadAfter, UndoInv, BracketOpen
    <3> QED
      BY <3>1, <3>2, <1>5 DEF ReadAfter, UndoInv, BracketOpen, TxIds, Shaped, TypeOK, Deploys
  <2>3. BracketOpen' /\ Attributed'
    BY <1>5, <2>1, <2>2 DEF ReadAfter, BracketOpen, UndoInv, Attributed, OnDisk, Shaped, TypeOK,
                            Deploys
  <2>9. UNCHANGED <<pm, history, bracketed, unit>>
    BY <1>5 DEF ReadAfter
  <2> QED
    BY <2>3, <2>9, QuietStep
<1>6. CASE Install
  <2>1. CASE UNCHANGED <<hostVars, ghostVars>>
    <3>1. BracketOpen' /\ Attributed'
      BY <1>6, <2>1 DEF Install, BracketOpen, UndoInv, Attributed, OnDisk, Shaped, TypeOK, Deploys
    <3>2. UNCHANGED <<pm, history, bracketed, unit>>
      BY <1>6, <2>1 DEF Install
    <3> QED
      BY <3>1, <3>2, QuietStep
  <2>2. CASE \E new \in Inventories : Transact(0, new)
    <3>1. PICK new \in Inventories : Transact(0, new)
      BY <2>2
    <3> QED
      BY <1>6, <3>1, ForeignStep DEF Install
  <2> QED
    BY <1>6, <2>1, <2>2 DEF Install
(* The unit. *)
<1>7. CASE RequestRollback \/ Choose \/ Verify
  <2>1. unit'.tx # None => unit'.tx \in bracketed
    BY <1>7, RecordedAttributed DEF RequestRollback, Choose, Verify, UnitExits,
                                    UndoInv, Attributed, Shaped, TypeOK, Units
  <2>2. UNCHANGED <<pm, history, bracketed, files, deploy>>
    BY <1>7 DEF RequestRollback, Choose, Verify
  <2>3. BracketOpen' /\ Attributed'
    BY <2>1, <2>2 DEF UndoInv, BracketOpen, Attributed, OnDisk
  <2>4. unit'.pc = "undo" => unit' = unit \/ unit'.tx = Len(history)
    BY <1>7 DEF RequestRollback, Choose, Verify, Read, UnitExits, TxIds,
                Shaped, TypeOK, Set, Units
  <2> QED
    BY <2>2, <2>3, <2>4, QuietStep
<1>8. CASE Undo
  <2>1. PICK new \in Inventories : Transact(unit.tx, new)
    BY <1>8 DEF Undo
  <2>2. /\ unit.pc = "undo" /\ unit.tx \in TxIds /\ unit.tx \in bracketed
        /\ unit.tx \notin Undone /\ unit' = NoUnit /\ UNCHANGED <<files, deploy>>
    <3>1. unit.tx \in TxIds /\ unit.tx # None
      BY <1>8 DEF Undo, Shaped, Set, TxIds
    <3> QED
      BY <1>8, <3>1 DEF Undo, UnitExits, UndoInv, Attributed, UndoneEarlier
  <2>3. CASE pm \in Native
    <3>1. history' = Append(history, unit.tx) /\ history \in Seq(Nat) /\ unit.tx \in Nat
      BY <2>1, <2>2, <2>3 DEF Transact, Shaped, TypeOK, Transactions, TxIds
    <3>2. /\ Len(history') = Len(history) + 1 /\ DOMAIN history' = 1..Len(history')
          /\ DOMAIN history = 1..Len(history) /\ Len(history) \in Nat
          /\ \A i \in DOMAIN history : history'[i] = history[i]
          /\ history'[Len(history')] = unit.tx
      BY <3>1
    <3>3. bracketed' \in {bracketed, bracketed \cup {Len(history')}}
          /\ (InBracket => Len(history') \in bracketed') /\ pm' = pm
      BY <2>1, <2>3 DEF Transact
    <3>4. unit.tx \in 1..Len(history) /\ unit.tx # 0
      BY <2>2 DEF UndoInv, Attributed, TxIds
    <3>5. Undone' = Undone \cup {unit.tx}
      BY <3>2, <3>4 DEF Undone
    <3>6. UndoneWasBracketed'
      BY <2>2, <3>3, <3>5 DEF UndoInv, UndoneWasBracketed
    <3>7. NeverUndoneTwice'
      <4>1. \A i \in DOMAIN history : history[i] # unit.tx
        BY <2>2, <3>4 DEF Undone
      <4> QED
        BY <3>2, <4>1 DEF UndoInv, NeverUndoneTwice
    <3>8. UndoneEarlier'
      BY <2>2, <3>2, <3>4 DEF UndoInv, UndoneEarlier
    <3>9. Attributed'
      BY <2>2, <3>2, <3>3 DEF UndoInv, Attributed, OnDisk
    <3>10. BracketOpen'
      <4> SUFFICES ASSUME InBracket, deploy.before # None
                   PROVE  /\ deploy.before <= Len(history')
                          /\ \A t \in TxIds : deploy.before < t /\ t <= Len(history') => t \in bracketed'
        BY <2>2 DEF BracketOpen
      <4>1. deploy.before \in Int
        BY DEF Shaped, TypeOK, Deploys
      <4> QED
        BY <2>3, <3>2, <3>3, <4>1 DEF UndoInv, BracketOpen, TxIds
    <3> QED
      BY <3>6, <3>7, <3>8, <3>9, <3>10 DEF UndoInv
  <2>4. CASE pm \notin Native
    <3>1. UNCHANGED <<pm, history, bracketed>>
      BY <2>1, <2>4 DEF Transact
    <3>2. BracketOpen' /\ Attributed'
      BY <2>2, <2>4, <3>1 DEF BracketOpen, UndoInv, Attributed, OnDisk
    <3> QED
      BY <2>2, <3>1, <3>2, QuietStep
  <2> QED
    BY <2>3, <2>4
<1>9. CASE UndoFails
  <2>1. CASE UNCHANGED <<hostVars, ghostVars>>
    <3>1. BracketOpen' /\ Attributed'
      BY <1>9, <2>1 DEF UndoFails, UnitExits, BracketOpen, UndoInv, Attributed, OnDisk
    <3> QED
      BY <1>9, <2>1, <3>1, QuietStep DEF UndoFails, UnitExits
  <2>2. CASE \E new \in Inventories : Transact(0, new)
    <3>1. PICK new \in Inventories : Transact(0, new)
      BY <2>2
    <3> QED
      BY <1>9, <3>1, ForeignStep DEF UndoFails, UnitExits
  <2> QED
    BY <1>9, <2>1, <2>2 DEF UndoFails
(* The rest of the host. *)
<1>10. CASE OtherTransaction
  <2>1. PICK new \in Inventories : Transact(0, new)
    BY <1>10 DEF OtherTransaction
  <2> QED
    BY <1>10, <2>1, ForeignStep DEF OtherTransaction
<1>11. CASE ClockTicks \/ ClockSetBack \/ UNCHANGED vars
  <2>1. UNCHANGED <<pm, history, bracketed, files, deploy, unit>>
    BY <1>11 DEF ClockTicks, ClockSetBack, vars
  <2>2. BracketOpen' /\ Attributed'
    BY <2>1 DEF BracketOpen, UndoInv, Attributed, OnDisk
  <2> QED
    BY <2>1, <2>2, QuietStep
<1> QED
  BY <1>1, <1>2, <1>3, <1>4, <1>5, <1>6, <1>7, <1>8, <1>9, <1>10, <1>11
     DEF Next, Deploy, TakeSnapshot, InstallDeps, Unit

LEMMA UndoInvHolds == Spec => []UndoInv
BY ShapedHolds, UndoInvInit, UndoInvStep, PTL DEF Spec

(* UndoneWasBracketed: a rollback undoes nothing that was not made inside  *)
(* a deploy's bracket, for any number of deploys and transactions.         *)
THEOREM UndoneWasBracketedHolds == Spec => []UndoneWasBracketed
BY UndoInvHolds, PTL DEF UndoInv

(* NeverUndoneTwice: the check against the newest id is enough.            *)
THEOREM NeverUndoneTwiceHolds == Spec => []NeverUndoneTwice
BY UndoInvHolds, PTL DEF UndoInv

-----------------------------------------------------------------------------
(* Which snapshot is the latest. *)

NewestInv ==
  /\ setBack => newest = None
  /\ ~setBack => /\ newest = None => OnDisk = {}
                 /\ newest # None => newest \in OnDisk /\ newest <= clock
                 /\ \A t \in OnDisk : t <= newest

LEMMA NewestInvInit == Init => NewestInv
BY DEF Init, NewestInv, OnDisk

LEMMA NewestInvStep == Shaped /\ NewestInv /\ [Next]_vars => NewestInv'
<1> SUFFICES ASSUME Shaped, NewestInv, [Next]_vars PROVE NewestInv'
  OBVIOUS
<1> USE BoundsAssumption, NoneIsNothing
<1>1. CASE WriteSnapshot
  <2>1. clock \in Stamps /\ files' = [files EXCEPT ![clock] = files'[clock]] /\ files'[clock] # None
    <3>1. \E r : files' = [files EXCEPT ![clock] = r]
      BY <1>1 DEF WriteSnapshot
    <3>2. Shaped'
      BY ShapedStep
    <3> QED
      BY <1>1, <3>1, <3>2 DEF WriteSnapshot, Shaped, TypeOK, Set, Deploys
  <2>2. OnDisk' = OnDisk \cup {clock}
    BY <2>1 DEF OnDisk, Shaped, TypeOK
  <2>3. \A t \in OnDisk : ~setBack => t <= clock
    <3> SUFFICES ASSUME NEW t \in OnDisk, ~setBack PROVE t <= clock
      OBVIOUS
    <3>1. newest \in OnDisk /\ newest <= clock /\ t <= newest
      BY DEF NewestInv
    <3> QED
      BY <2>1, <3>1 DEF OnDisk, Stamps
  <2>4. newest' = (IF setBack THEN None ELSE clock) /\ UNCHANGED <<setBack, clock>>
    BY <1>1 DEF WriteSnapshot, hostVars
  <2>5. clock \in Int /\ clock # None
    BY <2>1 DEF Stamps
  <2> QED
    BY <2>2, <2>3, <2>4, <2>5 DEF NewestInv
<1>2. CASE WriteSummary
  <2>1. OnDisk' = OnDisk
    <3>1. files[deploy.stamp] \in Snapshot /\ deploy.stamp \in Stamps
      BY <1>2 DEF WriteSummary, Shaped, TypeOK, Set
    <3>2. [files[deploy.stamp] EXCEPT !.summary = TRUE] \in Snapshot
      BY <3>1 DEF Snapshot
    <3>3. files' = [files EXCEPT ![deploy.stamp] = [files[deploy.stamp] EXCEPT !.summary = TRUE]]
      BY <1>2 DEF WriteSummary
    <3>4. ASSUME NEW s \in Stamps PROVE files'[s] # None <=> files[s] # None
      BY <3>1, <3>2, <3>3 DEF Shaped, TypeOK
    <3> QED
      BY <3>4 DEF OnDisk
  <2> QED
    BY <1>2, <2>1 DEF WriteSummary, NewestInv, hostVars, ghostVars
<1>3. CASE ClockTicks
  BY <1>3 DEF ClockTicks, NewestInv, OnDisk, ghostVars, Stamps, Shaped, TypeOK
<1>4. CASE ClockSetBack
  BY <1>4 DEF ClockSetBack, NewestInv
<1>5. ASSUME UNCHANGED <<files, newest, setBack, clock>> PROVE NewestInv'
  BY <1>5 DEF NewestInv, OnDisk
<1> QED
  BY <1>1, <1>2, <1>3, <1>4, <1>5
     DEF Next, vars, hostVars, ghostVars, Deploy, TakeSnapshot, InstallDeps, Unit, StartDeploy,
         Gather, SnapshotFails, NoDeps, ReadBefore, Install, ReadAfter, DeployAborts,
         Choose, Verify, Undo, UndoFails, RequestRollback, OtherTransaction, Transact

LEMMA NewestInvHolds == Spec => []NewestInv
BY ShapedHolds, NewestInvInit, NewestInvStep, PTL DEF Spec

LEMMA NewestIsLatest == Shaped /\ NewestInv => LatestIsLastWritten
<1> SUFFICES ASSUME Shaped, NewestInv, ~setBack PROVE LatestSnapshot = newest
  BY DEF LatestIsLastWritten
<1>1. CASE newest = None
  BY <1>1, LatestIsGreatest DEF NewestInv
<1>2. CASE newest # None
  BY <1>2, LatestIsGreatest, BoundsAssumption DEF NewestInv, OnDisk, Stamps
<1> QED
  BY <1>1, <1>2

(* LatestIsLastWritten: with a clock that runs forward, also while a       *)
(* snapshot has no companion yet.                                          *)
THEOREM LatestIsLastWrittenHolds == Spec => []LatestIsLastWritten
BY ShapedHolds, NewestInvHolds, NewestIsLatest, PTL

(* PanelAgrees: the panel shows the snapshot the rollback goes by.         *)
THEOREM PanelAgreesHolds == Spec => []PanelAgrees
BY PanelAgreesAlways, PTL

-----------------------------------------------------------------------------
(* The difference of two inventories. *)

LEMMA ByKeyFinds ==
  ASSUME NEW i \in Listings, UniqueKeys(i), NEW n \in DOMAIN i
  PROVE  ByKey(i)[PkgKey(i[n])] = i[n]
<1> DEFINE Wanted(m) == /\ PkgKey(i[m]) = PkgKey(i[n])
                        /\ \A j \in DOMAIN i : PkgKey(i[j]) = PkgKey(i[n]) => j <= m
<1>1. \A m \in DOMAIN i : PkgKey(i[m]) = PkgKey(i[n]) => m = n
  BY DEF UniqueKeys, PkgKey
<1>2. n \in Nat
  BY InventoriesAssumption DEF Listings
<1>3. \A m \in DOMAIN i : Wanted(m) <=> m = n
  BY <1>1, <1>2
<1>4. (CHOOSE m \in DOMAIN i : Wanted(m)) = n
  BY <1>3
<1>5. PkgKey(i[n]) \in Keys(i)
  BY DEF Keys
<1> QED
  BY <1>4, <1>5 DEF ByKey, Last

(* Inventories between which diff_snapshots finds nothing are the same.    *)
LEMMA NoDifferenceIsSame ==
  ASSUME NEW a \in Listings, NEW b \in Listings, UniqueKeys(a), UniqueKeys(b), ~Differs(a, b)
  PROVE  Packages(a) \subseteq Packages(b)
<1> SUFFICES ASSUME NEW n \in DOMAIN a PROVE a[n] \in Packages(b)
  BY DEF Packages
<1>1. PkgKey(a[n]) \in Keys(b)
  BY DEF Differs, Removed, Keys
<1>2. PICK m \in DOMAIN b : PkgKey(b[m]) = PkgKey(a[n])
  BY <1>1 DEF Keys
<1>3. ByKey(a)[PkgKey(a[n])] = a[n] /\ ByKey(b)[PkgKey(a[n])] = b[m]
  BY <1>2, ByKeyFinds
<1>4. a[n].version = b[m].version
  BY <1>1, <1>3 DEF Differs, Changed, Keys
<1>5. a[n] = b[m]
  BY <1>2, <1>4, InventoriesAssumption DEF PkgKey, Listings
<1> QED
  BY <1>5 DEF Packages

(* What is written with `changed` = FALSE differs in nothing from the      *)
(* snapshot that was the latest.                                           *)
LEMMA TellsChangeStep ==
  ASSUME Shaped, NewestInv, [Next]_vars
  PROVE  [/\ deploy.pc = "write" /\ deploy'.pc = "summary"
          /\ newest # None /\ newest' # None
          /\ ~files'[newest'].changed
          /\ UniqueKeys(files[newest].inv) /\ UniqueKeys(files'[newest'].inv)
          => Packages(files[newest].inv) = Packages(files'[newest'].inv)]_vars
<1> SUFFICES ASSUME deploy.pc = "write", deploy'.pc = "summary",
                    newest # None, newest' # None, ~files'[newest'].changed,
                    UniqueKeys(files[newest].inv), UniqueKeys(files'[newest'].inv)
             PROVE  Packages(files[newest].inv) = Packages(files'[newest'].inv)
  OBVIOUS
<1> USE BoundsAssumption, NoneIsNothing
<1>1. WriteSnapshot
  <2>1. CASE SnapshotFails
    BY <2>1 DEF SnapshotFails, AfterSnapshot, NoDeploy, Shaped, TypeOK, Deploys
  <2>2. CASE DeployAborts
    BY <2>2 DEF DeployAborts, NoDeploy
  <2>3. CASE deploy' = deploy
    BY <2>3
  <2> QED
    BY <2>1, <2>2, <2>3
       DEF Next, vars, Deploy, TakeSnapshot, InstallDeps, Unit, StartDeploy, Gather,
           WriteSummary, NoDeps, ReadBefore, Install, ReadAfter, Choose,
           Verify, Undo, UndoFails, RequestRollback, OtherTransaction, ClockTicks, ClockSetBack
<1>2. LatestSnapshot = newest /\ newest \in OnDisk /\ newest' = clock
  BY <1>1, NewestIsLatest DEF LatestIsLastWritten, NewestInv, WriteSnapshot
<1>3. clock \in Stamps /\ files[newest] \in Snapshot /\ deploy.seen \in Listings
  BY <1>2 DEF Shaped, TypeOK, Set, OnDisk
<1>4. /\ files'[clock].inv = deploy.seen
      /\ files'[clock].changed = (LatestSnapshot = None \/ Differs(files[LatestSnapshot].inv, deploy.seen))
  BY <1>1, <1>3 DEF WriteSnapshot, Shaped, TypeOK
<1>5. ~Differs(files[newest].inv, deploy.seen)
  BY <1>2, <1>4
<1>6. ~Differs(deploy.seen, files[newest].inv)
  BY <1>5 DEF Differs, Added, Removed, Changed
<1>7. files[newest].inv \in Listings
  BY <1>3 DEF Snapshot
<1>8. UniqueKeys(files[newest].inv) /\ UniqueKeys(deploy.seen)
  BY <1>2, <1>4
<1>9. /\ Packages(files[newest].inv) \subseteq Packages(deploy.seen)
      /\ Packages(deploy.seen) \subseteq Packages(files[newest].inv)
  BY <1>3, <1>5, <1>6, <1>7, <1>8, NoDifferenceIsSame
<1> QED
  BY <1>2, <1>4, <1>9

(* SummaryTellsChange: for inventories of any packages, versions and size. *)
THEOREM SummaryTellsChangeHolds == Spec => SummaryTellsChange
BY ShapedHolds, NewestInvHolds, TellsChangeStep, PTL DEF Spec, SummaryTellsChange

-----------------------------------------------------------------------------
(* What a snapshot counts as noncompliant. *)

LEMMA ListingFacts ==
  ASSUME NEW i \in Listings
  PROVE  /\ Len(i) \in Nat /\ DOMAIN i = 1..Len(i)
         /\ \A n \in DOMAIN i : i[n].name # None /\ i[n].version.number \in DottedNumber
<1>1. CASE i \in Inventories
  BY <1>1, InventoriesAssumption
<1>2. CASE i = <<>>
  BY <1>2
<1> QED
  BY <1>1, <1>2 DEF Listings

(* The distro package of a requirement is the name of an installed one. *)
LEMMA DistroPkgIsInstalled ==
  ASSUME NEW i, NEW r \in Required, Present(i, r) # {}
  PROVE  DistroPkg(i, r) \in Names(i)
<1> DEFINE Ps == Present(i, r)
           First(p) == \A q \in Ps : p <= q
<1>1. \E p \in Ps : First(p)
  <2>1. Ps \in SUBSET Nat
    BY RequirementsAssumption DEF Present
  <2> HIDE DEF Ps
  <2> QED
    BY <2>1, LeastOf DEF Ps
<1>2. (CHOOSE p \in Ps : First(p)) \in Ps
  <2> HIDE DEF Ps, First
  <2> QED
    BY <1>1
<1> QED
  BY <1>2 DEF DistroPkg, Present

(* The entry a name stands for is the last one that has it. *)
LastNamed(i, name, n) ==
  /\ n \in DOMAIN i /\ i[n].name = name
  /\ \A m \in DOMAIN i : i[m].name = name => m <= n

LEMMA NamedIsLast ==
  ASSUME NEW i \in Listings, NEW name, NEW n, LastNamed(i, name, n)
  PROVE  Named(i, name) = i[n]
<1> DEFINE Chosen(m) == /\ i[m].name = name
                        /\ \A j \in DOMAIN i : i[j].name = name => j <= m
<1>1. DOMAIN i \subseteq Nat
  BY ListingFacts
<1>2. \A m \in DOMAIN i : Chosen(m) <=> m = n
  BY <1>1 DEF LastNamed
<1>3. (CHOOSE m \in DOMAIN i : Chosen(m)) = n
  <2> HIDE DEF Chosen
  <2> QED
    BY <1>2 DEF LastNamed
<1> QED
  BY <1>3 DEF Named, Last

LEMMA LastNamedExists ==
  ASSUME NEW i \in Listings, NEW name \in Names(i)
  PROVE  \E n : LastNamed(i, name, n)
<1> DEFINE T == {n \in DOMAIN i : i[n].name = name}
<1>1. /\ T \in SUBSET Nat /\ T # {}
      /\ Len(i) \in Nat /\ \A n \in T : n <= Len(i)
  BY ListingFacts DEF Names
<1>2. PICK n \in T : \A m \in T : m <= n
  <2> HIDE DEF T
  <2> QED
    BY <1>1, GreatestOf
<1> QED
  BY <1>2 DEF LastNamed

(* build_tracked finds compliant what is satisfied. *)
LEMMA CompliantIsSatisfied ==
  ASSUME NEW i \in Listings, NEW r \in Required
  PROVE  Compliant(i, r) <=> Satisfied(i, r)
<1> DEFINE D == DistroPkg(i, r)
<1>1. D # None => D \in Names(i)
  BY DistroPkgIsInstalled DEF DistroPkg
<1>2. Minimum[r] \in DottedNumber
  BY RequirementsAssumption
<1>3. ASSUME NEW n, LastNamed(i, D, n)
      PROVE  /\ D # None
             /\ VersionGe(Named(i, D).version, Minimum[r]) <=>
                  /\ i[n].version.number # <<>>
                  /\ WorthAsMuch(i[n].version.number, Minimum[r])
  <2>1. Named(i, D) = i[n]
    BY <1>3, NamedIsLast
  <2>2. D # None /\ i[n].version.number \in DottedNumber
    BY <1>3, ListingFacts DEF LastNamed
  <2> HIDE DEF D
  <2> QED
    BY <1>2, <2>1, <2>2, AtLeastIsWorth DEF VersionGe, NormVersion
<1>4. Satisfied(i, r) <=> \E n : /\ LastNamed(i, D, n)
                                /\ i[n].version.number # <<>>
                                /\ WorthAsMuch(i[n].version.number, Minimum[r])
  BY DEF Satisfied, LastNamed
<1>5. ASSUME Compliant(i, r) PROVE Satisfied(i, r)
  <2>1. D # None /\ VersionGe(Named(i, D).version, Minimum[r])
    BY <1>5 DEF Compliant
  <2>2. PICK n : LastNamed(i, D, n)
    BY <1>1, <2>1, LastNamedExists
  <2> QED
    BY <1>3, <1>4, <2>1, <2>2
<1>6. ASSUME Satisfied(i, r) PROVE Compliant(i, r)
  <2>1. PICK n : /\ LastNamed(i, D, n)
                 /\ i[n].version.number # <<>>
                 /\ WorthAsMuch(i[n].version.number, Minimum[r])
    BY <1>4, <1>6
  <2> QED
    BY <1>3, <2>1 DEF Compliant
<1> QED
  BY <1>5, <1>6

LEMMA CountsOutdated ==
  ASSUME NEW i \in Listings
  PROVE  Noncompliant(i) = Outdated[i]
<1>1. {r \in Required : ~Compliant(i, r)} = {r \in Required : ~Satisfied(i, r)}
  BY CompliantIsSatisfied
<1> QED
  BY <1>1 DEF Noncompliant, Outdated

(* A snapshot keeps the count that was taken of the inventory it lists. *)
Counted == \A s \in OnDisk : files[s].noncompliant = Noncompliant(files[s].inv)

LEMMA CountedInit == Init => Counted
BY DEF Init, Counted, OnDisk

LEMMA CountedStep == Shaped /\ Counted /\ [Next]_vars => Counted'
<1> SUFFICES ASSUME Shaped, Counted, [Next]_vars PROVE Counted'
  OBVIOUS
<1>1. CASE WriteSnapshot
  <2>1. clock \in Stamps /\ files \in [Stamps -> Snapshot \cup {None}]
    BY DEF Shaped, TypeOK
  <2>2. /\ files'[clock].noncompliant = Noncompliant(deploy.seen)
        /\ files'[clock].inv = deploy.seen
    BY <1>1, <2>1 DEF WriteSnapshot
  <2>3. \A s \in Stamps \ {clock} : files'[s] = files[s]
    BY <1>1, <2>1 DEF WriteSnapshot
  <2> QED
    BY <2>2, <2>3 DEF Counted, OnDisk
<1>2. CASE WriteSummary
  <2>1. /\ deploy.stamp \in Stamps /\ files[deploy.stamp] \in Snapshot
        /\ files \in [Stamps -> Snapshot \cup {None}]
    BY <1>2 DEF Shaped, TypeOK, Set, WriteSummary
  <2>2. files' = [files EXCEPT ![deploy.stamp] =
                    [files[deploy.stamp] EXCEPT !.summary = TRUE]]
    BY <1>2 DEF WriteSummary
  <2>3. /\ files'[deploy.stamp].noncompliant = files[deploy.stamp].noncompliant
        /\ files'[deploy.stamp].inv = files[deploy.stamp].inv
    BY <2>1, <2>2 DEF Snapshot
  <2>4. \A s \in Stamps \ {deploy.stamp} : files'[s] = files[s]
    BY <2>1, <2>2
  <2>5. files[deploy.stamp] # None
    BY <2>1, NoneIsNothing
  <2> QED
    BY <2>3, <2>4, <2>5 DEF Counted, OnDisk
<1>3. CASE files' = files
  BY <1>3 DEF Counted, OnDisk
<1> QED
  BY <1>1, <1>2, <1>3
     DEF Next, vars, Deploy, TakeSnapshot, InstallDeps, Unit, StartDeploy, Gather,
         SnapshotFails, NoDeps, ReadBefore, Install, ReadAfter, DeployAborts, Choose,
         Verify, Undo, UndoFails, RequestRollback, OtherTransaction, ClockTicks, ClockSetBack

LEMMA CountedHolds == Spec => []Counted
BY CountedInit, CountedStep, ShapedHolds, PTL DEF Spec

(* CountsTheOutdated: for requirements, inventories and version numbers of *)
(* any size.                                                               *)
THEOREM CountsTheOutdatedHolds == Spec => []CountsTheOutdated
<1>1. Shaped /\ Counted => CountsTheOutdated
  <2> SUFFICES ASSUME Shaped, Counted, NEW s \in OnDisk
               PROVE  files[s].noncompliant = Outdated[files[s].inv]
    BY DEF CountsTheOutdated
  <2>1. files[s].inv \in Listings
    BY DEF Shaped, TypeOK, OnDisk, Snapshot
  <2> QED
    BY <2>1, CountsOutdated DEF Counted
<1> QED
  BY <1>1, ShapedHolds, CountedHolds, PTL

=============================================================================
