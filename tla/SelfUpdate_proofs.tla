------------------------- MODULE SelfUpdate_proofs -------------------------
(***************************************************************************)
(* Proofs about SelfUpdate, for any number of releases and any Keep: what  *)
(* install.sh last installed is never deleted, the good exit codes mean    *)
(* what they say, and a successful update can be undone.                   *)
(***************************************************************************)
EXTENDS SelfUpdate, FiniteSetTheorems, WellFoundedInduction, TLAPS

(* Two names to a version, and no others.                                  *)
LEMMA Names ==
  /\ \A v \in Versions : /\ Payload(v) \in Dirs /\ Payload(v).version = v
                         /\ Tmp(v) \in Dirs /\ Tmp(v).version = v
                         /\ Tmp(v) # Payload(v)
  /\ \A d \in Dirs : /\ d.version \in Versions
                     /\ d = Payload(d.version) \/ d = Tmp(d.version)
                     /\ d # None
  /\ Versions \subseteq Nat \ {0} /\ None \notin Versions /\ 1 \in Versions
<1>1. Versions \subseteq Nat \ {0} /\ None \notin Versions /\ 1 \in Versions
  BY BoundsAssumption, NoneIsNothing DEF Versions
<1>2. \A v \in Versions : /\ Payload(v) \in Dirs /\ Payload(v).version = v
                          /\ Tmp(v) \in Dirs /\ Tmp(v).version = v
                          /\ Tmp(v) # Payload(v)
  BY DEF Payload, Tmp, Dirs
<1>3. ASSUME NEW d \in Dirs
      PROVE  /\ d.version \in Versions /\ d # None
             /\ d = Payload(d.version) \/ d = Tmp(d.version)
  <2>1. d = [version |-> d.version, tmp |-> d.tmp] /\ d.tmp \in BOOLEAN /\ d.version \in Versions
    BY DEF Dirs
  <2>2. d.tmp = TRUE \/ d.tmp = FALSE
    BY <2>1
  <2> QED
    BY <2>1, <2>2, NoneIsNothing DEF Payload, Tmp
<1> QED
  BY <1>1, <1>2, <1>3

(* What an install.sh does to install.conf.                                *)
Confs == [payload : Dirs, version : Versions \cup {Unversioned}]

LEMMA Installing ==
  ASSUME NEW d \in Dirs, Installed(d)
  PROVE  /\ libexec' = d /\ conf' \in Confs /\ conf'.payload = d
         /\ Known' \in {d, None}
         /\ d \in whole => conf'.version = d.version /\ Known' = d
<1>1. libexec' = d
  BY DEF Installed
<1>2. PICK v \in VersionOf(d) : conf' = [payload |-> d, version |-> v]
  BY DEF Installed
<1>3. d.version \in Versions
  BY DEF Dirs
<1>4. v \in Versions \cup {Unversioned} /\ (d \in whole => v = d.version)
  BY <1>3 DEF VersionOf
<1> QED
  BY <1>1, <1>2, <1>4 DEF Confs, Known

LEMMA HalfInstalling ==
  ASSUME NEW d \in Dirs, conf \in Confs, HalfInstalled(d)
  PROVE  /\ libexec' \in {libexec, d} /\ conf' \in Confs
         /\ Known' \in {Known, d, None} /\ (d \in whole => Known' \in {Known, d})
<1>1. CASE Installed(d)
  BY <1>1, Installing
<1>2. CASE libexec' \in {libexec, d} /\ UNCHANGED conf
  BY <1>2 DEF Known
<1> QED
  BY <1>1, <1>2 DEF HalfInstalled

-----------------------------------------------------------------------------
(* The local variables a place reads have been set.                        *)
Set(p) ==
  /\ pc["apply"] \in Deploying \cup {"failed", "restoring", "deployed", "restarted"} =>
        New \in Versions /\ job["apply"].prev \in Dirs
  /\ pc[p] \in {"back", "backSwapped", "backInstalled", "backBroken", "backRestarted", "backDoubtful"} =>
        job[p].back \in Dirs

Shaped == TypeOK /\ \A p \in Scripts : Set(p)

(* A deploy.sh cut short keeps the types, and touches nothing but remains  *)
(* of its own release and payloads it was pruning.                         *)
LEMMA Cutting ==
  ASSUME Shaped, pc["apply"] \in Deploying, CutShort
  PROVE  /\ dirs' \in SUBSET Dirs /\ whole' \in SUBSET dirs' /\ whole' \subseteq whole
         /\ libexec' \in Dirs /\ conf' \in Confs
         /\ \/ dirs' = dirs
            \/ pc["apply"] = "deploying" /\ dirs' \in {dirs \ {Tmp(New)}, dirs \cup {Tmp(New)}}
         /\ \/ UNCHANGED <<libexec, conf>> /\ Known' = Known
            \/ /\ pc["apply"] = "swapped" /\ UNCHANGED <<dirs, whole>>
               /\ Known' \in {Known, Payload(New), None}
               /\ Payload(New) \in whole => Known' \in {Known, Payload(New)}
<1> USE DEF Confs
<1>1. PICK v \in Versions : v = New
  BY DEF Shaped, Set, Scripts
<1>2. Tmp(v) \in Dirs /\ Payload(v) \in Dirs
  BY <1>1, Names
<1>3. dirs \in SUBSET Dirs /\ whole \in SUBSET dirs /\ libexec \in Dirs /\ conf \in Confs
  BY DEF Shaped, TypeOK
<1>4. CASE UNCHANGED <<dirs, whole, libexec, conf>>
  BY <1>3, <1>4 DEF Known
<1>5. CASE pc["apply"] = "deploying" /\ HalfCopied(Tmp(New))
  <2>1. dirs' \in {dirs \ {Tmp(v)}, dirs \cup {Tmp(v)}} /\ whole' = whole \ {Tmp(v)} /\ UNCHANGED <<libexec, conf>>
    BY <1>1, <1>5 DEF HalfCopied
  <2> QED
    BY <1>1, <1>2, <1>3, <1>5, <2>1 DEF Known
<1>6. CASE pc["apply"] = "replacing" /\ HalfRemoved(Payload(New))
  BY <1>3, <1>6 DEF HalfRemoved, Known
<1>7. CASE pc["apply"] = "installed" /\ \E d \in Older \ Kept : HalfRemoved(d)
  BY <1>3, <1>7 DEF HalfRemoved, Known
<1>8. CASE pc["apply"] = "swapped" /\ HalfInstalled(Payload(New)) /\ UNCHANGED <<dirs, whole>>
  <2>1. HalfInstalled(Payload(v))
    BY <1>1, <1>8 DEF HalfInstalled, Installed
  <2> QED
    BY <1>1, <1>2, <1>3, <1>8, <2>1, HalfInstalling
<1> QED
  BY <1>4, <1>5, <1>6, <1>7, <1>8 DEF CutShort

LEMMA ShapedStep == Shaped /\ [Next]_vars => Shaped'
<1> SUFFICES ASSUME Shaped, [Next]_vars PROVE Shaped'
  OBVIOUS
<1> USE Names, NoneIsNothing
<1> USE DEF Shaped, Set, TypeOK, Scripts, Places, Codes, Jobs, Deploying, Fresh, host,
            Goto, Exit, New
<1>1. CASE CheckRelease
  BY <1>1 DEF CheckRelease
<1>2. CASE DeployCopies
  BY <1>2 DEF DeployCopies
<1>3. CASE DeployReplaces
  BY <1>3 DEF DeployReplaces
<1>4. CASE DeployMoves
  BY <1>4 DEF DeployMoves
<1>5. CASE DeploySwaps
  BY <1>5 DEF DeploySwaps
<1>6. CASE DeployInstalls
  <2>1. PICK d \in Dirs : d = Payload(New)
    BY <1>6, Names DEF DeployInstalls
  <2>2. libexec' \in Dirs /\ conf' \in Confs
    BY <1>6, <2>1, Installing, HalfInstalling DEF DeployInstalls, Installed, HalfInstalled, Confs
  <2> QED
    BY <1>6, <2>2 DEF DeployInstalls, Confs
<1>7. CASE DeployPrunes
  BY <1>7 DEF DeployPrunes
<1>8. CASE DeployFails
  <2>1. pc["apply"] \in Deploying /\ CutShort
    BY <1>8 DEF DeployFails
  <2>2. /\ dirs' \in SUBSET Dirs /\ whole' \in SUBSET dirs'
        /\ libexec' \in Dirs /\ conf' \in Confs
    BY <2>1, Cutting
  <2> QED
    BY <1>8, <2>2 DEF DeployFails, Confs
<1>9. CASE DeployTimesOut
  <2>1. pc["apply"] \in Deploying /\ CutShort
    BY <1>9 DEF DeployTimesOut
  <2>2. /\ dirs' \in SUBSET Dirs /\ whole' \in SUBSET dirs'
        /\ libexec' \in Dirs /\ conf' \in Confs
    BY <2>1, Cutting
  <2> QED
    BY <1>9, <2>2 DEF DeployTimesOut, Confs
<1>10. CASE RestoreSwaps
  BY <1>10 DEF RestoreSwaps
<1>11. CASE RestoreInstalls
  <2>1. PICK d \in Dirs : d = job["apply"].prev
    BY <1>11, Names DEF RestoreInstalls
  <2>2. libexec' \in Dirs /\ conf' \in Confs
    BY <1>11, <2>1, Installing, HalfInstalling DEF RestoreInstalls, Installed, HalfInstalled, Confs
  <2> QED
    BY <1>11, <2>2 DEF RestoreInstalls, Confs
<1>12. CASE NotRestored
  BY <1>12 DEF NotRestored
<1>13. CASE RestartNew
  BY <1>13 DEF RestartNew, Restarts, RestartFails
<1>14. CASE NewIsHealthy
  BY <1>14 DEF NewIsHealthy, Healthy
<1>15. CASE NewIsNotHealthy
  BY <1>15 DEF NewIsNotHealthy, Candidate, Others
<1>16. CASE ChooseBack
  BY <1>16 DEF ChooseBack, Candidate, Others
<1>17. CASE RelayStarts
  BY <1>17 DEF RelayStarts
<1>18. CASE Publish
  BY <1>18 DEF Publish
<1>19. ASSUME NEW p \in Scripts, Begin(p) PROVE Shaped'
  BY <1>19 DEF Begin
<1>20. ASSUME NEW p \in Scripts, AlreadyRunning(p) PROVE Shaped'
  BY <1>20 DEF AlreadyRunning
<1>21. ASSUME NEW p \in Scripts, End(p) PROVE Shaped'
  BY <1>21 DEF End
<1>22. ASSUME NEW p \in Scripts, Killed(p) PROVE Shaped'
  <2>1. /\ dirs' \in SUBSET Dirs /\ whole' \in SUBSET dirs'
        /\ libexec' \in Dirs /\ conf' \in Confs
    <3>1. CASE p = "apply" /\ pc[p] \in Deploying
      <4>1. CutShort
        BY <1>22, <3>1 DEF Killed
      <4> QED
        BY <3>1, <4>1, Cutting
    <3>2. CASE p = "apply" /\ pc[p] = "restoring"
      <4>1. PICK d \in Dirs : d = job[p].prev
        BY <3>2
      <4>2. HalfInstalled(d) /\ UNCHANGED <<dirs, whole>>
        BY <1>22, <3>2, <4>1 DEF Killed, HalfInstalled, Installed
      <4> QED
        BY <4>2, HalfInstalling DEF Confs
    <3>3. CASE pc[p] = "backSwapped"
      <4>1. PICK d \in Dirs : d = job[p].back
        BY <3>3
      <4>2. HalfInstalled(d) /\ UNCHANGED <<dirs, whole>>
        BY <1>22, <3>3, <4>1 DEF Killed, HalfInstalled, Installed
      <4> QED
        BY <4>2, HalfInstalling DEF Confs
    <3>4. CASE ~(p = "apply" /\ pc[p] \in Deploying \cup {"restoring"}) /\ pc[p] # "backSwapped"
      <4>1. UNCHANGED <<dirs, whole, libexec, conf>>
        BY <1>22, <3>4 DEF Killed
      <4> QED
        BY <4>1 DEF Confs
    <3> QED
      BY <3>1, <3>2, <3>3, <3>4
  <2> QED
    BY <1>22, <2>1 DEF Killed, Confs
<1>23. ASSUME NEW p \in Scripts, SwapBack(p) PROVE Shaped'
  BY <1>23 DEF SwapBack, BackFailed
<1>24. ASSUME NEW p \in Scripts, InstallBack(p) PROVE Shaped'
  <2>1. PICK d \in Dirs : d = job[p].back
    BY <1>24, Names DEF InstallBack
  <2>2. libexec' \in Dirs /\ conf' \in Confs
    BY <1>24, <2>1, Installing, HalfInstalling DEF InstallBack, Installed, HalfInstalled, Confs
  <2> QED
    BY <1>24, <2>2 DEF InstallBack, Confs, BackFailed
<1>25. ASSUME NEW p \in Scripts, RestartBack(p) PROVE Shaped'
  BY <1>25 DEF RestartBack, Restarts, RestartFails
<1>26. ASSUME NEW p \in Scripts, BackHealthy(p) PROVE Shaped'
  BY <1>26 DEF BackHealthy, Healthy
<1>27. ASSUME NEW p \in Scripts, BackNotHealthy(p) PROVE Shaped'
  BY <1>27 DEF BackNotHealthy
<1>28. CASE UNCHANGED vars
  BY <1>28 DEF vars
<1> HIDE DEF Shaped, Scripts, New, Goto, host
<1> QED
  BY <1>1, <1>2, <1>3, <1>4, <1>5, <1>6, <1>7, <1>8, <1>9, <1>10, <1>11, <1>12,
     <1>13, <1>14, <1>15, <1>16, <1>17, <1>18, <1>19, <1>20, <1>21, <1>22,
     <1>23, <1>24, <1>25, <1>26, <1>27, <1>28
     DEF Next, Apply, Deploy, Either

LEMMA ShapedHolds == Spec => []Shaped
<1>1. Init => Shaped
  BY Names, NoneIsNothing
     DEF Init, Shaped, Set, TypeOK, Scripts, Places, Codes, Jobs, Fresh, Deploying
<1> QED
  BY <1>1, ShapedStep, PTL DEF Spec

(* Every variable keeps its type; in particular `payload` always names a   *)
(* payload directory, whatever the scripts chose to move it to.            *)
THEOREM TypesHold == Spec => []TypeOK
<1>1. Shaped => TypeOK
  BY DEF Shaped
<1> QED
  BY <1>1, ShapedHolds, PTL

-----------------------------------------------------------------------------
Busy(p) == pc[p] \notin {"idle", "done"}

(* A script holds the flock from its first step to its last, and only then *)
(* has an exit code; one that found the flock taken has code 6.            *)
Locked ==
  \A p \in Scripts : /\ pc[p] # "idle" /\ job[p].code # 6 => lock = p
                     /\ Busy(p) => job[p].code = None

(* What each place of apply says of the host it is changing.               *)
ApplyAt ==
  LET at == pc["apply"]  a == job["apply"] IN
  /\ at = "begun" => a.cur = conf.version
  /\ at \in {"deploying", "replacing", "moving", "copied", "swapped"} =>
        Known \notin {Payload(New), Tmp(New)}
  /\ at \in {"replacing", "moving"} => Tmp(New) \in whole
  /\ at \in {"copied", "swapped", "installed"} => Payload(New) \in whole
  /\ at \in {"swapped", "installed", "deployed", "restarted"} => link = Payload(New)
  /\ at \in {"installed", "deployed", "restarted"} =>
        libexec = Payload(New) /\ conf.payload = Payload(New) /\ Known = Payload(New)
  /\ at = "restoring" => a.prev \in dirs
  /\ at \in {"back", "backSwapped", "backInstalled", "backRestarted"} => a.back # Payload(New)

(* The way back, in either script.                                         *)
BackAt(p) ==
  LET back == job[p].back IN
  /\ \/ pc[p] \in {"back", "backSwapped", "backInstalled", "backRestarted"}
     \/ p = "rollback" /\ pc[p] = "backDoubtful"
     => back \in dirs
  /\ pc[p] = "backSwapped" => link = back
  /\ \/ pc[p] \in {"backInstalled", "backRestarted"}
     \/ p = "rollback" /\ pc[p] = "backDoubtful"
     => link = back /\ libexec = back /\ conf.payload = back
  /\ pc[p] = "backRestarted" => running = libexec
  /\ p = "rollback" => pc[p] # "backBroken"
  /\ Ended("apply", 4) \/ Ended("rollback", 0) => link \in dirs

SafeInv == /\ Shaped /\ Locked /\ ApplyAt /\ (\A p \in Scripts : BackAt(p))
           /\ InstalledPayloadKept /\ HonestOutcome

LEMMA SafeStep == SafeInv /\ [Next]_vars => SafeInv'
<1> SUFFICES ASSUME SafeInv, [Next]_vars PROVE SafeInv'
  OBVIOUS
<1>s. Shaped'
  BY ShapedStep DEF SafeInv
<1>k. conf' = conf => Known' = Known
  BY DEF Known
<1>v. \A v \in Versions : v \in Nat
  BY Names
<1>n. \A v \in Versions : Payload(v) # Tmp(v) /\ Payload(v) # None /\ Tmp(v) # None
  BY Names
<1>l. latest \in Nat /\ latest \in Versions /\ conf.version \in Nat
  <2>1. latest \in Versions /\ conf.version \in Versions \cup {Unversioned}
    BY DEF SafeInv, Shaped, TypeOK
  <2> QED
    BY <2>1, <1>v DEF Unversioned
<1> USE <1>s, <1>k, <1>n, NoneIsNothing
<1> USE DEF SafeInv, Shaped, Set, TypeOK, Scripts, Jobs, Codes, Deploying, Fresh, host,
            Goto, Exit, New, Busy, Locked, ApplyAt, BackAt, InstalledPayloadKept,
            HonestOutcome, Ended, Linked
<1>1. CASE CheckRelease
  <2>1. Known # None => Known = conf.payload /\ Known.version = conf.version
    BY DEF Known
  <2>2. latest > job["apply"].cur /\ pc["apply"] = "begun" => Known \notin {Payload(latest), Tmp(latest)}
    <3>1. Payload(latest).version = latest /\ Tmp(latest).version = latest
      BY <1>l, Names
    <3>2. conf.version = latest => ~(latest > conf.version)
      BY <1>l
    <3> QED
      BY <1>l, <2>1, <3>1, <3>2
  <2> QED
    BY <1>1, <2>2 DEF CheckRelease
<1>2. CASE DeployCopies
  BY <1>2 DEF DeployCopies
<1>3. CASE DeployReplaces
  BY <1>3 DEF DeployReplaces
<1>4. CASE DeployMoves
  BY <1>4 DEF DeployMoves
<1>5. CASE DeploySwaps
  BY <1>5 DEF DeploySwaps
<1>6. CASE DeployInstalls
  <2>1. PICK d \in Dirs : d = Payload(New)
    BY <1>6, Names DEF DeployInstalls
  <2>2. /\ pc["apply"] = "swapped" /\ d \in whole
        /\ UNCHANGED <<dirs, whole, link, running, latest, lock, job>>
        /\ pc' = [pc EXCEPT !["apply"] = "installed"]
    BY <1>6, <2>1 DEF DeployInstalls
  <2>3. libexec' = d /\ conf'.payload = d /\ Known' = d
    BY <1>6, <2>1, <2>2, Installing DEF DeployInstalls, Installed
  <2> QED
    BY <2>1, <2>2, <2>3
<1>7. CASE DeployPrunes
  <2>1. /\ pc["apply"] = "installed" /\ Known = Payload(New) /\ Payload(New) \in whole
        /\ UNCHANGED <<link, libexec, conf, running, latest, lock, job>>
    BY <1>7 DEF DeployPrunes
  <2>2. pc["rollback"] \notin {"back", "backSwapped"}
    BY <2>1
  <2>3. ASSUME NEW d \in Older \ Kept, dirs' = dirs \ {d}, whole' = whole \ {d}, UNCHANGED pc
        PROVE  SafeInv'
    <3>1. d # Payload(New)
      BY <2>3 DEF Older
    <3> QED
      BY <2>1, <2>2, <2>3, <3>1
  <2>4. CASE UNCHANGED <<dirs, whole>> /\ Goto("apply", "deployed")
    BY <2>1, <2>4
  <2> QED
    BY <1>7, <2>3, <2>4 DEF DeployPrunes
<1>8. CASE DeployFails
  <2>1. pc["apply"] \in Deploying /\ CutShort
    BY <1>8 DEF DeployFails
  <2>2. /\ \/ dirs' = dirs
           \/ pc["apply"] = "deploying" /\ dirs' \in {dirs \ {Tmp(New)}, dirs \cup {Tmp(New)}}
        /\ \/ UNCHANGED <<libexec, conf>>
           \/ /\ pc["apply"] = "swapped" /\ UNCHANGED <<dirs, whole>>
              /\ Payload(New) \in whole => Known' \in {Known, Payload(New)}
    BY <2>1, Cutting
  <2>3. Known' # None => Known' \in dirs'
    BY <2>1, <2>2
  <2> QED
    BY <1>8, <2>1, <2>3 DEF DeployFails
<1>9. CASE DeployTimesOut
  <2>1. pc["apply"] \in Deploying /\ CutShort
    BY <1>9 DEF DeployTimesOut
  <2>2. /\ \/ dirs' = dirs
           \/ pc["apply"] = "deploying" /\ dirs' \in {dirs \ {Tmp(New)}, dirs \cup {Tmp(New)}}
        /\ \/ UNCHANGED <<libexec, conf>>
           \/ /\ pc["apply"] = "swapped" /\ UNCHANGED <<dirs, whole>>
              /\ Payload(New) \in whole => Known' \in {Known, Payload(New)}
    BY <2>1, Cutting
  <2>3. Known' # None => Known' \in dirs'
    BY <2>1, <2>2
  <2> QED
    BY <1>9, <2>1, <2>3 DEF DeployTimesOut
<1>10. CASE RestoreSwaps
  BY <1>10 DEF RestoreSwaps
<1>11. CASE RestoreInstalls
  <2>1. PICK d \in Dirs : d = job["apply"].prev
    BY <1>11 DEF RestoreInstalls
  <2>2. HalfInstalled(d) /\ d \in dirs
    BY <1>11, <2>1 DEF RestoreInstalls, HalfInstalled, Installed
  <2>3. Known' \in {Known, d, None}
    BY <2>2, HalfInstalling DEF Confs
  <2> QED
    BY <1>11, <2>2, <2>3 DEF RestoreInstalls
<1>12. CASE NotRestored
  BY <1>12 DEF NotRestored
<1>13. CASE RestartNew
  BY <1>13 DEF RestartNew, Restarts, RestartFails
<1>14. CASE NewIsHealthy
  BY <1>14 DEF NewIsHealthy, Healthy
<1>15. CASE NewIsNotHealthy
  BY <1>15 DEF NewIsNotHealthy, Candidate, Others
<1>16. CASE ChooseBack
  <2>1. UNCHANGED <<dirs, whole, link, libexec, conf, running, latest, lock>>
    BY <1>16 DEF ChooseBack
  <2>2. ASSUME NEW d \in dirs, pc["rollback"] = "begun", Goto("rollback", "back"),
               job' = [job EXCEPT !["rollback"].back = d]
        PROVE  SafeInv'
    BY <2>1, <2>2
  <2>3. CASE Exit("rollback", 2)
    BY <1>16, <2>1, <2>3 DEF ChooseBack
  <2> HIDE DEF SafeInv, Exit, Goto
  <2>4. pc["rollback"] = "begun" /\ (Exit("rollback", 2) \/ \E d \in dirs :
          job' = [job EXCEPT !["rollback"].back = d] /\ Goto("rollback", "back"))
    BY <1>16 DEF ChooseBack
  <2> QED
    BY <2>2, <2>3, <2>4
<1>17. CASE RelayStarts
  BY <1>17 DEF RelayStarts
<1>18. CASE Publish
  BY <1>18 DEF Publish
<1>19. ASSUME NEW p \in Scripts, Begin(p) PROVE SafeInv'
  BY <1>19 DEF Begin
<1>20. ASSUME NEW p \in Scripts, AlreadyRunning(p) PROVE SafeInv'
  BY <1>20 DEF AlreadyRunning
<1>21. ASSUME NEW p \in Scripts, End(p) PROVE SafeInv'
  BY <1>21 DEF End
<1>22. ASSUME NEW p \in Scripts, Killed(p) PROVE SafeInv'
  <2>1. /\ pc[p] # "idle" /\ UNCHANGED <<link, running, latest>>
        /\ pc' = [pc EXCEPT ![p] = "idle"] /\ job' = [job EXCEPT ![p] = Fresh]
        /\ lock' = IF lock = p THEN None ELSE lock
    BY <1>22 DEF Killed
  <2>2. ASSUME UNCHANGED <<dirs, whole>>, NEW d \in dirs, Known' \in {Known, d, None}, lock = p
        PROVE  SafeInv'
    <3>1. Known' # None => Known' \in dirs'
      BY <2>2
    <3>2. \A q \in Scripts : q # p => ~Busy(q)
      BY <2>2
    <3> QED
      BY <2>1, <2>2, <3>1, <3>2
  <2>3. CASE p = "apply" /\ pc[p] \in Deploying
    <3>1. CutShort
      BY <1>22, <2>3 DEF Killed
    <3>2. Known' # None => Known' \in dirs'
      BY <2>3, <3>1, Cutting
    <3>3. \A q \in Scripts : q # p => ~Busy(q)
      BY <2>3
    <3>4. \A q \in Scripts : q # p /\ pc[q] # "idle" => job[q].code = 6
      BY <2>3
    <3> QED
      BY <2>1, <2>3, <3>2, <3>3, <3>4
  <2>4. CASE p = "apply" /\ pc[p] = "restoring"
    <3>1. PICK d \in Dirs : d = job[p].prev
      BY <2>4
    <3>2. HalfInstalled(d) /\ UNCHANGED <<dirs, whole>> /\ d \in dirs
      BY <1>22, <2>4, <3>1 DEF Killed, HalfInstalled, Installed
    <3>3. Known' \in {Known, d, None}
      BY <3>2, HalfInstalling DEF Confs
    <3> QED
      BY <2>2, <2>4, <3>2, <3>3
  <2>5. CASE pc[p] = "backSwapped"
    <3>1. PICK d \in Dirs : d = job[p].back
      BY <2>5
    <3>2. HalfInstalled(d) /\ UNCHANGED <<dirs, whole>> /\ d \in dirs
      BY <1>22, <2>5, <3>1 DEF Killed, HalfInstalled, Installed
    <3>3. Known' \in {Known, d, None}
      BY <3>2, HalfInstalling DEF Confs
    <3> QED
      BY <2>2, <2>5, <3>2, <3>3
  <2>6. CASE ~(p = "apply" /\ pc[p] \in Deploying \cup {"restoring"}) /\ pc[p] # "backSwapped"
    <3>1. UNCHANGED <<dirs, whole, libexec, conf>>
      BY <1>22, <2>6 DEF Killed
    <3> QED
      BY <2>1, <3>1
  <2> QED
    BY <2>3, <2>4, <2>5, <2>6
<1>23. ASSUME NEW p \in Scripts, SwapBack(p) PROVE SafeInv'
  BY <1>23 DEF SwapBack, BackFailed
<1>24. ASSUME NEW p \in Scripts, InstallBack(p) PROVE SafeInv'
  <2>1. PICK d \in Dirs : d = job[p].back
    BY <1>24 DEF InstallBack
  <2>2. /\ pc[p] = "backSwapped" /\ d \in dirs /\ link = d
        /\ UNCHANGED <<dirs, whole, link, running, latest, lock>>
    BY <1>24, <2>1 DEF InstallBack
  <2>3. CASE Installed(d) /\ Goto(p, "backInstalled") /\ UNCHANGED job
    <3>1. libexec' = d /\ conf'.payload = d /\ Known' \in {d, None}
      BY <2>3, Installing
    <3> QED
      BY <2>1, <2>2, <2>3, <3>1
  <2>4. CASE HalfInstalled(d) /\ BackFailed(p)
    <3>1. Known' \in {Known, d, None}
      BY <2>4, HalfInstalling DEF Confs
    <3> QED
      BY <2>2, <2>4, <3>1 DEF BackFailed
  <2> QED
    BY <1>24, <2>1, <2>3, <2>4 DEF InstallBack, HalfInstalled, Installed
<1>25. ASSUME NEW p \in Scripts, RestartBack(p) PROVE SafeInv'
  BY <1>25 DEF RestartBack, Restarts, RestartFails
<1>26. ASSUME NEW p \in Scripts, BackHealthy(p) PROVE SafeInv'
  BY <1>26 DEF BackHealthy, Healthy
<1>27. ASSUME NEW p \in Scripts, BackNotHealthy(p) PROVE SafeInv'
  BY <1>27 DEF BackNotHealthy
<1>28. CASE UNCHANGED vars
  BY <1>28 DEF vars
<1> HIDE DEF SafeInv, Shaped, Scripts, New, Goto, host
<1> QED
  BY <1>1, <1>2, <1>3, <1>4, <1>5, <1>6, <1>7, <1>8, <1>9, <1>10, <1>11, <1>12,
     <1>13, <1>14, <1>15, <1>16, <1>17, <1>18, <1>19, <1>20, <1>21, <1>22,
     <1>23, <1>24, <1>25, <1>26, <1>27, <1>28
     DEF Next, Apply, Deploy, Either

LEMMA SafeHolds == Spec => []SafeInv
<1>1. Init => Shaped
  BY Names, NoneIsNothing
     DEF Init, Shaped, Set, TypeOK, Scripts, Places, Codes, Jobs, Fresh, Deploying
<1>2. Init => SafeInv
  <2> SUFFICES ASSUME Init PROVE SafeInv
    OBVIOUS
  <2>1. Known = Payload(1) /\ Known \in dirs
    BY Names DEF Init, Known
  <2> QED
    BY <1>1, <2>1, NoneIsNothing
       DEF Init, SafeInv, Scripts, Fresh, Busy, Locked, ApplyAt, BackAt,
           InstalledPayloadKept, HonestOutcome, Ended
<1> QED
  BY <1>2, SafeStep, PTL DEF Spec

(* The payload whose install.sh last ran to the end is still on disk,      *)
(* whatever is pruned, replaced or cut short, unless it was remains that   *)
(* do not tell their version.                                              *)
THEOREM InstalledPayloadKeptHolds == Spec => []InstalledPayloadKept
<1>1. SafeInv => InstalledPayloadKept
  BY DEF SafeInv
<1> QED
  BY <1>1, SafeHolds, PTL

(* Exit 0 and exit 4 of apply and exit 0 of rollback mean that what is     *)
(* linked, what is installed and the payload chosen are the same.          *)
THEOREM HonestOutcomeHolds == Spec => []HonestOutcome
<1>1. SafeInv => HonestOutcome
  BY DEF SafeInv
<1> QED
  BY <1>1, SafeHolds, PTL
-----------------------------------------------------------------------------
(* Pruning: what deploy.sh leaves beside the new payload.                  *)

(* The place of a payload in the order of sort -V.                         *)
Rank(d) == 2 * d.version + (IF d.tmp THEN 1 ELSE 0)

LEMMA Ranks ==
  /\ \A d \in Dirs : Rank(d) \in 1..(2 * MaxVersion + 1)
  /\ \A d, e \in Dirs : /\ Above(e, d) <=> Rank(e) > Rank(d)
                        /\ Rank(e) = Rank(d) => e = d
                        /\ Above(e, d) => e.version >= d.version
<1>1. ASSUME NEW d \in Dirs
      PROVE  /\ d.version \in 1..MaxVersion /\ d.tmp \in BOOLEAN
             /\ d = [version |-> d.version, tmp |-> d.tmp]
             /\ d.tmp => Rank(d) = 2 * d.version + 1
             /\ ~d.tmp => Rank(d) = 2 * d.version
  BY DEF Dirs, Versions, Rank
<1>2. \A d \in Dirs : Rank(d) \in 1..(2 * MaxVersion + 1)
  <2> TAKE d \in Dirs
  <2>1. CASE d.tmp
    BY <1>1, <2>1, BoundsAssumption
  <2>2. CASE ~d.tmp
    BY <1>1, <2>2, BoundsAssumption
  <2> QED
    BY <2>1, <2>2
<1>3. ASSUME NEW d \in Dirs, NEW e \in Dirs
      PROVE  /\ Above(e, d) <=> Rank(e) > Rank(d)
             /\ Rank(e) = Rank(d) => e = d
             /\ Above(e, d) => e.version >= d.version
  <2>1. /\ d.version \in Int /\ e.version \in Int
        /\ d.tmp \in BOOLEAN /\ e.tmp \in BOOLEAN
        /\ d = [version |-> d.version, tmp |-> d.tmp]
        /\ e = [version |-> e.version, tmp |-> e.tmp]
    BY <1>1
  <2>2. CASE d.tmp /\ e.tmp
    BY <1>1, <2>1, <2>2 DEF Above
  <2>3. CASE d.tmp /\ ~e.tmp
    BY <1>1, <2>1, <2>3 DEF Above
  <2>4. CASE ~d.tmp /\ e.tmp
    BY <1>1, <2>1, <2>4 DEF Above
  <2>5. CASE ~d.tmp /\ ~e.tmp
    BY <1>1, <2>1, <2>5 DEF Above
  <2> QED
    BY <2>2, <2>3, <2>4, <2>5
<1> QED
  BY <1>2, <1>3

LEMMA DirsAreFinite ==
  ASSUME NEW S \in SUBSET Dirs
  PROVE  IsFiniteSet(S) /\ Cardinality(S) \in Nat
<1> DEFINE Numbers == 1..(2 * MaxVersion + 1)
           rank == [d \in Dirs |-> Rank(d)]
<1>1. IsFiniteSet(Numbers)
  BY BoundsAssumption, FS_Interval
<1>2. rank \in Injection(Dirs, Numbers)
  <2>1. rank \in [Dirs -> Numbers]
    BY Ranks
  <2>2. \A d, e \in Dirs : rank[d] = rank[e] => d = e
    BY Ranks
  <2> QED
    BY <2>1, <2>2, Zenon DEF Injection, IsInjective
<1>3. IsFiniteSet(Dirs)
  BY <1>1, <1>2, FS_Injection
<1> QED
  BY <1>3, FS_Subset, FS_CardinalityType

(* A payload is only pruned while one above it, other than New, is there.  *)
LEMMA PrunedLeavesHigher ==
  ASSUME NEW d \in Older \ Kept
  PROVE  \E e \in Older : Above(e, d)
<1> DEFINE Higher == {e \in Older : Above(e, d)}
<1>1. ~(Cardinality(Higher) < Keep)
  BY DEF Kept
<1>2. Higher # {}
  <2>1. Higher = {} => Cardinality(Higher) = 0
    BY FS_EmptySet
  <2>2. 0 < Keep
    BY BoundsAssumption
  <2> QED
    BY <1>1, <2>1, <2>2
<1> QED
  BY <1>2

LEMMA LowestOf ==
  ASSUME dirs \in SUBSET Dirs, Older # {}
  PROVE  \E d \in Older : {e \in Older : Above(e, d)} = Older \ {d}
<1> DEFINE Numbers == {Rank(d) : d \in Older}
<1>1. Older \subseteq Dirs
  BY DEF Older
<1>2. Numbers \subseteq Nat /\ Numbers # {}
  BY <1>1, Ranks
<1>3. PICK n \in Numbers : \A m \in Numbers : <<m, n>> \notin OpToRel(<, Nat)
  BY <1>2, WFMin, NatLessThanWellFounded
<1>4. \A m \in Numbers : ~(m < n)
  BY <1>2, <1>3 DEF OpToRel
<1>5. PICK d \in Older : n = Rank(d)
  OBVIOUS
<1>6. ASSUME NEW e \in Older PROVE Above(e, d) <=> e # d
  <2>1. Rank(e) \in Nat /\ Rank(d) \in Nat /\ d \in Dirs /\ e \in Dirs
    BY <1>1, Ranks
  <2>2. ~(Rank(e) < Rank(d))
    BY <1>4, <1>5
  <2>3. Rank(e) > Rank(d) <=> Rank(e) # Rank(d)
    BY <2>1, <2>2
  <2> QED
    BY <2>1, <2>3, Ranks
<1> QED
  BY <1>6

(* When each of them is among the Keep highest, there are Keep at most: all *)
(* but the lowest are above that.                                           *)
LEMMA KeptAreFew ==
  ASSUME dirs \in SUBSET Dirs, Older \subseteq Kept
  PROVE  Cardinality(Older) <= Keep
<1>f. IsFiniteSet(Older) /\ Cardinality(Older) \in Nat
  BY DirsAreFinite DEF Older
<1>1. CASE Older = {}
  BY <1>1, BoundsAssumption, FS_EmptySet
<1>2. CASE Older # {}
  <2>1. PICK d \in Older : {e \in Older : Above(e, d)} = Older \ {d}
    BY <1>2, LowestOf
  <2>2. Cardinality(Older \ {d}) < Keep
    BY <2>1 DEF Kept
  <2>3. Cardinality(Older \ {d}) = Cardinality(Older) - 1
    BY <1>f, FS_RemoveElement
  <2> QED
    BY <1>f, <2>2, <2>3, BoundsAssumption
<1> QED
  BY <1>1, <1>2

-----------------------------------------------------------------------------
(* A host as it was first installed: with one payload, the newest release. *)
Pristine ==
  /\ dirs = {Payload(1)} /\ link = Payload(1) /\ conf.version = 1 /\ latest = 1
  /\ \A p \in Scripts : pc[p] \in {"idle", "begun", "done"}

(* Payloads are of published releases, and beside the newest release there *)
(* is always an older one.                                                 *)
AgesInv ==
  /\ \A d \in dirs : d.version <= latest
  /\ Pristine \/ \E d \in dirs : d.version < latest
  /\ pc["apply"] \in Deploying => /\ New <= latest
                                  /\ \A d \in dirs : d.version <= New
                                  /\ \E d \in dirs : d.version < New
  /\ pc["apply"] \in {"copied", "swapped", "installed"} => Tmp(New) \notin dirs

LEMMA AgesStep == SafeInv /\ AgesInv /\ [Next]_vars => AgesInv'
<1> SUFFICES ASSUME SafeInv, AgesInv, [Next]_vars PROVE AgesInv'
  OBVIOUS
<1>t. /\ TypeOK
      /\ pc["apply"] \in Deploying => New \in Versions
      /\ pc["apply"] = "begun" => job["apply"].cur = conf.version
  BY DEF SafeInv, Shaped, Set, ApplyAt, Scripts
<1>v. \A v \in Versions : v \in Nat /\ Payload(v).version = v /\ Tmp(v).version = v
  <2>1. \A v \in Versions : v \in Nat
    BY Names
  <2>2. \A v \in Versions : Payload(v).version = v /\ Tmp(v).version = v
    BY Names
  <2> QED
    BY <2>1, <2>2
<1>d. \A d \in Dirs : d.version \in Versions /\ d.version \in Nat
  <2>1. \A d \in Dirs : d.version \in Versions
    BY DEF Dirs
  <2> QED
    BY <1>v, <2>1
<1>l. latest \in Nat /\ latest \in Versions /\ 1 \in Versions
  <2>1. latest \in Versions
    BY <1>t DEF TypeOK
  <2> QED
    BY <1>v, <2>1, Names
<1>n. pc["apply"] \in Deploying =>
        /\ New \in Nat /\ Payload(New).version = New /\ Tmp(New).version = New
        /\ New <= latest
  BY <1>t, <1>v DEF AgesInv
<1>e. \A d \in dirs : d \in Dirs /\ d.version \in Nat
  <2>1. dirs \subseteq Dirs
    BY <1>t DEF TypeOK
  <2> QED
    BY <1>d, <2>1
<1> USE <1>t, <1>l, <1>n, <1>e, NoneIsNothing
<1> USE DEF AgesInv, Pristine, TypeOK, Scripts, Jobs, Deploying, Fresh, host, Goto, Exit, New
<1>1. CASE CheckRelease
  <2>1. UNCHANGED <<dirs, link, conf, latest>> /\ pc' = [pc EXCEPT !["apply"] = pc'["apply"]]
    BY <1>1 DEF CheckRelease
  <2>2. CASE pc'["apply"] = "done"
    BY <2>1, <2>2
  <2>3. CASE pc'["apply"] = "deploying"
    <3>1. New' = latest /\ conf.version < latest
      BY <1>1, <2>3 DEF CheckRelease
    <3>2. \E d \in dirs : d.version < latest
      BY <3>1
    <3> QED
      BY <2>1, <2>3, <3>1, <3>2
  <2> QED
    BY <1>1, <2>2, <2>3 DEF CheckRelease
<1>2. CASE DeployCopies
  <2>1. /\ pc["apply"] = "deploying" /\ dirs' = dirs \cup {Tmp(New)}
        /\ pc'["apply"] = "replacing" /\ UNCHANGED <<latest, job>>
    BY <1>2 DEF DeployCopies
  <2> QED
    BY <2>1
<1>3. CASE DeployReplaces
  <2>1. /\ pc["apply"] = "replacing" /\ dirs' = dirs \ {Payload(New)}
        /\ pc'["apply"] = "moving" /\ UNCHANGED <<latest, job>>
    BY <1>3 DEF DeployReplaces
  <2> QED
    BY <2>1
<1>4. CASE DeployMoves
  <2>1. /\ pc["apply"] = "moving" /\ dirs' = (dirs \ {Tmp(New)}) \cup {Payload(New)}
        /\ pc'["apply"] = "copied" /\ UNCHANGED <<latest, job>>
    BY <1>4 DEF DeployMoves
  <2>2. Tmp(New) # Payload(New)
    BY <2>1, Names
  <2> QED
    BY <2>1, <2>2
<1>5. CASE DeploySwaps
  BY <1>5 DEF DeploySwaps
<1>6. CASE DeployInstalls
  BY <1>6 DEF DeployInstalls
<1>7. CASE DeployPrunes
  <2>1. pc["apply"] = "installed" /\ UNCHANGED <<link, conf, latest, job>>
    BY <1>7 DEF DeployPrunes
  <2>2. ASSUME NEW d \in Older \ Kept, dirs' = dirs \ {d}, UNCHANGED pc
        PROVE  AgesInv'
    <3>1. PICK e \in Older : Above(e, d)
      BY <2>2, PrunedLeavesHigher
    <3>2. /\ e \in dirs' /\ e \in Dirs /\ e # Payload(New) /\ e # Tmp(New)
      <4>1. e \in Dirs /\ d \in Dirs /\ e \in dirs /\ d \in dirs /\ e # Payload(New)
        BY <2>2 DEF Older
      <4>2. e # d
        BY <3>1, <4>1, Ranks
      <4> QED
        BY <2>1, <2>2, <4>1, <4>2
    <3>3. e.version < New
      <4>1. e = Payload(e.version) \/ e = Tmp(e.version)
        BY <3>2, Names
      <4>2. e.version # New
        BY <3>2, <4>1
      <4> QED
        BY <2>1, <2>2, <3>2, <4>2
    <3> QED
      BY <2>1, <2>2, <3>2, <3>3
  <2>3. CASE UNCHANGED dirs /\ Goto("apply", "deployed")
    BY <2>1, <2>3
  <2> QED
    BY <1>7, <2>2, <2>3 DEF DeployPrunes
<1>8. CASE DeployFails
  <2>1. pc["apply"] \in Deploying /\ CutShort
    BY <1>8 DEF DeployFails
  <2>2. \/ dirs' = dirs
        \/ pc["apply"] = "deploying" /\ dirs' \in {dirs \ {Tmp(New)}, dirs \cup {Tmp(New)}}
    BY <2>1, Cutting DEF SafeInv
  <2>3. /\ \A d \in dirs' : d.version <= latest
        /\ \E d \in dirs' : d.version < latest
    BY <2>1, <2>2
  <2>4. UNCHANGED latest /\ ~(pc["apply"] \in Deploying)'
    BY <1>8 DEF DeployFails
  <2> QED
    BY <2>3, <2>4
<1>9. CASE DeployTimesOut
  <2>1. pc["apply"] \in Deploying /\ CutShort
    BY <1>9 DEF DeployTimesOut
  <2>2. \/ dirs' = dirs
        \/ pc["apply"] = "deploying" /\ dirs' \in {dirs \ {Tmp(New)}, dirs \cup {Tmp(New)}}
    BY <2>1, Cutting DEF SafeInv
  <2>3. /\ \A d \in dirs' : d.version <= latest
        /\ \E d \in dirs' : d.version < latest
    BY <2>1, <2>2
  <2>4. UNCHANGED latest /\ ~(pc["apply"] \in Deploying)'
    BY <1>9 DEF DeployTimesOut
  <2> QED
    BY <2>3, <2>4
<1>10. CASE RestoreSwaps
  BY <1>10 DEF RestoreSwaps
<1>11. CASE RestoreInstalls
  BY <1>11 DEF RestoreInstalls
<1>12. CASE NotRestored
  BY <1>12 DEF NotRestored
<1>13. CASE RestartNew
  BY <1>13 DEF RestartNew
<1>14. CASE NewIsHealthy
  BY <1>14 DEF NewIsHealthy
<1>15. CASE NewIsNotHealthy
  BY <1>15 DEF NewIsNotHealthy
<1>16. CASE ChooseBack
  <2>1. ~Pristine => \E d \in dirs : d.version < latest
    OBVIOUS
  <2>2. Pristine => Others = {}
    BY DEF Others
  <2>3. pc'["apply"] = pc["apply"] /\ New' = New /\ UNCHANGED <<dirs, latest, link, conf>>
    BY <1>16 DEF ChooseBack
  <2>4. Pristine => pc'["rollback"] = "done"
    BY <2>2, <1>16 DEF ChooseBack, Candidate
  <2> QED
    BY <2>1, <2>3, <2>4
<1>17. CASE RelayStarts
  BY <1>17 DEF RelayStarts
<1>18. CASE Publish
  <2>1. PICK v \in Versions : v > latest /\ latest' = v
    BY <1>18 DEF Publish
  <2>2. UNCHANGED <<dirs, pc, job>>
    BY <1>18 DEF Publish
  <2>3. v \in Nat
    BY <1>v
  <2>4. \A d \in dirs : d.version <= v
    BY <2>1, <2>3
  <2>5. \E d \in dirs : d.version < v
    <3>1. dirs # {}
      OBVIOUS
    <3> QED
      BY <2>1, <2>3, <3>1
  <2>6. pc["apply"] \in Deploying => New <= v
    BY <2>1, <2>3
  <2> QED
    BY <2>1, <2>2, <2>4, <2>5, <2>6
<1>19. ASSUME NEW p \in Scripts, Begin(p) PROVE AgesInv'
  BY <1>19 DEF Begin
<1>20. ASSUME NEW p \in Scripts, AlreadyRunning(p) PROVE AgesInv'
  BY <1>20 DEF AlreadyRunning
<1>21. ASSUME NEW p \in Scripts, End(p) PROVE AgesInv'
  BY <1>21 DEF End
<1>22. ASSUME NEW p \in Scripts, Killed(p) PROVE AgesInv'
  <2>1. /\ pc' = [pc EXCEPT ![p] = "idle"] /\ job' = [job EXCEPT ![p] = Fresh]
        /\ UNCHANGED <<latest, link>>
    BY <1>22 DEF Killed
  <2>2. CASE p = "apply" /\ pc[p] \in Deploying
    <3>1. CutShort
      BY <1>22, <2>2 DEF Killed
    <3>2. \/ dirs' = dirs
          \/ pc["apply"] = "deploying" /\ dirs' \in {dirs \ {Tmp(New)}, dirs \cup {Tmp(New)}}
      BY <2>2, <3>1, Cutting DEF SafeInv
    <3>3. /\ \A d \in dirs' : d.version <= latest
          /\ \E d \in dirs' : d.version < latest
      BY <2>2, <3>2
    <3> QED
      BY <2>1, <2>2, <3>3
  <2>3. CASE ~(p = "apply" /\ pc[p] \in Deploying)
    <3>1. UNCHANGED dirs
      BY <1>22, <2>3 DEF Killed
    <3>2. Pristine => Pristine'
      <4>1. ASSUME Pristine PROVE conf' = conf
        BY <4>1, <1>22, <2>3 DEF Killed
      <4> QED
        BY <2>1, <3>1, <4>1
    <3> QED
      BY <2>1, <2>3, <3>1, <3>2
  <2> QED
    BY <2>2, <2>3
<1>23. ASSUME NEW p \in Scripts, SwapBack(p) PROVE AgesInv'
  BY <1>23 DEF SwapBack, BackFailed
<1>24. ASSUME NEW p \in Scripts, InstallBack(p) PROVE AgesInv'
  BY <1>24 DEF InstallBack, BackFailed
<1>25. ASSUME NEW p \in Scripts, RestartBack(p) PROVE AgesInv'
  BY <1>25 DEF RestartBack
<1>26. ASSUME NEW p \in Scripts, BackHealthy(p) PROVE AgesInv'
  BY <1>26 DEF BackHealthy
<1>27. ASSUME NEW p \in Scripts, BackNotHealthy(p) PROVE AgesInv'
  BY <1>27 DEF BackNotHealthy
<1>28. CASE UNCHANGED vars
  BY <1>28 DEF vars
<1> HIDE DEF AgesInv, Scripts, New, Goto, host
<1> QED
  BY <1>1, <1>2, <1>3, <1>4, <1>5, <1>6, <1>7, <1>8, <1>9, <1>10, <1>11, <1>12,
     <1>13, <1>14, <1>15, <1>16, <1>17, <1>18, <1>19, <1>20, <1>21, <1>22,
     <1>23, <1>24, <1>25, <1>26, <1>27, <1>28
     DEF Next, Apply, Deploy, Either

(* What pruning has left beside the new payload, and, if apply began with  *)
(* remains of no other release, that it is whole.                          *)
UndoInv ==
  /\ pc["apply"] \in Deploying /\ job["apply"].clean => \A d \in dirs \ whole : d.version = New
  /\ pc["apply"] \in {"deployed", "restarted"} \/ Ended("apply", 0) =>
        /\ Older # {} /\ Cardinality(Older) <= Keep
        /\ job["apply"].clean => Older \subseteq whole

LEMMA UndoStep == SafeInv /\ AgesInv /\ UndoInv /\ [Next]_vars => UndoInv'
<1> SUFFICES ASSUME SafeInv, AgesInv, UndoInv, [Next]_vars PROVE UndoInv'
  OBVIOUS
<1>t. TypeOK /\ Locked
  BY DEF SafeInv, Shaped
<1>n. pc["apply"] \in Deploying => New \in Versions /\ Payload(New).version = New /\ Tmp(New).version = New
  <2>1. pc["apply"] \in Deploying => New \in Versions
    BY DEF SafeInv, Shaped, Set, Scripts
  <2> QED
    BY <2>1, Names
<1> USE <1>t, <1>n, NoneIsNothing
<1> USE DEF UndoInv, TypeOK, Locked, Busy, Scripts, Jobs, Codes, Deploying, Fresh, host,
            Goto, Exit, New, Ended, Older
<1>1. CASE CheckRelease
  <2>1. UNCHANGED <<dirs, whole>> /\ pc'["apply"] \in {"done", "deploying"} /\ pc["apply"] = "begun"
    BY <1>1 DEF CheckRelease
  <2>2. pc'["apply"] = "deploying" => New' = latest /\ (job'["apply"].clean <=> \A d \in dirs \ whole : d.version = latest)
    BY <1>1 DEF CheckRelease
  <2>3. pc'["apply"] = "done" => job'["apply"].code # 0
    BY <1>1 DEF CheckRelease
  <2> QED
    BY <2>1, <2>2, <2>3
<1>2. CASE DeployCopies
  <2>1. /\ pc["apply"] = "deploying" /\ dirs' = dirs \cup {Tmp(New)}
        /\ whole' = whole \cup {Tmp(New)}
        /\ pc'["apply"] = "replacing" /\ UNCHANGED job
    BY <1>2 DEF DeployCopies
  <2> QED
    BY <2>1
<1>3. CASE DeployReplaces
  <2>1. /\ pc["apply"] = "replacing" /\ dirs' = dirs \ {Payload(New)}
        /\ whole' = whole \ {Payload(New)}
        /\ pc'["apply"] = "moving" /\ UNCHANGED job
    BY <1>3 DEF DeployReplaces
  <2> QED
    BY <2>1
<1>4. CASE DeployMoves
  <2>1. /\ pc["apply"] = "moving" /\ dirs' = (dirs \ {Tmp(New)}) \cup {Payload(New)}
        /\ whole' = (whole \ {Tmp(New)}) \cup {Payload(New)}
        /\ pc'["apply"] = "copied" /\ UNCHANGED job
    BY <1>4 DEF DeployMoves
  <2> QED
    BY <2>1
<1>5. CASE DeploySwaps
  BY <1>5 DEF DeploySwaps
<1>6. CASE DeployInstalls
  BY <1>6 DEF DeployInstalls
<1>7. CASE DeployPrunes
  <2>1. pc["apply"] = "installed" /\ UNCHANGED job
    BY <1>7 DEF DeployPrunes
  <2>2. ASSUME NEW d \in Older \ Kept, dirs' = dirs \ {d}, whole' = whole \ {d}, UNCHANGED pc
        PROVE  UndoInv'
    BY <2>1, <2>2
  <2>3. CASE Older \subseteq Kept /\ UNCHANGED <<dirs, whole>> /\ Goto("apply", "deployed")
    <3>1. Cardinality(Older) <= Keep
      BY <2>3, KeptAreFew
    <3>2. Older # {}
      <4>1. PICK d \in dirs : d.version < New
        BY <2>1 DEF AgesInv
      <4>2. \A v \in Versions : v \in Nat
        BY Names
      <4>3. New \in Nat /\ Payload(New).version = New
        BY <2>1, <4>2
      <4>4. d # Payload(New)
        BY <4>1, <4>3
      <4> QED
        BY <4>4
    <3>3. job["apply"].clean => Older \subseteq whole
      <4> SUFFICES ASSUME job["apply"].clean, NEW d \in Older PROVE d \in whole
        OBVIOUS
      <4>1. d \in dirs /\ d \in Dirs /\ d # Payload(New) /\ d # Tmp(New)
        BY <2>1 DEF AgesInv
      <4>2. d.version # New
        BY <4>1, Names
      <4> QED
        BY <2>1, <4>1, <4>2
    <3>4. Older' = Older /\ UNCHANGED whole /\ pc'["apply"] = "deployed"
      BY <2>1, <2>3
    <3> HIDE DEF Older
    <3> QED
      BY <2>1, <3>1, <3>2, <3>3, <3>4
  <2> QED
    BY <1>7, <2>2, <2>3 DEF DeployPrunes
<1>8. CASE DeployFails
  BY <1>8 DEF DeployFails
<1>9. CASE DeployTimesOut
  BY <1>9 DEF DeployTimesOut
<1>10. CASE RestoreSwaps
  BY <1>10 DEF RestoreSwaps
<1>11. CASE RestoreInstalls
  BY <1>11 DEF RestoreInstalls
<1>12. CASE NotRestored
  BY <1>12 DEF NotRestored
<1>13. CASE RestartNew
  BY <1>13 DEF RestartNew
<1>14. CASE NewIsHealthy
  BY <1>14 DEF NewIsHealthy
<1>15. CASE NewIsNotHealthy
  BY <1>15 DEF NewIsNotHealthy
<1>16. CASE ChooseBack
  BY <1>16 DEF ChooseBack
<1>17. CASE RelayStarts
  BY <1>17 DEF RelayStarts
<1>18. CASE Publish
  BY <1>18 DEF Publish
<1>19. ASSUME NEW p \in Scripts, Begin(p) PROVE UndoInv'
  BY <1>19 DEF Begin
<1>20. ASSUME NEW p \in Scripts, AlreadyRunning(p) PROVE UndoInv'
  BY <1>20 DEF AlreadyRunning
<1>21. ASSUME NEW p \in Scripts, End(p) PROVE UndoInv'
  BY <1>21 DEF End
<1>22. ASSUME NEW p \in Scripts, Killed(p) PROVE UndoInv'
  BY <1>22 DEF Killed
<1>23. ASSUME NEW p \in Scripts, SwapBack(p) PROVE UndoInv'
  BY <1>23 DEF SwapBack, BackFailed
<1>24. ASSUME NEW p \in Scripts, InstallBack(p) PROVE UndoInv'
  BY <1>24 DEF InstallBack, BackFailed
<1>25. ASSUME NEW p \in Scripts, RestartBack(p) PROVE UndoInv'
  BY <1>25 DEF RestartBack
<1>26. ASSUME NEW p \in Scripts, BackHealthy(p) PROVE UndoInv'
  BY <1>26 DEF BackHealthy
<1>27. ASSUME NEW p \in Scripts, BackNotHealthy(p) PROVE UndoInv'
  BY <1>27 DEF BackNotHealthy
<1>28. CASE UNCHANGED vars
  BY <1>28 DEF vars
<1> HIDE DEF SafeInv, UndoInv, Scripts, New, Goto, host
<1> QED
  BY <1>1, <1>2, <1>3, <1>4, <1>5, <1>6, <1>7, <1>8, <1>9, <1>10, <1>11, <1>12,
     <1>13, <1>14, <1>15, <1>16, <1>17, <1>18, <1>19, <1>20, <1>21, <1>22,
     <1>23, <1>24, <1>25, <1>26, <1>27, <1>28
     DEF Next, Apply, Deploy, Either

(* After a successful apply pruning has left at least one payload and at   *)
(* most Keep to go back to, in full unless remains of another release lay  *)
(* there when it began; whatever earlier runs left, whatever they kept.    *)
THEOREM UndoAvailableHolds == Spec => []UndoAvailable
<1>1. Init => AgesInv /\ UndoInv
  <2> SUFFICES ASSUME Init PROVE AgesInv /\ UndoInv
    OBVIOUS
  <2>1. Payload(1).version = 1
    BY Names
  <2> QED
    BY <2>1 DEF Init, AgesInv, Pristine, UndoInv, Deploying, Ended, Scripts
<1>2. SafeInv /\ UndoInv => UndoAvailable
  <2> SUFFICES ASSUME SafeInv, UndoInv, Ended("apply", 0) PROVE UndoAvailable
    BY DEF UndoAvailable
  <2>1. Older = Others /\ dirs \in SUBSET Dirs
    BY DEF SafeInv, Shaped, TypeOK, HonestOutcome, Linked, Older, Others
  <2>2. /\ Others # {} /\ Cardinality(Others) <= Keep
        /\ job["apply"].clean => Others \subseteq whole
    BY <2>1 DEF UndoInv
  <2>3. IsFiniteSet(Others) /\ Cardinality(Others) \in Nat
    BY <2>1, DirsAreFinite DEF Others
  <2>4. Cardinality(Others) # 0
    BY <2>2, <2>3, FS_EmptySet
  <2>5. Cardinality(Others) \in 1..Keep
    BY <2>2, <2>3, <2>4, BoundsAssumption
  <2>6. ASSUME Keep = 1 PROVE \E d \in dirs : Candidate(d)
    <3>1. Cardinality(Others) = 1
      BY <2>5, <2>6
    <3>2. PICK d : Others = {d}
      BY <2>3, <3>1, FS_Singleton
    <3> QED
      BY <3>2 DEF Others, Candidate
  <2> QED
    BY <2>2, <2>5, <2>6 DEF UndoAvailable
<1> QED
  BY <1>1, <1>2, AgesStep, UndoStep, SafeHolds, PTL DEF Spec

-----------------------------------------------------------------------------
(* One way back.                                                           *)

(* What rollback has found to be the only payload beside the linked one    *)
(* still is, until it has installed it.                                    *)
OneWayBack ==
  pc["rollback"] \in {"back", "backSwapped"} =>
    \E w \in Dirs : dirs \subseteq {job["rollback"].back, w}

LEMMA OneWayBackStep == SafeInv /\ OneWayBack /\ [Next]_vars => OneWayBack'
<1> SUFFICES ASSUME SafeInv, OneWayBack, [Next]_vars PROVE OneWayBack'
  OBVIOUS
<1>t. TypeOK /\ Locked
  BY DEF SafeInv, Shaped
(* While apply changes payloads, rollback has not got the flock.           *)
<1>x. pc["apply"] \in Deploying => pc["rollback"] \notin {"back", "backSwapped"}
  BY <1>t, NoneIsNothing DEF Locked, Busy, Scripts, Deploying
<1> USE <1>t, <1>x, NoneIsNothing
<1> USE DEF TypeOK, Scripts, Jobs, Deploying, Fresh, host, Goto, Exit, OneWayBack
<1>1. CASE CheckRelease
  BY <1>1 DEF CheckRelease
<1>2. CASE DeployCopies
  <2>1. pc["apply"] \in Deploying /\ pc'["rollback"] = pc["rollback"]
    BY <1>2 DEF DeployCopies
  <2> QED
    BY <2>1
<1>3. CASE DeployReplaces
  <2>1. pc["apply"] \in Deploying /\ pc'["rollback"] = pc["rollback"]
    BY <1>3 DEF DeployReplaces
  <2> QED
    BY <2>1
<1>4. CASE DeployMoves
  <2>1. pc["apply"] \in Deploying /\ pc'["rollback"] = pc["rollback"]
    BY <1>4 DEF DeployMoves
  <2> QED
    BY <2>1
<1>5. CASE DeploySwaps
  BY <1>5 DEF DeploySwaps
<1>6. CASE DeployInstalls
  BY <1>6 DEF DeployInstalls
<1>7. CASE DeployPrunes
  <2>1. pc["apply"] \in Deploying /\ pc'["rollback"] = pc["rollback"]
    BY <1>7 DEF DeployPrunes
  <2> QED
    BY <2>1
<1>8. CASE DeployFails
  <2>1. pc["apply"] \in Deploying /\ pc'["rollback"] = pc["rollback"]
    BY <1>8 DEF DeployFails
  <2> QED
    BY <2>1
<1>9. CASE DeployTimesOut
  <2>1. pc["apply"] \in Deploying /\ pc'["rollback"] = pc["rollback"]
    BY <1>9 DEF DeployTimesOut
  <2> QED
    BY <2>1
<1>10. CASE RestoreSwaps
  BY <1>10 DEF RestoreSwaps
<1>11. CASE RestoreInstalls
  BY <1>11 DEF RestoreInstalls
<1>12. CASE NotRestored
  BY <1>12 DEF NotRestored
<1>13. CASE RestartNew
  BY <1>13 DEF RestartNew
<1>14. CASE NewIsHealthy
  BY <1>14 DEF NewIsHealthy
<1>15. CASE NewIsNotHealthy
  BY <1>15 DEF NewIsNotHealthy
<1>16. CASE ChooseBack
  <2>1. UNCHANGED <<dirs, link>> /\ link \in Dirs
    BY <1>16 DEF ChooseBack
  <2>2. ASSUME NEW d \in dirs, Candidate(d), job'["rollback"].back = d PROVE OneWayBack'
    <3>1. dirs \subseteq {d, link}
      BY <2>2 DEF Candidate, Others
    <3> QED
      BY <2>1, <2>2, <3>1
  <2>3. CASE Exit("rollback", 2)
    BY <2>3
  <2> QED
    BY <1>16, <2>2, <2>3 DEF ChooseBack
<1>17. CASE RelayStarts
  BY <1>17 DEF RelayStarts
<1>18. CASE Publish
  BY <1>18 DEF Publish
<1>19. ASSUME NEW p \in Scripts, Begin(p) PROVE OneWayBack'
  BY <1>19 DEF Begin
<1>20. ASSUME NEW p \in Scripts, AlreadyRunning(p) PROVE OneWayBack'
  BY <1>20 DEF AlreadyRunning
<1>21. ASSUME NEW p \in Scripts, End(p) PROVE OneWayBack'
  BY <1>21 DEF End
<1>22. ASSUME NEW p \in Scripts, Killed(p) PROVE OneWayBack'
  <2>1. pc' = [pc EXCEPT ![p] = "idle"] /\ job' = [job EXCEPT ![p] = Fresh]
    BY <1>22 DEF Killed
  <2>2. CASE p = "apply" /\ pc[p] \in Deploying
    BY <2>1, <2>2
  <2>3. CASE ~(p = "apply" /\ pc[p] \in Deploying)
    <3>1. UNCHANGED dirs
      BY <1>22, <2>3 DEF Killed
    <3> QED
      BY <2>1, <3>1
  <2> QED
    BY <2>2, <2>3
<1>23. ASSUME NEW p \in Scripts, SwapBack(p) PROVE OneWayBack'
  BY <1>23 DEF SwapBack, BackFailed
<1>24. ASSUME NEW p \in Scripts, InstallBack(p) PROVE OneWayBack'
  BY <1>24 DEF InstallBack, BackFailed
<1>25. ASSUME NEW p \in Scripts, RestartBack(p) PROVE OneWayBack'
  BY <1>25 DEF RestartBack
<1>26. ASSUME NEW p \in Scripts, BackHealthy(p) PROVE OneWayBack'
  BY <1>26 DEF BackHealthy
<1>27. ASSUME NEW p \in Scripts, BackNotHealthy(p) PROVE OneWayBack'
  BY <1>27 DEF BackNotHealthy
<1>28. CASE UNCHANGED vars
  BY <1>28 DEF vars
<1> HIDE DEF Scripts, Goto, host, OneWayBack
<1> QED
  BY <1>1, <1>2, <1>3, <1>4, <1>5, <1>6, <1>7, <1>8, <1>9, <1>10, <1>11, <1>12,
     <1>13, <1>14, <1>15, <1>16, <1>17, <1>18, <1>19, <1>20, <1>21, <1>22,
     <1>23, <1>24, <1>25, <1>26, <1>27, <1>28
     DEF Next, Apply, Deploy, Either

SwitchNext == [Payloads!Next]_<<dirs, whole, Known, lock>>

LEMMA SwitchSim == SafeInv /\ OneWayBack /\ [Next]_vars => SwitchNext
<1> SUFFICES ASSUME SafeInv, OneWayBack, [Next]_vars PROVE SwitchNext
  OBVIOUS
<1>t. Shaped /\ TypeOK /\ ApplyAt /\ \A p \in Scripts : BackAt(p)
  BY DEF SafeInv, Shaped
<1>k. conf' = conf => Known' = Known
  BY DEF Known
<1>s. Scripts = {"apply", "rollback"} /\ None \notin Scripts
  BY NoneIsNothing DEF Scripts
(* The steps that change a payload are taken by the holder of the flock.   *)
<1>h. /\ pc["apply"] \in Places \ {"idle", "done"} => lock = "apply"
      /\ pc["rollback"] \in Places \ {"idle", "done"} => lock = "rollback"
      /\ lock # None => lock \in Scripts
  BY NoneIsNothing DEF SafeInv, Locked, Busy, Scripts, Shaped, TypeOK
<1>n. pc["apply"] \in Deploying \cup {"restoring"} =>
        /\ New \in Versions /\ Payload(New) \in Dirs /\ Tmp(New) \in Dirs
        /\ job["apply"].prev \in Dirs /\ lock = "apply"
  <2>1. pc["apply"] \in Deploying \cup {"restoring"} => New \in Versions /\ job["apply"].prev \in Dirs
    BY <1>t DEF Shaped, Set, Scripts
  <2> QED
    BY <2>1, <1>h, Names DEF Places, Deploying
<1>q. ASSUME UNCHANGED <<dirs, whole, conf, lock>> PROVE SwitchNext
  BY <1>q, <1>k DEF SwitchNext
<1>l. ASSUME UNCHANGED <<dirs, whole, conf>>, lock' \in {lock, None} PROVE SwitchNext
  BY <1>l, <1>k DEF SwitchNext, Payloads!Next, Payloads!Leave, Payloads!MayEnd
<1>w. ASSUME UNCHANGED <<dirs, whole>>, lock # None, lock' \in {lock, None},
             NEW d \in dirs, d \in Dirs,
             Known' \in {Known, d} \/ (d \notin whole /\ Known' = None),
             lock = "rollback" => \E w \in Dirs : dirs \subseteq {d, w}
      PROVE  SwitchNext
  <2>1. CASE Known' = Known
    BY <1>w, <2>1 DEF SwitchNext, Payloads!Next, Payloads!Leave, Payloads!MayEnd
  <2>2. CASE Known' # Known
    BY <1>w, <2>2 DEF SwitchNext, Payloads!Next, Payloads!Switch, Payloads!MayEnd
  <2> QED
    BY <2>1, <2>2
<1>half. ASSUME UNCHANGED <<dirs, whole>>, lock # None, lock' \in {lock, None},
                NEW d \in dirs, d \in Dirs, HalfInstalled(d) \/ Installed(d),
                lock = "rollback" => \E w \in Dirs : dirs \subseteq {d, w}
         PROVE  SwitchNext
  <2>1. conf \in Confs
    BY <1>t DEF TypeOK, Confs
  <2>2. HalfInstalled(d)
    BY <1>half DEF HalfInstalled
  <2>3. /\ Known' \in {Known, d, None}
        /\ d \in whole => Known' \in {Known, d}
    BY <1>half, <2>1, <2>2, HalfInstalling
  <2> QED
    BY <1>half, <1>w, <2>3
<1>out. ASSUME NEW d \in Dirs, lock = "apply", lock' \in {lock, None}, d # Known,
               dirs' \in {dirs, dirs \ {d}}, whole' = whole \ {d}, UNCHANGED conf
        PROVE  SwitchNext
  BY <1>out, <1>k DEF SwitchNext, Payloads!Next, Payloads!Discard, Payloads!MayEnd
<1>in. ASSUME NEW d \in Dirs, lock = "apply", lock' \in {lock, None}, d # Known,
              dirs' = dirs \cup {d}, whole' \in {whole \ {d}, whole \cup {d}}, UNCHANGED conf
       PROVE  SwitchNext
  BY <1>in, <1>k DEF SwitchNext, Payloads!Next, Payloads!Add, Payloads!MayEnd
<1>cut. ASSUME pc["apply"] \in Deploying, CutShort, lock' \in {lock, None} PROVE SwitchNext
  <2>0. lock = "apply" /\ Payload(New) \in Dirs /\ Tmp(New) \in Dirs
    BY <1>cut, <1>n
  <2>1. CASE UNCHANGED <<dirs, whole, libexec, conf>>
    BY <1>cut, <1>l, <2>1
  <2>2. CASE pc["apply"] = "deploying" /\ HalfCopied(Tmp(New))
    <3>1. /\ Tmp(New) # Known /\ whole' = whole \ {Tmp(New)} /\ UNCHANGED conf
          /\ dirs' \in {dirs \ {Tmp(New)}, dirs \cup {Tmp(New)}}
      BY <1>t, <2>2 DEF ApplyAt, HalfCopied
    <3> QED
      BY <1>cut, <1>out, <1>in, <2>0, <3>1
  <2>3. CASE pc["apply"] = "replacing" /\ HalfRemoved(Payload(New))
    <3>1. /\ Payload(New) # Known /\ whole' = whole \ {Payload(New)} /\ UNCHANGED <<dirs, conf>>
      BY <1>t, <2>3 DEF ApplyAt, HalfRemoved
    <3> QED
      BY <1>cut, <1>out, <2>0, <3>1
  <2>4. CASE pc["apply"] = "installed" /\ \E d \in Older \ Kept : HalfRemoved(d)
    <3>1. PICK d \in Older \ Kept : HalfRemoved(d)
      BY <2>4
    <3>2. d # Known /\ d \in Dirs /\ whole' = whole \ {d} /\ UNCHANGED <<dirs, conf>>
      BY <1>t, <2>4, <3>1 DEF ApplyAt, HalfRemoved, Older, TypeOK
    <3> QED
      BY <1>cut, <1>out, <2>0, <3>2
  <2>5. CASE pc["apply"] = "swapped" /\ HalfInstalled(Payload(New)) /\ UNCHANGED <<dirs, whole>>
    <3>1. PICK d \in Dirs : d = Payload(New)
      BY <2>0
    <3>2. d \in dirs /\ HalfInstalled(d)
      BY <1>t, <2>5, <3>1 DEF ApplyAt, TypeOK, HalfInstalled, Installed
    <3> QED
      BY <1>cut, <1>s, <1>half, <2>0, <2>5, <3>2
  <2> QED
    BY <1>cut, <2>1, <2>2, <2>3, <2>4, <2>5 DEF CutShort
<1>1. CASE CheckRelease
  BY <1>1, <1>q DEF CheckRelease, host
<1>2. CASE DeployCopies
  <2>1. /\ lock = "apply" /\ Tmp(New) # Known /\ Tmp(New) \in Dirs
        /\ dirs' = dirs \cup {Tmp(New)} /\ whole' = whole \cup {Tmp(New)}
        /\ UNCHANGED <<conf, lock>>
    BY <1>2, <1>t, <1>n DEF DeployCopies, ApplyAt, Deploying
  <2> QED
    BY <2>1, <1>in
<1>3. CASE DeployReplaces
  <2>1. /\ lock = "apply" /\ Payload(New) # Known /\ Payload(New) \in Dirs
        /\ dirs' = dirs \ {Payload(New)} /\ whole' = whole \ {Payload(New)}
        /\ UNCHANGED <<conf, lock>>
    BY <1>3, <1>t, <1>n DEF DeployReplaces, ApplyAt, Deploying
  <2> QED
    BY <2>1, <1>out
<1>4. CASE DeployMoves
  <2>1. PICK d \in Dirs, e \in Dirs : d = Tmp(New) /\ e = Payload(New)
    BY <1>4, <1>n DEF DeployMoves, Deploying
  <2>2. /\ lock = "apply" /\ Known \notin {d, e} /\ d \in whole
        /\ dirs' = (dirs \ {d}) \cup {e} /\ whole' = (whole \ {d}) \cup {e}
        /\ UNCHANGED <<conf, lock>>
    BY <1>4, <1>t, <1>n, <2>1 DEF DeployMoves, ApplyAt, Deploying
  <2> QED
    BY <2>2, <1>k DEF SwitchNext, Payloads!Next, Payloads!Rename, Payloads!MayEnd
<1>5. CASE DeploySwaps
  BY <1>5, <1>q DEF DeploySwaps, host
<1>6. CASE DeployInstalls
  <2>1. PICK d \in Dirs : d = Payload(New)
    BY <1>6, <1>n DEF DeployInstalls, Deploying
  <2>2. /\ lock = "apply" /\ d \in dirs /\ Installed(d) /\ UNCHANGED <<dirs, whole, lock>>
    BY <1>6, <1>t, <1>n, <2>1 DEF DeployInstalls, Installed, Deploying, ApplyAt, TypeOK
  <2> QED
    BY <2>2, <1>half, <1>s
<1>7. CASE DeployPrunes
  <2>1. pc["apply"] = "installed" /\ lock = "apply" /\ Known = Payload(New) /\ UNCHANGED <<conf, lock>>
    BY <1>7, <1>t, <1>n DEF DeployPrunes, Deploying, ApplyAt
  <2>2. ASSUME NEW d \in Older \ Kept, dirs' = dirs \ {d}, whole' = whole \ {d} PROVE SwitchNext
    <3>1. d \in Dirs /\ d # Known
      BY <1>t, <2>1 DEF Older, TypeOK
    <3> QED
      BY <1>out, <2>1, <2>2, <3>1
  <2>3. CASE UNCHANGED <<dirs, whole>>
    BY <1>q, <2>1, <2>3
  <2> QED
    BY <1>7, <2>2, <2>3 DEF DeployPrunes
<1>8. CASE DeployFails
  <2>1. pc["apply"] \in Deploying /\ UNCHANGED lock /\ CutShort
    BY <1>8 DEF DeployFails
  <2> QED
    BY <2>1, <1>cut
<1>9. CASE DeployTimesOut
  <2>1. pc["apply"] \in Deploying /\ UNCHANGED lock /\ CutShort
    BY <1>9 DEF DeployTimesOut
  <2> QED
    BY <2>1, <1>cut
<1>10. CASE RestoreSwaps
  BY <1>10, <1>q DEF RestoreSwaps, host
<1>11. CASE RestoreInstalls
  <2>1. PICK d \in Dirs : d = job["apply"].prev
    BY <1>11, <1>n DEF RestoreInstalls
  <2>2. /\ lock = "apply" /\ d \in dirs /\ HalfInstalled(d) /\ UNCHANGED <<dirs, whole, lock>>
    BY <1>11, <1>t, <1>n, <2>1 DEF RestoreInstalls, HalfInstalled, Installed, ApplyAt
  <2> QED
    BY <2>2, <1>half, <1>s
<1>12. CASE NotRestored
  BY <1>12, <1>q DEF NotRestored, host
<1>13. CASE RestartNew
  BY <1>13, <1>q DEF RestartNew, host
<1>14. CASE NewIsHealthy
  BY <1>14, <1>q DEF NewIsHealthy, host
<1>15. CASE NewIsNotHealthy
  BY <1>15, <1>q DEF NewIsNotHealthy, host
<1>16. CASE ChooseBack
  BY <1>16, <1>q DEF ChooseBack, host
<1>17. CASE RelayStarts
  BY <1>17, <1>q DEF RelayStarts, host
<1>18. CASE Publish
  BY <1>18, <1>q DEF Publish, host
<1>19. ASSUME NEW p \in Scripts, Begin(p) PROVE SwitchNext
  <2>1. lock = None /\ lock' = p /\ UNCHANGED <<dirs, whole, conf>>
    BY <1>19 DEF Begin, host
  <2> QED
    BY <2>1, <1>k DEF SwitchNext, Payloads!Next, Payloads!Enter
<1>20. ASSUME NEW p \in Scripts, AlreadyRunning(p) PROVE SwitchNext
  BY <1>20, <1>q DEF AlreadyRunning, host
<1>21. ASSUME NEW p \in Scripts, End(p) PROVE SwitchNext
  BY <1>21, <1>l DEF End, host
<1>22. ASSUME NEW p \in Scripts, Killed(p) PROVE SwitchNext
  <2>1. lock' \in {lock, None}
    BY <1>22 DEF Killed
  <2>2. CASE p = "apply" /\ pc[p] \in Deploying
    BY <1>22, <1>cut, <2>1, <2>2 DEF Killed
  <2>3. CASE p = "apply" /\ pc[p] = "restoring"
    <3>1. PICK d \in Dirs : d = job[p].prev
      BY <1>n, <2>3
    <3>2. /\ d \in dirs /\ lock = "apply" /\ HalfInstalled(d) /\ UNCHANGED <<dirs, whole>>
      BY <1>22, <1>t, <1>n, <2>3, <3>1 DEF Killed, Deploying, HalfInstalled, Installed, ApplyAt
    <3> QED
      BY <1>half, <1>s, <2>1, <3>2
  <2>4. CASE pc[p] = "backSwapped"
    <3>1. PICK d \in Dirs : d = job[p].back
      BY <1>t, <2>4 DEF Shaped, Set
    <3>2. /\ d \in dirs /\ lock = p /\ HalfInstalled(d) /\ UNCHANGED <<dirs, whole>>
      BY <1>22, <1>t, <1>h, <2>4, <3>1
         DEF Killed, HalfInstalled, Installed, BackAt, Places, Deploying, Scripts
    <3>3. lock = "rollback" => \E w \in Dirs : dirs \subseteq {d, w}
      BY <2>4, <3>1, <3>2 DEF OneWayBack
    <3> QED
      BY <1>half, <1>s, <2>1, <3>2, <3>3
  <2>5. CASE ~(p = "apply" /\ pc[p] \in Deploying \cup {"restoring"}) /\ pc[p] # "backSwapped"
    <3>1. UNCHANGED <<dirs, whole, conf>>
      BY <1>22, <2>5 DEF Killed
    <3> QED
      BY <1>l, <2>1, <3>1
  <2> QED
    BY <2>2, <2>3, <2>4, <2>5
<1>23. ASSUME NEW p \in Scripts, SwapBack(p) PROVE SwitchNext
  BY <1>23, <1>q DEF SwapBack, host
<1>24. ASSUME NEW p \in Scripts, InstallBack(p) PROVE SwitchNext
  <2>1. PICK d \in Dirs : d = job[p].back
    BY <1>24, <1>t DEF InstallBack, Shaped, Set
  <2>2. /\ lock = p /\ d \in dirs /\ (HalfInstalled(d) \/ Installed(d))
        /\ UNCHANGED <<dirs, whole, lock>>
    BY <1>24, <1>t, <1>h, <2>1 DEF InstallBack, HalfInstalled, Installed, Places, BackAt, Scripts
  <2>3. lock = "rollback" => \E w \in Dirs : dirs \subseteq {d, w}
    BY <1>24, <2>1, <2>2 DEF OneWayBack, InstallBack
  <2> QED
    BY <2>2, <2>3, <1>half, <1>s
<1>25. ASSUME NEW p \in Scripts, RestartBack(p) PROVE SwitchNext
  BY <1>25, <1>q DEF RestartBack, host
<1>26. ASSUME NEW p \in Scripts, BackHealthy(p) PROVE SwitchNext
  BY <1>26, <1>q DEF BackHealthy, host
<1>27. ASSUME NEW p \in Scripts, BackNotHealthy(p) PROVE SwitchNext
  BY <1>27, <1>q DEF BackNotHealthy, host
<1>28. CASE UNCHANGED vars
  BY <1>28, <1>q DEF vars, host
<1> QED
  BY <1>1, <1>2, <1>3, <1>4, <1>5, <1>6, <1>7, <1>8, <1>9, <1>10, <1>11, <1>12,
     <1>13, <1>14, <1>15, <1>16, <1>17, <1>18, <1>19, <1>20, <1>21, <1>22,
     <1>23, <1>24, <1>25, <1>26, <1>27, <1>28
     DEF Next, Apply, Deploy, Either

(* For any number of releases and whatever is kept, fails, is killed or    *)
(* was left half done: both scripts do with payloads only what             *)
(* PayloadSwitch allows.                                                   *)
THEOREM SwitchImplemented == Spec => ImplementsSwitch
<1>1. Init => Payloads!Init /\ OneWayBack
  <2> SUFFICES ASSUME Init PROVE Payloads!Init /\ OneWayBack
    OBVIOUS
  <2>1. Known = Payload(1) /\ Payload(1) \in Dirs
    BY Names DEF Init, Known
  <2>2. Payloads!Init
    BY <2>1 DEF Init, Payloads!Init
  <2>3. OneWayBack
    BY DEF Init, OneWayBack, Scripts
  <2> QED
    BY <2>2, <2>3
<1> QED
  BY <1>1, OneWayBackStep, SafeHolds, SwitchSim, PTL
     DEF Spec, ImplementsSwitch, Payloads!Spec, Payloads!switchVars, SwitchNext
=============================================================================
