----------------------------- MODULE SelfUpdate -----------------------------
(***************************************************************************)
(* The host's payload and the two root units that change it:               *)
(* edy-rdp-selfupdate-apply (fetch the latest release, run its deploy.sh,  *)
(* restart the relay, roll back if it is not healthy) and -rollback.  Each *)
(* is a oneshot unit, so at most one process of each runs; both take the   *)
(* flock of exclusive_run().                                               *)
(*                                                                         *)
(* A payload is a directory, payload-<version>, or payload-<version>.tmp   *)
(* while deploy.sh copies it; scripts and pruning count both.  A deploy.sh *)
(* that is cut short may leave either without all of its files.  Whether a *)
(* relay comes up, and is found healthy in time, is the environment's      *)
(* choice.                                                                 *)
(* The relay's own checks before it starts a unit (a cached "update        *)
(* available", a rollback candidate) are advisory: both scripts decide     *)
(* again, so a unit may be started in any state.                           *)
(***************************************************************************)
EXTENDS Integers, FiniteSets

CONSTANTS
  MaxVersion,  \* bound: releases 1..MaxVersion
  Keep,        \* deploy.sh: older payloads it keeps
  None

ASSUME BoundsAssumption == MaxVersion \in Nat \ {0} /\ Keep \in Nat \ {0}

Versions == 1..MaxVersion
Scripts  == {"apply", "rollback"}

(* Names of payload directories.                                           *)
Dirs       == [version : Versions, tmp : BOOLEAN]
Payload(v) == [version |-> v, tmp |-> FALSE]
Tmp(v)     == [version |-> v, tmp |-> TRUE]

(* What install.sh calls a payload whose VERSION file is missing: 1.1.1,   *)
(* older than every release that updates itself.                           *)
Unversioned == 0

ASSUME NoneIsNothing == None \notin Nat \cup Scripts \cup Dirs

VARIABLES
  dirs,     \* the payload directories under the install root
  whole,    \* those that hold every file of their release
  link,     \* target of the `payload` symlink
  libexec,  \* payload the libexec links (what the relay's unit starts) lead to
  conf,     \* PAYLOAD and VERSION in install.conf
  running,  \* payload the relay process runs from, None: it is down
  latest,   \* the newest release on GitHub
  lock,     \* holder of .selfupdate.lock
  pc, job   \* per script: where it is, its local variables

host == <<dirs, whole, link, libexec, conf, running>>
vars == <<host, latest, lock, pc, job>>

Fresh == [cur |-> None, target |-> None, prev |-> None, back |-> None,
          code |-> None, clean |-> FALSE]

Init == /\ dirs = {Payload(1)} /\ whole = dirs /\ link = Payload(1)
        /\ libexec = link /\ running = link
        /\ conf = [payload |-> link, version |-> 1]
        /\ latest = 1 /\ lock = None
        /\ pc = [p \in Scripts |-> "idle"] /\ job = [p \in Scripts |-> Fresh]

Goto(p, where)   == pc' = [pc EXCEPT ![p] = where]
Exit(p, code)    == /\ Goto(p, "done")
                    /\ job' = [job EXCEPT ![p].code = code]

-----------------------------------------------------------------------------
(* install.sh of payload d: the libexec links first, install.conf later.   *)
(* It can refuse before it links anything (as it does when a file it has   *)
(* declared is missing), or die anywhere after.  Which files a payload     *)
(* lacks that is not whole is open: VERSION is none install.sh asks for.   *)
VersionOf(d)     == IF d \in whole THEN {d.version} ELSE {d.version, Unversioned}
Installed(d)     == /\ libexec' = d
                    /\ \E v \in VersionOf(d) : conf' = [payload |-> d, version |-> v]
HalfInstalled(d) == Installed(d) \/ (libexec' \in {libexec, d} /\ UNCHANGED conf)

(* rollback_candidate(): the one directory that is not the current one. *)
Others       == dirs \ {link}
Candidate(d) == Others = {d}

(* systemctl restart: the new relay starts from the libexec links; or it   *)
(* does not come up, or systemd refuses and leaves the old process alone.   *)
Restarts     == libexec \in dirs /\ running' = libexec
RestartFails == running' \in {running, None}

(* wait_for_healthy(): twenty seconds may be too short for a good relay. *)
Healthy == running # None

-----------------------------------------------------------------------------
Begin_Unlocked(p) ==
  /\ pc[p] = "idle"
  /\ lock' = p
  /\ job' = [job EXCEPT ![p] = [Fresh EXCEPT !.cur = conf.version]]
  /\ Goto(p, "begun")
  /\ UNCHANGED <<host, latest>>

(* exclusive_run(): the flock is taken without waiting. *)
Begin(p) ==
  /\ pc[p] = "idle" /\ lock = None
  /\ lock' = p
  /\ job' = [job EXCEPT ![p] = [Fresh EXCEPT !.cur = conf.version]]
  /\ Goto(p, "begun")
  /\ UNCHANGED <<host, latest>>

AlreadyRunning(p) ==
  /\ pc[p] = "idle" /\ lock # None
  /\ job' = [job EXCEPT ![p] = [Fresh EXCEPT !.code = 6]]
  /\ Goto(p, "done")
  /\ UNCHANGED <<host, latest, lock>>

(* The process ends: its descriptor, and the flock with it, is closed. *)
End(p) ==
  /\ pc[p] = "done"
  /\ lock' = IF lock = p THEN None ELSE lock
  /\ Goto(p, "idle") /\ job' = [job EXCEPT ![p] = Fresh]
  /\ UNCHANGED <<host, latest>>

-----------------------------------------------------------------------------
(* apply: a fresh GitHub call, then the tarball.  Nothing is touched yet.  *)
(* For the properties: are there remains of other releases than this one?  *)
CheckRelease ==
  /\ pc["apply"] = "begun"
  /\ \/ Exit("apply", 3)
     \/ latest <= job["apply"].cur /\ Exit("apply", 2)
     \/ /\ latest > job["apply"].cur
        /\ job' = [job EXCEPT !["apply"].target = latest, !["apply"].prev = link,
                              !["apply"].clean = \A d \in dirs \ whole : d.version = latest]
        /\ Goto("apply", "deploying")
  /\ UNCHANGED <<host, latest, lock>>

New == job["apply"].target

(* do_deploy(): the new tree is copied aside, over nothing of that name ... *)
DeployCopies ==
  /\ pc["apply"] = "deploying"
  /\ dirs' = dirs \cup {Tmp(New)} /\ whole' = whole \cup {Tmp(New)}
  /\ Goto("apply", "replacing")
  /\ UNCHANGED <<link, libexec, conf, running, latest, lock, job>>

(* ... a directory of the release's name is removed ... *)
DeployReplaces ==
  /\ pc["apply"] = "replacing"
  /\ dirs' = dirs \ {Payload(New)} /\ whole' = whole \ {Payload(New)}
  /\ Goto("apply", "moving")
  /\ UNCHANGED <<link, libexec, conf, running, latest, lock, job>>

(* ... and the copy moved into its place. *)
DeployMoves ==
  /\ pc["apply"] = "moving"
  /\ dirs'  = (dirs  \ {Tmp(New)}) \cup {Payload(New)}
  /\ whole' = (whole \ {Tmp(New)}) \cup {Payload(New)}
  /\ Goto("apply", "copied")
  /\ UNCHANGED <<link, libexec, conf, running, latest, lock, job>>

DeploySwaps ==
  /\ pc["apply"] = "copied"
  /\ link' = Payload(New) /\ Goto("apply", "swapped")
  /\ UNCHANGED <<dirs, whole, libexec, conf, running, latest, lock, job>>

DeployInstalls ==
  /\ pc["apply"] = "swapped"
  /\ Installed(Payload(New)) /\ Goto("apply", "installed")
  /\ UNCHANGED <<dirs, whole, link, running, latest, lock, job>>

(* sort -V puts payload-<v>.tmp right above payload-<v>.                   *)
Above(e, d) == e.version > d.version \/ (e.version = d.version /\ e.tmp /\ ~d.tmp)

(* All but the Keep highest of the other payloads are removed, one by one. *)
Older == dirs \ {Payload(New)}
Kept  == {d \in Older : Cardinality({e \in Older : Above(e, d)}) < Keep}

DeployPrunes_KeepsNone ==
  /\ pc["apply"] = "installed"
  /\ dirs' = {Payload(New)} /\ whole' = dirs' /\ Goto("apply", "deployed")
  /\ UNCHANGED <<link, libexec, conf, running, latest, lock, job>>

DeployPrunes ==
  /\ pc["apply"] = "installed"
  /\ \/ \E d \in Older \ Kept : /\ dirs' = dirs \ {d} /\ whole' = whole \ {d}
                                /\ UNCHANGED pc
     \/ Older \subseteq Kept /\ UNCHANGED <<dirs, whole>> /\ Goto("apply", "deployed")
  /\ UNCHANGED <<link, libexec, conf, running, latest, lock, job>>

Deploying == {"deploying", "replacing", "moving", "copied", "swapped", "installed"}

(* What a deploy.sh leaves that is cut short at a place: all as it was; a  *)
(* copy half made or half removed; a payload half removed; an installation *)
(* half done.                                                              *)
HalfRemoved(d) == /\ d \in dirs /\ whole' = whole \ {d}
                  /\ UNCHANGED <<dirs, libexec, conf>>
HalfCopied(d)  == /\ dirs' \in {dirs \ {d}, dirs \cup {d}} /\ whole' = whole \ {d}
                  /\ UNCHANGED <<libexec, conf>>
CutShort ==
  \/ UNCHANGED <<dirs, whole, libexec, conf>>
  \/ pc["apply"] = "deploying" /\ HalfCopied(Tmp(New))
  \/ pc["apply"] = "replacing" /\ HalfRemoved(Payload(New))
  \/ pc["apply"] = "installed" /\ \E d \in Older \ Kept : HalfRemoved(d)
  \/ pc["apply"] = "swapped" /\ HalfInstalled(Payload(New)) /\ UNCHANGED <<dirs, whole>>

DeployFails_Unnoticed ==
  /\ pc["apply"] \in Deploying
  /\ CutShort /\ Goto("apply", "deployed")
  /\ UNCHANGED <<link, running, latest, lock, job>>

(* deploy.sh exits nonzero (it runs under set -e). *)
DeployFails ==
  /\ pc["apply"] \in Deploying
  /\ CutShort /\ Goto("apply", "failed")
  /\ UNCHANGED <<link, running, latest, lock, job>>

(* subprocess.run gives up on deploy.sh after 180 s and kills it; what it   *)
(* had done stays.                                                          *)
DeployTimesOut ==
  /\ pc["apply"] \in Deploying
  /\ CutShort /\ Exit("apply", 3)
  /\ UNCHANGED <<link, running, latest, lock>>

(* swap_payload_and_install(prev), if the symlink was moved. *)
RestoreSwaps ==
  /\ pc["apply"] = "failed"
  /\ link # job["apply"].prev /\ job["apply"].prev \in dirs
  /\ link' = job["apply"].prev /\ Goto("apply", "restoring")
  /\ UNCHANGED <<dirs, whole, libexec, conf, running, latest, lock, job>>

RestoreInstalls ==
  /\ pc["apply"] = "restoring"
  /\ HalfInstalled(job["apply"].prev) /\ Exit("apply", 3)
  /\ UNCHANGED <<dirs, whole, link, running, latest, lock>>

(* Nothing to restore, or the symlink cannot be moved. *)
NotRestored ==
  /\ pc["apply"] = "failed" /\ Exit("apply", 3)
  /\ UNCHANGED <<host, latest, lock>>

RestartNew ==
  /\ pc["apply"] = "deployed"
  /\ (Restarts \/ RestartFails) /\ Goto("apply", "restarted")
  /\ UNCHANGED <<dirs, whole, link, libexec, conf, latest, lock, job>>

NewIsHealthy ==
  /\ pc["apply"] = "restarted" /\ Healthy /\ Exit("apply", 0)
  /\ UNCHANGED <<host, latest, lock>>

(* Not healthy in time: roll back, if there is one directory to go back to. *)
NewIsNotHealthy ==
  /\ pc["apply"] = "restarted"
  /\ \/ \E d \in dirs : /\ Candidate(d)
                        /\ job' = [job EXCEPT !["apply"].back = d]
                        /\ Goto("apply", "back")
     \/ ~(\E d \in dirs : Candidate(d)) /\ Exit("apply", 5)
  /\ UNCHANGED <<host, latest, lock>>

-----------------------------------------------------------------------------
ChooseBack_Unchecked ==
  /\ pc["rollback"] = "begun"
  /\ \/ \E d \in dirs : /\ Candidate(d)
                        /\ job' = [job EXCEPT !["rollback"].back = d]
                        /\ Goto("rollback", "back")
     \/ Others = {} /\ Goto("rollback", "back") /\ UNCHANGED job
  /\ UNCHANGED <<host, latest, lock>>

ChooseBack_Guesses ==
  /\ pc["rollback"] = "begun"
  /\ \/ \E d \in Others : /\ job' = [job EXCEPT !["rollback"].back = d]
                          /\ Goto("rollback", "back")
     \/ Others = {} /\ Exit("rollback", 2)
  /\ UNCHANGED <<host, latest, lock>>

(* rollback: the candidate is looked up on disk. *)
ChooseBack ==
  /\ pc["rollback"] = "begun"
  /\ \/ \E d \in dirs : /\ Candidate(d)
                        /\ job' = [job EXCEPT !["rollback"].back = d]
                        /\ Goto("rollback", "back")
     \/ ~(\E d \in dirs : Candidate(d)) /\ Exit("rollback", 2)
  /\ UNCHANGED <<host, latest, lock>>

(* swap_payload_and_install(back), shared by both scripts.  On a failed     *)
(* swap or install, apply still restarts the relay; rollback stops with 3.  *)
BackFailed(p) == \/ p = "apply" /\ Goto(p, "backBroken") /\ UNCHANGED job
                 \/ p = "rollback" /\ Exit(p, 3)

SwapBack(p) ==
  /\ pc[p] = "back"
  /\ \/ link' = job[p].back /\ Goto(p, "backSwapped") /\ UNCHANGED job
     \/ UNCHANGED link /\ BackFailed(p)
  /\ UNCHANGED <<dirs, whole, libexec, conf, running, latest, lock>>

InstallBack(p) ==
  /\ pc[p] = "backSwapped"
  /\ \/ Installed(job[p].back) /\ Goto(p, "backInstalled") /\ UNCHANGED job
     \/ HalfInstalled(job[p].back) /\ BackFailed(p)
  /\ UNCHANGED <<dirs, whole, link, running, latest, lock>>

RestartBack(p) ==
  /\ \/ pc[p] = "backInstalled" /\ Restarts /\ Goto(p, "backRestarted")
     \/ pc[p] = "backBroken" /\ Restarts /\ Goto(p, "backDoubtful")
     \/ /\ pc[p] \in {"backInstalled", "backBroken"}
        /\ RestartFails /\ Goto(p, "backDoubtful")
  /\ UNCHANGED <<dirs, whole, link, libexec, conf, latest, lock, job>>

(* apply counts a failed swap, install or restart as a failed rollback;     *)
(* rollback asks the health check alone.                                    *)
BackHealthy(p) ==
  /\ Healthy
  /\ \/ pc[p] = "backRestarted" /\ Exit(p, IF p = "apply" THEN 4 ELSE 0)
     \/ p = "rollback" /\ pc[p] = "backDoubtful" /\ Exit(p, 0)
  /\ UNCHANGED <<host, latest, lock>>

BackNotHealthy(p) ==
  /\ pc[p] \in {"backRestarted", "backDoubtful"}
  /\ Exit(p, IF p = "apply" THEN 5 ELSE 3)
  /\ UNCHANGED <<host, latest, lock>>

-----------------------------------------------------------------------------
(* The unit is stopped or runs into TimeoutStartSec: the script and its     *)
(* children are killed, the flock goes with them.                           *)
Killed(p) ==
  /\ pc[p] # "idle"
  /\ IF p = "apply" /\ pc[p] \in Deploying THEN CutShort
     ELSE /\ UNCHANGED <<dirs, whole>>
          /\ CASE p = "apply" /\ pc[p] = "restoring" -> HalfInstalled(job[p].prev)
               [] pc[p] = "backSwapped" -> HalfInstalled(job[p].back)
               [] OTHER -> UNCHANGED <<libexec, conf>>
  /\ lock' = IF lock = p THEN None ELSE lock
  /\ Goto(p, "idle") /\ job' = [job EXCEPT ![p] = Fresh]
  /\ UNCHANGED <<link, running, latest>>

(* The relay is started again, by its socket or by an operator. *)
RelayStarts ==
  /\ running' = IF libexec \in dirs THEN libexec ELSE None
  /\ UNCHANGED <<dirs, whole, link, libexec, conf, latest, lock, pc, job>>

Publish ==
  /\ \E v \in Versions : v > latest /\ latest' = v
  /\ UNCHANGED <<host, lock, pc, job>>

Deploy == \/ DeployCopies \/ DeployReplaces \/ DeployMoves \/ DeploySwaps
          \/ DeployInstalls \/ DeployPrunes \/ DeployFails \/ DeployTimesOut

Apply == \/ CheckRelease \/ Deploy
         \/ RestoreSwaps \/ RestoreInstalls \/ NotRestored
         \/ RestartNew \/ NewIsHealthy \/ NewIsNotHealthy

Either(p) == \/ Begin(p) \/ AlreadyRunning(p) \/ End(p) \/ Killed(p)
             \/ SwapBack(p) \/ InstallBack(p) \/ RestartBack(p)
             \/ BackHealthy(p) \/ BackNotHealthy(p)

Next == \/ Apply \/ ChooseBack \/ (\E p \in Scripts : Either(p))
        \/ RelayStarts \/ Publish

Spec == Init /\ [][Next]_vars

-----------------------------------------------------------------------------
Places == {"idle", "begun", "failed", "restoring", "deployed", "restarted", "back",
           "backSwapped", "backInstalled", "backBroken", "backRestarted",
           "backDoubtful", "done"} \cup Deploying
Codes  == {0, 2, 3, 4, 5, 6}
Jobs   == [cur : Versions \cup {Unversioned, None}, target : Versions \cup {None},
           prev : Dirs \cup {None}, back : Dirs \cup {None},
           code : Codes \cup {None}, clean : BOOLEAN]

(* Every variable keeps its type; in particular `payload` always names a   *)
(* payload directory, whatever the scripts chose to move it to.            *)
TypeOK == /\ dirs \in SUBSET Dirs /\ whole \in SUBSET dirs /\ link \in Dirs
          /\ libexec \in Dirs
          /\ conf \in [payload : Dirs, version : Versions \cup {Unversioned}]
          /\ running \in Dirs \cup {None} /\ latest \in Versions
          /\ lock \in Scripts \cup {None}
          /\ pc \in [Scripts -> Places] /\ job \in [Scripts -> Jobs]

(* What has been installed under its own version; None after a rollback to *)
(* remains without their VERSION, which the next apply may well copy over. *)
Known == IF conf.version = conf.payload.version THEN conf.payload ELSE None

(* The payload whose install.sh last ran to the end is still on disk,      *)
(* unless it was without its VERSION: no replaced directory, pruning or    *)
(* interrupted run ever deletes the payload an operator could go back to.  *)
InstalledPayloadKept == Known # None => Known \in dirs

Ended(p, code) == pc[p] = "done" /\ job[p].code = code

Linked(d) == link = d /\ libexec = d /\ conf.payload = d

(* What the good exit codes promise.  apply 0: the new release is linked   *)
(* and installed, under its version.  apply 4: the host is off the failed  *)
(* release, and the payload linked, installed and running is one.          *)
(* rollback 0: the payload chosen is linked and installed.  In each a      *)
(* relay runs.                                                             *)
HonestOutcome ==
  /\ Ended("apply", 0) => Linked(Payload(New)) /\ Known = link /\ running # None
  /\ Ended("apply", 4) => link # Payload(New) /\ Linked(link) /\ running = link
  /\ \A b \in Dirs : Ended("rollback", 0) /\ job["rollback"].back = b =>
        Linked(b) /\ running # None

(* After a successful apply there is a payload to go back to, and pruning  *)
(* has left no more than it may; with deploy.sh's KEEP of one, the rollback *)
(* button therefore finds its candidate.  It has all its files if no       *)
(* remains of another release than the new one lay on disk when apply      *)
(* began: those may outrank a good payload, and are kept in its place.     *)
UndoAvailable ==
  Ended("apply", 0) => /\ Cardinality(Others) \in 1..Keep
                       /\ Keep = 1 => \E d \in dirs : Candidate(d)
                       /\ job["apply"].clean => Others \subseteq whole

(* What is promised about payloads (PayloadSwitch), over the scripts' own  *)
(* state.                                                                  *)
Payloads == INSTANCE PayloadSwitch WITH
  payloads <- dirs, complete <- whole, installed <- Known, holder <- lock

(* Both scripts implement PayloadSwitch step by step: whatever fails, is   *)
(* killed, or was left by earlier runs, payloads are changed under the     *)
(* flock alone, no file of the installed one is removed, what replaces it  *)
(* is on disk, and what rollback found to be the one way back still is     *)
(* when it installs it.                                                    *)
ImplementsSwitch == Payloads!Spec

(* The exit-code table of edy-rdp-selfupdate-apply: on 4 "host is back on  *)
(* the old version", the one it ran before.                                *)
FourIsTheOldVersion == Ended("apply", 4) => link = Payload(job["apply"].cur)
=============================================================================
