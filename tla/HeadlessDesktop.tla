-------------------------- MODULE HeadlessDesktop --------------------------
(***************************************************************************)
(* One user's isolated desktop: the unit edy-rdp-headless@<uid> with its   *)
(* start and stop scripts, the relay threads that start it and dial it     *)
(* (ensure_headless_session, then the bridge), and the reaper, which stops *)
(* it once it is idle.  Users share nothing here, so one stands for all.   *)
(*                                                                         *)
(* The unit is Type=oneshot, RemainAfterExit=yes: `systemctl start` of an  *)
(* active unit returns at once and runs nothing, whatever has become of    *)
(* the desktop.  The gnome-shell is a transient unit of its own; nothing   *)
(* but the stop script ends it, and systemd runs ExecStop only for a unit  *)
(* whose start succeeded.                                                  *)
(*                                                                         *)
(* The scripts look at the exit status of none of their grdctl and         *)
(* `systemctl --user` calls (set -uo pipefail, no -e), so each of them may *)
(* fail and the script goes on.                                            *)
(***************************************************************************)
EXTENDS Integers, FiniteSets

CONSTANTS
  Conns,   \* the user's connection threads in the relay
  Creds,   \* RDP gate credentials; each start mints one
  Ids,     \* virtual-desktop ids
  None

Endpoint == [cred : Creds, id : Ids]

ASSUME NoneIsNothing == None \notin Creds \cup Ids \cup Endpoint

(* Both are random and long: there are far more of them than threads.      *)
ASSUME EnoughToDraw ==
  /\ IsFiniteSet(Conns) /\ IsFiniteSet(Creds) /\ IsFiniteSet(Ids)
  /\ Cardinality(Creds) > Cardinality(Conns) + 4
  /\ Cardinality(Ids) > Cardinality(Conns) + 2

VARIABLES
  unit,      \* systemd's state of edy-rdp-headless@<uid>
  step,      \* where its start or stop script is
  fresh,     \* the start script's `fresh`
  cred,      \* the start script's `cred`
  silent,    \* (for the properties) a call of the last start failed unseen
  shell,     \* an isolated gnome-shell runs
  stored,    \* the credential grdctl stored last
  grd,       \* the one the headless RDP server accepts, None: not running
  idFile,    \* <uid>.desktop
  env,       \* <uid>.env, None: absent
  err,       \* <uid>.err is present
  pc, seen,  \* relay thread: where it is, the .env it has read
  entry,     \* its entry in the session registry
  reaper,    \* where the reaper is in its tick
  late       \* connections that attached or registered since its `list`

scriptVars == <<unit, step, fresh, cred, silent>>
hostVars   == <<shell, stored, grd, idFile, env, err>>
connVars   == <<pc, seen, entry>>
vars == <<scriptVars, hostVars, connVars, reaper, late>>

Attached == {"attached", "relaying"}

(* What is stored at first is from an earlier boot; nobody has it.         *)
Init ==
  /\ unit = "inactive" /\ step = "none" /\ fresh = FALSE
  /\ cred = None /\ silent = FALSE
  /\ shell = FALSE /\ stored = CHOOSE k \in Creds : TRUE
  /\ grd = None /\ idFile = None /\ env = None /\ err = FALSE
  /\ pc = [c \in Conns |-> "idle"]
  /\ seen = [c \in Conns |-> None]
  /\ entry = [c \in Conns |-> "none"]
  /\ reaper = "wait" /\ late = {}

----------------------------------------------------------------------------
(* systemd and the start script.                                           *)

(* Connections whose RDP server or shell goes away lose their bridge. *)
Dropped(p) == [c \in Conns |-> IF p[c] \in Attached THEN "lost" ELSE p[c]]

(* A start job is queued and the unit is not up: ExecStart runs. *)
StartJob ==
  /\ unit \in {"inactive", "failed"}
  /\ \E c \in Conns : pc[c] = "waiting"
  /\ unit' = "activating" /\ step' = "seat"
  /\ UNCHANGED <<fresh, cred, silent, hostVars, connVars, reaper, late>>

(* The unit fails and the job with it: every `systemctl start` that was    *)
(* merged into it returns non-zero, and its thread is refused.             *)
StartFailed ==
  /\ unit' = "failed" /\ step' = "none"
  /\ fresh' = FALSE /\ cred' = None /\ silent' = FALSE
  /\ pc' = [c \in Conns |-> IF pc[c] = "waiting" THEN "idle" ELSE pc[c]]

(* exit 1: the bus, the wayland socket or the port never appeared, or      *)
(* TimeoutStartSec ran out.  Nothing done so far is undone.                *)
StartGivesUp ==
  /\ unit = "activating"
  /\ StartFailed
  /\ UNCHANGED <<hostVars, seen, entry, reaper, late>>

(* exit 3: the user is logged in at the seat; .err says so.  The user logs *)
(* in and out there at will, so either answer is possible at every start.  *)
RefuseSeated ==
  /\ step = "seat"
  /\ err' = TRUE
  /\ StartFailed
  /\ UNCHANGED <<shell, stored, grd, idFile, env, seen, entry, reaper, late>>

(* The seat is free: an isolated shell is found, or one is launched. *)
EnsureShell ==
  /\ step = "seat"
  /\ err' = FALSE
  /\ fresh' = ~shell /\ shell' = TRUE
  /\ step' = "grd"
  /\ UNCHANGED <<unit, cred, silent, stored, grd, idFile, env, connVars, reaper, late>>

UsedCreds == {grd, stored} \cup {IF env = None THEN None ELSE env.cred}
               \cup {seen[c].cred : c \in {x \in Conns : seen[x] # None}}
UsedIds == {idFile} \cup {IF env = None THEN None ELSE env.id}
               \cup {seen[c].id : c \in {x \in Conns : seen[x] # None}}

(* Which unused one a random draw gives makes no difference. *)
Unused(S, used) == CHOOSE x \in S \ used : TRUE

SetCredential_OnlyIfFresh ==
  /\ step = "grd"
  /\ \E ok \in BOOLEAN :
       /\ cred' = IF fresh THEN Unused(Creds, UsedCreds) ELSE cred
       /\ stored' = IF fresh /\ ok THEN cred' ELSE stored
       /\ silent' = ~ok
  /\ step' = "restart"
  /\ UNCHANGED <<unit, fresh, shell, grd, idFile, env, err, connVars, reaper, late>>

SetCredential_Fixed ==
  /\ step = "grd"
  /\ cred' = CHOOSE k \in Creds : TRUE
  /\ stored' = cred' /\ silent' = FALSE
  /\ step' = "restart"
  /\ UNCHANGED <<unit, fresh, shell, grd, idFile, env, err, connVars, reaper, late>>

(* A new random credential is minted, and set unless grdctl fails. *)
SetCredential ==
  /\ step = "grd"
  /\ \E ok \in BOOLEAN :
       /\ cred' = Unused(Creds, UsedCreds)
       /\ stored' = IF ok THEN cred' ELSE stored
       /\ silent' = ~ok
  /\ step' = "restart"
  /\ UNCHANGED <<unit, fresh, shell, grd, idFile, env, err, connVars, reaper, late>>

(* The RDP server is restarted and takes what is stored; or it ends and    *)
(* does not come up; or no job was queued and it is left as it was.        *)
RestartGrd ==
  /\ step = "restart"
  /\ \/ grd' \in {stored, None} /\ pc' = Dropped(pc)
     \/ UNCHANGED <<grd, pc>>
  /\ silent' = (silent \/ grd' # stored)
  /\ step' = "publish"
  /\ UNCHANGED <<unit, fresh, cred, shell, stored, idFile, env, err, seen, entry, reaper, late>>

Publish_OnlyIfFresh ==
  /\ step = "publish"
  /\ idFile' = IF fresh \/ idFile = None THEN Unused(Ids, UsedIds) ELSE idFile
  /\ env' = IF fresh \/ env = None THEN [cred |-> cred, id |-> idFile'] ELSE env
  /\ step' = "port" /\ cred' = None
  /\ UNCHANGED <<unit, fresh, silent, shell, stored, grd, err, connVars, reaper, late>>

(* The desktop keeps its id unless the shell is fresh or the file is gone; *)
(* then port, credential and id are published for the relay.               *)
Publish ==
  /\ step = "publish"
  /\ idFile' = IF fresh \/ idFile = None THEN Unused(Ids, UsedIds) ELSE idFile
  /\ env' = [cred |-> cred, id |-> idFile']
  /\ step' = "port" /\ cred' = None
  /\ UNCHANGED <<unit, fresh, silent, shell, stored, grd, err, connVars, reaper, late>>

(* The port listens: exit 0, and the unit is active from now on. *)
PortListens ==
  /\ step = "port" /\ grd # None
  /\ unit' = "active" /\ step' = "none" /\ fresh' = FALSE
  /\ UNCHANGED <<cred, silent, hostVars, connVars, reaper, late>>

----------------------------------------------------------------------------
(* The stop script, run when a stop job reaches an active unit.            *)

(* A stop that fails leaves the RDP server running. *)
StopGrd ==
  /\ step = "stopgrd"
  /\ \/ grd' = None /\ pc' = Dropped(pc)
     \/ UNCHANGED <<grd, pc>>
  /\ step' = "stopshell"
  /\ UNCHANGED <<unit, fresh, cred, silent, shell, stored, idFile, env, err, seen, entry, reaper, late>>

StopShell ==
  /\ step = "stopshell"
  /\ shell' = FALSE
  /\ pc' = Dropped(pc)
  /\ step' = "rmfiles"
  /\ UNCHANGED <<unit, fresh, cred, silent, stored, grd, idFile, env, err, seen, entry, reaper, late>>

RemoveFiles ==
  /\ step = "rmfiles"
  /\ env' = None /\ idFile' = None
  /\ unit' = "inactive" /\ step' = "none" /\ silent' = FALSE
  /\ UNCHANGED <<fresh, cred, shell, stored, grd, err, connVars, reaper, late>>

----------------------------------------------------------------------------
(* The isolated shell crashes, or the user logs out of it. *)
ShellDies ==
  /\ shell
  /\ shell' = FALSE
  /\ pc' = Dropped(pc)
  /\ UNCHANGED <<scriptVars, stored, grd, idFile, env, err, seen, entry, reaper, late>>

----------------------------------------------------------------------------
(* A connection thread of the relay.                                       *)

Goto(c, from, to) == pc[c] = from /\ pc' = [pc EXCEPT ![c] = to]

(* `systemctl start`.  A thread is used again once its entry is gone. *)
RequestStart(c) ==
  /\ Goto(c, "idle", "waiting")
  /\ entry[c] = "none"
  /\ UNCHANGED <<scriptVars, hostVars, seen, entry, reaper, late>>

(* It returns: at once if the unit was active, else with the job. *)
Started(c) ==
  /\ Goto(c, "waiting", "started")
  /\ unit = "active"
  /\ UNCHANGED <<scriptVars, hostVars, seen, entry, reaper, late>>

(* TimeoutExpired: refused, while the job goes on. *)
StartTimesOut(c) ==
  /\ Goto(c, "waiting", "idle")
  /\ unit \in {"activating", "deactivating"}
  /\ UNCHANGED <<scriptVars, hostVars, seen, entry, reaper, late>>

(* The .env is read after `systemctl start` has returned, so it may be     *)
(* gone, or a later desktop's.  Missing: refused.                          *)
ReadEnv(c) ==
  /\ pc[c] = "started"
  /\ pc' = [pc EXCEPT ![c] = IF env = None THEN "idle" ELSE "dialing"]
  /\ seen' = [seen EXCEPT ![c] = env]
  /\ UNCHANGED <<scriptVars, hostVars, entry, reaper, late>>

(* The bridge's xfreerdp3 authenticates, with the credential read before. *)
Accepted(c) == shell /\ grd = seen[c].cred

SinceList(c) == IF reaper \in {"units", "port", "stop"} THEN late \cup {c} ELSE late

BridgeUp(c) ==
  /\ Goto(c, "dialing", "attached")
  /\ Accepted(c)
  /\ late' = SinceList(c)
  /\ UNCHANGED <<scriptVars, hostVars, seen, entry, reaper>>

BridgeFails(c) ==
  /\ Goto(c, "dialing", "idle")
  /\ seen' = [seen EXCEPT ![c] = None]
  /\ UNCHANGED <<scriptVars, hostVars, entry, reaper, late>>

(* guacd's `ready`: the registry entry is opened and marked active. *)
Register(c) ==
  /\ Goto(c, "attached", "relaying")
  /\ entry' = [entry EXCEPT ![c] = "active"]
  /\ late' = SinceList(c)
  /\ UNCHANGED <<scriptVars, hostVars, seen, reaper>>

(* The thread ends, and marks its entry disconnected. *)
EndThread(c) ==
  /\ pc' = [pc EXCEPT ![c] = "idle"]
  /\ seen' = [seen EXCEPT ![c] = None]
  /\ entry' = [entry EXCEPT ![c] = IF @ = "active" THEN "disconnected" ELSE @]
  /\ UNCHANGED <<scriptVars, hostVars, reaper, late>>

ClientLeaves(c) == pc[c] \in Attached /\ EndThread(c)
BridgeLost(c)   == pc[c] = "lost" /\ EndThread(c)

(* The relay is restarted: its threads and their bridges are gone, the     *)
(* registry stays as it was on disk.                                       *)
RelayRestarts ==
  /\ pc' = [c \in Conns |-> "idle"]
  /\ seen' = [c \in Conns |-> None]
  /\ UNCHANGED <<scriptVars, hostVars, entry, reaper, late>>

----------------------------------------------------------------------------
(* The reaper: a oneshot program on a 30 s timer.                          *)

ReaperGoto(from, to) ==
  /\ reaper = from /\ reaper' = to
  /\ late' = IF to = "wait" THEN {} ELSE late

ReaperPrunes_NoTtl(aged) ==
  /\ ReaperGoto("wait", "list")
  /\ aged = {}
  /\ UNCHANGED <<scriptVars, hostVars, connVars>>

(* `prune`: entries disconnected longer than session_ttl go; none do if    *)
(* the control socket is unavailable.                                      *)
ReaperPrunes(aged) ==
  /\ ReaperGoto("wait", "list")
  /\ aged \subseteq {c \in Conns : entry[c] = "disconnected"}
  /\ entry' = [c \in Conns |-> IF c \in aged THEN "none" ELSE entry[c]]
  /\ UNCHANGED <<scriptVars, hostVars, pc, seen>>

(* `list`: with any isolated entry the uid is in `keep`. *)
ReaperLists ==
  /\ ReaperGoto("list", IF \E c \in Conns : entry[c] # "none" THEN "wait" ELSE "units")
  /\ UNCHANGED <<scriptVars, hostVars, connVars>>

ListUnavailable_KeepsNobody ==
  /\ ReaperGoto("list", "units")
  /\ UNCHANGED <<scriptVars, hostVars, connVars>>

(* No registry view: nothing is stopped in this tick. *)
ListUnavailable ==
  /\ ReaperGoto("list", "wait")
  /\ UNCHANGED <<scriptVars, hostVars, connVars>>

ReaperFindsUnit_RunningOnly ==
  /\ ReaperGoto("units", IF unit = "activating" THEN "port" ELSE "wait")
  /\ UNCHANGED <<scriptVars, hostVars, connVars>>

(* systemctl list-units --state=active. *)
ReaperFindsUnit ==
  /\ ReaperGoto("units", IF unit = "active" THEN "port" ELSE "wait")
  /\ UNCHANGED <<scriptVars, hostVars, connVars>>

(* An established connection to the port: surely if a bridge is attached,  *)
(* possibly while one is dialing.                                          *)
PortBusy ==
  /\ ReaperGoto("port", "wait")
  /\ \E c \in Conns : pc[c] \in Attached \cup {"dialing"}
  /\ UNCHANGED <<scriptVars, hostVars, connVars>>

PortIdle ==
  /\ ReaperGoto("port", "stop")
  /\ \A c \in Conns : pc[c] \notin Attached
  /\ UNCHANGED <<scriptVars, hostVars, connVars>>

(* `systemctl stop`, on a look that is by now a moment old. *)
ReaperStops ==
  /\ ReaperGoto("stop", "wait")
  /\ IF unit = "active"
     THEN unit' = "deactivating" /\ step' = "stopgrd"
     ELSE UNCHANGED <<unit, step>>
  /\ UNCHANGED <<fresh, cred, silent, hostVars, connVars>>

----------------------------------------------------------------------------
UnitStep == StartJob \/ RefuseSeated \/ EnsureShell \/ SetCredential \/ RestartGrd
              \/ Publish \/ PortListens \/ StopGrd \/ StopShell \/ RemoveFiles

ThreadStep(c) == Started(c) \/ ReadEnv(c) \/ BridgeUp(c) \/ BridgeFails(c)
                   \/ Register(c) \/ BridgeLost(c)

ReaperStep == \/ \E aged \in SUBSET Conns : ReaperPrunes(aged)
              \/ ReaperLists \/ ListUnavailable \/ ReaperFindsUnit
              \/ PortBusy \/ PortIdle \/ ReaperStops

Next ==
  \/ UnitStep \/ StartGivesUp
  \/ ShellDies \/ RelayRestarts
  \/ \E c \in Conns : ThreadStep(c) \/ RequestStart(c) \/ StartTimesOut(c) \/ ClientLeaves(c)
  \/ ReaperStep

Spec == Init /\ [][Next]_vars

(* The scripts and threads run and their waits are bounded; the timer      *)
(* keeps coming, the relay answers again after an outage, an entry gets    *)
(* old, and somebody who redials a dead desktop is not always dialing at   *)
(* the very moment the reaper looks.                                       *)
Fairness ==
  /\ WF_vars(UnitStep \/ StartGivesUp)
  /\ \A c \in Conns : WF_vars(ThreadStep(c))
  /\ WF_vars(ReaperStep)
  /\ \A c \in Conns : SF_vars(\E aged \in SUBSET Conns : c \in aged /\ ReaperPrunes(aged))
  /\ SF_vars(ReaperLists) /\ SF_vars(PortIdle)

FairSpec == Spec /\ Fairness

----------------------------------------------------------------------------
TypeOK ==
  /\ unit \in {"inactive", "activating", "active", "deactivating", "failed"}
  /\ step \in {"none", "seat", "grd", "restart", "publish", "port",
                "stopgrd", "stopshell", "rmfiles"}
  /\ {fresh, silent, shell, err} \subseteq BOOLEAN
  /\ {cred, grd} \subseteq Creds \cup {None} /\ stored \in Creds
  /\ idFile \in Ids \cup {None}
  /\ env \in Endpoint \cup {None}
  /\ pc \in [Conns -> {"idle", "waiting", "started", "dialing", "lost"} \cup Attached]
  /\ seen \in [Conns -> Endpoint \cup {None}]
  /\ entry \in [Conns -> {"none", "active", "disconnected"}]
  /\ reaper \in {"wait", "list", "units", "port", "stop"}
  /\ late \subseteq Conns

(* While systemd says the desktop is up, what is published for the relay   *)
(* says which desktop it is, no old seat refusal lies around, and it is    *)
(* what the RDP server accepts unless a call of the last start failed      *)
(* unseen -- through failed starts, reused shells, stops that left the     *)
(* server running and credentials of other starts (edy-rdp-headless-start: *)
(* "publish port+cred+desktop-id for the relay").                          *)
ActiveIsPublished ==
  unit = "active" => /\ env # None /\ env.id = idFile /\ ~err
                     /\ silent \/ env.cred = grd

(* Whenever the RDP server accepts what is published, every connection     *)
(* that has a bridge up is on the desktop whose id it was given: neither   *)
(* an .env read before a stop and a new start, nor a server that survived  *)
(* them, gets a thread into the newer desktop (_grd_target: the id is the  *)
(* primary key of the desktop the connection attaches to).                 *)
AttachedToItsDesktop ==
  env # None /\ env.cred = grd =>
    \A c \in Conns : pc[c] \in Attached => seen[c].id = env.id /\ shell

(* When the reaper has decided to stop the desktop, nobody who was using   *)
(* it, or whose entry was being kept, when it asked the relay is affected: *)
(* only connections that appeared after its look can be cut off.           *)
ReaperSparesUsers ==
  reaper = "stop" =>
    \A c \in Conns : pc[c] \in Attached \/ entry[c] # "none" => c \in late

(* An ACTIVE entry nobody will mark disconnected (left by a restart; see   *)
(* GhostsReaped in RelaySessions): the reaper keeps its desktop.           *)
Ghost == \E c \in Conns : entry[c] = "active" /\ pc[c] \notin {"relaying", "lost"}

(* A desktop nobody can get into -- its shell has died, or the RDP server  *)
(* does not take what is published because a call failed unseen -- is torn *)
(* down although systemd still calls the unit active and users keep        *)
(* redialing it, so that the next connection gets a working one.           *)
Unusable == ~shell \/ grd # env.cred
DeadDesktopRecovers ==
  (unit = "active" /\ Unusable) ~>
    (unit # "active" \/ Ghost \/ \E c \in Conns : pc[c] \in Attached)

(* A desktop nobody uses and no entry keeps is stopped. *)
Quiet == \A c \in Conns : pc[c] = "idle" /\ entry[c] = "none"
IdleReclaimed == (unit = "active" /\ Quiet) ~> (unit # "active" \/ ~Quiet)
=============================================================================
