--------------------------- MODULE RelaySessions ---------------------------
(***************************************************************************)
(* The relay process (relay/edy_rdp_relay.py) as a set of connection       *)
(* threads and control threads that share five locked tables:              *)
(*                                                                         *)
(*   slots     DesktopSlots: who has a desktop, one connection per desktop *)
(*   count     BRIDGE_COUNTER: bridges charged to each uid                 *)
(*   registry  SessionRegistry: guacd uuid -> session entry, on disk       *)
(*   live      LiveConnections: guacd uuid -> the terminate() to call      *)
(*   bridge    the child processes start_bridge has launched; stray are    *)
(*             those that no connection remembers any more                 *)
(*                                                                         *)
(* Every lock-protected call is one action, so two threads interleave at   *)
(* exactly the points where the code holds no lock.  A thread's place in   *)
(* handle() and _peek_scenario_from_connect() is its pc.  Which connects   *)
(* the gates let through is a choice here (module ConnectGates); the       *)
(* headless desktop behind "isolated" is module HeadlessDesktop.           *)
(*                                                                         *)
(* A thread's identity returns to "idle" and is used again by a later      *)
(* connection.  The shipped client sends one `connect` per connection; a   *)
(* client built by hand may send more, and the relay works each of them    *)
(* off while guacd, which has answered the first, ignores the others.      *)
(***************************************************************************)
EXTENDS Integers, FiniteSets

CONSTANTS
  Conns,        \* connection threads
  Controllers,  \* control-socket threads
  Uids,         \* unix users (SO_PEERCRED)
  Admins,       \* those in the admin group
  Uuids,        \* guacd connection ids
  Offered,      \* the scenarios clients ask for
  MaxBridges,   \* MAX_BRIDGES_PER_UID
  MaxAgain,     \* bound: further connects on a connection explored
  MaxRestarts,  \* bound: relay crashes explored
  None,
  Lost          \* a Connection object whose thread has ended

Direct  == {"vnc", "wayland-vnc"}            \* guacd dials these; no bridge
Bridged == {"console", "virtual", "greeter", "isolated", "remote"}

ASSUME ConnsFinite == IsFiniteSet(Conns)
ASSUME AdminsAreUids == Admins \subseteq Uids
ASSUME ScenariosKnown == Offered \subseteq Direct \cup Bridged
ASSUME BoundsAreNat ==
  MaxBridges \in Nat \ {0} /\ MaxAgain \in Nat /\ MaxRestarts \in Nat
ASSUME NoneIsNobody == None \notin Conns \cup Uids \cup Uuids
ASSUME LostIsNobody == Lost \notin Conns \cup {None}

DesktopId_PerScenario(s, u, c, n) ==
  IF s = "greeter" THEN <<"greeter", c, n>> ELSE <<s, "seat">>

(* _grd_target's desktop_id, for the n-th connect of c.  The console is    *)
(* one desktop for everybody, a greeter a fresh one each time, the others  *)
(* one per user.  (A remote id also names the target: one target per user  *)
(* stands for all.  An isolated one is new when the desktop is created     *)
(* anew: HeadlessDesktop.)                                                 *)
DesktopId(s, u, c, n) ==
  CASE s = "console" -> <<"console", "seat">>
    [] s = "greeter" -> <<"greeter", c, n>>
    [] OTHER         -> <<s, u>>

Desktops == {DesktopId(s, u, c, n) : s \in Offered \cap Bridged, u \in Uids,
                                     c \in Conns, n \in 1..(MaxAgain + 1)}

Absent == [owner |-> None, state |-> "absent"]
Entry  == [owner : Uids, state : {"connecting", "active", "disconnected"}]

VARIABLES
  pc,        \* where each connection thread is in handle()
  uid,       \* its SO_PEERCRED uid
  uuid,      \* the guacd session it joins, or was given by `ready`
  told,      \* the connections `ready` came to: Connection.uuid is set
  sent,      \* how many connects each has sent
  again,     \* how many have been further ones
  desk,      \* its desktop_id: that of the last one
  desks,     \* (for the properties) every desktop it has claimed
  closed,    \* Connection.closed / its sockets are shut down
  victim,    \* the connection a claim displaced and has not yet terminated
  slots, count, counted, bridge, stray, registry, live,
  ctl,       \* control thread: the uuids it is still to act on, and how
  restarts

deskVars   == <<sent, again, desk, desks>>
connVars   == <<pc, uid, uuid, told, deskVars, closed, victim>>
bridgeVars == <<count, counted, bridge, stray>>
poolVars   == <<slots, bridgeVars>>
tableVars  == <<registry, live>>
vars == <<connVars, poolVars, tableVars, ctl, restarts>>

----------------------------------------------------------------------------
(* Where a thread can be.                                                  *)

Claimed  == {"swapped", "capcheck", "starting", "awaiting"}
InLoop   == {"selected", "dialed", "relaying"}
Readying == {"opened", "active"}   \* inside on_down(`ready`)
Teardown == {"mark", "unregister", "stop", "unslot", "uncount"}
PCs == {"idle"} \cup Claimed \cup InLoop \cup Readying \cup Teardown

NoJob == [op |-> "idle", todo |-> {}]
Job   == [op : {"idle", "kill", "close", "reap"}, todo : SUBSET Uuids]

Init ==
  /\ pc = [c \in Conns |-> "idle"]
  /\ uid = [c \in Conns |-> None]
  /\ uuid = [c \in Conns |-> None]
  /\ told = {}
  /\ sent = [c \in Conns |-> 0]
  /\ again = 0
  /\ desk = [c \in Conns |-> None]
  /\ desks = [c \in Conns |-> {}]
  /\ closed = [c \in Conns |-> FALSE]
  /\ victim = [c \in Conns |-> None]
  /\ slots = [d \in Desktops |-> None]
  /\ count = [u \in Uids |-> 0]
  /\ counted = {}
  /\ bridge = {}
  /\ stray = [u \in Uids |-> 0]
  /\ registry = [i \in Uuids |-> Absent]
  /\ live = [i \in Uuids |-> None]
  /\ ctl = [k \in Controllers |-> NoJob]
  /\ restarts = 0

Goto(c, from, to) == pc[c] = from /\ pc' = [pc EXCEPT ![c] = to]

(* Where the `finally` block of handle() starts for c. *)
Out(c) == IF c \in told THEN "mark" ELSE "stop"

----------------------------------------------------------------------------
(* A client connects, selects, and sends `connect`.                        *)

(* handle(): peer credentials read, guacd reached, and the first           *)
(* instruction is `select vnc` (_guard_upstream).                          *)
SelectNew(c, u) ==
  /\ Goto(c, "idle", "selected")
  /\ uid' = [uid EXCEPT ![c] = u]
  /\ UNCHANGED <<uuid, told, deskVars, closed, victim, poolVars, tableVars, ctl, restarts>>

MayJoin(i, u) == registry[i].owner = u

Join_AnyEntry(c, u, i) ==
  /\ registry[i] # Absent
  /\ Goto(c, "idle", "selected")
  /\ uid' = [uid EXCEPT ![c] = u]
  /\ uuid' = [uuid EXCEPT ![c] = i]
  /\ UNCHANGED <<told, deskVars, closed, victim, poolVars, tableVars, ctl, restarts>>

(* ... or `select $uuid`, let through only to the entry's owner. *)
Join(c, u, i) ==
  /\ MayJoin(i, u)
  /\ Goto(c, "idle", "selected")
  /\ uid' = [uid EXCEPT ![c] = u]
  /\ uuid' = [uuid EXCEPT ![c] = i]
  /\ UNCHANGED <<told, deskVars, closed, victim, poolVars, tableVars, ctl, restarts>>

(* _peek_scenario_from_connect runs for every `connect` that arrives.      *)
(* Refuse raised before a desktop id is known: a closed gate, a bad        *)
(* target, a desktop that did not start, a bad credential.                 *)
Refused(c) ==
  /\ pc[c] \in InLoop
  /\ pc' = [pc EXCEPT ![c] = Out(c)]
  /\ UNCHANGED <<uid, uuid, told, deskVars, closed, victim, poolVars, tableVars, ctl, restarts>>

Sends(c) ==
  /\ pc[c] \in InLoop
  /\ sent[c] > 0 => again < MaxAgain
  /\ sent' = [sent EXCEPT ![c] = @ + 1]
  /\ again' = IF sent[c] > 0 THEN again + 1 ELSE again

(* "vnc" and "wayland-vnc": the connect is rewritten and forwarded, with   *)
(* no slot, no cap and no bridge.                                          *)
ConnectDirect(c, s) ==
  /\ s \in Direct
  /\ Sends(c)
  /\ pc' = [pc EXCEPT ![c] = IF c \in told THEN "relaying" ELSE "dialed"]
  /\ UNCHANGED <<uid, uuid, told, desk, desks, closed, victim, poolVars, tableVars, ctl, restarts>>

(* DESKTOP_SLOTS.claim, the part under the lock: the new connection is put *)
(* in the slot before the old one has been told anything.  A further       *)
(* connect overwrites desktop_id; what was claimed before stays claimed.   *)
(* (A connection already shut down can get here on bytes read before.)     *)
Claim(c, s) ==
  LET d == DesktopId(s, uid[c], c, sent[c] + 1) IN
  /\ s \in Bridged
  /\ Sends(c)
  /\ pc' = [pc EXCEPT ![c] = "swapped"]
  /\ desk' = [desk EXCEPT ![c] = d]
  /\ desks' = [desks EXCEPT ![c] = @ \cup {d}]
  /\ slots' = [slots EXCEPT ![d] = c]
  /\ victim' = [victim EXCEPT ![c] = IF slots[d] \in {c, Lost} THEN None ELSE slots[d]]
  /\ UNCHANGED <<uid, uuid, told, closed, bridgeVars, tableVars, ctl, restarts>>

TerminateOld_Forgotten(c) ==
  /\ Goto(c, "swapped", "capcheck")
  /\ victim' = [victim EXCEPT ![c] = None]
  /\ UNCHANGED <<uid, uuid, told, deskVars, closed, poolVars, tableVars, ctl, restarts>>

(* ... and the part after it: old.terminate().  A connection that ended in *)
(* between is no longer anybody's victim, and shutting it down is a no-op. *)
TerminateOld(c) ==
  /\ Goto(c, "swapped", "capcheck")
  /\ victim' = [victim EXCEPT ![c] = None]
  /\ closed' = [x \in Conns |-> closed[x] \/ x = victim[c]]
  /\ UNCHANGED <<uid, uuid, told, deskVars, poolVars, tableVars, ctl, restarts>>

(* BRIDGE_COUNTER.acquire: the cap is checked after the takeover, for each *)
(* connect anew; _bridge_counted is only a flag.                           *)
Acquire_OffByOne(c) ==
  /\ pc[c] = "capcheck"
  /\ IF count[uid[c]] <= MaxBridges
     THEN /\ pc' = [pc EXCEPT ![c] = "starting"]
          /\ count' = [count EXCEPT ![uid[c]] = @ + 1]
          /\ counted' = counted \cup {c}
     ELSE /\ pc' = [pc EXCEPT ![c] = Out(c)]
          /\ UNCHANGED <<count, counted>>
  /\ UNCHANGED <<uid, uuid, told, deskVars, closed, victim, slots, bridge, stray, tableVars, ctl, restarts>>

Acquire(c) ==
  /\ pc[c] = "capcheck"
  /\ IF count[uid[c]] < MaxBridges
     THEN /\ pc' = [pc EXCEPT ![c] = "starting"]
          /\ count' = [count EXCEPT ![uid[c]] = @ + 1]
          /\ counted' = counted \cup {c}
     ELSE /\ pc' = [pc EXCEPT ![c] = Out(c)]
          /\ UNCHANGED <<count, counted>>
  /\ UNCHANGED <<uid, uuid, told, deskVars, closed, victim, slots, bridge, stray, tableVars, ctl, restarts>>

(* start_bridge: Popen.  The new child runs while its thread awaits it. *)
LaunchBridge(c) ==
  /\ Goto(c, "starting", "awaiting")
  /\ UNCHANGED <<uid, uuid, told, deskVars, closed, victim, poolVars, tableVars, ctl, restarts>>

(* start_bridge sees the child exit, or stops it after its timeout; either *)
(* way the new child is gone and bridge_proc is what it was.               *)
BridgeFailed(c) ==
  /\ Goto(c, "awaiting", Out(c))
  /\ UNCHANGED <<uid, uuid, told, deskVars, closed, victim, poolVars, tableVars, ctl, restarts>>

(* start_bridge returns the endpoint, bridge_proc is set (forgetting the   *)
(* child of an earlier connect, which runs on), and the rewritten connect  *)
(* is sent to guacd.  Nothing looked at `closed` meanwhile: the send to a  *)
(* socket that terminate() shut down is what fails.  A first connect is    *)
(* refused only here if guacd's args were not seen yet.                    *)
BridgeReady(c) ==
  /\ pc[c] = "awaiting"
  /\ \/ ~closed[c] /\ pc' = [pc EXCEPT ![c] = IF c \in told THEN "relaying" ELSE "dialed"]
     \/ (closed[c] \/ sent[c] = 1) /\ pc' = [pc EXCEPT ![c] = Out(c)]
  /\ bridge' = bridge \cup {c}
  /\ stray' = IF c \in bridge THEN [stray EXCEPT ![uid[c]] = @ + 1] ELSE stray
  /\ UNCHANGED <<uid, uuid, told, deskVars, closed, victim, slots, count, counted, tableVars, ctl, restarts>>

----------------------------------------------------------------------------
(* guacd answers `ready <uuid>` (on_down): open, mark_active and           *)
(* live.register are three lock sections.                                  *)

(* guacd is external: a new session gets an id nobody has, a join gets the *)
(* id of a session that some other connection still holds open.            *)
GuacdHolds(i) ==
  {x \in told : uuid[x] = i /\ pc[x] \notin {"stop", "unslot", "uncount"}}
FreshUuid(i) ==
  /\ registry[i] = Absent /\ live[i] = None
  /\ \A c \in Conns : uuid[c] # i
  /\ \A k \in Controllers : i \notin ctl[k].todo

(* _watch_downstream: table.open.  A connection already shut down can get  *)
(* here too, on bytes read before it was.                                  *)
Ready(c, i) ==
  /\ Goto(c, "dialed", "opened")
  /\ told' = told \cup {c}
  /\ \/ uuid[c] = None /\ FreshUuid(i)
     \/ uuid[c] = i /\ GuacdHolds(i) # {}
  /\ uuid' = [uuid EXCEPT ![c] = i]
  /\ registry' = [registry EXCEPT ![i] =
                    [owner |-> uid[c], state |-> "connecting"]]
  /\ UNCHANGED <<uid, deskVars, closed, victim, poolVars, live, ctl, restarts>>

(* mark_active / mark_disconnected: nothing happens to a missing entry. *)
Mark(i, s) ==
  registry' = IF registry[i] = Absent THEN registry
              ELSE [registry EXCEPT ![i].state = s]

MarkActive(c) ==
  /\ Goto(c, "opened", "active")
  /\ Mark(uuid[c], "active")
  /\ UNCHANGED <<uid, uuid, told, deskVars, closed, victim, poolVars, live, ctl, restarts>>

(* `ready` then goes to the client; on a shut socket that fails, which is  *)
(* the same end as noticing it in the loop.                                *)
RegisterLive(c) ==
  /\ Goto(c, "active", "relaying")
  /\ live' = [live EXCEPT ![uuid[c]] = c]
  /\ UNCHANGED <<uid, uuid, told, deskVars, closed, victim, poolVars, registry, ctl, restarts>>

----------------------------------------------------------------------------
(* The end of a connection: the select loop is left, and the `finally`     *)
(* block of handle() releases what the thread holds, one lock at a time.   *)

LeaveLoop(c) ==
  /\ pc[c] \in InLoop
  /\ pc' = [pc EXCEPT ![c] = Out(c)]
  /\ closed' = [closed EXCEPT ![c] = TRUE]
  /\ UNCHANGED <<uid, uuid, told, deskVars, victim, poolVars, tableVars, ctl, restarts>>

(* recv() returns no data because the browser or guacd went away ... *)
Hangup(c) == ~closed[c] /\ LeaveLoop(c)

NoticeTerminated_OnceReady(c) == closed[c] /\ c \in told /\ LeaveLoop(c)

(* ... or because terminate() shut the sockets down. *)
NoticeTerminated(c) == closed[c] /\ LeaveLoop(c)

MarkDisconnected_Skipped(c) ==
  /\ Goto(c, "mark", "unregister")
  /\ UNCHANGED <<uid, uuid, told, deskVars, closed, victim, poolVars, tableVars, ctl, restarts>>

MarkDisconnected(c) ==
  /\ Goto(c, "mark", "unregister")
  /\ Mark(uuid[c], "disconnected")
  /\ UNCHANGED <<uid, uuid, told, deskVars, closed, victim, poolVars, live, ctl, restarts>>

(* live.unregister pops whatever terminate() the uuid has. *)
Unregister(c) ==
  /\ Goto(c, "unregister", "stop")
  /\ live' = [live EXCEPT ![uuid[c]] = None]
  /\ UNCHANGED <<uid, uuid, told, deskVars, closed, victim, poolVars, registry, ctl, restarts>>

(* guacd told and sockets closed; stop_bridge waits the child out. *)
StopBridge(c) ==
  /\ Goto(c, "stop", "unslot")
  /\ bridge' = bridge \ {c}
  /\ UNCHANGED <<uid, uuid, told, deskVars, closed, victim, slots, count, counted, stray, tableVars, ctl, restarts>>

ReleaseSlot_Never(c) ==
  /\ Goto(c, "unslot", "uncount")
  /\ UNCHANGED <<uid, uuid, told, deskVars, closed, victim, poolVars, tableVars, ctl, restarts>>

(* DESKTOP_SLOTS.release of the last desktop_id: only the holder empties a *)
(* slot.                                                                   *)
ReleaseSlot(c) ==
  /\ Goto(c, "unslot", "uncount")
  /\ slots' = [d \in Desktops |-> IF d = desk[c] /\ slots[d] = c THEN None ELSE slots[d]]
  /\ UNCHANGED <<uid, uuid, told, deskVars, closed, victim, bridgeVars, tableVars, ctl, restarts>>

(* The thread ends; slots it did not release keep its dead Connection.     *)
Finish(c) ==
  /\ pc' = [pc EXCEPT ![c] = "idle"]
  /\ uid' = [uid EXCEPT ![c] = None]
  /\ uuid' = [uuid EXCEPT ![c] = None]
  /\ told' = told \ {c}
  /\ sent' = [sent EXCEPT ![c] = 0]
  /\ desk' = [desk EXCEPT ![c] = None]
  /\ desks' = [desks EXCEPT ![c] = {}]
  /\ closed' = [closed EXCEPT ![c] = FALSE]
  /\ victim' = [x \in Conns |-> IF victim[x] = c THEN None ELSE victim[x]]
  /\ slots' = [d \in Desktops |-> IF slots[d] = c THEN Lost ELSE slots[d]]

ReleaseCount_Always(c) ==
  /\ pc[c] = "uncount"
  /\ count' = [count EXCEPT ![uid[c]] = @ - 1]
  /\ counted' = counted \ {c}
  /\ Finish(c)
  /\ UNCHANGED <<again, bridge, stray, tableVars, ctl, restarts>>

(* BRIDGE_COUNTER.release, once, if this connection was counted. *)
ReleaseCount(c) ==
  /\ pc[c] = "uncount"
  /\ count' = IF c \in counted
              THEN [count EXCEPT ![uid[c]] = IF @ <= 1 THEN 0 ELSE @ - 1] ELSE count
  /\ counted' = counted \ {c}
  /\ Finish(c)
  /\ UNCHANGED <<again, bridge, stray, tableVars, ctl, restarts>>

----------------------------------------------------------------------------
(* Control requests (control.py), each on a thread of its own.             *)

(* op "terminate": the owner is looked up and compared with the peer ... *)
TerminateOp(k, p, i) ==
  /\ ctl[k] = NoJob
  /\ registry[i] # Absent \/ live[i] # None        \* else already_gone
  /\ p \in Admins \/ registry[i].owner \in {None, p}
  /\ ctl' = [ctl EXCEPT ![k] = [op |-> "kill", todo |-> {i}]]
  /\ UNCHANGED <<connVars, poolVars, tableVars, restarts>>

(* LiveConnections.terminate: does nothing for an unregistered uuid. *)
LiveTerminate(i) == closed' = [c \in Conns |-> closed[c] \/ live[i] = c]

(* ... then live.terminate ... *)
KillOp(k, i) ==
  /\ ctl[k].op = "kill" /\ i \in ctl[k].todo
  /\ LiveTerminate(i)
  /\ ctl' = [ctl EXCEPT ![k].op = "close"]
  /\ UNCHANGED <<pc, uid, uuid, told, deskVars, victim, poolVars, tableVars, restarts>>

(* ... then registry.close. *)
CloseOp(k, i) ==
  /\ ctl[k].op = "close" /\ i \in ctl[k].todo
  /\ registry' = [registry EXCEPT ![i] = Absent]
  /\ ctl' = [ctl EXCEPT ![k] = NoJob]
  /\ UNCHANGED <<connVars, poolVars, live, restarts>>

Reapable_DisconnectedOnly == {i \in Uuids : registry[i].state = "disconnected"}

(* The entries SessionRegistry.prune has a TTL for (15 s to 15 min by      *)
(* state and scenario); an ACTIVE entry has none.  The two calls of one    *)
(* `ready` are far closer together than the TTL of a connecting entry.     *)
Reapable ==
  {i \in Uuids : /\ registry[i].state \in {"connecting", "disconnected"}
                 /\ ~ \E c \in Conns : pc[c] = "opened" /\ uuid[c] = i}

(* op "prune", which the reaper (root) sends every 30 s: the entries past  *)
(* their TTL go in one lock section, then each lingering live connection   *)
(* is terminated.                                                          *)
PruneOp(k, aged) ==
  /\ ctl[k] = NoJob
  /\ aged # {} /\ aged \subseteq Reapable
  /\ registry' = [i \in Uuids |-> IF i \in aged THEN Absent ELSE registry[i]]
  /\ ctl' = [ctl EXCEPT ![k] = [op |-> "reap", todo |-> aged]]
  /\ UNCHANGED <<connVars, poolVars, live, restarts>>

ReapOp(k, i) ==
  /\ ctl[k].op = "reap" /\ i \in ctl[k].todo
  /\ LiveTerminate(i)
  /\ ctl' = [ctl EXCEPT ![k] = IF ctl[k].todo = {i} THEN NoJob
                               ELSE [ctl[k] EXCEPT !.todo = @ \ {i}]]
  /\ UNCHANGED <<pc, uid, uuid, told, deskVars, victim, poolVars, tableVars, restarts>>

(* The relay dies and systemd starts it again: threads, in-memory tables   *)
(* and (same cgroup) bridges are gone, the registry is read back from the  *)
(* state file, which every registry call had rewritten.                    *)
Restart ==
  /\ restarts < MaxRestarts
  /\ restarts' = restarts + 1
  /\ pc' = [c \in Conns |-> "idle"]
  /\ uid' = [c \in Conns |-> None]
  /\ uuid' = [c \in Conns |-> None]
  /\ told' = {}
  /\ sent' = [c \in Conns |-> 0]
  /\ desk' = [c \in Conns |-> None]
  /\ desks' = [c \in Conns |-> {}]
  /\ closed' = [c \in Conns |-> FALSE]
  /\ victim' = [c \in Conns |-> None]
  /\ slots' = [d \in Desktops |-> None]
  /\ count' = [u \in Uids |-> 0]
  /\ counted' = {} /\ bridge' = {}
  /\ stray' = [u \in Uids |-> 0]
  /\ live' = [i \in Uuids |-> None]
  /\ ctl' = [k \in Controllers |-> NoJob]
  /\ UNCHANGED <<again, registry>>

----------------------------------------------------------------------------
(* What a thread does by itself once it has been given something to do ... *)
ThreadStep(c) ==
  \/ TerminateOld(c) \/ Acquire(c) \/ LaunchBridge(c)
  \/ BridgeFailed(c) \/ BridgeReady(c)
  \/ MarkActive(c) \/ RegisterLive(c)
  \/ NoticeTerminated(c)
  \/ MarkDisconnected(c) \/ Unregister(c) \/ StopBridge(c)
  \/ ReleaseSlot(c) \/ ReleaseCount(c)

(* ... and what clients and guacd decide. *)
ClientStep(c) ==
  \/ \E u \in Uids : SelectNew(c, u) \/ \E i \in Uuids : Join(c, u, i)
  \/ \E i \in Uuids : Ready(c, i)
  \/ Refused(c)
  \/ \E s \in Offered : ConnectDirect(c, s) \/ Claim(c, s)
  \/ Hangup(c)

ControlStep(k) == \E i \in Uuids : KillOp(k, i) \/ CloseOp(k, i) \/ ReapOp(k, i)

Next ==
  \/ \E c \in Conns : ThreadStep(c) \/ ClientStep(c)
  \/ \E k \in Controllers : \/ ControlStep(k)
                            \/ \E aged \in SUBSET Uuids : PruneOp(k, aged)
                            \/ \E p \in Uids, i \in Uuids : TerminateOp(k, p, i)
  \/ Restart

Spec == Init /\ [][Next]_vars

(* The operating system schedules every thread, start_bridge and           *)
(* stop_bridge are bounded by timeouts, time passes, and a timer runs the  *)
(* reaper.  Clients owe the relay nothing.                                 *)
Fairness ==
  /\ \A c \in Conns : WF_vars(ThreadStep(c))
  /\ \A k \in Controllers : WF_vars(ControlStep(k))
  /\ \A i \in Uuids : \E k \in Controllers :
       SF_vars(\E aged \in SUBSET Uuids : i \in aged /\ PruneOp(k, aged))

FairSpec == Spec /\ Fairness

----------------------------------------------------------------------------
(* Properties.                                                             *)

TypeOK ==
  /\ pc \in [Conns -> PCs]
  /\ uid \in [Conns -> Uids \cup {None}]
  /\ uuid \in [Conns -> Uuids \cup {None}]
  /\ told \subseteq Conns
  /\ sent \in [Conns -> 0..(MaxAgain + 1)]
  /\ again \in 0..MaxAgain
  /\ desk \in [Conns -> Desktops \cup {None}]
  /\ desks \in [Conns -> SUBSET Desktops]
  /\ closed \in [Conns -> BOOLEAN]
  /\ victim \in [Conns -> Conns \cup {None}]
  /\ slots \in [Desktops -> Conns \cup {None, Lost}]
  /\ count \in [Uids -> Nat]
  /\ counted \subseteq Conns
  /\ bridge \subseteq Conns
  /\ stray \in [Uids -> Nat]
  /\ registry \in [Uuids -> Entry \cup {Absent}]
  /\ live \in [Uuids -> Conns \cup {None}]
  /\ ctl \in [Controllers -> Job]
  /\ restarts \in 0..MaxRestarts

(* A connection that will not last: shut down, on its way out, or about to *)
(* be terminated by the claim that displaced it.                           *)
Doomed(c) ==
  \/ closed[c] \/ pc[c] \in Teardown \cup {"idle"}
  \/ \E x \in Conns : victim[x] = c

(* A connection that has claimed a desktop and is not doomed is the one in *)
(* that desktop's slot: of all the connections to one desktop, however     *)
(* their claims, takeovers and teardowns interleave, at most one will last *)
(* (DesktopSlots: "only one slot has access").                             *)
OneSlotPerDesktop ==
  \A c \in Conns : ~Doomed(c) => \A d \in desks[c] : slots[d] = c

(* A slot that names a connection names one that claimed that desktop and  *)
(* has not yet released it, so nobody is ever displaced by mistake.  Only  *)
(* a desktop given up for another by a further connect is released by      *)
(* nobody; a later claim finds a dead Connection there.  A live            *)
(* registration names a connection attached to that very session.          *)
NoStaleHolder ==
  /\ \A d \in Desktops : slots[d] \in Conns =>
       LET c == slots[d] IN
       d \in desks[c] /\ pc[c] # "idle" /\ (pc[c] = "uncount" => desk[c] # d)
  /\ \A i \in Uuids : live[i] # None =>
       LET c == live[i] IN
       uuid[c] = i /\ c \in told /\ pc[c] \in {"relaying", "mark", "unregister"} \cup Claimed

(* The bridge processes of a user that are running: those their connection *)
(* will stop, those being started, and those forgotten.                    *)
KeptBy(u)     == {c \in bridge : uid[c] = u}
StartingBy(u) == {c \in Conns : pc[c] = "awaiting" /\ uid[c] = u}
Running(u)    == Cardinality(KeptBy(u)) + Cardinality(StartingBy(u)) + stray[u]

(* However many connects a client sends on one connection, and through     *)
(* refusals, failed bridges, takeovers and every teardown path: a user's   *)
(* running bridges, forgotten ones included, never outnumber the count,    *)
(* and the count never exceeds the cap ("so one authenticated user cannot  *)
(* exhaust the pool").                                                     *)
BridgeCap ==
  \A u \in Uids : Running(u) <= count[u] /\ count[u] <= MaxBridges

(* Until the relay is restarted, an ACTIVE entry has a connection that     *)
(* will still mark it disconnected: no end of a connection, and no race    *)
(* with control requests or joins, leaves one that nothing prunes.         *)
ActiveIsAttached ==
  \A i \in Uuids : registry[i].state = "active" /\ restarts = 0 =>
    \E c \in told : uuid[c] = i /\ pc[c] \in {"active", "relaying", "mark"} \cup Claimed

(* Whatever is closed, reaped, joined or reopened, connections attached to *)
(* one guacd session, and its registry entry, belong to one user.          *)
SessionOfOneUser ==
  \A c \in Conns : uuid[c] # None =>
    /\ registry[uuid[c]].owner \in {None, uid[c]}
    /\ \A x \in Conns : uuid[x] = uuid[c] => uid[x] = uid[c]

(* Nobody's connection is ended by others, except on purpose: by a control *)
(* request that names its session, or by a claim of the very desktop it    *)
(* claimed, which on all but the console is the user's own -- although     *)
(* whoever ends it looked it up in a table some steps ago, when slots and  *)
(* sessions may have been somebody else's (claim, LiveConnections).        *)
EndedOnPurpose ==
  [][\A c \in Conns : ~closed[c] /\ closed'[c] =>
       \/ pc'[c] # pc[c]                    \* it ends by itself
       \/ \E k \in Controllers : uuid[c] \in ctl[k].todo /\ ctl'[k] # ctl[k]
       \/ \E x \in Conns : /\ victim[x] = c /\ victim'[x] = None
                           /\ desk[x] \in desks[c]
                           /\ desk[x][1] # "console" => uid[x] = uid[c] ]_vars

(* What the relay promises about desktops (DesktopAccess), on its own      *)
(* state: access to what it has claimed is had by a connection that will   *)
(* last.                                                                   *)
Going(c) == pc[c] # "idle" /\ Doomed(c)

Access == INSTANCE DesktopAccess WITH
  access  <- [c \in Conns |-> IF Doomed(c) THEN {} ELSE desks[c]],
  leaving <- {c \in Conns : Going(c)}

(* The relay's threads, tables and control requests implement that promise *)
(* step by step: a desktop changes hands in one step, a connection that    *)
(* has lost it never gets it back, whoever ends whom in which order.       *)
ImplementsAccess == Access!Spec

(* ... and a connection that has lost its desktop is gone in the end.      *)
ImplementsFairAccess == Access!FairSpec

(* A terminated connection always ends, even one that was waiting for its  *)
(* bridge, and gives back what it held.                                    *)
TerminatedEnds == \A c \in Conns : closed[c] ~> pc[c] = "idle"

(* Entries without a client are forgotten: one that is not ACTIVE is       *)
(* removed unless it becomes active.                                       *)
StaleEntriesPruned ==
  \A i \in Uuids : registry[i].state \in {"connecting", "disconnected"}
                     ~> registry[i].state \in {"absent", "active"}

(* Claimed at DesktopSlots / the claim call: by the time a connection      *)
(* bridges, the desktop's backing session is free, so no two bridges run   *)
(* against one desktop (those of the only connect of their connection).    *)
BackingSessionFree ==
  \A c, x \in bridge \cup {y \in Conns : pc[y] = "awaiting"} :
    sent[c] = 1 /\ sent[x] = 1 /\ desk[c] = desk[x] => c = x

(* Claimed by the reaper ("removes stale/closed entries"): an entry without*)
(* a connection goes away, or gets one.                                    *)
GhostsReaped ==
  \A i \in Uuids :
    (registry[i] # Absent /\ \A c \in Conns : uuid[c] # i) ~>
      (registry[i] = Absent \/ \E c \in Conns : uuid[c] = i)
=============================================================================
