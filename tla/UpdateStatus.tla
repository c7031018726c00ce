---------------------------- MODULE UpdateStatus ----------------------------
(***************************************************************************)
(* The Update tab: the status cache /run/edy-rdp/update-status.json, the   *)
(* checks that write it and the updates and rollbacks it leads to.  Three  *)
(* parties run _do_live_check(), which reads the cache, asks GitHub for up *)
(* to ten seconds and then replaces the whole file: the relay's background *)
(* refresh, its forced check, and the root script that records how an      *)
(* update ended.  Nothing orders them.                                     *)
(*                                                                         *)
(* The scripts are modelled in full in SelfUpdate; here one is the steps   *)
(* that this cache, its readers and the relay's threads can notice.  Which *)
(* payloads pruning keeps, and in what state, is SelfUpdate's: a way back  *)
(* may lead to any version deployed so far, or to one without its VERSION. *)
(***************************************************************************)
EXTENDS Integers

CONSTANTS
  MaxVersion,  \* bound: releases 1..MaxVersion
  Writers,     \* who can create a file in the cache's directory
  None

ASSUME VersionsAssumption == MaxVersion \in Nat \ {0} /\ Writers \subseteq {"root", "relay"}

Versions == 1..MaxVersion
Unversioned == 0  \* what install.sh calls a payload without its VERSION
InRelay  == {"refresh", "forced"}
Checks   == InRelay \cup {"script"}
Results  == {"ok", "rolled_back", "rollback_failed"}

(* What a check keeps of the cache it read, and what it writes. *)
ReadSet  == [latest : Versions \cup {None}, applied : Results \cup {None}]
EntrySet == [latest : Versions \cup {None}, available : BOOLEAN,
             applied : Results \cup {None}, fresh : BOOLEAN]

ASSUME NoneIsNothing ==
  None \notin Versions \cup {Unversioned} /\ None \notin Results /\ None \notin ReadSet /\ None \notin EntrySet

VARIABLES
  conf,        \* VERSION in install.conf
  deployed,    \* the versions some deploy.sh has put on disk so far
  release,     \* the newest release on GitHub, None: none published yet
  online,      \* GitHub can be reached
  good,        \* the newest release deploys, and its relay comes up in time
  up,          \* the relay runs
  cache,       \* the cached status, None: no file
  check,       \* per check: what it read from the cache; None: not running
  refreshing,  \* SelfUpdate._refreshing
  unit,        \* the root script: which one, and where it is
  early        \* history: the relay's checks that read the cache before it
               \*   came to show the outcome it shows

relay == <<up, check, refreshing, early>>
world == <<release, online, good>>
host  == <<conf, deployed>>
vars  == <<host, world, relay, cache, unit>>

Idle == [kind |-> None, at |-> "idle"]

Init ==
  /\ conf = 1 /\ deployed = {1}
  /\ release = None /\ online = TRUE /\ good = TRUE /\ up = TRUE
  /\ cache = None /\ check = [k \in Checks |-> None]
  /\ refreshing = FALSE /\ early = {} /\ unit = Idle

-----------------------------------------------------------------------------
(* _do_live_check().  The entry written keeps of the one that was read the *)
(* latest version, if GitHub does not answer with a release, and the last  *)
(* outcome, unless a script is just recording one.                         *)
Read(field) == IF cache = None THEN None ELSE cache[field]

Asking(k, applied) == [check EXCEPT ![k] = [latest |-> Read("latest"), applied |-> applied]]

Found == online /\ release # None

Entry(k) == [latest    |-> IF Found THEN release ELSE check[k].latest,
             available |-> Found /\ release > conf,
             applied   |-> check[k].applied,
             fresh     |-> TRUE]

(* write_cache() makes a temporary file beside the cache and renames it. *)
Writer(k) == IF k = "script" THEN "root" ELSE "relay"
Write(k)  == cache' = IF Writer(k) \in Writers THEN Entry(k) ELSE cache

(* cache_is_stale() *)
Stale == cache # None => ~cache.fresh

-----------------------------------------------------------------------------
StartRefresh_ForgetsOutcome ==
  /\ up /\ Stale /\ ~refreshing
  /\ refreshing' = TRUE
  /\ check' = Asking("refresh", None)
  /\ UNCHANGED <<host, world, up, cache, early, unit>>

(* status(): serves the cache as it is; a missing or old one is refreshed  *)
(* by a thread, one at a time.                                             *)
StartRefresh ==
  /\ up /\ Stale /\ ~refreshing
  /\ refreshing' = TRUE
  /\ check' = Asking("refresh", Read("applied"))
  /\ UNCHANGED <<host, world, up, cache, early, unit>>

(* check_now().  The 60 seconds between two let through are longer than a  *)
(* request to GitHub, so that at most one is under way.                    *)
StartForced ==
  /\ up /\ check["forced"] = None
  /\ check' = Asking("forced", Read("applied"))
  /\ UNCHANGED <<host, world, up, cache, refreshing, early, unit>>

UnderWay(k) == {c \in InRelay \ {k} : check[c] # None}  \* besides k

(* A check of the relay ends; an early one may put back an older outcome.  *)
Finish(k) ==
  /\ check[k] # None
  /\ Write(k) /\ check' = [check EXCEPT ![k] = None]
  /\ early' = IF k \in early /\ "relay" \in Writers THEN UnderWay(k) ELSE early \ {k}
  /\ UNCHANGED <<host, world, up, unit>>

FinishRefresh_StaysSet ==
  /\ Finish("refresh") /\ refreshing' = (refreshing /\ ~Found)

(* The flag is cleared in a finally block, whether written or not. *)
FinishRefresh == Finish("refresh") /\ refreshing' = FALSE

FinishForced  == Finish("forced") /\ UNCHANGED refreshing

CacheAges ==
  /\ cache # None /\ cache.fresh
  /\ cache' = [cache EXCEPT !.fresh = FALSE]
  /\ UNCHANGED <<host, world, relay, unit>>

-----------------------------------------------------------------------------
Running(kind, at) == unit.at = at /\ unit.kind = kind
Goto(at)          == unit' = [unit EXCEPT !.at = at]
Starts(kind)      == unit = Idle /\ unit' = [kind |-> kind, at |-> "begun"]

(* apply(): refused unless the cache says that there is an update.  The    *)
(* script asks GitHub itself.                                              *)
RequestApply ==
  /\ up /\ cache # None /\ cache.available
  /\ Starts("apply")
  /\ UNCHANGED <<host, world, relay, cache>>

(* rollback(): refused unless there is one other payload, which is open.   *)
RequestRollback ==
  /\ up
  /\ Starts("rollback")
  /\ UNCHANGED <<host, world, relay, cache>>

(* The units can be started without the relay, too. *)
StartedByHand ==
  /\ \E kind \in {"apply", "rollback"} : Starts(kind)
  /\ UNCHANGED <<host, world, relay, cache>>

NothingToApply ==
  /\ Running("apply", "begun")
  /\ Found => release <= conf
  /\ unit' = Idle
  /\ UNCHANGED <<host, world, relay, cache>>

(* A deploy.sh that runs to its end. *)
Installs ==
  /\ Running("apply", "begun")
  /\ Found /\ release > conf
  /\ conf' = release /\ deployed' = deployed \cup {release}
  /\ Goto("installed")
  /\ UNCHANGED <<world, relay, cache>>

(* rollback_candidate(): none, or too many. *)
NothingToUndo ==
  /\ Running("rollback", "begun")
  /\ unit' = Idle
  /\ UNCHANGED <<host, world, relay, cache>>

Undoing == Running("rollback", "begun") \/ Running("apply", "failed")
BackTo  == conf' \in deployed \cup {Unversioned} /\ UNCHANGED deployed

Undo_Unchecked ==
  /\ Undoing
  /\ conf' \in deployed \cup {Unversioned, None} /\ UNCHANGED deployed
  /\ Goto("undone")
  /\ UNCHANGED <<world, relay, cache>>

(* swap_payload_and_install() of the candidate. *)
Undo ==
  /\ Undoing /\ BackTo
  /\ Goto("undone")
  /\ UNCHANGED <<world, relay, cache>>

(* It fails, half-way perhaps; apply restarts the relay all the same. *)
UndoFails ==
  /\ ~good /\ Running("apply", "failed")
  /\ (BackTo \/ UNCHANGED host)
  /\ Goto("broken")
  /\ UNCHANGED <<world, relay, cache>>

(* The script fails or is killed: nothing is recorded.  A deployment may   *)
(* have got as far as to install the release, or have been restored to     *)
(* what was linked; a swap may have been completed.                        *)
Stops ==
  /\ ~good /\ unit # Idle
  /\ \/ UNCHANGED host
     \/ /\ Running("apply", "begun") /\ Found /\ release > conf
        /\ deployed' = deployed \cup {release}
        /\ conf' \in deployed' \cup {Unversioned}
     \/ Undoing /\ BackTo
  /\ unit' = Idle
  /\ check' = [check EXCEPT !["script"] = None]
  /\ UNCHANGED <<world, up, refreshing, early, cache>>

(* The old relay ends with its threads; a new one starts, or does not.  Or *)
(* systemd refuses and the old one stays.                                  *)
NewRelay(runs) ==
  /\ up' = runs
  /\ check' = [k \in Checks |-> IF k \in InRelay THEN None ELSE check[k]]
  /\ refreshing' = FALSE /\ early' = {}

AfterRestart == [installed |-> "restarted", undone |-> "over", broken |-> "lost"]

RestartRelay ==
  /\ unit.at \in DOMAIN AfterRestart
  /\ \/ NewRelay(TRUE)
     \/ ~good /\ NewRelay(FALSE)
     \/ ~good /\ UNCHANGED relay
  /\ Goto(AfterRestart[unit.at])
  /\ UNCHANGED <<host, world, cache>>

(* record_apply_result() begins: the script's own check. *)
Record(result) == Goto("recording") /\ check' = Asking("script", result)

Healthy ==
  /\ up
  /\ \/ Running("apply", "restarted") /\ Record("ok")
     \/ Running("rollback", "over") /\ Record("ok")
     \/ Running("apply", "over") /\ Record("rolled_back")
  /\ UNCHANGED <<host, world, up, refreshing, early, cache>>

Unhealthy ==
  /\ ~good
  /\ \/ Running("apply", "restarted") /\ Goto("failed") /\ UNCHANGED check
     \/ unit.at \in {"failed", "over", "lost"} /\ Record("rollback_failed")
  /\ UNCHANGED <<host, world, up, refreshing, early, cache>>

(* The outcome is written, and the script ends. *)
Recorded ==
  /\ check["script"] # None
  /\ Write("script") /\ check' = [check EXCEPT !["script"] = None]
  /\ unit' = Idle
  /\ early' = UnderWay("script")
  /\ UNCHANGED <<host, world, up, refreshing>>

-----------------------------------------------------------------------------
RelayStarts ==
  /\ ~up /\ NewRelay(TRUE)
  /\ UNCHANGED <<host, world, cache, unit>>

RelayDies ==
  /\ up /\ ~good /\ NewRelay(FALSE)
  /\ UNCHANGED <<host, world, cache, unit>>

(* A newer release may be good where the one before was not. *)
Publish ==
  /\ \E v \in Versions : (release # None => v > release) /\ release' = v
  /\ good' \in BOOLEAN
  /\ UNCHANGED <<host, online, relay, cache, unit>>

GitHubComesOrGoes ==
  /\ online' = ~online
  /\ UNCHANGED <<host, release, good, relay, cache, unit>>

LuckTurns ==
  /\ good' = ~good
  /\ UNCHANGED <<host, release, online, relay, cache, unit>>

Script == \/ NothingToApply \/ Installs \/ NothingToUndo \/ Undo \/ UndoFails \/ RestartRelay
          \/ Healthy \/ Unhealthy \/ Recorded

Next == \/ StartRefresh \/ StartForced \/ FinishRefresh \/ FinishForced \/ CacheAges
        \/ RequestApply \/ RequestRollback \/ StartedByHand
        \/ Script \/ Stops \/ RelayStarts \/ RelayDies
        \/ Publish \/ GitHubComesOrGoes \/ LuckTurns

Spec == Init /\ [][Next]_vars

(* Processes run: a request to GitHub ends within its timeout, systemd     *)
(* brings the relay back, a script goes on to its end.  Somebody opens the *)
(* Update tab again (a poll).  A forced check, an update, a rollback and a *)
(* start by hand are nobody's duty.                                        *)
Fairness ==
  /\ WF_vars(StartRefresh) /\ WF_vars(FinishRefresh) /\ WF_vars(FinishForced)
  /\ WF_vars(RelayStarts) /\ WF_vars(Script)

FairSpec == Spec /\ Fairness

-----------------------------------------------------------------------------
Units == [kind : {"apply", "rollback", None},
          at : {"idle", "begun", "installed", "restarted", "failed", "undone", "over",
                "broken", "lost", "recording"}]

TypeOK ==
  /\ conf \in Versions \cup {Unversioned} /\ deployed \subseteq Versions
  /\ release \in Versions \cup {None} /\ {online, good, up} \subseteq BOOLEAN
  /\ cache \in EntrySet \cup {None}
  /\ check \in [Checks -> ReadSet \cup {None}]
  /\ refreshing \in BOOLEAN
  /\ unit \in Units
  /\ early \subseteq InRelay

(* The outcome a script recorded (last_apply, the only report of a run     *)
(* that restarted the relay) stays what the Update tab shows until the     *)
(* next one is recorded: no check drops it, except one that had read the   *)
(* cache before it was recorded.                                           *)
OutcomeShown ==
  [][ cache # None => \/ cache'.applied = cache.applied
                      \/ check["script"] # None /\ check'["script"] = None
                      \/ \E k \in early : check[k] # None /\ check'[k] = None ]_vars

(* The flag that keeps a second refresh from starting is up exactly while  *)
(* one runs: a refresh that failed, found nothing or went down with its    *)
(* relay never leaves it set, which would end all refreshing.              *)
RefreshNotStuck == refreshing <=> check["refresh"] # None

(* docs/SELFUPDATE.md of update-status: "if the cache is missing or older  *)
(* than SelfUpdate.CACHE_TTL it kicks a background thread to refresh it    *)
(* for next time".                                                         *)
RefreshedForNextTime == <>[]good => (Stale ~> ~Stale)
=============================================================================
