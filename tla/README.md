# A TLA+ verification of the cockpit remote-desktop relay

This directory holds a formal model of this repository: TLA+ modules translated
from the source, TLC configurations that check them on small instances, and
proofs, checked by TLAPS, of all their safety properties and of two refinements.

## 1. The system

A Cockpit page in the browser (`guac-rdp.js`) speaks the Guacamole protocol
over a unix socket to a Python **relay**. The relay decides who may connect to
what, starts whatever the desktop needs (an isolated GNOME session, an RDP-to-VNC
bridge), rewrites the `connect` and passes bytes to **guacd**. Around it are
root helpers started by systemd: scripts that create and stop desktops, a
**reaper** on a 30 s timer, and **self-update** scripts which replace the whole
payload and can put the old one back, and a
**dependency tracker** which records what is installed and can undo the package
transaction a deployment made.

### Inventory

| Component | Source | State it keeps | Operations | What makes it correct | Model |
|---|---|---|---|---|---|
| Relay connections | `relay/edy_rdp_relay.py` (`Connection`, `handle`) | per thread: place, uid, scenario, guacd id, closed; `DesktopSlots`; `_BridgeCounter` | select, join, connect, `ready`, hangup, terminate, teardown | one lasting connection per desktop; no user over the bridge cap on any path; nobody joins another user's session | `RelaySessions`, implementing `DesktopAccess` |
| Session registry | `relay/session_registry.py` | guacd id → owner, state, times; a JSON file | open, mark, close, prune, load | entries stand for sessions; stale ones go away | `RelaySessions` |
| Live connections, control socket | `relay/control.py` | guacd id → terminate callback | register, unregister, terminate, list, prune and others | terminate ends the session it names | `RelaySessions` |
| Bridge | `relay/bridge.py`, `bridge/edy-rdp-bridge-start.sh` | a child process, a display slot | start, stop | each charged to its user while it runs | launch, failure and stop in `RelaySessions` |
| Tokens and gates | `edy_rdp_relay.py` (`SessionTokens`, `_peek_scenario_from_connect`, `seated_uids`) | token table, challenge files | register, elevate, check; admin gate; shadow gate | administrator mode is proven; tokens are personal; a seated user is not mirrored unasked | `ConnectGates` |
| Isolated desktop | `headless/*.sh`, the unit, `ensure_headless_session` | unit state, gnome-shell, RDP server, `.env`, `.desktop`, `.err` | start, stop, read `.env`, dial | what is published is what the server accepts, unless a call failed unseen; a connection is on the desktop it was told | `HeadlessDesktop` |
| Reaper | `relay/edy_rdp_reaper.py` | none (looks at the registry, units, ports) | prune, reap idle desktops, reap greeters | spares users; reclaims what is idle or dead | `HeadlessDesktop`, `RelaySessions` |
| Self-update | `selfupdate/*.py`, `relay/selfupdate.py`, `deploy.sh`, `install.sh` | payload directories, the `payload` link, libexec links, `install.conf`, a flock | apply, rollback, deploy, prune | the installed payload survives; exit codes tell the truth; a rollback exists and does not guess | `SelfUpdate`, implementing `PayloadSwitch` |
| Update status | `relay/selfupdate.py` (`SelfUpdate`), control operations | a JSON cache, a background thread, a rate limit | status, check, apply, rollback, record results | no outcome lost; no refresh flag left set | `UpdateStatus` |
| Browser front-end | `guac-rdp.js`, `guac-proto.js` | tabs, tunnels, pressed keys, timers | connect, follow-up, disconnect, focus changes | no double connect, no stuck modifier | planned |
| Wayland-VNC desktop | `waylandvnc/*.sh` | unit, sway, wayvnc, endpoint | start, stop, reap | as the isolated desktop | planned |
| Desktop UI control | `deskui/edy-rdp-deskui.sh`, control operations | the machine's default target, the display manager | status, on, off | does not cut users off unwarned | planned |
| Dependency tracking | `relay/depcheck.py`, `depcheck/*.py`, `deploy.sh` (`install_deps`, `run_depsnapshot`) | snapshots and companions on disk, a transaction id, the rollback unit | snapshot, bracket an install, list, compare, undo | undoes a deploy's own install, once; snapshots tell what is installed | `DepTracking` on `PackageInventory` |
| Greeter credential | `rotate/*.sh` | the door credential | rotate | never rotated under a connecting greeter | planned |
| Audio binding | `pulse/edy-rdp-pulse-bind.sh` | a bind target | follow the active seat | follows the user | planned |
| Remote allow-list | `edy_rdp_relay.py` (`parse_remote_allow`, `_grd_target`) | none | parse, match, work out a target | nothing leaves the host unlisted | `RemoteTargets` in `ConnectGates` |
| Wire codec | `edy_rdp_relay.py` | none | encode, parse, drain | inverse; reference definition | planned |
| Seat unlock | `unlock/*.sh` | none | one `loginctl` call | – | not modelled |
| Bootstrap, configuration, requirements | `bootstrap/`, `lib/` | none after start | parse, check | – | not modelled |
| Packet filter, polkit, GNOME extension, vendored client, containers | `hardening/`, `extensions/`, `guacamole-common-js/`, `pod/` | – | declarative or third-party | – | not modelled |

`PROJECT.json` lists the same components with the reason for each that is left out,
and under `hazards` the places in the code where something can go wrong that a
test would hardly reach, each with the properties that watch it or the reason
none does.

### How the components interact

* **Threads share locked tables.** Each browser connection is a thread, each
  control request another. They share `DesktopSlots`, `_BridgeCounter`, the
  registry and `LiveConnections`, each behind a lock of its own; no operation
  holds two. Between two lock sections anything may happen.
* **A takeover is a request.** `claim` puts the newcomer in the slot and then
  asks the old thread to end; the old thread tears itself down in its own time.
* **systemd is asked, then a file is read.** A thread runs `systemctl start`,
  then reads the `.env` the script wrote, then dials. Stops and restarts fit in between.
* **The reaper looks, then acts.** Registry, unit list and port are three looks; the
  stop comes after them.
* **The seat changes hands** between `list-sessions` and each `show-session`.
* **Processes die.** The relay keeps only the registry across a restart; the
  shell may crash under an active unit; the update scripts can be killed
  between any two changes to the host.
* **Others use the package manager too.** A deploy learns the transaction it made
  by reading the newest id before and after; anybody may commit one in between,
  and a reading may fail.
* **Three parties replace one cache file** with what they read of it up to ten seconds before.

## 2. The modules

### `RelaySessions`: the relay's threads and tables

Each lock-protected call is one action; a connection's `pc` says where its thread is in
`_peek_scenario_from_connect` and `handle`:

    idle -> selected -> swapped -> capcheck -> starting -> awaiting -> dialed
         -> opened -> active -> relaying
         -> mark -> unregister -> stop -> unslot -> uncount -> idle

`selected` goes straight to `dialed` for the scenarios without a bridge, and
refusals, failures, hangups and terminations lead to `stop` (or, once `ready` has
come, to `mark`: `Out`).

The shipped client sends one `connect` per connection, but nothing in the relay holds a client to that:
`_peek_scenario_from_connect` runs for every `connect`. From `dialed` and `relaying` a thread can
therefore go back to `swapped` (`Claim`, counted by `sent` and `again`) and return to where it was. A further connect
overwrites `desktop_id` and `bridge_proc` and charges once more; the teardown releases one slot, stops
one child and gives back one charge. The model keeps what is lost: `desks`, all a connection has claimed, beside `desk`, the last one;
`stray`, children nobody remembers; `Lost` in a slot, a `Connection` object whose thread has ended and left it there.

`slots`, `count`, `registry` and `live` are the
tables of the same names; `counted` is the connections' `bridge_counted`;
`bridge` the running children; `victim` the old connection a `claim` has displaced
and not yet told; `ctl` the ids a control request is still to work through.
A prune ages any entry whose state has a TTL (the clock is abstracted to a choice).
guacd is external: a fresh session gets an unused id, a join the id of a session still
open. `Restart` is a crash of the relay: all is gone but the registry.

Abstractions: the byte pump, keepalives, size and sync instructions and the
rewriting of parameters are absent; which connects the gates admit is a choice
(`Refused`), modelled in `ConnectGates`; the isolated desktop's id is one per user
here, and changes in `HeadlessDesktop`; guacd ignores a second `connect` once it has answered the first;
a thread's identity is used again after it ends. A forgotten child counts as running until the relay restarts.

### `DesktopAccess`: what the relay promises

`DesktopAccess` says what `DesktopSlots`' comment says and nothing of locks, tables and threads: a connection has
access to desktops, or is on its way out; whoever takes a desktop has
it in the step in which the other loses it, with all its other desktops; who has lost one never gets it back, and (`FairSpec`) is gone
in the end. `RelaySessions` implements it under the mapping `Access`: access to what it has claimed is had
by a connection that is not `Doomed` (closed, displaced, or in teardown), and
`leaving` are the doomed ones that are still there. `ImplementsAccess` is its `Spec` as a
property, `ImplementsFairAccess` its `FairSpec`.

### `HeadlessDesktop`: one user's isolated desktop

The start script is `StartJob`, `RefuseSeated` or `EnsureShell`, `SetCredential`, `RestartGrd`,
`Publish`, `PortListens`, and gives up anywhere (`StartGivesUp`) without undoing
anything; the stop script is `StopGrd`, `StopShell`, `RemoveFiles`. `env`,
`idFile`, `err` are the three files. Both scripts look at the exit status of no `grdctl` and no `systemctl --user` call, so each
may fail and the script goes on: the credential stored (`stored`) may stay the one of an earlier start, the RDP server may keep
accepting what it did (`grd`), or end, or survive its stop, while `cred` is published. `silent` remembers, for the properties, that this has
happened in the last start. Writes to `/run`, a tmpfs, are taken to succeed, and so is the stop of the shell's own
unit, which is followed by a `pkill`. A relay thread asks systemd, waits for the job,
reads the `.env`, dials with that credential, and registers. The reaper is its
own process with the tick `wait -> list -> units -> port -> stop`. Credentials and
ids are drawn at random in the code; the model takes one that nobody holds any more
(two draws being equal is out of scope; `EnoughToDraw` assumes that there are more than threads
and files can hold). Users share nothing in these scripts, so
one user stands for all.

### `ConnectGates`: tokens, the admin gate, the shadow gate

Tokens are issued, their root-only challenge read (which needs administrative access
in Cockpit), elevated, expired and forgotten; any token may leak, so any user may
present any token. A `connect` is checked, passes the admin gate, and for the console
the shadow gate, which lists the seat's sessions and then looks at each, while users log
in, switch and log out; any look may fail. `through` is a history variable: the user who has
been active ever since the connect.

Who is past the gates dials (`Dial`). `RemoteTargets` has the allow-list as `parse_remote_allow`
leaves it (unreadable entries skipped, 3389 where no port is named), the match, and
the target of every scenario with whose credential goes there. An address block is the set of its
hosts, `*` all ports, `any` all hosts; the characters of an address are left out.

### `SelfUpdate`: the payload and the two scripts that change it

`dirs`, `link`, `libexec` and `conf` are the payload directories, the symlink, the
links the units start from, and payload and version in `install.conf`; `running` is what the
relay process runs. Both scripts are processes that may start at any time and share the
flock. `deploy.sh` is copy, replace, move, swap, install, prune (one directory at a time); `install.sh` changes the links first
and `install.conf` later and may stop anywhere (`HalfInstalled`). Each script may
be killed at every step, which also releases its flock.

A directory is `payload-<v>` or `payload-<v>.tmp` (`Payload`, `Tmp`), because `_payload_dirs` and the pruning take
both for payloads, and `sort -V` puts the second above the first (`Above`). `whole` are those with every file of their
release: a copy or a removal cut short (`HalfCopied`, `HalfRemoved`) leaves one on disk that is not. Which files such remains lack
is open; `install.sh` refuses them if a file it has declared is missing, and installs them as version 1.1.1 if
`VERSION` alone is (`Unversioned`, `VersionOf`). Rollback may choose them.

The relay's checks before it
starts a unit read a cache and bind nothing, so they are not guards here; `UpdateStatus` has them.

Abstractions: a child `install.sh` that outlives its timed-out parent is part of the
half-installed choice (the unit's control group is killed at exit); the relay does not
crash between the health check and the script's exit; the fetched release's
`deploy.sh` is this repository's.

### `PayloadSwitch`: what the update promises about payloads

One script at a time (`holder`) adds and discards payloads and changes which is `installed`. What is installed is neither discarded nor damaged, what
replaces it is on disk (not always with all its files: a rollback may go to remains), and a manual rollback only goes to the one payload there is beside another (`rollback_candidate`:
"Refuses (does not guess)"). There are no links, exit codes or failures in it. `SelfUpdate` implements it with `dirs`, `whole`,
`Known` (the payload in `install.conf`, unless it was installed without its version) and `lock` for its four variables (`ImplementsSwitch`). A kill is one step of it, even where it ends an installation half-way.

### `UpdateStatus`: the status cache and what depends on it

`_do_live_check` reads the cache, asks GitHub and replaces the file. Three parties run it: the
relay's background refresh (`StartRefresh`, `FinishRefresh`, one at a time by `refreshing`), its
forced check (`StartForced`, `FinishForced`), and the root script recording an outcome (`Record`,
`Recorded`). `check[k]` is what check `k` read; the answer, the comparison with the installed version and the write are one step at its
end. An entry keeps the outcome and, during an outage, the latest version of what was *read*, so a slow check
can put back older ones. The scripts are the steps the cache and the relay's threads can
notice (`Installs`, `Undo`, `UndoFails`, `RestartRelay`, `Healthy`, `Unhealthy`, `Stops`; in full they are `SelfUpdate`): a restart ends the relay's
checks, a script that fails or is killed records nothing. Which payloads are on disk, and where a way back leads, is `SelfUpdate`'s
as well; here it is left open (`BackTo`: to any version deployed so far, or to one without its version). `apply()` is refused unless the cached flag is set. `online`
and `good` are the world: GitHub answers; the newest release deploys and its relay comes up. `early` is
a history variable: the relay's checks that read the cache before the outcome it now shows.

`Writers` says who may create a file beside the cache. On an installed host that is root alone: `tmpfiles.conf` keeps `/run/edy-rdp`
root-owned and not group-writable, see `RelayCannotWrite` below. Where the relay may write there too, run as root, say, it is both. The safety properties
are checked with both, since that is where the races over the file are, and proved for
any `Writers`. Nothing is claimed of the status becoming right in the end, or of updates arriving: on an installed host neither holds.

### `PackageInventory` and `DepTracking`: snapshots and the undo of an install

`PackageInventory` is the pure half: dotted versions padded to a common length, packages keyed by
name and architecture, the difference of two inventories, and the count of requirements not met.
A version is its leading number as a sequence. Beside the code's comparison (`AtLeast`, of tuples padded with zeros) stands its
reference definition `WorthAsMuch`: the components are the digits of one number, in a base above all of them (`Worth`).

`DepTracking` is one host. `history` is the package manager's, a transaction's id being its place in it. A
deploy is `gather -> write -> summary` (label before), `deps -> install -> installed` (the bracket of
`install_deps`), and a second snapshot (label after) with the transaction the bracket saw; a snapshot taken by
hand has no label. Each reading of the newest id may fail (`Read`), each snapshot may fail half-way, a
deploy may abort anywhere, anybody else may commit a transaction between any two
steps, and the clock may be set back. Relay and unit are `RequestRollback`, `Choose`, `Verify`, `Undo`.
`bracketed`, `newest` and `setBack` are history variables.

Abstractions: the dependency lists of packages (requires, required by) are displayed and decide nothing; `install_deps` is
bracketed by single readings, each one step; the deploy's other work touches nothing here; two
deploys do not run at once (nothing in the code prevents that).

### Instances

The `MC*` modules only add what TLC needs: `MCRelaySessions` the symmetry,
`MCSelfUpdate` the specification `SmoothSpec`, in which nothing fails or is killed in
the middle of a deployment, `MCConnectGates` an allow-list, `MCDepTracking` two inventories of a multi-arch host.

## 3. What is checked

| Run | Instance | Properties |
|---|---|---|
| `RelaySafety` | 2 connections, 1 control thread, 2 users (both admins), 1 guacd id, console and virtual, cap 2, 1 further connect, no crash; 2.1 million states | `TypeOK`, `OneSlotPerDesktop`, `NoStaleHolder`, `BridgeCap`, `ActiveIsAttached`, `SessionOfOneUser`, `EndedOnPurpose`, `ImplementsAccess` |
| `RelayLiveness` | 2 connections, 1 control thread, 1 user, 1 id, console and wayland-vnc, cap 2, 1 crash; 209,000 states | `TerminatedEnds`, `ImplementsFairAccess`, `StaleEntriesPruned` |
| `Headless` | 2 connections, 7 credentials, 5 ids; 5.5 million states | `TypeOK`, `ActiveIsPublished`, `AttachedToItsDesktop`, `ReaperSparesUsers` |
| `HeadlessLiveness` | 1 connection, 6 credentials, 4 ids; 57,000 states | `DeadDesktopRecovers`, `IdleReclaimed` |
| `ConnectGates` | 1 connection, 3 users (one in the admin group, one in the shadow group), 1 token, console, remote and isolated, 2 foreign hosts, 3 ports, 3 entries; 2.2 million states | `TypeOK`, `AdminIsProven`, `TokenIsOwn`, `SeatedUserGuarded`, `NothingLeavesTheHost` |
| `SelfUpdate` | 3 releases, Keep 1; 936,000 states | `TypeOK`, `InstalledPayloadKept`, `HonestOutcome`, `UndoAvailable`, `ImplementsSwitch` |
| `UpdateStatus` | 2 releases, root and relay write; 2.1 million states | `TypeOK`, `RefreshNotStuck`, `OutcomeShown` |
| `DepTracking` | 3 transactions, 2 deploys, 2 seconds, dnf or apt, 2 inventories; 2.9 million states | `TypeOK`, `UndoneWasBracketed`, `NeverUndoneTwice`, `LatestIsLastWritten`, `PanelAgrees`, `CountsTheOutdated`, `SummaryTellsChange` |

Each property is stated in words above its definition. The main ones:

* `OneSlotPerDesktop`: of all connections to one desktop at most one will last, and the
  slot names it. Every interleaving of claims, of the late `terminate` of the
  displaced connection and of the old holder's own teardown is explored.
* `NoStaleHolder`: a slot that names a connection names one that claimed that desktop and still has it to release, so
  no claim displaces a bystander. After a further connect the slot of the desktop given up is released by nobody; it
  keeps a dead `Connection`, whose `terminate` harms no one.
* `BridgeCap`: running bridges, forgotten ones included, are never more than the charges, and those never more than the cap, over
  refusals after the claim, failed bridges, takeovers and further connects. The two are not equal: charges can be lost, see below.
* `SessionOfOneUser`: the owner check of a join is made once, when the session is
  selected; the entry may be closed, reaped and reopened before guacd answers.
* `EndedOnPurpose`: a thread or a request that ends another connection looked it up steps ago, in a table that may have
  changed since. Still nobody is hit by mistake: the request names the connection's session, or the claim is of
  the very desktop the connection has, which on all but the console is that user's own.
* `ActiveIsAttached`: before a restart no ACTIVE entry is orphaned (after one, see
  `GhostsReaped` below).
* `ActiveIsPublished`: what is published is what the RDP server accepts, but for a start in which a call failed unseen.
* `AttachedToItsDesktop`: whenever the server accepts what is published, a stale `.env` never leads into a newer desktop, because each
  start mints a credential; also after starts and stops that failed unseen.
* `ReaperSparesUsers`: whoever the reaper cuts off appeared after it asked the relay.
* `AdminIsProven`, `TokenIsOwn`: a leaked token, an elevated token and the group
  fallback never combine into an administrator nobody proved.
* `SeatedUserGuarded`: a user active at the seat throughout is never missed. It says
  nothing of a user who is switched to while the sessions are being looked at; that
  race is open in the code and listed as a hazard.
* `ImplementsAccess`, `ImplementsFairAccess`: every step of threads, teardowns and control requests is a step of
  `DesktopAccess` or none, and connections that lost their desktop are gone in the end.
* `NothingLeavesTheHost`: another host is dialled only if one readable entry names it with that
  port, never with a managed credential, and past the admin gate where that is asked for.
* `OutcomeShown`: the only report of a run that restarted the relay is not lost by a check that began after it was
  recorded. (One begun before may put the older one back: the code leaves that race open.)
* `RefreshNotStuck`: the flag that keeps a second refresh from starting is up just while one runs.
* `UndoneWasBracketed`, `NeverUndoneTwice`: whatever is undone was committed while a deploy's
  install ran, and once. What else is committed inside a bracket is attributed to the deploy as well;
  two readings cannot tell them apart.
* `LatestIsLastWritten`, `PanelAgrees`: the panel, the next snapshot and the rollback go by the same one, also between a snapshot and its companion.
* `CountsTheOutdated` checks `version_ge` against comparing dotted numbers as numbers;
  `SummaryTellsChange` the difference of snapshots against equality of what they list.
* `HonestOutcome`, `InstalledPayloadKept`: good exit codes are true, and the payload last installed stays on disk
  (one that was installed without its version may be copied over by the next update).
* `UndoAvailable`: after an update there is something to go back to, and no more than deploy.sh keeps. That it has all its files is promised only if no
  remains of another release lay on disk when the update began, because pruning may keep those in its place.
* `ImplementsSwitch`: what rollback found to be the only way back is still the only one when it installs it.

### Why the bounds are enough

Takeovers involve the newcomer and the one holder of a slot; with the
reuse of thread identities two connections give every sequence of takeovers, including a
third newcomer while the first is still being torn down. One further connect is enough to leave a slot, a charge and a child behind, and with a cap of 2 one user's two connections
reach the cap with a lost charge as well as without. Joins need a session and a joiner, of one user and of two. In `RelaySafety` the console is one
desktop for all users and the virtual desktop one for each; users who are all admins may end anybody's session, which allows more than
the owner check does (and makes users interchangeable). The scenarios without a slot and the crash are in `RelayLiveness`: after one, the state is that of `Init`
plus an old registry, and the proofs hold for any number. In `HeadlessDesktop` a start is
under way only for a thread that has read nothing yet, so few credentials are in use when one is
drawn (the server's, the published one, and one per thread, which `EnoughToDraw` allows for). For one connection
the gates read only the table and the seat; connections meet there only through the
expiry of a token, which a step `Expire`/`Connect` of the same thread exercises as well. With Keep 1, three releases let a deployment meet
an older directory, one left by a rollback, and remains of either beside its own copy. In `DepTracking` two deploys and three transactions
give a foreign transaction before, inside or after a bracket, an undo, and a second request for it; two stamps give
snapshots of one second, of two, and a clock set back; the two inventories differ in the package a name-only key
would hide, and in nothing else. In `UpdateStatus` two releases give an update, its
rollback, and the update again; all three checks can be under way at once.
In `ConnectGates` the allow-list has a host listed with and without a port, and an unreadable entry for another.

### Fairness

`RelaySessions`: weak fairness of every thread's own steps and of control requests under
way (threads are scheduled by the operating system; `start_bridge` and `stop_bridge` wait with timeouts),
and strong fairness of pruning an aged entry (the reaper's timer fires for ever, and
an entry that stays grows older than any TTL). Nothing is assumed of clients or guacd.

`HeadlessDesktop`: weak fairness of scripts, threads and the reaper, whose waits are all
bounded; strong fairness of pruning each aged entry, of the registry being answered
(an outage of the control socket ends), and of finding the port idle, which says that somebody
who redials a dead desktop is not always dialing at the moment of the look.

`UpdateStatus` has a fair specification for `RelayCannotWrite` alone: weak fairness of the relay's checks (requests to GitHub time out), of
scripts going on, of systemd starting the relay again and of somebody opening the Update tab. Forced checks, updates,
rollbacks and starts by hand are nobody's duty.
`DepTracking` promises nothing that must happen.

### Disagreements found

Four runs each check one statement that a comment or header of the code makes, and TLC
refutes it. `PROJECT.json` quotes the lines under `findings`.

| Run | Statement | What happens |
|---|---|---|
| `BackingSession` | after a claim the backing session is free | `terminate()` only asks; the new bridge starts while the old one runs |
| `GhostsReaped` | the reaper removes stale entries | an entry ACTIVE at a crash has no TTL and stays for ever |
| `OldVersion` | exit code 4 means the old version is back | after a manual rollback, pruning has kept the release the operator left |
| `RelayCannotWrite` | a status request with an old cache refreshes it for next time | the relay's user may not create files in `/run/edy-rdp`, so every refresh is lost; the cache stays missing or old until a root script writes it |

`GhostsReaped` and `RelayCannotWrite` are refuted under `FairSpec`, so no missing step explains them.

Behaviours the modules also have, which no run states: a second `connect` on one connection costs its user a charge that is given back only by a restart
of the relay, although the comment at `edy_rdp_relay.py:1103` says that it is released in the teardown, and leaves the first child
running (`Claim`, `ReleaseCount`, `StopBridge` in `RelaySessions`); after a `grdctl` that failed unseen, the desktop is
published with a credential its server refuses, or a thread with an earlier `.env` gets into it under an earlier id (`SetCredential` in
`HeadlessDesktop`); a copy cut short leaves `payload-<v>.tmp`, which a later update keeps in place of the good payload `<v>` and a rollback chooses
(`HalfCopied`, `Kept` in `SelfUpdate`); a connection that joined its user's own session and leaves first marks the shared entry
disconnected and drops the owner's callback, so the owner relays on, unlisted as active, until it ends or its desktop is claimed (`MarkDisconnected`, `Unregister` in `RelaySessions`); a terminate request between `table.open` and
`live.register` removes the entry of a session that goes on relaying (`RelaySessions`); a deployment that runs into `apply`'s
180 s timeout after the swap ends in exit code 3, "nothing was touched", with the new payload linked
(`DeployTimesOut` in `SelfUpdate`); a snapshot of the same second replaces one that is said never to be
overwritten (`WriteSnapshot` in `DepTracking`); an outage clears the cached `update_available` although a newer version is known
(`Entry` in `UpdateStatus`), so `apply()` says that there is no update.

## 4. What is proved

TLAPS checks these for every value of the constants allowed by the modules'
assumptions (finitely many connections, admins and groups among the users, known scenarios,
positive caps and bounds, `None` distinct from everything else; no bound on users, ids, tokens or releases). `HeadlessDesktop_proofs` also assumes `EnoughToDraw`. The proofs are in the `*_proofs` modules.

**`RelaySessions_proofs`**: all eight properties of `RelaySafety`, for any number of connects on a connection. `Shaped` adds to `TypeOK` what each `pc`
says of the thread's own variables (one that is not idle has a user, one that was told `ready`
has an id, only a thread inside `claim` has a victim); `TypeOK` alone is not inductive because every
table is indexed with those. On top of it:

* `OneSlotPerDesktop` is inductive with `SlotHolders` (a slot's holder has claimed that
  desktop and, unless it gave it up for another, has not yet released it): a claim displaces exactly the connection that
  was lasting, and makes it a victim, which counts as doomed until the terminate.
* `BridgeCap` needs `CapInv`: a user's count is at least its connections that are charged, plus those of them that are starting a
  second child, plus the forgotten children; and at which places a thread can be counted or have a bridge. A further connect charges before it starts its child,
  so forgetting the first one is covered; a release gives back one charge for one child stopped.
* `NoStaleHolder` joins `SlotHolders` and `LiveHolders`; the latter says
  that a callback is registered under its thread's own id, so the thread's `unregister`, which
  pops by id, always reaches it.
* `SessionOfOneUser` and `ActiveIsAttached` are inductive with `Shaped`.
* `EndedOnPurpose` needs `Displaced` (a thread inside `claim` and the one it displaced have both claimed one desktop, until the
  terminate), `OwnDesks` (what a thread has claimed on anything but the console is its user's) and, for requests, `LiveHolders`: the callback found under an id belongs to a thread with that id.
* `AccessImplemented`: `Spec => ImplementsAccess`. `Invs` joins the invariants above with `Fresh` (a thread that has no
  desktop yet has not been closed or displaced); `AccessSim` maps each action to `Take`, `Lose`, `Gone`, `Crash` or a stutter. A terminate
  or a prune is `Lose` if its target was lasting (a guacd id has one callback), a claim the one `Take`, in which the slot's invariant says who loses. Whoever loses one desktop loses all it has.

**`DesktopAccess_proofs`**: `OnlyOneHasAccess`, what that refinement is worth.

**`ConnectGates_proofs`**: all four. `ProofInv` says that an elevated token was read by its
user, and relates the copied `adm` flag of a thread to that; `SeatInv` says that a user who
was active throughout is present, is among the sessions listed and not yet shown, or has
been found, or the answer is the fail-closed one. `NothingLeavesTheHost` follows from
`DialInv`, which adds to the gates' invariant that only a dialing connection has a target and that it is one of
its scenario's (`TargetsListed` proves those local or listed for any allow-list).

**`HeadlessDesktop_proofs`**: all four. `EndpointInv` says who knows which credential: the one a start has minted is known to no thread
until it is published; two endpoints with one credential name one desktop; whoever has a bridge up knows the server's credential, which is the
published one unless a call has failed unseen (`silent`). It needs draws that are really fresh, hence `EnoughToDraw` and the lemmas `DrawCred` and `DrawId`, by counting.
`SparesInv` follows the reaper through its tick: from `list` on whoever has an entry is in `late`, and after the port was idle
so is whoever is attached.

**`SelfUpdate_proofs`**: `TypeOK`, `InstalledPayloadKept` and `HonestOutcome`, through `Shaped` (which local variables of a script are
set where, that `payload` names a payload) and `SafeInv`: who is past `Begin` holds the lock and the other does not (`Locked`), what the host looks like at each place of apply (`ApplyAt`) and on the
way back (`BackAt`). `UndoAvailable` is proved for any Keep. `AgesInv`: payloads are of published releases, and beside the newest there is
always an older one, so a deployment finds one. Pruning leaves the highest in the order of `sort -V` (`PrunedLeavesHigher`; `Rank` is the place in it), so one is left;
all but the lowest of those left are higher than that one, so they are at most Keep (`KeptAreFew`, `LowestOf`); from there to the exit nobody but the
lock's holder changes them (`UndoInv`, which also says that they are whole if apply began beside no remains).

`SwitchImplemented` is `Spec => ImplementsSwitch`. Beside `SafeInv` it needs `OneWayBack`: while rollback is on its way back, there is at most
one payload on disk beside the one it chose. `SwitchSim` maps each action to a step of `PayloadSwitch` or a stutter; what install.sh
does half-way is a `Switch` or nothing, and what deploy.sh leaves half done an `Add` or a `Discard` without all files.

**`UpdateStatus_proofs`**: all three, for any `Writers`. `OutcomeShown` through `KnowsOutcome`: a check of the relay that is not early carries the outcome the
cache shows.
`RefreshNotStuck` is inductive as it stands.

**`PackageInventory_proofs`**: `AtLeastIsNumeric`: for versions of any length, the code's comparison is that of the numbers the versions
stand for, in any base above their components and over any common length. A number's digits up to the first difference
contribute the same (`SameDigits`), and from there on the larger digit outweighs all that follows
(`LargerDigits`, with `Carry` for one step). `AtLeastIsWorth` takes the base and length of the reference definition, `VersionsAreOrdered` says that the
comparison is total, transitive, and antisymmetric but for trailing zeros.

**`DepTracking_proofs`**: all seven. `BracketOpen` (since a successful first reading every
newer transaction is bracketed) and `Attributed` (every id waiting in a deploy, a snapshot or the unit was bracketed) give
`UndoneWasBracketed`; `UndoneEarlier` (an undo is newer than what it undoes, and what the unit has verified is not undone yet) gives
`NeverUndoneTwice`. `NewestInv` ties the greatest stamp to the last write while the clock runs
on. `SummaryTellsChange` rests on a lemma about `diff_snapshots`: inventories without two versions of one
package between which it finds nothing list the same packages. `CountsTheOutdated` joins
`AtLeastIsWorth` with `CompliantIsSatisfied` (the package that stands for a requirement is the installed candidate of lowest index, the
last of its name in the inventory): a snapshot's count is the number of requirements that are not met (`Counted`).

**Only model-checked**: the liveness properties (`TerminatedEnds`, `StaleEntriesPruned`, `DeadDesktopRecovers`, `IdleReclaimed`) and `ImplementsFairAccess`: fairness and ENABLED are out of the prover's reach. The library's induction
theorems, which take an operator as a parameter, cannot be instantiated by the provers used here. Where a fact needs
induction (`Worth`, the first of several indices, the lowest payload), `Induction`, `LeastOf` and `LowestOf` take the set of counterexamples and its minimal element
(`WFMin`) instead.

## 5. Not modelled, and what would come next

Done, in the order of importance: who gets a desktop; whether it is the right one; who may, and where to; what
replaces the program itself; what the Update tab says of it; what is undone of its dependencies.

Left, with what each would need:

1. `ConnectFlow`: the front-end's connect flows, tunnels, follow-up of a dropped greeter, disconnect
   and timers (the hazards listed for `guac-rdp.js` would be its first properties), and the guest's pressed keys against focus changes.
2. The bridge script's display slot, its children and their cleanup, refining the launch and stop of `RelaySessions`.
3. The wayland-VNC desktop, an instance of the pattern of `HeadlessDesktop` with fewer steps; greeter reaping.
4. Desktop UI control, composed with the seat of `ConnectGates`; rotation of the greeter credential against connecting greeters; the audio binding.
5. The wire codec as operators against a reference definition.
6. `TerminatedEnds` and the other liveness properties for larger instances.

Not worth a model: the seat unlock (one call, no state), the bootstrap and the requirement checks (run once,
keep no state), packet filter and polkit rules (interpreted by others), vendored and container files.

Hazards seen in the code beside those of `PROJECT.json`, without a property: a slow `systemctl` ends the reaper's whole tick
(`edy_rdp_reaper.py:39`); expired tokens are never swept (`edy_rdp_relay.py:841`); a failed restart command is
ignored before the health check (`edy-rdp-selfupdate-apply.py:142`); `deploy.sh` run by hand does not take the scripts' lock;
a `dnf` query that times out reads as "nothing requires this package" (`edy-rdp-depsnapshot.py:70`); the exit status of the rollback
unit is read after the failed start and may be of a later run (`depcheck.py:571`).

## 6. Running it

    tlc -workers 2 -config RelaySafety.cfg MCRelaySessions
    tlapm RelaySessions_proofs.tla

Each `.cfg` is a run of the table in `PROJECT.json`, which also holds `map` (which lines of
the source each definition stands for) and `mutants`: for every property a changed
definition, written next to the one it replaces (`Acquire_OffByOne` beside `Acquire`), with which TLC finds the
property violated.
