---------------------------- MODULE ConnectGates ----------------------------
(***************************************************************************)
(* What a `connect` must pass before the relay does anything for it: the   *)
(* session token (SessionTokens), the admin gate and the shadow gate of    *)
(* _peek_scenario_from_connect, with the control operations "register" and *)
(* "elevate" and the physical seat they ask about.                         *)
(*                                                                         *)
(* Every look at the token table, the groups or logind is a step of its    *)
(* own, and the seat changes hands in between: seated_uids() lists the     *)
(* sessions first and then asks for each.                                  *)
(***************************************************************************)
EXTENDS RemoteTargets

CONSTANTS
  Conns,       \* connection threads
  Users,       \* unix users
  Tokens,      \* session tokens (256 bits: nobody guesses one, but any may leak)
  Scenarios,   \* the scenarios clients ask for
  AdminGroup,  \* members of the admin group
  ShadowGroup, \* members of EDY_RDP_SHADOW_GROUP
  ShadowOn,    \* that group is configured
  RemoteAdminOnly

ASSUME GroupsAreUsers == AdminGroup \subseteq Users /\ ShadowGroup \subseteq Users
ASSUME NoneIsNobody == None \notin Users \cup Tokens \cup Scenarios

VARIABLES
  table,    \* SessionTokens._t
  files,    \* tokens whose challenge file is in /run/edy-rdp/reg
  old,      \* tokens issued longer than TTL ago
  super,    \* users whose Cockpit session has administrative access
  read,     \* <<user, token>>: who has read which challenge
  present, active,  \* users with a graphical seat session; the active one
  pc, uid, scn, tok,
  adm,      \* session_token_admin
  todo,     \* seated_uids(): sessions listed and not yet shown
  found,    \*   and the uids found seated, or {None}: cannot be determined
  dials,    \* whom the connection dials, or None
  through   \* the user who has been active ever since the connect, or None

tokenVars == <<table, files, old, read>>
seatVars  == <<present, active>>
connVars  == <<pc, uid, scn, tok, adm, todo, found, dials>>
vars == <<tokenVars, super, seatVars, connVars, through>>

NoEntry == [uid |-> None, admin |-> FALSE, challenge |-> FALSE]
Issued  == [uid : Users, admin : BOOLEAN, challenge : BOOLEAN]

Init ==
  /\ table = [t \in Tokens |-> NoEntry]
  /\ files = {} /\ old = {} /\ read = {}
  /\ super = {}
  /\ present = {} /\ active = None
  /\ pc = [c \in Conns |-> "idle"]
  /\ uid = [c \in Conns |-> None]
  /\ scn = [c \in Conns |-> None]
  /\ tok = [c \in Conns |-> None]
  /\ adm = [c \in Conns |-> FALSE]
  /\ todo = [c \in Conns |-> {}]
  /\ found = [c \in Conns |-> {}]
  /\ dials = [c \in Conns |-> None]
  /\ through = [c \in Conns |-> None]

----------------------------------------------------------------------------
(* Registration and elevation, over the control socket.                    *)

(* issue: a new token and, unless the file cannot be written, a challenge  *)
(* only root can read.                                                     *)
Register(u, t, written) ==
  /\ table[t] = NoEntry /\ t \notin files \cup old
  /\ \A v \in Users : <<v, t>> \notin read
  /\ \A c \in Conns : tok[c] # t
  /\ table' = [table EXCEPT ![t] = [uid |-> u, admin |-> FALSE, challenge |-> TRUE]]
  /\ files' = IF written THEN files \cup {t} ELSE files
  /\ UNCHANGED <<old, read, super, seatVars, connVars, through>>

(* cockpit.file(challenge_path, superuser: "require"). *)
ReadChallenge(u, t) ==
  /\ u \in super /\ t \in files
  /\ read' = read \cup {<<u, t>>}
  /\ UNCHANGED <<table, files, old, super, seatVars, connVars, through>>

(* elevate: the challenge is right, unused, and echoed by the token's own  *)
(* user; it is spent and its file removed.  Otherwise nothing changes.     *)
Elevate(u, t) ==
  /\ <<u, t>> \in read
  /\ table[t].uid = u /\ table[t].challenge
  /\ table' = [table EXCEPT ![t].admin = TRUE, ![t].challenge = FALSE]
  /\ files' = files \ {t}
  /\ UNCHANGED <<old, read, super, seatVars, connVars, through>>

Expire(t) ==
  /\ table[t] # NoEntry
  /\ old' = old \cup {t}
  /\ UNCHANGED <<table, files, read, super, seatVars, connVars, through>>

(* A Cockpit session gains or drops administrative access. *)
ToggleSuperuser(u) ==
  /\ super' = IF u \in super THEN super \ {u} ELSE super \cup {u}
  /\ UNCHANGED <<tokenVars, seatVars, connVars, through>>

----------------------------------------------------------------------------
(* The seat.                                                               *)

Activate(v) ==
  /\ active' = v
  /\ through' = [c \in Conns |-> IF through[c] = v THEN v ELSE None]
  /\ UNCHANGED <<tokenVars, super, connVars>>

LogIn(v)    == v \notin present /\ present' = present \cup {v} /\ Activate(v)
SwitchTo(v) == v \in present /\ present' = present /\ Activate(v)
LogOut(v)   == /\ v \in present /\ present' = present \ {v}
               /\ Activate(IF active = v THEN None ELSE active)
GreeterUp   == active # None /\ present' = present /\ Activate(None)

----------------------------------------------------------------------------
(* A connection.                                                           *)

(* The markers are stripped off the connect and the token, if there is     *)
(* one, is checked (SessionTokens.check): an unknown one, another user's   *)
(* or an expired one is refused, and the expired one dropped.              *)
Valid(t, u) == table[t].uid = u /\ t \notin old

Connect_AnyUser(c, u, s, t) ==
  LET ok == t = None \/ (table[t] # NoEntry /\ t \notin old) IN
  /\ pc[c] = "idle"
  /\ pc' = [pc EXCEPT ![c] = IF ok THEN "admin" ELSE "refused"]
  /\ uid' = [uid EXCEPT ![c] = u]
  /\ scn' = [scn EXCEPT ![c] = s]
  /\ tok' = [tok EXCEPT ![c] = IF ok THEN t ELSE None]
  /\ adm' = [adm EXCEPT ![c] = ok /\ t # None /\ table[t].admin]
  /\ UNCHANGED <<table, files>>
  /\ through' = [through EXCEPT ![c] = active]
  /\ UNCHANGED <<old, read, super, seatVars, todo, found, dials>>

Connect(c, u, s, t) ==
  LET ok      == t = None \/ Valid(t, u)
      expired == t # None /\ table[t].uid = u /\ t \in old
  IN
  /\ pc[c] = "idle"
  /\ pc' = [pc EXCEPT ![c] = IF ok THEN "admin" ELSE "refused"]
  /\ uid' = [uid EXCEPT ![c] = u]
  /\ scn' = [scn EXCEPT ![c] = s]
  /\ tok' = [tok EXCEPT ![c] = IF ok THEN t ELSE None]
  /\ adm' = [adm EXCEPT ![c] = ok /\ t # None /\ table[t].admin]
  /\ IF expired
     THEN table' = [table EXCEPT ![t] = NoEntry] /\ files' = files \ {t}
     ELSE UNCHANGED <<table, files>>
  /\ through' = [through EXCEPT ![c] = active]
  /\ UNCHANGED <<old, read, super, seatVars, todo, found, dials>>

Goto(c, from, to) == pc[c] = from /\ pc' = [pc EXCEPT ![c] = to]

AdminRequired(s) == s = "console" \/ (s \in {"remote", "vnc"} /\ RemoteAdminOnly)
AfterAdmin(s)    == IF s = "console" /\ ShadowOn THEN "list" ELSE "open"

AdminGate_GroupSuffices(c) ==
  LET passes == AdminRequired(scn[c]) => adm[c] \/ uid[c] \in AdminGroup IN
  /\ Goto(c, "admin", IF passes THEN AfterAdmin(scn[c]) ELSE "refused")
  /\ UNCHANGED <<tokenVars, super, seatVars, uid, scn, tok, adm, todo, found, dials, through>>

(* Proven administrator mode; group membership counts only for a caller    *)
(* that presents no token at all.                                          *)
AdminGate(c) ==
  LET proven   == adm[c]
      fallback == tok[c] = None /\ uid[c] \in AdminGroup
      passes   == AdminRequired(scn[c]) => proven \/ fallback
  IN
  /\ Goto(c, "admin", IF passes THEN AfterAdmin(scn[c]) ELSE "refused")
  /\ UNCHANGED <<tokenVars, super, seatVars, uid, scn, tok, adm, todo, found, dials, through>>

(* seated_uids: loginctl list-sessions ... *)
ListSessions(c) ==
  /\ Goto(c, "list", "show")
  /\ todo' = [todo EXCEPT ![c] = present]
  /\ found' = [found EXCEPT ![c] = {}]
  /\ UNCHANGED <<tokenVars, super, seatVars, uid, scn, tok, adm, dials, through>>

ShowSession_UnparsedUser(c, v) ==
  /\ pc[c] = "show" /\ v \in todo[c] /\ v \in present
  /\ todo' = [todo EXCEPT ![c] = @ \ {v}]
  /\ found' = [found EXCEPT ![c] = @ \cup {active}]
  /\ UNCHANGED <<tokenVars, super, seatVars, pc, uid, scn, tok, adm, dials, through>>

(* ... then show-session for each; one that has ended meanwhile fails. *)
ShowSession(c, v) ==
  /\ pc[c] = "show" /\ v \in todo[c] /\ v \in present
  /\ todo' = [todo EXCEPT ![c] = @ \ {v}]
  /\ found' = [found EXCEPT ![c] = IF v = active THEN @ \cup {v} ELSE @]
  /\ UNCHANGED <<tokenVars, super, seatVars, pc, uid, scn, tok, adm, dials, through>>

Undetermined_SkipsSession(c) ==
  /\ pc[c] = "show" /\ todo[c] # {}
  /\ \E v \in todo[c] : todo' = [todo EXCEPT ![c] = @ \ {v}]
  /\ UNCHANGED <<tokenVars, super, seatVars, pc, uid, scn, tok, adm, found, dials, through>>

(* Any loginctl call fails: the whole answer is None. *)
Undetermined(c) ==
  /\ \/ pc[c] = "list"
     \/ pc[c] = "show" /\ todo[c] # {}
  /\ pc' = [pc EXCEPT ![c] = "show"]
  /\ todo' = [todo EXCEPT ![c] = {}]
  /\ found' = [found EXCEPT ![c] = {None}]
  /\ UNCHANGED <<tokenVars, super, seatVars, uid, scn, tok, adm, dials, through>>

(* shadow_gate_required: somebody else is seated, or may be. *)
ShadowRequired(seated, u) == seated \ {u} # {}

ShadowGate(c) ==
  LET passes == ShadowRequired(found[c], uid[c]) => uid[c] \in ShadowGroup IN
  /\ todo[c] = {}
  /\ Goto(c, "show", IF passes THEN "open" ELSE "refused")
  /\ UNCHANGED <<tokenVars, super, seatVars, uid, scn, tok, adm, todo, found, dials, through>>

(* The relay works out the target; a remote one must be listed. *)
Dial(c, asked) ==
  LET to == Targets(scn[c], asked) IN
  /\ Goto(c, "open", IF to = {} THEN "refused" ELSE "dialing")
  /\ IF to = {} THEN UNCHANGED dials
                ELSE \E d \in to : dials' = [dials EXCEPT ![c] = d]
  /\ UNCHANGED <<tokenVars, super, seatVars, uid, scn, tok, adm, todo, found, through>>

(* The connection ends, after a refusal or any time later. *)
EndConnection(c) ==
  /\ pc[c] \in {"open", "dialing", "refused"}
  /\ pc' = [pc EXCEPT ![c] = "idle"]
  /\ uid' = [uid EXCEPT ![c] = None]
  /\ scn' = [scn EXCEPT ![c] = None]
  /\ tok' = [tok EXCEPT ![c] = None]
  /\ adm' = [adm EXCEPT ![c] = FALSE]
  /\ found' = [found EXCEPT ![c] = {}]
  /\ dials' = [dials EXCEPT ![c] = None]
  /\ through' = [through EXCEPT ![c] = None]
  /\ UNCHANGED <<tokenVars, super, seatVars, todo>>

(* The relay restarts: tokens live in memory only, the challenge files     *)
(* stay behind.                                                            *)
RelayRestarts ==
  /\ table' = [t \in Tokens |-> NoEntry]
  /\ pc' = [c \in Conns |-> "idle"]
  /\ uid' = [c \in Conns |-> None]
  /\ scn' = [c \in Conns |-> None]
  /\ tok' = [c \in Conns |-> None]
  /\ adm' = [c \in Conns |-> FALSE]
  /\ todo' = [c \in Conns |-> {}]
  /\ found' = [c \in Conns |-> {}]
  /\ dials' = [c \in Conns |-> None]
  /\ through' = [c \in Conns |-> None]
  /\ UNCHANGED <<files, old, read, super, seatVars>>

TokenStep ==
  \E u \in Users : \/ ToggleSuperuser(u)
                   \/ \E t \in Tokens : \/ Elevate(u, t) \/ ReadChallenge(u, t) \/ Expire(t)
                                        \/ \E w \in BOOLEAN : Register(u, t, w)

SeatStep == GreeterUp \/ \E v \in Users : LogIn(v) \/ SwitchTo(v) \/ LogOut(v)

ConnStep(c) ==
  \/ \E u \in Users, s \in Scenarios, t \in Tokens \cup {None} : Connect(c, u, s, t)
  \/ AdminGate(c) \/ ListSessions(c) \/ Undetermined(c)
  \/ \E v \in Users : ShowSession(c, v)
  \/ ShadowGate(c)
  \/ \E asked \in Asked : Dial(c, asked)
  \/ EndConnection(c)

Next == TokenStep \/ SeatStep \/ RelayRestarts \/ \E c \in Conns : ConnStep(c)

Spec == Init /\ [][Next]_vars

----------------------------------------------------------------------------
TypeOK ==
  /\ table \in [Tokens -> Issued \cup {NoEntry}]
  /\ files \subseteq Tokens /\ old \subseteq Tokens
  /\ super \subseteq Users /\ read \subseteq Users \X Tokens
  /\ present \subseteq Users /\ active \in present \cup {None}
  /\ pc \in [Conns -> {"idle", "admin", "list", "show", "open", "dialing", "refused"}]
  /\ uid \in [Conns -> Users \cup {None}]
  /\ scn \in [Conns -> Scenarios \cup {None}]
  /\ tok \in [Conns -> Tokens \cup {None}]
  /\ adm \in [Conns -> BOOLEAN]
  /\ todo \in [Conns -> SUBSET Users]
  /\ found \in [Conns -> (SUBSET Users) \cup {{None}}]
  /\ dials \in [Conns -> Target \cup {None}]
  /\ through \in [Conns -> Users \cup {None}]

Passed == {"list", "show", "open", "dialing"}   \* beyond the admin gate

(* However tokens leak, expire, are elevated or die with the relay while a *)
(* connection is on its way, one that got past the admin gate belongs to a *)
(* user who read that very token's root-only challenge, or who presented   *)
(* no token and is in the admin group ("PROVEN Cockpit administrator mode, *)
(* not the cosmetic client check nor mere sudo-group membership").         *)
AdminIsProven ==
  \A c \in Conns : pc[c] \in Passed /\ AdminRequired(scn[c]) =>
    IF tok[c] = None THEN uid[c] \in AdminGroup ELSE <<uid[c], tok[c]>> \in read

(* A connection carries only a token registered by its own user, for as    *)
(* long as the relay remembers it, and a spent challenge is gone from disk *)
(* (SessionTokens: "a leaked token is useless to anyone else").            *)
TokenIsOwn ==
  /\ \A c \in Conns : tok[c] # None => table[tok[c]].uid \in {uid[c], None}
  /\ \A t \in files : ~table[t].admin

(* A user who has been at the seat's active session all the time since the *)
(* connect is not mirrored to another user outside the shadow group: logins*)
(* and switches between the list and the lookups, and lookups that fail,   *)
(* never hide that user (seated_uids fails closed).                        *)
SeatedUserGuarded ==
  \A c \in Conns :
    pc[c] \in {"open", "dialing"} /\ scn[c] = "console" /\ ShadowOn /\ through[c] \notin {None, uid[c]}
      => uid[c] \in ShadowGroup

(* Whatever the browser asks for, a connection leaves this host only for a *)
(* host and port that one readable entry of the allow-list names (3389, if *)
(* it names no port), never with a credential the relay manages, and, when *)
(* remote targets are for administrators, only for a user who got past the *)
(* admin gate ("fail-closed against the admin-configured allow-list").     *)
NothingLeavesTheHost ==
  \A c \in Conns : dials[c] # None /\ dials[c].host # Loopback =>
    /\ scn[c] \in {"remote", "vnc"} /\ dials[c].cred # "managed"
    /\ \E e \in AllowSpec : /\ e.readable /\ dials[c].host \in e.net
                           /\ \/ dials[c].port \in e.ports
                              \/ e.ports = {} /\ dials[c].port = RemoteDefaultPort
    /\ RemoteAdminOnly => adm[c] \/ (tok[c] = None /\ uid[c] \in AdminGroup)
=============================================================================
