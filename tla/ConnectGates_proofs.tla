------------------------ MODULE ConnectGates_proofs ------------------------
(***************************************************************************)
(* Proofs about ConnectGates: what a connection that got through the gates *)
(* has shown, for any users, groups, tokens and seat sessions.             *)
(***************************************************************************)
EXTENDS ConnectGates, TLAPS

(* Once the answer is None there is nothing left to show. *)
Typed ==
  /\ TypeOK
  /\ \A c \in Conns : None \in found[c] => todo[c] = {}

(* Nothing but a host, a port and a credential is ever dialled.            *)
LEMMA TargetsTyped ==
  ASSUME NEW s, NEW asked \in Asked
  PROVE  Targets(s, asked) \subseteq Target
  BY LocalTargets DEF Targets, Target, Local, RemoteTarget, RemoteDefaultPort, Asked

LEMMA TypeInit == Init => Typed
  BY DEF Init, Typed, TypeOK

LEMMA TypeStep == Typed /\ [Next]_vars => Typed'
<1> SUFFICES ASSUME Typed, [Next]_vars PROVE Typed'
  OBVIOUS
<1> USE DEF Typed, TypeOK, Issued, NoEntry, Goto, tokenVars, seatVars, connVars
<1>1. ASSUME NEW u \in Users, NEW t \in Tokens, NEW w \in BOOLEAN, Register(u, t, w) PROVE Typed'
  BY <1>1 DEF Register
<1>2. ASSUME NEW u \in Users, NEW t \in Tokens, ReadChallenge(u, t) PROVE Typed'
  BY <1>2 DEF ReadChallenge
<1>3. ASSUME NEW u \in Users, NEW t \in Tokens, Elevate(u, t) PROVE Typed'
  BY <1>3 DEF Elevate
<1>4. ASSUME NEW t \in Tokens, Expire(t) PROVE Typed'
  BY <1>4 DEF Expire
<1>5. ASSUME NEW u \in Users, ToggleSuperuser(u) PROVE Typed'
  BY <1>5 DEF ToggleSuperuser
<1>6. ASSUME NEW v \in Users, LogIn(v) PROVE Typed'
  BY <1>6 DEF LogIn, Activate
<1>7. ASSUME NEW v \in Users, SwitchTo(v) PROVE Typed'
  BY <1>7 DEF SwitchTo, Activate
<1>8. ASSUME NEW v \in Users, LogOut(v) PROVE Typed'
  BY <1>8 DEF LogOut, Activate
<1>9. CASE GreeterUp
  BY <1>9 DEF GreeterUp, Activate
<1>10. ASSUME NEW c \in Conns, NEW u \in Users, NEW s \in Scenarios, NEW t \in Tokens \cup {None}, Connect(c, u, s, t) PROVE Typed'
  BY <1>10 DEF Connect, Valid
<1>11. ASSUME NEW c \in Conns, AdminGate(c) PROVE Typed'
  BY <1>11 DEF AdminGate, AfterAdmin
<1>12. ASSUME NEW c \in Conns, ListSessions(c) PROVE Typed'
  BY <1>12, NoneIsNobody DEF ListSessions
<1>13. ASSUME NEW c \in Conns, NEW v \in Users, ShowSession(c, v) PROVE Typed'
  <2>1. found[c] \in SUBSET Users
    BY <1>13 DEF ShowSession
  <2> QED
    BY <1>13, <2>1, NoneIsNobody DEF ShowSession
<1>14. ASSUME NEW c \in Conns, Undetermined(c) PROVE Typed'
  <2>1. found' \in [Conns -> (SUBSET Users) \cup {{None}}]
    <3>1. {None} \in (SUBSET Users) \cup {{None}}
      OBVIOUS
    <3>2. found' = [found EXCEPT ![c] = {None}]
      BY <1>14 DEF Undetermined
    <3> QED
      BY <3>1, <3>2
  <2>2. todo' = [todo EXCEPT ![c] = {}]
    BY <1>14 DEF Undetermined
  <2>3. found' = [found EXCEPT ![c] = {None}]
    BY <1>14 DEF Undetermined
  <2>4. TypeOK'
    BY <1>14, <2>1, <2>2 DEF Undetermined
  <2> QED
    BY <2>2, <2>3, <2>4
<1>15. ASSUME NEW c \in Conns, ShadowGate(c) PROVE Typed'
  BY <1>15 DEF ShadowGate, ShadowRequired
<1>19. ASSUME NEW c \in Conns, NEW asked \in Asked, Dial(c, asked) PROVE Typed'
  <2>1. dials' \in [Conns -> Target \cup {None}]
    <3>1. CASE Targets(scn[c], asked) = {}
      BY <1>19, <3>1 DEF Dial
    <3>2. CASE Targets(scn[c], asked) # {}
      <4>1. PICK d \in Targets(scn[c], asked) : dials' = [dials EXCEPT ![c] = d]
        BY <1>19, <3>2 DEF Dial
      <4>2. d \in Target
        BY <4>1, TargetsTyped
      <4> QED
        BY <4>1, <4>2
    <3> QED
      BY <3>1, <3>2
  <2>2. pc' = [pc EXCEPT ![c] = "refused"] \/ pc' = [pc EXCEPT ![c] = "dialing"]
    BY <1>19 DEF Dial
  <2> QED
    BY <1>19, <2>1, <2>2 DEF Dial
<1>16. ASSUME NEW c \in Conns, EndConnection(c) PROVE Typed'
  BY <1>16 DEF EndConnection
<1>17. CASE RelayRestarts
  BY <1>17 DEF RelayRestarts
<1>18. CASE UNCHANGED vars
  BY <1>18 DEF vars
<1> HIDE DEF Typed, TypeOK, Issued, NoEntry, Goto, tokenVars, seatVars, connVars
<1> QED
  BY <1>1, <1>2, <1>3, <1>4, <1>5, <1>6, <1>7, <1>8, <1>9, <1>10, <1>11, <1>12, <1>13, <1>14, <1>15, <1>16, <1>17, <1>18, <1>19
     DEF Next, TokenStep, SeatStep, ConnStep

LEMMA TypedTypeOK == Typed => TypeOK
  BY DEF Typed

(* Every variable keeps its type; in particular an answer of seated_uids   *)
(* is a set of users or "cannot be determined", never a mixture.           *)
THEOREM TypesHold == Spec => []TypeOK
  BY TypeInit, TypeStep, TypedTypeOK, PTL DEF Spec

----------------------------------------------------------------------------
(* The token's flag and the connection's copy of it.                       *)

(* `admin` is set for nobody but a user who read the challenge, and a      *)
(* connection's copy was taken from its own user's token.                  *)
ProofInv ==
  /\ \A t \in Tokens : table[t].admin => <<table[t].uid, t>> \in read
  /\ \A c \in Conns : adm[c] => tok[c] # None /\ <<uid[c], tok[c]>> \in read
  /\ AdminIsProven

LEMMA ProofStep == TypeOK /\ ProofInv /\ [Next]_vars => ProofInv'
<1> SUFFICES ASSUME TypeOK, ProofInv, [Next]_vars PROVE ProofInv'
  OBVIOUS
<1> USE DEF TypeOK, Issued, NoEntry, ProofInv, AdminIsProven, Passed, AdminRequired, Goto, tokenVars, seatVars, connVars
<1>1. ASSUME NEW u \in Users, NEW t \in Tokens, NEW w \in BOOLEAN, Register(u, t, w) PROVE ProofInv'
  BY <1>1 DEF Register
<1>2. ASSUME NEW u \in Users, NEW t \in Tokens, ReadChallenge(u, t) PROVE ProofInv'
  BY <1>2 DEF ReadChallenge
<1>3. ASSUME NEW u \in Users, NEW t \in Tokens, Elevate(u, t) PROVE ProofInv'
  BY <1>3 DEF Elevate
<1>4. ASSUME NEW t \in Tokens, Expire(t) PROVE ProofInv'
  BY <1>4 DEF Expire
<1>5. ASSUME NEW u \in Users, ToggleSuperuser(u) PROVE ProofInv'
  BY <1>5 DEF ToggleSuperuser
<1>6. ASSUME NEW v \in Users, LogIn(v) PROVE ProofInv'
  BY <1>6 DEF LogIn, Activate
<1>7. ASSUME NEW v \in Users, SwitchTo(v) PROVE ProofInv'
  BY <1>7 DEF SwitchTo, Activate
<1>8. ASSUME NEW v \in Users, LogOut(v) PROVE ProofInv'
  BY <1>8 DEF LogOut, Activate
<1>9. CASE GreeterUp
  BY <1>9 DEF GreeterUp, Activate
<1>10. ASSUME NEW c \in Conns, NEW u \in Users, NEW s \in Scenarios, NEW t \in Tokens \cup {None}, Connect(c, u, s, t) PROVE ProofInv'
  <2>1. adm'[c] => t # None /\ table[t].admin /\ table[t].uid = u /\ tok'[c] = t /\ uid'[c] = u
    BY <1>10 DEF Connect, Valid
  <2>2. adm'[c] => tok'[c] # None /\ <<uid'[c], tok'[c]>> \in read'
    <3>1. read' = read
      BY <1>10 DEF Connect
    <3> QED
      BY <2>1, <3>1
  <2>3. pc'[c] \in {"admin", "refused"} /\ read' = read
    BY <1>10 DEF Connect
  <2>4. \A x \in Tokens : table'[x].admin => table'[x] = table[x]
    BY <1>10 DEF Connect
  <2>5. \A x \in Conns : x # c =>
          adm'[x] = adm[x] /\ tok'[x] = tok[x] /\ uid'[x] = uid[x] /\ scn'[x] = scn[x] /\ pc'[x] = pc[x]
    BY <1>10 DEF Connect
  <2>6. \A x \in Tokens : table'[x].admin => <<table'[x].uid, x>> \in read'
    BY <2>3, <2>4
  <2>7. \A x \in Conns : adm'[x] => tok'[x] # None /\ <<uid'[x], tok'[x]>> \in read'
    BY <2>2, <2>3, <2>5
  <2>8. AdminIsProven'
    BY <2>3, <2>5
  <2> QED
    BY <2>6, <2>7, <2>8
<1>11. ASSUME NEW c \in Conns, AdminGate(c) PROVE ProofInv'
  BY <1>11 DEF AdminGate, AfterAdmin
<1>12. ASSUME NEW c \in Conns, ListSessions(c) PROVE ProofInv'
  BY <1>12 DEF ListSessions
<1>13. ASSUME NEW c \in Conns, NEW v \in Users, ShowSession(c, v) PROVE ProofInv'
  BY <1>13 DEF ShowSession
<1>14. ASSUME NEW c \in Conns, Undetermined(c) PROVE ProofInv'
  BY <1>14 DEF Undetermined
<1>15. ASSUME NEW c \in Conns, ShadowGate(c) PROVE ProofInv'
  BY <1>15 DEF ShadowGate, ShadowRequired
<1>19. ASSUME NEW c \in Conns, NEW asked \in Asked, Dial(c, asked) PROVE ProofInv'
  BY <1>19 DEF Dial
<1>16. ASSUME NEW c \in Conns, EndConnection(c) PROVE ProofInv'
  BY <1>16 DEF EndConnection
<1>17. CASE RelayRestarts
  BY <1>17 DEF RelayRestarts
<1>18. CASE UNCHANGED vars
  BY <1>18 DEF vars
<1> HIDE DEF TypeOK, Issued, NoEntry, ProofInv, AdminIsProven, Passed, AdminRequired, Goto, tokenVars, seatVars, connVars
<1> QED
  BY <1>1, <1>2, <1>3, <1>4, <1>5, <1>6, <1>7, <1>8, <1>9, <1>10, <1>11, <1>12, <1>13, <1>14, <1>15, <1>16, <1>17, <1>18, <1>19
     DEF Next, TokenStep, SeatStep, ConnStep

(* Whatever happens to tokens while a connection is on its way, one that   *)
(* is past the admin gate was let in on proven administrator mode, or      *)
(* carried no token and is in the admin group.                             *)
THEOREM AdminIsProvenHolds == Spec => []AdminIsProven
<1>1. Init => ProofInv
  BY DEF Init, ProofInv, AdminIsProven, Passed, NoEntry
<1>2. Spec => [](TypeOK /\ ProofInv)
  BY TypeInit, TypeStep, TypedTypeOK, <1>1, ProofStep, PTL DEF Spec
<1>3. ProofInv => AdminIsProven
  BY DEF ProofInv
<1> QED
  BY <1>2, <1>3, PTL

LEMMA OwnStep == TypeOK /\ TokenIsOwn /\ [Next]_vars => TokenIsOwn'
<1> SUFFICES ASSUME TypeOK, TokenIsOwn, [Next]_vars PROVE TokenIsOwn'
  OBVIOUS
<1> USE DEF TypeOK, Issued, NoEntry, TokenIsOwn, Goto, tokenVars, seatVars, connVars
<1>1. ASSUME NEW u \in Users, NEW t \in Tokens, NEW w \in BOOLEAN, Register(u, t, w) PROVE TokenIsOwn'
  BY <1>1, NoneIsNobody DEF Register
<1>2. ASSUME NEW u \in Users, NEW t \in Tokens, ReadChallenge(u, t) PROVE TokenIsOwn'
  BY <1>2 DEF ReadChallenge
<1>3. ASSUME NEW u \in Users, NEW t \in Tokens, Elevate(u, t) PROVE TokenIsOwn'
  BY <1>3 DEF Elevate
<1>4. ASSUME NEW t \in Tokens, Expire(t) PROVE TokenIsOwn'
  BY <1>4 DEF Expire
<1>5. ASSUME NEW u \in Users, ToggleSuperuser(u) PROVE TokenIsOwn'
  BY <1>5 DEF ToggleSuperuser
<1>6. ASSUME NEW v \in Users, LogIn(v) PROVE TokenIsOwn'
  BY <1>6 DEF LogIn, Activate
<1>7. ASSUME NEW v \in Users, SwitchTo(v) PROVE TokenIsOwn'
  BY <1>7 DEF SwitchTo, Activate
<1>8. ASSUME NEW v \in Users, LogOut(v) PROVE TokenIsOwn'
  BY <1>8 DEF LogOut, Activate
<1>9. CASE GreeterUp
  BY <1>9 DEF GreeterUp, Activate
<1>10. ASSUME NEW c \in Conns, NEW u \in Users, NEW s \in Scenarios, NEW t \in Tokens \cup {None}, Connect(c, u, s, t) PROVE TokenIsOwn'
  BY <1>10, NoneIsNobody DEF Connect, Valid
<1>11. ASSUME NEW c \in Conns, AdminGate(c) PROVE TokenIsOwn'
  BY <1>11 DEF AdminGate, AfterAdmin
<1>12. ASSUME NEW c \in Conns, ListSessions(c) PROVE TokenIsOwn'
  BY <1>12 DEF ListSessions
<1>13. ASSUME NEW c \in Conns, NEW v \in Users, ShowSession(c, v) PROVE TokenIsOwn'
  BY <1>13 DEF ShowSession
<1>14. ASSUME NEW c \in Conns, Undetermined(c) PROVE TokenIsOwn'
  BY <1>14 DEF Undetermined
<1>15. ASSUME NEW c \in Conns, ShadowGate(c) PROVE TokenIsOwn'
  BY <1>15 DEF ShadowGate, ShadowRequired
<1>19. ASSUME NEW c \in Conns, NEW asked \in Asked, Dial(c, asked) PROVE TokenIsOwn'
  BY <1>19 DEF Dial
<1>16. ASSUME NEW c \in Conns, EndConnection(c) PROVE TokenIsOwn'
  BY <1>16 DEF EndConnection
<1>17. CASE RelayRestarts
  BY <1>17 DEF RelayRestarts
<1>18. CASE UNCHANGED vars
  BY <1>18 DEF vars
<1> HIDE DEF TypeOK, Issued, NoEntry, TokenIsOwn, Goto, tokenVars, seatVars, connVars
<1> QED
  BY <1>1, <1>2, <1>3, <1>4, <1>5, <1>6, <1>7, <1>8, <1>9, <1>10, <1>11, <1>12, <1>13, <1>14, <1>15, <1>16, <1>17, <1>18, <1>19
     DEF Next, TokenStep, SeatStep, ConnStep

(* No connection ever carries another user's token.                        *)
THEOREM TokenIsOwnHolds == Spec => []TokenIsOwn
<1>1. Init => TokenIsOwn
  BY DEF Init, TokenIsOwn
<1> QED
  BY TypeInit, TypeStep, TypedTypeOK, <1>1, OwnStep, PTL DEF Spec

----------------------------------------------------------------------------
(* The seat.                                                               *)

(* A user who stays active is present when the sessions are listed, and is *)
(* from then on still to be shown, or found, or the answer is None.        *)
SeatInv ==
  /\ \A c \in Conns : through[c] \in {None, active}
  /\ \A c \in Conns : through[c] # None /\ pc[c] = "show" =>
       through[c] \in todo[c] \cup found[c] \/ found[c] = {None}
  /\ \A c \in Conns : pc[c] # "idle" => uid[c] \in Users
  /\ SeatedUserGuarded

LEMMA SeatProgress == TypeOK /\ SeatInv /\ [Next]_vars => SeatInv'
<1> SUFFICES ASSUME TypeOK, SeatInv, [Next]_vars PROVE SeatInv'
  OBVIOUS
<1> USE DEF TypeOK, SeatInv, SeatedUserGuarded, Goto, tokenVars, seatVars, connVars
<1>1. ASSUME NEW u \in Users, NEW t \in Tokens, NEW w \in BOOLEAN, Register(u, t, w) PROVE SeatInv'
  BY <1>1 DEF Register
<1>2. ASSUME NEW u \in Users, NEW t \in Tokens, ReadChallenge(u, t) PROVE SeatInv'
  BY <1>2 DEF ReadChallenge
<1>3. ASSUME NEW u \in Users, NEW t \in Tokens, Elevate(u, t) PROVE SeatInv'
  BY <1>3 DEF Elevate
<1>4. ASSUME NEW t \in Tokens, Expire(t) PROVE SeatInv'
  BY <1>4 DEF Expire
<1>5. ASSUME NEW u \in Users, ToggleSuperuser(u) PROVE SeatInv'
  BY <1>5 DEF ToggleSuperuser
<1>6. ASSUME NEW v \in Users, LogIn(v) PROVE SeatInv'
  BY <1>6 DEF LogIn, Activate
<1>7. ASSUME NEW v \in Users, SwitchTo(v) PROVE SeatInv'
  BY <1>7 DEF SwitchTo, Activate
<1>8. ASSUME NEW v \in Users, LogOut(v) PROVE SeatInv'
  BY <1>8 DEF LogOut, Activate
<1>9. CASE GreeterUp
  BY <1>9 DEF GreeterUp, Activate
<1>10. ASSUME NEW c \in Conns, NEW u \in Users, NEW s \in Scenarios, NEW t \in Tokens \cup {None}, Connect(c, u, s, t) PROVE SeatInv'
  BY <1>10, NoneIsNobody DEF Connect, Valid
<1>11. ASSUME NEW c \in Conns, AdminGate(c) PROVE SeatInv'
  BY <1>11 DEF AdminGate, AfterAdmin
<1>12. ASSUME NEW c \in Conns, ListSessions(c) PROVE SeatInv'
  BY <1>12, NoneIsNobody DEF ListSessions
<1>13. ASSUME NEW c \in Conns, NEW v \in Users, ShowSession(c, v) PROVE SeatInv'
  BY <1>13, NoneIsNobody DEF ShowSession
<1>14. ASSUME NEW c \in Conns, Undetermined(c) PROVE SeatInv'
  BY <1>14, NoneIsNobody DEF Undetermined
<1>15. ASSUME NEW c \in Conns, ShadowGate(c) PROVE SeatInv'
  BY <1>15, NoneIsNobody DEF ShadowGate, ShadowRequired
<1>19. ASSUME NEW c \in Conns, NEW asked \in Asked, Dial(c, asked) PROVE SeatInv'
  BY <1>19 DEF Dial
<1>16. ASSUME NEW c \in Conns, EndConnection(c) PROVE SeatInv'
  BY <1>16, NoneIsNobody DEF EndConnection
<1>17. CASE RelayRestarts
  BY <1>17 DEF RelayRestarts
<1>18. CASE UNCHANGED vars
  BY <1>18 DEF vars
<1> HIDE DEF TypeOK, SeatInv, SeatedUserGuarded, Goto, tokenVars, seatVars, connVars
<1> QED
  BY <1>1, <1>2, <1>3, <1>4, <1>5, <1>6, <1>7, <1>8, <1>9, <1>10, <1>11, <1>12, <1>13, <1>14, <1>15, <1>16, <1>17, <1>18, <1>19
     DEF Next, TokenStep, SeatStep, ConnStep

(* For any number of users, sessions and switches at the seat, the one who *)
(* has been there throughout is never mirrored to somebody outside the     *)
(* shadow group.                                                           *)
THEOREM SeatedUserGuardedHolds == Spec => []SeatedUserGuarded
<1>1. Init => SeatInv
  BY DEF Init, SeatInv, SeatedUserGuarded
<1>2. Spec => [](TypeOK /\ SeatInv)
  BY TypeInit, TypeStep, TypedTypeOK, <1>1, SeatProgress, PTL DEF Spec
<1>3. SeatInv => SeatedUserGuarded
  BY DEF SeatInv
<1> QED
  BY <1>2, <1>3, PTL
----------------------------------------------------------------------------
(* Where connections go.                                                   *)

(* What one target of a scenario may be. *)
Abroad(s, d) ==
  d.host # Loopback =>
    /\ s \in {"remote", "vnc"} /\ d.cred # "managed"
    /\ \E e \in AllowSpec : /\ e.readable /\ d.host \in e.net
                           /\ \/ d.port \in e.ports
                              \/ e.ports = {} /\ d.port = RemoteDefaultPort

(* The targets of every scenario are local or listed. *)
LEMMA TargetsListed ==
  ASSUME NEW s, NEW asked \in Asked, NEW d \in Targets(s, asked)
  PROVE  Abroad(s, d)
<1>1. CASE s \in {"remote", "vnc"}
  <2>1. d \in RemoteTarget(asked)
    BY <1>1 DEF Targets
  <2>2. asked # None /\ TargetAllowed(asked.host, asked.port)
    BY <2>1 DEF RemoteTarget
  <2>3. d = [host |-> asked.host, port |-> asked.port, cred |-> "client"]
    BY <2>1, <2>2 DEF RemoteTarget
  <2>4. PICK a \in RemoteAllow : asked.host \in a.net /\ asked.port \in a.ports
    BY <2>2 DEF TargetAllowed
  <2>5. PICK e \in AllowSpec : /\ e.readable
                              /\ a = [net   |-> e.net,
                                      ports |-> IF e.ports = {} THEN {RemoteDefaultPort} ELSE e.ports]
    BY <2>4 DEF RemoteAllow
  <2>6. d.host = asked.host /\ d.port = asked.port /\ d.cred = "client"
    BY <2>3
  <2>7. d.host \in e.net
    BY <2>4, <2>5, <2>6
  <2>8. d.port \in e.ports \/ (e.ports = {} /\ d.port = RemoteDefaultPort)
    BY <2>4, <2>5, <2>6
  <2> QED
    BY <1>1, <2>5, <2>6, <2>7, <2>8 DEF Abroad
<1>2. CASE s \notin {"remote", "vnc"}
  BY <1>2 DEF Targets, Local, Abroad
<1> QED
  BY <1>1, <1>2

(* A connection past the admin gate keeps what got it there until it ends, *)
(* and only one that dials has a target.                                   *)
DialInv ==
  /\ \A c \in Conns : pc[c] \in Passed /\ AdminRequired(scn[c]) =>
       adm[c] \/ (tok[c] = None /\ uid[c] \in AdminGroup)
  /\ \A c \in Conns : dials[c] # None => pc[c] = "dialing" /\ Abroad(scn[c], dials[c])

LEMMA DialStep == TypeOK /\ DialInv /\ [Next]_vars => DialInv'
<1> SUFFICES ASSUME TypeOK, DialInv, [Next]_vars PROVE DialInv'
  OBVIOUS
<1> USE DEF TypeOK, DialInv, Passed, AdminRequired, Goto, tokenVars, seatVars, connVars
<1>1. ASSUME NEW u \in Users, NEW t \in Tokens, NEW w \in BOOLEAN, Register(u, t, w) PROVE DialInv'
  BY <1>1 DEF Register
<1>2. ASSUME NEW u \in Users, NEW t \in Tokens, ReadChallenge(u, t) PROVE DialInv'
  BY <1>2 DEF ReadChallenge
<1>3. ASSUME NEW u \in Users, NEW t \in Tokens, Elevate(u, t) PROVE DialInv'
  BY <1>3 DEF Elevate
<1>4. ASSUME NEW t \in Tokens, Expire(t) PROVE DialInv'
  BY <1>4 DEF Expire
<1>5. ASSUME NEW u \in Users, ToggleSuperuser(u) PROVE DialInv'
  BY <1>5 DEF ToggleSuperuser
<1>6. ASSUME NEW v \in Users, LogIn(v) PROVE DialInv'
  BY <1>6 DEF LogIn, Activate
<1>7. ASSUME NEW v \in Users, SwitchTo(v) PROVE DialInv'
  BY <1>7 DEF SwitchTo, Activate
<1>8. ASSUME NEW v \in Users, LogOut(v) PROVE DialInv'
  BY <1>8 DEF LogOut, Activate
<1>9. CASE GreeterUp
  BY <1>9 DEF GreeterUp, Activate
<1>10. ASSUME NEW c \in Conns, NEW u \in Users, NEW s \in Scenarios, NEW t \in Tokens \cup {None}, Connect(c, u, s, t) PROVE DialInv'
  BY <1>10 DEF Connect
<1>11. ASSUME NEW c \in Conns, AdminGate(c) PROVE DialInv'
  BY <1>11 DEF AdminGate, AfterAdmin
<1>12. ASSUME NEW c \in Conns, ListSessions(c) PROVE DialInv'
  BY <1>12 DEF ListSessions
<1>13. ASSUME NEW c \in Conns, NEW v \in Users, ShowSession(c, v) PROVE DialInv'
  BY <1>13 DEF ShowSession
<1>14. ASSUME NEW c \in Conns, Undetermined(c) PROVE DialInv'
  BY <1>14 DEF Undetermined
<1>15. ASSUME NEW c \in Conns, ShadowGate(c) PROVE DialInv'
  BY <1>15 DEF ShadowGate, ShadowRequired
<1>16. ASSUME NEW c \in Conns, NEW asked \in Asked, Dial(c, asked) PROVE DialInv'
  <2>1. CASE Targets(scn[c], asked) = {}
    BY <1>16, <2>1 DEF Dial
  <2>2. CASE Targets(scn[c], asked) # {}
    <3>1. PICK d \in Targets(scn[c], asked) : dials' = [dials EXCEPT ![c] = d]
      BY <1>16, <2>2 DEF Dial
    <3>2. Abroad(scn[c], d)
      BY <3>1, TargetsListed
    <3>3. pc[c] = "open" /\ pc' = [pc EXCEPT ![c] = "dialing"] /\ scn' = scn /\ adm' = adm /\ tok' = tok /\ uid' = uid
      BY <1>16, <2>2 DEF Dial
    <3> QED
      BY <3>1, <3>2, <3>3
  <2> QED
    BY <2>1, <2>2
<1>17. ASSUME NEW c \in Conns, EndConnection(c) PROVE DialInv'
  BY <1>17 DEF EndConnection
<1>18. CASE RelayRestarts
  BY <1>18 DEF RelayRestarts
<1>19. CASE UNCHANGED vars
  BY <1>19 DEF vars
<1> HIDE DEF TypeOK, DialInv, Passed, AdminRequired, Goto, tokenVars, seatVars, connVars
<1> QED
  BY <1>1, <1>2, <1>3, <1>4, <1>5, <1>6, <1>7, <1>8, <1>9, <1>10, <1>11, <1>12, <1>13, <1>14, <1>15, <1>16, <1>17, <1>18, <1>19
     DEF Next, TokenStep, SeatStep, ConnStep

(* For any allow-list and whatever browsers ask for, no connection dials   *)
(* another host unless one readable entry names the host and the port, and *)
(* none takes a managed credential there.                                  *)
THEOREM NothingLeavesTheHostHolds == Spec => []NothingLeavesTheHost
<1>1. Init => DialInv
  BY DEF Init, DialInv, Passed
<1>2. Spec => []DialInv
  BY TypeInit, TypeStep, TypedTypeOK, <1>1, DialStep, PTL DEF Spec
<1>3. DialInv => NothingLeavesTheHost
  BY DEF DialInv, NothingLeavesTheHost, Abroad, Passed, AdminRequired
<1> QED
  BY <1>2, <1>3, PTL
=============================================================================
