---------------------- MODULE HeadlessDesktop_proofs ----------------------
(***************************************************************************)
(* Proofs about HeadlessDesktop, for any number of connection threads: the *)
(* published endpoint is the desktop's, a bridge is on the desktop it was  *)
(* meant for, and the reaper stops nobody it could have known of.          *)
(***************************************************************************)
EXTENDS HeadlessDesktop, FunctionTheorems, FiniteSetTheorems, TLAPS

LEMMA OneMore ==
  ASSUME NEW S, IsFiniteSet(S), NEW x
  PROVE  IsFiniteSet(S \cup {x}) /\ Cardinality(S \cup {x}) <= Cardinality(S) + 1
<1>1. Cardinality(S) \in Nat
  BY FS_CardinalityType
<1>2. /\ IsFiniteSet(S \cup {x})
      /\ Cardinality(S \cup {x}) = IF x \in S THEN Cardinality(S) ELSE Cardinality(S) + 1
  BY FS_AddElement
<1> QED
  BY <1>1, <1>2

(* A draw never runs dry: the values of the host -- the server's, the      *)
(* stored and the published one -- and one per thread cannot exhaust the   *)
(* supply.                                                                 *)
LEMMA Supply ==
  ASSUME NEW S, IsFiniteSet(S), Cardinality(S) > Cardinality(Conns) + 2,
         NEW a, NEW b,
         NEW D \in SUBSET Conns, NEW T, NEW g \in Surjection(D, T)
  PROVE  S \ ({a} \cup {b} \cup T) # {}
<1>1. IsFiniteSet(D) /\ Cardinality(D) <= Cardinality(Conns)
  BY EnoughToDraw, FS_Subset
<1>2. IsFiniteSet(T) /\ Cardinality(T) <= Cardinality(D)
  BY <1>1, FS_Surjection
<1> DEFINE U == T \cup {b}
<1>3. IsFiniteSet(U) /\ Cardinality(U) <= Cardinality(T) + 1
  BY <1>2, OneMore
<1>4. IsFiniteSet(U \cup {a}) /\ Cardinality(U \cup {a}) <= Cardinality(U) + 1
  <2> HIDE DEF U
  <2> QED
    BY <1>3, OneMore
<1>5. SUFFICES ASSUME S \subseteq U \cup {a} PROVE FALSE
  OBVIOUS
<1>6. Cardinality(S) <= Cardinality(U \cup {a})
  BY <1>4, <1>5, FS_Subset
<1>7. /\ Cardinality(S) \in Nat /\ Cardinality(Conns) \in Nat /\ Cardinality(D) \in Nat
      /\ Cardinality(T) \in Nat /\ Cardinality(U) \in Nat /\ Cardinality(U \cup {a}) \in Nat
  BY <1>1, <1>2, <1>3, <1>4, EnoughToDraw, FS_CardinalityType
<1> HIDE DEF U
<1> QED
  BY <1>1, <1>2, <1>3, <1>4, <1>6, <1>7

(* A smaller supply is as good: one value of it is taken.                  *)
LEMMA OneLess ==
  ASSUME NEW S, IsFiniteSet(S), NEW x
  PROVE  IsFiniteSet(S \ {x}) /\ Cardinality(S \ {x}) >= Cardinality(S) - 1
<1>1. Cardinality(S) \in Nat
  BY FS_CardinalityType
<1>2. /\ IsFiniteSet(S \ {x})
      /\ Cardinality(S \ {x}) = IF x \in S THEN Cardinality(S) - 1 ELSE Cardinality(S)
  BY FS_RemoveElement
<1> QED
  BY <1>1, <1>2

(* So each start draws a credential and an id that nobody has.             *)
LEMMA DrawCred == Unused(Creds, UsedCreds) \in Creds \ UsedCreds
<1> DEFINE D == {x \in Conns : seen[x] # None}
           T == {seen[c].cred : c \in D}
           g == [c \in D |-> seen[c].cred]
           b == IF env = None THEN None ELSE env.cred
           S == Creds \ {stored}
<1>1. D \in SUBSET Conns /\ g \in Surjection(D, T)
  BY DEF Surjection
<1>2. IsFiniteSet(S) /\ Cardinality(S) >= Cardinality(Creds) - 1
  BY OneLess, EnoughToDraw
<1>3. /\ Cardinality(S) \in Nat /\ Cardinality(Creds) \in Nat /\ Cardinality(Conns) \in Nat
  <2> HIDE DEF S
  <2> QED
    BY <1>2, EnoughToDraw, FS_CardinalityType
<1>4. Cardinality(S) > Cardinality(Conns) + 2
  BY <1>2, <1>3, EnoughToDraw
<1>5. S \ ({grd} \cup {b} \cup T) # {}
  <2> HIDE DEF D, T, g, b, S
  <2> QED
    BY <1>1, <1>2, <1>4, Supply
<1> QED
  BY <1>5 DEF Unused, UsedCreds

LEMMA DrawId == Unused(Ids, UsedIds) \in Ids \ UsedIds
<1> DEFINE D == {x \in Conns : seen[x] # None}
           T == {seen[c].id : c \in D}
           g == [c \in D |-> seen[c].id]
           b == IF env = None THEN None ELSE env.id
<1>1. D \in SUBSET Conns /\ g \in Surjection(D, T)
  BY DEF Surjection
<1>2. Ids \ ({idFile} \cup {b} \cup T) # {}
  <2> HIDE DEF D, T, g, b
  <2> QED
    BY <1>1, EnoughToDraw, Supply
<1> QED
  BY <1>2 DEF Unused, UsedIds

----------------------------------------------------------------------------
(* The scripts run only while systemd says the unit is changing, and the   *)
(* start script has minted a credential by the time it publishes one.      *)
Scripted ==
  /\ unit = "activating" <=> step \in {"seat", "grd", "restart", "publish", "port"}
  /\ unit = "deactivating" <=> step \in {"stopgrd", "stopshell", "rmfiles"}
  /\ step \in {"restart", "publish"} => cred # None

Typed == TypeOK /\ Scripted

LEMMA TypeInit == Init => Typed
<1>1. Creds # {}
  BY EnoughToDraw, FS_EmptySet, FS_CardinalityType
<1>2. Init => stored \in Creds
  BY <1>1 DEF Init
<1> QED
  BY <1>2 DEF Init, Typed, TypeOK, Scripted, Endpoint, Attached

LEMMA TypeStep == Typed /\ [Next]_vars => Typed'
<1> SUFFICES ASSUME Typed, [Next]_vars PROVE Typed'
  OBVIOUS
<1> USE DEF Typed, Scripted, TypeOK, Endpoint, Attached, Goto, ReaperGoto, scriptVars, hostVars, connVars
<1>1. CASE StartJob
  BY <1>1 DEF StartJob
<1>2. CASE StartGivesUp
  BY <1>2 DEF StartGivesUp, StartFailed
<1>3. CASE RefuseSeated
  BY <1>3 DEF RefuseSeated, StartFailed
<1>4. CASE EnsureShell
  BY <1>4 DEF EnsureShell
<1>5. CASE SetCredential
  <2>1. cred' \in Creds
    BY <1>5, DrawCred DEF SetCredential
  <2> QED
    BY <1>5, <2>1, NoneIsNothing DEF SetCredential
<1>6. CASE RestartGrd
  BY <1>6 DEF RestartGrd, Dropped
<1>7. CASE Publish
  <2>1. idFile' \in Ids
    BY <1>7, DrawId DEF Publish
  <2> QED
    BY <1>7, <2>1 DEF Publish
<1>8. CASE PortListens
  BY <1>8 DEF PortListens
<1>9. CASE StopGrd
  BY <1>9 DEF StopGrd, Dropped
<1>10. CASE StopShell
  BY <1>10 DEF StopShell, Dropped
<1>11. CASE RemoveFiles
  BY <1>11 DEF RemoveFiles
<1>12. CASE ShellDies
  BY <1>12 DEF ShellDies, Dropped
<1>13. CASE RelayRestarts
  BY <1>13 DEF RelayRestarts
<1>14. CASE ReaperLists
  BY <1>14 DEF ReaperLists
<1>15. CASE ListUnavailable
  BY <1>15 DEF ListUnavailable
<1>16. CASE ReaperFindsUnit
  BY <1>16 DEF ReaperFindsUnit
<1>17. CASE PortBusy
  BY <1>17 DEF PortBusy
<1>18. CASE PortIdle
  BY <1>18 DEF PortIdle
<1>19. CASE ReaperStops
  BY <1>19 DEF ReaperStops
<1>20. ASSUME NEW aged \in SUBSET Conns, ReaperPrunes(aged) PROVE Typed'
  BY <1>20 DEF ReaperPrunes
<1>21. ASSUME NEW c \in Conns, RequestStart(c) PROVE Typed'
  BY <1>21 DEF RequestStart
<1>22. ASSUME NEW c \in Conns, Started(c) PROVE Typed'
  BY <1>22 DEF Started
<1>23. ASSUME NEW c \in Conns, StartTimesOut(c) PROVE Typed'
  BY <1>23 DEF StartTimesOut
<1>24. ASSUME NEW c \in Conns, ReadEnv(c) PROVE Typed'
  BY <1>24 DEF ReadEnv
<1>25. ASSUME NEW c \in Conns, BridgeUp(c) PROVE Typed'
  BY <1>25 DEF BridgeUp, SinceList, Accepted
<1>26. ASSUME NEW c \in Conns, BridgeFails(c) PROVE Typed'
  BY <1>26 DEF BridgeFails
<1>27. ASSUME NEW c \in Conns, Register(c) PROVE Typed'
  BY <1>27 DEF Register, SinceList
<1>28. ASSUME NEW c \in Conns, ClientLeaves(c) PROVE Typed'
  BY <1>28 DEF ClientLeaves, EndThread
<1>29. ASSUME NEW c \in Conns, BridgeLost(c) PROVE Typed'
  BY <1>29 DEF BridgeLost, EndThread
<1>30. CASE UNCHANGED vars
  BY <1>30 DEF vars
<1> HIDE DEF Typed, Scripted, TypeOK, Endpoint, Attached, Goto, ReaperGoto, scriptVars, hostVars, connVars
<1> QED
  BY <1>1, <1>2, <1>3, <1>4, <1>5, <1>6, <1>7, <1>8, <1>9, <1>10, <1>11, <1>12, <1>13, <1>14, <1>15, <1>16, <1>17, <1>18, <1>19, <1>20, <1>21, <1>22, <1>23, <1>24, <1>25, <1>26, <1>27, <1>28, <1>29, <1>30
     DEF Next, UnitStep, ThreadStep, ReaperStep

(* Every variable keeps its type: no start runs out of credentials or ids, *)
(* and none publishes an endpoint without a credential.                    *)
THEOREM TypesHold == Spec => []TypeOK
<1>1. Typed => TypeOK
  BY DEF Typed
<1> QED
  BY TypeInit, TypeStep, <1>1, PTL DEF Spec

----------------------------------------------------------------------------
(* The credential that a start has minted is known to no thread until it   *)
(* is published.  Two endpoints with one credential name one desktop, and  *)
(* whoever has a bridge up knows the server's credential; that need not be *)
(* the published one if a call has failed unseen.                          *)
EndpointInv ==
  /\ step \in {"restart", "publish"} => /\ env # None => env.cred # cred
                                        /\ \A c \in Conns : seen[c] # None => seen[c].cred # cred
  /\ step = "restart" => silent \/ stored = cred
  /\ step = "publish" => silent \/ grd = cred
  /\ step = "port" \/ unit = "active" => env # None /\ env.id = idFile /\ (silent \/ env.cred = grd)
  /\ step \in {"grd", "restart", "publish", "port"} \/ unit = "active" => ~err
  /\ \A c \in Conns : env # None /\ seen[c] # None /\ seen[c].cred = env.cred => seen[c].id = env.id
  /\ \A c \in Conns : pc[c] \in Attached => seen[c] # None /\ seen[c].cred = grd /\ shell
  /\ \A c \in Conns : pc[c] = "dialing" => seen[c] # None

LEMMA EndpointStep == Typed /\ EndpointInv /\ [Next]_vars => EndpointInv'
<1> SUFFICES ASSUME Typed, EndpointInv, [Next]_vars PROVE EndpointInv'
  OBVIOUS
<1> USE NoneIsNothing
<1> USE DEF Typed, Scripted, TypeOK, Endpoint, Attached, EndpointInv, Goto, ReaperGoto, scriptVars, hostVars, connVars
<1>1. CASE StartJob
  BY <1>1 DEF StartJob
<1>2. CASE StartGivesUp
  BY <1>2 DEF StartGivesUp, StartFailed
<1>3. CASE RefuseSeated
  BY <1>3 DEF RefuseSeated, StartFailed
<1>4. CASE EnsureShell
  BY <1>4 DEF EnsureShell
<1>5. CASE SetCredential
  <2>1. cred' \in Creds /\ cred' \notin UsedCreds
    BY <1>5, DrawCred DEF SetCredential
  <2>2. env # None => env.cred # cred'
    BY <2>1 DEF UsedCreds
  <2>3. \A c \in Conns : seen[c] # None => seen[c].cred # cred'
    BY <2>1 DEF UsedCreds
  <2>4. silent' \/ stored' = cred'
    BY <1>5 DEF SetCredential
  <2> QED
    BY <1>5, <2>2, <2>3, <2>4 DEF SetCredential
<1>6. CASE RestartGrd
  <2>1. \A c \in Conns : pc'[c] \in Attached => pc[c] \in Attached /\ grd' = grd
    BY <1>6 DEF RestartGrd, Dropped
  <2>2. \A c \in Conns : pc'[c] = "dialing" => pc[c] = "dialing"
    BY <1>6 DEF RestartGrd, Dropped
  <2>3. step' = "publish" /\ (silent' \/ (~silent /\ grd' = stored))
    BY <1>6 DEF RestartGrd
  <2>4. UNCHANGED <<unit, cred, shell, stored, idFile, env, err, seen>> /\ step = "restart"
    BY <1>6 DEF RestartGrd
  <2> QED
    BY <2>1, <2>2, <2>3, <2>4
<1>7. CASE Publish
  <2>1. step = "publish" /\ step' = "port" /\ env' = [cred |-> cred, id |-> idFile'] /\ ~err
    BY <1>7 DEF Publish
  <2>2. UNCHANGED <<unit, silent, shell, grd, err, pc, seen>>
    BY <1>7 DEF Publish
  <2>3. idFile' \in Ids
    BY <1>7, DrawId DEF Publish
  <2>4. env' # None /\ env'.id = idFile' /\ env'.cred = cred
    BY <2>1, <2>3
  <2>5. \A c \in Conns : seen'[c] # None => seen'[c].cred # env'.cred
    BY <2>1, <2>2, <2>4
  <2>6. silent \/ cred = grd
    BY <2>1
  <2> QED
    BY <2>1, <2>2, <2>4, <2>5, <2>6
<1>8. CASE PortListens
  BY <1>8 DEF PortListens
<1>9. CASE StopGrd
  BY <1>9 DEF StopGrd, Dropped
<1>10. CASE StopShell
  BY <1>10 DEF StopShell, Dropped
<1>11. CASE RemoveFiles
  BY <1>11 DEF RemoveFiles
<1>12. CASE ShellDies
  BY <1>12 DEF ShellDies, Dropped
<1>13. CASE RelayRestarts
  BY <1>13 DEF RelayRestarts
<1>14. CASE ReaperLists
  BY <1>14 DEF ReaperLists
<1>15. CASE ListUnavailable
  BY <1>15 DEF ListUnavailable
<1>16. CASE ReaperFindsUnit
  BY <1>16 DEF ReaperFindsUnit
<1>17. CASE PortBusy
  BY <1>17 DEF PortBusy
<1>18. CASE PortIdle
  BY <1>18 DEF PortIdle
<1>19. CASE ReaperStops
  BY <1>19 DEF ReaperStops
<1>20. ASSUME NEW aged \in SUBSET Conns, ReaperPrunes(aged) PROVE EndpointInv'
  BY <1>20 DEF ReaperPrunes
<1>21. ASSUME NEW c \in Conns, RequestStart(c) PROVE EndpointInv'
  BY <1>21 DEF RequestStart
<1>22. ASSUME NEW c \in Conns, Started(c) PROVE EndpointInv'
  BY <1>22 DEF Started
<1>23. ASSUME NEW c \in Conns, StartTimesOut(c) PROVE EndpointInv'
  BY <1>23 DEF StartTimesOut
<1>24. ASSUME NEW c \in Conns, ReadEnv(c) PROVE EndpointInv'
  BY <1>24 DEF ReadEnv
<1>25. ASSUME NEW c \in Conns, BridgeUp(c) PROVE EndpointInv'
  BY <1>25 DEF BridgeUp, SinceList, Accepted
<1>26. ASSUME NEW c \in Conns, BridgeFails(c) PROVE EndpointInv'
  BY <1>26 DEF BridgeFails
<1>27. ASSUME NEW c \in Conns, Register(c) PROVE EndpointInv'
  BY <1>27 DEF Register, SinceList
<1>28. ASSUME NEW c \in Conns, ClientLeaves(c) PROVE EndpointInv'
  BY <1>28 DEF ClientLeaves, EndThread
<1>29. ASSUME NEW c \in Conns, BridgeLost(c) PROVE EndpointInv'
  BY <1>29 DEF BridgeLost, EndThread
<1>30. CASE UNCHANGED vars
  BY <1>30 DEF vars
<1> HIDE DEF Typed, Scripted, TypeOK, Endpoint, Attached, EndpointInv, Goto, ReaperGoto, scriptVars, hostVars, connVars
<1> QED
  BY <1>1, <1>2, <1>3, <1>4, <1>5, <1>6, <1>7, <1>8, <1>9, <1>10, <1>11, <1>12, <1>13, <1>14, <1>15, <1>16, <1>17, <1>18, <1>19, <1>20, <1>21, <1>22, <1>23, <1>24, <1>25, <1>26, <1>27, <1>28, <1>29, <1>30
     DEF Next, UnitStep, ThreadStep, ReaperStep

LEMMA EndpointHolds == Spec => [](Typed /\ EndpointInv)
<1>1. Init => EndpointInv
  BY DEF Init, EndpointInv, Attached
<1> QED
  BY TypeInit, TypeStep, <1>1, EndpointStep, PTL DEF Spec

(* Through failed starts, reused shells and stops, an active unit's        *)
(* published endpoint says what the id file says, and it is what the       *)
(* server accepts unless a call of the last start failed unseen.           *)
THEOREM ActiveIsPublishedHolds == Spec => []ActiveIsPublished
<1>1. EndpointInv => ActiveIsPublished
  BY DEF EndpointInv, ActiveIsPublished
<1> QED
  BY <1>1, EndpointHolds, PTL

(* However old the endpoint a thread read, and whatever server survived a  *)
(* stop: while the server takes what is published, a bridge that is up is  *)
(* on the desktop with the id its thread was given.                        *)
THEOREM AttachedToItsDesktopHolds == Spec => []AttachedToItsDesktop
<1>1. EndpointInv => AttachedToItsDesktop
  BY DEF EndpointInv, AttachedToItsDesktop
<1> QED
  BY <1>1, EndpointHolds, PTL

----------------------------------------------------------------------------
(* From its `list` on, whoever has an entry came since, and once the port  *)
(* was idle so did whoever is attached.                                    *)
SparesInv ==
  /\ reaper \in {"units", "port", "stop"} => \A c \in Conns : entry[c] # "none" => c \in late
  /\ reaper = "stop" => \A c \in Conns : pc[c] \in Attached => c \in late

LEMMA SparesStep == Typed /\ SparesInv /\ [Next]_vars => SparesInv'
<1> SUFFICES ASSUME Typed, SparesInv, [Next]_vars PROVE SparesInv'
  OBVIOUS
<1> USE DEF Typed, TypeOK, Attached, SparesInv, Goto, ReaperGoto, scriptVars, hostVars, connVars
<1>1. CASE StartJob
  BY <1>1 DEF StartJob
<1>2. CASE StartGivesUp
  BY <1>2 DEF StartGivesUp, StartFailed
<1>3. CASE RefuseSeated
  BY <1>3 DEF RefuseSeated, StartFailed
<1>4. CASE EnsureShell
  BY <1>4 DEF EnsureShell
<1>5. CASE SetCredential
  BY <1>5 DEF SetCredential
<1>6. CASE RestartGrd
  BY <1>6 DEF RestartGrd, Dropped
<1>7. CASE Publish
  BY <1>7 DEF Publish
<1>8. CASE PortListens
  BY <1>8 DEF PortListens
<1>9. CASE StopGrd
  BY <1>9 DEF StopGrd, Dropped
<1>10. CASE StopShell
  BY <1>10 DEF StopShell, Dropped
<1>11. CASE RemoveFiles
  BY <1>11 DEF RemoveFiles
<1>12. CASE ShellDies
  BY <1>12 DEF ShellDies, Dropped
<1>13. CASE RelayRestarts
  BY <1>13 DEF RelayRestarts
<1>14. CASE ReaperLists
  BY <1>14 DEF ReaperLists
<1>15. CASE ListUnavailable
  BY <1>15 DEF ListUnavailable
<1>16. CASE ReaperFindsUnit
  BY <1>16 DEF ReaperFindsUnit
<1>17. CASE PortBusy
  BY <1>17 DEF PortBusy
<1>18. CASE PortIdle
  BY <1>18 DEF PortIdle
<1>19. CASE ReaperStops
  BY <1>19 DEF ReaperStops
<1>20. ASSUME NEW aged \in SUBSET Conns, ReaperPrunes(aged) PROVE SparesInv'
  BY <1>20 DEF ReaperPrunes
<1>21. ASSUME NEW c \in Conns, RequestStart(c) PROVE SparesInv'
  BY <1>21 DEF RequestStart
<1>22. ASSUME NEW c \in Conns, Started(c) PROVE SparesInv'
  BY <1>22 DEF Started
<1>23. ASSUME NEW c \in Conns, StartTimesOut(c) PROVE SparesInv'
  BY <1>23 DEF StartTimesOut
<1>24. ASSUME NEW c \in Conns, ReadEnv(c) PROVE SparesInv'
  BY <1>24 DEF ReadEnv
<1>25. ASSUME NEW c \in Conns, BridgeUp(c) PROVE SparesInv'
  BY <1>25 DEF BridgeUp, SinceList, Accepted
<1>26. ASSUME NEW c \in Conns, BridgeFails(c) PROVE SparesInv'
  BY <1>26 DEF BridgeFails
<1>27. ASSUME NEW c \in Conns, Register(c) PROVE SparesInv'
  BY <1>27 DEF Register, SinceList
<1>28. ASSUME NEW c \in Conns, ClientLeaves(c) PROVE SparesInv'
  BY <1>28 DEF ClientLeaves, EndThread
<1>29. ASSUME NEW c \in Conns, BridgeLost(c) PROVE SparesInv'
  BY <1>29 DEF BridgeLost, EndThread
<1>30. CASE UNCHANGED vars
  BY <1>30 DEF vars
<1> HIDE DEF Typed, TypeOK, Attached, SparesInv, Goto, ReaperGoto, scriptVars, hostVars, connVars
<1> QED
  BY <1>1, <1>2, <1>3, <1>4, <1>5, <1>6, <1>7, <1>8, <1>9, <1>10, <1>11, <1>12, <1>13, <1>14, <1>15, <1>16, <1>17, <1>18, <1>19, <1>20, <1>21, <1>22, <1>23, <1>24, <1>25, <1>26, <1>27, <1>28, <1>29, <1>30
     DEF Next, UnitStep, ThreadStep, ReaperStep

(* The reaper's look is old by the time it stops the desktop, yet it cuts  *)
(* off only connections that appeared after the look.                      *)
THEOREM ReaperSparesUsersHolds == Spec => []ReaperSparesUsers
<1>1. Init => SparesInv
  BY DEF Init, SparesInv
<1>2. SparesInv => ReaperSparesUsers
  BY DEF SparesInv, ReaperSparesUsers
<1> QED
  BY TypeInit, TypeStep, <1>1, SparesStep, <1>2, PTL DEF Spec
=============================================================================
