------------------------ MODULE RelaySessions_proofs ------------------------
(***************************************************************************)
(* Proofs about RelaySessions: its safety properties hold for any number   *)
(* of connections, of connects on each, of control threads, users and      *)
(* restarts.                                                               *)
(***************************************************************************)
EXTENDS RelaySessions, TLAPS, FiniteSetTheorems

(* How the fields of one thread go together at each place it can be.       *)
Shape(c) ==
  /\ pc[c] = "idle" => uuid[c] = None /\ c \notin told /\ desks[c] = {}
  /\ pc[c] # "idle" => uid[c] \in Uids
  /\ sent[c] <= again + 1
  /\ victim[c] # None => pc[c] = "swapped"
  /\ c \in told => uuid[c] \in Uuids
  /\ pc[c] \in {"opened", "active", "relaying", "mark", "unregister"} => c \in told

Shaped == TypeOK /\ \A c \in Conns : Shape(c)

USE DEF PCs, Claimed, InLoop, Readying, Teardown

LEMMA ShapedInit == Init => Shaped
  BY BoundsAreNat DEF Init, Shaped, TypeOK, Shape, NoJob, Job

(* A connect counts at most MaxAgain further ones. *)
LEMMA SendsCounted ==
  ASSUME Shaped, NEW c \in Conns, Sends(c)
  PROVE  /\ sent' \in [Conns -> 0..(MaxAgain + 1)] /\ again' \in 0..MaxAgain
         /\ \A x \in Conns : sent'[x] <= again' + 1
         /\ sent[c] + 1 \in 1..(MaxAgain + 1)
<1> USE BoundsAreNat DEF Shaped, TypeOK, Shape, Sends
<1>1. CASE sent[c] > 0
  BY <1>1
<1>2. CASE ~(sent[c] > 0)
  BY <1>2
<1> QED
  BY <1>1, <1>2

(* The desktop a thread claims is one of the desktops. *)
LEMMA ClaimsDesktop ==
  ASSUME Shaped, NEW c \in Conns, NEW s \in Offered, Claim(c, s)
  PROVE  DesktopId(s, uid[c], c, sent[c] + 1) \in Desktops
<1>1. uid[c] \in Uids /\ s \in Offered \cap Bridged
  BY DEF Shaped, Shape, Claim, Sends
<1>2. sent[c] + 1 \in 1..(MaxAgain + 1)
  BY SendsCounted DEF Claim
<1> QED
  BY <1>1, <1>2 DEF Desktops

LEMMA ShapedStep == Shaped /\ [Next]_vars => Shaped'
<1> SUFFICES ASSUME Shaped, [Next]_vars PROVE Shaped'
  OBVIOUS
<1> USE DEF Shaped, TypeOK, Shape, Goto, connVars, deskVars, poolVars, bridgeVars, tableVars
<1>1. ASSUME NEW c \in Conns, TerminateOld(c) PROVE Shaped'
  BY <1>1 DEF TerminateOld
<1>2. ASSUME NEW c \in Conns, Acquire(c) PROVE Shaped'
  BY <1>2, BoundsAreNat DEF Acquire, Out
<1>3. ASSUME NEW c \in Conns, LaunchBridge(c) PROVE Shaped'
  BY <1>3 DEF LaunchBridge
<1>4. ASSUME NEW c \in Conns, BridgeFailed(c) PROVE Shaped'
  BY <1>4 DEF BridgeFailed, Out
<1>5. ASSUME NEW c \in Conns, BridgeReady(c) PROVE Shaped'
  BY <1>5 DEF BridgeReady, Out
<1>6. ASSUME NEW c \in Conns, MarkActive(c) PROVE Shaped'
  BY <1>6 DEF MarkActive, Mark, Entry, Absent
<1>7. ASSUME NEW c \in Conns, RegisterLive(c) PROVE Shaped'
  BY <1>7 DEF RegisterLive
<1>8. ASSUME NEW c \in Conns, NoticeTerminated(c) PROVE Shaped'
  BY <1>8 DEF NoticeTerminated, LeaveLoop, Out
<1>9. ASSUME NEW c \in Conns, MarkDisconnected(c) PROVE Shaped'
  BY <1>9 DEF MarkDisconnected, Mark, Entry, Absent
<1>10. ASSUME NEW c \in Conns, Unregister(c) PROVE Shaped'
  BY <1>10 DEF Unregister
<1>11. ASSUME NEW c \in Conns, StopBridge(c) PROVE Shaped'
  BY <1>11 DEF StopBridge
<1>12. ASSUME NEW c \in Conns, ReleaseSlot(c) PROVE Shaped'
  BY <1>12 DEF ReleaseSlot
<1>13. ASSUME NEW c \in Conns, ReleaseCount(c) PROVE Shaped'
  BY <1>13, BoundsAreNat DEF ReleaseCount, Finish
<1>14. ASSUME NEW c \in Conns, Refused(c) PROVE Shaped'
  BY <1>14 DEF Refused, Out
<1>15. ASSUME NEW c \in Conns, Hangup(c) PROVE Shaped'
  BY <1>15 DEF Hangup, LeaveLoop, Out
<1>16. ASSUME NEW c \in Conns, NEW u \in Uids, SelectNew(c, u) PROVE Shaped'
  BY <1>16 DEF SelectNew
<1>17. ASSUME NEW c \in Conns, NEW u \in Uids, NEW i \in Uuids, Join(c, u, i) PROVE Shaped'
  BY <1>17 DEF Join, MayJoin
<1>18. ASSUME NEW c \in Conns, NEW i \in Uuids, Ready(c, i) PROVE Shaped'
  BY <1>18 DEF Ready, Entry
<1>19. ASSUME NEW c \in Conns, NEW s \in Offered, ConnectDirect(c, s) PROVE Shaped'
  <2>1. /\ sent' \in [Conns -> 0..(MaxAgain + 1)] /\ again' \in 0..MaxAgain
        /\ \A x \in Conns : sent'[x] <= again' + 1
    BY <1>19, SendsCounted DEF ConnectDirect
  <2>2. /\ pc[c] \in InLoop
        /\ pc' = [pc EXCEPT ![c] = IF c \in told THEN "relaying" ELSE "dialed"]
        /\ UNCHANGED <<uid, uuid, told, desk, desks, closed, victim, poolVars, tableVars, ctl, restarts>>
    BY <1>19 DEF ConnectDirect, Sends
  <2>3. TypeOK'
    BY <2>1, <2>2
  <2>4. \A x \in Conns : Shape(x)'
    BY <2>1, <2>2
  <2> QED
    BY <2>3, <2>4
<1>20. ASSUME NEW c \in Conns, NEW s \in Offered, Claim(c, s) PROVE Shaped'
  <2> DEFINE d == DesktopId(s, uid[c], c, sent[c] + 1)
  <2>1. d \in Desktops
    BY <1>20, ClaimsDesktop
  <2>2. /\ sent' \in [Conns -> 0..(MaxAgain + 1)] /\ again' \in 0..MaxAgain
        /\ \A x \in Conns : sent'[x] <= again' + 1
    BY <1>20, SendsCounted DEF Claim
  <2>3. /\ pc[c] \in InLoop /\ pc' = [pc EXCEPT ![c] = "swapped"]
        /\ desk' = [desk EXCEPT ![c] = d] /\ desks' = [desks EXCEPT ![c] = @ \cup {d}]
        /\ slots' = [slots EXCEPT ![d] = c]
        /\ victim' = [victim EXCEPT ![c] = IF slots[d] \in {c, Lost} THEN None ELSE slots[d]]
    BY <1>20 DEF Claim, Sends
  <2>4. UNCHANGED <<uid, uuid, told, closed, bridgeVars, tableVars, ctl, restarts>>
    BY <1>20 DEF Claim
  <2> HIDE DEF d
  <2>5. (IF slots[d] \in {c, Lost} THEN None ELSE slots[d]) \in Conns \cup {None}
    BY <2>1
  <2>6. TypeOK'
    BY <2>1, <2>2, <2>3, <2>4, <2>5
  <2>7. \A x \in Conns : Shape(x)'
    BY <2>2, <2>3, <2>4
  <2> QED
    BY <2>6, <2>7
<1>21. ASSUME NEW k \in Controllers, NEW i \in Uuids, KillOp(k, i) PROVE Shaped'
  BY <1>21 DEF KillOp, LiveTerminate, Job
<1>22. ASSUME NEW k \in Controllers, NEW i \in Uuids, CloseOp(k, i) PROVE Shaped'
  BY <1>22 DEF CloseOp, Job, NoJob
<1>23. ASSUME NEW k \in Controllers, NEW i \in Uuids, ReapOp(k, i) PROVE Shaped'
  BY <1>23 DEF ReapOp, LiveTerminate, Job, NoJob
<1>24. ASSUME NEW k \in Controllers, NEW aged \in SUBSET Uuids, PruneOp(k, aged) PROVE Shaped'
  BY <1>24 DEF PruneOp, Job
<1>25. ASSUME NEW k \in Controllers, NEW p \in Uids, NEW i \in Uuids, TerminateOp(k, p, i) PROVE Shaped'
  BY <1>25 DEF TerminateOp, Job
<1>26. CASE Restart
  BY <1>26, BoundsAreNat DEF Restart, NoJob, Job
<1>27. CASE UNCHANGED vars
  BY <1>27 DEF vars
<1> QED
  BY <1>1, <1>2, <1>3, <1>4, <1>5, <1>6, <1>7, <1>8, <1>9, <1>10, <1>11, <1>12, <1>13, <1>14, <1>15, <1>16, <1>17, <1>18, <1>19, <1>20, <1>21, <1>22, <1>23, <1>24, <1>25, <1>26, <1>27
     DEF Next, ThreadStep, ClientStep, ControlStep

(* Every variable keeps its type: in particular no end of a connection     *)
(* takes a bridge count below zero.                                        *)
THEOREM TypesHold == Spec => []TypeOK
<1>1. Spec => []Shaped
  BY ShapedInit, ShapedStep, PTL DEF Spec
<1>2. Shaped => TypeOK
  BY DEF Shaped
<1> QED
  BY <1>1, <1>2, PTL

----------------------------------------------------------------------------
(* Who has a desktop.                                                      *)

(* The slot part of NoStaleHolder. *)
SlotHolders ==
  \A d \in Desktops : slots[d] \in Conns =>
    /\ d \in desks[slots[d]] /\ pc[slots[d]] # "idle"
    /\ pc[slots[d]] = "uncount" => desk[slots[d]] # d

SlotInv == SlotHolders /\ OneSlotPerDesktop

(* The pair is inductive: a claim puts its own thread in the slot and makes *)
(* the previous holder a victim in the same lock section; a release empties *)
(* the slot only when the holder, already doomed, is the one releasing.    *)
LEMMA SlotStep == Shaped /\ SlotInv /\ [Next]_vars => SlotInv'
<1> SUFFICES ASSUME Shaped, SlotInv, [Next]_vars PROVE SlotInv'
  OBVIOUS
<1> USE DEF Shaped, TypeOK, Shape, SlotInv, SlotHolders, OneSlotPerDesktop, Doomed, Goto, connVars, deskVars, poolVars, bridgeVars, tableVars
<1>1. ASSUME NEW c \in Conns, TerminateOld(c) PROVE SlotInv'
  <2>1. SlotHolders'
    BY <1>1 DEF TerminateOld
  <2>2. ASSUME NEW x \in Conns, ~Doomed(x)' PROVE ~Doomed(x)
    <3>1. /\ closed' = [y \in Conns |-> closed[y] \/ y = victim[c]]
          /\ victim' = [victim EXCEPT ![c] = None]
          /\ pc' = [pc EXCEPT ![c] = "capcheck"] /\ pc[c] = "swapped"
      BY <1>1 DEF TerminateOld
    <3>0. ~closed'[x] /\ pc'[x] \notin Teardown \cup {"idle"}
      BY <2>2
    <3>a. ~closed[x] /\ x # victim[c]
      BY <3>0, <3>1
    <3>b. pc[x] \notin Teardown \cup {"idle"}
      BY <3>0, <3>1
    <3>2. ~closed[x] /\ x # victim[c] /\ pc[x] \notin Teardown \cup {"idle"}
      BY <3>a, <3>b
    <3>3. ASSUME NEW y \in Conns PROVE victim[y] # x
      <4>1. victim'[y] # x
        BY <2>2
      <4>2. y # c => victim'[y] = victim[y]
        BY <3>1
      <4> QED
        BY <3>2, <4>1, <4>2
    <3> QED
      BY <3>2, <3>3
  <2>3. slots' = slots /\ desks' = desks
    BY <1>1 DEF TerminateOld
  <2> HIDE DEF Doomed
  <2> QED
    BY <2>1, <2>2, <2>3
<1>2. ASSUME NEW c \in Conns, Acquire(c) PROVE SlotInv'
  BY <1>2 DEF Acquire, Out
<1>3. ASSUME NEW c \in Conns, LaunchBridge(c) PROVE SlotInv'
  BY <1>3 DEF LaunchBridge
<1>4. ASSUME NEW c \in Conns, BridgeFailed(c) PROVE SlotInv'
  BY <1>4 DEF BridgeFailed, Out
<1>5. ASSUME NEW c \in Conns, BridgeReady(c) PROVE SlotInv'
  BY <1>5 DEF BridgeReady, Out
<1>6. ASSUME NEW c \in Conns, MarkActive(c) PROVE SlotInv'
  BY <1>6 DEF MarkActive, Mark
<1>7. ASSUME NEW c \in Conns, RegisterLive(c) PROVE SlotInv'
  BY <1>7 DEF RegisterLive
<1>8. ASSUME NEW c \in Conns, NoticeTerminated(c) PROVE SlotInv'
  BY <1>8 DEF NoticeTerminated, LeaveLoop, Out
<1>9. ASSUME NEW c \in Conns, MarkDisconnected(c) PROVE SlotInv'
  BY <1>9 DEF MarkDisconnected, Mark
<1>10. ASSUME NEW c \in Conns, Unregister(c) PROVE SlotInv'
  BY <1>10 DEF Unregister
<1>11. ASSUME NEW c \in Conns, StopBridge(c) PROVE SlotInv'
  BY <1>11 DEF StopBridge
<1>12. ASSUME NEW c \in Conns, ReleaseSlot(c) PROVE SlotInv'
  BY <1>12, NoneIsNobody DEF ReleaseSlot
<1>13. ASSUME NEW c \in Conns, ReleaseCount(c) PROVE SlotInv'
  BY <1>13, LostIsNobody DEF ReleaseCount, Finish
<1>14. ASSUME NEW c \in Conns, Refused(c) PROVE SlotInv'
  BY <1>14 DEF Refused, Out
<1>15. ASSUME NEW c \in Conns, Hangup(c) PROVE SlotInv'
  BY <1>15 DEF Hangup, LeaveLoop, Out
<1>16. ASSUME NEW c \in Conns, NEW u \in Uids, SelectNew(c, u) PROVE SlotInv'
  BY <1>16 DEF SelectNew
<1>17. ASSUME NEW c \in Conns, NEW u \in Uids, NEW i \in Uuids, Join(c, u, i) PROVE SlotInv'
  BY <1>17 DEF Join, MayJoin
<1>18. ASSUME NEW c \in Conns, NEW i \in Uuids, Ready(c, i) PROVE SlotInv'
  BY <1>18 DEF Ready, FreshUuid
<1>19. ASSUME NEW c \in Conns, NEW s \in Offered, ConnectDirect(c, s) PROVE SlotInv'
  BY <1>19 DEF ConnectDirect, Sends
<1>20. ASSUME NEW c \in Conns, NEW s \in Offered, Claim(c, s) PROVE SlotInv'
  <2> DEFINE d == DesktopId(s, uid[c], c, sent[c] + 1)
  <2>1. d \in Desktops
    BY <1>20, ClaimsDesktop
  <2>2. /\ pc[c] \in InLoop /\ pc' = [pc EXCEPT ![c] = "swapped"] /\ closed' = closed
        /\ desk' = [desk EXCEPT ![c] = d] /\ desks' = [desks EXCEPT ![c] = @ \cup {d}]
        /\ slots' = [slots EXCEPT ![d] = c]
        /\ victim' = [victim EXCEPT ![c] = IF slots[d] \in {c, Lost} THEN None ELSE slots[d]]
    BY <1>20 DEF Claim, Sends
  <2>3. victim[c] = None
    BY <2>2
  <2> HIDE DEF d
  <2>4. SlotHolders'
    BY <2>1, <2>2
  <2>5. ASSUME NEW x \in Conns, ~Doomed(x)' PROVE ~Doomed(x)
    <3>1. ~closed[x] /\ pc[x] \notin Teardown \cup {"idle"}
      BY <2>2, <2>5
    <3>2. ASSUME NEW y \in Conns PROVE victim[y] # x
      BY <2>2, <2>3, <2>5, NoneIsNobody
    <3> QED
      BY <3>1, <3>2
  <2>6. ASSUME NEW x \in Conns, ~Doomed(x)', NEW e \in desks'[x] PROVE slots'[e] = x
    <3>1. CASE e = d /\ x = c
      BY <2>1, <2>2, <3>1
    <3>2. CASE e = d /\ x # c
      <4>1. d \in desks[x]
        BY <2>2, <2>6, <3>2
      <4>2. slots[d] = x
        BY <2>5, <2>6, <4>1
      <4>3. victim'[c] = x
        BY <2>2, <3>2, <4>2, LostIsNobody
      <4> QED
        BY <2>6, <4>3
    <3>3. CASE e # d
      <4>1. e \in desks[x] /\ e \in Desktops
        BY <2>2, <2>6, <3>3
      <4> QED
        BY <2>2, <2>5, <2>6, <3>3, <4>1
    <3> QED
      BY <3>1, <3>2, <3>3
  <2> QED
    BY <2>4, <2>6
<1>21. ASSUME NEW k \in Controllers, NEW i \in Uuids, KillOp(k, i) PROVE SlotInv'
  BY <1>21 DEF KillOp, LiveTerminate
<1>22. ASSUME NEW k \in Controllers, NEW i \in Uuids, CloseOp(k, i) PROVE SlotInv'
  BY <1>22 DEF CloseOp, NoJob
<1>23. ASSUME NEW k \in Controllers, NEW i \in Uuids, ReapOp(k, i) PROVE SlotInv'
  BY <1>23 DEF ReapOp, LiveTerminate, NoJob
<1>24. ASSUME NEW k \in Controllers, NEW aged \in SUBSET Uuids, PruneOp(k, aged) PROVE SlotInv'
  BY <1>24 DEF PruneOp
<1>25. ASSUME NEW k \in Controllers, NEW p \in Uids, NEW i \in Uuids, TerminateOp(k, p, i) PROVE SlotInv'
  BY <1>25 DEF TerminateOp
<1>26. CASE Restart
  BY <1>26, NoneIsNobody DEF Restart
<1>27. CASE UNCHANGED vars
  BY <1>27 DEF vars
<1> QED
  BY <1>1, <1>2, <1>3, <1>4, <1>5, <1>6, <1>7, <1>8, <1>9, <1>10, <1>11, <1>12, <1>13, <1>14, <1>15, <1>16, <1>17, <1>18, <1>19, <1>20, <1>21, <1>22, <1>23, <1>24, <1>25, <1>26, <1>27
     DEF Next, ThreadStep, ClientStep, ControlStep

(* Nothing is in a slot at the start; then the lemma carries the invariant *)
(* along: however claims, takeovers, refusals and teardowns interleave, at *)
(* most one connection per desktop will last, and it is the slot's holder. *)
THEOREM OneSlotHolds == Spec => []OneSlotPerDesktop
<1>1. Init => SlotInv
  BY NoneIsNobody DEF Init, SlotInv, SlotHolders, OneSlotPerDesktop, Doomed
<1>2. Spec => [](Shaped /\ SlotInv)
  BY ShapedInit, ShapedStep, <1>1, SlotStep, PTL DEF Spec
<1>3. SlotInv => OneSlotPerDesktop
  BY DEF SlotInv
<1> QED
  BY <1>2, <1>3, PTL

----------------------------------------------------------------------------
(* The bridge cap.                                                         *)

(* Every bridge belongs to a counted connection, which may have one more   *)
(* about to replace it; what the count exceeds them by is lost charges.    *)
Charged(u) == {c \in counted : uid[c] = u}
Second(u)  == {c \in bridge : pc[c] \in {"starting", "awaiting"} /\ uid[c] = u}

CapInv ==
  /\ bridge \subseteq counted
  /\ \A c \in counted : pc[c] # "idle"
  /\ \A c \in bridge : pc[c] \notin {"unslot", "uncount"}
  /\ \A c \in Conns : pc[c] \in {"starting", "awaiting"} => c \in counted
  /\ \A u \in Uids :
       /\ Cardinality(Charged(u)) + Cardinality(Second(u)) + stray[u] <= count[u]
       /\ count[u] <= MaxBridges

(* Subsets of the connections can be counted, and a smaller one is smaller. *)
LEMMA ConnSets ==
  ASSUME NEW S \in SUBSET Conns
  PROVE  /\ IsFiniteSet(S) /\ Cardinality(S) \in Nat
         /\ \A T \in SUBSET S : Cardinality(T) \in Nat /\ Cardinality(T) <= Cardinality(S)
         /\ \A c \in Conns \ S : Cardinality(S \cup {c}) = Cardinality(S) + 1
         /\ \A c \in S : Cardinality(S \ {c}) = Cardinality(S) - 1
<1>1. IsFiniteSet(S)
  BY ConnsFinite, FS_Subset
<1>2. \A T \in SUBSET S : IsFiniteSet(T) /\ Cardinality(T) <= Cardinality(S)
  BY <1>1, FS_Subset
<1>3. \A T \in SUBSET S : Cardinality(T) \in Nat
  BY <1>2, FS_CardinalityType
<1>4. \A c \in Conns \ S : Cardinality(S \cup {c}) = Cardinality(S) + 1
  BY <1>1, FS_AddElement
<1>5. \A c \in S : Cardinality(S \ {c}) = Cardinality(S) - 1
  BY <1>1, FS_RemoveElement
<1> QED
  BY <1>1, <1>2, <1>3, <1>4, <1>5, FS_CardinalityType

LEMMA CapSets ==
  ASSUME Shaped, NEW u
  PROVE  Charged(u) \in SUBSET Conns /\ Second(u) \in SUBSET Conns
BY DEF Charged, Second, Shaped, TypeOK

(* The sums of CapInv are numbers. *)
LEMMA CapNumbers ==
  ASSUME Shaped, NEW u \in Uids
  PROVE  /\ Cardinality(Charged(u)) \in Nat /\ Cardinality(Second(u)) \in Nat
         /\ stray[u] \in Nat /\ count[u] \in Nat
<1>1. Cardinality(Charged(u)) \in Nat /\ Cardinality(Second(u)) \in Nat
  BY CapSets, ConnSets
<1> QED
  BY <1>1 DEF Shaped, TypeOK

(* A step that touches neither the count nor who is charged, and starts no *)
(* second bridge, keeps the sums.                                          *)
LEMMA CapKept ==
  ASSUME Shaped, CapInv, UNCHANGED <<count, counted, stray>>,
         \A c \in counted : uid'[c] = uid[c],
         \A u : Second(u)' \subseteq Second(u)
  PROVE  \A u \in Uids :
           /\ Cardinality(Charged(u)') + Cardinality(Second(u)') + stray'[u] <= count'[u]
           /\ count'[u] <= MaxBridges
<1> SUFFICES ASSUME NEW u \in Uids
             PROVE  /\ Cardinality(Charged(u)') + Cardinality(Second(u)') + stray'[u] <= count'[u]
                    /\ count'[u] <= MaxBridges
  OBVIOUS
<1>1. Charged(u)' = Charged(u)
  BY DEF Charged
<1>2. Cardinality(Second(u)') \in Nat /\ Cardinality(Second(u)') <= Cardinality(Second(u))
  BY CapSets, ConnSets
<1> HIDE DEF Charged, Second
<1> QED
  BY <1>1, <1>2, CapNumbers DEF CapInv

(* Only acquire and release move a charge, each by one; a bridge that      *)
(* becomes ready while its connection has another leaves a stray behind.   *)
LEMMA CapStep == Shaped /\ CapInv /\ [Next]_vars => CapInv'
<1> SUFFICES ASSUME Shaped, CapInv, [Next]_vars PROVE CapInv'
  OBVIOUS
<1> USE DEF Goto, connVars, deskVars, poolVars, bridgeVars, tableVars
<1>t. /\ pc \in [Conns -> PCs] /\ uid \in [Conns -> Uids \cup {None}]
      /\ counted \subseteq Conns /\ bridge \subseteq Conns
      /\ count \in [Uids -> Nat] /\ stray \in [Uids -> Nat]
      /\ \A c \in Conns : pc[c] # "idle" => uid[c] \in Uids
  BY DEF Shaped, Shape, TypeOK
<1>i. /\ bridge \subseteq counted
      /\ \A c \in counted : pc[c] # "idle"
      /\ \A c \in bridge : pc[c] \notin {"unslot", "uncount"}
      /\ \A c \in Conns : pc[c] \in {"starting", "awaiting"} => c \in counted
      /\ \A u \in Uids :
           /\ Cardinality(Charged(u)) + Cardinality(Second(u)) + stray[u] <= count[u]
           /\ count[u] <= MaxBridges
  BY DEF CapInv
<1>k. ASSUME UNCHANGED <<count, counted, stray, bridge>>,
             \A c \in counted : uid'[c] = uid[c] /\ pc'[c] # "idle",
             \A c \in bridge : pc'[c] \notin {"unslot", "uncount"},
             \A c \in Conns : pc'[c] \in {"starting", "awaiting"} => pc[c] \in {"starting", "awaiting"}
      PROVE  CapInv'
  <2>1. \A u : Second(u)' \subseteq Second(u)
    BY <1>t, <1>i, <1>k DEF Second
  <2>2. \A u \in Uids :
          /\ Cardinality(Charged(u)') + Cardinality(Second(u)') + stray'[u] <= count'[u]
          /\ count'[u] <= MaxBridges
    BY <1>k, <2>1, CapKept
  <2> HIDE DEF Charged, Second
  <2> QED
    BY <1>t, <1>i, <1>k, <2>2 DEF CapInv
<1>1. ASSUME NEW c \in Conns, TerminateOld(c) PROVE CapInv'
  BY <1>1, <1>t, <1>i, <1>k DEF TerminateOld
<1>2. ASSUME NEW c \in Conns, Acquire(c) PROVE CapInv'
  <2>1. CASE count[uid[c]] < MaxBridges
    <3>1. /\ pc[c] = "capcheck" /\ pc' = [pc EXCEPT ![c] = "starting"] /\ uid' = uid
          /\ count' = [count EXCEPT ![uid[c]] = @ + 1] /\ counted' = counted \cup {c}
          /\ bridge' = bridge /\ stray' = stray /\ uid[c] \in Uids
      BY <1>2, <2>1, <1>t DEF Acquire
    <3>2. ASSUME NEW u \in Uids
          PROVE  /\ Cardinality(Charged(u)') + Cardinality(Second(u)') + stray'[u] <= count'[u]
                 /\ count'[u] <= MaxBridges
      <4>1. CASE u # uid[c]
        <5>1. Charged(u)' = Charged(u) /\ Second(u)' = Second(u)
          BY <1>t, <3>1, <4>1 DEF Charged, Second
        <5>2. count'[u] = count[u] /\ stray'[u] = stray[u]
          BY <1>t, <3>1, <4>1
        <5> QED
          BY <1>i, <5>1, <5>2
      <4>2. CASE u = uid[c] /\ c \in counted
        <5>1. Charged(u)' = Charged(u) /\ Second(u)' \subseteq Second(u) \cup {c}
          BY <1>t, <3>1, <4>2 DEF Charged, Second
        <5>2. c \notin Second(u)
          BY <3>1 DEF Second
        <5>3. Cardinality(Second(u) \cup {c}) = Cardinality(Second(u)) + 1
          BY <5>2, CapSets, ConnSets
        <5>4. Cardinality(Second(u)') \in Nat /\ Cardinality(Second(u)') <= Cardinality(Second(u) \cup {c})
          <6>1. Second(u) \cup {c} \in SUBSET Conns
            BY CapSets
          <6> QED
            BY <5>1, <6>1, ConnSets
        <5>5. count'[u] = count[u] + 1 /\ stray'[u] = stray[u] /\ count[u] < MaxBridges
          BY <1>t, <2>1, <3>1, <4>2
        <5> HIDE DEF Charged, Second
        <5> QED
          BY <1>i, <5>1, <5>3, <5>4, <5>5, CapNumbers, BoundsAreNat
      <4>3. CASE u = uid[c] /\ c \notin counted
        <5>1. Charged(u)' = Charged(u) \cup {c} /\ Second(u)' = Second(u) /\ c \notin Charged(u)
          BY <1>t, <1>i, <3>1, <4>3 DEF Charged, Second
        <5>2. Cardinality(Charged(u)') = Cardinality(Charged(u)) + 1
          BY <5>1, CapSets, ConnSets
        <5>3. count'[u] = count[u] + 1 /\ stray'[u] = stray[u] /\ count[u] < MaxBridges
          BY <1>t, <2>1, <3>1, <4>3
        <5> HIDE DEF Charged, Second
        <5> QED
          BY <1>i, <5>1, <5>2, <5>3, CapNumbers, BoundsAreNat
      <4> QED
        BY <4>1, <4>2, <4>3
    <3> HIDE DEF Charged, Second
    <3>3. /\ bridge' \subseteq counted' /\ \A x \in counted' : pc'[x] # "idle"
          /\ \A x \in bridge' : pc'[x] \notin {"unslot", "uncount"}
          /\ \A x \in Conns : pc'[x] \in {"starting", "awaiting"} => x \in counted'
      BY <1>t, <1>i, <3>1
    <3> QED
      BY <3>2, <3>3 DEF CapInv
  <2>2. CASE ~(count[uid[c]] < MaxBridges)
    BY <1>2, <2>2, <1>t, <1>i, <1>k DEF Acquire, Out
  <2> QED
    BY <2>1, <2>2
<1>3. ASSUME NEW c \in Conns, LaunchBridge(c) PROVE CapInv'
  BY <1>3, <1>t, <1>i, <1>k DEF LaunchBridge
<1>4. ASSUME NEW c \in Conns, BridgeFailed(c) PROVE CapInv'
  BY <1>4, <1>t, <1>i, <1>k DEF BridgeFailed, Out
<1>5. ASSUME NEW c \in Conns, BridgeReady(c) PROVE CapInv'
  <2>1. /\ pc[c] = "awaiting" /\ uid' = uid /\ count' = count /\ counted' = counted
        /\ bridge' = bridge \cup {c} /\ uid[c] \in Uids /\ c \in counted
        /\ stray' = IF c \in bridge THEN [stray EXCEPT ![uid[c]] = @ + 1] ELSE stray
    BY <1>5, <1>t, <1>i DEF BridgeReady
  <2>2. \E to \in {"relaying", "dialed", "mark", "stop"} : pc' = [pc EXCEPT ![c] = to]
    BY <1>5 DEF BridgeReady, Out
  <2>3. /\ bridge' \subseteq counted' /\ \A x \in counted' : pc'[x] # "idle"
        /\ \A x \in bridge' : pc'[x] \notin {"unslot", "uncount"}
        /\ \A x \in Conns : pc'[x] \in {"starting", "awaiting"} => x \in counted'
    BY <1>t, <1>i, <2>1, <2>2
  <2>4. ASSUME NEW u \in Uids
        PROVE  /\ Cardinality(Charged(u)') + Cardinality(Second(u)') + stray'[u] <= count'[u]
               /\ count'[u] <= MaxBridges
    <3>1. Charged(u)' = Charged(u)
      BY <2>1 DEF Charged
    <3>2. Second(u)' = Second(u) \ {c}
      BY <1>t, <2>1, <2>2 DEF Second
    <3>3. CASE c \in bridge /\ u = uid[c]
      <4>1. c \in Second(u)
        BY <2>1, <3>3 DEF Second
      <4>2. Cardinality(Second(u)') = Cardinality(Second(u)) - 1
        BY <3>2, <4>1, CapSets, ConnSets
      <4>3. stray'[u] = stray[u] + 1 /\ count'[u] = count[u]
        BY <1>t, <2>1, <3>3
      <4> HIDE DEF Charged, Second
      <4> QED
        BY <1>i, <3>1, <4>2, <4>3, CapNumbers
    <3>4. CASE ~(c \in bridge /\ u = uid[c])
      <4>1. Second(u)' = Second(u)
        BY <3>2, <3>4 DEF Second
      <4>2. stray'[u] = stray[u] /\ count'[u] = count[u]
        BY <1>t, <2>1, <3>4
      <4> HIDE DEF Charged, Second
      <4> QED
        BY <1>i, <3>1, <4>1, <4>2
    <3> QED
      BY <3>3, <3>4
  <2> HIDE DEF Charged, Second
  <2> QED
    BY <2>3, <2>4 DEF CapInv
<1>6. ASSUME NEW c \in Conns, MarkActive(c) PROVE CapInv'
  BY <1>6, <1>t, <1>i, <1>k DEF MarkActive, Mark
<1>7. ASSUME NEW c \in Conns, RegisterLive(c) PROVE CapInv'
  BY <1>7, <1>t, <1>i, <1>k DEF RegisterLive
<1>8. ASSUME NEW c \in Conns, NoticeTerminated(c) PROVE CapInv'
  BY <1>8, <1>t, <1>i, <1>k DEF NoticeTerminated, LeaveLoop, Out
<1>9. ASSUME NEW c \in Conns, MarkDisconnected(c) PROVE CapInv'
  BY <1>9, <1>t, <1>i, <1>k DEF MarkDisconnected, Mark
<1>10. ASSUME NEW c \in Conns, Unregister(c) PROVE CapInv'
  BY <1>10, <1>t, <1>i, <1>k DEF Unregister
<1>11. ASSUME NEW c \in Conns, StopBridge(c) PROVE CapInv'
  <2>1. /\ pc[c] = "stop" /\ pc' = [pc EXCEPT ![c] = "unslot"]
        /\ bridge' = bridge \ {c} /\ UNCHANGED <<uid, count, counted, stray>>
    BY <1>11 DEF StopBridge
  <2>2. /\ bridge' \subseteq counted' /\ \A x \in counted' : pc'[x] # "idle"
        /\ \A x \in bridge' : pc'[x] \notin {"unslot", "uncount"}
        /\ \A x \in Conns : pc'[x] \in {"starting", "awaiting"} => x \in counted'
    BY <1>t, <1>i, <2>1
  <2>3. \A u : Second(u)' \subseteq Second(u)
    BY <1>t, <2>1 DEF Second
  <2>4. \A u \in Uids :
          /\ Cardinality(Charged(u)') + Cardinality(Second(u)') + stray'[u] <= count'[u]
          /\ count'[u] <= MaxBridges
    BY <2>1, <2>3, CapKept
  <2> HIDE DEF Charged, Second
  <2> QED
    BY <2>2, <2>4 DEF CapInv
<1>12. ASSUME NEW c \in Conns, ReleaseSlot(c) PROVE CapInv'
  BY <1>12, <1>t, <1>i, <1>k DEF ReleaseSlot
<1>13. ASSUME NEW c \in Conns, ReleaseCount(c) PROVE CapInv'
  <2>1. /\ pc[c] = "uncount" /\ pc' = [pc EXCEPT ![c] = "idle"] /\ uid' = [uid EXCEPT ![c] = None]
        /\ count' = IF c \in counted
                    THEN [count EXCEPT ![uid[c]] = IF @ <= 1 THEN 0 ELSE @ - 1] ELSE count
        /\ counted' = counted \ {c} /\ bridge' = bridge /\ stray' = stray
        /\ uid[c] \in Uids /\ c \notin bridge
    BY <1>13, <1>t, <1>i DEF ReleaseCount, Finish
  <2>2. /\ bridge' \subseteq counted' /\ \A x \in counted' : pc'[x] # "idle"
        /\ \A x \in bridge' : pc'[x] \notin {"unslot", "uncount"}
        /\ \A x \in Conns : pc'[x] \in {"starting", "awaiting"} => x \in counted'
    BY <1>t, <1>i, <2>1
  <2>3. ASSUME NEW u \in Uids
        PROVE  /\ Cardinality(Charged(u)') + Cardinality(Second(u)') + stray'[u] <= count'[u]
               /\ count'[u] <= MaxBridges
    <3>1. Second(u)' = Second(u)
      BY <1>t, <1>i, <2>1 DEF Second
    <3>2. CASE c \in counted /\ u = uid[c]
      <4>1. Charged(u)' = Charged(u) \ {c} /\ c \in Charged(u)
        BY <1>t, <2>1, <3>2 DEF Charged
      <4>2. Cardinality(Charged(u)') = Cardinality(Charged(u)) - 1
        BY <4>1, CapSets, ConnSets
      <4>3. Cardinality(Charged(u)') \in Nat
        <5>1. Charged(u)' \in SUBSET Charged(u)
          BY <4>1
        <5> QED
          BY <5>1, CapSets, ConnSets
      <4>4. count'[u] = (IF count[u] <= 1 THEN 0 ELSE count[u] - 1) /\ stray'[u] = stray[u]
        BY <1>t, <2>1, <3>2
      <4> HIDE DEF Charged, Second
      <4> QED
        BY <1>i, <3>1, <4>2, <4>3, <4>4, CapNumbers, BoundsAreNat
    <3>3. CASE ~(c \in counted /\ u = uid[c])
      <4>1. Charged(u)' = Charged(u)
        BY <1>t, <2>1, <3>3 DEF Charged
      <4>2. count'[u] = count[u] /\ stray'[u] = stray[u]
        BY <1>t, <2>1, <3>3
      <4> HIDE DEF Charged, Second
      <4> QED
        BY <1>i, <3>1, <4>1, <4>2
    <3> QED
      BY <3>2, <3>3
  <2> HIDE DEF Charged, Second
  <2> QED
    BY <2>2, <2>3 DEF CapInv
<1>14. ASSUME NEW c \in Conns, Refused(c) PROVE CapInv'
  BY <1>14, <1>t, <1>i, <1>k DEF Refused, Out
<1>15. ASSUME NEW c \in Conns, Hangup(c) PROVE CapInv'
  BY <1>15, <1>t, <1>i, <1>k DEF Hangup, LeaveLoop, Out
<1>16. ASSUME NEW c \in Conns, NEW u \in Uids, SelectNew(c, u) PROVE CapInv'
  BY <1>16, <1>t, <1>i, <1>k DEF SelectNew
<1>17. ASSUME NEW c \in Conns, NEW u \in Uids, NEW i \in Uuids, Join(c, u, i) PROVE CapInv'
  BY <1>17, <1>t, <1>i, <1>k DEF Join, MayJoin
<1>18. ASSUME NEW c \in Conns, NEW i \in Uuids, Ready(c, i) PROVE CapInv'
  BY <1>18, <1>t, <1>i, <1>k DEF Ready, FreshUuid
<1>19. ASSUME NEW c \in Conns, NEW s \in Offered, ConnectDirect(c, s) PROVE CapInv'
  BY <1>19, <1>t, <1>i, <1>k DEF ConnectDirect, Sends
<1>20. ASSUME NEW c \in Conns, NEW s \in Offered, Claim(c, s) PROVE CapInv'
  BY <1>20, <1>t, <1>i, <1>k DEF Claim, Sends
<1>21. ASSUME NEW k \in Controllers, NEW i \in Uuids, KillOp(k, i) PROVE CapInv'
  BY <1>21, <1>t, <1>i, <1>k DEF KillOp, LiveTerminate
<1>22. ASSUME NEW k \in Controllers, NEW i \in Uuids, CloseOp(k, i) PROVE CapInv'
  BY <1>22, <1>t, <1>i, <1>k DEF CloseOp, NoJob
<1>23. ASSUME NEW k \in Controllers, NEW i \in Uuids, ReapOp(k, i) PROVE CapInv'
  BY <1>23, <1>t, <1>i, <1>k DEF ReapOp, LiveTerminate, NoJob
<1>24. ASSUME NEW k \in Controllers, NEW aged \in SUBSET Uuids, PruneOp(k, aged) PROVE CapInv'
  BY <1>24, <1>t, <1>i, <1>k DEF PruneOp
<1>25. ASSUME NEW k \in Controllers, NEW p \in Uids, NEW i \in Uuids, TerminateOp(k, p, i) PROVE CapInv'
  BY <1>25, <1>t, <1>i, <1>k DEF TerminateOp
<1>26. CASE Restart
  <2>1. /\ counted' = {} /\ bridge' = {} /\ count' = [u \in Uids |-> 0]
        /\ stray' = [u \in Uids |-> 0] /\ pc' = [c \in Conns |-> "idle"]
    BY <1>26 DEF Restart
  <2>2. \A u \in Uids : Charged(u)' = {} /\ Second(u)' = {}
    BY <2>1 DEF Charged, Second
  <2> HIDE DEF Charged, Second
  <2>3. \A u \in Uids : Cardinality(Charged(u)') = 0 /\ Cardinality(Second(u)') = 0
    BY <2>2, FS_EmptySet
  <2>4. \A u \in Uids : count'[u] = 0 /\ stray'[u] = 0
    BY <2>1
  <2>5. /\ bridge' \subseteq counted' /\ \A x \in counted' : pc'[x] # "idle"
        /\ \A x \in bridge' : pc'[x] \notin {"unslot", "uncount"}
        /\ \A x \in Conns : pc'[x] \in {"starting", "awaiting"} => x \in counted'
    BY <2>1
  <2> QED
    BY <2>3, <2>4, <2>5, BoundsAreNat DEF CapInv
<1>27. CASE UNCHANGED vars
  BY <1>27, <1>t, <1>i, <1>k DEF vars
<1> QED
  BY <1>1, <1>2, <1>3, <1>4, <1>5, <1>6, <1>7, <1>8, <1>9, <1>10, <1>11, <1>12, <1>13, <1>14, <1>15, <1>16, <1>17, <1>18, <1>19, <1>20, <1>21, <1>22, <1>23, <1>24, <1>25, <1>26, <1>27
     DEF Next, ThreadStep, ClientStep, ControlStep

(* BridgeCap from CapInv: a connection that keeps one bridge while another *)
(* is being started is counted twice on both sides.                        *)
LEMMA CapIsKept == ASSUME Shaped, CapInv PROVE BridgeCap
<1> SUFFICES ASSUME NEW u \in Uids PROVE Running(u) <= count[u] /\ count[u] <= MaxBridges
  BY DEF BridgeCap
<1> DEFINE K == KeptBy(u)
           S == StartingBy(u)
<1>1. K \in SUBSET Conns /\ S \in SUBSET Conns
  BY DEF KeptBy, StartingBy, Shaped, TypeOK
<1>2. K \cup S \in SUBSET Charged(u) /\ K \cap S \in SUBSET Second(u)
  BY DEF KeptBy, StartingBy, Charged, Second, CapInv
<1> HIDE DEF K, S
<1>3. /\ Cardinality(K \cup S) = Cardinality(K) + Cardinality(S) - Cardinality(K \cap S)
      /\ Cardinality(K) \in Nat /\ Cardinality(S) \in Nat
  BY <1>1, ConnSets, FS_Union
<1>4. /\ Cardinality(K \cup S) \in Nat /\ Cardinality(K \cup S) <= Cardinality(Charged(u))
      /\ Cardinality(K \cap S) \in Nat /\ Cardinality(K \cap S) <= Cardinality(Second(u))
  BY <1>2, CapSets, ConnSets
<1>5. /\ Cardinality(Charged(u)) + Cardinality(Second(u)) + stray[u] <= count[u]
      /\ count[u] <= MaxBridges
  BY DEF CapInv
<1>6. Running(u) = Cardinality(K) + Cardinality(S) + stray[u]
  BY DEF Running, K, S
<1> HIDE DEF Running
<1> QED
  BY <1>3, <1>4, <1>5, <1>6, CapNumbers

(* For any cap, any number of connections and any number of connects on    *)
(* each: the bridges a user runs, forgotten ones included, stay within the *)
(* count, and the count within the cap.                                    *)
THEOREM BridgeCapHolds == Spec => []BridgeCap
<1>1. Init => CapInv
  <2> SUFFICES ASSUME Init PROVE CapInv
    OBVIOUS
  <2>1. \A u \in Uids : Charged(u) = {} /\ Second(u) = {}
    BY DEF Init, Charged, Second
  <2> QED
    BY <2>1, FS_EmptySet, BoundsAreNat DEF Init, CapInv
<1>2. Spec => [](Shaped /\ CapInv)
  BY ShapedInit, ShapedStep, <1>1, CapStep, PTL DEF Spec
<1> QED
  BY <1>2, CapIsKept, PTL

----------------------------------------------------------------------------
(* Who may share a guacd session.                                          *)

(* A join is let through by the entry's owner, and an entry's owner is the *)
(* user of everybody attached to it, so the invariant carries itself.      *)
LEMMA OwnerStep == Shaped /\ SessionOfOneUser /\ [Next]_vars => SessionOfOneUser'
<1> SUFFICES ASSUME Shaped, SessionOfOneUser, [Next]_vars PROVE SessionOfOneUser'
  OBVIOUS
<1> USE DEF Shaped, TypeOK, Shape, SessionOfOneUser, Absent, Goto, connVars, deskVars, poolVars, bridgeVars, tableVars
<1>1. ASSUME NEW c \in Conns, TerminateOld(c) PROVE SessionOfOneUser'
  BY <1>1 DEF TerminateOld
<1>2. ASSUME NEW c \in Conns, Acquire(c) PROVE SessionOfOneUser'
  BY <1>2 DEF Acquire, Out
<1>3. ASSUME NEW c \in Conns, LaunchBridge(c) PROVE SessionOfOneUser'
  BY <1>3 DEF LaunchBridge
<1>4. ASSUME NEW c \in Conns, BridgeFailed(c) PROVE SessionOfOneUser'
  BY <1>4 DEF BridgeFailed, Out
<1>5. ASSUME NEW c \in Conns, BridgeReady(c) PROVE SessionOfOneUser'
  BY <1>5 DEF BridgeReady, Out
<1>6. ASSUME NEW c \in Conns, MarkActive(c) PROVE SessionOfOneUser'
  BY <1>6, NoneIsNobody DEF MarkActive, Mark
<1>7. ASSUME NEW c \in Conns, RegisterLive(c) PROVE SessionOfOneUser'
  BY <1>7 DEF RegisterLive
<1>8. ASSUME NEW c \in Conns, NoticeTerminated(c) PROVE SessionOfOneUser'
  BY <1>8 DEF NoticeTerminated, LeaveLoop, Out
<1>9. ASSUME NEW c \in Conns, MarkDisconnected(c) PROVE SessionOfOneUser'
  BY <1>9 DEF MarkDisconnected, Mark
<1>10. ASSUME NEW c \in Conns, Unregister(c) PROVE SessionOfOneUser'
  BY <1>10 DEF Unregister
<1>11. ASSUME NEW c \in Conns, StopBridge(c) PROVE SessionOfOneUser'
  BY <1>11 DEF StopBridge
<1>12. ASSUME NEW c \in Conns, ReleaseSlot(c) PROVE SessionOfOneUser'
  BY <1>12 DEF ReleaseSlot
<1>13. ASSUME NEW c \in Conns, ReleaseCount(c) PROVE SessionOfOneUser'
  BY <1>13, NoneIsNobody DEF ReleaseCount, Finish
<1>14. ASSUME NEW c \in Conns, Refused(c) PROVE SessionOfOneUser'
  BY <1>14 DEF Refused, Out
<1>15. ASSUME NEW c \in Conns, Hangup(c) PROVE SessionOfOneUser'
  BY <1>15 DEF Hangup, LeaveLoop, Out
<1>16. ASSUME NEW c \in Conns, NEW u \in Uids, SelectNew(c, u) PROVE SessionOfOneUser'
  BY <1>16 DEF SelectNew
<1>17. ASSUME NEW c \in Conns, NEW u \in Uids, NEW i \in Uuids, Join(c, u, i) PROVE SessionOfOneUser'
  BY <1>17, NoneIsNobody DEF Join, MayJoin
<1>18. ASSUME NEW c \in Conns, NEW i \in Uuids, Ready(c, i) PROVE SessionOfOneUser'
  BY <1>18 DEF Ready, FreshUuid
<1>19. ASSUME NEW c \in Conns, NEW s \in Offered, ConnectDirect(c, s) PROVE SessionOfOneUser'
  BY <1>19 DEF ConnectDirect, Sends
<1>20. ASSUME NEW c \in Conns, NEW s \in Offered, Claim(c, s) PROVE SessionOfOneUser'
  BY <1>20 DEF Claim, Sends
<1>21. ASSUME NEW k \in Controllers, NEW i \in Uuids, KillOp(k, i) PROVE SessionOfOneUser'
  BY <1>21 DEF KillOp, LiveTerminate
<1>22. ASSUME NEW k \in Controllers, NEW i \in Uuids, CloseOp(k, i) PROVE SessionOfOneUser'
  BY <1>22 DEF CloseOp, NoJob
<1>23. ASSUME NEW k \in Controllers, NEW i \in Uuids, ReapOp(k, i) PROVE SessionOfOneUser'
  BY <1>23 DEF ReapOp, LiveTerminate, NoJob
<1>24. ASSUME NEW k \in Controllers, NEW aged \in SUBSET Uuids, PruneOp(k, aged) PROVE SessionOfOneUser'
  BY <1>24 DEF PruneOp
<1>25. ASSUME NEW k \in Controllers, NEW p \in Uids, NEW i \in Uuids, TerminateOp(k, p, i) PROVE SessionOfOneUser'
  BY <1>25 DEF TerminateOp
<1>26. CASE Restart
  BY <1>26, NoneIsNobody DEF Restart
<1>27. CASE UNCHANGED vars
  BY <1>27 DEF vars
<1> QED
  BY <1>1, <1>2, <1>3, <1>4, <1>5, <1>6, <1>7, <1>8, <1>9, <1>10, <1>11, <1>12, <1>13, <1>14, <1>15, <1>16, <1>17, <1>18, <1>19, <1>20, <1>21, <1>22, <1>23, <1>24, <1>25, <1>26, <1>27
     DEF Next, ThreadStep, ClientStep, ControlStep

(* For any users and any interleaving of joins, closes, prunes and         *)
(* reopened entries, a guacd session is never shared between users.        *)
THEOREM OneUserHolds == Spec => []SessionOfOneUser
<1>1. Init => SessionOfOneUser
  BY DEF Init, SessionOfOneUser
<1> QED
  BY ShapedInit, ShapedStep, <1>1, OwnerStep, PTL DEF Spec

----------------------------------------------------------------------------
(* What is left in the tables by a connection that has ended.              *)

LEMMA ActiveStep == Shaped /\ ActiveIsAttached /\ [Next]_vars => ActiveIsAttached'
<1> SUFFICES ASSUME Shaped, ActiveIsAttached, [Next]_vars PROVE ActiveIsAttached'
  OBVIOUS
<1> USE DEF Shaped, TypeOK, Shape, ActiveIsAttached, Absent, Goto, connVars, deskVars, poolVars, bridgeVars, tableVars
<1>1. ASSUME NEW c \in Conns, TerminateOld(c) PROVE ActiveIsAttached'
  BY <1>1 DEF TerminateOld
<1>2. ASSUME NEW c \in Conns, Acquire(c) PROVE ActiveIsAttached'
  BY <1>2 DEF Acquire, Out
<1>3. ASSUME NEW c \in Conns, LaunchBridge(c) PROVE ActiveIsAttached'
  BY <1>3 DEF LaunchBridge
<1>4. ASSUME NEW c \in Conns, BridgeFailed(c) PROVE ActiveIsAttached'
  BY <1>4 DEF BridgeFailed, Out
<1>5. ASSUME NEW c \in Conns, BridgeReady(c) PROVE ActiveIsAttached'
  BY <1>5 DEF BridgeReady, Out
<1>6. ASSUME NEW c \in Conns, MarkActive(c) PROVE ActiveIsAttached'
  BY <1>6 DEF MarkActive, Mark
<1>7. ASSUME NEW c \in Conns, RegisterLive(c) PROVE ActiveIsAttached'
  BY <1>7 DEF RegisterLive
<1>8. ASSUME NEW c \in Conns, NoticeTerminated(c) PROVE ActiveIsAttached'
  BY <1>8 DEF NoticeTerminated, LeaveLoop, Out
<1>9. ASSUME NEW c \in Conns, MarkDisconnected(c) PROVE ActiveIsAttached'
  BY <1>9 DEF MarkDisconnected, Mark
<1>10. ASSUME NEW c \in Conns, Unregister(c) PROVE ActiveIsAttached'
  BY <1>10 DEF Unregister
<1>11. ASSUME NEW c \in Conns, StopBridge(c) PROVE ActiveIsAttached'
  BY <1>11 DEF StopBridge
<1>12. ASSUME NEW c \in Conns, ReleaseSlot(c) PROVE ActiveIsAttached'
  BY <1>12 DEF ReleaseSlot
<1>13. ASSUME NEW c \in Conns, ReleaseCount(c) PROVE ActiveIsAttached'
  BY <1>13 DEF ReleaseCount, Finish
<1>14. ASSUME NEW c \in Conns, Refused(c) PROVE ActiveIsAttached'
  BY <1>14 DEF Refused, Out
<1>15. ASSUME NEW c \in Conns, Hangup(c) PROVE ActiveIsAttached'
  BY <1>15 DEF Hangup, LeaveLoop, Out
<1>16. ASSUME NEW c \in Conns, NEW u \in Uids, SelectNew(c, u) PROVE ActiveIsAttached'
  BY <1>16 DEF SelectNew
<1>17. ASSUME NEW c \in Conns, NEW u \in Uids, NEW i \in Uuids, Join(c, u, i) PROVE ActiveIsAttached'
  BY <1>17 DEF Join, MayJoin
<1>18. ASSUME NEW c \in Conns, NEW i \in Uuids, Ready(c, i) PROVE ActiveIsAttached'
  BY <1>18 DEF Ready, FreshUuid
<1>19. ASSUME NEW c \in Conns, NEW s \in Offered, ConnectDirect(c, s) PROVE ActiveIsAttached'
  BY <1>19 DEF ConnectDirect, Sends
<1>20. ASSUME NEW c \in Conns, NEW s \in Offered, Claim(c, s) PROVE ActiveIsAttached'
  BY <1>20 DEF Claim, Sends
<1>21. ASSUME NEW k \in Controllers, NEW i \in Uuids, KillOp(k, i) PROVE ActiveIsAttached'
  BY <1>21 DEF KillOp, LiveTerminate
<1>22. ASSUME NEW k \in Controllers, NEW i \in Uuids, CloseOp(k, i) PROVE ActiveIsAttached'
  BY <1>22 DEF CloseOp, NoJob
<1>23. ASSUME NEW k \in Controllers, NEW i \in Uuids, ReapOp(k, i) PROVE ActiveIsAttached'
  BY <1>23 DEF ReapOp, LiveTerminate, NoJob
<1>24. ASSUME NEW k \in Controllers, NEW aged \in SUBSET Uuids, PruneOp(k, aged) PROVE ActiveIsAttached'
  BY <1>24 DEF PruneOp
<1>25. ASSUME NEW k \in Controllers, NEW p \in Uids, NEW i \in Uuids, TerminateOp(k, p, i) PROVE ActiveIsAttached'
  BY <1>25 DEF TerminateOp
<1>26. CASE Restart
  BY <1>26, BoundsAreNat DEF Restart
<1>27. CASE UNCHANGED vars
  BY <1>27 DEF vars
<1> QED
  BY <1>1, <1>2, <1>3, <1>4, <1>5, <1>6, <1>7, <1>8, <1>9, <1>10, <1>11, <1>12, <1>13, <1>14, <1>15, <1>16, <1>17, <1>18, <1>19, <1>20, <1>21, <1>22, <1>23, <1>24, <1>25, <1>26, <1>27
     DEF Next, ThreadStep, ClientStep, ControlStep

(* Until a restart, every ACTIVE entry has a connection that will still    *)
(* mark it disconnected, whatever control requests interleave.             *)
THEOREM ActiveHolds == Spec => []ActiveIsAttached
<1>1. Init => ActiveIsAttached
  BY DEF Init, ActiveIsAttached, Absent
<1> QED
  BY ShapedInit, ShapedStep, <1>1, ActiveStep, PTL DEF Spec

(* The live part of NoStaleHolder: unregister pops by uuid, so it must be  *)
(* the thread's own.                                                       *)
LiveHolders ==
  \A i \in Uuids : live[i] # None =>
    /\ uuid[live[i]] = i /\ live[i] \in told
    /\ pc[live[i]] \in {"relaying", "mark", "unregister"} \cup Claimed

LEMMA LiveStep == Shaped /\ LiveHolders /\ [Next]_vars => LiveHolders'
<1> SUFFICES ASSUME Shaped, LiveHolders, [Next]_vars PROVE LiveHolders'
  OBVIOUS
<1> USE DEF Shaped, TypeOK, Shape, LiveHolders, Goto, connVars, deskVars, poolVars, bridgeVars, tableVars
<1>1. ASSUME NEW c \in Conns, TerminateOld(c) PROVE LiveHolders'
  BY <1>1 DEF TerminateOld
<1>2. ASSUME NEW c \in Conns, Acquire(c) PROVE LiveHolders'
  BY <1>2 DEF Acquire, Out
<1>3. ASSUME NEW c \in Conns, LaunchBridge(c) PROVE LiveHolders'
  BY <1>3 DEF LaunchBridge
<1>4. ASSUME NEW c \in Conns, BridgeFailed(c) PROVE LiveHolders'
  BY <1>4 DEF BridgeFailed, Out
<1>5. ASSUME NEW c \in Conns, BridgeReady(c) PROVE LiveHolders'
  BY <1>5 DEF BridgeReady, Out
<1>6. ASSUME NEW c \in Conns, MarkActive(c) PROVE LiveHolders'
  BY <1>6 DEF MarkActive, Mark
<1>7. ASSUME NEW c \in Conns, RegisterLive(c) PROVE LiveHolders'
  BY <1>7 DEF RegisterLive
<1>8. ASSUME NEW c \in Conns, NoticeTerminated(c) PROVE LiveHolders'
  BY <1>8 DEF NoticeTerminated, LeaveLoop, Out
<1>9. ASSUME NEW c \in Conns, MarkDisconnected(c) PROVE LiveHolders'
  BY <1>9 DEF MarkDisconnected, Mark
<1>10. ASSUME NEW c \in Conns, Unregister(c) PROVE LiveHolders'
  BY <1>10 DEF Unregister
<1>11. ASSUME NEW c \in Conns, StopBridge(c) PROVE LiveHolders'
  BY <1>11 DEF StopBridge
<1>12. ASSUME NEW c \in Conns, ReleaseSlot(c) PROVE LiveHolders'
  BY <1>12 DEF ReleaseSlot
<1>13. ASSUME NEW c \in Conns, ReleaseCount(c) PROVE LiveHolders'
  BY <1>13 DEF ReleaseCount, Finish
<1>14. ASSUME NEW c \in Conns, Refused(c) PROVE LiveHolders'
  BY <1>14 DEF Refused, Out
<1>15. ASSUME NEW c \in Conns, Hangup(c) PROVE LiveHolders'
  BY <1>15 DEF Hangup, LeaveLoop, Out
<1>16. ASSUME NEW c \in Conns, NEW u \in Uids, SelectNew(c, u) PROVE LiveHolders'
  BY <1>16 DEF SelectNew
<1>17. ASSUME NEW c \in Conns, NEW u \in Uids, NEW i \in Uuids, Join(c, u, i) PROVE LiveHolders'
  BY <1>17 DEF Join, MayJoin
<1>18. ASSUME NEW c \in Conns, NEW i \in Uuids, Ready(c, i) PROVE LiveHolders'
  BY <1>18 DEF Ready, FreshUuid
<1>19. ASSUME NEW c \in Conns, NEW s \in Offered, ConnectDirect(c, s) PROVE LiveHolders'
  BY <1>19 DEF ConnectDirect, Sends
<1>20. ASSUME NEW c \in Conns, NEW s \in Offered, Claim(c, s) PROVE LiveHolders'
  BY <1>20 DEF Claim, Sends
<1>21. ASSUME NEW k \in Controllers, NEW i \in Uuids, KillOp(k, i) PROVE LiveHolders'
  BY <1>21 DEF KillOp, LiveTerminate
<1>22. ASSUME NEW k \in Controllers, NEW i \in Uuids, CloseOp(k, i) PROVE LiveHolders'
  BY <1>22 DEF CloseOp, NoJob
<1>23. ASSUME NEW k \in Controllers, NEW i \in Uuids, ReapOp(k, i) PROVE LiveHolders'
  BY <1>23 DEF ReapOp, LiveTerminate, NoJob
<1>24. ASSUME NEW k \in Controllers, NEW aged \in SUBSET Uuids, PruneOp(k, aged) PROVE LiveHolders'
  BY <1>24 DEF PruneOp
<1>25. ASSUME NEW k \in Controllers, NEW p \in Uids, NEW i \in Uuids, TerminateOp(k, p, i) PROVE LiveHolders'
  BY <1>25 DEF TerminateOp
<1>26. CASE Restart
  BY <1>26, NoneIsNobody DEF Restart
<1>27. CASE UNCHANGED vars
  BY <1>27 DEF vars
<1> QED
  BY <1>1, <1>2, <1>3, <1>4, <1>5, <1>6, <1>7, <1>8, <1>9, <1>10, <1>11, <1>12, <1>13, <1>14, <1>15, <1>16, <1>17, <1>18, <1>19, <1>20, <1>21, <1>22, <1>23, <1>24, <1>25, <1>26, <1>27
     DEF Next, ThreadStep, ClientStep, ControlStep

(* No slot names a connection that is past releasing it, and no live       *)
(* registration outlives its connection, whatever else that connection has *)
(* sent meanwhile.                                                         *)
THEOREM NoStaleHolderHolds == Spec => []NoStaleHolder
<1>1. Init => SlotInv /\ LiveHolders
  BY NoneIsNobody DEF Init, SlotInv, SlotHolders, OneSlotPerDesktop, Doomed, LiveHolders
<1>2. Spec => [](Shaped /\ SlotInv /\ LiveHolders)
  BY ShapedInit, ShapedStep, <1>1, SlotStep, LiveStep, PTL DEF Spec
<1>3. SlotInv /\ LiveHolders => NoStaleHolder
  BY DEF SlotInv, SlotHolders, LiveHolders, NoStaleHolder
<1> QED
  BY <1>2, <1>3, PTL

----------------------------------------------------------------------------
(* The relay implements DesktopAccess.                                     *)

AccessNext == [Access!Next]_Access!accessVars

(* A thread that is idle is in nobody's way. *)
Fresh == \A c \in Conns : pc[c] = "idle" =>
           ~closed[c] /\ \A x \in Conns : victim[x] # c

Invs == Shaped /\ SlotInv /\ LiveHolders /\ Fresh

LEMMA FreshStep == Invs /\ [Next]_vars => Fresh'
<1> SUFFICES ASSUME Invs, [Next]_vars PROVE Fresh'
  OBVIOUS
<1> USE DEF Invs, Shaped, TypeOK, Shape, Fresh, Goto, connVars, deskVars, poolVars, bridgeVars, tableVars
<1>1. ASSUME NEW c \in Conns, TerminateOld(c) PROVE Fresh'
  BY <1>1, NoneIsNobody DEF TerminateOld
<1>2. ASSUME NEW c \in Conns, Acquire(c) PROVE Fresh'
  BY <1>2, NoneIsNobody DEF Acquire, Out
<1>3. ASSUME NEW c \in Conns, LaunchBridge(c) PROVE Fresh'
  BY <1>3, NoneIsNobody DEF LaunchBridge
<1>4. ASSUME NEW c \in Conns, BridgeFailed(c) PROVE Fresh'
  BY <1>4, NoneIsNobody DEF BridgeFailed, Out
<1>5. ASSUME NEW c \in Conns, BridgeReady(c) PROVE Fresh'
  BY <1>5, NoneIsNobody DEF BridgeReady, Out
<1>6. ASSUME NEW c \in Conns, MarkActive(c) PROVE Fresh'
  BY <1>6, NoneIsNobody DEF MarkActive, Mark
<1>7. ASSUME NEW c \in Conns, RegisterLive(c) PROVE Fresh'
  BY <1>7, NoneIsNobody DEF RegisterLive
<1>8. ASSUME NEW c \in Conns, NoticeTerminated(c) PROVE Fresh'
  BY <1>8, NoneIsNobody DEF NoticeTerminated, LeaveLoop, Out
<1>9. ASSUME NEW c \in Conns, MarkDisconnected(c) PROVE Fresh'
  BY <1>9, NoneIsNobody DEF MarkDisconnected, Mark
<1>10. ASSUME NEW c \in Conns, Unregister(c) PROVE Fresh'
  BY <1>10, NoneIsNobody DEF Unregister
<1>11. ASSUME NEW c \in Conns, StopBridge(c) PROVE Fresh'
  BY <1>11, NoneIsNobody DEF StopBridge
<1>12. ASSUME NEW c \in Conns, ReleaseSlot(c) PROVE Fresh'
  BY <1>12, NoneIsNobody DEF ReleaseSlot
<1>13. ASSUME NEW c \in Conns, ReleaseCount(c) PROVE Fresh'
  BY <1>13, NoneIsNobody DEF ReleaseCount, Finish
<1>14. ASSUME NEW c \in Conns, Refused(c) PROVE Fresh'
  BY <1>14, NoneIsNobody DEF Refused, Out
<1>15. ASSUME NEW c \in Conns, Hangup(c) PROVE Fresh'
  BY <1>15, NoneIsNobody DEF Hangup, LeaveLoop, Out
<1>16. ASSUME NEW c \in Conns, NEW u \in Uids, SelectNew(c, u) PROVE Fresh'
  BY <1>16, NoneIsNobody DEF SelectNew
<1>17. ASSUME NEW c \in Conns, NEW u \in Uids, NEW i \in Uuids, Join(c, u, i) PROVE Fresh'
  BY <1>17, NoneIsNobody DEF Join, MayJoin
<1>18. ASSUME NEW c \in Conns, NEW i \in Uuids, Ready(c, i) PROVE Fresh'
  BY <1>18, NoneIsNobody DEF Ready, FreshUuid
<1>19. ASSUME NEW c \in Conns, NEW s \in Offered, ConnectDirect(c, s) PROVE Fresh'
  BY <1>19, NoneIsNobody DEF ConnectDirect, Sends
<1>20. ASSUME NEW c \in Conns, NEW s \in Offered, Claim(c, s) PROVE Fresh'
  <2> DEFINE d == DesktopId(s, uid[c], c, sent[c] + 1)
  <2>1. d \in Desktops
    BY <1>20, ClaimsDesktop
  <2>2. /\ pc[c] \in InLoop /\ pc' = [pc EXCEPT ![c] = "swapped"] /\ closed' = closed
        /\ victim' = [victim EXCEPT ![c] = IF slots[d] \in {c, Lost} THEN None ELSE slots[d]]
    BY <1>20 DEF Claim, Sends
  <2>3. slots[d] \in Conns => pc[slots[d]] # "idle"
    BY <2>1 DEF SlotInv, SlotHolders
  <2> HIDE DEF d
  <2> QED
    BY <2>2, <2>3, NoneIsNobody
<1>21. ASSUME NEW k \in Controllers, NEW i \in Uuids, KillOp(k, i) PROVE Fresh'
  BY <1>21, NoneIsNobody DEF KillOp, LiveTerminate, LiveHolders
<1>22. ASSUME NEW k \in Controllers, NEW i \in Uuids, CloseOp(k, i) PROVE Fresh'
  BY <1>22, NoneIsNobody DEF CloseOp, NoJob
<1>23. ASSUME NEW k \in Controllers, NEW i \in Uuids, ReapOp(k, i) PROVE Fresh'
  BY <1>23, NoneIsNobody DEF ReapOp, LiveTerminate, LiveHolders
<1>24. ASSUME NEW k \in Controllers, NEW aged \in SUBSET Uuids, PruneOp(k, aged) PROVE Fresh'
  BY <1>24, NoneIsNobody DEF PruneOp
<1>25. ASSUME NEW k \in Controllers, NEW p \in Uids, NEW i \in Uuids, TerminateOp(k, p, i) PROVE Fresh'
  BY <1>25, NoneIsNobody DEF TerminateOp
<1>26. CASE Restart
  BY <1>26, NoneIsNobody DEF Restart
<1>27. CASE UNCHANGED vars
  BY <1>27 DEF vars
<1> QED
  BY <1>1, <1>2, <1>3, <1>4, <1>5, <1>6, <1>7, <1>8, <1>9, <1>10, <1>11, <1>12, <1>13, <1>14, <1>15, <1>16, <1>17, <1>18, <1>19, <1>20, <1>21, <1>22, <1>23, <1>24, <1>25, <1>26, <1>27
     DEF Next, ThreadStep, ClientStep, ControlStep

(* What the mapping gives a connection. *)
Has(c) == IF Doomed(c) THEN {} ELSE desks[c]

LEMMA Quiet ==
  ASSUME \A c \in Conns : Has(c)' = Has(c) /\ (Going(c)' <=> Going(c))
  PROVE  AccessNext
<1>1. [c \in Conns |-> IF Doomed(c) THEN {} ELSE desks[c]]' = [c \in Conns |-> IF Doomed(c) THEN {} ELSE desks[c]]
  BY DEF Has
<1>2. {c \in Conns : Going(c)}' = {c \in Conns : Going(c)}
  OBVIOUS
<1> QED
  BY <1>1, <1>2 DEF AccessNext, Access!accessVars

LEMMA Loses ==
  ASSUME NEW c \in Conns, Has(c)' = {}, Going(c)',
         \A x \in Conns \ {c} : Has(x)' = Has(x) /\ (Going(x)' <=> Going(x))
  PROVE  AccessNext
<1> DEFINE acc == [x \in Conns |-> IF Doomed(x) THEN {} ELSE desks[x]]
           lea == {x \in Conns : Going(x)}
<1>1. \A x \in Conns : (IF Doomed(x) THEN {} ELSE desks[x])' =
                       IF x = c THEN {} ELSE IF Doomed(x) THEN {} ELSE desks[x]
  BY DEF Has
<1>2. acc' = [acc EXCEPT ![c] = {}]
  BY <1>1
<1>3. lea' = lea \cup {c}
  OBVIOUS
<1>4. Access!Lose(c)
  BY <1>2, <1>3 DEF Access!Lose
<1> QED
  BY <1>4 DEF AccessNext, Access!Next

(* A thread that moves on within the part where it may last, or within its *)
(* teardown, changes nothing of the promise.                               *)
LEMMA MovesOn ==
  ASSUME UNCHANGED <<desks, closed, victim>>,
         \A x \in Conns : pc'[x] \in Teardown \cup {"idle"} <=> pc[x] \in Teardown \cup {"idle"},
         \A x \in Conns : pc'[x] = "idle" <=> pc[x] = "idle"
  PROVE  AccessNext
<1>1. \A x \in Conns : Doomed(x)' <=> Doomed(x)
  BY DEF Doomed
<1>2. \A x \in Conns : Has(x)' = Has(x) /\ (Going(x)' <=> Going(x))
  BY <1>1 DEF Has, Going
<1> QED
  BY <1>2, Quiet

(* A thread that leaves for its teardown loses what it had. *)
LEMMA MovesOut ==
  ASSUME Invs, NEW c \in Conns, pc' = [pc EXCEPT ![c] = Out(c)],
         UNCHANGED <<desks, victim>>, \A x \in Conns \ {c} : closed'[x] = closed[x]
  PROVE  AccessNext
<1>1. pc'[c] \in Teardown /\ \A x \in Conns \ {c} : pc'[x] = pc[x]
  BY DEF Invs, Shaped, TypeOK, Out
<1>2. Doomed(c)' /\ pc'[c] # "idle"
  BY <1>1 DEF Doomed
<1>3. \A x \in Conns \ {c} : Doomed(x)' <=> Doomed(x)
  BY <1>1 DEF Doomed
<1>4. \A x \in Conns \ {c} : Has(x)' = Has(x) /\ (Going(x)' <=> Going(x))
  BY <1>1, <1>3 DEF Has, Going
<1>5. Has(c)' = {} /\ Going(c)'
  BY <1>2 DEF Has, Going
<1> QED
  BY <1>4, <1>5, Loses

(* An idle thread that is given a connection has nothing yet. *)
LEMMA MovesIn ==
  ASSUME Invs, NEW c \in Conns, pc[c] = "idle", pc' = [pc EXCEPT ![c] = "selected"],
         UNCHANGED <<desks, closed, victim>>
  PROVE  AccessNext
<1>1. desks[c] = {} /\ ~closed[c] /\ \A x \in Conns : victim[x] # c
  BY DEF Invs, Shaped, Shape, Fresh
<1>2. pc'[c] = "selected" /\ \A x \in Conns \ {c} : pc'[x] = pc[x]
  BY DEF Invs, Shaped, TypeOK
<1>3. \A x \in Conns \ {c} : Doomed(x)' <=> Doomed(x)
  BY <1>2 DEF Doomed
<1>4. ~Doomed(c)' /\ Doomed(c)
  BY <1>1, <1>2 DEF Doomed
<1>5. \A x \in Conns \ {c} : Has(x)' = Has(x) /\ (Going(x)' <=> Going(x))
  BY <1>2, <1>3 DEF Has, Going
<1>6. Has(c)' = Has(c) /\ (Going(c)' <=> Going(c))
  BY <1>1, <1>4 DEF Has, Going
<1> QED
  BY <1>5, <1>6, Quiet

(* To terminate a live connection takes its desktops away from it; KillOp  *)
(* and ReapOp do no more.                                                  *)
LEMMA Terminates ==
  ASSUME Invs, NEW i \in Uuids, LiveTerminate(i), UNCHANGED <<pc, desks, victim>>
  PROVE  AccessNext
<1>1. \A x \in Conns : closed'[x] <=> (closed[x] \/ live[i] = x)
  BY DEF LiveTerminate, Invs, Shaped, TypeOK
<1>2. \A x \in Conns : Doomed(x)' <=> (Doomed(x) \/ live[i] = x)
  BY <1>1 DEF Doomed
<1>3. \A x \in Conns : x # live[i] => Has(x)' = Has(x) /\ (Going(x)' <=> Going(x))
  BY <1>2 DEF Has, Going
<1>4. CASE live[i] = None
  BY <1>3, <1>4, NoneIsNobody, Quiet
<1>5. CASE live[i] # None
  <2>1. live[i] \in Conns /\ pc[live[i]] # "idle"
    BY <1>5 DEF Invs, Shaped, TypeOK, LiveHolders
  <2>2. PICK x \in Conns : x = live[i]
    BY <2>1
  <2>3. Has(x)' = {} /\ Going(x)'
    BY <1>2, <2>1, <2>2 DEF Has, Going
  <2>4. \A y \in Conns \ {x} : Has(y)' = Has(y) /\ (Going(y)' <=> Going(y))
    BY <1>3, <2>2
  <2> QED
    BY <2>3, <2>4, Loses
<1> QED
  BY <1>4, <1>5

(* A claim takes the desktop, unless the thread is itself about to end;    *)
(* then it only takes it from the one who had it.                          *)
LEMMA ClaimTakes ==
  ASSUME Invs, NEW c \in Conns, NEW s \in Offered, Claim(c, s)
  PROVE  AccessNext
<1> DEFINE d == DesktopId(s, uid[c], c, sent[c] + 1)
           h == slots[d]
<1>1. d \in Desktops
  BY ClaimsDesktop DEF Invs
<1>2. /\ pc[c] \in InLoop /\ pc' = [pc EXCEPT ![c] = "swapped"] /\ closed' = closed
      /\ desks' = [desks EXCEPT ![c] = @ \cup {d}]
      /\ victim' = [victim EXCEPT ![c] = IF h \in {c, Lost} THEN None ELSE h]
  BY DEF Claim, Sends
<1>3. /\ pc \in [Conns -> PCs] /\ desks \in [Conns -> SUBSET Desktops]
      /\ victim \in [Conns -> Conns \cup {None}] /\ victim[c] = None
      /\ h \in Conns \cup {None, Lost}
  BY <1>1, <1>2 DEF Invs, Shaped, TypeOK, Shape
<1>4. h \in Conns => d \in desks[h] /\ pc[h] # "idle"
  BY <1>1 DEF Invs, SlotInv, SlotHolders
<1>5. \A x \in Conns : ~Doomed(x) /\ d \in desks[x] => x = h
  BY <1>1 DEF Invs, SlotInv, OneSlotPerDesktop
<1> HIDE DEF d, h
<1>6. ASSUME NEW x \in Conns PROVE Doomed(x)' <=> (Doomed(x) \/ (x = h /\ x # c))
  <2>1. (\E y \in Conns : victim'[y] = x) <=> ((x = h /\ x # c) \/ \E y \in Conns : victim[y] = x)
    BY <1>2, <1>3, NoneIsNobody, LostIsNobody
  <2>2. closed'[x] = closed[x] /\ (pc'[x] \in Teardown \cup {"idle"} <=> pc[x] \in Teardown \cup {"idle"})
    BY <1>2, <1>3
  <2> QED
    BY <2>1, <2>2 DEF Doomed
<1>7. \A x \in Conns : pc'[x] = "idle" <=> pc[x] = "idle"
  BY <1>2, <1>3
<1>8. \A x \in Conns \ {c} : desks'[x] = desks[x]
  BY <1>2, <1>3
<1>9. ASSUME NEW x \in Conns \ {c}, x # h PROVE Has(x)' = Has(x) /\ (Going(x)' <=> Going(x))
  BY <1>6, <1>7, <1>8, <1>9 DEF Has, Going
<1>10. ASSUME NEW x \in Conns, x = h, x # c PROVE Has(x)' = {} /\ Going(x)'
  BY <1>4, <1>6, <1>7, <1>10 DEF Has, Going
<1>11. CASE Doomed(c)
  <2>1. Has(c)' = Has(c) /\ (Going(c)' <=> Going(c))
    BY <1>6, <1>7, <1>11 DEF Has, Going
  <2>2. CASE h \in Conns \ {c}
    <3>1. PICK x \in Conns : x = h /\ x # c
      BY <2>2
    <3>2. Has(x)' = {} /\ Going(x)'
      BY <1>10, <3>1
    <3>3. \A y \in Conns \ {x} : Has(y)' = Has(y) /\ (Going(y)' <=> Going(y))
      BY <1>9, <2>1, <3>1
    <3> QED
      BY <3>2, <3>3, Loses
  <2>3. CASE h \notin Conns \ {c}
    BY <1>9, <2>1, <2>3, Quiet
  <2> QED
    BY <2>2, <2>3
<1>12. CASE ~Doomed(c)
  <2> DEFINE acc == [x \in Conns |-> IF Doomed(x) THEN {} ELSE desks[x]]
             lea == {x \in Conns : Going(x)}
             displaced == {x \in Conns \ {c} : d \in acc[x]}
  <2>1. \A x \in Conns : acc[x] = Has(x) /\ (IF Doomed(x) THEN {} ELSE desks[x])' = Has(x)'
    BY DEF Has
  <2>2. Has(c)' = Has(c) \cup {d} /\ ~Going(c) /\ ~Going(c)'
    BY <1>2, <1>3, <1>6, <1>12 DEF Has, Going
  <2>3. ASSUME NEW x \in Conns \ {c}, d \in Has(x) PROVE Has(x)' = {} /\ Going(x)'
    <3>1. ~Doomed(x) /\ d \in desks[x]
      BY <2>3 DEF Has
    <3>2. x = h
      BY <1>5, <3>1
    <3> QED
      BY <1>10, <3>2
  <2>4. ASSUME NEW x \in Conns \ {c}, d \notin Has(x) PROVE Has(x)' = Has(x) /\ (Going(x)' <=> Going(x))
    <3>1. CASE x # h
      BY <1>9, <3>1
    <3>2. CASE x = h
      <4>1. Doomed(x)
        BY <1>4, <2>4, <3>2 DEF Has
      <4>2. Doomed(x)' /\ pc[x] # "idle"
        BY <1>4, <1>6, <3>2
      <4> QED
        BY <1>7, <4>1, <4>2 DEF Has, Going
    <3> QED
      BY <3>1, <3>2
  <2>5. acc' = [x \in Conns |-> CASE x = c           -> acc[c] \cup {d}
                                  [] x \in displaced -> {}
                                  [] OTHER           -> acc[x]]
    <3>1. ASSUME NEW x \in Conns
          PROVE  (IF Doomed(x) THEN {} ELSE desks[x])' =
                   CASE x = c           -> acc[c] \cup {d}
                     [] x \in displaced -> {}
                     [] OTHER           -> acc[x]
      <4> HIDE DEF Has
      <4>1. CASE x = c
        BY <2>1, <2>2, <4>1
      <4>2. CASE x # c /\ d \in Has(x)
        BY <2>1, <2>3, <4>2
      <4>3. CASE x # c /\ d \notin Has(x)
        BY <2>1, <2>4, <4>3
      <4> QED
        BY <4>1, <4>2, <4>3
    <3> QED
      BY <3>1
  <2>6. lea' = lea \cup displaced
    <3>1. ASSUME NEW x \in Conns PROVE Going(x)' <=> (Going(x) \/ x \in displaced)
      <4>1. CASE x = c
        BY <2>2, <4>1
      <4>2. CASE x # c /\ d \in Has(x)
        BY <2>1, <2>3, <4>2
      <4>3. CASE x # c /\ d \notin Has(x)
        BY <2>1, <2>4, <4>3
      <4> QED
        BY <4>1, <4>2, <4>3
    <3> QED
      BY <3>1
  <2>7. c \notin lea
    BY <2>2
  <2>8. PICK e \in Desktops : e = d
    BY <1>1
  <2>9. Access!Take(c, e)
    BY <2>5, <2>6, <2>7, <2>8 DEF Access!Take
  <2> HIDE DEF acc, lea, displaced
  <2> QED
    BY <2>9 DEF AccessNext, Access!Next
<1> QED
  BY <1>11, <1>12

(* Every step of the relay is a step of the promise, or changes nothing of *)
(* it.                                                                     *)
LEMMA AccessSim == Invs /\ [Next]_vars => AccessNext
<1> SUFFICES ASSUME Invs, [Next]_vars PROVE AccessNext
  OBVIOUS
<1> USE DEF Goto, connVars, deskVars, poolVars, bridgeVars, tableVars
<1>t. pc \in [Conns -> PCs] /\ \A x, y \in Conns : victim[x] = y => pc[x] = "swapped"
  BY NoneIsNobody DEF Invs, Shaped, TypeOK, Shape
<1>1. ASSUME NEW c \in Conns, TerminateOld(c) PROVE AccessNext
  <2>1. /\ pc' = [pc EXCEPT ![c] = "capcheck"] /\ pc[c] = "swapped"
        /\ victim' = [victim EXCEPT ![c] = None]
        /\ closed' = [x \in Conns |-> closed[x] \/ x = victim[c]]
        /\ desks' = desks
    BY <1>1 DEF TerminateOld
  <2>2. ASSUME NEW x \in Conns PROVE Doomed(x)' <=> Doomed(x)
    <3>1. CASE x = victim[c]
      BY <2>1, <3>1 DEF Doomed
    <3>2. CASE x # victim[c]
      <4>1. (\E y \in Conns : victim'[y] = x) <=> \E y \in Conns : victim[y] = x
        BY <2>1, <3>2, NoneIsNobody DEF Invs, Shaped, TypeOK
      <4>2. closed'[x] <=> closed[x]
        BY <2>1, <3>2 DEF Invs, Shaped, TypeOK
      <4>3. pc'[x] \in Teardown \cup {"idle"} <=> pc[x] \in Teardown \cup {"idle"}
        BY <1>t, <2>1
      <4> QED
        BY <4>1, <4>2, <4>3 DEF Doomed
    <3> QED
      BY <3>1, <3>2
  <2>3. \A x \in Conns : pc'[x] = "idle" <=> pc[x] = "idle"
    BY <1>t, <2>1
  <2>4. \A x \in Conns : Has(x)' = Has(x) /\ (Going(x)' <=> Going(x))
    BY <2>1, <2>2, <2>3 DEF Has, Going
  <2> QED
    BY <2>4, Quiet
<1>2. ASSUME NEW c \in Conns, Acquire(c) PROVE AccessNext
  <2>1. CASE count[uid[c]] < MaxBridges
    BY <1>2, <2>1, <1>t, MovesOn DEF Acquire
  <2>2. CASE ~(count[uid[c]] < MaxBridges)
    BY <1>2, <2>2, MovesOut DEF Acquire
  <2> QED
    BY <2>1, <2>2
<1>3. ASSUME NEW c \in Conns, LaunchBridge(c) PROVE AccessNext
  BY <1>3, <1>t, MovesOn DEF LaunchBridge
<1>4. ASSUME NEW c \in Conns, BridgeFailed(c) PROVE AccessNext
  BY <1>4, MovesOut DEF BridgeFailed
<1>5. ASSUME NEW c \in Conns, BridgeReady(c) PROVE AccessNext
  <2>1. pc[c] = "awaiting" /\ UNCHANGED <<desks, closed, victim>>
    BY <1>5 DEF BridgeReady
  <2>2. CASE pc' = [pc EXCEPT ![c] = Out(c)]
    BY <2>1, <2>2, MovesOut
  <2>3. CASE pc' = [pc EXCEPT ![c] = IF c \in told THEN "relaying" ELSE "dialed"]
    BY <2>1, <2>3, <1>t, MovesOn
  <2> QED
    BY <1>5, <2>2, <2>3 DEF BridgeReady
<1>6. ASSUME NEW c \in Conns, MarkActive(c) PROVE AccessNext
  BY <1>6, <1>t, MovesOn DEF MarkActive
<1>7. ASSUME NEW c \in Conns, RegisterLive(c) PROVE AccessNext
  BY <1>7, <1>t, MovesOn DEF RegisterLive
<1>8. ASSUME NEW c \in Conns, NoticeTerminated(c) PROVE AccessNext
  <2>1. pc' = [pc EXCEPT ![c] = Out(c)] /\ UNCHANGED <<desks, victim>>
    BY <1>8 DEF NoticeTerminated, LeaveLoop
  <2>2. \A x \in Conns \ {c} : closed'[x] = closed[x]
    BY <1>8 DEF NoticeTerminated, LeaveLoop, Invs, Shaped, TypeOK
  <2> QED
    BY <2>1, <2>2, MovesOut
<1>9. ASSUME NEW c \in Conns, MarkDisconnected(c) PROVE AccessNext
  BY <1>9, <1>t, MovesOn DEF MarkDisconnected
<1>10. ASSUME NEW c \in Conns, Unregister(c) PROVE AccessNext
  BY <1>10, <1>t, MovesOn DEF Unregister
<1>11. ASSUME NEW c \in Conns, StopBridge(c) PROVE AccessNext
  BY <1>11, <1>t, MovesOn DEF StopBridge
<1>12. ASSUME NEW c \in Conns, ReleaseSlot(c) PROVE AccessNext
  BY <1>12, <1>t, MovesOn DEF ReleaseSlot
<1>13. ASSUME NEW c \in Conns, ReleaseCount(c) PROVE AccessNext
  <2>1. /\ pc[c] = "uncount" /\ pc' = [pc EXCEPT ![c] = "idle"]
        /\ desks' = [desks EXCEPT ![c] = {}] /\ closed' = [closed EXCEPT ![c] = FALSE]
        /\ victim' = [x \in Conns |-> IF victim[x] = c THEN None ELSE victim[x]]
    BY <1>13 DEF ReleaseCount, Finish
  <2>2. ASSUME NEW x \in Conns \ {c} PROVE Doomed(x)' <=> Doomed(x)
    <3>1. (\E y \in Conns : victim'[y] = x) <=> \E y \in Conns : victim[y] = x
      BY <2>1, NoneIsNobody
    <3>2. closed'[x] = closed[x] /\ pc'[x] = pc[x]
      BY <2>1, <1>t DEF Invs, Shaped, TypeOK
    <3> QED
      BY <3>1, <3>2 DEF Doomed
  <2>3. \A x \in Conns \ {c} : pc'[x] = pc[x] /\ desks'[x] = desks[x]
    BY <2>1, <1>t DEF Invs, Shaped, TypeOK
  <2>4. \A x \in Conns \ {c} : Has(x)' = Has(x) /\ (Going(x)' <=> Going(x))
    BY <2>2, <2>3 DEF Has, Going
  <2>5. Doomed(c) /\ pc'[c] = "idle" /\ pc[c] # "idle"
    BY <2>1, <1>t DEF Doomed
  <2>6. Doomed(c)'
    BY <2>5 DEF Doomed
  <2>7. Has(c)' = Has(c) /\ Going(c) /\ ~Going(c)'
    BY <2>5, <2>6 DEF Has, Going
  <2>8. [x \in Conns |-> IF Doomed(x) THEN {} ELSE desks[x]]' = [x \in Conns |-> IF Doomed(x) THEN {} ELSE desks[x]]
    BY <2>4, <2>7 DEF Has
  <2>9. {x \in Conns : Going(x)}' = {x \in Conns : Going(x)} \ {c}
    BY <2>4, <2>7
  <2>10. Access!Gone(c)
    BY <2>7, <2>8, <2>9 DEF Access!Gone
  <2> QED
    BY <2>10 DEF AccessNext, Access!Next
<1>14. ASSUME NEW c \in Conns, Refused(c) PROVE AccessNext
  BY <1>14, MovesOut DEF Refused
<1>15. ASSUME NEW c \in Conns, Hangup(c) PROVE AccessNext
  <2>1. pc' = [pc EXCEPT ![c] = Out(c)] /\ UNCHANGED <<desks, victim>>
    BY <1>15 DEF Hangup, LeaveLoop
  <2>2. \A x \in Conns \ {c} : closed'[x] = closed[x]
    BY <1>15 DEF Hangup, LeaveLoop, Invs, Shaped, TypeOK
  <2> QED
    BY <2>1, <2>2, MovesOut
<1>16. ASSUME NEW c \in Conns, NEW u \in Uids, SelectNew(c, u) PROVE AccessNext
  BY <1>16, MovesIn DEF SelectNew
<1>17. ASSUME NEW c \in Conns, NEW u \in Uids, NEW i \in Uuids, Join(c, u, i) PROVE AccessNext
  BY <1>17, MovesIn DEF Join
<1>18. ASSUME NEW c \in Conns, NEW i \in Uuids, Ready(c, i) PROVE AccessNext
  BY <1>18, <1>t, MovesOn DEF Ready
<1>19. ASSUME NEW c \in Conns, NEW s \in Offered, ConnectDirect(c, s) PROVE AccessNext
  BY <1>19, <1>t, MovesOn DEF ConnectDirect, Sends
<1>20. ASSUME NEW c \in Conns, NEW s \in Offered, Claim(c, s) PROVE AccessNext
  BY <1>20, ClaimTakes DEF Claim
<1>21. ASSUME NEW k \in Controllers, NEW i \in Uuids, KillOp(k, i) PROVE AccessNext
  BY <1>21, Terminates DEF KillOp
<1>22. ASSUME NEW k \in Controllers, NEW i \in Uuids, CloseOp(k, i) PROVE AccessNext
  BY <1>22, <1>t, MovesOn DEF CloseOp
<1>23. ASSUME NEW k \in Controllers, NEW i \in Uuids, ReapOp(k, i) PROVE AccessNext
  BY <1>23, Terminates DEF ReapOp
<1>24. ASSUME NEW k \in Controllers, NEW aged \in SUBSET Uuids, PruneOp(k, aged) PROVE AccessNext
  BY <1>24, <1>t, MovesOn DEF PruneOp
<1>25. ASSUME NEW k \in Controllers, NEW p \in Uids, NEW i \in Uuids, TerminateOp(k, p, i) PROVE AccessNext
  BY <1>25, <1>t, MovesOn DEF TerminateOp
<1>26. CASE Restart
  <2>1. pc' = [c \in Conns |-> "idle"]
    BY <1>26 DEF Restart
  <2>2. \A c \in Conns : Doomed(c)' /\ ~Going(c)'
    BY <2>1 DEF Doomed, Going
  <2>3. Access!Crash
    BY <2>2 DEF Access!Crash
  <2> QED
    BY <2>3 DEF AccessNext, Access!Next
<1>27. CASE UNCHANGED vars
  BY <1>27, <1>t, MovesOn DEF vars
<1> QED
  BY <1>1, <1>2, <1>3, <1>4, <1>5, <1>6, <1>7, <1>8, <1>9, <1>10, <1>11, <1>12, <1>13, <1>14, <1>15, <1>16, <1>17, <1>18, <1>19, <1>20, <1>21, <1>22, <1>23, <1>24, <1>25, <1>26, <1>27
     DEF Next, ThreadStep, ClientStep, ControlStep

LEMMA InvsInit == Init => Invs
BY ShapedInit, NoneIsNobody
   DEF Init, Invs, SlotInv, SlotHolders, OneSlotPerDesktop, Doomed, LiveHolders, Fresh

LEMMA InvsStep == Invs /\ [Next]_vars => Invs'
BY ShapedStep, SlotStep, LiveStep, FreshStep DEF Invs

(* ImplementsAccess: for any connections, connects on each, users and      *)
(* control requests, the relay never does with a desktop what              *)
(* DesktopAccess does not allow.                                           *)
THEOREM AccessImplemented == Spec => ImplementsAccess
<1>1. Init => Access!Init
  BY NoneIsNobody DEF Init, Doomed, Going, Access!Init
<1> QED
  BY <1>1, InvsInit, InvsStep, AccessSim, PTL DEF Spec, ImplementsAccess, Access!Spec, AccessNext

----------------------------------------------------------------------------
(* Who ends whom.                                                          *)

(* A thread about to terminate another has claimed the desktop it takes    *)
(* from it; what a thread has claimed on anything but the console is its   *)
(* own user's, or a greeter of its own.                                    *)
Displaced ==
  \A x, c \in Conns : victim[x] = c => desk[x] \in desks[x] \cap desks[c]

IsOwn(d, u, c) ==
  \/ d[1] = "console"
  \/ \E s \in Bridged \ {"console", "greeter"} : d = <<s, u>>
  \/ \E n \in Nat : d = <<"greeter", c, n>>

OwnDesks == \A c \in Conns : \A d \in desks[c] : IsOwn(d, uid[c], c)

LEMMA DisplacedStep == Invs /\ Displaced /\ [Next]_vars => Displaced'
<1> SUFFICES ASSUME Invs, Displaced, [Next]_vars PROVE Displaced'
  OBVIOUS
<1> USE DEF Invs, Shaped, TypeOK, Shape, Displaced, Goto, connVars, deskVars, poolVars, bridgeVars, tableVars
<1>1. ASSUME NEW c \in Conns, TerminateOld(c) PROVE Displaced'
  BY <1>1, NoneIsNobody DEF TerminateOld
<1>2. ASSUME NEW c \in Conns, Acquire(c) PROVE Displaced'
  BY <1>2, NoneIsNobody DEF Acquire, Out
<1>3. ASSUME NEW c \in Conns, LaunchBridge(c) PROVE Displaced'
  BY <1>3, NoneIsNobody DEF LaunchBridge
<1>4. ASSUME NEW c \in Conns, BridgeFailed(c) PROVE Displaced'
  BY <1>4, NoneIsNobody DEF BridgeFailed, Out
<1>5. ASSUME NEW c \in Conns, BridgeReady(c) PROVE Displaced'
  BY <1>5, NoneIsNobody DEF BridgeReady, Out
<1>6. ASSUME NEW c \in Conns, MarkActive(c) PROVE Displaced'
  BY <1>6, NoneIsNobody DEF MarkActive, Mark
<1>7. ASSUME NEW c \in Conns, RegisterLive(c) PROVE Displaced'
  BY <1>7, NoneIsNobody DEF RegisterLive
<1>8. ASSUME NEW c \in Conns, NoticeTerminated(c) PROVE Displaced'
  BY <1>8, NoneIsNobody DEF NoticeTerminated, LeaveLoop, Out
<1>9. ASSUME NEW c \in Conns, MarkDisconnected(c) PROVE Displaced'
  BY <1>9, NoneIsNobody DEF MarkDisconnected, Mark
<1>10. ASSUME NEW c \in Conns, Unregister(c) PROVE Displaced'
  BY <1>10, NoneIsNobody DEF Unregister
<1>11. ASSUME NEW c \in Conns, StopBridge(c) PROVE Displaced'
  BY <1>11, NoneIsNobody DEF StopBridge
<1>12. ASSUME NEW c \in Conns, ReleaseSlot(c) PROVE Displaced'
  BY <1>12, NoneIsNobody DEF ReleaseSlot
<1>13. ASSUME NEW c \in Conns, ReleaseCount(c) PROVE Displaced'
  BY <1>13, NoneIsNobody DEF ReleaseCount, Finish
<1>14. ASSUME NEW c \in Conns, Refused(c) PROVE Displaced'
  BY <1>14, NoneIsNobody DEF Refused, Out
<1>15. ASSUME NEW c \in Conns, Hangup(c) PROVE Displaced'
  BY <1>15, NoneIsNobody DEF Hangup, LeaveLoop, Out
<1>16. ASSUME NEW c \in Conns, NEW u \in Uids, SelectNew(c, u) PROVE Displaced'
  BY <1>16, NoneIsNobody DEF SelectNew, Fresh
<1>17. ASSUME NEW c \in Conns, NEW u \in Uids, NEW i \in Uuids, Join(c, u, i) PROVE Displaced'
  BY <1>17, NoneIsNobody DEF Join, Fresh
<1>18. ASSUME NEW c \in Conns, NEW i \in Uuids, Ready(c, i) PROVE Displaced'
  BY <1>18, NoneIsNobody DEF Ready, FreshUuid
<1>19. ASSUME NEW c \in Conns, NEW s \in Offered, ConnectDirect(c, s) PROVE Displaced'
  BY <1>19, NoneIsNobody DEF ConnectDirect, Sends
<1>20. ASSUME NEW c \in Conns, NEW s \in Offered, Claim(c, s) PROVE Displaced'
  <2> DEFINE d == DesktopId(s, uid[c], c, sent[c] + 1)
  <2>1. d \in Desktops
    BY <1>20, ClaimsDesktop
  <2>2. /\ pc[c] \in InLoop /\ desk' = [desk EXCEPT ![c] = d]
        /\ desks' = [desks EXCEPT ![c] = @ \cup {d}]
        /\ victim' = [victim EXCEPT ![c] = IF slots[d] \in {c, Lost} THEN None ELSE slots[d]]
    BY <1>20 DEF Claim, Sends
  <2>3. slots[d] \in Conns => d \in desks[slots[d]]
    BY <2>1 DEF SlotInv, SlotHolders
  <2> HIDE DEF d
  <2>4. ASSUME NEW x \in Conns, NEW y \in Conns, victim'[x] = y
        PROVE  desk'[x] \in desks'[x] \cap desks'[y]
    <3>1. CASE x = c
      <4>1. y = slots[d]
        BY <2>2, <2>4, <3>1, NoneIsNobody
      <4> QED
        BY <2>2, <2>3, <3>1, <4>1
    <3>2. CASE x # c
      <4>1. victim[x] = y /\ desk'[x] = desk[x]
        BY <2>2, <2>4, <3>2
      <4>2. desks[x] \subseteq desks'[x] /\ desks[y] \subseteq desks'[y]
        BY <2>2
      <4> QED
        BY <4>1, <4>2
    <3> QED
      BY <3>1, <3>2
  <2> QED
    BY <2>4
<1>21. ASSUME NEW k \in Controllers, NEW i \in Uuids, KillOp(k, i) PROVE Displaced'
  BY <1>21, NoneIsNobody DEF KillOp, LiveTerminate
<1>22. ASSUME NEW k \in Controllers, NEW i \in Uuids, CloseOp(k, i) PROVE Displaced'
  BY <1>22, NoneIsNobody DEF CloseOp, NoJob
<1>23. ASSUME NEW k \in Controllers, NEW i \in Uuids, ReapOp(k, i) PROVE Displaced'
  BY <1>23, NoneIsNobody DEF ReapOp, LiveTerminate, NoJob
<1>24. ASSUME NEW k \in Controllers, NEW aged \in SUBSET Uuids, PruneOp(k, aged) PROVE Displaced'
  BY <1>24, NoneIsNobody DEF PruneOp
<1>25. ASSUME NEW k \in Controllers, NEW p \in Uids, NEW i \in Uuids, TerminateOp(k, p, i) PROVE Displaced'
  BY <1>25, NoneIsNobody DEF TerminateOp
<1>26. CASE Restart
  BY <1>26, NoneIsNobody DEF Restart
<1>27. CASE UNCHANGED vars
  BY <1>27 DEF vars
<1> QED
  BY <1>1, <1>2, <1>3, <1>4, <1>5, <1>6, <1>7, <1>8, <1>9, <1>10, <1>11, <1>12, <1>13, <1>14, <1>15, <1>16, <1>17, <1>18, <1>19, <1>20, <1>21, <1>22, <1>23, <1>24, <1>25, <1>26, <1>27
     DEF Next, ThreadStep, ClientStep, ControlStep

LEMMA OwnStep == Invs /\ OwnDesks /\ [Next]_vars => OwnDesks'
<1> SUFFICES ASSUME Invs, OwnDesks, [Next]_vars PROVE OwnDesks'
  OBVIOUS
<1> USE DEF Invs, Shaped, TypeOK, Shape, OwnDesks, Goto, connVars, deskVars, poolVars, bridgeVars, tableVars
<1>1. ASSUME NEW c \in Conns, TerminateOld(c) PROVE OwnDesks'
  BY <1>1 DEF TerminateOld
<1>2. ASSUME NEW c \in Conns, Acquire(c) PROVE OwnDesks'
  BY <1>2 DEF Acquire, Out
<1>3. ASSUME NEW c \in Conns, LaunchBridge(c) PROVE OwnDesks'
  BY <1>3 DEF LaunchBridge
<1>4. ASSUME NEW c \in Conns, BridgeFailed(c) PROVE OwnDesks'
  BY <1>4 DEF BridgeFailed, Out
<1>5. ASSUME NEW c \in Conns, BridgeReady(c) PROVE OwnDesks'
  BY <1>5 DEF BridgeReady, Out
<1>6. ASSUME NEW c \in Conns, MarkActive(c) PROVE OwnDesks'
  BY <1>6 DEF MarkActive, Mark
<1>7. ASSUME NEW c \in Conns, RegisterLive(c) PROVE OwnDesks'
  BY <1>7 DEF RegisterLive
<1>8. ASSUME NEW c \in Conns, NoticeTerminated(c) PROVE OwnDesks'
  BY <1>8 DEF NoticeTerminated, LeaveLoop, Out
<1>9. ASSUME NEW c \in Conns, MarkDisconnected(c) PROVE OwnDesks'
  BY <1>9 DEF MarkDisconnected, Mark
<1>10. ASSUME NEW c \in Conns, Unregister(c) PROVE OwnDesks'
  BY <1>10 DEF Unregister
<1>11. ASSUME NEW c \in Conns, StopBridge(c) PROVE OwnDesks'
  BY <1>11 DEF StopBridge
<1>12. ASSUME NEW c \in Conns, ReleaseSlot(c) PROVE OwnDesks'
  BY <1>12 DEF ReleaseSlot
<1>13. ASSUME NEW c \in Conns, ReleaseCount(c) PROVE OwnDesks'
  BY <1>13 DEF ReleaseCount, Finish
<1>14. ASSUME NEW c \in Conns, Refused(c) PROVE OwnDesks'
  BY <1>14 DEF Refused, Out
<1>15. ASSUME NEW c \in Conns, Hangup(c) PROVE OwnDesks'
  BY <1>15 DEF Hangup, LeaveLoop, Out
<1>16. ASSUME NEW c \in Conns, NEW u \in Uids, SelectNew(c, u) PROVE OwnDesks'
  BY <1>16 DEF SelectNew
<1>17. ASSUME NEW c \in Conns, NEW u \in Uids, NEW i \in Uuids, Join(c, u, i) PROVE OwnDesks'
  BY <1>17 DEF Join, MayJoin
<1>18. ASSUME NEW c \in Conns, NEW i \in Uuids, Ready(c, i) PROVE OwnDesks'
  BY <1>18 DEF Ready, FreshUuid
<1>19. ASSUME NEW c \in Conns, NEW s \in Offered, ConnectDirect(c, s) PROVE OwnDesks'
  BY <1>19 DEF ConnectDirect, Sends
<1>20. ASSUME NEW c \in Conns, NEW s \in Offered, Claim(c, s) PROVE OwnDesks'
  <2> DEFINE d == DesktopId(s, uid[c], c, sent[c] + 1)
  <2>1. /\ s \in Bridged /\ uid' = uid /\ desks' = [desks EXCEPT ![c] = @ \cup {d}]
    BY <1>20 DEF Claim
  <2>2. IsOwn(d, uid[c], c)
    <3>1. CASE s = "console"
      BY <3>1 DEF DesktopId, IsOwn
    <3>2. CASE s = "greeter"
      <4>1. sent[c] + 1 \in Nat
        BY BoundsAreNat
      <4> QED
        BY <3>2, <4>1 DEF DesktopId, IsOwn
    <3>3. CASE s \notin {"console", "greeter"}
      BY <2>1, <3>3 DEF DesktopId, IsOwn
    <3> QED
      BY <3>1, <3>2, <3>3
  <2> HIDE DEF d, IsOwn
  <2>3. ASSUME NEW x \in Conns, NEW e \in desks'[x] PROVE IsOwn(e, uid[x], x)
    <3>1. CASE x = c /\ e = d
      BY <2>2, <3>1
    <3>2. CASE ~(x = c /\ e = d)
      <4>1. e \in desks[x]
        BY <2>1, <2>3, <3>2
      <4> QED
        BY <4>1
    <3> QED
      BY <3>1, <3>2
  <2> QED
    BY <2>1, <2>3
<1>21. ASSUME NEW k \in Controllers, NEW i \in Uuids, KillOp(k, i) PROVE OwnDesks'
  BY <1>21 DEF KillOp, LiveTerminate
<1>22. ASSUME NEW k \in Controllers, NEW i \in Uuids, CloseOp(k, i) PROVE OwnDesks'
  BY <1>22 DEF CloseOp, NoJob
<1>23. ASSUME NEW k \in Controllers, NEW i \in Uuids, ReapOp(k, i) PROVE OwnDesks'
  BY <1>23 DEF ReapOp, LiveTerminate, NoJob
<1>24. ASSUME NEW k \in Controllers, NEW aged \in SUBSET Uuids, PruneOp(k, aged) PROVE OwnDesks'
  BY <1>24 DEF PruneOp
<1>25. ASSUME NEW k \in Controllers, NEW p \in Uids, NEW i \in Uuids, TerminateOp(k, p, i) PROVE OwnDesks'
  BY <1>25 DEF TerminateOp
<1>26. CASE Restart
  BY <1>26 DEF Restart
<1>27. CASE UNCHANGED vars
  BY <1>27 DEF vars
<1> QED
  BY <1>1, <1>2, <1>3, <1>4, <1>5, <1>6, <1>7, <1>8, <1>9, <1>10, <1>11, <1>12, <1>13, <1>14, <1>15, <1>16, <1>17, <1>18, <1>19, <1>20, <1>21, <1>22, <1>23, <1>24, <1>25, <1>26, <1>27
     DEF Next, ThreadStep, ClientStep, ControlStep

(* Two users never have a desktop in common, except the console. *)
LEMMA DeskTellsUser ==
  ASSUME OwnDesks, NEW x \in Conns, NEW c \in Conns,
         NEW d \in desks[x] \cap desks[c], d[1] # "console"
  PROVE  uid[x] = uid[c]
<1>1. IsOwn(d, uid[x], x) /\ IsOwn(d, uid[c], c)
  BY DEF OwnDesks
<1>2. CASE \E n \in Nat : d = <<"greeter", c, n>>
  <2>1. PICK n \in Nat : d = <<"greeter", c, n>>
    BY <1>2
  <2>2. PICK m \in Nat : d = <<"greeter", x, m>>
    <3>1. d[1] = "greeter"
      BY <2>1
    <3>2. ~ \E s \in Bridged \ {"console", "greeter"} : d = <<s, uid[x]>>
      BY <3>1
    <3> QED
      BY <1>1, <3>2 DEF IsOwn
  <2>3. d[2] = c /\ d[2] = x
    BY <2>1, <2>2
  <2> QED
    BY <2>3
<1>3. CASE \E s \in Bridged \ {"console", "greeter"} : d = <<s, uid[c]>>
  <2>1. PICK s \in Bridged \ {"console", "greeter"} : d = <<s, uid[c]>>
    BY <1>3
  <2>2. d[1] # "greeter" /\ d[2] = uid[c]
    BY <2>1
  <2>3. PICK t \in Bridged \ {"console", "greeter"} : d = <<t, uid[x]>>
    <3>1. ~ \E n \in Nat : d = <<"greeter", x, n>>
      BY <2>2
    <3> QED
      BY <1>1, <3>1 DEF IsOwn
  <2>4. d[2] = uid[x]
    BY <2>3
  <2> QED
    BY <2>2, <2>4
<1> QED
  BY <1>1, <1>2, <1>3 DEF IsOwn

Ended(c) ==
  ~closed[c] /\ closed'[c] =>
    \/ pc'[c] # pc[c]
    \/ \E k \in Controllers : uuid[c] \in ctl[k].todo /\ ctl'[k] # ctl[k]
    \/ \E x \in Conns : /\ victim[x] = c /\ victim'[x] = None
                        /\ desk[x] \in desks[c]
                        /\ desk[x][1] # "console" => uid[x] = uid[c]

LEMMA EndedStep ==
  ASSUME Invs, Displaced, OwnDesks, [Next]_vars, NEW z \in Conns PROVE Ended(z)
<1> USE DEF Ended, Goto, connVars, deskVars, poolVars, bridgeVars, tableVars
<1>t. /\ closed \in [Conns -> BOOLEAN] /\ pc \in [Conns -> PCs]
      /\ victim \in [Conns -> Conns \cup {None}]
      /\ ctl \in [Controllers -> Job]
  BY DEF Invs, Shaped, TypeOK
<1>1. ASSUME NEW c \in Conns, TerminateOld(c) PROVE Ended(z)
  <2>1. /\ closed' = [x \in Conns |-> closed[x] \/ x = victim[c]]
        /\ victim' = [victim EXCEPT ![c] = None]
    BY <1>1 DEF TerminateOld
  <2>2. ASSUME z = victim[c] PROVE Ended(z)
    <3>1. desk[c] \in desks[c] \cap desks[z]
      BY <2>2 DEF Displaced
    <3>2. victim'[c] = None
      BY <1>t, <2>1
    <3>3. desk[c][1] # "console" => uid[c] = uid[z]
      BY <3>1, DeskTellsUser
    <3> HIDE DEF PCs
    <3> QED
      BY <2>2, <3>1, <3>2, <3>3
  <2> QED
    BY <2>1, <2>2
<1>2. ASSUME NEW c \in Conns, Acquire(c) PROVE Ended(z)
  BY <1>2 DEF Acquire, Out
<1>3. ASSUME NEW c \in Conns, LaunchBridge(c) PROVE Ended(z)
  BY <1>3 DEF LaunchBridge
<1>4. ASSUME NEW c \in Conns, BridgeFailed(c) PROVE Ended(z)
  BY <1>4 DEF BridgeFailed, Out
<1>5. ASSUME NEW c \in Conns, BridgeReady(c) PROVE Ended(z)
  BY <1>5 DEF BridgeReady, Out
<1>6. ASSUME NEW c \in Conns, MarkActive(c) PROVE Ended(z)
  BY <1>6 DEF MarkActive, Mark
<1>7. ASSUME NEW c \in Conns, RegisterLive(c) PROVE Ended(z)
  BY <1>7 DEF RegisterLive
<1>8. ASSUME NEW c \in Conns, NoticeTerminated(c) PROVE Ended(z)
  <2>1. pc[c] \in InLoop /\ pc'[c] \notin InLoop
    BY <1>8, <1>t DEF NoticeTerminated, LeaveLoop, Out
  <2>2. closed' = [closed EXCEPT ![c] = TRUE]
    BY <1>8 DEF NoticeTerminated, LeaveLoop
  <2>3. z = c => pc'[z] # pc[z]
    BY <2>1
  <2> QED
    BY <1>t, <2>2, <2>3
<1>9. ASSUME NEW c \in Conns, MarkDisconnected(c) PROVE Ended(z)
  BY <1>9 DEF MarkDisconnected, Mark
<1>10. ASSUME NEW c \in Conns, Unregister(c) PROVE Ended(z)
  BY <1>10 DEF Unregister
<1>11. ASSUME NEW c \in Conns, StopBridge(c) PROVE Ended(z)
  BY <1>11 DEF StopBridge
<1>12. ASSUME NEW c \in Conns, ReleaseSlot(c) PROVE Ended(z)
  BY <1>12 DEF ReleaseSlot
<1>13. ASSUME NEW c \in Conns, ReleaseCount(c) PROVE Ended(z)
  BY <1>13, <1>t DEF ReleaseCount, Finish
<1>14. ASSUME NEW c \in Conns, Refused(c) PROVE Ended(z)
  BY <1>14 DEF Refused, Out
<1>15. ASSUME NEW c \in Conns, Hangup(c) PROVE Ended(z)
  <2>1. pc[c] \in InLoop /\ pc'[c] \notin InLoop
    BY <1>15, <1>t DEF Hangup, LeaveLoop, Out
  <2>2. closed' = [closed EXCEPT ![c] = TRUE]
    BY <1>15 DEF Hangup, LeaveLoop
  <2>3. z = c => pc'[z] # pc[z]
    BY <2>1
  <2> QED
    BY <1>t, <2>2, <2>3
<1>16. ASSUME NEW c \in Conns, NEW u \in Uids, SelectNew(c, u) PROVE Ended(z)
  BY <1>16 DEF SelectNew
<1>17. ASSUME NEW c \in Conns, NEW u \in Uids, NEW i \in Uuids, Join(c, u, i) PROVE Ended(z)
  BY <1>17 DEF Join, MayJoin
<1>18. ASSUME NEW c \in Conns, NEW i \in Uuids, Ready(c, i) PROVE Ended(z)
  BY <1>18 DEF Ready, FreshUuid
<1>19. ASSUME NEW c \in Conns, NEW s \in Offered, ConnectDirect(c, s) PROVE Ended(z)
  BY <1>19 DEF ConnectDirect, Sends
<1>20. ASSUME NEW c \in Conns, NEW s \in Offered, Claim(c, s) PROVE Ended(z)
  BY <1>20 DEF Claim, Sends
<1>21. ASSUME NEW k \in Controllers, NEW i \in Uuids, KillOp(k, i) PROVE Ended(z)
  <2>1. closed'[z] <=> closed[z] \/ live[i] = z
    BY <1>21 DEF KillOp, LiveTerminate
  <2>2. live[i] = z => uuid[z] = i
    BY NoneIsNobody DEF Invs, LiveHolders
  <2>3. i \in ctl[k].todo /\ ctl'[k] # ctl[k]
    BY <1>21, <1>t DEF KillOp, NoJob, Job
  <2> QED
    BY <2>1, <2>2, <2>3
<1>22. ASSUME NEW k \in Controllers, NEW i \in Uuids, CloseOp(k, i) PROVE Ended(z)
  BY <1>22 DEF CloseOp, NoJob
<1>23. ASSUME NEW k \in Controllers, NEW i \in Uuids, ReapOp(k, i) PROVE Ended(z)
  <2>1. closed'[z] <=> closed[z] \/ live[i] = z
    BY <1>23 DEF ReapOp, LiveTerminate
  <2>2. live[i] = z => uuid[z] = i
    BY NoneIsNobody DEF Invs, LiveHolders
  <2>3. i \in ctl[k].todo /\ ctl'[k] # ctl[k]
    BY <1>23, <1>t DEF ReapOp, NoJob, Job
  <2> QED
    BY <2>1, <2>2, <2>3
<1>24. ASSUME NEW k \in Controllers, NEW aged \in SUBSET Uuids, PruneOp(k, aged) PROVE Ended(z)
  BY <1>24 DEF PruneOp
<1>25. ASSUME NEW k \in Controllers, NEW p \in Uids, NEW i \in Uuids, TerminateOp(k, p, i) PROVE Ended(z)
  BY <1>25 DEF TerminateOp
<1>26. CASE Restart
  BY <1>26 DEF Restart
<1>27. CASE UNCHANGED vars
  BY <1>27 DEF vars
<1> QED
  BY <1>1, <1>2, <1>3, <1>4, <1>5, <1>6, <1>7, <1>8, <1>9, <1>10, <1>11, <1>12, <1>13, <1>14, <1>15, <1>16, <1>17, <1>18, <1>19, <1>20, <1>21, <1>22, <1>23, <1>24, <1>25, <1>26, <1>27
     DEF Next, ThreadStep, ClientStep, ControlStep

(* EndedOnPurpose: for any connections, connects on each, users and        *)
(* control requests.                                                       *)
THEOREM EndedOnPurposeHolds == Spec => EndedOnPurpose
<1>1. Init => Invs /\ Displaced /\ OwnDesks
  BY InvsInit, NoneIsNobody DEF Init, Displaced, OwnDesks
<1>2. Invs /\ Displaced /\ OwnDesks /\ [Next]_vars => (Invs /\ Displaced /\ OwnDesks)'
  BY InvsStep, DisplacedStep, OwnStep
<1>3. Invs /\ Displaced /\ OwnDesks /\ [Next]_vars =>
        [\A c \in Conns : ~closed[c] /\ closed'[c] =>
           \/ pc'[c] # pc[c]
           \/ \E k \in Controllers : uuid[c] \in ctl[k].todo /\ ctl'[k] # ctl[k]
           \/ \E x \in Conns : /\ victim[x] = c /\ victim'[x] = None
                               /\ desk[x] \in desks[c]
                               /\ desk[x][1] # "console" => uid[x] = uid[c] ]_vars
  BY EndedStep DEF Ended
<1> QED
  BY <1>1, <1>2, <1>3, PTL DEF Spec, EndedOnPurpose
=============================================================================
