------------------------ MODULE UpdateStatus_proofs ------------------------
(* Proofs about UpdateStatus, for every number of releases and whoever can *)
(* write the cache.                                                        *)
EXTENDS UpdateStatus, TLAPS

(* A check the relay started knows the outcome the cache shows, unless it  *)
(* read the cache before that outcome got there.                           *)
KnowsOutcome ==
  \A k \in InRelay : check[k] # None /\ k \notin early => check[k].applied = Read("applied")

IInv == TypeOK /\ KnowsOutcome

-----------------------------------------------------------------------------
(* What is read from the cache has the type of what a check keeps. *)
LEMMA ReadType ==
  ASSUME TypeOK
  PROVE  Read("latest") \in Versions \cup {None} /\ Read("applied") \in Results \cup {None}
BY NoneIsNothing DEF TypeOK, Read, EntrySet

(* Starting a check keeps the table of checks well-typed. *)
LEMMA AskingType ==
  ASSUME TypeOK, NEW k \in Checks, NEW a \in Results \cup {None}
  PROVE  Asking(k, a) \in [Checks -> ReadSet \cup {None}]
<1>1. [latest |-> Read("latest"), applied |-> a] \in ReadSet
  BY ReadType DEF ReadSet
<1>2. QED
  BY <1>1 DEF Asking, TypeOK

(* Whoever writes, the cache keeps its type. *)
LEMMA WriteType ==
  ASSUME TypeOK, NEW k \in Checks, check[k] # None, Write(k)
  PROVE  cache' \in EntrySet \cup {None}
<1>1. check[k] \in ReadSet
  BY DEF TypeOK
<1>2. Entry(k) \in EntrySet
  <2>1. Found => release \in Versions
    BY DEF Found, TypeOK
  <2>2. (Found /\ release > conf) \in BOOLEAN
    OBVIOUS
  <2>3. QED
    BY <1>1, <2>1, <2>2 DEF Entry, EntrySet, ReadSet
<1>3. QED
  BY <1>2 DEF Write, TypeOK

(* A new relay has no checks; the script's goes on. *)
LEMMA NewRelayType ==
  ASSUME TypeOK, NEW runs \in BOOLEAN, NewRelay(runs)
  PROVE  /\ up' \in BOOLEAN /\ refreshing' \in BOOLEAN /\ early' \subseteq InRelay
         /\ check' \in [Checks -> ReadSet \cup {None}]
         /\ \A k \in InRelay : check'[k] = None
BY DEF TypeOK, NewRelay, InRelay, Checks

-----------------------------------------------------------------------------
LEMMA InitType == Init => IInv
<1> SUFFICES ASSUME Init PROVE IInv
  OBVIOUS
<1>1. conf \in Versions
  BY VersionsAssumption DEF Init, Versions
<1>2. TypeOK
  BY <1>1 DEF Init, TypeOK, Idle, Units
<1>3. KnowsOutcome
  BY DEF Init, KnowsOutcome, InRelay, Checks
<1> QED
  BY <1>2, <1>3 DEF IInv

(* Every step keeps the types. *)
LEMMA NextType ==
  ASSUME TypeOK, [Next]_vars
  PROVE  TypeOK'
<1> USE DEF TypeOK, Units
<1>1. CASE StartRefresh
  BY <1>1, ReadType, AskingType DEF StartRefresh, host, world, InRelay, Checks
<1>2. CASE StartForced
  BY <1>2, ReadType, AskingType DEF StartForced, host, world, InRelay, Checks
<1>3. ASSUME NEW k \in InRelay, Finish(k), refreshing' \in BOOLEAN
      PROVE  TypeOK'
  <2>1. cache' \in EntrySet \cup {None}
    BY <1>3, WriteType DEF Finish, Checks
  <2>2. early' \subseteq InRelay
    BY <1>3 DEF Finish, UnderWay
  <2>3. check' \in [Checks -> ReadSet \cup {None}]
    BY <1>3 DEF Finish
  <2> QED
    BY <1>3, <2>1, <2>2, <2>3 DEF Finish, host, world
<1>4. CASE FinishRefresh
  BY <1>3, <1>4 DEF FinishRefresh, InRelay
<1>5. CASE FinishForced
  BY <1>3, <1>5 DEF FinishForced, InRelay
<1>6. CASE CacheAges
  <2>1. cache \in EntrySet
    BY <1>6 DEF CacheAges
  <2>2. cache' \in EntrySet
    BY <1>6, <2>1 DEF CacheAges, EntrySet
  <2> QED
    BY <1>6, <2>2 DEF CacheAges, host, world, relay
<1>7. CASE RequestApply \/ RequestRollback \/ StartedByHand \/ NothingToApply \/ NothingToUndo
  <2>1. (\E kind \in {"apply", "rollback"} : Starts(kind)) \/ unit' = Idle
    BY <1>7 DEF RequestApply, RequestRollback, StartedByHand, NothingToApply, NothingToUndo
  <2>2. unit' \in Units
    BY <2>1 DEF Starts, Idle
  <2>3. UNCHANGED <<host, world, relay, cache>>
    BY <1>7 DEF RequestApply, RequestRollback, StartedByHand, NothingToApply, NothingToUndo
  <2> QED
    BY <2>2, <2>3 DEF host, world, relay
<1>8. CASE Installs
  BY <1>8 DEF Installs, Found, Goto, world, relay
<1>b. ASSUME BackTo PROVE conf' \in Versions \cup {Unversioned} /\ deployed' \subseteq Versions
  BY <1>b DEF BackTo
<1>9. CASE Undo \/ UndoFails
  <2>1. conf' \in Versions \cup {Unversioned} /\ deployed' \subseteq Versions
    BY <1>9, <1>b DEF Undo, UndoFails, host
  <2>2. unit' \in Units /\ UNCHANGED <<world, relay, cache>>
    BY <1>9 DEF Undo, UndoFails, Goto
  <2> QED
    BY <2>1, <2>2 DEF world, relay
<1>10. CASE RestartRelay
  <2>1. unit' \in Units
    <3>1. unit.at \in {"installed", "undone", "broken"}
      BY <1>10 DEF RestartRelay, AfterRestart
    <3>2. AfterRestart[unit.at] \in {"restarted", "over", "lost"}
      BY <3>1 DEF AfterRestart
    <3> QED
      BY <1>10, <3>2 DEF RestartRelay, Goto
  <2>2. CASE NewRelay(TRUE)
    BY <1>10, <2>1, <2>2, NewRelayType DEF RestartRelay, host, world
  <2>3. CASE NewRelay(FALSE)
    BY <1>10, <2>1, <2>3, NewRelayType DEF RestartRelay, host, world
  <2>4. CASE UNCHANGED relay
    BY <1>10, <2>1, <2>4 DEF RestartRelay, host, world, relay
  <2> QED
    BY <1>10, <2>2, <2>3, <2>4 DEF RestartRelay
<1>11. ASSUME NEW a \in Results, Record(a) PROVE
         /\ check' \in [Checks -> ReadSet \cup {None}]
         /\ unit' \in Units
  BY <1>11, AskingType DEF Record, Goto, Checks
<1>12. CASE Healthy
  BY <1>11, <1>12 DEF Healthy, Results, host, world
<1>13. CASE Unhealthy
  BY <1>11, <1>13 DEF Unhealthy, Results, Goto, host, world
<1>14. CASE Recorded
  <2>1. cache' \in EntrySet \cup {None}
    BY <1>14, WriteType DEF Recorded, Checks
  <2> QED
    BY <1>14, <2>1 DEF Recorded, Idle, UnderWay, host, world
<1>15. CASE Stops
  <2>1. conf' \in Versions \cup {Unversioned} /\ deployed' \subseteq Versions
    <3>1. CASE UNCHANGED host
      BY <3>1 DEF host
    <3>2. CASE Found /\ deployed' = deployed \cup {release} /\ conf' \in deployed' \cup {Unversioned}
      BY <3>2 DEF Found
    <3> QED
      BY <1>15, <1>b, <3>1, <3>2 DEF Stops
  <2>2. unit' = Idle /\ check' = [check EXCEPT !["script"] = None]
        /\ UNCHANGED <<world, up, refreshing, early, cache>>
    BY <1>15 DEF Stops
  <2> QED
    BY <2>1, <2>2 DEF Idle, world
<1>16. CASE RelayStarts
  BY <1>16, NewRelayType DEF RelayStarts, host, world
<1>17. CASE RelayDies
  BY <1>17, NewRelayType DEF RelayDies, host, world
<1>18. CASE Publish \/ GitHubComesOrGoes \/ LuckTurns
  BY <1>18 DEF Publish, GitHubComesOrGoes, LuckTurns, host, relay
<1>19. CASE UNCHANGED vars
  BY <1>19 DEF vars, host, world, relay
<1> QED
  BY <1>1, <1>2, <1>4, <1>5, <1>6, <1>7, <1>8, <1>9, <1>10, <1>12, <1>13, <1>14, <1>15,
     <1>16, <1>17, <1>18, <1>19 DEF Next, Script

-----------------------------------------------------------------------------
(* The checks of the relay that go on know what they knew, and nothing has *)
(* become early again that was not.                                        *)
LEMMA SameOutcome ==
  ASSUME KnowsOutcome, Read("applied")' = Read("applied"),
         \A k \in InRelay : check'[k] # None /\ k \notin early' =>
           k \notin early /\ check'[k] = check[k]
  PROVE  KnowsOutcome'
BY DEF KnowsOutcome

(* A check that starts reads the outcome the cache shows. *)
LEMMA StartKnows ==
  ASSUME TypeOK, KnowsOutcome, NEW k \in InRelay, check' = Asking(k, Read("applied")),
         UNCHANGED <<cache, early>>
  PROVE  KnowsOutcome'
<1>1. Read("applied")' = Read("applied")
  BY DEF Read
<1>2. check'[k].applied = Read("applied")
  BY DEF Asking, TypeOK, InRelay, Checks
<1>3. \A c \in InRelay \ {k} : check'[c] = check[c]
  BY DEF Asking, TypeOK, InRelay, Checks
<1> QED
  BY <1>1, <1>2, <1>3 DEF KnowsOutcome

(* A check that writes puts back what all the others know, or leaves them  *)
(* early.                                                                  *)
LEMMA FinishKnows ==
  ASSUME TypeOK, KnowsOutcome, NEW k \in InRelay, Finish(k)
  PROVE  KnowsOutcome'
<1>1. check'[k] = None /\ \A c \in InRelay \ {k} : check'[c] = check[c]
  BY DEF Finish, TypeOK, InRelay, Checks
<1>2. CASE k \in early /\ "relay" \in Writers
  BY <1>1, <1>2 DEF Finish, UnderWay, KnowsOutcome
<1>3. CASE ~(k \in early /\ "relay" \in Writers)
  <2>1. early' = early \ {k}
    BY <1>3 DEF Finish
  <2>2. Read("applied")' = Read("applied")
    <3>1. CASE "relay" \notin Writers
      BY <3>1 DEF Finish, Write, Writer, Read, InRelay
    <3>2. CASE k \notin early /\ "relay" \in Writers
      <4>1. cache' = Entry(k)
        BY <3>2 DEF Finish, Write, Writer, InRelay
      <4>2. cache' \in EntrySet
        <5>1. check[k] # None /\ Write(k)
          BY DEF Finish
        <5>2. cache' \in EntrySet \cup {None}
          BY <5>1, WriteType DEF InRelay, Checks
        <5>3. cache'.applied = check[k].applied /\ check[k] \in ReadSet
          BY <4>1, <5>1 DEF Entry, TypeOK, InRelay, Checks
        <5>4. Entry(k) \in EntrySet
          <6>1. Found => release \in Versions
            BY DEF Found, TypeOK
          <6>2. QED
            BY <5>3, <6>1 DEF Entry, EntrySet, ReadSet
        <5> QED
          BY <4>1, <5>4
      <4>3. Read("applied")' = check[k].applied
        BY <4>1, <4>2, NoneIsNothing DEF Read, Entry
      <4>4. check[k].applied = Read("applied")
        BY <3>2 DEF KnowsOutcome, Finish
      <4> QED
        BY <4>3, <4>4
    <3> QED
      BY <1>3, <3>1, <3>2
  <2> QED
    BY <1>1, <2>1, <2>2, SameOutcome
<1> QED
  BY <1>2, <1>3

(* Every step keeps what the checks know. *)
LEMMA NextKnows ==
  ASSUME TypeOK, KnowsOutcome, [Next]_vars
  PROVE  KnowsOutcome'
<1>1. CASE StartRefresh
  BY <1>1, StartKnows DEF StartRefresh, InRelay
<1>2. CASE StartForced
  BY <1>2, StartKnows DEF StartForced, InRelay
<1>3. CASE FinishRefresh \/ FinishForced
  BY <1>3, FinishKnows DEF FinishRefresh, FinishForced, InRelay
<1>4. CASE CacheAges
  <2>1. cache \in EntrySet /\ cache' \in EntrySet /\ cache'.applied = cache.applied
    BY <1>4 DEF CacheAges, TypeOK, EntrySet
  <2>2. Read("applied")' = Read("applied")
    BY <2>1, NoneIsNothing DEF Read
  <2> QED
    BY <1>4, <2>2, SameOutcome DEF CacheAges, relay
<1>5. ASSUME UNCHANGED <<cache, early>>, \A k \in InRelay : check'[k] = check[k]
      PROVE  KnowsOutcome'
  BY <1>5 DEF KnowsOutcome, Read
<1>6. CASE RequestApply \/ RequestRollback \/ StartedByHand \/ NothingToApply \/ NothingToUndo
           \/ Installs \/ Undo \/ UndoFails
  BY <1>5, <1>6 DEF RequestApply, RequestRollback, StartedByHand, NothingToApply, NothingToUndo,
              Installs, Undo, UndoFails, relay
<1>7. ASSUME NEW runs \in BOOLEAN, NewRelay(runs), cache' = cache
      PROVE  KnowsOutcome'
  BY <1>7, NewRelayType DEF KnowsOutcome
<1>8. CASE RestartRelay
  BY <1>5, <1>7, <1>8 DEF RestartRelay, relay
<1>9. CASE RelayStarts \/ RelayDies
  BY <1>7, <1>9 DEF RelayStarts, RelayDies
<1>10. ASSUME NEW a, Record(a) PROVE \A k \in InRelay : check'[k] = check[k]
  BY <1>10 DEF Record, Asking, TypeOK, InRelay, Checks
<1>11. CASE Healthy
  BY <1>5, <1>10, <1>11 DEF Healthy
<1>12. CASE Unhealthy
  BY <1>5, <1>10, <1>12 DEF Unhealthy
<1>13. CASE Stops
  <2>1. \A k \in InRelay : check'[k] = check[k]
    BY <1>13 DEF Stops, TypeOK, InRelay, Checks
  <2> QED
    BY <1>5, <1>13, <2>1 DEF Stops
<1>14. CASE Recorded
  BY <1>14 DEF Recorded, KnowsOutcome, UnderWay, TypeOK, InRelay, Checks
<1>15. CASE Publish \/ GitHubComesOrGoes \/ LuckTurns
  BY <1>5, <1>15 DEF Publish, GitHubComesOrGoes, LuckTurns, relay
<1>16. CASE UNCHANGED vars
  BY <1>5, <1>16 DEF vars, relay
<1> QED
  BY <1>1, <1>2, <1>3, <1>4, <1>6, <1>8, <1>9, <1>11, <1>12, <1>13, <1>14, <1>15, <1>16
  DEF Next, Script

LEMMA Invariance == Spec => []IInv
<1>1. Init => IInv
  BY InitType
<1>2. IInv /\ [Next]_vars => IInv'
  BY NextType, NextKnows DEF IInv
<1> QED
  BY <1>1, <1>2, PTL DEF Spec

(* Every variable keeps its type, in every reachable state. *)
THEOREM TypesHold == Spec => []TypeOK
BY Invariance, PTL DEF IInv

(* A check that is not early writes the outcome the cache shows. *)
LEMMA FinishShows ==
  ASSUME TypeOK, KnowsOutcome, NEW k \in InRelay, Finish(k), cache # None, k \notin early
  PROVE  cache'.applied = cache.applied
<1>1. CASE cache' = cache
  BY <1>1
<1>2. CASE cache' = Entry(k)
  <2>1. check[k].applied = Read("applied")
    BY DEF KnowsOutcome, Finish
  <2>2. Read("applied") = cache.applied
    BY DEF Read
  <2> QED
    BY <1>2, <2>1, <2>2 DEF Entry
<1> QED
  BY <1>1, <1>2 DEF Finish, Write

(* The outcome shown changes only when a script records another, or when a *)
(* check writes that had read the cache before it was there.               *)
THEOREM OutcomeShownHolds == Spec => OutcomeShown
<1> DEFINE A == cache # None => \/ cache'.applied = cache.applied
                                \/ check["script"] # None /\ check'["script"] = None
                                \/ \E k \in early : check[k] # None /\ check'[k] = None
<1>1. ASSUME IInv, [Next]_vars PROVE [A]_vars
  <2> USE <1>1 DEF IInv
  <2> SUFFICES ASSUME Next, cache # None, cache' # cache PROVE A
    BY DEF vars
  <2>1. ASSUME NEW k \in InRelay, Finish(k) PROVE A
    <3>1. CASE k \in early
      BY <2>1, <3>1 DEF Finish, TypeOK, InRelay, Checks
    <3>2. CASE k \notin early
      BY <2>1, <3>2, FinishShows
    <3> QED
      BY <3>1, <3>2
  <2>2. CASE FinishRefresh \/ FinishForced
    BY <2>1, <2>2 DEF FinishRefresh, FinishForced, InRelay
  <2>3. CASE CacheAges
    BY <2>3 DEF CacheAges, TypeOK, EntrySet
  <2>4. CASE Recorded
    BY <2>4 DEF Recorded, TypeOK, Checks
  <2>5. ~(StartRefresh \/ StartForced \/ RequestApply \/ RequestRollback \/ StartedByHand)
    BY DEF StartRefresh, StartForced, RequestApply, RequestRollback, StartedByHand
  <2>6. ~(NothingToApply \/ Installs \/ NothingToUndo \/ Undo \/ UndoFails \/ RestartRelay
          \/ Healthy \/ Unhealthy)
    BY DEF NothingToApply, Installs, NothingToUndo, Undo, UndoFails, RestartRelay, Healthy, Unhealthy
  <2>7. ~(Stops \/ RelayStarts \/ RelayDies \/ Publish \/ GitHubComesOrGoes \/ LuckTurns)
    BY DEF Stops, RelayStarts, RelayDies, Publish, GitHubComesOrGoes, LuckTurns
  <2> QED
    BY <2>2, <2>3, <2>4, <2>5, <2>6, <2>7 DEF Next, Script
<1>2. QED
  BY <1>1, Invariance, PTL DEF Spec, OutcomeShown

-----------------------------------------------------------------------------
(* RefreshNotStuck: for any timing of requests, restarts and lost writes.  *)
THEOREM RefreshNotStuckHolds == Spec => []RefreshNotStuck
<1>1. Init => RefreshNotStuck
  BY DEF Init, RefreshNotStuck, Checks, InRelay
<1>2. ASSUME TypeOK, RefreshNotStuck, [Next]_vars PROVE RefreshNotStuck'
  <2> USE <1>2 DEF RefreshNotStuck
  <2>1. CASE StartRefresh
    <3>1. check'["refresh"] = [latest |-> Read("latest"), applied |-> Read("applied")]
      BY <2>1 DEF StartRefresh, Asking, TypeOK, Checks, InRelay
    <3>2. check'["refresh"] \in ReadSet
      BY <3>1, ReadType DEF ReadSet
    <3> QED
      BY <2>1, <3>2, NoneIsNothing DEF StartRefresh
  <2>2. CASE FinishRefresh
    BY <2>2 DEF FinishRefresh, Finish, TypeOK, Checks, InRelay
  <2>3. ASSUME NEW runs \in BOOLEAN, NewRelay(runs) PROVE RefreshNotStuck'
    BY <2>3, NewRelayType DEF NewRelay, InRelay
  <2>4. CASE RestartRelay
    <3>1. NewRelay(TRUE) \/ NewRelay(FALSE) \/ UNCHANGED relay
      BY <2>4 DEF RestartRelay
    <3>2. UNCHANGED relay => RefreshNotStuck'
      BY DEF relay
    <3> QED
      BY <2>3, <3>1, <3>2
  <2>5. CASE RelayStarts \/ RelayDies
    BY <2>3, <2>5 DEF RelayStarts, RelayDies
  <2>6. ASSUME refreshing' = refreshing, check'["refresh"] = check["refresh"]
        PROVE  RefreshNotStuck'
    BY <2>6
  <2>7. CASE StartForced
    BY <2>6, <2>7 DEF StartForced, Asking, TypeOK, Checks, InRelay
  <2>8. CASE FinishForced
    BY <2>6, <2>8 DEF FinishForced, Finish, TypeOK, Checks, InRelay
  <2>9. CASE Stops
    BY <2>6, <2>9 DEF Stops, TypeOK, Checks, InRelay
  <2>10. CASE Recorded
    BY <2>6, <2>10 DEF Recorded, TypeOK, Checks, InRelay
  <2>11. ASSUME NEW a, Record(a) PROVE check'["refresh"] = check["refresh"]
    BY <2>11 DEF Record, Asking, TypeOK, Checks, InRelay
  <2>12. CASE Healthy
    BY <2>6, <2>11, <2>12 DEF Healthy
  <2>13. CASE Unhealthy
    BY <2>6, <2>11, <2>13 DEF Unhealthy
  <2>14. CASE RequestApply \/ RequestRollback \/ StartedByHand \/ NothingToApply \/ NothingToUndo
              \/ Installs \/ Undo \/ UndoFails
    BY <2>6, <2>14 DEF RequestApply, RequestRollback, StartedByHand, NothingToApply,
                       NothingToUndo, Installs, Undo, UndoFails, relay
  <2>15. CASE CacheAges \/ Publish \/ GitHubComesOrGoes \/ LuckTurns \/ UNCHANGED vars
    BY <2>6, <2>15 DEF CacheAges, Publish, GitHubComesOrGoes, LuckTurns, vars, relay
  <2> QED
    BY <2>1, <2>2, <2>4, <2>5, <2>7, <2>8, <2>9, <2>10, <2>12, <2>13, <2>14, <2>15
       DEF Next, Script
<1> QED
  BY <1>1, <1>2, TypesHold, PTL DEF Spec

=============================================================================
