------------------------ MODULE DesktopAccess_proofs ------------------------
(***************************************************************************)
(* What the promise of DesktopAccess amounts to, for any connections and   *)
(* desktops.                                                               *)
(***************************************************************************)
EXTENDS DesktopAccess, TLAPS

AccessInv == AccessTypeOK /\ OnlyOneHasAccess

LEMMA AccessStep ==
  ASSUME AccessInv, [Next]_accessVars PROVE AccessInv'
<1> USE DEF AccessInv, AccessTypeOK, OnlyOneHasAccess
<1>1. ASSUME NEW c \in Conns, Lose(c) PROVE AccessInv'
  BY <1>1 DEF Lose
<1>2. ASSUME NEW c \in Conns, Gone(c) PROVE AccessInv'
  BY <1>2 DEF Gone
<1>3. ASSUME NEW c \in Conns, NEW d \in Desktops, Take(c, d) PROVE AccessInv'
  BY <1>3 DEF Take
<1>4. CASE Crash
  BY <1>4 DEF Crash
<1>5. CASE UNCHANGED accessVars
  BY <1>5 DEF accessVars
<1> QED
  BY <1>1, <1>2, <1>3, <1>4, <1>5 DEF Next

(* OnlyOneHasAccess: no desktop has two connections, and none that is      *)
(* leaving has one.                                                        *)
THEOREM OnlyOneHasAccessHolds == Spec => []OnlyOneHasAccess
<1>1. Init => AccessInv
  BY DEF Init, AccessInv, AccessTypeOK, OnlyOneHasAccess
<1>2. AccessInv /\ [Next]_accessVars => AccessInv'
  BY AccessStep
<1>3. AccessInv => OnlyOneHasAccess
  BY DEF AccessInv
<1> QED
  BY <1>1, <1>2, <1>3, PTL DEF Spec
=============================================================================
