--------------------------- MODULE DesktopAccess ---------------------------
(***************************************************************************)
(* What the relay promises its users about desktops, without its locks,    *)
(* tables and threads (DesktopSlots: "A new connection to an occupied      *)
(* desktop TAKES OVER", "only one slot has access").  A connection has     *)
(* access to desktops, or it is on its way out; from there it only goes.   *)
(* RelaySessions implements this module.                                   *)
(***************************************************************************)
CONSTANTS
  Conns,     \* connections
  Desktops   \* what they connect to

VARIABLES
  access,    \* connection -> the desktops it has access to
  leaving    \* connections on their way out

accessVars == <<access, leaving>>

Init ==
  /\ access = [c \in Conns |-> {}]
  /\ leaving = {}

(* Whoever has the desktop loses it, and every other it has, in the very   *)
(* step in which c gets it.                                                *)
Take(c, d) ==
  LET displaced == {x \in Conns \ {c} : d \in access[x]} IN
  /\ c \notin leaving
  /\ access' = [x \in Conns |-> CASE x = c           -> access[c] \cup {d}
                                  [] x \in displaced -> {}
                                  [] OTHER           -> access[x]]
  /\ leaving' = leaving \cup displaced

(* Its user ends it, an admin or the reaper does, its desktop fails -- or  *)
(* it is displaced by one that is itself leaving.                          *)
Lose(c) ==
  /\ access' = [access EXCEPT ![c] = {}]
  /\ leaving' = leaving \cup {c}

(* What it held is free again. *)
Gone(c) ==
  /\ c \in leaving
  /\ leaving' = leaving \ {c}
  /\ UNCHANGED access

(* The relay is started again. *)
Crash ==
  /\ access' = [c \in Conns |-> {}]
  /\ leaving' = {}

Next ==
  \/ \E c \in Conns : Lose(c) \/ Gone(c) \/ \E d \in Desktops : Take(c, d)
  \/ Crash

Spec == Init /\ [][Next]_accessVars

(* A connection on its way out is gone in the end. *)
FairSpec == Spec /\ \A c \in Conns : WF_accessVars(Gone(c))

-----------------------------------------------------------------------------
AccessTypeOK ==
  /\ access \in [Conns -> SUBSET Desktops]
  /\ leaving \subseteq Conns

(* No desktop is ever accessible through two connections, and none has     *)
(* access that is leaving.                                                 *)
OnlyOneHasAccess ==
  /\ \A c, x \in Conns : access[c] \cap access[x] # {} => c = x
  /\ \A c \in leaving : access[c] = {}
=============================================================================
