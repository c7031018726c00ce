---------------------------- MODULE MCSelfUpdate ----------------------------
(* Small instances of SelfUpdate for TLC. *)
EXTENDS SelfUpdate

(* Runs in which deploy.sh never fails and no script is killed. *)
Smooth == /\ Next
          /\ ~DeployFails /\ ~DeployTimesOut
          /\ \A p \in Scripts : Killed(p) => pc[p] = "done"
SmoothSpec == Init /\ [][Smooth]_vars
=============================================================================
