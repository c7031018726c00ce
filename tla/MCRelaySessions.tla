-------------------------- MODULE MCRelaySessions --------------------------
(* Small instances of RelaySessions for TLC. *)
EXTENDS RelaySessions, TLC

(* Connections, and guacd ids, are interchangeable; so are users where all *)
(* of them or none are admins.  Used by RelaySafety alone, where all are.  *)
Symmetry == Permutations(Conns) \cup Permutations(Uuids) \cup Permutations(Uids)
=============================================================================
