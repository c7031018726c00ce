------------------------- MODULE MCHeadlessDesktop -------------------------
(* Small instances of HeadlessDesktop for TLC. *)
EXTENDS HeadlessDesktop, TLC

(* Connections are interchangeable.  Used by the safety run only. *)
Symmetry == Permutations(Conns)
=============================================================================
