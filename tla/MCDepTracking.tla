--------------------------- MODULE MCDepTracking ---------------------------
(* A host with one tracked requirement, met by the second of two distro    *)
(* packages; its minimum has a component more than one of the versions.    *)
EXTENDS DepTracking

P(name, arch, number) == [name |-> name, arch |-> arch, version |-> [number |-> number]]

MCRequired   == {"guacd"}
MCMinimum    == [r \in MCRequired |-> <<4, 0>>]
MCCandidates == [r \in MCRequired |-> <<"guacd-ng", "guacd">>]

(* 3.9 and 4 of two architectures, and the former replaced by an older 3.8. *)
Multi == <<P("guacd", "x86", <<3, 9>>), P("guacd", "x64", <<4>>)>>
Old86 == <<P("guacd", "x86", <<3, 8>>), P("guacd", "x64", <<4>>)>>
MCInventories == {Multi, Old86}
=============================================================================
