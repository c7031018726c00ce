--------------------------- MODULE MCConnectGates ---------------------------
(* A small instance of ConnectGates for TLC: one address block listed with *)
(* no port, one with two, one entry nobody can read.                       *)
EXTENDS ConnectGates

CONSTANTS h1, h2

MCHosts == {Loopback, h1, h2}
MCPorts == {3389, 3390, 5900}

MCAllowSpec ==
  {[readable |-> TRUE,  net |-> {h1},     ports |-> {}],
   [readable |-> TRUE,  net |-> {h1},     ports |-> {5900}],
   [readable |-> FALSE, net |-> {h1, h2}, ports |-> {3390}]}
=============================================================================
