--------------------------- MODULE RemoteTargets ---------------------------
(***************************************************************************)
(* Where a connection is sent: the allow-list EDY_RDP_REMOTE_ALLOW and the *)
(* target of each scenario.  An address block is the set of its hosts, so  *)
(* that "any" is all of them and "*" all ports.                            *)
(***************************************************************************)
EXTENDS Integers

CONSTANTS
  Hosts,      \* IPv4 hosts, this one's loopback address among them
  Ports,      \* TCP ports
  AllowSpec,  \* the entries of EDY_RDP_REMOTE_ALLOW, as written
  None

Loopback          == "127.0.0.1"
RemoteDefaultPort == 3389

(* An entry may be unreadable (a name, IPv6, a bad mask); `ports` is empty *)
(* if it names none.                                                       *)
EntryForm == [readable : BOOLEAN, net : SUBSET Hosts, ports : SUBSET Ports]

ASSUME AllowSpecAssumption == AllowSpec \subseteq EntryForm
ASSUME LocalTargets == Loopback \in Hosts /\ {RemoteDefaultPort, 3390} \subseteq Ports

(* parse_remote_allow(): unreadable entries are skipped. *)
RemoteAllow ==
  {[net   |-> e.net,
    ports |-> IF e.ports = {} THEN {RemoteDefaultPort} ELSE e.ports] :
     e \in {f \in AllowSpec : f.readable}}

(* remote_target_allowed() *)
TargetAllowed_AnyPort(host, port) == \E e \in RemoteAllow : host \in e.net

TargetAllowed(host, port) == \E e \in RemoteAllow : host \in e.net /\ port \in e.ports

(* What a browser asks for: a host and port, or something that is neither  *)
(* (_parse_remote_target() refuses it).                                    *)
Asked == [host : Hosts, port : Ports] \cup {None}

(* Whom a connection dials, and whose credential it hands over: the one    *)
(* the relay manages, the client's, or none.                               *)
Target == [host : Hosts, port : Ports, cred : {"managed", "client", "none"}]

Local(port, cred) == [host |-> Loopback, port |-> port, cred |-> cred]

RemoteTarget(asked) ==
  IF asked # None /\ TargetAllowed(asked.host, asked.port)
  THEN {[host |-> asked.host, port |-> asked.port, cred |-> "client"]}
  ELSE {}

(* _grd_target(), and the scenarios that need no bridge: what may be       *)
(* dialled; nothing, if the target is refused.  A desktop of the user's    *)
(* own is at the port its start published.                                 *)
Targets(scenario, asked) ==
  CASE scenario \in {"console", "virtual"} -> {Local(3389, "client")}
    [] scenario = "greeter"                -> {Local(3390, "client")}
    [] scenario = "isolated"               -> {Local(p, "managed") : p \in Ports}
    [] scenario = "wayland-vnc"            -> {Local(p, "none") : p \in Ports}
    [] scenario \in {"remote", "vnc"}      -> RemoteTarget(asked)
    [] OTHER                               -> {}
=============================================================================
