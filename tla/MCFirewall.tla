----------------------------- MODULE MCFirewall -----------------------------
(***************************************************************************)
(* A small network: a NAS, of which one target names a port, in a local    *)
(* network that another target covers, a host of the internet, the         *)
(* built-in Internet target and a target that is the server itself.        *)
(***************************************************************************)
EXTENDS Firewall, TLC

CONSTANTS p1, p2, everyone, staff, nas, web, dns, server, samba, lan, internet

MCPeers == {p1, p2}
MCLan == {nas}
MCHosts == {p1, p2, nas, web, dns, server}
MCNetworks == {MCLan}
MCKind == samba :> "host" @@ lan :> "network" @@ internet :> "internet"
MCCovers == samba :> {nas} @@ lan :> MCLan @@ internet :> MCHosts
MCPorts == samba :> {"445"} @@ lan :> {} @@ internet :> {}

PeerSymmetry == Permutations(MCPeers)

=============================================================================
