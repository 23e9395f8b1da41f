----------------------------- MODULE AddressBook -----------------------------
(***************************************************************************)
(* What the VPN address assignment of wg-ui-plus promises, without saying  *)
(* how: docs/ACCESS_CONTROL.md ("assigns an available address from the     *)
(* server's Network Address").  An address that is assigned is a host of   *)
(* the current network that nobody else has.  An address that a request    *)
(* sets is whatever the request says: the code stores it unchecked, so     *)
(* the promises are about the others, and `given` remembers whose address  *)
(* was set and not assigned.  PeerAddresses is the code, query by query,   *)
(* and implements this module while one client works at a time.            *)
(***************************************************************************)
EXTENDS Naturals

CONSTANTS
    Peer,      \* identities a row of the peer table can have
    Sample,    \* the peers that db_init_db_on_start creates in an empty table
    Networks,  \* the networks an administrator may configure: sets of hosts
    Malformed, \* a text that is no address
    NoAddr,    \* "no row": every row of the peer table has an address
    Server     \* the server, beside the peers, as a holder of an address

Addr == UNION Networks \cup {Malformed}

ASSUME NetworksAssumption == Networks \subseteq SUBSET Nat
ASSUME SampleAssumption == Sample \subseteq Peer
ASSUME NoAddrAssumption == NoAddr \notin Addr
ASSUME MalformedAssumption == Malformed \notin UNION Networks
ASSUME ServerAssumption == Server \notin Peer

VARIABLES
    network,   \* ServerConfiguration.network_address, as its set of hosts
    serverIp,  \* ServerConfiguration.ip_address
    peerIp,    \* peerIp[p]: Peer.ip_address, NoAddr when p has no row
    given      \* history: whose address a request set to a value of its own

bookVars == <<network, serverIp, peerIp, given>>

Rows == {p \in Peer : peerIp[p] # NoAddr}
Held == {peerIp[p] : p \in Rows}

HeldByOthers(p) == {peerIp[q] : q \in Rows \ {p}}

(***************************************************************************)
(* A peer, new or renumbered, receives an available address.  The server's *)
(* own address counts as taken, except for a sample peer (the seeding of   *)
(* an empty table does not look at it).                                    *)
(***************************************************************************)
Assign(p) ==
    /\ \E a \in network \ HeldByOthers(p) :
          /\ p \in Sample \/ a # serverIp
          /\ peerIp' = [peerIp EXCEPT ![p] = a]
    /\ given' = given \ {p}
    /\ UNCHANGED <<network, serverIp>>

\* A request sets the address of a peer, new or not, or of the server.
Give(p) ==
    /\ \E a \in Addr : peerIp' = [peerIp EXCEPT ![p] = a]
    /\ given' = given \cup {p}
    /\ UNCHANGED <<network, serverIp>>

GiveServer ==
    /\ serverIp' \in Addr
    /\ given' = given \cup {Server}
    /\ UNCHANGED <<network, peerIp>>

Release(p) ==
    /\ p \in Rows
    /\ peerIp' = [peerIp EXCEPT ![p] = NoAddr]
    /\ given' = given \ {p}
    /\ UNCHANGED <<network, serverIp>>

\* The network is replaced, or the server's address cleared: the server takes
\* a host that no peer has.
Move(n) ==
    /\ network' = n
    /\ serverIp' \in n \ Held
    /\ given' = given \ {Server}
    /\ UNCHANGED peerIp

BookInit ==
    /\ network \in Networks
    /\ serverIp \in network
    /\ peerIp = [p \in Peer |-> NoAddr]
    /\ given = {}

BookNext ==
    \/ \E p \in Peer : Assign(p) \/ Give(p) \/ Release(p)
    \/ GiveServer
    \/ \E n \in Networks : Move(n)

BookSpec == BookInit /\ [][BookNext]_bookVars

-----------------------------------------------------------------------------

BookTypeOK ==
    /\ network \in Networks
    /\ serverIp \in Addr
    /\ peerIp \in [Peer -> Addr \cup {NoAddr}]
    /\ given \subseteq Peer \cup {Server}

\* No two peers whose addresses were assigned have the same VPN address (the
\* AllowedIPs of wg0.conf and the per-source firewall rules identify a peer by it).
PeersDistinct ==
    \A p, q \in Rows \ given : peerIp[p] = peerIp[q] => p = q

\* Of the peers and the server whose addresses were assigned, only a sample peer
\* can ever have the address of the server itself.
ServerDistinct ==
    Server \notin given => \A p \in Rows \ (Sample \cup given) : peerIp[p] # serverIp

=============================================================================
