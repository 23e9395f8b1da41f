--------------------------- MODULE MCPeerAddresses ---------------------------
(***************************************************************************)
(* Instances of PeerAddresses for TLC.  The networks overlap, so that the  *)
(* lowest hosts of one may be held by peers of another, and one has too    *)
(* few hosts for the peers, so that renumbering can fail half-way.  The    *)
(* addresses that requests carry are a host that every network would       *)
(* choose, one that some networks do not have, and a text that is none.    *)
(***************************************************************************)
EXTENDS PeerAddresses

MCNetworks == {1..5, 4..9, {4, 5, 6}}
MCSent == {5, 1, Malformed}

\* With two clients: room for one peer or two, and for none.
MCSmallNetworks == {1..3, {2}}
MCSmallSent == {3}

=============================================================================
