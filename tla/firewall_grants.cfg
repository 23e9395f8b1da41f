SPECIFICATION Spec
CONSTANTS
    p1 = p1
    p2 = p2
    everyone = everyone
    staff = staff
    nas = nas
    web = web
    dns = dns
    server = server
    samba = samba
    lan = lan
    internet = internet
    Peer <- MCPeers
    Group = {everyone, staff}
    Target = {samba, lan, internet}
    EveryOne = everyone
    Host <- MCHosts
    Dns = dns
    ServerHost = server
    Port = {"445"}
    Network <- MCNetworks
    Kind <- MCKind
    Covers <- MCCovers
    Ports <- MCPorts
SYMMETRY PeerSymmetry
INVARIANTS TypeOK GrantsExactly StrictRoutesCover NamesExplainAccess LayoutExplainsAccess
