SPECIFICATION FairSpec
CONSTANTS
    Server = Server
    LocalNetworks = LocalNetworks
    Plain = Plain
    Links = Links
    Absent = Absent
    Empty = Empty
    Down = Down
    Installed <- MCInstalled
    Boot = Boot
    p1 = p1
    t1 = t1
    v1 = v1
    v2 = v2
    PeerRow = {p1}
    GroupRow = {}
    TargetRow = {}
    Value = {v1}
    Worker = {w1, w2}
    Scenarios = {{"delete"}}
INVARIANTS FilesComplete
PROPERTIES TunnelComesBack
