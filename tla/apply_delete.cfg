SPECIFICATION Spec
CONSTANTS
    Server = Server
    LocalNetworks = LocalNetworks
    Plain = Plain
    Links = Links
    Absent = Absent
    Empty = Empty
    Down = Down
    Installed <- MCInstalled
    Boot = Boot
    p1 = p1
    t1 = t1
    v1 = v1
    v2 = v2
    PeerRow = {p1}
    GroupRow = {}
    TargetRow = {}
    Value <- MCValues
    Worker = {w1}
    Scenarios = {{"delete"}}
SYMMETRY ValueSymmetry
INVARIANTS ChangesAreNoticed
