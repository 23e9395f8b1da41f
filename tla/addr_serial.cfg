SPECIFICATION Spec
CONSTANTS
    Peer = {s1, s2, p1}
    Sample = {s1, s2}
    Networks <- MCNetworks
    Sent <- MCSent
    Worker = {w1}
    Editors = {}
    NoAddr = NoAddr
    Malformed = Malformed
    Server = Server
    Boot = Boot
INVARIANTS PeersDistinct ServerDistinct
PROPERTIES RenumberComplete ImplementsBook
