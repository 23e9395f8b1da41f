SPECIFICATION FairSpec
CONSTANTS
    Peer = {s1, p1}
    Sample = {s1}
    Networks <- MCSmallNetworks
    Sent <- MCSmallSent
    Worker = {w1, w2}
    Editors = {w1}
    NoAddr = NoAddr
    Malformed = Malformed
    Server = Server
    Boot = Boot
INVARIANTS ServerInNetwork NeverStuck
PROPERTIES RequestsEnd
