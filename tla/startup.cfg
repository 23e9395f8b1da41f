SPECIFICATION FairSpec
CONSTANTS
    g1 = g1
    g2 = g2
    None = None
    Partial = Partial
    Group = {g1, g2}
    MaxVersion = 2
    MaxStops = 2
    Fallible = {"link", "peers", "tunnel"}
INVARIANTS UpgradeCanBeUndone StartLeavesAccess
PROPERTIES ComesUp
