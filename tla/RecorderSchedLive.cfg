CONSTANTS
    t1 = t1
    t2 = t2
    t3 = t3
    None = None
    Tid <- Tid3
    Leader = t1
    Env = {}
SPECIFICATION FairSpec
PROPERTIES
    ReadyGetsTurn
    DeathsNoticed
