CONSTANTS
    Kinds = {"typhon", "rain", "rqbit", "libtorrent", "transmission", "rtorrent"}
    Runs = 3
    CtxLimit = 12
    MaxAdds = 2
    MaxRenewals = 3
SPECIFICATION Spec
INVARIANTS
    TypeOK
    StrangerExplained
    AddedOnce
    GivesUpOnlyWhenChased
PROPERTY StartInTime
