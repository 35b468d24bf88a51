SPECIFICATION FairSpec
CONSTANTS
    s1 = s1
    s2 = s2
    w1 = w1
    w2 = w2
    Free = Free
    None = None
    Syncers = {s1, s2}
    Workers = {w1, w2}
    Routers = {r1, r2}
    Leaves = {1, 2}
    Vlans = {1, 2, 3}
    Configured <- NewRanges
    Serving <- OldRanges
    Homes <- BothHomes
    Before <- OldTables
    Rank <- Rank1
INVARIANT TypeOK
INVARIANT TableConfigured
 
PROPERTY AllocatedRowsKept
PROPERTY SyncCompletes
