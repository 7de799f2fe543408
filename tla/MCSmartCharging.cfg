SPECIFICATION FairSpec
CONSTANTS
    t1 = t1
    t2 = t2
    t3 = t3
    Tx = {t1, t2, t3}
    NoSession = NoSession
    Terms <- MCTerms
    Snapshots <- MCSnapshots
    Parts = 4800
    Slips = {29, 57, 58}
    Grids = {61, 100}
    Margins = {0, 5}
    PeakPct = 50
INVARIANTS
    FairShare
    WithinGrid
    OneRunAtATime
PROPERTIES
    RequestsServed
