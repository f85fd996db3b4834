SPECIFICATION FairSpec
CONSTANTS
    None = None
    Torn = Torn
    Paths = {f1, f2}
    Procs = {p1, p2}
    Temps = {t1, t2}
    Whole = FALSE
    MaxEdits = 3
    MaxStops = 1
    MaxLosses = 0
INVARIANT
    OneDirectory
PROPERTIES
    
    PublishedIsWhole
    ImportsSettle
