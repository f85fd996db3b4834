SPECIFICATION Spec
CONSTANTS
    None = None
    Torn = Torn
    Paths = {f1, f2}
    Procs = {p1}
    Temps = {t1, t2}
    Whole = TRUE
    MaxEdits = 2
    MaxStops = 1
    MaxLosses = 1
SYMMETRY Symmetry
INVARIANT
    Provenance
PROPERTY
    PublishedIsCurrent
