SPECIFICATION Spec
CONSTANTS
    k1 = k1
    k2 = k2
    v1 = v1
    v2 = v2
    p1 = p1
    p2 = p2
    p3 = p3
    Keys <- MCKeys
    Values <- MCValues
    Places <- MCPlaces
    MaxBundledRecords = 2
    MaxBlocks = 6
    Mishaps = {"dataFails", "compactFails"}
    None = None
    Same = Same
SYMMETRY Interchangeable
INVARIANTS TypeOK ReadsWhatWasPut KeepsWhatWasPut CompactionFaithful BundleFits
CHECK_DEADLOCK FALSE
