SPECIFICATION MCSpec
CONSTANTS
    Finalizers = {f1, f2}
    Cleaners = {k1}
    Deleters = {d1}
    Quarantine = Quarantine
    NoToken = NoToken
    NoAsset = NoAsset
    MaxMishaps = 1
    Rounds = {r1, r2}
    Presentations = {s1}
    Codes = {c1}
    Processes = {p1, p2}
    Nobody = Nobody
    NoCode = NoCode
    MaxTries = 2
    MaxFaults = 1
SYMMETRY Symmetry
INVARIANTS MediaInv NothingLeaks RoomsInv NothingOutlivesItsRoom
\* every actor may have finished
CHECK_DEADLOCK FALSE
