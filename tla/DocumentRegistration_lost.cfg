\* A package whose second file cannot be filed.
CONSTANTS
    Projects = {p1}
    Uploads = {t1, t2}
    Contents = {c1, c2}
    Workers = {w1, w2}
    MaxSequence = 1
    MaxVersion = 1
    MaxFiles = 2
    CodeAttempts = 2
    Faults = FALSE
    Nothing = Nothing
SPECIFICATION Spec
INVARIANTS
    UploadsAreNotLost
