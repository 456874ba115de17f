\* Two requests with one file each, two codes, two versions; no symmetry, for the
\* liveness property.
CONSTANTS
    Projects = {p1}
    Uploads = {t1, t2}
    Contents = {c1, c2}
    Workers = {w1, w2}
    MaxSequence = 2
    MaxVersion = 2
    MaxFiles = 1
    CodeAttempts = 2
    Faults = TRUE
    Nothing = Nothing
SPECIFICATION FairSpec
PROPERTIES
    ImplementsFiling
    RegistrationsAnswer
