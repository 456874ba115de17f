\* Two requests file packages of one or two of three uploads, with the same
\* bytes or not, under at most two documents.
CONSTANTS
    Projects = {p1}
    Uploads = {t1, t2, t3}
    Contents = {c1, c2}
    Workers = {w1, w2}
    MaxSequence = 2
    MaxVersion = 2
    MaxFiles = 2
    CodeAttempts = 2
    Faults = TRUE
    Nothing = Nothing
SPECIFICATION Spec
SYMMETRY Alike
INVARIANTS
    NumbersAreOwn
    FiledBytesAreThere
    UploadFiledOnce
PROPERTIES
    RecordsOutliveUploads
