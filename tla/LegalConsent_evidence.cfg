\* Two requests of two users on two versions of one document.
\* The system may stop: every account removed, every version retired, nothing under way.
CONSTANTS
    Users = {ana, bruno}
    Terms = {privacy}
    Workers = {w1, w2}
    MaxVersion = 2
    MaxAcceptances = 3
    Nobody = Nobody
SPECIFICATION Spec
SYMMETRY Alike
INVARIANTS
    RowsAreSound
    OneInForce
    IndexIsNeverNeeded
PROPERTIES
    EvidenceIsKept
    SignedWhilePublished
CHECK_DEADLOCK FALSE
