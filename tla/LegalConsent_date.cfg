\* Two requests of one user.
\* The system may stop: every account removed, every version retired, nothing under way.
CONSTANTS
    Users = {ana}
    Terms = {privacy}
    Workers = {w1, w2}
    MaxVersion = 2
    MaxAcceptances = 3
    Nobody = Nobody
SPECIFICATION Spec
SYMMETRY Alike
INVARIANTS
    DateFollowsAcceptances
CHECK_DEADLOCK FALSE
