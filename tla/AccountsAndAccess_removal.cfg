\* Two auditors of an area and an administrator who manages another area, one
\* document, two requests at a time.
CONSTANTS
    ana = ana
    bia = bia
    caio = caio
    piping = piping
    civil = civil
    pid = pid
    Users = {ana, bia, caio}
    Areas = {piping, civil}
    Documents = {pid}
    Workers = {w1, w2}
    Addresses = {m1}
    Role <- Roles
    AreaOf <- AreaOfUser
    AreasOf <- AreasOfDocument
    FirstManager <- Managers
    Author <- Authors
    Nothing = Nothing
SPECIFICATION BoundedSpec
SYMMETRY Alike
INVARIANTS
    IInv
    WorkIsOwned
    RemovedDataIsGone
    ReferencesExist
PROPERTIES
    DecisionIsFinal
    RemovalIsComplete
