\* The same people, one request at a time.
CONSTANTS
    ana = ana
    bia = bia
    caio = caio
    piping = piping
    civil = civil
    pid = pid
    Users = {ana, bia, caio}
    Areas = {piping, civil}
    Documents = {pid}
    Workers = {w1}
    Addresses = {m1}
    Role <- Roles
    AreaOf <- AreaOfUser
    AreasOf <- AreasOfDocument
    FirstManager <- Managers
    Author <- Authors
    Nothing = Nothing
SPECIFICATION Spec
INVARIANTS
    RemovedUsersHaveNoRequests
