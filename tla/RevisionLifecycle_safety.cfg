\* One document, three versions, two concurrent requests; both users review,
\* so an author, a responsible and a reviewer may be any of the two.  The last
\* property is the implementation of RevisionRegister.
CONSTANTS
    Documents = {d1}
    Workers = {w1, w2}
    bruno = bruno
    Users = {ana, bruno}
    Reviewers = {ana, bruno}
    Managers <- MCManagers
    MaxVersion = 3
    NoUser = NoUser
    NoWorker = NoWorker
SPECIFICATION Spec
SYMMETRY WorkersAlike
INVARIANTS
    IInv
    OneCurrent
PROPERTIES
    DecisionIsFinal
    CurrentMovesForward
    DecidedByAThirdParty
    ImplementsRegister
