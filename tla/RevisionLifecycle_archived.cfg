\* Requests that found the document before it was archived.
CONSTANTS
    Documents = {d1}
    Workers = {w1, w2}
    bruno = bruno
    Users = {ana, bruno}
    Reviewers = {ana, bruno}
    Managers <- MCManagers
    MaxVersion = 2
    NoUser = NoUser
    NoWorker = NoWorker
SPECIFICATION Spec
PROPERTIES
    ArchivedAreLeftAlone
