\* Two requests compete for one document; ana submits and bruno decides.
CONSTANTS
    Documents = {d1}
    Workers = {w1, w2}
    bruno = bruno
    Users = {ana, bruno}
    Reviewers = {bruno}
    Managers <- MCManagers
    MaxVersion = 2
    NoUser = NoUser
    NoWorker = NoWorker
SPECIFICATION FairSpec
PROPERTIES
    RequestsAnswer
