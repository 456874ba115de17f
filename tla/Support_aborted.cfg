\* Three rows of different texts under the attempts and the limit of label_areas.py.
CONSTANTS
    Parts = {"labelling"}
    NoKey = NoKey
    Documents = {d1}
    People = {u1}
    Workers = {w1, w2}
    LastVersion = 2
    LastRow = 3
    AreasOfDocument <- MCAreasOfDocument
    AreaOfPerson <- MCAreaOfPerson
    SiteList <- MCSiteList
    IdentDocument <- MCIdentDocument
    WithPart = {1, 2}
    Mapped = {2, 3}
    LongEnough = {1, 2}
    RowText <- MCOwnTexts
    CriteriaVersions = {"1", "2"}
    MaxAttempts = 4
    MaxUnreachable = 3
    NoLabel = NoLabel
    NoRow = NoRow
    UsedAccounts = {"thiago.serpa", "caio.bertoni"}
    UsedDocuments = {"AK-2100-ENS-REV-0004", "AK-2100-EST-DWG-0001"}
    UsedAreas = {"EST", "QUA"}
    UsedTypes = {"DWG", "RTE"}
    MaxEdits = 3
    SeedManagers <- MCSeedManagers
    SeedUsers <- MCSeedUsers
    SeedProjects <- MCSeedProjects
    SeedDisciplines <- MCSeedDisciplines
    SeedTypes <- MCSeedTypes
    SeedDocuments <- MCSeedDocuments
    SeedRevisions <- MCSeedRevisions
    FilesByType <- MCFilesByType
    SeedAccesses <- MCSeedAccesses
    SeedClauses <- MCSeedClauses
    Browsers = {r1, r2}
    CatalogRows = {"asa", "est", "ens", "piping", "pip", "ana"}
    Switchable = {"est"}
    FieldOfRow <- MCFieldOfRow
    CodeOf <- MCCodeOf
    UpperCased = {"asa", "est", "piping"}
    NoEntry = NoEntry
SPECIFICATION Spec
SYMMETRY Symmetry
INVARIANT
    GivenUpMeansFailed
CHECK_DEADLOCK FALSE
