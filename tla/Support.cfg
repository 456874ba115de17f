\* The parts beside the core: the search index and the trail of two workers over
\* the two versions of a document, the collection of three identifiers, two of one
\* document, the labelling of three rows under two criteria, the seeding with three
\* changes between its runs, the suggestions for the form of one file, with two areas
\* that differ in the case of their acronym only, and the pure rules of reading and
\* of the feed.
CONSTANTS
    Parts = {"trail", "collection", "labelling", "seeding", "reading", "forms"}
    NoKey = NoKey
    Documents = {d1}
    People = {u1}
    Workers = {w1, w2}
    LastVersion = 2
    LastRow = 3
    AreasOfDocument <- MCAreasOfDocument
    AreaOfPerson <- MCAreaOfPerson
    SiteList <- MCSiteList
    IdentDocument <- MCIdentDocument
    WithPart = {1, 2}
    Mapped = {2, 3}
    LongEnough = {1, 2}
    RowText <- MCRowText
    CriteriaVersions = {"1", "2"}
    MaxAttempts = 2
    MaxUnreachable = 2
    NoLabel = NoLabel
    NoRow = NoRow
    UsedAccounts = {"thiago.serpa", "caio.bertoni"}
    UsedDocuments = {"AK-2100-ENS-REV-0004", "AK-2100-EST-DWG-0001"}
    UsedAreas = {"EST"}
    UsedTypes = {"DWG", "RTE"}
    MaxEdits = 3
    SeedManagers <- MCSeedManagers
    SeedUsers <- MCSeedUsers
    SeedProjects <- MCSeedProjects
    SeedDisciplines <- MCSeedDisciplines
    SeedTypes <- MCSeedTypes
    SeedDocuments <- MCSeedDocuments
    SeedRevisions <- MCSeedRevisions
    FilesByType <- MCFilesByType
    SeedAccesses <- MCSeedAccesses
    SeedClauses <- MCSeedClauses
    Browsers = {r1, r2}
    CatalogRows = {"asa", "est", "ens", "piping", "pip", "ana"}
    Switchable = {"est"}
    FieldOfRow <- MCFieldOfRow
    CodeOf <- MCCodeOf
    UpperCased = {"asa", "est", "piping"}
    NoEntry = NoEntry
SPECIFICATION Spec
SYMMETRY Symmetry
INVARIANTS
    SupportTypeOK
    IndexKeepsUp
    VectorIsOfContent
    SubmissionsAreShown
    SelectedAsDescribed
    RoutesAgree
    SummaryKeepsToReadable
    SuggestionsFitTheForm
    OutputsAreWhole
    LabelsAreSound
    SeedingTwiceIsOnce
    RulesHonoured
PROPERTIES
    EventsAreKept
    DiscardedStayDiscarded
    KeptAcrossRestarts
    SeedingUndoesNothing
CHECK_DEADLOCK FALSE
