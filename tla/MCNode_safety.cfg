SPECIFICATION Node
CONSTANTS
    t1 = t1
    t2 = t2
    Moving = {"identity", "answers", "gateway", "capture", "corpus", "stream", "text"}
    Requests <- Two
    People = {"ann", "bob"}
    MaxChallenges = 3
    MaxSessions = 2
    MaxPasskeys = 2
    MaxSigns = 2
    Askers <- Two
    Objects = {"d1", "d2"}
    Texts <- TextsOfOneSubject
    HomeOf <- TwoWorkspaces
    MaxFragments = 2
    MaxPackages = 2
    MaxQuestions = 2
    Shapes <- SomeShapes
    MaxEvidence = 5
    Callers <- Two
    Local = {"builtin", "ollama"}
    Cloud = {"cheap", "dear", "enterprise"}
    Builtin = "builtin"
    Cost <- Costs
    Strong = {"ollama", "cheap", "dear", "enterprise"}
    Budget = 1
    MaxRequest = 2
    MaxCalls = 2
    Policies <- SomePolicies
    Packages <- SomePackages
    Clients <- Two
    MaxStored = 2
    MaxWork = 4
    Curators = {"ann", "bob"}
    Classifiers = {k1}
    Editors <- Two
    Documents = {"d1"}
    Coordinates <- SomeCoordinates
    SealedAt <- SealedCoordinates
    Contents <- SomeContents
    MaxWrites = 4
    Workers <- Two
    Events = {"k1", "k2", "x1"}
    External = {"x1"}
    Analyses <- AnalysisOfAChange
    SubjectOf <- SubjectsOfEvents
    Wanted <- FiltersOfSubscriptions
    MaxListed = 3
    MaxTasks = 4
CHECK_DEADLOCK FALSE
SYMMETRY Symmetry
INVARIANTS
    NodeTypeOK
    SignInsAreSound
    FactsAreShared
    WorkspaceSeesItsOwn
    ShownTextIsCited
    DisclosureIsAllowed
    SpendingIsAccounted
    CapturesAreWhole
    PersonHasLastWord
    ViewsKeepTheSeal
    SignalsFollowTheJournal
