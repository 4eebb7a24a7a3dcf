SPECIFICATION MCSpec
CONSTANTS
    a = a
    b = b
    c = c
    Listings = {a, b, c}
    Category <- CategoryOf
    Lexicon <- PhrasesOf
    Text <- Texts
    Others = {"coded", "plain"}
    Written <- WrittenWith
    Shown <- MarksOf
    TitledBy <- TitlesWith
    Tokens <- Costs
    Budgets = {0, 2, 3, 4, 5}
    ModelFair <- Models
    Likeness <- Alike
    Untyped = untyped
    Lists <- OfferLists
    Items <- Duplicates
    Signals <- Classes
    Tiers = 2
    MaxHops = 3
    TopK = 3
    Snapshots <- MCSnapshots
    Saved <- MCSaved
    GateK = 2
    HasPrefect = TRUE
    MaxFailures = 2
    Maes = {1, 2}
    Modes = {"deals", "stream", "watchlist", "review"}
    Words = {"w1", "w2"}
    Users = {"u1"}
    Slots = {1, 2}
INVARIANTS
    FinalAnswerIsSafe
    HopsMakeProgress
    WindowHoldsBest
    LicenceAskedFirst
    TrapsSink
    OneOfferPerProduct
    NotifiedOnce
    GatesHold
    StreamShowsOneSearch
    NeverStuck
