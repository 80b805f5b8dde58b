CONSTANTS
    Branches = {b1}
    Issues = {i1}
    Inputs = {d1}
    Code = {c1}
    LastVersion = 1
    MaxCommits = 1
    MaxChanges = 0
    NoRequest = NoRequest
    NoBranch = NoBranch
    NoRun = NoRun
    NoRead = NoRead
    mayor = mayor
    council = council
    ada = ada
    bo = bo
    cy = cy
    dee = dee
    paper = paper
    union = union
    district = district
    times = times
    blog = blog
    Races = {mayor, council}
    ChoicesOf <- MCChoices
    Sources = {paper, union, district, times, blog}
    Role <- MCRole
    Eligible <- MCEligible
    Ada = Ada
    Bob = Bob
    Cyd = Cyd
    Dee = Dee
    Ad = Ad
    Mayor = Mayor
    Mayer = Mayer
    Council = Council
    Likeness <- MCLikeness
    DisplayName <- MCNames
    ElectionDate = 5
    None = None
    Discovery <- MCDiscovery
    LedgerDecisions <- MCLedgerDecisions
    Extracts <- MCExtracts
    DataAsOf = 4
    MaxLedger = 2
    MaxCompiles = 2
    MaxFaults = 3
    ReviewClaims <- MCReviewClaims
    Rulings <- MCRulings
    Moments = {1}
    Clerks = {k1}
    Fields = {"notes"}
    Values = {0, 1}
    OldValue = 0
    MaxOverrides = 0
    NoTask = NoTask
SPECIFICATION PipelineSpec
INVARIANT SwapsAreTransactional
SYMMETRY MCSymmetry
CHECK_DEADLOCK FALSE
