CONSTANTS
    Calendar <- MCCalendar
    Collecting = TRUE
    LeadDays = 1
    ArtifactWindowDays = 1
    StaleEscalationDays = 2
    CollectionStaleDays = 1
    Artifacts <- MCArtifacts
    LastDate = 5
    MaxOutages = 1
    MaxEdits = 1
    MaxLandings = 1
    NoJob = NoJob
    Links = {u1,u2}
    MaxAlerts = 3
    MaxTrouble = 1
    MaxChanges = 2
    MaxTouches = 1
    NoCheck = NoCheck
    NoAlert = NoAlert
    auto = auto
    person = person
    Sources = {auto, person}
    Policy <- MCPolicy
    Collection = 1
    Issuance = 2
    ElectionDay = 3
    Weekly = 3
    EffectiveFrom = 1
    NoSnapshot = NoSnapshot
    Never = 0
    LastDay = 3
    Snapshots = {s1}
    Outcomes = {"access", "content"}
    MaxFailures = 1
    MaxActs = 1
    NoRun = NoRun
SPECIFICATION OperationsSpec
INVARIANTS ActsOnce ScheduleIsKept
PROPERTIES EveryLossIsEscalated AlertIsHonest PostedOnceAndVisible EveryObligationSurfaces
