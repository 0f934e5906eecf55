SPECIFICATION FairSpec
CONSTANTS
    c1 = c1
    c2 = c2
    s1 = s1
    s2 = s2
    e1 = e1
    None = None
    Client = {c1, c2}
    Server = {s1, s2}
    Endpoint = {e1}
    Publisher = {s1}
    PoolMax = 1
    MaxTrouble = 1
INVARIANTS
    TypeOK
    ServesFullSchema
    SomeoneSurvives
    AnswersAgree
    FannedOut
    WaitsEnd
PROPERTIES
    OneMigrator
    KeepsKeyContract
    EventuallyRelayed
    EventuallyAccepted
    AllServeInTheEnd
CHECK_DEADLOCK FALSE
