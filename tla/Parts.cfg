\* One part at a time; a call, a page or a dialog may be left alone for ever.
SPECIFICATION PartsSpec
CONSTANTS
    payment = payment
    approval = approval
    Calls = {payment, approval}
    Path <- WorkingPath
    MaxAttempts = 3
    MaxOutages = 1
    MaxOpenings = 3
    MaxEntries = 3
    Together = {{"name"}, {"remarks"}, {"pan"}, {"assignee"}, {"remarks", "pan"}}
    MaxElsewhere = 1
    MaxTries = 2
    Rows = {"r1", "r2"}
    Docs = {"d1", "d2"}
    Requests = {"w1", "w2"}
    MaxFaults = 1
    Loans = {"l1"}
    Runs = {"n1", "n2"}
    ByHand = {{}, {"n2"}}
    Conns = {"c1", "c2"}
    LastDay = 3
    MaxHeld = 2
CHECK_DEADLOCK FALSE
INVARIANTS
    AllTypesOK
    OldCopyIsMarked
    StartsClean
    SentOnce
    BoxMatchesSearch
    FiltersAreSeen
    SortIsOffered
    HalfSavesAreTold
    RowsTellTheTruth
    FilesFollowRows
PROPERTIES
    ImplementsSubmitOnce
    EveryCallEnds
    OwnChangeShows
    AnswerMeetsItsOpening
    TypingIsKept
    OnlyChosenIsSent
    
    AlertedOnce
