SPECIFICATION FFairSpec
CONSTANTS
    Users = {u1, u2}
    Callers = {u2}
    Syncers = {u1}
    Pager = pager
    Main = main
    Submitters = {u1, u2, pager, main}
    Worker = worker
    Lba = {l1}
    Data = {d1}
    NSlots = 2
    NRequests = 2
    MaxKills = 1
INVARIANTS OwnResult SlotsOwned DriverNotInterrupted GuardExact
PROPERTY ServedUnlessOvertaken
CHECK_DEADLOCK FALSE
