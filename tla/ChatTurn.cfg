SPECIFICATION WritersSpec
CONSTANTS
    Lane = {l1, l2, l3}
    l1 = l1
    l2 = l2
    l3 = l3
    SessionOf <- MCSessionOf
    BaseWeight <- MCBaseWeight
    Options <- MCOptions
    AgingWindow = 2
    AgingStep = 1
    QueueTimeout = 4
    MaxAsks = 1
    Window = {w1, w2}
    Agent = {}
    NoText = NoText
    MaxEdits = 2
    MaxExtras = 1
INVARIANTS SlotsAccountedFor NothingIsForgotten 
PROPERTIES OvertakingIsBounded EveryWriteEnds
CHECK_DEADLOCK FALSE
