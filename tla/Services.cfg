SPECIFICATION ServicesSpec
CONSTANTS
    Agents = {agent}
    agent = agent
    Human = human
    human = human
    Channels = {"forward", "back"}
    Gates = {"g1", "g2"}
    GateOf <- MCGateOf
    Cyclic = {"back"}
    Resets = {"g1", "g2"}
    MaxCycles = 1
    Nil = Nil
    Handoffs = {1, 2}
    Background = {background}
    background = background
    Tick = tick
    tick = tick
    MaxTries = 2
    MaxUpsets = 1
    Clients = {tab1, tab2}
    tab1 = tab1
    tab2 = tab2
    Rows = {r1, r2}
    r1 = r1
    r2 = r2
    MaxMoves = 2
    Jobs = {j1, j2, j3}
    j1 = j1
    j2 = j2
    j3 = j3
    Slots = {s1, s2}
    s1 = s1
    s2 = s2
    NoJob = NoJob
    MaxFails = 1
INVARIANTS TripBudget ResetGatesHold DeliveredMeansArrived QuietViewsAgree ChainGoesOn
PROPERTIES OpeningsAreServed OpenGateStartsNode HandoffLife HandoffSettles ViewsCatchUp
CHECK_DEADLOCK FALSE
