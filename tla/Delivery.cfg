CONSTANTS
    m1 = m1
    m2 = m2
    m3 = m3
    Messages <- MCMessages
    Rank <- MCRank
    Nobody = Nobody
    MaxFaults = 2
SPECIFICATION AllSpec
CHECK_DEADLOCK FALSE
INVARIANTS DeliveredFaithfully 
PROPERTIES CommandSettles AcceptedIsApplied EveryRequestAnswered ExecutionEnds StopEndsProcess
