SPECIFICATION FairSpec
CONSTANTS
    further = further
    i1 = i1
    i2 = i2
    c1 = c1
    c2 = c2
    d1 = d1
    d2 = d2
    NodeId = {i1, i2}
    FirstId = i1
    Emergency <- MCEmergency
    Online = FALSE
    First = first
    Further = {further}
    CanId = {c1, c2, d1, d2}
    Default <- MCDefault
    Choice <- MCChoice
    NoOne = noone
    Interval = {0, 1}
INVARIANTS
    OneIdentity
    TimersFit
    
PROPERTIES
    NothingOvertakes
    EmergencyReachesBus
    HeartbeatGoesOn
