\* The expiration is two intervals, and answers are in time within 1.
CONSTANTS
    Interval = 2
    MinExpiration = 2
    Jitter = 1
    MaxTime = 14
SPECIFICATION HeartbeatSpec
INVARIANTS
    HeartbeatTypeOK
    HungIsNoticed
PROPERTIES
    LiveIsKept
CHECK_DEADLOCK FALSE
