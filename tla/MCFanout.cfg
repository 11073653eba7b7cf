CONSTANTS
    Conn = {b1, b2}
    MaxPublications = 3
SPECIFICATION SlowReadersSpec
INVARIANTS FanoutTypeOK NothingNewerIsLost
PROPERTIES ViewGoesBackOnlyOnce EngineNeverStalls NewestStatusArrives
CHECK_DEADLOCK FALSE
