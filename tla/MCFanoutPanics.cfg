CONSTANTS
    Conn = {b1, b2}
    MaxPublications = 3
SPECIFICATION FanoutSpec
INVARIANT NoSendOnClosedChannel
CHECK_DEADLOCK FALSE
