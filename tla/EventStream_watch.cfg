SPECIFICATION FairStream
CONSTANTS
    Watchers = {w1, w2}
    Buffer = 1
    MaxEvents = 2
INVARIANTS
    ChannelsClosedOnce
    SentInOrder
    NothingMissedUnlessBehind
    StreamEndTellsOutcome
PROPERTIES
    StreamsEnd
CHECK_DEADLOCK FALSE
