SPECIFICATION PartSpec
CONSTANTS
    Off = Off
    c1 = c1
    s1 = s1
    s2 = s2
    RunStreams = {s1}
    ConversationStreams = {s2}
    MaxReplay = 2
    MaxReplayBytes = 3
    Ring = 1
    Sizes = {1, 2, 9}
    MaxEventBytes = 3
    MaxSse = 1
    MaxEmits = 5
CHECK_DEADLOCK FALSE
INVARIANT EventBusSound
PROPERTY RunEventsSound
