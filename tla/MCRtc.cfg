\* Two processes use the clock, the keyboard switches terminals.
SPECIFICATION RtcFairSpec
CONSTANTS
    p1 = p1
    p2 = p2
    Readers = {p1, p2}
    Setters = {p2}
    Devices <- MCDevices
    Freqs <- MCFreqs
    MaxSwitches = 1
INVARIANTS
    RtcTypeOK
    MaskWritesIgnored
    ReadAfterTick
    EventHandled
PROPERTIES
    RequestsAccepted
    ReadReturns
CHECK_DEADLOCK FALSE
