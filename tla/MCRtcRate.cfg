\* Does a successful rtc_write() set the rate?
SPECIFICATION RtcSpec
CONSTANTS
    p1 = p1
    Readers = {p1}
    Setters = {p1}
    Devices <- MCDevices
    Freqs <- MCFreqs
    MaxSwitches = 1
INVARIANT
    RateSet
