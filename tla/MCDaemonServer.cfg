CONSTANTS
    d1 = d1
    d2 = d2
    call = call
    stop1 = stop1
    stop2 = stop2
    signal = signal
    Daemons = {d1, d2}
    Calls = {call}
    Stops = {stop1}
    Signals = {signal}
    NoDaemon = NoDaemon
    MaxKills = 1
SPECIFICATION Spec
INVARIANTS
    OneWritingDaemon
    ServingIsDiscoverable
    OneTriggerStopsCleanly
PROPERTY ShutdownEnds
CHECK_DEADLOCK FALSE
