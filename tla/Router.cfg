SPECIFICATION MCSpec
CONSTANTS
    Missing = Missing
    Together <- SetTogether
    Rules <- SetRules
    Packets <- SetPackets
    MaxRules = 2
    NoRule = NoRule
    Crews <- SetCrews
    Ports <- SetPorts
    Mports = {m1, m2}
    Targets = {h1, h2}
    Slots = 2
    Addresses = {1, 2}
    Unused = Unused
    Overlap = FALSE
    Servers = {sa}
    SyslogUsers = {u1, u2}
    Loggers = {l1, l2}
    QueueDepth = 2
    NoServer = NoServer
INVARIANTS
    LiveAgrees
    NothingHeld
    ListSound
    NaptIsTable
    FormatsInLiveBuffers
PROPERTIES
    EnablesWhole
    ImplementsPolicy
CHECK_DEADLOCK FALSE
