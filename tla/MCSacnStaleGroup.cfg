SPECIFICATION SocketSpec
CONSTANTS
    Universes = {0, 1, 2}
    StaAddresses = {sta1, sta2}
    SoftApAddress = ap
    UnsetAddress = none
INVARIANT
    JoinedGroupIsConfigured
