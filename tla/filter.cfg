SPECIFICATION Spec
CONSTANTS
    Top <- MCTop
    Nets <- MCNets
    Ifaces <- MCIfaces
    Packets <- MCPackets
    States <- MCStates
    Installed <- S0
    NoPacket = NoPacket
INVARIANTS
    BansCutFlows
    BatchLoads
    ShadowedNeverDecides
    LockoutIsReal
PROPERTIES
    KeepsPromise
