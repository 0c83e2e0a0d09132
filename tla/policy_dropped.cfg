SPECIFICATION Spec
CONSTANTS
    Top <- MCTop
    Texts <- MCTexts
    Nets <- MCNets
    Ifaces <- MCIfaces
    Packets <- MCPackets
    Stored <- MCStored
    Defaults <- S0
    Dumps4 <- MCDumps4
    Dumps6 <- MCDumps6
    NoDump = NoDump
    Rulesets <- MCNoRulesets
    Trees <- MCNoTrees
    ZoneOrder <- MCZoneOrder
    EtcServices <- MCEtcServices
    NftIfaces <- MCNftIfaces
    MaxImports = 1
INVARIANTS
    NothingBroadened
