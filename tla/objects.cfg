SPECIFICATION Spec
CONSTANTS
    Targets <- MCTargets
    SetNames = {"x", "x6"}
    Twin6 <- MCTwin6
    Elems = {"host"}
    NATRules <- MCNATRules
    Written <- MCWritten
    UfwRules <- MCUfwRules
    MaxId = 3
    MaxNAT = 1
    MaxSteps = 4
INVARIANTS ImportSettles ImportKeepsOthers TogglesOneRule
PROPERTIES StaysKept StaysLoadable
