SPECIFICATION TFairSpec
CONSTANTS
    Managers = {ufw, nftables}
    Own = own
    Nothing = nothing
    Copies = {{own}}
INVARIANTS MTypeOK NothingOverwritten
PROPERTIES AllOrNothing NeverLeftBare
