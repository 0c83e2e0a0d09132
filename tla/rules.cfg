SPECIFICATION Spec
CONSTANTS
  Templates = {"plain", "ssh"}
  Items = {"a", "b", "c"}
  Apps = {"ssh"}
  NoApp = "none"
  App <- MCApp
  Tuple <- MCTuple
  Ends <- MCTuple
  Actions = {"allow", "deny"}
  Notes = {"", "c"}
  NoNote = ""
  Commands <- MCCommands
  Profiles <- MCProfiles
  MaxRules = 5
INVARIANTS
  LoopAgrees
  NoDuplicates
  OthersKept
  GroupsStayTogether
  InsertsWhereAsked
  DeletesAll
  UpdateSettles
