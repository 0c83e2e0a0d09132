SPECIFICATION HSpec
CONSTANTS
  ssh = ssh
  web = web
  i1 = i1
  i2 = i2
  Jail = {ssh, web}
  IP = {i1, i2}
  MaxRetries <- MCMaxRetries
  FindTime <- MCFindTime
  PruneEvery = 2
  MaxTime = 5
  MaxEvents = 4

PROPERTIES BansExactly MemoryFreed
SYMMETRY IPs
