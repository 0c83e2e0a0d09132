SPECIFICATION FairSpec
CONSTANTS
  Proc = {p1, p2}
  Rule = {r1, r2}
  NATRule = {n1}
  Ban = {b1}
  Uncompilable = {r2}
  InstallPolicy = "deny"
  Docs <- MCDocs
  Ops <- CommitOps
  Faults <- ApplyFaults
  Free = Free
  p1 = p1
  p2 = p2
  r1 = r1
  r2 = r2
  n1 = n1
  b1 = b1

INVARIANT KernelInStep

PROPERTIES NoWedge ExpiryEnforced
