SPECIFICATION Spec
CONSTANTS
  Proc = {p1, p2}
  Rule = {r1}
  NATRule = {n1}
  Ban = {b1}
  Uncompilable = {}
  InstallPolicy = "deny"
  Docs <- MCDocs
  Ops = {"rule", "threat"}
  Faults = {}
  Free = Free
  p1 = p1
  p2 = p2
  r1 = r1
  r2 = r2
  n1 = n1
  b1 = b1

PROPERTY BansStay
