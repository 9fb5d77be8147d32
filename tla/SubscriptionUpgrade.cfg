CONSTANTS
  main = main
  bg = bg
  m1 = m1
  m2 = m2
  b1 = b1
  a = a
  b = b
  x = x
  z = z
  l1 = l1
  l2 = l2
  Process = {main, bg}
  Main = main
  Job = {m1, m2, b1}
  procOf <- MCProcOf
  Name = {a, b}
  Content = {x, z}
  Type = {"anytls", "other"}
  typeOf <- MCTypeOf
  policyOf <- MCPolicyOf
  NoPolicy = NoPolicy
  Core = {"auto", "sing-box", "mihomo"}
  CoreAuto = "auto"
  cores <- MCCores
  canonical <- MCCanonical
  legacyCore <- MCLegacyCore
  legacyPolicy <- MCLegacyPolicy
  Override = {"none", "own"}
  NoOverride = "none"
  Link = {l1, l2}
  Never = Never
  NoRow = NoRow
  None = None
  Backups <- MCBackups
  MaxId = 3
  MaxUpdates = 2
  MaxUser = 2
SPECIFICATION Spec
SYMMETRY Symmetry
CHECK_DEADLOCK FALSE
INVARIANT
  StatusOfThisConfig
