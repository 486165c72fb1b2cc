SPECIFICATION Spec
CONSTANTS
  a = a
  b = b
  x = x
  y = y
  upper = upper
  s1 = s1
  s2 = s2
  u1 = u1
  u2 = u2
  u3 = u3
  m1 = m1
  m2 = m2
  m3 = m3
  i1 = i1
  i2 = i2
  f1 = f1
  f2 = f2
  t = t
  None = None
  NoPage = NoPage
  Names = {a, b, x, y, upper}
  Scopes = {s1, s2}
  Uids = {u1, u2, u3, m1, m2, m3, i1, i2}
  DefaultScopes = {s1, s2}
  MaxChunkTokens = 2
  MaxEvents = 2
  Normal <- MCNormal
  Order <- MCOrder
  Drafts <- MCDrafts
  Pages <- MCPages
  Types <- MCTypes
  Limits <- MCLimits
  Minted <- MCMinted
  Imported <- MCImported
  Corpora <- MCCorpora
  TenantSets <- MCTenantSets
  TenantScope <- MCTenantScope
  WorkScope = s1
  ScopeOrder <- MCScopeOrder
  Tables <- EmptyTables
INVARIANT ProseHasACeiling
