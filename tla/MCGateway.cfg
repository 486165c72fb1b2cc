SPECIFICATION Spec
CONSTANTS
  a = a
  b = b
  x = x
  y = y
  n = n
  s1 = s1
  s2 = s2
  u1 = u1
  u2 = u2
  u3 = u3
  u4 = u4
  u5 = u5
  k1 = k1
  k2 = k2
  k3 = k3
  k4 = k4
  addr = addr
  ada = ada
  bob = bob
  c1 = c1
  c2 = c2
  c3 = c3
  o1 = o1
  o2 = o2
  None = None
  NoWindow = NoWindow
  NoRun = NoRun
  NoAnswer = NoAnswer
  Never = Never
  Header = Header
  Names = {a, b, x, y, n}
  Scopes = {s1, s2}
  Uids = {u1, u2, u3, u4, u5}
  TokenIds = {k1, k2, k3, k4}
  Keys = {k1, k2, k3, k4, addr}
  CallIds = {c1, c2, c3}
  Creators = {o1, o2}
  Normal <- MCNormal
  Configured <- MCConfigured
  DefaultPerMinute = 1
  Window = 2
  MaxClock = 4
  DayLength = 2
  Lexical <- MCLexical
  Similar <- MCSimilar
  Cosine <- MCCosine
  KindOrder <- MCKindOrder
  DefaultPages = 2
  MaxPages = 3
  SearchTopK = 4
  DefaultTopK = 3
  DefaultDepth = 1
  MaxDepth = 2
  MaxNodes = 3
  DefaultBudget = 6
  IndexedTypes = {1, 2}
  ValidSlugs = {a, b, x, y, n}
  LogTypes = {9}
  CandidatesPerNote = 2
  MaxCandidates = 3
  Answers <- MCAnswers
  MemoryPaths <- MCMemoryPaths
  MemoryOrder <- MCMemoryOrder
  ScopeOrder <- MCScopeOrder
  Worlds <- MCWorlds
INVARIANTS
  TypeOK
  BurstBound
  AnswersAreAccountable
  RememberKeepsEntries
  AnswersAreExact
  DecidedMeansProposed
  NewPagesApart
CHECK_DEADLOCK FALSE
