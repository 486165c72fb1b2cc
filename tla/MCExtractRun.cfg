CONSTANTS
  h1 = h1
  s1 = s1
  s2 = s2
  b1 = b1
  b2 = b2
  o = o
  w1 = w1
  w2 = w2
  w3 = w3
  Texts = {o, w1, w2, w3}
  Bare = {}
  Paths <- MCPaths
  Absent = Absent
  Handlers = {h1}
  ProposalIds = {1, 2}
  Slugs = {s1, s2}
  Unpinned = Unpinned
  Bodies = {b1, b2}
  Wording <- MCTwoWords
  Rewording <- MCTwoWords
  NewPageBody = b1
  Pages <- MCEditedPages
  Legacy <- NoLegacy
  OwnerSaves <- MCNewBody
  MaxFaults = 1
  Order <- MCOrder
  CommitBatchSize = 2
  Limit = 0
  MaxRequests = 1
SPECIFICATION MCSpec
INVARIANTS
  RunTypeOK
  RecordedMeansFiled
  SupersededKeepsACopy
  FreshUnlessProposed
PROPERTY
  RunEnds
