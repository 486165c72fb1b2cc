CONSTANTS
  h1 = h1
  h2 = h2
  i1 = i1
  i2 = i2
  s1 = s1
  s2 = s2
  b1 = b1
  b2 = b2
  o = o
  w1 = w1
  w2 = w2
  e1 = e1
  e2 = e2
  Texts = {o, w1, w2, e1, e2}
  Bare = {}
  Paths <- MCPaths
  Absent = Absent
  Handlers = {h1, h2}
  ProposalIds = {i1, i2}
  Slugs = {s1}
  Unpinned = Unpinned
  Bodies = {b1, b2}
  Wording <- MCWording
  Rewording <- MCRewording
  NewPageBody = b1
  Pages <- MCNoPage
  Legacy <- NoLegacy
  OwnerSaves <- MCStaleSave
  MaxFaults = 1
SPECIFICATION MCSpec
SYMMETRY Symmetry
INVARIANTS
  TypeOK
  AppliedAtMostOnce
  WritesBuildOnPin
  DecidedStaysDecided
  WholeWhileSerial
  OnePendingWhileSerial
  OneDecisionWhileSerial
  CommittedWhileSerial
PROPERTY
  InboxKeepsItsPromise
CHECK_DEADLOCK FALSE
