CONSTANTS
  t1 = t1
  bare = bare
  Texts = {t1, bare}
  Bare = {bare}
  Answers <- MCAnswers
  AgentAdditions <- MCAgentAdditions
  Edits <- MCEdits
  MaxClaims = 3
  MaxProposed = 2
  OwnerNumbers = FALSE
  MaxLen = 3
  MaxID = 4
SPECIFICATION Spec
INVARIANT IndexableIDs
