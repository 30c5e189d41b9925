SPECIFICATION Spec
CONSTANTS
  a1 = a1
  f1 = f1
  p1 = p1
  c1 = c1
  ANY = ANY
  NONE = NONE
  Agent = {a1}
  Foreign = {f1}
  Project = {p1}
  Asked <- ExactAndAny
  Imported <- InOwnScope
  Caller = {c1}
  MaxTokens = 2
  MaxGrants = 1
  MaxNotes = 1
  MaxSetups = 1
  MaxEdits = 1
  MaxFaults = 1
INVARIANTS TypeOK  TokensHonest ConfigKept
