SPECIFICATION Spec
CONSTANTS
  r1 = r1
  r2 = r2
  None = None
  Request = {r1, r2}
  Sources <- AllSources
  Asking <- AskAll
  MaxTokens = 2
SYMMETRY Requests
INVARIANTS TypeOK ThumbPathReal
PROPERTIES ServedRightly NamesKept
