SPECIFICATION FairSpec
CONSTANTS
  c1 = c1
  c2 = c2
  Clients = {c1, c2}
  NL = NL
  Nobody = Nobody
  MaxRequests <- TwoAndOne
  Typed <- AnyAndSome
INVARIANTS
  TypeOK
  ShowsOwnAnswer
  PromptIsClean
PROPERTIES
  AnswersArrive
  LeftIsRemoved
