SPECIFICATION Spec
CONSTANTS
  c1 = c1
  c2 = c2
  Clients = {c1}
  NL = NL
  Nobody = Nobody
  MaxRequests <- OneOrder
  Typed <- AnyLine
INVARIANT SurvivesClients
