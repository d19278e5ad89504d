CONSTANTS
  Chats = {c1}
  Controls = {k1}
  MaxClients = 2
  MaxTokens = 4
  Nobody = Nobody
SPECIFICATION FairSpec
INVARIANTS TypeOK SessionWhole ControlRenews
PROPERTIES ImplementsStore EveryRequestEnds
CHECK_DEADLOCK FALSE
