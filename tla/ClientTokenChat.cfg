CONSTANTS
  Chats = {c1}
  Controls = {}
  MaxClients = 1
  MaxTokens = 1
  Nobody = Nobody
SPECIFICATION Spec
INVARIANT EveryRequestRenews
CHECK_DEADLOCK FALSE
