SPECIFICATION Spec
CONSTANTS
  MaxDepth = 2
  MaxItems = 2
INVARIANTS DeliveredFits LegalCanSucceed
CHECK_DEADLOCK FALSE
