SPECIFICATION Spec
CONSTANTS
  TextUnit = 2
  Inputs <- AllInputs
  Missing = Missing
  Quantities = {3, 4}
  MaxRequests = 5
INVARIANTS
  
  StartedAsAsked
  SignedAsConfigured
CHECK_DEADLOCK FALSE
