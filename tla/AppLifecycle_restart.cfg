SPECIFICATION Spec
CONSTANTS
  c1 = c1
  c2 = c2
  c3 = c3
  Calls <- TwoCalls
  NoCall = NoCall
  MaxCalls = 3
PROPERTIES SuccessMeansServing
