\* Three goroutines, three calls of StartProxy and StopProxy in any order.
SPECIFICATION FairSpec
CONSTANTS
  c1 = c1
  c2 = c2
  c3 = c3
  Calls <- ThreeCalls
  NoCall = NoCall
  MaxCalls = 3
INVARIANTS OffMeansDown WindowCatchesUp
PROPERTIES CallsReturn
