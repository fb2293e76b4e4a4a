SPECIFICATION Spec
CONSTANTS
  NumPods = 2
  NumAddr = 2
  PartialPorts = TRUE
  MaxChanges = 2
INVARIANTS TypeOK AllOrNothing SameAddress FreshAddresses
PROPERTIES EventuallyAccurate
