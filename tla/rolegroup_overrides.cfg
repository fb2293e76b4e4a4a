SPECIFICATION Spec
CONSTANTS
  Inputs <- MCOverrides
  Edited = {}
  MaxEdits = 0
  MaxChanges = 0
INVARIANT OverridesApplied
