SPECIFICATION Spec
CONSTANTS
  Inputs <- MCResources
  Edited = {}
  MaxEdits = 0
  MaxChanges = 0
INVARIANT StorageKept
