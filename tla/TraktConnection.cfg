SPECIFICATION Spec
CONSTANTS
  Accounts = {a1, a2}
  MaxPairs = 2
  MaxFlows = 2
  MaxCrashes = 1
  MaxErrors = 2
INVARIANTS DataIsTheAccounts MemoryIsStored NoGrantLeft ReauthHasACause ImportIsOwed
SYMMETRY AccountSymmetry
CHECK_DEADLOCK FALSE
