SPECIFICATION Spec
CONSTANTS
  Inputs <- AllSources
  Options <- AllOptions
  Edits <- AllEdits
  None = None
  Edited = "edited"
CHECK_DEADLOCK FALSE
INVARIANTS
  RequiredFieldsAreWritten
