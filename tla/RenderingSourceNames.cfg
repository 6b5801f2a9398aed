SPECIFICATION Spec
CONSTANTS
  Catalog <- SmallCatalog
  Preset <- TemplateKeys
  Regions <- TwoRegions
  Inputs <- AllInputs
  PublicMaxNodes = 2
CHECK_DEADLOCK FALSE
INVARIANTS
  SourceNamesDoNotMatter
