SPECIFICATION ConversionSpec
CONSTANTS
  Catalog <- SmallCatalog
  Preset <- TemplateKeys
  Regions <- TwoRegions
  Inputs <- AllInputs
  PublicMaxNodes = 2
  Subscription <- TwoSubscriptions
  Versions <- VersionsServed
  Content <- EntriesOf
  InlineList <- OneInline
  Additions <- OneAddition
  NewName = "X"
  Info = "I"
  Configs <- EditConfigs
  NoList = "v0"
  MaxEdits = 2
  FieldInputs <- AllSources
  FieldEdits <- AllEdits
  Options <- AllOptions
  None = None
  Edited = "edited"
CHECK_DEADLOCK FALSE
INVARIANTS
  WrittenFilesLoad
  CustomRulesAreServed
  GroupsDoNotLoop
  GeneratedFilesPass
  DeletedStaysHidden
  OnlyDeletedIsHidden
  ValuesAreServed
  RenderingIsStable
