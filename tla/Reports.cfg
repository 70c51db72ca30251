CONSTANTS
  None = none
  Raws <- MCRaws
  Footprints <- MCFootprints
  Datasets <- MCDatasets
  Rolls <- MCRolls
  Choices <- MCChoices
SPECIFICATION Spec
CHECK_DEADLOCK FALSE
INVARIANT NothingInventedIsSent
INVARIANT RecordTellsDelivery
INVARIANT PlanKeepsData
INVARIANT FairComparison
