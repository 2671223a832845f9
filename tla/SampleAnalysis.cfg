SPECIFICATION AnalysisSpec
CONSTANTS
  Capacity = 2
  Fields <- MCFields
  AliasOf <- MCAliasOf
  FieldOf <- MCFieldOf
  AlertRules <- MCAlertRules
  Configurations <- MCConfigurations
  Times = {1, 2}
  ValuesOf <- MCValuesOf
  MaxSamples = 3
  MaxCalls = 1
INVARIANTS SeriesIsTail AlertIsSustained DerivedIsCurrent EnginesSeeTheRecord
CHECK_DEADLOCK FALSE
