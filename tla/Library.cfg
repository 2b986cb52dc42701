CONSTANTS
  Top <- McTop
  Dashed = {"-a"}
  Spaced = {}
  Archive <- McArchive
  Stock <- McStock
  Parcels <- McParcels
  Operations <- McOperations
  Targets <- McTargets
  MaxSteps = 2
  Inputs <- McInputs
SPECIFICATION Spec
CHECK_DEADLOCK FALSE
INVARIANTS
  PoolKeepsLedger
  QueriesExact
  OperationsBalance
  ValuesExact
  DescriptionsAgree
  MessagesEqual
  FetchDelivers
