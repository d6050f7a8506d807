SPECIFICATION Spec
CONSTANTS
  kernel = kernel
  status = status
  Runs = {kernel, status}
  Environments <- MCEnvironments
  EmptyName = ""
  EmptyFunction = ""
  Asked <- MCAsked
  WasmPolicies <- MCWasmPolicies
  Outcomes <- MCOutcomes
  WasmOutcomes = {"success", "CapabilityDenied"}
  MaxEvents = 5
  MaxFaults = 1
  None = None
INVARIANTS
  TypeOK
  RecordsAreAPrefix
  EveryRunReadsAsABoot
  RunningCallIsOnRecord
  OfferedCallsAreServed
  SnapshotIsTrue
PROPERTIES
  TrailsKeepContract
  StatusRunEnds
\* Every run is over at last.
CHECK_DEADLOCK FALSE
