SPECIFICATION FairSpec
CONSTANTS
  get = get
  service = service
  broker = broker
  replica = replica
  Call = {get}
  Checker = {service, broker, replica}
  Name <- ServiceNames
  Hanging = {broker}
  Files <- SomeFiles
  Unreadable = Unreadable
  Environments <- SomeEnvironments
  Taken = {7070}
  Service = service
INVARIANTS WorstDecides ServesWhatWasValidated CleanOnlyWithoutMetrics
PROPERTIES PortsAreServed HealthAnswers SignalEndsProcess
CHECK_DEADLOCK FALSE
