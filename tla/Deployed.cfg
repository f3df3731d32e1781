SPECIFICATION DeployedSpec
CONSTANTS
  None = None
  Relays = {ra}
  Events = {1}
  BatchSize = 1
  MaxRetries = 2
  MaxFaults = 0
PROPERTIES
  EveryEventIsSettled
CHECK_DEADLOCK FALSE
