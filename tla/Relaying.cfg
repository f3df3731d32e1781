SPECIFICATION FairSpec
CONSTANTS
  ra = ra
  rb = rb
  None = None
  Relays = {ra, rb}
  Events = {1, 2}
  BatchSize = 2
  MaxRetries = 2
  MaxFaults = 2
INVARIANTS
  RelayTypeOK
  PublishedIsDelivered
  OneRelayPerEvent
  DuplicatesAreExplained
PROPERTIES
  NoRepublication
  EveryEventIsSettled
