SPECIFICATION FairSpec
CONSTANTS
  ca = ca
  cb = cb
  None = None
  Garbage = Garbage
  Consumers = {ca, cb}
  Events = {1, 2}
  MaxLog = 2
  MaxFaults = 2
INVARIANTS
  ConsumerTypeOK
  CommittedIsSettled
  EffectsAreExplained
  SeenIsHandled
PROPERTIES
  EveryRecordIsSettled
CHECK_DEADLOCK FALSE
