SPECIFICATION FairSpec
CONSTANTS
  Beeps <- MCBeeps
  Heartbeat <- MCHeartbeat
  WaitMax = 4
  MaxSince = 5
  MaxCalls = 5
INVARIANTS
  NoOversleep
  BeepsAsAsked
PROPERTIES
  NeverEarly
  HeartBeats
