\* Times in units of two seconds, as in the code: 2, 2 and 8 seconds.  Five
\* snapshots cover a turn from its start to the end of a tool.
CONSTANTS
  Heartbeat = 1
  PostTimeout = 1
  Ttl = 4
  MaxPublished = 5
  MaxFaults = 2
  None = None
SPECIFICATION Spec
INVARIANTS
  TelemetryInv
PROPERTIES
  BackOnlyByLatePost
  TruthIsShown
