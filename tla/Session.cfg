\* Every subcommand; one packet or chunk of the server arrives twice.
CONSTANTS
  Modes = {"handshake", "login", "connect", "chat", "observe", "trace", "move", "follow", "followcmd", "join"}
  MaxRepeats = 1
  None = None
SPECIFICATION FairSpec
INVARIANTS
  SessionInv
  ReassemblyIsFaithful
PROPERTIES
  TimedModesEnd
  JoinCompletes
CHECK_DEADLOCK FALSE
