\* Five messages overrun every limit: one message is kept, two are fetched,
\* three are logged.
CONSTANTS
  PendingLimit = 1
  FetchLimit = 2
  LogLimit = 3
  MaxChats = 5
  MaxRuns = 2
  MaxMishaps = 1
SPECIFICATION ChatSpec
INVARIANTS
  ChatTypeOK
  LossNeedsCrowd
  NoticedRestartIsRead
  AnsweredAgainOnlyAfterMishap
