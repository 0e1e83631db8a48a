SPECIFICATION FairSpec
CONSTANTS
  t1 = t1  t2 = t2  c1 = c1
  Main = Main  Stdout = Stdout  Dash = Dash  Syslog = Syslog  File = File
  NoName = NoName  NoOut = NoOut  NoThread = NoThread
  Threads = {t1, t2}
  Default <- TwoNames
  Clients = {c1}
  MaxRecords = 4
  MaxCalls = 1
  MaxSubs = 2
  Names = {Stdout, Dash, Syslog, File}
  Outputs = {1, 2, 3}
ACTION_CONSTRAINT LowestFree
INVARIANTS WritesHaveRecords WrittenInFull OutputsLive
PROPERTY EveryRecordWritten
\* The process ends.
CHECK_DEADLOCK FALSE
