CONSTANTS
  a1 = a1
  s1 = s1
  w0 = w0
  w1 = w1
  Addr = {a1}
  Slot = {s1}
  Word = {w0, w1}
  Zero = w0
  TopicLists <- MCTopicLists
  DataLists <- MCDataLists
  MaxJournal = 6
  MaxLogs = 2
SPECIFICATION FFairSpec
INVARIANT TypeOK
INVARIANT MarkerIsInnermost
INVARIANT LogArenasTiled
INVARIANT EarlierLogsKept
PROPERTY RefinesSnapshots
PROPERTY RevertCompletes
