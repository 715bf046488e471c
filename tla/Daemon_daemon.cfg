SPECIFICATION FairSpec
CONSTANTS
  Keys = {0,1}
  Senders = {s1,s2}
  StartDatabase <- FirstDeleted
  MaxStarts = 2
  MaxJobs = 2
  MaxEdits = 1
  MaxCrashes = 1
  Free = Free
INVARIANTS OneDaemon StrandedOnlyByMissedSignal StaleOnlyByLateHangup LeftBehindOnlyByGap
PROPERTIES LinesReadBeforeTruncation NoticeRead
CHECK_DEADLOCK FALSE
