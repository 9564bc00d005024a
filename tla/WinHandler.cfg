\* Two queries, a request of the user interface and one of another process.
\* The system stops for good when the application does, or when a datagram
\* that the receiver waits for is lost.
SPECIFICATION Spec
CONSTANTS
  MaxQueries = 2
  MaxPosts = 1
  MaxOthers = 1
  InboxSize = 2
INVARIANTS AnswersMatch MonitorComesFree StopIsHeard
CHECK_DEADLOCK FALSE
