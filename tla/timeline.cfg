\* A session that streams two of: an answer, a tool call, a child, a queue.
\* Two runs or manual compactions, two prompts, one drop, and at most one of
\* the upsets a property may be spared.
SPECIFICATION Spec
CONSTANTS
  Channels = {answer}
  Rendered = {answer}
  Tools = {t1}
  Children = {c1}
  Waiting = {q1}
  Drained = drained
  MaxRuns = 2
  MaxTurns = 2
  MaxDrops = 1
  MaxQueues = 1
  MaxKinds = 2
  MaxUpsets = 1
INVARIANTS
  TypeOK
  NothingLeftOpen
  ClosesWhatWasOpened
  ClosedOnce
  ChildRowsFollow
  QueueIsShown
CHECK_DEADLOCK FALSE
