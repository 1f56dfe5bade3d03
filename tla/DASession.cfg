\* Two threads, one of them the session's queue.
CONSTANTS
  q = q
  w = w
  e1 = e1
  a1 = a1
  r1 = r1
  None = None
  Thread = {q, w}
  Queue = q
  Callback = {a1, r1}
  kindOf <- Asked
  MaxMade = 2
  MaxEntry = 1
  MaxSession = 2
  MaxPort = 1
  MaxExit = 1
SPECIFICATION FairSpec
INVARIANTS NoWakeupLost AnsweredOnce
PROPERTIES CallsComeThrough
CHECK_DEADLOCK FALSE
