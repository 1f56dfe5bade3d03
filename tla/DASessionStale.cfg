\* One thread, and a daemon that does not exit.
CONSTANTS
  q = q
  w = w
  e1 = e1
  a1 = a1
  r1 = r1
  None = None
  Thread = {q}
  Queue = q
  Callback = {e1, r1}
  kindOf <- Told
  MaxMade = 2
  MaxEntry = 2
  MaxSession = 2
  MaxPort = 1
  MaxExit = 0
SPECIFICATION Spec
INVARIANTS CorrectCallback
CHECK_DEADLOCK FALSE
