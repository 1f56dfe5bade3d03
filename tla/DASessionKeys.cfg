\* One thread that registers often.
CONSTANTS
  q = q
  w = w
  e1 = e1
  a1 = a1
  r1 = r1
  None = None
  Thread = {q}
  Queue = q
  Callback = {e1, r1}
  kindOf <- Told
  MaxMade = 4
  MaxEntry = 1
  MaxSession = 2
  MaxPort = 1
  MaxExit = 1
SPECIFICATION Spec
INVARIANTS AnswerFindsRequest RegistersAgree
PROPERTIES RegisteredIsCalled
CHECK_DEADLOCK FALSE
