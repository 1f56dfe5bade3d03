\* A peek and the votes of two sessions about unmounts of one disk.
CONSTANTS
  d1 = d1
  d2 = d2
  s1 = s1
  s2 = s2
  None = None
  Disk = {d1}
  Session = {s1, s2}
  Callback <- VotesAndPeek
  RequestKind = {"Unmount"}
  MaxID = 4
SPECIFICATION FairSpec
INVARIANTS BusyWhileAsked AnswersOwnQuestion
PROPERTIES ImplementsApproval DissentCounts RequestAnswered
CHECK_DEADLOCK FALSE
