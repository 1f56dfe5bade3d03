\* Peeks and claims of two sessions on one disk.
CONSTANTS
  d1 = d1
  d2 = d2
  s1 = s1
  s2 = s2
  None = None
  Disk = {d1}
  Session = {s1, s2}
  Callback <- PeekCallbacks
  RequestKind = {"Claim"}
  MaxID = 3
SPECIFICATION FairSpec
INVARIANTS ZombieOwesOnlyPeek ClaimantIsAlive PeeksPrecedeAppearance
PROPERTIES ClaimNotStolen ConsultationEnds
CHECK_DEADLOCK FALSE
