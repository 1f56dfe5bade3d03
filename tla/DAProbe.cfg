\* Two disks are probed.
CONSTANTS
  d1 = d1
  d2 = d2
  hfs = hfs
  ntfs = ntfs
  udf = udf
  msdos = msdos
  NoJob = NoJob
  NoCandidate = NoCandidate
  Job = {d1, d2}
  Thread = {1, 2}
  Pid = {1, 2}
  Candidate = {hfs, ntfs, udf, msdos}
  ProbeList <- List
  Modules <- Offer
  Matches <- Fit
  Ntfs = {ntfs}
  Repairs = {hfs}
  NoAuto = {msdos}
  Broken = {udf}
  Missing = {TRUE, FALSE}
  MaxProbe = 1
SPECIFICATION FairSpec
INVARIANTS NothingSkipped RunsOwnJob NoEndMissed
PROPERTIES KeepsPromise ProbeEnds
CHECK_DEADLOCK FALSE
