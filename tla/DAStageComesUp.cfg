\* Disks come up, the dirty after the clean and the returned after the unmount.
CONSTANTS
  d1 = d1
  d2 = d2
  d3 = d3
  u1 = u1
  u2 = u2
  v1 = v1
  v2 = v2
  Disk = {d1, d2, d3}
  Unit = {u1, u2}
  Volume = {v1, v2}
  unitOf <- TwinUnit
  volumeOf <- TwinVolume
  Related = {}
  Whole = {d1}
  Writable = {}
  Root = {}
  PreMounted = {d1}
  Leaving = {d1}
  Late = {}
  ProbeResult = {"volume", "dirty"}
  AutoMount = {FALSE}
  Asked = {FALSE}
  Verdict = {"none", "dissent", "privilege"}
  RequestKind = {}
  MaxRequest = 0
SPECIFICATION FairSpec
INVARIANTS IdleMeansSettled DanglingIsUndone
PROPERTIES DiskComesUp
CHECK_DEADLOCK FALSE
