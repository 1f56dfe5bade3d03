\* A device with a partition that may leave, and a request.
CONSTANTS
  d1 = d1
  d2 = d2
  d3 = d3
  u1 = u1
  u2 = u2
  v1 = v1
  v2 = v2
  Disk = {d1, d2}
  Unit = {u1, u2}
  Volume = {v1, v2}
  unitOf <- DeviceUnit
  volumeOf <- DeviceVolume
  Related = {}
  Whole = {d1}
  Writable = {}
  Root = {}
  PreMounted = {}
  Leaving = {d2}
  Late = {}
  ProbeResult = {"volume", "none"}
  AutoMount = {TRUE}
  Asked = {TRUE, FALSE}
  Verdict = {"none", "dissent"}
  RequestKind = {"Eject", "Mount", "Unmount"}
  MaxRequest = 1
SPECIFICATION FairSpec
INVARIANTS ServedInOrder
PROPERTIES WholeAfterParts SuccessIsReal RequestAnswered
CHECK_DEADLOCK FALSE
