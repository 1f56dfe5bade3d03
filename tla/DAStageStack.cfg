\* A container stacked upon a disk, and two requests.
CONSTANTS
  d1 = d1
  d2 = d2
  d3 = d3
  u1 = u1
  u2 = u2
  v1 = v1
  v2 = v2
  Disk = {d1, d2}
  Unit = {u1, u2}
  Volume = {v1, v2}
  unitOf <- AgainUnit
  volumeOf <- DeviceVolume
  Related <- StackRelated
  Whole = {d1, d2}
  Writable = {d1}
  Root = {}
  PreMounted = {}
  Leaving = {d2}
  Late = {}
  ProbeResult = {"volume", "none"}
  AutoMount = {FALSE}
  Asked = {TRUE}
  Verdict = {"none", "dissent", "privilege"}
  RequestKind = {"Eject", "Mount", "Unmount"}
  MaxRequest = 2
SPECIFICATION Spec
INVARIANTS TakeTurns AnsweredOnce
CHECK_DEADLOCK FALSE
