\* What a client is told when the disk to eject leaves.
CONSTANTS
  d1 = d1
  d2 = d2
  d3 = d3
  u1 = u1
  u2 = u2
  v1 = v1
  v2 = v2
  Disk = {d1}
  Unit = {u1, u2}
  Volume = {v1, v2}
  unitOf <- SoloUnit
  volumeOf <- SoloVolume
  Related = {}
  Whole = {d1}
  Writable = {}
  Root = {}
  PreMounted = {}
  Leaving = {d1}
  Late = {}
  ProbeResult = {"volume"}
  AutoMount = {TRUE}
  Asked = {TRUE, FALSE}
  Verdict = {"none", "dissent", "privilege"}
  RequestKind = {"Eject"}
  MaxRequest = 1
SPECIFICATION Spec
PROPERTIES EjectedMeansEjected
CHECK_DEADLOCK FALSE
