CONSTANTS
  d1 = d1
  d2 = d2
  net = net
  a = a
  b = b
  NoPath = NoPath
  Disk = {d1, d2, net}
  Network = {net}
  Name = {a, b}
  FirstName <- SameName
  LastIndex = 1
  Outside = {}
  Littered = {}
  Automatic = {d1, d2}
  System = {d2}
  ReadOnlyMedia = {}
  Dirty = {d1}
  AlwaysRepair = FALSE
  MapOptions <- Mapped
  MapPath <- MappedTo
  ClientOptions <- Client
  ClientPoints <- Point
  MaxSweep = 1
  MaxInput = 4
SPECIFICATION Spec
INVARIANTS ApartPoints CleanWhenWritten NewsComes
PROPERTIES ReservedStands UnmountsOwn
CHECK_DEADLOCK FALSE
