CONSTANTS
  w = w
  v = v
  x = x
  a = a
  b = b
  Medium = {w, v, x}
  idOf <- Names
  unitOf <- Units
  Whole = {w}
  Apfs = {1}
  Restless = {w}
  MaxEvent = 3
  Present <- There
  User = {a, b}
  NoUser = NoUser
  Owner <- Owners
  Deferred = {v, x}
  NoDefer = {x}
  Encrypted = {v}
  Leaf = {x}
SPECIFICATION Spec
INVARIANTS ListTrue EarlyComesUp DeferredFollowsUsers LogoutUnmounts LooksAgain
CHECK_DEADLOCK FALSE
