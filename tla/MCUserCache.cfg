SPECIFICATION Spec
SYMMETRY Symmetric
CONSTANTS
  Users = {u1, u2}
  Roles = {sale}
  Requests = {r1, r2}
  Denied = Denied
  Nobody = Nobody
  TTL = 2
  MaxCached = 0
  MaxLookup = 1
  MaxTime = 4
INVARIANTS TypeOK ChangeShows RefusedNow OneLookup NoneForgotten CacheBounded
CHECK_DEADLOCK FALSE
