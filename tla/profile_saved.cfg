\* One user, one request at a time.
SPECIFICATION Spec
CONSTANTS
  User = {u1}
  Nobody = Nobody
  Keep = Keep
  Pending = Pending
  MaxFlight = 1
  MaxSalt = 0
PROPERTIES
  SaveIsConfirmed
