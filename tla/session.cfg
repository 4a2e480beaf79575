\* One user who changes the password once, and two functions awaiting an answer.
SPECIFICATION FairSpec
CONSTANTS
  User = {u1}
  Nobody = Nobody
  Keep = Keep
  Pending = Pending
  MaxFlight = 2
  MaxSalt = 1
INVARIANTS
  TypeOK
  SpinnersHaveRequests
  TabAgreesWithServer
  ShownIsServed
  SignedInHasToken
PROPERTIES
  SpinnerEnds
