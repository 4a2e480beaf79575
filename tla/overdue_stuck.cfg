\* The librarian's list of loans, with one loan.
SPECIFICATION Spec
CONSTANTS
  Id = {1}
  Date <- Dates
  Key = {}
  Blank = Blank
  Views = {"loans"}
  Due = {1}
  Chosen = {}
  PageSize = 1
  LastPage = 1
  MaxFlight = 1
  Pending = Pending
INVARIANTS
  OpenLoansReturnable
