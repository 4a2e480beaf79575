\* Every page in turn: two rows on pages of one, two ISBNs or e-mails, one status
\* to filter by besides none, two requests in flight.
SPECIFICATION Spec
CONSTANTS
  Id = {1, 2}
  Date <- Dates
  Key = {ka, kb}
  Blank = Blank
  Views = {"books", "members", "loans", "own", "shelf", "search", "quick", "desk"}
  Due = {1}
  Chosen = {"borrowed"}
  PageSize = 1
  LastPage = 2
  MaxFlight = 2
  Pending = Pending
SYMMETRY Interchangeable
ACTION_CONSTRAINTS
  SettlesOnceDisturbed
  OthersWait
INVARIANTS
  TypeOK
  RowsAreCurrent
  ListAnswersQuery
  MoreIsReachable
  AnswerMeetsItsDialog
  LockedRowsAreAwaited
