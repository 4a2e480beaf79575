\* One request at a time: what the lending rules promise when nothing races.
SPECIFICATION Spec
CONSTANTS
  Librarian = {lib}
  Member = {m1}
  Book = {b1}
  Loan = {l1, l2, l3}
  Isbn = {i1}
  Comment = {c1}
  NoComment = NoComment
  NoDate = NoDate
  Thread = {t1}
  MaxCopies = 2
  LoanPeriod = 1
  MaxDay = 2
SYMMETRY Interchangeable
INVARIANTS
  NoDuplicateActive
PROPERTIES
  LendsOnlyWhenOffered
  ImplementsDesk
