\* Two requests at a time: can a reader get the same book twice?
SPECIFICATION Spec
CONSTANTS
  Librarian = {lib}
  Member = {m1}
  Book = {b1}
  Loan = {l1, l2}
  Isbn = {i1}
  Comment = {}
  NoComment = NoComment
  NoDate = NoDate
  Thread = {t1, t2}
  MaxCopies = 1
  LoanPeriod = 1
  MaxDay = 0
SYMMETRY Interchangeable
INVARIANTS
  NoDuplicateActive
