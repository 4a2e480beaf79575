\* One request at a time: does an overdue loan still count as held?
SPECIFICATION Spec
CONSTANTS
  Librarian = {lib}
  Member = {m1}
  Book = {b1}
  Loan = {l1, l2}
  Isbn = {i1}
  Comment = {}
  NoComment = NoComment
  NoDate = NoDate
  Thread = {t1}
  MaxCopies = 1
  LoanPeriod = 1
  MaxDay = 2
SYMMETRY Interchangeable
INVARIANTS
  HoldsBookOnce
