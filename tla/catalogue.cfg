\* Two requests at a time on two books that compete for ISBNs, with a member
\* and two loans that come and go while their book or reader is deleted.
SPECIFICATION Spec
CONSTANTS
  Librarian = {lib}
  Member = {m1}
  Book = {b1, b2}
  Loan = {l1, l2}
  Isbn = {i1, i2}
  Comment = {}
  NoComment = NoComment
  NoDate = NoDate
  Thread = {t1, t2}
  MaxCopies = 1
  LoanPeriod = 1
  MaxDay = 0
SYMMETRY Interchangeable
INVARIANTS
  ReferentialIntegrity
  IsbnUnique
