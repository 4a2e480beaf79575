\* One request at a time, every accepted request served: are loans that fall
\* due marked?
SPECIFICATION FairSpec
CONSTANTS
  Librarian = {lib}
  Member = {m1}
  Book = {b1}
  Loan = {l1}
  Isbn = {i1}
  Comment = {}
  NoComment = NoComment
  NoDate = NoDate
  Thread = {t1}
  MaxCopies = 1
  LoanPeriod = 1
  MaxDay = 2
PROPERTIES
  PastDueIsMarked
