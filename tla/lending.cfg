\* Two requests at a time, a member and a librarian as readers, one book of at
\* most one copy, two loans, and three days, so that a loan falls due, is marked
\* and returned while others are being made.
SPECIFICATION Spec
CONSTANTS
  Librarian = {lib}
  Member = {m1}
  Book = {b1}
  Loan = {l1, l2}
  Isbn = {i1}
  Comment = {}
  NoComment = NoComment
  NoDate = NoDate
  Thread = {t1, t2}
  MaxCopies = 1
  LoanPeriod = 1
  MaxDay = 2
SYMMETRY Interchangeable
INVARIANTS
  TypeOK
  ReturnDateConsistent
  OverdueIsPastDue
  OverbookingBounded
  DuplicatesBounded
PROPERTIES
  LoanLifecycle
  ImplementsDesk
