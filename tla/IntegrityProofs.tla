--------------------------- MODULE IntegrityProofs --------------------------
(***************************************************************************)
(* The tables stay consistent whatever requests interleave: references,    *)
(* ISBNs, dates of return, overdue marks, the life of a loan.              *)
(***************************************************************************)
EXTENDS LibraryProofs

-----------------------------------------------------------------------------
(* The statements that write *)

\* Every step other than these leaves the tables alone.
LEMMA Writes ==
  ASSUME [Next]_vars
  PROVE  \/ \E t \in Thread :
              \/ InsertLoan(t) \/ ReturnWrite(t) \/ UpdateAll(t)
              \/ InsertBook(t) \/ UpdateBook(t) \/ DestroyBook(t)
              \/ DestroyMember(t)
              \/ InsertMember(t)
         \/ UNCHANGED <<books, users, loans, issued>>
BY DEF Next, vars, BorrowingsNext, BorrowRequest, ValidateDuplicate,
       ValidateCopies, ReturnRequest, OverdueNext, MarkOverdueRequest, Notify,
       CatalogueNext, CreateBookRequest, ValidateNewBook, UpdateBookRequest,
       ValidateBook, DestroyBookRequest, MembersNext, CreateMemberRequest,
       DestroyMemberRequest, NextDay, Crash

\* What a write of InsertLoan leaves in the table.
LEMMA InsertedLoan ==
  ASSUME NEW t \in Thread, InsertLoan(t)
  PROVE  \/ UNCHANGED <<loans, issued>>
         \/ \E l \in Loan \ issued :
              /\ ForeignKeysHold(NewLoan(req[t]))
              /\ DOMAIN loans' = DOMAIN loans \cup {l}
              /\ loans'[l] = NewLoan(req[t])
              /\ \A k \in DOMAIN loans \ {l} : loans'[k] = loans[k]
              /\ issued' = issued \cup {l}
BY DEF InsertLoan, Insert

\* What ReturnWrite leaves in the table.
LEMMA ReturnedLoans ==
  ASSUME TypeOK, NEW t \in Thread, ReturnWrite(t)
  PROVE  /\ DOMAIN loans' = DOMAIN loans
         /\ \A l \in DOMAIN loans :
              /\ l # req[t].loan => loans'[l] = loans[l]
              /\ l = req[t].loan =>
                   /\ loans'[l].returned_at = day
                   /\ req[t].status # "returned" => loans'[l].status = "returned"
                   /\ req[t].status = "returned"
                        => loans'[l].status = loans[l].status
              /\ loans'[l].user_id = loans[l].user_id
              /\ loans'[l].book_id = loans[l].book_id
              /\ loans'[l].due_date = loans[l].due_date
<1>1. req[t] \in ReturnReq /\ day \in Day /\ \A l \in DOMAIN loans : loans[l] \in LoanRow
  BY RequestShape DEF ReturnWrite, TypeOK, IsTable
<1>2. \A l \in DOMAIN loans :
        loans'[l] = IF l = req[t].loan THEN Returned(loans[l], req[t]) ELSE loans[l]
  BY DEF ReturnWrite
<1>3. DOMAIN loans' = DOMAIN loans
  BY DEF ReturnWrite
<1> QED
  BY <1>1, <1>2, <1>3, ReturnedRow

\* What UpdateAll leaves in the table.
LEMMA MarkedLoans ==
  ASSUME TypeOK, NEW t \in Thread, UpdateAll(t)
  PROVE  /\ DOMAIN loans' = DOMAIN loans
         /\ \A l \in DOMAIN loans :
              /\ l \notin PastDue(req[t].at) => loans'[l] = loans[l]
              /\ l \in PastDue(req[t].at) =>
                   /\ loans'[l].status = "overdue"
                   /\ loans'[l].returned_at = loans[l].returned_at
              /\ loans'[l].user_id = loans[l].user_id
              /\ loans'[l].book_id = loans[l].book_id
              /\ loans'[l].due_date = loans[l].due_date
<1>1. \A l \in DOMAIN loans : loans[l] \in LoanRow
  BY DEF TypeOK, IsTable
<1> QED
  BY <1>1 DEF UpdateAll, LoanRow

\* What destroying a book or a member leaves in the table.
LEMMA DestroyedLoans ==
  ASSUME NEW t \in Thread, DestroyBook(t) \/ DestroyMember(t)
  PROVE  /\ DOMAIN loans' \subseteq DOMAIN loans
         /\ \A l \in DOMAIN loans' : loans'[l] = loans[l]
BY DEF DestroyBook, DestroyMember, Delete, Restrict

-----------------------------------------------------------------------------
(* References *)

LEMMA ReferencesStep ==
  TypeOK /\ ReferentialIntegrity /\ [Next]_vars => ReferentialIntegrity'
<1> SUFFICES ASSUME TypeOK, ReferentialIntegrity, [Next]_vars
             PROVE  ReferentialIntegrity'
  OBVIOUS
<1> USE DEF ReferentialIntegrity, ForeignKeysHold
<1>1. ASSUME NEW t \in Thread, InsertLoan(t)
      PROVE  ReferentialIntegrity'
  BY <1>1, InsertedLoan DEF InsertLoan
<1>2. ASSUME NEW t \in Thread, ReturnWrite(t)
      PROVE  ReferentialIntegrity'
  BY <1>2, ReturnedLoans DEF ReturnWrite
<1>3. ASSUME NEW t \in Thread, UpdateAll(t)
      PROVE  ReferentialIntegrity'
  <2>1. /\ DOMAIN loans' = DOMAIN loans
        /\ \A l \in DOMAIN loans : /\ loans'[l].user_id = loans[l].user_id
                                   /\ loans'[l].book_id = loans[l].book_id
    BY <1>3, MarkedLoans
  <2>2. UNCHANGED <<books, users>>
    BY <1>3 DEF UpdateAll
  <2> QED
    BY <2>1, <2>2
<1>4. ASSUME NEW t \in Thread, InsertBook(t) \/ UpdateBook(t)
      PROVE  ReferentialIntegrity'
  <2>1. DOMAIN books \subseteq DOMAIN books' /\ UNCHANGED <<users, loans>>
    BY <1>4 DEF InsertBook, UpdateBook, Insert
  <2> QED
    BY <2>1
<1>5. ASSUME NEW t \in Thread, DestroyBook(t)
      PROVE  ReferentialIntegrity'
  <2>1. CASE UNCHANGED <<loans, books>>
    BY <1>5, <2>1 DEF DestroyBook
  <2>2. CASE /\ LoansOfBook(req[t].book) \subseteq req[t].children
             /\ loans' = Delete(loans, req[t].children)
             /\ books' = Delete(books, {req[t].book})
    <3>1. DOMAIN books' = DOMAIN books \ {req[t].book} /\ users' = users
      BY <1>5, <2>2 DEF DestroyBook, Delete, Restrict
    <3>2. \A l \in DOMAIN loans' :
            l \in DOMAIN loans /\ loans'[l] = loans[l] /\ l \notin req[t].children
      BY <2>2 DEF Delete, Restrict
    <3>3. \A l \in DOMAIN loans' : loans[l].book_id # req[t].book
      BY <2>2, <3>2 DEF LoansOfBook
    <3> QED
      BY <3>1, <3>2, <3>3
  <2> QED
    BY <1>5, <2>1, <2>2 DEF DestroyBook
<1>6. ASSUME NEW t \in Thread, DestroyMember(t)
      PROVE  ReferentialIntegrity'
  <2>1. CASE UNCHANGED <<loans, users>>
    BY <1>6, <2>1 DEF DestroyMember
  <2>2. CASE /\ LoansOfUser(req[t].user) \subseteq req[t].children
             /\ loans' = Delete(loans, req[t].children)
             /\ users' = users \ {req[t].user}
    <3>1. \A l \in DOMAIN loans' :
            l \in DOMAIN loans /\ loans'[l] = loans[l] /\ l \notin req[t].children
      BY <2>2 DEF Delete, Restrict
    <3>2. \A l \in DOMAIN loans' : loans[l].user_id # req[t].user
      BY <2>2, <3>1 DEF LoansOfUser
    <3> QED
      BY <1>6, <2>2, <3>1, <3>2 DEF DestroyMember
  <2> QED
    BY <1>6, <2>1, <2>2 DEF DestroyMember
<1>7. ASSUME NEW t \in Thread, InsertMember(t)
      PROVE  ReferentialIntegrity'
  BY <1>7 DEF InsertMember
<1>8. CASE UNCHANGED <<books, users, loans, issued>>
  BY <1>8
<1> QED
  BY <1>1, <1>2, <1>3, <1>4, <1>5, <1>6, <1>7, <1>8, Writes

\* No loan ever refers to a user or a book that is gone: create!, destroy! and
\* the foreign keys, in any interleaving.
THEOREM ReferencesHold == Spec => []ReferentialIntegrity
<1>1. Init => ReferentialIntegrity
  BY DEF Init, EmptyTable, ReferentialIntegrity
<1> QED
  BY <1>1, ReferencesStep, TypeCorrect, PTL DEF Spec

-----------------------------------------------------------------------------
(* ISBNs *)

LEMMA IsbnStep == IsbnUnique /\ [Next]_vars => IsbnUnique'
<1> SUFFICES ASSUME IsbnUnique, [Next]_vars PROVE IsbnUnique'
  OBVIOUS
<1> USE DEF IsbnUnique, IsbnFree
<1>1. ASSUME NEW t \in Thread, InsertBook(t)
      PROVE  IsbnUnique'
  <2>1. CASE UNCHANGED books
    BY <2>1
  <2>2. CASE /\ IsbnFree(DOMAIN books, req[t].form.isbn)
             /\ \E b \in Book \ issued : books' = Insert(books, b, NewBook(req[t].form))
    <3>1. PICK b \in Book \ issued : books' = Insert(books, b, NewBook(req[t].form))
      BY <2>2
    <3>2. \A k \in DOMAIN books' :
            \/ k = b /\ books'[k].isbn = req[t].form.isbn
            \/ k \in DOMAIN books /\ books'[k].isbn = books[k].isbn
      BY <3>1 DEF Insert, NewBook
    <3> QED
      BY <2>2, <3>2
  <2> QED
    BY <1>1, <2>1, <2>2 DEF InsertBook
<1>2. ASSUME NEW t \in Thread, UpdateBook(t)
      PROVE  IsbnUnique'
  BY <1>2 DEF UpdateBook
<1>3. ASSUME NEW t \in Thread, DestroyBook(t)
      PROVE  IsbnUnique'
  BY <1>3 DEF DestroyBook, Delete, Restrict
<1>4. CASE UNCHANGED books
  BY <1>4
<1> QED
  BY <1>1, <1>2, <1>3, <1>4, Writes
  DEF InsertLoan, ReturnWrite, UpdateAll, DestroyMember, InsertMember

\* The unique index keeps ISBNs apart although validation and INSERT are
\* separate statements.
THEOREM IsbnsUnique == Spec => []IsbnUnique
<1>1. Init => IsbnUnique
  BY DEF Init, EmptyTable, IsbnUnique
<1> QED
  BY <1>1, IsbnStep, PTL DEF Spec

-----------------------------------------------------------------------------
(* The requests under way *)

\* What a step can do to the request of one thread.
LEMMA RequestMoves ==
  ASSUME TypeOK, [Next]_vars, NEW s \in Thread
  PROVE  \/ req'[s] = req[s] \/ req'[s] = Idle
         \/ \E u \in User, b \in Book : BorrowRequest(s, u, b)
         \/ ValidateDuplicate(s) \/ ValidateCopies(s)
         \/ \E l \in Loan, c \in Comment \cup {NoComment} : ReturnRequest(s, l, c)
         \/ MarkOverdueRequest(s) \/ UpdateAll(s)
         \/ \E form \in BookForm : CreateBookRequest(s, form)
         \/ ValidateNewBook(s)
         \/ \E b \in Book, form \in BookForm : UpdateBookRequest(s, b, form)
         \/ ValidateBook(s)
         \/ \E b \in Book : DestroyBookRequest(s, b)
         \/ CreateMemberRequest(s)
         \/ \E u \in Member : DestroyMemberRequest(s, u)
<1> USE DEF Begin, Finish, Continue
<1>0. req \in [Thread -> Request]
  BY DEF TypeOK
<1>1. CASE BorrowingsNext
  BY <1>0, <1>1 DEF BorrowingsNext, BorrowRequest, ValidateDuplicate,
       ValidateCopies, InsertLoan, ReturnRequest, ReturnWrite
<1>2. CASE OverdueNext
  BY <1>0, <1>2 DEF OverdueNext, MarkOverdueRequest, UpdateAll, Notify
<1>3. CASE CatalogueNext
  BY <1>0, <1>3 DEF CatalogueNext, CreateBookRequest, ValidateNewBook, InsertBook,
       UpdateBookRequest, ValidateBook, UpdateBook, DestroyBookRequest, DestroyBook
<1>4. CASE MembersNext
  BY <1>0, <1>4 DEF MembersNext, InsertMember, CreateMemberRequest,
       DestroyMemberRequest, DestroyMember
<1>5. CASE NextDay \/ (\E t \in Thread : Crash(t)) \/ UNCHANGED vars
  BY <1>0, <1>5 DEF NextDay, Crash, vars
<1> QED
  BY <1>1, <1>2, <1>3, <1>4, <1>5 DEF Next

\* Going on to the next statement sets the program counter and keeps the day.
LEMMA Advance ==
  ASSUME NEW r, "pc" \in DOMAIN r, "at" \in DOMAIN r, NEW p, NEW v
  PROVE  /\ [r EXCEPT !.pc = p].pc = p /\ [r EXCEPT !.pc = p].at = r.at
         /\ [r EXCEPT !.pc = p, !.due = v].pc = p
         /\ [r EXCEPT !.pc = p, !.due = v].at = r.at
         /\ [r EXCEPT !.pc = p, !.count = v].pc = p
         /\ [r EXCEPT !.pc = p, !.count = v].at = r.at
OBVIOUS

\* The statements that leave their request waiting for another one.
LEMMA Advances ==
  ASSUME TypeOK, NEW s \in Thread,
         \/ ValidateDuplicate(s) \/ ValidateCopies(s) \/ UpdateAll(s)
         \/ ValidateNewBook(s) \/ ValidateBook(s)
  PROVE  \/ req'[s] = Idle
         \/ /\ req[s] # Idle
            /\ req'[s].at = req[s].at
            /\ \/ ValidateDuplicate(s) /\ req'[s].pc = "validate_copies"
               \/ ValidateCopies(s) /\ req'[s].pc = "insert_loan"
               \/ req'[s].pc \in {"notify", "insert_book", "update_book"}
<1>1. req \in [Thread -> Request] /\ req[s] \in Request
  BY DEF TypeOK
<1>2. \/ req[s] \in BorrowReq({"validate_duplicate"}, {NoDate})
      \/ req[s] \in BorrowReq({"validate_copies", "insert_loan"}, Nat)
      \/ req[s] \in OverdueReq
      \/ req[s] \in CreateBookReq({"validate_new_book"}, BookForm)
      \/ req[s] \in UpdateBookReq({"validate_book"}, BookForm)
  BY <1>1, RequestShape DEF ValidateDuplicate, ValidateCopies, UpdateAll,
       ValidateNewBook, ValidateBook
<1>3. "pc" \in DOMAIN req[s] /\ "at" \in DOMAIN req[s] /\ req[s] # Idle
  BY <1>2 DEF BorrowReq, OverdueReq, CreateBookReq, UpdateBookReq, Idle
<1>4. CASE Finish(s)
  BY <1>1, <1>4 DEF Finish, Continue
<1>5. ASSUME NEW p, NEW v,
             \/ Continue(s, [req[s] EXCEPT !.pc = p])
             \/ Continue(s, [req[s] EXCEPT !.pc = p, !.due = v])
             \/ Continue(s, [req[s] EXCEPT !.pc = p, !.count = v])
      PROVE  req'[s].pc = p /\ req'[s].at = req[s].at
  <2>1. \/ req'[s] = [req[s] EXCEPT !.pc = p]
        \/ req'[s] = [req[s] EXCEPT !.pc = p, !.due = v]
        \/ req'[s] = [req[s] EXCEPT !.pc = p, !.count = v]
    BY <1>1, <1>5 DEF Continue
  <2> QED
    BY <1>3, <2>1, Advance
<1>6. CASE ValidateDuplicate(s)
  BY <1>3, <1>4, <1>5, <1>6 DEF ValidateDuplicate
<1>7. CASE ValidateCopies(s)
  BY <1>3, <1>4, <1>5, <1>7 DEF ValidateCopies
<1>8. CASE UpdateAll(s)
  BY <1>3, <1>4, <1>5, <1>8 DEF UpdateAll
<1>9. CASE ValidateNewBook(s) \/ ValidateBook(s)
  BY <1>3, <1>4, <1>5, <1>9 DEF ValidateNewBook, ValidateBook
<1> QED
  BY <1>6, <1>7, <1>8, <1>9

\* A request keeps the day it arrived on.
LEMMA RequestAge ==
  ASSUME TypeOK, [Next]_vars, NEW s \in Thread
  PROVE  \/ req'[s] = Idle \/ req'[s].at = day
         \/ req[s] # Idle /\ req'[s].at = req[s].at
<1>1. CASE \/ \E u \in User, b \in Book : BorrowRequest(s, u, b)
           \/ \E l \in Loan, c \in Comment \cup {NoComment} : ReturnRequest(s, l, c)
           \/ MarkOverdueRequest(s)
           \/ \E form \in BookForm : CreateBookRequest(s, form)
           \/ \E b \in Book, form \in BookForm : UpdateBookRequest(s, b, form)
           \/ \E b \in Book : DestroyBookRequest(s, b)
           \/ CreateMemberRequest(s)
           \/ \E u \in Member : DestroyMemberRequest(s, u)
  BY <1>1 DEF BorrowRequest, ReturnRequest, MarkOverdueRequest,
       CreateBookRequest, UpdateBookRequest, DestroyBookRequest,
       CreateMemberRequest, DestroyMemberRequest, Begin, TypeOK
<1> QED
  BY <1>1, RequestMoves, Advances

\* A return under way was loaded by an earlier step or is loaded by this one.
LEMMA ReturnLoaded ==
  ASSUME TypeOK, [Next]_vars, NEW s \in Thread, req'[s].pc = "return"
  PROVE  \/ req'[s] = req[s]
         \/ /\ req'[s].loan \in DOMAIN loans
            /\ req'[s].status = loans[req'[s].loan].status
            /\ UNCHANGED <<books, users, loans, issued>>
<1>1. req'[s] # Idle
  BY DEF Idle
<1>2. CASE \E l \in Loan, c \in Comment \cup {NoComment} : ReturnRequest(s, l, c)
  BY <1>2 DEF ReturnRequest, Begin, TypeOK
<1>3. CASE ValidateDuplicate(s) \/ ValidateCopies(s) \/ UpdateAll(s)
           \/ ValidateNewBook(s) \/ ValidateBook(s)
  BY <1>1, <1>3, Advances
<1>4. CASE \/ \E u \in User, b \in Book : BorrowRequest(s, u, b)
           \/ MarkOverdueRequest(s)
           \/ \E form \in BookForm : CreateBookRequest(s, form)
           \/ \E b \in Book, form \in BookForm : UpdateBookRequest(s, b, form)
           \/ \E b \in Book : DestroyBookRequest(s, b)
           \/ CreateMemberRequest(s)
           \/ \E u \in Member : DestroyMemberRequest(s, u)
  BY <1>4 DEF BorrowRequest, MarkOverdueRequest, CreateBookRequest,
       UpdateBookRequest, DestroyBookRequest, CreateMemberRequest,
       DestroyMemberRequest, Begin, TypeOK
<1> QED
  BY <1>1, <1>2, <1>3, <1>4, RequestMoves

\* Time does not run backwards.
LEMMA DayStep ==
  ASSUME day \in Nat, [Next]_vars
  PROVE  day' \in Nat /\ day <= day'
<1>1. NextDay \/ UNCHANGED day
  BY DEF Next, vars, BorrowingsNext, BorrowRequest, ValidateDuplicate,
         ValidateCopies, InsertLoan, ReturnRequest, ReturnWrite, OverdueNext,
         MarkOverdueRequest, UpdateAll, Notify, CatalogueNext,
         CreateBookRequest, ValidateNewBook, InsertBook, UpdateBookRequest,
         ValidateBook, UpdateBook, DestroyBookRequest, DestroyBook, MembersNext,
         InsertMember, CreateMemberRequest, DestroyMemberRequest, DestroyMember,
         Crash
<1> QED
  BY <1>1 DEF NextDay

LEMMA ArrivedStep == TypeOK /\ ArrivedByToday /\ [Next]_vars => ArrivedByToday'
<1> SUFFICES ASSUME TypeOK, ArrivedByToday, [Next]_vars,
                    NEW s \in Thread, req'[s] # Idle
             PROVE  req'[s].at <= day'
  BY DEF ArrivedByToday
<1>1. day \in Nat /\ day' \in Nat /\ day <= day'
  BY ConstantsAssumption, DayStep DEF TypeOK, Day
<1>2. req[s] # Idle => req[s].at \in Nat /\ req[s].at <= day
  <2>1. req[s] \in Request
    BY DEF TypeOK
  <2> QED
    BY <2>1 DEF ArrivedByToday, Request, Day, BorrowReq, ReturnReq, OverdueReq,
         CreateBookReq, UpdateBookReq, DestroyBookReq, CreateMemberReq,
         DestroyMemberReq
<1> QED
  BY <1>1, <1>2, RequestAge

-----------------------------------------------------------------------------
(* Overdue loans *)

LEMMA OverdueStep ==
  TypeOK /\ ArrivedByToday /\ OverdueIsPastDue /\ [Next]_vars => OverdueIsPastDue'
<1> SUFFICES ASSUME TypeOK, ArrivedByToday, OverdueIsPastDue, [Next]_vars
             PROVE  OverdueIsPastDue'
  OBVIOUS
<1> USE DEF OverdueIsPastDue
<1>1. /\ day \in Nat
      /\ \A l \in DOMAIN loans : loans[l].due_date \in Nat
  BY DEF TypeOK, IsTable, LoanRow, Day
<1>2. ASSUME NEW t \in Thread, InsertLoan(t)
      PROVE  OverdueIsPastDue'
  <2>1. day' = day
    BY <1>2 DEF InsertLoan
  <2>2. NewLoan(req[t]).status = "borrowed"
    BY DEF NewLoan
  <2> QED
    BY <1>2, <2>1, <2>2, InsertedLoan
<1>3. ASSUME NEW t \in Thread, ReturnWrite(t)
      PROVE  OverdueIsPastDue'
  <2>1. day' = day
    BY <1>3 DEF ReturnWrite
  <2> QED
    BY <1>3, <2>1, ReturnedLoans
<1>4. ASSUME NEW t \in Thread, UpdateAll(t)
      PROVE  OverdueIsPastDue'
  <2>1. day' = day
    BY <1>4 DEF UpdateAll
  <2>2. req[t] \in OverdueReq
    BY <1>4, RequestShape DEF UpdateAll, TypeOK
  <2>3. req[t].at \in Nat /\ req[t].at <= day
    BY <2>2, ConstantsAssumption DEF ArrivedByToday, OverdueReq, Day, Idle
  <2>4. \A l \in PastDue(req[t].at) : loans[l].due_date < day
    BY <1>1, <2>3 DEF PastDue
  <2>5. /\ DOMAIN loans' = DOMAIN loans
        /\ \A l \in DOMAIN loans : l \notin PastDue(req[t].at) => loans'[l] = loans[l]
        /\ \A l \in DOMAIN loans : loans'[l].due_date = loans[l].due_date
    BY <1>4, MarkedLoans
  <2> QED
    BY <2>1, <2>4, <2>5
<1>5. ASSUME NEW t \in Thread, DestroyBook(t) \/ DestroyMember(t)
      PROVE  OverdueIsPastDue'
  <2>1. day' = day
    BY <1>5 DEF DestroyBook, DestroyMember
  <2> QED
    BY <1>5, <2>1, DestroyedLoans
<1>6. CASE UNCHANGED loans
  <2>1. day' \in Nat /\ day <= day'
    BY <1>1, DayStep
  <2> QED
    BY <1>1, <1>6, <2>1
<1> QED
  BY <1>2, <1>3, <1>4, <1>5, <1>6, Writes DEF InsertBook, UpdateBook, InsertMember

\* OverdueService never marks a loan before its due date has passed, however long
\* the date it bound has been waiting.
THEOREM OverdueOnlyPastDue == Spec => []OverdueIsPastDue
<1>1. Init => ArrivedByToday /\ OverdueIsPastDue
  BY DEF Init, EmptyTable, ArrivedByToday, OverdueIsPastDue
<1> QED
  BY <1>1, ArrivedStep, OverdueStep, TypeCorrect, PTL DEF Spec

-----------------------------------------------------------------------------
(* Returns *)

ReturnInv == IdsIssued /\ LoadedReturnsStand /\ ReturnDateConsistent

LEMMA IdsStep == TypeOK /\ IdsIssued /\ [Next]_vars => IdsIssued'
<1> SUFFICES ASSUME TypeOK, IdsIssued, [Next]_vars PROVE IdsIssued'
  OBVIOUS
<1>1. issued \subseteq issued'
  BY Writes DEF InsertLoan, ReturnWrite, UpdateAll, InsertBook, UpdateBook,
       DestroyBook, DestroyMember, InsertMember
<1>2. (users \cup DOMAIN books \cup DOMAIN loans \subseteq issued)'
  BY Writes DEF IdsIssued, InsertLoan, ReturnWrite, UpdateAll, InsertBook,
       UpdateBook, DestroyBook, DestroyMember, InsertMember, Insert, Delete, Restrict
<1>3. ASSUME NEW s \in Thread, req'[s].pc = "return"
      PROVE  req'[s].loan \in issued'
  BY <1>1, <1>3, ReturnLoaded DEF IdsIssued
<1> QED
  BY <1>2, <1>3 DEF IdsIssued

\* What one step does to the loans, given that loaded returns stand.
LEMMA HistoryStep ==
  ASSUME TypeOK, LoadedReturnsStand, IdsIssued, [Next]_vars
  PROVE  /\ LoansMoveOn
         /\ \A l \in DOMAIN loans \cap DOMAIN loans' :
              loans[l].status = "returned" => loans'[l].status = "returned"
<1> USE DEF LoansMoveOn
<1>1. \A l \in DOMAIN loans : loans[l].status \in {"borrowed", "returned", "overdue"}
  BY DEF TypeOK, IsTable, LoanRow, Status
<1>2. CASE /\ \A l \in DOMAIN loans \cap DOMAIN loans' : loans'[l] = loans[l]
           /\ (DOMAIN loans' \ DOMAIN loans) \cap issued = {}
  BY <1>1, <1>2
<1>3. ASSUME NEW t \in Thread, InsertLoan(t)
      PROVE  /\ \A l \in DOMAIN loans \cap DOMAIN loans' : loans'[l] = loans[l]
             /\ (DOMAIN loans' \ DOMAIN loans) \cap issued = {}
  BY <1>3, InsertedLoan DEF IdsIssued
<1>4. CASE \E t \in Thread : ReturnWrite(t)
  <2>1. PICK t \in Thread : ReturnWrite(t)
    BY <1>4
  <2>2. req[t].pc = "return"
    BY <2>1 DEF ReturnWrite
  <2> QED
    BY <1>1, <2>1, <2>2, ReturnedLoans DEF LoadedReturnsStand
<1>5. CASE \E t \in Thread : UpdateAll(t)
  <2>1. PICK t \in Thread : UpdateAll(t)
    BY <1>5
  <2>2. \A l \in PastDue(req[t].at) : loans[l].status = "borrowed"
    BY DEF PastDue
  <2> QED
    BY <1>1, <2>1, <2>2, MarkedLoans
<1> QED
  BY <1>2, <1>3, <1>4, <1>5, Writes, DestroyedLoans
  DEF InsertBook, UpdateBook, InsertMember

LEMMA ReturnStep == TypeOK /\ ReturnInv /\ [Next]_vars => ReturnInv'
<1> SUFFICES ASSUME TypeOK, ReturnInv, [Next]_vars PROVE ReturnInv'
  OBVIOUS
<1>1. IdsIssued'
  BY IdsStep DEF ReturnInv
<1>2. /\ \A l \in DOMAIN loans \cap DOMAIN loans' :
           loans[l].status = "returned" => loans'[l].status = "returned"
      /\ (DOMAIN loans' \ DOMAIN loans) \cap issued = {}
  BY HistoryStep DEF ReturnInv, LoansMoveOn
<1>3. LoadedReturnsStand'
  <2> SUFFICES ASSUME NEW s \in Thread, req'[s].pc = "return",
                      req'[s].status = "returned", req'[s].loan \in DOMAIN loans'
               PROVE  loans'[req'[s].loan].status = "returned"
    BY DEF LoadedReturnsStand
  <2>1. CASE req'[s] = req[s]
    BY <1>2, <2>1 DEF ReturnInv, LoadedReturnsStand, IdsIssued
  <2> QED
    BY <2>1, ReturnLoaded
<1>4. ReturnDateConsistent'
  <2> USE DEF ReturnDateConsistent
  <2>1. ASSUME NEW t \in Thread, InsertLoan(t)
        PROVE  ReturnDateConsistent'
    <3>1. NewLoan(req[t]).status = "borrowed" /\ NewLoan(req[t]).returned_at = NoDate
      BY DEF NewLoan
    <3> QED
      BY <2>1, <3>1, InsertedLoan DEF ReturnInv
  <2>2. ASSUME NEW t \in Thread, ReturnWrite(t)
        PROVE  ReturnDateConsistent'
    <3>1. day # NoDate
      BY ConstantsAssumption DEF TypeOK, Day
    <3>2. req[t].pc = "return"
      BY <2>2 DEF ReturnWrite
    <3>3. req[t].status = "returned" /\ req[t].loan \in DOMAIN loans
            => loans[req[t].loan].status = "returned"
      BY <3>2 DEF ReturnInv, LoadedReturnsStand
    <3> QED
      BY <2>2, <3>1, <3>3, ReturnedLoans DEF ReturnInv
  <2>3. ASSUME NEW t \in Thread, UpdateAll(t)
        PROVE  ReturnDateConsistent'
    <3>1. \A l \in PastDue(req[t].at) : loans[l].status = "borrowed"
      BY DEF PastDue
    <3>2. /\ DOMAIN loans' = DOMAIN loans
          /\ \A l \in DOMAIN loans :
               /\ l \notin PastDue(req[t].at) => loans'[l] = loans[l]
               /\ l \in PastDue(req[t].at) =>
                    /\ loans'[l].status = "overdue"
                    /\ loans'[l].returned_at = loans[l].returned_at
      BY <2>3, MarkedLoans
    <3> QED
      BY <3>1, <3>2 DEF ReturnInv
  <2>4. ASSUME NEW t \in Thread, DestroyBook(t) \/ DestroyMember(t)
        PROVE  ReturnDateConsistent'
    BY <2>4, DestroyedLoans DEF ReturnInv
  <2>5. CASE UNCHANGED loans
    BY <2>5 DEF ReturnInv
  <2> QED
    BY <2>1, <2>2, <2>3, <2>4, <2>5, Writes DEF InsertBook, UpdateBook, InsertMember
<1> QED
  BY <1>1, <1>3, <1>4 DEF ReturnInv

LEMMA ReturnInit == Init => ReturnInv
BY DEF Init, EmptyTable, Idle, ReturnInv, IdsIssued, LoadedReturnsStand,
       ReturnDateConsistent

\* A loan carries a date of return exactly when its status says returned,
\* although return! writes only what differs from a row it loaded earlier.
THEOREM ReturnsConsistent == Spec => []ReturnDateConsistent
<1>1. ReturnInv => ReturnDateConsistent
  BY DEF ReturnInv
<1> QED
  BY <1>1, ReturnInit, ReturnStep, TypeCorrect, PTL DEF Spec

\* A loan moves from borrowed to overdue to returned and never back, keeps its
\* reader, book and due date, and no id is used twice.
THEOREM LifecycleHolds == Spec => LoanLifecycle
<1>1. TypeOK /\ ReturnInv /\ [Next]_vars => [LoansMoveOn]_vars
  BY HistoryStep DEF ReturnInv
<1> QED
  BY <1>1, ReturnInit, ReturnStep, TypeCorrect, PTL DEF Spec, LoanLifecycle
=============================================================================
