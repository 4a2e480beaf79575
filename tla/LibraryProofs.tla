---------------------------- MODULE LibraryProofs ---------------------------
(***************************************************************************)
(* Theorems about Library, for every value of the constants.               *)
(***************************************************************************)
EXTENDS Library, FiniteSetTheorems, TLAPS

-----------------------------------------------------------------------------
(* Lemmas on tables and requests *)

\* Inserting a row of the right type into a table gives such a table.
LEMMA InsertIsTable ==
  ASSUME NEW table, NEW Key, NEW Row, IsTable(table, Key, Row),
         NEW id \in Key, NEW row \in Row
  PROVE  IsTable(Insert(table, id, row), Key, Row)
BY DEF IsTable, Insert

\* Deleting rows from a table leaves such a table.
LEMMA DeleteIsTable ==
  ASSUME NEW table, NEW Key, NEW Row, IsTable(table, Key, Row), NEW ids
  PROVE  IsTable(Delete(table, ids), Key, Row)
BY DEF IsTable, Delete, Restrict

\* What the program counter of a request tells about its other fields.
LEMMA RequestShape ==
  ASSUME NEW r \in Request
  PROVE  /\ r.pc = "validate_duplicate"
              => r \in BorrowReq({"validate_duplicate"}, {NoDate})
         /\ r.pc \in {"validate_copies", "insert_loan"}
              => r \in BorrowReq({"validate_copies", "insert_loan"}, Nat)
         /\ r.pc = "return" => r \in ReturnReq
         /\ r.pc \in {"update_all", "notify"} => r \in OverdueReq
         /\ r.pc = "validate_new_book"
              => r \in CreateBookReq({"validate_new_book"}, BookForm)
         /\ r.pc = "insert_book" => r \in CreateBookReq({"insert_book"}, BookColumns)
         /\ r.pc = "validate_book"
              => r \in UpdateBookReq({"validate_book"}, BookForm)
         /\ r.pc = "update_book" => r \in UpdateBookReq({"update_book"}, BookColumns)
         /\ r.pc = "destroy_book" => r \in DestroyBookReq
         /\ r.pc = "destroy_member" => r \in DestroyMemberReq
BY DEF Request, Idle, BorrowReq, ReturnReq, OverdueReq, CreateBookReq,
       UpdateBookReq, DestroyBookReq, CreateMemberReq, DestroyMemberReq

\* A thread that takes a request, goes on with one or finishes it holds a request.
LEMMA RequestStep ==
  ASSUME req \in [Thread -> Request], NEW t \in Thread, NEW r \in Request,
         Begin(t, r) \/ Continue(t, r) \/ Finish(t)
  PROVE  req' \in [Thread -> Request]
BY DEF Begin, Continue, Finish, Request

\* return! changes three columns of a row and keeps it a row.
LEMMA ReturnedRow ==
  ASSUME NEW row \in LoanRow, NEW r \in ReturnReq, day \in Day
  PROVE  /\ Returned(row, r) \in LoanRow
         /\ Returned(row, r).user_id = row.user_id
         /\ Returned(row, r).book_id = row.book_id
         /\ Returned(row, r).due_date = row.due_date
         /\ Returned(row, r).returned_at = day
         /\ r.status # "returned" => Returned(row, r).status = "returned"
         /\ r.status = "returned" => Returned(row, r).status = row.status
<1> DEFINE s == IF r.status = "returned" THEN row.status ELSE "returned"
           c == IF r.comment = r.new_comment THEN row.return_comment
                                             ELSE r.new_comment
<1>1. Returned(row, r) = [row EXCEPT !.status = s, !.returned_at = day,
                                     !.return_comment = c]
  BY DEF Returned
<1>2. s \in Status /\ c \in Comment \cup {NoComment}
  BY DEF LoanRow, ReturnReq, Status
<1> HIDE DEF s, c
<1>3. /\ Returned(row, r) \in LoanRow
      /\ Returned(row, r).user_id = row.user_id
      /\ Returned(row, r).book_id = row.book_id
      /\ Returned(row, r).due_date = row.due_date
      /\ Returned(row, r).returned_at = day
      /\ Returned(row, r).status = s
  BY <1>1, <1>2 DEF LoanRow
<1> QED
  BY <1>3 DEF s

\* An edited row is a row and remembers the copies it had and has.
LEMMA EditedRow ==
  ASSUME NEW row \in BookRow, NEW r, r.form \in BookColumns
  PROVE  /\ Edited(row, r) \in BookRow
         /\ row.most <= Edited(row, r).most
<1> DEFINE total == IF r.form.total_copies = r.loaded.total_copies
                    THEN row.total_copies ELSE r.form.total_copies
           isbn == IF r.form.isbn = r.loaded.isbn THEN row.isbn ELSE r.form.isbn
           most == IF total > row.most THEN total ELSE row.most
<1>1. Edited(row, r) = [total_copies |-> total, isbn |-> isbn, most |-> most]
  BY DEF Edited
<1>2. total \in 0..MaxCopies /\ isbn \in Isbn /\ row.most \in 0..MaxCopies
  BY DEF BookRow, BookColumns
<1> HIDE DEF total, isbn
<1>3. most \in 0..MaxCopies /\ total <= most /\ row.most <= most
  BY <1>2, ConstantsAssumption
<1> HIDE DEF most
<1> QED
  BY <1>1, <1>2, <1>3 DEF BookRow

-----------------------------------------------------------------------------
(* Type correctness *)

\* What the cardinalities need: only finitely many loans have been made.
FiniteTables == IsFiniteSet(DOMAIN loans)

LEMMA BorrowingsType == TypeOK /\ BorrowingsNext => TypeOK'
<1> SUFFICES ASSUME TypeOK, BorrowingsNext PROVE TypeOK'
  OBVIOUS
<1> USE ConstantsAssumption, IdsAssumption
<1>1. PICK t \in Thread :
        \/ \E u \in User, b \in Book : BorrowRequest(t, u, b)
        \/ ValidateDuplicate(t)
        \/ ValidateCopies(t)
        \/ InsertLoan(t)
        \/ \E l \in Loan, c \in Comment \cup {NoComment} : ReturnRequest(t, l, c)
        \/ ReturnWrite(t)
  BY DEF BorrowingsNext
<1>2. req[t] \in Request
  BY DEF TypeOK
<1>3. CASE \E u \in User, b \in Book : BorrowRequest(t, u, b)
  <2>1. PICK u \in User, b \in Book : BorrowRequest(t, u, b)
    BY <1>3
  <2> DEFINE r == [pc |-> "validate_duplicate", at |-> day, user |-> u,
                   book |-> b, total |-> books[b].total_copies, due |-> NoDate]
  <2>2. books[b].total_copies \in 0..MaxCopies
    BY <2>1 DEF BorrowRequest, TypeOK, IsTable, BookRow
  <2>3. r \in Request
    BY <2>2 DEF Request, BorrowReq, TypeOK
  <2>4. req' \in [Thread -> Request]
    BY <2>1, <2>3, RequestStep DEF BorrowRequest, TypeOK
  <2> QED
    BY <2>1, <2>4 DEF BorrowRequest, TypeOK, IsTable
<1>4. CASE ValidateDuplicate(t)
  <2>1. req[t] \in BorrowReq({"validate_duplicate"}, {NoDate})
    BY <1>2, <1>4, RequestShape DEF ValidateDuplicate
  <2> DEFINE r == [req[t] EXCEPT !.pc = "validate_copies", !.due = day + LoanPeriod]
  <2>2. day + LoanPeriod \in Nat
    BY DEF TypeOK, Day
  <2>3. r \in Request
    BY <2>1, <2>2 DEF Request, BorrowReq
  <2>4. req' \in [Thread -> Request]
    BY <1>4, <2>3, RequestStep DEF ValidateDuplicate, TypeOK
  <2> QED
    BY <1>4, <2>4 DEF ValidateDuplicate, TypeOK, IsTable
<1>5. CASE ValidateCopies(t)
  <2>1. req[t] \in BorrowReq({"validate_copies", "insert_loan"}, Nat)
    BY <1>2, <1>5, RequestShape DEF ValidateCopies
  <2>2. [req[t] EXCEPT !.pc = "insert_loan"] \in Request
    BY <2>1 DEF Request, BorrowReq
  <2>3. req' \in [Thread -> Request]
    BY <1>5, <2>2, RequestStep DEF ValidateCopies, TypeOK
  <2> QED
    BY <1>5, <2>3 DEF ValidateCopies, TypeOK, IsTable
<1>6. CASE InsertLoan(t)
  <2>1. req[t] \in BorrowReq({"validate_copies", "insert_loan"}, Nat)
    BY <1>2, <1>6, RequestShape DEF InsertLoan
  <2>2. NewLoan(req[t]) \in LoanRow
    BY <2>1 DEF BorrowReq, NewLoan, LoanRow, Status
  <2>3. IsTable(loans', Loan, LoanRow) /\ issued' \subseteq User \cup Book \cup Loan
    BY <1>6, <2>2, InsertIsTable DEF InsertLoan, TypeOK
  <2>4. req' \in [Thread -> Request]
    BY <1>2, <1>6, RequestStep DEF InsertLoan, TypeOK
  <2> QED
    BY <1>6, <2>3, <2>4 DEF InsertLoan, TypeOK, IsTable
<1>7. CASE \E l \in Loan, c \in Comment \cup {NoComment} : ReturnRequest(t, l, c)
  <2>1. PICK l \in Loan, c \in Comment \cup {NoComment} : ReturnRequest(t, l, c)
    BY <1>7
  <2> DEFINE r == [pc |-> "return", at |-> day, loan |-> l,
                   status |-> loans[l].status,
                   comment |-> loans[l].return_comment, new_comment |-> c]
  <2>2. loans[l] \in LoanRow
    BY <2>1 DEF ReturnRequest, TypeOK, IsTable
  <2>3. r \in Request
    BY <2>2 DEF Request, ReturnReq, LoanRow, TypeOK
  <2>4. req' \in [Thread -> Request]
    BY <2>1, <2>3, RequestStep DEF ReturnRequest, TypeOK
  <2> QED
    BY <2>1, <2>4 DEF ReturnRequest, TypeOK, IsTable
<1>8. CASE ReturnWrite(t)
  <2>1. req[t] \in ReturnReq
    BY <1>2, <1>8, RequestShape DEF ReturnWrite
  <2>2. \A l \in DOMAIN loans : Returned(loans[l], req[t]) \in LoanRow
    BY <2>1, ReturnedRow DEF TypeOK, IsTable
  <2>3. IsTable(loans', Loan, LoanRow)
    BY <1>8, <2>2 DEF ReturnWrite, TypeOK, IsTable
  <2>4. req' \in [Thread -> Request]
    BY <1>2, <1>8, RequestStep DEF ReturnWrite, TypeOK
  <2> QED
    BY <1>8, <2>3, <2>4 DEF ReturnWrite, TypeOK, IsTable
<1> QED
  BY <1>1, <1>3, <1>4, <1>5, <1>6, <1>7, <1>8

LEMMA OverdueType == TypeOK /\ FiniteTables /\ OverdueNext => TypeOK'
<1> SUFFICES ASSUME TypeOK, FiniteTables, OverdueNext PROVE TypeOK'
  OBVIOUS
<1>1. PICK t \in Thread : MarkOverdueRequest(t) \/ UpdateAll(t) \/ Notify(t)
  BY DEF OverdueNext
<1>2. req[t] \in Request
  BY DEF TypeOK
<1>3. CASE MarkOverdueRequest(t)
  <2>1. [pc |-> "update_all", at |-> day, count |-> 0] \in Request
    BY DEF Request, OverdueReq, TypeOK
  <2>2. req' \in [Thread -> Request]
    BY <1>3, <2>1, RequestStep DEF MarkOverdueRequest, TypeOK
  <2> QED
    BY <1>3, <2>2 DEF MarkOverdueRequest, TypeOK, IsTable
<1>4. CASE UpdateAll(t)
  <2> DEFINE due == PastDue(req[t].at)
             r == [req[t] EXCEPT !.pc = "notify", !.count = Cardinality(due)]
  <2>1. req[t] \in OverdueReq
    BY <1>2, <1>4, RequestShape DEF UpdateAll
  <2>2. Cardinality(due) \in Nat
    BY FS_Subset, FS_CardinalityType DEF PastDue, FiniteTables
  <2>3. r \in Request
    BY <2>1, <2>2 DEF Request, OverdueReq
  <2>4. req' \in [Thread -> Request]
    BY <1>2, <1>4, <2>3, RequestStep DEF UpdateAll, TypeOK
  <2>5. \A l \in DOMAIN loans : [loans[l] EXCEPT !.status = "overdue"] \in LoanRow
    BY DEF TypeOK, IsTable, LoanRow, Status
  <2>6. IsTable(loans', Loan, LoanRow)
    BY <1>4, <2>5 DEF UpdateAll, TypeOK, IsTable
  <2> QED
    BY <1>4, <2>4, <2>6 DEF UpdateAll, TypeOK, IsTable
<1>5. CASE Notify(t)
  <2>1. req' \in [Thread -> Request]
    BY <1>2, <1>5, RequestStep DEF Notify, TypeOK
  <2> QED
    BY <1>5, <2>1 DEF Notify, PastDue, TypeOK, IsTable
<1> QED
  BY <1>1, <1>3, <1>4, <1>5

LEMMA CatalogueType == TypeOK /\ CatalogueNext => TypeOK'
<1> SUFFICES ASSUME TypeOK, CatalogueNext PROVE TypeOK'
  OBVIOUS
<1> USE ConstantsAssumption
<1>1. PICK t \in Thread :
        \/ \E form \in BookForm : CreateBookRequest(t, form)
        \/ ValidateNewBook(t)
        \/ InsertBook(t)
        \/ \E b \in Book, form \in BookForm : UpdateBookRequest(t, b, form)
        \/ ValidateBook(t)
        \/ UpdateBook(t)
        \/ \E b \in Book : DestroyBookRequest(t, b)
        \/ DestroyBook(t)
  BY DEF CatalogueNext
<1>2. req[t] \in Request
  BY DEF TypeOK
<1>3. CASE \E form \in BookForm : CreateBookRequest(t, form)
  <2>1. PICK form \in BookForm : CreateBookRequest(t, form)
    BY <1>3
  <2>2. [pc |-> "validate_new_book", at |-> day, form |-> form] \in Request
    BY DEF Request, CreateBookReq, TypeOK
  <2>3. req' \in [Thread -> Request]
    BY <2>1, <2>2, RequestStep DEF CreateBookRequest, TypeOK
  <2> QED
    BY <2>1, <2>3 DEF CreateBookRequest, TypeOK, IsTable
<1>4. CASE ValidateNewBook(t)
  <2>1. req[t] \in CreateBookReq({"validate_new_book"}, BookForm)
    BY <1>2, <1>4, RequestShape DEF ValidateNewBook
  <2>2. ASSUME BookValid(DOMAIN books, req[t].form)
        PROVE  [req[t] EXCEPT !.pc = "insert_book"] \in Request
    <3>1. req[t].form \in BookColumns
      BY <2>1, <2>2 DEF CreateBookReq, BookForm, BookColumns, BookValid
    <3> QED
      BY <2>1, <3>1 DEF Request, CreateBookReq
  <2>3. req' \in [Thread -> Request]
    BY <1>2, <1>4, <2>2, RequestStep DEF ValidateNewBook, TypeOK
  <2> QED
    BY <1>4, <2>3 DEF ValidateNewBook, TypeOK, IsTable
<1>5. CASE InsertBook(t)
  <2>1. req[t] \in CreateBookReq({"insert_book"}, BookColumns)
    BY <1>2, <1>5, RequestShape DEF InsertBook
  <2>2. NewBook(req[t].form) \in BookRow
    BY <2>1 DEF CreateBookReq, NewBook, BookRow, BookColumns
  <2>3. IsTable(books', Book, BookRow) /\ issued' \subseteq User \cup Book \cup Loan
    BY <1>5, <2>2, InsertIsTable DEF InsertBook, TypeOK
  <2>4. req' \in [Thread -> Request]
    BY <1>2, <1>5, RequestStep DEF InsertBook, TypeOK
  <2> QED
    BY <1>5, <2>3, <2>4 DEF InsertBook, TypeOK, IsTable
<1>6. CASE \E b \in Book, form \in BookForm : UpdateBookRequest(t, b, form)
  <2>1. PICK b \in Book, form \in BookForm : UpdateBookRequest(t, b, form)
    BY <1>6
  <2>2. [pc |-> "validate_book", at |-> day, book |-> b,
         loaded |-> [total_copies |-> books[b].total_copies, isbn |-> books[b].isbn],
         form |-> form] \in Request
    <3>1. books[b] \in BookRow
      BY <2>1 DEF UpdateBookRequest, TypeOK, IsTable
    <3> QED
      BY <2>1, <3>1 DEF UpdateBookRequest, Request, UpdateBookReq, BookRow,
           BookColumns, TypeOK
  <2>3. req' \in [Thread -> Request]
    BY <2>1, <2>2, RequestStep DEF UpdateBookRequest, TypeOK
  <2> QED
    BY <2>1, <2>3 DEF UpdateBookRequest, TypeOK, IsTable
<1>7. CASE ValidateBook(t)
  <2>1. req[t] \in UpdateBookReq({"validate_book"}, BookForm)
    BY <1>2, <1>7, RequestShape DEF ValidateBook
  <2>2. ASSUME req[t].form.total_copies >= 0
        PROVE  [req[t] EXCEPT !.pc = "update_book"] \in Request
    <3>1. req[t].form \in BookColumns
      BY <2>1, <2>2 DEF UpdateBookReq, BookForm, BookColumns
    <3> QED
      BY <2>1, <3>1 DEF Request, UpdateBookReq
  <2>3. req' \in [Thread -> Request]
    BY <1>2, <1>7, <2>2, RequestStep DEF ValidateBook, BookValid, TypeOK
  <2> QED
    BY <1>7, <2>3 DEF ValidateBook, TypeOK, IsTable
<1>8. CASE UpdateBook(t)
  <2>1. req[t] \in UpdateBookReq({"update_book"}, BookColumns)
    BY <1>2, <1>8, RequestShape DEF UpdateBook
  <2>2. \A b \in DOMAIN books : Edited(books[b], req[t]) \in BookRow
    BY <2>1, EditedRow DEF UpdateBookReq, TypeOK, IsTable
  <2>3. IsTable(books', Book, BookRow)
    BY <1>8, <2>2 DEF UpdateBook, TypeOK, IsTable
  <2>4. req' \in [Thread -> Request]
    BY <1>2, <1>8, RequestStep DEF UpdateBook, TypeOK
  <2> QED
    BY <1>8, <2>3, <2>4 DEF UpdateBook, TypeOK, IsTable
<1>9. CASE \E b \in Book : DestroyBookRequest(t, b)
  <2>1. PICK b \in Book : DestroyBookRequest(t, b)
    BY <1>9
  <2>2. [pc |-> "destroy_book", at |-> day, book |-> b,
         children |-> LoansOfBook(b)] \in Request
    BY DEF Request, DestroyBookReq, LoansOfBook, TypeOK, IsTable
  <2>3. req' \in [Thread -> Request]
    BY <2>1, <2>2, RequestStep DEF DestroyBookRequest, TypeOK
  <2> QED
    BY <2>1, <2>3 DEF DestroyBookRequest, TypeOK, IsTable
<1>10. CASE DestroyBook(t)
  <2>1. IsTable(loans', Loan, LoanRow) /\ IsTable(books', Book, BookRow)
    BY <1>10, DeleteIsTable DEF DestroyBook, TypeOK
  <2>2. req' \in [Thread -> Request]
    BY <1>2, <1>10, RequestStep DEF DestroyBook, TypeOK
  <2> QED
    BY <1>10, <2>1, <2>2 DEF DestroyBook, TypeOK, IsTable
<1> QED
  BY <1>1, <1>3, <1>4, <1>5, <1>6, <1>7, <1>8, <1>9, <1>10

LEMMA MembersType == TypeOK /\ MembersNext => TypeOK'
<1> SUFFICES ASSUME TypeOK, MembersNext PROVE TypeOK'
  OBVIOUS
<1>1. PICK t \in Thread :
        \/ CreateMemberRequest(t)
        \/ InsertMember(t)
        \/ \E u \in Member : DestroyMemberRequest(t, u)
        \/ DestroyMember(t)
  BY DEF MembersNext
<1>2. req[t] \in Request
  BY DEF TypeOK
<1>3. CASE CreateMemberRequest(t)
  <2>1. [pc |-> "insert_member", at |-> day] \in Request
    BY DEF Request, CreateMemberReq, TypeOK
  <2>2. req' \in [Thread -> Request]
    BY <1>3, <2>1, RequestStep DEF CreateMemberRequest, TypeOK
  <2> QED
    BY <1>3, <2>2 DEF CreateMemberRequest, TypeOK, IsTable
<1>4. CASE InsertMember(t)
  <2>1. req' \in [Thread -> Request]
    BY <1>2, <1>4, RequestStep DEF InsertMember, TypeOK
  <2> QED
    BY <1>4, <2>1 DEF InsertMember, User, TypeOK, IsTable
<1>5. CASE \E u \in Member : DestroyMemberRequest(t, u)
  <2>1. PICK u \in Member : DestroyMemberRequest(t, u)
    BY <1>5
  <2>2. [pc |-> "destroy_member", at |-> day, user |-> u,
         children |-> LoansOfUser(u)] \in Request
    BY DEF Request, DestroyMemberReq, LoansOfUser, TypeOK, IsTable
  <2>3. req' \in [Thread -> Request]
    BY <2>1, <2>2, RequestStep DEF DestroyMemberRequest, TypeOK
  <2> QED
    BY <2>1, <2>3 DEF DestroyMemberRequest, TypeOK, IsTable
<1>6. CASE DestroyMember(t)
  <2>1. IsTable(loans', Loan, LoanRow)
    BY <1>6, DeleteIsTable DEF DestroyMember, TypeOK
  <2>2. req' \in [Thread -> Request]
    BY <1>2, <1>6, RequestStep DEF DestroyMember, TypeOK
  <2> QED
    BY <1>6, <2>1, <2>2 DEF DestroyMember, TypeOK, IsTable
<1> QED
  BY <1>1, <1>3, <1>4, <1>5, <1>6

LEMMA TypeInit == Init => TypeOK /\ FiniteTables
<1> SUFFICES ASSUME Init PROVE TypeOK /\ FiniteTables
  OBVIOUS
<1>1. books = EmptyTable /\ loans = EmptyTable /\ DOMAIN EmptyTable = {}
  BY DEF Init, EmptyTable
<1>2. IsTable(books, Book, BookRow) /\ IsTable(loans, Loan, LoanRow)
  BY <1>1 DEF IsTable
<1>3. FiniteTables
  BY <1>1, FS_EmptySet DEF FiniteTables
<1> QED
  BY <1>2, <1>3, ConstantsAssumption DEF Init, TypeOK, Request, User, Day

\* Only InsertLoan adds a loan, one at a time.
LEMMA FiniteStep == FiniteTables /\ [Next]_vars => FiniteTables'
<1> SUFFICES ASSUME FiniteTables, [Next]_vars PROVE FiniteTables'
  OBVIOUS
<1>1. CASE \E t \in Thread : InsertLoan(t)
  <2>1. DOMAIN loans' = DOMAIN loans \/ \E l \in Loan : DOMAIN loans' = DOMAIN loans \cup {l}
    BY <1>1 DEF InsertLoan, Insert
  <2> QED
    BY <2>1, FS_AddElement DEF FiniteTables
<1>2. CASE DOMAIN loans' \subseteq DOMAIN loans
  BY <1>2, FS_Subset DEF FiniteTables
<1>3. (\E t \in Thread : InsertLoan(t)) \/ DOMAIN loans' \subseteq DOMAIN loans
  BY DEF Next, vars, BorrowingsNext, BorrowRequest, ValidateDuplicate,
         ValidateCopies, ReturnRequest, ReturnWrite, OverdueNext,
         MarkOverdueRequest, UpdateAll, Notify, CatalogueNext,
         CreateBookRequest, ValidateNewBook, InsertBook, UpdateBookRequest,
         ValidateBook, UpdateBook, DestroyBookRequest, DestroyBook, Delete,
         Restrict, MembersNext, InsertMember, CreateMemberRequest,
         DestroyMemberRequest, DestroyMember, NextDay, Crash
<1> QED
  BY <1>1, <1>2, <1>3

LEMMA TypeStep == TypeOK /\ FiniteTables /\ [Next]_vars => TypeOK'
<1> SUFFICES ASSUME TypeOK, FiniteTables, [Next]_vars PROVE TypeOK'
  OBVIOUS
<1>1. CASE NextDay
  BY <1>1, ConstantsAssumption DEF NextDay, TypeOK, IsTable, Day
<1>2. CASE \E t \in Thread : Crash(t)
  <2>1. PICK t \in Thread : Crash(t)
    BY <1>2
  <2>2. req' \in [Thread -> Request]
    BY <2>1 DEF Crash, Finish, Continue, Request, TypeOK
  <2> QED
    BY <2>1, <2>2 DEF Crash, TypeOK, IsTable
<1>3. CASE UNCHANGED vars
  BY <1>3 DEF vars, TypeOK, IsTable
<1> QED
  BY <1>1, <1>2, <1>3, BorrowingsType, OverdueType, CatalogueType, MembersType
  DEF Next

\* Every table and every request keeps its type, with any number of threads.
THEOREM TypeCorrect == Spec => []TypeOK
<1>1. Init => TypeOK /\ FiniteTables
  BY TypeInit
<1>2. TypeOK /\ FiniteTables /\ [Next]_vars => (TypeOK /\ FiniteTables)'
  BY TypeStep, FiniteStep
<1> QED
  BY <1>1, <1>2, PTL DEF Spec
=============================================================================
