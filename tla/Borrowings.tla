----------------------------- MODULE Borrowings -----------------------------
(***************************************************************************)
(* BorrowingsController and the Borrowing model: lending and taking back.  *)
(***************************************************************************)
EXTENDS Database

-----------------------------------------------------------------------------
(* Availability *)

AvailableOffByOne(b, total) == total - Cardinality(ActiveLoans(b)) + 1

\* Book#available_copies on a book object whose total_copies was read earlier.
available_copies(b, total) == total - Cardinality(ActiveLoans(b))

CanBorrowCountingOverdue(u, b) ==
  /\ u \in Member
  /\ Cardinality(ActiveLoans(b)) < books[b].total_copies
  /\ ~ \E l \in DOMAIN loans :
         /\ loans[l].user_id = u /\ loans[l].book_id = b
         /\ loans[l].status # "returned"

\* The can_borrow column that Book.with_can_borrow_for(user) computes in SQL.
can_borrow(u, b) ==
  /\ u \in Member
  /\ Cardinality(ActiveLoans(b)) < books[b].total_copies
  /\ ~ \E l \in DOMAIN loans :
         loans[l].user_id = u /\ loans[l].book_id = b /\ Active(loans[l])

NeverDuplicate(u, b) == FALSE

\* Borrowing#prevent_duplicate_active_borrowing.
DuplicateActive(u, b) == ActiveLoansOf(u, b) # {}

-----------------------------------------------------------------------------
(* POST /borrowings: Borrowing.create!(user: current_user, book: @book) *)

\* authenticate_user! and set_book; any signed-in user may borrow.
BorrowRequest(t, u, b) ==
  /\ u \in users
  /\ b \in DOMAIN books
  /\ Begin(t, [pc |-> "validate_duplicate", at |-> day, user |-> u, book |-> b,
               total |-> books[b].total_copies, due |-> NoDate])
  /\ UNCHANGED <<books, users, loans, issued, day, notified>>

\* set_defaults, then the first validation.  A request that fails it is refused
\* with 422 once the other validation, which only reads, has run too.
ValidateDuplicate(t) ==
  /\ req[t].pc = "validate_duplicate"
  /\ IF DuplicateActive(req[t].user, req[t].book)
     THEN Finish(t)
     ELSE Continue(t, [req[t] EXCEPT !.pc = "validate_copies",
                                     !.due = day + LoanPeriod])
  /\ UNCHANGED <<books, users, loans, issued, day, notified>>

\* copies_available_to_borrow, with the total_copies loaded by set_book.
ValidateCopies(t) ==
  /\ req[t].pc = "validate_copies"
  /\ IF available_copies(req[t].book, req[t].total) <= 0
     THEN Finish(t)
     ELSE Continue(t, [req[t] EXCEPT !.pc = "insert_loan"])
  /\ UNCHANGED <<books, users, loans, issued, day, notified>>

NewLoan(r) == [user_id |-> r.user, book_id |-> r.book, status |-> "borrowed",
               due_date |-> r.due, returned_at |-> NoDate,
               return_comment |-> NoComment]

InsertLoanUnchecked(t) ==
  /\ req[t].pc = "insert_loan"
  /\ \E l \in Loan \ issued :
       loans' = Insert(loans, l, NewLoan(req[t])) /\ issued' = issued \cup {l}
  /\ Finish(t)
  /\ UNCHANGED <<books, users, day, notified>>

\* The INSERT.  A user or book deleted in the meantime violates a foreign key
\* and the request fails with 500, as it does when the sequence is exhausted.
InsertLoan(t) ==
  /\ req[t].pc = "insert_loan"
  /\ \/ /\ ForeignKeysHold(NewLoan(req[t]))
        /\ \E l \in Loan \ issued :
             /\ loans' = Insert(loans, l, NewLoan(req[t]))
             /\ issued' = issued \cup {l}
     \/ /\ ~ ForeignKeysHold(NewLoan(req[t])) \/ Loan \subseteq issued
        /\ UNCHANGED <<loans, issued>>
  /\ Finish(t)
  /\ UNCHANGED <<books, users, day, notified>>

-----------------------------------------------------------------------------
(* POST /borrowings/:id/return_book *)

\* set_borrowing and the role check.  Nothing asks whether the loan is open.
ReturnRequest(t, l, c) ==
  /\ users \cap Librarian # {}
  /\ l \in DOMAIN loans
  /\ Begin(t, [pc |-> "return", at |-> day, loan |-> l,
               status |-> loans[l].status, comment |-> loans[l].return_comment,
               new_comment |-> c])
  /\ UNCHANGED <<books, users, loans, issued, day, notified>>

\* return! that closes only the loans its guard knows as borrowed.
ReturnedIfBorrowed(row, r) ==
  [row EXCEPT !.status = IF r.status = "borrowed" THEN "returned" ELSE @,
              !.returned_at = day]

\* Borrowing#return!: the UPDATE names only the columns that differ from the
\* row as it was loaded; the time of return always does.
Returned(row, r) ==
  [row EXCEPT !.status = IF r.status = "returned" THEN @ ELSE "returned",
              !.returned_at = day,
              !.return_comment = IF r.comment = r.new_comment THEN @
                                                           ELSE r.new_comment]

\* A loan deleted since it was loaded makes the UPDATE touch no row: no error.
ReturnWrite(t) ==
  /\ req[t].pc = "return"
  /\ loans' = [l \in DOMAIN loans |->
                 IF l = req[t].loan THEN Returned(loans[l], req[t]) ELSE loans[l]]
  /\ Finish(t)
  /\ UNCHANGED <<books, users, issued, day, notified>>

-----------------------------------------------------------------------------

BorrowingsNext ==
  \E t \in Thread :
    \/ \E u \in User, b \in Book : BorrowRequest(t, u, b)
    \/ ValidateDuplicate(t)
    \/ ValidateCopies(t)
    \/ InsertLoan(t)
    \/ \E l \in Loan, c \in Comment \cup {NoComment} : ReturnRequest(t, l, c)
    \/ ReturnWrite(t)
=============================================================================
