------------------------------- MODULE Library ------------------------------
(***************************************************************************)
(* The server: the controllers' requests interleaved on the threads, the   *)
(* calendar, and processes that die in the middle of a request.            *)
(***************************************************************************)
EXTENDS Borrowings, Overdue, Catalogue, Members

\* A migrated database with its librarians (db/seeds.rb); the members of the
\* seed are the first ones InsertMember adds.
Init ==
  /\ books = EmptyTable
  /\ users = Librarian
  /\ loans = EmptyTable
  /\ issued = Librarian
  /\ day = 0
  /\ req = [t \in Thread |-> Idle]
  /\ notified = {}

\* Assumption on the deployment: a request never lives through two midnights.
NextDay ==
  /\ day < MaxDay
  /\ \A t \in Thread : req[t] # Idle => req[t].at = day
  /\ day' = day + 1
  /\ UNCHANGED <<books, users, loans, issued, req, notified>>

\* The process or its connection dies: the open transaction is rolled back,
\* what was committed stays.
Crash(t) ==
  /\ req[t] # Idle
  /\ Finish(t)
  /\ UNCHANGED <<books, users, loans, issued, day, notified>>

Next ==
  \/ BorrowingsNext
  \/ OverdueNext
  \/ CatalogueNext
  \/ MembersNext
  \/ NextDay
  \/ \E t \in Thread : Crash(t)

Spec == Init /\ [][Next]_vars

\* The statements of a request that has arrived.
Serve(t) ==
  \/ ValidateDuplicate(t) \/ ValidateCopies(t) \/ InsertLoan(t) \/ ReturnWrite(t)
  \/ UpdateAll(t) \/ Notify(t)
  \/ ValidateNewBook(t) \/ InsertBook(t) \/ ValidateBook(t) \/ UpdateBook(t)
  \/ DestroyBook(t) \/ InsertMember(t) \/ DestroyMember(t)

\* Puma keeps running a request it has accepted; nothing obliges anybody to
\* send one.
FairSpec == Spec /\ (\A t \in Thread : WF_vars(Serve(t))) /\ WF_vars(NextDay)

-----------------------------------------------------------------------------
(* Integrity of the tables *)

\* Every loan refers to a user and a book that exist, whatever destroy! and
\* create! do at the same time (dependent: :destroy and the foreign keys).
ReferentialIntegrity == \A l \in DOMAIN loans : ForeignKeysHold(loans[l])

\* No two books share an ISBN although validation and INSERT are two statements
\* (Book's uniqueness validation and the index on books.isbn).
IsbnUnique ==
  \A a, b \in DOMAIN books : books[a].isbn = books[b].isbn => a = b

\* A loan has a date of return exactly when it is returned, although return!
\* writes only the columns that differ from a row loaded earlier.
ReturnDateConsistent ==
  \A l \in DOMAIN loans :
    loans[l].status = "returned" <=> loans[l].returned_at # NoDate

\* Only a loan whose due date has passed is overdue (OverdueService).
OverdueIsPastDue ==
  \A l \in DOMAIN loans :
    loans[l].status = "overdue" => loans[l].due_date < day

\* What one step may do to the loans.
LoansMoveOn ==
  /\ \A l \in DOMAIN loans \cap DOMAIN loans' :
       /\ <<loans[l].status, loans'[l].status>> \in
            {<<"borrowed", "borrowed">>, <<"borrowed", "overdue">>,
             <<"borrowed", "returned">>, <<"overdue", "overdue">>,
             <<"overdue", "returned">>, <<"returned", "returned">>}
       /\ loans'[l].user_id = loans[l].user_id
       /\ loans'[l].book_id = loans[l].book_id
       /\ loans'[l].due_date = loans[l].due_date
  /\ (DOMAIN loans' \ DOMAIN loans) \cap issued = {}

\* A loan goes from borrowed to overdue to returned and never back; its reader,
\* book and due date never change, and an id is never used again (return! and
\* update_all racing on one row).
LoanLifecycle == [][LoansMoveOn]_vars

-----------------------------------------------------------------------------
(* Lending *)

\* Requests that have passed both validations and not yet inserted their loan.
Approved(b) == {t \in Thread : req[t].pc = "insert_loan" /\ req[t].book = b}
Rechecked(u, b) ==
  {t \in Thread : /\ req[t].pc \in {"validate_copies", "insert_loan"}
                  /\ req[t].user = u /\ req[t].book = b}

\* However requests interleave, with each other and with edits of total_copies, the
\* loans of a book, counting those about to be inserted, exceed the most copies it
\* has had by less than the number of threads: each of the validations that let
\* them through saw a free one among the copies that set_book had loaded.
OverbookingBounded ==
  \A b \in DOMAIN books : Cardinality(ActiveLoans(b)) + Cardinality(Approved(b))
                            < books[b].most + Cardinality(Thread)

\* One reader holds a book at most once per thread: prevent_duplicate_active_
\* borrowing can only miss the requests that run at the same time.
DuplicatesBounded ==
  \A u \in User, b \in Book :
    Cardinality(ActiveLoansOf(u, b)) + Cardinality(Rechecked(u, b))
      <= Cardinality(Thread)

\* A member is only ever lent a book that the can_borrow column offers at that
\* moment: the SQL of with_can_borrow_for and create!'s validations agree.
LendsOnlyWhenOffered ==
  [][\A l \in DOMAIN loans' \ DOMAIN loans :
       loans'[l].user_id \in Member =>
         can_borrow(loans'[l].user_id, loans'[l].book_id)]_vars

\* No book has more active loans than it ever had copies
\* (copies_available_to_borrow).
NeverOverbooked ==
  \A b \in DOMAIN books : Cardinality(ActiveLoans(b)) <= books[b].most

\* A reader has at most one active loan of a book
\* (prevent_duplicate_active_borrowing).
NoDuplicateActive ==
  \A u \in User, b \in Book : Cardinality(ActiveLoansOf(u, b)) <= 1

\* A reader has at most one unreturned loan of a book: "Users cannot borrow the
\* same book multiple times".
HoldsBookOnce ==
  \A l, k \in DOMAIN loans :
    /\ loans[l].user_id = loans[k].user_id /\ loans[l].book_id = loans[k].book_id
    /\ loans[l].returned_at = NoDate /\ loans[k].returned_at = NoDate
    => l = k

-----------------------------------------------------------------------------
(* What makes the invariants above inductive *)

\* What is stored was issued, and a return under way is for an issued id.
IdsIssued ==
  /\ users \cup DOMAIN books \cup DOMAIN loans \subseteq issued
  /\ \A t \in Thread : req[t].pc = "return" => req[t].loan \in issued

\* The steps of POST /borrowings.
Borrowing == {"validate_duplicate", "validate_copies", "insert_loan"}

\* The total_copies a borrow request has loaded are copies the book has had.
TotalsHadBeen ==
  \A t \in Thread : req[t].pc \in Borrowing =>
    /\ req[t].book \in issued
    /\ req[t].book \in DOMAIN books => req[t].total <= books[req[t].book].most

\* A loan that return! loaded as returned still is, unless it was deleted.
LoadedReturnsStand ==
  \A t \in Thread :
    /\ req[t].pc = "return"
    /\ req[t].status = "returned"
    /\ req[t].loan \in DOMAIN loans
    => loans[req[t].loan].status = "returned"

\* No request arrived in the future.
ArrivedByToday == \A t \in Thread : req[t] # Idle => req[t].at <= day

IndInv ==
  /\ TypeOK
  /\ IsFiniteSet(DOMAIN loans)
  /\ IdsIssued
  /\ LoadedReturnsStand
  /\ ArrivedByToday
  /\ ReferentialIntegrity
  /\ IsbnUnique
  /\ ReturnDateConsistent
  /\ OverdueIsPastDue
  /\ TotalsHadBeen
  /\ OverbookingBounded
  /\ DuplicatesBounded

-----------------------------------------------------------------------------
(* Overdue handling *)

\* send_overdue_notifications logs every loan that update_all has just marked.
NotifiesEveryMarkedLoan ==
  [][\A t \in Thread : Notify(t) =>
       Cardinality(notified' \ notified) = req[t].count]_vars

\* A loan past its due date does not stay "borrowed" for ever.
PastDueIsMarked ==
  \A l \in Loan : l \in PastDue(day) ~> l \notin PastDue(day)

-----------------------------------------------------------------------------
(* The server implements the lending desk, with one decision of slack for  *)
(* every thread beyond the first.                                          *)

Desk == INSTANCE LendingDesk WITH Slack <- Cardinality(Thread) - 1

\* Every step of the server is a step of the desk or leaves it unchanged.
ImplementsDesk == Desk!DeskSpec
=============================================================================
