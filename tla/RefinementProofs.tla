-------------------------- MODULE RefinementProofs --------------------------
(***************************************************************************)
(* The server implements the lending desk, for any number of threads.      *)
(***************************************************************************)
EXTENDS LendingProofs

-----------------------------------------------------------------------------
(* The invariant of the refinement *)

\* A decision is written down on the day its request arrived or the day after.
RequestsRecent == \A t \in Thread : req[t] # Idle => day <= req[t].at + 1

\* The due date was reckoned between the arrival of the request and now.
DueReckoned ==
  \A t \in Thread :
    req[t].pc \in {"validate_copies", "insert_loan"} =>
      /\ req[t].at + LoanPeriod <= req[t].due
      /\ req[t].due <= day + LoanPeriod

\* The loans that destroy! has loaded are loans of what it deletes, as far as they
\* are still there.
ChildrenStay ==
  \A t \in Thread :
    /\ req[t].pc = "destroy_book" =>
         \A l \in req[t].children :
           l \in issued /\ (l \in DOMAIN loans => loans[l].book_id = req[t].book)
    /\ req[t].pc = "destroy_member" =>
         \A l \in req[t].children :
           l \in issued /\ (l \in DOMAIN loans => loans[l].user_id = req[t].user)

\* With one thread, what a borrow request has read is still true.
ReadStands ==
  \A t \in Thread :
    /\ req[t].pc \in Borrowing =>
         /\ req[t].book \in DOMAIN books
         /\ req[t].total = books[req[t].book].total_copies
    /\ req[t].pc = "insert_loan" =>
         Cardinality(ActiveLoans(req[t].book)) < req[t].total

-----------------------------------------------------------------------------
(* Requests step by step *)

\* The loans that destroy! deletes were loaded by an earlier step or are loaded
\* by this one.
LEMMA DestroyLoaded ==
  ASSUME TypeOK, [Next]_vars, NEW s \in Thread,
         req'[s].pc \in {"destroy_book", "destroy_member"}
  PROVE  \/ req'[s] = req[s]
         \/ /\ req'[s].pc = "destroy_book"
            /\ req'[s].children = LoansOfBook(req'[s].book)
            /\ UNCHANGED <<loans, issued>>
         \/ /\ req'[s].pc = "destroy_member"
            /\ req'[s].children = LoansOfUser(req'[s].user)
            /\ UNCHANGED <<loans, issued>>
<1>1. req'[s] # Idle
  BY DEF Idle
<1>2. CASE \/ \E b \in Book : DestroyBookRequest(s, b)
           \/ CreateMemberRequest(s)
           \/ \E u \in Member : DestroyMemberRequest(s, u)
  BY <1>2 DEF DestroyBookRequest, CreateMemberRequest, DestroyMemberRequest,
       Begin, TypeOK
<1>3. CASE ValidateDuplicate(s) \/ ValidateCopies(s) \/ UpdateAll(s)
           \/ ValidateNewBook(s) \/ ValidateBook(s)
  BY <1>1, <1>3, Advances
<1>4. CASE \/ \E u \in User, b \in Book : BorrowRequest(s, u, b)
           \/ \E l \in Loan, c \in Comment \cup {NoComment} : ReturnRequest(s, l, c)
           \/ MarkOverdueRequest(s)
           \/ \E form \in BookForm : CreateBookRequest(s, form)
           \/ \E b \in Book, form \in BookForm : UpdateBookRequest(s, b, form)
  BY <1>4 DEF BorrowRequest, ReturnRequest, MarkOverdueRequest, CreateBookRequest,
       UpdateBookRequest, Begin, TypeOK
<1> QED
  BY <1>1, <1>2, <1>3, <1>4, RequestMoves

\* What request fields the dates are read from.
LEMMA RequestDates ==
  ASSUME TypeOK, NEW s \in Thread
  PROVE  /\ day \in Nat /\ LoanPeriod \in Nat
         /\ req[s] # Idle => req[s].at \in Nat
         /\ req[s].pc \in {"validate_copies", "insert_loan"} => req[s].due \in Nat
<1>1. req[s] \in Request /\ day \in Nat
  BY ConstantsAssumption DEF TypeOK, Day
<1>2. req[s] # Idle => req[s].at \in Nat
  BY <1>1 DEF Request, Day, BorrowReq, ReturnReq, OverdueReq,
         CreateBookReq, UpdateBookReq, DestroyBookReq, CreateMemberReq,
         DestroyMemberReq
<1>3. req[s].pc \in {"validate_copies", "insert_loan"} => req[s].due \in Nat
  BY <1>1, RequestShape DEF BorrowReq
<1> QED
  BY <1>1, <1>2, <1>3, ConstantsAssumption

\* Only midnight changes the date.
LEMMA DayPasses ==
  ASSUME [Next]_vars
  PROVE  NextDay \/ day' = day
BY DEF Next, vars, BorrowingsNext, BorrowRequest, ValidateDuplicate,
       ValidateCopies, InsertLoan, ReturnRequest, ReturnWrite, OverdueNext,
       MarkOverdueRequest, UpdateAll, Notify, CatalogueNext, CreateBookRequest,
       ValidateNewBook, InsertBook, UpdateBookRequest, ValidateBook, UpdateBook,
       DestroyBookRequest, DestroyBook, MembersNext, InsertMember,
       CreateMemberRequest, DestroyMemberRequest, DestroyMember, Crash

LEMMA RecentStep ==
  TypeOK /\ RequestsRecent /\ [Next]_vars => RequestsRecent'
<1> SUFFICES ASSUME TypeOK, RequestsRecent, [Next]_vars,
                    NEW s \in Thread, req'[s] # Idle
             PROVE  day' <= req'[s].at + 1
  BY DEF RequestsRecent
<1>1. day \in Nat
  BY RequestDates
<1>2. CASE day' = day
  BY <1>1, <1>2, RequestAge DEF RequestsRecent
<1>3. CASE NextDay
  BY <1>1, <1>3 DEF NextDay
<1> QED
  BY <1>2, <1>3, DayPasses

LEMMA DueStep ==
  TypeOK /\ ArrivedByToday /\ DueReckoned /\ [Next]_vars => DueReckoned'
<1> SUFFICES ASSUME TypeOK, ArrivedByToday, DueReckoned, [Next]_vars,
                    NEW s \in Thread,
                    req'[s].pc \in {"validate_copies", "insert_loan"}
             PROVE  /\ req'[s].at + LoanPeriod <= req'[s].due
                    /\ req'[s].due <= day' + LoanPeriod
  BY DEF DueReckoned
<1>1. day' \in Nat /\ day <= day'
  BY RequestDates, DayStep
<1>2. CASE req'[s] = req[s]
  BY <1>1, <1>2, RequestDates DEF DueReckoned
<1>3. CASE /\ req'[s].at = req[s].at /\ req[s].pc \in Borrowing
           /\ req'[s].due = day + LoanPeriod
  <2>1. req[s] # Idle
    BY <1>3 DEF Borrowing, Idle
  <2> QED
    BY <1>1, <1>3, <2>1, RequestDates DEF ArrivedByToday
<1>4. CASE /\ req'[s].at = req[s].at /\ req[s].pc = "validate_copies"
           /\ req'[s].due = req[s].due
  BY <1>1, <1>4, RequestDates DEF DueReckoned
<1> QED
  BY <1>2, <1>3, <1>4, BorrowSteps DEF Borrowing

LEMMA ChildrenStep ==
  TypeOK /\ ReturnInv /\ ChildrenStay /\ [Next]_vars => ChildrenStay'
<1> SUFFICES ASSUME TypeOK, ReturnInv, ChildrenStay, [Next]_vars
             PROVE  ChildrenStay'
  OBVIOUS
<1>1. LoansMoveOn
  BY HistoryStep DEF ReturnInv
<1>2. DOMAIN loans \subseteq issued /\ issued \subseteq issued'
  BY Writes DEF ReturnInv, IdsIssued, InsertLoan, ReturnWrite, UpdateAll, InsertBook,
       UpdateBook, DestroyBook, DestroyMember, InsertMember
<1>3. ASSUME NEW s \in Thread, NEW l \in req'[s].children,
             req'[s].pc = "destroy_book"
      PROVE  l \in issued' /\ (l \in DOMAIN loans' => loans'[l].book_id = req'[s].book)
  <2>1. CASE req'[s] = req[s]
    BY <1>1, <1>2, <1>3, <2>1 DEF ChildrenStay, LoansMoveOn
  <2>2. CASE req'[s].children = LoansOfBook(req'[s].book) /\ UNCHANGED <<loans, issued>>
    BY <1>2, <1>3, <2>2 DEF LoansOfBook
  <2> QED
    BY <1>3, <2>1, <2>2, DestroyLoaded
<1>4. ASSUME NEW s \in Thread, NEW l \in req'[s].children,
             req'[s].pc = "destroy_member"
      PROVE  l \in issued' /\ (l \in DOMAIN loans' => loans'[l].user_id = req'[s].user)
  <2>1. CASE req'[s] = req[s]
    BY <1>1, <1>2, <1>4, <2>1 DEF ChildrenStay, LoansMoveOn
  <2>2. CASE req'[s].children = LoansOfUser(req'[s].user) /\ UNCHANGED <<loans, issued>>
    BY <1>2, <1>4, <2>2 DEF LoansOfUser
  <2> QED
    BY <1>4, <2>1, <2>2, DestroyLoaded
<1> QED
  BY <1>3, <1>4 DEF ChildrenStay

-----------------------------------------------------------------------------
(* One thread *)

\* While the only thread is in a borrow request, nobody writes to the tables.
LEMMA Undisturbed ==
  ASSUME TypeOK, [Next]_vars, Cardinality(Thread) = 1,
         NEW s \in Thread, req'[s].pc \in Borrowing
  PROVE  UNCHANGED <<books, users, loans, issued>>
<1>1. \A t \in Thread : t = s
  BY FS_Singleton, ConstantsAssumption
<1>2. req \in [Thread -> Request] /\ req'[s] # Idle
  BY DEF TypeOK, Borrowing, Idle
<1>3. ASSUME \/ InsertLoan(s) \/ ReturnWrite(s) \/ InsertBook(s) \/ UpdateBook(s)
             \/ DestroyBook(s) \/ DestroyMember(s)
      PROVE  FALSE
  BY <1>2, <1>3 DEF InsertLoan, ReturnWrite, InsertBook, UpdateBook, DestroyBook,
                    DestroyMember, Finish, Continue
<1>4. ASSUME UpdateAll(s)
      PROVE  FALSE
  BY <1>2, <1>4, Advances
     DEF Borrowing, UpdateAll, ValidateDuplicate, ValidateCopies
<1>5. ASSUME InsertMember(s)
      PROVE  FALSE
  BY <1>2, <1>5 DEF InsertMember, Finish, Continue
<1> QED
  BY <1>1, <1>3, <1>4, <1>5, Writes

LEMMA ReadStep ==
  ASSUME Cardinality(Thread) = 1
  PROVE  TypeOK /\ FiniteTables /\ ReadStands /\ [Next]_vars => ReadStands'
<1> SUFFICES ASSUME TypeOK, FiniteTables, ReadStands, [Next]_vars,
                    NEW s \in Thread, req'[s].pc \in Borrowing,
                    NEW b, b = req'[s].book
             PROVE  /\ b \in DOMAIN books'
                    /\ req'[s].total = books'[b].total_copies
                    /\ req'[s].pc = "insert_loan" =>
                         Cardinality(ActiveLoans(b)') < req'[s].total
  BY DEF ReadStands, Borrowing
<1>1. books' = books /\ loans' = loans
  BY Undisturbed
<1>2. ActiveLoans(b)' = ActiveLoans(b)
  BY <1>1 DEF ActiveLoans, LoansOfBook
<1>3. CASE req'[s] = req[s]
  BY <1>1, <1>2, <1>3 DEF ReadStands
<1>4. CASE /\ req'[s].pc = "validate_duplicate"
           /\ req'[s].book \in DOMAIN books
           /\ req'[s].total = books[req'[s].book].total_copies
  BY <1>1, <1>4
<1>5. CASE /\ req[s].pc \in Borrowing /\ req'[s].pc = "validate_copies"
           /\ req'[s].book = req[s].book /\ req'[s].total = req[s].total
  BY <1>1, <1>5 DEF ReadStands
<1>6. CASE /\ req[s].pc \in Borrowing /\ req'[s].pc = "insert_loan"
           /\ req'[s].book = req[s].book /\ req'[s].total = req[s].total
           /\ ~ (available_copies(req[s].book, req[s].total) <= 0)
  <2>1. /\ req[s].book \in DOMAIN books
        /\ req[s].total = books[req[s].book].total_copies
    BY <1>6 DEF ReadStands
  <2>2. req[s].total \in 0..MaxCopies /\ MaxCopies \in Nat
    BY <2>1, ConstantsAssumption DEF TypeOK, IsTable, BookRow
  <2>3. Cardinality(ActiveLoans(req[s].book)) \in Nat
    BY CountedFinite, FS_CardinalityType
  <2>4. Cardinality(ActiveLoans(req[s].book)) < req[s].total
    BY <1>6, <2>2, <2>3 DEF available_copies
  <2> QED
    BY <1>1, <1>2, <1>6, <2>1, <2>4
<1> QED
  BY <1>3, <1>4, <1>5, <1>6, BorrowSteps

-----------------------------------------------------------------------------
(* Each write of the server is an operation of the desk *)

\* What the requests hold, for the dates, the snapshots and the single thread.
RequestInv ==
  /\ TypeOK /\ FiniteTables
  /\ ReturnInv /\ ArrivedByToday
  /\ RequestsRecent /\ DueReckoned /\ ChildrenStay
  /\ Cardinality(Thread) = 1 => ReadStands

\* With what has been proved of the tables.
RefInv ==
  /\ RequestInv
  /\ ReferentialIntegrity /\ IsbnUnique
  /\ OverbookingBounded /\ DuplicatesBounded

\* The desk counts as the server does.
LEMMA SameCount == \A S : Desk!Cardinality(S) = Cardinality(S)
BY DEF Desk!Cardinality, Cardinality

\* Borrowed is what the code calls active: a loan that is not returned has no date.
LEMMA OpenIsActive ==
  ASSUME RefInv, NEW u, NEW b
  PROVE  /\ Desk!OpenLoans(b) = ActiveLoans(b)
         /\ {k \in Desk!OpenLoans(b) : loans[k].user_id = u} = ActiveLoansOf(u, b)
BY DEF RefInv, RequestInv, ReturnInv, ReturnDateConsistent, Desk!OpenLoans, ActiveLoans,
       LoansOfBook, ActiveLoansOf, LoansOfUser, Active

\* A request that is about to insert its loan counts itself.
LEMMA RoomLeft ==
  ASSUME RefInv, NEW t \in Thread, req[t].pc = "insert_loan",
         NEW u \in User, NEW b \in Book, req[t].user = u, req[t].book = b,
         b \in DOMAIN books
  PROVE  /\ Cardinality(ActiveLoans(b)) < Desk!Copies(b) + (Cardinality(Thread) - 1)
         /\ Cardinality(ActiveLoansOf(u, b)) <= Cardinality(Thread) - 1
<1>1. /\ Cardinality(ActiveLoans(b)) \in Nat /\ Cardinality(ActiveLoansOf(u, b)) \in Nat
      /\ IsFiniteSet(Approved(b)) /\ IsFiniteSet(Rechecked(u, b))
      /\ Cardinality(Thread) \in Nat /\ MaxCopies \in Nat
  BY CountedFinite, FS_CardinalityType, ConstantsAssumption DEF RefInv, RequestInv
<1>2. t \in Approved(b) /\ t \in Rechecked(u, b)
  BY DEF Approved, Rechecked
<1>3. /\ Cardinality(Approved(b)) \in Nat \ {0}
      /\ Cardinality(Rechecked(u, b)) \in Nat \ {0}
  BY <1>1, <1>2, FS_EmptySet, FS_CardinalityType
<1>4. Cardinality(ActiveLoansOf(u, b)) <= Cardinality(Thread) - 1
  <2>1. Cardinality(ActiveLoansOf(u, b)) + Cardinality(Rechecked(u, b))
          <= Cardinality(Thread)
    BY DEF RefInv, RequestInv, DuplicatesBounded
  <2> QED
    BY <1>1, <1>3, <2>1
<1>5. CASE Cardinality(Thread) = 1
  <2>1. Cardinality(ActiveLoans(b)) < books[b].total_copies
    BY <1>5 DEF RefInv, RequestInv, ReadStands, Borrowing
  <2>2. books[b].total_copies \in Nat
    BY ConstantsAssumption DEF RefInv, RequestInv, TypeOK, IsTable, BookRow
  <2> QED
    BY <1>1, <1>4, <1>5, <2>1, <2>2 DEF Desk!Copies
<1>6. CASE Cardinality(Thread) # 1
  <2>1. Cardinality(ActiveLoans(b)) + Cardinality(Approved(b))
          < books[b].most + Cardinality(Thread)
    BY DEF RefInv, RequestInv, OverbookingBounded
  <2>2. Desk!Copies(b) = books[b].most
    BY <1>1, <1>6 DEF Desk!Copies
  <2>3. books[b].most \in Nat
    BY ConstantsAssumption DEF RefInv, RequestInv, TypeOK, IsTable, BookRow
  <2>4. Cardinality(ActiveLoans(b)) < books[b].most + (Cardinality(Thread) - 1)
    BY <1>1, <1>3, <2>1, <2>3
  <2> QED
    BY <1>4, <2>2, <2>4
<1> QED
  BY <1>5, <1>6

LEMMA InsertLends ==
  ASSUME RefInv, NEW t \in Thread, InsertLoan(t)
  PROVE  Desk!DeskNext \/ UNCHANGED Desk!deskVars
<1>1. CASE UNCHANGED <<loans, issued>>
  BY <1>1 DEF InsertLoan, Desk!deskVars
<1>2. CASE ~ UNCHANGED <<loans, issued>>
  <2> DEFINE u == req[t].user
             b == req[t].book
             d == req[t].due - LoanPeriod
  <2>1. PICK l \in Loan \ issued :
          /\ ForeignKeysHold(NewLoan(req[t]))
          /\ loans' = Insert(loans, l, NewLoan(req[t]))
          /\ issued' = issued \cup {l}
    BY <1>2 DEF InsertLoan
  <2>2. /\ req[t].pc = "insert_loan" /\ UNCHANGED <<books, users, day>>
        /\ req[t].user = u /\ req[t].book = b
    BY DEF InsertLoan
  <2>3. u \in users /\ b \in DOMAIN books
    BY <2>1 DEF ForeignKeysHold, NewLoan
  <2>4. u \in User /\ b \in Book
    BY <2>3 DEF RefInv, RequestInv, TypeOK, IsTable
  <2>5. d \in Desk!Recently /\ req[t].due = d + LoanPeriod
    <3>1. TypeOK /\ req[t] # Idle
      BY <2>2 DEF RefInv, RequestInv, Idle
    <3>2. /\ day <= req[t].at + 1
          /\ req[t].at + LoanPeriod <= req[t].due
          /\ req[t].due <= day + LoanPeriod
      BY <2>2, <3>1 DEF RefInv, RequestInv, RequestsRecent, DueReckoned
    <3>3. /\ day \in Nat /\ LoanPeriod \in Nat /\ req[t].at \in Nat
          /\ req[t].due \in Nat
      BY <2>2, <3>1, RequestDates
    <3> QED
      BY <3>2, <3>3 DEF Desk!Recently
  <2>6. l \notin DOMAIN loans
    BY <2>1 DEF RefInv, RequestInv, ReturnInv, IdsIssued
  <2>7. loans' = [k \in DOMAIN loans \cup {l} |->
                   IF k \in DOMAIN loans THEN loans[k]
                   ELSE [user_id |-> u, book_id |-> b, status |-> "borrowed",
                         due_date |-> d + LoanPeriod, returned_at |-> NoDate,
                         return_comment |-> NoComment]]
    BY <2>1, <2>5, <2>6 DEF Insert, NewLoan
  <2> HIDE DEF u, b, d
  <2>8. /\ Cardinality(ActiveLoans(b)) < Desk!Copies(b) + (Cardinality(Thread) - 1)
        /\ Cardinality(ActiveLoansOf(u, b)) <= Cardinality(Thread) - 1
    BY <2>2, <2>3, <2>4, RoomLeft
  <2>9. /\ Desk!Cardinality(Desk!OpenLoans(b))
             < Desk!Copies(b) + (Cardinality(Thread) - 1)
        /\ Desk!Cardinality({k \in Desk!OpenLoans(b) : loans[k].user_id = u})
             <= Cardinality(Thread) - 1
    BY <2>8, OpenIsActive, SameCount, Zenon
  <2>10. Desk!Lend(u, b, l)
    BY <2>1, <2>2, <2>3, <2>5, <2>7, <2>9, Zenon DEF Desk!Lend
  <2> QED
    BY <2>1, <2>3, <2>4, <2>10 DEF Desk!DeskNext
<1> QED
  BY <1>1, <1>2

LEMMA ReturnTakesBack ==
  ASSUME RefInv, NEW t \in Thread, ReturnWrite(t)
  PROVE  Desk!DeskNext \/ UNCHANGED Desk!deskVars
<1> DEFINE l == req[t].loan
<1>1. /\ req[t].pc = "return"
      /\ UNCHANGED <<books, users, issued, day>>
      /\ loans' = [k \in DOMAIN loans |->
                     IF k = l THEN Returned(loans[k], req[t]) ELSE loans[k]]
  BY DEF ReturnWrite
<1>2. CASE l \notin DOMAIN loans
  <2>1. loans = [k \in DOMAIN loans |-> loans[k]]
    BY DEF RefInv, RequestInv, TypeOK, IsTable
  <2>2. loans' = loans
    BY <1>1, <1>2, <2>1
  <2> QED
    BY <1>1, <2>2 DEF Desk!deskVars
<1>3. CASE l \in DOMAIN loans
  <2>1. /\ req[t] \in ReturnReq /\ day \in Day /\ loans[l] \in LoanRow
        /\ loans \in [DOMAIN loans -> LoanRow] /\ l \in Loan
    <3>1. req[t] \in Request
      BY DEF RefInv, RequestInv, TypeOK
    <3>2. req[t] \in ReturnReq
      BY <1>1, <3>1, RequestShape
    <3> QED
      BY <1>3, <3>2 DEF RefInv, RequestInv, TypeOK, IsTable, ReturnReq
  <2>2. req[t].status = "returned" => loans[l].status = "returned"
    BY <1>1, <1>3 DEF RefInv, RequestInv, ReturnInv, LoadedReturnsStand
  <2> DEFINE c == IF req[t].comment = req[t].new_comment
                  THEN loans[l].return_comment ELSE req[t].new_comment
             old == loans[l]
  <2>3. c \in Comment \cup {NoComment}
    BY <2>1 DEF LoanRow, ReturnReq
  <2>4. Returned(old, req[t]) =
          [old EXCEPT !.status = IF req[t].status = "returned" THEN old.status
                                 ELSE "returned",
                      !.returned_at = day, !.return_comment = c]
    BY DEF Returned
  <2>5. (IF req[t].status = "returned" THEN old.status ELSE "returned") = "returned"
    BY <2>2
  <2>6. Returned(old, req[t]) =
          [old EXCEPT !.status = "returned", !.returned_at = day,
                      !.return_comment = c]
    BY <2>4, <2>5
  <2> HIDE DEF c
  <2>7. loans' = [loans EXCEPT ![l].status = "returned", ![l].returned_at = day,
                               ![l].return_comment = c]
    BY <1>1, <1>3, <2>1, <2>6
  <2>8. Desk!TakeBack(l)
    BY <1>1, <1>3, <2>3, <2>7 DEF Desk!TakeBack
  <2> QED
    BY <2>1, <2>8 DEF Desk!DeskNext
<1> QED
  BY <1>2, <1>3

LEMMA UpdateDeclares ==
  ASSUME RefInv, NEW t \in Thread, UpdateAll(t)
  PROVE  Desk!DeskNext
<1> DEFINE date == req[t].at
<1>1. req[t].pc = "update_all" /\ UNCHANGED <<books, users, issued, day>>
  BY DEF UpdateAll
<1>2. date \in Desk!Recently
  <2>1. TypeOK /\ req[t] # Idle
    BY <1>1 DEF RefInv, RequestInv, Idle
  <2>2. day <= date + 1 /\ date <= day
    BY <2>1 DEF RefInv, RequestInv, RequestsRecent, ArrivedByToday
  <2>3. day \in Nat /\ date \in Nat
    BY <2>1, RequestDates
  <2> QED
    BY <2>2, <2>3 DEF Desk!Recently
<1>3. loans' = [l \in DOMAIN loans |->
                 IF loans[l].status = "borrowed" /\ loans[l].due_date < date
                 THEN [loans[l] EXCEPT !.status = "overdue"] ELSE loans[l]]
  BY DEF UpdateAll, PastDue
<1> HIDE DEF date
<1>4. Desk!DeclareOverdue(date)
  BY <1>1, <1>3 DEF Desk!DeclareOverdue
<1> QED
  BY <1>2, <1>4 DEF Desk!DeskNext

LEMMA InsertAdds ==
  ASSUME RefInv, IsbnUnique', NEW t \in Thread, InsertBook(t)
  PROVE  Desk!DeskNext \/ UNCHANGED Desk!deskVars
<1>1. CASE UNCHANGED <<books, issued>>
  BY <1>1 DEF InsertBook, Desk!deskVars
<1>2. CASE ~ UNCHANGED <<books, issued>>
  <2> DEFINE form == req[t].form
  <2>1. PICK b \in Book \ issued :
          books' = Insert(books, b, NewBook(form)) /\ issued' = issued \cup {b}
    BY <1>2 DEF InsertBook
  <2>2. req[t].pc = "insert_book" /\ UNCHANGED <<users, loans, day>>
    BY DEF InsertBook
  <2>3. form \in BookColumns
    <3>1. req[t] \in Request
      BY DEF RefInv, RequestInv, TypeOK
    <3> QED
      BY <2>2, <3>1, RequestShape DEF CreateBookReq
  <2> HIDE DEF form
  <2>4. PICK n \in 0..MaxCopies, i \in Isbn :
          NewBook(form) = [total_copies |-> n, isbn |-> i, most |-> n]
    BY <2>3 DEF BookColumns, NewBook
  <2>5. b \notin DOMAIN books
    BY <2>1 DEF RefInv, RequestInv, ReturnInv, IdsIssued
  <2>6. books' = [k \in DOMAIN books \cup {b} |->
                   IF k \in DOMAIN books THEN books[k]
                   ELSE [total_copies |-> n, isbn |-> i, most |-> n]]
    BY <2>1, <2>4, <2>5 DEF Insert
  <2>7. Desk!Catalogued(books')
    BY DEF IsbnUnique, Desk!Catalogued
  <2>8. Desk!AddBook(b)
    BY <2>1, <2>2, <2>6, <2>7 DEF Desk!AddBook
  <2> QED
    BY <2>1, <2>8 DEF Desk!DeskNext
<1> QED
  BY <1>1, <1>2

LEMMA UpdateChanges ==
  ASSUME RefInv, IsbnUnique', NEW t \in Thread, UpdateBook(t)
  PROVE  Desk!DeskNext \/ UNCHANGED Desk!deskVars
<1>1. /\ req[t].pc = "update_book"
      /\ UNCHANGED <<users, loans, issued, day>>
  BY DEF UpdateBook
<1>2. CASE books' = books
  BY <1>1, <1>2 DEF Desk!deskVars
<1>3. CASE books' # books
  <2> DEFINE b == req[t].book
             row == Edited(books[b], req[t])
  <2>1. b \in DOMAIN books /\ books' = [books EXCEPT ![b] = row]
    BY <1>3 DEF UpdateBook
  <2>2. req[t] \in UpdateBookReq({"update_book"}, BookColumns)
    <3>1. req[t] \in Request
      BY DEF RefInv, RequestInv, TypeOK
    <3> QED
      BY <1>1, <3>1, RequestShape
  <2>3. b \in Book /\ books[b] \in BookRow
    BY <2>1 DEF RefInv, RequestInv, TypeOK, IsTable
  <2>4. PICK n \in 0..MaxCopies, i \in Isbn :
          row = [total_copies |-> n, isbn |-> i,
                 most |-> IF n > books[b].most THEN n ELSE books[b].most]
    <3> DEFINE n == IF req[t].form.total_copies = req[t].loaded.total_copies
                    THEN books[b].total_copies ELSE req[t].form.total_copies
               i == IF req[t].form.isbn = req[t].loaded.isbn
                    THEN books[b].isbn ELSE req[t].form.isbn
    <3>1. n \in 0..MaxCopies /\ i \in Isbn
      BY <2>2, <2>3 DEF UpdateBookReq, BookColumns, BookRow
    <3>2. row = [total_copies |-> n, isbn |-> i,
                 most |-> IF n > books[b].most THEN n ELSE books[b].most]
      BY DEF Edited
    <3> HIDE DEF n, i, row
    <3> QED
      BY <3>1, <3>2
  <2> HIDE DEF row
  <2>5. books' = [books EXCEPT ![b] =
                    [total_copies |-> n, isbn |-> i,
                     most |-> IF n > @.most THEN n ELSE @.most]]
    BY <2>1, <2>4
  <2> HIDE DEF b
  <2>6. Desk!Catalogued(books')
    BY DEF IsbnUnique, Desk!Catalogued
  <2>7. Desk!ChangeBook(b)
    BY <1>1, <2>1, <2>5, <2>6 DEF Desk!ChangeBook
  <2> QED
    BY <2>3, <2>7 DEF Desk!DeskNext
<1> QED
  BY <1>2, <1>3

\* Deleting what destroy! loaded deletes the loans of the book or member.
LEMMA DeletesChildren ==
  ASSUME NEW children, NEW gone, gone \subseteq children,
         \A l \in children : l \in DOMAIN loans => l \in gone
  PROVE  Delete(loans, children) = Desk!Restrict(loans, DOMAIN loans \ gone)
<1>1. DOMAIN loans \ children = DOMAIN loans \ gone
  OBVIOUS
<1> QED
  BY <1>1 DEF Delete, Restrict, Desk!Restrict

\* Deleting no row changes no table.
LEMMA NothingDeleted ==
  ASSUME NEW table, NEW Key, NEW Row, IsTable(table, Key, Row), NEW ids,
         ids \cap DOMAIN table = {}
  PROVE  Delete(table, ids) = table
<1>1. DOMAIN table \ ids = DOMAIN table
  OBVIOUS
<1> QED
  BY <1>1 DEF Delete, Restrict, IsTable

LEMMA DestroyRemoves ==
  ASSUME RefInv, NEW t \in Thread, DestroyBook(t)
  PROVE  Desk!DeskNext \/ UNCHANGED Desk!deskVars
<1> DEFINE b == req[t].book
           children == req[t].children
<1>1. req[t].pc = "destroy_book" /\ UNCHANGED <<users, issued, day>>
  BY DEF DestroyBook
<1>2. \A l \in children : l \in DOMAIN loans => l \in LoansOfBook(b)
  BY <1>1 DEF RefInv, RequestInv, ChildrenStay, LoansOfBook
<1>3. b \in Book
  <2>1. req[t] \in Request
    BY DEF RefInv, RequestInv, TypeOK
  <2> QED
    BY <1>1, <2>1, RequestShape DEF DestroyBookReq
<1>4. CASE ~ (LoansOfBook(b) \subseteq children)
  BY <1>1, <1>4 DEF DestroyBook, Desk!deskVars
<1>5. CASE LoansOfBook(b) \subseteq children
  <2>1. /\ loans' = Delete(loans, children)
        /\ books' = Delete(books, {b})
    BY <1>5 DEF DestroyBook
  <2> HIDE DEF b, children
  <2>2. CASE b \in DOMAIN books
    <3>1. loans' = Desk!Restrict(loans, DOMAIN loans \ LoansOfBook(b))
      BY <1>2, <1>5, <2>1, DeletesChildren
    <3>2. books' = Desk!Restrict(books, DOMAIN books \ {b})
      BY <2>1 DEF Delete, Restrict, Desk!Restrict
    <3>3. Desk!RemoveBook(b)
      BY <1>1, <2>2, <3>1, <3>2 DEF Desk!RemoveBook, Desk!Drop, LoansOfBook
    <3> QED
      BY <1>3, <3>3 DEF Desk!DeskNext
  <2>3. CASE b \notin DOMAIN books
    <3>1. LoansOfBook(b) = {}
      BY <2>3 DEF RefInv, RequestInv, ReferentialIntegrity, ForeignKeysHold, LoansOfBook
    <3>2. children \cap DOMAIN loans = {}
      BY <1>2, <3>1
    <3>3. IsTable(loans, Loan, LoanRow) /\ IsTable(books, Book, BookRow)
      BY DEF RefInv, RequestInv, TypeOK
    <3>4. loans' = loans
      BY <2>1, <3>2, <3>3, NothingDeleted
    <3>5. books' = books
      BY <2>1, <2>3, <3>3, NothingDeleted
    <3> QED
      BY <1>1, <3>4, <3>5 DEF Desk!deskVars
  <2> QED
    BY <2>2, <2>3
<1> QED
  BY <1>4, <1>5

LEMMA DestroyLeaves ==
  ASSUME RefInv, NEW t \in Thread, DestroyMember(t)
  PROVE  Desk!DeskNext \/ UNCHANGED Desk!deskVars
<1> DEFINE u == req[t].user
           children == req[t].children
<1>1. req[t].pc = "destroy_member" /\ UNCHANGED <<books, issued, day>>
  BY DEF DestroyMember
<1>2. \A l \in children : l \in DOMAIN loans => l \in LoansOfUser(u)
  BY <1>1 DEF RefInv, RequestInv, ChildrenStay, LoansOfUser
<1>3. u \in Member
  <2>1. req[t] \in Request
    BY DEF RefInv, RequestInv, TypeOK
  <2> QED
    BY <1>1, <2>1, RequestShape DEF DestroyMemberReq
<1>4. CASE ~ (LoansOfUser(u) \subseteq children)
  BY <1>1, <1>4 DEF DestroyMember, Desk!deskVars
<1>5. CASE LoansOfUser(u) \subseteq children
  <2>1. loans' = Delete(loans, children) /\ users' = users \ {u}
    BY <1>5 DEF DestroyMember
  <2> HIDE DEF u, children
  <2>2. CASE u \in users
    <3>1. loans' = Desk!Restrict(loans, DOMAIN loans \ LoansOfUser(u))
      BY <1>2, <1>5, <2>1, DeletesChildren
    <3>2. Desk!Leave(u)
      BY <1>1, <1>3, <2>1, <2>2, <3>1 DEF Desk!Leave, Desk!Drop, LoansOfUser
    <3> QED
      BY <1>3, <3>2 DEF Desk!DeskNext
  <2>3. CASE u \notin users
    <3>1. LoansOfUser(u) = {}
      BY <2>3 DEF RefInv, RequestInv, ReferentialIntegrity, ForeignKeysHold, LoansOfUser
    <3>2. children \cap DOMAIN loans = {}
      BY <1>2, <3>1
    <3>3. IsTable(loans, Loan, LoanRow)
      BY DEF RefInv, RequestInv, TypeOK
    <3>4. loans' = loans /\ users' = users
      BY <2>1, <2>3, <3>2, <3>3, NothingDeleted
    <3> QED
      BY <1>1, <3>4 DEF Desk!deskVars
  <2> QED
    BY <2>2, <2>3
<1> QED
  BY <1>4, <1>5

-----------------------------------------------------------------------------
(* The theorems *)

LEMMA RefStep ==
  RefInv /\ RefInv' /\ [Next]_vars => [Desk!DeskNext]_(Desk!deskVars)
<1> SUFFICES ASSUME RefInv, RefInv', [Next]_vars
             PROVE  Desk!DeskNext \/ UNCHANGED Desk!deskVars
  OBVIOUS
<1>1. IsbnUnique'
  BY DEF RefInv, RequestInv
<1>2. ASSUME NEW t \in Thread, InsertMember(t)
      PROVE  Desk!DeskNext \/ UNCHANGED Desk!deskVars
  <2>1. CASE UNCHANGED <<users, issued>>
    BY <1>2, <2>1 DEF InsertMember, Desk!deskVars
  <2>2. CASE \E u \in Member \ issued :
               users' = users \cup {u} /\ issued' = issued \cup {u}
    <3>1. PICK u \in Member \ issued :
                 users' = users \cup {u} /\ issued' = issued \cup {u}
      BY <2>2
    <3>2. Desk!Join(u)
      BY <1>2, <3>1 DEF InsertMember, Desk!Join
    <3> QED
      BY <3>2 DEF Desk!DeskNext
  <2> QED
    BY <1>2, <2>1, <2>2 DEF InsertMember
<1>3. CASE NextDay
  <2>1. Desk!Tomorrow
    BY <1>3 DEF NextDay, Desk!Tomorrow
  <2> QED
    BY <2>1 DEF Desk!DeskNext
<1>4. CASE UNCHANGED <<books, users, loans, issued>> /\ day' = day
  BY <1>4 DEF Desk!deskVars
<1>5. CASE \E t \in Thread :
             \/ InsertLoan(t) \/ ReturnWrite(t) \/ UpdateAll(t)
             \/ InsertBook(t) \/ UpdateBook(t) \/ DestroyBook(t)
             \/ DestroyMember(t)
             \/ InsertMember(t)
  BY <1>1, <1>2, <1>5, InsertLends, ReturnTakesBack, UpdateDeclares, InsertAdds,
     UpdateChanges, DestroyRemoves, DestroyLeaves
<1> QED
  BY <1>3, <1>4, <1>5, Writes, DayPasses


LEMMA RequestInvStep == RequestInv /\ [Next]_vars => RequestInv'
<1> SUFFICES ASSUME RequestInv, [Next]_vars PROVE RequestInv'
  OBVIOUS
<1>1. TypeOK' /\ FiniteTables'
  BY TypeStep, FiniteStep DEF RequestInv
<1>2. ReturnInv' /\ ArrivedByToday'
  BY ReturnStep, ArrivedStep DEF RequestInv
<1>3. RequestsRecent' /\ DueReckoned' /\ ChildrenStay'
  BY RecentStep, DueStep, ChildrenStep DEF RequestInv
<1>4. Cardinality(Thread) = 1 => ReadStands'
  BY ReadStep DEF RequestInv
<1> QED
  BY <1>1, <1>2, <1>3, <1>4 DEF RequestInv

LEMMA RefInvHolds == Spec => []RefInv
<1>1. Init => RequestInv
  <2> SUFFICES ASSUME Init PROVE RequestInv
    OBVIOUS
  <2>1. TypeOK /\ FiniteTables /\ ReturnInv
    BY TypeInit, ReturnInit
  <2>2. \A t \in Thread : req[t] = Idle
    BY DEF Init
  <2>3. ArrivedByToday /\ RequestsRecent
    BY <2>2 DEF ArrivedByToday, RequestsRecent
  <2>4. DueReckoned /\ ChildrenStay /\ ReadStands
    BY <2>2 DEF DueReckoned, ChildrenStay, ReadStands, Borrowing, Idle
  <2> QED
    BY <2>1, <2>3, <2>4 DEF RequestInv
<1>2. Spec => []RequestInv
  BY <1>1, RequestInvStep, PTL DEF Spec
<1>3. RequestInv /\ ReferentialIntegrity /\ IsbnUnique
        /\ OverbookingBounded /\ DuplicatesBounded => RefInv
  BY DEF RefInv
<1> QED
  BY <1>2, <1>3, ReferencesHold, IsbnsUnique, OverbookingLimited,
     DuplicatesLimited, PTL

\* Whatever requests interleave or die half-way, the tables change as they would at
\* a desk with one clerk who may be wrong by one decision for every thread beyond
\* the first; with one thread, who is never wrong.  In particular a book or a
\* member leaves with all its loans (dependent: :destroy), update_all marks
\* exactly the loans past one date, and a return writes all three columns.
THEOREM ServerImplementsDesk == Spec => ImplementsDesk
<1>1. Init => Desk!DeskInit
  BY DEF Init, EmptyTable, Desk!DeskInit
<1> QED
  BY <1>1, RefInvHolds, RefStep, PTL DEF Spec, ImplementsDesk, Desk!DeskSpec

\* With one thread, the SQL of with_can_borrow_for and the validations of create!
\* agree: a member is lent a book only at a moment at which it is offered.
THEOREM SerialServerLendsWhatItOffers ==
  Cardinality(Thread) = 1 => (Spec => LendsOnlyWhenOffered)
<1> DEFINE Offered == \A l \in DOMAIN loans' \ DOMAIN loans :
                        loans'[l].user_id \in Member =>
                          can_borrow(loans'[l].user_id, loans'[l].book_id)
<1> SUFFICES ASSUME Cardinality(Thread) = 1
             PROVE  Spec => LendsOnlyWhenOffered
  OBVIOUS
<1>1. RefInv /\ [Next]_vars => [Offered]_vars
  <2> SUFFICES ASSUME RefInv, [Next]_vars,
                      NEW l \in DOMAIN loans' \ DOMAIN loans,
                      loans'[l].user_id \in Member
               PROVE  can_borrow(loans'[l].user_id, loans'[l].book_id)
    OBVIOUS
  <2>1. PICK t \in Thread : InsertLoan(t)
    <3>1. \A t \in Thread : ReturnWrite(t) \/ UpdateAll(t) => DOMAIN loans' = DOMAIN loans
      BY DEF ReturnWrite, UpdateAll
    <3> QED
      BY <3>1, Writes, DestroyedLoans DEF InsertBook, UpdateBook, InsertMember
  <2> DEFINE u == req[t].user
             b == req[t].book
  <2>2. /\ req[t].pc = "insert_loan" /\ req[t].user = u /\ req[t].book = b
        /\ ForeignKeysHold(NewLoan(req[t])) /\ loans'[l] = NewLoan(req[t])
    BY <2>1, InsertedLoan DEF InsertLoan
  <2>3. /\ u \in users /\ b \in DOMAIN books
        /\ loans'[l].user_id = u /\ loans'[l].book_id = b
    BY <2>2 DEF ForeignKeysHold, NewLoan
  <2>4. u \in User /\ b \in Book
    BY <2>3 DEF RefInv, RequestInv, TypeOK, IsTable
  <2> HIDE DEF u, b
  <2>5. Cardinality(ActiveLoans(b)) < books[b].total_copies
    BY <2>2 DEF RefInv, RequestInv, ReadStands, Borrowing
  <2>6. ActiveLoansOf(u, b) = {}
    <3>1. Cardinality(ActiveLoansOf(u, b)) <= 0
      BY <2>2, <2>3, <2>4, RoomLeft
    <3>2. IsFiniteSet(ActiveLoansOf(u, b))
      BY CountedFinite DEF RefInv, RequestInv
    <3> QED
      BY <3>1, <3>2, FS_EmptySet, FS_CardinalityType
  <2> QED
    BY <2>3, <2>5, <2>6
       DEF can_borrow, ActiveLoansOf, ActiveLoans, LoansOfUser, LoansOfBook
<1> QED
  BY <1>1, RefInvHolds, PTL DEF Spec, LendsOnlyWhenOffered
=============================================================================
