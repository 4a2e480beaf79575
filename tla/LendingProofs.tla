---------------------------- MODULE LendingProofs ---------------------------
(***************************************************************************)
(* How far interleaved requests can overstep the lending rules, for any    *)
(* number of threads, readers, books and copies.                           *)
(***************************************************************************)
EXTENDS IntegrityProofs

-----------------------------------------------------------------------------
(* Counting *)

\* Moving one element's worth from one set to another adds nothing to the sum.
LEMMA CountShift ==
  ASSUME NEW A, IsFiniteSet(A), NEW P, IsFiniteSet(P), NEW B, NEW Q,
         \/ B \subseteq A /\ Q \subseteq P
         \/ \E l, t : t \in P /\ B \subseteq A \cup {l} /\ Q \subseteq P \ {t}
  PROVE  /\ Cardinality(A) + Cardinality(P) \in Nat
         /\ Cardinality(B) + Cardinality(Q) \in Nat
         /\ Cardinality(B) + Cardinality(Q) <= Cardinality(A) + Cardinality(P)
<1>1. Cardinality(A) \in Nat /\ Cardinality(P) \in Nat
  BY FS_CardinalityType
<1>2. CASE B \subseteq A /\ Q \subseteq P
  <2>1. /\ Cardinality(B) \in Nat /\ Cardinality(B) <= Cardinality(A)
        /\ Cardinality(Q) \in Nat /\ Cardinality(Q) <= Cardinality(P)
    BY <1>2, FS_Subset, FS_CardinalityType
  <2> QED
    BY <1>1, <2>1
<1>3. CASE \E l, t : t \in P /\ B \subseteq A \cup {l} /\ Q \subseteq P \ {t}
  <2>1. PICK l, t : t \in P /\ B \subseteq A \cup {l} /\ Q \subseteq P \ {t}
    BY <1>3
  <2>2. /\ IsFiniteSet(A \cup {l})
        /\ Cardinality(A \cup {l}) \in {Cardinality(A), Cardinality(A) + 1}
    BY FS_AddElement
  <2>3. IsFiniteSet(P \ {t}) /\ Cardinality(P \ {t}) = Cardinality(P) - 1
    BY <2>1, FS_RemoveElement
  <2>4. /\ Cardinality(B) \in Nat /\ Cardinality(B) <= Cardinality(A \cup {l})
        /\ Cardinality(Q) \in Nat /\ Cardinality(Q) <= Cardinality(P \ {t})
    BY <2>1, <2>2, <2>3, FS_Subset, FS_CardinalityType
  <2> QED
    BY <1>1, <2>2, <2>3, <2>4
<1> QED
  BY <1>2, <1>3

\* The sets that are counted are finite.
LEMMA CountedFinite ==
  ASSUME FiniteTables, NEW u, NEW b
  PROVE  /\ IsFiniteSet(ActiveLoans(b)) /\ IsFiniteSet(ActiveLoansOf(u, b))
         /\ IsFiniteSet(Approved(b)) /\ IsFiniteSet(Rechecked(u, b))
         /\ Cardinality(Approved(b)) <= Cardinality(Thread)
         /\ Cardinality(Rechecked(u, b)) <= Cardinality(Thread)
<1>1. /\ ActiveLoans(b) \subseteq DOMAIN loans
      /\ ActiveLoansOf(u, b) \subseteq DOMAIN loans
      /\ Approved(b) \subseteq Thread /\ Rechecked(u, b) \subseteq Thread
  BY DEF ActiveLoans, ActiveLoansOf, LoansOfBook, LoansOfUser, Approved, Rechecked
<1> QED
  BY <1>1, FS_Subset, ConstantsAssumption DEF FiniteTables

-----------------------------------------------------------------------------
(* What changes the counts *)

\* A loan that is active after a step was active before it, with the same reader
\* and book, or is the one InsertLoan has just made.
LEMMA NewlyActive ==
  ASSUME TypeOK, [Next]_vars
  PROVE  LET WasActive(l) == /\ l \in DOMAIN loans /\ Active(loans[l])
                             /\ loans'[l].user_id = loans[l].user_id
                             /\ loans'[l].book_id = loans[l].book_id
         IN  \/ \A l \in DOMAIN loans' : Active(loans'[l]) => WasActive(l)
             \/ \E t \in Thread, k \in DOMAIN loans' :
                  /\ InsertLoan(t)
                  /\ loans'[k].user_id = req[t].user
                  /\ loans'[k].book_id = req[t].book
                  /\ \A l \in DOMAIN loans' \ {k} : Active(loans'[l]) => WasActive(l)
<1> USE DEF Active
<1>1. CASE \E t \in Thread : InsertLoan(t)
  <2>1. PICK t \in Thread : InsertLoan(t)
    BY <1>1
  <2>2. CASE UNCHANGED loans
    BY <2>2
  <2>3. CASE \E k \in Loan \ issued :
               /\ DOMAIN loans' = DOMAIN loans \cup {k}
               /\ loans'[k] = NewLoan(req[t])
               /\ \A l \in DOMAIN loans \ {k} : loans'[l] = loans[l]
    <3>1. PICK k \in Loan \ issued :
               /\ DOMAIN loans' = DOMAIN loans \cup {k}
               /\ loans'[k] = NewLoan(req[t])
               /\ \A l \in DOMAIN loans \ {k} : loans'[l] = loans[l]
      BY <2>3
    <3>2. loans'[k].user_id = req[t].user /\ loans'[k].book_id = req[t].book
      BY <3>1 DEF NewLoan
    <3> QED
      BY <2>1, <3>1, <3>2
  <2> QED
    BY <2>1, <2>2, <2>3, InsertedLoan
<1>2. CASE \E t \in Thread : ReturnWrite(t)
  <2>1. PICK t \in Thread : ReturnWrite(t)
    BY <1>2
  <2>2. day # NoDate
    BY ConstantsAssumption DEF TypeOK, Day
  <2> QED
    BY <2>1, <2>2, ReturnedLoans
<1>3. CASE \E t \in Thread : UpdateAll(t)
  <2>1. PICK t \in Thread : UpdateAll(t)
    BY <1>3
  <2> QED
    BY <2>1, MarkedLoans
<1>4. CASE \E t \in Thread : DestroyBook(t) \/ DestroyMember(t)
  BY <1>4, DestroyedLoans
<1>5. CASE UNCHANGED loans
  BY <1>5
<1> QED
  BY <1>1, <1>2, <1>3, <1>4, <1>5, Writes DEF InsertBook, UpdateBook, InsertMember

\* A borrow request stands still, arrives, or passes one of its validations.
LEMMA BorrowSteps ==
  ASSUME TypeOK, [Next]_vars, NEW s \in Thread, req'[s].pc \in Borrowing
  PROVE  \/ req'[s] = req[s]
         \/ /\ req'[s].pc = "validate_duplicate"
            /\ req'[s].book \in DOMAIN books
            /\ req'[s].total = books[req'[s].book].total_copies
         \/ /\ UNCHANGED <<loans, day>>
            /\ req[s].pc \in Borrowing
            /\ req'[s].user = req[s].user /\ req'[s].book = req[s].book
            /\ req'[s].total = req[s].total /\ req'[s].at = req[s].at
            /\ \/ /\ req'[s].pc = "validate_copies"
                  /\ req[s].pc = "validate_duplicate"
                  /\ req'[s].due = day + LoanPeriod
                  /\ ~ DuplicateActive(req[s].user, req[s].book)
               \/ /\ req'[s].pc = "insert_loan"
                  /\ req[s].pc = "validate_copies"
                  /\ req'[s].due = req[s].due
                  /\ ~ (available_copies(req[s].book, req[s].total) <= 0)
<1> USE DEF Borrowing
<1>1. req \in [Thread -> Request] /\ req[s] \in Request /\ req'[s] # Idle
  BY DEF TypeOK, Idle
<1>2. CASE ValidateDuplicate(s)
  <2>1. req[s] \in BorrowReq({"validate_duplicate"}, {NoDate})
    BY <1>1, <1>2, RequestShape DEF ValidateDuplicate
  <2>2. /\ req'[s] = [req[s] EXCEPT !.pc = "validate_copies",
                                    !.due = day + LoanPeriod]
        /\ ~ DuplicateActive(req[s].user, req[s].book)
        /\ UNCHANGED <<loans, day>>
    BY <1>1, <1>2 DEF ValidateDuplicate, Finish, Continue
  <2> QED
    BY <2>1, <2>2 DEF BorrowReq
<1>3. CASE ValidateCopies(s)
  <2>1. req[s] \in BorrowReq({"validate_copies", "insert_loan"}, Nat)
    BY <1>1, <1>3, RequestShape DEF ValidateCopies
  <2>2. /\ ~ (available_copies(req[s].book, req[s].total) <= 0)
        /\ req'[s] = [req[s] EXCEPT !.pc = "insert_loan"]
        /\ req[s].pc = "validate_copies"
        /\ UNCHANGED <<loans, day>>
    BY <1>1, <1>3 DEF ValidateCopies, Finish, Continue
  <2>3. /\ req'[s].user = req[s].user /\ req'[s].book = req[s].book
        /\ req'[s].pc = "insert_loan" /\ req'[s].total = req[s].total
        /\ req'[s].at = req[s].at /\ req'[s].due = req[s].due
    BY <2>1, <2>2 DEF BorrowReq
  <2> QED
    BY <2>2, <2>3
<1>4. CASE UpdateAll(s) \/ ValidateNewBook(s) \/ ValidateBook(s)
  BY <1>1, <1>2, <1>3, <1>4, Advances
<1>5. CASE \E u \in User, b \in Book : BorrowRequest(s, u, b)
  BY <1>1, <1>5 DEF BorrowRequest, Begin
<1>6. CASE \/ \E l \in Loan, c \in Comment \cup {NoComment} : ReturnRequest(s, l, c)
           \/ MarkOverdueRequest(s)
           \/ \E form \in BookForm : CreateBookRequest(s, form)
           \/ \E b \in Book, form \in BookForm : UpdateBookRequest(s, b, form)
           \/ \E b \in Book : DestroyBookRequest(s, b)
           \/ CreateMemberRequest(s)
           \/ \E u \in Member : DestroyMemberRequest(s, u)
  BY <1>1, <1>6 DEF ReturnRequest, MarkOverdueRequest, CreateBookRequest,
       UpdateBookRequest, DestroyBookRequest, CreateMemberRequest,
       DestroyMemberRequest, Begin
<1> QED
  BY <1>1, <1>2, <1>3, <1>4, <1>5, <1>6, RequestMoves

\* The two counts after a step that inserts a loan.
LEMMA InsertLeaves ==
  ASSUME TypeOK, NEW t \in Thread, InsertLoan(t)
  PROVE  /\ req[t].pc = "insert_loan"
         /\ req'[t] = Idle
         /\ \A s \in Thread \ {t} : req'[s] = req[s]
BY DEF InsertLoan, Finish, Continue, TypeOK

-----------------------------------------------------------------------------
(* Copies *)

\* The books of a table remember the most copies they had, and a book that comes
\* has an id that was not in use.
LEMMA BooksRemember ==
  ASSUME TypeOK, [Next]_vars, NEW b \in DOMAIN books'
  PROVE  \/ b \in DOMAIN books /\ books[b].most <= books'[b].most
         \/ b \notin issued /\ UNCHANGED loans
<1>1. \A a \in DOMAIN books : books[a] \in BookRow /\ books[a].most <= books[a].most
  BY ConstantsAssumption DEF TypeOK, IsTable, BookRow
<1>2. ASSUME NEW t \in Thread, InsertBook(t)
      PROVE  \/ b \in DOMAIN books /\ books[b].most <= books'[b].most
             \/ b \notin issued /\ UNCHANGED loans
  BY <1>1, <1>2 DEF InsertBook, Insert
<1>3. ASSUME NEW t \in Thread, UpdateBook(t)
      PROVE  b \in DOMAIN books /\ books[b].most <= books'[b].most
  <2>1. req[t] \in UpdateBookReq({"update_book"}, BookColumns)
    BY <1>3, RequestShape DEF UpdateBook, TypeOK
  <2>2. books[req[t].book] \in BookRow =>
          books[req[t].book].most <= Edited(books[req[t].book], req[t]).most
    BY <2>1, EditedRow DEF UpdateBookReq
  <2> QED
    BY <1>1, <1>3, <2>2 DEF UpdateBook
<1>4. ASSUME NEW t \in Thread, DestroyBook(t)
      PROVE  b \in DOMAIN books /\ books[b].most <= books'[b].most
  BY <1>1, <1>4 DEF DestroyBook, Delete, Restrict
<1>5. CASE UNCHANGED books
  BY <1>1, <1>5
<1> QED
  BY <1>2, <1>3, <1>4, <1>5, Writes
     DEF InsertLoan, ReturnWrite, UpdateAll, InsertMember, DestroyMember

\* What a borrow request has loaded is a number of copies.
LEMMA LoadedTotal ==
  ASSUME TypeOK, NEW s \in Thread, req[s].pc \in Borrowing
  PROVE  req[s].total \in 0..MaxCopies
BY RequestShape DEF TypeOK, Borrowing, BorrowReq

LEMMA TotalsStep ==
  TypeOK /\ FiniteTables /\ IdsIssued /\ TotalsHadBeen /\ [Next]_vars
    => TotalsHadBeen'
<1> SUFFICES ASSUME TypeOK, FiniteTables, IdsIssued, TotalsHadBeen, [Next]_vars,
                    NEW s \in Thread, req'[s].pc \in Borrowing,
                    NEW b, b = req'[s].book
             PROVE  /\ b \in issued'
                    /\ b \in DOMAIN books' => req'[s].total <= books'[b].most
  BY DEF TotalsHadBeen, Borrowing
<1>1. issued \subseteq issued'
  BY Writes DEF InsertLoan, ReturnWrite, UpdateAll, InsertBook, UpdateBook,
       DestroyBook, DestroyMember, InsertMember
<1>2. \A a \in DOMAIN books :
        /\ books[a].total_copies \in Nat /\ books[a].most \in Nat
        /\ books[a].total_copies <= books[a].most
  BY ConstantsAssumption DEF TypeOK, IsTable, BookRow
<1>3. b \in DOMAIN books' => books'[b].most \in Nat
  BY TypeStep, ConstantsAssumption DEF TypeOK, IsTable, BookRow
<1>4. CASE /\ req[s].pc \in Borrowing
           /\ req'[s].book = req[s].book /\ req'[s].total = req[s].total
  <2>1. b \in issued /\ (b \in DOMAIN books => req[s].total <= books[b].most)
    BY <1>4 DEF TotalsHadBeen
  <2>2. req[s].total \in Nat
    BY <1>4, LoadedTotal, ConstantsAssumption
  <2>3. b \in DOMAIN books' => b \in DOMAIN books /\ books[b].most <= books'[b].most
    BY <2>1, BooksRemember
  <2> QED
    BY <1>1, <1>2, <1>3, <1>4, <2>1, <2>2, <2>3
<1>5. CASE b \in DOMAIN books /\ req'[s].total = books[b].total_copies
  <2>1. b \in issued
    BY <1>5 DEF IdsIssued
  <2>2. b \in DOMAIN books' => books[b].most <= books'[b].most
    BY <2>1, BooksRemember
  <2> QED
    BY <1>1, <1>2, <1>3, <1>5, <2>1, <2>2
<1> QED
  BY <1>4, <1>5, BorrowSteps DEF Borrowing

-----------------------------------------------------------------------------
(* Overbooking *)

\* What the bound rests on: no loan of a book that is gone, no id used again, and
\* no more copies loaded than there were.
CopiesInv ==
  /\ TypeOK /\ FiniteTables
  /\ ReferentialIntegrity /\ IdsIssued
  /\ TotalsHadBeen /\ OverbookingBounded

LEMMA OverbookingStep == CopiesInv /\ [Next]_vars => OverbookingBounded'
<1> SUFFICES ASSUME CopiesInv, [Next]_vars, NEW b \in DOMAIN books'
             PROVE  Cardinality(ActiveLoans(b)') + Cardinality(Approved(b)')
                      < books'[b].most + Cardinality(Thread)
  BY DEF OverbookingBounded
<1> DEFINE A == ActiveLoans(b)
           P == Approved(b)
           M == books[b].most
           N == books'[b].most
<1>1. TypeOK /\ FiniteTables
  BY DEF CopiesInv
<1>2. Cardinality(Thread) \in Nat /\ Cardinality(Thread) # 0
  BY ConstantsAssumption, FS_CardinalityType, FS_EmptySet
<1>3. b \in DOMAIN books => M \in Nat
  BY <1>1, ConstantsAssumption DEF TypeOK, IsTable, BookRow
<1>4. N \in Nat
  BY <1>1, TypeStep, ConstantsAssumption DEF TypeOK, IsTable, BookRow
<1>5. Cardinality(P') \in Nat /\ Cardinality(P') <= Cardinality(Thread)
  <2>1. P' \subseteq Thread
    BY DEF Approved
  <2> QED
    BY <2>1, FS_Subset, FS_CardinalityType, ConstantsAssumption
<1>6. IsFiniteSet(A) /\ IsFiniteSet(P) /\ Cardinality(A) \in Nat
  BY <1>1, CountedFinite, FS_CardinalityType
<1>7. CASE b \notin issued /\ UNCHANGED loans
  <2>1. b \notin DOMAIN books /\ b \notin issued
    BY <1>7 DEF CopiesInv, IdsIssued
  <2>2. A' = {}
    BY <1>7, <2>1
       DEF ActiveLoans, LoansOfBook, CopiesInv, ReferentialIntegrity, ForeignKeysHold
  <2>3. P' = {}
    <3> SUFFICES ASSUME NEW s \in Thread, req'[s].pc = "insert_loan", req'[s].book = b
                 PROVE  FALSE
      BY DEF Approved
    <3>1. req[s].pc \in Borrowing /\ req[s].book = b
      BY <1>1, BorrowSteps DEF Borrowing
    <3> QED
      BY <2>1, <3>1 DEF CopiesInv, TotalsHadBeen
  <2> HIDE DEF A, P, N
  <2>4. Cardinality(A') + Cardinality(P') < N + Cardinality(Thread)
    BY <1>2, <1>4, <2>2, <2>3, FS_EmptySet
  <2> QED
    BY <2>4 DEF A, P, N
<1>8. CASE /\ b \in DOMAIN books /\ M <= N
           /\ \E s \in P' : s \notin P
  <2>1. PICK s \in Thread : /\ req'[s].pc = "insert_loan" /\ req'[s].book = b
                           /\ s \notin P
    BY <1>8 DEF Approved
  <2>2. /\ req[s].book = b /\ req[s].pc \in Borrowing
        /\ ~ (available_copies(b, req[s].total) <= 0)
        /\ UNCHANGED loans
    BY <1>1, <2>1, BorrowSteps DEF Approved, Borrowing
  <2>3. req[s].total \in Nat /\ req[s].total <= M
    BY <1>1, <1>8, <2>2, LoadedTotal, ConstantsAssumption DEF CopiesInv, TotalsHadBeen
  <2>4. Cardinality(A) < M
    BY <1>3, <1>6, <1>8, <2>2, <2>3 DEF available_copies
  <2>5. A' = A
    BY <2>2 DEF ActiveLoans, LoansOfBook
  <2> HIDE DEF A, P, M, N
  <2>6. Cardinality(A') + Cardinality(P') < N + Cardinality(Thread)
    BY <1>2, <1>3, <1>4, <1>5, <1>6, <1>8, <2>4, <2>5
  <2> QED
    BY <2>6 DEF A, P, N
<1>9. CASE /\ b \in DOMAIN books /\ M <= N
           /\ P' \subseteq P
  <2>1. \/ A' \subseteq A /\ P' \subseteq P
        \/ \E l, t : t \in P /\ A' \subseteq A \cup {l} /\ P' \subseteq P \ {t}
    <3>1. CASE A' \subseteq A
      BY <1>9, <3>1
    <3>2. CASE ~ (A' \subseteq A)
      <4>1. PICK l \in DOMAIN loans' : loans'[l].book_id = b /\ Active(loans'[l]) /\ l \notin A
        BY <3>2 DEF ActiveLoans, LoansOfBook, Active
      <4>2. PICK t \in Thread, k \in DOMAIN loans' :
              /\ InsertLoan(t)
              /\ loans'[k].book_id = req[t].book
              /\ \A j \in DOMAIN loans' \ {k} : Active(loans'[j]) =>
                   j \in DOMAIN loans /\ Active(loans[j])
                     /\ loans'[j].book_id = loans[j].book_id
        BY <1>1, <4>1, NewlyActive DEF ActiveLoans, LoansOfBook
      <4>3. l = k
        BY <4>1, <4>2 DEF ActiveLoans, LoansOfBook
      <4>4. t \in P
        BY <1>1, <4>1, <4>2, <4>3, InsertLeaves DEF Approved
      <4>5. A' \subseteq A \cup {k}
        BY <4>2 DEF ActiveLoans, LoansOfBook, Active
      <4>6. P' \subseteq P \ {t}
        BY <1>1, <1>9, <4>2, InsertLeaves DEF Approved, Idle
      <4> QED
        BY <4>4, <4>5, <4>6
    <3> QED
      BY <3>1, <3>2
  <2>2. Cardinality(A) + Cardinality(P) < M + Cardinality(Thread)
    BY <1>9 DEF CopiesInv, OverbookingBounded
  <2> HIDE DEF A, P, M, N
  <2>3. /\ Cardinality(A) + Cardinality(P) \in Nat
        /\ Cardinality(A') + Cardinality(P') \in Nat
        /\ Cardinality(A') + Cardinality(P') <= Cardinality(A) + Cardinality(P)
    BY <1>6, <2>1, CountShift
  <2>4. Cardinality(A') + Cardinality(P') < N + Cardinality(Thread)
    BY <1>2, <1>3, <1>4, <1>9, <2>2, <2>3
  <2> QED
    BY <2>4 DEF A, P, N
<1> QED
  BY <1>1, <1>7, <1>8, <1>9, BooksRemember

\* Interleaved requests lend a book at most |Thread| - 1 times beyond the most copies
\* it has had, however its copies are edited meanwhile and however many readers,
\* books and threads there are.
THEOREM OverbookingLimited == Spec => []OverbookingBounded
<1>1. Init => CopiesInv
  <2> SUFFICES ASSUME Init PROVE CopiesInv
    OBVIOUS
  <2>1. TypeOK /\ FiniteTables
    BY TypeInit
  <2>2. ReferentialIntegrity /\ IdsIssued /\ TotalsHadBeen /\ OverbookingBounded
    BY DEF Init, EmptyTable, Idle, ReferentialIntegrity, IdsIssued, TotalsHadBeen,
         Borrowing, OverbookingBounded
  <2> QED
    BY <2>1, <2>2 DEF CopiesInv
<1>2. CopiesInv /\ [Next]_vars => CopiesInv'
  <2> SUFFICES ASSUME CopiesInv, [Next]_vars PROVE CopiesInv'
    OBVIOUS
  <2>1. TypeOK' /\ FiniteTables' /\ ReferentialIntegrity' /\ IdsIssued' /\ TotalsHadBeen'
    BY TypeStep, FiniteStep, ReferencesStep, IdsStep, TotalsStep DEF CopiesInv
  <2> QED
    BY <2>1, OverbookingStep DEF CopiesInv
<1>3. CopiesInv => OverbookingBounded
  BY DEF CopiesInv
<1> QED
  BY <1>1, <1>2, <1>3, PTL DEF Spec

-----------------------------------------------------------------------------
(* Duplicates *)

LEMMA DuplicatesStep ==
  TypeOK /\ FiniteTables /\ DuplicatesBounded /\ [Next]_vars => DuplicatesBounded'
<1> SUFFICES ASSUME TypeOK, FiniteTables, DuplicatesBounded, [Next]_vars,
                    NEW u \in User, NEW b \in Book
             PROVE  Cardinality(ActiveLoansOf(u, b)') + Cardinality(Rechecked(u, b)')
                      <= Cardinality(Thread)
  BY DEF DuplicatesBounded
<1> DEFINE A == ActiveLoansOf(u, b)
           P == Rechecked(u, b)
<1>1. /\ IsFiniteSet(A) /\ IsFiniteSet(P)
      /\ Cardinality(A) + Cardinality(P) <= Cardinality(Thread)
  BY CountedFinite DEF DuplicatesBounded
<1>2. Cardinality(Thread) \in Nat
  BY ConstantsAssumption, FS_CardinalityType
<1>3. CASE \E s \in P' : s \notin P
  <2>1. PICK s \in Thread : /\ req'[s].pc \in {"validate_copies", "insert_loan"}
                           /\ req'[s].user = u /\ req'[s].book = b
                           /\ s \notin P
    BY <1>3 DEF Rechecked
  <2>2. ~ DuplicateActive(u, b) /\ UNCHANGED loans
    BY <2>1, BorrowSteps DEF Rechecked, Borrowing
  <2>3. A' = {}
    BY <2>2 DEF DuplicateActive, ActiveLoansOf, ActiveLoans, LoansOfBook, LoansOfUser
  <2>4. Cardinality(P') \in Nat /\ Cardinality(P') <= Cardinality(Thread)
    <3>1. P' \subseteq Thread
      BY DEF Rechecked
    <3> QED
      BY <3>1, FS_Subset, FS_CardinalityType, ConstantsAssumption
  <2> HIDE DEF A, P
  <2>5. Cardinality(A') + Cardinality(P') <= Cardinality(Thread)
    BY <2>3, <2>4, FS_EmptySet
  <2> QED
    BY <2>5 DEF A, P
<1>4. CASE P' \subseteq P
  <2>1. \/ A' \subseteq A /\ P' \subseteq P
        \/ \E l, t : t \in P /\ A' \subseteq A \cup {l} /\ P' \subseteq P \ {t}
    <3> USE DEF ActiveLoansOf, LoansOfUser, ActiveLoans, LoansOfBook
    <3>1. CASE A' \subseteq A
      BY <1>4, <3>1
    <3>2. CASE ~ (A' \subseteq A)
      <4>1. PICK l \in DOMAIN loans' :
              /\ loans'[l].user_id = u /\ loans'[l].book_id = b
              /\ Active(loans'[l]) /\ l \notin A
        BY <3>2 DEF Active
      <4>2. PICK t \in Thread, k \in DOMAIN loans' :
              /\ InsertLoan(t)
              /\ loans'[k].user_id = req[t].user
              /\ loans'[k].book_id = req[t].book
              /\ \A j \in DOMAIN loans' \ {k} : Active(loans'[j]) =>
                   j \in DOMAIN loans /\ Active(loans[j])
                     /\ loans'[j].user_id = loans[j].user_id
                     /\ loans'[j].book_id = loans[j].book_id
        BY <4>1, NewlyActive
      <4>3. l = k
        BY <4>1, <4>2
      <4>4. t \in P
        BY <4>1, <4>2, <4>3, InsertLeaves DEF Rechecked
      <4>5. A' \subseteq A \cup {k}
        BY <4>2 DEF Active
      <4>6. P' \subseteq P \ {t}
        BY <1>4, <4>2, InsertLeaves DEF Rechecked, Idle
      <4> QED
        BY <4>4, <4>5, <4>6
    <3> QED
      BY <3>1, <3>2
  <2> HIDE DEF A, P
  <2>2. /\ Cardinality(A) + Cardinality(P) \in Nat
        /\ Cardinality(A') + Cardinality(P') \in Nat
        /\ Cardinality(A') + Cardinality(P') <= Cardinality(A) + Cardinality(P)
    BY <1>1, <2>1, CountShift
  <2>3. Cardinality(A') + Cardinality(P') <= Cardinality(Thread)
    BY <1>1, <1>2, <2>2
  <2> QED
    BY <2>3 DEF A, P
<1> QED
  BY <1>3, <1>4

\* A reader gets a book at most once per thread; with one thread that is once.
THEOREM DuplicatesLimited == Spec => []DuplicatesBounded
<1>1. Init => DuplicatesBounded
  <2> SUFFICES ASSUME Init, NEW u \in User, NEW b \in Book
               PROVE  Cardinality(ActiveLoansOf(u, b)) + Cardinality(Rechecked(u, b))
                        <= Cardinality(Thread)
    BY DEF DuplicatesBounded
  <2>1. ActiveLoansOf(u, b) = {} /\ Rechecked(u, b) = {}
    BY DEF Init, EmptyTable, Idle, ActiveLoansOf, LoansOfUser, ActiveLoans,
         LoansOfBook, Rechecked
  <2> QED
    BY <2>1, FS_EmptySet, FS_CardinalityType, ConstantsAssumption
<1>2. Init => TypeOK /\ FiniteTables
  BY TypeInit
<1> QED
  BY <1>1, <1>2, DuplicatesStep, TypeStep, FiniteStep, PTL DEF Spec

\* What the validations promise on a server that handles one request at a time:
\* no reader has two active loans of a book, and no book more of them than it has had
\* copies.
THEOREM SerialServerKeepsRules ==
  Cardinality(Thread) = 1 => (Spec => [](NoDuplicateActive /\ NeverOverbooked))
<1> SUFFICES ASSUME Cardinality(Thread) = 1
             PROVE  Spec => [](NoDuplicateActive /\ NeverOverbooked)
  OBVIOUS
<1>1. FiniteTables /\ DuplicatesBounded => NoDuplicateActive
  <2> SUFFICES ASSUME FiniteTables, DuplicatesBounded, NEW u \in User, NEW b \in Book
               PROVE  Cardinality(ActiveLoansOf(u, b)) <= 1
    BY DEF NoDuplicateActive
  <2>1. /\ Cardinality(ActiveLoansOf(u, b)) \in Nat
        /\ Cardinality(Rechecked(u, b)) \in Nat
    BY CountedFinite, FS_CardinalityType
  <2> QED
    BY <2>1 DEF DuplicatesBounded
<1>2. TypeOK /\ FiniteTables /\ OverbookingBounded => NeverOverbooked
  <2> SUFFICES ASSUME TypeOK, FiniteTables, OverbookingBounded,
                      NEW b \in DOMAIN books
               PROVE  Cardinality(ActiveLoans(b)) <= books[b].most
    BY DEF NeverOverbooked
  <2>1. Cardinality(ActiveLoans(b)) \in Nat /\ Cardinality(Approved(b)) \in Nat
    BY CountedFinite, FS_CardinalityType
  <2>2. books[b].most \in Nat
    BY ConstantsAssumption DEF TypeOK, IsTable, BookRow
  <2> QED
    BY <2>1, <2>2 DEF OverbookingBounded
<1> QED
  BY <1>1, <1>2, TypeInit, TypeStep, FiniteStep, DuplicatesLimited,
     OverbookingLimited, PTL DEF Spec
=============================================================================
