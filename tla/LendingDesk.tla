---------------------------- MODULE LendingDesk -----------------------------
(***************************************************************************)
(* What the library promises: a desk with one clerk, at which every        *)
(* operation is one step on the shelves and the loan register.             *)
(*                                                                         *)
(* Slack is how many decisions can be under way besides the one being      *)
(* written down.  With Slack = 0 the desk lends exactly the copies it has  *)
(* and never the same book twice to one reader.  With Slack > 0 it may be  *)
(* wrong by that much, and because the number of copies can be edited      *)
(* while a decision is pending, the limit is then the most copies that     *)
(* this book has had.                                                      *)
(***************************************************************************)
EXTENDS Integers, FiniteSets, Functions

CONSTANTS Librarian, Member, Book, Loan, Isbn, Comment, NoComment, NoDate,
          MaxCopies, LoanPeriod, MaxDay, Slack

VARIABLES books, users, loans, issued, day

deskVars == <<books, users, loans, issued, day>>

OpenLoans(b) ==
  {l \in DOMAIN loans : loans[l].book_id = b /\ loans[l].status = "borrowed"}

Copies(b) == IF Slack = 0 THEN books[b].total_copies ELSE books[b].most

\* A decision taken yesterday may be written down today.
Recently == {day, day - 1}

DeskInit ==
  /\ books = [b \in {} |-> b]
  /\ loans = [l \in {} |-> l]
  /\ users = Librarian
  /\ issued = Librarian
  /\ day = 0

Lend(u, b, l) ==
  /\ u \in users /\ b \in DOMAIN books /\ l \in Loan \ issued
  /\ Cardinality(OpenLoans(b)) < Copies(b) + Slack
  /\ Cardinality({k \in OpenLoans(b) : loans[k].user_id = u}) <= Slack
  /\ \E d \in Recently :
       loans' = [k \in DOMAIN loans \cup {l} |->
                   IF k \in DOMAIN loans THEN loans[k]
                   ELSE [user_id |-> u, book_id |-> b, status |-> "borrowed",
                         due_date |-> d + LoanPeriod, returned_at |-> NoDate,
                         return_comment |-> NoComment]]
  /\ issued' = issued \cup {l}
  /\ UNCHANGED <<books, users, day>>

TakeBack(l) ==
  /\ l \in DOMAIN loans
  /\ \E c \in Comment \cup {NoComment} :
       loans' = [loans EXCEPT ![l].status = "returned", ![l].returned_at = day,
                              ![l].return_comment = c]
  /\ UNCHANGED <<books, users, issued, day>>

\* All the loans past due on one date, at once.
DeclareOverdue(date) ==
  /\ loans' = [l \in DOMAIN loans |->
                 IF loans[l].status = "borrowed" /\ loans[l].due_date < date
                 THEN [loans[l] EXCEPT !.status = "overdue"] ELSE loans[l]]
  /\ UNCHANGED <<books, users, issued, day>>

\* At every moment an ISBN names one book.
Catalogued(table) ==
  \A a, b \in DOMAIN table : table[a].isbn = table[b].isbn => a = b

AddBook(b) ==
  /\ b \in Book \ issued
  /\ \E n \in 0..MaxCopies, i \in Isbn :
       books' = [k \in DOMAIN books \cup {b} |->
                   IF k \in DOMAIN books THEN books[k]
                   ELSE [total_copies |-> n, isbn |-> i, most |-> n]]
  /\ Catalogued(books')
  /\ issued' = issued \cup {b}
  /\ UNCHANGED <<users, loans, day>>

ChangeBook(b) ==
  /\ b \in DOMAIN books
  /\ \E n \in 0..MaxCopies, i \in Isbn :
       books' = [books EXCEPT ![b] =
                   [total_copies |-> n, isbn |-> i,
                    most |-> IF n > @.most THEN n ELSE @.most]]
  /\ Catalogued(books')
  /\ UNCHANGED <<users, loans, issued, day>>

\* A book or a member leaves with every one of its loans.
Drop(gone) == loans' = Restrict(loans, DOMAIN loans \ gone)

RemoveBook(b) ==
  /\ b \in DOMAIN books
  /\ books' = Restrict(books, DOMAIN books \ {b})
  /\ Drop({l \in DOMAIN loans : loans[l].book_id = b})
  /\ UNCHANGED <<users, issued, day>>

Join(u) ==
  /\ u \in Member \ issued
  /\ users' = users \cup {u}
  /\ issued' = issued \cup {u}
  /\ UNCHANGED <<books, loans, day>>

Leave(u) ==
  /\ u \in users \cap Member
  /\ users' = users \ {u}
  /\ Drop({l \in DOMAIN loans : loans[l].user_id = u})
  /\ UNCHANGED <<books, issued, day>>

Tomorrow == day < MaxDay /\ day' = day + 1 /\ UNCHANGED <<books, users, loans, issued>>

DeskNext ==
  \/ \E u \in users, b \in Book, l \in Loan : Lend(u, b, l)
  \/ \E l \in Loan : TakeBack(l)
  \/ \E date \in Recently : DeclareOverdue(date)
  \/ \E b \in Book : AddBook(b) \/ ChangeBook(b) \/ RemoveBook(b)
  \/ \E u \in Member : Join(u) \/ Leave(u)
  \/ Tomorrow

DeskSpec == DeskInit /\ [][DeskNext]_deskVars
=============================================================================
