------------------------------ MODULE Database ------------------------------
(***************************************************************************)
(* The tables of db/schema.rb and the requests that work on them.          *)
(*                                                                         *)
(* A table is a partial function from primary keys to rows; a row keeps    *)
(* the columns some rule of the application reads.  Ids come from a        *)
(* sequence, so that no id is ever stored a second time; what an INSERT    *)
(* drew that was then refused is skipped, and leaves no trace here.        *)
(*                                                                         *)
(* Puma serves requests on several threads of several processes.  A        *)
(* request runs SQL statement by SQL statement against PostgreSQL in READ  *)
(* COMMITTED mode, so what one statement read may be stale when the next   *)
(* one runs; req[t] is what the request on thread t holds in memory        *)
(* between two statements.  Statements of one transaction take effect      *)
(* together, in the step that commits it.                                  *)
(***************************************************************************)
EXTENDS Integers, FiniteSets, Functions

CONSTANTS
  Librarian,   \* ids of users whose role is librarian
  Member,      \* ids of users whose role is member
  Book,        \* ids the books sequence can give out
  Loan,        \* ids the borrowings sequence can give out
  Isbn,        \* ISBN strings
  Comment,     \* non-blank return comments
  NoComment,   \* NULL in borrowings.return_comment
  NoDate,      \* NULL in a date column
  Thread,      \* the server threads that can be in a request at one time
  MaxCopies,   \* the largest total_copies anybody enters
  LoanPeriod,  \* days a book is lent for; 14 in the code
  MaxDay       \* bound: the last day of the calendar

User == Librarian \cup Member

ASSUME ConstantsAssumption ==
  /\ MaxCopies \in Nat
  /\ LoanPeriod \in Nat \ {0}
  /\ MaxDay \in Nat
  /\ NoDate \notin Int
  /\ NoComment \notin Comment
  /\ IsFiniteSet(Thread)
  /\ Thread # {}

\* One set of ids in use serves three sequences.
ASSUME IdsAssumption ==
  /\ Librarian \cap Member = {}
  /\ User \cap Book = {}
  /\ User \cap Loan = {}
  /\ Book \cap Loan = {}

VARIABLES
  books,     \* books table: id -> [total_copies, isbn], and as history the
             \* most copies the book has had so far
  users,     \* users table: the ids present (the role goes with the id)
  loans,     \* borrowings table: id -> row
  issued,    \* every id that has been stored
  day,       \* Date.current
  req,       \* req[t]: the request thread t is serving
  notified   \* ids whose overdue notice has been logged

vars == <<books, users, loans, issued, day, req, notified>>

-----------------------------------------------------------------------------
(* Rows *)

Day == 0..MaxDay
Status == {"borrowed", "returned", "overdue"}

BookColumns == [total_copies : 0..MaxCopies, isbn : Isbn]

\* No statement and no guard reads `most`.
BookRow ==
  {row \in [total_copies : 0..MaxCopies, isbn : Isbn, most : 0..MaxCopies] :
     row.total_copies <= row.most}

\* What the book form may send: any integer, -1 standing for the negative ones.
BookForm == [total_copies : -1..MaxCopies, isbn : Isbn]

LoanRow == [user_id : User, book_id : Book, status : Status, due_date : Nat,
            returned_at : Day \cup {NoDate},
            return_comment : Comment \cup {NoComment}]

IsTable(table, Key, Row) ==
  DOMAIN table \subseteq Key /\ table \in [DOMAIN table -> Row]
EmptyTable == [k \in {} |-> k]

-----------------------------------------------------------------------------
(* Requests: `at` is the day the request arrived. *)

Idle == [pc |-> "idle"]

BorrowReq(pcs, dates) ==
  [pc : pcs, at : Day, user : User, book : Book, total : 0..MaxCopies,
   due : dates]
ReturnReq == [pc : {"return"}, at : Day, loan : Loan, status : Status,
              comment : Comment \cup {NoComment},
              new_comment : Comment \cup {NoComment}]
OverdueReq == [pc : {"update_all", "notify"}, at : Day, count : Nat]
CreateBookReq(pcs, forms) == [pc : pcs, at : Day, form : forms]
UpdateBookReq(pcs, forms) ==
  [pc : pcs, at : Day, book : Book, loaded : BookColumns, form : forms]
DestroyBookReq == [pc : {"destroy_book"}, at : Day, book : Book,
                   children : SUBSET Loan]
DestroyMemberReq == [pc : {"destroy_member"}, at : Day, user : Member,
                     children : SUBSET Loan]
CreateMemberReq == [pc : {"insert_member"}, at : Day]

\* A loan gets its due date, and a book form its verdict, on the way.
Request ==
  {Idle}
    \cup BorrowReq({"validate_duplicate"}, {NoDate})
    \cup BorrowReq({"validate_copies", "insert_loan"}, Nat)
    \cup ReturnReq
    \cup OverdueReq
    \cup CreateBookReq({"validate_new_book"}, BookForm)
    \cup CreateBookReq({"insert_book"}, BookColumns)
    \cup UpdateBookReq({"validate_book"}, BookForm)
    \cup UpdateBookReq({"update_book"}, BookColumns)
    \cup DestroyBookReq
    \cup CreateMemberReq
    \cup DestroyMemberReq

\* The columns and the requests have their types; keys come from the sequences.
TypeOK ==
  /\ IsTable(books, Book, BookRow)
  /\ users \subseteq User
  /\ IsTable(loans, Loan, LoanRow)
  /\ issued \subseteq User \cup Book \cup Loan
  /\ day \in Day
  /\ req \in [Thread -> Request]
  /\ notified \subseteq Loan

-----------------------------------------------------------------------------
(* Statements *)

Insert(table, id, row) ==
  [k \in DOMAIN table \cup {id} |-> IF k = id THEN row ELSE table[k]]

Delete(table, ids) == Restrict(table, DOMAIN table \ ids)

LoansOfBook(b) == {l \in DOMAIN loans : loans[l].book_id = b}
LoansOfUser(u) == {l \in DOMAIN loans : loans[l].user_id = u}

\* scope :active
Active(row) == row.status = "borrowed" /\ row.returned_at = NoDate

ActiveLoans(b) == {l \in LoansOfBook(b) : Active(loans[l])}
ActiveLoansOf(u, b) == {l \in LoansOfUser(u) : l \in ActiveLoans(b)}

\* The foreign keys of the borrowings table.
ForeignKeysHold(row) == row.user_id \in users /\ row.book_id \in DOMAIN books

\* The unique index on books.isbn, for a row stored beside the given ones.
IsbnFree(others, isbn) == \A b \in others : books[b].isbn # isbn

-----------------------------------------------------------------------------
(* Threads *)

\* Thread t takes a new request.
Begin(t, r) == req[t] = Idle /\ req' = [req EXCEPT ![t] = r]

\* The request on thread t goes on to its next statement.
Continue(t, r) == req' = [req EXCEPT ![t] = r]

\* The request on thread t has been answered.
Finish(t) == Continue(t, Idle)
=============================================================================
