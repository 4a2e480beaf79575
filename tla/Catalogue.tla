----------------------------- MODULE Catalogue ------------------------------
(***************************************************************************)
(* BooksController and the Book model: the librarian's catalogue.  Every   *)
(* operation here requires a signed-in librarian.                          *)
(***************************************************************************)
EXTENDS Database

Staffed == users \cap Librarian # {}

-----------------------------------------------------------------------------
(* POST /books *)

CreateBookRequest(t, form) ==
  /\ Staffed
  /\ Begin(t, [pc |-> "validate_new_book", at |-> day, form |-> form])
  /\ UNCHANGED <<books, users, loans, issued, day, notified>>

BookValidAnyCopies(others, form) == IsbnFree(others, form.isbn)

\* The validations of the Book model; uniqueness is a SELECT.
BookValid(others, form) ==
  form.total_copies >= 0 /\ IsbnFree(others, form.isbn)

ValidateNewBook(t) ==
  /\ req[t].pc = "validate_new_book"
  /\ IF BookValid(DOMAIN books, req[t].form)
     THEN Continue(t, [req[t] EXCEPT !.pc = "insert_book"])
     ELSE Finish(t)
  /\ UNCHANGED <<books, users, loans, issued, day, notified>>

NewBook(form) == [total_copies |-> form.total_copies, isbn |-> form.isbn,
                  most |-> form.total_copies]

InsertBookUnindexed(t) ==
  /\ req[t].pc = "insert_book"
  /\ \E b \in Book \ issued :
       books' = Insert(books, b, NewBook(req[t].form)) /\ issued' = issued \cup {b}
  /\ Finish(t)
  /\ UNCHANGED <<users, loans, day, notified>>

\* The INSERT.  The unique index refuses an ISBN stored since it was validated
\* (500); so does the sequence once it is exhausted.
InsertBook(t) ==
  /\ req[t].pc = "insert_book"
  /\ \/ /\ IsbnFree(DOMAIN books, req[t].form.isbn)
        /\ \E b \in Book \ issued :
             /\ books' = Insert(books, b, NewBook(req[t].form))
             /\ issued' = issued \cup {b}
     \/ /\ ~ IsbnFree(DOMAIN books, req[t].form.isbn) \/ Book \subseteq issued
        /\ UNCHANGED <<books, issued>>
  /\ Finish(t)
  /\ UNCHANGED <<users, loans, day, notified>>

-----------------------------------------------------------------------------
(* PATCH /books/:id *)

\* set_book.
UpdateBookRequest(t, b, form) ==
  /\ Staffed
  /\ b \in DOMAIN books
  /\ Begin(t, [pc |-> "validate_book", at |-> day, book |-> b,
               loaded |-> [total_copies |-> books[b].total_copies,
                           isbn |-> books[b].isbn],
               form |-> form])
  /\ UNCHANGED <<books, users, loans, issued, day, notified>>

\* An ISBN that is not changed is covered by the index and not validated again.
ValidateBook(t) ==
  /\ req[t].pc = "validate_book"
  /\ IF \/ BookValid(DOMAIN books \ {req[t].book}, req[t].form)
        \/ /\ req[t].form.isbn = req[t].loaded.isbn
           /\ req[t].form.total_copies >= 0
     THEN Continue(t, [req[t] EXCEPT !.pc = "update_book"])
     ELSE Finish(t)
  /\ UNCHANGED <<books, users, loans, issued, day, notified>>

\* The columns that differ from the loaded row, written over the current one.
Edited(row, r) ==
  LET total == IF r.form.total_copies = r.loaded.total_copies
               THEN row.total_copies ELSE r.form.total_copies
  IN  [total_copies |-> total,
       isbn |-> IF r.form.isbn = r.loaded.isbn THEN row.isbn ELSE r.form.isbn,
       most |-> IF total > row.most THEN total ELSE row.most]

\* A book deleted in the meantime: the UPDATE touches no row and is no error.
UpdateBook(t) ==
  /\ req[t].pc = "update_book"
  /\ LET b == req[t].book
     IN  IF /\ b \in DOMAIN books
            /\ IsbnFree(DOMAIN books \ {b}, Edited(books[b], req[t]).isbn)
         THEN books' = [books EXCEPT ![b] = Edited(@, req[t])]
         ELSE books' = books
  /\ Finish(t)
  /\ UNCHANGED <<users, loans, issued, day, notified>>

-----------------------------------------------------------------------------
(* DELETE /books/:id *)

\* set_book; destroy! loads the loans that depend on the book.
DestroyBookRequest(t, b) ==
  /\ Staffed
  /\ b \in DOMAIN books
  /\ Begin(t, [pc |-> "destroy_book", at |-> day, book |-> b,
               children |-> LoansOfBook(b)])
  /\ UNCHANGED <<books, users, loans, issued, day, notified>>

\* The loaded loans and the book go in one transaction.  A loan made since they
\* were loaded holds the foreign key: everything is rolled back (500).
DestroyBook(t) ==
  /\ req[t].pc = "destroy_book"
  /\ IF LoansOfBook(req[t].book) \subseteq req[t].children
     THEN /\ loans' = Delete(loans, req[t].children)
          /\ books' = Delete(books, {req[t].book})
     ELSE UNCHANGED <<loans, books>>
  /\ Finish(t)
  /\ UNCHANGED <<users, issued, day, notified>>

-----------------------------------------------------------------------------

CatalogueNext ==
  \E t \in Thread :
    \/ \E form \in BookForm : CreateBookRequest(t, form)
    \/ ValidateNewBook(t)
    \/ InsertBook(t)
    \/ \E b \in Book, form \in BookForm : UpdateBookRequest(t, b, form)
    \/ ValidateBook(t)
    \/ UpdateBook(t)
    \/ \E b \in Book : DestroyBookRequest(t, b)
    \/ DestroyBook(t)
=============================================================================
