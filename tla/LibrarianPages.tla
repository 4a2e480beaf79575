--------------------------- MODULE LibrarianPages ---------------------------
(***************************************************************************)
(* pages/librarian: Books, Members, Borrowings and Dashboard.              *)
(***************************************************************************)
EXTENDS Editing

-----------------------------------------------------------------------------
(* Books *)

BooksLoad(s) == ListArrives(s, "books", <<>>)
BooksSearch(f) == Filter("books", f)
BooksTurn == Turn("books")

NewBook == view = "books" /\ Open([kind |-> "create"])
CreateBook(val) == Create("books", val)
BookCreated(s) == Created("books", s)

EditBook(i) == Edit("books", i)
SaveBook(val) == Save("books", val)

\* The dialogue stays open when the server refuses.
BookSaved(s) ==
  Saved("books", s, IF req[s].answer.ok THEN EditClosed(s) ELSE dialog)

\* Delete disables the row's buttons while it is pending.
RemoveBook(i) == Remove("books", i, busy \cup {i})
BookRemoved(s) == Removed("books", s, Released(s))

BooksNext ==
  \/ \E f \in Key \cup {Blank} : BooksSearch(f)
  \/ BooksTurn
  \/ NewBook
  \/ \E val \in Key : CreateBook(val) \/ SaveBook(val)
  \/ \E i \in Id : EditBook(i) \/ RemoveBook(i)

BooksAnswer(s) == BooksLoad(s) \/ BookCreated(s) \/ BookSaved(s) \/ BookRemoved(s)

-----------------------------------------------------------------------------
(* Members *)

MembersLoad(s) == ListArrives(s, "members", <<>>)
MembersSearch(f) == Filter("members", f)
MembersTurn == Turn("members")

NewMember == view = "members" /\ Open([kind |-> "create"])
CreateMember(val) == Create("members", val)
MemberCreated(s) == Created("members", s)

EditMember(i) == Edit("members", i)
SaveMember(val) == Save("members", val)

\* onUpdate swallows the error, so the dialogue closes in any case.
MemberSaved(s) == Saved("members", s, EditClosed(s))

\* onDelete belongs to the page: no flag is set.
RemoveMember(i) == Remove("members", i, busy)
MemberRemoved(s) == Removed("members", s, busy)

MembersNext ==
  \/ \E f \in Key \cup {Blank} : MembersSearch(f)
  \/ MembersTurn
  \/ NewMember
  \/ \E val \in Key : CreateMember(val) \/ SaveMember(val)
  \/ \E i \in Id : EditMember(i) \/ RemoveMember(i)

MembersAnswer(s) ==
  MembersLoad(s) \/ MemberCreated(s) \/ MemberSaved(s) \/ MemberRemoved(s)

-----------------------------------------------------------------------------
(* Borrowings *)

LoansLoad(s) == ListArrives(s, "loans", <<>>)
LoansFilter(f) == Filter("loans", f)
LoansSort == Sort("loans")
LoansTurn == Turn("loans")

\* The Return button of a row.
ReturnOffered(row) == row.val = "borrowed"
OpenReturn(i) ==
  /\ view = "loans"
  /\ i \in DOMAIN rows
  /\ ReturnOffered(rows[i])
  /\ Open([kind |-> "return", id |-> rows[i].id])

\* Confirm Return stays enabled while its request is pending.
ConfirmReturn ==
  /\ view = "loans"
  /\ dialog.kind = "return"
  /\ Send(Request("return", query, dialog.id, Blank))
  /\ UNCHANGED <<view, table, issued, page_vars, patched>>

\* return! does not ask whether the loan is open.
ServeReturn(s) ==
  Carry(s, "return", req[s].id \in DOMAIN table, With(req[s].id, "returned"),
        "returned")

\* setReturningId(null) closes whichever return dialogue is open.
ReturnClosed == IF dialog.kind = "return" THEN Closed ELSE dialog

\* onReturn awaits load(), which asks with the query of the render in which
\* Confirm was clicked; or an alert.
ReturnArrives(s) ==
  /\ Answered(s, "loans", {"return"})
  /\ IF req[s].answer.ok
     THEN /\ req' = [req EXCEPT ![s] = NextList(s, "reload", req[s].query)]
          /\ dialog' = dialog
     ELSE /\ req' = Over(s)
          /\ dialog' = IF req[s].here THEN ReturnClosed ELSE dialog
  /\ UNCHANGED <<view, table, issued, query, rows, timer, busy, done,
                 patched, disturbed>>

\* The reloaded list arrives, and Confirm's handler goes on.
ReloadArrives(s) ==
  /\ Answered(s, "loans", {"reload"})
  /\ IF req[s].here
     THEN /\ ShowRows(req[s].answer.rows, ReturnClosed, busy, done, Over(s))
          /\ patched' = FALSE
          /\ disturbed' = (disturbed \/ Overtaken(s))
     ELSE /\ req' = Over(s)
          /\ UNCHANGED <<rows, dialog, busy, done, patched, disturbed>>
  /\ UNCHANGED <<view, table, issued, query, timer>>

LoansNext ==
  \/ \E f \in Chosen \cup {Blank} : LoansFilter(f)
  \/ LoansSort
  \/ LoansTurn
  \/ \E i \in DOMAIN rows : OpenReturn(i)
  \/ ConfirmReturn

LoansAnswer(s) == LoansLoad(s) \/ ReturnArrives(s) \/ ReloadArrives(s)

-----------------------------------------------------------------------------
(* Dashboard *)

\* The figures; a failure leaves them as they were.
DeskLoad(s) == ListArrives(s, "desk", rows)

\* handleMarkOverdue, confirmed.
MarkOverdue ==
  /\ view = "desk"
  /\ Send(Call("mark", 0, Blank))
  /\ UNCHANGED <<view, table, issued, page_vars, patched>>

\* OverdueService.
ServeMark(s) ==
  Carry(s, "mark", TRUE,
        [i \in DOMAIN table |->
           IF i \in Due /\ table[i] = "borrowed" THEN "overdue" ELSE table[i]],
        Blank)

\* The figures are asked for again, or an alert.
MarkArrives(s) ==
  /\ Answered(s, "desk", {"mark"})
  /\ req' = IF req[s].answer.ok
            THEN [req EXCEPT ![s] = NextList(s, "list", query)]
            ELSE Over(s)
  /\ UNCHANGED <<view, table, issued, page_vars, patched, disturbed>>

DeskNext == MarkOverdue
DeskAnswer(s) == DeskLoad(s) \/ MarkArrives(s)

ServeLibrarian(s) ==
  ServeCreate(s) \/ ServeSave(s) \/ ServeRemove(s) \/ ServeReturn(s) \/ ServeMark(s)
=============================================================================
