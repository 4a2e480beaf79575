----------------------------- MODULE MemberPages ----------------------------
(***************************************************************************)
(* pages/member: Books with its BorrowButtons, Borrowings, and the search  *)
(* of the dashboards.  None of them handles an error of its list.          *)
(***************************************************************************)
EXTENDS ListPage

-----------------------------------------------------------------------------
(* Borrowings *)

OwnLoad(s) == ListArrives(s, "own", rows)
OwnFilter(f) == Filter("own", f)
OwnSort == Sort("own")
OwnTurn == Turn("own")

OwnNext ==
  \/ \E f \in Chosen \cup {Blank} : OwnFilter(f)
  \/ OwnSort
  \/ OwnTurn

-----------------------------------------------------------------------------
(* Books and BorrowButton *)

\* A search shows its results while the field is not empty.
Screen == IF BlankSearch THEN <<>> ELSE rows

ShelfLoad(s) == ListArrives(s, "shelf", rows)
ShelfSearch(f) == Filter("shelf", f)
ShelfTurn == Turn("shelf")

\* Mutant: Borrow is not disabled.
OpenBorrowAnyTime(i) ==
  /\ view \in Shelves
  /\ i \in Components(Screen) \ done
  /\ Open([kind |-> "borrow", id |-> i, note |-> ""])

\* Borrow is disabled while a request of the button is pending, and gives way to
\* "N/A" once one has succeeded.
OpenBorrow(i) ==
  /\ view \in Shelves
  /\ i \in Components(Screen) \ (busy \cup done)
  /\ Open([kind |-> "borrow", id |-> i, note |-> ""])

ConfirmBorrow ==
  /\ dialog.kind = "borrow"
  /\ dialog.note # "borrowed"
  /\ dialog.id \notin busy
  /\ busy' = busy \cup {dialog.id}
  /\ Send(Call("borrow", dialog.id, Blank))
  /\ UNCHANGED <<view, table, issued, query, rows, timer, dialog, done,
                 patched>>

\* BorrowingsController#create.
ServeBorrow(s) ==
  Carry(s, "borrow", req[s].id \in DOMAIN table /\ table[req[s].id] = "offered",
        [table EXCEPT ![req[s].id] = "mine"], "mine")

\* A message is seen if the button's dialogue is open.
Noted(s, note) ==
  IF dialog.kind = "borrow" /\ dialog.id = req[s].id
  THEN [dialog EXCEPT !.note = note] ELSE dialog

\* Mutant: the button gives way whatever the answer is.
BorrowAssumed(s) ==
  /\ \E v \in Shelves : Answered(s, v, {"borrow"})
  /\ req' = Over(s)
  /\ IF req[s].here /\ req[s].live
     THEN /\ busy' = busy \ {req[s].id}
          /\ done' = done \cup {req[s].id}
          /\ dialog' = Noted(s, IF req[s].answer.ok THEN "borrowed" ELSE "error")
     ELSE UNCHANGED <<busy, dialog, done>>
  /\ UNCHANGED <<view, table, issued, query, rows, timer, patched, disturbed>>

BorrowArrives(s) ==
  /\ \E v \in Shelves : Answered(s, v, {"borrow"})
  /\ req' = Over(s)
  /\ IF req[s].here /\ req[s].live
     THEN /\ busy' = busy \ {req[s].id}
          /\ IF req[s].answer.ok
             THEN dialog' = Noted(s, "borrowed") /\ done' = done \cup {req[s].id}
             ELSE dialog' = Noted(s, "error") /\ done' = done
     ELSE UNCHANGED <<busy, dialog, done>>
  /\ UNCHANGED <<view, table, issued, query, rows, timer, patched, disturbed>>

ShelfNext ==
  \/ \E f \in Id \cup {Blank} : ShelfSearch(f)
  \/ ShelfTurn
  \/ \E i \in Id : OpenBorrow(i)
  \/ ConfirmBorrow

ShelfAnswer(s) == ShelfLoad(s) \/ BorrowArrives(s)

-----------------------------------------------------------------------------
(* The dashboards' search *)

\* Typing starts the timer anew; an empty field empties the list, and so unmounts
\* its BorrowButtons.
QuickType(f) ==
  /\ view \in Searches
  /\ f \in Filters \ {query.filter}
  /\ query' = [query EXCEPT !.filter = f]
  /\ timer' = (f # Blank)
  /\ ShowRows(IF f = Blank THEN <<>> ELSE rows, dialog, busy, done, req)
  /\ UNCHANGED <<view, table, issued, patched, disturbed>>

\* 300 ms have passed.  Nothing is cancelled once it has been sent.
QuickSend ==
  /\ timer
  /\ timer' = FALSE
  /\ Send(ListRequest("list", query))
  /\ UNCHANGED <<view, table, issued, query, rows, dialog, busy, done,
                 patched>>

QuickLoad(s) == \E v \in Searches : ListArrives(s, v, rows)
=============================================================================
