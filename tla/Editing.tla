------------------------------- MODULE Editing ------------------------------
(***************************************************************************)
(* The librarian's Books and Members pages: creating, editing and deleting *)
(* rows beside the list.                                                   *)
(***************************************************************************)
EXTENDS ListPage

\* The content of the rows is what must be unique: ISBN or e-mail.
Unused(key, i) == \A j \in DOMAIN table \ {i} : table[j] # key

Without(i) == [j \in DOMAIN table \ {i} |-> table[j]]
With(i, val) ==
  [j \in DOMAIN table \cup {i} |-> IF j = i THEN val ELSE table[j]]

-----------------------------------------------------------------------------
(* The server *)

ServeCreate(s) ==
  \E i \in Id \ issued :
    /\ \A j \in issued : j < i
    /\ Carry(s, "create", Unused(req[s].val, i), With(i, req[s].val), i)
ServeSave(s) ==
  Carry(s, "save",
        req[s].id \in DOMAIN table /\ Unused(req[s].val, req[s].id),
        With(req[s].id, req[s].val), req[s].val)
ServeRemove(s) ==
  Carry(s, "remove", req[s].id \in DOMAIN table, Without(req[s].id), Blank)

-----------------------------------------------------------------------------
(* What both pages do *)

Creating == dialog.kind = "create"

\* Create sends the form as it was filled in; a form with a blank field is not
\* sent.  The button stays enabled while the request is pending.
Create(v, val) ==
  /\ view = v
  /\ Creating
  /\ Send(Call("create", 0, val))
  /\ UNCHANGED <<view, table, issued, page_vars, patched>>

\* The created row goes to the top of whatever list is shown by now.
Created(v, s) ==
  /\ Answered(s, v, {"create"})
  /\ IF req[s].here /\ req[s].answer.ok
     THEN /\ ShowRows(<<[id |-> req[s].answer.val, val |-> req[s].val]>> \o rows,
                      IF Creating THEN Closed ELSE dialog, busy, done, Over(s))
          /\ patched' = TRUE
     ELSE /\ req' = Over(s)
          /\ UNCHANGED <<rows, dialog, busy, done, patched>>
  /\ UNCHANGED <<view, table, issued, query, timer, disturbed>>

\* Edit opens the form of a row, filled with the row as it is shown.
Edit(v, i) ==
  /\ view = v
  /\ i \in IdsOf(rows)
  /\ Open([kind |-> "edit", id |-> i])

\* Save sends every field of the form.
Save(v, val) ==
  /\ view = v
  /\ dialog.kind = "edit"
  /\ dialog.id \notin busy
  /\ busy' = busy \cup {dialog.id}
  /\ Send(Call("save", dialog.id, val))
  /\ UNCHANGED <<view, table, issued, query, rows, timer, dialog, done, patched>>

Replaced(i, val) ==
  [n \in DOMAIN rows |-> IF rows[n].id = i THEN [id |-> i, val |-> val]
                         ELSE rows[n]]

\* setEditing(false) of row i, if the row that called it is still there.
EditClosed(s) ==
  IF req[s].live /\ dialog.kind = "edit" /\ dialog.id = req[s].id
  THEN Closed ELSE dialog

\* Mutant: without finally.
ReleasedIfAccepted(s) ==
  IF req[s].live /\ req[s].answer.ok THEN busy \ {req[s].id} ELSE busy

\* finally { setLoading(false) }.
Released(s) == IF req[s].live THEN busy \ {req[s].id} ELSE busy

\* An answer to a save: the row, what becomes of the dialogue, the flag.
Saved(v, s, dlg) ==
  /\ Answered(s, v, {"save"})
  /\ IF req[s].here
     THEN ShowRows(IF req[s].answer.ok THEN Replaced(req[s].id, req[s].val)
                   ELSE rows,
                   dlg, Released(s), done, Over(s))
          /\ patched' = (patched \/ req[s].answer.ok)
     ELSE /\ req' = Over(s)
          /\ UNCHANGED <<rows, dialog, busy, done, patched>>
  /\ UNCHANGED <<view, table, issued, query, timer, disturbed>>

\* Delete, confirmed.
Remove(v, i, flags) ==
  /\ view = v
  /\ i \in IdsOf(rows) \ busy
  /\ busy' = flags
  /\ Send(Call("remove", i, Blank))
  /\ UNCHANGED <<view, table, issued, query, rows, timer, dialog, done,
                 patched>>

\* The rows but row i, in their order.
RowsWithout(i) ==
  {[n \in DOMAIN o |-> rows[o[n]]] :
     o \in {p \in Orders({n \in DOMAIN rows : rows[n].id # i}) :
              \A m, n \in DOMAIN p : m < n => p[m] < p[n]}}

Removed(v, s, flags) ==
  /\ Answered(s, v, {"remove"})
  /\ IF req[s].here
     THEN /\ \E list \in IF req[s].answer.ok THEN RowsWithout(req[s].id) ELSE {rows} :
               ShowRows(list, dialog, flags, done, Over(s))
          /\ patched' = (patched \/ req[s].answer.ok)
     ELSE /\ req' = Over(s)
          /\ UNCHANGED <<rows, dialog, busy, done, patched>>
  /\ UNCHANGED <<view, table, issued, query, timer, disturbed>>
=============================================================================
