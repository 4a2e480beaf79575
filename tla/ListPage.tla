------------------------------ MODULE ListPage ------------------------------
(***************************************************************************)
(* What the pages with a list have in common: the query, the rows, the     *)
(* requests in flight, the dialogues over the list, and the server's table *)
(* behind it.  One page is shown at a time: `view` says which.             *)
(*                                                                         *)
(* A request is served in one atomic step, as the lending desk serves it;  *)
(* requests are served and answered in any order, and any can be lost.     *)
(* Nothing on these pages cancels a request.                               *)
(***************************************************************************)
EXTENDS Integers, Sequences, FiniteSets

CONSTANTS
  Id,         \* ids of rows, in the order in which they were given out
  Date,       \* Date[c][i]: what row i has in column c, a date
  Key,        \* what a form edits: the ISBN of a book, the e-mail of a member
  Blank,      \* no search text, no filter
  Views,      \* the pages of the instance
  Due,        \* the loans whose due date has passed
  Chosen,     \* bound: the statuses anybody filters by
  PageSize,   \* rows of a page; 25 in the code
  LastPage,   \* bound: the last page anybody turns to
  MaxFlight,  \* bound: requests in flight at one time
  Pending     \* not answered yet

View == {"books", "members", "loans", "own", "shelf", "search", "quick", "desk"}

\* The pages with BorrowButtons, and those with a search that is typed: "search" is
\* the librarian's dashboard, "quick" the member's, which has both.
Shelves == {"shelf", "quick"}
Searches == {"search", "quick"}
Status == {"borrowed", "overdue", "returned"}

\* The columns by which loans can be sorted; members are by created_at.
Column == {"borrowed_at", "due_date"}

ASSUME ListAssumption ==
  /\ Id \subseteq Nat \ {0}
  /\ Views \subseteq View
  /\ Chosen \subseteq Status
  /\ PageSize \in Nat \ {0}
  /\ LastPage \in Nat \ {0}
  /\ MaxFlight \in Nat \ {0}

ASSUME DateAssumption == Date \in [Column \cup {"created_at"} -> [Id -> Nat]]

VARIABLES
  view,       \* the page that is shown
  table,      \* the server's table behind it: id -> content
  issued,     \* ids the table has given out
  query,      \* search text or status filter, page, sorting
  rows,       \* the list in the page's state
  timer,      \* a search waits for its 300 ms to pass
  dialog,     \* the dialogue that is open
  busy,       \* rows whose `loading` flag is set
  done,       \* rows whose BorrowButton has succeeded
  req,        \* req[s]: a request in flight
  patched,    \* history: the list was edited locally since it was loaded
  disturbed   \* history: why page and server may disagree has happened

page_vars == <<query, rows, timer, dialog, busy, done>>
vars == <<view, table, issued, page_vars, req, patched, disturbed>>

-----------------------------------------------------------------------------
(* Types *)

\* can_borrow for the reader, and why not.
Availability == {"offered", "taken", "mine"}

Content ==
  CASE view \in {"books", "members", "search"} -> Key
    [] view \in {"loans", "own", "desk"}       -> Status
    [] view \in Shelves                        -> Availability

Direction == {"asc", "desc"}

\* A search text is told by what it finds: rows with that content, or on the
\* member's lists of books that one book.  Statuses are compared as they are.
Filters == {Blank} \cup IF view \in Shelves THEN Id ELSE Content
Query ==
  [filter : Filters, page : 1..LastPage, sort : Column, dir : Direction]
Row == [id : Id, val : Content]

Closed == [kind |-> "closed"]
Dialog ==
  {Closed} \cup [kind : {"create"}]
    \cup [kind : {"edit", "return"}, id : Id]
    \cup [kind : {"borrow"}, id : Id, note : {"", "error", "borrowed"}]

\* `here`: the page that sent it is still mounted; `live`: so is the row;
\* `asked`: so is the dialogue.
Slot == 1..MaxFlight
Idle == [kind |-> "idle"]
ListKind == {"list", "reload"}
CallKind == {"create", "save", "remove", "return", "mark", "borrow"}
IsRequest(r) ==
  /\ r.kind \in ListKind \cup CallKind
  /\ r.query \in Query
  /\ r.id \in Id \cup {0} /\ r.val \in Content \cup {Blank}
  /\ {r.here, r.live, r.asked} \subseteq BOOLEAN
  /\ r.answer # Pending =>
       r.answer.ok \in BOOLEAN /\ r.answer.rows \in Seq(Row)

\* A request that is not answered yet has none of the answers there are.
AnyContent == Key \cup Status \cup Availability
AnswersWith(vals) ==
  [ok : BOOLEAN, rows : Seq([id : Id, val : AnyContent]), val : vals]
ASSUME PendingAssumption ==
  Pending \notin AnswersWith(AnyContent \cup {Blank}) \cup AnswersWith(Id)

TypeOK ==
  /\ view \in Views
  /\ issued \subseteq Id
  /\ DOMAIN table \subseteq issued
  /\ \A i \in DOMAIN table : table[i] \in Content
  /\ query \in Query
  /\ rows \in Seq(Row)
  /\ timer \in BOOLEAN
  /\ dialog \in Dialog
  /\ busy \subseteq Id
  /\ done \subseteq Id
  /\ \A s \in Slot : req[s] = Idle \/ IsRequest(req[s])
  /\ {patched, disturbed} \subseteq BOOLEAN

-----------------------------------------------------------------------------
(* The server's answer to a list request *)

Matching(q) ==
  {i \in DOMAIN table :
     q.filter \in {Blank, IF view \in Shelves THEN i ELSE table[i]}}

Orders(S) ==
  {o \in [1..Cardinality(S) -> S] : \A i, j \in DOMAIN o : o[i] = o[j] => i = j}

\* Loans are sorted by a date and then by id, both in the direction asked for.
Earlier(i, j, c) ==
  Date[c][i] < Date[c][j] \/ (Date[c][i] = Date[c][j] /\ i < j)
Ahead(i, j, q) ==
  IF q.dir = "asc" THEN Earlier(i, j, q.sort) ELSE Earlier(j, i, q.sort)
Sorted(o, q) == \A i, j \in DOMAIN o : i < j => Ahead(o[i], o[j], q)

\* The newest members come first, those of one date in any order; the list of
\* books has no ORDER BY.
NewestFirst(o) ==
  \A i, j \in DOMAIN o :
    i < j => Date["created_at"][o[i]] >= Date["created_at"][o[j]]

OrdersFor(q) ==
  {o \in Orders(Matching(q)) :
     /\ view \in {"loans", "own", "desk"} => Sorted(o, q)
     /\ view = "members" => NewestFirst(o)}

\* LIMIT and OFFSET; the dashboard's figures cover every loan.
Window(o, q) ==
  IF view = "desk" THEN o
  ELSE SubSeq(o, (q.page - 1) * PageSize + 1,
              IF q.page * PageSize < Len(o) THEN q.page * PageSize ELSE Len(o))

Lists(q) ==
  {[i \in DOMAIN w |-> [id |-> w[i], val |-> table[w[i]]]] :
     w \in {Window(o, q) : o \in OrdersFor(q)}}

-----------------------------------------------------------------------------
(* Requests *)

Free(r, s) == r[s] = Idle /\ \A t \in Slot : r[t] = Idle => s <= t

Request(kind, q, id, val) ==
  [kind |-> kind, query |-> q, id |-> id, val |-> val,
   here |-> TRUE, live |-> TRUE, asked |-> TRUE, answer |-> Pending]
ListRequest(kind, q) == Request(kind, q, 0, Blank)
Call(kind, id, val) ==
  Request(kind, [filter |-> Blank, page |-> 1, sort |-> "borrowed_at", dir |-> "asc"],
          id, val)

Good(list, val) == [ok |-> TRUE, rows |-> list, val |-> val]
Bad == [ok |-> FALSE, rows |-> <<>>, val |-> Blank]

\* Requests are sent beside one that changes the table.
Overlap(r) ==
  \E s, t \in Slot :
    s # t /\ r[s] # Idle /\ r[t] # Idle /\ r[s].kind \in CallKind

Send(r) ==
  /\ \E s \in Slot : Free(req, s) /\ req' = [req EXCEPT ![s] = r]
  /\ disturbed' = (disturbed \/ Overlap(req'))

Answered(s, v, kinds) ==
  /\ req[s] # Idle
  /\ view = v
  /\ req[s].kind \in kinds
  /\ req[s].answer # Pending

AnswerList(s) ==
  /\ req[s] # Idle /\ req[s].answer = Pending
  /\ req[s].kind \in ListKind
  /\ \E l \in Lists(req[s].query) :
       req' = [req EXCEPT ![s].answer = Good(l, Blank)]
  /\ UNCHANGED <<view, table, issued, page_vars, patched, disturbed>>

\* A call is carried out, or refused without effect.
Carry(s, kind, ok, new_table, val) ==
  /\ req[s] # Idle /\ req[s].answer = Pending
  /\ req[s].kind = kind
  /\ \/ ok /\ table' = new_table
        /\ req' = [req EXCEPT ![s].answer = Good(<<>>, val)]
     \/ table' = table
        /\ req' = [req EXCEPT ![s].answer = Bad]
  /\ issued' = issued \cup DOMAIN table'
  /\ UNCHANGED <<view, page_vars, patched, disturbed>>

\* The request or its answer is lost.
Lose(s) ==
  /\ req[s] # Idle
  /\ req[s].answer # Bad
  /\ req' = [req EXCEPT ![s].answer = Bad]
  /\ disturbed' = TRUE
  /\ UNCHANGED <<view, table, issued, page_vars, patched>>

-----------------------------------------------------------------------------
(* The list *)

IdsOf(list) == {list[i].id : i \in DOMAIN list}

\* The rows that have a component of their own; a BorrowButton is there only
\* while the row says can_borrow.
Components(list) ==
  {list[i].id : i \in {j \in DOMAIN list :
                         view \in Shelves => list[j].val = "offered"}}

\* The list becomes `list`: React unmounts the components of rows that went,
\* with their flags and their dialogue, and their requests have nobody to tell.
ShowRows(list, dlg, flags, borrowed, r) ==
  LET stay == Components(list)
  IN  /\ rows' = list
      /\ dialog' = IF dlg.kind \in {"edit", "borrow"} /\ dlg.id \notin stay
                   THEN Closed ELSE dlg
      /\ busy' = flags \cap stay
      /\ done' = borrowed \cap stay
      /\ req' = [s \in Slot |->
                   IF r[s] # Idle /\ r[s].id \notin stay \cup {0}
                   THEN [r[s] EXCEPT !.live = FALSE] ELSE r[s]]

Over(s) == [req EXCEPT ![s] = Idle]

\* A handler that goes on to ask for the list does so after an unmount as well.
NextList(s, kind, q) == [ListRequest(kind, q) EXCEPT !.here = req[s].here]

\* The search has a field that is empty: no list is asked for, none is shown.
BlankSearch == view \in Searches /\ query.filter = Blank

\* The list on screen no longer waits for the answer to its query.
Overtaken(s) ==
  /\ req[s].query # query
  /\ ~ timer /\ ~ BlankSearch
  /\ \A t \in Slot \ {s} :
       req[t] # Idle =>
         ~ (req[t].kind \in ListKind /\ req[t].here /\ req[t].query = query)

\* A list arrives; `on_error` is what the page shows when it does not come.
ListArrives(s, v, on_error) ==
  /\ Answered(s, v, {"list"})
  /\ IF req[s].here
     THEN /\ ShowRows(IF req[s].answer.ok THEN req[s].answer.rows ELSE on_error,
                      dialog, busy, done, Over(s))
          /\ patched' = FALSE
          /\ disturbed' = (disturbed \/ Overtaken(s))
     ELSE /\ req' = Over(s)
          /\ UNCHANGED <<rows, dialog, busy, done, patched, disturbed>>
  /\ UNCHANGED <<view, table, issued, query, timer>>

\* Mutant: the effect does not depend on what changed.
AskQuietly(q) ==
  /\ q # query
  /\ query' = q
  /\ UNCHANGED <<view, table, issued, rows, timer, dialog, busy, done, req,
                 patched, disturbed>>

\* The effect on [q, page, sort, ...]: a changed query is sent at once, behind a
\* dialogue too, which leaves the page's fields to the keyboard.
Ask(q) ==
  /\ q # query
  /\ query' = q
  /\ Send(ListRequest("list", q))
  /\ UNCHANGED <<view, table, issued, rows, timer, dialog, busy, done,
                 patched>>

\* onChange of a search field or filter: the first page again.
Filter(v, f) ==
  /\ view = v
  /\ Ask([query EXCEPT !.filter = f, !.page = 1])

\* A click on the header of a column turns its direction round, or sorts by it in
\* its first direction.
Turned == IF query.dir = "asc" THEN "desc" ELSE "asc"
FirstDirection(c) == IF c = "due_date" THEN "asc" ELSE "desc"
Sort(v) ==
  /\ view = v
  /\ \E c \in Column :
       Ask([query EXCEPT !.page = 1, !.sort = c,
              !.dir = IF c = query.sort THEN Turned ELSE FirstDirection(c)])

\* Mutant: a full page is taken for the last one.
PagerShownWhenOverfull == query.page > 1 \/ Len(rows) > PageSize

\* The pager, shown beyond the first page or when the page is exactly full.
PagerShown == query.page > 1 \/ Len(rows) = PageSize
NextEnabled == PagerShown /\ Len(rows) >= PageSize
PrevEnabled == PagerShown /\ query.page > 1

\* Mutant: Prev is not disabled on the first page.
TurnFreely(v) ==
  /\ view = v
  /\ PagerShown
  /\ \/ query.page < LastPage /\ Ask([query EXCEPT !.page = @ + 1])
     \/ Ask([query EXCEPT !.page = @ - 1])

Turn(v) ==
  /\ view = v
  /\ \/ /\ NextEnabled
        /\ query.page < LastPage
        /\ Ask([query EXCEPT !.page = @ + 1])
     \/ PrevEnabled /\ Ask([query EXCEPT !.page = @ - 1])

-----------------------------------------------------------------------------
(* Dialogues *)

\* One dialogue at a time: what a second one over the first does is left out.
Open(d) ==
  /\ dialog = Closed
  /\ dialog' = d
  /\ UNCHANGED <<view, table, issued, query, rows, timer, busy, done, req,
                 patched, disturbed>>

\* Cancel, Escape and the backdrop; Escape and the backdrop work while a request
\* is pending.
Close ==
  /\ dialog # Closed
  /\ dialog' = Closed
  /\ req' = [s \in Slot |-> IF req[s] = Idle THEN Idle
                            ELSE [req[s] EXCEPT !.asked =
                                    @ /\ req[s].kind # "borrow"]]
  /\ UNCHANGED <<view, table, issued, query, rows, timer, busy, done,
                 patched, disturbed>>
=============================================================================
