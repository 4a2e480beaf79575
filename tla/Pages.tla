-------------------------------- MODULE Pages -------------------------------
(***************************************************************************)
(* The pages together: the route decides which is shown, other people      *)
(* change the tables behind it, and the user comes and goes.               *)
(***************************************************************************)
EXTENDS LibrarianPages, MemberPages

\* RoleRoute and the router: the pages of each role.
PagesOf(role) ==
  IF role = "librarian" THEN {"books", "members", "loans", "desk", "search"}
  ELSE {"own", "shelf", "quick"}

FirstQuery(f) ==
  [filter |-> f, page |-> 1, sort |-> "borrowed_at",
   dir |-> IF view \in {"loans", "own", "members"} THEN "desc" ELSE "asc"]

\* The status of ?status=, on the two pages that read it.
AskedFor == IF view \in {"loans", "own"} THEN Chosen \cup {Blank} ELSE {Blank}

Init ==
  /\ view \in Views \cap (PagesOf("librarian") \cup PagesOf("member"))
  /\ \E ids \in SUBSET Id : IsFiniteSet(ids) /\ table \in [ids -> Content]
  /\ view \in {"books", "members", "search"} =>
       \A i, j \in DOMAIN table : table[i] = table[j] => i = j
  /\ issued = DOMAIN table
  /\ \E f \in AskedFor : query = FirstQuery(f)
  /\ rows = <<>>
  /\ timer = FALSE
  /\ dialog = Closed
  /\ busy = {}
  /\ done = {}
  /\ req = [s \in Slot |-> IF s = 1 /\ view \notin Searches
                           THEN ListRequest("list", query) ELSE Idle]
  /\ patched = FALSE
  /\ disturbed = FALSE

\* What was sent and changes the table still will, and its handler goes on; for lists,
\* and for answers that are there already, nobody is left.
Unmount(r) ==
  IF r # Idle /\ r.kind \in CallKind /\ r.answer = Pending
  THEN [r EXCEPT !.query = FirstQuery(Blank), !.here = FALSE, !.live = FALSE, !.asked = FALSE]
  ELSE Idle

\* The user goes to another page and comes back: fresh state, a fresh list.
Visit(f) ==
  LET left == [s \in Slot |-> Unmount(req[s])]
      asks == ListRequest("list", FirstQuery(f))
  IN  /\ f \in AskedFor
      /\ query' = FirstQuery(f)
      /\ rows' = <<>>
      /\ timer' = FALSE
      /\ dialog' = Closed
      /\ busy' = {}
      /\ done' = {}
      /\ IF view \in Searches THEN req' = left
         ELSE \E s \in Slot : Free(left, s) /\ req' = [left EXCEPT ![s] = asks]
      /\ patched' = FALSE
      /\ disturbed' = Overlap(req')
      /\ UNCHANGED <<view, table, issued>>

\* A loan is borrowed, then overdue or not, then returned.
Follows(old, new) ==
  view \in {"loans", "own", "desk"} =>
    \/ old = "borrowed" /\ new \in {"overdue", "returned"}
    \/ old = "overdue" /\ new = "returned"

\* Somebody else adds, changes or removes a row.
Others ==
  /\ \/ \E i \in Id \ issued, val \in Content :
          /\ \A j \in issued : j < i
          /\ view \in {"loans", "own", "desk"} => val = "borrowed"
          /\ table' = With(i, val)
     \/ \E i \in DOMAIN table, val \in Content :
          Follows(table[i], val) /\ table' = With(i, val)
     \/ \E i \in DOMAIN table : table' = Without(i)
  /\ view \in {"books", "members", "search"} =>
       \A i, j \in DOMAIN table' : table'[i] = table'[j] => i = j
  /\ issued' = issued \cup DOMAIN table'
  /\ disturbed' = TRUE
  /\ UNCHANGED <<view, page_vars, req, patched>>

Serve(s) == AnswerList(s) \/ ServeLibrarian(s) \/ ServeBorrow(s)

Deliver(s) ==
  \/ BooksAnswer(s) \/ MembersAnswer(s) \/ LoansAnswer(s) \/ DeskAnswer(s)
  \/ OwnLoad(s) \/ ShelfAnswer(s) \/ QuickLoad(s)

Next ==
  \/ BooksNext \/ MembersNext \/ LoansNext \/ DeskNext
  \/ OwnNext \/ ShelfNext
  \/ \E f \in Filters : QuickType(f)
  \/ QuickSend
  \/ Close
  \/ \E f \in Chosen \cup {Blank} : Visit(f)
  \/ Others
  \/ \E s \in Slot : Serve(s) \/ Deliver(s) \/ Lose(s)

Spec == Init /\ [][Next]_vars

-----------------------------------------------------------------------------
(* Properties *)

AtRest == ~ timer /\ \A s \in Slot : req[s] = Idle

\* What a row says on the screen.
Displayed(row) == IF row.id \in done THEN "mine" ELSE row.val

\* At rest no row shows anything but what the server has, whatever was created,
\* saved, deleted, returned or borrowed from the page, accepted or refused, unless
\* others changed the table, an answer was lost, a change ran beside another
\* request, or a list was overtaken by an older one since the page was opened.
RowsAreCurrent ==
  AtRest /\ ~ disturbed =>
    \A i \in DOMAIN Screen :
      /\ Screen[i].id \in DOMAIN table
      /\ Displayed(Screen[i]) = table[Screen[i].id]

\* Likewise a list that was not edited locally is an answer to the query on the
\* screen: search text, filter, direction and page.
ListAnswersQuery ==
  AtRest /\ ~ disturbed /\ ~ patched /\ done = {}
    /\ ~ BlankSearch
    => rows \in Lists(query)

\* And when there are more rows than fit, the pager leads to them.
MoreIsReachable ==
  AtRest /\ ~ disturbed /\ ~ patched /\ done = {} /\ view \notin Searches \cup {"desk"}
    /\ Cardinality(Matching(query)) > query.page * PageSize
    => NextEnabled

\* The answer to a borrow request is never shown in a dialogue opened after the
\* one that sent it was closed (BorrowButton: disabled={loading}).
AnswerMeetsItsDialog ==
  \A s \in Slot :
    /\ req[s] # Idle
    /\ req[s].kind = "borrow" /\ req[s].here /\ req[s].live
    /\ dialog.kind = "borrow" /\ dialog.id = req[s].id
    => req[s].asked

\* A request whose answer unlocks row i; the members' page does not lock a row
\* that it deletes.
Locks(s, i) ==
  /\ req[s] # Idle
  /\ req[s].here /\ req[s].live
  /\ req[s].id = i
  /\ \/ req[s].kind \in {"save", "borrow"}
     \/ req[s].kind = "remove" /\ view = "books"

\* A row is locked only while one request of its own is in flight, and the answer
\* that will unlock it, whatever it says, finds the row mounted: Save, Delete and
\* Borrow are never left disabled, and never sent twice.
LockedRowsAreAwaited ==
  \A i \in busy :
    /\ \E s \in Slot : Locks(s, i)
    /\ \A s, t \in Slot : Locks(s, i) /\ Locks(t, i) => s = t

\* At rest every open loan on the screen can be returned from there.
OpenLoansReturnable ==
  AtRest /\ view = "loans" =>
    \A i \in DOMAIN rows : rows[i].val # "returned" => ReturnOffered(rows[i])
=============================================================================
