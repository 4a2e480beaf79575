--------------------------- MODULE CurrencyProofs ---------------------------
(***************************************************************************)
(* What the pages show is what the server has, for any rows, any contents  *)
(* and any number of requests in flight.                                   *)
(***************************************************************************)
EXTENDS PagesProofs, FiniteSetTheorems

USE ListAssumption DEF ListAssumption

-----------------------------------------------------------------------------
(* Lists *)

\* An order of finitely many rows is a sequence of them.
LEMMA OrdersTyped ==
  ASSUME NEW S, IsFiniteSet(S), NEW o \in Orders(S)
  PROVE  /\ o \in Seq(S)
         /\ Len(o) = Cardinality(S)
         /\ Cardinality(S) \in Nat
<1>1. Cardinality(S) \in Nat
  BY FS_CardinalityType
<1>2. o \in [1..Cardinality(S) -> S]
  BY DEF Orders
<1> QED
  BY <1>1, <1>2

\* So is what LIMIT and OFFSET leave of it.
LEMMA WindowTyped ==
  ASSUME NEW S, NEW o \in Seq(S), NEW q \in Query
  PROVE  Window(o, q) \in Seq(S)
<1> DEFINE first == (q.page - 1) * PageSize + 1
           last  == IF q.page * PageSize < Len(o) THEN q.page * PageSize
                    ELSE Len(o)
<1>1. q.page \in Nat /\ q.page >= 1
  BY DEF Query
<1>2. (q.page - 1) * PageSize \in Nat /\ q.page * PageSize \in Nat
  BY <1>1
<1>3. first \in Int /\ first >= 1 /\ last \in Int /\ last <= Len(o)
  BY <1>2
<1> HIDE DEF first, last
<1>4. SubSeq(o, first, last) \in Seq(S)
  BY <1>3
<1> QED
  BY <1>4 DEF Window, first, last

\* The server lists rows it has, as it has them.
LEMMA ListsCurrent ==
  ASSUME IsFiniteSet(DOMAIN table), NEW q \in Query, NEW l \in Lists(q)
  PROVE  /\ l \in Seq([id : DOMAIN table, val : {table[i] : i \in DOMAIN table}])
         /\ \A n \in DOMAIN l : l[n].id \in DOMAIN table /\ l[n].val = table[l[n].id]
<1>1. PICK o \in Orders(Matching(q)) :
        LET w == Window(o, q)
        IN  l = [n \in DOMAIN w |-> [id |-> w[n], val |-> table[w[n]]]]
  BY DEF Lists, OrdersFor
<1>2. Matching(q) \subseteq DOMAIN table
  BY DEF Matching
<1>3. IsFiniteSet(Matching(q))
  BY <1>2, FS_Subset
<1>4. o \in Seq(DOMAIN table)
  BY <1>2, <1>3, OrdersTyped
<1> DEFINE w == Window(o, q)
<1>5. w \in Seq(DOMAIN table)
  BY <1>4, WindowTyped
<1>6. l = [n \in DOMAIN w |-> [id |-> w[n], val |-> table[w[n]]]]
  BY <1>1
<1> HIDE DEF w
<1>7. \A n \in DOMAIN w : w[n] \in DOMAIN table
  BY <1>5
<1>8. DOMAIN w = 1..Len(w) /\ Len(w) \in Nat
  BY <1>5
<1> QED
  BY <1>6, <1>7, <1>8

\* What filter() leaves of the rows.
LEMMA RowsWithoutTyped ==
  ASSUME NEW S, rows \in Seq(S), NEW i, NEW list \in RowsWithout(i)
  PROVE  /\ list \in Seq(S)
         /\ \A n \in DOMAIN list :
              list[n].id # i /\ \E m \in DOMAIN rows : list[n] = rows[m]
<1> DEFINE keep == {n \in DOMAIN rows : rows[n].id # i}
<1>1. PICK o \in Orders(keep) : list = [n \in DOMAIN o |-> rows[o[n]]]
  BY DEF RowsWithout
<1>2. IsFiniteSet(keep)
  <2>1. IsFiniteSet(1..Len(rows))
    BY FS_Interval
  <2>2. keep \subseteq 1..Len(rows)
    OBVIOUS
  <2> QED
    BY <2>1, <2>2, FS_Subset
<1>3. o \in Seq(keep)
  BY <1>2, OrdersTyped
<1>4. \A n \in DOMAIN o : o[n] \in DOMAIN rows /\ rows[o[n]].id # i
  BY <1>3
<1>5. DOMAIN o = 1..Len(o) /\ Len(o) \in Nat
  BY <1>3
<1> HIDE DEF keep
<1> QED
  BY <1>1, <1>4, <1>5

-----------------------------------------------------------------------------
(* Types *)

\* What may be asked, and opened, on a page.
Fitting(kind) ==
  /\ kind \in {"create", "edit", "save", "remove"} => view \in {"books", "members"}
  /\ kind \in {"return", "reload"} => view = "loans"
  /\ kind = "mark" => view = "desk"
  /\ kind = "borrow" => view \in Shelves

\* A request with what its kind needs.
Meant(r) ==
  /\ IsRequest(r)
  /\ Fitting(r.kind)
  /\ r.kind \in {"save", "remove", "return", "borrow"} => r.id \in Id
  /\ r.kind \in {"create", "save"} => r.val \in Content
  /\ r.kind = "create" /\ r.answer # Pending /\ r.answer.ok => r.answer.val \in Id

AllMeant(r) == \A s \in Slot : r[s] = Idle \/ Meant(r[s])

IsTable(t) ==
  /\ DOMAIN t \subseteq Id
  /\ IsFiniteSet(DOMAIN t)
  /\ \A i \in DOMAIN t : t[i] \in Content

TableTyped ==
  /\ issued \subseteq Id
  /\ DOMAIN table \subseteq issued
  /\ IsTable(table)

PageTyped ==
  /\ query \in Query
  /\ rows \in Seq(Row)
  /\ timer \in BOOLEAN
  /\ dialog \in Dialog /\ Fitting(dialog.kind)
  /\ busy \subseteq Id
  /\ done \subseteq Id

Typed ==
  /\ view \in Views
  /\ TableTyped
  /\ PageTyped
  /\ AllMeant(req)
  /\ {patched, disturbed} \subseteq BOOLEAN

\* The page that is shown is given; others are other instances.
LEMMA ViewKept ==
  ASSUME Next
  PROVE  view' = view
BY DEF Next, BooksNext, MembersNext, LoansNext, DeskNext, OwnNext, ShelfNext,
  BooksSearch, BooksTurn, NewBook, CreateBook, SaveBook, EditBook, RemoveBook,
  MembersSearch, MembersTurn, NewMember, CreateMember, SaveMember, EditMember,
  RemoveMember, LoansFilter, LoansSort, LoansTurn, OpenReturn, ConfirmReturn,
  MarkOverdue, OwnFilter, OwnSort, OwnTurn, ShelfSearch, ShelfTurn, OpenBorrow,
  ConfirmBorrow, QuickType, QuickSend, Close, Visit, Others, Filter, Sort, Turn,
  Ask, Open, Create, Save, Edit, Remove,
  Serve, AnswerList, ServeLibrarian, ServeBorrow, ServeCreate, ServeSave,
  ServeRemove, ServeReturn, ServeMark, Carry, Lose,
  Deliver, BooksAnswer, MembersAnswer, LoansAnswer, DeskAnswer, OwnLoad,
  ShelfAnswer, QuickLoad, BooksLoad, BookCreated, BookSaved, BookRemoved,
  MembersLoad, MemberCreated, MemberSaved, MemberRemoved, LoansLoad,
  ReturnArrives, ReloadArrives, DeskLoad, MarkArrives, ShelfLoad, BorrowArrives,
  ListArrives, Created, Saved, Removed

\* What a value of the page's types is does not change.
LEMMA MeantKept ==
  ASSUME view' = view
  PROVE  /\ Content' = Content /\ Query' = Query /\ Row' = Row /\ Dialog' = Dialog
         /\ \A kind : Fitting(kind)' <=> Fitting(kind)
         /\ \A r : Meant(r)' <=> Meant(r)
BY DEF Content, Query, Filters, Row, Dialog, Fitting, Meant, IsRequest

LEMMA SameTable ==
  ASSUME Typed, view' = view, UNCHANGED <<table, issued>>
  PROVE  TableTyped'
BY MeantKept DEF Typed, TableTyped, IsTable

LEMMA SamePage ==
  ASSUME Typed, view' = view, UNCHANGED page_vars
  PROVE  PageTyped'
BY MeantKept DEF Typed, PageTyped, page_vars

\* The dialogues about a row have one.
LEMMA DialogRows ==
  ASSUME dialog \in Dialog, dialog.kind \in {"edit", "return", "borrow"}
  PROVE  dialog.id \in Id
<1>1. CASE dialog \in [kind : {"edit", "return"}, id : Id]
  BY <1>1
<1>2. CASE dialog \in [kind : {"borrow"}, id : Id, note : {"", "error", "borrowed"}]
  BY <1>2
<1>3. CASE dialog \in [kind : {"create"}] \/ dialog = Closed
  <2>1. dialog.kind \in {"create", "closed"}
    BY <1>3 DEF Closed
  <2> QED
    BY <2>1
<1> QED
  BY <1>1, <1>2, <1>3 DEF Dialog

\* A list or a call, as the code sends them.
LEMMA RequestMeant ==
  ASSUME Typed, NEW kind, Fitting(kind), kind \in ListKind \cup CallKind,
         NEW q \in Query, NEW id \in Id \cup {0}, NEW val \in Content \cup {Blank},
         kind \in {"save", "remove", "return", "borrow"} => id \in Id,
         kind \in {"create", "save"} => val \in Content
  PROVE  Meant(Request(kind, q, id, val))
BY DEF Meant, IsRequest, Request

\* The query of a call, which it does not use.
LEMMA NoQuery ==
  [filter |-> Blank, page |-> 1, sort |-> "borrowed_at", dir |-> "asc"] \in Query
BY DEF Query, Filters, Column, Direction

LEMMA CallMeant ==
  ASSUME Typed, NEW kind, Fitting(kind), kind \in CallKind,
         NEW id \in Id \cup {0}, NEW val \in Content \cup {Blank},
         kind \in {"save", "remove", "return", "borrow"} => id \in Id,
         kind \in {"create", "save"} => val \in Content
  PROVE  Meant(Call(kind, id, val))
BY NoQuery, RequestMeant DEF Call

LEMMA ListMeant ==
  ASSUME Typed, NEW kind \in ListKind, Fitting(kind), NEW q \in Query
  PROVE  Meant(ListRequest(kind, q))
BY RequestMeant DEF ListRequest, ListKind

\* Sending.
LEMMA SendMeant ==
  ASSUME Typed, LockInv, NEW r, Meant(r), Send(r)
  PROVE  AllMeant(req') /\ disturbed' \in BOOLEAN
BY DEF Send, Typed, AllMeant, LockInv, Shaped, Overlap

\* Going on without a component changes nothing that is asked.
LEMMA LiveMeant ==
  ASSUME NEW r, Meant(r), Formed(r)
  PROVE  Meant([r EXCEPT !.live = FALSE])
<1> DEFINE n == [r EXCEPT !.live = FALSE]
<1>1. /\ n.kind = r.kind /\ n.query = r.query /\ n.id = r.id /\ n.val = r.val
      /\ n.here = r.here /\ n.asked = r.asked /\ n.answer = r.answer
      /\ n.live = FALSE
  BY DEF Formed
<1> HIDE DEF n
<1> QED
  BY <1>1 DEF Meant, IsRequest, n

\* The list becomes another list.
LEMMA RowsTyped ==
  ASSUME Typed, LockInv, NEW list \in Seq(Row), NEW dlg \in Dialog,
         Fitting(dlg.kind), NEW flags, flags \subseteq Id,
         NEW borrowed, borrowed \subseteq Id, NEW r, NEW ended, GoesOn(r, ended),
         ShowRows(list, dlg, flags, borrowed, r)
  PROVE  /\ rows' \in Seq(Row) /\ dialog' \in Dialog /\ Fitting(dialog'.kind)
         /\ busy' \subseteq Id /\ done' \subseteq Id
         /\ AllMeant(req')
<1> DEFINE stay == Components(list)
<1>1. /\ rows' = list
      /\ dialog' \in {dlg, Closed}
      /\ busy' = flags \cap stay /\ done' = borrowed \cap stay
      /\ req' = [s \in Slot |->
                   IF r[s] # Idle /\ r[s].id \notin stay \cup {0}
                   THEN [r[s] EXCEPT !.live = FALSE] ELSE r[s]]
  BY DEF ShowRows
<1> HIDE DEF stay
<1>2. Closed \in Dialog /\ Fitting(Closed.kind)
  BY DEF Dialog, Closed, Fitting
<1>3. ASSUME NEW s \in Slot PROVE req'[s] = Idle \/ Meant(req'[s])
  <2>1. r[s] = Idle \/ (r[s] = req[s] /\ Meant(r[s]) /\ Formed(r[s]))
    BY DEF GoesOn, Typed, AllMeant, LockInv, Shaped
  <2> QED
    BY <1>1, <2>1, LiveMeant
<1> QED
  BY <1>1, <1>2, <1>3 DEF AllMeant

\* A changed query is sent.
LEMMA AskTyped ==
  ASSUME Typed, LockInv, view' = view, NEW q \in Query, Ask(q)
  PROVE  Typed'
<1>1. Meant(ListRequest("list", q))
  BY ListMeant DEF ListKind, Fitting
<1>2. AllMeant(req') /\ disturbed' \in BOOLEAN
  BY <1>1, SendMeant DEF Ask
<1>3. TableTyped'
  BY SameTable DEF Ask
<1>4. PageTyped'
  BY MeantKept DEF Ask, Typed, PageTyped
<1> QED
  BY <1>2, <1>3, <1>4, MeantKept DEF Ask, Typed, AllMeant

LEMMA QueryTyped ==
  ASSUME Typed, LockInv, view' = view, NEW v,
         \/ \E f \in Filters : Filter(v, f)
         \/ Sort(v)
         \/ Turn(v)
  PROVE  Typed'
<1>1. /\ query \in Query
      /\ query.filter \in Filters /\ query.page \in 1..LastPage
      /\ query.sort \in Column /\ query.dir \in Direction
  BY DEF Typed, PageTyped, Query
<1>2. CASE \E f \in Filters : Filter(v, f)
  <2>1. PICK f \in Filters : Ask([query EXCEPT !.filter = f, !.page = 1])
    BY <1>2 DEF Filter
  <2>2. [query EXCEPT !.filter = f] \in Query /\ 1 \in 1..LastPage
    BY <1>1 DEF Query
  <2>3. [query EXCEPT !.filter = f, !.page = 1] \in Query
    BY <1>1, <2>2 DEF Query
  <2> QED
    BY <2>1, <2>3, AskTyped
<1>3. CASE Sort(v)
  <2>1. PICK c \in Column, dir \in Direction :
          Ask([query EXCEPT !.page = 1, !.sort = c, !.dir = dir])
    BY <1>3 DEF Sort, Turned, FirstDirection, Direction
  <2>2. 1 \in 1..LastPage
    OBVIOUS
  <2>3. [query EXCEPT !.page = 1, !.sort = c, !.dir = dir] \in Query
    BY <1>1, <2>2 DEF Query
  <2> QED
    BY <2>1, <2>3, AskTyped
<1>4. CASE Turn(v)
  <2>1. PICK p \in 1..LastPage : Ask([query EXCEPT !.page = p])
    <3>1. CASE query.page < LastPage /\ Ask([query EXCEPT !.page = @ + 1])
      <4>1. query.page + 1 \in 1..LastPage
        BY <1>1, <3>1
      <4> QED
        BY <3>1, <4>1
    <3>2. CASE PrevEnabled /\ Ask([query EXCEPT !.page = @ - 1])
      <4>1. query.page - 1 \in 1..LastPage
        BY <1>1, <3>2 DEF PrevEnabled
      <4> QED
        BY <3>2, <4>1
    <3> QED
      BY <1>4, <3>1, <3>2 DEF Turn
  <2>2. [query EXCEPT !.page = p] \in Query
    BY <1>1 DEF Query
  <2> QED
    BY <2>1, <2>2, AskTyped
<1> QED
  BY <1>2, <1>3, <1>4

LEMMA OpenTyped ==
  ASSUME Typed, view' = view, NEW d \in Dialog, Fitting(d.kind), Open(d)
  PROVE  Typed'
<1>1. TableTyped'
  BY SameTable DEF Open
<1>2. PageTyped'
  BY MeantKept DEF Open, Typed, PageTyped
<1> QED
  BY <1>1, <1>2, MeantKept DEF Open, Typed, AllMeant

LEMMA CloseTyped ==
  ASSUME Typed, LockInv, view' = view, Close
  PROVE  Typed'
<1>1. TableTyped'
  BY SameTable DEF Close
<1>2. PageTyped'
  BY MeantKept DEF Close, Typed, PageTyped, Dialog, Closed, Fitting
<1>3. ASSUME NEW s \in Slot PROVE req'[s] = Idle \/ Meant(req'[s])
  <2>1. CASE req[s] = Idle
    BY <2>1 DEF Close
  <2>2. CASE req[s] # Idle
    <3> DEFINE a == req[s].asked /\ req[s].kind # "borrow"
               n == [req[s] EXCEPT !.asked = a]
    <3>1. req'[s] = n
      BY <2>2 DEF Close
    <3>2. Formed(req[s]) /\ Meant(req[s])
      BY <2>2 DEF LockInv, Shaped, Typed, AllMeant
    <3>3. a \in BOOLEAN
      OBVIOUS
    <3> HIDE DEF a
    <3>4. /\ n.kind = req[s].kind /\ n.query = req[s].query /\ n.id = req[s].id
          /\ n.val = req[s].val /\ n.here = req[s].here /\ n.live = req[s].live
          /\ n.asked = a /\ n.answer = req[s].answer
      BY <3>2 DEF Formed
    <3> HIDE DEF n
    <3>5. Meant(n)
      BY <3>2, <3>3, <3>4 DEF Meant, IsRequest
    <3> QED
      BY <3>1, <3>5
  <2> QED
    BY <2>1, <2>2
<1> QED
  BY <1>1, <1>2, <1>3, MeantKept DEF Close, Typed, AllMeant

\* A call is sent, and perhaps a flag is set.
LEMMA CallTyped ==
  ASSUME Typed, LockInv, view' = view, NEW r, Meant(r), Send(r),
         busy' \subseteq Id,
         UNCHANGED <<table, issued, query, rows, timer, dialog, done, patched>>
  PROVE  Typed'
<1>1. AllMeant(req') /\ disturbed' \in BOOLEAN
  BY SendMeant
<1>2. TableTyped'
  BY SameTable
<1>3. PageTyped'
  BY MeantKept DEF Typed, PageTyped
<1> QED
  BY <1>1, <1>2, <1>3, MeantKept DEF Typed, AllMeant

LEMMA EditingTyped ==
  ASSUME Typed, LockInv, view' = view, NEW v \in {"books", "members"},
         \/ \E val \in Key : Create(v, val) \/ Save(v, val)
         \/ \E i \in Id : Edit(v, i)
         \/ \E i \in Id : Remove(v, i, busy) \/ Remove(v, i, busy \cup {i})
  PROVE  Typed'
<1>1. view = v
  BY DEF Create, Save, Edit, Remove
<1>2. Content = Key /\ busy \subseteq Id
  BY <1>1 DEF Content, Shelves, Typed, PageTyped
<1>3. ASSUME NEW val \in Key, Create(v, val) PROVE Typed'
  <2>1. Meant(Call("create", 0, val))
    BY <1>1, <1>2, CallMeant DEF CallKind, Fitting
  <2> QED
    BY <1>2, <1>3, <2>1, CallTyped DEF Create, page_vars
<1>4. ASSUME NEW val \in Key, Save(v, val) PROVE Typed'
  <2>1. dialog.id \in Id
    BY <1>4 DEF Save, LockInv, DialogShaped
  <2>2. Meant(Call("save", dialog.id, val))
    BY <1>1, <1>2, <2>1, CallMeant DEF CallKind, Fitting
  <2> QED
    BY <1>2, <1>4, <2>1, <2>2, CallTyped DEF Save
<1>5. ASSUME NEW i \in Id, Edit(v, i) PROVE Typed'
  <2>1. [kind |-> "edit", id |-> i] \in Dialog
    BY DEF Dialog
  <2> QED
    BY <1>1, <1>5, <2>1, OpenTyped DEF Edit, Fitting
<1>6. ASSUME NEW i \in Id, Remove(v, i, busy) \/ Remove(v, i, busy \cup {i})
      PROVE  Typed'
  <2>1. Meant(Call("remove", i, Blank))
    BY <1>1, CallMeant DEF CallKind, Fitting
  <2> QED
    BY <1>2, <1>6, <2>1, CallTyped DEF Remove
<1> QED
  BY <1>3, <1>4, <1>5, <1>6

LEMMA LibrarianTyped ==
  ASSUME Typed, LockInv, view' = view,
         BooksNext \/ MembersNext \/ LoansNext \/ DeskNext
  PROVE  Typed'
<1>1. ASSUME NEW v \in {"books", "members"}, view = v, Open([kind |-> "create"])
      PROVE  Typed'
  <2>1. [kind |-> "create"] \in Dialog
    BY DEF Dialog
  <2> QED
    BY <1>1, <2>1, OpenTyped DEF Fitting
<1>2. CASE BooksNext
  <2>1. \A f \in Key \cup {Blank} : Filter("books", f) => Typed'
    <3> SUFFICES ASSUME NEW f \in Key \cup {Blank}, Filter("books", f)
                 PROVE  Typed'
      OBVIOUS
    <3>1. f \in Filters
      BY DEF Filter, Filters, Content, Shelves
    <3> QED
      BY <3>1, QueryTyped
  <2> QED
    BY <1>1, <1>2, <2>1, QueryTyped, EditingTyped
       DEF BooksNext, BooksSearch, BooksTurn, NewBook, CreateBook, SaveBook,
           EditBook, RemoveBook
<1>3. CASE MembersNext
  <2>1. \A f \in Key \cup {Blank} : Filter("members", f) => Typed'
    <3> SUFFICES ASSUME NEW f \in Key \cup {Blank}, Filter("members", f)
                 PROVE  Typed'
      OBVIOUS
    <3>1. f \in Filters
      BY DEF Filter, Filters, Content, Shelves
    <3> QED
      BY <3>1, QueryTyped
  <2> QED
    BY <1>1, <1>3, <2>1, QueryTyped, EditingTyped
       DEF MembersNext, MembersSearch, MembersTurn, NewMember, CreateMember,
           SaveMember, EditMember, RemoveMember
<1>4. CASE LoansNext
  <2>1. ASSUME NEW f \in Chosen \cup {Blank}, Filter("loans", f) PROVE Typed'
    <3>1. f \in Filters
      BY <2>1 DEF Filter, Filters, Content, Shelves
    <3> QED
      BY <2>1, <3>1, QueryTyped
  <2>2. ASSUME NEW i \in DOMAIN rows, OpenReturn(i) PROVE Typed'
    <3>1. rows[i].id \in Id
      <4>1. rows \in Seq(Row)
        BY DEF Typed, PageTyped
      <4>2. rows[i] \in Row
        BY <4>1
      <4> QED
        BY <4>2 DEF Row
    <3>2. [kind |-> "return", id |-> rows[i].id] \in Dialog
      BY <3>1 DEF Dialog
    <3> QED
      BY <2>2, <3>2, OpenTyped DEF OpenReturn, Fitting
  <2>3. CASE ConfirmReturn
    <3>1. /\ dialog.kind = "return" /\ dialog \in Dialog
          /\ query \in Query /\ busy \subseteq Id
      BY <2>3 DEF ConfirmReturn, Typed, PageTyped
    <3>2. dialog.id \in Id
      BY <3>1, DialogRows
    <3>3. Meant(Request("return", query, dialog.id, Blank))
      BY <2>3, <3>1, <3>2, RequestMeant DEF ConfirmReturn, CallKind, Fitting
    <3> QED
      BY <2>3, <3>1, <3>3, CallTyped DEF ConfirmReturn, page_vars
  <2> QED
    BY <1>4, <2>1, <2>2, <2>3, QueryTyped
       DEF LoansNext, LoansFilter, LoansSort, LoansTurn
<1>5. CASE DeskNext
  <2>1. Meant(Call("mark", 0, Blank))
    BY <1>5, CallMeant DEF DeskNext, MarkOverdue, CallKind, Fitting
  <2>2. busy \subseteq Id
    BY DEF Typed, PageTyped
  <2> QED
    BY <1>5, <2>1, <2>2, CallTyped DEF DeskNext, MarkOverdue, page_vars
<1> QED
  BY <1>2, <1>3, <1>4, <1>5

LEMMA MemberTyped ==
  ASSUME Typed, LockInv, view' = view,
         OwnNext \/ ShelfNext \/ QuickSend \/ \E f \in Filters : QuickType(f)
  PROVE  Typed'
<1>1. CASE OwnNext
  <2>1. ASSUME NEW f \in Chosen \cup {Blank}, Filter("own", f) PROVE Typed'
    <3>1. f \in Filters
      BY <2>1 DEF Filter, Filters, Content, Shelves
    <3> QED
      BY <2>1, <3>1, QueryTyped
  <2> QED
    BY <1>1, <2>1, QueryTyped DEF OwnNext, OwnFilter, OwnSort, OwnTurn
<1>2. CASE ShelfNext
  <2>1. ASSUME NEW f \in Id \cup {Blank}, Filter("shelf", f) PROVE Typed'
    <3>1. f \in Filters
      BY <2>1 DEF Filter, Filters, Shelves
    <3> QED
      BY <2>1, <3>1, QueryTyped
  <2>2. ASSUME NEW i \in Id, OpenBorrow(i) PROVE Typed'
    <3>1. [kind |-> "borrow", id |-> i, note |-> ""] \in Dialog
      BY DEF Dialog
    <3> QED
      BY <2>2, <3>1, OpenTyped DEF OpenBorrow, Fitting
  <2>3. CASE ConfirmBorrow
    <3>1. dialog.id \in Id
      BY <2>3 DEF ConfirmBorrow, LockInv, DialogShaped
    <3>2. Fitting("borrow") /\ busy \subseteq Id
      BY <2>3 DEF ConfirmBorrow, Typed, PageTyped, Fitting
    <3>3. Meant(Call("borrow", dialog.id, Blank))
      BY <3>1, <3>2, CallMeant DEF CallKind
    <3>4. busy' \subseteq Id
      BY <2>3, <3>1, <3>2 DEF ConfirmBorrow
    <3> QED
      BY <2>3, <3>3, <3>4, CallTyped DEF ConfirmBorrow
  <2> QED
    BY <1>2, <2>1, <2>2, <2>3, QueryTyped DEF ShelfNext, ShelfSearch, ShelfTurn
<1>3. CASE QuickSend
  <2>1. query \in Query
    BY DEF Typed, PageTyped
  <2>2. Meant(ListRequest("list", query))
    BY <2>1, ListMeant DEF ListKind, Fitting
  <2>3. AllMeant(req') /\ disturbed' \in BOOLEAN
    BY <1>3, <2>2, SendMeant DEF QuickSend
  <2>4. TableTyped'
    BY <1>3, SameTable DEF QuickSend
  <2>5. PageTyped'
    BY <1>3, MeantKept DEF QuickSend, Typed, PageTyped
  <2> QED
    BY <1>3, <2>3, <2>4, <2>5, MeantKept DEF QuickSend, Typed, AllMeant
<1>4. ASSUME NEW f \in Filters, QuickType(f) PROVE Typed'
  <2> DEFINE list == IF f = Blank THEN <<>> ELSE rows
  <2>0. /\ rows \in Seq(Row) /\ dialog \in Dialog /\ Fitting(dialog.kind)
        /\ busy \subseteq Id /\ done \subseteq Id /\ query \in Query
    BY DEF Typed, PageTyped
  <2>1. list \in Seq(Row)
    BY <2>0
  <2>2. ShowRows(list, dialog, busy, done, req)
    BY <1>4 DEF QuickType
  <2> HIDE DEF list
  <2>3. GoesOn(req, {})
    BY DEF GoesOn
  <2>4. /\ rows' \in Seq(Row) /\ dialog' \in Dialog /\ Fitting(dialog'.kind)
        /\ busy' \subseteq Id /\ done' \subseteq Id
        /\ AllMeant(req')
    BY <2>0, <2>1, <2>2, <2>3, RowsTyped
  <2>5. query' \in Query /\ timer' \in BOOLEAN
    BY <1>4, <2>0 DEF QuickType, Query
  <2>6. TableTyped'
    BY <1>4, SameTable DEF QuickType
  <2>7. PageTyped'
    BY <2>4, <2>5, MeantKept DEF PageTyped
  <2> QED
    BY <1>4, <2>4, <2>6, <2>7, MeantKept DEF QuickType, Typed, AllMeant
<1> QED
  BY <1>1, <1>2, <1>3, <1>4

\* The user comes back.
LEMMA FirstTyped ==
  ASSUME NEW f \in AskedFor
  PROVE  FirstQuery(f) \in Query
<1>1. f \in Filters
  BY DEF AskedFor, Filters, Content, Shelves
<1> QED
  BY <1>1 DEF FirstQuery, Query, Column, Direction

LEMMA VisitTyped ==
  ASSUME Typed, LockInv, view' = view, NEW f, Visit(f)
  PROVE  Typed'
<1> DEFINE left == [s \in Slot |-> Unmount(req[s])]
           asks == ListRequest("list", FirstQuery(f))
<1>1. /\ f \in AskedFor /\ query' = FirstQuery(f) /\ rows' = <<>> /\ timer' = FALSE
      /\ dialog' = Closed /\ busy' = {} /\ done' = {} /\ patched' = FALSE
      /\ disturbed' = Overlap(req') /\ UNCHANGED <<table, issued>>
  BY DEF Visit
<1>2. FirstQuery(f) \in Query
  BY <1>1, FirstTyped
<1>3. FirstQuery(Blank) \in Query
  BY FirstTyped DEF AskedFor
<1>4. ASSUME NEW s \in Slot PROVE left[s] = Idle \/ Meant(left[s])
  <2>1. CASE Unmount(req[s]) = Idle
    BY <2>1
  <2>2. CASE Unmount(req[s]) # Idle
    <3> DEFINE n == [req[s] EXCEPT !.query = FirstQuery(Blank), !.here = FALSE,
                                   !.live = FALSE, !.asked = FALSE]
    <3>1. Formed(req[s]) /\ Meant(req[s]) /\ left[s] = n
      BY <2>2 DEF Unmount, Typed, AllMeant, LockInv, Shaped
    <3>2. /\ n.kind = req[s].kind /\ n.query = FirstQuery(Blank)
          /\ n.id = req[s].id /\ n.val = req[s].val /\ n.here = FALSE
          /\ n.live = FALSE /\ n.asked = FALSE /\ n.answer = req[s].answer
      BY <3>1 DEF Formed
    <3> HIDE DEF n
    <3>3. Meant(n)
      BY <1>3, <3>1, <3>2 DEF Meant, IsRequest
    <3> QED
      BY <3>1, <3>3
  <2> QED
    BY <2>1, <2>2
<1>5. Meant(asks)
  BY <1>2, ListMeant DEF ListKind, Fitting
<1>6. \A s \in Slot : req'[s] = Idle \/ Meant(req'[s])
  <2>1. req' = left \/ \E s \in Slot : req' = [left EXCEPT ![s] = asks]
    BY DEF Visit
  <2> HIDE DEF asks
  <2>2. CASE req' = left
    BY <1>4, <2>2
  <2>3. CASE \E s \in Slot : req' = [left EXCEPT ![s] = asks]
    BY <1>4, <1>5, <2>3
  <2> QED
    BY <2>1, <2>2, <2>3
<1> HIDE DEF left, asks
<1>7. TableTyped'
  BY <1>1, SameTable
<1>8. Closed \in Dialog /\ Fitting(Closed.kind) /\ <<>> \in Seq(Row)
  BY DEF Dialog, Closed, Fitting
<1>9. PageTyped'
  BY <1>1, <1>2, <1>8, MeantKept DEF PageTyped
<1>10. disturbed' \in BOOLEAN /\ patched' \in BOOLEAN /\ view' \in Views
  BY <1>1 DEF Overlap, Typed
<1> QED
  BY <1>6, <1>7, <1>9, <1>10, MeantKept DEF Typed, AllMeant

\* A request is answered.
LEMMA AnswerMeant ==
  ASSUME Typed, LockInv, NEW s \in Slot, req[s] # Idle, NEW a,
         req' = [req EXCEPT ![s].answer = a],
         a.ok \in BOOLEAN, a.rows \in Seq(Row),
         req[s].kind = "create" /\ a.ok => a.val \in Id
  PROVE  AllMeant(req')
<1>1. Formed(req[s]) /\ Meant(req[s])
  BY DEF LockInv, Shaped, Typed, AllMeant
<1> DEFINE n == [req[s] EXCEPT !.answer = a]
<1>2. req'[s] = n /\ \A t \in Slot \ {s} : req'[t] = req[t]
  BY DEF LockInv, Shaped
<1>3. /\ n.kind = req[s].kind /\ n.query = req[s].query /\ n.id = req[s].id
      /\ n.val = req[s].val /\ n.here = req[s].here /\ n.live = req[s].live
      /\ n.asked = req[s].asked /\ n.answer = a
  BY <1>1 DEF Formed
<1> HIDE DEF n
<1>4. Meant(n)
  BY <1>1, <1>3 DEF Meant, IsRequest
<1> QED
  BY <1>2, <1>4 DEF Typed, AllMeant

LEMMA ListAnswerTyped ==
  ASSUME Typed, LockInv, view' = view, NEW s \in Slot, AnswerList(s)
  PROVE  Typed'
<1>1. PICK l \in Lists(req[s].query) :
        req' = [req EXCEPT ![s].answer = Good(l, Blank)]
  BY DEF AnswerList
<1>2. req[s] # Idle /\ req[s].kind # "create" /\ req[s].query \in Query
  BY DEF AnswerList, ListKind, Typed, AllMeant, Meant, IsRequest
<1>3. l \in Seq([id : DOMAIN table, val : {table[i] : i \in DOMAIN table}])
  BY <1>2, ListsCurrent DEF Typed, TableTyped, IsTable
<1>4. [id : DOMAIN table, val : {table[i] : i \in DOMAIN table}] \subseteq Row
  BY DEF Row, Typed, TableTyped, IsTable
<1>5. l \in Seq(Row)
  <2> DEFINE held == [id : DOMAIN table, val : {table[i] : i \in DOMAIN table}]
  <2>1. l \in Seq(held) /\ held \subseteq Row
    BY <1>3, <1>4
  <2> HIDE DEF held
  <2> QED
    BY <2>1
<1> DEFINE a == Good(l, Blank)
<1>6. a.ok = TRUE /\ a.rows = l /\ req' = [req EXCEPT ![s].answer = a]
  BY <1>1 DEF Good
<1> HIDE DEF a
<1>7. AllMeant(req')
  BY <1>2, <1>5, <1>6, AnswerMeant
<1>8. TableTyped' /\ PageTyped'
  BY SameTable, SamePage DEF AnswerList
<1> QED
  BY <1>7, <1>8, MeantKept DEF AnswerList, Typed, AllMeant

LEMMA LoseTyped ==
  ASSUME Typed, LockInv, view' = view, NEW s \in Slot, Lose(s)
  PROVE  Typed'
<1>1. Bad.ok = FALSE /\ Bad.rows \in Seq(Row)
  BY DEF Bad
<1>2. AllMeant(req')
  BY <1>1, AnswerMeant DEF Lose
<1>3. TableTyped' /\ PageTyped'
  BY SameTable, SamePage DEF Lose
<1> QED
  BY <1>2, <1>3, MeantKept DEF Lose, Typed, AllMeant

\* A table with a row less, or more, or changed.
LEMMA WithoutKeeps ==
  ASSUME NEW i
  PROVE  /\ DOMAIN Without(i) = DOMAIN table \ {i}
         /\ \A j \in DOMAIN table \ {i} : Without(i)[j] = table[j]
BY DEF Without

LEMMA WithTyped ==
  ASSUME Typed, NEW i \in Id, NEW val \in Content
  PROVE  IsTable(With(i, val))
<1>1. IsTable(table)
  BY DEF Typed, TableTyped
<1>2. IsFiniteSet(DOMAIN table \cup {i})
  BY <1>1, FS_AddElement DEF IsTable
<1> DEFINE new == With(i, val)
<1>3. /\ DOMAIN new = DOMAIN table \cup {i}
      /\ new[i] = val
      /\ \A j \in DOMAIN table \ {i} : new[j] = table[j]
  BY DEF With
<1> HIDE DEF new
<1>4. \A j \in DOMAIN new : new[j] \in Content
  BY <1>1, <1>3 DEF IsTable
<1>5. DOMAIN new \subseteq Id /\ IsFiniteSet(DOMAIN new)
  BY <1>1, <1>2, <1>3 DEF IsTable
<1> QED
  BY <1>4, <1>5 DEF IsTable, new

LEMMA WithoutTyped ==
  ASSUME Typed, NEW i
  PROVE  IsTable(Without(i))
<1>1. IsTable(table)
  BY DEF Typed, TableTyped
<1>2. IsFiniteSet(DOMAIN table \ {i})
  BY <1>1, FS_Subset DEF IsTable
<1> QED
  BY <1>1, <1>2, WithoutKeeps DEF IsTable

\* A call is carried out or refused.
LEMMA CarryTyped ==
  ASSUME Typed, LockInv, view' = view, NEW s \in Slot,
         NEW kind, NEW ok, NEW new_table, NEW val,
         Carry(s, kind, ok, new_table, val),
         ok => IsTable(new_table),
         kind = "create" => val \in Id
  PROVE  Typed'
<1> DEFINE good == Good(<<>>, val)
<1>1. /\ good.ok = TRUE /\ good.rows = <<>> /\ good.val = val
      /\ Bad.ok = FALSE /\ Bad.rows = <<>> /\ <<>> \in Seq(Row)
  BY DEF Good, Bad
<1>2. /\ req[s] # Idle /\ req[s].kind = kind
      /\ \/ req' = [req EXCEPT ![s].answer = good]
         \/ req' = [req EXCEPT ![s].answer = Bad]
  BY DEF Carry
<1> HIDE DEF good
<1>3. AllMeant(req')
  BY <1>1, <1>2, AnswerMeant
<1>4. TableTyped'
  BY MeantKept DEF Carry, Typed, TableTyped, IsTable
<1>5. PageTyped'
  BY SamePage DEF Carry
<1> QED
  BY <1>3, <1>4, <1>5, MeantKept DEF Carry, Typed, AllMeant

LEMMA ServeTyped ==
  ASSUME Typed, LockInv, view' = view, NEW s \in Slot, Serve(s)
  PROVE  Typed'
<1>1. IsTable(table)
  BY DEF Typed, TableTyped
<1>2. ASSUME NEW kind \in CallKind, req[s] # Idle, req[s].kind = kind
      PROVE  /\ Fitting(kind)
             /\ kind \in {"save", "remove", "return", "borrow"} => req[s].id \in Id
             /\ kind \in {"create", "save"} => req[s].val \in Content
  BY <1>2 DEF Typed, AllMeant, Meant
<1>3. CASE ServeCreate(s)
  <2>1. PICK i \in Id : Carry(s, "create", Unused(req[s].val, i),
                              With(i, req[s].val), i)
    BY <1>3 DEF ServeCreate
  <2>2. IsTable(With(i, req[s].val))
    BY <1>2, <2>1, WithTyped DEF Carry, CallKind
  <2> QED
    BY <2>1, <2>2, CarryTyped
<1>4. CASE ServeSave(s)
  <2>1. IsTable(With(req[s].id, req[s].val))
    BY <1>2, <1>4, WithTyped DEF ServeSave, Carry, CallKind
  <2> QED
    BY <1>4, <2>1, CarryTyped DEF ServeSave
<1>5. CASE ServeRemove(s)
  BY <1>5, WithoutTyped, CarryTyped DEF ServeRemove
<1>6. CASE ServeReturn(s)
  <2>1. req[s].id \in Id /\ Fitting("return")
    BY <1>2, <1>6 DEF ServeReturn, Carry, CallKind
  <2>2. "returned" \in Content
    BY <2>1 DEF Fitting, Content, Status, Shelves
  <2>3. IsTable(With(req[s].id, "returned"))
    BY <2>1, <2>2, WithTyped
  <2> QED
    BY <1>6, <2>3, CarryTyped DEF ServeReturn
<1>7. CASE ServeMark(s)
  <2> DEFINE marked == [i \in DOMAIN table |->
                          IF i \in Due /\ table[i] = "borrowed" THEN "overdue"
                          ELSE table[i]]
  <2>1. Fitting("mark")
    BY <1>2, <1>7 DEF ServeMark, Carry, CallKind
  <2>2. "overdue" \in Content
    BY <2>1 DEF Fitting, Content, Status, Shelves
  <2>3. IsTable(marked)
    BY <1>1, <2>2 DEF IsTable
  <2>4. Carry(s, "mark", TRUE, marked, Blank)
    BY <1>7 DEF ServeMark
  <2> HIDE DEF marked
  <2> QED
    BY <2>3, <2>4, CarryTyped
<1>8. CASE ServeBorrow(s)
  <2> DEFINE lent == [table EXCEPT ![req[s].id] = "mine"]
  <2>1. Fitting("borrow")
    BY <1>2, <1>8 DEF ServeBorrow, Carry, CallKind
  <2>2. "mine" \in Content
    BY <2>1 DEF Fitting, Content, Availability, Shelves
  <2>3. IsTable(lent)
    BY <1>1, <2>2 DEF IsTable
  <2>4. Carry(s, "borrow",
              req[s].id \in DOMAIN table /\ table[req[s].id] = "offered",
              lent, "mine")
    BY <1>8 DEF ServeBorrow
  <2> HIDE DEF lent
  <2> QED
    BY <2>3, <2>4, CarryTyped
<1> QED
  BY <1>3, <1>4, <1>5, <1>6, <1>7, <1>8, ListAnswerTyped DEF Serve, ServeLibrarian

LEMMA OthersTyped ==
  ASSUME Typed, view' = view, Others
  PROVE  Typed'
<1>1. issued \subseteq Id /\ DOMAIN table \subseteq Id
  BY DEF Typed, TableTyped
<1>2. IsTable(table')
  <2>1. \/ \E i \in Id, val \in Content : table' = With(i, val)
        \/ \E i \in DOMAIN table : table' = Without(i)
    BY <1>1 DEF Others
  <2> QED
    BY <2>1, WithTyped, WithoutTyped
<1>3. TableTyped'
  BY <1>1, <1>2, MeantKept DEF Others, TableTyped, IsTable
<1>4. PageTyped'
  BY SamePage DEF Others
<1> QED
  BY <1>3, <1>4, MeantKept DEF Others, Typed, AllMeant

-----------------------------------------------------------------------------
(* Answers *)

\* A dialogue is closed or stays.
LEMMA ClosedTyped ==
  ASSUME Typed, NEW dlg \in {dialog, Closed}
  PROVE  dlg \in Dialog /\ Fitting(dlg.kind)
<1>1. Closed \in Dialog
  BY DEF Dialog
<1>2. Fitting(Closed.kind)
  BY DEF Closed, Fitting
<1>3. dialog \in Dialog /\ Fitting(dialog.kind)
  BY DEF Typed, PageTyped
<1> QED
  BY <1>1, <1>2, <1>3

\* A list is shown when a request is over.
LEMMA ShownTyped ==
  ASSUME Typed, LockInv, view' = view, NEW s \in Slot, NEW list \in Seq(Row),
         NEW dlg \in {dialog, Closed}, NEW flags, flags \subseteq Id,
         ShowRows(list, dlg, flags, done, Over(s)),
         UNCHANGED <<table, issued, query, timer>>,
         patched' \in BOOLEAN, disturbed' \in BOOLEAN
  PROVE  Typed'
<1>1. dlg \in Dialog /\ Fitting(dlg.kind) /\ done \subseteq Id
  BY ClosedTyped DEF Typed, PageTyped
<1>2. GoesOn(Over(s), {s})
  BY OverGoesOn
<1>3. /\ rows' \in Seq(Row) /\ dialog' \in Dialog /\ Fitting(dialog'.kind)
      /\ busy' \subseteq Id /\ done' \subseteq Id
      /\ AllMeant(req')
  BY <1>1, <1>2, RowsTyped
<1>4. TableTyped'
  BY SameTable
<1>5. PageTyped'
  BY <1>3, MeantKept DEF Typed, PageTyped
<1> QED
  BY <1>3, <1>4, <1>5, MeantKept DEF Typed, AllMeant

\* A request is over, or asks for a list next; the list stays.
LEMMA AskedTyped ==
  ASSUME Typed, LockInv, view' = view, NEW s \in Slot, NEW r, r = Idle \/ Meant(r),
         req' = [req EXCEPT ![s] = r],
         dialog' \in Dialog, Fitting(dialog'.kind), busy' \subseteq Id, done' \subseteq Id,
         UNCHANGED <<table, issued, query, rows, timer, patched, disturbed>>
  PROVE  Typed'
<1>1. AllMeant(req')
  BY DEF Typed, AllMeant, LockInv, Shaped
<1>2. TableTyped'
  BY SameTable
<1>3. PageTyped'
  BY MeantKept DEF Typed, PageTyped
<1> QED
  BY <1>1, <1>2, <1>3, MeantKept DEF Typed, AllMeant

LEMMA OverTyped ==
  ASSUME Typed, LockInv, view' = view, NEW s \in Slot, req' = Over(s),
         dialog' \in {dialog, Closed},
         UNCHANGED <<table, issued, query, rows, timer, busy, done, patched,
                     disturbed>>
  PROVE  Typed'
<1>1. /\ dialog' \in Dialog /\ Fitting(dialog'.kind)
      /\ busy' \subseteq Id /\ done' \subseteq Id
  BY ClosedTyped DEF Typed, PageTyped
<1> QED
  BY <1>1, AskedTyped DEF Over

LEMMA ListArrivesTyped ==
  ASSUME Typed, LockInv, view' = view, NEW s \in Slot, NEW v,
         NEW on_error \in {rows, <<>>}, ListArrives(s, v, on_error)
  PROVE  Typed'
<1>1. rows \in Seq(Row) /\ <<>> \in Seq(Row) /\ busy \subseteq Id
      /\ disturbed \in BOOLEAN
  BY DEF Typed, PageTyped
<1>2. req[s].answer.rows \in Seq(Row)
  BY DEF ListArrives, Answered, Typed, AllMeant, Meant, IsRequest
<1> DEFINE list == IF req[s].answer.ok THEN req[s].answer.rows ELSE on_error
<1>3. list \in Seq(Row)
  BY <1>1, <1>2
<1>4. CASE req[s].here
  <2>1. /\ ShowRows(list, dialog, busy, done, Over(s))
        /\ patched' = FALSE /\ disturbed' = (disturbed \/ Overtaken(s))
        /\ UNCHANGED <<table, issued, query, timer>>
    BY <1>4 DEF ListArrives
  <2> HIDE DEF list
  <2>2. disturbed' \in BOOLEAN
    BY <1>1, <2>1 DEF Overtaken
  <2> QED
    BY <1>1, <1>3, <2>1, <2>2, ShownTyped
<1>5. CASE ~ req[s].here
  <2>1. /\ req' = Over(s)
        /\ UNCHANGED <<table, issued, query, rows, timer, dialog, busy, done,
                       patched, disturbed>>
    BY <1>5 DEF ListArrives
  <2> QED
    BY <2>1, OverTyped
<1> QED
  BY <1>4, <1>5

LEMMA CreatedTyped ==
  ASSUME Typed, LockInv, view' = view, NEW s \in Slot, NEW v, Created(v, s)
  PROVE  Typed'
<1>1. rows \in Seq(Row) /\ busy \subseteq Id /\ disturbed \in BOOLEAN
  BY DEF Typed, PageTyped
<1>2. CASE req[s].here /\ req[s].answer.ok
  <2> DEFINE row == [id |-> req[s].answer.val, val |-> req[s].val]
             list == <<row>> \o rows
             dlg  == IF Creating THEN Closed ELSE dialog
  <2>1. req[s].answer.val \in Id /\ req[s].val \in Content
    BY <1>2 DEF Created, Answered, Typed, AllMeant, Meant
  <2>2. row \in Row
    BY <2>1 DEF Row
  <2>3. /\ ShowRows(list, dlg, busy, done, Over(s))
        /\ patched' = TRUE /\ disturbed' = disturbed
        /\ UNCHANGED <<table, issued, query, timer>>
    BY <1>2 DEF Created
  <2> HIDE DEF row
  <2>4. list \in Seq(Row)
    BY <1>1, <2>2
  <2>5. dlg \in {dialog, Closed}
    OBVIOUS
  <2> HIDE DEF list, dlg
  <2> QED
    BY <1>1, <2>3, <2>4, <2>5, ShownTyped
<1>3. CASE ~ (req[s].here /\ req[s].answer.ok)
  <2>1. /\ req' = Over(s)
        /\ UNCHANGED <<table, issued, query, rows, timer, dialog, busy, done,
                       patched, disturbed>>
    BY <1>3 DEF Created
  <2> QED
    BY <2>1, OverTyped
<1> QED
  BY <1>2, <1>3

\* The row as it was saved.
LEMMA ReplacedTyped ==
  ASSUME rows \in Seq(Row), NEW i \in Id, NEW val \in Content
  PROVE  Replaced(i, val) \in Seq(Row)
<1>1. \A n \in DOMAIN rows : rows[n] \in Row
  OBVIOUS
<1>2. [id |-> i, val |-> val] \in Row
  BY DEF Row
<1> DEFINE row == [id |-> i, val |-> val]
<1> HIDE DEF row
<1>3. [n \in DOMAIN rows |-> IF rows[n].id = i THEN row ELSE rows[n]] \in Seq(Row)
  <2>1. row \in Row
    BY <1>2 DEF row
  <2>2. DOMAIN rows = 1..Len(rows) /\ Len(rows) \in Nat
    OBVIOUS
  <2> QED
    BY <1>1, <2>1, <2>2
<1> QED
  BY <1>3 DEF Replaced, row

LEMMA SavedTyped ==
  ASSUME Typed, LockInv, view' = view, NEW s \in Slot, NEW v,
         NEW dlg \in {dialog, Closed}, Saved(v, s, dlg)
  PROVE  Typed'
<1>1. rows \in Seq(Row) /\ busy \subseteq Id /\ {patched, disturbed} \subseteq BOOLEAN
  BY DEF Typed, PageTyped
<1>2. req[s].id \in Id /\ req[s].val \in Content /\ req[s].answer.ok \in BOOLEAN
  BY DEF Saved, Answered, Typed, AllMeant, Meant, IsRequest
<1>3. CASE req[s].here
  <2> DEFINE list == IF req[s].answer.ok THEN Replaced(req[s].id, req[s].val)
                     ELSE rows
  <2>1. list \in Seq(Row)
    BY <1>1, <1>2, ReplacedTyped
  <2>2. Released(s) \subseteq Id
    BY <1>1 DEF Released
  <2>3. /\ ShowRows(list, dlg, Released(s), done, Over(s))
        /\ patched' = (patched \/ req[s].answer.ok) /\ disturbed' = disturbed
        /\ UNCHANGED <<table, issued, query, timer>>
    BY <1>3 DEF Saved
  <2> HIDE DEF list
  <2>4. patched' \in BOOLEAN /\ disturbed' \in BOOLEAN
    BY <1>1, <1>2, <2>3
  <2> QED
    BY <2>1, <2>2, <2>3, <2>4, ShownTyped
<1>4. CASE ~ req[s].here
  <2>1. /\ req' = Over(s)
        /\ UNCHANGED <<table, issued, query, rows, timer, dialog, busy, done,
                       patched, disturbed>>
    BY <1>4 DEF Saved
  <2> QED
    BY <2>1, OverTyped
<1> QED
  BY <1>3, <1>4

LEMMA RemovedTyped ==
  ASSUME Typed, LockInv, view' = view, NEW s \in Slot, NEW v,
         NEW flags, flags \subseteq Id, Removed(v, s, flags)
  PROVE  Typed'
<1>1. rows \in Seq(Row) /\ {patched, disturbed} \subseteq BOOLEAN
  BY DEF Typed, PageTyped
<1>2. req[s].answer.ok \in BOOLEAN
  BY DEF Removed, Answered, Typed, AllMeant, Meant, IsRequest
<1>3. CASE req[s].here
  <2>1. PICK list \in IF req[s].answer.ok THEN RowsWithout(req[s].id) ELSE {rows} :
          ShowRows(list, dialog, flags, done, Over(s))
    BY <1>3 DEF Removed
  <2>2. list \in Seq(Row)
    BY <1>1, <2>1, RowsWithoutTyped
  <2>3. /\ patched' \in BOOLEAN /\ disturbed' \in BOOLEAN
        /\ UNCHANGED <<table, issued, query, timer>>
    BY <1>1, <1>2, <1>3 DEF Removed
  <2> QED
    BY <2>1, <2>2, <2>3, ShownTyped
<1>4. CASE ~ req[s].here
  <2>1. /\ req' = Over(s)
        /\ UNCHANGED <<table, issued, query, rows, timer, dialog, busy, done,
                       patched, disturbed>>
    BY <1>4 DEF Removed
  <2> QED
    BY <2>1, OverTyped
<1> QED
  BY <1>3, <1>4

\* A handler that goes on with the list.
LEMMA FollowingMeant ==
  ASSUME Typed, LockInv, NEW s \in Slot, req[s] # Idle,
         NEW kind \in ListKind, Fitting(kind), NEW q \in Query
  PROVE  Meant(NextList(s, kind, q))
<1> DEFINE r == NextList(s, kind, q)
<1>1. /\ Formed(r) /\ r.kind = kind /\ r.query = q
      /\ r.here = req[s].here /\ r.answer = Pending
  BY GoesOnList
<1>2. req[s].here \in BOOLEAN
  BY DEF Typed, AllMeant, Meant, IsRequest
<1>3. Meant(ListRequest(kind, q))
  BY ListMeant
<1>4. /\ ListRequest(kind, q).kind = kind /\ ListRequest(kind, q).query = q
      /\ ListRequest(kind, q).id = 0 /\ ListRequest(kind, q).val = Blank
  BY DEF ListRequest, Request
<1>5. r.id = 0 /\ r.val = Blank /\ r.live /\ r.asked
  BY GoesOnPlainly
<1> HIDE DEF r
<1>6. {r.here, r.live, r.asked} \subseteq BOOLEAN
  BY <1>1, <1>2, <1>5
<1> QED
  BY <1>1, <1>3, <1>4, <1>5, <1>6 DEF Meant, IsRequest, r

LEMMA LoansArriveTyped ==
  ASSUME Typed, LockInv, view' = view, NEW s \in Slot,
         ReturnArrives(s) \/ ReloadArrives(s)
  PROVE  Typed'
<1>1. /\ busy \subseteq Id /\ done \subseteq Id /\ disturbed \in BOOLEAN
      /\ dialog \in Dialog /\ Fitting(dialog.kind)
  BY DEF Typed, PageTyped
<1>2. ReturnClosed \in {dialog, Closed}
  BY DEF ReturnClosed
<1>3. CASE ReturnArrives(s)
  <2>1. CASE req[s].answer.ok
    <3>1. view = "loans" /\ req[s].query \in Query /\ req[s] # Idle
      BY <1>3 DEF ReturnArrives, Answered, Typed, AllMeant, Meant, IsRequest
    <3>2. Meant(NextList(s, "reload", req[s].query))
      BY <3>1, FollowingMeant DEF ListKind, Fitting
    <3>3. /\ req' = [req EXCEPT ![s] = NextList(s, "reload", req[s].query)]
          /\ UNCHANGED <<table, issued, query, rows, timer, dialog, busy, done,
                         patched, disturbed>>
      BY <1>3, <2>1 DEF ReturnArrives
    <3> QED
      BY <1>1, <3>2, <3>3, AskedTyped
  <2>2. CASE ~ req[s].answer.ok
    <3>1. /\ req' = Over(s) /\ dialog' \in {dialog, Closed}
          /\ UNCHANGED <<table, issued, query, rows, timer, busy, done, patched,
                         disturbed>>
      BY <1>2, <1>3, <2>2 DEF ReturnArrives
    <3> QED
      BY <3>1, OverTyped
  <2> QED
    BY <2>1, <2>2
<1>4. CASE ReloadArrives(s)
  <2>1. CASE req[s].here
    <3>1. req[s].answer.rows \in Seq(Row)
      BY <1>4 DEF ReloadArrives, Answered, Typed, AllMeant, Meant, IsRequest
    <3>2. /\ ShowRows(req[s].answer.rows, ReturnClosed, busy, done, Over(s))
          /\ patched' = FALSE /\ disturbed' = (disturbed \/ Overtaken(s))
          /\ UNCHANGED <<table, issued, query, timer>>
      BY <1>4, <2>1 DEF ReloadArrives
    <3>3. disturbed' \in BOOLEAN
      BY <1>1, <3>2 DEF Overtaken
    <3> QED
      BY <1>1, <1>2, <3>1, <3>2, <3>3, ShownTyped
  <2>2. CASE ~ req[s].here
    <3>1. /\ req' = Over(s)
          /\ UNCHANGED <<table, issued, query, rows, timer, dialog, busy, done,
                         patched, disturbed>>
      BY <1>4, <2>2 DEF ReloadArrives
    <3> QED
      BY <3>1, OverTyped
  <2> QED
    BY <2>1, <2>2
<1> QED
  BY <1>3, <1>4

LEMMA MarkArrivesTyped ==
  ASSUME Typed, LockInv, view' = view, NEW s \in Slot, MarkArrives(s)
  PROVE  Typed'
<1>1. /\ busy \subseteq Id /\ done \subseteq Id /\ query \in Query
      /\ dialog \in Dialog /\ Fitting(dialog.kind)
  BY DEF Typed, PageTyped
<1>2. CASE req[s].answer.ok
  <2>1. req[s] # Idle
    BY DEF MarkArrives, Answered
  <2>2. Meant(NextList(s, "list", query))
    BY <1>1, <2>1, FollowingMeant DEF ListKind, Fitting
  <2>3. req' = [req EXCEPT ![s] = NextList(s, "list", query)]
    BY <1>2 DEF MarkArrives
  <2>4. UNCHANGED <<table, issued, query, rows, timer, dialog, busy, done,
                    patched, disturbed>>
    BY DEF MarkArrives, page_vars
  <2> QED
    BY <1>1, <2>2, <2>3, <2>4, AskedTyped
<1>3. CASE ~ req[s].answer.ok
  BY <1>3, OverTyped DEF MarkArrives, page_vars
<1> QED
  BY <1>2, <1>3

LEMMA BorrowArrivesTyped ==
  ASSUME Typed, LockInv, view' = view, NEW s \in Slot, BorrowArrives(s)
  PROVE  Typed'
<1>1. /\ busy \subseteq Id /\ done \subseteq Id
      /\ dialog \in Dialog /\ Fitting(dialog.kind)
  BY DEF Typed, PageTyped
<1>2. req[s].id \in Id
  BY DEF BorrowArrives, Answered, Typed, AllMeant, Meant
<1>3. ASSUME NEW note \in {"error", "borrowed"}
      PROVE  Noted(s, note) \in Dialog /\ Fitting(Noted(s, note).kind)
  <2>1. CASE dialog.kind = "borrow"
    <3>1. /\ dialog = [kind |-> "borrow", id |-> dialog.id, note |-> dialog.note]
          /\ dialog.id \in Id
      BY <2>1 DEF LockInv, DialogShaped
    <3> DEFINE n == [dialog EXCEPT !.note = note]
    <3>2. n = [kind |-> "borrow", id |-> dialog.id, note |-> note]
      BY <3>1
    <3>3. n \in Dialog /\ n.kind = "borrow"
      BY <3>1, <3>2 DEF Dialog
    <3> HIDE DEF n
    <3>4. Noted(s, note) \in {dialog, n}
      BY DEF Noted, n
    <3> QED
      BY <1>1, <2>1, <3>3, <3>4
  <2>2. CASE dialog.kind # "borrow"
    BY <1>1, <2>2 DEF Noted
  <2> QED
    BY <2>1, <2>2
<1>4. /\ dialog' \in Dialog /\ Fitting(dialog'.kind)
  BY <1>1, <1>3 DEF BorrowArrives
<1>5. busy' \subseteq Id /\ done' \subseteq Id
  BY <1>1, <1>2 DEF BorrowArrives
<1>6. /\ req' = Over(s)
      /\ UNCHANGED <<table, issued, query, rows, timer, patched, disturbed>>
  BY DEF BorrowArrives
<1> QED
  BY <1>4, <1>5, <1>6, AskedTyped DEF Over

LEMMA DeliverTyped ==
  ASSUME Typed, LockInv, view' = view, NEW s \in Slot, Deliver(s)
  PROVE  Typed'
<1>1. busy \subseteq Id
  BY DEF Typed, PageTyped
<1>2. Released(s) \subseteq Id
  BY <1>1 DEF Released
<1>3. EditClosed(s) \in {dialog, Closed}
  BY DEF EditClosed
<1>4. (IF req[s].answer.ok THEN EditClosed(s) ELSE dialog) \in {dialog, Closed}
  BY <1>3
<1>5. CASE \/ BooksLoad(s) \/ MembersLoad(s) \/ LoansLoad(s) \/ DeskLoad(s)
           \/ OwnLoad(s) \/ ShelfLoad(s) \/ QuickLoad(s)
  <2>1. \E v : ListArrives(s, v, rows) \/ ListArrives(s, v, <<>>)
    BY <1>5 DEF BooksLoad, MembersLoad, LoansLoad, DeskLoad, OwnLoad, ShelfLoad,
                QuickLoad
  <2> QED
    BY <2>1, ListArrivesTyped
<1>6. CASE BookCreated(s) \/ MemberCreated(s)
  BY <1>6, CreatedTyped DEF BookCreated, MemberCreated
<1>7. CASE BookSaved(s) \/ MemberSaved(s)
  BY <1>3, <1>4, <1>7, SavedTyped DEF BookSaved, MemberSaved
<1>8. CASE BookRemoved(s) \/ MemberRemoved(s)
  BY <1>1, <1>2, <1>8, RemovedTyped DEF BookRemoved, MemberRemoved
<1> QED
  BY <1>5, <1>6, <1>7, <1>8, LoansArriveTyped, MarkArrivesTyped, BorrowArrivesTyped
     DEF Deliver, BooksAnswer, MembersAnswer, LoansAnswer, DeskAnswer, ShelfAnswer

-----------------------------------------------------------------------------
(* The theorem about types *)

LEMMA TypedInit ==
  Init => Typed
<1> SUFFICES ASSUME Init PROVE Typed
  OBVIOUS
<1>1. PICK ids \in SUBSET Id : IsFiniteSet(ids) /\ table \in [ids -> Content]
  BY DEF Init
<1>2. TableTyped
  BY <1>1 DEF Init, TableTyped, IsTable
<1>3. query \in Query
  BY FirstTyped DEF Init
<1>4. Closed \in Dialog /\ Fitting(Closed.kind) /\ <<>> \in Seq(Row)
  BY DEF Dialog, Closed, Fitting
<1>5. PageTyped
  BY <1>3, <1>4 DEF Init, PageTyped
<1>6. AllMeant(req)
  <2> DEFINE asks == ListRequest("list", query)
  <2>1. \A s \in Slot : req[s] = Idle \/ req[s] = asks
    BY DEF Init
  <2>2. Meant(asks)
    BY <1>3 DEF Meant, IsRequest, ListRequest, Request, ListKind, Fitting
  <2> HIDE DEF asks
  <2> QED
    BY <2>1, <2>2 DEF AllMeant
<1> QED
  BY <1>2, <1>5, <1>6 DEF Init, Typed

LEMMA TypedStep ==
  Typed /\ LockInv /\ [Next]_vars => Typed'
<1> SUFFICES ASSUME Typed, LockInv, [Next]_vars PROVE Typed'
  OBVIOUS
<1>1. CASE UNCHANGED vars
  <2>1. /\ view' = view /\ UNCHANGED page_vars
        /\ UNCHANGED <<table, issued, req, patched, disturbed>>
    BY <1>1 DEF vars
  <2>2. TableTyped' /\ PageTyped'
    BY <2>1, SameTable, SamePage
  <2> QED
    BY <2>1, <2>2, MeantKept DEF Typed, AllMeant
<1>2. CASE Next
  <2>1. view' = view
    BY <1>2, ViewKept
  <2> QED
    BY <1>2, <2>1, LibrarianTyped, MemberTyped, CloseTyped, VisitTyped, OthersTyped,
       ServeTyped, DeliverTyped, LoseTyped DEF Next
<1> QED
  BY <1>1, <1>2

LEMMA TypedHolds == Spec => []Typed
BY TypedInit, TypedStep, LockInvHolds, PTL DEF Spec

LEMMA TypedTypes ==
  Typed => TypeOK
<1> SUFFICES ASSUME Typed PROVE TypeOK
  OBVIOUS
<1>1. \A s \in Slot : req[s] = Idle \/ IsRequest(req[s])
  BY DEF Typed, AllMeant, Meant
<1> QED
  BY <1>1 DEF Typed, TypeOK, TableTyped, IsTable, PageTyped

\* Every list, dialogue and request of the pages is what the code takes it for,
\* whatever is asked, answered, lost or edited, in any order: an answer that a
\* handler uses has the fields it reads, a dialogue about a row has a row, and the
\* ids the page keeps flags for are ids the server has given out or could.
THEOREM PagesTyped == Spec => []TypeOK
BY TypedHolds, TypedTypes, PTL

-----------------------------------------------------------------------------
(* The invariant: where the list may differ from the table, and why *)

Flying(s, kinds) == req[s] # Idle /\ req[s].kind \in kinds

\* Nobody hears the answer to a call: the page is gone, or the BorrowButton is.
Deaf(r) == ~ r.here \/ (r.kind = "borrow" /\ ~ r.live)

\* The server has done it, and the page does not know yet.
Carried(s) == Flying(s, CallKind) /\ req[s].answer # Pending /\ req[s].answer.ok

\* BorrowButtons are those of rows that are shown.
ButtonsMounted ==
  /\ dialog.kind = "borrow" => dialog.id \in Components(rows)
  /\ \A s \in Slot :
       Flying(s, {"borrow"}) /\ req[s].live => req[s].id \in Components(rows)

\* Lists are asked for by the page that is shown, and nothing changes after one
\* was answered.
ListsAnswered ==
  \A s \in Slot : Flying(s, ListKind) =>
    /\ req[s].here
    /\ req[s].answer # Pending =>
         req[s].answer.ok /\ req[s].answer.rows \in Lists(req[s].query)

\* A call whose answer nobody will hear was sent from a list that is gone; only a
\* search does without a list when it is opened.
CallsHeard ==
  \A s \in Slot : Flying(s, CallKind) =>
    /\ Deaf(req[s]) => rows = <<>> /\ (timer \/ BlankSearch)
    /\ ~ req[s].here => view \in Searches
    /\ req[s].kind = "return" => req[s].query = query

\* What a call has done is still so.
CarriedOut ==
  \A s \in Slot : Carried(s) =>
    /\ req[s].kind = "create" =>
         /\ req[s].answer.val \in DOMAIN table
         /\ table[req[s].answer.val] = req[s].val
    /\ req[s].kind = "save" =>
         req[s].id \in DOMAIN table /\ table[req[s].id] = req[s].val
    /\ req[s].kind = "borrow" =>
         req[s].id \in DOMAIN table /\ table[req[s].id] = "mine"

\* A row is behind while the answer to its own call is on the way, the whole list
\* while it is to be asked for anew.
Behind(i) ==
  \E s \in Slot : Carried(s) /\ req[s].kind \in {"save", "remove", "borrow"}
                             /\ req[s].id = i
Refreshing ==
  \E s \in Slot :
    \/ Flying(s, {"reload"})
    \/ Carried(s) /\ req[s].kind \in {"return", "mark"}
    \/ Flying(s, {"list"}) /\ view = "desk"

IsCurrent(row) == row.id \in DOMAIN table /\ Displayed(row) = table[row.id]
RowsFit ==
  Refreshing \/ \A n \in DOMAIN rows : Behind(rows[n].id) \/ IsCurrent(rows[n])

\* A button that gave way stands for a book the reader has.
DoneFits ==
  \A i \in done :
    view \in Shelves /\ i \in DOMAIN table /\ table[i] = "mine"
      /\ i \in Components(rows)

\* An answer to the query is on the way, or none is wanted.
Awaiting ==
  \/ timer \/ BlankSearch
  \/ \E s \in Slot : (Flying(s, ListKind) /\ req[s].query = query) \/ Carried(s)
ListFits == ~ patched /\ done = {} => rows \in Lists(query) \/ Awaiting

Calm ==
  /\ ~ Overlap(req)
  /\ ListsAnswered
  /\ CallsHeard
  /\ CarriedOut
  /\ RowsFit
  /\ DoneFits
  /\ ListFits

-----------------------------------------------------------------------------
(* Requests from step to step *)

\* The request in slot t goes on, and perhaps its row goes.
Same(t) ==
  /\ req'[t] = Idle <=> req[t] = Idle
  /\ req[t] # Idle =>
       /\ req'[t].kind = req[t].kind /\ req'[t].query = req[t].query
       /\ req'[t].id = req[t].id /\ req'[t].val = req[t].val
       /\ req'[t].here = req[t].here /\ req'[t].answer = req[t].answer

Alike(t) == Same(t) /\ (req[t] # Idle => req'[t].live = req[t].live)

LEMMA EqualAlike ==
  ASSUME NEW t \in Slot, req'[t] = req[t]
  PROVE  Alike(t)
BY DEF Alike, Same

\* A slot is given to another request, or given up.
LEMMA SlotTaken ==
  ASSUME LockInv, NEW s \in Slot, NEW r, req' = [req EXCEPT ![s] = r]
  PROVE  req'[s] = r /\ \A t \in Slot \ {s} : req'[t] = req[t] /\ Alike(t)
<1>1. req'[s] = r /\ \A t \in Slot \ {s} : req'[t] = req[t]
  BY DEF LockInv, Shaped
<1> QED
  BY <1>1, EqualAlike

\* A call in flight is alone, and so is each list from calls.
LEMMA OneCall ==
  ASSUME ~ Overlap(req), NEW s \in Slot, Flying(s, CallKind)
  PROVE  \A t \in Slot \ {s} : req[t] = Idle
BY DEF Overlap, Flying

LEMMA NoCall ==
  ASSUME ~ Overlap(req), NEW s \in Slot, req[s] # Idle, req[s].kind \notin CallKind
  PROVE  \A t \in Slot : ~ Flying(t, CallKind) /\ ~ Carried(t)
BY DEF Overlap, Flying, Carried

\* What a list that is shown does to the requests.
LEMMA ShownRequests ==
  ASSUME Typed, LockInv, NEW list, NEW dlg, NEW flags, NEW borrowed, NEW r,
         NEW ended, GoesOn(r, ended), ShowRows(list, dlg, flags, borrowed, r),
         NEW t \in Slot
  PROVE  IF t \in ended THEN req'[t] = Idle
         ELSE /\ Same(t)
              /\ req[t] # Idle =>
                   (req'[t].live <=>
                      req[t].live /\ req[t].id \in Components(list) \cup {0})
<1> DEFINE stay == Components(list)
<1>1. req'[t] = IF r[t] # Idle /\ r[t].id \notin stay \cup {0}
                THEN [r[t] EXCEPT !.live = FALSE] ELSE r[t]
  BY DEF ShowRows
<1> HIDE DEF stay
<1>2. r[t] = IF t \in ended THEN Idle ELSE req[t]
  BY DEF GoesOn
<1>3. CASE t \in ended
  BY <1>1, <1>2, <1>3
<1>4. CASE t \notin ended /\ req[t] = Idle
  BY <1>1, <1>2, <1>4 DEF Same
<1>5. CASE t \notin ended /\ req[t] # Idle
  <2>1. Formed(req[t]) /\ Meant(req[t])
    BY <1>5 DEF LockInv, Shaped, Typed, AllMeant
  <2>2. req[t].live \in BOOLEAN
    BY <2>1 DEF Meant, IsRequest
  <2>3. CASE req[t].id \in stay \cup {0}
    <3>1. req'[t] = req[t]
      BY <1>1, <1>2, <1>5, <2>3
    <3> QED
      BY <1>5, <2>3, <3>1 DEF Same, stay
  <2>4. CASE req[t].id \notin stay \cup {0}
    <3>1. req'[t] = [req[t] EXCEPT !.live = FALSE]
      BY <1>1, <1>2, <1>5, <2>4
    <3>2. /\ req'[t].kind = req[t].kind /\ req'[t].query = req[t].query
          /\ req'[t].id = req[t].id /\ req'[t].val = req[t].val
          /\ req'[t].here = req[t].here /\ req'[t].answer = req[t].answer
          /\ req'[t].live = FALSE
      BY <2>1, <3>1 DEF Formed
    <3>3. req'[t] # Idle
      BY <2>1, <3>1 DEF Formed, Idle
    <3> QED
      BY <1>5, <2>4, <3>2, <3>3 DEF Same, stay
  <2> QED
    BY <2>3, <2>4
<1> QED
  BY <1>3, <1>4, <1>5

-----------------------------------------------------------------------------
(* BorrowButtons are mounted *)

LEMMA ShownMounted ==
  ASSUME Typed, LockInv, view' = view, NEW list, NEW dlg \in {dialog, Closed},
         NEW flags, NEW borrowed, NEW r, NEW ended, GoesOn(r, ended),
         ShowRows(list, dlg, flags, borrowed, r)
  PROVE  ButtonsMounted'
<1>1. rows' = list /\ Components(rows)' = Components(list)
  BY DEF ShowRows, Components
<1>2. dialog'.kind = "borrow" => dialog'.id \in Components(list)
  BY DEF ShowRows, Closed
<1>3. ASSUME NEW t \in Slot, Flying(t, {"borrow"})', req'[t].live
      PROVE  req'[t].id \in Components(list)
  <2>1. /\ Same(t) /\ req[t] # Idle
        /\ req[t].live /\ req[t].id \in Components(list) \cup {0}
    BY <1>3, ShownRequests DEF Flying, Same
  <2>2. req[t].kind = "borrow" /\ req'[t].id = req[t].id
    BY <1>3, <2>1 DEF Same, Flying
  <2>3. req[t].id \in Id
    BY <2>1, <2>2 DEF Typed, AllMeant, Meant
  <2> QED
    BY <2>1, <2>2, <2>3
<1> QED
  BY <1>1, <1>2, <1>3 DEF ButtonsMounted

\* The rows stay, and no button is added.
HasButton(t) ==
  Flying(t, {"borrow"})' /\ req'[t].live =>
    Flying(t, {"borrow"}) /\ req[t].live /\ req'[t].id = req[t].id

LEMMA KeptMounted ==
  ASSUME ButtonsMounted, view' = view, rows' = rows, SameButton,
         \A t \in Slot : HasButton(t)
  PROVE  ButtonsMounted'
BY DEF ButtonsMounted, SameButton, HasButton, Components

LEMMA AlikeMounted ==
  ASSUME NEW t \in Slot, Alike(t)
  PROVE  HasButton(t)
BY DEF Alike, Same, HasButton, Flying

-----------------------------------------------------------------------------
(* Steps that change neither list nor table *)

\* The lists that answer the query on the screen, and that of a request.
LEMMA ListsOfQuery ==
  ASSUME view' = view, table' = table, NEW q, query' = q
  PROVE  Lists(query)' = Lists(q)
<1>1. OrdersFor(query)' = OrdersFor(q)
  BY DEF OrdersFor, Matching
<1>2. \A o : Window(o, query)' = Window(o, q)
  BY DEF Window
<1> QED
  BY <1>1, <1>2 DEF Lists

LEMMA ListsOfRequest ==
  ASSUME view' = view, table' = table, NEW q, NEW t, req'[t].query = q
  PROVE  Lists(req[t].query)' = Lists(q)
<1>1. OrdersFor(req[t].query)' = OrdersFor(q)
  BY DEF OrdersFor, Matching
<1>2. \A o : Window(o, req[t].query)' = Window(o, q)
  BY DEF Window
<1> QED
  BY <1>1, <1>2 DEF Lists

LEMMA ShapesKept ==
  ASSUME view' = view
  PROVE  /\ \A list : Components(list)' = Components(list)
         /\ query' = query => BlankSearch' = BlankSearch
BY DEF Components, BlankSearch

\* The dialogue opens or closes.
LEMMA AlikeCalm ==
  ASSUME Calm, UNCHANGED <<view, table, query, rows, timer, done, patched>>,
         \A t \in Slot : Alike(t)
  PROVE  Calm'
<1>1. \A t \in Slot : \A kinds : Flying(t, kinds)' <=> Flying(t, kinds)
  BY DEF Flying, Alike, Same
<1>2. \A t \in Slot : req[t] # Idle =>
        /\ req'[t].kind = req[t].kind /\ req'[t].query = req[t].query
        /\ req'[t].id = req[t].id /\ req'[t].val = req[t].val
        /\ req'[t].here = req[t].here /\ req'[t].answer = req[t].answer
        /\ req'[t].live = req[t].live
  BY DEF Alike, Same
<1>3. \A t \in Slot : Carried(t)' <=> Carried(t)
  BY <1>1, <1>2 DEF Carried, Flying
<1>4. ~ Overlap(req)'
  BY DEF Calm, Overlap, Alike, Same
<1>5. ListsAnswered'
  <2> SUFFICES ASSUME NEW t \in Slot, Flying(t, ListKind)'
               PROVE  /\ req'[t].here
                      /\ req'[t].answer # Pending =>
                           /\ req'[t].answer.ok
                           /\ req'[t].answer.rows \in Lists(req[t].query)'
    BY DEF ListsAnswered
  <2>1. Flying(t, ListKind) /\ req[t] # Idle
    BY <1>1 DEF Flying
  <2>2. Lists(req[t].query)' = Lists(req[t].query)
    BY <1>2, <2>1, ListsOfRequest
  <2> QED
    BY <1>2, <2>1, <2>2 DEF Calm, ListsAnswered
<1>6. CallsHeard'
  BY <1>1, <1>2, ShapesKept DEF Calm, CallsHeard, Deaf, Flying
<1>7. CarriedOut'
  BY <1>2, <1>3 DEF Calm, CarriedOut, Carried, Flying
<1>8. RowsFit'
  <2>1. Refreshing => Refreshing'
    BY <1>1, <1>2, <1>3 DEF Refreshing, Carried, Flying
  <2>2. \A i : Behind(i) => Behind(i)'
    BY <1>2, <1>3 DEF Behind, Carried, Flying
  <2> QED
    BY <2>1, <2>2 DEF Calm, RowsFit, IsCurrent, Displayed
<1>9. DoneFits'
  BY ShapesKept DEF Calm, DoneFits
<1>10. ListFits'
  <2>1. Lists(query)' = Lists(query)
    BY ListsOfQuery
  <2>2. Awaiting => Awaiting'
    BY <1>1, <1>2, <1>3, ShapesKept DEF Awaiting, Flying
  <2> QED
    BY <2>1, <2>2 DEF Calm, ListFits
<1> QED
  BY <1>4, <1>5, <1>6, <1>7, <1>8, <1>9, <1>10 DEF Calm

-----------------------------------------------------------------------------
(* Requests are sent *)

\* A list is asked for: only lists are in flight.
LEMMA AskedCalm ==
  ASSUME LockInv, Calm, NEW s \in Slot, req[s] = Idle,
         req' = [req EXCEPT ![s] = ListRequest("list", query')],
         ~ Overlap(req'), UNCHANGED <<view, table, rows, done, patched>>
  PROVE  Calm'
<1> DEFINE asks == ListRequest("list", query')
<1>1. /\ asks.kind = "list" /\ asks.query = query' /\ asks.here
      /\ asks.answer = Pending /\ asks # Idle
  BY DEF ListRequest, Request, Idle
<1>2. req'[s] = asks /\ \A t \in Slot \ {s} : req'[t] = req[t]
  BY SlotTaken
<1> HIDE DEF asks
<1>3. \A t \in Slot : /\ ~ Flying(t, CallKind) /\ ~ Carried(t)
                      /\ ~ Flying(t, CallKind)' /\ ~ Carried(t)'
  <2>1. \A t \in Slot : req'[t] # Idle => req'[t].kind \notin CallKind
    BY <1>1, <1>2 DEF Overlap, CallKind
  <2>2. \A t \in Slot : req[t] # Idle => req'[t] = req[t]
    BY <1>2
  <2> QED
    BY <2>1, <2>2 DEF Flying, Carried
<1>4. ~ Overlap(req)'
  OBVIOUS
<1>5. ListsAnswered'
  <2> SUFFICES ASSUME NEW t \in Slot, Flying(t, ListKind)'
               PROVE  /\ req'[t].here
                      /\ req'[t].answer # Pending =>
                           /\ req'[t].answer.ok
                           /\ req'[t].answer.rows \in Lists(req[t].query)'
    BY DEF ListsAnswered
  <2>1. CASE t = s
    BY <1>1, <1>2, <2>1
  <2>2. CASE t # s
    <3>1. Flying(t, ListKind) /\ req'[t] = req[t]
      BY <1>2, <2>2 DEF Flying
    <3>2. Lists(req[t].query)' = Lists(req[t].query)
      BY <3>1, ListsOfRequest
    <3> QED
      BY <3>1, <3>2 DEF Calm, ListsAnswered
  <2> QED
    BY <2>1, <2>2
<1>6. CallsHeard' /\ CarriedOut'
  BY <1>3 DEF CallsHeard, CarriedOut
<1>7. RowsFit'
  <2>1. Refreshing => Refreshing'
    BY <1>2, <1>3 DEF Refreshing, Flying
  <2>2. \A i : ~ Behind(i)
    BY <1>3 DEF Behind
  <2> QED
    BY <2>1, <2>2 DEF Calm, RowsFit, IsCurrent, Displayed
<1>8. DoneFits'
  BY ShapesKept DEF Calm, DoneFits
<1>9. ListFits'
  BY <1>1, <1>2 DEF ListFits, Awaiting, Flying, ListKind
<1> QED
  BY <1>4, <1>5, <1>6, <1>7, <1>8, <1>9 DEF Calm

\* A call is sent: nothing else is in flight.
LEMMA CalledCalm ==
  ASSUME LockInv, Calm, NEW s \in Slot, req[s] = Idle,
         NEW kind \in CallKind, NEW q, NEW id, NEW val,
         kind = "return" => q = query,
         req' = [req EXCEPT ![s] = Request(kind, q, id, val)],
         ~ Overlap(req'), UNCHANGED <<view, table, query, rows, timer, done, patched>>
  PROVE  Calm'
<1> DEFINE new == Request(kind, q, id, val)
<1>1. /\ new.kind = kind /\ new.query = q /\ new.here /\ new.live
      /\ new.answer = Pending /\ new # Idle
  BY DEF Request, Idle
<1>2. req'[s] = new /\ \A t \in Slot \ {s} : req'[t] = req[t]
  BY SlotTaken
<1> HIDE DEF new
<1>3. \A t \in Slot : req[t] = Idle
  BY <1>1, <1>2 DEF Overlap
<1>4. \A t \in Slot \ {s} : req'[t] = Idle
  BY <1>2, <1>3
<1>5. kind \notin ListKind
  BY DEF CallKind, ListKind
<1>6. ~ Overlap(req)'
  OBVIOUS
<1>7. ListsAnswered'
  BY <1>1, <1>2, <1>4, <1>5 DEF ListsAnswered, Flying
<1>8. CallsHeard'
  BY <1>1, <1>2, <1>4 DEF CallsHeard, Flying, Deaf
<1>9. CarriedOut'
  BY <1>1, <1>2, <1>4 DEF CarriedOut, Carried, Flying
<1>10. RowsFit'
  <2>1. ~ Refreshing /\ \A i : ~ Behind(i)
    BY <1>3 DEF Refreshing, Behind, Flying, Carried
  <2> QED
    BY <2>1 DEF Calm, RowsFit, IsCurrent, Displayed
<1>11. DoneFits'
  BY ShapesKept DEF Calm, DoneFits
<1>12. ListFits'
  <2>1. Lists(query)' = Lists(query)
    BY ListsOfQuery
  <2>2. Awaiting => Awaiting'
    BY <1>3, ShapesKept DEF Awaiting, Flying, Carried
  <2> QED
    BY <2>1, <2>2 DEF Calm, ListFits
<1> QED
  BY <1>6, <1>7, <1>8, <1>9, <1>10, <1>11, <1>12 DEF Calm

-----------------------------------------------------------------------------
(* Requests are served *)

\* The request in slot s has an answer; nothing else about the requests changes.
AnsweredWith(s, a) ==
  /\ req[s] # Idle /\ req'[s] # Idle
  /\ req'[s].kind = req[s].kind /\ req'[s].query = req[s].query
  /\ req'[s].id = req[s].id /\ req'[s].val = req[s].val
  /\ req'[s].here = req[s].here /\ req'[s].live = req[s].live
  /\ req'[s].answer = a
  /\ \A t \in Slot \ {s} : req'[t] = req[t]

LEMMA AnsweredSame ==
  ASSUME LockInv, NEW s \in Slot, req[s] # Idle, NEW a,
         req' = [req EXCEPT ![s].answer = a]
  PROVE  AnsweredWith(s, a)
<1>1. Formed(req[s])
  BY DEF LockInv, Shaped
<1>2. /\ req'[s] = [req[s] EXCEPT !.answer = a]
      /\ \A t \in Slot \ {s} : req'[t] = req[t]
  BY DEF LockInv, Shaped
<1>3. req'[s] # Idle
  BY <1>1, <1>2 DEF Formed, Idle
<1> QED
  BY <1>1, <1>2, <1>3 DEF AnsweredWith, Formed

\* The server lists its rows.
LEMMA ListAnsweredCalm ==
  ASSUME LockInv, Calm, NEW s \in Slot, AnswerList(s)
  PROVE  Calm'
<1>1. PICK l \in Lists(req[s].query) :
        req' = [req EXCEPT ![s].answer = Good(l, Blank)]
  BY DEF AnswerList
<1> DEFINE a == Good(l, Blank)
<1>2. a.ok = TRUE /\ a.rows = l /\ req' = [req EXCEPT ![s].answer = a]
  BY <1>1 DEF Good
<1> HIDE DEF a
<1>3. req[s] # Idle /\ req[s].kind \in ListKind /\ req[s].kind \notin CallKind
  BY DEF AnswerList, ListKind, CallKind
<1>4. AnsweredWith(s, a)
  BY <1>2, <1>3, AnsweredSame
<1>5. UNCHANGED <<view, table, query, rows, timer, done, patched>>
  BY DEF AnswerList, page_vars
<1>6. \A t \in Slot : /\ ~ Flying(t, CallKind) /\ ~ Carried(t)
                      /\ ~ Flying(t, CallKind)' /\ ~ Carried(t)'
  <2>1. \A t \in Slot : ~ Flying(t, CallKind)
    BY <1>3, NoCall DEF Calm
  <2> QED
    BY <1>4, <2>1 DEF AnsweredWith, Flying, Carried
<1>7. \A t \in Slot : \A kinds : Flying(t, kinds)' <=> Flying(t, kinds)
  BY <1>4 DEF AnsweredWith, Flying
<1>8. ~ Overlap(req)'
  BY <1>4 DEF AnsweredWith, Calm, Overlap
<1>9. ListsAnswered'
  <2> SUFFICES ASSUME NEW t \in Slot, Flying(t, ListKind)'
               PROVE  /\ req'[t].here
                      /\ req'[t].answer # Pending =>
                           /\ req'[t].answer.ok
                           /\ req'[t].answer.rows \in Lists(req[t].query)'
    BY DEF ListsAnswered
  <2>1. Flying(t, ListKind)
    BY <1>7
  <2>2. req'[t].query = req[t].query /\ req'[t].here = req[t].here
    BY <1>4 DEF AnsweredWith
  <2>3. Lists(req[t].query)' = Lists(req[t].query)
    BY <1>5, <2>2, ListsOfRequest
  <2>4. CASE t = s
    BY <1>1, <1>2, <1>4, <2>1, <2>2, <2>3, <2>4
       DEF AnsweredWith, Calm, ListsAnswered
  <2>5. CASE t # s
    BY <1>4, <2>1, <2>2, <2>3, <2>5 DEF AnsweredWith, Calm, ListsAnswered
  <2> QED
    BY <2>4, <2>5
<1>10. CallsHeard' /\ CarriedOut'
  BY <1>6 DEF CallsHeard, CarriedOut
<1>11. RowsFit'
  <2>1. Refreshing => Refreshing'
    BY <1>5, <1>6, <1>7 DEF Refreshing
  <2>2. \A i : ~ Behind(i)
    BY <1>6 DEF Behind
  <2> QED
    BY <1>5, <2>1, <2>2 DEF Calm, RowsFit, IsCurrent, Displayed
<1>12. DoneFits'
  BY <1>5, ShapesKept DEF Calm, DoneFits
<1>13. ListFits'
  <2>1. Lists(query)' = Lists(query)
    BY <1>5, ListsOfQuery
  <2>2. \A t \in Slot : Flying(t, ListKind) => req'[t].query = req[t].query
    BY <1>4 DEF AnsweredWith
  <2>3. Awaiting => Awaiting'
    BY <1>5, <1>6, <1>7, <2>2, ShapesKept DEF Awaiting
  <2> QED
    BY <1>5, <2>1, <2>3 DEF Calm, ListFits
<1> QED
  BY <1>8, <1>9, <1>10, <1>11, <1>12, <1>13 DEF Calm

\* An answer to a call, good or bad.
LEMMA CallServed ==
  ASSUME LockInv, Calm, NEW s \in Slot, NEW a, Flying(s, CallKind),
         AnsweredWith(s, a), UNCHANGED <<view, query, rows, timer>>
  PROVE  /\ ~ Overlap(req)' /\ ListsAnswered' /\ CallsHeard'
         /\ Flying(s, CallKind)'
         /\ \A t \in Slot \ {s} : req[t] = Idle /\ req'[t] = Idle
<1>1. \A t \in Slot \ {s} : req[t] = Idle /\ req'[t] = Idle
  BY OneCall DEF Calm, AnsweredWith
<1>2. Flying(s, CallKind)'
  BY DEF AnsweredWith, Flying
<1>3. \A t \in Slot : ~ Flying(t, ListKind)'
  BY <1>1, <1>2 DEF Flying, CallKind, ListKind
<1>4. CallsHeard'
  <2>1. BlankSearch' = BlankSearch
    BY ShapesKept
  <2> QED
    BY <1>1, <2>1 DEF Calm, CallsHeard, AnsweredWith, Flying, Deaf
<1> QED
  BY <1>1, <1>2, <1>3, <1>4 DEF Overlap, ListsAnswered

\* A call that is not answered yet has changed nothing.
LEMMA BeforeCall ==
  ASSUME Calm, NEW s \in Slot, Flying(s, CallKind), req[s].answer = Pending
  PROVE  /\ \A n \in DOMAIN rows : IsCurrent(rows[n])
         /\ Awaiting => timer \/ BlankSearch
<1>1. \A t \in Slot \ {s} : req[t] = Idle
  BY OneCall DEF Calm
<1>2. \A t \in Slot : ~ Carried(t) /\ ~ Flying(t, ListKind)
  BY <1>1 DEF Carried, Flying, CallKind, ListKind
<1>3. ~ Refreshing /\ \A i : ~ Behind(i)
  BY <1>2 DEF Refreshing, Behind, Flying, ListKind
<1> QED
  BY <1>2, <1>3 DEF Calm, RowsFit, Awaiting

LEMMA RefusedCalm ==
  ASSUME LockInv, Calm, NEW s \in Slot, Flying(s, CallKind),
         req[s].answer = Pending, req' = [req EXCEPT ![s].answer = Bad],
         UNCHANGED <<view, table, query, rows, timer, done, patched>>
  PROVE  Calm'
<1>1. AnsweredWith(s, Bad) /\ Bad.ok = FALSE
  BY AnsweredSame DEF Flying, Bad
<1>2. /\ ~ Overlap(req)' /\ ListsAnswered' /\ CallsHeard'
      /\ \A t \in Slot \ {s} : req'[t] = Idle
  BY <1>1, CallServed
<1>3. \A t \in Slot : ~ Carried(t)'
  BY <1>1, <1>2 DEF AnsweredWith, Carried, Flying
<1>4. CarriedOut'
  BY <1>3 DEF CarriedOut
<1>5. RowsFit'
  BY BeforeCall DEF RowsFit, IsCurrent, Displayed
<1>6. DoneFits'
  BY ShapesKept DEF Calm, DoneFits
<1>7. ListFits'
  <2>1. Lists(query)' = Lists(query)
    BY ListsOfQuery
  <2> QED
    BY <2>1, BeforeCall, ShapesKept DEF Calm, ListFits, Awaiting
<1> QED
  BY <1>2, <1>4, <1>5, <1>6, <1>7 DEF Calm

\* A call is carried out, with the effect it has for the rows on the screen.
LEMMA CarriedCalm ==
  ASSUME LockInv, Calm, NEW s \in Slot, Flying(s, CallKind),
         req[s].answer = Pending, NEW val, Good(<<>>, val) # Pending,
         req' = [req EXCEPT ![s].answer = Good(<<>>, val)],
         UNCHANGED <<view, query, rows, timer, done, patched>>,
         req[s].kind = "create" =>
           val \in DOMAIN table' /\ table'[val] = req[s].val,
         req[s].kind = "save" =>
           req[s].id \in DOMAIN table' /\ table'[req[s].id] = req[s].val,
         req[s].kind = "borrow" =>
           req[s].id \in DOMAIN table' /\ table'[req[s].id] = "mine",
         \A i \in DOMAIN table :
           \/ i \in DOMAIN table' /\ table'[i] = table[i]
           \/ req[s].kind \in {"save", "remove", "borrow"} /\ req[s].id = i
           \/ req[s].kind \in {"return", "mark"},
         \A i \in done : i \in DOMAIN table' /\ table'[i] = "mine"
  PROVE  Calm'
<1> DEFINE a == Good(<<>>, val)
<1>1. a.ok = TRUE /\ a.val = val /\ a # Pending
      /\ req' = [req EXCEPT ![s].answer = a]
  BY DEF Good
<1> HIDE DEF a
<1>2. AnsweredWith(s, a)
  BY <1>1, AnsweredSame DEF Flying
<1>3. /\ ~ Overlap(req)' /\ ListsAnswered' /\ CallsHeard' /\ Flying(s, CallKind)'
      /\ \A t \in Slot \ {s} : req'[t] = Idle
  BY <1>2, CallServed
<1>4. Carried(s)'
  BY <1>1, <1>2, <1>3 DEF Carried, AnsweredWith
<1>5. CarriedOut'
  BY <1>1, <1>2, <1>3 DEF CarriedOut, Carried, Flying, AnsweredWith
<1>6. RowsFit'
  <2>1. CASE req[s].kind \in {"return", "mark"}
    BY <1>2, <1>4, <2>1 DEF RowsFit, Refreshing, AnsweredWith
  <2>2. CASE req[s].kind \notin {"return", "mark"}
    <3> SUFFICES ASSUME NEW n \in DOMAIN rows
                 PROVE  Behind(rows[n].id)' \/ IsCurrent(rows[n])'
      BY DEF RowsFit
    <3>1. IsCurrent(rows[n])
      BY BeforeCall
    <3>2. CASE req[s].kind \in {"save", "remove", "borrow"} /\ req[s].id = rows[n].id
      BY <1>2, <1>4, <3>2 DEF Behind, AnsweredWith
    <3>3. CASE rows[n].id \in DOMAIN table' /\ table'[rows[n].id] = table[rows[n].id]
      BY <3>1, <3>3 DEF IsCurrent, Displayed
    <3> QED
      BY <2>2, <3>1, <3>2, <3>3 DEF IsCurrent
  <2> QED
    BY <2>1, <2>2
<1>7. DoneFits'
  BY ShapesKept DEF Calm, DoneFits
<1>8. ListFits'
  BY <1>4 DEF ListFits, Awaiting
<1> QED
  BY <1>3, <1>5, <1>6, <1>7, <1>8 DEF Calm

\* An answer is told from none.
LEMMA GoodAnswer ==
  ASSUME NEW val \in AnyContent \cup {Blank} \cup Id
  PROVE  Good(<<>>, val) # Pending
<1> DEFINE lists == Seq([id : Id, val : AnyContent])
<1>1. <<>> \in lists
  OBVIOUS
<1> HIDE DEF lists
<1>2. ASSUME NEW vals, val \in vals
      PROVE  Good(<<>>, val) \in [ok : BOOLEAN, rows : lists, val : vals]
  BY <1>1, <1>2 DEF Good
<1>3. \/ Good(<<>>, val) \in AnswersWith(AnyContent \cup {Blank})
      \/ Good(<<>>, val) \in AnswersWith(Id)
  BY <1>2 DEF AnswersWith, lists
<1> QED
  BY <1>3, PendingAssumption

LEMMA CarryCalm ==
  ASSUME LockInv, Calm, NEW s \in Slot, NEW kind \in CallKind, NEW ok,
         NEW new_table, NEW val \in AnyContent \cup {Blank} \cup Id,
         Carry(s, kind, ok, new_table, val),
         ok =>
           /\ kind = "create" =>
                val \in DOMAIN new_table /\ new_table[val] = req[s].val
           /\ kind = "save" =>
                req[s].id \in DOMAIN new_table /\ new_table[req[s].id] = req[s].val
           /\ kind = "borrow" =>
                req[s].id \in DOMAIN new_table /\ new_table[req[s].id] = "mine"
           /\ \A i \in DOMAIN table :
                \/ i \in DOMAIN new_table /\ new_table[i] = table[i]
                \/ kind \in {"save", "remove", "borrow"} /\ req[s].id = i
                \/ kind \in {"return", "mark"}
           /\ kind = "borrow" \/ done = {}
  PROVE  Calm'
<1>1. /\ Flying(s, CallKind) /\ req[s].kind = kind /\ req[s].answer = Pending
      /\ UNCHANGED <<view, query, rows, timer, done, patched>>
  BY DEF Carry, Flying, page_vars
<1>2. CASE table' = table /\ req' = [req EXCEPT ![s].answer = Bad]
  BY <1>1, <1>2, RefusedCalm
<1>3. CASE ok /\ table' = new_table
              /\ req' = [req EXCEPT ![s].answer = Good(<<>>, val)]
  <2>1. \A i \in done : i \in DOMAIN table' /\ table'[i] = "mine"
    <3> SUFFICES ASSUME NEW i \in done
                 PROVE  i \in DOMAIN table' /\ table'[i] = "mine"
      OBVIOUS
    <3>1. i \in DOMAIN table /\ table[i] = "mine" /\ kind = "borrow"
      BY <1>3 DEF Calm, DoneFits
    <3> QED
      BY <1>3, <3>1
  <2> QED
    BY <1>1, <1>3, <2>1, GoodAnswer, CarriedCalm
<1> QED
  BY <1>2, <1>3 DEF Carry

LEMMA ServeCalm ==
  ASSUME Typed, LockInv, Calm, NEW s \in Slot, Serve(s)
  PROVE  Calm'
<1>1. ASSUME NEW kind \in CallKind, req[s] # Idle, req[s].kind = kind
      PROVE  /\ Fitting(kind)
             /\ kind \in {"save", "remove", "return", "borrow"} => req[s].id \in Id
             /\ kind \in {"create", "save"} => req[s].val \in AnyContent
  <2>1. Content \subseteq AnyContent
    BY DEF Content, AnyContent, Typed, View, Shelves
  <2> QED
    BY <1>1, <2>1 DEF Typed, AllMeant, Meant
<1>2. ASSUME NEW kind \in CallKind \ {"borrow"}, Fitting(kind)
      PROVE  done = {}
  BY <1>2 DEF Fitting, CallKind, Shelves, Calm, DoneFits
<1>3. CASE ServeCreate(s)
  <2>1. PICK i \in Id \ issued :
          Carry(s, "create", Unused(req[s].val, i), With(i, req[s].val), i)
    BY <1>3 DEF ServeCreate
  <2>2. done = {}
    BY <1>1, <1>2, <2>1 DEF Carry, CallKind
  <2>3. i \notin DOMAIN table
    BY <2>1 DEF Typed, TableTyped
  <2>4. /\ i \in DOMAIN With(i, req[s].val) /\ With(i, req[s].val)[i] = req[s].val
        /\ \A j \in DOMAIN table :
             j \in DOMAIN With(i, req[s].val) /\ With(i, req[s].val)[j] = table[j]
    BY <2>3 DEF With
  <2> QED
    BY <2>1, <2>2, <2>4, CarryCalm DEF CallKind
<1>4. CASE ServeSave(s)
  <2> DEFINE new == With(req[s].id, req[s].val)
  <2>1. Carry(s, "save",
              req[s].id \in DOMAIN table /\ Unused(req[s].val, req[s].id),
              new, req[s].val)
    BY <1>4 DEF ServeSave
  <2>2. done = {} /\ req[s].val \in AnyContent
    BY <1>1, <1>2, <2>1 DEF Carry, CallKind
  <2>3. /\ req[s].id \in DOMAIN new /\ new[req[s].id] = req[s].val
        /\ \A j \in DOMAIN table : j # req[s].id =>
             j \in DOMAIN new /\ new[j] = table[j]
    BY DEF With
  <2> HIDE DEF new
  <2> QED
    BY <2>1, <2>2, <2>3, CarryCalm DEF CallKind
<1>5. CASE ServeRemove(s)
  <2> DEFINE new == Without(req[s].id)
  <2>1. Carry(s, "remove", req[s].id \in DOMAIN table, new, Blank)
    BY <1>5 DEF ServeRemove
  <2>2. done = {}
    BY <1>1, <1>2, <2>1 DEF Carry, CallKind
  <2>3. \A j \in DOMAIN table : j # req[s].id => j \in DOMAIN new /\ new[j] = table[j]
    BY DEF Without
  <2> HIDE DEF new
  <2> QED
    BY <2>1, <2>2, <2>3, CarryCalm DEF CallKind
<1>6. CASE ServeReturn(s)
  <2> DEFINE new == With(req[s].id, "returned")
  <2>1. Carry(s, "return", req[s].id \in DOMAIN table, new, "returned")
    BY <1>6 DEF ServeReturn
  <2>2. done = {} /\ "returned" \in AnyContent
    BY <1>1, <1>2, <2>1 DEF Carry, CallKind, AnyContent, Status
  <2> HIDE DEF new
  <2> QED
    BY <2>1, <2>2, CarryCalm DEF CallKind
<1>7. CASE ServeMark(s)
  <2> DEFINE new == [i \in DOMAIN table |->
                       IF i \in Due /\ table[i] = "borrowed" THEN "overdue"
                       ELSE table[i]]
  <2>1. Carry(s, "mark", TRUE, new, Blank)
    BY <1>7 DEF ServeMark
  <2> HIDE DEF new
  <2>2. done = {}
    BY <1>1, <1>2, <2>1 DEF Carry, CallKind
  <2> QED
    BY <2>1, <2>2, CarryCalm DEF CallKind
<1>8. CASE ServeBorrow(s)
  <2> DEFINE new == [table EXCEPT ![req[s].id] = "mine"]
             ok == req[s].id \in DOMAIN table /\ table[req[s].id] = "offered"
  <2>1. Carry(s, "borrow", ok, new, "mine")
    BY <1>8 DEF ServeBorrow
  <2>2. "mine" \in AnyContent
    BY DEF AnyContent, Availability
  <2>3. ok => /\ req[s].id \in DOMAIN new /\ new[req[s].id] = "mine"
              /\ \A j \in DOMAIN table : j # req[s].id =>
                   j \in DOMAIN new /\ new[j] = table[j]
    OBVIOUS
  <2> HIDE DEF new, ok
  <2> QED
    BY <2>1, <2>2, <2>3, CarryCalm DEF CallKind
<1> QED
  BY <1>3, <1>4, <1>5, <1>6, <1>7, <1>8, ListAnsweredCalm DEF Serve, ServeLibrarian

-----------------------------------------------------------------------------
(* Lists arrive *)

\* A list is shown that answers the query on the screen, or is overtaken by none
\* that does.
LEMMA ListShownCalm ==
  ASSUME Typed, LockInv, Calm, view' = view, NEW s \in Slot, Flying(s, ListKind),
         req[s].answer # Pending, NEW dlg, NEW flags,
         ShowRows(req[s].answer.rows, dlg, flags, done, Over(s)),
         UNCHANGED <<table, query, timer>>, patched' = FALSE, ~ Overtaken(s)
  PROVE  Calm'
<1> DEFINE list == req[s].answer.rows
           asked == req[s].query
<1>1. list \in Lists(asked) /\ asked \in Query
  BY DEF Calm, ListsAnswered, Flying, Typed, AllMeant, Meant, IsRequest
<1>2. /\ rows' = list /\ done' = done \cap Components(list)
      /\ req'[s] = Idle /\ \A t \in Slot \ {s} : Same(t)
  <2>1. rows' = list /\ done' = done \cap Components(list)
    BY DEF ShowRows
  <2>2. GoesOn(Over(s), {s})
    BY OverGoesOn
  <2> QED
    BY <2>1, <2>2, ShownRequests
<1>3. req[s] # Idle /\ req[s].kind \notin CallKind
  BY DEF Flying, ListKind, CallKind
<1>4. \A t \in Slot : ~ Flying(t, CallKind)
  BY <1>3, NoCall DEF Calm
<1>5. \A t \in Slot : ~ Flying(t, CallKind)' /\ ~ Carried(t)'
  BY <1>2, <1>4 DEF Same, Flying, Carried
<1>6. ~ Overlap(req)'
  BY <1>5 DEF Overlap, Flying
<1>7. ListsAnswered'
  <2> SUFFICES ASSUME NEW t \in Slot, Flying(t, ListKind)'
               PROVE  /\ req'[t].here
                      /\ req'[t].answer # Pending =>
                           /\ req'[t].answer.ok
                           /\ req'[t].answer.rows \in Lists(req[t].query)'
    BY DEF ListsAnswered
  <2>1. Flying(t, ListKind) /\ t # s /\ req[t] # Idle
    BY <1>2 DEF Flying, Same
  <2>2. /\ req'[t].query = req[t].query /\ req'[t].here = req[t].here
        /\ req'[t].answer = req[t].answer
    BY <1>2, <2>1 DEF Same
  <2>3. Lists(req[t].query)' = Lists(req[t].query)
    BY <2>2, ListsOfRequest
  <2> QED
    BY <2>1, <2>2, <2>3 DEF Calm, ListsAnswered
<1>8. CallsHeard' /\ CarriedOut'
  BY <1>5 DEF CallsHeard, CarriedOut
<1>9. \A i \in done' : view \in Shelves /\ i \in DOMAIN table /\ table[i] = "mine"
                         /\ i \in Components(list)
  BY <1>2 DEF Calm, DoneFits
<1>10. RowsFit'
  <2>1. IsFiniteSet(DOMAIN table)
    BY DEF Typed, TableTyped, IsTable
  <2>2. \A n \in DOMAIN list : list[n].id \in DOMAIN table
                               /\ list[n].val = table[list[n].id]
    BY <1>1, <2>1, ListsCurrent
  <2> QED
    BY <1>2, <1>9, <2>2 DEF RowsFit, IsCurrent, Displayed
<1>11. DoneFits'
  <2>1. Components(rows)' = Components(list)
    BY <1>2 DEF Components
  <2> QED
    BY <1>9, <2>1 DEF DoneFits
<1>12. ListFits'
  <2>1. Lists(query)' = Lists(query)
    BY ListsOfQuery
  <2>2. CASE asked = query
    BY <1>1, <1>2, <2>1, <2>2 DEF ListFits
  <2>3. CASE asked # query
    <3>1. BlankSearch' = BlankSearch
      BY ShapesKept
    <3>2. CASE timer \/ BlankSearch
      BY <3>1, <3>2 DEF ListFits, Awaiting
    <3>3. CASE ~ (timer \/ BlankSearch)
      <4>1. PICK t \in Slot \ {s} : Flying(t, ListKind) /\ req[t].query = query
        BY <2>3, <3>3 DEF Overtaken, Flying
      <4>2. Flying(t, ListKind)' /\ req'[t].query = query
        BY <1>2, <4>1 DEF Same, Flying
      <4> QED
        BY <4>2 DEF ListFits, Awaiting
    <3> QED
      BY <3>2, <3>3
  <2> QED
    BY <2>2, <2>3
<1> QED
  BY <1>6, <1>7, <1>8, <1>10, <1>11, <1>12 DEF Calm

LEMMA ListArrivesCalm ==
  ASSUME Typed, LockInv, Calm, view' = view, NEW s \in Slot, NEW v, NEW on_error,
         ListArrives(s, v, on_error), ~ disturbed'
  PROVE  Calm'
<1>1. Flying(s, ListKind) /\ req[s].answer # Pending
  BY DEF ListArrives, Answered, Flying, ListKind
<1>2. req[s].here /\ req[s].answer.ok
  BY <1>1 DEF Calm, ListsAnswered
<1>3. /\ ShowRows(req[s].answer.rows, dialog, busy, done, Over(s))
      /\ patched' = FALSE /\ ~ Overtaken(s) /\ UNCHANGED <<table, query, timer>>
  BY <1>2 DEF ListArrives
<1> QED
  BY <1>1, <1>3, ListShownCalm

LEMMA ReloadArrivesCalm ==
  ASSUME Typed, LockInv, Calm, view' = view, NEW s \in Slot, ReloadArrives(s),
         ~ disturbed'
  PROVE  Calm'
<1>1. Flying(s, ListKind) /\ req[s].answer # Pending
  BY DEF ReloadArrives, Answered, Flying, ListKind
<1>2. req[s].here
  BY <1>1 DEF Calm, ListsAnswered
<1>3. /\ ShowRows(req[s].answer.rows, ReturnClosed, busy, done, Over(s))
      /\ patched' = FALSE /\ ~ Overtaken(s) /\ UNCHANGED <<table, query, timer>>
  BY <1>2 DEF ReloadArrives
<1> QED
  BY <1>1, <1>3, ListShownCalm

\* Something is typed into a search: its list is to be asked for, or none is.
LEMMA QuickTypeCalm ==
  ASSUME Typed, LockInv, ButtonsMounted, Calm, view' = view, NEW f \in Filters,
         QuickType(f)
  PROVE  Calm'
<1> DEFINE list == IF f = Blank THEN <<>> ELSE rows
<1>1. /\ view \in Searches /\ query' = [query EXCEPT !.filter = f]
      /\ timer' = (f # Blank) /\ UNCHANGED <<table, patched>>
      /\ ShowRows(list, dialog, busy, done, req)
  BY DEF QuickType
<1>2. timer' \/ BlankSearch'
  <2>1. query \in Query
    BY DEF Typed, PageTyped
  <2>2. query'.filter = f
    BY <1>1, <2>1 DEF Query
  <2> QED
    BY <1>1, <2>2 DEF BlankSearch
<1>3. list = <<>> \/ list = rows
  OBVIOUS
<1>4. rows' = list /\ done' = done \cap Components(list)
  BY <1>1 DEF ShowRows
<1>5. \A t \in Slot :
        /\ Same(t)
        /\ req[t] # Idle =>
             (req'[t].live <=> req[t].live /\ req[t].id \in Components(list) \cup {0})
  <2>1. GoesOn(req, {})
    BY DEF GoesOn
  <2> HIDE DEF list
  <2> QED
    BY <1>1, <2>1, ShownRequests
<1> HIDE DEF list
<1>6. \A t \in Slot : \A kinds : Flying(t, kinds)' <=> Flying(t, kinds)
  BY <1>5 DEF Flying, Same
<1>7. ~ Overlap(req)'
  BY <1>5 DEF Calm, Overlap, Same
<1>8. ListsAnswered'
  <2> SUFFICES ASSUME NEW t \in Slot, Flying(t, ListKind)'
               PROVE  /\ req'[t].here
                      /\ req'[t].answer # Pending =>
                           /\ req'[t].answer.ok
                           /\ req'[t].answer.rows \in Lists(req[t].query)'
    BY DEF ListsAnswered
  <2>1. Flying(t, ListKind) /\ req[t] # Idle
    BY <1>6 DEF Flying
  <2>2. /\ req'[t].query = req[t].query /\ req'[t].here = req[t].here
        /\ req'[t].answer = req[t].answer
    BY <1>5, <2>1 DEF Same
  <2>3. Lists(req[t].query)' = Lists(req[t].query)
    BY <1>1, <2>2, ListsOfRequest
  <2> QED
    BY <2>1, <2>2, <2>3 DEF Calm, ListsAnswered
<1>9. CallsHeard'
  <2> SUFFICES ASSUME NEW t \in Slot, Flying(t, CallKind)'
               PROVE  /\ Deaf(req'[t]) => rows' = <<>>
                      /\ req'[t].kind # "return"
    BY <1>1, <1>2 DEF CallsHeard
  <2>1. Flying(t, CallKind) /\ req[t] # Idle
    BY <1>6 DEF Flying
  <2>2. req'[t].kind = req[t].kind /\ req'[t].here = req[t].here
        /\ (req'[t].live <=> req[t].live /\ req[t].id \in Components(list) \cup {0})
    BY <1>5, <2>1 DEF Same
  <2>3. req[t].kind # "return"
    BY <1>1, <2>1 DEF Typed, AllMeant, Meant, Fitting, Searches
  <2>4. CASE Deaf(req[t])
    BY <1>3, <1>4, <2>1, <2>2, <2>3, <2>4 DEF Calm, CallsHeard
  <2>5. CASE ~ Deaf(req[t])
    <3>1. list = rows => ~ Deaf(req'[t])
      BY <2>1, <2>2, <2>5 DEF Deaf, ButtonsMounted, Flying
    <3> QED
      BY <1>3, <1>4, <2>2, <2>3, <3>1
  <2> QED
    BY <2>4, <2>5
<1>10. \A t \in Slot : Carried(t)' <=> Carried(t)
  BY <1>5, <1>6 DEF Carried, Same, Flying
<1>11. CarriedOut'
  BY <1>1, <1>5, <1>10 DEF Calm, CarriedOut, Carried, Flying, Same
<1>12. RowsFit'
  <2>1. CASE list = <<>>
    BY <1>4, <2>1 DEF RowsFit
  <2>2. CASE list = rows
    <3>1. ~ Refreshing
      <4>1. \A t \in Slot : req[t] # Idle => Fitting(req[t].kind)
        BY DEF Typed, AllMeant, Meant
      <4> QED
        BY <1>1, <4>1 DEF Refreshing, Flying, Carried, Fitting, Searches
    <3>2. done' = done
      BY <1>4, <2>2 DEF Calm, DoneFits
    <3>3. \A i : Behind(i) => Behind(i)'
      BY <1>5, <1>10 DEF Behind, Carried, Flying, Same
    <3> QED
      BY <1>1, <1>4, <2>2, <3>1, <3>2, <3>3 DEF Calm, RowsFit, IsCurrent, Displayed
  <2> QED
    BY <1>3, <2>1, <2>2
<1>13. DoneFits'
  <2>1. Components(rows)' = Components(list)
    BY <1>4 DEF Components
  <2> QED
    BY <1>1, <1>4, <2>1 DEF Calm, DoneFits
<1>14. ListFits'
  BY <1>2 DEF ListFits, Awaiting
<1> QED
  BY <1>7, <1>8, <1>9, <1>11, <1>12, <1>13, <1>14 DEF Calm

-----------------------------------------------------------------------------
(* Calls are answered *)

\* Nothing is in flight.
LEMMA QuietCalm ==
  ASSUME \A t \in Slot : req'[t] = Idle,
         \A n \in DOMAIN rows' : IsCurrent(rows[n])',
         DoneFits', ListFits'
  PROVE  Calm'
<1>1. \A t \in Slot : \A kinds : ~ Flying(t, kinds)' /\ ~ Carried(t)'
  BY DEF Flying, Carried
<1>2. ~ Overlap(req)'
  BY DEF Overlap
<1>3. ListsAnswered' /\ CallsHeard' /\ CarriedOut'
  BY <1>1 DEF ListsAnswered, CallsHeard, CarriedOut
<1>4. RowsFit'
  BY DEF RowsFit
<1> QED
  BY <1>2, <1>3, <1>4 DEF Calm

\* When a call has been answered, the list is as it was but for the row it is
\* about, and the page knows what the server has done with that row.
LEMMA AfterCall ==
  ASSUME Typed, Calm, NEW s \in Slot, Flying(s, CallKind), req[s].answer # Pending
  PROVE  /\ \A t \in Slot \ {s} : req[t] = Idle
         /\ req[s].kind \notin {"return", "mark"} \/ ~ req[s].answer.ok =>
              \A n \in DOMAIN rows :
                \/ IsCurrent(rows[n])
                \/ /\ req[s].answer.ok /\ req[s].id = rows[n].id
                   /\ req[s].kind \in {"save", "remove", "borrow"}
         /\ req[s].kind # "borrow" => req[s].here /\ done = {}
         /\ ~ req[s].answer.ok /\ Awaiting => timer \/ BlankSearch
<1>1. \A t \in Slot \ {s} : req[t] = Idle
  BY OneCall DEF Calm
<1>2. \A t \in Slot : (Carried(t) <=> t = s /\ req[s].answer.ok)
                      /\ ~ Flying(t, ListKind)
  BY <1>1 DEF Carried, Flying, CallKind, ListKind
<1>3. req[s].kind \notin {"return", "mark"} \/ ~ req[s].answer.ok => ~ Refreshing
  BY <1>2 DEF Refreshing, Flying, ListKind
<1>4. Fitting(req[s].kind)
  BY DEF Flying, Typed, AllMeant, Meant
<1>5. req[s].kind # "borrow" => view \notin Searches /\ view \notin Shelves
  BY <1>4 DEF Fitting, Flying, CallKind, Searches, Shelves
<1>6. req[s].kind # "borrow" => req[s].here /\ done = {}
  BY <1>5 DEF Calm, CallsHeard, DoneFits
<1>7. \A i : Behind(i) => /\ req[s].answer.ok /\ req[s].id = i
                          /\ req[s].kind \in {"save", "remove", "borrow"}
  BY <1>2 DEF Behind
<1> QED
  BY <1>1, <1>2, <1>3, <1>6, <1>7 DEF Calm, RowsFit, Awaiting

\* The server refused, or nobody hears: the list stays.
LEMMA UnheardCalm ==
  ASSUME Typed, LockInv, Calm, NEW s \in Slot, Flying(s, CallKind),
         req[s].answer # Pending, ~ req[s].answer.ok \/ Deaf(req[s]),
         \A t \in Slot : req'[t] = Idle,
         UNCHANGED <<view, table, query, rows, timer, done, patched>>
  PROVE  Calm'
<1>1. \A n \in DOMAIN rows : IsCurrent(rows[n])
  BY AfterCall DEF Calm, CallsHeard
<1>2. Awaiting => timer \/ BlankSearch
  BY AfterCall DEF Calm, CallsHeard
<1>3. \A n \in DOMAIN rows' : IsCurrent(rows[n])'
  BY <1>1 DEF IsCurrent, Displayed
<1>4. DoneFits'
  BY ShapesKept DEF Calm, DoneFits
<1>5. ListFits'
  <2>1. Lists(query)' = Lists(query)
    BY ListsOfQuery
  <2> QED
    BY <1>2, <2>1, ShapesKept DEF Calm, ListFits, Awaiting
<1> QED
  BY <1>3, <1>4, <1>5, QuietCalm

\* The list is edited as the server has edited its table.
LEMMA EditedCalm ==
  ASSUME Typed, LockInv, Calm, view' = view, NEW s \in Slot, Flying(s, CallKind),
         req[s].answer # Pending, req[s].kind # "borrow",
         NEW list, NEW dlg, NEW flags, ShowRows(list, dlg, flags, done, Over(s)),
         UNCHANGED <<table, query, timer>>,
         \A n \in DOMAIN list : IsCurrent(list[n]),
         \/ patched' = TRUE
         \/ patched' = patched /\ list = rows /\ ~ req[s].answer.ok
  PROVE  Calm'
<1>1. \A t \in Slot \ {s} : req[t] = Idle
  BY AfterCall
<1>2. done = {} /\ (~ req[s].answer.ok /\ Awaiting => timer \/ BlankSearch)
  BY AfterCall
<1>3. rows' = list /\ done' = {}
  BY <1>2 DEF ShowRows
<1>4. \A t \in Slot : req'[t] = Idle
  <2>1. GoesOn(Over(s), {s})
    BY OverGoesOn
  <2> QED
    BY <1>1, <2>1, ShownRequests DEF Same
<1>5. \A n \in DOMAIN rows' : IsCurrent(rows[n])'
  BY <1>2, <1>3 DEF IsCurrent, Displayed
<1>6. DoneFits'
  BY <1>3 DEF DoneFits
<1>7. ListFits'
  <2>1. Lists(query)' = Lists(query)
    BY ListsOfQuery
  <2>2. BlankSearch' = BlankSearch
    BY ShapesKept
  <2> QED
    BY <1>2, <1>3, <2>1, <2>2 DEF Calm, ListFits, Awaiting
<1> QED
  BY <1>4, <1>5, <1>6, <1>7, QuietCalm

LEMMA CallOver ==
  ASSUME LockInv, NEW s \in Slot, \A t \in Slot \ {s} : req[t] = Idle, req' = Over(s)
  PROVE  \A t \in Slot : req'[t] = Idle
BY DEF Over, LockInv, Shaped

LEMMA CreatedCalm ==
  ASSUME Typed, LockInv, Calm, view' = view, NEW s \in Slot, NEW v, Created(v, s)
  PROVE  Calm'
<1>1. Flying(s, CallKind) /\ req[s].answer # Pending /\ req[s].kind = "create"
  BY DEF Created, Answered, Flying, CallKind
<1>2. /\ \A t \in Slot \ {s} : req[t] = Idle
      /\ \A n \in DOMAIN rows : IsCurrent(rows[n])
      /\ req[s].here /\ done = {}
  BY <1>1, AfterCall
<1>3. CASE req[s].answer.ok
  <2> DEFINE row == [id |-> req[s].answer.val, val |-> req[s].val]
             dlg == IF Creating THEN Closed ELSE dialog
  <2>1. row.id \in DOMAIN table /\ row.val = table[row.id]
    BY <1>1, <1>3 DEF Calm, CarriedOut, Carried
  <2>2. IsCurrent(row)
    BY <1>2, <2>1 DEF IsCurrent, Displayed
  <2>3. /\ ShowRows(<<row>> \o rows, dlg, busy, done, Over(s))
        /\ patched' = TRUE /\ UNCHANGED <<table, query, timer>>
    BY <1>2, <1>3 DEF Created
  <2>4. rows \in Seq(Row)
    BY DEF Typed, PageTyped
  <2> HIDE DEF row, dlg
  <2> DEFINE list == <<row>> \o rows
  <2>5. \A n \in DOMAIN list : list[n] = row \/ \E m \in DOMAIN rows : list[n] = rows[m]
    BY <2>4
  <2>6. ShowRows(list, dlg, busy, done, Over(s))
    BY <2>3
  <2> HIDE DEF list
  <2>7. \A n \in DOMAIN list : IsCurrent(list[n])
    BY <1>2, <2>2, <2>5
  <2> QED
    BY <1>1, <2>3, <2>6, <2>7, EditedCalm
<1>4. CASE ~ req[s].answer.ok
  <2>1. req' = Over(s) /\ UNCHANGED <<table, query, rows, timer, done, patched>>
    BY <1>4 DEF Created
  <2>2. \A t \in Slot : req'[t] = Idle
    BY <1>2, <2>1, CallOver
  <2> QED
    BY <1>1, <1>4, <2>1, <2>2, UnheardCalm
<1> QED
  BY <1>3, <1>4

LEMMA SavedCalm ==
  ASSUME Typed, LockInv, Calm, view' = view, NEW s \in Slot, NEW v, NEW dlg,
         Saved(v, s, dlg)
  PROVE  Calm'
<1>1. Flying(s, CallKind) /\ req[s].answer # Pending /\ req[s].kind = "save"
  BY DEF Saved, Answered, Flying, CallKind
<1>2. /\ \A n \in DOMAIN rows : IsCurrent(rows[n])
                                \/ (req[s].answer.ok /\ req[s].id = rows[n].id)
      /\ req[s].here /\ done = {}
  BY <1>1, AfterCall
<1>3. req[s].answer.ok \in BOOLEAN /\ patched \in BOOLEAN
  BY <1>1 DEF Flying, Typed, AllMeant, Meant, IsRequest
<1> DEFINE list == IF req[s].answer.ok THEN Replaced(req[s].id, req[s].val) ELSE rows
<1>4. /\ ShowRows(list, dlg, Released(s), done, Over(s))
      /\ patched' = (patched \/ req[s].answer.ok) /\ UNCHANGED <<table, query, timer>>
  BY <1>2 DEF Saved
<1>5. \A n \in DOMAIN list : IsCurrent(list[n])
  <2>1. CASE req[s].answer.ok
    <3> DEFINE row == [id |-> req[s].id, val |-> req[s].val]
    <3>1. row.id \in DOMAIN table /\ row.val = table[row.id]
      BY <1>1, <2>1 DEF Calm, CarriedOut, Carried
    <3>2. IsCurrent(row)
      BY <1>2, <3>1 DEF IsCurrent, Displayed
    <3>3. list = [n \in DOMAIN rows |-> IF rows[n].id = req[s].id THEN row ELSE rows[n]]
      BY <2>1 DEF Replaced
    <3> HIDE DEF row, list
    <3> QED
      BY <1>2, <3>2, <3>3
  <2>2. CASE ~ req[s].answer.ok
    BY <1>2, <2>2
  <2> QED
    BY <2>1, <2>2
<1>6. \/ patched' = TRUE
      \/ patched' = patched /\ list = rows /\ ~ req[s].answer.ok
  BY <1>3, <1>4
<1> HIDE DEF list
<1> QED
  BY <1>1, <1>4, <1>5, <1>6, EditedCalm

LEMMA RemovedCalm ==
  ASSUME Typed, LockInv, Calm, view' = view, NEW s \in Slot, NEW v, NEW flags,
         Removed(v, s, flags)
  PROVE  Calm'
<1>1. Flying(s, CallKind) /\ req[s].answer # Pending /\ req[s].kind = "remove"
  BY DEF Removed, Answered, Flying, CallKind
<1>2. /\ \A n \in DOMAIN rows : IsCurrent(rows[n])
                                \/ (req[s].answer.ok /\ req[s].id = rows[n].id)
      /\ req[s].here
  BY <1>1, AfterCall
<1>3. /\ req[s].answer.ok \in BOOLEAN /\ patched \in BOOLEAN
      /\ rows \in Seq(Row)
  BY <1>1 DEF Flying, Typed, AllMeant, Meant, IsRequest, PageTyped
<1>4. PICK list \in IF req[s].answer.ok THEN RowsWithout(req[s].id) ELSE {rows} :
        ShowRows(list, dialog, flags, done, Over(s))
  BY <1>2 DEF Removed
<1>5. patched' = (patched \/ req[s].answer.ok) /\ UNCHANGED <<table, query, timer>>
  BY <1>2 DEF Removed
<1>6. \A n \in DOMAIN list : IsCurrent(list[n])
  <2>1. CASE req[s].answer.ok
    <3>1. \A n \in DOMAIN list :
            list[n].id # req[s].id /\ \E m \in DOMAIN rows : list[n] = rows[m]
      BY <1>3, <1>4, <2>1, RowsWithoutTyped
    <3> QED
      BY <1>2, <3>1
  <2>2. CASE ~ req[s].answer.ok
    BY <1>2, <1>4, <2>2
  <2> QED
    BY <2>1, <2>2
<1>7. \/ patched' = TRUE
      \/ patched' = patched /\ list = rows /\ ~ req[s].answer.ok
  BY <1>3, <1>4, <1>5
<1> QED
  BY <1>1, <1>4, <1>5, <1>6, <1>7, EditedCalm

\* A call is followed by a list: the whole of it is to be asked for anew.
LEMMA FollowedCalm ==
  ASSUME Typed, LockInv, Calm, NEW s \in Slot, Flying(s, CallKind),
         req[s].answer # Pending, req[s].kind # "borrow",
         NEW r, req' = [req EXCEPT ![s] = r], r # Idle, r.query = query, r.here,
         r.answer = Pending,
         r.kind = "reload" \/ (r.kind = "list" /\ view = "desk"),
         UNCHANGED <<view, table, query, rows, timer, done, patched>>
  PROVE  Calm'
<1>1. \A t \in Slot \ {s} : req[t] = Idle
  BY AfterCall
<1>2. req'[s] = r /\ \A t \in Slot \ {s} : req'[t] = Idle
  BY <1>1, SlotTaken
<1>3. r.kind \in ListKind /\ r.kind \notin CallKind
  BY DEF ListKind, CallKind
<1>4. \A t \in Slot : ~ Flying(t, CallKind)' /\ ~ Carried(t)'
  BY <1>2, <1>3 DEF Flying, Carried
<1>5. ~ Overlap(req)'
  BY <1>2, <1>3 DEF Overlap
<1>6. ListsAnswered'
  BY <1>2 DEF ListsAnswered, Flying
<1>7. CallsHeard' /\ CarriedOut'
  BY <1>4 DEF CallsHeard, CarriedOut
<1>8. RowsFit'
  BY <1>2 DEF RowsFit, Refreshing, Flying
<1>9. DoneFits'
  BY ShapesKept DEF Calm, DoneFits
<1>10. ListFits'
  BY <1>2, <1>3 DEF ListFits, Awaiting, Flying
<1> QED
  BY <1>5, <1>6, <1>7, <1>8, <1>9, <1>10 DEF Calm

LEMMA ReturnArrivesCalm ==
  ASSUME Typed, LockInv, Calm, view' = view, NEW s \in Slot, ReturnArrives(s)
  PROVE  Calm'
<1>1. Flying(s, CallKind) /\ req[s].answer # Pending /\ req[s].kind = "return"
  BY DEF ReturnArrives, Answered, Flying, CallKind
<1>2. req[s].here /\ \A t \in Slot \ {s} : req[t] = Idle
  BY <1>1, AfterCall
<1>3. UNCHANGED <<view, table, query, rows, timer, done, patched>>
  BY DEF ReturnArrives
<1>4. CASE req[s].answer.ok
  <2> DEFINE r == NextList(s, "reload", req[s].query)
  <2>1. req[s].query = query
    BY <1>1 DEF Calm, CallsHeard
  <2>2. /\ r # Idle /\ r.kind = "reload" /\ r.query = query /\ r.here
        /\ r.answer = Pending
    BY <1>2, <2>1, GoesOnList DEF Idle
  <2>3. req' = [req EXCEPT ![s] = r]
    BY <1>4 DEF ReturnArrives
  <2> HIDE DEF r
  <2> QED
    BY <1>1, <1>3, <2>2, <2>3, FollowedCalm
<1>5. CASE ~ req[s].answer.ok
  <2>1. req' = Over(s)
    BY <1>5 DEF ReturnArrives
  <2>2. \A t \in Slot : req'[t] = Idle
    BY <1>2, <2>1, CallOver
  <2> QED
    BY <1>1, <1>3, <1>5, <2>2, UnheardCalm
<1> QED
  BY <1>4, <1>5

LEMMA MarkArrivesCalm ==
  ASSUME Typed, LockInv, Calm, NEW s \in Slot, MarkArrives(s)
  PROVE  Calm'
<1>1. Flying(s, CallKind) /\ req[s].answer # Pending /\ req[s].kind = "mark"
  BY DEF MarkArrives, Answered, Flying, CallKind
<1>2. req[s].here /\ \A t \in Slot \ {s} : req[t] = Idle
  BY <1>1, AfterCall
<1>3. UNCHANGED <<view, table, query, rows, timer, done, patched>>
  BY DEF MarkArrives, page_vars
<1>4. CASE req[s].answer.ok
  <2> DEFINE r == NextList(s, "list", query)
  <2>1. /\ r # Idle /\ r.kind = "list" /\ r.query = query /\ r.here
        /\ r.answer = Pending
    BY <1>2, GoesOnList DEF Idle
  <2>2. req' = [req EXCEPT ![s] = r]
    BY <1>4 DEF MarkArrives
  <2> HIDE DEF r
  <2>3. view = "desk"
    BY DEF MarkArrives, Answered
  <2> QED
    BY <1>1, <1>3, <2>1, <2>2, <2>3, FollowedCalm
<1>5. CASE ~ req[s].answer.ok
  <2>1. req' = Over(s)
    BY <1>5 DEF MarkArrives
  <2>2. \A t \in Slot : req'[t] = Idle
    BY <1>2, <2>1, CallOver
  <2> QED
    BY <1>1, <1>3, <1>5, <2>2, UnheardCalm
<1> QED
  BY <1>4, <1>5

LEMMA BorrowArrivesCalm ==
  ASSUME Typed, LockInv, ButtonsMounted, Calm, NEW s \in Slot, BorrowArrives(s)
  PROVE  Calm'
<1>1. Flying(s, CallKind) /\ req[s].answer # Pending /\ req[s].kind = "borrow"
  BY DEF BorrowArrives, Answered, Flying, CallKind
<1>2. /\ \A t \in Slot \ {s} : req[t] = Idle
      /\ \A n \in DOMAIN rows : IsCurrent(rows[n])
                                \/ (req[s].answer.ok /\ req[s].id = rows[n].id)
  BY <1>1, AfterCall
<1>3. req' = Over(s) /\ UNCHANGED <<view, table, query, rows, timer, patched>>
  BY DEF BorrowArrives
<1>4. \A t \in Slot : req'[t] = Idle
  BY <1>2, <1>3, CallOver
<1>5. CASE ~ req[s].answer.ok \/ Deaf(req[s])
  <2>1. done' = done
    BY <1>1, <1>5 DEF BorrowArrives, Deaf
  <2> QED
    BY <1>1, <1>3, <1>4, <1>5, <2>1, UnheardCalm
<1>6. CASE req[s].answer.ok /\ ~ Deaf(req[s])
  <2>1. req[s].here /\ req[s].live /\ done' = done \cup {req[s].id}
    BY <1>1, <1>6 DEF BorrowArrives, Deaf
  <2>2. req[s].id \in DOMAIN table /\ table[req[s].id] = "mine"
    BY <1>1, <1>6 DEF Calm, CarriedOut, Carried
  <2>3. req[s].id \in Components(rows)
    BY <1>1, <2>1 DEF ButtonsMounted, Flying
  <2>4. view \in Shelves
    BY <1>1 DEF Flying, Typed, AllMeant, Meant, Fitting
  <2>5. \A n \in DOMAIN rows' : IsCurrent(rows[n])'
    BY <1>2, <1>3, <2>1, <2>2 DEF IsCurrent, Displayed
  <2>6. DoneFits'
    BY <1>3, <2>1, <2>2, <2>3, <2>4, ShapesKept DEF Calm, DoneFits
  <2>7. ListFits'
    BY <2>1 DEF ListFits
  <2> QED
    BY <1>4, <2>5, <2>6, <2>7, QuietCalm
<1> QED
  BY <1>5, <1>6

LEMMA DeliverCalm ==
  ASSUME Typed, LockInv, ButtonsMounted, Calm, view' = view, NEW s \in Slot,
         Deliver(s), ~ disturbed'
  PROVE  Calm'
<1>1. CASE \/ BooksLoad(s) \/ MembersLoad(s) \/ LoansLoad(s) \/ DeskLoad(s)
           \/ OwnLoad(s) \/ ShelfLoad(s) \/ QuickLoad(s)
  <2>1. \E v, on_error : ListArrives(s, v, on_error)
    BY <1>1 DEF BooksLoad, MembersLoad, LoansLoad, DeskLoad, OwnLoad, ShelfLoad,
                QuickLoad
  <2> QED
    BY <2>1, ListArrivesCalm
<1>2. CASE BookCreated(s) \/ MemberCreated(s)
  BY <1>2, CreatedCalm DEF BookCreated, MemberCreated
<1>3. CASE BookSaved(s) \/ MemberSaved(s)
  BY <1>3, SavedCalm DEF BookSaved, MemberSaved
<1>4. CASE BookRemoved(s) \/ MemberRemoved(s)
  BY <1>4, RemovedCalm DEF BookRemoved, MemberRemoved
<1> QED
  BY <1>1, <1>2, <1>3, <1>4, ReturnArrivesCalm, ReloadArrivesCalm, MarkArrivesCalm,
     BorrowArrivesCalm
     DEF Deliver, BooksAnswer, MembersAnswer, LoansAnswer, DeskAnswer, ShelfAnswer

-----------------------------------------------------------------------------
(* The page is opened anew *)

\* What an earlier visit has left in flight.
LEMMA LeftBehind ==
  ASSUME LockInv, NEW r, r = Idle \/ Formed(r)
  PROVE  \/ Unmount(r) = Idle
         \/ /\ Unmount(r) # Idle /\ r # Idle
            /\ r.kind \in CallKind /\ Unmount(r).kind = r.kind
            /\ ~ Unmount(r).here /\ ~ Unmount(r).live
            /\ Unmount(r).answer = Pending
<1> DEFINE n == [r EXCEPT !.query = FirstQuery(Blank), !.here = FALSE,
                          !.live = FALSE, !.asked = FALSE]
<1>1. Unmount(r) = Idle
      \/ (Unmount(r) = n /\ r # Idle /\ r.kind \in CallKind /\ r.answer = Pending)
  BY DEF Unmount
<1>2. CASE Formed(r)
  <2>1. n.kind = r.kind /\ ~ n.here /\ ~ n.live /\ n.answer = r.answer /\ n # Idle
    BY <1>2 DEF Formed, Idle
  <2> HIDE DEF n
  <2> QED
    BY <1>1, <2>1
<1>3. CASE r = Idle
  BY <1>3 DEF Unmount
<1> QED
  BY <1>2, <1>3

LEMMA VisitCalm ==
  ASSUME Typed, LockInv, view' = view, NEW f, Visit(f), ~ disturbed'
  PROVE  Calm'
<1> DEFINE left == [t \in Slot |-> Unmount(req[t])]
           asks == ListRequest("list", FirstQuery(f))
<1>1. /\ f \in AskedFor /\ query' = FirstQuery(f) /\ rows' = <<>> /\ timer' = FALSE
      /\ done' = {} /\ patched' = FALSE /\ ~ Overlap(req')
  BY DEF Visit
<1>2. \A t \in Slot :
        \/ left[t] = Idle
        \/ /\ left[t] # Idle /\ req[t] # Idle
           /\ req[t].kind \in CallKind /\ left[t].kind = req[t].kind
           /\ ~ left[t].here /\ ~ left[t].live
           /\ left[t].answer = Pending
  BY LeftBehind DEF LockInv, Shaped
<1>3. asks.kind = "list" /\ asks.here /\ asks.answer = Pending /\ asks # Idle
      /\ asks.query = query'
  BY <1>1 DEF ListRequest, Request, Idle
<1>4. \/ view \in Searches /\ req' = left
      \/ view \notin Searches /\ \E s \in Slot : req' = [left EXCEPT ![s] = asks]
  BY DEF Visit
<1>5. DOMAIN left = Slot
  OBVIOUS
<1> HIDE DEF left, asks
<1>6. ~ Overlap(req)'
  BY <1>1
<1>7. RowsFit' /\ DoneFits'
  BY <1>1 DEF RowsFit, DoneFits
<1>8. CASE view \in Searches
  <2>1. req' = left
    BY <1>4, <1>8
  <2>2. BlankSearch'
    BY <1>1, <1>8 DEF BlankSearch, FirstQuery, AskedFor, Searches
  <2>3. \A t \in Slot : ~ Flying(t, ListKind)' /\ ~ Carried(t)'
    BY <1>2, <2>1 DEF Flying, Carried, ListKind, CallKind
  <2>4. ListsAnswered' /\ CarriedOut'
    BY <2>3 DEF ListsAnswered, CarriedOut
  <2>5. \A t \in Slot : req[t] # Idle => req[t].kind # "return"
    BY <1>8 DEF Typed, AllMeant, Meant, Fitting, Searches
  <2>6. CallsHeard'
    BY <1>1, <1>2, <1>8, <2>1, <2>2, <2>5 DEF CallsHeard, Flying
  <2>7. ListFits'
    BY <2>2 DEF ListFits, Awaiting
  <2> QED
    BY <1>6, <1>7, <2>4, <2>6, <2>7 DEF Calm
<1>9. CASE view \notin Searches
  <2>1. PICK s \in Slot : req' = [left EXCEPT ![s] = asks]
    BY <1>4, <1>9
  <2>2. req'[s] = asks /\ \A t \in Slot \ {s} : req'[t] = left[t]
    BY <1>5, <2>1
  <2>3. \A t \in Slot \ {s} : req'[t] = Idle
    BY <1>1, <1>2, <1>3, <2>2 DEF Overlap
  <2>4. \A t \in Slot : ~ Flying(t, CallKind)' /\ ~ Carried(t)'
    BY <1>3, <2>2, <2>3 DEF Flying, Carried, CallKind
  <2>5. CallsHeard' /\ CarriedOut'
    BY <2>4 DEF CallsHeard, CarriedOut
  <2>6. ListsAnswered'
    BY <1>3, <2>2, <2>3 DEF ListsAnswered, Flying
  <2>7. ListFits'
    BY <1>3, <2>2 DEF ListFits, Awaiting, Flying, ListKind
  <2> QED
    BY <1>6, <1>7, <2>5, <2>6, <2>7 DEF Calm
<1> QED
  BY <1>8, <1>9

-----------------------------------------------------------------------------
(* Every step *)

Settled == ButtonsMounted /\ (~ disturbed => Calm)

\* A request is sent.
LEMMA SendMounted ==
  ASSUME LockInv, ButtonsMounted, view' = view, NEW kind, NEW q, NEW id, NEW val,
         Send(Request(kind, q, id, val)), rows' = rows, dialog' = dialog,
         kind = "borrow" => id \in Components(rows)
  PROVE  ButtonsMounted'
<1> DEFINE new == Request(kind, q, id, val)
<1>1. new.kind = kind /\ new.id = id
  BY DEF Request
<1>2. PICK s \in Slot : req' = [req EXCEPT ![s] = new]
  BY DEF Send
<1> HIDE DEF new
<1>3. req'[s] = new /\ \A t \in Slot \ {s} : req'[t] = req[t]
  BY <1>2, SlotTaken
<1>4. Components(rows)' = Components(rows)
  BY DEF Components
<1> QED
  BY <1>1, <1>3, <1>4 DEF ButtonsMounted, Flying

LEMMA AskSettled ==
  ASSUME LockInv, Settled, NEW q, Ask(q)
  PROVE  Settled'
<1>1. /\ UNCHANGED <<view, table, rows, dialog, done, patched>> /\ query' = q
      /\ Send(ListRequest("list", q))
  BY DEF Ask
<1>2. ButtonsMounted'
  BY <1>1, SendMounted DEF Settled, ListRequest
<1>3. ASSUME ~ disturbed' PROVE Calm'
  <2>1. Calm /\ ~ Overlap(req')
    BY <1>1, <1>3 DEF Send, Settled
  <2>2. PICK s \in Slot : req[s] = Idle
                          /\ req' = [req EXCEPT ![s] = ListRequest("list", query')]
    BY <1>1 DEF Send, Free
  <2> QED
    BY <1>1, <2>1, <2>2, AskedCalm
<1> QED
  BY <1>2, <1>3 DEF Settled

LEMMA QuickSendSettled ==
  ASSUME LockInv, Settled, QuickSend
  PROVE  Settled'
<1>1. /\ UNCHANGED <<view, table, rows, dialog, done, patched>> /\ query' = query
      /\ Send(ListRequest("list", query))
  BY DEF QuickSend
<1>2. ButtonsMounted'
  BY <1>1, SendMounted DEF Settled, ListRequest
<1>3. ASSUME ~ disturbed' PROVE Calm'
  <2>1. Calm /\ ~ Overlap(req')
    BY <1>1, <1>3 DEF Send, Settled
  <2>2. PICK s \in Slot : req[s] = Idle
                          /\ req' = [req EXCEPT ![s] = ListRequest("list", query')]
    BY <1>1 DEF Send, Free
  <2> QED
    BY <1>1, <2>1, <2>2, AskedCalm
<1> QED
  BY <1>2, <1>3 DEF Settled

LEMMA CallSettled ==
  ASSUME LockInv, Settled, NEW kind \in CallKind, NEW q, NEW id, NEW val,
         Send(Request(kind, q, id, val)),
         kind = "return" => q = query,
         kind = "borrow" => id \in Components(rows),
         UNCHANGED <<view, table, query, rows, timer, dialog, done, patched>>
  PROVE  Settled'
<1>1. ButtonsMounted'
  BY SendMounted DEF Settled
<1>2. ASSUME ~ disturbed' PROVE Calm'
  <2>1. Calm /\ ~ Overlap(req')
    BY <1>2 DEF Send, Settled
  <2>2. PICK s \in Slot : req[s] = Idle
                          /\ req' = [req EXCEPT ![s] = Request(kind, q, id, val)]
    BY DEF Send, Free
  <2> QED
    BY <2>1, <2>2, CalledCalm
<1> QED
  BY <1>1, <1>2 DEF Settled

\* Nothing but the dialogue changes.
LEMMA DialogSettled ==
  ASSUME Settled, \A t \in Slot : Alike(t),
         dialog'.kind = "borrow" => dialog'.id \in Components(rows),
         UNCHANGED <<view, table, query, rows, timer, done, patched, disturbed>>
  PROVE  Settled'
<1>1. ButtonsMounted'
  <2>1. \A t \in Slot : HasButton(t)
    BY AlikeMounted
  <2>2. Components(rows)' = Components(rows)
    BY DEF Components
  <2> QED
    BY <2>1, <2>2 DEF Settled, ButtonsMounted, HasButton
<1>2. ~ disturbed' => Calm'
  BY AlikeCalm DEF Settled
<1> QED
  BY <1>1, <1>2 DEF Settled

LEMMA OpenSettled ==
  ASSUME Settled, NEW d, Open(d), d.kind = "borrow" => d.id \in Components(rows)
  PROVE  Settled'
<1>1. \A t \in Slot : Alike(t)
  BY EqualAlike DEF Open
<1> QED
  BY <1>1, DialogSettled DEF Open

LEMMA CloseSettled ==
  ASSUME LockInv, Settled, Close
  PROVE  Settled'
<1>1. ASSUME NEW t \in Slot PROVE Alike(t)
  <2>1. CASE req[t] = Idle
    BY <2>1 DEF Close, Alike, Same
  <2>2. CASE req[t] # Idle
    <3> DEFINE a == req[t].asked /\ req[t].kind # "borrow"
    <3>1. Formed(req[t]) /\ req'[t] = [req[t] EXCEPT !.asked = a]
      BY <2>2 DEF Close, LockInv, Shaped
    <3> HIDE DEF a
    <3>2. /\ req'[t].kind = req[t].kind /\ req'[t].query = req[t].query
          /\ req'[t].id = req[t].id /\ req'[t].val = req[t].val
          /\ req'[t].here = req[t].here /\ req'[t].answer = req[t].answer
          /\ req'[t].live = req[t].live
      BY <3>1 DEF Formed
    <3>3. req'[t] # Idle
      BY <3>1 DEF Formed, Idle
    <3> QED
      BY <2>2, <3>2, <3>3 DEF Alike, Same
  <2> QED
    BY <2>1, <2>2
<1>2. dialog'.kind # "borrow"
  BY DEF Close, Closed
<1> QED
  BY <1>1, <1>2, DialogSettled DEF Close

LEMMA StutterSettled ==
  ASSUME Settled, UNCHANGED vars
  PROVE  Settled'
<1>1. UNCHANGED <<view, table, query, rows, timer, dialog, done, req, patched,
                  disturbed>>
  BY DEF vars, page_vars
<1>2. \A t \in Slot : Alike(t)
  BY <1>1, EqualAlike
<1> QED
  BY <1>1, <1>2, DialogSettled DEF Settled, ButtonsMounted

\* A step that leaves requests, rows and dialogue where they are in the table's
\* eyes: somebody else's, or an answer that comes or is lost.
LEMMA AnswerMounted ==
  ASSUME LockInv, ButtonsMounted, view' = view, rows' = rows, dialog' = dialog,
         NEW s \in Slot, req[s] # Idle, NEW a, req' = [req EXCEPT ![s].answer = a]
  PROVE  ButtonsMounted'
<1>1. AnsweredWith(s, a)
  BY AnsweredSame
<1>2. \A t \in Slot : HasButton(t)
  BY <1>1 DEF AnsweredWith, HasButton, Flying
<1> QED
  BY <1>2, KeptMounted DEF SameButton

LEMMA ServeSettled ==
  ASSUME Typed, LockInv, Settled, NEW s \in Slot, Serve(s)
  PROVE  Settled'
<1>1. /\ UNCHANGED <<view, rows, dialog, disturbed>> /\ req[s] # Idle
      /\ \E a : req' = [req EXCEPT ![s].answer = a]
  <2>1. CASE AnswerList(s)
    BY <2>1 DEF AnswerList, page_vars
  <2>2. CASE ServeLibrarian(s) \/ ServeBorrow(s)
    <3>1. \E kind, ok, new_table, val : Carry(s, kind, ok, new_table, val)
      BY <2>2 DEF ServeLibrarian, ServeCreate, ServeSave, ServeRemove, ServeReturn,
                  ServeMark, ServeBorrow
    <3> QED
      BY <3>1 DEF Carry, page_vars
  <2> QED
    BY <2>1, <2>2 DEF Serve
<1>2. ButtonsMounted'
  BY <1>1, AnswerMounted DEF Settled
<1>3. ~ disturbed' => Calm'
  BY <1>1, ServeCalm DEF Settled
<1> QED
  BY <1>2, <1>3 DEF Settled

LEMMA LoseSettled ==
  ASSUME LockInv, Settled, NEW s \in Slot, Lose(s)
  PROVE  Settled'
<1>1. ButtonsMounted'
  BY AnswerMounted DEF Lose, page_vars, Settled
<1> QED
  BY <1>1 DEF Lose, Settled

LEMMA OthersSettled ==
  ASSUME Settled, Others
  PROVE  Settled'
<1>1. UNCHANGED <<view, rows, dialog, req>> /\ disturbed' = TRUE
  BY DEF Others, page_vars
<1>2. ButtonsMounted'
  BY <1>1 DEF Settled, ButtonsMounted, Flying, Components
<1> QED
  BY <1>1, <1>2 DEF Settled

LEMMA VisitSettled ==
  ASSUME Typed, LockInv, view' = view, NEW f, Visit(f)
  PROVE  Settled'
<1> DEFINE left == [t \in Slot |-> Unmount(req[t])]
           asks == ListRequest("list", FirstQuery(f))
<1>1. \A t \in Slot : left[t] = Idle \/ ~ left[t].live
  BY LeftBehind DEF LockInv, Shaped
<1>2. asks.kind = "list"
  BY DEF ListRequest, Request
<1>3. DOMAIN left = Slot /\ dialog' = Closed
      /\ (req' = left \/ \E s \in Slot : req' = [left EXCEPT ![s] = asks])
  BY DEF Visit
<1> HIDE DEF left, asks
<1>4. \A t \in Slot : ~ (Flying(t, {"borrow"})' /\ req'[t].live)
  <2>1. CASE req' = left
    BY <1>1, <2>1 DEF Flying
  <2>2. CASE \E s \in Slot : req' = [left EXCEPT ![s] = asks]
    BY <1>1, <1>2, <1>3, <2>2 DEF Flying
  <2> QED
    BY <1>3, <2>1, <2>2
<1>5. ButtonsMounted'
  BY <1>3, <1>4 DEF ButtonsMounted, Closed
<1> QED
  BY <1>5, VisitCalm DEF Settled

\* The slot of an answered request is given up, or taken by a list.
LEMMA OverMounted ==
  ASSUME LockInv, ButtonsMounted, view' = view, rows' = rows, SameButton,
         NEW s \in Slot, NEW r, r = Idle \/ r.kind # "borrow",
         req' = [req EXCEPT ![s] = r]
  PROVE  ButtonsMounted'
<1>1. req'[s] = r /\ \A t \in Slot \ {s} : Alike(t)
  BY SlotTaken
<1>2. \A t \in Slot : HasButton(t)
  BY <1>1, AlikeMounted DEF HasButton, Flying
<1> QED
  BY <1>2, KeptMounted

LEMMA DeliverMounted ==
  ASSUME Typed, LockInv, ButtonsMounted, view' = view, NEW s \in Slot, Deliver(s)
  PROVE  ButtonsMounted'
<1>1. SameButton
  BY DeliverContinues
<1>2. ASSUME NEW list, NEW dlg \in {dialog, Closed}, NEW flags, NEW borrowed,
             ShowRows(list, dlg, flags, borrowed, Over(s))
      PROVE  ButtonsMounted'
  BY <1>2, OverGoesOn, ShownMounted
<1>3. ASSUME req' = Over(s), rows' = rows
      PROVE  ButtonsMounted'
  BY <1>1, <1>3, OverMounted DEF Over
<1>4. ASSUME NEW v, NEW on_error, ListArrives(s, v, on_error)
      PROVE  ButtonsMounted'
  BY <1>2, <1>3, <1>4 DEF ListArrives
<1>5. ASSUME NEW v, Created(v, s) PROVE ButtonsMounted'
  <2>1. (IF Creating THEN Closed ELSE dialog) \in {dialog, Closed}
    OBVIOUS
  <2> QED
    BY <1>2, <1>3, <1>5, <2>1 DEF Created
<1>6. ASSUME NEW v, NEW dlg \in {dialog, Closed}, Saved(v, s, dlg)
      PROVE  ButtonsMounted'
  BY <1>2, <1>3, <1>6 DEF Saved
<1>7. ASSUME NEW v, NEW flags, Removed(v, s, flags) PROVE ButtonsMounted'
  BY <1>2, <1>3, <1>7 DEF Removed
<1>8. CASE ReturnArrives(s)
  <2> DEFINE r == NextList(s, "reload", req[s].query)
  <2>1. r.kind = "reload"
    BY GoesOnList DEF Idle
  <2>2. rows' = rows /\ (req' = [req EXCEPT ![s] = r] \/ req' = Over(s))
    BY <1>8 DEF ReturnArrives
  <2> HIDE DEF r
  <2> QED
    BY <1>1, <1>3, <2>1, <2>2, OverMounted
<1>9. CASE ReloadArrives(s)
  <2>1. ReturnClosed \in {dialog, Closed}
    BY DEF ReturnClosed
  <2> QED
    BY <1>2, <1>3, <1>9, <2>1 DEF ReloadArrives
<1>10. CASE MarkArrives(s)
  <2> DEFINE r == NextList(s, "list", query)
  <2>1. r.kind = "list"
    BY GoesOnList DEF Idle
  <2>2. rows' = rows /\ (req' = [req EXCEPT ![s] = r] \/ req' = Over(s))
    BY <1>10 DEF MarkArrives, page_vars
  <2> HIDE DEF r
  <2> QED
    BY <1>1, <1>3, <2>1, <2>2, OverMounted
<1>11. CASE BorrowArrives(s)
  BY <1>3, <1>11 DEF BorrowArrives
<1>12. EditClosed(s) \in {dialog, Closed}
  BY DEF EditClosed
<1>13. (IF req[s].answer.ok THEN EditClosed(s) ELSE dialog) \in {dialog, Closed}
  BY <1>12
<1> QED
  BY <1>4, <1>5, <1>6, <1>7, <1>8, <1>9, <1>10, <1>11, <1>12, <1>13
     DEF Deliver, BooksAnswer, MembersAnswer, LoansAnswer, DeskAnswer, ShelfAnswer,
         BooksLoad, MembersLoad, LoansLoad, DeskLoad, OwnLoad, ShelfLoad, QuickLoad,
         BookCreated, MemberCreated, BookSaved, MemberSaved, BookRemoved,
         MemberRemoved

\* Only a page that is opened anew is settled again.
LEMMA DeliverDisturbs ==
  ASSUME NEW s \in Slot, Deliver(s), disturbed
  PROVE  disturbed'
BY DEF Deliver, BooksAnswer, MembersAnswer, LoansAnswer, DeskAnswer, ShelfAnswer,
  BooksLoad, MembersLoad, LoansLoad, DeskLoad, OwnLoad, ShelfLoad, QuickLoad,
  ListArrives, BookCreated, MemberCreated, Created, BookSaved, MemberSaved, Saved,
  BookRemoved, MemberRemoved, Removed, ReturnArrives, ReloadArrives, MarkArrives,
  BorrowArrives

LEMMA DeliverSettled ==
  ASSUME Typed, LockInv, Settled, view' = view, NEW s \in Slot, Deliver(s)
  PROVE  Settled'
BY DeliverMounted, DeliverDisturbs, DeliverCalm DEF Settled

LEMMA QuickTypeSettled ==
  ASSUME Typed, LockInv, Settled, view' = view, NEW f \in Filters, QuickType(f)
  PROVE  Settled'
<1> DEFINE list == IF f = Blank THEN <<>> ELSE rows
<1>1. ShowRows(list, dialog, busy, done, req) /\ disturbed' = disturbed
  BY DEF QuickType
<1>2. GoesOn(req, {})
  BY DEF GoesOn
<1> HIDE DEF list
<1>3. ButtonsMounted'
  BY <1>1, <1>2, ShownMounted DEF Settled
<1> QED
  BY <1>1, <1>3, QuickTypeCalm DEF Settled

\* What the user does on the pages of a librarian.
LEMMA LibrarianSettled ==
  ASSUME LockInv, Settled, BooksNext \/ MembersNext \/ LoansNext \/ DeskNext
  PROVE  Settled'
<1>1. ASSUME NEW v, \/ \E f : Filter(v, f)
                    \/ Sort(v) \/ Turn(v)
      PROVE  Settled'
  BY <1>1, AskSettled DEF Filter, Sort, Turn
<1>2. ASSUME NEW kind \in CallKind \ {"return", "borrow"}, NEW id, NEW val,
             Send(Call(kind, id, val)),
             UNCHANGED <<view, table, query, rows, timer, dialog, done, patched>>
      PROVE  Settled'
  BY <1>2, CallSettled DEF Call
<1>3. ASSUME NEW v, NEW val, Create(v, val) \/ Save(v, val) PROVE Settled'
  BY <1>2, <1>3 DEF Create, Save, page_vars, CallKind
<1>4. ASSUME NEW v, NEW i, NEW flags, Remove(v, i, flags) PROVE Settled'
  BY <1>2, <1>4 DEF Remove, CallKind
<1>5. ASSUME NEW d, d.kind # "borrow", Open(d) PROVE Settled'
  BY <1>5, OpenSettled
<1>6. ASSUME NEW v, NEW i, Edit(v, i) PROVE Settled'
  <2> DEFINE d == [kind |-> "edit", id |-> i]
  <2>1. d.kind = "edit" /\ Open(d)
    BY <1>6 DEF Edit
  <2> HIDE DEF d
  <2> QED
    BY <1>5, <2>1
<1>7. CASE NewBook \/ NewMember
  <2> DEFINE d == [kind |-> "create"]
  <2>1. d.kind = "create" /\ Open(d)
    BY <1>7 DEF NewBook, NewMember
  <2> HIDE DEF d
  <2> QED
    BY <1>5, <2>1
<1>8. ASSUME NEW i, OpenReturn(i) PROVE Settled'
  <2> DEFINE d == [kind |-> "return", id |-> rows[i].id]
  <2>1. d.kind = "return" /\ Open(d)
    BY <1>8 DEF OpenReturn
  <2> HIDE DEF d
  <2> QED
    BY <1>5, <2>1
<1>9. CASE ConfirmReturn
  <2>1. /\ Send(Request("return", query, dialog.id, Blank))
        /\ UNCHANGED <<view, table, query, rows, timer, dialog, done, patched>>
    BY <1>9 DEF ConfirmReturn, page_vars
  <2> QED
    BY <2>1, CallSettled DEF CallKind
<1>10. CASE MarkOverdue
  BY <1>2, <1>10 DEF MarkOverdue, page_vars, CallKind
<1> QED
  BY <1>1, <1>3, <1>4, <1>6, <1>7, <1>8, <1>9, <1>10
     DEF BooksNext, BooksSearch, BooksTurn, CreateBook, SaveBook, EditBook, RemoveBook,
         MembersNext, MembersSearch, MembersTurn, CreateMember, SaveMember, EditMember,
         RemoveMember, LoansNext, LoansFilter, LoansSort, LoansTurn, DeskNext

\* And of a reader.
LEMMA MemberSettled ==
  ASSUME LockInv, Settled, OwnNext \/ ShelfNext
  PROVE  Settled'
<1>1. ASSUME NEW v, \/ \E f : Filter(v, f)
                    \/ Sort(v) \/ Turn(v)
      PROVE  Settled'
  BY <1>1, AskSettled DEF Filter, Sort, Turn
<1>2. ASSUME NEW i, OpenBorrow(i) PROVE Settled'
  <2> DEFINE d == [kind |-> "borrow", id |-> i, note |-> ""]
  <2>1. Components(Screen) \subseteq Components(rows)
    BY DEF Screen, Components
  <2>2. d.id \in Components(rows) /\ Open(d)
    BY <1>2, <2>1 DEF OpenBorrow
  <2> HIDE DEF d
  <2> QED
    BY <2>2, OpenSettled
<1>3. CASE ConfirmBorrow
  <2>1. dialog.id \in Components(rows)
    BY <1>3 DEF ConfirmBorrow, Settled, ButtonsMounted
  <2> DEFINE none == [filter |-> Blank, page |-> 1, sort |-> "borrowed_at",
                      dir |-> "asc"]
  <2>2. /\ Send(Request("borrow", none, dialog.id, Blank))
        /\ UNCHANGED <<view, table, query, rows, timer, dialog, done, patched>>
    BY <1>3 DEF ConfirmBorrow, Call
  <2> HIDE DEF none
  <2> QED
    BY <2>1, <2>2, CallSettled DEF CallKind
<1> QED
  BY <1>1, <1>2, <1>3
     DEF OwnNext, OwnFilter, OwnSort, OwnTurn, ShelfNext, ShelfSearch, ShelfTurn

LEMMA SettledStep ==
  Typed /\ LockInv /\ Settled /\ [Next]_vars => Settled'
<1> SUFFICES ASSUME Typed, LockInv, Settled, [Next]_vars PROVE Settled'
  OBVIOUS
<1>1. CASE UNCHANGED vars
  BY <1>1, StutterSettled
<1>2. CASE Next
  <2>1. view' = view
    BY <1>2, ViewKept
  <2> QED
    BY <1>2, <2>1, LibrarianSettled, MemberSettled, QuickTypeSettled,
       QuickSendSettled, CloseSettled, VisitSettled, OthersSettled, ServeSettled,
       DeliverSettled, LoseSettled DEF Next
<1> QED
  BY <1>1, <1>2

LEMMA SettledInit ==
  Init => Settled
<1> SUFFICES ASSUME Init PROVE Settled
  OBVIOUS
<1> DEFINE asks == ListRequest("list", query)
<1>1. asks.kind = "list" /\ asks.query = query /\ asks.here /\ asks.answer = Pending
      /\ asks # Idle
  BY DEF ListRequest, Request, Idle
<1>2. /\ \A s \in Slot : req[s] = IF s = 1 /\ view \notin Searches THEN asks ELSE Idle
      /\ rows = <<>> /\ done = {} /\ dialog = Closed
  BY DEF Init
<1> HIDE DEF asks
<1>3. \A s \in Slot : ~ Flying(s, CallKind) /\ ~ Carried(s) /\ ~ Flying(s, {"borrow"})
  BY <1>1, <1>2 DEF Flying, Carried, CallKind
<1>4. ~ Overlap(req)
  BY <1>1, <1>2 DEF Overlap, CallKind
<1>5. ListsAnswered /\ CallsHeard /\ CarriedOut
  BY <1>1, <1>2, <1>3 DEF ListsAnswered, CallsHeard, CarriedOut, Flying
<1>6. RowsFit /\ DoneFits
  BY <1>2 DEF RowsFit, DoneFits
<1>7. Awaiting
  <2>1. CASE view \in Searches
    <3>1. PICK f \in {Blank} : query = FirstQuery(f)
      BY <2>1 DEF Init, AskedFor, Searches
    <3> QED
      BY <2>1, <3>1 DEF Awaiting, BlankSearch, FirstQuery
  <2>2. CASE view \notin Searches
    <3>1. 1 \in Slot
      BY DEF Slot
    <3> QED
      BY <1>1, <1>2, <2>2, <3>1 DEF Awaiting, Flying, ListKind
  <2> QED
    BY <2>1, <2>2
<1>8. ButtonsMounted
  BY <1>2, <1>3 DEF ButtonsMounted, Closed
<1> QED
  BY <1>4, <1>5, <1>6, <1>7, <1>8 DEF Settled, Calm, ListFits

LEMMA SettledHolds == Spec => []Settled
BY SettledInit, SettledStep, TypedHolds, LockInvHolds, PTL DEF Spec

-----------------------------------------------------------------------------
(* The theorems about what is on the screen *)

\* At rest nothing is behind, and no answer is awaited.
LEMMA RestSettled ==
  ASSUME Calm, AtRest
  PROVE  /\ \A n \in DOMAIN rows : IsCurrent(rows[n])
         /\ Awaiting => BlankSearch
BY DEF AtRest, Calm, RowsFit, Refreshing, Behind, Awaiting, Flying, Carried

LEMMA SettledCurrent ==
  Settled => RowsAreCurrent
<1> SUFFICES ASSUME Settled, AtRest, ~ disturbed
             PROVE  \A i \in DOMAIN Screen : IsCurrent(Screen[i])
  BY DEF RowsAreCurrent, IsCurrent
<1>1. \A n \in DOMAIN rows : IsCurrent(rows[n])
  BY RestSettled DEF Settled
<1>2. Screen = <<>> \/ Screen = rows
  BY DEF Screen
<1> QED
  BY <1>1, <1>2

LEMMA SettledAnswers ==
  Settled => ListAnswersQuery
BY RestSettled DEF Settled, ListAnswersQuery, Calm, ListFits

\* A page before the last is full.
LEMMA FullPage ==
  ASSUME IsFiniteSet(DOMAIN table), NEW q \in Query, NEW l \in Lists(q),
         view # "desk", Cardinality(Matching(q)) > q.page * PageSize
  PROVE  Len(l) = PageSize
<1>1. PICK o \in Orders(Matching(q)) :
        LET w == Window(o, q)
        IN  l = [n \in DOMAIN w |-> [id |-> w[n], val |-> table[w[n]]]]
  BY DEF Lists, OrdersFor
<1>2. IsFiniteSet(Matching(q))
  BY FS_Subset DEF Matching
<1>3. o \in Seq(Matching(q)) /\ Len(o) = Cardinality(Matching(q))
  BY <1>2, OrdersTyped
<1> DEFINE m == (q.page - 1) * PageSize + 1
           n == q.page * PageSize
           w == Window(o, q)
<1>4. q.page \in Nat \ {0}
  BY DEF Query
<1>5. m \in Nat \ {0} /\ n \in Nat /\ n < Len(o) /\ n - m + 1 = PageSize
  <2>1. (q.page - 1) * PageSize \in Nat /\ q.page * PageSize \in Nat
    BY <1>4
  <2>2. q.page * PageSize = (q.page - 1) * PageSize + PageSize
    BY <1>4
  <2> QED
    BY <1>3, <2>1, <2>2
<1>6. w = SubSeq(o, m, n)
  BY <1>5 DEF Window
<1> HIDE DEF m, n
<1>7. DOMAIN w = 1..PageSize
  BY <1>3, <1>5, <1>6
<1> HIDE DEF w
<1>8. l = [k \in 1..PageSize |-> [id |-> w[k], val |-> table[w[k]]]]
  BY <1>1, <1>7 DEF w
<1> QED
  BY <1>8

LEMMA SettledReachable ==
  Typed /\ Settled => MoreIsReachable
<1> SUFFICES ASSUME Typed, Settled, AtRest, ~ disturbed, ~ patched, done = {},
                    view \notin Searches \cup {"desk"},
                    Cardinality(Matching(query)) > query.page * PageSize
             PROVE  NextEnabled
  BY DEF MoreIsReachable
<1>1. rows \in Lists(query)
  BY SettledAnswers DEF ListAnswersQuery, BlankSearch
<1>2. query \in Query /\ IsFiniteSet(DOMAIN table)
  BY DEF Typed, PageTyped, TableTyped, IsTable
<1>3. Len(rows) = PageSize
  BY <1>1, <1>2, FullPage
<1> QED
  BY <1>3 DEF NextEnabled, PagerShown

\* The optimistic updates of the pages (setBooks, setMembers, setSuccess of
\* BorrowButton) and their refetches leave on the screen what the server has:
\* however many requests a page may have in flight, once it rests no row shows
\* anything else, unless one of the named disturbances came between.
THEOREM ScreenIsCurrent == Spec => []RowsAreCurrent
BY SettledHolds, SettledCurrent, PTL

\* The effects on the query and the timer of the search ask for every query that is
\* put: a page that rests undisturbed and unedited shows an answer to the query in
\* its fields, not to one before it.
THEOREM QueryIsAnswered == Spec => []ListAnswersQuery
BY SettledHolds, SettledAnswers, PTL

\* The pager guesses from the length of a page whether there is another
\* (items.length === 25, items.length < 25): for any number of rows, pages and rows to a page the
\* guess never hides a page that exists.
THEOREM PagesAreReachable == Spec => []MoreIsReachable
BY SettledHolds, TypedHolds, SettledReachable, PTL

-----------------------------------------------------------------------------
(* Pages of an ordered list *)

\* An order of a finite set has each of its elements somewhere.
LEMMA OrdersCover ==
  ASSUME NEW S, IsFiniteSet(S), NEW o \in Orders(S), NEW i \in S
  PROVE  \E k \in 1..Cardinality(S) : o[k] = i
<1> DEFINE n == Cardinality(S)
<1>1. n \in Nat
  BY FS_CardinalityType
<1>2. IsFiniteSet(1..n) /\ Cardinality(1..n) = n
  BY <1>1, FS_Interval
<1>3. o \in Injection(1..n, S)
  BY DEF Orders, Injection, IsInjective
<1>4. o \in Surjection(1..n, S)
  BY <1>2, <1>3, FS_Injection
<1> QED
  BY <1>4 DEF Surjection

\* By a column and then by id, every two rows have an order.
LEMMA AheadOrders ==
  ASSUME NEW q, q.sort \in Column, NEW i \in Id, NEW j \in Id
  PROVE  /\ ~ Ahead(i, i, q)
         /\ i # j => Ahead(i, j, q) \/ Ahead(j, i, q)
         /\ \A k \in Id : Ahead(i, j, q) /\ Ahead(j, k, q) => Ahead(i, k, q)
<1> DEFINE d == Date[q.sort]
<1>1. d \in [Id -> Nat]
  BY DateAssumption
<1>2. Id \subseteq Nat
  OBVIOUS
<1>3. \A a, b \in Id :
        Ahead(a, b, q) <=> IF q.dir = "asc" THEN d[a] < d[b] \/ (d[a] = d[b] /\ a < b)
                           ELSE d[b] < d[a] \/ (d[b] = d[a] /\ b < a)
  BY DEF Ahead, Earlier
<1> HIDE DEF d
<1>4. \A a \in Id : d[a] \in Nat /\ a \in Nat
  BY <1>1, <1>2
<1>5. ~ Ahead(i, i, q) /\ (i # j => Ahead(i, j, q) \/ Ahead(j, i, q))
  BY <1>3, <1>4
<1>6. ASSUME NEW k \in Id, Ahead(i, j, q), Ahead(j, k, q)
      PROVE  Ahead(i, k, q)
  <2>1. CASE q.dir = "asc"
    BY <1>3, <1>4, <1>6, <2>1
  <2>2. CASE q.dir # "asc"
    BY <1>3, <1>4, <1>6, <2>2
  <2> QED
    BY <2>1, <2>2
<1> QED
  BY <1>5, <1>6

\* The place of an element in a sorted order is the number of those before it.
Before(S, i, q) == {j \in S : Ahead(j, i, q)}

LEMMA PlaceCounted ==
  ASSUME NEW S \in SUBSET Id, IsFiniteSet(S), NEW q, q.sort \in Column,
         NEW o \in Orders(S), Sorted(o, q), NEW k \in 1..Cardinality(S)
  PROVE  Cardinality(Before(S, o[k], q)) = k - 1
<1> DEFINE n == Cardinality(S)
           T == Before(S, o[k], q)
           f == [m \in 1..(k - 1) |-> o[m]]
<1>1. n \in Nat /\ k \in 1..n /\ k - 1 \in Nat
  BY FS_CardinalityType
<1>2. o \in [1..n -> S] /\ \A a, b \in 1..n : o[a] = o[b] => a = b
  BY DEF Orders
<1>3. \A a, b \in 1..n :
        a < b => Ahead(o[a], o[b], q)
  BY <1>2 DEF Sorted
<1>4. \A i \in S : \E m \in 1..n : o[m] = i
  BY OrdersCover
<1> HIDE DEF n
<1>5. \A m \in 1..n : o[m] \in T <=> m < k
  <2> SUFFICES ASSUME NEW m \in 1..n
               PROVE  o[m] \in T <=> m < k
    OBVIOUS
  <2>1. o[m] \in Id /\ o[k] \in Id /\ o[m] \in S
    BY <1>1, <1>2
  <2>2. o[m] \in T <=> Ahead(o[m], o[k], q)
    BY <2>1 DEF Before
  <2>3. CASE m < k
    BY <1>1, <1>3, <2>2, <2>3
  <2>4. CASE m = k
    <3>1. ~ Ahead(o[k], o[k], q)
      BY <2>1, AheadOrders
    <3> QED
      BY <1>1, <2>2, <2>4, <3>1
  <2>5. CASE m > k
    <3>1. Ahead(o[k], o[m], q)
      BY <1>1, <1>3, <2>5
    <3>2. ~ Ahead(o[m], o[k], q)
      BY <2>1, <3>1, AheadOrders
    <3> QED
      BY <1>1, <2>2, <2>5, <3>2
  <2> QED
    BY <1>1, <2>3, <2>4, <2>5
<1>6. T \subseteq S
  BY DEF Before
<1> HIDE DEF T
<1>7. f \in [1..(k - 1) -> T]
  BY <1>1, <1>5
<1>8. f \in Bijection(1..(k - 1), T)
  <2>1. \A a, b \in 1..(k - 1) : f[a] = f[b] => a = b
    BY <1>1, <1>2
  <2>2. \A i \in T : \E m \in 1..(k - 1) : f[m] = i
    BY <1>1, <1>4, <1>5, <1>6
  <2> QED
    BY <1>7, <2>1, <2>2 DEF Bijection, Injection, IsInjective, Surjection
<1> QED
  BY <1>1, <1>8, FS_CountingElements DEF ExistsBijection, T

\* So that there is one: each element at the place that it counts for itself,
LEMMA SortedExists ==
  ASSUME NEW S \in SUBSET Id, IsFiniteSet(S), NEW q, q.sort \in Column
  PROVE  \E o \in Orders(S) : Sorted(o, q)
<1> DEFINE n == Cardinality(S)
           B == [i \in S |-> Before(S, i, q)]
           r == [i \in S |-> Cardinality(B[i]) + 1]
<1>1. n \in Nat /\ IsFiniteSet(1..n) /\ Cardinality(1..n) = n
  BY FS_CardinalityType, FS_Interval
<1>2. \A i \in S : B[i] \subseteq S \ {i}
  BY AheadOrders DEF Before
<1>3. \A i, j \in S : i # j => i \in B[j] \/ j \in B[i]
  BY AheadOrders DEF Before
<1>4. \A i, j \in S : j \in B[i] <=> Ahead(j, i, q)
  BY DEF Before
<1> HIDE DEF B
<1>5. \A i, j \in S : j \in B[i] => B[j] \subseteq B[i] \ {j}
  <2> SUFFICES ASSUME NEW i \in S, NEW j \in S, j \in B[i], NEW h \in B[j]
               PROVE  h \in B[i] /\ h # j
    OBVIOUS
  <2>1. h \in S /\ h # j
    BY <1>2
  <2>2. Ahead(h, j, q) /\ Ahead(j, i, q)
    BY <1>4, <2>1
  <2>3. Ahead(h, i, q)
    BY <2>1, <2>2, AheadOrders
  <2> QED
    BY <1>4, <2>1, <2>3
<1>6. \A i \in S : /\ IsFiniteSet(B[i]) /\ Cardinality(B[i]) \in Nat
                   /\ Cardinality(B[i]) + 1 \in 1..n
  <2> SUFFICES ASSUME NEW i \in S
               PROVE  /\ IsFiniteSet(B[i]) /\ Cardinality(B[i]) \in Nat
                      /\ Cardinality(B[i]) + 1 \in 1..n
    OBVIOUS
  <2>1. IsFiniteSet(S \ {i}) /\ Cardinality(S \ {i}) = n - 1
    BY FS_RemoveElement
  <2>2. IsFiniteSet(B[i]) /\ Cardinality(B[i]) <= n - 1
    BY <1>2, <2>1, FS_Subset
  <2>3. Cardinality(B[i]) \in Nat
    BY <2>2, FS_CardinalityType
  <2> QED
    BY <1>1, <2>2, <2>3
<1>7. /\ r \in [S -> 1..n]
      /\ \A i \in S : r[i] = Cardinality(B[i]) + 1
  BY <1>6
<1> HIDE DEF n, r
<1>8. ASSUME NEW i \in S, NEW j \in S, j \in B[i]
      PROVE  r[j] < r[i]
  <2>1. /\ IsFiniteSet(B[i]) /\ Cardinality(B[i]) \in Nat
        /\ Cardinality(B[j]) \in Nat
    BY <1>6
  <2>2. /\ IsFiniteSet(B[i] \ {j})
        /\ Cardinality(B[i] \ {j}) = Cardinality(B[i]) - 1
    BY <1>8, <2>1, FS_RemoveElement
  <2>3. B[j] \subseteq B[i] \ {j}
    BY <1>5, <1>8
  <2>4. Cardinality(B[j]) <= Cardinality(B[i] \ {j})
    BY <2>2, <2>3, FS_Subset
  <2>5. Cardinality(B[j]) + 1 < Cardinality(B[i]) + 1
    BY <2>1, <2>2, <2>4
  <2>6. r[i] = Cardinality(B[i]) + 1 /\ r[j] = Cardinality(B[j]) + 1
    BY <1>7
  <2> QED
    BY <2>5, <2>6
<1>9. r \in Injection(S, 1..n)
  <2>1. \A i, j \in S : r[i] = r[j] => i = j
    BY <1>3, <1>7, <1>8
  <2> QED
    BY <1>7, <2>1 DEF Injection, IsInjective
<1>10. r \in Surjection(S, 1..n)
  BY <1>1, <1>9, FS_Injection DEF n
<1> DEFINE o == [k \in 1..n |-> CHOOSE i \in S : r[i] = k]
<1>11. \A k \in 1..n : o[k] \in S /\ r[o[k]] = k
  BY <1>10 DEF Surjection
<1>12. o \in [1..n -> S] /\ DOMAIN o = 1..n
  BY <1>11
<1> HIDE DEF o
<1>13. o \in Orders(S)
  BY <1>11, <1>12 DEF Orders, n
<1>14. \A a, b \in 1..n :
         a < b => Ahead(o[a], o[b], q)
  <2> SUFFICES ASSUME NEW a \in 1..n, NEW b \in 1..n, a < b
               PROVE  o[a] \in B[o[b]]
    BY <1>4, <1>11
  <2>1. o[a] \in S /\ o[b] \in S /\ r[o[a]] = a /\ r[o[b]] = b
    BY <1>11
  <2>2. a \in Int /\ b \in Int
    OBVIOUS
  <2>3. ASSUME o[b] \in B[o[a]]
        PROVE  FALSE
    <3>1. r[o[b]] < r[o[a]]
      BY <1>8, <2>1, <2>3
    <3> QED
      BY <2>1, <2>2, <3>1
  <2>4. o[a] # o[b]
    BY <2>1, <2>2
  <2> QED
    BY <1>3, <2>1, <2>3, <2>4
<1> QED
  BY <1>12, <1>13, <1>14 DEF Sorted

\* and no other.
LEMMA SortedOnce ==
  ASSUME NEW S \in SUBSET Id, IsFiniteSet(S), NEW q, q.sort \in Column,
         NEW o \in Orders(S), Sorted(o, q),
         NEW p \in Orders(S), Sorted(p, q)
  PROVE  o = p
<1>1. \A k \in 1..Cardinality(S) : o[k] = p[k]
  <2> SUFFICES ASSUME NEW k \in 1..Cardinality(S)
               PROVE  o[k] = p[k]
    OBVIOUS
  <2>1. o[k] \in S
    BY DEF Orders
  <2>2. PICK j \in 1..Cardinality(S) : p[j] = o[k]
    BY <2>1, OrdersCover
  <2>3. j - 1 = k - 1
    BY <2>2, PlaceCounted
  <2> QED
    BY <2>2, <2>3, FS_CardinalityType
<1>2. o \in [1..Cardinality(S) -> S] /\ p \in [1..Cardinality(S) -> S]
  BY DEF Orders
<1>3. o = [k \in 1..Cardinality(S) |-> o[k]]
  BY <1>2
<1>4. p = [k \in 1..Cardinality(S) |-> p[k]]
  BY <1>2
<1>5. [k \in 1..Cardinality(S) |-> o[k]] = [k \in 1..Cardinality(S) |-> p[k]]
  BY <1>1
<1> QED
  BY <1>3, <1>4, <1>5

\* The k-th row of a list is on page m.
OnPage(k, m) == (m - 1) * PageSize < k /\ k <= m * PageSize

\* What a page shows of an order.
LEMMA WindowHas ==
  ASSUME NEW S, NEW o \in Seq(S), NEW q, q.page \in Nat \ {0}, view # "desk",
         NEW k \in 1..Len(o), \A a, b \in 1..Len(o) : o[a] = o[b] => a = b
  PROVE  LET w == Window(o, q)
         IN  (\E n \in DOMAIN w : w[n] = o[k]) <=> OnPage(k, q.page)
<1> DEFINE before == (q.page - 1) * PageSize
           end == q.page * PageSize
           last == IF end < Len(o) THEN end ELSE Len(o)
           w == Window(o, q)
<1>1. before \in Nat /\ end \in Nat
  <2>1. q.page - 1 \in Nat
    OBVIOUS
  <2> QED
    BY <2>1
<1>2. w = SubSeq(o, before + 1, last)
  BY DEF Window
<1> HIDE DEF before, end
<1>3. /\ last \in Nat /\ last <= Len(o) /\ last <= end
      /\ k <= end => k <= last
  BY <1>1
<1> HIDE DEF last, w
<1>4. /\ \A n \in DOMAIN w : /\ n \in Nat /\ n >= 1 /\ before + n <= last
                           /\ w[n] = o[before + n]
      /\ \A n \in Nat : n >= 1 /\ before + n <= last => n \in DOMAIN w
  <2>1. CASE before >= last
    <3>1. w = <<>>
      BY <1>1, <1>2, <1>3, <2>1
    <3> QED
      BY <1>1, <1>3, <2>1, <3>1
  <2>2. CASE before < last
    <3>1. /\ Len(w) = last - before
          /\ \A n \in 1..Len(w) : w[n] = o[before + n]
      BY <1>1, <1>2, <1>3, <2>2
    <3>2. DOMAIN w = 1..Len(w)
      BY <1>1, <1>2, <1>3
    <3> QED
      BY <1>1, <1>3, <2>2, <3>1, <3>2
  <2> QED
    BY <1>1, <1>3, <2>1, <2>2
<1>5. ASSUME before < k, k <= end
      PROVE  \E n \in DOMAIN w : w[n] = o[k]
  <2>1. k - before \in Nat /\ k - before >= 1 /\ before + (k - before) = k
    BY <1>1, <1>5
  <2>2. k - before \in DOMAIN w
    BY <1>3, <1>4, <1>5, <2>1
  <2> QED
    BY <1>4, <2>1, <2>2
<1>6. ASSUME NEW n \in DOMAIN w, w[n] = o[k]
      PROVE  before < k /\ k <= end
  <2>1. before + n = k
    BY <1>1, <1>3, <1>4, <1>6
  <2> QED
    BY <1>1, <1>3, <1>4, <2>1
<1> QED
  BY <1>5, <1>6 DEF before, end, w, OnPage

\* Each place is on one page.
LEMMA PageOfPlace ==
  ASSUME NEW k \in Nat \ {0}
  PROVE  \E p \in Nat \ {0} : \A m \in Nat \ {0} :
           OnPage(k, m) <=> m = p
<1> DEFINE d == (k - 1) \div PageSize
<1>1. d \in Nat /\ d * PageSize <= k - 1 /\ k - 1 < (d + 1) * PageSize
  OBVIOUS
<1> HIDE DEF d
<1>2. ASSUME NEW m \in Nat \ {0}
      PROVE  OnPage(k, m) <=> m = d + 1
  <2>1. ASSUME NEW a \in Nat, NEW b \in Nat, a < b
        PROVE  (a + 1) * PageSize <= b * PageSize
    <3>1. PICK c \in Nat : b = a + 1 + c
      <4>1. b - a - 1 \in Nat /\ b = a + 1 + (b - a - 1)
        BY <2>1
      <4> QED
        BY <4>1
    <3>2. b * PageSize = (a + 1) * PageSize + c * PageSize /\ c * PageSize \in Nat
      BY <3>1
    <3> QED
      BY <3>2
  <2>2. d * PageSize \in Nat /\ (d + 1) * PageSize \in Nat
    BY <1>1
  <2>3. (m - 1) * PageSize \in Nat /\ m * PageSize \in Nat /\ m - 1 \in Nat
    BY <1>2
  <2>4. CASE m - 1 < d
    <3>1. m * PageSize <= d * PageSize
      BY <1>1, <2>1, <2>3, <2>4
    <3> QED
      BY <1>1, <2>2, <2>3, <2>4, <3>1 DEF OnPage
  <2>5. CASE m - 1 = d
    <3>1. m = d + 1
      BY <1>1, <2>5
    <3> QED
      BY <1>1, <2>2, <3>1 DEF OnPage
  <2>6. CASE m - 1 > d
    <3>1. (d + 1) * PageSize <= (m - 1) * PageSize
      BY <1>1, <2>1, <2>3, <2>6
    <3> QED
      BY <1>1, <2>2, <2>3, <2>6, <3>1 DEF OnPage
  <2> QED
    BY <1>1, <2>3, <2>4, <2>5, <2>6
<1>3. d + 1 \in Nat \ {0}
  BY <1>1
<1> QED
  BY <1>2, <1>3

\* A list of loans is ordered to the last tie (order(borrowed_at: dir, id: dir)), so
\* that LIMIT and OFFSET cut one and the same list whatever page is asked for: as
\* long as the table stays as it is, each loan that matches the filters is on one
\* page and on no other, for any number of loans and any page size.
THEOREM EachLoanOnOnePage ==
  ASSUME Typed, view \in {"loans", "own"}, NEW q \in Query, NEW i \in Matching(q)
  PROVE  \E p \in Nat \ {0} : \A m \in Nat \ {0} :
           \E l : /\ Lists([q EXCEPT !.page = m]) = {l}
                 /\ i \in IdsOf(l) <=> m = p
<1> DEFINE S == Matching(q)
           At(m) == [q EXCEPT !.page = m]
<1>1. S \in SUBSET Id /\ IsFiniteSet(S)
  <2>1. S \subseteq DOMAIN table
    BY DEF Matching
  <2> QED
    BY <2>1, FS_Subset DEF Typed, TableTyped, IsTable
<1>2. \A m : /\ Matching(At(m)) = S /\ At(m).page = m
            /\ \A j, h : Ahead(j, h, At(m)) <=> Ahead(j, h, q)
  BY DEF Matching, Query, Ahead
<1> HIDE DEF S, At
<1>3. PICK o \in Orders(S) : Sorted(o, q)
  BY <1>1, SortedExists DEF Query
<1>4. o \in Seq(S) /\ Len(o) = Cardinality(S) /\ Cardinality(S) \in Nat
  BY <1>1, OrdersTyped
<1>5. \A a, b \in 1..Len(o) : o[a] = o[b] => a = b
  BY <1>4 DEF Orders
<1>6. \A m : OrdersFor(At(m)) = {o}
  <2>1. \A p \in Orders(S) : Sorted(p, q) => p = o
    BY <1>1, <1>3, SortedOnce DEF Query
  <2>2. \A m : \A p : Sorted(p, At(m)) <=> Sorted(p, q)
    BY <1>2 DEF Sorted
  <2> QED
    BY <1>2, <1>3, <2>1, <2>2 DEF OrdersFor
<1>7. PICK k \in 1..Len(o) : o[k] = i
  BY <1>1, <1>4, OrdersCover DEF S
<1>8. PICK p \in Nat \ {0} : \A m \in Nat \ {0} : OnPage(k, m) <=> m = p
  <2>1. k \in Nat \ {0}
    BY <1>4
  <2> QED
    BY <2>1, PageOfPlace
<1>9. ASSUME NEW m \in Nat \ {0}
      PROVE  \E l : Lists(At(m)) = {l} /\ (i \in IdsOf(l) <=> m = p)
  <2> DEFINE w == Window(o, At(m))
             l == [n \in DOMAIN w |-> [id |-> w[n], val |-> table[w[n]]]]
  <2>1. Lists(At(m)) = {l}
    BY <1>6 DEF Lists
  <2>2. IdsOf(l) = {w[n] : n \in DOMAIN w}
    BY DEF IdsOf
  <2>3. (\E n \in DOMAIN w : w[n] = o[k]) <=> OnPage(k, m)
    BY <1>2, <1>4, <1>5, WindowHas
  <2> HIDE DEF w, l
  <2>4. i \in IdsOf(l) <=> m = p
    BY <1>7, <1>8, <2>2, <2>3
  <2> QED
    BY <2>1, <2>4
<1> QED
  BY <1>9 DEF At
=============================================================================
