---------------------------- MODULE PagesProofs -----------------------------
(***************************************************************************)
(* Theorems about the pages, for any rows, any contents and any number of  *)
(* requests in flight.                                                     *)
(***************************************************************************)
EXTENDS Pages, TLAPS

USE ListAssumption DEF ListAssumption

-----------------------------------------------------------------------------
(* The invariant *)

\* What is in flight is a request, whatever it asks.
Formed(r) ==
  r = [kind |-> r.kind, query |-> r.query, id |-> r.id, val |-> r.val,
       here |-> r.here, live |-> r.live, asked |-> r.asked, answer |-> r.answer]
Shaped ==
  /\ req = [s \in Slot |-> req[s]]
  /\ \A s \in Slot : req[s] # Idle => Formed(req[s])

\* The dialogues that send something about a row have one.
DialogShaped ==
  /\ dialog.kind \in {"edit", "borrow"} => dialog.id \in Id
  /\ dialog.kind = "borrow" =>
       dialog = [kind |-> "borrow", id |-> dialog.id, note |-> dialog.note]

\* A request that will unlock a row finds it locked.
LockersLock == \A s \in Slot : Locks(s, req[s].id) => req[s].id \in busy

LockInv ==
  /\ Shaped
  /\ DialogShaped
  /\ busy \subseteq Id
  /\ LockersLock
  /\ LockedRowsAreAwaited

\* The flags of the page are the requests that hold rows: it is enough that the
\* requests that still hold a row are those that held it, and its flag is kept
\* exactly with one of them.
LEMMA HoldersKept ==
  ASSUME LockInv, Shaped', DialogShaped', busy' \subseteq busy,
         \A s \in Slot : \A i : Locks(s, i)' <=> Locks(s, i) /\ i \in busy'
  PROVE  LockInv'
<1>1. busy' \subseteq Id
  BY DEF LockInv
<1>2. LockersLock'
  BY DEF LockersLock
<1>3. LockedRowsAreAwaited'
  <2> SUFFICES ASSUME NEW i \in busy'
               PROVE  /\ \E s \in Slot : Locks(s, i)'
                      /\ \A s, t \in Slot : Locks(s, i)' /\ Locks(t, i)' => s = t
    BY DEF LockedRowsAreAwaited
  <2>1. /\ \E s \in Slot : Locks(s, i)
        /\ \A s, t \in Slot : Locks(s, i) /\ Locks(t, i) => s = t
    BY DEF LockInv, LockedRowsAreAwaited
  <2> QED
    BY <2>1
<1> QED
  BY <1>1, <1>2, <1>3 DEF LockInv

-----------------------------------------------------------------------------
(* Steps *)

\* Nothing that the flags depend on.
LEMMA Untouched ==
  ASSUME LockInv, view' = view, busy' = busy, req' = req, DialogShaped'
  PROVE  LockInv'
<1>1. Shaped'
  BY DEF LockInv, Shaped
<1>2. \A s \in Slot : \A i : Locks(s, i)' <=> Locks(s, i)
  BY DEF Locks
<1>3. \A s \in Slot : \A i : Locks(s, i) => i \in busy
  BY DEF LockInv, LockersLock, Locks
<1> QED
  BY <1>1, <1>2, <1>3, HoldersKept

\* A slot of a request that holds no row is taken by one that holds none.
LEMMA Exchanged ==
  ASSUME LockInv, view' = view, busy' = busy, DialogShaped',
         NEW s \in Slot, NEW r, req' = [req EXCEPT ![s] = r],
         r # Idle => Formed(r),
         \A i : ~ Locks(s, i), \A i : ~ Locks(s, i)'
  PROVE  LockInv'
<1>1. Shaped'
  BY DEF LockInv, Shaped
<1>2. \A t \in Slot : \A i : Locks(t, i)' <=> Locks(t, i)
  BY DEF Locks, LockInv, Shaped
<1>3. \A t \in Slot : \A i : Locks(t, i) => i \in busy
  BY DEF LockInv, LockersLock, Locks
<1> QED
  BY <1>1, <1>2, <1>3, HoldersKept

\* A request that locks nothing is sent.
LEMMA SendPlain ==
  ASSUME LockInv, view' = view, busy' = busy, dialog' = dialog,
         NEW kind, NEW q, NEW id, NEW val, Send(Request(kind, q, id, val)),
         kind \notin {"save", "borrow"}, kind = "remove" => view # "books"
  PROVE  LockInv'
<1>1. PICK s \in Slot :
        /\ req[s] = Idle
        /\ req' = [req EXCEPT ![s] = Request(kind, q, id, val)]
  BY DEF Send, Free
<1>2. DialogShaped'
  BY DEF LockInv, DialogShaped
<1>3. Formed(Request(kind, q, id, val))
  BY DEF Formed, Request
<1>4. \A i : ~ Locks(s, i) /\ ~ Locks(s, i)'
  BY <1>1 DEF Locks, LockInv, Shaped, Request
<1> QED
  BY <1>1, <1>2, <1>3, <1>4, Exchanged

\* A request that locks its row is sent.
LEMMA SendLocking ==
  ASSUME LockInv, view' = view, dialog' = dialog,
         NEW kind, NEW q, NEW id \in Id, NEW val,
         Send(Request(kind, q, id, val)),
         kind \in {"save", "borrow"} \/ (kind = "remove" /\ view = "books"),
         id \notin busy, busy' = busy \cup {id}
  PROVE  LockInv'
<1> DEFINE new == Request(kind, q, id, val)
<1>1. PICK s \in Slot : req[s] = Idle /\ req' = [req EXCEPT ![s] = new]
  BY DEF Send, Free
<1>2. /\ Formed(new) /\ new # Idle
      /\ new.kind = kind /\ new.id = id /\ new.here /\ new.live
  BY DEF Formed, Request, Idle
<1> HIDE DEF new
<1>3. Shaped' /\ DialogShaped' /\ busy' \subseteq Id
  BY <1>1, <1>2 DEF LockInv, Shaped, DialogShaped
<1>4. \A i : Locks(s, i)' <=> i = id
  BY <1>1, <1>2 DEF Locks, LockInv, Shaped
<1>5. \A t \in Slot \ {s} : \A i : Locks(t, i)' <=> Locks(t, i)
  BY <1>1 DEF Locks, LockInv, Shaped
<1>6. \A t \in Slot : \A i : Locks(t, i) => i \in busy /\ t # s
  BY <1>1 DEF LockInv, LockersLock, Locks
<1>7. LockersLock'
  BY <1>4, <1>5, <1>6 DEF LockersLock
<1>8. LockedRowsAreAwaited'
  <2> SUFFICES ASSUME NEW i \in busy'
               PROVE  /\ \E t \in Slot : Locks(t, i)'
                      /\ \A t, u \in Slot : Locks(t, i)' /\ Locks(u, i)' => t = u
    BY DEF LockedRowsAreAwaited
  <2>1. CASE i = id
    BY <2>1, <1>4, <1>5, <1>6
  <2>2. CASE i # id
    <3>1. /\ \E t \in Slot : Locks(t, i)
          /\ \A t, u \in Slot : Locks(t, i) /\ Locks(u, i) => t = u
      BY <2>2 DEF LockInv, LockedRowsAreAwaited
    <3> QED
      BY <3>1, <2>2, <1>4, <1>5, <1>6
  <2> QED
    BY <2>1, <2>2
<1> QED
  BY <1>3, <1>7, <1>8 DEF LockInv

\* A request is answered, or its answer lost.
LEMMA AnswerOnly ==
  ASSUME LockInv, view' = view, busy' = busy, dialog' = dialog,
         NEW s \in Slot, NEW a, req[s] # Idle,
         req' = [req EXCEPT ![s].answer = a]
  PROVE  LockInv'
<1>1. /\ Formed(req'[s]) /\ req'[s] # Idle
      /\ req'[s].kind = req[s].kind /\ req'[s].id = req[s].id
      /\ req'[s].here = req[s].here /\ req'[s].live = req[s].live
  <2>1. Formed(req[s])
    BY DEF LockInv, Shaped
  <2>2. req'[s] = [req[s] EXCEPT !.answer = a]
    BY DEF LockInv, Shaped
  <2> QED
    BY <2>1, <2>2 DEF Formed, Idle
<1>2. \A t \in Slot \ {s} : req'[t] = req[t]
  BY DEF LockInv, Shaped
<1>3. Shaped' /\ DialogShaped'
  BY <1>1, <1>2 DEF LockInv, Shaped, DialogShaped
<1>4. \A t \in Slot : \A i : Locks(t, i)' <=> Locks(t, i)
  BY <1>1, <1>2 DEF Locks
<1>5. \A t \in Slot : \A i : Locks(t, i) => i \in busy
  BY DEF LockInv, LockersLock, Locks
<1> QED
  BY <1>3, <1>4, <1>5, HoldersKept

\* An answer is received by a page that is gone or by a function that locked
\* nothing: the flags stay, the request is over.
LEMMA JustOver ==
  ASSUME LockInv, view' = view, busy' = busy, DialogShaped',
         NEW s \in Slot, req' = Over(s), \A i : ~ Locks(s, i)
  PROVE  LockInv'
<1>1. \A i : ~ Locks(s, i)'
  BY DEF Locks, Over, LockInv, Shaped
<1> QED
  BY <1>1, Exchanged DEF Over

\* A list is shown: rows that went take their flags with them, and a request that
\* held one of them holds it no more.  The functions in `ended` are over with it.
GoesOn(r, ended) ==
  \A t \in Slot : r[t] = IF t \in ended THEN Idle ELSE req[t]

LEMMA RowsReplaced ==
  ASSUME LockInv, view' = view, NEW ended, NEW r, GoesOn(r, ended),
         NEW list, NEW dlg, NEW flags, NEW borrowed,
         ShowRows(list, dlg, flags, borrowed, r),
         dlg \in {dialog, Closed},
         flags \subseteq busy,
         \A i \in busy : i \in flags <=> ~ \E s \in Slot \cap ended : Locks(s, i)
  PROVE  LockInv'
<1> DEFINE stay == Components(list)
<1>1. /\ dialog' \in {dialog, Closed}
      /\ busy' = flags \cap stay
      /\ req' = [t \in Slot |->
                   IF r[t] # Idle /\ r[t].id \notin stay \cup {0}
                   THEN [r[t] EXCEPT !.live = FALSE] ELSE r[t]]
  BY DEF ShowRows
<1> HIDE DEF stay
<1>2. \A t \in Slot : r[t] = IF t \in ended THEN Idle ELSE req[t]
  BY DEF GoesOn
<1>3. \A t \in Slot \cap ended : req'[t] = Idle
  BY <1>1, <1>2
<1>4. \A t \in Slot \ ended :
        req'[t] = IF req[t] # Idle /\ req[t].id \notin stay \cup {0}
                  THEN [req[t] EXCEPT !.live = FALSE] ELSE req[t]
  BY <1>1, <1>2
<1>5. ASSUME NEW t \in Slot \ ended, req[t] # Idle
      PROVE  /\ Formed(req'[t]) /\ req'[t] # Idle
             /\ req'[t].kind = req[t].kind /\ req'[t].id = req[t].id
             /\ req'[t].here = req[t].here
             /\ req'[t].live = IF req[t].id \notin stay \cup {0} THEN FALSE
                               ELSE req[t].live
  <2>1. Formed(req[t])
    BY <1>5 DEF LockInv, Shaped
  <2>2. CASE req[t].id \notin stay \cup {0}
    <3>1. req'[t] = [req[t] EXCEPT !.live = FALSE]
      BY <1>4, <1>5, <2>2
    <3> QED
      BY <2>1, <2>2, <3>1 DEF Formed, Idle
  <2>3. CASE req[t].id \in stay \cup {0}
    BY <1>4, <1>5, <2>1, <2>3
  <2> QED
    BY <2>2, <2>3
<1>6. \A t \in Slot \ ended : req[t] = Idle => req'[t] = Idle
  BY <1>4
<1>7. Shaped' /\ DialogShaped'
  <2>1. req' = [t \in Slot |-> req'[t]]
    BY <1>1
  <2>2. \A t \in Slot : req'[t] # Idle => Formed(req'[t])
    BY <1>3, <1>5, <1>6
  <2>3. DialogShaped'
    BY <1>1 DEF LockInv, DialogShaped, Closed
  <2> QED
    BY <2>1, <2>2, <2>3 DEF Shaped
<1>8. \A t \in Slot : \A i : Locks(t, i) => i \in busy /\ i \in Id /\ i # 0
  <2>1. \A t \in Slot : \A i : Locks(t, i) => i \in busy
    BY DEF LockInv, LockersLock, Locks
  <2>2. \A i \in busy : i \in Id /\ i # 0
    BY DEF LockInv
  <2> QED
    BY <2>1, <2>2
<1>9. ASSUME NEW t \in Slot, NEW i
      PROVE  Locks(t, i)' <=> Locks(t, i) /\ i \in busy'
  <2>1. CASE t \in ended
    BY <1>1, <1>3, <1>8, <2>1 DEF Locks
  <2>2. CASE t \notin ended
    <3>1. Locks(t, i)' <=> Locks(t, i) /\ i \in stay
      <4>1. CASE req[t] = Idle
        BY <1>6, <2>2, <4>1 DEF Locks
      <4>2. CASE req[t] # Idle
        <5>1. t \in Slot \ ended
          BY <2>2
        <5>2. Locks(t, i) => i # 0 /\ i = req[t].id
          BY <1>8 DEF Locks
        <5>3. /\ req'[t] # Idle
              /\ req'[t].kind = req[t].kind /\ req'[t].id = req[t].id
              /\ req'[t].here = req[t].here
              /\ req'[t].live = IF req[t].id \notin stay \cup {0} THEN FALSE
                                ELSE req[t].live
          BY <1>5, <4>2, <5>1
        <5>4. CASE req[t].id \in stay \cup {0}
          BY <4>2, <5>2, <5>3, <5>4 DEF Locks
        <5>5. CASE req[t].id \notin stay \cup {0}
          BY <4>2, <5>2, <5>3, <5>5 DEF Locks
        <5> QED
          BY <5>4, <5>5
      <4> QED
        BY <4>1, <4>2
    <3>2. Locks(t, i) => ~ \E s \in Slot \cap ended : Locks(s, i)
      BY <1>8, <2>2 DEF LockInv, LockedRowsAreAwaited
    <3> QED
      BY <1>1, <1>8, <3>1, <3>2
  <2> QED
    BY <2>1, <2>2
<1>10. busy' \subseteq busy
  BY <1>1
<1> QED
  BY <1>7, <1>9, <1>10, HoldersKept

\* A list is shown when a request for it, or for a change to it, is over.
LEMMA OverGoesOn ==
  ASSUME LockInv, NEW s \in Slot
  PROVE  GoesOn(Over(s), {s})
BY DEF GoesOn, Over, LockInv, Shaped

LEMMA RowsShown ==
  ASSUME LockInv, view' = view, NEW s \in Slot,
         NEW list, NEW dlg, NEW flags, NEW borrowed,
         ShowRows(list, dlg, flags, borrowed, Over(s)),
         dlg \in {dialog, Closed},
         flags \subseteq busy,
         \A i \in busy : i \in flags <=> ~ Locks(s, i)
  PROVE  LockInv'
<1>1. \A i \in busy : i \in flags <=> ~ \E t \in Slot \cap {s} : Locks(t, i)
  OBVIOUS
<1> QED
  BY <1>1, OverGoesOn, RowsReplaced

\* A list arrives for a page that waits for it, or is gone.
LEMMA ListKept ==
  ASSUME LockInv, view' = view,
         NEW s \in Slot, NEW v, NEW on_error, ListArrives(s, v, on_error)
  PROVE  LockInv'
<1>1. \A i : ~ Locks(s, i)
  BY DEF ListArrives, Answered, Locks
<1>2. CASE req[s].here
  <2>1. PICK list :
          ShowRows(list, dialog, busy, done, Over(s))
    BY <1>2 DEF ListArrives
  <2> QED
    BY <1>1, <2>1, RowsShown
<1>3. CASE ~ req[s].here
  <2>1. req' = Over(s) /\ busy' = busy /\ DialogShaped'
    BY <1>3 DEF ListArrives, LockInv, DialogShaped
  <2> QED
    BY <1>1, <2>1, JustOver
<1> QED
  BY <1>2, <1>3

\* A changed query is sent, and nothing else.
LEMMA AskKept ==
  ASSUME LockInv, NEW q, Ask(q)
  PROVE  LockInv'
<1>1. Send(Request("list", q, 0, Blank))
  BY DEF Ask, ListRequest
<1> QED
  BY <1>1, SendPlain DEF Ask

LEMMA FilterKept ==
  ASSUME LockInv, NEW v, NEW f, Filter(v, f)
  PROVE  LockInv'
BY AskKept DEF Filter

LEMMA SortKept ==
  ASSUME LockInv, NEW v, Sort(v)
  PROVE  LockInv'
BY AskKept DEF Sort

LEMMA TurnKept ==
  ASSUME LockInv, NEW v, Turn(v)
  PROVE  LockInv'
BY AskKept DEF Turn

\* A dialogue opens, about a row if it is one that sends something about it.
LEMMA OpenKept ==
  ASSUME LockInv, NEW d, Open(d),
         d.kind \in {"edit", "borrow"} => d.id \in Id,
         d.kind = "borrow" =>
           d = [kind |-> "borrow", id |-> d.id, note |-> d.note]
  PROVE  LockInv'
<1>1. DialogShaped'
  BY DEF Open, DialogShaped
<1> QED
  BY <1>1, Untouched DEF Open

\* Closing a dialogue unlocks nothing.
LEMMA CloseKept ==
  ASSUME LockInv, Close
  PROVE  LockInv'
<1>1. DialogShaped'
  BY DEF Close, DialogShaped, Closed
<1>2. ASSUME NEW t \in Slot, req[t] # Idle
      PROVE  /\ Formed(req'[t]) /\ req'[t] # Idle
             /\ req'[t].kind = req[t].kind /\ req'[t].id = req[t].id
             /\ req'[t].here = req[t].here /\ req'[t].live = req[t].live
  <2>1. Formed(req[t])
    BY <1>2 DEF LockInv, Shaped
  <2>2. req'[t] = [req[t] EXCEPT !.asked = @ /\ req[t].kind # "borrow"]
    BY <1>2 DEF Close
  <2> QED
    BY <2>1, <2>2 DEF Formed, Idle
<1>3. \A t \in Slot : req[t] = Idle => req'[t] = Idle
  BY DEF Close
<1>4. Shaped'
  <2>1. req' = [t \in Slot |-> req'[t]]
    BY DEF Close
  <2> QED
    BY <1>2, <1>3, <2>1 DEF Shaped
<1>5. \A t \in Slot : \A i : Locks(t, i)' <=> Locks(t, i)
  BY <1>2, <1>3 DEF Locks, Close
<1>6. \A t \in Slot : \A i : Locks(t, i) => i \in busy
  BY DEF LockInv, LockersLock, Locks
<1> QED
  BY <1>1, <1>4, <1>5, <1>6, HoldersKept DEF Close

-----------------------------------------------------------------------------
(* Creating, editing, deleting *)

LEMMA CreateKept ==
  ASSUME LockInv, NEW v, NEW val, Create(v, val)
  PROVE  LockInv'
<1>1. PICK q : Send(Request("create", q, 0, val))
  BY DEF Create, Call
<1> QED
  BY <1>1, SendPlain DEF Create, page_vars

LEMMA CreatedKept ==
  ASSUME LockInv, NEW v, NEW s \in Slot, Created(v, s)
  PROVE  LockInv'
<1>1. \A i : ~ Locks(s, i)
  BY DEF Created, Answered, Locks
<1>2. CASE req[s].here /\ req[s].answer.ok
  <2>1. PICK list :
          ShowRows(list, IF Creating THEN Closed ELSE dialog, busy, done, Over(s))
    BY <1>2 DEF Created
  <2>2. view' = view /\ (IF Creating THEN Closed ELSE dialog) \in {dialog, Closed}
    BY DEF Created
  <2> QED
    BY <1>1, <2>1, <2>2, RowsShown
<1>3. CASE ~ (req[s].here /\ req[s].answer.ok)
  <2>1. req' = Over(s) /\ busy' = busy /\ view' = view /\ DialogShaped'
    BY <1>3 DEF Created, LockInv, DialogShaped
  <2> QED
    BY <1>1, <2>1, JustOver
<1> QED
  BY <1>2, <1>3

LEMMA EditKept ==
  ASSUME LockInv, NEW v, NEW i \in Id, Edit(v, i)
  PROVE  LockInv'
BY OpenKept DEF Edit

\* Save locks the row of the form.
LEMMA SaveKept ==
  ASSUME LockInv, NEW v, NEW val, Save(v, val)
  PROVE  LockInv'
<1>1. PICK q : Send(Request("save", q, dialog.id, val))
  BY DEF Save, Call
<1>2. dialog.id \in Id
  BY DEF Save, LockInv, DialogShaped
<1> QED
  BY <1>1, <1>2, SendLocking DEF Save

\* finally unlocks the row of an answered request that held it, and no other.
LEMMA ReleasedIsAnswered ==
  ASSUME LockInv, NEW s \in Slot, req[s] # Idle, req[s].here,
         \/ req[s].kind \in {"save", "borrow"}
         \/ req[s].kind = "remove" /\ view = "books"
  PROVE  /\ Released(s) \subseteq busy
         /\ \A i \in busy : i \in Released(s) <=> ~ Locks(s, i)
BY DEF Released, Locks

LEMMA SavedKept ==
  ASSUME LockInv, NEW v, NEW s \in Slot, NEW dlg, dlg \in {dialog, Closed},
         Saved(v, s, dlg)
  PROVE  LockInv'
<1>1. req[s] # Idle /\ req[s].kind = "save" /\ view' = view
  BY DEF Saved, Answered
<1>2. CASE req[s].here
  <2>1. PICK list : ShowRows(list, dlg, Released(s), done, Over(s))
    BY <1>2 DEF Saved
  <2> QED
    BY <1>1, <1>2, <2>1, ReleasedIsAnswered, RowsShown
<1>3. CASE ~ req[s].here
  <2>1. req' = Over(s) /\ busy' = busy /\ DialogShaped'
    BY <1>3 DEF Saved, LockInv, DialogShaped
  <2>2. \A i : ~ Locks(s, i)
    BY <1>3 DEF Locks
  <2> QED
    BY <1>1, <2>1, <2>2, JustOver
<1> QED
  BY <1>2, <1>3

\* A book that is deleted is locked, a member is not.
LEMMA RemoveKept ==
  ASSUME LockInv, NEW i \in Id,
         RemoveBook(i) \/ RemoveMember(i)
  PROVE  LockInv'
<1>1. CASE RemoveBook(i)
  <2>1. PICK q : Send(Request("remove", q, i, Blank))
    BY <1>1 DEF RemoveBook, Remove, Call
  <2> QED
    BY <1>1, <2>1, SendLocking DEF RemoveBook, Remove
<1>2. CASE RemoveMember(i)
  <2>1. PICK q : Send(Request("remove", q, i, Blank))
    BY <1>2 DEF RemoveMember, Remove, Call
  <2> QED
    BY <1>2, <2>1, SendPlain DEF RemoveMember, Remove
<1> QED
  BY <1>1, <1>2

LEMMA RemovedKept ==
  ASSUME LockInv, NEW s \in Slot, BookRemoved(s) \/ MemberRemoved(s)
  PROVE  LockInv'
<1>1. PICK v, flags :
        /\ Removed(v, s, flags)
        /\ \/ v = "books" /\ flags = Released(s)
           \/ v = "members" /\ flags = busy
  BY DEF BookRemoved, MemberRemoved
<1>2. req[s] # Idle /\ req[s].kind = "remove" /\ view = v /\ view' = view
  BY <1>1 DEF Removed, Answered
<1>3. CASE req[s].here
  <2>1. PICK list : ShowRows(list, dialog, flags, done, Over(s))
    BY <1>1, <1>3 DEF Removed
  <2>2. /\ flags \subseteq busy
        /\ \A i \in busy : i \in flags <=> ~ Locks(s, i)
    <3>1. CASE v = "books" /\ flags = Released(s)
      BY <1>2, <1>3, <3>1, ReleasedIsAnswered
    <3>2. CASE v = "members" /\ flags = busy
      BY <1>2, <3>2 DEF Locks
    <3> QED
      BY <1>1, <3>1, <3>2
  <2> QED
    BY <1>2, <2>1, <2>2, RowsShown
<1>4. CASE ~ req[s].here
  <2>1. req' = Over(s) /\ busy' = busy /\ DialogShaped'
    BY <1>1, <1>4 DEF Removed, LockInv, DialogShaped
  <2>2. \A i : ~ Locks(s, i)
    BY <1>4 DEF Locks
  <2> QED
    BY <1>2, <2>1, <2>2, JustOver
<1> QED
  BY <1>3, <1>4

-----------------------------------------------------------------------------
(* Returning, marking, borrowing, searching *)

LEMMA LoansKept ==
  ASSUME LockInv, LoansNext
  PROVE  LockInv'
<1>1. ASSUME NEW i, OpenReturn(i)
      PROVE  LockInv'
  BY <1>1, OpenKept DEF OpenReturn
<1>2. ASSUME ConfirmReturn
      PROVE  LockInv'
  BY <1>2, SendPlain DEF ConfirmReturn, page_vars
<1> QED
  BY <1>1, <1>2, FilterKept, SortKept, TurnKept
     DEF LoansNext, LoansFilter, LoansSort, LoansTurn

\* A handler that goes on with the list.
LEMMA GoesOnList ==
  ASSUME NEW s, NEW kind, NEW q
  PROVE  /\ Formed(NextList(s, kind, q))
         /\ NextList(s, kind, q).kind = kind
         /\ NextList(s, kind, q).query = q
         /\ NextList(s, kind, q).here = req[s].here
         /\ NextList(s, kind, q).answer = Pending
<1> DEFINE asks == ListRequest(kind, q)
           r == NextList(s, kind, q)
<1>1. /\ Formed(asks) /\ asks.kind = kind /\ asks.query = q
      /\ asks.answer = Pending
  BY DEF Formed, ListRequest, Request
<1>2. r = [asks EXCEPT !.here = req[s].here]
  BY DEF NextList
<1> HIDE DEF asks, r
<1>3. /\ Formed(r) /\ r.kind = kind /\ r.query = q
      /\ r.here = req[s].here /\ r.answer = Pending
  BY <1>1, <1>2 DEF Formed
<1> QED
  BY <1>3 DEF r

\* The rest of such a request is that of any list's.
LEMMA GoesOnPlainly ==
  ASSUME NEW s, NEW kind, NEW q
  PROVE  /\ NextList(s, kind, q).id = 0
         /\ NextList(s, kind, q).val = Blank
         /\ NextList(s, kind, q).live
         /\ NextList(s, kind, q).asked
BY DEF NextList, ListRequest, Request

\* A return leaves the flags alone, and becomes the reload of the list.
LEMMA ReturnKept ==
  ASSUME LockInv, NEW s \in Slot, ReturnArrives(s)
  PROVE  LockInv'
<1>1. \A i : ~ Locks(s, i)
  BY DEF ReturnArrives, Answered, Locks
<1>2. PICK r :
        /\ req' = [req EXCEPT ![s] = r]
        /\ r = Idle \/ (Formed(r) /\ r.kind = "reload")
  BY GoesOnList DEF ReturnArrives, Over
<1>3. DialogShaped'
  BY DEF ReturnArrives, ReturnClosed, LockInv, DialogShaped, Closed
<1>4. r # Idle => Formed(r)
  BY <1>2
<1>5. \A i : ~ Locks(s, i)'
  BY <1>2 DEF Locks, LockInv, Shaped
<1>6. view' = view /\ busy' = busy
  BY DEF ReturnArrives
<1> QED
  BY <1>1, <1>2, <1>3, <1>4, <1>5, <1>6, Exchanged

LEMMA ReloadKept ==
  ASSUME LockInv, NEW s \in Slot, ReloadArrives(s)
  PROVE  LockInv'
<1>1. \A i : ~ Locks(s, i)
  BY DEF ReloadArrives, Answered, Locks
<1>2. view' = view
  BY DEF ReloadArrives
<1>3. CASE req[s].here
  <2>1. ShowRows(req[s].answer.rows, ReturnClosed, busy, done, Over(s))
    BY <1>3 DEF ReloadArrives
  <2>2. ReturnClosed \in {dialog, Closed}
    BY DEF ReturnClosed
  <2> QED
    BY <1>1, <1>2, <2>1, <2>2, RowsShown
<1>4. CASE ~ req[s].here
  <2>1. req' = Over(s) /\ busy' = busy /\ DialogShaped'
    BY <1>4 DEF ReloadArrives, LockInv, DialogShaped
  <2> QED
    BY <1>1, <1>2, <2>1, JustOver
<1> QED
  BY <1>3, <1>4

LEMMA MarkKept ==
  ASSUME LockInv, MarkOverdue \/ \E s \in Slot : MarkArrives(s)
  PROVE  LockInv'
<1>1. CASE MarkOverdue
  <2>1. PICK q : Send(Request("mark", q, 0, Blank))
    BY <1>1 DEF MarkOverdue, Call
  <2> QED
    BY <1>1, <2>1, SendPlain DEF MarkOverdue, page_vars
<1>2. ASSUME NEW s \in Slot, MarkArrives(s)
      PROVE  LockInv'
  <2>1. \A i : ~ Locks(s, i)
    BY <1>2 DEF MarkArrives, Answered, Locks
  <2>2. /\ view' = view /\ busy' = busy /\ dialog' = dialog
        /\ \/ req' = Over(s)
           \/ req' = [req EXCEPT ![s] = NextList(s, "list", query)]
    BY <1>2 DEF MarkArrives, page_vars
  <2>3. DialogShaped'
    BY <2>2 DEF LockInv, DialogShaped
  <2>4. CASE req' = Over(s)
    BY <2>1, <2>2, <2>3, <2>4, JustOver
  <2>5. CASE req' = [req EXCEPT ![s] = NextList(s, "list", query)]
    <3> DEFINE r == NextList(s, "list", query)
    <3>1. Formed(r) /\ r.kind = "list"
      BY GoesOnList
    <3> HIDE DEF r
    <3>2. \A i : ~ Locks(s, i)'
      BY <2>5, <3>1 DEF r, Locks, LockInv, Shaped
    <3>3. req' = [req EXCEPT ![s] = r]
      BY <2>5 DEF r
    <3> QED
      BY <2>1, <2>2, <2>3, <3>1, <3>2, <3>3, Exchanged
  <2> QED
    BY <2>2, <2>4, <2>5
<1> QED
  BY <1>1, <1>2

LEMMA ConfirmBorrowKept ==
  ASSUME LockInv, ConfirmBorrow
  PROVE  LockInv'
<1>1. PICK q : Send(Request("borrow", q, dialog.id, Blank))
  BY DEF ConfirmBorrow, Call
<1>2. dialog.id \in Id
  BY DEF ConfirmBorrow, LockInv, DialogShaped
<1> QED
  BY <1>1, <1>2, SendLocking DEF ConfirmBorrow

\* The answer to a borrow request unlocks its row, if the button is still there.
LEMMA BorrowKept ==
  ASSUME LockInv, NEW s \in Slot, BorrowArrives(s)
  PROVE  LockInv'
<1>1. /\ req[s] # Idle /\ req[s].kind = "borrow"
      /\ req' = Over(s) /\ view' = view
  BY DEF BorrowArrives, Answered
<1>2. DialogShaped'
  BY DEF BorrowArrives, Noted, LockInv, DialogShaped
<1>3. CASE req[s].here /\ req[s].live
  <2>1. busy' = busy \ {req[s].id}
    BY <1>3 DEF BorrowArrives
  <2>2. Shaped'
    BY <1>1 DEF LockInv, Shaped, Over
  <2>3. \A t \in Slot : \A i : Locks(t, i) => i \in busy
    BY DEF LockInv, LockersLock, Locks
  <2>4. \A i : Locks(s, i) <=> i = req[s].id
    BY <1>1, <1>3 DEF Locks
  <2>5. \A i : ~ Locks(s, i)'
    BY <1>1 DEF Locks, LockInv, Shaped, Over
  <2>6. \A t \in Slot \ {s} : \A i : Locks(t, i)' <=> Locks(t, i)
    BY <1>1 DEF Locks, LockInv, Shaped, Over
  <2>7. \A t \in Slot \ {s} : ~ Locks(t, req[s].id)
    BY <2>3, <2>4 DEF LockInv, LockedRowsAreAwaited
  <2>8. \A t \in Slot : \A i : Locks(t, i)' <=> Locks(t, i) /\ i \in busy'
    BY <2>1, <2>3, <2>4, <2>5, <2>6, <2>7
  <2> QED
    BY <1>2, <2>1, <2>2, <2>8, HoldersKept
<1>4. CASE ~ (req[s].here /\ req[s].live)
  <2>1. busy' = busy
    BY <1>4 DEF BorrowArrives
  <2>2. \A i : ~ Locks(s, i)
    BY <1>4 DEF Locks
  <2> QED
    BY <1>1, <1>2, <2>1, <2>2, JustOver
<1> QED
  BY <1>3, <1>4

LEMMA QuickKept ==
  ASSUME LockInv, QuickSend \/ \E f : QuickType(f)
  PROVE  LockInv'
<1>1. CASE QuickSend
  <2>1. Send(Request("list", query, 0, Blank))
    BY <1>1 DEF QuickSend, ListRequest
  <2> QED
    BY <1>1, <2>1, SendPlain DEF QuickSend
<1>2. ASSUME NEW f, QuickType(f)
      PROVE  LockInv'
  <2>1. PICK list : ShowRows(list, dialog, busy, done, req)
    BY <1>2 DEF QuickType
  <2>2. GoesOn(req, {})
    BY DEF GoesOn
  <2> QED
    BY <1>2, <2>1, <2>2, RowsReplaced DEF QuickType
<1> QED
  BY <1>1, <1>2

-----------------------------------------------------------------------------
(* The route, the server *)

\* A page that is opened has no flags; what is left over from the last holds none.
LEMMA VisitKept ==
  ASSUME LockInv, NEW f, Visit(f)
  PROVE  LockInv'
<1> DEFINE left == [s \in Slot |-> Unmount(req[s])]
<1>1. ASSUME NEW s \in Slot
      PROVE  Unmount(req[s]) # Idle =>
               Formed(Unmount(req[s])) /\ Unmount(req[s]).here = FALSE
  <2>1. SUFFICES ASSUME Unmount(req[s]) # Idle
                 PROVE  Formed(Unmount(req[s])) /\ Unmount(req[s]).here = FALSE
    OBVIOUS
  <2>2. req[s] # Idle
    BY <2>1 DEF Unmount
  <2>3. Formed(req[s])
    BY <2>2 DEF LockInv, Shaped
  <2>4. Unmount(req[s]) = [req[s] EXCEPT !.query = FirstQuery(Blank),
                             !.here = FALSE, !.live = FALSE, !.asked = FALSE]
    BY <2>1 DEF Unmount
  <2> QED
    BY <2>3, <2>4 DEF Formed
<1>2. req' = [s \in Slot |-> req'[s]]
  BY DEF Visit
<1>3. ASSUME NEW s \in Slot
      PROVE  \/ req'[s] = Unmount(req[s])
             \/ req'[s] = ListRequest("list", FirstQuery(f))
  BY DEF Visit
<1>4. ASSUME NEW s \in Slot, NEW i
      PROVE  (req'[s] # Idle => Formed(req'[s])) /\ ~ Locks(s, i)'
  <2>1. CASE req'[s] = Unmount(req[s])
    BY <1>1, <2>1 DEF Locks
  <2>2. CASE req'[s] = ListRequest("list", FirstQuery(f))
    BY <2>2 DEF Locks, Formed, ListRequest, Request
  <2> QED
    BY <1>3, <2>1, <2>2
<1>5. busy' = {} /\ DialogShaped'
  BY DEF Visit, DialogShaped, Closed
<1> QED
  BY <1>2, <1>4, <1>5
     DEF LockInv, Shaped, LockersLock, LockedRowsAreAwaited

LEMMA CarryKept ==
  ASSUME LockInv, NEW s \in Slot, NEW kind, NEW ok, NEW new_table, NEW val,
         Carry(s, kind, ok, new_table, val)
  PROVE  LockInv'
<1>1. PICK a : req' = [req EXCEPT ![s].answer = a]
  BY DEF Carry
<1> QED
  BY <1>1, AnswerOnly DEF Carry, page_vars

LEMMA ServeKept ==
  ASSUME LockInv, NEW s \in Slot, Serve(s)
  PROVE  LockInv'
<1>1. CASE AnswerList(s)
  <2>1. PICK a : req' = [req EXCEPT ![s].answer = a]
    BY <1>1 DEF AnswerList
  <2> QED
    BY <1>1, <2>1, AnswerOnly DEF AnswerList, page_vars
<1>2. CASE ServeLibrarian(s)
  BY <1>2, CarryKept
     DEF ServeLibrarian, ServeCreate, ServeSave, ServeRemove, ServeReturn,
         ServeMark
<1>3. CASE ServeBorrow(s)
  BY <1>3, CarryKept DEF ServeBorrow
<1> QED
  BY <1>1, <1>2, <1>3 DEF Serve

LEMMA LoseKept ==
  ASSUME LockInv, NEW s \in Slot, Lose(s)
  PROVE  LockInv'
BY AnswerOnly DEF Lose, page_vars

LEMMA OthersKept ==
  ASSUME LockInv, Others
  PROVE  LockInv'
<1>1. view' = view /\ busy' = busy /\ req' = req /\ dialog' = dialog
  BY DEF Others, page_vars
<1> QED
  BY <1>1, Untouched DEF LockInv, DialogShaped

\* Every answer that arrives, page by page.
LEMMA DeliverKept ==
  ASSUME LockInv, NEW s \in Slot, Deliver(s)
  PROVE  LockInv'
<1>1. view' = view
  BY DEF Deliver, BooksAnswer, MembersAnswer, LoansAnswer, DeskAnswer, ShelfAnswer,
         BooksLoad, MembersLoad, LoansLoad, DeskLoad, OwnLoad, ShelfLoad, QuickLoad,
         ListArrives, BookCreated, MemberCreated, Created, BookSaved, MemberSaved,
         Saved, BookRemoved, MemberRemoved, Removed, ReturnArrives, ReloadArrives,
         MarkArrives, BorrowArrives
<1>2. CASE \/ BooksLoad(s) \/ MembersLoad(s) \/ LoansLoad(s) \/ DeskLoad(s)
           \/ OwnLoad(s) \/ ShelfLoad(s) \/ QuickLoad(s)
  BY <1>1, <1>2, ListKept
     DEF BooksLoad, MembersLoad, LoansLoad, DeskLoad, OwnLoad, ShelfLoad, QuickLoad
<1>3. CASE BookCreated(s) \/ MemberCreated(s)
  BY <1>3, CreatedKept DEF BookCreated, MemberCreated
<1>4. CASE BookSaved(s) \/ MemberSaved(s)
  <2>1. EditClosed(s) \in {dialog, Closed}
    BY DEF EditClosed
  <2>2. (IF req[s].answer.ok THEN EditClosed(s) ELSE dialog) \in {dialog, Closed}
    BY <2>1
  <2> QED
    BY <1>4, <2>1, <2>2, SavedKept DEF BookSaved, MemberSaved
<1>5. CASE BookRemoved(s) \/ MemberRemoved(s)
  BY <1>5, RemovedKept
<1>6. CASE ReturnArrives(s) \/ ReloadArrives(s)
  BY <1>6, ReturnKept, ReloadKept
<1>7. CASE MarkArrives(s)
  BY <1>7, MarkKept
<1>8. CASE BorrowArrives(s)
  BY <1>8, BorrowKept
<1> QED
  BY <1>2, <1>3, <1>4, <1>5, <1>6, <1>7, <1>8
     DEF Deliver, BooksAnswer, MembersAnswer, LoansAnswer, DeskAnswer, ShelfAnswer

LEMMA LockInvStep ==
  LockInv /\ [Next]_vars => LockInv'
<1> SUFFICES ASSUME LockInv, [Next]_vars
             PROVE  LockInv'
  OBVIOUS
<1>1. CASE BooksNext \/ MembersNext
  <2>1. ASSUME NEW f, BooksSearch(f) \/ MembersSearch(f)
        PROVE  LockInv'
    BY <2>1, FilterKept DEF BooksSearch, MembersSearch
  <2>2. CASE BooksTurn \/ MembersTurn
    BY <2>2, TurnKept DEF BooksTurn, MembersTurn
  <2>3. CASE NewBook \/ NewMember
    <3>1. Open([kind |-> "create"])
      BY <2>3 DEF NewBook, NewMember
    <3> QED
      BY <3>1, OpenKept
  <2>4. ASSUME NEW val, \/ CreateBook(val) \/ SaveBook(val)
                        \/ CreateMember(val) \/ SaveMember(val)
        PROVE  LockInv'
    BY <2>4, CreateKept, SaveKept DEF CreateBook, SaveBook, CreateMember, SaveMember
  <2>5. ASSUME NEW i \in Id, \/ EditBook(i) \/ RemoveBook(i)
                             \/ EditMember(i) \/ RemoveMember(i)
        PROVE  LockInv'
    BY <2>5, EditKept, RemoveKept DEF EditBook, EditMember
  <2> QED
    BY <1>1, <2>1, <2>2, <2>3, <2>4, <2>5 DEF BooksNext, MembersNext
<1>2. CASE LoansNext
  BY <1>2, LoansKept
<1>3. CASE DeskNext
  BY <1>3, MarkKept DEF DeskNext
<1>4. CASE OwnNext
  BY <1>4, FilterKept, SortKept, TurnKept
     DEF OwnNext, OwnFilter, OwnSort, OwnTurn
<1>5. CASE ShelfNext
  <2>1. ASSUME NEW i \in Id, OpenBorrow(i)
        PROVE  LockInv'
    BY <2>1, OpenKept DEF OpenBorrow
  <2> QED
    BY <1>5, <2>1, FilterKept, TurnKept, ConfirmBorrowKept
       DEF ShelfNext, ShelfSearch, ShelfTurn
<1>6. CASE QuickSend \/ \E f \in Filters : QuickType(f)
  BY <1>6, QuickKept
<1>7. CASE Close
  BY <1>7, CloseKept
<1>8. CASE \E f \in Chosen \cup {Blank} : Visit(f)
  BY <1>8, VisitKept
<1>9. CASE Others
  BY <1>9, OthersKept
<1>10. CASE \E s \in Slot : Serve(s) \/ Deliver(s) \/ Lose(s)
  BY <1>10, ServeKept, DeliverKept, LoseKept
<1>11. CASE UNCHANGED vars
  <2>1. view' = view /\ busy' = busy /\ req' = req /\ dialog' = dialog
    BY <1>11 DEF vars, page_vars
  <2> QED
    BY <2>1, Untouched DEF LockInv, DialogShaped
<1> QED
  BY <1>1, <1>2, <1>3, <1>4, <1>5, <1>6, <1>7, <1>8, <1>9, <1>10, <1>11 DEF Next

LEMMA LockInvInit ==
  Init => LockInv
<1> SUFFICES ASSUME Init
             PROVE  LockInv
  OBVIOUS
<1>1. ASSUME NEW s \in Slot
      PROVE  /\ req[s] # Idle => Formed(req[s])
             /\ \A i : ~ Locks(s, i)
  <2>1. req[s] = ListRequest("list", query) \/ req[s] = Idle
    BY DEF Init
  <2> QED
    BY <2>1 DEF Formed, ListRequest, Request, Locks
<1>2. /\ req = [s \in Slot |-> req[s]]
      /\ busy = {} /\ dialog = Closed
  BY DEF Init
<1> QED
  BY <1>1, <1>2 DEF LockInv, Shaped, DialogShaped, Closed, LockersLock,
                    LockedRowsAreAwaited

LEMMA LockInvHolds == Spec => []LockInv
BY LockInvInit, LockInvStep, PTL DEF Spec

\* The flags of the rows are in step with their requests (setLoading in BookRow,
\* MemberRow and BorrowButton): a row that is disabled waits for exactly one
\* request of its own, whose answer will find it there and enable it again.
THEOREM FlagsFollowRequests == Spec => []LockedRowsAreAwaited
BY LockInvHolds, PTL DEF LockInv

-----------------------------------------------------------------------------
(* The dialogue of a BorrowButton and the request it sent *)

\* The request in slot t is one that its dialogue still waits for, or the one that
\* was there before.
Continues(t) ==
  \/ req'[t] = Idle
  \/ req'[t].kind # "borrow"
  \/ req'[t].asked
  \/ /\ req[t] # Idle
     /\ req'[t].kind = req[t].kind /\ req'[t].id = req[t].id
     /\ req'[t].here => req[t].here
     /\ req'[t].live => req[t].live
     /\ req'[t].asked = req[t].asked

\* The dialogue is not that of another BorrowButton.
SameButton ==
  dialog'.kind = "borrow" => dialog.kind = "borrow" /\ dialog'.id = dialog.id

LEMMA DialogContinues ==
  ASSUME AnswerMeetsItsDialog, SameButton, \A t \in Slot : Continues(t)
  PROVE  AnswerMeetsItsDialog'
<1> SUFFICES ASSUME NEW t \in Slot, req'[t] # Idle,
                    req'[t].kind = "borrow", req'[t].here, req'[t].live,
                    dialog'.kind = "borrow", dialog'.id = req'[t].id
             PROVE  req'[t].asked
  BY DEF AnswerMeetsItsDialog
<1> QED
  BY DEF AnswerMeetsItsDialog, SameButton, Continues

LEMMA SendContinues ==
  ASSUME LockInv, NEW kind, NEW q, NEW id, NEW val,
         Send(Request(kind, q, id, val))
  PROVE  \A t \in Slot : Continues(t)
<1>1. PICK s \in Slot : req' = [req EXCEPT ![s] = Request(kind, q, id, val)]
  BY DEF Send
<1>2. Request(kind, q, id, val).asked
  BY DEF Request
<1>3. req'[s].asked
  BY <1>1, <1>2 DEF LockInv, Shaped
<1>4. \A t \in Slot \ {s} : req'[t] = req[t]
  BY <1>1 DEF LockInv, Shaped
<1> QED
  BY <1>3, <1>4 DEF Continues

LEMMA SameContinues ==
  ASSUME req' = req
  PROVE  \A t \in Slot : Continues(t)
BY DEF Continues

\* The slot of an answered request is given up, or taken by another request.
LEMMA ExchangeContinues ==
  ASSUME LockInv, NEW s \in Slot, NEW r, req' = [req EXCEPT ![s] = r],
         r = Idle \/ r.kind # "borrow"
  PROVE  \A t \in Slot : Continues(t)
<1>1. req'[s] = r /\ \A t \in Slot \ {s} : req'[t] = req[t]
  BY DEF LockInv, Shaped
<1> QED
  BY <1>1 DEF Continues

LEMMA AnswerContinues ==
  ASSUME LockInv, NEW s \in Slot, NEW a, req[s] # Idle,
         req' = [req EXCEPT ![s].answer = a]
  PROVE  \A t \in Slot : Continues(t)
<1>1. Formed(req[s])
  BY DEF LockInv, Shaped
<1>2. req'[s] = [req[s] EXCEPT !.answer = a]
  BY DEF LockInv, Shaped
<1>3. \A t \in Slot \ {s} : req'[t] = req[t]
  BY DEF LockInv, Shaped
<1>4. /\ req'[s].kind = req[s].kind /\ req'[s].id = req[s].id
      /\ req'[s].here = req[s].here /\ req'[s].live = req[s].live
      /\ req'[s].asked = req[s].asked
  BY <1>1, <1>2 DEF Formed
<1> QED
  BY <1>3, <1>4 DEF Continues

LEMMA ReplacedContinue ==
  ASSUME LockInv, NEW ended, NEW r, GoesOn(r, ended),
         NEW list, NEW dlg, NEW flags, NEW borrowed,
         ShowRows(list, dlg, flags, borrowed, r),
         dlg \in {dialog, Closed}
  PROVE  SameButton /\ \A t \in Slot : Continues(t)
<1> DEFINE stay == Components(list)
<1>1. /\ dialog' \in {dialog, Closed}
      /\ req' = [t \in Slot |->
                   IF r[t] # Idle /\ r[t].id \notin stay \cup {0}
                   THEN [r[t] EXCEPT !.live = FALSE] ELSE r[t]]
  BY DEF ShowRows
<1> HIDE DEF stay
<1>2. SameButton
  BY <1>1 DEF SameButton, Closed
<1>3. \A t \in Slot : r[t] = IF t \in ended THEN Idle ELSE req[t]
  BY DEF GoesOn
<1>4. \A t \in Slot \cap ended : Continues(t)
  BY <1>1, <1>3 DEF Continues
<1>5. ASSUME NEW t \in Slot \ ended
      PROVE  Continues(t)
  <2>1. req'[t] = IF req[t] # Idle /\ req[t].id \notin stay \cup {0}
                  THEN [req[t] EXCEPT !.live = FALSE] ELSE req[t]
    BY <1>1, <1>3
  <2>2. CASE req[t] # Idle /\ req[t].id \notin stay \cup {0}
    <3>1. Formed(req[t])
      BY <2>2 DEF LockInv, Shaped
    <3>2. req'[t] = [req[t] EXCEPT !.live = FALSE]
      BY <2>1, <2>2
    <3>3. /\ req'[t].kind = req[t].kind /\ req'[t].id = req[t].id
          /\ req'[t].here = req[t].here /\ ~ req'[t].live
          /\ req'[t].asked = req[t].asked
      BY <3>1, <3>2 DEF Formed
    <3> QED
      BY <2>2, <3>3 DEF Continues
  <2>3. CASE ~ (req[t] # Idle /\ req[t].id \notin stay \cup {0})
    BY <2>1, <2>3 DEF Continues
  <2> QED
    BY <2>2, <2>3
<1> QED
  BY <1>2, <1>4, <1>5

LEMMA RowsContinue ==
  ASSUME LockInv, NEW s \in Slot, NEW list, NEW dlg, NEW flags, NEW borrowed,
         ShowRows(list, dlg, flags, borrowed, Over(s)),
         dlg \in {dialog, Closed}
  PROVE  SameButton /\ \A t \in Slot : Continues(t)
BY OverGoesOn, ReplacedContinue

LEMMA ServeContinues ==
  ASSUME LockInv, NEW s \in Slot, Serve(s) \/ Lose(s)
  PROVE  SameButton /\ \A t \in Slot : Continues(t)
<1>1. CASE AnswerList(s) \/ Lose(s)
  <2>1. PICK a : req[s] # Idle /\ req' = [req EXCEPT ![s].answer = a]
    BY <1>1 DEF AnswerList, Lose
  <2>2. SameButton
    BY <1>1 DEF AnswerList, Lose, page_vars, SameButton
  <2> QED
    BY <2>1, <2>2, AnswerContinues
<1>2. CASE ServeLibrarian(s) \/ ServeBorrow(s)
  <2>1. \E kind, ok, new_table, val : Carry(s, kind, ok, new_table, val)
    BY <1>2 DEF ServeLibrarian, ServeCreate, ServeSave, ServeRemove, ServeReturn,
                ServeMark, ServeBorrow
  <2>2. PICK a : req[s] # Idle /\ req' = [req EXCEPT ![s].answer = a]
    BY <2>1 DEF Carry
  <2>3. SameButton
    BY <2>1 DEF Carry, page_vars, SameButton
  <2> QED
    BY <2>2, <2>3, AnswerContinues
<1> QED
  BY <1>1, <1>2 DEF Serve

LEMMA DeliverContinues ==
  ASSUME LockInv, NEW s \in Slot, Deliver(s)
  PROVE  SameButton /\ \A t \in Slot : Continues(t)
<1>1. ASSUME req' = Over(s), dialog' \in {dialog, Closed}
      PROVE  SameButton /\ \A t \in Slot : Continues(t)
  <2>1. SameButton
    BY <1>1 DEF SameButton, Closed
  <2> QED
    BY <1>1, <2>1, ExchangeContinues DEF Over
<1>2. ASSUME NEW v, NEW on_error, ListArrives(s, v, on_error)
      PROVE  SameButton /\ \A t \in Slot : Continues(t)
  <2>1. \/ \E list : ShowRows(list, dialog, busy, done, Over(s))
        \/ req' = Over(s) /\ dialog' = dialog
    BY <1>2 DEF ListArrives
  <2> QED
    BY <1>1, <2>1, RowsContinue
<1>3. ASSUME NEW v, Created(v, s)
      PROVE  SameButton /\ \A t \in Slot : Continues(t)
  <2>1. \/ \E list : ShowRows(list, IF Creating THEN Closed ELSE dialog,
                              busy, done, Over(s))
        \/ req' = Over(s) /\ dialog' = dialog
    BY <1>3 DEF Created
  <2>2. (IF Creating THEN Closed ELSE dialog) \in {dialog, Closed}
    OBVIOUS
  <2> QED
    BY <1>1, <2>1, <2>2, RowsContinue
<1>4. ASSUME NEW v, NEW dlg, dlg \in {dialog, Closed}, Saved(v, s, dlg)
      PROVE  SameButton /\ \A t \in Slot : Continues(t)
  <2>1. \/ \E list : ShowRows(list, dlg, Released(s), done, Over(s))
        \/ req' = Over(s) /\ dialog' = dialog
    BY <1>4 DEF Saved
  <2> QED
    BY <1>1, <1>4, <2>1, RowsContinue
<1>5. ASSUME NEW v, NEW flags, Removed(v, s, flags)
      PROVE  SameButton /\ \A t \in Slot : Continues(t)
  <2>1. \/ \E list : ShowRows(list, dialog, flags, done, Over(s))
        \/ req' = Over(s) /\ dialog' = dialog
    BY <1>5 DEF Removed
  <2> QED
    BY <1>1, <2>1, RowsContinue
<1>6. CASE ReturnArrives(s)
  <2>1. \/ req' = [req EXCEPT ![s] = NextList(s, "reload", req[s].query)]
        \/ req' = Over(s)
    BY <1>6 DEF ReturnArrives
  <2>2. dialog' \in {dialog, Closed}
    BY <1>6 DEF ReturnArrives, ReturnClosed
  <2>3. SameButton
    BY <2>2 DEF SameButton, Closed
  <2>4. NextList(s, "reload", req[s].query).kind # "borrow"
    BY GoesOnList
  <2> QED
    BY <1>1, <2>1, <2>2, <2>3, <2>4, ExchangeContinues
<1>7. CASE ReloadArrives(s)
  <2>1. \/ ShowRows(req[s].answer.rows, ReturnClosed, busy, done, Over(s))
        \/ req' = Over(s) /\ dialog' = dialog
    BY <1>7 DEF ReloadArrives
  <2>2. ReturnClosed \in {dialog, Closed}
    BY DEF ReturnClosed
  <2> QED
    BY <1>1, <2>1, <2>2, RowsContinue
<1>8. CASE MarkArrives(s)
  <2>1. /\ dialog' = dialog
        /\ \/ req' = Over(s)
           \/ req' = [req EXCEPT ![s] = NextList(s, "list", query)]
    BY <1>8 DEF MarkArrives, page_vars
  <2>2. SameButton
    BY <2>1 DEF SameButton
  <2>3. NextList(s, "list", query).kind # "borrow"
    BY GoesOnList
  <2> QED
    BY <1>1, <2>1, <2>2, <2>3, ExchangeContinues
<1>9. CASE BorrowArrives(s)
  <2>1. req' = Over(s)
    BY <1>9 DEF BorrowArrives
  <2>2. SameButton
    BY <1>9 DEF BorrowArrives, Noted, SameButton, LockInv, DialogShaped
  <2> QED
    BY <2>1, <2>2, ExchangeContinues DEF Over
<1>10. EditClosed(s) \in {dialog, Closed}
  BY DEF EditClosed
<1>11. (IF req[s].answer.ok THEN EditClosed(s) ELSE dialog) \in {dialog, Closed}
  BY <1>10
<1> QED
  BY <1>2, <1>3, <1>4, <1>5, <1>6, <1>7, <1>8, <1>9, <1>10, <1>11
     DEF Deliver, BooksAnswer, MembersAnswer, LoansAnswer, DeskAnswer, ShelfAnswer,
         BooksLoad, MembersLoad, LoansLoad, DeskLoad, OwnLoad, ShelfLoad, QuickLoad,
         BookCreated, MemberCreated, BookSaved, MemberSaved, BookRemoved,
         MemberRemoved

LEMMA AskContinues ==
  ASSUME LockInv, NEW v,
         \/ \E f : Filter(v, f)
         \/ Sort(v)
         \/ Turn(v)
  PROVE  SameButton /\ \A t \in Slot : Continues(t)
<1>1. PICK q : Ask(q)
  BY DEF Filter, Sort, Turn
<1>2. Send(Request("list", q, 0, Blank)) /\ dialog' = dialog
  BY <1>1 DEF Ask, ListRequest
<1> QED
  BY <1>2, SendContinues DEF SameButton

\* What the user does, except for opening and closing the dialogue of a button.
LEMMA UserContinues ==
  ASSUME LockInv,
         \/ BooksNext \/ MembersNext \/ LoansNext \/ DeskNext \/ OwnNext
         \/ ShelfNext /\ ~ \E i \in Id : OpenBorrow(i)
         \/ QuickSend \/ \E f \in Filters : QuickType(f)
  PROVE  SameButton /\ \A t \in Slot : Continues(t)
<1>1. ASSUME NEW d, Open(d), d.kind # "borrow"
      PROVE  SameButton /\ \A t \in Slot : Continues(t)
  <2>1. SameButton /\ req' = req
    BY <1>1 DEF Open, SameButton
  <2> QED
    BY <2>1, SameContinues
<1>2. ASSUME NEW kind, NEW q, NEW id, NEW val,
             Send(Request(kind, q, id, val)), dialog' = dialog
      PROVE  SameButton /\ \A t \in Slot : Continues(t)
  BY <1>2, SendContinues DEF SameButton
<1>3. CASE BooksNext \/ MembersNext
  <2>1. \/ \E v, f : Filter(v, f)
        \/ \E v : Turn(v)
        \/ Open([kind |-> "create"])
        \/ \E v, val : Create(v, val) \/ Save(v, val)
        \/ \E v, i : Edit(v, i)
        \/ \E v, i, flags : Remove(v, i, flags)
    BY <1>3 DEF BooksNext, MembersNext, BooksSearch, MembersSearch, BooksTurn,
                MembersTurn, NewBook, NewMember, CreateBook, CreateMember,
                SaveBook, SaveMember, EditBook, EditMember, RemoveBook,
                RemoveMember
  <2>2. ASSUME NEW v, NEW val, Create(v, val) \/ Save(v, val)
        PROVE  SameButton /\ \A t \in Slot : Continues(t)
    BY <1>2, <2>2 DEF Create, Save, Call, page_vars
  <2>3. ASSUME NEW v, NEW i, NEW flags, Remove(v, i, flags)
        PROVE  SameButton /\ \A t \in Slot : Continues(t)
    BY <1>2, <2>3 DEF Remove, Call
  <2>4. ASSUME NEW v, NEW i, Edit(v, i)
        PROVE  SameButton /\ \A t \in Slot : Continues(t)
    BY <1>1, <2>4 DEF Edit
  <2> QED
    BY <1>1, <2>1, <2>2, <2>3, <2>4, AskContinues
<1>4. CASE LoansNext
  <2>1. ASSUME NEW i, OpenReturn(i)
        PROVE  SameButton /\ \A t \in Slot : Continues(t)
    BY <1>1, <2>1 DEF OpenReturn
  <2>2. CASE ConfirmReturn
    BY <1>2, <2>2 DEF ConfirmReturn, page_vars
  <2> QED
    BY <1>4, <2>1, <2>2, AskContinues
       DEF LoansNext, LoansFilter, LoansSort, LoansTurn
<1>5. CASE DeskNext
  BY <1>2, <1>5 DEF DeskNext, MarkOverdue, Call, page_vars
<1>6. CASE OwnNext
  BY <1>6, AskContinues DEF OwnNext, OwnFilter, OwnSort, OwnTurn
<1>7. CASE ShelfNext /\ ~ \E i \in Id : OpenBorrow(i)
  <2>1. CASE ConfirmBorrow
    BY <1>2, <2>1 DEF ConfirmBorrow, Call
  <2> QED
    BY <1>7, <2>1, AskContinues DEF ShelfNext, ShelfSearch, ShelfTurn
<1>8. CASE QuickSend
  BY <1>2, <1>8 DEF QuickSend, ListRequest
<1>9. CASE \E f \in Filters : QuickType(f)
  <2>1. PICK list : ShowRows(list, dialog, busy, done, req)
    BY <1>9 DEF QuickType
  <2>2. GoesOn(req, {})
    BY DEF GoesOn
  <2> QED
    BY <2>1, <2>2, ReplacedContinue
<1> QED
  BY <1>3, <1>4, <1>5, <1>6, <1>7, <1>8, <1>9

\* A row whose borrow request is in flight is locked, and its button with it.
LEMMA OpenBorrowKeeps ==
  ASSUME LockInv, NEW i \in Id, OpenBorrow(i)
  PROVE  AnswerMeetsItsDialog'
<1>1. i \notin busy /\ dialog'.id = i /\ req' = req
  BY DEF OpenBorrow, Open
<1>2. ASSUME NEW t \in Slot, req[t] # Idle,
             req[t].kind = "borrow", req[t].here, req[t].live, req[t].id = i
      PROVE  FALSE
  BY <1>1, <1>2 DEF LockInv, LockersLock, Locks
<1> QED
  BY <1>1, <1>2 DEF AnswerMeetsItsDialog

LEMMA DialogStep ==
  LockInv /\ AnswerMeetsItsDialog /\ [Next]_vars => AnswerMeetsItsDialog'
<1> SUFFICES ASSUME LockInv, AnswerMeetsItsDialog, [Next]_vars
             PROVE  AnswerMeetsItsDialog'
  OBVIOUS
<1>1. CASE \E i \in Id : OpenBorrow(i)
  BY <1>1, OpenBorrowKeeps
<1>2. CASE \/ BooksNext \/ MembersNext \/ LoansNext \/ DeskNext \/ OwnNext
           \/ ShelfNext /\ ~ \E i \in Id : OpenBorrow(i)
           \/ QuickSend \/ \E f \in Filters : QuickType(f)
  BY <1>2, UserContinues, DialogContinues
<1>3. CASE Close \/ \E f \in Chosen \cup {Blank} : Visit(f)
  <2>1. dialog'.kind # "borrow"
    BY <1>3 DEF Close, Visit, Closed
  <2> QED
    BY <2>1 DEF AnswerMeetsItsDialog
<1>4. CASE Others \/ UNCHANGED vars
  <2>1. dialog' = dialog /\ req' = req
    BY <1>4 DEF Others, vars, page_vars
  <2> QED
    BY <2>1, SameContinues, DialogContinues DEF SameButton
<1>5. CASE \E s \in Slot : Serve(s) \/ Deliver(s) \/ Lose(s)
  BY <1>5, ServeContinues, DeliverContinues, DialogContinues
<1> QED
  BY <1>1, <1>2, <1>3, <1>4, <1>5 DEF Next

\* A dialogue shows the answer to its own request only (BorrowButton is disabled
\* while a request it sent is pending): the answer to a borrow request that finds a
\* dialogue open for its book finds the one that sent it.
THEOREM AnswersAreOwn == Spec => []AnswerMeetsItsDialog
<1>1. Init => AnswerMeetsItsDialog
  BY DEF Init, AnswerMeetsItsDialog, Closed
<1> QED
  BY <1>1, LockInvHolds, DialogStep, PTL DEF Spec
=============================================================================
