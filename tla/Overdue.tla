------------------------------ MODULE Overdue -------------------------------
(***************************************************************************)
(* OverdueService.mark_overdue_books, run by POST /dashboard/mark_overdue  *)
(* and by the rake task overdue:mark_overdue.                              *)
(***************************************************************************)
EXTENDS Database

\* The relation without its status condition.
PastDueAnyStatus(date) == {l \in DOMAIN loans : loans[l].due_date < date}

DueByToday(date) ==
  {l \in DOMAIN loans : loans[l].status = "borrowed" /\ loans[l].due_date <= date}

\* The relation the service builds: the date is bound once, the query runs
\* again every time the relation is used.
PastDue(date) ==
  {l \in DOMAIN loans : loans[l].status = "borrowed" /\ loans[l].due_date < date}

\* `empty?` asks the database; when nothing is past due the answer is count 0
\* and nothing changes.
MarkOverdueRequest(t) ==
  /\ PastDue(day) # {}
  /\ Begin(t, [pc |-> "update_all", at |-> day, count |-> 0])
  /\ UNCHANGED <<books, users, loans, issued, day, notified>>

\* update_all: one UPDATE statement, which evaluates its condition itself.
UpdateAll(t) ==
  /\ req[t].pc = "update_all"
  /\ LET due == PastDue(req[t].at)
     IN  /\ loans' = [l \in DOMAIN loans |->
                        IF l \in due THEN [loans[l] EXCEPT !.status = "overdue"]
                                     ELSE loans[l]]
         /\ IF due = {} THEN Finish(t)
            ELSE Continue(t, [req[t] EXCEPT !.pc = "notify",
                                            !.count = Cardinality(due)])
  /\ UNCHANGED <<books, users, issued, day, notified>>

\* send_overdue_notifications iterates over the relation: the query runs anew.
Notify(t) ==
  /\ req[t].pc = "notify"
  /\ notified' = notified \cup PastDue(req[t].at)
  /\ Finish(t)
  /\ UNCHANGED <<books, users, loans, issued, day>>

OverdueNext ==
  \E t \in Thread : MarkOverdueRequest(t) \/ UpdateAll(t) \/ Notify(t)
=============================================================================
