------------------------------ MODULE Members -------------------------------
(***************************************************************************)
(* MembersController: a librarian registers and removes members.           *)
(***************************************************************************)
EXTENDS Database

\* POST /members, with a form that the validations accept; one that they refuse
\* (422) has no effect.  E-mails and passwords are data.
CreateMemberRequest(t) ==
  /\ users \cap Librarian # {}
  /\ Begin(t, [pc |-> "insert_member", at |-> day])
  /\ UNCHANGED <<books, users, loans, issued, day, notified>>

\* The INSERT: whatever role is sent, the new user is a member.  The unique index
\* refuses an e-mail stored since it was validated (500).
InsertMember(t) ==
  /\ req[t].pc = "insert_member"
  /\ \/ \E u \in Member \ issued :
          users' = users \cup {u} /\ issued' = issued \cup {u}
     \/ UNCHANGED <<users, issued>>
  /\ Finish(t)
  /\ UNCHANGED <<books, loans, day, notified>>

\* DELETE /members/:id: set_member finds members only; destroy! loads the loans.
DestroyMemberRequest(t, u) ==
  /\ users \cap Librarian # {}
  /\ u \in users \cap Member
  /\ Begin(t, [pc |-> "destroy_member", at |-> day, user |-> u,
               children |-> LoansOfUser(u)])
  /\ UNCHANGED <<books, users, loans, issued, day, notified>>

\* Only the user's row goes: no dependent: :destroy, no foreign key.
DestroyMemberOnly(t) ==
  /\ req[t].pc = "destroy_member"
  /\ users' = users \ {req[t].user}
  /\ Finish(t)
  /\ UNCHANGED <<books, loans, issued, day, notified>>

\* As for a book: the loaded loans and the user, or nothing.
DestroyMember(t) ==
  /\ req[t].pc = "destroy_member"
  /\ IF LoansOfUser(req[t].user) \subseteq req[t].children
     THEN /\ loans' = Delete(loans, req[t].children)
          /\ users' = users \ {req[t].user}
     ELSE UNCHANGED <<loans, users>>
  /\ Finish(t)
  /\ UNCHANGED <<books, issued, day, notified>>

MembersNext ==
  \E t \in Thread :
    \/ CreateMemberRequest(t)
    \/ InsertMember(t)
    \/ \E u \in Member : DestroyMemberRequest(t, u)
    \/ DestroyMember(t)
=============================================================================
