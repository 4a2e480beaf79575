------------------------------ MODULE TabProofs -----------------------------
(***************************************************************************)
(* Theorems about a browser tab, for any users and any number of functions *)
(* awaiting answers.                                                       *)
(***************************************************************************)
EXTENDS Tab, TLAPS

USE SessionAssumption DEF SessionAssumption

Requests == [Slot -> Request \cup {Idle}]

-----------------------------------------------------------------------------
(* Types *)

\* A request sent with a proper cookie is a proper request.
LEMMA SentTyped ==
  ASSUME cookie' \in Cookie, csrf' \in BOOLEAN,
         NEW kind \in Kind, NEW step \in {"csrf", "call", "current"},
         NEW who \in Anyone, NEW here \in BOOLEAN
  PROVE  Sent(kind, step, who, here) \in Request
BY DEF Sent, Request

\* Functions that go on without their component stay what they are.
LEMMA LeaveTyped ==
  ASSUME NEW r \in Request \cup {Idle}
  PROVE  Leave(r) \in Request \cup {Idle}
<1>1. CASE r = Idle
  BY <1>1 DEF Leave
<1>2. CASE r # Idle
  BY <1>2 DEF Leave, Request
<1> QED
  BY <1>1, <1>2

\* React's commit keeps every type.
LEMMA CommitTyped ==
  ASSUME TypeOK, cookie' \in Cookie, csrf' \in BOOLEAN,
         NEW a \in Auth, NEW p \in Place, NEW acc \in AccountState,
         NEW r \in Requests, Commit(a, p, acc, r)
  PROVE  /\ auth' \in Auth
         /\ place' \in Place
         /\ account' \in AccountState
         /\ req' \in Requests
<1>1. auth' \in Auth /\ place' \in Place
  BY DEF Commit, Redirected, Place
<1>2. CASE account' = acc /\ req' = r
  BY <1>1, <1>2
<1>3. CASE account' = Unmounted /\ req' = [s \in Slot |-> Leave(r[s])]
  <2>1. \A s \in Slot : Leave(r[s]) \in Request \cup {Idle}
    BY LeaveTyped DEF Requests
  <2>2. Unmounted \in AccountState
    BY DEF Unmounted, AccountState
  <2> QED
    BY <1>1, <1>3, <2>1, <2>2 DEF Requests
<1>4. CASE /\ account' = Mounted
           /\ \E s \in Slot :
                req' = [t \in Slot |->
                          IF t = s THEN Sent("account", "call", Nobody, TRUE)
                          ELSE Leave(r[t])]
  <2>1. \A s \in Slot : Leave(r[s]) \in Request \cup {Idle}
    BY LeaveTyped DEF Requests
  <2>2. Sent("account", "call", Nobody, TRUE) \in Request
    BY SentTyped DEF Kind, Anyone
  <2>3. Mounted \in AccountState
    BY DEF Mounted, Unmounted, AccountState
  <2> QED
    BY <1>1, <1>4, <2>1, <2>2, <2>3 DEF Requests
<1> QED
  BY <1>2, <1>3, <1>4 DEF Commit

\* What the server answers is an answer.
LEMMA AnswersTyped ==
  ASSUME TypeOK, NEW r \in Request, NEW a \in Answers(r)
  PROVE  /\ a \in Answer
         /\ ChangesPassword(r, a) => r.jar.user \in User
<1>1. r.jar \in Cookie /\ r.who \in Anyone
  BY DEF Request
<1>2. Clean(r.jar) \in Cookie /\ Authenticated(r.jar) \in Anyone
  BY <1>1 DEF Clean, Authenticated, NoSession, Cookie, Anyone
<1>3. Error \in Answer /\ ~ Error.ok
  BY DEF Error, Answer, Anyone
<1>4. ShowAccount(r) \in Answer /\ (ShowAccount(r).ok => r.jar.user \in User)
  BY <1>1, <1>2 DEF ShowAccount, Ok, Refused, Answer, Authenticated, Anyone, Cookie
<1>5. CreateSession(r) \in Answer
  <2>1. CASE r.who = Nobody
    BY <1>1, <2>1 DEF CreateSession, Refused, Answer, Anyone
  <2>2. CASE r.who # Nobody
    <3>1. r.who \in User /\ salt[r.who] \in 0..MaxSalt
      BY <1>1, <2>2 DEF TypeOK, Anyone
    <3>2. [user |-> r.who, salt |-> salt[r.who]] \in Cookie
      BY <3>1 DEF Cookie, Anyone
    <3> QED
      BY <1>1, <2>2, <3>2 DEF CreateSession, Ok, Answer
  <2> QED
    BY <2>1, <2>2
<1>6. DestroySession(r) \in Answer
  <2>1. NoSession \in Cookie
    BY DEF NoSession, Cookie, Anyone
  <2> QED
    BY <1>2, <2>1 DEF DestroySession, Ok, Refused, Answer, Anyone
<1>7. CurrentSession(r) \in Answer /\ Ok(Nobody, r.jar) \in Answer
  BY <1>1, <1>2 DEF CurrentSession, Ok, Answer, Anyone
<1>8. Refused(Clean(r.jar)) \in Answer /\ ~ Refused(Clean(r.jar)).ok
  BY <1>2 DEF Refused, Answer, Anyone
<1>9. a \in {Error, Ok(Nobody, r.jar), CurrentSession(r), CreateSession(r),
             DestroySession(r), ShowAccount(r), Refused(Clean(r.jar))}
  BY DEF Answers, Called, UpdateAccount
<1>10. a \in Answer
  BY <1>3, <1>4, <1>5, <1>6, <1>7, <1>8, <1>9
<1>11. ASSUME r.kind \in {"password", "aborted"}, r.step = "call"
       PROVE  a \in {Error, ShowAccount(r), Refused(Clean(r.jar))}
  BY <1>11 DEF Answers, Called, UpdateAccount
<1> QED
  BY <1>3, <1>4, <1>8, <1>10, <1>11 DEF ChangesPassword

\* Only requests are served and answered.
LEMMA Answerable ==
  ASSUME TypeOK, NEW s \in Slot, req[s] # Idle
  PROVE  req[s] \in Request
BY DEF TypeOK

\* The browser takes a proper cookie from a proper answer.
LEMMA CookieTyped ==
  ASSUME TypeOK, NEW s \in Slot, req[s] # Idle, req[s].answer # Pending,
         TakeCookie(s)
  PROVE  cookie' \in Cookie /\ req[s].answer \in Answer
<1>1. req[s].answer \in Answer
  BY Answerable DEF Request
<1> QED
  BY <1>1 DEF TakeCookie, Answer, TypeOK

\* Ending a function, and going on with the next request of it.
LEMMA OverTyped ==
  ASSUME TypeOK, NEW s \in Slot
  PROVE  Over(s) \in Requests
BY DEF TypeOK, Over, Requests

LEMMA GoOnTyped ==
  ASSUME TypeOK, NEW s \in Slot, req[s] # Idle, cookie' \in Cookie,
         csrf' \in BOOLEAN, NEW step \in {"call", "current"}
  PROVE  GoOn(s, step) \in Requests
<1>1. req[s].kind \in Kind /\ req[s].who \in Anyone /\ req[s].here \in BOOLEAN
  BY Answerable DEF Request
<1>2. Sent(req[s].kind, step, req[s].who, req[s].here) \in Request
  BY <1>1, SentTyped
<1> QED
  BY <1>2 DEF GoOn, TypeOK, Requests

\* A step made of a commit and unchanged or typed cookie, token and salts.
LEMMA CommitStep ==
  ASSUME TypeOK, cookie' \in Cookie, csrf' \in BOOLEAN, salt' = salt,
         NEW a \in Auth, NEW p \in Place, NEW acc \in AccountState,
         NEW r \in Requests, Commit(a, p, acc, r), Record
  PROVE  TypeOK'
<1>1. /\ auth' \in Auth
      /\ place' \in Place
      /\ account' \in AccountState
      /\ req' \in Requests
  BY CommitTyped
<1>2. {crossed', lost'} \subseteq BOOLEAN
  BY DEF Record, TypeOK
<1> QED
  BY <1>1, <1>2 DEF TypeOK, Requests

\* Starting a function in a free slot.
LEMMA Started ==
  ASSUME TypeOK, UNCHANGED <<salt, cookie, csrf>>, Record,
         NEW a \in Auth, NEW acc \in AccountState, NEW s \in Slot,
         NEW kind \in Kind, NEW who \in Anyone,
         Commit(a, place, acc, [req EXCEPT ![s] = Sent(kind, "csrf", who, TRUE)])
  PROVE  TypeOK'
<1>1. cookie' \in Cookie /\ csrf' \in BOOLEAN /\ place \in Place
  BY DEF TypeOK
<1>2. Sent(kind, "csrf", who, TRUE) \in Request
  BY <1>1, SentTyped
<1>3. [req EXCEPT ![s] = Sent(kind, "csrf", who, TRUE)] \in Requests
  BY <1>2 DEF TypeOK, Requests
<1> QED
  BY <1>1, <1>3, CommitStep

LEMMA UserStepTyped ==
  ASSUME TypeOK,
         \/ \E who \in Anyone : SignIn(who)
         \/ SignOut
         \/ SaveProfile
         \/ ChangePassword
         \/ \E p \in Place : Navigate(p)
  PROVE  TypeOK'
<1>0. Loading \in Auth /\ auth \in Auth /\ account \in AccountState
  BY DEF TypeOK, Loading, Auth
<1>1. ASSUME NEW who \in Anyone, SignIn(who) PROVE TypeOK'
  BY <1>0, <1>1, Started DEF SignIn, Kind
<1>2. CASE SignOut
  BY <1>0, <1>2, Started DEF SignOut, Kind, Anyone
<1>3. CASE SaveProfile
  <2>1. [account EXCEPT !.saving = TRUE, !.message = ""] \in AccountState
    BY <1>0 DEF AccountState
  <2> QED
    BY <1>0, <1>3, <2>1, Started DEF SaveProfile, Kind, Anyone
<1>4. CASE ChangePassword
  <2>1. [account EXCEPT !.changing = TRUE, !.message = ""] \in AccountState
    BY <1>0 DEF AccountState
  <2> QED
    BY <1>0, <1>4, <2>1, Started DEF ChangePassword, Kind, Anyone
<1>5. ASSUME NEW p \in Place, Navigate(p) PROVE TypeOK'
  <2>1. req \in Requests /\ cookie' \in Cookie /\ csrf' \in BOOLEAN
    BY <1>5 DEF TypeOK, Requests, Navigate
  <2> QED
    BY <1>0, <1>5, <2>1, CommitStep DEF Navigate
<1> QED
  BY <1>1, <1>2, <1>3, <1>4, <1>5

LEMMA ReloadTyped ==
  ASSUME TypeOK, NEW p \in Place, Reload(p)
  PROVE  TypeOK'
<1> DEFINE left == [s \in Slot |-> Abort(req[s])]
<1>1. left \in Requests
  <2>1. ASSUME NEW s \in Slot PROVE Abort(req[s]) \in Request \cup {Idle}
    <3>1. CASE req[s] = Idle
      BY <3>1 DEF Abort
    <3>2. CASE req[s] # Idle
      <4>1. req[s] \in Request
        BY <3>2, Answerable
      <4> QED
        BY <4>1 DEF Abort, Request, Kind
    <3> QED
      BY <3>1, <3>2
  <2> QED
    BY <2>1 DEF Requests
<1>2. cookie' \in Cookie /\ csrf' = FALSE /\ salt' = salt
  BY DEF Reload, TypeOK
<1>3. Sent("init", "csrf", Nobody, FALSE) \in Request
  BY <1>2, SentTyped DEF Kind, Anyone
<1>4. PICK s \in Slot : req' = StartOver(left, s)
  BY DEF Reload
<1>5. req' \in Requests
  BY <1>1, <1>3, <1>4 DEF StartOver, Requests
<1>6. auth' \in Auth /\ place' \in Place /\ account' \in AccountState
  BY DEF Reload, Auth, Anyone, Unmounted, AccountState
<1>7. {crossed', lost'} \subseteq BOOLEAN
  BY DEF Reload, Overlap
<1> QED
  BY <1>2, <1>5, <1>6, <1>7 DEF TypeOK, Requests

LEMMA ServeTyped ==
  ASSUME TypeOK, NEW s \in Slot, Serve(s)
  PROVE  TypeOK'
<1>1. req[s] \in Request
  BY Answerable DEF Serve
<1>2. PICK a \in Answers(req[s]) :
        /\ req' = [req EXCEPT ![s].answer = a]
        /\ IF ChangesPassword(req[s], a)
           THEN LET u == req[s].jar.user
                IN  /\ salt[u] < MaxSalt
                    /\ salt' = [salt EXCEPT ![u] = @ + 1]
                    /\ crossed' = TRUE
           ELSE UNCHANGED <<salt, crossed>>
  BY DEF Serve
<1>3. a \in Answer /\ (ChangesPassword(req[s], a) => req[s].jar.user \in User)
  BY <1>1, AnswersTyped
<1>4. req' \in Requests
  <2>1. [req[s] EXCEPT !.answer = a] \in Request
    BY <1>1, <1>3 DEF Request
  <2>2. req' = [req EXCEPT ![s] = [req[s] EXCEPT !.answer = a]]
    BY <1>2
  <2> QED
    BY <2>1, <2>2 DEF TypeOK, Requests
<1>5. salt' \in [User -> 0..MaxSalt] /\ crossed' \in BOOLEAN
  <2>1. CASE ChangesPassword(req[s], a)
    <3>1. req[s].jar.user \in User /\ salt[req[s].jar.user] + 1 \in 0..MaxSalt
      BY <1>2, <1>3, <2>1 DEF TypeOK
    <3> QED
      BY <1>2, <2>1, <3>1 DEF TypeOK
  <2>2. CASE ~ ChangesPassword(req[s], a)
    BY <1>2, <2>2 DEF TypeOK
  <2> QED
    BY <2>1, <2>2
<1> QED
  BY <1>4, <1>5 DEF Serve, TypeOK, Requests

LEMMA LoseTyped ==
  ASSUME TypeOK, NEW s \in Slot, Lose(s)
  PROVE  TypeOK'
<1>1. Error \in Answer
  BY DEF Error, Answer, Anyone
<1>2. [req[s] EXCEPT !.answer = Error] \in Request
  BY <1>1, Answerable DEF Lose, Request
<1>3. req' \in Requests
  BY <1>2 DEF Lose, TypeOK, Requests
<1>4. lost' \in BOOLEAN
  BY DEF Lose
<1> QED
  BY <1>3, <1>4 DEF Lose, TypeOK, Requests

LEMMA DeliverTyped ==
  ASSUME TypeOK, NEW s \in Slot, Deliver(s)
  PROVE  TypeOK'
<1>0. /\ auth \in Auth /\ place \in Place /\ account \in AccountState
      /\ csrf \in BOOLEAN /\ Loaded(Nobody) \in Auth /\ Failed \in Auth
      /\ Loading \in Auth
  BY DEF TypeOK, Loaded, Failed, Loading, Auth, Anyone
<1>1. Over(s) \in Requests
  BY OverTyped
<1>2. ASSUME req[s].answer \in Answer
      PROVE  Loaded(req[s].answer.user) \in Auth /\ req[s].answer.ok \in BOOLEAN
  BY <1>2 DEF Loaded, Auth, Answer
<1>3. ASSUME NEW kind \in Kind, TokenArrives(s, kind) PROVE TypeOK'
  <2>1. cookie' \in Cookie /\ req[s].answer \in Answer
    BY <1>3, CookieTyped DEF TokenArrives, Answered
  <2>2. csrf' \in BOOLEAN
    BY <1>3 DEF TokenArrives
  <2>3. GoOn(s, IF kind = "init" THEN "current" ELSE "call") \in Requests
    BY <1>3, <2>1, <2>2, GoOnTyped DEF TokenArrives, Answered
  <2> QED
    BY <1>0, <1>3, <2>1, <2>2, <2>3, CommitStep DEF TokenArrives
<1>4. CASE InitArrives(s)
  <2>1. cookie' \in Cookie /\ req[s].answer \in Answer
    BY <1>4, CookieTyped DEF InitArrives, Answered
  <2> QED
    BY <1>0, <1>1, <1>2, <1>4, <2>1, CommitStep DEF InitArrives
<1>5. CASE LoginArrives(s)
  <2>1. cookie' \in Cookie /\ req[s].answer \in Answer
    BY <1>5, CookieTyped DEF LoginArrives, Answered
  <2>2. "home" \in Place
    BY DEF Place
  <2> QED
    BY <1>0, <1>1, <1>2, <1>5, <2>1, <2>2, CommitStep DEF LoginArrives
<1>6. CASE LogoutArrives(s)
  <2>1. cookie' \in Cookie /\ req[s].answer \in Answer
    BY <1>6, CookieTyped DEF LogoutArrives, Answered
  <2> QED
    BY <1>0, <1>1, <1>6, <2>1, CommitStep DEF LogoutArrives
<1>7. CASE SaveArrives(s)
  <2>1. cookie' \in Cookie /\ req[s].answer \in Answer /\ csrf' \in BOOLEAN
    BY <1>0, <1>7, CookieTyped DEF SaveArrives, Answered
  <2>2. GoOn(s, "current") \in Requests
    BY <1>7, <2>1, GoOnTyped DEF SaveArrives, Answered
  <2>3. [account EXCEPT !.saving = FALSE, !.message = "error"] \in AccountState
    BY <1>0 DEF AccountState
  <2> QED
    BY <1>0, <1>1, <1>7, <2>1, <2>2, <2>3, CommitStep DEF SaveArrives
<1>8. CASE RefreshArrives(s)
  <2>1. cookie' \in Cookie /\ req[s].answer \in Answer
    BY <1>8, CookieTyped DEF RefreshArrives, Answered
  <2>2. [account EXCEPT !.saving = FALSE, !.message = "Profile updated"]
          \in AccountState
    BY <1>0 DEF AccountState
  <2> QED
    BY <1>0, <1>1, <1>2, <1>8, <2>1, <2>2, CommitStep DEF RefreshArrives
<1>9. CASE PasswordArrives(s)
  <2>1. cookie' \in Cookie /\ req[s].answer \in Answer
    BY <1>9, CookieTyped DEF PasswordArrives, Answered
  <2>2. [account EXCEPT !.changing = FALSE, !.message =
           IF req[s].answer.ok THEN "Password changed" ELSE "error"]
          \in AccountState
    BY <1>0 DEF AccountState
  <2> QED
    BY <1>0, <1>1, <1>9, <2>1, <2>2, CommitStep DEF PasswordArrives
<1>10. CASE AccountArrives(s)
  <2>1. cookie' \in Cookie /\ req[s].answer \in Answer
    BY <1>10, CookieTyped DEF AccountArrives, Answered
  <2>2. [account EXCEPT !.loading = FALSE] \in AccountState
    BY <1>0 DEF AccountState
  <2> QED
    BY <1>0, <1>1, <1>10, <2>1, <2>2, CommitStep DEF AccountArrives
<1>11. CASE AbortedArrives(s)
  BY <1>1, <1>11 DEF AbortedArrives, TypeOK, Requests
<1> QED
  BY <1>3, <1>4, <1>5, <1>6, <1>7, <1>8, <1>9, <1>10, <1>11 DEF Deliver

LEMMA InitTyped == Init => TypeOK
<1> SUFFICES ASSUME Init PROVE TypeOK
  OBVIOUS
<1>1. cookie \in Cookie
  BY DEF Init, Cookie
<1>2. [kind |-> "init", step |-> "csrf", who |-> Nobody, here |-> FALSE,
       jar |-> cookie, token |-> FALSE, answer |-> Pending] \in Request
  BY <1>1 DEF Request, Kind, Anyone
<1>3. req \in Requests
  BY <1>2 DEF Init, Requests
<1>4. salt \in [User -> 0..MaxSalt] /\ auth \in Auth
  BY DEF Init, Auth, Anyone
<1>5. account \in AccountState
  BY DEF Init, AccountState, Unmounted
<1> QED
  BY <1>1, <1>3, <1>4, <1>5 DEF Init, TypeOK, Requests

\* The tab and its server keep their types, whatever is typed, reloaded, lost or
\* answered out of order.
THEOREM TypeCorrect == Spec => []TypeOK
<1>1. TypeOK /\ [Next]_vars => TypeOK'
  <2> SUFFICES ASSUME TypeOK, [Next]_vars PROVE TypeOK'
    OBVIOUS
  <2>1. CASE UNCHANGED vars
    BY <2>1 DEF vars, TypeOK
  <2>2. CASE Next
    BY <2>2, UserStepTyped, ReloadTyped, ServeTyped, DeliverTyped, LoseTyped
      DEF Next
  <2> QED
    BY <2>1, <2>2
<1> QED
  BY <1>1, InitTyped, PTL DEF Spec

-----------------------------------------------------------------------------
(* Spinners *)

PageSpins(acc, r) ==
  /\ acc.loading => PageAwaits(r, "account")
  /\ acc.saving => PageAwaits(r, "save")
  /\ acc.changing => PageAwaits(r, "password")

\* A request is not idle, and leaving its component changes neither its kind nor
\* its step.
LEMMA LeaveKeeps ==
  ASSUME NEW r \in Request
  PROVE  /\ r # Idle
         /\ Leave(r) # Idle
         /\ Leave(r).kind = r.kind
         /\ Leave(r).step = r.step
<1>1. r.kind # "idle" /\ r # Idle
  BY DEF Request, Kind, Idle
<1>2. Leave(r).kind = r.kind /\ Leave(r).step = r.step
  BY <1>1 DEF Leave, Request
<1> QED
  BY <1>1, <1>2 DEF Idle

LEMMA AppAwaitsLeft ==
  ASSUME NEW r \in Requests, AppAwaits(r), NEW q,
         \A s \in Slot : r[s] # Idle => q[s] = Leave(r[s])
  PROVE  AppAwaits(q)
<1>1. PICK s \in Slot : /\ r[s] # Idle
                       /\ \/ r[s].kind \in {"init", "login", "logout"}
                          \/ r[s].kind = "save" /\ r[s].step = "current"
  BY DEF AppAwaits
<1>2. r[s] \in Request
  BY <1>1 DEF Requests
<1>3. q[s] # Idle /\ q[s].kind = r[s].kind /\ q[s].step = r[s].step
  BY <1>1, <1>2, LeaveKeeps
<1> QED
  BY <1>1, <1>3 DEF AppAwaits

\* A commit brings no spinner that nothing will end.
LEMMA CommitSpins ==
  ASSUME NEW a, NEW p, NEW acc, NEW r \in Requests, Commit(a, p, acc, r),
         a.loading => AppAwaits(r), PageSpins(acc, r)
  PROVE  SpinnersHaveRequests'
<1>1. CASE auth' = a /\ account' = acc /\ req' = r
  BY <1>1 DEF SpinnersHaveRequests, PageSpins
<1>2. CASE /\ auth' = a /\ account' = Unmounted
           /\ req' = [s \in Slot |-> Leave(r[s])]
  <2>1. auth'.loading => AppAwaits(req')
    BY <1>2, AppAwaitsLeft
  <2>2. ~ account'.loading /\ ~ account'.saving /\ ~ account'.changing
    BY <1>2 DEF Unmounted
  <2> QED
    BY <2>1, <2>2 DEF SpinnersHaveRequests
<1>3. CASE /\ auth' = a /\ account' = Mounted
           /\ \E s \in Slot :
                /\ Free(r, s)
                /\ req' = [t \in Slot |->
                             IF t = s THEN Sent("account", "call", Nobody, TRUE)
                             ELSE Leave(r[t])]
  <2>1. PICK s \in Slot :
          /\ Free(r, s)
          /\ req' = [t \in Slot |->
                       IF t = s THEN Sent("account", "call", Nobody, TRUE)
                       ELSE Leave(r[t])]
    BY <1>3
  <2>2. auth'.loading => AppAwaits(req')
    BY <1>3, <2>1, AppAwaitsLeft DEF Free
  <2>3. PageAwaits(req', "account")
    BY <2>1 DEF PageAwaits, Sent, Idle
  <2>4. ~ account'.saving /\ ~ account'.changing
    BY <1>3 DEF Mounted, Unmounted
  <2> QED
    BY <2>2, <2>3, <2>4 DEF SpinnersHaveRequests
<1> QED
  BY <1>1, <1>2, <1>3 DEF Commit

\* What was awaited still is when a function starts in a free slot,
LEMMA StillAwaited ==
  ASSUME SpinnersHaveRequests, TypeOK, NEW s \in Slot, Free(req, s), NEW q
  PROVE  LET r == [req EXCEPT ![s] = q]
         IN  (auth.loading => AppAwaits(r)) /\ PageSpins(account, r)
BY DEF SpinnersHaveRequests, PageSpins, AppAwaits, PageAwaits, Free, TypeOK

\* when one goes on,
LEMMA GoneOnAwaited ==
  ASSUME SpinnersHaveRequests, TypeOK, NEW s \in Slot, req[s] # Idle,
         NEW step, req[s].step = "csrf"
  PROVE  /\ auth.loading => AppAwaits(GoOn(s, step))
         /\ PageSpins(account, GoOn(s, step))
<1>1. GoOn(s, step)[s].kind = req[s].kind /\ GoOn(s, step)[s].here = req[s].here
  BY DEF GoOn, Sent, TypeOK
<1>2. GoOn(s, step)[s] # Idle
  BY DEF GoOn, Sent, TypeOK, Idle
<1>3. \A t \in Slot \ {s} : GoOn(s, step)[t] = req[t]
  BY DEF GoOn, TypeOK
<1> QED
  BY <1>1, <1>2, <1>3 DEF SpinnersHaveRequests, PageSpins, AppAwaits, PageAwaits

\* and when one ends that no spinner of the page waits for.
LEMMA EndedAwaited ==
  ASSUME SpinnersHaveRequests, TypeOK, NEW s \in Slot, NEW acc,
         /\ acc.loading =>
              account.loading /\ (req[s].here => req[s].kind # "account")
         /\ acc.saving => account.saving /\ (req[s].here => req[s].kind # "save")
         /\ acc.changing =>
              account.changing /\ (req[s].here => req[s].kind # "password")
  PROVE  PageSpins(acc, Over(s))
<1>1. \A t \in Slot \ {s} : Over(s)[t] = req[t]
  BY DEF Over, TypeOK
<1> QED
  BY <1>1 DEF SpinnersHaveRequests, PageSpins, PageAwaits

LEMMA EndedAppAwaited ==
  ASSUME SpinnersHaveRequests, TypeOK, NEW s \in Slot, auth.loading,
         req[s].kind \in {"password", "account", "aborted"}
           \/ (req[s].kind = "save" /\ req[s].step = "call")
  PROVE  AppAwaits(Over(s))
<1>1. \A t \in Slot \ {s} : Over(s)[t] = req[t]
  BY DEF Over, TypeOK
<1> QED
  BY <1>1 DEF SpinnersHaveRequests, AppAwaits

\* What a function in a free slot announces is awaited from then on.
LEMMA StartedSpins ==
  ASSUME SpinnersHaveRequests, TypeOK, cookie' \in Cookie, csrf' \in BOOLEAN,
         NEW s \in Slot, Free(req, s), NEW kind \in Kind, NEW who \in Anyone,
         NEW a, NEW acc,
         a.loading => auth.loading \/ kind \in {"login", "logout"},
         acc.loading => account.loading,
         acc.saving => account.saving \/ kind = "save",
         acc.changing => account.changing \/ kind = "password",
         Commit(a, place, acc, [req EXCEPT ![s] = Sent(kind, "csrf", who, TRUE)])
  PROVE  SpinnersHaveRequests'
<1> DEFINE r == [req EXCEPT ![s] = Sent(kind, "csrf", who, TRUE)]
<1>1. r \in Requests
  BY SentTyped DEF TypeOK, Requests
<1>2. r[s] # Idle /\ r[s].kind = kind /\ r[s].here
  BY DEF Sent, Idle, TypeOK
<1>3. (auth.loading => AppAwaits(r)) /\ PageSpins(account, r)
  BY StillAwaited
<1>4. a.loading => AppAwaits(r)
  BY <1>2, <1>3 DEF AppAwaits
<1>5. PageSpins(acc, r)
  BY <1>2, <1>3 DEF PageSpins, PageAwaits
<1> HIDE DEF r
<1> QED
  BY <1>1, <1>4, <1>5, CommitSpins DEF r

LEMMA UserStepSpins ==
  ASSUME SpinnersHaveRequests, TypeOK,
         \/ \E who \in Anyone : SignIn(who)
         \/ SignOut
         \/ SaveProfile
         \/ ChangePassword
         \/ \E p \in Place : Navigate(p)
  PROVE  SpinnersHaveRequests'
<1>0. account \in AccountState /\ auth \in Auth /\ cookie \in Cookie
      /\ csrf \in BOOLEAN
  BY DEF TypeOK
<1>1. ASSUME NEW who \in Anyone, SignIn(who) PROVE SpinnersHaveRequests'
  BY <1>0, <1>1, StartedSpins DEF SignIn, Kind
<1>2. CASE SignOut
  BY <1>0, <1>2, StartedSpins DEF SignOut, Kind, Anyone
<1>3. CASE SaveProfile
  <2> DEFINE acc == [account EXCEPT !.saving = TRUE, !.message = ""]
  <2>1. acc.loading = account.loading /\ acc.changing = account.changing
    BY <1>0 DEF AccountState
  <2> HIDE DEF acc
  <2> QED
    BY <1>0, <1>3, <2>1, StartedSpins DEF SaveProfile, Kind, Anyone, acc
<1>4. CASE ChangePassword
  <2> DEFINE acc == [account EXCEPT !.changing = TRUE, !.message = ""]
  <2>1. acc.loading = account.loading /\ acc.saving = account.saving
    BY <1>0 DEF AccountState
  <2> HIDE DEF acc
  <2> QED
    BY <1>0, <1>4, <2>1, StartedSpins DEF ChangePassword, Kind, Anyone, acc
<1>5. ASSUME NEW p \in Place, Navigate(p) PROVE SpinnersHaveRequests'
  <2>1. req \in Requests
    BY DEF TypeOK, Requests
  <2> QED
    BY <1>5, <2>1, CommitSpins DEF Navigate, SpinnersHaveRequests, PageSpins
<1> QED
  BY <1>1, <1>2, <1>3, <1>4, <1>5

LEMMA ReloadSpins ==
  ASSUME TypeOK, NEW p \in Place, Reload(p)
  PROVE  SpinnersHaveRequests'
<1>1. PICK s \in Slot :
        req' = StartOver([t \in Slot |-> Abort(req[t])], s)
  BY DEF Reload
<1>2. req'[s].kind = "init" /\ req'[s] # Idle
  BY <1>1 DEF StartOver, Sent, Idle
<1>3. AppAwaits(req')
  BY <1>2 DEF AppAwaits
<1> QED
  BY <1>3 DEF SpinnersHaveRequests, Reload, Unmounted

\* Serving a request and losing one change only its answer.
LEMMA AnswerSpins ==
  ASSUME SpinnersHaveRequests, TypeOK, NEW s \in Slot, req[s] # Idle, NEW a,
         req' = [req EXCEPT ![s].answer = a], UNCHANGED <<auth, account>>
  PROVE  SpinnersHaveRequests'
<1>1. /\ req'[s].kind = req[s].kind /\ req'[s].step = req[s].step
      /\ req'[s].here = req[s].here
  BY Answerable DEF Request, TypeOK
<1>2. req'[s] # Idle
  BY <1>1, Answerable DEF Request, Kind, Idle
<1>3. \A t \in Slot \ {s} : req'[t] = req[t]
  BY DEF TypeOK
<1> QED
  BY <1>1, <1>2, <1>3 DEF SpinnersHaveRequests, AppAwaits, PageAwaits

LEMMA DeliverSpins ==
  ASSUME SpinnersHaveRequests, TypeOK, NEW s \in Slot, Deliver(s)
  PROVE  SpinnersHaveRequests'
<1>0. account \in AccountState /\ auth \in Auth /\ Over(s) \in Requests
  BY OverTyped DEF TypeOK
<1>1. ~ Loaded(Nobody).loading /\ ~ Loaded(req[s].answer.user).loading
      /\ ~ Failed.loading
  BY <1>0 DEF Loaded, Failed, Auth
<1>2. ASSUME NEW kind \in Kind, TokenArrives(s, kind)
      PROVE  SpinnersHaveRequests'
  <2> DEFINE step == IF kind = "init" THEN "current" ELSE "call"
  <2>1. req[s] # Idle /\ req[s].step = "csrf" /\ req[s].answer # Pending
    BY <1>2 DEF TokenArrives, Answered
  <2>2. cookie' \in Cookie /\ csrf' \in BOOLEAN
    BY <1>2, <2>1, CookieTyped DEF TokenArrives
  <2>3. GoOn(s, step) \in Requests
    BY <2>1, <2>2, GoOnTyped
  <2>4. /\ auth.loading => AppAwaits(GoOn(s, step))
        /\ PageSpins(account, GoOn(s, step))
    BY <2>1, GoneOnAwaited
  <2> QED
    BY <1>2, <2>3, <2>4, CommitSpins DEF TokenArrives
<1>3. CASE InitArrives(s) \/ LoginArrives(s) \/ LogoutArrives(s)
  <2>1. req[s].kind \in {"init", "login", "logout"}
    BY <1>3 DEF InitArrives, LoginArrives, LogoutArrives, Answered
  <2>2. PageSpins(account, Over(s))
    BY <2>1, EndedAwaited
  <2>3. CASE InitArrives(s)
    BY <1>0, <1>1, <2>2, <2>3, CommitSpins DEF InitArrives
  <2>4. CASE LoginArrives(s)
    BY <1>0, <1>1, <2>2, <2>4, CommitSpins DEF LoginArrives
  <2>5. CASE LogoutArrives(s)
    BY <1>0, <1>1, <2>2, <2>5, CommitSpins DEF LogoutArrives
  <2> QED
    BY <1>3, <2>3, <2>4, <2>5
<1>4. CASE SaveArrives(s)
  <2>1. /\ req[s] # Idle /\ req[s].kind = "save" /\ req[s].step = "call"
        /\ req[s].answer # Pending
    BY <1>4 DEF SaveArrives, Answered
  <2>2. CASE req[s].answer.ok
    <3>1. cookie' \in Cookie /\ csrf' \in BOOLEAN
      BY <1>4, <2>1, CookieTyped DEF SaveArrives, TypeOK
    <3>2. GoOn(s, "current") \in Requests
      BY <2>1, <3>1, GoOnTyped
    <3>3. /\ GoOn(s, "current")[s].kind = "save"
          /\ GoOn(s, "current")[s].step = "current"
          /\ GoOn(s, "current")[s].here = req[s].here
          /\ GoOn(s, "current")[s] # Idle
      BY <2>1 DEF GoOn, Sent, TypeOK, Idle
    <3>4. \A t \in Slot \ {s} : GoOn(s, "current")[t] = req[t]
      BY DEF GoOn, TypeOK
    <3>5. AppAwaits(GoOn(s, "current"))
      BY <3>3 DEF AppAwaits
    <3>6. PageSpins(account, GoOn(s, "current"))
      BY <2>1, <3>3, <3>4 DEF SpinnersHaveRequests, PageSpins, PageAwaits
    <3> QED
      BY <1>4, <2>2, <3>2, <3>5, <3>6, CommitSpins DEF SaveArrives
  <2>3. CASE ~ req[s].answer.ok
    <3> DEFINE acc == IF req[s].here
                      THEN [account EXCEPT !.saving = FALSE, !.message = "error"]
                      ELSE account
    <3>1. /\ acc.loading = account.loading /\ acc.changing = account.changing
          /\ acc.saving => account.saving /\ ~ req[s].here
      BY <1>0 DEF AccountState
    <3> HIDE DEF acc
    <3>2. PageSpins(acc, Over(s))
      BY <2>1, <3>1, EndedAwaited
    <3>3. auth.loading => AppAwaits(Over(s))
      BY <2>1, EndedAppAwaited
    <3> QED
      BY <1>0, <1>4, <2>3, <3>2, <3>3, CommitSpins DEF SaveArrives, acc
  <2> QED
    BY <2>2, <2>3
<1>5. CASE RefreshArrives(s)
  <2> DEFINE acc == IF req[s].here
                    THEN [account EXCEPT !.saving = FALSE,
                                         !.message = "Profile updated"]
                    ELSE account
  <2>1. /\ acc.loading = account.loading /\ acc.changing = account.changing
        /\ acc.saving => account.saving /\ ~ req[s].here
    BY <1>0 DEF AccountState
  <2> HIDE DEF acc
  <2>2. PageSpins(acc, Over(s))
    BY <1>5, <2>1, EndedAwaited DEF RefreshArrives, Answered
  <2> QED
    BY <1>0, <1>1, <1>5, <2>2, CommitSpins DEF RefreshArrives, acc
<1>6. CASE PasswordArrives(s)
  <2> DEFINE acc == IF req[s].here
                    THEN [account EXCEPT !.changing = FALSE, !.message =
                            IF req[s].answer.ok THEN "Password changed"
                            ELSE "error"]
                    ELSE account
  <2>1. /\ acc.loading = account.loading /\ acc.saving = account.saving
        /\ acc.changing => account.changing /\ ~ req[s].here
    BY <1>0 DEF AccountState
  <2> HIDE DEF acc
  <2>2. PageSpins(acc, Over(s))
    BY <1>6, <2>1, EndedAwaited DEF PasswordArrives, Answered
  <2>3. auth.loading => AppAwaits(Over(s))
    BY <1>6, EndedAppAwaited DEF PasswordArrives, Answered
  <2> QED
    BY <1>0, <1>6, <2>2, <2>3, CommitSpins DEF PasswordArrives, acc
<1>7. CASE AccountArrives(s)
  <2> DEFINE acc == IF req[s].here THEN [account EXCEPT !.loading = FALSE]
                    ELSE account
  <2>1. /\ acc.saving = account.saving /\ acc.changing = account.changing
        /\ acc.loading => account.loading /\ ~ req[s].here
    BY <1>0 DEF AccountState
  <2> HIDE DEF acc
  <2>2. PageSpins(acc, Over(s))
    BY <1>7, <2>1, EndedAwaited DEF AccountArrives, Answered
  <2>3. auth.loading => AppAwaits(Over(s))
    BY <1>7, EndedAppAwaited DEF AccountArrives, Answered
  <2> QED
    BY <1>0, <1>7, <2>2, <2>3, CommitSpins DEF AccountArrives, acc
<1>8. CASE AbortedArrives(s)
  <2>1. req[s].kind = "aborted"
    BY <1>8 DEF AbortedArrives, Answered
  <2>2. PageSpins(account, Over(s))
    BY <2>1, EndedAwaited
  <2>3. auth.loading => AppAwaits(Over(s))
    BY <1>8, EndedAppAwaited DEF AbortedArrives, Answered
  <2> QED
    BY <1>8, <2>2, <2>3 DEF AbortedArrives, SpinnersHaveRequests, PageSpins
<1> QED
  BY <1>2, <1>3, <1>4, <1>5, <1>6, <1>7, <1>8 DEF Deliver

\* No spinner of App or Account is left behind without a function in flight that
\* ends it, however functions, unmounts, losses and reloads interleave.
THEOREM NoSpinnerIsLeft == Spec => []SpinnersHaveRequests
<1>1. Init => SpinnersHaveRequests
  <2> SUFFICES ASSUME Init PROVE SpinnersHaveRequests
    OBVIOUS
  <2>1. 1 \in Slot /\ req[1].kind = "init" /\ req[1] # Idle
    BY DEF Init, Slot, Idle
  <2>2. AppAwaits(req)
    BY <2>1 DEF AppAwaits
  <2>3. account = Unmounted
    BY DEF Init
  <2> QED
    BY <2>2, <2>3 DEF SpinnersHaveRequests, Unmounted
<1>2. SpinnersHaveRequests /\ TypeOK /\ [Next]_vars => SpinnersHaveRequests'
  <2> SUFFICES ASSUME SpinnersHaveRequests, TypeOK, [Next]_vars
               PROVE  SpinnersHaveRequests'
    OBVIOUS
  <2>1. CASE UNCHANGED vars
    BY <2>1 DEF vars, SpinnersHaveRequests, AppAwaits, PageAwaits
  <2>2. ASSUME NEW s \in Slot, Serve(s) \/ Lose(s)
        PROVE  SpinnersHaveRequests'
    BY <2>2, AnswerSpins DEF Serve, Lose
  <2>3. CASE Next
    BY <2>2, <2>3, UserStepSpins, ReloadSpins, DeliverSpins DEF Next
  <2> QED
    BY <2>1, <2>3
<1> QED
  BY <1>1, <1>2, TypeCorrect, PTL DEF Spec

-----------------------------------------------------------------------------
(* The token *)

\* While the tab has no token and nothing was lost, the spinner is up and
\* AuthProvider's effect waits for GET /csrf; nobody waits for anything else.
TokenComing ==
  ~ lost /\ ~ csrf =>
    /\ auth = [user |-> Nobody, loading |-> TRUE]
    /\ \A s \in Slot : req[s] # Idle =>
         \/ req[s].kind = "aborted" /\ req[s].step = "call"
         \/ /\ req[s].kind = "init" /\ req[s].step = "csrf"
            /\ req[s].answer = Pending \/ req[s].answer.ok

\* Opening the page anew is the only step that forgets the token.
LEMMA TokenKept ==
  ASSUME Next, csrf \/ lost, ~ \E p \in Place : Reload(p), TypeOK
  PROVE  csrf' \/ lost'
<1>1. ASSUME NEW who \in Anyone, SignIn(who) PROVE csrf' \/ lost'
  BY <1>1 DEF SignIn, Record
<1>2. CASE SignOut \/ SaveProfile \/ ChangePassword
  BY <1>2 DEF SignOut, SaveProfile, ChangePassword, Record
<1>3. ASSUME NEW p \in Place, Navigate(p) PROVE csrf' \/ lost'
  BY <1>3 DEF Navigate, Record
<1>4. ASSUME NEW s \in Slot, Serve(s) \/ Lose(s) PROVE csrf' \/ lost'
  BY <1>4 DEF Serve, Lose
<1>5. ASSUME NEW s \in Slot, Deliver(s) PROVE csrf' \/ lost'
  BY <1>5 DEF Deliver, TokenArrives, InitArrives, LoginArrives, LogoutArrives,
     SaveArrives, RefreshArrives, PasswordArrives, AccountArrives,
     AbortedArrives, Record
<1> QED
  BY <1>1, <1>2, <1>3, <1>4, <1>5 DEF Next

\* Opening the page anew asks for one; what is left in flight is a password change
\* that nobody waits for.
LEMMA ReloadAsks ==
  ASSUME TypeOK, NEW p \in Place, Reload(p)
  PROVE  TokenComing'
<1> DEFINE left == [t \in Slot |-> Abort(req[t])]
<1>1. PICK s \in Slot : Free(left, s) /\ req' = StartOver(left, s)
  BY DEF Reload
<1>2. /\ req'[s].kind = "init" /\ req'[s].step = "csrf"
      /\ req'[s].answer = Pending
  BY <1>1 DEF StartOver, Sent
<1>3. \A t \in Slot \ {s} : req'[t] = Abort(req[t])
  BY <1>1 DEF StartOver
<1>4. \A t \in Slot \ {s} :
        req'[t] # Idle => req'[t].kind = "aborted" /\ req'[t].step = "call"
  <2> SUFFICES ASSUME NEW t \in Slot \ {s}, req'[t] # Idle
               PROVE  req'[t].kind = "aborted" /\ req'[t].step = "call"
    OBVIOUS
  <2>1. /\ req[t] # Idle /\ req[t].step = "call"
        /\ req'[t] = [req[t] EXCEPT !.kind = "aborted", !.here = FALSE]
    BY <1>3 DEF Abort
  <2>2. req[t] \in Request
    BY <2>1, Answerable
  <2> QED
    BY <2>1, <2>2 DEF Request
<1>5. auth' = [user |-> Nobody, loading |-> TRUE]
  BY DEF Reload
<1> QED
  BY <1>2, <1>4, <1>5 DEF TokenComing

\* Under the spinner a changed path shows and asks for nothing.
LEMMA SpinnerStays ==
  ASSUME auth.loading, NEW p, Navigate(p)
  PROVE  UNCHANGED <<salt, cookie, csrf, auth, account, req>>
<1>1. Shows(auth, p) = "loading" /\ Shows(auth, place) = "loading"
  BY DEF Shows
<1> QED
  BY <1>1 DEF Navigate, Commit

\* Before the token has come only its request matters to the tab.
LEMMA TokenAwaited ==
  ASSUME TypeOK, TokenComing, ~ csrf, ~ lost, Next,
         ~ \E p \in Place : Reload(p)
  PROVE  TokenComing'
<1>0. /\ auth = [user |-> Nobody, loading |-> TRUE]
      /\ \A s \in Slot : req[s] # Idle =>
           \/ req[s].kind = "aborted" /\ req[s].step = "call"
           \/ /\ req[s].kind = "init" /\ req[s].step = "csrf"
              /\ req[s].answer = Pending \/ req[s].answer.ok
  BY DEF TokenComing
<1>1. Shows(auth, place) = "loading"
  BY <1>0 DEF Shows
<1>2. /\ ~ \E who \in Anyone : SignIn(who)
      /\ ~ SignOut /\ ~ SaveProfile /\ ~ ChangePassword
  BY <1>1 DEF SignIn, SignOut, SaveProfile, ChangePassword, AtForms
<1>3. ASSUME NEW s \in Slot, Serve(s) PROVE TokenComing'
  <2>1. PICK a \in Answers(req[s]) : req' = [req EXCEPT ![s].answer = a]
    BY <1>3 DEF Serve
  <2>2. req[s] # Idle /\ req[s] \in Request /\ UNCHANGED <<csrf, lost, auth>>
    BY <1>3, Answerable DEF Serve
  <2>3. /\ req'[s].kind = req[s].kind /\ req'[s].step = req[s].step
        /\ req'[s].answer = a /\ \A t \in Slot \ {s} : req'[t] = req[t]
    BY <2>1, <2>2 DEF Request, TypeOK
  <2>4. CASE req[s].kind = "aborted" /\ req[s].step = "call"
    BY <1>0, <2>2, <2>3, <2>4 DEF TokenComing
  <2>5. CASE req[s].kind = "init" /\ req[s].step = "csrf"
    <3>1. a = Ok(Nobody, req[s].jar)
      BY <2>5 DEF Answers, Forged
    <3>2. a.ok
      BY <3>1 DEF Ok
    <3> QED
      BY <1>0, <2>2, <2>3, <2>5, <3>2 DEF TokenComing
  <2> QED
    BY <1>0, <2>2, <2>4, <2>5
<1>4. ASSUME NEW s \in Slot, Lose(s) PROVE TokenComing'
  BY <1>4 DEF Lose, TokenComing
<1>5. ASSUME NEW s \in Slot, AbortedArrives(s) PROVE TokenComing'
  <2>1. req' = Over(s) /\ UNCHANGED <<csrf, lost, auth>>
    BY <1>5 DEF AbortedArrives
  <2>2. req'[s] = Idle /\ \A t \in Slot \ {s} : req'[t] = req[t]
    BY <2>1 DEF Over, TypeOK
  <2> QED
    BY <1>0, <2>1, <2>2 DEF TokenComing
<1>6. ASSUME NEW s \in Slot, Deliver(s), ~ AbortedArrives(s) PROVE TokenComing'
  <2>1. PICK kind \in Kind : TokenArrives(s, kind)
    BY <1>0, <1>6 DEF Deliver, InitArrives, LoginArrives, LogoutArrives,
       SaveArrives, RefreshArrives, PasswordArrives, AccountArrives, Answered
  <2>2. csrf'
    BY <1>0, <2>1 DEF TokenArrives, Answered
  <2> QED
    BY <2>2 DEF TokenComing
<1>7. ASSUME NEW p \in Place, Navigate(p) PROVE TokenComing'
  <2>1. UNCHANGED <<csrf, auth, req>>
    BY <1>0, <1>7, SpinnerStays
  <2> QED
    BY <1>0, <2>1 DEF TokenComing
<1> QED
  BY <1>2, <1>3, <1>4, <1>5, <1>6, <1>7 DEF Next

\* A tab that shows somebody signed in has the token its writes need, unless an
\* answer was lost since the page was loaded.
THEOREM SignedInCanWrite == Spec => []SignedInHasToken
<1>1. Init => TokenComing
  <2> SUFFICES ASSUME Init PROVE TokenComing
    OBVIOUS
  <2>1. \A s \in Slot : req[s] # Idle =>
          /\ req[s].kind = "init" /\ req[s].step = "csrf"
          /\ req[s].answer = Pending
    BY DEF Init
  <2>2. auth = [user |-> Nobody, loading |-> TRUE]
    BY DEF Init
  <2> QED
    BY <2>1, <2>2 DEF TokenComing
<1>2. TokenComing /\ TypeOK /\ [Next]_vars => TokenComing'
  <2> SUFFICES ASSUME TokenComing, TypeOK, [Next]_vars PROVE TokenComing'
    OBVIOUS
  <2>1. CASE UNCHANGED vars
    BY <2>1 DEF vars, TokenComing
  <2>2. CASE Next /\ \E p \in Place : Reload(p)
    BY <2>2, ReloadAsks
  <2>3. CASE Next /\ ~ (\E p \in Place : Reload(p)) /\ (csrf \/ lost)
    <3>1. csrf' \/ lost'
      BY <2>3, TokenKept
    <3> QED
      BY <3>1 DEF TokenComing
  <2>4. CASE Next /\ ~ (\E p \in Place : Reload(p)) /\ ~ csrf /\ ~ lost
    BY <2>4, TokenAwaited
  <2> QED
    BY <2>1, <2>2, <2>3, <2>4
<1>3. TokenComing => SignedInHasToken
  <2> SUFFICES ASSUME TokenComing, auth.user # Nobody, ~ lost PROVE csrf
    BY DEF SignedInHasToken
  <2> QED
    BY DEF TokenComing
<1> QED
  BY <1>1, <1>2, <1>3, TypeCorrect, PTL DEF Spec

=============================================================================
