-------------------------------- MODULE Tab --------------------------------
(***************************************************************************)
(* The browser's side of the session: what the user can do in the tab and  *)
(* what the code does with an answer.                                      *)
(***************************************************************************)
EXTENDS Session

\* What App renders: while state.loading nothing but a spinner, so that every
\* page is unmounted; without a user, the login page.
Shows(a, p) ==
  IF a.loading THEN "loading" ELSE IF a.user = Nobody THEN "login" ELSE p

\* The redirect to /login when there is no user to show a page to.
Redirected(a, p) == IF Shows(a, p) = "login" THEN "login" ELSE p

Changing == {"login", "logout", "password", "aborted"}

\* A request that changes the session is in flight together with another one.
Overlap(r) ==
  \E s, t \in Slot :
    s # t /\ r[s] # Idle /\ r[t] # Idle /\ r[s].kind \in Changing

Record ==
  /\ crossed' = (crossed \/ Overlap(req'))
  /\ lost' = lost

\* A request sent now, with the cookie and the token the browser has.
Sent(kind, step, who, here) ==
  [kind |-> kind, step |-> step, who |-> who, here |-> here,
   jar |-> cookie', token |-> csrf', answer |-> Pending]

Free(r, s) == r[s] = Idle /\ \A t \in Slot : r[t] = Idle => s <= t

Leave(r) == IF r = Idle THEN Idle ELSE [r EXCEPT !.here = FALSE]

\* React's commit: context a, location p; `acc` and `r` are what the page that
\* stays mounted and the functions in flight go on with.  A page that comes
\* mounts with fresh state, and Account then sends GET /account; functions of a
\* page that went go on, with nobody to tell.
Commit(a, p, acc, r) ==
  /\ auth' = a
  /\ place' = Redirected(a, p)
  /\ \/ /\ Shows(a, p) = Shows(auth, place)
        /\ account' = acc
        /\ req' = r
     \/ /\ Shows(a, p) \notin {Shows(auth, place), "account"}
        /\ account' = Unmounted
        /\ req' = [s \in Slot |-> Leave(r[s])]
     \/ /\ Shows(a, p) = "account"
        /\ Shows(auth, place) # "account"
        /\ account' = Mounted
        /\ \E s \in Slot :
             /\ Free(r, s)
             /\ req' = [t \in Slot |->
                          IF t = s THEN Sent("account", "call", Nobody, TRUE)
                          ELSE Leave(r[t])]

\* Mutant: without `?? null`.
LoadedUndefined(user) ==
  [user |-> IF user = Nobody THEN Keep ELSE user, loading |-> FALSE]

\* The reducer's three actions.
Loading == [auth EXCEPT !.loading = TRUE]
Loaded(user) == [user |-> user, loading |-> FALSE]
Failed == [auth EXCEPT !.loading = FALSE]

-----------------------------------------------------------------------------
(* What the user does *)

\* Login's onSubmit: login() announces itself and fetches a token.
SignIn(who) ==
  /\ Shows(auth, place) = "login"
  /\ UNCHANGED <<salt, cookie, csrf>>
  /\ \E s \in Slot :
       /\ Free(req, s)
       /\ Commit(Loading, place, account,
                 [req EXCEPT ![s] = Sent("login", "csrf", who, TRUE)])
  /\ Record

AtForms == Shows(auth, place) = "account" /\ ~ account.loading

\* The Logout button.
SignOut ==
  /\ AtForms
  /\ UNCHANGED <<salt, cookie, csrf>>
  /\ \E s \in Slot :
       /\ Free(req, s)
       /\ Commit(Loading, place, account,
                 [req EXCEPT ![s] = Sent("logout", "csrf", Nobody, TRUE)])
  /\ Record

\* saveProfile.
SaveProfile ==
  /\ AtForms
  /\ ~ account.saving
  /\ UNCHANGED <<salt, cookie, csrf>>
  /\ \E s \in Slot :
       /\ Free(req, s)
       /\ Commit(auth, place, [account EXCEPT !.saving = TRUE, !.message = ""],
                 [req EXCEPT ![s] = Sent("save", "csrf", Nobody, TRUE)])
  /\ Record

\* changePassword.
ChangePassword ==
  /\ AtForms
  /\ ~ account.changing
  /\ UNCHANGED <<salt, cookie, csrf>>
  /\ \E s \in Slot :
       /\ Free(req, s)
       /\ Commit(auth, place, [account EXCEPT !.changing = TRUE, !.message = ""],
                 [req EXCEPT ![s] = Sent("password", "csrf", Nobody, TRUE)])
  /\ Record

\* A link of the header, or the browser's Back, which changes the path under the
\* spinner too; without a user the way leads back to /login.
Navigate(p) ==
  /\ p # place
  /\ UNCHANGED <<salt, cookie, csrf>>
  /\ Commit(auth, p, account, req)
  /\ Record

\* A password change that has been sent is carried out although nobody waits.
Abort(r) ==
  IF /\ r # Idle
     /\ r.kind \in {"password", "aborted"} /\ r.step = "call"
     /\ r.answer = Pending
  THEN [r EXCEPT !.kind = "aborted", !.here = FALSE]
  ELSE Idle

\* Mutant: the token is not fetched.
StartTokenless(r, s) == [r EXCEPT ![s] = Sent("init", "current", Nobody, FALSE)]

\* AuthProvider's effect starts with ensureCsrfToken.
StartOver(r, s) == [r EXCEPT ![s] = Sent("init", "csrf", Nobody, FALSE)]

\* The page is loaded again, or another address is typed: the cookie is all that
\* is left, and AuthProvider's effect asks whose it is.
Reload(p) ==
  LET left == [s \in Slot |-> Abort(req[s])]
  IN  /\ UNCHANGED <<salt, cookie>>
      /\ csrf' = FALSE
      /\ auth' = [user |-> Nobody, loading |-> TRUE]
      /\ place' = p
      /\ account' = Unmounted
      /\ \E s \in Slot : Free(left, s) /\ req' = StartOver(left, s)
      /\ crossed' = Overlap(req')
      /\ lost' = FALSE

-----------------------------------------------------------------------------
(* What the code does with an answer *)

Answered(s, kind, step) ==
  /\ req[s] # Idle
  /\ req[s].kind = kind /\ req[s].step = step
  /\ req[s].answer # Pending

\* The browser has stored the answer's cookie before the code sees the answer.
TakeCookie(s) ==
  cookie' = IF req[s].answer.cookie = Keep THEN cookie
            ELSE req[s].answer.cookie

Over(s) == [req EXCEPT ![s] = Idle]

GoOn(s, step) ==
  [req EXCEPT ![s] = Sent(req[s].kind, step, req[s].who, req[s].here)]

\* ensureCsrfToken keeps the token, swallows a failure, and its caller goes on.
TokenArrives(s, kind) ==
  /\ Answered(s, kind, "csrf")
  /\ TakeCookie(s)
  /\ csrf' = (csrf \/ req[s].answer.ok)
  /\ Commit(auth, place, account,
            GoOn(s, IF kind = "init" THEN "current" ELSE "call"))
  /\ Record
  /\ UNCHANGED salt

\* AuthProvider's effect.
InitArrives(s) ==
  /\ Answered(s, "init", "current")
  /\ TakeCookie(s)
  /\ UNCHANGED <<csrf, salt>>
  /\ Commit(Loaded(req[s].answer.user), place, account, Over(s))
  /\ Record

\* Mutant: a refused login is not told from a good one.
LoginAssumed(s) ==
  /\ Answered(s, "login", "call")
  /\ TakeCookie(s)
  /\ UNCHANGED <<csrf, salt>>
  /\ Commit(Loaded(req[s].who), "home", account, Over(s))
  /\ Record

\* login(), and navigate("/") in Login.
LoginArrives(s) ==
  /\ Answered(s, "login", "call")
  /\ TakeCookie(s)
  /\ UNCHANGED <<csrf, salt>>
  /\ IF req[s].answer.ok
     THEN Commit(Loaded(req[s].answer.user), "home", account, Over(s))
     ELSE Commit(Failed, place, account, Over(s))
  /\ Record

\* Mutant: dispatch inside the try block.
LogoutHeard(s) ==
  /\ Answered(s, "logout", "call")
  /\ TakeCookie(s)
  /\ UNCHANGED <<csrf, salt>>
  /\ Commit(IF req[s].answer.ok THEN Loaded(Nobody) ELSE auth, place, account,
            Over(s))
  /\ Record

\* logout(): the finally branch runs whatever the answer is.
LogoutArrives(s) ==
  /\ Answered(s, "logout", "call")
  /\ TakeCookie(s)
  /\ UNCHANGED <<csrf, salt>>
  /\ Commit(Loaded(Nobody), place, account, Over(s))
  /\ Record

\* saveProfile after PUT /account: refresh() announces itself, or an error is
\* shown.
SaveArrives(s) ==
  /\ Answered(s, "save", "call")
  /\ TakeCookie(s)
  /\ UNCHANGED <<csrf, salt>>
  /\ IF req[s].answer.ok
     THEN Commit(Loading, place, account, GoOn(s, "current"))
     ELSE Commit(auth, place,
                 IF req[s].here
                 THEN [account EXCEPT !.saving = FALSE, !.message = "error"]
                 ELSE account,
                 Over(s))
  /\ Record

\* Mutant: a failed refresh() leaves the spinner.
RefreshHeard(s) ==
  /\ Answered(s, "save", "current")
  /\ TakeCookie(s)
  /\ UNCHANGED <<csrf, salt>>
  /\ Commit(IF req[s].answer.ok THEN Loaded(req[s].answer.user) ELSE auth, place,
            account, Over(s))
  /\ Record

\* refresh() has the user; then saveProfile's setMessage and setSaving.
RefreshArrives(s) ==
  /\ Answered(s, "save", "current")
  /\ TakeCookie(s)
  /\ UNCHANGED <<csrf, salt>>
  /\ Commit(Loaded(req[s].answer.user), place,
            IF req[s].here
            THEN [account EXCEPT !.saving = FALSE, !.message = "Profile updated"]
            ELSE account,
            Over(s))
  /\ Record

\* changePassword after PATCH /account/password.
PasswordArrives(s) ==
  /\ Answered(s, "password", "call")
  /\ TakeCookie(s)
  /\ UNCHANGED <<csrf, salt>>
  /\ Commit(auth, place,
            IF req[s].here
            THEN [account EXCEPT !.changing = FALSE, !.message =
                    IF req[s].answer.ok THEN "Password changed" ELSE "error"]
            ELSE account,
            Over(s))
  /\ Record

\* Account's effect: the form appears whether the profile came or not.
AccountArrives(s) ==
  /\ Answered(s, "account", "call")
  /\ TakeCookie(s)
  /\ UNCHANGED <<csrf, salt>>
  /\ Commit(auth, place,
            IF req[s].here THEN [account EXCEPT !.loading = FALSE] ELSE account,
            Over(s))
  /\ Record

\* Nobody waits for this answer, and its cookie is not kept.
AbortedArrives(s) ==
  /\ Answered(s, "aborted", "call")
  /\ req' = Over(s)
  /\ UNCHANGED <<salt, cookie, csrf, auth, place, account, crossed, lost>>

Deliver(s) ==
  \/ \E kind \in Kind : TokenArrives(s, kind)
  \/ InitArrives(s)
  \/ LoginArrives(s)
  \/ LogoutArrives(s)
  \/ SaveArrives(s)
  \/ RefreshArrives(s)
  \/ PasswordArrives(s)
  \/ AccountArrives(s)
  \/ AbortedArrives(s)

\* The network fails before the request has reached the server, or after.
Lose(s) ==
  /\ req[s] # Idle
  /\ req[s].answer # Error
  /\ req' = [req EXCEPT ![s].answer = Error]
  /\ lost' = TRUE
  /\ UNCHANGED <<salt, cookie, csrf, auth, place, account, crossed>>

-----------------------------------------------------------------------------

\* The tab is opened, with or without a session from an earlier visit.
Init ==
  /\ salt = [u \in User |-> 0]
  /\ cookie \in [user : Anyone, salt : {0}]
  /\ csrf = FALSE
  /\ auth = [user |-> Nobody, loading |-> TRUE]
  /\ place \in Place
  /\ account = Unmounted
  /\ req = [s \in Slot |->
              IF s = 1 THEN [kind |-> "init", step |-> "csrf", who |-> Nobody,
                             here |-> FALSE, jar |-> cookie, token |-> FALSE,
                             answer |-> Pending]
              ELSE Idle]
  /\ crossed = FALSE
  /\ lost = FALSE

Next ==
  \/ \E who \in Anyone : SignIn(who)
  \/ SignOut
  \/ SaveProfile
  \/ ChangePassword
  \/ \E p \in Place : Navigate(p) \/ Reload(p)
  \/ \E s \in Slot : Serve(s) \/ Deliver(s) \/ Lose(s)

Spec == Init /\ [][Next]_vars

\* Requests that were sent are served or fail, and their answers arrive.
\* Nothing makes a person press a button.
FairSpec == Spec /\ \A s \in Slot : WF_vars(Serve(s)) /\ WF_vars(Deliver(s))

-----------------------------------------------------------------------------
(* Properties *)

\* A function in flight will dispatch "loaded" or "error".
AppAwaits(r) ==
  \E s \in Slot : /\ r[s] # Idle
                  /\ \/ r[s].kind \in {"init", "login", "logout"}
                     \/ r[s].kind = "save" /\ r[s].step = "current"

\* A function of the Account page on the screen, not of an instance that was
\* unmounted in the meantime, is in flight.
PageAwaits(r, kind) ==
  \E s \in Slot : r[s] # Idle /\ r[s].kind = kind /\ r[s].here

\* Every spinner waits for a request that will end it: App's `state.loading` and
\* Account's `loading`, `saving` and `changingPwd`.
SpinnersHaveRequests ==
  /\ auth.loading => AppAwaits(req)
  /\ account.loading => PageAwaits(req, "account")
  /\ account.saving => PageAwaits(req, "save")
  /\ account.changing => PageAwaits(req, "password")

AtRest == \A s \in Slot : req[s] = Idle

\* At rest the tab shows the user whom the server takes the browser for, unless
\* an answer was lost, a password was changed, or a request that changes the
\* session ran beside another one since the page was loaded.
TabAgreesWithServer ==
  AtRest /\ ~ crossed /\ ~ lost => auth = Loaded(Authenticated(cookie))

\* At no time, and whatever is lost on the way, does the tab show somebody whom the
\* server does not take the browser for; but for a new password, and a request that
\* changes the session beside another one.
ShownIsServed ==
  ~ crossed => auth.user \in {Nobody, Authenticated(cookie)}

\* A signed-in tab can write, unless an answer was lost: BorrowButton and the
\* librarian's pages send the token that AuthProvider fetched and never fetch one
\* themselves.
SignedInHasToken == auth.user # Nobody /\ ~ lost => csrf

\* The spinner goes away, unless the user keeps reloading the page.
SpinnerEnds ==
  <>[][~ \E p \in Place : Reload(p)]_vars => (auth.loading ~> ~ auth.loading)

\* A profile that was saved is confirmed to the user who is still on the page:
\* "Profile updated" in Account.
SaveIsConfirmed ==
  [][\A s \in Slot :
       RefreshArrives(s) /\ Shows(auth', place') = "account"
         => account'.message = "Profile updated"]_vars
=============================================================================
