------------------------------ MODULE Session -------------------------------
(***************************************************************************)
(* One browser tab and its session: AuthContext, the routing of App, the   *)
(* Login and Account pages, and on the server SessionsController and       *)
(* AccountsController.                                                     *)
(*                                                                         *)
(* The session lives in a cookie.  A request carries the cookie the        *)
(* browser has when it is sent, the server answers with that cookie,       *)
(* possibly changed, and the browser keeps the cookie of the answer that   *)
(* arrives last.  Requests are served and answered in any order; any       *)
(* request or answer can be lost.                                          *)
(*                                                                         *)
(* An async function of the code awaits one request at a time.  req[s] is  *)
(* such a function together with the request it awaits.                    *)
(***************************************************************************)
EXTENDS Integers

CONSTANTS
  User,       \* people with an account
  Nobody,     \* null in state.user, no user in the session
  Keep,       \* an answer without Set-Cookie
  Pending,    \* not answered yet
  MaxFlight,  \* bound: functions awaiting an answer at one time
  MaxSalt     \* bound: changes of one user's password

ASSUME SessionAssumption ==
  /\ Nobody \notin User
  /\ MaxFlight \in Nat \ {0}
  /\ MaxSalt \in Nat

VARIABLES
  salt,     \* salt[u]: which of u's passwords the server has
  cookie,   \* the session cookie in the browser
  csrf,     \* api.defaults carries an X-CSRF-Token
  auth,     \* the state of AuthContext
  place,    \* location.pathname
  account,  \* the state of the Account page, Unmounted if it is not shown
  req,      \* the functions awaiting an answer
  crossed,  \* history: the session was changed beside another request, or from under
            \* itself by a new password, since the page was loaded
  lost      \* history: an answer was lost since the page was loaded

vars == <<salt, cookie, csrf, auth, place, account, req, crossed, lost>>

-----------------------------------------------------------------------------
(* Types *)

Slot == 1..MaxFlight
Anyone == User \cup {Nobody}

Cookie == [user : Anyone, salt : 0..MaxSalt]
NoSession == [user |-> Nobody, salt |-> 0]

ASSUME KeepAssumption == Keep \notin Cookie

Auth == [user : Anyone, loading : BOOLEAN]

Place == {"home", "account", "login"}

AccountState == [loading : BOOLEAN, saving : BOOLEAN, changing : BOOLEAN,
                 message : {"", "Profile updated", "Password changed", "error"}]
Unmounted ==
  [loading |-> FALSE, saving |-> FALSE, changing |-> FALSE, message |-> ""]
Mounted == [Unmounted EXCEPT !.loading = TRUE]

Answer == [ok : BOOLEAN, user : Anyone, cookie : Cookie \cup {Keep}]
Error == [ok |-> FALSE, user |-> Nobody, cookie |-> Keep]

\* `here`: the component that called the function is still mounted.  `who`: the
\* user whose e-mail and password were typed in, Nobody if they are wrong.
Kind == {"init", "login", "logout", "save", "password", "account", "aborted"}
Request == [kind : Kind, step : {"csrf", "call", "current"}, who : Anyone,
            here : BOOLEAN, jar : Cookie, token : BOOLEAN,
            answer : Answer \cup {Pending}]
Idle == [kind |-> "idle"]

TypeOK ==
  /\ salt \in [User -> 0..MaxSalt]
  /\ cookie \in Cookie
  /\ csrf \in BOOLEAN
  /\ auth \in Auth
  /\ place \in Place
  /\ account \in AccountState
  /\ req \in [Slot -> Request \cup {Idle}]
  /\ {crossed, lost} \subseteq BOOLEAN

-----------------------------------------------------------------------------
(* The server *)

\* current_user: Warden refuses a session made before the password was changed
\* and takes it out of the cookie.
Authenticated(c) ==
  IF c.user # Nobody /\ c.salt = salt[c.user] THEN c.user ELSE Nobody
Clean(c) == IF Authenticated(c) = c.user THEN c ELSE NoSession

Ok(user, c) == [ok |-> TRUE, user |-> user, cookie |-> c]
Refused(c) == [ok |-> FALSE, user |-> Nobody, cookie |-> c]

\* SessionsController#create.
CreateSession(r) ==
  IF r.who = Nobody THEN Refused(r.jar)
  ELSE Ok(r.who, [user |-> r.who, salt |-> salt[r.who]])

\* SessionsController#destroy.
DestroySession(r) ==
  IF Authenticated(r.jar) = Nobody THEN Refused(Clean(r.jar))
  ELSE Ok(Nobody, NoSession)

\* Mutant: the session of an old password is still good.
CurrentUnsalted(r) == Ok(r.jar.user, r.jar)

\* SessionsController#current.
CurrentSession(r) == Ok(Authenticated(r.jar), Clean(r.jar))

\* AccountsController#show.
ShowAccount(r) ==
  IF Authenticated(r.jar) = Nobody THEN Refused(Clean(r.jar))
  ELSE Ok(Nobody, Clean(r.jar))

\* AccountsController#update and #password: the form may be invalid or the
\* current password wrong.
UpdateAccount(r) == {ShowAccount(r), Refused(Clean(r.jar))}

\* protect_from_forgery: without a token the request ends in an exception,
\* before the session is looked at.
Forged(r) == r.step = "call" /\ r.kind # "account" /\ ~ r.token

Called(r) ==
  IF r.kind = "login" THEN {CreateSession(r)}
  ELSE IF r.kind = "logout" THEN {DestroySession(r)}
  ELSE IF r.kind = "account" THEN {ShowAccount(r)}
  ELSE UpdateAccount(r)

Answers(r) ==
  IF Forged(r) THEN {Error}
  ELSE IF r.step = "csrf" THEN {Ok(Nobody, r.jar)}
  ELSE IF r.step = "current" THEN {CurrentSession(r)}
  ELSE Called(r)

ChangesPassword(r, a) ==
  r.kind \in {"password", "aborted"} /\ r.step = "call" /\ a.ok

\* A changed password has another salt; the session that changed it keeps the
\* old one.
Serve(s) ==
  /\ req[s] # Idle
  /\ req[s].answer = Pending
  /\ \E a \in Answers(req[s]) :
       /\ req' = [req EXCEPT ![s].answer = a]
       /\ IF ChangesPassword(req[s], a)
          THEN LET u == req[s].jar.user
               IN  /\ salt[u] < MaxSalt
                   /\ salt' = [salt EXCEPT ![u] = @ + 1]
                   /\ crossed' = TRUE
          ELSE UNCHANGED <<salt, crossed>>
  /\ UNCHANGED <<cookie, csrf, auth, place, account, lost>>
=============================================================================
